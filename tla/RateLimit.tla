----------------------------- MODULE RateLimit -----------------------------
(***************************************************************************)
(* The in-process sliding-window limiter in front of the credential        *)
(* endpoints (crates/server/src/ratelimit.rs) and the resolution of the    *)
(* client address it keys on (crates/server/src/ip.rs).                    *)
(*                                                                         *)
(* A request reads the clock (Arrive) BEFORE it takes the lock (Check), so *)
(* two requests may enter the limiter in the other order than their        *)
(* stamps.  Everything under the lock is one step.  Instants are clock     *)
(* ticks; a cutoff before tick 0 is representable, as it is for a Linux    *)
(* Instant, so checked_sub never falls back.                               *)
(***************************************************************************)
EXTENDS Integers, Sequences, FiniteSets, FiniteSetsExt, SequencesExt, Functions

CONSTANTS
    Tasks,            \* connection tasks
    V4, V6,           \* client addresses, as records [family, net, host]
    NoIp,             \* no source yields a parseable address
    Spoofs,           \* X-Forwarded-For values a client may send itself
    max_attempts, window, MAX_TRACKED_IPS, EVICT_BATCH,
    MaxNow,           \* bound: last tick of the clock
    MaxAdmitted       \* bound: requests admitted

ASSUME RateLimitAssumption ==
    /\ max_attempts \in Nat \ {0} /\ window \in Nat \ {0}
    /\ MAX_TRACKED_IPS \in Nat \ {0} /\ EVICT_BATCH \in 1 .. MAX_TRACKED_IPS
    /\ V4 \subseteq [family: {4}, net: Nat, host: Nat]
    /\ V6 \subseteq [family: {6}, net: Nat, host: Nat]
    /\ NoIp \notin [family: Nat, net: Nat, host: Nat]
    /\ Spoofs \subseteq Seq([family: Nat, net: Nat, host: Nat])

VARIABLES
    trusted_proxy,    \* configuration, fixed at start-up
    now,              \* the monotonic clock
    attempts,         \* per caller: nothing, or the request waiting for the lock
    map,              \* Buckets.map
    last_sweep,       \* Buckets.last_sweep
    unresolved,       \* the shared bucket of requests without an address
    admitted,         \* ghost: <<who, stamp>> of every admitted request
    skewed,           \* ghost: some stamp entered after a later one
    evicted           \* ghost: keys that lost their bucket at the cap

limiter_vars == <<trusted_proxy, now, attempts, map, last_sweep, unresolved,
                  admitted, skewed, evicted>>

Addresses == V4 \cup V6
NoAttempt == [at |-> -1]
Never     == -1

-----------------------------------------------------------------------------
(* ip.rs *)

\* What the server sees of a request that origin sent with the header spoof:
\* a trusted proxy appends the peer it saw and is itself the transport peer.
\* A router served without ConnectInfo has no peer at all.
Seen(origin, spoof) ==
    IF trusted_proxy THEN [forwarded |-> Append(spoof, origin), peer |-> NoIp]
                     ELSE [forwarded |-> spoof, peer |-> origin]

\* The right-most parseable hop behind a trusted proxy, else the peer.
client_ip(headers) ==
    LET hops == {i \in DOMAIN headers.forwarded : headers.forwarded[i] \in Addresses}
    IN  IF trusted_proxy /\ hops # {} THEN headers.forwarded[Max(hops)] ELSE headers.peer

\* Mutant of limiter_key: every IPv6 address counts for itself.
full_address(ip) == ip

\* An IPv6 address counts as its /64 prefix.
limiter_key(ip) == IF ip \in V4 THEN ip ELSE [ip EXCEPT !.host = 0]

-----------------------------------------------------------------------------
(* Buckets *)

Newest(bucket) == IF bucket = <<>> THEN Never ELSE Last(bucket)

\* Mutant of Pruned: a hit exactly one window old still counts.
Pruned_inclusive(bucket, cutoff) ==
    LET kept == {i \in DOMAIN bucket : bucket[i] >= cutoff}
    IN  IF kept = {} THEN <<>> ELSE SubSeq(bucket, Min(kept), Len(bucket))

\* Hits at or before the cutoff leave from the front; the bucket is not sorted
\* when stamps entered out of order, and what stands behind a newer hit stays.
Pruned(bucket, cutoff) ==
    LET kept == {i \in DOMAIN bucket : bucket[i] > cutoff}
    IN  IF kept = {} THEN <<>> ELSE SubSeq(bucket, Min(kept), Len(bucket))

SweepDue(at) == last_sweep = Never \/ at - last_sweep >= window

\* sweep_if_due keeps the buckets whose NEWEST hit is inside the window.
Swept(at) ==
    IF SweepDue(at)
    THEN Restrict(map, {k \in DOMAIN map : Newest(map[k]) > at - window})
    ELSE map

\* evict_stalest: the victims are the EVICT_BATCH keys least recently active.
Stalest(buckets, victims) ==
    /\ Cardinality(victims) = Min({EVICT_BATCH, Cardinality(DOMAIN buckets)})
    /\ \A v \in victims, k \in DOMAIN buckets \ victims :
           Newest(buckets[v]) <= Newest(buckets[k])

\* Mutant of AtCap: > for >=.
AtCap_late(buckets, key) ==
    Cardinality(DOMAIN buckets) > MAX_TRACKED_IPS /\ key \notin DOMAIN buckets

AtCap(buckets, key) ==
    Cardinality(DOMAIN buckets) >= MAX_TRACKED_IPS /\ key \notin DOMAIN buckets

Full(bucket) == Len(bucket) >= max_attempts

-----------------------------------------------------------------------------
LimiterInit ==
    /\ trusted_proxy \in BOOLEAN
    /\ now = 0
    /\ attempts = [c \in Tasks |-> NoAttempt]
    /\ map = << >>
    /\ last_sweep = Never
    /\ unresolved = <<>>
    /\ admitted = {}
    /\ skewed = FALSE
    /\ evicted = {}

Tick ==
    /\ now < MaxNow
    /\ now' = now + 1
    /\ UNCHANGED <<trusted_proxy, attempts, map, last_sweep, unresolved, admitted,
                   skewed, evicted>>

\* rate_limit_middleware up to the lock: the path is a throttled one, the
\* address is resolved, Instant::now() is read.
Arrive(c, origin, spoof) ==
    /\ attempts[c] = NoAttempt
    /\ Cardinality(admitted) < MaxAdmitted
    /\ trusted_proxy => origin # NoIp
    /\ attempts' = [attempts EXCEPT ![c] =
           [at |-> now, origin |-> origin, ip |-> client_ip(Seen(origin, spoof))]]
    /\ UNCHANGED <<trusted_proxy, now, map, last_sweep, unresolved, admitted,
                   skewed, evicted>>

\* Ghosts of a check of caller c that ends with the verdict ok.
Witness(c, ok) ==
    LET a == attempts[c] IN
    /\ attempts' = [attempts EXCEPT ![c] = NoAttempt]
    /\ admitted' = IF ok THEN admitted \cup {[who |-> a.origin, at |-> a.at, nth |-> Cardinality(admitted)]}
                         ELSE admitted
    /\ skewed' = (skewed \/ last_sweep > a.at \/ \E h \in admitted : h.at > a.at)
    /\ UNCHANGED <<trusted_proxy, now>>

\* check_at, all under the lock
CheckAt(c, ok) ==
    LET a == attempts[c]
        key == limiter_key(a.ip)
        swept == Swept(a.at)
    IN  /\ a # NoAttempt /\ a.ip # NoIp
        /\ last_sweep' = IF SweepDue(a.at) THEN a.at ELSE last_sweep
        /\ \E victims \in SUBSET DOMAIN swept :
             /\ IF AtCap(swept, key) THEN Stalest(swept, victims) ELSE victims = {}
             /\ evicted' = evicted \cup victims
             /\ LET kept == Restrict(swept, DOMAIN swept \ victims)
                    bucket == Pruned(IF key \in DOMAIN kept THEN kept[key] ELSE <<>>, a.at - window)
                IN  /\ ok = ~Full(bucket)
                    /\ map' = [k \in DOMAIN kept \cup {key} |->
                            IF k # key THEN kept[k] ELSE IF ok THEN Append(bucket, a.at) ELSE bucket]
        /\ Witness(c, ok)
        /\ UNCHANGED unresolved

\* check_unresolved_at
CheckUnresolvedAt(c, ok) ==
    LET a == attempts[c]
        bucket == Pruned(unresolved, a.at - window)
    IN  /\ a # NoAttempt /\ a.ip = NoIp
        /\ ok = ~Full(bucket)
        /\ unresolved' = IF ok THEN Append(bucket, a.at) ELSE bucket
        /\ Witness(c, ok)
        /\ UNCHANGED <<map, last_sweep, evicted>>

\* TRUE goes on to the router, FALSE answers 429.
Check(c, ok) == CheckAt(c, ok) \/ CheckUnresolvedAt(c, ok)

LimiterNext ==
    \/ Tick
    \/ \E c \in Tasks :
        \/ \E origin \in Addresses \cup {NoIp}, spoof \in Spoofs : Arrive(c, origin, spoof)
        \/ \E ok \in BOOLEAN : Check(c, ok)

LimiterSpec == LimiterInit /\ [][LimiterNext]_limiter_vars

-----------------------------------------------------------------------------
(* Properties *)

\* One subscriber: an address, or all the addresses of one IPv6 /64.
SameClient(a, b) ==
    \/ a = b
    \/ NoIp \notin {a, b} /\ a.family = 6 /\ b.family = 6 /\ a.net = b.net

Hits(who, from, to) == {h \in admitted : SameClient(h.who, who) /\ h.at > from /\ h.at <= to}

EvictedClient(who) == \E k \in evicted : SameClient(k, who)

\* Within any trailing window no client is admitted more than max_attempts
\* times, whatever addresses of its /64 or forwarding headers it uses, unless
\* its bucket was evicted at the cap or a stamp entered the limiter late.
WindowCap ==
    ~skewed => \A h \in admitted : EvictedClient(h.who) \/
        Cardinality(Hits(h.who, h.at - window, h.at)) <= max_attempts

\* A client is refused only for its own admitted hits inside the window: other
\* clients, at the cap or not, never spend its budget.
RefusedForOwnHits ==
    [][\A c \in Tasks :
        LET a == attempts[c] IN
        Check(c, FALSE) /\ ~skewed'
        => Cardinality(Hits(a.origin, a.at - window, a.at)) >= max_attempts]_limiter_vars

\* The memory of the limiter is bounded whatever clients arrive: at most
\* MAX_TRACKED_IPS buckets, of at most max_attempts hits.
MemoryBounded ==
    /\ Cardinality(DOMAIN map) <= MAX_TRACKED_IPS
    /\ \A k \in DOMAIN map : Len(map[k]) <= max_attempts
    /\ Len(unresolved) <= max_attempts
=============================================================================
