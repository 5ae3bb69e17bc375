----------------------------- MODULE RequestLog -----------------------------
(***************************************************************************)
(* Request observability: the capture middleware                           *)
(* (server/src/request_log_capture.rs), the principal slot the extractor   *)
(* fills (core/src/auth/mod.rs), the ring, the bounded channel and the     *)
(* background writer (core/src/request_log.rs).                            *)
(*                                                                         *)
(* A request's steps interleave with those of other requests, with the     *)
(* writer and with the end of the session the request presented.  A user   *)
(* holds one session, which stands for the token presented.                *)
(***************************************************************************)
EXTENDS Integers, Sequences, FiniteSets, FiniteSetsExt, SequencesExt

CONSTANTS
    Callers,           \* connection tasks
    Owners,            \* users with a session
    Anon,              \* no principal
    RING_CAPACITY, CHANNEL_CAPACITY, BATCH_MAX,
    MaxServed,         \* bound: requests captured
    MaxFaults       \* bound: failed statements, dropped requests, crashes

\* The principal slot before anybody filled it.
Empty == "empty"

ASSUME RequestLogAssumption ==
    /\ {RING_CAPACITY, CHANNEL_CAPACITY, BATCH_MAX} \subseteq Nat \ {0}
    /\ Anon \notin Owners /\ Empty \notin Owners \cup {Anon}
    /\ MaxServed \in Nat

VARIABLES
    live,       \* the users whose session resolves
    capture,    \* per caller: the request between capture and record
    ring,       \* RequestLogSink.ring, oldest first
    channel,    \* the mpsc queue to the writer
    batch,      \* the writer's batch
    rows,       \* table request_logs
    served,     \* ghost: requests captured so far, also the next record's id
    pushed,     \* ghost: every record pushed on the ring since start-up
    dropped,    \* ghost: ids whose database copy was given up
    inserted,   \* ghost: ids the writer inserted, with how often
    faults

vars == <<live, capture, ring, channel, batch, rows, served, pushed, dropped,
             inserted, faults>>

\* The routes told apart: no auth extractor; AuthUser or AdminUser; and a
\* cookie-authenticated write whose CSRF header does not match.
Routes == {"open", "guarded", "forged"}
NoCapture == [at |-> "none"]

Ids(seq) == {seq[i].id : i \in DOMAIN seq}

Fault == faults < MaxFaults /\ faults' = faults + 1

Init ==
    /\ live = Owners
    /\ capture = [c \in Callers |-> NoCapture]
    /\ ring = <<>> /\ channel = <<>> /\ batch = <<>> /\ rows = {}
    /\ served = 0 /\ pushed = <<>> /\ dropped = {}
    /\ inserted = [id \in 1 .. MaxServed |-> 0]
    /\ faults = 0

-----------------------------------------------------------------------------
(* The request *)

\* capture: an empty slot goes into the request's extensions.
Capture(c, route, token) ==
    /\ capture[c] = NoCapture
    /\ served < MaxServed
    /\ route = "forged" => token # Anon
    /\ served' = served + 1
    /\ capture' = [capture EXCEPT ![c] =
           [at |-> "route", route |-> route, token |-> token, id |-> served + 1,
            slot |-> Empty, ran |-> Anon, viable |-> token \in live]]
    /\ UNCHANGED <<live, ring, channel, batch, rows, pushed, dropped, inserted, faults>>

\* What AuthUser publishes.  A CSRF rejection comes before the lookup and leaves
\* the slot empty; no credential, or one that does not resolve, is anonymous.
Published(r) ==
    IF r.route = "guarded" /\ r.token \in live THEN r.token
    ELSE IF r.route = "guarded" THEN Anon ELSE Empty

\* The extractor, then the handler.
Extract(c) ==
    /\ capture[c].at = "route"
    /\ capture' = [capture EXCEPT ![c].at = "answered", ![c].slot = Published(capture[c]),
           ![c].ran = IF capture[c].route = "guarded" /\ capture[c].token \in live
                      THEN capture[c].token ELSE Anon]
    /\ UNCHANGED <<live, ring, channel, batch, rows, served, pushed, dropped, inserted,
                   faults>>

\* user_from_token fails with a database error: reject publishes anonymous.
ExtractFails(c) ==
    /\ Fault
    /\ capture[c].at = "route" /\ capture[c].route = "guarded" /\ capture[c].token # Anon
    /\ capture' = [capture EXCEPT ![c].at = "answered", ![c].slot = Anon, ![c].viable = FALSE]
    /\ UNCHANGED <<live, ring, channel, batch, rows, served, pushed, dropped, inserted>>

resolve_principal(r) == IF r.token \in live THEN r.token ELSE Anon

\* Mutant of Principal: the slot is ignored.
Principal_late(r) == resolve_principal(r)

\* capture reads the slot, and repeats the lookup only when it is empty.
Principal(r) == IF r.slot = Empty THEN resolve_principal(r) ELSE r.slot

ResolvePrincipal(c) ==
    /\ capture[c].at = "answered"
    /\ capture' = [capture EXCEPT ![c] =
           [at |-> "resolved", token |-> @.token, id |-> @.id, ran |-> @.ran,
            viable |-> @.viable, user |-> Principal(@)]]
    /\ UNCHANGED <<live, ring, channel, batch, rows, served, pushed, dropped, inserted,
                   faults>>

\* resolve_principal swallows a database error.
ResolveFails(c) ==
    /\ Fault
    /\ capture[c].at = "answered" /\ capture[c].slot = Empty /\ capture[c].token # Anon
    /\ capture' = [capture EXCEPT ![c] =
           [at |-> "resolved", token |-> @.token, id |-> @.id, ran |-> @.ran,
            viable |-> FALSE, user |-> Anon]]
    /\ UNCHANGED <<live, ring, channel, batch, rows, served, pushed, dropped, inserted>>

Record(r) == [id |-> r.id, user |-> r.user, ran |-> r.ran, token |-> r.token, viable |-> r.viable]

\* Mutant of PushedOn: the newest record makes room.
PushedOn_newest(log) ==
    IF Len(ring) = RING_CAPACITY THEN Append(Front(ring), log) ELSE Append(ring, log)

\* record, under the ring's lock
PushedOn(log) ==
    IF Len(ring) = RING_CAPACITY THEN Append(Tail(ring), log) ELSE Append(ring, log)

PushRing(c) ==
    /\ capture[c].at = "resolved"
    /\ ring' = PushedOn(Record(capture[c]))
    /\ pushed' = Append(pushed, Record(capture[c]))
    /\ capture' = [capture EXCEPT ![c].at = "pushed"]
    /\ UNCHANGED <<live, channel, batch, rows, served, dropped, inserted, faults>>

\* try_send after the lock is released: a full channel drops the record.
TrySend(c) ==
    LET r == capture[c] IN
    /\ r.at = "pushed"
    /\ IF Len(channel) < CHANNEL_CAPACITY
       THEN channel' = Append(channel, Record(r)) /\ UNCHANGED dropped
       ELSE dropped' = dropped \cup {r.id} /\ UNCHANGED channel
    /\ capture' = [capture EXCEPT ![c] = NoCapture]
    /\ UNCHANGED <<live, ring, batch, rows, served, pushed, inserted, faults>>

\* The client goes away and the request's future is dropped at an await.
Disconnect(c) ==
    /\ Fault
    /\ capture[c].at \in {"route", "answered"}
    /\ dropped' = dropped \cup {capture[c].id}
    /\ capture' = [capture EXCEPT ![c] = NoCapture]
    /\ UNCHANGED <<live, ring, channel, batch, rows, served, pushed, inserted>>

\* A session ends: logout, revocation, block or expiry.
EndSession(u) ==
    /\ u \in live
    /\ live' = live \ {u}
    /\ capture' = [c \in Callers |->
           IF capture[c].at \in {"route", "answered"} /\ capture[c].token = u
           THEN [capture[c] EXCEPT !.viable = FALSE] ELSE capture[c]]
    /\ UNCHANGED <<ring, channel, batch, rows, served, pushed, dropped, inserted, faults>>

-----------------------------------------------------------------------------
(* The writer *)

\* writer_loop waits for the first row, then lingers for more.
Receive ==
    /\ channel # <<>> /\ Len(batch) < BATCH_MAX
    /\ batch' = Append(batch, Head(channel))
    /\ channel' = Tail(channel)
    /\ UNCHANGED <<live, capture, ring, rows, served, pushed, dropped, inserted, faults>>

\* Mutant of BatchDue: no linger, only a full batch is written.
BatchDue_full == Len(batch) = BATCH_MAX

\* Full, or BATCH_LINGER has passed.
BatchDue == batch # <<>>

Count(ids) == [id \in DOMAIN inserted |-> inserted[id] + (IF id \in ids THEN 1 ELSE 0)]

InsertBatch ==
    /\ BatchDue
    /\ rows' = rows \cup Ids(batch)
    /\ inserted' = Count(Ids(batch))
    /\ batch' = <<>>
    /\ UNCHANGED <<live, capture, ring, channel, served, pushed, dropped, faults>>

\* Mutant of AfterFailure: a failed batch is tried again.
AfterFailure_keep(b) == b

\* The batch is cleared whatever the INSERT answered.
AfterFailure(b) == <<>>

\* The INSERT answers an error; it may have been committed before the answer
\* was lost.
InsertFails(committed) ==
    /\ Fault /\ BatchDue
    /\ rows' = IF committed THEN rows \cup Ids(batch) ELSE rows
    /\ inserted' = IF committed THEN Count(Ids(batch)) ELSE inserted
    /\ dropped' = IF committed THEN dropped ELSE dropped \cup Ids(batch)
    /\ batch' = AfterFailure(batch)
    /\ UNCHANGED <<live, capture, ring, channel, served, pushed>>

\* delete_request_logs_older_than: the records up to one moment
DeleteAged(last) ==
    /\ \E id \in rows : id <= last
    /\ rows' = {id \in rows : id > last}
    /\ UNCHANGED <<live, capture, ring, channel, batch, served, pushed, dropped, inserted,
                   faults>>

\* The process dies and starts again: only the table survives.
Crash ==
    /\ Fault
    /\ dropped' = dropped \cup Ids(channel) \cup Ids(batch) \cup
           {capture[c].id : c \in {d \in Callers : capture[d].at # "none"}}
    /\ capture' = [c \in Callers |-> NoCapture]
    /\ ring' = <<>> /\ channel' = <<>> /\ batch' = <<>> /\ pushed' = <<>>
    /\ UNCHANGED <<live, rows, served, inserted>>

RequestStep(c) == Extract(c) \/ ResolvePrincipal(c) \/ PushRing(c) \/ TrySend(c)

Next ==
    \/ \E c \in Callers : RequestStep(c) \/ ExtractFails(c) \/ ResolveFails(c) \/ Disconnect(c)
    \/ \E c \in Callers, route \in Routes, token \in Owners \cup {Anon} : Capture(c, route, token)
    \/ \E u \in Owners : EndSession(u)
    \/ Receive \/ InsertBatch
    \/ \E committed \in BOOLEAN : InsertFails(committed)
    \/ \E last \in rows : DeleteAged(last)
    \/ Crash

(***************************************************************************)
(* Fairness: the runtime polls every ready task, so a captured request and *)
(* the writer keep moving (its linger has a timer); nothing is assumed of  *)
(* clients, of the hourly cleanup or of faults.                            *)
(***************************************************************************)
Spec ==
    /\ Init /\ [][Next]_vars
    /\ \A c \in Callers : WF_vars(RequestStep(c))
    /\ WF_vars(Receive) /\ WF_vars(InsertBatch)

-----------------------------------------------------------------------------
(* Properties *)

\* A record names the user its handler ran as, even when the session ended
\* before the record was made; and a request rejected for CSRF, or served by a
\* route without an extractor, names the owner of the session it presented as
\* long as that session stayed live and no lookup failed.
Attributed ==
    \A i \in DOMAIN pushed : LET log == pushed[i] IN
        /\ log.ran # Anon => log.user = log.ran
        /\ log.viable => log.user = log.token

\* The ring and the database disagree only by a record that was given up: a
\* record that left its request is exactly one of queued, in the writer's
\* batch, inserted once, or dropped by a full channel, a failed INSERT or a
\* crash.
Accounted ==
    \A id \in 1 .. served :
        LET open == \E c \in Callers : capture[c].at # "none" /\ capture[c].id = id
            places == {p \in {"open", "channel", "batch", "inserted", "dropped"} :
                \/ p = "open" /\ open
                \/ p = "channel" /\ id \in Ids(channel)
                \/ p = "batch" /\ id \in Ids(batch)
                \/ p = "inserted" /\ inserted[id] > 0
                \/ p = "dropped" /\ id \in dropped}
        IN  Cardinality(places) = 1 /\ inserted[id] <= 1

\* The live tail is the newest RING_CAPACITY records since start-up, in the
\* order in which they took the lock.
LiveTail == ring = SubSeq(pushed, Max({1, Len(pushed) - RING_CAPACITY + 1}), Len(pushed))

\* Every captured request ends up in the table or is given up, also when no
\* traffic follows it: again and again nothing is on its way.
EventuallyStored ==
    []<>(\A id \in 1 .. served : inserted[id] > 0 \/ id \in dropped)
=============================================================================
