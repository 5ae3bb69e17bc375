---------------------------- MODULE ServerProofs ----------------------------
(***************************************************************************)
(* The two middlewares of the server.  The request log, for any number of  *)
(* callers and any capacities: whom a record names, what the live tail     *)
(* shows, and that no record is lost unaccounted for or inserted twice.    *)
(* The rate limiter, for any number of clients and any budget, window and  *)
(* table size: whom it refuses, whom it does not, and what it keeps.       *)
(***************************************************************************)
EXTENDS RequestLog, RateLimit, FiniteSetTheorems, SequenceTheorems, WellFoundedInduction, TLAPS

Users == Owners \cup {Anon}
Log == [id : Nat, user : Users, ran : Users, token : Users, viable : BOOLEAN]

(* What a record must say, and what a request on its way to its record       *)
(* carries: a handler that ran published its principal, and a viable token   *)
(* is still live.                                                            *)
Tells(log) == (log.ran # Anon => log.user = log.ran) /\ (log.viable => log.user = log.token)

CaptureGood(r) ==
    /\ r.at \in {"none", "route", "answered", "resolved", "pushed"}
    /\ r.at # "none" => r.id \in Nat /\ r.token \in Users /\ r.ran \in Users /\ r.viable \in BOOLEAN
    /\ r.at \in {"route", "answered"} => (r.viable => r.token \in live)
    /\ r.at = "route" => r.ran = Anon
    /\ r.at = "answered" =>
         /\ r.slot \in Users \cup {Empty}
         /\ r.ran # Anon => r.slot = r.ran
         /\ r.viable => r.slot \in {Empty, r.token}
    /\ r.at \in {"resolved", "pushed"} => r.user \in Users /\ Tells(r)

CapturesOK ==
    /\ live \subseteq Owners
    /\ DOMAIN capture = Callers /\ \A c \in Callers : CaptureGood(capture[c])

SeqsOK == pushed \in Seq(Log) /\ ring \in Seq(Log) /\ channel \in Seq(Log) /\ batch \in Seq(Log)

LogsOK == \A i \in 1 .. Len(pushed) : Tells(pushed[i])

(* The ring is the end of what was pushed.                                   *)
RingOK ==
    /\ Len(ring) = IF Len(pushed) <= RING_CAPACITY THEN Len(pushed) ELSE RING_CAPACITY
    /\ \A i \in 1 .. Len(ring) : ring[i] = pushed[Len(pushed) - Len(ring) + i]

(* The five places a request's id can be in share the ids given out.         *)
Open == {capture[c].id : c \in {d \in Callers : capture[d].at # "none"}}
Inserted == {id \in 1 .. MaxServed : inserted[id] = 1}

Split(A, B, C, D, E, n) ==
    /\ A \cup B \cup C \cup D \cup E = 1 .. n
    /\ A \cap B = {} /\ A \cap C = {} /\ A \cap D = {} /\ A \cap E = {} /\ B \cap C = {}
    /\ B \cap D = {} /\ B \cap E = {} /\ C \cap D = {} /\ C \cap E = {} /\ D \cap E = {}

PlacesOK ==
    /\ served \in 0 .. MaxServed /\ inserted \in [1 .. MaxServed -> {0, 1}]
    /\ Split(Open, Ids(channel), Ids(batch), Inserted, dropped, served)
    /\ \A c, d \in Callers : c # d /\ capture[c].at # "none" /\ capture[d].at # "none" =>
         capture[c].id # capture[d].id
    /\ \A i, j \in 1 .. Len(channel) : i # j => channel[i].id # channel[j].id

LogInv == CapturesOK /\ SeqsOK /\ LogsOK /\ RingOK /\ PlacesOK

-----------------------------------------------------------------------------
(* Sequences of records.                                                     *)
LEMMA IdsEmpty == Ids(<<>>) = {}
BY DEF Ids

LEMMA IdsAppend ==
    ASSUME NEW s \in Seq(Log), NEW log \in Log
    PROVE  Ids(Append(s, log)) = Ids(s) \cup {log.id}
<1> DEFINE t == Append(s, log)
<1>1. /\ t \in Seq(Log) /\ Len(t) = Len(s) + 1
      /\ \A i \in 1 .. Len(s) : t[i] = s[i]
      /\ t[Len(s) + 1] = log
  BY AppendProperties
<1>2. Len(s) \in Nat /\ DOMAIN s = 1 .. Len(s) /\ DOMAIN t = 1 .. Len(t)
  BY <1>1, LenProperties
<1> HIDE DEF t
<1>3. \A i \in DOMAIN t : i \in DOMAIN s \/ i = Len(s) + 1
  BY <1>1, <1>2
<1>4. DOMAIN s \subseteq DOMAIN t /\ Len(s) + 1 \in DOMAIN t
  BY <1>1, <1>2
<1>5. \A x \in Ids(t) : x \in Ids(s) \cup {log.id}
  BY <1>1, <1>2, <1>3 DEF Ids
<1>6. \A x \in Ids(s) \cup {log.id} : x \in Ids(t)
  BY <1>1, <1>2, <1>4 DEF Ids
<1> QED BY <1>5, <1>6 DEF t

LEMMA IdsTail ==
    ASSUME NEW s \in Seq(Log), s # <<>>,
           \A i, j \in 1 .. Len(s) : i # j => s[i].id # s[j].id
    PROVE  /\ Head(s) \in Log /\ Head(s).id \in Ids(s) /\ Ids(Tail(s)) = Ids(s) \ {Head(s).id}
           /\ \A i, j \in 1 .. Len(Tail(s)) : i # j => Tail(s)[i].id # Tail(s)[j].id
<1> DEFINE t == Tail(s)
<1>1. /\ Head(s) \in Log /\ t \in Seq(Log) /\ Len(t) = Len(s) - 1
      /\ \A i \in 1 .. Len(t) : t[i] = s[i + 1]
  BY HeadTailProperties
<1>2. /\ Len(s) \in Nat /\ Len(s) > 0 /\ DOMAIN s = 1 .. Len(s) /\ DOMAIN t = 1 .. Len(t)
      /\ Head(s) = s[1]
  BY <1>1, LenProperties, EmptySeq
<1> HIDE DEF t
<1>3. \A i \in 1 .. Len(t) : i + 1 \in 1 .. Len(s) /\ i + 1 # 1 /\ t[i].id = s[i + 1].id
  BY <1>1, <1>2
<1>4. \A i \in 1 .. Len(s) : i # 1 => i - 1 \in 1 .. Len(t) /\ t[i - 1] = s[i]
  BY <1>1, <1>2
<1>5. ASSUME NEW x \in Ids(t) PROVE x \in Ids(s) /\ x # s[1].id
  <2>1. PICK i \in 1 .. Len(t) : x = t[i].id
    BY <1>2 DEF Ids
  <2>2. i + 1 \in 1 .. Len(s) /\ i + 1 # 1 /\ 1 \in 1 .. Len(s) /\ x = s[i + 1].id
    BY <1>2, <1>3, <2>1
  <2> QED BY <1>2, <2>2 DEF Ids
<1>6. ASSUME NEW x \in Ids(s), x # s[1].id PROVE x \in Ids(t)
  <2>1. PICK i \in 1 .. Len(s) : x = s[i].id
    BY <1>2 DEF Ids
  <2>2. PICK j \in 1 .. Len(t) : x = t[j].id
    BY <1>4, <1>6, <2>1
  <2> QED BY <1>2, <2>2 DEF Ids
<1>7. \A i, j \in 1 .. Len(t) : i # j => t[i].id # t[j].id
  BY <1>2, <1>3
<1>8. s[1].id \in Ids(s)
  BY <1>2 DEF Ids
<1> QED BY <1>1, <1>2, <1>5, <1>6, <1>7, <1>8 DEF t

LEMMA DistinctAppend ==
    ASSUME NEW s \in Seq(Log), NEW log \in Log, log.id \notin Ids(s),
           \A i, j \in 1 .. Len(s) : i # j => s[i].id # s[j].id
    PROVE  \A i, j \in 1 .. Len(Append(s, log)) :
              i # j => Append(s, log)[i].id # Append(s, log)[j].id
<1> DEFINE t == Append(s, log)
<1>1. /\ Len(t) = Len(s) + 1 /\ t[Len(s) + 1] = log /\ Len(s) \in Nat
      /\ \A i \in 1 .. Len(s) : t[i] = s[i] /\ s[i].id # log.id
  BY AppendProperties, LenProperties DEF Ids
<1> HIDE DEF t
<1>2. \A i \in 1 .. Len(t) : i \in 1 .. Len(s) \/ i = Len(s) + 1
  BY <1>1
<1>3. \A i, j \in 1 .. Len(t) : i # j => t[i].id # t[j].id
  BY <1>1, <1>2
<1> QED BY <1>3 DEF t

-----------------------------------------------------------------------------
(* The captured requests.                                                    *)
LEMMA CaptureMoves ==
    ASSUME CapturesOK, NEW c \in Callers, NEW q, capture' = [capture EXCEPT ![c] = q],
           live' = live, CaptureGood(q)
    PROVE  CapturesOK' /\ capture'[c] = q /\ \A d \in Callers : d # c => capture'[d] = capture[d]
<1>1. DOMAIN capture' = Callers /\ capture'[c] = q /\ \A d \in Callers : d # c => capture'[d] = capture[d]
  BY DEF CapturesOK
<1> QED BY <1>1 DEF CapturesOK, CaptureGood

LEMMA Nothing == CaptureGood(NoCapture) /\ NoCapture.at = "none"
BY DEF CaptureGood, NoCapture

LEMMA Recorded ==
    ASSUME CapturesOK, NEW c \in Callers, capture[c].at \in {"resolved", "pushed"}
    PROVE  /\ Record(capture[c]) \in Log /\ Tells(Record(capture[c]))
           /\ Record(capture[c]).id = capture[c].id
BY DEF CapturesOK, CaptureGood, Record, Log, Tells

(* No id changes place.                                                      *)
LEMMA PlacesStay ==
    ASSUME PlacesOK, UNCHANGED <<channel, batch, inserted, dropped, served>>,
           \A c \in Callers : (capture'[c].at = "none") <=> (capture[c].at = "none"),
           \A c \in Callers : capture[c].at # "none" => capture'[c].id = capture[c].id
    PROVE  PlacesOK'
<1>1. Open' = Open
  <2>1. \A x \in Open : x \in Open'
    BY DEF Open
  <2>2. \A x \in Open' : x \in Open
    BY DEF Open
  <2> QED BY <2>1, <2>2
<1>2. Inserted' = Inserted /\ Ids(channel)' = Ids(channel) /\ Ids(batch)' = Ids(batch)
  BY DEF Inserted, Ids
<1>3. \A c, d \in Callers : c # d /\ capture'[c].at # "none" /\ capture'[d].at # "none" =>
        capture'[c].id # capture'[d].id
  BY DEF PlacesOK
<1> QED BY <1>1, <1>2, <1>3 DEF PlacesOK

(* A request is over: its id leaves the open ones.                           *)
LEMMA OpenLeaves ==
    ASSUME CapturesOK, PlacesOK, NEW c \in Callers, capture[c].at # "none",
           capture' = [capture EXCEPT ![c] = NoCapture]
    PROVE  /\ Open' = Open \ {capture[c].id} /\ capture[c].id \in Open
           /\ \A d, e \in Callers : d # e /\ capture'[d].at # "none" /\ capture'[e].at # "none" =>
                capture'[d].id # capture'[e].id
<1>1. capture'[c].at = "none" /\ \A d \in Callers : d # c => capture'[d] = capture[d]
  BY Nothing DEF CapturesOK
<1>2. \A d \in Callers : d # c /\ capture[d].at # "none" => capture[d].id # capture[c].id
  BY DEF PlacesOK
<1>3. capture[c].id \in Open
  BY DEF Open
<1>4. \A x \in Open' : x \in Open /\ x # capture[c].id
  BY <1>1, <1>2 DEF Open
<1>5. \A x \in Open : x # capture[c].id => x \in Open'
  BY <1>1 DEF Open
<1>6. Open' = Open \ {capture[c].id}
  BY <1>4, <1>5
<1>7. \A d, e \in Callers : d # e /\ capture'[d].at # "none" /\ capture'[e].at # "none" =>
        capture'[d].id # capture'[e].id
  BY <1>1 DEF PlacesOK
<1> QED BY <1>3, <1>6, <1>7

(* The steps of a request before its record.                                 *)
LEMMA RequestMoves ==
    ASSUME LogInv, NEW c \in Callers, capture[c].at # "none",
           DOMAIN capture' = Callers, \A d \in Callers : d # c => capture'[d] = capture[d],
           CaptureGood(capture'[c]), capture'[c].at # "none", capture'[c].id = capture[c].id,
           UNCHANGED <<live, ring, channel, batch, served, pushed, dropped, inserted>>
    PROVE  LogInv'
<1>1. CapturesOK'
  <2>1. \A d \in Callers : CaptureGood(capture'[d])
    BY DEF LogInv, CapturesOK
  <2> QED BY <2>1 DEF LogInv, CapturesOK, CaptureGood
<1>2. PlacesOK'
  BY PlacesStay DEF LogInv
<1>3. SeqsOK' /\ LogsOK' /\ RingOK'
  BY DEF LogInv, SeqsOK, LogsOK, RingOK, Tells
<1> QED BY <1>1, <1>2, <1>3 DEF LogInv

(* The handler runs as the principal that the extractor published.           *)
LEMMA ExtractKeepsInv ==
    ASSUME LogInv, NEW c \in Callers, Extract(c) \/ ExtractFails(c)
    PROVE  LogInv'
<1>1. /\ capture[c].at = "route" /\ CaptureGood(capture[c]) /\ live \subseteq Owners
      /\ DOMAIN capture = Callers
      /\ UNCHANGED <<live, ring, channel, batch, served, pushed, dropped, inserted>>
  BY DEF Extract, ExtractFails, LogInv, CapturesOK
<1>2. /\ DOMAIN capture' = Callers /\ \A d \in Callers : d # c => capture'[d] = capture[d]
      /\ capture'[c].at = "answered" /\ capture'[c].id = capture[c].id
      /\ capture'[c].token = capture[c].token
  <2>1. CASE Extract(c)
    BY <1>1, <2>1 DEF Extract
  <2>2. CASE ExtractFails(c)
    BY <1>1, <2>2 DEF ExtractFails
  <2> QED BY <2>1, <2>2
<1>3. CaptureGood(capture'[c])
  <2>1. CASE Extract(c)
    <3>1. /\ capture'[c].slot = Published(capture[c]) /\ capture'[c].viable = capture[c].viable
          /\ capture'[c].ran = IF capture[c].route = "guarded" /\ capture[c].token \in live
                               THEN capture[c].token ELSE Anon
      BY <1>1, <2>1 DEF Extract
    <3>2. capture[c].token \in Users /\ (capture[c].viable => capture[c].token \in live)
      BY <1>1 DEF CaptureGood
    <3>3. /\ Published(capture[c]) \in Users \cup {Empty}
          /\ capture'[c].ran \in Users
          /\ capture'[c].ran # Anon => Published(capture[c]) = capture'[c].ran
          /\ capture[c].viable => Published(capture[c]) \in {Empty, capture[c].token}
      BY <3>1, <3>2 DEF Published, Users
    <3> QED BY <1>1, <1>2, <3>1, <3>2, <3>3 DEF CaptureGood
  <2>2. CASE ExtractFails(c)
    <3>1. /\ capture'[c].slot = Anon /\ capture'[c].viable = FALSE
          /\ capture'[c].ran = capture[c].ran
      BY <1>1, <2>2 DEF ExtractFails
    <3>2. capture[c].ran = Anon
      BY <1>1 DEF CaptureGood
    <3> QED BY <1>1, <1>2, <3>1, <3>2 DEF CaptureGood, Users
  <2> QED BY <2>1, <2>2
<1> QED BY <1>1, <1>2, <1>3, RequestMoves

(* A filled slot names whom the handler ran as; an empty one means that no   *)
(* handler ran as anybody, and the lookup is repeated.                       *)
LEMMA ResolveKeepsInv ==
    ASSUME LogInv, NEW c \in Callers, ResolvePrincipal(c) \/ ResolveFails(c)
    PROVE  LogInv'
<1>1. /\ capture[c].at = "answered" /\ CaptureGood(capture[c]) /\ live \subseteq Owners
      /\ DOMAIN capture = Callers
      /\ UNCHANGED <<live, ring, channel, batch, served, pushed, dropped, inserted>>
  BY DEF ResolvePrincipal, ResolveFails, LogInv, CapturesOK
<1>2. PICK r : r = capture[c]
  OBVIOUS
<1>3. PICK user, viable :
         /\ capture' = [capture EXCEPT ![c] = [at |-> "resolved", token |-> r.token, id |-> r.id,
                                               ran |-> r.ran, viable |-> viable, user |-> user]]
         /\ \/ user = Principal(r) /\ viable = r.viable
            \/ user = Anon /\ viable = FALSE /\ r.slot = Empty
  BY <1>1, <1>2 DEF ResolvePrincipal, ResolveFails
<1> DEFINE q == [at |-> "resolved", token |-> r.token, id |-> r.id, ran |-> r.ran,
                 viable |-> viable, user |-> user]
<1>4. /\ r.id \in Nat /\ r.token \in Users /\ r.ran \in Users /\ r.viable \in BOOLEAN
      /\ r.viable => r.token \in live
      /\ r.slot \in Users \cup {Empty} /\ (r.ran # Anon => r.slot = r.ran)
      /\ r.viable => r.slot \in {Empty, r.token}
  BY <1>1, <1>2 DEF CaptureGood
<1>5. r.ran # Anon => r.slot # Empty
  BY <1>4, RequestLogAssumption DEF Users
<1>6. /\ user \in Users /\ viable \in BOOLEAN
      /\ r.ran # Anon => user = r.ran
      /\ viable => user = r.token
  BY <1>3, <1>4, <1>5 DEF Principal, resolve_principal, Users
<1>7. CaptureGood(q) /\ q.at # "none" /\ q.id = r.id
  BY <1>4, <1>6 DEF CaptureGood, Tells
<1>8. capture' = [capture EXCEPT ![c] = q]
  BY <1>3
<1> HIDE DEF q
<1>9. DOMAIN capture' = Callers /\ capture'[c] = q /\ \A d \in Callers : d # c => capture'[d] = capture[d]
  BY <1>1, <1>8
<1> QED BY <1>1, <1>2, <1>7, <1>9, RequestMoves

(* A new request takes the next id.                                          *)
LEMMA CaptureKeepsInv ==
    ASSUME LogInv, NEW c \in Callers, NEW route, NEW token \in Users, Capture(c, route, token)
    PROVE  LogInv'
<1>0. PICK viable \in BOOLEAN : viable = (token \in live)
  <2>1. (token \in live) \in BOOLEAN
    OBVIOUS
  <2> QED BY <2>1, Zenon
<1> DEFINE q == [at |-> "route", route |-> route, token |-> token, id |-> served + 1,
                 slot |-> Empty, ran |-> Anon, viable |-> viable]
<1>1. /\ capture[c].at = "none" /\ served \in Nat /\ served < MaxServed /\ served' = served + 1
      /\ capture' = [capture EXCEPT ![c] = q]
      /\ UNCHANGED <<live, ring, channel, batch, pushed, dropped, inserted>>
  BY <1>0, RequestLogAssumption, Nothing DEF Capture, LogInv, PlacesOK
<1>2. CaptureGood(q) /\ q.at = "route" /\ q.id = served + 1
  <2>1. viable => token \in live
    BY <1>0
  <2>2. served + 1 \in Nat
    BY <1>1
  <2> QED BY <2>1, <2>2 DEF CaptureGood, Users
<1> HIDE DEF q
<1>3. CapturesOK' /\ capture'[c] = q /\ \A d \in Callers : d # c => capture'[d] = capture[d]
  BY <1>1, <1>2, CaptureMoves DEF LogInv
<1>4. SeqsOK' /\ LogsOK' /\ RingOK'
  BY <1>1 DEF LogInv, SeqsOK, LogsOK, RingOK, Tells
<1>5. Open' = Open \cup {served + 1}
  <2>1. \A x \in Open' : x \in Open \/ x = served + 1
    BY <1>2, <1>3 DEF Open
  <2>2. \A x \in Open : x \in Open'
    BY <1>1, <1>3 DEF Open
  <2>3. served + 1 \in Open'
    BY <1>2, <1>3 DEF Open
  <2> QED BY <2>1, <2>2, <2>3
<1>6. PlacesOK'
  <2>1. Inserted' = Inserted /\ Ids(channel)' = Ids(channel) /\ Ids(batch)' = Ids(batch)
    BY <1>1 DEF Inserted, Ids
  <2>2. served + 1 \notin 1 .. served /\ 1 .. (served + 1) = (1 .. served) \cup {served + 1}
    BY <1>1
  <2>3. Split(Open, Ids(channel), Ids(batch), Inserted, dropped, served)
    BY DEF LogInv, PlacesOK
  <2>4. Split(Open', Ids(channel), Ids(batch), Inserted, dropped, served + 1)
    BY <1>5, <2>2, <2>3 DEF Split
  <2>5. \A d \in Callers : capture[d].at # "none" => capture[d].id \in 1 .. served
    BY <2>3 DEF Split, Open
  <2>6. \A d, e \in Callers : d # e /\ capture'[d].at # "none" /\ capture'[e].at # "none" =>
          capture'[d].id # capture'[e].id
    BY <1>2, <1>3, <2>2, <2>5 DEF LogInv, PlacesOK
  <2> QED BY <1>1, <2>1, <2>4, <2>6, RequestLogAssumption DEF LogInv, PlacesOK
<1> QED BY <1>3, <1>4, <1>6 DEF LogInv

LEMMA EndSessionKeepsInv ==
    ASSUME LogInv, NEW u \in Owners, EndSession(u)
    PROVE  LogInv'
<1>1. /\ live' = live \ {u} /\ UNCHANGED <<ring, channel, batch, served, pushed, dropped, inserted>>
      /\ DOMAIN capture' = Callers
  BY DEF EndSession
<1>2. \A d \in Callers : \/ capture'[d] = capture[d]
                         \/ /\ capture[d].at \in {"route", "answered"}
                            /\ capture'[d] = [capture[d] EXCEPT !.viable = FALSE]
  BY DEF EndSession
<1>3. \A d \in Callers : capture[d].at \in {"route", "answered"} /\ capture[d].token = u =>
        capture'[d] = [capture[d] EXCEPT !.viable = FALSE]
  BY DEF EndSession
<1>4. \A d \in Callers : capture'[d].at = capture[d].at /\ capture'[d].id = capture[d].id
  <2>1. ASSUME NEW d \in Callers, capture'[d] = [capture[d] EXCEPT !.viable = FALSE]
        PROVE  capture'[d].at = capture[d].at /\ capture'[d].id = capture[d].id
    BY <2>1
  <2> QED BY <1>2, <2>1
<1>5. CapturesOK'
  <2>1. ASSUME NEW d \in Callers PROVE CaptureGood(capture[d])'
    <3>1. CaptureGood(capture[d])
      BY DEF LogInv, CapturesOK
    <3>2. CASE capture'[d] = [capture[d] EXCEPT !.viable = FALSE] /\ capture[d].at \in {"route", "answered"}
      <4>1. /\ capture'[d].at = capture[d].at /\ capture'[d].id = capture[d].id
            /\ capture'[d].token = capture[d].token /\ capture'[d].ran = capture[d].ran
            /\ capture'[d].slot = capture[d].slot
        BY <3>2
      <4>2. capture[d].at = "route" => capture'[d].viable = FALSE
        BY <3>1, <3>2 DEF CaptureGood
      <4>3. capture'[d].viable \in BOOLEAN /\ (capture'[d].viable => capture[d].viable /\ FALSE)
        BY <3>1, <3>2 DEF CaptureGood
      <4> QED BY <3>1, <3>2, <4>1, <4>3 DEF CaptureGood
    <3>3. CASE capture'[d] = capture[d] /\ ~(capture[d].at \in {"route", "answered"} /\ capture[d].token = u)
      BY <1>1, <3>1, <3>3 DEF CaptureGood, Tells
    <3> QED BY <1>2, <1>3, <3>2, <3>3
  <2> QED BY <1>1, <2>1 DEF LogInv, CapturesOK
<1>6. PlacesOK'
  BY <1>1, <1>4, PlacesStay DEF LogInv
<1>7. SeqsOK' /\ LogsOK' /\ RingOK'
  BY <1>1 DEF LogInv, SeqsOK, LogsOK, RingOK, Tells
<1> QED BY <1>5, <1>6, <1>7 DEF LogInv

LEMMA DisconnectKeepsInv ==
    ASSUME LogInv, NEW c \in Callers, Disconnect(c)
    PROVE  LogInv'
<1>1. /\ capture[c].at # "none" /\ capture' = [capture EXCEPT ![c] = NoCapture]
      /\ dropped' = dropped \cup {capture[c].id}
      /\ UNCHANGED <<live, ring, channel, batch, served, pushed, inserted>>
  BY DEF Disconnect
<1>2. CapturesOK'
  BY <1>1, Nothing, CaptureMoves DEF LogInv
<1>3. /\ Open' = Open \ {capture[c].id} /\ capture[c].id \in Open
      /\ \A d, e \in Callers : d # e /\ capture'[d].at # "none" /\ capture'[e].at # "none" =>
           capture'[d].id # capture'[e].id
  BY <1>1, OpenLeaves DEF LogInv
<1>4. PlacesOK'
  <2>1. Inserted' = Inserted /\ Ids(channel)' = Ids(channel) /\ Ids(batch)' = Ids(batch)
    BY <1>1 DEF Inserted, Ids
  <2>2. Split(Open', Ids(channel), Ids(batch), Inserted, dropped', served)
    BY <1>1, <1>3 DEF LogInv, PlacesOK, Split
  <2> QED BY <1>1, <1>3, <2>1, <2>2 DEF LogInv, PlacesOK
<1>5. SeqsOK' /\ LogsOK' /\ RingOK'
  BY <1>1 DEF LogInv, SeqsOK, LogsOK, RingOK, Tells
<1> QED BY <1>2, <1>4, <1>5 DEF LogInv

-----------------------------------------------------------------------------
(* The record goes on the ring, which forgets its oldest one when it is full, *)
(* and to the writer.                                                        *)
LEMMA PushedTail ==
    ASSUME LogInv, NEW log \in Log, ring' = PushedOn(log), pushed' = Append(pushed, log)
    PROVE  ring' \in Seq(Log) /\ pushed' \in Seq(Log) /\ RingOK'
<1>1. /\ pushed \in Seq(Log) /\ ring \in Seq(Log) /\ Len(pushed) \in Nat /\ Len(ring) \in Nat
      /\ RING_CAPACITY \in Nat /\ RING_CAPACITY > 0
  BY RequestLogAssumption, LenProperties DEF LogInv, SeqsOK
<1>2. /\ pushed' \in Seq(Log) /\ Len(pushed') = Len(pushed) + 1
      /\ \A i \in 1 .. Len(pushed) : pushed'[i] = pushed[i]
      /\ pushed'[Len(pushed) + 1] = log
  BY <1>1, AppendProperties
<1>3. /\ Len(ring) = IF Len(pushed) <= RING_CAPACITY THEN Len(pushed) ELSE RING_CAPACITY
      /\ \A i \in 1 .. Len(ring) : ring[i] = pushed[Len(pushed) - Len(ring) + i]
  BY DEF LogInv, RingOK
<1>4. CASE Len(ring) # RING_CAPACITY
  <2>1. ring' = Append(ring, log)
    BY <1>4 DEF PushedOn
  <2>2. /\ ring' \in Seq(Log) /\ Len(ring') = Len(ring) + 1
        /\ \A i \in 1 .. Len(ring) : ring'[i] = ring[i]
        /\ ring'[Len(ring) + 1] = log
    BY <1>1, <2>1, AppendProperties
  <2>3. Len(ring) = Len(pushed) /\ Len(pushed) + 1 <= RING_CAPACITY
    BY <1>1, <1>3, <1>4
  <2>4. ASSUME NEW i \in 1 .. Len(ring') PROVE ring'[i] = pushed'[i]
    <3>1. CASE i = Len(ring) + 1
      BY <1>2, <2>2, <2>3, <3>1
    <3>2. CASE i \in 1 .. Len(ring)
      <4>1. ring'[i] = ring[i] /\ pushed'[i] = pushed[i]
        BY <1>2, <2>2, <2>3, <3>2
      <4>2. Len(pushed) - Len(ring) + i = i
        BY <1>1, <2>3, <3>2
      <4> QED BY <1>3, <3>2, <4>1, <4>2
    <3>3. i = Len(ring) + 1 \/ i \in 1 .. Len(ring)
      BY <1>1, <2>2
    <3> QED BY <3>1, <3>2, <3>3
  <2>5. /\ Len(ring') = Len(pushed') /\ Len(pushed') <= RING_CAPACITY
        /\ \A i \in 1 .. Len(ring') : Len(pushed') - Len(ring') + i = i
    BY <1>1, <1>2, <2>2, <2>3
  <2> QED BY <1>2, <2>2, <2>4, <2>5 DEF RingOK
<1>5. CASE Len(ring) = RING_CAPACITY
  <2>0. ring # <<>>
    BY <1>1, <1>5
  <2> DEFINE t == Tail(ring)
  <2>1. ring' = Append(t, log)
    BY <1>5 DEF PushedOn
  <2>2. /\ t \in Seq(Log) /\ Len(t) = RING_CAPACITY - 1
        /\ \A i \in 1 .. Len(t) : t[i] = ring[i + 1]
    BY <1>1, <1>5, <2>0, HeadTailProperties
  <2> HIDE DEF t
  <2>3. /\ ring' \in Seq(Log) /\ Len(ring') = RING_CAPACITY
        /\ \A i \in 1 .. RING_CAPACITY - 1 : ring'[i] = t[i]
        /\ ring'[RING_CAPACITY] = log
    BY <1>1, <2>1, <2>2, AppendProperties
  <2>4. Len(pushed) >= RING_CAPACITY
    BY <1>1, <1>3, <1>5
  <2>5. ASSUME NEW i \in 1 .. RING_CAPACITY
        PROVE  ring'[i] = pushed'[Len(pushed) + 1 - RING_CAPACITY + i]
    <3>1. CASE i = RING_CAPACITY
      BY <1>1, <1>2, <2>3, <3>1
    <3>2. CASE i \in 1 .. RING_CAPACITY - 1
      <4>1. ring'[i] = ring[i + 1] /\ i + 1 \in 1 .. Len(ring)
        BY <1>1, <1>5, <2>2, <2>3, <3>2
      <4>2. ring[i + 1] = pushed[Len(pushed) - RING_CAPACITY + (i + 1)]
        BY <1>3, <1>5, <4>1
      <4>3. Len(pushed) - RING_CAPACITY + (i + 1) \in 1 .. Len(pushed)
        BY <1>1, <2>4, <3>2
      <4>4. Len(pushed) - RING_CAPACITY + (i + 1) = Len(pushed) + 1 - RING_CAPACITY + i
        BY <1>1, <3>2
      <4> QED BY <1>2, <4>1, <4>2, <4>3, <4>4
    <3>3. i = RING_CAPACITY \/ i \in 1 .. RING_CAPACITY - 1
      BY <1>1
    <3> QED BY <3>1, <3>2, <3>3
  <2>6. Len(pushed') - Len(ring') = Len(pushed) + 1 - RING_CAPACITY /\ ~(Len(pushed') <= RING_CAPACITY)
    BY <1>1, <1>2, <2>3, <2>4
  <2>7. \A i \in 1 .. Len(ring') : ring'[i] = pushed'[Len(pushed') - Len(ring') + i]
    BY <2>3, <2>5, <2>6
  <2>8. Len(ring') = IF Len(pushed') <= RING_CAPACITY THEN Len(pushed') ELSE RING_CAPACITY
    BY <2>3, <2>6
  <2> QED BY <1>2, <2>3, <2>7, <2>8 DEF RingOK
<1> QED BY <1>4, <1>5

LEMMA PushRingKeepsInv ==
    ASSUME LogInv, NEW c \in Callers, PushRing(c)
    PROVE  LogInv'
<1>1. PICK log : log = Record(capture[c])
  OBVIOUS
<1>2. /\ capture[c].at = "resolved" /\ ring' = PushedOn(log) /\ pushed' = Append(pushed, log)
      /\ capture' = [capture EXCEPT ![c].at = "pushed"]
      /\ UNCHANGED <<live, channel, batch, served, dropped, inserted>>
  BY <1>1 DEF PushRing
<1>3. log \in Log /\ Tells(log)
  BY <1>1, <1>2, Recorded DEF LogInv
<1>4. ring' \in Seq(Log) /\ pushed' \in Seq(Log) /\ RingOK'
  BY <1>2, <1>3, PushedTail
<1>5. SeqsOK'
  BY <1>2, <1>4 DEF LogInv, SeqsOK
<1>6. LogsOK'
  <2>1. /\ Len(pushed') = Len(pushed) + 1 /\ pushed'[Len(pushed) + 1] = log /\ Len(pushed) \in Nat
        /\ \A i \in 1 .. Len(pushed) : pushed'[i] = pushed[i]
    BY <1>2, <1>3, AppendProperties, LenProperties DEF LogInv, SeqsOK
  <2>2. \A i \in 1 .. Len(pushed) + 1 : i \in 1 .. Len(pushed) \/ i = Len(pushed) + 1
    BY <2>1
  <2> QED BY <1>3, <2>1, <2>2 DEF LogInv, LogsOK, Tells
<1>7. /\ DOMAIN capture' = Callers /\ \A d \in Callers : d # c => capture'[d] = capture[d]
      /\ capture'[c].at = "pushed" /\ capture'[c].id = capture[c].id
      /\ capture'[c].token = capture[c].token /\ capture'[c].ran = capture[c].ran
      /\ capture'[c].viable = capture[c].viable /\ capture'[c].user = capture[c].user
  BY <1>2 DEF LogInv, CapturesOK
<1>8. CapturesOK'
  <2>1. CaptureGood(capture[c])
    BY DEF LogInv, CapturesOK
  <2>2. CaptureGood(capture'[c])
    BY <1>2, <1>7, <2>1 DEF CaptureGood, Tells
  <2> QED BY <1>2, <1>7, <2>2 DEF LogInv, CapturesOK, CaptureGood
<1>9. PlacesOK'
  BY <1>2, <1>7, PlacesStay DEF LogInv
<1> QED BY <1>4, <1>5, <1>6, <1>8, <1>9 DEF LogInv

(* The full channel drops the record; otherwise it is queued.                *)
LEMMA TrySendKeepsInv ==
    ASSUME LogInv, NEW c \in Callers, TrySend(c)
    PROVE  LogInv'
<1>1. PICK log : log = Record(capture[c])
  OBVIOUS
<1>2. /\ capture[c].at = "pushed" /\ capture' = [capture EXCEPT ![c] = NoCapture]
      /\ \/ channel' = Append(channel, log) /\ dropped' = dropped
         \/ channel' = channel /\ dropped' = dropped \cup {capture[c].id}
      /\ UNCHANGED <<live, ring, batch, served, pushed, inserted>>
  BY <1>1 DEF TrySend
<1>3. log \in Log /\ log.id = capture[c].id
  BY <1>1, <1>2, Recorded DEF LogInv
<1>4. CapturesOK'
  BY <1>2, Nothing, CaptureMoves DEF LogInv
<1>5. /\ Open' = Open \ {capture[c].id} /\ capture[c].id \in Open
      /\ \A d, e \in Callers : d # e /\ capture'[d].at # "none" /\ capture'[e].at # "none" =>
           capture'[d].id # capture'[e].id
  BY <1>2, OpenLeaves DEF LogInv
<1>6. Split(Open, Ids(channel), Ids(batch), Inserted, dropped, served) /\ channel \in Seq(Log)
  BY DEF LogInv, PlacesOK, SeqsOK
<1>7. Inserted' = Inserted /\ Ids(batch)' = Ids(batch) /\ LogsOK' /\ RingOK'
  BY <1>2 DEF Inserted, Ids, LogInv, LogsOK, RingOK, Tells
<1>8. CASE channel' = Append(channel, log) /\ dropped' = dropped
  <2>1. Ids(channel') = Ids(channel) \cup {capture[c].id}
    BY <1>3, <1>6, <1>8, IdsAppend
  <2>2. Split(Open', Ids(channel'), Ids(batch), Inserted, dropped, served)
    BY <1>5, <1>6, <2>1 DEF Split
  <2>3. log.id \notin Ids(channel)
    BY <1>3, <1>5, <1>6 DEF Split
  <2>4. \A i, j \in 1 .. Len(channel') : i # j => channel'[i].id # channel'[j].id
    BY <1>3, <1>6, <1>8, <2>3, DistinctAppend DEF LogInv, PlacesOK
  <2>5. PlacesOK'
    BY <1>2, <1>5, <1>7, <1>8, <2>2, <2>4 DEF LogInv, PlacesOK
  <2>6. SeqsOK'
    BY <1>2, <1>3, <1>6, <1>8, AppendProperties DEF LogInv, SeqsOK
  <2> QED BY <1>4, <1>7, <2>5, <2>6 DEF LogInv
<1>9. CASE channel' = channel /\ dropped' = dropped \cup {capture[c].id}
  <2>1. Split(Open', Ids(channel'), Ids(batch), Inserted, dropped', served)
    BY <1>5, <1>6, <1>9 DEF Split
  <2>2. PlacesOK'
    BY <1>2, <1>5, <1>7, <1>9, <2>1 DEF LogInv, PlacesOK
  <2>3. SeqsOK'
    BY <1>2, <1>9 DEF LogInv, SeqsOK
  <2> QED BY <1>4, <1>7, <2>2, <2>3 DEF LogInv
<1> QED BY <1>2, <1>8, <1>9

-----------------------------------------------------------------------------
(* The writer.                                                               *)
LEMMA ReceiveKeepsInv ==
    ASSUME LogInv, Receive
    PROVE  LogInv'
<1>1. PICK log : log = Head(channel)
  OBVIOUS
<1>2. /\ channel # <<>> /\ batch' = Append(batch, log) /\ channel' = Tail(channel)
      /\ UNCHANGED <<live, capture, ring, served, pushed, dropped, inserted>>
      /\ channel \in Seq(Log) /\ batch \in Seq(Log)
  BY <1>1 DEF Receive, LogInv, SeqsOK
<1>3. /\ log \in Log /\ log.id \in Ids(channel) /\ Ids(channel') = Ids(channel) \ {log.id}
      /\ \A i, j \in 1 .. Len(channel') : i # j => channel'[i].id # channel'[j].id
  BY <1>1, <1>2, IdsTail DEF LogInv, PlacesOK
<1>4. Ids(batch') = Ids(batch) \cup {log.id}
  BY <1>2, <1>3, IdsAppend
<1>5. SeqsOK'
  BY <1>2, <1>3, AppendProperties, HeadTailProperties DEF LogInv, SeqsOK
<1>6. CapturesOK' /\ LogsOK' /\ RingOK' /\ Open' = Open /\ Inserted' = Inserted
  BY <1>2 DEF LogInv, CapturesOK, CaptureGood, LogsOK, RingOK, Tells, Open, Inserted
<1>7. Split(Open, Ids(channel'), Ids(batch'), Inserted, dropped, served)
  BY <1>3, <1>4 DEF LogInv, PlacesOK, Split
<1>8. PlacesOK'
  BY <1>2, <1>3, <1>6, <1>7 DEF LogInv, PlacesOK
<1> QED BY <1>5, <1>6, <1>8 DEF LogInv

(* The batch goes to one of the last two places.                             *)
LEMMA BatchLeaves ==
    ASSUME LogInv, batch' = <<>>, UNCHANGED <<live, capture, ring, channel, served, pushed>>,
           \/ inserted' = Count(Ids(batch)) /\ dropped' = dropped
           \/ inserted' = inserted /\ dropped' = dropped \cup Ids(batch)
    PROVE  LogInv'
<1>1. CapturesOK' /\ LogsOK' /\ RingOK' /\ Open' = Open
  BY DEF LogInv, CapturesOK, CaptureGood, LogsOK, RingOK, Tells, Open
<1>2. SeqsOK'
  BY EmptySeq DEF LogInv, SeqsOK
<1>3. Ids(batch') = {}
  BY IdsEmpty
<1>4. Split(Open, Ids(channel), Ids(batch), Inserted, dropped, served)
  BY DEF LogInv, PlacesOK
<1>5. served \in 0 .. MaxServed /\ inserted \in [1 .. MaxServed -> {0, 1}] /\ served \in Nat
  BY RequestLogAssumption DEF LogInv, PlacesOK
<1>6. CASE inserted' = Count(Ids(batch)) /\ dropped' = dropped
  <2>1. Ids(batch) \subseteq 1 .. MaxServed /\ Ids(batch) \cap Inserted = {}
    BY <1>4, <1>5, RequestLogAssumption DEF Split
  <2>2. ASSUME NEW id \in 1 .. MaxServed
        PROVE  inserted'[id] = IF id \in Ids(batch) THEN 1 ELSE inserted[id]
    <3>1. inserted'[id] = inserted[id] + (IF id \in Ids(batch) THEN 1 ELSE 0)
      BY <1>5, <1>6 DEF Count
    <3>2. id \in Ids(batch) => inserted[id] = 0
      BY <1>5, <2>1 DEF Inserted
    <3> QED BY <1>5, <3>1, <3>2
  <2>3. inserted' = [id \in 1 .. MaxServed |-> inserted[id] + (IF id \in Ids(batch) THEN 1 ELSE 0)]
    BY <1>5, <1>6 DEF Count
  <2>4. inserted' \in [1 .. MaxServed -> {0, 1}]
    <3>1. \A id \in 1 .. MaxServed : inserted'[id] \in {0, 1}
      BY <1>5, <2>2
    <3> QED BY <2>3, <3>1
  <2>5. Inserted' = Inserted \cup Ids(batch)
    BY <2>1, <2>2 DEF Inserted
  <2>6. Split(Open, Ids(channel), Ids(batch'), Inserted', dropped, served)
    BY <1>3, <1>4, <2>5 DEF Split
  <2>7. PlacesOK'
    BY <1>1, <1>5, <1>6, <2>4, <2>6 DEF LogInv, PlacesOK
  <2> QED BY <1>1, <1>2, <2>7 DEF LogInv
<1>7. CASE inserted' = inserted /\ dropped' = dropped \cup Ids(batch)
  <2>1. Inserted' = Inserted
    BY <1>7 DEF Inserted
  <2>2. Split(Open, Ids(channel), Ids(batch'), Inserted, dropped', served)
    BY <1>3, <1>4, <1>7 DEF Split
  <2>3. PlacesOK'
    BY <1>1, <1>5, <1>7, <2>1, <2>2 DEF LogInv, PlacesOK
  <2> QED BY <1>1, <1>2, <2>3 DEF LogInv
<1> QED BY <1>6, <1>7

LEMMA CrashKeepsInv ==
    ASSUME LogInv, Crash
    PROVE  LogInv'
<1>1. /\ dropped' = dropped \cup Ids(channel) \cup Ids(batch) \cup Open
      /\ capture' = [c \in Callers |-> NoCapture]
      /\ ring' = <<>> /\ channel' = <<>> /\ batch' = <<>> /\ pushed' = <<>>
      /\ UNCHANGED <<live, served, inserted>>
  BY DEF Crash, Open
<1>2. CapturesOK' /\ Open' = {} /\ \A c \in Callers : capture'[c].at = "none"
  BY <1>1, Nothing DEF LogInv, CapturesOK, CaptureGood, Open
<1>3. SeqsOK' /\ Len(pushed') = 0 /\ Len(ring') = 0 /\ Len(channel') = 0
  BY <1>1, EmptySeq DEF SeqsOK
<1>4. LogsOK' /\ RingOK'
  BY <1>3, RequestLogAssumption DEF LogsOK, RingOK
<1>5. Inserted' = Inserted /\ Ids(channel') = {} /\ Ids(batch') = {}
  BY <1>1, IdsEmpty DEF Inserted
<1>6. Split(Open', Ids(channel'), Ids(batch'), Inserted, dropped', served)
  BY <1>1, <1>2, <1>5 DEF LogInv, PlacesOK, Split
<1>7. PlacesOK'
  BY <1>1, <1>2, <1>3, <1>5, <1>6 DEF LogInv, PlacesOK
<1> QED BY <1>2, <1>3, <1>4, <1>7 DEF LogInv

-----------------------------------------------------------------------------
LEMMA InitLog == Init => LogInv
<1> SUFFICES ASSUME Init PROVE LogInv
  OBVIOUS
<1>1. /\ live = Owners /\ capture = [c \in Callers |-> NoCapture]
      /\ ring = <<>> /\ channel = <<>> /\ batch = <<>> /\ pushed = <<>>
      /\ served = 0 /\ dropped = {} /\ inserted = [id \in 1 .. MaxServed |-> 0]
  BY DEF Init
<1>2. CapturesOK /\ Open = {} /\ \A c \in Callers : capture[c].at = "none"
  BY <1>1, Nothing DEF CapturesOK, Open
<1>3. SeqsOK /\ Len(pushed) = 0 /\ Len(ring) = 0 /\ Len(channel) = 0
  BY <1>1, EmptySeq DEF SeqsOK
<1>4. LogsOK /\ RingOK
  BY <1>3, RequestLogAssumption DEF LogsOK, RingOK
<1>5. Inserted = {} /\ Ids(channel) = {} /\ Ids(batch) = {}
  BY <1>1, IdsEmpty DEF Inserted
<1>6. PlacesOK
  <2>1. 1 .. 0 = {} /\ 0 \in 0 .. MaxServed
    BY RequestLogAssumption
  <2>2. Split({}, {}, {}, {}, {}, 0)
    BY <2>1 DEF Split
  <2> QED BY <1>1, <1>2, <1>3, <1>5, <2>1, <2>2 DEF PlacesOK
<1> QED BY <1>2, <1>3, <1>4, <1>6 DEF LogInv

LEMMA NextLog == LogInv /\ [Next]_vars => LogInv'
<1> SUFFICES ASSUME LogInv, [Next]_vars PROVE LogInv'
  OBVIOUS
<1>1. ASSUME UNCHANGED <<live, capture, ring, channel, batch, served, pushed, dropped, inserted>>
      PROVE  LogInv'
  BY <1>1 DEF LogInv, CapturesOK, CaptureGood, SeqsOK, LogsOK, RingOK, Tells, PlacesOK, Open, Inserted, Ids
<1>2. CASE UNCHANGED vars
  BY <1>1, <1>2 DEF vars
<1>3. ASSUME NEW c \in Callers,
             RequestStep(c) \/ ExtractFails(c) \/ ResolveFails(c) \/ Disconnect(c)
      PROVE  LogInv'
  BY <1>3, ExtractKeepsInv, ResolveKeepsInv, PushRingKeepsInv, TrySendKeepsInv, DisconnectKeepsInv
     DEF RequestStep
<1>4. ASSUME NEW c \in Callers, NEW route \in Routes, NEW token \in Owners \cup {Anon},
             Capture(c, route, token)
      PROVE  LogInv'
  BY <1>4, CaptureKeepsInv DEF Users
<1>5. ASSUME NEW u \in Owners, EndSession(u) PROVE LogInv'
  BY <1>5, EndSessionKeepsInv
<1>6. ASSUME InsertBatch \/ \E committed \in BOOLEAN : InsertFails(committed) PROVE LogInv'
  <2>1. CASE InsertBatch
    BY <2>1, BatchLeaves DEF InsertBatch
  <2>2. ASSUME NEW committed \in BOOLEAN, InsertFails(committed) PROVE LogInv'
    BY <2>2, BatchLeaves DEF InsertFails, AfterFailure
  <2> QED BY <1>6, <2>1, <2>2
<1>7. ASSUME NEW last \in rows, DeleteAged(last) PROVE LogInv'
  BY <1>1, <1>7 DEF DeleteAged
<1> QED BY <1>2, <1>3, <1>4, <1>5, <1>6, <1>7, ReceiveKeepsInv, CrashKeepsInv DEF Next

(* The inductive invariant holds in every state of the specification.        *)
THEOREM LogInvariant == Spec => []LogInv
BY InitLog, NextLog, PTL DEF Spec

(* A record names the user its handler ran as, although the session may end  *)
(* before the record is made; and a request that no extractor looked at      *)
(* names the owner of its session while that is live (the principal slot of  *)
(* core/src/auth/mod.rs, read by request_log_capture.rs).                    *)
THEOREM RecordsNameTheirUser == Spec => []Attributed
<1>1. LogInv => Attributed
  BY LenProperties DEF LogInv, SeqsOK, LogsOK, Tells, Attributed
<1> QED BY <1>1, LogInvariant, PTL

(* The maximum of two numbers, as the library defines it.                    *)
LEMMA MaxOfTwo ==
    ASSUME NEW a \in Int, NEW b \in Int
    PROVE  Max({a, b}) = IF a >= b THEN a ELSE b
<1>1. PICK m \in {a, b} : \A y \in {a, b} : m >= y
  OBVIOUS
<1>2. Max({a, b}) \in {a, b} /\ \A y \in {a, b} : Max({a, b}) >= y
  BY <1>1 DEF Max
<1> QED BY <1>2

(* The live tail is what was pushed last, in order, however pushes interleave *)
(* with the rest of the requests (record in core/src/request_log.rs).         *)
THEOREM RingIsTheTail == Spec => []LiveTail
<1>1. LogInv => LiveTail
  <2> SUFFICES ASSUME LogInv PROVE LiveTail
    OBVIOUS
  <2>1. /\ pushed \in Seq(Log) /\ ring \in Seq(Log) /\ Len(pushed) \in Nat /\ Len(ring) \in Nat
        /\ RING_CAPACITY \in Nat /\ RING_CAPACITY > 0
    BY RequestLogAssumption, LenProperties DEF LogInv, SeqsOK
  <2>2. PICK m \in Nat : /\ m = Max({1, Len(pushed) - RING_CAPACITY + 1})
                         /\ m = IF Len(pushed) <= RING_CAPACITY THEN 1 ELSE Len(pushed) - RING_CAPACITY + 1
    BY <2>1, MaxOfTwo
  <2>3. m >= 1 /\ m - 1 = Len(pushed) - Len(ring)
    BY <2>1, <2>2 DEF LogInv, RingOK
  <2>4. \A i \in m .. Len(pushed) : pushed[i] \in Log
    BY <2>1, <2>2, <2>3, ElementOfSeq
  <2> DEFINE t == SubSeq(pushed, m, Len(pushed))
  <2>5. /\ t \in Seq(Log)
        /\ Len(t) = IF m <= Len(pushed) THEN Len(pushed) - m + 1 ELSE 0
        /\ \A i \in 1 .. Len(pushed) - m + 1 : t[i] = pushed[m + i - 1]
    BY <2>1, <2>4, SubSeqProperties
  <2> HIDE DEF t
  <2>6. Len(t) = Len(ring) /\ Len(ring) = Len(pushed) - m + 1
    <3>1. Len(ring) = Len(pushed) - m + 1
      BY <2>1, <2>3
    <3>2. Len(t) = IF m <= Len(pushed) THEN Len(pushed) - m + 1 ELSE 0
      BY <2>5
    <3>3. m <= Len(pushed) \/ Len(pushed) - m + 1 = 0
      BY <2>1, <2>3, <3>1
    <3> QED BY <3>1, <3>2, <3>3
  <2>7. ASSUME NEW i \in 1 .. Len(ring) PROVE ring[i] = t[i]
    <3>1. t[i] = pushed[m + i - 1]
      BY <2>5, <2>6
    <3>2. ring[i] = pushed[Len(pushed) - Len(ring) + i]
      BY DEF LogInv, RingOK
    <3>3. m + i - 1 = Len(pushed) - Len(ring) + i
      BY <2>1, <2>3
    <3> QED BY <3>1, <3>2, <3>3
  <2>8. ring = t
    BY <2>1, <2>5, <2>6, <2>7, SeqEqual
  <2> QED BY <2>2, <2>8 DEF LiveTail, t
<1> QED BY <1>1, LogInvariant, PTL

(* Every request captured is in exactly one place - still running, queued,   *)
(* in the writer's batch, inserted once, or given up - whatever overlaps,    *)
(* fails or crashes (try_send, writer_loop and its cleared batch).           *)
THEOREM RecordsAreAccounted == Spec => []Accounted
<1>1. LogInv => Accounted
  <2> SUFFICES ASSUME LogInv, NEW id \in 1 .. served
               PROVE  LET open == \E c \in Callers : capture[c].at # "none" /\ capture[c].id = id
                          places == {p \in {"open", "channel", "batch", "inserted", "dropped"} :
                              \/ p = "open" /\ open
                              \/ p = "channel" /\ id \in Ids(channel)
                              \/ p = "batch" /\ id \in Ids(batch)
                              \/ p = "inserted" /\ inserted[id] > 0
                              \/ p = "dropped" /\ id \in dropped}
                      IN  Cardinality(places) = 1 /\ inserted[id] <= 1
    BY DEF Accounted
  <2> DEFINE open == \E c \in Callers : capture[c].at # "none" /\ capture[c].id = id
             places == {p \in {"open", "channel", "batch", "inserted", "dropped"} :
                 \/ p = "open" /\ open
                 \/ p = "channel" /\ id \in Ids(channel)
                 \/ p = "batch" /\ id \in Ids(batch)
                 \/ p = "inserted" /\ inserted[id] > 0
                 \/ p = "dropped" /\ id \in dropped}
  <2>1. id \in 1 .. MaxServed /\ inserted[id] \in {0, 1}
    BY RequestLogAssumption DEF LogInv, PlacesOK
  <2>2. open <=> id \in Open
    BY DEF Open
  <2>3. (inserted[id] > 0) <=> id \in Inserted
    BY <2>1 DEF Inserted
  <2>4. Split(Open, Ids(channel), Ids(batch), Inserted, dropped, served)
    BY DEF LogInv, PlacesOK
  <2>5. id \in Open \cup Ids(channel) \cup Ids(batch) \cup Inserted \cup dropped
    BY <2>4 DEF Split
  <2>6. PICK p : places = {p}
    <3> HIDE DEF open
    <3>1. CASE id \in Open
      <4>1. id \notin Ids(channel) \cup Ids(batch) \cup Inserted \cup dropped
        BY <2>4, <3>1 DEF Split
      <4>2. places = {"open"}
        BY <2>2, <2>3, <3>1, <4>1
      <4> QED BY <4>2
    <3>2. CASE id \in Ids(channel)
      <4>1. id \notin Open \cup Ids(batch) \cup Inserted \cup dropped
        BY <2>4, <3>2 DEF Split
      <4>2. places = {"channel"}
        BY <2>2, <2>3, <3>2, <4>1
      <4> QED BY <4>2
    <3>3. CASE id \in Ids(batch)
      <4>1. id \notin Open \cup Ids(channel) \cup Inserted \cup dropped
        BY <2>4, <3>3 DEF Split
      <4>2. places = {"batch"}
        BY <2>2, <2>3, <3>3, <4>1
      <4> QED BY <4>2
    <3>4. CASE id \in Inserted
      <4>1. id \notin Open \cup Ids(channel) \cup Ids(batch) \cup dropped
        BY <2>4, <3>4 DEF Split
      <4>2. places = {"inserted"}
        BY <2>2, <2>3, <3>4, <4>1
      <4> QED BY <4>2
    <3>5. CASE id \in dropped
      <4>1. id \notin Open \cup Ids(channel) \cup Ids(batch) \cup Inserted
        BY <2>4, <3>5 DEF Split
      <4>2. places = {"dropped"}
        BY <2>2, <2>3, <3>5, <4>1
      <4> QED BY <4>2
    <3> QED BY <2>5, <3>1, <3>2, <3>3, <3>4, <3>5
  <2>7. Cardinality(places) = 1
    BY <2>6, FS_Singleton
  <2>8. inserted[id] <= 1
    BY <2>1
  <2> QED BY <2>7, <2>8
<1> QED BY <1>1, LogInvariant, PTL

-----------------------------------------------------------------------------
(* The rate limiter.                                                         *)
(*                                                                           *)
(* WindowCap compares the admitted requests of a client with the budget;     *)
(* check_at compares the length of a bucket with it.  The invariant says how *)
(* the two are related, bucket by bucket: every entry stands for one         *)
(* admitted hit of the bucket's clients, and every hit that no entry stands  *)
(* for was out of the window when it was dropped, or went with an evicted    *)
(* bucket.                                                                   *)

Clients == Addresses \cup {NoIp}
Keys == {limiter_key(ip) : ip \in Addresses}

\* The bucket a client is counted in: its limiter key, or the shared one.
KeyOf(who) == IF who = NoIp THEN NoIp ELSE limiter_key(who)

BucketOf(k) == IF k = NoIp THEN unresolved
               ELSE IF k \in DOMAIN map THEN map[k] ELSE << >>

HitsOf(k) == {h \in admitted : KeyOf(h.who) = k}

\* An admitted hit no later check may count: a check at or after it was swept
\* or admitted a full window later.
Expired(h) == h.at + window <= last_sweep \/ \E g \in admitted : h.at + window <= g.at

\* The hits of k that its bucket need not hold any more.
Lost(k) == {h \in HitsOf(k) : k \in evicted \/ Expired(h)}

Sorted(b) == \A i, j \in 1 .. Len(b) : i <= j => b[i] <= b[j]

\* The entries of a bucket stand, one for one, for admitted hits of H, and the
\* hits of H that no entry stands for are in lost.
Backed(b, H, lost) ==
    /\ b \in Seq(Nat)
    /\ Sorted(b)
    /\ \E f \in [1 .. Len(b) -> H] :
        /\ \A i, j \in 1 .. Len(b) : f[i] = f[j] => i = j
        /\ \A i \in 1 .. Len(b) : f[i].at = b[i]
        /\ \A h \in H \ lost : \E i \in 1 .. Len(b) : f[i] = h

BucketsBacked ==
    ~skewed => \A k \in Keys \cup {NoIp} : Backed(BucketOf(k), HitsOf(k), Lost(k))

\* A request waits under the address it came from.
Attempt == {a \in [at: Nat, origin: Clients, ip: Clients] : a.ip = a.origin}

LimiterTypes ==
    /\ trusted_proxy \in BOOLEAN /\ skewed \in BOOLEAN
    /\ now \in Nat /\ last_sweep \in Nat \cup {Never}
    /\ attempts \in [Tasks -> Attempt \cup {NoAttempt}]
    /\ IsFiniteSet(DOMAIN map) /\ DOMAIN map \subseteq Keys
    /\ \A k \in DOMAIN map : map[k] \in Seq(Nat) /\ map[k] # << >>
    /\ unresolved \in Seq(Nat)
    /\ IsFiniteSet(admitted) /\ admitted \subseteq [who: Clients, at: Nat, nth: Nat]
    /\ \A h \in admitted : h.nth < Cardinality(admitted)

LimiterInv == LimiterTypes /\ MemoryBounded /\ BucketsBacked /\ WindowCap

-----------------------------------------------------------------------------
(* The smallest and the largest element of a set of naturals.                *)
LEMMA MinExists ==
    ASSUME NEW S \in SUBSET Nat, S # {}
    PROVE  Min(S) \in S /\ \A y \in S : Min(S) <= y
<1> DEFINE segments == {0 .. n : n \in S}
<1>1. segments \subseteq FiniteSubsetsOf(Nat)
  <2> SUFFICES ASSUME NEW n \in S
               PROVE  0 .. n \in SUBSET Nat /\ IsFiniteSet(0 .. n)
    BY DEF FiniteSubsetsOf
  <2> QED
    BY FS_Interval
<1>2. segments # {}
  OBVIOUS
<1>3. PICK least \in segments : \A t \in segments : ~ (<<t, least>> \in StrictSubsetOrdering(Nat))
  <2> HIDE DEF segments
  <2> QED
    BY <1>1, <1>2, WFMin, FS_StrictSubsetOrderingWellFounded
<1>4. PICK x \in S : least = 0 .. x
  BY <1>3
<1>5. ASSUME NEW y \in S
      PROVE  x <= y
  <2>1. 0 .. y \in segments
    OBVIOUS
  <2>2. ~ (0 .. y \subseteq 0 .. x /\ 0 .. y # 0 .. x)
    <3>1. ~ (<<0 .. y, 0 .. x>> \in StrictSubsetOrdering(Nat))
      BY <1>3, <1>4, <2>1
    <3>2. 0 .. y \in SUBSET Nat /\ 0 .. x \in SUBSET Nat
      OBVIOUS
    <3> HIDE DEF segments
    <3> QED
      BY <3>1, <3>2, Zenon DEF StrictSubsetOrdering
  <2>3. CASE y < x
    <3>1. 0 .. y \subseteq 0 .. x /\ x \in 0 .. x /\ x \notin 0 .. y
      BY <2>3
    <3> QED
      BY <2>2, <3>1
  <2> QED
    BY <2>3
<1> QED
  BY <1>5 DEF Min

(* The entries of a bucket are as many as its length.                        *)
LEMMA CardinalityOfIndices ==
    ASSUME NEW n \in Nat
    PROVE  IsFiniteSet(1 .. n) /\ Cardinality(1 .. n) = n
<1>1. IsFiniteSet(1 .. n) /\ Cardinality(1 .. n) = IF 1 > n THEN 0 ELSE n - 1 + 1
  BY FS_Interval
<1> QED
  BY <1>1

(* What Pruned leaves: a suffix, nothing of it before its first live hit.    *)
LEMMA PrunedSuffix ==
    ASSUME NEW b \in Seq(Nat), NEW cutoff \in Int
    PROVE  \E n \in 0 .. Len(b) :
              /\ Pruned(b, cutoff) \in Seq(Nat)
              /\ Len(Pruned(b, cutoff)) = Len(b) - n
              /\ \A i \in 1 .. Len(b) - n : Pruned(b, cutoff)[i] = b[n + i]
              /\ \A i \in 1 .. n : b[i] <= cutoff
              /\ n < Len(b) => b[n + 1] > cutoff
<1> DEFINE kept == {i \in DOMAIN b : b[i] > cutoff}
<1>0. DOMAIN b = 1 .. Len(b) /\ kept \in SUBSET Nat
  OBVIOUS
<1>1. CASE kept = {}
  <2>1. Pruned(b, cutoff) = << >>
    BY <1>1 DEF Pruned
  <2>2. \A i \in 1 .. Len(b) : b[i] <= cutoff
    BY <1>0, <1>1
  <2>3. Len(b) \in 0 .. Len(b)
    OBVIOUS
  <2> QED
    BY <2>1, <2>2, <2>3
<1>2. CASE kept # {}
  <2> DEFINE m == Min(kept)
  <2> HIDE DEF m
  <2>1. m \in kept /\ \A y \in kept : m <= y
    BY <1>0, <1>2, MinExists DEF m
  <2>2. Pruned(b, cutoff) = SubSeq(b, m, Len(b))
    BY <1>2 DEF Pruned, m
  <2>3. m \in 1 .. Len(b) /\ b[m] > cutoff
    BY <1>0, <2>1
  <2>4. \A i \in 1 .. m - 1 : b[i] <= cutoff
    BY <1>0, <2>1, <2>3
  <2>5. /\ SubSeq(b, m, Len(b)) \in Seq(Nat)
        /\ Len(SubSeq(b, m, Len(b))) = Len(b) - m + 1
        /\ \A i \in 1 .. Len(b) - m + 1 : SubSeq(b, m, Len(b))[i] = b[m + i - 1]
    BY <2>3
  <2>6. m - 1 \in 0 .. Len(b) /\ \A i \in 1 .. Len(b) - (m - 1) : m + i - 1 = (m - 1) + i
    BY <2>3
  <2>7. Len(b) - m + 1 = Len(b) - (m - 1) /\ (m - 1) + 1 = m
    BY <2>3
  <2> QED
    BY <2>2, <2>3, <2>4, <2>5, <2>6, <2>7
<1> QED
  BY <1>1, <1>2

(* A pruned bucket still stands for its hits; the ones it lost are out of    *)
(* the window.                                                               *)
LEMMA PrunedBacked ==
    ASSUME NEW b, NEW H, NEW lost, NEW cutoff \in Int, Backed(b, H, lost)
    PROVE  LET p == Pruned(b, cutoff) IN
           /\ Backed(p, H, lost \cup {h \in H : h.at <= cutoff})
           /\ \A i \in 1 .. Len(p) : p[i] > cutoff
<1> DEFINE p == Pruned(b, cutoff)
           L == lost \cup {h \in H : h.at <= cutoff}
<1>1. b \in Seq(Nat) /\ Sorted(b)
  BY DEF Backed
<1>2. PICK n \in 0 .. Len(b) :
              /\ p \in Seq(Nat)
              /\ Len(p) = Len(b) - n
              /\ \A i \in 1 .. Len(b) - n : p[i] = b[n + i]
              /\ \A i \in 1 .. n : b[i] <= cutoff
              /\ n < Len(b) => b[n + 1] > cutoff
  BY <1>1, PrunedSuffix
<1> HIDE DEF p
<1>3. PICK f \in [1 .. Len(b) -> H] :
        /\ \A i, j \in 1 .. Len(b) : f[i] = f[j] => i = j
        /\ \A i \in 1 .. Len(b) : f[i].at = b[i]
        /\ \A h \in H \ lost : \E i \in 1 .. Len(b) : f[i] = h
  BY DEF Backed
<1>4. \A i \in 1 .. Len(p) : n + i \in 1 .. Len(b) /\ p[i] = b[n + i]
  BY <1>1, <1>2
<1>5. \A i \in 1 .. Len(p) : p[i] > cutoff
  <2> SUFFICES ASSUME NEW i \in 1 .. Len(p)
               PROVE  p[i] > cutoff
    OBVIOUS
  <2>1. n < Len(b) /\ n + 1 \in 1 .. Len(b) /\ n + 1 <= n + i
    BY <1>1, <1>2
  <2>2. b[n + 1] <= b[n + i]
    BY <1>1, <1>4, <2>1 DEF Sorted
  <2>3. b[n + 1] \in Nat /\ b[n + i] \in Nat
    BY <1>1, <1>4, <2>1
  <2> QED
    BY <1>2, <1>4, <2>1, <2>2, <2>3
<1>6. Sorted(p)
  <2> SUFFICES ASSUME NEW i \in 1 .. Len(p), NEW j \in 1 .. Len(p), i <= j
               PROVE  p[i] <= p[j]
    BY DEF Sorted
  <2>1. n + i <= n + j
    BY <1>1, <1>2
  <2> QED
    BY <1>1, <1>4, <2>1 DEF Sorted
<1> DEFINE g == [i \in 1 .. Len(p) |-> f[n + i]]
<1>7. g \in [1 .. Len(p) -> H] /\ \A i \in 1 .. Len(p) : g[i].at = p[i]
  BY <1>3, <1>4
<1>8. ASSUME NEW i \in 1 .. Len(p), NEW j \in 1 .. Len(p), g[i] = g[j]
      PROVE  i = j
  <2>1. n + i = n + j
    BY <1>3, <1>4, <1>8
  <2> QED
    BY <1>1, <1>2, <2>1
<1>9. ASSUME NEW h \in H \ L
      PROVE  \E i \in 1 .. Len(p) : g[i] = h
  <2>1. PICK i \in 1 .. Len(b) : f[i] = h
    BY <1>3
  <2>2. ~ (b[i] <= cutoff)
    BY <1>3, <2>1
  <2>3. i > n
    BY <1>1, <1>2, <2>2
  <2>4. i - n \in 1 .. Len(p) /\ n + (i - n) = i
    BY <1>1, <1>2, <2>3
  <2>5. g[i - n] = h
    BY <2>1, <2>4
  <2> QED
    BY <2>4, <2>5
<1>10. Backed(p, H, L)
  <2> HIDE DEF g, L
  <2> QED
    BY <1>2, <1>6, <1>7, <1>8, <1>9 DEF Backed
<1> QED
  BY <1>5, <1>10 DEF p

(* Recording a new hit, not older than the ones before it.                   *)
LEMMA AppendBacked ==
    ASSUME NEW b, NEW H, NEW lost, NEW x, x \notin H, x.at \in Nat, Backed(b, H, lost),
           \A i \in 1 .. Len(b) : b[i] <= x.at
    PROVE  Backed(Append(b, x.at), H \cup {x}, lost)
<1> DEFINE a == Append(b, x.at)
<1>1. b \in Seq(Nat) /\ Sorted(b)
  BY DEF Backed
<1>2. /\ a \in Seq(Nat) /\ Len(a) = Len(b) + 1
      /\ \A i \in 1 .. Len(b) : a[i] = b[i]
      /\ a[Len(b) + 1] = x.at
  BY <1>1
<1>3. PICK f \in [1 .. Len(b) -> H] :
        /\ \A i, j \in 1 .. Len(b) : f[i] = f[j] => i = j
        /\ \A i \in 1 .. Len(b) : f[i].at = b[i]
        /\ \A h \in H \ lost : \E i \in 1 .. Len(b) : f[i] = h
  BY DEF Backed
<1> HIDE DEF a
<1>4. Len(b) \in Nat /\ \A i \in 1 .. Len(a) : i \in 1 .. Len(b) \/ i = Len(b) + 1
  BY <1>1, <1>2
<1>5. Sorted(a)
  <2> SUFFICES ASSUME NEW i \in 1 .. Len(a), NEW j \in 1 .. Len(a), i <= j
               PROVE  a[i] <= a[j]
    BY DEF Sorted
  <2>1. CASE j \in 1 .. Len(b)
    <3>1. i \in 1 .. Len(b)
      BY <1>4, <2>1
    <3> QED
      BY <1>1, <1>2, <2>1, <3>1 DEF Sorted
  <2>2. CASE j = Len(b) + 1
    BY <1>2, <1>4, <2>2
  <2> QED
    BY <1>4, <2>1, <2>2
<1> DEFINE g == [i \in 1 .. Len(a) |-> IF i = Len(b) + 1 THEN x ELSE f[i]]
<1>6. g \in [1 .. Len(a) -> H \cup {x}] /\ \A i \in 1 .. Len(a) : g[i].at = a[i]
  BY <1>2, <1>3, <1>4
<1>7. ASSUME NEW i \in 1 .. Len(a), NEW j \in 1 .. Len(a), g[i] = g[j]
      PROVE  i = j
  BY <1>3, <1>4, <1>7
<1>8. ASSUME NEW h \in (H \cup {x}) \ lost
      PROVE  \E i \in 1 .. Len(a) : g[i] = h
  <2>1. CASE h = x
    <3>1. Len(b) + 1 \in 1 .. Len(a)
      BY <1>2, <1>4
    <3> QED
      BY <2>1, <3>1
  <2>2. CASE h \in H
    <3>1. PICK i \in 1 .. Len(b) : f[i] = h
      BY <1>3, <2>2
    <3>2. i \in 1 .. Len(a) /\ i # Len(b) + 1
      BY <1>2, <1>4
    <3> QED
      BY <3>1, <3>2
  <2> QED
    BY <2>1, <2>2
<1> HIDE DEF g
<1>9. Backed(a, H \cup {x}, lost)
  BY <1>2, <1>5, <1>6, <1>7, <1>8 DEF Backed
<1> QED
  BY <1>9 DEF a

(* Losing a bucket loses what it stood for.                                  *)
LEMMA EmptyBacked ==
    ASSUME NEW H, NEW lost, H \subseteq lost
    PROVE  Backed(<< >>, H, lost)
<1>1. << >> \in Seq(Nat) /\ Len(<< >>) = 0 /\ 1 .. 0 = {}
  OBVIOUS
<1>2. << >> \in [1 .. 0 -> H]
  BY <1>1
<1>3. Sorted(<< >>)
  BY <1>1 DEF Sorted
<1> QED
  BY <1>1, <1>2, <1>3 DEF Backed

LEMMA BackedWeakens ==
    ASSUME NEW b, NEW H, NEW lost, NEW more, lost \cap H \subseteq more, Backed(b, H, lost)
    PROVE  Backed(b, H, more)
BY DEF Backed

(* A swept bucket stood for hits out of the window only.                     *)
LEMMA SweptBacked ==
    ASSUME NEW b, NEW H, NEW lost, NEW cutoff \in Int, Backed(b, H, lost), b # << >>,
           Newest(b) <= cutoff
    PROVE  Backed(<< >>, H, lost \cup {h \in H : h.at <= cutoff})
<1>1. b \in Seq(Nat) /\ Sorted(b) /\ Len(b) \in Nat /\ Len(b) # 0
  BY DEF Backed
<1>2. PICK f \in [1 .. Len(b) -> H] :
        /\ \A i \in 1 .. Len(b) : f[i].at = b[i]
        /\ \A h \in H \ lost : \E i \in 1 .. Len(b) : f[i] = h
  BY DEF Backed
<1>3. Newest(b) = b[Len(b)] /\ Len(b) \in 1 .. Len(b)
  BY <1>1 DEF Newest, Last
<1>4. \A i \in 1 .. Len(b) : b[i] <= cutoff
  <2> SUFFICES ASSUME NEW i \in 1 .. Len(b)
               PROVE  b[i] <= cutoff
    OBVIOUS
  <2>1. b[i] <= b[Len(b)] /\ b[i] \in Nat /\ b[Len(b)] \in Nat
    BY <1>1, <1>3 DEF Sorted
  <2> QED
    BY <1>3, <2>1
<1>5. H \subseteq lost \cup {h \in H : h.at <= cutoff}
  BY <1>2, <1>4
<1> QED
  BY <1>5, EmptyBacked

(* A bucket is at least as long as the hits it stands for.                   *)
LEMMA CountedAbove ==
    ASSUME NEW b, NEW H, NEW lost, IsFiniteSet(H), Backed(b, H, lost)
    PROVE  Cardinality(H \ lost) <= Len(b)
<1>1. PICK f \in [1 .. Len(b) -> H] : \A h \in H \ lost : \E i \in 1 .. Len(b) : f[i] = h
  BY DEF Backed
<1>2. Len(b) \in Nat
  BY DEF Backed
<1> DEFINE g == [h \in H \ lost |-> CHOOSE i \in 1 .. Len(b) : f[i] = h]
<1>3. \A h \in H \ lost : g[h] \in 1 .. Len(b) /\ f[g[h]] = h
  BY <1>1
<1>4. g \in Injection(H \ lost, 1 .. Len(b))
  <2> HIDE DEF g
  <2>1. g = [h \in H \ lost |-> g[h]]
    BY DEF g
  <2> QED
    BY <1>3, <2>1 DEF Injection, IsInjective
<1>5. IsFiniteSet(1 .. Len(b)) /\ Cardinality(1 .. Len(b)) = Len(b)
  BY <1>2, CardinalityOfIndices
<1> HIDE DEF g
<1> QED
  BY <1>4, <1>5, FS_Injection

(* ... and stands for as many hits as it has entries.                        *)
LEMMA CountedBelow ==
    ASSUME NEW b, NEW H, NEW lost, IsFiniteSet(H), Backed(b, H, lost), 
           NEW from \in Int, NEW to \in Int, \A i \in 1 .. Len(b) : b[i] > from /\ b[i] <= to,
           NEW T, T = {h \in H : h.at > from /\ h.at <= to}
    PROVE  Len(b) <= Cardinality(T)
<1>1. PICK f \in [1 .. Len(b) -> H] :
        /\ \A i, j \in 1 .. Len(b) : f[i] = f[j] => i = j
        /\ \A i \in 1 .. Len(b) : f[i].at = b[i]
  BY DEF Backed
<1>2. Len(b) \in Nat
  BY DEF Backed
<1>3. f \in Injection(1 .. Len(b), T)
  BY <1>1 DEF Injection, IsInjective
<1>4. IsFiniteSet(T)
  BY FS_Subset
<1>5. IsFiniteSet(1 .. Len(b)) /\ Cardinality(1 .. Len(b)) = Len(b)
  BY <1>2, CardinalityOfIndices
<1> QED
  BY <1>3, <1>4, <1>5, FS_Injection

(* Every entry of a bucket is the stamp of one of its hits.                  *)
LEMMA EntriesAreHits ==
    ASSUME NEW b, NEW H, NEW lost, NEW t, Backed(b, H, lost), \A h \in H : h.at <= t
    PROVE  \A i \in 1 .. Len(b) : b[i] <= t
BY DEF Backed

(* The lengths of a pruned bucket.                                           *)
LEMMA PrunedLength ==
    ASSUME NEW b \in Seq(Nat), NEW cutoff \in Int
    PROVE  /\ Pruned(b, cutoff) \in Seq(Nat)
           /\ Len(Pruned(b, cutoff)) <= Len(b)
           /\ Len(Pruned(b, cutoff)) = Len(b) => Pruned(b, cutoff) = b
<1> DEFINE p == Pruned(b, cutoff)
<1>1. PICK n \in 0 .. Len(b) :
              /\ p \in Seq(Nat)
              /\ Len(p) = Len(b) - n
              /\ \A i \in 1 .. Len(b) - n : p[i] = b[n + i]
  BY PrunedSuffix
<1> HIDE DEF p
<1>2. Len(p) <= Len(b) /\ Len(b) \in Nat
  BY <1>1
<1>3. ASSUME Len(p) = Len(b)
      PROVE  p = b
  <2>1. n = 0
    BY <1>1, <1>2, <1>3
  <2>2. \A i \in 1 .. Len(b) : p[i] = b[i]
    BY <1>1, <1>2, <2>1
  <2> QED
    BY <1>1, <1>3, <2>2, SeqEqual
<1> QED
  BY <1>1, <1>2, <1>3 DEF p

-----------------------------------------------------------------------------
(* Two addresses share a bucket exactly if they are one client.              *)
LEMMA OneBucketPerClient ==
    ASSUME NEW a \in Clients, NEW b \in Clients
    PROVE  /\ SameClient(a, b) <=> KeyOf(a) = KeyOf(b)
           /\ SameClient(KeyOf(a), a)
           /\ KeyOf(a) \in Keys \cup {NoIp}
           /\ KeyOf(a) = NoIp <=> a = NoIp
           /\ a # NoIp => limiter_key(a) \in Keys /\ limiter_key(a) = KeyOf(a)
<1> DEFINE Ip == [family: Nat, net: Nat, host: Nat]
<1>1. NoIp \notin Ip /\ V4 \subseteq [family: {4}, net: Nat, host: Nat]
      /\ V6 \subseteq [family: {6}, net: Nat, host: Nat]
  BY RateLimitAssumption
<1>2. ASSUME NEW i \in Addresses
      PROVE  /\ i \in Ip /\ limiter_key(i) \in Ip
             /\ i.family \in {4, 6} /\ limiter_key(i).family = i.family /\ limiter_key(i).net = i.net
             /\ i.family = 6 => limiter_key(i) = [family |-> 6, net |-> i.net, host |-> 0]
             /\ i.family = 4 => limiter_key(i) = i
  <2>1. CASE i \in V4
    BY <1>1, <2>1 DEF limiter_key
  <2>2. CASE i \in V6 /\ i \notin V4
    <3>1. i \in [family: {6}, net: Nat, host: Nat]
      BY <1>1, <2>2
    <3>2. limiter_key(i) = [i EXCEPT !.host = 0]
      BY <2>2 DEF limiter_key
    <3>3. [i EXCEPT !.host = 0] = [family |-> 6, net |-> i.net, host |-> 0]
      BY <3>1
    <3> QED
      BY <3>1, <3>2, <3>3
  <2> QED
    BY <2>1, <2>2 DEF Addresses
<1>3. ASSUME NEW i \in Clients
      PROVE  /\ KeyOf(i) = NoIp <=> i = NoIp
             /\ i # NoIp => limiter_key(i) \in Keys /\ limiter_key(i) = KeyOf(i) /\ i \in Addresses
  BY <1>1, <1>2 DEF Clients, KeyOf, Keys
<1>4. SameClient(a, b) <=> KeyOf(a) = KeyOf(b)
  <2>1. CASE a = NoIp \/ b = NoIp
    BY <1>3, <2>1 DEF SameClient
  <2>2. CASE a # NoIp /\ b # NoIp
    <3>1. a \in Addresses /\ b \in Addresses /\ KeyOf(a) = limiter_key(a) /\ KeyOf(b) = limiter_key(b)
      BY <1>3, <2>2
    <3>2. CASE a.family = 6 /\ b.family = 6
      <4>1. limiter_key(a) = [family |-> 6, net |-> a.net, host |-> 0]
            /\ limiter_key(b) = [family |-> 6, net |-> b.net, host |-> 0]
        BY <1>2, <3>1, <3>2
      <4>2. SameClient(a, b) <=> a.net = b.net
        BY <2>2, <3>2 DEF SameClient
      <4> QED
        BY <3>1, <4>1, <4>2
    <3>3. CASE a.family = 4 /\ b.family = 4
      <4>1. limiter_key(a) = a /\ limiter_key(b) = b
        BY <1>2, <3>1, <3>3
      <4> QED
        BY <3>1, <3>3, <4>1 DEF SameClient
    <3>4. CASE a.family # b.family
      BY <1>2, <3>1, <3>4 DEF SameClient
    <3> QED
      BY <1>2, <3>1, <3>2, <3>3, <3>4
  <2> QED
    BY <2>1, <2>2
<1>5. SameClient(KeyOf(a), a)
  <2>1. CASE a = NoIp
    BY <2>1 DEF SameClient, KeyOf
  <2>2. CASE a # NoIp
    <3>1. a \in Addresses /\ KeyOf(a) = limiter_key(a)
      BY <1>3, <2>2
    <3> QED
      BY <1>1, <1>2, <2>2, <3>1 DEF SameClient
  <2> QED
    BY <2>1, <2>2
<1> QED
  BY <1>3, <1>4, <1>5

(* Whatever header a client sends, it is counted for the address it has.     *)
LEMMA HeadersDoNotCount ==
    ASSUME trusted_proxy \in BOOLEAN, NEW origin \in Clients, NEW spoof \in Spoofs,
           trusted_proxy => origin # NoIp
    PROVE  client_ip(Seen(origin, spoof)) = origin
<1>1. CASE ~trusted_proxy
  BY <1>1 DEF client_ip, Seen
<1>2. CASE trusted_proxy
  <2> DEFINE fwd == Append(spoof, origin)
             hops == {i \in DOMAIN fwd : fwd[i] \in Addresses}
  <2>1. spoof \in Seq([family: Nat, net: Nat, host: Nat]) /\ origin \in Addresses
    BY <1>2, RateLimitAssumption DEF Clients
  <2>2. /\ DOMAIN fwd = 1 .. Len(spoof) + 1 /\ fwd[Len(spoof) + 1] = origin
        /\ Len(spoof) \in Nat
    BY <2>1
  <2>3. Len(spoof) + 1 \in hops /\ \A i \in hops : Len(spoof) + 1 >= i
    BY <2>1, <2>2
  <2>4. hops \subseteq Int
    BY <2>2
  <2> HIDE DEF fwd
  <2>5. Max(hops) = Len(spoof) + 1
    <3> HIDE DEF hops
    <3>1. \E n \in hops : \A i \in hops : n >= i
      BY <2>3
    <3>2. Max(hops) \in hops /\ \A i \in hops : Max(hops) >= i
      BY <3>1 DEF Max
    <3> DEFINE m == Max(hops)
               n == Len(spoof) + 1
    <3>3. m \in Int /\ n \in Int /\ n >= m /\ m >= n
      BY <2>2, <2>3, <2>4, <3>2
    <3> HIDE DEF m, n
    <3>4. m = n
      BY <3>3
    <3> QED
      BY <3>4 DEF m, n
  <2>6. Seen(origin, spoof) = [forwarded |-> fwd, peer |-> NoIp]
    BY <1>2 DEF Seen, fwd
  <2> QED
    BY <1>2, <2>2, <2>3, <2>5, <2>6 DEF client_ip
<1> QED
  BY <1>1, <1>2

-----------------------------------------------------------------------------
(* What a check leaves in the ghosts, and what the absence of a late stamp   *)
(* says of the request.                                                      *)
LEMMA WitnessFacts ==
    ASSUME LimiterTypes, NEW c \in Tasks, NEW ok \in BOOLEAN, attempts[c] # NoAttempt, Witness(c, ok)
    PROVE  LET a == attempts[c]
               x == [who |-> a.origin, at |-> a.at, nth |-> Cardinality(admitted)]
           IN  /\ a \in Attempt
               /\ attempts' \in [Tasks -> Attempt \cup {NoAttempt}]
               /\ x \notin admitted
               /\ admitted' = IF ok THEN admitted \cup {x} ELSE admitted
               /\ IsFiniteSet(admitted') /\ admitted' \subseteq [who: Clients, at: Nat, nth: Nat]
               /\ \A h \in admitted' : h.nth < Cardinality(admitted')
               /\ trusted_proxy' \in BOOLEAN /\ skewed' \in BOOLEAN /\ now' \in Nat
               /\ ~skewed' => /\ ~skewed /\ last_sweep <= a.at
                              /\ \A h \in admitted : h.at <= a.at
<1> DEFINE a == attempts[c]
           x == [who |-> a.origin, at |-> a.at, nth |-> Cardinality(admitted)]
<1>1. a \in Attempt
  BY DEF LimiterTypes
<1>2. a \in [at: Nat, origin: Clients, ip: Clients]
  BY <1>1 DEF Attempt
<1>3. Cardinality(admitted) \in Nat
  BY FS_CardinalityType DEF LimiterTypes
<1>4. x \in [who: Clients, at: Nat, nth: Nat] /\ x.nth = Cardinality(admitted) /\ x.at = a.at
  BY <1>2, <1>3
<1>5. x \notin admitted
  BY <1>3, <1>4 DEF LimiterTypes
<1>6. admitted' = IF ok THEN admitted \cup {x} ELSE admitted
  BY DEF Witness
<1>7. attempts' \in [Tasks -> Attempt \cup {NoAttempt}]
  BY DEF Witness, LimiterTypes
<1>8. trusted_proxy' \in BOOLEAN /\ now' \in Nat
  BY DEF Witness, LimiterTypes
<1>9. skewed' = (skewed \/ last_sweep > a.at \/ \E h \in admitted : h.at > a.at)
  BY DEF Witness
<1>10. skewed' \in BOOLEAN
  BY <1>9, Zenon DEF LimiterTypes
<1>11. ASSUME ~skewed'
       PROVE  ~skewed /\ last_sweep <= a.at /\ \A h \in admitted : h.at <= a.at
  <2>1. ~skewed /\ ~ (last_sweep > a.at) /\ \A h \in admitted : ~ (h.at > a.at)
    BY <1>9, <1>11
  <2>2. last_sweep \in Int /\ a.at \in Int /\ \A h \in admitted : h.at \in Int
    BY <1>2 DEF LimiterTypes, Never
  <2> HIDE DEF a
  <2> QED
    BY <2>1, <2>2
<1> HIDE DEF x, a
<1>12. /\ IsFiniteSet(admitted') /\ admitted' \subseteq [who: Clients, at: Nat, nth: Nat]
       /\ \A h \in admitted' : h.nth < Cardinality(admitted')
  <2>1. CASE ok
    <3>1. IsFiniteSet(admitted \cup {x}) /\ Cardinality(admitted \cup {x}) = Cardinality(admitted) + 1
      BY <1>5, FS_AddElement DEF LimiterTypes
    <3>2. admitted' = admitted \cup {x}
      BY <1>6, <2>1
    <3>3. ASSUME NEW h \in admitted'
          PROVE  h.nth < Cardinality(admitted) + 1
      <4>1. CASE h = x
        BY <1>3, <1>4, <4>1
      <4>2. CASE h \in admitted
        <5>1. h.nth < Cardinality(admitted) /\ h.nth \in Nat
          BY <4>2 DEF LimiterTypes
        <5> QED
          BY <1>3, <5>1
      <4> QED
        BY <3>2, <4>1, <4>2
    <3> QED
      BY <1>4, <3>1, <3>2, <3>3 DEF LimiterTypes
  <2>2. CASE ~ok
    BY <1>6, <2>2 DEF LimiterTypes
  <2> QED
    BY <2>1, <2>2
<1> QED
  BY <1>1, <1>5, <1>6, <1>7, <1>8, <1>10, <1>11, <1>12 DEF a, x

(* Sweep and eviction only drop whole buckets: swept ones, all of whose hits *)
(* are out of the window, and evicted ones; and they make room for the key.  *)
LEMMA RoomMade ==
    ASSUME LimiterTypes, MemoryBounded, NEW c \in Tasks, NEW ok \in BOOLEAN, CheckAt(c, ok)
    PROVE  LET a == attempts[c]
               key == limiter_key(a.ip)
           IN  /\ evicted \subseteq evicted'
               /\ last_sweep' = IF SweepDue(a.at) THEN a.at ELSE last_sweep
               /\ \E kept :
                    /\ DOMAIN kept \subseteq DOMAIN map
                    /\ \A k \in DOMAIN kept : kept[k] = map[k]
                    /\ \A k \in DOMAIN map \ DOMAIN kept :
                        k \in evicted' \/ (SweepDue(a.at) /\ Newest(map[k]) <= a.at - window)
                    /\ IsFiniteSet(DOMAIN kept) /\ Cardinality(DOMAIN kept) <= MAX_TRACKED_IPS
                    /\ key \notin DOMAIN kept => Cardinality(DOMAIN kept) < MAX_TRACKED_IPS
                    /\ LET bucket == Pruned(IF key \in DOMAIN kept THEN kept[key] ELSE << >>, a.at - window)
                       IN  /\ ok = ~Full(bucket)
                           /\ map' = [k \in DOMAIN kept \cup {key} |->
                                IF k # key THEN kept[k]
                                ELSE IF ok THEN Append(bucket, a.at) ELSE bucket]
<1> DEFINE a == attempts[c]
           key == limiter_key(a.ip)
           swept == Swept(a.at)
<1>1. PICK victims \in SUBSET DOMAIN swept :
         /\ IF AtCap(swept, key) THEN Stalest(swept, victims) ELSE victims = {}
         /\ evicted' = evicted \cup victims
         /\ LET kept == Restrict(swept, DOMAIN swept \ victims)
                bucket == Pruned(IF key \in DOMAIN kept THEN kept[key] ELSE << >>, a.at - window)
            IN  /\ ok = ~Full(bucket)
                /\ map' = [k \in DOMAIN kept \cup {key} |->
                     IF k # key THEN kept[k] ELSE IF ok THEN Append(bucket, a.at) ELSE bucket]
  BY DEF CheckAt
<1>2. last_sweep' = IF SweepDue(a.at) THEN a.at ELSE last_sweep
  BY DEF CheckAt
<1>3. a \in Attempt
  BY DEF LimiterTypes, CheckAt
<1>4. a.at - window \in Int
  BY <1>3, RateLimitAssumption DEF Attempt
<1> DEFINE current == {k \in DOMAIN map : Newest(map[k]) > a.at - window}
           kept == Restrict(swept, DOMAIN swept \ victims)
<1>5. /\ DOMAIN swept \subseteq DOMAIN map
      /\ \A k \in DOMAIN swept : swept[k] = map[k]
      /\ \A k \in DOMAIN map \ DOMAIN swept : SweepDue(a.at) /\ Newest(map[k]) <= a.at - window
  <2>1. CASE SweepDue(a.at)
    <3>1. swept = [k \in current |-> map[k]]
      BY <2>1 DEF Swept, Restrict
    <3>2. DOMAIN swept = current /\ \A k \in current : swept[k] = map[k]
      BY <3>1
    <3>3. ASSUME NEW k \in DOMAIN map, k \notin current
          PROVE  Newest(map[k]) <= a.at - window
      <4>1. map[k] \in Seq(Nat) /\ map[k] # << >>
        BY DEF LimiterTypes
      <4>2. Newest(map[k]) = map[k][Len(map[k])] /\ Len(map[k]) \in 1 .. Len(map[k])
        BY <4>1 DEF Newest, Last
      <4>3. Newest(map[k]) \in Nat
        BY <4>1, <4>2
      <4>4. ~ (Newest(map[k]) > a.at - window)
        BY <3>3
      <4> QED
        BY <1>4, <4>3, <4>4
    <3> QED
      BY <2>1, <3>2, <3>3
  <2>2. CASE ~SweepDue(a.at)
    BY <2>2 DEF Swept
  <2> QED
    BY <2>1, <2>2
<1> HIDE DEF swept
<1>6. DOMAIN kept = DOMAIN swept \ victims /\ \A k \in DOMAIN kept : kept[k] = swept[k]
  BY DEF Restrict
<1>7. IsFiniteSet(DOMAIN swept) /\ Cardinality(DOMAIN swept) <= MAX_TRACKED_IPS /\ Cardinality(DOMAIN swept) \in Nat
  <2>1. IsFiniteSet(DOMAIN map) /\ Cardinality(DOMAIN map) <= MAX_TRACKED_IPS
    BY DEF LimiterTypes, MemoryBounded
  <2>2. IsFiniteSet(DOMAIN swept) /\ Cardinality(DOMAIN swept) <= Cardinality(DOMAIN map)
    BY <1>5, <2>1, FS_Subset
  <2>3. Cardinality(DOMAIN swept) \in Nat /\ Cardinality(DOMAIN map) \in Nat
    BY <2>1, <2>2, FS_CardinalityType
  <2> QED
    BY <2>1, <2>2, <2>3, RateLimitAssumption
<1>8. IsFiniteSet(victims) /\ Cardinality(victims) \in Nat
      /\ IsFiniteSet(DOMAIN kept) /\ Cardinality(DOMAIN kept) = Cardinality(DOMAIN swept) - Cardinality(victims)
  <2>1. IsFiniteSet(victims)
    BY <1>7, FS_Subset
  <2>2. DOMAIN swept \cap victims = victims
    OBVIOUS
  <2> QED
    BY <1>6, <1>7, <2>1, <2>2, FS_Difference, FS_CardinalityType
<1>9. /\ Cardinality(DOMAIN kept) <= MAX_TRACKED_IPS
      /\ key \notin DOMAIN kept => Cardinality(DOMAIN kept) < MAX_TRACKED_IPS
  <2>1. CASE AtCap(swept, key)
    <3> DEFINE D == {EVICT_BATCH, Cardinality(DOMAIN swept)}
    <3>1. Cardinality(victims) = Min(D)
      BY <1>1, <2>1 DEF Stalest
    <3>2. D \in SUBSET Nat /\ \A d \in D : d > 0
      BY <1>7, <2>1, RateLimitAssumption DEF AtCap
    <3>3. Min(D) \in D
      BY <3>2, MinExists
    <3>4. Cardinality(victims) > 0
      BY <3>1, <3>2, <3>3
    <3> QED
      BY <1>7, <1>8, <3>4, RateLimitAssumption
  <2>2. CASE ~AtCap(swept, key)
    <3>1. victims = {}
      BY <1>1, <2>2
    <3>2. DOMAIN kept = DOMAIN swept
      BY <1>6, <3>1
    <3> QED
      BY <1>7, <2>2, <3>2, RateLimitAssumption DEF AtCap
  <2> QED
    BY <2>1, <2>2
<1>10. \A k \in DOMAIN map \ DOMAIN kept :
          k \in evicted' \/ (SweepDue(a.at) /\ Newest(map[k]) <= a.at - window)
  BY <1>1, <1>5, <1>6
<1>11. DOMAIN kept \subseteq DOMAIN map /\ \A k \in DOMAIN kept : kept[k] = map[k]
  BY <1>5, <1>6
<1>12. evicted \subseteq evicted'
  BY <1>1
<1>13. LET bucket == Pruned(IF key \in DOMAIN kept THEN kept[key] ELSE << >>, a.at - window)
       IN  /\ ok = ~Full(bucket)
           /\ map' = [k \in DOMAIN kept \cup {key} |->
                IF k # key THEN kept[k] ELSE IF ok THEN Append(bucket, a.at) ELSE bucket]
  BY <1>1
<1> HIDE DEF kept, key, a
<1> QED
  BY <1>2, <1>8, <1>9, <1>10, <1>11, <1>12, <1>13 DEF key, a

(* The bucket a check leaves: typed, never empty after an admission, and     *)
(* within its length.                                                        *)
LEMMA CheckedLength ==
    ASSUME NEW b \in Seq(Nat), Len(b) <= max_attempts, NEW cutoff \in Int, NEW t \in Nat
    PROVE  LET p == Pruned(b, cutoff) IN
           /\ Full(p) => p \in Seq(Nat) /\ p # << >> /\ Len(p) <= max_attempts
           /\ ~Full(p) => /\ Append(p, t) \in Seq(Nat) /\ Append(p, t) # << >>
                          /\ Len(Append(p, t)) <= max_attempts
<1> DEFINE p == Pruned(b, cutoff)
<1>1. p \in Seq(Nat) /\ Len(p) <= Len(b) /\ Len(p) \in Nat /\ Len(b) \in Nat
  BY PrunedLength
<1> HIDE DEF p
<1>2. max_attempts \in Nat /\ max_attempts > 0
  BY RateLimitAssumption
<1>3. Full(p) => p # << >> /\ Len(p) <= max_attempts
  <2>1. Full(p) => Len(p) >= 1
    BY <1>1, <1>2 DEF Full
  <2> QED
    BY <1>1, <1>2, <2>1
<1>4. Append(p, t) \in Seq(Nat) /\ Len(Append(p, t)) = Len(p) + 1 /\ Append(p, t) # << >>
  BY <1>1
<1>5. ~Full(p) => Len(p) + 1 <= max_attempts
  BY <1>1, <1>2 DEF Full
<1> QED
  BY <1>1, <1>3, <1>4, <1>5 DEF p

(* Types and bounds under every step.                                        *)
LEMMA LimiterTypesStep ==
    ASSUME LimiterTypes, MemoryBounded, [LimiterNext]_limiter_vars
    PROVE  LimiterTypes' /\ MemoryBounded'
<1>1. ASSUME Tick
      PROVE  LimiterTypes' /\ MemoryBounded'
  BY <1>1 DEF Tick, LimiterTypes, MemoryBounded
<1>2. ASSUME NEW c \in Tasks, NEW origin \in Addresses \cup {NoIp}, NEW spoof \in Spoofs,
             Arrive(c, origin, spoof)
      PROVE  LimiterTypes' /\ MemoryBounded'
  <2>1. client_ip(Seen(origin, spoof)) = origin /\ origin \in Clients
    BY <1>2, HeadersDoNotCount DEF Arrive, LimiterTypes, Clients
  <2>2. [at |-> now, origin |-> origin, ip |-> origin] \in Attempt
    BY <2>1 DEF Attempt, LimiterTypes
  <2>3. attempts' \in [Tasks -> Attempt \cup {NoAttempt}]
    BY <1>2, <2>1, <2>2 DEF Arrive, LimiterTypes
  <2> QED
    BY <1>2, <2>3 DEF Arrive, LimiterTypes, MemoryBounded
<1>3. ASSUME NEW c \in Tasks, NEW ok \in BOOLEAN, CheckAt(c, ok)
      PROVE  LimiterTypes' /\ MemoryBounded'
  <2> DEFINE a == attempts[c]
             key == limiter_key(a.ip)
  <2>1. a # NoAttempt /\ Witness(c, ok) /\ a.ip # NoIp /\ unresolved' = unresolved
    BY <1>3 DEF CheckAt
  <2>2. /\ a \in Attempt
        /\ attempts' \in [Tasks -> Attempt \cup {NoAttempt}]
        /\ IsFiniteSet(admitted') /\ admitted' \subseteq [who: Clients, at: Nat, nth: Nat]
        /\ \A h \in admitted' : h.nth < Cardinality(admitted')
        /\ trusted_proxy' \in BOOLEAN /\ skewed' \in BOOLEAN /\ now' \in Nat
    BY <2>1, WitnessFacts
  <2>3. PICK kept :
          /\ DOMAIN kept \subseteq DOMAIN map
          /\ \A k \in DOMAIN kept : kept[k] = map[k]
          /\ IsFiniteSet(DOMAIN kept) /\ Cardinality(DOMAIN kept) <= MAX_TRACKED_IPS
          /\ key \notin DOMAIN kept => Cardinality(DOMAIN kept) < MAX_TRACKED_IPS
          /\ LET bucket == Pruned(IF key \in DOMAIN kept THEN kept[key] ELSE << >>, a.at - window)
             IN  /\ ok = ~Full(bucket)
                 /\ map' = [k \in DOMAIN kept \cup {key} |->
                      IF k # key THEN kept[k]
                      ELSE IF ok THEN Append(bucket, a.at) ELSE bucket]
    BY <1>3, RoomMade
  <2> DEFINE old == IF key \in DOMAIN kept THEN kept[key] ELSE << >>
             bucket == Pruned(old, a.at - window)
             new == IF ok THEN Append(bucket, a.at) ELSE bucket
  <2>4. last_sweep' \in Nat \cup {Never}
    BY <1>3, <2>2 DEF CheckAt, LimiterTypes, Attempt
  <2>5. a.at \in Nat /\ a.at - window \in Int /\ a.ip \in Clients
    BY <2>2, RateLimitAssumption DEF Attempt
  <2>6. key \in Keys
    BY <2>1, <2>5, OneBucketPerClient
  <2>7. old \in Seq(Nat) /\ Len(old) <= max_attempts
    BY <2>3, RateLimitAssumption DEF LimiterTypes, MemoryBounded
  <2>8. ok = ~Full(bucket) /\ map' = [k \in DOMAIN kept \cup {key} |-> IF k # key THEN kept[k] ELSE new]
    BY <2>3
  <2> HIDE DEF a, key, old
  <2>9. new \in Seq(Nat) /\ new # << >> /\ Len(new) <= max_attempts
    BY <2>5, <2>7, <2>8, CheckedLength
  <2> HIDE DEF new
  <2>10. DOMAIN map' = DOMAIN kept \cup {key}
    BY <2>8
  <2>11. IsFiniteSet(DOMAIN map') /\ Cardinality(DOMAIN map') <= MAX_TRACKED_IPS
    <3>1. /\ IsFiniteSet(DOMAIN kept \cup {key})
          /\ Cardinality(DOMAIN kept \cup {key}) =
               IF key \in DOMAIN kept THEN Cardinality(DOMAIN kept) ELSE Cardinality(DOMAIN kept) + 1
      BY <2>3, FS_AddElement
    <3>2. Cardinality(DOMAIN kept) \in Nat
      BY <2>3, FS_CardinalityType
    <3>3. /\ Cardinality(DOMAIN kept) <= MAX_TRACKED_IPS
          /\ key \notin DOMAIN kept => Cardinality(DOMAIN kept) < MAX_TRACKED_IPS
      BY <2>3
    <3> QED
      BY <2>10, <3>1, <3>2, <3>3, RateLimitAssumption
  <2>12. ASSUME NEW k \in DOMAIN map'
         PROVE  k \in Keys /\ map'[k] \in Seq(Nat) /\ map'[k] # << >> /\ Len(map'[k]) <= max_attempts
    <3>1. CASE k = key
      BY <2>6, <2>8, <2>9, <3>1
    <3>2. CASE k # key
      <4>1. k \in DOMAIN map /\ map'[k] = map[k]
        BY <2>3, <2>8, <2>10, <3>2
      <4> QED
        BY <4>1 DEF LimiterTypes, MemoryBounded
    <3> QED
      BY <3>1, <3>2
  <2>13. LimiterTypes'
    BY <2>1, <2>2, <2>4, <2>11, <2>12 DEF LimiterTypes
  <2> QED
    BY <2>1, <2>11, <2>12, <2>13 DEF MemoryBounded
<1>4. ASSUME NEW c \in Tasks, NEW ok \in BOOLEAN, CheckUnresolvedAt(c, ok)
      PROVE  LimiterTypes' /\ MemoryBounded'
  <2> DEFINE a == attempts[c]
             bucket == Pruned(unresolved, a.at - window)
  <2>1. /\ a # NoAttempt /\ Witness(c, ok) /\ map' = map /\ last_sweep' = last_sweep
        /\ ok = ~Full(bucket) /\ unresolved' = IF ok THEN Append(bucket, a.at) ELSE bucket
    BY <1>4 DEF CheckUnresolvedAt
  <2>2. /\ a \in Attempt
        /\ attempts' \in [Tasks -> Attempt \cup {NoAttempt}]
        /\ IsFiniteSet(admitted') /\ admitted' \subseteq [who: Clients, at: Nat, nth: Nat]
        /\ \A h \in admitted' : h.nth < Cardinality(admitted')
        /\ trusted_proxy' \in BOOLEAN /\ skewed' \in BOOLEAN /\ now' \in Nat
    BY <2>1, WitnessFacts
  <2>3. a.at \in Nat /\ a.at - window \in Int
    BY <2>2, RateLimitAssumption DEF Attempt
  <2>4. unresolved \in Seq(Nat) /\ Len(unresolved) <= max_attempts
    BY DEF LimiterTypes, MemoryBounded
  <2> HIDE DEF a
  <2>5. unresolved' \in Seq(Nat) /\ Len(unresolved') <= max_attempts
    BY <2>1, <2>3, <2>4, CheckedLength
  <2> QED
    BY <2>1, <2>2, <2>5 DEF LimiterTypes, MemoryBounded
<1>5. CASE UNCHANGED limiter_vars
  BY <1>5 DEF limiter_vars, LimiterTypes, MemoryBounded
<1> QED
  BY <1>1, <1>2, <1>3, <1>4, <1>5 DEF LimiterNext, Check

-----------------------------------------------------------------------------
(* Clients of one bucket share their hits.                                   *)
LEMMA HitsByKey ==
    ASSUME admitted \subseteq [who: Clients, at: Nat, nth: Nat], NEW who \in Clients, NEW from, NEW to
    PROVE  Hits(who, from, to) = {h \in HitsOf(KeyOf(who)) : h.at > from /\ h.at <= to}
<1>1. \A h \in admitted : SameClient(h.who, who) <=> KeyOf(h.who) = KeyOf(who)
  <2> SUFFICES ASSUME NEW h \in admitted
               PROVE  SameClient(h.who, who) <=> KeyOf(h.who) = KeyOf(who)
    OBVIOUS
  <2>1. h.who \in Clients
    OBVIOUS
  <2> QED
    BY <2>1, OneBucketPerClient
<1> QED
  BY <1>1 DEF Hits, HitsOf

\* The hits of k that its bucket need not hold in the middle of a check, when
\* sweep and eviction are through and the verdict is not yet recorded.
LostMidway(k) ==
    {h \in HitsOf(k) : \/ k \in evicted'
                       \/ h.at + window <= last_sweep'
                       \/ \E g \in admitted : h.at + window <= g.at}

LEMMA PrimedBacked ==
    ASSUME NEW k, Backed(BucketOf(k)', HitsOf(k)', Lost(k)')
    PROVE  Backed(BucketOf(k), HitsOf(k), Lost(k))'
BY DEF Backed, Sorted

(* The end of a check for a bucket that the check did not look at.           *)
LEMMA OtherBucket ==
    ASSUME LimiterTypes, NEW c \in Tasks, NEW ok \in BOOLEAN, attempts[c] # NoAttempt, Witness(c, ok),
           NEW k, k # KeyOf(attempts[c].origin),
           NEW b, Backed(b, HitsOf(k), LostMidway(k)), BucketOf(k)' = b
    PROVE  Backed(BucketOf(k), HitsOf(k), Lost(k))'
<1> DEFINE a == attempts[c]
           x == [who |-> a.origin, at |-> a.at, nth |-> Cardinality(admitted)]
<1>1. admitted' = IF ok THEN admitted \cup {x} ELSE admitted
  BY WitnessFacts
<1>2. x.who = a.origin
  OBVIOUS
<1> HIDE DEF x, a
<1>3. HitsOf(k)' = HitsOf(k)
  BY <1>1, <1>2 DEF HitsOf, KeyOf, a
<1>4. LostMidway(k) \cap HitsOf(k) \subseteq Lost(k)'
  BY <1>1, <1>3 DEF LostMidway, Lost, Expired
<1>5. Backed(b, HitsOf(k), Lost(k)')
  BY <1>4, BackedWeakens
<1> QED
  BY <1>3, <1>5, PrimedBacked

(* ... and for the one it looked at.                                         *)
LEMMA OwnBucket ==
    ASSUME LimiterTypes, NEW c \in Tasks, NEW ok \in BOOLEAN, attempts[c] # NoAttempt, Witness(c, ok),
           ~skewed', NEW k, k = KeyOf(attempts[c].origin),
           NEW b, Backed(b, HitsOf(k), LostMidway(k)), Len(b) <= max_attempts,
           ok = ~Full(Pruned(b, attempts[c].at - window)),
           BucketOf(k)' = IF ok THEN Append(Pruned(b, attempts[c].at - window), attempts[c].at)
                                ELSE Pruned(b, attempts[c].at - window)
    PROVE  /\ Backed(BucketOf(k), HitsOf(k), Lost(k))'
           /\ ~ok => max_attempts <= Cardinality(Hits(attempts[c].origin, attempts[c].at - window, attempts[c].at))
<1> DEFINE a == attempts[c]
           x == [who |-> a.origin, at |-> a.at, nth |-> Cardinality(admitted)]
           cutoff == a.at - window
           p == Pruned(b, cutoff)
           H == HitsOf(k)
           L == LostMidway(k) \cup {h \in H : h.at <= cutoff}
<1>1. /\ a \in Attempt /\ x \notin admitted
      /\ admitted' = IF ok THEN admitted \cup {x} ELSE admitted
      /\ \A h \in admitted : h.at <= a.at
  BY WitnessFacts
<1>2. a.at \in Nat /\ cutoff \in Int /\ a.origin \in Clients
  BY <1>1, RateLimitAssumption DEF Attempt
<1>3. x.who = a.origin /\ x.at = a.at
  OBVIOUS
<1>4. x \notin H /\ \A h \in H : h.at <= a.at
  BY <1>1, <1>3 DEF HitsOf
<1> HIDE DEF x
<1>5. /\ Backed(p, H, L) /\ (\A i \in 1 .. Len(p) : p[i] > cutoff)
      /\ p \in Seq(Nat) /\ Len(p) \in Nat /\ Len(p) <= Len(b) /\ (Len(p) = Len(b) => p = b)
      /\ b \in Seq(Nat) /\ Len(b) \in Nat
  <2>1. b \in Seq(Nat) /\ Backed(b, H, LostMidway(k))
    BY DEF Backed
  <2> HIDE DEF H, cutoff
  <2>2. Backed(p, H, L) /\ (\A i \in 1 .. Len(p) : p[i] > cutoff)
    BY <1>2, <2>1, PrunedBacked
  <2>3. p \in Seq(Nat) /\ Len(p) <= Len(b) /\ (Len(p) = Len(b) => p = b)
    BY <1>2, <2>1, PrunedLength
  <2> QED
    BY <2>1, <2>2, <2>3
<1>6. \A i \in 1 .. Len(p) : p[i] <= a.at
  <2> HIDE DEF p, L, H, a
  <2> QED
    BY <1>4, <1>5, EntriesAreHits
<1>7. Backed(Append(p, a.at), H \cup {x}, L)
  <2> HIDE DEF p, L, H, a
  <2>1. x.at \in Nat /\ \A i \in 1 .. Len(p) : p[i] <= x.at
    BY <1>2, <1>3, <1>6
  <2>2. Backed(Append(p, x.at), H \cup {x}, L)
    BY <1>4, <1>5, <2>1, AppendBacked
  <2> QED
    BY <1>3, <2>2
<1>8. ASSUME Full(p)
      PROVE  /\ p = b /\ max_attempts <= Len(b)
             /\ \A i \in 1 .. Len(b) : b[i] > cutoff /\ b[i] <= a.at
  <2> HIDE DEF p, cutoff, a
  <2>1. Len(p) = Len(b) /\ max_attempts <= Len(b)
    BY <1>5, <1>8, RateLimitAssumption DEF Full
  <2> QED
    BY <1>5, <1>6, <2>1
<1>9. CASE ok
  <2>1. HitsOf(k)' = H \cup {x}
    BY <1>1, <1>3, <1>9 DEF HitsOf, KeyOf
  <2>2. L \cap (H \cup {x}) \subseteq Lost(k)'
    <3> SUFFICES ASSUME NEW h \in L \cap (H \cup {x})
                 PROVE  h \in Lost(k)'
      OBVIOUS
    <3>1. h \in H
      BY DEF LostMidway
    <3>2. CASE h \in LostMidway(k)
      BY <1>1, <1>9, <2>1, <3>1, <3>2 DEF LostMidway, Lost, Expired
    <3>3. CASE h.at <= cutoff
      <4>1. h.at \in Nat
        BY <3>1 DEF HitsOf, LimiterTypes
      <4>2. h.at + window <= x.at
        BY <1>2, <1>3, <3>3, <4>1, RateLimitAssumption
      <4>3. x \in admitted'
        BY <1>1, <1>9
      <4> QED
        BY <2>1, <3>1, <4>2, <4>3 DEF Lost, Expired
    <3> QED
      BY <3>1, <3>2, <3>3
  <2>3. Backed(Append(p, a.at), H \cup {x}, L)
    BY <1>7
  <2>4. BucketOf(k)' = Append(p, a.at)
    BY <1>3, <1>9
  <2> HIDE DEF L, p, H
  <2>5. Backed(Append(p, a.at), H \cup {x}, Lost(k)')
    BY <2>2, <2>3, BackedWeakens
  <2> QED
    BY <1>9, <2>1, <2>4, <2>5, PrimedBacked
<1>10. CASE ~ok
  <2>1. HitsOf(k)' = H
    BY <1>1, <1>10 DEF HitsOf, KeyOf
  <2>2. LostMidway(k) \cap H \subseteq Lost(k)'
    BY <1>1, <1>10, <2>1 DEF LostMidway, Lost, Expired
  <2>3. BucketOf(k)' = b
    BY <1>8, <1>10
  <2>4. Backed(b, H, Lost(k)')
    BY <2>2, BackedWeakens
  <2>5. IsFiniteSet(H)
    BY FS_Subset DEF HitsOf, LimiterTypes
  <2>6. Len(b) <= Cardinality({h \in H : h.at > cutoff /\ h.at <= a.at})
    <3>1. \A i \in 1 .. Len(b) : b[i] > cutoff /\ b[i] <= a.at
      BY <1>8, <1>10
    <3> DEFINE T == {h \in H : h.at > cutoff /\ h.at <= a.at}
    <3>2. T = {h \in H : h.at > cutoff /\ h.at <= a.at}
      OBVIOUS
    <3> HIDE DEF H, cutoff, a, T
    <3>3. a.at \in Int /\ cutoff \in Int
      BY <1>2
    <3>4. Len(b) <= Cardinality(T)
      BY ONLY <2>4, <2>5, <3>1, <3>2, <3>3, CountedBelow
    <3> QED
      BY <3>4 DEF T
  <2>7. Hits(a.origin, cutoff, a.at) = {h \in H : h.at > cutoff /\ h.at <= a.at}
    BY <1>2, HitsByKey DEF LimiterTypes
  <2>8. max_attempts <= Len(b) /\ Len(b) \in Nat
    BY <1>5, <1>10, <1>8
  <2>9. Cardinality({h \in H : h.at > cutoff /\ h.at <= a.at}) \in Nat
    BY <2>5, FS_Subset, FS_CardinalityType
  <2>10. max_attempts <= Cardinality(Hits(a.origin, cutoff, a.at))
    <3> HIDE DEF H, cutoff, a
    <3> QED
      BY <2>6, <2>7, <2>8, <2>9, RateLimitAssumption
  <2> QED
    BY <2>1, <2>3, <2>4, <2>10, PrimedBacked
<1> QED
  BY <1>9, <1>10

(* A bucket that sweep and eviction spare still stands for the same hits;    *)
(* one that they drop stood for lost ones.                                   *)
LEMMA MidwayBacked ==
    ASSUME LimiterTypes, BucketsBacked, ~skewed, NEW k \in Keys \cup {NoIp},
           evicted \subseteq evicted', NEW t \in Nat, last_sweep <= t,
           last_sweep' \in {last_sweep, t}
    PROVE  /\ Backed(BucketOf(k), HitsOf(k), LostMidway(k))
           /\ k \in evicted' => Backed(<< >>, HitsOf(k), LostMidway(k))
           /\ last_sweep' = t /\ BucketOf(k) # << >> /\ Newest(BucketOf(k)) <= t - window
                 => Backed(<< >>, HitsOf(k), LostMidway(k))
<1>1. Backed(BucketOf(k), HitsOf(k), Lost(k))
  BY DEF BucketsBacked
<1>2. last_sweep \in Int /\ last_sweep' \in Int /\ last_sweep <= last_sweep' /\ window \in Nat
  BY RateLimitAssumption DEF LimiterTypes, Never
<1>3. \A h \in HitsOf(k) : h.at \in Nat
  BY DEF HitsOf, LimiterTypes
<1>4. Lost(k) \subseteq LostMidway(k)
  <2> SUFFICES ASSUME NEW h \in Lost(k)
               PROVE  h \in LostMidway(k)
    OBVIOUS
  <2>1. h \in HitsOf(k) /\ h.at + window \in Int
    BY <1>2, <1>3 DEF Lost
  <2>2. h.at + window <= last_sweep => h.at + window <= last_sweep'
    BY <1>2, <2>1
  <2> QED
    BY <2>1, <2>2 DEF Lost, LostMidway, Expired
<1>5. Backed(BucketOf(k), HitsOf(k), LostMidway(k))
  BY <1>1, <1>4, BackedWeakens
<1>6. ASSUME k \in evicted'
      PROVE  Backed(<< >>, HitsOf(k), LostMidway(k))
  <2>1. HitsOf(k) \subseteq LostMidway(k)
    BY <1>6 DEF LostMidway
  <2> QED
    BY <2>1, EmptyBacked
<1>7. ASSUME last_sweep' = t, BucketOf(k) # << >>, Newest(BucketOf(k)) <= t - window
      PROVE  Backed(<< >>, HitsOf(k), LostMidway(k))
  <2> DEFINE cutoff == t - window
             b == BucketOf(k)
             H == HitsOf(k)
             L == Lost(k) \cup {h \in H : h.at <= cutoff}
  <2>1. cutoff \in Int
    BY <1>2
  <2>2. Backed(<< >>, H, L)
    <3>1. Backed(b, H, Lost(k)) /\ b # << >> /\ Newest(b) <= cutoff
      BY <1>1, <1>7
    <3> HIDE DEF b, H, cutoff
    <3> QED
      BY <2>1, <3>1, SweptBacked
  <2>3. L \cap H \subseteq LostMidway(k)
    <3> SUFFICES ASSUME NEW h \in H, h.at <= cutoff
                 PROVE  h \in LostMidway(k)
      BY <1>4
    <3>1. h.at + window <= last_sweep'
      BY <1>2, <1>3, <1>7
    <3> QED
      BY <3>1 DEF LostMidway
  <2> HIDE DEF L
  <2> QED
    BY <2>2, <2>3, BackedWeakens
<1> QED
  BY <1>5, <1>6, <1>7

(* Every bucket stands for its hits after a check; and a refusal is due to   *)
(* the hits of the client itself.                                            *)
LEMMA CheckAtBacked ==
    ASSUME LimiterTypes, MemoryBounded, BucketsBacked,
           NEW c \in Tasks, NEW ok \in BOOLEAN, CheckAt(c, ok), ~skewed'
    PROVE  /\ BucketsBacked'
           /\ ~ok => max_attempts <= Cardinality(Hits(attempts[c].origin, attempts[c].at - window, attempts[c].at))
<1> DEFINE a == attempts[c]
           key == limiter_key(a.ip)
<1>1. a # NoAttempt /\ Witness(c, ok) /\ a.ip # NoIp /\ unresolved' = unresolved
  BY DEF CheckAt
<1>2. a \in Attempt /\ ~skewed /\ last_sweep <= a.at
  BY <1>1, WitnessFacts
<1>3. a.at \in Nat /\ a.origin \in Clients /\ a.ip = a.origin
  BY <1>2 DEF Attempt
<1>4. key = KeyOf(a.origin) /\ key \in Keys /\ NoIp \notin Keys
  <2>1. key = KeyOf(a.origin) /\ key \in Keys
    BY <1>1, <1>3, OneBucketPerClient
  <2>2. ASSUME NEW i \in Addresses
        PROVE  limiter_key(i) # NoIp
    <3>1. i \in Clients /\ i # NoIp
      BY RateLimitAssumption DEF Clients, Addresses
    <3> QED
      BY <3>1, OneBucketPerClient
  <2> QED
    BY <2>1, <2>2 DEF Keys
<1>5. PICK kept :
        /\ DOMAIN kept \subseteq DOMAIN map
        /\ \A k \in DOMAIN kept : kept[k] = map[k]
        /\ \A k \in DOMAIN map \ DOMAIN kept :
            k \in evicted' \/ (SweepDue(a.at) /\ Newest(map[k]) <= a.at - window)
        /\ LET bucket == Pruned(IF key \in DOMAIN kept THEN kept[key] ELSE << >>, a.at - window)
           IN  /\ ok = ~Full(bucket)
               /\ map' = [k \in DOMAIN kept \cup {key} |->
                    IF k # key THEN kept[k] ELSE IF ok THEN Append(bucket, a.at) ELSE bucket]
  BY RoomMade
<1>6. evicted \subseteq evicted' /\ last_sweep' = IF SweepDue(a.at) THEN a.at ELSE last_sweep
  BY RoomMade
<1> DEFINE Kept(k) == IF k = NoIp THEN unresolved ELSE IF k \in DOMAIN kept THEN kept[k] ELSE << >>
           bucket == Pruned(Kept(key), a.at - window)
<1>7. ok = ~Full(bucket) /\ map' = [k \in DOMAIN kept \cup {key} |->
                    IF k # key THEN kept[k] ELSE IF ok THEN Append(bucket, a.at) ELSE bucket]
  BY <1>4, <1>5
<1>8. ASSUME NEW k \in Keys \cup {NoIp}
      PROVE  Backed(Kept(k), HitsOf(k), LostMidway(k))
  <2> HIDE DEF a
  <2>1. /\ Backed(BucketOf(k), HitsOf(k), LostMidway(k))
        /\ k \in evicted' => Backed(<< >>, HitsOf(k), LostMidway(k))
        /\ last_sweep' = a.at /\ BucketOf(k) # << >> /\ Newest(BucketOf(k)) <= a.at - window
                 => Backed(<< >>, HitsOf(k), LostMidway(k))
    BY <1>2, <1>3, <1>6, MidwayBacked
  <2>2. CASE k = NoIp \/ k \in DOMAIN kept \/ k \notin DOMAIN map
    <3>1. Kept(k) = BucketOf(k)
      BY <1>5, <2>2 DEF BucketOf
    <3> QED
      BY <2>1, <3>1
  <2>3. CASE k # NoIp /\ k \in DOMAIN map /\ k \notin DOMAIN kept
    <3>1. Kept(k) = << >> /\ BucketOf(k) = map[k] /\ map[k] # << >>
      BY <2>3 DEF BucketOf, LimiterTypes
    <3>2. k \in evicted' \/ (last_sweep' = a.at /\ Newest(map[k]) <= a.at - window)
      BY <1>5, <1>6, <2>3
    <3> QED
      BY <2>1, <3>1, <3>2
  <2> QED
    BY <2>2, <2>3
<1>9. ASSUME NEW k \in Keys \cup {NoIp}, k # key
      PROVE  Backed(BucketOf(k), HitsOf(k), Lost(k))'
  <2>1. BucketOf(k)' = Kept(k)
    BY <1>1, <1>7, <1>9 DEF BucketOf
  <2> HIDE DEF Kept
  <2> QED
    BY <1>1, <1>4, <1>8, <1>9, <2>1, OtherBucket
<1>10. ASSUME NEW k, k = key
       PROVE  /\ Backed(BucketOf(k), HitsOf(k), Lost(k))'
              /\ ~ok => max_attempts <= Cardinality(Hits(a.origin, a.at - window, a.at))
  <2>1. k = key
    BY <1>10
  <2>2. BucketOf(k)' = IF ok THEN Append(bucket, a.at) ELSE bucket
    <3>1. k \in DOMAIN map' /\ k # NoIp
      BY <1>4, <1>7, <2>1
    <3>2. map'[k] = IF ok THEN Append(bucket, a.at) ELSE bucket
      BY <1>7, <2>1
    <3> QED
      BY <3>1, <3>2 DEF BucketOf
  <2>3. Len(Kept(k)) <= max_attempts
    <3>1. CASE k \in DOMAIN kept
      BY <1>4, <1>5, <2>1, <3>1 DEF MemoryBounded
    <3>2. CASE k \notin DOMAIN kept
      BY <1>4, <2>1, <3>2, RateLimitAssumption
    <3> QED
      BY <3>1, <3>2
  <2>4. Backed(Kept(k), HitsOf(k), LostMidway(k))
    BY <1>4, <1>8, <2>1
  <2>5. bucket = Pruned(Kept(k), a.at - window) /\ k = KeyOf(a.origin)
    BY <1>4, <2>1
  <2> HIDE DEF Kept, bucket
  <2> QED
    BY <1>1, <1>7, <2>2, <2>3, <2>4, <2>5, OwnBucket
<1>11. BucketsBacked'
  <2> SUFFICES ASSUME NEW k \in (Keys \cup {NoIp})'
               PROVE  Backed(BucketOf(k), HitsOf(k), Lost(k))'
    BY DEF BucketsBacked
  <2>1. k \in Keys \cup {NoIp}
    BY DEF Keys, limiter_key, Addresses
  <2> HIDE DEF key
  <2> QED
    BY <1>9, <1>10, <2>1
<1>12. ~ok => max_attempts <= Cardinality(Hits(a.origin, a.at - window, a.at))
  BY <1>10
<1> QED
  BY <1>11, <1>12

LEMMA CheckUnresolvedBacked ==
    ASSUME LimiterTypes, MemoryBounded, BucketsBacked,
           NEW c \in Tasks, NEW ok \in BOOLEAN, CheckUnresolvedAt(c, ok), ~skewed'
    PROVE  /\ BucketsBacked'
           /\ ~ok => max_attempts <= Cardinality(Hits(attempts[c].origin, attempts[c].at - window, attempts[c].at))
<1> DEFINE a == attempts[c]
           bucket == Pruned(unresolved, a.at - window)
<1>1. /\ a # NoAttempt /\ Witness(c, ok) /\ a.ip = NoIp
      /\ map' = map /\ last_sweep' = last_sweep /\ evicted' = evicted
      /\ ok = ~Full(bucket) /\ unresolved' = IF ok THEN Append(bucket, a.at) ELSE bucket
  BY DEF CheckUnresolvedAt
<1>2. a \in Attempt /\ ~skewed /\ last_sweep <= a.at
  BY <1>1, WitnessFacts
<1>3. a.at \in Nat /\ KeyOf(a.origin) = NoIp
  BY <1>1, <1>2 DEF Attempt, KeyOf
<1>4. ASSUME NEW k \in Keys \cup {NoIp}
      PROVE  Backed(BucketOf(k), HitsOf(k), LostMidway(k))
  <2> HIDE DEF a
  <2> QED
    BY <1>1, <1>2, <1>3, MidwayBacked
<1>5. ASSUME NEW k \in Keys \cup {NoIp}, k # NoIp
      PROVE  Backed(BucketOf(k), HitsOf(k), Lost(k))'
  <2>1. PICK b : b = BucketOf(k)
    OBVIOUS
  <2>2. BucketOf(k)' = b
    BY <1>1, <1>5, <2>1 DEF BucketOf
  <2>3. Backed(b, HitsOf(k), LostMidway(k))
    BY <1>4, <2>1
  <2> QED
    BY <1>1, <1>3, <1>5, <2>2, <2>3, OtherBucket
<1>6. /\ Backed(BucketOf(NoIp), HitsOf(NoIp), Lost(NoIp))'
      /\ ~ok => max_attempts <= Cardinality(Hits(a.origin, a.at - window, a.at))
  <2>1. BucketOf(NoIp)' = (IF ok THEN Append(bucket, a.at) ELSE bucket) /\ BucketOf(NoIp) = unresolved
    BY <1>1 DEF BucketOf
  <2>2. Backed(unresolved, HitsOf(NoIp), LostMidway(NoIp)) /\ Len(unresolved) <= max_attempts
    BY <1>4, <2>1 DEF MemoryBounded
  <2> QED
    BY <1>1, <1>3, <2>1, <2>2, OwnBucket
<1>7. BucketsBacked'
  <2> SUFFICES ASSUME NEW k \in (Keys \cup {NoIp})'
               PROVE  Backed(BucketOf(k), HitsOf(k), Lost(k))'
    BY DEF BucketsBacked
  <2>1. k \in Keys \cup {NoIp}
    BY DEF Keys, limiter_key, Addresses
  <2>2. CASE k = NoIp
    BY <1>6, <2>2
  <2>3. CASE k # NoIp
    BY <1>5, <2>1, <2>3
  <2> QED
    BY <2>2, <2>3
<1> QED
  BY <1>6, <1>7

(* The cap after a check: the hits in the window of the new one are all in   *)
(* the bucket, and the windows of earlier hits do not reach the new one.     *)
LEMMA WindowStep ==
    ASSUME LimiterTypes, LimiterTypes', MemoryBounded', BucketsBacked', WindowCap,
           NEW c \in Tasks, NEW ok \in BOOLEAN, attempts[c] # NoAttempt, Witness(c, ok),
           evicted \subseteq evicted', last_sweep' \in {last_sweep, attempts[c].at}
    PROVE  WindowCap'
<1> DEFINE a == attempts[c]
           x == [who |-> a.origin, at |-> a.at, nth |-> Cardinality(admitted)]
<1> SUFFICES ASSUME ~skewed', NEW h \in admitted', ~EvictedClient(h.who)'
             PROVE  Cardinality(Hits(h.who, h.at - window, h.at)') <= max_attempts
  BY DEF WindowCap
<1>1. /\ a \in Attempt /\ ~skewed /\ last_sweep <= a.at
      /\ admitted' = (IF ok THEN admitted \cup {x} ELSE admitted)
      /\ \A g \in admitted : g.at <= a.at
  BY WitnessFacts
<1>2. x.who = a.origin /\ x.at = a.at
  OBVIOUS
<1>3. a.at \in Nat /\ a.origin \in Clients /\ window \in Nat /\ window > 0 /\ max_attempts \in Nat
  BY <1>1, RateLimitAssumption DEF Attempt
<1> HIDE DEF x
<1>4. /\ admitted \subseteq admitted' /\ admitted' \subseteq admitted \cup {x}
      /\ \A g \in admitted' : g.at <= a.at /\ g.at \in Nat /\ g.who \in Clients
  BY <1>1, <1>2, <1>3 DEF LimiterTypes
<1>5. ~EvictedClient(h.who)
  BY DEF EvictedClient, SameClient
<1>6. CASE h.at = a.at
  <2>1. PICK key : key = KeyOf(h.who)
    OBVIOUS
  <2>2. key \in Keys \cup {NoIp} /\ SameClient(key, h.who)
    BY <1>4, <2>1, OneBucketPerClient
  <2>3. key \notin evicted'
    BY <2>2 DEF EvictedClient, SameClient
  <2>4. Hits(h.who, h.at - window, h.at)' = {g \in HitsOf(key)' : g.at > h.at - window /\ g.at <= h.at}
    <3>1. \A g \in admitted' : SameClient(g.who, h.who) <=> KeyOf(g.who) = key
      BY <1>4, <2>1, OneBucketPerClient
    <3> QED
      BY <3>1 DEF Hits, HitsOf, SameClient, KeyOf, limiter_key
  <2>5. {g \in HitsOf(key)' : g.at > h.at - window /\ g.at <= h.at} \subseteq HitsOf(key)' \ Lost(key)'
    <3> SUFFICES ASSUME NEW g \in HitsOf(key)', g.at > h.at - window, g \in Lost(key)'
                 PROVE  FALSE
      OBVIOUS
    <3>1. g.at \in Nat /\ g.at + window > a.at
      BY <1>3, <1>4, <1>6 DEF HitsOf
    <3>2. last_sweep' <= a.at /\ last_sweep' \in Int
      BY <1>1, <1>3 DEF LimiterTypes, Never
    <3>3. g.at + window <= last_sweep' \/ \E f \in admitted' : g.at + window <= f.at
      BY <2>3 DEF Lost, Expired
    <3>4. CASE g.at + window <= last_sweep'
      BY <1>3, <3>1, <3>2, <3>4
    <3>5. CASE \E f \in admitted' : g.at + window <= f.at
      <4>1. PICK f \in admitted' : g.at + window <= f.at
        BY <3>5
      <4>2. f.at \in Nat /\ f.at <= a.at
        BY <1>4
      <4> QED
        BY <1>3, <3>1, <4>1, <4>2
    <3> QED
      BY <3>3, <3>4, <3>5
  <2>6. Backed(BucketOf(key)', HitsOf(key)', Lost(key)')
    <3>1. key \in (Keys \cup {NoIp})'
      BY <2>2 DEF Keys, limiter_key, Addresses
    <3>2. Backed(BucketOf(key), HitsOf(key), Lost(key))'
      BY <3>1 DEF BucketsBacked
    <3> QED
      BY <3>2 DEF Backed, Sorted
  <2>7. IsFiniteSet(HitsOf(key)')
    <3>1. IsFiniteSet(admitted') /\ HitsOf(key)' \subseteq admitted'
      BY DEF LimiterTypes, HitsOf
    <3> QED
      BY <3>1, FS_Subset
  <2>8. Cardinality(HitsOf(key)' \ Lost(key)') <= Len(BucketOf(key)')
    BY <2>6, <2>7, CountedAbove
  <2>9. Len(BucketOf(key)') <= max_attempts
    <3>1. Len(<< >>) <= max_attempts
      BY <1>3
    <3> QED
      BY <3>1 DEF BucketOf, MemoryBounded
  <2>10. BucketOf(key)' \in Seq(Nat)
    BY <2>6 DEF Backed
  <2> DEFINE T == {g \in HitsOf(key)' : g.at > h.at - window /\ g.at <= h.at}
             S == HitsOf(key)' \ Lost(key)'
  <2>11. IsFiniteSet(S) /\ T \subseteq S
    BY <2>5, <2>7, FS_Subset
  <2> HIDE DEF T, S
  <2>12. Cardinality(T) <= Cardinality(S) /\ Cardinality(T) \in Nat /\ Cardinality(S) \in Nat
    BY <2>11, FS_Subset, FS_CardinalityType
  <2>13. Cardinality(S) <= Len(BucketOf(key)') /\ Len(BucketOf(key)') \in Nat
    BY <2>8, <2>10 DEF S
  <2>14. Cardinality(T) <= max_attempts
    BY <1>3, <2>9, <2>12, <2>13
  <2> QED
    BY <2>4, <2>14 DEF T
<1>7. CASE h.at # a.at
  <2>1. h \in admitted /\ h.at \in Nat /\ h.at < a.at
    BY <1>2, <1>3, <1>4, <1>7
  <2>2. Hits(h.who, h.at - window, h.at)' = Hits(h.who, h.at - window, h.at)
    <3>1. \A g \in admitted' : g.at <= h.at => g \in admitted
      BY <1>2, <1>3, <1>4, <2>1
    <3> QED
      BY <1>4, <3>1 DEF Hits, SameClient
  <2>3. Cardinality(Hits(h.who, h.at - window, h.at)) <= max_attempts
    BY <1>1, <1>5, <2>1 DEF WindowCap
  <2> QED
    BY <2>2, <2>3
<1> QED
  BY <1>6, <1>7

-----------------------------------------------------------------------------
LEMMA LimiterStarts ==
    LimiterInit => LimiterInv
<1> SUFFICES ASSUME LimiterInit
             PROVE  LimiterInv
  OBVIOUS
<1>1. /\ map = << >> /\ unresolved = << >> /\ admitted = {} /\ DOMAIN map = {}
      /\ IsFiniteSet({}) /\ Cardinality({}) = 0 /\ Len(<< >>) = 0
  BY FS_EmptySet DEF LimiterInit
<1>2. LimiterTypes
  <2>1. attempts \in [Tasks -> Attempt \cup {NoAttempt}]
    BY DEF LimiterInit
  <2>2. trusted_proxy \in BOOLEAN /\ skewed \in BOOLEAN
    BY Zenon DEF LimiterInit
  <2>3. now \in Nat /\ last_sweep \in Nat \cup {Never} /\ unresolved \in Seq(Nat)
    BY DEF LimiterInit
  <2> QED
    BY <1>1, <2>1, <2>2, <2>3 DEF LimiterTypes
<1>3. MemoryBounded
  BY <1>1, RateLimitAssumption DEF MemoryBounded
<1>4. BucketsBacked
  <2> SUFFICES ASSUME NEW k \in Keys \cup {NoIp}
               PROVE  Backed(BucketOf(k), HitsOf(k), Lost(k))
    BY DEF BucketsBacked
  <2>1. BucketOf(k) = << >> /\ HitsOf(k) \subseteq Lost(k)
    BY <1>1 DEF BucketOf, HitsOf
  <2> QED
    BY <2>1, EmptyBacked
<1>5. WindowCap
  BY <1>1 DEF WindowCap
<1> QED
  BY <1>2, <1>3, <1>4, <1>5 DEF LimiterInv

(* A step that leaves the buckets, the sweep and the ghosts alone.           *)
LEMMA LimiterIdles ==
    ASSUME LimiterInv, LimiterTypes', MemoryBounded',
           UNCHANGED <<map, last_sweep, unresolved, admitted, skewed, evicted>>
    PROVE  LimiterInv'
<1>1. BucketsBacked'
  <2> SUFFICES ASSUME ~skewed', NEW k \in (Keys \cup {NoIp})'
               PROVE  Backed(BucketOf(k), HitsOf(k), Lost(k))'
    BY DEF BucketsBacked
  <2>1. k \in Keys \cup {NoIp}
    BY DEF Keys, limiter_key, Addresses
  <2>2. BucketOf(k)' = BucketOf(k)
    BY DEF BucketOf
  <2>3. HitsOf(k)' = HitsOf(k)
    BY DEF HitsOf, KeyOf, limiter_key
  <2>4. Lost(k)' = Lost(k)
    BY <2>3 DEF Lost, Expired
  <2>5. Backed(BucketOf(k), HitsOf(k), Lost(k))
    BY <2>1 DEF LimiterInv, BucketsBacked
  <2> QED
    BY <2>2, <2>3, <2>4, <2>5, PrimedBacked
<1>2. WindowCap'
  BY DEF LimiterInv, WindowCap, Hits, EvictedClient, SameClient
<1> QED
  BY <1>1, <1>2 DEF LimiterInv

LEMMA LimiterStep ==
    ASSUME LimiterInv, [LimiterNext]_limiter_vars
    PROVE  LimiterInv'
<1>0. LimiterTypes /\ MemoryBounded /\ BucketsBacked /\ WindowCap
  BY DEF LimiterInv
<1>1. LimiterTypes' /\ MemoryBounded'
  BY <1>0, LimiterTypesStep
<1>2. CASE Tick \/ UNCHANGED limiter_vars
            \/ \E c \in Tasks, origin \in Addresses \cup {NoIp}, spoof \in Spoofs : Arrive(c, origin, spoof)
  <2>1. UNCHANGED <<map, last_sweep, unresolved, admitted, skewed, evicted>>
    BY <1>2 DEF Tick, Arrive, limiter_vars
  <2> QED
    BY <1>1, <2>1, LimiterIdles
<1>3. ASSUME NEW c \in Tasks, NEW ok \in BOOLEAN, CheckAt(c, ok)
      PROVE  LimiterInv'
  <2>1. BucketsBacked'
    <3>1. CASE skewed'
      BY <3>1 DEF BucketsBacked
    <3> QED
      BY <1>0, <1>3, <3>1, CheckAtBacked
  <2>2. /\ attempts[c] # NoAttempt /\ Witness(c, ok)
        /\ evicted \subseteq evicted' /\ last_sweep' \in {last_sweep, attempts[c].at}
    BY <1>3 DEF CheckAt
  <2>3. WindowCap'
    BY <1>0, <1>1, <2>1, <2>2, WindowStep
  <2> QED
    BY <1>1, <2>1, <2>3 DEF LimiterInv
<1>4. ASSUME NEW c \in Tasks, NEW ok \in BOOLEAN, CheckUnresolvedAt(c, ok)
      PROVE  LimiterInv'
  <2>1. BucketsBacked'
    <3>1. CASE skewed'
      BY <3>1 DEF BucketsBacked
    <3> QED
      BY <1>0, <1>4, <3>1, CheckUnresolvedBacked
  <2>2. /\ attempts[c] # NoAttempt /\ Witness(c, ok)
        /\ evicted \subseteq evicted' /\ last_sweep' \in {last_sweep, attempts[c].at}
    BY <1>4 DEF CheckUnresolvedAt
  <2>3. WindowCap'
    BY <1>0, <1>1, <2>1, <2>2, WindowStep
  <2> QED
    BY <1>1, <2>1, <2>3 DEF LimiterInv
<1> QED
  BY <1>2, <1>3, <1>4 DEF LimiterNext, Check

LEMMA LimiterAlways == LimiterSpec => []LimiterInv
BY LimiterStarts, LimiterStep, PTL DEF LimiterSpec

(* Within any trailing window no client is admitted more than max_attempts   *)
(* times, whatever addresses of its /64 or forwarding headers it uses, unless *)
(* its bucket was evicted at the cap or a stamp entered the limiter late: for *)
(* any number of clients, and any budget, window and table size.             *)
THEOREM WindowHolds == LimiterSpec => []WindowCap
<1>1. LimiterInv => WindowCap
  BY DEF LimiterInv
<1> QED
  BY <1>1, LimiterAlways, PTL

(* check_at and check_unresolved_at keep the table within MAX_TRACKED_IPS    *)
(* keys and every bucket within max_attempts hits, in whatever order stamps  *)
(* enter.                                                                    *)
THEOREM TableStaysBounded == LimiterSpec => []MemoryBounded
<1>1. LimiterInv => MemoryBounded
  BY DEF LimiterInv
<1> QED
  BY <1>1, LimiterAlways, PTL

(* A 429 is the client's own doing: at every refusal it has max_attempts     *)
(* admitted hits inside the window, whatever other clients do at the cap.    *)
THEOREM RefusalIsOwnDoing == LimiterSpec => RefusedForOwnHits
<1> DEFINE Refusal(c) == Check(c, FALSE) /\ ~skewed'
              => Cardinality(Hits(attempts[c].origin, attempts[c].at - window, attempts[c].at)) >= max_attempts
           A == \A c \in Tasks : Refusal(c)
<1>1. ASSUME LimiterInv, [LimiterNext]_limiter_vars
      PROVE  A
  <2> SUFFICES ASSUME NEW c \in Tasks, Check(c, FALSE), ~skewed'
               PROVE  Cardinality(Hits(attempts[c].origin, attempts[c].at - window, attempts[c].at)) >= max_attempts
    OBVIOUS
  <2> DEFINE n == Cardinality(Hits(attempts[c].origin, attempts[c].at - window, attempts[c].at))
  <2>1. LimiterTypes /\ MemoryBounded /\ BucketsBacked
    BY <1>1 DEF LimiterInv
  <2>2. max_attempts <= n
    BY <2>1, CheckAtBacked, CheckUnresolvedBacked DEF Check
  <2>3. n \in Nat
    <3>1. IsFiniteSet(Hits(attempts[c].origin, attempts[c].at - window, attempts[c].at))
      BY <2>1, FS_Subset DEF Hits, LimiterTypes
    <3> QED
      BY <3>1, FS_CardinalityType
  <2> HIDE DEF n
  <2>4. n >= max_attempts
    BY <2>2, <2>3, RateLimitAssumption
  <2> QED
    BY <2>4 DEF n
<1>2. LimiterInv /\ [LimiterNext]_limiter_vars => [A]_limiter_vars
  BY <1>1
<1>3. [][A]_limiter_vars <=> RefusedForOwnHits
  BY DEF RefusedForOwnHits
<1> HIDE DEF A
<1>4. LimiterSpec => [][A]_limiter_vars
  BY <1>2, LimiterAlways, PTL DEF LimiterSpec
<1> QED
  BY <1>3, <1>4, PTL
=============================================================================
