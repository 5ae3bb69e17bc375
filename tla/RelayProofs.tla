---------------------------- MODULE RelayProofs ----------------------------
(***************************************************************************)
(* Proofs about module Relay, for every set of connections, relay          *)
(* sessions, worlds, hosts and in-flight requests, and every bound.        *)
(***************************************************************************)
EXTENDS Relay, FiniteSetTheorems, TLAPS

-----------------------------------------------------------------------------
(* A request that got past the SELECT of the relay row has a row, so the     *)
(* world it belongs to no longer changes.                                    *)
LoadedHasRow ==
    \A c \in Conns : conn[c].pc # "idle" => RelayOf(c).status \notin {"none", "checked"}

(* The tunnels the gauge counts.                                             *)
Running == {c \in Conns : conn[c].pc \in {"admitted", "piping"}}

(* CountTracksTunnels for one world, and the number it is about.             *)
Held(w) == Cardinality(Holders(w))

Tracks(w) ==
    /\ w \notin wiped => worlds[w].cur >= Held(w)
    /\ w \notin leaked => worlds[w].cur <= Held(w)

(* The inductive invariant behind the type and the counting results.         *)
CountInv == TypeOK /\ LoadedHasRow /\ GaugeCountsTunnels /\ CountTracksTunnels

-----------------------------------------------------------------------------
(* Sets of connections are finite, so their cardinalities are numbers.       *)
LEMMA ConnSubsetFinite ==
    ASSUME NEW S \in SUBSET Conns
    PROVE  IsFiniteSet(S) /\ Cardinality(S) \in Nat
  BY RelayAssumption, FS_Subset, FS_CardinalityType

(* One connection more.                                                      *)
LEMMA OneMore ==
    ASSUME NEW S \in SUBSET Conns, NEW T \in SUBSET Conns, NEW c \in Conns,
           c \notin S, T = S \cup {c}
    PROVE  Cardinality(T) = Cardinality(S) + 1
  BY ConnSubsetFinite, FS_AddElement

(* One connection less.                                                      *)
LEMMA OneLess ==
    ASSUME NEW S \in SUBSET Conns, NEW T \in SUBSET Conns, NEW c \in Conns,
           c \in S, T = S \ {c}
    PROVE  Cardinality(S) = Cardinality(T) + 1
  <1>1. S = T \cup {c} /\ c \notin T  OBVIOUS
  <1>2. QED  BY <1>1, OneMore

(* A step that moves no connection into or out of the positions that hold a  *)
(* slot, nor a loaded relay row to another world, keeps every Holders(w).    *)
LEMMA HoldersKept ==
    ASSUME \A c \in Conns : conn'[c].pc \in Holding <=> conn[c].pc \in Holding,
           \A c \in Conns : conn[c].pc \in Holding =>
                relays'[RelayIdOf[c]].world = relays[RelayIdOf[c]].world
    PROVE  \A w \in Worlds : Holders(w)' = Holders(w)
  BY DEF Holders, WorldOf, RelayOf

(* A step that moves no connection into or out of the running positions      *)
(* keeps Running.                                                            *)
LEMMA RunningKept ==
    ASSUME \A c \in Conns : conn'[c].pc \in {"admitted", "piping"}
                               <=> conn[c].pc \in {"admitted", "piping"}
    PROVE  Running' = Running
  BY DEF Running

-----------------------------------------------------------------------------
(* Initially nothing runs and nothing is counted.                            *)
LEMMA CountInit == Init => CountInv
  <1> SUFFICES ASSUME Init PROVE CountInv
    OBVIOUS
  <1> USE RelayAssumption, CapAssumption, HostOfAssumption DEF Init, DbInit
  <1>1. TypeOK
    <2>1. worlds \in [Worlds -> WorldRow]
      BY DEF WorldRow, Capacity
    <2>2. relays \in [Relays -> RelayRow]
      BY DEF RelayRow
    <2>3. patch \in [Patches -> PatchWrite \cup {NoPatch}]
      OBVIOUS
    <2>4. conn \in [Conns -> Connection]
      BY DEF Connection, PC, BeforeUpgrade
    <2>5. QED  BY <2>1, <2>2, <2>3, <2>4 DEF TypeOK, DbTypeOK
  <1>2. LoadedHasRow
    BY DEF LoadedHasRow
  <1>3. Running = {} /\ \A w \in Worlds : Holders(w) = {}
    BY DEF Running, Holders, Holding
  <1>4. GaugeCountsTunnels
    BY <1>3, FS_EmptySet DEF GaugeCountsTunnels, Running
  <1>5. CountTracksTunnels
    <2>1. Cardinality({}) = 0
      BY FS_EmptySet
    <2>2. \A w \in Worlds : worlds[w].cur = 0
      OBVIOUS
    <2>3. \A w \in Worlds : Cardinality(Holders(w)) = 0
      BY <1>3, <2>1
    <2>4. QED  BY <2>2, <2>3 DEF CountTracksTunnels
  <1>6. QED  BY <1>1, <1>2, <1>4, <1>5 DEF CountInv

-----------------------------------------------------------------------------
(* Every handler step and every host call keeps the types.  The gauge stays  *)
(* a natural number because it counts the running tunnels.                   *)

(* Moving a handler to another position keeps the type of conn.              *)
LEMMA GotoType ==
    ASSUME TypeOK, NEW c \in Conns, NEW pc \in PC
    PROVE  [conn EXCEPT ![c].pc = pc] \in [Conns -> Connection]
  BY DEF TypeOK, Connection

(* The world of a connection is a world.                                     *)
LEMMA WorldOfType ==
    ASSUME TypeOK, NEW c \in Conns
    PROVE  WorldOf(c) \in Worlds
  BY RelayAssumption DEF TypeOK, DbTypeOK, RelayRow, WorldOf, RelayOf

(* Setting the status of a relay row keeps the type of relays.               *)
LEMMA RelayStatusType ==
    ASSUME TypeOK, NEW r \in Relays,
           NEW s \in {"none", "checked", "pending", "active", "closed"}
    PROVE  [relays EXCEPT ![r].status = s] \in [Relays -> RelayRow]
  BY DEF TypeOK, DbTypeOK, RelayRow

(* Setting current_players to a number keeps the type of worlds.             *)
LEMMA CurType ==
    ASSUME TypeOK, NEW w \in Worlds, NEW n \in Nat
    PROVE  [worlds EXCEPT ![w].cur = n] \in [Worlds -> WorldRow]
  BY DEF TypeOK, DbTypeOK, WorldRow

(* Every step of a relay handler keeps the types.                            *)
LEMMA HandlerType ==
    ASSUME CountInv, NEW c \in Conns, Handler(c)
    PROVE  TypeOK'
  <1> USE RelayAssumption DEF CountInv
  <1> USE DEF dbVars, hubVars, ghosts, Goto, NoFault
  <1>0. TypeOK
    OBVIOUS
  <1>p. {"loaded", "refused", "upgraded", "validated", "parking", "paired", "admitted",
         "refusing", "piping", "ended", "released", "done", "parked"} \subseteq PC
    BY DEF PC, BeforeUpgrade, Holding
  <1>g. \A pc \in PC : [conn EXCEPT ![c].pc = pc] \in [Conns -> Connection]
    BY GotoType
  <1>r. \A s \in {"none", "checked", "pending", "active", "closed"} :
           [relays EXCEPT ![RelayIdOf[c]].status = s] \in [Relays -> RelayRow]
    BY RelayStatusType
  <1>f. Fault \/ NoFault => faults' \in 0 .. MaxFaults
    BY DEF TypeOK, Fault
  <1>w. WorldOf(c) \in Worlds /\ worlds[WorldOf(c)].cur \in Nat
    BY WorldOfType DEF TypeOK, DbTypeOK, WorldRow
  <1>1. CASE LoadRelay(c)
    BY <1>1, <1>p, <1>g DEF LoadRelay, TypeOK, DbTypeOK
  <1>2. CASE AuthenticateHost(c)
    BY <1>2, <1>p, <1>g DEF AuthenticateHost, TypeOK, DbTypeOK
  <1>3. CASE CheckTicket(c)
    BY <1>3, <1>p, <1>g DEF CheckTicket, TypeOK, DbTypeOK
  <1>4. CASE ConsumeTicket(c)
    <2>1. [relays EXCEPT ![RelayIdOf[c]].ticket = "consumed"] \in [Relays -> RelayRow]
      BY DEF TypeOK, DbTypeOK, RelayRow
    <2>2. QED  BY <1>4, <2>1, <1>p, <1>g DEF ConsumeTicket, TypeOK, DbTypeOK
  <1>5. CASE AbortRequest(c)
    BY <1>5, <1>p, <1>g DEF AbortRequest, TypeOK, DbTypeOK
  <1>6. CASE Take(c)
    <2>1. conn' \in [Conns -> Connection]
      BY <1>6, <1>p, <1>g DEF Take, TypeOK, Connection
    <2>2. waiting' \in [Relays -> Conns \cup {None}]
      BY <1>6 DEF Take, TypeOK
    <2>3. QED  BY <1>6, <2>1, <2>2 DEF Take, TypeOK, DbTypeOK
  <1>7. CASE Admit(c)
    <2>1. worlds' \in [Worlds -> WorldRow]
      BY <1>7, <1>w, CurType DEF Admit
    <2>2. QED  BY <1>7, <2>1, <1>p, <1>g DEF Admit, TypeOK, DbTypeOK
  <1>8. CASE AdmitRefused(c)
    BY <1>8, <1>p, <1>g DEF AdmitRefused, TypeOK, DbTypeOK
  <1>9. CASE AdmitFailed(c)
    <2>1. [worlds EXCEPT ![WorldOf(c)].cur = @ + 1] \in [Worlds -> WorldRow]
      BY <1>w, CurType
    <2>2. worlds' \in [Worlds -> WorldRow]
      BY <1>9, <2>1 DEF AdmitFailed, TypeOK, DbTypeOK
    <2>3. leaked' \subseteq Worlds
      BY <1>9, <1>w DEF AdmitFailed, TypeOK
    <2>4. QED  BY <1>9, <2>2, <2>3, <1>p, <1>g, <1>f DEF AdmitFailed, TypeOK, DbTypeOK
  <1>10. CASE RefusePair(c)
    <2>1. conn' \in [Conns -> Connection]
      BY <1>10, <1>p DEF RefusePair, TypeOK, Connection
    <2>2. relays' \in [Relays -> RelayRow] /\ faults' \in 0 .. MaxFaults
      BY <1>10, <1>r, <1>f DEF RefusePair, MarkRelayClosed, TypeOK, DbTypeOK
    <2>3. QED  BY <1>10, <2>1, <2>2 DEF RefusePair, TypeOK, DbTypeOK
  <1>11. CASE MarkRelayActive(c)
    <2>1. relays' \in [Relays -> RelayRow] /\ faults' \in 0 .. MaxFaults
      BY <1>11, <1>f DEF MarkRelayActive, TypeOK, DbTypeOK, RelayRow
    <2>2. QED  BY <1>11, <2>1, <1>p, <1>g DEF MarkRelayActive, TypeOK, DbTypeOK
  <1>12. CASE EndPipe(c)
    <2>1. conn' \in [Conns -> Connection]
      BY <1>12, <1>p DEF EndPipe, TypeOK, Connection
    <2>2. active # 0
      <3>1. c \in Running /\ Running \in SUBSET Conns
        BY <1>12 DEF EndPipe, Running
      <3>2. Cardinality(Running) # 0
        BY <3>1, ConnSubsetFinite, FS_EmptySet
      <3>3. QED  BY <3>2 DEF GaugeCountsTunnels, Running
    <2>3. active' \in Nat
      BY <1>12, <2>2 DEF EndPipe, TypeOK
    <2>4. QED  BY <1>12, <2>1, <2>3 DEF EndPipe, TypeOK, DbTypeOK
  <1>13. CASE ReleasePlayer(c)
    <2>1. Decremented(worlds[WorldOf(c)].cur) \in Nat
      BY <1>w DEF Decremented
    <2>2. worlds' \in [Worlds -> WorldRow] /\ faults' \in 0 .. MaxFaults
      BY <1>13, <1>w, <1>f, <2>1, CurType DEF ReleasePlayer, TypeOK, DbTypeOK
    <2>3. leaked' \subseteq Worlds /\ wiped' \subseteq Worlds
      BY <1>13, <1>w DEF ReleasePlayer, TypeOK
    <2>4. QED  BY <1>13, <2>2, <2>3, <1>p, <1>g DEF ReleasePlayer, TypeOK, DbTypeOK
  <1>14. CASE FinishTunnel(c)
    <2>1. relays' \in [Relays -> RelayRow] /\ faults' \in 0 .. MaxFaults
      BY <1>14, <1>r, <1>f DEF FinishTunnel, MarkRelayClosed, TypeOK, DbTypeOK
    <2>2. QED  BY <1>14, <2>1, <1>p, <1>g DEF FinishTunnel, TypeOK, DbTypeOK
  <1>15. CASE Park(c)
    BY <1>15, <1>p, <1>g DEF Park, TypeOK, DbTypeOK
  <1>16. CASE RemoveWaiting(c)
    BY <1>16, <1>p, <1>g DEF RemoveWaiting, TypeOK, DbTypeOK
  <1>17. QED
    BY <1>1, <1>2, <1>3, <1>4, <1>5, <1>6, <1>7, <1>8, <1>9, <1>10, <1>11, <1>12,
       <1>13, <1>14, <1>15, <1>16 DEF Handler

(* The REST handlers and the crash keep the types as well.                   *)
LEMMA RestType ==
    ASSUME CountInv, HostCreates \/ HostCloses \/ HostPatches \/ Tickets \/ Crash
    PROVE  TypeOK'
  <1> USE RelayAssumption, CapAssumption, HostOfAssumption DEF CountInv
  <1> USE DEF hubVars, ghosts, Rest
  <1>z. \A w \in Worlds : Zeroed(w) => wiped' \subseteq Worlds /\ leaked' \subseteq Worlds
    BY DEF Zeroed, TypeOK
  <1>c. \A w \in Worlds : CleanedRelays(w) \in [Relays -> RelayRow]
    BY DEF CleanedRelays, TypeOK, DbTypeOK, RelayRow
  <1>1. CASE HostCreates
    <2>1. PICK h \in Hosts, w \in Worlds, m \in Capacity : Rest(CreateWorld(h, w, m)) /\ Zeroed(w)
      BY <1>1 DEF HostCreates
    <2>2. worlds' \in [Worlds -> WorldRow]
      BY <2>1 DEF CreateWorld, TypeOK, DbTypeOK, WorldRow
    <2>3. QED  BY <2>1, <2>2, <1>z DEF CreateWorld, TypeOK, DbTypeOK
  <1>2. CASE HostCloses
    <2>1. PICK w \in Worlds : Rest(CloseWorld(w)) /\ Zeroed(w)
      BY <1>2 DEF HostCloses
    <2>2. worlds' \in [Worlds -> WorldRow]
      BY <2>1 DEF CloseWorld, TypeOK, DbTypeOK, WorldRow
    <2>3. QED  BY <2>1, <2>2, <1>z, <1>c DEF CloseWorld, TypeOK, DbTypeOK
  <1>3. CASE HostPatches
    <2>1. PICK p \in Patches :
             \/ \E w \in Worlds, m \in Capacity, asked \in {"keep", "open", "closed"} :
                   Rest(PatchReadWorld(p, w, m, asked)) /\ UNCHANGED ghosts
             \/ Rest(PatchAbort(p)) /\ UNCHANGED ghosts
             \/ /\ Rest(PatchWriteWorld(p))
                /\ IF patch[p].closing THEN Zeroed(patch[p].world) ELSE UNCHANGED ghosts
      BY <1>3 DEF HostPatches
    <2>2. ASSUME NEW w \in Worlds, NEW m \in Capacity, NEW asked \in {"keep", "open", "closed"},
                 Rest(PatchReadWorld(p, w, m, asked)), UNCHANGED ghosts
          PROVE  TypeOK'
      <3>1. worlds[w].status \in {"open", "closed"}
        BY <2>2 DEF PatchReadWorld, TypeOK, DbTypeOK, WorldRow
      <3>2. patch' \in [Patches -> PatchWrite \cup {NoPatch}]
        BY <2>2, <3>1 DEF PatchReadWorld, TypeOK, DbTypeOK, PatchWrite
      <3>3. QED  BY <2>2, <3>2 DEF PatchReadWorld, TypeOK, DbTypeOK
    <2>3. ASSUME Rest(PatchAbort(p)), UNCHANGED ghosts
          PROVE  TypeOK'
      BY <2>3 DEF PatchAbort, TypeOK, DbTypeOK
    <2>4. ASSUME Rest(PatchWriteWorld(p)),
                 IF patch[p].closing THEN Zeroed(patch[p].world) ELSE UNCHANGED ghosts
          PROVE  TypeOK'
      <3>1. patch[p] \in PatchWrite
        BY <2>4 DEF PatchWriteWorld, TypeOK, DbTypeOK
      <3>2. worlds' \in [Worlds -> WorldRow]
        BY <2>4, <3>1 DEF PatchWriteWorld, TypeOK, DbTypeOK, WorldRow, PatchWrite
      <3>3. relays' \in [Relays -> RelayRow]
        BY <2>4, <3>1, <1>c DEF PatchWriteWorld, TypeOK, DbTypeOK, PatchWrite
      <3>4. wiped' \subseteq Worlds /\ leaked' \subseteq Worlds
        BY <2>4, <3>1, <1>z DEF TypeOK, PatchWrite
      <3>5. QED  BY <2>4, <3>2, <3>3, <3>4 DEF PatchWriteWorld, TypeOK, DbTypeOK
    <2>5. QED  BY <2>1, <2>2, <2>3, <2>4
  <1>4. CASE Tickets
    <2>1. PICK r \in Relays :
             /\ \/ \E w \in Worlds : Rest(PreCheckTicket(r, w))
                \/ Rest(IssueTicketAndRelay(r))
                \/ Rest(ExpireTicket(r))
             /\ UNCHANGED ghosts
      BY <1>4 DEF Tickets
    <2>2. ASSUME NEW w \in Worlds, Rest(PreCheckTicket(r, w))
          PROVE  TypeOK'
      <3>1. relays' \in [Relays -> RelayRow]
        BY <2>2 DEF PreCheckTicket, TypeOK, DbTypeOK, RelayRow
      <3>2. QED  BY <2>1, <2>2, <3>1 DEF PreCheckTicket, TypeOK, DbTypeOK
    <2>3. ASSUME Rest(IssueTicketAndRelay(r))
          PROVE  TypeOK'
      BY <2>1, <2>3, RelayStatusType DEF IssueTicketAndRelay, TypeOK, DbTypeOK
    <2>4. ASSUME Rest(ExpireTicket(r))
          PROVE  TypeOK'
      <3>1. relays' \in [Relays -> RelayRow]
        BY <2>4 DEF ExpireTicket, TypeOK, DbTypeOK, RelayRow
      <3>2. QED  BY <2>1, <2>4, <3>1 DEF ExpireTicket, TypeOK, DbTypeOK
    <2>5. QED  BY <2>1, <2>2, <2>3, <2>4
  <1>5. CASE Crash
    <2>1. conn' \in [Conns -> Connection]
      <3>1. \A c \in Conns : conn[c] \in Connection
        BY DEF TypeOK
      <3>2. \A c \in Conns :
               [conn[c] EXCEPT !.pc = IF @ \in BeforeUpgrade THEN "refused" ELSE "done",
                               !.peer = None] \in Connection
        BY <3>1 DEF Connection, PC, BeforeUpgrade
      <3>3. QED  BY <1>5, <3>1, <3>2 DEF Crash
    <2>2. relays' \in [Relays -> RelayRow]
      <3>1. \A r \in Relays : relays[r] \in RelayRow
        BY DEF TypeOK, DbTypeOK
      <3>2. ReconciledRelays \in [Relays -> RelayRow]
        BY <3>1 DEF ReconciledRelays, RelayRow
      <3>3. QED  BY <1>5, <3>2 DEF Crash
    <2>6. worlds' \in [Worlds -> WorldRow]
      <3>1. \A w \in Worlds : worlds[w] \in WorldRow
        BY DEF TypeOK, DbTypeOK
      <3>2. ReconciledWorlds \in [Worlds -> WorldRow]
        BY <3>1 DEF ReconciledWorlds, WorldRow
      <3>3. QED  BY <1>5, <3>2 DEF Crash
    <2>3. leaked' \subseteq Worlds
      BY <1>5 DEF Crash, TypeOK
    <2>4. faults' \in 0 .. MaxFaults
      <3>1. Fault
        BY <1>5 DEF Crash
      <3>2. faults \in 0 .. MaxFaults
        BY DEF TypeOK
      <3>3. QED  BY <3>1, <3>2 DEF Fault
    <2>5. QED  BY <1>5, <2>1, <2>2, <2>3, <2>4, <2>6 DEF Crash, TypeOK, DbTypeOK
  <1>6. QED  BY <1>1, <1>2, <1>3, <1>4, <1>5

-----------------------------------------------------------------------------
(* What a step may do to the relay rows: a row once inserted stays, in its   *)
(* world.                                                                    *)

RowsKept ==
    \A r \in Relays : relays[r].status \notin {"none", "checked"} =>
        /\ relays'[r].status \notin {"none", "checked"}
        /\ relays'[r].world = relays[r].world
        /\ relays[r].status = "closed" => relays'[r].status = "closed"

(* No handler step moves a relay row to another world, takes a row away or   *)
(* revives a closed one.                                                     *)
LEMMA HandlerRows ==
    ASSUME TypeOK, NEW c \in Conns, Handler(c)
    PROVE  RowsKept
  <1> USE RelayAssumption DEF RowsKept, TypeOK, DbTypeOK, RelayRow
  <1>1. CASE relays' = relays
    BY <1>1
  <1>2. CASE relays' = [relays EXCEPT ![RelayIdOf[c]].status = "closed"]
    BY <1>2
  <1>3. CASE relays' = [relays EXCEPT ![RelayIdOf[c]].ticket = "consumed"]
    BY <1>3
  <1>4. CASE relays' = [relays EXCEPT ![RelayIdOf[c]].status =
                            IF @ # "closed" THEN "active" ELSE @]
    BY <1>4
  <1>5. QED
    BY <1>1, <1>2, <1>3, <1>4
    DEF Handler, LoadRelay, AuthenticateHost, CheckTicket, ConsumeTicket, AbortRequest,
        Take, Admit, AdmitRefused, AdmitFailed, RefusePair, MarkRelayActive, EndPipe,
        ReleasePlayer, FinishTunnel, Park, RemoveWaiting, MarkRelayClosed, dbVars

(* Nor does a REST call or a crash, for a row that has been issued.          *)
LEMMA RestRows ==
    ASSUME TypeOK, HostCreates \/ HostCloses \/ HostPatches \/ Tickets \/ Crash
    PROVE  RowsKept
  <1> USE DEF RowsKept, Rest
  <1>1. CASE relays' = relays
    BY <1>1
  <1>2. CASE \E w \in Worlds : relays' = CleanedRelays(w)
    BY <1>2 DEF CleanedRelays, TypeOK, DbTypeOK, RelayRow
  <1>3. CASE HostCreates
    BY <1>1, <1>3 DEF HostCreates, CreateWorld
  <1>4. CASE HostCloses
    BY <1>2, <1>4 DEF HostCloses, CloseWorld
  <1>5. CASE HostPatches
    <2>1. relays' = relays \/ \E p \in Patches : patch[p] \in PatchWrite /\ relays' = CleanedRelays(patch[p].world)
      BY <1>5 DEF HostPatches, PatchReadWorld, PatchAbort, PatchWriteWorld, TypeOK, DbTypeOK
    <2>2. QED  BY <1>1, <1>2, <2>1 DEF PatchWrite
  <1>6. CASE Tickets
    <2>1. PICK r \in Relays :
             \/ \E w \in Worlds : PreCheckTicket(r, w)
             \/ IssueTicketAndRelay(r)
             \/ ExpireTicket(r)
      BY <1>6 DEF Tickets
    <2>2. \A q \in Relays \ {r} : relays'[q] = relays[q]
      BY <2>1 DEF PreCheckTicket, IssueTicketAndRelay, ExpireTicket, TypeOK, DbTypeOK
    <2>3. relays[r].status \notin {"none", "checked"} =>
             relays'[r].status = relays[r].status /\ relays'[r].world = relays[r].world
      BY <2>1 DEF PreCheckTicket, IssueTicketAndRelay, ExpireTicket, TypeOK, DbTypeOK, RelayRow
    <2>4. QED  BY <2>2, <2>3
  <1>7. CASE Crash
    <2>1. \A r \in Relays : relays[r] \in RelayRow
      BY DEF TypeOK, DbTypeOK
    <2>2. relays' = ReconciledRelays
      BY <1>7 DEF Crash
    <2>3. QED  BY <2>1, <2>2 DEF ReconciledRelays, RelayRow
  <1>8. QED  BY <1>3, <1>4, <1>5, <1>6, <1>7

(* Only the connection whose handler runs moves.                             *)
LEMMA OthersStay ==
    ASSUME TypeOK, NEW c \in Conns, Handler(c)
    PROVE  \A d \in Conns \ {c} : conn'[d] = conn[d]
  BY DEF Handler, LoadRelay, AuthenticateHost, CheckTicket, ConsumeTicket, AbortRequest,
         Take, Admit, AdmitRefused, AdmitFailed, RefusePair, MarkRelayActive, EndPipe,
         ReleasePlayer, FinishTunnel, Park, RemoveWaiting, Goto, TypeOK

(* After a crash no connection is in a handler, and none has a peer.         *)
LEMMA AfterCrash ==
    ASSUME TypeOK, Crash, NEW c \in Conns
    PROVE  /\ conn'[c].pc \in {"idle", "refused", "done"}
           /\ conn'[c] = conn[c] \/ conn'[c].peer = None
           /\ conn[c].pc \notin {"idle", "refused", "done"} => conn'[c].peer = None
  <1>1. CASE conn[c].pc \in {"idle", "refused", "done"}
    <2>1. conn'[c] = conn[c]
      BY <1>1 DEF Crash
    <2>2. QED  BY <1>1, <2>1
  <1>2. CASE conn[c].pc \notin {"idle", "refused", "done"}
    <2>1. conn'[c] = [conn[c] EXCEPT !.pc = IF @ \in BeforeUpgrade THEN "refused" ELSE "done",
                                     !.peer = None]
      BY <1>2 DEF Crash
    <2>2. conn[c] \in Connection
      BY DEF TypeOK
    <2>3. QED  BY <1>2, <2>1, <2>2 DEF Connection
  <1>3. QED  BY <1>1, <1>2

(* A request past its SELECT keeps its row, and the row its world.           *)
LEMMA RowStep ==
    ASSUME CountInv, Next
    PROVE  LoadedHasRow'
  <1> USE RelayAssumption DEF CountInv
  <1>1. ASSUME NEW c \in Conns, Handler(c)
        PROVE  LoadedHasRow'
    <2>1. RowsKept
      BY <1>1, HandlerRows
    <2>2. \A d \in Conns \ {c} : conn'[d] = conn[d]
      BY <1>1, OthersStay
    <2>3. conn[c].pc = "idle" => RelayOf(c).status \notin {"none", "checked"}
      BY <1>1 DEF Handler, LoadRelay, AuthenticateHost, CheckTicket, ConsumeTicket,
         AbortRequest, Take, Admit, AdmitRefused, AdmitFailed, RefusePair, MarkRelayActive,
         EndPipe, ReleasePlayer, FinishTunnel, Park, RemoveWaiting
    <2>4. QED  BY <2>1, <2>2, <2>3 DEF LoadedHasRow, RelayOf, RowsKept
  <1>2. ASSUME HostCreates \/ HostCloses \/ HostPatches \/ Tickets \/ Crash
        PROVE  LoadedHasRow'
    <2>1. RowsKept
      BY <1>2, RestRows
    <2>2. \A d \in Conns : conn'[d].pc # "idle" => conn[d].pc # "idle"
      BY <1>2 DEF HostCreates, HostCloses, HostPatches, Tickets, Crash, Rest, BeforeUpgrade
    <2>3. QED  BY <2>1, <2>2 DEF LoadedHasRow, RelayOf, RowsKept
  <1>3. QED  BY <1>1, <1>2 DEF Next

-----------------------------------------------------------------------------
(* The gauge.  Admit and EndPipe move one connection into and out of         *)
(* Running; a crash empties it; nothing else changes it.                     *)

(* Every step keeps the gauge equal to the number of running tunnels.        *)
LEMMA GaugeStep ==
    ASSUME CountInv, Next
    PROVE  GaugeCountsTunnels'
  <1> USE DEF CountInv
  <1>0. active = Cardinality(Running) /\ (GaugeCountsTunnels' <=> active' = Cardinality(Running'))
    BY DEF GaugeCountsTunnels, Running
  <1>k. Running' = Running /\ active' = active => GaugeCountsTunnels'
    BY <1>0
  <1>1. ASSUME NEW c \in Conns, Handler(c)
        PROVE  GaugeCountsTunnels'
    <2>0. \A d \in Conns \ {c} : conn'[d] = conn[d]
      BY <1>1, OthersStay
    <2>1. CASE Admit(c)
      <3>1. conn[c].pc = "paired" /\ conn'[c].pc = "admitted" /\ active' = active + 1
        BY <2>1 DEF Admit, Goto, TypeOK
      <3>2. Running' = Running \cup {c} /\ c \notin Running
        BY <2>0, <3>1 DEF Running
      <3>3. Running \in SUBSET Conns /\ Running' \in SUBSET Conns
        BY DEF Running
      <3>4. Cardinality(Running') = Cardinality(Running) + 1
        BY <3>2, <3>3, OneMore
      <3>5. QED  BY <1>0, <3>1, <3>4
    <2>2. CASE EndPipe(c)
      <3>1. conn[c].pc = "piping" /\ conn'[c].pc = "ended" /\ active' = active - 1
        BY <2>2 DEF EndPipe, TypeOK
      <3>2. Running' = Running \ {c} /\ c \in Running
        BY <2>0, <3>1 DEF Running
      <3>3. Running \in SUBSET Conns /\ Running' \in SUBSET Conns
        BY DEF Running
      <3>4. Cardinality(Running) = Cardinality(Running') + 1
        BY <3>2, <3>3, OneLess
      <3>5. Cardinality(Running') \in Nat
        BY <3>3, ConnSubsetFinite
      <3>6. QED  BY <1>0, <3>1, <3>4, <3>5
    <2>3. CASE ~ Admit(c) /\ ~ EndPipe(c)
      <3>1. active' = active
        BY <1>1, <2>3 DEF Handler, LoadRelay, AuthenticateHost, CheckTicket, ConsumeTicket,
           AbortRequest, Take, AdmitRefused, AdmitFailed, RefusePair, MarkRelayActive,
           ReleasePlayer, FinishTunnel, Park, RemoveWaiting, hubVars
      <3>2. conn'[c].pc \in {"admitted", "piping"} <=> conn[c].pc \in {"admitted", "piping"}
        BY <1>1, <2>3 DEF Handler, LoadRelay, AuthenticateHost, CheckTicket, ConsumeTicket,
           AbortRequest, Take, AdmitRefused, AdmitFailed, RefusePair, MarkRelayActive,
           ReleasePlayer, FinishTunnel, Park, RemoveWaiting, Goto, TypeOK, Connection
      <3>3. Running' = Running
        BY <2>0, <3>2 DEF Running
      <3>4. QED  BY <3>1, <3>3, <1>k
    <2>4. QED  BY <2>1, <2>2, <2>3
  <1>2. CASE HostCreates \/ HostCloses \/ HostPatches \/ Tickets
    <2>1. conn' = conn /\ active' = active
      BY <1>2 DEF HostCreates, HostCloses, HostPatches, Tickets, Rest, hubVars
    <2>2. QED  BY <2>1, <1>k DEF Running
  <1>3. CASE Crash
    <2>1. \A c \in Conns : conn'[c].pc \in {"idle", "refused", "done"}
      BY <1>3, AfterCrash
    <2>2. Running' = {}
      BY <2>1 DEF Running
    <2>3. QED  BY <1>0, <1>3, <2>2, FS_EmptySet DEF Crash
  <1>4. QED  BY <1>1, <1>2, <1>3 DEF Next

-----------------------------------------------------------------------------
(* The player count.  Admit and ReleasePlayer move one connection into and   *)
(* out of Holders; zeroing, failures and crashes are what wiped and leaked   *)
(* record.                                                                   *)

(* CountTracksTunnels is Tracks of every world.                              *)
LEMMA TracksAll == CountTracksTunnels <=> \A w \in Worlds : Tracks(w)
  BY DEF CountTracksTunnels, Tracks, Held

(* The number of tunnels that hold a slot is a natural number.               *)
LEMMA HeldType ==
    ASSUME NEW w \in Worlds
    PROVE  Held(w) \in Nat /\ Holders(w) \in SUBSET Conns
  BY ConnSubsetFinite DEF Held, Holders

(* The same in the next state.                                               *)
LEMMA HeldTypeNext ==
    ASSUME NEW w \in Worlds
    PROVE  Held(w)' \in Nat /\ Holders(w)' \in SUBSET Conns
  BY ConnSubsetFinite DEF Held, Holders

(* Steps that change neither the holders nor the count of w.                 *)
LEMMA TracksKept ==
    ASSUME NEW w \in Worlds, Tracks(w), Holders(w)' = Holders(w),
           worlds'[w].cur = worlds[w].cur, w \in wiped => w \in wiped',
           w \in leaked => w \in leaked'
    PROVE  Tracks(w)'
  <1>1. Held(w)' = Held(w)
    BY DEF Held
  <1>2. QED  BY <1>1 DEF Tracks

(* Every handler step keeps the count in line with the tunnels.              *)
LEMMA HandlerCount ==
    ASSUME CountInv, NEW c \in Conns, Handler(c)
    PROVE  \A w \in Worlds : Tracks(w)'
  <1> USE DEF CountInv
  <1>t. \A w \in Worlds : Tracks(w)
    BY TracksAll
  <1>o. \A d \in Conns \ {c} : conn'[d] = conn[d]
    BY OthersStay
  <1>r. \A d \in Conns : conn[d].pc # "idle" =>
           relays'[RelayIdOf[d]].world = relays[RelayIdOf[d]].world
    BY HandlerRows, RelayAssumption DEF RowsKept, LoadedHasRow, RelayOf
  <1>w. PICK v \in Worlds : v = WorldOf(c)
    BY WorldOfType
  <1>n. worlds \in [Worlds -> WorldRow] /\ worlds[v].cur \in Nat
    BY DEF TypeOK, DbTypeOK, WorldRow
  <1>h. Tracks(v) /\ Held(v) \in Nat /\ Held(v)' \in Nat
    BY <1>t, HeldType, HeldTypeNext
  <1>1. CASE Admit(c)
    <2>1. conn[c].pc = "paired" /\ conn'[c].pc = "admitted"
      BY <1>1 DEF Admit, Goto, TypeOK, Connection
    <2>2. \A w \in Worlds \ {v} : Holders(w)' = Holders(w)
      BY <2>1, <1>o, <1>r, <1>w DEF Holders, Holding, WorldOf, RelayOf
    <2>3. Holders(v)' = Holders(v) \cup {c} /\ c \notin Holders(v)
      BY <2>1, <1>o, <1>r, <1>w DEF Holders, Holding, WorldOf, RelayOf
    <2>4. \A w \in Worlds \ {v} : worlds'[w].cur = worlds[w].cur
      BY <1>1, <1>w, <1>n DEF Admit
    <2>5. worlds'[v].cur = worlds[v].cur + 1
      BY <1>1, <1>w, <1>n DEF Admit, WorldRow
    <2>6. wiped' = wiped /\ leaked' = leaked
      BY <1>1 DEF Admit, ghosts
    <2>7. Held(v)' = Held(v) + 1
      BY <2>3, HeldType, HeldTypeNext, OneMore DEF Held
    <2>8. Tracks(v)'
      BY <1>h, <1>n, <2>5, <2>6, <2>7 DEF Tracks
    <2>9. \A w \in Worlds \ {v} : Tracks(w)'
      BY <1>t, <2>2, <2>4, <2>6, TracksKept
    <2>10. QED  BY <2>8, <2>9
  <1>2. CASE AdmitFailed(c)
    <2>1. conn[c].pc = "paired" /\ conn'[c].pc = "refusing"
      BY <1>2 DEF AdmitFailed, Goto, TypeOK, Connection
    <2>2. \A w \in Worlds : Holders(w)' = Holders(w)
      BY <2>1, <1>o, <1>r DEF Holders, Holding, WorldOf, RelayOf
    <2>3. wiped' = wiped
      BY <1>2 DEF AdmitFailed
    <2>4. CASE UNCHANGED <<worlds, leaked>>
      BY <2>2, <2>3, <2>4, <1>t, TracksKept
    <2>5. CASE worlds' = [worlds EXCEPT ![v].cur = @ + 1] /\ leaked' = leaked \cup {v}
      <3>1. \A w \in Worlds \ {v} : worlds'[w].cur = worlds[w].cur
        BY <2>5, <1>n
      <3>2. \A w \in Worlds \ {v} : Tracks(w)'
        BY <1>t, <2>2, <2>3, <2>5, <3>1, TracksKept
      <3>3. worlds'[v].cur = worlds[v].cur + 1
        BY <2>5, <1>n DEF WorldRow
      <3>4. Held(v)' = Held(v)
        BY <2>2 DEF Held
      <3>5. Tracks(v)'
        BY <1>h, <1>n, <2>3, <2>5, <3>3, <3>4 DEF Tracks
      <3>6. QED  BY <3>2, <3>5
    <2>6. QED  BY <1>2, <1>w, <2>4, <2>5 DEF AdmitFailed
  <1>3. CASE ReleasePlayer(c)
    <2>1. conn[c].pc = "ended" /\ conn'[c].pc = "released"
      BY <1>3 DEF ReleasePlayer, Goto, TypeOK, Connection
    <2>2. \A w \in Worlds \ {v} : Holders(w)' = Holders(w)
      BY <2>1, <1>o, <1>r, <1>w DEF Holders, Holding, WorldOf, RelayOf
    <2>3. Holders(v)' = Holders(v) \ {c} /\ c \in Holders(v)
      BY <2>1, <1>o, <1>r, <1>w DEF Holders, Holding, WorldOf, RelayOf
    <2>4. Held(v) = Held(v)' + 1
      BY <2>3, HeldType, HeldTypeNext, OneLess DEF Held
    <2>5. \A w \in Worlds \ {v} : /\ worlds'[w].cur = worlds[w].cur
                                  /\ w \in wiped => w \in wiped'
                                  /\ w \in leaked => w \in leaked'
      BY <1>3, <1>w, <1>n DEF ReleasePlayer
    <2>6. \A w \in Worlds \ {v} : Tracks(w)'
      BY <1>t, <2>2, <2>5, TracksKept
    <2>7. v \in wiped /\ v \notin wiped' => Held(v)' = 0
      <3>1. v \in wiped /\ v \notin wiped' => Holders(v)' = {}
        BY <1>3, <1>w, <2>3 DEF ReleasePlayer
      <3>2. Cardinality({}) = 0
        BY FS_EmptySet
      <3>3. QED  BY <3>1, <3>2 DEF Held
    <2>8. \/ worlds'[v].cur = Decremented(worlds[v].cur) /\ leaked' = leaked
          \/ worlds'[v].cur = worlds[v].cur /\ v \in leaked'
      BY <1>3, <1>w, <1>n DEF ReleasePlayer, WorldRow
    <2>9. Tracks(v)'
      BY <1>h, <1>n, <2>4, <2>7, <2>8 DEF Tracks, Decremented
    <2>10. QED  BY <2>6, <2>9
  <1>4. CASE ~ Admit(c) /\ ~ AdmitFailed(c) /\ ~ ReleasePlayer(c)
    <2>1. worlds' = worlds /\ wiped' = wiped /\ leaked' = leaked
      BY <1>4 DEF Handler, LoadRelay, AuthenticateHost, CheckTicket, ConsumeTicket,
         AbortRequest, Take, AdmitRefused, RefusePair, MarkRelayActive, EndPipe,
         FinishTunnel, Park, RemoveWaiting, dbVars, ghosts
    <2>2. conn'[c].pc \in Holding <=> conn[c].pc \in Holding
      BY <1>4 DEF Handler, LoadRelay, AuthenticateHost, CheckTicket, ConsumeTicket,
         AbortRequest, Take, AdmitRefused, RefusePair, MarkRelayActive, EndPipe,
         FinishTunnel, Park, RemoveWaiting, Goto, Holding, TypeOK, Connection
    <2>3. \A w \in Worlds : Holders(w)' = Holders(w)
      <3>1. \A d \in Conns : conn[d].pc \in Holding =>
                relays'[RelayIdOf[d]].world = relays[RelayIdOf[d]].world
        BY <1>r DEF Holding
      <3>2. QED  BY <1>o, <2>2, <3>1, HoldersKept
    <2>4. QED  BY <1>t, <2>1, <2>3, TracksKept
  <1>5. QED  BY <1>1, <1>2, <1>3, <1>4

(* So does every REST call and a crash, with the history it records.         *)
LEMMA RestCount ==
    ASSUME CountInv, HostCreates \/ HostCloses \/ HostPatches \/ Tickets \/ Crash
    PROVE  \A w \in Worlds : Tracks(w)'
  <1> USE DEF CountInv
  <1>t. \A w \in Worlds : Tracks(w)
    BY TracksAll
  <1>0. Cardinality({}) = 0
    BY FS_EmptySet
  <1>n. worlds \in [Worlds -> WorldRow] /\ \A w \in Worlds : worlds[w].cur \in Nat
    BY DEF TypeOK, DbTypeOK, WorldRow
  <1>r. \A d \in Conns : conn[d].pc # "idle" =>
           relays'[RelayIdOf[d]].world = relays[RelayIdOf[d]].world
    BY RestRows, RelayAssumption DEF RowsKept, LoadedHasRow, RelayOf
  <1>h. conn' = conn => \A w \in Worlds : Holders(w)' = Holders(w)
    <2>1. \A d \in Conns : conn[d].pc \in Holding =>
              relays'[RelayIdOf[d]].world = relays[RelayIdOf[d]].world
      BY <1>r DEF Holding
    <2>2. QED  BY <2>1, HoldersKept
  \* Zeroing one world.
  <1>z. ASSUME NEW v \in Worlds, conn' = conn, Zeroed(v), worlds'[v].cur = 0,
               \A w \in Worlds \ {v} : worlds'[w].cur = worlds[w].cur
        PROVE  \A w \in Worlds : Tracks(w)'
    <2>1. \A w \in Worlds : Holders(w)' = Holders(w)
      BY <1>z, <1>h
    <2>2. \A w \in Worlds \ {v} : Tracks(w)'
      BY <1>z, <1>t, <2>1, TracksKept DEF Zeroed
    <2>3. Held(v)' \in Nat
      BY HeldTypeNext
    <2>4. v \notin wiped' => Held(v)' = 0
      BY <1>z, <1>0, <2>1 DEF Zeroed, Held
    <2>5. Tracks(v)'
      BY <1>z, <2>3, <2>4 DEF Tracks
    <2>6. QED  BY <2>2, <2>5
  \* Neither counts nor history change.
  <1>k. ASSUME conn' = conn, UNCHANGED ghosts, \A w \in Worlds : worlds'[w].cur = worlds[w].cur
        PROVE  \A w \in Worlds : Tracks(w)'
    BY <1>k, <1>h, <1>t, TracksKept DEF ghosts
  <1>1. CASE HostCreates
    <2>1. PICK h \in Hosts, w \in Worlds, m \in Capacity : Rest(CreateWorld(h, w, m)) /\ Zeroed(w)
      BY <1>1 DEF HostCreates
    <2>2. worlds'[w].cur = 0 /\ \A u \in Worlds \ {w} : worlds'[u].cur = worlds[u].cur
      BY <2>1, <1>n DEF Rest, CreateWorld
    <2>3. QED  BY <2>1, <2>2, <1>z DEF Rest
  <1>2. CASE HostCloses
    <2>1. PICK w \in Worlds : Rest(CloseWorld(w)) /\ Zeroed(w)
      BY <1>2 DEF HostCloses
    <2>2. worlds'[w].cur = 0 /\ \A u \in Worlds \ {w} : worlds'[u].cur = worlds[u].cur
      BY <2>1, <1>n DEF Rest, CloseWorld, WorldRow
    <2>3. QED  BY <2>1, <2>2, <1>z DEF Rest
  <1>3. CASE HostPatches
    <2>1. PICK p \in Patches :
             \/ \E w \in Worlds, m \in Capacity, asked \in {"keep", "open", "closed"} :
                   Rest(PatchReadWorld(p, w, m, asked)) /\ UNCHANGED ghosts
             \/ Rest(PatchAbort(p)) /\ UNCHANGED ghosts
             \/ /\ Rest(PatchWriteWorld(p))
                /\ IF patch[p].closing THEN Zeroed(patch[p].world) ELSE UNCHANGED ghosts
      BY <1>3 DEF HostPatches
    <2>2. CASE UNCHANGED <<worlds, ghosts>>
      BY <2>1, <2>2, <1>k DEF Rest
    <2>3. CASE Rest(PatchWriteWorld(p))
               /\ IF patch[p].closing THEN Zeroed(patch[p].world) ELSE UNCHANGED ghosts
      <3>1. patch[p] \in PatchWrite
        BY <2>3 DEF Rest, PatchWriteWorld, TypeOK, DbTypeOK
      <3>2. PICK w \in Worlds : w = patch[p].world
        BY <3>1 DEF PatchWrite
      <3>3. \A u \in Worlds \ {w} : worlds'[u].cur = worlds[u].cur
        BY <2>3, <3>2, <1>n DEF Rest, PatchWriteWorld
      <3>4. worlds'[w].cur = IF patch[p].closing THEN 0 ELSE worlds[w].cur
        BY <2>3, <3>2, <1>n DEF Rest, PatchWriteWorld, WorldRow
      <3>5. CASE patch[p].closing
        BY <2>3, <3>2, <3>3, <3>4, <3>5, <1>z DEF Rest
      <3>6. CASE ~ patch[p].closing
        <4>1. \A u \in Worlds : worlds'[u].cur = worlds[u].cur
          BY <3>3, <3>4, <3>6
        <4>2. QED  BY <2>3, <3>6, <4>1, <1>k DEF Rest
      <3>7. QED  BY <3>5, <3>6
    <2>4. QED  BY <2>1, <2>2, <2>3 DEF Rest, PatchReadWorld, PatchAbort
  <1>4. CASE Tickets
    <2>1. conn' = conn /\ UNCHANGED ghosts /\ worlds' = worlds
      BY <1>4 DEF Tickets, Rest, PreCheckTicket, IssueTicketAndRelay, ExpireTicket
    <2>2. QED  BY <2>1, <1>k
  <1>5. CASE Crash
    <2>1. \A c \in Conns : conn'[c].pc \in {"idle", "refused", "done"}
      BY <1>5, AfterCrash
    <2>2. \A w \in Worlds : Holders(w)' = {}
      BY <2>1 DEF Holders, Holding
    <2>3. \A w \in Worlds : Held(w)' = 0
      BY <2>2, <1>0 DEF Held
    <2>4. \A w \in Worlds : w \notin leaked' /\ worlds[w].status # "open"
                             => w \notin leaked /\ Held(w) = 0
      BY <1>5, <1>0 DEF Crash, Held
    <2>5. \A w \in Worlds : worlds'[w].cur = IF worlds[w].status = "open" THEN 0 ELSE worlds[w].cur
      BY <1>5, <1>n DEF Crash, ReconciledWorlds, WorldRow
    <2>6. QED  BY <1>t, <1>n, <2>3, <2>4, <2>5 DEF Tracks
  <1>6. QED  BY <1>1, <1>2, <1>3, <1>4, <1>5

-----------------------------------------------------------------------------
(* The invariant is inductive.                                               *)
LEMMA CountInvStep ==
    ASSUME CountInv, [Next]_vars
    PROVE  CountInv'
  <1>1. CASE Next
    <2>1. TypeOK'
      BY <1>1, HandlerType, RestType DEF Next
    <2>2. CountTracksTunnels'
      <3>1. \A w \in Worlds : Tracks(w)'
        BY <1>1, HandlerCount, RestCount DEF Next
      <3>2. QED  BY <3>1 DEF CountTracksTunnels, Tracks, Held
    <2>3. QED  BY <1>1, <2>1, <2>2, RowStep, GaugeStep DEF CountInv
  <1>2. CASE UNCHANGED vars
    BY <1>2 DEF vars, CountInv, TypeOK, DbTypeOK, LoadedHasRow, GaugeCountsTunnels,
                CountTracksTunnels, Holders, WorldOf, RelayOf
  <1>3. QED  BY <1>1, <1>2

(* CountInv holds in every reachable state.                                  *)
LEMMA CountInvariant == Spec => []CountInv
  <1>1. CountInv /\ [Next]_vars => CountInv'
    BY CountInvStep
  <1>2. QED  BY <1>1, CountInit, PTL DEF Spec

(* Every variable keeps its type; in particular the active gauge of RelayHub *)
(* never goes below zero.                                                    *)
THEOREM TypeCorrect == Spec => []TypeOK
  BY CountInvariant, PTL DEF CountInv

(* The gauge always equals the number of running tunnels.                    *)
THEOREM GaugeCorrect == Spec => []GaugeCountsTunnels
  BY CountInvariant, PTL DEF CountInv

(* current_players is exact for a world that was neither zeroed under live   *)
(* tunnels nor hit by a fault, and errs only on the named side otherwise.    *)
THEOREM CountCorrect == Spec => []CountTracksTunnels
  BY CountInvariant, PTL DEF CountInv

(* A step that starts a tunnel finds a free slot: the handler's conditional  *)
(* UPDATE holds the cap because the count is never below the tunnels.        *)
LEMMA CapStep ==
    ASSUME CountInv, [Next]_vars
    PROVE  [\A w \in Worlds \ wiped : TunnelsWithinCap(w)]_vars
  <1> SUFFICES ASSUME Next, NEW w \in Worlds \ wiped
               PROVE  TunnelsWithinCap(w)
    OBVIOUS
  <1> USE DEF CountInv
  <1>0. Held(w) \in Nat /\ Held(w)' \in Nat
    BY HeldType, HeldTypeNext
  <1>k. Holders(w)' \subseteq Holders(w) => TunnelsWithinCap(w)
    <2>1. Holders(w)' \subseteq Holders(w) => Held(w)' <= Held(w)
      BY HeldType, ConnSubsetFinite, FS_Subset DEF Held
    <2>2. QED  BY <2>1, <1>0 DEF TunnelsWithinCap, Held
  <1>1. ASSUME NEW c \in Conns, Handler(c)
        PROVE  TunnelsWithinCap(w)
    <2>o. \A d \in Conns \ {c} : conn'[d] = conn[d]
      BY <1>1, OthersStay
    <2>r. \A d \in Conns : conn[d].pc # "idle" =>
             relays'[RelayIdOf[d]].world = relays[RelayIdOf[d]].world
      BY <1>1, HandlerRows, RelayAssumption DEF RowsKept, LoadedHasRow, RelayOf
    <2>1. CASE Admit(c) /\ WorldOf(c) = w
      <3>1. conn[c].pc = "paired" /\ conn'[c].pc = "admitted"
        BY <2>1 DEF Admit, Goto, TypeOK, Connection
      <3>2. Holders(w)' = Holders(w) \cup {c} /\ c \notin Holders(w)
        BY <3>1, <2>o, <2>r, <2>1 DEF Holders, Holding, WorldOf, RelayOf
      <3>3. Held(w)' = Held(w) + 1
        BY <3>2, HeldType, HeldTypeNext, OneMore DEF Held
      <3>4. worlds[w].cur < worlds[w].max
        BY <2>1 DEF Admit, HasFreeSlot
      <3>5. worlds[w].cur >= Held(w)
        BY DEF CountTracksTunnels, Held
      <3>6. worlds[w].cur \in Nat /\ worlds[w].max \in Nat
        BY CapAssumption DEF TypeOK, DbTypeOK, WorldRow, Capacity
      <3>7. QED  BY <1>0, <3>3, <3>4, <3>5, <3>6 DEF TunnelsWithinCap, Held
    <2>2. CASE ~ (Admit(c) /\ WorldOf(c) = w)
      <3>1. conn'[c].pc \in Holding => conn[c].pc \in Holding \/ Admit(c)
        BY <1>1 DEF Handler, LoadRelay, AuthenticateHost, CheckTicket, ConsumeTicket,
           AbortRequest, Take, AdmitRefused, AdmitFailed, RefusePair, MarkRelayActive,
           EndPipe, ReleasePlayer, FinishTunnel, Park, RemoveWaiting, Goto, Holding,
           TypeOK, Connection
      <3>2. Admit(c) => conn[c].pc # "idle"
        BY DEF Admit
      <3>3. Holders(w)' \subseteq Holders(w)
        BY <2>2, <2>o, <2>r, <3>1, <3>2 DEF Holders, Holding, WorldOf, RelayOf
      <3>4. QED  BY <3>3, <1>k
    <2>3. QED  BY <2>1, <2>2
  <1>2. CASE HostCreates \/ HostCloses \/ HostPatches \/ Tickets
    <2>1. conn' = conn
      BY <1>2 DEF HostCreates, HostCloses, HostPatches, Tickets, Rest
    <2>2. \A d \in Conns : conn[d].pc \in Holding =>
             relays'[RelayIdOf[d]].world = relays[RelayIdOf[d]].world
      BY <1>2, RestRows, RelayAssumption DEF RowsKept, LoadedHasRow, RelayOf, Holding
    <2>3. Holders(w)' = Holders(w)
      BY <2>1, <2>2, HoldersKept
    <2>4. QED  BY <2>3, <1>k
  <1>3. CASE Crash
    <2>1. \A c \in Conns : conn'[c].pc \in {"idle", "refused", "done"}
      BY <1>3, AfterCrash
    <2>2. QED  BY <2>1, <1>k DEF Holders, Holding
  <1>4. QED  BY <1>1, <1>2, <1>3 DEF Next

(* The capacity gate: a tunnel never starts beyond max_players, except in a  *)
(* world whose count was zeroed while tunnels were running.                  *)
THEOREM CapCorrect == Spec => CapAtAdmission
  <1>1. CountInv /\ [Next]_vars => [\A w \in Worlds \ wiped : TunnelsWithinCap(w)]_vars
    BY CapStep
  <1>2. QED  BY <1>1, CountInvariant, PTL DEF Spec, CapAtAdmission

(* A closed relay session is closed for good, whichever of the handlers, the *)
(* host's calls and a crash comes next: mark_relay_active of a tunnel that   *)
(* was admitted before the close cannot revive its row.                      *)
THEOREM RelayFinality == Spec => ClosedRelayStaysClosed
  <1>1. TypeOK /\ [Next]_vars =>
           [\A r \in Relays : relays[r].status = "closed" => relays'[r].status = "closed"]_vars
    <2> SUFFICES ASSUME TypeOK, Next, NEW r \in Relays, relays[r].status = "closed"
                 PROVE  relays'[r].status = "closed"
      OBVIOUS
    <2>1. RowsKept
      BY HandlerRows, RestRows DEF Next
    <2>2. QED  BY <2>1 DEF RowsKept
  <1>2. QED  BY <1>1, TypeCorrect, PTL DEF Spec, ClosedRelayStaysClosed

-----------------------------------------------------------------------------
(* The rendezvous hub.  A parked entry belongs to a connection of that relay *)
(* session that waits; a taken peer waits or has given up waiting, so it can *)
(* never be parked again; only a handler that is pairing or piping has one.  *)

ParkedIsWaiting ==
    \A r \in Relays : waiting[r] # None =>
        RelayIdOf[waiting[r]] = r /\ conn[waiting[r]].pc = "parked"

TakenIsSettled ==
    \A c \in Conns : conn[c].peer # None =>
        /\ conn[conn[c].peer].pc \in {"parked", "done"}
        /\ conn[c].pc \in {"paired", "admitted", "piping", "refusing"}

HubInv ==
    /\ ParkedIsWaiting
    /\ TakenIsSettled
    /\ PairsAreHostAndGuest
    /\ SocketHasOneOwner

(* Initially the hub is empty and nobody has a peer.                         *)
LEMMA HubInit == Init => HubInv
  BY DEF Init, HubInv, ParkedIsWaiting, TakenIsSettled, PairsAreHostAndGuest, SocketHasOneOwner

(* Handler steps that touch neither the hub nor any peer.                    *)
LEMMA HubKept ==
    ASSUME TypeOK, HubInv, NEW c \in Conns, NEW pc \in PC,
           waiting' = waiting, conn' = [conn EXCEPT ![c].pc = pc],
           conn[c].pc # "parked", conn[c].pc # "done",
           conn[c].peer # None => pc \in {"paired", "admitted", "piping", "refusing"}
    PROVE  HubInv'
  <1>1. \A d \in Conns : conn'[d].peer = conn[d].peer
    BY DEF TypeOK, Connection
  <1>2. \A d \in Conns \ {c} : conn'[d].pc = conn[d].pc
    BY DEF TypeOK
  <1>3. conn'[c].pc = pc
    BY DEF TypeOK, Connection
  <1>4. \A d \in Conns : conn[d].peer \in Conns \cup {None}
    BY DEF TypeOK, Connection
  <1>5. \A r \in Relays : waiting[r] \in Conns \cup {None}
    BY DEF TypeOK
  <1>6. ParkedIsWaiting'
    BY <1>2, <1>5 DEF HubInv, ParkedIsWaiting
  <1>7. TakenIsSettled'
    BY <1>1, <1>2, <1>3, <1>4 DEF HubInv, TakenIsSettled
  <1>8. PairsAreHostAndGuest' /\ SocketHasOneOwner'
    BY <1>1 DEF HubInv, PairsAreHostAndGuest, SocketHasOneOwner
  <1>9. QED  BY <1>6, <1>7, <1>8 DEF HubInv

(* Handler steps after which the connection has no peer any more.            *)
LEMMA HubPeerDropped ==
    ASSUME TypeOK, HubInv, NEW c \in Conns, NEW pc \in PC,
           waiting' = waiting, conn' = [conn EXCEPT ![c].pc = pc, ![c].peer = None],
           conn[c].pc # "parked", conn[c].pc # "done"
    PROVE  HubInv'
  <1>1. \A d \in Conns : d # c => conn'[d].pc = conn[d].pc /\ conn'[d].peer = conn[d].peer
    BY DEF TypeOK
  <1>2. conn'[c].pc = pc /\ conn'[c].peer = None
    BY DEF TypeOK, Connection
  <1>4. \A d \in Conns : conn[d].peer \in Conns \cup {None}
    BY DEF TypeOK, Connection
  <1>5. \A r \in Relays : waiting[r] \in Conns \cup {None}
    BY DEF TypeOK
  <1>6. ParkedIsWaiting'
    BY <1>1, <1>5 DEF HubInv, ParkedIsWaiting
  <1>7. TakenIsSettled'
    <2>1. SUFFICES ASSUME NEW d \in Conns, conn'[d].peer # None
                   PROVE  /\ conn'[conn'[d].peer].pc \in {"parked", "done"}
                          /\ conn'[d].pc \in {"paired", "admitted", "piping", "refusing"}
      BY DEF TakenIsSettled
    <2>2. d # c /\ conn'[d].peer = conn[d].peer /\ conn'[d].pc = conn[d].pc
      BY <1>1, <1>2, <2>1
    <2>3. conn[d].peer \in Conns /\ conn[conn[d].peer].pc \in {"parked", "done"}
          /\ conn[d].pc \in {"paired", "admitted", "piping", "refusing"}
      BY <1>4, <2>1, <2>2 DEF HubInv, TakenIsSettled
    <2>4. conn[d].peer # c
      BY <2>3
    <2>5. QED  BY <1>1, <2>2, <2>3, <2>4
  <1>8. \A d \in Conns : conn'[d].peer # None =>
           conn'[d].peer = conn[d].peer /\ conn'[d].pc = conn[d].pc
    BY <1>1, <1>2
  <1>9. PairsAreHostAndGuest'
    BY <1>8 DEF HubInv, PairsAreHostAndGuest
  <1>10. SocketHasOneOwner'
    <2>1. \A d, e \in Conns : conn'[d].peer # None /\ conn'[e].peer = conn'[d].peer => e = d
      BY <1>8 DEF HubInv, SocketHasOneOwner
    <2>2. \A d \in Conns, r \in Relays : conn'[d].peer # None => waiting'[r] # conn'[d].peer
      <3>1. \A d \in Conns, r \in Relays : conn[d].peer # None => waiting[r] # conn[d].peer
        BY DEF HubInv, SocketHasOneOwner
      <3>2. QED  BY <1>8, <3>1
    <2>3. QED  BY <2>1, <2>2 DEF SocketHasOneOwner
  <1>11. QED  BY <1>6, <1>7, <1>9, <1>10 DEF HubInv

(* Every handler step keeps the hub invariant.                               *)
LEMMA HubHandler ==
    ASSUME TypeOK, HubInv, NEW c \in Conns, Handler(c)
    PROVE  HubInv'
  <1> USE RelayAssumption
  <1>p. {"loaded", "refused", "upgraded", "validated", "parking", "paired", "admitted",
         "refusing", "piping", "ended", "released", "done", "parked"} \subseteq PC
    BY DEF PC, BeforeUpgrade, Holding
  <1>q. \A d \in Conns : conn[d].peer \in Conns \cup {None}
    BY DEF TypeOK, Connection
  <1>w. \A r \in Relays : waiting[r] \in Conns \cup {None}
    BY DEF TypeOK
  <1>n. conn[c].pc \notin {"paired", "admitted", "piping", "refusing"} => conn[c].peer = None
    BY DEF HubInv, TakenIsSettled
  <1>1. CASE LoadRelay(c) \/ AuthenticateHost(c) \/ CheckTicket(c) \/ ConsumeTicket(c)
             \/ AbortRequest(c) \/ ReleasePlayer(c) \/ FinishTunnel(c)
    <2>1. PICK pc \in PC : conn' = [conn EXCEPT ![c].pc = pc]
      BY <1>1, <1>p DEF LoadRelay, AuthenticateHost, CheckTicket, ConsumeTicket,
         AbortRequest, ReleasePlayer, FinishTunnel, Goto
    <2>2. waiting' = waiting
          /\ conn[c].pc \in {"idle", "loaded", "validated", "ended", "released"}
      BY <1>1 DEF LoadRelay, AuthenticateHost, CheckTicket, ConsumeTicket,
         AbortRequest, ReleasePlayer, FinishTunnel, hubVars
    <2>3. QED  BY <1>n, <2>1, <2>2, HubKept
  <1>2. CASE Admit(c) \/ AdmitRefused(c) \/ AdmitFailed(c) \/ MarkRelayActive(c)
    <2>1. PICK pc \in {"admitted", "refusing", "piping"} : conn' = [conn EXCEPT ![c].pc = pc]
      BY <1>2 DEF Admit, AdmitRefused, AdmitFailed, MarkRelayActive, Goto
    <2>2. waiting' = waiting /\ conn[c].pc \in {"paired", "admitted"}
      BY <1>2 DEF Admit, AdmitRefused, AdmitFailed, MarkRelayActive, hubVars
    <2>3. QED  BY <1>p, <2>1, <2>2, HubKept
  <1>3. CASE RefusePair(c) \/ EndPipe(c)
    <2>1. PICK pc \in PC : conn' = [conn EXCEPT ![c].pc = pc, ![c].peer = None]
      BY <1>3, <1>p DEF RefusePair, EndPipe
    <2>2. waiting' = waiting /\ conn[c].pc \in {"refusing", "piping"}
      BY <1>3 DEF RefusePair, EndPipe, hubVars
    <2>3. QED  BY <2>1, <2>2, HubPeerDropped
  <1>4. CASE Take(c)
    <2>1. CASE conn' = [conn EXCEPT ![c].pc = "parking"] /\ waiting' = waiting
      BY <1>4, <1>n, <1>p, <2>1, HubKept DEF Take
    <2>2. CASE /\ waiting[RelayIdOf[c]] # None
               /\ roles_pair(RoleOf[waiting[RelayIdOf[c]]], RoleOf[c])
               /\ conn' = [conn EXCEPT ![c].pc = "paired", ![c].peer = waiting[RelayIdOf[c]]]
               /\ waiting' = [waiting EXCEPT ![RelayIdOf[c]] = None]
      <3> DEFINE r == RelayIdOf[c]
                 p == waiting[RelayIdOf[c]]
      <3>0. r \in Relays /\ p \in Conns /\ RelayIdOf[p] = r /\ conn[p].pc = "parked"
            /\ conn[c].pc = "upgraded"
        BY <1>4, <1>w, <2>2 DEF HubInv, ParkedIsWaiting, Take
      <3>1. \A d \in Conns : d # c => conn'[d].pc = conn[d].pc /\ conn'[d].peer = conn[d].peer
        BY <2>2 DEF TypeOK
      <3>2. conn'[c].pc = "paired" /\ conn'[c].peer = p
        BY <2>2 DEF TypeOK, Connection
      <3>3. waiting'[r] = None /\ \A q \in Relays \ {r} : waiting'[q] = waiting[q]
        BY <2>2, <3>0 DEF TypeOK
      <3>4. ParkedIsWaiting'
        BY <1>4, <1>w, <3>1, <3>3 DEF HubInv, ParkedIsWaiting, Take
      <3>5. TakenIsSettled'
        BY <1>q, <3>0, <3>1, <3>2 DEF HubInv, TakenIsSettled
      <3>6. PairsAreHostAndGuest'
        BY <2>2, <3>0, <3>1, <3>2 DEF HubInv, PairsAreHostAndGuest, roles_pair
      <3>7. SocketHasOneOwner'
        <4>1. \A d \in Conns : conn[d].peer # p
          BY <2>2, <3>0 DEF HubInv, SocketHasOneOwner
        <4>2. \A q \in Relays \ {r} : waiting[q] # p
          BY <3>0, <2>2 DEF HubInv, ParkedIsWaiting
        <4>3. \A d \in Conns : d # c => conn'[d].peer # p
          BY <3>1, <4>1
        <4>4. \A q \in Relays : waiting'[q] # p
          BY <2>2, <3>3, <4>2
        <4>5. \A d \in Conns, q \in Relays : d # c /\ conn'[d].peer # None =>
                 waiting'[q] # conn'[d].peer
          BY <3>1, <3>3 DEF HubInv, SocketHasOneOwner
        <4>6. \A d, e \in Conns : d # c /\ e # c /\ conn'[d].peer # None
                 /\ conn'[e].peer = conn'[d].peer => e = d
          BY <3>1 DEF HubInv, SocketHasOneOwner
        <4>7. QED  BY <3>2, <4>3, <4>4, <4>5, <4>6 DEF SocketHasOneOwner
      <3>8. QED  BY <3>4, <3>5, <3>6, <3>7 DEF HubInv
    <2>3. QED  BY <1>4, <2>1, <2>2 DEF Take, Goto
  <1>5. CASE Park(c)
    <2>1. CASE waiting[RelayIdOf[c]] # None
      BY <1>5, <1>n, <1>p, <2>1, HubKept DEF Park, Goto
    <2>2. CASE waiting[RelayIdOf[c]] = None
      <3>0. RelayIdOf[c] \in Relays /\ conn[c].pc = "parking"
        BY <1>5 DEF Park
      <3>1. \A d \in Conns : d # c => conn'[d].pc = conn[d].pc /\ conn'[d].peer = conn[d].peer
        BY <1>5 DEF Park, Goto, TypeOK
      <3>2. conn'[c].pc = "parked" /\ conn'[c].peer = conn[c].peer
        BY <1>5, <2>2 DEF Park, Goto, TypeOK, Connection
      <3>3. waiting'[RelayIdOf[c]] = c
            /\ \A q \in Relays \ {RelayIdOf[c]} : waiting'[q] = waiting[q]
        BY <1>5, <2>2, <3>0 DEF Park, TypeOK
      <3>4. ParkedIsWaiting'
        BY <1>w, <3>0, <3>1, <3>2, <3>3 DEF HubInv, ParkedIsWaiting
      <3>5. TakenIsSettled'
        BY <1>n, <1>q, <3>0, <3>1, <3>2 DEF HubInv, TakenIsSettled
      <3>6. PairsAreHostAndGuest'
        BY <3>1, <3>2 DEF HubInv, PairsAreHostAndGuest
      <3>7. SocketHasOneOwner'
        <4>1. \A d \in Conns : conn[d].peer # c
          BY <3>0 DEF HubInv, TakenIsSettled
        <4>2. QED  BY <3>1, <3>2, <3>3, <4>1 DEF HubInv, SocketHasOneOwner
      <3>8. QED  BY <3>4, <3>5, <3>6, <3>7 DEF HubInv
    <2>3. QED  BY <2>1, <2>2
  <1>6. CASE RemoveWaiting(c)
    <2>0. RelayIdOf[c] \in Relays /\ conn[c].pc = "parked"
      BY <1>6 DEF RemoveWaiting
    <2>1. \A d \in Conns : d # c => conn'[d].pc = conn[d].pc /\ conn'[d].peer = conn[d].peer
      BY <1>6 DEF RemoveWaiting, Goto, TypeOK
    <2>2. conn'[c].pc = "done" /\ conn'[c].peer = conn[c].peer
      BY <1>6 DEF RemoveWaiting, Goto, TypeOK, Connection
    <2>3. waiting'[RelayIdOf[c]] = None
          /\ \A q \in Relays \ {RelayIdOf[c]} : waiting'[q] = waiting[q]
      BY <1>6, <2>0 DEF RemoveWaiting, TypeOK
    <2>4. ParkedIsWaiting'
      BY <1>w, <2>0, <2>1, <2>2, <2>3 DEF HubInv, ParkedIsWaiting
    <2>5. TakenIsSettled'
      BY <1>n, <1>q, <2>0, <2>1, <2>2 DEF HubInv, TakenIsSettled
    <2>6. PairsAreHostAndGuest'
      BY <2>1, <2>2 DEF HubInv, PairsAreHostAndGuest
    <2>7. SocketHasOneOwner'
      BY <2>1, <2>2, <2>3 DEF HubInv, SocketHasOneOwner
    <2>8. QED  BY <2>4, <2>5, <2>6, <2>7 DEF HubInv
  <1>7. QED  BY <1>1, <1>2, <1>3, <1>4, <1>5, <1>6 DEF Handler

(* So does every step of the specification.                                  *)
LEMMA HubStep ==
    ASSUME TypeOK, HubInv, [Next]_vars
    PROVE  HubInv'
  <1> USE DEF HubInv, ParkedIsWaiting, TakenIsSettled, PairsAreHostAndGuest, SocketHasOneOwner
  <1>1. ASSUME NEW c \in Conns, Handler(c) PROVE HubInv'
    BY <1>1, HubHandler
  <1>2. CASE conn' = conn /\ waiting' = waiting
    BY <1>2
  <1>3. CASE HostCreates \/ HostCloses \/ HostPatches \/ Tickets
    BY <1>2, <1>3 DEF HostCreates, HostCloses, HostPatches, Tickets, Rest, hubVars
  <1>4. CASE Crash
    <2>1. \A c \in Conns : conn'[c].peer = None
      <3>1. \A c \in Conns : conn[c].pc \in {"idle", "refused", "done"} => conn[c].peer = None
        OBVIOUS
      <3>2. QED  BY <1>4, <3>1, AfterCrash
    <2>2. \A r \in Relays : waiting'[r] = None
      BY <1>4 DEF Crash
    <2>3. QED  BY <2>1, <2>2
  <1>5. QED  BY <1>1, <1>2, <1>3, <1>4 DEF Next, vars

(* HubInv holds in every reachable state.                                    *)
LEMMA HubInvariant == Spec => []HubInv
  <1>1. TypeOK /\ HubInv /\ [Next]_vars => HubInv'
    BY HubStep
  <1>2. QED  BY <1>1, HubInit, TypeCorrect, PTL DEF Spec

(* A tunnel always joins one host and one guest of the same relay session.   *)
THEOREM PairingCorrect == Spec => []PairsAreHostAndGuest
  BY HubInvariant, PTL DEF HubInv

(* A parked socket is never in two hands: the hub and a pipe, or two pipes.  *)
THEOREM OwnerCorrect == Spec => []SocketHasOneOwner
  BY HubInvariant, PTL DEF HubInv

=============================================================================
