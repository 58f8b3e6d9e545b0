---------------------------- MODULE McpHub_proof ----------------------------
(***************************************************************************)
(* Proofs about McpHub, for any number of servers, configurations,         *)
(* connections and operations under way: its invariants.                   *)
(***************************************************************************)
EXTENDS McpHub, SequenceTheorems, TLAPS

MadeType == [server : Servers, config : Configs,
             status : {"connecting", "connected", "disconnected"},
             process : {"running", "closed", "gone"}, byEvent : BOOLEAN]

OpType == [at : Places, kind : {"none", "update", "restart", "dispose"},
           server : Servers \cup {None}, todo : SUBSET Servers, goal : Settings,
           after : {"next", "starting"}, id : Nat]

(* An operation under way knows its server, a configuration to connect it  *)
(* with, and does what its kind does.                                      *)
GoodOp(op) ==
  /\ op.at \in {"idle", "done"} <=> op.kind = "none"
  /\ op.at \in {"delay", "closing", "starting", "handshake"} => op.server \in Servers
  /\ op.at \in {"delay", "starting"} => op.goal[op.server] \in Configs
  /\ op.at = "closing" /\ op.after = "starting" => op.goal[op.server] \in Configs
  /\ op.kind = "dispose" => op.at \in {"next", "closing"} /\ op.after = "next"
  /\ op.at = "delay" => op.kind = "restart" /\ op.after = "starting"

HTypes ==
  /\ made \in Seq(MadeType)
  /\ connections \subseteq Ids
  /\ isConnecting \in BOOLEAN /\ isDisposed \in BOOLEAN
  /\ ops \in [Slots -> OpType]
  /\ wanted \in Settings /\ tangled \subseteq Servers
  /\ overlapped \in BOOLEAN /\ broken \in BOOLEAN
  /\ \A o \in Slots : /\ GoodOp(ops[o])
                      /\ ops[o].at = "handshake" => ops[o].id \in Ids

-----------------------------------------------------------------------------
(* Types.                                                                  *)

LEMMA PlacesAre ==
  /\ "idle" \in Places /\ "next" \in Places /\ "delay" \in Places
  /\ "closing" \in Places /\ "starting" \in Places /\ "handshake" \in Places
  /\ "notify" \in Places /\ "done" \in Places
BY DEF Places

LEMMA IdleIs ==
  /\ Idle \in OpType /\ Idle.at = "idle" /\ Idle.kind = "none"
  /\ Idle.todo = {} /\ Idle.after = "next"
<1>1. [s \in Servers |-> Absent] \in Settings
  BY DEF Settings
<1>2. "idle" \in Places /\ None \in Nat /\ {} \in SUBSET Servers
  BY PlacesAre DEF None
<1> QED BY <1>1, <1>2 DEF Idle, OpType, None

LEMMA DoneIs == Done \in OpType /\ Done.at = "done" /\ Done.kind = "none" /\ GoodOp(Done)
<1>1. Done \in OpType /\ Done.at = "done" /\ Done.kind = "none"
  BY IdleIs, PlacesAre DEF Done, OpType
<1> QED BY <1>1 DEF GoodOp

(* What is known of the operation that calls deleteConnection.             *)
Deletable(op) ==
  /\ op \in OpType /\ op.kind # "none" /\ op.server \in Servers
  /\ op.after = "starting" => op.goal[op.server] \in Configs
  /\ op.kind = "dispose" => op.after = "next"

LEMMA ReturnedIs ==
  ASSUME NEW op \in OpType, op.kind # "none"
  PROVE  /\ Returned(op) \in OpType /\ GoodOp(Returned(op))
         /\ Returned(op).kind = op.kind
         /\ Returned(op).at = IF op.kind = "restart" THEN "notify" ELSE "next"
         /\ op.kind # "restart" =>
              /\ Returned(op).todo = op.todo
              /\ \A s \in op.todo : Returned(op).goal[s] = op.goal[s]
<1> DEFINE g == [s \in Servers |-> IF s \in op.todo THEN op.goal[s] ELSE Absent]
           r == [Idle EXCEPT !.at = "notify", !.kind = "restart"]
           u == [Idle EXCEPT !.at = "next", !.kind = op.kind, !.todo = op.todo,
                             !.goal = g]
<1>1. /\ g \in Settings /\ op.todo \in SUBSET Servers /\ \A s \in op.todo : g[s] = op.goal[s]
      /\ op.kind \in {"update", "restart", "dispose"}
  BY DEF OpType, Settings
<1>2. Returned(op) = IF op.kind = "restart" THEN r ELSE u
  BY DEF Returned
<1> HIDE DEF g
<1>3. r \in OpType /\ r.at = "notify" /\ r.kind = "restart"
  BY IdleIs, PlacesAre DEF OpType
<1>4. /\ u \in OpType /\ u.at = "next" /\ u.kind = op.kind /\ u.todo = op.todo
      /\ u.goal = g /\ u.after = "next"
  BY <1>1, IdleIs, PlacesAre DEF OpType
<1> HIDE DEF r, u
<1>5. GoodOp(r) /\ GoodOp(u)
  BY <1>1, <1>3, <1>4 DEF GoodOp
<1> QED BY <1>1, <1>2, <1>3, <1>4, <1>5

LEMMA ClosingIs ==
  ASSUME NEW op, Deletable(op)
  PROVE  LET w == [op EXCEPT !.at = "closing"] IN
         /\ w \in OpType /\ GoodOp(w) /\ w.at = "closing" /\ w.kind = op.kind
         /\ w.server = op.server /\ w.todo = op.todo /\ w.goal = op.goal
         /\ w.after = op.after
<1> DEFINE w == [op EXCEPT !.at = "closing"]
<1>1. /\ w \in OpType /\ w.at = "closing" /\ w.kind = op.kind
      /\ w.server = op.server /\ w.todo = op.todo /\ w.goal = op.goal
      /\ w.after = op.after
  BY PlacesAre DEF Deletable, OpType
<1> HIDE DEF w
<1>2. GoodOp(w)
  BY <1>1 DEF Deletable, GoodOp
<1> QED BY <1>1, <1>2 DEF w

LEMMA DeletedIs ==
  ASSUME NEW op, Deletable(op)
  PROVE  /\ Deleted(op) \in OpType /\ GoodOp(Deleted(op)) /\ Deleted(op).kind = op.kind
         /\ \/ op.after # "starting" /\ Deleted(op) = Returned(op)
            \/ /\ op.after = "starting" /\ Deleted(op).at = "starting"
               /\ Deleted(op).server = op.server /\ Deleted(op).goal = op.goal
               /\ Deleted(op).todo = op.todo
<1>1. CASE op.after = "starting"
  <2> DEFINE w == [op EXCEPT !.at = "starting"]
  <2>1. /\ w \in OpType /\ w.at = "starting" /\ w.kind = op.kind
        /\ w.server = op.server /\ w.todo = op.todo /\ w.goal = op.goal
        /\ w.after = op.after /\ Deleted(op) = w
    BY <1>1, PlacesAre DEF Deletable, OpType, Deleted
  <2> HIDE DEF w
  <2>2. GoodOp(w)
    BY <1>1, <2>1 DEF Deletable, GoodOp
  <2> QED BY <1>1, <2>1, <2>2
<1>2. CASE op.after # "starting"
  <2>1. Deleted(op) = Returned(op) /\ op \in OpType /\ op.kind # "none"
    BY <1>2 DEF Deleted, Deletable
  <2> QED BY <1>2, <2>1, ReturnedIs
<1> QED BY <1>1, <1>2

LEMMA TypesGive ==
  ASSUME HTypes
  PROVE  /\ Len(made) \in Nat /\ DOMAIN made = Ids
         /\ \A i \in Ids : made[i] \in MadeType
         /\ \A o \in Slots : /\ ops[o] \in OpType /\ GoodOp(ops[o])
                             /\ ops[o].at = "handshake" => ops[o].id \in Ids
<1>1. Len(made) \in Nat /\ DOMAIN made = Ids
  BY LenProperties DEF HTypes, Ids
<1>2. \A i \in Ids : made[i] \in MadeType
  BY ElementOfSeq DEF HTypes, Ids
<1> QED BY <1>1, <1>2 DEF HTypes

\* A change of connections that are there makes none.
LEMMA SameIds ==
  ASSUME HTypes, made' \in [Ids -> MadeType]
  PROVE  made' \in Seq(MadeType) /\ Ids' = Ids /\ Len(made') = Len(made)
<1>1. Len(made) \in Nat
  BY TypesGive
<1>2. made' \in Seq(MadeType)
  BY <1>1, SeqDef DEF Ids
<1>3. Len(made') = Len(made)
  BY <1>1, <1>2, LenProperties DEF Ids
<1> QED BY <1>2, <1>3 DEF Ids

(* A change of connections that are there: servers and configurations      *)
(* stay, and a process only comes nearer to its end.                       *)
Changes ==
  /\ made' \in [Ids -> MadeType]
  /\ \A i \in Ids :
       /\ made'[i].server = made[i].server /\ made'[i].config = made[i].config
       /\ made'[i].process = "running" => made[i].process = "running"
       /\ made[i].process = "gone" => made'[i].process = "gone"

LEMMA NothingChanges == ASSUME HTypes, made' = made PROVE Changes
<1>1. made \in [Ids -> MadeType]
  BY TypesGive, LenProperties DEF HTypes, Ids
<1> QED BY <1>1 DEF Changes

\* The status of a connection is written.
LEMMA StatusChanges ==
  ASSUME HTypes, NEW f, NEW status \in {"connecting", "connected", "disconnected"},
         made' = Status(f, status)
  PROVE  /\ Changes /\ \A i \in Ids : made'[i].process = made[i].process
         /\ \A i \in Ids : /\ made'[i].status = IF i = f THEN status ELSE made[i].status
                           /\ i # f => made'[i].byEvent = made[i].byEvent
<1>1. /\ DOMAIN made = Ids /\ \A i \in Ids : made[i] \in MadeType
      /\ made \in [Ids -> MadeType]
  BY TypesGive, LenProperties DEF HTypes, Ids
<1>2. made' = [i \in Ids |-> IF i = f
                  THEN [made[i] EXCEPT !.status = status, !.byEvent = FALSE] ELSE made[i]]
  BY <1>1 DEF Status
<1>3. ASSUME NEW i \in Ids
      PROVE  /\ made'[i] \in MadeType /\ made'[i].server = made[i].server
             /\ made'[i].config = made[i].config /\ made'[i].process = made[i].process
             /\ made'[i].status = IF i = f THEN status ELSE made[i].status
             /\ i # f => made'[i].byEvent = made[i].byEvent
  <2>1. CASE i = f
    <3>1. made'[i] = [made[i] EXCEPT !.status = status, !.byEvent = FALSE]
      BY <1>2, <2>1
    <3> QED BY <1>1, <2>1, <3>1 DEF MadeType
  <2>2. CASE i # f
    <3>1. made'[i] = made[i]
      BY <1>2, <2>2
    <3> QED BY <1>1, <2>2, <3>1
  <2> QED BY <2>1, <2>2
<1>4. made' \in [Ids -> MadeType]
  BY <1>2, <1>3
<1> QED BY <1>3, <1>4 DEF Changes

\* The connection found under a name is disconnected, after m.
LEMMA DisconnectedChanges ==
  ASSUME HTypes, NEW s, NEW m \in [Ids -> MadeType], NEW event \in BOOLEAN,
         made' = Disconnected(m, s, event),
         \A i \in Ids : /\ m[i].server = made[i].server /\ m[i].config = made[i].config
                        /\ m[i].process = "running" => made[i].process = "running"
                        /\ made[i].process = "gone" => m[i].process = "gone"
  PROVE  /\ Changes
         /\ \A i \in Ids : /\ made'[i].process = m[i].process
                           /\ made'[i].status = IF IsFound(i, s) THEN "disconnected"
                                                ELSE m[i].status
                           /\ made'[i].byEvent = IF IsFound(i, s) THEN event
                                                 ELSE m[i].byEvent
<1>1. ASSUME NEW i \in Ids
      PROVE  /\ made'[i] \in MadeType /\ made'[i].server = m[i].server
             /\ made'[i].config = m[i].config /\ made'[i].process = m[i].process
             /\ made'[i].status = IF IsFound(i, s) THEN "disconnected" ELSE m[i].status
             /\ made'[i].byEvent = IF IsFound(i, s) THEN event ELSE m[i].byEvent
  <2>1. m[i] \in MadeType
    OBVIOUS
  <2>2. made'[i] = IF IsFound(i, s)
                  THEN [m[i] EXCEPT !.status = "disconnected", !.byEvent = event]
                  ELSE m[i]
    BY DEF Disconnected
  <2> QED BY <2>1, <2>2 DEF MadeType
<1>2. made' \in [Ids -> MadeType]
  BY <1>1 DEF Disconnected
<1> QED BY <1>1, <1>2 DEF Changes

(* A process ends, in one way or the other.                                *)
Ended(f, process) == [made EXCEPT ![f].process = process]

LEMMA ProcessEnds ==
  ASSUME HTypes, NEW f \in Ids, NEW process \in {"closed", "gone"}
  PROVE  LET m == Ended(f, process) IN
         /\ m \in [Ids -> MadeType]
         /\ \A i \in Ids :
              /\ m[i].server = made[i].server /\ m[i].config = made[i].config
              /\ m[i].process = IF i = f THEN process ELSE made[i].process
              /\ m[i].status = made[i].status /\ m[i].byEvent = made[i].byEvent
<1> DEFINE m == Ended(f, process)
<1>1. /\ DOMAIN made = Ids /\ \A i \in Ids : made[i] \in MadeType
      /\ made \in [Ids -> MadeType]
  BY TypesGive, LenProperties DEF HTypes, Ids
<1>2. m = [i \in Ids |-> IF i = f THEN [made[i] EXCEPT !.process = process] ELSE made[i]]
  BY <1>1 DEF Ended
<1> HIDE DEF m
<1>3. ASSUME NEW i \in Ids
      PROVE  /\ m[i] \in MadeType /\ m[i].server = made[i].server
             /\ m[i].config = made[i].config /\ m[i].status = made[i].status
             /\ m[i].byEvent = made[i].byEvent
             /\ m[i].process = IF i = f THEN process ELSE made[i].process
  BY <1>1, <1>2 DEF MadeType
<1>4. m \in [Ids -> MadeType]
  BY <1>2, <1>3
<1> QED BY <1>3, <1>4 DEF m

\* deleteConnection closes what it has found.
LEMMA DeletesIs ==
  ASSUME HTypes, NEW o, NEW op, Deletable(op), Deletes(o, op)
  PROVE  /\ Changes
         /\ \A i \in Ids : /\ made'[i].status = made[i].status
                           /\ made'[i].byEvent = made[i].byEvent
                           /\ made'[i].process = "gone" => made[i].process = "gone"
                           /\ i \in OfServer(op.server) => made'[i].process # "running"
         /\ \/ OfServer(op.server) = {} /\ GoesOn(o, Deleted(op))
            \/ GoesOn(o, [op EXCEPT !.at = "closing"])
<1>1. \A i \in Ids : made[i] \in MadeType
  BY TypesGive
<1>2. made' = [i \in Ids |->
        IF i \in OfServer(op.server) /\ made[i].process = "running"
        THEN [made[i] EXCEPT !.process = "closed"] ELSE made[i]]
  BY DEF Deletes
<1>3. ASSUME NEW i \in Ids
      PROVE  /\ made'[i] \in MadeType /\ made'[i].server = made[i].server
             /\ made'[i].config = made[i].config /\ made'[i].status = made[i].status
             /\ made'[i].byEvent = made[i].byEvent
             /\ made'[i].process = "running" => made[i].process = "running"
             /\ made'[i].process = "gone" <=> made[i].process = "gone"
             /\ i \in OfServer(op.server) => made'[i].process # "running"
  BY <1>1, <1>2 DEF MadeType
<1>4. made' \in [Ids -> MadeType]
  BY <1>2, <1>3
<1>5. \/ OfServer(op.server) = {} /\ GoesOn(o, Deleted(op))
      \/ GoesOn(o, [op EXCEPT !.at = "closing"])
  BY DEF Deletes
<1> QED BY <1>3, <1>4, <1>5 DEF Changes

\* An operation goes on with w.
LEMMA OpMoves ==
  ASSUME HTypes, NEW o \in Slots, NEW w \in OpType, GoodOp(w), GoesOn(o, w),
         Ids \subseteq Ids', w.at = "handshake" => w.id \in Ids'
  PROVE  /\ ops' \in [Slots -> OpType]
         /\ \A q \in Slots : ops'[q] = IF q = o THEN w ELSE ops[q]
         /\ \A q \in Slots : /\ GoodOp(ops'[q])
                             /\ ops'[q].at = "handshake" => ops'[q].id \in Ids'
         /\ tangled' \subseteq Servers /\ tangled \subseteq tangled'
         /\ overlapped' \in BOOLEAN
<1>1. ops \in [Slots -> OpType] /\ ops' = [ops EXCEPT ![o] = w]
  BY DEF HTypes, GoesOn
<1>2. /\ ops' \in [Slots -> OpType]
      /\ \A q \in Slots : ops'[q] = IF q = o THEN w ELSE ops[q]
  BY <1>1
<1>3. \A q \in Slots : /\ GoodOp(ops'[q])
                       /\ ops'[q].at = "handshake" => ops'[q].id \in Ids'
  BY <1>2 DEF HTypes
<1>4. WorksOn(w) \subseteq Servers
  BY DEF WorksOn, GoodOp
<1>5. tangled' \subseteq Servers /\ tangled \subseteq tangled'
  BY <1>4 DEF GoesOn, HTypes
<1>6. overlapped' \in BOOLEAN
  BY DEF GoesOn
<1> QED BY <1>2, <1>3, <1>5, <1>6

\* A step that starts no connection.
LEMMA ChangesKeepTypes ==
  ASSUME HTypes, NEW o \in Slots, NEW w \in OpType, GoodOp(w), GoesOn(o, w),
         w.at # "handshake", Changes, connections' \subseteq connections,
         isConnecting' \in BOOLEAN, isDisposed' \in BOOLEAN,
         wanted' \in Settings, broken' \in BOOLEAN
  PROVE  HTypes'
<1>1. made' \in Seq(MadeType) /\ Ids' = Ids
  BY SameIds DEF Changes
<1>2. /\ ops' \in [Slots -> OpType]
      /\ \A q \in Slots : /\ GoodOp(ops'[q])
                          /\ ops'[q].at = "handshake" => ops'[q].id \in Ids'
      /\ tangled' \subseteq Servers /\ overlapped' \in BOOLEAN
  BY <1>1, OpMoves
<1>3. connections' \subseteq Ids'
  BY <1>1 DEF HTypes
<1> QED BY <1>1, <1>2, <1>3 DEF HTypes

-----------------------------------------------------------------------------
(* What the steps do.                                                      *)

LEMMA ClosedIs ==
  ASSUME HTypes, NEW o \in Slots, Closed(o)
  PROVE  /\ Deletable(ops[o]) /\ GoesOn(o, Deleted(ops[o])) /\ Changes
         /\ ops[o].at = "closing" /\ made' = made
         /\ connections' = connections \ OfServer(ops[o].server)
         /\ UNCHANGED <<isConnecting, isDisposed, wanted, broken>>
<1>1. ops[o] \in OpType /\ GoodOp(ops[o])
  BY TypesGive
<1>2. ops[o].at = "closing" /\ made' = made
  BY DEF Closed
<1>3. Deletable(ops[o])
  BY <1>1, <1>2 DEF Deletable, GoodOp
<1> QED BY <1>2, <1>3, NothingChanges DEF Closed

LEMMA StartsIs ==
  ASSUME HTypes, NEW o \in Slots, Starts(o)
  PROVE  LET n == Len(made) + 1
             w == [ops[o] EXCEPT !.at = "handshake", !.id = n]
             new == [server |-> ops[o].server, config |-> ops[o].goal[ops[o].server],
                     status |-> "connecting", process |-> "running",
                     byEvent |-> FALSE] IN
         /\ w \in OpType /\ GoodOp(w) /\ GoesOn(o, w) /\ w.at = "handshake"
         /\ w.id = n /\ w.kind = ops[o].kind /\ w.server = ops[o].server
         /\ w.todo = ops[o].todo /\ w.goal = ops[o].goal
         /\ ops[o].at = "starting" /\ ops[o].kind \in {"update", "restart"}
         /\ ops[o].server \in Servers
         /\ made' \in Seq(MadeType) /\ Ids' = Ids \cup {n} /\ n \notin Ids
         /\ \A i \in Ids : i < n /\ made'[i] = made[i]
         /\ made'[n] = new /\ connections' = connections \cup {n}
         /\ UNCHANGED <<isConnecting, isDisposed, wanted, broken>>
<1> DEFINE n == Len(made) + 1
           w == [ops[o] EXCEPT !.at = "handshake", !.id = n]
           new == [server |-> ops[o].server, config |-> ops[o].goal[ops[o].server],
                   status |-> "connecting", process |-> "running",
                   byEvent |-> FALSE]
<1>1. /\ ops[o] \in OpType /\ GoodOp(ops[o]) /\ Len(made) \in Nat
      /\ made \in Seq(MadeType)
  BY TypesGive DEF HTypes
<1>2. /\ ops[o].at = "starting" /\ made' = Append(made, new) /\ GoesOn(o, w)
      /\ connections' = connections \cup {n}
      /\ UNCHANGED <<isConnecting, isDisposed, wanted, broken>>
  BY DEF Starts
<1>3. /\ ops[o].kind \in {"update", "restart"} /\ ops[o].server \in Servers
      /\ ops[o].goal[ops[o].server] \in Configs
  BY <1>1, <1>2 DEF GoodOp, OpType
<1>4. n \in Nat
  BY <1>1
<1>5. new \in MadeType
  BY <1>3 DEF MadeType
<1> HIDE DEF new
<1>6. /\ made' \in Seq(MadeType) /\ Len(made') = n
      /\ \A i \in 1..Len(made) : made'[i] = made[i]
      /\ made'[n] = new
  BY <1>1, <1>2, <1>5, AppendProperties
<1>7. /\ Ids' = Ids \cup {n} /\ n \notin Ids /\ \A i \in Ids : i < n /\ made'[i] = made[i]
  BY <1>1, <1>6 DEF Ids
<1> HIDE DEF n
<1>8. /\ w \in OpType /\ w.at = "handshake" /\ w.id = n
      /\ w.kind = ops[o].kind /\ w.server = ops[o].server
      /\ w.todo = ops[o].todo /\ w.goal = ops[o].goal
  BY <1>1, <1>4, PlacesAre DEF OpType
<1> HIDE DEF w
<1>9. GoodOp(w)
  BY <1>3, <1>8 DEF GoodOp
<1> QED BY <1>2, <1>3, <1>6, <1>7, <1>8, <1>9 DEF new, n, w

LEMMA StartFailsIs ==
  ASSUME HTypes, NEW o \in Slots, StartFails(o)
  PROVE  /\ ops[o] \in OpType /\ ops[o].kind # "none" /\ GoesOn(o, Returned(ops[o]))
         /\ ops[o].at = "starting" /\ connections' = connections /\ Changes
         /\ \A i \in Ids : /\ made'[i].process = made[i].process
                           /\ made'[i].status = IF IsFound(i, ops[o].server)
                                                THEN "disconnected" ELSE made[i].status
                           /\ IsFound(i, ops[o].server) \/ made'[i].byEvent = made[i].byEvent
         /\ UNCHANGED <<isConnecting, isDisposed, wanted, broken>>
<1>1. ops[o] \in OpType /\ GoodOp(ops[o]) /\ ops[o].at = "starting"
  BY TypesGive DEF StartFails
<1>2. ops[o].kind # "none"
  BY <1>1 DEF GoodOp
<1>3. made \in [Ids -> MadeType]
  BY NothingChanges, TypesGive, LenProperties DEF HTypes, Ids
<1>4. made' = Disconnected(made, ops[o].server, FALSE)
  BY DEF StartFails
<1>5. /\ Changes
      /\ \A i \in Ids : /\ made'[i].process = made[i].process
                        /\ made'[i].status = IF IsFound(i, ops[o].server)
                                             THEN "disconnected" ELSE made[i].status
                        /\ IsFound(i, ops[o].server) \/ made'[i].byEvent = made[i].byEvent
  BY <1>3, <1>4, DisconnectedChanges
<1> QED BY <1>1, <1>2, <1>5 DEF StartFails

LEMMA HandshakeIs ==
  ASSUME HTypes, NEW o \in Slots, Handshake(o)
  PROVE  /\ ops[o] \in OpType /\ ops[o].kind # "none" /\ GoesOn(o, Returned(ops[o]))
         /\ ops[o].at = "handshake" /\ ops[o].id \in Ids
         /\ connections' = connections /\ Changes
         /\ made[ops[o].id].process = "running"
         /\ \A i \in Ids : /\ made'[i].process = made[i].process
                           /\ made'[i].status = IF i = ops[o].id THEN "connected"
                                                ELSE made[i].status
                           /\ i # ops[o].id => made'[i].byEvent = made[i].byEvent
         /\ UNCHANGED <<isConnecting, isDisposed, wanted, broken>>
<1>1. /\ ops[o] \in OpType /\ GoodOp(ops[o]) /\ ops[o].at = "handshake"
      /\ ops[o].id \in Ids
  BY TypesGive DEF Handshake
<1>2. ops[o].kind # "none"
  BY <1>1 DEF GoodOp
<1>3. made' = Status(ops[o].id, "connected")
  BY DEF Handshake
<1> QED BY <1>1, <1>2, <1>3, StatusChanges DEF Handshake

LEMMA HandshakeFailsIs ==
  ASSUME HTypes, NEW o \in Slots, HandshakeFails(o)
  PROVE  /\ ops[o] \in OpType /\ ops[o].kind # "none" /\ GoesOn(o, Returned(ops[o]))
         /\ ops[o].at = "handshake" /\ ops[o].id \in Ids
         /\ connections' = connections /\ Changes
         /\ made'[ops[o].id].process # "running"
         /\ \A i \in Ids : /\ i # ops[o].id => made'[i].process = made[i].process
                           /\ made'[i].process = "gone" => made[i].process = "gone"
                           /\ made'[i].status = IF IsFound(i, ops[o].server)
                                                THEN "disconnected" ELSE made[i].status
                           /\ IsFound(i, ops[o].server) \/ made'[i].byEvent = made[i].byEvent
         /\ UNCHANGED <<isConnecting, isDisposed, wanted, broken>>
<1> DEFINE f == ops[o].id
           ended == Ended(f, "closed")
<1>1. /\ ops[o] \in OpType /\ GoodOp(ops[o]) /\ ops[o].at = "handshake"
      /\ f \in Ids
  BY TypesGive DEF HandshakeFails
<1>2. ops[o].kind # "none"
  BY <1>1 DEF GoodOp
<1>3. made \in [Ids -> MadeType] /\ made[f] \in MadeType
  BY <1>1, TypesGive, LenProperties DEF HTypes, Ids
<1>4. PICK m \in [Ids -> MadeType] :
        /\ made' = Disconnected(m, ops[o].server, FALSE)
        /\ m[f].process # "running"
        /\ \A i \in Ids :
             /\ m[i].server = made[i].server /\ m[i].config = made[i].config
             /\ i # f => m[i].process = made[i].process
             /\ m[i].process = "running" => made[i].process = "running"
             /\ m[i].process = "gone" <=> made[i].process = "gone"
             /\ m[i].status = made[i].status /\ m[i].byEvent = made[i].byEvent
  <2>1. CASE made[f].process = "running"
    <3>1. made' = Disconnected(ended, ops[o].server, FALSE)
      BY <2>1 DEF HandshakeFails, Ended
    <3>3. /\ ended \in [Ids -> MadeType]
          /\ \A i \in Ids :
               /\ ended[i].server = made[i].server /\ ended[i].config = made[i].config
               /\ ended[i].process = IF i = f THEN "closed" ELSE made[i].process
               /\ ended[i].status = made[i].status /\ ended[i].byEvent = made[i].byEvent
      BY <1>1, ProcessEnds
    <3> HIDE DEF ended
    <3>4. /\ ended[f].process # "running"
          /\ \A i \in Ids :
               /\ i # f => ended[i].process = made[i].process
               /\ ended[i].process = "running" => made[i].process = "running"
               /\ ended[i].process = "gone" <=> made[i].process = "gone"
      BY <1>1, <2>1, <3>3
    <3> QED BY <3>1, <3>3, <3>4, Zenon
  <2>2. CASE made[f].process # "running"
    <3>1. made' = Disconnected(made, ops[o].server, FALSE)
      BY <2>2 DEF HandshakeFails
    <3> QED BY <1>3, <2>2, <3>1
  <2> QED BY <2>1, <2>2
<1>5. /\ Changes
      /\ \A i \in Ids : /\ made'[i].process = m[i].process
                        /\ made'[i].status = IF IsFound(i, ops[o].server)
                                             THEN "disconnected" ELSE m[i].status
                        /\ IsFound(i, ops[o].server) \/ made'[i].byEvent = m[i].byEvent
  BY <1>4, DisconnectedChanges
<1>6. GoesOn(o, Returned(ops[o])) /\ connections' = connections
      /\ UNCHANGED <<isConnecting, isDisposed, wanted, broken>>
  BY DEF HandshakeFails
<1>7. \A i \in Ids : /\ i # ops[o].id => made'[i].process = made[i].process
                     /\ made'[i].process = "gone" => made[i].process = "gone"
                     /\ made'[i].status = IF IsFound(i, ops[o].server)
                                          THEN "disconnected" ELSE made[i].status
  BY <1>4, <1>5
<1>8. \A i \in Ids : IsFound(i, ops[o].server) \/ made'[i].byEvent = made[i].byEvent
  BY <1>4, <1>5, Zenon
<1>9. made'[ops[o].id].process # "running"
  BY <1>1, <1>4, <1>5
<1> QED BY <1>1, <1>2, <1>5, <1>6, <1>7, <1>8, <1>9

LEMMA UpdateServerIs ==
  ASSUME HTypes, NEW o \in Slots, NEW s \in Servers, UpdateServer(o, s)
  PROVE  /\ ops[o].at = "next" /\ ops[o].kind = "update" /\ s \in ops[o].todo
         /\ ops[o] \in OpType
         /\ connections' = connections
         /\ UNCHANGED <<isConnecting, isDisposed, wanted, broken>>
         /\ \E op \in OpType :
              /\ op.kind = "update" /\ op.server = s /\ op.todo = ops[o].todo \ {s}
              /\ op.goal = ops[o].goal
              /\ \/ Deletable(op) /\ Deletes(o, op)
                 \/ /\ GoesOn(o, Returned(op)) /\ made' = made
                    /\ \/ op.goal[s] = Invalid
                       \/ \E f \in Ids : IsFound(f, s) /\ op.goal[s] = made[f].config
<1> DEFINE op == [ops[o] EXCEPT !.todo = @ \ {s}, !.server = s]
           x == [op EXCEPT !.after = "next"]
           y == [op EXCEPT !.after = "starting"]
<1>1. /\ ops[o] \in OpType /\ ops[o].at = "next" /\ ops[o].kind = "update"
      /\ s \in ops[o].todo
  BY TypesGive DEF UpdateServer
<1>2. /\ op \in OpType /\ op.kind = "update" /\ op.server = s
      /\ op.todo = ops[o].todo \ {s} /\ op.goal = ops[o].goal
  BY <1>1 DEF OpType
<1>3. \/ op.goal[s] = Absent /\ Deletes(o, x)
      \/ op.goal[s] \in Configs /\ Deletes(o, y)
      \/ /\ \/ op.goal[s] = Invalid
            \/ \E f \in Ids : IsFound(f, s) /\ op.goal[s] = made[f].config
         /\ GoesOn(o, Returned(op)) /\ made' = made
  BY DEF UpdateServer
<1>5. /\ connections' = connections
      /\ UNCHANGED <<isConnecting, isDisposed, wanted, broken>>
  BY DEF UpdateServer
<1> HIDE DEF op
<1>6. /\ x \in OpType /\ x.kind = "update" /\ x.server = s /\ x.after = "next"
      /\ x.todo = ops[o].todo \ {s} /\ x.goal = ops[o].goal
  BY <1>2 DEF OpType
<1>7. /\ y \in OpType /\ y.kind = "update" /\ y.server = s /\ y.after = "starting"
      /\ y.todo = ops[o].todo \ {s} /\ y.goal = ops[o].goal
  BY <1>2 DEF OpType
<1> HIDE DEF x, y
<1>8. Deletable(x)
  BY <1>6 DEF Deletable
<1>9. op.goal[s] \in Configs => Deletable(y)
  BY <1>2, <1>7 DEF Deletable
<1>10. CASE Deletes(o, x)
  BY <1>1, <1>5, <1>6, <1>8, <1>10
<1>11. CASE op.goal[s] \in Configs /\ Deletes(o, y)
  BY <1>1, <1>5, <1>7, <1>9, <1>11
<1>12. CASE /\ \/ op.goal[s] = Invalid
               \/ \E f \in Ids : IsFound(f, s) /\ op.goal[s] = made[f].config
            /\ GoesOn(o, Returned(op)) /\ made' = made
  BY <1>1, <1>2, <1>5, <1>12
<1> QED BY <1>3, <1>10, <1>11, <1>12

LEMMA DisposeServerIs ==
  ASSUME HTypes, NEW o \in Slots, NEW s \in Servers, DisposeServer(o, s)
  PROVE  /\ ops[o].at = "next" /\ ops[o].kind = "dispose" /\ s \in ops[o].todo
         /\ ops[o] \in OpType
         /\ connections' = connections
         /\ UNCHANGED <<isConnecting, isDisposed, wanted, broken>>
         /\ \E op : /\ Deletable(op) /\ Deletes(o, op) /\ op.kind = "dispose"
                    /\ op.server = s /\ op.todo = ops[o].todo \ {s}
                    /\ op.after = "next"
<1> DEFINE op == [ops[o] EXCEPT !.todo = @ \ {s}, !.server = s, !.after = "next"]
<1>1. /\ ops[o] \in OpType /\ ops[o].at = "next" /\ ops[o].kind = "dispose"
      /\ s \in ops[o].todo /\ Deletes(o, op)
  BY TypesGive DEF DisposeServer
<1>2. /\ op \in OpType /\ op.kind = "dispose" /\ op.server = s
      /\ op.todo = ops[o].todo \ {s} /\ op.after = "next"
  BY <1>1 DEF OpType
<1> HIDE DEF op
<1>3. Deletable(op)
  BY <1>2 DEF Deletable
<1> QED BY <1>1, <1>2, <1>3 DEF DisposeServer

LEMMA RestartDelayedIs ==
  ASSUME HTypes, NEW o \in Slots, RestartDelayed(o)
  PROVE  /\ ops[o].at = "delay" /\ ops[o].kind = "restart" /\ ops[o].after = "starting"
         /\ Deletable(ops[o]) /\ Deletes(o, ops[o]) /\ connections' = connections
         /\ UNCHANGED <<isConnecting, isDisposed, wanted, broken>>
<1>1. /\ ops[o] \in OpType /\ GoodOp(ops[o]) /\ ops[o].at = "delay"
  BY TypesGive DEF RestartDelayed
<1>2. Deletable(ops[o]) /\ ops[o].kind = "restart" /\ ops[o].after = "starting"
  BY <1>1 DEF GoodOp, Deletable
<1> QED BY <1>1, <1>2 DEF RestartDelayed

LEMMA UpdatedIs ==
  ASSUME HTypes, NEW o \in Slots, Updated(o)
  PROVE  /\ ops[o].at = "next" /\ ops[o].kind = "update" /\ ops[o].todo = {}
         /\ made' = made /\ connections' = connections
         /\ \E w \in OpType : /\ GoodOp(w) /\ GoesOn(o, w) /\ w.at = "notify"
                              /\ w.kind = "update" /\ w.todo = {}
         /\ UNCHANGED <<isConnecting, isDisposed, wanted, broken>>
<1> DEFINE w == [ops[o] EXCEPT !.at = "notify"]
<1>1. /\ ops[o] \in OpType /\ ops[o].at = "next" /\ ops[o].kind = "update"
      /\ ops[o].todo = {} /\ GoesOn(o, w)
  BY TypesGive DEF Updated
<1>2. w \in OpType /\ w.at = "notify" /\ w.kind = "update" /\ w.todo = {}
  BY <1>1, PlacesAre DEF OpType
<1> HIDE DEF w
<1>3. GoodOp(w)
  BY <1>2 DEF GoodOp
<1> QED BY <1>1, <1>2, <1>3 DEF Updated

LEMMA UpdateBegins ==
  ASSUME HTypes, NEW o \in Slots, UpdateServerConnections(o)
  PROVE  /\ ops[o].at = "idle" /\ made' = made /\ connections' = connections
         /\ wanted' \in Settings /\ isConnecting'
         /\ \E w \in OpType :
              /\ GoodOp(w) /\ GoesOn(o, w) /\ w.at = "next" /\ w.kind = "update"
              /\ w.goal = wanted'
              /\ \A s \in Servers : OfServer(s) # {} => s \in w.todo
         /\ UNCHANGED <<isDisposed, broken>>
<1>1. PICK settings \in Settings :
        /\ GoesOn(o, [Idle EXCEPT !.at = "next", !.kind = "update",
                       !.goal = settings,
                       !.todo = {s \in Servers :
                                   settings[s] # Absent \/ OfServer(s) # {}}])
        /\ wanted' = settings
  BY DEF UpdateServerConnections
<1> DEFINE todo == {s \in Servers : settings[s] # Absent \/ OfServer(s) # {}}
           w == [Idle EXCEPT !.at = "next", !.kind = "update",
                   !.goal = settings, !.todo = todo]
<1>2. todo \in SUBSET Servers /\ \A s \in Servers : OfServer(s) # {} => s \in todo
  OBVIOUS
<1> HIDE DEF todo
<1>3. /\ w \in OpType /\ w.at = "next" /\ w.kind = "update" /\ w.goal = settings
      /\ w.todo = todo
  BY <1>2, IdleIs, PlacesAre DEF OpType
<1> HIDE DEF w
<1>4. GoodOp(w)
  BY <1>3 DEF GoodOp
<1>5. GoesOn(o, w)
  BY <1>1 DEF w, todo
<1>6. /\ ops[o].at = "idle" /\ made' = made /\ connections' = connections
      /\ UNCHANGED <<isDisposed, broken>>
  BY DEF UpdateServerConnections, CanBegin
<1>7. isConnecting'
  BY DEF UpdateServerConnections
<1> QED BY <1>1, <1>2, <1>3, <1>4, <1>5, <1>6, <1>7

LEMMA RestartBegins ==
  ASSUME HTypes, NEW o \in Slots, NEW s \in Servers, RestartConnection(o, s)
  PROVE  /\ ops[o].at = "idle" /\ connections' = connections /\ isConnecting'
         /\ Changes
         /\ \A i \in Ids : /\ made'[i].process = made[i].process
                           /\ \/ /\ made'[i].status = made[i].status
                                 /\ made'[i].byEvent = made[i].byEvent
                              \/ made'[i].status = "connecting"
         /\ \E w \in OpType :
              /\ GoodOp(w) /\ GoesOn(o, w)
              /\ \/ w = Done /\ broken'
                 \/ w.kind = "restart" /\ w.at = "notify" /\ broken' = broken
                 \/ /\ w.kind = "restart" /\ w.at = "delay" /\ w.server = s
                    /\ \E f \in OfServer(s) : w.goal[s] = made[f].config
                    /\ broken' = broken
         /\ UNCHANGED <<isDisposed, wanted>>
<1> DEFINE op == [Idle EXCEPT !.kind = "restart", !.server = s]
           x == [op EXCEPT !.at = "notify"]
<1>1. /\ ops[o].at = "idle" /\ connections' = connections
      /\ UNCHANGED <<isDisposed, wanted>>
  BY DEF RestartConnection, CanBegin
<1>2. isConnecting'
  BY DEF RestartConnection
<1>3. op \in OpType /\ op.kind = "restart" /\ op.server = s /\ op.goal \in Settings
  BY IdleIs DEF OpType
<1>4. \/ OfServer(s) = {} /\ GoesOn(o, x) /\ made' = made /\ broken' = broken
      \/ GoesOn(o, Done) /\ made' = made /\ broken' = TRUE
      \/ \E f \in Ids :
           /\ IsFound(f, s)
           /\ GoesOn(o, [op EXCEPT !.at = "delay", !.after = "starting",
                           !.goal = [@ EXCEPT ![s] = made[f].config]])
           /\ made' = Status(f, "connecting") /\ broken' = broken
  BY DEF RestartConnection
<1> HIDE DEF op
<1>5. CASE OfServer(s) = {} /\ GoesOn(o, x) /\ made' = made /\ broken' = broken
  <2>1. x \in OpType /\ x.at = "notify" /\ x.kind = "restart"
    BY <1>3, PlacesAre DEF OpType
  <2> HIDE DEF x
  <2>2. GoodOp(x)
    BY <2>1 DEF GoodOp
  <2> QED BY <1>1, <1>2, <1>5, <2>1, <2>2, NothingChanges
<1>6. ASSUME NEW f \in Ids, IsFound(f, s), made' = Status(f, "connecting"),
             GoesOn(o, [op EXCEPT !.at = "delay", !.after = "starting",
                           !.goal = [@ EXCEPT ![s] = made[f].config]])
      PROVE  \E w \in OpType :
              /\ GoodOp(w) /\ GoesOn(o, w) /\ w.kind = "restart"
              /\ w.at = "delay" /\ w.server = s
              /\ \E i \in OfServer(s) : w.goal[s] = made[i].config
  <2> DEFINE g == [op.goal EXCEPT ![s] = made[f].config]
             w == [op EXCEPT !.at = "delay", !.after = "starting", !.goal = g]
  <2>1. made[f].config \in Configs
    BY TypesGive DEF MadeType
  <2>2. g \in Settings /\ g[s] = made[f].config
    BY <1>3, <2>1 DEF Settings
  <2>3. GoesOn(o, w)
    BY <1>3, <1>6 DEF OpType
  <2> HIDE DEF g
  <2>4. /\ w \in OpType /\ w.at = "delay" /\ w.kind = "restart" /\ w.server = s
        /\ w.goal = g /\ w.after = "starting"
    BY <1>3, <2>2, PlacesAre DEF OpType
  <2> HIDE DEF w
  <2>5. GoodOp(w)
    BY <2>1, <2>2, <2>4 DEF GoodOp
  <2> QED BY <1>6, <2>2, <2>3, <2>4, <2>5 DEF IsFound
<1>7. ASSUME NEW f \in Ids, made' = Status(f, "connecting")
      PROVE  /\ Changes
             /\ \A i \in Ids : /\ made'[i].process = made[i].process
                               /\ \/ /\ made'[i].status = made[i].status
                                     /\ made'[i].byEvent = made[i].byEvent
                                  \/ made'[i].status = "connecting"
  BY <1>7, StatusChanges
<1>8. CASE GoesOn(o, Done) /\ made' = made /\ broken' = TRUE
  BY <1>1, <1>2, <1>8, DoneIs, NothingChanges
<1> QED BY <1>1, <1>2, <1>4, <1>5, <1>6, <1>7, <1>8

LEMMA DisposeBegins ==
  ASSUME HTypes, NEW o \in Slots, Dispose(o)
  PROVE  /\ ops[o].at = "idle" /\ made' = made /\ connections' = connections
         /\ isDisposed'
         /\ \E w \in OpType :
              /\ GoodOp(w) /\ GoesOn(o, w) /\ w.at = "next" /\ w.kind = "dispose"
              /\ \A i \in connections : made[i].server \in w.todo
         /\ UNCHANGED <<isConnecting, wanted, broken>>
<1> DEFINE todo == {made[i].server : i \in connections}
           w == [Idle EXCEPT !.at = "next", !.kind = "dispose", !.todo = todo]
<1>1. todo \in SUBSET Servers /\ \A i \in connections : made[i].server \in todo
  BY TypesGive DEF HTypes, MadeType
<1>2. GoesOn(o, w) /\ ops[o].at = "idle" /\ made' = made /\ connections' = connections
      /\ UNCHANGED <<isConnecting, wanted, broken>>
  BY DEF Dispose, CanBegin
<1> HIDE DEF todo
<1>3. /\ w \in OpType /\ w.at = "next" /\ w.kind = "dispose" /\ w.todo = todo
      /\ w.after = "next"
  BY <1>1, IdleIs, PlacesAre DEF OpType
<1> HIDE DEF w
<1>4. GoodOp(w)
  BY <1>3 DEF GoodOp
<1>5. isDisposed'
  BY DEF Dispose
<1> QED BY <1>1, <1>2, <1>3, <1>4, <1>5

\* The end of a process, and the events of it.
LEMMA ProcessIs ==
  ASSUME HTypes, NEW f \in Ids, Dies(f) \/ OnClose(f) \/ OnError(f)
  PROVE  /\ Changes
         /\ UNCHANGED <<connections, isConnecting, isDisposed, ops, history>>
         /\ \/ \A i \in Ids :
                 /\ made'[i].status = made[i].status /\ made'[i].byEvent = made[i].byEvent
                 /\ made'[i].process = "gone" => made[i].process = "gone"
            \/ \A i \in Ids :
                 /\ i # f => made'[i].process = made[i].process
                 /\ made'[i].status = IF IsFound(i, made[f].server) THEN "disconnected"
                                      ELSE made[i].status
                 /\ made'[i].byEvent = IF IsFound(i, made[f].server) THEN TRUE
                                       ELSE made[i].byEvent
<1> DEFINE closed == Ended(f, "closed")
           gone == Ended(f, "gone")
<1>1. UNCHANGED <<connections, isConnecting, isDisposed, ops, history>>
  BY DEF Dies, OnClose, OnError
<1>2. CASE Dies(f)
  <2>1. made[f].process = "running" /\ made' = closed
    BY <1>2 DEF Dies, Ended
  <2>2. /\ made' \in [Ids -> MadeType]
        /\ \A i \in Ids :
             /\ made'[i].server = made[i].server /\ made'[i].config = made[i].config
             /\ made'[i].process = IF i = f THEN "closed" ELSE made[i].process
             /\ made'[i].status = made[i].status /\ made'[i].byEvent = made[i].byEvent
    BY <2>1, ProcessEnds
  <2> QED BY <1>1, <2>1, <2>2 DEF Changes
<1>3. ASSUME NEW m \in [Ids -> MadeType], made' = Disconnected(m, made[f].server, TRUE),
             \A i \in Ids :
               /\ m[i].server = made[i].server /\ m[i].config = made[i].config
               /\ i # f => m[i].process = made[i].process
               /\ m[i].process = "running" => made[i].process = "running"
               /\ made[i].process = "gone" => m[i].process = "gone"
               /\ m[i].status = made[i].status /\ m[i].byEvent = made[i].byEvent
      PROVE  /\ Changes
             /\ \A i \in Ids :
                  /\ i # f => made'[i].process = made[i].process
                  /\ made'[i].status = IF IsFound(i, made[f].server) THEN "disconnected"
                                       ELSE made[i].status
                  /\ made'[i].byEvent = IF IsFound(i, made[f].server) THEN TRUE
                                        ELSE made[i].byEvent
  <2>1. /\ Changes
        /\ \A i \in Ids : /\ made'[i].process = m[i].process
                          /\ made'[i].status = IF IsFound(i, made[f].server)
                                               THEN "disconnected" ELSE m[i].status
                          /\ made'[i].byEvent = IF IsFound(i, made[f].server) THEN TRUE
                                                ELSE m[i].byEvent
    BY <1>3, DisconnectedChanges
  <2> QED BY <1>3, <2>1
<1>4. CASE OnClose(f)
  <2>1. made[f].process = "closed" /\ made' = Disconnected(gone, made[f].server, TRUE)
    BY <1>4 DEF OnClose, Ended
  <2>2. /\ gone \in [Ids -> MadeType]
        /\ \A i \in Ids :
             /\ gone[i].server = made[i].server /\ gone[i].config = made[i].config
             /\ gone[i].process = IF i = f THEN "gone" ELSE made[i].process
             /\ gone[i].status = made[i].status /\ gone[i].byEvent = made[i].byEvent
    BY ProcessEnds
  <2> HIDE DEF gone
  <2> QED BY <1>1, <1>3, <2>1, <2>2
<1>5. CASE OnError(f)
  <2>1. made' = Disconnected(made, made[f].server, TRUE)
    BY <1>5 DEF OnError
  <2>2. made \in [Ids -> MadeType]
    BY TypesGive, LenProperties DEF HTypes, Ids
  <2> QED BY <1>1, <1>3, <2>1, <2>2
<1> QED BY <1>2, <1>4, <1>5

LEMMA ServersWorkedOn ==
  ASSUME NEW op \in OpType, GoodOp(op)
  PROVE  /\ WorksOn(op) \subseteq Servers
         /\ op.kind = "dispose" => WorksOn(op) = Servers
         /\ op.at \in {"closing", "starting", "handshake"} => op.server \in WorksOn(op)
         /\ op.at \in {"idle", "done"} => WorksOn(op) = {}
BY DEF WorksOn, GoodOp

\* The initial state.
LEMMA HTypesInit == Init => HTypes
<1> SUFFICES ASSUME Init PROVE HTypes
  OBVIOUS
<1>1. Idle \in OpType /\ GoodOp(Idle) /\ Idle.at = "idle"
  BY IdleIs DEF GoodOp
<1>2. made \in Seq(MadeType)
  BY EmptySeq DEF Init
<1>3. wanted \in Settings
  BY DEF Init, Settings
<1>4. ops \in [Slots -> OpType] /\ \A o \in Slots : ops[o] = Idle
  BY <1>1 DEF Init
<1> HIDE DEF Idle
<1>5. \A o \in Slots : /\ GoodOp(ops[o])
                       /\ ops[o].at = "handshake" => ops[o].id \in Ids
  BY <1>1, <1>4
<1> QED BY <1>2, <1>3, <1>4, <1>5 DEF Init, HTypes

LEMMA HTypesStep ==
  ASSUME HTypes, NEW o \in Slots, Begin(o) \/ Continue(o)
  PROVE  HTypes'
<1>1. /\ connections \subseteq Ids /\ wanted \in Settings /\ tangled \subseteq Servers
      /\ isConnecting \in BOOLEAN /\ isDisposed \in BOOLEAN /\ broken \in BOOLEAN
  BY DEF HTypes
<1>2. CASE Closed(o)
  <2>1. /\ Deletable(ops[o]) /\ GoesOn(o, Deleted(ops[o])) /\ Changes
        /\ connections' \subseteq connections
        /\ UNCHANGED <<isConnecting, isDisposed, wanted, broken>>
    BY <1>2, ClosedIs
  <2>2. /\ Deleted(ops[o]) \in OpType /\ GoodOp(Deleted(ops[o]))
        /\ Deleted(ops[o]).at # "handshake"
    BY <2>1, DeletedIs, ReturnedIs DEF Deletable
  <2> QED BY <1>1, <2>1, <2>2, ChangesKeepTypes
<1>3. CASE Starts(o)
  <2> DEFINE n == Len(made) + 1
             w == [ops[o] EXCEPT !.at = "handshake", !.id = n]
  <2>1. /\ w \in OpType /\ GoodOp(w) /\ GoesOn(o, w) /\ w.id = n
        /\ made' \in Seq(MadeType) /\ Ids' = Ids \cup {n}
        /\ connections' = connections \cup {n}
        /\ UNCHANGED <<isConnecting, isDisposed, wanted, broken>>
    BY <1>3, StartsIs
  <2> HIDE DEF n, w
  <2>2. Ids \subseteq Ids' /\ w.id \in Ids' /\ connections' \subseteq Ids'
    BY <1>1, <2>1
  <2>3. /\ ops' \in [Slots -> OpType]
        /\ \A q \in Slots : /\ GoodOp(ops'[q])
                            /\ ops'[q].at = "handshake" => ops'[q].id \in Ids'
        /\ tangled' \subseteq Servers /\ overlapped' \in BOOLEAN
    BY <2>1, <2>2, OpMoves
  <2> QED BY <1>1, <2>1, <2>2, <2>3 DEF HTypes
<1>4. CASE StartFails(o) \/ Handshake(o) \/ HandshakeFails(o)
  <2>1. /\ ops[o] \in OpType /\ ops[o].kind # "none" /\ GoesOn(o, Returned(ops[o]))
        /\ Changes /\ connections' = connections
        /\ UNCHANGED <<isConnecting, isDisposed, wanted, broken>>
    BY <1>4, StartFailsIs, HandshakeIs, HandshakeFailsIs
  <2>2. /\ Returned(ops[o]) \in OpType /\ GoodOp(Returned(ops[o]))
        /\ Returned(ops[o]).at # "handshake"
    BY <2>1, ReturnedIs
  <2> QED BY <1>1, <2>1, <2>2, ChangesKeepTypes
<1>5. ASSUME NEW op, Deletable(op), Deletes(o, op), connections' = connections,
             UNCHANGED <<isConnecting, isDisposed, wanted, broken>>
      PROVE  HTypes'
  <2>1. Changes
    BY <1>5, DeletesIs
  <2>2. PICK w : w \in {Deleted(op), [op EXCEPT !.at = "closing"]} /\ GoesOn(o, w)
    BY <1>5, DeletesIs
  <2>3. w \in OpType /\ GoodOp(w) /\ w.at # "handshake"
    BY <1>5, <2>2, ClosingIs, DeletedIs, ReturnedIs DEF Deletable
  <2> QED BY <1>1, <1>5, <2>1, <2>2, <2>3, ChangesKeepTypes
<1>6. CASE RestartDelayed(o)
  BY <1>5, <1>6, RestartDelayedIs
<1>7. ASSUME NEW s \in Servers, DisposeServer(o, s)
      PROVE  HTypes'
  BY <1>5, <1>7, DisposeServerIs
<1>8. ASSUME NEW s \in Servers, UpdateServer(o, s)
      PROVE  HTypes'
  <2>1. /\ connections' = connections
        /\ UNCHANGED <<isConnecting, isDisposed, wanted, broken>>
    BY <1>8, UpdateServerIs
  <2>2. PICK op \in OpType : /\ op.kind = "update"
                             /\ \/ Deletable(op) /\ Deletes(o, op)
                                \/ GoesOn(o, Returned(op)) /\ made' = made
    BY <1>8, UpdateServerIs
  <2>3. /\ Returned(op) \in OpType /\ GoodOp(Returned(op))
        /\ Returned(op).at # "handshake"
    BY <2>2, ReturnedIs
  <2>4. CASE Deletable(op) /\ Deletes(o, op)
    BY <1>5, <2>1, <2>4
  <2>5. CASE GoesOn(o, Returned(op)) /\ made' = made
    BY <1>1, <2>1, <2>3, <2>5, NothingChanges, ChangesKeepTypes
  <2> QED BY <2>2, <2>4, <2>5
<1>9. CASE Updated(o)
  <2>1. PICK w \in OpType : GoodOp(w) /\ GoesOn(o, w) /\ w.at = "notify"
    BY <1>9, UpdatedIs
  <2>2. made' = made /\ connections' = connections
        /\ UNCHANGED <<isConnecting, isDisposed, wanted, broken>>
    BY <1>9, UpdatedIs
  <2> QED BY <1>1, <2>1, <2>2, NothingChanges, ChangesKeepTypes
<1>10. CASE Notified(o) \/ NotifyFails(o) \/ Disposed(o)
  <2>1. /\ GoesOn(o, Done) /\ made' = made /\ connections' \subseteq connections
        /\ isConnecting' \in BOOLEAN /\ isDisposed' = isDisposed
        /\ wanted' = wanted /\ broken' \in BOOLEAN
    BY <1>1, <1>10 DEF Notified, NotifyFails, Disposed
  <2> QED BY <1>1, <2>1, DoneIs, NothingChanges, ChangesKeepTypes
<1>11. CASE UpdateServerConnections(o)
  <2>1. PICK w \in OpType : GoodOp(w) /\ GoesOn(o, w) /\ w.at = "next"
    BY <1>11, UpdateBegins
  <2>2. /\ made' = made /\ connections' = connections /\ wanted' \in Settings
        /\ isConnecting' = TRUE /\ UNCHANGED <<isDisposed, broken>>
    BY <1>11, UpdateBegins DEF UpdateServerConnections
  <2> QED BY <1>1, <2>1, <2>2, NothingChanges, ChangesKeepTypes
<1>12. CASE Dispose(o)
  <2>1. PICK w \in OpType : GoodOp(w) /\ GoesOn(o, w) /\ w.at = "next"
    BY <1>12, DisposeBegins
  <2>2. /\ made' = made /\ connections' = connections /\ isDisposed' = TRUE
        /\ UNCHANGED <<isConnecting, wanted, broken>>
    BY <1>12 DEF Dispose
  <2> QED BY <1>1, <2>1, <2>2, NothingChanges, ChangesKeepTypes
<1>13. ASSUME NEW s \in Servers, RestartConnection(o, s)
       PROVE  HTypes'
  <2>1. PICK w \in OpType : GoodOp(w) /\ GoesOn(o, w) /\ w.at # "handshake"
    BY <1>13, RestartBegins, DoneIs
  <2>2. Changes /\ connections' = connections
    BY <1>13, RestartBegins
  <2>3. isConnecting' = TRUE /\ UNCHANGED <<isDisposed, wanted>> /\ broken' \in BOOLEAN
    BY <1>1, <1>13 DEF RestartConnection
  <2> QED BY <1>1, <2>1, <2>2, <2>3, ChangesKeepTypes
<1> QED
  BY <1>2, <1>3, <1>4, <1>6, <1>7, <1>8, <1>9, <1>10, <1>11, <1>12, <1>13
  DEF Begin, Continue

LEMMA HTypesProcess ==
  ASSUME HTypes, NEW f \in Ids, Dies(f) \/ OnClose(f) \/ OnError(f)
  PROVE  HTypes'
<1>1. made' \in [Ids -> MadeType]
  BY ProcessIs DEF Changes
<1>2. UNCHANGED <<connections, isConnecting, isDisposed, ops, history>>
  BY ProcessIs
<1>3. made' \in Seq(MadeType) /\ Ids' = Ids
  BY <1>1, SameIds
<1> QED BY <1>2, <1>3 DEF HTypes, history

LEMMA HTypesStutters == ASSUME HTypes, UNCHANGED vars PROVE HTypes'
BY DEF HTypes, vars, Ids

LEMMA TypesImplyTypeOK == HTypes => TypeOK
BY TypesGive DEF HTypes, TypeOK, MadeType, OpType

-----------------------------------------------------------------------------
(* The operations among themselves.                                        *)

\* What two operations work on is tangled.
Apart == \A o, q \in Slots : o # q =>
           WorksOn(ops[o]) \cap WorksOn(ops[q]) \subseteq tangled

\* As long as no two were under way at once, one is at most.
Alone == ~overlapped => /\ tangled = {}
                        /\ \A o, q \in Busy : o = q

\* Every step of an operation is one of GoesOn.
LEMMA StepGoesOn ==
  ASSUME HTypes, NEW o \in Slots, Begin(o) \/ Continue(o)
  PROVE  \E w : GoesOn(o, w)
BY DEF Begin, Continue, Closed, Starts, StartFails, Handshake, HandshakeFails,
       Updated, RestartDelayed, Notified, NotifyFails, Disposed, UpdateServer,
       DisposeServer, Deletes, UpdateServerConnections, Dispose, RestartConnection

LEMMA GoesOnKeepsApart ==
  ASSUME HTypes, Apart, NEW o \in Slots, NEW w, GoesOn(o, w)
  PROVE  Apart'
<1>1. \A q \in Slots : ops'[q] = IF q = o THEN w ELSE ops[q]
  BY DEF GoesOn, HTypes
<1>2. tangled' = tangled \cup (WorksOn(w) \cap UNION {WorksOn(ops[q]) : q \in Slots \ {o}})
  BY DEF GoesOn
<1>3. ASSUME NEW p \in Slots, NEW q \in Slots, p # q, NEW s,
             s \in WorksOn(ops'[p]), s \in WorksOn(ops'[q])
      PROVE  s \in tangled'
  <2>1. CASE p = o
    <3>1. s \in WorksOn(w) /\ s \in WorksOn(ops[q]) /\ q \in Slots \ {o}
      BY <1>1, <1>3, <2>1
    <3> QED BY <1>2, <3>1
  <2>2. CASE q = o
    <3>1. s \in WorksOn(w) /\ s \in WorksOn(ops[p]) /\ p \in Slots \ {o}
      BY <1>1, <1>3, <2>2
    <3> QED BY <1>2, <3>1
  <2>3. CASE p # o /\ q # o
    <3>1. s \in WorksOn(ops[p]) /\ s \in WorksOn(ops[q])
      BY <1>1, <1>3, <2>3
    <3> QED BY <1>2, <1>3, <3>1 DEF Apart
  <2> QED BY <2>1, <2>2, <2>3
<1>4. \A op : WorksOn(op)' = WorksOn(op)
  BY DEF WorksOn
<1>5. \A p, q \in Slots : p # q => WorksOn(ops'[p]) \cap WorksOn(ops'[q]) \subseteq tangled'
  BY <1>3
<1> QED BY <1>5 DEF Apart, WorksOn

LEMMA GoesOnKeepsAlone ==
  ASSUME HTypes, Alone, NEW o \in Slots, NEW w, GoesOn(o, w)
  PROVE  /\ Alone'
         /\ ~overlapped' => /\ ~overlapped /\ tangled = {} /\ Busy \subseteq {o}
                            /\ Busy' = IF w.at \in {"idle", "done"} THEN {} ELSE {o}
<1>1. \A q \in Slots : ops'[q] = IF q = o THEN w ELSE ops[q]
  BY DEF GoesOn, HTypes
<1>2. /\ tangled' = tangled \cup (WorksOn(w) \cap UNION {WorksOn(ops[q]) : q \in Slots \ {o}})
      /\ overlapped' = (overlapped \/ Busy \ {o} # {})
  BY DEF GoesOn
<1>3. CASE overlapped'
  BY <1>3 DEF Alone
<1>4. CASE ~overlapped'
  <2>1. ~overlapped /\ tangled = {} /\ Busy \subseteq {o}
    BY <1>2, <1>4 DEF Alone
  <2>2. \A q \in Slots \ {o} : WorksOn(ops[q]) = {}
    BY <2>1, TypesGive, ServersWorkedOn DEF Busy
  <2>3. tangled' = {}
    BY <1>2, <2>1, <2>2
  <2>4. Busy' = IF w.at \in {"idle", "done"} THEN {} ELSE {o}
    BY <1>1, <2>1 DEF Busy
  <2> QED BY <2>1, <2>3, <2>4 DEF Alone
<1> QED BY <1>3, <1>4

(* isConnecting is up if and only if an update or a restart is under way:  *)
(* a step of an operation that keeps its kind and is not its last leaves   *)
(* it as it is.                                                            *)
LEMMA KindStays ==
  ASSUME HTypes, Alone, ConnectingIsShown, NEW o \in Slots, NEW w, GoesOn(o, w),
         isConnecting' = isConnecting, broken' = broken,
         ops[o].kind # "none" , w.kind = ops[o].kind, GoodOp(ops[o]), GoodOp(w)
  PROVE  ConnectingIsShown'
<1> SUFFICES ASSUME ~overlapped', ~broken'
             PROVE  isConnecting' <=> \E q \in Busy' : ops'[q].kind # "dispose"
  BY DEF ConnectingIsShown
<1>1. ops'[o] = w
  BY DEF GoesOn, HTypes
<1>2. ~overlapped /\ Busy \subseteq {o}
  BY GoesOnKeepsAlone
<1>3. Busy' = IF w.at \in {"idle", "done"} THEN {} ELSE {o}
  BY GoesOnKeepsAlone
<1>4. Busy = {o}
  BY <1>2 DEF Busy, GoodOp
<1>5. Busy' = {o}
  BY <1>3 DEF GoodOp
<1>6. isConnecting <=> ops[o].kind # "dispose"
  BY <1>2, <1>4 DEF ConnectingIsShown
<1> QED BY <1>1, <1>5, <1>6

LEMMA ConnectingShownStep ==
  ASSUME HTypes, Alone, ConnectingIsShown, NEW o \in Slots, Begin(o) \/ Continue(o)
  PROVE  ConnectingIsShown'
<1>1. ops[o] \in OpType /\ GoodOp(ops[o])
  BY TypesGive
<1>2. CASE Closed(o)
  <2>1. Deletable(ops[o]) /\ GoesOn(o, Deleted(ops[o])) /\ ops[o].kind # "none"
    BY <1>2, ClosedIs DEF Deletable
  <2>2. isConnecting' = isConnecting /\ broken' = broken
    BY <1>2 DEF Closed
  <2>3. GoodOp(Deleted(ops[o])) /\ Deleted(ops[o]).kind = ops[o].kind
    BY <2>1, DeletedIs
  <2> QED BY <1>1, <2>1, <2>2, <2>3, KindStays
<1>3. CASE Starts(o)
  <2> DEFINE w == [ops[o] EXCEPT !.at = "handshake", !.id = Len(made) + 1]
  <2>1. GoodOp(w) /\ GoesOn(o, w) /\ w.kind = ops[o].kind /\ ops[o].kind # "none"
    BY <1>3, StartsIs
  <2>2. isConnecting' = isConnecting /\ broken' = broken
    BY <1>3 DEF Starts
  <2> HIDE DEF w
  <2> QED BY <1>1, <2>1, <2>2, KindStays
<1>4. CASE StartFails(o) \/ Handshake(o) \/ HandshakeFails(o)
  <2>1. ops[o].kind # "none" /\ GoesOn(o, Returned(ops[o]))
    BY <1>4, StartFailsIs, HandshakeIs, HandshakeFailsIs
  <2>2. GoodOp(Returned(ops[o])) /\ Returned(ops[o]).kind = ops[o].kind
    BY <1>1, <2>1, ReturnedIs
  <2>3. isConnecting' = isConnecting /\ broken' = broken
    BY <1>4 DEF StartFails, Handshake, HandshakeFails
  <2> QED BY <1>1, <2>1, <2>2, <2>3, KindStays
<1>5. ASSUME NEW op, Deletable(op), Deletes(o, op), op.kind = ops[o].kind,
             isConnecting' = isConnecting, broken' = broken
      PROVE  ConnectingIsShown'
  <2>1. PICK w : w \in {Deleted(op), [op EXCEPT !.at = "closing"]} /\ GoesOn(o, w)
    BY <1>5, DeletesIs
  <2>2. GoodOp(w) /\ w.kind = op.kind /\ op.kind # "none"
    BY <1>5, <2>1, ClosingIs, DeletedIs DEF Deletable
  <2> QED BY <1>1, <1>5, <2>1, <2>2, KindStays
<1>6. CASE RestartDelayed(o)
  <2>1. isConnecting' = isConnecting /\ broken' = broken
    BY <1>6 DEF RestartDelayed
  <2> QED BY <1>5, <1>6, <2>1, RestartDelayedIs
<1>7. ASSUME NEW s \in Servers, DisposeServer(o, s)
      PROVE  ConnectingIsShown'
  <2>1. isConnecting' = isConnecting /\ broken' = broken /\ ops[o].kind = "dispose"
    BY <1>7 DEF DisposeServer
  <2> QED BY <1>5, <1>7, <2>1, DisposeServerIs
<1>8. ASSUME NEW s \in Servers, UpdateServer(o, s)
      PROVE  ConnectingIsShown'
  <2>1. isConnecting' = isConnecting /\ broken' = broken /\ ops[o].kind = "update"
    BY <1>8 DEF UpdateServer
  <2>2. PICK op \in OpType : /\ op.kind = "update"
                             /\ \/ Deletable(op) /\ Deletes(o, op)
                                \/ GoesOn(o, Returned(op)) /\ made' = made
    BY <1>8, UpdateServerIs
  <2>3. CASE Deletable(op) /\ Deletes(o, op)
    BY <1>5, <2>1, <2>2, <2>3
  <2>4. CASE GoesOn(o, Returned(op))
    <3>1. GoodOp(Returned(op)) /\ Returned(op).kind = "update"
      BY <2>2, ReturnedIs
    <3> QED BY <1>1, <2>1, <2>4, <3>1, KindStays
  <2> QED BY <2>2, <2>3, <2>4
<1>9. CASE Updated(o)
  <2>1. PICK w \in OpType : GoodOp(w) /\ GoesOn(o, w) /\ w.kind = "update"
    BY <1>9, UpdatedIs
  <2>2. isConnecting' = isConnecting /\ broken' = broken /\ ops[o].kind = "update"
    BY <1>9 DEF Updated
  <2> QED BY <1>1, <2>1, <2>2, KindStays
<1>10. CASE Notified(o) \/ NotifyFails(o)
  <2>1. GoesOn(o, Done) /\ (isConnecting' = FALSE \/ broken')
    BY <1>10 DEF Notified, NotifyFails
  <2>2. ~overlapped' => Busy' = {}
    BY <2>1, GoesOnKeepsAlone, DoneIs
  <2> QED BY <2>1, <2>2 DEF ConnectingIsShown
<1>11. CASE Disposed(o)
  <2>1. GoesOn(o, Done) /\ isConnecting' = isConnecting /\ broken' = broken
        /\ ops[o].kind = "dispose"
    BY <1>11 DEF Disposed
  <2>2. ~overlapped' => Busy' = {} /\ Busy \subseteq {o} /\ ~overlapped
    BY <2>1, GoesOnKeepsAlone, DoneIs
  <2> QED BY <2>1, <2>2 DEF ConnectingIsShown
<1>12. ASSUME NEW w, GoodOp(w), GoesOn(o, w), w.kind \in {"update", "restart"},
              isConnecting' = TRUE
       PROVE  ConnectingIsShown'
  <2>1. ~overlapped' => Busy' = {o}
    BY <1>12, GoesOnKeepsAlone DEF GoodOp
  <2>2. ops'[o] = w
    BY <1>12 DEF GoesOn, HTypes
  <2> QED BY <1>12, <2>1, <2>2 DEF ConnectingIsShown
<1>13. CASE UpdateServerConnections(o)
  <2>1. isConnecting' = TRUE
    BY <1>13 DEF UpdateServerConnections
  <2> QED BY <1>12, <1>13, <2>1, UpdateBegins
<1>14. ASSUME NEW s \in Servers, RestartConnection(o, s)
       PROVE  ConnectingIsShown'
  <2>1. isConnecting' = TRUE
    BY <1>14 DEF RestartConnection
  <2>2. CASE broken'
    BY <2>2 DEF ConnectingIsShown
  <2>3. CASE ~broken'
    <3>1. PICK w \in OpType : GoodOp(w) /\ GoesOn(o, w) /\ w.kind = "restart"
      BY <1>14, <2>3, RestartBegins
    <3> QED BY <1>12, <2>1, <3>1
  <2> QED BY <2>2, <2>3
<1>15. CASE Dispose(o)
  <2>1. PICK w \in OpType : GoodOp(w) /\ GoesOn(o, w) /\ w.kind = "dispose"
    BY <1>15, DisposeBegins
  <2>2. isConnecting' = isConnecting /\ broken' = broken /\ ops[o].at = "idle"
    BY <1>15 DEF Dispose, CanBegin
  <2>3. ops'[o] = w
    BY <2>1 DEF GoesOn, HTypes
  <2>4. ~overlapped' => /\ Busy = {} /\ ~overlapped
                        /\ \A q \in Busy' : ops'[q].kind = "dispose"
    BY <2>1, <2>2, <2>3, GoesOnKeepsAlone DEF Busy
  <2> QED BY <2>2, <2>4 DEF ConnectingIsShown
<1> QED
  BY <1>2, <1>3, <1>4, <1>6, <1>7, <1>8, <1>9, <1>10, <1>11, <1>13, <1>14, <1>15
  DEF Begin, Continue

-----------------------------------------------------------------------------
(* The connections.                                                        *)

\* What operation q, working on servers that are not tangled, counts on.
Holds(q) ==
  /\ ops[q].at = "starting" /\ ops[q].server \notin tangled =>
       OfServer(ops[q].server) = {}
  /\ ops[q].at = "closing" /\ ops[q].server \notin tangled =>
       \A i \in OfServer(ops[q].server) : made[i].process # "running"
  /\ ops[q].at = "handshake" /\ ops[q].server \notin tangled =>
       ops[q].id \in OfServer(ops[q].server)
  /\ ops[q].kind = "dispose" =>
       \A i \in connections : made[i].process = "running" =>
         made[i].server \in ops[q].todo \cup tangled

Conn ==
  /\ NoProcessLeaks /\ OneConnection /\ ConnectedIsAlive
  /\ DisconnectedIsDead /\ \A q \in Slots : Holds(q)

(* The step of operation o, which changes the list only by connections of  *)
(* servers it works on.                                                    *)
Touches(o) ==
  /\ tangled \subseteq tangled'
  /\ \A i \in Ids : /\ i \in Ids' /\ made'[i].server = made[i].server
                    /\ made'[i].process = "running" => made[i].process = "running"
  /\ \A i \in connections : i \in connections' \/ made[i].server \in WorksOn(ops[o])
  /\ \A i \in connections' : i \in connections \/ made'[i].server \in WorksOn(ops[o])

LEMMA OthersHold ==
  ASSUME HTypes, Apart, NEW o \in Slots, NEW q \in Slots, q # o, Touches(o), Holds(q),
         ops'[q] = ops[q]
  PROVE  Holds(q)'
<1> DEFINE op == ops[q]
<1>1. op \in OpType /\ GoodOp(op) /\ connections \subseteq Ids
  BY TypesGive DEF HTypes
<1>2. WorksOn(op) \cap WorksOn(ops[o]) \subseteq tangled
  BY DEF Apart
<1>3. \A i \in connections' : made'[i].server \in WorksOn(op) =>
        i \in connections \/ made'[i].server \in tangled'
  BY <1>2 DEF Touches
<1>4. \A i \in connections : made[i].server \in WorksOn(op) =>
        i \in connections' \/ made[i].server \in tangled'
  BY <1>2 DEF Touches
<1>5. \A i \in connections : /\ made'[i].server = made[i].server
                             /\ made'[i].process = "running" => made[i].process = "running"
  BY <1>1 DEF Touches
<1>6. /\ op.kind = "dispose" => WorksOn(op) = Servers
      /\ op.at \in {"closing", "starting", "handshake"} => op.server \in WorksOn(op)
  BY <1>1, ServersWorkedOn
<1>7. tangled \subseteq tangled'
  BY DEF Touches
<1>8. \A s : OfServer(s) = {i \in connections : made[i].server = s}
  BY DEF OfServer
<1>9. \A s : OfServer(s)' = {i \in connections' : made'[i].server = s}
  BY DEF OfServer
<1>10. op.at = "starting" /\ op.server \notin tangled' => OfServer(op.server)' = {}
  BY <1>3, <1>5, <1>6, <1>7, <1>8, <1>9 DEF Holds
<1>11. op.at = "closing" /\ op.server \notin tangled' =>
         \A i \in OfServer(op.server)' : made'[i].process # "running"
  BY <1>3, <1>5, <1>6, <1>7, <1>8, <1>9 DEF Holds
<1>12. op.at = "handshake" /\ op.server \notin tangled' => op.id \in OfServer(op.server)'
  BY <1>4, <1>5, <1>6, <1>7, <1>8, <1>9 DEF Holds
<1>13. op.kind = "dispose" =>
         \A i \in connections' : made'[i].process = "running" =>
           made'[i].server \in op.todo \cup tangled'
  <2> SUFFICES ASSUME op.kind = "dispose", NEW i \in connections',
                      made'[i].process = "running", made'[i].server \notin tangled'
               PROVE  made'[i].server \in op.todo
    OBVIOUS
  <2>1. i \in connections
    BY <1>6, ServersWorkedOn, TypesGive DEF Touches, Apart
  <2> QED BY <1>5, <1>7, <2>1 DEF Holds
<1> QED BY <1>9, <1>10, <1>11, <1>12, <1>13 DEF Holds, OfServer

\* The list is left as it is, and no connection made.
LEMMA ListKept ==
  ASSUME HTypes, NoProcessLeaks, OneConnection, Changes,
         connections' = connections, tangled \subseteq tangled'
  PROVE  NoProcessLeaks' /\ OneConnection'
<1>1. Ids' = Ids /\ connections \subseteq Ids
  BY SameIds DEF Changes, HTypes
<1>2. \A i \in Ids : /\ made'[i].server = made[i].server
                     /\ made'[i].process = "running" => made[i].process = "running"
  BY DEF Changes
<1>3. NoProcessLeaks'
  BY <1>1, <1>2 DEF NoProcessLeaks
<1>4. OneConnection'
  BY <1>1, <1>2 DEF OneConnection
<1> QED BY <1>3, <1>4

\* Nor is one shown as connected or as disconnected, nor a process gone.
LEMMA StatusesKept ==
  ASSUME HTypes, ConnectedIsAlive, DisconnectedIsDead, Changes,
         connections' \subseteq connections, tangled \subseteq tangled',
         \A i \in Ids : /\ \/ /\ made'[i].status = made[i].status
                              /\ made'[i].byEvent = made[i].byEvent
                           \/ made'[i].status = "connecting"
                        /\ made'[i].process = "gone" => made[i].process = "gone"
  PROVE  ConnectedIsAlive' /\ DisconnectedIsDead'
<1>1. Ids' = Ids /\ connections' \subseteq Ids
  BY SameIds DEF Changes, HTypes
<1>2. \A i \in Ids : /\ made'[i].server = made[i].server
                     /\ made'[i].process = "running" => made[i].process = "running"
  BY DEF Changes
<1>3. ConnectedIsAlive'
  BY <1>1, <1>2 DEF ConnectedIsAlive
<1>4. DisconnectedIsDead'
  BY <1>1, <1>2 DEF DisconnectedIsDead
<1> QED BY <1>3, <1>4

\* Connections are only taken from the list.
LEMMA ListCut ==
  ASSUME HTypes, OneConnection, Changes,
         connections' \subseteq connections, tangled \subseteq tangled'
  PROVE  OneConnection'
<1>1. \A i \in connections : made'[i].server = made[i].server
  BY DEF Changes, HTypes
<1> QED BY <1>1 DEF OneConnection

\* The connection found under a name is disconnected by an event.
LEMMA EventIsHeard ==
  ASSUME HTypes, Conn, NEW f \in Ids, Changes, connections' = connections,
         tangled' = tangled,
         \A i \in Ids :
           /\ i # f => made'[i].process = made[i].process
           /\ made'[i].status = IF IsFound(i, made[f].server) THEN "disconnected"
                                ELSE made[i].status
           /\ made'[i].byEvent = IF IsFound(i, made[f].server) THEN TRUE
                                 ELSE made[i].byEvent
  PROVE  ConnectedIsAlive' /\ DisconnectedIsDead'
<1> DEFINE s == made[f].server
<1>1. connections \subseteq Ids
  BY DEF HTypes
<1>2. \A i \in Ids : /\ made'[i].server = made[i].server
                     /\ made'[i].process = "running" => made[i].process = "running"
  BY DEF Changes
<1>3. ASSUME NEW i \in connections, made'[i].status = "connected",
             made'[i].process = "gone", made[i].server \notin tangled
      PROVE  FALSE
  <2>1. i \in Ids /\ made[i].status = "connected"
    BY <1>1, <1>3
  <2>2. i = f
    BY <1>3, <2>1 DEF Conn, ConnectedIsAlive
  <2>3. \A j \in OfServer(s) : i = j
    BY <1>3, <2>2 DEF Conn, OneConnection, OfServer
  <2>4. i \in Nat
    BY <2>1, TypesGive DEF Ids
  <2>5. IsFound(i, s)
    BY <2>2, <2>3, <2>4 DEF IsFound, OfServer
  <2> QED BY <1>3, <2>1, <2>5
<1>4. ConnectedIsAlive'
  BY <1>1, <1>2, <1>3 DEF ConnectedIsAlive
<1>5. DisconnectedIsDead'
  BY <1>1, <1>2 DEF Conn, DisconnectedIsDead
<1> QED BY <1>4, <1>5

LEMMA ConnProcess ==
  ASSUME HTypes, Conn, NEW f \in Ids, Dies(f) \/ OnClose(f) \/ OnError(f)
  PROVE  Conn'
<1>1. Changes /\ UNCHANGED <<connections, ops, tangled>>
  BY ProcessIs DEF history
<1>2. NoProcessLeaks' /\ OneConnection'
  BY <1>1, ListKept DEF Conn
<1>3. ConnectedIsAlive' /\ DisconnectedIsDead'
  BY <1>1, ProcessIs, StatusesKept, EventIsHeard DEF Conn
<1>4. \A i \in connections :
        /\ made'[i].server = made[i].server
        /\ made'[i].process = "running" => made[i].process = "running"
  BY <1>1 DEF Changes, HTypes
<1>5. ASSUME NEW q \in Slots PROVE Holds(q)'
  <2>1. Holds(q) /\ ops'[q] = ops[q]
    BY <1>1 DEF Conn
  <2>2. OfServer(ops[q].server)' = OfServer(ops[q].server)
    BY <1>1, <1>4 DEF OfServer
  <2>3. \A i \in OfServer(ops[q].server) : i \in connections
    BY DEF OfServer
  <2> QED BY <1>1, <1>4, <2>1, <2>2, <2>3 DEF Holds, OfServer
<1> QED BY <1>2, <1>3, <1>5 DEF Conn

\* The parts of Conn for a step of operation o that starts no connection.
LEMMA ConnFromParts ==
  ASSUME HTypes, Apart, Conn, NEW o \in Slots, NEW w \in OpType, GoodOp(w), GoesOn(o, w),
         Changes, connections' \subseteq connections,
         \A i \in connections : i \in connections' \/ made[i].server \in WorksOn(ops[o]),
         NoProcessLeaks', ConnectedIsAlive', DisconnectedIsDead', Holds(o)'
  PROVE  Conn'
<1>1. Ids' = Ids
  BY SameIds DEF Changes
<1>2. /\ tangled \subseteq tangled' /\ \A q \in Slots : q # o => ops'[q] = ops[q]
  BY DEF GoesOn, HTypes
<1>3. OneConnection'
  BY <1>2, ListCut DEF Conn
<1>4. Touches(o)
  BY <1>1, <1>2 DEF Touches, Changes
<1>5. ASSUME NEW q \in Slots PROVE Holds(q)'
  <2>1. CASE q = o
    BY <2>1
  <2>2. CASE q # o
    BY <1>2, <1>4, <2>2, OthersHold DEF Conn
  <2> QED BY <2>1, <2>2
<1> QED BY <1>3, <1>5 DEF Conn

\* Between its awaits an operation counts on nothing, a disposal apart.
LEMMA ReturnedHolds ==
  ASSUME HTypes, NEW o \in Slots, NEW w, GoesOn(o, w),
         w.at \in {"next", "notify", "delay", "done"}, w.kind # "dispose"
  PROVE  Holds(o)'
<1>1. ops'[o] = w
  BY DEF GoesOn, HTypes
<1> QED BY <1>1 DEF Holds

\* Operation o deletes on behalf of op.
LEMMA DeletesKeepsConn ==
  ASSUME HTypes, Apart, Conn, NEW o \in Slots, NEW op, Deletable(op), Deletes(o, op),
         connections' = connections, op.kind = ops[o].kind,
         op.kind = "dispose" => op.todo = ops[o].todo \ {op.server}
  PROVE  Conn'
<1>1. /\ Changes
      /\ \A i \in Ids : /\ made'[i].status = made[i].status
                        /\ made'[i].byEvent = made[i].byEvent
                        /\ made'[i].process = "gone" => made[i].process = "gone"
                        /\ i \in OfServer(op.server) => made'[i].process # "running"
  BY DeletesIs
<1>2. PICK w : /\ GoesOn(o, w)
               /\ \/ OfServer(op.server) = {} /\ w = Deleted(op)
                  \/ w = [op EXCEPT !.at = "closing"]
  BY DeletesIs
<1>3. w \in OpType /\ GoodOp(w) /\ w.kind = op.kind /\ w.at # "handshake"
  <2>1. CASE w = Deleted(op)
    BY <2>1, DeletedIs, ReturnedIs DEF Deletable
  <2>2. CASE w = [op EXCEPT !.at = "closing"]
    BY <2>2, ClosingIs
  <2> QED BY <1>2, <2>1, <2>2
<1>4. ops'[o] = w /\ tangled \subseteq tangled'
  BY <1>2 DEF GoesOn, HTypes
<1>5. NoProcessLeaks' /\ ConnectedIsAlive' /\ DisconnectedIsDead'
  BY <1>1, <1>4, ListKept, StatusesKept DEF Conn
<1>6. \A i \in connections : /\ i \in Ids /\ made'[i].server = made[i].server
                             /\ made'[i].process = "running" => made[i].process = "running"
  BY <1>1 DEF HTypes, Changes
<1>7. w.at = "starting" => OfServer(w.server)' = {}
  <2> SUFFICES ASSUME w.at = "starting" PROVE OfServer(w.server)' = {}
    OBVIOUS
  <2>1. OfServer(op.server) = {} /\ w.server = op.server
    <3>1. w # [op EXCEPT !.at = "closing"]
      BY ClosingIs
    <3>2. OfServer(op.server) = {} /\ w = Deleted(op)
      BY <1>2, <3>1
    <3>3. Returned(op).at # "starting"
      BY ReturnedIs DEF Deletable
    <3> QED BY <3>2, <3>3, DeletedIs
  <2> QED BY <1>6, <2>1 DEF OfServer
<1>8. w.at = "closing" => \A i \in connections' :
        made'[i].server = w.server => made'[i].process # "running"
  <2> SUFFICES ASSUME w.at = "closing", NEW i \in connections', made'[i].server = w.server
               PROVE  made'[i].process # "running"
    OBVIOUS
  <2>1. w.server = op.server
    <3>1. CASE w = Deleted(op)
      BY <3>1, DeletedIs, ReturnedIs DEF Deletable
    <3>2. CASE w = [op EXCEPT !.at = "closing"]
      BY <3>2, ClosingIs
    <3> QED BY <1>2, <3>1, <3>2
  <2>2. i \in OfServer(op.server)
    BY <1>6, <2>1 DEF OfServer
  <2> QED BY <1>1, <1>6, <2>2
<1>9. w.kind = "dispose" => \A i \in connections' : made'[i].process = "running" =>
        made'[i].server \in w.todo \cup tangled'
  <2> SUFFICES ASSUME w.kind = "dispose", NEW i \in connections',
                      made'[i].process = "running", made'[i].server \notin tangled'
               PROVE  made'[i].server \in w.todo
    OBVIOUS
  <2>1. op.kind = "dispose" /\ op.after # "starting" /\ op \in OpType
    BY <1>3 DEF Deletable
  <2>2. w.todo = op.todo
    <3>1. CASE w = Deleted(op)
      BY <2>1, <3>1, DeletedIs, ReturnedIs
    <3>2. CASE w = [op EXCEPT !.at = "closing"]
      BY <3>2, ClosingIs
    <3> QED BY <1>2, <3>1, <3>2
  <2>3. i \in connections /\ i \in Ids /\ made[i].process = "running"
        /\ made'[i].server = made[i].server
    BY <1>6
  <2>4. made[i].server \in ops[o].todo
    BY <1>4, <2>1, <2>3 DEF Conn, Holds
  <2>5. made[i].server # op.server
    BY <1>1, <2>3 DEF OfServer
  <2> QED BY <2>1, <2>2, <2>3, <2>4, <2>5
<1>10. Holds(o)'
  BY <1>3, <1>4, <1>7, <1>8, <1>9 DEF Holds, OfServer
<1> QED BY <1>1, <1>2, <1>3, <1>5, <1>10, ConnFromParts

\* A connection is made.
LEMMA StartsKeepsConn ==
  ASSUME HTypes, Apart, Conn, NEW o \in Slots, Starts(o)
  PROVE  Conn'
<1> DEFINE n == Len(made) + 1
           w == [ops[o] EXCEPT !.at = "handshake", !.id = n]
           s == ops[o].server
<1>1. /\ GoesOn(o, w) /\ w.at = "handshake" /\ w.id = n /\ w.server = s
      /\ w.kind \in {"update", "restart"} /\ ops[o].at = "starting"
      /\ Ids' = Ids \cup {n} /\ n \notin Ids
      /\ \A i \in Ids : i < n /\ made'[i] = made[i]
      /\ connections' = connections \cup {n}
      /\ made'[n].server = s /\ made'[n].status = "connecting"
      /\ made'[n].process = "running"
  <2>1. /\ GoesOn(o, w) /\ w.at = "handshake" /\ w.id = n /\ w.server = s
        /\ w.kind = ops[o].kind
    BY StartsIs
  <2> HIDE DEF w
  <2>2. /\ ops[o].kind \in {"update", "restart"} /\ ops[o].at = "starting"
        /\ Ids' = Ids \cup {n} /\ n \notin Ids
        /\ \A i \in Ids : i < n /\ made'[i] = made[i]
        /\ connections' = connections \cup {n}
    BY StartsIs
  <2>3. made'[n] = [server |-> s, config |-> ops[o].goal[s],
                    status |-> "connecting", process |-> "running",
                    byEvent |-> FALSE]
    BY StartsIs
  <2> QED BY <2>1, <2>2, <2>3
<1>2. n \in Nat /\ Ids = 1..(n - 1)
  BY TypesGive DEF Ids
<1> HIDE DEF n, w
<1>3. ops'[o] = w /\ tangled \subseteq tangled' /\ connections \subseteq Ids
      /\ \A q \in Slots : q # o => ops'[q] = ops[q]
  BY <1>1 DEF GoesOn, HTypes
<1>4. s \in tangled' \/ \A i \in connections : made[i].server # s
  BY <1>1, <1>3 DEF Conn, Holds, OfServer
<1>6. NoProcessLeaks'
  <2> SUFFICES ASSUME NEW i \in Ids', made'[i].process = "running"
               PROVE  i \in connections' \/ made'[i].server \in tangled'
    BY DEF NoProcessLeaks
  <2> QED BY <1>1, <1>3 DEF Conn, NoProcessLeaks
<1>7. OneConnection'
  <2> SUFFICES ASSUME NEW i \in connections', NEW j \in connections',
                      made'[i].server = made'[j].server, made'[i].server \notin tangled'
               PROVE  i = j
    BY DEF OneConnection
  <2>1. CASE i = n \/ j = n
    BY <1>1, <1>3, <1>4, <2>1
  <2>2. CASE i # n /\ j # n
    BY <1>1, <1>3, <2>2 DEF Conn, OneConnection
  <2> QED BY <2>1, <2>2
<1>8. ConnectedIsAlive'
  <2> SUFFICES ASSUME NEW i \in connections', made'[i].status = "connected",
                      made'[i].server \notin tangled'
               PROVE  made'[i].process # "gone"
    BY DEF ConnectedIsAlive
  <2> QED BY <1>1, <1>3 DEF Conn, ConnectedIsAlive
<1>9. DisconnectedIsDead'
  <2> SUFFICES ASSUME NEW i \in connections', made'[i].status = "disconnected",
                      made'[i].process = "running", made'[i].server \notin tangled'
               PROVE  made'[i].byEvent
    BY DEF DisconnectedIsDead
  <2> QED BY <1>1, <1>3 DEF Conn, DisconnectedIsDead
<1>10. Touches(o)
  <2>1. s \in WorksOn(ops[o])
    BY <1>1, TypesGive, ServersWorkedOn
  <2> QED BY <1>1, <1>3, <2>1 DEF Touches
<1>11. Holds(o)'
  <2>1. n \in connections' /\ made'[n].server = w.server
    BY <1>1
  <2> QED BY <1>1, <1>3, <2>1 DEF Holds, OfServer
<1>12. ASSUME NEW q \in Slots PROVE Holds(q)'
  <2>1. CASE q = o
    BY <1>11, <2>1
  <2>2. CASE q # o
    BY <1>3, <1>10, <2>2, OthersHold DEF Conn
  <2> QED BY <2>1, <2>2
<1> QED BY <1>6, <1>7, <1>8, <1>9, <1>12 DEF Conn

\* deleteConnection filters the list.
LEMMA ClosedKeepsConn ==
  ASSUME HTypes, Apart, Conn, NEW o \in Slots, Closed(o)
  PROVE  Conn'
<1> DEFINE op == ops[o]
           w == Deleted(op)
<1>1. /\ Deletable(op) /\ GoesOn(o, w) /\ Changes /\ op.at = "closing" /\ made' = made
      /\ connections' = connections \ OfServer(op.server)
  BY ClosedIs
<1>2. w \in OpType /\ GoodOp(w) /\ w.kind = op.kind /\ op \in OpType /\ GoodOp(op)
  BY <1>1, DeletedIs, TypesGive
<1>3. ops'[o] = w /\ tangled \subseteq tangled'
  BY <1>1 DEF GoesOn, HTypes
<1>4. Ids' = Ids /\ connections \subseteq Ids
  BY <1>1, SameIds DEF Changes, HTypes
<1>5. \A i \in connections : i \in connections' \/ made[i].server \in WorksOn(op)
  BY <1>1, <1>2, ServersWorkedOn DEF OfServer
<1>6. NoProcessLeaks'
  <2> SUFFICES ASSUME NEW i \in Ids, made[i].process = "running"
               PROVE  i \in connections' \/ made[i].server \in tangled'
    BY <1>1, <1>4 DEF NoProcessLeaks
  <2>1. i \in connections \/ made[i].server \in tangled
    BY DEF Conn, NoProcessLeaks
  <2>2. i \in OfServer(op.server) => made[i].server \in tangled
    BY <1>1 DEF Conn, Holds, OfServer
  <2> QED BY <1>1, <1>3, <2>1, <2>2
<1>7. ConnectedIsAlive' /\ DisconnectedIsDead'
  BY <1>1, <1>3, StatusesKept DEF Conn
<1>8. Holds(o)'
  <2>1. w.at \in {"starting", "next", "notify"}
    BY <1>1, DeletedIs, ReturnedIs DEF Deletable
  <2>2. w.at = "starting" => w.server = op.server
    BY <1>1, DeletedIs, ReturnedIs DEF Deletable
  <2>3. \A i \in connections' : made'[i].server # op.server
    BY <1>1 DEF OfServer
  <2>4. w.kind = "dispose" => \A i \in connections' : made'[i].process = "running" =>
          made'[i].server \in w.todo \cup tangled'
    <3> SUFFICES ASSUME w.kind = "dispose" PROVE
          \A i \in connections' : made'[i].process = "running" =>
            made'[i].server \in w.todo \cup tangled'
      OBVIOUS
    <3>1. op.kind = "dispose" /\ op.after # "starting"
      BY <1>1, <1>2 DEF Deletable
    <3>2. w.todo = op.todo
      BY <1>1, <1>2, <3>1, DeletedIs, ReturnedIs
    <3> QED BY <1>1, <1>3, <3>1, <3>2 DEF Conn, Holds
  <2> HIDE DEF w
  <2> QED BY <1>3, <2>1, <2>2, <2>3, <2>4 DEF Holds, OfServer
<1> QED BY <1>1, <1>2, <1>5, <1>6, <1>7, <1>8, ConnFromParts

\* A connection fails, or is made.
LEMMA ReturnsKeepsConn ==
  ASSUME HTypes, Apart, Conn, NEW o \in Slots,
         StartFails(o) \/ Handshake(o) \/ HandshakeFails(o)
  PROVE  Conn'
<1> DEFINE w == Returned(ops[o])
           s == ops[o].server
<1>1. /\ ops[o] \in OpType /\ ops[o].kind # "none" /\ GoesOn(o, w) /\ Changes
      /\ connections' = connections
  BY StartFailsIs, HandshakeIs, HandshakeFailsIs
<1>2. ops[o].at \in {"starting", "handshake"} /\ GoodOp(ops[o])
  BY TypesGive, StartFailsIs, HandshakeIs, HandshakeFailsIs
<1>3. /\ w \in OpType /\ GoodOp(w) /\ w.at \in {"next", "notify"}
      /\ w.kind # "dispose"
  BY <1>1, <1>2, ReturnedIs DEF GoodOp
<1> HIDE DEF w
<1>4. Ids' = Ids /\ connections \subseteq Ids /\ Len(made) \in Nat
      /\ tangled \subseteq tangled'
  BY <1>1, SameIds, TypesGive DEF Changes, HTypes, GoesOn
<1>5. NoProcessLeaks' /\ Holds(o)'
  BY <1>1, <1>3, <1>4, ListKept, ReturnedHolds DEF Conn
<1>6. \A i \in Ids : /\ made'[i].server = made[i].server
                     /\ made'[i].process = "running" => made[i].process = "running"
                     /\ made[i].process = "gone" => made'[i].process = "gone"
  BY <1>1 DEF Changes
<1>7. \A i \in Ids : made'[i].process = "gone" => made[i].process = "gone"
  BY StartFailsIs, HandshakeIs, HandshakeFailsIs
<1>8. \A i \in Ids : made'[i].status = "connected" =>
        made[i].status = "connected" \/ made'[i].process = "running"
  BY StartFailsIs, HandshakeIs, HandshakeFailsIs
<1>9. ConnectedIsAlive'
  BY <1>1, <1>4, <1>6, <1>7, <1>8 DEF Conn, ConnectedIsAlive
<1>10. ASSUME NEW i \in connections, made'[i].status = "disconnected",
              made'[i].process = "running", made[i].server \notin tangled
       PROVE  made[i].status = "disconnected" /\ made'[i].byEvent = made[i].byEvent
  <2>1. i \in Ids
    BY <1>4
  <2>2. CASE StartFails(o)
    <3>1. ops[o].at = "starting"
      BY <2>2, StartFailsIs
    <3>2. made[i].server # s
      BY <1>10, <3>1 DEF Conn, Holds, OfServer
    <3> QED BY <1>10, <2>1, <2>2, <3>2, StartFailsIs DEF IsFound, OfServer
  <2>3. CASE Handshake(o)
    BY <1>10, <2>1, <2>3, HandshakeIs
  <2>4. CASE HandshakeFails(o)
    <3>1. ops[o].at = "handshake" /\ made'[ops[o].id].process # "running"
      BY <2>4, HandshakeFailsIs
    <3>2. CASE made[i].server = s
      <4>1. ops[o].id \in OfServer(s)
        BY <1>10, <3>1, <3>2 DEF Conn, Holds
      <4>2. i = ops[o].id
        BY <1>10, <3>2, <4>1 DEF Conn, OneConnection, OfServer
      <4> QED BY <1>10, <3>1, <4>2
    <3>3. CASE made[i].server # s
      BY <1>10, <2>1, <2>4, <3>3, HandshakeFailsIs DEF IsFound, OfServer
    <3> QED BY <3>2, <3>3
  <2> QED BY <2>2, <2>3, <2>4
<1>11. DisconnectedIsDead'
  BY <1>1, <1>4, <1>6, <1>10 DEF Conn, DisconnectedIsDead
<1> QED BY <1>1, <1>3, <1>5, <1>9, <1>11, ConnFromParts

\* The list is emptied.
LEMMA DisposedKeepsConn ==
  ASSUME HTypes, Apart, Conn, NEW o \in Slots, Disposed(o)
  PROVE  Conn'
<1>1. /\ GoesOn(o, Done) /\ Done \in OpType /\ GoodOp(Done) /\ Done.at = "done"
      /\ Done.kind = "none" /\ connections' = {} /\ made' = made
      /\ ops[o].kind = "dispose" /\ ops[o].todo = {} /\ GoodOp(ops[o])
      /\ ops[o] \in OpType
  BY DoneIs, TypesGive DEF Disposed
<1>2. Changes /\ tangled \subseteq tangled' /\ connections \subseteq Ids
  BY <1>1, NothingChanges DEF GoesOn, HTypes
<1>3. Ids' = Ids /\ \A i \in Ids : made[i].server \in Servers
  BY <1>1, TypesGive DEF Ids, MadeType
<1>4. WorksOn(ops[o]) = Servers
  BY <1>1, ServersWorkedOn
<1>5. NoProcessLeaks'
  <2> SUFFICES ASSUME NEW i \in Ids, made[i].process = "running"
               PROVE  made[i].server \in tangled'
    BY <1>1, <1>3 DEF NoProcessLeaks
  <2>1. i \in connections \/ made[i].server \in tangled
    BY DEF Conn, NoProcessLeaks
  <2>2. i \in connections => made[i].server \in tangled
    BY <1>1 DEF Conn, Holds
  <2> QED BY <1>2, <2>1, <2>2
<1>6. ConnectedIsAlive' /\ DisconnectedIsDead'
  BY <1>1 DEF ConnectedIsAlive, DisconnectedIsDead
<1>7. Holds(o)'
  BY <1>1, ReturnedHolds
<1>8. \A i \in connections : i \in connections' \/ made[i].server \in WorksOn(ops[o])
  BY <1>2, <1>3, <1>4
<1> QED BY <1>1, <1>2, <1>5, <1>6, <1>7, <1>8, ConnFromParts

\* Neither the list nor a process is touched.
LEMMA QuietKeepsConn ==
  ASSUME HTypes, Apart, Conn, NEW o \in Slots, NEW w \in OpType, GoodOp(w), GoesOn(o, w),
         Changes, connections' = connections,
         \A i \in Ids : /\ \/ /\ made'[i].status = made[i].status
                              /\ made'[i].byEvent = made[i].byEvent
                           \/ made'[i].status = "connecting"
                        /\ made'[i].process = made[i].process,
         w.at \in {"next", "notify", "delay", "done"},
         w.kind = "dispose" => \A i \in connections : made[i].server \in w.todo
  PROVE  Conn'
<1>1. ops'[o] = w /\ tangled \subseteq tangled' /\ connections \subseteq Ids
  BY DEF GoesOn, HTypes
<1>2. NoProcessLeaks' /\ ConnectedIsAlive' /\ DisconnectedIsDead'
  BY <1>1, ListKept, StatusesKept DEF Conn
<1>3. Holds(o)'
  BY <1>1 DEF Holds, Changes
<1> QED BY <1>2, <1>3, ConnFromParts

LEMMA ConnStep ==
  ASSUME HTypes, Apart, Conn, NEW o \in Slots, Begin(o) \/ Continue(o)
  PROVE  Conn'
<1>1. CASE Closed(o)
  BY <1>1, ClosedKeepsConn
<1>2. CASE Starts(o)
  BY <1>2, StartsKeepsConn
<1>3. CASE StartFails(o) \/ Handshake(o) \/ HandshakeFails(o)
  BY <1>3, ReturnsKeepsConn
<1>4. CASE RestartDelayed(o)
  <2>1. /\ ops[o].kind = "restart" /\ Deletable(ops[o]) /\ Deletes(o, ops[o])
        /\ connections' = connections
    BY <1>4, RestartDelayedIs
  <2> QED BY <2>1, DeletesKeepsConn
<1>5. ASSUME NEW s \in Servers, DisposeServer(o, s)
      PROVE  Conn'
  <2>1. PICK op : /\ Deletable(op) /\ Deletes(o, op) /\ op.kind = "dispose"
                  /\ op.server = s /\ op.todo = ops[o].todo \ {s}
    BY <1>5, DisposeServerIs
  <2>2. connections' = connections /\ ops[o].kind = "dispose"
    BY <1>5, DisposeServerIs
  <2> QED BY <2>1, <2>2, DeletesKeepsConn
<1>6. ASSUME NEW s \in Servers, UpdateServer(o, s)
      PROVE  Conn'
  <2>1. connections' = connections /\ ops[o].kind = "update"
    BY <1>6, UpdateServerIs
  <2>2. PICK op \in OpType : /\ op.kind = "update"
                             /\ \/ Deletable(op) /\ Deletes(o, op)
                                \/ GoesOn(o, Returned(op)) /\ made' = made
    BY <1>6, UpdateServerIs
  <2>3. CASE Deletable(op) /\ Deletes(o, op)
    BY <2>1, <2>2, <2>3, DeletesKeepsConn
  <2>4. CASE GoesOn(o, Returned(op)) /\ made' = made
    <3>1. /\ Returned(op) \in OpType /\ GoodOp(Returned(op))
          /\ Returned(op).kind = "update" /\ Returned(op).at = "next"
      BY <2>2, ReturnedIs
    <3> QED BY <2>1, <2>4, <3>1, NothingChanges, QuietKeepsConn
  <2> QED BY <2>2, <2>3, <2>4
<1>7. CASE Updated(o)
  <2>1. PICK w \in OpType : /\ GoodOp(w) /\ GoesOn(o, w) /\ w.at = "notify"
                            /\ w.kind = "update"
    BY <1>7, UpdatedIs
  <2>2. made' = made /\ connections' = connections
    BY <1>7, UpdatedIs
  <2> QED BY <2>1, <2>2, NothingChanges, QuietKeepsConn
<1>8. CASE Notified(o) \/ NotifyFails(o)
  <2>1. GoesOn(o, Done) /\ made' = made /\ connections' = connections
    BY <1>8 DEF Notified, NotifyFails
  <2> QED BY <2>1, DoneIs, NothingChanges, QuietKeepsConn
<1>9. CASE Disposed(o)
  BY <1>9, DisposedKeepsConn
<1>10. CASE UpdateServerConnections(o)
  <2>1. PICK w \in OpType : /\ GoodOp(w) /\ GoesOn(o, w) /\ w.at = "next"
                            /\ w.kind = "update"
    BY <1>10, UpdateBegins
  <2>2. made' = made /\ connections' = connections
    BY <1>10, UpdateBegins
  <2> QED BY <2>1, <2>2, NothingChanges, QuietKeepsConn
<1>11. ASSUME NEW s \in Servers, RestartConnection(o, s)
       PROVE  Conn'
  <2>1. PICK w \in OpType : /\ GoodOp(w) /\ GoesOn(o, w) /\ w.kind # "dispose"
                            /\ w.at \in {"notify", "delay", "done"}
    BY <1>11, RestartBegins, DoneIs
  <2>2. /\ Changes /\ connections' = connections
        /\ \A i \in Ids : /\ \/ /\ made'[i].status = made[i].status
                                /\ made'[i].byEvent = made[i].byEvent
                             \/ made'[i].status = "connecting"
                          /\ made'[i].process = made[i].process
    BY <1>11, RestartBegins
  <2> QED BY <2>1, <2>2, QuietKeepsConn
<1>12. CASE Dispose(o)
  <2>1. PICK w \in OpType : /\ GoodOp(w) /\ GoesOn(o, w) /\ w.at = "next"
                            /\ w.kind = "dispose"
                            /\ \A i \in connections : made[i].server \in w.todo
    BY <1>12, DisposeBegins
  <2>2. made' = made /\ connections' = connections
    BY <1>12, DisposeBegins
  <2> QED BY <2>1, <2>2, NothingChanges, QuietKeepsConn
<1> QED
  BY <1>1, <1>2, <1>3, <1>4, <1>5, <1>6, <1>7, <1>8, <1>9, <1>10, <1>11, <1>12
  DEF Begin, Continue

-----------------------------------------------------------------------------
(* The settings.                                                           *)

\* What an operation is about to connect is what the settings say.
Aims(op) ==
  /\ op.at \in {"delay", "starting"} =>
       wanted[op.server] \in {op.goal[op.server], Invalid}
  /\ op.at = "closing" /\ op.after = "starting" =>
       wanted[op.server] \in {op.goal[op.server], Invalid}
  /\ op.kind = "update" => \A s \in op.todo : op.goal[s] = wanted[s]
  /\ op.kind = "update" /\ op.at = "notify" => op.todo = {}

\* The connection of server s is not yet what the settings say, but op sees to it.
SeesTo(op, s) ==
  op.kind = "update" /\ (s \in op.todo \/ (op.at = "closing" /\ op.server = s))

AsWanted(i) == wanted[made[i].server] \in {made[i].config, Invalid}

Follows ==
  ~overlapped =>
    /\ \A o \in Slots : Aims(ops[o])
    /\ \A i \in connections : AsWanted(i) \/ \E o \in Busy : SeesTo(ops[o], made[i].server)

\* It is a matter of the operation that goes on.
LEMMA FollowsFromOne ==
  ASSUME HTypes, Alone, NEW o \in Slots, NEW w, GoesOn(o, w),
         ~overlapped' => /\ Aims(w)'
                         /\ \A i \in connections' : AsWanted(i)' \/
                              (w.kind = "update" /\ w.at \notin {"idle", "done"}
                               /\ SeesTo(w, made'[i].server))
  PROVE  Follows'
<1> SUFFICES ASSUME ~overlapped'
             PROVE  /\ \A q \in Slots : Aims(ops[q])'
                    /\ \A i \in connections' : AsWanted(i)' \/
                         \E q \in Busy' : SeesTo(ops'[q], made'[i].server)
  BY DEF Follows, SeesTo
<1>1. /\ \A q \in Slots : ops'[q] = IF q = o THEN w ELSE ops[q]
      /\ Busy \subseteq {o} /\ Busy' = IF w.at \in {"idle", "done"} THEN {} ELSE {o}
  BY GoesOnKeepsAlone DEF GoesOn, HTypes
<1>2. ASSUME NEW q \in Slots PROVE Aims(ops[q])'
  <2>1. CASE q = o
    BY <1>1, <2>1 DEF Aims
  <2>2. CASE q # o
    <3>1. ops'[q] = ops[q] /\ ops[q].at \in {"idle", "done"}
      BY <1>1, <2>2 DEF Busy
    <3>2. ops[q].kind = "none"
      BY <3>1, TypesGive DEF GoodOp
    <3> QED BY <3>1, <3>2 DEF Aims
  <2> QED BY <2>1, <2>2
<1> QED BY <1>1, <1>2

\* What is known before a step after which no operations have overlapped.
LEMMA FollowsGives ==
  ASSUME HTypes, Alone, Follows, NEW o \in Slots, NEW w, GoesOn(o, w), ~overlapped'
  PROVE  /\ Aims(ops[o]) /\ tangled = {}
         /\ \A i \in connections : AsWanted(i) \/ SeesTo(ops[o], made[i].server)
         /\ ops[o].kind \in {"none", "restart", "dispose"} =>
              \A i \in connections : AsWanted(i)
<1>1. ~overlapped /\ tangled = {} /\ Busy \subseteq {o}
  BY GoesOnKeepsAlone
<1>2. /\ Aims(ops[o])
      /\ \A i \in connections : AsWanted(i) \/ SeesTo(ops[o], made[i].server)
  BY <1>1 DEF Follows
<1> QED BY <1>1, <1>2 DEF SeesTo

\* A connection that stays is as wanted as before.
LEMMA WantedStays ==
  ASSUME HTypes, Changes, connections' \subseteq connections, wanted' = wanted
  PROVE  \A i \in connections' : /\ i \in connections /\ made'[i].server = made[i].server
                                 /\ AsWanted(i)' <=> AsWanted(i)
BY DEF HTypes, Changes, AsWanted

LEMMA DeletesFollows ==
  ASSUME HTypes, Alone, Follows, NEW o \in Slots, NEW op, Deletable(op), Deletes(o, op),
         connections' = connections, wanted' = wanted, op.kind = ops[o].kind,
         op.kind = "update" => /\ op.todo = ops[o].todo \ {op.server}
                               /\ op.goal = ops[o].goal /\ op.server \in ops[o].todo
                               /\ ops[o].at = "next",
         op.kind # "update" /\ op.after = "starting" => op = ops[o] /\ op.at = "delay"
  PROVE  Follows'
<1>1. PICK w : /\ GoesOn(o, w)
               /\ \/ OfServer(op.server) = {} /\ w = Deleted(op)
                  \/ w = [op EXCEPT !.at = "closing"]
  BY DeletesIs
<1> SUFFICES ASSUME ~overlapped'
             PROVE  /\ Aims(w)'
                    /\ \A i \in connections' : AsWanted(i)' \/
                         (w.kind = "update" /\ w.at \notin {"idle", "done"}
                          /\ SeesTo(w, made'[i].server))
  BY <1>1, FollowsFromOne
<1>2. /\ Aims(ops[o])
      /\ \A i \in connections : AsWanted(i) \/ SeesTo(ops[o], made[i].server)
  BY <1>1, FollowsGives
<1>3. \A i \in connections' : /\ i \in connections /\ made'[i].server = made[i].server
                              /\ AsWanted(i)' <=> AsWanted(i)
  BY DeletesIs, WantedStays
<1>4. /\ op \in OpType /\ op.kind \in {"update", "restart", "dispose"} /\ op.server \in Servers
      /\ w.kind = op.kind /\ w \in OpType /\ GoodOp(w)
  BY <1>1, ClosingIs, DeletedIs DEF Deletable, OpType
<1>5. op.after = "starting" => wanted[op.server] \in {op.goal[op.server], Invalid}
  BY <1>2, <1>4 DEF Aims
<1>6. op.kind = "update" => \A s \in op.todo : op.goal[s] = wanted[s]
  BY <1>2 DEF Aims
<1>7. ASSUME w = Deleted(op), op.after = "starting"
      PROVE  w.at = "starting" /\ w.server = op.server /\ w.goal = op.goal /\ w.todo = op.todo
  BY <1>7, DeletedIs
<1>8. ASSUME w = Deleted(op), op.after # "starting"
      PROVE  /\ w.at \in {"next", "notify"}
             /\ op.kind = "update" => w.at = "next"
             /\ op.kind = "update" => /\ w.todo = op.todo
                                      /\ \A s \in op.todo : w.goal[s] = op.goal[s]
  BY <1>4, <1>8, DeletedIs, ReturnedIs
<1>9. ASSUME w = [op EXCEPT !.at = "closing"]
      PROVE  /\ w.at = "closing" /\ w.server = op.server /\ w.goal = op.goal
             /\ w.todo = op.todo /\ w.after = op.after
  BY <1>9, ClosingIs
<1>10. Aims(w)'
  <2>1. CASE w = Deleted(op) /\ op.after = "starting"
    BY <1>4, <1>5, <1>6, <1>7, <2>1 DEF Aims
  <2>2. CASE w = Deleted(op) /\ op.after # "starting"
    BY <1>4, <1>6, <1>8, <2>2 DEF Aims
  <2>3. CASE w = [op EXCEPT !.at = "closing"]
    BY <1>4, <1>5, <1>6, <1>9, <2>3 DEF Aims
  <2> QED BY <1>1, <2>1, <2>2, <2>3
<1>11. ASSUME NEW i \in connections', ~AsWanted(i)'
       PROVE  w.kind = "update" /\ w.at \notin {"idle", "done"} /\ SeesTo(w, made'[i].server)
  <2>1. SeesTo(ops[o], made[i].server) /\ i \in connections
    BY <1>2, <1>3, <1>11
  <2>2. op.kind = "update" /\ made[i].server \in ops[o].todo
    BY <2>1 DEF SeesTo
  <2>3. made[i].server \in op.todo \/ made[i].server = op.server
    BY <2>2
  <2>4. CASE w = Deleted(op)
    <3>1. made[i].server # op.server
      BY <1>1, <1>9, <2>1, <2>4, DeletedIs, ReturnedIs DEF OfServer, Deletable
    <3>2. w.todo = op.todo
      BY <1>7, <1>8, <2>2, <2>4
    <3> QED BY <1>3, <1>4, <2>2, <2>3, <3>1, <3>2 DEF SeesTo, GoodOp
  <2>5. CASE w = [op EXCEPT !.at = "closing"]
    BY <1>3, <1>4, <1>9, <2>2, <2>3, <2>5 DEF SeesTo
  <2> QED BY <1>1, <2>4, <2>5
<1> QED BY <1>10, <1>11

\* An operation comes back from an await and has touched no configuration.
LEMMA ReturnsFollows ==
  ASSUME HTypes, Alone, Follows, NEW o \in Slots, NEW op \in OpType, op.kind # "none",
         GoesOn(o, Returned(op)), Changes, connections' \subseteq connections,
         wanted' = wanted, op.kind = ops[o].kind, op.todo \subseteq ops[o].todo,
         op.kind = "update" => op.goal = ops[o].goal,
         \A i \in connections' : tangled = {} /\ Aims(ops[o]) /\ SeesTo(ops[o], made[i].server) =>
           made[i].server \in op.todo \/ AsWanted(i)
  PROVE  Follows'
<1> DEFINE w == Returned(op)
<1>1. /\ w.kind = op.kind /\ w.at \in {"next", "notify"}
      /\ op.kind = "update" => /\ w.at = "next" /\ w.todo = op.todo
                               /\ \A s \in op.todo : w.goal[s] = op.goal[s]
  BY ReturnedIs
<1> HIDE DEF w
<1> SUFFICES ASSUME ~overlapped'
             PROVE  /\ Aims(w)'
                    /\ \A i \in connections' : AsWanted(i)' \/
                         (w.kind = "update" /\ w.at \notin {"idle", "done"}
                          /\ SeesTo(w, made'[i].server))
  BY FollowsFromOne DEF w
<1>2. /\ Aims(ops[o]) /\ tangled = {}
      /\ \A i \in connections : AsWanted(i) \/ SeesTo(ops[o], made[i].server)
  BY FollowsGives
<1>3. \A i \in connections' : /\ i \in connections /\ made'[i].server = made[i].server
                              /\ AsWanted(i)' <=> AsWanted(i)
  BY WantedStays
<1>4. Aims(w)'
  BY <1>1, <1>2 DEF Aims
<1>5. ASSUME NEW i \in connections', ~AsWanted(i)'
      PROVE  w.kind = "update" /\ w.at \notin {"idle", "done"} /\ SeesTo(w, made'[i].server)
  <2>1. SeesTo(ops[o], made[i].server) /\ made[i].server \in op.todo
    BY <1>2, <1>3, <1>5
  <2>2. op.kind = "update"
    BY <2>1 DEF SeesTo
  <2> QED BY <1>1, <1>3, <2>1, <2>2 DEF SeesTo
<1> QED BY <1>4, <1>5

LEMMA FollowsStep ==
  ASSUME HTypes, Alone, Conn, Follows, NEW o \in Slots, Begin(o) \/ Continue(o)
  PROVE  Follows'
<1>1. ops[o] \in OpType /\ GoodOp(ops[o]) /\ connections \subseteq Ids
  BY TypesGive DEF HTypes
<1>2. CASE Closed(o)
  <2> DEFINE op == ops[o]
  <2>1. /\ Deletable(op) /\ GoesOn(o, Deleted(op)) /\ Changes /\ op.at = "closing"
        /\ connections' = connections \ OfServer(op.server) /\ wanted' = wanted
    BY <1>2, ClosedIs
  <2>2. \A i \in connections' : made[i].server # op.server
    BY <2>1 DEF OfServer
  <2>3. CASE op.after = "starting"
    <3>1. PICK w : /\ w.at = "starting" /\ w.server = op.server /\ w.goal = op.goal
                   /\ w.todo = op.todo /\ w.kind = op.kind /\ GoesOn(o, w)
      BY <2>1, <2>3, DeletedIs
    <3>2. ~overlapped' => Aims(w)'
      <4>1. ~overlapped' => Aims(op)
        BY <2>1, FollowsGives
      <4> QED BY <2>1, <2>3, <3>1, <4>1 DEF Aims
    <3>3. ~overlapped' => \A i \in connections : AsWanted(i) \/ SeesTo(op, made[i].server)
      BY <2>1, FollowsGives
    <3>4. \A i \in connections' : /\ i \in connections /\ made'[i].server = made[i].server
                                  /\ AsWanted(i)' <=> AsWanted(i)
      BY <2>1, WantedStays
    <3>5. ASSUME ~overlapped', NEW i \in connections', ~AsWanted(i)'
          PROVE  w.kind = "update" /\ SeesTo(w, made'[i].server)
      BY <2>2, <3>1, <3>3, <3>4, <3>5 DEF SeesTo
    <3> QED BY <2>1, <3>1, <3>2, <3>5, FollowsFromOne
  <2>4. CASE op.after # "starting"
    <3>1. Deleted(op) = Returned(op) /\ op.kind # "none"
      BY <2>1, <2>4, DeletedIs DEF Deletable
    <3>2. \A i \in connections' : SeesTo(op, made[i].server) => made[i].server \in op.todo
      BY <2>2 DEF SeesTo
    <3>3. GoesOn(o, Returned(op))
      BY <2>1, <3>1
    <3> QED BY <1>1, <2>1, <3>1, <3>2, <3>3, ReturnsFollows
  <2> QED BY <2>3, <2>4
<1>3. CASE Starts(o)
  <2> DEFINE n == Len(made) + 1
             s == ops[o].server
  <2>1. PICK w : /\ GoesOn(o, w) /\ w.at = "handshake" /\ w.kind = ops[o].kind
                 /\ w.todo = ops[o].todo /\ w.goal = ops[o].goal
    BY <1>3, StartsIs
  <2>2. /\ ops[o].at = "starting" /\ connections' = connections \cup {n}
        /\ wanted' = wanted
        /\ \A i \in Ids : made'[i] = made[i]
    BY <1>3, StartsIs
  <2>3. made'[n] = [server |-> s, config |-> ops[o].goal[s],
                    status |-> "connecting", process |-> "running",
                    byEvent |-> FALSE]
    BY <1>3, StartsIs
  <2>4. made'[n].server = s /\ made'[n].config = ops[o].goal[s]
    BY <2>3
  <2> HIDE DEF n
  <2>5. ASSUME ~overlapped'
        PROVE  /\ Aims(ops[o])
               /\ \A i \in connections : AsWanted(i) \/ SeesTo(ops[o], made[i].server)
    BY <2>1, <2>5, FollowsGives
  <2>6. ~overlapped' => Aims(w)'
    BY <2>1, <2>2, <2>5 DEF Aims
  <2>7. ASSUME ~overlapped', NEW i \in connections', ~AsWanted(i)'
        PROVE  w.kind = "update" /\ SeesTo(w, made'[i].server)
    <3>1. CASE i = n
      <4>1. wanted[s] \in {made'[n].config, Invalid}
        BY <2>2, <2>4, <2>5, <2>7 DEF Aims
      <4> QED BY <2>2, <2>4, <2>7, <3>1, <4>1 DEF AsWanted
    <3>2. CASE i # n
      <4>1. i \in connections /\ made'[i] = made[i] /\ ~AsWanted(i)
        BY <1>1, <2>2, <2>7, <3>2 DEF AsWanted
      <4>2. SeesTo(ops[o], made[i].server)
        BY <2>5, <2>7, <4>1
      <4> QED BY <2>1, <2>2, <4>1, <4>2 DEF SeesTo
    <3> QED BY <3>1, <3>2
  <2> QED BY <2>1, <2>6, <2>7, FollowsFromOne
<1>4. CASE StartFails(o) \/ Handshake(o) \/ HandshakeFails(o)
  <2>1. /\ ops[o] \in OpType /\ ops[o].kind # "none" /\ GoesOn(o, Returned(ops[o]))
        /\ Changes /\ connections' = connections /\ wanted' = wanted
        /\ ops[o].at \in {"starting", "handshake"}
    BY <1>4, StartFailsIs, HandshakeIs, HandshakeFailsIs
  <2>2. \A i \in connections' : SeesTo(ops[o], made[i].server) =>
          made[i].server \in ops[o].todo
    BY <2>1 DEF SeesTo
  <2> QED BY <2>1, <2>2, ReturnsFollows
<1>5. CASE RestartDelayed(o)
  <2>1. /\ ops[o].at = "delay" /\ ops[o].kind = "restart"
        /\ Deletable(ops[o]) /\ Deletes(o, ops[o]) /\ connections' = connections
        /\ wanted' = wanted
    BY <1>5, RestartDelayedIs
  <2> QED BY <2>1, DeletesFollows
<1>6. ASSUME NEW s \in Servers, DisposeServer(o, s)
      PROVE  Follows'
  <2>1. PICK op : /\ Deletable(op) /\ Deletes(o, op) /\ op.kind = "dispose"
                  /\ op.after = "next"
    BY <1>6, DisposeServerIs
  <2>2. connections' = connections /\ ops[o].kind = "dispose" /\ wanted' = wanted
    BY <1>6, DisposeServerIs
  <2> QED BY <2>1, <2>2, DeletesFollows
<1>7. ASSUME NEW s \in Servers, UpdateServer(o, s)
      PROVE  Follows'
  <2>1. /\ connections' = connections /\ ops[o].kind = "update" /\ ops[o].at = "next"
        /\ s \in ops[o].todo /\ wanted' = wanted
    BY <1>7, UpdateServerIs
  <2>2. PICK op \in OpType :
          /\ op.kind = "update" /\ op.server = s /\ op.todo = ops[o].todo \ {s}
          /\ op.goal = ops[o].goal
          /\ \/ Deletable(op) /\ Deletes(o, op)
             \/ /\ GoesOn(o, Returned(op)) /\ made' = made
                /\ \/ op.goal[s] = Invalid
                   \/ \E f \in Ids : IsFound(f, s) /\ op.goal[s] = made[f].config
    BY <1>7, UpdateServerIs
  <2>3. CASE Deletable(op) /\ Deletes(o, op)
    BY <2>1, <2>2, <2>3, DeletesFollows
  <2>4. CASE /\ GoesOn(o, Returned(op)) /\ made' = made
             /\ \/ op.goal[s] = Invalid
                \/ \E f \in Ids : IsFound(f, s) /\ op.goal[s] = made[f].config
    <3>1. \/ op.goal[s] = Invalid
          \/ \E f \in connections : made[f].server = s /\ op.goal[s] = made[f].config
      BY <2>4 DEF IsFound, OfServer
    <3>3. ASSUME NEW i \in connections, tangled = {}, Aims(ops[o]),
                 SeesTo(ops[o], made[i].server)
          PROVE  made[i].server \in op.todo \/ AsWanted(i)
      <4>1. CASE made[i].server = s
        <5>1. op.goal[s] \in {made[i].config, Invalid}
          BY <3>1, <3>3, <4>1 DEF Conn, OneConnection
        <5>2. ops[o].goal[s] = wanted[s]
          BY <2>1, <3>3 DEF Aims
        <5> QED BY <2>2, <4>1, <5>1, <5>2 DEF AsWanted
      <4>2. CASE made[i].server # s
        BY <2>1, <2>2, <3>3, <4>2 DEF SeesTo
      <4> QED BY <4>1, <4>2
    <3>4. Changes
      BY <2>4, NothingChanges
    <3> QED BY <2>1, <2>2, <2>4, <3>3, <3>4, ReturnsFollows
  <2> QED BY <2>2, <2>3, <2>4
<1>8. CASE Updated(o)
  <2>1. PICK w \in OpType : /\ GoodOp(w) /\ GoesOn(o, w) /\ w.at = "notify"
                            /\ w.kind = "update" /\ w.todo = {}
    BY <1>8, UpdatedIs
  <2>2. /\ made' = made /\ connections' = connections /\ wanted' = wanted
        /\ ops[o].at = "next" /\ ops[o].todo = {}
    BY <1>8, UpdatedIs
  <2>3. Aims(w)'
    BY <2>1 DEF Aims
  <2>4. ASSUME ~overlapped', NEW i \in connections' PROVE AsWanted(i)'
    <3>1. AsWanted(i) \/ SeesTo(ops[o], made[i].server)
      BY <2>1, <2>2, <2>4, FollowsGives
    <3> QED BY <2>2, <3>1 DEF AsWanted, SeesTo
  <2> QED BY <2>1, <2>3, <2>4, FollowsFromOne
<1>9. CASE Notified(o) \/ NotifyFails(o)
  <2>1. /\ GoesOn(o, Done) /\ made' = made /\ connections' = connections
        /\ wanted' = wanted /\ ops[o].at \in {"delay", "notify"}
    BY <1>9 DEF Notified, NotifyFails
  <2>2. Aims(Done)'
    BY DoneIs DEF Aims
  <2>3. ASSUME ~overlapped', NEW i \in connections' PROVE AsWanted(i)'
    <3>1. Aims(ops[o]) /\ (AsWanted(i) \/ SeesTo(ops[o], made[i].server))
      BY <2>1, <2>3, FollowsGives
    <3>2. ~SeesTo(ops[o], made[i].server)
      BY <1>1, <2>1, <3>1 DEF SeesTo, Aims, GoodOp
    <3> QED BY <2>1, <3>1, <3>2 DEF AsWanted
  <2> QED BY <2>1, <2>2, <2>3, FollowsFromOne
<1>10. CASE Disposed(o)
  <2>1. GoesOn(o, Done) /\ connections' = {}
    BY <1>10 DEF Disposed
  <2>2. Aims(Done)'
    BY DoneIs DEF Aims
  <2> QED BY <2>1, <2>2, FollowsFromOne
<1>11. CASE UpdateServerConnections(o)
  <2>1. PICK w \in OpType :
          /\ GoodOp(w) /\ GoesOn(o, w) /\ w.at = "next" /\ w.kind = "update"
          /\ w.goal = wanted' /\ \A s \in Servers : OfServer(s) # {} => s \in w.todo
    BY <1>11, UpdateBegins
  <2>2. made' = made /\ connections' = connections
    BY <1>11, UpdateBegins
  <2>3. Aims(w)'
    BY <2>1 DEF Aims
  <2>4. \A i \in connections' : made'[i].server \in w.todo
    BY <1>1, <2>1, <2>2, TypesGive DEF OfServer, MadeType
  <2> QED BY <2>1, <2>3, <2>4, FollowsFromOne DEF SeesTo
<1>12. ASSUME NEW s \in Servers, RestartConnection(o, s)
       PROVE  Follows'
  <2>1. PICK w \in OpType :
          /\ GoodOp(w) /\ GoesOn(o, w)
          /\ \/ w = Done
             \/ w.kind = "restart" /\ w.at = "notify"
             \/ /\ w.kind = "restart" /\ w.at = "delay" /\ w.server = s
                /\ \E f \in OfServer(s) : w.goal[s] = made[f].config
    BY <1>12, RestartBegins
  <2>2. Changes /\ connections' = connections /\ wanted' = wanted /\ ops[o].at = "idle"
    BY <1>12, RestartBegins
  <2>3. ops[o].kind = "none"
    BY <1>1, <2>2 DEF GoodOp
  <2>4. ~overlapped' => \A i \in connections : AsWanted(i)
    BY <2>1, <2>3, FollowsGives
  <2>5. ~overlapped' => \A i \in connections' : AsWanted(i)'
    BY <2>2, <2>4, WantedStays
  <2>6. ~overlapped' => Aims(w)'
    <3> SUFFICES ASSUME ~overlapped' PROVE Aims(w)'
      OBVIOUS
    <3>1. CASE w = Done
      BY <3>1, DoneIs DEF Aims
    <3>2. CASE w.kind = "restart" /\ w.at = "notify"
      BY <3>2 DEF Aims
    <3>3. CASE w.kind = "restart" /\ w.at = "delay"
      <4>1. PICK f \in OfServer(s) : w.server = s /\ w.goal[s] = made[f].config
        BY <2>1, <3>3, DoneIs
      <4>2. wanted[s] \in {made[f].config, Invalid}
        BY <2>4, <4>1 DEF OfServer, AsWanted
      <4> QED BY <2>1, <2>2, <3>3, <4>1, <4>2 DEF Aims
    <3> QED BY <2>1, <3>1, <3>2, <3>3
  <2> QED BY <2>1, <2>5, <2>6, FollowsFromOne
<1>13. CASE Dispose(o)
  <2>1. PICK w \in OpType : GoodOp(w) /\ GoesOn(o, w) /\ w.at = "next" /\ w.kind = "dispose"
    BY <1>13, DisposeBegins
  <2>2. made' = made /\ connections' = connections /\ wanted' = wanted /\ ops[o].at = "idle"
    BY <1>13, DisposeBegins
  <2>3. ops[o].kind = "none"
    BY <1>1, <2>2 DEF GoodOp
  <2>4. ~overlapped' => \A i \in connections : AsWanted(i)
    BY <2>1, <2>3, FollowsGives
  <2>5. ~overlapped' => \A i \in connections' : AsWanted(i)'
    BY <2>2, <2>4 DEF AsWanted
  <2>6. Aims(w)'
    BY <2>1 DEF Aims
  <2> QED BY <2>1, <2>5, <2>6, FollowsFromOne
<1> QED
  BY <1>2, <1>3, <1>4, <1>5, <1>6, <1>7, <1>8, <1>9, <1>10, <1>11, <1>12, <1>13
  DEF Begin, Continue

LEMMA FollowsProcess ==
  ASSUME HTypes, Follows, NEW f \in Ids, Dies(f) \/ OnClose(f) \/ OnError(f)
  PROVE  Follows'
<1>1. Changes /\ UNCHANGED <<connections, ops, history>>
  BY ProcessIs
<1>2. /\ wanted' = wanted /\ overlapped' = overlapped /\ ops' = ops
      /\ connections' = connections
  BY <1>1 DEF history
<1>3. \A i \in connections' : /\ i \in connections /\ made'[i].server = made[i].server
                              /\ AsWanted(i)' <=> AsWanted(i)
  BY <1>1, <1>2, WantedStays
<1>4. Busy' = Busy
  BY <1>2 DEF Busy
<1>5. \A o \in Slots : Aims(ops[o]) => Aims(ops[o])'
  BY <1>2 DEF Aims
<1> QED BY <1>2, <1>3, <1>4, <1>5 DEF Follows, SeesTo

-----------------------------------------------------------------------------
(* The inductive invariant.                                                *)

HInv == HTypes /\ Apart /\ Alone /\ ConnectingIsShown /\ Conn /\ Follows

LEMMA HInvInit == Init => HInv
<1> SUFFICES ASSUME Init PROVE HInv
  OBVIOUS
<1>1. HTypes
  BY HTypesInit
<1>2. \A o \in Slots : ops[o].at = "idle" /\ ops[o].kind = "none"
  BY IdleIs DEF Init
<1>3. /\ connections = {} /\ tangled = {} /\ isConnecting = FALSE /\ made = <<>>
      /\ Ids = {}
  BY DEF Init, Ids
<1>4. Busy = {} /\ \A o \in Slots : WorksOn(ops[o]) = {}
  BY <1>2 DEF Busy, WorksOn
<1>5. Apart /\ Alone /\ ConnectingIsShown
  BY <1>3, <1>4 DEF Apart, Alone, ConnectingIsShown
<1>6. Conn
  BY <1>2, <1>3 DEF Conn, NoProcessLeaks, OneConnection, ConnectedIsAlive,
     DisconnectedIsDead, Holds
<1>7. Follows
  BY <1>2, <1>3 DEF Follows, Aims
<1> QED BY <1>1, <1>5, <1>6, <1>7 DEF HInv

LEMMA HInvNext == HInv /\ [Next]_vars => HInv'
<1> SUFFICES ASSUME HInv, [Next]_vars PROVE HInv'
  OBVIOUS
<1>1. HTypes /\ Apart /\ Alone /\ ConnectingIsShown /\ Conn /\ Follows
  BY DEF HInv
<1>2. ASSUME NEW o \in Slots, Begin(o) \/ Continue(o)
      PROVE  HInv'
  <2>1. PICK w : GoesOn(o, w)
    BY <1>1, <1>2, StepGoesOn
  <2>2. Apart' /\ Alone'
    BY <1>1, <2>1, GoesOnKeepsApart, GoesOnKeepsAlone
  <2>3. HTypes'
    BY <1>1, <1>2, HTypesStep
  <2>4. ConnectingIsShown'
    BY <1>1, <1>2, ConnectingShownStep
  <2>5. Conn'
    BY <1>1, <1>2, ConnStep
  <2>6. Follows'
    BY <1>1, <1>2, FollowsStep
  <2> QED BY <2>2, <2>3, <2>4, <2>5, <2>6 DEF HInv
<1>3. ASSUME NEW f \in Ids, Dies(f) \/ OnClose(f) \/ OnError(f)
      PROVE  HInv'
  <2>1. UNCHANGED <<isConnecting, ops, tangled, overlapped, broken>>
    BY <1>1, <1>3, ProcessIs DEF history
  <2>2. Apart' /\ Alone' /\ ConnectingIsShown'
    <3>1. Busy' = Busy
      BY <2>1 DEF Busy
    <3>2. \A q \in Slots : WorksOn(ops[q])' = WorksOn(ops[q])
      BY <2>1 DEF WorksOn
    <3> QED BY <1>1, <2>1, <3>1, <3>2 DEF Apart, Alone, ConnectingIsShown
  <2>3. HTypes' /\ Conn' /\ Follows'
    BY <1>1, <1>3, HTypesProcess, ConnProcess, FollowsProcess
  <2> QED BY <2>2, <2>3 DEF HInv
<1>4. CASE UNCHANGED vars
  <2>1. HTypes' /\ ConnectingIsShown'
    BY <1>1, <1>4, HTypesStutters DEF vars, ConnectingIsShown, Busy
  <2>2. Apart' /\ Alone'
    BY <1>1, <1>4 DEF vars, Apart, Alone, Busy, WorksOn
  <2>3. Conn'
    BY <1>1, <1>4 DEF vars, Conn, NoProcessLeaks, OneConnection,
       ConnectedIsAlive, DisconnectedIsDead, Holds, OfServer, Ids
  <2>4. Follows'
    BY <1>1, <1>4 DEF vars, Follows, Aims, AsWanted, SeesTo, Busy
  <2> QED BY <2>1, <2>2, <2>3, <2>4 DEF HInv
<1> QED BY <1>2, <1>3, <1>4 DEF Next

(* The invariant of the hub.                                               *)
THEOREM HubInvariant == Spec => []HInv
<1> QED BY HInvInit, HInvNext, PTL DEF Spec

(* Connections, operations and the list keep their types.                  *)
THEOREM TypeCorrect == Spec => []TypeOK
<1>1. HInv => TypeOK
  BY TypesImplyTypeOK DEF HInv
<1> QED BY <1>1, HubInvariant, PTL

(* A server process that runs belongs to a connection in the list, unless  *)
(* two operations worked on its server at once.                            *)
THEOREM ProcessesAreListed == Spec => []NoProcessLeaks
<1>1. HInv => NoProcessLeaks
  BY DEF HInv, Conn
<1> QED BY <1>1, HubInvariant, PTL

(* A server has one connection, with the same exception.                   *)
THEOREM OneForEachServer == Spec => []OneConnection
<1>1. HInv => OneConnection
  BY DEF HInv, Conn
<1> QED BY <1>1, HubInvariant, PTL

(* What is shown as connected has a process whose end has not been heard.  *)
THEOREM ConnectedHasProcess == Spec => []ConnectedIsAlive
<1>1. HInv => ConnectedIsAlive
  BY DEF HInv, Conn
<1> QED BY <1>1, HubInvariant, PTL

(* What is shown as disconnected runs only when the late end of an earlier *)
(* process of the server disconnected it.                                  *)
THEOREM DisconnectedRunsOnlyByMistake == Spec => []DisconnectedIsDead
<1>1. HInv => DisconnectedIsDead
  BY DEF HInv, Conn
<1> QED BY <1>1, HubInvariant, PTL

(* isConnecting is up exactly as long as an update or a restart is under   *)
(* way, as long as none overlapped and none failed.                        *)
THEOREM ConnectingIsTrue == Spec => []ConnectingIsShown
<1>1. HInv => ConnectingIsShown
  BY DEF HInv
<1> QED BY <1>1, HubInvariant, PTL

(* With no operation under way the list is that of the settings last given.*)
THEOREM ListFollows == Spec => []FollowsSettings
<1>1. HInv => FollowsSettings
  BY DEF HInv, Follows, FollowsSettings, AsWanted
<1> QED BY <1>1, HubInvariant, PTL

=============================================================================
