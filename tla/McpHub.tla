-------------------------------- MODULE McpHub --------------------------------
(***************************************************************************)
(* The hub of MCP servers (class McpHub): a list of connections kept in    *)
(* step with a settings file by asynchronous operations that nothing keeps *)
(* from overlapping.                                                       *)
(*                                                                         *)
(* One source of settings is modelled; the global and the project file     *)
(* each govern connections of their own.  A connection is made over a      *)
(* transport that runs a server process; the process may die, and the      *)
(* event of its end comes some time after; an event of an error may come   *)
(* at any time.  Tools, resources and the texts of errors are left out.    *)
(***************************************************************************)
EXTENDS Naturals, Sequences, FiniteSets

CONSTANTS Servers,        \* names of servers
          Configs,        \* configurations a server can have
          MaxConnections, \* bound on the transports started
          MaxOps          \* bound on the operations ever begun

CONSTANTS Absent,  \* the entry of a server the settings do not name
          Invalid  \* an entry that is not a valid configuration

ASSUME HubAssumption ==
  /\ MaxConnections \in Nat /\ MaxOps \in Nat
  /\ Absent \notin Configs /\ Invalid \notin Configs \cup {Absent}

VARIABLES made,         \* every connection ever pushed, in that order
          connections,  \* those of them in the list `connections`, whose
                        \* order is that of made
          isConnecting,
          isDisposed,
          ops,          \* the operations, in the order they are begun
          wanted,       \* history: the settings the last update was given
          tangled,      \* history: servers two operations worked on at once
          overlapped,   \* history: two operations were under way at once
          broken        \* history: an operation ended before its last step

vars == <<made, connections, isConnecting, isDisposed, ops,
          wanted, tangled, overlapped, broken>>

history == <<wanted, tangled, overlapped, broken>>

Settings == [Servers -> Configs \cup {Absent, Invalid}]
Slots == 1..MaxOps
None == 0

(* Where an operation is:                                                  *)
(*   idle       not begun                                                  *)
(*   next       at the head of the loop of updateServerConnections         *)
(*   delay      restartConnection notifies and waits before its deletion   *)
(*   closing    deleteConnection awaits the close of what it has found     *)
(*   starting   connectToServer awaits the start of the transport          *)
(*   handshake  connectToServer awaits client.connect                      *)
(*   notify     the last await, of notifyWebviewOfServerChanges            *)
(*   done       it has ended                                               *)
Places == {"idle", "next", "delay", "closing", "starting", "handshake",
           "notify", "done"}

Idle == [at |-> "idle", kind |-> "none", server |-> None, todo |-> {},
         goal |-> [s \in Servers |-> Absent], after |-> "next", id |-> None]

Init ==
  /\ made = <<>>
  /\ connections = {}
  /\ isConnecting = FALSE
  /\ isDisposed = FALSE
  /\ ops = [o \in Slots |-> Idle]
  /\ wanted = [s \in Servers |-> Absent]
  /\ tangled = {}
  /\ overlapped = FALSE
  /\ broken = FALSE

-----------------------------------------------------------------------------
Ids == 1..Len(made)
OfServer(s) == {i \in connections : made[i].server = s}

(* findConnection finds the first in the list.                             *)
IsFound(i, s) == i \in OfServer(s) /\ \A j \in OfServer(s) : i <= j

Done == [Idle EXCEPT !.at = "done"]
Busy == {o \in Slots : ops[o].at \notin {"idle", "done"}}
CanBegin(o) == ops[o].at = "idle" /\ \A q \in 1..(o - 1) : ops[q].at # "idle"

(* The servers an operation works on; a disposal on all.                   *)
WorksOn(op) ==
  IF op.kind = "dispose" THEN Servers
  ELSE IF op.at \in {"delay", "closing", "starting", "handshake"}
       THEN {op.server} ELSE {}

(* Operation o goes on with op; what that makes two operations work on at once  *)
(* is noted.                                                               *)
GoesOn(o, op) ==
  /\ ops' = [ops EXCEPT ![o] = op]
  /\ tangled' = tangled \cup
       (WorksOn(op) \cap UNION {WorksOn(ops[q]) : q \in Slots \ {o}})
  /\ overlapped' = (overlapped \/ Busy \ {o} # {})

(* An update goes on with its loop, a restart is done.                      *)
Returned(op) ==
  IF op.kind = "restart" THEN [Idle EXCEPT !.at = "notify", !.kind = "restart"]
  ELSE [Idle EXCEPT !.at = "next", !.kind = op.kind, !.todo = op.todo,
          !.goal = [s \in Servers |-> IF s \in op.todo THEN op.goal[s]
                                     ELSE Absent]]

Status(i, status) == [made EXCEPT ![i].status = status, ![i].byEvent = FALSE]

(* The connection found under the name s in m, if there is one, is         *)
(* disconnected; byEvent (history): by an event of a transport.            *)
Disconnected(m, s, event) ==
  [i \in Ids |-> IF IsFound(i, s)
                 THEN [m[i] EXCEPT !.status = "disconnected", !.byEvent = event]
                 ELSE m[i]]

-----------------------------------------------------------------------------
(* deleteConnection(s), called by op as operation o, which then does op.after.  *)

(* Mistaken: connects whatever the deletion was for.                       *)
DeletedToStart(op) ==
  IF op.kind = "dispose" THEN Returned(op) ELSE [op EXCEPT !.at = "starting"]

Deleted(op) ==
  IF op.after = "starting" THEN [op EXCEPT !.at = "starting"] ELSE Returned(op)

(* Mistaken: forgets the connections without closing their transports.     *)
DeletesUnclosed(o, op) == GoesOn(o, [op EXCEPT !.at = "closing"]) /\ made' = made

(* With nothing to close the list is filtered at once.  Otherwise the      *)
(* transports found are closed, an await each.                             *)
Deletes(o, op) ==
  LET found == OfServer(op.server) IN
  /\ GoesOn(o, IF found = {} THEN Deleted(op) ELSE [op EXCEPT !.at = "closing"])
  /\ made' = [i \in Ids |->
       IF i \in found /\ made[i].process = "running"
       THEN [made[i] EXCEPT !.process = "closed"] ELSE made[i]]

(* Mistaken: the list keeps what was closed.                               *)
ClosedButListed(o) ==
  /\ ops[o].at = "closing"
  /\ GoesOn(o, Deleted(ops[o]))
  /\ UNCHANGED <<made, connections, isConnecting, isDisposed, wanted, broken>>

(* The list loses every connection of the server there now is.             *)
Closed(o) ==
  LET op == ops[o]  s == op.server IN
  /\ op.at = "closing"
  /\ connections' = connections \ OfServer(s)
  /\ GoesOn(o, Deleted(op))
  /\ UNCHANGED <<made, isConnecting, isDisposed, wanted, broken>>

-----------------------------------------------------------------------------
(* connectToServer.                                                        *)

(* The transport has started: the connection is pushed.                    *)
Starts(o) ==
  LET op == ops[o] IN
  /\ op.at = "starting"
  /\ Len(made) < MaxConnections
  /\ made' = Append(made, [server |-> op.server, config |-> op.goal[op.server],
                           status |-> "connecting", process |-> "running",
                           byEvent |-> FALSE])
  /\ connections' = connections \cup {Len(made) + 1}
  /\ GoesOn(o, [op EXCEPT !.at = "handshake", !.id = Len(made) + 1])
  /\ UNCHANGED <<isConnecting, isDisposed, wanted, broken>>

(* It has not: the connection found under the name is disconnected.        *)
StartFails(o) ==
  LET op == ops[o] IN
  /\ op.at = "starting"
  /\ made' = Disconnected(made, op.server, FALSE)
  /\ GoesOn(o, Returned(op))
  /\ UNCHANGED <<connections, isConnecting, isDisposed, wanted, broken>>

(* client.connect succeeds.                                                *)
Handshake(o) ==
  LET op == ops[o] IN
  /\ op.at = "handshake"
  /\ made[op.id].process = "running"
  /\ made' = Status(op.id, "connected")
  /\ GoesOn(o, Returned(op))
  /\ UNCHANGED <<connections, isConnecting, isDisposed, wanted, broken>>

(* It fails, and the client closes the transport.                          *)
HandshakeFails(o) ==
  LET op == ops[o]
      ended == IF made[op.id].process = "running"
               THEN [made EXCEPT ![op.id].process = "closed"] ELSE made IN
  /\ op.at = "handshake"
  /\ made' = Disconnected(ended, op.server, FALSE)
  /\ GoesOn(o, Returned(op))
  /\ UNCHANGED <<connections, isConnecting, isDisposed, wanted, broken>>

-----------------------------------------------------------------------------
(* The operations.                                                         *)

(* updateServerConnections: called at the start, when the settings file is *)
(* saved, and by deleteServer.                                             *)
UpdateServerConnections(o) ==
  /\ CanBegin(o)
  /\ \E settings \in Settings :
       /\ GoesOn(o, [Idle EXCEPT !.at = "next", !.kind = "update",
                       !.goal = settings,
                       !.todo = {s \in Servers :
                                   settings[s] # Absent \/ OfServer(s) # {}}])
       /\ wanted' = settings
  /\ isConnecting' = TRUE
  /\ UNCHANGED <<made, connections, isDisposed, broken>>

(* Mistaken: a server that has a connection is left as it is.              *)
UpdateServerByName(o, s) ==
  LET op == [ops[o] EXCEPT !.todo = @ \ {s}, !.server = s] IN
  /\ ops[o].at = "next" /\ ops[o].kind = "update" /\ s \in ops[o].todo
  /\ IF op.goal[s] = Absent \/ (OfServer(s) = {} /\ op.goal[s] # Invalid)
     THEN Deletes(o, [op EXCEPT !.after = IF op.goal[s] = Absent THEN "next"
                                          ELSE "starting"])
     ELSE GoesOn(o, Returned(op)) /\ made' = made
  /\ UNCHANGED <<connections, isConnecting, isDisposed, wanted, broken>>

(* One server of the loop: removed, new, changed (deepEqual compares with  *)
(* the settings as they were parsed, and deleteServer gives them unparsed, *)
(* so that an unchanged one may count as changed) or left as it is, also   *)
(* when its entry is not valid.                                            *)
UpdateServer(o, s) ==
  LET op == [ops[o] EXCEPT !.todo = @ \ {s}, !.server = s] IN
  /\ ops[o].at = "next" /\ ops[o].kind = "update" /\ s \in ops[o].todo
  /\ \/ op.goal[s] = Absent /\ Deletes(o, [op EXCEPT !.after = "next"])
     \/ op.goal[s] \in Configs /\ Deletes(o, [op EXCEPT !.after = "starting"])
     \/ /\ \/ op.goal[s] = Invalid
           \/ \E f \in Ids : IsFound(f, s) /\ op.goal[s] = made[f].config
        /\ GoesOn(o, Returned(op))
        /\ made' = made
  /\ UNCHANGED <<connections, isConnecting, isDisposed, wanted, broken>>

(* The loop is done.                                                       *)
Updated(o) ==
  /\ ops[o].at = "next" /\ ops[o].kind = "update" /\ ops[o].todo = {}
  /\ GoesOn(o, [ops[o] EXCEPT !.at = "notify"])
  /\ UNCHANGED <<made, connections, isConnecting, isDisposed, wanted, broken>>

(* Mistaken: a restart disconnects before its delay.                       *)
RestartDisconnects(o, s) ==
  LET op == [Idle EXCEPT !.kind = "restart", !.server = s] IN
  /\ CanBegin(o)
  /\ isConnecting' = TRUE
  /\ \E f \in Ids :
       /\ IsFound(f, s)
       /\ GoesOn(o, [op EXCEPT !.at = "delay", !.after = "starting",
                       !.goal = [@ EXCEPT ![s] = made[f].config]])
       /\ made' = Status(f, "disconnected")
  /\ UNCHANGED <<connections, isDisposed, wanted, broken>>

(* restartConnection: called by the user and by the watchers of a server's *)
(* files.  The configuration is that of the connection found.  Without its *)
(* provider it returns at once, and nothing lowers isConnecting.           *)
RestartConnection(o, s) ==
  LET op == [Idle EXCEPT !.kind = "restart", !.server = s] IN
  /\ CanBegin(o)
  /\ isConnecting' = TRUE
  /\ \/ /\ OfServer(s) = {}
        /\ GoesOn(o, [op EXCEPT !.at = "notify"])
        /\ UNCHANGED <<made, broken>>
     \/ /\ GoesOn(o, Done)
        /\ broken' = TRUE
        /\ made' = made
     \/ \E f \in Ids :
          /\ IsFound(f, s)
          /\ GoesOn(o, [op EXCEPT !.at = "delay", !.after = "starting",
                          !.goal = [@ EXCEPT ![s] = made[f].config]])
          /\ made' = Status(f, "connecting")
          /\ UNCHANGED broken
  /\ UNCHANGED <<connections, isDisposed, wanted>>

RestartDelayed(o) ==
  /\ ops[o].at = "delay"
  /\ Deletes(o, ops[o])
  /\ UNCHANGED <<connections, isConnecting, isDisposed, wanted, broken>>

(* Mistaken: only an update lowers isConnecting.                           *)
NotifiedOfUpdate(o) ==
  /\ ops[o].at = "notify"
  /\ GoesOn(o, Done)
  /\ isConnecting' = (isConnecting /\ ops[o].kind # "update")
  /\ UNCHANGED <<made, connections, isDisposed, wanted, broken>>

(* notifyWebviewOfServerChanges returns, and isConnecting is lowered.      *)
Notified(o) ==
  /\ ops[o].at = "notify"
  /\ GoesOn(o, Done)
  /\ isConnecting' = FALSE
  /\ UNCHANGED <<made, connections, isDisposed, wanted, broken>>

(* It throws, since the settings file cannot be read or parsed: nothing    *)
(* lowers isConnecting.                                                    *)
NotifyFails(o) ==
  /\ ops[o].at \in {"delay", "notify"}
  /\ GoesOn(o, Done)
  /\ broken' = TRUE
  /\ UNCHANGED <<made, connections, isConnecting, isDisposed, wanted>>

(* dispose: the connections are deleted one by one, then the list is       *)
(* emptied.                                                                *)
Dispose(o) ==
  /\ CanBegin(o) /\ ~isDisposed
  /\ isDisposed' = TRUE
  /\ GoesOn(o, [Idle EXCEPT !.at = "next", !.kind = "dispose",
                  !.todo = {made[i].server : i \in connections}])
  /\ UNCHANGED <<made, connections, isConnecting, wanted, broken>>

DisposeServer(o, s) ==
  /\ ops[o].at = "next" /\ ops[o].kind = "dispose" /\ s \in ops[o].todo
  /\ Deletes(o, [ops[o] EXCEPT !.todo = @ \ {s}, !.server = s,
                   !.after = "next"])
  /\ UNCHANGED <<connections, isConnecting, isDisposed, wanted, broken>>

Disposed(o) ==
  /\ ops[o].at = "next" /\ ops[o].kind = "dispose" /\ ops[o].todo = {}
  /\ connections' = {}
  /\ GoesOn(o, Done)
  /\ UNCHANGED <<made, isConnecting, isDisposed, wanted, broken>>

-----------------------------------------------------------------------------
(* The processes of the servers.                                           *)

Dies(i) ==
  /\ made[i].process = "running"
  /\ made' = [made EXCEPT ![i].process = "closed"]
  /\ UNCHANGED <<connections, isConnecting, isDisposed, ops, history>>

(* Mistaken: only a connection not yet connected hears of its end.       *)
OnCloseConnecting(i) ==
  LET gone == [made EXCEPT ![i].process = "gone"] IN
  /\ made[i].process = "closed"
  /\ made' = IF made[i].status = "connected" THEN gone
             ELSE Disconnected(gone, made[i].server, TRUE)
  /\ UNCHANGED <<connections, isConnecting, isDisposed, ops, history>>

(* transport.onclose: the connection found under the name now, which need  *)
(* not be the one of the transport, is disconnected.                       *)
OnClose(i) ==
  LET gone == [made EXCEPT ![i].process = "gone"] IN
  /\ made[i].process = "closed"
  /\ made' = Disconnected(gone, made[i].server, TRUE)
  /\ UNCHANGED <<connections, isConnecting, isDisposed, ops, history>>

(* transport.onerror, of a message that cannot be read or a fault of the   *)
(* pipes: the connection found is disconnected, and the process runs on.   *)
OnError(i) ==
  /\ made[i].process # "gone"
  /\ made' = Disconnected(made, made[i].server, TRUE)
  /\ UNCHANGED <<connections, isConnecting, isDisposed, ops, history>>

-----------------------------------------------------------------------------
Continue(o) ==
  \/ Closed(o) \/ Starts(o) \/ StartFails(o) \/ Handshake(o)
  \/ HandshakeFails(o) \/ Updated(o) \/ RestartDelayed(o)
  \/ Notified(o) \/ NotifyFails(o) \/ Disposed(o)
  \/ \E s \in Servers : UpdateServer(o, s) \/ DisposeServer(o, s)

Begin(o) ==
  \/ UpdateServerConnections(o) \/ Dispose(o)
  \/ \E s \in Servers : RestartConnection(o, s)

Next ==
  \/ \E o \in Slots : Begin(o) \/ Continue(o)
  \/ \E i \in Ids : Dies(i) \/ OnClose(i) \/ OnError(i)

Spec == Init /\ [][Next]_vars

-----------------------------------------------------------------------------
TypeOK ==
  /\ \A i \in Ids :
       /\ made[i].server \in Servers
       /\ made[i].config \in Configs
       /\ made[i].status \in {"connecting", "connected", "disconnected"}
       /\ made[i].process \in {"running", "closed", "gone"}
       /\ made[i].byEvent \in BOOLEAN
  /\ connections \subseteq Ids
  /\ \A o \in Slots : /\ ops[o].at \in Places
                      /\ ops[o].goal \in Settings
                      /\ ops[o].todo \subseteq Servers

(* A running server process belongs to a connection in the list, so that a *)
(* deletion or the disposal ends it.  (Unless two operations have worked   *)
(* on the server at once.)                                                 *)
NoProcessLeaks ==
  \A i \in Ids : made[i].process = "running" =>
    i \in connections \/ made[i].server \in tangled

(* A server has one connection (with the same exception).                  *)
OneConnection ==
  \A i, j \in connections : made[i].server = made[j].server =>
    i = j \/ made[i].server \in tangled

(* A connection in the list that is shown as connected has a process, or   *)
(* the event of its end is on the way.                                     *)
ConnectedIsAlive ==
  \A i \in connections : made[i].status = "connected" =>
    made[i].process # "gone" \/ made[i].server \in tangled

(* A connection in the list that is shown as disconnected has no running   *)
(* process: a start, a handshake or a restart that fails leaves none.  The *)
(* exception is one that an event of a transport has disconnected last, an *)
(* error, which ends no process, or the end of an earlier process, which   *)
(* is put to the account of the connection found under the name.           *)
DisconnectedIsDead ==
  \A i \in connections :
    made[i].status = "disconnected" /\ made[i].process = "running" =>
      made[i].server \in tangled \/ made[i].byEvent

(* isConnecting, on which a request to the model waits, is up as long as   *)
(* an update or a restart is under way, and no longer: unless two          *)
(* operations have overlapped or one has ended in an error.                *)
ConnectingIsShown ==
  ~overlapped /\ ~broken =>
    (isConnecting <=> \E o \in Busy : ops[o].kind # "dispose")

(* With no operation under way the connections are those of the settings   *)
(* last given: a server not in them has none, and a connection has the     *)
(* configuration in them.  An invalid entry leaves what there was.         *)
FollowsSettings ==
  Busy = {} /\ ~overlapped =>
    \A i \in connections : wanted[made[i].server] \in {made[i].config, Invalid}
=============================================================================
