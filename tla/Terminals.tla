------------------------------- MODULE Terminals -------------------------------
(***************************************************************************)
(* The terminals that commands of the tasks run in: the static registry    *)
(* (TerminalRegistry), a terminal (Terminal), the process object of one    *)
(* command (TerminalProcess) and the caller, Cline.executeCommandTool.     *)
(*                                                                         *)
(* The registry is shared by the tasks of all providers.  A terminal has   *)
(* one slot for a process; VS Code runs the commands of a terminal one     *)
(* after the other and reports the start (with the output stream) and the  *)
(* end of each, without saying whose it is.  Three waits have timeouts:    *)
(* for shell integration, for the stream, and (left out, it only delays)   *)
(* for a hot process to cool down.                                         *)
(***************************************************************************)
EXTENDS Integers, Sequences, FiniteSets

CONSTANTS Tasks,        \* the tasks that run commands
          MaxTerminals, \* bound on the terminals created
          MaxCommands,  \* bound on the commands run, by tasks or by hand
          MaxLosses     \* bound on tasks aborted and terminals closed

ASSUME TerminalsAssumption ==
  MaxTerminals \in Nat /\ MaxCommands \in Nat /\ MaxLosses \in Nat

VARIABLES terminals, \* every Terminal ever created, in that order
          processes, \* every TerminalProcess ever created, in that order
          callers,   \* for each task where its executeCommandTool is
          manual     \* how many commands the user has typed

vars == <<terminals, processes, callers, manual>>

None == 0          \* no process, terminal or execution
NoTask == "none"   \* taskId undefined
ByHand == -1       \* the execution of a command typed by the user

(* Phases of TerminalProcess.run:                                          *)
(*   shell    runCommand has returned, waiting for shell integration       *)
(*   stream   the command is given to VS Code, waiting for its stream      *)
(*   reading  in the loop over the stream                                  *)
(*   ending   the stream is read, waiting for the end of the execution     *)
(*   done     "completed" emitted after the end                            *)
(*   gaveUp   "no_shell_integration": nothing is known of the command      *)
Phases == {"shell", "stream", "reading", "ending", "done", "gaveUp"}

(* Where a task is: without a command, between getOrCreateTerminal and     *)
(* runCommand (also when it has been aborted there), waiting for the       *)
(* promise of a process, aborted.                                          *)
Places == {"idle", "picked", "abortedPicked", "waiting", "gone"}

Terminals == 1..Len(terminals)
Processes == 1..Len(processes)

Init ==
  /\ terminals = <<>>
  /\ processes = <<>>
  /\ callers = [t \in Tasks |-> [at |-> "idle", on |-> None]]
  /\ manual = 0

Gone == [at |-> "gone", on |-> None]

Losses ==
  Cardinality({t \in Tasks : callers[t].at \in {"abortedPicked", "gone"}})
  + Cardinality({x \in Terminals : terminals[x].closed})

NewTerminal(t) ==
  [closed |-> FALSE, busy |-> FALSE, running |-> FALSE, process |-> None,
   owner |-> t, kept |-> {}, current |-> None, queue |-> <<>>]

NewProcess(t, x) ==
  [term |-> x, task |-> t, phase |-> "shell",
   told |-> FALSE, unread |-> FALSE, exit |-> None, late |-> FALSE]

(* "completed" has been emitted, so the handler that lowers busy is gone.  *)
Completed(p) == processes[p].phase \in {"done", "gaveUp"}

-----------------------------------------------------------------------------
(* The registry.                                                           *)

(* Mistaken variant of Candidates: a busy terminal is taken as well.       *)
CandidatesBusyToo(t, here, required) ==
  {x \in Terminals : ~terminals[x].closed} \cap here

(* The terminals of which getOrCreateTerminal returns the first to task t, *)
(* when the wanted directory is that of the terminals in `here`: the free  *)
(* ones of the task there, else the free ones there, else, unless the      *)
(* directory is required, the free ones.  Without any, one is created.     *)
Candidates(t, here, required) ==
  LET free == {x \in Terminals : ~terminals[x].closed /\ ~terminals[x].busy}
      own == {x \in free \cap here : terminals[x].owner = t}
  IN  CASE own # {} -> own
        [] own = {} /\ free \cap here # {} -> free \cap here
        [] OTHER -> IF required THEN {} ELSE free

(* The task has no command, or the promise of its command has resolved and *)
(* executeCommandTool has returned.                                        *)
CanRun(t) ==
  \/ callers[t].at = "idle"
  \/ callers[t].at = "waiting" /\ processes[callers[t].on].told

(* getOrCreateTerminal, then executeCommandTool awaits getState.           *)
PickTerminal(t) ==
  /\ CanRun(t)
  /\ Len(processes) + manual < MaxCommands
  /\ \E here \in SUBSET Terminals, required \in BOOLEAN :
       LET found == Candidates(t, here, required) IN
       \/ /\ found = {} /\ Len(terminals) < MaxTerminals
          /\ terminals' = Append(terminals, NewTerminal(t))
          /\ callers' = [callers EXCEPT ![t] =
                           [at |-> "picked", on |-> Len(terminals) + 1]]
       \/ \E x \in found :
            /\ \A y \in found : x <= y
            /\ terminals' = [terminals EXCEPT ![x].owner = t]
            /\ callers' = [callers EXCEPT ![t] = [at |-> "picked", on |-> x]]
  /\ UNCHANGED <<processes, manual>>

(* Terminal.runCommand: the terminal is busy and its slot is the new       *)
(* process, whatever was in it.                                            *)
RunCommand(t) ==
  LET x == callers[t].on  p == Len(processes) + 1 IN
  /\ callers[t].at \in {"picked", "abortedPicked"}
  /\ Len(processes) + manual < MaxCommands
  /\ processes' = Append(processes, NewProcess(t, x))
  /\ terminals' = [terminals EXCEPT ![x].busy = TRUE, ![x].process = p]
  /\ callers' = [callers EXCEPT ![t] = IF callers[t].at = "picked"
                                       THEN [at |-> "waiting", on |-> p]
                                       ELSE Gone]
  /\ UNCHANGED manual

(* Mistaken variant of Abort: the terminal already picked is forgotten.    *)
AbortForgetting(t) ==
  /\ Losses < MaxLosses
  /\ callers[t].at = "picked"
  /\ callers' = [callers EXCEPT ![t] = [at |-> "abortedPicked", on |-> None]]
  /\ UNCHANGED <<terminals, processes, manual>>

(* abortTask with its releaseTerminalsForTask.  The command of the task,   *)
(* and an executeCommandTool that has not started it yet, go on.           *)
Abort(t) ==
  /\ Losses < MaxLosses
  /\ callers[t].at \in {"idle", "picked", "waiting"}
  /\ callers' = [callers EXCEPT ![t] =
       IF callers[t].at = "picked" THEN [@ EXCEPT !.at = "abortedPicked"]
       ELSE Gone]
  /\ terminals' = [x \in Terminals |->
       IF terminals[x].owner = t THEN [terminals[x] EXCEPT !.owner = NoTask]
       ELSE terminals[x]]
  /\ UNCHANGED <<processes, manual>>

(* getEnvironmentDetails reports the output not reported yet: of the busy  *)
(* terminals that are the task's or nobody's that of their slot and of the *)
(* completed processes, of the others that of the completed processes.     *)
ReportOutput(t) ==
  LET mine == {x \in Terminals : /\ ~terminals[x].closed
                                 /\ terminals[x].owner \in {t, NoTask}}
      read == UNION {terminals[x].kept : x \in mine}
              \cup {terminals[x].process :
                      x \in {y \in mine : terminals[y].busy}}
  IN /\ CanRun(t)
     /\ \E p \in read \ {None} : processes[p].unread
     /\ processes' = [p \in Processes |->
          IF p \in read THEN [processes[p] EXCEPT !.unread = FALSE]
          ELSE processes[p]]
     /\ terminals' = [x \in Terminals |->
          IF x \in mine THEN [terminals[x] EXCEPT !.kept = {}]
          ELSE terminals[x]]
     /\ UNCHANGED <<callers, manual>>

-----------------------------------------------------------------------------
(* The process of a command.                                               *)

(* Mistaken variant of GiveUp: the handler does not lower busy.            *)
GiveUpBusy(p) ==
  /\ processes' = [processes EXCEPT ![p].phase = "gaveUp", ![p].told = TRUE]
  /\ UNCHANGED <<terminals, callers, manual>>

(* "no_shell_integration": completed, busy lowered, the process told to    *)
(* continue.  The slot of the terminal keeps the process.                  *)
GiveUp(p) ==
  /\ processes' = [processes EXCEPT ![p].phase = "gaveUp", ![p].told = TRUE]
  /\ terminals' = [terminals EXCEPT ![processes[p].term].busy = FALSE]
  /\ UNCHANGED <<callers, manual>>

(* Shell integration is there: run gives the command to VS Code.           *)
Execute(p) ==
  LET x == processes[p].term IN
  /\ processes[p].phase = "shell"
  /\ processes' = [processes EXCEPT ![p].phase = "stream"]
  /\ terminals' = [terminals EXCEPT ![x].queue = Append(@, p)]
  /\ UNCHANGED <<callers, manual>>

(* It has not come in time, or cannot execute commands (sendText).         *)
NoShellIntegration(p) ==
  /\ processes[p].phase = "shell"
  /\ GiveUp(p)

(* The stream has not come in time; its listener is removed.               *)
StreamTimeout(p) ==
  /\ processes[p].phase = "stream"
  /\ GiveUp(p)

(* Output of a command whose task no longer waits: it is unread until a    *)
(* report.  (What comes while the task waits is shown to the user.)        *)
Output(p) ==
  /\ processes[p].phase = "reading" /\ processes[p].told
  /\ processes' = [processes EXCEPT ![p].unread = TRUE]
  /\ UNCHANGED <<terminals, callers, manual>>

(* The stream ends.                                                        *)
StreamEnds(p) ==
  /\ processes[p].phase = "reading"
  /\ processes' = [processes EXCEPT ![p].phase = "ending"]
  /\ UNCHANGED <<terminals, callers, manual>>

(* run goes on after the end of the execution: completed, which lowers     *)
(* busy, and continue are emitted.                                         *)
Complete(p) ==
  /\ processes[p].phase = "ending"
  /\ processes[p].exit # None
  /\ processes' = [processes EXCEPT ![p].phase = "done", ![p].told = TRUE,
                     ![p].late = terminals[processes[p].term].process # None]
  /\ terminals' = [terminals EXCEPT ![processes[p].term].busy = FALSE]
  /\ UNCHANGED <<callers, manual>>

(* The user answers the question that comes with the first output; either  *)
(* answer lets the task go on while the command runs                       *)
(* (TerminalProcess.continue).                                             *)
ProceedWhileRunning(p) ==
  /\ processes[p].phase \in {"reading", "ending"} /\ ~processes[p].told
  /\ callers[processes[p].task] = [at |-> "waiting", on |-> p]
  /\ processes' = [processes EXCEPT ![p].told = TRUE]
  /\ UNCHANGED <<terminals, callers, manual>>

-----------------------------------------------------------------------------
(* VS Code's events and their handlers.                                    *)

(* The next command of a terminal starts.  Its stream goes to the process  *)
(* in the slot, which takes it when it waits for one.                      *)
ExecutionStarts(x) ==
  LET s == terminals[x].process IN
  /\ ~terminals[x].closed
  /\ terminals[x].current = None /\ terminals[x].queue # <<>>
  /\ terminals' = [terminals EXCEPT
                     ![x].current = Head(terminals[x].queue),
                     ![x].queue = Tail(@),
                     ![x].running = s # None]
  /\ processes' = [p \in Processes |->
       IF p = s /\ processes[p].phase = "stream"
       THEN [processes[p] EXCEPT !.phase = "reading"] ELSE processes[p]]
  /\ UNCHANGED <<callers, manual>>

(* Mistaken variant of Ended: the slot is emptied before the process is    *)
(* told, so nobody is.                                                     *)
EndedUnheard(x, e) ==
  /\ terminals' = [terminals EXCEPT ![x].current = None, ![x].process = None,
                     ![x].running = FALSE, ![x].busy = FALSE]
  /\ UNCHANGED processes

(* Mistaken variant of Ended: a process with unread output is not queued.  *)
EndedUnqueued(x, e) ==
  LET s == terminals[x].process
      heard == terminals[x].running /\ s # None IN
  /\ terminals' = [terminals EXCEPT ![x] =
       IF heard THEN [@ EXCEPT !.current = None, !.running = FALSE,
                        !.busy = FALSE, !.process = None]
       ELSE [@ EXCEPT !.current = None]]
  /\ processes' = [p \in Processes |->
       IF heard /\ p = s THEN [processes[p] EXCEPT !.exit = e]
       ELSE processes[p]]

(* It ends.  The event is ignored when no start was noted for a process,   *)
(* or the slot is empty; else shellExecutionComplete frees the terminal,   *)
(* queues a process with output to be reported, tells the process and      *)
(* empties the slot.  run's own listener is there from phase "stream" on;  *)
(* an end before that only reaches the callback of executeCommandTool.     *)
Ended(x, e) ==
  LET s == terminals[x].process
      heard == terminals[x].running /\ s # None
      rest == [terminals[x] EXCEPT !.current = None]
  IN /\ terminals' = [terminals EXCEPT ![x] =
          IF heard
          THEN [rest EXCEPT !.running = FALSE, !.busy = FALSE,
                  !.process = None,
                  !.kept = IF processes[s].unread THEN @ \cup {s} ELSE @]
          ELSE rest]
     /\ processes' = [p \in Processes |->
          IF heard /\ p = s THEN [processes[p] EXCEPT !.exit = e]
          ELSE processes[p]]

ExecutionEnds(x) ==
  /\ ~terminals[x].closed
  /\ terminals[x].current # None
  /\ Ended(x, terminals[x].current)
  /\ UNCHANGED <<callers, manual>>

(* The user types a command at the prompt of a terminal.                   *)
TypeByHand(x) ==
  /\ Len(processes) + manual < MaxCommands
  /\ ~terminals[x].closed
  /\ terminals[x].current = None /\ terminals[x].queue = <<>>
  /\ terminals' = [terminals EXCEPT ![x].queue = Append(@, ByHand)]
  /\ manual' = manual + 1
  /\ UNCHANGED <<processes, callers>>

(* The user closes a terminal: the registry drops it at its next look, and *)
(* its processes hear nothing any more.                                    *)
Close(x) ==
  /\ Losses < MaxLosses
  /\ ~terminals[x].closed
  /\ terminals' = [terminals EXCEPT ![x].closed = TRUE]
  /\ UNCHANGED <<processes, callers, manual>>

-----------------------------------------------------------------------------
TaskStep(t) ==
  PickTerminal(t) \/ RunCommand(t) \/ Abort(t) \/ ReportOutput(t)

ProcessStep(p) ==
  Execute(p) \/ NoShellIntegration(p) \/ StreamTimeout(p) \/ Output(p)
  \/ StreamEnds(p) \/ Complete(p) \/ ProceedWhileRunning(p)

TerminalStep(x) ==
  ExecutionStarts(x) \/ ExecutionEnds(x) \/ TypeByHand(x) \/ Close(x)

Next ==
  \/ \E t \in Tasks : TaskStep(t)
  \/ \E p \in Processes : ProcessStep(p)
  \/ \E x \in Terminals : TerminalStep(x)

Spec == Init /\ [][Next]_vars

-----------------------------------------------------------------------------
TypeOK ==
  /\ \A x \in Terminals :
       /\ terminals[x].process \in Processes \cup {None}
       /\ terminals[x].kept \subseteq Processes
  /\ \A p \in Processes :
       /\ processes[p].term \in Terminals
       /\ processes[p].phase \in Phases
       /\ processes[p].exit \in Processes \cup {ByHand, None}
  /\ \A t \in Tasks :
       /\ callers[t].at \in Places
       /\ callers[t].at \in {"picked", "abortedPicked"} => callers[t].on \in Terminals
       /\ callers[t].at = "waiting" => callers[t].on \in Processes

(* A busy terminal is busy for the command started in it last: that one is *)
(* not completed, so busy will be lowered.                                 *)
BusyHasAReason ==
  \A x \in Terminals : terminals[x].busy =>
    \E p \in Processes : /\ processes[p].term = x
                         /\ ~Completed(p)
                         /\ \A q \in Processes :
                              processes[q].term = x => q <= p

(* Two tasks have run commands in the terminal, at any time.               *)
Shared(x) ==
  \E p, q \in Processes : /\ processes[p].term = x /\ processes[q].term = x
                          /\ processes[p].task # processes[q].task

(* A command its task waits for, in an open terminal that only this task   *)
(* has used, can still hear of its end: it is in the slot or has heard.    *)
EndWillBeHeard ==
  \A p \in Processes :
    LET x == processes[p].term IN
    /\ processes[p].phase \in {"reading", "ending"} /\ ~processes[p].told
    /\ ~terminals[x].closed /\ ~Shared(x)
    => terminals[x].process = p \/ processes[p].exit # None

(* A command that ran in the background was completed late, after the      *)
(* terminal had got its next command: that one's busy is lowered.          *)
CompletedLate(x) ==
  \E p \in Processes : processes[p].term = x /\ processes[p].late

(* The exit code a command hears is its own, unless the terminal is shared *)
(* or has seen a late completion, a command that was given up, or one that *)
(* took the end of a command typed by hand.                                *)
ExitIsOwn ==
  \A p \in Processes : processes[p].exit \in Processes \ {p} =>
    LET x == processes[p].term IN
    \/ Shared(x) \/ CompletedLate(x)
    \/ \E q \in Processes : /\ processes[q].term = x
                            /\ \/ processes[q].phase = "gaveUp"
                               \/ processes[q].exit = ByHand

Reportable(p) ==
  LET x == terminals[processes[p].term] IN x.process = p \/ p \in x.kept

(* Output that a later report would include stays so until it is reported, *)
(* in a terminal that is not shared and has seen no late completion.       *)
OutputIsKept ==
  [][\A p \in Processes :
       LET x == processes[p].term IN
       processes[p].unread /\ Reportable(p) =>
         \/ ~processes'[p].unread
         \/ Reportable(p)'
         \/ Shared(x)' \/ CompletedLate(x)]_vars
=============================================================================
