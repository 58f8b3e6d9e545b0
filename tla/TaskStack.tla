------------------------------- MODULE TaskStack -------------------------------
(***************************************************************************)
(* The provider's stack of tasks (class ClineProvider) and the protocol by *)
(* which a task starts a subtask, waits for it and takes its result.       *)
(*                                                                         *)
(* A task in the stack is an instance of Cline; the inside of its request  *)
(* loop is module RequestLoop, here it is only "busy".  A provider         *)
(* operation (cancelTask, clearTask, ...) is a piece of asynchronous code: *)
(* what it still has to do after its next await is a member of `ops`.      *)
(* Nothing keeps two of them from overlapping.                             *)
(***************************************************************************)
EXTENDS Naturals, Sequences, FiniteSets

CONSTANTS MaxClines,  \* bound on the instances created
          MaxHurried, \* the same once operations have overlapped
          MaxOps,     \* bound on the provider operations under way
          Modes       \* the modes, with one to start with
CONSTANT  DefaultMode

ASSUME StackAssumption ==
  /\ MaxClines \in Nat /\ MaxHurried \in Nat /\ MaxOps \in Nat
  /\ DefaultMode \in Modes

VARIABLES clines,  \* every instance of Cline ever created, in that order
          stack,   \* clineStack, instances by their index in clines
          mode,    \* the global mode
          ops,     \* provider operations waiting at an await
          orderly, \* history variable: the user has kept to the protocol
          strays   \* history variable: children of tasks already removed

vars == <<clines, stack, mode, ops, orderly, strays>>

(* Where an instance is:                                                   *)
(*   busy      in its request loop                                         *)
(*   resume    made from a history item, asking whether to resume          *)
(*   spawning  new_task approved: switching mode, creating the child       *)
(*   handover  the child is on the stack, isPaused not yet set             *)
(*   pausing   isPaused set, on the way to the check of the next request   *)
(*   waiting   in waitForResume                                            *)
(*   finishing attempt_completion approved, about to call finishSubTask    *)
(*   over      nothing of it runs any more                                 *)
Places == {"busy", "resume", "spawning", "handover", "pausing", "waiting",
           "finishing", "over"}

Ids == 1..Len(clines)

Top == stack[Len(stack)]

IsTop(i) == stack # <<>> /\ i = Top

Init ==
  /\ clines = <<>>
  /\ stack = <<>>
  /\ mode = DefaultMode
  /\ ops = {}
  /\ orderly = TRUE
  /\ strays = {}

-----------------------------------------------------------------------------
(* Operations and their steps.                                             *)

\* The slot for another operation: equal operations are still two.
FreeSlots ==
  {s \in 1..MaxOps : /\ \A o \in ops : o.slot # s
                     /\ \A t \in 1..(s - 1) : \E o \in ops : o.slot = t}

\* What is left to do: restart the task of a history item in the place of the
\* top of the stack, push an instance, or resume the top after a removal.
Op(slot, step, cline, task, parent) ==
  [slot |-> slot, step |-> step, cline |-> cline, task |-> task, parent |-> parent]

\* A task hands over to another: the user had better leave it alone.
HandingOver ==
  \E k \in 1..Len(stack) :
    clines[stack[k]].at \in {"spawning", "handover", "pausing", "finishing"}

\* An operation begins; it is orderly when nothing else is under way.
Begins(inProtocol) ==
  orderly' = (orderly /\ inProtocol /\ ops = {} /\ ~HandingOver)

\* removeClineFromStack up to its await: pop and abort at once.  What goes on
\* in an instance without asking for abort is left to go on.
Removed(cs, i) ==
  [cs EXCEPT ![i].aborted = TRUE, ![i].abandoned = TRUE,
             ![i].at = IF @ \in {"spawning", "handover", "finishing"} THEN @ ELSE "over"]

\* Mistaken variant: the popped instance is not aborted.
PopsOnly(cs) ==
  /\ stack # <<>>
  /\ stack' = SubSeq(stack, 1, Len(stack) - 1)
  /\ clines' = cs

Pops(cs) ==
  /\ stack # <<>>
  /\ stack' = SubSeq(stack, 1, Len(stack) - 1)
  /\ clines' = Removed(cs, Top)

\* new Cline and the push of addClineToStack: no await between them.
NewCline(task, parent, at) ==
  [task |-> task, parent |-> parent, at |-> at, paused |-> FALSE,
   pausedMode |-> DefaultMode, aborted |-> FALSE, abandoned |-> FALSE]

\* Mistaken variant: the index is pushed, the instance is not there.
PushesIndex(cs, c) ==
  /\ Len(clines) < IF orderly THEN MaxClines ELSE MaxHurried
  /\ clines' = cs
  /\ stack' = Append(stack, Len(clines) + 1)

Pushes(cs, c) ==
  /\ Len(clines) < IF orderly THEN MaxClines ELSE MaxHurried
  /\ clines' = Append(cs, c)
  /\ stack' = Append(stack, Len(clines) + 1)

MovesOn(i, at) == clines' = [clines EXCEPT ![i].at = at]

-----------------------------------------------------------------------------
(* The user's operations.                                                  *)

\* A new task, from the chat or from a code action: initClineWithTask waits
\* for the provider's state.  Nothing is taken off the stack.
NewTask ==
  /\ \E s \in FreeSlots : ops' = ops \cup {Op(s, "push", 0, 0, 0)}
  /\ Begins(stack = <<>>)
  /\ UNCHANGED <<clines, stack, mode, strays>>

\* clearTask, clearCurrentTask and deleteTaskWithId: finishSubTask.
Clear ==
  /\ Pops(clines)
  /\ \E s \in FreeSlots : ops' = ops \cup {Op(s, "resume", 0, clines[Top].task, 0)}
  /\ Begins(TRUE)
  /\ UNCHANGED <<mode, strays>>

\* The plus button, resetState and a new webview: removeClineFromStack alone.
Plus ==
  /\ Pops(clines)
  /\ Begins(Len(stack) = 1)
  /\ UNCHANGED <<mode, ops, strays>>

\* cancelTask picks the top and reads its history item.
Cancel ==
  /\ stack # <<>>
  /\ \E s \in FreeSlots :
       ops' = ops \cup {Op(s, "cancel", Top, clines[Top].task, clines[Top].parent)}
  /\ Begins(TRUE)
  /\ UNCHANGED <<clines, stack, mode, strays>>

\* showTaskWithId for a task that is not the current one.
Show ==
  /\ \E i \in Ids, s \in FreeSlots :
       /\ stack # <<>> => clines[i].task # clines[Top].task
       /\ ops' = ops \cup {Op(s, "show", 0, clines[i].task, 0)}
  /\ Begins(stack = <<>>)
  /\ UNCHANGED <<clines, stack, mode, strays>>

-----------------------------------------------------------------------------
(* How the operations go on.                                               *)

Done(o) == ops' = ops \ {o}

Becomes(o, step) == ops' = (ops \ {o}) \cup {[o EXCEPT !.step = step]}

\* cancelTask aborts the instance it picked and waits for its stream to end,
\* for three seconds at most.
CancelAborts(o) ==
  /\ o.step = "cancel"
  /\ clines' = [clines EXCEPT ![o.cline].aborted = TRUE]
  /\ Becomes(o, "replace")
  /\ UNCHANGED <<stack, mode, orderly, strays>>

\* Mistaken variant: the cancelled instance is left on the stack.
ReplacesNothing(o) ==
  /\ o.step \in {"replace", "show"}
  /\ Becomes(o, "restart")
  /\ UNCHANGED <<clines, stack, mode, orderly, strays>>

\* initClineWithHistoryItem removes whatever is on top now.
Replaces(o) ==
  /\ o.step \in {"replace", "show"}
  /\ IF stack = <<>> THEN UNCHANGED <<clines, stack>> ELSE Pops(clines)
  /\ Becomes(o, "restart")
  /\ UNCHANGED <<mode, orderly, strays>>

\* ... and pushes an instance for the history item.
Restarts(o) ==
  /\ o.step = "restart"
  /\ Pushes(clines, NewCline(o.task, o.parent, "resume"))
  /\ Done(o)
  /\ UNCHANGED <<mode, orderly, strays>>

StartsTask(o) ==
  /\ o.step = "push"
  /\ Pushes(clines, NewCline(Len(clines) + 1, 0, "busy"))
  /\ Done(o)
  /\ UNCHANGED <<mode, orderly, strays>>

\* Mistaken variant: the result is given, isPaused is not lowered.
ResumesNobody(o) ==
  /\ o.step = "resume"
  /\ Done(o)
  /\ UNCHANGED <<clines, stack, mode, orderly, strays>>

\* finishSubTask: resumePausedTask of what is on top now.  Its say() makes a
\* pending resume_task ask throw, and nothing catches that.
ResumesTop(o) ==
  /\ o.step = "resume"
  /\ IF stack = <<>> THEN UNCHANGED clines
     ELSE clines' = [clines EXCEPT ![Top].paused = FALSE,
                                   ![Top].at = IF @ = "resume" THEN "over" ELSE @]
  /\ Done(o)
  /\ UNCHANGED <<stack, mode, orderly, strays>>

-----------------------------------------------------------------------------
(* The tasks.  Answers to what they ask go to the top of the stack.        *)

\* resume_task answered.
Resumes(i) ==
  /\ clines[i].at = "resume" /\ IsTop(i) /\ ~clines[i].aborted
  /\ MovesOn(i, "busy")
  /\ UNCHANGED <<stack, mode, ops, orderly, strays>>

\* new_task approved: remember the mode and switch to the child's.
Spawns(i) ==
  /\ clines[i].at = "busy" /\ IsTop(i) /\ ~clines[i].aborted
  /\ clines' = [clines EXCEPT ![i].at = "spawning", ![i].pausedMode = mode]
  /\ mode' \in Modes
  /\ Begins(TRUE)
  /\ UNCHANGED <<stack, ops, strays>>

\* initClineWithTask for the child.  Nothing asks whether the parent has been
\* aborted meanwhile.
SpawnsChild(i) ==
  /\ clines[i].at = "spawning"
  /\ Pushes([clines EXCEPT ![i].at = "handover"],
            NewCline(Len(clines) + 1, i, "busy"))
  /\ strays' = IF clines[i].abandoned THEN strays \cup {Len(clines) + 1} ELSE strays
  /\ UNCHANGED <<mode, ops, orderly>>

\* The result is pushed and isPaused set, after addClineToStack has returned.
Pauses(i) ==
  /\ clines[i].at = "handover"
  /\ clines' = [clines EXCEPT ![i].at = IF clines[i].aborted THEN "over" ELSE "pausing",
                              ![i].paused = TRUE]
  /\ UNCHANGED <<stack, mode, ops, orderly, strays>>

\* Mistaken variant: the next request does not look at isPaused.
ChecksNothing(i) ==
  /\ clines[i].at = "pausing" /\ ~clines[i].aborted
  /\ MovesOn(i, "busy")
  /\ UNCHANGED <<stack, mode, ops, orderly, strays>>

\* The next request waits when isPaused is set.
ChecksPause(i) ==
  /\ clines[i].at = "pausing" /\ ~clines[i].aborted
  /\ MovesOn(i, IF clines[i].paused THEN "waiting" ELSE "busy")
  /\ UNCHANGED <<stack, mode, ops, orderly, strays>>

\* Mistaken variant: the mode is left as the subtask had it.
WakesAsItIs(i) ==
  /\ clines[i].at = "waiting" /\ ~clines[i].aborted /\ ~clines[i].paused
  /\ MovesOn(i, "busy")
  /\ UNCHANGED <<stack, mode, ops, orderly, strays>>

\* waitForResume sees isPaused lowered: back to the mode of before.  An abort
\* clears its interval, so it never returns.
Wakes(i) ==
  /\ clines[i].at = "waiting" /\ ~clines[i].aborted /\ ~clines[i].paused
  /\ MovesOn(i, "busy")
  /\ mode' = clines[i].pausedMode
  /\ UNCHANGED <<stack, ops, orderly, strays>>

\* A subtask's completion approved; ask() returns only when it polls next.
Completes(i) ==
  /\ clines[i].at = "busy" /\ IsTop(i) /\ ~clines[i].aborted /\ clines[i].parent # 0
  /\ MovesOn(i, "finishing")
  /\ Begins(TRUE)
  /\ UNCHANGED <<stack, mode, ops, strays>>

\* finishSubTask removes the top, even if the task has been aborted meanwhile.
Finishes(i) ==
  /\ clines[i].at = "finishing"
  /\ \E s \in FreeSlots :
       IF stack = <<>>
       THEN MovesOn(i, "over") /\ UNCHANGED <<stack, ops>>
       ELSE /\ Pops([clines EXCEPT ![i].at = "over"])
            /\ ops' = ops \cup {Op(s, "resume", 0, clines[Top].task, 0)}
  /\ UNCHANGED <<mode, orderly, strays>>

\* The stream throws: the task aborts itself and has itself restarted, without
\* its parent.  An abandoned one leaves it at that.  A tool that runs goes on.
StreamFails(i) ==
  /\ \/ clines[i].at = "busy" /\ ~clines[i].abandoned
     \/ /\ clines[i].at \in {"spawning", "handover", "pausing", "finishing"}
        /\ ~clines[i].aborted
  /\ clines' = [clines EXCEPT ![i].at = IF @ \in {"busy", "pausing"} THEN "over" ELSE @,
                              ![i].aborted = TRUE]
  /\ \E s \in FreeSlots : ops' = ops \cup {Op(s, "replace", 0, clines[i].task, 0)}
  /\ Begins(TRUE)
  /\ UNCHANGED <<stack, mode, strays>>

-----------------------------------------------------------------------------

User == NewTask \/ Clear \/ Plus \/ Cancel \/ Show

Provider(o) ==
  CancelAborts(o) \/ Replaces(o) \/ Restarts(o) \/ StartsTask(o) \/ ResumesTop(o)

Task(i) ==
  \/ Resumes(i) \/ Spawns(i) \/ SpawnsChild(i) \/ Pauses(i) \/ ChecksPause(i)
  \/ Wakes(i) \/ Completes(i) \/ Finishes(i) \/ StreamFails(i)

Next ==
  \/ User
  \/ \E o \in ops : Provider(o)
  \/ \E i \in Ids : Task(i)

Spec == Init /\ [][Next]_vars

-----------------------------------------------------------------------------
(* What the stack must guarantee.                                          *)

ClineType ==
  [task : Nat \ {0}, parent : Nat, at : Places, paused : BOOLEAN, pausedMode : Modes,
   aborted : BOOLEAN, abandoned : BOOLEAN]

OpType ==
  [slot : 1..MaxOps, step : {"cancel", "show", "replace", "restart", "push", "resume"},
   cline : Nat, task : Nat, parent : Nat]

\* The variables have their types, and the stack holds instances that exist.
TypeOK ==
  /\ clines \in Seq(ClineType)
  /\ stack \in Seq(Ids)
  /\ mode \in Modes
  /\ ops \subseteq OpType
  /\ orderly \in BOOLEAN
  /\ strays \subseteq Ids

\* Whatever operations overlap, a task that has not been aborted is on the
\* stack, where the user can reach it: none runs on unseen.
LiveInStack ==
  \A i \in Ids : ~clines[i].aborted => \E k \in 1..Len(stack) : stack[k] = i

\* One task makes requests at a time, however deep the subtasks are and however
\* often they were cancelled and resumed.
OneRunner ==
  orderly =>
    \A i, j \in Ids :
      (/\ clines[i].at = "busy" /\ ~clines[i].aborted
       /\ clines[j].at = "busy" /\ ~clines[j].aborted) => i = j

\* A task's id is the index of its first instance, which knows who spawned it.
Spawner(task) == IF clines[task].parent = 0 THEN 0 ELSE clines[clines[task].parent].task

\* The result of a removed task reaches the task that spawned it, even if either
\* has been cancelled and made anew from its history item in between.
ResultReachesParent ==
  orderly =>
    \A o \in ops :
      o.step = "resume" /\ stack # <<>> => clines[Top].task = Spawner(o.task)

\* A task that waits for its subtask is on top only while something is under
\* way that will resume it or put the subtask back.
WaitIsAnswered ==
  (/\ orderly /\ stack # <<>>
   /\ clines[Top].at = "waiting" /\ clines[Top].paused)
     => \E o \in ops : o.step \in {"resume", "restart"}

\* A task goes on after its subtask in the mode it had before.
ModeRestored ==
  [][\A i \in Ids :
       (orderly /\ clines[i].at \in {"pausing", "waiting"} /\ clines'[i].at = "busy")
         => mode' = clines[i].pausedMode]_vars

-----------------------------------------------------------------------------
(* What comments of the code say and the code does not do.                 *)

\* "Abort the running task and set isAbandoned to true so all running promises
\* will exit as well" (removeClineFromStack): a removed task starts no subtask.
RemovedTasksExit == strays = {}

\* "Removes and destroys the top Cline instance (the current finished task),
\* activating the previous one (resuming the parent task)" (removeClineFromStack).
PreviousActivated ==
  (stack # <<>> /\ clines[Top].at = "waiting" /\ clines[Top].paused)
    => ops # {}

=============================================================================
