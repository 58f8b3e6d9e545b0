---------------------------- MODULE TaskStack_proof ----------------------------
(***************************************************************************)
(* Proofs about TaskStack: for every bound on instances and on operations  *)
(* under way, and for every way in which the operations overlap, a task    *)
(* that has not been aborted is on the stack.  And as long as the user     *)
(* keeps to the protocol the stack is tidy (OInv): each task was spawned   *)
(* by the one below it and all but the top wait, so that one task runs at  *)
(* a time, results reach the task that waits, and modes are restored.      *)
(***************************************************************************)
EXTENDS TaskStack, SequenceTheorems, TLAPS

\* Every live instance of cs is somewhere on st.
Reachable(cs, st) ==
  \A i \in 1..Len(cs) : ~cs[i].aborted => \E k \in 1..Len(st) : st[k] = i

\* Instances and stack fit together.
StackOK(cs, st) ==
  /\ cs \in Seq(ClineType)
  /\ st \in Seq(1..Len(cs))
  /\ Reachable(cs, st)

\* What an operation knows of the task it is about: only a new task has none.
OpsOK == \A o \in ops : o \in OpType /\ (o.step # "push" => o.task # 0)

IInv ==
  /\ StackOK(clines, stack)
  /\ mode \in Modes
  /\ OpsOK
  /\ orderly \in BOOLEAN
  /\ strays \subseteq Ids

-----------------------------------------------------------------------------
(* Changes of the instances.                                               *)

\* Writing a well-typed instance into its place leaves a sequence of instances.
LEMMA WriteKeepsType ==
  ASSUME NEW cs \in Seq(ClineType), NEW i \in 1..Len(cs), NEW c \in ClineType
  PROVE  /\ [cs EXCEPT ![i] = c] \in Seq(ClineType)
         /\ Len([cs EXCEPT ![i] = c]) = Len(cs)
         /\ [cs EXCEPT ![i] = c][i] = c
         /\ \A j \in 1..Len(cs) : j # i => [cs EXCEPT ![i] = c][j] = cs[j]
BY ExceptSeq

\* An instance that moves on, or is found to be aborted, stays reachable.
LEMMA WriteKeepsStack ==
  ASSUME NEW cs, NEW st, NEW i \in 1..Len(cs), NEW c \in ClineType,
         StackOK(cs, st), cs[i].aborted => c.aborted
  PROVE  StackOK([cs EXCEPT ![i] = c], st)
<1>1. cs \in Seq(ClineType) /\ st \in Seq(1..Len(cs))
  BY DEF StackOK
<1> DEFINE ds == [cs EXCEPT ![i] = c]
<1>2. /\ ds \in Seq(ClineType) /\ Len(ds) = Len(cs) /\ ds[i] = c
      /\ \A j \in 1..Len(cs) : j # i => ds[j] = cs[j]
  BY <1>1, WriteKeepsType
<1> HIDE DEF ds
<1>3. Reachable(ds, st)
  BY <1>2 DEF StackOK, Reachable
<1> QED BY <1>1, <1>2, <1>3 DEF StackOK, ds

\* The top of the stack is an instance.
LEMMA TopIsInstance ==
  ASSUME NEW cs, StackOK(cs, stack), stack # <<>>
  PROVE  Len(stack) \in 1..Len(stack) /\ Top \in 1..Len(cs) /\ cs[Top] \in ClineType
<1>1. cs \in Seq(ClineType) /\ stack \in Seq(1..Len(cs))
  BY DEF StackOK
<1>2. Len(stack) \in Nat /\ Len(stack) # 0
  BY <1>1, EmptySeq
<1>3. Top \in 1..Len(cs)
  BY <1>1, <1>2, ElementOfSeq DEF Top
<1> QED BY <1>1, <1>2, <1>3, ElementOfSeq

\* Removing the top aborts it: every instance that is still live is still there.
LEMMA PopKeepsStack ==
  ASSUME NEW cs, StackOK(cs, stack), stack # <<>>
  PROVE  /\ StackOK(Removed(cs, Top), SubSeq(stack, 1, Len(stack) - 1))
         /\ Len(Removed(cs, Top)) = Len(cs)
<1> DEFINE n == Len(stack)
           st == SubSeq(stack, 1, n - 1)
           at == IF cs[Top].at \in {"spawning", "handover", "finishing"}
                 THEN cs[Top].at ELSE "over"
           c == [cs[Top] EXCEPT !.aborted = TRUE, !.abandoned = TRUE, !.at = at]
           ds == [cs EXCEPT ![Top] = c]
<1>1. /\ cs \in Seq(ClineType) /\ stack \in Seq(1..Len(cs))
      /\ n \in Nat \ {0} /\ Top \in 1..Len(cs) /\ cs[Top] \in ClineType
  BY TopIsInstance, LenProperties DEF StackOK
<1>2. at \in Places
  BY <1>1 DEF ClineType, Places
<1>3. Removed(cs, Top) = ds
  BY <1>1 DEF Removed, ClineType
<1> HIDE DEF at
<1>4. c \in ClineType /\ c.aborted
  BY <1>1, <1>2 DEF ClineType
<1> HIDE DEF c
<1>5. /\ ds \in Seq(ClineType) /\ Len(ds) = Len(cs) /\ ds[Top] = c
      /\ \A j \in 1..Len(cs) : j # Top => ds[j] = cs[j]
  BY <1>1, <1>4, WriteKeepsType
<1> HIDE DEF ds
<1>6. st \in Seq(1..Len(cs)) /\ Len(st) = n - 1 /\ \A k \in 1..(n - 1) : st[k] = stack[k]
  <2>1. \A k \in 1..(n - 1) : stack[k] \in 1..Len(cs)
    BY <1>1, ElementOfSeq
  <2>2. st \in Seq(1..Len(cs))
    BY <1>1, <2>1, SubSeqProperties
  <2>3. Len(st) = n - 1
    <3>1. Len(st) = IF 1 <= n - 1 THEN (n - 1) - 1 + 1 ELSE 0
      BY <1>1, <2>1, SubSeqProperties
    <3> HIDE DEF n, st
    <3> QED BY <1>1, <3>1
  <2>4. \A k \in 1..(n - 1) : st[k] = stack[1 + k - 1]
    BY <1>1, <2>1, SubSeqProperties
  <2> QED BY <1>1, <2>2, <2>3, <2>4
<1> HIDE DEF st
<1>7. Reachable(ds, st)
  <2> SUFFICES ASSUME NEW i \in 1..Len(cs), ~ds[i].aborted
               PROVE  \E k \in 1..Len(st) : st[k] = i
    BY <1>5 DEF Reachable
  <2>1. i # Top /\ ~cs[i].aborted
    BY <1>4, <1>5
  <2>2. PICK k \in 1..n : stack[k] = i
    BY <2>1 DEF StackOK, Reachable
  <2>3. k # n
    BY <2>1, <2>2 DEF Top
  <2>4. k \in 1..(n - 1)
    BY <1>1, <2>3
  <2> QED BY <1>6, <2>2, <2>4
<1> QED BY <1>3, <1>5, <1>6, <1>7 DEF StackOK, st

\* A new instance is pushed as it is created.
LEMMA PushKeepsStack ==
  ASSUME NEW cs, NEW st, NEW c \in ClineType, StackOK(cs, st)
  PROVE  /\ StackOK(Append(cs, c), Append(st, Len(cs) + 1))
         /\ Len(Append(cs, c)) = Len(cs) + 1
<1> DEFINE n == Len(cs)
           ds == Append(cs, c)
           su == Append(st, n + 1)
<1>1. cs \in Seq(ClineType) /\ st \in Seq(1..n) /\ n \in Nat
  BY LenProperties DEF StackOK
<1>2. /\ ds \in Seq(ClineType) /\ Len(ds) = n + 1
      /\ \A j \in 1..n : ds[j] = cs[j]
  BY <1>1, AppendProperties
<1>3. st \in Seq(1..(n + 1)) /\ Len(st) \in Nat
  BY <1>1, SeqMonotonic
<1>4. /\ su \in Seq(1..(n + 1)) /\ Len(su) = Len(st) + 1
      /\ \A k \in 1..Len(st) : su[k] = st[k]
      /\ su[Len(st) + 1] = n + 1
  BY <1>1, <1>3, AppendProperties
<1> HIDE DEF ds, su
<1>5. Reachable(ds, su)
  <2> SUFFICES ASSUME NEW i \in 1..(n + 1), ~ds[i].aborted
               PROVE  \E k \in 1..Len(su) : su[k] = i
    BY <1>2 DEF Reachable
  <2>1. CASE i = n + 1
    BY <1>3, <1>4, <2>1
  <2>2. CASE i \in 1..n
    <3>1. PICK k \in 1..Len(st) : st[k] = i
      BY <1>2, <2>2 DEF StackOK, Reachable
    <3> QED BY <1>3, <1>4, <3>1
  <2> QED BY <1>1, <2>1, <2>2
<1> QED BY <1>1, <1>2, <1>4, <1>5 DEF StackOK, ds, su

\* A step of a task within its place leaves the stack as it is.
LEMMA MoveKeepsStack ==
  ASSUME StackOK(clines, stack), NEW i \in Ids, NEW at \in Places
  PROVE  /\ StackOK([clines EXCEPT ![i].at = at], stack)
         /\ Len([clines EXCEPT ![i].at = at]) = Len(clines)
<1> DEFINE c == [clines[i] EXCEPT !.at = at]
<1>1. clines \in Seq(ClineType) /\ clines[i] \in ClineType
  BY ElementOfSeq DEF StackOK, Ids
<1>2. [clines EXCEPT ![i].at = at] = [clines EXCEPT ![i] = c]
  BY <1>1
<1>3. c \in ClineType /\ c.aborted = clines[i].aborted
  BY <1>1 DEF ClineType
<1> HIDE DEF c
<1> QED BY <1>1, <1>2, <1>3, WriteKeepsStack, WriteKeepsType DEF Ids

-----------------------------------------------------------------------------
(* One step.                                                               *)

\* The instances and the stack after a step, without losing an instance.
Fits ==
  /\ StackOK(clines', stack')
  /\ Len(clines') \in Nat /\ Len(clines) <= Len(clines')

\* What removes the top.
LEMMA PopsFit ==
  ASSUME NEW cs, StackOK(cs, stack), Len(cs) = Len(clines), clines \in Seq(ClineType),
         Pops(cs)
  PROVE  Fits
<1>1. stack # <<>> /\ clines' = Removed(cs, Top)
      /\ stack' = SubSeq(stack, 1, Len(stack) - 1)
  BY DEF Pops
<1>2. StackOK(clines', stack') /\ Len(clines') = Len(clines)
  BY <1>1, PopKeepsStack
<1> QED BY <1>2, LenProperties DEF Fits

\* What pushes an instance.
LEMMA PushesFit ==
  ASSUME NEW cs, NEW c \in ClineType, StackOK(cs, stack), Len(cs) = Len(clines),
         Pushes(cs, c)
  PROVE  Fits /\ Len(clines') = Len(clines) + 1
<1>1. clines' = Append(cs, c) /\ stack' = Append(stack, Len(cs) + 1)
  BY DEF Pushes
<1>2. StackOK(clines', stack') /\ Len(clines') = Len(cs) + 1
  BY <1>1, PushKeepsStack
<1>3. Len(cs) \in Nat
  BY LenProperties DEF StackOK
<1> QED BY <1>2, <1>3 DEF Fits

\* What moves a task on.
LEMMA MovesFit ==
  ASSUME StackOK(clines, stack), NEW i \in Ids, NEW at \in Places,
         MovesOn(i, at), stack' = stack
  PROVE  Fits
<1>1. clines' = [clines EXCEPT ![i].at = at]
  BY DEF MovesOn
<1>2. StackOK(clines', stack') /\ Len(clines') = Len(clines)
  BY <1>1, MoveKeepsStack
<1> QED BY <1>2, LenProperties DEF Fits, StackOK

\* What changes an instance in its place.
LEMMA WritesFit ==
  ASSUME StackOK(clines, stack), NEW i \in Ids, NEW c \in ClineType,
         clines[i].aborted => c.aborted,
         clines' = [clines EXCEPT ![i] = c], stack' = stack
  PROVE  Fits
<1>1. StackOK(clines', stack')
  BY WriteKeepsStack DEF Ids
<1>2. Len(clines') = Len(clines)
  BY WriteKeepsType DEF StackOK, Ids
<1> QED BY <1>1, <1>2, LenProperties DEF Fits, StackOK

\* What touches neither.
LEMMA IdleFits ==
  ASSUME StackOK(clines, stack), clines' = clines, stack' = stack
  PROVE  Fits
BY LenProperties DEF Fits, StackOK

\* The user's operations.
LEMMA UserFits ==
  ASSUME IInv, User
  PROVE  Fits
<1>1. StackOK(clines, stack) /\ clines \in Seq(ClineType)
  BY DEF IInv, StackOK
<1>2. CASE NewTask
  BY <1>1, <1>2, IdleFits DEF NewTask
<1>3. CASE Clear
  BY <1>1, <1>3, PopsFit DEF Clear
<1>4. CASE Plus
  BY <1>1, <1>4, PopsFit DEF Plus
<1>5. CASE Cancel
  BY <1>1, <1>5, IdleFits DEF Cancel
<1>6. CASE Show
  BY <1>1, <1>6, IdleFits DEF Show
<1> QED BY <1>2, <1>3, <1>4, <1>5, <1>6 DEF User

\* A new instance has its type.
LEMMA NewClineType ==
  ASSUME NEW t \in Nat \ {0}, NEW parent \in Nat, NEW at \in Places
  PROVE  NewCline(t, parent, at) \in ClineType
BY StackAssumption DEF NewCline, ClineType

\* How the operations go on.
LEMMA ProviderFits ==
  ASSUME IInv, NEW o \in ops, Provider(o)
  PROVE  Fits
<1>1. /\ StackOK(clines, stack) /\ clines \in Seq(ClineType)
      /\ o \in OpType /\ (o.step # "push" => o.task # 0)
  BY DEF IInv, StackOK, OpsOK
<1>2. CASE CancelAborts(o)
  <2>1. clines' = [clines EXCEPT ![o.cline].aborted = TRUE] /\ stack' = stack
    BY <1>2 DEF CancelAborts
  <2>2. CASE o.cline \in Ids
    <3> DEFINE c == [clines[o.cline] EXCEPT !.aborted = TRUE]
    <3>1. clines[o.cline] \in ClineType
      BY <1>1, <2>2, ElementOfSeq DEF Ids
    <3>2. clines' = [clines EXCEPT ![o.cline] = c]
      BY <1>1, <2>1, <2>2
    <3>3. c \in ClineType /\ c.aborted
      BY <3>1 DEF ClineType
    <3> HIDE DEF c
    <3> QED BY <1>1, <2>1, <2>2, <3>2, <3>3, WritesFit
  <2>3. CASE o.cline \notin Ids
    <3>1. clines' = clines
      BY <1>1, <2>1, <2>3 DEF Ids
    <3> QED BY <1>1, <2>1, <3>1, IdleFits
  <2> QED BY <2>2, <2>3
<1>3. CASE Replaces(o)
  BY <1>1, <1>3, PopsFit, IdleFits DEF Replaces
<1>4. CASE Restarts(o)
  <2>1. NewCline(o.task, o.parent, "resume") \in ClineType
    BY <1>1, <1>4, NewClineType DEF Restarts, OpType, Places
  <2> QED BY <1>1, <1>4, <2>1, PushesFit DEF Restarts
<1>5. CASE StartsTask(o)
  <2>1. NewCline(Len(clines) + 1, 0, "busy") \in ClineType
    BY <1>1, LenProperties, NewClineType DEF Places
  <2> QED BY <1>1, <1>5, <2>1, PushesFit DEF StartsTask
<1>6. CASE ResumesTop(o)
  <2>1. stack' = stack
    BY <1>6 DEF ResumesTop
  <2>2. CASE stack = <<>>
    BY <1>1, <1>6, <2>1, <2>2, IdleFits DEF ResumesTop
  <2>3. CASE stack # <<>>
    <3> DEFINE at == IF clines[Top].at = "resume" THEN "over" ELSE clines[Top].at
               c == [clines[Top] EXCEPT !.paused = FALSE, !.at = at]
    <3>1. Top \in Ids /\ clines[Top] \in ClineType
      BY <1>1, <2>3, TopIsInstance DEF Ids
    <3>2. at \in Places
      BY <3>1 DEF ClineType, Places
    <3>3. clines' = [clines EXCEPT ![Top] = c]
      BY <1>1, <1>6, <2>3, <3>1 DEF ResumesTop, ClineType, Ids
    <3> HIDE DEF at
    <3>4. c \in ClineType /\ c.aborted = clines[Top].aborted
      BY <3>1, <3>2 DEF ClineType
    <3> HIDE DEF c
    <3> QED BY <1>1, <2>1, <3>1, <3>3, <3>4, WritesFit
  <2> QED BY <2>2, <2>3
<1> QED BY <1>2, <1>3, <1>4, <1>5, <1>6 DEF Provider

\* The steps of the tasks.
LEMMA TaskFits ==
  ASSUME IInv, NEW i \in Ids, Task(i)
  PROVE  Fits
<1>1. /\ StackOK(clines, stack) /\ clines \in Seq(ClineType)
      /\ clines[i] \in ClineType /\ mode \in Modes
  BY ElementOfSeq DEF IInv, StackOK, Ids
<1>2. CASE Resumes(i)
  BY <1>1, <1>2, MovesFit DEF Resumes, Places
<1>3. CASE Spawns(i)
  <2> DEFINE c == [clines[i] EXCEPT !.at = "spawning", !.pausedMode = mode]
  <2>1. clines' = [clines EXCEPT ![i] = c] /\ stack' = stack
    BY <1>1, <1>3 DEF Spawns, ClineType
  <2>2. c \in ClineType /\ c.aborted = clines[i].aborted
    BY <1>1 DEF ClineType, Places
  <2> HIDE DEF c
  <2> QED BY <1>1, <2>1, <2>2, WritesFit
<1>4. CASE SpawnsChild(i)
  <2> DEFINE cs == [clines EXCEPT ![i].at = "handover"]
             c == NewCline(Len(clines) + 1, i, "busy")
  <2>1. Pushes(cs, c)
    BY <1>4 DEF SpawnsChild
  <2>2. StackOK(cs, stack) /\ Len(cs) = Len(clines)
    BY <1>1, MoveKeepsStack DEF Places
  <2>3. c \in ClineType
    BY <1>1, LenProperties, NewClineType DEF Places, Ids
  <2> HIDE DEF c, cs
  <2> QED BY <2>1, <2>2, <2>3, PushesFit
<1>5. CASE Pauses(i)
  <2> DEFINE at == IF clines[i].aborted THEN "over" ELSE "pausing"
             c == [clines[i] EXCEPT !.at = at, !.paused = TRUE]
  <2>1. at \in Places
    BY DEF Places
  <2>2. clines' = [clines EXCEPT ![i] = c] /\ stack' = stack
    BY <1>1, <1>5 DEF Pauses, ClineType
  <2> HIDE DEF at
  <2>3. c \in ClineType /\ c.aborted = clines[i].aborted
    BY <1>1, <2>1 DEF ClineType
  <2> HIDE DEF c
  <2> QED BY <1>1, <2>2, <2>3, WritesFit
<1>6. CASE ChecksPause(i)
  <2> DEFINE at == IF clines[i].paused THEN "waiting" ELSE "busy"
  <2>1. at \in Places
    BY DEF Places
  <2>2. MovesOn(i, at) /\ stack' = stack
    BY <1>6 DEF ChecksPause
  <2> HIDE DEF at
  <2> QED BY <1>1, <2>1, <2>2, MovesFit
<1>7. CASE Wakes(i)
  BY <1>1, <1>7, MovesFit DEF Wakes, Places
<1>8. CASE Completes(i)
  BY <1>1, <1>8, MovesFit DEF Completes, Places
<1>9. CASE Finishes(i)
  <2>1. CASE stack = <<>>
    BY <1>1, <1>9, <2>1, MovesFit DEF Finishes, Places
  <2>2. CASE stack # <<>>
    <3> DEFINE cs == [clines EXCEPT ![i].at = "over"]
    <3>1. Pops(cs)
      BY <1>9, <2>2 DEF Finishes
    <3>2. StackOK(cs, stack) /\ Len(cs) = Len(clines)
      BY <1>1, MoveKeepsStack DEF Places
    <3> HIDE DEF cs
    <3> QED BY <1>1, <3>1, <3>2, PopsFit
  <2> QED BY <2>1, <2>2
<1>10. CASE StreamFails(i)
  <2> DEFINE at == IF clines[i].at \in {"busy", "pausing"} THEN "over" ELSE clines[i].at
             c == [clines[i] EXCEPT !.at = at, !.aborted = TRUE]
  <2>1. at \in Places
    BY <1>1 DEF ClineType, Places
  <2>2. clines' = [clines EXCEPT ![i] = c] /\ stack' = stack
    BY <1>1, <1>10 DEF StreamFails, ClineType
  <2> HIDE DEF at
  <2>3. c \in ClineType /\ c.aborted
    BY <1>1, <2>1 DEF ClineType
  <2> HIDE DEF c
  <2> QED BY <1>1, <2>2, <2>3, WritesFit
<1> QED BY <1>2, <1>3, <1>4, <1>5, <1>6, <1>7, <1>8, <1>9, <1>10 DEF Task

\* Another operation under way: of no task yet, or of one that exists.
LEMMA AddsOp ==
  ASSUME OpsOK, NEW s \in FreeSlots, NEW cline \in Nat, NEW t \in Nat,
         NEW parent \in Nat, NEW step,
         \/ step = "push"
         \/ step \in {"cancel", "show", "replace", "resume"} /\ t # 0,
         ops' = ops \cup {Op(s, step, cline, t, parent)}
  PROVE  OpsOK'
BY DEF OpsOK, Op, OpType, FreeSlots

\* The operations that a user's or a task's step leaves behind.
LEMMA UserOps ==
  ASSUME IInv, User
  PROVE  OpsOK'
<1>1. StackOK(clines, stack) /\ OpsOK /\ clines \in Seq(ClineType)
  BY DEF IInv, StackOK
<1>2. CASE NewTask
  <2>1. PICK s \in FreeSlots : ops' = ops \cup {Op(s, "push", 0, 0, 0)}
    BY <1>2 DEF NewTask
  <2> QED BY <1>1, <2>1, AddsOp
<1>3. CASE Clear
  <2>1. PICK s \in FreeSlots : ops' = ops \cup {Op(s, "resume", 0, clines[Top].task, 0)}
    BY <1>3 DEF Clear
  <2>2. clines[Top].task \in Nat \ {0}
    BY <1>1, <1>3, TopIsInstance DEF Clear, Pops, ClineType
  <2> QED BY <1>1, <2>1, <2>2, AddsOp
<1>4. CASE Plus
  BY <1>1, <1>4 DEF Plus, OpsOK
<1>5. CASE Cancel
  <2>1. PICK s \in FreeSlots :
          ops' = ops \cup {Op(s, "cancel", Top, clines[Top].task, clines[Top].parent)}
    BY <1>5 DEF Cancel
  <2>2. Top \in Nat /\ clines[Top].task \in Nat \ {0} /\ clines[Top].parent \in Nat
    BY <1>1, <1>5, TopIsInstance, LenProperties DEF Cancel, ClineType
  <2> QED BY <1>1, <2>1, <2>2, AddsOp
<1>6. CASE Show
  <2>1. PICK i \in Ids, s \in FreeSlots :
          ops' = ops \cup {Op(s, "show", 0, clines[i].task, 0)}
    BY <1>6 DEF Show
  <2>2. clines[i] \in ClineType
    BY <1>1, <2>1, ElementOfSeq DEF Ids
  <2>3. clines[i].task \in Nat \ {0}
    BY <2>2 DEF ClineType
  <2> QED BY <1>1, <2>1, <2>3, AddsOp
<1> QED BY <1>2, <1>3, <1>4, <1>5, <1>6 DEF User

LEMMA ProviderOps ==
  ASSUME IInv, NEW o \in ops, Provider(o)
  PROVE  OpsOK'
<1>1. OpsOK
  BY DEF IInv
<1>2. CASE CancelAborts(o) \/ Replaces(o)
  <2>1. PICK step \in {"replace", "restart"} : ops' = (ops \ {o}) \cup {[o EXCEPT !.step = step]}
    BY <1>2 DEF CancelAborts, Replaces, Becomes
  <2>2. o \in OpType /\ o.task # 0
    BY <1>1, <1>2 DEF OpsOK, CancelAborts, Replaces
  <2>3. [o EXCEPT !.step = step] \in OpType /\ [o EXCEPT !.step = step].task # 0
    BY <2>2 DEF OpType
  <2> QED BY <1>1, <2>1, <2>3 DEF OpsOK
<1>3. CASE Restarts(o) \/ StartsTask(o) \/ ResumesTop(o)
  BY <1>1, <1>3 DEF OpsOK, Restarts, StartsTask, ResumesTop, Done
<1> QED BY <1>2, <1>3 DEF Provider

LEMMA TaskOps ==
  ASSUME IInv, NEW i \in Ids, Task(i)
  PROVE  OpsOK'
<1>1. /\ StackOK(clines, stack) /\ OpsOK /\ clines \in Seq(ClineType)
      /\ clines[i].task \in Nat \ {0}
  <2>1. StackOK(clines, stack) /\ OpsOK /\ clines \in Seq(ClineType)
    BY DEF IInv, StackOK
  <2>2. clines[i] \in ClineType
    BY <2>1, ElementOfSeq DEF Ids
  <2> QED BY <2>1, <2>2 DEF ClineType
<1>2. CASE ops' = ops
  BY <1>1, <1>2 DEF OpsOK
<1>3. CASE Finishes(i) /\ stack # <<>>
  <2>1. PICK s \in FreeSlots : ops' = ops \cup {Op(s, "resume", 0, clines[Top].task, 0)}
    BY <1>3 DEF Finishes
  <2>2. clines[Top].task \in Nat \ {0}
    BY <1>1, <1>3, TopIsInstance DEF ClineType
  <2> QED BY <1>1, <2>1, <2>2, AddsOp
<1>4. CASE StreamFails(i)
  <2>1. PICK s \in FreeSlots : ops' = ops \cup {Op(s, "replace", 0, clines[i].task, 0)}
    BY <1>4 DEF StreamFails
  <2> QED BY <1>1, <2>1, AddsOp
<1> QED BY <1>2, <1>3, <1>4 DEF Task, Resumes, Spawns, SpawnsChild, Pauses,
            ChecksPause, Wakes, Completes, Finishes

\* The mode and the history variables.
LEMMA RestKept ==
  ASSUME IInv, Next, Fits
  PROVE  mode' \in Modes /\ orderly' \in BOOLEAN /\ strays' \subseteq Ids'
<1>1. /\ clines \in Seq(ClineType) /\ mode \in Modes /\ orderly \in BOOLEAN
      /\ strays \subseteq Ids /\ Len(clines) \in Nat
      /\ Len(clines') \in Nat /\ Len(clines) <= Len(clines')
  BY LenProperties DEF IInv, StackOK, Fits
<1> DEFINE Kept == mode' \in Modes /\ orderly' \in BOOLEAN /\ strays' \subseteq Ids'
<1>2. strays \subseteq Ids'
  BY <1>1 DEF Ids
<1>3. ASSUME NEW b, Begins(b)
      PROVE  orderly' \in BOOLEAN
  BY <1>3 DEF Begins
<1>4. ASSUME User
      PROVE  Kept
  <2>1. mode' = mode /\ strays' = strays
    BY <1>4 DEF User, NewTask, Clear, Plus, Cancel, Show
  <2>2. Begins(TRUE) \/ Begins(stack = <<>>) \/ Begins(Len(stack) = 1)
    BY <1>4 DEF User, NewTask, Clear, Plus, Cancel, Show
  <2>3. orderly' \in BOOLEAN
    BY <2>2, <1>3
  <2> QED BY <1>1, <1>2, <2>1, <2>3
<1>5. ASSUME NEW o \in ops, Provider(o)
      PROVE  mode' = mode /\ orderly' = orderly /\ strays' = strays
  BY <1>5 DEF Provider, CancelAborts, Replaces, Restarts, StartsTask, ResumesTop
<1>6. ASSUME NEW i \in Ids, Task(i)
      PROVE  Kept
  <2>1. CASE SpawnsChild(i)
    <3>1. mode' = mode /\ orderly' = orderly /\ strays' \subseteq strays \cup {Len(clines) + 1}
      BY <2>1 DEF SpawnsChild
    <3>2. Len(clines') = Len(clines) + 1
      <4> DEFINE cs == [clines EXCEPT ![i].at = "handover"]
      <4>1. clines' = Append(cs, NewCline(Len(clines) + 1, i, "busy"))
        BY <2>1 DEF SpawnsChild, Pushes
      <4>2. cs \in Seq(ClineType) /\ Len(cs) = Len(clines)
        BY MoveKeepsStack DEF IInv, StackOK, Places
      <4>3. NewCline(Len(clines) + 1, i, "busy") \in ClineType
        BY <1>1, NewClineType DEF Places, Ids
      <4> HIDE DEF cs
      <4> QED BY <4>1, <4>2, <4>3, AppendProperties
    <3> QED BY <1>1, <3>1, <3>2 DEF Ids
  <2>2. CASE Wakes(i)
    <3>1. clines[i] \in ClineType
      BY <1>1, ElementOfSeq DEF Ids
    <3>2. clines[i].pausedMode \in Modes
      BY <3>1 DEF ClineType
    <3> QED BY <1>1, <2>2, <3>2 DEF Wakes, Ids
  <2>3. CASE \/ Resumes(i) \/ Spawns(i) \/ Pauses(i) \/ ChecksPause(i)
             \/ Completes(i) \/ Finishes(i) \/ StreamFails(i)
    <3>1. mode' \in Modes /\ strays' = strays
      BY <1>1, <2>3 DEF Resumes, Spawns, Pauses, ChecksPause, Completes, Finishes,
                        StreamFails
    <3>2. orderly' = orderly \/ Begins(TRUE)
      BY <2>3 DEF Resumes, Spawns, Pauses, ChecksPause, Completes, Finishes,
                  StreamFails
    <3> QED BY <1>1, <1>2, <1>3, <3>1, <3>2
  <2> QED BY <1>6, <2>1, <2>2, <2>3 DEF Task
<1> QED BY <1>1, <1>2, <1>4, <1>5, <1>6 DEF Next

-----------------------------------------------------------------------------
(* As long as the user keeps to the protocol.                              *)

\* Tasks and parents are instances that exist.
Known(cs) ==
  \A i \in 1..Len(cs) : cs[i].task \in 1..Len(cs) /\ cs[i].parent \in 0..Len(cs)

SpawnerOf(cs, task) ==
  IF cs[task].parent = 0 THEN 0 ELSE cs[cs[task].parent].task

\* Every instance is on the stack once, or over; each one on the stack was
\* spawned by the task below it.
Linked(cs, st) ==
  /\ \A j, k \in 1..Len(st) : st[j] = st[k] => j = k
  /\ \A i \in 1..Len(cs) : cs[i].at = "over" \/ \E k \in 1..Len(st) : st[k] = i
  /\ \A k \in 2..Len(st) : SpawnerOf(cs, cs[st[k]].task) = cs[st[k - 1]].task

\* The top has been removed, and what comes next is on its way.
Away(os) == \E o \in os : o.step \in {"resume", "restart"}

Waits(c) == c.at = "waiting" /\ c.paused

HandsOver(c) ==
  ~c.aborted /\ (c.at = "handover" \/ (c.at = "pausing" /\ c.paused))

\* What an instance on top may be doing.
TopPlace(c, os) ==
  \/ c.at \in {"busy", "resume", "over"}
  \/ c.at = "waiting" /\ ~c.paused
  \/ c.at = "spawning" /\ ~c.aborted /\ os = {}
  \/ c.at = "finishing" /\ os = {}

\* All below the top wait for their subtasks; the one right below it may still
\* be handing over to the top.
Placed(cs, st, os) ==
  \A k \in 1..Len(st) :
    \/ Waits(cs[st[k]]) /\ (k < Len(st) \/ Away(os))
    \/ /\ k = Len(st) - 1 /\ os = {} /\ HandsOver(cs[st[k]])
       /\ cs[st[Len(st)]].at = "busy"
    \/ k = Len(st) /\ ~Away(os) /\ TopPlace(cs[st[k]], os)

\* The one operation under way is about the top, or the task it was spawned by.
OpTidy(cs, st, o) ==
  /\ o.step # "push" => o.task \in 1..Len(cs) /\ o.parent \in 0..Len(cs)
  /\ o.step \in {"push", "show"} => st = <<>>
  /\ o.step \in {"cancel", "replace"} =>
       st # <<>> /\ o.task = cs[st[Len(st)]].task
  /\ o.step = "cancel" => o.cline = st[Len(st)]
  /\ o.step \in {"resume", "restart"} /\ st # <<>> =>
       SpawnerOf(cs, o.task) = cs[st[Len(st)]].task

Tidy(cs, st, os) ==
  /\ Known(cs) /\ Linked(cs, st) /\ Placed(cs, st, os)
  /\ \A o, p \in os : o = p
  /\ \A o \in os : OpTidy(cs, st, o)

OInv == orderly => Tidy(clines, stack, ops)

\* What the proofs use of the types.
LEMMA Basics ==
  ASSUME NEW cs, NEW st, StackOK(cs, st)
  PROVE  /\ cs \in Seq(ClineType) /\ Len(cs) \in Nat
         /\ st \in Seq(1..Len(cs)) /\ Len(st) \in Nat
         /\ st = <<>> <=> Len(st) = 0
         /\ \A k \in 1..Len(st) : st[k] \in 1..Len(cs)
         /\ \A i \in 1..Len(cs) : cs[i] \in ClineType
<1>1. cs \in Seq(ClineType) /\ st \in Seq(1..Len(cs))
  BY DEF StackOK
<1>2. Len(cs) \in Nat /\ Len(st) \in Nat /\ (st = <<>> <=> Len(st) = 0)
  BY <1>1, LenProperties, EmptySeq
<1>3. ASSUME NEW k \in 1..Len(st) PROVE st[k] \in 1..Len(cs)
  BY <1>1, <1>3, ElementOfSeq
<1>4. ASSUME NEW i \in 1..Len(cs) PROVE cs[i] \in ClineType
  BY <1>1, <1>4, ElementOfSeq
<1> QED BY <1>1, <1>2, <1>3, <1>4

\* ds has the instances of cs, changed at most in what they are doing.
Keeps(ds, cs) ==
  /\ Len(cs) <= Len(ds)
  /\ \A i \in 1..Len(cs) : ds[i].task = cs[i].task /\ ds[i].parent = cs[i].parent

\* Who spawned a task does not change.
LEMMA SpawnerStays ==
  ASSUME NEW cs, NEW ds, Len(cs) \in Nat, Len(ds) \in Nat, Known(cs), Keeps(ds, cs),
         NEW t \in 1..Len(cs)
  PROVE  SpawnerOf(ds, t) = SpawnerOf(cs, t)
<1>1. cs[t].parent = 0 \/ cs[t].parent \in 1..Len(cs)
  BY DEF Known
<1> QED BY <1>1 DEF Keeps, SpawnerOf

\* What an operation is about stays so while the stack does.
LEMMA OpStays ==
  ASSUME NEW cs, NEW ds, NEW st, StackOK(cs, st), Len(ds) \in Nat,
         Known(cs), Keeps(ds, cs), NEW o, OpTidy(cs, st, o), o.parent \in Nat
  PROVE  OpTidy(ds, st, o)
<1>1. Len(cs) \in Nat /\ Len(cs) <= Len(ds)
  BY Basics DEF Keeps
<1>2. st # <<>> => st[Len(st)] \in 1..Len(cs)
  BY Basics
<1>3. o.step # "push" => SpawnerOf(ds, o.task) = SpawnerOf(cs, o.task)
  BY <1>1, SpawnerStays DEF OpTidy
<1>4. o.step # "push" => o.task \in 1..Len(ds) /\ o.parent \in 0..Len(ds)
  BY <1>1 DEF OpTidy
<1> QED BY <1>2, <1>3, <1>4 DEF OpTidy, Keeps

\* One instance changes, but not its task and parent.
Writes(ds, cs, i, c) ==
  ds = [cs EXCEPT ![i] = c] /\ c.task = cs[i].task /\ c.parent = cs[i].parent

\* The stack without its top.
PopsTo(su, st) == su = SubSeq(st, 1, Len(st) - 1)

\* A new instance and the stack with it.
PushesTo(ds, su, cs, st, c) == ds = Append(cs, c) /\ su = Append(st, Len(cs) + 1)

\* An instance changes what it is doing; it may do so only on the stack.
LEMMA WriteLinks ==
  ASSUME NEW cs, NEW st, StackOK(cs, st), Known(cs), Linked(cs, st),
         NEW i \in 1..Len(cs), NEW c \in ClineType,
         c.at = "over" \/ \E k \in 1..Len(st) : st[k] = i,
         NEW ds, Writes(ds, cs, i, c)
  PROVE  /\ Len(ds) = Len(cs) /\ ds \in Seq(ClineType)
         /\ ds[i] = c /\ \A j \in 1..Len(cs) : j # i => ds[j] = cs[j]
         /\ Keeps(ds, cs) /\ Known(ds) /\ Linked(ds, st)
<1>0. /\ cs \in Seq(ClineType) /\ Len(cs) \in Nat /\ Len(st) \in Nat
      /\ \A k \in 1..Len(st) : st[k] \in 1..Len(cs)
  BY Basics
<1>1. /\ ds \in Seq(ClineType) /\ Len(ds) = Len(cs) /\ ds[i] = c
      /\ \A j \in 1..Len(cs) : j # i => ds[j] = cs[j]
  BY <1>0, WriteKeepsType DEF Writes
<1>2. Keeps(ds, cs)
  BY <1>0, <1>1 DEF Keeps, Writes
<1>3. Known(ds)
  BY <1>1, <1>2 DEF Known, Keeps
<1>4. ASSUME NEW k \in 2..Len(st)
      PROVE  SpawnerOf(ds, ds[st[k]].task) = ds[st[k - 1]].task
  <2>1. /\ k \in 1..Len(st) /\ k - 1 \in 1..Len(st)
        /\ st[k] \in 1..Len(cs) /\ st[k - 1] \in 1..Len(cs)
    BY <1>0
  <2>2. ds[st[k]].task = cs[st[k]].task /\ ds[st[k - 1]].task = cs[st[k - 1]].task
        /\ cs[st[k]].task \in 1..Len(cs)
    BY <1>2, <2>1 DEF Keeps, Known
  <2>3. SpawnerOf(cs, cs[st[k]].task) = cs[st[k - 1]].task
    BY DEF Linked
  <2> QED BY <1>0, <1>1, <1>2, <2>2, <2>3, SpawnerStays
<1>5. ASSUME NEW j \in 1..Len(ds)
      PROVE  ds[j].at = "over" \/ \E k \in 1..Len(st) : st[k] = j
  BY <1>1 DEF Linked
<1>6. Linked(ds, st)
  BY <1>4, <1>5 DEF Linked
<1> QED BY <1>1, <1>2, <1>3, <1>6

\* The top leaves the stack when it is over.
LEMMA PopLinks ==
  ASSUME NEW cs \in Seq(ClineType), NEW st \in Seq(1..Len(cs)), Linked(cs, st),
         st # <<>>, cs[st[Len(st)]].at = "over", NEW su, PopsTo(su, st)
  PROVE  /\ Len(su) = Len(st) - 1 /\ \A k \in 1..Len(su) : su[k] = st[k]
         /\ Linked(cs, su) /\ (su = <<>> <=> Len(su) = 0)
<1> DEFINE n == Len(st)
<1>0. /\ n \in Nat \ {0} /\ Len(cs) \in Nat /\ st \in Seq(1..Len(cs))
      /\ \A k \in 1..n : st[k] \in 1..Len(cs)
  BY LenProperties, EmptySeq, ElementOfSeq
<1>1. su \in Seq(1..Len(cs)) /\ Len(su) = n - 1 /\ \A k \in 1..(n - 1) : su[k] = st[k]
  <2>1. \A k \in 1..(n - 1) : st[k] \in 1..Len(cs)
    BY <1>0
  <2>2. su \in Seq(1..Len(cs))
    BY <1>0, <2>1, SubSeqProperties DEF PopsTo
  <2>3. Len(su) = n - 1
    <3>1. Len(su) = IF 1 <= n - 1 THEN (n - 1) - 1 + 1 ELSE 0
      BY <1>0, <2>1, SubSeqProperties DEF PopsTo
    <3> HIDE DEF n
    <3> QED BY <1>0, <3>1
  <2>4. \A k \in 1..(n - 1) : su[k] = st[1 + k - 1]
    BY <1>0, <2>1, SubSeqProperties DEF PopsTo
  <2> QED BY <1>0, <2>2, <2>3, <2>4
<1>2. ASSUME NEW i \in 1..Len(cs), cs[i].at # "over"
      PROVE  \E k \in 1..Len(su) : su[k] = i
  <2>1. PICK k \in 1..n : st[k] = i
    BY <1>2 DEF Linked
  <2>2. k \in 1..(n - 1)
    BY <1>0, <1>2, <2>1
  <2> QED BY <1>1, <2>1, <2>2
<1>3. ASSUME NEW j \in 1..Len(su), NEW k \in 1..Len(su), su[j] = su[k]
      PROVE  j = k
  <2>1. j \in 1..(n - 1) /\ k \in 1..(n - 1) /\ j \in 1..n /\ k \in 1..n
    BY <1>0, <1>1
  <2>2. st[j] = st[k]
    BY <1>1, <1>3, <2>1
  <2> QED BY <2>1, <2>2 DEF Linked
<1>4. ASSUME NEW k \in 2..Len(su)
      PROVE  SpawnerOf(cs, cs[su[k]].task) = cs[su[k - 1]].task
  <2>1. k \in 2..n /\ k \in 1..(n - 1) /\ k - 1 \in 1..(n - 1)
    BY <1>0, <1>1
  <2> QED BY <1>1, <2>1 DEF Linked
<1>5. su = <<>> <=> Len(su) = 0
  BY <1>1, EmptySeq
<1> QED BY <1>1, <1>2, <1>3, <1>4, <1>5 DEF Linked

\* A new instance is pushed above the one that spawned its task.
LEMMA PushLinks ==
  ASSUME NEW cs, NEW st, StackOK(cs, st), Known(cs), Linked(cs, st),
         NEW c \in ClineType, c.task \in 1..(Len(cs) + 1), c.parent \in 0..Len(cs),
         NEW ds, NEW su, PushesTo(ds, su, cs, st, c),
         st # <<>> => SpawnerOf(ds, c.task) = cs[st[Len(st)]].task
  PROVE  /\ Len(ds) = Len(cs) + 1 /\ ds[Len(cs) + 1] = c
         /\ \A i \in 1..Len(cs) : ds[i] = cs[i]
         /\ Len(su) = Len(st) + 1 /\ su[Len(st) + 1] = Len(cs) + 1
         /\ \A k \in 1..Len(st) : su[k] = st[k]
         /\ Keeps(ds, cs) /\ Known(ds) /\ Linked(ds, su) /\ su # <<>>
<1> DEFINE n == Len(cs)
           m == Len(st)
<1>0. /\ n \in Nat /\ m \in Nat /\ cs \in Seq(ClineType) /\ st \in Seq(1..n)
      /\ \A k \in 1..m : st[k] \in 1..n
      /\ st = <<>> <=> m = 0
  BY Basics
<1>1. /\ Len(ds) = n + 1 /\ ds[n + 1] = c /\ \A i \in 1..n : ds[i] = cs[i]
  BY <1>0, AppendProperties DEF PushesTo
<1>2. st \in Seq(1..(n + 1))
  BY <1>0, SeqMonotonic
<1>3. /\ su \in Seq(1..(n + 1)) /\ Len(su) = m + 1 /\ su[m + 1] = n + 1
      /\ \A k \in 1..m : su[k] = st[k]
  BY <1>0, <1>2, AppendProperties DEF PushesTo
<1> HIDE DEF n, m
<1>4. Keeps(ds, cs)
  BY <1>0, <1>1 DEF Keeps, n
<1>5. Known(ds)
  BY <1>0, <1>1 DEF Known, n
<1>6. ASSUME NEW k \in 2..Len(su)
      PROVE  SpawnerOf(ds, ds[su[k]].task) = ds[su[k - 1]].task
  <2>1. CASE k = m + 1
    <3>1. m \in 1..m /\ k - 1 = m /\ st # <<>>
      BY <1>0, <1>3, <2>1
    <3> QED BY <1>0, <1>1, <1>3, <2>1, <3>1 DEF m
  <2>2. CASE k # m + 1
    <3>1. k \in 2..m /\ k \in 1..m /\ k - 1 \in 1..m
      BY <1>0, <1>3, <2>2
    <3>2. st[k] \in 1..n /\ st[k - 1] \in 1..n
      BY <1>0, <3>1
    <3>3. SpawnerOf(cs, cs[st[k]].task) = cs[st[k - 1]].task
      BY <3>1 DEF Linked, m
    <3>4. cs[st[k]].task \in 1..n
      BY <3>2 DEF Known, n
    <3>5. SpawnerOf(ds, cs[st[k]].task) = SpawnerOf(cs, cs[st[k]].task)
      <4>1. Len(ds) \in Nat /\ Len(cs) \in Nat /\ cs[st[k]].task \in 1..Len(cs)
        BY <1>0, <1>1, <3>4 DEF n
      <4> QED BY <1>4, <4>1, SpawnerStays
    <3> QED BY <1>1, <1>3, <3>1, <3>2, <3>3, <3>5
  <2> QED BY <2>1, <2>2
<1>7. ASSUME NEW j \in 1..Len(su), NEW k \in 1..Len(su), su[j] = su[k]
      PROVE  j = k
  <2>1. \A l \in 1..m : su[l] \in 1..n
    BY <1>0, <1>3
  <2>2. n + 1 \notin 1..n
    BY <1>0
  <2>3. \A a, b \in 1..m : st[a] = st[b] => a = b
    BY DEF Linked, m
  <2>4. CASE j \in 1..m /\ k \in 1..m
    BY <1>3, <1>7, <2>3, <2>4
  <2>5. CASE j = m + 1 \/ k = m + 1
    BY <1>0, <1>3, <1>7, <2>1, <2>2, <2>5
  <2> QED BY <1>0, <1>3, <2>4, <2>5
<1>8. ASSUME NEW i \in 1..Len(ds)
      PROVE  ds[i].at = "over" \/ \E k \in 1..Len(su) : su[k] = i
  <2>1. CASE i = n + 1
    BY <1>0, <1>3, <2>1
  <2>2. CASE i \in 1..n /\ cs[i].at # "over"
    <3>1. PICK k \in 1..m : st[k] = i
      BY <2>2 DEF Linked, n, m
    <3> QED BY <1>0, <1>3, <3>1
  <2> QED BY <1>0, <1>1, <2>1, <2>2
<1>9. su # <<>>
  BY <1>0, <1>3, EmptySeq
<1>10. Linked(ds, su)
  BY <1>6, <1>7, <1>8 DEF Linked
<1> QED BY <1>1, <1>3, <1>4, <1>5, <1>9, <1>10 DEF n, m

-----------------------------------------------------------------------------
(* Where the tasks are.                                                    *)

Below(cs, st) == \A k \in 1..(Len(st) - 1) : Waits(cs[st[k]])

\* Below the top all wait, unless the top has only just been spawned.
LEMMA BelowWaits ==
  ASSUME NEW cs, NEW st, NEW os, StackOK(cs, st), Placed(cs, st, os),
         os # {} \/ cs[st[Len(st)]].at # "busy"
  PROVE  Below(cs, st)
<1>1. Len(st) \in Nat
  BY Basics
<1> SUFFICES ASSUME NEW k \in 1..(Len(st) - 1) PROVE Waits(cs[st[k]])
  BY DEF Below
<1>2. k \in 1..Len(st) /\ k # Len(st)
  BY <1>1
<1> QED BY <1>2 DEF Placed

\* With nothing under way all below the top wait, and the top runs, asks or is over.
LEMMA Quiet ==
  ASSUME StackOK(clines, stack), Placed(clines, stack, ops), ops = {}, ~HandingOver
  PROVE  /\ Below(clines, stack)
         /\ stack # <<>> =>
              \/ clines[Top].at \in {"busy", "resume", "over"}
              \/ clines[Top].at = "waiting" /\ ~clines[Top].paused
<1>1. Len(stack) \in Nat /\ (stack = <<>> <=> Len(stack) = 0)
  BY Basics
<1>2. \A k \in 1..Len(stack) :
        clines[stack[k]].at \notin {"spawning", "handover", "pausing", "finishing"}
  BY DEF HandingOver
<1>3. ~Away(ops)
  BY DEF Away
<1>4. ASSUME NEW k \in 1..(Len(stack) - 1) PROVE Waits(clines[stack[k]])
  <2>1. k \in 1..Len(stack) /\ k # Len(stack)
    BY <1>1
  <2> QED BY <1>2, <2>1 DEF Placed, HandsOver
<1>5. ASSUME stack # <<>>
      PROVE  \/ clines[Top].at \in {"busy", "resume", "over"}
             \/ clines[Top].at = "waiting" /\ ~clines[Top].paused
  <2>1. Len(stack) \in 1..Len(stack) /\ Len(stack) # Len(stack) - 1
    BY <1>1, <1>5
  <2>2. TopPlace(clines[Top], ops)
    BY <1>3, <2>1 DEF Placed, Top
  <2> QED BY <1>2, <2>1, <2>2 DEF TopPlace, Top
<1> QED BY <1>4, <1>5 DEF Below

\* A task that runs, asks, finishes or is about to go on is the top.
LEMMA RunnerIsTop ==
  ASSUME NEW cs, NEW st, NEW os, StackOK(cs, st), Linked(cs, st), Placed(cs, st, os),
         NEW i \in 1..Len(cs),
         \/ cs[i].at \in {"busy", "resume", "spawning", "finishing"}
         \/ cs[i].at = "waiting" /\ ~cs[i].paused
  PROVE  st # <<>> /\ i = st[Len(st)] /\ ~Away(os) /\ TopPlace(cs[i], os)
<1>1. Len(st) \in Nat /\ (st = <<>> <=> Len(st) = 0)
  BY Basics
<1>2. PICK k \in 1..Len(st) : st[k] = i
  BY DEF Linked
<1>3. ~Waits(cs[i]) /\ ~HandsOver(cs[i])
  BY DEF Waits, HandsOver
<1>4. k = Len(st) /\ ~Away(os) /\ TopPlace(cs[i], os)
  BY <1>2, <1>3 DEF Placed
<1> QED BY <1>1, <1>2, <1>4

\* A task that hands over is right below the task it hands over to.
LEMMA GiverIsSecond ==
  ASSUME NEW cs, NEW st, NEW os, StackOK(cs, st), Linked(cs, st), Placed(cs, st, os),
         NEW i \in 1..Len(cs), cs[i].at \in {"handover", "pausing"}
  PROVE  /\ Len(st) - 1 \in 1..Len(st) /\ i = st[Len(st) - 1] /\ os = {}
         /\ HandsOver(cs[i]) /\ cs[st[Len(st)]].at = "busy"
<1>1. PICK k \in 1..Len(st) : st[k] = i
  BY DEF Linked
<1>2. ~Waits(cs[i]) /\ ~TopPlace(cs[i], os)
  BY DEF Waits, TopPlace
<1> QED BY <1>1, <1>2 DEF Placed

-----------------------------------------------------------------------------
(* The ways in which instances and stack change.                           *)

\* The top does something else.
LEMMA TopMoves ==
  ASSUME NEW cs, NEW st, StackOK(cs, st), Known(cs), Linked(cs, st), Below(cs, st),
         st # <<>>, NEW i, i = st[Len(st)], NEW c \in ClineType,
         NEW os, TopPlace(c, os), ~Away(os), NEW ds, Writes(ds, cs, i, c)
  PROVE  /\ Keeps(ds, cs) /\ Known(ds) /\ Linked(ds, st) /\ Placed(ds, st, os)
         /\ Len(ds) = Len(cs)
<1>1. /\ Len(st) \in 1..Len(st) /\ Len(st) \in Nat /\ i \in 1..Len(cs)
      /\ \A k \in 1..Len(st) : st[k] \in 1..Len(cs)
  BY Basics
<1>2. /\ Len(ds) = Len(cs) /\ ds[i] = c /\ \A j \in 1..Len(cs) : j # i => ds[j] = cs[j]
      /\ Keeps(ds, cs) /\ Known(ds) /\ Linked(ds, st)
  <2>1. \E k \in 1..Len(st) : st[k] = i
    BY <1>1
  <2> QED BY <1>1, <2>1, WriteLinks
<1>3. ASSUME NEW k \in 1..Len(st), k # Len(st)
      PROVE  Waits(ds[st[k]]) /\ k < Len(st)
  <2>1. k \in 1..(Len(st) - 1)
    BY <1>1, <1>3
  <2>2. st[k] # i /\ st[k] \in 1..Len(cs)
    BY <1>1, <1>3 DEF Linked
  <2> QED BY <1>1, <1>2, <2>1, <2>2 DEF Below
<1>4. Placed(ds, st, os)
  BY <1>2, <1>3 DEF Placed
<1> QED BY <1>2, <1>4

\* The one below the top does something else while nothing is under way.
LEMMA SecondMoves ==
  ASSUME NEW cs, NEW st, StackOK(cs, st), Known(cs), Linked(cs, st),
         Placed(cs, st, {}), Len(st) - 1 \in 1..Len(st),
         NEW i, i = st[Len(st) - 1], cs[st[Len(st)]].at = "busy",
         NEW c \in ClineType,
         HandsOver(c) \/ Waits(c), NEW ds, Writes(ds, cs, i, c)
  PROVE  Known(ds) /\ Linked(ds, st) /\ Placed(ds, st, {})
<1> DEFINE n == Len(st)
<1>1. /\ n \in Nat /\ n \in 1..n /\ n - 1 \in 1..n /\ i \in 1..Len(cs)
      /\ \A k \in 1..n : st[k] \in 1..Len(cs)
  BY Basics
<1>2. /\ Len(ds) = Len(cs) /\ ds[i] = c /\ \A j \in 1..Len(cs) : j # i => ds[j] = cs[j]
      /\ Known(ds) /\ Linked(ds, st)
  <2>1. \E k \in 1..Len(st) : st[k] = i
    BY <1>1
  <2> HIDE DEF n
  <2> QED BY <1>1, <2>1, WriteLinks
<1>3. \A k \in 1..n : k # n - 1 => ds[st[k]] = cs[st[k]]
  <2> SUFFICES ASSUME NEW k \in 1..n, k # n - 1 PROVE ds[st[k]] = cs[st[k]]
    OBVIOUS
  <2>1. st[k] # i
    BY DEF Linked
  <2> QED BY <1>1, <1>2, <2>1
<1>4. ds[st[n]].at = "busy"
  BY <1>1, <1>3
<1>5. ASSUME NEW k \in 1..n
      PROVE  \/ Waits(ds[st[k]]) /\ (k < n \/ Away({}))
             \/ /\ k = n - 1 /\ {} = {} /\ HandsOver(ds[st[k]])
                /\ ds[st[n]].at = "busy"
             \/ k = n /\ ~Away({}) /\ TopPlace(ds[st[k]], {})
  <2>1. CASE k = n - 1
    BY <1>1, <1>2, <1>4, <2>1
  <2>2. CASE k # n - 1
    BY <1>3, <2>2 DEF Placed
  <2> QED BY <2>1, <2>2
<1> QED BY <1>2, <1>5 DEF Placed

\* The top is removed.
LEMMA TopGoes ==
  ASSUME NEW cs, NEW st, StackOK(cs, st), Known(cs), Linked(cs, st), Below(cs, st),
         st # <<>>, NEW i, i = st[Len(st)], NEW c \in ClineType, c.at = "over",
         NEW ds, Writes(ds, cs, i, c),
         NEW su, PopsTo(su, st),
         NEW os, Away(os) \/ Len(st) = 1
  PROVE  /\ Known(ds) /\ Linked(ds, su) /\ Placed(ds, su, os)
         /\ cs[i].task \in 1..Len(ds) /\ cs[i].parent \in 0..Len(ds)
         /\ su # <<>> => SpawnerOf(ds, cs[i].task) = ds[su[Len(su)]].task
<1> DEFINE n == Len(st)
<1>1. /\ n \in 1..n /\ n \in Nat \ {0} /\ i \in 1..Len(cs) /\ Len(cs) \in Nat
      /\ \A k \in 1..n : st[k] \in 1..Len(cs)
      /\ st \in Seq(1..Len(cs))
  BY Basics
<1>2. /\ Len(ds) = Len(cs) /\ ds[i] = c /\ \A j \in 1..Len(cs) : j # i => ds[j] = cs[j]
      /\ ds \in Seq(ClineType) /\ Keeps(ds, cs) /\ Known(ds) /\ Linked(ds, st)
  <2>1. \E k \in 1..Len(st) : st[k] = i
    BY <1>1
  <2> QED BY <1>1, <2>1, WriteLinks
<1>3. /\ Len(su) = n - 1 /\ \A k \in 1..Len(su) : su[k] = st[k]
      /\ Linked(ds, su) /\ (su = <<>> <=> Len(su) = 0)
  <2>1. ds[st[n]].at = "over" /\ st \in Seq(1..Len(ds))
    BY <1>1, <1>2
  <2> QED BY <1>2, <2>1, PopLinks
<1>4. ASSUME NEW k \in 1..Len(su)
      PROVE  Waits(ds[su[k]]) /\ su # <<>>
  <2>1. k \in 1..(n - 1) /\ k \in 1..n /\ k # n
    BY <1>1, <1>3
  <2>2. st[k] # i /\ st[k] \in 1..Len(cs)
    BY <1>1, <2>1 DEF Linked
  <2> QED BY <1>1, <1>2, <1>3, <2>1, <2>2 DEF Below
<1>5. Placed(ds, su, os)
  BY <1>1, <1>3, <1>4 DEF Placed
<1>6. cs[i].task \in 1..Len(ds) /\ cs[i].parent \in 0..Len(ds)
  BY <1>1, <1>2 DEF Known
<1>7. ASSUME su # <<>>
      PROVE  SpawnerOf(ds, cs[i].task) = ds[su[Len(su)]].task
  <2>1. n \in 2..n /\ n - 1 \in 1..Len(su)
    BY <1>1, <1>3, <1>7
  <2>2. SpawnerOf(ds, ds[st[n]].task) = ds[st[n - 1]].task
    BY <1>2, <2>1 DEF Linked
  <2>3. ds[st[n]].task = cs[i].task
    BY <1>2 DEF Writes
  <2> QED BY <1>3, <2>1, <2>2, <2>3
<1> QED BY <1>1, <1>2, <1>3, <1>5, <1>6, <1>7

\* An instance is pushed on a stack that waits for it, or hands over to it.
LEMMA TopComes ==
  ASSUME NEW cs, NEW st, StackOK(cs, st), Known(cs), Linked(cs, st), Below(cs, st),
         NEW c \in ClineType, c.task \in 1..(Len(cs) + 1), c.parent \in 0..Len(cs),
         c.at \in {"busy", "resume"},
         st # <<>> => \/ Waits(cs[st[Len(st)]])
                      \/ HandsOver(cs[st[Len(st)]]) /\ c.at = "busy",
         NEW ds, NEW su, PushesTo(ds, su, cs, st, c),
         st # <<>> => SpawnerOf(ds, c.task) = cs[st[Len(st)]].task
  PROVE  Known(ds) /\ Linked(ds, su) /\ Placed(ds, su, {})
<1> DEFINE m == Len(st)
<1>1. /\ m \in Nat /\ (st = <<>> <=> m = 0)
      /\ \A k \in 1..m : st[k] \in 1..Len(cs)
  BY Basics
<1>2. /\ Len(ds) = Len(cs) + 1 /\ ds[Len(cs) + 1] = c
      /\ \A i \in 1..Len(cs) : ds[i] = cs[i]
      /\ Len(su) = m + 1 /\ su[m + 1] = Len(cs) + 1
      /\ \A k \in 1..m : su[k] = st[k]
      /\ Known(ds) /\ Linked(ds, su)
  BY PushLinks
<1> HIDE DEF m
<1>3. \A k \in 1..m : ds[su[k]] = cs[st[k]]
  BY <1>1, <1>2
<1>4. ds[su[m + 1]] = c /\ ~Away({}) /\ TopPlace(c, {})
  BY <1>2 DEF Away, TopPlace
<1>5. ASSUME NEW k \in 1..m
      PROVE  Waits(ds[su[k]]) \/ (k = m /\ HandsOver(ds[su[k]]) /\ c.at = "busy")
  <2>1. CASE k = m
    BY <1>1, <1>3, <2>1 DEF m
  <2>2. CASE k # m
    <3>1. k \in 1..(m - 1)
      BY <1>1, <2>2
    <3> QED BY <1>3, <3>1 DEF Below, m
  <2> QED BY <2>1, <2>2
<1>6. ASSUME NEW k \in 1..(m + 1)
      PROVE  \/ Waits(ds[su[k]]) /\ (k < m + 1 \/ Away({}))
             \/ /\ k = (m + 1) - 1 /\ {} = {} /\ HandsOver(ds[su[k]])
                /\ ds[su[m + 1]].at = "busy"
             \/ k = m + 1 /\ ~Away({}) /\ TopPlace(ds[su[k]], {})
  <2>1. CASE k = m + 1
    BY <1>4, <2>1
  <2>2. CASE k # m + 1
    <3>1. k \in 1..m /\ k < m + 1 /\ m = (m + 1) - 1
      BY <1>1, <2>2
    <3> QED BY <1>4, <1>5, <3>1
  <2> QED BY <2>1, <2>2
<1>7. Placed(ds, su, {})
  BY <1>2, <1>6 DEF Placed
<1> QED BY <1>2, <1>7

-----------------------------------------------------------------------------
(* One step of an orderly history.                                         *)

\* What the invariants say of an orderly state.
LEMMA OrderlyNow ==
  ASSUME IInv, OInv, orderly
  PROVE  /\ StackOK(clines, stack) /\ clines \in Seq(ClineType) /\ Len(clines) \in Nat
         /\ Known(clines) /\ Linked(clines, stack) /\ Placed(clines, stack, ops)
         /\ \A o, p \in ops : o = p
         /\ \A o \in ops : OpTidy(clines, stack, o) /\ o \in OpType
         /\ stack # <<>> =>
              /\ Top = stack[Len(stack)] /\ Top \in 1..Len(clines)
              /\ clines[Top] \in ClineType
<1>1. StackOK(clines, stack) /\ Tidy(clines, stack, ops) /\ OpsOK
  BY DEF IInv, OInv
<1>2. stack # <<>> => Top \in 1..Len(clines) /\ clines[Top] \in ClineType
  BY <1>1, TopIsInstance
<1> QED BY <1>1, <1>2, Basics DEF Tidy, Top, OpsOK

\* An operation that begins in an orderly history begins alone.
LEMMA BeginsAlone ==
  ASSUME NEW b, Begins(b), orderly'
  PROVE  orderly /\ b /\ ops = {} /\ ~HandingOver
BY DEF Begins

\* The only operation.
LEMMA OnlyOp ==
  ASSUME NEW o \in ops, \A p, q \in ops : p = q
  PROVE  ops \ {o} = {} /\ ops # {}
OBVIOUS

\* An orderly state is one with these parts.
LEMMA TidyParts ==
  ASSUME NEW cs, NEW st, NEW os, Known(cs), Linked(cs, st), Placed(cs, st, os),
         os = {} \/ \E o : os = {o} /\ OpTidy(cs, st, o)
  PROVE  Tidy(cs, st, os)
BY DEF Tidy

\* What a task's step within its place writes.
LEMMA MoveWrites ==
  ASSUME clines \in Seq(ClineType), NEW i \in Ids, NEW at \in Places, MovesOn(i, at)
  PROVE  \E c \in ClineType :
           /\ Writes(clines', clines, i, c)
           /\ c.at = at /\ c.paused = clines[i].paused
           /\ c.aborted = clines[i].aborted
<1> DEFINE c == [clines[i] EXCEPT !.at = at]
<1>1. clines[i] \in ClineType
  BY ElementOfSeq DEF Ids
<1>2. clines' = [clines EXCEPT ![i] = c]
  BY <1>1 DEF MovesOn
<1>3. c \in ClineType
  BY <1>1 DEF ClineType
<1>4. /\ c.at = at /\ c.paused = clines[i].paused /\ c.aborted = clines[i].aborted
      /\ c.task = clines[i].task /\ c.parent = clines[i].parent
  BY <1>1 DEF ClineType
<1> HIDE DEF c
<1> QED BY <1>2, <1>3, <1>4 DEF Writes

\* What removing an instance writes, when nothing of it is left to go on.
LEMMA RemovalWrites ==
  ASSUME NEW cs \in Seq(ClineType), NEW i \in 1..Len(cs),
         cs[i].at \notin {"spawning", "handover", "finishing"}
  PROVE  \E c \in ClineType : Writes(Removed(cs, i), cs, i, c) /\ c.at = "over"
<1> DEFINE c == [cs[i] EXCEPT !.aborted = TRUE, !.abandoned = TRUE, !.at = "over"]
<1>1. cs[i] \in ClineType
  BY ElementOfSeq
<1>2. Removed(cs, i) = [cs EXCEPT ![i] = c]
  BY <1>1 DEF Removed, ClineType
<1>3. c \in ClineType
  BY <1>1 DEF ClineType, Places
<1>4. c.at = "over" /\ c.task = cs[i].task /\ c.parent = cs[i].parent
  BY <1>1 DEF ClineType
<1> HIDE DEF c
<1> QED BY <1>2, <1>3, <1>4 DEF Writes

\* The parts of an orderly state after the top has been removed.
LEMMA PopsParts ==
  ASSUME NEW cs, StackOK(cs, stack), Known(cs), Linked(cs, stack), Below(cs, stack),
         Pops(cs), cs[Top].at \notin {"spawning", "handover", "finishing"},
         NEW os, Away(os) \/ Len(stack) = 1
  PROVE  /\ Known(clines') /\ Linked(clines', stack') /\ Placed(clines', stack', os)
         /\ cs[Top].task \in 1..Len(clines') /\ cs[Top].parent \in 0..Len(clines')
         /\ stack' # <<>> =>
              SpawnerOf(clines', cs[Top].task) = clines'[stack'[Len(stack')]].task
<1>1. stack # <<>> /\ clines' = Removed(cs, Top) /\ PopsTo(stack', stack)
  BY DEF Pops, PopsTo
<1>2. Top \in 1..Len(cs) /\ cs \in Seq(ClineType) /\ Top = stack[Len(stack)]
  BY <1>1, TopIsInstance DEF StackOK, Top
<1>3. PICK c \in ClineType : Writes(clines', cs, Top, c) /\ c.at = "over"
  BY <1>1, <1>2, RemovalWrites
<1>4. /\ Known(clines') /\ Linked(clines', stack') /\ Placed(clines', stack', os)
      /\ cs[Top].task \in 1..Len(clines') /\ cs[Top].parent \in 0..Len(clines')
  BY <1>1, <1>2, <1>3, TopGoes
<1>5. stack' # <<>> =>
        SpawnerOf(clines', cs[Top].task) = clines'[stack'[Len(stack')]].task
  BY <1>1, <1>2, <1>3, TopGoes
<1> QED BY <1>4, <1>5

\* The task that has been removed is what the next operation is about.
LEMMA RemovedOp ==
  ASSUME NEW cs, NEW st, NEW t \in 1..Len(cs), NEW o, o.task = t, o.parent \in 0..Len(cs),
         o.step \in {"resume", "restart"},
         st # <<>> => SpawnerOf(cs, t) = cs[st[Len(st)]].task
  PROVE  OpTidy(cs, st, o)
BY DEF OpTidy

\* The user's operations.
LEMMA UserTidy ==
  ASSUME IInv, OInv, User, orderly'
  PROVE  Tidy(clines', stack', ops')
<1>1. orderly /\ ops = {} /\ ~HandingOver
  BY BeginsAlone DEF User, NewTask, Clear, Plus, Cancel, Show
<1>2. /\ StackOK(clines, stack) /\ clines \in Seq(ClineType) /\ Len(clines) \in Nat
      /\ Known(clines) /\ Linked(clines, stack) /\ Placed(clines, stack, ops)
      /\ stack # <<>> =>
           /\ Top = stack[Len(stack)] /\ Top \in 1..Len(clines)
           /\ clines[Top] \in ClineType
  BY <1>1, OrderlyNow
<1>3. /\ Below(clines, stack)
      /\ stack # <<>> =>
           \/ clines[Top].at \in {"busy", "resume", "over"}
           \/ clines[Top].at = "waiting" /\ ~clines[Top].paused
  BY <1>1, <1>2, Quiet
<1>4. /\ Len(<<>>) = 0 /\ Len(stack) \in Nat
      /\ stack # <<>> => Len(stack) \in 1..Len(stack)
  BY <1>2, Basics, EmptySeq
<1>5. ASSUME stack = <<>>, NEW os PROVE Placed(clines, stack, os)
  BY <1>4, <1>5 DEF Placed
<1>6. CASE NewTask
  <2>1. PICK s : ops' = {Op(s, "push", 0, 0, 0)}
    BY <1>1, <1>6 DEF NewTask
  <2>2. stack = <<>> /\ stack' = stack /\ clines' = clines
    BY <1>6, BeginsAlone DEF NewTask
  <2>3. OpTidy(clines, stack, Op(s, "push", 0, 0, 0))
    BY <2>2 DEF OpTidy, Op
  <2> QED BY <1>2, <1>5, <2>1, <2>2, <2>3, TidyParts
<1>7. CASE Clear
  <2>1. PICK s : ops' = {Op(s, "resume", 0, clines[Top].task, 0)}
    BY <1>1, <1>7 DEF Clear
  <2> DEFINE o == Op(s, "resume", 0, clines[Top].task, 0)
  <2>2. stack # <<>> /\ Pops(clines)
    BY <1>7 DEF Clear, Pops
  <2>3. o.step = "resume" /\ o.task = clines[Top].task /\ o.parent = 0
    BY DEF Op
  <2> HIDE DEF o
  <2>4. Away(ops')
    BY <2>1, <2>3 DEF Away, o
  <2>5. clines[Top].at \notin {"spawning", "handover", "finishing"}
    BY <1>3, <2>2
  <2>6. /\ Known(clines') /\ Linked(clines', stack') /\ Placed(clines', stack', ops')
        /\ clines[Top].task \in 1..Len(clines')
        /\ stack' # <<>> =>
             SpawnerOf(clines', clines[Top].task) = clines'[stack'[Len(stack')]].task
    BY <1>2, <1>3, <2>2, <2>4, <2>5, PopsParts
  <2>7. OpTidy(clines', stack', o)
    <3>1. 0 \in 0..Len(clines')
      BY <2>6
    <3> QED BY <2>3, <2>6, <3>1, RemovedOp
  <2> QED BY <2>1, <2>6, <2>7, TidyParts DEF o
<1>8. CASE Plus
  <2>1. stack # <<>> /\ Pops(clines) /\ ops' = {} /\ Len(stack) = 1
    BY <1>1, <1>8, BeginsAlone DEF Plus, Pops
  <2>2. clines[Top].at \notin {"spawning", "handover", "finishing"}
    BY <1>3, <2>1
  <2> QED BY <1>2, <1>3, <2>1, <2>2, PopsParts, TidyParts
<1>9. CASE Cancel
  <2>1. PICK s :
          ops' = {Op(s, "cancel", Top, clines[Top].task, clines[Top].parent)}
    BY <1>1, <1>9 DEF Cancel
  <2> DEFINE o == Op(s, "cancel", Top, clines[Top].task, clines[Top].parent)
  <2>2. stack # <<>> /\ stack' = stack /\ clines' = clines
    BY <1>9 DEF Cancel
  <2>3. /\ o.step = "cancel" /\ o.cline = Top /\ o.task = clines[Top].task
        /\ o.parent = clines[Top].parent
    BY DEF Op
  <2> HIDE DEF o
  <2>4. ~Away(ops')
    BY <2>1, <2>3 DEF Away, o
  <2>5. OpTidy(clines, stack, o)
    BY <1>2, <2>2, <2>3 DEF OpTidy, Known
  <2>6. TopPlace(clines[Top], ops')
    BY <1>3, <2>2 DEF TopPlace
  <2>7. ASSUME NEW k \in 1..Len(stack), k # Len(stack)
        PROVE  Waits(clines[stack[k]]) /\ k < Len(stack)
    <3>1. k \in 1..(Len(stack) - 1)
      BY <1>4, <2>7
    <3> QED BY <1>3, <3>1 DEF Below
  <2>8. Placed(clines, stack, ops')
    BY <1>2, <2>2, <2>4, <2>6, <2>7 DEF Placed
  <2> QED BY <1>2, <2>1, <2>2, <2>5, <2>8, TidyParts DEF o
<1>10. CASE Show
  <2>1. PICK i \in Ids, s \in FreeSlots : ops' = {Op(s, "show", 0, clines[i].task, 0)}
    BY <1>1, <1>10 DEF Show
  <2>2. stack = <<>> /\ stack' = stack /\ clines' = clines
    BY <1>10, BeginsAlone DEF Show
  <2>3. clines[i].task \in 1..Len(clines)
    BY <1>2 DEF Known, Ids
  <2>4. OpTidy(clines, stack, Op(s, "show", 0, clines[i].task, 0))
    BY <1>2, <2>2, <2>3 DEF OpTidy, Op
  <2> QED BY <1>2, <1>5, <2>1, <2>2, <2>4, TidyParts
<1> QED BY <1>6, <1>7, <1>8, <1>9, <1>10 DEF User

\* An operation goes on, and is still about the same task.
LEMMA OpMoves ==
  ASSUME NEW cs, NEW st, NEW o \in OpType, NEW step, o.step # "push",
         step \in {"replace", "restart"},
         o.task \in 1..Len(cs), o.parent \in 0..Len(cs),
         step = "replace" => st # <<>> /\ o.task = cs[st[Len(st)]].task,
         step = "restart" /\ st # <<>> => SpawnerOf(cs, o.task) = cs[st[Len(st)]].task
  PROVE  OpTidy(cs, st, [o EXCEPT !.step = step])
<1> DEFINE p == [o EXCEPT !.step = step]
<1>1. p.step = step /\ p.task = o.task /\ p.parent = o.parent
  BY DEF OpType
<1> HIDE DEF p
<1>2. OpTidy(cs, st, p)
  BY <1>1 DEF OpTidy
<1> QED BY <1>2 DEF p

\* How the operations go on.
LEMMA ProviderTidy ==
  ASSUME IInv, OInv, NEW o \in ops, Provider(o), orderly'
  PROVE  Tidy(clines', stack', ops')
<1>0. orderly
  BY DEF Provider, CancelAborts, Replaces, Restarts, StartsTask, ResumesTop
<1>1. /\ StackOK(clines, stack) /\ clines \in Seq(ClineType) /\ Len(clines) \in Nat
      /\ Known(clines) /\ Linked(clines, stack) /\ Placed(clines, stack, ops)
      /\ \A p, q \in ops : p = q
      /\ OpTidy(clines, stack, o) /\ o \in OpType
      /\ stack # <<>> =>
           /\ Top = stack[Len(stack)] /\ Top \in 1..Len(clines)
           /\ clines[Top] \in ClineType
  BY <1>0, OrderlyNow
<1>2. ops \ {o} = {} /\ ops # {}
  BY <1>1, OnlyOp
<1>3. Below(clines, stack)
  BY <1>1, <1>2, BelowWaits
<1>4. /\ Len(<<>>) = 0 /\ Len(stack) \in Nat
      /\ stack # <<>> => Len(stack) \in 1..Len(stack)
  BY <1>1, Basics, EmptySeq
<1>5. Away(ops) <=> o.step \in {"resume", "restart"}
  BY <1>1 DEF Away
<1>6. ASSUME o.step \notin {"resume", "restart"}, stack # <<>>
      PROVE  TopPlace(clines[Top], ops)
  BY <1>1, <1>2, <1>4, <1>5, <1>6 DEF Placed
<1>7. ASSUME o.step \in {"resume", "restart"}, stack # <<>>
      PROVE  Waits(clines[Top])
  BY <1>1, <1>2, <1>4, <1>5, <1>7 DEF Placed
<1>8. CASE CancelAborts(o)
  <2>1. /\ o.step = "cancel" /\ clines' = [clines EXCEPT ![o.cline].aborted = TRUE]
        /\ ops' = {[o EXCEPT !.step = "replace"]} /\ stack' = stack
    BY <1>2, <1>8 DEF CancelAborts, Becomes
  <2>2. stack # <<>> /\ o.cline = Top /\ o.task = clines[Top].task
    BY <1>1, <2>1 DEF OpTidy
  <2> DEFINE c == [clines[Top] EXCEPT !.aborted = TRUE]
  <2>3. clines' = [clines EXCEPT ![Top] = c]
    BY <1>1, <2>1, <2>2
  <2>4. c \in ClineType
    BY <1>1, <2>2 DEF ClineType
  <2>5. /\ c.at = clines[Top].at /\ c.paused = clines[Top].paused
        /\ c.task = clines[Top].task /\ c.parent = clines[Top].parent
    BY <1>1, <2>2 DEF ClineType
  <2> HIDE DEF c
  <2>6. Writes(clines', clines, Top, c)
    BY <2>3, <2>5 DEF Writes
  <2>7. TopPlace(clines[Top], ops)
    BY <1>6, <2>1, <2>2
  <2>8. TopPlace(c, ops')
    BY <1>2, <2>5, <2>7 DEF TopPlace
  <2>9. ~Away(ops')
    <3>1. [o EXCEPT !.step = "replace"].step = "replace"
      BY <1>1 DEF OpType
    <3> QED BY <2>1, <3>1 DEF Away
  <2>10. /\ Keeps(clines', clines) /\ Known(clines') /\ Linked(clines', stack)
         /\ Placed(clines', stack, ops') /\ Len(clines') = Len(clines)
    BY <1>1, <1>3, <2>2, <2>4, <2>6, <2>8, <2>9, TopMoves
  <2>11. OpTidy(clines', stack, [o EXCEPT !.step = "replace"])
    <3>1. o.task = clines'[stack[Len(stack)]].task
      BY <1>1, <2>2, <2>10 DEF Keeps
    <3>2. o.task \in 1..Len(clines') /\ o.parent \in 0..Len(clines')
      BY <1>1, <2>1, <2>10 DEF OpTidy
    <3> QED BY <1>1, <2>1, <2>2, <3>1, <3>2, OpMoves
  <2> QED BY <2>1, <2>10, <2>11, TidyParts
<1>9. CASE Replaces(o)
  <2>1. o.step \in {"replace", "show"} /\ ops' = {[o EXCEPT !.step = "restart"]}
    BY <1>2, <1>9 DEF Replaces, Becomes
  <2>2. o.task \in 1..Len(clines) /\ o.parent \in 0..Len(clines)
    BY <1>1, <2>1 DEF OpTidy
  <2>3. CASE stack = <<>>
    <3>1. clines' = clines /\ stack' = stack
      BY <1>9, <2>3 DEF Replaces
    <3>2. Placed(clines, stack, ops')
      BY <1>4, <2>3 DEF Placed
    <3>3. OpTidy(clines, stack, [o EXCEPT !.step = "restart"])
      BY <1>1, <2>1, <2>2, <2>3, OpMoves
    <3> QED BY <1>1, <2>1, <3>1, <3>2, <3>3, TidyParts
  <2>4. CASE stack # <<>>
    <3>1. Pops(clines) /\ o.task = clines[Top].task
      BY <1>1, <1>9, <2>1, <2>4 DEF Replaces, OpTidy
    <3>2. clines[Top].at \notin {"spawning", "handover", "finishing"}
      BY <1>2, <1>6, <2>1, <2>4 DEF TopPlace
    <3>3. Away(ops')
      <4>1. [o EXCEPT !.step = "restart"].step = "restart"
        BY <1>1 DEF OpType
      <4> QED BY <2>1, <4>1 DEF Away
    <3>4. /\ Known(clines') /\ Linked(clines', stack') /\ Placed(clines', stack', ops')
          /\ o.task \in 1..Len(clines')
          /\ stack' # <<>> =>
               SpawnerOf(clines', o.task) = clines'[stack'[Len(stack')]].task
      BY <1>1, <1>3, <3>1, <3>2, <3>3, PopsParts
    <3>5. Len(clines') = Len(clines)
      <4>1. clines' = Removed(clines, Top)
        BY <3>1 DEF Pops
      <4> QED BY <1>1, <2>4, <4>1, PopKeepsStack
    <3>6. OpTidy(clines', stack', [o EXCEPT !.step = "restart"])
      BY <1>1, <2>1, <2>2, <3>4, <3>5, OpMoves
    <3> QED BY <2>1, <3>4, <3>6, TidyParts
  <2> QED BY <2>3, <2>4
<1>10. CASE Restarts(o)
  <2> DEFINE c == NewCline(o.task, o.parent, "resume")
  <2>1. o.step = "restart" /\ PushesTo(clines', stack', clines, stack, c) /\ ops' = {}
    BY <1>2, <1>10 DEF Restarts, Pushes, PushesTo, Done
  <2>2. /\ o.task \in 1..Len(clines) /\ o.parent \in 0..Len(clines)
        /\ stack # <<>> => SpawnerOf(clines, o.task) = clines[stack[Len(stack)]].task
    BY <1>1, <2>1 DEF OpTidy
  <2>3. c \in ClineType
    <3>1. o.task \in Nat \ {0} /\ o.parent \in Nat /\ "resume" \in Places
      BY <1>1, <2>2 DEF Places
    <3> QED BY <3>1, NewClineType
  <2>4. c.task = o.task /\ c.parent = o.parent /\ c.at = "resume"
    BY DEF NewCline
  <2> HIDE DEF c
  <2>5. stack # <<>> => SpawnerOf(clines', o.task) = SpawnerOf(clines, o.task)
    <3>1. Keeps(clines', clines) /\ Len(clines') \in Nat
      <4>1. /\ Len(clines') = Len(clines) + 1
            /\ \A j \in 1..Len(clines) : clines'[j] = clines[j]
        BY <1>1, <2>1, <2>3, AppendProperties DEF PushesTo
      <4> QED BY <1>1, <4>1 DEF Keeps
    <3> QED BY <1>1, <2>2, <3>1, SpawnerStays
  <2>6. c.task \in 1..(Len(clines) + 1) /\ c.parent \in 0..Len(clines)
    BY <1>1, <2>2, <2>4
  <2>7. stack # <<>> => Waits(clines[stack[Len(stack)]])
    BY <1>1, <1>7, <2>1
  <2>8. Known(clines') /\ Linked(clines', stack') /\ Placed(clines', stack', {})
    BY <1>1, <1>3, <2>1, <2>2, <2>3, <2>4, <2>5, <2>6, <2>7, TopComes
  <2> QED BY <2>1, <2>8, TidyParts
<1>11. CASE StartsTask(o)
  <2> DEFINE c == NewCline(Len(clines) + 1, 0, "busy")
  <2>1. o.step = "push" /\ PushesTo(clines', stack', clines, stack, c) /\ ops' = {}
    BY <1>2, <1>11 DEF StartsTask, Pushes, PushesTo, Done
  <2>2. stack = <<>>
    BY <1>1, <2>1 DEF OpTidy
  <2>3. c \in ClineType
    BY <1>1, NewClineType DEF Places
  <2>4. c.task = Len(clines) + 1 /\ c.parent = 0 /\ c.at = "busy"
    BY DEF NewCline
  <2> HIDE DEF c
  <2>5. c.task \in 1..(Len(clines) + 1) /\ c.parent \in 0..Len(clines)
    BY <1>1, <2>4
  <2>6. Known(clines') /\ Linked(clines', stack') /\ Placed(clines', stack', {})
    BY <1>1, <1>3, <2>1, <2>2, <2>3, <2>4, <2>5, TopComes
  <2> QED BY <2>1, <2>6, TidyParts
<1>12. CASE ResumesTop(o)
  <2>1. o.step = "resume" /\ stack' = stack /\ ops' = {}
    BY <1>2, <1>12 DEF ResumesTop, Done
  <2>2. CASE stack = <<>>
    <3>1. clines' = clines
      BY <1>12, <2>2 DEF ResumesTop
    <3>2. Placed(clines, stack, ops')
      BY <1>4, <2>2 DEF Placed
    <3> QED BY <1>1, <2>1, <3>1, <3>2, TidyParts
  <2>3. CASE stack # <<>>
    <3> DEFINE c == [clines[Top] EXCEPT !.paused = FALSE]
    <3>1. clines[Top].at = "waiting"
      BY <1>7, <2>1, <2>3 DEF Waits
    <3>2. clines' = [clines EXCEPT ![Top] = c]
      BY <1>1, <1>12, <2>3, <3>1 DEF ResumesTop, ClineType
    <3>3. c \in ClineType
      BY <1>1, <2>3 DEF ClineType
    <3>4. /\ c.at = clines[Top].at /\ c.paused = FALSE
          /\ c.task = clines[Top].task /\ c.parent = clines[Top].parent
      BY <1>1, <2>3 DEF ClineType
    <3> HIDE DEF c
    <3>5. Writes(clines', clines, Top, c)
      BY <3>2, <3>4 DEF Writes
    <3>6. TopPlace(c, {}) /\ ~Away({})
      BY <3>1, <3>4 DEF TopPlace, Away
    <3>7. Known(clines') /\ Linked(clines', stack) /\ Placed(clines', stack, {})
      BY <1>1, <1>3, <2>3, <3>3, <3>5, <3>6, TopMoves
    <3> QED BY <2>1, <3>7, TidyParts
  <2> QED BY <2>2, <2>3
<1> QED BY <1>8, <1>9, <1>10, <1>11, <1>12 DEF Provider

\* An operation stays tidy while tasks move on in their places.
LEMMA OpsStay ==
  ASSUME IInv, OInv, orderly, Keeps(clines', clines), Len(clines') = Len(clines),
         Known(clines'), Linked(clines', stack), Placed(clines', stack, ops)
  PROVE  Tidy(clines', stack, ops)
<1>1. /\ StackOK(clines, stack) /\ Known(clines) /\ Len(clines) \in Nat
      /\ \A o, p \in ops : o = p
      /\ \A o \in ops : OpTidy(clines, stack, o) /\ o \in OpType
  BY OrderlyNow
<1>2. ASSUME NEW o \in ops PROVE OpTidy(clines', stack, o)
  <2>1. OpTidy(clines, stack, o) /\ o.parent \in Nat
    BY <1>1 DEF OpType
  <2> QED BY <1>1, <2>1, OpStays
<1> QED BY <1>1, <1>2 DEF Tidy

\* The steps of the tasks.
LEMMA TaskTidy ==
  ASSUME IInv, OInv, NEW i \in Ids, Task(i), orderly'
  PROVE  Tidy(clines', stack', ops')
<1>0. orderly
  BY BeginsAlone DEF Task, Resumes, Spawns, SpawnsChild, Pauses, ChecksPause, Wakes,
                     Completes, Finishes, StreamFails
<1>1. /\ StackOK(clines, stack) /\ clines \in Seq(ClineType) /\ Len(clines) \in Nat
      /\ Known(clines) /\ Linked(clines, stack) /\ Placed(clines, stack, ops)
      /\ stack # <<>> =>
           /\ Top = stack[Len(stack)] /\ Top \in 1..Len(clines)
           /\ clines[Top] \in ClineType
  BY <1>0, OrderlyNow
<1>2. i \in 1..Len(clines) /\ clines[i] \in ClineType /\ mode \in Modes
  BY <1>1, ElementOfSeq DEF Ids, IInv
<1>3. ~Away({})
  BY DEF Away
<1>4. ASSUME \/ clines[i].at \in {"busy", "resume", "spawning", "finishing"}
             \/ clines[i].at = "waiting" /\ ~clines[i].paused
      PROVE  /\ stack # <<>> /\ i = stack[Len(stack)] /\ ~Away(ops)
             /\ TopPlace(clines[i], ops)
  BY <1>1, <1>2, <1>4, RunnerIsTop
<1>5. ASSUME clines[i].at \in {"resume", "waiting", "spawning", "finishing"},
             i = stack[Len(stack)]
      PROVE  Below(clines, stack)
  BY <1>1, <1>5, BelowWaits
<1>6. ASSUME NEW b, Begins(b)
      PROVE  ops = {} /\ ~HandingOver /\ Below(clines, stack)
  BY <1>1, <1>6, BeginsAlone, Quiet
<1>7. CASE Resumes(i)
  <2>1. clines[i].at = "resume" /\ MovesOn(i, "busy") /\ stack' = stack /\ ops' = ops
    BY <1>7 DEF Resumes
  <2>2. stack # <<>> /\ i = stack[Len(stack)] /\ ~Away(ops) /\ Below(clines, stack)
    BY <1>4, <1>5, <2>1
  <2>3. PICK c \in ClineType : Writes(clines', clines, i, c) /\ c.at = "busy"
    BY <1>1, <2>1, MoveWrites DEF Places
  <2>4. TopPlace(c, ops)
    BY <2>3 DEF TopPlace
  <2>5. /\ Keeps(clines', clines) /\ Known(clines') /\ Linked(clines', stack)
        /\ Placed(clines', stack, ops) /\ Len(clines') = Len(clines)
    BY <1>1, <2>2, <2>3, <2>4, TopMoves
  <2> QED BY <1>0, <2>1, <2>5, OpsStay
<1>8. CASE Spawns(i)
  <2> DEFINE c == [clines[i] EXCEPT !.at = "spawning", !.pausedMode = mode]
  <2>1. /\ clines[i].at = "busy" /\ ~clines[i].aborted /\ stack' = stack /\ ops' = ops
        /\ Begins(TRUE)
    BY <1>8 DEF Spawns
  <2>2. stack # <<>> /\ i = stack[Len(stack)]
    BY <1>4, <2>1
  <2>3. ops = {} /\ Below(clines, stack)
    BY <1>6, <2>1
  <2>4. clines' = [clines EXCEPT ![i] = c]
    BY <1>1, <1>2, <1>8 DEF Spawns, ClineType
  <2>5. c \in ClineType
    BY <1>2 DEF ClineType, Places
  <2>6. /\ c.at = "spawning" /\ c.aborted = clines[i].aborted
        /\ c.task = clines[i].task /\ c.parent = clines[i].parent
    BY <1>2 DEF ClineType
  <2> HIDE DEF c
  <2>7. Writes(clines', clines, i, c) /\ TopPlace(c, {})
    BY <2>1, <2>4, <2>6 DEF Writes, TopPlace
  <2>8. Known(clines') /\ Linked(clines', stack) /\ Placed(clines', stack, {})
    BY <1>1, <1>3, <2>2, <2>3, <2>5, <2>7, TopMoves
  <2> QED BY <2>1, <2>3, <2>8, TidyParts
<1>9. CASE SpawnsChild(i)
  <2> DEFINE cs == [clines EXCEPT ![i].at = "handover"]
             d == [clines[i] EXCEPT !.at = "handover"]
             c == NewCline(Len(clines) + 1, i, "busy")
  <2>1. clines[i].at = "spawning" /\ Pushes(cs, c) /\ ops' = ops
    BY <1>9 DEF SpawnsChild
  <2>2. /\ stack # <<>> /\ i = stack[Len(stack)] /\ TopPlace(clines[i], ops)
        /\ Below(clines, stack)
    BY <1>4, <1>5, <2>1
  <2>3. ops = {} /\ ~clines[i].aborted
    BY <2>1, <2>2 DEF TopPlace
  <2>4. cs = [clines EXCEPT ![i] = d]
    BY <1>1, <1>2
  <2>5. d \in ClineType
    BY <1>2 DEF ClineType, Places
  <2>6. /\ d.at = "handover" /\ d.aborted = clines[i].aborted
        /\ d.task = clines[i].task /\ d.parent = clines[i].parent
    BY <1>2 DEF ClineType
  <2>7. c \in ClineType
    BY <1>1, <1>2, NewClineType DEF Places
  <2>8. c.task = Len(clines) + 1 /\ c.parent = i /\ c.at = "busy"
    BY DEF NewCline
  <2>9. StackOK(cs, stack) /\ Len(cs) = Len(clines)
    BY <1>1, MoveKeepsStack DEF Places
  <2> HIDE DEF cs, d, c
  <2>10. Writes(cs, clines, i, d) /\ HandsOver(d)
    BY <2>3, <2>4, <2>6 DEF Writes, HandsOver
  <2>11. \E k \in 1..Len(stack) : stack[k] = i
    <3>1. Len(stack) \in 1..Len(stack)
      BY <1>1, <2>2, TopIsInstance
    <3> QED BY <2>2, <3>1
  <2>12. /\ Known(cs) /\ Linked(cs, stack) /\ cs[i] = d
         /\ \A j \in 1..Len(clines) : j # i => cs[j] = clines[j]
    BY <1>1, <1>2, <2>5, <2>10, <2>11, WriteLinks
  <2>13. Below(cs, stack)
    <3> SUFFICES ASSUME NEW k \in 1..(Len(stack) - 1) PROVE Waits(cs[stack[k]])
      BY DEF Below
    <3>1. /\ k \in 1..Len(stack) /\ Len(stack) \in 1..Len(stack) /\ k # Len(stack)
          /\ stack[k] \in 1..Len(clines)
      BY <1>1, <2>2, Basics
    <3>2. stack[k] # i
      BY <1>1, <2>2, <3>1 DEF Linked
    <3> QED BY <2>2, <2>12, <3>1, <3>2 DEF Below
  <2>14. PushesTo(clines', stack', cs, stack, c)
    BY <2>1, <2>9 DEF Pushes, PushesTo
  <2>15. SpawnerOf(clines', c.task) = cs[stack[Len(stack)]].task
    <3>1. /\ clines'[Len(cs) + 1] = c
          /\ \A j \in 1..Len(cs) : clines'[j] = cs[j]
      BY <2>7, <2>9, <2>14, AppendProperties DEF PushesTo, StackOK
    <3>2. clines'[c.task].parent = i /\ i # 0 /\ clines'[i].task = cs[i].task
      BY <1>2, <2>8, <2>9, <3>1
    <3> QED BY <2>2, <3>2 DEF SpawnerOf
  <2>16. c.task \in 1..(Len(cs) + 1) /\ c.parent \in 0..Len(cs)
    BY <1>1, <1>2, <2>8, <2>9
  <2>17. HandsOver(cs[stack[Len(stack)]])
    BY <2>2, <2>10, <2>12
  <2>18. Known(clines') /\ Linked(clines', stack') /\ Placed(clines', stack', {})
    BY <2>7, <2>8, <2>9, <2>12, <2>13, <2>14, <2>15, <2>16, <2>17, TopComes
  <2> QED BY <2>1, <2>3, <2>18, TidyParts
<1>10. CASE Pauses(i)
  <2> DEFINE c == [clines[i] EXCEPT !.at = "pausing", !.paused = TRUE]
  <2>1. clines[i].at = "handover" /\ stack' = stack /\ ops' = ops
    BY <1>10 DEF Pauses
  <2>2. /\ Len(stack) - 1 \in 1..Len(stack) /\ i = stack[Len(stack) - 1] /\ ops = {}
        /\ HandsOver(clines[i]) /\ clines[stack[Len(stack)]].at = "busy"
    BY <1>1, <1>2, <2>1, GiverIsSecond
  <2>3. clines' = [clines EXCEPT ![i] = c]
    BY <1>1, <1>2, <1>10, <2>2 DEF Pauses, HandsOver, ClineType
  <2>4. c \in ClineType
    BY <1>2 DEF ClineType, Places
  <2>5. /\ c.at = "pausing" /\ c.paused = TRUE /\ c.aborted = clines[i].aborted
        /\ c.task = clines[i].task /\ c.parent = clines[i].parent
    BY <1>2 DEF ClineType
  <2> HIDE DEF c
  <2>6. Writes(clines', clines, i, c) /\ HandsOver(c)
    BY <2>2, <2>3, <2>5 DEF Writes, HandsOver
  <2>7. Known(clines') /\ Linked(clines', stack) /\ Placed(clines', stack, {})
    BY <1>1, <2>2, <2>4, <2>6, SecondMoves
  <2> QED BY <2>1, <2>2, <2>7, TidyParts
<1>11. CASE ChecksPause(i)
  <2>1. clines[i].at = "pausing" /\ stack' = stack /\ ops' = ops
    BY <1>11 DEF ChecksPause
  <2>2. /\ Len(stack) - 1 \in 1..Len(stack) /\ i = stack[Len(stack) - 1] /\ ops = {}
        /\ HandsOver(clines[i]) /\ clines[stack[Len(stack)]].at = "busy"
    BY <1>1, <1>2, <2>1, GiverIsSecond
  <2>3. clines[i].paused
    BY <2>1, <2>2 DEF HandsOver
  <2>4. MovesOn(i, "waiting")
    BY <1>11, <2>3 DEF ChecksPause
  <2>5. PICK c \in ClineType :
          /\ Writes(clines', clines, i, c)
          /\ c.at = "waiting" /\ c.paused = clines[i].paused
    BY <1>1, <2>4, MoveWrites DEF Places
  <2>6. Waits(c)
    BY <2>3, <2>5 DEF Waits
  <2>7. Known(clines') /\ Linked(clines', stack) /\ Placed(clines', stack, {})
    BY <1>1, <2>2, <2>5, <2>6, SecondMoves
  <2> QED BY <2>1, <2>2, <2>7, TidyParts
<1>12. CASE Wakes(i)
  <2>1. /\ clines[i].at = "waiting" /\ ~clines[i].paused /\ MovesOn(i, "busy")
        /\ stack' = stack /\ ops' = ops
    BY <1>12 DEF Wakes
  <2>2. stack # <<>> /\ i = stack[Len(stack)] /\ ~Away(ops) /\ Below(clines, stack)
    BY <1>4, <1>5, <2>1
  <2>3. PICK c \in ClineType : Writes(clines', clines, i, c) /\ c.at = "busy"
    BY <1>1, <2>1, MoveWrites DEF Places
  <2>4. TopPlace(c, ops)
    BY <2>3 DEF TopPlace
  <2>5. /\ Keeps(clines', clines) /\ Known(clines') /\ Linked(clines', stack)
        /\ Placed(clines', stack, ops) /\ Len(clines') = Len(clines)
    BY <1>1, <2>2, <2>3, <2>4, TopMoves
  <2> QED BY <1>0, <2>1, <2>5, OpsStay
<1>13. CASE Completes(i)
  <2>1. /\ clines[i].at = "busy" /\ MovesOn(i, "finishing") /\ Begins(TRUE)
        /\ stack' = stack /\ ops' = ops
    BY <1>13 DEF Completes
  <2>2. stack # <<>> /\ i = stack[Len(stack)] /\ ops = {} /\ Below(clines, stack)
    BY <1>4, <1>6, <2>1
  <2>3. PICK c \in ClineType : Writes(clines', clines, i, c) /\ c.at = "finishing"
    BY <1>1, <2>1, MoveWrites DEF Places
  <2>4. TopPlace(c, {})
    BY <2>3 DEF TopPlace
  <2>5. Known(clines') /\ Linked(clines', stack) /\ Placed(clines', stack, {})
    BY <1>1, <1>3, <2>2, <2>3, <2>4, TopMoves
  <2> QED BY <2>1, <2>2, <2>5, TidyParts
<1>14. CASE Finishes(i)
  <2> DEFINE cs == [clines EXCEPT ![i].at = "over"]
             d == [clines[i] EXCEPT !.at = "over"]
  <2>1. clines[i].at = "finishing"
    BY <1>14 DEF Finishes
  <2>2. /\ stack # <<>> /\ i = stack[Len(stack)] /\ TopPlace(clines[i], ops)
        /\ Below(clines, stack)
    BY <1>4, <1>5, <2>1
  <2>3. ops = {} /\ i = Top
    BY <1>1, <2>1, <2>2 DEF TopPlace
  <2>4. PICK s : ops' = {Op(s, "resume", 0, clines[Top].task, 0)}
    BY <1>14, <2>2, <2>3 DEF Finishes
  <2> DEFINE o == Op(s, "resume", 0, clines[Top].task, 0)
  <2>5. Pops(cs)
    BY <1>14, <2>2 DEF Finishes
  <2>6. cs = [clines EXCEPT ![i] = d]
    BY <1>1, <1>2
  <2>7. d \in ClineType
    BY <1>2 DEF ClineType, Places
  <2>8. d.at = "over" /\ d.task = clines[i].task /\ d.parent = clines[i].parent
    BY <1>2 DEF ClineType
  <2>9. StackOK(cs, stack) /\ Len(cs) = Len(clines)
    BY <1>1, MoveKeepsStack DEF Places
  <2>10. o.step = "resume" /\ o.task = clines[Top].task /\ o.parent = 0
    BY DEF Op
  <2> HIDE DEF cs, d, o
  <2>11. Writes(cs, clines, i, d)
    BY <2>6, <2>8 DEF Writes
  <2>12. /\ Known(cs) /\ Linked(cs, stack) /\ cs[i] = d
         /\ \A j \in 1..Len(clines) : j # i => cs[j] = clines[j]
    BY <1>1, <1>2, <2>7, <2>8, <2>11, WriteLinks
  <2>13. Below(cs, stack)
    <3> SUFFICES ASSUME NEW k \in 1..(Len(stack) - 1) PROVE Waits(cs[stack[k]])
      BY DEF Below
    <3>1. /\ k \in 1..Len(stack) /\ Len(stack) \in 1..Len(stack) /\ k # Len(stack)
          /\ stack[k] \in 1..Len(clines)
      BY <1>1, <2>2, Basics
    <3>2. stack[k] # i
      BY <1>1, <2>2, <3>1 DEF Linked
    <3> QED BY <2>2, <2>12, <3>1, <3>2 DEF Below
  <2>14. Away(ops')
    BY <2>4, <2>10 DEF Away, o
  <2>15. cs[Top].at = "over" /\ cs[Top].task = clines[Top].task
    BY <2>3, <2>8, <2>12
  <2>16. /\ Known(clines') /\ Linked(clines', stack') /\ Placed(clines', stack', ops')
         /\ clines[Top].task \in 1..Len(clines')
         /\ stack' # <<>> =>
              SpawnerOf(clines', clines[Top].task) = clines'[stack'[Len(stack')]].task
    BY <2>5, <2>9, <2>12, <2>13, <2>14, <2>15, PopsParts
  <2>17. OpTidy(clines', stack', o)
    <3>1. 0 \in 0..Len(clines')
      BY <2>16
    <3> QED BY <2>10, <2>16, <3>1, RemovedOp
  <2> QED BY <2>4, <2>16, <2>17, TidyParts DEF o
<1>15. CASE StreamFails(i)
  <2>1. Begins(TRUE) /\ stack' = stack
    BY <1>15 DEF StreamFails
  <2>2. ops = {} /\ ~HandingOver /\ Below(clines, stack)
    BY <1>6, <2>1
  <2>3. clines[i].at = "busy"
    <3> SUFFICES ASSUME clines[i].at # "busy" PROVE FALSE
      OBVIOUS
    <3>1. clines[i].at \in {"spawning", "handover", "pausing", "finishing"}
      BY <1>15 DEF StreamFails
    <3>2. \E k \in 1..Len(stack) : stack[k] = i
      BY <1>1, <1>2, <3>1 DEF Linked
    <3> QED BY <2>2, <3>1, <3>2 DEF HandingOver
  <2>4. stack # <<>> /\ i = stack[Len(stack)]
    BY <1>4, <2>3
  <2>5. PICK s : ops' = {Op(s, "replace", 0, clines[i].task, 0)}
    BY <1>15, <2>2 DEF StreamFails
  <2> DEFINE o == Op(s, "replace", 0, clines[i].task, 0)
             c == [clines[i] EXCEPT !.at = "over", !.aborted = TRUE]
  <2>6. clines' = [clines EXCEPT ![i] = c]
    BY <1>1, <1>2, <1>15, <2>3 DEF StreamFails, ClineType
  <2>7. c \in ClineType
    BY <1>2 DEF ClineType, Places
  <2>8. c.at = "over" /\ c.task = clines[i].task /\ c.parent = clines[i].parent
    BY <1>2 DEF ClineType
  <2>9. o.step = "replace" /\ o.task = clines[i].task /\ o.parent = 0
    BY DEF Op
  <2> HIDE DEF c, o
  <2>10. Writes(clines', clines, i, c) /\ TopPlace(c, ops')
    BY <2>6, <2>8 DEF Writes, TopPlace
  <2>11. ~Away(ops')
    BY <2>5, <2>9 DEF Away, o
  <2>12. /\ Known(clines') /\ Linked(clines', stack) /\ Placed(clines', stack, ops')
         /\ Keeps(clines', clines) /\ Len(clines') = Len(clines)
    BY <1>1, <2>2, <2>4, <2>7, <2>10, <2>11, TopMoves
  <2>13. OpTidy(clines', stack, o)
    <3>1. clines'[i].task = clines[i].task /\ clines[i].task \in 1..Len(clines)
      BY <1>1, <1>2, <2>12 DEF Keeps, Known
    <3>2. 0 \in 0..Len(clines')
      BY <1>1, <2>12
    <3> QED BY <2>4, <2>9, <2>12, <3>1, <3>2 DEF OpTidy
  <2> QED BY <2>1, <2>5, <2>12, <2>13, TidyParts DEF o
<1> QED BY <1>7, <1>8, <1>9, <1>10, <1>11, <1>12, <1>13, <1>14, <1>15 DEF Task

\* A task that pauses or waits goes on in no other step than Wakes, which
\* restores its mode, as long as the user keeps to the protocol.
LEMMA OnlyWakesGoesOn ==
  ASSUME IInv, OInv, orderly, Next, NEW i \in Ids,
         clines[i].at \in {"pausing", "waiting"}, clines'[i].at = "busy"
  PROVE  mode' = clines[i].pausedMode
<1>1. /\ StackOK(clines, stack) /\ clines \in Seq(ClineType) /\ Len(clines) \in Nat
      /\ Linked(clines, stack) /\ Placed(clines, stack, ops)
      /\ stack # <<>> =>
           /\ Top = stack[Len(stack)] /\ Top \in 1..Len(clines)
           /\ clines[Top] \in ClineType
  BY OrderlyNow
<1>2. i \in 1..Len(clines) /\ clines[i] \in ClineType
  BY <1>1, ElementOfSeq DEF Ids
<1>3. clines' # clines
  OBVIOUS
<1>4. ASSUME NEW cs, Pops(cs), cs[i].at # "busy", cs \in Seq(ClineType),
             Len(cs) = Len(clines)
      PROVE  FALSE
  <2>1. stack # <<>> /\ clines' = Removed(cs, Top)
    BY <1>4 DEF Pops
  <2>2. cs[i] \in ClineType
    BY <1>2, <1>4, ElementOfSeq
  <2>3. CASE i = Top
    BY <1>2, <1>4, <2>1, <2>2, <2>3 DEF Removed, ClineType
  <2>4. CASE i # Top
    BY <1>2, <1>4, <2>1, <2>2, <2>4 DEF Removed
  <2> QED BY <2>3, <2>4
<1>5. ASSUME NEW cs, NEW c \in ClineType, Pushes(cs, c), cs[i].at # "busy",
             cs \in Seq(ClineType), Len(cs) = Len(clines)
      PROVE  FALSE
  <2>1. clines' = Append(cs, c)
    BY <1>5 DEF Pushes
  <2> QED BY <1>2, <1>5, <2>1, AppendProperties
<1>6. CASE User
  <2>1. CASE Clear \/ Plus
    BY <1>1, <1>4, <2>1 DEF Clear, Plus
  <2>2. CASE NewTask \/ Cancel \/ Show
    BY <1>3, <2>2 DEF NewTask, Cancel, Show
  <2> QED BY <1>6, <2>1, <2>2 DEF User
<1>7. ASSUME NEW o \in ops, Provider(o)
      PROVE  FALSE
  <2>1. CASE CancelAborts(o)
    BY <1>1, <1>2, <2>1 DEF CancelAborts, ClineType
  <2>2. CASE Replaces(o)
    BY <1>1, <1>3, <1>4, <2>2 DEF Replaces
  <2>3. CASE Restarts(o)
    <3>1. o.task \in Nat \ {0} /\ o.parent \in Nat /\ "resume" \in Places
      BY <2>3 DEF IInv, OpsOK, OpType, Restarts, Places
    <3>2. NewCline(o.task, o.parent, "resume") \in ClineType
      BY <3>1, NewClineType
    <3> QED BY <1>1, <1>5, <2>3, <3>2 DEF Restarts
  <2>4. CASE StartsTask(o)
    <3>1. NewCline(Len(clines) + 1, 0, "busy") \in ClineType
      BY <1>1, NewClineType DEF Places
    <3> QED BY <1>1, <1>5, <2>4, <3>1 DEF StartsTask
  <2>5. CASE ResumesTop(o)
    <3>1. stack # <<>>
      BY <1>3, <2>5 DEF ResumesTop
    <3> DEFINE at == IF clines[Top].at = "resume" THEN "over" ELSE clines[Top].at
    <3>2. clines' = [clines EXCEPT ![Top].paused = FALSE, ![Top].at = at]
      BY <1>1, <2>5, <3>1 DEF ResumesTop, ClineType
    <3>3. i = Top => at # "busy"
      OBVIOUS
    <3> HIDE DEF at
    <3> QED BY <1>1, <1>2, <3>1, <3>2, <3>3 DEF ClineType
  <2> QED BY <1>7, <2>1, <2>2, <2>3, <2>4, <2>5 DEF Provider
<1>8. ASSUME NEW j \in Ids, Task(j)
      PROVE  mode' = clines[i].pausedMode
  <2>1. j \in 1..Len(clines) /\ clines[j] \in ClineType
    BY <1>1, ElementOfSeq DEF Ids
  <2>2. CASE Resumes(j)
    BY <1>1, <1>2, <2>1, <2>2 DEF Resumes, MovesOn, ClineType
  <2>3. CASE Spawns(j)
    BY <1>1, <1>2, <2>1, <2>3 DEF Spawns, ClineType
  <2>4. CASE SpawnsChild(j)
    <3> DEFINE cs == [clines EXCEPT ![j].at = "handover"]
    <3>1. NewCline(Len(clines) + 1, j, "busy") \in ClineType
      BY <1>1, <2>1, NewClineType DEF Places
    <3>2. cs \in Seq(ClineType) /\ Len(cs) = Len(clines)
      BY <1>1, MoveKeepsStack DEF Places, StackOK
    <3>3. cs[i].at # "busy"
      BY <1>1, <1>2, <2>1 DEF ClineType
    <3>4. Pushes(cs, NewCline(Len(clines) + 1, j, "busy"))
      BY <2>4 DEF SpawnsChild
    <3> HIDE DEF cs
    <3> QED BY <1>5, <3>1, <3>2, <3>3, <3>4
  <2>5. CASE Pauses(j)
    BY <1>1, <1>2, <2>1, <2>5 DEF Pauses, ClineType
  <2>6. CASE ChecksPause(j)
    <3>1. clines[j].at = "pausing"
      BY <2>6 DEF ChecksPause
    <3>2. HandsOver(clines[j])
      BY <1>1, <2>1, <3>1, GiverIsSecond
    <3>3. clines[j].paused
      BY <3>1, <3>2 DEF HandsOver
    <3>4. clines' = [clines EXCEPT ![j].at = "waiting"]
      BY <2>6, <3>3 DEF ChecksPause, MovesOn
    <3> QED BY <1>1, <1>2, <2>1, <3>4 DEF ClineType
  <2>7. CASE Wakes(j)
    <3>1. j = i
      BY <1>1, <1>2, <2>1, <2>7 DEF Wakes, MovesOn, ClineType
    <3> QED BY <2>7, <3>1 DEF Wakes
  <2>8. CASE Completes(j)
    BY <1>1, <1>2, <2>1, <2>8 DEF Completes, MovesOn, ClineType
  <2>9. CASE Finishes(j)
    <3> DEFINE cs == [clines EXCEPT ![j].at = "over"]
    <3>1. cs \in Seq(ClineType) /\ Len(cs) = Len(clines)
      BY <1>1, MoveKeepsStack DEF Places, StackOK
    <3>2. cs[i].at # "busy"
      BY <1>1, <1>2, <2>1 DEF ClineType
    <3>3. clines' = cs \/ Pops(cs)
      BY <2>9 DEF Finishes, MovesOn
    <3> HIDE DEF cs
    <3> QED BY <1>4, <3>1, <3>2, <3>3
  <2>10. CASE StreamFails(j)
    BY <1>1, <1>2, <2>1, <2>10 DEF StreamFails, ClineType
  <2> QED BY <1>8, <2>2, <2>3, <2>4, <2>5, <2>6, <2>7, <2>8, <2>9, <2>10 DEF Task
<1> QED BY <1>6, <1>7, <1>8 DEF Next

-----------------------------------------------------------------------------
(* The theorems.                                                           *)

\* The invariant holds initially, and every step of every operation, task and
\* user keeps it.
THEOREM StackInvariant == Spec => []IInv
<1>1. Init => IInv
  <2> SUFFICES ASSUME Init PROVE IInv
    OBVIOUS
  <2>1. StackOK(clines, stack)
    BY EmptySeq DEF Init, StackOK, Reachable
  <2> QED BY <2>1, StackAssumption DEF Init, IInv, OpsOK
<1>2. IInv /\ [Next]_vars => IInv'
  <2> SUFFICES ASSUME IInv, [Next]_vars PROVE IInv'
    OBVIOUS
  <2>1. CASE Next
    <3>1. Fits
      BY <2>1, UserFits, ProviderFits, TaskFits DEF Next
    <3>2. OpsOK'
      BY <2>1, UserOps, ProviderOps, TaskOps DEF Next
    <3>3. StackOK(clines, stack)'
      BY <3>1 DEF Fits, StackOK, Reachable
    <3> QED BY <2>1, <3>1, <3>2, <3>3, RestKept DEF IInv
  <2>2. CASE UNCHANGED vars
    BY <2>2 DEF IInv, vars, OpsOK, Ids, StackOK, Reachable
  <2> QED BY <2>1, <2>2
<1> QED BY <1>1, <1>2, PTL DEF Spec

\* Type correctness: the stack holds instances that exist, whatever operations
\* of ClineProvider overlap.
THEOREM TypeCorrect == Spec => []TypeOK
<1>1. IInv => TypeOK
  BY DEF IInv, TypeOK, StackOK, OpsOK, Ids
<1> QED BY <1>1, StackInvariant, PTL

\* A task that has not been aborted is on clineStack, where the user can reach
\* it: no order of addClineToStack and removeClineFromStack loses one.
THEOREM LiveAreReachable == Spec => []LiveInStack
<1>1. IInv => LiveInStack
  BY DEF IInv, LiveInStack, StackOK, Reachable, Ids
<1> QED BY <1>1, StackInvariant, PTL

\* As long as the user keeps to the protocol the stack is tidy: every subtask
\* above the task that spawned it, every task below the top waiting, and at
\* most one operation of ClineProvider under way.
THEOREM OrderlyInvariant == Spec => [](IInv /\ OInv)
<1>1. Init => OInv
  <2> SUFFICES ASSUME Init PROVE Tidy(clines, stack, ops)
    BY DEF OInv
  <2>1. clines = <<>> /\ stack = <<>> /\ ops = {} /\ Len(<<>>) = 0
    BY EmptySeq DEF Init
  <2> QED BY <2>1 DEF Tidy, Known, Linked, Placed
<1>2. IInv /\ OInv /\ [Next]_vars => OInv'
  <2> SUFFICES ASSUME IInv, OInv, [Next]_vars, orderly'
               PROVE  Tidy(clines, stack, ops)'
    BY DEF OInv
  <2>1. CASE Next
    <3>1. Tidy(clines', stack', ops')
      BY <2>1, UserTidy, ProviderTidy, TaskTidy DEF Next
    <3> QED BY <3>1 DEF Tidy, Known, Linked, Placed, OpTidy, SpawnerOf, Away, Waits,
                        HandsOver, TopPlace
  <2>2. CASE UNCHANGED vars
    BY <2>2 DEF vars, OInv, Tidy, Known, Linked, Placed, OpTidy, SpawnerOf, Away, Waits,
                HandsOver, TopPlace
  <2> QED BY <2>1, <2>2
<1> QED BY <1>1, <1>2, StackInvariant, PTL DEF Spec

\* Only one task makes requests at a time: initClineWithTask and
\* finishSubTask hand the right to run from one task to the next.
THEOREM OneRuns == Spec => []OneRunner
<1>1. IInv /\ OInv => OneRunner
  <2> SUFFICES ASSUME IInv, OInv, orderly, NEW i \in Ids, NEW j \in Ids,
                      clines[i].at = "busy", clines[j].at = "busy"
               PROVE  i = j
    BY DEF OneRunner
  <2>1. StackOK(clines, stack) /\ Linked(clines, stack) /\ Placed(clines, stack, ops)
    BY OrderlyNow
  <2> QED BY <2>1, RunnerIsTop DEF Ids
<1> QED BY <1>1, OrderlyInvariant, PTL

\* finishSubTask resumes the task that spawned the finished one, cancelled and
\* made anew from their history items as they may be.
THEOREM ResultsReachParents == Spec => []ResultReachesParent
<1>1. IInv /\ OInv => ResultReachesParent
  <2> SUFFICES ASSUME IInv, OInv, orderly, NEW o \in ops, o.step = "resume", stack # <<>>
               PROVE  clines[Top].task = Spawner(o.task)
    BY DEF ResultReachesParent
  <2>1. OpTidy(clines, stack, o) /\ Top = stack[Len(stack)]
    BY OrderlyNow
  <2> QED BY <2>1 DEF OpTidy, SpawnerOf, Spawner
<1> QED BY <1>1, OrderlyInvariant, PTL

\* A task in waitForResume is the top only while finishSubTask or
\* initClineWithHistoryItem is under way.
THEOREM WaitsAreAnswered == Spec => []WaitIsAnswered
<1>1. IInv /\ OInv => WaitIsAnswered
  <2> SUFFICES ASSUME IInv, OInv, orderly, stack # <<>>,
                      clines[Top].at = "waiting", clines[Top].paused
               PROVE  \E o \in ops : o.step \in {"resume", "restart"}
    BY DEF WaitIsAnswered
  <2>1. /\ StackOK(clines, stack) /\ Placed(clines, stack, ops)
        /\ Top = stack[Len(stack)]
    BY OrderlyNow
  <2>2. Len(stack) \in 1..Len(stack) /\ Len(stack) # Len(stack) - 1
    BY <2>1, Basics
  <2> QED BY <2>1, <2>2 DEF Placed, TopPlace, Away
<1> QED BY <1>1, OrderlyInvariant, PTL

\* waitForResume gives a task the mode back that it had before its subtask.
THEOREM ModeIsRestored == Spec => ModeRestored
<1> DEFINE Restores ==
      \A i \in Ids :
        (orderly /\ clines[i].at \in {"pausing", "waiting"} /\ clines'[i].at = "busy")
          => mode' = clines[i].pausedMode
<1>1. IInv /\ OInv /\ [Next]_vars => [Restores]_vars
  BY OnlyWakesGoesOn
<1> QED BY <1>1, OrderlyInvariant, PTL DEF Spec, ModeRestored

=============================================================================
