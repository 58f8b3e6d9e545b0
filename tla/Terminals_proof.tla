---------------------------- MODULE Terminals_proof ----------------------------
(***************************************************************************)
(* Proofs about Terminals, for any number of tasks, terminals and commands:*)
(* types, a busy terminal is busy for a command that will lower it, a      *)
(* command that a task waits for can hear of its end, the end it hears is  *)
(* its own, and its unread output stays where a report finds it.           *)
(***************************************************************************)
EXTENDS Terminals, SequenceTheorems, TLAPS

(* What a terminal is while there are n processes, and a process while     *)
(* there are m terminals and n processes.                                  *)
Executions(n) == 1..n \cup {ByHand}

TerminalType(n) ==
  [closed : BOOLEAN, busy : BOOLEAN, running : BOOLEAN,
   process : 1..n \cup {None}, owner : Tasks \cup {NoTask},
   kept : SUBSET (1..n), current : Executions(n) \cup {None},
   queue : Seq(Executions(n))]

ProcessType(m, n) ==
  [term : 1..m, task : Tasks, phase : Phases, told : BOOLEAN,
   unread : BOOLEAN, exit : Executions(n) \cup {None}, late : BOOLEAN]

CallerType(m, n) ==
  [at : {"idle", "gone"}, on : {None}]
  \cup [at : {"picked", "abortedPicked"}, on : 1..m]
  \cup [at : {"waiting"}, on : 1..n]

Types ==
  /\ terminals \in Seq(TerminalType(Len(processes)))
  /\ processes \in Seq(ProcessType(Len(terminals), Len(processes)))
  /\ callers \in [Tasks -> CallerType(Len(terminals), Len(processes))]

(* The task of a command that has not let it go on waits for it, unless it *)
(* has been aborted.                                                       *)
Waiters ==
  \A p \in Processes : ~processes[p].told =>
    LET c == callers[processes[p].task] IN
    c.at = "gone" \/ (c.at = "waiting" /\ c.on = p)

(* The slot of a terminal holds a command of this terminal.                *)
SlotsAreOwn ==
  \A x \in Terminals : LET s == terminals[x].process IN
    s \in Processes => processes[s].term = x

TInv == Types /\ BusyHasAReason /\ Waiters /\ SlotsAreOwn /\ EndWillBeHeard

-----------------------------------------------------------------------------
(* Types.                                                                  *)

\* What the types say, in the form the steps need.
LEMMA TypesGive ==
  ASSUME Types
  PROVE  /\ Len(terminals) \in Nat /\ Len(processes) \in Nat
         /\ \A x \in Terminals : terminals[x] \in TerminalType(Len(processes))
         /\ \A p \in Processes :
              /\ processes[p] \in ProcessType(Len(terminals), Len(processes))
              /\ processes[p].term \in Terminals /\ processes[p].task \in Tasks
         /\ DOMAIN terminals = Terminals /\ DOMAIN processes = Processes
<1>1. /\ Len(terminals) \in Nat /\ Len(processes) \in Nat
      /\ DOMAIN terminals = Terminals /\ DOMAIN processes = Processes
  BY LenProperties DEF Types, Terminals, Processes
<1>2. ASSUME NEW x \in Terminals
      PROVE  terminals[x] \in TerminalType(Len(processes))
  BY <1>2, ElementOfSeq DEF Types, Terminals
<1>3. ASSUME NEW p \in Processes
      PROVE  processes[p] \in ProcessType(Len(terminals), Len(processes))
  BY <1>3, ElementOfSeq DEF Types, Processes
<1>4. ASSUME NEW p \in Processes
      PROVE  processes[p].term \in Terminals /\ processes[p].task \in Tasks
  BY <1>3, <1>4 DEF ProcessType, Terminals
<1> QED BY <1>1, <1>2, <1>3, <1>4

\* A function on 1..n is a sequence.
LEMMA IsSequence ==
  ASSUME NEW S, NEW n \in Nat, NEW f \in [1..n -> S]
  PROVE  f \in Seq(S) /\ Len(f) = n
<1>1. f \in Seq(S)
  BY SeqDef
<1>2. DOMAIN f = 1..n
  OBVIOUS
<1> QED BY <1>1, <1>2, LenProperties

\* A step that makes no terminal and no process keeps the types if it keeps
\* those of each terminal, process and task.
LEMMA TypesKept ==
  ASSUME Types,
         terminals' \in [Terminals -> TerminalType(Len(processes))],
         processes' \in [Processes -> ProcessType(Len(terminals), Len(processes))],
         callers' \in [Tasks -> CallerType(Len(terminals), Len(processes))]
  PROVE  /\ Types' /\ Len(terminals') = Len(terminals)
         /\ Len(processes') = Len(processes)
         /\ Terminals' = Terminals /\ Processes' = Processes
<1>1. Len(terminals) \in Nat /\ Len(processes) \in Nat
  BY TypesGive
<1>2. /\ terminals' \in Seq(TerminalType(Len(processes)))
      /\ Len(terminals') = Len(terminals)
  BY <1>1, IsSequence DEF Terminals
<1>3. /\ processes' \in Seq(ProcessType(Len(terminals), Len(processes)))
      /\ Len(processes') = Len(processes)
  BY <1>1, IsSequence DEF Processes
<1> QED BY <1>2, <1>3 DEF Types, Terminals, Processes

\* What is a terminal, a process or a caller stays one when there are more.
LEMMA TypesGrow ==
  ASSUME NEW m \in Nat, NEW n \in Nat
  PROVE  /\ TerminalType(n) \subseteq TerminalType(n + 1)
         /\ ProcessType(m, n) \subseteq ProcessType(m + 1, n)
         /\ ProcessType(m, n) \subseteq ProcessType(m, n + 1)
         /\ CallerType(m, n) \subseteq CallerType(m + 1, n)
         /\ CallerType(m, n) \subseteq CallerType(m, n + 1)
<1>1. Executions(n) \subseteq Executions(n + 1)
  BY DEF Executions
<1>2. Seq(Executions(n)) \subseteq Seq(Executions(n + 1))
  BY <1>1, SeqDef
<1>3. TerminalType(n) \subseteq TerminalType(n + 1)
  BY <1>1, <1>2 DEF TerminalType
<1>4. ProcessType(m, n) \subseteq ProcessType(m, n + 1)
  BY <1>1 DEF ProcessType
<1>5. ProcessType(m, n) \subseteq ProcessType(m + 1, n)
  BY DEF ProcessType
<1>6. CallerType(m, n) \subseteq CallerType(m + 1, n)
  BY DEF CallerType
<1>7. CallerType(m, n) \subseteq CallerType(m, n + 1)
  BY DEF CallerType
<1> QED BY <1>3, <1>4, <1>5, <1>6, <1>7

LEMMA TypesImplyTypeOK == Types => TypeOK
<1> SUFFICES ASSUME Types PROVE TypeOK
  OBVIOUS
<1>1. ASSUME NEW x \in Terminals
      PROVE  /\ terminals[x].process \in Processes \cup {None}
             /\ terminals[x].kept \subseteq Processes
  BY <1>1, TypesGive DEF TerminalType, Processes
<1>2. ASSUME NEW p \in Processes
      PROVE  /\ processes[p].term \in Terminals
             /\ processes[p].phase \in Phases
             /\ processes[p].exit \in Processes \cup {ByHand, None}
  <2>1. processes[p] \in ProcessType(Len(terminals), Len(processes))
    BY <1>2, TypesGive
  <2> QED BY <2>1 DEF ProcessType, Processes, Terminals, Executions
<1>3. ASSUME NEW t \in Tasks
      PROVE  /\ callers[t].at \in Places
             /\ callers[t].at \in {"picked", "abortedPicked"} => callers[t].on \in Terminals
             /\ callers[t].at = "waiting" => callers[t].on \in Processes
  <2>1. callers[t] \in CallerType(Len(terminals), Len(processes))
    BY <1>3 DEF Types
  <2> QED BY <2>1 DEF CallerType, Places, Terminals, Processes
<1> QED BY <1>1, <1>2, <1>3 DEF TypeOK

-----------------------------------------------------------------------------
(* Steps that make no process.                                             *)

\* What such steps may do to a terminal and a process, so that busy terminals
\* keep their reason and commands can hear of their end.
Gentle ==
  /\ \A x \in Terminals :
       /\ terminals'[x].busy => terminals[x].busy
       /\ terminals[x].closed => terminals'[x].closed
       /\ LET s == terminals[x].process IN
          \/ terminals'[x].process = s
          \/ terminals'[x].process = None /\ (s = None \/ processes'[s].exit # None)
  /\ \A p \in Processes :
       LET x == processes[p].term IN
       /\ processes'[p].term = x /\ processes'[p].task = processes[p].task
       /\ processes[p].told => processes'[p].told
       /\ processes[p].exit # None => processes'[p].exit # None
       /\ \/ processes'[p].phase = processes[p].phase
          \/ processes'[p].phase \in {"done", "gaveUp"} /\ ~terminals'[x].busy
          \/ processes'[p].phase = "stream" /\ ~Completed(p)
          \/ processes'[p].phase = "reading" /\ terminals[x].process = p
          \/ processes'[p].phase = "ending" /\ processes[p].phase = "reading"

Mild ==
  /\ Len(terminals') >= Len(terminals) /\ Len(terminals') \in Nat
  /\ Processes' = Processes
  /\ \A x \in Terminals' \ Terminals :
       ~terminals'[x].busy /\ terminals'[x].process = None
  /\ Gentle

LEMMA MildKeeps ==
  ASSUME TInv, Mild
  PROVE  BusyHasAReason' /\ EndWillBeHeard' /\ SlotsAreOwn'
<1>1. /\ Types
      /\ \A p \in Processes : processes[p].term \in Terminals
      /\ Processes' = Processes /\ Terminals \subseteq Terminals'
      /\ Len(processes) \in Nat /\ Processes = 1..Len(processes)
  BY TypesGive DEF TInv, Mild, Terminals, Processes
<1>2. ASSUME NEW x \in Terminals', terminals'[x].busy
      PROVE  \E p \in Processes : /\ processes'[p].term = x
                                  /\ processes'[p].phase \notin {"done", "gaveUp"}
                                  /\ \A q \in Processes :
                                       processes'[q].term = x => q <= p
  <2>1. x \in Terminals /\ terminals[x].busy
    BY <1>2 DEF Mild, Gentle
  <2>2. PICK p \in Processes : /\ processes[p].term = x /\ ~Completed(p)
                               /\ \A q \in Processes : processes[q].term = x => q <= p
    BY <2>1 DEF TInv, BusyHasAReason
  <2>3. processes'[p].phase \notin {"done", "gaveUp"}
    BY <1>2, <2>2 DEF Completed, Mild, Gentle
  <2> QED BY <2>2, <2>3 DEF Mild, Gentle
<1>3. BusyHasAReason'
  BY <1>1, <1>2 DEF BusyHasAReason, Completed
<1>4. ASSUME NEW p \in Processes,
             processes'[p].phase \in {"reading", "ending"}, ~processes'[p].told,
             ~terminals'[processes[p].term].closed,
             ~Shared(processes[p].term)
      PROVE  terminals'[processes[p].term].process = p \/ processes'[p].exit # None
  <2> DEFINE x == processes[p].term
  <2>1. x \in Terminals /\ ~terminals[x].closed /\ ~processes[p].told /\ p # None
    BY <1>1, <1>4 DEF Mild, Gentle, None
  <2>2. terminals[x].process = p \/ processes[p].exit # None
    BY <1>4, <2>1 DEF TInv, EndWillBeHeard, Mild, Gentle
  <2> QED BY <2>1, <2>2 DEF Mild, Gentle
<1>5. ASSUME NEW x PROVE Shared(x)' <=> Shared(x)
  BY <1>1 DEF Shared, Mild, Gentle
<1>6. EndWillBeHeard'
  BY <1>1, <1>4, <1>5 DEF EndWillBeHeard, Mild, Gentle
<1>7. SlotsAreOwn'
  <2>1. ASSUME NEW x \in Terminals', terminals'[x].process \in Processes
        PROVE  processes'[terminals'[x].process].term = x
    <3>1. terminals'[x].process # None
      BY <1>1, <2>1 DEF None
    <3>2. x \in Terminals /\ terminals'[x].process = terminals[x].process
      BY <2>1, <3>1 DEF Mild, Gentle
    <3> QED BY <2>1, <3>2 DEF TInv, SlotsAreOwn, Mild, Gentle
  <2> QED BY <1>1, <2>1 DEF SlotsAreOwn
<1> QED BY <1>3, <1>6, <1>7

\* Nor do they make a task wait less, if they leave the callers alone.
LEMMA WaitersKept ==
  ASSUME TInv, Mild, callers' = callers
  PROVE  Waiters'
BY DEF TInv, Mild, Gentle, Waiters

\* A step that leaves the callers alone and makes nothing.
LEMMA StepKeeps ==
  ASSUME TInv, Gentle, callers' = callers,
         terminals' \in [Terminals -> TerminalType(Len(processes))],
         processes' \in [Processes -> ProcessType(Len(terminals), Len(processes))]
  PROVE  TInv'
<1>1. /\ Types' /\ Len(terminals') = Len(terminals)
      /\ Terminals' = Terminals /\ Processes' = Processes
  BY TypesKept DEF TInv, Types
<1>2. Mild
  BY <1>1, TypesGive DEF TInv, Mild
<1> QED BY <1>1, <1>2, MildKeeps, WaitersKept DEF TInv

\* One terminal is changed, or one process.
LEMMA TerminalSet ==
  ASSUME Types, NEW x \in Terminals, NEW r \in TerminalType(Len(processes)),
         terminals' = [terminals EXCEPT ![x] = r]
  PROVE  /\ terminals' \in [Terminals -> TerminalType(Len(processes))]
         /\ \A y \in Terminals : terminals'[y] = IF y = x THEN r ELSE terminals[y]
BY LenProperties, TypesGive DEF Types, Terminals

LEMMA ProcessSet ==
  ASSUME Types, NEW p \in Processes,
         NEW r \in ProcessType(Len(terminals), Len(processes)),
         processes' = [processes EXCEPT ![p] = r]
  PROVE  /\ processes' \in [Processes -> ProcessType(Len(terminals), Len(processes))]
         /\ \A q \in Processes : processes'[q] = IF q = p THEN r ELSE processes[q]
BY LenProperties, TypesGive DEF Types, Processes

LEMMA NothingSet ==
  ASSUME Types
  PROVE  /\ terminals \in [Terminals -> TerminalType(Len(processes))]
         /\ processes \in [Processes -> ProcessType(Len(terminals), Len(processes))]
BY LenProperties DEF Types, Terminals, Processes

-----------------------------------------------------------------------------
(* Steps of tasks.                                                         *)

\* A task that does not wait has no command that holds it.
LEMMA NoneHolds ==
  ASSUME TInv, NEW t \in Tasks, CanRun(t) \/ callers[t].at \in {"picked", "abortedPicked"}
  PROVE  \A p \in Processes : processes[p].task = t => processes[p].told
BY DEF TInv, Waiters, CanRun

LEMMA CandidatesAre ==
  ASSUME NEW t, NEW here \in SUBSET Terminals, NEW required \in BOOLEAN
  PROVE  Candidates(t, here, required) \subseteq Terminals
BY DEF Candidates

LEMMA PickKeeps == ASSUME TInv, NEW t \in Tasks, PickTerminal(t) PROVE TInv'
<1> DEFINE n == Len(processes)
           m == Len(terminals)
<1>1. /\ Types /\ m \in Nat /\ n \in Nat /\ processes' = processes
      /\ Processes' = Processes /\ CanRun(t)
      /\ \A x \in Terminals : terminals[x] \in TerminalType(n)
      /\ terminals \in Seq(TerminalType(n)) /\ Terminals = 1..m
      /\ callers \in [Tasks -> CallerType(m, n)]
      /\ processes \in Seq(ProcessType(m, n))
  BY TypesGive DEF TInv, PickTerminal, Processes, Types, Terminals
<1>2. CASE /\ terminals' = Append(terminals, NewTerminal(t))
           /\ callers' = [callers EXCEPT ![t] = [at |-> "picked", on |-> m + 1]]
  <2>1. /\ NewTerminal(t) \in TerminalType(n) /\ ~NewTerminal(t).busy
        /\ NewTerminal(t).process = None
    <3>1. <<>> \in Seq(Executions(n))
      BY EmptySeq
    <3> QED BY <3>1 DEF NewTerminal, TerminalType
  <2>2. /\ terminals' \in Seq(TerminalType(n)) /\ Len(terminals') = m + 1
        /\ \A x \in Terminals : terminals'[x] = terminals[x]
        /\ terminals'[m + 1] = NewTerminal(t)
    BY <1>1, <1>2, <2>1, AppendProperties
  <2>3. Types'
    <3>1. processes' \in Seq(ProcessType(m + 1, n))
      BY <1>1, TypesGrow, SeqDef
    <3>2. [at |-> "picked", on |-> m + 1] \in CallerType(m + 1, n)
      BY <1>1 DEF CallerType
    <3>3. callers' \in [Tasks -> CallerType(m + 1, n)]
      BY <1>1, <1>2, <3>2, TypesGrow
    <3> QED BY <1>1, <2>2, <3>1, <3>3 DEF Types
  <2>4. Terminals' = 1..(m + 1)
    BY <2>2 DEF Terminals
  <2>5. \A x \in Terminals' \ Terminals :
          ~terminals'[x].busy /\ terminals'[x].process = None
    BY <1>1, <2>1, <2>2, <2>4
  <2>6. Mild
    BY <1>1, <2>2, <2>5 DEF Mild, Gentle
  <2>7. Waiters'
    BY <1>1, <1>2, NoneHolds DEF TInv, Waiters
  <2> QED BY <2>3, <2>6, <2>7, MildKeeps DEF TInv
<1>3. ASSUME NEW x \in Terminals,
             terminals' = [terminals EXCEPT ![x].owner = t],
             callers' = [callers EXCEPT ![t] = [at |-> "picked", on |-> x]]
      PROVE  TInv'
  <2> DEFINE r == [terminals[x] EXCEPT !.owner = t]
  <2>1. /\ r \in TerminalType(n) /\ r.busy = terminals[x].busy
        /\ r.closed = terminals[x].closed /\ r.process = terminals[x].process
    BY <1>1 DEF TerminalType
  <2>2. terminals' = [terminals EXCEPT ![x] = r] /\ DOMAIN terminals = Terminals
    BY <1>1, <1>3, TypesGive
  <2> HIDE DEF r
  <2>3. /\ terminals' \in [Terminals -> TerminalType(n)]
        /\ \A y \in Terminals : terminals'[y] = IF y = x THEN r ELSE terminals[y]
    BY <1>1, <2>1, <2>2, LenProperties
  <2>4. [at |-> "picked", on |-> x] \in CallerType(m, n)
    BY <1>1 DEF CallerType
  <2>5. callers' \in [Tasks -> CallerType(m, n)]
    BY <1>1, <1>3, <2>4
  <2>6. processes' \in [Processes -> ProcessType(m, n)]
    BY <1>1, LenProperties DEF Processes
  <2>7. /\ Types' /\ Len(terminals') = m /\ Len(processes') = n
        /\ Terminals' = Terminals
    BY <1>1, <2>3, <2>5, <2>6, TypesKept
  <2>8. Mild
    BY <1>1, <2>1, <2>3, <2>7 DEF Mild, Gentle
  <2>9. Waiters'
    BY <1>1, <1>3, NoneHolds DEF TInv, Waiters
  <2> QED BY <2>7, <2>8, <2>9, MildKeeps DEF TInv
<1> QED
  <2>1. PICK here \in SUBSET Terminals, required \in BOOLEAN :
          LET found == Candidates(t, here, required) IN
          \/ /\ terminals' = Append(terminals, NewTerminal(t))
             /\ callers' = [callers EXCEPT ![t] = [at |-> "picked", on |-> m + 1]]
          \/ \E x \in found :
               /\ terminals' = [terminals EXCEPT ![x].owner = t]
               /\ callers' = [callers EXCEPT ![t] = [at |-> "picked", on |-> x]]
    BY DEF PickTerminal
  <2>2. Candidates(t, here, required) \subseteq Terminals
    BY CandidatesAre
  <2> QED BY <2>1, <2>2, <1>2, <1>3

LEMMA RunKeeps == ASSUME TInv, NEW t \in Tasks, RunCommand(t) PROVE TInv'
<1> DEFINE n == Len(processes)
           m == Len(terminals)
           x == callers[t].on
           p == n + 1
           new == NewProcess(t, x)
           r == [terminals[x] EXCEPT !.busy = TRUE, !.process = p]
           c == IF callers[t].at = "picked" THEN [at |-> "waiting", on |-> p] ELSE Gone
<1>1. /\ Types /\ m \in Nat /\ n \in Nat
      /\ Terminals = 1..m /\ Processes = 1..n
      /\ \A y \in Terminals : terminals[y] \in TerminalType(n)
      /\ \A q \in Processes : processes[q].term \in Terminals
      /\ terminals \in Seq(TerminalType(n)) /\ processes \in Seq(ProcessType(m, n))
      /\ callers \in [Tasks -> CallerType(m, n)]
      /\ DOMAIN terminals = Terminals
  BY TypesGive DEF TInv, Types, Terminals, Processes
<1>2. /\ processes' = Append(processes, new) /\ callers' = [callers EXCEPT ![t] = c]
      /\ callers[t].at \in {"picked", "abortedPicked"}
  BY DEF RunCommand
<1>3. x \in Terminals
  <2>1. callers[t] \in CallerType(m, n)
    BY <1>1
  <2> QED BY <1>1, <1>2, <2>1 DEF CallerType
<1>4. terminals' = [terminals EXCEPT ![x] = r]
  BY <1>1, <1>3 DEF RunCommand
<1>5. p \in 1..p /\ p \in Nat
  BY <1>1
<1>6. r \in TerminalType(p) /\ r.closed = terminals[x].closed /\ r.process = p
  <2>1. terminals[x] \in TerminalType(p)
    BY <1>1, <1>3, TypesGrow
  <2> QED BY <1>5, <2>1 DEF TerminalType
<1>7. /\ new \in ProcessType(m, p) /\ new.term = x /\ new.task = t
      /\ new.phase = "shell"
  BY <1>1, <1>3, <1>5 DEF NewProcess, ProcessType, Phases
<1>8. c \in CallerType(m, p)
  BY <1>2, <1>5 DEF CallerType, Gone
<1>9. c.at = "gone" \/ (c.at = "waiting" /\ c.on = p)
  BY DEF Gone
<1> HIDE DEF x, new, r, c
<1>10. /\ processes' \in Seq(ProcessType(m, p)) /\ Len(processes') = p
       /\ \A q \in Processes : processes'[q] = processes[q]
       /\ processes'[p] = new
  <2>1. processes \in Seq(ProcessType(m, p))
    BY <1>1, TypesGrow, SeqDef
  <2> QED BY <1>1, <1>2, <1>7, <2>1, AppendProperties
<1>11. /\ terminals' \in Seq(TerminalType(p)) /\ Len(terminals') = m
       /\ \A y \in Terminals : terminals'[y] = IF y = x THEN r ELSE terminals[y]
  <2>1. terminals \in Seq(TerminalType(p))
    BY <1>1, TypesGrow, SeqDef
  <2> QED BY <1>1, <1>3, <1>4, <1>6, <2>1, ExceptSeq
<1>12. callers' \in [Tasks -> CallerType(m, p)]
  BY <1>1, <1>2, <1>8, TypesGrow
<1>13. Types'
  BY <1>10, <1>11, <1>12 DEF Types
<1>14. Terminals' = Terminals /\ Processes' = Processes \cup {p} /\ p \notin Processes
  BY <1>1, <1>10, <1>11 DEF Terminals, Processes
<1>15. BusyHasAReason'
  <2>1. ASSUME NEW y \in Terminals, terminals'[y].busy
        PROVE  \E q \in Processes' : /\ processes'[q].term = y
                                     /\ processes'[q].phase \notin {"done", "gaveUp"}
                                     /\ \A o \in Processes' :
                                          processes'[o].term = y => o <= q
    <3>1. CASE y = x
      <4>1. \A o \in Processes' : o <= p
        BY <1>1, <1>14
      <4> QED BY <1>7, <1>10, <1>14, <3>1, <4>1
    <3>2. CASE y # x
      <4>1. PICK q \in Processes : /\ processes[q].term = y /\ ~Completed(q)
                                   /\ \A o \in Processes :
                                        processes[o].term = y => o <= q
        BY <1>11, <2>1, <3>2 DEF TInv, BusyHasAReason
      <4> QED BY <1>7, <1>10, <1>14, <3>2, <4>1 DEF Completed
    <3> QED BY <3>1, <3>2
  <2> QED BY <1>14, <2>1 DEF BusyHasAReason, Completed
<1>16. \A q \in Processes : processes[q].task = t => processes[q].told
  BY <1>2, NoneHolds
<1>17. Waiters'
  <2>1. ASSUME NEW q \in Processes', ~processes'[q].told
        PROVE  \/ callers'[processes'[q].task].at = "gone"
               \/ /\ callers'[processes'[q].task].at = "waiting"
                  /\ callers'[processes'[q].task].on = q
    <3>1. CASE q = p
      BY <1>1, <1>2, <1>7, <1>9, <1>10, <3>1
    <3>2. CASE q \in Processes
      BY <1>1, <1>2, <1>10, <1>16, <2>1, <3>2 DEF TInv, Waiters
    <3> QED BY <1>14, <3>1, <3>2
  <2> QED BY <2>1 DEF Waiters
<1>18. EndWillBeHeard'
  <2>1. ASSUME NEW q \in Processes',
               processes'[q].phase \in {"reading", "ending"}, ~processes'[q].told,
               ~terminals'[processes'[q].term].closed, ~Shared(processes[q].term)'
        PROVE  \/ terminals'[processes'[q].term].process = q
               \/ processes'[q].exit # None
    <3>1. q \in Processes /\ processes'[q] = processes[q]
      BY <1>7, <1>10, <1>14, <2>1
    <3>2. processes[q].task # t
      BY <1>16, <2>1, <3>1
    <3>3. processes[q].term # x
      <4>1. /\ p \in Processes' /\ processes'[p].term = x /\ processes'[p].task = t
            /\ q \in Processes' /\ processes'[q].task # t
        BY <1>7, <1>10, <1>14, <3>1, <3>2
      <4> QED BY <2>1, <3>1, <4>1 DEF Shared
    <3>4. ~Shared(processes[q].term)
      BY <1>10, <1>14, <2>1, <3>1 DEF Shared
    <3>5. terminals'[processes[q].term] = terminals[processes[q].term]
      BY <1>1, <1>11, <3>1, <3>3
    <3> QED BY <2>1, <3>1, <3>4, <3>5 DEF TInv, EndWillBeHeard
  <2> QED BY <2>1 DEF EndWillBeHeard
<1>19. SlotsAreOwn'
  <2>1. ASSUME NEW y \in Terminals, terminals'[y].process \in Processes \cup {p}
        PROVE  processes'[terminals'[y].process].term = y
    <3>1. CASE y = x
      BY <1>6, <1>7, <1>10, <1>11, <3>1
    <3>2. CASE y # x
      <4>1. terminals'[y] = terminals[y]
        BY <1>11, <3>2
      <4>2. terminals[y].process \in Processes
        BY <1>1, <2>1, <4>1 DEF TerminalType, None
      <4> QED BY <1>10, <4>1, <4>2 DEF TInv, SlotsAreOwn
    <3> QED BY <3>1, <3>2
  <2> QED BY <1>14, <2>1 DEF SlotsAreOwn
<1> QED BY <1>13, <1>15, <1>17, <1>18, <1>19 DEF TInv

LEMMA AbortKeeps == ASSUME TInv, NEW t \in Tasks, Abort(t) PROVE TInv'
<1> DEFINE n == Len(processes)
           m == Len(terminals)
           c == IF callers[t].at = "picked"
                THEN [callers[t] EXCEPT !.at = "abortedPicked"] ELSE Gone
<1>1. /\ Types /\ callers \in [Tasks -> CallerType(m, n)]
      /\ \A x \in Terminals : terminals[x] \in TerminalType(n)
      /\ processes' = processes
      /\ callers' = [callers EXCEPT ![t] = c]
      /\ callers[t].at \in {"idle", "picked", "waiting"}
  BY TypesGive DEF TInv, Types, Abort
<1>2. c \in CallerType(m, n)
  <2>1. callers[t] \in CallerType(m, n)
    BY <1>1
  <2> QED BY <2>1 DEF CallerType, Gone
<1>3. c = Gone \/ (callers[t].at = "picked" /\ c.at = "abortedPicked")
  <2>1. callers[t] \in CallerType(m, n)
    BY <1>1
  <2> QED BY <2>1 DEF CallerType
<1> HIDE DEF c
<1>4. callers' \in [Tasks -> CallerType(m, n)]
  BY <1>1, <1>2
<1>5. ASSUME NEW x \in Terminals
      PROVE  /\ terminals'[x] \in TerminalType(n)
             /\ terminals'[x].busy = terminals[x].busy
             /\ terminals'[x].closed = terminals[x].closed
             /\ terminals'[x].process = terminals[x].process
  <2>1. terminals[x] \in TerminalType(n)
    BY <1>1
  <2>2. terminals'[x] = IF terminals[x].owner = t
                        THEN [terminals[x] EXCEPT !.owner = NoTask] ELSE terminals[x]
    BY DEF Abort
  <2> QED BY <2>1, <2>2 DEF TerminalType
<1>6. terminals' \in [Terminals -> TerminalType(n)]
  BY <1>5 DEF Abort
<1>7. /\ Types' /\ Len(terminals') = m /\ Terminals' = Terminals
      /\ Processes' = Processes
  BY <1>1, <1>4, <1>6, NothingSet, TypesKept
<1>8. Mild
  BY <1>1, <1>5, <1>7, TypesGive DEF Mild, Gentle
<1>9. Waiters'
  <2>1. ASSUME NEW p \in Processes, ~processes[p].told
        PROVE  LET d == callers'[processes[p].task] IN
               d.at = "gone" \/ (d.at = "waiting" /\ d.on = p)
    <3>1. CASE processes[p].task = t
      <4>1. callers[t].at = "waiting"
        BY <1>1, <2>1, <3>1, NoneHolds DEF CanRun
      <4>2. callers'[t] = Gone
        BY <1>1, <1>3, <4>1
      <4> QED BY <3>1, <4>2 DEF Gone
    <3>2. CASE processes[p].task # t
      BY <1>1, <2>1, <3>2 DEF TInv, Waiters
    <3> QED BY <3>1, <3>2
  <2> QED BY <1>1, <1>7, <2>1 DEF Waiters
<1> QED BY <1>7, <1>8, <1>9, MildKeeps DEF TInv

LEMMA ReportKeeps == ASSUME TInv, NEW t \in Tasks, ReportOutput(t) PROVE TInv'
<1> DEFINE n == Len(processes)
           m == Len(terminals)
<1>1. /\ Types /\ callers' = callers
      /\ \A x \in Terminals : terminals[x] \in TerminalType(n)
      /\ \A p \in Processes : processes[p] \in ProcessType(m, n)
  BY TypesGive DEF TInv, ReportOutput
<1> DEFINE mine == {x \in Terminals : /\ ~terminals[x].closed
                                      /\ terminals[x].owner \in {t, NoTask}}
           read == UNION {terminals[x].kept : x \in mine}
                   \cup {terminals[x].process :
                           x \in {y \in mine : terminals[y].busy}}
<1>2. /\ processes' = [p \in Processes |->
           IF p \in read THEN [processes[p] EXCEPT !.unread = FALSE]
           ELSE processes[p]]
      /\ terminals' = [x \in Terminals |->
           IF x \in mine THEN [terminals[x] EXCEPT !.kept = {}]
           ELSE terminals[x]]
  BY DEF ReportOutput
<1> HIDE DEF mine, read
<1>3. ASSUME NEW x \in Terminals
      PROVE  /\ terminals'[x] \in TerminalType(n)
             /\ terminals'[x].busy = terminals[x].busy
             /\ terminals'[x].closed = terminals[x].closed
             /\ terminals'[x].process = terminals[x].process
  <2>1. terminals[x] \in TerminalType(n)
    BY <1>1
  <2> QED BY <1>2, <2>1 DEF TerminalType
<1>4. ASSUME NEW p \in Processes
      PROVE  /\ processes'[p] \in ProcessType(m, n)
             /\ processes'[p].term = processes[p].term
             /\ processes'[p].task = processes[p].task
             /\ processes'[p].told = processes[p].told
             /\ processes'[p].exit = processes[p].exit
             /\ processes'[p].phase = processes[p].phase
  <2>1. processes[p] \in ProcessType(m, n)
    BY <1>1
  <2> QED BY <1>2, <2>1 DEF ProcessType
<1>5. /\ terminals' \in [Terminals -> TerminalType(n)]
      /\ processes' \in [Processes -> ProcessType(m, n)]
  BY <1>2, <1>3, <1>4
<1>6. Gentle
  BY <1>3, <1>4 DEF Gentle
<1> QED BY <1>1, <1>5, <1>6, StepKeeps

-----------------------------------------------------------------------------
(* Steps of processes and of VS Code.                                      *)

\* The process p gets r, a process of the same terminal and task.
LEMMA ProcessKeeps ==
  ASSUME TInv, NEW p \in Processes, NEW r,
         r \in ProcessType(Len(terminals), Len(processes)),
         processes' = [processes EXCEPT ![p] = r],
         r.term = processes[p].term, r.task = processes[p].task,
         processes[p].told => r.told, r.exit = processes[p].exit,
         \/ r.phase = processes[p].phase
         \/ r.phase \in {"done", "gaveUp"} /\ ~terminals'[r.term].busy
         \/ r.phase = "stream" /\ ~Completed(p)
         \/ r.phase = "ending" /\ processes[p].phase = "reading",
         terminals' \in [Terminals -> TerminalType(Len(processes))],
         \A x \in Terminals : /\ terminals'[x].busy => terminals[x].busy
                              /\ terminals'[x].closed = terminals[x].closed
                              /\ terminals'[x].process = terminals[x].process,
         callers' = callers
  PROVE  TInv'
<1>1. Types
  BY DEF TInv
<1>2. /\ processes' \in [Processes -> ProcessType(Len(terminals), Len(processes))]
      /\ \A q \in Processes : processes'[q] = IF q = p THEN r ELSE processes[q]
  BY <1>1, ProcessSet
<1>3. Gentle
  BY <1>2 DEF Gentle
<1> QED BY <1>2, <1>3, StepKeeps

\* A process is not changed in what the other steps look at.
LEMMA ProcessStepKeeps == ASSUME TInv, NEW p \in Processes, ProcessStep(p) PROVE TInv'
<1> DEFINE n == Len(processes)
           m == Len(terminals)
           x == processes[p].term
<1>1. /\ Types /\ processes[p] \in ProcessType(m, n) /\ x \in Terminals
      /\ terminals[x] \in TerminalType(n) /\ n \in Nat /\ Processes = 1..n
      /\ terminals \in [Terminals -> TerminalType(n)]
      /\ DOMAIN terminals = Terminals /\ DOMAIN processes = Processes
  BY TypesGive, NothingSet DEF TInv, Processes
<1>2. CASE Execute(p)
  <2> DEFINE r == [processes[p] EXCEPT !.phase = "stream"]
             d == [terminals[x] EXCEPT !.queue = Append(@, p)]
  <2>1. /\ r \in ProcessType(m, n) /\ r.term = x /\ r.task = processes[p].task
        /\ r.told = processes[p].told /\ r.exit = processes[p].exit
        /\ r.phase = "stream"
    BY <1>1 DEF ProcessType, Phases
  <2>2. /\ processes' = [processes EXCEPT ![p] = r] /\ callers' = callers
        /\ terminals' = [terminals EXCEPT ![x] = d]
        /\ processes[p].phase = "shell"
    BY <1>1, <1>2 DEF Execute
  <2>3. terminals[x].queue \in Seq(Executions(n)) /\ p \in Executions(n)
    BY <1>1 DEF TerminalType, Executions
  <2>4. Append(terminals[x].queue, p) \in Seq(Executions(n))
    BY <2>3, AppendProperties
  <2>5. /\ d \in TerminalType(n) /\ d.busy = terminals[x].busy
        /\ d.closed = terminals[x].closed /\ d.process = terminals[x].process
    BY <1>1, <2>4 DEF TerminalType
  <2> HIDE DEF r, d
  <2>6. /\ terminals' \in [Terminals -> TerminalType(n)]
        /\ \A y \in Terminals : terminals'[y] = IF y = x THEN d ELSE terminals[y]
    BY <1>1, <2>2, <2>5, TerminalSet
  <2>7. ~Completed(p)
    BY <2>2 DEF Completed
  <2> QED BY <2>1, <2>2, <2>5, <2>6, <2>7, ProcessKeeps
<1>3. CASE GiveUp(p)
  <2> DEFINE r == [processes[p] EXCEPT !.phase = "gaveUp", !.told = TRUE]
             d == [terminals[x] EXCEPT !.busy = FALSE]
  <2>1. /\ r \in ProcessType(m, n) /\ r.term = x /\ r.task = processes[p].task
        /\ r.told /\ r.exit = processes[p].exit /\ r.phase = "gaveUp"
    BY <1>1 DEF ProcessType, Phases
  <2>2. /\ processes' = [processes EXCEPT ![p] = r] /\ callers' = callers
        /\ terminals' = [terminals EXCEPT ![x] = d]
    BY <1>1, <1>3 DEF GiveUp
  <2>3. /\ d \in TerminalType(n) /\ ~d.busy
        /\ d.closed = terminals[x].closed /\ d.process = terminals[x].process
    BY <1>1 DEF TerminalType
  <2> HIDE DEF r, d
  <2>4. /\ terminals' \in [Terminals -> TerminalType(n)]
        /\ \A y \in Terminals : terminals'[y] = IF y = x THEN d ELSE terminals[y]
    BY <1>1, <2>2, <2>3, TerminalSet
  <2> QED BY <1>1, <2>1, <2>2, <2>3, <2>4, ProcessKeeps
<1>4. CASE Complete(p)
  <2> DEFINE late == terminals[x].process # None
             r == [processes[p] EXCEPT !.phase = "done", !.told = TRUE, !.late = late]
             d == [terminals[x] EXCEPT !.busy = FALSE]
  <2>1. /\ r \in ProcessType(m, n) /\ r.term = x /\ r.task = processes[p].task
        /\ r.told /\ r.exit = processes[p].exit /\ r.phase = "done"
    <3>1. late \in BOOLEAN
      OBVIOUS
    <3> HIDE DEF late
    <3> QED BY <1>1, <3>1 DEF ProcessType, Phases
  <2>2. /\ processes' = [processes EXCEPT ![p] = r] /\ callers' = callers
        /\ terminals' = [terminals EXCEPT ![x] = d]
    BY <1>1, <1>4 DEF Complete
  <2>3. /\ d \in TerminalType(n) /\ ~d.busy
        /\ d.closed = terminals[x].closed /\ d.process = terminals[x].process
    BY <1>1 DEF TerminalType
  <2> HIDE DEF r, d
  <2>4. /\ terminals' \in [Terminals -> TerminalType(n)]
        /\ \A y \in Terminals : terminals'[y] = IF y = x THEN d ELSE terminals[y]
    BY <1>1, <2>2, <2>3, TerminalSet
  <2> QED BY <1>1, <2>1, <2>2, <2>3, <2>4, ProcessKeeps
<1>5. CASE Output(p)
  <2> DEFINE r == [processes[p] EXCEPT !.unread = TRUE]
  <2>1. /\ r \in ProcessType(m, n) /\ r.term = x /\ r.task = processes[p].task
        /\ r.told = processes[p].told /\ r.exit = processes[p].exit
        /\ r.phase = processes[p].phase
    BY <1>1 DEF ProcessType
  <2>2. /\ processes' = [processes EXCEPT ![p] = r] /\ callers' = callers
        /\ terminals' = terminals
    BY <1>1, <1>5 DEF Output
  <2> HIDE DEF r
  <2> QED BY <1>1, <2>1, <2>2, ProcessKeeps
<1>6. CASE StreamEnds(p)
  <2> DEFINE r == [processes[p] EXCEPT !.phase = "ending"]
  <2>1. /\ r \in ProcessType(m, n) /\ r.term = x /\ r.task = processes[p].task
        /\ r.told = processes[p].told /\ r.exit = processes[p].exit
        /\ r.phase = "ending"
    BY <1>1 DEF ProcessType, Phases
  <2>2. /\ processes' = [processes EXCEPT ![p] = r] /\ callers' = callers
        /\ terminals' = terminals /\ processes[p].phase = "reading"
    BY <1>1, <1>6 DEF StreamEnds
  <2> HIDE DEF r
  <2> QED BY <1>1, <2>1, <2>2, ProcessKeeps
<1>7. CASE ProceedWhileRunning(p)
  <2> DEFINE r == [processes[p] EXCEPT !.told = TRUE]
  <2>1. /\ r \in ProcessType(m, n) /\ r.term = x /\ r.task = processes[p].task
        /\ r.told /\ r.exit = processes[p].exit /\ r.phase = processes[p].phase
    BY <1>1 DEF ProcessType
  <2>2. /\ processes' = [processes EXCEPT ![p] = r] /\ callers' = callers
        /\ terminals' = terminals
    BY <1>1, <1>7 DEF ProceedWhileRunning
  <2> HIDE DEF r
  <2> QED BY <1>1, <2>1, <2>2, ProcessKeeps
<1> QED BY <1>2, <1>3, <1>4, <1>5, <1>6, <1>7
        DEF ProcessStep, NoShellIntegration, StreamTimeout

LEMMA StartKeeps == ASSUME TInv, NEW x \in Terminals, ExecutionStarts(x) PROVE TInv'
<1> DEFINE n == Len(processes)
           m == Len(terminals)
           s == terminals[x].process
           d == [terminals[x] EXCEPT !.current = Head(terminals[x].queue),
                   !.queue = Tail(@), !.running = (s # None)]
<1>1. /\ Types /\ terminals[x] \in TerminalType(n) /\ n \in Nat
      /\ \A p \in Processes : processes[p] \in ProcessType(m, n)
      /\ DOMAIN terminals = Terminals /\ callers' = callers
      /\ terminals[x].queue # <<>>
  BY TypesGive DEF TInv, ExecutionStarts
<1>2. terminals' = [terminals EXCEPT ![x] = d]
  BY <1>1 DEF ExecutionStarts
<1>3. /\ terminals[x].queue \in Seq(Executions(n))
      /\ Head(terminals[x].queue) \in Executions(n)
      /\ Tail(terminals[x].queue) \in Seq(Executions(n))
  <2>1. terminals[x].queue \in Seq(Executions(n))
    BY <1>1 DEF TerminalType
  <2> QED BY <1>1, <2>1, HeadTailProperties
<1>4. /\ d \in TerminalType(n) /\ d.busy = terminals[x].busy
      /\ d.closed = terminals[x].closed /\ d.process = terminals[x].process
  BY <1>1, <1>3 DEF TerminalType
<1> HIDE DEF d
<1>5. /\ terminals' \in [Terminals -> TerminalType(n)]
      /\ \A y \in Terminals : terminals'[y] = IF y = x THEN d ELSE terminals[y]
  BY <1>1, <1>2, <1>4, TerminalSet
<1>6. processes' = [p \in Processes |->
        IF p = s /\ processes[p].phase = "stream"
        THEN [processes[p] EXCEPT !.phase = "reading"] ELSE processes[p]]
  BY DEF ExecutionStarts
<1>7. ASSUME NEW p \in Processes
      PROVE  /\ processes'[p] \in ProcessType(m, n)
             /\ processes'[p].term = processes[p].term
             /\ processes'[p].task = processes[p].task
             /\ processes'[p].told = processes[p].told
             /\ processes'[p].exit = processes[p].exit
             /\ \/ processes'[p].phase = processes[p].phase
                \/ processes'[p].phase = "reading" /\ p = s
  <2>1. processes[p] \in ProcessType(m, n)
    BY <1>1
  <2>2. CASE p = s /\ processes[p].phase = "stream"
    <3>1. processes'[p] = [processes[p] EXCEPT !.phase = "reading"]
      BY <1>6, <2>2
    <3> HIDE DEF s
    <3> QED BY <2>1, <2>2, <3>1 DEF ProcessType, Phases
  <2>3. CASE ~(p = s /\ processes[p].phase = "stream")
    BY <1>6, <2>1, <2>3
  <2> QED BY <2>2, <2>3
<1>8. processes' \in [Processes -> ProcessType(m, n)]
  BY <1>6, <1>7
<1>9. s \in Processes => processes[s].term = x
  BY DEF TInv, SlotsAreOwn
<1>10. Gentle
  BY <1>4, <1>5, <1>7, <1>9 DEF Gentle
<1> QED BY <1>1, <1>5, <1>8, <1>10, StepKeeps

LEMMA EndKeeps == ASSUME TInv, NEW x \in Terminals, ExecutionEnds(x) PROVE TInv'
<1> DEFINE n == Len(processes)
           m == Len(terminals)
           s == terminals[x].process
           e == terminals[x].current
           heard == terminals[x].running /\ s # None
           kept == IF processes[s].unread THEN terminals[x].kept \cup {s}
                   ELSE terminals[x].kept
           rest == [terminals[x] EXCEPT !.current = None]
           d == IF heard
                THEN [rest EXCEPT !.running = FALSE, !.busy = FALSE,
                        !.process = None, !.kept = kept]
                ELSE rest
<1>1. /\ Types /\ terminals[x] \in TerminalType(n) /\ n \in Nat
      /\ \A p \in Processes : processes[p] \in ProcessType(m, n)
      /\ DOMAIN terminals = Terminals /\ Processes = 1..n
  BY TypesGive DEF TInv, Processes
<1>2. /\ terminals' = [terminals EXCEPT ![x] = d]
      /\ processes' = [p \in Processes |->
           IF heard /\ p = s THEN [processes[p] EXCEPT !.exit = e]
           ELSE processes[p]]
      /\ e # None /\ callers' = callers
  <2>1. [rest EXCEPT !.running = FALSE, !.busy = FALSE, !.process = None,
           !.kept = IF processes[s].unread THEN @ \cup {s} ELSE @]
        = [rest EXCEPT !.running = FALSE, !.busy = FALSE, !.process = None,
             !.kept = kept]
    <3>1. rest.kept = terminals[x].kept
      BY <1>1 DEF TerminalType
    <3> HIDE DEF rest
    <3> QED BY <3>1
  <2> QED BY <1>1, <2>1 DEF ExecutionEnds, Ended
<1>3. /\ e \in Executions(n) /\ s \in Processes \cup {None}
      /\ terminals[x].kept \subseteq Processes
  BY <1>1, <1>2 DEF TerminalType, Executions, None, ByHand
<1>4. heard => kept \in SUBSET (1..n)
  BY <1>1, <1>3
<1>5. /\ rest \in TerminalType(n) /\ rest.busy = terminals[x].busy
      /\ rest.closed = terminals[x].closed /\ rest.process = s
  BY <1>1 DEF TerminalType
<1> HIDE DEF rest, kept
<1>6. /\ d \in TerminalType(n) /\ (d.busy => terminals[x].busy)
      /\ d.closed = terminals[x].closed
      /\ d.process = IF heard THEN None ELSE s
  BY <1>4, <1>5 DEF TerminalType
<1> HIDE DEF d
<1>7. /\ terminals' \in [Terminals -> TerminalType(n)]
      /\ \A y \in Terminals : terminals'[y] = IF y = x THEN d ELSE terminals[y]
  BY <1>1, <1>2, <1>6, TerminalSet
<1>8. ASSUME NEW p \in Processes
      PROVE  /\ processes'[p] \in ProcessType(m, n)
             /\ processes'[p].term = processes[p].term
             /\ processes'[p].task = processes[p].task
             /\ processes'[p].told = processes[p].told
             /\ processes'[p].phase = processes[p].phase
             /\ processes'[p].exit = IF heard /\ p = s THEN e ELSE processes[p].exit
  <2>1. processes[p] \in ProcessType(m, n)
    BY <1>1
  <2> HIDE DEF heard, s, e
  <2>2. CASE heard /\ p = s
    <3>1. processes'[p] = [processes[p] EXCEPT !.exit = e]
      BY <1>2, <2>2
    <3> QED BY <1>3, <2>1, <2>2, <3>1 DEF ProcessType
  <2>3. CASE ~(heard /\ p = s)
    BY <1>2, <2>1, <2>3
  <2> QED BY <2>2, <2>3
<1>9. processes' \in [Processes -> ProcessType(m, n)]
  BY <1>2, <1>8
<1>10. s \in Processes \/ s = None
  BY <1>3
<1>11. Gentle
  BY <1>2, <1>6, <1>7, <1>8, <1>10 DEF Gentle
<1> QED BY <1>2, <1>7, <1>9, <1>11, StepKeeps

LEMMA TerminalStepKeeps ==
  ASSUME TInv, NEW x \in Terminals, TerminalStep(x)
  PROVE  TInv'
<1> DEFINE n == Len(processes)
<1>1. /\ Types /\ terminals[x] \in TerminalType(n) /\ DOMAIN terminals = Terminals
      /\ processes \in [Processes -> ProcessType(Len(terminals), n)]
  BY TypesGive, NothingSet DEF TInv
<1>2. ASSUME NEW d \in TerminalType(n), terminals' = [terminals EXCEPT ![x] = d],
             d.busy = terminals[x].busy, terminals[x].closed => d.closed,
             d.process = terminals[x].process,
             processes' = processes, callers' = callers
      PROVE  TInv'
  <2>1. /\ terminals' \in [Terminals -> TerminalType(n)]
        /\ \A y \in Terminals : terminals'[y] = IF y = x THEN d ELSE terminals[y]
    BY <1>1, <1>2, TerminalSet
  <2>2. Gentle
    BY <1>2, <2>1 DEF Gentle
  <2> QED BY <1>1, <1>2, <2>1, <2>2, StepKeeps
<1>3. CASE TypeByHand(x)
  <2> DEFINE d == [terminals[x] EXCEPT !.queue = Append(@, ByHand)]
  <2>1. terminals[x].queue \in Seq(Executions(n)) /\ ByHand \in Executions(n)
    BY <1>1 DEF TerminalType, Executions
  <2>2. Append(terminals[x].queue, ByHand) \in Seq(Executions(n))
    BY <2>1, AppendProperties
  <2>3. /\ d \in TerminalType(n) /\ d.busy = terminals[x].busy
        /\ d.closed = terminals[x].closed /\ d.process = terminals[x].process
    BY <1>1, <2>2 DEF TerminalType
  <2>4. /\ terminals' = [terminals EXCEPT ![x] = d]
        /\ processes' = processes /\ callers' = callers
    BY <1>1, <1>3 DEF TypeByHand
  <2> HIDE DEF d
  <2> QED BY <1>2, <2>3, <2>4
<1>4. CASE Close(x)
  <2> DEFINE d == [terminals[x] EXCEPT !.closed = TRUE]
  <2>1. /\ d \in TerminalType(n) /\ d.busy = terminals[x].busy
        /\ d.closed /\ d.process = terminals[x].process
    BY <1>1 DEF TerminalType
  <2>2. /\ terminals' = [terminals EXCEPT ![x] = d]
        /\ processes' = processes /\ callers' = callers
    BY <1>1, <1>4 DEF Close
  <2> HIDE DEF d
  <2> QED BY <1>2, <2>1, <2>2
<1> QED BY <1>3, <1>4, StartKeeps, EndKeeps DEF TerminalStep

-----------------------------------------------------------------------------
(* Whose end a command hears.                                              *)

(* What a command has done before its task goes on or output is unread,    *)
(* and what it has heard while it is in a slot.                            *)
Progress ==
  \A p \in Processes :
    /\ processes[p].told => processes[p].phase \notin {"shell", "stream"}
    /\ processes[p].unread => processes[p].phase \in {"reading", "ending", "done"}
    /\ processes[p].late => processes[p].phase = "done"
    /\ \A x \in Terminals : terminals[x].process = p => processes[p].exit = None

Muddled(x) == Shared(x) \/ CompletedLate(x)

(* Something else than a command of the terminal may have been heard.      *)
Misled(x) ==
  \/ Muddled(x)
  \/ \E q \in Processes : /\ processes[q].term = x
                          /\ \/ processes[q].phase = "gaveUp"
                             \/ processes[q].exit = ByHand

Picked(t, x) == callers[t].at \in {"picked", "abortedPicked"} /\ callers[t].on = x

(* The slot belongs to the last command: the others have let the task go   *)
(* on, and it is overwritten only when its command was given up.           *)
SlotIsLast(x) ==
  LET s == terminals[x].process IN
  /\ s \in Processes =>
       /\ terminals[x].busy \/ processes[s].phase = "gaveUp"
       /\ \A p \in Processes : processes[p].term = x /\ p # s => processes[p].told
  /\ \A t \in Tasks : Picked(t, x) =>
       \/ s = None
       \/ processes[s].phase = "gaveUp"
       \/ \E p \in Processes : processes[p].term = x /\ processes[p].task # t

(* What VS Code has to run is typed by hand or, once, the command in the   *)
(* slot.                                                                   *)
QueueIsOwn(x) ==
  LET s == terminals[x].process
      queue == terminals[x].queue
      current == terminals[x].current
  IN /\ current \in {None, ByHand, s}
     /\ \A k \in 1..Len(queue) :
          \/ queue[k] = ByHand
          \/ /\ queue[k] = s /\ s \in Processes /\ processes[s].phase # "shell"
             /\ current # s
             /\ \A j \in 1..Len(queue) : queue[j] = s => j = k
     /\ current = s /\ s \in Processes => processes[s].phase # "shell"
     /\ \A p \in Processes :
          processes[p].term = x /\ processes[p].phase = "shell" => p = s

EInv ==
  /\ Progress
  /\ \A x \in Terminals : /\ ~Muddled(x) => SlotIsLast(x)
                          /\ ~Misled(x) => QueueIsOwn(x)
  /\ ExitIsOwn

\* Steps that leave the slots and the exit codes alone, and start no command.
Calm ==
  /\ Processes' = Processes /\ Terminals \subseteq Terminals'
  /\ \A x \in Terminals' \ Terminals :
       /\ terminals'[x].process = None /\ terminals'[x].current = None
       /\ terminals'[x].queue = <<>>
  /\ \A x \in Terminals :
       /\ terminals'[x].process = terminals[x].process
       /\ terminals[x].busy /\ ~Muddled(x) /\ ~terminals'[x].busy =>
            \/ terminals[x].process = None
            \/ processes'[terminals[x].process].phase = "gaveUp"
            \/ Muddled(x)'
       /\ \A t \in Tasks : Picked(t, x)' => Picked(t, x) \/ ~terminals[x].busy
  /\ \A p \in Processes :
       /\ processes'[p].term = processes[p].term
       /\ processes'[p].task = processes[p].task
       /\ processes'[p].exit = processes[p].exit
       /\ processes[p].late => processes'[p].late
       /\ processes'[p].late => processes[p].late \/ processes'[p].phase = "done"
       /\ processes[p].phase = "done" => processes'[p].phase = "done"
       /\ processes[p].told => processes'[p].told
       /\ processes[p].phase = "gaveUp" => processes'[p].phase = "gaveUp"
       /\ processes'[p].phase = "shell" => processes[p].phase = "shell"
       /\ processes'[p].phase \in {"shell", "stream"} =>
            /\ processes[p].phase \in {"shell", "stream"}
            /\ processes'[p].told = processes[p].told
       /\ processes[p].phase \in {"reading", "ending", "done"} =>
            processes'[p].phase \in {"reading", "ending", "done"}
       /\ processes'[p].unread => processes[p].unread \/ processes'[p].phase = "reading"

\* What excuses a terminal does so for ever.
Grows ==
  /\ Processes \subseteq Processes'
  /\ \A p \in Processes :
       /\ processes'[p].term = processes[p].term
       /\ processes'[p].task = processes[p].task
       /\ processes[p].late => processes'[p].late
       /\ processes[p].phase = "gaveUp" => processes'[p].phase = "gaveUp"
       /\ processes[p].exit = ByHand => processes'[p].exit = ByHand

LEMMA Excused ==
  ASSUME Grows, NEW x
  PROVE  /\ Shared(x) => Shared(x)'
         /\ Muddled(x) => Muddled(x)'
         /\ Misled(x) => Misled(x)'
<1>1. Shared(x) => Shared(x)'
  BY DEF Grows, Shared
<1>2. CompletedLate(x) => CompletedLate(x)'
  BY DEF Grows, CompletedLate
<1>3. (\E q \in Processes : /\ processes[q].term = x
                            /\ \/ processes[q].phase = "gaveUp"
                               \/ processes[q].exit = ByHand)
      => (\E q \in Processes' : /\ processes'[q].term = x
                                /\ \/ processes'[q].phase = "gaveUp"
                                   \/ processes'[q].exit = ByHand)
  BY DEF Grows
<1> QED BY <1>1, <1>2, <1>3 DEF Muddled, Misled

\* Nothing of this is disturbed by a calm step that leaves the queue alone too.
QueueStays(x) ==
  /\ terminals'[x].queue = terminals[x].queue
  /\ terminals'[x].current = terminals[x].current

\* What VS Code has to run does not change while the queue and slot do not.
LEMMA QueueKept ==
  ASSUME Processes' = Processes, NEW x, QueueIsOwn(x), QueueStays(x),
         terminals'[x].process = terminals[x].process,
         \A p \in Processes :
           /\ processes'[p].term = processes[p].term
           /\ processes'[p].phase = "shell" => processes[p].phase = "shell"
  PROVE  QueueIsOwn(x)'
BY DEF QueueIsOwn, QueueStays

\* A calm step keeps the slot with the last command.
LEMMA SlotKept ==
  ASSUME TInv, Calm, NEW x \in Terminals, SlotIsLast(x), ~Muddled(x), ~Muddled(x)'
  PROVE  SlotIsLast(x)'
<1> DEFINE s == terminals[x].process
<1>1. /\ Processes' = Processes /\ terminals'[x].process = s
      /\ s \in Processes \/ s = None
  <2>1. Types
    BY DEF TInv
  <2>2. terminals[x] \in TerminalType(Len(processes))
    BY <2>1, TypesGive
  <2> QED BY <2>2 DEF Calm, TerminalType, Processes
<1>2. ASSUME s \in Processes
      PROVE  /\ terminals'[x].busy \/ processes'[s].phase = "gaveUp"
             /\ \A p \in Processes : processes'[p].term = x /\ p # s => processes'[p].told
  <2>1. s # None
    BY <1>2 DEF None, Processes
  <2>2. terminals[x].busy \/ processes[s].phase = "gaveUp"
    BY <1>2 DEF SlotIsLast
  <2>3. terminals'[x].busy \/ processes'[s].phase = "gaveUp"
    BY <1>2, <2>1, <2>2 DEF Calm
  <2> QED BY <1>2, <2>3 DEF Calm, SlotIsLast
<1>3. ASSUME NEW t \in Tasks, Picked(t, x)'
      PROVE  \/ s = None
             \/ processes'[s].phase = "gaveUp"
             \/ \E p \in Processes : processes'[p].term = x /\ processes'[p].task # t
  <2>1. CASE Picked(t, x)
    <3>1. \/ s = None
          \/ s \in Processes /\ processes[s].phase = "gaveUp"
          \/ \E p \in Processes : processes[p].term = x /\ processes[p].task # t
      BY <1>1, <2>1 DEF SlotIsLast
    <3> QED BY <3>1 DEF Calm
  <2>2. CASE ~terminals[x].busy
    <3>1. s = None \/ (s \in Processes /\ processes[s].phase = "gaveUp")
      BY <1>1, <2>2 DEF SlotIsLast
    <3> QED BY <3>1 DEF Calm
  <2> QED BY <1>3, <2>1, <2>2 DEF Calm
<1> HIDE DEF s
<1>4. SlotIsLast(x)' <=>
        /\ s \in Processes =>
             /\ terminals'[x].busy \/ processes'[s].phase = "gaveUp"
             /\ \A p \in Processes : processes'[p].term = x /\ p # s => processes'[p].told
        /\ \A t \in Tasks : Picked(t, x)' =>
             \/ s = None
             \/ processes'[s].phase = "gaveUp"
             \/ \E p \in Processes : processes'[p].term = x /\ processes'[p].task # t
  BY <1>1 DEF SlotIsLast
<1> QED BY <1>2, <1>3, <1>4

\* What ExitIsOwn says, by the name of its exception.
LEMMA ExitsAreOwn ==
  ASSUME ExitIsOwn, NEW p \in Processes, processes[p].exit \in Processes \ {p},
         NEW x, x = processes[p].term
  PROVE  Misled(x)
<1>1. \/ Shared(x) \/ CompletedLate(x)
      \/ \E q \in Processes : /\ processes[q].term = x
                              /\ \/ processes[q].phase = "gaveUp"
                                 \/ processes[q].exit = ByHand
  BY DEF ExitIsOwn
<1> QED BY <1>1 DEF Misled, Muddled

\* The same for the state after a step.
LEMMA ExitsStayOwn ==
  ASSUME ASSUME NEW p \in Processes', processes'[p].exit \in Processes' \ {p},
                NEW x, x = processes'[p].term
         PROVE  Misled(x)'
  PROVE  ExitIsOwn'
<1>1. ASSUME NEW p \in Processes', processes'[p].exit \in Processes' \ {p},
             NEW x, x = processes'[p].term
      PROVE  \/ Shared(x)' \/ CompletedLate(x)'
             \/ \E q \in Processes' : /\ processes'[q].term = x
                                      /\ \/ processes'[q].phase = "gaveUp"
                                         \/ processes'[q].exit = ByHand
  BY <1>1 DEF Misled, Muddled
<1> QED BY <1>1 DEF ExitIsOwn

\* A calm step keeps everything, if it keeps what VS Code has to run in order.
LEMMA CalmKeeps ==
  ASSUME TInv, EInv, Calm,
         \A x \in Terminals : QueueStays(x) \/ (~Misled(x)' => QueueIsOwn(x)')
  PROVE  EInv'
<1>1. Grows
  BY DEF Calm, Grows
<1>2. /\ Types /\ Processes' = Processes /\ Terminals \subseteq Terminals'
      /\ \A p \in Processes : processes[p].term \in Terminals
      /\ Processes = 1..Len(processes) /\ Len(processes) \in Nat
  BY TypesGive DEF TInv, Calm, Processes
<1>3. Progress'
  <2>1. ASSUME NEW p \in Processes
        PROVE  /\ processes'[p].told => processes'[p].phase \notin {"shell", "stream"}
               /\ processes'[p].unread => processes'[p].phase \in {"reading", "ending", "done"}
               /\ processes'[p].late => processes'[p].phase = "done"
    BY DEF Calm, EInv, Progress
  <2>2. ASSUME NEW p \in Processes, NEW x \in Terminals', terminals'[x].process = p
        PROVE  processes'[p].exit = None
    <3>1. p # None
      BY <1>2 DEF None
    <3>2. x \in Terminals
      BY <2>2, <3>1 DEF Calm
    <3> QED BY <2>2, <3>2 DEF Calm, EInv, Progress
  <2> QED BY <1>2, <2>1, <2>2 DEF Progress
<1>4. ASSUME NEW x \in Terminals', ~Muddled(x)'
      PROVE  SlotIsLast(x)'
  <2>1. CASE x \in Terminals
    BY <1>1, <1>4, <2>1, Excused, SlotKept DEF EInv
  <2>2. CASE x \notin Terminals
    <3>1. terminals'[x].process = None /\ None \notin Processes
      BY <1>2, <2>2 DEF Calm, None
    <3> QED BY <1>2, <3>1 DEF SlotIsLast
  <2> QED BY <2>1, <2>2
<1>5. ASSUME NEW x \in Terminals', ~Misled(x)'
      PROVE  QueueIsOwn(x)'
  <2>1. CASE x \in Terminals /\ QueueStays(x)
    <3>1. QueueIsOwn(x)
      BY <1>1, <1>5, <2>1, Excused DEF EInv
    <3> QED BY <1>2, <2>1, <3>1, QueueKept DEF Calm
  <2>2. CASE x \notin Terminals
    <3>1. /\ terminals'[x].process = None /\ terminals'[x].current = None
          /\ terminals'[x].queue = <<>> /\ Len(<<>>) = 0
      BY <2>2, EmptySeq DEF Calm
    <3>2. \A p \in Processes : processes'[p].term # x
      BY <1>2, <2>2 DEF Calm
    <3>3. None \notin Processes
      BY <1>2 DEF None
    <3> QED BY <1>2, <3>1, <3>2, <3>3 DEF QueueIsOwn
  <2> QED BY <1>5, <2>1, <2>2
<1>6. ExitIsOwn'
  <2>1. ASSUME NEW p \in Processes', processes'[p].exit \in Processes' \ {p},
               NEW x, x = processes'[p].term
        PROVE  Misled(x)'
    <3>1. /\ p \in Processes /\ processes[p].exit \in Processes \ {p}
          /\ x = processes[p].term
      BY <1>2, <2>1 DEF Calm
    <3>2. Misled(x)
      BY <3>1, ExitsAreOwn DEF EInv
    <3> QED BY <1>1, <3>2, Excused
  <2> QED BY <2>1, ExitsStayOwn
<1> QED BY <1>3, <1>4, <1>5, <1>6 DEF EInv

(* What OutputIsKept says of a step.                                       *)
OutputStays ==
  \A p \in Processes :
    LET x == processes[p].term IN
    processes[p].unread /\ Reportable(p) =>
      \/ ~processes'[p].unread
      \/ Reportable(p)'
      \/ Shared(x)' \/ CompletedLate(x)

\* Output stays reportable in a calm step that forgets no completed process.
LEMMA CalmKeepsOutput ==
  ASSUME TInv, Calm, \A x \in Terminals : terminals[x].kept \subseteq terminals'[x].kept
  PROVE  OutputStays
<1>1. Types
  BY DEF TInv
<1>2. \A p \in Processes : processes[p].term \in Terminals
  BY <1>1, TypesGive
<1> QED BY <1>2 DEF OutputStays, Reportable, Calm

\* r is the process p, as far or further.
Further(p, r) ==
  /\ r.term = processes[p].term /\ r.task = processes[p].task
  /\ r.exit = processes[p].exit
  /\ processes[p].late => r.late
  /\ r.late => processes[p].late \/ r.phase = "done"
  /\ processes[p].phase = "done" => r.phase = "done"
  /\ processes[p].told => r.told
  /\ processes[p].phase = "gaveUp" => r.phase = "gaveUp"
  /\ r.phase = "shell" => processes[p].phase = "shell"
  /\ r.phase \in {"shell", "stream"} =>
       processes[p].phase \in {"shell", "stream"} /\ r.told = processes[p].told
  /\ processes[p].phase \in {"reading", "ending", "done"} =>
       r.phase \in {"reading", "ending", "done"}
  /\ r.unread => processes[p].unread \/ r.phase = "reading"

\* One process moves on, and lowers busy at most when that is in order.
LEMMA ProcessCalm ==
  ASSUME TInv, EInv, NEW p \in Processes, NEW r,
         r \in ProcessType(Len(terminals), Len(processes)), Further(p, r),
         processes' = [processes EXCEPT ![p] = r],
         terminals' \in [Terminals -> TerminalType(Len(processes))],
         \A x \in Terminals :
           /\ terminals'[x].process = terminals[x].process
           /\ terminals'[x].kept = terminals[x].kept
           /\ terminals[x].busy /\ ~terminals'[x].busy =>
                /\ x = r.term
                /\ \/ terminals[x].process = None
                   \/ terminals[x].process = p /\ r.phase = "gaveUp"
                   \/ r.late
                   \/ Muddled(x),
         callers' = callers
  PROVE  Calm /\ OutputStays
<1>1. Types
  BY DEF TInv
<1>2. /\ processes' \in [Processes -> ProcessType(Len(terminals), Len(processes))]
      /\ \A q \in Processes : processes'[q] = IF q = p THEN r ELSE processes[q]
  BY <1>1, ProcessSet
<1>3. Terminals' = Terminals /\ Processes' = Processes
  BY <1>1, <1>2, TypesKept DEF Types
<1>4. Grows
  BY <1>2, <1>3 DEF Grows, Further
<1>5. ASSUME NEW x \in Terminals, terminals[x].busy, ~Muddled(x), ~terminals'[x].busy
      PROVE  \/ terminals[x].process = None
             \/ processes'[terminals[x].process].phase = "gaveUp"
             \/ Muddled(x)'
  <2>1. CASE r.late
    <3>1. p \in Processes' /\ processes'[p].term = x /\ processes'[p].late
      BY <1>2, <1>3, <1>5, <2>1
    <3> QED BY <3>1 DEF Muddled, CompletedLate
  <2>2. CASE terminals[x].process = p /\ r.phase = "gaveUp"
    BY <1>2, <2>2
  <2> QED BY <1>5, <2>1, <2>2
<1>6. \A t \in Tasks, x \in Terminals : Picked(t, x)' <=> Picked(t, x)
  BY DEF Picked
<1>7. Calm
  BY <1>2, <1>3, <1>5, <1>6 DEF Calm, Further
<1> QED BY <1>7, CalmKeepsOutput

\* A command that is given up while another is in its slot had let its task go
\* on: it cannot have been waiting for its stream.
LEMMA GivenUpInSlot ==
  ASSUME TInv, EInv, NEW p \in Processes, processes[p].phase \in {"shell", "stream"},
         NEW x \in Terminals, x = processes[p].term
  PROVE  terminals[x].process = None \/ terminals[x].process = p \/ Muddled(x)
<1>1. Types
  BY DEF TInv
<1>2. terminals[x].process \in Processes \cup {None}
  <2>1. terminals[x] \in TerminalType(Len(processes))
    BY <1>1, TypesGive
  <2> QED BY <2>1 DEF TerminalType, Processes
<1>3. ~processes[p].told
  BY DEF EInv, Progress
<1> QED BY <1>2, <1>3 DEF EInv, SlotIsLast

\* What Append does to a queue.
LEMMA AppendGives ==
  ASSUME NEW S, NEW s \in Seq(S), NEW e \in S
  PROVE  /\ Append(s, e) \in Seq(S) /\ Len(Append(s, e)) = Len(s) + 1
         /\ Append(s, e)[Len(s) + 1] = e /\ Len(s) \in Nat
         /\ \A k \in 1..Len(s) : Append(s, e)[k] = s[k]
<1>1. Len(s) \in Nat
  BY LenProperties
<1> QED BY <1>1, AppendProperties

\* The steps of a process disturb none of it.
LEMMA ProcessStepOwn ==
  ASSUME TInv, EInv, NEW p \in Processes, ProcessStep(p),
         NEW x, x = processes[p].term
  PROVE  EInv' /\ OutputStays
<1> DEFINE n == Len(processes)
           m == Len(terminals)
<1>1. /\ Types /\ processes[p] \in ProcessType(m, n) /\ x \in Terminals
      /\ terminals[x] \in TerminalType(n) /\ n \in Nat /\ Processes = 1..n
      /\ terminals \in [Terminals -> TerminalType(n)]
      /\ DOMAIN terminals = Terminals /\ DOMAIN processes = Processes
  BY TypesGive, NothingSet DEF TInv, Processes
<1>2. CASE Execute(p)
  <2> DEFINE r == [processes[p] EXCEPT !.phase = "stream"]
             queue == Append(terminals[x].queue, p)
             d == [terminals[x] EXCEPT !.queue = queue]
  <2>1. /\ r \in ProcessType(m, n) /\ r.term = x /\ r.task = processes[p].task
        /\ r.told = processes[p].told /\ r.exit = processes[p].exit
        /\ r.phase = "stream" /\ r.late = processes[p].late
        /\ r.unread = processes[p].unread
    BY <1>1 DEF ProcessType, Phases
  <2>2. /\ processes' = [processes EXCEPT ![p] = r] /\ callers' = callers
        /\ terminals' = [terminals EXCEPT ![x] = d]
        /\ processes[p].phase = "shell"
    BY <1>1, <1>2 DEF Execute
  <2>3. terminals[x].queue \in Seq(Executions(n)) /\ p \in Executions(n)
    BY <1>1 DEF TerminalType, Executions
  <2>4. /\ queue \in Seq(Executions(n)) /\ Len(queue) = Len(terminals[x].queue) + 1
        /\ queue[Len(terminals[x].queue) + 1] = p /\ Len(terminals[x].queue) \in Nat
        /\ \A k \in 1..Len(terminals[x].queue) : queue[k] = terminals[x].queue[k]
    BY ONLY <2>3, AppendGives DEF queue
  <2> HIDE DEF queue
  <2>5. /\ d \in TerminalType(n) /\ d.busy = terminals[x].busy
        /\ d.process = terminals[x].process /\ d.kept = terminals[x].kept
        /\ d.queue = queue /\ d.current = terminals[x].current
    BY <1>1, <2>4 DEF TerminalType
  <2> HIDE DEF r, d
  <2>6. /\ terminals' \in [Terminals -> TerminalType(n)]
        /\ \A y \in Terminals : terminals'[y] = IF y = x THEN d ELSE terminals[y]
    BY <1>1, <2>2, <2>5, TerminalSet
  <2>7. Calm /\ OutputStays
    <3>1. Further(p, r)
      BY <2>1, <2>2 DEF Further
    <3> QED BY <2>1, <2>2, <2>5, <2>6, <3>1, ProcessCalm
  <2>8. ASSUME ~Misled(x)'
        PROVE  QueueIsOwn(x)'
    <3>1. QueueIsOwn(x)
      <4>1. Grows
        BY <2>7 DEF Calm, Grows
      <4> QED BY <1>1, <2>8, <4>1, Excused DEF EInv
    <3>2. terminals[x].process = p
      BY <2>2, <3>1 DEF QueueIsOwn
    <3>3. /\ processes'[p].phase = "stream" /\ processes'[p].term = x
          /\ Processes' = Processes
          /\ \A q \in Processes : q # p => processes'[q] = processes[q]
      BY <1>1, <2>1, <2>2, <2>7, ProcessSet DEF Calm
    <3>4. /\ terminals'[x].process = p /\ terminals'[x].queue = queue
          /\ terminals'[x].current = terminals[x].current
      BY <1>1, <2>5, <2>6, <3>2
    <3>5. /\ terminals[x].current \in {None, ByHand} /\ ByHand # p /\ None # p
          /\ \A k \in 1..Len(terminals[x].queue) : terminals[x].queue[k] = ByHand
      BY <1>1, <2>2, <3>1, <3>2 DEF QueueIsOwn, ByHand, None
    <3>6. ASSUME NEW k \in 1..Len(queue), queue[k] # ByHand
          PROVE  queue[k] = p /\ \A j \in 1..Len(queue) : queue[j] = p => j = k
      <4> DEFINE l == Len(terminals[x].queue)
      <4>1. /\ l \in Nat /\ Len(queue) = l + 1 /\ queue[l + 1] = p
            /\ \A j \in 1..l : queue[j] = ByHand
        BY <2>4, <3>5
      <4> HIDE DEF l
      <4>2. k = l + 1 /\ \A j \in 1..(l + 1) : j # l + 1 => queue[j] = ByHand
        BY <3>6, <4>1
      <4> QED BY <3>5, <4>1, <4>2
    <3>7. \A q \in Processes : processes'[q].term = x /\ processes'[q].phase = "shell"
                                 => q = p
      BY <3>1, <3>2, <3>3 DEF QueueIsOwn
    <3> QED BY <3>3, <3>4, <3>5, <3>6, <3>7 DEF QueueIsOwn
  <2>9. \A y \in Terminals : QueueStays(y) \/ (~Misled(y)' => QueueIsOwn(y)')
    BY <2>6, <2>8 DEF QueueStays
  <2> QED BY <2>7, <2>9, CalmKeeps
<1>3. CASE GiveUp(p) /\ processes[p].phase \in {"shell", "stream"}
  <2> DEFINE r == [processes[p] EXCEPT !.phase = "gaveUp", !.told = TRUE]
             d == [terminals[x] EXCEPT !.busy = FALSE]
  <2>1. /\ r \in ProcessType(m, n) /\ r.term = x /\ r.task = processes[p].task
        /\ r.told /\ r.exit = processes[p].exit /\ r.phase = "gaveUp"
        /\ r.late = processes[p].late /\ r.unread = processes[p].unread
    BY <1>1 DEF ProcessType, Phases
  <2>2. /\ processes' = [processes EXCEPT ![p] = r] /\ callers' = callers
        /\ terminals' = [terminals EXCEPT ![x] = d]
    BY <1>1, <1>3 DEF GiveUp
  <2>3. /\ d \in TerminalType(n) /\ ~d.busy
        /\ d.process = terminals[x].process /\ d.kept = terminals[x].kept
        /\ d.queue = terminals[x].queue /\ d.current = terminals[x].current
    BY <1>1 DEF TerminalType
  <2> HIDE DEF r, d
  <2>4. /\ terminals' \in [Terminals -> TerminalType(n)]
        /\ \A y \in Terminals : terminals'[y] = IF y = x THEN d ELSE terminals[y]
    BY <1>1, <2>2, <2>3, TerminalSet
  <2>5. terminals[x].process = None \/ terminals[x].process = p \/ Muddled(x)
    BY <1>1, <1>3, GivenUpInSlot
  <2>6. Calm /\ OutputStays
    <3>1. \A y \in Terminals :
            /\ terminals'[y].process = terminals[y].process
            /\ terminals'[y].kept = terminals[y].kept
            /\ terminals[y].busy /\ ~terminals'[y].busy =>
                 /\ y = r.term
                 /\ \/ terminals[y].process = None
                    \/ terminals[y].process = p /\ r.phase = "gaveUp"
                    \/ r.late
                    \/ Muddled(y)
      BY <2>1, <2>3, <2>4, <2>5
    <3>2. Further(p, r)
      BY <1>3, <2>1 DEF Further
    <3> QED BY <2>1, <2>2, <2>4, <2>5, <3>1, <3>2, ProcessCalm
  <2>7. \A y \in Terminals : QueueStays(y)
    BY <2>3, <2>4 DEF QueueStays
  <2> QED BY <2>6, <2>7, CalmKeeps
<1>4. CASE Complete(p)
  <2> DEFINE late == terminals[x].process # None
             r == [processes[p] EXCEPT !.phase = "done", !.told = TRUE, !.late = late]
             d == [terminals[x] EXCEPT !.busy = FALSE]
  <2>1. /\ r \in ProcessType(m, n) /\ r.term = x /\ r.task = processes[p].task
        /\ r.told /\ r.exit = processes[p].exit /\ r.phase = "done"
        /\ r.late = late /\ r.unread = processes[p].unread
    <3>1. late \in BOOLEAN
      OBVIOUS
    <3> HIDE DEF late
    <3> QED BY <1>1, <3>1 DEF ProcessType, Phases
  <2>2. /\ processes' = [processes EXCEPT ![p] = r] /\ callers' = callers
        /\ terminals' = [terminals EXCEPT ![x] = d]
        /\ processes[p].phase = "ending"
    BY <1>1, <1>4 DEF Complete
  <2>3. /\ d \in TerminalType(n) /\ ~d.busy
        /\ d.process = terminals[x].process /\ d.kept = terminals[x].kept
        /\ d.queue = terminals[x].queue /\ d.current = terminals[x].current
    BY <1>1 DEF TerminalType
  <2>4. terminals[x].process = None \/ r.late
    BY <2>1
  <2> HIDE DEF r, d, late
  <2>5. /\ terminals' \in [Terminals -> TerminalType(n)]
        /\ \A y \in Terminals : terminals'[y] = IF y = x THEN d ELSE terminals[y]
    BY <1>1, <2>2, <2>3, TerminalSet
  <2>6. ~processes[p].late
    BY <2>2 DEF EInv, Progress
  <2>7. Calm /\ OutputStays
    <3>1. \A y \in Terminals :
            /\ terminals'[y].process = terminals[y].process
            /\ terminals'[y].kept = terminals[y].kept
            /\ terminals[y].busy /\ ~terminals'[y].busy =>
                 /\ y = r.term
                 /\ \/ terminals[y].process = None
                    \/ terminals[y].process = p /\ r.phase = "gaveUp"
                    \/ r.late
                    \/ Muddled(y)
      BY <2>1, <2>3, <2>4, <2>5
    <3>2. Further(p, r)
      BY <2>1, <2>2, <2>6 DEF Further
    <3> QED BY <2>1, <2>2, <2>4, <2>5, <3>1, <3>2, ProcessCalm
  <2>8. \A y \in Terminals : QueueStays(y)
    BY <2>3, <2>5 DEF QueueStays
  <2> QED BY <2>7, <2>8, CalmKeeps
<1>5. CASE Output(p)
  <2> DEFINE r == [processes[p] EXCEPT !.unread = TRUE]
  <2>1. /\ r \in ProcessType(m, n) /\ r.term = x /\ r.task = processes[p].task
        /\ r.told = processes[p].told /\ r.exit = processes[p].exit
        /\ r.phase = processes[p].phase /\ r.late = processes[p].late
    BY <1>1 DEF ProcessType
  <2>2. /\ processes' = [processes EXCEPT ![p] = r] /\ callers' = callers
        /\ terminals' = terminals /\ processes[p].phase = "reading"
    BY <1>1, <1>5 DEF Output
  <2> HIDE DEF r
  <2>3. Calm /\ OutputStays
    <3>1. Further(p, r)
      BY <2>1, <2>2 DEF Further
    <3> QED BY <1>1, <2>1, <2>2, <3>1, ProcessCalm
  <2>4. \A y \in Terminals : QueueStays(y)
    BY <2>2 DEF QueueStays
  <2> QED BY <2>3, <2>4, CalmKeeps
<1>6. CASE StreamEnds(p)
  <2> DEFINE r == [processes[p] EXCEPT !.phase = "ending"]
  <2>1. /\ r \in ProcessType(m, n) /\ r.term = x /\ r.task = processes[p].task
        /\ r.told = processes[p].told /\ r.exit = processes[p].exit
        /\ r.phase = "ending" /\ r.late = processes[p].late
        /\ r.unread = processes[p].unread
    BY <1>1 DEF ProcessType, Phases
  <2>2. /\ processes' = [processes EXCEPT ![p] = r] /\ callers' = callers
        /\ terminals' = terminals /\ processes[p].phase = "reading"
    BY <1>1, <1>6 DEF StreamEnds
  <2> HIDE DEF r
  <2>3. Calm /\ OutputStays
    <3>1. Further(p, r)
      BY <2>1, <2>2 DEF Further
    <3> QED BY <1>1, <2>1, <2>2, <3>1, ProcessCalm
  <2>4. \A y \in Terminals : QueueStays(y)
    BY <2>2 DEF QueueStays
  <2> QED BY <2>3, <2>4, CalmKeeps
<1>7. CASE ProceedWhileRunning(p)
  <2> DEFINE r == [processes[p] EXCEPT !.told = TRUE]
  <2>1. /\ r \in ProcessType(m, n) /\ r.term = x /\ r.task = processes[p].task
        /\ r.told /\ r.exit = processes[p].exit /\ r.phase = processes[p].phase
        /\ r.late = processes[p].late /\ r.unread = processes[p].unread
    BY <1>1 DEF ProcessType
  <2>2. /\ processes' = [processes EXCEPT ![p] = r] /\ callers' = callers
        /\ terminals' = terminals /\ processes[p].phase \in {"reading", "ending"}
    BY <1>1, <1>7 DEF ProceedWhileRunning
  <2> HIDE DEF r
  <2>3. Calm /\ OutputStays
    <3>1. Further(p, r)
      BY <2>1, <2>2 DEF Further
    <3> QED BY <1>1, <2>1, <2>2, <3>1, ProcessCalm
  <2>4. \A y \in Terminals : QueueStays(y)
    BY <2>2 DEF QueueStays
  <2> QED BY <2>3, <2>4, CalmKeeps
<1> QED BY <1>2, <1>3, <1>4, <1>5, <1>6, <1>7
        DEF ProcessStep, NoShellIntegration, StreamTimeout

\* A step of the callers and the registry that starts nothing.
LEMMA RegistryCalm ==
  ASSUME TInv, EInv, processes' = processes, Terminals \subseteq Terminals',
         \A x \in Terminals' \ Terminals :
           /\ terminals'[x].process = None /\ terminals'[x].current = None
           /\ terminals'[x].queue = <<>>,
         \A x \in Terminals :
           /\ terminals'[x].process = terminals[x].process
           /\ terminals'[x].busy = terminals[x].busy
           /\ terminals'[x].queue = terminals[x].queue
           /\ terminals'[x].current = terminals[x].current
           /\ terminals'[x].kept = terminals[x].kept
           /\ \A t \in Tasks : Picked(t, x)' => Picked(t, x) \/ ~terminals[x].busy
  PROVE  EInv' /\ OutputStays
<1>1. Processes' = Processes
  BY DEF Processes
<1>2. Calm
  BY <1>1 DEF Calm
<1>3. \A x \in Terminals : QueueStays(x)
  BY DEF QueueStays
<1> QED BY <1>2, <1>3, CalmKeeps, CalmKeepsOutput

\* The steps of the tasks.
LEMMA PickOwn ==
  ASSUME TInv, EInv, NEW t \in Tasks, PickTerminal(t)
  PROVE  EInv' /\ OutputStays
<1> DEFINE n == Len(processes)
           m == Len(terminals)
<1>1. /\ Types /\ m \in Nat /\ n \in Nat /\ processes' = processes
      /\ \A x \in Terminals : terminals[x] \in TerminalType(n)
      /\ terminals \in Seq(TerminalType(n)) /\ Terminals = 1..m
      /\ callers \in [Tasks -> CallerType(m, n)]
      /\ DOMAIN terminals = Terminals
  BY TypesGive DEF TInv, PickTerminal, Types, Terminals
<1>2. CASE /\ terminals' = Append(terminals, NewTerminal(t))
           /\ callers' = [callers EXCEPT ![t] = [at |-> "picked", on |-> m + 1]]
  <2>1. /\ NewTerminal(t) \in TerminalType(n) /\ NewTerminal(t).process = None
        /\ NewTerminal(t).current = None /\ NewTerminal(t).queue = <<>>
    <3>1. <<>> \in Seq(Executions(n))
      BY EmptySeq
    <3> QED BY <3>1 DEF NewTerminal, TerminalType
  <2>2. /\ Len(terminals') = m + 1
        /\ \A x \in Terminals : terminals'[x] = terminals[x]
        /\ terminals'[m + 1] = NewTerminal(t)
    BY <1>1, <1>2, <2>1, AppendProperties
  <2>3. Terminals' = 1..(m + 1)
    BY <2>2 DEF Terminals
  <2>4. \A x \in Terminals, u \in Tasks : Picked(u, x)' => Picked(u, x)
    <3>1. m + 1 \notin Terminals
      BY <1>1
    <3> QED BY <1>1, <1>2, <3>1 DEF Picked
  <2>5. /\ Terminals \subseteq Terminals'
        /\ \A x \in Terminals' \ Terminals : x = m + 1
    BY <1>1, <2>3
  <2> QED BY <1>1, <2>1, <2>2, <2>4, <2>5, RegistryCalm
<1>3. ASSUME NEW x \in Terminals, ~terminals[x].busy,
             terminals' = [terminals EXCEPT ![x].owner = t],
             callers' = [callers EXCEPT ![t] = [at |-> "picked", on |-> x]]
      PROVE  EInv' /\ OutputStays
  <2> DEFINE r == [terminals[x] EXCEPT !.owner = t]
  <2>1. /\ r \in TerminalType(n) /\ r.busy = terminals[x].busy
        /\ r.process = terminals[x].process /\ r.queue = terminals[x].queue
        /\ r.current = terminals[x].current /\ r.kept = terminals[x].kept
    BY <1>1 DEF TerminalType
  <2>2. terminals' = [terminals EXCEPT ![x] = r]
    BY <1>1, <1>3
  <2> HIDE DEF r
  <2>3. /\ terminals' \in [Terminals -> TerminalType(n)]
        /\ \A y \in Terminals : terminals'[y] = IF y = x THEN r ELSE terminals[y]
    BY <1>1, <2>1, <2>2, TerminalSet
  <2>4. Terminals' = Terminals
    BY <1>1, <2>3, IsSequence DEF Terminals
  <2>5. \A y \in Terminals, u \in Tasks : Picked(u, y)' => Picked(u, y) \/ y = x
    BY <1>1, <1>3 DEF Picked
  <2>6. \A y \in Terminals :
          /\ terminals'[y].process = terminals[y].process
          /\ terminals'[y].busy = terminals[y].busy
          /\ terminals'[y].queue = terminals[y].queue
          /\ terminals'[y].current = terminals[y].current
          /\ terminals'[y].kept = terminals[y].kept
    BY <2>1, <2>3
  <2>7. \A y \in Terminals, u \in Tasks :
          Picked(u, y)' => Picked(u, y) \/ ~terminals[y].busy
    BY <1>3, <2>5
  <2> QED BY <1>1, <2>4, <2>6, <2>7, RegistryCalm
<1> QED
  <2>1. PICK here \in SUBSET Terminals, required \in BOOLEAN :
          LET found == Candidates(t, here, required) IN
          \/ /\ terminals' = Append(terminals, NewTerminal(t))
             /\ callers' = [callers EXCEPT ![t] = [at |-> "picked", on |-> m + 1]]
          \/ \E x \in found :
               /\ terminals' = [terminals EXCEPT ![x].owner = t]
               /\ callers' = [callers EXCEPT ![t] = [at |-> "picked", on |-> x]]
    BY DEF PickTerminal
  <2>2. \A x \in Candidates(t, here, required) : x \in Terminals /\ ~terminals[x].busy
    BY DEF Candidates
  <2> QED BY <2>1, <2>2, <1>2, <1>3

LEMMA AbortOwn ==
  ASSUME TInv, EInv, NEW t \in Tasks, Abort(t)
  PROVE  EInv' /\ OutputStays
<1> DEFINE n == Len(processes)
           m == Len(terminals)
<1>1. /\ Types /\ callers \in [Tasks -> CallerType(m, n)]
      /\ \A x \in Terminals : terminals[x] \in TerminalType(n)
      /\ processes' = processes /\ m \in Nat /\ Terminals = 1..m
  BY TypesGive DEF TInv, Types, Abort, Terminals
<1>2. ASSUME NEW x \in Terminals
      PROVE  /\ terminals'[x] \in TerminalType(n)
             /\ terminals'[x].busy = terminals[x].busy
             /\ terminals'[x].process = terminals[x].process
             /\ terminals'[x].queue = terminals[x].queue
             /\ terminals'[x].current = terminals[x].current
             /\ terminals'[x].kept = terminals[x].kept
  <2>1. terminals[x] \in TerminalType(n)
    BY <1>1
  <2>2. terminals'[x] = IF terminals[x].owner = t
                        THEN [terminals[x] EXCEPT !.owner = NoTask] ELSE terminals[x]
    BY DEF Abort
  <2> QED BY <2>1, <2>2 DEF TerminalType
<1>3. Terminals' = Terminals
  <2>1. terminals' \in [Terminals -> TerminalType(n)]
    BY <1>2 DEF Abort
  <2> QED BY <1>1, <2>1, IsSequence DEF Terminals
<1>4. ASSUME NEW u \in Tasks, NEW x \in Terminals, Picked(u, x)'
      PROVE  Picked(u, x)
  <2>1. CASE u = t
    <3>1. callers[t] \in CallerType(m, n)
      BY <1>1
    <3>2. callers'[t] = IF callers[t].at = "picked"
                        THEN [callers[t] EXCEPT !.at = "abortedPicked"] ELSE Gone
      BY <1>1 DEF Abort
    <3>3. callers[t].at = "picked"
      BY <1>4, <2>1, <3>2 DEF Picked, Gone
    <3>4. callers'[t].on = callers[t].on
      BY <3>1, <3>2, <3>3 DEF CallerType
    <3> QED BY <1>4, <2>1, <3>3, <3>4 DEF Picked
  <2>2. CASE u # t
    BY <1>1, <1>4, <2>2 DEF Abort, Picked
  <2> QED BY <2>1, <2>2
<1> QED BY <1>1, <1>2, <1>3, <1>4, RegistryCalm

LEMMA ReportOwn ==
  ASSUME TInv, EInv, NEW t \in Tasks, ReportOutput(t)
  PROVE  EInv' /\ OutputStays
<1> DEFINE n == Len(processes)
           m == Len(terminals)
<1>1. /\ Types /\ callers' = callers /\ m \in Nat /\ n \in Nat
      /\ Terminals = 1..m /\ Processes = 1..n
      /\ \A x \in Terminals : terminals[x] \in TerminalType(n)
      /\ \A p \in Processes : processes[p] \in ProcessType(m, n)
      /\ \A p \in Processes : processes[p].term \in Terminals
  BY TypesGive DEF TInv, ReportOutput, Terminals, Processes
<1> DEFINE mine == {x \in Terminals : /\ ~terminals[x].closed
                                      /\ terminals[x].owner \in {t, NoTask}}
           read == UNION {terminals[x].kept : x \in mine}
                   \cup {terminals[x].process :
                           x \in {y \in mine : terminals[y].busy}}
<1>2. /\ processes' = [p \in Processes |->
           IF p \in read THEN [processes[p] EXCEPT !.unread = FALSE]
           ELSE processes[p]]
      /\ terminals' = [x \in Terminals |->
           IF x \in mine THEN [terminals[x] EXCEPT !.kept = {}]
           ELSE terminals[x]]
  BY DEF ReportOutput
<1>3. \A x \in mine : terminals[x].kept \subseteq read
  OBVIOUS
<1> HIDE DEF mine, read
<1>4. ASSUME NEW x \in Terminals
      PROVE  /\ terminals'[x] \in TerminalType(n)
             /\ terminals'[x].busy = terminals[x].busy
             /\ terminals'[x].process = terminals[x].process
             /\ terminals'[x].queue = terminals[x].queue
             /\ terminals'[x].current = terminals[x].current
             /\ x \notin mine => terminals'[x].kept = terminals[x].kept
  <2>1. terminals[x] \in TerminalType(n)
    BY <1>1
  <2> QED BY <1>2, <2>1 DEF TerminalType
<1>5. ASSUME NEW p \in Processes
      PROVE  /\ processes'[p] \in ProcessType(m, n)
             /\ processes'[p].term = processes[p].term
             /\ processes'[p].task = processes[p].task
             /\ processes'[p].told = processes[p].told
             /\ processes'[p].exit = processes[p].exit
             /\ processes'[p].phase = processes[p].phase
             /\ processes'[p].late = processes[p].late
             /\ processes'[p].unread => processes[p].unread
             /\ p \in read => ~processes'[p].unread
  <2>1. processes[p] \in ProcessType(m, n)
    BY <1>1
  <2> QED BY <1>2, <2>1 DEF ProcessType
<1>6. Terminals' = Terminals /\ Processes' = Processes
  <2>1. /\ terminals' \in [Terminals -> TerminalType(n)]
        /\ processes' \in [Processes -> ProcessType(m, n)]
    BY <1>2, <1>4, <1>5
  <2> QED BY <1>1, <2>1, IsSequence DEF Terminals, Processes
<1>7. \A u \in Tasks, x \in Terminals : Picked(u, x)' <=> Picked(u, x)
  BY <1>1 DEF Picked
<1>8. Calm
  BY <1>4, <1>5, <1>6, <1>7 DEF Calm
<1>9. \A x \in Terminals : QueueStays(x)
  BY <1>4 DEF QueueStays
<1>10. EInv'
  BY <1>8, <1>9, CalmKeeps
<1>11. OutputStays
  <2> SUFFICES ASSUME NEW p \in Processes, Reportable(p), processes'[p].unread
               PROVE  Reportable(p)'
    BY DEF OutputStays
  <2>1. /\ processes[p].term \in Terminals /\ processes'[p].term = processes[p].term
        /\ p \notin read
    BY <1>1, <1>5
  <2> DEFINE x == processes[p].term
  <2>2. CASE terminals[x].process = p
    BY <1>4, <2>1, <2>2 DEF Reportable
  <2>3. CASE p \in terminals[x].kept
    <3>1. x \notin mine
      BY <1>3, <2>1, <2>3
    <3> QED BY <1>4, <2>1, <2>3, <3>1 DEF Reportable
  <2> QED BY <2>2, <2>3 DEF Reportable
<1> QED BY <1>10, <1>11

\* OutputStays, with a name for the terminal of a process.
LEMMA OutputStaysIf ==
  ASSUME \A q \in Processes : processes'[q].term = processes[q].term,
         ASSUME NEW q \in Processes, processes[q].unread, Reportable(q),
                NEW y, y = processes[q].term, ~Shared(y)', ~CompletedLate(y)
         PROVE  Reportable(q)'
  PROVE  OutputStays
<1>1. ASSUME NEW q \in Processes, processes[q].unread, Reportable(q)
      PROVE  \/ Reportable(q)'
             \/ Shared(processes[q].term)' \/ CompletedLate(processes[q].term)
  <2>1. PICK y : y = processes[q].term
    OBVIOUS
  <2>2. y = processes'[q].term
    BY <2>1
  <2>3. Reportable(q)' \/ Shared(y)' \/ CompletedLate(y)
    BY <1>1, <2>1
  <2>4. Shared(y)' <=> Shared(processes[q].term)'
    BY <2>2 DEF Shared
  <2>5. CompletedLate(y) <=> CompletedLate(processes[q].term)
    BY <2>1 DEF CompletedLate
  <2> QED BY <2>3, <2>4, <2>5
<1> QED BY <1>1 DEF OutputStays

\* A new command in a terminal one task uses: the task waits for no other, so
\* what was in the slot has been given up, or the slot was empty.
LEMMA RunOwn ==
  ASSUME TInv, EInv, NEW t \in Tasks, RunCommand(t), NEW x, x = callers[t].on
  PROVE  EInv' /\ OutputStays
<1> DEFINE n == Len(processes)
           m == Len(terminals)
           p == n + 1
           new == NewProcess(t, x)
           r == [terminals[x] EXCEPT !.busy = TRUE, !.process = p]
           c == IF callers[t].at = "picked" THEN [at |-> "waiting", on |-> p] ELSE Gone
<1>1. /\ Types /\ m \in Nat /\ n \in Nat
      /\ Terminals = 1..m /\ Processes = 1..n
      /\ \A y \in Terminals : terminals[y] \in TerminalType(n)
      /\ \A q \in Processes : processes[q].term \in Terminals
      /\ terminals \in Seq(TerminalType(n)) /\ processes \in Seq(ProcessType(m, n))
      /\ callers \in [Tasks -> CallerType(m, n)]
      /\ DOMAIN terminals = Terminals
  BY TypesGive DEF TInv, Types, Terminals, Processes
<1>2. /\ processes' = Append(processes, new) /\ callers' = [callers EXCEPT ![t] = c]
      /\ callers[t].at \in {"picked", "abortedPicked"}
  BY DEF RunCommand
<1>3. x \in Terminals
  <2>1. callers[t] \in CallerType(m, n)
    BY <1>1
  <2> QED BY <1>1, <1>2, <2>1 DEF CallerType
<1>4. terminals' = [terminals EXCEPT ![x] = r]
  BY <1>1, <1>3 DEF RunCommand
<1>5. p \in 1..p /\ p \in Nat
  BY <1>1
<1>6. /\ r \in TerminalType(p) /\ r.process = p /\ r.busy = TRUE
      /\ r.queue = terminals[x].queue /\ r.current = terminals[x].current
      /\ r.kept = terminals[x].kept
  <2>1. terminals[x] \in TerminalType(p)
    BY <1>1, <1>3, TypesGrow
  <2> QED BY <1>5, <2>1 DEF TerminalType
<1>7. /\ new \in ProcessType(m, p) /\ new.term = x /\ new.task = t
      /\ new.phase = "shell" /\ new.told = FALSE /\ new.unread = FALSE
      /\ new.exit = None /\ new.late = FALSE
  BY <1>1, <1>3, <1>5 DEF NewProcess, ProcessType, Phases
<1>8. c.at \notin {"picked", "abortedPicked"}
  BY DEF Gone
<1> HIDE DEF new, r, c
<1>9. /\ Len(processes') = p
      /\ \A q \in Processes : processes'[q] = processes[q]
      /\ processes'[p] = new
  <2>1. processes \in Seq(ProcessType(m, p))
    BY <1>1, TypesGrow, SeqDef
  <2> QED BY <1>1, <1>2, <1>7, <2>1, AppendProperties
<1>10. /\ Len(terminals') = m
       /\ \A y \in Terminals : terminals'[y] = IF y = x THEN r ELSE terminals[y]
  <2>1. terminals \in Seq(TerminalType(p))
    BY <1>1, TypesGrow, SeqDef
  <2> QED BY <1>1, <1>3, <1>4, <1>6, <2>1, ExceptSeq
<1>11. /\ Terminals' = Terminals /\ Processes' = Processes \cup {p} /\ p \notin Processes
       /\ None \notin Processes' /\ ByHand \notin Processes'
  BY <1>1, <1>9, <1>10 DEF Terminals, Processes, None, ByHand
<1>12. Grows
  BY <1>9, <1>11 DEF Grows
<1>13. \A y \in Terminals : terminals[y].process \in Processes \cup {None}
  BY <1>1 DEF TerminalType
<1>14. \A q \in Processes : processes[q].task = t => processes[q].told
  BY <1>2, NoneHolds
<1>15. Picked(t, x)
  BY <1>2 DEF Picked
<1>16. \A u \in Tasks, y \in Terminals : Picked(u, y)' <=> u # t /\ Picked(u, y)
  BY <1>1, <1>2, <1>8 DEF Picked
<1>17. ASSUME ~Shared(x)'
       PROVE  \A q \in Processes : processes[q].term = x => processes[q].task = t
  <2>1. p \in Processes' /\ processes'[p].term = x /\ processes'[p].task = t
    BY <1>7, <1>9, <1>11
  <2>2. \A q \in Processes : q \in Processes' /\ processes'[q] = processes[q]
    BY <1>9, <1>11
  <2> QED BY <1>17, <2>1, <2>2 DEF Shared
<1>18. ASSUME ~Muddled(x)'
       PROVE  \/ terminals[x].process = None
              \/ /\ terminals[x].process \in Processes
                 /\ processes[terminals[x].process].phase = "gaveUp"
  <2>1. ~Muddled(x) /\ ~Shared(x)'
    BY <1>12, <1>18, Excused DEF Muddled
  <2>2. \A q \in Processes : processes[q].term = x => processes[q].task = t
    BY <1>17, <2>1
  <2> QED BY <1>3, <1>13, <1>15, <2>1, <2>2 DEF EInv, SlotIsLast
<1>19. Progress'
  <2>1. ASSUME NEW q \in Processes'
        PROVE  /\ processes'[q].told => processes'[q].phase \notin {"shell", "stream"}
               /\ processes'[q].unread => processes'[q].phase \in {"reading", "ending", "done"}
               /\ processes'[q].late => processes'[q].phase = "done"
    BY <1>7, <1>9, <1>11 DEF EInv, Progress
  <2>2. ASSUME NEW q \in Processes', NEW y \in Terminals, terminals'[y].process = q
        PROVE  processes'[q].exit = None
    <3>1. CASE q = p
      BY <1>7, <1>9, <3>1
    <3>2. CASE q # p
      <4>1. q \in Processes /\ terminals[y].process = q
        BY <1>6, <1>10, <1>11, <2>2, <3>2
      <4> QED BY <1>9, <4>1 DEF EInv, Progress
    <3> QED BY <3>1, <3>2
  <2> QED BY <1>11, <2>1, <2>2 DEF Progress
<1>20. ASSUME NEW y \in Terminals, ~Muddled(y)'
       PROVE  SlotIsLast(y)'
  <2>1. ~Muddled(y) /\ SlotIsLast(y)
    BY <1>12, <1>20, Excused DEF EInv
  <2>2. CASE y = x
    <3>1. terminals'[x].process = p /\ terminals'[x].busy
      BY <1>3, <1>6, <1>10
    <3>2. ASSUME NEW q \in Processes', processes'[q].term = x, q # p
          PROVE  processes'[q].told
      <4>1. ~Shared(x)'
        BY <1>20, <2>2 DEF Muddled
      <4>2. q \in Processes /\ processes'[q] = processes[q]
        BY <1>9, <1>11, <3>2
      <4> QED BY <1>14, <1>17, <3>2, <4>1, <4>2
    <3>3. ASSUME NEW u \in Tasks, Picked(u, x)'
          PROVE  \E q \in Processes' : processes'[q].term = x /\ processes'[q].task # u
      <4>1. u # t
        BY <1>3, <1>16, <3>3
      <4>2. p \in Processes' /\ processes'[p].term = x /\ processes'[p].task = t
        BY <1>7, <1>9, <1>11
      <4> QED BY <4>1, <4>2
    <3> QED BY <1>11, <2>2, <3>1, <3>2, <3>3 DEF SlotIsLast
  <2>3. CASE y # x
    <3>1. terminals'[y] = terminals[y] /\ processes'[p].term # y
      BY <1>7, <1>9, <1>10, <2>3
    <3>2. terminals[y].process \in Processes' => terminals[y].process \in Processes
      BY <1>11, <1>13
    <3>3. ASSUME terminals[y].process \in Processes
          PROVE  /\ \/ terminals[y].busy
                    \/ processes'[terminals[y].process].phase = "gaveUp"
                 /\ \A q \in Processes' :
                      processes'[q].term = y /\ q # terminals[y].process
                        => processes'[q].told
      BY <1>9, <1>11, <2>1, <3>1, <3>3 DEF SlotIsLast
    <3>4. ASSUME NEW u \in Tasks, Picked(u, y)'
          PROVE  \/ terminals[y].process = None
                 \/ processes'[terminals[y].process].phase = "gaveUp"
                 \/ \E q \in Processes' : processes'[q].term = y /\ processes'[q].task # u
      <4>1. Picked(u, y)
        BY <1>16, <3>4
      <4>2. \/ terminals[y].process = None
            \/ /\ terminals[y].process \in Processes
               /\ processes[terminals[y].process].phase = "gaveUp"
            \/ \E q \in Processes : processes[q].term = y /\ processes[q].task # u
        BY <1>13, <2>1, <4>1 DEF SlotIsLast
      <4> QED BY <1>9, <1>11, <4>2
    <3> QED BY <3>1, <3>2, <3>3, <3>4 DEF SlotIsLast
  <2> QED BY <2>2, <2>3
<1>21. ASSUME NEW y \in Terminals, ~Misled(y)'
       PROVE  QueueIsOwn(y)'
  <2>1. ~Misled(y) /\ QueueIsOwn(y)
    BY <1>12, <1>21, Excused DEF EInv
  <2>2. CASE y = x
    <3>1. terminals[x].process = None
      <4>1. ~Muddled(x)'
        BY <1>21, <2>2 DEF Misled
      <4>2. \A q \in Processes : processes[q].term = x => processes[q].phase # "gaveUp"
        BY <2>1, <2>2 DEF Misled
      <4>3. terminals[x].process \in Processes => processes[terminals[x].process].term = x
        BY <1>3 DEF TInv, SlotsAreOwn
      <4> QED BY <1>18, <4>1, <4>2, <4>3
    <3>2. None \notin Processes /\ p # None /\ p # ByHand
      BY <1>11
    <3>3. /\ terminals[x].current \in {None, ByHand}
          /\ \A k \in 1..Len(terminals[x].queue) : terminals[x].queue[k] = ByHand
          /\ \A q \in Processes : processes[q].term = x => processes[q].phase # "shell"
      BY <2>1, <2>2, <3>1, <3>2 DEF QueueIsOwn
    <3>4. /\ terminals'[x].process = p /\ terminals'[x].queue = terminals[x].queue
          /\ terminals'[x].current = terminals[x].current
      BY <1>3, <1>6, <1>10
    <3>5. \A q \in Processes' : processes'[q].term = x /\ processes'[q].phase = "shell"
                                  => q = p
      BY <1>9, <1>11, <3>3
    <3> QED BY <2>2, <3>2, <3>3, <3>4, <3>5 DEF QueueIsOwn
  <2>3. CASE y # x
    <3>1. terminals'[y] = terminals[y] /\ processes'[p].term # y
      BY <1>7, <1>9, <1>10, <2>3
    <3>2. terminals[y].process \in Processes' => terminals[y].process \in Processes
      BY <1>11, <1>13
    <3> QED BY <1>9, <1>11, <2>1, <3>1, <3>2 DEF QueueIsOwn
  <2> QED BY <2>2, <2>3
<1>22. ExitIsOwn'
  <2>1. ASSUME NEW q \in Processes', processes'[q].exit \in Processes' \ {q},
               NEW y, y = processes'[q].term
        PROVE  Misled(y)'
    <3>1. q \in Processes /\ processes'[q] = processes[q]
      BY <1>7, <1>9, <1>11, <2>1
    <3>2. processes[q].exit \in Processes \ {q}
      <4>1. processes[q] \in ProcessType(m, n)
        BY <1>1, <3>1, TypesGive
      <4>2. processes[q].exit \in Executions(n) \cup {None}
        BY <4>1 DEF ProcessType
      <4> QED BY <1>1, <1>11, <2>1, <3>1, <4>2 DEF Executions
    <3>3. Misled(y)
      BY <2>1, <3>1, <3>2, ExitsAreOwn DEF EInv
    <3> QED BY <1>12, <3>3, Excused
  <2> QED BY <2>1, ExitsStayOwn
<1>23. OutputStays
  <2>1. ASSUME NEW y, CompletedLate(y)'
        PROVE  CompletedLate(y)
    <3>1. PICK q \in Processes' : processes'[q].term = y /\ processes'[q].late
      BY <2>1 DEF CompletedLate
    <3>2. q \in Processes /\ processes'[q] = processes[q]
      BY <1>7, <1>9, <1>11, <3>1
    <3> QED BY <3>1, <3>2 DEF CompletedLate
  <2>2. ASSUME NEW q \in Processes, processes[q].unread, Reportable(q),
               NEW y, y = processes[q].term, ~Shared(y)', ~CompletedLate(y)
        PROVE  Reportable(q)'
    <3>1. y \in Terminals
      BY <1>1, <2>2
    <3>2. ~Muddled(y)'
      BY <2>1, <2>2 DEF Muddled
    <3>3. /\ processes'[q].term = y /\ terminals'[y].kept = terminals[y].kept
          /\ y # x => terminals'[y].process = terminals[y].process
      BY <1>6, <1>9, <1>10, <2>2, <3>1
    <3>4. ~(y = x /\ terminals[x].process = q)
      <4>1. processes[q].phase # "gaveUp" /\ q # None
        <5>1. processes[q].unread /\ Progress
          BY <2>2 DEF EInv
        <5>2. processes[q].phase \in {"reading", "ending", "done"}
          BY <2>2, <5>1 DEF Progress
        <5>3. q \in Processes'
          BY <1>11, <2>2
        <5> QED BY <1>11, <5>2, <5>3
      <4>2. y = x => ~Muddled(x)'
        BY <3>2 DEF Muddled, Shared, CompletedLate
      <4> QED BY <1>18, <4>1, <4>2
    <3> QED BY <2>2, <3>3, <3>4 DEF Reportable
  <2>3. \A q \in Processes : processes'[q].term = processes[q].term
    BY <1>9
  <2> QED BY <2>2, <2>3, OutputStaysIf
<1> QED BY <1>11, <1>19, <1>20, <1>21, <1>22, <1>23 DEF EInv

\* The start of a command of VS Code's queue.
LEMMA StartOwn ==
  ASSUME TInv, EInv, NEW x \in Terminals, ExecutionStarts(x)
  PROVE  EInv' /\ OutputStays
<1> DEFINE n == Len(processes)
           m == Len(terminals)
           s == terminals[x].process
           queue == terminals[x].queue
           d == [terminals[x] EXCEPT !.current = Head(queue),
                   !.queue = Tail(queue), !.running = (s # None)]
<1>1. /\ Types /\ terminals[x] \in TerminalType(n) /\ n \in Nat
      /\ \A p \in Processes : processes[p] \in ProcessType(m, n)
      /\ DOMAIN terminals = Terminals /\ callers' = callers
      /\ queue # <<>> /\ terminals[x].current = None
      /\ s \in Processes \cup {None} /\ Processes = 1..n
  BY TypesGive DEF TInv, ExecutionStarts, TerminalType, Processes
<1>2. /\ terminals' = [terminals EXCEPT ![x] = d]
      /\ processes' = [p \in Processes |->
           IF p = s /\ processes[p].phase = "stream"
           THEN [processes[p] EXCEPT !.phase = "reading"] ELSE processes[p]]
  <2>1. d = [terminals[x] EXCEPT !.current = Head(queue),
               !.queue = Tail(@), !.running = (s # None)]
    BY <1>1 DEF TerminalType
  <2> QED BY <1>1, <2>1 DEF ExecutionStarts
<1>3. /\ Head(queue) \in Executions(n) /\ Tail(queue) \in Seq(Executions(n))
      /\ Len(queue) \in Nat /\ Len(queue) >= 1 /\ Head(queue) = queue[1]
      /\ Len(Tail(queue)) = Len(queue) - 1
      /\ \A k \in 1..(Len(queue) - 1) : Tail(queue)[k] = queue[k + 1]
  <2>1. queue \in Seq(Executions(n))
    BY <1>1 DEF TerminalType
  <2>2. Len(queue) \in Nat /\ Len(queue) # 0
    BY <1>1, <2>1, LenProperties, EmptySeq
  <2>3. Head(queue) \in Executions(n) /\ Tail(queue) \in Seq(Executions(n))
    BY <1>1, <2>1, HeadTailProperties
  <2>4. Len(Tail(queue)) = Len(queue) - 1
    BY <1>1, <2>1, HeadTailProperties
  <2>5. \A k \in 1..(Len(queue) - 1) : Tail(queue)[k] = queue[k + 1]
    <3> HIDE DEF queue
    <3> QED BY <1>1, <2>1, <2>2, HeadTailProperties
  <2>6. Head(queue) = queue[1]
    BY <2>1
  <2> HIDE DEF queue
  <2> QED BY <2>2, <2>3, <2>4, <2>5, <2>6
<1> HIDE DEF queue
<1>4. /\ d \in TerminalType(n) /\ d.busy = terminals[x].busy
      /\ d.process = s /\ d.kept = terminals[x].kept
      /\ d.current = Head(queue) /\ d.queue = Tail(queue)
  BY <1>1, <1>3 DEF TerminalType
<1> HIDE DEF d
<1>5. /\ terminals' \in [Terminals -> TerminalType(n)]
      /\ \A y \in Terminals : terminals'[y] = IF y = x THEN d ELSE terminals[y]
  BY <1>1, <1>2, <1>4, TerminalSet
<1>6. ASSUME NEW p \in Processes
      PROVE  /\ processes'[p] \in ProcessType(m, n)
             /\ processes'[p].term = processes[p].term
             /\ processes'[p].task = processes[p].task
             /\ processes'[p].told = processes[p].told
             /\ processes'[p].exit = processes[p].exit
             /\ processes'[p].unread = processes[p].unread
             /\ processes'[p].late = processes[p].late
             /\ \/ processes'[p].phase = processes[p].phase
                \/ processes'[p].phase = "reading" /\ processes[p].phase = "stream"
  <2>1. processes[p] \in ProcessType(m, n)
    BY <1>1
  <2>2. CASE p = s /\ processes[p].phase = "stream"
    <3>1. processes'[p] = [processes[p] EXCEPT !.phase = "reading"]
      BY <1>2, <2>2
    <3> HIDE DEF s
    <3> QED BY <2>1, <2>2, <3>1 DEF ProcessType, Phases
  <2>3. CASE ~(p = s /\ processes[p].phase = "stream")
    BY <1>2, <2>1, <2>3
  <2> QED BY <2>2, <2>3
<1>7. Terminals' = Terminals /\ Processes' = Processes
  <2>1. processes' \in [Processes -> ProcessType(m, n)]
    BY <1>2, <1>6
  <2> QED BY <1>1, <1>5, <2>1, TypesKept DEF Types
<1>8. Calm
  <2>1. \A t \in Tasks, y \in Terminals : Picked(t, y)' <=> Picked(t, y)
    BY <1>1 DEF Picked
  <2>2. \A y \in Terminals : /\ terminals'[y].process = terminals[y].process
                             /\ terminals'[y].busy = terminals[y].busy
    BY <1>4, <1>5
  <2> QED BY <1>6, <1>7, <2>1, <2>2 DEF Calm
<1>9. ASSUME ~Misled(x)'
      PROVE  QueueIsOwn(x)'
  <2>1. QueueIsOwn(x)
    <3>1. Grows
      BY <1>8 DEF Calm, Grows
    <3> QED BY <1>9, <3>1, Excused DEF EInv
  <2>2. /\ terminals'[x].process = s /\ terminals'[x].queue = Tail(queue)
        /\ terminals'[x].current = Head(queue)
    BY <1>4, <1>5
  <2> DEFINE Own(k) == /\ queue[k] = s /\ s \in Processes
                       /\ processes[s].phase # "shell"
                       /\ \A j \in 1..Len(queue) : queue[j] = s => j = k
  <2>3. ASSUME NEW k \in 1..Len(queue)
        PROVE  queue[k] = ByHand \/ Own(k)
    BY <2>1, <2>3 DEF QueueIsOwn, queue
  <2>4. (s # ByHand /\ s # None) \/ s = None
    BY <1>1 DEF ByHand, None
  <2>5. 1 \in 1..Len(queue)
    BY <1>3
  <2>6. Head(queue) = ByHand \/ Own(1)
    BY <1>3, <2>3, <2>5
  <2>7. \A p \in Processes : processes'[p].phase = "shell" => processes[p].phase = "shell"
    BY <1>6
  <2>8. ASSUME NEW k \in 1..(Len(queue) - 1), queue[k + 1] # ByHand
        PROVE  /\ Tail(queue)[k] = s /\ s \in Processes
               /\ processes'[s].phase # "shell" /\ Head(queue) # s
               /\ \A j \in 1..(Len(queue) - 1) : Tail(queue)[j] = s => j = k
    <3>1. k + 1 \in 1..Len(queue) /\ Tail(queue)[k] = queue[k + 1]
      BY <1>3
    <3>2. Own(k + 1)
      BY <2>3, <2>8, <3>1
    <3> HIDE DEF s
    <3>3. queue[1] # s
      BY <1>3, <2>5, <3>2
    <3>4. ASSUME NEW j \in 1..(Len(queue) - 1), Tail(queue)[j] = s
          PROVE  j = k
      <4>1. j + 1 \in 1..Len(queue) /\ queue[j + 1] = s
        BY <1>3, <3>4
      <4>2. j + 1 = k + 1
        BY <3>2, <4>1
      <4> QED BY <4>2
    <3> QED BY <1>3, <2>7, <3>1, <3>2, <3>3, <3>4
  <2>9. \A p \in Processes : processes'[p].term = x /\ processes'[p].phase = "shell" => p = s
    BY <1>6, <2>1, <2>7 DEF QueueIsOwn
  <2>10. Head(queue) = s /\ s \in Processes => processes'[s].phase # "shell"
    BY <1>1, <2>4, <2>6, <2>7 DEF ByHand
  <2>11. \A k \in 1..(Len(queue) - 1) : Tail(queue)[k] = queue[k + 1]
    BY <1>3
  <2>12. ASSUME NEW k \in 1..Len(Tail(queue))
         PROVE  \/ Tail(queue)[k] = ByHand
                \/ /\ Tail(queue)[k] = s /\ s \in Processes
                   /\ processes'[s].phase # "shell" /\ Head(queue) # s
                   /\ \A j \in 1..Len(Tail(queue)) : Tail(queue)[j] = s => j = k
    BY <1>3, <2>8, <2>11
  <2>13. Head(queue) \in {None, ByHand, s}
    BY <2>6
  <2> HIDE DEF s
  <2> QED BY <1>7, <2>2, <2>9, <2>10, <2>12, <2>13 DEF QueueIsOwn
<1>10. \A y \in Terminals : QueueStays(y) \/ (~Misled(y)' => QueueIsOwn(y)')
  BY <1>5, <1>9 DEF QueueStays
<1>11. \A y \in Terminals : terminals[y].kept \subseteq terminals'[y].kept
  BY <1>4, <1>5
<1> QED BY <1>8, <1>10, <1>11, CalmKeeps, CalmKeepsOutput

\* The end e of a command is heard by the process s in the slot, and leaves
\* the terminal as d.
Hears(x, s, e, d) ==
  /\ s \in Processes /\ s = terminals[x].process
  /\ e = terminals[x].current /\ e # None
  /\ d \in TerminalType(Len(processes))
  /\ d.process = None /\ d.current = None /\ d.queue = terminals[x].queue
  /\ d.kept = IF processes[s].unread THEN terminals[x].kept \cup {s}
              ELSE terminals[x].kept
  /\ terminals' = [terminals EXCEPT ![x] = d]
  /\ processes' = [p \in Processes |->
       IF p = s THEN [processes[p] EXCEPT !.exit = e] ELSE processes[p]]
  /\ callers' = callers

LEMMA HeardOwn ==
  ASSUME TInv, EInv, NEW x \in Terminals, NEW s, NEW e, NEW d, Hears(x, s, e, d)
  PROVE  EInv' /\ OutputStays
<1> USE DEF Hears
<1> DEFINE n == Len(processes)
           m == Len(terminals)
<1>1. /\ Types /\ n \in Nat /\ Processes = 1..n
      /\ \A p \in Processes : processes[p] \in ProcessType(m, n)
      /\ terminals[x] \in TerminalType(n)
      /\ \A p \in Processes : processes[p].term \in Terminals
  BY TypesGive DEF TInv, Processes
<1>2. /\ processes[s].term = x /\ processes[s].exit = None
      /\ e \in Executions(n) /\ None \notin Processes /\ ByHand \notin Processes
  <2>1. e \in Executions(n)
    BY <1>1 DEF TerminalType
  <2>2. processes[s].term = x
    BY DEF TInv, SlotsAreOwn
  <2>3. processes[s].exit = None
    BY DEF EInv, Progress
  <2> QED BY <1>1, <2>1, <2>2, <2>3 DEF None, ByHand
<1>3. /\ terminals' \in [Terminals -> TerminalType(n)]
      /\ \A y \in Terminals : terminals'[y] = IF y = x THEN d ELSE terminals[y]
  BY <1>1, TerminalSet
<1>4. ASSUME NEW p \in Processes
      PROVE  /\ processes'[p] \in ProcessType(m, n)
             /\ processes'[p].term = processes[p].term
             /\ processes'[p].task = processes[p].task
             /\ processes'[p].told = processes[p].told
             /\ processes'[p].unread = processes[p].unread
             /\ processes'[p].late = processes[p].late
             /\ processes'[p].phase = processes[p].phase
             /\ processes'[p].exit = IF p = s THEN e ELSE processes[p].exit
  <2>1. processes[p] \in ProcessType(m, n)
    BY <1>1
  <2>2. CASE p = s
    <3>1. processes'[p] = [processes[p] EXCEPT !.exit = e]
      BY <2>2
    <3> QED BY <1>2, <2>1, <2>2, <3>1 DEF ProcessType, Executions
  <2>3. CASE p # s
    BY <2>1, <2>3
  <2> QED BY <2>2, <2>3
<1>5. Terminals' = Terminals /\ Processes' = Processes
  <2>1. processes' \in [Processes -> ProcessType(m, n)]
    BY <1>4
  <2> QED BY <1>1, <1>3, <2>1, TypesKept DEF Types
<1>6. Grows
  BY <1>2, <1>4, <1>5 DEF Grows, None, ByHand
<1>7. Progress'
  <2>1. ASSUME NEW p \in Processes
        PROVE  /\ processes'[p].told => processes'[p].phase \notin {"shell", "stream"}
               /\ processes'[p].unread => processes'[p].phase \in {"reading", "ending", "done"}
               /\ processes'[p].late => processes'[p].phase = "done"
    BY <1>4 DEF EInv, Progress
  <2>2. ASSUME NEW p \in Processes, NEW y \in Terminals, terminals'[y].process = p
        PROVE  processes'[p].exit = None
    <3>1. y # x /\ terminals[y].process = p
      BY <1>2, <1>3, <2>2
    <3>2. p # s
      BY <1>2, <3>1 DEF TInv, SlotsAreOwn
    <3> QED BY <1>4, <3>1, <3>2 DEF EInv, Progress
  <2> QED BY <1>5, <2>1, <2>2 DEF Progress
<1>8. ASSUME NEW y \in Terminals, ~Muddled(y)'
      PROVE  SlotIsLast(y)'
  <2>1. CASE y = x
    <3>1. terminals'[y].process = None
      BY <1>3, <2>1
    <3> QED BY <1>2, <1>5, <3>1 DEF SlotIsLast
  <2>2. CASE y # x
    <3>1. SlotIsLast(y)
      BY <1>6, <1>8, Excused DEF EInv
    <3>2. terminals'[y] = terminals[y]
      BY <1>3, <2>2
    <3>3. terminals[y].process \in Processes \/ terminals[y].process = None
      <4>1. terminals[y] \in TerminalType(n)
        BY <1>1, TypesGive
      <4> QED BY <1>1, <4>1 DEF TerminalType
    <3>4. ASSUME terminals[y].process \in Processes
          PROVE  /\ \/ terminals[y].busy
                    \/ processes'[terminals[y].process].phase = "gaveUp"
                 /\ \A q \in Processes :
                      processes'[q].term = y /\ q # terminals[y].process
                        => processes'[q].told
      BY <1>4, <3>1, <3>4 DEF SlotIsLast
    <3>5. ASSUME NEW t \in Tasks, Picked(t, y)'
          PROVE  \/ terminals[y].process = None
                 \/ processes'[terminals[y].process].phase = "gaveUp"
                 \/ \E q \in Processes : processes'[q].term = y /\ processes'[q].task # t
      <4>1. Picked(t, y)
        BY <3>5 DEF Picked
      <4>2. \/ terminals[y].process = None
            \/ /\ terminals[y].process \in Processes
               /\ processes[terminals[y].process].phase = "gaveUp"
            \/ \E q \in Processes : processes[q].term = y /\ processes[q].task # t
        BY <3>1, <3>3, <4>1 DEF SlotIsLast
      <4> QED BY <1>4, <4>2
    <3> QED BY <1>5, <3>2, <3>4, <3>5 DEF SlotIsLast
  <2> QED BY <2>1, <2>2
<1>9. ASSUME ~Misled(x)'
      PROVE  /\ e = s /\ processes[s].phase # "shell"
             /\ \A k \in 1..Len(terminals[x].queue) : terminals[x].queue[k] = ByHand
             /\ \A p \in Processes : processes[p].term = x => processes[p].phase # "shell"
  <2>1. QueueIsOwn(x)
    BY <1>6, <1>9, Excused DEF EInv
  <2>2. e # ByHand
    <3>1. s \in Processes' /\ processes'[s].term = x /\ processes'[s].exit = e
      BY <1>2, <1>4, <1>5
    <3> QED BY <1>9, <3>1 DEF Misled
  <2>3. e = s
    BY <2>1, <2>2 DEF QueueIsOwn
  <2> QED BY <1>2, <2>1, <2>3 DEF QueueIsOwn
<1>10. ASSUME NEW y \in Terminals, ~Misled(y)'
       PROVE  QueueIsOwn(y)'
  <2>1. CASE y = x
    <3>1. /\ terminals'[y].process = None /\ terminals'[y].current = None
          /\ terminals'[y].queue = terminals[x].queue
      BY <1>3, <2>1
    <3>2. ~Misled(x)'
      BY <1>10, <2>1 DEF Misled, Muddled, Shared, CompletedLate
    <3>3. \A p \in Processes : ~(processes'[p].term = y /\ processes'[p].phase = "shell")
      BY <1>4, <1>9, <2>1, <3>2
    <3>4. \A k \in 1..Len(terminals[x].queue) : terminals[x].queue[k] = ByHand
      BY <1>9, <3>2
    <3> QED BY <1>2, <1>5, <3>1, <3>3, <3>4 DEF QueueIsOwn
  <2>2. CASE y # x
    <3>1. QueueIsOwn(y)
      BY <1>6, <1>10, Excused DEF EInv
    <3>2. QueueStays(y) /\ terminals'[y].process = terminals[y].process
      BY <1>3, <2>2 DEF QueueStays
    <3>3. \A p \in Processes :
            /\ processes'[p].term = processes[p].term
            /\ processes'[p].phase = "shell" => processes[p].phase = "shell"
      BY <1>4
    <3> QED BY <1>5, <3>1, <3>2, <3>3, QueueKept
  <2> QED BY <2>1, <2>2
<1>11. ExitIsOwn'
  <2>1. ASSUME NEW q \in Processes', processes'[q].exit \in Processes' \ {q},
               NEW y, y = processes'[q].term
        PROVE  Misled(y)'
    <3>1. q \in Processes /\ y = processes[q].term
      BY <1>4, <1>5, <2>1
    <3>2. CASE q = s
      <4>1. y = x /\ e # s
        BY <1>2, <1>4, <1>5, <2>1, <3>1, <3>2
      <4>2. Misled(x)'
        BY <1>9, <4>1
      <4> QED BY <4>1, <4>2 DEF Misled, Muddled, Shared, CompletedLate
    <3>3. CASE q # s
      <4>1. processes[q].exit \in Processes \ {q}
        BY <1>4, <1>5, <2>1, <3>1, <3>3
      <4>2. Misled(y)
        BY <3>1, <4>1, ExitsAreOwn DEF EInv
      <4> QED BY <1>6, <4>2, Excused
    <3> QED BY <3>2, <3>3
  <2> QED BY <2>1, ExitsStayOwn
<1>12. OutputStays
  <2>1. ASSUME NEW q \in Processes, processes[q].unread, Reportable(q),
               NEW y, y = processes[q].term
        PROVE  Reportable(q)'
    <3>1. processes'[q].term = y /\ y \in Terminals
      BY <1>1, <1>4, <2>1
    <3>2. CASE y = x
      <4>1. terminals'[y].kept = d.kept
        BY <1>3, <3>2
      <4>2. q = s \/ q \in terminals[x].kept
        BY <2>1, <3>2 DEF Reportable
      <4>3. q \in d.kept
        BY <2>1, <4>2
      <4> QED BY <3>1, <4>1, <4>3 DEF Reportable
    <3>3. CASE y # x
      <4>1. terminals'[y] = terminals[y]
        BY <1>3, <3>1, <3>3
      <4> QED BY <2>1, <3>1, <4>1 DEF Reportable
    <3> QED BY <3>2, <3>3
  <2>2. \A q \in Processes : processes'[q].term = processes[q].term
    BY <1>4
  <2> QED BY <2>1, <2>2, OutputStaysIf
<1> QED BY <1>5, <1>7, <1>8, <1>10, <1>11, <1>12 DEF EInv

\* The end of a command, heard or not.
LEMMA EndOwn ==
  ASSUME TInv, EInv, NEW x \in Terminals, ExecutionEnds(x)
  PROVE  EInv' /\ OutputStays
<1> DEFINE n == Len(processes)
           s == terminals[x].process
           e == terminals[x].current
           heard == terminals[x].running /\ s # None
           kept == IF processes[s].unread THEN terminals[x].kept \cup {s}
                   ELSE terminals[x].kept
           rest == [terminals[x] EXCEPT !.current = None]
           all == [rest EXCEPT !.running = FALSE, !.busy = FALSE,
                     !.process = None, !.kept = kept]
<1>1. /\ Types /\ terminals[x] \in TerminalType(n) /\ n \in Nat
      /\ DOMAIN terminals = Terminals /\ Processes = 1..n
  BY TypesGive DEF TInv, Processes
<1>2. /\ terminals' = [terminals EXCEPT ![x] = IF heard THEN all ELSE rest]
      /\ processes' = [p \in Processes |->
           IF heard /\ p = s THEN [processes[p] EXCEPT !.exit = e]
           ELSE processes[p]]
      /\ e # None /\ callers' = callers
  <2>1. [rest EXCEPT !.running = FALSE, !.busy = FALSE, !.process = None,
           !.kept = IF processes[s].unread THEN @ \cup {s} ELSE @] = all
    <3>1. rest.kept = terminals[x].kept
      BY <1>1 DEF TerminalType
    <3> HIDE DEF rest
    <3> QED BY <3>1
  <2> QED BY <1>1, <2>1 DEF ExecutionEnds, Ended
<1>3. s \in Processes \cup {None} /\ terminals[x].kept \subseteq Processes
  BY <1>1 DEF TerminalType
<1>4. /\ rest \in TerminalType(n) /\ rest.process = s /\ rest.current = None
      /\ rest.queue = terminals[x].queue /\ rest.busy = terminals[x].busy
      /\ rest.kept = terminals[x].kept
  BY <1>1 DEF TerminalType, Executions
<1>5. CASE heard
  <2>1. s \in Processes /\ kept \in SUBSET (1..n)
    BY <1>1, <1>3, <1>5
  <2> HIDE DEF kept, rest
  <2>2. /\ all \in TerminalType(n) /\ all.process = None /\ all.current = None
        /\ all.queue = terminals[x].queue /\ all.kept = kept
    BY <1>4, <2>1 DEF TerminalType
  <2>3. /\ terminals' = [terminals EXCEPT ![x] = all]
        /\ processes' = [p \in Processes |->
             IF p = s THEN [processes[p] EXCEPT !.exit = e] ELSE processes[p]]
    BY <1>2, <1>5
  <2>4. all.kept = IF processes[s].unread THEN terminals[x].kept \cup {s}
                   ELSE terminals[x].kept
    BY <2>2 DEF kept
  <2> HIDE DEF all, s, e, heard
  <2>5. s = terminals[x].process /\ e = terminals[x].current
    BY DEF s, e
  <2>6. PICK slot, end, next : slot = s /\ end = e /\ next = all
    OBVIOUS
  <2>7. /\ slot \in Processes /\ next \in TerminalType(Len(processes))
        /\ slot = terminals[x].process /\ end = terminals[x].current
        /\ end # None /\ next.process = None /\ next.current = None
        /\ next.queue = terminals[x].queue
        /\ next.kept = IF processes[slot].unread THEN terminals[x].kept \cup {slot}
                       ELSE terminals[x].kept
    BY <1>2, <2>1, <2>2, <2>4, <2>5, <2>6
  <2>8. /\ terminals' = [terminals EXCEPT ![x] = next]
        /\ processes' = [p \in Processes |->
             IF p = slot THEN [processes[p] EXCEPT !.exit = end] ELSE processes[p]]
        /\ callers' = callers
    BY <1>2, <2>3, <2>6
  <2>9. Hears(x, slot, end, next)
    BY <2>7, <2>8 DEF Hears
  <2> QED BY <2>9, HeardOwn
<1>6. CASE ~heard
  <2> HIDE DEF rest
  <2>1. /\ terminals' \in [Terminals -> TerminalType(n)]
        /\ \A y \in Terminals : terminals'[y] = IF y = x THEN rest ELSE terminals[y]
    BY <1>1, <1>2, <1>4, <1>6, TerminalSet
  <2>2. \A p \in Processes : processes'[p] = processes[p]
    BY <1>2, <1>6
  <2>3. Terminals' = Terminals /\ Processes' = Processes
    <3>1. processes' \in [Processes -> ProcessType(Len(terminals), n)]
      <4>1. \A p \in Processes : processes[p] \in ProcessType(Len(terminals), n)
        BY <1>1, TypesGive
      <4> HIDE DEF heard
      <4> QED BY <1>2, <1>6, <4>1
    <3> QED BY <1>1, <1>2, <2>1, <3>1, TypesKept DEF Types
  <2>4. \A t \in Tasks, y \in Terminals : Picked(t, y)' <=> Picked(t, y)
    BY <1>2 DEF Picked
  <2>5. \A y \in Terminals : /\ terminals'[y].process = terminals[y].process
                             /\ terminals'[y].busy = terminals[y].busy
                             /\ terminals'[y].kept = terminals[y].kept
                             /\ terminals'[y].queue = terminals[y].queue
    BY <1>4, <2>1
  <2>6. Calm
    BY <2>2, <2>3, <2>4, <2>5 DEF Calm
  <2>7. ASSUME ~Misled(x)'
        PROVE  QueueIsOwn(x)'
    <3>1. QueueIsOwn(x)
      <4>1. Grows
        BY <2>6 DEF Calm, Grows
      <4> QED BY <2>7, <4>1, Excused DEF EInv
    <3>2. terminals'[x].current = None /\ None \notin Processes
      BY <1>1, <1>4, <2>1 DEF None
    <3>3. /\ terminals'[x].process = terminals[x].process
          /\ terminals'[x].queue = terminals[x].queue
      BY <2>5
    <3> QED BY <2>2, <2>3, <3>1, <3>2, <3>3 DEF QueueIsOwn
  <2>8. \A y \in Terminals : QueueStays(y) \/ (~Misled(y)' => QueueIsOwn(y)')
    BY <2>1, <2>7 DEF QueueStays
  <2> QED BY <2>5, <2>6, <2>8, CalmKeeps, CalmKeepsOutput
<1> QED BY <1>5, <1>6

\* All steps of a terminal.
LEMMA TerminalStepOwn ==
  ASSUME TInv, EInv, NEW x \in Terminals, TerminalStep(x)
  PROVE  EInv' /\ OutputStays
<1> DEFINE n == Len(processes)
<1>1. /\ Types /\ terminals[x] \in TerminalType(n) /\ DOMAIN terminals = Terminals
      /\ terminals \in Seq(TerminalType(n))
  BY TypesGive DEF TInv, Types
<1>2. CASE TypeByHand(x)
  <2> DEFINE queue == Append(terminals[x].queue, ByHand)
             d == [terminals[x] EXCEPT !.queue = queue]
  <2>1. terminals[x].queue = <<>> /\ ByHand \in Executions(n)
    BY <1>2 DEF TypeByHand, Executions
  <2>2. /\ queue \in Seq(Executions(n)) /\ Len(queue) = 1 /\ queue[1] = ByHand
    <3>1. terminals[x].queue \in Seq(Executions(n)) /\ Len(terminals[x].queue) = 0
      BY <1>1, <2>1, EmptySeq DEF TerminalType
    <3>2. queue \in Seq(Executions(n))
      BY <2>1, <3>1, AppendProperties
    <3>3. Len(queue) = Len(terminals[x].queue) + 1
      BY <2>1, <3>1, AppendProperties
    <3>4. queue[Len(terminals[x].queue) + 1] = ByHand
      BY <2>1, <3>1, AppendProperties
    <3> HIDE DEF queue
    <3> QED BY <3>1, <3>2, <3>3, <3>4
  <2>3. /\ processes' = processes /\ callers' = callers
        /\ terminals' = [terminals EXCEPT ![x] = d]
    BY <1>1, <1>2 DEF TypeByHand
  <2> HIDE DEF queue
  <2>4. /\ d \in TerminalType(n) /\ d.busy = terminals[x].busy
        /\ d.process = terminals[x].process /\ d.kept = terminals[x].kept
        /\ d.queue = queue /\ d.current = terminals[x].current
    BY <1>1, <2>2 DEF TerminalType
  <2> HIDE DEF d
  <2>5. /\ terminals' \in [Terminals -> TerminalType(n)]
        /\ \A y \in Terminals : terminals'[y] = IF y = x THEN d ELSE terminals[y]
    BY <1>1, <2>3, <2>4, TerminalSet
  <2>6. Terminals' = Terminals /\ Processes' = Processes
    BY <1>1, <2>3, <2>5, NothingSet, TypesKept DEF Types
  <2>7. \A t \in Tasks, y \in Terminals : Picked(t, y)' <=> Picked(t, y)
    BY <2>3 DEF Picked
  <2>8. \A y \in Terminals : /\ terminals'[y].process = terminals[y].process
                             /\ terminals'[y].busy = terminals[y].busy
                             /\ terminals'[y].kept = terminals[y].kept
    BY <2>4, <2>5
  <2>9. Calm
    BY <2>3, <2>6, <2>7, <2>8 DEF Calm
  <2>10. ASSUME ~Misled(x)'
         PROVE  QueueIsOwn(x)'
    <3>1. QueueIsOwn(x)
      <4>1. Grows
        BY <2>9 DEF Calm, Grows
      <4> QED BY <2>10, <4>1, Excused DEF EInv
    <3>2. terminals'[x].queue = queue /\ terminals'[x].current = terminals[x].current
      BY <2>4, <2>5
    <3>3. \A k \in 1..Len(queue) : queue[k] = ByHand
      BY <2>2
    <3> QED BY <2>3, <2>6, <2>8, <3>1, <3>2, <3>3 DEF QueueIsOwn
  <2>11. \A y \in Terminals : QueueStays(y) \/ (~Misled(y)' => QueueIsOwn(y)')
    BY <2>5, <2>10 DEF QueueStays
  <2> QED BY <2>8, <2>9, <2>11, CalmKeeps, CalmKeepsOutput
<1>3. CASE Close(x)
  <2> DEFINE d == [terminals[x] EXCEPT !.closed = TRUE]
  <2>1. /\ d \in TerminalType(n) /\ d.busy = terminals[x].busy
        /\ d.process = terminals[x].process /\ d.kept = terminals[x].kept
        /\ d.queue = terminals[x].queue /\ d.current = terminals[x].current
    BY <1>1 DEF TerminalType
  <2>2. /\ processes' = processes /\ callers' = callers
        /\ terminals' = [terminals EXCEPT ![x] = d]
    BY <1>1, <1>3 DEF Close
  <2> HIDE DEF d
  <2>3. /\ terminals' \in [Terminals -> TerminalType(n)]
        /\ \A y \in Terminals : terminals'[y] = IF y = x THEN d ELSE terminals[y]
    BY <1>1, <2>1, <2>2, TerminalSet
  <2>4. Terminals' = Terminals
    BY <1>1, <2>2, <2>3, NothingSet, TypesKept DEF Types
  <2>5. \A t \in Tasks, y \in Terminals : Picked(t, y)' <=> Picked(t, y)
    BY <2>2 DEF Picked
  <2>6. \A y \in Terminals :
          /\ terminals'[y].process = terminals[y].process
          /\ terminals'[y].busy = terminals[y].busy
          /\ terminals'[y].queue = terminals[y].queue
          /\ terminals'[y].current = terminals[y].current
          /\ terminals'[y].kept = terminals[y].kept
    BY <2>1, <2>3
  <2> QED BY <2>2, <2>4, <2>5, <2>6, RegistryCalm
<1> QED BY <1>2, <1>3, StartOwn, EndOwn DEF TerminalStep

-----------------------------------------------------------------------------
(* The theorems.                                                           *)

LEMMA TerminalsInit == Init => TInv
<1> SUFFICES ASSUME Init PROVE TInv
  OBVIOUS
<1>1. /\ Len(terminals) = 0 /\ Len(processes) = 0
      /\ Terminals = {} /\ Processes = {}
  BY EmptySeq DEF Init, Terminals, Processes
<1>2. Types
  <2>1. [at |-> "idle", on |-> None] \in CallerType(0, 0)
    BY DEF CallerType
  <2>2. callers \in [Tasks -> CallerType(0, 0)]
    BY <2>1 DEF Init
  <2>3. /\ terminals \in Seq(TerminalType(Len(processes)))
        /\ processes \in Seq(ProcessType(Len(terminals), Len(processes)))
    BY EmptySeq DEF Init
  <2> QED BY <1>1, <2>2, <2>3 DEF Types
<1> QED BY <1>1, <1>2 DEF TInv, BusyHasAReason, Waiters, SlotsAreOwn, EndWillBeHeard

LEMMA TerminalsStep == TInv /\ [Next]_vars => TInv'
<1> SUFFICES ASSUME TInv, [Next]_vars PROVE TInv'
  OBVIOUS
<1>1. ASSUME NEW t \in Tasks, TaskStep(t) PROVE TInv'
  BY <1>1, PickKeeps, RunKeeps, AbortKeeps, ReportKeeps DEF TaskStep
<1>2. CASE UNCHANGED vars
  <2>1. Gentle
    BY <1>2 DEF Gentle, vars
  <2> QED BY <1>2, <2>1, NothingSet, StepKeeps DEF TInv, vars
<1> QED BY <1>1, <1>2, ProcessStepKeeps, TerminalStepKeeps DEF Next

\* The inductive invariant of the terminals: types, a task waits for the
\* command that holds it, a slot holds a command of its own terminal, and the
\* two properties below.
THEOREM TerminalsInvariant == Spec => []TInv
BY TerminalsInit, TerminalsStep, PTL DEF Spec

\* Type correctness of the registry, the processes and their callers.
THEOREM TypeCorrect == Spec => []TypeOK
BY TerminalsInvariant, TypesImplyTypeOK, PTL DEF TInv

\* However the commands of several tasks, timeouts, aborts and VS Code's events
\* are interleaved, a terminal is busy only while the command started in it
\* last is not completed: no terminal is busy for ever after its command.
THEOREM NoneBusyForNothing == Spec => []BusyHasAReason
BY TerminalsInvariant, PTL DEF TInv

\* A command its task waits for, in an open terminal only this task uses, is
\* never put out of the slot before it has heard of its end.
THEOREM EndsAreHeard == Spec => []EndWillBeHeard
BY TerminalsInvariant, PTL DEF TInv

\* The facts about ends and output hold at the start, and every step keeps them.
LEMMA OwnInit == Init => EInv
<1> SUFFICES ASSUME Init PROVE EInv
  OBVIOUS
<1>1. Terminals = {} /\ Processes = {}
  BY EmptySeq DEF Init, Terminals, Processes
<1> QED BY <1>1 DEF EInv, Progress, ExitIsOwn

LEMMA OwnStep == TInv /\ EInv /\ [Next]_vars => EInv' /\ [OutputStays]_vars
<1> SUFFICES ASSUME TInv, EInv, [Next]_vars PROVE EInv' /\ (OutputStays \/ vars' = vars)
  OBVIOUS
<1>1. ASSUME NEW t \in Tasks, TaskStep(t) PROVE EInv' /\ OutputStays
  <2>1. ASSUME RunCommand(t) PROVE EInv' /\ OutputStays
    <3>1. PICK x : x = callers[t].on
      OBVIOUS
    <3> QED BY <2>1, <3>1, RunOwn
  <2> QED BY <1>1, <2>1, PickOwn, AbortOwn, ReportOwn DEF TaskStep
<1>2. ASSUME NEW p \in Processes, ProcessStep(p) PROVE EInv' /\ OutputStays
  <2>1. PICK x : x = processes[p].term
    OBVIOUS
  <2> QED BY <1>2, <2>1, ProcessStepOwn
<1>3. CASE UNCHANGED vars
  <2>1. /\ processes' = processes /\ terminals' = terminals /\ callers' = callers
        /\ Terminals' = Terminals
    BY <1>3 DEF vars, Terminals
  <2>2. \A t \in Tasks, y \in Terminals : Picked(t, y)' <=> Picked(t, y)
    BY <2>1 DEF Picked
  <2> QED BY <2>1, <2>2, RegistryCalm
<1> QED BY <1>1, <1>2, <1>3, TerminalStepOwn DEF Next

\* The inductive invariant of ends and output: in a terminal one task uses, the
\* slot belongs to the last command and is overwritten only after that command
\* was given up; while nothing typed or given up misleads it, what VS Code has
\* to run there for the tasks is the command in the slot, once.
THEOREM OwnershipInvariant == Spec => [](TInv /\ EInv)
<1>1. TInv /\ EInv /\ [Next]_vars => (TInv /\ EInv)'
  BY TerminalsStep, OwnStep
<1> QED BY <1>1, TerminalsInit, OwnInit, PTL DEF Spec

\* A command hears the exit code of its own execution and of no other, unless
\* its terminal is shared, has seen a late completion, a command that was given
\* up, or one that took the end of a command typed by hand.
THEOREM ExitsAreTheirOwn == Spec => []ExitIsOwn
BY OwnershipInvariant, PTL DEF EInv

\* No step takes unread output out of what a later report would include but the
\* report itself, in a terminal not shared and without late completions.
THEOREM OutputStaysReportable == Spec => OutputIsKept
<1>1. OutputIsKept <=> [][OutputStays]_vars
  BY DEF OutputIsKept, OutputStays
<1> QED BY <1>1, OwnershipInvariant, OwnStep, PTL DEF Spec
=============================================================================
