--------------------------- MODULE RequestLoop_proof ---------------------------
(***************************************************************************)
(* Proofs about RequestLoop: for every bound on the message, every set of  *)
(* tools and every mistake limit, two presenters never run together, the   *)
(* next request never starts while one runs, and the wait between the two  *)
(* is never for a wakeup that was lost.  With that, every tool use of a    *)
(* message gets its answer, the mistakes stay within their limit, and no   *)
(* tool starts after a rejection or after another tool's result.           *)
(***************************************************************************)
EXTENDS RequestLoop, SequenceTheorems, TLAPS

(* A streaming state t with the presenters ps, whenever no code runs.      *)

\* Only the last block is open, and the index is at most one past the end.
Shape(t) ==
  /\ t \in TurnType
  /\ Len(t.blocks) <= MaxBlocks
  /\ t.index <= Len(t.blocks) + 1
  /\ \A b \in 1..Len(t.blocks) : t.blocks[b].partial => b = Len(t.blocks)
  /\ t.completed => \A b \in 1..Len(t.blocks) : ~t.blocks[b].partial

\* The presenter, if any, works on the block at the index; readiness excludes it.
Holds(t, ps) ==
  /\ ps \subseteq PresenterType
  /\ \A p, q \in ps : p = q
  /\ \A p \in ps : /\ p.epoch = epoch
                   /\ p.block = t.index
                   /\ t.index <= Len(t.blocks)
                   /\ ~p.partial => ~t.blocks[t.index].partial
  /\ t.ready => ps = {} /\ t.index > Len(t.blocks)

\* Nothing that has arrived is left waiting: the lock is taken by a presenter,
\* which knows when its copy is out of date, and without a presenter there is
\* only an open block to wait for, or nothing, and then the flag is up.
Settled(t, ps) ==
  /\ t.locked <=> ps # {}
  /\ \A p \in ps : p.partial /\ ~t.blocks[t.index].partial => t.pending
  /\ ~t.locked /\ t.index <= Len(t.blocks) => t.blocks[t.index].partial
  /\ ~t.locked /\ t.index > Len(t.blocks) /\ t.blocks # <<>> => t.ready

IInv ==
  /\ TypeOK
  /\ Shape(turn)
  /\ Holds(turn, presenters)
  /\ ~aborted => Settled(turn, presenters)
  /\ detached => aborted
  /\ phase \in {"streaming", "ended"} => ~turn.completed
  /\ phase = "waitReady" => turn.completed
  /\ phase \in {"start", "mistakeAsk"} /\ ~aborted => presenters = {}

\* Only a late result can interrupt a message before its first block, and only
\* then is there something to wait for without one.
CInv ==
  turn.blocks = <<>> =>
    /\ Skipping(turn) => cut
    /\ phase = "ended" => Skipping(turn)
    /\ phase = "waitReady" => cut

-----------------------------------------------------------------------------

\* What a call of presentAssistantMessage leaves alone.
Kept(u, t) ==
  /\ u.blocks = t.blocks /\ u.completed = t.completed
  /\ u.rejected = t.rejected /\ u.used = t.used

\* A call of presentAssistantMessage in a consistent streaming state settles it:
\* it takes the lock, leaves a note for the one who has it, or skips the rest.
LEMMA CallSettles ==
  ASSUME LoopAssumption, epoch \in {0, 1}, NEW t, NEW ps,
         Shape(t), Holds(t, ps), t.locked <=> ps # {},
         ~t.locked /\ t.index > Len(t.blocks) /\ t.blocks # <<>>
           => t.ready \/ t.completed
  PROVE  /\ Shape(Presented(t))
         /\ Holds(Presented(t), ps \cup Launched(t))
         /\ Settled(Presented(t), ps \cup Launched(t))
         /\ Kept(Presented(t), t)
<1> DEFINE n == Len(t.blocks)
           qs == ps \cup Launched(t)
<1>0. /\ t \in TurnType /\ n \in Nat /\ n <= MaxBlocks /\ MaxBlocks \in Nat
      /\ \A b \in 1..n : t.blocks[b] \in BlockType
  BY DEF Shape, TurnType, LoopAssumption
<1>1. CASE t.locked
  <2>1. Presented(t) = [t EXCEPT !.pending = TRUE] /\ Launched(t) = {}
    BY <1>1 DEF Presented, Launched
  <2>2. /\ Presented(t) \in TurnType /\ Kept(Presented(t), t)
        /\ Presented(t).index = t.index /\ Presented(t).ready = t.ready
        /\ Presented(t).locked /\ Presented(t).pending
    BY <1>0, <1>1, <2>1 DEF TurnType, Kept
  <2> QED BY <1>0, <1>1, <2>1, <2>2 DEF Shape, Holds, Settled, Kept
<1>2. CASE ~t.locked /\ t.index > n
  <2>1. /\ Presented(t) = [t EXCEPT !.pending = FALSE, !.ready = @ \/ t.completed]
        /\ Launched(t) = {}
    BY <1>0, <1>2 DEF Presented, Launched, TurnType
  <2>2. /\ Presented(t) \in TurnType /\ Kept(Presented(t), t)
        /\ Presented(t).index = t.index
        /\ Presented(t).ready = (t.ready \/ t.completed)
        /\ ~Presented(t).locked
    BY <1>0, <1>2, <2>1 DEF TurnType, Kept
  <2>3. ps = {}
    BY <1>0, <1>2 DEF TurnType
  <2> QED BY <1>0, <1>2, <2>1, <2>2, <2>3 DEF Shape, Holds, Settled, Kept, TurnType
<1>3. CASE ~t.locked /\ t.index <= n /\ Skipping(t)
  <2>1. Presented(t) = SkipRest(t) /\ Launched(t) = {}
    BY <1>0, <1>3 DEF Presented, Launched, TurnType
  <2> DEFINE as == [b \in 1..MaxBlocks |->
                      IF b \in t.index..Len(t.blocks) /\ IsTool(b)
                      THEN t.answers[b] \cup {"skipped"} ELSE t.answers[b]]
             no == FALSE
             yes == TRUE
             end == Len(t.blocks) + 1
  <2>2. SkipRest(t) \in TurnType
    <3>1. t.answers \in [1..MaxBlocks -> SUBSET {"result", "skipped", "feedback"}]
      BY <1>0 DEF TurnType
    <3>2. as \in [1..MaxBlocks -> SUBSET {"result", "skipped", "feedback"}]
      BY <3>1
    <3>3. SkipRest(t) = [t EXCEPT !.pending = no, !.index = end,
                                  !.ready = yes, !.answers = as]
      BY DEF SkipRest
    <3>4. no \in BOOLEAN /\ yes \in BOOLEAN /\ end \in Nat \ {0}
      BY <1>0
    <3> HIDE DEF as, no, yes, end
    <3> QED BY <1>0, <3>2, <3>3, <3>4 DEF TurnType
  <2>3. /\ SkipRest(t).index = n + 1 /\ SkipRest(t).ready /\ ~SkipRest(t).locked
        /\ Kept(SkipRest(t), t)
    BY <1>0, <1>3 DEF SkipRest, TurnType, Kept
  <2> QED BY <1>0, <1>3, <2>1, <2>2, <2>3 DEF Shape, Holds, Settled, Kept, TurnType
<1>4. CASE ~t.locked /\ t.index <= n /\ ~Skipping(t)
  <2> DEFINE p == [epoch |-> epoch, block |-> t.index,
                   kind |-> t.blocks[t.index].kind,
                   partial |-> t.blocks[t.index].partial,
                   at |-> IF IsTool(t.index) THEN "check" ELSE "say"]
  <2>1. Presented(t) = [t EXCEPT !.locked = TRUE, !.pending = FALSE]
    BY <1>0, <1>4 DEF Presented, TurnType
  <2>2. ps = {} /\ Launched(t) = {p}
    BY <1>0, <1>4 DEF Launched, TurnType
  <2>3. p \in PresenterType
    BY <1>0, <1>4 DEF PresenterType, TurnType, BlockType
  <2>4. ~t.ready
    BY <1>0, <1>4 DEF Holds, TurnType
  <2>5. Presented(t) \in TurnType /\ Kept(Presented(t), t)
        /\ Presented(t).index = t.index /\ Presented(t).locked
        /\ ~Presented(t).ready /\ ~Presented(t).pending
    BY <1>0, <2>1, <2>4 DEF TurnType, Kept
  <2> HIDE DEF p
  <2>6. Shape(Presented(t))
    BY <1>0, <2>5 DEF Shape, Kept
  <2>7. qs = {p}
    BY <2>2
  <2>8. p.epoch = epoch /\ p.block = t.index /\ p.partial = t.blocks[t.index].partial
    BY DEF p
  <2>9. Holds(Presented(t), qs)
    BY <1>0, <1>4, <2>3, <2>5, <2>7, <2>8 DEF Holds, Kept
  <2>10. Settled(Presented(t), qs)
    BY <1>0, <1>4, <2>3, <2>5, <2>7, <2>8 DEF Settled, Kept
  <2> QED BY <2>5, <2>6, <2>9, <2>10
<1> QED BY <1>0, <1>1, <1>2, <1>3, <1>4 DEF TurnType

\* t is the streaming state as a handler leaves it: an answer may have been
\* added and a tool counted as used or rejected.
Touched(t) ==
  /\ t \in TurnType
  /\ t.blocks = turn.blocks /\ t.index = turn.index
  /\ t.completed = turn.completed /\ t.ready = turn.ready
  /\ t.locked = turn.locked /\ t.pending = turn.pending

\* When a presenter is done, the streaming state is settled again, even if
\* blocks arrived meanwhile: it goes on itself, or has told the reader.
LEMMA FinishSettles ==
  ASSUME LoopAssumption, IInv, NEW p \in presenters, NEW t, Touched(t),
         Finish(p, t), UNCHANGED <<epoch, aborted>>
  PROVE  /\ Shape(turn)'
         /\ Holds(turn, presenters)'
         /\ ~aborted => Settled(turn, presenters)'
         /\ turn'.blocks = turn.blocks /\ turn'.completed = turn.completed
         /\ aborted => presenters' = {}
<1> DEFINE moves == ~p.partial \/ Skipping(t)
           no == FALSE
           r == t.ready \/ (moves /\ t.index = Len(t.blocks))
           i == IF moves THEN t.index + 1 ELSE t.index
           u == [t EXCEPT !.locked = no, !.ready = r, !.index = i]
           n == Len(turn.blocks)
<1>0. /\ t \in TurnType /\ turn \in TurnType /\ n \in Nat /\ n <= MaxBlocks
      /\ turn.index \in Nat \ {0} /\ turn.index <= n /\ ~turn.ready
      /\ p \in PresenterType /\ presenters = {p} /\ aborted \in BOOLEAN
      /\ epoch \in {0, 1}
  BY DEF IInv, TypeOK, Holds, Touched, TurnType
<1>1. (~p.partial => ~turn.blocks[turn.index].partial)
  BY DEF IInv, Holds
<1>3. moves \in BOOLEAN
  BY <1>0 DEF PresenterType, Skipping, TurnType
<1>2. /\ u \in TurnType
      /\ u.blocks = turn.blocks /\ u.completed = turn.completed
      /\ ~u.locked
      /\ u.ready <=> (moves /\ turn.index = n)
      /\ u.index = IF moves THEN turn.index + 1 ELSE turn.index
      /\ u.pending = turn.pending
  <2>1. no \in BOOLEAN /\ r \in BOOLEAN /\ i \in Nat \ {0} /\ ~no
    BY <1>0, <1>3 DEF Touched
  <2>2. /\ r <=> (moves /\ turn.index = n)
        /\ i = IF moves THEN turn.index + 1 ELSE turn.index
    BY <1>0 DEF Touched
  <2> HIDE DEF no, r, i
  <2> QED BY <1>0, <2>1, <2>2 DEF Touched, TurnType
<1>4. \/ CallPresent(u, presenters \ {p})
      \/ /\ ~((moves /\ u.index <= Len(u.blocks)) \/ u.pending)
         /\ turn' = u /\ presenters' = presenters \ {p}
  BY DEF Finish
<1>5. Shape(turn)
  BY DEF IInv
<1> HIDE DEF u, moves
<1>6. Shape(u)
  BY <1>0, <1>2, <1>3, <1>5 DEF Shape
<1>7. Holds(u, {})
  BY <1>0, <1>2, <1>3 DEF Holds
<1>8. presenters \ {p} = {}
  BY <1>0
<1>9. CASE aborted
  <2>1. turn' = u /\ presenters' = {}
    BY <1>4, <1>8, <1>9 DEF CallPresent
  <2> QED BY <1>2, <1>6, <1>7, <1>9, <2>1 DEF Shape, Holds
<1>10. CASE ~aborted /\ CallPresent(u, presenters \ {p})
  <2>1. turn' = Presented(u) /\ presenters' = {} \cup Launched(u)
    BY <1>8, <1>10 DEF CallPresent
  <2>2. u.index > Len(u.blocks) /\ u.blocks # <<>> => u.ready \/ u.completed
    BY <1>0, <1>2, <1>3
  <2>3. /\ Shape(Presented(u))
        /\ Holds(Presented(u), {} \cup Launched(u))
        /\ Settled(Presented(u), {} \cup Launched(u))
        /\ Kept(Presented(u), u)
    BY <1>0, <1>2, <1>6, <1>7, <2>2, CallSettles
  <2> QED BY <1>2, <1>10, <2>1, <2>3 DEF Shape, Holds, Settled, Kept
<1>11. CASE /\ ~aborted
            /\ ~((moves /\ u.index <= Len(u.blocks)) \/ u.pending)
            /\ turn' = u /\ presenters' = presenters \ {p}
  <2>1. Settled(turn, presenters)
    BY <1>11 DEF IInv
  <2>2. ~moves => turn.blocks[turn.index].partial
    <3>1. ~moves => p.partial /\ ~turn.pending
      BY <1>0, <1>2, <1>11 DEF moves, PresenterType
    <3> QED BY <1>0, <2>1, <3>1 DEF Settled
  <2>3. Settled(u, {})
    BY <1>0, <1>2, <1>3, <1>11, <2>2 DEF Settled
  <2> QED BY <1>2, <1>6, <1>7, <1>8, <1>11, <2>3 DEF Shape, Holds, Settled
<1> QED BY <1>0, <1>4, <1>9, <1>10, <1>11

-----------------------------------------------------------------------------
(* The steps, by the way they change the streaming state.                  *)

\* Adding an answer, or counting the tool as used, touches nothing else.
LEMMA AnswersTouch ==
  ASSUME LoopAssumption, TypeOK, NEW b \in 1..MaxBlocks,
         NEW what \in {"result", "skipped", "feedback"}
  PROVE  Touched(turn) /\ Touched(Answered(turn, b, what)) /\ Touched(Result(turn, b))
<1>1. Touched(turn)
  BY DEF Touched, TypeOK
<1>2. ASSUME NEW w \in {"result", "skipped", "feedback"}
      PROVE  Touched(Answered(turn, b, w))
  <2> DEFINE as == [turn.answers EXCEPT ![b] = @ \cup {w}]
  <2>1. as \in [1..MaxBlocks -> SUBSET {"result", "skipped", "feedback"}]
    BY DEF TypeOK, TurnType
  <2>2. Answered(turn, b, w) = [turn EXCEPT !.answers = as]
    BY DEF Answered, TypeOK, TurnType
  <2> HIDE DEF as
  <2> QED BY <2>1, <2>2 DEF Touched, TypeOK, TurnType
<1>3. Touched(Result(turn, b))
  BY <1>2 DEF Result, Touched, TurnType
<1> QED BY <1>1, <1>2, <1>3

\* A step that ends a presenter and leaves the reader where it is.
LEMMA FinishStep ==
  ASSUME LoopAssumption, IInv, NEW p \in presenters, NEW t, Touched(t),
         Finish(p, t), PresenterFrame,
         late' \subseteq [epoch : {0, 1}, block : 1..MaxBlocks],
         UNCHANGED <<ran, cut>>, mistakes' \in Nat
  PROVE  IInv' /\ turn'.blocks = turn.blocks
<1>1. /\ Shape(turn)' /\ Holds(turn, presenters)'
      /\ ~aborted => Settled(turn, presenters)'
      /\ turn'.blocks = turn.blocks /\ turn'.completed = turn.completed
      /\ aborted => presenters' = {}
  BY FinishSettles DEF PresenterFrame
<1>2. TypeOK'
  BY <1>1 DEF IInv, TypeOK, Shape, Holds, PresenterFrame
<1>3. aborted \/ phase \notin {"start", "mistakeAsk"}
  BY DEF IInv
<1> QED BY <1>1, <1>2, <1>3 DEF IInv, PresenterFrame

\* A step in which a presenter goes on in its handler.
LEMMA MovesStep ==
  ASSUME LoopAssumption, IInv, NEW p \in presenters,
         NEW at \in {"check", "ask", "ignored", "run", "save", "final"}, NEW t,
         presenters' = (presenters \ {p}) \cup {[p EXCEPT !.at = at]},
         Touched(t), turn' = t, PresenterFrame, UNCHANGED cut,
         late' \subseteq [epoch : {0, 1}, block : 1..MaxBlocks],
         ran' \subseteq 1..MaxBlocks, mistakes' \in Nat
  PROVE  IInv' /\ turn'.blocks = turn.blocks
<1> DEFINE q == [p EXCEPT !.at = at]
<1>1. p \in PresenterType
  BY DEF IInv, Holds
<1>2. /\ q \in PresenterType
      /\ q.epoch = p.epoch /\ q.block = p.block /\ q.partial = p.partial
  BY <1>1 DEF PresenterType
<1>3. presenters = {p} /\ presenters' = {q}
  BY DEF IInv, Holds
<1> HIDE DEF q
<1>4. Shape(turn)' /\ Holds(turn, presenters)'
  BY <1>2, <1>3 DEF IInv, Shape, Holds, Touched, PresenterFrame
<1>5. ~aborted => Settled(turn, presenters)'
  BY <1>2, <1>3 DEF IInv, Settled, Touched
<1>6. TypeOK'
  BY <1>4 DEF IInv, TypeOK, Shape, Holds, PresenterFrame, Touched
<1>7. aborted \/ phase \notin {"start", "mistakeAsk"}
  BY <1>3 DEF IInv
<1> QED BY <1>4, <1>5, <1>6, <1>7 DEF IInv, PresenterFrame, Touched

\* A step in which a handler returns: the presenter ends, or waits for the
\* checkpoint.
LEMMA ReturnsStep ==
  ASSUME LoopAssumption, IInv, NEW p \in presenters, NEW t, Touched(t),
         Returns(p, t), PresenterFrame,
         late' \subseteq [epoch : {0, 1}, block : 1..MaxBlocks],
         UNCHANGED <<ran, cut>>, mistakes' \in Nat
  PROVE  IInv' /\ turn'.blocks = turn.blocks
<1>1. CASE Finish(p, t)
  BY <1>1, FinishStep
<1>2. CASE /\ presenters' = (presenters \ {p}) \cup {[p EXCEPT !.at = "save"]}
           /\ turn' = t
  <2>1. ran' \subseteq 1..MaxBlocks
    BY DEF IInv, TypeOK
  <2> QED BY <1>2, <2>1, MovesStep
<1> QED BY <1>1, <1>2 DEF Returns

\* Every step of a presenter.
LEMMA PresenterStep ==
  ASSUME LoopAssumption, IInv, NEW p \in presenters, Presenter(p)
  PROVE  IInv' /\ turn'.blocks = turn.blocks
<1> DEFINE b == p.block
<1>0. /\ p \in PresenterType /\ b \in 1..MaxBlocks /\ TypeOK
      /\ presenters = {p} /\ mistakes \in Nat /\ turn \in TurnType
      /\ late \subseteq [epoch : {0, 1}, block : 1..MaxBlocks]
      /\ ran \subseteq 1..MaxBlocks /\ turn.index <= Len(turn.blocks)
      /\ Len(turn.blocks) \in Nat /\ turn.index \in Nat \ {0}
      /\ Len(turn.blocks) <= MaxBlocks /\ MaxBlocks \in Nat
  BY DEF IInv, TypeOK, Holds, PresenterType, TurnType, LoopAssumption
<1>1. Touched(turn) /\ Touched(Result(turn, b)) /\ Touched(Answered(turn, b, "feedback"))
  BY <1>0, AnswersTouch
<1>2. \A r \in BOOLEAN : Touched([Result(turn, b) EXCEPT !.rejected = r])
  BY <1>1 DEF Touched, TurnType
<1>3. CASE TextSaid(p) \/ PartialToolShown(p) \/ WriteSilently(p) \/ Saved(p)
  BY <1>0, <1>1, <1>3, FinishStep DEF TextSaid, PartialToolShown, WriteSilently, Saved
<1>4. CASE Concludes(p)
  <2>1. mistakes' \in Nat
    BY <1>0, <1>4 DEF Concludes
  <2> QED BY <1>0, <1>1, <1>4, <2>1, ReturnsStep DEF Concludes, EndsWithResult
<1>5. CASE AsksApproval(p) \/ OffersCompletion(p) \/ RunsUnasked(p)
  <2>1. /\ mistakes' \in Nat /\ ran' \subseteq 1..MaxBlocks
        /\ UNCHANGED <<late, cut>> /\ PresenterFrame
        /\ \E at \in {"ask", "run", "final"} : MovesTo(p, at)
    <3>1. CASE AsksApproval(p)
      BY <1>0, <3>1 DEF AsksApproval
    <3>2. CASE OffersCompletion(p)
      BY <1>0, <3>2 DEF OffersCompletion
    <3>3. CASE RunsUnasked(p)
      BY <1>0, <3>3 DEF RunsUnasked
    <3> QED BY <1>5, <3>1, <3>2, <3>3
  <2> QED BY <1>0, <1>1, <2>1, MovesStep DEF MovesTo
<1>6. CASE Approved(p)
  <2>1. /\ mistakes' \in Nat /\ ran' \subseteq 1..MaxBlocks
        /\ UNCHANGED <<late, cut>> /\ PresenterFrame
        /\ turn' = turn \/ turn' = Result(turn, b)
    BY <1>0, <1>6 DEF Approved
  <2>2. presenters' = (presenters \ {p}) \cup {[p EXCEPT !.at = "run"]}
    BY <1>6 DEF Approved
  <2> QED BY <1>0, <1>1, <2>1, <2>2, MovesStep
<1>7. CASE Rejected(p)
  <2>1. \E r \in BOOLEAN : Finish(p, [Result(turn, b) EXCEPT !.rejected = r])
    <3>1. Result(turn, b).rejected \in BOOLEAN
      BY <1>1 DEF Touched, TurnType
    <3> DEFINE r == Result(turn, b).rejected \/ p.kind # "insert"
    <3>2. r \in BOOLEAN /\ Finish(p, [Result(turn, b) EXCEPT !.rejected = r])
      BY <1>7 DEF Rejected
    <3> QED BY <3>2
  <2> QED BY <1>0, <1>2, <1>7, <2>1, FinishStep DEF Rejected
<1>8. CASE RunDone(p)
  <2>1. CASE MovesTo(p, "final")
    BY <1>0, <1>1, <1>8, <2>1, MovesStep DEF RunDone, MovesTo
  <2>2. CASE EndsWithResult(p)
    BY <1>0, <1>1, <1>8, <2>2, ReturnsStep DEF RunDone, EndsWithResult
  <2> QED BY <1>8, <2>1, <2>2 DEF RunDone
<1>9. CASE CommandFeedback(p)
  BY <1>0, <1>2, <1>9, FinishStep DEF CommandFeedback
<1>10. CASE CompletionAccepted(p) \/ CompletionFeedback(p)
  BY <1>0, <1>1, <1>10, FinishStep, ReturnsStep
    DEF CompletionAccepted, CompletionFeedback, EndsWithResult
<1>11. CASE FinishSubTask(p)
  <2> DEFINE no == FALSE
             i == turn.index + 1
             r == turn.ready \/ turn.index = Len(turn.blocks)
             u == [turn EXCEPT !.locked = no, !.ready = r, !.index = i]
  <2>1. no \in BOOLEAN /\ r \in BOOLEAN /\ i \in Nat \ {0}
        /\ (r => turn.index = Len(turn.blocks))
    BY <1>0 DEF IInv, Holds, TurnType
  <2>2. turn' = u /\ presenters' = {} /\ aborted' = TRUE
    BY <1>0, <1>11 DEF FinishSubTask
  <2> HIDE DEF no, r
  <2>3. /\ u \in TurnType /\ u.blocks = turn.blocks /\ u.completed = turn.completed
        /\ u.index = turn.index + 1 /\ u.ready = r
    BY <1>0, <2>1 DEF TurnType
  <2> HIDE DEF u
  <2>4. Shape(turn)' /\ Holds(turn, presenters)'
    BY <1>0, <2>1, <2>2, <2>3 DEF IInv, Shape, Holds
  <2> QED BY <1>0, <1>11, <2>2, <2>3, <2>4
        DEF IInv, TypeOK, Shape, Holds, FinishSubTask
<1>12. CASE ToolFails(p)
  <2>1. \/ Returns(p, turn)
        \/ Returns(p, Result(turn, b))
    BY <1>12 DEF ToolFails, EndsWithResult
  <2>2. late' \subseteq [epoch : {0, 1}, block : 1..MaxBlocks]
    BY <1>0, <1>12 DEF ToolFails, PresenterType
  <2> QED BY <1>0, <1>1, <1>12, <2>1, <2>2, ReturnsStep DEF ToolFails
<1>13. CASE DiesOfAbort(p)
  BY <1>0, <1>13 DEF DiesOfAbort, PresenterFrame, IInv, TypeOK, Holds, Shape
<1> QED BY <1>3, <1>4, <1>5, <1>6, <1>7, <1>8, <1>9, <1>10, <1>11, <1>12, <1>13
      DEF Presenter

-----------------------------------------------------------------------------
(* The steps of the reader.                                                *)

\* Blocks are added at the end, and only the new last one may be open.
LEMMA ParsedShape ==
  ASSUME LoopAssumption, Shape(turn), NEW n \in 1..MaxBlocks, NEW open \in BOOLEAN,
         Grows(turn.blocks, n, open), NEW kinds \in [NewTools(turn.blocks, n) -> Tools]
  PROVE  /\ Parsed(turn.blocks, n, kinds, open) \in Seq(BlockType)
         /\ Len(Parsed(turn.blocks, n, kinds, open)) = n
         /\ \A b \in 1..n :
              Parsed(turn.blocks, n, kinds, open)[b].partial <=> open /\ b = n
<1> DEFINE old == turn.blocks
           kd(b) == IF b <= Len(old) THEN old[b].kind
                    ELSE IF IsTool(b) THEN kinds[b] ELSE "text"
           s == Parsed(old, n, kinds, open)
<1>0. n \in Nat /\ old \in Seq(BlockType) /\ Len(old) \in Nat
  BY DEF Shape, TurnType, LoopAssumption
<1>1. \A b \in 1..n : kd(b) \in ToolKinds \cup {"text"}
  <2> TAKE b \in 1..n
  <2>1. CASE b <= Len(old)
    <3>1. old[b] \in BlockType
      BY <1>0, <2>1, ElementOfSeq
    <3> QED BY <1>0, <2>1, <3>1 DEF BlockType
  <2>2. CASE b > Len(old) /\ IsTool(b)
    BY <1>0, <2>2 DEF NewTools, LoopAssumption
  <2>3. CASE b > Len(old) /\ ~IsTool(b)
    BY <1>0, <2>3
  <2> QED BY <1>0, <2>1, <2>2, <2>3
<1> DEFINE pt(b) == open /\ b = n
<1>2. s = [b \in 1..n |-> [kind |-> kd(b), partial |-> pt(b)]]
  BY DEF Parsed
<1>3. \A b \in 1..n : pt(b) \in BOOLEAN /\ (pt(b) <=> open /\ b = n)
  OBVIOUS
<1> HIDE DEF kd, pt
<1>4. \A b \in 1..n : [kind |-> kd(b), partial |-> pt(b)] \in BlockType
  BY <1>1, <1>3 DEF BlockType
<1>5. s \in [1..n -> BlockType] /\ \A b \in 1..n : s[b].partial = pt(b)
  BY <1>2, <1>4
<1>6. s \in Seq(BlockType) /\ Len(s) = n
  BY <1>0, <1>2, <1>4
<1> HIDE DEF s
<1>7. \A b \in 1..n : s[b].partial <=> open /\ b = n
  BY <1>3, <1>5
<1> QED BY <1>6, <1>7 DEF s

\* The streaming state after a chunk has been parsed.
LEMMA ChunkShape ==
  ASSUME LoopAssumption, IInv, ~turn.completed,
         NEW n \in 1..MaxBlocks, NEW open \in BOOLEAN,
         Grows(turn.blocks, n, open), NEW kinds \in [NewTools(turn.blocks, n) -> Tools],
         NEW t, t = Read(turn, n, kinds, open)
  PROVE  /\ Shape(t) /\ Holds(t, presenters)
         /\ t.locked = turn.locked /\ t.index = turn.index
         /\ t.completed = turn.completed
         /\ t.blocks # <<>>
         /\ ~aborted /\ t.index > Len(t.blocks) => t.ready
<1> DEFINE s == Parsed(turn.blocks, n, kinds, open)
           r == turn.ready /\ n = Len(turn.blocks)
<1>0. /\ turn \in TurnType /\ n \in Nat /\ Len(turn.blocks) \in Nat
      /\ n >= Len(turn.blocks) /\ turn.index \in Nat \ {0} /\ n > 0
      /\ turn.index <= Len(turn.blocks) + 1 /\ MaxBlocks \in Nat /\ n <= MaxBlocks
      /\ n = Len(turn.blocks) => turn.blocks[n].partial
      /\ presenters \subseteq PresenterType /\ turn.locked \in BOOLEAN
  BY DEF IInv, Holds, Shape, TurnType, LoopAssumption, Grows
<1>1. /\ s \in Seq(BlockType) /\ Len(s) = n
      /\ \A b \in 1..n : s[b].partial <=> open /\ b = n
  BY ParsedShape DEF IInv
<1>2. r \in BOOLEAN /\ (r <=> turn.ready /\ n = Len(turn.blocks))
  BY <1>0 DEF TurnType
<1>3. t = [turn EXCEPT !.blocks = s, !.ready = r]
  BY <1>0 DEF TurnType, Read
<1> HIDE DEF s, r
<1>4. /\ t \in TurnType /\ t.blocks = s /\ t.ready = r
      /\ t.locked = turn.locked /\ t.index = turn.index
      /\ t.completed = turn.completed
  BY <1>0, <1>1, <1>2, <1>3 DEF TurnType
<1>5. Shape(t)
  BY <1>0, <1>1, <1>4 DEF Shape
<1>6. Holds(t, presenters)
  BY <1>0, <1>1, <1>2, <1>4 DEF IInv, Holds
<1>7. t.blocks # <<>>
  <2>1. Len(<<>>) = 0
    OBVIOUS
  <2> QED BY <1>0, <1>1, <1>4, <2>1
<1>8. ~aborted /\ t.index > Len(t.blocks) => t.ready
  <2> SUFFICES ASSUME ~aborted, t.index > Len(t.blocks)
               PROVE  t.ready
    OBVIOUS
  <2>1. n = Len(turn.blocks) /\ turn.index > Len(turn.blocks) /\ turn.blocks # <<>>
    BY <1>0, <1>1, <1>4
  <2>2. presenters = {}
    BY <2>1, <1>0 DEF IInv, Holds
  <2>3. turn.ready
    BY <2>1, <2>2 DEF IInv, Settled
  <2> QED BY <1>2, <1>4, <2>1, <2>3
<1> QED BY <1>4, <1>5, <1>6, <1>7, <1>8

LEMMA ChunkStep ==
  ASSUME LoopAssumption, IInv, Chunk
  PROVE  IInv' /\ turn'.blocks # <<>>
<1>1. PICK n \in 1..MaxBlocks, open \in BOOLEAN :
        /\ Grows(turn.blocks, n, open)
        /\ \E kinds \in [NewTools(turn.blocks, n) -> Tools] :
             CallPresent(Read(turn, n, kinds, open), presenters)
  BY DEF Chunk
<1>2. PICK kinds \in [NewTools(turn.blocks, n) -> Tools] :
        CallPresent(Read(turn, n, kinds, open), presenters)
  BY <1>1
<1> DEFINE t == Read(turn, n, kinds, open)
<1>3. /\ phase = "streaming" /\ ~turn.completed
      /\ phase' \in {"stopped", "ended", "streaming"}
      /\ UNCHANGED <<epoch, late, ran, cut, mistakes, aborted, detached, checkpointed>>
      /\ epoch \in {0, 1}
  BY DEF Chunk, AfterChunk, IInv, TypeOK
<1>4. /\ Shape(t) /\ Holds(t, presenters)
      /\ t.locked = turn.locked /\ t.index = turn.index
      /\ t.completed = turn.completed /\ t.blocks # <<>>
      /\ ~aborted /\ t.index > Len(t.blocks) => t.ready
  BY <1>1, <1>3, ChunkShape
<1> HIDE DEF t
<1>5. /\ Shape(turn)' /\ Holds(turn, presenters)'
      /\ ~aborted => Settled(turn, presenters)'
      /\ turn'.completed = turn.completed /\ turn'.blocks # <<>>
  <2>1. CASE aborted
    <3>1. turn' = t /\ presenters' = presenters
      BY <1>2, <2>1 DEF CallPresent, t
    <3> QED BY <1>3, <1>4, <2>1, <3>1 DEF Shape, Holds
  <2>2. CASE ~aborted
    <3>1. turn' = Presented(t) /\ presenters' = presenters \cup Launched(t)
      BY <1>2, <2>2 DEF CallPresent, t
    <3>2. t.locked <=> presenters # {}
      BY <1>4, <2>2 DEF IInv, Settled
    <3>3. /\ Shape(Presented(t))
          /\ Holds(Presented(t), presenters \cup Launched(t))
          /\ Settled(Presented(t), presenters \cup Launched(t))
          /\ Kept(Presented(t), t)
      BY <1>3, <1>4, <2>2, <3>2, CallSettles
    <3> QED BY <1>3, <1>4, <3>1, <3>3 DEF Shape, Holds, Settled, Kept
  <2> QED BY <2>1, <2>2
<1>6. TypeOK'
  BY <1>3, <1>5 DEF IInv, TypeOK, Shape, Holds, Phases
<1> QED BY <1>3, <1>5, <1>6 DEF IInv

\* A say() of somebody else only moves a presenter's ask to where it throws.
LEMMA SupersededHolds ==
  ASSUME LoopAssumption, IInv, presenters' = Superseded(presenters),
         UNCHANGED <<turn, epoch>>
  PROVE  /\ Holds(turn, presenters)'
         /\ ~aborted => Settled(turn, presenters)'
         /\ presenters = {} => presenters' = {}
<1> DEFINE f(p) == [p EXCEPT !.at = IF @ \in {"ask", "final"} THEN "ignored" ELSE @]
<1>1. \A p \in presenters : /\ f(p) \in PresenterType
                            /\ f(p).epoch = p.epoch /\ f(p).block = p.block
                            /\ f(p).partial = p.partial
  BY DEF IInv, Holds, PresenterType
<1>2. presenters' = {f(p) : p \in presenters}
  BY DEF Superseded
<1> HIDE DEF f
<1>3. presenters' = {} <=> presenters = {}
  BY <1>2
<1>4. Holds(turn, presenters)'
  BY <1>1, <1>2, <1>3 DEF IInv, Holds
<1>5. ~aborted => Settled(turn, presenters)'
  BY <1>1, <1>2, <1>3 DEF IInv, Settled
<1> QED BY <1>3, <1>4, <1>5

\* The end of the stream completes the last block and presents it if it was open.
LEMMA FinishReadingStep ==
  ASSUME LoopAssumption, IInv, CInv, FinishReading
  PROVE  IInv' /\ CInv'
<1> DEFINE n == Len(turn.blocks)
           no == FALSE
           yes == TRUE
           s == [b \in 1..n |-> [kind |-> turn.blocks[b].kind, partial |-> no]]
           t == [turn EXCEPT !.completed = yes, !.blocks = s]
<1>0. /\ turn \in TurnType /\ n \in Nat /\ turn.index \in Nat \ {0}
      /\ turn.blocks \in Seq(BlockType) /\ mistakes \in Nat
      /\ n <= MaxBlocks /\ turn.index <= n + 1 /\ MaxBlocks \in Nat
      /\ phase \in {"streaming", "ended"} /\ epoch \in {0, 1} /\ aborted \in BOOLEAN
      /\ UNCHANGED <<epoch, late, ran, cut, aborted, detached, checkpointed>>
  BY DEF FinishReading, IInv, TypeOK, Shape, TurnType, LoopAssumption
<1>1. no \in BOOLEAN /\ ~no /\ yes \in BOOLEAN /\ yes
  OBVIOUS
<1>2. \/ aborted /\ LoopEnds /\ UNCHANGED <<turn, presenters, mistakes>>
      \/ /\ ~aborted /\ ~HasText
         /\ turn' = t /\ phase' = "start" /\ mistakes' = mistakes + 1
         /\ UNCHANGED presenters
      \/ /\ ~aborted /\ HasText
         /\ IF \E b \in 1..n : turn.blocks[b].partial
            THEN CallPresent(t, presenters)
            ELSE turn' = t /\ UNCHANGED presenters
         /\ phase' = "waitReady" /\ UNCHANGED mistakes
  BY <1>0 DEF FinishReading
<1> HIDE DEF no, yes
<1>3. \A b \in 1..n : turn.blocks[b] \in BlockType
  BY <1>0, ElementOfSeq
<1>4. \A b \in 1..n : [kind |-> turn.blocks[b].kind, partial |-> no] \in BlockType
  BY <1>1, <1>3 DEF BlockType
<1>5. /\ s \in Seq(BlockType) /\ Len(s) = n
      /\ \A b \in 1..n : s[b].partial = no
  BY <1>0, <1>4
<1> HIDE DEF s
<1>6. /\ t \in TurnType /\ t.blocks = s /\ t.completed
      /\ t.index = turn.index /\ t.ready = turn.ready
      /\ t.locked = turn.locked /\ t.pending = turn.pending
  BY <1>0, <1>1, <1>5 DEF TurnType
<1> HIDE DEF t
<1>7. Shape(t)
  BY <1>0, <1>1, <1>5, <1>6 DEF Shape
<1>8. Holds(t, presenters)
  BY <1>0, <1>1, <1>5, <1>6 DEF IInv, Holds
<1>20. /\ n = 0 <=> turn.blocks = <<>>
       /\ t.rejected = turn.rejected /\ t.used = turn.used
  BY <1>0, EmptySeq DEF TurnType, t
<1>9. CASE aborted
  BY <1>0, <1>2, <1>9 DEF IInv, CInv, Skipping, TypeOK, Shape, Holds, LoopEnds, Phases
<1>10. CASE ~aborted /\ n = 0
  <2>1. /\ turn' = t /\ presenters' = presenters /\ mistakes' \in Nat
        /\ phase' = "start" \/ (phase = "ended" /\ phase' = "waitReady")
    <3>1. ~ \E b \in 1..n : turn.blocks[b].partial
      BY <1>10
    <3> QED BY <1>0, <1>2, <1>10, <1>20, <3>1 DEF HasText
  <2>2. presenters = {}
    BY <1>0, <1>10 DEF IInv, Holds
  <2>3. Len(<<>>) = 0 /\ s = <<>>
    BY <1>5, <1>10, EmptySeq
  <2>4. Settled(t, presenters)
    BY <1>0, <1>5, <1>6, <1>10, <2>2, <2>3 DEF IInv, Settled
  <2>5. IInv'
    BY <1>0, <1>6, <1>7, <1>8, <1>10, <2>1, <2>2, <2>4
      DEF IInv, TypeOK, Shape, Holds, Settled, Phases
  <2>6. CInv'
    BY <1>0, <1>10, <1>20, <2>1 DEF CInv, Skipping
  <2> QED BY <2>5, <2>6
<1>11. CASE ~aborted /\ n # 0
  <2>0. /\ phase' = "waitReady" /\ UNCHANGED mistakes
        /\ \/ CallPresent(t, presenters)
           \/ /\ turn' = t /\ UNCHANGED presenters
              /\ \A b \in 1..n : ~turn.blocks[b].partial
    BY <1>2, <1>11, <1>20 DEF HasText
  <2>1. turn.locked <=> presenters # {}
    BY <1>11 DEF IInv, Settled
  <2>2. t.blocks # <<>>
    <3>1. Len(<<>>) = 0
      OBVIOUS
    <3> QED BY <1>5, <1>6, <1>11, <3>1
  <2>3. CASE CallPresent(t, presenters)
    <3>1. turn' = Presented(t) /\ presenters' = presenters \cup Launched(t)
      BY <1>11, <2>3 DEF CallPresent
    <3>2. /\ Shape(Presented(t))
          /\ Holds(Presented(t), presenters \cup Launched(t))
          /\ Settled(Presented(t), presenters \cup Launched(t))
          /\ Kept(Presented(t), t)
      BY <1>0, <1>6, <1>7, <1>8, <2>1, CallSettles
    <3>3. /\ Shape(turn)' /\ Holds(turn, presenters)' /\ Settled(turn, presenters)'
          /\ turn'.completed /\ turn'.blocks # <<>>
      BY <1>0, <1>6, <2>2, <3>1, <3>2 DEF Shape, Holds, Settled, Kept
    <3> QED BY <1>0, <1>11, <2>0, <3>3 DEF IInv, CInv, TypeOK, Shape, Holds, Phases
  <2>4. CASE /\ turn' = t /\ UNCHANGED presenters
             /\ \A b \in 1..n : ~turn.blocks[b].partial
    <3>1. turn.index <= n => turn.locked
      BY <1>0, <1>11, <2>4 DEF IInv, Settled
    <3>2. turn.index > n /\ ~turn.locked => turn.ready
      <4>1. turn.blocks # <<>>
        <5>1. Len(<<>>) = 0
          OBVIOUS
        <5> QED BY <1>11, <5>1
      <4> QED BY <1>0, <1>11, <4>1 DEF IInv, Settled
    <3>3. \A p \in presenters : p.partial => t.pending
      <4>1. \A p \in presenters : turn.index \in 1..n
        BY <1>0 DEF IInv, Holds
      <4> QED BY <1>0, <1>6, <1>11, <2>4, <4>1 DEF IInv, Settled
    <3>4. Settled(t, presenters)
      BY <1>0, <1>5, <1>6, <2>1, <3>1, <3>2, <3>3 DEF Settled
    <3> QED BY <1>0, <1>6, <1>7, <1>8, <1>11, <2>0, <2>2, <2>4, <3>4
          DEF IInv, CInv, TypeOK, Shape, Holds, Settled, Phases
  <2> QED BY <2>0, <2>3, <2>4
<1> QED BY <1>9, <1>10, <1>11

\* Every other step.
LEMMA OtherSteps ==
  ASSUME LoopAssumption, IInv,
         \/ BeginRequest \/ AskAfterMistakes \/ ReasoningChunk \/ UsageChunk
         \/ StreamFails \/ GoOn \/ LateResult \/ Abort \/ Replaced \/ InitialCheckpoint
         \/ UNCHANGED vars
  PROVE  IInv'
<1>0. /\ TypeOK /\ mistakes \in Nat /\ MaxBlocks \in Nat \ {0} /\ epoch \in {0, 1}
  BY DEF IInv, TypeOK, LoopAssumption
<1>1. CASE BeginRequest
  <2>1. CASE aborted
    <3>1. /\ phase' = "stopped" /\ mistakes' \in Nat
          /\ UNCHANGED <<turn, epoch, ran, cut, presenters, late, aborted, detached,
                         checkpointed>>
      BY <1>0, <1>1, <2>1 DEF BeginRequest, LoopEnds
    <3> QED BY <1>0, <2>1, <3>1 DEF IInv, TypeOK, Shape, Holds, Phases
  <2>2. CASE ~aborted
    <3>1. /\ turn' = FreshTurn /\ epoch' \in {0, 1} /\ phase' = "streaming"
          /\ ran' = {} /\ cut' = FALSE /\ mistakes' \in Nat
          /\ UNCHANGED <<presenters, late, aborted, detached, checkpointed>>
          /\ presenters = {}
      BY <1>0, <1>1, <2>2 DEF BeginRequest, IInv
    <3>2. /\ FreshTurn \in TurnType /\ FreshTurn.blocks = <<>> /\ Len(<<>>) = 0
          /\ FreshTurn.index = 1 /\ ~FreshTurn.completed /\ ~FreshTurn.ready
          /\ ~FreshTurn.locked
      BY <1>0 DEF FreshTurn, TurnType
    <3>3. Shape(turn)' /\ Holds(turn, presenters)' /\ Settled(turn, presenters)'
      BY <1>0, <3>1, <3>2 DEF Shape, Holds, Settled
    <3> QED BY <1>0, <2>2, <3>1, <3>2, <3>3 DEF IInv, TypeOK, Shape, Phases
  <2> QED BY <2>1, <2>2
<1>2. CASE AskAfterMistakes
  BY <1>0, <1>2 DEF AskAfterMistakes, IInv, TypeOK, Shape, Holds, Settled, Phases
<1>3. CASE ReasoningChunk \/ UsageChunk
  <2>1. /\ presenters' = presenters \/ presenters' = Superseded(presenters)
        /\ phase = "streaming" /\ phase' \in {"streaming", "ended", "stopped"}
        /\ UNCHANGED <<turn, epoch, late, ran, cut, mistakes, aborted, detached,
                       checkpointed>>
    BY <1>3 DEF ReasoningChunk, UsageChunk, AfterChunk
  <2>2. Holds(turn, presenters)' /\ (~aborted => Settled(turn, presenters)')
    BY <2>1, SupersededHolds DEF IInv, Holds, Settled
  <2> QED BY <1>0, <2>1, <2>2 DEF IInv, TypeOK, Shape, Holds, Phases
<1>4. CASE StreamFails
  <2>1. aborted'
    BY <1>4 DEF StreamFails, IInv
  <2> QED BY <1>0, <1>4, <2>1
        DEF StreamFails, LoopEnds, IInv, TypeOK, Shape, Holds, Phases
<1>5. CASE GoOn
  <2>1. presenters = {} /\ mistakes' \in Nat
    BY <1>0, <1>5 DEF GoOn, IInv, Holds
  <2> QED BY <1>0, <1>5, <2>1 DEF GoOn, IInv, TypeOK, Shape, Holds, Settled, Phases
<1>6. CASE LateResult
  <2>1. Touched(turn')
    <3>1. PICK l \in late : turn' = IF l.epoch = epoch THEN Result(turn, l.block)
                                    ELSE [turn EXCEPT !.used = TRUE]
      BY <1>6 DEF LateResult
    <3>2. l.block \in 1..MaxBlocks
      BY <1>0 DEF TypeOK
    <3>3. Touched(Result(turn, l.block))
      BY <1>0, <3>2, AnswersTouch
    <3>4. Touched([turn EXCEPT !.used = TRUE])
      BY <1>0 DEF TypeOK, Touched, TurnType
    <3> QED BY <3>1, <3>3, <3>4
  <2>2. Shape(turn)' /\ Holds(turn, presenters)'
        /\ (~aborted => Settled(turn, presenters)')
    BY <1>6, <2>1 DEF LateResult, PresenterFrame, IInv, Shape, Holds, Settled, Touched
  <2> QED BY <1>0, <1>6, <2>1, <2>2
        DEF LateResult, PresenterFrame, IInv, TypeOK, Touched, Shape, Holds
<1>7. CASE Abort \/ Replaced
  BY <1>0, <1>7 DEF Abort, Replaced, IInv, TypeOK, Shape, Holds, Settled
<1>8. CASE InitialCheckpoint
  <2>1. Holds(turn, presenters)' /\ (~aborted => Settled(turn, presenters)')
        /\ (presenters = {} => presenters' = {})
    BY <1>8, SupersededHolds DEF InitialCheckpoint
  <2> QED BY <1>0, <1>8, <2>1 DEF InitialCheckpoint, IInv, TypeOK, Shape, Holds, Phases
<1>9. CASE UNCHANGED vars
  BY <1>0, <1>9 DEF vars, IInv, TypeOK, Shape, Holds, Settled
<1> QED BY <1>1, <1>2, <1>3, <1>4, <1>5, <1>6, <1>7, <1>8, <1>9

\* None of these steps makes the loop wait for a message without a block, and a
\* late result is on record.
LEMMA OthersInterrupt ==
  ASSUME LoopAssumption, IInv, CInv,
         \/ BeginRequest \/ AskAfterMistakes \/ ReasoningChunk \/ UsageChunk
         \/ StreamFails \/ GoOn \/ LateResult \/ Abort \/ Replaced \/ InitialCheckpoint
         \/ UNCHANGED vars
  PROVE  CInv'
<1>1. CASE BeginRequest
  BY <1>1 DEF BeginRequest, LoopEnds, FreshTurn, CInv, Skipping
<1>2. CASE ReasoningChunk \/ UsageChunk
  BY <1>2 DEF ReasoningChunk, UsageChunk, AfterChunk, CInv
<1>3. CASE LateResult
  <2>1. turn \in TurnType
    BY DEF IInv, TypeOK
  <2>2. turn'.used /\ cut'
    BY <1>3, <2>1 DEF LateResult, Result, Answered, TurnType
  <2> QED BY <2>2 DEF CInv, Skipping
<1>4. CASE AskAfterMistakes \/ StreamFails \/ GoOn
  BY <1>4 DEF AskAfterMistakes, StreamFails, GoOn, LoopEnds, CInv
<1>5. CASE Abort \/ Replaced \/ InitialCheckpoint \/ UNCHANGED vars
  BY <1>5 DEF Abort, Replaced, InitialCheckpoint, vars, CInv
<1> QED BY <1>1, <1>2, <1>3, <1>4, <1>5

-----------------------------------------------------------------------------
(* The theorems.                                                           *)

\* The inductive invariant of the request loop: a task never has two calls of
\* presentAssistantMessage past their first await, the one it has works on the
\* block at currentStreamingContentIndex, and while the task is not aborted the
\* lock is held exactly as long as such a call is under way.
THEOREM LoopInvariant == Spec => [](IInv /\ CInv)
<1> USE LoopAssumption
<1>1. Init => IInv /\ CInv
  <2> SUFFICES ASSUME Init PROVE IInv /\ CInv
    OBVIOUS
  <2>1. /\ FreshTurn \in TurnType /\ FreshTurn.blocks = <<>> /\ Len(<<>>) = 0
        /\ FreshTurn.index = 1 /\ ~FreshTurn.completed /\ ~FreshTurn.ready
        /\ ~FreshTurn.locked
    BY DEF FreshTurn, TurnType, LoopAssumption
  <2>2. Shape(turn) /\ Holds(turn, presenters) /\ Settled(turn, presenters)
    BY <2>1 DEF Init, Shape, Holds, Settled, LoopAssumption
  <2>3. CInv
    BY DEF Init, CInv, FreshTurn, Skipping
  <2> QED BY <2>1, <2>2, <2>3 DEF Init, IInv, TypeOK, Shape, Phases
<1>2. IInv /\ CInv /\ [Next]_vars => (IInv /\ CInv)'
  <2> SUFFICES ASSUME IInv, CInv, [Next]_vars PROVE (IInv /\ CInv)'
    OBVIOUS
  <2>1. CASE Chunk
    BY <2>1, ChunkStep DEF CInv
  <2>2. CASE FinishReading
    BY <2>2, FinishReadingStep
  <2>3. CASE \E p \in presenters : Presenter(p)
    <3>1. IInv' /\ turn'.blocks = turn.blocks
      BY <2>3, PresenterStep
    <3>2. turn.blocks # <<>>
      <4>1. turn.index \in Nat \ {0} /\ turn.index <= Len(turn.blocks) /\ Len(<<>>) = 0
        BY <2>3 DEF IInv, TypeOK, TurnType, Holds
      <4> QED BY <4>1
    <3> QED BY <3>1, <3>2 DEF CInv
  <2>4. CASE \/ BeginRequest \/ AskAfterMistakes \/ ReasoningChunk \/ UsageChunk
             \/ StreamFails \/ GoOn \/ LateResult \/ Abort \/ Replaced
             \/ InitialCheckpoint \/ UNCHANGED vars
    BY <2>4, OtherSteps, OthersInterrupt
  <2> QED BY <2>1, <2>2, <2>3, <2>4 DEF Next, Reader
<1> QED BY <1>1, <1>2, PTL DEF Spec

\* Every variable keeps its type, and the presenting index stays within one of
\* the end of the message, however many blocks it has.
THEOREM TypeCorrect == Spec => []TypeOK
<1>1. IInv => TypeOK
  BY DEF IInv
<1> QED BY <1>1, LoopInvariant, PTL

\* However chunks, answers, aborts and background says interleave, calls of
\* presentAssistantMessage never overlap and never outlive their request.
THEOREM PresentersExclude == Spec => []OnePresenter
<1>1. IInv => OnePresenter
  BY DEF IInv, Holds, OnePresenter
<1> QED BY <1>1, LoopInvariant, PTL

\* The flag that lets the next request start is never up while a tool of the
\* last message still runs or waits to be shown.
THEOREM ReadyIsTrue == Spec => []ReadyMeansPresented
<1>1. IInv => ReadyMeansPresented
  BY DEF IInv, Holds, ReadyMeansPresented
<1> QED BY <1>1, LoopInvariant, PTL

\* The wait for userMessageContentReady, which has no timeout, never waits for
\* a call that was turned away at the lock and forgotten: only for a message that
\* a late result interrupted before its first block.
THEOREM WakeupsArrive == Spec => []NoLostWakeup
<1>1. IInv /\ CInv => NoLostWakeup
  <2> SUFFICES ASSUME IInv, CInv, phase = "waitReady", ~aborted, ~turn.ready,
                      presenters = {}, ~(turn.blocks = <<>> /\ cut)
               PROVE  FALSE
    BY DEF NoLostWakeup
  <2>1. Shape(turn) /\ Settled(turn, presenters) /\ turn.completed /\ turn.blocks # <<>>
    BY DEF IInv, CInv
  <2>2. turn.index \in 1..Len(turn.blocks)
    BY <2>1 DEF Shape, TurnType, Settled
  <2> QED BY <2>1, <2>2 DEF Shape, Settled
<1> QED BY <1>1, LoopInvariant, PTL

-----------------------------------------------------------------------------
(* Answers and mistakes.                                                   *)

\* Block b of t has its answer, or is one of the exceptions, if the results in
\* l are late.
Accounted(t, b, l) ==
  \/ t.answers[b] # {}
  \/ t.blocks[b].kind = "write"
  \/ t.blocks[b].kind = "insert" /\ [epoch |-> epoch, block |-> b] \in l
  \/ cut

\* A rejection ends the presenting; a result is of the block being presented,
\* if there is one; a mistake is made in one check of a tool only.
Counted(t, ps, m) ==
  /\ t.rejected => ps = {}
  /\ ~cut => \A b \in 1..MaxBlocks :
               "result" \in t.answers[b] => t.used /\ \A p \in ps : p.block = b
  /\ \A p \in ps : /\ p.kind = t.blocks[p.block].kind
                   /\ p.at = "say" <=> ~IsTool(p.block)
  /\ \A p \in ps : p.at = "check" \/ ~t.used => m < MistakeLimit

\* What is behind the index has been answered; so has the block a presenter
\* is about to leave.
Answers(t, ps, l) ==
  /\ \A b \in 1..Len(t.blocks) : b < t.index /\ IsTool(b) => Accounted(t, b, l)
  /\ \A p \in ps : t.used \/ p.at = "save" => Accounted(t, p.block, l)

InTurn == phase \in {"streaming", "ended", "waitReady"}

NoTools(t) == \A b \in 1..Len(t.blocks) : ~IsTool(b)

AInv ==
  /\ MistakesBounded
  /\ Counted(turn, presenters, mistakes)
  /\ ~aborted => Answers(turn, presenters, late)
  /\ InTurn /\ (~turn.used \/ NoTools(turn)) => mistakes < MistakeLimit
  /\ phase \in {"start", "mistakeAsk"} /\ ~aborted => turn.index > Len(turn.blocks)

\* A call of presentAssistantMessage passes over nothing without an answer.
LEMMA CallAccounts ==
  ASSUME LoopAssumption, NEW t, NEW ps, NEW m, NEW l, Shape(t), Holds(t, ps),
         t.locked <=> ps # {}, Counted(t, ps, m), Answers(t, ps, l),
         ~t.used => m < MistakeLimit
  PROVE  /\ Counted(Presented(t), ps \cup Launched(t), m)
         /\ Answers(Presented(t), ps \cup Launched(t), l)
<1> DEFINE n == Len(t.blocks)
<1>0. /\ t \in TurnType /\ n \in Nat /\ n <= MaxBlocks /\ MaxBlocks \in Nat
      /\ t.index \in Nat \ {0}
      /\ t.answers \in [1..MaxBlocks -> SUBSET {"result", "skipped", "feedback"}]
  BY DEF Shape, TurnType, LoopAssumption
<1>1. CASE t.locked
  <2>1. Presented(t) = [t EXCEPT !.pending = TRUE] /\ Launched(t) = {}
    BY <1>1 DEF Presented, Launched
  <2>2. /\ Kept(Presented(t), t) /\ Presented(t).answers = t.answers
        /\ Presented(t).index = t.index
    BY <1>0, <2>1 DEF TurnType, Kept
  <2> QED BY <2>1, <2>2 DEF Counted, Answers, Accounted, Kept
<1>2. CASE ~t.locked /\ t.index > n
  <2>1. /\ Presented(t) = [t EXCEPT !.pending = FALSE, !.ready = @ \/ t.completed]
        /\ Launched(t) = {}
    BY <1>0, <1>2 DEF Presented, Launched, TurnType
  <2>2. /\ Kept(Presented(t), t) /\ Presented(t).answers = t.answers
        /\ Presented(t).index = t.index
    BY <1>0, <2>1 DEF TurnType, Kept
  <2> QED BY <2>1, <2>2 DEF Counted, Answers, Accounted, Kept
<1>3. CASE ~t.locked /\ t.index <= n /\ Skipping(t)
  <2>1. Presented(t) = SkipRest(t) /\ Launched(t) = {} /\ ps = {}
    BY <1>0, <1>3 DEF Presented, Launched, TurnType
  <2> DEFINE as == [b \in 1..MaxBlocks |->
                      IF b \in t.index..Len(t.blocks) /\ IsTool(b)
                      THEN t.answers[b] \cup {"skipped"} ELSE t.answers[b]]
  <2>2. /\ Kept(SkipRest(t), t) /\ SkipRest(t).answers = as
        /\ SkipRest(t).index = n + 1
    BY <1>0 DEF SkipRest, TurnType, Kept
  <2>3. \A b \in 1..MaxBlocks : "result" \in as[b] <=> "result" \in t.answers[b]
    BY <1>0
  <2>4. ASSUME NEW b \in 1..n
        PROVE  /\ as[b] # {} \/ as[b] = t.answers[b]
               /\ b >= t.index /\ IsTool(b) => as[b] # {}
    <3>1. b \in 1..MaxBlocks
      BY <1>0
    <3>2. as[b] = IF b \in t.index..Len(t.blocks) /\ IsTool(b)
                  THEN t.answers[b] \cup {"skipped"} ELSE t.answers[b]
      BY <3>1
    <3>3. b >= t.index => b \in t.index..Len(t.blocks)
      BY <1>0
    <3>4. t.answers[b] \cup {"skipped"} # {}
      OBVIOUS
    <3> HIDE DEF as
    <3> QED BY <3>2, <3>3, <3>4
  <2> HIDE DEF as
  <2>5. Counted(SkipRest(t), {}, m)
    BY <2>1, <2>2, <2>3 DEF Counted, Kept
  <2>6. ASSUME NEW b \in 1..n, IsTool(b) PROVE Accounted(SkipRest(t), b, l)
    <3>1. CASE b >= t.index
      BY <2>2, <2>4, <2>6, <3>1 DEF Accounted
    <3>2. CASE b < t.index
      <4>1. Accounted(t, b, l)
        BY <2>6, <3>2 DEF Answers
      <4> QED BY <2>2, <2>4, <4>1 DEF Accounted, Kept
    <3> QED BY <1>0, <3>1, <3>2
  <2>7. Answers(SkipRest(t), {}, l)
    BY <2>2, <2>6 DEF Answers, Kept
  <2> QED BY <2>1, <2>5, <2>7
<1>4. CASE ~t.locked /\ t.index <= n /\ ~Skipping(t)
  <2> DEFINE p == [epoch |-> epoch, block |-> t.index,
                   kind |-> t.blocks[t.index].kind,
                   partial |-> t.blocks[t.index].partial,
                   at |-> IF IsTool(t.index) THEN "check" ELSE "say"]
  <2>1. Presented(t) = [t EXCEPT !.locked = TRUE, !.pending = FALSE]
    BY <1>0, <1>4 DEF Presented, TurnType
  <2>2. ps \cup Launched(t) = {p}
    BY <1>0, <1>4 DEF Launched, TurnType
  <2>3. /\ Kept(Presented(t), t) /\ Presented(t).answers = t.answers
        /\ Presented(t).index = t.index
    BY <1>0, <2>1 DEF TurnType, Kept
  <2>4. /\ p.block = t.index /\ p.kind = t.blocks[t.index].kind
        /\ p.at = "say" <=> ~IsTool(t.index)
        /\ p.at # "save"
    OBVIOUS
  <2>5. ~t.rejected /\ ~t.used
    BY <1>4 DEF Skipping
  <2> HIDE DEF p
  <2>6. Counted(Presented(t), {p}, m)
    BY <2>3, <2>4, <2>5 DEF Counted, Kept
  <2>7. Answers(Presented(t), {p}, l)
    BY <2>3, <2>4, <2>5 DEF Answers, Accounted, Kept
  <2> QED BY <2>2, <2>6, <2>7
<1> QED BY <1>0, <1>1, <1>2, <1>3, <1>4 DEF TurnType

\* The streaming state as the handler of block b leaves it.
Handled(t, b) ==
  /\ Touched(t)
  /\ \A c \in 1..MaxBlocks : turn.answers[c] \subseteq t.answers[c]
  /\ \A c \in 1..MaxBlocks : "result" \in t.answers[c] =>
       "result" \in turn.answers[c] \/ (c = b /\ t.used)
  /\ turn.used => t.used
  /\ t.used => turn.used \/ t.answers[b] # {}

\* Adding an answer leaves the streaming state as a handler may leave it.
LEMMA AnswersHandle ==
  ASSUME LoopAssumption, TypeOK, NEW b \in 1..MaxBlocks
  PROVE  /\ Handled(turn, b) /\ Handled(Result(turn, b), b)
         /\ Handled(Answered(turn, b, "feedback"), b)
         /\ \A r \in BOOLEAN : Handled([Result(turn, b) EXCEPT !.rejected = r], b)
         /\ Result(turn, b).answers[b] # {} /\ Result(turn, b).used
         /\ Result(turn, b).rejected = turn.rejected
         /\ Answered(turn, b, "feedback").answers[b] # {}
         /\ \A r \in BOOLEAN : [Result(turn, b) EXCEPT !.rejected = r].answers[b] # {}
<1>0. /\ turn \in TurnType
      /\ turn.answers \in [1..MaxBlocks -> SUBSET {"result", "skipped", "feedback"}]
  BY DEF TypeOK, TurnType
<1>1. /\ Touched(turn) /\ Touched(Result(turn, b))
      /\ Touched(Answered(turn, b, "feedback"))
  BY AnswersTouch
<1>2. ASSUME NEW w \in {"result", "skipped", "feedback"}
      PROVE  /\ Answered(turn, b, w).answers =
                  [turn.answers EXCEPT ![b] = turn.answers[b] \cup {w}]
             /\ Answered(turn, b, w).used = turn.used
             /\ Answered(turn, b, w).rejected = turn.rejected
  BY <1>0 DEF Answered, TurnType
<1>3. /\ Result(turn, b).answers = Answered(turn, b, "result").answers
      /\ Result(turn, b).used /\ Result(turn, b).rejected = turn.rejected
  <2>1. Touched(Answered(turn, b, "result"))
    BY AnswersTouch
  <2> QED BY <1>2, <2>1 DEF Result, Touched, TurnType
<1>4. \A r \in BOOLEAN :
        /\ Touched([Result(turn, b) EXCEPT !.rejected = r])
        /\ [Result(turn, b) EXCEPT !.rejected = r].answers = Result(turn, b).answers
        /\ [Result(turn, b) EXCEPT !.rejected = r].used = Result(turn, b).used
  BY <1>1 DEF Touched, TurnType
<1>5. Handled(turn, b)
  BY <1>1 DEF Handled
<1>6. Handled(Result(turn, b), b) /\ Result(turn, b).answers[b] # {}
  <2>1. Result(turn, b).answers =
          [turn.answers EXCEPT ![b] = turn.answers[b] \cup {"result"}]
    BY <1>2, <1>3
  <2>2. \A c \in 1..MaxBlocks :
          Result(turn, b).answers[c] = IF c = b THEN turn.answers[b] \cup {"result"}
                                       ELSE turn.answers[c]
    BY <1>0, <2>1
  <2> QED BY <1>1, <1>3, <2>2 DEF Handled
<1>7. /\ Handled(Answered(turn, b, "feedback"), b)
      /\ Answered(turn, b, "feedback").answers[b] # {}
  <2> DEFINE t == Answered(turn, b, "feedback")
  <2>1. /\ t.answers = [turn.answers EXCEPT ![b] = turn.answers[b] \cup {"feedback"}]
        /\ t.used = turn.used /\ Touched(t)
    BY <1>1, <1>2
  <2> HIDE DEF t
  <2>2. \A c \in 1..MaxBlocks :
          t.answers[c] = IF c = b THEN turn.answers[b] \cup {"feedback"}
                         ELSE turn.answers[c]
    BY <1>0, <2>1
  <2>3. Handled(t, b) /\ t.answers[b] # {}
    BY <2>1, <2>2 DEF Handled
  <2> QED BY <2>3 DEF t
<1>8. \A r \in BOOLEAN : Handled([Result(turn, b) EXCEPT !.rejected = r], b)
  BY <1>4, <1>6 DEF Handled
<1> QED BY <1>3, <1>4, <1>5, <1>6, <1>7, <1>8

\* What a presenter's block has been accounted for with stays.
LEMMA AccountStays ==
  ASSUME NEW t, NEW b \in 1..MaxBlocks, NEW c, Handled(t, c), NEW l, late \subseteq l,
         Accounted(turn, b, late)
  PROVE  Accounted(t, b, l)
BY DEF Accounted, Handled, Touched

\* A presenter ends; more mistakes there may be only after a result.
LEMMA FinishAccounts ==
  ASSUME LoopAssumption, IInv, AInv, NEW p \in presenters, NEW t, Handled(t, p.block),
         Finish(p, t), PresenterFrame, UNCHANGED cut, late \subseteq late',
         \/ mistakes' = mistakes
         \/ t.used /\ IsTool(p.block) /\ mistakes' <= MistakeLimit,
         ~aborted /\ IsTool(p.block) /\ (~p.partial \/ Skipping(t))
           => Accounted(t, p.block, late')
  PROVE  AInv'
<1> DEFINE moves == ~p.partial \/ Skipping(t)
           no == FALSE
           r == t.ready \/ (moves /\ t.index = Len(t.blocks))
           i == IF moves THEN t.index + 1 ELSE t.index
           u == [t EXCEPT !.locked = no, !.ready = r, !.index = i]
           n == Len(turn.blocks)
<1>0. /\ t \in TurnType /\ turn \in TurnType /\ n \in Nat /\ n <= MaxBlocks
      /\ turn.index \in Nat \ {0} /\ turn.index <= n /\ p.block = turn.index
      /\ p \in PresenterType /\ presenters = {p} /\ aborted \in BOOLEAN
      /\ MaxBlocks \in Nat /\ epoch' = epoch /\ aborted' = aborted /\ phase' = phase
  BY DEF IInv, TypeOK, Holds, Handled, Touched, TurnType, PresenterFrame, LoopAssumption
<1>1. moves \in BOOLEAN
  BY <1>0 DEF PresenterType, Skipping, TurnType
<1>2. /\ u \in TurnType /\ u.blocks = turn.blocks /\ u.answers = t.answers
      /\ u.used = t.used /\ u.rejected = t.rejected /\ ~u.locked
      /\ u.index = (IF moves THEN turn.index + 1 ELSE turn.index)
      /\ u.completed = turn.completed
      /\ u.ready <=> (moves /\ turn.index = n)
  <2>1. ~t.ready /\ t.index = turn.index /\ t.blocks = turn.blocks
        /\ t.completed = turn.completed
    BY DEF IInv, Holds, Handled, Touched
  <2>2. ~no /\ (r <=> (moves /\ turn.index = n))
    BY <1>0, <1>1, <2>1
  <2>3. i = IF moves THEN turn.index + 1 ELSE turn.index
    BY <2>1
  <2>4. no \in BOOLEAN /\ r \in BOOLEAN /\ i \in Nat \ {0} /\ t \in TurnType
    BY <1>0, <1>1, <2>1
  <2> HIDE DEF no, r, i
  <2>5. u \in TurnType
    BY <2>4 DEF TurnType
  <2>6. /\ u.blocks = t.blocks /\ u.answers = t.answers /\ u.completed = t.completed
        /\ u.index = i
    BY <2>4 DEF TurnType
  <2>7. u.used = t.used /\ u.rejected = t.rejected
    BY <2>4 DEF TurnType
  <2>8. ~u.locked /\ (u.ready <=> (moves /\ turn.index = n))
    BY <2>2, <2>4 DEF TurnType
  <2> HIDE DEF u
  <2> QED BY <2>1, <2>3, <2>5, <2>6, <2>7, <2>8
<1>3. \/ CallPresent(u, presenters \ {p})
      \/ turn' = u /\ presenters' = presenters \ {p}
  BY DEF Finish
<1> HIDE DEF u
<1>4. presenters \ {p} = {}
  BY <1>0
<1>5. ~t.used => mistakes' < MistakeLimit
  BY DEF AInv, Counted, Handled
<1>6. Counted(u, {}, mistakes')
  <2>1. ASSUME ~cut, NEW b \in 1..MaxBlocks, "result" \in t.answers[b] PROVE t.used
    BY <2>1 DEF AInv, Counted, Handled
  <2> QED BY <1>2, <2>1 DEF Counted
<1>7. ASSUME ~aborted PROVE Answers(u, {}, late')
  <2>1. ASSUME NEW b \in 1..n, b < u.index, IsTool(b) PROVE Accounted(u, b, late')
    <3>1. CASE b < turn.index
      <4>1. Accounted(turn, b, late) /\ b \in 1..MaxBlocks
        BY <1>0, <1>7, <2>1, <3>1 DEF AInv, Answers
      <4>2. Accounted(t, b, late')
        BY <4>1, AccountStays
      <4> QED BY <1>2, <4>2 DEF Accounted, Handled, Touched
    <3>2. CASE b = turn.index
      <4>1. moves
        BY <1>0, <1>2, <2>1, <3>2
      <4>2. Accounted(t, b, late')
        BY <1>0, <1>7, <2>1, <3>2, <4>1
      <4> QED BY <1>2, <4>2 DEF Accounted, Handled, Touched
    <3>3. b <= turn.index
      BY <1>0, <1>2, <2>1
    <3> QED BY <1>0, <3>1, <3>2, <3>3
  <2> QED BY <1>2, <2>1 DEF Answers
<1>8. /\ Counted(turn', presenters', mistakes')
      /\ ~aborted => Answers(turn', presenters', late')
      /\ turn'.used = t.used /\ turn'.blocks = turn.blocks
  <2>1. CASE turn' = u /\ presenters' = presenters \ {p}
    BY <1>2, <1>4, <1>6, <1>7, <2>1
  <2>2. CASE CallPresent(u, presenters \ {p}) /\ aborted
    BY <1>2, <1>4, <1>6, <1>7, <2>2 DEF CallPresent
  <2>3. CASE CallPresent(u, presenters \ {p}) /\ ~aborted
    <3>1. turn' = Presented(u) /\ presenters' = {} \cup Launched(u)
      BY <1>4, <2>3 DEF CallPresent
    <3>2. Shape(u) /\ Holds(u, {})
      <4>1. Shape(turn)
        BY DEF IInv
      <4> HIDE DEF moves
      <4> QED BY <1>0, <1>1, <1>2, <4>1 DEF Shape, Holds
    <3>3. /\ Counted(Presented(u), {} \cup Launched(u), mistakes')
          /\ Answers(Presented(u), {} \cup Launched(u), late')
      BY <1>2, <1>5, <1>6, <1>7, <2>3, <3>2, CallAccounts
    <3>4. Presented(u).used = u.used /\ Presented(u).blocks = u.blocks
      BY <1>2 DEF Presented, SkipRest, TurnType
    <3> QED BY <1>2, <3>1, <3>3, <3>4
  <2> QED BY <1>3, <2>1, <2>2, <2>3
<1>9. mistakes' <= MistakeLimit
  BY DEF AInv, MistakesBounded
<1>10. InTurn /\ NoTools(turn) => mistakes' < MistakeLimit
  BY <1>0 DEF AInv, NoTools
<1>11. aborted \/ phase \notin {"start", "mistakeAsk"}
  BY <1>0 DEF IInv
<1>12. Counted(turn, presenters, mistakes)'
  BY <1>8 DEF Counted
<1>13. ~aborted => Answers(turn, presenters, late)'
  BY <1>0, <1>8 DEF Answers, Accounted
<1> QED BY <1>0, <1>5, <1>8, <1>9, <1>10, <1>11, <1>12, <1>13
      DEF AInv, MistakesBounded, InTurn, NoTools

\* A presenter goes on.
LEMMA MovesAccount ==
  ASSUME LoopAssumption, IInv, AInv, NEW p \in presenters, NEW t, Handled(t, p.block),
         NEW at \in {"ask", "ignored", "run", "save", "final"},
         presenters' = (presenters \ {p}) \cup {[p EXCEPT !.at = at]},
         turn' = t, t.rejected = turn.rejected, p.at # "say",
         PresenterFrame, UNCHANGED cut, late \subseteq late', mistakes' \in {0, mistakes},
         ~aborted /\ at = "save" => Accounted(t, p.block, late')
  PROVE  AInv'
<1> DEFINE q == [p EXCEPT !.at = at]
<1>0. /\ p \in PresenterType /\ presenters = {p} /\ presenters' = {q}
      /\ p.block = turn.index /\ p.block \in 1..MaxBlocks
      /\ epoch' = epoch /\ aborted' = aborted /\ phase' = phase
      /\ t.blocks = turn.blocks /\ t.index = turn.index /\ t.blocks = turn.blocks
  BY DEF IInv, Holds, PresenterType, PresenterFrame, Handled, Touched
<1>1. q.at = at /\ q.block = p.block /\ q.kind = p.kind
  BY <1>0 DEF PresenterType
<1> HIDE DEF q
<1>2. 0 < MistakeLimit /\ 0 <= MistakeLimit
  BY DEF LoopAssumption
<1>3. Counted(turn', presenters', mistakes')
  <2>1. ~t.rejected
    BY <1>0 DEF AInv, Counted
  <2>2. ASSUME ~cut, NEW b \in 1..MaxBlocks, "result" \in t.answers[b]
        PROVE  t.used /\ p.block = b
    BY <2>2 DEF AInv, Counted, Handled
  <2>3. ~t.used => mistakes' < MistakeLimit
    BY <1>2 DEF AInv, Counted, Handled
  <2>4. p.kind = turn.blocks[p.block].kind /\ IsTool(p.block)
    BY DEF AInv, Counted
  <2> QED BY <1>0, <1>1, <2>1, <2>2, <2>3, <2>4 DEF Counted
<1>4. ASSUME ~aborted PROVE Answers(turn', presenters', late')
  <2>1. ASSUME NEW b \in 1..Len(t.blocks), b < t.index, IsTool(b)
        PROVE  Accounted(t, b, late')
    <3>1. Accounted(turn, b, late) /\ b \in 1..MaxBlocks
      <4>1. Len(turn.blocks) <= MaxBlocks /\ Len(turn.blocks) \in Nat /\ MaxBlocks \in Nat
        BY DEF IInv, TypeOK, TurnType, LoopAssumption
      <4> QED BY <1>0, <1>4, <2>1, <4>1 DEF AInv, Answers
    <3> QED BY <3>1, AccountStays
  <2>2. ASSUME t.used PROVE Accounted(t, p.block, late')
    <3>1. CASE turn.used
      <4>1. Accounted(turn, p.block, late)
        BY <1>4, <3>1 DEF AInv, Answers
      <4> QED BY <1>0, <4>1, AccountStays
    <3>2. CASE t.answers[p.block] # {}
      BY <3>2 DEF Accounted
    <3> QED BY <2>2, <3>1, <3>2 DEF Handled
  <2> QED BY <1>0, <1>1, <1>4, <2>1, <2>2 DEF Answers
<1>5. mistakes' <= MistakeLimit
  BY <1>2 DEF AInv, MistakesBounded
<1>6. InTurn /\ (~t.used \/ NoTools(turn)) => mistakes' < MistakeLimit
  BY <1>2 DEF AInv, Handled
<1>7. aborted \/ phase \notin {"start", "mistakeAsk"}
  BY <1>0 DEF IInv
<1>8. Counted(turn, presenters, mistakes)'
  BY <1>3 DEF Counted
<1>9. ~aborted => Answers(turn, presenters, late)'
  BY <1>0, <1>4 DEF Answers, Accounted
<1> QED BY <1>0, <1>5, <1>6, <1>7, <1>8, <1>9 DEF AInv, MistakesBounded, InTurn, NoTools

\* A handler returns with its block accounted for, unless the task is aborted.
LEMMA ReturnsAccount ==
  ASSUME LoopAssumption, IInv, AInv, NEW p \in presenters, NEW t, Handled(t, p.block),
         Returns(p, t), PresenterFrame, UNCHANGED <<cut, mistakes>>, late \subseteq late',
         t.rejected = turn.rejected, p.at # "say",
         ~aborted => Accounted(t, p.block, late')
  PROVE  AInv'
<1>1. CASE Finish(p, t)
  BY <1>1, FinishAccounts
<1>2. CASE /\ presenters' = (presenters \ {p}) \cup {[p EXCEPT !.at = "save"]}
           /\ turn' = t
  <2>1. mistakes' \in {0, mistakes}
    OBVIOUS
  <2> QED BY <1>2, <2>1, MovesAccount
<1> QED BY <1>1, <1>2 DEF Returns

\* Every step of a presenter.
LEMMA PresenterAccounts ==
  ASSUME LoopAssumption, IInv, AInv, NEW p \in presenters, Presenter(p)
  PROVE  AInv'
<1> DEFINE b == p.block
<1>0. /\ p \in PresenterType /\ b \in 1..MaxBlocks /\ TypeOK
      /\ presenters = {p} /\ p.epoch = epoch
      /\ p.kind = turn.blocks[b].kind /\ (p.at = "say" <=> ~IsTool(b))
  BY DEF IInv, AInv, Holds, Counted, PresenterType
<1>1. /\ mistakes \in Nat /\ MistakeLimit \in Nat /\ 0 < MistakeLimit
      /\ mistakes <= MistakeLimit
  BY DEF IInv, TypeOK, AInv, MistakesBounded, LoopAssumption
<1>2. /\ Handled(turn, b) /\ Handled(Result(turn, b), b)
      /\ Handled(Answered(turn, b, "feedback"), b)
      /\ \A r \in BOOLEAN : Handled([Result(turn, b) EXCEPT !.rejected = r], b)
      /\ Result(turn, b).used /\ Result(turn, b).rejected = turn.rejected
  BY <1>0, AnswersHandle
<1>3. \A l : /\ Accounted(Result(turn, b), b, l)
             /\ Accounted(Answered(turn, b, "feedback"), b, l)
             /\ \A r \in BOOLEAN :
                  Accounted([Result(turn, b) EXCEPT !.rejected = r], b, l)
  BY <1>0, AnswersHandle DEF Accounted
<1>4. /\ ~turn.rejected
      /\ ~aborted /\ (turn.used \/ p.at = "save") => Accounted(turn, b, late)
  BY DEF AInv, Counted, Answers
<1>5. CASE TextSaid(p) \/ PartialToolShown(p)
  BY <1>0, <1>2, <1>4, <1>5, FinishAccounts DEF TextSaid, PartialToolShown, Skipping
<1>6. CASE WriteSilently(p)
  <2>1. Accounted(turn, b, late')
    BY <1>0, <1>6 DEF WriteSilently, Accounted
  <2> QED BY <1>2, <1>6, <2>1, FinishAccounts DEF WriteSilently
<1>7. CASE Saved(p)
  BY <1>2, <1>4, <1>7, FinishAccounts DEF Saved
<1>8. CASE Concludes(p)
  <2>1. p.at = "check" /\ mistakes < MistakeLimit
    BY <1>8 DEF Concludes, AInv, Counted
  <2>2. mistakes' <= MistakeLimit
    BY <1>1, <1>8, <2>1 DEF Concludes
  <2>3. Finish(p, Result(turn, b))
    BY <1>8, <2>1 DEF Concludes, EndsWithResult, Returns
  <2>4. late \subseteq late' /\ UNCHANGED cut /\ PresenterFrame
    BY <1>8 DEF Concludes
  <2> QED BY <1>0, <1>2, <1>3, <2>1, <2>2, <2>3, <2>4, FinishAccounts
<1>9. CASE AsksApproval(p) \/ OffersCompletion(p) \/ RunsUnasked(p)
  <2>1. PICK at \in {"ask", "run", "final"} :
          /\ presenters' = (presenters \ {p}) \cup {[p EXCEPT !.at = at]}
          /\ turn' = turn
    BY <1>9 DEF AsksApproval, OffersCompletion, RunsUnasked, MovesTo
  <2>2. /\ p.at # "say" /\ mistakes' \in {0, mistakes} /\ late \subseteq late'
        /\ UNCHANGED cut /\ PresenterFrame
    BY <1>9 DEF AsksApproval, OffersCompletion, RunsUnasked
  <2> QED BY <1>2, <2>1, <2>2, MovesAccount
<1>10. CASE Approved(p)
  <2>1. PICK t \in {turn, Result(turn, b)} : turn' = t
    BY <1>10 DEF Approved
  <2>2. /\ presenters' = (presenters \ {p}) \cup {[p EXCEPT !.at = "run"]}
        /\ p.at # "say" /\ mistakes' \in {0, mistakes} /\ late \subseteq late'
        /\ UNCHANGED cut /\ PresenterFrame
    BY <1>10 DEF Approved
  <2> QED BY <1>2, <2>1, <2>2, MovesAccount
<1>11. CASE Rejected(p)
  <2>1. PICK r \in BOOLEAN : Finish(p, [Result(turn, b) EXCEPT !.rejected = r])
    <3>1. Result(turn, b).rejected \in BOOLEAN
      BY <1>2 DEF Handled, Touched, TurnType
    <3> DEFINE r == Result(turn, b).rejected \/ p.kind # "insert"
    <3>2. r \in BOOLEAN /\ Finish(p, [Result(turn, b) EXCEPT !.rejected = r])
      BY <1>11 DEF Rejected
    <3> QED BY <3>2
  <2> QED BY <1>2, <1>3, <1>11, <2>1, FinishAccounts DEF Rejected
<1>12. CASE RunDone(p)
  <2>0. /\ p.at # "say" /\ mistakes' \in {0, mistakes} /\ late \subseteq late'
        /\ UNCHANGED <<cut, mistakes>> /\ PresenterFrame
    BY <1>12 DEF RunDone
  <2>1. CASE MovesTo(p, "final")
    BY <1>2, <2>0, <2>1, MovesAccount DEF MovesTo
  <2>2. CASE EndsWithResult(p)
    BY <1>2, <1>3, <2>0, <2>2, ReturnsAccount DEF EndsWithResult
  <2> QED BY <1>12, <2>1, <2>2 DEF RunDone
<1>13. CASE CommandFeedback(p)
  BY <1>2, <1>3, <1>13, FinishAccounts DEF CommandFeedback
<1>14. CASE CompletionAccepted(p)
  BY <1>2, <1>3, <1>14, ReturnsAccount DEF CompletionAccepted, EndsWithResult
<1>15. CASE CompletionFeedback(p)
  BY <1>2, <1>3, <1>15, FinishAccounts DEF CompletionFeedback
<1>16. CASE FinishSubTask(p)
  <2>1. /\ turn'.rejected = turn.rejected /\ turn'.used = turn.used
        /\ turn'.answers = turn.answers /\ turn'.blocks = turn.blocks
    <3>1. turn \in TurnType
      BY <1>0 DEF TypeOK
    <3> QED BY <1>16, <3>1 DEF FinishSubTask, TurnType
  <2>2. /\ presenters' = {} /\ aborted' = TRUE
        /\ UNCHANGED <<phase, epoch, late, ran, cut, mistakes>>
    BY <1>0, <1>16 DEF FinishSubTask
  <2>3. Counted(turn, presenters, mistakes)'
    BY <2>1, <2>2 DEF AInv, Counted
  <2> QED BY <2>1, <2>2, <2>3 DEF AInv, MistakesBounded, InTurn, NoTools
<1>17. CASE ToolFails(p)
  <2>0. /\ p.at # "say" /\ late \subseteq late'
        /\ UNCHANGED <<cut, mistakes>> /\ PresenterFrame
    BY <1>17 DEF ToolFails
  <2>1. CASE p.kind = "insert"
    <3>1. Returns(p, turn) /\ late' = late \cup {[epoch |-> p.epoch, block |-> b]}
      BY <1>17, <2>1 DEF ToolFails
    <3>2. Accounted(turn, b, late')
      BY <1>0, <2>1, <3>1 DEF Accounted
    <3> QED BY <1>2, <2>0, <3>1, <3>2, ReturnsAccount
  <2>2. CASE EndsWithResult(p)
    BY <1>2, <1>3, <2>0, <2>2, ReturnsAccount DEF EndsWithResult
  <2> QED BY <1>17, <2>1, <2>2 DEF ToolFails
<1>18. CASE DiesOfAbort(p)
  <2>1. /\ presenters' = {} /\ aborted /\ aborted' = aborted
        /\ UNCHANGED <<turn, phase, epoch, late, ran, cut, mistakes>>
    BY <1>0, <1>18 DEF DiesOfAbort, PresenterFrame
  <2> QED BY <2>1 DEF AInv, Counted, MistakesBounded, InTurn, NoTools
<1> QED BY <1>5, <1>6, <1>7, <1>8, <1>9, <1>10, <1>11, <1>12, <1>13, <1>14,
           <1>15, <1>16, <1>17, <1>18 DEF Presenter

\* More of the message does not change what its first blocks are accounted for
\* with.
LEMMA GrownAccounts ==
  ASSUME LoopAssumption, IInv, AInv, NEW t, Holds(t, presenters),
         t.answers = turn.answers, t.index = turn.index,
         t.used = turn.used, t.rejected = turn.rejected,
         \A b \in 1..Len(turn.blocks) : t.blocks[b].kind = turn.blocks[b].kind
  PROVE  /\ Counted(t, presenters, mistakes)
         /\ ~aborted => Answers(t, presenters, late)
<1>0. /\ turn.index \in Nat \ {0} /\ turn.index <= Len(turn.blocks) + 1
      /\ Len(turn.blocks) \in Nat
  BY DEF IInv, Shape, TurnType
<1>1. \A p \in presenters : /\ p.block = turn.index
                            /\ p.block \in 1..Len(turn.blocks)
                            /\ t.blocks[p.block].kind = turn.blocks[p.block].kind
  BY <1>0 DEF IInv, Holds
<1>2. Counted(t, presenters, mistakes)
  BY <1>1 DEF AInv, Counted
<1>3. ASSUME ~aborted PROVE Answers(t, presenters, late)
  <2>1. ASSUME NEW b \in 1..Len(t.blocks), b < t.index, IsTool(b)
        PROVE  Accounted(t, b, late)
    <3>1. b \in 1..Len(turn.blocks)
      BY <1>0, <2>1
    <3>2. Accounted(turn, b, late)
      BY <1>3, <2>1, <3>1 DEF AInv, Answers
    <3> QED BY <3>1, <3>2 DEF Accounted
  <2>2. ASSUME NEW p \in presenters, t.used \/ p.at = "save"
        PROVE  Accounted(t, p.block, late)
    <3>1. Accounted(turn, p.block, late)
      BY <1>3, <2>2 DEF AInv, Answers
    <3> QED BY <1>1, <3>1 DEF Accounted
  <2> QED BY <2>1, <2>2 DEF Answers
<1> QED BY <1>2, <1>3

\* The reader calls presentAssistantMessage with more of the message.
LEMMA ReadAccounts ==
  ASSUME LoopAssumption, IInv, AInv, NEW t, Shape(t), Holds(t, presenters),
         t.answers = turn.answers, t.index = turn.index, t.locked = turn.locked,
         t.used = turn.used, t.rejected = turn.rejected,
         Len(turn.blocks) <= Len(t.blocks),
         \A b \in 1..Len(turn.blocks) : t.blocks[b].kind = turn.blocks[b].kind,
         \/ CallPresent(t, presenters)
         \/ turn' = t /\ UNCHANGED presenters,
         InTurn, phase' \in {"streaming", "ended", "waitReady", "stopped"},
         UNCHANGED <<epoch, late, cut, mistakes, aborted>>
  PROVE  AInv'
<1>1. /\ Counted(t, presenters, mistakes)
      /\ ~aborted => Answers(t, presenters, late)
  BY GrownAccounts
<1>2. /\ Counted(turn', presenters', mistakes)
      /\ ~aborted => Answers(turn', presenters', late)
      /\ turn'.used = turn.used /\ turn'.blocks = t.blocks
  <2>1. CASE turn' = t /\ presenters' = presenters
    BY <1>1, <2>1
  <2>2. CASE CallPresent(t, presenters) /\ aborted
    <3>1. turn' = t /\ presenters' = presenters
      BY <2>2 DEF CallPresent
    <3> QED BY <2>1, <3>1
  <2>3. CASE CallPresent(t, presenters) /\ ~aborted
    <3>1. turn' = Presented(t) /\ presenters' = presenters \cup Launched(t)
      BY <2>3 DEF CallPresent
    <3>2. t.locked <=> presenters # {}
      BY <2>3 DEF IInv, Settled
    <3>3. ~t.used => mistakes < MistakeLimit
      BY DEF AInv
    <3>4. /\ Counted(Presented(t), presenters \cup Launched(t), mistakes)
          /\ Answers(Presented(t), presenters \cup Launched(t), late)
      BY <1>1, <2>3, <3>2, <3>3, CallAccounts
    <3>5. Presented(t).used = t.used /\ Presented(t).blocks = t.blocks
      BY DEF Presented, SkipRest, Shape, TurnType
    <3> QED BY <3>1, <3>4, <3>5
  <2> QED BY <2>1, <2>2, <2>3
<1>3. NoTools(turn') => NoTools(turn)
  <2>1. Len(turn.blocks) \in Nat /\ Len(t.blocks) \in Nat
    BY DEF IInv, Shape, TurnType
  <2> QED BY <1>2, <2>1 DEF NoTools
<1>4. ~turn'.used \/ NoTools(turn') => mistakes < MistakeLimit
  BY <1>2, <1>3 DEF AInv
<1>5. Counted(turn, presenters, mistakes)'
  BY <1>2 DEF Counted
<1>6. ~aborted => Answers(turn, presenters, late)'
  BY <1>2 DEF Answers, Accounted
<1> QED BY <1>4, <1>5, <1>6 DEF AInv, MistakesBounded, NoTools

\* A chunk adds blocks and presents them.
LEMMA ChunkAccounts ==
  ASSUME LoopAssumption, IInv, AInv, Chunk
  PROVE  AInv'
<1>1. PICK n \in 1..MaxBlocks, open \in BOOLEAN :
        /\ Grows(turn.blocks, n, open)
        /\ \E kinds \in [NewTools(turn.blocks, n) -> Tools] :
             CallPresent(Read(turn, n, kinds, open), presenters)
  BY DEF Chunk
<1>2. PICK kinds \in [NewTools(turn.blocks, n) -> Tools] :
        CallPresent(Read(turn, n, kinds, open), presenters)
  BY <1>1
<1> DEFINE t == Read(turn, n, kinds, open)
           s == Parsed(turn.blocks, n, kinds, open)
           r == turn.ready /\ n = Len(turn.blocks)
<1>3. /\ phase = "streaming" /\ ~turn.completed
      /\ phase' \in {"stopped", "ended", "streaming"}
      /\ UNCHANGED <<epoch, late, cut, mistakes, aborted>>
  BY DEF Chunk, AfterChunk, IInv
<1>4. /\ Shape(t) /\ Holds(t, presenters)
      /\ t.locked = turn.locked /\ t.index = turn.index
  BY <1>1, <1>3, ChunkShape
<1>5. /\ turn \in TurnType /\ Len(turn.blocks) \in Nat
      /\ n \in Nat /\ Len(turn.blocks) <= n
  BY <1>1 DEF IInv, TypeOK, TurnType, Grows, LoopAssumption
<1>6. Len(s) = n
  BY <1>1, ParsedShape DEF IInv
<1>7. \A b \in 1..Len(turn.blocks) : s[b].kind = turn.blocks[b].kind
  BY <1>5 DEF Parsed
<1>8. t = [turn EXCEPT !.blocks = s, !.ready = r]
  BY <1>5 DEF Read, TurnType
<1> HIDE DEF s, r
<1>9. /\ t.blocks = s /\ t.answers = turn.answers /\ t.used = turn.used
      /\ t.rejected = turn.rejected
  BY <1>5, <1>8 DEF TurnType
<1>10. CallPresent(t, presenters) /\ InTurn
  BY <1>2, <1>3 DEF InTurn
<1> HIDE DEF t
<1> QED BY <1>3, <1>4, <1>5, <1>6, <1>7, <1>9, <1>10, ReadAccounts

\* The end of the stream presents the last block, or counts a mistake when there
\* is none.
LEMMA FinishReadingAccounts ==
  ASSUME LoopAssumption, IInv, AInv, FinishReading
  PROVE  AInv'
<1> DEFINE n == Len(turn.blocks)
           yes == TRUE
           s == [b \in 1..n |-> [kind |-> turn.blocks[b].kind, partial |-> FALSE]]
           t == [turn EXCEPT !.completed = yes, !.blocks = s]
<1>0. /\ turn \in TurnType /\ n \in Nat /\ turn.index \in Nat \ {0}
      /\ mistakes \in Nat /\ MistakeLimit \in Nat /\ InTurn
      /\ UNCHANGED <<epoch, late, cut, aborted>>
  BY DEF FinishReading, IInv, TypeOK, TurnType, LoopAssumption, InTurn
<1>1. \/ aborted /\ LoopEnds /\ UNCHANGED <<turn, presenters, mistakes>>
      \/ /\ ~aborted /\ ~HasText
         /\ turn' = t /\ phase' = "start" /\ mistakes' = mistakes + 1
         /\ UNCHANGED presenters
      \/ /\ ~aborted /\ HasText
         /\ CallPresent(t, presenters) \/ (turn' = t /\ UNCHANGED presenters)
         /\ phase' = "waitReady" /\ UNCHANGED mistakes
  BY <1>0 DEF FinishReading
<1>2. /\ Len(s) = n /\ s \in Seq(BlockType)
      /\ \A b \in 1..n : s[b].kind = turn.blocks[b].kind /\ s[b].partial = FALSE
  <2>1. turn.blocks \in Seq(BlockType)
    BY <1>0 DEF TurnType
  <2>2. \A b \in 1..n : turn.blocks[b] \in BlockType
    BY <2>1, ElementOfSeq
  <2>3. \A b \in 1..n : [kind |-> turn.blocks[b].kind, partial |-> FALSE] \in BlockType
    BY <2>2 DEF BlockType
  <2> QED BY <1>0, <2>3
<1>3. yes \in BOOLEAN
  OBVIOUS
<1> HIDE DEF s, yes
<1>4. /\ t \in TurnType /\ t.blocks = s /\ t.answers = turn.answers
      /\ t.used = turn.used /\ t.rejected = turn.rejected
      /\ t.index = turn.index /\ t.ready = turn.ready /\ t.locked = turn.locked
  BY <1>0, <1>2, <1>3 DEF TurnType
<1> HIDE DEF t
<1>5. Shape(t)
  BY <1>0, <1>2, <1>4 DEF IInv, Shape
<1>6. Holds(t, presenters)
  BY <1>0, <1>2, <1>4 DEF IInv, Holds
<1>7. CASE aborted
  BY <1>0, <1>1, <1>7 DEF LoopEnds, AInv, Counted, MistakesBounded, InTurn
<1>8. CASE ~aborted /\ ~HasText
  <2>0. n = 0
    BY <1>8 DEF HasText
  <2>1. turn' = t /\ presenters' = presenters /\ phase' = "start"
        /\ mistakes' = mistakes + 1
    BY <1>1, <1>8
  <2>2. presenters = {}
    BY <1>0, <2>0 DEF IInv, Holds
  <2>3. mistakes' <= MistakeLimit
    <3>1. NoTools(turn)
      BY <2>0 DEF NoTools
    <3> QED BY <1>0, <2>1, <3>1 DEF AInv
  <2>4. Counted(turn, presenters, mistakes)'
    BY <1>0, <1>4, <2>1, <2>2 DEF AInv, Counted
  <2>5. Answers(turn, presenters, late)' /\ turn'.index > Len(turn'.blocks)
    BY <1>0, <1>2, <1>4, <2>0, <2>1, <2>2 DEF Answers
  <2> QED BY <2>1, <2>3, <2>4, <2>5 DEF AInv, MistakesBounded, InTurn
<1>9. CASE ~aborted /\ HasText
  <2>1. n <= Len(t.blocks)
    BY <1>0, <1>2, <1>4
  <2> QED BY <1>0, <1>1, <1>2, <1>4, <1>5, <1>6, <1>9, <2>1, ReadAccounts
<1> QED BY <1>7, <1>8, <1>9

\* A say() of somebody else changes nothing that is accounted for.
LEMMA SupersededAccounts ==
  ASSUME IInv, AInv, presenters' = Superseded(presenters),
         UNCHANGED <<turn, epoch, cut, late, mistakes>>
  PROVE  /\ Counted(turn, presenters, mistakes)'
         /\ ~aborted => Answers(turn, presenters, late)'
<1> DEFINE f(p) == [p EXCEPT !.at = IF @ \in {"ask", "final"} THEN "ignored" ELSE @]
<1>1. presenters' = {f(p) : p \in presenters}
  BY DEF Superseded
<1>2. \A p \in presenters : /\ f(p).block = p.block /\ f(p).kind = p.kind
                            /\ f(p).at = "say" <=> p.at = "say"
                            /\ f(p).at = "check" <=> p.at = "check"
                            /\ f(p).at = "save" <=> p.at = "save"
  BY DEF IInv, Holds, PresenterType
<1> HIDE DEF f
<1>3. presenters = {} => presenters' = {}
  BY <1>1
<1>4. Counted(turn, presenters, mistakes)'
  BY <1>1, <1>2, <1>3 DEF AInv, Counted
<1>5. ~aborted => Answers(turn, presenters, late)'
  BY <1>1, <1>2 DEF AInv, Answers, Accounted
<1> QED BY <1>4, <1>5

\* Every other step.
LEMMA OtherAccounts ==
  ASSUME LoopAssumption, IInv, AInv,
         \/ BeginRequest \/ AskAfterMistakes \/ ReasoningChunk \/ UsageChunk
         \/ StreamFails \/ GoOn \/ LateResult \/ Abort \/ Replaced \/ InitialCheckpoint
         \/ UNCHANGED vars
  PROVE  AInv'
<1>0. /\ mistakes \in Nat /\ MistakeLimit \in Nat \ {0} /\ MaxBlocks \in Nat
      /\ mistakes <= MistakeLimit /\ turn \in TurnType /\ aborted \in BOOLEAN
  BY DEF IInv, TypeOK, AInv, MistakesBounded, LoopAssumption
<1>1. CASE BeginRequest
  <2>0. mistakes' < MistakeLimit /\ mistakes' <= mistakes /\ mistakes' \in Nat
    BY <1>0, <1>1 DEF BeginRequest
  <2>1. CASE aborted
    <3>1. /\ phase' = "stopped" /\ aborted'
          /\ UNCHANGED <<turn, epoch, cut, presenters, late>>
      BY <1>1, <2>1 DEF BeginRequest, LoopEnds
    <3>2. Counted(turn, presenters, mistakes)'
      BY <1>0, <2>0, <3>1 DEF AInv, Counted
    <3> QED BY <1>0, <2>0, <3>1, <3>2 DEF AInv, MistakesBounded, InTurn
  <2>2. CASE ~aborted
    <3>1. /\ turn' = FreshTurn /\ phase' = "streaming" /\ presenters' = {}
      BY <1>1, <2>2 DEF BeginRequest, IInv
    <3>2. /\ FreshTurn.blocks = <<>> /\ Len(<<>>) = 0 /\ ~FreshTurn.rejected
          /\ \A b \in 1..MaxBlocks : FreshTurn.answers[b] = {}
      BY DEF FreshTurn
    <3>3. Counted(turn, presenters, mistakes)'
      BY <3>1, <3>2 DEF Counted
    <3>4. Answers(turn, presenters, late)'
      BY <3>1, <3>2 DEF Answers
    <3> QED BY <1>0, <2>0, <3>1, <3>3, <3>4 DEF AInv, MistakesBounded, InTurn
  <2> QED BY <2>1, <2>2
<1>2. CASE AskAfterMistakes
  <2>1. /\ phase' \in {"stopped", "mistakeAsk"} /\ phase = "start"
        /\ UNCHANGED <<turn, epoch, presenters, late, cut, mistakes, aborted>>
    BY <1>2 DEF AskAfterMistakes
  <2> QED BY <2>1 DEF AInv, MistakesBounded, Counted, Answers, Accounted, InTurn
<1>3. CASE ReasoningChunk \/ UsageChunk
  <2>1. /\ presenters' = presenters \/ presenters' = Superseded(presenters)
        /\ phase = "streaming" /\ phase' \in {"streaming", "ended", "stopped"}
        /\ UNCHANGED <<turn, epoch, late, cut, mistakes, aborted>>
    BY <1>3 DEF ReasoningChunk, UsageChunk, AfterChunk
  <2>2. /\ Counted(turn, presenters, mistakes)'
        /\ ~aborted => Answers(turn, presenters, late)'
    BY <2>1, SupersededAccounts DEF AInv, Counted, Answers, Accounted
  <2> QED BY <2>1, <2>2 DEF AInv, MistakesBounded, InTurn, NoTools
<1>4. CASE StreamFails
  <2>1. /\ phase' = "stopped" /\ aborted'
        /\ UNCHANGED <<turn, epoch, presenters, late, cut, mistakes>>
    BY <1>4 DEF StreamFails, LoopEnds, IInv
  <2> QED BY <2>1 DEF AInv, MistakesBounded, Counted, InTurn
<1>5. CASE GoOn
  <2>1. /\ presenters' = {} /\ turn' = turn /\ turn.index > Len(turn.blocks)
        /\ phase = "waitReady" /\ phase' = "start"
        /\ mistakes' = mistakes \/ (NoTools(turn) /\ mistakes' = mistakes + 1)
        /\ UNCHANGED <<turn, epoch, presenters, late, cut, aborted>>
    BY <1>5 DEF GoOn, IInv, Holds, NoTools
  <2>2. mistakes' <= MistakeLimit
    BY <1>0, <2>1 DEF AInv, InTurn
  <2>3. Counted(turn, presenters, mistakes)'
    BY <2>1 DEF AInv, Counted
  <2>4. ~aborted => Answers(turn, presenters, late)'
    BY <2>1 DEF AInv, Answers, Accounted
  <2> QED BY <2>1, <2>2, <2>3, <2>4 DEF AInv, MistakesBounded, InTurn
<1>6. CASE LateResult
  <2>1. /\ turn'.used /\ turn'.rejected = turn.rejected
        /\ turn'.blocks = turn.blocks /\ turn'.index = turn.index
    <3>1. PICK l \in late : turn' = IF l.epoch = epoch THEN Result(turn, l.block)
                                    ELSE [turn EXCEPT !.used = TRUE]
      BY <1>6 DEF LateResult
    <3>2. l.block \in 1..MaxBlocks /\ TypeOK
      BY DEF IInv, TypeOK
    <3>3. Touched(Result(turn, l.block)) /\ Result(turn, l.block).used
          /\ Result(turn, l.block).rejected = turn.rejected
      BY <3>2, AnswersTouch, AnswersHandle
    <3> QED BY <1>0, <3>1, <3>3 DEF Touched, TurnType
  <2>2. /\ cut' /\ UNCHANGED <<phase, epoch, aborted, presenters, mistakes>>
    BY <1>6 DEF LateResult, PresenterFrame
  <2>3. Counted(turn, presenters, mistakes)'
    BY <2>1, <2>2 DEF AInv, Counted
  <2>4. Answers(turn, presenters, late)'
    BY <2>2 DEF Answers, Accounted
  <2> QED BY <2>1, <2>2, <2>3, <2>4 DEF AInv, MistakesBounded, InTurn, NoTools
<1>7. CASE Abort \/ Replaced
  <2>1. /\ aborted' /\ UNCHANGED <<phase, turn, epoch, presenters, late, cut, mistakes>>
    BY <1>7 DEF Abort, Replaced
  <2> QED BY <2>1 DEF AInv, MistakesBounded, Counted, InTurn, NoTools
<1>8. CASE InitialCheckpoint
  <2>1. /\ presenters' = Superseded(presenters) /\ phase' \in {phase, "stopped"}
        /\ UNCHANGED <<turn, epoch, late, cut, mistakes, aborted>>
    BY <1>8 DEF InitialCheckpoint
  <2>2. /\ Counted(turn, presenters, mistakes)'
        /\ ~aborted => Answers(turn, presenters, late)'
    BY <2>1, SupersededAccounts
  <2> QED BY <2>1, <2>2 DEF AInv, MistakesBounded, InTurn, NoTools
<1>9. CASE UNCHANGED vars
  BY <1>9 DEF vars, AInv, MistakesBounded, Counted, Answers, Accounted, InTurn, NoTools
<1> QED BY <1>1, <1>2, <1>3, <1>4, <1>5, <1>6, <1>7, <1>8, <1>9

\* A tool starts to run in a presenter's hands only.
LEMMA RanBy ==
  ASSUME [Next]_vars
  PROVE  ran' \subseteq ran \/ \E p \in presenters : ran' = ran \cup {p.block}
<1>1. CASE \E p \in presenters : Presenter(p)
  <2>1. PICK p \in presenters : Presenter(p)
    BY <1>1
  <2>2. ran' = ran \/ ran' = ran \cup {p.block}
    BY <2>1 DEF Presenter, TextSaid, PartialToolShown, Concludes, WriteSilently,
         AsksApproval, RunsUnasked, OffersCompletion, Approved, Rejected, RunDone,
         Saved, CommandFeedback, CompletionAccepted, CompletionFeedback,
         FinishSubTask, ToolFails, DiesOfAbort
  <2> QED BY <2>2
<1>2. CASE Reader
  BY <1>2 DEF Reader, BeginRequest, AskAfterMistakes, Chunk, ReasoningChunk,
       UsageChunk, FinishReading, StreamFails, GoOn
<1>3. CASE LateResult \/ Abort \/ Replaced \/ InitialCheckpoint \/ UNCHANGED vars
  BY <1>3 DEF LateResult, Abort, Replaced, InitialCheckpoint, vars
<1> QED BY <1>1, <1>2, <1>3 DEF Next

-----------------------------------------------------------------------------
(* The theorems about answers and mistakes.                                *)

\* The inductive invariant behind mistakes and answers: what lies behind the
\* presenting index has its answer, a rejection leaves no presenter behind, a
\* result is of the block being presented, and only a check of a tool, made once
\* for each, can bring the count up to its limit.
THEOREM AccountsInvariant == Spec => [](IInv /\ AInv)
<1> USE LoopAssumption
<1>1. Init => AInv
  <2> SUFFICES ASSUME Init PROVE AInv
    OBVIOUS
  <2>1. /\ turn.blocks = <<>> /\ Len(<<>>) = 0 /\ ~turn.rejected /\ turn.index = 1
        /\ \A b \in 1..MaxBlocks : turn.answers[b] = {}
    BY DEF Init, FreshTurn
  <2>2. phase = "start" /\ presenters = {} /\ mistakes = 0 /\ 0 <= MistakeLimit
    BY DEF Init, LoopAssumption
  <2> QED BY <2>1, <2>2 DEF AInv, MistakesBounded, Counted, Answers, InTurn
<1>2. IInv /\ AInv /\ [Next]_vars => AInv'
  <2> SUFFICES ASSUME IInv, AInv, [Next]_vars PROVE AInv'
    OBVIOUS
  <2>1. CASE Chunk
    BY <2>1, ChunkAccounts
  <2>2. CASE FinishReading
    BY <2>2, FinishReadingAccounts
  <2>3. CASE \E p \in presenters : Presenter(p)
    BY <2>3, PresenterAccounts
  <2>4. CASE \/ BeginRequest \/ AskAfterMistakes \/ ReasoningChunk \/ UsageChunk
             \/ StreamFails \/ GoOn \/ LateResult \/ Abort \/ Replaced \/ InitialCheckpoint
             \/ UNCHANGED vars
    BY <2>4, OtherAccounts
  <2> QED BY <2>1, <2>2, <2>3, <2>4 DEF Next, Reader
<1> QED BY <1>1, <1>2, LoopInvariant, PTL DEF Spec

\* Whatever handlers, empty and toolless messages count mistakes, and in
\* whatever order, the user is asked before there are more than the limit.
THEOREM MistakesStayBounded == Spec => []MistakesBounded
<1>1. AInv => MistakesBounded
  BY DEF AInv
<1> QED BY <1>1, AccountsInvariant, PTL

\* When the next request starts, every tool use of the message has its answer,
\* for messages of every length and with every mix of tools.
THEOREM EveryToolAnswered == Spec => []ToolsAnswered
<1>1. IInv /\ AInv => ToolsAnswered
  <2> SUFFICES ASSUME IInv, AInv, phase \in {"start", "mistakeAsk"}, ~aborted,
                      NEW b \in 1..Len(turn.blocks), IsTool(b)
               PROVE  Accounted(turn, b, late)
    BY DEF ToolsAnswered, Accounted
  <2>1. turn.index > Len(turn.blocks) /\ Answers(turn, presenters, late)
    BY DEF AInv
  <2>2. Len(turn.blocks) \in Nat /\ turn.index \in Nat
    BY DEF IInv, Shape, TurnType
  <2> QED BY <2>1, <2>2 DEF Answers
<1> QED BY <1>1, AccountsInvariant, PTL

\* Once the user has rejected a tool, no tool of that message runs, however
\* many are still to come.
THEOREM RejectionStops == Spec => NoToolAfterRejection
<1>1. AInv /\ [Next]_vars => [turn.rejected /\ epoch' = epoch => ran' \subseteq ran]_vars
  <2> SUFFICES ASSUME AInv, [Next]_vars, turn.rejected PROVE ran' \subseteq ran
    OBVIOUS
  <2>1. presenters = {}
    BY DEF AInv, Counted
  <2> QED BY <2>1, RanBy
<1> QED BY <1>1, AccountsInvariant, PTL DEF Spec, NoToolAfterRejection

\* After the result of one tool no other tool of the message starts to run,
\* for messages of every length.
THEOREM ResultStopsOthers == Spec => SecondToolRefused
<1>1. IInv /\ AInv /\ [Next]_vars
        => [\A b \in ran' \ ran : \A c \in 1..MaxBlocks \ {b} :
              "result" \in turn.answers[c] => cut]_vars
  <2> SUFFICES ASSUME IInv, AInv, [Next]_vars, NEW b \in ran' \ ran,
                      NEW c \in 1..MaxBlocks \ {b}, "result" \in turn.answers[c], ~cut
               PROVE  FALSE
    BY DEF IInv, TypeOK
  <2>1. PICK p \in presenters : ran' = ran \cup {p.block}
    BY RanBy
  <2>2. p.block = b
    BY <2>1
  <2>3. p.block = c
    BY DEF AInv, Counted
  <2> QED BY <2>2, <2>3
<1> QED BY <1>1, AccountsInvariant, PTL DEF Spec, SecondToolRefused

===============================================================================
