--------------------------- MODULE TurnProtocol_proof ---------------------------
(***************************************************************************)
(* RequestLoop implements TurnProtocol, for messages of any length and any *)
(* set of tools: the reader, the lock, the note and the presenters that    *)
(* call each other do what one worker would.  And a tool that has run is   *)
(* never refused as well.                                                  *)
(***************************************************************************)
EXTENDS RequestLoop_proof

\* The tools that were answered with a refusal, and whether a block still grows.
Refused(t) == {b \in 1..MaxBlocks : "skipped" \in t.answers[b]}

Growing(t) == \E b \in 1..Len(t.blocks) : t.blocks[b].partial

\* A block that is shown half is not in the hands of its tool; what has run lies
\* behind the index, or at it while its presenter works; what was refused lies
\* behind it and has not run.
PInv ==
  /\ \A p \in presenters : p.partial => p.at \in {"say", "check"}
  /\ \A b \in ran : b <= turn.index
  /\ turn.index \in ran => aborted \/ \E p \in presenters : ~p.partial
  /\ \A b \in Refused(turn) : b < turn.index /\ b \notin ran

-----------------------------------------------------------------------------
(* Calls of presentAssistantMessage.                                       *)

\* What a call of presentAssistantMessage does with t, when nobody presents.
Called(t) ==
  /\ turn'.blocks = t.blocks
  /\ Skipping(turn') = Skipping(t)
  /\ turn'.index \in Nat /\ turn'.index >= t.index
  /\ \A b \in Refused(turn') :
       b \in Refused(t) \/ (b >= t.index /\ b < turn'.index)
  /\ \A p \in presenters' : p.at \in {"say", "check"}

\* A call that finds the lock free is a worker who rests, takes a block, or
\* refuses all that are left.
LEMMA CallGoesOn ==
  ASSUME LoopAssumption, NEW t, Shape(t), Holds(t, {}), ~t.locked, ~aborted',
         turn' = Presented(t), presenters' = Launched(t), Refused(t) = Refused(turn)
  PROVE  Called(t) /\ Turn!GoesOn(t.index - 1)
<1> DEFINE n == Len(t.blocks)
           done == t.index - 1
<1>0. /\ t \in TurnType /\ n \in Nat /\ n <= MaxBlocks /\ MaxBlocks \in Nat
      /\ t.index \in Nat \ {0} /\ t.index <= n + 1
      /\ done \in Nat /\ done + 1 = t.index
  BY DEF Shape, TurnType, LoopAssumption
<1>1. CASE t.index > n
  <2>1. /\ turn' = [t EXCEPT !.pending = FALSE, !.ready = @ \/ t.completed]
        /\ presenters' = {}
    BY <1>0, <1>1 DEF Presented, Launched, TurnType
  <2>2. /\ turn'.blocks = t.blocks /\ turn'.index = t.index
        /\ turn'.answers = t.answers
        /\ turn'.rejected = t.rejected /\ turn'.used = t.used
    BY <1>0, <2>1 DEF TurnType
  <2>3. Refused(turn') = Refused(t) /\ Refused(turn)' = Refused(turn)
    BY <2>2 DEF Refused
  <2>4. Called(t)
    BY <1>0, <2>1, <2>2, <2>3 DEF Called, Skipping
  <2>5. Turn!Rests(done)
    BY <1>0, <1>1, <2>1, <2>2, <2>3 DEF Turn!Rests, Refused
  <2> QED BY <2>4, <2>5 DEF Turn!GoesOn
<1>2. CASE t.index <= n /\ Skipping(t)
  <2> DEFINE as == [b \in 1..MaxBlocks |->
                      IF b \in t.index..Len(t.blocks) /\ IsTool(b)
                      THEN t.answers[b] \cup {"skipped"} ELSE t.answers[b]]
  <2>1. turn' = SkipRest(t) /\ presenters' = {}
    BY <1>0, <1>2 DEF Presented, Launched, TurnType
  <2>2. /\ turn'.blocks = t.blocks /\ turn'.index = n + 1
        /\ turn'.answers = as
        /\ turn'.rejected = t.rejected /\ turn'.used = t.used
    BY <1>0, <2>1 DEF SkipRest, TurnType
  <2>4. Refused(turn') = Refused(t) \cup {b \in t.index..n : IsTool(b)}
    BY <1>0, <2>2 DEF Refused
  <2> HIDE DEF as
  <2>5. Called(t)
    BY <1>0, <1>2, <2>1, <2>2, <2>4 DEF Called, Skipping
  <2>6. Turn!Refuses(done)
    <3>1. Refused(turn)' = Refused(turn) \cup {b \in (done + 1)..n : Turn!IsTool(b)}
      BY <1>0, <2>4 DEF Refused, IsTool, Turn!IsTool
    <3>2. Skipping(turn)' /\ ~aborted'
      BY <1>2, <2>2 DEF Skipping
    <3>3. (turn.index - 1)' = n /\ Len(turn.blocks)' = n /\ (presenters # {})' = FALSE
      BY <1>0, <2>1, <2>2
    <3> QED BY <3>1, <3>2, <3>3 DEF Turn!Refuses, Refused
  <2> QED BY <2>5, <2>6 DEF Turn!GoesOn
<1>3. CASE t.index <= n /\ ~Skipping(t)
  <2>1. turn' = [t EXCEPT !.locked = TRUE, !.pending = FALSE]
    BY <1>0, <1>3 DEF Presented, TurnType
  <2>2. presenters' # {} /\ \A p \in presenters' : p.at \in {"say", "check"}
    <3> DEFINE a == IF IsTool(t.index) THEN "check" ELSE "say"
               p == [epoch |-> epoch, block |-> t.index,
                     kind |-> t.blocks[t.index].kind,
                     partial |-> t.blocks[t.index].partial, at |-> a]
    <3>1. presenters' = {p}
      BY <1>0, <1>3 DEF Launched
    <3>2. p.at = a /\ a \in {"say", "check"}
      OBVIOUS
    <3> HIDE DEF p, a
    <3> QED BY <3>1, <3>2
  <2>3. /\ turn'.blocks = t.blocks /\ turn'.index = t.index
        /\ turn'.answers = t.answers
        /\ turn'.rejected = t.rejected /\ turn'.used = t.used
    BY <1>0, <2>1 DEF TurnType
  <2>4. Refused(turn') = Refused(t) /\ Refused(turn)' = Refused(turn)
    BY <2>3 DEF Refused
  <2>5. Called(t)
    BY <1>0, <2>2, <2>3, <2>4 DEF Called, Skipping
  <2>6. Turn!Takes(done)
    BY <1>0, <1>3, <2>2, <2>3, <2>4 DEF Turn!Takes, Refused, Skipping
  <2> QED BY <2>5, <2>6 DEF Turn!GoesOn
<1> QED BY <1>0, <1>1, <1>2, <1>3

-----------------------------------------------------------------------------
(* The end of a call.                                                      *)

\* The streaming state as a handler leaves it: no refusal has been given, and a
\* turn closed to tools stays closed.
Answering(t) ==
  /\ Touched(t)
  /\ Refused(t) = Refused(turn)
  /\ Skipping(turn) => Skipping(t)

\* Whatever a handler adds to the answers is no refusal.
LEMMA HandlersAnswer ==
  ASSUME LoopAssumption, TypeOK, NEW b \in 1..MaxBlocks
  PROVE  /\ Answering(turn) /\ Answering(Answered(turn, b, "feedback"))
         /\ Answering(Result(turn, b)) /\ Skipping(Result(turn, b))
         /\ \A r \in BOOLEAN : /\ Answering([Result(turn, b) EXCEPT !.rejected = r])
                               /\ Skipping([Result(turn, b) EXCEPT !.rejected = r])
<1>0. /\ turn \in TurnType
      /\ turn.answers \in [1..MaxBlocks -> SUBSET {"result", "skipped", "feedback"}]
  BY DEF TypeOK, TurnType
<1>1. /\ Touched(turn) /\ Touched(Result(turn, b))
      /\ Touched(Answered(turn, b, "feedback"))
  BY AnswersTouch
<1>2. ASSUME NEW w \in {"result", "feedback"}
      PROVE  /\ Refused(Answered(turn, b, w)) = Refused(turn)
             /\ Answered(turn, b, w) \in TurnType
             /\ Answered(turn, b, w).used = turn.used
             /\ Answered(turn, b, w).rejected = turn.rejected
  <2>1. /\ Answered(turn, b, w).answers =
              [turn.answers EXCEPT ![b] = turn.answers[b] \cup {w}]
        /\ Answered(turn, b, w).used = turn.used
        /\ Answered(turn, b, w).rejected = turn.rejected
    BY <1>0 DEF Answered, TurnType
  <2>2. \A c \in 1..MaxBlocks :
          Answered(turn, b, w).answers[c] = IF c = b THEN turn.answers[b] \cup {w}
                                            ELSE turn.answers[c]
    BY <1>0, <2>1
  <2>3. w # "skipped"
    OBVIOUS
  <2>4. Refused(Answered(turn, b, w)) = Refused(turn)
    BY <2>2, <2>3 DEF Refused
  <2>5. Answered(turn, b, w) \in TurnType
    BY AnswersTouch DEF Touched
  <2> QED BY <2>1, <2>4, <2>5
<1>3. /\ Result(turn, b).answers = Answered(turn, b, "result").answers
      /\ Result(turn, b).used /\ Result(turn, b).rejected = turn.rejected
  BY <1>2 DEF Result, TurnType
<1>4. \A r \in BOOLEAN :
        /\ Touched([Result(turn, b) EXCEPT !.rejected = r])
        /\ [Result(turn, b) EXCEPT !.rejected = r].answers = Result(turn, b).answers
        /\ [Result(turn, b) EXCEPT !.rejected = r].used = Result(turn, b).used
  BY <1>1 DEF Touched, TurnType
<1>5. Answering(turn) /\ Answering(Answered(turn, b, "feedback"))
  BY <1>1, <1>2 DEF Answering, Skipping
<1>6. Answering(Result(turn, b)) /\ Skipping(Result(turn, b))
  BY <1>1, <1>2, <1>3 DEF Answering, Skipping, Refused
<1>7. \A r \in BOOLEAN : /\ Answering([Result(turn, b) EXCEPT !.rejected = r])
                         /\ Skipping([Result(turn, b) EXCEPT !.rejected = r])
  BY <1>3, <1>4, <1>6 DEF Answering, Skipping, Refused
<1> QED BY <1>5, <1>6, <1>7

\* The end of presentAssistantMessage is the worker leaving its block, for good
\* or until more of it has come.
LEMMA FinishLeaves ==
  ASSUME LoopAssumption, IInv, PInv, NEW p \in presenters, NEW t, Answering(t),
         Finish(p, t), PresenterFrame, ran' = ran
  PROVE  Turn!Leave /\ PInv'
<1> DEFINE moves == ~p.partial \/ Skipping(t)
           no == FALSE
           r == t.ready \/ (moves /\ t.index = Len(t.blocks))
           i == IF moves THEN t.index + 1 ELSE t.index
           u == [t EXCEPT !.locked = no, !.ready = r, !.index = i]
           n == Len(turn.blocks)
<1>0. /\ t \in TurnType /\ turn \in TurnType /\ n \in Nat /\ n <= MaxBlocks
      /\ turn.index \in Nat \ {0} /\ turn.index <= n /\ ~turn.ready
      /\ p \in PresenterType /\ presenters = {p} /\ aborted \in BOOLEAN
      /\ aborted' = aborted /\ Shape(turn) /\ ran \subseteq 1..MaxBlocks
      /\ MaxBlocks \in Nat
  BY DEF IInv, TypeOK, Holds, Answering, Touched, TurnType, PresenterFrame,
         LoopAssumption
<1>1. /\ t.blocks = turn.blocks /\ t.index = turn.index /\ t.ready = turn.ready
      /\ t.pending = turn.pending /\ t.completed = turn.completed
  BY DEF Answering, Touched
<1>2. moves \in BOOLEAN /\ p.partial \in BOOLEAN
  BY <1>0 DEF PresenterType, Skipping, TurnType
<1>3. /\ u \in TurnType /\ u.blocks = turn.blocks /\ u.answers = t.answers
      /\ u.rejected = t.rejected /\ u.used = t.used
      /\ u.completed = turn.completed
      /\ ~u.locked
      /\ u.ready <=> (moves /\ turn.index = n)
      /\ u.index = (IF moves THEN turn.index + 1 ELSE turn.index)
      /\ u.pending = turn.pending
  <2>1. /\ no \in BOOLEAN /\ r \in BOOLEAN /\ i \in Nat \ {0} /\ ~no
        /\ r <=> (moves /\ turn.index = n)
        /\ i = IF moves THEN turn.index + 1 ELSE turn.index
    BY <1>0, <1>1, <1>2
  <2> HIDE DEF no, r, i
  <2>2. u \in TurnType
    BY <1>0, <2>1 DEF TurnType
  <2>3. /\ u.blocks = t.blocks /\ u.answers = t.answers
        /\ u.rejected = t.rejected /\ u.used = t.used
        /\ u.completed = t.completed
        /\ u.locked = no /\ u.ready = r /\ u.index = i /\ u.pending = t.pending
    BY <1>0 DEF TurnType
  <2> HIDE DEF u
  <2> QED BY <1>1, <2>1, <2>2, <2>3
<1>4. \/ CallPresent(u, presenters \ {p})
      \/ /\ ~((moves /\ u.index <= Len(u.blocks)) \/ u.pending)
         /\ turn' = u /\ presenters' = presenters \ {p}
  BY DEF Finish
<1>5. /\ moves => ~p.partial \/ Skipping(u)
      /\ ~moves => p.partial
      /\ (Skipping(u) <=> Skipping(t)) /\ (Skipping(turn) => Skipping(u))
  BY <1>2, <1>3 DEF Skipping, Answering
<1>6. presenters \ {p} = {} /\ Refused(u) = Refused(turn)
  BY <1>0, <1>3 DEF Refused, Answering
<1> HIDE DEF u, moves
<1>7. Shape(u) /\ Holds(u, {})
  BY <1>0, <1>2, <1>3 DEF Shape, Holds
<1>8. Called(u) /\ Turn!GoesOn(u.index - 1)
  <2>1. CASE CallPresent(u, {}) /\ ~aborted
    <3>1. turn' = Presented(u) /\ presenters' = Launched(u)
      BY <2>1 DEF CallPresent
    <3> QED BY <1>0, <1>3, <1>6, <1>7, <2>1, <3>1, CallGoesOn
  <2>2. ASSUME turn' = u, presenters' = {},
               aborted \/ ~((moves /\ u.index <= n) \/ u.pending)
        PROVE  Called(u) /\ Turn!GoesOn(u.index - 1)
    <3>1. Called(u)
      BY <1>0, <1>3, <2>2 DEF Called
    <3>2. ASSUME ~aborted
          PROVE  u.index - 1 = n \/ (u.index = n /\ turn.blocks[n].partial)
      <4>1. CASE moves
        BY <1>0, <1>3, <2>2, <3>2, <4>1
      <4>2. CASE ~moves
        <5>1. p.partial /\ ~turn.pending /\ Settled(turn, presenters)
          BY <1>0, <1>3, <1>5, <2>2, <3>2, <4>2 DEF IInv
        <5>2. turn.blocks[turn.index].partial
          BY <1>0, <5>1 DEF Settled
        <5> QED BY <1>0, <1>3, <4>2, <5>2 DEF Shape
      <4> QED BY <1>2, <4>1, <4>2
    <3>3. Refused(turn)' = Refused(turn)
      BY <1>6, <2>2 DEF Refused
    <3>4. \/ aborted'
          \/ u.index - 1 = Len(turn.blocks)'
          \/ /\ \E b \in 1..Len(turn'.blocks) : turn'.blocks[b].partial
             /\ u.index - 1 + 1 = Len(turn.blocks)'
      BY <1>0, <1>3, <2>2, <3>2
    <3>5. Turn!Rests(u.index - 1)
      BY <2>2, <3>3, <3>4 DEF Turn!Rests, Refused
    <3> QED BY <3>1, <3>5 DEF Turn!GoesOn
  <2>3. CASE CallPresent(u, {}) /\ aborted
    BY <2>2, <2>3 DEF CallPresent
  <2> QED BY <1>0, <1>3, <1>4, <1>6, <2>1, <2>2, <2>3
<1>9. Turn!Leave
  <2>1. /\ presenters # {} /\ Stage' = Stage /\ aborted' = aborted /\ ran' = ran
        /\ Len(turn.blocks)' = n /\ turn'.blocks = turn.blocks
    BY <1>0, <1>3, <1>8 DEF PresenterFrame, Stage, Called
  <2>2. Skipping(turn)' = Skipping(u) /\ Skipping(u) \in BOOLEAN
        /\ Skipping(turn) \in BOOLEAN
    BY <1>0, <1>3, <1>8 DEF Called, Skipping, TurnType
  <2>3. Skipping(turn)' \in {Skipping(turn), TRUE}
    BY <1>5, <2>2
  <2>4. CASE moves
    <3>1. Turn!GoesOn(turn.index - 1 + 1)
      <4>1. u.index - 1 = turn.index - 1 + 1
        BY <1>0, <1>3, <2>4
      <4> QED BY <1>8, <4>1 DEF Turn!GoesOn, Turn!Rests, Turn!Takes, Turn!Refuses
    <3>2. Turn!Complete(turn.index - 1 + 1) \/ Skipping(turn)'
      <4>1. CASE ~p.partial
        <5>1. ~turn.blocks[turn.index].partial
          BY <1>0, <4>1 DEF IInv, Holds
        <5>2. turn.index < n \/ ~Growing(turn)
          BY <1>0, <5>1 DEF Growing, Shape
        <5> QED BY <1>0, <5>2 DEF Turn!Complete, Growing
      <4> QED BY <1>5, <2>2, <2>4, <4>1
    <3> QED BY <2>1, <2>3, <3>1, <3>2 DEF Turn!Leave
  <2>5. CASE ~moves
    <3>1. Turn!GoesOn(turn.index - 1)
      <4>1. u.index - 1 = turn.index - 1
        BY <1>0, <1>3, <2>5
      <4> QED BY <1>8, <4>1 DEF Turn!GoesOn, Turn!Rests, Turn!Takes, Turn!Refuses
    <3>2. turn.index - 1 + 1 \in ran => aborted
      BY <1>0, <1>5, <2>5 DEF PInv
    <3> QED BY <2>1, <2>3, <3>1, <3>2 DEF Turn!Leave
  <2> QED BY <1>2, <2>4, <2>5
<1>10. PInv'
  <2>1. turn'.index \in Nat /\ turn'.index >= u.index /\ u.index >= turn.index
    BY <1>0, <1>3, <1>8 DEF Called
  <2>2. \A b \in ran : b \in Nat /\ b <= turn.index
    BY <1>0 DEF PInv
  <2>3. ~aborted => u.index \notin ran
    <3>1. CASE moves
      BY <1>0, <1>3, <2>2, <3>1
    <3>2. CASE ~moves
      BY <1>0, <1>3, <1>5, <3>2 DEF PInv
    <3> QED BY <1>2, <3>1, <3>2
  <2>4. turn'.index \in ran => aborted
    BY <1>0, <1>3, <2>1, <2>2, <2>3
  <2>5. \A b \in Refused(turn') : b < turn'.index /\ b \notin ran
    <3> SUFFICES ASSUME NEW b \in Refused(turn')
                 PROVE  b < turn'.index /\ b \notin ran
      OBVIOUS
    <3>1. b \in Nat
      BY <1>0 DEF Refused
    <3>2. CASE b \in Refused(turn)
      <4>1. b < turn.index /\ b \notin ran
        BY <3>2 DEF PInv
      <4> QED BY <1>0, <1>3, <2>1, <3>1, <4>1
    <3>3. CASE b >= u.index /\ b < turn'.index /\ ~aborted
      BY <1>0, <1>3, <2>1, <2>2, <2>3, <3>1, <3>3
    <3>4. aborted => turn' = u
      BY <1>4 DEF CallPresent
    <3> QED BY <1>0, <1>6, <1>8, <3>2, <3>3, <3>4 DEF Called
  <2>6. \A q \in presenters' : q.at \in {"say", "check"}
    BY <1>8 DEF Called
  <2>7. Refused(turn)' = Refused(turn')
    BY DEF Refused
  <2>8. \A b \in ran : b <= turn'.index
    BY <1>0, <1>3, <2>1, <2>2
  <2> QED BY <1>0, <2>4, <2>5, <2>6, <2>7, <2>8 DEF PInv
<1> QED BY <1>9, <1>10

-----------------------------------------------------------------------------
(* The steps of a presenter.                                               *)

\* A step that leaves the streaming state and what has run alone, and lets a
\* presenter change only its place, is no step of the turn, or its end.
LEMMA StopsAtMost ==
  ASSUME Stage' \in {Stage, "over"}, aborted' \in {aborted, TRUE},
         UNCHANGED <<turn, ran>>, presenters' = {} <=> presenters = {}
  PROVE  Turn!Stop
<1>1. (presenters # {})' = (presenters # {})
  OBVIOUS
<1>2. (turn.index - 1)' = turn.index - 1 /\ Len(turn.blocks)' = Len(turn.blocks)
  OBVIOUS
<1>3. Skipping(turn)' = Skipping(turn)
  BY DEF Skipping
<1> QED BY <1>1, <1>2, <1>3 DEF Turn!Stop

\* A presenter that goes on has answered, run its tool, or neither.
LEMMA MovesTurn ==
  ASSUME LoopAssumption, IInv, PInv, NEW p \in presenters, NEW t, Answering(t),
         NEW at \in {"ask", "ignored", "run", "save", "final"},
         presenters' = (presenters \ {p}) \cup {[p EXCEPT !.at = at]},
         turn' = t, PresenterFrame, ~p.partial,
         \/ ran' = ran
         \/ ran' = ran \cup {p.block} /\ IsTool(p.block)
  PROVE  Turn!Next /\ PInv'
<1> DEFINE q == [p EXCEPT !.at = at]
           n == Len(turn.blocks)
<1>0. /\ p \in PresenterType /\ presenters = {p} /\ presenters' = {q}
      /\ p.block = turn.index /\ turn.index <= n /\ n \in Nat /\ Shape(turn)
      /\ ~turn.blocks[turn.index].partial /\ turn.index \in Nat \ {0}
      /\ turn \in TurnType /\ t \in TurnType
      /\ t.blocks = turn.blocks /\ t.index = turn.index
      /\ aborted' = aborted /\ phase' = phase
  BY DEF IInv, Holds, Shape, TurnType, PresenterFrame, Answering, Touched
<1>1. q.partial = p.partial
  BY <1>0 DEF PresenterType
<1> HIDE DEF q
<1>2. /\ Refused(turn') = Refused(turn) /\ Refused(turn)' = Refused(turn)
      /\ Skipping(turn)' = Skipping(t) /\ Skipping(t) \in BOOLEAN
      /\ Skipping(turn) \in BOOLEAN /\ (Skipping(turn) => Skipping(t))
  BY <1>0 DEF Answering, Skipping, Refused, TurnType
<1>3. PInv'
  <2>1. p.block \notin Refused(turn)
    BY <1>0 DEF PInv
  <2>2. \A b \in ran' : b <= turn.index
    BY <1>0 DEF PInv
  <2>3. \A b \in Refused(turn) : b < turn.index /\ b \notin ran'
    BY <2>1 DEF PInv
  <2> QED BY <1>0, <1>1, <1>2, <2>2, <2>3 DEF PInv
<1>4. /\ (presenters # {})' = (presenters # {}) /\ presenters # {}
      /\ Stage' = Stage /\ (turn.index - 1)' = turn.index - 1
      /\ turn'.blocks = turn.blocks /\ Skipping(turn)' \in {Skipping(turn), TRUE}
      /\ turn.index - 1 + 1 = turn.index
  <2>1. presenters # {} /\ presenters' # {}
    BY <1>0
  <2>2. (presenters # {})' = (presenters # {})
    BY <2>1
  <2>3. (turn.index - 1)' = turn.index - 1 /\ turn.index - 1 + 1 = turn.index
    BY <1>0
  <2>4. Skipping(turn)' \in {Skipping(turn), TRUE}
    BY <1>2
  <2>5. Stage' = Stage
    BY <1>0 DEF Stage
  <2> QED BY <1>0, <2>1, <2>2, <2>3, <2>4, <2>5
<1>5. CASE ran' = ran
  <2>1. CASE Skipping(turn)' = TRUE
    <3>1. Turn!Close
      BY <1>0, <1>2, <1>4, <1>5, <2>1 DEF Turn!Close, Refused
    <3> QED BY <1>3, <3>1 DEF Turn!Next
  <2>2. CASE Skipping(turn)' = Skipping(turn)
    <3>1. Turn!Stop
      BY <1>0, <1>2, <1>4, <1>5, <2>2 DEF Turn!Stop, Refused
    <3> QED BY <1>3, <3>1 DEF Turn!Next
  <2> QED BY <1>4, <2>1, <2>2
<1>6. CASE ran' = ran \cup {p.block} /\ IsTool(p.block)
  <2>1. Turn!IsTool(turn.index - 1 + 1)
    BY <1>0, <1>6 DEF Turn!IsTool, IsTool
  <2>2. Turn!Complete(turn.index - 1 + 1)
    <3>1. turn.index < n \/ ~Growing(turn)
      BY <1>0 DEF Growing, Shape
    <3> QED BY <1>0, <3>1 DEF Turn!Complete, Growing
  <2>3. ran' = ran \cup {turn.index - 1 + 1}
    BY <1>0, <1>6
  <2>4. Turn!RunTool
    BY <1>0, <1>2, <1>4, <2>1, <2>2, <2>3 DEF Turn!RunTool, Refused
  <2> QED BY <1>3, <2>4 DEF Turn!Next
<1> QED BY <1>5, <1>6

\* A handler returns: the worker leaves, or stays to save a checkpoint.
LEMMA ReturnsTurn ==
  ASSUME LoopAssumption, IInv, PInv, NEW p \in presenters, NEW t, Answering(t),
         Returns(p, t), PresenterFrame, ran' = ran
  PROVE  Turn!Next /\ PInv'
<1>1. CASE Finish(p, t)
  BY <1>1, FinishLeaves DEF Turn!Next
<1>2. CASE /\ p.at = "run"
           /\ presenters' = (presenters \ {p}) \cup {[p EXCEPT !.at = "save"]}
           /\ turn' = t
  <2>1. ~p.partial
    BY <1>2 DEF PInv
  <2> QED BY <1>2, <2>1, MovesTurn
<1> QED BY <1>1, <1>2 DEF Returns

\* A finished subtask is aborted, and its block is done.
LEMMA SubTaskLeaves ==
  ASSUME LoopAssumption, IInv, PInv, NEW p \in presenters, FinishSubTask(p)
  PROVE  Turn!Leave /\ PInv'
<1> DEFINE n == Len(turn.blocks)
<1>0. /\ turn \in TurnType /\ n \in Nat /\ turn.index \in Nat \ {0} /\ turn.index <= n
      /\ presenters = {p} /\ ~turn.blocks[turn.index].partial /\ Shape(turn)
      /\ ran \subseteq 1..MaxBlocks /\ MaxBlocks \in Nat
  BY DEF IInv, PInv, TypeOK, Holds, Shape, TurnType, FinishSubTask, LoopAssumption
<1>1. /\ turn'.blocks = turn.blocks /\ turn'.index = turn.index + 1
      /\ turn'.answers = turn.answers
      /\ turn'.rejected = turn.rejected /\ turn'.used = turn.used
  BY <1>0 DEF FinishSubTask, TurnType
<1>2. /\ presenters' = {} /\ aborted' = TRUE /\ ran' = ran /\ phase' = phase
  BY <1>0 DEF FinishSubTask
<1>3. /\ Refused(turn)' = Refused(turn) /\ Skipping(turn)' = Skipping(turn)
      /\ Stage' = Stage
  BY <1>1, <1>2 DEF Refused, Skipping, Stage
<1>4. Turn!Complete(turn.index - 1 + 1)
  <2>1. turn.index < n \/ ~Growing(turn)
    BY <1>0 DEF Growing, Shape
  <2> QED BY <1>0, <2>1 DEF Turn!Complete, Growing
<1>5. Turn!GoesOn(turn.index - 1 + 1)
  <2>1. (turn.index - 1)' = turn.index - 1 + 1 /\ (presenters # {})' = FALSE
    BY <1>0, <1>1, <1>2
  <2> QED BY <1>2, <1>3, <2>1 DEF Turn!GoesOn, Turn!Rests, Refused
<1>6. Turn!Leave
  BY <1>0, <1>1, <1>2, <1>3, <1>4, <1>5 DEF Turn!Leave
<1>7. PInv'
  <2>1. \A b \in ran : b <= turn.index + 1
    <3>1. \A b \in ran : b <= turn.index
      BY DEF PInv
    <3>2. \A b \in ran : b \in Nat
      BY <1>0
    <3> QED BY <1>0, <3>1, <3>2
  <2>2. \A b \in Refused(turn) : b < turn.index + 1 /\ b \notin ran
    <3>1. Refused(turn) \subseteq Nat
      BY <1>0 DEF Refused
    <3> QED BY <1>0, <3>1 DEF PInv
  <2> QED BY <1>1, <1>2, <1>3, <2>1, <2>2 DEF PInv
<1> QED BY <1>6, <1>7

\* A call that dies of an abort leaves its block where it is.
LEMMA DyingLeaves ==
  ASSUME LoopAssumption, IInv, PInv, NEW p \in presenters, DiesOfAbort(p)
  PROVE  Turn!Leave /\ PInv'
<1>0. /\ presenters = {p} /\ presenters' = {} /\ aborted /\ aborted' = aborted
      /\ UNCHANGED <<turn, ran, phase>> /\ aborted \in BOOLEAN
  BY DEF IInv, TypeOK, Holds, DiesOfAbort, PresenterFrame
<1>1. /\ Refused(turn)' = Refused(turn) /\ Skipping(turn)' = Skipping(turn)
      /\ Stage' = Stage /\ (turn.index - 1)' = turn.index - 1
      /\ (presenters # {})' = FALSE
  BY <1>0 DEF Refused, Skipping, Stage
<1>2. Turn!GoesOn(turn.index - 1)
  BY <1>0, <1>1 DEF Turn!GoesOn, Turn!Rests, Refused
<1>3. Turn!Leave
  BY <1>0, <1>1, <1>2 DEF Turn!Leave
<1>4. PInv'
  BY <1>0, <1>1 DEF PInv
<1> QED BY <1>3, <1>4

\* Every step of a presenter is one of the worker's.
LEMMA PresenterTurn ==
  ASSUME LoopAssumption, IInv, AInv, PInv, NEW p \in presenters, Presenter(p)
  PROVE  Turn!Next /\ PInv'
<1> DEFINE b == p.block
<1>0. /\ p \in PresenterType /\ b \in 1..MaxBlocks /\ TypeOK
      /\ presenters = {p} /\ (p.at = "say" <=> ~IsTool(b))
      /\ p.partial => p.at \in {"say", "check"}
  BY DEF IInv, AInv, PInv, Holds, Counted, PresenterType
<1>1. /\ Answering(turn) /\ Answering(Answered(turn, b, "feedback"))
      /\ Answering(Result(turn, b))
      /\ \A r \in BOOLEAN : Answering([Result(turn, b) EXCEPT !.rejected = r])
  BY <1>0, HandlersAnswer
<1>2. CASE TextSaid(p) \/ PartialToolShown(p) \/ WriteSilently(p) \/ Saved(p)
  <2>1. Finish(p, turn) /\ PresenterFrame /\ ran' = ran
    BY <1>2 DEF TextSaid, PartialToolShown, WriteSilently, Saved
  <2> QED BY <1>1, <2>1, FinishLeaves DEF Turn!Next
<1>3. CASE Concludes(p) \/ CompletionAccepted(p)
  <2>1. Returns(p, Result(turn, b)) /\ PresenterFrame /\ ran' = ran
    BY <1>3 DEF Concludes, CompletionAccepted, EndsWithResult
  <2> QED BY <1>1, <2>1, ReturnsTurn
<1>4. CASE AsksApproval(p) \/ OffersCompletion(p) \/ RunsUnasked(p)
  <2>1. PICK at \in {"ask", "run", "final"} :
          /\ presenters' = (presenters \ {p}) \cup {[p EXCEPT !.at = at]}
          /\ turn' = turn
    BY <1>4 DEF AsksApproval, OffersCompletion, RunsUnasked, MovesTo
  <2>2. /\ PresenterFrame /\ ~p.partial
        /\ ran' = ran \/ (ran' = ran \cup {b} /\ IsTool(b))
    BY <1>0, <1>4 DEF AsksApproval, OffersCompletion, RunsUnasked
  <2> QED BY <1>1, <2>1, <2>2, MovesTurn
<1>5. CASE Approved(p)
  <2>1. PICK t \in {turn, Result(turn, b)} : turn' = t
    BY <1>5 DEF Approved
  <2>2. /\ presenters' = (presenters \ {p}) \cup {[p EXCEPT !.at = "run"]}
        /\ PresenterFrame /\ ~p.partial /\ ran' = ran \cup {b} /\ IsTool(b)
    BY <1>0, <1>5 DEF Approved
  <2> QED BY <1>1, <2>1, <2>2, MovesTurn
<1>6. CASE Rejected(p) \/ CommandFeedback(p)
  <2>1. PICK r \in BOOLEAN : Finish(p, [Result(turn, b) EXCEPT !.rejected = r])
    <3>1. Result(turn, b).rejected \in BOOLEAN
      BY <1>1 DEF Answering, Touched, TurnType
    <3> DEFINE r == Result(turn, b).rejected \/ p.kind # "insert"
    <3>2. CASE Rejected(p)
      <4>1. r \in BOOLEAN /\ Finish(p, [Result(turn, b) EXCEPT !.rejected = r])
        BY <3>2 DEF Rejected
      <4> QED BY <4>1
    <3>3. CASE CommandFeedback(p)
      BY <3>3 DEF CommandFeedback
    <3> QED BY <1>6, <3>2, <3>3
  <2>2. PresenterFrame /\ ran' = ran
    BY <1>6 DEF Rejected, CommandFeedback
  <2> QED BY <1>1, <2>1, <2>2, FinishLeaves DEF Turn!Next
<1>7. CASE RunDone(p)
  <2>0. PresenterFrame /\ ran' = ran /\ ~p.partial
    BY <1>0, <1>7 DEF RunDone
  <2>1. CASE MovesTo(p, "final")
    BY <1>1, <2>0, <2>1, MovesTurn DEF MovesTo
  <2>2. CASE EndsWithResult(p)
    BY <1>1, <2>0, <2>2, ReturnsTurn DEF EndsWithResult
  <2> QED BY <1>7, <2>1, <2>2 DEF RunDone
<1>8. CASE CompletionFeedback(p)
  <2>1. /\ Finish(p, Answered(turn, b, "feedback")) /\ PresenterFrame /\ ran' = ran
    BY <1>8 DEF CompletionFeedback
  <2> QED BY <1>1, <2>1, FinishLeaves DEF Turn!Next
<1>9. CASE FinishSubTask(p)
  BY <1>0, <1>9, SubTaskLeaves DEF Turn!Next
<1>10. CASE ToolFails(p)
  <2>1. \/ Returns(p, turn)
        \/ Returns(p, Result(turn, b))
    BY <1>10 DEF ToolFails, EndsWithResult
  <2>2. PresenterFrame /\ ran' = ran
    BY <1>10 DEF ToolFails
  <2> QED BY <1>1, <2>1, <2>2, ReturnsTurn
<1>11. CASE DiesOfAbort(p)
  BY <1>0, <1>11, DyingLeaves DEF Turn!Next
<1> QED BY <1>2, <1>3, <1>4, <1>5, <1>6, <1>7, <1>8, <1>9, <1>10, <1>11
      DEF Presenter

-----------------------------------------------------------------------------
(* The steps of the reader.                                                *)

\* The reader calls presentAssistantMessage when blocks have come: whoever is
\* presenting goes on undisturbed, and otherwise the worker looks at what is
\* there.
LEMMA CallOffers ==
  ASSUME LoopAssumption, IInv, PInv, NEW t, Shape(t), Holds(t, presenters),
         t.locked = turn.locked, t.index = turn.index, t.answers = turn.answers,
         t.rejected = turn.rejected, t.used = turn.used,
         CallPresent(t, presenters), UNCHANGED <<ran, aborted>>
  PROVE  /\ Turn!Offered /\ PInv'
         /\ turn'.blocks = t.blocks /\ Skipping(turn)' = Skipping(turn)
<1>0. /\ t \in TurnType /\ turn \in TurnType /\ aborted \in BOOLEAN
      /\ turn.index \in Nat \ {0} /\ aborted' = aborted /\ ran' = ran
      /\ ran \subseteq 1..MaxBlocks /\ MaxBlocks \in Nat
  BY DEF IInv, TypeOK, Shape, TurnType, LoopAssumption
<1>1. Refused(t) = Refused(turn) /\ (Skipping(t) = Skipping(turn))
  BY DEF Refused, Skipping
<1>2. CASE aborted \/ presenters # {}
  <2>1. aborted \/ t.locked
    BY <1>2 DEF IInv, Settled
  <2>2. /\ turn' = t \/ turn' = [t EXCEPT !.pending = TRUE]
        /\ presenters' = presenters
    BY <1>0, <2>1 DEF CallPresent, Presented, Launched
  <2>3. /\ turn'.blocks = t.blocks /\ turn'.index = turn.index
        /\ turn'.answers = turn.answers
        /\ turn'.rejected = turn.rejected /\ turn'.used = turn.used
    BY <1>0, <2>2 DEF TurnType
  <2>4. Refused(turn)' = Refused(turn) /\ Skipping(turn)' = Skipping(turn)
    BY <2>3 DEF Refused, Skipping
  <2>5. (turn.index - 1)' = turn.index - 1 /\ (presenters # {})' = (presenters # {})
    BY <2>2, <2>3
  <2>6. Turn!Offered
    BY <1>2, <2>4, <2>5 DEF Turn!Offered, Refused
  <2>7. PInv'
    BY <1>0, <2>2, <2>3, <2>4 DEF PInv
  <2> QED BY <2>3, <2>4, <2>6, <2>7
<1>3. CASE ~aborted /\ presenters = {}
  <2>1. turn' = Presented(t) /\ presenters' = Launched(t) /\ ~t.locked
    BY <1>3 DEF CallPresent, IInv, Settled
  <2>2. Called(t) /\ Turn!GoesOn(t.index - 1)
    BY <1>0, <1>1, <1>3, <2>1, CallGoesOn
  <2>3. Turn!Offered
    <3>1. t.index - 1 = turn.index - 1
      OBVIOUS
    <3>2. Turn!GoesOn(turn.index - 1)
      BY <2>2, <3>1 DEF Turn!GoesOn, Turn!Rests, Turn!Takes, Turn!Refuses
    <3> QED BY <1>3, <3>2 DEF Turn!Offered
  <2>4. turn'.index \in Nat /\ turn'.index >= turn.index
    BY <2>2 DEF Called
  <2>5. \A b \in ran : b \in Nat /\ b <= turn.index /\ b # turn.index
    BY <1>0, <1>3 DEF PInv
  <2>6. \A b \in ran : b <= turn'.index /\ b # turn'.index
    BY <1>0, <2>4, <2>5
  <2>7. \A b \in Refused(turn') : b < turn'.index /\ b \notin ran
    <3> SUFFICES ASSUME NEW b \in Refused(turn')
                 PROVE  b < turn'.index /\ b \notin ran
      OBVIOUS
    <3>1. b \in Nat
      BY <1>0 DEF Refused
    <3>2. CASE b \in Refused(turn)
      <4>1. b < turn.index /\ b \notin ran
        BY <3>2 DEF PInv
      <4> QED BY <1>0, <2>4, <3>1, <4>1
    <3>3. CASE b >= turn.index /\ b < turn'.index
      BY <1>0, <2>5, <3>1, <3>3
    <3> QED BY <1>1, <2>2, <3>2, <3>3 DEF Called
  <2>8. Refused(turn)' = Refused(turn')
    BY DEF Refused
  <2>9. PInv'
    BY <1>0, <2>2, <2>6, <2>7, <2>8 DEF PInv, Called
  <2>10. Skipping(turn)' = Skipping(turn)
    BY <1>1, <2>2 DEF Called, Skipping
  <2> QED BY <2>2, <2>3, <2>9, <2>10 DEF Called
<1> QED BY <1>0, <1>2, <1>3

\* A chunk is received.
LEMMA ChunkReceives ==
  ASSUME LoopAssumption, IInv, PInv, Chunk
  PROVE  Turn!Receive /\ PInv'
<1>1. PICK n \in 1..MaxBlocks, open \in BOOLEAN :
        /\ Grows(turn.blocks, n, open)
        /\ \E kinds \in [NewTools(turn.blocks, n) -> Tools] :
             CallPresent(Read(turn, n, kinds, open), presenters)
  BY DEF Chunk
<1>2. PICK kinds \in [NewTools(turn.blocks, n) -> Tools] :
        CallPresent(Read(turn, n, kinds, open), presenters)
  BY <1>1
<1> DEFINE t == Read(turn, n, kinds, open)
           s == Parsed(turn.blocks, n, kinds, open)
           r == turn.ready /\ n = Len(turn.blocks)
<1>3. /\ phase = "streaming" /\ ~turn.completed
      /\ phase' = (CASE aborted -> "stopped"
                     [] ~aborted /\ Skipping(turn') -> "ended"
                     [] OTHER -> "streaming")
      /\ aborted' = aborted /\ ran' = ran /\ aborted \in BOOLEAN
  BY DEF Chunk, AfterChunk, IInv, TypeOK
<1>4. /\ Shape(t) /\ Holds(t, presenters)
      /\ t.locked = turn.locked /\ t.index = turn.index
  BY <1>1, <1>3, ChunkShape
<1>5. /\ turn \in TurnType /\ Len(turn.blocks) \in Nat /\ MaxBlocks \in Nat
      /\ n \in Nat /\ Len(turn.blocks) <= n
  BY <1>1 DEF IInv, TypeOK, TurnType, Grows, LoopAssumption
<1>6. Len(s) = n
  BY <1>1, ParsedShape DEF IInv
<1>7. t = [turn EXCEPT !.blocks = s, !.ready = r]
  BY <1>5 DEF Read, TurnType
<1> HIDE DEF s, r
<1>8. /\ t.blocks = s /\ t.answers = turn.answers /\ t.used = turn.used
      /\ t.rejected = turn.rejected
  BY <1>5, <1>7 DEF TurnType
<1>9. CallPresent(t, presenters)
  BY <1>2
<1> HIDE DEF t
<1>10. /\ Turn!Offered /\ PInv'
       /\ turn'.blocks = t.blocks /\ Skipping(turn)' = Skipping(turn)
  BY <1>3, <1>4, <1>8, <1>9, CallOffers
<1>11. Stage = "reading" /\ Stage' = IF aborted THEN "over" ELSE "reading"
  BY <1>3 DEF Stage
<1>12. Len(turn.blocks)' \in Len(turn.blocks)..MaxBlocks
  BY <1>5, <1>6, <1>8, <1>10
<1> QED BY <1>3, <1>10, <1>11, <1>12 DEF Turn!Receive

\* The end of the stream is the end of the message.
LEMMA FinishReadingEnds ==
  ASSUME LoopAssumption, IInv, CInv, PInv, FinishReading
  PROVE  Turn!Next /\ PInv'
<1> DEFINE n == Len(turn.blocks)
           no == FALSE
           yes == TRUE
           s == [b \in 1..n |-> [kind |-> turn.blocks[b].kind, partial |-> no]]
           t == [turn EXCEPT !.completed = yes, !.blocks = s]
<1>0. /\ turn \in TurnType /\ n \in Nat /\ turn.index \in Nat \ {0}
      /\ turn.blocks \in Seq(BlockType) /\ turn.index <= n + 1
      /\ phase \in {"streaming", "ended"} /\ aborted \in BOOLEAN
      /\ aborted' = aborted /\ ran' = ran
  BY DEF FinishReading, IInv, TypeOK, Shape, TurnType
<1>1. \/ aborted /\ phase' = "stopped" /\ UNCHANGED <<turn, presenters>>
      \/ /\ ~aborted /\ ~HasText
         /\ turn' = t /\ phase' = "start" /\ UNCHANGED presenters
      \/ /\ ~aborted /\ HasText
         /\ IF \E b \in 1..n : turn.blocks[b].partial
            THEN CallPresent(t, presenters)
            ELSE turn' = t /\ UNCHANGED presenters
         /\ phase' = "waitReady"
  BY <1>0 DEF FinishReading, LoopEnds
<1>2. no \in BOOLEAN /\ ~no /\ yes \in BOOLEAN /\ yes
  OBVIOUS
<1> HIDE DEF no, yes
<1>3. /\ s \in Seq(BlockType) /\ Len(s) = n
      /\ \A b \in 1..n : s[b].partial = no
  <2>1. \A b \in 1..n : turn.blocks[b] \in BlockType
    BY <1>0, ElementOfSeq
  <2>2. \A b \in 1..n : [kind |-> turn.blocks[b].kind, partial |-> no] \in BlockType
    BY <1>2, <2>1 DEF BlockType
  <2> QED BY <1>0, <2>2
<1> HIDE DEF s
<1>4. /\ t \in TurnType /\ t.blocks = s /\ t.answers = turn.answers
      /\ t.used = turn.used /\ t.rejected = turn.rejected
      /\ t.index = turn.index /\ t.ready = turn.ready /\ t.locked = turn.locked
  BY <1>0, <1>2, <1>3 DEF TurnType
<1> HIDE DEF t
<1>5. Shape(t)
  BY <1>0, <1>2, <1>3, <1>4 DEF IInv, Shape
<1>6. Holds(t, presenters)
  BY <1>0, <1>2, <1>3, <1>4 DEF IInv, Holds
<1>7. CASE aborted
  <2>1. /\ Stage' \in {Stage, "over"} /\ UNCHANGED <<turn, ran>>
        /\ presenters' = presenters
    BY <1>0, <1>1, <1>7 DEF Stage
  <2>2. Turn!Stop
    BY <1>0, <2>1, StopsAtMost
  <2>3. PInv'
    BY <1>0, <2>1 DEF PInv, Refused
  <2> QED BY <2>2, <2>3 DEF Turn!Next
<1>8. ASSUME ~aborted,
             \/ CallPresent(t, presenters)
             \/ /\ turn' = t /\ presenters' = presenters
                /\ presenters = {} => turn.index - 1 = n
      PROVE  /\ Turn!Offered /\ PInv'
             /\ turn'.blocks = s /\ Skipping(turn)' = Skipping(turn)
  <2>1. CASE CallPresent(t, presenters)
    BY <1>0, <1>4, <1>5, <1>6, <2>1, CallOffers
  <2>2. CASE /\ turn' = t /\ presenters' = presenters
             /\ presenters = {} => turn.index - 1 = n
    <3>1. Refused(turn)' = Refused(turn) /\ Skipping(turn)' = Skipping(turn)
      BY <1>4, <2>2 DEF Refused, Skipping
    <3>2. (turn.index - 1)' = turn.index - 1 /\ (presenters # {})' = (presenters # {})
      BY <1>4, <2>2
    <3>3. CASE presenters # {}
      BY <3>1, <3>2, <3>3, <1>4, <2>2, <1>0 DEF Turn!Offered, Refused, PInv
    <3>4. CASE presenters = {}
      <4>1. Len(turn.blocks)' = n /\ (presenters # {})' = FALSE
        BY <1>3, <1>4, <2>2, <3>4
      <4>2. Turn!Rests(turn.index - 1)
        BY <2>2, <3>1, <3>2, <3>4, <4>1 DEF Turn!Rests, Refused
      <4>3. Turn!Offered
        BY <1>8, <3>4, <4>2 DEF Turn!Offered, Turn!GoesOn
      <4>4. PInv'
        BY <1>0, <1>4, <2>2, <3>1 DEF PInv
      <4> QED BY <1>4, <2>2, <3>1, <4>3, <4>4
    <3> QED BY <1>4, <2>2, <3>1, <3>3, <3>4
  <2> QED BY <1>8, <2>1, <2>2
<1>9. ASSUME ~aborted, Stage' \in {"idle", "waiting"},
             Stage' = "idle" => n = 0, Stage' = "waiting" => n > 0 \/ Skipping(turn),
             Turn!Offered, turn'.blocks = s, Skipping(turn)' = Skipping(turn)
      PROVE  Turn!Next
  <2>1. Len(turn.blocks)' = n /\ Stage = "reading"
    BY <1>0, <1>3, <1>9 DEF Stage
  <2>2. (\E b \in 1..Len(turn.blocks) : turn.blocks[b].partial)' = FALSE
    BY <1>2, <1>3, <1>9, <2>1
  <2>3. Turn!MessageEnds
    BY <1>0, <1>9, <2>1, <2>2 DEF Turn!MessageEnds
  <2> QED BY <2>3 DEF Turn!Next
<1>12. n = 0 <=> turn.blocks = <<>>
  BY <1>0, EmptySeq
<1>10. CASE ~aborted /\ n = 0
  <2>1. /\ turn' = t /\ presenters' = presenters
        /\ phase' = "start" \/ (phase = "ended" /\ phase' = "waitReady")
    <3>1. ~ \E b \in 1..n : turn.blocks[b].partial
      BY <1>10
    <3> QED BY <1>0, <1>1, <1>10, <1>12, <3>1 DEF HasText
  <2>2. turn.index - 1 = n
    BY <1>0, <1>10
  <2>3. Stage' \in {"idle", "waiting"} /\ (Stage' = "waiting" => Skipping(turn))
    BY <1>10, <1>12, <2>1 DEF Stage, CInv
  <2> QED BY <1>8, <1>9, <1>10, <2>1, <2>2, <2>3
<1>11. CASE ~aborted /\ n # 0
  <2>0. /\ phase' = "waitReady"
        /\ \/ CallPresent(t, presenters)
           \/ /\ turn' = t /\ presenters' = presenters
              /\ \A b \in 1..n : ~turn.blocks[b].partial
    BY <1>1, <1>11, <1>12 DEF HasText
  <2>1. Stage' = "waiting" /\ n > 0
    BY <1>0, <1>11, <2>0 DEF Stage
  <2>2. CASE CallPresent(t, presenters)
    BY <1>8, <1>9, <1>11, <2>1, <2>2
  <2>3. CASE /\ turn' = t /\ presenters' = presenters
             /\ \A b \in 1..n : ~turn.blocks[b].partial
    <3>1. presenters = {} => turn.index - 1 = n
      BY <1>0, <1>11, <2>3 DEF IInv, Settled
    <3> QED BY <1>8, <1>9, <1>11, <2>1, <2>3, <3>1
  <2> QED BY <2>0, <2>2, <2>3
<1> QED BY <1>7, <1>10, <1>11

\* A new request starts from nothing.
LEMMA BeginRequestRequests ==
  ASSUME LoopAssumption, IInv, AInv, PInv, BeginRequest
  PROVE  Turn!Next /\ PInv'
<1>0. /\ phase \in {"start", "mistakeAsk"} /\ aborted' = aborted
      /\ presenters' = presenters /\ aborted \in BOOLEAN
  BY DEF BeginRequest, IInv, TypeOK
<1>1. CASE aborted
  <2>1. /\ Stage' \in {Stage, "over"} /\ UNCHANGED <<turn, ran>>
    BY <1>1 DEF BeginRequest, LoopEnds, Stage
  <2>2. Turn!Stop
    BY <1>0, <2>1, StopsAtMost
  <2>3. PInv'
    BY <1>0, <2>1 DEF PInv, Refused
  <2> QED BY <2>2, <2>3 DEF Turn!Next
<1>2. CASE ~aborted
  <2>1. /\ turn' = FreshTurn /\ phase' = "streaming" /\ ran' = {}
        /\ presenters = {} /\ presenters' = {}
    BY <1>0, <1>2 DEF BeginRequest, IInv
  <2>2. /\ FreshTurn.blocks = <<>> /\ Len(<<>>) = 0 /\ FreshTurn.index = 1
        /\ ~FreshTurn.rejected /\ ~FreshTurn.used
        /\ \A b \in 1..MaxBlocks : FreshTurn.answers[b] = {}
    BY DEF FreshTurn
  <2>3. turn.index - 1 = Len(turn.blocks)
    <3>1. /\ turn.index > Len(turn.blocks) /\ turn.index <= Len(turn.blocks) + 1
          /\ turn.index \in Nat /\ Len(turn.blocks) \in Nat
      BY <1>0, <1>2 DEF AInv, IInv, TypeOK, TurnType
    <3> QED BY <3>1
  <2>4. Refused(turn)' = {}
    BY <2>1, <2>2 DEF Refused
  <2>5. /\ Len(turn.blocks)' = 0 /\ (turn.index - 1)' = 0
        /\ (\E b \in 1..Len(turn.blocks) : turn.blocks[b].partial)' = FALSE
        /\ Skipping(turn)' = FALSE /\ (presenters # {})' = FALSE
    BY <2>1, <2>2 DEF Skipping
  <2>6. Stage = "idle" /\ Stage' = "reading"
    BY <1>0, <2>1 DEF Stage
  <2>7. Turn!Request
    BY <1>0, <1>2, <2>1, <2>3, <2>4, <2>5, <2>6 DEF Turn!Request, Refused
  <2>8. PInv'
    BY <2>1, <2>4 DEF PInv
  <2> QED BY <2>7, <2>8 DEF Turn!Next
<1> QED BY <1>0, <1>1, <1>2

\* Every other step goes on to the next request, closes the turn to tools, ends
\* the loop, or is none of the turn's.
LEMMA OtherTurns ==
  ASSUME LoopAssumption, IInv, AInv, PInv,
         \/ AskAfterMistakes \/ ReasoningChunk \/ UsageChunk \/ StreamFails \/ GoOn
         \/ LateResult \/ Abort \/ Replaced \/ InitialCheckpoint
         \/ UNCHANGED vars
  PROVE  Turn!Next /\ PInv'
<1>0. turn \in TurnType /\ aborted \in BOOLEAN /\ detached \in BOOLEAN /\ TypeOK
  BY DEF IInv, TypeOK
<1>1. ASSUME Stage' \in {Stage, "over"}, aborted' \in {aborted, TRUE},
             UNCHANGED <<turn, ran>>,
             presenters' = presenters \/ presenters' = Superseded(presenters)
      PROVE  Turn!Next /\ PInv'
  <2> DEFINE f(p) == [p EXCEPT !.at = IF @ \in {"ask", "final"} THEN "ignored" ELSE @]
  <2>1. \A p \in presenters : /\ f(p).partial = p.partial
                              /\ p.at \in {"say", "check"} => f(p).at = p.at
    BY DEF IInv, Holds, PresenterType
  <2>2. presenters' = presenters \/ presenters' = {f(p) : p \in presenters}
    BY <1>1 DEF Superseded
  <2> HIDE DEF f
  <2>3. presenters' = {} <=> presenters = {}
    BY <2>2
  <2>4. Turn!Stop
    BY <1>1, <2>3, StopsAtMost
  <2>5. PInv'
    <3>1. Refused(turn)' = Refused(turn)
      BY <1>1 DEF Refused
    <3>2. \A p \in presenters' : p.partial => p.at \in {"say", "check"}
      BY <2>1, <2>2 DEF PInv
    <3>3. (\E p \in presenters : ~p.partial) => \E p \in presenters' : ~p.partial
      BY <2>1, <2>2
    <3>4. turn'.index = turn.index /\ ran' = ran /\ (aborted => aborted')
      <4>1. turn'.index = turn.index /\ ran' = ran
        BY <1>1
      <4>2. aborted => aborted'
        BY <1>0, <1>1
      <4> QED BY <4>1, <4>2
    <3>5. turn'.index \in ran' => aborted' \/ \E p \in presenters' : ~p.partial
      BY <3>3, <3>4 DEF PInv
    <3>6. \A b \in Refused(turn)' : b < turn'.index /\ b \notin ran'
      BY <3>1, <3>4 DEF PInv
    <3> QED BY <3>2, <3>4, <3>5, <3>6 DEF PInv
  <2> QED BY <2>4, <2>5 DEF Turn!Next
<1>2. CASE AskAfterMistakes
  <2>1. Stage' \in {Stage, "over"}
    BY <1>2 DEF AskAfterMistakes, Stage
  <2> QED BY <1>1, <1>2, <2>1 DEF AskAfterMistakes
<1>3. CASE ReasoningChunk \/ UsageChunk
  <2>1. Stage' \in {Stage, "over"}
    BY <1>3 DEF ReasoningChunk, UsageChunk, AfterChunk, Stage
  <2> QED BY <1>1, <1>3, <2>1 DEF ReasoningChunk, UsageChunk
<1>4. CASE StreamFails
  <2>1. Stage' \in {Stage, "over"} /\ aborted' \in {aborted, TRUE}
    BY <1>0, <1>4 DEF StreamFails, LoopEnds, Stage
  <2> QED BY <1>1, <1>4, <2>1 DEF StreamFails
<1>5. CASE Abort \/ Replaced \/ UNCHANGED vars
  <2>1. /\ phase' = phase /\ aborted' \in {aborted, TRUE}
        /\ UNCHANGED <<turn, ran, presenters>>
    BY <1>0, <1>5 DEF Abort, Replaced, vars
  <2>2. Stage' \in {Stage, "over"}
    BY <2>1 DEF Stage
  <2> QED BY <1>1, <2>1, <2>2
<1>6. CASE InitialCheckpoint
  <2>1. Stage' \in {Stage, "over"}
    BY <1>6 DEF InitialCheckpoint, Stage
  <2> QED BY <1>1, <1>6, <2>1 DEF InitialCheckpoint
<1>7. CASE GoOn
  <2>1. /\ presenters = {} /\ presenters' = presenters /\ turn' = turn
        /\ phase = "waitReady" /\ phase' = "start" /\ turn.index > Len(turn.blocks)
        /\ aborted' = aborted /\ ran' = ran
    BY <1>7 DEF GoOn, IInv, Holds
  <2>2. turn.index - 1 = Len(turn.blocks)
    <3>1. /\ turn.index <= Len(turn.blocks) + 1
          /\ turn.index \in Nat /\ Len(turn.blocks) \in Nat
      BY DEF IInv, TypeOK, TurnType
    <3> QED BY <2>1, <3>1
  <2>3. /\ Skipping(turn)' = Skipping(turn) /\ (turn.index - 1)' = turn.index - 1
        /\ Refused(turn)' = Refused(turn) /\ (presenters # {})' = (presenters # {})
        /\ Stage = "waiting" /\ Stage' = "idle"
    BY <2>1 DEF Skipping, Refused, Stage
  <2>4. Turn!Continue
    BY <2>1, <2>2, <2>3 DEF Turn!Continue, Refused
  <2>5. PInv'
    BY <2>1, <2>3 DEF PInv
  <2> QED BY <2>4, <2>5 DEF Turn!Next
<1>8. CASE LateResult
  <2>1. PICK l \in late : turn' = IF l.epoch = epoch THEN Result(turn, l.block)
                                  ELSE [turn EXCEPT !.used = TRUE]
    BY <1>8 DEF LateResult
  <2>2. l.block \in 1..MaxBlocks
    BY <1>0 DEF TypeOK
  <2>3. /\ Answering(Result(turn, l.block)) /\ Skipping(Result(turn, l.block))
    BY <1>0, <2>2, HandlersAnswer
  <2>4. /\ turn'.blocks = turn.blocks /\ turn'.index = turn.index
        /\ Refused(turn') = Refused(turn) /\ Skipping(turn') = TRUE
    <3>1. CASE turn' = Result(turn, l.block)
      BY <2>3, <3>1 DEF Answering, Touched, Skipping
    <3>2. CASE turn' = [turn EXCEPT !.used = TRUE]
      BY <1>0, <3>2 DEF Skipping, Refused, TurnType
    <3> QED BY <2>1, <3>1, <3>2
  <2>5. presenters' = presenters /\ ran' = ran /\ aborted' = aborted /\ phase' = phase
    BY <1>8 DEF LateResult, PresenterFrame
  <2>6. /\ Skipping(turn)' = TRUE /\ (turn.index - 1)' = turn.index - 1
        /\ Refused(turn)' = Refused(turn) /\ (presenters # {})' = (presenters # {})
        /\ Stage' = Stage
    BY <2>4, <2>5 DEF Skipping, Refused, Stage
  <2>7. Turn!Close
    BY <2>4, <2>5, <2>6 DEF Turn!Close, Refused
  <2>8. PInv'
    BY <2>4, <2>5, <2>6 DEF PInv
  <2> QED BY <2>7, <2>8 DEF Turn!Next
<1> QED BY <1>2, <1>3, <1>4, <1>5, <1>6, <1>7, <1>8

-----------------------------------------------------------------------------

LEMMA StepTurns ==
  ASSUME LoopAssumption, IInv, CInv, AInv, PInv, [Next]_vars
  PROVE  Turn!Next /\ PInv'
<1>1. CASE \E p \in presenters : Presenter(p)
  BY <1>1, PresenterTurn
<1>2. CASE Chunk
  BY <1>2, ChunkReceives DEF Turn!Next
<1>3. CASE FinishReading
  BY <1>3, FinishReadingEnds
<1>4. CASE BeginRequest
  BY <1>4, BeginRequestRequests
<1>5. CASE \/ AskAfterMistakes \/ ReasoningChunk \/ UsageChunk \/ StreamFails
           \/ GoOn \/ LateResult \/ Abort \/ Replaced \/ InitialCheckpoint
           \/ UNCHANGED vars
  BY <1>5, OtherTurns
<1> QED BY <1>1, <1>2, <1>3, <1>4, <1>5 DEF Next, Reader

LEMMA InitTurns ==
  ASSUME Init
  PROVE  Turn!Init /\ PInv
<1>1. /\ turn.blocks = <<>> /\ Len(<<>>) = 0 /\ turn.index = 1
      /\ ~turn.rejected /\ ~turn.used
      /\ \A b \in 1..MaxBlocks : turn.answers[b] = {}
  BY DEF Init, FreshTurn
<1>2. phase = "start" /\ presenters = {} /\ ran = {} /\ aborted = FALSE
  BY DEF Init
<1>3. Refused(turn) = {} /\ Skipping(turn) = FALSE /\ Stage = "idle"
  BY <1>1, <1>2 DEF Refused, Skipping, Stage
<1>4. /\ (presenters # {}) = FALSE /\ turn.index - 1 = 0 /\ Len(turn.blocks) = 0
      /\ (\E b \in 1..Len(turn.blocks) : turn.blocks[b].partial) = FALSE
  BY <1>1, <1>2
<1>5. Turn!Init
  BY <1>2, <1>3, <1>4 DEF Turn!Init, Refused
<1> QED BY <1>2, <1>3, <1>5 DEF PInv

\* What has run, what is shown half and what was refused stay apart, at the
\* index and behind it.
THEOREM PlacesInvariant == Spec => []PInv
<1>1. IInv /\ CInv /\ AInv /\ PInv /\ [Next]_vars => PInv'
  BY LoopAssumption, StepTurns
<1> QED BY <1>1, InitTurns, LoopInvariant, AccountsInvariant, PTL DEF Spec

\* The reader and the presenters, with lock, note and flag between them, do what
\* one worker would that takes the blocks of a message in order, whatever their
\* number and kinds.
THEOREM LoopKeepsTurn == Spec => KeepsTurn
<1>1. IInv /\ CInv /\ AInv /\ PInv /\ [Next]_vars => [Turn!Next]_(Turn!vars)
  BY LoopAssumption, StepTurns
<1> QED BY <1>1, InitTurns, LoopInvariant, AccountsInvariant, PlacesInvariant, PTL
      DEF Spec, KeepsTurn, Turn!Spec

\* No tool that has run is refused as well, in messages of any length.
THEOREM EitherRunOrRefused == Spec => []RunOrRefused
<1>1. IInv /\ PInv => RunOrRefused
  BY DEF IInv, TypeOK, PInv, Refused, RunOrRefused
<1> QED BY <1>1, LoopInvariant, PlacesInvariant, PTL
=============================================================================
