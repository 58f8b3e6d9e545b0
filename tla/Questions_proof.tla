--------------------------- MODULE Questions_proof ---------------------------
(***************************************************************************)
(* Proofs about Questions: for every number of messages and every set of   *)
(* questions, ask and say implement QuestionProtocol.  An answer is taken  *)
(* by the question that was open when it was given, and taken once.        *)
(***************************************************************************)
EXTENDS Questions, SequenceTheorems, FiniteSetTheorems, TLAPS

Message == [kind : Kinds, partial : BOOLEAN]

(* The calls of ask that wait are those of the open questions; a message   *)
(* still being written is no question yet; only an answered question has   *)
(* taken answers.                                                          *)
Recorded ==
  /\ messages \in Seq(Message)
  /\ outcome \in Seq(Outcomes) /\ Len(outcome) = Last
  /\ asks \subseteq 1..Last
  /\ \A i \in 1..Last :
       /\ outcome[i].is = "open" <=> i \in asks
       /\ outcome[i].is # "answered" => outcome[i].by = {}
       /\ messages[i].partial => outcome[i].is = "none"
       /\ i \in asks => IsAsk(messages[i].kind)

OneAnswer == slot = {} \/ \E a \in Answers : slot = {a}

QInv ==
  /\ Recorded
  /\ Last <= MaxMessages
  /\ OneAnswer
  /\ main \in {"free", "asking", "running"}
  /\ background \in BOOLEAN /\ reading \in BOOLEAN

-----------------------------------------------------------------------------
(* What the steps do to the log of messages.                               *)

\* A message is added, as a question or not.
LEMMA Added ==
  ASSUME Recorded, NEW kind \in Kinds, NEW partial \in BOOLEAN,
         NEW how \in {"none", "open"}, Add(kind, partial, how),
         asks' = IF how = "open" THEN asks \cup {Last + 1} ELSE asks,
         how = "open" => (~partial /\ IsAsk(kind))
  PROVE  /\ Recorded' /\ Last' <= MaxMessages /\ Last' = Last + 1
         /\ \A i \in 1..Last : outcome'[i] = outcome[i]
         /\ outcome'[Last + 1] = [is |-> how, by |-> {}]
<1> DEFINE m == [kind |-> kind, partial |-> partial]
           o == [is |-> how, by |-> {}]
<1>1. m \in Message /\ o \in Outcomes
  BY DEF Message, Outcomes
<1>2. /\ messages \in Seq(Message) /\ outcome \in Seq(Outcomes)
      /\ Len(outcome) = Len(messages) /\ Len(messages) \in Nat
  BY LenProperties DEF Recorded, Last
<1>3. messages' = Append(messages, m) /\ outcome' = Append(outcome, o)
      /\ Last < MaxMessages
  BY DEF Add
<1>4. /\ m.kind = kind /\ m.partial = partial /\ o.is = how /\ o.by = {}
  OBVIOUS
<1> HIDE DEF m, o
<1>5. /\ messages' \in Seq(Message) /\ Len(messages') = Len(messages) + 1
      /\ \A i \in 1..Len(messages) : messages'[i] = messages[i]
      /\ messages'[Len(messages) + 1] = m
  BY <1>1, <1>2, <1>3, AppendProperties
<1>6. /\ outcome' \in Seq(Outcomes) /\ Len(outcome') = Len(outcome) + 1
      /\ \A i \in 1..Len(outcome) : outcome'[i] = outcome[i]
      /\ outcome'[Len(outcome) + 1] = o
  BY <1>1, <1>2, <1>3, AppendProperties
<1>7. /\ Last' = Last + 1 /\ Last \in Nat /\ Len(outcome') = Last'
      /\ Last' <= MaxMessages
  BY <1>2, <1>3, <1>5, <1>6, QuestionsAssumption DEF Last
<1>8. asks' \subseteq 1..Last'
  BY <1>7 DEF Recorded
<1>9. ASSUME NEW i \in 1..Last'
      PROVE  /\ outcome'[i].is = "open" <=> i \in asks'
             /\ outcome'[i].is # "answered" => outcome'[i].by = {}
             /\ messages'[i].partial => outcome'[i].is = "none"
             /\ i \in asks' => IsAsk(messages'[i].kind)
  <2>1. CASE i \in 1..Last
    BY <2>1, <1>2, <1>5, <1>6, <1>7 DEF Recorded, Last
  <2>2. CASE i = Last + 1
    <3>1. outcome'[i] = o /\ messages'[i] = m /\ i \notin asks
      BY <2>2, <1>2, <1>5, <1>6, <1>7 DEF Recorded, Last
    <3> QED BY <2>2, <3>1, <1>4
  <2> QED BY <1>7, <2>1, <2>2
<1> QED BY <1>2, <1>4, <1>5, <1>6, <1>7, <1>8, <1>9 DEF Recorded, Last, o

\* A question is asked that has been shown while it was written.
LEMMA CompletedIs ==
  ASSUME Recorded, NEW kind \in Tools, AskComplete(kind)
  PROVE  /\ Recorded' /\ Last' = Last /\ Last \in 1..Last
         /\ outcome[Last] = [is |-> "none", by |-> {}]
         /\ outcome' = [outcome EXCEPT ![Last] = [is |-> "open", by |-> {}]]
<1> DEFINE n == Last
           m == [messages[n] EXCEPT !.partial = FALSE]
           o == [is |-> "open", by |-> {}]
<1>1. /\ messages \in Seq(Message) /\ outcome \in Seq(Outcomes)
      /\ Len(outcome) = Len(messages) /\ n = Len(messages) /\ n \in Nat
      /\ n \in 1..n /\ messages[n].partial /\ messages[n].kind = kind
  BY LenProperties DEF Recorded, Last, AskComplete, Writing
<1>2. messages[n] \in Message /\ outcome[n] \in Outcomes
  BY <1>1, ElementOfSeq
<1>3. outcome[n].is = "none" /\ outcome[n].by = {}
  BY <1>1 DEF Recorded
<1>4. /\ m \in Message /\ m.kind = kind /\ ~m.partial /\ o \in Outcomes
      /\ outcome[n] = [is |-> "none", by |-> {}]
      /\ [outcome[n] EXCEPT !.is = "open"] = o
  <2>1. m \in Message /\ m.kind = kind /\ ~m.partial
    BY <1>1, <1>2 DEF Message
  <2>2. o \in Outcomes
    BY DEF Outcomes
  <2>3. outcome[n] = [is |-> "none", by |-> {}]
    BY <1>2, <1>3 DEF Outcomes
  <2>4. [outcome[n] EXCEPT !.is = "open"] = o
    BY <2>3
  <2> QED BY <2>1, <2>2, <2>3, <2>4
<1>5. messages' = [messages EXCEPT ![n] = m] /\ outcome' = [outcome EXCEPT ![n] = o]
  BY <1>4 DEF AskComplete
<1> HIDE DEF m
<1>6. /\ messages' \in Seq(Message) /\ Len(messages') = n
      /\ \A i \in 1..n : messages'[i] = IF i = n THEN m ELSE messages[i]
  BY <1>1, <1>4, <1>5, ExceptSeq
<1>7. /\ outcome' \in Seq(Outcomes) /\ Len(outcome') = n
      /\ \A i \in 1..n : outcome'[i] = IF i = n THEN o ELSE outcome[i]
  BY <1>1, <1>4, <1>5, ExceptSeq
<1>8. Last' = n /\ asks' = asks \cup {n}
  BY <1>6 DEF Last, AskComplete
<1>9. IsAsk(kind)
  BY DEF IsAsk
<1>10. ASSUME NEW i \in 1..n
       PROVE  /\ outcome'[i].is = "open" <=> i \in asks'
              /\ outcome'[i].is # "answered" => outcome'[i].by = {}
              /\ messages'[i].partial => outcome'[i].is = "none"
              /\ i \in asks' => IsAsk(messages'[i].kind)
  <2>1. CASE i = n
    BY <2>1, <1>4, <1>6, <1>7, <1>8, <1>9
  <2>2. CASE i # n
    BY <2>2, <1>6, <1>7, <1>8 DEF Recorded
  <2> QED BY <2>1, <2>2
<1> HIDE DEF o
<1>11. asks' \subseteq 1..n
  BY <1>1, <1>8 DEF Recorded
<1>12. Recorded'
  BY <1>6, <1>7, <1>8, <1>10, <1>11 DEF Recorded
<1> QED BY <1>1, <1>4, <1>5, <1>8, <1>12 DEF o

\* A call of ask ends, with an answer or without one.
LEMMA AskEnds ==
  ASSUME Recorded, NEW i \in asks, NEW o \in Outcomes,
         o.is = "answered" \/ (o.is = "ignored" /\ o.by = {}),
         outcome' = [outcome EXCEPT ![i] = o], asks' = asks \ {i},
         messages' = messages
  PROVE  Recorded' /\ Last' = Last
<1>1. /\ outcome \in Seq(Outcomes) /\ Len(outcome) = Last /\ i \in 1..Last
      /\ Last' = Last
  BY DEF Recorded, Last
<1>2. /\ outcome' \in Seq(Outcomes) /\ Len(outcome') = Last
      /\ \A j \in 1..Last : outcome'[j] = IF j = i THEN o ELSE outcome[j]
  BY <1>1, ExceptSeq
<1>3. messages[i].partial = FALSE \/ outcome[i].is = "none"
  BY <1>1, ElementOfSeq DEF Recorded, Message, Last
<1>4. ~(messages[i].partial)
  BY <1>1, <1>3 DEF Recorded
<1> QED BY <1>1, <1>2, <1>4 DEF Recorded

LEMMA IgnoredEnds ==
  ASSUME Recorded, NEW i \in asks, Ignored(i)
  PROVE  Recorded' /\ Last' = Last
<1> DEFINE o == [is |-> "ignored", by |-> {}]
<1>1. i \in 1..Last /\ outcome[i] \in Outcomes
  BY ElementOfSeq DEF Recorded
<1>2. outcome[i].by = {}
  BY <1>1 DEF Recorded
<1>3. [outcome[i] EXCEPT !.is = "ignored"] = o /\ o \in Outcomes
  BY <1>1, <1>2 DEF Outcomes
<1>4. outcome' = [outcome EXCEPT ![i] = o]
  BY <1>3 DEF Ignored
<1>5. o.is = "ignored" /\ o.by = {} /\ asks' = asks \ {i} /\ messages' = messages
  BY DEF Ignored
<1> HIDE DEF o
<1> QED BY <1>3, <1>4, <1>5, AskEnds

LEMMA AnsweredEnds ==
  ASSUME Recorded, OneAnswer, NEW i \in asks, Answered(i)
  PROVE  Recorded' /\ Last' = Last
<1> DEFINE o == [is |-> "answered", by |-> slot]
<1>1. o \in Outcomes /\ o.is = "answered"
  BY DEF Outcomes, OneAnswer
<1>2. /\ outcome' = [outcome EXCEPT ![i] = o]
      /\ asks' = asks \ {i} /\ messages' = messages
  BY DEF Answered
<1>3. o.is = "answered" \/ (o.is = "ignored" /\ o.by = {})
  BY <1>1
<1> HIDE DEF o
<1> QED BY <1>1, <1>2, <1>3, AskEnds

-----------------------------------------------------------------------------
(* The invariant.                                                          *)

\* What is said, asked and shown adds a message of a known kind.
LEMMA SaysKeeps ==
  ASSUME Recorded, NEW kind \in Kinds, Says(kind)
  PROVE  Recorded' /\ Last' <= MaxMessages
BY Added DEF Says

LEMMA AsksKeeps ==
  ASSUME Recorded, NEW kind \in Tools \cup {Output}, Asks(kind)
  PROVE  Recorded' /\ Last' <= MaxMessages
<1>1. /\ kind \in Kinds /\ IsAsk(kind) /\ Add(kind, FALSE, "open")
      /\ asks' = asks \cup {Last + 1}
  BY DEF Kinds, IsAsk, Asks
<1> QED BY <1>1, Added

LEMMA TaskKeeps == ASSUME QInv, TaskStep PROVE QInv'
<1>1. CASE Say
  <2>1. PICK kind \in {"text", "api_req_started"} : Says(kind)
    BY <1>1 DEF Say
  <2>2. kind \in Kinds
    BY DEF Kinds
  <2>3. reading' \in BOOLEAN
    BY <1>1 DEF Say, QInv
  <2> QED BY <1>1, <2>1, <2>2, <2>3, SaysKeeps DEF QInv, Say, Says, OneAnswer
<1>2. CASE RunCommand \/ UpdateApiReqMsg
  <2>1. /\ Recorded' /\ Last' <= MaxMessages /\ OneAnswer'
        /\ main' \in {"free", "asking", "running"}
    BY <1>2 DEF QInv, RunCommand, UpdateApiReqMsg, Recorded, OneAnswer, Last
  <2>2. background' \in BOOLEAN /\ reading' \in BOOLEAN
    BY <1>2 DEF QInv, RunCommand, UpdateApiReqMsg
  <2> QED BY <2>1, <2>2 DEF QInv
<1>3. CASE OutputLine
  <2>1. CASE Asks(Output)
    BY <1>3, <2>1, AsksKeeps DEF QInv, OutputLine, Asks, OneAnswer
  <2>2. CASE Says("text")
    <3>1. "text" \in Kinds
      BY DEF Kinds
    <3> QED BY <1>3, <2>2, <3>1, SaysKeeps DEF QInv, OutputLine, Says, OneAnswer
  <2> QED BY <1>3, <2>1, <2>2 DEF OutputLine
<1>4. CASE CommandEnds
  BY <1>4 DEF QInv, CommandEnds, Recorded, OneAnswer, Last
<1>5. ASSUME NEW kind \in Tools, AskPartial(kind) PROVE QInv'
  <2>1. /\ kind \in Kinds /\ Add(kind, TRUE, "none") /\ asks' = asks
        /\ slot' = slot /\ main' = main /\ background' = background
        /\ reading' = reading
    BY <1>5 DEF Kinds, AskPartial
  <2>2. Recorded' /\ Last' <= MaxMessages
    BY <2>1, Added DEF QInv
  <2> QED BY <2>1, <2>2 DEF QInv, OneAnswer
<1>6. ASSUME NEW kind \in Tools, AskComplete(kind) PROVE QInv'
  BY <1>6, CompletedIs DEF QInv, AskComplete, OneAnswer
<1>7. ASSUME NEW kind \in Tools, Ask(kind) PROVE QInv'
  BY <1>7, AsksKeeps DEF QInv, Ask, Asks, OneAnswer
<1>8. ASSUME NEW i \in asks, Ignored(i) PROVE QInv'
  <2>1. Recorded' /\ Last' = Last
    BY <1>8, IgnoredEnds DEF QInv
  <2> QED BY <1>8, <2>1 DEF QInv, Ignored, OneAnswer
<1>9. ASSUME NEW i \in asks, Answered(i) PROVE QInv'
  <2>1. Recorded' /\ Last' = Last
    BY <1>9, AnsweredEnds DEF QInv
  <2>2. main' \in {"free", "asking", "running"}
    BY <1>9 DEF QInv, Answered
  <2>3. background' \in BOOLEAN
    BY <1>9 DEF QInv, Answered
  <2> QED BY <1>9, <2>1, <2>2, <2>3 DEF QInv, Answered, OneAnswer
<1> QED BY <1>1, <1>2, <1>3, <1>4, <1>5, <1>6, <1>7, <1>8, <1>9 DEF TaskStep

LEMMA AnswerKeeps ==
  ASSUME QInv, NEW a \in Answers, HandleWebviewAskResponse(a)
  PROVE  QInv'
BY DEF QInv, HandleWebviewAskResponse, OneAnswer, Recorded, Last

LEMMA InitInv == Init => QInv
<1> SUFFICES ASSUME Init PROVE QInv
  OBVIOUS
<1>1. messages \in Seq(Message) /\ outcome \in Seq(Outcomes) /\ Len(outcome) = 0
      /\ Last = 0
  BY EmptySeq DEF Init, Last
<1>2. Recorded
  BY <1>1 DEF Init, Recorded
<1>3. Last <= MaxMessages
  BY <1>1, QuestionsAssumption
<1>4. /\ OneAnswer /\ main \in {"free", "asking", "running"}
      /\ background \in BOOLEAN /\ reading \in BOOLEAN
  BY DEF Init, OneAnswer
<1> QED BY <1>2, <1>3, <1>4 DEF QInv

\* The invariant of ask, say and the answers: the calls that wait are those of
\* the open questions, and only answered questions have taken answers.
THEOREM QuestionsInvariant == Spec => []QInv
<1>1. QInv /\ [Next]_questionVars => QInv'
  <2> SUFFICES ASSUME QInv, [Next]_questionVars PROVE QInv'
    OBVIOUS
  <2>1. CASE UNCHANGED questionVars
    BY <2>1 DEF questionVars, QInv, Recorded, OneAnswer, Last
  <2> QED BY <2>1, TaskKeeps, AnswerKeeps DEF Next
<1> QED BY <1>1, InitInv, PTL DEF Spec

LEMMA InvTypes == QInv => TypeOK
<1> SUFFICES ASSUME QInv PROVE TypeOK
  OBVIOUS
<1>1. slot = {} \/ \E a \in Answers : slot = {a}
  BY DEF QInv, OneAnswer
<1>2. slot \subseteq Answers
  BY <1>1
<1>3. CASE slot = {}
  <2>1. Cardinality(slot) = 0
    BY <1>3, FS_EmptySet
  <2> QED BY <1>2, <2>1 DEF QInv, Recorded, TypeOK, Message
<1>4. ASSUME NEW a \in Answers, slot = {a} PROVE TypeOK
  <2>1. Cardinality(slot) = 1
    BY <1>4, FS_Singleton
  <2> QED BY <1>2, <2>1 DEF QInv, Recorded, TypeOK, Message
<1> QED BY <1>1, <1>3, <1>4

\* Type correctness: clineMessages, the calls of ask and the slot askResponse,
\* which never holds more than one answer.
THEOREM TypeCorrect == Spec => []TypeOK
BY QuestionsInvariant, InvTypes, PTL

-----------------------------------------------------------------------------
(* The refinement.                                                         *)

Void == [is |-> "void", by |-> {}]

FateType == [is : {"none", "open", "void", "answered"}, by : SUBSET Answers]

LEMMA FatesAre ==
  ASSUME Recorded
  PROVE  /\ Fates \in Seq(FateType) /\ Len(Fates) = Last /\ Last \in Nat
         /\ DOMAIN Fates = 1..Last
         /\ \A i \in 1..Last : Fates[i] =
              IF outcome[i].is = "ignored" \/ (outcome[i].is = "open" /\ i # Last)
              THEN Void ELSE outcome[i]
<1>1. Last \in Nat
  BY LenProperties DEF Recorded, Last
<1>2. ASSUME NEW i \in 1..Last PROVE Fates[i] \in FateType
  <2>1. outcome[i] \in Outcomes
    BY <1>2, ElementOfSeq DEF Recorded
  <2> QED BY <2>1 DEF Fates, FateType, Outcomes
<1>3. Fates \in [1..Last -> FateType]
  BY <1>2 DEF Fates
<1>4. Fates \in Seq(FateType)
  BY <1>1, <1>3, SeqDef
<1>5. DOMAIN Fates = 1..Last
  BY DEF Fates
<1>6. Len(Fates) = Last
  BY <1>1, <1>4, <1>5, LenProperties
<1> QED BY <1>1, <1>4, <1>5, <1>6 DEF Fates, Void

(* All questions void.                                                     *)
Voided == [i \in DOMAIN Fates |-> IF Fates[i].is = "open" THEN Void ELSE Fates[i]]

LEMMA VoidedAre ==
  ASSUME Recorded
  PROVE  /\ Voided \in Seq(FateType) /\ Len(Voided) = Last
         /\ \A i \in 1..Last : Voided[i] =
              IF outcome[i].is \in {"ignored", "open"} THEN Void ELSE outcome[i]
<1>1. /\ Fates \in [1..Last -> FateType] /\ Last \in Nat
  BY FatesAre, LenProperties
<1>2. Void \in FateType
  BY DEF Void, FateType
<1>3. Voided \in [1..Last -> FateType]
  BY <1>1, <1>2 DEF Voided
<1>4. Voided \in Seq(FateType)
  BY <1>1, <1>3, SeqDef
<1>5. DOMAIN Voided = 1..Last
  BY <1>3
<1>6. Len(Voided) = Last
  BY <1>1, <1>4, <1>5, LenProperties
<1>7. ASSUME NEW i \in 1..Last
      PROVE  Voided[i] = IF outcome[i].is \in {"ignored", "open"} THEN Void
                         ELSE outcome[i]
  <2>1. Voided[i] = IF Fates[i].is = "open" THEN Void ELSE Fates[i]
    BY <1>1, <1>7, <1>5, FatesAre DEF Voided
  <2>2. Fates[i] = IF outcome[i].is = "ignored" \/ (outcome[i].is = "open" /\ i # Last)
                   THEN Void ELSE outcome[i]
    BY <1>7, FatesAre
  <2>3. Void.is = "void"
    BY DEF Void
  <2> QED BY <2>1, <2>2, <2>3
<1> QED BY <1>4, <1>6, <1>7

\* A message that is added makes the question before it void.
LEMMA AddedVoids ==
  ASSUME Recorded, NEW kind \in Kinds, NEW partial \in BOOLEAN,
         NEW how \in {"none", "open"}, Add(kind, partial, how),
         asks' = IF how = "open" THEN asks \cup {Last + 1} ELSE asks,
         how = "open" => (~partial /\ IsAsk(kind))
  PROVE  Fates' = Append(Voided, [is |-> how, by |-> {}])
<1> DEFINE o == [is |-> how, by |-> {}]
<1>1. /\ Recorded' /\ Last' = Last + 1 /\ Last \in Nat
      /\ \A i \in 1..Last : outcome'[i] = outcome[i]
      /\ outcome'[Last + 1] = o
  BY Added, FatesAre
<1>2. o \in FateType /\ o.is = how
  BY DEF FateType
<1> HIDE DEF o
<1>3. /\ Voided \in Seq(FateType) /\ Len(Voided) = Last
      /\ \A i \in 1..Last : Voided[i] =
           IF outcome[i].is \in {"ignored", "open"} THEN Void ELSE outcome[i]
  BY VoidedAre
<1>4. /\ Append(Voided, o) \in Seq(FateType)
      /\ Len(Append(Voided, o)) = Last + 1
      /\ \A i \in 1..Last : Append(Voided, o)[i] = Voided[i]
      /\ Append(Voided, o)[Last + 1] = o
  BY <1>2, <1>3, AppendProperties
<1>5. Append(Voided, o) \in [1..Last + 1 -> FateType]
  BY <1>1, <1>4, LenProperties
<1>6. Fates' = [i \in 1..Last + 1 |->
                 IF outcome'[i].is = "ignored" \/ (outcome'[i].is = "open" /\ i # Last + 1)
                 THEN Void ELSE outcome'[i]]
  BY <1>1 DEF Fates, Void
<1>7. ASSUME NEW i \in 1..Last + 1
      PROVE  Fates'[i] = Append(Voided, o)[i]
  <2>1. CASE i \in 1..Last
    <3>1. outcome'[i] = outcome[i] /\ i # Last + 1
      BY <2>1, <1>1
    <3>2. Fates'[i] = IF outcome[i].is \in {"ignored", "open"} THEN Void
                      ELSE outcome[i]
      BY <3>1, <1>6, <1>7
    <3> QED BY <2>1, <3>2, <1>3, <1>4
  <2>2. CASE i = Last + 1
    <3>1. Fates'[i] = o
      BY <2>2, <1>1, <1>2, <1>6, <1>7
    <3> QED BY <2>2, <3>1, <1>4
  <2>3. i \in 1..Last \/ i = Last + 1
    BY <1>1
  <2> QED BY <2>1, <2>2, <2>3
<1>8. Fates' = Append(Voided, o)
  BY <1>5, <1>6, <1>7
<1> QED BY <1>8 DEF o

(* The steps of the protocol, on the state that Questions is in.           *)
LEMMA ProtocolAdds ==
  ASSUME Given' = {}
  PROVE  /\ Fates' = Append(Voided, [is |-> "open", by |-> {}]) => Protocol!Question
         /\ Fates' = Append(Voided, [is |-> "none", by |-> {}]) => Protocol!Message
BY DEF Protocol!Question, Protocol!Message, Protocol!Voided, Protocol!Fate, Voided, Void

LEMMA ProtocolCompletes ==
  ASSUME Fates # <<>>, Fates[Len(Fates)].is = "none", Given' = {},
         Fates' = [Fates EXCEPT ![Len(Fates)] = [is |-> "open", by |-> {}]]
  PROVE  Protocol!Completion
BY DEF Protocol!Completion, Protocol!LastIs, Protocol!Fate

LEMMA ProtocolTakes ==
  ASSUME Given # {}, Given' = {},
         Fates' = [Fates EXCEPT ![Len(Fates)] = [is |-> "answered", by |-> Given]]
  PROVE  Protocol!Take
BY DEF Protocol!Take

LEMMA ProtocolGives ==
  ASSUME Fates # <<>>, Fates[Len(Fates)].is = "open", NEW a \in Answers,
         Given' = {a}, Fates' = Fates
  PROVE  Protocol!Give(a)
BY DEF Protocol!Give, Protocol!LastIs

LEMMA ProtocolStutters ==
  ASSUME Fates' = Fates, Given' = Given
  PROVE  UNCHANGED Protocol!vars
BY DEF Protocol!vars

(* One message of the log gets a new outcome.                              *)
LEMMA FatesExcept ==
  ASSUME Recorded, Last' = Last, NEW i \in 1..Last, NEW o \in Outcomes,
         outcome' = [outcome EXCEPT ![i] = o]
  PROVE  Fates' = [Fates EXCEPT ![i] =
                     IF o.is = "ignored" \/ (o.is = "open" /\ i # Last)
                     THEN Void ELSE o]
<1>1. \A j \in 1..Last : outcome'[j] = IF j = i THEN o ELSE outcome[j]
  BY ExceptSeq DEF Recorded
<1> QED BY <1>1 DEF Fates, Void

LEMMA SaysImplements ==
  ASSUME QInv, NEW kind \in Kinds, NEW partial \in BOOLEAN,
         Add(kind, partial, "none"), asks' = asks
  PROVE  Protocol!Message
<1>1. Last' = Last + 1 /\ Last \in Nat /\ asks \subseteq 1..Last
  BY Added, FatesAre DEF QInv, Recorded
<1>2. Given' = {}
  BY <1>1 DEF Given, Open
<1>3. Fates' = Append(Voided, [is |-> "none", by |-> {}])
  BY AddedVoids DEF QInv
<1> QED BY <1>2, <1>3, ProtocolAdds

LEMMA AsksImplements ==
  ASSUME QInv, NEW kind \in Tools \cup {Output}, Asks(kind)
  PROVE  Protocol!Question
<1>1. /\ kind \in Kinds /\ IsAsk(kind) /\ Add(kind, FALSE, "open")
      /\ asks' = asks \cup {Last + 1}
  BY DEF Kinds, IsAsk, Asks
<1>2. Given' = {}
  BY DEF Given, Asks
<1>3. Fates' = Append(Voided, [is |-> "open", by |-> {}])
  BY <1>1, AddedVoids DEF QInv
<1> QED BY <1>2, <1>3, ProtocolAdds

LEMMA CompletionImplements ==
  ASSUME QInv, NEW kind \in Tools, AskComplete(kind)
  PROVE  Protocol!Completion
<1> DEFINE o == [is |-> "open", by |-> {}]
<1>1. /\ Last' = Last /\ Last \in 1..Last
      /\ outcome[Last] = [is |-> "none", by |-> {}]
      /\ outcome' = [outcome EXCEPT ![Last] = o]
  BY CompletedIs DEF QInv
<1>2. o \in Outcomes /\ o.is = "open"
  BY DEF Outcomes
<1> HIDE DEF o
<1>3. Fates' = [Fates EXCEPT ![Last] = o]
  BY <1>1, <1>2, FatesExcept DEF QInv
<1>4. Fates # <<>> /\ Len(Fates) = Last /\ Fates[Last].is = "none"
  BY <1>1, FatesAre DEF QInv
<1>5. Given' = {}
  BY DEF AskComplete, Given
<1> QED BY <1>3, <1>4, <1>5, ProtocolCompletes DEF o

LEMMA IgnoredImplements ==
  ASSUME QInv, NEW i \in asks, Ignored(i)
  PROVE  UNCHANGED Protocol!vars
<1> DEFINE o == [is |-> "ignored", by |-> {}]
<1>1. i \in 1..Last /\ outcome[i] \in Outcomes /\ i # Last
  BY ElementOfSeq DEF QInv, Recorded, Ignored
<1>2. outcome[i].by = {} /\ outcome[i].is = "open"
  BY <1>1 DEF QInv, Recorded
<1>3. [outcome[i] EXCEPT !.is = "ignored"] = o /\ o \in Outcomes /\ o.is = "ignored"
  BY <1>1, <1>2 DEF Outcomes
<1>4. outcome' = [outcome EXCEPT ![i] = o] /\ Last' = Last
  BY <1>3 DEF Ignored, Last
<1> HIDE DEF o
<1>5. Fates' = [Fates EXCEPT ![i] = Void]
  BY <1>1, <1>3, <1>4, FatesExcept DEF QInv
<1>6. Fates[i] = Void /\ DOMAIN Fates = 1..Last
  BY <1>1, <1>2, FatesAre DEF QInv
<1>7. Fates' = Fates
  BY <1>1, <1>5, <1>6 DEF Fates
<1>8. Open' = Open
  BY <1>1, <1>4 DEF Open, Ignored
<1>9. Given' = Given
  BY <1>8 DEF Given, Ignored
<1> QED BY <1>7, <1>9, ProtocolStutters

LEMMA AnsweredImplements ==
  ASSUME QInv, NEW i \in asks, Answered(i)
  PROVE  Protocol!Take
<1> DEFINE o == [is |-> "answered", by |-> slot]
<1>1. o \in Outcomes /\ o.is = "answered"
  BY DEF Outcomes, QInv, OneAnswer
<1>2. /\ outcome' = [outcome EXCEPT ![i] = o] /\ Last' = Last
      /\ asks' = asks \ {i} /\ i = Last /\ i \in 1..Last
  BY DEF Answered, Last, QInv, Recorded
<1> HIDE DEF o
<1>3. Fates' = [Fates EXCEPT ![Last] = o] /\ Len(Fates) = Last
  BY <1>1, <1>2, FatesExcept, FatesAre DEF QInv
<1>4. Given = slot /\ slot # {} /\ Given' = {}
  BY <1>2 DEF Given, Open, Answered
<1> QED BY <1>3, <1>4, ProtocolTakes DEF o

LEMMA AnswerImplements ==
  ASSUME QInv, NEW a \in Answers, HandleWebviewAskResponse(a)
  PROVE  Protocol!Give(a) \/ UNCHANGED Protocol!vars
<1>1. Fates' = Fates /\ Open' = Open
  BY DEF HandleWebviewAskResponse, Fates, Open, Last
<1>2. CASE Open = {}
  BY <1>1, <1>2, ProtocolStutters DEF Given
<1>3. CASE Open # {}
  <2>1. Last \in asks /\ Last \in 1..Last /\ outcome[Last].is = "open"
    BY <1>3 DEF Open, QInv, Recorded
  <2>2. Fates # <<>> /\ Len(Fates) = Last /\ Fates[Last].is = "open"
    BY <2>1, FatesAre DEF QInv
  <2>3. Given' = {a}
    BY <1>1, <1>3 DEF Given, HandleWebviewAskResponse
  <2> QED BY <1>1, <2>2, <2>3, ProtocolGives
<1> QED BY <1>2, <1>3

LEMMA StutterImplements ==
  ASSUME UNCHANGED <<messages, asks, slot, outcome>>
  PROVE  UNCHANGED Protocol!vars
<1>1. Fates' = Fates /\ Given' = Given
  BY DEF Fates, Given, Open, Last
<1> QED BY <1>1, ProtocolStutters

LEMMA StepImplements ==
  ASSUME QInv, [Next]_questionVars
  PROVE  [Protocol!Next]_(Protocol!vars)
<1>1. CASE Say
  <2>1. PICK kind \in {"text", "api_req_started"} : Says(kind)
    BY <1>1 DEF Say
  <2>2. kind \in Kinds /\ Add(kind, FALSE, "none") /\ asks' = asks
    BY <2>1 DEF Kinds, Says
  <2> QED BY <2>2, SaysImplements DEF Protocol!Next
<1>2. CASE RunCommand \/ CommandEnds \/ UpdateApiReqMsg
  BY <1>2, StutterImplements DEF RunCommand, CommandEnds, UpdateApiReqMsg
<1>3. CASE OutputLine
  <2>1. CASE Asks(Output)
    BY <2>1, AsksImplements DEF Protocol!Next
  <2>2. CASE Says("text")
    <3>1. "text" \in Kinds /\ Add("text", FALSE, "none") /\ asks' = asks
      BY <2>2 DEF Kinds, Says
    <3> QED BY <3>1, SaysImplements DEF Protocol!Next
  <2> QED BY <1>3, <2>1, <2>2 DEF OutputLine
<1>4. ASSUME NEW kind \in Tools, AskPartial(kind)
      PROVE  [Protocol!Next]_(Protocol!vars)
  <2>1. kind \in Kinds /\ Add(kind, TRUE, "none") /\ asks' = asks
    BY <1>4 DEF Kinds, AskPartial
  <2> QED BY <2>1, SaysImplements DEF Protocol!Next
<1>5. ASSUME NEW kind \in Tools, AskComplete(kind)
      PROVE  [Protocol!Next]_(Protocol!vars)
  BY <1>5, CompletionImplements DEF Protocol!Next
<1>6. ASSUME NEW kind \in Tools, Ask(kind)
      PROVE  [Protocol!Next]_(Protocol!vars)
  BY <1>6, AsksImplements DEF Protocol!Next, Ask
<1>7. ASSUME NEW i \in asks, Ignored(i) \/ Answered(i)
      PROVE  [Protocol!Next]_(Protocol!vars)
  BY <1>7, IgnoredImplements, AnsweredImplements DEF Protocol!Next
<1>8. ASSUME NEW a \in Answers, HandleWebviewAskResponse(a)
      PROVE  [Protocol!Next]_(Protocol!vars)
  BY <1>8, AnswerImplements DEF Protocol!Next
<1>9. CASE UNCHANGED questionVars
  BY <1>9, StutterImplements DEF questionVars
<1> QED BY <1>1, <1>2, <1>3, <1>4, <1>5, <1>6, <1>7, <1>8, <1>9 DEF Next, TaskStep

LEMMA InitImplements == Init => Protocol!Init
<1> SUFFICES ASSUME Init PROVE Protocol!Init
  OBVIOUS
<1>1. Last = 0 /\ Given = {}
  BY DEF Init, Last, Given, Open
<1>2. Fates \in Seq(FateType) /\ Len(Fates) = 0
  BY <1>1, InitInv, FatesAre DEF QInv
<1>3. Fates = <<>>
  BY <1>2, EmptySeq
<1> QED BY <1>1, <1>3 DEF Protocol!Init

\* Cline.ask, say and handleWebviewAskResponse keep the protocol: whatever the
\* number of messages and the order of steps, a question takes only an answer
\* given while it was the last message, and an answer is taken once.
THEOREM Implements == Spec => KeepsProtocol
<1>1. QInv /\ [Next]_questionVars => [Protocol!Next]_(Protocol!vars)
  BY StepImplements
<1> QED BY <1>1, InitImplements, QuestionsInvariant, PTL
        DEF Spec, KeepsProtocol, Protocol!Spec
=============================================================================
