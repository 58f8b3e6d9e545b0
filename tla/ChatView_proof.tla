---------------------------- MODULE ChatView_proof ----------------------------
(***************************************************************************)
(* Proofs about ChatView, for every number of messages, timers and         *)
(* answers: with the view, a task's questions still keep QuestionProtocol, *)
(* a question that waits can be answered by the user, and his answer goes  *)
(* to the question he had before him.                                      *)
(***************************************************************************)
EXTENDS ChatView, Questions_proof

(* The view is never ahead of the task, and what it has seen complete is   *)
(* complete; buttons belong to a question it has seen.                     *)
ViewInv ==
  /\ view \in Views
  /\ view.clineAsk # None => view.seen \in Indexes
  /\ view.shown \in 0..Last
  /\ view.shown > 0 /\ ~view.partial => ~messages[view.shown].partial

Channels ==
  /\ timers \in Seq(Indexes) /\ Len(timers) <= MaxTimers
  /\ flight \in Seq(Answers) /\ Len(flight) <= MaxFlight

VInv == QInv /\ ViewInv /\ Channels /\ QuestionCanBeAnswered

-----------------------------------------------------------------------------
(* The task's steps.                                                       *)

\* A message is added behind those that are there.
LEMMA AddKeepsLog ==
  ASSUME QInv, NEW kind \in Kinds, NEW partial \in BOOLEAN, NEW how,
         Add(kind, partial, how)
  PROVE  Last' = Last + 1 /\ \A i \in 1..Last : messages'[i] = messages[i]
<1> DEFINE m == [kind |-> kind, partial |-> partial]
<1>1. m \in Message /\ messages \in Seq(Message)
  BY DEF Message, QInv, Recorded
<1>2. messages' = Append(messages, m)
  BY DEF Add
<1> HIDE DEF m
<1> QED BY <1>1, <1>2, AppendProperties DEF Last

\* A step of the task makes a message, or leaves the question that is open;
\* a message once complete stays so.
LEMMA TaskLog ==
  ASSUME QInv, TaskStep
  PROVE  /\ Last \in Nat /\ Last' \in {Last, Last + 1}
         /\ \A i \in 1..Last : messages'[i].partial => messages[i].partial
         /\ Last' = Last => \/ Open' = {}
                            \/ Open' = Open /\ slot' = slot
                            \/ Last > 0 /\ messages[Last].partial
<1> DEFINE Goal == /\ Last' \in {Last, Last + 1}
                   /\ \A i \in 1..Last : messages'[i].partial => messages[i].partial
                   /\ Last' = Last => \/ Open' = {}
                                      \/ Open' = Open /\ slot' = slot
                                      \/ Last > 0 /\ messages[Last].partial
<1>0. Last \in Nat
  BY FatesAre DEF QInv
<1>1. ASSUME NEW kind \in Kinds, NEW partial \in BOOLEAN, NEW how,
             Add(kind, partial, how)
      PROVE  Goal
  BY <1>0, <1>1, AddKeepsLog
<1>2. CASE Say
  <2>1. PICK kind \in {"text", "api_req_started"} : Says(kind)
    BY <1>2 DEF Say
  <2>2. kind \in Kinds /\ Add(kind, FALSE, "none")
    BY <2>1 DEF Says, Kinds
  <2> QED BY <2>2, <1>0, <1>1
<1>3. CASE RunCommand \/ CommandEnds \/ UpdateApiReqMsg
  BY <1>3 DEF RunCommand, CommandEnds, UpdateApiReqMsg, Last, Open
<1>4. CASE OutputLine
  <2>1. PICK kind \in Kinds, how \in {"open", "none"} : Add(kind, FALSE, how)
    BY <1>4 DEF OutputLine, Asks, Says, Kinds
  <2> QED BY <2>1, <1>0, <1>1
<1>5. ASSUME NEW kind \in Tools, AskPartial(kind) \/ Ask(kind) PROVE Goal
  BY <1>1, <1>5 DEF AskPartial, Ask, Asks, Kinds
<1>6. ASSUME NEW kind \in Tools, AskComplete(kind) PROVE Goal
  <2>1. Last' = Last /\ Last > 0 /\ messages[Last].partial
    BY <1>6, CompletedIs DEF QInv, AskComplete, Writing
  <2> DEFINE m == [messages[Last] EXCEPT !.partial = FALSE]
  <2>2. messages' = [messages EXCEPT ![Last] = m] /\ messages \in Seq(Message)
    BY <1>6 DEF AskComplete, QInv, Recorded
  <2>3. messages[Last] \in Message
    BY <1>0, <2>1, <2>2, ElementOfSeq DEF Last
  <2>4. m.partial = FALSE
    BY <2>3 DEF Message
  <2>5. DOMAIN messages = 1..Last
    BY <2>2, LenProperties DEF Last
  <2>6. ASSUME NEW i \in 1..Last, messages'[i].partial PROVE messages[i].partial
    <3> HIDE DEF m
    <3> QED BY <2>1, <2>2, <2>4, <2>5, <2>6
  <2> QED BY <2>1, <2>6
<1>7. ASSUME NEW i \in asks, Ignored(i) PROVE Goal
  BY <1>7 DEF Ignored, Last, Open
<1>8. ASSUME NEW i \in asks, Answered(i) PROVE Goal
  BY <1>8 DEF Answered, Last, Open
<1> QED BY <1>0, <1>2, <1>3, <1>4, <1>5, <1>6, <1>7, <1>8 DEF TaskStep

LEMMA TaskKeepsView ==
  ASSUME VInv, TaskStep, UNCHANGED <<view, timers, flight>>
  PROVE  VInv'
<1>1. QInv'
  BY TaskKeeps DEF VInv
<1>2. /\ Last \in Nat /\ Last' \in {Last, Last + 1}
      /\ \A i \in 1..Last : messages'[i].partial => messages[i].partial
  BY TaskLog DEF VInv
<1>3. view.shown \in 0..Last
  BY DEF VInv, ViewInv
<1>4. ViewInv'
  BY <1>2 DEF VInv, ViewInv
<1>5. Channels'
  BY DEF VInv, Channels
<1>6. ASSUME Open' # {}, view.shown = Last', ~view.partial, flight = <<>>, slot' = {}
      PROVE  view.seen = Last' /\ view.buttons /\ view.text
  <2>1. Last' = Last /\ view.shown = Last
    BY <1>2, <1>3, <1>6
  <2>2. Last > 0 => ~messages[Last].partial
    BY <2>1, <1>6 DEF VInv, ViewInv
  <2>3. Open' = Open /\ slot' = slot
    BY <2>1, <2>2, <1>6, TaskLog DEF VInv
  <2> QED BY <2>1, <2>3, <1>6 DEF VInv, QuestionCanBeAnswered
<1>7. QuestionCanBeAnswered'
  BY <1>6 DEF QuestionCanBeAnswered
<1> QED BY <1>1, <1>4, <1>5, <1>7 DEF VInv

-----------------------------------------------------------------------------
(* The view's steps.                                                       *)

\* A view that is cleared.
LEMMA ClearedIs ==
  ASSUME NEW v \in Views
  PROVE  /\ Cleared(v) \in Views /\ Cleared(v).clineAsk = None
         /\ Cleared(v).shown = v.shown /\ Cleared(v).partial = v.partial
         /\ Cleared(v).seen = 0 /\ Cleared(v).twice = v.twice
<1>1. 0 \in 0..MaxMessages
  BY QuestionsAssumption
<1>2. Cleared(v) \in Views
  BY <1>1 DEF Cleared, Views
<1>3. Cleared(v).clineAsk = None
  BY DEF Cleared, Views
<1>4. Cleared(v).shown = v.shown /\ Cleared(v).seen = 0
  BY DEF Cleared, Views
<1>5. Cleared(v).partial = v.partial
  BY DEF Cleared, Views
<1>6. Cleared(v).twice = v.twice
  BY DEF Cleared, Views
<1> QED BY <1>2, <1>3, <1>4, <1>5, <1>6

\* The view after an answer of the user's.
LEMMA RespondedIs ==
  ASSUME NEW v \in Views, NEW w, w = [Cleared(v) EXCEPT !.twice = @ \/ v.again]
  PROVE  /\ w \in Views /\ w.clineAsk = None /\ w.seen = 0
         /\ w.shown = v.shown /\ w.partial = v.partial
         /\ w.twice <=> v.twice \/ v.again
<1>1. /\ Cleared(v) \in Views /\ Cleared(v).clineAsk = None
      /\ Cleared(v).shown = v.shown /\ Cleared(v).partial = v.partial
      /\ Cleared(v).seen = 0 /\ Cleared(v).twice = v.twice
  BY ClearedIs
<1>2. PICK c : c = Cleared(v)
  OBVIOUS
<1>3. PICK b \in BOOLEAN : b <=> c.twice \/ v.again
  OBVIOUS
<1>4. (c.twice \/ v.again) \in BOOLEAN
  OBVIOUS
<1>5. w = [c EXCEPT !.twice = c.twice \/ v.again]
  BY <1>2
<1>6. w \in Views
  BY <1>1, <1>2, <1>4, <1>5 DEF Views
<1>7. w.clineAsk = None /\ w.seen = 0 /\ w.shown = v.shown
  BY <1>1, <1>2, <1>5 DEF Views
<1>8. w.partial = v.partial
  BY <1>1, <1>2, <1>5 DEF Views
<1>9. w.twice <=> v.twice \/ v.again
  BY <1>1, <1>2, <1>5 DEF Views
<1> QED BY <1>6, <1>7, <1>8, <1>9

\* The last two messages are noted.
LEMMA NotedIs ==
  ASSUME QInv, Last > 0, NEW v \in Views
  PROVE  /\ Noted(v) \in Views /\ Noted(v).shown = Last
         /\ Noted(v).partial = messages[Last].partial
         /\ Noted(v).clineAsk = v.clineAsk /\ Noted(v).seen = v.seen
         /\ Noted(v).buttons = v.buttons /\ Noted(v).text = v.text
         /\ Noted(v).again = v.again /\ Noted(v).twice = v.twice
<1>1. Last \in 0..MaxMessages /\ Last \in 1..Last
  BY FatesAre, QuestionsAssumption DEF QInv
<1>2. messages[Last] \in Message
  BY <1>1, ElementOfSeq DEF QInv, Recorded, Last
<1>3. PICK p \in BOOLEAN : p = messages[Last].partial
  BY <1>2 DEF Message
<1>4. Unfinished \in BOOLEAN
  BY DEF QInv, Unfinished
<1>5. PICK u \in BOOLEAN : u = Unfinished
  BY <1>4
<1>6. Noted(v) = [v EXCEPT !.shown = Last, !.partial = p, !.unfinished = u]
  BY <1>3, <1>5 DEF Noted
<1>7. Noted(v) \in Views
  BY <1>1, <1>6 DEF Views
<1>8. Noted(v).shown = Last /\ Noted(v).clineAsk = v.clineAsk /\ Noted(v).seen = v.seen
  BY <1>6 DEF Views
<1>9. Noted(v).partial = p
  BY <1>6 DEF Views
<1>10. Noted(v).buttons = v.buttons
  BY <1>6 DEF Views
<1>11. Noted(v).text = v.text
  BY <1>6 DEF Views
<1>12. Noted(v).again = v.again
  BY <1>6 DEF Views
<1>13. Noted(v).twice = v.twice
  BY <1>6 DEF Views
<1> QED BY <1>3, <1>7, <1>8, <1>9, <1>10, <1>11, <1>12, <1>13

\* The buttons and the text field are those of the last message.
LEMMA OfferedIs ==
  ASSUME QInv, Last > 0, NEW v \in Views, IsAsk(messages[Last].kind)
  PROVE  /\ Offered(v) \in Views /\ Offered(v).shown = Last
         /\ Offered(v).partial = messages[Last].partial
         /\ Offered(v).seen = Last
         /\ Offered(v).buttons = ~messages[Last].partial
         /\ Offered(v).text = ~messages[Last].partial
         /\ Offered(v).again <=> Again(v)
         /\ Offered(v).twice = v.twice
<1>1. Last \in 0..MaxMessages /\ Last \in 1..Last
  BY FatesAre, QuestionsAssumption DEF QInv
<1>2. messages[Last] \in Message
  BY <1>1, ElementOfSeq DEF QInv, Recorded, Last
<1>3. PICK b \in BOOLEAN : b = ~messages[Last].partial
  BY <1>2 DEF Message
<1>4. PICK k \in Tools \cup {Output, None} : k = messages[Last].kind
  BY DEF IsAsk
<1>5. Again(v) \in BOOLEAN
  BY DEF Again, Views
<1>6. PICK a \in BOOLEAN : a = Again(v)
  BY <1>5
<1>7. PICK n \in Views : n = Noted(v)
  BY NotedIs
<1>8. n.shown = Last /\ n.partial = messages[Last].partial /\ n.twice = v.twice
  BY <1>7, NotedIs
<1>9. Offered(v) = [n EXCEPT !.clineAsk = k, !.seen = Last, !.buttons = b,
                      !.text = b, !.again = a]
  BY <1>3, <1>4, <1>6, <1>7 DEF Offered
<1>10. Offered(v) \in Views
  BY <1>1, <1>9 DEF Views
<1>11. Offered(v).shown = Last /\ Offered(v).seen = Last
  BY <1>8, <1>9 DEF Views
<1>12. Offered(v).partial = messages[Last].partial
  BY <1>8, <1>9 DEF Views
<1>13. Offered(v).buttons = b
  BY <1>9 DEF Views
<1>14. Offered(v).text = b
  BY <1>9 DEF Views
<1>15. Offered(v).again = a
  BY <1>9 DEF Views
<1>16. Offered(v).twice = v.twice
  BY <1>8, <1>9 DEF Views
<1> QED BY <1>3, <1>6, <1>10, <1>11, <1>12, <1>13, <1>14, <1>15, <1>16

\* What a rendering makes of the view.
LEMMA ShownCases ==
  ASSUME QInv, NEW v \in Views
  PROVE  \/ Shown(v) = v /\ Known(v)
         \/ Shown(v) = Offered(v) /\ IsAsk(messages[Last].kind)
         \/ /\ Shown(v) = Noted(v) \/ Shown(v) = Cleared(Noted(v))
            /\ ~IsAsk(messages[Last].kind)
BY DEF Shown

\* The last message as the view shows it: it is up to date, and new buttons
\* are those of the last message.
LEMMA ShownIs ==
  ASSUME QInv, ViewInv, Last > 0
  PROVE  /\ Shown(view) \in Views /\ Shown(view).shown = Last
         /\ Shown(view).partial = messages[Last].partial
         /\ Shown(view).twice = view.twice
         /\ Shown(view).clineAsk # None => Shown(view).seen \in Indexes
         /\ IsAsk(messages[Last].kind) /\ Shown(view) # view
              => /\ Shown(view).seen = Last
                 /\ Shown(view).buttons = ~messages[Last].partial
                 /\ Shown(view).text = ~messages[Last].partial
<1>1. Last \in Indexes
  BY FatesAre, QuestionsAssumption DEF QInv, Indexes
<1>2. view \in Views /\ (view.clineAsk # None => view.seen \in Indexes)
  BY DEF ViewInv
<1>3. PICK n \in Views : n = Noted(view)
  BY <1>2, NotedIs
<1>4. /\ n.shown = Last /\ n.partial = messages[Last].partial
      /\ n.clineAsk = view.clineAsk /\ n.seen = view.seen /\ n.twice = view.twice
  BY <1>2, <1>3, NotedIs
<1>5. CASE Shown(view) = view /\ Known(view)
  BY <1>2, <1>5 DEF Known
<1>6. CASE Shown(view) = Offered(view) /\ IsAsk(messages[Last].kind)
  BY <1>1, <1>2, <1>6, OfferedIs
<1>7. CASE /\ Shown(view) = Noted(view) \/ Shown(view) = Cleared(Noted(view))
           /\ ~IsAsk(messages[Last].kind)
  BY <1>2, <1>3, <1>4, <1>7, ClearedIs
<1> QED BY <1>2, <1>5, <1>6, <1>7, ShownCases

\* An answer is posted: it is behind those on their way.
LEMMA Posted ==
  ASSUME Channels, NEW a \in Answers, Post(a)
  PROVE  flight' \in Seq(Answers) /\ Len(flight') <= MaxFlight /\ flight' # <<>>
<1>1. /\ flight' \in Seq(Answers) /\ Len(flight') = Len(flight) + 1
      /\ Len(flight) \in Nat /\ Len(flight) < MaxFlight
  BY AppendProperties, LenProperties DEF Channels, Post
<1>2. Len(flight') # 0
  BY <1>1
<1>3. Len(<<>>) = 0
  OBVIOUS
<1>4. flight' # <<>>
  BY <1>2, <1>3
<1> QED BY <1>1, <1>4, ChatViewAssumption

\* The approvals delayed, with new ones.
LEMMA Delays ==
  ASSUME Channels, Last \in Indexes, NEW times \in 0..2,
         Len(timers) + times <= MaxTimers,
         timers' = timers \o [n \in 1..times |-> Last]
  PROVE  timers' \in Seq(Indexes) /\ Len(timers') <= MaxTimers
<1> DEFINE new == [n \in 1..times |-> Last]
<1>1. new \in Seq(Indexes)
  BY SeqDef
<1>2. Len(new) = times
  <2>1. DOMAIN new = 1..times
    OBVIOUS
  <2> HIDE DEF new
  <2> QED BY <1>1, <2>1, LenProperties
<1> HIDE DEF new
<1>3. timers' = timers \o new
  BY DEF new
<1> QED BY <1>1, <1>2, <1>3, ConcatProperties DEF Channels

\* A step after which the view is cleared and an answer is on its way.
LEMMA PostKeeps ==
  ASSUME VInv, NEW v \in Views, NEW a \in Answers, Post(a), UNCHANGED questionVars,
         view' \in Views, view'.clineAsk = None,
         view'.shown = v.shown, view'.partial = v.partial,
         v.shown \in 0..Last,
         v.shown > 0 /\ ~v.partial => ~messages[v.shown].partial,
         timers' \in Seq(Indexes), Len(timers') <= MaxTimers
  PROVE  VInv'
<1>1. QInv' /\ Last' = Last /\ messages' = messages
  BY DEF VInv, QInv, Recorded, OneAnswer, questionVars, Last
<1>2. flight' \in Seq(Answers) /\ Len(flight') <= MaxFlight /\ flight' # <<>>
  BY Posted DEF VInv
<1>3. ViewInv'
  BY <1>1 DEF ViewInv
<1>4. QuestionCanBeAnswered'
  BY <1>2 DEF QuestionCanBeAnswered
<1> QED BY <1>1, <1>2, <1>3, <1>4 DEF VInv, Channels

LEMMA RenderKeeps == ASSUME VInv, Render PROVE VInv'
<1> DEFINE next == Shown(view)
           anew == <<next.clineAsk, next.buttons>> # <<view.clineAsk, view.buttons>>
           times == (IF Approves(view) THEN 1 ELSE 0)
                    + (IF anew /\ Approves(next) THEN 1 ELSE 0)
<1>1. /\ Last > 0 /\ UNCHANGED questionVars
      /\ \/ /\ Post(Answer("yes", Last, TRUE)) /\ view' = Cleared(next)
            /\ UNCHANGED timers
         \/ /\ Len(timers) + times <= MaxTimers
            /\ timers' = timers \o [n \in 1..times |-> Last]
            /\ view' = next /\ UNCHANGED flight
  BY DEF Render
<1>2. times \in 0..2
  OBVIOUS
<1>3. /\ next \in Views /\ next.shown = Last
      /\ next.partial = messages[Last].partial
      /\ next.clineAsk # None => next.seen \in Indexes
      /\ IsAsk(messages[Last].kind) /\ next # view
           => /\ next.seen = Last
              /\ next.buttons = ~messages[Last].partial
              /\ next.text = ~messages[Last].partial
  BY <1>1, ShownIs DEF VInv
<1>4. Last \in Nat /\ Last \in 0..Last /\ Last \in Indexes
  BY <1>1, FatesAre, QuestionsAssumption DEF VInv, QInv, Indexes
<1>5. QInv' /\ Last' = Last /\ messages' = messages
  BY <1>1 DEF VInv, QInv, Recorded, OneAnswer, questionVars, Last
<1> HIDE DEF next, times
<1>6. CASE /\ Post(Answer("yes", Last, TRUE)) /\ view' = Cleared(next)
           /\ UNCHANGED timers
  <2>1. Answer("yes", Last, TRUE) \in Answers
    BY <1>4 DEF Answer, Answers
  <2>2. timers' \in Seq(Indexes) /\ Len(timers') <= MaxTimers
    BY <1>6 DEF VInv, Channels
  <2>3. /\ view' \in Views /\ view'.clineAsk = None
        /\ view'.shown = next.shown /\ view'.partial = next.partial
    BY <1>3, <1>6, ClearedIs
  <2> QED BY <2>1, <2>2, <2>3, <1>1, <1>3, <1>4, <1>6, PostKeeps
<1>7. CASE /\ Len(timers) + times <= MaxTimers
           /\ timers' = timers \o [n \in 1..times |-> Last]
           /\ view' = next /\ UNCHANGED flight
  <2>1. timers' \in Seq(Indexes) /\ Len(timers') <= MaxTimers
    BY <1>2, <1>4, <1>7, Delays DEF VInv
  <2>2. ViewInv'
    BY <1>3, <1>4, <1>5, <1>7 DEF ViewInv
  <2>3. ASSUME Open # {}, view'.shown = Last, ~view'.partial, flight = <<>>, slot = {}
        PROVE  view'.seen = Last /\ view'.buttons /\ view'.text
    <3>1. Last \in asks
      BY <2>3 DEF Open
    <3>2. IsAsk(messages[Last].kind) /\ ~messages[Last].partial
      BY <3>1, <1>4 DEF VInv, QInv, Recorded
    <3>3. CASE next # view
      BY <3>2, <3>3, <1>3, <1>7
    <3>4. CASE next = view
      BY <2>3, <3>4, <1>7 DEF VInv, QuestionCanBeAnswered
    <3> QED BY <3>3, <3>4
  <2>4. Open' = Open /\ slot' = slot /\ flight' = flight
    BY <1>1, <1>5, <1>7 DEF Open, questionVars
  <2>5. QuestionCanBeAnswered'
    BY <2>3, <2>4, <1>5 DEF QuestionCanBeAnswered
  <2> QED BY <2>1, <2>2, <2>5, <1>5, <1>7 DEF VInv, Channels
<1> QED BY <1>1, <1>6, <1>7

LEMMA ApprovalKeeps == ASSUME VInv, ApprovalDue PROVE VInv'
<1>1. timers \in Seq(Indexes) /\ timers # <<>>
  BY DEF VInv, Channels, ApprovalDue
<1>2. /\ Head(timers) \in Indexes /\ Tail(timers) \in Seq(Indexes)
      /\ Len(Tail(timers)) = Len(timers) - 1 /\ Len(timers) \in Nat
  BY <1>1, HeadTailProperties, LenProperties
<1>3. Answer("yes", Head(timers), TRUE) \in Answers
  BY <1>2 DEF Answer, Answers
<1>4. timers' \in Seq(Indexes) /\ Len(timers') <= MaxTimers
  BY <1>2, ChatViewAssumption DEF VInv, Channels, ApprovalDue
<1>5. /\ Post(Answer("yes", Head(timers), TRUE)) /\ view' = Cleared(view)
      /\ UNCHANGED questionVars
  BY DEF ApprovalDue
<1>6. /\ view \in Views /\ view.shown \in 0..Last
      /\ view.shown > 0 /\ ~view.partial => ~messages[view.shown].partial
  BY DEF VInv, ViewInv
<1>7. /\ view' \in Views /\ view'.clineAsk = None
      /\ view'.shown = view.shown /\ view'.partial = view.partial
  BY <1>5, <1>6, ClearedIs
<1> QED BY <1>3, <1>4, <1>5, <1>6, <1>7, PostKeeps

LEMMA UserKeeps ==
  ASSUME VInv, NEW response \in {"yes", "no", "message"}, view.clineAsk # None,
         Responds(response)
  PROVE  VInv'
<1>1. Answer(response, view.seen, FALSE) \in Answers
  BY DEF VInv, ViewInv, Answer, Answers
<1>2. /\ Post(Answer(response, view.seen, FALSE)) /\ UNCHANGED <<questionVars, timers>>
      /\ view' = [Cleared(view) EXCEPT !.twice = @ \/ view.again]
  BY DEF Responds
<1>3. timers' \in Seq(Indexes) /\ Len(timers') <= MaxTimers
  BY <1>2 DEF VInv, Channels
<1>4. /\ view \in Views /\ view.shown \in 0..Last
      /\ view.shown > 0 /\ ~view.partial => ~messages[view.shown].partial
  BY DEF VInv, ViewInv
<1>5. /\ view' \in Views /\ view'.clineAsk = None
      /\ view'.shown = view.shown /\ view'.partial = view.partial
  BY <1>2, <1>4, RespondedIs
<1> QED BY <1>1, <1>2, <1>3, <1>4, <1>5, PostKeeps

\* What arrives is an answer.
LEMMA ArrivesIs ==
  ASSUME Channels, Arrives
  PROVE  /\ Head(flight) \in Answers /\ HandleWebviewAskResponse(Head(flight))
         /\ flight' \in Seq(Answers) /\ Len(flight') <= MaxFlight
<1>1. /\ Head(flight) \in Answers /\ Tail(flight) \in Seq(Answers)
      /\ Len(Tail(flight)) = Len(flight) - 1 /\ Len(flight) \in Nat
  BY HeadTailProperties, LenProperties DEF Channels, Arrives
<1> QED BY <1>1, ChatViewAssumption DEF Channels, Arrives

LEMMA ArrivesKeeps == ASSUME VInv, Arrives PROVE VInv'
<1>1. /\ Head(flight) \in Answers /\ HandleWebviewAskResponse(Head(flight))
      /\ flight' \in Seq(Answers) /\ Len(flight') <= MaxFlight
  BY ArrivesIs DEF VInv
<1>2. QInv'
  BY <1>1, AnswerKeeps DEF VInv
<1>3. slot' # {} /\ messages' = messages /\ Last' = Last
  BY <1>1 DEF HandleWebviewAskResponse, Last
<1>4. ViewInv' /\ view' = view /\ timers' = timers
  BY <1>3 DEF VInv, ViewInv, Arrives
<1>5. QuestionCanBeAnswered'
  BY <1>3 DEF QuestionCanBeAnswered
<1> QED BY <1>1, <1>2, <1>4, <1>5 DEF VInv, Channels

-----------------------------------------------------------------------------
(* The user's answers and the questions he had before him.                 *)

(* Where an answer of the user to what question s showed may be: taken, in *)
(* the slot, the k-th on its way; or the view still lets him give one.     *)
Taken(s) == \E i \in 1..Last : \E a \in outcome[i].by : ~a.auto /\ a.seen = s
Arrived(s) == \E a \in slot : ~a.auto /\ a.seen = s
OnItsWay(k, s) == ~flight[k].auto /\ flight[k].seen = s
Shows(s) ==
  view.clineAsk # None /\ (view.buttons \/ view.text) /\ view.seen = s
Fresh(s) == view.seen = s /\ ~view.again

(* A question that is not offered again has one answer of the user's, in   *)
(* one of these places, or none yet.                                       *)
Once ==
  \A s \in Indexes :
    /\ Fresh(s) => /\ ~Taken(s) /\ ~Arrived(s)
                   /\ \A k \in 1..Len(flight) : ~OnItsWay(k, s)
    /\ Taken(s) => ~Arrived(s) /\ \A k \in 1..Len(flight) : ~OnItsWay(k, s)
    /\ Arrived(s) => \A k \in 1..Len(flight) : ~OnItsWay(k, s)
    /\ \A j, k \in 1..Len(flight) : OnItsWay(j, s) /\ OnItsWay(k, s) => j = k

(* The view has had the whole question, and the task has asked it.         *)
Met(s) ==
  /\ s \in 1..Last /\ outcome[s].is # "none"
  /\ s <= view.shown /\ (s = view.shown => ~view.partial)

AllMet ==
  \A s \in Indexes :
    \/ Shows(s) \/ Taken(s) \/ Arrived(s)
    \/ \E k \in 1..Len(flight) : OnItsWay(k, s)
    => Met(s)

(* A complete question has been asked; one that is answered has an answer. *)
Complete ==
  \A i \in 1..Last :
    /\ outcome[i].is = "answered" => outcome[i].by # {}
    /\ IsAsk(messages[i].kind) /\ ~messages[i].partial => outcome[i].is # "none"

(* All of it holds until the user answers a question offered again.        *)
UInv ==
  /\ ~view.twice => Once /\ AllMet
  /\ Complete /\ UserAnswersWhatHeSees

\* A step that takes no answer and lets no answer arrive, and after which the
\* view shows a question anew only if nobody can have answered it.
LEMMA OnceKept ==
  ASSUME Once, AllMet,
         \A s \in Indexes :
           /\ Taken(s)' => Taken(s)
           /\ Arrived(s)' => Arrived(s)
           /\ \A k \in 1..Len(flight') :
                OnItsWay(k, s)' => k \in 1..Len(flight) /\ OnItsWay(k, s)
           /\ Fresh(s)' => Fresh(s) \/ ~Met(s)
           /\ Shows(s)' => Shows(s) \/ Met(s)'
           /\ Met(s) => Met(s)'
  PROVE  Once' /\ AllMet'
<1>1. ASSUME NEW s \in Indexes
      PROVE  /\ Fresh(s)' => /\ ~Taken(s)' /\ ~Arrived(s)'
                             /\ \A k \in 1..Len(flight') : ~OnItsWay(k, s)'
             /\ Taken(s)' => /\ ~Arrived(s)'
                             /\ \A k \in 1..Len(flight') : ~OnItsWay(k, s)'
             /\ Arrived(s)' => \A k \in 1..Len(flight') : ~OnItsWay(k, s)'
             /\ \A j, k \in 1..Len(flight') :
                  OnItsWay(j, s)' /\ OnItsWay(k, s)' => j = k
  BY DEF Once, AllMet
<1>2. ASSUME NEW s \in Indexes,
             \/ Shows(s)' \/ Taken(s)' \/ Arrived(s)'
             \/ \E k \in 1..Len(flight') : OnItsWay(k, s)'
      PROVE  Met(s)'
  BY <1>2 DEF AllMet
<1> QED BY <1>1, <1>2 DEF Once, AllMet

(* What UserAnswersWhatHeSees is about: nothing overtaken or approved      *)
(* automatically.                                                          *)
Undisturbed ==
  \A i \in 1..Last : /\ outcome[i].is # "ignored"
                     /\ outcome[i].is = "open" => i = Last
                     /\ \A a \in outcome[i].by : ~a.auto

\* A step of the task that takes no answer.
Plain ==
  /\ Last \in Nat /\ Last' \in Nat /\ Last <= Last'
  /\ \A i \in 1..Last : /\ outcome'[i].by = outcome[i].by
                        /\ outcome[i].is # "none" => outcome'[i].is # "none"
  /\ \A i \in 1..Last' : i \notin 1..Last => outcome'[i].by = {}
  /\ slot' \subseteq slot
  /\ Undisturbed' => Undisturbed
  /\ Complete'

\* It keeps everything.
LEMMA PlainKeeps ==
  ASSUME UInv, Plain, UNCHANGED <<view, flight>>
  PROVE  UInv'
<1>1. ASSUME NEW s \in Indexes
      PROVE  /\ Taken(s)' => Taken(s)
             /\ Arrived(s)' => Arrived(s)
             /\ Shows(s)' => Shows(s)
             /\ Fresh(s)' => Fresh(s)
             /\ Met(s) => Met(s)'
  <2>1. Taken(s)' => Taken(s)
    BY DEF Plain, Taken
  <2>2. Arrived(s)' => Arrived(s)
    BY DEF Plain, Arrived
  <2>3. Shows(s)' => Shows(s)
    BY DEF Shows
  <2>4. Fresh(s)' => Fresh(s)
    BY DEF Fresh
  <2>5. Met(s) => Met(s)'
    BY DEF Met, Plain
  <2> QED BY <2>1, <2>2, <2>3, <2>4, <2>5
<1>2. \A s \in Indexes, k \in 1..Len(flight') :
        OnItsWay(k, s)' => k \in 1..Len(flight) /\ OnItsWay(k, s)
  BY DEF OnItsWay
<1>3. ASSUME ~view'.twice
      PROVE  Once' /\ AllMet'
  <2>1. Once /\ AllMet
    BY <1>3 DEF UInv
  <2> QED BY <1>1, <1>2, <2>1, OnceKept
<1>4. UserAnswersWhatHeSees'
  <2>1. UserAnswersWhatHeSees <=>
          (~view.twice /\ Undisturbed => \A i \in 1..Last : \A a \in outcome[i].by : a.seen = i)
    BY DEF UserAnswersWhatHeSees, Undisturbed
  <2>2. UserAnswersWhatHeSees' <=>
          (~view'.twice /\ Undisturbed' => \A i \in 1..Last' : \A a \in outcome'[i].by : a.seen = i)
    BY DEF UserAnswersWhatHeSees, Undisturbed
  <2> QED BY <2>1, <2>2 DEF UInv, Plain
<1> QED BY <1>3, <1>4 DEF UInv, Plain

\* A message is added.
LEMMA AddIsPlain ==
  ASSUME QInv, Complete, NEW kind \in Kinds, NEW partial \in BOOLEAN,
         NEW how \in {"none", "open"}, Add(kind, partial, how),
         how = "none" => partial \/ ~IsAsk(kind), slot' \subseteq slot
  PROVE  Plain
<1> DEFINE m == [kind |-> kind, partial |-> partial]
           o == [is |-> how, by |-> {}]
<1>1. m \in Message /\ o \in Outcomes
  BY DEF Message, Outcomes
<1>2. /\ messages \in Seq(Message) /\ outcome \in Seq(Outcomes)
      /\ Len(outcome) = Len(messages) /\ Len(messages) \in Nat
  BY LenProperties DEF QInv, Recorded, Last
<1>3. messages' = Append(messages, m) /\ outcome' = Append(outcome, o)
  BY DEF Add
<1>4. /\ m.kind = kind /\ m.partial = partial /\ o.is = how /\ o.by = {}
  OBVIOUS
<1> HIDE DEF m, o
<1>5. /\ Len(messages') = Len(messages) + 1
      /\ \A i \in 1..Len(messages) : messages'[i] = messages[i]
      /\ messages'[Len(messages) + 1] = m
  BY <1>1, <1>2, <1>3, AppendProperties
<1>6. /\ \A i \in 1..Len(outcome) : outcome'[i] = outcome[i]
      /\ outcome'[Len(outcome) + 1] = o
  BY <1>1, <1>2, <1>3, AppendProperties
<1>7. /\ Last' = Last + 1 /\ Last \in Nat
      /\ \A i \in 1..Last : outcome'[i] = outcome[i] /\ messages'[i] = messages[i]
      /\ outcome'[Last + 1] = o /\ messages'[Last + 1] = m
  BY <1>2, <1>5, <1>6 DEF Last
<1>8. \A i \in 1..Last' : i \in 1..Last \/ i = Last + 1
  BY <1>7
<1>9. Complete'
  <2>1. ASSUME NEW i \in 1..Last'
        PROVE  /\ outcome'[i].is = "answered" => outcome'[i].by # {}
               /\ IsAsk(messages'[i].kind) /\ ~messages'[i].partial
                    => outcome'[i].is # "none"
    BY <1>4, <1>7, <1>8 DEF Complete, IsAsk
  <2> QED BY <2>1 DEF Complete, IsAsk
<1>10. Undisturbed' => Undisturbed
  <2> SUFFICES ASSUME Undisturbed', NEW i \in 1..Last
               PROVE  /\ outcome[i].is # "ignored" /\ outcome[i].is # "open"
                      /\ \A a \in outcome[i].by : ~a.auto
    BY DEF Undisturbed
  <2>1. i \in 1..Last' /\ i # Last' /\ outcome'[i] = outcome[i]
    BY <1>7
  <2> QED BY <2>1 DEF Undisturbed
<1> QED BY <1>4, <1>7, <1>8, <1>9, <1>10 DEF Plain

\* A question written to its end is asked.
LEMMA CompletionIsPlain ==
  ASSUME QInv, Complete, NEW kind \in Tools, AskComplete(kind)
  PROVE  Plain
<1> DEFINE o == [is |-> "open", by |-> {}]
<1>1. /\ Last' = Last /\ Last \in 1..Last
      /\ outcome[Last] = [is |-> "none", by |-> {}]
      /\ outcome' = [outcome EXCEPT ![Last] = o]
  BY CompletedIs DEF QInv
<1>2. /\ outcome \in Seq(Outcomes) /\ Len(outcome) = Last /\ Last \in Nat
      /\ messages \in Seq(Message)
  BY FatesAre DEF QInv, Recorded
<1>3. DOMAIN outcome = 1..Last /\ DOMAIN messages = 1..Last
  BY <1>2, LenProperties DEF Last
<1>4. \A i \in 1..Last : outcome'[i] = IF i = Last THEN o ELSE outcome[i]
  BY <1>1, <1>3
<1>5. ASSUME NEW i \in 1..Last, i # Last
      PROVE  messages'[i] = messages[i]
  BY <1>3, <1>5 DEF AskComplete
<1>6. slot' = {} /\ outcome[Last].is = "none" /\ outcome[Last].by = {}
  BY <1>1 DEF AskComplete
<1>7. Complete'
  <2> SUFFICES ASSUME NEW i \in 1..Last
               PROVE  /\ outcome'[i].is = "answered" => outcome'[i].by # {}
                      /\ IsAsk(messages'[i].kind) /\ ~messages'[i].partial
                           => outcome'[i].is # "none"
    BY <1>1 DEF Complete, IsAsk
  <2>1. CASE i = Last
    BY <1>4, <2>1
  <2>2. CASE i # Last
    BY <1>4, <1>5, <2>2 DEF Complete
  <2> QED BY <2>1, <2>2
<1>8. Undisturbed' => Undisturbed
  <2> SUFFICES ASSUME Undisturbed', NEW i \in 1..Last
               PROVE  /\ outcome[i].is # "ignored" /\ (outcome[i].is = "open" => i = Last)
                      /\ \A a \in outcome[i].by : ~a.auto
    BY DEF Undisturbed
  <2>1. CASE i = Last
    BY <1>6, <2>1
  <2>2. CASE i # Last
    BY <1>1, <1>4, <2>2 DEF Undisturbed
  <2> QED BY <2>1, <2>2
<1>9. \A i \in 1..Last : /\ outcome'[i].by = outcome[i].by
                         /\ outcome[i].is # "none" => outcome'[i].is # "none"
  BY <1>4, <1>6
<1> QED BY <1>1, <1>2, <1>6, <1>7, <1>8, <1>9 DEF Plain

\* A question overtaken ends: whatever comes, this was a disturbance.
LEMMA IgnoredIsPlain ==
  ASSUME QInv, Complete, NEW i \in asks, Ignored(i)
  PROVE  Plain
<1> DEFINE o == [outcome[i] EXCEPT !.is = "ignored"]
<1>1. /\ outcome \in Seq(Outcomes) /\ Len(outcome) = Last /\ Last \in Nat
      /\ i \in 1..Last
  BY FatesAre DEF QInv, Recorded
<1>2. DOMAIN outcome = 1..Last
  BY <1>1, LenProperties
<1>3. outcome[i] \in Outcomes
  BY <1>1, ElementOfSeq
<1>4. o.is = "ignored" /\ o.by = outcome[i].by
  BY <1>3 DEF Outcomes
<1>5. messages' = messages /\ slot' = slot /\ outcome' = [outcome EXCEPT ![i] = o]
  BY DEF Ignored
<1> HIDE DEF o
<1>6. Last' = Last /\ \A j \in 1..Last : outcome'[j] = IF j = i THEN o ELSE outcome[j]
  BY <1>2, <1>5 DEF Last
<1>7. Complete'
  <2> SUFFICES ASSUME NEW j \in 1..Last
               PROVE  /\ outcome'[j].is = "answered" => outcome'[j].by # {}
                      /\ IsAsk(messages[j].kind) /\ ~messages[j].partial
                           => outcome'[j].is # "none"
    BY <1>5, <1>6 DEF Complete, IsAsk
  <2> QED BY <1>4, <1>6 DEF Complete
<1>8. ~Undisturbed'
  BY <1>1, <1>4, <1>6 DEF Undisturbed
<1> QED BY <1>1, <1>4, <1>5, <1>6, <1>7, <1>8 DEF Plain

\* The question that is the last takes the answer in the slot.
LEMMA AnsweredOnce ==
  ASSUME VInv, UInv, NEW i \in asks, Answered(i), UNCHANGED <<view, flight>>
  PROVE  UInv'
<1> DEFINE o == [is |-> "answered", by |-> slot]
<1>1. /\ outcome \in Seq(Outcomes) /\ Len(outcome) = Last /\ Last \in Nat
      /\ i \in 1..Last /\ outcome[i].is = "open" /\ outcome[i].by = {}
  BY FatesAre DEF VInv, QInv, Recorded
<1>2. DOMAIN outcome = 1..Last
  BY <1>1, LenProperties
<1>3. PICK a \in Answers : slot = {a}
  BY DEF VInv, QInv, OneAnswer, Answered
<1>4. /\ messages' = messages /\ slot' = {} /\ outcome' = [outcome EXCEPT ![i] = o]
      /\ i = Last
  BY DEF Answered
<1>5. o.is = "answered" /\ o.by = slot
  OBVIOUS
<1> HIDE DEF o
<1>6. Last' = Last /\ \A j \in 1..Last : outcome'[j] = IF j = i THEN o ELSE outcome[j]
  BY <1>2, <1>4 DEF Last
<1>7. ASSUME NEW s \in Indexes
      PROVE  /\ Taken(s)' => Taken(s) \/ Arrived(s)
             /\ ~Arrived(s)' /\ (Shows(s)' <=> Shows(s))
             /\ Fresh(s)' <=> Fresh(s)
             /\ \A k \in 1..Len(flight) : OnItsWay(k, s)' <=> OnItsWay(k, s)
             /\ Met(s) => Met(s)'
  <2>1. Taken(s)' => Taken(s) \/ Arrived(s)
    BY <1>5, <1>6 DEF Taken, Arrived
  <2>2. ~Arrived(s)'
    BY <1>4 DEF Arrived
  <2>3. Shows(s)' <=> Shows(s)
    BY DEF Shows
  <2>4. \A k \in 1..Len(flight) : OnItsWay(k, s)' <=> OnItsWay(k, s)
    BY DEF OnItsWay
  <2>5. Met(s) => Met(s)'
    BY <1>5, <1>6 DEF Met
  <2>6. Fresh(s)' <=> Fresh(s)
    BY DEF Fresh
  <2> QED BY <2>1, <2>2, <2>3, <2>4, <2>5, <2>6
<1>8. ASSUME ~view'.twice
      PROVE  Once'
  <2>1. flight' = flight /\ Once
    BY <1>8 DEF UInv
  <2> QED BY <1>7, <2>1 DEF Once
<1>9. ASSUME ~view'.twice
      PROVE  AllMet'
  <2>1. flight' = flight /\ AllMet
    BY <1>9 DEF UInv
  <2> QED BY <1>7, <2>1 DEF AllMet
<1>10. Complete'
  <2> SUFFICES ASSUME NEW j \in 1..Last
               PROVE  /\ outcome'[j].is = "answered" => outcome'[j].by # {}
                      /\ IsAsk(messages[j].kind) /\ ~messages[j].partial
                           => outcome'[j].is # "none"
    BY <1>4, <1>6 DEF Complete, IsAsk
  <2> QED BY <1>3, <1>5, <1>6 DEF UInv, Complete
<1>11. UserAnswersWhatHeSees'
  <2> SUFFICES ASSUME ~view'.twice, Undisturbed',
                      NEW j \in 1..Last, NEW b \in outcome'[j].by
               PROVE  b.seen = j
    BY <1>6 DEF UserAnswersWhatHeSees, Undisturbed
  <2>0. ~view.twice /\ Once /\ AllMet
    BY DEF UInv
  <2>1. Undisturbed
    <3> SUFFICES ASSUME NEW h \in 1..Last
                 PROVE  /\ outcome[h].is # "ignored" /\ (outcome[h].is = "open" => h = Last)
                        /\ \A c \in outcome[h].by : ~c.auto
      BY DEF Undisturbed
    <3>1. CASE h = i
      BY <1>1, <1>4, <3>1
    <3>2. CASE h # i
      BY <1>6, <3>2 DEF Undisturbed
    <3> QED BY <3>1, <3>2
  <2>2. \A h \in 1..Last : \A c \in outcome[h].by : c.seen = h
    BY <2>0, <2>1 DEF UInv, UserAnswersWhatHeSees, Undisturbed
  <2>3. CASE j # i
    BY <1>6, <2>2, <2>3
  <2>4. CASE j = i
    <3>1. b = a /\ ~a.auto
      BY <1>3, <1>5, <1>6, <2>4 DEF Undisturbed
    <3>2. PICK s \in Indexes : s = a.seen
      BY DEF Answers
    <3>3. Arrived(s)
      BY <1>3, <3>1, <3>2 DEF Arrived
    <3>4. s \in 1..Last /\ outcome[s].is # "none"
      BY <2>0, <3>3 DEF AllMet, Met
    <3>5. ASSUME s # i
          PROVE  FALSE
      <4>1. outcome[s].is # "ignored" /\ outcome[s].is # "open"
        BY <1>4, <2>1, <3>4, <3>5 DEF Undisturbed
      <4>2. outcome[s] \in Outcomes
        BY <1>1, <3>4, ElementOfSeq
      <4>3. outcome[s].is = "answered"
        BY <3>4, <4>1, <4>2 DEF Outcomes
      <4>4. PICK c \in outcome[s].by : TRUE
        BY <3>4, <4>3 DEF UInv, Complete
      <4>5. c.seen = s /\ ~c.auto
        BY <2>1, <2>2, <3>4 DEF Undisturbed
      <4>6. Taken(s)
        BY <3>4, <4>4, <4>5 DEF Taken
      <4> QED BY <2>0, <3>3, <4>6 DEF Once
    <3> QED BY <2>4, <3>1, <3>2, <3>5
  <2> QED BY <2>3, <2>4
<1> QED BY <1>8, <1>9, <1>10, <1>11 DEF UInv

\* All steps of the task.
LEMMA TaskOnce ==
  ASSUME VInv, UInv, TaskStep, UNCHANGED <<view, timers, flight>>
  PROVE  UInv'
<1>1. Complete /\ QInv /\ Last \in Nat
  BY FatesAre DEF UInv, VInv, QInv
<1>2. ASSUME NEW kind \in {"text", "api_req_started"}, Says(kind)
      PROVE  Plain
  <2>1. kind \in Kinds /\ ~IsAsk(kind)
    BY QuestionsAssumption DEF Kinds, IsAsk
  <2>2. Add(kind, FALSE, "none") /\ slot' \subseteq slot
    BY <1>2 DEF Says
  <2> QED BY <1>1, <2>1, <2>2, AddIsPlain
<1>3. ASSUME NEW kind \in Tools \cup {Output}, Asks(kind)
      PROVE  Plain
  <2>1. kind \in Kinds /\ Add(kind, FALSE, "open") /\ slot' \subseteq slot
    BY <1>3 DEF Asks, Kinds
  <2> QED BY <1>1, <2>1, AddIsPlain
<1>4. ASSUME NEW kind \in Tools, AskPartial(kind)
      PROVE  Plain
  <2>1. kind \in Kinds /\ Add(kind, TRUE, "none") /\ slot' \subseteq slot
    BY <1>4 DEF AskPartial, Kinds
  <2> QED BY <1>1, <2>1, AddIsPlain
<1>5. CASE RunCommand \/ CommandEnds \/ UpdateApiReqMsg
  <2>1. messages' = messages /\ outcome' = outcome /\ slot' = slot /\ Last' = Last
    BY <1>5 DEF RunCommand, CommandEnds, UpdateApiReqMsg, Last
  <2>2. Plain
    BY <1>1, <2>1 DEF Plain, Undisturbed, Complete
  <2> QED BY <2>2, PlainKeeps
<1>6. ASSUME NEW i \in asks, Ignored(i) PROVE UInv'
  BY <1>1, <1>6, IgnoredIsPlain, PlainKeeps
<1>7. ASSUME NEW i \in asks, Answered(i) PROVE UInv'
  BY <1>7, AnsweredOnce
<1>8. ASSUME NEW kind \in Tools, AskPartial(kind) \/ AskComplete(kind) \/ Ask(kind)
      PROVE  UInv'
  BY <1>1, <1>3, <1>4, <1>8, CompletionIsPlain, PlainKeeps DEF Ask
<1>9. CASE Say
  BY <1>2, <1>9, PlainKeeps DEF Say
<1>10. CASE OutputLine
  BY <1>2, <1>3, <1>10, PlainKeeps DEF OutputLine
<1> QED BY <1>5, <1>6, <1>7, <1>8, <1>9, <1>10 DEF TaskStep

\* What a step leaves of the user's answers when it changes only the view and
\* what is on its way.
LEMMA ViewLeaves ==
  ASSUME UInv, UNCHANGED questionVars, view.twice => view'.twice
  PROVE  /\ Complete' /\ UserAnswersWhatHeSees' /\ Last' = Last
         /\ \A s \in Indexes : /\ Taken(s)' <=> Taken(s)
                               /\ Arrived(s)' <=> Arrived(s)
<1>1. /\ Last' = Last /\ outcome' = outcome /\ messages' = messages /\ slot' = slot
  BY DEF questionVars, Last
<1>2. ASSUME NEW s \in Indexes
      PROVE  (Taken(s)' <=> Taken(s)) /\ (Arrived(s)' <=> Arrived(s))
  BY <1>1 DEF Taken, Arrived
<1> QED BY <1>1, <1>2 DEF UInv, Complete, UserAnswersWhatHeSees

\* An answer posted is behind the others.
LEMMA PostedLast ==
  ASSUME Channels, NEW a \in Answers, Post(a)
  PROVE  /\ Len(flight) \in Nat /\ Len(flight') = Len(flight) + 1
         /\ \A k \in 1..Len(flight) : flight'[k] = flight[k]
         /\ flight'[Len(flight) + 1] = a
<1>1. flight \in Seq(Answers) /\ flight' = Append(flight, a)
  BY DEF Channels, Post
<1>2. Len(flight) \in Nat
  BY <1>1, LenProperties
<1>3. Len(flight') = Len(flight) + 1
  BY <1>1, AppendProperties
<1>4. \A k \in 1..Len(flight) : flight'[k] = flight[k]
  BY <1>1, AppendProperties
<1>5. flight'[Len(flight) + 1] = a
  BY <1>1, AppendProperties
<1> QED BY <1>2, <1>3, <1>4, <1>5

\* Which answers of the user's are on their way: the same, when none or one
\* given automatically is posted.
LEMMA WayKept ==
  ASSUME Channels,
         UNCHANGED flight \/ \E a \in Answers : a.auto /\ Post(a)
  PROVE  \A s \in Indexes, k \in 1..Len(flight') :
           OnItsWay(k, s)' => k \in 1..Len(flight) /\ OnItsWay(k, s)
<1>1. CASE UNCHANGED flight
  BY <1>1 DEF OnItsWay
<1>2. ASSUME NEW a \in Answers, a.auto, Post(a),
             NEW s \in Indexes, NEW k \in 1..Len(flight'), OnItsWay(k, s)'
      PROVE  k \in 1..Len(flight) /\ OnItsWay(k, s)
  <2>1. /\ Len(flight) \in Nat /\ Len(flight') = Len(flight) + 1
        /\ \A j \in 1..Len(flight) : flight'[j] = flight[j]
        /\ flight'[Len(flight) + 1] = a
    BY <1>2, PostedLast
  <2>2. k # Len(flight) + 1
    BY <1>2, <2>1 DEF OnItsWay
  <2>3. k \in 1..Len(flight)
    BY <2>1, <2>2
  <2> QED BY <1>2, <2>1, <2>3 DEF OnItsWay
<1> QED BY <1>1, <1>2

\* The questions the view lets the user answer after a rendering: those it did
\* before, and the last message, when it is complete; it is offered for the
\* first time only if it had not been shown complete here.
LEMMA ShownOnlyNew ==
  ASSUME VInv, Last > 0, view' \in {Shown(view), Cleared(Shown(view))}
  PROVE  /\ view'.shown = Last /\ view'.partial = messages[Last].partial
         /\ view'.twice = view.twice
         /\ \A s \in Indexes :
              /\ Shows(s)' =>
                   \/ Shows(s)
                   \/ /\ s = Last /\ IsAsk(messages[Last].kind)
                      /\ ~messages[Last].partial
              /\ Fresh(s)' =>
                   Fresh(s) \/ (s = Last /\ (view.shown # Last \/ view.partial))
<1>1. /\ Shown(view) \in Views /\ Shown(view).shown = Last
      /\ Shown(view).partial = messages[Last].partial
      /\ Shown(view).twice = view.twice
  BY ShownIs DEF VInv
<1>2. /\ Cleared(Shown(view)).shown = Last
      /\ Cleared(Shown(view)).partial = messages[Last].partial
      /\ Cleared(Shown(view)).clineAsk = None /\ Cleared(Shown(view)).seen = 0
      /\ Cleared(Shown(view)).twice = view.twice
  BY <1>1, ClearedIs
<1>3. /\ view'.shown = Last /\ view'.partial = messages[Last].partial
      /\ view'.twice = view.twice
  BY <1>1, <1>2
<1>4. \A s \in Indexes : s # 0
  BY QuestionsAssumption DEF Indexes
<1>5. /\ view \in Views /\ messages[Last].partial \in BOOLEAN
      /\ view.partial \in BOOLEAN
      /\ ~view.partial /\ view.shown = Last => ~messages[Last].partial
  <2>1. Last \in 1..Last
    BY FatesAre DEF VInv, QInv
  <2>2. messages[Last] \in Message
    BY <2>1, ElementOfSeq DEF VInv, QInv, Recorded, Last
  <2>3. messages[Last].partial \in BOOLEAN
    BY <2>2 DEF Message
  <2>4. view \in Views /\ (~view.partial /\ view.shown = Last => ~messages[Last].partial)
    BY DEF VInv, ViewInv
  <2>5. view.partial \in BOOLEAN
    BY <2>4 DEF Views
  <2> QED BY <2>3, <2>4, <2>5
<1>6. PICK n \in Views : n = Noted(view)
  BY <1>5, NotedIs DEF VInv
<1>7. /\ n.clineAsk = view.clineAsk /\ n.seen = view.seen
      /\ n.buttons = view.buttons /\ n.text = view.text /\ n.again = view.again
  BY <1>5, <1>6, NotedIs DEF VInv
<1>8. ASSUME NEW s \in Indexes, Shows(s)' \/ Fresh(s)'
      PROVE  view' = Shown(view)
  <2>1. view' # Cleared(Shown(view))
    BY <1>2, <1>4, <1>8 DEF Shows, Fresh
  <2> QED BY <2>1
<1>9. ASSUME view' = Shown(view), NEW s \in Indexes
      PROVE  /\ Shows(s)' =>
                  \/ Shows(s)
                  \/ /\ s = Last /\ IsAsk(messages[Last].kind)
                     /\ ~messages[Last].partial
             /\ Fresh(s)' =>
                  Fresh(s) \/ (s = Last /\ (view.shown # Last \/ view.partial))
  <2>1. CASE Shown(view) = view /\ Known(view)
    BY <1>9, <2>1 DEF Shows, Fresh
  <2>2. CASE Shown(view) = Offered(view) /\ IsAsk(messages[Last].kind)
    <3>1. /\ view'.seen = Last /\ view'.buttons = ~messages[Last].partial
          /\ view'.text = ~messages[Last].partial
          /\ view'.again <=> Again(view)
      BY <1>5, <1>9, <2>2, OfferedIs DEF VInv
    <3>2. Shows(s)' => s = Last /\ ~messages[Last].partial
      BY <3>1 DEF Shows
    <3>3. ASSUME Fresh(s)'
          PROVE  Fresh(s) \/ (s = Last /\ (view.shown # Last \/ view.partial))
      <4>1. s = Last /\ ~Again(view)
        BY <3>1, <3>3 DEF Fresh
      <4>2. CASE view.shown = Last /\ ~view.partial
        <5>1. view.partial = messages[Last].partial
          BY <1>5, <4>2
        <5>2. ~view.again /\ view.seen = Last
          BY <4>1, <4>2, <5>1 DEF Again
        <5> QED BY <4>1, <5>2 DEF Fresh
      <4> QED BY <4>1, <4>2
    <3> QED BY <2>2, <3>2, <3>3
  <2>3. CASE Shown(view) = Noted(view)
    <3>1. view' = n
      BY <1>6, <1>9, <2>3
    <3> QED BY <1>7, <3>1 DEF Shows, Fresh
  <2>4. CASE Shown(view) = Cleared(Noted(view))
    <3>1. view'.clineAsk = None /\ view'.seen = 0
      BY <1>6, <1>9, <2>4, ClearedIs
    <3> QED BY <1>4, <3>1 DEF Shows, Fresh
  <2> QED BY <1>5, <2>1, <2>2, <2>3, <2>4, ShownCases DEF VInv
<1>10. ASSUME NEW s \in Indexes
       PROVE  /\ Shows(s)' =>
                   \/ Shows(s)
                   \/ /\ s = Last /\ IsAsk(messages[Last].kind)
                      /\ ~messages[Last].partial
              /\ Fresh(s)' =>
                   Fresh(s) \/ (s = Last /\ (view.shown # Last \/ view.partial))
  BY <1>8, <1>9
<1> QED BY <1>3, <1>10

\* A rendering.
LEMMA RenderOnce == ASSUME VInv, UInv, Render PROVE UInv'
<1> DEFINE next == Shown(view)
<1>1. /\ Last > 0 /\ UNCHANGED questionVars
      /\ \/ Post(Answer("yes", Last, TRUE)) /\ view' = Cleared(next)
         \/ view' = next /\ UNCHANGED flight
  BY DEF Render
<1>2. Last \in Nat /\ Last \in Indexes
  BY <1>1, FatesAre, QuestionsAssumption DEF VInv, QInv, Indexes
<1>3. /\ view'.shown = Last /\ view'.partial = messages[Last].partial
      /\ view'.twice = view.twice
      /\ \A s \in Indexes :
           /\ Shows(s)' =>
                \/ Shows(s)
                \/ /\ s = Last /\ IsAsk(messages[Last].kind)
                   /\ ~messages[Last].partial
           /\ Fresh(s)' =>
                Fresh(s) \/ (s = Last /\ (view.shown # Last \/ view.partial))
  BY <1>1, ShownOnlyNew
<1>4. /\ Complete' /\ UserAnswersWhatHeSees' /\ Last' = Last
      /\ \A s \in Indexes : /\ Taken(s)' <=> Taken(s)
                            /\ Arrived(s)' <=> Arrived(s)
  BY <1>1, <1>3, ViewLeaves
<1>5. UNCHANGED flight \/ \E a \in Answers : a.auto /\ Post(a)
  <2>1. Answer("yes", Last, TRUE) \in Answers /\ Answer("yes", Last, TRUE).auto
    BY <1>2 DEF Answer, Answers
  <2> QED BY <1>1, <2>1
<1>6. \A s \in Indexes, k \in 1..Len(flight') :
        OnItsWay(k, s)' => k \in 1..Len(flight) /\ OnItsWay(k, s)
  BY <1>5, WayKept DEF VInv
<1>7. ASSUME NEW s \in Indexes, s \in 1..Last, outcome[s].is # "none"
      PROVE  Met(s)'
  <2>1. outcome' = outcome /\ ~messages[s].partial
    BY <1>1, <1>7 DEF questionVars, VInv, QInv, Recorded
  <2> QED BY <1>2, <1>3, <1>4, <1>7, <2>1 DEF Met
<1>8. ASSUME NEW s \in Indexes, Shows(s)'
      PROVE  Shows(s) \/ Met(s)'
  <2> SUFFICES ASSUME s = Last, IsAsk(messages[Last].kind), ~messages[Last].partial
               PROVE  Met(s)'
    BY <1>3, <1>8
  <2>1. outcome[s].is # "none" /\ s \in 1..Last
    BY <1>1, <1>2 DEF UInv, Complete
  <2> QED BY <1>7, <2>1
<1>9. ASSUME NEW s \in Indexes, Fresh(s)'
      PROVE  Fresh(s) \/ ~Met(s)
  <2> SUFFICES ASSUME s = Last, view.shown # Last \/ view.partial
               PROVE  ~Met(s)
    BY <1>3, <1>9
  <2>1. view.shown \in 0..Last
    BY DEF VInv, ViewInv
  <2> QED BY <1>2, <2>1 DEF Met
<1>10. \A s \in Indexes : Met(s) => Met(s)'
  BY <1>7 DEF Met
<1>11. ASSUME ~view'.twice
       PROVE  Once' /\ AllMet'
  <2>1. Once /\ AllMet
    BY <1>3, <1>11 DEF UInv
  <2> QED BY <1>4, <1>6, <1>8, <1>9, <1>10, <2>1, OnceKept
<1> QED BY <1>4, <1>11 DEF UInv

\* The view is cleared, and an automatic answer posted.
LEMMA ApprovalOnce == ASSUME VInv, UInv, ApprovalDue PROVE UInv'
<1>1. /\ view' = Cleared(view) /\ UNCHANGED questionVars
      /\ Post(Answer("yes", Head(timers), TRUE)) /\ timers # <<>>
  BY DEF ApprovalDue
<1>2. Head(timers) \in Indexes
  BY <1>1, HeadTailProperties DEF VInv, Channels
<1>3. \E a \in Answers : a.auto /\ Post(a)
  <2>1. /\ Answer("yes", Head(timers), TRUE) \in Answers
        /\ Answer("yes", Head(timers), TRUE).auto
    BY <1>2 DEF Answer, Answers
  <2> QED BY <1>1, <2>1
<1>4. /\ view'.clineAsk = None /\ view'.shown = view.shown
      /\ view'.partial = view.partial /\ view'.seen = 0
      /\ view'.twice = view.twice
  BY <1>1, ClearedIs DEF VInv, ViewInv
<1>5. /\ Complete' /\ UserAnswersWhatHeSees' /\ Last' = Last
      /\ \A s \in Indexes : /\ Taken(s)' <=> Taken(s)
                            /\ Arrived(s)' <=> Arrived(s)
  BY <1>1, <1>4, ViewLeaves
<1>6. \A s \in Indexes, k \in 1..Len(flight') :
        OnItsWay(k, s)' => k \in 1..Len(flight) /\ OnItsWay(k, s)
  BY <1>3, WayKept DEF VInv
<1>7. \A s \in Indexes : ~Shows(s)' /\ ~Fresh(s)'
  BY <1>4, QuestionsAssumption DEF Shows, Fresh, Indexes
<1>8. ASSUME NEW s \in Indexes, Met(s)
      PROVE  Met(s)'
  BY <1>1, <1>4, <1>5, <1>8 DEF Met, questionVars
<1>9. ASSUME ~view'.twice
      PROVE  Once' /\ AllMet'
  <2>1. Once /\ AllMet
    BY <1>4, <1>9 DEF UInv
  <2> QED BY <1>5, <1>6, <1>7, <1>8, <2>1, OnceKept
<1> QED BY <1>5, <1>9 DEF UInv

\* The user answers what the view shows: the only answer he gives to it, unless
\* it is offered again.
LEMMA UserOnce ==
  ASSUME VInv, UInv, NEW response \in {"yes", "no", "message"},
         view.clineAsk # None, view.buttons \/ view.text, Responds(response)
  PROVE  UInv'
<1>1. PICK a : a = Answer(response, view.seen, FALSE)
  OBVIOUS
<1>2. a \in Answers /\ ~a.auto /\ a.seen = view.seen /\ view.seen \in Indexes
  BY <1>1 DEF VInv, ViewInv, Answer, Answers
<1>3. Post(a) /\ UNCHANGED <<questionVars, timers>>
  BY <1>1 DEF Responds
<1>4. /\ Len(flight) \in Nat /\ Len(flight') = Len(flight) + 1
      /\ \A k \in 1..Len(flight) : flight'[k] = flight[k]
      /\ flight'[Len(flight) + 1] = a
  BY <1>2, <1>3, PostedLast DEF VInv
<1>5. /\ view'.clineAsk = None /\ view'.shown = view.shown
      /\ view'.partial = view.partial /\ view'.seen = 0
      /\ view'.twice <=> view.twice \/ view.again
  <2>1. /\ view \in Views
        /\ view' = [Cleared(view) EXCEPT !.twice = @ \/ view.again]
    BY DEF VInv, ViewInv, Responds
  <2> QED BY <2>1, RespondedIs
<1>6. /\ Complete' /\ UserAnswersWhatHeSees' /\ Last' = Last
      /\ \A s \in Indexes : /\ Taken(s)' <=> Taken(s)
                            /\ Arrived(s)' <=> Arrived(s)
  BY <1>3, <1>5, ViewLeaves
<1>7. \A s \in Indexes : ~Shows(s)' /\ ~Fresh(s)'
  BY <1>5, QuestionsAssumption DEF Shows, Fresh, Indexes
<1>8. ASSUME NEW s \in Indexes, Met(s)
      PROVE  Met(s)'
  BY <1>3, <1>5, <1>6, <1>8 DEF Met, questionVars
<1>9. ASSUME ~view'.twice
      PROVE  Once' /\ AllMet'
  <2>1. Once /\ AllMet /\ ~view.again
    BY <1>5, <1>9 DEF UInv
  <2>2. ASSUME NEW s \in Indexes, NEW k \in 1..Len(flight'), OnItsWay(k, s)'
        PROVE  \/ k \in 1..Len(flight) /\ OnItsWay(k, s)
               \/ k = Len(flight) + 1 /\ Fresh(s) /\ Shows(s)
    BY <1>2, <1>4, <2>1, <2>2 DEF OnItsWay, Fresh, Shows
  <2>3. ASSUME NEW s \in Indexes
        PROVE  /\ Taken(s)' => /\ ~Arrived(s)'
                               /\ \A k \in 1..Len(flight') : ~OnItsWay(k, s)'
               /\ Arrived(s)' => \A k \in 1..Len(flight') : ~OnItsWay(k, s)'
               /\ \A j, k \in 1..Len(flight') :
                    OnItsWay(j, s)' /\ OnItsWay(k, s)' => j = k
    BY <1>6, <2>1, <2>2 DEF Once
  <2>4. ASSUME NEW s \in Indexes,
               \/ Taken(s)' \/ Arrived(s)'
               \/ \E k \in 1..Len(flight') : OnItsWay(k, s)'
        PROVE  Met(s)'
    BY <1>6, <1>8, <2>1, <2>2, <2>4 DEF AllMet
  <2> QED BY <1>7, <2>3, <2>4 DEF Once, AllMet
<1> QED BY <1>6, <1>9 DEF UInv

\* The oldest answer on its way arrives, in place of the one that was there.
LEMMA ArrivesOnce == ASSUME VInv, UInv, Arrives PROVE UInv'
<1>1. /\ flight \in Seq(Answers) /\ flight # <<>> /\ flight' = Tail(flight)
      /\ slot' = {Head(flight)} /\ view' = view
      /\ messages' = messages /\ outcome' = outcome /\ Last' = Last
  BY DEF VInv, Channels, Arrives, HandleWebviewAskResponse, Last
<1>2. /\ Len(flight) \in Nat /\ Len(flight) >= 1 /\ Head(flight) = flight[1]
      /\ Len(flight') = Len(flight) - 1
      /\ \A k \in 1..(Len(flight) - 1) : flight'[k] = flight[k + 1]
  <2>1. Len(flight) \in Nat /\ Len(flight) # 0
    BY <1>1, LenProperties, EmptySeq
  <2>2. Len(flight') = Len(flight) - 1
    BY <1>1, HeadTailProperties
  <2>3. \A k \in 1..(Len(flight) - 1) : flight'[k] = flight[k + 1]
    BY <1>1, <2>1, HeadTailProperties
  <2>4. Head(flight) = flight[1]
    BY <1>1
  <2> QED BY <2>1, <2>2, <2>3, <2>4
<1>3. ASSUME NEW s \in Indexes
      PROVE  /\ Taken(s)' <=> Taken(s)
             /\ Shows(s)' <=> Shows(s)
             /\ Fresh(s)' <=> Fresh(s)
             /\ Met(s)' <=> Met(s)
             /\ Arrived(s)' => OnItsWay(1, s)
             /\ \A k \in 1..Len(flight') :
                  OnItsWay(k, s)' => k + 1 \in 1..Len(flight) /\ OnItsWay(k + 1, s)
  <2>1. Taken(s)' <=> Taken(s)
    BY <1>1 DEF Taken
  <2>2. Shows(s)' <=> Shows(s)
    BY <1>1 DEF Shows
  <2>3. Met(s)' <=> Met(s)
    BY <1>1 DEF Met
  <2>4. Arrived(s)' => OnItsWay(1, s)
    BY <1>1, <1>2 DEF Arrived, OnItsWay
  <2>5. \A k \in 1..Len(flight') :
          OnItsWay(k, s)' => k + 1 \in 1..Len(flight) /\ OnItsWay(k + 1, s)
    BY <1>2 DEF OnItsWay
  <2>6. Fresh(s)' <=> Fresh(s)
    BY <1>1 DEF Fresh
  <2> QED BY <2>1, <2>2, <2>3, <2>4, <2>5, <2>6
<1>4. 1 \in 1..Len(flight) /\ \A k \in 1..Len(flight') : k \in Nat /\ k + 1 # 1
  BY <1>2
<1>5. ASSUME Once, NEW s \in Indexes
      PROVE  /\ Fresh(s)' => /\ ~Taken(s)' /\ ~Arrived(s)'
                             /\ \A k \in 1..Len(flight') : ~OnItsWay(k, s)'
             /\ Taken(s)' => /\ ~Arrived(s)'
                             /\ \A k \in 1..Len(flight') : ~OnItsWay(k, s)'
  BY <1>3, <1>4, <1>5 DEF Once
<1>6. ASSUME Once, NEW s \in Indexes, Arrived(s)', NEW k \in 1..Len(flight'),
             OnItsWay(k, s)'
      PROVE  FALSE
  <2>1. OnItsWay(1, s) /\ OnItsWay(k + 1, s) /\ k + 1 \in 1..Len(flight) /\ k + 1 # 1
    BY <1>3, <1>4, <1>6
  <2> QED BY <1>4, <1>6, <2>1 DEF Once
<1>7. ASSUME Once, NEW s \in Indexes, NEW j \in 1..Len(flight'),
             NEW k \in 1..Len(flight'), OnItsWay(j, s)', OnItsWay(k, s)'
      PROVE  j = k
  <2>1. /\ OnItsWay(j + 1, s) /\ j + 1 \in 1..Len(flight)
        /\ OnItsWay(k + 1, s) /\ k + 1 \in 1..Len(flight)
    BY <1>3, <1>7
  <2>2. j + 1 = k + 1
    BY <1>7, <2>1 DEF Once
  <2> QED BY <1>4, <2>2
<1>8. ASSUME ~view'.twice
      PROVE  Once' /\ AllMet'
  <2>1. Once /\ AllMet
    BY <1>1, <1>8 DEF UInv
  <2>2. Once'
    BY <1>5, <1>6, <1>7, <2>1 DEF Once
  <2>3. AllMet'
    BY <1>3, <1>4, <2>1 DEF AllMet
  <2> QED BY <2>2, <2>3
<1>9. Complete' /\ UserAnswersWhatHeSees'
  BY <1>1 DEF UInv, Complete, UserAnswersWhatHeSees
<1> QED BY <1>8, <1>9 DEF UInv

-----------------------------------------------------------------------------
(* The theorems.                                                           *)

LEMMA ViewStepKeeps == VInv /\ [ViewNext]_vars => VInv'
<1> SUFFICES ASSUME VInv, [ViewNext]_vars PROVE VInv'
  OBVIOUS
<1>1. CASE TaskStep /\ UNCHANGED <<view, timers, flight>>
  BY <1>1, TaskKeepsView
<1>2. CASE Render
  BY <1>2, RenderKeeps
<1>3. CASE ApprovalDue
  BY <1>3, ApprovalKeeps
<1>4. CASE HandleSendMessage
  BY <1>4, UserKeeps DEF HandleSendMessage
<1>5. ASSUME NEW response \in {"yes", "no"}, Click(response) PROVE VInv'
  BY <1>5, UserKeeps DEF Click
<1>6. CASE Arrives
  BY <1>6, ArrivesKeeps
<1>7. CASE UNCHANGED vars
  BY <1>7 DEF vars, questionVars, VInv, QInv, Recorded, OneAnswer, Last, ViewInv,
              Channels, QuestionCanBeAnswered, Open
<1> QED BY <1>1, <1>2, <1>3, <1>4, <1>5, <1>6, <1>7 DEF ViewNext

LEMMA ViewInitInv == ViewInit => VInv
<1> SUFFICES ASSUME ViewInit PROVE VInv
  OBVIOUS
<1>1. QInv /\ Last = 0
  BY InitInv DEF ViewInit, Init, Last
<1>2. ViewInv
  BY <1>1, QuestionsAssumption DEF ViewInit, ViewInv, Views
<1>3. Channels
  BY EmptySeq, ChatViewAssumption DEF ViewInit, Channels
<1>4. QuestionCanBeAnswered
  BY DEF ViewInit, Init, QuestionCanBeAnswered, Open
<1> QED BY <1>1, <1>2, <1>3, <1>4 DEF VInv

LEMMA ViewInvariant == ViewSpec => []VInv
BY ViewStepKeeps, ViewInitInv, PTL DEF ViewSpec

\* Type correctness of the task's questions, the view, its delayed approvals
\* and the answers on their way.
THEOREM ViewTypeCorrect == ViewSpec => []ViewTypeOK
<1>1. VInv => ViewTypeOK
  BY InvTypes DEF VInv, ViewInv, Channels, ViewTypeOK
<1> QED BY <1>1, ViewInvariant, PTL

\* Once the view has rendered the last message, a question that waits has its
\* buttons and its text field, for as long as no answer is on its way or there:
\* no order of messages, renderings, clicks and delayed approvals leaves the
\* user with a task that waits for him and nothing to press.
THEOREM AlwaysAnswerable == ViewSpec => []QuestionCanBeAnswered
<1>1. VInv => QuestionCanBeAnswered
  BY DEF VInv
<1> QED BY <1>1, ViewInvariant, PTL

\* With the view, its automatic approvals and the way back to the task, the
\* task's questions keep the protocol.
THEOREM ViewKeepsProtocol == ViewSpec => KeepsProtocol
<1>1. VInv /\ [ViewNext]_vars => [Next]_questionVars
  <2> SUFFICES ASSUME VInv, [ViewNext]_vars PROVE [Next]_questionVars
    OBVIOUS
  <2>1. CASE TaskStep
    BY <2>1 DEF Next
  <2>2. CASE Arrives
    BY <2>2, ArrivesIs DEF VInv, Next
  <2>3. CASE UNCHANGED questionVars
    BY <2>3
  <2> QED BY <2>1, <2>2, <2>3
          DEF ViewNext, Render, ApprovalDue, HandleSendMessage, Click, Responds, vars
<1>2. ViewInit => Init
  BY DEF ViewInit
<1>3. ViewSpec => Spec
  BY <1>1, <1>2, ViewInvariant, PTL DEF ViewSpec, Spec
<1> QED BY <1>3, Implements

\* All steps, and the start.
LEMMA OnceStep == VInv /\ UInv /\ [ViewNext]_vars => UInv'
<1> SUFFICES ASSUME VInv, UInv, [ViewNext]_vars PROVE UInv'
  OBVIOUS
<1>1. CASE TaskStep /\ UNCHANGED <<view, timers, flight>>
  BY <1>1, TaskOnce
<1>2. CASE Render
  BY <1>2, RenderOnce
<1>3. CASE ApprovalDue
  BY <1>3, ApprovalOnce
<1>4. CASE HandleSendMessage
  BY <1>4, UserOnce DEF HandleSendMessage
<1>5. ASSUME NEW response \in {"yes", "no"}, Click(response) PROVE UInv'
  BY <1>5, UserOnce DEF Click
<1>6. CASE Arrives
  BY <1>6, ArrivesOnce
<1>7. CASE UNCHANGED vars
  <2>1. /\ view' = view /\ flight' = flight /\ messages' = messages
        /\ outcome' = outcome /\ slot' = slot /\ Last' = Last
    BY <1>7 DEF vars, questionVars, Last
  <2>2. Plain
    BY <2>1, FatesAre DEF Plain, Undisturbed, Complete, UInv, VInv, QInv
  <2> QED BY <2>1, <2>2, PlainKeeps
<1> QED BY <1>1, <1>2, <1>3, <1>4, <1>5, <1>6, <1>7 DEF ViewNext

LEMMA OnceInit == ViewInit => UInv
<1> SUFFICES ASSUME ViewInit PROVE UInv
  OBVIOUS
<1>1. /\ Last = 0 /\ Len(flight) = 0 /\ slot = {} /\ view.clineAsk = None
      /\ view.seen = 0
  BY EmptySeq DEF ViewInit, Init, Last
<1>2. 1..Last = {} /\ 1..Len(flight) = {}
  BY <1>1
<1>3. \A s \in Indexes : ~Shows(s) /\ ~Fresh(s) /\ ~Taken(s) /\ ~Arrived(s)
  BY <1>1, <1>2, QuestionsAssumption DEF Shows, Fresh, Taken, Arrived, Indexes
<1>4. Once /\ AllMet
  BY <1>2, <1>3 DEF Once, AllMet
<1> QED BY <1>2, <1>4 DEF UInv, Complete, UserAnswersWhatHeSees

\* The inductive invariant of the user's answers: until he answers a question that
\* the view offers again, each question gets at most one of them, and only once the
\* view has shown all of it and the task has asked it.
THEOREM OneAnswerEach == ViewSpec => [](VInv /\ UInv)
<1>1. VInv /\ UInv /\ [ViewNext]_vars => (VInv /\ UInv)'
  BY ViewStepKeeps, OnceStep
<1> QED BY <1>1, ViewInitInv, OnceInit, PTL DEF ViewSpec

\* As long as no question is overtaken, none approved automatically, and the user
\* answers none that is offered again, each answer is taken by the question he had
\* before him when he gave it, for any delay of the answers and of the view.
THEOREM AnswersWhatHeSees == ViewSpec => []UserAnswersWhatHeSees
BY OneAnswerEach, PTL DEF UInv
=============================================================================
