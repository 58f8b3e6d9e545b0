------------------------------- MODULE ChatView -------------------------------
(***************************************************************************)
(* A task's questions (module Questions) together with the view that shows *)
(* them: component ChatView of the web UI, its buttons, its text field and *)
(* its automatic approval, some of it after a delay.                       *)
(*                                                                         *)
(* The view gets the whole list of messages, when it has changed and at    *)
(* other times; its answers go back through a channel that takes time.     *)
(* (The way to the view takes none: every rendering could be moved to the  *)
(* moment its messages were sent, since what the view does with them is    *)
(* seen by the task only through the channel.)                             *)
(***************************************************************************)
EXTENDS Questions

CONSTANTS Automatic, \* the kinds of questions approved automatically
          Delayed,   \* those of them approved after a delay
          MaxTimers, \* bound on the approvals delayed at a time
          MaxFlight  \* bound on the answers on their way

CONSTANT None \* no question

ASSUME ChatViewAssumption ==
  /\ Delayed \subseteq Automatic /\ Automatic \subseteq Tools
  /\ MaxTimers \in Nat /\ MaxFlight \in Nat
  /\ None \notin Tools \cup {Output}

VARIABLES view,   \* clineAsk, enableButtons, ~textAreaDisabled; the index of
                  \* the last message rendered, whether it was partial, and
                  \* whether a request to the API among the last two was
                  \* unfinished; (history) the question that set clineAsk,
                  \* whether it set it again after it had been cleared, and
                  \* whether the user ever answered such a question
          timers, \* the questions whose approval is delayed, oldest first
          flight  \* the answers on their way to the task

vars == <<questionVars, view, timers, flight>>

Views == [clineAsk : Tools \cup {Output, None}, buttons : BOOLEAN,
          text : BOOLEAN, shown : 0..MaxMessages, partial : BOOLEAN,
          unfinished : BOOLEAN, seen : 0..MaxMessages, again : BOOLEAN,
          twice : BOOLEAN]

ViewInit ==
  /\ Init
  /\ view = [clineAsk |-> None, buttons |-> FALSE, text |-> FALSE,
             shown |-> 0, partial |-> FALSE, unfinished |-> FALSE,
             seen |-> 0, again |-> FALSE, twice |-> FALSE]
  /\ timers = <<>>
  /\ flight = <<>>

-----------------------------------------------------------------------------
Answer(response, seen, auto) ==
  [response |-> response, seen |-> seen, auto |-> auto]

Post(a) == Len(flight) < MaxFlight /\ flight' = Append(flight, a)

(* Mistaken: the buttons stay.                                             *)
ClearedText(v) == [v EXCEPT !.text = FALSE]

(* After a click, and after a text was sent.                               *)
Cleared(v) ==
  [v EXCEPT !.clineAsk = None, !.buttons = FALSE, !.text = FALSE, !.seen = 0]

(* Of the last two messages one is a request whose answer is being read.   *)
Unfinished ==
  reading /\ \E i \in 1..Last :
    i + 1 >= Last /\ messages[i].kind = "api_req_started"

(* The last two messages are as the view v has them.                       *)
Known(v) ==
  /\ v.shown = Last /\ v.partial = messages[Last].partial
  /\ v.unfinished = Unfinished

(* The last two messages are noted.                                        *)
Noted(v) ==
  [v EXCEPT !.shown = Last, !.partial = messages[Last].partial,
     !.unfinished = Unfinished]

(* The question that is last has not changed since v, only the message     *)
(* before it, and its buttons have been cleared in the meantime.           *)
Again(v) ==
  /\ v.shown = Last /\ v.partial = messages[Last].partial
  /\ v.again \/ v.seen # Last

(* The buttons and the text field for the question that is last: it is the *)
(* last message alone that decides, whichever of the two has changed.      *)
Offered(v) ==
  LET m == messages[Last] IN
  [Noted(v) EXCEPT !.clineAsk = m.kind, !.seen = Last, !.buttons = ~m.partial,
     !.text = ~m.partial, !.again = Again(v)]

(* Mistaken: the buttons come with the first sight of a question only.     *)
ShownOnce(v) ==
  IF v.shown # Last /\ IsAsk(messages[Last].kind) THEN Offered(v)
  ELSE Noted(v)

(* The effect of the last two messages on v, when one is new or changed.   *)
Shown(v) ==
  LET m == messages[Last] IN
  IF Known(v) THEN v
  ELSE IF IsAsk(m.kind) THEN Offered(v)
  ELSE IF /\ m.kind = "api_req_started" /\ Last > 1
          /\ messages[Last - 1].kind = Output
  THEN Cleared(Noted(v)) ELSE Noted(v)

(* The effect of automatic approval works on a view v: it looks at the     *)
(* last message, whatever question v's buttons are for.                    *)
Approves(v) ==
  v.clineAsk # None /\ v.buttons /\ messages[Last].kind \in Automatic

(* The list of messages is rendered, changed or not.  Approval looks at    *)
(* the buttons as they were and, if the effect of the message changes      *)
(* these, at the buttons as they are then.                                 *)
Render ==
  LET next == Shown(view)
      anew == <<next.clineAsk, next.buttons>> # <<view.clineAsk, view.buttons>>
      times == (IF Approves(view) THEN 1 ELSE 0)
               + (IF anew /\ Approves(next) THEN 1 ELSE 0) IN
  /\ Last > 0
  /\ IF times > 0 /\ messages[Last].kind \notin Delayed
     THEN /\ Post(Answer("yes", Last, TRUE))
          /\ view' = Cleared(next)
          /\ UNCHANGED timers
     ELSE /\ Len(timers) + times <= MaxTimers
          /\ timers' = timers \o [n \in 1..times |-> Last]
          /\ view' = next
          /\ UNCHANGED flight
  /\ UNCHANGED questionVars

(* The delay of an approval is over: handlePrimaryButtonClick, of the      *)
(* rendering that began the delay.                                         *)
ApprovalDue ==
  /\ timers # <<>>
  /\ Post(Answer("yes", Head(timers), TRUE))
  /\ timers' = Tail(timers)
  /\ view' = Cleared(view)
  /\ UNCHANGED questionVars

(* The user answers the question that the view has buttons for.            *)
Responds(response) ==
  /\ Post(Answer(response, view.seen, FALSE))
  /\ view' = [Cleared(view) EXCEPT !.twice = @ \/ view.again]
  /\ UNCHANGED <<questionVars, timers>>

(* The user presses a button: the second one is not there for a question   *)
(* about output.                                                           *)
Click(response) ==
  /\ view.clineAsk # None /\ view.buttons
  /\ response = "no" => view.clineAsk # Output
  /\ Responds(response)

(* The user sends a text.                                                  *)
HandleSendMessage ==
  /\ view.clineAsk # None /\ view.text
  /\ Responds("message")

(* An answer arrives at the task.                                          *)
Arrives ==
  /\ flight # <<>>
  /\ HandleWebviewAskResponse(Head(flight))
  /\ flight' = Tail(flight)
  /\ UNCHANGED <<view, timers>>

ViewNext ==
  \/ TaskStep /\ UNCHANGED <<view, timers, flight>>
  \/ Render \/ ApprovalDue \/ HandleSendMessage \/ Arrives
  \/ \E response \in {"yes", "no"} : Click(response)

ViewSpec == ViewInit /\ [][ViewNext]_vars

-----------------------------------------------------------------------------
ViewTypeOK ==
  /\ TypeOK
  /\ view \in Views
  /\ timers \in Seq(Indexes) /\ Len(timers) <= MaxTimers
  /\ flight \in Seq(Answers) /\ Len(flight) <= MaxFlight

(* A question that waits can be answered: with the view up to date and no  *)
(* answer on its way or due, the buttons and the text field are there, for *)
(* this question.                                                          *)
QuestionCanBeAnswered ==
  Open # {} /\ view.shown = Last /\ ~view.partial
    /\ flight = <<>> /\ slot = {} =>
  view.seen = Last /\ view.buttons /\ view.text

(* As long as no question is overtaken, none approved automatically, and   *)
(* the user answers none that the view offers again, an answer is taken by *)
(* the question the user had before him.  (Answers name no question: one   *)
(* to a question overtaken, and a second one, is taken by the next.)       *)
UserAnswersWhatHeSees ==
  ~view.twice /\
  (\A i \in 1..Last : /\ outcome[i].is # "ignored"
                      /\ outcome[i].is = "open" => i = Last
                      /\ \A a \in outcome[i].by : ~a.auto)
  => \A i \in 1..Last : \A a \in outcome[i].by : a.seen = i

(* What the tests of the view say: a question whose kind is not to be      *)
(* approved automatically is not.                                          *)
AutoApprovesOnlyAllowed ==
  \A i \in 1..Last : \A a \in outcome[i].by :
    a.auto => messages[i].kind \in Automatic
=============================================================================
