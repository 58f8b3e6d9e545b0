------------------------------ MODULE Questions ------------------------------
(***************************************************************************)
(* A task's questions to its user: ask, say and handleWebviewAskResponse   *)
(* of class Cline, with the two parts of a task that call them: its main   *)
(* flow, which waits for the answer, and the output of the commands it has *)
(* started, which asks and says without anyone waiting for it.             *)
(*                                                                         *)
(* A message is known by its index in clineMessages, which stands for its  *)
(* time stamp too: no two messages are made in the same millisecond.       *)
(***************************************************************************)
EXTENDS Naturals, Sequences, FiniteSets

CONSTANTS Tools,      \* the kinds of questions the main flow asks
          MaxMessages \* bound on the messages

CONSTANT Output \* the question shown with the output of a command

(* A message is a question or is said.  Of the kinds that are said here    *)
(* none is among those of questions (clineAsks).                           *)
ASSUME QuestionsAssumption ==
  /\ MaxMessages \in Nat
  /\ Output \notin Tools
  /\ (Tools \cup {Output}) \cap {"text", "api_req_started"} = {}

VARIABLES messages,   \* clineMessages
          asks,       \* the calls of ask that wait, by the index of their
                      \* message
          slot,       \* askResponse: the answers in it, at most one
          main,       \* the main flow: "free", "asking", "running" a command
          background, \* commands the main flow no longer waits for
          reading,    \* the answer to the last request to the API is still
                      \* being read: its message api_req_started lacks the
                      \* numbers it ends with
          outcome     \* history: for each message how its call of ask ended,
                      \* and the answers it took

questionVars == <<messages, asks, slot, main, background, reading, outcome>>

Kinds == Tools \cup {Output, "text", "api_req_started"}
IsAsk(k) == k \in Tools \cup {Output}
Indexes == 1..MaxMessages

(* An answer: the response, and (history) the question the one who gave it *)
(* had before him, and whether he was the user.                            *)
Answers == [response : {"yes", "no", "message"}, seen : Indexes,
            auto : BOOLEAN]

Last == Len(messages)

Init ==
  /\ messages = <<>>
  /\ asks = {}
  /\ slot = {}
  /\ main = "free"
  /\ background = FALSE
  /\ reading = FALSE
  /\ outcome = <<>>

-----------------------------------------------------------------------------
(* addToClineMessages; a new message is the last, lastMessageTs.           *)
Add(kind, partial, how) ==
  /\ Last < MaxMessages
  /\ messages' = Append(messages, [kind |-> kind, partial |-> partial])
  /\ outcome' = Append(outcome, [is |-> how, by |-> {}])

(* say of a complete message.                                              *)
Says(kind) == Add(kind, FALSE, "none") /\ UNCHANGED <<asks, slot>>

(* Mistaken: an answer that is there stays for the new question.           *)
AsksKeeping(kind) ==
  /\ Add(kind, FALSE, "open")
  /\ asks' = asks \cup {Last + 1}
  /\ UNCHANGED slot

(* ask of a complete message: the slot is emptied, and the call waits.     *)
Asks(kind) ==
  /\ Add(kind, FALSE, "open")
  /\ asks' = asks \cup {Last + 1}
  /\ slot' = {}

Say ==
  /\ main = "free"
  /\ \/ Says("text") /\ UNCHANGED reading
     \/ Says("api_req_started") /\ ~reading /\ reading' = TRUE
  /\ UNCHANGED <<main, background>>

(* The request's answer has been read, and its message is updated: it need *)
(* not be the last by then.  (The update before the request goes out is    *)
(* left out: nobody asks between it and the message.)                      *)
UpdateApiReqMsg ==
  /\ reading /\ reading' = FALSE
  /\ UNCHANGED <<messages, asks, slot, main, background, outcome>>

(* The last message is a question of the kind that is still being written. *)
Writing(kind) ==
  Last > 0 /\ messages[Last].partial /\ messages[Last].kind = kind

(* ask with partial TRUE: the message is shown and the call ends at once.  *)
(* (An update of a message being written changes its text only.)           *)
AskPartial(kind) ==
  /\ main = "free" /\ ~Writing(kind)
  /\ Add(kind, TRUE, "none")
  /\ UNCHANGED <<asks, slot, main, background, reading>>

(* ask with partial FALSE completes the message being written.             *)
AskComplete(kind) ==
  /\ main = "free" /\ Writing(kind)
  /\ messages' = [messages EXCEPT ![Last].partial = FALSE]
  /\ outcome' = [outcome EXCEPT ![Last].is = "open"]
  /\ asks' = asks \cup {Last}
  /\ slot' = {}
  /\ main' = "asking"
  /\ UNCHANGED <<background, reading>>

Ask(kind) ==
  /\ main = "free" /\ ~Writing(kind)
  /\ Asks(kind)
  /\ main' = "asking"
  /\ UNCHANGED <<background, reading>>

(* A call that waits finds, at its next look, that it is not the last any  *)
(* more: it ends with an error.                                            *)
Ignored(i) ==
  /\ i \in asks /\ i # Last
  /\ asks' = asks \ {i}
  /\ outcome' = [outcome EXCEPT ![i].is = "ignored"]
  /\ main' = IF messages[i].kind = Output THEN main ELSE "free"
  /\ UNCHANGED <<messages, slot, background, reading>>

(* Or it is the last, and takes the answer.  That to a question about a    *)
(* command's output lets the main flow go on while the command runs.       *)
Answered(i) ==
  /\ i \in asks /\ i = Last /\ slot # {}
  /\ outcome' = [outcome EXCEPT ![i] = [is |-> "answered", by |-> slot]]
  /\ asks' = asks \ {i}
  /\ slot' = {}
  /\ main' = IF messages[i].kind \in Tools \/ main = "running" THEN "free"
             ELSE main
  /\ background' = (background \/ main = "running")
  /\ UNCHANGED <<messages, reading>>

(* executeCommandTool, once the user has approved of the command.          *)
Approved == /\ Last > 0 /\ messages[Last].kind \in Tools
            /\ \E a \in outcome[Last].by : a.response = "yes"

RunCommand ==
  /\ main = "free" /\ Approved
  /\ main' = "running"
  /\ UNCHANGED <<messages, asks, slot, background, reading, outcome>>

(* A line of the command the main flow waits for is shown with a question, *)
(* one of a command in the background is said.                             *)
OutputLine ==
  /\ \/ main = "running" /\ Asks(Output)
     \/ background /\ Says("text")
  /\ UNCHANGED <<main, background, reading>>

CommandEnds ==
  /\ \/ main = "running" /\ main' = "free" /\ UNCHANGED background
     \/ background /\ background' = FALSE /\ UNCHANGED main
  /\ UNCHANGED <<messages, asks, slot, reading, outcome>>

(* Mistaken: an answer does not replace the one before it.                 *)
AnswersPileUp(a) ==
  /\ slot' = slot \cup {a}
  /\ UNCHANGED <<messages, asks, main, background, reading, outcome>>

HandleWebviewAskResponse(a) ==
  /\ slot' = {a}
  /\ UNCHANGED <<messages, asks, main, background, reading, outcome>>

-----------------------------------------------------------------------------
TaskStep ==
  \/ Say \/ UpdateApiReqMsg \/ RunCommand \/ OutputLine \/ CommandEnds
  \/ \E kind \in Tools : AskPartial(kind) \/ AskComplete(kind) \/ Ask(kind)
  \/ \E i \in asks : Ignored(i) \/ Answered(i)

(* Answers come at any time and are any.                                   *)
Next == TaskStep \/ \E a \in Answers : HandleWebviewAskResponse(a)

Spec == Init /\ [][Next]_questionVars

-----------------------------------------------------------------------------
(* The question a new answer can still reach.                              *)
Open == asks \cap {Last}

Outcomes == [is : {"none", "open", "ignored", "answered"},
             by : SUBSET Answers]

TypeOK ==
  /\ messages \in Seq([kind : Kinds, partial : BOOLEAN])
  /\ Last <= MaxMessages
  /\ outcome \in Seq(Outcomes) /\ Len(outcome) = Last
  /\ asks \subseteq 1..Last
  /\ slot \subseteq Answers /\ Cardinality(slot) <= 1
  /\ main \in {"free", "asking", "running"}
  /\ background \in BOOLEAN /\ reading \in BOOLEAN

(* A call of ask that has been overtaken may not have looked yet: for the  *)
(* protocol its question is void already.  Answers in the slot count while *)
(* a question is open.                                                     *)
Fates == [i \in 1..Last |->
            IF outcome[i].is = "ignored" \/ (outcome[i].is = "open" /\ i # Last)
            THEN [is |-> "void", by |-> {}] ELSE outcome[i]]

Given == IF Open = {} THEN {} ELSE slot

Protocol == INSTANCE QuestionProtocol WITH fate <- Fates, given <- Given

(* Every behaviour of ask, say and the answers is one that the protocol    *)
(* allows: a question takes an answer given while it was the last message, *)
(* an answer is taken once, and a question overtaken takes none.           *)
KeepsProtocol == Protocol!Spec
=============================================================================
