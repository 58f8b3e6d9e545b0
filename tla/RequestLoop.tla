------------------------------ MODULE RequestLoop ------------------------------
(***************************************************************************)
(* One task (class Cline): the loop that sends a request, reads the        *)
(* streamed answer and waits for it to be presented, and the presenter,    *)
(* which shows the answer block by block and runs the tools in it.         *)
(*                                                                         *)
(* JavaScript runs one piece of code at a time, from one await to the      *)
(* next, so an action is such a piece.  presentAssistantMessage is called  *)
(* without await: the call runs up to its first await inside the caller's  *)
(* step (Presented), and what follows are steps of a presenter, a member   *)
(* of `presenters`.                                                        *)
(*                                                                         *)
(* A message alternates text and tool blocks: the parser starts a text     *)
(* block with every character that does not belong to a tool, the tool's   *)
(* opening tag included, so blocks 1, 3, ... are text.                     *)
(***************************************************************************)
EXTENDS Naturals, Sequences, FiniteSets

CONSTANTS MaxBlocks,     \* blocks of one assistant message, at most
          Tools,         \* the kinds of tool the model may call
          MistakeLimit,  \* consecutiveMistakeLimit
          HasParent      \* is this a subtask (parentTask # undefined)?

(* How a handler in core/tools treats its block:                           *)
(*   plain       asks for approval, runs, pushes a result                  *)
(*   browser     a browser_action on an open page: no approval             *)
(*   command     the user may stop it with feedback while it runs          *)
(*   write       write_to_file, silent when path or content is missing     *)
(*   insert      insert_content, which does not await handleError          *)
(*   completion  attempt_completion                                        *)
ToolKinds == {"plain", "browser", "command", "write", "insert", "completion"}

ASSUME LoopAssumption ==
  /\ MaxBlocks \in Nat \ {0}
  /\ Tools \subseteq ToolKinds
  /\ MistakeLimit \in Nat \ {0}
  /\ HasParent \in BOOLEAN

VARIABLES phase,       \* where recursivelyMakeClineRequests is
          turn,        \* the streaming state, reset for each request
          epoch,       \* history variable: parity of the request
          presenters,  \* calls of presentAssistantMessage past an await
          late,        \* pushToolResult calls of handlers that have returned
          ran,         \* history variable: blocks whose tool ran in this turn
          cut,         \* history variable: a late result arrived in this turn
          mistakes,    \* consecutiveMistakeCount
          aborted,     \* abort
          detached,    \* the provider no longer routes answers to this task
          checkpointed \* the initial checkpoint has been announced

vars == <<phase, turn, epoch, presenters, late, ran, cut, mistakes, aborted,
          detached, checkpointed>>

Phases == {"start", "mistakeAsk", "streaming", "ended", "waitReady", "stopped"}

\* The streaming state as recursivelyMakeClineRequests resets it.
FreshTurn == [blocks    |-> <<>>,   \* assistantMessageContent
              index     |-> 1,      \* currentStreamingContentIndex
              completed |-> FALSE,  \* didCompleteReadingStream
              answers   |-> [b \in 1..MaxBlocks |-> {}], \* userMessageContent
              ready     |-> FALSE,  \* userMessageContentReady
              rejected  |-> FALSE,  \* didRejectTool
              used      |-> FALSE,  \* didAlreadyUseTool
              locked    |-> FALSE,  \* presentAssistantMessageLocked
              pending   |-> FALSE]  \* presentAssistantMessageHasPendingUpdates

Init ==
  /\ phase = "start"
  /\ turn = FreshTurn
  /\ epoch = 0
  /\ presenters = {}
  /\ late = {}
  /\ ran = {} /\ cut = FALSE
  /\ mistakes = 0
  /\ aborted = FALSE
  /\ detached = FALSE
  /\ checkpointed = FALSE

-----------------------------------------------------------------------------
(* The parser, seen through the blocks it returns for a longer message.    *)

IsTool(b) == b % 2 = 0

\* What parseAssistantMessage returns once a chunk has arrived after old, given
\* the number of blocks, the kinds of the new tools and whether the last block
\* is still open.  Blocks already there are kept; all but the last are complete.
Parsed(old, n, kinds, open) ==
  [b \in 1..n |->
     [kind    |-> IF b <= Len(old) THEN old[b].kind
                  ELSE IF IsTool(b) THEN kinds[b] ELSE "text",
      partial |-> open /\ b = n]]

NewTools(old, n) == {b \in 1..n : b > Len(old) /\ IsTool(b)}

\* Mistaken variant: the parser gives up blocks it has returned before.
GrowsOrShrinks(old, n, open) == n > 0 /\ (~IsTool(n) => open)

\* A chunk grows an open block or starts another one; text stays open until a
\* tool follows it.
Grows(old, n, open) ==
  /\ n > 0 /\ n >= Len(old)
  /\ n = Len(old) => old[n].partial
  /\ ~IsTool(n) => open

-----------------------------------------------------------------------------
(* presentAssistantMessage up to its first await.                          *)

\* Mistaken variants: the check is forgotten, or made for rejections only.
NotSkipping(t) == FALSE
SkippingRejected(t) == t.rejected

Skipping(t) == t.rejected \/ t.used

\* Mistaken variant: the blocks are passed over without an answer.
SkipRestSilently(t) ==
  [t EXCEPT !.pending = FALSE, !.index = Len(t.blocks) + 1, !.ready = TRUE]

\* Mistaken variant: the block before the index is refused as well.
SkipRestOneEarly(t) ==
  [t EXCEPT !.pending = FALSE, !.index = Len(t.blocks) + 1, !.ready = TRUE,
            !.answers = [b \in 1..MaxBlocks |->
               IF b \in (t.index - 1)..Len(t.blocks) /\ IsTool(b)
               THEN t.answers[b] \cup {"skipped"} ELSE t.answers[b]]]

\* Blocks after a rejected or used tool are answered with a refusal, all of
\* them in one go: no await lies on that path.
SkipRest(t) ==
  [t EXCEPT !.pending = FALSE,
            !.index = Len(t.blocks) + 1,
            !.ready = TRUE,
            !.answers = [b \in 1..MaxBlocks |->
               IF b \in t.index..Len(t.blocks) /\ IsTool(b)
               THEN t.answers[b] \cup {"skipped"} ELSE t.answers[b]]]

\* Mistaken variant: a call that finds the lock taken leaves no note.
PresentedForgetting(t) ==
  CASE t.locked -> t
    [] ~t.locked /\ t.index > Len(t.blocks) ->
         [t EXCEPT !.pending = FALSE, !.ready = @ \/ t.completed]
    [] ~t.locked /\ t.index <= Len(t.blocks) /\ Skipping(t) -> SkipRest(t)
    [] OTHER -> [t EXCEPT !.locked = TRUE, !.pending = FALSE]

Presented(t) ==
  CASE t.locked -> [t EXCEPT !.pending = TRUE]
    [] ~t.locked /\ t.index > Len(t.blocks) ->
         [t EXCEPT !.pending = FALSE, !.ready = @ \/ t.completed]
    [] ~t.locked /\ t.index <= Len(t.blocks) /\ Skipping(t) -> SkipRest(t)
    [] OTHER -> [t EXCEPT !.locked = TRUE, !.pending = FALSE]

\* The presenter the call leaves behind, with its copy of the block.
Launched(t) ==
  IF t.locked \/ t.index > Len(t.blocks) \/ Skipping(t) THEN {}
  ELSE {[epoch   |-> epoch,
         block   |-> t.index,
         kind    |-> t.blocks[t.index].kind,
         partial |-> t.blocks[t.index].partial,
         at      |-> IF IsTool(t.index) THEN "check" ELSE "say"]}

\* A call of presentAssistantMessage in streaming state t, beside others.
\* After an abort it throws at once.
CallPresent(t, others) ==
  /\ turn' = IF aborted THEN t ELSE Presented(t)
  /\ presenters' = others \cup (IF aborted THEN {} ELSE Launched(t))

\* Mistaken variant: the index moves on from a block that is not complete.
FinishRegardless(p, t) ==
  LET u == [t EXCEPT !.locked = FALSE,
                     !.ready = @ \/ t.index = Len(t.blocks),
                     !.index = @ + 1]
  IN  IF u.index <= Len(u.blocks) \/ u.pending
      THEN CallPresent(u, presenters \ {p})
      ELSE turn' = u /\ presenters' = presenters \ {p}

\* The end of presentAssistantMessage for p: unlock, move on to the next block
\* when this one is done, and call again if there is more to present.
Finish(p, t) ==
  LET moves == ~p.partial \/ Skipping(t)
      u == [t EXCEPT !.locked = FALSE,
                     !.ready = @ \/ (moves /\ t.index = Len(t.blocks)),
                     !.index = IF moves THEN @ + 1 ELSE @]
  IN  IF (moves /\ u.index <= Len(u.blocks)) \/ u.pending
      THEN CallPresent(u, presenters \ {p})
      ELSE turn' = u /\ presenters' = presenters \ {p}

-----------------------------------------------------------------------------
(* recursivelyMakeClineRequests.                                           *)

\* The loop ends with an exception or with didEndLoop.
LoopEnds == phase' = "stopped"

\* A new round: over at once after an abort, a question to the user after too
\* many mistakes, a request otherwise.
BeginRequest ==
  /\ \/ phase = "start" /\ mistakes < MistakeLimit /\ UNCHANGED mistakes
     \/ phase = "mistakeAsk" /\ ~detached /\ mistakes' = 0
  /\ IF aborted THEN LoopEnds /\ UNCHANGED <<turn, epoch, ran, cut>>
     ELSE /\ phase' = "streaming"
          /\ turn' = FreshTurn
          /\ epoch' = 1 - epoch
          /\ ran' = {} /\ cut' = FALSE
  /\ UNCHANGED <<presenters, late, aborted, detached, checkpointed>>

AskAfterMistakes ==
  /\ phase = "start" /\ mistakes >= MistakeLimit
  /\ phase' = IF aborted THEN "stopped" ELSE "mistakeAsk"
  /\ UNCHANGED <<turn, epoch, presenters, late, ran, cut, mistakes, aborted,
                 detached, checkpointed>>

\* Mistaken variant: userMessageContentReady stays up when blocks come.
ReadKeepingReady(t, n, kinds, open) ==
  [t EXCEPT !.blocks = Parsed(t.blocks, n, kinds, open)]

\* Blocks that are new have not been presented yet.
Read(t, n, kinds, open) ==
  [t EXCEPT !.blocks = Parsed(t.blocks, n, kinds, open),
            !.ready = @ /\ n = Len(t.blocks)]

\* What follows every chunk, t being the streaming state it leaves: the loop over
\* the stream is left after an abort, a rejection or a tool use.
AfterChunk(t) ==
  phase' = CASE aborted -> "stopped"
             [] ~aborted /\ Skipping(t) -> "ended"
             [] OTHER -> "streaming"

\* A text chunk: parse what has arrived so far and present it.
Chunk ==
  /\ phase = "streaming"
  /\ \E n \in 1..MaxBlocks, open \in BOOLEAN :
       /\ Grows(turn.blocks, n, open)
       /\ \E kinds \in [NewTools(turn.blocks, n) -> Tools] :
            CallPresent(Read(turn, n, kinds, open), presenters)
  /\ AfterChunk(turn')
  /\ UNCHANGED <<epoch, late, ran, cut, mistakes, aborted, detached, checkpointed>>

\* A say that is not a presenter's takes the place of the last message, so a
\* pending ask finds lastMessageTs changed and throws.
Superseded(ps) ==
  {[p EXCEPT !.at = IF @ \in {"ask", "final"} THEN "ignored" ELSE @] : p \in ps}

\* A reasoning chunk is shown with say().
ReasoningChunk ==
  /\ phase = "streaming"
  /\ presenters' = IF aborted THEN presenters ELSE Superseded(presenters)
  /\ AfterChunk(turn)
  /\ UNCHANGED <<turn, epoch, late, ran, cut, mistakes, aborted, detached,
                 checkpointed>>

\* A usage chunk only counts tokens.
UsageChunk ==
  /\ phase = "streaming"
  /\ AfterChunk(turn)
  /\ UNCHANGED <<turn, epoch, presenters, late, ran, cut, mistakes, aborted,
                 detached, checkpointed>>

\* assistantMessage is not empty: there is text, and so a block, or the loop over
\* the stream was left and a note on the interruption has been appended.
HasText == turn.blocks # <<>> \/ phase = "ended"

\* The stream is over: every block counts as complete from here on.
FinishReading ==
  /\ phase \in {"streaming", "ended"}
  /\ LET n == Len(turn.blocks)
         t == [turn EXCEPT !.completed = TRUE,
                           !.blocks = [b \in 1..n |-> [kind |-> turn.blocks[b].kind,
                                                       partial |-> FALSE]]]
     IN  CASE aborted -> LoopEnds /\ UNCHANGED <<turn, presenters, mistakes>>
           [] ~aborted /\ ~HasText ->
                /\ turn' = t
                /\ phase' = "start"
                /\ mistakes' = mistakes + 1
                /\ UNCHANGED presenters
           [] OTHER ->
                /\ IF \E b \in 1..n : turn.blocks[b].partial
                   THEN CallPresent(t, presenters)
                   ELSE turn' = t /\ UNCHANGED presenters
                /\ phase' = "waitReady"
                /\ UNCHANGED mistakes
  /\ UNCHANGED <<epoch, late, ran, cut, aborted, detached, checkpointed>>

\* The stream throws: the task aborts itself and a new instance replaces it,
\* unless the provider has abandoned it already.
StreamFails ==
  /\ phase = "streaming"
  /\ LoopEnds
  /\ aborted' = (aborted \/ ~detached)
  /\ detached' = TRUE
  /\ UNCHANGED <<turn, epoch, presenters, late, ran, cut, mistakes, checkpointed>>

\* Mistaken variants: the loop does not wait, or counts every message.
GoOnAtOnce ==
  /\ phase = "waitReady"
  /\ phase' = "start"
  /\ UNCHANGED <<turn, epoch, presenters, late, ran, cut, mistakes, aborted, detached,
                 checkpointed>>

GoOnCounting ==
  /\ phase = "waitReady" /\ turn.ready
  /\ phase' = "start"
  /\ mistakes' = mistakes + 1
  /\ UNCHANGED <<turn, epoch, presenters, late, ran, cut, aborted, detached,
                 checkpointed>>

\* pWaitFor(userMessageContentReady) returns: on to the next request.
GoOn ==
  /\ phase = "waitReady" /\ turn.ready
  /\ phase' = "start"
  /\ mistakes' = IF \E b \in 1..Len(turn.blocks) : IsTool(b)
                 THEN mistakes ELSE mistakes + 1
  /\ UNCHANGED <<turn, epoch, presenters, late, ran, cut, aborted, detached,
                 checkpointed>>

-----------------------------------------------------------------------------
(* The presenters: say() for text, the tool handlers for tools.            *)

\* p goes on at another place of its handler.
MovesTo(p, at) ==
  /\ presenters' = (presenters \ {p}) \cup {[p EXCEPT !.at = at]}
  /\ UNCHANGED turn

Answered(t, b, what) == [t EXCEPT !.answers[b] = @ \cup {what}]

\* pushToolResult.
Result(t, b) == [Answered(t, b, "result") EXCEPT !.used = TRUE]

\* The handler of p returns.  When it has edited files, checkpointSave commits
\* them first, and the lock stays taken for as long as that takes.
Returns(p, t) ==
  \/ Finish(p, t)
  \/ /\ p.at = "run" /\ p.kind \in {"plain", "write", "insert"}
     /\ presenters' = (presenters \ {p}) \cup {[p EXCEPT !.at = "save"]}
     /\ turn' = t

EndsWithResult(p) == Returns(p, Result(turn, p.block))

PresenterFrame == UNCHANGED <<phase, epoch, aborted, detached, checkpointed>>

\* The text has been shown.
TextSaid(p) ==
  /\ p.at = "say"
  /\ Finish(p, turn)
  /\ PresenterFrame /\ UNCHANGED <<late, ran, cut, mistakes>>

\* A tool block that is still streaming is shown, not run.
PartialToolShown(p) ==
  /\ p.at = "check" /\ p.partial
  /\ Finish(p, turn)
  /\ PresenterFrame /\ UNCHANGED <<late, ran, cut, mistakes>>

\* The mode does not allow the tool, a parameter is missing or wrong, or the
\* tool has nothing to do: a result without asking.
Concludes(p) ==
  /\ p.at = "check"
  /\ EndsWithResult(p)
  /\ mistakes' \in {mistakes, mistakes + 1} \cup (IF p.partial THEN {} ELSE {0})
  /\ PresenterFrame /\ UNCHANGED <<late, ran, cut>>

\* write_to_file without path or content returns before anything else.
WriteSilently(p) ==
  /\ p.at = "check" /\ p.kind = "write"
  /\ Finish(p, turn)
  /\ PresenterFrame /\ UNCHANGED <<late, ran, cut, mistakes>>

\* ask() with the complete message; it throws after an abort.
AsksApproval(p) ==
  /\ p.at = "check" /\ ~p.partial /\ ~aborted
  /\ p.kind # "browser"
  /\ MovesTo(p, "ask")
  /\ mistakes' = 0
  /\ PresenterFrame /\ UNCHANGED <<late, ran, cut>>

RunsUnasked(p) ==
  /\ p.at = "check" /\ ~p.partial /\ ~aborted /\ p.kind = "browser"
  /\ MovesTo(p, "run")
  /\ ran' = ran \cup {p.block}
  /\ mistakes' = 0
  /\ PresenterFrame /\ UNCHANGED <<late, cut>>

\* attempt_completion without a command goes straight to its last question.
OffersCompletion(p) ==
  /\ p.at = "check" /\ ~p.partial /\ ~aborted /\ p.kind = "completion"
  /\ MovesTo(p, "final")
  /\ mistakes' = 0
  /\ PresenterFrame /\ UNCHANGED <<late, ran, cut>>

\* The user approves; a comment of hers is pushed as a result at once.
Approved(p) ==
  /\ p.at = "ask" /\ ~detached
  /\ presenters' = (presenters \ {p}) \cup {[p EXCEPT !.at = "run"]}
  /\ turn' \in {turn} \cup (IF p.kind = "insert" \/ aborted THEN {}
                            ELSE {Result(turn, p.block)})
  /\ ran' = ran \cup {p.block}
  /\ PresenterFrame /\ UNCHANGED <<late, cut, mistakes>>

\* askApproval gets anything but yes.  insert_content asks by itself and does
\* not raise didRejectTool.
Rejected(p) ==
  /\ p.at = "ask" \/ (p.at = "final" /\ HasParent)
  /\ ~detached
  /\ Finish(p, [Result(turn, p.block) EXCEPT !.rejected = @ \/ p.kind # "insert"])
  /\ PresenterFrame /\ UNCHANGED <<late, ran, cut, mistakes>>

\* The tool is done.  attempt_completion has only run its command.
RunDone(p) ==
  /\ p.at = "run"
  /\ IF p.kind = "completion"
     THEN ~aborted /\ MovesTo(p, "final")
     ELSE EndsWithResult(p)
  /\ PresenterFrame /\ UNCHANGED <<late, ran, cut, mistakes>>

\* The checkpoint is saved, or has failed.
Saved(p) ==
  /\ p.at = "save"
  /\ Finish(p, turn)
  /\ PresenterFrame /\ UNCHANGED <<late, ran, cut, mistakes>>

\* The user answers the command's output with feedback: it goes on in its
\* terminal, and counts as rejected.
CommandFeedback(p) ==
  /\ p.at = "run" /\ p.kind \in {"command", "completion"} /\ ~aborted
  /\ Finish(p, [Result(turn, p.block) EXCEPT !.rejected = TRUE])
  /\ PresenterFrame /\ UNCHANGED <<late, ran, cut, mistakes>>

\* completion_result answered with yes: an empty result.
CompletionAccepted(p) ==
  /\ p.at = "final" /\ ~HasParent /\ ~detached
  /\ EndsWithResult(p)
  /\ PresenterFrame /\ UNCHANGED <<late, ran, cut, mistakes>>

\* completion_result answered with feedback: it goes straight into
\* userMessageContent, not through pushToolResult.
CompletionFeedback(p) ==
  /\ p.at = "final" /\ ~HasParent /\ ~detached /\ ~aborted
  /\ Finish(p, Answered(turn, p.block, "feedback"))
  /\ PresenterFrame /\ UNCHANGED <<late, ran, cut, mistakes>>

\* A finished subtask is removed from the provider's stack, which aborts and
\* abandons it, and returns no result.
FinishSubTask(p) ==
  /\ p.at = "final" /\ HasParent /\ ~detached
  /\ aborted' = TRUE /\ detached' = TRUE
  /\ presenters' = presenters \ {p}
  /\ turn' = [turn EXCEPT !.locked = FALSE,
                          !.ready = @ \/ turn.index = Len(turn.blocks),
                          !.index = @ + 1]
  /\ UNCHANGED <<phase, epoch, late, ran, cut, mistakes, checkpointed>>

\* An exception in a handler ends in handleError, which pushes a result.
\* insert_content does not wait for it: the block is over before the result
\* is there.
ToolFails(p) ==
  /\ \/ p.at = "check" /\ (p.partial => p.kind = "write")
     \/ p.at \in {"run", "ignored"}
  /\ ~aborted
  /\ IF p.kind = "insert"
     THEN /\ Returns(p, turn)
          /\ late' = late \cup {[epoch |-> p.epoch, block |-> p.block]}
     ELSE EndsWithResult(p) /\ UNCHANGED late
  /\ PresenterFrame /\ UNCHANGED <<ran, cut, mistakes>>

\* The result insert_content left behind arrives, in whatever turn it is now.
LateResult ==
  /\ \E l \in late :
       /\ late' = late \ {l}
       /\ turn' = IF l.epoch = epoch THEN Result(turn, l.block)
                  ELSE [turn EXCEPT !.used = TRUE]
  /\ cut' = TRUE
  /\ PresenterFrame /\ UNCHANGED <<presenters, ran, mistakes>>

\* After an abort the next ask() or say() of a handler throws, and so does the
\* say() of its catch clause: the call is gone and the lock stays taken.
DiesOfAbort(p) ==
  /\ aborted
  /\ \/ p.at \in {"check", "run", "ignored"}
     \/ p.at \in {"ask", "final"} /\ ~detached  \* answered with a comment
  /\ presenters' = presenters \ {p}
  /\ UNCHANGED <<turn, late, ran, cut, mistakes>> /\ PresenterFrame

-----------------------------------------------------------------------------
(* The provider and the checkpoint service.                                *)

\* abortTask, from cancelTask or removeClineFromStack.
Abort ==
  /\ ~aborted
  /\ aborted' = TRUE
  /\ UNCHANGED <<phase, turn, epoch, presenters, late, ran, cut, mistakes,
                 detached, checkpointed>>

\* cancelTask puts a new instance in the place of the aborted one.
Replaced ==
  /\ aborted /\ ~detached
  /\ detached' = TRUE
  /\ UNCHANGED <<phase, turn, epoch, presenters, late, ran, cut, mistakes, aborted,
                 checkpointed>>

\* The shadow repository is ready in the background, and its initial checkpoint
\* is announced with say().  Later ones are announced while their presenter
\* waits for them (Saved), when no question of the task can be pending.
InitialCheckpoint ==
  /\ ~checkpointed /\ ~aborted
  /\ checkpointed' = TRUE
  /\ presenters' = Superseded(presenters)
  /\ phase' = IF phase = "mistakeAsk" THEN "stopped" ELSE phase
  /\ UNCHANGED <<turn, epoch, late, ran, cut, mistakes, aborted, detached>>

-----------------------------------------------------------------------------

Reader ==
  \/ BeginRequest \/ AskAfterMistakes \/ Chunk \/ ReasoningChunk \/ UsageChunk
  \/ FinishReading \/ StreamFails \/ GoOn

Presenter(p) ==
  \/ TextSaid(p) \/ PartialToolShown(p) \/ Concludes(p) \/ WriteSilently(p)
  \/ AsksApproval(p) \/ RunsUnasked(p) \/ OffersCompletion(p) \/ Approved(p)
  \/ Rejected(p) \/ RunDone(p) \/ Saved(p) \/ CommandFeedback(p)
  \/ CompletionAccepted(p) \/ CompletionFeedback(p) \/ FinishSubTask(p) \/ ToolFails(p) \/ DiesOfAbort(p)

Next ==
  \/ Reader
  \/ \E p \in presenters : Presenter(p)
  \/ LateResult \/ Abort \/ Replaced \/ InitialCheckpoint

Spec == Init /\ [][Next]_vars

\* The event loop runs every continuation that is ready, the provider's stream
\* ends, and the user answers what she is asked.
FairSpec ==
  /\ Spec
  /\ WF_vars(BeginRequest) /\ WF_vars(AskAfterMistakes)
  /\ WF_vars(FinishReading) /\ WF_vars(GoOn)
  /\ WF_vars(\E p \in presenters : Presenter(p))
  /\ WF_vars(LateResult)

-----------------------------------------------------------------------------
(* What the loop must guarantee.                                           *)

PresenterType ==
  [epoch : {0, 1}, block : 1..MaxBlocks, kind : ToolKinds \cup {"text"},
   partial : BOOLEAN,
   at : {"say", "check", "ask", "ignored", "run", "save", "final"}]

BlockType == [kind : ToolKinds \cup {"text"}, partial : BOOLEAN]

TurnType ==
  [blocks : Seq(BlockType),
   index : Nat \ {0},
   completed : BOOLEAN,
   answers : [1..MaxBlocks -> SUBSET {"result", "skipped", "feedback"}],
   ready : BOOLEAN, rejected : BOOLEAN, used : BOOLEAN,
   locked : BOOLEAN, pending : BOOLEAN]

\* Every variable keeps its type, and the presenting index never runs past the
\* end of the message by more than one.
TypeOK ==
  /\ phase \in Phases
  /\ turn \in TurnType
  /\ Len(turn.blocks) <= MaxBlocks
  /\ turn.index <= Len(turn.blocks) + 1
  /\ epoch \in {0, 1}
  /\ presenters \subseteq PresenterType
  /\ late \subseteq [epoch : {0, 1}, block : 1..MaxBlocks]
  /\ ran \subseteq 1..MaxBlocks /\ cut \in BOOLEAN
  /\ mistakes \in Nat
  /\ aborted \in BOOLEAN /\ detached \in BOOLEAN /\ checkpointed \in BOOLEAN

\* presentAssistantMessage is called without await from three places, and the
\* lock it relies on is an ordinary field that each request resets.  Still there
\* are never two of its calls under way, and none outlives its request.
OnePresenter ==
  /\ \A p, q \in presenters : p = q
  /\ \A p \in presenters : p.epoch = epoch /\ p.block = turn.index

\* userMessageContentReady lets the next request start: when it is up, every
\* block has been presented and nothing is being presented any more.
ReadyMeansPresented ==
  turn.ready => presenters = {} /\ turn.index > Len(turn.blocks)

\* The wait for userMessageContentReady has no timeout.  Once the stream has
\* been read, either the flag is up or a presenter is under way that will raise
\* it: no call of presentAssistantMessage was lost to the lock.  The exception is
\* a message interrupted before its first block, by the late result of an
\* insert_content in the message before (cut): its note on the interruption is
\* text to wait for, but no block, and nobody raises the flag.
NoLostWakeup ==
  (phase = "waitReady" /\ ~aborted /\ ~turn.ready) =>
    presenters # {} \/ (turn.blocks = <<>> /\ cut)

\* The user is asked before the model makes more than MistakeLimit mistakes in
\* a row, whatever combination of handlers and of empty or toolless messages
\* counted them.
MistakesBounded == mistakes <= MistakeLimit

\* Whatever order blocks, answers and failures came in, no tool use is left
\* without an answer when the next request starts.  The exceptions are
\* write_to_file, which may return without one, and insert_content, whose error
\* may still be on its way, and raises didAlreadyUseTool when it arrives: a tool
\* that is half shown then goes by unanswered (cut).
ToolsAnswered ==
  (phase \in {"start", "mistakeAsk"} /\ ~aborted) =>
    \A b \in 1..Len(turn.blocks) :
      \/ ~IsTool(b)
      \/ turn.answers[b] # {}
      \/ turn.blocks[b].kind = "write"
      \/ turn.blocks[b].kind = "insert" /\ [epoch |-> epoch, block |-> b] \in late
      \/ cut

\* Once the user has rejected a tool, no tool of that message runs.
NoToolAfterRejection ==
  [][turn.rejected /\ epoch' = epoch => ran' \subseteq ran]_vars

\* No tool starts to run when another tool of the message has given its
\* result.  The exceptions are attempt_completion, which does not count as used,
\* and a failed insert_content, which counts too late (cut).
SecondToolRefused ==
  [][\A b \in ran' \ ran : \A c \in 1..MaxBlocks \ {b} :
       "result" \in turn.answers[c] => cut]_vars

\* The wait for userMessageContentReady comes to an end, if there is a block to
\* wait for (see NoLostWakeup).
TurnEnds ==
  (phase = "waitReady" /\ turn.blocks # <<>>) ~> (phase # "waitReady" \/ aborted)

\* The turn as TurnProtocol sees it.
Stage ==
  CASE phase \in {"start", "mistakeAsk"} -> "idle"
    [] phase \in {"streaming", "ended"} -> "reading"
    [] phase = "waitReady" -> "waiting"
    [] OTHER -> "over"

Turn == INSTANCE TurnProtocol WITH
          stage    <- Stage,
          received <- Len(turn.blocks),
          open     <- \E b \in 1..Len(turn.blocks) : turn.blocks[b].partial,
          behind   <- turn.index - 1,
          working  <- presenters # {},
          closed   <- Skipping(turn),
          refused  <- {b \in 1..MaxBlocks : "skipped" \in turn.answers[b]}

\* The reader and the presenters, with the lock, the note and the flag between
\* them, do what one worker would that takes the blocks in order: nothing is
\* presented twice, passed over, or begun too early or too late.
KeepsTurn == Turn!Spec

\* A tool that has run is not refused as well: the model gets one answer or the
\* other, also when its block was shown half, left, and taken up again.
RunOrRefused == \A b \in ran : "skipped" \notin turn.answers[b]

-----------------------------------------------------------------------------
(* What comments of the code say and the code does not do.                 *)

\* "ignore all other tool uses since we should only ever present one tool
\* result per message" (pushToolResult).
OneResultPerMessage ==
  \A b, c \in 1..MaxBlocks :
    turn.answers[b] \cap {"result", "feedback"} # {}
      /\ turn.answers[c] \cap {"result", "feedback"} # {} => b = c

\* "this should never happen since the only thing that can throw an error is
\* the attemptApiRequest": without an abort, recursivelyMakeClineRequests does not
\* end by an exception that a call of itself throws.  It calls itself after a
\* message with blocks; after an empty one its caller, initiateTaskLoop, does.
LoopEndsOnlyByAbort == phase = "stopped" /\ turn.blocks # <<>> => aborted

=============================================================================
