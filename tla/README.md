# A verification of the Roo Code task engine

This directory holds TLA+ models of the parts of the extension that run
concurrently, the TLC configurations that check them, and proofs for TLAPS.
Paths below are relative to the repository, which is mounted as `src/`; the
extension's own code is in `src/src/`.

## The system

The extension lets a language model work on a workspace. A **task** (class
`Cline`) sends a request, reads the streamed answer, shows it block by block,
runs the tools it calls after the user has approved them, and sends the results
with the next request. A **provider** (class `ClineProvider`) holds the tasks in
a stack: a task that calls `new_task` waits below its subtask. Around them are
services that run in the background: terminals, checkpoints, file tracking, MCP
servers. A second program, a planner server, shares the repository.

All of it is JavaScript: one piece of code runs at a time, from one `await` to
the next. What is hard is what may run *between* two pieces: promises that
nobody awaits, fields read before an await and used after it, flags polled by
another piece of code, an abort in the middle.

### Inventory

| component | state | operations | what is hard | what must hold |
|---|---|---|---|---|
| Request loop (`core/Cline.ts`, `core/assistant-message`, `core/tools`) | blocks parsed so far, presenting index, lock and pending note, ready flag, rejected and used flags, tool results, mistake count, `abort` | read a chunk, present a block, ask, approve or reject, run, push a result, go on, abort | the presenter is called without await; the lock is reset by each request; the wait for the ready flag has no timeout; an exception after an abort leaves the lock taken; a handler whose error is not awaited | one presenter; ready only when all is presented; no lost wake-up; every tool use answered; no tool after a rejection; the mistake limit |
| Task stack (`core/webview/ClineProvider.ts`, `newTaskTool.ts`, `attemptCompletionTool.ts`) | `clineStack`, `isPaused`, `pausedModeSlug`, `abort`, `abandoned`, the mode | new task, clear, cancel, show, plus button; spawn, pause, finish, resume; restart after a failed stream | operations overlap at their awaits and take "the top" each time anew; a subtask is cancelled and recreated from history | live tasks are on the stack; one runs; a result reaches the spawner; a wait ends; the mode comes back |
| Questions and answers (`ask`, `say`, `handleWebviewAskResponse`; `ChatView.tsx`) | `askResponse`, `lastMessageTs`, `clineMessages`; in the view `clineAsk`, the buttons, the text field, delayed approvals | ask, answer, say, partial updates; render, click, send, approve automatically | an answer carries no id; a say makes a pending ask throw; asks poll; an approval is decided before a delay and given after it | an answer reaches the question it was given to; a question that waits can be answered; only what is allowed is approved automatically |
| Messages and history (`resumeTaskFromHistory`) | two files per task | save, repair and resume | none: a pure repair | every tool use has a result |
| Terminals (`integrations/terminal`) | registry of terminals, `busy`, `taskId`, a slot for a process and a queue of finished ones, a process with its stream | get or create, run, continue, report output, release, close; events of VS Code | shell integration timeouts; `busy` raised after the choice; events that do not say whose they are | `busy` is lowered in the end; an end and an exit code reach their command; output is not lost |
| Checkpoints (`services/checkpoints`, the glue in `Cline.ts`) | shadow git repository, `baseHash`, list of commits, `enableCheckpoints` | initialise, save, restore, diff | no mutual exclusion on the repository; a restore replaces the task while git commands of the old one are under way | a restore is exact; a diff is between neighbours; one first checkpoint; only an error turns them off |
| File context (`core/context-tracking`) | metadata file, watchers, sets of files | track, watch, take and clear | read, change, write across awaits | no lost update; own edits are not taken for the user's |
| MCP hub (`services/mcp`) | list of connections, `isConnecting`, the processes of the servers | update from settings, restart, delete, dispose | operations overlap; the end of a process is looked up by name | one connection per server; no process leaks; the status is true; `isConnecting` is lowered |
| Sliding window (`core/sliding-window`) | none | truncate | rounding | first message kept, turns alternate |
| Plan executor, job queue (`services/planner`, `JobQueueService.ts`) | execution histories, jobs | run, cancel, poll, load | status overwritten; jobs that wait for jobs | a cancelled plan stays cancelled |
| Planner server (`api/`) | plan files | plan, execute, report | shared files | |
| The rest: settings stores, prompts, modes, providers, diff strategies, ignore rules, browser, search, telemetry, web UI, evals | key-value data, text | one step each | little | |

Components interact by calls (provider to task: abort, resume; task to provider:
`initClineWithTask`, `finishSubTask`, `initClineWithHistoryItem`), by flags one
side sets and the other polls (`userMessageContentReady`, `isPaused`,
`askResponse`, `lastMessageTs`, `abort`, `isConnecting`), by messages (the list
of messages to the view, answers back) and by events (checkpoint service,
terminals and transports to the task or the hub).

## The modules

| module | models | checked by | proved in |
|---|---|---|---|
| `RequestLoop` | one task: reader, presenter, tool handlers | `MCRequestLoop` | `RequestLoop_proof` |
| `TurnProtocol` | what the loop promises of a turn, without lock, flags and notes | as a property of `RequestLoop` | `TurnProtocol_proof` |
| `TaskStack` | the provider's stack and the subtask protocol | `MCTaskStack` | `TaskStack_proof` |
| `QuestionProtocol` | what `ask` promises, without saying how | as a property of the next two | |
| `Questions` | `ask`, `say`, the answer slot, output of commands | through `ChatView` | `Questions_proof` |
| `ChatView` | `Questions` composed with the view and the channel back | itself | `ChatView_proof` |
| `Terminals` | registry, terminals, processes and their callers | `MCTerminals` | `Terminals_proof` |
| `McpHub` | connections kept in step with a settings file | `MCMcpHub` | `McpHub_proof` |
| `Checkpoints` | the shadow repository and successive tasks on it | itself | `Checkpoints_proof` |

`RequestLoop` and `TaskStack` meet where a task is "busy" in `TaskStack`: that is
all of `RequestLoop`. In the other direction `RequestLoop` has the provider as
four things that may happen to it: `Abort`, `Replaced` (the provider routes no
answers to it any more), `FinishSubTask` and the end of `StreamFails`. It takes
questions as places where a handler waits and may be interrupted; how a question
and its answer find each other is `Questions`. `Terminals` and `Checkpoints` have
the task as a caller that starts, is aborted, or is replaced by another.

An action is, in all modules, the code from one await to the next. Definitions
called "mistaken" are plausible bugs; each property fails when the mistaken
definition named for it takes the place of the real one.

### RequestLoop

`presentAssistantMessage` is called without await, so its code up to the first await belongs to the caller's
step. It is the operator `Presented` on the streaming state, together with
`Launched`, the presenter the call leaves behind, and `CallPresent`, which joins
them. A presenter is a member of the set `presenters`, so that nothing but the code's
own lock keeps two of them apart. `Finish` is the tail of the function, recursive
call included; `Returns` adds the commit of edited files that comes before it.

| code | model |
|---|---|
| `assistantMessageContent`, `currentStreamingContentIndex`, `presentAssistantMessageLocked`, `...HasPendingUpdates`, `userMessageContentReady`, `didRejectTool`, `didAlreadyUseTool`, `didCompleteReadingStream`, `userMessageContent` | fields of `turn` |
| where `recursivelyMakeClineRequests` is | `phase` |
| a chunk of text / of reasoning / of usage; the tests after it | `Chunk` / `ReasoningChunk` / `UsageChunk`; `AfterChunk` |
| `assistantMessage.length > 0` | `HasText` |
| end of the stream; its failure | `FinishReading`; `StreamFails` |
| `pWaitFor(userMessageContentReady)` and what follows | `GoOn`, then `BeginRequest` or `AskAfterMistakes` |
| `ask` and `say` of a handler | places `ask`, `final`, `say` of a presenter; `Superseded` is what another say does to a pending ask |
| `askApproval` | `AsksApproval`, `Approved`, `Rejected` |
| `pushToolResult` | `Result` |
| `handleError` | `ToolFails`; `LateResult` for the one handler that does not await it |
| exceptions after an abort | `DiesOfAbort`: the presenter is gone and the lock stays taken |

Data is abstracted to what the properties tell apart. A block has a kind and is
open or not; that text and tool blocks alternate is what the parser does. The
kinds of tool are the six ways handlers treat the flow: most are `plain`, the
others differ in asking, answering or failing. Answers are a set of marks per
block: a result, a refusal, or feedback on a completion.

`epoch`, `ran` and `cut` are history variables. `epoch` is the request's parity;
two values suffice because a presenter of the request before last would have to
survive a request that `OnePresenter` shows it does not, and a late result has
the same effect on any later request but its own. `cut` marks a turn that a late
`insert_content` error has entered; three properties except it, because in that
turn the code really does what they forbid. When the late result comes before the
first text, the next chunk of another kind ends the reading: the message then has
text, the note on its interruption, and no block. `HasText` tells it from an empty
answer, and the wait of `src/src/core/Cline.ts:2029` has nobody to end it.

`TurnProtocol` is the same turn with one worker in place of the lock, the pending
note, the ready flag and calls upon calls of `presentAssistantMessage`. The worker takes
the blocks in order, is done with one only when it is complete or no tool may run any more,
leaves one that grows until more of it has come, and rests only when nothing is left
that it could take; the next request waits for it. Once a tool was rejected or used
it refuses what is left in one step, because in the code, too, no await lies between
two refusals. `RequestLoop` implements it (`KeepsTurn`) under the mapping `Turn`:

| `RequestLoop` | `TurnProtocol` |
|---|---|
| `phase` | `stage`: `Stage` joins `start` with the question about mistakes, `streaming` with the time from the stream's end to the wait |
| the length of the blocks, and whether one is partial | `received`, `open` |
| `turn.index - 1`; a presenter exists | `behind`; `working` |
| `rejected` or `used` (`Skipping`) | `closed` |
| the answers "skipped" | `refused` |

Lock, note and flag have no counterpart, so that a presentation done twice, left
out, begun before its turn, or forgotten until nothing more comes is a step that
the protocol does not have. A turn that was closed before its first block may wait
with nothing received: that is the hang above. An abort takes back all but the order.

### TaskStack

`clines` lists all instances ever created, `stack` their positions. An instance
that has been popped still exists, as a promise does, and goes on where the code
does not look at `abort`. A provider operation between two awaits is a member of
`ops`; it reads "the top of the stack" each time anew, as the code does. The
variable `orderly` records whether the user kept to the protocol: started an
operation only when no other was under way and no task was handing over to
another. `LiveInStack` and the types hold without it; the other properties
are about orderly histories, because the code makes no attempt at them otherwise
(a code action simply pushes a second running task). Cancels, failed streams,
resumes and subtasks of subtasks are all orderly.

### Questions, ChatView and QuestionProtocol

`Questions` has the calls of `ask` that wait as a set of indexes, so that nothing
but the code's own comparison with `lastMessageTs` decides which of them takes the
answer. Its state is the task's; `outcome` is history.

| code | model |
|---|---|
| `ask` of a new message; with `partial` true; with `partial` false after that | `Ask`; `AskPartial`; `AskComplete` |
| the `pWaitFor` in `ask`: overtaken, or answered | `Ignored`; `Answered` |
| `handleWebviewAskResponse` | `HandleWebviewAskResponse` |
| `executeCommandTool` and its `on("line")` | `RunCommand`, `OutputLine`, `CommandEnds` |
| `updateApiReqMsg` at the end of a request's answer | `reading`, `UpdateApiReqMsg` |
| `useDeepCompareEffect` on the last two messages | `Shown`, part of `Render` |
| the effect that approves automatically, and its delay | the rest of `Render`; `ApprovalDue` |
| `handlePrimaryButtonClick`, `handleSecondaryButtonClick`, `handleSendMessage` | `Click`, `HandleSendMessage` |
| `postMessage` to the task | `flight`, `Arrives` |

`QuestionProtocol` is what a caller of `ask` may rely on: at most the last question
is open, it takes an answer given while it was open, an answer is taken once, and
a question overtaken takes none. `Questions` implements it under the mapping
`Fates`, `Given`: an ask that has been overtaken but has not looked yet counts as
void already. The composition with the view implements it as well.

A message's index stands for its time stamp, so two messages of the same
millisecond are not modelled. Messages reach the view without delay: every
rendering can be moved to the moment its messages were sent, because what the view
does is seen by the task only through the channel back, which does take time. An
abort, and questions other than those of tools and of running commands, are left out.

The effect of `src/webview-ui/src/components/chat/ChatView.tsx:122` runs when one of the
last two messages is new or differs from what it was. The last differs when it is
completed, the second last when it is `api_req_started` and gets its numbers at the end
of the answer (`src/src/core/Cline.ts:2007`); then a question that is last is offered
once more, answered or not. `again` notes that the buttons on show are such a second
offer, `twice` that the user took one. The update of the same message before the request
goes out (`src/src/core/Cline.ts:1811`) is left out: nothing is asked between the two, so
that it changes nothing on show.

### Terminals

| code | model |
|---|---|
| `getOrCreateTerminal` and the await after it | `PickTerminal` |
| `runCommand` | `RunCommand` |
| the waits of `run`, with their timeouts | `GiveUp` and `NoShellIntegration`; `Execute`; `StreamTimeout` |
| the loop over the stream, its end, `completed` | `Output`, `StreamEnds`, `Complete` |
| `continue` | `ProceedWhileRunning` |
| `onDidStart...`, `onDidEndTerminalShellExecution`, `shellExecutionComplete` | `ExecutionStarts`, `ExecutionEnds` with `Ended` |
| environment details take what is unread | `ReportOutput` |
| `releaseTerminalsForTask`, closing, the user's own typing | `Abort`, `Close`, `TypeByHand` |

Whether a candidate's directory fits is a nondeterministic set `here`. A stream
whose start marker is missing has the effects of `Complete`. The report of output is
one step: its wait for hot processes only delays it. A question about the output
appears with the first output, and output that comes while the task waits for the
command is not counted as unread, since the result carries it. Aborts and closed
terminals are bounded by `MaxLosses`.

### McpHub

`made` lists all connections ever pushed, `connections` are those of them in the list.
Operations (`updateServerConnections`, `restartConnection`, `dispose`) are records
in `ops` that go from await to await; `deleteConnection` and `connectToServer` are
parts of them. The MCP SDK is external: `client.connect` succeeds only with a live
process, closes its transport when it fails and keeps the handlers of events the hub
has set; the transport's `onclose` comes some time after the process ended
(`OnClose`), its `onerror` at any time before that (`OnError`). What an operation or
an event finds by name, it finds then (`IsFound`).

The settings name for each server a configuration, an entry that is not valid
(`Invalid`), or none. `deleteServer` passes the file as it is
(`src/src/services/mcp/McpHub.ts:1118`), so that an update may meet an invalid entry; it
leaves the connection there is. `byEvent` marks a connection whose status was last set
by an event: `onerror` disconnects a server that runs on, and the end of an earlier
process disconnects the connection that now has its name.

`tangled` remembers the servers two operations have worked on at once, `overlapped`
that two were under way at all, `broken` that one ended in an error. The code makes
no attempt to keep operations apart, the constructor itself starts two
updates at once, and the exceptions in the properties say exactly what that
costs: without `tangled` a server can get two connections, or a process that no list
entry leads to. Left out: the second source of settings, which governs connections of
its own; watchers, toggles, tools and resources; `McpServerManager`, which keeps a
hub after its disposal.

### Checkpoints

A tree is a set of files, a commit a tree and its parent, a git command one step
(git locks its repository). Between the look for the `.git` directory and the first
commit there are awaits: two Cline objects may both find none, and both make the
repository, which `git init` allows. The sequence `tasks` holds the Cline objects of
one task, each with a service of its own for the same repository; a cancel and a
restore add one.

| code | model |
|---|---|
| `getCheckpointService`, `initiateTaskLoop` | `Initializing`, `LoopStarts` |
| `initShadowGit` | `Looked`, then `Made`, `StageAll` and `Created`, or `Opened` |
| `checkpointSave` and `saveCheckpoint`, the `initialize` and `checkpoint` handlers | `CheckpointSave`, `StageAll`, `Committed` |
| an error in any of them | `Fails` |
| `checkpointRestore` from the view, with the cancels around it | `AskForRestore`, `CheckpointRestore`, `Waited`, `Clean`, `Reset`, `Cut`, `CancelAgain` |
| `checkpointDiff` and `getDiff` | `CheckpointDiff`, `Waited` if it is the first to need the service, and its `StageAll` |

A tool that ends after its task was aborted saves like a save begun before. `stageAll`
goes on when `git add` fails, so it may leave the index as it was. A restore whose task
was aborted meanwhile overwrites the messages' file and then fails at its `say`; the
Cline object in charge has read the file before or after (`Cut`); that one reads it
only when it is replaced itself is left out, as are nested repositories, repeated
entries of `_checkpoints` and the text of diffs.

## What is checked

| run | bounds | shows |
|---|---|---|
| `request_loop` | messages of up to 4 blocks, so two tools with text around; all special kinds; limit of 1 mistake; a main task | all safety properties and the refinement of `TurnProtocol`, 4.8 million states |
| `request_loop_live` | the same for a subtask, kinds `plain`, `insert` and `completion`, with fairness | `TurnEnds`, 1.7 million states |
| `task_stack` | 4 instances in orderly histories, 3 in others; 2 operations under way; 2 modes | all properties of the stack, 6.4 million states |
| `chat_view` | 3 kinds of tools (asked about, approved at once, approved after a delay), 4 messages, 1 delayed approval, 2 answers on their way | questions, answers and the refinement of `QuestionProtocol`, 1.8 million states |
| `terminals` | 2 tasks, 2 terminals, 3 commands, 1 abort or closed terminal; tasks are symmetric | all properties of the pool, 4.7 million states |
| `mcp_hub` | 2 servers, 2 configurations and invalid entries, 3 connections, 2 operations; servers are symmetric | all properties of the hub, 5.9 million states |
| `checkpoints` | 1 file, 3 Cline objects, 3 commits, 2 operations under way, 1 failure | all properties of the repository, 7.5 million states |
| `one_result`, `loop_ends`, `removed_tasks_exit`, `previous_activated`, `approves_allowed` | smaller | what four comments and a test say is not what the code does |

Two tools are enough for the flags of a request, which are about "another tool of
this message"; a third would be refused like the second. A text block before, between
and after them lets the reader be ahead of the presenter or behind it. A limit of
one mistake makes the question about mistakes come up in every other round. The
number of requests is not bounded: the state space is finite without that.
`plain` is left out of the large run because its steps are those of `command`
less the feedback. Four instances are enough for a subtask of a subtask with one
of the three recreated; overlapping operations are explored with three.

Four messages let a question be overtaken by a message, that one be followed by
another question, and an answer be late for either. Three commands in two terminals
let a command meet the rest of an earlier one in its terminal and of another in the
next. Two hub operations are what it takes to overlap; three connections let a
server be connected again while the end of its first process is still to be heard.
Three Cline objects let a task that was replaced twice meet its successors; three
commits give a checkpoint before, at and after the one that is restored; one file
that is made or removed already tells any two successive trees apart.

Deadlock is not checked: a task that was aborted, or that waits for the user,
really stops, and the bounds stop the rest. Each property is stated in words above
its definition.

### Fairness

`FairSpec` of `RequestLoop` asks for weak fairness of the reader's own steps and of
the presenter's: the event loop runs every continuation that is ready. For
`FinishReading` it says in addition that the provider's stream ends, and for the
presenter that tools and commits come to an end and that the user answers what
she is asked. Nothing is assumed of `Abort`, of chunks or of the checkpoint
service. Without an answer the task waits, as it should, so that assumption is
the user's and not the code's.

In the other modules what must come in the end is stated as safety: `BusyHasAReason`
names the process that will lower `busy`, `EndWillBeHeard` that the end of a command still
finds it, `QuestionCanBeAnswered` that the view offers an answer,
`ConnectingIsShown` that the flag is lowered with the operation. The code gives those
steps no more than the event loop's fairness, and whether a command or a server
ever ends is not its to say.

### What the runs found

* `one_result`. The comment at `src/src/core/Cline.ts:1467` says that only one tool
  result per message is presented. `attempt_completion` pushes the user's feedback
  by itself and does not count as used, so a tool after it runs.
* `loop_ends`. The comment at `src/src/core/Cline.ts:2057` says the outer catch is
  never reached. The question after too many mistakes is asked inside the try of
  the calling round, and the background announcement of the initial checkpoint
  makes it throw: the task's loop ends silently. (After an empty answer the question
  is asked by `initiateTaskLoop`'s own call, and its exception leaves that loop
  unhandled; the property is about the first case, a message with blocks.)
* `removed_tasks_exit`. The comment at `src/src/core/webview/ClineProvider.ts:151`
  says that the promises of a removed task exit as well. An approved `new_task`
  goes on and creates its child.
* `previous_activated`. The comment at `src/src/core/webview/ClineProvider.ts:137`
  says the previous task is resumed. The plus button removes a subtask and leaves
  its parent waiting.
* `approves_allowed`. A test of the view says that commands that are not allowed are
  not approved automatically. An approval that was decided for a write and then
  delayed is given to whatever question waits when the delay is over.

Other things a reader of the code should know, which the properties name as their
exceptions and nothing in the repository contradicts:

* Answers carry no id. One given to a question that was overtaken on its way is
  taken by the next question (`UserAnswersWhatHeSees`); a line of output of a
  background command is enough to overtake a question. A question that was answered
  while the request's answer is still being read is offered again when the reading
  ends, and what the user answers then is taken by the next question, too (`twice`).
* The error of `insert_content` is pushed when its message may be over. If it reaches
  the next message before any text of it, and that message begins with a chunk of
  reasoning or usage, the message is interrupted with no block, and the task waits at
  `src/src/core/Cline.ts:2029` for ever (`NoLostWakeup`, `TurnEnds`).
* A command in the background emits `completed` after its stream, when its terminal may
  have the next command: that one's `busy` is lowered (`CompletedLate`). Two tasks
  may pick the same idle terminal (`Shared`).
* A Cline object that restores a checkpoint it has not saved itself remembers another
  base than HEAD, until it is cancelled and replaced right after the restore: only a
  checkpoint saved in between is compared with a state that was discarded
  (`FromIsParent`, `moved`). The same goes for the next checkpoint of an object
  after the first commit of an older one that has found the repository missing as
  well. A save or a restore during initialisation is dropped without a word.
* Overlapping updates of the hub connect a server twice and lose a process
  (`tangled`). A late end of an old process disconnects the new connection, and an error
  event one whose server runs on (`byEvent`). An error in the last notification
  leaves `isConnecting` up, on which the next request waits (ten seconds, `src/src/core/Cline.ts:1126`). A restart uses the configuration it found, not
  the one an update has read meanwhile.

## What is proved

The theorems hold for every value of the constants that the named assumptions
allow: messages of any length, any set of tool kinds, any number of instances,
terminals, servers, commits and operations. The assumptions say only that bounds
are natural numbers, that the special values are not among the ordinary ones, and
that the kinds of questions (`clineAsks` in the code) are none of the two kinds of said
messages that the models use.

**RequestLoop_proof.** `OnePresenter` and its companions are not inductive:
the lock is one fact, the presenters another, and nothing in the properties ties
them. `IInv` does, in four parts. *Shape*: of the parsed blocks only the last may
be open, and the index is at most one past the end. *Holds*: a presenter works at
the current index with this request's epoch, and excludes the ready flag.
*Settled*, as long as the task is not aborted: the lock is taken if and only if
there is a presenter; a presenter whose copy is older than the block has a pending
note; and an unlocked turn has nothing left but an open block, or is ready. The
last part says which phases go with a completed stream. The abort is the reason
for the condition: a presenter that dies leaves the lock taken. Then

* `LoopInvariant`: `Spec => []IInv`, one lemma for the presenter's steps, on top
  of what `Finish` and `CallPresent` do to the streaming state, and one per step
  of the reader;
* `TypeCorrect`, `PresentersExclude`, `ReadyIsTrue` and `WakeupsArrive`: each
  safety property from `IInv`. `WakeupsArrive` is the one that needs all of it, and
  that a message closed with no block is `cut`;
* `AccountsInvariant`: `Spec => [](IInv /\ AInv)`. `AInv` follows answers and mistakes
  through a message. What lies behind the index is accounted for, and so is the block
  of a presenter once a tool counts as used; a rejection leaves no presenter; a result
  is of the block being presented, as long as no late result has come (`cut`); the count
  can be at its limit only after a tool was used, and the check of a tool, which may add
  one, comes before that. Hence `MistakesStayBounded`, `EveryToolAnswered`,
  `RejectionStops` and `ResultStopsOthers`.

**TurnProtocol_proof.** Each step of the loop is a step of `TurnProtocol` or a stutter.
What the handlers do between two awaits is of one shape, `Finish` or
`CallPresent` on the streaming state, so the heart of the proof is what these two
mean for the worker: `Finish` leaves a block behind or stays at it, and then goes
on as `GoesOn` has it, by taking a block, resting, or refusing all; a call by the
reader does so if there is no presenter and nothing if there is one (`Offered`). That an
unlocked turn at rest has nothing left, which the protocol asks for and the code has only
by its notes, is `Settled` of `IInv`. What `IInv` and `AInv` do not say is where the
history stands, and `PInv` does: a tool that has run is behind the index, or at it
while its presenter is still there; who works at a block shown half has not run it; and a
refused block is behind the index and has not run. Without it the worker could leave a
block after running its tool and take it again. `PlacesInvariant` proves it, relative
to `IInv` and `AInv`; `LoopKeepsTurn` is the refinement, `EitherRunOrRefused` the
invariant that a tool has not both run and been refused. With these every safety
property of the run is proved.

**TaskStack_proof.** `IInv` is the types, with the stack as a sequence of existing
instances, an operation's task being a real one, and `Reachable`: an instance that
is not aborted is on the stack. Every step is one of four changes of `clines` and
`stack` (write to an instance, push, pop, neither), and one lemma for each says it
keeps `StackOK`. `StackInvariant`, `TypeCorrect` and `LiveAreReachable` follow.
The other properties speak of orderly histories and need `OInv`: while the history is
orderly the provider is `Tidy`. At most one operation is under way; each task on
the stack was spawned by the one below it (`Linked`) and those below the top wait;
what the top may be doing depends on whether an operation is about to resume it
(`TopPlace`); and each operation knows of the stack what it needs at its place
(`OpTidy`): the one that resumes carries the task the top has spawned. A step
that makes the history disorderly has nothing to keep, so that only a user who waits
for the operation he began has to be followed. `OneRuns`, `ResultsReachParents`,
`WaitsAreAnswered` and the action property `ModeIsRestored` are read off it.

**Questions_proof.** `QInv` is the types and `Recorded`: a question is open in the
history if and only if its call of `ask` waits, one not answered has taken no
answer, a message being written is no question yet. `QuestionsInvariant` proves it;
`Implements` is the refinement of `QuestionProtocol`, one lemma per step: a step of
a question overtaken is a stutter, since it was void before, and an
answer given when nothing is open is one, since `Given` ignores the slot then.

**ChatView_proof.** `VInv` adds what the view knows: what it has shown exists, and a
message it has shown complete is complete. `QuestionCanBeAnswered` is part of it,
because with these two it is inductive. `ViewKeepsProtocol` carries the refinement
over to the composition: the view touches the task only through `Arrives`.
`UserAnswersWhatHeSees` needs to know that the user cannot answer a question twice,
which is `Once`: what he answered is in one place only, taken, in the slot, on its
way, or still to be given at the view. `AllMet` is why a rendering of a new or
completed last message does not offer a question anew: an answer exists only to a
question shown complete, and this is met once. A rendering for the message before it
may, and then marks the offer (`again`). Then an answer in the slot that is not to
the last question would be a second one to a question that has been answered (`AnswersWhatHeSees`).

**Terminals_proof.** `TInv` adds to the types: `Waiters`, the task of a command that
has not let it go on waits for it or was aborted; `SlotsAreOwn`, a slot holds a command
of its terminal. With them `BusyHasAReason` and `EndWillBeHeard` are inductive:
the task that waits cannot start another command in the terminal, so nobody but
another task puts its process out of the slot.
Whose end it is that a command hears needs `EInv`, terminal by terminal. Unless the
terminal is `Muddled` (shared, or completed late) its slot belongs to the last command
(`SlotIsLast`), and a new command finds the slot empty or its command given up. Unless
it is `Misled` as well (a command given up, an end taken from one typed by hand) what
VS Code has to run there is typed by hand or the command in the slot, and that at most
once (`QueueIsOwn`). The excuses never go away (`Excused`), so each step has to be
followed only while there is none. Hence `ExitsAreTheirOwn`, and `OutputStaysReportable`
as an action property: a slot that is overwritten has no unread output.

**McpHub_proof.** `HInv` has, besides the types with what an operation knows at each
place (`GoodOp`): `Apart`, what two operations work on is tangled; `Alone`, without overlap
at most one is under way; `Latest`, an untangled connection in the list is the last made for its
server; and `Holds`, what each operation counts on when it comes back from
its await: nothing is listed when it starts a server, what it closes has no
running process, the connection of its handshake is listed, and a disposal still has every
server to do whose process runs. `Apart` is what makes `Holds` stable: a step of another
operation changes only the servers that one works on. `Follows` says the same for
configurations. All seven properties of the run follow.

**Checkpoints_proof.** `CInv` has the types, `GoodTask` (a service that is ready has a
base, a loop that runs has asked for the service, only an error disables) and
`GoodOp` (an operation belongs to a Cline object, a save has a service, and between the
clean and the reset the workspace has no file that is not staged: this is what makes
the reset exact). `RestoresExactly` is an action
property from it, `OnlyOldestIsFirst` needs `FirstInv` besides: a Cline object that
shows a checkpoint has points, so that it marks no other one as its first.
`FromIsTheOneBefore` needs `HeadInv`: the last checkpoint that the Cline object in charge
knows of is HEAD, unless `moved` says otherwise. For its steps one must know that each
Cline object initialises once, before its own service is ready, so that a first commit
is of the object itself or moves HEAD under another's service, which `moved` notes;
that restores have a service; and that what `UpTo` leaves of the
points ends with the point restored, a fact of cardinalities.

Every safety property of the passing runs is proved. Only model-checked is liveness
(`TurnEnds`): it rests on fairness and `ENABLED`, which the prover does not handle.

## What is not modelled

* In `RequestLoop`: the request itself, its retries before the first chunk (a
  failure there is a `StreamFails` or a longer wait), token counting, what a tool
  does to the workspace.
* In `TaskStack`: a mode switch by the user while a subtask runs, a history item
  that cannot be read, and the files of a deleted task.
* In the other modules what their sections above leave out.
* File context: the lost update of its metadata file is plain from the code and in
  the list of hazards. The plan executor and the job queue belong to the planner
  server, where a job of the `/jobs` route may run a plan; they are apart from the
  extension's engine and not modelled.
* The sliding window is a function of two lines on a length, and the repair of a
  history a function on a list of messages.
* Provider adapters, prompts, settings and search have no steps that interleave with
  others; diff algorithms and the rest of the web UI are about text. They are most
  of the repository's lines.

## What could come next

1. `FileContext`: the metadata file under two tracked events and a checkpoint
   restore, and the recognition of the task's own edits.
2. `SlidingWindow`: the algorithm against a reference definition.
3. The second source of settings and the toggles in `McpHub`.
