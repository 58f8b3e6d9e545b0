----------------------------- MODULE Checkpoints -----------------------------
(***************************************************************************)
(* Checkpoints: the shadow git repository of a task (class                 *)
(* ShadowCheckpointService) and what class Cline does with it.             *)
(*                                                                         *)
(* A cancel, and so each restore, replaces the Cline object; the new one   *)
(* makes a service of its own for the same repository, while git commands  *)
(* of the old one may still be under way.  Each git command is one step:   *)
(* git locks the repository.  A tree is the set of the files in it.        *)
(***************************************************************************)
EXTENDS Naturals, Sequences, FiniteSets

CONSTANTS Files,      \* files of the workspace
          MaxTasks,   \* bound on the Cline objects of the task
          MaxCommits, \* bound on the commits
          MaxOps,     \* bound on the operations under way
          MaxFailures \* bound on the Cline objects that meet an error

ASSUME CheckpointsAssumption ==
  /\ MaxTasks \in Nat \ {0} /\ MaxCommits \in Nat
  /\ MaxOps \in Nat /\ MaxFailures \in Nat

VARIABLES workspace, \* the files there are
          commits,   \* all commits: tree and parent (0: none)
          head,      \* HEAD, 0 before the first commit
          index,     \* what is staged
          exists,    \* the .git directory is there
          tasks,     \* the Cline objects, the last one in charge
          ops,       \* operations on the repository
          messages   \* the checkpoint_saved messages of the task

repo == <<commits, head, index, exists>>
vars == <<workspace, repo, tasks, ops, messages>>

Slots == 1..MaxOps
Cur == Len(tasks)

(* An operation of a task is at                                            *)
(*   look                    initShadowGit looks for the .git directory    *)
(*   init, create, first     it makes it, stages and commits               *)
(*   open                    or opens the one that is there                *)
(*   stage, commit           saveCheckpoint                                *)
(*   wait                    a restore or (target 0) a diff waits for the  *)
(*                           service                                       *)
(*   clean, reset, cut       restoreCheckpoint, then the messages          *)
(*   asked, again            before and after it: a new Cline object       *)
(*   diff                    getDiff stages what there is                  *)
Idle == [at |-> "idle", task |-> 0, target |-> 0, last |-> 0,
         edited |-> FALSE]

Op(at, t) == [Idle EXCEPT !.at = at, !.task = t]

(* A Cline object: enableCheckpoints, its service, whether its loop runs;  *)
(* the service's baseHash and _checkpoints; history: HEAD was moved by     *)
(* something else than its saves, an error has occurred.                   *)
NewTask == [enabled |-> TRUE, service |-> "none", loop |-> FALSE, base |-> 0,
            points |-> <<>>, moved |-> FALSE, failed |-> FALSE]

Init ==
  /\ workspace = {}
  /\ commits = <<>>
  /\ head = 0
  /\ index = {}
  /\ exists = FALSE
  /\ tasks = <<NewTask>>
  /\ ops = [o \in Slots |-> Idle]
  /\ messages = <<>>

-----------------------------------------------------------------------------
Tree(c) == IF c = 0 THEN {} ELSE commits[c].tree

IsFree(o) == ops[o].at = "idle" /\ \A p \in 1..(o - 1) : ops[p].at # "idle"

Begin(op) == \E o \in Slots : IsFree(o) /\ ops' = [ops EXCEPT ![o] = op]
Goes(o, at) == ops' = [ops EXCEPT ![o].at = at]
Ends(o) == ops' = [ops EXCEPT ![o] = Idle]

Disabled(t) == [tasks EXCEPT ![t].enabled = FALSE, ![t].failed = TRUE]

(* git commit --allow-empty: a commit in any case.                         *)
CommitsAnyway ==
  /\ Len(commits) < MaxCommits
  /\ commits' = Append(commits, [tree |-> index, parent |-> head])
  /\ head' = Len(commits) + 1

(* git commit: a commit if something is staged.                            *)
Commits ==
  IF index = Tree(head) THEN UNCHANGED <<commits, head>> ELSE CommitsAnyway

(* HEAD was moved by task t: for the service of the task in charge that is *)
(* outside its saves, if t is another.                                     *)
MovedBy(t) ==
  [tasks EXCEPT ![Cur].moved = @ \/ (t # Cur /\ tasks[Cur].service = "ready")]

-----------------------------------------------------------------------------
(* getCheckpointService for the first time: the service is made and begins *)
(* initShadowGit.  (A caller that comes while that is under way gets       *)
(* nothing.)                                                               *)
Initializing(t) == [tasks EXCEPT ![t].service = "initializing"]

(* Mistaken: the loop does not ask for the service.                        *)
LoopStartsWithout(t) ==
  /\ t = Cur /\ ~tasks[t].loop
  /\ tasks' = [tasks EXCEPT ![t].loop = TRUE]
  /\ UNCHANGED <<workspace, repo, ops, messages>>

(* initiateTaskLoop.                                                       *)
LoopStarts(t) ==
  /\ t = Cur /\ ~tasks[t].loop
  /\ IF tasks[t].enabled /\ tasks[t].service = "none"
     THEN /\ tasks' = [Initializing(t) EXCEPT ![t].loop = TRUE]
          /\ Begin(Op("look", t))
     ELSE tasks' = [tasks EXCEPT ![t].loop = TRUE] /\ UNCHANGED ops
  /\ UNCHANGED <<workspace, repo, messages>>

(* The test for the .git directory.  What it finds may be old when it is   *)
(* used: two Cline objects may both make the repository.                   *)
Looked(o) ==
  /\ ops[o].at = "look"
  /\ Goes(o, IF exists THEN "open" ELSE "init")
  /\ UNCHANGED <<workspace, repo, tasks, messages>>

(* git init, which does no harm to a repository that is there, and its     *)
(* configuration: until that and the first commit, opening it fails.       *)
Made(o) ==
  /\ ops[o].at = "init"
  /\ exists' = TRUE
  /\ Goes(o, "create")
  /\ UNCHANGED <<workspace, commits, head, index, tasks, messages>>

(* initShadowGit is over: the "initialize" handler saves a first           *)
(* checkpoint if none is shown.                                            *)
Ready(o, base, ts) ==
  LET t == ops[o].task IN
  /\ tasks' = [ts EXCEPT ![t].service = "ready", ![t].base = base]
  /\ ops' = [ops EXCEPT ![o] = IF messages = <<>> THEN Op("stage", t) ELSE Idle]

(* Mistaken: the base is what HEAD was before the commit.                  *)
CreatedOnHead(o) ==
  /\ ops[o].at = "first"
  /\ CommitsAnyway
  /\ Ready(o, head, MovedBy(ops[o].task))
  /\ UNCHANGED <<workspace, index, exists, messages>>

(* The "initial commit" is the first, unless another Cline object has made *)
(* the repository too.                                                     *)
Created(o) ==
  /\ ops[o].at = "first"
  /\ CommitsAnyway
  /\ Ready(o, head', MovedBy(ops[o].task))
  /\ UNCHANGED <<workspace, index, exists, messages>>

(* Mistaken: the base is the first commit, not the last.                   *)
OpenedAtRoot(o) ==
  /\ ops[o].at = "open"
  /\ IF head = 0 THEN tasks' = Disabled(ops[o].task) /\ Ends(o)
     ELSE Ready(o, 1, tasks)
  /\ UNCHANGED <<workspace, repo, messages>>

Opened(o) ==
  /\ ops[o].at = "open"
  /\ IF head = 0 THEN tasks' = Disabled(ops[o].task) /\ Ends(o)
     ELSE Ready(o, head, tasks)
  /\ UNCHANGED <<workspace, repo, messages>>

(* stageAll of a new repository, of a save and of getDiff: it goes on when *)
(* git add fails.                                                          *)
StageAll(o) ==
  /\ ops[o].at \in {"create", "stage", "diff"}
  /\ index' \in {workspace, index}
  /\ CASE ops[o].at = "create" -> Goes(o, "first")
       [] ops[o].at = "stage" -> Goes(o, "commit")
       [] OTHER -> Ends(o)
  /\ UNCHANGED <<workspace, commits, head, exists, tasks, messages>>

-----------------------------------------------------------------------------
(* checkpointSave, by the presenter after an edit.  (A tool that ends after *)
(* the abort of its task may still call it: as if it had called before and *)
(* git had taken its time.)                                                *)
CheckpointSave(t) ==
  /\ t = Cur /\ tasks[t].loop /\ tasks[t].enabled /\ tasks[t].service # "initializing"
  /\ IF tasks[t].service = "ready"
     THEN Begin(Op("stage", t)) /\ UNCHANGED tasks
     ELSE /\ tasks' = [tasks EXCEPT ![t].enabled = FALSE]
          /\ UNCHANGED ops
  /\ UNCHANGED <<workspace, repo, messages>>

(* Mistaken: whether it is the first was seen when the save began.         *)
CommittedAsBegun(o) ==
  LET t == ops[o].task
      from == IF tasks[t].points = <<>> THEN tasks[t].base
              ELSE tasks[t].points[Len(tasks[t].points)]
      made == head' # head
      to == IF made THEN head' ELSE from IN
  /\ ops[o].at = "commit" /\ t = Cur
  /\ Commits
  /\ tasks' = [tasks EXCEPT ![t].points = Append(@, to)]
  /\ messages' = Append(messages, [from |-> from, to |-> to, by |-> t,
                                   first |-> Len(tasks[t].points) < 2,
                                   moved |-> tasks[t].moved])
  /\ Ends(o)
  /\ UNCHANGED <<workspace, index, exists>>

(* The commit of saveCheckpoint and the "checkpoint" event.  say throws in *)
(* a task that is aborted, and what such a task puts into _checkpoints     *)
(* has no effect.  (A checkpoint repeated in _checkpoints is left out.)    *)
Committed(o) ==
  LET t == ops[o].task
      first == tasks[t].points = <<>>
      from == IF first THEN tasks[t].base ELSE tasks[t].points[Len(tasks[t].points)]
      made == head' # head
      to == IF made THEN head' ELSE from IN
  /\ ops[o].at = "commit"
  /\ Commits
  /\ tasks' = IF t # Cur THEN (IF made THEN MovedBy(t) ELSE tasks)
              ELSE [tasks EXCEPT
                     ![t].points = IF ~first /\ to = from THEN @ ELSE Append(@, to),
                     ![t].moved = @ /\ ~made]
  /\ messages' = IF (first \/ made) /\ t = Cur
                 THEN Append(messages, [from |-> from, to |-> to, by |-> t,
                                        first |-> first,
                                        moved |-> tasks[t].moved])
                 ELSE messages
  /\ Ends(o)
  /\ UNCHANGED <<workspace, index, exists>>

(* A git command fails: checkpoints are off for the task.  One of getDiff  *)
(* may have staged before.                                                 *)
Fails(o) ==
  /\ ops[o].at \in {"look", "init", "first", "open", "commit", "clean",
                    "reset", "diff"}
  /\ Cardinality({t \in 1..Cur : tasks[t].failed}) < MaxFailures
  /\ index' \in {index} \cup (IF ops[o].at = "diff" THEN {workspace} ELSE {})
  /\ tasks' = Disabled(ops[o].task)
  /\ Ends(o)
  /\ UNCHANGED <<workspace, commits, head, exists, messages>>

-----------------------------------------------------------------------------
(* The current Cline object is replaced.  (What it knows of the repository *)
(* has no effect any more.)                                                *)
Replaced ==
  /\ Cur < MaxTasks
  /\ tasks' = Append([tasks EXCEPT ![Cur].points = <<>>, ![Cur].moved = FALSE],
                     NewTask)

(* cancelTask, by the user.                                                *)
CancelTask ==
  /\ Replaced
  /\ UNCHANGED <<workspace, repo, ops, messages>>

(* The view asks for a restore of the i-th message: cancelTask first.      *)
AskForRestore(i) ==
  /\ Replaced
  /\ Begin([Op("asked", Cur + 1) EXCEPT !.target = messages[i].to, !.last = i])
  /\ UNCHANGED <<workspace, repo, messages>>

(* With the service there a diff begins; a restore looks for the message   *)
(* of its checkpoint before anything is done.                              *)
Proceeds(op) ==
  IF op.target = 0 THEN [op EXCEPT !.at = "diff"]
  ELSE IF op.last \in DOMAIN messages THEN [op EXCEPT !.at = "clean"] ELSE Idle

(* checkpointRestore of the task that is in charge by then:                *)
(* getInitializedCheckpointService.                                        *)
CheckpointRestore(o) ==
  LET op == [ops[o] EXCEPT !.task = Cur] IN
  /\ ops[o].at = "asked"
  /\ IF tasks[Cur].enabled /\ tasks[Cur].service = "none"
     THEN /\ tasks' = Initializing(Cur)
          /\ \E p \in Slots :
               /\ IsFree(p)
               /\ ops' = [ops EXCEPT ![o] = [op EXCEPT !.at = "wait"],
                            ![p] = Op("look", Cur)]
     ELSE IF tasks[Cur].enabled /\ tasks[Cur].service = "ready"
     THEN ops' = [ops EXCEPT ![o] = Proceeds(op)] /\ UNCHANGED tasks
     ELSE Ends(o) /\ UNCHANGED tasks
  /\ UNCHANGED <<workspace, repo, messages>>

(* The service is there, or it is not within 15 seconds.                   *)
Waited(o) ==
  /\ ops[o].at = "wait"
  /\ ops' = [ops EXCEPT ![o] =
       IF tasks[ops[o].task].service = "ready" THEN Proceeds(ops[o]) ELSE Idle]
  /\ UNCHANGED <<workspace, repo, tasks, messages>>

(* Mistaken: what is not tracked stays.                                    *)
CleanNothing(o) ==
  /\ ops[o].at = "clean"
  /\ Goes(o, "reset")
  /\ UNCHANGED <<workspace, repo, tasks, messages>>

(* git clean removes what is not tracked.                                  *)
Clean(o) ==
  /\ ops[o].at = "clean"
  /\ workspace' = workspace \cap index
  /\ Goes(o, "reset")
  /\ UNCHANGED <<repo, tasks, messages>>

(* The points up to the first c, if it is one of them.                     *)
UpTo(points, c) ==
  SubSeq(points, 1, Cardinality({n \in DOMAIN points :
                                   \A m \in 1..(n - 1) : points[m] # c}))

(* git reset --hard, and what is left of _checkpoints.                     *)
Reset(o) ==
  LET t == ops[o].task
      c == ops[o].target IN
  /\ ops[o].at = "reset"
  /\ workspace' = (workspace \ index) \cup Tree(c)
  /\ index' = Tree(c)
  /\ head' = c
  /\ tasks' = IF t # Cur THEN MovedBy(t)
              ELSE [tasks EXCEPT
                     ![t].points = UpTo(@, c),
                     ![t].moved = @ \/ (\A n \in DOMAIN tasks[t].points :
                                         tasks[t].points[n] # c)]
  /\ \E at \in {"cut", "again"} : Goes(o, at)
  /\ UNCHANGED <<commits, exists, messages>>

UpToMessage(i) ==
  IF i < Len(messages) THEN SubSeq(messages, 1, i) ELSE messages

(* In mode "restore" the messages after the checkpoint's are dropped.  An  *)
(* aborted task overwrites their file too, which the Cline object after it *)
(* may have read already, and fails at the say that follows.               *)
Cut(o) ==
  /\ ops[o].at = "cut"
  /\ \/ /\ ops[o].task = Cur
        /\ messages' = UpToMessage(ops[o].last)
        /\ Goes(o, "again")
        /\ UNCHANGED tasks
     \/ /\ ops[o].task # Cur
        /\ messages' \in {messages, UpToMessage(ops[o].last)}
        /\ tasks' = Disabled(ops[o].task)
        /\ Ends(o)
  /\ UNCHANGED <<workspace, repo>>

(* The task is cancelled once more.                                        *)
CancelAgain(o) ==
  /\ ops[o].at = "again"
  /\ Replaced
  /\ Ends(o)
  /\ UNCHANGED <<workspace, repo, messages>>

(* checkpointDiff: the service is there, or it is the first to need it.    *)
CheckpointDiff(t) ==
  /\ t = Cur /\ tasks[t].enabled
  /\ \/ /\ tasks[t].service = "ready"
        /\ Begin(Op("diff", t))
        /\ UNCHANGED tasks
     \/ /\ tasks[t].service = "none"
        /\ tasks' = Initializing(t)
        /\ \E o, p \in Slots :
             /\ o < p /\ ops[o].at = "idle" /\ ops[p].at = "idle"
             /\ ops' = [ops EXCEPT ![o] = Op("look", t), ![p] = Op("wait", t)]
  /\ UNCHANGED <<workspace, repo, messages>>

(* A tool or the user makes or removes a file.                             *)
Edit(f) ==
  /\ workspace' = IF f \in workspace THEN workspace \ {f} ELSE workspace \cup {f}
  /\ ops' = [o \in Slots |-> [ops[o] EXCEPT !.edited = ops[o].at = "reset"]]
  /\ UNCHANGED <<repo, tasks, messages>>

-----------------------------------------------------------------------------
OpStep(o) ==
  \/ Looked(o) \/ Made(o) \/ Created(o) \/ Opened(o)
  \/ StageAll(o) \/ Committed(o) \/ Fails(o)
  \/ CheckpointRestore(o) \/ Waited(o) \/ Clean(o) \/ Reset(o) \/ Cut(o)
  \/ CancelAgain(o)

Next ==
  \/ \E o \in Slots : OpStep(o)
  \/ \E t \in 1..Cur : LoopStarts(t) \/ CheckpointSave(t) \/ CheckpointDiff(t)
  \/ \E i \in DOMAIN messages : AskForRestore(i)
  \/ \E f \in Files : Edit(f)
  \/ CancelTask

Spec == Init /\ [][Next]_vars

-----------------------------------------------------------------------------
Commit == 0..Len(commits)

TypeOK ==
  /\ workspace \subseteq Files /\ index \subseteq Files
  /\ \A c \in 1..Len(commits) :
       commits[c].tree \subseteq Files /\ commits[c].parent \in 0..(c - 1)
  /\ head \in Commit /\ exists \in BOOLEAN
  /\ \A t \in 1..Cur :
       /\ tasks[t].service \in {"none", "initializing", "ready"}
       /\ tasks[t].service = "ready" => tasks[t].base \in Commit \ {0}
       /\ \A n \in DOMAIN tasks[t].points : tasks[t].points[n] \in Commit \ {0}
  /\ \A o \in Slots : ops[o].at # "idle" => ops[o].task \in 1..Cur
  /\ \A i \in DOMAIN messages : {messages[i].from, messages[i].to} \subseteq Commit

(* A restore brings back the workspace of its checkpoint, no more and no   *)
(* less, whatever has been staged meanwhile by a diff or by a save of this *)
(* task or of an old one; only an edit between its two git commands may    *)
(* stay.                                                                   *)
RestoreIsExact ==
  [][\A o \in Slots :
       ops[o].at = "reset" /\ ~ops[o].edited /\ head' = ops[o].target
         /\ ops'[o].at \in {"cut", "again"}
       => workspace' = Tree(ops[o].target)]_vars

(* The changes shown for a checkpoint are those since the one before it:   *)
(* `from` is the parent of `to` (or both are the first), unless HEAD has   *)
(* been moved by a commit of an old task (a save, or the first one of a    *)
(* repository that both found missing) or by a restore to a checkpoint     *)
(* that the service has not made itself.                                   *)
FromIsParent ==
  \A i \in DOMAIN messages :
    LET m == messages[i] IN
    m.moved \/ m.to = m.from \/ commits[m.to].parent = m.from

(* Of the checkpoints one Cline object has saved and shows at most the     *)
(* oldest is marked as the first, though the presenter and the             *)
(* "initialize" handler may both be saving it.                             *)
OneFirst ==
  \A i, j \in DOMAIN messages :
    messages[i].first /\ messages[i].by = messages[j].by => i <= j

(* Checkpoints are turned off for a task by errors only: no save comes     *)
(* before the service has been asked for, or gets one not yet there.       *)
DisabledByErrorOnly ==
  \A t \in 1..Cur : ~tasks[t].enabled => tasks[t].failed
=============================================================================
