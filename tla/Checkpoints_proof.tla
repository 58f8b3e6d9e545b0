--------------------------- MODULE Checkpoints_proof ---------------------------
(***************************************************************************)
(* Proofs about Checkpoints, for any number of Cline objects, commits and  *)
(* operations under way: types, a restore brings back its checkpoint,      *)
(* checkpoints are turned off by errors only, only the oldest one that a   *)
(* Cline object shows is marked as its first, and each is compared with    *)
(* the one before it.                                                      *)
(***************************************************************************)
EXTENDS Checkpoints, SequenceTheorems, FiniteSetTheorems, TLAPS

(* What the state consists of while there are n commits.                   *)
CommitType == [tree : SUBSET Files, parent : Nat]

TaskType(n) ==
  [enabled : BOOLEAN, service : {"none", "initializing", "ready"},
   loop : BOOLEAN, base : 0..n, points : Seq(1..n), moved : BOOLEAN,
   failed : BOOLEAN]

OpPlaces == {"idle", "look", "init", "create", "first", "open", "stage",
             "commit", "wait", "clean", "reset", "cut", "asked", "again", "diff"}

OpType(n) == [at : OpPlaces, task : Nat, target : 0..n, last : Nat,
              edited : BOOLEAN]

MessageType(n) == [from : 0..n, to : 0..n, by : Nat, first : BOOLEAN,
                   moved : BOOLEAN]

RepoTypes ==
  /\ workspace \subseteq Files /\ index \subseteq Files
  /\ commits \in Seq(CommitType)
  /\ \A c \in 1..Len(commits) : commits[c].parent < c
  /\ head \in 0..Len(commits) /\ exists \in BOOLEAN

Types ==
  /\ RepoTypes
  /\ tasks \in Seq(TaskType(Len(commits))) /\ Cur >= 1
  /\ ops \in [Slots -> OpType(Len(commits))]
  /\ messages \in Seq(MessageType(Len(commits)))

(* A service that is ready has a base, and the loop asks for it; only an   *)
(* error turns checkpoints off.                                            *)
GoodTask(r) ==
  /\ r.service = "ready" => r.base # 0
  /\ r.loop /\ r.enabled => r.service # "none"
  /\ ~r.enabled => r.failed

(* An operation belongs to a Cline object; a save has a service; and before *)
(* a reset all that is not tracked has been removed.                       *)
GoodOp(op) ==
  /\ op.at # "idle" => op.task \in 1..Cur
  /\ op.at \in {"stage", "commit"} => tasks[op.task].service = "ready"
  /\ op.at = "reset" /\ ~op.edited => workspace \subseteq index

CInv ==
  /\ Types
  /\ \A t \in 1..Cur : GoodTask(tasks[t])
  /\ \A o \in Slots : GoodOp(ops[o])

-----------------------------------------------------------------------------
(* Types.                                                                  *)

LEMMA TypesGive ==
  ASSUME Types
  PROVE  /\ Len(commits) \in Nat /\ Cur \in Nat /\ Cur \in 1..Cur
         /\ DOMAIN tasks = 1..Cur
         /\ \A t \in 1..Cur : tasks[t] \in TaskType(Len(commits))
         /\ \A o \in Slots : ops[o] \in OpType(Len(commits))
         /\ \A i \in DOMAIN messages : messages[i] \in MessageType(Len(commits))
<1>1. /\ Len(commits) \in Nat /\ Cur \in Nat /\ Cur \in 1..Cur
      /\ DOMAIN tasks = 1..Cur
  BY LenProperties DEF Types, RepoTypes, Cur
<1>2. \A t \in 1..Cur : tasks[t] \in TaskType(Len(commits))
  BY ElementOfSeq DEF Types, Cur
<1>3. \A o \in Slots : ops[o] \in OpType(Len(commits))
  BY DEF Types
<1>4. \A i \in DOMAIN messages : messages[i] \in MessageType(Len(commits))
  BY ElementOfSeq, LenProperties DEF Types
<1> QED BY <1>1, <1>2, <1>3, <1>4

LEMMA SeqGrows ==
  ASSUME NEW S, NEW T, S \subseteq T
  PROVE  Seq(S) \subseteq Seq(T)
BY SeqDef

\* With one more commit everything keeps its type.
LEMMA TypesGrow ==
  ASSUME NEW n \in Nat
  PROVE  /\ TaskType(n) \subseteq TaskType(n + 1)
         /\ OpType(n) \subseteq OpType(n + 1)
         /\ MessageType(n) \subseteq MessageType(n + 1)
         /\ Seq(TaskType(n)) \subseteq Seq(TaskType(n + 1))
         /\ Seq(MessageType(n)) \subseteq Seq(MessageType(n + 1))
<1>1. Seq(1..n) \subseteq Seq(1..(n + 1))
  BY SeqGrows
<1>2. TaskType(n) \subseteq TaskType(n + 1)
  BY <1>1 DEF TaskType
<1>3. OpType(n) \subseteq OpType(n + 1)
  BY DEF OpType
<1>4. MessageType(n) \subseteq MessageType(n + 1)
  BY DEF MessageType
<1> QED BY <1>2, <1>3, <1>4, SeqGrows

LEMMA TreeIs ==
  ASSUME Types, NEW c \in 0..Len(commits)
  PROVE  Tree(c) \subseteq Files
<1>1. CASE c = 0
  BY <1>1 DEF Tree
<1>2. CASE c # 0
  <2>1. c \in 1..Len(commits) /\ commits \in Seq(CommitType)
    BY <1>2, TypesGive DEF Types, RepoTypes
  <2>2. commits[c] \in CommitType
    BY <2>1, ElementOfSeq
  <2> QED BY <1>2, <2>2 DEF Tree, CommitType
<1> QED BY <1>1, <1>2

LEMMA IdleIs ==
  ASSUME NEW n \in Nat
  PROVE  Idle \in OpType(n) /\ Idle.at = "idle"
<1>1. 0 \in 0..n /\ 0 \in Nat /\ "idle" \in OpPlaces
  BY DEF OpPlaces
<1> QED BY <1>1 DEF Idle, OpType

LEMMA OpIsOp ==
  ASSUME NEW n \in Nat, NEW at \in OpPlaces, NEW t \in Nat
  PROVE  /\ Op(at, t) \in OpType(n) /\ Op(at, t).at = at /\ Op(at, t).task = t
         /\ Op(at, t).edited = FALSE
<1>1. 0 \in 0..n /\ 0 \in Nat
  OBVIOUS
<1>2. /\ Op(at, t).at = at /\ Op(at, t).task = t /\ Op(at, t).edited = FALSE
  BY DEF Idle, Op
<1>3. Op(at, t) \in OpType(n)
  BY <1>1, IdleIs DEF Op, OpType
<1> QED BY <1>2, <1>3

LEMMA Places ==
  /\ "idle" \in OpPlaces /\ "create" \in OpPlaces /\ "first" \in OpPlaces
  /\ "open" \in OpPlaces /\ "stage" \in OpPlaces /\ "commit" \in OpPlaces
  /\ "wait" \in OpPlaces /\ "clean" \in OpPlaces /\ "reset" \in OpPlaces
  /\ "cut" \in OpPlaces /\ "asked" \in OpPlaces /\ "again" \in OpPlaces
  /\ "diff" \in OpPlaces /\ "look" \in OpPlaces /\ "init" \in OpPlaces
BY DEF OpPlaces

LEMMA TypesImplyTypeOK == CInv => TypeOK
<1> SUFFICES ASSUME CInv PROVE TypeOK
  OBVIOUS
<1> DEFINE n == Len(commits)
<1>1. /\ Types /\ n \in Nat
      /\ workspace \subseteq Files /\ index \subseteq Files
      /\ head \in Commit /\ exists \in BOOLEAN /\ commits \in Seq(CommitType)
  BY TypesGive DEF CInv, Types, RepoTypes, Commit
<1>2. ASSUME NEW c \in 1..n
      PROVE  commits[c].tree \subseteq Files /\ commits[c].parent \in 0..(c - 1)
  <2>1. commits[c] \in CommitType /\ commits[c].parent < c
    BY <1>1, ElementOfSeq DEF Types, RepoTypes
  <2> QED BY <2>1 DEF CommitType
<1>3. ASSUME NEW t \in 1..Cur
      PROVE  /\ tasks[t].service \in {"none", "initializing", "ready"}
             /\ tasks[t].service = "ready" => tasks[t].base \in Commit \ {0}
             /\ \A k \in DOMAIN tasks[t].points : tasks[t].points[k] \in Commit \ {0}
  <2>1. tasks[t] \in TaskType(n) /\ GoodTask(tasks[t])
    BY <1>1, TypesGive DEF CInv
  <2>2. /\ tasks[t].service \in {"none", "initializing", "ready"}
        /\ tasks[t].base \in 0..n /\ tasks[t].points \in Seq(1..n)
    BY <2>1 DEF TaskType
  <2>3. ASSUME NEW k \in DOMAIN tasks[t].points
        PROVE  tasks[t].points[k] \in 1..n
    BY <2>2, <2>3, LenProperties, ElementOfSeq
  <2> QED BY <2>1, <2>2, <2>3 DEF Commit, GoodTask
<1>4. ASSUME NEW i \in DOMAIN messages
      PROVE  {messages[i].from, messages[i].to} \subseteq Commit
  <2>1. messages[i] \in MessageType(n)
    BY <1>1, TypesGive
  <2> QED BY <2>1 DEF MessageType, Commit
<1>5. \A o \in Slots : ops[o].at # "idle" => ops[o].task \in 1..Cur
  BY DEF CInv, GoodOp
<1> QED BY <1>1, <1>2, <1>3, <1>4, <1>5 DEF TypeOK

-----------------------------------------------------------------------------
(* What steps do to the Cline objects and to the operations.               *)

(* No Cline object is lost, and no service.                                *)
Evolves ==
  /\ Cur' \in Nat /\ Cur' >= Cur
  /\ \A t \in 1..Cur : tasks[t].service = "ready" => tasks'[t].service = "ready"

\* One Cline object is changed.
LEMMA TaskSet ==
  ASSUME CInv, NEW n \in Nat, n = Len(commits) \/ n = Len(commits) + 1,
         NEW t \in 1..Cur, NEW r \in TaskType(n),
         tasks' = [tasks EXCEPT ![t] = r], GoodTask(r),
         tasks[t].service = "ready" => r.service = "ready"
  PROVE  /\ tasks' \in Seq(TaskType(n)) /\ Cur' = Cur /\ Cur \in Nat /\ Evolves
         /\ \A u \in 1..Cur : tasks'[u] = IF u = t THEN r ELSE tasks[u]
         /\ \A u \in 1..Cur' : GoodTask(tasks'[u])
<1>1. tasks \in Seq(TaskType(n)) /\ Cur \in Nat
  BY TypesGive, TypesGrow DEF CInv, Types
<1>2. /\ tasks' \in Seq(TaskType(n)) /\ Len(tasks') = Cur
      /\ \A u \in 1..Cur : tasks'[u] = IF u = t THEN r ELSE tasks[u]
  BY <1>1, ExceptSeq DEF Cur
<1>3. Cur' = Cur
  BY <1>2 DEF Cur
<1>4. \A u \in 1..Cur' : GoodTask(tasks'[u])
  BY <1>2, <1>3 DEF CInv
<1>5. Evolves
  BY <1>1, <1>2, <1>3 DEF Evolves
<1> QED BY <1>1, <1>2, <1>3, <1>4, <1>5

\* None is changed.
LEMMA TasksSame ==
  ASSUME CInv, NEW n \in Nat, n = Len(commits) \/ n = Len(commits) + 1,
         tasks' = tasks
  PROVE  /\ tasks' \in Seq(TaskType(n)) /\ Cur' = Cur /\ Evolves
         /\ \A u \in 1..Cur' : GoodTask(tasks'[u])
BY TypesGive, TypesGrow DEF CInv, Types, Evolves, Cur

\* The one in charge is replaced.
LEMMA ReplacedIs ==
  ASSUME CInv, Replaced
  PROVE  /\ tasks' \in Seq(TaskType(Len(commits))) /\ Evolves /\ Cur' = Cur + 1
         /\ \A u \in 1..Cur' : GoodTask(tasks'[u])
<1> DEFINE n == Len(commits)
           r == [tasks[Cur] EXCEPT !.points = <<>>, !.moved = FALSE]
           s == [tasks EXCEPT ![Cur] = r]
<1>1. /\ Cur \in Nat /\ Cur \in 1..Cur /\ tasks \in Seq(TaskType(n)) /\ n \in Nat
      /\ tasks[Cur] \in TaskType(n) /\ DOMAIN tasks = 1..Cur
      /\ GoodTask(tasks[Cur])
  BY TypesGive DEF CInv, Types
<1>2. /\ r \in TaskType(n) /\ r.service = tasks[Cur].service /\ GoodTask(r)
  <2>1. <<>> \in Seq(1..n)
    BY EmptySeq
  <2>2. /\ r \in TaskType(n) /\ r.service = tasks[Cur].service
        /\ r.base = tasks[Cur].base /\ r.loop = tasks[Cur].loop
        /\ r.enabled = tasks[Cur].enabled /\ r.failed = tasks[Cur].failed
    BY <1>1, <2>1 DEF TaskType
  <2> QED BY <1>1, <2>2 DEF GoodTask
<1>3. NewTask \in TaskType(n) /\ GoodTask(NewTask)
  <2>1. <<>> \in Seq(1..n)
    BY EmptySeq
  <2> QED BY <1>1, <2>1 DEF NewTask, TaskType, GoodTask
<1>4. tasks' = Append(s, NewTask)
  BY <1>1 DEF Replaced
<1> HIDE DEF r
<1>5. /\ s \in Seq(TaskType(n)) /\ Len(s) = Cur
      /\ \A u \in 1..Cur : s[u] = IF u = Cur THEN r ELSE tasks[u]
  BY <1>1, <1>2, ExceptSeq DEF Cur
<1> HIDE DEF s
<1>6. /\ tasks' \in Seq(TaskType(n)) /\ Len(tasks') = Cur + 1
      /\ \A u \in 1..Cur : tasks'[u] = s[u]
      /\ tasks'[Cur + 1] = NewTask
  BY <1>3, <1>4, <1>5, AppendProperties
<1>7. Cur' = Cur + 1
  BY <1>6 DEF Cur
<1>8. ASSUME NEW u \in 1..Cur' PROVE GoodTask(tasks'[u])
  <2>1. CASE u = Cur + 1
    BY <2>1, <1>3, <1>6
  <2>2. CASE u # Cur + 1
    <3>1. u \in 1..Cur
      BY <1>1, <1>7, <2>2
    <3> QED BY <3>1, <1>2, <1>5, <1>6 DEF CInv
  <2> QED BY <2>1, <2>2
<1>9. Evolves
  BY <1>1, <1>2, <1>5, <1>6, <1>7 DEF Evolves
<1> QED BY <1>6, <1>7, <1>8, <1>9

\* Operations that stay where they are stay good.
LEMMA OpsStay ==
  ASSUME CInv, Evolves, workspace \subseteq index => workspace' \subseteq index',
         NEW o \in Slots
  PROVE  /\ ops[o].at # "idle" => ops[o].task \in 1..Cur'
         /\ ops[o].at \in {"stage", "commit"} => tasks'[ops[o].task].service = "ready"
         /\ ops[o].at = "reset" /\ ~ops[o].edited => workspace' \subseteq index'
BY TypesGive DEF CInv, GoodOp, Evolves

\* One operation is changed.
LEMMA OpSet ==
  ASSUME CInv, Evolves, NEW n \in Nat, n = Len(commits) \/ n = Len(commits) + 1,
         workspace \subseteq index => workspace' \subseteq index',
         NEW o \in Slots, NEW op \in OpType(n), ops' = [ops EXCEPT ![o] = op],
         op.at # "idle" => op.task \in 1..Cur',
         op.at \in {"stage", "commit"} => tasks'[op.task].service = "ready",
         op.at = "reset" /\ ~op.edited => workspace' \subseteq index'
  PROVE  /\ ops' \in [Slots -> OpType(n)]
         /\ \A p \in Slots : GoodOp(ops[p])'
         /\ \A p \in Slots : ops'[p] = IF p = o THEN op ELSE ops[p]
<1>1. ops \in [Slots -> OpType(n)]
  BY TypesGive, TypesGrow DEF CInv, Types
<1>2. /\ ops' \in [Slots -> OpType(n)]
      /\ \A p \in Slots : ops'[p] = IF p = o THEN op ELSE ops[p]
  BY <1>1
<1>3. ASSUME NEW p \in Slots PROVE GoodOp(ops[p])'
  BY <1>2, OpsStay DEF GoodOp
<1> QED BY <1>2, <1>3

\* None is changed.
LEMMA OpsSame ==
  ASSUME CInv, Evolves, NEW n \in Nat, n = Len(commits) \/ n = Len(commits) + 1,
         workspace \subseteq index => workspace' \subseteq index', ops' = ops
  PROVE  ops' \in [Slots -> OpType(n)] /\ \A p \in Slots : GoodOp(ops[p])'
<1>1. ops \in [Slots -> OpType(n)]
  BY TypesGive, TypesGrow DEF CInv, Types
<1> QED BY <1>1, OpsStay DEF GoodOp

\* An operation begins, in the first free slot.
LEMMA Begins ==
  ASSUME CInv, Evolves, NEW op \in OpType(Len(commits)), Begin(op),
         workspace \subseteq index => workspace' \subseteq index',
         op.at # "idle" => op.task \in 1..Cur',
         op.at \in {"stage", "commit"} => tasks'[op.task].service = "ready",
         op.at # "reset"
  PROVE  ops' \in [Slots -> OpType(Len(commits))] /\ \A p \in Slots : GoodOp(ops[p])'
<1>1. PICK o \in Slots : ops' = [ops EXCEPT ![o] = op]
  BY DEF Begin
<1> QED BY <1>1, OpSet, TypesGive DEF CInv

\* A step that makes no commit.
LEMMA NoCommit ==
  ASSUME CInv, commits' = commits, Evolves,
         workspace' \subseteq Files, index' \subseteq Files,
         head' \in 0..Len(commits), exists' \in BOOLEAN,
         tasks' \in Seq(TaskType(Len(commits))),
         \A u \in 1..Cur' : GoodTask(tasks'[u]),
         ops' \in [Slots -> OpType(Len(commits))],
         \A p \in Slots : GoodOp(ops[p])',
         messages' \in Seq(MessageType(Len(commits)))
  PROVE  CInv'
<1>1. RepoTypes'
  BY DEF CInv, Types, RepoTypes
<1>2. Cur' >= 1
  BY TypesGive DEF CInv, Types, Evolves
<1>3. Types'
  BY <1>1, <1>2 DEF Types
<1> QED BY <1>3 DEF CInv

\* What the types say of what such a step leaves alone.
LEMMA RepoKept ==
  ASSUME CInv
  PROVE  /\ workspace \subseteq Files /\ index \subseteq Files
         /\ head \in 0..Len(commits) /\ exists \in BOOLEAN
         /\ messages \in Seq(MessageType(Len(commits)))
         /\ commits \in Seq(CommitType)
BY DEF CInv, Types, RepoTypes

-----------------------------------------------------------------------------
(* Steps of the Cline objects.                                             *)

\* The service of a Cline object is asked for.
LEMMA InitializingIs ==
  ASSUME CInv, NEW t \in 1..Cur, tasks[t].service = "none", NEW loop \in BOOLEAN,
         tasks' = [Initializing(t) EXCEPT ![t].loop = loop]
  PROVE  /\ tasks' \in Seq(TaskType(Len(commits))) /\ Cur' = Cur /\ Evolves
         /\ \A u \in 1..Cur' : GoodTask(tasks'[u])
         /\ \A u \in 1..Cur : u # t => tasks'[u] = tasks[u]
         /\ tasks'[t].service = "initializing" /\ tasks'[t].points = tasks[t].points
<1> DEFINE n == Len(commits)
           r == [tasks[t] EXCEPT !.service = "initializing", !.loop = loop]
<1>1. /\ n \in Nat /\ tasks[t] \in TaskType(n) /\ GoodTask(tasks[t])
      /\ DOMAIN tasks = 1..Cur
  BY TypesGive DEF CInv
<1>2. /\ r \in TaskType(n) /\ r.service = "initializing"
      /\ r.enabled = tasks[t].enabled /\ r.failed = tasks[t].failed
      /\ r.points = tasks[t].points
  BY <1>1 DEF TaskType
<1>3. GoodTask(r)
  BY <1>1, <1>2 DEF GoodTask
<1>4. tasks' = [tasks EXCEPT ![t] = r]
  BY <1>1 DEF Initializing
<1> HIDE DEF r
<1>5. /\ tasks' \in Seq(TaskType(n)) /\ Cur' = Cur /\ Evolves
      /\ \A u \in 1..Cur : tasks'[u] = IF u = t THEN r ELSE tasks[u]
      /\ \A u \in 1..Cur' : GoodTask(tasks'[u])
  BY <1>1, <1>2, <1>3, <1>4, TaskSet
<1> QED BY <1>2, <1>5

\* The same, where the loop is left alone.
LEMMA InitializingOnly ==
  ASSUME CInv, NEW t \in 1..Cur
  PROVE  Initializing(t) = [Initializing(t) EXCEPT ![t].loop = tasks[t].loop]
<1>1. tasks[t] \in TaskType(Len(commits)) /\ DOMAIN tasks = 1..Cur
  BY TypesGive DEF CInv
<1> DEFINE r == [tasks[t] EXCEPT !.service = "initializing"]
<1>2. [r EXCEPT !.loop = tasks[t].loop] = r
  BY <1>1 DEF TaskType
<1>3. Initializing(t) = [tasks EXCEPT ![t] = r]
  BY <1>1 DEF Initializing
<1> HIDE DEF r
<1>4. [[tasks EXCEPT ![t] = r] EXCEPT ![t].loop = tasks[t].loop]
        = [tasks EXCEPT ![t] = [r EXCEPT !.loop = tasks[t].loop]]
  BY <1>1
<1> QED BY <1>2, <1>3, <1>4

LEMMA LoopKeeps == ASSUME CInv, NEW t \in 1..Cur, LoopStarts(t) PROVE CInv'
<1> DEFINE n == Len(commits)
<1>1. /\ n \in Nat /\ Cur \in Nat /\ tasks[t] \in TaskType(n) /\ GoodTask(tasks[t])
      /\ DOMAIN tasks = 1..Cur /\ t \in Nat
  BY TypesGive DEF CInv
<1>2. UNCHANGED <<workspace, repo, messages>>
  BY DEF LoopStarts
<1>3. CASE /\ tasks[t].service = "none" /\ Begin(Op("look", t))
           /\ tasks' = [Initializing(t) EXCEPT ![t].loop = TRUE]
  <2>1. /\ tasks' \in Seq(TaskType(n)) /\ Cur' = Cur /\ Evolves
        /\ \A u \in 1..Cur' : GoodTask(tasks'[u])
    BY <1>3, InitializingIs
  <2>2. /\ Op("look", t) \in OpType(n) /\ Op("look", t).at = "look"
        /\ Op("look", t).task = t
    <3>1. "look" \in OpPlaces /\ t \in Nat /\ n \in Nat
      BY <1>1, Places
    <3> HIDE DEF n
    <3> QED BY <3>1, OpIsOp
  <2>3. ops' \in [Slots -> OpType(n)] /\ \A p \in Slots : GoodOp(ops[p])'
    BY <1>2, <1>3, <2>1, <2>2, Begins DEF repo
  <2> QED BY <1>2, <2>1, <2>3, RepoKept, NoCommit DEF repo
<1>4. CASE /\ ~(tasks[t].enabled /\ tasks[t].service = "none")
           /\ tasks' = [tasks EXCEPT ![t].loop = TRUE] /\ UNCHANGED ops
  <2> DEFINE r == [tasks[t] EXCEPT !.loop = TRUE]
  <2>1. /\ r \in TaskType(n) /\ r.service = tasks[t].service
        /\ r.enabled = tasks[t].enabled /\ r.failed = tasks[t].failed
        /\ r.base = tasks[t].base
    BY <1>1 DEF TaskType
  <2>2. GoodTask(r)
    BY <1>1, <1>4, <2>1 DEF GoodTask
  <2>3. tasks' = [tasks EXCEPT ![t] = r]
    BY <1>1, <1>4
  <2> HIDE DEF r
  <2>4. /\ tasks' \in Seq(TaskType(n)) /\ Cur' = Cur /\ Evolves
        /\ \A u \in 1..Cur' : GoodTask(tasks'[u])
    BY <1>1, <2>1, <2>2, <2>3, TaskSet
  <2>5. ops' \in [Slots -> OpType(n)] /\ \A p \in Slots : GoodOp(ops[p])'
    BY <1>1, <1>2, <1>4, <2>4, OpsSame DEF repo
  <2> QED BY <1>2, <2>4, <2>5, RepoKept, NoCommit DEF repo
<1> QED BY <1>3, <1>4 DEF LoopStarts

\* A save begins only with a service that is ready: checkpoints stay on.
LEMMA SaveBegins ==
  ASSUME CInv, NEW t \in 1..Cur, CheckpointSave(t)
  PROVE  /\ tasks[t].service = "ready" /\ Begin(Op("stage", t))
         /\ UNCHANGED <<workspace, repo, tasks, messages>>
<1>1. tasks[t] \in TaskType(Len(commits)) /\ GoodTask(tasks[t])
  BY TypesGive DEF CInv
<1>2. tasks[t].service = "ready"
  BY <1>1 DEF CheckpointSave, TaskType, GoodTask
<1> QED BY <1>2 DEF CheckpointSave

\* A diff begins, or is the first that needs the service.
LEMMA DiffBegins ==
  ASSUME NEW t \in 1..Cur, CheckpointDiff(t)
  PROVE  /\ UNCHANGED <<workspace, repo, messages>>
         /\ \/ tasks[t].service = "ready" /\ Begin(Op("diff", t)) /\ tasks' = tasks
            \/ /\ tasks[t].service = "none" /\ tasks' = Initializing(t)
               /\ \E o, p \in Slots :
                    /\ o < p
                    /\ ops' = [ops EXCEPT ![o] = Op("look", t), ![p] = Op("wait", t)]
BY DEF CheckpointDiff

\* Two operations begin that neither save nor reset.
LEMMA TwoBegin ==
  ASSUME CInv, Evolves, NEW n \in Nat, n = Len(commits), NEW o \in Slots, NEW p \in Slots,
         NEW q \in OpType(n), NEW w \in OpType(n),
         ops' = [ops EXCEPT ![o] = q, ![p] = w],
         q.task \in 1..Cur', w.task \in 1..Cur',
         q.at \notin {"stage", "commit", "reset"}, w.at \notin {"stage", "commit", "reset"},
         UNCHANGED <<workspace, index>>
  PROVE  ops' \in [Slots -> OpType(n)] /\ \A s \in Slots : GoodOp(ops[s])'
<1>1. ops \in [Slots -> OpType(n)]
  BY DEF CInv, Types
<1>2. /\ ops' \in [Slots -> OpType(n)]
      /\ \A s \in Slots : ops'[s] \in {q, w, ops[s]}
  BY <1>1
<1>3. ASSUME NEW s \in Slots PROVE GoodOp(ops[s])'
  <2>1. CASE ops'[s] = ops[s]
    BY <2>1, OpsStay DEF GoodOp
  <2>2. CASE ops'[s] = q \/ ops'[s] = w
    BY <2>2 DEF GoodOp
  <2> QED BY <1>2, <2>1, <2>2
<1> QED BY <1>2, <1>3

LEMMA SaveKeeps ==
  ASSUME CInv, NEW t \in 1..Cur, CheckpointSave(t) \/ CheckpointDiff(t)
  PROVE  CInv'
<1> DEFINE n == Len(commits)
<1>1. n \in Nat /\ t \in Nat /\ Cur \in Nat
  BY TypesGive DEF CInv
<1>2. ASSUME NEW at \in {"stage", "diff"}, tasks[t].service = "ready",
             Begin(Op(at, t)), UNCHANGED <<workspace, repo, tasks, messages>>
      PROVE  CInv'
  <2> at \in OpPlaces
    BY Places
  <2>1. /\ Op(at, t) \in OpType(n) /\ Op(at, t).at = at /\ Op(at, t).task = t
    BY <1>1, OpIsOp
  <2>2. /\ tasks' \in Seq(TaskType(n)) /\ Cur' = Cur /\ Evolves
        /\ \A u \in 1..Cur' : GoodTask(tasks'[u])
    BY <1>1, <1>2, TasksSame
  <2>3. ops' \in [Slots -> OpType(n)] /\ \A p \in Slots : GoodOp(ops[p])'
    BY <1>2, <2>1, <2>2, Begins DEF repo
  <2> QED BY <1>2, <2>2, <2>3, RepoKept, NoCommit DEF repo
<1>3. ASSUME tasks[t].service = "none", tasks' = Initializing(t),
             UNCHANGED <<workspace, repo, messages>>,
             NEW o \in Slots, NEW p \in Slots,
             ops' = [ops EXCEPT ![o] = Op("look", t), ![p] = Op("wait", t)]
      PROVE  CInv'
  <2>1. tasks[t].loop \in BOOLEAN
    BY TypesGive DEF CInv, TaskType
  <2>2. /\ tasks' \in Seq(TaskType(n)) /\ Cur' = Cur /\ Evolves
        /\ \A u \in 1..Cur' : GoodTask(tasks'[u])
    BY <1>3, <2>1, InitializingOnly, InitializingIs
  <2>3. /\ Op("look", t) \in OpType(n) /\ Op("look", t).at = "look"
        /\ Op("look", t).task = t
        /\ Op("wait", t) \in OpType(n) /\ Op("wait", t).at = "wait"
        /\ Op("wait", t).task = t
    <3>1. /\ "look" \in OpPlaces /\ "wait" \in OpPlaces
          /\ t \in Nat /\ n \in Nat
      BY <1>1, Places
    <3> HIDE DEF n
    <3>2. \A at \in OpPlaces : /\ Op(at, t) \in OpType(n) /\ Op(at, t).at = at
                               /\ Op(at, t).task = t
      BY <3>1, OpIsOp
    <3> QED BY <3>1, <3>2
  <2>4. ops' \in [Slots -> OpType(n)] /\ \A s \in Slots : GoodOp(ops[s])'
    <3>1. n \in Nat /\ n = Len(commits) /\ Evolves /\ UNCHANGED <<workspace, index>>
      BY <1>1, <1>3, <2>2 DEF repo
    <3>2. /\ Op("look", t).task \in 1..Cur' /\ Op("wait", t).task \in 1..Cur'
          /\ Op("look", t).at \notin {"stage", "commit", "reset"}
          /\ Op("wait", t).at \notin {"stage", "commit", "reset"}
      BY <1>1, <2>2, <2>3
    <3> HIDE DEF n
    <3> QED BY <1>3, <2>3, <3>1, <3>2, TwoBegin
  <2> QED BY <1>3, <2>2, <2>4, RepoKept, NoCommit DEF repo
<1> QED BY <1>2, <1>3, SaveBegins, DiffBegins

LEMMA CancelKeeps == ASSUME CInv, CancelTask PROVE CInv'
<1>1. Replaced /\ UNCHANGED <<workspace, repo, ops, messages>>
  BY DEF CancelTask
<1>2. Len(commits) \in Nat
  BY TypesGive DEF CInv
<1>3. /\ ops' \in [Slots -> OpType(Len(commits))]
      /\ \A p \in Slots : GoodOp(ops[p])'
  BY <1>1, <1>2, ReplacedIs, OpsSame DEF repo
<1> QED BY <1>1, <1>3, ReplacedIs, RepoKept, NoCommit DEF repo

LEMMA AskForRestoreKeeps ==
  ASSUME CInv, NEW i \in DOMAIN messages, AskForRestore(i)
  PROVE  CInv'
<1> DEFINE n == Len(commits)
           op == [Op("asked", Cur + 1) EXCEPT !.target = messages[i].to, !.last = i]
<1>1. /\ Replaced /\ Begin(op) /\ UNCHANGED <<workspace, repo, messages>>
      /\ n \in Nat /\ Cur \in Nat
  BY TypesGive DEF AskForRestore, CInv
<1>2. messages[i].to \in 0..n
  <2>1. messages[i] \in MessageType(n)
    BY TypesGive DEF CInv
  <2> QED BY <2>1 DEF MessageType
<1>3. i \in Nat
  BY LenProperties, RepoKept
<1>4. op \in OpType(n) /\ op.at = "asked" /\ op.task = Cur + 1
  <2>1. /\ Op("asked", Cur + 1) \in OpType(n) /\ Op("asked", Cur + 1).at = "asked"
        /\ Op("asked", Cur + 1).task = Cur + 1
    <3>1. Cur + 1 \in Nat /\ n \in Nat /\ "asked" \in OpPlaces
      BY <1>1, Places
    <3> QED BY <3>1, OpIsOp
  <2> QED BY <1>2, <1>3, <2>1 DEF OpType
<1> HIDE DEF op
<1>5. /\ tasks' \in Seq(TaskType(n)) /\ Evolves /\ Cur' = Cur + 1
      /\ \A u \in 1..Cur' : GoodTask(tasks'[u])
  BY <1>1, ReplacedIs
<1>6. op.task \in 1..Cur'
  BY <1>1, <1>4, <1>5
<1>7. ops' \in [Slots -> OpType(n)] /\ \A p \in Slots : GoodOp(ops[p])'
  BY <1>1, <1>4, <1>5, <1>6, Begins DEF repo
<1> QED BY <1>1, <1>5, <1>7, RepoKept, NoCommit DEF repo

LEMMA EditKeeps == ASSUME CInv, NEW f \in Files, Edit(f) PROVE CInv'
<1> DEFINE n == Len(commits)
<1>1. /\ n \in Nat /\ \A o \in Slots : ops[o] \in OpType(n)
      /\ UNCHANGED <<repo, tasks, messages>>
  BY TypesGive DEF CInv, Edit
<1>2. ASSUME NEW o \in Slots
      PROVE  /\ ops'[o] \in OpType(n) /\ ops'[o].at = ops[o].at
             /\ ops'[o].task = ops[o].task
             /\ ops[o].at = "reset" => ops'[o].edited
  <2>1. ops[o] \in OpType(n) /\ ops'[o] = [ops[o] EXCEPT !.edited = ops[o].at = "reset"]
    BY <1>1 DEF Edit
  <2> QED BY <2>1 DEF OpType
<1>3. /\ tasks' \in Seq(TaskType(n)) /\ Cur' = Cur /\ Evolves
      /\ \A u \in 1..Cur' : GoodTask(tasks'[u])
  BY <1>1, TasksSame
<1>4. ops' \in [Slots -> OpType(n)]
  BY <1>2 DEF Edit
<1>5. \A p \in Slots : GoodOp(ops[p])'
  BY <1>1, <1>2, <1>3 DEF GoodOp, CInv
<1>6. workspace' \subseteq Files
  BY RepoKept DEF Edit
<1> QED BY <1>1, <1>3, <1>4, <1>5, <1>6, RepoKept, NoCommit DEF repo

-----------------------------------------------------------------------------
(* Steps of operations.                                                    *)

\* What is known of an operation that is under way.
LEMMA OpIs ==
  ASSUME CInv, NEW o \in Slots, ops[o].at # "idle"
  PROVE  /\ Len(commits) \in Nat /\ Cur \in Nat /\ ops[o].task \in 1..Cur
         /\ ops[o].task \in Nat /\ ops[o] \in OpType(Len(commits))
         /\ tasks[ops[o].task] \in TaskType(Len(commits))
         /\ GoodTask(tasks[ops[o].task]) /\ DOMAIN tasks = 1..Cur
         /\ DOMAIN ops = Slots
BY TypesGive DEF CInv, GoodOp, Types

\* An operation goes on to a place, or ends.
LEMMA OpGoes ==
  ASSUME CInv, Evolves, NEW o \in Slots, ops[o].at # "idle", NEW at \in OpPlaces,
         NEW n \in Nat, n = Len(commits) \/ n = Len(commits) + 1,
         Goes(o, at) \/ Ends(o),
         workspace \subseteq index => workspace' \subseteq index',
         at = "commit" => ops[o].at = "stage",
         at # "stage",
         at = "reset" => workspace' \subseteq index'
  PROVE  /\ ops' \in [Slots -> OpType(n)] /\ \A p \in Slots : GoodOp(ops[p])'
<1>1. /\ Len(commits) \in Nat /\ ops[o] \in OpType(n) /\ ops[o].task \in 1..Cur
      /\ DOMAIN ops = Slots /\ Cur \in Nat
  BY OpIs, TypesGrow
<1>2. CASE Goes(o, at)
  <2> DEFINE op == [ops[o] EXCEPT !.at = at]
  <2>1. op \in OpType(n) /\ op.at = at /\ op.task = ops[o].task
    BY <1>1 DEF OpType
  <2>2. ops' = [ops EXCEPT ![o] = op]
    BY <1>1, <1>2 DEF Goes
  <2>3. op.task \in 1..Cur'
    BY <1>1, <2>1 DEF Evolves
  <2>4. op.at \in {"stage", "commit"} => tasks'[op.task].service = "ready"
    BY <1>1, <2>1, OpsStay
  <2> HIDE DEF op
  <2> QED BY <2>1, <2>2, <2>3, <2>4, OpSet
<1>3. CASE Ends(o)
  <2>1. Idle \in OpType(n) /\ Idle.at = "idle"
    BY IdleIs
  <2>2. ops' = [ops EXCEPT ![o] = Idle]
    BY <1>3 DEF Ends
  <2> QED BY <2>1, <2>2, OpSet
<1> QED BY <1>2, <1>3

\* Checkpoints are turned off for the Cline object of an operation.
LEMMA DisabledIs ==
  ASSUME CInv, NEW t \in 1..Cur, tasks' = Disabled(t)
  PROVE  /\ tasks' \in Seq(TaskType(Len(commits))) /\ Cur' = Cur /\ Evolves
         /\ \A u \in 1..Cur' : GoodTask(tasks'[u])
<1> DEFINE n == Len(commits)
           r == [tasks[t] EXCEPT !.enabled = FALSE, !.failed = TRUE]
<1>1. /\ n \in Nat /\ tasks[t] \in TaskType(n) /\ GoodTask(tasks[t])
      /\ DOMAIN tasks = 1..Cur
  BY TypesGive DEF CInv
<1>2. /\ r \in TaskType(n) /\ r.service = tasks[t].service /\ r.base = tasks[t].base
      /\ ~r.enabled /\ r.failed
  BY <1>1 DEF TaskType
<1>3. GoodTask(r) /\ tasks' = [tasks EXCEPT ![t] = r]
  BY <1>1, <1>2 DEF GoodTask, Disabled
<1> HIDE DEF r
<1> QED BY <1>1, <1>2, <1>3, TaskSet

\* Ends in an error; the index may have been staged, messages dropped.
LEMMA ErrorKeeps ==
  ASSUME CInv, NEW o \in Slots, ops[o].at # "idle",
         tasks' = Disabled(ops[o].task), Ends(o),
         UNCHANGED <<workspace, commits, head, exists>>,
         index' \in {index, workspace},
         messages' \in Seq(MessageType(Len(commits)))
  PROVE  CInv'
<1>1. /\ tasks' \in Seq(TaskType(Len(commits))) /\ Evolves
      /\ \A u \in 1..Cur' : GoodTask(tasks'[u]) /\ Len(commits) \in Nat
  BY OpIs, DisabledIs
<1>2. "cut" \in OpPlaces
  BY DEF OpPlaces
<1>3. /\ ops' \in [Slots -> OpType(Len(commits))]
      /\ \A p \in Slots : GoodOp(ops[p])'
  BY <1>1, <1>2, OpGoes
<1> QED BY <1>1, <1>3, RepoKept, NoCommit

LEMMA FailsKeeps == ASSUME CInv, NEW o \in Slots, Fails(o) PROVE CInv'
<1>1. index' \in {index, workspace}
  BY DEF Fails
<1> QED BY <1>1, ErrorKeeps, RepoKept DEF Fails

LEMMA LookedKeeps == ASSUME CInv, NEW o \in Slots, Looked(o) PROVE CInv'
<1>1. PICK at \in {"open", "init"} :
        /\ ops[o].at = "look" /\ Goes(o, at)
        /\ UNCHANGED <<workspace, repo, tasks, messages>>
  BY DEF Looked
<1>2. /\ tasks' \in Seq(TaskType(Len(commits))) /\ Evolves
      /\ \A u \in 1..Cur' : GoodTask(tasks'[u]) /\ Len(commits) \in Nat
  BY <1>1, TypesGive, TasksSame DEF CInv
<1>3. ops' \in [Slots -> OpType(Len(commits))] /\ \A p \in Slots : GoodOp(ops[p])'
  BY <1>1, <1>2, OpGoes, Places DEF repo
<1> QED BY <1>1, <1>2, <1>3, RepoKept, NoCommit DEF repo

LEMMA MadeKeeps == ASSUME CInv, NEW o \in Slots, Made(o) PROVE CInv'
<1>1. /\ ops[o].at = "init" /\ Goes(o, "create") /\ exists' = TRUE
      /\ UNCHANGED <<workspace, commits, head, index, tasks, messages>>
  BY DEF Made
<1>2. /\ tasks' \in Seq(TaskType(Len(commits))) /\ Evolves
      /\ \A u \in 1..Cur' : GoodTask(tasks'[u]) /\ Len(commits) \in Nat
  BY <1>1, TypesGive, TasksSame DEF CInv
<1>3. ops' \in [Slots -> OpType(Len(commits))] /\ \A p \in Slots : GoodOp(ops[p])'
  BY <1>1, <1>2, OpGoes, Places
<1> QED BY <1>1, <1>2, <1>3, RepoKept, NoCommit

\* What is left of initShadowGit: the first save, or nothing.
LEMMA StageOrIdle ==
  ASSUME NEW n \in Nat, NEW t \in Nat, NEW op, op = Op("stage", t) \/ op = Idle
  PROVE  /\ op \in OpType(n) /\ op.at \in {"idle", "stage"}
         /\ op.at = "stage" => op.task = t
<1>1. "stage" \in OpPlaces
  BY Places
<1>2. Op("stage", t) \in OpType(n) /\ Op("stage", t).at = "stage" /\ Op("stage", t).task = t
  BY <1>1, OpIsOp
<1>3. Idle \in OpType(n) /\ Idle.at = "idle"
  BY IdleIs
<1> QED BY <1>2, <1>3

\* initShadowGit is over.
LEMMA ReadyIs ==
  ASSUME CInv, NEW o \in Slots, ops[o].at # "idle",
         NEW n \in Nat, n = Len(commits) \/ n = Len(commits) + 1,
         NEW ts \in Seq(TaskType(n)), Len(ts) = Cur,
         \A u \in 1..Cur : GoodTask(ts[u]) /\ ts[u].service = tasks[u].service,
         NEW base \in 1..n, Ready(o, base, ts),
         workspace' = workspace, index' = index
  PROVE  /\ tasks' \in Seq(TaskType(n)) /\ Cur' = Cur /\ Evolves
         /\ \A u \in 1..Cur' : GoodTask(tasks'[u])
         /\ ops' \in [Slots -> OpType(n)] /\ \A p \in Slots : GoodOp(ops[p])'
<1> DEFINE t == ops[o].task
           r == [ts[t] EXCEPT !.service = "ready", !.base = base]
           op == IF messages = <<>> THEN Op("stage", t) ELSE Idle
<1>1. /\ t \in 1..Cur /\ t \in Nat /\ DOMAIN ts = 1..Cur /\ base \in 0..n
      /\ Cur \in Nat
  BY OpIs, LenProperties
<1>2. ts[t] \in TaskType(n) /\ GoodTask(ts[t])
  BY <1>1, ElementOfSeq
<1>3. /\ r \in TaskType(n) /\ r.service = "ready" /\ r.base = base
      /\ r.enabled = ts[t].enabled /\ r.failed = ts[t].failed
  BY <1>1, <1>2 DEF TaskType
<1>4. GoodTask(r) /\ tasks' = [ts EXCEPT ![t] = r] /\ ops' = [ops EXCEPT ![o] = op]
  <2>1. GoodTask(r)
    BY <1>1, <1>3 DEF GoodTask
  <2>2. tasks' = [ts EXCEPT ![t] = r] /\ ops' = [ops EXCEPT ![o] = op]
    BY <1>1 DEF Ready
  <2> QED BY <2>1, <2>2
<1>5. /\ op \in OpType(n) /\ op.at \in {"idle", "stage"}
      /\ op.at = "stage" => op.task = t
  <2> HIDE DEF t, r
  <2>1. op = Op("stage", t) \/ op = Idle
    OBVIOUS
  <2> HIDE DEF op
  <2> QED BY <1>1, <2>1, StageOrIdle
<1> HIDE DEF r, op, t
<1>6. /\ tasks' \in Seq(TaskType(n)) /\ Len(tasks') = Cur
      /\ \A u \in 1..Cur : tasks'[u] = IF u = t THEN r ELSE ts[u]
  BY <1>1, <1>3, <1>4, ExceptSeq
<1>7. Cur' = Cur
  BY <1>6 DEF Cur
<1>8. Evolves /\ \A u \in 1..Cur' : GoodTask(tasks'[u])
  BY <1>1, <1>3, <1>4, <1>6, <1>7 DEF Evolves
<1>9. /\ op.at # "idle" => op.task \in 1..Cur'
      /\ op.at \in {"stage", "commit"} => tasks'[op.task].service = "ready"
  BY <1>1, <1>3, <1>5, <1>6, <1>7
<1>10. /\ ops' \in [Slots -> OpType(n)] /\ \A p \in Slots : GoodOp(ops[p])'
  BY <1>4, <1>5, <1>8, <1>9, OpSet
<1> QED BY <1>6, <1>7, <1>8, <1>10

\* git commit.
LEMMA CommitsIs ==
  ASSUME CInv, Commits \/ CommitsAnyway, UNCHANGED <<workspace, index, exists>>
  PROVE  /\ RepoTypes'
         /\ \/ Commits /\ commits' = commits /\ head' = head
            \/ Len(commits') = Len(commits) + 1 /\ head' = Len(commits) + 1
<1> DEFINE n == Len(commits)
           c == [tree |-> index, parent |-> head]
<1>1. /\ n \in Nat /\ RepoTypes /\ head \in 0..n
  BY TypesGive DEF CInv, Types, RepoTypes
<1>2. CASE Commits /\ commits' = commits /\ head' = head
  BY <1>1, <1>2 DEF RepoTypes
<1>3. CASE commits' = Append(commits, c) /\ head' = n + 1
  <2>1. c \in CommitType /\ c.parent = head
    BY <1>1 DEF CommitType, RepoTypes
  <2> HIDE DEF c
  <2>2. /\ commits' \in Seq(CommitType) /\ Len(commits') = n + 1
        /\ \A i \in 1..n : commits'[i] = commits[i]
        /\ commits'[n + 1] = c
    BY <1>1, <1>3, <2>1, AppendProperties DEF RepoTypes
  <2>3. ASSUME NEW i \in 1..(n + 1) PROVE commits'[i].parent < i
    <3>1. CASE i = n + 1
      BY <1>1, <2>1, <2>2, <3>1
    <3>2. CASE i # n + 1
      <4>1. i \in 1..n
        BY <1>1, <3>2
      <4> QED BY <1>1, <2>2, <4>1 DEF RepoTypes
    <3> QED BY <3>1, <3>2
  <2>4. head' \in 0..(n + 1)
    BY <1>1, <1>3
  <2> QED BY <1>1, <1>3, <2>2, <2>3, <2>4 DEF RepoTypes
<1> QED BY <1>2, <1>3 DEF Commits, CommitsAnyway

\* A step that may have made a commit.
LEMMA MayCommit ==
  ASSUME CInv, RepoTypes', NEW n \in Nat, n = Len(commits'), Evolves,
         tasks' \in Seq(TaskType(n)),
         \A u \in 1..Cur' : GoodTask(tasks'[u]),
         ops' \in [Slots -> OpType(n)], \A p \in Slots : GoodOp(ops[p])',
         messages' \in Seq(MessageType(n))
  PROVE  CInv'
<1>1. Cur' >= 1
  BY TypesGive DEF CInv, Types, Evolves
<1>2. Types'
  BY <1>1 DEF Types
<1> QED BY <1>2 DEF CInv

\* HEAD was moved: the Cline object in charge may note it.
LEMMA MovedByGives ==
  ASSUME CInv, NEW n \in Nat, n = Len(commits) \/ n = Len(commits) + 1,
         NEW t \in 1..Cur
  PROVE  /\ MovedBy(t) \in Seq(TaskType(n)) /\ Len(MovedBy(t)) = Cur
         /\ \A u \in 1..Cur :
              /\ GoodTask(MovedBy(t)[u])
              /\ MovedBy(t)[u].service = tasks[u].service
              /\ MovedBy(t)[u].points = tasks[u].points
              /\ u # Cur => MovedBy(t)[u] = tasks[u]
         /\ t # Cur /\ tasks[Cur].service = "ready" => MovedBy(t)[Cur].moved
<1> DEFINE b == t # Cur /\ tasks[Cur].service = "ready"
           r == [tasks[Cur] EXCEPT !.moved = @ \/ b]
<1>1. /\ Cur \in 1..Cur /\ tasks[Cur] \in TaskType(n) /\ GoodTask(tasks[Cur])
      /\ DOMAIN tasks = 1..Cur /\ tasks \in Seq(TaskType(n))
  BY TypesGive, TypesGrow DEF CInv, Types
<1>2. MovedBy(t) = [tasks EXCEPT ![Cur] = r]
  BY <1>1 DEF MovedBy
<1>3. (tasks[Cur].moved \/ b) \in BOOLEAN
  OBVIOUS
<1>4. r = [tasks[Cur] EXCEPT !.moved = tasks[Cur].moved \/ b]
  BY <1>1 DEF TaskType
<1>5. r.moved = (tasks[Cur].moved \/ b)
  BY <1>1 DEF TaskType
<1>6. t # Cur /\ tasks[Cur].service = "ready" => r.moved
  BY <1>5
<1> HIDE DEF b
<1>7. /\ r \in TaskType(n) /\ r.service = tasks[Cur].service
      /\ r.enabled = tasks[Cur].enabled /\ r.failed = tasks[Cur].failed
      /\ r.base = tasks[Cur].base /\ r.loop = tasks[Cur].loop
      /\ r.points = tasks[Cur].points
  BY <1>1, <1>3, <1>4 DEF TaskType
<1> HIDE DEF r
<1>8. GoodTask(r)
  BY <1>1, <1>7 DEF GoodTask
<1>9. /\ MovedBy(t) \in Seq(TaskType(n)) /\ Len(MovedBy(t)) = Cur
      /\ \A u \in 1..Cur : MovedBy(t)[u] = IF u = Cur THEN r ELSE tasks[u]
  BY <1>1, <1>2, <1>7, ExceptSeq DEF Cur
<1> QED BY <1>1, <1>6, <1>7, <1>8, <1>9 DEF CInv

LEMMA CreatedKeeps == ASSUME CInv, NEW o \in Slots, Created(o) PROVE CInv'
<1> DEFINE n == Len(commits) + 1
           ts == MovedBy(ops[o].task)
<1>1. /\ Len(commits) \in Nat /\ n \in Nat /\ n \in 1..n
  BY TypesGive DEF CInv
<1>2. /\ ops[o].at # "idle" /\ CommitsAnyway /\ head' = n /\ Ready(o, n, ts)
      /\ UNCHANGED <<workspace, index, exists, messages>>
  BY DEF Created, CommitsAnyway
<1>3. RepoTypes' /\ Len(commits') = n
  <2>1. Len(commits') = n
    BY <1>1, <1>2, RepoKept, AppendProperties DEF CommitsAnyway
  <2> QED BY <1>2, <2>1, CommitsIs
<1>4. messages' \in Seq(MessageType(n))
  BY <1>1, <1>2, TypesGrow, RepoKept
<1>5. /\ ts \in Seq(TaskType(n)) /\ Len(ts) = Cur
      /\ \A u \in 1..Cur : GoodTask(ts[u]) /\ ts[u].service = tasks[u].service
  BY <1>1, <1>2, OpIs, MovedByGives
<1> HIDE DEF ts
<1>6. /\ tasks' \in Seq(TaskType(n)) /\ Evolves
      /\ \A u \in 1..Cur' : GoodTask(tasks'[u])
      /\ ops' \in [Slots -> OpType(n)] /\ \A p \in Slots : GoodOp(ops[p])'
  BY <1>1, <1>2, <1>5, ReadyIs
<1> QED BY <1>1, <1>3, <1>4, <1>6, MayCommit

LEMMA OpenedKeeps == ASSUME CInv, NEW o \in Slots, Opened(o) PROVE CInv'
<1>1. ops[o].at # "idle" /\ UNCHANGED <<workspace, repo, messages>>
  BY DEF Opened
<1>2. CASE tasks' = Disabled(ops[o].task) /\ Ends(o)
  BY <1>1, <1>2, ErrorKeeps, RepoKept DEF repo
<1>3. CASE head # 0 /\ Ready(o, head, tasks)
  <2>1. head \in 1..Len(commits) /\ Len(commits) \in Nat
    BY <1>3, RepoKept, TypesGive DEF CInv
  <2>2. /\ tasks \in Seq(TaskType(Len(commits))) /\ Len(tasks) = Cur
        /\ \A u \in 1..Cur : GoodTask(tasks[u])
    BY DEF CInv, Types, Cur
  <2>3. /\ tasks' \in Seq(TaskType(Len(commits))) /\ Evolves
        /\ \A u \in 1..Cur' : GoodTask(tasks'[u])
        /\ ops' \in [Slots -> OpType(Len(commits))]
        /\ \A p \in Slots : GoodOp(ops[p])'
    BY <1>1, <1>3, <2>1, <2>2, ReadyIs DEF repo
  <2> QED BY <1>1, <2>3, RepoKept, NoCommit DEF repo
<1> QED BY <1>2, <1>3 DEF Opened

LEMMA StageKeeps == ASSUME CInv, NEW o \in Slots, StageAll(o) PROVE CInv'
<1>1. /\ ops[o].at \in {"create", "stage", "diff"} /\ index' \in {workspace, index}
      /\ UNCHANGED <<workspace, commits, head, exists, tasks, messages>>
      /\ \/ ops[o].at = "create" /\ Goes(o, "first")
         \/ ops[o].at = "stage" /\ Goes(o, "commit")
         \/ Ends(o)
  BY DEF StageAll
<1>2. /\ tasks' \in Seq(TaskType(Len(commits))) /\ Evolves
      /\ \A u \in 1..Cur' : GoodTask(tasks'[u]) /\ Len(commits) \in Nat
  BY <1>1, TypesGive, TasksSame DEF CInv
<1>3. "first" \in OpPlaces /\ "commit" \in OpPlaces /\ ops[o].at # "idle"
  BY <1>1 DEF OpPlaces
<1>4. /\ ops' \in [Slots -> OpType(Len(commits))]
      /\ \A p \in Slots : GoodOp(ops[p])'
  BY <1>1, <1>2, <1>3, OpGoes
<1> QED BY <1>1, <1>2, <1>4, RepoKept, NoCommit

LEMMA MovedByIs ==
  ASSUME CInv, NEW n \in Nat, n = Len(commits) \/ n = Len(commits) + 1,
         NEW t \in 1..Cur, tasks' = MovedBy(t)
  PROVE  /\ tasks' \in Seq(TaskType(n)) /\ Cur' = Cur /\ Evolves
         /\ \A u \in 1..Cur' : GoodTask(tasks'[u])
<1>1. Cur \in Nat
  BY TypesGive DEF CInv
<1>2. /\ MovedBy(t) \in Seq(TaskType(n)) /\ Len(MovedBy(t)) = Cur
      /\ \A u \in 1..Cur : /\ GoodTask(MovedBy(t)[u])
                           /\ MovedBy(t)[u].service = tasks[u].service
  BY MovedByGives
<1>3. Cur' = Cur
  BY <1>2 DEF Cur
<1> QED BY <1>1, <1>2, <1>3 DEF Evolves

(* What a save is about to show.                                           *)
SavedFrom(t) == IF tasks[t].points = <<>> THEN tasks[t].base
                ELSE tasks[t].points[Len(tasks[t].points)]
SavedTo(t) == IF head' # head THEN head' ELSE SavedFrom(t)

LEMMA SavedIs ==
  ASSUME CInv, NEW o \in Slots, ops[o].at = "commit", Commits,
         UNCHANGED <<workspace, index, exists>>
  PROVE  /\ RepoTypes' /\ Len(commits') \in Nat
         /\ Len(commits') = Len(commits) \/ Len(commits') = Len(commits) + 1
         /\ SavedFrom(ops[o].task) \in 1..Len(commits')
         /\ SavedTo(ops[o].task) \in 1..Len(commits')
<1> DEFINE n == Len(commits')
           t == ops[o].task
           from == SavedFrom(t)
           to == SavedTo(t)
<1>1. /\ t \in 1..Cur /\ tasks[t] \in TaskType(Len(commits)) /\ GoodTask(tasks[t])
      /\ Len(commits) \in Nat /\ tasks[t].service = "ready"
  BY OpIs DEF CInv, GoodOp
<1>2. head \in 0..Len(commits)
  BY RepoKept
<1>3. /\ RepoTypes'
      /\ \/ commits' = commits /\ head' = head
         \/ n = Len(commits) + 1 /\ head' = Len(commits) + 1
  BY CommitsIs
<1>4. from \in 1..Len(commits)
  <2>1. /\ tasks[t].base \in 0..Len(commits) /\ tasks[t].base # 0
        /\ tasks[t].points \in Seq(1..Len(commits))
    BY <1>1 DEF TaskType, GoodTask
  <2>2. CASE tasks[t].points = <<>>
    BY <2>1, <2>2, <1>1 DEF SavedFrom
  <2>3. CASE tasks[t].points # <<>>
    <3>1. /\ Len(tasks[t].points) \in 1..Len(tasks[t].points)
      BY <2>1, <2>3, EmptySeq, LenProperties
    <3> QED BY <2>1, <2>3, <3>1, ElementOfSeq DEF SavedFrom
  <2> QED BY <2>2, <2>3
<1>5. n \in Nat /\ (n = Len(commits) \/ n = Len(commits) + 1)
  BY <1>1, <1>3
<1>6. to \in 1..n
  BY <1>1, <1>2, <1>3, <1>4 DEF SavedTo
<1> QED BY <1>1, <1>3, <1>4, <1>5, <1>6

\* What it makes of the Cline object.
LEMMA SavedTask ==
  ASSUME CInv, NEW n \in Nat, n = Len(commits) \/ n = Len(commits) + 1,
         NEW t \in 1..Cur, NEW to \in 1..n, NEW same \in BOOLEAN, NEW made \in BOOLEAN,
         tasks' = [tasks EXCEPT ![t].points = IF same THEN @ ELSE Append(@, to),
                                ![t].moved = @ /\ ~made]
  PROVE  /\ tasks' \in Seq(TaskType(n)) /\ Cur' = Cur /\ Evolves
         /\ \A u \in 1..Cur' : GoodTask(tasks'[u])
<1> DEFINE pts == IF same THEN tasks[t].points ELSE Append(tasks[t].points, to)
           mv == tasks[t].moved /\ ~made
           r == [tasks[t] EXCEPT !.points = pts, !.moved = mv]
<1>1. /\ tasks[t] \in TaskType(n) /\ GoodTask(tasks[t]) /\ DOMAIN tasks = 1..Cur
  BY TypesGive, TypesGrow DEF CInv
<1>2. pts \in Seq(1..n)
  <2>1. tasks[t].points \in Seq(1..n)
    BY <1>1 DEF TaskType
  <2> QED BY <2>1, AppendProperties
<1>3. mv \in BOOLEAN
  OBVIOUS
<1>4. tasks' = [tasks EXCEPT ![t] = r]
  BY <1>1
<1> HIDE DEF pts, mv
<1>5. /\ r \in TaskType(n) /\ r.service = tasks[t].service
      /\ r.enabled = tasks[t].enabled /\ r.failed = tasks[t].failed
      /\ r.base = tasks[t].base /\ r.loop = tasks[t].loop
  BY <1>1, <1>2, <1>3 DEF TaskType
<1> HIDE DEF r
<1>6. GoodTask(r)
  BY <1>1, <1>5 DEF GoodTask
<1>7. tasks[t].service = "ready" => r.service = "ready"
  BY <1>5
<1>8. r \in TaskType(n)
  BY <1>5
<1> QED BY <1>4, <1>6, <1>7, <1>8, TaskSet, ZenonT(30)

LEMMA CommittedKeeps == ASSUME CInv, NEW o \in Slots, Committed(o) PROVE CInv'
<1> DEFINE n == Len(commits')
           t == ops[o].task
           first == tasks[t].points = <<>>
           from == IF first THEN tasks[t].base
                   ELSE tasks[t].points[Len(tasks[t].points)]
           made == head' # head
           to == IF made THEN head' ELSE from
           same == ~first /\ to = from
           m == [from |-> from, to |-> to, by |-> t, first |-> first,
                 moved |-> tasks[t].moved]
<1>1. /\ ops[o].at = "commit" /\ Commits /\ Ends(o)
      /\ UNCHANGED <<workspace, index, exists>>
  BY DEF Committed
<1>2. /\ RepoTypes' /\ n \in Nat /\ (n = Len(commits) \/ n = Len(commits) + 1)
      /\ from \in 1..n /\ to \in 1..n
  BY <1>1, SavedIs DEF SavedFrom, SavedTo
<1>3. /\ t \in 1..Cur /\ t \in Nat /\ tasks[t] \in TaskType(Len(commits))
      /\ Len(commits) \in Nat
  BY <1>1, OpIs
<1>4. /\ \/ tasks' = MovedBy(t)
         \/ tasks' = tasks
         \/ tasks' = [tasks EXCEPT ![t].points = IF same THEN @ ELSE Append(@, to),
                                   ![t].moved = @ /\ ~made]
      /\ messages' = Append(messages, m) \/ messages' = messages
  BY DEF Committed
<1>5. m \in MessageType(n)
  <2>1. tasks[t].moved \in BOOLEAN /\ first \in BOOLEAN
    BY <1>3 DEF TaskType
  <2>2. from \in 0..n /\ to \in 0..n
    BY <1>2
  <2> HIDE DEF first, from, to, t
  <2> QED BY <1>3, <2>1, <2>2 DEF MessageType
<1>6. messages \in Seq(MessageType(n))
  BY <1>2, <1>3, TypesGrow, RepoKept
<1> same \in BOOLEAN /\ made \in BOOLEAN
  OBVIOUS
<1> HIDE DEF m, same, made, to, from, first, n, t
<1>7. messages' \in Seq(MessageType(n))
  BY <1>4, <1>5, <1>6, AppendProperties
<1>8. /\ tasks' \in Seq(TaskType(n)) /\ Evolves
      /\ \A u \in 1..Cur' : GoodTask(tasks'[u])
  <2>1. CASE tasks' = MovedBy(t)
    BY <1>2, <1>3, <2>1, MovedByIs
  <2>2. CASE tasks' = tasks
    BY <1>2, <2>2, TasksSame
  <2>3. CASE tasks' = [tasks EXCEPT ![t].points = IF same THEN @ ELSE Append(@, to),
                                    ![t].moved = @ /\ ~made]
    BY <1>2, <1>3, <2>3, SavedTask
  <2> QED BY <1>4, <2>1, <2>2, <2>3
<1>9. ops' \in [Slots -> OpType(n)] /\ \A p \in Slots : GoodOp(ops[p])'
  BY <1>1, <1>2, <1>8, OpGoes, Places
<1> QED BY <1>2, <1>7, <1>8, <1>9, MayCommit DEF n

\* With the service there an operation goes on, or ends.
LEMMA ProceedsIs ==
  ASSUME NEW n \in Nat, NEW op \in OpType(n)
  PROVE  /\ Proceeds(op) \in OpType(n) /\ Proceeds(op).at \in {"clean", "diff", "idle"}
         /\ Proceeds(op).at # "idle" => Proceeds(op).task = op.task
<1>1. \A at \in {"clean", "diff"} : /\ [op EXCEPT !.at = at] \in OpType(n)
                                    /\ [op EXCEPT !.at = at].at = at
                                    /\ [op EXCEPT !.at = at].task = op.task
  BY Places DEF OpType
<1>2. Idle \in OpType(n) /\ Idle.at = "idle"
  BY IdleIs
<1> QED BY <1>1, <1>2 DEF Proceeds

LEMMA RestoreBeginsKeeps ==
  ASSUME CInv, NEW o \in Slots, CheckpointRestore(o)
  PROVE  CInv'
<1> DEFINE n == Len(commits)
           op == [ops[o] EXCEPT !.task = Cur]
<1>1. /\ ops[o].at = "asked" /\ UNCHANGED <<workspace, repo, messages>>
  BY DEF CheckpointRestore
<1>2. /\ n \in Nat /\ Cur \in Nat /\ Cur \in 1..Cur /\ ops[o] \in OpType(n)
      /\ tasks[Cur] \in TaskType(n) /\ GoodTask(tasks[Cur])
      /\ DOMAIN tasks = 1..Cur /\ ops \in [Slots -> OpType(n)]
  BY TypesGive DEF CInv, Types
<1>3. op \in OpType(n) /\ op.task = Cur
  BY <1>2 DEF OpType
<1>4. \/ /\ tasks' = Initializing(Cur) /\ tasks[Cur].service = "none"
         /\ \E p \in Slots : /\ IsFree(p)
                             /\ ops' = [ops EXCEPT ![o] = [op EXCEPT !.at = "wait"],
                                                   ![p] = Op("look", Cur)]
      \/ ops' = [ops EXCEPT ![o] = Proceeds(op)] /\ tasks' = tasks
      \/ Ends(o) /\ tasks' = tasks
  BY DEF CheckpointRestore
<1> HIDE DEF op
<1>5. ASSUME NEW q \in OpType(n), ops' = [ops EXCEPT ![o] = q], tasks' = tasks,
             q.at \in {"clean", "diff", "idle"}, q.at # "idle" => q.task = Cur
      PROVE  CInv'
  <2>1. /\ tasks' \in Seq(TaskType(n)) /\ Cur' = Cur /\ Evolves
        /\ \A u \in 1..Cur' : GoodTask(tasks'[u])
    BY <1>2, <1>5, TasksSame
  <2>2. ops' \in [Slots -> OpType(n)] /\ \A p \in Slots : GoodOp(ops[p])'
    BY <1>1, <1>2, <1>5, <2>1, OpSet DEF repo
  <2> QED BY <1>1, <2>1, <2>2, RepoKept, NoCommit DEF repo
<1>6. CASE ops' = [ops EXCEPT ![o] = Proceeds(op)] /\ tasks' = tasks
  BY <1>2, <1>3, <1>5, <1>6, ProceedsIs
<1>7. CASE Ends(o) /\ tasks' = tasks
  BY <1>2, <1>5, <1>7, IdleIs DEF Ends
<1>8. CASE /\ tasks' = Initializing(Cur) /\ tasks[Cur].service = "none"
           /\ \E p \in Slots : /\ IsFree(p)
                               /\ ops' = [ops EXCEPT ![o] = [op EXCEPT !.at = "wait"],
                                                     ![p] = Op("look", Cur)]
  <2> DEFINE w == [op EXCEPT !.at = "wait"]
             q == Op("look", Cur)
  <2>1. tasks[Cur].loop \in BOOLEAN
    BY <1>2 DEF TaskType
  <2>2. /\ tasks' \in Seq(TaskType(n)) /\ Cur' = Cur /\ Evolves
        /\ \A u \in 1..Cur' : GoodTask(tasks'[u])
    BY <1>2, <1>8, <2>1, InitializingOnly, InitializingIs
  <2>3. w \in OpType(n) /\ w.at = "wait" /\ w.task = Cur
    BY <1>3, Places DEF OpType
  <2>4. q \in OpType(n) /\ q.at = "look" /\ q.task = Cur
    <3>1. "look" \in OpPlaces /\ Cur \in Nat /\ n \in Nat
      BY <1>2, Places
    <3> QED BY <3>1, OpIsOp
  <2>5. PICK p \in Slots : ops' = [ops EXCEPT ![o] = w, ![p] = q]
    BY <1>8
  <2> HIDE DEF w, q
  <2>6. ops' \in [Slots -> OpType(n)] /\ \A s \in Slots : GoodOp(ops[s])'
    BY <1>1, <1>2, <2>2, <2>3, <2>4, <2>5, TwoBegin DEF repo
  <2> QED BY <1>1, <2>2, <2>6, RepoKept, NoCommit DEF repo
<1> QED BY <1>4, <1>6, <1>7, <1>8

LEMMA WaitedKeeps == ASSUME CInv, NEW o \in Slots, Waited(o) PROVE CInv'
<1> DEFINE n == Len(commits)
<1>1. /\ ops[o].at = "wait" /\ UNCHANGED <<workspace, repo, tasks, messages>>
      /\ \/ ops' = [ops EXCEPT ![o] = Proceeds(ops[o])]
         \/ ops' = [ops EXCEPT ![o] = Idle]
  BY DEF Waited
<1>2. /\ n \in Nat /\ Cur \in Nat /\ ops[o] \in OpType(n) /\ ops[o].task \in 1..Cur
  BY <1>1, OpIs
<1>3. PICK q \in OpType(n) :
        /\ ops' = [ops EXCEPT ![o] = q] /\ q.at \in {"clean", "diff", "idle"}
        /\ q.at # "idle" => q.task = ops[o].task
  BY <1>1, <1>2, ProceedsIs, IdleIs
<1>4. /\ tasks' \in Seq(TaskType(n)) /\ Cur' = Cur /\ Evolves
      /\ \A u \in 1..Cur' : GoodTask(tasks'[u])
  BY <1>1, <1>2, TasksSame
<1>5. ops' \in [Slots -> OpType(n)] /\ \A p \in Slots : GoodOp(ops[p])'
  BY <1>1, <1>2, <1>3, <1>4, OpSet DEF repo
<1> QED BY <1>1, <1>4, <1>5, RepoKept, NoCommit DEF repo

LEMMA CleanKeeps == ASSUME CInv, NEW o \in Slots, Clean(o) PROVE CInv'
<1>1. /\ ops[o].at = "clean" /\ workspace' = workspace \cap index /\ Goes(o, "reset")
      /\ UNCHANGED <<repo, tasks, messages>>
  BY DEF Clean
<1>2. /\ tasks' \in Seq(TaskType(Len(commits))) /\ Evolves
      /\ \A u \in 1..Cur' : GoodTask(tasks'[u]) /\ Len(commits) \in Nat
  BY <1>1, TypesGive, TasksSame DEF CInv
<1>3. ops' \in [Slots -> OpType(Len(commits))] /\ \A p \in Slots : GoodOp(ops[p])'
  BY <1>1, <1>2, OpGoes, Places DEF repo
<1>4. workspace' \subseteq Files
  BY <1>1, RepoKept
<1> QED BY <1>1, <1>2, <1>3, <1>4, RepoKept, NoCommit DEF repo

\* What is left of _checkpoints.
LEMMA UpToIs ==
  ASSUME NEW n \in Nat, NEW points \in Seq(1..n), NEW c
  PROVE  UpTo(points, c) \in Seq(1..n)
<1> DEFINE S == {k \in DOMAIN points : \A m \in 1..(k - 1) : points[m] # c}
<1>1. Len(points) \in Nat /\ DOMAIN points = 1..Len(points) /\ S \subseteq 1..Len(points)
  BY LenProperties
<1>2. /\ IsFiniteSet(1..Len(points)) /\ Cardinality(1..Len(points)) = Len(points)
  <2> DEFINE l == Len(points)
  <2>1. 1 \in Int /\ l \in Int /\ l \in Nat
    BY <1>1
  <2> HIDE DEF l
  <2>2. IsFiniteSet(1..l) /\ Cardinality(1..l) = IF 1 > l THEN 0 ELSE l - 1 + 1
    BY <2>1, FS_Interval
  <2>3. IsFiniteSet(1..l) /\ Cardinality(1..l) = l
    BY <2>1, <2>2
  <2> QED BY <2>3 DEF l
<1> HIDE DEF S
<1>3. Cardinality(S) \in Nat /\ Cardinality(S) <= Len(points)
  <2>1. IsFiniteSet(S) /\ Cardinality(S) <= Cardinality(1..Len(points))
    BY <1>1, <1>2, FS_Subset
  <2> QED BY <1>2, <2>1, FS_CardinalityType
<1>4. \A i \in 1..Cardinality(S) : points[i] \in 1..n
  BY <1>1, <1>3, ElementOfSeq
<1>5. SubSeq(points, 1, Cardinality(S)) \in Seq(1..n)
  BY <1>3, <1>4, SubSeqProperties
<1> QED BY <1>5 DEF UpTo, S

LEMMA ResetKeeps == ASSUME CInv, NEW o \in Slots, Reset(o) PROVE CInv'
<1> DEFINE n == Len(commits)
           t == ops[o].task
           c == ops[o].target
<1>1. /\ ops[o].at = "reset" /\ workspace' = (workspace \ index) \cup Tree(c)
      /\ index' = Tree(c) /\ head' = c /\ UNCHANGED <<commits, exists, messages>>
      /\ \E at \in {"cut", "again"} : Goes(o, at)
  BY DEF Reset
<1>2. /\ n \in Nat /\ t \in 1..Cur /\ tasks[t] \in TaskType(n) /\ GoodTask(tasks[t])
      /\ ops[o] \in OpType(n) /\ DOMAIN tasks = 1..Cur
  BY <1>1, OpIs
<1>3. c \in 0..n
  BY <1>2 DEF OpType
<1>4. /\ tasks' \in Seq(TaskType(n)) /\ Evolves
      /\ \A u \in 1..Cur' : GoodTask(tasks'[u])
  <2>1. CASE tasks' = MovedBy(t)
    BY <1>2, <2>1, MovedByIs
  <2>2. CASE tasks' = [tasks EXCEPT
                        ![t].points = UpTo(@, c),
                        ![t].moved = @ \/ (\A k \in DOMAIN tasks[t].points :
                                            tasks[t].points[k] # c)]
    <3> DEFINE pts == UpTo(tasks[t].points, c)
               mv == tasks[t].moved \/ (\A k \in DOMAIN tasks[t].points :
                                          tasks[t].points[k] # c)
               r == [tasks[t] EXCEPT !.points = pts, !.moved = mv]
    <3>1. tasks' = [tasks EXCEPT ![t] = r]
      BY <1>2, <2>2
    <3>2. pts \in Seq(1..n)
      <4>1. tasks[t].points \in Seq(1..n)
        BY <1>2 DEF TaskType
      <4> QED BY <1>2, <4>1, UpToIs
    <3>3. mv \in BOOLEAN
      OBVIOUS
    <3> HIDE DEF pts, mv
    <3>4. /\ r \in TaskType(n) /\ r.service = tasks[t].service
          /\ r.enabled = tasks[t].enabled /\ r.failed = tasks[t].failed
          /\ r.base = tasks[t].base /\ r.loop = tasks[t].loop
      BY <1>2, <3>2, <3>3 DEF TaskType
    <3> HIDE DEF r
    <3>5. GoodTask(r)
      BY <1>2, <3>4 DEF GoodTask
    <3> QED BY <1>2, <3>1, <3>4, <3>5, TaskSet
  <2> QED BY <2>1, <2>2 DEF Reset
<1>5. workspace \subseteq index => workspace' \subseteq index'
  BY <1>1
<1>6. ops' \in [Slots -> OpType(n)] /\ \A p \in Slots : GoodOp(ops[p])'
  BY <1>1, <1>2, <1>4, <1>5, OpGoes, Places
<1>7. Tree(c) \subseteq Files
  BY <1>3, TreeIs DEF CInv
<1>8. workspace' \subseteq Files /\ index' \subseteq Files
  BY <1>1, <1>7, RepoKept
<1> QED BY <1>1, <1>3, <1>4, <1>6, <1>8, RepoKept, NoCommit

\* What is left of the messages.
LEMMA UpToMessageIs ==
  ASSUME CInv, NEW i \in Nat
  PROVE  /\ UpToMessage(i) \in Seq(MessageType(Len(commits)))
         /\ DOMAIN UpToMessage(i) \subseteq DOMAIN messages
         /\ \A k \in DOMAIN UpToMessage(i) : UpToMessage(i)[k] = messages[k]
<1> DEFINE T == MessageType(Len(commits))
<1>1. messages \in Seq(T) /\ Len(messages) \in Nat /\ DOMAIN messages = 1..Len(messages)
  BY RepoKept, LenProperties
<1> HIDE DEF T
<1>2. CASE i < Len(messages)
  <2>1. \A k \in 1..i : k \in 1..Len(messages) /\ messages[k] \in T
    BY <1>1, <1>2, ElementOfSeq
  <2>2. /\ SubSeq(messages, 1, i) \in Seq(T) /\ Len(SubSeq(messages, 1, i)) = i
        /\ \A k \in 1..i : SubSeq(messages, 1, i)[k] = messages[k]
    BY <1>1, <2>1, SubSeqProperties
  <2>3. DOMAIN SubSeq(messages, 1, i) = 1..i
    BY <2>2, LenProperties
  <2> QED BY <1>1, <1>2, <2>1, <2>2, <2>3 DEF UpToMessage, T
<1>3. CASE ~(i < Len(messages))
  BY <1>1, <1>3 DEF UpToMessage, T
<1> QED BY <1>2, <1>3

LEMMA CutKeeps == ASSUME CInv, NEW o \in Slots, Cut(o) PROVE CInv'
<1> DEFINE n == Len(commits)
<1>1. /\ ops[o].at = "cut" /\ UNCHANGED <<workspace, repo>>
      /\ messages' = messages \/ messages' = UpToMessage(ops[o].last)
  BY DEF Cut
<1>2. n \in Nat /\ ops[o] \in OpType(n) /\ ops[o].last \in Nat
  BY <1>1, OpIs DEF OpType
<1>3. messages' \in Seq(MessageType(n))
  BY <1>1, <1>2, UpToMessageIs, RepoKept
<1>4. CASE Goes(o, "again") /\ tasks' = tasks
  <2>1. /\ tasks' \in Seq(TaskType(n)) /\ Evolves
        /\ \A u \in 1..Cur' : GoodTask(tasks'[u])
    BY <1>2, <1>4, TasksSame
  <2>2. ops' \in [Slots -> OpType(n)] /\ \A p \in Slots : GoodOp(ops[p])'
    BY <1>1, <1>2, <1>4, <2>1, OpGoes, Places DEF repo
  <2> QED BY <1>1, <1>3, <2>1, <2>2, RepoKept, NoCommit DEF repo
<1>5. CASE tasks' = Disabled(ops[o].task) /\ Ends(o)
  BY <1>1, <1>3, <1>5, ErrorKeeps DEF repo
<1> QED BY <1>4, <1>5 DEF Cut

LEMMA CancelAgainKeeps == ASSUME CInv, NEW o \in Slots, CancelAgain(o) PROVE CInv'
<1>1. /\ ops[o].at = "again" /\ Replaced /\ Ends(o)
      /\ UNCHANGED <<workspace, repo, messages>>
  BY DEF CancelAgain
<1>2. Len(commits) \in Nat
  BY TypesGive DEF CInv
<1>3. ops' \in [Slots -> OpType(Len(commits))] /\ \A p \in Slots : GoodOp(ops[p])'
  BY <1>1, <1>2, ReplacedIs, OpGoes, Places DEF repo
<1> QED BY <1>1, <1>3, ReplacedIs, RepoKept, NoCommit DEF repo

-----------------------------------------------------------------------------
(* The theorems.                                                           *)

LEMMA InitIsCInv == Init => CInv
<1> SUFFICES ASSUME Init PROVE CInv
  OBVIOUS
<1>1. /\ workspace = {} /\ index = {} /\ commits = <<>> /\ head = 0
      /\ exists = FALSE /\ tasks = <<NewTask>> /\ messages = <<>>
      /\ ops = [o \in Slots |-> Idle]
  BY DEF Init
<1>2. Len(commits) = 0 /\ commits \in Seq(CommitType)
  BY <1>1, EmptySeq
<1>3. NewTask \in TaskType(0) /\ GoodTask(NewTask)
  <2>1. <<>> \in Seq(1..0) /\ 0 \in 0..0
    BY EmptySeq
  <2> QED BY <2>1 DEF NewTask, TaskType, GoodTask
<1>4. /\ tasks \in Seq(TaskType(0)) /\ Cur = 1 /\ tasks[1] = NewTask
  BY <1>1, <1>3 DEF Cur
<1>5. ops \in [Slots -> OpType(0)] /\ \A o \in Slots : ops[o].at = "idle"
  BY <1>1, IdleIs
<1>6. messages \in Seq(MessageType(0))
  BY <1>1, EmptySeq
<1>7. RepoTypes
  <2>1. head \in 0..Len(commits)
    BY <1>1, <1>2
  <2>3. exists \in BOOLEAN
    BY <1>1
  <2>2. \A c \in 1..Len(commits) : commits[c].parent < c
    BY <1>2
  <2> QED BY <1>1, <1>2, <2>1, <2>2, <2>3 DEF RepoTypes
<1>8. Types
  BY <1>2, <1>4, <1>5, <1>6, <1>7 DEF Types
<1>9. \A t \in 1..Cur : GoodTask(tasks[t])
  BY <1>3, <1>4
<1>10. \A o \in Slots : GoodOp(ops[o])
  BY <1>5 DEF GoodOp
<1> QED BY <1>8, <1>9, <1>10 DEF CInv

LEMMA StutterKeeps == ASSUME CInv, UNCHANGED vars PROVE CInv'
<1>1. UNCHANGED <<workspace, repo, tasks, ops, messages>>
  BY DEF vars
<1>2. Len(commits) \in Nat
  BY TypesGive DEF CInv
<1>3. /\ tasks' \in Seq(TaskType(Len(commits))) /\ Evolves
      /\ \A u \in 1..Cur' : GoodTask(tasks'[u])
  BY <1>1, <1>2, TasksSame
<1>4. ops' \in [Slots -> OpType(Len(commits))] /\ \A p \in Slots : GoodOp(ops[p])'
  BY <1>1, <1>2, <1>3, OpsSame DEF repo
<1> QED BY <1>1, <1>3, <1>4, RepoKept, NoCommit DEF repo

LEMMA StepKeepsCInv == CInv /\ [Next]_vars => CInv'
<1> SUFFICES ASSUME CInv, [Next]_vars PROVE CInv'
  OBVIOUS
<1>1. ASSUME NEW o \in Slots, OpStep(o) PROVE CInv'
  BY <1>1, LookedKeeps, MadeKeeps, CreatedKeeps, OpenedKeeps, StageKeeps,
     CommittedKeeps, FailsKeeps, RestoreBeginsKeeps, WaitedKeeps, CleanKeeps,
     ResetKeeps, CutKeeps, CancelAgainKeeps DEF OpStep
<1>2. ASSUME NEW t \in 1..Cur, LoopStarts(t) \/ CheckpointSave(t) \/ CheckpointDiff(t)
      PROVE  CInv'
  BY <1>2, LoopKeeps, SaveKeeps
<1>3. ASSUME NEW i \in DOMAIN messages, AskForRestore(i) PROVE CInv'
  BY <1>3, AskForRestoreKeeps
<1>4. ASSUME NEW f \in Files, Edit(f) PROVE CInv'
  BY <1>4, EditKeeps
<1>5. CASE CancelTask
  BY <1>5, CancelKeeps
<1>6. CASE UNCHANGED vars
  BY <1>6, StutterKeeps
<1> QED BY <1>1, <1>2, <1>3, <1>4, <1>5, <1>6 DEF Next

(* In every state the repository, the Cline objects and the operations fit  *)
(* together: whatever a save, a restore or an old task's git command comes *)
(* between, a save has a service that is ready, and a reset comes after    *)
(* all that it would not overwrite is gone.                                *)
THEOREM CheckpointsInvariant == Spec => []CInv
<1>1. Init => CInv
  BY InitIsCInv
<1>2. CInv /\ [Next]_vars => CInv'
  BY StepKeepsCInv
<1> QED BY <1>1, <1>2, PTL DEF Spec

(* Commits, messages and _checkpoints refer to commits there are, and every *)
(* operation to a Cline object.                                            *)
THEOREM TypeCorrect == Spec => []TypeOK
<1>1. CInv => TypeOK
  BY TypesImplyTypeOK
<1> QED BY <1>1, CheckpointsInvariant, PTL

(* Checkpoints are turned off by an error only: the way on which a save    *)
(* finds a service not yet there is never taken.                           *)
THEOREM ErrorsOnlyDisable == Spec => []DisabledByErrorOnly
<1>1. CInv => DisabledByErrorOnly
  BY DEF CInv, GoodTask, DisabledByErrorOnly
<1> QED BY <1>1, CheckpointsInvariant, PTL

\* Only git reset takes an operation on from "reset" to what follows.
LEMMA OnlyResetGoesOn ==
  ASSUME CInv, Next, NEW o \in Slots, ops[o].at = "reset",
         ops'[o].at \in {"cut", "again"}
  PROVE  Reset(o)
<1> USE DEF Slots
<1>1. /\ ops \in [Slots -> OpType(Len(commits))] /\ DOMAIN ops = Slots
  BY DEF CInv, Types
<1>2. ASSUME NEW op, Begin(op) PROVE FALSE
  <2>1. PICK p \in Slots : IsFree(p) /\ ops' = [ops EXCEPT ![p] = op]
    BY <1>2 DEF Begin
  <2> QED BY <1>1, <2>1 DEF IsFree
<1>3. ASSUME NEW p \in Slots, OpStep(p), ops[p].at # "reset" PROVE FALSE
  <2>1. p # o
    BY <1>3
  <2>2. ASSUME ops'[o] = ops[o] PROVE FALSE
    BY <2>2
  <2>3. CASE CheckpointRestore(p)
    <3>1. ops'[o] = ops[o]
      BY <1>1, <2>1, <2>3 DEF CheckpointRestore, Ends, IsFree
    <3> QED BY <3>1, <2>2
  <2>4. ASSUME NEW x, ops' = [ops EXCEPT ![p] = x] PROVE FALSE
    BY <1>1, <2>1, <2>2, <2>4
  <2>5. ASSUME NEW at, Goes(p, at) PROVE FALSE
    BY <1>1, <2>1, <2>2, <2>5 DEF Goes
  <2>6. ~Ends(p)
    BY <2>4 DEF Ends
  <2> QED BY <1>3, <2>3, <2>4, <2>5, <2>6
          DEF OpStep, Looked, Made, Created, Opened, Ready, StageAll, Committed,
              Fails, Waited, Clean, Reset, Cut, CancelAgain
<1>4. ASSUME NEW p \in Slots, OpStep(p), ops[p].at = "reset" PROVE Reset(p)
  <2>1. ASSUME Ends(p) PROVE FALSE
    BY <1>1, <2>1 DEF Ends, Idle
  <2>2. ~Fails(p)
    BY <2>1 DEF Fails
  <2> QED BY <1>4, <2>2 DEF OpStep, Looked, Made, Created, Opened, StageAll,
                            Committed, CheckpointRestore, Waited, Clean, Cut,
                            CancelAgain
<1>5. ASSUME NEW p \in Slots, Reset(p) PROVE p = o
  <2>1. PICK at \in {"cut", "again"} : Goes(p, at)
    BY <1>5 DEF Reset
  <2> QED BY <1>1, <2>1 DEF Goes
<1>6. ASSUME ops' = ops PROVE FALSE
  BY <1>6
<1>7. ASSUME NEW f, Edit(f) PROVE FALSE
  <2>1. ops[o] \in OpType(Len(commits)) /\ ops'[o] = [ops[o] EXCEPT !.edited = ops[o].at = "reset"]
    BY <1>1, <1>7 DEF Edit
  <2>2. ops'[o].at = ops[o].at
    BY <2>1 DEF OpType
  <2> QED BY <2>2
<1>8. ASSUME NEW t, CheckpointDiff(t) PROVE FALSE
  <2>1. PICK p, q \in Slots :
          /\ ops[p].at = "idle" /\ ops[q].at = "idle"
          /\ ops' = [ops EXCEPT ![p] = Op("look", t), ![q] = Op("wait", t)]
    BY <1>2, <1>8 DEF CheckpointDiff
  <2> QED BY <1>1, <2>1
<1>9. PICK p \in Slots : OpStep(p)
  BY <1>2, <1>6, <1>7, <1>8 DEF Next, LoopStarts, CheckpointSave, AskForRestore,
                               CancelTask
<1> QED BY <1>3, <1>4, <1>5, <1>9

(* A restore leaves the workspace exactly as the checkpoint's commit has it *)
(* unless a file is edited between its git clean and its git reset,        *)
(* whatever other operations have staged or committed meanwhile.           *)
THEOREM RestoresExactly == Spec => RestoreIsExact
<1> DEFINE Exact == \A o \in Slots :
                      ops[o].at = "reset" /\ ~ops[o].edited
                        /\ head' = ops[o].target /\ ops'[o].at \in {"cut", "again"}
                      => workspace' = Tree(ops[o].target)
<1>1. CInv /\ [Next]_vars => [Exact]_vars
  <2> SUFFICES ASSUME CInv, Next, NEW o \in Slots,
                      ops[o].at = "reset", ~ops[o].edited,
                      ops'[o].at \in {"cut", "again"}
               PROVE  workspace' = Tree(ops[o].target)
    OBVIOUS
  <2>1. Reset(o)
    BY OnlyResetGoesOn
  <2>2. workspace \subseteq index
    BY DEF CInv, GoodOp
  <2> QED BY <2>1, <2>2 DEF Reset
<1> QED BY <1>1, CheckpointsInvariant, PTL DEF Spec, RestoreIsExact

-----------------------------------------------------------------------------
(* The first checkpoint of a Cline object.                                 *)

(* Messages are of Cline objects there are; once the one in charge has     *)
(* shown a checkpoint its _checkpoints are not empty again.                *)
FirstInv ==
  /\ \A i \in DOMAIN messages :
       /\ messages[i].by \in 1..Cur
       /\ messages[i].by = Cur => tasks[Cur].points # <<>>
  /\ OneFirst

\* No message is new, and the Cline object in charge keeps its points.
LEMMA NoNewMessage ==
  ASSUME FirstInv, Cur \in Nat, DOMAIN messages' \subseteq DOMAIN messages,
         \A i \in DOMAIN messages' : messages'[i] = messages[i],
         \/ /\ Cur' = Cur
            /\ tasks[Cur].points # <<>> => tasks'[Cur].points # <<>>
         \/ Cur' = Cur + 1
  PROVE  FirstInv'
<1>1. \A i \in DOMAIN messages' : messages'[i].by \in 1..Cur'
  BY DEF FirstInv
<1>2. ASSUME NEW i \in DOMAIN messages', messages'[i].by = Cur'
      PROVE  tasks'[Cur'].points # <<>>
  BY <1>2 DEF FirstInv
<1>3. OneFirst'
  BY DEF FirstInv, OneFirst
<1> QED BY <1>1, <1>2, <1>3 DEF FirstInv

\* Replacing the Cline object in charge.
LEMMA ReplacedKeepsFirst ==
  ASSUME CInv, FirstInv, Replaced, messages' = messages
  PROVE  FirstInv'
BY ReplacedIs, TypesGive, NoNewMessage DEF CInv

\* What is left of _checkpoints that are not empty is not empty.
LEMMA UpToNotEmpty ==
  ASSUME NEW n \in Nat, NEW points \in Seq(1..n), points # <<>>, NEW c
  PROVE  UpTo(points, c) # <<>>
<1> DEFINE S == {k \in DOMAIN points : \A m \in 1..(k - 1) : points[m] # c}
<1>1. Len(points) \in Nat /\ DOMAIN points = 1..Len(points) /\ S \subseteq 1..Len(points)
  BY LenProperties
<1>2. 1 \in S
  BY <1>1, EmptySeq
<1>3. IsFiniteSet(S)
  <2> DEFINE l == Len(points)
  <2>1. 1 \in Int /\ l \in Int
    BY <1>1
  <2> HIDE DEF l
  <2>2. IsFiniteSet(1..l)
    BY <2>1, FS_Interval
  <2> HIDE DEF S
  <2> QED BY <1>1, <2>2, FS_Subset DEF l
<1> HIDE DEF S
<1>4. Cardinality(S) \in Nat /\ Cardinality(S) # 0
  BY <1>2, <1>3, FS_CardinalityType, FS_EmptySet
<1>5. Cardinality(S) <= Len(points)
  <2> DEFINE l == Len(points)
  <2>1. 1 \in Int /\ l \in Int /\ l \in Nat
    BY <1>1
  <2> HIDE DEF l
  <2>2. IsFiniteSet(1..l) /\ Cardinality(1..l) = IF 1 > l THEN 0 ELSE l - 1 + 1
    BY <2>1, FS_Interval
  <2>3. S \subseteq 1..l
    BY <1>1 DEF l
  <2>4. Cardinality(S) <= Cardinality(1..l)
    BY <2>2, <2>3, FS_Subset
  <2>5. Cardinality(1..l) = l
    BY <2>1, <2>2
  <2> QED BY <2>4, <2>5 DEF l
<1>6. \A i \in 1..Cardinality(S) : points[i] \in 1..n
  BY <1>1, <1>4, <1>5, ElementOfSeq
<1>7. Len(SubSeq(points, 1, Cardinality(S))) = Cardinality(S)
  BY <1>4, <1>6, SubSeqProperties
<1>8. SubSeq(points, 1, Cardinality(S)) # <<>>
  BY <1>4, <1>7, EmptySeq
<1> QED BY <1>8 DEF UpTo, S

\* A checkpoint that is shown.
LEMMA CommittedKeepsFirst ==
  ASSUME CInv, FirstInv, NEW o \in Slots, Committed(o)
  PROVE  FirstInv'
<1> DEFINE t == ops[o].task
           first == tasks[t].points = <<>>
<1>1. /\ Cur \in Nat /\ t \in 1..Cur /\ tasks[t] \in TaskType(Len(commits))
      /\ DOMAIN tasks = 1..Cur /\ ops[o].at = "commit"
  BY OpIs DEF Committed
<1>2. messages \in Seq(MessageType(Len(commits))) /\ Cur \in 1..Cur
  BY RepoKept, TypesGive DEF CInv
<1>3. CASE t # Cur
  <2>1. messages' = messages
    BY <1>3 DEF Committed
  <2>2. tasks' = MovedBy(t) \/ tasks' = tasks
    BY <1>3 DEF Committed
  <2>3. Cur' = Cur /\ tasks'[Cur].points = tasks[Cur].points
    <3>1. tasks[Cur] \in TaskType(Len(commits)) /\ tasks \in Seq(TaskType(Len(commits)))
      BY TypesGive DEF CInv, Types
    <3>2. Cur' = Cur
      BY <1>1, <2>2, MovedByIs, TasksSame, TypesGive DEF CInv
    <3> QED BY <1>1, <1>2, <2>2, <3>1, <3>2 DEF MovedBy, TaskType
  <2> QED BY <1>1, <2>1, <2>3, NoNewMessage
<1>4. CASE t = Cur
  <2> DEFINE from == IF first THEN tasks[t].base ELSE tasks[t].points[Len(tasks[t].points)]
             to == IF head' # head THEN head' ELSE from
             same == ~first /\ to = from
             m == [from |-> from, to |-> to, by |-> t, first |-> first,
                   moved |-> tasks[t].moved]
  <2>1. /\ tasks' = [tasks EXCEPT
                      ![t].points = IF same THEN @ ELSE Append(@, to),
                      ![t].moved = @ /\ ~(head' # head)]
        /\ messages' = Append(messages, m) \/ messages' = messages
    BY <1>4 DEF Committed
  <2>2. m.by = Cur /\ m.first = first
    BY <1>4
  <2> HIDE DEF m, to, from
  <2>3. Cur' = Cur /\ tasks'[Cur].points # <<>>
    <3>1. tasks[t].points \in Seq(1..Len(commits))
      BY <1>1 DEF TaskType
    <3>2. Len(Append(tasks[t].points, to)) = Len(tasks[t].points) + 1
      BY <3>1 DEF TaskType
    <3>3. Append(tasks[t].points, to) # <<>>
      BY <3>1, <3>2, EmptySeq, LenProperties
    <3>4. tasks'[Cur].points = IF same THEN tasks[t].points
                               ELSE Append(tasks[t].points, to)
      BY <1>1, <1>2, <1>4, <2>1 DEF TaskType
    <3>5. Cur' = Cur
      <4>1. tasks \in Seq(TaskType(Len(commits)))
        BY DEF CInv, Types
      <4> QED BY <1>1, <2>1, <4>1, LenProperties DEF Cur
    <3> QED BY <3>3, <3>4, <3>5
  <2>4. CASE messages' = messages
    BY <1>1, <2>3, <2>4, NoNewMessage
  <2>5. CASE messages' = Append(messages, m)
    <3>1. /\ Len(messages) \in Nat /\ DOMAIN messages = 1..Len(messages)
          /\ DOMAIN messages' = 1..(Len(messages) + 1)
          /\ \A i \in 1..Len(messages) : messages'[i] = messages[i]
          /\ messages'[Len(messages) + 1] = m
      BY <1>2, <2>5, LenProperties
    <3>2. \A i \in DOMAIN messages' :
            /\ messages'[i].by \in 1..Cur'
            /\ messages'[i].by = Cur' => tasks'[Cur'].points # <<>>
      BY <1>1, <1>4, <2>2, <2>3, <3>1 DEF FirstInv
    <3>3. ASSUME NEW i \in DOMAIN messages', NEW j \in DOMAIN messages',
                 messages'[i].first, messages'[i].by = messages'[j].by
          PROVE  i <= j
      <4>1. CASE i \in 1..Len(messages) /\ j \in 1..Len(messages)
        BY <3>1, <3>3, <4>1 DEF FirstInv, OneFirst
      <4>2. CASE i = Len(messages) + 1 /\ j \in 1..Len(messages)
        BY <1>4, <2>2, <3>1, <3>3, <4>2 DEF FirstInv
      <4>3. CASE j = Len(messages) + 1
        BY <3>1, <4>3
      <4> QED BY <3>1, <4>1, <4>2, <4>3
    <3>4. OneFirst'
      BY <3>3 DEF OneFirst
    <3> QED BY <3>2, <3>4 DEF FirstInv
  <2> QED BY <2>1, <2>4, <2>5
<1> QED BY <1>3, <1>4

\* The points of one Cline object are changed, but not emptied.
LEMMA PointsStay ==
  ASSUME CInv, FirstInv, NEW t \in 1..Cur, NEW r, tasks' = [tasks EXCEPT ![t] = r],
         tasks[t].points # <<>> => r.points # <<>>, messages' = messages
  PROVE  FirstInv'
<1>1. /\ Cur \in Nat /\ Cur \in 1..Cur /\ DOMAIN tasks = 1..Cur
      /\ tasks \in Seq(TaskType(Len(commits)))
  BY TypesGive DEF CInv, Types
<1>2. Cur' = Cur
  BY <1>1, LenProperties DEF Cur
<1> QED BY <1>1, <1>2, NoNewMessage

\* No Cline object changes.
LEMMA NothingShown ==
  ASSUME CInv, FirstInv, tasks' = tasks, messages' = messages
  PROVE  FirstInv'
BY TypesGive, NoNewMessage DEF CInv, Cur

\* An operation with a git command, or that waits.
LEMMA OpKeepsFirst ==
  ASSUME CInv, FirstInv, NEW o \in Slots, OpStep(o)
  PROVE  FirstInv'
<1> DEFINE n == Len(commits)
           t == ops[o].task
<1>1. CASE ops[o].at # "idle"
  <2>1. /\ t \in 1..Cur /\ tasks[t] \in TaskType(n) /\ DOMAIN tasks = 1..Cur
        /\ Cur \in Nat /\ Cur \in 1..Cur /\ tasks[Cur] \in TaskType(n) /\ n \in Nat
    BY <1>1, OpIs, TypesGive DEF CInv
  <2>2. ASSUME tasks' = Disabled(t), DOMAIN messages' \subseteq DOMAIN messages,
               \A i \in DOMAIN messages' : messages'[i] = messages[i]
        PROVE  FirstInv'
    <3> DEFINE r == [tasks[t] EXCEPT !.enabled = FALSE, !.failed = TRUE]
    <3>1. tasks' = [tasks EXCEPT ![t] = r] /\ r.points = tasks[t].points
      BY <2>1, <2>2 DEF Disabled, TaskType
    <3> HIDE DEF r
    <3>2. Cur' = Cur /\ tasks'[Cur].points = tasks[Cur].points
      BY <2>1, <2>2, <3>1, DisabledIs
    <3> QED BY <2>1, <2>2, <3>2, NoNewMessage
  <2>3. ASSUME NEW base, NEW ts \in {tasks, MovedBy(t)}, Ready(o, base, ts),
               messages' = messages
        PROVE  FirstInv'
    <3>1. /\ ts \in Seq(TaskType(n)) /\ Len(ts) = Cur
          /\ ts[Cur].points = tasks[Cur].points
      <4>1. CASE ts = tasks
        BY <4>1 DEF CInv, Types, Cur
      <4>2. CASE ts = MovedBy(t)
        BY <2>1, <4>2, MovedByGives
      <4> QED BY <4>1, <4>2
    <3>2. /\ DOMAIN ts = 1..Cur /\ ts[Cur] \in TaskType(n) /\ ts[t] \in TaskType(n)
      BY <2>1, <3>1, LenProperties, ElementOfSeq
    <3> DEFINE r == [ts[t] EXCEPT !.service = "ready", !.base = base]
    <3>3. tasks' = [ts EXCEPT ![t] = r] /\ r.points = ts[t].points
      BY <2>1, <2>3, <3>2 DEF Ready, TaskType
    <3> HIDE DEF r
    <3>4. Len(tasks') = Cur /\ tasks'[Cur].points = tasks[Cur].points
      BY <2>1, <3>1, <3>2, <3>3, LenProperties
    <3>5. Cur' = Cur
      BY <3>4 DEF Cur
    <3> QED BY <2>1, <2>3, <3>4, <3>5, NoNewMessage
  <2>4. CASE Created(o) \/ Opened(o) \/ Fails(o)
    BY <2>2, <2>3, <2>4 DEF Created, Opened, Fails
  <2>5. CASE Looked(o) \/ Made(o) \/ StageAll(o) \/ Waited(o) \/ Clean(o)
    BY <2>5, NothingShown DEF Looked, Made, StageAll, Waited, Clean
  <2>6. CASE Committed(o)
    BY <2>6, CommittedKeepsFirst
  <2>7. CASE CheckpointRestore(o)
    <3>1. messages' = messages
      BY <2>7 DEF CheckpointRestore
    <3>2. CASE tasks' = tasks
      BY <3>1, <3>2, NothingShown
    <3>3. CASE tasks' = Initializing(Cur)
      <4> DEFINE r == [tasks[Cur] EXCEPT !.service = "initializing"]
      <4>1. tasks' = [tasks EXCEPT ![Cur] = r] /\ r.points = tasks[Cur].points
        BY <2>1, <3>3 DEF TaskType, Initializing
      <4> HIDE DEF r
      <4> QED BY <2>1, <3>1, <4>1, PointsStay
    <3> QED BY <2>7, <3>2, <3>3 DEF CheckpointRestore
  <2>8. CASE Reset(o)
    <3> DEFINE c == ops[o].target
    <3>1. messages' = messages
      BY <2>8 DEF Reset
    <3>2. CASE tasks' = MovedBy(t)
      <4> DEFINE r == [tasks[Cur] EXCEPT
                        !.moved = @ \/ (t # Cur /\ tasks[Cur].service = "ready")]
      <4>1. tasks' = [tasks EXCEPT ![Cur] = r] /\ r.points = tasks[Cur].points
        BY <2>1, <3>2 DEF MovedBy, TaskType
      <4> HIDE DEF r
      <4> QED BY <2>1, <3>1, <4>1, PointsStay
    <3>3. CASE tasks' = [tasks EXCEPT
                          ![t].points = UpTo(@, c),
                          ![t].moved = @ \/ (\A k \in DOMAIN tasks[t].points :
                                              tasks[t].points[k] # c)]
      <4> DEFINE pts == UpTo(tasks[t].points, c)
                 mv == tasks[t].moved \/ (\A k \in DOMAIN tasks[t].points :
                                            tasks[t].points[k] # c)
                 r == [tasks[t] EXCEPT !.points = pts, !.moved = mv]
      <4>1. tasks' = [tasks EXCEPT ![t] = r]
        BY <2>1, <3>3
      <4>2. tasks[t].points # <<>> => pts # <<>>
        <5>1. tasks[t].points \in Seq(1..n)
          BY <2>1 DEF TaskType
        <5> QED BY <2>1, <5>1, UpToNotEmpty
      <4> HIDE DEF pts, mv
      <4>3. r.points = pts
        BY <2>1 DEF TaskType
      <4> HIDE DEF r
      <4> QED BY <2>1, <3>1, <4>1, <4>2, <4>3, PointsStay
    <3> QED BY <2>8, <3>2, <3>3 DEF Reset
  <2>9. CASE Cut(o)
    <3>1. /\ DOMAIN messages' \subseteq DOMAIN messages
          /\ \A i \in DOMAIN messages' : messages'[i] = messages[i]
      <4>1. ops[o].last \in Nat
        BY <1>1, OpIs DEF OpType
      <4>2. messages' = messages \/ messages' = UpToMessage(ops[o].last)
        BY <2>9 DEF Cut
      <4> QED BY <4>1, <4>2, UpToMessageIs
    <3>2. CASE tasks' = Disabled(t)
      BY <2>2, <3>1, <3>2
    <3>3. CASE tasks' = tasks
      BY <2>1, <3>1, <3>3, NoNewMessage DEF Cur
    <3> QED BY <2>9, <3>2, <3>3 DEF Cut
  <2>10. CASE CancelAgain(o)
    BY <2>10, ReplacedKeepsFirst DEF CancelAgain
  <2> QED BY <2>4, <2>5, <2>6, <2>7, <2>8, <2>9, <2>10 DEF OpStep
<1>2. CASE ops[o].at = "idle"
  BY <1>2 DEF OpStep, Looked, Made, Created, Opened, StageAll, Committed, Fails,
              CheckpointRestore, Waited, Clean, Reset, Cut, CancelAgain
<1> QED BY <1>1, <1>2

LEMMA StepKeepsFirst == CInv /\ FirstInv /\ [Next]_vars => FirstInv'
<1> SUFFICES ASSUME CInv, FirstInv, [Next]_vars PROVE FirstInv'
  OBVIOUS
<1>1. ASSUME NEW o \in Slots, OpStep(o) PROVE FirstInv'
  BY <1>1, OpKeepsFirst
<1>2. ASSUME NEW t \in 1..Cur, LoopStarts(t) PROVE FirstInv'
  <2>1. tasks[t] \in TaskType(Len(commits)) /\ DOMAIN tasks = 1..Cur
    BY TypesGive DEF CInv
  <2>2. /\ messages' = messages
        /\ \/ tasks' = [tasks EXCEPT ![t].service = "initializing", ![t].loop = TRUE]
           \/ tasks' = [tasks EXCEPT ![t].loop = TRUE]
    BY <1>2 DEF LoopStarts, Initializing
  <2>3. PICK r : tasks' = [tasks EXCEPT ![t] = r] /\ r.points = tasks[t].points
    <3> DEFINE r == [tasks[t] EXCEPT !.service = "initializing", !.loop = TRUE]
               s == [tasks[t] EXCEPT !.loop = TRUE]
    <3>1. r.points = tasks[t].points /\ s.points = tasks[t].points
      BY <2>1 DEF TaskType
    <3>2. tasks' = [tasks EXCEPT ![t] = r] \/ tasks' = [tasks EXCEPT ![t] = s]
      BY <2>1, <2>2
    <3> HIDE DEF r, s
    <3> QED BY <3>1, <3>2
  <2> QED BY <2>2, <2>3, PointsStay
<1>3. ASSUME NEW t \in 1..Cur, CheckpointSave(t) \/ CheckpointDiff(t) PROVE FirstInv'
  <2>1. CASE tasks' = tasks /\ messages' = messages
    BY <2>1, NothingShown
  <2>2. CASE tasks' = Initializing(t) /\ messages' = messages
    <3> DEFINE r == [tasks[t] EXCEPT !.service = "initializing"]
    <3>1. tasks[t] \in TaskType(Len(commits)) /\ DOMAIN tasks = 1..Cur
      BY TypesGive DEF CInv
    <3>2. tasks' = [tasks EXCEPT ![t] = r] /\ r.points = tasks[t].points
      BY <2>2, <3>1 DEF TaskType, Initializing
    <3> HIDE DEF r
    <3> QED BY <2>2, <3>2, PointsStay
  <2> QED BY <1>3, <2>1, <2>2, SaveBegins, DiffBegins
<1>4. ASSUME NEW i \in DOMAIN messages, AskForRestore(i) PROVE FirstInv'
  BY <1>4, ReplacedKeepsFirst DEF AskForRestore
<1>5. ASSUME NEW f \in Files, Edit(f) PROVE FirstInv'
  BY <1>5, NothingShown DEF Edit
<1>6. CASE CancelTask
  BY <1>6, ReplacedKeepsFirst DEF CancelTask
<1>7. CASE UNCHANGED vars
  BY <1>7, NothingShown DEF vars
<1> QED BY <1>1, <1>2, <1>3, <1>4, <1>5, <1>6, <1>7 DEF Next

(* Of the checkpoints one Cline object shows at most the oldest is marked  *)
(* as the first, whatever saves of the presenter, of the "initialize"      *)
(* handler, of old tasks and restores come between.                        *)
THEOREM OnlyOldestIsFirst == Spec => []OneFirst
<1>1. Init => FirstInv
  BY EmptySeq DEF Init, FirstInv, OneFirst
<1>2. CInv /\ FirstInv /\ [Next]_vars => FirstInv'
  BY StepKeepsFirst
<1>3. FirstInv => OneFirst
  BY DEF FirstInv
<1> QED BY <1>1, <1>2, <1>3, CheckpointsInvariant, PTL DEF Spec

-----------------------------------------------------------------------------
(* What a checkpoint is compared with.                                     *)

(* initShadowGit.                                                          *)
Initial(op) == op.at \in {"look", "init", "create", "first", "open"}

(* The last checkpoint that a Cline object knows of.                       *)
LastPoint(r) == IF r.points = <<>> THEN r.base ELSE r.points[Len(r.points)]

OnHead(r) == r.service = "ready" /\ ~r.moved => LastPoint(r) = head

(* Each Cline object makes or opens the repository once, before its service *)
(* is ready; a restore has one that is; the last checkpoint that the Cline *)
(* object in charge knows of is checked out, unless HEAD has been moved by *)
(* others.                                                                 *)
HeadInv ==
  /\ \A o \in Slots : Initial(ops[o]) =>
       /\ tasks[ops[o].task].service = "initializing"
       /\ \A p \in Slots : Initial(ops[p]) /\ ops[p].task = ops[o].task => p = o
  /\ \A o \in Slots : ops[o].at \in {"clean", "reset"} =>
       tasks[ops[o].task].service = "ready"
  /\ \A t \in 1..Cur : tasks[t].service # "ready" => tasks[t].points = <<>>
  /\ OnHead(tasks[Cur])
  /\ \A i \in DOMAIN messages : messages[i].to # 0
  /\ FromIsParent

(* What no step but the beginning and the end of initShadowGit, a commit   *)
(* and a reset goes beyond.                                                *)
TasksQuiet ==
  /\ Cur' \in Nat
  /\ \A u \in 1..Cur : tasks[u].service = "initializing"
                       => tasks'[u].service = "initializing"
  /\ \A u \in 1..Cur' : tasks'[u].service # "ready" => tasks'[u].points = <<>>

OpsQuiet ==
  /\ \A o \in Slots : Initial(ops'[o]) =>
       Initial(ops[o]) /\ ops'[o].task = ops[o].task
  /\ \A o \in Slots : ops'[o].at \in {"clean", "reset"} =>
       tasks'[ops'[o].task].service = "ready"

MessagesQuiet ==
  /\ DOMAIN messages' \subseteq DOMAIN messages
  /\ \A i \in DOMAIN messages' : messages'[i] = messages[i]

LEMMA InitialStays ==
  ASSUME CInv, HeadInv, TasksQuiet, OpsQuiet, NEW o \in Slots, Initial(ops'[o])
  PROVE  /\ tasks'[ops'[o].task].service = "initializing"
         /\ \A p \in Slots : Initial(ops'[p]) /\ ops'[p].task = ops'[o].task => p = o
<1>1. Initial(ops[o]) /\ ops'[o].task = ops[o].task /\ ops[o].task \in 1..Cur
  BY DEF OpsQuiet, CInv, GoodOp, Initial
<1> QED BY <1>1 DEF HeadInv, TasksQuiet, OpsQuiet

LEMMA HeadStays ==
  ASSUME CInv, HeadInv, commits' = commits,
         TasksQuiet, OpsQuiet, MessagesQuiet, OnHead(tasks[Cur])'
  PROVE  HeadInv'
<1>1. (\A i \in DOMAIN messages : messages[i].to # 0)' /\ FromIsParent'
  BY DEF HeadInv, MessagesQuiet, FromIsParent
<1> QED BY <1>1, InitialStays DEF HeadInv, OpsQuiet, TasksQuiet, Initial

\* No Cline object changes.
LEMMA SameIsQuiet ==
  ASSUME CInv, HeadInv, tasks' = tasks, head' = head
  PROVE  TasksQuiet /\ OnHead(tasks[Cur])'
BY TypesGive DEF CInv, HeadInv, TasksQuiet, OnHead, LastPoint, Cur

\* One changes, but not in what it knows of the repository.
LEMMA SetIsQuiet ==
  ASSUME CInv, HeadInv, head' = head, NEW t \in 1..Cur, NEW r,
         tasks' = [tasks EXCEPT ![t] = r],
         r.service = tasks[t].service,
         r.points = tasks[t].points, r.base = tasks[t].base,
         r.moved \in {TRUE, tasks[t].moved}
  PROVE  TasksQuiet /\ OnHead(tasks[Cur])'
<1>1. /\ Cur \in Nat /\ Cur \in 1..Cur /\ DOMAIN tasks = 1..Cur
      /\ tasks \in Seq(TaskType(Len(commits)))
  BY TypesGive DEF CInv, Types
<1>2. Cur' = Cur
  BY <1>1, LenProperties DEF Cur
<1>3. \A u \in 1..Cur : tasks'[u] = IF u = t THEN r ELSE tasks[u]
  BY <1>1
<1>4. TasksQuiet
  BY <1>1, <1>2, <1>3 DEF TasksQuiet, HeadInv
<1>5. OnHead(tasks[Cur])'
  <2> DEFINE u == tasks[Cur]
             v == tasks'[Cur]
  <2>1. /\ v.service = u.service /\ v.points = u.points /\ v.base = u.base
        /\ v.moved \in {TRUE, u.moved}
    BY <1>1, <1>3
  <2>2. OnHead(u)
    BY DEF HeadInv
  <2> HIDE DEF u, v
  <2>3. LastPoint(v) = LastPoint(u)
    BY <2>1 DEF LastPoint
  <2>4. v.service = "ready" /\ ~v.moved => LastPoint(v) = head'
    BY <2>1, <2>2, <2>3 DEF OnHead
  <2> USE DEF v
  <2> QED BY <1>2, <2>4 DEF OnHead, LastPoint
<1> QED BY <1>4, <1>5

\* The one in charge is replaced by one that has no service.
LEMMA ReplacedIsQuiet ==
  ASSUME CInv, HeadInv, Replaced, head' = head
  PROVE  TasksQuiet /\ OnHead(tasks[Cur])'
<1> DEFINE r == [tasks[Cur] EXCEPT !.points = <<>>, !.moved = FALSE]
           s == [tasks EXCEPT ![Cur] = r]
<1>1. /\ Cur \in Nat /\ Cur \in 1..Cur /\ DOMAIN tasks = 1..Cur
      /\ tasks \in Seq(TaskType(Len(commits))) /\ Cur' = Cur + 1
      /\ tasks[Cur] \in TaskType(Len(commits))
  BY TypesGive, ReplacedIs DEF CInv, Types
<1>2. r.service = tasks[Cur].service /\ r.points = <<>>
  BY <1>1 DEF TaskType
<1>3. tasks' = Append(s, NewTask)
  BY <1>1 DEF Replaced
<1>4. NewTask.service = "none" /\ NewTask.points = <<>>
  BY DEF NewTask
<1> HIDE DEF r
<1>5. /\ DOMAIN s = 1..Cur /\ Len(s) = Cur
      /\ \A u \in 1..Cur : s[u] = IF u = Cur THEN r ELSE tasks[u]
  BY <1>1, LenProperties DEF Cur
<1> HIDE DEF s
<1>6. /\ tasks'[Cur + 1] = NewTask
      /\ \A u \in 1..Cur : tasks'[u] = s[u]
  BY <1>1, <1>3, <1>5
<1>7. \A u \in 1..Cur' : u = Cur + 1 \/ u \in 1..Cur
  BY <1>1
<1>8. TasksQuiet
  BY <1>1, <1>2, <1>4, <1>5, <1>6, <1>7 DEF TasksQuiet, HeadInv
<1>9. OnHead(tasks[Cur])'
  BY <1>1, <1>4, <1>6 DEF OnHead
<1> QED BY <1>8, <1>9

\* One operation changes, or none.
LEMMA OpIsQuiet ==
  ASSUME CInv, HeadInv, Evolves, NEW o \in Slots, NEW op, ops' = [ops EXCEPT ![o] = op],
         Initial(op) => Initial(ops[o]) /\ op.task = ops[o].task,
         op.at \in {"clean", "reset"} => tasks'[op.task].service = "ready"
  PROVE  OpsQuiet
<1>1. \A p \in Slots : ops'[p] = IF p = o THEN op ELSE ops[p]
  BY DEF CInv, Types
<1>2. ASSUME NEW p \in Slots, ops[p].at \in {"clean", "reset"}
      PROVE  tasks'[ops[p].task].service = "ready"
  BY <1>2 DEF CInv, GoodOp, HeadInv, Evolves
<1> QED BY <1>1, <1>2 DEF OpsQuiet

LEMMA OpsAreQuiet ==
  ASSUME CInv, HeadInv, Evolves,
         \A o \in Slots : ops'[o].at = ops[o].at /\ ops'[o].task = ops[o].task
  PROVE  OpsQuiet
<1>1. ASSUME NEW p \in Slots, ops[p].at \in {"clean", "reset"}
      PROVE  tasks'[ops[p].task].service = "ready"
  BY <1>1 DEF CInv, GoodOp, HeadInv, Evolves
<1> QED BY <1>1 DEF OpsQuiet, Initial

\* One begins that neither makes nor restores.
LEMMA BeginIsQuiet ==
  ASSUME CInv, HeadInv, Evolves, NEW op, Begin(op),
         ~Initial(op), op.at \notin {"clean", "reset"}
  PROVE  OpsQuiet
<1>1. PICK o \in Slots : ops' = [ops EXCEPT ![o] = op]
  BY DEF Begin
<1> QED BY <1>1, OpIsQuiet

\* One goes on, or ends.
LEMMA GoesIsQuiet ==
  ASSUME CInv, HeadInv, Evolves, NEW o \in Slots, ops[o].at # "idle", NEW at \in OpPlaces,
         Goes(o, at) \/ Ends(o),
         at \in {"look", "init", "create", "first", "open"} => Initial(ops[o]),
         at # "clean", at = "reset" => ops[o].at = "clean"
  PROVE  OpsQuiet
<1>1. /\ ops[o] \in OpType(Len(commits)) /\ DOMAIN ops = Slots
      /\ ops[o].task \in 1..Cur
  BY OpIs
<1>2. CASE Goes(o, at)
  <2> DEFINE op == [ops[o] EXCEPT !.at = at]
  <2>1. op.at = at /\ op.task = ops[o].task /\ ops' = [ops EXCEPT ![o] = op]
    BY <1>1, <1>2 DEF OpType, Goes
  <2>2. op.at = "reset" => tasks'[op.task].service = "ready"
    BY <1>1, <2>1 DEF HeadInv, Evolves
  <2> HIDE DEF op
  <2>3. Initial(op) => Initial(ops[o])
    BY <2>1 DEF Initial
  <2> QED BY <2>1, <2>2, <2>3, OpIsQuiet
<1>3. CASE Ends(o)
  BY <1>3, OpIsQuiet DEF Ends, Initial, Idle
<1> QED BY <1>2, <1>3

\* initShadowGit begins: for a Cline object that has not asked for it yet.
LEMMA InitialBegins ==
  ASSUME CInv, HeadInv, NEW t \in 1..Cur, tasks[t].service = "none",
         NEW loop \in BOOLEAN, tasks' = [Initializing(t) EXCEPT ![t].loop = loop],
         NEW o \in Slots, ops'[o] = Op("look", t),
         \A p \in Slots : p # o => \/ ops'[p] = ops[p]
                                   \/ ~Initial(ops'[p]) /\ ops'[p].at \notin {"clean", "reset"},
         UNCHANGED <<repo, messages>>
  PROVE  HeadInv'
<1>1. /\ Cur' = Cur /\ Evolves /\ Cur \in 1..Cur
      /\ \A u \in 1..Cur : u # t => tasks'[u] = tasks[u]
      /\ tasks'[t].service = "initializing" /\ tasks'[t].points = tasks[t].points
  BY InitializingIs, TypesGive DEF CInv
<1>2. ops'[o].at = "look" /\ ops'[o].task = t
  BY DEF Op, Idle
<1>3. ASSUME NEW p \in Slots, Initial(ops'[p])
      PROVE  /\ tasks'[ops'[p].task].service = "initializing"
             /\ p # o => Initial(ops[p]) /\ ops'[p].task = ops[p].task
                         /\ ops[p].task # t
  <2>1. CASE p = o
    BY <1>1, <1>2, <2>1
  <2>2. CASE p # o
    <3>1. ops'[p] = ops[p] /\ ops[p].task \in 1..Cur
      BY <1>3, <2>2 DEF CInv, GoodOp, Initial
    <3>2. ops[p].task # t /\ tasks[ops[p].task].service = "initializing"
      BY <1>3, <3>1 DEF HeadInv
    <3> QED BY <1>1, <1>3, <3>1, <3>2
  <2> QED BY <2>1, <2>2
<1>4. \A p, q \in Slots : /\ Initial(ops'[p]) /\ Initial(ops'[q])
                          /\ ops'[q].task = ops'[p].task
                          => q = p
  <2> SUFFICES ASSUME NEW p \in Slots, NEW q \in Slots, Initial(ops'[p]),
                      Initial(ops'[q]), ops'[q].task = ops'[p].task
               PROVE  q = p
    OBVIOUS
  <2>1. CASE p = o \/ q = o
    BY <1>2, <1>3, <2>1
  <2>2. CASE p # o /\ q # o
    BY <1>3, <2>2 DEF HeadInv
  <2> QED BY <2>1, <2>2
<1>5. ASSUME NEW p \in Slots, ops'[p].at \in {"clean", "reset"}
      PROVE  tasks'[ops'[p].task].service = "ready"
  <2>1. ops'[p] = ops[p] /\ ops[p].task \in 1..Cur
    BY <1>2, <1>5 DEF CInv, GoodOp
  <2> QED BY <1>1, <1>5, <2>1 DEF HeadInv, Evolves
<1>6. \A u \in 1..Cur' : tasks'[u].service # "ready" => tasks'[u].points = <<>>
  BY <1>1 DEF HeadInv
<1>7. OnHead(tasks[Cur])'
  BY <1>1 DEF HeadInv, OnHead, LastPoint, repo
<1>8. (\A i \in DOMAIN messages : messages[i].to # 0)' /\ FromIsParent'
  BY DEF HeadInv, FromIsParent, repo
<1> QED BY <1>3, <1>4, <1>5, <1>6, <1>7, <1>8 DEF HeadInv

-----------------------------------------------------------------------------
\* The points up to one of them end with it.
LEMMA UpToEndsWith ==
  ASSUME NEW n \in Nat, NEW points \in Seq(1..n), NEW p \in DOMAIN points
  PROVE  LET pts == UpTo(points, points[p]) IN
         pts # <<>> /\ pts[Len(pts)] = points[p]
<1> DEFINE c == points[p]
           l == Len(points)
           S == {k \in DOMAIN points : \A m \in 1..(k - 1) : points[m] # c}
           K == Cardinality(S)
<1>1. l \in Nat /\ l \in Int /\ 1 \in Int /\ DOMAIN points = 1..l /\ p \in 1..l
  BY LenProperties
<1>2. S \subseteq 1..l /\ 1 \in S
  BY <1>1
<1>3. \A k \in S : \A m \in 1..k : m \in S
  BY <1>1
<1>4. \A k \in 1..l : k \in S <=> \A m \in 1..(k - 1) : points[m] # c
  BY <1>1
<1>5. \A k \in Nat : IsFiniteSet(1..k) /\ Cardinality(1..k) = k
  <2> TAKE k \in Nat
  <2>1. IsFiniteSet(1..k) /\ Cardinality(1..k) = IF 1 > k THEN 0 ELSE k - 1 + 1
    BY FS_Interval
  <2> QED BY <2>1
<1> HIDE DEF S, l, c
<1>6. IsFiniteSet(S) /\ K \in Nat /\ K <= l
  <2> DEFINE I == 1..l
  <2>1. S \subseteq I /\ IsFiniteSet(I) /\ Cardinality(I) = l
    BY <1>1, <1>2, <1>5
  <2> HIDE DEF I
  <2>2. IsFiniteSet(S) /\ K <= l
    BY <2>1, FS_Subset
  <2> QED BY <2>2, FS_CardinalityType
<1> HIDE DEF K
<1>7. \A k \in S : k <= K
  <2> TAKE k \in S
  <2>1. k \in Nat /\ 1..k \in SUBSET S
    BY <1>1, <1>2, <1>3
  <2> QED BY <1>5, <1>6, <2>1, FS_Subset DEF K
<1>8. S = 1..K
  <2>1. S \in SUBSET (1..K)
    BY <1>1, <1>2, <1>7
  <2> QED BY <1>5, <1>6, <2>1, FS_Subset DEF K
<1>9. 1 <= K /\ K \in 1..l
  BY <1>1, <1>2, <1>6, <1>8
<1>10. points[K] = c
  <2>1. \A m \in 1..(K - 1) : points[m] # c
    BY <1>4, <1>8, <1>9
  <2>2. CASE K = l
    BY <1>1, <2>1, <2>2 DEF c
  <2>3. CASE K < l
    <3>1. K + 1 \in 1..l /\ K + 1 \notin S /\ (K + 1) - 1 = K
      BY <1>1, <1>6, <1>8, <2>3
    <3>2. PICK m \in 1..K : points[m] = c
      BY <1>4, <3>1
    <3> QED BY <1>6, <2>1, <3>2
  <2> QED BY <1>1, <1>6, <2>2, <2>3
<1>11. \A i \in 1..K : points[i] \in 1..n
  BY <1>1, <1>9, ElementOfSeq DEF l
<1>12. /\ SubSeq(points, 1, K) \in Seq(1..n) /\ Len(SubSeq(points, 1, K)) = K
       /\ SubSeq(points, 1, K)[K] = points[K]
  <2>1. K \in Int /\ 1 + K - 1 = K /\ K \in 1..(K - 1 + 1)
    BY <1>6, <1>9
  <2> QED BY <1>1, <1>9, <1>11, <2>1, SubSeqProperties
<1>13. SubSeq(points, 1, K) # <<>>
  BY <1>9, <1>12, EmptySeq
<1>14. UpTo(points, points[p]) = SubSeq(points, 1, K)
  BY DEF UpTo, K, S, c
<1> QED BY <1>10, <1>12, <1>13, <1>14 DEF c

-----------------------------------------------------------------------------
(* The steps.                                                              *)

\* Checkpoints are turned off for a Cline object.
LEMMA DisabledIsQuiet ==
  ASSUME CInv, HeadInv, head' = head, NEW t \in 1..Cur, tasks' = Disabled(t)
  PROVE  TasksQuiet /\ OnHead(tasks[Cur])'
<1> DEFINE r == [tasks[t] EXCEPT !.enabled = FALSE, !.failed = TRUE]
<1>1. tasks[t] \in TaskType(Len(commits)) /\ DOMAIN tasks = 1..Cur
  BY TypesGive DEF CInv
<1>2. /\ r.service = tasks[t].service /\ r.points = tasks[t].points
      /\ r.base = tasks[t].base /\ r.moved = tasks[t].moved
      /\ tasks' = [tasks EXCEPT ![t] = r]
  BY <1>1 DEF TaskType, Disabled
<1> HIDE DEF r
<1> QED BY <1>2, SetIsQuiet

LEMMA ErrorKeepsHead ==
  ASSUME CInv, HeadInv, NEW o \in Slots, ops[o].at # "idle",
         tasks' = Disabled(ops[o].task), Ends(o),
         commits' = commits, head' = head, MessagesQuiet
  PROVE  HeadInv'
<1>1. ops[o].task \in 1..Cur /\ "cut" \in OpPlaces
  BY OpIs, Places
<1>2. TasksQuiet /\ OnHead(tasks[Cur])' /\ Evolves
  BY <1>1, DisabledIs, DisabledIsQuiet
<1>3. OpsQuiet
  BY <1>1, <1>2, GoesIsQuiet
<1> QED BY <1>2, <1>3, HeadStays

\* The service is asked for.
LEMMA LoopKeepsHead ==
  ASSUME CInv, HeadInv, NEW t \in 1..Cur, LoopStarts(t)
  PROVE  HeadInv'
<1> DEFINE n == Len(commits)
<1>1. /\ tasks[t] \in TaskType(n) /\ DOMAIN tasks = 1..Cur /\ t \in Nat /\ n \in Nat
      /\ GoodTask(tasks[t])
  BY TypesGive DEF CInv
<1>2. UNCHANGED <<repo, messages>> /\ MessagesQuiet
  BY DEF LoopStarts, MessagesQuiet
<1>3. CASE tasks' = [tasks EXCEPT ![t].loop = TRUE] /\ ops' = ops
           /\ ~(tasks[t].enabled /\ tasks[t].service = "none")
  <2> DEFINE r == [tasks[t] EXCEPT !.loop = TRUE]
  <2>1. /\ r \in TaskType(n) /\ r.service = tasks[t].service /\ r.points = tasks[t].points
        /\ r.base = tasks[t].base /\ r.moved = tasks[t].moved
        /\ r.enabled = tasks[t].enabled /\ r.failed = tasks[t].failed
        /\ tasks' = [tasks EXCEPT ![t] = r]
    BY <1>1, <1>3 DEF TaskType
  <2>2. GoodTask(r)
    BY <1>1, <1>3, <2>1 DEF GoodTask
  <2> HIDE DEF r
  <2>3. Evolves
    BY <1>1, <2>1, <2>2, TaskSet
  <2>4. TasksQuiet /\ OnHead(tasks[Cur])'
    <3>1. head' = head
      BY <1>2 DEF repo
    <3> QED BY <2>1, <3>1, SetIsQuiet
  <2>5. OpsQuiet
    BY <1>3, <2>3, OpsAreQuiet
  <2> QED BY <1>2, <2>4, <2>5, HeadStays DEF repo
<1>4. CASE /\ tasks[t].service = "none" /\ Begin(Op("look", t))
           /\ tasks' = [Initializing(t) EXCEPT ![t].loop = TRUE]
  <2>1. PICK o \in Slots : ops' = [ops EXCEPT ![o] = Op("look", t)]
    BY <1>4 DEF Begin
  <2>2. DOMAIN ops = Slots
    BY DEF CInv, Types
  <2> QED BY <1>2, <1>4, <2>1, <2>2, InitialBegins
<1> QED BY <1>3, <1>4 DEF LoopStarts

\* A save or a diff begins.
LEMMA SaveKeepsHead ==
  ASSUME CInv, HeadInv, NEW t \in 1..Cur, CheckpointSave(t) \/ CheckpointDiff(t)
  PROVE  HeadInv'
<1>1. ASSUME NEW at \in {"stage", "diff"}, Begin(Op(at, t)),
             UNCHANGED <<workspace, repo, tasks, messages>>
      PROVE  HeadInv'
  <2>1. Op(at, t).at = at
    BY DEF Op, Idle
  <2>2. Evolves /\ TasksQuiet /\ OnHead(tasks[Cur])'
    BY <1>1, TasksSame, SameIsQuiet, TypesGive DEF CInv, repo
  <2>3. OpsQuiet
    BY <1>1, <2>1, <2>2, BeginIsQuiet DEF Initial
  <2> QED BY <1>1, <2>2, <2>3, HeadStays DEF repo, MessagesQuiet
<1>2. ASSUME tasks[t].service = "none", tasks' = Initializing(t),
             UNCHANGED <<workspace, repo, messages>>,
             NEW o \in Slots, NEW p \in Slots, o # p,
             ops' = [ops EXCEPT ![o] = Op("look", t), ![p] = Op("wait", t)]
      PROVE  HeadInv'
  <2>1. tasks[t].loop \in BOOLEAN /\ DOMAIN ops = Slots
    BY TypesGive DEF CInv, TaskType, Types
  <2>2. tasks' = [Initializing(t) EXCEPT ![t].loop = tasks[t].loop]
    BY <1>2, InitializingOnly
  <2>3. Op("wait", t).at = "wait"
    BY DEF Op, Idle
  <2>4. /\ ops'[o] = Op("look", t) /\ ops'[p] = Op("wait", t)
        /\ \A s \in Slots : s # o /\ s # p => ops'[s] = ops[s]
    BY <1>2, <2>1
  <2> QED BY <1>2, <2>1, <2>2, <2>3, <2>4, InitialBegins DEF Initial
<1>3. ASSUME NEW o \in Slots, NEW p \in Slots, o < p PROVE o # p
  BY <1>3 DEF Slots
<1> QED BY <1>1, <1>2, <1>3, SaveBegins, DiffBegins

\* The repository is looked for, and made if there is none.
LEMMA LookedKeepsHead ==
  ASSUME CInv, HeadInv, NEW o \in Slots, Looked(o) \/ Made(o)
  PROVE  HeadInv'
<1>1. PICK at \in {"open", "init", "create"} :
        /\ ops[o].at \in {"look", "init"} /\ Goes(o, at)
        /\ UNCHANGED <<workspace, commits, head, index, tasks, messages>>
  BY DEF Looked, Made, repo
<1>2. Evolves /\ TasksQuiet /\ OnHead(tasks[Cur])'
  BY <1>1, TasksSame, SameIsQuiet, TypesGive DEF CInv
<1>3. OpsQuiet
  BY <1>1, <1>2, GoesIsQuiet, Places DEF Initial
<1> QED BY <1>1, <1>2, <1>3, HeadStays DEF MessagesQuiet

\* A Cline object is replaced, by the user or before a restore.
LEMMA CancelKeepsHead == ASSUME CInv, HeadInv, CancelTask PROVE HeadInv'
<1>1. Replaced /\ UNCHANGED <<workspace, repo, ops, messages>>
  BY DEF CancelTask
<1>2. Evolves /\ TasksQuiet /\ OnHead(tasks[Cur])'
  BY <1>1, ReplacedIs, ReplacedIsQuiet DEF repo
<1>3. OpsQuiet
  BY <1>1, <1>2, OpsAreQuiet
<1> QED BY <1>1, <1>2, <1>3, HeadStays DEF repo, MessagesQuiet

LEMMA AskForRestoreKeepsHead ==
  ASSUME CInv, HeadInv, NEW i \in DOMAIN messages, AskForRestore(i)
  PROVE  HeadInv'
<1> DEFINE op == [Op("asked", Cur + 1) EXCEPT !.target = messages[i].to, !.last = i]
<1>1. Replaced /\ Begin(op) /\ UNCHANGED <<workspace, repo, messages>>
  BY DEF AskForRestore
<1>2. op.at = "asked"
  BY DEF Op, Idle
<1> HIDE DEF op
<1>3. Evolves /\ TasksQuiet /\ OnHead(tasks[Cur])'
  BY <1>1, ReplacedIs, ReplacedIsQuiet DEF repo
<1>4. OpsQuiet
  BY <1>1, <1>2, <1>3, BeginIsQuiet DEF Initial
<1> QED BY <1>1, <1>3, <1>4, HeadStays DEF repo, MessagesQuiet

LEMMA EditKeepsHead == ASSUME CInv, HeadInv, NEW f \in Files, Edit(f) PROVE HeadInv'
<1>1. /\ UNCHANGED <<repo, tasks, messages>>
      /\ ops' = [o \in Slots |-> [ops[o] EXCEPT !.edited = ops[o].at = "reset"]]
  BY DEF Edit
<1>2. Evolves /\ TasksQuiet /\ OnHead(tasks[Cur])'
  BY <1>1, TasksSame, SameIsQuiet, TypesGive DEF CInv, repo
<1>3. \A o \in Slots : ops'[o].at = ops[o].at /\ ops'[o].task = ops[o].task
  <2> TAKE o \in Slots
  <2>1. ops[o] \in OpType(Len(commits))
    BY TypesGive DEF CInv
  <2> QED BY <1>1, <2>1 DEF OpType
<1>4. OpsQuiet
  BY <1>2, <1>3, OpsAreQuiet
<1> QED BY <1>1, <1>2, <1>4, HeadStays DEF repo, MessagesQuiet

\* Staging: a new repository goes on to its first commit.
LEMMA StageKeepsHead == ASSUME CInv, HeadInv, NEW o \in Slots, StageAll(o) PROVE HeadInv'
<1>1. /\ ops[o].at \in {"create", "stage", "diff"}
      /\ UNCHANGED <<workspace, commits, head, exists, tasks, messages>>
      /\ \/ ops[o].at = "create" /\ Goes(o, "first")
         \/ Goes(o, "commit")
         \/ Ends(o)
  BY DEF StageAll
<1>2. Evolves /\ TasksQuiet /\ OnHead(tasks[Cur])'
  BY <1>1, TasksSame, SameIsQuiet, TypesGive DEF CInv
<1>3. OpsQuiet
  BY <1>1, <1>2, GoesIsQuiet, Places DEF Initial
<1> QED BY <1>1, <1>2, <1>3, HeadStays DEF MessagesQuiet

\* What was shown stays so while commits are added.
LEMMA ShownStays ==
  ASSUME CInv, HeadInv, NEW c, commits' = commits \/ commits' = Append(commits, c)
  PROVE  \A i \in DOMAIN messages :
           /\ messages[i].to # 0
           /\ \/ messages[i].moved
              \/ messages[i].to = messages[i].from
              \/ commits'[messages[i].to].parent = messages[i].from
<1>1. commits \in Seq(CommitType) /\ Len(commits) \in Nat
  BY RepoKept, TypesGive DEF CInv
<1>2. \A k \in 1..Len(commits) : commits'[k] = commits[k]
  BY <1>1
<1>3. \A i \in DOMAIN messages : messages[i].to \in 1..Len(commits)
  BY TypesGive DEF CInv, HeadInv, MessageType
<1> QED BY <1>2, <1>3 DEF HeadInv, FromIsParent

\* initShadowGit is over.
LEMMA ReadyMakes ==
  ASSUME CInv, HeadInv, NEW o \in Slots, Initial(ops[o]), NEW base,
         NEW ts, Len(ts) = Cur, DOMAIN ts = 1..Cur,
         ts[ops[o].task] \in TaskType(Len(commits)),
         \A u \in 1..Cur : /\ ts[u].service = tasks[u].service
                           /\ ts[u].points = tasks[u].points,
         Ready(o, base, ts)
  PROVE  LET t == ops[o].task IN
         /\ t \in 1..Cur /\ Cur' = Cur /\ Cur \in Nat
         /\ \A u \in 1..Cur : u # t => tasks'[u] = ts[u]
         /\ tasks'[t].service = "ready" /\ tasks'[t].base = base
         /\ tasks'[t].points = <<>>
         /\ \A p \in Slots : Initial(ops'[p]) =>
              /\ tasks'[ops'[p].task].service = "initializing"
              /\ \A q \in Slots : Initial(ops'[q]) /\ ops'[q].task = ops'[p].task
                                  => q = p
         /\ \A p \in Slots : ops'[p].at \in {"clean", "reset"} =>
              tasks'[ops'[p].task].service = "ready"
         /\ \A u \in 1..Cur' : tasks'[u].service # "ready" => tasks'[u].points = <<>>
<1> DEFINE t == ops[o].task
           r == [ts[t] EXCEPT !.service = "ready", !.base = base]
           op == IF messages = <<>> THEN Op("stage", t) ELSE Idle
<1>1. /\ t \in 1..Cur /\ Cur \in Nat /\ DOMAIN ops = Slots
  BY OpIs DEF Initial
<1>2. /\ r.service = "ready" /\ r.base = base /\ r.points = ts[t].points
  BY <1>1 DEF TaskType
<1>3. op.at \in {"idle", "stage"}
  BY DEF Op, Idle
<1>4. tasks' = [ts EXCEPT ![t] = r] /\ ops' = [ops EXCEPT ![o] = op]
  BY <1>1 DEF Ready
<1>5. tasks[t].service = "initializing" /\ ts[t].points = <<>>
  BY <1>1 DEF HeadInv
<1> HIDE DEF r, op
<1>6. Len(tasks') = Cur /\ \A u \in 1..Cur : tasks'[u] = IF u = t THEN r ELSE ts[u]
  BY <1>1, <1>4, LenProperties
<1>7. Cur' = Cur
  BY <1>6 DEF Cur
<1>8. \A p \in Slots : ops'[p] = IF p = o THEN op ELSE ops[p]
  BY <1>1, <1>4
<1>9. ASSUME NEW p \in Slots, Initial(ops'[p])
      PROVE  p # o /\ ops'[p] = ops[p] /\ ops[p].task \in 1..Cur /\ ops[p].task # t
  <2>1. p # o /\ ops'[p] = ops[p]
    BY <1>3, <1>8, <1>9 DEF Initial
  <2> QED BY <1>9, <2>1 DEF HeadInv, CInv, GoodOp, Initial
<1>10. ASSUME NEW p \in Slots, Initial(ops'[p])
       PROVE  /\ tasks'[ops'[p].task].service = "initializing"
              /\ \A q \in Slots : Initial(ops'[q]) /\ ops'[q].task = ops'[p].task
                                  => q = p
  BY <1>6, <1>9, <1>10 DEF HeadInv
<1>11. ASSUME NEW p \in Slots, ops'[p].at \in {"clean", "reset"}
       PROVE  tasks'[ops'[p].task].service = "ready"
  <2>1. p # o /\ ops'[p] = ops[p] /\ ops[p].task \in 1..Cur
    BY <1>3, <1>8, <1>11 DEF CInv, GoodOp
  <2> QED BY <1>2, <1>6, <1>11, <2>1 DEF HeadInv
<1>12. \A u \in 1..Cur' : tasks'[u].service # "ready" => tasks'[u].points = <<>>
  BY <1>2, <1>6, <1>7 DEF HeadInv
<1> QED BY <1>1, <1>2, <1>5, <1>6, <1>7, <1>10, <1>11, <1>12

\* A repository is made: a service that is ready notes the commit of another.
LEMMA CreatedKeepsHead == ASSUME CInv, HeadInv, NEW o \in Slots, Created(o) PROVE HeadInv'
<1> DEFINE n == Len(commits)
           t == ops[o].task
           ts == MovedBy(t)
<1>1. /\ ops[o].at = "first" /\ Initial(ops[o]) /\ Ready(o, n + 1, ts)
      /\ head' = n + 1 /\ messages' = messages
      /\ commits' = Append(commits, [tree |-> index, parent |-> head])
  BY DEF Created, CommitsAnyway, Initial
<1>2. n \in Nat /\ t \in 1..Cur /\ Cur \in 1..Cur
  BY <1>1, OpIs, TypesGive DEF CInv
<1>3. /\ ts \in Seq(TaskType(n)) /\ Len(ts) = Cur
      /\ \A u \in 1..Cur : /\ ts[u].service = tasks[u].service
                           /\ ts[u].points = tasks[u].points
      /\ t # Cur /\ tasks[Cur].service = "ready" => ts[Cur].moved
  BY <1>2, MovedByGives
<1>4. DOMAIN ts = 1..Cur /\ ts[t] \in TaskType(n)
  BY <1>2, <1>3, LenProperties, ElementOfSeq
<1> HIDE DEF ts
<1>5. /\ Cur' = Cur
      /\ \A u \in 1..Cur : u # t => tasks'[u] = ts[u]
      /\ tasks'[t].service = "ready" /\ tasks'[t].base = n + 1
      /\ tasks'[t].points = <<>>
      /\ \A p \in Slots : Initial(ops'[p]) =>
           /\ tasks'[ops'[p].task].service = "initializing"
           /\ \A q \in Slots : Initial(ops'[q]) /\ ops'[q].task = ops'[p].task
                               => q = p
      /\ \A p \in Slots : ops'[p].at \in {"clean", "reset"} =>
           tasks'[ops'[p].task].service = "ready"
      /\ \A u \in 1..Cur' : tasks'[u].service # "ready" => tasks'[u].points = <<>>
  BY <1>1, <1>3, <1>4, ReadyMakes
<1>6. OnHead(tasks[Cur])'
  <2>1. CASE t = Cur
    BY <1>1, <1>5, <2>1 DEF OnHead, LastPoint
  <2>2. CASE t # Cur
    BY <1>2, <1>3, <1>5, <2>2 DEF OnHead
  <2> QED BY <2>1, <2>2
<1>7. FromIsParent' /\ (\A i \in DOMAIN messages : messages[i].to # 0)'
  BY <1>1, ShownStays DEF FromIsParent
<1> HIDE DEF t
<1> QED BY <1>5, <1>6, <1>7 DEF HeadInv

\* One that is there is opened.
LEMMA OpenedKeepsHead == ASSUME CInv, HeadInv, NEW o \in Slots, Opened(o) PROVE HeadInv'
<1> DEFINE t == ops[o].task
<1>1. /\ ops[o].at = "open" /\ Initial(ops[o]) /\ UNCHANGED <<workspace, repo, messages>>
  BY DEF Opened, Initial
<1>2. CASE tasks' = Disabled(t) /\ Ends(o)
  BY <1>1, <1>2, ErrorKeepsHead DEF repo, MessagesQuiet
<1>3. CASE Ready(o, head, tasks)
  <2>1. Len(tasks) = Cur /\ DOMAIN tasks = 1..Cur /\ Cur \in 1..Cur /\ t \in 1..Cur
        /\ tasks[t] \in TaskType(Len(commits))
    BY <1>1, OpIs, TypesGive DEF CInv, Cur
  <2>2. /\ Cur' = Cur
        /\ \A u \in 1..Cur : u # t => tasks'[u] = tasks[u]
        /\ tasks'[t].service = "ready" /\ tasks'[t].base = head
        /\ tasks'[t].points = <<>>
        /\ \A p \in Slots : Initial(ops'[p]) =>
             /\ tasks'[ops'[p].task].service = "initializing"
             /\ \A q \in Slots : Initial(ops'[q]) /\ ops'[q].task = ops'[p].task
                                 => q = p
        /\ \A p \in Slots : ops'[p].at \in {"clean", "reset"} =>
             tasks'[ops'[p].task].service = "ready"
        /\ \A u \in 1..Cur' : tasks'[u].service # "ready" => tasks'[u].points = <<>>
    BY <1>1, <1>3, <2>1, ReadyMakes
  <2>3. OnHead(tasks[Cur])'
    <3>1. CASE t # Cur
      BY <1>1, <2>1, <2>2, <3>1 DEF HeadInv, OnHead, LastPoint, repo
    <3>2. CASE t = Cur
      BY <1>1, <2>2, <3>2 DEF OnHead, LastPoint, repo
    <3> QED BY <3>1, <3>2
  <2>4. FromIsParent' /\ (\A i \in DOMAIN messages : messages[i].to # 0)'
    BY <1>1 DEF HeadInv, FromIsParent, repo
  <2> HIDE DEF t
  <2> QED BY <2>2, <2>3, <2>4 DEF HeadInv
<1> QED BY <1>2, <1>3 DEF Opened

\* A restore comes to the Cline object in charge.
LEMMA RestoreBeginsKeepsHead ==
  ASSUME CInv, HeadInv, NEW o \in Slots, CheckpointRestore(o)
  PROVE  HeadInv'
<1> DEFINE n == Len(commits)
           op == [ops[o] EXCEPT !.task = Cur]
<1>1. /\ ops[o].at = "asked" /\ UNCHANGED <<workspace, repo, messages>>
  BY DEF CheckpointRestore
<1>2. /\ n \in Nat /\ Cur \in Nat /\ Cur \in 1..Cur /\ ops[o] \in OpType(n)
      /\ tasks[Cur] \in TaskType(n) /\ GoodTask(tasks[Cur])
      /\ DOMAIN tasks = 1..Cur /\ DOMAIN ops = Slots
  BY TypesGive DEF CInv, Types
<1>3. op \in OpType(n) /\ op.task = Cur
  BY <1>2 DEF OpType
<1>4. \/ /\ tasks' = Initializing(Cur) /\ tasks[Cur].service = "none"
         /\ \E p \in Slots : /\ IsFree(p)
                             /\ ops' = [ops EXCEPT ![o] = [op EXCEPT !.at = "wait"],
                                                   ![p] = Op("look", Cur)]
      \/ ops' = [ops EXCEPT ![o] = Proceeds(op)] /\ tasks' = tasks
         /\ tasks[Cur].service = "ready"
      \/ Ends(o) /\ tasks' = tasks
  BY DEF CheckpointRestore
<1> HIDE DEF op
<1>5. ASSUME tasks' = tasks PROVE Evolves /\ TasksQuiet /\ OnHead(tasks[Cur])'
  BY <1>1, <1>2, <1>5, TasksSame, SameIsQuiet DEF repo
<1>6. CASE ops' = [ops EXCEPT ![o] = Proceeds(op)] /\ tasks' = tasks
           /\ tasks[Cur].service = "ready"
  <2>1. OpsQuiet
    BY <1>2, <1>3, <1>5, <1>6, ProceedsIs, OpIsQuiet DEF Initial
  <2> QED BY <1>1, <1>5, <1>6, <2>1, HeadStays DEF repo, MessagesQuiet
<1>7. CASE Ends(o) /\ tasks' = tasks
  <2>1. OpsQuiet
    BY <1>1, <1>5, <1>7, GoesIsQuiet, Places
  <2> QED BY <1>1, <1>5, <1>7, <2>1, HeadStays DEF repo, MessagesQuiet
<1>8. CASE /\ tasks' = Initializing(Cur) /\ tasks[Cur].service = "none"
           /\ \E p \in Slots : /\ IsFree(p)
                               /\ ops' = [ops EXCEPT ![o] = [op EXCEPT !.at = "wait"],
                                                     ![p] = Op("look", Cur)]
  <2> DEFINE w == [op EXCEPT !.at = "wait"]
  <2>1. tasks[Cur].loop \in BOOLEAN
    BY <1>2 DEF TaskType
  <2>2. tasks' = [Initializing(Cur) EXCEPT ![Cur].loop = tasks[Cur].loop]
    BY <1>2, <1>8, InitializingOnly
  <2>3. w.at = "wait"
    BY <1>3 DEF OpType
  <2>4. PICK p \in Slots : ops' = [ops EXCEPT ![o] = w, ![p] = Op("look", Cur)]
    BY <1>8
  <2> HIDE DEF w
  <2>5. /\ ops'[p] = Op("look", Cur)
        /\ \A s \in Slots : s # p => ops'[s] = w \/ ops'[s] = ops[s]
    BY <1>2, <2>4
  <2>6. \A s \in Slots : s # p => \/ ops'[s] = ops[s]
                                  \/ ~Initial(ops'[s]) /\ ops'[s].at \notin {"clean", "reset"}
    BY <2>3, <2>5 DEF Initial
  <2>7. UNCHANGED <<repo, messages>> /\ Cur \in 1..Cur /\ tasks[Cur].service = "none"
    BY <1>1, <1>2, <1>8
  <2> QED BY <2>1, <2>2, <2>5, <2>6, <2>7, InitialBegins
<1> QED BY <1>4, <1>6, <1>7, <1>8

\* It goes on with a service that is ready.
LEMMA WaitedKeepsHead == ASSUME CInv, HeadInv, NEW o \in Slots, Waited(o) PROVE HeadInv'
<1> DEFINE n == Len(commits)
<1>1. /\ ops[o].at = "wait" /\ UNCHANGED <<workspace, repo, tasks, messages>>
      /\ \/ ops' = [ops EXCEPT ![o] = Proceeds(ops[o])] /\ tasks[ops[o].task].service = "ready"
         \/ ops' = [ops EXCEPT ![o] = Idle]
  BY DEF Waited
<1>2. n \in Nat /\ ops[o] \in OpType(n)
  BY <1>1, OpIs
<1>3. PICK q \in OpType(n) :
        /\ ops' = [ops EXCEPT ![o] = q] /\ q.at \in {"clean", "diff", "idle"}
        /\ q.at = "clean" => tasks[q.task].service = "ready"
  <2>1. CASE ops' = [ops EXCEPT ![o] = Proceeds(ops[o])] /\ tasks[ops[o].task].service = "ready"
    <3>1. /\ Proceeds(ops[o]) \in OpType(n) /\ Proceeds(ops[o]).at \in {"clean", "diff", "idle"}
          /\ Proceeds(ops[o]).at # "idle" => Proceeds(ops[o]).task = ops[o].task
      BY <1>2, ProceedsIs
    <3> QED BY <2>1, <3>1
  <2>2. CASE ops' = [ops EXCEPT ![o] = Idle]
    BY <1>2, <2>2, IdleIs
  <2> QED BY <1>1, <2>1, <2>2
<1>4. Evolves /\ TasksQuiet /\ OnHead(tasks[Cur])'
  BY <1>1, <1>2, TasksSame, SameIsQuiet DEF repo
<1>5. OpsQuiet
  BY <1>1, <1>3, <1>4, OpIsQuiet DEF Initial
<1> QED BY <1>1, <1>4, <1>5, HeadStays DEF repo, MessagesQuiet

LEMMA CleanKeepsHead == ASSUME CInv, HeadInv, NEW o \in Slots, Clean(o) PROVE HeadInv'
<1>1. ops[o].at = "clean" /\ Goes(o, "reset") /\ UNCHANGED <<repo, tasks, messages>>
  BY DEF Clean
<1>2. Evolves /\ TasksQuiet /\ OnHead(tasks[Cur])'
  BY <1>1, TasksSame, SameIsQuiet, TypesGive DEF CInv, repo
<1>3. OpsQuiet
  BY <1>1, <1>2, GoesIsQuiet, Places
<1> QED BY <1>1, <1>2, <1>3, HeadStays DEF repo, MessagesQuiet

\* Messages are dropped.
LEMMA CutKeepsHead == ASSUME CInv, HeadInv, NEW o \in Slots, Cut(o) PROVE HeadInv'
<1>1. /\ ops[o].at = "cut" /\ UNCHANGED <<workspace, repo>>
      /\ messages' = messages \/ messages' = UpToMessage(ops[o].last)
  BY DEF Cut
<1>2. MessagesQuiet
  <2>1. ops[o].last \in Nat
    BY <1>1, OpIs DEF OpType
  <2> QED BY <1>1, <2>1, UpToMessageIs DEF MessagesQuiet
<1>3. CASE Goes(o, "again") /\ tasks' = tasks
  <2>1. Evolves /\ TasksQuiet /\ OnHead(tasks[Cur])'
    BY <1>1, <1>3, TasksSame, SameIsQuiet, TypesGive DEF CInv, repo
  <2>2. OpsQuiet
    BY <1>1, <1>3, <2>1, GoesIsQuiet, Places
  <2> QED BY <1>1, <1>2, <2>1, <2>2, HeadStays DEF repo
<1>4. CASE tasks' = Disabled(ops[o].task) /\ Ends(o)
  BY <1>1, <1>2, <1>4, ErrorKeepsHead DEF repo
<1> QED BY <1>3, <1>4 DEF Cut

LEMMA CancelAgainKeepsHead ==
  ASSUME CInv, HeadInv, NEW o \in Slots, CancelAgain(o)
  PROVE  HeadInv'
<1>1. /\ ops[o].at = "again" /\ Replaced /\ Ends(o)
      /\ UNCHANGED <<workspace, repo, messages>>
  BY DEF CancelAgain
<1>2. Evolves /\ TasksQuiet /\ OnHead(tasks[Cur])'
  BY <1>1, ReplacedIs, ReplacedIsQuiet DEF repo
<1>3. OpsQuiet
  BY <1>1, <1>2, GoesIsQuiet, Places
<1> QED BY <1>1, <1>2, <1>3, HeadStays DEF repo, MessagesQuiet

-----------------------------------------------------------------------------
(* HEAD is moved: by a commit, and by a reset.                             *)

LEMMA HeadMoves ==
  ASSUME CInv, HeadInv, TasksQuiet, OpsQuiet, OnHead(tasks[Cur])',
         \A i \in DOMAIN messages' : messages'[i].to # 0, FromIsParent'
  PROVE  HeadInv'
BY InitialStays DEF HeadInv, OpsQuiet, TasksQuiet, Initial

LEMMA SetTask ==
  ASSUME CInv, HeadInv, NEW t \in 1..Cur, NEW r, tasks' = [tasks EXCEPT ![t] = r],
         r.service = tasks[t].service, r.service # "ready" => r.points = <<>>
  PROVE  /\ TasksQuiet /\ Evolves /\ Cur' = Cur /\ Cur \in 1..Cur
         /\ \A u \in 1..Cur : tasks'[u] = IF u = t THEN r ELSE tasks[u]
<1>1. /\ Cur \in Nat /\ Cur \in 1..Cur /\ DOMAIN tasks = 1..Cur
      /\ tasks \in Seq(TaskType(Len(commits)))
  BY TypesGive DEF CInv, Types
<1>2. Cur' = Cur
  BY <1>1, LenProperties DEF Cur
<1> QED BY <1>1, <1>2 DEF TasksQuiet, HeadInv, Evolves

\* Moved by an old task: the one in charge, if it has a service, notes it.
LEMMA MovedByNotes ==
  ASSUME CInv, HeadInv, NEW t \in 1..Cur, t # Cur, tasks' = MovedBy(t)
  PROVE  TasksQuiet /\ Evolves /\ OnHead(tasks[Cur])'
<1> DEFINE b == t # Cur /\ tasks[Cur].service = "ready"
           r == [tasks[Cur] EXCEPT !.moved = @ \/ b]
<1>1. /\ Cur \in 1..Cur /\ tasks[Cur] \in TaskType(Len(commits))
      /\ DOMAIN tasks = 1..Cur
  BY TypesGive DEF CInv
<1>2. tasks' = [tasks EXCEPT ![Cur] = r]
  BY <1>1 DEF MovedBy
<1>3. r.service = tasks[Cur].service /\ r.points = tasks[Cur].points
  BY <1>1 DEF TaskType
<1>4. r.moved = (tasks[Cur].moved \/ b)
  BY <1>1 DEF TaskType
<1>5. r.service = "ready" => r.moved
  BY <1>3, <1>4
<1> HIDE DEF r
<1>6. r.service # "ready" => r.points = <<>>
  BY <1>1, <1>3 DEF HeadInv
<1>7. TasksQuiet /\ Evolves /\ Cur' = Cur /\ tasks'[Cur] = r
  BY <1>1, <1>2, <1>3, <1>6, SetTask
<1> QED BY <1>5, <1>7 DEF OnHead

LEMMA CommittedKeepsHead ==
  ASSUME CInv, HeadInv, NEW o \in Slots, Committed(o)
  PROVE  HeadInv'
<1> DEFINE n == Len(commits)
           t == ops[o].task
           pts == tasks[t].points
           first == pts = <<>>
           from == IF first THEN tasks[t].base ELSE pts[Len(pts)]
           made == head' # head
           to == IF made THEN head' ELSE from
           same == ~first /\ to = from
           m == [from |-> from, to |-> to, by |-> t, first |-> first,
                 moved |-> tasks[t].moved]
           c == [tree |-> index, parent |-> head]
<1>1. /\ ops[o].at = "commit" /\ Commits /\ Ends(o)
      /\ UNCHANGED <<workspace, index, exists>>
  BY DEF Committed
<1>2. /\ t \in 1..Cur /\ tasks[t] \in TaskType(n) /\ GoodTask(tasks[t])
      /\ n \in Nat /\ Cur \in Nat /\ tasks[t].service = "ready" /\ DOMAIN tasks = 1..Cur
  BY <1>1, OpIs DEF CInv, GoodOp
<1>3. /\ head \in 0..n /\ commits \in Seq(CommitType)
      /\ messages \in Seq(MessageType(n))
  BY RepoKept
<1>4. \/ ~made /\ commits' = commits
      \/ made /\ commits' = Append(commits, c) /\ head' = n + 1
  BY <1>1, <1>2, <1>3 DEF Commits, CommitsAnyway
<1>5. pts \in Seq(1..n) /\ tasks[t].base \in 1..n
  BY <1>2 DEF TaskType, GoodTask
<1>6. from \in 1..n
  <2>1. CASE first
    BY <1>5, <2>1
  <2>2. CASE ~first
    <3>1. Len(pts) \in 1..Len(pts)
      BY <1>5, <2>2, EmptySeq, LenProperties
    <3> QED BY <1>5, <2>2, <3>1, ElementOfSeq
  <2> QED BY <2>1, <2>2
<1>7. to # 0
  BY <1>2, <1>4, <1>6
<1>8. \/ t # Cur /\ made /\ tasks' = MovedBy(t) /\ messages' = messages
      \/ t # Cur /\ ~made /\ tasks' = tasks /\ messages' = messages
      \/ /\ t = Cur
         /\ tasks' = [tasks EXCEPT ![t].points = IF same THEN @ ELSE Append(@, to),
                                   ![t].moved = @ /\ ~made]
         /\ messages' = Append(messages, m) \/ messages' = messages
  BY DEF Committed
<1>9. from = LastPoint(tasks[t])
  BY DEF LastPoint
<1>10. \A i \in DOMAIN messages :
         /\ messages[i].to # 0
         /\ \/ messages[i].moved
            \/ messages[i].to = messages[i].from
            \/ commits'[messages[i].to].parent = messages[i].from
  <2> HIDE DEF c
  <2> QED BY <1>4, ShownStays
<1>11. ASSUME Evolves PROVE OpsQuiet
  BY <1>1, <1>11, GoesIsQuiet, Places
<1>12. CASE t # Cur
  <2>1. messages' = messages /\ tasks' \in {tasks, MovedBy(t)}
        /\ (tasks' = MovedBy(t) \/ head' = head)
    BY <1>8, <1>12
  <2>2. TasksQuiet /\ Evolves /\ OnHead(tasks[Cur])'
    BY <1>2, <1>12, <2>1, MovedByNotes, SameIsQuiet, TasksSame
  <2>3. FromIsParent' /\ \A i \in DOMAIN messages' : messages'[i].to # 0
    BY <1>10, <2>1 DEF FromIsParent
  <2> HIDE DEF t
  <2> QED BY <1>1, <1>2, <1>11, <2>2, <2>3, HeadMoves
<1>13. CASE t = Cur
  <2> DEFINE new == IF same THEN pts ELSE Append(pts, to)
             mv == tasks[t].moved /\ ~made
             r == [tasks[t] EXCEPT !.points = new, !.moved = mv]
  <2>1. tasks' = [tasks EXCEPT ![t] = r]
    BY <1>2, <1>8, <1>13
  <2>2. r.service = "ready" /\ r.points = new /\ r.moved = mv
    BY <1>2 DEF TaskType
  <2>3. TasksQuiet /\ Evolves /\ Cur' = Cur /\ tasks'[Cur] = r
    <3> HIDE DEF r
    <3> QED BY <1>2, <1>13, <2>1, <2>2, SetTask
  <2>4. ~tasks[t].moved => from = head
    BY <1>2, <1>9, <1>13 DEF HeadInv, OnHead
  <2>5. ~mv => new # <<>> /\ new[Len(new)] = head'
    <3>1. Append(pts, to) # <<>> /\ Append(pts, to)[Len(Append(pts, to))] = to
      <4>1. /\ Len(Append(pts, to)) = Len(pts) + 1 /\ Len(pts) \in Nat
            /\ Append(pts, to)[Len(pts) + 1] = to
        <5> HIDE DEF pts, to
        <5> QED BY <1>5, LenProperties
      <4>2. Len(Append(pts, to)) # Len(<<>>)
        <5> HIDE DEF pts, to
        <5> QED BY <4>1
      <4> QED BY <4>1, <4>2
    <3>2. CASE made
      <4>1. head' = n + 1 /\ to = head' /\ to # from
        BY <1>2, <1>4, <1>6, <3>2
      <4> QED BY <3>1, <4>1
    <3>3. CASE ~made /\ ~tasks[t].moved
      <4>1. to = head' /\ from = head'
        BY <2>4, <3>3
      <4>2. CASE same
        BY <4>1, <4>2
      <4>3. CASE ~same
        BY <3>1, <4>1, <4>3
      <4> QED BY <4>2, <4>3
    <3> QED BY <3>2, <3>3
  <2>6. OnHead(tasks[Cur])'
    BY <2>2, <2>3, <2>5 DEF OnHead, LastPoint
  <2>7. FromIsParent' /\ \A i \in DOMAIN messages' : messages'[i].to # 0
    <3>1. CASE messages' = messages
      BY <1>10, <3>1 DEF FromIsParent
    <3>2. CASE messages' = Append(messages, m)
      <4>1. m.to = to /\ m.from = from /\ m.moved = tasks[t].moved
        OBVIOUS
      <4>2. m.moved \/ m.to = m.from \/ commits'[m.to].parent = m.from
        <5>1. CASE ~made
          BY <4>1, <5>1
        <5>2. CASE made /\ ~tasks[t].moved
          <6>1. commits'[n + 1] = c /\ c.parent = head
            BY <1>3, <1>4, <5>2
          <6> QED BY <1>4, <2>4, <4>1, <5>2, <6>1
        <5> QED BY <4>1, <5>1, <5>2
      <4> HIDE DEF m
      <4>3. /\ DOMAIN messages' = 1..(Len(messages) + 1) /\ Len(messages) \in Nat
            /\ DOMAIN messages = 1..Len(messages)
            /\ \A i \in 1..Len(messages) : messages'[i] = messages[i]
            /\ messages'[Len(messages) + 1] = m
        BY <1>3, <3>2, LenProperties
      <4>4. ASSUME NEW i \in DOMAIN messages'
            PROVE  /\ messages'[i].to # 0
                   /\ \/ messages'[i].moved
                      \/ messages'[i].to = messages'[i].from
                      \/ commits'[messages'[i].to].parent = messages'[i].from
        <5>1. CASE i = Len(messages) + 1
          BY <1>7, <4>1, <4>2, <4>3, <5>1
        <5>2. CASE i # Len(messages) + 1
          <6>1. i \in DOMAIN messages /\ messages'[i] = messages[i]
            BY <4>3, <5>2
          <6> QED BY <1>10, <6>1
        <5> QED BY <5>1, <5>2
      <4> QED BY <4>4 DEF FromIsParent
    <3> QED BY <1>8, <1>13, <3>1, <3>2
  <2> QED BY <1>1, <1>2, <1>11, <2>3, <2>6, <2>7, HeadMoves
<1> QED BY <1>12, <1>13

LEMMA ResetKeepsHead == ASSUME CInv, HeadInv, NEW o \in Slots, Reset(o) PROVE HeadInv'
<1> DEFINE n == Len(commits)
           t == ops[o].task
           c == ops[o].target
<1>1. /\ ops[o].at = "reset" /\ head' = c /\ UNCHANGED <<commits, exists, messages>>
      /\ \E at \in {"cut", "again"} : Goes(o, at)
  BY DEF Reset
<1>2. /\ t \in 1..Cur /\ tasks[t] \in TaskType(n) /\ n \in Nat
      /\ tasks[t].service = "ready" /\ DOMAIN tasks = 1..Cur
  BY <1>1, OpIs DEF HeadInv
<1>3. TasksQuiet /\ Evolves /\ OnHead(tasks[Cur])'
  <2>1. CASE t # Cur
    BY <1>2, <2>1, MovedByNotes DEF Reset
  <2>2. CASE t = Cur
    <3> DEFINE pts == UpTo(tasks[t].points, c)
               mv == tasks[t].moved \/ (\A k \in DOMAIN tasks[t].points :
                                          tasks[t].points[k] # c)
               r == [tasks[t] EXCEPT !.points = pts, !.moved = mv]
    <3>1. tasks' = [tasks EXCEPT ![t] = r]
      BY <1>2, <2>2 DEF Reset
    <3>2. r.service = "ready" /\ r.points = pts /\ r.moved = mv
      BY <1>2 DEF TaskType
    <3>3. ~mv => pts # <<>> /\ pts[Len(pts)] = head'
      <4>1. tasks[t].points \in Seq(1..n)
        BY <1>2 DEF TaskType
      <4> SUFFICES ASSUME ~mv PROVE pts # <<>> /\ pts[Len(pts)] = c
        BY <1>1
      <4>2. PICK k \in DOMAIN tasks[t].points : tasks[t].points[k] = c
        OBVIOUS
      <4> QED BY <1>2, <4>1, <4>2, UpToEndsWith
    <3> HIDE DEF r, pts, mv
    <3>4. TasksQuiet /\ Evolves /\ Cur' = Cur /\ tasks'[Cur] = r
      BY <1>2, <2>2, <3>1, <3>2, SetTask
    <3> QED BY <3>2, <3>3, <3>4 DEF OnHead, LastPoint
  <2> QED BY <2>1, <2>2
<1>4. OpsQuiet
  BY <1>1, <1>3, GoesIsQuiet, Places
<1>5. FromIsParent' /\ \A i \in DOMAIN messages' : messages'[i].to # 0
  BY <1>1 DEF HeadInv, FromIsParent
<1> HIDE DEF t
<1> QED BY <1>1, <1>2, <1>3, <1>4, <1>5, HeadMoves

LEMMA StepKeepsHead == CInv /\ HeadInv /\ [Next]_vars => HeadInv'
<1> SUFFICES ASSUME CInv, HeadInv, [Next]_vars PROVE HeadInv'
  OBVIOUS
<1>1. ASSUME NEW o \in Slots, Fails(o) PROVE HeadInv'
  BY <1>1, ErrorKeepsHead DEF Fails, MessagesQuiet
<1>2. ASSUME NEW o \in Slots, OpStep(o) PROVE HeadInv'
  BY <1>1, <1>2, LookedKeepsHead, CreatedKeepsHead, OpenedKeepsHead, StageKeepsHead,
     CommittedKeepsHead, RestoreBeginsKeepsHead, WaitedKeepsHead, CleanKeepsHead,
     ResetKeepsHead, CutKeepsHead, CancelAgainKeepsHead DEF OpStep
<1>3. ASSUME NEW t \in 1..Cur, LoopStarts(t) \/ CheckpointSave(t) \/ CheckpointDiff(t)
      PROVE  HeadInv'
  BY <1>3, LoopKeepsHead, SaveKeepsHead
<1>4. ASSUME NEW i \in DOMAIN messages, AskForRestore(i) PROVE HeadInv'
  BY <1>4, AskForRestoreKeepsHead
<1>5. ASSUME NEW f \in Files, Edit(f) PROVE HeadInv'
  BY <1>5, EditKeepsHead
<1>6. CASE CancelTask
  BY <1>6, CancelKeepsHead
<1>7. CASE UNCHANGED vars
  <2>1. TasksQuiet /\ OnHead(tasks[Cur])' /\ Evolves
    BY <1>7, SameIsQuiet, TasksSame, TypesGive DEF vars, repo, CInv
  <2>2. OpsQuiet
    BY <1>7, <2>1, OpsAreQuiet DEF vars
  <2> QED BY <1>7, <2>1, <2>2, HeadStays DEF vars, repo, MessagesQuiet
<1> QED BY <1>2, <1>3, <1>4, <1>5, <1>6, <1>7 DEF Next

(* The changes shown for a checkpoint are those since the one before it,   *)
(* whatever commands of old tasks come between, unless HEAD is known to    *)
(* have been moved.                                                        *)
THEOREM FromIsTheOneBefore == Spec => []FromIsParent
<1>1. Init => HeadInv
  <2> SUFFICES ASSUME Init PROVE HeadInv
    OBVIOUS
  <2>1. /\ head = 0 /\ exists = FALSE /\ tasks = <<NewTask>> /\ messages = <<>>
        /\ \A o \in Slots : ops[o].at = "idle"
    BY DEF Init, Idle
  <2>2. Cur = 1 /\ tasks[1] = NewTask
    BY <2>1 DEF Cur
  <2>3. NewTask.service = "none" /\ NewTask.points = <<>>
    BY DEF NewTask
  <2>4. OnHead(tasks[Cur])
    BY <2>2, <2>3 DEF OnHead
  <2>5. FromIsParent /\ \A i \in DOMAIN messages : messages[i].to # 0
    BY <2>1 DEF FromIsParent
  <2> QED BY <2>1, <2>2, <2>3, <2>4, <2>5 DEF HeadInv, Initial
<1>2. CInv /\ HeadInv /\ [Next]_vars => HeadInv'
  BY StepKeepsHead
<1>3. HeadInv => FromIsParent
  BY DEF HeadInv
<1> QED BY <1>1, <1>2, <1>3, CheckpointsInvariant, PTL DEF Spec
=============================================================================
