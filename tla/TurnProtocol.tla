------------------------------ MODULE TurnProtocol ------------------------------
(***************************************************************************)
(* What the loop of a task promises of a turn, without lock, flags, notes  *)
(* and calls on top of calls: a reader receives the blocks of a message,   *)
(* one worker takes them in order, and the next request waits for it.      *)
(* The worker is done with a block only when it is complete, it rests only *)
(* when nothing is left that it could take, and once the turn is closed to *)
(* tools it refuses all that are left at once.  An abort takes back all    *)
(* but the order.                                                          *)
(***************************************************************************)
EXTENDS Naturals

CONSTANT MaxBlocks \* blocks of one message, at most

VARIABLES stage,    \* the reader: "idle", "reading", "waiting" or "over"
          received, \* how many blocks have come
          open,     \* the last of them may still grow
          behind,   \* how many of them the worker is done with
          working,  \* it is at the next one
          closed,   \* no other block is taken: a tool was rejected or used
          ran,      \* blocks whose tool was run
          refused,  \* tools answered with a refusal
          aborted   \* the task has been aborted

vars == <<stage, received, open, behind, working, closed, ran, refused, aborted>>

IsTool(b) == b % 2 = 0

Complete(b) == b < received \/ ~open

Init ==
  /\ stage = "idle"
  /\ received = 0 /\ open = FALSE
  /\ behind = 0 /\ working = FALSE
  /\ closed = FALSE
  /\ ran = {} /\ refused = {}
  /\ aborted = FALSE

-----------------------------------------------------------------------------
(* Where the worker goes from `done' blocks behind it.                     *)

\* Unless the task is aborted, there is nothing left but a block that grows.
Rests(done) ==
  /\ behind' = done /\ working' = FALSE
  /\ aborted' \/ done = received' \/ (open' /\ done + 1 = received')
  /\ UNCHANGED refused

Takes(done) ==
  /\ done < received' /\ ~closed' /\ ~aborted'
  /\ behind' = done /\ working' = TRUE
  /\ UNCHANGED refused

Refuses(done) ==
  /\ closed' /\ ~aborted'
  /\ behind' = received' /\ working' = FALSE
  /\ refused' = refused \cup {b \in (done + 1)..received' : IsTool(b)}

GoesOn(done) == Rests(done) \/ Takes(done) \/ Refuses(done)

\* What the worker does about blocks that come.
Offered ==
  IF working \/ aborted THEN UNCHANGED <<behind, working, refused>>
  ELSE GoesOn(behind)

-----------------------------------------------------------------------------

\* The next request: nothing of the last message is left.
Request ==
  /\ stage = "idle" /\ ~aborted
  /\ ~working /\ behind = received
  /\ stage' = "reading"
  /\ received' = 0 /\ open' = FALSE
  /\ behind' = 0 /\ working' = FALSE
  /\ closed' = FALSE
  /\ ran' = {} /\ refused' = {}
  /\ UNCHANGED aborted

\* A chunk that comes after an abort is the last one.
Receive ==
  /\ stage = "reading"
  /\ stage' = IF aborted THEN "over" ELSE "reading"
  /\ received' \in received..MaxBlocks
  /\ open' \in BOOLEAN
  /\ Offered
  /\ UNCHANGED <<closed, ran, aborted>>

\* The whole message is there; without a block there is nothing to wait for, but
\* the reader waits none the less when the turn was closed before the first one.
MessageEnds ==
  /\ stage = "reading" /\ ~aborted
  /\ stage' \in {"idle", "waiting"}
  /\ stage' = "idle" => received = 0
  /\ stage' = "waiting" => received > 0 \/ closed
  /\ open' = FALSE
  /\ Offered
  /\ UNCHANGED <<received, closed, ran, aborted>>

Continue ==
  /\ stage = "waiting"
  /\ ~working /\ behind = received
  /\ stage' = "idle"
  /\ UNCHANGED <<received, open, behind, working, closed, ran, refused, aborted>>

\* The tool of the block at hand is run, perhaps with a comment of the user's
\* that counts as its result.
RunTool ==
  /\ working /\ IsTool(behind + 1) /\ Complete(behind + 1)
  /\ ran' = ran \cup {behind + 1}
  /\ closed' \in {closed, TRUE}
  /\ UNCHANGED <<stage, received, open, behind, working, refused, aborted>>

\* The worker is done with its block, or leaves it until more of it has come;
\* not when its tool has run, unless an abort cut it short.
Leave ==
  /\ working
  /\ closed' \in {closed, TRUE}
  /\ aborted' \in {aborted, TRUE}
  /\ \/ (behind + 1 \in ran => aborted) /\ GoesOn(behind)
     \/ (Complete(behind + 1) \/ closed') /\ GoesOn(behind + 1)
  /\ UNCHANGED <<stage, received, open, ran>>

\* A result is pushed while the worker stays where it is.
Close ==
  /\ closed' = TRUE
  /\ UNCHANGED <<stage, received, open, behind, working, ran, refused, aborted>>

\* The loop ends, the task is aborted, or both.
Stop ==
  /\ stage' \in {stage, "over"}
  /\ aborted' \in {aborted, TRUE}
  /\ UNCHANGED <<received, open, behind, working, closed, ran, refused>>

Next ==
  \/ Request \/ Receive \/ MessageEnds \/ Continue
  \/ RunTool \/ Leave \/ Close \/ Stop

Spec == Init /\ [][Next]_vars
=============================================================================
