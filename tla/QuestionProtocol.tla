--------------------------- MODULE QuestionProtocol ---------------------------
(***************************************************************************)
(* What Cline.ask promises to the one who asks, whatever the messages look *)
(* like and however the answers come: at any time at most one question can *)
(* still be answered, the last one asked; it takes an answer given while   *)
(* it was open, the last of these, and each answer is taken once; when     *)
(* another message comes it is void for good.                              *)
(***************************************************************************)
EXTENDS Naturals, Sequences

CONSTANT Answers \* what can be answered

VARIABLES fate,  \* for each message: "none" if it is no question, "open",
                 \* "void" or "answered", and the answers taken
          given  \* the answers given to the open question and not yet taken,
                 \* the last one only: a set of at most one element

vars == <<fate, given>>

Fate(is) == [is |-> is, by |-> {}]

Voided == [i \in DOMAIN fate |->
             IF fate[i].is = "open" THEN Fate("void") ELSE fate[i]]

LastIs(is) == fate # <<>> /\ fate[Len(fate)].is = is

Init == fate = <<>> /\ given = {}

Question == fate' = Append(Voided, Fate("open")) /\ given' = {}

Message == fate' = Append(Voided, Fate("none")) /\ given' = {}

(* A question shown while it was being written can be answered once it is  *)
(* complete.                                                               *)
Completion ==
  /\ LastIs("none")
  /\ fate' = [fate EXCEPT ![Len(fate)] = Fate("open")]
  /\ given' = {}

Give(a) ==
  /\ LastIs("open")
  /\ given' = {a}
  /\ fate' = fate

Take ==
  /\ given # {}
  /\ fate' = [fate EXCEPT ![Len(fate)] = [is |-> "answered", by |-> given]]
  /\ given' = {}

Next == Question \/ Message \/ Completion \/ Take \/ \E a \in Answers : Give(a)

Spec == Init /\ [][Next]_vars
=============================================================================
