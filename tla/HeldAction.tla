----------------------------- MODULE HeldAction -----------------------------
(***************************************************************************)
(* What an approval promises, whoever keeps the promise: an action that is *)
(* held waits for one answer, the answer is final, and the action happens  *)
(* at most once and only after a yes. A yes does not oblige: the executor  *)
(* may refuse. An approval row of RunLifecycle is one such action (Held    *)
(* there).                                                                 *)
(***************************************************************************)
EXTENDS Naturals

VARIABLES
    answer,          \* "none" before the action is held, then "asked",
                     \* then "yes" or "no"
    done             \* how often the action has happened

Init == answer = "none" /\ done = 0

Hold == answer = "none" /\ answer' = "asked" /\ UNCHANGED done

Refuse == answer = "asked" /\ answer' = "no" /\ UNCHANGED done

Approve == answer = "asked" /\ answer' = "yes"

Do == done = 0 /\ done' = 1

\* Approved now and done later, or both in one step.
ApproveOnly  == Approve /\ UNCHANGED done
DoApproved   == Do /\ answer = "yes" /\ UNCHANGED answer
ApproveAndDo == Approve /\ Do

Next == Hold \/ Refuse \/ ApproveOnly \/ DoApproved \/ ApproveAndDo

Spec == Init /\ [][Next]_<<answer, done>>
=============================================================================
