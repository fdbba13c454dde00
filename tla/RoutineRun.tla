------------------------------ MODULE RoutineRun ------------------------------
(***************************************************************************)
(* Executions of a routine: the durable worker's workflow, and the inline  *)
(* walk the API falls back to when Temporal is down. A step is one request *)
(* to the API, which does it or holds it for a human; the workflow polls a *)
(* held step's approval in short attempts until it is decided or a day has *)
(* passed, and goes on only if it was approved.                            *)
(*                                                                         *)
(* Temporal repeats an attempt it has no answer from. A request that never *)
(* reached the API, a 5xx and a worker that died in the middle look the    *)
(* same to it, although the step may have been done; an answer the worker  *)
(* itself saw lost ends the routine instead.                               *)
(***************************************************************************)
EXTENDS Naturals, FiniteSets

CONSTANTS
    Execs,      \* executions that may be started
    NSteps,     \* steps of the routine
    Gated,      \* steps whose risk needs a human
    Holds,      \* approval rows that may be filed
    Attempts,   \* STANDARD_RETRY.maximum_attempts
    MaxFaults,  \* bound: faults in a behaviour
    Faults,     \* which kinds of fault the instance has
    None

Step == 1 .. NSteps
AllFaults == {"unreachable", "error", "answer_lost", "worker_dies", "api_dies",
              "start_unheard", "temporal_down"}

\* An approval row, as far as a routine sees it.
Filed == [status : {"pending", "approved", "rejected", "expired"}, exec : Execs, step : Step]

ASSUME RoutineAssumption ==
    /\ NSteps \in Nat \ {0} /\ Gated \subseteq Step
    /\ Attempts \in Nat \ {0} /\ MaxFaults \in Nat
    /\ Faults \subseteq AllFaults
    /\ None \notin Filed

VARIABLES
    exec,      \* executions: where they are, their step and the approval polled
    approval,  \* approval rows, or None
    effects,   \* history: how often each execution's step was done
    blind,     \* history: attempts repeated although the step may have been done
    faults     \* history: faults so far

vars == <<exec, approval, effects, blind, faults>>

------------------------------------------------------------------------------
Idle == [pc |-> "free", step |-> 1, try |-> 1, answer |-> None, hold |-> None,
         late |-> FALSE, result |-> None]
Started(how) == [Idle EXCEPT !.pc = how]

Fault(kind) == kind \in Faults /\ faults < MaxFaults /\ faults' = faults + 1

Ended(x, how) == [x EXCEPT !.pc = "done", !.result = how, !.answer = None]

\* On to the next step, or the end.
Onward(x, here) ==
    IF x.step = NSteps THEN Ended(x, "completed")
    ELSE [x EXCEPT !.pc = here, !.step = @ + 1, !.try = 1, !.answer = None,
                   !.hold = None, !.late = FALSE]

\* Another attempt of the activity, if the policy has one left.
Again(x) == IF x.try = Attempts THEN Ended(x, "failed")
            ELSE [x EXCEPT !.try = @ + 1, !.answer = None,
                           !.pc = IF @ = "answered" THEN "sent" ELSE @]

Files(e, a) == approval' = [approval EXCEPT ![a] =
                              [status |-> "pending", exec |-> e, step |-> exec[e].step]]

Init ==
    /\ exec     = [e \in Execs |-> Idle]
    /\ approval = [a \in Holds |-> None]
    /\ effects  = [e \in Execs |-> [s \in Step |-> 0]]
    /\ blind    = [e \in Execs |-> [s \in Step |-> 0]]
    /\ faults   = 0

------------------------------------------------------------------------------
(* Starting: a schedule that fires, or run_routine                         *)

\* A durable execution; an inline one when Temporal does not answer. An error from
\* start_workflow is taken for "not started", although it may have been heard.
Start(e) ==
    /\ exec[e].pc = "free"
    /\ \/ /\ exec' = [exec EXCEPT ![e] = Started("desktop")]
          /\ UNCHANGED faults
       \/ /\ "temporal_down" \in Faults
          /\ exec' = [exec EXCEPT ![e] = Started("inline")]
          /\ UNCHANGED faults
       \/ /\ Fault("start_unheard")
          /\ \E f \in Execs \ {e} :
                /\ exec[f].pc = "free"
                /\ exec' = [exec EXCEPT ![e] = Started("desktop"), ![f] = Started("inline")]
    /\ UNCHANGED <<approval, effects, blind>>

\* ensure_desktop_activity: started and polled until it runs; an error state or a
\* desktop not running in time is tried again, a placeholder of `aks` is not.
EnsureDesktop(e) ==
    /\ exec[e].pc = "desktop"
    /\ exec' = [exec EXCEPT ![e] = [@ EXCEPT !.pc = "sent", !.try = 1]]
    /\ UNCHANGED <<approval, effects, blind, faults>>

DesktopFails(e) ==
    /\ exec[e].pc = "desktop"
    /\ exec' \in {[exec EXCEPT ![e] = x] : x \in {Again(exec[e]), Ended(exec[e], "failed")}}
    /\ UNCHANGED <<approval, effects, blind, faults>>

------------------------------------------------------------------------------
(* One step: run_step_activity and the API behind it                       *)

\* The API does the step, holds it, refuses it (4xx), or breaks (5xx) before or
\* after doing or filing it. `ok: false` may have done it or not.
Handle(e) == LET s == exec[e].step IN
    /\ exec[e].pc = "sent"
    /\ \/ /\ s \notin Gated
          /\ \E answer \in {"ok", "not_ok"}, n \in {0, 1} :
                /\ answer = "ok" => n = 1
                /\ exec' = [exec EXCEPT ![e].pc = "answered", ![e].answer = answer]
                /\ effects' = [effects EXCEPT ![e][s] = @ + n]
          /\ UNCHANGED <<approval, faults>>
       \/ /\ s \in Gated
          /\ \E a \in Holds :
                /\ approval[a] = None
                /\ Files(e, a)
                /\ exec' = [exec EXCEPT ![e].pc = "answered", ![e].answer = "held",
                                        ![e].hold = a]
          /\ UNCHANGED <<effects, faults>>
       \/ /\ exec' = [exec EXCEPT ![e].pc = "answered", ![e].answer = "refused"]
          /\ UNCHANGED <<approval, effects, faults>>
       \/ /\ Fault("error")
          /\ exec' = [exec EXCEPT ![e].pc = "answered", ![e].answer = "error"]
          /\ \/ /\ s \notin Gated
                /\ \E n \in {0, 1} : effects' = [effects EXCEPT ![e][s] = @ + n]
                /\ UNCHANGED approval
             \/ /\ s \in Gated
                /\ UNCHANGED approval \/ \E a \in Holds : approval[a] = None /\ Files(e, a)
                /\ UNCHANGED effects
    /\ UNCHANGED blind

\* The worker reads the answer. `ok: false` does not stop the workflow.
Answered(e) == LET x == exec[e] IN
    /\ x.pc = "answered"
    /\ exec' = [exec EXCEPT ![e] =
          CASE x.answer \in {"ok", "not_ok"} -> Onward(x, "sent")
            [] x.answer = "held"             -> [x EXCEPT !.pc = "poll", !.try = 1]
            [] x.answer = "refused"          -> Ended(x, "failed")
            [] x.answer = "error"            -> Again(x)]
    /\ blind' = IF x.answer = "error" THEN [blind EXCEPT ![e][x.step] = @ + 1] ELSE blind
    /\ UNCHANGED <<approval, effects, faults>>

\* Mutant: an answer lost on the way back is tried again like any other error.
AnswerLostRetries(e) ==
    /\ exec[e].pc = "answered" /\ Fault("answer_lost")
    /\ exec' = [exec EXCEPT ![e] = Again(@)]
    /\ UNCHANGED <<approval, effects, blind>>

\* _unknown_outcome: a read error, 408 or 504 is not retried.
AnswerLost(e) ==
    /\ exec[e].pc = "answered" /\ Fault("answer_lost")
    /\ exec' = [exec EXCEPT ![e] = Ended(@, "failed")]
    /\ UNCHANGED <<approval, effects, blind>>

\* No connection was made, to do a step or to read an approval.
Unreachable(e) ==
    /\ exec[e].pc \in {"desktop", "sent", "poll"} /\ Fault("unreachable")
    /\ exec' = [exec EXCEPT ![e] = Again(@)]
    /\ UNCHANGED <<approval, effects, blind>>

\* The worker dies with an attempt in its hands; Temporal times it out.
WorkerDies(e) == LET x == exec[e] IN
    /\ x.pc \in {"desktop", "sent", "answered", "poll"} /\ Fault("worker_dies")
    /\ exec'  = [exec EXCEPT ![e] = Again(@)]
    /\ blind' = IF x.pc = "answered" THEN [blind EXCEPT ![e][x.step] = @ + 1] ELSE blind
    /\ UNCHANGED <<approval, effects>>

------------------------------------------------------------------------------
(* Waiting for a human: _await_approval and wait_for_approval_activity      *)

\* Mutant: whatever is not a rejection counts as approved.
PollTakesExpired(e) == LET x == exec[e] IN
    /\ x.pc = "poll"
    /\ exec' = [exec EXCEPT ![e] =
          CASE approval[x.hold].status = "pending"  -> [x EXCEPT !.pc = "waiting", !.try = 1]
            [] approval[x.hold].status = "rejected" -> Ended(x, "aborted")
            [] OTHER                                -> Onward(x, "sent")]
    /\ UNCHANGED <<approval, effects, blind, faults>>

\* One attempt reads the row until its budget is spent; an API that refuses the read,
\* or no longer finds the row, fails the routine.
Poll(e) == LET x == exec[e] IN
    /\ x.pc = "poll"
    /\ \/ exec' = [exec EXCEPT ![e] =
             CASE approval[x.hold].status = "pending"  -> [x EXCEPT !.pc = "waiting", !.try = 1]
               [] approval[x.hold].status = "approved" -> Onward(x, "sent")
               [] OTHER                                -> Ended(x, "aborted")]
       \/ exec' = [exec EXCEPT ![e] = Ended(x, "failed")]
    /\ UNCHANGED <<approval, effects, blind, faults>>

DeadlinePasses(e) ==
    /\ exec[e].pc \in {"poll", "waiting"} /\ ~exec[e].late
    /\ exec' = [exec EXCEPT ![e].late = TRUE]
    /\ UNCHANGED <<approval, effects, blind, faults>>

\* Mutant: the deadline is looked at before the last sleep only.
WaitForgets(e) ==
    /\ exec[e].pc = "waiting"
    /\ exec' = [exec EXCEPT ![e].pc = "poll"]
    /\ UNCHANGED <<approval, effects, blind, faults>>

\* Between two attempts: past the deadline the routine is aborted and the row
\* stays pending; before it the workflow sleeps, at most until the deadline.
Wait(e) == LET x == exec[e] IN
    /\ x.pc = "waiting"
    /\ exec' = [exec EXCEPT ![e] = IF x.late THEN Ended(x, "timed_out")
                                   ELSE [x EXCEPT !.pc = "poll"]]
    /\ UNCHANGED <<approval, effects, blind, faults>>

\* The API decides once; an approved step is done by the API, or fails.
Decide(a) ==
    /\ approval[a] # None /\ approval[a].status = "pending"
    /\ \/ /\ approval' = [approval EXCEPT ![a].status = "approved"]
          /\ \E n \in {0, 1} :
                effects' = [effects EXCEPT ![approval[a].exec][approval[a].step] = @ + n]
       \/ /\ \E how \in {"rejected", "expired"} :
                approval' = [approval EXCEPT ![a].status = how]
          /\ UNCHANGED effects
    /\ UNCHANGED <<exec, blind, faults>>

------------------------------------------------------------------------------
(* The inline fallback: walk_steps with halt_on_failure                     *)

InlineStep(e) == LET x == exec[e] IN
    /\ x.pc = "inline"
    /\ \/ /\ x.step \in Gated
          /\ \E a \in Holds : approval[a] = None /\ Files(e, a)
          /\ exec' = [exec EXCEPT ![e] = Ended(x, "awaiting_approval")]
          /\ UNCHANGED effects
       \/ /\ x.step \notin Gated
          /\ exec' = [exec EXCEPT ![e] = Onward(x, "inline")]
          /\ effects' = [effects EXCEPT ![e][x.step] = @ + 1]
          /\ UNCHANGED approval
       \/ /\ x.step \notin Gated
          /\ exec' = [exec EXCEPT ![e] = Ended(x, "failed")]
          /\ \E n \in {0, 1} : effects' = [effects EXCEPT ![e][x.step] = @ + n]
          /\ UNCHANGED approval
    /\ UNCHANGED <<blind, faults>>

\* The API dies under an inline walk; nothing takes it up again.
InlineDies(e) ==
    /\ exec[e].pc = "inline" /\ Fault("api_dies")
    /\ exec' = [exec EXCEPT ![e] = Ended(@, "failed")]
    /\ UNCHANGED <<approval, effects, blind>>

------------------------------------------------------------------------------
WorkerStep(e) == EnsureDesktop(e) \/ Handle(e) \/ Answered(e) \/ Poll(e) \/ Wait(e)

Next ==
    \/ \E e \in Execs : \/ Start(e) \/ WorkerStep(e) \/ DesktopFails(e) \/ DeadlinePasses(e)
                        \/ AnswerLost(e) \/ Unreachable(e) \/ WorkerDies(e)
                        \/ InlineStep(e) \/ InlineDies(e)
    \/ \E a \in Holds : Decide(a)

Spec == Init /\ [][Next]_vars

\* The worker and the API take their steps, and a day passes; nobody need decide
\* or start anything, and nothing need fail. The deadline has a fairness of its
\* own: polls that find nothing must not keep it from passing.
FairSpec ==
    /\ Spec
    /\ \A e \in Execs : /\ WF_vars(WorkerStep(e)) /\ WF_vars(DeadlinePasses(e))
                        /\ WF_vars(InlineStep(e))

------------------------------------------------------------------------------
\* A step is done at most once per execution, except once more for each attempt
\* Temporal repeated after a 5xx or a death of the worker (a repeated attempt may have
\* filed a held step a second time, and a human approve both): connection errors and
\* lost answers never add one.
StepDoneOnce ==
    \A e \in Execs, s \in Step : effects[e][s] <= 1 + blind[e][s]

\* Nothing that comes after a held step is done, or filed for approval, before a
\* human has approved the held step of that very execution.
NothingPastTheGate ==
    \A e \in Execs, g \in Gated, s \in Step :
        (s > g /\ (effects[e][s] > 0 \/ \E a \in Holds : /\ approval[a] # None
                                                         /\ approval[a].exec = e
                                                         /\ approval[a].step = s))
        => \E a \in Holds : /\ approval[a] # None
                            /\ approval[a].exec = e /\ approval[a].step = g
                            /\ approval[a].status = "approved"

\* Every execution that was started ends, whether or not anybody ever decides
\* what it waits for.
EveryRunEnds == \A e \in Execs : exec[e].pc # "free" ~> exec[e].pc = "done"
===============================================================================
