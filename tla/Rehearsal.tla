------------------------------ MODULE Rehearsal ------------------------------
(***************************************************************************)
(* Plans and the undo log. A plan is a dry run of a routine's steps, kept  *)
(* with a hash over what each step would do and whether it would be held.  *)
(* Executing a plan repeats the dry run, compares, and then performs the   *)
(* steps one by one through the same `perform` every effect goes through:  *)
(* gate, commit, slow call, log row. An executed effect that has an        *)
(* inverse can be taken back, once.                                        *)
(*                                                                         *)
(* Two things are written late. A plan is marked executed when its run is  *)
(* over, and a log row is flushed after its call and committed by whatever *)
(* commits next in the same session: a failed commit or a death in between *)
(* loses it. An undo claims its row with a conditional UPDATE and holds    *)
(* the row lock, uncommitted, across the compensating call.                *)
(***************************************************************************)
EXTENDS Naturals, Sequences, FiniteSets

CONSTANTS
    Steps,        \* contents of taught steps
    Sends,        \* steps whose risk needs approval (send, spend, delete)
    Reversibles,  \* steps the undo matrix has an inverse for
    Bodies,       \* what a routine's steps, or an ad-hoc plan's, can be
    Plans,        \* rows of `plan_records` that may come to exist
    Executors,    \* requests executing a plan at a time
    Undoers,      \* requests undoing an entry at a time
    MaxEntries,   \* bound: effects performed, and none requested after the last
    MaxTries,     \* bound: how often one entry's compensator is run
    Faults,       \* what may go wrong in the instance
    NoPlan, Gone

AllFaults == {"dies", "commit_fails", "flush_fails", "answer_lost"}

\* Rows of `plan_records`: what the plan was made from, and what each step would do.
PlanRows == [status : {"draft", "stale", "executed"}, ofRoutine : BOOLEAN,
             steps : Bodies, calls : Seq([intent : Steps, held : BOOLEAN])]

ASSUME RehearsalAssumption ==
    /\ Sends \subseteq Steps /\ Reversibles \subseteq Steps
    /\ Bodies \subseteq Seq(Steps) \ {<<>>}
    /\ MaxEntries \in Nat /\ MaxTries \in Nat
    /\ Faults \subseteq AllFaults
    /\ NoPlan \notin Plans \cup PlanRows /\ Gone \notin Bodies

VARIABLES
    routine,  \* the routine's steps, or Gone
    granted,  \* sends a standing permission covers at the moment
    plan,     \* plan_records
    exec,     \* execute_plan requests, with what their sessions hold
    log,      \* action_log: absent, flushed (uncommitted) or committed
    undoer,   \* undo requests
    made,     \* history: effects that took place, entered in the log or not
    stands,   \* history: runs of a plan that stand, see PlanRunsOnce
    taken,    \* history: how often an effect was taken back
    slips     \* history: takings back whose success was not stored

vars == <<routine, granted, plan, exec, log, undoer, made, stands, taken, slips>>
undoVars == <<undoer, taken, slips>>
planVars == <<routine, granted, plan, stands>>

------------------------------------------------------------------------------
Entries == 1..MaxEntries
NoEntry == [state |-> "none", reversible |-> FALSE, undone |-> FALSE]
IdleExec == [pc |-> "idle", plan |-> NoPlan, body |-> <<>>, saw |-> "draft",
             late |-> FALSE, at |-> 1, did |-> {}, doomed |-> FALSE]
IdleUndoer == [pc |-> "idle", entry |-> 0, ok |-> FALSE]

Held(s)   == s \in Sends \ granted
\* What a plan records, and hashes, of a step: what it does and if it is held.
PlannedCall(s) == [intent |-> s, held |-> Held(s)]
\* dry_run_routine visits every step of a body, past holds and failures.
DryRun(b) == [i \in DOMAIN b |-> PlannedCall(b[i])]
PlanRow(b, ofRoutine) ==
    [status |-> "draft", ofRoutine |-> ofRoutine, steps |-> b, calls |-> DryRun(b)]

\* The step an execution is at, and what record_effect may make of its entry: one
\* that completed can be taken back if the undo matrix has an inverse and the
\* handle or the prior values were there.
StepNow(e) == exec[e].body[exec[e].at]
LogRows(s, ok) == {[state |-> "flushed", reversible |-> r, undone |-> FALSE] :
                   r \in {FALSE, ok /\ s \in Reversibles}}

\* The next effect to take place.
NextEntry == {Cardinality(made) + 1} \cap Entries

Busy(p)    == \E e \in Executors : exec[e].plan = p
Started(e) == exec[e].pc \in {"walk", "call", "close", "mark"}

\* The entries of an execution's open transaction are committed, or lost.
Committed(e) == [n \in Entries |-> IF n \in exec[e].did /\ log[n].state = "flushed"
                                   THEN [log[n] EXCEPT !.state = "logged"] ELSE log[n]]
Lost(e)      == [n \in Entries |-> IF n \in exec[e].did /\ log[n].state = "flushed"
                                   THEN NoEntry ELSE log[n]]

\* An execution is over and its plan was not marked.
Unmarked(e) ==
    /\ exec' = [exec EXCEPT ![e] = IdleExec]
    /\ stands' = IF Started(e) THEN [stands EXCEPT ![exec[e].plan] = 0] ELSE stands

Init ==
    /\ routine \in Bodies
    /\ granted = {}
    /\ plan    = [p \in Plans |-> NoPlan]
    /\ exec    = [e \in Executors |-> IdleExec]
    /\ log     = [n \in Entries |-> NoEntry]
    /\ undoer  = [u \in Undoers |-> IdleUndoer]
    /\ made    = {}
    /\ stands  = [p \in Plans |-> 0]
    /\ taken   = [n \in Entries |-> 0]
    /\ slips   = [n \in Entries |-> 0]

------------------------------------------------------------------------------
(* Plans, routines and permissions                                         *)

SavePlan(p) == \E b \in Bodies, ofRoutine \in BOOLEAN :
    /\ plan[p] = NoPlan
    /\ ofRoutine => b = routine
    /\ plan' = [plan EXCEPT ![p] = PlanRow(b, ofRoutine)]
    /\ UNCHANGED <<routine, granted, exec, log, made, stands, undoVars>>

EditRoutine ==
    /\ routine # Gone
    /\ routine' \in (Bodies \cup {Gone}) \ {routine}
    /\ UNCHANGED <<granted, plan, exec, log, made, stands, undoVars>>

\* A standing permission is learnt or revoked.
Permit(s) ==
    /\ granted' = IF s \in granted THEN granted \ {s} ELSE granted \cup {s}
    /\ UNCHANGED <<routine, plan, exec, log, made, stands, undoVars>>

------------------------------------------------------------------------------
(* Executing a plan                                                        *)

\* Mutant: any plan may be executed.
ExecuteReadAgain(e, p) ==
    /\ exec[e].pc = "idle" /\ plan[p] # NoPlan /\ NextEntry # {}
    /\ exec' = [exec EXCEPT ![e] = [IdleExec EXCEPT !.pc = "read", !.plan = p,
                                                    !.saw = plan[p].status, !.late = Busy(p)]]
    /\ UNCHANGED <<planVars, log, made, undoVars>>

ExecuteRead(e, p) ==
    /\ exec[e].pc = "idle" /\ plan[p] # NoPlan /\ NextEntry # {}
    /\ plan[p].status # "executed"
    /\ exec' = [exec EXCEPT ![e] = [IdleExec EXCEPT !.pc = "read", !.plan = p,
                                                    !.saw = plan[p].status, !.late = Busy(p)]]
    /\ UNCHANGED <<planVars, log, made, undoVars>>

Drifted(p) == \/ plan[p].ofRoutine /\ routine # plan[p].steps
              \/ DryRun(plan[p].steps) # plan[p].calls

\* Refused: the routine is gone, and nothing is written, or what would happen has
\* changed, and the plan is marked stale, whatever has become of it since it was
\* read. _mark_stale shrugs off a failed commit.
ExecuteRefused(e) == LET p == exec[e].plan IN
    /\ exec[e].pc = "read" /\ Drifted(p)
    /\ \/ /\ routine # Gone \/ ~plan[p].ofRoutine
          /\ exec[e].saw # "stale"
          /\ plan' = [plan EXCEPT ![p].status = "stale"]
          /\ stands' = IF plan[p].status = "executed" THEN [stands EXCEPT ![p] = 0] ELSE stands
       \/ /\ \/ plan[p].ofRoutine /\ routine = Gone
             \/ exec[e].saw = "stale"
             \/ "commit_fails" \in Faults
          /\ UNCHANGED <<plan, stands>>
    /\ exec' = [exec EXCEPT ![e] = IdleExec]
    /\ UNCHANGED <<routine, granted, log, made, undoVars>>

\* The run's row is committed, and the steps compared are the ones walked.
ExecuteStarts(e) == LET p == exec[e].plan IN
    /\ exec[e].pc = "read" /\ ~Drifted(p)
    /\ exec' = [exec EXCEPT ![e].pc = "walk", ![e].saw = "draft", ![e].late = FALSE,
                                ![e].body = plan[p].steps]
    /\ stands' = IF exec[e].late THEN stands ELSE [stands EXCEPT ![p] = @ + 1]
    /\ UNCHANGED <<routine, granted, plan, log, made, undoVars>>

\* The gate stops the step: filing the approval commits, and the walk ends. A commit
\* that fails has expired the rows the end of the run names.
StepHeld(e) ==
    /\ exec[e].pc = "walk" /\ Held(StepNow(e))
    /\ \/ /\ log'  = Committed(e)
          /\ exec' = [exec EXCEPT ![e].pc = "close"]
       \/ /\ "commit_fails" \in Faults
          /\ log'  = Lost(e)
          /\ exec' = [exec EXCEPT ![e].pc = "close", ![e].doomed = TRUE]
    /\ UNCHANGED <<planVars, made, undoVars>>

\* Mutant: the failed commit goes unnoticed.
StepReleaseGoesOn(e) ==
    /\ exec[e].pc = "walk" /\ ~Held(StepNow(e))
    /\ log'  \in {Committed(e), Lost(e)}
    /\ exec' = [exec EXCEPT ![e].pc = "call"]
    /\ UNCHANGED <<planVars, made, undoVars>>

\* release_transaction before the call: what the previous step logged is now
\* committed. A commit that fails is rolled back and the call is made all the same;
\* the rollback expires the session's rows, and the next use of one raises.
StepRelease(e) ==
    /\ exec[e].pc = "walk" /\ ~Held(StepNow(e))
    /\ \/ /\ log'  = Committed(e)
          /\ exec' = [exec EXCEPT ![e].pc = "call"]
       \/ /\ "commit_fails" \in Faults
          /\ log'  = Lost(e)
          /\ exec' = [exec EXCEPT ![e].pc = "call", ![e].doomed = TRUE]
    /\ UNCHANGED <<planVars, made, undoVars>>

\* After the call: on to the next step, or to the end.
Onward(x, ok, n) ==
    [x EXCEPT !.pc  = IF ok /\ ~x.doomed /\ x.at < Len(x.body) THEN "walk" ELSE "close",
              !.at  = IF ok /\ ~x.doomed /\ x.at < Len(x.body) THEN @ + 1 ELSE @,
              !.did = @ \cup n]

\* The call did what it was asked to, and its entry is flushed.
StepWorks(e) ==
    /\ exec[e].pc = "call"
    /\ \E n \in NextEntry, row \in LogRows(StepNow(e), TRUE) :
          /\ log'  = [log EXCEPT ![n] = row]
          /\ made' = made \cup {n}
          /\ exec' = [exec EXCEPT ![e] = Onward(@, TRUE, {n})]
    /\ UNCHANGED <<planVars, undoVars>>

\* The call failed, or did its work and lost the answer: the walk halts.
StepFails(e) ==
    /\ exec[e].pc = "call"
    /\ \/ /\ exec' = [exec EXCEPT ![e] = Onward(@, FALSE, {})]
          /\ UNCHANGED <<log, made>>
       \/ "answer_lost" \in Faults
          /\ \E n \in NextEntry, row \in LogRows(StepNow(e), FALSE) :
                /\ log'  = [log EXCEPT ![n] = row]
                /\ made' = made \cup {n}
                /\ exec' = [exec EXCEPT ![e] = Onward(@, FALSE, {n})]
    /\ UNCHANGED <<planVars, undoVars>>

\* record_effect swallows a failed flush, which has rolled the session back.
StepUnlogged(e) == \E n \in NextEntry :
    /\ "flush_fails" \in Faults /\ exec[e].pc = "call"
    /\ log'  = Lost(e)
    /\ made' = made \cup {n}
    /\ exec' = [exec EXCEPT ![e] = [Onward(@, FALSE, {n}) EXCEPT !.doomed = TRUE]]
    /\ UNCHANGED <<planVars, undoVars>>

\* run_inline's last commit; a rollback there expires the run it then names.
FinishRun(e) ==
    /\ exec[e].pc = "close" /\ ~exec[e].doomed
    /\ log'  = Committed(e)
    /\ exec' = [exec EXCEPT ![e].pc = "mark"]
    /\ UNCHANGED <<planVars, made, undoVars>>
FinishRaises(e) ==
    /\ exec[e].pc = "close" /\ (exec[e].doomed \/ "commit_fails" \in Faults)
    /\ log' = Lost(e) /\ Unmarked(e)
    /\ UNCHANGED <<routine, granted, plan, made, undoVars>>

MarkExecuted(e) ==
    /\ exec[e].pc = "mark"
    /\ plan' = [plan EXCEPT ![exec[e].plan].status = "executed"]
    /\ exec' = [exec EXCEPT ![e] = IdleExec]
    /\ UNCHANGED <<routine, granted, log, made, stands, undoVars>>
MarkFails(e) ==
    /\ "commit_fails" \in Faults /\ exec[e].pc = "mark"
    /\ Unmarked(e)
    /\ UNCHANGED <<routine, granted, plan, log, made, undoVars>>

\* The request's process dies; a call under way may have been answered or not.
ExecDies(e) ==
    /\ "dies" \in Faults /\ exec[e].pc # "idle"
    /\ Unmarked(e) /\ log' = Lost(e)
    /\ \/ UNCHANGED made
       \/ exec[e].pc = "call" /\ \E n \in NextEntry : made' = made \cup {n}
    /\ UNCHANGED <<routine, granted, plan, undoVars>>

------------------------------------------------------------------------------
(* Taking an effect back                                                   *)

UndoRead(u, n) ==
    /\ undoer[u].pc = "idle" /\ taken[n] < MaxTries
    /\ log[n].state = "logged" /\ log[n].reversible /\ ~log[n].undone
    /\ undoer' = [undoer EXCEPT ![u] = [IdleUndoer EXCEPT !.pc = "claim", !.entry = n]]
    /\ UNCHANGED <<planVars, exec, log, made, taken, slips>>

Locked(n) == \E u \in Undoers : undoer[u].entry = n /\ undoer[u].pc \in {"undo", "close"}

\* Mutant: the claim does not look again.
UndoClaimBlind(u) == LET n == undoer[u].entry IN
    /\ undoer[u].pc = "claim" /\ ~Locked(n)
    /\ undoer' = [undoer EXCEPT ![u] = [@ EXCEPT !.pc = "undo"]]
    /\ UNCHANGED <<planVars, exec, log, made, taken, slips>>

\* The conditional UPDATE waits for the row's lock, then looks at the row again.
UndoClaim(u) == LET n == undoer[u].entry IN
    /\ undoer[u].pc = "claim" /\ ~Locked(n)
    /\ undoer' = [undoer EXCEPT ![u] = IF log[n].undone THEN IdleUndoer
                                       ELSE [@ EXCEPT !.pc = "undo"]]
    /\ UNCHANGED <<planVars, exec, log, made, taken, slips>>

\* The compensating call works, fails, or works and loses its answer.
Compensate(u) == LET n == undoer[u].entry IN
    /\ undoer[u].pc = "undo"
    /\ \/ /\ undoer' = [undoer EXCEPT ![u].pc = "close", ![u].ok = TRUE]
          /\ taken'  = [taken EXCEPT ![n] = @ + 1] /\ UNCHANGED slips
       \/ /\ undoer' = [undoer EXCEPT ![u].pc = "close"]
          /\ UNCHANGED <<taken, slips>>
       \/ /\ "answer_lost" \in Faults
          /\ undoer' = [undoer EXCEPT ![u].pc = "close"]
          /\ taken'  = [taken EXCEPT ![n] = @ + 1]
          /\ slips'  = [slips EXCEPT ![n] = @ + 1]
    /\ UNCHANGED <<planVars, exec, log, made>>

\* The one commit of an undo: the claim and its outcome, or its release.
UndoFinish(u) == LET n == undoer[u].entry IN
    /\ undoer[u].pc = "close"
    /\ log' = [log EXCEPT ![n].undone = undoer[u].ok]
    /\ undoer' = [undoer EXCEPT ![u] = IdleUndoer]
    /\ UNCHANGED <<planVars, exec, made, taken, slips>>

\* The commit fails, Postgres ends the idle transaction, or the process dies: the
\* claim is rolled back whatever the compensator did.
UndoRollsBack(u) == LET n == undoer[u].entry IN
    /\ undoer[u].pc # "idle" /\ {"dies", "commit_fails"} \cap Faults # {}
    /\ slips'  = [slips EXCEPT ![n] = IF undoer[u].ok THEN @ + 1 ELSE @]
    /\ undoer' = [undoer EXCEPT ![u] = IdleUndoer]
    /\ UNCHANGED <<planVars, exec, log, made, taken>>

------------------------------------------------------------------------------
ExecStep(e) ==
    \/ \E p \in Plans : ExecuteRead(e, p)
    \/ ExecuteRefused(e) \/ ExecuteStarts(e)
    \/ StepHeld(e) \/ StepRelease(e) \/ StepWorks(e) \/ StepFails(e) \/ StepUnlogged(e)
    \/ FinishRun(e) \/ FinishRaises(e) \/ MarkExecuted(e) \/ MarkFails(e) \/ ExecDies(e)

UndoStep(u) ==
    \/ \E n \in Entries : UndoRead(u, n)
    \/ UndoClaim(u) \/ Compensate(u) \/ UndoFinish(u) \/ UndoRollsBack(u)

Next ==
    \/ \E p \in Plans : SavePlan(p)
    \/ EditRoutine
    \/ \E s \in Sends : Permit(s)
    \/ \E e \in Executors : ExecStep(e)
    \/ \E u \in Undoers : UndoStep(u)

Spec == Init /\ [][Next]_vars

------------------------------------------------------------------------------
(* Properties                                                              *)

\* A plan is executed once (execute_plan's `already_executed`): at most one of its
\* runs stands. A run stands until one of the plan is lost before it could mark it, or
\* a late refusal writes over the mark; the only runs not counted are those begun on
\* a reading made while another request was at the plan.
PlanRunsOnce == \A p \in Plans : stands[p] <= 1

\* When a run is over and its plan is about to be marked, every effect it made
\* is in the log for good, whichever commits or flushes failed on the way: no
\* plan is recorded as executed with an effect nobody can look up or take back.
ExecutedIsLogged ==
    \A e \in Executors : exec[e].pc = "mark" =>
        \A n \in exec[e].did : log[n].state = "logged"

\* An effect is taken back once, and once more only for each time the success
\* could not be stored or was not learnt (undo's claim, its release after a
\* failure and its rollback); and what says undone has been taken back.
TakenBackOnce ==
    \A n \in Entries :
        /\ taken[n] <= 1 + slips[n]
        /\ log[n].undone => taken[n] > 0
==============================================================================
