---------------------------- MODULE RunLifecycle ----------------------------
(***************************************************************************)
(* Chat runs of the API, the approvals that hold their risky steps, and    *)
(* everybody who writes either row:                                        *)
(*                                                                         *)
(*   - the loop that drives a run (`_turn`, and `_resume` for every leg    *)
(*     after the first), one asyncio task, nothing but memory between its  *)
(*     commits;                                                            *)
(*   - HTTP requests: decide or expire an approval, press Continue, delete *)
(*     the thread, cancel the run;                                         *)
(*   - the reaper, which presumes a run dead from the age of its row.      *)
(*                                                                         *)
(* A step of the model is what happens between two awaits at which another *)
(* session's commit can become visible; a conditional UPDATE and its       *)
(* commit are one step, because the row lock is held from one to the other.*)
(* A thread is represented by the run started in it.                       *)
(***************************************************************************)
EXTENDS Naturals, FiniteSets

CONSTANTS
    Runs,        \* rows of `runs` that may come to exist
    Approvals,   \* rows of `approvals` that may come to exist
    Requests,    \* HTTP requests in flight at once (a slot is reused)
    Loops,       \* asyncio tasks driving a run at once (a slot is reused)
    HoldKinds,   \* kinds of approval the instance files
    Operations,  \* requests the instance serves
    Faults,      \* what may go wrong in the instance
    None

\* An mcp_tool hold is filed and executed as a connector_action is.
AllKinds      == {"desktop_steps", "connector_action", "message_only"}
AllOperations == {"decide", "expire", "resume", "delete", "cancel", "file"}
AllFaults     == {"request_dies", "loop_dies", "leg_raises", "commit_fails",
                  "sweep_fails"}

ASSUME ConstantsAssumption ==
    /\ HoldKinds \subseteq AllKinds
    /\ Operations \subseteq AllOperations
    /\ Faults \subseteq AllFaults
    /\ None \notin Runs \cup Approvals
    /\ "NoAgent" \notin Approvals /\ "NoHold" \notin Approvals

VARIABLES
    status,      \* runs.status; "unused" before the row exists
    parked,      \* runs.detail.agent: "NoAgent" when absent, else its
                 \* approval_id, "NoHold" when it names none
    stale,       \* runs.updated_at is older than STALE_AFTER
    thread,      \* the thread the run hangs off still exists
    verdict,     \* approvals.status; "unused" before the row exists
    owner,       \* approvals.run_id
    kind,        \* approvals.payload.kind
    effects,     \* how often the held action was performed (0, 1, or 2 and more)
    loop,        \* the tasks driving runs
    req,         \* the requests being handled
    sweep,       \* runs a reaper pass has selected and not yet visited
    doubtful     \* history: approvals two requests had in hand at once, or whose
                 \* answer was lost on its way to the database

runVars  == <<status, parked, stale, thread>>
apprVars == <<verdict, owner, kind, effects>>
vars     == <<runVars, apprVars, loop, req, sweep, doubtful>>

------------------------------------------------------------------------------
(* Helper state formulae                                                   *)

Awaiting    == {"awaiting_approval", "awaiting_human"}
Finished    == {"completed", "failed", "cancelled", "interrupted"}
Cancellable == {"running"} \cup Awaiting
RunStatus   == {"unused", "running"} \cup Awaiting \cup Finished
Verdicts    == {"unused", "pending", "approved", "rejected", "expired"}

IdleLoop == [pc |-> "idle", run |-> None, leg |-> "turn", appr |-> None]
IdleReq  == [pc |-> "idle", op |-> "decide", appr |-> None, run |-> None,
             answer |-> "pending", seen |-> {}]

Live(l)    == loop[l].pc # "idle"
Claimed(q) == req[q].pc = "spawn"

\* A task drives run r, or a request has won the claim to start one.
Driven(r) == \/ \E l \in Loops    : Live(l) /\ loop[l].run = r
             \/ \E q \in Requests : Claimed(q) /\ req[q].run = r

PendingOf(r) == {a \in Approvals : owner[a] = r /\ verdict[a] = "pending"}

\* Every write of a run row stamps updated_at (onupdate).
WriteRun(r, s) == /\ status' = [status EXCEPT ![r] = s]
                  /\ stale'  = [stale  EXCEPT ![r] = FALSE]

\* A request is still at work on approval a.
InHand(q, a) == req[q].pc # "idle" /\ (req[q].appr = a \/ a \in req[q].seen)

\* A request takes up approvals; those that another has in hand are in doubt.
TakesUp(S) == doubtful' = doubtful \cup
                 {a \in S : \E q \in Requests : InHand(q, a)}

Step(q, pc) == req' = [req EXCEPT ![q].pc = pc]
Reply(q)    == req' = [req EXCEPT ![q] = IdleReq]
EndLoop(l)  == loop' = [loop EXCEPT ![l] = IdleLoop]

------------------------------------------------------------------------------
Init ==
    /\ status  = [r \in Runs |-> "unused"]
    /\ parked  = [r \in Runs |-> "NoAgent"]
    /\ stale   = [r \in Runs |-> FALSE]
    /\ thread  = [r \in Runs |-> TRUE]
    /\ verdict = [a \in Approvals |-> "unused"]
    /\ owner   = [a \in Approvals |-> None]
    /\ kind    = [a \in Approvals |-> "message_only"]
    /\ effects = [a \in Approvals |-> 0]
    /\ loop    = [l \in Loops |-> IdleLoop]
    /\ req     = [q \in Requests |-> IdleReq]
    /\ sweep   = {}
    /\ doubtful = {}

------------------------------------------------------------------------------
(* The loop. It holds no transaction over a model call or a desktop step   *)
(* and writes the run row only when it ends.                               *)

\* _turn: a message arrives, the run row is committed `running`.
StartTurn(r, l) ==
    /\ status[r] = "unused"
    /\ loop[l] = IdleLoop
    /\ WriteRun(r, "running")
    /\ loop' = [loop EXCEPT ![l] = [IdleLoop EXCEPT !.pc = "running", !.run = r]]
    /\ UNCHANGED <<parked, thread, apprVars, req, sweep, doubtful>>

\* create_approval: commits the row and notifies the owner's devices.
CreateApproval(a, r, k) ==
    /\ verdict[a] = "unused"
    /\ k \in HoldKinds
    /\ verdict' = [verdict EXCEPT ![a] = "pending"]
    /\ owner'   = [owner EXCEPT ![a] = r]
    /\ kind'    = [kind EXCEPT ![a] = k]
    /\ UNCHANGED effects

\* Mutant: the loop stops without keeping the approval it filed.
LoopGateForgets(l, a, k) ==
    /\ loop[l].pc = "running"
    /\ k = "desktop_steps" \/ loop[l].leg = "turn"
    /\ CreateApproval(a, loop[l].run, k)
    /\ loop' = [loop EXCEPT ![l].pc = "gated"]
    /\ UNCHANGED <<runVars, req, sweep, doubtful>>

\* A step is held. The agent loop holds desktop steps; a plain chat reply
\* (only ever a first leg) holds a connector action or an outbound message.
\* The approval can be decided from here on; the run is not parked yet.
LoopGate(l, a, k) ==
    /\ loop[l].pc = "running"
    /\ k = "desktop_steps" \/ loop[l].leg = "turn"
    /\ CreateApproval(a, loop[l].run, k)
    /\ loop' = [loop EXCEPT ![l].pc = "gated", ![l].appr = a]
    /\ UNCHANGED <<runVars, req, sweep, doubtful>>

\* The end of a leg whose step was held. Only the agent loop stores what a
\* later leg needs (_persist_pending_approval).
LoopPark(l) ==
    /\ loop[l].pc = "gated" /\ thread[loop[l].run]
    /\ WriteRun(loop[l].run, "awaiting_approval")
    /\ parked' = IF kind[loop[l].appr] = "desktop_steps"
                 THEN [parked EXCEPT ![loop[l].run] = loop[l].appr]
                 ELSE parked
    /\ EndLoop(l)
    /\ UNCHANGED <<thread, apprVars, req, sweep, doubtful>>

\* The leg asked for a person at the screen (_persist_takeover).
LoopTakeover(l) ==
    /\ loop[l].pc = "running" /\ thread[loop[l].run]
    /\ WriteRun(loop[l].run, "awaiting_human")
    /\ parked' = [parked EXCEPT ![loop[l].run] = "NoHold"]
    /\ EndLoop(l)
    /\ UNCHANGED <<thread, apprVars, req, sweep, doubtful>>

\* The leg finished. A resumed leg drops the id of the hold it answered.
LoopFinish(l) ==
    /\ loop[l].pc = "running" /\ thread[loop[l].run]
    /\ WriteRun(loop[l].run, "completed")
    /\ parked' = IF loop[l].leg = "resume"
                 THEN [parked EXCEPT ![loop[l].run] = "NoHold"]
                 ELSE parked
    /\ EndLoop(l)
    /\ UNCHANGED <<thread, apprVars, req, sweep, doubtful>>

\* An exception in a first leg: _fail_run overwrites whatever is there. With
\* the thread gone, storing the reply is the exception.
LoopFail(l) ==
    /\ loop[l].leg = "turn" /\ loop[l].pc \in {"running", "gated"}
    /\ WriteRun(loop[l].run, "failed")
    /\ EndLoop(l)
    /\ UNCHANGED <<parked, thread, apprVars, req, sweep, doubtful>>

\* A resumed leg loads its thread; without one it settles the run at once.
LegStarts(l) ==
    /\ loop[l].pc = "starting" /\ thread[loop[l].run]
    /\ loop' = [loop EXCEPT ![l].pc = "running"]
    /\ UNCHANGED <<runVars, apprVars, req, sweep, doubtful>>

LegHasNoThread(l) ==
    /\ loop[l].pc = "starting" /\ ~thread[loop[l].run]
    /\ WriteRun(loop[l].run, "failed")
    /\ EndLoop(l)
    /\ UNCHANGED <<parked, thread, apprVars, req, sweep, doubtful>>

\* An exception in a resumed leg is logged by run_detached and swallowed: the
\* row is left as it is, for the reaper. Losing the thread midway is one.
LegRaises(l) ==
    /\ loop[l].leg = "resume" /\ Live(l)
    /\ "leg_raises" \in Faults \/ (~thread[loop[l].run] /\ loop[l].pc # "starting")
    /\ EndLoop(l)
    /\ UNCHANGED <<runVars, apprVars, req, sweep, doubtful>>

\* The process goes away, or the client of a first leg disconnects.
LoopDies(l) ==
    /\ "loop_dies" \in Faults
    /\ Live(l)
    /\ EndLoop(l)
    /\ UNCHANGED <<runVars, apprVars, req, sweep, doubtful>>

------------------------------------------------------------------------------
(* Deciding an approval                                                    *)

\* An approval no leg filed: a routine's step, or POST /approvals, which may
\* name a run.
FileApproval(a, r, k) ==
    /\ "file" \in Operations
    /\ r # None => status[r] # "unused"
    /\ CreateApproval(a, r, k)
    /\ UNCHANGED <<runVars, loop, req, sweep, doubtful>>

\* Mutant: an approval that is already decided is not refused.
DecideReadAgain(q, a, d) ==
    /\ "decide" \in Operations
    /\ req[q] = IdleReq
    /\ verdict[a] # "unused"
    /\ req' = [req EXCEPT ![q] = [IdleReq EXCEPT !.pc = "read", !.appr = a,
                                                 !.answer = d]]
    /\ TakesUp({a})
    /\ UNCHANGED <<runVars, apprVars, loop, sweep>>

\* The row is loaded with a plain SELECT and found pending; the decision is
\* set on the object in memory. (Not pending: 409, nothing changes.)
DecideRead(q, a, d) ==
    /\ "decide" \in Operations
    /\ req[q] = IdleReq
    /\ verdict[a] = "pending"
    /\ req' = [req EXCEPT ![q] = [IdleReq EXCEPT !.pc = "read", !.appr = a,
                                                 !.answer = d]]
    /\ TakesUp({a})
    /\ UNCHANGED <<runVars, apprVars, loop, sweep>>

Deciding(q, d) == /\ req[q].pc = "read" /\ req[q].op = "decide"
                  /\ req[q].answer = d

Perform(a) == effects' = [effects EXCEPT ![a] = IF @ < 2 THEN @ + 1 ELSE 2]

\* UPDATE approvals SET status WHERE id: what the row holds now is not looked at.
SetVerdict(a, d) == verdict' = [verdict EXCEPT ![a] = d]

DecideReject(q) ==
    /\ Deciding(q, "rejected")
    /\ SetVerdict(req[q].appr, "rejected")
    /\ Step(q, "decided")
    /\ UNCHANGED <<runVars, owner, kind, effects, loop, sweep, doubtful>>

\* _post_held_message: the message and the decision are one commit. A hold
\* filed by hand may name no thread, and is then approved without effect.
DecideMessage(q) ==
    LET r == owner[req[q].appr] IN
    /\ Deciding(q, "approved") /\ kind[req[q].appr] = "message_only"
    /\ r # None => thread[r]
    /\ SetVerdict(req[q].appr, "approved")
    /\ Perform(req[q].appr) \/ (r = None /\ UNCHANGED effects)
    /\ Step(q, "decided")
    /\ UNCHANGED <<runVars, owner, kind, loop, sweep, doubtful>>

\* The thread of the message has been deleted since: the commit violates its
\* foreign key, the decision is rolled back with it and the request is a 500.
DecideMessageFails(q) ==
    LET r == owner[req[q].appr] IN
    /\ Deciding(q, "approved") /\ kind[req[q].appr] = "message_only"
    /\ r # None /\ ~thread[r]
    /\ Reply(q)
    /\ UNCHANGED <<runVars, apprVars, loop, sweep, doubtful>>

\* perform: release_transaction commits the decision before the slow call...
DecideRelease(q) ==
    /\ Deciding(q, "approved") /\ kind[req[q].appr] # "message_only"
    /\ SetVerdict(req[q].appr, "approved")
    /\ Step(q, "perform")
    /\ UNCHANGED <<runVars, owner, kind, effects, loop, sweep, doubtful>>

\* ... and when that commit fails it rolls back and goes on regardless.
DecideReleaseFails(q) ==
    /\ "commit_fails" \in Faults
    /\ Deciding(q, "approved") /\ kind[req[q].appr] # "message_only"
    /\ Step(q, "lost")
    /\ doubtful' = doubtful \cup {req[q].appr}
    /\ UNCHANGED <<runVars, apprVars, loop, sweep>>

\* _execute: the outside world changes, or the executor refuses. After a lost
\* commit the session's objects are expired and the handler ends in a 500.
DecideExecute(q) ==
    /\ req[q].pc \in {"perform", "lost"}
    /\ Perform(req[q].appr) \/ UNCHANGED effects
    /\ IF req[q].pc = "perform" THEN Step(q, "decided") ELSE Reply(q)
    /\ UNCHANGED <<runVars, verdict, owner, kind, loop, sweep, doubtful>>

------------------------------------------------------------------------------
(* Handing the task back: _continue_run, and the Continue button           *)

\* Mutant: the run is continued whatever it is parked on.
ContinueAnything(q) ==
    LET r == owner[req[q].appr] IN
    /\ req[q].pc = "decided"
    /\ IF r # None
       THEN req' = [req EXCEPT ![q].pc = "claim", ![q].run = r]
       ELSE Reply(q)
    /\ UNCHANGED <<runVars, apprVars, loop, sweep, doubtful>>

\* _continue_run reads runs.detail: is the run parked on this approval?
ContinueRead(q) ==
    LET r == owner[req[q].appr] IN
    /\ req[q].pc = "decided"
    /\ IF r # None /\ parked[r] = req[q].appr
       THEN req' = [req EXCEPT ![q].pc = "claim", ![q].run = r]
       ELSE Reply(q)
    /\ UNCHANGED <<runVars, apprVars, loop, sweep, doubtful>>

\* resume_run: any run with agent state may be asked to continue.
ResumeRead(q, r) ==
    /\ "resume" \in Operations
    /\ req[q] = IdleReq
    /\ parked[r] # "NoAgent"
    /\ req' = [req EXCEPT ![q] = [IdleReq EXCEPT !.pc = "claim", !.op = "resume",
                                                 !.run = r]]
    /\ UNCHANGED <<runVars, apprVars, loop, sweep, doubtful>>

ClaimsFrom(q) == IF req[q].op = "decide" THEN "awaiting_approval"
                                         ELSE "awaiting_human"

\* Mutant: the claim's UPDATE has lost its status condition.
ClaimAnyway(q) ==
    /\ req[q].pc = "claim"
    /\ WriteRun(req[q].run, "running")
    /\ Step(q, "spawn")
    /\ UNCHANGED <<parked, thread, apprVars, loop, sweep, doubtful>>

\* The claim: UPDATE runs SET status = 'running' WHERE status = ..., commit.
ClaimWon(q) ==
    /\ req[q].pc = "claim"
    /\ status[req[q].run] = ClaimsFrom(q)
    /\ WriteRun(req[q].run, "running")
    /\ Step(q, "spawn")
    /\ UNCHANGED <<parked, thread, apprVars, loop, sweep, doubtful>>

ClaimLost(q) ==
    /\ req[q].pc = "claim"
    /\ status[req[q].run] # ClaimsFrom(q)
    /\ Reply(q)
    /\ UNCHANGED <<runVars, apprVars, loop, sweep, doubtful>>

\* run_detached: the leg gets a task of its own and the request answers.
Spawn(q, l) ==
    /\ Claimed(q)
    /\ loop[l] = IdleLoop
    /\ loop' = [loop EXCEPT ![l] = [IdleLoop EXCEPT !.pc = "starting",
                                       !.run = req[q].run, !.leg = "resume"]]
    /\ Reply(q)
    /\ UNCHANGED <<runVars, apprVars, sweep, doubtful>>

\* The process goes away, or the client disconnects and the handler with it.
RequestDies(q) ==
    /\ "request_dies" \in Faults
    /\ req[q].pc # "idle"
    /\ Reply(q)
    /\ UNCHANGED <<runVars, apprVars, loop, sweep, doubtful>>

------------------------------------------------------------------------------
(* Expiring, deleting, cancelling                                          *)

\* expire_approval: the same unlocked look as decide.
ExpireRead(q, a) ==
    /\ "expire" \in Operations
    /\ req[q] = IdleReq
    /\ verdict[a] = "pending"
    /\ req' = [req EXCEPT ![q] = [IdleReq EXCEPT !.pc = "read", !.op = "expire",
                                                 !.seen = {a}]]
    /\ TakesUp({a})
    /\ UNCHANGED <<runVars, apprVars, loop, sweep>>

\* delete_thread: selects the approvals of the thread's runs.
DeleteRead(q, r) ==
    /\ "delete" \in Operations
    /\ req[q] = IdleReq
    /\ status[r] # "unused" /\ thread[r]
    /\ req' = [req EXCEPT ![q] = [IdleReq EXCEPT !.pc = "read", !.op = "delete",
                                     !.run = r, !.seen = PendingOf(r)]]
    /\ TakesUp(PendingOf(r))
    /\ UNCHANGED <<runVars, apprVars, loop, sweep>>

\* Both write every approval they saw pending; neither continues a run. A
\* thread somebody else has deleted first is an error and rolls back. Nulling
\* runs.thread_id leaves updated_at alone, stamping a run's owner does not.
ExpireWrite(q) ==
    /\ req[q].pc = "read" /\ req[q].op \in {"expire", "delete"}
    /\ IF req[q].op = "expire" \/ thread[req[q].run]
       THEN verdict' = [a \in Approvals |-> IF a \in req[q].seen THEN "expired"
                                                               ELSE verdict[a]]
       ELSE UNCHANGED verdict
    /\ thread' = IF req[q].op = "delete"
                 THEN [thread EXCEPT ![req[q].run] = FALSE] ELSE thread
    /\ \/ UNCHANGED stale
       \/ /\ req[q].op = "delete" /\ thread[req[q].run]
          /\ stale' = [stale EXCEPT ![req[q].run] = FALSE]
    /\ Reply(q)
    /\ UNCHANGED <<status, parked, owner, kind, effects, loop, sweep, doubtful>>

\* Mutant: cancel does not look at the status.
CancelAnything(r) ==
    /\ "cancel" \in Operations
    /\ status[r] # "unused"
    /\ WriteRun(r, "cancelled")
    /\ UNCHANGED <<parked, thread, apprVars, loop, req, sweep, doubtful>>

\* cancel_run: one conditional UPDATE. Nothing tells the loop or the approval.
Cancel(r) ==
    /\ "cancel" \in Operations
    /\ status[r] \in Cancellable
    /\ WriteRun(r, "cancelled")
    /\ UNCHANGED <<parked, thread, apprVars, loop, req, sweep, doubtful>>

------------------------------------------------------------------------------
(* The reaper                                                              *)

\* STALE_AFTER passes without a write of the row. A leg may last longer than
\* that (DESKTOP_MAX_SECONDS), so a live loop does not prevent it.
Age(r) ==
    /\ status[r] = "running" /\ ~stale[r]
    /\ stale' = [stale EXCEPT ![r] = TRUE]
    /\ UNCHANGED <<status, parked, thread, apprVars, loop, req, sweep, doubtful>>

\* Mutant: the pass joins the threads and never sees a run that lost its own.
SweepJoinsThreads ==
    LET found == {r \in Runs : status[r] = "running" /\ stale[r] /\ thread[r]} IN
    /\ ~(found \subseteq sweep)
    /\ sweep' = sweep \cup found
    /\ UNCHANGED <<runVars, apprVars, loop, req, doubtful>>

\* One replica's SELECT; the passes of several replicas may overlap.
SweepSelect ==
    LET found == {r \in Runs : status[r] = "running" /\ stale[r]} IN
    /\ ~(found \subseteq sweep)
    /\ sweep' = sweep \cup found
    /\ UNCHANGED <<runVars, apprVars, loop, req, doubtful>>

\* Mutant: the UPDATE trusts the SELECT.
SweepReapBlind(r) ==
    /\ r \in sweep
    /\ WriteRun(r, "interrupted")
    /\ sweep' = sweep \ {r}
    /\ UNCHANGED <<parked, thread, apprVars, loop, req, doubtful>>

\* The per-run UPDATE looks at the status again, not at the age.
SweepReap(r) ==
    /\ r \in sweep
    /\ IF status[r] = "running" THEN WriteRun(r, "interrupted")
                                ELSE UNCHANGED <<status, stale>>
    /\ sweep' = sweep \ {r}
    /\ UNCHANGED <<parked, thread, apprVars, loop, req, doubtful>>

\* A pass that fails is logged and the next interval tries again.
SweepFails ==
    /\ "sweep_fails" \in Faults
    /\ sweep # {}
    /\ sweep' = {}
    /\ UNCHANGED <<runVars, apprVars, loop, req, doubtful>>

------------------------------------------------------------------------------
LoopStep(l) ==
    \/ \E r \in Runs : StartTurn(r, l)
    \/ \E a \in Approvals, k \in AllKinds : LoopGate(l, a, k)
    \/ LoopPark(l) \/ LoopTakeover(l) \/ LoopFinish(l) \/ LoopFail(l)
    \/ LegStarts(l) \/ LegHasNoThread(l) \/ LegRaises(l) \/ LoopDies(l)

\* What a request does once it has started, faults aside.
RequestGoesOn(q) ==
    \/ DecideReject(q) \/ DecideMessage(q) \/ DecideMessageFails(q)
    \/ DecideRelease(q) \/ DecideReleaseFails(q) \/ DecideExecute(q)
    \/ ContinueRead(q) \/ ClaimWon(q) \/ ClaimLost(q)
    \/ \E l \in Loops : Spawn(q, l)
    \/ ExpireWrite(q)

RequestStep(q) ==
    \/ \E a \in Approvals, d \in {"approved", "rejected"} : DecideRead(q, a, d)
    \/ \E a \in Approvals : ExpireRead(q, a)
    \/ \E r \in Runs : ResumeRead(q, r) \/ DeleteRead(q, r)
    \/ RequestGoesOn(q)
    \/ RequestDies(q)

Next ==
    \/ \E l \in Loops : LoopStep(l)
    \/ \E q \in Requests : RequestStep(q)
    \/ \E a \in Approvals, r \in Runs \cup {None}, k \in AllKinds : FileApproval(a, r, k)
    \/ \E r \in Runs : Cancel(r) \/ Age(r) \/ SweepReap(r)
    \/ SweepSelect \/ SweepFails

Spec == Init /\ [][Next]_vars

\* Time passes and the sweeper keeps sweeping, whatever else stops.
SweeperFairness ==
    /\ \A r \in Runs : WF_vars(Age(r)) /\ SF_vars(SweepReap(r))
    /\ WF_vars(SweepSelect)

\* A request that has started is handled to its end unless it dies.
RequestFairness == \A q \in Requests : WF_vars(RequestGoesOn(q))

FairSpec == Spec /\ SweeperFairness /\ RequestFairness

------------------------------------------------------------------------------
(* Properties                                                              *)

LoopSlot == [pc   : {"idle", "starting", "running", "gated"},
             run  : Runs \cup {None},
             leg  : {"turn", "resume"},
             appr : Approvals \cup {None}]

ReqSlot == [pc     : {"idle", "read", "perform", "lost", "decided", "claim", "spawn"},
            op     : {"decide", "expire", "resume", "delete"},
            appr   : Approvals \cup {None},
            run    : Runs \cup {None},
            answer : {"pending", "approved", "rejected"},
            seen   : SUBSET Approvals]

RowsOK ==
    /\ status  \in [Runs -> RunStatus]
    /\ parked  \in [Runs -> Approvals \cup {"NoAgent", "NoHold"}]
    /\ stale   \in [Runs -> BOOLEAN]
    /\ thread  \in [Runs -> BOOLEAN]
    /\ verdict \in [Approvals -> Verdicts]
    /\ owner   \in [Approvals -> Runs \cup {None}]
    /\ kind    \in [Approvals -> AllKinds]
    /\ effects \in [Approvals -> 0 .. 2]
    /\ sweep   \subseteq Runs
    /\ doubtful \subseteq Approvals

LoopsOK ==
    /\ loop \in [Loops -> LoopSlot]
    /\ \A l \in Loops :
          /\ Live(l) => loop[l].run \in Runs
          /\ loop[l].pc = "gated" => loop[l].appr \in Approvals

NamesApproval(q) == \/ req[q].pc = "read" /\ req[q].op = "decide"
                    \/ req[q].pc \in {"perform", "lost", "decided"}
NamesRun(q)      == \/ req[q].pc = "read" /\ req[q].op = "delete"
                    \/ req[q].pc \in {"claim", "spawn"}

RequestsOK ==
    /\ req \in [Requests -> ReqSlot]
    /\ \A q \in Requests :
          /\ NamesApproval(q) => req[q].appr \in Approvals
          /\ NamesRun(q) => req[q].run \in Runs

\* Every variable has its type, and a slot names the rows its next step is
\* about to write.
TypeOK == RowsOK /\ LoopsOK /\ RequestsOK

\* "Two decisions racing must not produce two loops driving the same browser
\* session" (_continue_run): at most one task or won claim per run, whatever
\* decisions, Continue presses, deaths, cancels and reaps are interleaved.
OneDriver ==
    /\ \A l, m \in Loops :
          Live(l) /\ Live(m) /\ loop[l].run = loop[m].run => l = m
    /\ \A p, q \in Requests :
          Claimed(p) /\ Claimed(q) /\ req[p].run = req[q].run => p = q
    /\ \A l \in Loops, q \in Requests :
          ~(Live(l) /\ Claimed(q) /\ loop[l].run = req[q].run)

\* A run that waits for a person, or does not exist, has nobody driving it:
\* the status the claims test is what keeps the drivers apart.
ParkedIsUndriven ==
    \A r \in Runs : status[r] \in Awaiting \cup {"unused"} => ~Driven(r)

\* "Parked on a person, and a person is allowed to take a week" (reaper): no
\* step turns a run that waits for a person into an interrupted one, not even
\* one a pass had selected while it was running.
NeverReapParked ==
    [][\A r \in Runs : status[r] \in Awaiting => status'[r] # "interrupted"]_vars

\* A finished run that no task drives is never written again: no late press,
\* decision, claim or reap revives it.
FinishedStaysFinished ==
    [][\A r \in Runs : status[r] \in Finished /\ ~Driven(r)
                         => status'[r] = status[r]]_vars

\* What an approval's row says about the action it holds. An expired one can no
\* longer be approved: to its action that is a no.
AnswerOf(a) == CASE verdict[a] = "unused"   -> "none"
                 [] verdict[a] = "pending"  -> "asked"
                 [] verdict[a] = "approved" -> "yes"
                 [] OTHER                   -> "no"

Held(a) == INSTANCE HeldAction WITH answer <- AnswerOf(a), done <- effects[a]
Goes(a) == Held(a)!Next \/ UNCHANGED <<AnswerOf(a), effects[a]>>

\* "On `approved` the API MUST execute the held action", "Deciding a non-pending
\* approval -> 409" (docs/API.md), only once (tests/test_approvals.py,
\* test_approving_twice_only_executes_once) and "Already-decided approvals keep
\* their status untouched" (_expire_approvals_for_thread): a held action gets one
\* answer, the answer stays, and the action happens at most once and never without
\* a recorded yes.
HeldActionsAreAnswered ==
    /\ \A a \in Approvals : Held(a)!Init
    /\ [][\A a \in Approvals : Goes(a)]_vars

\* The same, with any number of requests at once, of every approval that no two of
\* them have had in hand at the same time and whose answer was not lost: what
\* others do to other approvals, to the run or to its thread, whoever dies and
\* whatever follows, its answer stands and its action happens once.
UndoubtedAnswersStand ==
    /\ \A a \in Approvals : Held(a)!Init
    /\ [][\A a \in Approvals \ doubtful' : Goes(a)]_vars

\* "Never continue a run on the strength of a decision about something else"
\* (_continue_run): when a claim is won the run is still parked on the approval
\* that was decided, though nothing held it since its row was looked at, unless
\* an approval of this run was ever in doubt: two answers to one approval both go
\* on to continue the run, and the later may find it parked on another.
ContinuedByItsOwnDecision ==
    [][\A q \in Requests : ClaimWon(q) /\ req[q].op = "decide"
                             => \/ parked[req[q].run] = req[q].appr
                                \/ \E a \in doubtful : owner[a] = req[q].run]_vars

\* No run is `running` for ever: a loop parks or finishes it, or the sweeper
\* writes it off, whoever dies and however often a pass fails.
RunsSettle == \A r \in Runs : (status[r] = "running") ~> (status[r] # "running")
=============================================================================
