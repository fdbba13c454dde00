------------------------- MODULE RunLifecycle_proof -------------------------
(* Theorems about RunLifecycle, for every set of runs, approvals, requests  *)
(* and tasks, and whatever faults are allowed.                              *)
EXTENDS RunLifecycle, TLAPS

(* The two halves of the inductive invariant keep each other up: a claim     *)
(* tests the status, so it only wins when nobody drives the run, and a task  *)
(* or a claim leaves the run in a status no claim accepts.                   *)
IInv == TypeOK /\ OneDriver /\ ParkedIsUndriven

\* The initial state: no rows, nobody at work.
LEMMA InitIInv == Init => IInv
<1> USE ConstantsAssumption DEF Init, IdleLoop, IdleReq
<1>1. Init => RowsOK
  BY DEF RowsOK, RunStatus, Verdicts, AllKinds
<1>2. Init => LoopsOK
  BY DEF LoopsOK, LoopSlot, Live
<1>3. Init => RequestsOK
  BY DEF RequestsOK, ReqSlot, NamesApproval, NamesRun
<1>4. Init => OneDriver /\ ParkedIsUndriven
  BY DEF OneDriver, ParkedIsUndriven, Driven, Live, Claimed
<1> QED
  BY <1>1, <1>2, <1>3, <1>4 DEF IInv, TypeOK

------------------------------------------------------------------------------
(* Type correctness, one part of the state at a time.                       *)

\* Performing counts to two and no further.
LEMMA DecidePerforms ==
  ASSUME RowsOK, NEW q \in Requests, DecideMessage(q) \/ DecideExecute(q)
  PROVE  effects' \in [Approvals -> 0 .. 2]
  BY DEF RowsOK, DecideMessage, DecideExecute, Perform

\* Every step writes statuses, verdicts and counters of the right type.
LEMMA RowTypes == TypeOK /\ [Next]_vars => RowsOK'
<1> SUFFICES ASSUME TypeOK, [Next]_vars PROVE RowsOK'
  OBVIOUS
<1> USE DEF TypeOK, RowsOK, RunStatus, Awaiting, Finished, Verdicts, AllKinds,
            WriteRun, runVars, apprVars
<1>1. ASSUME NEW l \in Loops, LoopStep(l) PROVE RowsOK'
  <2>1. ASSUME NEW r \in Runs, StartTurn(r, l) PROVE RowsOK'
    BY <2>1 DEF StartTurn
  <2>2. ASSUME NEW a \in Approvals, NEW k \in AllKinds, LoopGate(l, a, k)
        PROVE  RowsOK'
    BY <2>2 DEF LoopGate, CreateApproval, LoopsOK, LoopSlot
  <2>3. CASE LoopPark(l)
    BY <2>3 DEF LoopPark, LoopsOK, Live
  <2>4. CASE LoopTakeover(l) \/ LoopFinish(l) \/ LoopFail(l) \/ LegHasNoThread(l)
    BY <2>4 DEF LoopTakeover, LoopFinish, LoopFail, LegHasNoThread
  <2>5. CASE LegStarts(l) \/ LegRaises(l) \/ LoopDies(l)
    BY <2>5 DEF LegStarts, LegRaises, LoopDies
  <2> QED
    BY <1>1, <2>1, <2>2, <2>3, <2>4, <2>5 DEF LoopStep
<1>2. ASSUME NEW q \in Requests, RequestStep(q) PROVE RowsOK'
  <2>1. CASE DecideReject(q) \/ DecideRelease(q)
    BY <2>1 DEF DecideReject, DecideRelease, SetVerdict
  <2>2. CASE DecideMessage(q) \/ DecideExecute(q)
    <3>1. effects' \in [Approvals -> 0 .. 2]
      BY <2>2, DecidePerforms
    <3>2. verdict' \in [Approvals -> Verdicts]
      BY <2>2 DEF DecideMessage, DecideExecute, SetVerdict
    <3> QED
      BY <2>2, <3>1, <3>2 DEF DecideMessage, DecideExecute
  <2>3. CASE ExpireWrite(q)
    <3>1. verdict' \in [Approvals -> Verdicts]
      BY <2>3 DEF ExpireWrite
    <3>2. thread' \in [Runs -> BOOLEAN]
      BY <2>3 DEF ExpireWrite
    <3> QED
      BY <2>3, <3>1, <3>2 DEF ExpireWrite
  <2>4. CASE ClaimWon(q)
    BY <2>4 DEF ClaimWon
  <2>5. CASE ContinueRead(q) \/ ClaimLost(q) \/ DecideMessageFails(q) \/ RequestDies(q)
    BY <2>5 DEF ContinueRead, ClaimLost, DecideMessageFails, RequestDies
  <2>9. CASE DecideReleaseFails(q)
    BY <2>9 DEF DecideReleaseFails, Deciding, RequestsOK, NamesApproval
  <2>6. ASSUME NEW a \in Approvals, NEW d \in {"approved", "rejected"},
               DecideRead(q, a, d) \/ ExpireRead(q, a)
        PROVE  RowsOK'
    BY <2>6 DEF DecideRead, ExpireRead, TakesUp
  <2>7. ASSUME NEW r \in Runs, ResumeRead(q, r) \/ DeleteRead(q, r) PROVE RowsOK'
    BY <2>7 DEF ResumeRead, DeleteRead, TakesUp, PendingOf
  <2>8. ASSUME NEW l \in Loops, Spawn(q, l) PROVE RowsOK'
    BY <2>8 DEF Spawn
  <2> QED
    BY <1>2, <2>1, <2>2, <2>3, <2>4, <2>5, <2>6, <2>7, <2>8, <2>9
       DEF RequestStep, RequestGoesOn
<1>3. ASSUME NEW a \in Approvals, NEW r \in Runs \cup {None}, NEW k \in AllKinds,
             FileApproval(a, r, k)
      PROVE  RowsOK'
  BY <1>3 DEF FileApproval, CreateApproval
<1>4. ASSUME NEW r \in Runs, Cancel(r) \/ Age(r) \/ SweepReap(r) PROVE RowsOK'
  BY <1>4 DEF Cancel, Age, SweepReap
<1>5. CASE SweepSelect \/ SweepFails
  BY <1>5 DEF SweepSelect, SweepFails
<1>6. CASE UNCHANGED vars
  BY <1>6 DEF vars
<1> QED
  BY <1>1, <1>2, <1>3, <1>4, <1>5, <1>6 DEF Next

\* A task at work names a run; one that holds a step names its approval.
LEMMA LoopTypes == TypeOK /\ [Next]_vars => LoopsOK'
<1> SUFFICES ASSUME TypeOK, [Next]_vars PROVE LoopsOK'
  OBVIOUS
<1> USE DEF TypeOK, LoopsOK, LoopSlot, Live, IdleLoop
<1>1. ASSUME NEW l \in Loops, LoopStep(l) PROVE LoopsOK'
  <2>1. CASE EndLoop(l)
    BY <2>1 DEF EndLoop
  <2>2. ASSUME NEW r \in Runs, StartTurn(r, l) PROVE LoopsOK'
    BY <2>2 DEF StartTurn
  <2>3. ASSUME NEW a \in Approvals, NEW k \in AllKinds, LoopGate(l, a, k)
        PROVE  LoopsOK'
    BY <2>3 DEF LoopGate
  <2>4. CASE LegStarts(l)
    BY <2>4 DEF LegStarts
  <2>5. LoopPark(l) \/ LoopTakeover(l) \/ LoopFinish(l) \/ LoopFail(l)
        \/ LegHasNoThread(l) \/ LegRaises(l) \/ LoopDies(l) => EndLoop(l)
    BY DEF LoopPark, LoopTakeover, LoopFinish, LoopFail, LegHasNoThread,
           LegRaises, LoopDies
  <2> QED
    BY <1>1, <2>1, <2>2, <2>3, <2>4, <2>5 DEF LoopStep
<1>2. ASSUME NEW q \in Requests, NEW l \in Loops, Spawn(q, l) PROVE LoopsOK'
  BY <1>2 DEF Spawn, RequestsOK, NamesRun, Claimed
<1>3. CASE UNCHANGED loop
  BY <1>3
<1>4. ASSUME NEW q \in Requests, RequestStep(q),
             ~ \E l \in Loops : Spawn(q, l)
      PROVE  UNCHANGED loop
  BY <1>4
     DEF RequestStep, RequestGoesOn, DecideRead, ExpireRead, ResumeRead, DeleteRead,
         DecideReject, DecideMessage, DecideRelease, DecideReleaseFails,
         DecideExecute, ContinueRead, ClaimWon, ClaimLost, DecideMessageFails, ExpireWrite,
         RequestDies
<1>5. ASSUME NEW a \in Approvals, NEW r \in Runs \cup {None}, NEW k \in AllKinds,
             FileApproval(a, r, k)
      PROVE  UNCHANGED loop
  BY <1>5 DEF FileApproval
<1>6. ASSUME NEW r \in Runs, Cancel(r) \/ Age(r) \/ SweepReap(r)
      PROVE  UNCHANGED loop
  BY <1>6 DEF Cancel, Age, SweepReap
<1>7. SweepSelect \/ SweepFails \/ UNCHANGED vars => UNCHANGED loop
  BY DEF SweepSelect, SweepFails, vars
<1> QED
  BY <1>1, <1>2, <1>3, <1>4, <1>5, <1>6, <1>7 DEF Next

\* A request that answers frees its slot; one that goes on keeps what it names.
LEMMA ReplyTypes ==
  ASSUME RequestsOK, NEW q \in Requests, Reply(q)
  PROVE  RequestsOK'
  BY DEF RequestsOK, ReqSlot, NamesApproval, NamesRun, Reply, IdleReq

\* A slot may be given any well-formed content.
LEMMA SlotTypes ==
  ASSUME RequestsOK, NEW q \in Requests, NEW x \in ReqSlot,
         req' = [req EXCEPT ![q] = x],
         (x.pc = "read" /\ x.op = "decide") \/ x.pc \in {"perform", "lost", "decided"}
            => x.appr \in Approvals,
         (x.pc = "read" /\ x.op = "delete") \/ x.pc \in {"claim", "spawn"}
            => x.run \in Runs
  PROVE  RequestsOK'
  BY DEF RequestsOK, NamesApproval, NamesRun

\* A request moving to its next step keeps the types of the requests.
LEMMA StepTypes ==
  ASSUME RequestsOK, NEW q \in Requests,
         NEW pc \in {"perform", "lost", "decided", "spawn"}, Step(q, pc),
         pc # "spawn" => req[q].appr \in Approvals,
         pc = "spawn" => req[q].run \in Runs
  PROVE  RequestsOK'
  BY DEF RequestsOK, ReqSlot, NamesApproval, NamesRun, Step

\* A request names the rows its next step writes.
LEMMA RequestTypes == TypeOK /\ [Next]_vars => RequestsOK'
<1> SUFFICES ASSUME TypeOK, [Next]_vars PROVE RequestsOK'
  OBVIOUS
<1> USE DEF TypeOK
<1>1. ASSUME NEW q \in Requests, RequestStep(q) PROVE RequestsOK'
  <2>1. ASSUME NEW a \in Approvals, NEW d \in {"approved", "rejected"},
               DecideRead(q, a, d)
        PROVE  RequestsOK'
    <3> DEFINE x == [IdleReq EXCEPT !.pc = "read", !.appr = a, !.answer = d]
    <3>1. x \in ReqSlot /\ x.pc = "read" /\ x.op = "decide" /\ x.appr = a
      BY DEF ReqSlot, IdleReq
    <3> QED
      BY <2>1, <3>1, SlotTypes DEF DecideRead
  <2>2. ASSUME NEW a \in Approvals, ExpireRead(q, a) PROVE RequestsOK'
    <3> DEFINE x == [IdleReq EXCEPT !.pc = "read", !.op = "expire", !.seen = {a}]
    <3>1. x \in ReqSlot /\ x.pc = "read" /\ x.op = "expire"
      BY DEF ReqSlot, IdleReq
    <3> QED
      BY <2>2, <3>1, SlotTypes DEF ExpireRead
  <2>8. ASSUME NEW r \in Runs, ResumeRead(q, r) PROVE RequestsOK'
    <3> DEFINE x == [IdleReq EXCEPT !.pc = "claim", !.op = "resume", !.run = r]
    <3>1. x \in ReqSlot /\ x.pc = "claim" /\ x.run = r
      BY DEF ReqSlot, IdleReq
    <3> QED
      BY <2>8, <3>1, SlotTypes DEF ResumeRead
  <2>9. ASSUME NEW r \in Runs, DeleteRead(q, r) PROVE RequestsOK'
    <3> DEFINE x == [IdleReq EXCEPT !.pc = "read", !.op = "delete", !.run = r,
                                    !.seen = PendingOf(r)]
    <3>1. x \in ReqSlot /\ x.pc = "read" /\ x.op = "delete" /\ x.run = r
      BY DEF ReqSlot, IdleReq, PendingOf
    <3> QED
      BY <2>9, <3>1, SlotTypes DEF DeleteRead
  <2>3. CASE DecideReject(q) \/ DecideMessage(q) \/ DecideRelease(q)
             \/ DecideReleaseFails(q)
    <3>1. req[q].appr \in Approvals
      BY <2>3 DEF DecideReject, DecideMessage, DecideRelease, DecideReleaseFails,
                  Deciding, RequestsOK, NamesApproval
    <3>2. \E pc \in {"perform", "lost", "decided"} : Step(q, pc)
      BY <2>3 DEF DecideReject, DecideMessage, DecideRelease, DecideReleaseFails
    <3> QED
      BY <3>1, <3>2, StepTypes
  <2>4. CASE DecideExecute(q)
    <3>1. req[q].appr \in Approvals
      BY <2>4 DEF DecideExecute, RequestsOK, NamesApproval
    <3>2. Step(q, "decided") \/ Reply(q)
      BY <2>4 DEF DecideExecute
    <3> QED
      BY <3>1, <3>2, StepTypes, ReplyTypes
  <2>5. CASE ContinueRead(q)
    <3>1. owner[req[q].appr] \in Runs \cup {None}
      BY <2>5 DEF ContinueRead, RowsOK, RequestsOK, NamesApproval
    <3>2. CASE Reply(q)
      BY <3>2, ReplyTypes
    <3>3. CASE ~Reply(q)
      BY <2>5, <3>1, <3>3 DEF ContinueRead, RequestsOK, ReqSlot, NamesApproval, NamesRun
    <3> QED
      BY <3>2, <3>3
  <2>6. CASE ClaimWon(q)
    <3>1. req[q].run \in Runs /\ Step(q, "spawn")
      BY <2>6 DEF ClaimWon, RequestsOK, NamesRun
    <3> QED
      BY <3>1, StepTypes
  <2>7. ClaimLost(q) \/ DecideMessageFails(q) \/ ExpireWrite(q)
        \/ RequestDies(q) \/ (\E l \in Loops : Spawn(q, l))
        => Reply(q)
    BY DEF ClaimLost, DecideMessageFails, ExpireWrite, RequestDies, Spawn
  <2> QED
    BY <1>1, <2>1, <2>2, <2>3, <2>4, <2>5, <2>6, <2>7, <2>8, <2>9, ReplyTypes
       DEF RequestStep, RequestGoesOn
<1>2. CASE UNCHANGED req
  BY <1>2 DEF RequestsOK, NamesApproval, NamesRun
<1>3. ASSUME NEW l \in Loops, LoopStep(l) PROVE UNCHANGED req
  BY <1>3 DEF LoopStep, StartTurn, LoopGate, LoopPark, LoopTakeover, LoopFinish,
              LoopFail, LegStarts, LegHasNoThread, LegRaises, LoopDies
<1>4. ASSUME NEW a \in Approvals, NEW r \in Runs \cup {None}, NEW k \in AllKinds,
             FileApproval(a, r, k)
      PROVE  UNCHANGED req
  BY <1>4 DEF FileApproval
<1>5. ASSUME NEW r \in Runs, Cancel(r) \/ Age(r) \/ SweepReap(r)
      PROVE  UNCHANGED req
  BY <1>5 DEF Cancel, Age, SweepReap
<1>6. SweepSelect \/ SweepFails \/ UNCHANGED vars => UNCHANGED req
  BY DEF SweepSelect, SweepFails, vars
<1> QED
  BY <1>1, <1>2, <1>3, <1>4, <1>5, <1>6 DEF Next

\* Type correctness.
THEOREM TypeCorrect == Spec => []TypeOK
<1>1. Init => TypeOK
  BY InitIInv DEF IInv
<1>2. TypeOK /\ [Next]_vars => TypeOK'
  BY RowTypes, LoopTypes, RequestTypes DEF TypeOK
<1> QED
  BY <1>1, <1>2, PTL DEF Spec

------------------------------------------------------------------------------
(* Mutual exclusion of the drivers of a run.                                *)

\* A step that adds no driver keeps the drivers apart, provided a run it parks
\* is left with none.
LEMMA NoNewDriver ==
  ASSUME OneDriver, ParkedIsUndriven,
         \A l \in Loops : Live(l)' => Live(l) /\ loop'[l].run = loop[l].run,
         \A q \in Requests : Claimed(q)' => Claimed(q) /\ req'[q].run = req[q].run,
         \A r \in Runs : status'[r] \in Awaiting \cup {"unused"}
                         => status'[r] = status[r] \/ ~Driven(r)'
  PROVE  OneDriver' /\ ParkedIsUndriven'
<1>1. OneDriver'
  BY DEF OneDriver
<1>2. \A r \in Runs : Driven(r)' => Driven(r)
  BY DEF Driven
<1>3. ParkedIsUndriven'
  BY <1>2 DEF ParkedIsUndriven
<1> QED
  BY <1>1, <1>3

\* The task that ends was the only driver of its run.
LEMMA EndedLoopLeavesNone ==
  ASSUME TypeOK, OneDriver, NEW l \in Loops, NEW r \in Runs,
         Live(l), loop[l].run = r, EndLoop(l), UNCHANGED req
  PROVE  /\ ~Driven(r)'
         /\ \A m \in Loops : Live(m)' => Live(m) /\ loop'[m].run = loop[m].run
<1>1. \A m \in Loops : m # l => loop'[m] = loop[m]
  BY DEF EndLoop, TypeOK, LoopsOK
<1>2. ~Live(l)'
  BY DEF EndLoop, TypeOK, LoopsOK, IdleLoop, Live
<1> QED
  BY <1>1, <1>2 DEF OneDriver, Driven, Live, Claimed

\* A loop drives a run nobody else drives, and leaves it parked or done.
LEMMA LoopDrivers ==
  ASSUME IInv, NEW l \in Loops, LoopStep(l)
  PROVE  OneDriver' /\ ParkedIsUndriven'
<1> USE DEF IInv
<1>1. ASSUME NEW r \in Runs, StartTurn(r, l) PROVE OneDriver' /\ ParkedIsUndriven'
  <2>1. ~Driven(r) /\ ~Live(l)
    BY <1>1 DEF StartTurn, ParkedIsUndriven, Live, IdleLoop
  <2>2. loop'[l].run = r /\ \A m \in Loops : m # l => loop'[m] = loop[m]
    BY <1>1 DEF StartTurn, TypeOK, LoopsOK, IdleLoop
  <2>3. status'[r] = "running" /\ \A s \in Runs : s # r => status'[s] = status[s]
    BY <1>1 DEF StartTurn, WriteRun, TypeOK, RowsOK
  <2>4. req' = req
    BY <1>1 DEF StartTurn
  <2>5. OneDriver'
    BY <2>1, <2>2, <2>4 DEF OneDriver, Driven, Live, Claimed
  <2>6. \A s \in Runs : s # r => (Driven(s)' => Driven(s))
    BY <2>2, <2>4 DEF Driven, Live, Claimed
  <2> QED
    BY <2>3, <2>5, <2>6 DEF ParkedIsUndriven, Awaiting
<1>2. CASE LegStarts(l) \/ \E a \in Approvals, k \in AllKinds : LoopGate(l, a, k)
  <2>1. \A m \in Loops : Live(m)' => Live(m) /\ loop'[m].run = loop[m].run
    BY <1>2 DEF LegStarts, LoopGate, TypeOK, LoopsOK, LoopSlot, Live
  <2>2. req' = req /\ status' = status
    BY <1>2 DEF LegStarts, LoopGate, runVars
  <2> QED
    BY <2>1, <2>2, NoNewDriver DEF Claimed
<1>3. ASSUME EndLoop(l), Live(l), req' = req,
             \A r \in Runs : r # loop[l].run => status'[r] = status[r]
      PROVE  OneDriver' /\ ParkedIsUndriven'
  <2>1. PICK r \in Runs : loop[l].run = r
    BY <1>3 DEF TypeOK, LoopsOK
  <2>2. /\ ~Driven(r)'
        /\ \A m \in Loops : Live(m)' => Live(m) /\ loop'[m].run = loop[m].run
    BY <1>3, <2>1, EndedLoopLeavesNone
  <2> QED
    BY <1>3, <2>1, <2>2, NoNewDriver DEF Claimed
<1>4. LoopPark(l) \/ LoopTakeover(l) \/ LoopFinish(l) \/ LoopFail(l)
      \/ LegHasNoThread(l) \/ LegRaises(l) \/ LoopDies(l)
      => /\ EndLoop(l) /\ Live(l) /\ req' = req
         /\ \A r \in Runs : r # loop[l].run => status'[r] = status[r]
  BY DEF LoopPark, LoopTakeover, LoopFinish, LoopFail, LegHasNoThread, LegRaises,
         LoopDies, Live, WriteRun, runVars, TypeOK, RowsOK
<1> QED
  BY <1>1, <1>2, <1>3, <1>4 DEF LoopStep

\* A claim finds the run parked, so nobody drives it; the claimant then does.
LEMMA ClaimDrivers ==
  ASSUME IInv, NEW q \in Requests, ClaimWon(q)
  PROVE  OneDriver' /\ ParkedIsUndriven'
<1> DEFINE r == req[q].run
<1> USE DEF IInv
<1>1. r \in Runs /\ status[r] \in Awaiting
  BY DEF ClaimWon, TypeOK, RequestsOK, NamesRun, ClaimsFrom, Awaiting
<1>2. ~Driven(r)
  BY <1>1 DEF ParkedIsUndriven
<1>3. /\ req'[q].run = r /\ loop' = loop
      /\ \A p \in Requests : p # q => req'[p] = req[p]
  BY DEF ClaimWon, Step, TypeOK, RequestsOK, ReqSlot
<1>4. status'[r] = "running" /\ \A s \in Runs : s # r => status'[s] = status[s]
  BY <1>1 DEF ClaimWon, WriteRun, TypeOK, RowsOK
<1>5. OneDriver'
  BY <1>2, <1>3 DEF OneDriver, Driven, Live, Claimed
<1>6. \A s \in Runs : s # r => (Driven(s)' => Driven(s))
  BY <1>3 DEF Driven, Live, Claimed
<1> HIDE DEF r
<1> QED
  BY <1>4, <1>5, <1>6 DEF ParkedIsUndriven, Awaiting

\* Starting the task hands the run from the claimant to it.
LEMMA SpawnDrivers ==
  ASSUME IInv, NEW q \in Requests, NEW l \in Loops, Spawn(q, l)
  PROVE  OneDriver' /\ ParkedIsUndriven'
<1> DEFINE r == req[q].run
<1> USE DEF IInv
<1>1. r \in Runs /\ Claimed(q) /\ ~Live(l)
  BY DEF Spawn, TypeOK, RequestsOK, NamesRun, Claimed, Live, IdleLoop
<1>2. loop'[l].run = r /\ \A m \in Loops : m # l => loop'[m] = loop[m]
  BY DEF Spawn, TypeOK, LoopsOK, IdleLoop
<1>3. ~Claimed(q)' /\ \A p \in Requests : p # q => req'[p] = req[p]
  BY DEF Spawn, Reply, TypeOK, RequestsOK, IdleReq, Claimed
<1>4. status' = status
  BY DEF Spawn, runVars
<1>5. OneDriver'
  BY <1>1, <1>2, <1>3 DEF OneDriver, Live, Claimed
<1>6. \A s \in Runs : Driven(s)' => Driven(s)
  BY <1>1, <1>2, <1>3 DEF Driven, Live, Claimed
<1> QED
  BY <1>4, <1>5, <1>6 DEF ParkedIsUndriven

\* No other step of a request claims a run, starts a task or writes a run's row.
LEMMA OtherRequestClaimsNone ==
  ASSUME TypeOK, NEW q \in Requests, RequestStep(q), ~ClaimWon(q),
         ~ \E l \in Loops : Spawn(q, l)
  PROVE  /\ loop' = loop /\ status' = status
         /\ \A p \in Requests : Claimed(p)' => Claimed(p) /\ req'[p].run = req[p].run
<1>1. loop' = loop /\ status' = status
  BY DEF RequestStep, RequestGoesOn, DecideRead, ExpireRead, ResumeRead, DeleteRead,
         DecideReject, DecideMessage, DecideRelease, DecideReleaseFails, runVars,
         DecideExecute, ContinueRead, ClaimLost, DecideMessageFails, ExpireWrite,
         RequestDies
<1>2. req'[q].pc # "spawn" /\ \A p \in Requests : p # q => req'[p] = req[p]
  <2> DEFINE Quiet == /\ req'[q].pc # "spawn"
                      /\ \A p \in Requests : p # q => req'[p] = req[p]
  <2> SUFFICES Quiet
    OBVIOUS
  <2> USE DEF TypeOK, RequestsOK, ReqSlot
  <2>1. CASE Reply(q)
    BY <2>1 DEF Reply, IdleReq
  <2>2. ASSUME NEW pc \in {"perform", "lost", "decided"}, Step(q, pc) PROVE Quiet
    BY <2>2 DEF Step
  <2>3. ASSUME NEW a \in Approvals, NEW d \in {"approved", "rejected"},
               DecideRead(q, a, d)
        PROVE  Quiet
    BY <2>3 DEF DecideRead, IdleReq
  <2>4. ASSUME NEW a \in Approvals, ExpireRead(q, a) PROVE Quiet
    BY <2>4 DEF ExpireRead, IdleReq
  <2>5. ASSUME NEW r \in Runs, ResumeRead(q, r) PROVE Quiet
    BY <2>5 DEF ResumeRead, IdleReq
  <2>6. ASSUME NEW r \in Runs, DeleteRead(q, r) PROVE Quiet
    BY <2>6 DEF DeleteRead, IdleReq
  <2>7. CASE ContinueRead(q) /\ ~Reply(q)
    BY <2>7 DEF ContinueRead
  <2>8. DecideReject(q) \/ DecideMessage(q) \/ DecideRelease(q)
        \/ DecideReleaseFails(q) \/ DecideExecute(q)
        => Reply(q) \/ \E pc \in {"perform", "lost", "decided"} : Step(q, pc)
    BY DEF DecideReject, DecideMessage, DecideRelease, DecideReleaseFails, DecideExecute
  <2>9. ClaimLost(q) \/ DecideMessageFails(q) \/ ExpireWrite(q) \/ RequestDies(q) => Reply(q)
    BY DEF ClaimLost, DecideMessageFails, ExpireWrite,
         RequestDies
  <2> HIDE DEF Quiet
  <2> QED
    BY <2>1, <2>2, <2>3, <2>4, <2>5, <2>6, <2>7, <2>8, <2>9
       DEF RequestStep, RequestGoesOn
<1>3. \A p \in Requests : Claimed(p)' => Claimed(p) /\ req'[p].run = req[p].run
  BY <1>2 DEF TypeOK, RequestsOK, Claimed
<1> QED
  BY <1>1, <1>3

LEMMA OtherRequestDrivers ==
  ASSUME IInv, NEW q \in Requests, RequestStep(q), ~ClaimWon(q),
         ~ \E l \in Loops : Spawn(q, l)
  PROVE  OneDriver' /\ ParkedIsUndriven'
BY OtherRequestClaimsNone, NoNewDriver DEF IInv, Live

\* The invariant is inductive.
LEMMA NextIInv == IInv /\ [Next]_vars => IInv'
<1> SUFFICES ASSUME IInv, [Next]_vars PROVE IInv'
  OBVIOUS
<1>1. TypeOK'
  BY RowTypes, LoopTypes, RequestTypes DEF IInv, TypeOK
<1>2. ASSUME NEW l \in Loops, LoopStep(l) PROVE OneDriver' /\ ParkedIsUndriven'
  BY <1>2, LoopDrivers
<1>3. ASSUME NEW q \in Requests, RequestStep(q) PROVE OneDriver' /\ ParkedIsUndriven'
  BY <1>3, ClaimDrivers, SpawnDrivers, OtherRequestDrivers
<1>4. ASSUME loop' = loop, req' = req,
             \A r \in Runs : status'[r] \in Awaiting \cup {"unused"}
                             => status'[r] = status[r]
      PROVE  OneDriver' /\ ParkedIsUndriven'
  BY <1>4, NoNewDriver DEF IInv, Live, Claimed
<1>5. ASSUME NEW a \in Approvals, NEW r \in Runs \cup {None}, NEW k \in AllKinds,
             FileApproval(a, r, k)
      PROVE  loop' = loop /\ req' = req /\ status' = status
  BY <1>5 DEF FileApproval, runVars
<1>6. ASSUME NEW r \in Runs, Cancel(r) \/ Age(r) \/ SweepReap(r)
      PROVE  /\ loop' = loop /\ req' = req
             /\ \A s \in Runs : status'[s] \in Awaiting \cup {"unused"}
                                => status'[s] = status[s]
  BY <1>6 DEF Cancel, Age, SweepReap, WriteRun, IInv, TypeOK, RowsOK, Awaiting
<1>7. SweepSelect \/ SweepFails \/ UNCHANGED vars
      => loop' = loop /\ req' = req /\ status' = status
  BY DEF SweepSelect, SweepFails, vars, runVars
<1>8. OneDriver' /\ ParkedIsUndriven'
  BY <1>2, <1>3, <1>4, <1>5, <1>6, <1>7 DEF Next
<1> QED
  BY <1>1, <1>8 DEF IInv

\* Two decisions, a Continue press and whatever else may race never put two
\* tasks on one run.
THEOREM DriversExcludeEachOther == Spec => [](OneDriver /\ ParkedIsUndriven)
<1>1. IInv => OneDriver /\ ParkedIsUndriven
  BY DEF IInv
<1> QED
  BY <1>1, InitIInv, NextIInv, PTL DEF Spec

------------------------------------------------------------------------------
(* Who moves a run from which status to which.                              *)

\* The five ways a run's status changes, and from what.
LEMMA WhoWritesStatus ==
  ASSUME IInv, [Next]_vars, NEW r \in Runs, status'[r] # status[r]
  PROVE  \/ status[r] = "unused" /\ status'[r] = "running"
         \/ Driven(r) /\ status'[r] \in Awaiting \cup {"completed", "failed"}
         \/ status[r] \in Awaiting /\ status'[r] = "running"
         \/ status[r] \in Cancellable /\ status'[r] = "cancelled"
         \/ status[r] = "running" /\ status'[r] = "interrupted"
<1> USE DEF IInv, TypeOK, RowsOK, WriteRun, Awaiting
<1>1. ASSUME NEW l \in Loops, NEW s \in Runs, StartTurn(s, l)
      PROVE  status[r] = "unused" /\ status'[r] = "running"
  BY <1>1 DEF StartTurn
<1>2. ASSUME NEW l \in Loops, Live(l), NEW x \in Awaiting \cup {"completed", "failed"},
             WriteRun(loop[l].run, x)
      PROVE  Driven(r) /\ status'[r] \in Awaiting \cup {"completed", "failed"}
  <2>1. loop[l].run = r /\ status'[r] = x
    BY <1>2
  <2> QED
    BY <1>2, <2>1 DEF Driven
<1>3. ASSUME NEW l \in Loops, LoopStep(l), ~ \E s \in Runs : StartTurn(s, l)
      PROVE  \E x \in Awaiting \cup {"completed", "failed"} :
               Live(l) /\ WriteRun(loop[l].run, x)
  BY <1>3 DEF LoopStep, LoopGate, LoopPark, LoopTakeover, LoopFinish, LoopFail,
              LegStarts, LegHasNoThread, LegRaises, LoopDies, Live, runVars
<1>4. ASSUME NEW q \in Requests, RequestStep(q)
      PROVE  status[r] \in Awaiting /\ status'[r] = "running"
  <2>1. ClaimWon(q)
    BY <1>4 DEF RequestStep, RequestGoesOn, DecideRead, ExpireRead, ResumeRead,
         DeleteRead, DecideReject, DecideMessage, DecideRelease, runVars,
         DecideReleaseFails, DecideExecute, ContinueRead, ClaimLost, DecideMessageFails, ExpireWrite,
         RequestDies, Spawn
  <2> QED
    BY <2>1 DEF ClaimWon, ClaimsFrom
<1>5. ASSUME NEW s \in Runs, Cancel(s)
      PROVE  status[r] \in Cancellable /\ status'[r] = "cancelled"
  BY <1>5 DEF Cancel
<1>6. ASSUME NEW s \in Runs, SweepReap(s)
      PROVE  status[r] = "running" /\ status'[r] = "interrupted"
  BY <1>6 DEF SweepReap
<1>7. ASSUME NEW a \in Approvals, NEW s \in Runs \cup {None}, NEW k \in AllKinds,
             FileApproval(a, s, k)
      PROVE  FALSE
  BY <1>7 DEF FileApproval, runVars
<1>8. ASSUME NEW s \in Runs, Age(s) PROVE FALSE
  BY <1>8 DEF Age
<1>9. ~(SweepSelect \/ SweepFails \/ UNCHANGED vars)
  BY DEF SweepSelect, SweepFails, vars, runVars
<1> HIDE DEF IInv, TypeOK, RowsOK, WriteRun, Awaiting
<1> QED
  BY <1>1, <1>2, <1>3, <1>4, <1>5, <1>6, <1>7, <1>8, <1>9 DEF Next

\* The reaper never takes a run that waits for a person.
THEOREM ReaperSparesTheParked == Spec => NeverReapParked
<1>1. IInv /\ [Next]_vars
      => [\A r \in Runs : status[r] \in Awaiting => status'[r] # "interrupted"]_vars
  <2> SUFFICES ASSUME IInv, [Next]_vars, NEW r \in Runs, status[r] \in Awaiting,
                      status'[r] = "interrupted"
               PROVE  FALSE
    OBVIOUS
  <2>1. ~Driven(r)
    BY DEF IInv, ParkedIsUndriven
  <2> QED
    BY <2>1, WhoWritesStatus DEF Awaiting
<1> QED
  BY <1>1, InitIInv, NextIInv, PTL DEF Spec, NeverReapParked

\* Nothing revives a finished run.
THEOREM FinishedIsFinal == Spec => FinishedStaysFinished
<1>1. IInv /\ [Next]_vars
      => [\A r \in Runs : status[r] \in Finished /\ ~Driven(r)
                          => status'[r] = status[r]]_vars
  <2> SUFFICES ASSUME IInv, [Next]_vars, NEW r \in Runs, status[r] \in Finished,
                      ~Driven(r), status'[r] # status[r]
               PROVE  FALSE
    OBVIOUS
  <2> QED
    BY WhoWritesStatus DEF Finished, Awaiting, Cancellable
<1> QED
  BY <1>1, InitIInv, NextIInv, PTL DEF Spec, FinishedStaysFinished

------------------------------------------------------------------------------
(* What a request saw of an approval when it looked is still true when it    *)
(* writes, as long as nobody else looked in the meantime. Of an approval that *)
(* is not in doubt at most one request is at work, so it has done nothing yet *)
(* that a later look could miss.                                             *)

\* What the request that has approval a in hand may rely on.
Relies(q, a) ==
    /\ req[q].pc = "read" => verdict[a] = "pending"
    /\ req[q].pc = "perform" /\ req[q].appr = a
          => verdict[a] = "approved" /\ effects[a] = 0
    /\ ~(req[q].pc = "lost" /\ req[q].appr = a)

Undoubted(a) ==
    /\ effects[a] <= 1
    /\ effects[a] > 0 => verdict[a] = "approved"
    /\ \A p, q \in Requests : InHand(p, a) /\ InHand(q, a) => p = q
    /\ \A q \in Requests : InHand(q, a) => Relies(q, a)

AnswerInv == \A a \in Approvals \ doubtful : Undoubted(a)

\* Doubts are never lifted.
LEMMA DoubtsStay == [Next]_vars => doubtful \subseteq doubtful'
BY DEF Next, LoopStep, RequestStep, RequestGoesOn, StartTurn, LoopGate, LoopPark,
       LoopTakeover, LoopFinish, LoopFail, LegStarts, LegHasNoThread, LegRaises,
       LoopDies, DecideRead, ExpireRead, ResumeRead, DeleteRead, DecideReject,
       DecideMessage, DecideMessageFails, DecideRelease, DecideReleaseFails,
       DecideExecute, ContinueRead, ClaimWon, ClaimLost, Spawn, ExpireWrite,
       RequestDies, FileApproval, Cancel, Age, SweepReap, SweepSelect, SweepFails,
       TakesUp, vars

\* Filing an approval changes nothing for those that exist.
LEMMA FilingKeepsAnswers ==
  ASSUME TypeOK, AnswerInv, NEW a \in Approvals, NEW k \in AllKinds,
         NEW r \in Runs \cup {None}, CreateApproval(a, r, k), UNCHANGED <<req, doubtful>>
  PROVE  AnswerInv'
<1>1. /\ verdict[a] = "unused" /\ effects' = effects /\ req' = req
      /\ verdict' = [verdict EXCEPT ![a] = "pending"]
      /\ \A b \in Approvals : b # a => verdict'[b] = verdict[b]
  BY DEF CreateApproval, TypeOK, RowsOK
<1>2. effects \in [Approvals -> 0 .. 2] /\ verdict'[a] = "pending"
  BY <1>1 DEF TypeOK, RowsOK
<1>3. ASSUME NEW b \in Approvals, b \notin doubtful PROVE Undoubted(b)'
  <2>1. Undoubted(b)
    BY <1>3 DEF AnswerInv
  <2>2. CASE b = a
    BY <1>1, <1>2, <2>1, <2>2 DEF Undoubted, InHand, Relies
  <2>3. CASE b # a
    BY <1>1, <2>1, <2>3 DEF Undoubted, InHand, Relies
  <2> QED
    BY <2>2, <2>3
<1> QED
  BY <1>3 DEF AnswerInv

\* A request that answers, or goes on to a step that relies on nothing, and
\* writes no approval, keeps every approval as it is.
LEMMA LettingGoKeepsAnswers ==
  ASSUME TypeOK, AnswerInv, NEW q \in Requests, UNCHANGED <<verdict, effects>>,
         doubtful \subseteq doubtful',
         \A p \in Requests : p # q => req'[p] = req[p],
         \/ req'[q].pc = "idle"
         \/ /\ req[q].pc # "idle" /\ req'[q].pc \notin {"read", "perform", "lost"}
            /\ req'[q].appr = req[q].appr /\ req'[q].seen = req[q].seen
         \/ /\ req'[q].appr \notin Approvals /\ req'[q].seen = {}
  PROVE  AnswerInv'
<1> SUFFICES ASSUME NEW a \in Approvals, a \notin doubtful' PROVE Undoubted(a)'
  BY DEF AnswerInv
<1>1. Undoubted(a)
  BY DEF AnswerInv
<1>2. InHand(q, a)' => InHand(q, a) /\ Relies(q, a)'
  BY DEF InHand, Relies
<1>3. \A p \in Requests : p # q => /\ InHand(p, a)' <=> InHand(p, a)
                                   /\ Relies(p, a)' <=> Relies(p, a)
  BY DEF InHand, Relies
<1> QED
  BY <1>1, <1>2, <1>3 DEF Undoubted

\* A request takes up pending approvals: those nobody has in hand are its own,
\* the others are in doubt from here on.
LEMMA TakingUpKeepsAnswers ==
  ASSUME TypeOK, AnswerInv, NEW q \in Requests, req[q].pc = "idle",
         NEW S \in SUBSET Approvals, TakesUp(S), UNCHANGED <<verdict, effects>>,
         \A p \in Requests : p # q => req'[p] = req[p],
         req'[q].pc = "read",
         \A a \in Approvals : req'[q].appr = a \/ a \in req'[q].seen => a \in S,
         \A a \in S : verdict[a] = "pending"
  PROVE  AnswerInv'
<1> SUFFICES ASSUME NEW a \in Approvals, a \notin doubtful' PROVE Undoubted(a)'
  BY DEF AnswerInv
<1>1. Undoubted(a)
  BY DEF AnswerInv, TakesUp
<1>2. \A p \in Requests : p # q => /\ InHand(p, a)' <=> InHand(p, a)
                                   /\ Relies(p, a)' <=> Relies(p, a)
  BY DEF InHand, Relies
<1>3. ASSUME InHand(q, a)'
      PROVE  Relies(q, a)' /\ \A p \in Requests : ~InHand(p, a)
  <2>1. a \in S
    BY <1>3 DEF InHand
  <2>2. \A p \in Requests : ~InHand(p, a)
    BY <2>1 DEF TakesUp
  <2> QED
    BY <2>1, <2>2 DEF Relies
<1> QED
  BY <1>1, <1>2, <1>3 DEF Undoubted

\* A request moves on from deciding approval a, and writes no other.
LEMMA DecidingKeepsAnswers ==
  ASSUME TypeOK, AnswerInv, NEW q \in Requests, req[q].pc # "idle",
         NEW pc \in {"perform", "lost", "decided"}, Step(q, pc),
         NEW a \in Approvals, req[q].appr = a,
         doubtful \subseteq doubtful',
         \A b \in Approvals : b # a => verdict'[b] = verdict[b] /\ effects'[b] = effects[b],
         a \notin doubtful' =>
            /\ effects'[a] <= 1
            /\ effects'[a] > 0 => verdict'[a] = "approved"
            /\ pc = "perform" => verdict'[a] = "approved" /\ effects'[a] = 0
            /\ pc # "lost"
  PROVE  AnswerInv'
<1>1. /\ req'[q].pc = pc /\ req'[q].appr = a /\ req'[q].seen = req[q].seen
      /\ \A p \in Requests : p # q => req'[p] = req[p]
  BY DEF Step, TypeOK, RequestsOK, ReqSlot
<1>2. ASSUME NEW b \in Approvals, b \notin doubtful' PROVE Undoubted(b)'
  <2>1. Undoubted(b)
    BY <1>2 DEF AnswerInv
  <2>2. \A p \in Requests : InHand(p, b)' <=> InHand(p, b)
    BY <1>1 DEF InHand
  <2>3. CASE b = a
    <3>1. \A p \in Requests : InHand(p, a) => p = q
      BY <2>1, <2>3 DEF Undoubted, InHand
    <3>2. Relies(q, a)'
      BY <1>1, <1>2, <2>3 DEF Relies
    <3> QED
      BY <1>2, <2>1, <2>2, <2>3, <3>1, <3>2 DEF Undoubted
  <2>4. CASE b # a
    <3>1. \A p \in Requests : InHand(p, b) => Relies(p, b)'
      BY <1>1, <2>1, <2>4 DEF Undoubted, Relies
    <3> QED
      BY <2>1, <2>2, <2>4, <3>1 DEF Undoubted
  <2> QED
    BY <2>3, <2>4
<1> QED
  BY <1>2 DEF AnswerInv

\* What a request that is about to answer an approval that is not in doubt
\* may rely on.
LEMMA AnswererRelies ==
  ASSUME TypeOK, AnswerInv, NEW q \in Requests, NamesApproval(q),
         req[q].appr \notin doubtful
  PROVE  LET a == req[q].appr IN
         /\ a \in Approvals /\ effects[a] \in 0 .. 1
         /\ req[q].pc = "read" => verdict[a] = "pending" /\ effects[a] = 0
         /\ req[q].pc = "perform" => verdict[a] = "approved" /\ effects[a] = 0
         /\ req[q].pc # "lost"
<1>1. req[q].appr \in Approvals
  BY DEF TypeOK, RequestsOK
<1>2. Undoubted(req[q].appr) /\ InHand(q, req[q].appr)
  BY <1>1 DEF AnswerInv, InHand, NamesApproval
<1> QED
  BY <1>1, <1>2 DEF Undoubted, Relies, TypeOK, RowsOK

\* Every step of a request keeps what is known of the approvals not in doubt.
LEMMA RequestKeepsAnswers ==
  ASSUME TypeOK, AnswerInv, NEW q \in Requests, RequestStep(q),
         doubtful \subseteq doubtful'
  PROVE  AnswerInv'
<1> DEFINE a == req[q].appr
<1>0. req \in [Requests -> ReqSlot] /\ req[q] \in ReqSlot
  BY DEF TypeOK, RequestsOK
<1>1. ASSUME NEW b \in Approvals, NEW d \in {"approved", "rejected"}, DecideRead(q, b, d)
      PROVE  AnswerInv'
  <2>1. /\ req[q].pc = "idle" /\ req'[q].pc = "read" /\ req'[q].appr = b
        /\ req'[q].seen = {} /\ \A p \in Requests : p # q => req'[p] = req[p]
        /\ verdict[b] = "pending" /\ TakesUp({b}) /\ UNCHANGED <<verdict, effects>>
    BY <1>0, <1>1 DEF DecideRead, IdleReq, apprVars
  <2> QED
    BY <2>1, TakingUpKeepsAnswers
<1>2. ASSUME NEW b \in Approvals, ExpireRead(q, b) PROVE AnswerInv'
  <2>1. /\ req[q].pc = "idle" /\ req'[q].pc = "read" /\ req'[q].appr = None
        /\ req'[q].seen = {b} /\ \A p \in Requests : p # q => req'[p] = req[p]
        /\ verdict[b] = "pending" /\ TakesUp({b}) /\ UNCHANGED <<verdict, effects>>
    BY <1>0, <1>2 DEF ExpireRead, IdleReq, apprVars
  <2> QED
    BY <2>1, TakingUpKeepsAnswers, ConstantsAssumption
<1>3. ASSUME NEW r \in Runs, DeleteRead(q, r) PROVE AnswerInv'
  <2>1. /\ req[q].pc = "idle" /\ req'[q].pc = "read" /\ req'[q].appr = None
        /\ req'[q].seen = PendingOf(r) /\ \A p \in Requests : p # q => req'[p] = req[p]
        /\ TakesUp(PendingOf(r)) /\ UNCHANGED <<verdict, effects>>
    BY <1>0, <1>3 DEF DeleteRead, IdleReq, apprVars
  <2>2. PendingOf(r) \in SUBSET Approvals /\ \A b \in PendingOf(r) : verdict[b] = "pending"
    BY DEF PendingOf
  <2> QED
    BY <2>1, <2>2, TakingUpKeepsAnswers, ConstantsAssumption
<1>4. ASSUME NEW r \in Runs, ResumeRead(q, r) PROVE AnswerInv'
  <2>1. /\ req'[q].appr = None /\ req'[q].seen = {}
        /\ \A p \in Requests : p # q => req'[p] = req[p]
        /\ UNCHANGED <<verdict, effects>>
    BY <1>0, <1>4 DEF ResumeRead, IdleReq, apprVars
  <2> QED
    BY <2>1, LettingGoKeepsAnswers, ConstantsAssumption
<1>5. CASE Reply(q) /\ UNCHANGED <<verdict, effects>>
  <2>1. req'[q].pc = "idle" /\ \A p \in Requests : p # q => req'[p] = req[p]
    BY <1>0, <1>5 DEF Reply, IdleReq
  <2> QED
    BY <1>5, <2>1, LettingGoKeepsAnswers
<1>6. CASE ContinueRead(q) \/ ClaimWon(q)
  <2>1. CASE ~Reply(q)
    <3>1. /\ req[q].pc # "idle" /\ req'[q].pc \in {"claim", "spawn"}
          /\ req'[q].appr = req[q].appr /\ req'[q].seen = req[q].seen
          /\ \A p \in Requests : p # q => req'[p] = req[p]
          /\ UNCHANGED <<verdict, effects>>
      BY <1>0, <1>6, <2>1 DEF ContinueRead, ClaimWon, Step, apprVars, ReqSlot
    <3> QED
      BY <3>1, LettingGoKeepsAnswers
  <2> QED
    BY <1>5, <1>6, <2>1 DEF ContinueRead, ClaimWon, apprVars
<1>7. CASE DecideReject(q) \/ DecideMessage(q) \/ DecideRelease(q) \/ DecideReleaseFails(q)
  <2>1. /\ NamesApproval(q) /\ a \in Approvals /\ req[q].pc = "read"
        /\ verdict \in [Approvals -> Verdicts] /\ effects \in [Approvals -> 0 .. 2]
    BY <1>7 DEF DecideReject, DecideMessage, DecideRelease, DecideReleaseFails, Deciding,
                NamesApproval, TypeOK, RequestsOK, RowsOK
  <2>2. a \notin doubtful' => effects[a] = 0
    BY <2>1, AnswererRelies
  <2>3. CASE DecideReject(q)
    BY <2>1, <2>2, <2>3, DecidingKeepsAnswers DEF DecideReject, SetVerdict
  <2>4. CASE DecideMessage(q)
    <3>1. /\ verdict'[a] = "approved"
          /\ effects[a] = 0 => effects'[a] \in 0 .. 1
          /\ \A b \in Approvals : b # a => verdict'[b] = verdict[b] /\ effects'[b] = effects[b]
      BY <2>1, <2>4 DEF DecideMessage, SetVerdict, Perform
    <3> QED
      BY <2>1, <2>2, <2>4, <3>1, DecidingKeepsAnswers DEF DecideMessage
  <2>5. CASE DecideRelease(q)
    BY <2>1, <2>2, <2>5, DecidingKeepsAnswers DEF DecideRelease, SetVerdict
  <2>6. CASE DecideReleaseFails(q)
    BY <2>1, <2>6, DecidingKeepsAnswers DEF DecideReleaseFails, apprVars
  <2> QED
    BY <1>7, <2>3, <2>4, <2>5, <2>6
<1>8. CASE DecideExecute(q)
  <2>1. /\ NamesApproval(q) /\ a \in Approvals /\ verdict' = verdict
        /\ effects \in [Approvals -> 0 .. 2]
    BY <1>8 DEF DecideExecute, NamesApproval, TypeOK, RequestsOK, RowsOK
  <2>2. /\ effects[a] = 0 => effects'[a] \in 0 .. 1
        /\ \A b \in Approvals : b # a => effects'[b] = effects[b]
    BY <1>8, <2>1 DEF DecideExecute, Perform
  <2>3. a \notin doubtful' => /\ req[q].pc = "perform" /\ verdict[a] = "approved"
                              /\ effects[a] = 0
    BY <1>8, <2>1, AnswererRelies DEF DecideExecute
  <2>4. CASE req[q].pc = "perform"
    BY <1>8, <2>1, <2>2, <2>3, <2>4, DecidingKeepsAnswers DEF DecideExecute
  <2>5. CASE req[q].pc = "lost"
    <3>1. a \in doubtful'
      BY <2>3, <2>5
    <3>2. req'[q].pc = "idle" /\ \A p \in Requests : p # q => req'[p] = req[p]
      BY <1>0, <1>8, <2>5 DEF DecideExecute, Reply, IdleReq
    <3>3. ASSUME NEW b \in Approvals, b \notin doubtful' PROVE Undoubted(b)'
      BY <2>1, <2>2, <3>1, <3>2, <3>3 DEF AnswerInv, Undoubted, InHand, Relies
    <3> QED
      BY <3>3 DEF AnswerInv
  <2> QED
    BY <1>8, <2>4, <2>5 DEF DecideExecute
<1>9. CASE ExpireWrite(q)
  <2>1. /\ \A b \in Approvals : b \notin req[q].seen => verdict'[b] = verdict[b]
        /\ effects' = effects /\ req[q].pc = "read"
        /\ req'[q].pc = "idle" /\ \A p \in Requests : p # q => req'[p] = req[p]
    BY <1>0, <1>9 DEF ExpireWrite, Reply, IdleReq
  <2>2. ASSUME NEW b \in Approvals, b \notin doubtful' PROVE Undoubted(b)'
    <3>1. Undoubted(b)
      BY <2>2 DEF AnswerInv
    <3>2. CASE b \in req[q].seen
      <4>1. InHand(q, b) /\ verdict[b] = "pending"
        BY <2>1, <3>1, <3>2 DEF InHand, Undoubted, Relies
      <4>2. \A p \in Requests : ~InHand(p, b)'
        BY <2>1, <3>1, <4>1 DEF InHand, Undoubted
      <4>3. effects[b] = 0
        BY <3>1, <4>1 DEF Undoubted, TypeOK, RowsOK
      <4> QED
        BY <2>1, <3>1, <4>2, <4>3 DEF Undoubted
    <3>3. CASE b \notin req[q].seen
      BY <2>1, <3>1, <3>3 DEF Undoubted, InHand, Relies
    <3> QED
      BY <3>2, <3>3
  <2> QED
    BY <2>2 DEF AnswerInv
<1>10. ClaimLost(q) \/ DecideMessageFails(q) \/ RequestDies(q) \/ (\E l \in Loops : Spawn(q, l))
       => Reply(q) /\ UNCHANGED <<verdict, effects>>
  BY DEF ClaimLost, DecideMessageFails, RequestDies, Spawn, apprVars
<1> QED
  BY <1>1, <1>2, <1>3, <1>4, <1>5, <1>6, <1>7, <1>8, <1>9, <1>10
     DEF RequestStep, RequestGoesOn

\* A step that is no request's files an approval or leaves all of them alone.
LEMMA OthersOnlyFile ==
  ASSUME TypeOK, [Next]_vars, ~ \E q \in Requests : RequestStep(q)
  PROVE  \/ UNCHANGED <<apprVars, req, doubtful>>
         \/ /\ UNCHANGED <<req, doubtful>>
            /\ \E a \in Approvals, r \in Runs \cup {None}, k \in AllKinds :
                  CreateApproval(a, r, k)
<1>1. ASSUME NEW l \in Loops, LoopStep(l),
             ~ \E a \in Approvals, k \in AllKinds : LoopGate(l, a, k)
      PROVE  UNCHANGED <<apprVars, req, doubtful>>
  BY <1>1 DEF LoopStep, StartTurn, LoopPark, LoopTakeover, LoopFinish, LoopFail,
              LegStarts, LegHasNoThread, LegRaises, LoopDies
<1>2. ASSUME NEW l \in Loops, NEW a \in Approvals, NEW k \in AllKinds, LoopGate(l, a, k)
      PROVE  /\ CreateApproval(a, loop[l].run, k) /\ UNCHANGED <<req, doubtful>>
             /\ loop[l].run \in Runs \cup {None}
  BY <1>2 DEF LoopGate, TypeOK, LoopsOK, LoopSlot
<1>3. ASSUME NEW a \in Approvals, NEW r \in Runs \cup {None}, NEW k \in AllKinds,
             FileApproval(a, r, k)
      PROVE  CreateApproval(a, r, k) /\ UNCHANGED <<req, doubtful>>
  BY <1>3 DEF FileApproval
<1>4. ASSUME NEW r \in Runs, Cancel(r) \/ Age(r) \/ SweepReap(r)
      PROVE  UNCHANGED <<apprVars, req, doubtful>>
  BY <1>4 DEF Cancel, Age, SweepReap
<1>5. SweepSelect \/ SweepFails \/ UNCHANGED vars => UNCHANGED <<apprVars, req, doubtful>>
  BY DEF SweepSelect, SweepFails, vars
<1> QED
  BY <1>1, <1>2, <1>3, <1>4, <1>5 DEF Next

\* Every step keeps what is known of the approvals that are not in doubt.
LEMMA NextKeepsAnswers ==
  ASSUME TypeOK, AnswerInv, [Next]_vars
  PROVE  AnswerInv'
<1>1. CASE \E q \in Requests : RequestStep(q)
  BY <1>1, RequestKeepsAnswers, DoubtsStay
<1>2. CASE UNCHANGED <<apprVars, req, doubtful>>
  BY <1>2 DEF AnswerInv, Undoubted, InHand, Relies, apprVars
<1> QED
  BY <1>1, <1>2, OthersOnlyFile, FilingKeepsAnswers

(* The rows implement HeldAction: every step of the API answers, performs or *)
(* leaves alone the action an approval holds.                                *)

\* Filing an approval holds its action, and leaves the other actions alone.
LEMMA FilingHolds ==
  ASSUME TypeOK, NEW a \in Approvals, NEW b \in Approvals, NEW k \in AllKinds,
         NEW r \in Runs \cup {None}, CreateApproval(b, r, k)
  PROVE  Goes(a)
<1>1. effects' = effects /\ verdict' = [verdict EXCEPT ![b] = "pending"]
  BY DEF CreateApproval
<1>2. CASE a = b
  <2>1. verdict[a] = "unused" /\ verdict'[a] = "pending"
    BY <1>1, <1>2 DEF CreateApproval, TypeOK, RowsOK
  <2>2. Held(a)!Hold
    BY <1>1, <2>1 DEF Held!Hold, AnswerOf
  <2> QED
    BY <2>2 DEF Goes, Held!Next
<1>3. CASE a # b
  <2>1. verdict'[a] = verdict[a]
    BY <1>1, <1>3 DEF TypeOK, RowsOK
  <2> QED
    BY <1>1, <2>1 DEF Goes, AnswerOf
<1> QED
  BY <1>2, <1>3

\* What the only request at work on an approval does to verdict and effect is
\* an answer, a deed that was answered yes, or nothing.
LEMMA RequestAnswers ==
  ASSUME TypeOK, AnswerInv, NEW q \in Requests, RequestStep(q),
         NEW a \in Approvals, a \notin doubtful
  PROVE  Goes(a)
<1> DEFINE mine == req[q].appr
<1>0. verdict \in [Approvals -> Verdicts] /\ effects \in [Approvals -> 0 .. 2]
  BY DEF TypeOK, RowsOK
<1>1. CASE verdict'[a] = verdict[a] /\ effects'[a] = effects[a]
  BY <1>1 DEF Goes, AnswerOf
<1>2. ASSUME NamesApproval(q), mine # a,
             DecideReject(q) \/ DecideMessage(q) \/ DecideRelease(q) \/ DecideExecute(q)
      PROVE  Goes(a)
  BY <1>0, <1>1, <1>2 DEF DecideReject, DecideMessage, DecideRelease, DecideExecute,
                          SetVerdict, Perform
<1>3. CASE DecideReject(q)
  <2>1. CASE mine = a
    <3>1. verdict[a] = "pending" /\ verdict'[a] = "rejected" /\ effects' = effects
      BY <1>0, <1>3, <2>1, AnswererRelies DEF DecideReject, Deciding, SetVerdict, NamesApproval
    <3>2. Held(a)!Refuse
      BY <3>1 DEF Held!Refuse, AnswerOf
    <3> QED
      BY <3>2 DEF Goes, Held!Next
  <2> QED
    BY <1>2, <1>3, <2>1 DEF DecideReject, Deciding, NamesApproval
<1>4. CASE DecideMessage(q) \/ DecideRelease(q)
  <2>1. CASE mine = a
    <3>1. verdict[a] = "pending" /\ effects[a] = 0 /\ verdict'[a] = "approved"
      BY <1>0, <1>4, <2>1, AnswererRelies
         DEF DecideMessage, DecideRelease, Deciding, SetVerdict, NamesApproval
    <3>2. effects'[a] = 1 \/ effects'[a] = effects[a]
      BY <1>0, <1>4, <2>1, <3>1 DEF DecideMessage, DecideRelease, Perform
    <3>3. Held(a)!Approve
      BY <3>1 DEF Held!Approve, AnswerOf
    <3>4. CASE effects'[a] = 1
      <4>1. Held(a)!Do
        BY <3>1, <3>4 DEF Held!Do
      <4> QED
        BY <3>3, <4>1 DEF Goes, Held!Next, Held!ApproveAndDo
    <3>5. CASE effects'[a] = effects[a]
      BY <3>3, <3>5 DEF Goes, Held!Next, Held!ApproveOnly
    <3> QED
      BY <3>2, <3>4, <3>5
  <2> QED
    BY <1>2, <1>4, <2>1 DEF DecideMessage, DecideRelease, Deciding, NamesApproval
<1>5. CASE DecideExecute(q)
  <2>1. NamesApproval(q)
    BY <1>5 DEF DecideExecute, NamesApproval
  <2>2. CASE mine = a
    <3>1. verdict[a] = "approved" /\ effects[a] = 0 /\ verdict'[a] = verdict[a]
      BY <1>5, <2>1, <2>2, AnswererRelies DEF DecideExecute
    <3>2. effects'[a] = 1 \/ effects'[a] = effects[a]
      BY <1>0, <1>5, <2>2, <3>1 DEF DecideExecute, Perform
    <3>3. CASE effects'[a] = 1
      <4>1. Held(a)!DoApproved
        BY <3>1, <3>3 DEF Held!DoApproved, Held!Do, AnswerOf
      <4> QED
        BY <4>1 DEF Goes, Held!Next
    <3> QED
      BY <1>1, <3>1, <3>2, <3>3
  <2> QED
    BY <1>2, <1>5, <2>1, <2>2
<1>6. CASE ExpireWrite(q)
  <2>1. effects' = effects
    BY <1>6 DEF ExpireWrite
  <2>2. CASE verdict'[a] # verdict[a]
    <3>1. a \in req[q].seen /\ verdict'[a] = "expired" /\ req[q].pc = "read"
      BY <1>6, <2>2 DEF ExpireWrite
    <3>2. verdict[a] = "pending"
      BY <3>1 DEF AnswerInv, Undoubted, InHand, Relies
    <3>3. Held(a)!Refuse
      BY <2>1, <3>1, <3>2 DEF Held!Refuse, AnswerOf
    <3> QED
      BY <3>3 DEF Goes, Held!Next
  <2> QED
    BY <1>1, <2>1, <2>2
<1>7. \/ UNCHANGED <<verdict, effects>>
      \/ DecideReject(q) \/ DecideMessage(q) \/ DecideRelease(q) \/ DecideExecute(q)
      \/ ExpireWrite(q)
  BY DEF RequestStep, RequestGoesOn, DecideRead, ExpireRead, ResumeRead, DeleteRead,
         DecideMessageFails, DecideReleaseFails, ContinueRead, ClaimWon, ClaimLost,
         Spawn, RequestDies, apprVars
<1> QED
  BY <1>1, <1>3, <1>4, <1>5, <1>6, <1>7

\* Every step maps to a step of HeldAction or to a stutter.
LEMMA StepMaps ==
  ASSUME TypeOK, AnswerInv, [Next]_vars, NEW a \in Approvals, a \notin doubtful
  PROVE  Goes(a)
<1>1. CASE \E q \in Requests : RequestStep(q)
  BY <1>1, RequestAnswers
<1>2. CASE UNCHANGED <<apprVars, req, doubtful>>
  BY <1>2 DEF Goes, AnswerOf, apprVars
<1> QED
  BY <1>1, <1>2, OthersOnlyFile, FilingHolds

\* The initial rows hold no action.
LEMMA NothingHeldAtFirst == Init => \A a \in Approvals : Held(a)!Init
<1> SUFFICES ASSUME Init, NEW a \in Approvals PROVE Held(a)!Init
  OBVIOUS
<1> QED
  BY DEF Init, Held!Init, AnswerOf

\* With any number of requests at once: an action whose approval no two of them
\* had in hand together, and whose answer was not lost, gets one answer, keeps it,
\* and happens at most once and only after a recorded yes, whatever becomes of the
\* run, of its thread, of the loops and of everybody else's approvals.
THEOREM UndoubtedAnswersHold == Spec => UndoubtedAnswersStand
<1>1. Init => AnswerInv
  BY DEF Init, AnswerInv, Undoubted, InHand, IdleReq
<1>2. IInv /\ AnswerInv /\ [Next]_vars => AnswerInv'
  BY NextKeepsAnswers DEF IInv
<1>3. IInv /\ AnswerInv /\ [Next]_vars
      => [\A a \in Approvals \ doubtful' : Goes(a)]_vars
  BY StepMaps, DoubtsStay DEF IInv
<1> QED
  BY <1>1, <1>2, <1>3, NothingHeldAtFirst, InitIInv, NextIInv, PTL
     DEF Spec, UndoubtedAnswersStand

------------------------------------------------------------------------------
(* A claim continues the run on the decision that was made. Between looking   *)
(* at runs.detail and the claim nothing holds the run; what keeps it parked   *)
(* on the same approval is that an approval on its way to its only decision    *)
(* has not set its run going yet. With a second decision of it, it may have;   *)
(* one such approval is enough to mislead its run from then on.                *)

\* No approval of run r was ever in doubt.
Clear(r) == \A a \in doubtful : owner[a] # r

\* A decision is being made that may still continue a run.
Decides(q) == /\ req[q].op = "decide"
              /\ req[q].pc \in {"read", "perform", "decided", "claim"}

\* No run has been continued on approval a.
Unspent(a) == \/ verdict[a] = "pending"
              \/ \E q \in Requests : Decides(q) /\ req[q].appr = a

\* A run is parked on an approval of its own; while that has not continued it,
\* the run is nobody's.
ParkedOn(r) ==
    /\ status[r] = "awaiting_human" => parked[r] = "NoHold"
    /\ parked[r] \in Approvals =>
          /\ status[r] # "unused" /\ verdict[parked[r]] # "unused"
          /\ owner[parked[r]] = r
          /\ Clear(r) /\ Unspent(parked[r]) => ~Driven(r)

\* A decision under way is about an approval that exists, is recorded before
\* the run is looked at, and once it has been, the run is parked on it.
DecisionOn(q) ==
    Decides(q) =>
       /\ req[q].appr \in Approvals /\ verdict[req[q].appr] # "unused"
       /\ req[q].pc # "read" => verdict[req[q].appr] # "pending"
       /\ req[q].pc = "claim" =>
             /\ owner[req[q].appr] = req[q].run
             /\ Clear(req[q].run) => parked[req[q].run] = req[q].appr

\* A task that holds a step has filed the approval, in its run's name.
HoldsItsOwn(l) == loop[l].pc = "gated" => /\ verdict[loop[l].appr] # "unused"
                                          /\ owner[loop[l].appr] = loop[l].run

ParkInv ==
    /\ \A r \in Runs : ParkedOn(r)
    /\ \A l \in Loops : HoldsItsOwn(l)
    /\ \A q \in Requests : DecisionOn(q)
    /\ \A a \in doubtful : verdict[a] # "unused"

\* Filing an approval touches nothing that is known about the others.
LEMMA FilingParks ==
  ASSUME TypeOK, ParkInv, NEW a \in Approvals, NEW k \in AllKinds,
         NEW r \in Runs \cup {None}, CreateApproval(a, r, k),
         UNCHANGED <<runVars, req, doubtful>>,
         \A l \in Loops : /\ Live(l)' = Live(l) /\ loop'[l].run = loop[l].run
                          /\ loop'[l].pc = "gated"
                             => \/ loop'[l].appr = a /\ loop[l].run = r
                                \/ loop'[l] = loop[l]
  PROVE  ParkInv'
<1>1. /\ verdict[a] = "unused" /\ verdict'[a] = "pending" /\ owner'[a] = r
      /\ \A b \in Approvals : b # a => verdict'[b] = verdict[b] /\ owner'[b] = owner[b]
      /\ status' = status /\ parked' = parked /\ req' = req /\ doubtful' = doubtful
      /\ doubtful \subseteq Approvals
  BY DEF CreateApproval, TypeOK, RowsOK, runVars
<1>2. \A s \in Runs : Driven(s)' <=> Driven(s)
  BY <1>1 DEF Driven, Claimed
<1>3. \A b \in Approvals : b # a => (Unspent(b)' => Unspent(b))
  BY <1>1 DEF Unspent, Decides
<1>7. \A b \in doubtful : verdict[b] # "unused" /\ owner'[b] = owner[b]
  BY <1>1 DEF ParkInv
<1>8. \A s : Clear(s)' => Clear(s)
  BY <1>1, <1>7 DEF Clear
<1>4. \A s \in Runs : ParkedOn(s)'
  BY <1>1, <1>2, <1>3, <1>8 DEF ParkInv, ParkedOn
<1>5. \A l \in Loops : HoldsItsOwn(l)'
  <2> SUFFICES ASSUME NEW l \in Loops, loop'[l].pc = "gated"
               PROVE  HoldsItsOwn(l)'
    BY DEF HoldsItsOwn
  <2>1. CASE loop'[l].appr = a /\ loop[l].run = r
    BY <1>1, <2>1 DEF HoldsItsOwn
  <2>2. CASE loop'[l] = loop[l]
    <3>1. loop[l].appr \in Approvals
      BY <2>2 DEF TypeOK, LoopsOK
    <3> QED
      BY <1>1, <2>2, <3>1 DEF ParkInv, HoldsItsOwn
  <2> QED
    BY <2>1, <2>2
<1>6. \A q \in Requests : DecisionOn(q)'
  BY <1>1, <1>8 DEF ParkInv, DecisionOn, Decides
<1>9. \A b \in doubtful' : verdict'[b] # "unused"
  BY <1>1, <1>7
<1> QED
  BY <1>4, <1>5, <1>6, <1>9 DEF ParkInv

\* A leg that ends leaves its run to nobody, and parks it on the approval it
\* filed itself or leaves it as it was; no decision waits to claim that run.
LEMMA LegEndParks ==
  ASSUME IInv, ParkInv, NEW l \in Loops,
         LoopPark(l) \/ LoopTakeover(l) \/ LoopFinish(l) \/ LoopFail(l)
         \/ LegHasNoThread(l) \/ LegRaises(l) \/ LoopDies(l)
  PROVE  ParkInv'
<1>1. /\ EndLoop(l) /\ Live(l) /\ req' = req /\ verdict' = verdict
      /\ owner' = owner /\ doubtful' = doubtful
  BY DEF LoopPark, LoopTakeover, LoopFinish, LoopFail, LegHasNoThread, LegRaises,
         LoopDies, Live, apprVars
<1>2. PICK r \in Runs : loop[l].run = r
  BY <1>1 DEF IInv, TypeOK, LoopsOK
<1>3. /\ ~Driven(r)' /\ Driven(r)
      /\ \A m \in Loops : Live(m)' => Live(m) /\ loop'[m].run = loop[m].run
  BY <1>1, <1>2, EndedLoopLeavesNone DEF IInv, Driven
<1>4. \A s \in Runs : Driven(s)' => Driven(s)
  BY <1>1, <1>3 DEF Driven, Claimed
<1>5. \A m \in Loops : HoldsItsOwn(m)'
  <2>1. \A m \in Loops : loop'[m].pc = "gated" => loop'[m] = loop[m]
    BY <1>1 DEF EndLoop, IInv, TypeOK, LoopsOK, IdleLoop
  <2> QED
    BY <1>1, <2>1 DEF ParkInv, HoldsItsOwn
<1>6. \A s \in Runs : s # r => status'[s] = status[s] /\ parked'[s] = parked[s]
  BY <1>2 DEF LoopPark, LoopTakeover, LoopFinish, LoopFail, LegHasNoThread, LegRaises,
              LoopDies, WriteRun, runVars, IInv, TypeOK, RowsOK
<1>7. /\ status'[r] = "awaiting_human" => parked'[r] = "NoHold"
      /\ parked'[r] \in Approvals
            => /\ status'[r] # "unused"
               /\ \/ parked'[r] = parked[r]
                  \/ verdict[parked'[r]] # "unused" /\ owner[parked'[r]] = r
  <2>1. status[r] # "unused"
    BY <1>3 DEF IInv, ParkedIsUndriven
  <2>2. CASE LoopPark(l)
    <3>1. status'[r] = "awaiting_approval"
      BY <1>2, <2>2 DEF LoopPark, WriteRun, IInv, TypeOK, RowsOK
    <3>2. parked'[r] = parked[r] \/ parked'[r] = loop[l].appr
      BY <1>2, <2>2 DEF LoopPark, IInv, TypeOK, RowsOK
    <3>3. verdict[loop[l].appr] # "unused" /\ owner[loop[l].appr] = r
      BY <1>2, <2>2 DEF LoopPark, ParkInv, HoldsItsOwn
    <3> QED
      BY <3>1, <3>2, <3>3
  <2>3. CASE LoopTakeover(l)
    BY <1>2, <2>3, ConstantsAssumption DEF LoopTakeover, IInv, TypeOK, RowsOK
  <2>4. CASE LoopFinish(l) \/ LoopFail(l) \/ LegHasNoThread(l)
    <3>1. status'[r] \in {"completed", "failed"}
      BY <1>2, <2>4 DEF LoopFinish, LoopFail, LegHasNoThread, WriteRun, IInv, TypeOK, RowsOK
    <3>2. parked'[r] = parked[r] \/ parked'[r] = "NoHold"
      BY <1>2, <2>4 DEF LoopFinish, LoopFail, LegHasNoThread, IInv, TypeOK, RowsOK
    <3> QED
      BY <3>1, <3>2, ConstantsAssumption
  <2>5. CASE LegRaises(l) \/ LoopDies(l)
    <3>1. status' = status /\ parked' = parked
      BY <2>5 DEF LegRaises, LoopDies, runVars
    <3> QED
      BY <2>1, <3>1 DEF ParkInv, ParkedOn
  <2> QED
    BY <2>2, <2>3, <2>4, <2>5
<1>8. /\ \A b : Unspent(b)' <=> Unspent(b)
      /\ \A s : Clear(s)' <=> Clear(s)
  BY <1>1 DEF Unspent, Decides, Clear
<1>9. \A s \in Runs : ParkedOn(s)'
  <2>1. ParkedOn(r)'
    BY <1>1, <1>3, <1>7 DEF ParkInv, ParkedOn
  <2>2. ASSUME NEW s \in Runs, s # r PROVE ParkedOn(s)'
    BY <1>1, <1>4, <1>6, <1>8, <2>2 DEF ParkInv, ParkedOn
  <2> QED
    BY <2>1, <2>2
<1>10. \A q \in Requests : DecisionOn(q)'
  <2> SUFFICES ASSUME NEW q \in Requests, Decides(q) PROVE DecisionOn(q)'
    BY <1>1 DEF DecisionOn, Decides
  <2>1. CASE req[q].pc = "claim" /\ Clear(req[q].run)
    <3>1. /\ req[q].run \in Runs /\ req[q].appr \in Approvals
          /\ parked[req[q].run] = req[q].appr
      BY <2>1 DEF ParkInv, DecisionOn, IInv, TypeOK, RequestsOK, NamesRun
    <3>2. ~Driven(req[q].run)
      BY <2>1, <3>1 DEF ParkInv, ParkedOn, Unspent
    <3> QED
      BY <1>1, <1>3, <1>6, <3>1, <3>2 DEF ParkInv, DecisionOn, Decides
  <2>2. CASE ~(req[q].pc = "claim" /\ Clear(req[q].run))
    BY <1>1, <1>8, <2>2 DEF ParkInv, DecisionOn, Decides
  <2> QED
    BY <2>1, <2>2
<1> QED
  BY <1>1, <1>5, <1>9, <1>10 DEF ParkInv

\* The claim: what the run was parked on has been decided, by this request and
\* by no other, unless an approval of the run was in doubt.
LEMMA ClaimParks ==
  ASSUME IInv, ParkInv, AnswerInv, NEW q \in Requests, ClaimWon(q)
  PROVE  ParkInv'
<1>1. PICK r \in Runs : /\ req[q].run = r /\ req[q].pc = "claim"
                      /\ status[r] = ClaimsFrom(q)
  BY DEF ClaimWon, IInv, TypeOK, RequestsOK, NamesRun
<1>2. /\ loop' = loop /\ parked' = parked /\ verdict' = verdict
      /\ owner' = owner /\ doubtful' = doubtful
      /\ req'[q].pc = "spawn" /\ req'[q].run = r
      /\ \A p \in Requests : p # q => req'[p] = req[p]
  BY <1>1 DEF ClaimWon, Step, apprVars, IInv, TypeOK, RequestsOK, ReqSlot
<1>3. status'[r] = "running" /\ \A s \in Runs : s # r => status'[s] = status[s]
  BY <1>1 DEF ClaimWon, WriteRun, IInv, TypeOK, RowsOK
<1>4. \A s : Clear(s)' <=> Clear(s)
  BY <1>2 DEF Clear
<1>5. Clear(r) /\ parked[r] \in Approvals => ~Unspent(parked[r])'
  <2> SUFFICES ASSUME Clear(r), parked[r] \in Approvals PROVE ~Unspent(parked[r])'
    OBVIOUS
  <2>1. req[q].op = "decide"
    BY <1>1, ConstantsAssumption DEF ClaimsFrom, ParkInv, ParkedOn
  <2>2. /\ parked[r] = req[q].appr /\ verdict[req[q].appr] # "pending"
        /\ owner[req[q].appr] = r /\ req[q].appr \in Approvals
    BY <1>1, <2>1 DEF ParkInv, DecisionOn, Decides
  <2>3. Undoubted(req[q].appr)
    BY <2>2 DEF Clear, AnswerInv
  <2>4. \A p \in Requests : p # q => ~(Decides(p) /\ req[p].appr = req[q].appr)
    BY <1>1, <2>3 DEF Undoubted, InHand, Decides
  <2> QED
    BY <1>2, <2>2, <2>4 DEF Unspent, Decides
<1>6. \A s \in Runs : s # r => (Driven(s)' => Driven(s))
  BY <1>2 DEF Driven, Live, Claimed
<1>7. \A b \in Approvals : Unspent(b)' => Unspent(b)
  BY <1>2 DEF Unspent, Decides
<1>8. \A s \in Runs : ParkedOn(s)'
  <2>1. ParkedOn(r)'
    BY <1>1, <1>2, <1>3, <1>4, <1>5 DEF ParkInv, ParkedOn
  <2>2. ASSUME NEW s \in Runs, s # r PROVE ParkedOn(s)'
    BY <1>2, <1>3, <1>4, <1>6, <1>7, <2>2 DEF ParkInv, ParkedOn
  <2> QED
    BY <2>1, <2>2
<1>9. \A p \in Requests : DecisionOn(p)'
  <2>1. ASSUME NEW p \in Requests, p # q PROVE DecisionOn(p)'
    BY <1>2, <1>4, <2>1 DEF ParkInv, DecisionOn, Decides
  <2>2. DecisionOn(q)'
    BY <1>2 DEF DecisionOn, Decides
  <2> QED
    BY <2>1, <2>2
<1>10. \A l \in Loops : HoldsItsOwn(l)'
  BY <1>2 DEF ParkInv, HoldsItsOwn
<1> QED
  BY <1>2, <1>8, <1>9, <1>10 DEF ParkInv

\* A request writes no slot but its own.
LEMMA RequestAlone ==
  ASSUME TypeOK, NEW q \in Requests, RequestStep(q)
  PROVE  \A p \in Requests : p # q => req'[p] = req[p]
BY DEF RequestStep, RequestGoesOn, DecideRead, ExpireRead, ResumeRead, DeleteRead,
       DecideReject, DecideMessage, DecideRelease, DecideReleaseFails, DecideExecute,
       ContinueRead, ClaimWon, ClaimLost, DecideMessageFails, ExpireWrite, RequestDies,
       Spawn, Step, Reply, TypeOK, RequestsOK

\* Only an approval that was filed comes into doubt.
LEMMA RequestDoubts ==
  ASSUME TypeOK, ParkInv, NEW q \in Requests, RequestStep(q)
  PROVE  \A a \in doubtful' : a \in Approvals /\ verdict[a] # "unused"
<1>1. \A a \in doubtful : a \in Approvals /\ verdict[a] # "unused"
  BY DEF TypeOK, RowsOK, ParkInv
<1>2. CASE DecideReleaseFails(q)
  <2>1. req[q].appr \in Approvals /\ verdict[req[q].appr] # "unused"
    BY <1>2 DEF DecideReleaseFails, Deciding, ParkInv, DecisionOn, Decides
  <2> QED
    BY <1>1, <1>2, <2>1 DEF DecideReleaseFails
<1>3. ASSUME NEW b \in Approvals, NEW d \in {"approved", "rejected"},
             DecideRead(q, b, d) \/ ExpireRead(q, b)
      PROVE  \A a \in doubtful' : a \in Approvals /\ verdict[a] # "unused"
  BY <1>1, <1>3 DEF DecideRead, ExpireRead, TakesUp
<1>4. ASSUME NEW r \in Runs, DeleteRead(q, r)
      PROVE  \A a \in doubtful' : a \in Approvals /\ verdict[a] # "unused"
  BY <1>1, <1>4 DEF DeleteRead, TakesUp, PendingOf
<1>5. \/ doubtful' = doubtful \/ DecideReleaseFails(q)
      \/ \E b \in Approvals, d \in {"approved", "rejected"} : DecideRead(q, b, d)
      \/ \E b \in Approvals : ExpireRead(q, b)
      \/ \E r \in Runs : DeleteRead(q, r)
  BY DEF RequestStep, RequestGoesOn, ResumeRead, DecideReject, DecideMessage,
         DecideRelease, DecideExecute, ContinueRead, ClaimWon, ClaimLost,
         DecideMessageFails, ExpireWrite, RequestDies, Spawn
<1> QED
  BY <1>1, <1>2, <1>3, <1>4, <1>5

\* What a step of the request does to the decision it is making: the verdict is
\* recorded before the run is looked at, and the run is looked at before a claim.
LEMMA RequestDecides ==
  ASSUME TypeOK, ParkInv, NEW q \in Requests, RequestStep(q), ~ClaimWon(q),
         UNCHANGED <<status, parked, owner>>, \A s : Clear(s)' => Clear(s),
         \A b \in Approvals : verdict'[b] \in {"unused", "pending"}
                              => verdict'[b] = verdict[b]
  PROVE  /\ DecisionOn(q)'
         /\ Decides(q)' => \/ Decides(q) /\ req'[q].appr = req[q].appr
                           \/ verdict[req'[q].appr] = "pending" /\ req'[q].appr \in Approvals
<1> DEFINE Goal == /\ DecisionOn(q)'
                   /\ Decides(q)' => \/ Decides(q) /\ req'[q].appr = req[q].appr
                                     \/ /\ verdict[req'[q].appr] = "pending"
                                        /\ req'[q].appr \in Approvals
<1> SUFFICES Goal
  OBVIOUS
<1>0. req[q] \in ReqSlot /\ DecisionOn(q) /\ req \in [Requests -> ReqSlot]
  BY DEF TypeOK, RequestsOK, ParkInv
<1>1. ASSUME NEW a \in Approvals, NEW d \in {"approved", "rejected"},
             DecideRead(q, a, d)
      PROVE  Goal
  <2>1. /\ req'[q].pc = "read" /\ req'[q].appr = a /\ verdict[a] = "pending"
        /\ verdict' = verdict
    BY <1>0, <1>1 DEF DecideRead, IdleReq, apprVars
  <2> QED
    BY <2>1 DEF DecisionOn
<1>2. ASSUME req'[q].op # "decide" \/ req'[q].pc \in {"idle", "lost", "spawn"}
      PROVE  Goal
  BY <1>2 DEF DecisionOn, Decides
<1>3. CASE Reply(q)
  BY <1>0, <1>2, <1>3 DEF Reply, IdleReq
<1>4. ASSUME NEW a \in Approvals, ExpireRead(q, a) PROVE Goal
  BY <1>0, <1>2, <1>4 DEF ExpireRead, IdleReq
<1>5. ASSUME NEW r \in Runs, ResumeRead(q, r) \/ DeleteRead(q, r) PROVE Goal
  <2>1. req'[q].op = "resume" \/ req'[q].op = "delete"
    BY <1>0, <1>5 DEF ResumeRead, DeleteRead, IdleReq
  <2> QED
    BY <1>2, <2>1
<1>6. ASSUME NEW pc \in {"perform", "decided"}, Step(q, pc), req[q].op = "decide",
             req[q].pc \in {"read", "perform"},
             verdict'[req[q].appr] # "pending"
      PROVE  Goal
  <2>1. req'[q].pc = pc /\ req'[q].appr = req[q].appr
    BY <1>0, <1>6 DEF Step, ReqSlot
  <2> QED
    BY <1>0, <1>6, <2>1 DEF DecisionOn, Decides
<1>7. CASE DecideReject(q) \/ DecideMessage(q) \/ DecideRelease(q)
  <2>1. req[q].op = "decide" /\ req[q].pc = "read"
    BY <1>7 DEF DecideReject, DecideMessage, DecideRelease, Deciding
  <2>2. req[q].appr \in Approvals
    BY <2>1 DEF TypeOK, RequestsOK, NamesApproval
  <2>3. verdict'[req[q].appr] # "pending"
    BY <1>7, <2>2 DEF DecideReject, DecideMessage, DecideRelease, SetVerdict, TypeOK, RowsOK
  <2>4. Step(q, "decided") \/ Step(q, "perform")
    BY <1>7 DEF DecideReject, DecideMessage, DecideRelease
  <2> QED
    BY <1>6, <2>1, <2>3, <2>4
<1>8. CASE DecideReleaseFails(q)
  BY <1>0, <1>2, <1>8 DEF DecideReleaseFails, Step, ReqSlot
<1>9. CASE DecideExecute(q) /\ ~Reply(q)
  <2>1. req[q].pc = "perform" /\ Step(q, "decided") /\ verdict' = verdict
    BY <1>9 DEF DecideExecute
  <2>2. CASE req[q].op = "decide"
    BY <1>0, <1>6, <2>1, <2>2 DEF DecisionOn, Decides
  <2>3. CASE req[q].op # "decide"
    BY <1>0, <1>2, <2>1, <2>3 DEF Step, ReqSlot
  <2> QED
    BY <2>2, <2>3
<1>10. CASE ContinueRead(q) /\ ~Reply(q)
  <2>1. PICK r : /\ req[q].pc = "decided" /\ r = owner[req[q].appr]
                 /\ parked[r] = req[q].appr /\ verdict' = verdict
                 /\ req' = [req EXCEPT ![q].pc = "claim", ![q].run = r]
    BY <1>10 DEF ContinueRead, apprVars
  <2>2. /\ req'[q].pc = "claim" /\ req'[q].run = r /\ req'[q].appr = req[q].appr
        /\ req'[q].op = req[q].op
    BY <1>0, <2>1 DEF ReqSlot
  <2> QED
    BY <1>0, <2>1, <2>2 DEF DecisionOn, Decides
<1>11. ClaimLost(q) \/ DecideMessageFails(q) \/ ExpireWrite(q) \/ RequestDies(q)
       \/ (\E l \in Loops : Spawn(q, l)) => Reply(q)
  BY DEF ClaimLost, DecideMessageFails, ExpireWrite, RequestDies, Spawn
<1> HIDE DEF Goal
<1> QED
  BY <1>1, <1>3, <1>4, <1>5, <1>7, <1>8, <1>9, <1>10, <1>11 DEF RequestStep, RequestGoesOn

\* Every other step of a request leaves rows where they are parked, settles
\* verdicts and takes up an approval only while it is pending.
LEMMA RequestParks ==
  ASSUME IInv, ParkInv, NEW q \in Requests, RequestStep(q), ~ClaimWon(q),
         doubtful \subseteq doubtful'
  PROVE  ParkInv'
<1> USE DEF IInv
<1>1. status' = status /\ parked' = parked /\ owner' = owner
  BY DEF RequestStep, RequestGoesOn, DecideRead, ExpireRead, ResumeRead, DeleteRead,
         DecideReject, DecideMessage, DecideRelease, DecideReleaseFails, runVars, apprVars,
         DecideExecute, ContinueRead, ClaimLost, DecideMessageFails, ExpireWrite,
         RequestDies, Spawn
<1>2. \A s \in Runs : Driven(s)' => Driven(s)
  <2>1. ASSUME NEW l \in Loops, Spawn(q, l)
        PROVE  \A s \in Runs : Driven(s)' => Driven(s)
    <3>1. Claimed(q)
      BY <2>1 DEF Spawn
    <3>2. /\ loop'[l].run = req[q].run
          /\ \A m \in Loops : m # l => loop'[m] = loop[m]
      BY <2>1 DEF Spawn, TypeOK, LoopsOK, IdleLoop
    <3>3. ~Claimed(q)' /\ \A p \in Requests : p # q => req'[p] = req[p]
      BY <2>1 DEF Spawn, Reply, TypeOK, RequestsOK, IdleReq, Claimed
    <3> QED
      BY <3>1, <3>2, <3>3 DEF Driven, Live, Claimed
  <2>2. (\E l \in Loops : Spawn(q, l)) \/ \A s \in Runs : Driven(s)' => Driven(s)
    BY OtherRequestClaimsNone DEF Driven, Live
  <2> QED
    BY <2>1, <2>2
<1>3. \A b \in Approvals : verdict'[b] \in {"unused", "pending"} => verdict'[b] = verdict[b]
  <2>1. \/ verdict' = verdict \/ ExpireWrite(q)
        \/ \E d \in {"approved", "rejected"} : SetVerdict(req[q].appr, d)
    BY DEF RequestStep, RequestGoesOn, DecideRead, ExpireRead, ResumeRead, DeleteRead,
           DecideReject, DecideMessage, DecideRelease, DecideReleaseFails, apprVars,
           DecideExecute, ContinueRead, ClaimLost, DecideMessageFails, RequestDies, Spawn
  <2>2. CASE ExpireWrite(q)
    BY <2>2 DEF ExpireWrite
  <2>3. ASSUME NEW d \in {"approved", "rejected"}, SetVerdict(req[q].appr, d),
               NEW b \in Approvals, verdict'[b] \in {"unused", "pending"}
        PROVE  verdict'[b] = verdict[b]
    BY <2>3 DEF SetVerdict, TypeOK, RowsOK
  <2> QED
    BY <2>1, <2>2, <2>3
<1>4. \A l \in Loops : loop'[l].pc = "gated" => loop'[l] = loop[l]
  <2>1. ASSUME NEW m \in Loops, Spawn(q, m)
        PROVE  \A l \in Loops : loop'[l].pc = "gated" => loop'[l] = loop[l]
    BY <2>1 DEF Spawn, TypeOK, LoopsOK, IdleLoop
  <2>2. loop' = loop \/ \E m \in Loops : Spawn(q, m)
    BY OtherRequestClaimsNone
  <2> QED
    BY <2>1, <2>2
<1>5. \A s : Clear(s)' => Clear(s)
  BY <1>1 DEF Clear
<1>6. /\ DecisionOn(q)'
      /\ Decides(q)' => \/ Decides(q) /\ req'[q].appr = req[q].appr
                        \/ verdict[req'[q].appr] = "pending" /\ req'[q].appr \in Approvals
  BY <1>1, <1>3, <1>5, RequestDecides
<1>7. \A p \in Requests : p # q => req'[p] = req[p]
  BY RequestAlone
<1>8. \A p \in Requests : DecisionOn(p)'
  <2> SUFFICES ASSUME NEW p \in Requests, p # q, Decides(p) PROVE DecisionOn(p)'
    BY <1>6, <1>7 DEF DecisionOn, Decides
  <2> QED
    BY <1>1, <1>3, <1>5, <1>7 DEF ParkInv, DecisionOn, Decides
<1>9. \A b \in Approvals : Unspent(b)' => Unspent(b)
  BY <1>3, <1>6, <1>7 DEF Unspent, Decides
<1>10. \A s \in Runs : ParkedOn(s)'
  BY <1>1, <1>2, <1>3, <1>5, <1>9 DEF ParkInv, ParkedOn
<1>11. \A l \in Loops : HoldsItsOwn(l)'
  <2> SUFFICES ASSUME NEW l \in Loops, loop'[l].pc = "gated"
               PROVE  HoldsItsOwn(l)'
    BY DEF HoldsItsOwn
  <2>1. loop'[l] = loop[l] /\ loop[l].appr \in Approvals
    BY <1>4 DEF TypeOK, LoopsOK
  <2> QED
    BY <1>1, <1>3, <2>1 DEF ParkInv, HoldsItsOwn
<1>12. \A a \in doubtful' : verdict'[a] # "unused"
  <2>1. \A a \in doubtful' : a \in Approvals /\ verdict[a] # "unused"
    BY RequestDoubts
  <2> QED
    BY <1>3, <2>1
<1> QED
  BY <1>8, <1>10, <1>11, <1>12 DEF ParkInv

\* Every step keeps what is known of parked runs and decisions under way.
LEMMA NextParks ==
  ASSUME IInv, ParkInv, AnswerInv, [Next]_vars
  PROVE  ParkInv'
<1> USE DEF IInv
<1>1. ASSUME NEW r \in Runs, NEW l \in Loops, StartTurn(r, l) PROVE ParkInv'
  <2>1. status[r] = "unused" /\ ~Live(l) /\ parked[r] \notin Approvals
    BY <1>1 DEF StartTurn, Live, IdleLoop, ParkInv, ParkedOn
  <2>2. /\ loop'[l].run = r /\ loop'[l].pc = "running"
        /\ \A m \in Loops : m # l => loop'[m] = loop[m]
        /\ UNCHANGED <<parked, verdict, owner, req, doubtful>>
    BY <1>1 DEF StartTurn, TypeOK, LoopsOK, IdleLoop, apprVars
  <2>3. status'[r] = "running" /\ \A s \in Runs : s # r => status'[s] = status[s]
    BY <1>1 DEF StartTurn, WriteRun, TypeOK, RowsOK
  <2>4. \A s \in Runs : s # r => (Driven(s)' => Driven(s))
    BY <2>2 DEF Driven, Live, Claimed
  <2>5. (\A b : Unspent(b)' <=> Unspent(b)) /\ (\A s : Clear(s)' <=> Clear(s))
    BY <2>2 DEF Unspent, Decides, Clear
  <2>6. ParkedOn(r)'
    BY <2>1, <2>2, <2>3 DEF ParkedOn
  <2>7. ASSUME NEW s \in Runs, s # r PROVE ParkedOn(s)'
    BY <2>2, <2>3, <2>4, <2>5, <2>7 DEF ParkInv, ParkedOn
  <2>8. \A q \in Requests : DecisionOn(q)'
    BY <2>2, <2>5 DEF ParkInv, DecisionOn, Decides
  <2>9. \A m \in Loops : HoldsItsOwn(m)'
    BY <2>2 DEF ParkInv, HoldsItsOwn
  <2> QED
    BY <2>2, <2>6, <2>7, <2>8, <2>9 DEF ParkInv
<1>2. ASSUME NEW l \in Loops, NEW a \in Approvals, NEW k \in AllKinds,
             LoopGate(l, a, k)
      PROVE  ParkInv'
  <2>1. /\ CreateApproval(a, loop[l].run, k) /\ UNCHANGED <<runVars, req, doubtful>>
        /\ loop[l].run \in Runs \cup {None}
    BY <1>2 DEF LoopGate, TypeOK, LoopsOK, LoopSlot
  <2>2. \A m \in Loops : /\ Live(m)' = Live(m) /\ loop'[m].run = loop[m].run
                         /\ loop'[m].pc = "gated"
                            => \/ loop'[m].appr = a /\ loop[m].run = loop[l].run
                               \/ loop'[m] = loop[m]
    BY <1>2 DEF LoopGate, TypeOK, LoopsOK, LoopSlot, Live
  <2> QED
    BY <2>1, <2>2, FilingParks
<1>3. ASSUME NEW a \in Approvals, NEW r \in Runs \cup {None}, NEW k \in AllKinds,
             FileApproval(a, r, k)
      PROVE  ParkInv'
  <2>1. CreateApproval(a, r, k) /\ UNCHANGED <<runVars, req, loop, doubtful>>
    BY <1>3 DEF FileApproval
  <2>2. \A m \in Loops : /\ Live(m)' = Live(m) /\ loop'[m].run = loop[m].run
                         /\ loop'[m] = loop[m]
    BY <2>1 DEF Live
  <2> QED
    BY <2>1, <2>2, FilingParks
<1>4. ASSUME UNCHANGED <<parked, verdict, owner, req, doubtful>>,
             \A l \in Loops : /\ Live(l)' = Live(l) /\ loop'[l].run = loop[l].run
                              /\ loop'[l].pc = "gated" => loop'[l] = loop[l],
             \A r \in Runs : /\ status'[r] = "awaiting_human" => status[r] = status'[r]
                             /\ status'[r] = "unused" => status[r] = status'[r]
      PROVE  ParkInv'
  <2>1. \A s \in Runs : Driven(s)' <=> Driven(s)
    BY <1>4 DEF Driven, Claimed
  <2>2. (\A b : Unspent(b)' <=> Unspent(b)) /\ (\A s : Clear(s)' <=> Clear(s))
    BY <1>4 DEF Unspent, Decides, Clear
  <2>3. \A s \in Runs : ParkedOn(s)'
    BY <1>4, <2>1, <2>2 DEF ParkInv, ParkedOn
  <2>4. \A q \in Requests : DecisionOn(q)'
    BY <1>4, <2>2 DEF ParkInv, DecisionOn, Decides
  <2>5. \A l \in Loops : HoldsItsOwn(l)'
    BY <1>4 DEF ParkInv, HoldsItsOwn
  <2> QED
    BY <1>4, <2>3, <2>4, <2>5 DEF ParkInv
<1>5. ASSUME NEW l \in Loops, LegStarts(l) PROVE ParkInv'
  <2>1. /\ UNCHANGED <<parked, verdict, owner, req, status, doubtful>>
        /\ \A m \in Loops : /\ Live(m)' = Live(m) /\ loop'[m].run = loop[m].run
                            /\ loop'[m].pc = "gated" => loop'[m] = loop[m]
    BY <1>5 DEF LegStarts, runVars, apprVars, TypeOK, LoopsOK, LoopSlot, Live
  <2> QED
    BY <1>4, <2>1
<1>6. ASSUME NEW r \in Runs, Cancel(r) \/ Age(r) \/ SweepReap(r) PROVE ParkInv'
  <2>1. UNCHANGED <<parked, verdict, owner, req, loop, doubtful>>
    BY <1>6 DEF Cancel, Age, SweepReap, apprVars
  <2>2. status' = status \/ \E s \in {"cancelled", "interrupted"} :
                               status' = [status EXCEPT ![r] = s]
    BY <1>6 DEF Cancel, Age, SweepReap, WriteRun
  <2>3. \A s \in Runs : /\ status'[s] = "awaiting_human" => status[s] = status'[s]
                        /\ status'[s] = "unused" => status[s] = status'[s]
    BY <2>2 DEF TypeOK, RowsOK
  <2>4. \A m \in Loops : /\ Live(m)' = Live(m) /\ loop'[m].run = loop[m].run
                         /\ loop'[m].pc = "gated" => loop'[m] = loop[m]
    BY <2>1 DEF Live
  <2> QED
    BY <1>4, <2>1, <2>3, <2>4
<1>7. CASE SweepSelect \/ SweepFails \/ UNCHANGED vars
  <2>1. UNCHANGED <<parked, verdict, owner, req, loop, status, doubtful>>
    BY <1>7 DEF SweepSelect, SweepFails, vars, runVars, apprVars
  <2>2. \A m \in Loops : /\ Live(m)' = Live(m) /\ loop'[m].run = loop[m].run
                         /\ loop'[m].pc = "gated" => loop'[m] = loop[m]
    BY <2>1 DEF Live
  <2> QED
    BY <1>4, <2>1, <2>2
<1>8. ASSUME NEW q \in Requests, RequestStep(q) PROVE ParkInv'
  BY <1>8, ClaimParks, RequestParks, DoubtsStay
<1>9. ASSUME NEW l \in Loops, LoopStep(l) PROVE ParkInv'
  BY <1>1, <1>2, <1>5, <1>9, LegEndParks DEF LoopStep
<1> QED
  BY <1>3, <1>6, <1>7, <1>8, <1>9 DEF Next

\* However many requests are handled at once: a run none of whose approvals was
\* ever in doubt is continued only by the decision it is parked on when the claim
\* wins, though nothing holds the run between the look at its row and the claim,
\* and whatever legs, presses, cancels, reaps, deaths and other runs' decisions
\* come between.
THEOREM DecisionsContinueTheirOwn == Spec => ContinuedByItsOwnDecision
<1>1. Init => AnswerInv /\ ParkInv
  BY ConstantsAssumption
     DEF Init, ParkInv, ParkedOn, HoldsItsOwn, DecisionOn, Decides, IdleLoop, IdleReq,
         AnswerInv, Undoubted, InHand
<1>2. IInv /\ AnswerInv /\ ParkInv /\ [Next]_vars => AnswerInv' /\ ParkInv'
  BY NextKeepsAnswers, NextParks DEF IInv
<1>3. ParkInv => \A q \in Requests :
                    ClaimWon(q) /\ req[q].op = "decide"
                      => \/ parked[req[q].run] = req[q].appr
                         \/ \E a \in doubtful : owner[a] = req[q].run
  BY DEF ParkInv, DecisionOn, Decides, ClaimWon, Clear
<1> QED
  BY <1>1, <1>2, <1>3, InitIInv, NextIInv, PTL DEF Spec, ContinuedByItsOwnDecision
=============================================================================
