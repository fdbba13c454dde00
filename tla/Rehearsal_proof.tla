--------------------------- MODULE Rehearsal_proof ---------------------------
(* Theorems about Rehearsal, for any routines, plans, requests and bounds,    *)
(* and for any of the faults.                                                 *)
EXTENDS Rehearsal, FiniteSetTheorems, SequenceTheorems, TLAPS

Execution ==
    [pc     : {"idle", "read", "walk", "call", "close", "mark"},
     plan   : Plans \cup {NoPlan},
     body   : Seq(Steps),
     saw    : {"draft", "stale", "executed"},
     late   : BOOLEAN,
     at     : Nat,
     did    : SUBSET Entries,
     doomed : BOOLEAN]

LogRow == [state : {"none", "flushed", "logged"}, reversible : BOOLEAN, undone : BOOLEAN]

Undo == [pc : {"idle", "claim", "undo", "close"}, entry : 0 .. MaxEntries, ok : BOOLEAN]

TypeOK ==
    /\ routine \in Bodies \cup {Gone}
    /\ granted \in SUBSET Sends
    /\ plan \in [Plans -> PlanRows \cup {NoPlan}]
    /\ exec \in [Executors -> Execution]
    /\ \A e \in Executors :
          /\ exec[e].pc = "idle" <=> exec[e].plan = NoPlan
          /\ exec[e].pc # "idle" => plan[exec[e].plan] \in PlanRows
    /\ log \in [Entries -> LogRow]
    /\ undoer \in [Undoers -> Undo]
    /\ made \in SUBSET Entries
    /\ stands \in [Plans -> Nat]
    /\ taken \in [Entries -> Nat]
    /\ slips \in [Entries -> Nat]

------------------------------------------------------------------------------
(* What ExecutedIsLogged rests on.                                          *)

\* Effects are numbered as they take place.
Numbered == \E k \in 0 .. MaxEntries : made = 1 .. k

\* An execution has made its own effects, nobody else's; none is lost behind the
\* back of one that does not know it is doomed.
Accounted(e) ==
    /\ exec[e].did \subseteq made
    /\ \A f \in Executors \ {e} : exec[f].did \cap exec[e].did = {}
    /\ ~exec[e].doomed => \A n \in exec[e].did : log[n].state \in {"flushed", "logged"}
    /\ exec[e].pc = "mark" => \A n \in exec[e].did : log[n].state = "logged"

\* What is in the log took place, and only what is there for good is taken back.
Real(n) ==
    /\ log[n].state # "none" => n \in made
    /\ log[n].undone => log[n].state = "logged"

LogInv == /\ Numbered
          /\ \A e \in Executors : Accounted(e)
          /\ \A n \in Entries : Real(n)

------------------------------------------------------------------------------
(* What PlanRunsOnce rests on.                                              *)

\* e read the plan p while no other request was at it.
ReadAlone(e, p) == exec[e].plan = p /\ exec[e].pc = "read" /\ ~exec[e].late

\* One run of a plan stands, and only while a run is to mark the plan or has marked
\* it; a request that read the plan alone finds none, and it is the only one.
Orderly(p) ==
    /\ stands[p] <= 1
    /\ stands[p] = 1 =>
          /\ plan[p] # NoPlan
          /\ \/ plan[p].status = "executed"
             \/ \E e \in Executors : exec[e].plan = p /\ Started(e)
    /\ \A e \in Executors : ReadAlone(e, p) => stands[p] = 0
    /\ \A e, f \in Executors : ReadAlone(e, p) /\ ReadAlone(f, p) => e = f

PlanInv == \A p \in Plans : Orderly(p)

------------------------------------------------------------------------------
(* What TakenBackOnce rests on.                                             *)

\* u holds the lock of entry n's row.
Holds(u, n) == undoer[u].entry = n /\ undoer[u].pc \in {"undo", "close"}

\* The success of an undo of n that is not committed yet.
Unstored(n) == \E u \in Undoers : Holds(u, n) /\ undoer[u].ok

\* A request undoes an entry that is in the log for good; its compensator has
\* worked only once it is about to commit.
Asks(u) ==
    /\ undoer[u].pc # "idle" => /\ undoer[u].entry \in Entries
                                /\ log[undoer[u].entry].state = "logged"
    /\ undoer[u].ok => undoer[u].pc = "close"

\* One request holds the row, and only while it does not say undone; every taking
\* back is stored, about to be, or a slip.
Balanced(n) ==
    /\ \A u, v \in Undoers : Holds(u, n) /\ Holds(v, n) => u = v
    /\ \A u \in Undoers : Holds(u, n) => ~log[n].undone
    /\ taken[n] = slips[n] + (IF log[n].undone \/ Unstored(n) THEN 1 ELSE 0)

UndoInv == (\A u \in Undoers : Asks(u)) /\ (\A n \in Entries : Balanced(n))

------------------------------------------------------------------------------
(* What the operators return.                                               *)

LEMMA IdleIs ==
  /\ IdleExec \in Execution
  /\ IdleExec.pc = "idle" /\ IdleExec.plan = NoPlan /\ IdleExec.did = {}
<1>1. <<>> \in Seq(Steps)
  BY EmptySeq
<1> QED
  BY <1>1 DEF IdleExec, Execution

LEMMA IdleUndoerIs ==
  /\ IdleUndoer \in Undo
  /\ IdleUndoer.pc = "idle" /\ ~IdleUndoer.ok
BY RehearsalAssumption DEF IdleUndoer, Undo

LEMMA PlanRowIs ==
  ASSUME NEW b \in Bodies, NEW ofRoutine \in BOOLEAN
  PROVE  PlanRow(b, ofRoutine) \in PlanRows
<1> DEFINE C == [intent : Steps, held : BOOLEAN]
<1>1. b \in Seq(Steps)
  BY RehearsalAssumption
<1>2. Len(b) \in Nat /\ DOMAIN b = 1 .. Len(b)
  BY <1>1, LenProperties
<1>3. \A i \in 1 .. Len(b) : PlannedCall(b[i]) \in C
  BY <1>1, <1>2, ElementOfSeq DEF PlannedCall, Held
<1> HIDE DEF C
<1>4. [i \in 1 .. Len(b) |-> PlannedCall(b[i])] \in Seq(C)
  BY <1>2, <1>3, IsASeq
<1>5. DryRun(b) \in Seq(C)
  BY <1>2, <1>4 DEF DryRun
<1> QED
  BY <1>5 DEF PlanRow, PlanRows, C

\* A commit keeps what was flushed, a loss drops it; neither touches another's rows.
LEMMA CommittedIs ==
  ASSUME TypeOK, NEW e \in Executors
  PROVE  /\ Committed(e) \in [Entries -> LogRow]
         /\ \A n \in Entries :
               /\ Committed(e)[n].undone = log[n].undone
               /\ n \in exec[e].did /\ log[n].state = "flushed" => Committed(e)[n].state = "logged"
               /\ n \notin exec[e].did \/ log[n].state # "flushed" => Committed(e)[n] = log[n]
BY DEF TypeOK, Committed, LogRow

LEMMA LostIs ==
  ASSUME TypeOK, NEW e \in Executors
  PROVE  /\ Lost(e) \in [Entries -> LogRow]
         /\ \A n \in Entries :
               /\ n \in exec[e].did /\ log[n].state = "flushed" =>
                     Lost(e)[n].state = "none" /\ ~Lost(e)[n].undone
               /\ n \notin exec[e].did \/ log[n].state # "flushed" => Lost(e)[n] = log[n]
BY DEF TypeOK, Lost, LogRow, NoEntry

\* After a call the walk goes on or closes, and the effect is the execution's own.
LEMMA OnwardIs ==
  ASSUME NEW x \in Execution, NEW ok \in BOOLEAN, NEW N \in SUBSET Entries
  PROVE  /\ Onward(x, ok, N) \in Execution
         /\ Onward(x, ok, N).pc \in {"walk", "close"}
         /\ Onward(x, ok, N).plan = x.plan
         /\ Onward(x, ok, N).did = x.did \cup N
         /\ Onward(x, ok, N).doomed = x.doomed
<1> DEFINE c == ok /\ ~x.doomed /\ x.at < Len(x.body)
           y == Onward(x, ok, N)
<1>1. y = [x EXCEPT !.pc = IF c THEN "walk" ELSE "close",
                    !.at = IF c THEN x.at + 1 ELSE x.at,
                    !.did = x.did \cup N]
  BY DEF Onward
<1>2. /\ (IF c THEN "walk" ELSE "close") \in {"walk", "close"}
      /\ (IF c THEN x.at + 1 ELSE x.at) \in Nat
      /\ x.did \cup N \in SUBSET Entries
  BY DEF Execution
<1> HIDE DEF c
<1>3. /\ y \in Execution /\ y.pc \in {"walk", "close"} /\ y.plan = x.plan
      /\ y.did = x.did \cup N /\ y.doomed = x.doomed
  BY <1>1, <1>2 DEF Execution
<1> QED
  BY <1>3

------------------------------------------------------------------------------
(* What an execution's step may do to the log. The invariants are shown of   *)
(* these shapes, not of each action again.                                   *)

\* The next effect has taken place.
Happens(n) == /\ n \in Entries \ made /\ made' = made \cup {n}
              /\ Numbered'

Same(e, x) == x.did = exec[e].did /\ x.doomed = exec[e].doomed

\* Nothing is logged or lost.
LogRests(e, x) ==
    /\ UNCHANGED <<log, made>>
    /\ x.pc # "mark" /\ (x.did = {} \/ Same(e, x))

\* What the execution logged is committed.
LogCommits(e, x) ==
    /\ log' = Committed(e) /\ UNCHANGED made
    /\ Same(e, x) /\ (x.pc = "mark" => ~x.doomed)

\* It is lost, and the execution is over, or knows.
LogLoses(e, x) ==
    /\ log' = Lost(e) /\ x.pc # "mark"
    /\ \E N \in SUBSET Entries :
          /\ (N = {} /\ UNCHANGED made) \/ \E n \in Entries : N = {n} /\ Happens(n)
          /\ x.did = {} \/ (x.doomed /\ x.did = exec[e].did \cup N)

\* The next effect is entered.
LogEnters(e, x) ==
    /\ x.pc # "mark" /\ x.doomed = exec[e].doomed
    /\ \E n \in Entries :
          /\ Happens(n) /\ x.did = exec[e].did \cup {n}
          /\ log' \in [Entries -> LogRow]
          /\ log'[n].state = "flushed" /\ ~log'[n].undone
          /\ \A m \in Entries \ {n} : log'[m] = log[m]

LogShape(e, x) == LogRests(e, x) \/ LogCommits(e, x) \/ LogLoses(e, x) \/ LogEnters(e, x)

\* The execution e goes on as x; undo requests are as they were.
Walks(e, x) == exec' = [exec EXCEPT ![e] = x] /\ UNCHANGED undoVars

LEMMA NextHappens ==
  ASSUME TypeOK, Numbered, NEW n \in NextEntry, made' = made \cup {n}
  PROVE  n \in Entries /\ Happens(n)
<1>1. PICK k \in 0 .. MaxEntries : made = 1 .. k
  BY DEF Numbered
<1>2. Cardinality(made) = k
  BY <1>1, FS_Interval
<1>3. n = k + 1 /\ n \in Entries
  BY <1>2 DEF NextEntry
<1>4. n \notin made /\ made' = 1 .. (k + 1) /\ k + 1 \in 0 .. MaxEntries
  BY <1>1, <1>3, RehearsalAssumption DEF Entries
<1> QED
  BY <1>3, <1>4 DEF Happens, Numbered

\* A row record_effect makes.
LEMMA LogRowsAre ==
  ASSUME NEW s, NEW ok \in BOOLEAN, NEW row \in LogRows(s, ok)
  PROVE  row \in LogRow /\ row.state = "flushed" /\ ~row.undone
<1>1. PICK r \in {FALSE, ok /\ s \in Reversibles} :
        row = [state |-> "flushed", reversible |-> r, undone |-> FALSE]
  BY DEF LogRows
<1>2. r \in BOOLEAN
  OBVIOUS
<1> QED
  BY <1>1, <1>2 DEF LogRow

LEMMA Enters ==
  ASSUME TypeOK, Numbered, NEW e \in Executors, NEW ok \in BOOLEAN, NEW n \in NextEntry,
         NEW s, NEW row \in LogRows(s, ok), log' = [log EXCEPT ![n] = row],
         made' = made \cup {n}
  PROVE  LogEnters(e, Onward(exec[e], ok, {n}))
<1>1. n \in Entries /\ Happens(n)
  BY NextHappens
<1>2. row \in LogRow /\ row.state = "flushed" /\ ~row.undone
  BY LogRowsAre
<1>3. exec[e] \in Execution /\ {n} \in SUBSET Entries
  BY <1>1 DEF TypeOK
<1>4. /\ Onward(exec[e], ok, {n}).pc # "mark"
      /\ Onward(exec[e], ok, {n}).did = exec[e].did \cup {n}
      /\ Onward(exec[e], ok, {n}).doomed = exec[e].doomed
  BY <1>3, OnwardIs
<1>5. /\ log' \in [Entries -> LogRow]
      /\ log'[n].state = "flushed" /\ ~log'[n].undone
      /\ \A m \in Entries \ {n} : log'[m] = log[m]
  BY <1>1, <1>2 DEF TypeOK
<1> QED
  BY <1>1, <1>4, <1>5 DEF LogEnters

------------------------------------------------------------------------------
(* What an execution's step may do to its plan.                              *)

Reads(e, x) == \E p \in Plans :
    /\ exec[e].pc = "idle" /\ plan[p] # NoPlan /\ plan[p].status # "executed"
    /\ x.plan = p /\ x.pc = "read"
    /\ x.late = Busy(p)
    /\ UNCHANGED <<plan, stands>>

Rejects(e, x) ==
    /\ exec[e].pc = "read" /\ x.plan = NoPlan
    /\ \/ UNCHANGED <<plan, stands>>
       \/ /\ plan' = [plan EXCEPT ![exec[e].plan].status = "stale"]
          /\ stands' = IF plan[exec[e].plan].status = "executed"
                       THEN [stands EXCEPT ![exec[e].plan] = 0] ELSE stands

Begins(e, x) ==
    /\ exec[e].pc = "read" /\ x.pc = "walk" /\ x.plan = exec[e].plan
    /\ stands' = IF exec[e].late THEN stands ELSE [stands EXCEPT ![exec[e].plan] = @ + 1]
    /\ UNCHANGED plan

GoesOn(e, x) ==
    /\ exec[e].pc \in {"walk", "call", "close"} /\ x.pc \in {"walk", "call", "close", "mark"}
    /\ x.plan = exec[e].plan
    /\ UNCHANGED <<plan, stands>>

Marks(e, x) ==
    /\ exec[e].pc = "mark" /\ x.plan = NoPlan
    /\ plan' = [plan EXCEPT ![exec[e].plan].status = "executed"]
    /\ UNCHANGED stands

Leaves(e, x) ==
    /\ exec[e].pc # "idle" /\ x.plan = NoPlan
    /\ stands' = IF Started(e) THEN [stands EXCEPT ![exec[e].plan] = 0] ELSE stands
    /\ UNCHANGED plan

PlanShape(e, x) ==
    /\ UNCHANGED <<routine, granted>>
    /\ x.pc = "idle" <=> x.plan = NoPlan
    /\ \/ Reads(e, x) \/ Rejects(e, x) \/ Begins(e, x) \/ GoesOn(e, x)
       \/ Marks(e, x) \/ Leaves(e, x)

Goes(e, x) == Walks(e, x) /\ LogShape(e, x) /\ PlanShape(e, x)

\* Every step of an execution has one shape of each kind.
LEMMA PlanSteps ==
  ASSUME TypeOK, NEW e \in Executors,
         \/ \E p \in Plans : ExecuteRead(e, p)
         \/ ExecuteRefused(e) \/ ExecuteStarts(e) \/ MarkExecuted(e) \/ MarkFails(e)
  PROVE  \E x \in Execution : Goes(e, x)
<1>0. exec[e] \in Execution /\ (exec[e].pc # "idle" => exec[e].plan \in Plans)
  BY DEF TypeOK, Execution
<1>1. ASSUME NEW p \in Plans, ExecuteRead(e, p) PROVE \E x \in Execution : Goes(e, x)
  <2> DEFINE x == [IdleExec EXCEPT !.pc = "read", !.plan = p,
                              !.saw = plan[p].status, !.late = Busy(p)]
  <2>1. plan[p] \in PlanRows
    BY <1>1 DEF ExecuteRead, TypeOK
  <2>2. /\ x \in Execution /\ x.pc = "read" /\ x.plan = p /\ x.did = {} /\ x.late = Busy(p)
    <3>1. Busy(p) \in BOOLEAN
      BY DEF Busy
    <3> QED
      BY <2>1, <3>1, IdleIs DEF Execution, PlanRows
  <2>3. p # NoPlan
    BY RehearsalAssumption
  <2>4. /\ exec' = [exec EXCEPT ![e] = x] /\ UNCHANGED <<planVars, log, made, undoVars>>
        /\ exec[e].pc = "idle" /\ plan[p] # NoPlan /\ plan[p].status # "executed"
    BY <1>1 DEF ExecuteRead
  <2> HIDE DEF x
  <2>5. Reads(e, x)
    BY <2>2, <2>4 DEF Reads, planVars
  <2> QED
    BY <2>2, <2>3, <2>4, <2>5 DEF Goes, Walks, LogShape, LogRests, PlanShape, planVars
<1>2. CASE ExecuteRefused(e)
  <2>1. /\ exec' = [exec EXCEPT ![e] = IdleExec] /\ exec[e].pc = "read"
        /\ UNCHANGED <<routine, granted, log, made, undoVars>>
        /\ \/ UNCHANGED <<plan, stands>>
           \/ /\ plan' = [plan EXCEPT ![exec[e].plan].status = "stale"]
              /\ stands' = IF plan[exec[e].plan].status = "executed"
                           THEN [stands EXCEPT ![exec[e].plan] = 0] ELSE stands
    BY <1>2 DEF ExecuteRefused
  <2> QED
    BY <2>1, IdleIs DEF Goes, Walks, LogShape, LogRests, PlanShape, Rejects
<1>3. CASE ExecuteStarts(e)
  <2> DEFINE x == [exec[e] EXCEPT !.pc = "walk", !.saw = "draft", !.late = FALSE,
                             !.body = plan[exec[e].plan].steps]
  <2>1. /\ exec' = [exec EXCEPT ![e] = x] /\ exec[e].pc = "read"
        /\ UNCHANGED <<routine, granted, plan, log, made, undoVars>>
        /\ stands' = IF exec[e].late THEN stands ELSE [stands EXCEPT ![exec[e].plan] = @ + 1]
    BY <1>3 DEF ExecuteStarts
  <2>2. plan[exec[e].plan].steps \in Seq(Steps)
    <3>1. plan[exec[e].plan] \in PlanRows
      BY <2>1 DEF TypeOK
    <3> QED
      BY <3>1, RehearsalAssumption DEF PlanRows
  <2>3. /\ x \in Execution /\ x.pc = "walk" /\ x.plan = exec[e].plan /\ x.did = exec[e].did
        /\ x.doomed = exec[e].doomed
    BY <1>0, <2>2 DEF Execution
  <2>4. x.plan # NoPlan
    BY <1>0, <2>1, <2>3, RehearsalAssumption
  <2> HIDE DEF x
  <2> QED
    BY <2>1, <2>3, <2>4 DEF Goes, Walks, LogShape, LogRests, Same, PlanShape, Begins
<1>4. CASE MarkExecuted(e)
  BY <1>4, IdleIs DEF MarkExecuted, Goes, Walks, LogShape, LogRests, PlanShape, Marks
<1>5. CASE MarkFails(e)
  BY <1>5, IdleIs DEF MarkFails, Unmarked, Goes, Walks, LogShape, LogRests, PlanShape, Leaves
<1> QED
  BY <1>1, <1>2, <1>3, <1>4, <1>5

LEMMA WalkSteps ==
  ASSUME TypeOK, Numbered, NEW e \in Executors,
         \/ StepHeld(e) \/ StepRelease(e) \/ StepWorks(e) \/ StepFails(e) \/ StepUnlogged(e)
         \/ FinishRun(e) \/ FinishRaises(e) \/ ExecDies(e)
  PROVE  \E x \in Execution : Goes(e, x)
<1> DEFINE at(where, doomed) == [exec[e] EXCEPT !.pc = where, !.doomed = doomed]
<1>0. /\ exec[e] \in Execution /\ (exec[e].pc # "idle" => exec[e].plan # NoPlan)
      /\ exec[e].doomed \in BOOLEAN
  BY DEF TypeOK, Execution
<1>a. \A where \in {"call", "close", "mark"}, doomed \in BOOLEAN :
        /\ at(where, doomed) \in Execution /\ at(where, doomed).pc = where
        /\ at(where, doomed).plan = exec[e].plan /\ at(where, doomed).did = exec[e].did
        /\ at(where, doomed).doomed = doomed
  BY <1>0 DEF Execution
<1>b. \A where : [exec EXCEPT ![e].pc = where] = [exec EXCEPT ![e] = at(where, exec[e].doomed)]
  BY <1>0 DEF TypeOK, Execution
<1>c. \A where : [exec EXCEPT ![e].pc = where, ![e].doomed = TRUE]
                    = [exec EXCEPT ![e] = at(where, TRUE)]
  BY <1>0 DEF TypeOK, Execution
<1> HIDE DEF at
\* A commit on the way to `where`, which works or fails.
<1>g. ASSUME exec[e].pc = "walk", UNCHANGED <<planVars, made, undoVars>>,
             NEW where \in {"call", "close"},
             \/ exec' = [exec EXCEPT ![e] = at(where, exec[e].doomed)] /\ log' = Committed(e)
             \/ exec' = [exec EXCEPT ![e] = at(where, TRUE)] /\ log' = Lost(e)
      PROVE  \E x \in Execution : Goes(e, x)
  <2>1. CASE exec' = [exec EXCEPT ![e] = at(where, exec[e].doomed)] /\ log' = Committed(e)
    <3>1. /\ at(where, exec[e].doomed) \in Execution /\ at(where, exec[e].doomed).pc = where
          /\ at(where, exec[e].doomed).plan = exec[e].plan
          /\ Same(e, at(where, exec[e].doomed))
      BY <1>0, <1>a, <1>g DEF Same
    <3>2. LogShape(e, at(where, exec[e].doomed))
      BY <1>g, <2>1, <3>1 DEF LogShape, LogCommits
    <3>3. PlanShape(e, at(where, exec[e].doomed))
      BY <1>0, <1>g, <3>1 DEF PlanShape, GoesOn, planVars
    <3> QED
      BY <1>g, <2>1, <3>1, <3>2, <3>3 DEF Goes, Walks
  <2>2. CASE exec' = [exec EXCEPT ![e] = at(where, TRUE)] /\ log' = Lost(e)
    <3>1. LogLoses(e, at(where, TRUE))
      <4>1. {} \in SUBSET Entries /\ exec[e].did \cup {} = exec[e].did
        OBVIOUS
      <4> QED
        BY <1>a, <1>g, <2>2, <4>1 DEF LogLoses
    <3> QED
      BY <1>0, <1>a, <1>g, <2>2, <3>1 DEF Goes, Walks, LogShape, PlanShape, GoesOn, planVars
  <2> QED
    BY <1>g, <2>1, <2>2
<1>1. CASE StepHeld(e)
  <2>1. /\ exec[e].pc = "walk" /\ UNCHANGED <<planVars, made, undoVars>>
        /\ \/ exec' = [exec EXCEPT ![e] = at("close", exec[e].doomed)] /\ log' = Committed(e)
           \/ exec' = [exec EXCEPT ![e] = at("close", TRUE)] /\ log' = Lost(e)
    BY <1>1, <1>b, <1>c DEF StepHeld
  <2> QED
    BY <1>g, <2>1
<1>2. CASE StepRelease(e)
  <2>1. /\ exec[e].pc = "walk" /\ UNCHANGED <<planVars, made, undoVars>>
        /\ \/ exec' = [exec EXCEPT ![e] = at("call", exec[e].doomed)] /\ log' = Committed(e)
           \/ exec' = [exec EXCEPT ![e] = at("call", TRUE)] /\ log' = Lost(e)
    BY <1>2, <1>b, <1>c DEF StepRelease
  <2> QED
    BY <1>g, <2>1
<1>d. ASSUME exec[e].pc = "call", UNCHANGED <<planVars, undoVars>>, NEW ok \in BOOLEAN,
             NEW N \in SUBSET Entries, exec' = [exec EXCEPT ![e] = Onward(exec[e], ok, N)],
             LogShape(e, Onward(exec[e], ok, N))
      PROVE  \E x \in Execution : Goes(e, x)
  <2>1. PICK y \in Execution : /\ y = Onward(exec[e], ok, N)
                               /\ y.pc \in {"walk", "close"} /\ y.plan = exec[e].plan
    BY <1>0, OnwardIs
  <2> QED
    BY <1>0, <1>d, <2>1 DEF Goes, Walks, PlanShape, GoesOn, planVars
<1>e. ASSUME exec[e].pc = "call", UNCHANGED <<planVars, undoVars>>, NEW ok \in BOOLEAN,
             NEW n \in NextEntry, NEW row \in LogRows(StepNow(e), ok),
             log' = [log EXCEPT ![n] = row], made' = made \cup {n},
             exec' = [exec EXCEPT ![e] = Onward(exec[e], ok, {n})]
      PROVE  \E x \in Execution : Goes(e, x)
  <2>1. LogShape(e, Onward(exec[e], ok, {n}))
    BY <1>e, Enters DEF LogShape
  <2>2. {n} \in SUBSET Entries
    BY DEF NextEntry
  <2> QED
    BY <1>d, <1>e, <2>1, <2>2
<1>3. CASE StepWorks(e)
  BY <1>3, <1>e DEF StepWorks
<1>4. CASE StepFails(e)
  <2>1. CASE /\ exec' = [exec EXCEPT ![e] = Onward(exec[e], FALSE, {})]
             /\ UNCHANGED <<log, made>>
    <3>1. {} \in SUBSET Entries /\ exec[e].did \cup {} = exec[e].did
      OBVIOUS
    <3>2. LogRests(e, Onward(exec[e], FALSE, {}))
      <4> DEFINE N == {}
                 no == FALSE
      <4>1. N \in SUBSET Entries /\ no \in BOOLEAN /\ exec[e].did \cup N = exec[e].did
        OBVIOUS
      <4> HIDE DEF N, no
      <4>2. LogRests(e, Onward(exec[e], no, N))
        <5>1. PICK y \in Execution : /\ y = Onward(exec[e], no, N) /\ y.pc \in {"walk", "close"}
                                     /\ y.did = exec[e].did \cup N /\ y.doomed = exec[e].doomed
          BY <1>0, <4>1, OnwardIs
        <5>2. LogRests(e, y)
          BY <2>1, <4>1, <5>1 DEF LogRests, Same
        <5> QED
          BY <5>1, <5>2
      <4> QED
        BY <4>2 DEF N, no
    <3>3. exec[e].pc = "call" /\ UNCHANGED <<planVars, undoVars>>
      BY <1>4 DEF StepFails
    <3>4. LogShape(e, Onward(exec[e], FALSE, {}))
      BY <3>2 DEF LogShape
    <3> QED
      BY <1>d, <2>1, <3>1, <3>3, <3>4
  <2>2. CASE \E n \in NextEntry, row \in LogRows(StepNow(e), FALSE) :
               /\ log' = [log EXCEPT ![n] = row]
               /\ made' = made \cup {n}
               /\ exec' = [exec EXCEPT ![e] = Onward(exec[e], FALSE, {n})]
    BY <1>4, <1>e, <2>2 DEF StepFails
  <2> QED
    BY <1>4, <2>1, <2>2 DEF StepFails
<1>5. CASE StepUnlogged(e)
  <2>1. PICK n \in NextEntry :
          /\ exec[e].pc = "call" /\ log' = Lost(e) /\ made' = made \cup {n}
          /\ exec' = [exec EXCEPT ![e] = [Onward(exec[e], FALSE, {n}) EXCEPT !.doomed = TRUE]]
          /\ UNCHANGED <<planVars, undoVars>>
    BY <1>5 DEF StepUnlogged
  <2>2. n \in Entries /\ Happens(n)
    BY <2>1, NextHappens
  <2>3. PICK y \in Execution : /\ y = Onward(exec[e], FALSE, {n})
                               /\ y.pc \in {"walk", "close"} /\ y.plan = exec[e].plan
                               /\ y.did = exec[e].did \cup {n}
    BY <1>0, <2>2, OnwardIs
  <2> DEFINE x == [y EXCEPT !.doomed = TRUE]
  <2>4. /\ x \in Execution /\ x.pc \in {"walk", "close"} /\ x.plan = exec[e].plan
        /\ x.did = exec[e].did \cup {n} /\ x.doomed
    BY <2>3 DEF Execution
  <2>5. exec' = [exec EXCEPT ![e] = x]
    BY <2>1, <2>3
  <2> HIDE DEF x
  <2>6. LogLoses(e, x)
    <3>1. {n} \in SUBSET Entries
      BY <2>2
    <3> QED
      BY <2>1, <2>2, <2>4, <3>1 DEF LogLoses
  <2> QED
    BY <1>0, <2>1, <2>4, <2>5, <2>6 DEF Goes, Walks, LogShape, PlanShape, GoesOn, planVars
<1>6. CASE FinishRun(e)
  <2>1. /\ exec' = [exec EXCEPT ![e] = at("mark", exec[e].doomed)] /\ exec[e].pc = "close"
        /\ ~exec[e].doomed /\ log' = Committed(e) /\ UNCHANGED <<planVars, made, undoVars>>
    BY <1>6, <1>b DEF FinishRun
  <2> QED
    BY <1>0, <1>a, <2>1 DEF Goes, Walks, LogShape, LogCommits, Same, PlanShape, GoesOn, planVars
<1>f. ASSUME log' = Lost(e), Unmarked(e), exec[e].pc # "idle",
             UNCHANGED <<routine, granted, plan, undoVars>>,
             UNCHANGED made \/ \E n \in NextEntry : made' = made \cup {n}
      PROVE  \E x \in Execution : Goes(e, x)
  <2>1. \E N \in SUBSET Entries :
          (N = {} /\ UNCHANGED made) \/ \E n \in Entries : N = {n} /\ Happens(n)
    <3>1. CASE UNCHANGED made
      BY <3>1
    <3>2. ASSUME NEW n \in NextEntry, made' = made \cup {n}
          PROVE  \E N \in SUBSET Entries : \E m \in Entries : N = {m} /\ Happens(m)
      <4>1. n \in Entries /\ Happens(n) /\ {n} \in SUBSET Entries
        BY <3>2, NextHappens
      <4> QED
        BY <4>1
    <3> QED
      BY <1>f, <3>1, <3>2
  <2>2. LogLoses(e, IdleExec)
    BY <1>f, <2>1, IdleIs DEF LogLoses
  <2> QED
    BY <1>f, <2>2, IdleIs DEF Unmarked, Goes, Walks, LogShape, PlanShape, Leaves
<1>7. CASE FinishRaises(e)
  BY <1>7, <1>f DEF FinishRaises
<1>8. CASE ExecDies(e)
  BY <1>8, <1>f DEF ExecDies
<1> QED
  BY <1>1, <1>2, <1>3, <1>4, <1>5, <1>6, <1>7, <1>8

LEMMA ExecGoes ==
  ASSUME TypeOK, Numbered, NEW e \in Executors, ExecStep(e)
  PROVE  \E x \in Execution : Goes(e, x)
BY PlanSteps, WalkSteps DEF ExecStep

------------------------------------------------------------------------------
(* The log.                                                                  *)

\* What a step of an execution leaves alone: whatever is in the log for good,
\* and what was taken back.
LEMMA LogKeeps ==
  ASSUME TypeOK, LogInv, NEW e \in Executors, NEW x \in Execution, LogShape(e, x)
  PROVE  /\ log' \in [Entries -> LogRow]
         /\ made \subseteq made' /\ made' \subseteq Entries /\ Numbered'
         /\ \A n \in Entries : /\ log[n].state = "logged" => log'[n] = log[n]
                               /\ log'[n].undone = log[n].undone
<1>0. /\ log \in [Entries -> LogRow] /\ made \in SUBSET Entries /\ Numbered
      /\ \A n \in Entries : Real(n)
  BY DEF TypeOK, LogInv
<1>1. CASE LogRests(e, x)
  BY <1>0, <1>1 DEF LogRests, Numbered
<1>2. CASE LogCommits(e, x)
  <2>1. log' = Committed(e) /\ made' = made
    BY <1>2 DEF LogCommits
  <2>2. \A n \in Entries : log[n].state = "logged" => log[n].state # "flushed"
    OBVIOUS
  <2> QED
    BY <1>0, <2>1, <2>2, CommittedIs DEF Numbered
<1>3. CASE LogLoses(e, x)
  <2>1. log' = Lost(e) /\ (made' = made \/ \E n \in Entries : Happens(n))
    BY <1>3 DEF LogLoses
  <2>2. made \subseteq made' /\ made' \subseteq Entries /\ Numbered'
    BY <1>0, <2>1 DEF Happens, Numbered
  <2>3. /\ \A n \in Entries : log[n].state = "flushed" => ~log[n].undone
        /\ \A n \in Entries : log[n].undone \in BOOLEAN /\ Lost(e)[n].undone \in BOOLEAN
    BY <1>0, LostIs DEF Real, LogRow
  <2>4. \A n \in Entries : /\ log[n].state = "logged" => log'[n] = log[n]
                          /\ log'[n].undone = log[n].undone
    BY <2>1, <2>3, LostIs
  <2> QED
    BY <2>1, <2>2, <2>4, LostIs
<1>4. CASE LogEnters(e, x)
  <2>1. PICK n \in Entries :
          /\ Happens(n) /\ log' \in [Entries -> LogRow] /\ ~log'[n].undone
          /\ \A m \in Entries \ {n} : log'[m] = log[m]
    BY <1>4 DEF LogEnters
  <2>2. log[n].state = "none" /\ ~log[n].undone
    BY <1>0, <2>1 DEF Real, Happens, LogRow
  <2>3. log[n].undone = FALSE /\ log'[n].undone = FALSE
    BY <1>0, <2>1, <2>2 DEF LogRow
  <2> QED
    BY <1>0, <2>1, <2>2, <2>3 DEF Happens
<1> QED
  BY <1>1, <1>2, <1>3, <1>4 DEF LogShape

LEMMA ExecKeepsLogInv ==
  ASSUME TypeOK, LogInv, NEW e \in Executors, NEW x \in Execution, Goes(e, x)
  PROVE  LogInv'
<1>0. /\ log \in [Entries -> LogRow] /\ exec \in [Executors -> Execution]
      /\ \A n \in Entries : Real(n)
      /\ \A f \in Executors : Accounted(f)
  BY DEF TypeOK, LogInv
<1>1. /\ log' \in [Entries -> LogRow] /\ made \subseteq made' /\ made' \subseteq Entries
      /\ Numbered'
      /\ \A n \in Entries : /\ log[n].state = "logged" => log'[n] = log[n]
                            /\ log'[n].undone = log[n].undone
  BY LogKeeps DEF Goes
<1>2. exec'[e] = x /\ \A f \in Executors \ {e} : exec'[f] = exec[f]
  BY <1>0 DEF Goes, Walks
<1>3. \A f \in Executors : exec[f].did \in SUBSET Entries /\ x.did \in SUBSET Entries
  BY <1>0 DEF Execution
<1>4. CASE LogRests(e, x)
  <2>1. log' = log /\ made' = made /\ x.pc # "mark" /\ (x.did = {} \/ Same(e, x))
    BY <1>4 DEF LogRests
  <2>2. ASSUME NEW f \in Executors PROVE Accounted(f)'
    BY <1>0, <1>2, <2>1 DEF Accounted, Same
  <2> QED
    BY <1>0, <1>1, <2>1, <2>2 DEF LogInv, Real
<1>5. CASE LogCommits(e, x)
  <2>1. /\ log' = Committed(e) /\ made' = made
        /\ x.did = exec[e].did /\ x.doomed = exec[e].doomed /\ (x.pc = "mark" => ~x.doomed)
    BY <1>5 DEF LogCommits, Same
  <2>2. \A n \in Entries :
          /\ n \in x.did /\ log[n].state \in {"flushed", "logged"} => log'[n].state = "logged"
          /\ n \notin x.did => log'[n] = log[n]
          /\ log'[n].state # "none" => log[n].state # "none"
    BY <2>1, CommittedIs
  <2>3. Accounted(e)'
    BY <1>0, <1>2, <1>3, <2>1, <2>2 DEF Accounted
  <2>4. ASSUME NEW f \in Executors \ {e} PROVE Accounted(f)'
    <3>1. exec[f].did \cap x.did = {}
      BY <1>0, <2>1 DEF Accounted
    <3> QED
      BY <1>0, <1>2, <1>3, <2>1, <2>2, <3>1 DEF Accounted
  <2>5. ASSUME NEW n \in Entries PROVE Real(n)'
    BY <1>0, <1>1, <2>1, <2>2 DEF Real
  <2> QED
    BY <1>1, <2>3, <2>4, <2>5 DEF LogInv
<1>6. CASE LogLoses(e, x)
  <2>1. /\ log' = Lost(e) /\ x.pc # "mark"
        /\ x.did = {} \/ (x.doomed /\ \A m \in x.did : m \in exec[e].did \/ (m \in Entries \ made /\ m \in made'))
    BY <1>6 DEF LogLoses, Happens
  <2>2. \A n \in Entries :
          /\ n \notin exec[e].did => log'[n] = log[n]
          /\ log'[n].state # "none" => log[n].state # "none"
    BY <2>1, LostIs
  <2>3. ASSUME NEW f \in Executors \ {e}
        PROVE  exec[f].did \cap exec[e].did = {} /\ exec[f].did \cap x.did = {}
    BY <1>0, <2>1 DEF Accounted
  <2>4. Accounted(e)'
    BY <1>0, <1>1, <1>2, <2>1, <2>3 DEF Accounted
  <2>5. ASSUME NEW f \in Executors \ {e} PROVE Accounted(f)'
    <3>1. exec'[f] = exec[f] /\ exec[f].did \subseteq made'
      BY <1>0, <1>1, <1>2 DEF Accounted
    <3>2. \A g \in Executors \ {f} : exec'[g].did \cap exec'[f].did = {}
      BY <1>0, <1>2, <2>3 DEF Accounted
    <3>3. \A n \in exec[f].did : log'[n] = log[n]
      BY <1>3, <2>2, <2>3
    <3> QED
      BY <1>0, <3>1, <3>2, <3>3 DEF Accounted
  <2>6. ASSUME NEW n \in Entries PROVE Real(n)'
    BY <1>0, <1>1, <2>2 DEF Real
  <2> QED
    BY <1>1, <2>4, <2>5, <2>6 DEF LogInv
<1>7. CASE LogEnters(e, x)
  <2>1. PICK n \in Entries :
          /\ n \notin made /\ made' = made \cup {n} /\ x.did = exec[e].did \cup {n}
          /\ x.pc # "mark" /\ x.doomed = exec[e].doomed
          /\ log'[n].state = "flushed" /\ ~log'[n].undone
          /\ \A m \in Entries \ {n} : log'[m] = log[m]
    BY <1>7 DEF LogEnters, Happens
  <2>2. \A f \in Executors : n \notin exec[f].did
    BY <1>0, <2>1 DEF Accounted
  <2>3. ASSUME NEW f \in Executors \ {e} PROVE exec[f].did \cap x.did = {}
    BY <1>0, <2>1, <2>2 DEF Accounted
  <2>4. Accounted(e)'
    <3>1. ~x.doomed => \A m \in x.did : log'[m].state \in {"flushed", "logged"}
      BY <1>0, <1>3, <2>1 DEF Accounted
    <3> QED
      BY <1>0, <1>2, <2>1, <2>3, <3>1 DEF Accounted
  <2>5. ASSUME NEW f \in Executors \ {e} PROVE Accounted(f)'
    <3>1. exec'[f] = exec[f] /\ exec[f].did \subseteq made'
      BY <1>0, <1>1, <1>2 DEF Accounted
    <3>2. \A g \in Executors \ {f} : exec'[g].did \cap exec'[f].did = {}
      BY <1>0, <1>2, <2>3 DEF Accounted
    <3>3. \A m \in exec[f].did : log'[m] = log[m]
      BY <1>3, <2>1, <2>2
    <3> QED
      BY <1>0, <3>1, <3>2, <3>3 DEF Accounted
  <2>6. ASSUME NEW m \in Entries PROVE Real(m)'
    BY <1>0, <1>1, <2>1 DEF Real
  <2> QED
    BY <1>1, <2>4, <2>5, <2>6 DEF LogInv
<1> QED
  BY <1>4, <1>5, <1>6, <1>7 DEF Goes, LogShape
LEMMA InitLog == Init => LogInv
<1> SUFFICES ASSUME Init PROVE LogInv
  OBVIOUS
<1>1. 0 \in 0 .. MaxEntries /\ made = 1 .. 0
  BY RehearsalAssumption DEF Init
<1>2. \A e \in Executors : Accounted(e)
  BY DEF Init, Accounted, IdleExec
<1>3. \A n \in Entries : Real(n)
  BY DEF Init, Real, NoEntry
<1> QED
  BY <1>1, <1>2, <1>3 DEF LogInv, Numbered

------------------------------------------------------------------------------
(* Plans.                                                                    *)

LEMMA InitPlan == Init => PlanInv
BY DEF Init, PlanInv, Orderly, ReadAlone, IdleExec

\* A step of an execution keeps the plans' rows, and touches no plan but its own.
LEMMA PlanKeeps ==
  ASSUME TypeOK, NEW e \in Executors, NEW x \in Execution, PlanShape(e, x)
  PROVE  /\ plan' \in [Plans -> PlanRows \cup {NoPlan}]
         /\ stands' \in [Plans -> Nat]
         /\ \A p \in Plans : plan[p] # NoPlan => plan'[p] \in PlanRows
         /\ \A p \in Plans \ {exec[e].plan} : plan'[p] = plan[p] /\ stands'[p] = stands[p]
         /\ x.plan # NoPlan => plan'[x.plan] \in PlanRows
<1>0. /\ plan \in [Plans -> PlanRows \cup {NoPlan}] /\ stands \in [Plans -> Nat]
      /\ exec[e] \in Execution
      /\ exec[e].plan \in Plans \cup {NoPlan} /\ x.plan \in Plans \cup {NoPlan}
      /\ exec[e].pc # "idle" => exec[e].plan \in Plans /\ plan[exec[e].plan] \in PlanRows
  BY DEF TypeOK, Execution
<1>1. \A r \in PlanRows, s \in {"stale", "executed"} : [r EXCEPT !.status = s] \in PlanRows
  BY DEF PlanRows
<1>2. ASSUME NEW s \in {"stale", "executed"}, exec[e].pc # "idle",
             plan' = [plan EXCEPT ![exec[e].plan].status = s]
      PROVE  /\ plan' \in [Plans -> PlanRows \cup {NoPlan}]
             /\ \A p \in Plans : plan[p] # NoPlan => plan'[p] \in PlanRows
             /\ \A p \in Plans \ {exec[e].plan} : plan'[p] = plan[p]
  <2>1. PICK r \in PlanRows : r = [plan[exec[e].plan] EXCEPT !.status = s]
    BY <1>0, <1>1, <1>2
  <2>2. plan' = [plan EXCEPT ![exec[e].plan] = r]
    BY <1>2, <2>1
  <2> QED
    BY <1>0, <1>2, <2>1, <2>2
<1>3. CASE Reads(e, x)
  BY <1>0, <1>3 DEF Reads
<1>4. CASE Rejects(e, x)
  BY <1>0, <1>2, <1>4 DEF Rejects
<1>5. CASE Begins(e, x)
  BY <1>0, <1>5 DEF Begins
<1>6. CASE GoesOn(e, x)
  BY <1>0, <1>6 DEF GoesOn
<1>7. CASE Marks(e, x)
  BY <1>0, <1>2, <1>7 DEF Marks
<1>8. CASE Leaves(e, x)
  BY <1>0, <1>8 DEF Leaves
<1> QED
  BY <1>3, <1>4, <1>5, <1>6, <1>7, <1>8 DEF PlanShape

LEMMA ExecTypes ==
  ASSUME TypeOK, LogInv, NEW e \in Executors, NEW x \in Execution, Goes(e, x)
  PROVE  TypeOK'
<1>1. /\ log' \in [Entries -> LogRow] /\ made' \subseteq Entries
  BY LogKeeps DEF Goes
<1>2. /\ plan' \in [Plans -> PlanRows \cup {NoPlan}] /\ stands' \in [Plans -> Nat]
      /\ \A p \in Plans : plan[p] # NoPlan => plan'[p] \in PlanRows
      /\ x.plan # NoPlan => plan'[x.plan] \in PlanRows
  BY PlanKeeps DEF Goes
<1>3. exec' = [exec EXCEPT ![e] = x] /\ UNCHANGED <<routine, granted, undoer, taken, slips>>
  BY DEF Goes, Walks, PlanShape, undoVars
<1>4. x.pc = "idle" <=> x.plan = NoPlan
  BY DEF Goes, PlanShape
<1>5. exec' \in [Executors -> Execution]
  BY <1>3 DEF TypeOK
<1>6. ASSUME NEW f \in Executors
      PROVE  /\ exec'[f].pc = "idle" <=> exec'[f].plan = NoPlan
             /\ exec'[f].pc # "idle" => plan'[exec'[f].plan] \in PlanRows
  <2>1. CASE f = e
    BY <1>2, <1>3, <1>4, <2>1 DEF TypeOK
  <2>2. CASE f # e
    <3>1. exec'[f] = exec[f] /\ exec[f].plan \in Plans \cup {NoPlan}
      BY <1>3, <2>2 DEF TypeOK, Execution
    <3>2. exec[f].pc # "idle" => exec[f].plan \in Plans /\ plan[exec[f].plan] # NoPlan
      BY <3>1, RehearsalAssumption DEF TypeOK
    <3> QED
      BY <1>2, <3>1, <3>2 DEF TypeOK
  <2> QED
    BY <2>1, <2>2
<1> QED
  BY <1>1, <1>2, <1>3, <1>5, <1>6 DEF TypeOK

LEMMA ExecKeepsPlanInv ==
  ASSUME TypeOK, PlanInv, NEW e \in Executors, NEW x \in Execution, Goes(e, x)
  PROVE  PlanInv'
<1>0. /\ exec \in [Executors -> Execution] /\ stands \in [Plans -> Nat]
      /\ exec'[e] = x /\ \A f \in Executors \ {e} : exec'[f] = exec[f]
      /\ plan \in [Plans -> PlanRows \cup {NoPlan}] /\ NoPlan \notin Plans \cup PlanRows
      /\ exec[e].pc \in {"idle", "read", "walk", "call", "close", "mark"}
      /\ exec[e].pc = "idle" <=> exec[e].plan = NoPlan
      /\ \A f \in Executors : exec[f].late \in BOOLEAN
  BY RehearsalAssumption DEF TypeOK, Execution, Goes, Walks
<1>1. \A p \in Plans \ {exec[e].plan} : plan'[p] = plan[p] /\ stands'[p] = stands[p]
  BY PlanKeeps DEF Goes
<1> SUFFICES ASSUME NEW p \in Plans PROVE Orderly(p)'
  BY DEF PlanInv
<1>2. Orderly(p)
  BY DEF PlanInv
<1>3. stands[p] \in {0, 1}
  BY <1>0, <1>2 DEF Orderly
\* Nobody else's reading, and no other run of p, is touched.
<1>d. \A f \in Executors \ {e} : /\ ReadAlone(f, p)' <=> ReadAlone(f, p)
                                 /\ exec'[f].plan = exec[f].plan /\ Started(f)' = Started(f)
  BY <1>0 DEF ReadAlone, Started
<1>e. /\ ReadAlone(e, p)' <=> x.plan = p /\ x.pc = "read" /\ ~x.late
      /\ Started(e)' <=> x.pc \in {"walk", "call", "close", "mark"}
  BY <1>0 DEF ReadAlone, Started
\* No run of p stands any more, and e reads no plan.
<1>a. ASSUME stands'[p] = 0, ~ReadAlone(e, p)'
      PROVE  Orderly(p)'
  BY <1>2, <1>a, <1>d DEF Orderly
\* What stands of p is what stood, and a run that may mark it goes on.
<1>b. ASSUME stands'[p] = stands[p], ~ReadAlone(e, p)',
             plan[p] # NoPlan => plan'[p] # NoPlan,
             plan[p] # NoPlan /\ plan[p].status = "executed" => plan'[p].status = "executed",
             exec[e].plan = p /\ Started(e) =>
                \/ plan'[p].status = "executed"
                \/ x.plan = p /\ x.pc \in {"walk", "call", "close", "mark"}
      PROVE  Orderly(p)'
  <2>1. ASSUME stands[p] = 1
        PROVE  /\ plan'[p] # NoPlan
               /\ \/ plan'[p].status = "executed"
                  \/ \E f \in Executors : exec'[f].plan = p /\ Started(f)'
    <3>1. plan[p] # NoPlan /\ plan'[p] # NoPlan
      BY <1>2, <1>b, <2>1 DEF Orderly
    <3>2. CASE plan[p].status = "executed"
      BY <1>b, <3>1, <3>2
    <3>3. ASSUME NEW f \in Executors, exec[f].plan = p, Started(f)
          PROVE  plan'[p].status = "executed" \/ \E g \in Executors : exec'[g].plan = p /\ Started(g)'
      BY <1>0, <1>b, <1>d, <1>e, <3>3
    <3> QED
      BY <1>2, <2>1, <3>1, <3>2, <3>3 DEF Orderly
  <2> QED
    BY <1>2, <1>b, <1>d, <2>1 DEF Orderly
<1>c. exec[e].plan = p => plan[p] # NoPlan /\ plan[p] \in PlanRows
  BY <1>0 DEF TypeOK
<1>4. CASE exec[e].plan # p /\ x.plan # p
  BY <1>1, <1>4, <1>b, <1>e
<1>5. CASE Reads(e, x) /\ x.plan = p
  <2>1. /\ exec[e].pc = "idle" /\ plan[p] # NoPlan /\ plan[p].status # "executed"
        /\ x.pc = "read" /\ x.late = Busy(p) /\ plan' = plan /\ stands' = stands
    BY <1>5 DEF Reads
  <2>2. CASE x.late
    BY <1>b, <1>e, <2>1, <2>2 DEF Started
  <2>3. CASE ~x.late
    <3>1. \A f \in Executors : exec[f].plan # p
      BY <2>1, <2>3 DEF Busy
    <3>2. stands[p] = 0
      BY <1>2, <1>3, <2>1, <3>1 DEF Orderly
    <3>3. \A f \in Executors \ {e} : ~ReadAlone(f, p)'
      BY <1>d, <3>1 DEF ReadAlone
    <3> QED
      BY <2>1, <3>2, <3>3 DEF Orderly
  <2> QED
    BY <2>2, <2>3
<1>6. CASE Rejects(e, x) /\ exec[e].plan = p
  <2>1. exec[e].pc = "read" /\ x.plan = NoPlan /\ ~Started(e) /\ ~ReadAlone(e, p)'
    BY <1>0, <1>6, <1>e DEF Rejects, Started
  <2>2. CASE UNCHANGED <<plan, stands>>
    BY <1>b, <2>1, <2>2
  <2>3. CASE /\ plan' = [plan EXCEPT ![p].status = "stale"]
             /\ stands' = IF plan[p].status = "executed" THEN [stands EXCEPT ![p] = 0] ELSE stands
    <3>1. plan'[p] # NoPlan
      <4>1. plan'[p] = [plan[p] EXCEPT !.status = "stale"]
        BY <1>0, <2>3
      <4>2. [plan[p] EXCEPT !.status = "stale"] \in PlanRows
        BY <1>6, <1>c DEF PlanRows
      <4> QED
        BY <1>0, <4>1, <4>2
    <3>2. CASE plan[p].status = "executed"
      BY <1>0, <1>a, <2>1, <2>3, <3>2
    <3>3. CASE plan[p].status # "executed"
      BY <1>b, <2>1, <2>3, <3>1, <3>3
    <3> QED
      BY <3>2, <3>3
  <2> QED
    BY <1>6, <2>2, <2>3 DEF Rejects
<1>7. CASE Begins(e, x) /\ exec[e].plan = p
  <2>1. /\ exec[e].pc = "read" /\ x.plan = p /\ x.pc = "walk" /\ plan' = plan /\ ~ReadAlone(e, p)'
        /\ stands' = IF exec[e].late THEN stands ELSE [stands EXCEPT ![p] = @ + 1]
    BY <1>7, <1>e DEF Begins
  <2>2. CASE exec[e].late
    BY <1>b, <2>1, <2>2
  <2>3. CASE ~exec[e].late
    <3>1. ReadAlone(e, p)
      BY <1>7, <2>1, <2>3 DEF ReadAlone
    <3>2. stands[p] = 0 /\ \A f \in Executors \ {e} : ~ReadAlone(f, p)
      BY <1>2, <3>1 DEF Orderly
    <3>3. stands'[p] = 1
      BY <1>0, <2>1, <2>3, <3>2
    <3>4. exec'[e].plan = p /\ Started(e)' /\ plan'[p] # NoPlan
      BY <1>0, <1>7, <1>c, <1>e, <2>1
    <3>5. \A f \in Executors : ~ReadAlone(f, p)'
      BY <1>d, <2>1, <3>2
    <3> QED
      BY <3>3, <3>4, <3>5 DEF Orderly
  <2> QED
    BY <1>0, <2>2, <2>3
<1>8. CASE GoesOn(e, x) /\ exec[e].plan = p
  BY <1>8, <1>b, <1>e DEF GoesOn
<1>9. CASE Marks(e, x) /\ exec[e].plan = p
  <2>1. stands' = stands /\ x.plan = NoPlan /\ plan' = [plan EXCEPT ![p].status = "executed"]
    BY <1>9 DEF Marks
  <2>2. [plan[p] EXCEPT !.status = "executed"] \in PlanRows
    BY <1>9, <1>c DEF PlanRows
  <2>3. plan'[p].status = "executed" /\ plan'[p] # NoPlan
    <3>1. plan'[p] = [plan[p] EXCEPT !.status = "executed"]
      BY <1>0, <2>1
    <3> QED
      BY <1>0, <1>9, <1>c, <2>2, <3>1 DEF PlanRows
  <2>4. ~ReadAlone(e, p)'
    BY <1>0, <1>e, <2>1
  <2> QED
    BY <1>b, <2>1, <2>3, <2>4
<1>10. CASE Leaves(e, x) /\ exec[e].plan = p
  <2>1. /\ stands' = IF Started(e) THEN [stands EXCEPT ![p] = 0] ELSE stands
        /\ plan' = plan /\ ~ReadAlone(e, p)'
    BY <1>0, <1>10, <1>e DEF Leaves
  <2>2. CASE Started(e)
    BY <1>0, <1>a, <2>1, <2>2
  <2>3. CASE ~Started(e)
    BY <1>b, <2>1, <2>3
  <2> QED
    BY <2>2, <2>3
<1> QED
  <2>1. x.plan = p => Reads(e, x) \/ exec[e].plan = p
    BY <1>0 DEF Goes, PlanShape, Rejects, Begins, GoesOn, Marks, Leaves
  <2>2. exec[e].plan = p => ~Reads(e, x)
    BY <1>0 DEF Reads
  <2>3. Reads(e, x) \/ Rejects(e, x) \/ Begins(e, x) \/ GoesOn(e, x) \/ Marks(e, x) \/ Leaves(e, x)
    BY DEF Goes, PlanShape
  <2> QED
    BY <1>4, <1>5, <1>6, <1>7, <1>8, <1>9, <1>10, <2>1, <2>2, <2>3
------------------------------------------------------------------------------
(* Undos.                                                                    *)

LEMMA InitUndo == Init => UndoInv
BY DEF Init, UndoInv, Asks, Balanced, Holds, Unstored, IdleUndoer, NoEntry

LEMMA ExecKeepsUndoInv ==
  ASSUME TypeOK, LogInv, UndoInv, NEW e \in Executors, NEW x \in Execution, Goes(e, x)
  PROVE  UndoInv'
<1>1. \A n \in Entries : /\ log[n].state = "logged" => log'[n] = log[n]
                        /\ log'[n].undone = log[n].undone
  BY LogKeeps DEF Goes
<1>2. UNCHANGED <<undoer, taken, slips>>
  BY DEF Goes, Walks, undoVars
<1>3. ASSUME NEW u \in Undoers PROVE Asks(u)'
  BY <1>1, <1>2 DEF UndoInv, Asks
<1>4. ASSUME NEW n \in Entries PROVE Balanced(n)'
  BY <1>1, <1>2 DEF UndoInv, Balanced, Holds, Unstored
<1> QED
  BY <1>3, <1>4 DEF UndoInv

\* u goes on as y.
LEMMA BalanceElsewhere ==
  ASSUME TypeOK, NEW u \in Undoers, NEW y \in Undo, undoer' = [undoer EXCEPT ![u] = y],
         NEW n \in Entries, Balanced(n), ~Holds(u, n),
         ~(y.entry = n /\ y.pc \in {"undo", "close"}),
         log'[n] = log[n], taken'[n] = taken[n], slips'[n] = slips[n]
  PROVE  Balanced(n)'
<1>1. \A v \in Undoers : Holds(v, n)' = Holds(v, n) /\ (Holds(v, n) => undoer'[v] = undoer[v])
  BY DEF TypeOK, Holds
<1>2. Unstored(n)' = Unstored(n)
  BY <1>1 DEF Unstored
<1> QED
  BY <1>1, <1>2 DEF Balanced

LEMMA BalanceHere ==
  ASSUME TypeOK, NEW u \in Undoers, NEW y \in Undo, undoer' = [undoer EXCEPT ![u] = y],
         NEW n \in Entries, \A v \in Undoers \ {u} : ~Holds(v, n),
         y.pc \in {"undo", "close"} => ~log'[n].undone, y.ok => y.pc = "close" /\ y.entry = n,
         taken'[n] = slips'[n] + (IF log'[n].undone \/ y.ok THEN 1 ELSE 0)
  PROVE  Balanced(n)'
<1>1. \A v \in Undoers \ {u} : ~Holds(v, n)'
  BY DEF TypeOK, Holds
<1>2. undoer'[u] = y
  BY DEF TypeOK
<1>3. Unstored(n)' <=> y.ok
  BY <1>1, <1>2 DEF Unstored, Holds
<1> QED
  BY <1>1, <1>2, <1>3 DEF Balanced, Holds

LEMMA UndoKeeps ==
  ASSUME TypeOK, LogInv, UndoInv, NEW u \in Undoers, UndoStep(u)
  PROVE  TypeOK' /\ LogInv' /\ UndoInv'
<1>n. PICK n : n = undoer[u].entry
  OBVIOUS
<1>0. /\ undoer[u] \in Undo /\ undoer \in [Undoers -> Undo] /\ log \in [Entries -> LogRow]
      /\ taken \in [Entries -> Nat] /\ slips \in [Entries -> Nat]
      /\ Asks(u) /\ \A v \in Undoers : Asks(v)
      /\ \A m \in Entries : Balanced(m)
  BY DEF TypeOK, UndoInv
<1>1. undoer[u].pc # "idle" => n \in Entries /\ log[n].state = "logged"
  BY <1>0, <1>n DEF Asks
\* The rest of TypeOK and of LogInv is about what an undo leaves alone.
<1>a. ASSUME log' = log, UNCHANGED <<planVars, exec, made>>,
             undoer' \in [Undoers -> Undo], taken' \in [Entries -> Nat], slips' \in [Entries -> Nat]
      PROVE  TypeOK' /\ LogInv'
  BY <1>a DEF TypeOK, LogInv, planVars, Numbered, Accounted, Real
<1>b. ASSUME log' = log, NEW y \in Undo, undoer' = [undoer EXCEPT ![u] = y],
             y.pc # "idle" => y.entry \in Entries /\ log[y.entry].state = "logged",
             y.ok => y.pc = "close"
      PROVE  \A v \in Undoers : Asks(v)'
  BY <1>0, <1>b DEF Asks
<1>f. undoer[u].pc \in {"undo", "close"} => Holds(u, n)
  BY <1>n DEF Holds
<1>c. undoer[u].pc \in {"undo", "close"} => \A v \in Undoers \ {u} : ~Holds(v, n)
  BY <1>0, <1>1, <1>f DEF Balanced
<1>d. \A m \in Entries \ {n} : ~Holds(u, m)
  BY <1>n DEF Holds
<1>e. undoer[u].pc \notin {"undo", "close"} => \A m \in Entries : ~Holds(u, m)
  BY DEF Holds
<1>g. undoer[u].pc \in {"undo", "close"} => Unstored(n) = undoer[u].ok
  BY <1>0, <1>c, <1>f DEF Unstored, Undo
<1>h. ASSUME undoer[u].pc \in {"undo", "close"}
      PROVE  ~log[n].undone /\ taken[n] = slips[n] + (IF undoer[u].ok THEN 1 ELSE 0)
  BY <1>0, <1>1, <1>f, <1>g, <1>h DEF Balanced
<1>2. ASSUME NEW m \in Entries, UndoRead(u, m) PROVE TypeOK' /\ LogInv' /\ UndoInv'
  <2> DEFINE y == [IdleUndoer EXCEPT !.pc = "claim", !.entry = m]
  <2>1. y \in Undo /\ y.pc = "claim" /\ y.entry = m /\ ~y.ok
    <3>1. m \in 0 .. MaxEntries
      BY RehearsalAssumption DEF Entries
    <3> QED
      BY <3>1, IdleUndoerIs DEF Undo
  <2>2. /\ undoer[u].pc = "idle" /\ log[m].state = "logged" /\ undoer' = [undoer EXCEPT ![u] = y]
        /\ UNCHANGED <<planVars, exec, log, made, taken, slips>>
    BY <1>2 DEF UndoRead
  <2> HIDE DEF y
  <2>3. TypeOK' /\ LogInv'
    BY <1>0, <1>a, <2>1, <2>2
  <2>4. \A v \in Undoers : Asks(v)'
    BY <1>b, <2>1, <2>2
  <2>5. \A k \in Entries : Balanced(k)'
    BY <1>0, <1>e, <2>1, <2>2, BalanceElsewhere
  <2> QED
    BY <2>3, <2>4, <2>5 DEF UndoInv
<1>3. CASE UndoClaim(u)
  <2>1. /\ undoer[u].pc = "claim" /\ ~Locked(n)
        /\ UNCHANGED <<planVars, exec, log, made, taken, slips>>
        /\ undoer' = [undoer EXCEPT ![u] = IF log[n].undone THEN IdleUndoer
                                            ELSE [undoer[u] EXCEPT !.pc = "undo"]]
    BY <1>3, <1>n DEF UndoClaim
  <2>2. ~undoer[u].ok /\ \A v \in Undoers : ~Holds(v, n)
    BY <1>0, <2>1 DEF Asks, Locked, Holds
  <2>3. CASE log[n].undone
    <3>1. undoer' = [undoer EXCEPT ![u] = IdleUndoer]
      BY <2>1, <2>3
    <3>2. TypeOK' /\ LogInv'
      BY <1>0, <1>a, <2>1, <3>1, IdleUndoerIs
    <3>3. \A v \in Undoers : Asks(v)'
      BY <1>b, <2>1, <3>1, IdleUndoerIs
    <3>4. \A k \in Entries : Balanced(k)'
      BY <1>0, <1>e, <2>1, <3>1, IdleUndoerIs, BalanceElsewhere
    <3> QED
      BY <3>2, <3>3, <3>4 DEF UndoInv
  <2>4. CASE ~log[n].undone
    <3> DEFINE y == [undoer[u] EXCEPT !.pc = "undo"]
    <3>1. y \in Undo /\ y.pc = "undo" /\ y.entry = n /\ ~y.ok
      BY <1>0, <1>n, <2>2 DEF Undo
    <3>2. undoer' = [undoer EXCEPT ![u] = y]
      BY <2>1, <2>4
    <3> HIDE DEF y
    <3>3. TypeOK' /\ LogInv'
      BY <1>0, <1>a, <2>1, <3>1, <3>2
    <3>4. \A v \in Undoers : Asks(v)'
      BY <1>1, <1>b, <2>1, <3>1, <3>2
    <3>5. \A k \in Entries \ {n} : Balanced(k)'
      BY <1>0, <1>e, <2>1, <3>1, <3>2, BalanceElsewhere
    <3>6. Balanced(n)'
      <4>1. taken[n] = slips[n] + 0
        BY <1>0, <1>1, <2>1, <2>2, <2>4 DEF Balanced, Unstored
      <4> QED
        BY <1>1, <2>1, <2>2, <2>4, <3>1, <3>2, <4>1, BalanceHere
    <3> QED
      BY <3>3, <3>4, <3>5, <3>6 DEF UndoInv
  <2> QED
    BY <2>3, <2>4
<1>4. CASE Compensate(u)
  <2>1. /\ undoer[u].pc = "undo" /\ UNCHANGED <<planVars, exec, log, made>>
        /\ \/ /\ undoer' = [undoer EXCEPT ![u].pc = "close", ![u].ok = TRUE]
              /\ taken' = [taken EXCEPT ![n] = @ + 1] /\ slips' = slips
           \/ /\ undoer' = [undoer EXCEPT ![u].pc = "close"]
              /\ taken' = taken /\ slips' = slips
           \/ /\ undoer' = [undoer EXCEPT ![u].pc = "close"]
              /\ taken' = [taken EXCEPT ![n] = @ + 1]
              /\ slips' = [slips EXCEPT ![n] = @ + 1]
    BY <1>4, <1>n DEF Compensate
  <2>2. ~undoer[u].ok /\ n \in Entries
    BY <1>0, <1>1, <2>1 DEF Asks
  <2>3. PICK y \in Undo : /\ undoer' = [undoer EXCEPT ![u] = y] /\ y.pc = "close" /\ y.entry = n
                          /\ taken'[n] = slips'[n] + (IF y.ok THEN 1 ELSE 0)
    <3> DEFINE done(ok) == [undoer[u] EXCEPT !.pc = "close", !.ok = ok]
    <3>1. \A ok \in BOOLEAN : /\ done(ok) \in Undo /\ done(ok).pc = "close"
                              /\ done(ok).entry = n /\ done(ok).ok = ok
      BY <1>0, <1>n DEF Undo
    <3>2. [undoer EXCEPT ![u].pc = "close", ![u].ok = TRUE] = [undoer EXCEPT ![u] = done(TRUE)]
      BY <1>0 DEF Undo
    <3>3. [undoer EXCEPT ![u].pc = "close"] = [undoer EXCEPT ![u] = done(FALSE)]
      BY <1>0, <2>2 DEF Undo
    <3> HIDE DEF done
    <3>4. taken[n] = slips[n] + 0
      BY <1>0, <1>h, <2>1, <2>2
    <3>5. CASE /\ undoer' = [undoer EXCEPT ![u].pc = "close", ![u].ok = TRUE]
               /\ taken' = [taken EXCEPT ![n] = @ + 1] /\ slips' = slips
      <4>1. taken'[n] = slips'[n] + 1
        BY <1>0, <2>2, <3>4, <3>5
      <4>2. done(TRUE) \in Undo /\ done(TRUE).pc = "close" /\ done(TRUE).entry = n /\ done(TRUE).ok
        BY <3>1
      <4> QED
        BY <3>2, <3>5, <4>1, <4>2
    <3>6. CASE /\ undoer' = [undoer EXCEPT ![u].pc = "close"]
               /\ taken' = taken /\ slips' = slips
      BY <1>0, <2>2, <3>1, <3>3, <3>4, <3>6
    <3>7. CASE /\ undoer' = [undoer EXCEPT ![u].pc = "close"]
               /\ taken' = [taken EXCEPT ![n] = @ + 1]
               /\ slips' = [slips EXCEPT ![n] = @ + 1]
      <4>1. taken'[n] = slips'[n] + 0
        BY <1>0, <2>2, <3>4, <3>7
      <4>2. done(FALSE) \in Undo /\ done(FALSE).pc = "close" /\ done(FALSE).entry = n /\ ~done(FALSE).ok
        BY <3>1
      <4> QED
        BY <3>3, <3>7, <4>1, <4>2
    <3> QED
      BY <2>1, <3>5, <3>6, <3>7
  <2>4. /\ taken' \in [Entries -> Nat] /\ slips' \in [Entries -> Nat]
        /\ \A k \in Entries \ {n} : taken'[k] = taken[k] /\ slips'[k] = slips[k]
    BY <1>0, <2>1, <2>2
  <2>5. TypeOK' /\ LogInv'
    BY <1>0, <1>a, <2>1, <2>3, <2>4
  <2>6. \A v \in Undoers : Asks(v)'
    BY <1>1, <1>b, <2>1, <2>3
  <2>7. \A k \in Entries \ {n} : Balanced(k)'
    BY <1>0, <1>d, <2>1, <2>3, <2>4, BalanceElsewhere
  <2>8. Balanced(n)'
    BY <1>c, <1>h, <2>1, <2>2, <2>3, BalanceHere
  <2> QED
    BY <2>5, <2>6, <2>7, <2>8 DEF UndoInv
<1>5. CASE UndoFinish(u)
  <2>1. /\ undoer[u].pc = "close" /\ log' = [log EXCEPT ![n].undone = undoer[u].ok]
        /\ undoer' = [undoer EXCEPT ![u] = IdleUndoer]
        /\ UNCHANGED <<planVars, exec, made, taken, slips>>
    BY <1>5, <1>n DEF UndoFinish
  <2>2. n \in Entries /\ log[n].state = "logged" /\ undoer[u].ok \in BOOLEAN
    BY <1>0, <1>1, <2>1 DEF Undo
  <2>3. /\ log' \in [Entries -> LogRow]
        /\ \A k \in Entries : log'[k].state = log[k].state
        /\ \A k \in Entries \ {n} : log'[k] = log[k]
        /\ log'[n].undone = undoer[u].ok
    BY <1>0, <2>1, <2>2 DEF LogRow
  <2>4. undoer' \in [Undoers -> Undo]
    BY <1>0, <2>1, IdleUndoerIs
  <2>5. TypeOK'
    BY <2>1, <2>3, <2>4 DEF TypeOK, planVars
  <2>6. LogInv'
    <3>1. \A m \in Entries : Real(m)'
      <4> TAKE m \in Entries
      <4>1. Real(m)
        BY DEF LogInv
      <4> QED
        BY <2>1, <2>2, <2>3, <4>1 DEF Real
    <3>2. \A f \in Executors : Accounted(f)'
      <4> TAKE f \in Executors
      <4>1. Accounted(f) /\ exec[f].did \subseteq Entries
        BY DEF LogInv, TypeOK, Execution
      <4> QED
        BY <2>1, <2>3, <4>1 DEF Accounted
    <3> QED
      BY <2>1, <3>1, <3>2 DEF LogInv, Numbered
  <2>7. \A v \in Undoers : Asks(v)'
    BY <1>0, <2>1, <2>3, IdleUndoerIs DEF Asks
  <2>8. \A k \in Entries \ {n} : Balanced(k)'
    BY <1>0, <1>d, <2>1, <2>3, IdleUndoerIs, BalanceElsewhere
  <2>9. Balanced(n)'
    <3>1. taken'[n] = slips'[n] + (IF log'[n].undone \/ IdleUndoer.ok THEN 1 ELSE 0)
      BY <1>h, <2>1, <2>3, IdleUndoerIs
    <3> QED
      BY <1>c, <2>1, <2>2, <3>1, IdleUndoerIs, BalanceHere
  <2> QED
    BY <2>5, <2>6, <2>7, <2>8, <2>9 DEF UndoInv
<1>6. CASE UndoRollsBack(u)
  <2>1. /\ undoer[u].pc # "idle" /\ undoer' = [undoer EXCEPT ![u] = IdleUndoer]
        /\ slips' = [slips EXCEPT ![n] = IF undoer[u].ok THEN @ + 1 ELSE @]
        /\ UNCHANGED <<planVars, exec, log, made, taken>>
    BY <1>6, <1>n DEF UndoRollsBack
  <2>2. n \in Entries
    BY <1>1, <2>1
  <2>3. /\ slips' \in [Entries -> Nat] /\ \A k \in Entries \ {n} : slips'[k] = slips[k]
        /\ slips'[n] = IF undoer[u].ok THEN slips[n] + 1 ELSE slips[n]
    BY <1>0, <2>1, <2>2
  <2>4. TypeOK' /\ LogInv'
    BY <1>0, <1>a, <2>1, <2>3, IdleUndoerIs
  <2>5. \A v \in Undoers : Asks(v)'
    BY <1>b, <2>1, IdleUndoerIs
  <2>6. \A k \in Entries \ {n} : Balanced(k)'
    BY <1>0, <1>d, <2>1, <2>3, IdleUndoerIs, BalanceElsewhere
  <2>7. Balanced(n)'
    <3>1. CASE undoer[u].pc = "claim"
      <4>1. ~undoer[u].ok
        BY <1>0, <3>1 DEF Asks
      <4> QED
        BY <1>0, <1>e, <2>1, <2>2, <2>3, <3>1, <4>1, IdleUndoerIs, BalanceElsewhere
    <3>2. CASE undoer[u].pc \in {"undo", "close"}
      <4>1. taken'[n] = slips'[n] + 0 /\ ~log'[n].undone
        BY <1>0, <1>h, <2>1, <2>2, <2>3, <3>2
      <4> QED
        BY <1>c, <2>1, <2>2, <3>2, <4>1, IdleUndoerIs, BalanceHere
    <3> QED
      BY <1>0, <2>1, <3>1, <3>2 DEF Undo
  <2> QED
    BY <2>4, <2>5, <2>6, <2>7 DEF UndoInv
<1> QED
  BY <1>2, <1>3, <1>4, <1>5, <1>6 DEF UndoStep
------------------------------------------------------------------------------
(* The specification.                                                        *)

IInv == TypeOK /\ LogInv /\ PlanInv /\ UndoInv

LEMMA InitTypes == Init => TypeOK
<1> SUFFICES ASSUME Init PROVE TypeOK
  OBVIOUS
<1>1. NoEntry \in LogRow /\ NoPlan \notin Plans
  BY RehearsalAssumption DEF NoEntry, LogRow
<1> QED
  BY <1>1, IdleIs, IdleUndoerIs DEF Init, TypeOK

LEMMA PlanStepsKeep ==
  ASSUME IInv, \/ \E p \in Plans : SavePlan(p)
               \/ EditRoutine
               \/ \E s \in Sends : Permit(s)
  PROVE  IInv'
<1>0. UNCHANGED <<exec, log, made, stands, undoer, taken, slips>>
  BY DEF SavePlan, EditRoutine, Permit, undoVars
<1>1. LogInv' /\ UndoInv'
  BY <1>0 DEF IInv, LogInv, Numbered, Accounted, Real, UndoInv, Asks, Balanced, Holds, Unstored
<1>2. ASSUME NEW p \in Plans, SavePlan(p) PROVE TypeOK' /\ PlanInv'
  <2>1. PICK row \in PlanRows : plan' = [plan EXCEPT ![p] = row]
    BY <1>2, PlanRowIs DEF SavePlan
  <2>2. plan[p] = NoPlan /\ UNCHANGED <<routine, granted>>
    BY <1>2 DEF SavePlan
  <2>3. \A q \in Plans : plan[q] # NoPlan => plan'[q] = plan[q]
    BY <2>1, <2>2 DEF IInv, TypeOK
  <2>4. TypeOK'
    <3>1. plan' \in [Plans -> PlanRows \cup {NoPlan}]
      BY <2>1 DEF IInv, TypeOK
    <3>2. \A e \in Executors : exec[e].pc # "idle" =>
             exec[e].plan \in Plans /\ plan[exec[e].plan] \in PlanRows /\ plan[exec[e].plan] # NoPlan
      BY RehearsalAssumption DEF IInv, TypeOK, Execution
    <3> QED
      BY <1>0, <2>2, <2>3, <3>1, <3>2 DEF IInv, TypeOK
  <2>5. PlanInv'
    BY <1>0, <2>3 DEF IInv, PlanInv, Orderly, ReadAlone, Started
  <2> QED
    BY <2>4, <2>5
<1>3. CASE EditRoutine \/ \E s \in Sends : Permit(s)
  <2>1. /\ plan' = plan /\ routine' \in Bodies \cup {Gone} /\ granted' \in SUBSET Sends
    BY <1>3 DEF EditRoutine, Permit, IInv, TypeOK
  <2>2. TypeOK'
    BY <1>0, <2>1 DEF IInv, TypeOK
  <2>3. PlanInv'
    BY <1>0, <2>1 DEF IInv, PlanInv, Orderly, ReadAlone, Started
  <2> QED
    BY <1>1, <2>2, <2>3 DEF IInv
<1> QED
  BY <1>1, <1>2, <1>3 DEF IInv

LEMMA StepKeeps == IInv /\ [Next]_vars => IInv'
<1> SUFFICES ASSUME IInv, [Next]_vars PROVE IInv'
  OBVIOUS
<1>1. ASSUME NEW e \in Executors, ExecStep(e) PROVE IInv'
  <2>1. PICK x \in Execution : Goes(e, x)
    BY <1>1, ExecGoes DEF IInv, LogInv
  <2> QED
    BY <2>1, ExecTypes, ExecKeepsLogInv, ExecKeepsPlanInv, ExecKeepsUndoInv DEF IInv
<1>2. ASSUME NEW u \in Undoers, UndoStep(u) PROVE IInv'
  <2>1. UNCHANGED <<planVars, exec>>
    BY <1>2 DEF UndoStep, UndoRead, UndoClaim, Compensate, UndoFinish, UndoRollsBack
  <2>2. PlanInv'
    BY <2>1 DEF IInv, PlanInv, Orderly, ReadAlone, Started, planVars
  <2> QED
    BY <1>2, <2>2, UndoKeeps DEF IInv
<1>3. CASE UNCHANGED vars
  BY <1>3 DEF vars, IInv, TypeOK, LogInv, Numbered, Accounted, Real, PlanInv, Orderly, ReadAlone, Started,
              UndoInv, Asks, Balanced, Holds, Unstored
<1> QED
  BY <1>1, <1>2, <1>3, PlanStepsKeep DEF Next

LEMMA Invariant == Spec => []IInv
<1>1. Init => IInv
  BY InitTypes, InitLog, InitPlan, InitUndo DEF IInv
<1> QED
  BY <1>1, StepKeeps, PTL DEF Spec

\* Every row, request and counter keeps its type: a request that executes a plan
\* has a plan that was saved, whatever is edited or refused meanwhile.
THEOREM RehearsalTypeCorrect == Spec => []TypeOK
<1>1. IInv => TypeOK
  BY DEF IInv
<1> QED
  BY <1>1, Invariant, PTL

\* At most one run of a plan stands, whatever is edited, refused or lost on the way:
\* apart from runs begun on a reading that another request's was crossing, the plan
\* runs again only after a run was lost before its mark or a late refusal wrote over
\* the mark (execute_plan's `already_executed`).
THEOREM PlanRunsOnceHolds == Spec => []PlanRunsOnce
<1>1. IInv => PlanRunsOnce
  BY DEF IInv, PlanInv, Orderly, PlanRunsOnce
<1> QED
  BY <1>1, Invariant, PTL

\* No plan is about to be recorded as executed with an effect that is not in the
\* log for good, whichever flushes and commits of its run failed (record_effect,
\* release_transaction and run_inline's commit).
THEOREM ExecutedIsLoggedHolds == Spec => []ExecutedIsLogged
<1>1. IInv => ExecutedIsLogged
  BY DEF IInv, LogInv, Accounted, ExecutedIsLogged
<1> QED
  BY <1>1, Invariant, PTL

\* The inverse of an effect works once, and once more only for each success that
\* was not stored or not learnt, however many undo requests race for the row
\* (undo's claim, its release and its rollback).
THEOREM TakenBackOnceHolds == Spec => []TakenBackOnce
<1>1. IInv => TakenBackOnce
  <2> SUFFICES ASSUME IInv, NEW n \in Entries
               PROVE  taken[n] <= 1 + slips[n] /\ (log[n].undone => taken[n] > 0)
    BY DEF TakenBackOnce
  <2>1. taken[n] \in Nat /\ slips[n] \in Nat
    BY DEF IInv, TypeOK
  <2>2. taken[n] = slips[n] + (IF log[n].undone \/ Unstored(n) THEN 1 ELSE 0)
    BY DEF IInv, UndoInv, Balanced
  <2> QED
    BY <2>1, <2>2
<1> QED
  BY <1>1, Invariant, PTL
==============================================================================
