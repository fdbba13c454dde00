------------------------------ MODULE Delegation ------------------------------
(***************************************************************************)
(* Hand-offs between bots inside one request, and what bounds them.        *)
(*                                                                         *)
(* `delegate_to_bot` is synchronous: the caller's loop waits while the     *)
(* target's run is driven in the same task, so a task is a stack of runs   *)
(* and only the top one works. The stack shares one counter of accepted    *)
(* hand-offs (DelegationChain.spent), a cell in memory. A run that parks   *)
(* leaves a copy of the counter on its row (runs.context_ledger), and the  *)
(* task that resumes it starts from that copy.                             *)
(*                                                                         *)
(* Who is named, with what brief and against which budget is left out: a   *)
(* hand-off the caps allow may still be refused for any of those reasons.  *)
(* Nor do the caps tell the ways apart in which a run can have ended.      *)
(***************************************************************************)
EXTENDS Naturals, Sequences, FiniteSets

CONSTANTS
    Legs,         \* tasks driving runs at once (a slot is reused)
    MaxDepth,     \* DELEGATION_MAX_DEPTH
    MaxTotal,     \* DELEGATION_MAX_TOTAL
    MaxRefusals,  \* DELEGATION_MAX_REFUSALS
    MaxChains,    \* bound: chains, that is, root runs
    MaxRuns,      \* bound: rows of `runs`
    Faults        \* what may go wrong in the instance

AllFaults == {"turn_raises", "leg_dies", "deadline"}

ASSUME DelegationAssumption ==
    /\ MaxDepth \in Nat /\ MaxTotal \in Nat
    /\ MaxChains \in Nat /\ MaxRuns \in Nat
    /\ MaxRefusals \in Nat \ {0}
    /\ Faults \subseteq AllFaults

VARIABLES
    run,      \* the rows of `runs`, in the order they were committed
    leg,      \* the tasks and their stacks
    resumed   \* history: root runs of chains in which a run was resumed

vars == <<run, leg, resumed>>

------------------------------------------------------------------------------
IdleLeg == [frames |-> <<>>, spent |-> 0, late |-> FALSE, first |-> TRUE]

Frame(r) == [run |-> r, refused |-> 0]

Busy(l) == leg[l].frames # <<>>
Height(l) == Len(leg[l].frames)
Top(l)  == leg[l].frames[Height(l)]

\* The top run's loop still takes the model's calls.
Working(l) == Busy(l) /\ Top(l).refused < MaxRefusals

Roots        == {r \in DOMAIN run : run[r].parent = 0}
Children(r)  == {c \in DOMAIN run : run[c].parent = r}
Delegated(r) == {c \in DOMAIN run : run[c].root = r /\ run[c].parent # 0}

\* Run r is driven by task l, or waits in it for a run it has started.
OnStack(l, r) == \E i \in DOMAIN leg[l].frames : leg[l].frames[i].run = r

\* A waiting caller counts refusals in a row, failed hand-offs among them.
Count(frame, ok) == [frame EXCEPT !.refused = IF ok THEN 0 ELSE @ + 1]

\* The top run is over and its caller, if it has one, gets the result.
Return(l, ok) ==
    LET n == Height(l) IN
    leg' = IF n = 1 THEN [leg EXCEPT ![l] = IdleLeg]
           ELSE [leg EXCEPT ![l].frames =
                   [i \in 1 .. n - 1 |-> IF i = n - 1 THEN Count(@[i], ok) ELSE @[i]]]

------------------------------------------------------------------------------
Init ==
    /\ run     = <<>>
    /\ leg     = [l \in Legs |-> IdleLeg]
    /\ resumed = {}

\* _turn: the root of a chain.
StartTurn(l) ==
    LET r == Len(run) + 1 IN
    /\ ~Busy(l) /\ Len(run) < MaxRuns /\ Cardinality(Roots) < MaxChains
    /\ run' = Append(run, [status |-> "running", parent |-> 0, root |-> r,
                           depth |-> 0, used |-> 0, hop |-> 0])
    /\ leg' = [leg EXCEPT ![l] = [IdleLeg EXCEPT !.frames = <<Frame(r)>>]]
    /\ UNCHANGED resumed

\* Mutant: the caps themselves are still allowed.
CappedLate(l) == \/ run[Top(l).run].depth > MaxDepth
                 \/ leg[l].spent > MaxTotal
                 \/ leg[l].late

\* The caps _delegate checks before anything else.
Capped(l) == \/ run[Top(l).run].depth >= MaxDepth
             \/ leg[l].spent >= MaxTotal
             \/ leg[l].late

\* Mutant: the hop is spent on success only, and nothing has succeeded yet.
DelegateUnspent(l) ==
    LET p == run[Top(l).run] IN
    /\ Working(l) /\ ~Capped(l) /\ Len(run) < MaxRuns
    /\ run' = Append(run, [status |-> "running", parent |-> Top(l).run,
                           root |-> p.root, depth |-> p.depth + 1,
                           used |-> leg[l].spent, hop |-> leg[l].spent])
    /\ leg' = [leg EXCEPT ![l].frames = Append(@, Frame(Len(run) + 1))]
    /\ UNCHANGED resumed

\* The hop is spent, the child's row is committed with the count so far, and
\* the child's loop begins. `hop` keeps that first count (history).
Delegate(l) ==
    LET p == run[Top(l).run]
        n == leg[l].spent + 1 IN
    /\ Working(l) /\ ~Capped(l) /\ Len(run) < MaxRuns
    /\ run' = Append(run, [status |-> "running", parent |-> Top(l).run,
                           root |-> p.root, depth |-> p.depth + 1,
                           used |-> n, hop |-> n])
    /\ leg' = [leg EXCEPT ![l].spent = n, ![l].frames = Append(@, Frame(Len(run) + 1))]
    /\ UNCHANGED resumed

\* Mutant: a refusal gives the chain new time and is not counted.
RefuseForgets(l) ==
    /\ Working(l)
    /\ leg' = [leg EXCEPT ![l].late = FALSE]
    /\ UNCHANGED <<run, resumed>>

\* The hop is spent and the hand-off fails before the child has a row.
StartFails(l) ==
    /\ "turn_raises" \in Faults
    /\ Working(l) /\ ~Capped(l)
    /\ leg' = [leg EXCEPT ![l].spent = @ + 1, ![l].frames[Height(l)] = Count(@, FALSE)]
    /\ UNCHANGED <<run, resumed>>

\* Refused, by a cap or for its arguments: an answer, not an error.
Refuse(l) ==
    /\ Working(l)
    /\ leg' = [leg EXCEPT ![l].frames[Height(l)] = Count(@, FALSE)]
    /\ UNCHANGED <<run, resumed>>

\* The top run ends or parks (on an approval or on a person) and its row is
\* stamped with the chain's count. Its caller is told either way. Three
\* refusals in a row end a run, which then cannot park any more.
End(l, s) ==
    /\ Busy(l)
    /\ s = "parked" => Working(l)
    /\ run' = [run EXCEPT ![Top(l).run].status = s, ![Top(l).run].used = leg[l].spent]
    /\ Return(l, TRUE)
    /\ UNCHANGED resumed

\* An exception in a delegated run is a failed hand-off for the caller; nobody
\* writes the row.
ChildRaises(l) ==
    /\ "turn_raises" \in Faults
    /\ Height(l) > 1
    /\ Return(l, FALSE)
    /\ UNCHANGED <<run, resumed>>

\* In the run the task was started for, it fails a first leg and leaves the
\* row of a resumed one alone.
RootRaises(l) ==
    /\ "turn_raises" \in Faults
    /\ Height(l) = 1
    /\ run' = IF leg[l].first THEN [run EXCEPT ![Top(l).run].status = "ended"] ELSE run
    /\ leg' = [leg EXCEPT ![l] = IdleLeg]
    /\ UNCHANGED resumed

\* The process or the client goes away, with the whole stack.
LegDies(l) ==
    /\ "leg_dies" \in Faults
    /\ Busy(l)
    /\ leg' = [leg EXCEPT ![l] = IdleLeg]
    /\ UNCHANGED <<run, resumed>>

\* DELEGATION_MAX_CHAIN_SECONDS are over: no further hop is started.
Deadline(l) ==
    /\ "deadline" \in Faults
    /\ Busy(l) /\ ~leg[l].late
    /\ leg' = [leg EXCEPT ![l].late = TRUE]
    /\ UNCHANGED <<run, resumed>>

\* Mutant: a resumed run gets a fresh allowance.
ResumeFresh(l, r) ==
    /\ ~Busy(l) /\ run[r].status = "parked"
    /\ run' = [run EXCEPT ![r].status = "running"]
    /\ leg' = [leg EXCEPT ![l] = [IdleLeg EXCEPT !.frames = <<Frame(r)>>, !.first = FALSE]]
    /\ resumed' = resumed \cup {run[r].root}

\* Mutant: the claim does not ask whether the run is parked.
ResumeRunning(l, r) ==
    /\ ~Busy(l) /\ run[r].status \in {"parked", "running"}
    /\ run' = [run EXCEPT ![r].status = "running"]
    /\ leg' = [leg EXCEPT ![l] = [IdleLeg EXCEPT !.frames = <<Frame(r)>>,
                                    !.spent = run[r].used, !.first = FALSE]]
    /\ resumed' = resumed \cup {run[r].root}

\* A decision or the Continue button claims a parked run; from_ledger rebuilds
\* its chain from the row, with a new deadline.
Resume(l, r) ==
    /\ ~Busy(l) /\ run[r].status = "parked"
    /\ run' = [run EXCEPT ![r].status = "running"]
    /\ leg' = [leg EXCEPT ![l] = [IdleLeg EXCEPT !.frames = <<Frame(r)>>,
                                    !.spent = run[r].used, !.first = FALSE]]
    /\ resumed' = resumed \cup {run[r].root}

\* cancel_run (a running or a parked row) and the reaper (a running one), which
\* know nothing of chains and stop no task.
WriteOff(r) ==
    /\ run[r].status \in {"running", "parked"}
    /\ run' = [run EXCEPT ![r].status = "ended"]
    /\ UNCHANGED <<leg, resumed>>

------------------------------------------------------------------------------
LegGoesOn(l) ==
    \/ Delegate(l) \/ StartFails(l) \/ Refuse(l) \/ ChildRaises(l) \/ RootRaises(l)
    \/ \E s \in {"ended", "parked"} : End(l, s)

Next ==
    \/ \E l \in Legs : StartTurn(l) \/ LegGoesOn(l) \/ LegDies(l) \/ Deadline(l)
    \/ \E l \in Legs, r \in DOMAIN run : Resume(l, r)
    \/ \E r \in DOMAIN run : WriteOff(r)

Spec == Init /\ [][Next]_vars

\* Model calls time out, so a task that drives a run takes its next step.
FairSpec == Spec /\ \A l \in Legs : WF_vars(LegGoesOn(l))

------------------------------------------------------------------------------
(* Properties                                                              *)

Row == [status : {"running", "parked", "ended"},
        parent : Nat, root : Nat, depth : Nat, used : Nat, hop : Nat]

LegSlot == [frames : Seq([run : Nat \ {0}, refused : 0 .. MaxRefusals]),
            spent : Nat, late : BOOLEAN, first : BOOLEAN]

\* Every variable has its type; rows name earlier rows and frames name rows.
TypeOK ==
    /\ run \in Seq(Row)
    /\ \A r \in DOMAIN run : run[r].parent < r /\ run[r].root \in 1 .. r
    /\ leg \in [Legs -> LegSlot]
    /\ \A l \in Legs : \A i \in DOMAIN leg[l].frames : leg[l].frames[i].run \in DOMAIN run
    /\ resumed \subseteq Nat

\* "How far the work can get from the person who asked for it": no run is more
\* than DELEGATION_MAX_DEPTH hand-offs away, through any parking and resuming
\* on the way down.
DepthBounded == \A r \in DOMAIN run : run[r].depth <= MaxDepth

\* "A resumed run must not get a fresh allowance" (from_ledger): what a run's
\* hand-offs are checked against, the cell or the row it is rebuilt from, counts
\* every hand-off the run made before, over all its legs, and those its chain had
\* spent when it began.
AllowanceSurvivesParking ==
    \A r \in DOMAIN run :
        LET made == run[r].hop + Cardinality(Children(r)) IN
        /\ \A l \in Legs : OnStack(l, r) => made <= leg[l].spent
        /\ run[r].status = "parked" => made <= run[r].used
        /\ made <= MaxTotal

\* While nobody has resumed one of its runs, all hand-offs of a chain, however
\* they fan out and whichever failed, draw on the one cell of its task, and
\* there are at most DELEGATION_MAX_TOTAL of them.
TotalUnlessResumed ==
    \A r \in Roots \ resumed :
        LET made == Cardinality(Delegated(r)) IN
        /\ \A l \in Legs : OnStack(l, r) => made <= leg[l].spent
        /\ made <= MaxTotal

\* A run is driven, or waits for a run it started, in one task and one place.
OneStack ==
    \A l, m \in Legs : \A i \in DOMAIN leg[l].frames, j \in DOMAIN leg[m].frames :
        leg[l].frames[i].run = leg[m].frames[j].run => l = m /\ i = j

\* test_a_runaway_chain_terminates_and_says_why (test_delegation.py): whatever
\* the models ask for, the caps on hand-offs and on refusals end every task.
ChainEnds == \A l \in Legs : Busy(l) ~> ~Busy(l)

=============================================================================
