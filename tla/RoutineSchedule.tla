---------------------------- MODULE RoutineSchedule ----------------------------
(***************************************************************************)
(* A routine's row and the Temporal schedule that mirrors it. An edit      *)
(* commits the row and then brings the schedule in line from the copy it   *)
(* refreshed; the worker does the same for every enabled routine when it   *)
(* boots. Neither looks at the row again, and both are best-effort. The    *)
(* sweep of orphans is off, as it is by default.                           *)
(*                                                                         *)
(* What the schedule starts is an execution of RoutineRun, here only       *)
(* running or ended.                                                       *)
(***************************************************************************)
EXTENDS Naturals

CONSTANTS
    Firings,       \* executions the schedule may start
    Editors,       \* edits and deletions of the routine in flight
    MaxEdits,      \* bound: edits and deletions
    MaxBoots,      \* bound: boots of the worker
    MaxSyncFaults, \* bound: faults in a behaviour
    Nothing

ASSUME ScheduleAssumption ==
    /\ MaxEdits \in Nat /\ MaxBoots \in Nat /\ MaxSyncFaults \in Nat
    /\ Nothing \notin Firings
    /\ Nothing \notin [version : Nat, enabled : BOOLEAN]
    /\ Nothing \notin [version : Nat, last : Firings \cup {Nothing}]

VARIABLES
    routine,    \* routines: its version and whether it is enabled, or Nothing
    schedule,   \* Temporal: what it starts and what it started last, or Nothing
    fired,      \* executions: free, running or ended, and the version they run
    sync,       \* requests that edit the row and its schedule
    boot,       \* the worker's reconciliation
    edits,      \* history: edits so far
    boots,      \* history: boots so far
    syncFaults, \* history: faults so far
    strayed,    \* history: a sync failed or crossed another since the last lone repair
    since,      \* history: the row's version when row and schedule last rested in line
    forgot      \* history: a schedule was removed while what it had started ran

scheduleVars == <<routine, schedule, fired, sync, boot, edits, boots, syncFaults, strayed,
                  since, forgot>>
bounds == <<edits, boots, syncFaults>>

NoSync == [pc |-> "idle", copy |-> Nothing]
Running(e) == e # Nothing /\ fired[e].pc = "running"
AtRest == boot.pc = "idle" /\ \A q \in Editors : sync[q].pc = "idle"
Mirror(copy, last) == [version |-> copy.version, last |-> last]

\* What begins when all is at rest and in line is the last to know it.
NotesWhenInLine ==
    since' = IF AtRest /\ ~strayed /\ routine # Nothing THEN routine.version ELSE since

ScheduleInit ==
    /\ routine    = [version |-> 1, enabled |-> TRUE]
    /\ schedule   = Mirror(routine, Nothing)
    /\ fired      = [e \in Firings |-> [pc |-> "free", version |-> 1]]
    /\ sync       = [q \in Editors |-> NoSync]
    /\ boot       = NoSync
    /\ edits      = 0
    /\ boots      = 0
    /\ syncFaults = 0
    /\ strayed    = FALSE
    /\ since      = 1
    /\ forgot     = FALSE

------------------------------------------------------------------------------
(* Firing: Temporal's side of ScheduleOverlapPolicy.SKIP                   *)

Fire(e) ==
    /\ schedule # Nothing /\ ~Running(schedule.last) /\ fired[e].pc = "free"
    /\ fired' = [fired EXCEPT ![e] = [pc |-> "running", version |-> schedule.version]]
    /\ schedule' = [schedule EXCEPT !.last = e]
    /\ UNCHANGED <<routine, sync, boot, bounds, strayed, since, forgot>>

ExecEnds(e) ==
    /\ fired[e].pc = "running"
    /\ fired' = [fired EXCEPT ![e].pc = "ended"]
    /\ UNCHANGED <<routine, schedule, sync, boot, bounds, strayed, since, forgot>>

------------------------------------------------------------------------------
(* Editing: update_routine, delete_routine, sync_routine_schedule          *)

\* A request takes up the routine.
TakesUp(q, what) ==
    /\ routine # Nothing /\ sync[q].pc = "idle" /\ edits < MaxEdits
    /\ sync' = [sync EXCEPT ![q].pc = what]
    /\ edits' = edits + 1
    /\ NotesWhenInLine

\* New steps, and perhaps the switch; committed before the schedule is touched.
Edit(q) ==
    /\ TakesUp(q, "refresh")
    /\ \E on \in BOOLEAN : routine' = [version |-> routine.version + 1, enabled |-> on]
    /\ strayed' = ~AtRest
    /\ UNCHANGED <<schedule, fired, boot, boots, syncFaults, forgot>>

\* The row may have been edited again by now, or be gone: then the refresh raises.
Refresh(q) ==
    /\ sync[q].pc = "refresh"
    /\ sync' = [sync EXCEPT ![q] =
          IF routine = Nothing THEN NoSync
          ELSE [pc |-> IF routine.enabled THEN "create" ELSE "remove", copy |-> routine]]
    /\ UNCHANGED <<routine, schedule, fired, boot, bounds, strayed, since, forgot>>

\* The first create finds the old schedule, if there is one; the second, after the
\* deletion, finds one only if somebody else made it in between.
Create(q) ==
    /\ sync[q].pc \in {"create", "recreate"}
    /\ schedule' = IF schedule = Nothing THEN Mirror(sync[q].copy, Nothing) ELSE schedule
    /\ sync' = [sync EXCEPT ![q] = IF schedule # Nothing /\ @.pc = "create"
                                   THEN [@ EXCEPT !.pc = "replace"] ELSE NoSync]
    /\ UNCHANGED <<routine, fired, boot, bounds, strayed, since, forgot>>

\* delete() of the handle, to replace the schedule or to be rid of it.
Remove(q) ==
    /\ sync[q].pc \in {"replace", "remove"}
    /\ schedule' = Nothing
    /\ forgot' = (forgot \/ (schedule # Nothing /\ Running(schedule.last)))
    /\ sync' = [sync EXCEPT ![q] = IF @.pc = "replace" THEN [@ EXCEPT !.pc = "recreate"]
                                   ELSE NoSync]
    /\ UNCHANGED <<routine, fired, boot, bounds, strayed, since>>

\* delete_routine: the schedule first, then the row; a deletion that Temporal refuses
\* is swallowed, and the schedule outlives its routine.
Drop(q) ==
    /\ TakesUp(q, "drop")
    /\ \/ /\ schedule' = Nothing
          /\ forgot' = (forgot \/ (schedule # Nothing /\ Running(schedule.last)))
          /\ strayed' = ~AtRest
          /\ UNCHANGED syncFaults
       \/ /\ syncFaults < MaxSyncFaults
          /\ syncFaults' = syncFaults + 1
          /\ strayed' = TRUE
          /\ UNCHANGED <<schedule, forgot>>
    /\ UNCHANGED <<routine, fired, boot, boots>>

Dropped(q) ==
    /\ sync[q].pc = "drop"
    /\ routine' = Nothing
    /\ sync' = [sync EXCEPT ![q] = NoSync]
    /\ UNCHANGED <<schedule, fired, boot, bounds, strayed, since, forgot>>

\* Temporal is down, or the request dies; the row stays as it was committed.
SyncFails(q) ==
    /\ sync[q].pc # "idle" /\ syncFaults < MaxSyncFaults
    /\ sync' = [sync EXCEPT ![q] = NoSync]
    /\ syncFaults' = syncFaults + 1
    /\ strayed' = TRUE
    /\ UNCHANGED <<routine, schedule, fired, boot, edits, boots, since, forgot>>

------------------------------------------------------------------------------
(* The worker's boot: _reconcile_once and reconcile_schedules              *)

Enabled == routine # Nothing /\ routine.enabled

\* A boot on its own brings an enabled routine back in line; in company it may not.
Strays == ~AtRest \/ (strayed /\ ~Enabled)

\* Mutant: the reconciliation takes disabled routines along.
BootTakesAll ==
    /\ boot.pc = "idle" /\ boots < MaxBoots
    /\ boot' = IF routine = Nothing THEN NoSync ELSE [pc |-> "upsert", copy |-> routine]
    /\ boots' = boots + 1
    /\ strayed' = Strays
    /\ NotesWhenInLine
    /\ UNCHANGED <<routine, schedule, fired, sync, edits, syncFaults, forgot>>

\* The list is fetched once; only enabled routines with a cron are upserted.
Boot ==
    /\ boot.pc = "idle" /\ boots < MaxBoots
    /\ boot' = IF Enabled THEN [pc |-> "upsert", copy |-> routine] ELSE NoSync
    /\ boots' = boots + 1
    /\ strayed' = Strays
    /\ NotesWhenInLine
    /\ UNCHANGED <<routine, schedule, fired, sync, edits, syncFaults, forgot>>

\* Mutant: the boot, like an edit, makes the schedule anew.
UpsertAnew ==
    /\ boot.pc = "upsert"
    /\ schedule' = Mirror(boot.copy, Nothing)
    /\ boot' = NoSync
    /\ UNCHANGED <<routine, fired, sync, bounds, strayed, since, forgot>>

\* Create, or update in place: a running execution still counts for SKIP. An
\* upsert that fails, or a budget that runs out, leaves the schedule as it is.
Upsert ==
    /\ boot.pc = "upsert"
    /\ \/ /\ schedule' = Mirror(boot.copy, IF schedule = Nothing THEN Nothing ELSE schedule.last)
          /\ UNCHANGED <<syncFaults, strayed>>
       \/ /\ syncFaults < MaxSyncFaults
          /\ syncFaults' = syncFaults + 1
          /\ strayed' = TRUE
          /\ UNCHANGED schedule
    /\ boot' = NoSync
    /\ UNCHANGED <<routine, fired, sync, edits, boots, since, forgot>>

------------------------------------------------------------------------------
ScheduleNext ==
    \/ \E e \in Firings : Fire(e) \/ ExecEnds(e)
    \/ \E q \in Editors : \/ Edit(q) \/ Refresh(q) \/ Create(q) \/ Remove(q)
                           \/ Drop(q) \/ Dropped(q) \/ SyncFails(q)
    \/ Boot \/ Upsert

ScheduleSpec == ScheduleInit /\ [][ScheduleNext]_scheduleVars

------------------------------------------------------------------------------
\* Once everything in flight has come to rest, the schedule starts the row's own
\* version, and there is none for a routine that is disabled or deleted: unless a sync
\* failed or two of them crossed, and then the next edit that is alone, or the next boot
\* if the routine is enabled, makes it true again. However they cross and fail, a boot
\* with the row it fetched early or an edit overtaken by another, the schedule never
\* falls back behind what it started when it was last in line with the row.
ScheduleFollowsRow ==
    /\ AtRest /\ ~strayed =>
          IF Enabled THEN schedule # Nothing /\ schedule.version = routine.version
          ELSE schedule = Nothing
    /\ schedule # Nothing => schedule.version >= since

\* Two executions the schedule started run at once only after an edit removed or
\* replaced the schedule while the first was running: the worker's boot, which
\* updates in place, never makes them overlap.
OverlapNeedsReplacement ==
    (\E e, f \in Firings : e # f /\ Running(e) /\ Running(f)) => forgot
===============================================================================
