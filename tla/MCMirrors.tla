------------------------------- MODULE MCMirrors -------------------------------
(***************************************************************************)
(* A small instance of Desktop and of RoutineSchedule for TLC; see the     *)
(* .cfg file. In both a row mirrors something outside the database, and    *)
(* requests bring the two in line; they share no variable. One is at work  *)
(* in a behaviour while the other has not begun, so the states are the sum *)
(* of theirs, not the product; every action is a disjunct of its own.      *)
(***************************************************************************)
EXTENDS Desktop, RoutineSchedule, TLC

VARIABLE busy \* which of the two is at work

OfDesktop(A)  == busy = "desktop" /\ A /\ UNCHANGED <<scheduleVars, busy>>
OfSchedule(A) == busy = "schedule" /\ A /\ UNCHANGED <<desktopVars, busy>>

\* While the schedule is at work the mode of the computer is of no matter.
MirrorsInit ==
    /\ DesktopInit /\ ScheduleInit
    /\ busy = "desktop" \/ (busy = "schedule" /\ mode = "docker")

MirrorsNext ==
    \/ \E q \in Requests :
          \/ OfDesktop(Start(q)) \/ OfDesktop(NotConfigured(q)) \/ OfDesktop(Started(q))
          \/ OfDesktop(Failed(q)) \/ OfDesktop(Stop(q)) \/ OfDesktop(Stopped(q))
          \/ OfDesktop(Suspend(q)) \/ OfDesktop(Suspended(q))
          \/ OfDesktop(Resume(q)) \/ OfDesktop(Woken(q))
          \/ OfDesktop(DockerClear(q)) \/ OfDesktop(DockerRun(q)) \/ OfDesktop(DockerStop(q))
          \/ OfDesktop(DockerPause(q)) \/ OfDesktop(DockerUnpause(q))
          \/ OfDesktop(AciCreate(q)) \/ OfDesktop(AciPoll(q)) \/ OfDesktop(AciDelete(q))
          \/ OfDesktop(AciStopGroup(q)) \/ OfDesktop(AciStartGroup(q))
          \/ OfDesktop(K8sClear(q)) \/ OfDesktop(K8sCreate(q)) \/ OfDesktop(K8sPoll(q))
          \/ OfDesktop(K8sDelete(q)) \/ OfDesktop(K8sPark(q))
          \/ OfDesktop(Dies(q))
    \/ \E e \in Firings : OfSchedule(Fire(e)) \/ OfSchedule(ExecEnds(e))
    \/ \E q \in Editors :
          \/ OfSchedule(Edit(q)) \/ OfSchedule(Refresh(q)) \/ OfSchedule(Create(q))
          \/ OfSchedule(Remove(q)) \/ OfSchedule(Drop(q)) \/ OfSchedule(Dropped(q))
          \/ OfSchedule(SyncFails(q))
    \/ OfSchedule(Boot) \/ OfSchedule(Upsert)

MirrorsSpec == MirrorsInit /\ [][MirrorsNext]_<<desktopVars, scheduleVars, busy>>

Symmetry == Permutations(Ids) \cup Permutations(Editors)
===============================================================================
