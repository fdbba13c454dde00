-------------------------------- MODULE Desktop --------------------------------
(***************************************************************************)
(* One bot's desktop: its row, the computer behind it, and the requests    *)
(* that start, stop, suspend and resume it. Each request reads the row,    *)
(* commits what it is about to do (start and stop do, suspend and resume   *)
(* do not), lets a driver work for as long as it takes with no transaction *)
(* open, and writes the columns it changed over whatever the row holds by  *)
(* then. Nothing keeps two of them apart.                                  *)
(*                                                                         *)
(* A bot has one computer at a time, because drivers name it after the     *)
(* bot: docker hands out a fresh id for the name and pauses in place, aci  *)
(* stops and starts a group in place, k8s deletes and creates the pod.     *)
(***************************************************************************)
EXTENDS Naturals, FiniteSets

CONSTANTS
    Modes,     \* drivers to check, of AllModes
    Requests,  \* requests in flight at a time
    Ids,       \* container ids docker hands out
    ByName,    \* the handle of a group or a pod: its name
    MaxCalls,  \* bound: calls in a behaviour
    MaxFaults, \* bound: failures of a driver and deaths of a request
    None

AllModes == {"docker", "aci", "k8s"}

ASSUME DesktopAssumption ==
    /\ Modes \subseteq AllModes
    /\ ByName \notin Ids /\ None \notin Ids \cup {ByName}
    /\ None \notin [id : Ids \cup {ByName}, up : BOOLEAN]
    /\ MaxCalls \in Nat /\ MaxFaults \in Nat

VARIABLES
    mode,     \* bot_desktop_mode
    row,      \* bot_desktops
    box,      \* the computer: its id and whether it runs, or None
    call,     \* requests in flight
    used,     \* history: container ids handed out
    calls,    \* history: calls so far
    faults,   \* history: faults so far
    muddled   \* history: a call met another or a fault since the last lone start

desktopVars == <<mode, row, box, call, used, calls, faults, muddled>>

------------------------------------------------------------------------------
States == {"absent", "starting", "running", "stopping", "suspended", "error"}
Absent == [state |-> "absent", handle |-> None, url |-> FALSE]
NoCall == [pc |-> "idle", copy |-> Absent, info |-> None]

Quiet == \A q \in Requests : call[q].pc = "idle"

\* A flush writes the columns that differ from what the session has read.
Written(q, new) == [c \in DOMAIN row |-> IF new[c] # call[q].copy[c] THEN new[c] ELSE row[c]]

Ends(q)  == call' = [call EXCEPT ![q] = NoCall]
MovesTo(q, where) == call' = [call EXCEPT ![q].pc = where]
DesktopInit ==
    /\ mode    \in Modes
    /\ row     = Absent
    /\ box     = None
    /\ call    = [q \in Requests |-> NoCall]
    /\ used    = {}
    /\ calls   = 0
    /\ faults  = 0
    /\ muddled = FALSE

\* A request is taken up, and reads the row.
Takes(q, where, copy) ==
    /\ call[q].pc = "idle" /\ calls < MaxCalls
    /\ call' = [call EXCEPT ![q] = [pc |-> where, copy |-> copy, info |-> None]]
    /\ calls' = calls + 1

------------------------------------------------------------------------------
(* start                                                                   *)

\* A running desktop is left alone.
Start(q) ==
    /\ row.state # "running"
    /\ row' = [row EXCEPT !.state = "starting"]
    /\ Takes(q, IF mode = "aci" THEN "make" ELSE "clear", row')
    /\ muddled' = ~Quiet
    /\ UNCHANGED <<mode, box, used, faults>>

\* The driver gives up, and leaves what it may have made.
GivesUp(q, leftover) ==
    /\ faults < MaxFaults
    /\ faults' = faults + 1
    /\ muddled' = TRUE
    /\ call' = [call EXCEPT ![q].pc = "failed", ![q].info = leftover]

\* aci and k8s refuse before they touch anything when they are not configured.
NotConfigured(q) ==
    /\ <<mode, call[q].pc>> \in {<<"aci", "make">>, <<"k8s", "clear">>}
    /\ GivesUp(q, None)
    /\ UNCHANGED <<mode, row, box, used, calls>>

\* What has the bot's name is removed first. That it could not be, or is not yet gone,
\* is not noticed here.
Removes(q, next) ==
    /\ \/ box' = None /\ UNCHANGED <<faults, muddled>>
       \/ /\ box # None /\ faults < MaxFaults
          /\ faults' = faults + 1
          /\ muddled' = TRUE
          /\ UNCHANGED box
    /\ MovesTo(q, next)
    /\ UNCHANGED <<mode, row, used, calls>>

DockerClear(q) == mode = "docker" /\ call[q].pc = "clear" /\ Removes(q, "make")
K8sClear(q)    == mode = "k8s" /\ call[q].pc = "clear" /\ Removes(q, "make")

\* run creates a container and starts it: it may fail before, between, or because the
\* name is taken.
DockerRun(q) ==
    /\ mode = "docker" /\ call[q].pc = "make"
    /\ IF box # None
       THEN MovesTo(q, "failed") /\ UNCHANGED <<box, used, faults, muddled>>
       ELSE \E id \in Ids \ used :
               /\ used' = used \cup {id}
               /\ \/ /\ box' = [id |-> id, up |-> TRUE]
                     /\ call' = [call EXCEPT ![q].pc = "made", ![q].info = id]
                     /\ UNCHANGED <<faults, muddled>>
                  \/ box' = [id |-> id, up |-> FALSE] /\ GivesUp(q, None)
    /\ UNCHANGED <<mode, row, calls>>

\* The group is created, or updated in place and started; while it is in transition ARM
\* is asked again, up to a budget.
AciCreate(q) ==
    /\ mode = "aci" /\ call[q].pc = "make"
    /\ \/ /\ box' = [id |-> ByName, up |-> TRUE]
          /\ MovesTo(q, "wait")
          /\ UNCHANGED <<faults, muddled>>
       \/ GivesUp(q, None) /\ UNCHANGED box
    /\ UNCHANGED <<mode, row, used, calls>>

\* The pod, and then its service; a name not free yet is an error.
K8sCreate(q) ==
    /\ mode = "k8s" /\ call[q].pc = "make"
    /\ IF box # None
       THEN MovesTo(q, "failed") /\ UNCHANGED <<box, faults, muddled>>
       ELSE /\ box' = [id |-> ByName, up |-> TRUE]
            /\ \/ MovesTo(q, "wait") /\ UNCHANGED <<faults, muddled>>
               \/ GivesUp(q, None)
    /\ UNCHANGED <<mode, row, used, calls>>

\* The name is polled until it serves. When the budget is spent the computer is left in
\* place, and the failure carries its name.
Polls(q) ==
    /\ call[q].pc = "wait"
    /\ \/ /\ box # None /\ box.up
          /\ call' = [call EXCEPT ![q].pc = "made", ![q].info = ByName]
          /\ UNCHANGED <<faults, muddled>>
       \/ GivesUp(q, ByName)
    /\ UNCHANGED <<mode, row, box, used, calls>>

AciPoll(q) == mode = "aci" /\ Polls(q)
K8sPoll(q) == mode = "k8s" /\ Polls(q)

Started(q) ==
    /\ call[q].pc = "made"
    /\ row' = Written(q, [state |-> "running", handle |-> call[q].info, url |-> TRUE])
    /\ Ends(q)
    /\ UNCHANGED <<mode, box, used, calls, faults, muddled>>

\* start records what was left behind, resume does not.
Failed(q) == LET copy == call[q].copy IN
    /\ call[q].pc = "failed"
    /\ row' = Written(q, [copy EXCEPT !.state = "error",
            !.handle = IF copy.state = "starting" /\ call[q].info # None THEN call[q].info ELSE @])
    /\ Ends(q)
    /\ UNCHANGED <<mode, box, used, calls, faults, muddled>>

------------------------------------------------------------------------------
(* stop                                                                    *)

\* Mutant: the handle is taken off the row before it is used.
StopClearsFirst(q) ==
    /\ row' = [row EXCEPT !.state = "stopping", !.handle = None]
    /\ Takes(q, "stop", row')
    /\ muddled' = (muddled \/ ~Quiet)
    /\ UNCHANGED <<mode, box, used, faults>>

Stop(q) ==
    /\ row' = [row EXCEPT !.state = "stopping"]
    /\ Takes(q, "stop", row')
    /\ muddled' = (muddled \/ ~Quiet)
    /\ UNCHANGED <<mode, box, used, faults>>

\* Whether the driver, asked for the handle a request has read, finds the computer.
Finds(q) == LET h == call[q].copy.handle IN
    /\ h # None /\ box # None
    /\ mode = "docker" => box.id = h

\* A teardown that fails says so in the log only.
TearsDown(q, next) ==
    /\ \/ /\ box' = IF Finds(q) THEN None ELSE box
          /\ UNCHANGED <<faults, muddled>>
       \/ /\ Finds(q) /\ faults < MaxFaults
          /\ faults' = faults + 1
          /\ muddled' = TRUE
          /\ UNCHANGED box
    /\ MovesTo(q, next)
    /\ UNCHANGED <<mode, row, used, calls>>

DockerStop(q) == mode = "docker" /\ call[q].pc = "stop" /\ TearsDown(q, "stopped")
AciDelete(q)  == mode = "aci" /\ call[q].pc = "stop" /\ TearsDown(q, "stopped")
K8sDelete(q)  == mode = "k8s" /\ call[q].pc = "stop" /\ TearsDown(q, "stopped")

Stopped(q) ==
    /\ call[q].pc = "stopped"
    /\ row' = Written(q, Absent)
    /\ Ends(q)
    /\ UNCHANGED <<mode, box, used, calls, faults, muddled>>

------------------------------------------------------------------------------
(* suspend and resume                                                      *)

Suspend(q) ==
    /\ Takes(q, "suspend", row)
    /\ muddled' = (muddled \/ ~Quiet)
    /\ UNCHANGED <<mode, row, box, used, faults>>

\* docker freezes the processes; that it could not is swallowed.
DockerPause(q) ==
    /\ mode = "docker" /\ call[q].pc = "suspend"
    /\ \/ /\ box' = IF Finds(q) THEN [box EXCEPT !.up = FALSE] ELSE box
          /\ UNCHANGED <<faults, muddled>>
       \/ /\ Finds(q) /\ faults < MaxFaults
          /\ faults' = faults + 1
          /\ muddled' = TRUE
          /\ UNCHANGED box
    /\ MovesTo(q, "parked")
    /\ UNCHANGED <<mode, row, used, calls>>

\* aci deallocates the group; that it could not, or found none, is an error of the row.
AciStopGroup(q) ==
    /\ mode = "aci" /\ call[q].pc = "suspend"
    /\ \/ /\ call[q].copy.handle = None \/ box # None
          /\ box' = IF Finds(q) THEN [box EXCEPT !.up = FALSE] ELSE box
          /\ MovesTo(q, "parked")
          /\ UNCHANGED <<faults, muddled>>
       \/ /\ call[q].copy.handle # None /\ box = None
          /\ MovesTo(q, "failed")
          /\ UNCHANGED <<box, faults, muddled>>
       \/ Finds(q) /\ GivesUp(q, None) /\ UNCHANGED box
    /\ UNCHANGED <<mode, row, used, calls>>

\* That the client could not be had is an error of the row as well.
K8sPark(q) ==
    /\ mode = "k8s" /\ call[q].pc = "suspend"
    /\ \/ TearsDown(q, "parked")
       \/ /\ call[q].copy.handle # None
          /\ GivesUp(q, None)
          /\ UNCHANGED <<mode, row, box, used, calls>>

\* The addresses die with the compute, except docker's.
Suspended(q) == LET copy == call[q].copy IN
    /\ call[q].pc = "parked"
    /\ row' = Written(q, [copy EXCEPT !.state = "suspended",
                                      !.url = @ /\ (mode = "docker" \/ copy.handle = None)])
    /\ Ends(q)
    /\ UNCHANGED <<mode, box, used, calls, faults, muddled>>

\* Only a suspended desktop is resumed; one that has no handle has nothing to wake, and
\* the pod of k8s is made again.
Resume(q) ==
    /\ row.state = "suspended"
    /\ Takes(q, IF row.handle = None THEN "woken"
                ELSE IF mode = "k8s" THEN "clear" ELSE "resume", row)
    /\ muddled' = (muddled \/ ~Quiet)
    /\ UNCHANGED <<mode, row, box, used, faults>>

\* Mutant: docker's unpause is left out, as suspending were only a mark on the row.
ResumeOnlyMarks(q) ==
    /\ mode = "docker" /\ call[q].pc = "resume"
    /\ MovesTo(q, IF Finds(q) THEN "woken" ELSE "failed")
    /\ UNCHANGED <<mode, row, box, used, calls, faults, muddled>>

\* The driver starts what is there, does not find it, or fails.
Wakes(q, next) ==
    /\ call[q].pc = "resume"
    /\ \/ /\ Finds(q)
          /\ box' = [box EXCEPT !.up = TRUE]
          /\ MovesTo(q, next)
          /\ UNCHANGED <<faults, muddled>>
       \/ ~Finds(q) /\ MovesTo(q, "failed") /\ UNCHANGED <<box, faults, muddled>>
       \/ Finds(q) /\ GivesUp(q, None) /\ UNCHANGED box
    /\ UNCHANGED <<mode, row, used, calls>>

DockerUnpause(q) == mode = "docker" /\ Wakes(q, "woken")

\* A cold boot of the stored group, which then has to serve.
AciStartGroup(q) == mode = "aci" /\ Wakes(q, "wait")

\* docker's row keeps its handle and addresses.
Woken(q) ==
    /\ call[q].pc = "woken"
    /\ row' = Written(q, [call[q].copy EXCEPT !.state = "running"])
    /\ Ends(q)
    /\ UNCHANGED <<mode, box, used, calls, faults, muddled>>

------------------------------------------------------------------------------
\* The request dies, or the process does; its driver call may or may not be done.
Dies(q) ==
    /\ call[q].pc # "idle" /\ faults < MaxFaults
    /\ Ends(q)
    /\ faults' = faults + 1
    /\ muddled' = TRUE
    /\ UNCHANGED <<mode, row, box, used, calls>>

DesktopNext ==
    \E q \in Requests :
        \/ Start(q) \/ NotConfigured(q) \/ Started(q) \/ Failed(q)
        \/ Stop(q) \/ Stopped(q) \/ Suspend(q) \/ Suspended(q) \/ Resume(q) \/ Woken(q)
        \/ DockerClear(q) \/ DockerRun(q) \/ DockerStop(q) \/ DockerPause(q) \/ DockerUnpause(q)
        \/ AciCreate(q) \/ AciPoll(q) \/ AciDelete(q) \/ AciStopGroup(q) \/ AciStartGroup(q)
        \/ K8sClear(q) \/ K8sCreate(q) \/ K8sPoll(q) \/ K8sDelete(q) \/ K8sPark(q)
        \/ Dies(q)

DesktopSpec == DesktopInit /\ [][DesktopNext]_desktopVars

------------------------------------------------------------------------------
Settled == Quiet /\ ~muddled

\* A row that says running, with a handle, names a computer that runs: unless calls
\* met, one died or a driver failed, and then the next start that works alone makes
\* it true again.
RunningIsServed ==
    (Settled /\ row.state = "running" /\ row.handle # None) =>
        box = [id |-> row.handle, up |-> TRUE] /\ row.url

\* Under the same proviso nothing is left behind: no computer belongs to a row that
\* is absent, and none runs behind a row that is suspended.
NothingLeftBehind ==
    Settled => /\ row.state = "absent" => box = None
               /\ row.state = "suspended" => (box # None => ~box.up)
===============================================================================
