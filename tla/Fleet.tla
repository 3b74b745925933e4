-------------------------------- MODULE Fleet --------------------------------
(***************************************************************************)
(* One GPU unit between the idle reaper, which stops it when its queue     *)
(* stays empty and starts it when work waits, the gateway, which claims    *)
(* jobs for what its last health check saw, and the administrators, who    *)
(* change the worker's address and enable or disable it.  The reaper's     *)
(* units are independent; time passes between its polls.                   *)
(***************************************************************************)
EXTENDS Naturals

CONSTANTS
    Jobs,
    Urls,         \* addresses a worker may be given
    Home,         \* the address the unit listens on
    Idle          \* IDLE_SECONDS, in poll intervals

ASSUME FleetAssumption == Home \in Urls /\ Idle \in Nat

VARIABLES
    unit,         \* systemd's unit: starting is active, but answers nothing yet
    clock,        \* the idle clock file: its age, capped at Idle, or Idle + 1 for none
    pc,           \* where the reaper's poll is
    freeOnly,     \* --free-only
    quiet,        \* history: intervals since a poll last saw the unit busy or down,
                  \* or Unwatched: the reaper itself was down since
    jobStatus,    \* Job.status; "ended" for COMPLETED and FAILED
    prompts,      \* the jobs whose prompt the unit has
    fresh,        \* history: the jobs sent since the reaper last read its queue
    sentTo,       \* history: the address a job was dispatched to
    url, enabled, \* the worker's row
    online        \* its healthStatus is ONLINE or BUSY

reaperVars == <<pc, clock, quiet, freeOnly, fresh>>
jobVars    == <<jobStatus, prompts, sentTo>>
workerVars == <<url, enabled, online>>
fleetVars  == <<unit, reaperVars, jobVars, workerVars>>

None == Idle + 1
Unwatched == Idle + 1
Waiting == {"QUEUED", "DISPATCHING"}
ActiveStatuses  == {"DISPATCHING", "RUNNING"}

FleetTypeOK ==
    /\ unit \in {"stopped", "failed", "starting", "up"}
    /\ clock \in 0 .. None /\ quiet \in 0 .. Unwatched
    /\ pc \in {"poll", "look", "free", "stop", "sleep"}
    /\ freeOnly \in BOOLEAN /\ enabled \in BOOLEAN /\ online \in BOOLEAN
    /\ jobStatus \in [Jobs -> {"new", "QUEUED", "DISPATCHING", "RUNNING", "ended", "LOST"}]
    /\ prompts \subseteq {j \in Jobs : jobStatus[j] = "RUNNING"} /\ fresh \subseteq Jobs
    /\ sentTo \in [Jobs -> Urls] /\ url \in Urls
    /\ prompts # {} => unit = "up"

FleetInit ==
    /\ unit = "stopped"
    /\ clock = None /\ pc = "poll" /\ freeOnly \in BOOLEAN /\ quiet = 0
    /\ jobStatus = [j \in Jobs |-> "new"] /\ prompts = {} /\ fresh = {}
    /\ sentTo = [j \in Jobs |-> Home]
    /\ url = Home /\ enabled = TRUE /\ online = FALSE

-----------------------------------------------------------------------------
(* comfyui-idle-reaper.sh *)

WorkWaiting == \E j \in Jobs : jobStatus[j] \in Waiting

\* Mutant: only a unit that was stopped in order is started.
StartableIfStopped == unit = "stopped"

Startable == unit \in {"stopped", "failed"}

\* The poll that starts the unit saw it down.
Start ==
    /\ pc = "poll" /\ WorkWaiting /\ Startable
    /\ unit' = "starting" /\ pc' = "look"
    /\ clock' = None /\ quiet' = 0
    /\ UNCHANGED <<freeOnly, fresh, jobVars, workerVars>>

\* The script ended and is run again, perhaps much later: the clock file survives.
RunAgain ==
    /\ pc' = "poll"
    /\ clock' \in {clock, IF clock = None THEN None ELSE Idle}
    /\ quiet' = Unwatched
    /\ UNCHANGED <<unit, freeOnly, fresh, jobVars, workerVars>>

\* set -e ends the script.
StartFails == pc = "poll" /\ WorkWaiting /\ Startable /\ RunAgain

\* Also if work waits: a database that cannot be read has none.
NothingToStart ==
    /\ pc = "poll" /\ pc' = "look"
    /\ UNCHANGED <<unit, clock, quiet, freeOnly, fresh, jobVars, workerVars>>

\* Stopped, busy, or not answering: no idle clock.
NotIdle ==
    /\ pc = "look" /\ pc' = "sleep"
    /\ clock' = None /\ quiet' = 0
    /\ UNCHANGED <<unit, freeOnly, fresh, jobVars, workerVars>>

\* Mutant: a clock that is running is left alone while the unit is down.
LookInactiveKeepsClock ==
    /\ pc = "look" /\ unit \in {"stopped", "failed"}
    /\ pc' = "sleep" /\ quiet' = 0
    /\ UNCHANGED <<unit, clock, freeOnly, fresh, jobVars, workerVars>>

LookInactive == unit \in {"stopped", "failed"} /\ NotIdle

\* Any failure of the request counts as busy.
LookBusy == unit \in {"starting", "up"} /\ NotIdle

\* Mutant: what does not answer has nothing queued.
QueueEmptyOnError == unit \in {"starting", "up"}

QueueEmpty == unit = "up" /\ prompts = {}

LookIdle ==
    /\ pc = "look" /\ QueueEmpty
    /\ clock' = IF clock = None THEN 0 ELSE clock
    /\ pc' = IF clock = Idle THEN "free" ELSE "sleep"
    /\ fresh' = {}
    /\ UNCHANGED <<unit, quiet, freeOnly, jobVars, workerVars>>

Freed ==
    /\ pc = "free"
    /\ IF freeOnly THEN pc' = "sleep" /\ clock' = 0 ELSE pc' = "stop" /\ UNCHANGED clock
    /\ UNCHANGED <<unit, quiet, freeOnly, fresh, jobVars, workerVars>>

FreeFails ==
    /\ pc = "free" /\ pc' = "sleep"
    /\ UNCHANGED <<unit, clock, quiet, freeOnly, fresh, jobVars, workerVars>>

Stop ==
    /\ pc = "stop" /\ pc' = "sleep"
    /\ unit' = "stopped" /\ prompts' = {}
    /\ clock' = None
    /\ UNCHANGED <<quiet, freeOnly, fresh, jobStatus, sentTo, workerVars>>

Sleep ==
    /\ pc = "sleep" /\ pc' = "poll"
    /\ clock' = IF clock < Idle THEN clock + 1 ELSE clock
    /\ quiet' = IF quiet < Idle THEN quiet + 1 ELSE quiet
    /\ UNCHANGED <<unit, freeOnly, fresh, jobVars, workerVars>>

\* Killed, or ended by a systemctl stop that fails.
Restart == pc # "poll" /\ RunAgain

Reaper ==
    \/ Start \/ StartFails \/ NothingToStart \/ LookInactive \/ LookBusy \/ LookIdle
    \/ Freed \/ FreeFails \/ Stop \/ Sleep \/ Restart

-----------------------------------------------------------------------------
(* The unit, in systemd's and ComfyUI's hands. *)

StartedByHand ==
    /\ Startable /\ unit' = "starting"
    /\ UNCHANGED <<prompts, reaperVars, jobStatus, sentTo, workerVars>>

ComesUp ==
    /\ unit = "starting" /\ unit' = "up"
    /\ UNCHANGED <<reaperVars, jobVars, workerVars>>

\* It dies with the prompts it had, or an administrator stops it.
GoesDown ==
    /\ unit \in {"starting", "up"} /\ unit' \in {"failed", "stopped"}
    /\ prompts' = {}
    /\ UNCHANGED <<reaperVars, jobStatus, sentTo, workerVars>>

Ends(j) ==
    /\ j \in prompts /\ prompts' = prompts \ {j}
    /\ UNCHANGED <<unit, reaperVars, jobStatus, sentTo, workerVars>>

-----------------------------------------------------------------------------
(* The gateway. *)

Answers == unit = "up" /\ url = Home

Submit(j) ==
    /\ jobStatus[j] = "new"
    /\ jobStatus' = [jobStatus EXCEPT ![j] = "QUEUED"]
    /\ UNCHANGED <<unit, reaperVars, prompts, sentTo, workerVars>>

HealthChecked ==
    /\ online' = (enabled /\ Answers)
    /\ UNCHANGED <<unit, reaperVars, jobVars, url, enabled>>

Claim(j) ==
    /\ enabled /\ online
    /\ jobStatus[j] = "QUEUED" /\ \A k \in Jobs : jobStatus[k] \notin ActiveStatuses
    /\ jobStatus' = [jobStatus EXCEPT ![j] = "DISPATCHING"]
    /\ sentTo' = [sentTo EXCEPT ![j] = url]
    /\ UNCHANGED <<unit, reaperVars, prompts, workerVars>>

Sent(j) ==
    /\ jobStatus[j] = "DISPATCHING" /\ Answers
    /\ jobStatus' = [jobStatus EXCEPT ![j] = "RUNNING"]
    /\ prompts' = prompts \cup {j}
    /\ fresh' = fresh \cup {j}
    /\ UNCHANGED <<unit, pc, clock, quiet, freeOnly, sentTo, workerVars>>

\* Refused or not answered: never retried.
NotSent(j) ==
    /\ jobStatus[j] = "DISPATCHING" /\ ~Answers
    /\ jobStatus' = [jobStatus EXCEPT ![j] = "LOST"]
    /\ UNCHANGED <<unit, reaperVars, prompts, sentTo, workerVars>>

\* The monitor finds the prompt finished or, once the unit answers again, gone.
Monitored(j) ==
    /\ jobStatus[j] = "RUNNING" /\ j \notin prompts
    /\ jobStatus' = [jobStatus EXCEPT ![j] = "ended"]
    /\ UNCHANGED <<unit, reaperVars, prompts, sentTo, workerVars>>

-----------------------------------------------------------------------------
(* The worker's row: PATCH and DELETE /api/workers/:id, and the manifest. *)

\* Mutant: a job that is being dispatched does not count.
UrlFreeUnlessRunning == \A j \in Jobs : jobStatus[j] # "RUNNING"

UrlFree == \A j \in Jobs : jobStatus[j] \notin ActiveStatuses

ChangeUrl(u) ==
    /\ UrlFree /\ url' = u
    /\ UNCHANGED <<unit, reaperVars, jobVars, enabled, online>>

\* The manifest finds workers by their address, so it never changes one.
SetEnabled(on) ==
    /\ enabled' = on
    /\ online' = (on /\ online)
    /\ UNCHANGED <<unit, reaperVars, jobVars, url>>

GatewayStep ==
    \/ HealthChecked
    \/ \E j \in Jobs : Submit(j) \/ Claim(j) \/ Sent(j) \/ NotSent(j) \/ Monitored(j)

FleetNext ==
    \/ Reaper \/ StartedByHand \/ ComesUp \/ GoesDown \/ GatewayStep
    \/ \E j \in Jobs : Ends(j)
    \/ \E u \in Urls : ChangeUrl(u)
    \/ \E on \in BOOLEAN : SetEnabled(on)

FleetSpec == FleetInit /\ [][FleetNext]_fleetVars

-----------------------------------------------------------------------------
\* comfyui-idle-reaper.sh:114: "never stop what we cannot see".  The reaper
\* never stops a unit under a prompt it had when its queue was last read: only
\* a job dispatched while the reaper frees and stops can be cut off.
StopsNoVisibleWork == [][pc = "stop" /\ unit' # unit /\ pc' = "sleep" => prompts \subseteq fresh]_fleetVars

\* README.md:397: it stops a unit "after --idle-seconds of continuous emptiness":
\* every poll of that time saw it up and empty, through wake-ups, failures and
\* manual stops, except for polls missed while the reaper was down itself.
IdleBeforeStop == [][pc = "stop" /\ unit' # unit /\ pc' = "sleep" => quiet \in {Idle, Unwatched}]_fleetVars

\* Where a job was dispatched is where its worker still is: its monitor, also
\* one resumed after a restart, asks the right machine.
AddressStays == \A j \in Jobs : jobStatus[j] \in ActiveStatuses => sentTo[j] = url

\* comfyui-idle-reaper.sh:14: "Nothing stays stopped while work waits": a queued
\* job is dispatched in the end, however often the unit was stopped or failed,
\* while the worker stays enabled at its address.
WorkIsTaken == \A j \in Jobs :
    jobStatus[j] = "QUEUED" ~> (jobStatus[j] # "QUEUED" \/ ~enabled \/ url # Home)
=============================================================================
