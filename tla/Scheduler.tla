------------------------------ MODULE Scheduler ------------------------------
(***************************************************************************)
(* The gateway's job scheduler (apps/gateway/src/scheduler.ts) with the    *)
(* handlers that feed it (submission, cancellation, revocation), the       *)
(* SQLite lease that elects one scheduling process, and as much of a       *)
(* ComfyUI worker as the scheduler can observe.                            *)
(*                                                                         *)
(* Every database transaction is BEGIN IMMEDIATE and synchronous, so it is *)
(* one step.  An await ends a step: between two steps of one dispatch or   *)
(* one monitor, everything else may move.                                  *)
(*                                                                         *)
(* An owner is one boot of the gateway process (Scheduler.owner is a fresh *)
(* UUID per process): restarting the gateway is another owner booting.     *)
(***************************************************************************)
EXTENDS Naturals, FiniteSets

CONSTANTS
    MaxJobs,      \* bound: how many jobs are ever submitted
    Users, Workers,
    Restless,     \* bound: the users who ever cancel a job or lose membership
    Owners,       \* bound: how many times a gateway process is started
    UserOf,       \* UserOf[j]: job j's userId
    Fits,         \* Fits[j]: the workers whose tags include j's requiredTags
    Capacity,     \* Capacity[w]: maxConcurrentJobs of worker w
    MaxActive,    \* MAX_ACTIVE_JOBS_PER_USER
    MaxQueued,    \* MAX_QUEUED_JOBS_PER_USER
    LeaseMayLapse, \* may the lease expire while its holder is running?
    MaxThrows,    \* bound: how often the renewal transaction throws
    None          \* null: no worker, no lease owner

Jobs == 1..MaxJobs   \* numbered by submittedAt

ASSUME BoundsAssumption ==
    /\ MaxJobs \in Nat /\ MaxActive \in Nat /\ MaxQueued \in Nat
    /\ MaxThrows \in Nat /\ LeaseMayLapse \in BOOLEAN
ASSUME PlatformAssumption ==
    /\ IsFiniteSet(Workers) /\ None \notin Workers /\ None \notin Owners
    /\ UserOf \in [Jobs -> Users] /\ Restless \subseteq Users
    /\ Fits \in [Jobs -> SUBSET Workers]
    /\ Capacity \in [Workers -> Nat]

VARIABLES
    status,          \* jobs.status; "NEW" before submission
    worker,          \* jobs.workerId
    startedAt,       \* jobs.startedAt as a rank, 0 for null
    leaseOwner,      \* jobs.leaseOwner
    cancelRequested, \* the jobs whose cancelRequested is true
    overdue,         \* the jobs that have outlived JOB_TIMEOUT_SECONDS
    member,          \* the users for whom activeMembership holds
    usable,          \* workers enabled, ONLINE or BUSY, and not externalBusy
    lease,           \* owner of the unexpired "scheduler" lease, or None
    proc,            \* each owner's process: off, up, stopping, dead
    leader,          \* the owners whose in-memory leader flag is true
    phase,           \* where each owner's tick is
    task,            \* task[g][j]: where owner g's dispatch or monitor of j is
    throws,          \* how often a renewal has thrown
    prompt,          \* the prompt as its worker has it
    sends            \* how often POST /prompt was issued for a job

record  == <<worker, startedAt, leaseOwner>>
process == <<lease, proc, leader, phase, throws>>
upstream == <<prompt, sends>>
flags   == <<cancelRequested, overdue, member, usable>>
vars == <<status, record, flags, process, task, upstream>>

Active   == {"DISPATCHING", "RUNNING"}
Terminal == {"COMPLETED", "FAILED", "CANCELLED", "LOST"}
Statuses == {"NEW", "QUEUED"} \cup Active \cup Terminal
Dispatching == {"staging", "connecting", "posting"}
Polling  == {"watch", "kill", "late"}
TaskSteps == {"none", "monitor"} \cup Dispatching \cup Polling
InTransaction == {"sweep", "adopt", "claim"}
PromptStates == {"none", "sent", "rejected", "live", "success", "error", "vanished"}

TypeOK ==
    /\ status \in [Jobs -> Statuses]
    /\ worker \in [Jobs -> Workers \cup {None}]
    /\ startedAt \in [Jobs -> 0..MaxJobs]
    /\ leaseOwner \in [Jobs -> Owners \cup {None}]
    /\ cancelRequested \subseteq Jobs /\ overdue \subseteq Jobs
    /\ member \subseteq Users /\ usable \subseteq Workers
    /\ lease \in Owners \cup {None}
    /\ proc \in [Owners -> {"off", "up", "stopping", "dead"}]
    /\ leader \subseteq Owners
    /\ phase \in [Owners -> {"idle", "health"} \cup InTransaction]
    /\ throws \in 0..MaxThrows
    /\ task \in [Owners -> [Jobs -> TaskSteps]]
    /\ prompt \in [Jobs -> PromptStates]
    /\ sends \in [Jobs -> Nat]

Init ==
    /\ status = [j \in Jobs |-> "NEW"]
    /\ worker = [j \in Jobs |-> None]
    /\ startedAt = [j \in Jobs |-> 0]
    /\ leaseOwner = [j \in Jobs |-> None]
    /\ cancelRequested = {} /\ overdue = {}
    /\ member = Users /\ usable = {}
    /\ lease = None
    /\ proc = [g \in Owners |-> "off"]
    /\ leader = {}
    /\ phase = [g \in Owners |-> "idle"]
    /\ throws = 0
    /\ task = [g \in Owners |-> [j \in Jobs |-> "none"]]
    /\ prompt = [j \in Jobs |-> "none"]
    /\ sends = [j \in Jobs |-> 0]

-----------------------------------------------------------------------------
(* What the handlers and the scheduler look up. *)

ActiveJobs == {j \in Jobs : status[j] \in Active}
ActiveOf(u) == {j \in ActiveJobs : UserOf[j] = u}
ActiveOn(w) == {j \in ActiveJobs : worker[j] = w}
QueuedOf(u) == {j \in Jobs : status[j] = "QUEUED" /\ UserOf[j] = u}
JobsOf(u) == {j \in Jobs : UserOf[j] = u}

IsMember(j) == UserOf[j] \in member
QueueHasRoom(u) == Cardinality(QueuedOf(u)) < MaxQueued
\* Mutant: one job too many.
UnderLimitOffByOne(u) == Cardinality(ActiveOf(u)) <= MaxActive
UnderLimit(u) == Cardinality(ActiveOf(u)) < MaxActive
HasRoom(w) == Cardinality(ActiveOn(w)) < Capacity[w]
Eligible(j) == {w \in usable \cap Fits[j] : HasRoom(w)}
LeastLoaded(S) ==
    {w \in S : \A v \in S : Cardinality(ActiveOn(w)) <= Cardinality(ActiveOn(v))}

\* The last dispatch of u, if any, is earlier than the last dispatch of v.
RanEarlier(u, v) ==
    \E k \in JobsOf(v) : \A i \in JobsOf(u) : startedAt[i] < startedAt[k]

\* Mutant: plain first come, first served.
BeforeBySubmission(j, k) == j < k

\* The order in which claim() considers the queue: least recently served
\* user first, first submitted first within a user.
Before(j, k) ==
    \/ RanEarlier(UserOf[j], UserOf[k])
    \/ ~RanEarlier(UserOf[k], UserOf[j]) /\ j < k

\* Mutant: a lost dispatch is tried again.
ClaimableRetryingLost ==
    {j \in Jobs : /\ status[j] \in {"QUEUED", "LOST"}
                  /\ IsMember(j)
                  /\ UnderLimit(UserOf[j])
                  /\ Eligible(j) # {}}

\* What claim() can dispatch now.
Claimable ==
    {j \in Jobs : /\ status[j] = "QUEUED"
                  /\ IsMember(j)
                  /\ UnderLimit(UserOf[j])
                  /\ Eligible(j) # {}}

\* A process outside the transactions of its own tick: JavaScript runs those
\* to completion, so no other step of the process comes between them.
Awake(g) == proc[g] \in {"up", "stopping"} /\ phase[g] \notin InTransaction

SetTask(g, j, step) == task' = [task EXCEPT ![g][j] = step]

\* Scheduler.finish: whatever the status was, it is overwritten.
Finish(j, result) == status' = [status EXCEPT ![j] = result]
EndWith(g, j, result) ==
    /\ Finish(j, result)
    /\ SetTask(g, j, "none")
    /\ UNCHANGED <<record, flags, process, upstream>>

-----------------------------------------------------------------------------
(* Users, administrators and time. *)

\* POST /prompt, its admission transaction.
Submit(j) ==
    /\ status[j] = "NEW" /\ \A k \in Jobs : k > j => status[k] = "NEW"
    /\ IsMember(j) /\ QueueHasRoom(UserOf[j])
    /\ status' = [status EXCEPT ![j] = "QUEUED"]
    /\ UNCHANGED <<record, flags, process, task, upstream>>

\* POST /queue with delete or clear, and DELETE /api/jobs/:id of a queued job.
CancelQueued(j) ==
    /\ status[j] = "QUEUED" /\ UserOf[j] \in Restless
    /\ status' = [status EXCEPT ![j] = "CANCELLED"]
    /\ UNCHANGED <<record, flags, process, task, upstream>>

\* POST /interrupt, and DELETE /api/jobs/:id of an active job.
RequestCancel(j) ==
    /\ status[j] \in Active /\ UserOf[j] \in Restless
    /\ cancelRequested' = cancelRequested \cup {j}
    /\ UNCHANGED <<status, record, overdue, member, usable, process, task, upstream>>

\* Account, class or enrollment leaves ACTIVE, or comes back.
ChangeMembership(u) ==
    /\ member' = IF u \in member THEN member \ {u} ELSE member \cup {u}
    /\ UNCHANGED <<status, record, cancelRequested, overdue, usable, process, task, upstream>>

\* JOB_TIMEOUT_SECONDS have passed since startedAt.
TimeOut(j) ==
    /\ status[j] \in Active /\ j \notin overdue
    /\ overdue' = overdue \cup {j}
    /\ UNCHANGED <<status, record, cancelRequested, member, usable, process, task, upstream>>

-----------------------------------------------------------------------------
(* The life of a gateway process and of the lease. *)

Boot(g) ==
    /\ proc[g] = "off"
    /\ proc' = [proc EXCEPT ![g] = "up"]
    /\ UNCHANGED <<status, record, flags, lease, leader, phase, throws, task, upstream>>

\* The service manager restarts the gateway: the last owner of the bounded
\* supply stays up, or no behaviour of interest would be left.
Replaceable(g) == \E h \in Owners \ {g} : proc[h] \in {"off", "up"}

Die(g) ==
    /\ proc' = [proc EXCEPT ![g] = "dead"]
    /\ leader' = leader \ {g}
    /\ phase' = [phase EXCEPT ![g] = "idle"]
    /\ task' = [task EXCEPT ![g] = [j \in Jobs |-> "none"]]
    /\ UNCHANGED <<status, record, flags, lease, throws, upstream>>

Crash(g) == proc[g] = "up" /\ Replaceable(g) /\ Die(g)

\* SIGTERM: the lease is not released, and the process exits two seconds later.
Stop(g) ==
    /\ proc[g] = "up" /\ Awake(g) /\ Replaceable(g)
    /\ proc' = [proc EXCEPT ![g] = "stopping"]
    /\ leader' = leader \ {g}
    /\ UNCHANGED <<status, record, flags, lease, phase, throws, task, upstream>>

Exit(g) == proc[g] = "stopping" /\ Die(g)

\* Mutant: a lease is taken over whoever holds it.
ObtainableAlways(g) == TRUE

\* acquireLease refuses exactly when another owner's lease is unexpired.
Obtainable(g) == lease \in {g, None}

Renew(g) ==
    /\ proc[g] = "up" /\ Awake(g)
    /\ IF Obtainable(g)
       THEN lease' = g /\ leader' = leader \cup {g}
       ELSE leader' = leader \ {g} /\ UNCHANGED lease
    /\ UNCHANGED <<status, record, flags, proc, phase, throws, task, upstream>>

RenewThrows(g) ==
    /\ throws < MaxThrows
    /\ proc[g] = "up" /\ Awake(g) /\ g \in leader
    /\ leader' = leader \ {g}
    /\ throws' = throws + 1
    /\ UNCHANGED <<status, record, flags, lease, proc, phase, task, upstream>>

\* Mutant: the lease can run out between two renewals.
MayExpireEarly == lease # None

\* A running holder renews every two of the ten seconds: unless its event loop
\* is blocked, only a dead holder's lease runs out.
MayExpire == lease # None /\ (proc[lease] = "dead" \/ LeaseMayLapse)

LeaseExpires ==
    /\ MayExpire
    /\ lease' = None
    /\ UNCHANGED <<status, record, flags, proc, leader, phase, throws, task, upstream>>

-----------------------------------------------------------------------------
(* Scheduler.tick: health, sweep, adoption of running jobs, claims. *)

TickBegins(g) ==
    /\ proc[g] = "up" /\ phase[g] = "idle" /\ g \in leader
    /\ phase' = [phase EXCEPT ![g] = "health"]
    /\ UNCHANGED <<status, record, flags, lease, proc, leader, throws, task, upstream>>

\* Work in a worker's queue whose prompt ID no active job has recorded.
Unrecognized(w) ==
    {j \in Jobs : worker[j] = w /\ prompt[j] = "live" /\ status[j] # "RUNNING"}

\* clean: the workers that answered and hold no work from outside the platform.
HealthChecked(g, clean) ==
    /\ proc[g] \in {"up", "stopping"} /\ phase[g] = "health"
    /\ usable' = {w \in clean : Unrecognized(w) = {}}
    /\ phase' = [phase EXCEPT ![g] = IF g \in leader THEN "sweep" ELSE "idle"]
    /\ UNCHANGED <<status, record, cancelRequested, overdue, member,
                   lease, proc, leader, throws, task, upstream>>

\* Mutant: the interrupted dispatch goes back to the queue.
SweepRequeues(g) ==
    /\ phase[g] = "sweep"
    /\ status' = [j \in Jobs |->
                    IF status[j] = "DISPATCHING" /\ leaseOwner[j] # g THEN "QUEUED" ELSE status[j]]
    /\ phase' = [phase EXCEPT ![g] = "adopt"]
    /\ UNCHANGED <<record, flags, lease, proc, leader, throws, task, upstream>>

\* Mutant: nobody looks for dispatches of a dead owner.
SweepNothing(g) ==
    /\ phase[g] = "sweep"
    /\ phase' = [phase EXCEPT ![g] = "adopt"]
    /\ UNCHANGED <<status, record, flags, lease, proc, leader, throws, task, upstream>>

\* A job another owner was dispatching is lost, and never sent again.
Sweep(g) ==
    /\ phase[g] = "sweep"
    /\ status' = [j \in Jobs |->
                    IF status[j] = "DISPATCHING" /\ leaseOwner[j] # g THEN "LOST" ELSE status[j]]
    /\ phase' = [phase EXCEPT ![g] = "adopt"]
    /\ UNCHANGED <<record, flags, lease, proc, leader, throws, task, upstream>>

Adopt(g) ==
    /\ phase[g] = "adopt"
    /\ task' = [task EXCEPT ![g] = [j \in Jobs |->
                    IF status[j] = "RUNNING" /\ @[j] = "none" THEN "monitor" ELSE @[j]]]
    /\ phase' = [phase EXCEPT ![g] = "claim"]
    /\ UNCHANGED <<status, record, flags, lease, proc, leader, throws, upstream>>

Started == {j \in Jobs : startedAt[j] > 0}

\* Queued jobs claim() meets before it returns and cancels: no longer members.
Dropped(ahead) == {k \in ahead : status[k] = "QUEUED" /\ ~IsMember(k)}

ClaimJob(g) ==
    /\ phase[g] = "claim" /\ g \in leader
    /\ \E j \in Claimable :
         /\ \A k \in Claimable \ {j} : Before(j, k)
         /\ \E w \in LeastLoaded(Eligible(j)) : worker' = [worker EXCEPT ![j] = w]
         /\ status' = [k \in Jobs |->
                IF k = j THEN "DISPATCHING"
                ELSE IF k \in Dropped({i \in Jobs : Before(i, j)}) THEN "CANCELLED"
                ELSE status[k]]
         /\ startedAt' = [startedAt EXCEPT ![j] = Cardinality(Started) + 1]
         /\ leaseOwner' = [leaseOwner EXCEPT ![j] = g]
         /\ SetTask(g, j, "staging")
    /\ UNCHANGED <<flags, process, upstream>>

ClaimNothing(g) ==
    /\ phase[g] = "claim"
    /\ IF g \in leader
       THEN /\ Claimable = {}
            /\ status' = [k \in Jobs |-> IF k \in Dropped(Jobs) THEN "CANCELLED" ELSE status[k]]
       ELSE UNCHANGED status
    /\ phase' = [phase EXCEPT ![g] = "idle"]
    /\ UNCHANGED <<record, flags, lease, proc, leader, throws, task, upstream>>

-----------------------------------------------------------------------------
(* Scheduler.dispatch, from the staging of the inputs to the recorded prompt. *)

At(g, j, step) == Awake(g) /\ task[g][j] = step

StagingFails(g, j) == At(g, j, "staging") /\ EndWith(g, j, "FAILED")

UploadsStaged(g, j) ==
    /\ At(g, j, "staging")
    /\ IF g \in leader /\ ~IsMember(j)
       THEN Finish(j, "CANCELLED")
       ELSE UNCHANGED status
    /\ SetTask(g, j, IF g \in leader /\ IsMember(j) THEN "connecting" ELSE "none")
    /\ UNCHANGED <<record, flags, process, upstream>>

\* The progress socket opened, failed or took a second: POST /prompt leaves.
SendPrompt(g, j) ==
    /\ At(g, j, "connecting")
    /\ prompt' = [prompt EXCEPT ![j] = "sent"]
    /\ sends' = [sends EXCEPT ![j] = @ + 1]
    /\ SetTask(g, j, "posting")
    /\ UNCHANGED <<status, record, flags, process>>

PromptRejected(g, j) ==
    At(g, j, "posting") /\ prompt[j] = "rejected" /\ EndWith(g, j, "FAILED")

\* The response carries the prompt ID: recorded, and the job becomes RUNNING
\* whatever its status was.
PromptRecorded(g, j) ==
    /\ At(g, j, "posting") /\ prompt[j] \notin {"sent", "rejected"}
    /\ status' = [status EXCEPT ![j] = "RUNNING"]
    /\ SetTask(g, j, "monitor")
    /\ UNCHANGED <<record, flags, process, upstream>>

\* Timeout, dropped connection or unreadable response.
OutcomeUnknown(g, j) == At(g, j, "posting") /\ EndWith(g, j, "LOST")

-----------------------------------------------------------------------------
(* The worker. *)

WorkerMoves(j, from, to) ==
    /\ prompt[j] \in from
    /\ \E p \in to : prompt' = [prompt EXCEPT ![j] = p]
    /\ UNCHANGED <<status, record, flags, process, task, sends>>

WorkerAnswers(j) == WorkerMoves(j, {"sent"}, {"live", "rejected"})

\* vanished: deleted from the queue, or forgotten when ComfyUI restarted.
WorkerEnds(j) == WorkerMoves(j, {"live"}, {"success", "error", "vanished"})

-----------------------------------------------------------------------------
(* Scheduler.monitor: one loop iteration is a read and an outcome. *)

MonitorReads(g, j) ==
    /\ At(g, j, "monitor")
    /\ SetTask(g, j,
         IF g \notin leader \/ status[j] # "RUNNING" THEN "none"
         ELSE IF j \in cancelRequested \/ ~IsMember(j) THEN "kill"
         ELSE IF j \in overdue THEN "late"
         ELSE "watch")
    /\ UNCHANGED <<status, record, flags, process, upstream>>

AtPoll(g, j) == Awake(g) /\ task[g][j] \in Polling
Cancelling(g, j) == task[g][j] \in {"kill", "late"}

\* Delete from the queue, or interrupt.
CancelUpstream(g, j) ==
    AtPoll(g, j) /\ Cancelling(g, j) /\ WorkerMoves(j, {"live"}, {"error", "vanished"})

FoundError(g, j) ==
    /\ AtPoll(g, j) /\ prompt[j] = "error"
    /\ EndWith(g, j, IF task[g][j] = "kill" THEN "CANCELLED" ELSE "FAILED")

FoundSuccess(g, j) ==
    AtPoll(g, j) /\ prompt[j] = "success" /\ EndWith(g, j, "COMPLETED")

\* Mutant: the cancellation was sent, so the job is over.
FoundAbsentUnchecked(g, j) ==
    AtPoll(g, j) /\ Cancelling(g, j) /\ EndWith(g, j, "CANCELLED")

\* No history entry yet, then neither running nor pending.
FoundAbsent(g, j) ==
    /\ AtPoll(g, j) /\ Cancelling(g, j) /\ prompt[j] # "live"
    /\ EndWith(g, j, "CANCELLED")

\* Mutant: a job is waited for without limit.
GivesUpNever(g, j) == FALSE /\ EndWith(g, j, "LOST")

\* A minute after the timeout the worker has still confirmed nothing.
GivesUp(g, j) ==
    AtPoll(g, j) /\ Cancelling(g, j) /\ j \in overdue /\ EndWith(g, j, "LOST")

\* Nothing found, or the worker did not answer: another iteration.
PollAgain(g, j) ==
    /\ AtPoll(g, j)
    /\ SetTask(g, j, "monitor")
    /\ UNCHANGED <<status, record, flags, process, upstream>>

-----------------------------------------------------------------------------
Platform == \E j \in Jobs :
    Submit(j) \/ CancelQueued(j) \/ RequestCancel(j) \/ TimeOut(j)

Life(g) == Boot(g) \/ Crash(g) \/ Stop(g) \/ Exit(g) \/ Renew(g) \/ RenewThrows(g)

Tick(g) ==
    \/ TickBegins(g)
    \/ \E clean \in SUBSET Workers : HealthChecked(g, clean)
    \/ Sweep(g) \/ Adopt(g) \/ ClaimJob(g) \/ ClaimNothing(g)

Dispatch(g, j) ==
    \/ StagingFails(g, j) \/ UploadsStaged(g, j) \/ SendPrompt(g, j)
    \/ PromptRejected(g, j) \/ PromptRecorded(g, j) \/ OutcomeUnknown(g, j)

Monitor(g, j) ==
    \/ MonitorReads(g, j) \/ CancelUpstream(g, j) \/ FoundError(g, j) \/ FoundSuccess(g, j)
    \/ FoundAbsent(g, j) \/ GivesUp(g, j) \/ PollAgain(g, j)

Next ==
    \/ Platform
    \/ \E u \in Restless : ChangeMembership(u)
    \/ LeaseExpires
    \/ \E j \in Jobs : WorkerAnswers(j) \/ WorkerEnds(j)
    \/ \E g \in Owners : Life(g) \/ Tick(g)
    \/ \E g \in Owners, j \in Jobs : Dispatch(g, j) \/ Monitor(g, j)

Spec == Init /\ [][Next]_vars

-----------------------------------------------------------------------------
(* Safety. *)

\* README.md:180: the claim transaction "reserves worker capacity": no worker
\* ever has more dispatching and running jobs than its maxConcurrentJobs, over
\* every owner's claims and late answers.
WorkerCapacity == \A w \in Workers : Cardinality(ActiveOn(w)) <= Capacity[w]

\* README.md:180: the per-user limit on active jobs holds across processes.
UserActiveLimit == \A u \in Users : Cardinality(ActiveOf(u)) <= MaxActive

\* A job's prompt is posted at most once, whatever crashes, takes over or
\* times out (scheduler.ts:46: "Never submit it twice").
SentAtMostOnce == \A j \in Jobs : sends[j] <= 1

\* "Keep the slot reserved until terminal state is known" (scheduler.ts:332):
\* while a worker holds a job's prompt, the job is active or openly LOST;
\* no FAILED, CANCELLED or COMPLETED job is still executing.
SlotHeldWhileExecuting ==
    \A j \in Jobs : prompt[j] = "live" => status[j] \in Active \cup {"LOST"}

\* A terminal job stays as it ended: no late response, second monitor or new
\* leader brings it back or changes its outcome.
TerminalIsFinal ==
    [][\A j \in Jobs : status[j] \in Terminal => status'[j] = status[j]]_vars

\* README.md:180: "one user cannot repeatedly jump ahead".  When a user is
\* dispatched a second time since job j was submitted and j's user was last
\* served, j was not dispatchable: its user was at the limit or revoked, or no
\* worker could take it.
NoSecondTurnWhileAnotherWaits ==
    [][\A i, j, k \in Jobs :
          ( /\ UserOf[i] = UserOf[k] /\ UserOf[j] # UserOf[k] /\ i # k
            /\ status[j] = "QUEUED" /\ status[k] = "QUEUED" /\ status'[k] = "DISPATCHING"
            /\ startedAt[i] > 0
            /\ \A o \in JobsOf(UserOf[j]) : startedAt[o] < startedAt[i] )
          => \/ ~IsMember(j) \/ ~UnderLimit(UserOf[j]) \/ Eligible(j) = {}]_vars

\* The scheduler implements the life of a job that README.md:249 promises.
Lifecycle == INSTANCE JobLifecycle WITH posts <- sends
LifecycleSpec == Lifecycle!Spec

-----------------------------------------------------------------------------
(* Liveness. *)

\* What the timers, the event loop, the service manager and the worker
\* guarantee.  Strong fairness stands for real time: a worker is reachable
\* again and again, and the sixty seconds after a timeout do run out.
Fairness ==
    /\ WF_vars(LeaseExpires)
    /\ \A g \in Owners :
         /\ WF_vars(Boot(g) \/ Exit(g)) /\ SF_vars(Renew(g))
         /\ WF_vars(Tick(g)) /\ SF_vars(HealthChecked(g, Workers))
    /\ \A j \in Jobs :
         WF_vars(TimeOut(j)) /\ WF_vars(WorkerAnswers(j) \/ WorkerEnds(j))
    /\ \A g \in Owners, j \in Jobs :
         SF_vars(Dispatch(g, j) \/ Monitor(g, j)) /\ SF_vars(GivesUp(g, j))

LiveSpec == Spec /\ Fairness

\* Every admitted job reaches a terminal status, through restarts of the
\* gateway, unreachable workers and cancellations: no job is forgotten.
JobEnds == \A j \in Jobs : (status[j] = "QUEUED") ~> (status[j] \in Terminal)
=============================================================================
