----------------------------- MODULE Cancellation -----------------------------
(***************************************************************************)
(* One worker's prompt queue, as ComfyUI keeps it, and the loop of         *)
(* Scheduler.monitor that watches, deletes and interrupts prompts in it    *)
(* one request at a time.  Scheduler takes a monitor's iteration as a read *)
(* and an outcome; here every await of the loop is a step of its own, so   *)
(* the queue may change between what a monitor read and what it then does. *)
(*                                                                         *)
(* A request that times out took effect before it did or never does.       *)
(***************************************************************************)
EXTENDS Naturals, FiniteSets, SequencesExt

CONSTANTS
    Jobs,         \* the jobs assigned to the worker
    Capacity,     \* its maxConcurrentJobs
    MaxRestarts,  \* bound: how often the gateway restarts
    None          \* nothing is running

ASSUME CancellationAssumption ==
    /\ IsFiniteSet(Jobs) /\ None \notin Jobs
    /\ Capacity \in Nat /\ MaxRestarts \in Nat

VARIABLES
    status,       \* jobs.status
    unwanted,     \* cancelRequested, or the student is no longer a member
    overdue,      \* JOB_TIMEOUT_SECONDS have passed since startedAt
    at,           \* at[j]: the request job j's dispatch or monitor is about to make
    killing,      \* monitors that saw their job unwanted in this iteration
    cancelSent,   \* monitors whose cancelSent is true
    usable,       \* the last health check found no work from outside
    inFlight, pending, running, history,  \* the worker: see Init
    freeing,      \* a POST /free is under way
    evicted,      \* jobs that were executing when a POST /free arrived
    restarts

gateway == <<usable, restarts>>
monitor == <<at, killing, cancelSent>>
queue   == <<inFlight, pending, running, history>>
free    == <<freeing, evicted>>
vars == <<status, unwanted, overdue, monitor, gateway, queue, free>>

Active   == {"DISPATCHING", "RUNNING"}
Terminal == {"COMPLETED", "FAILED", "CANCELLED", "LOST"}
Requests == {"post", "top", "queue", "delete", "interrupt", "history", "absent", "end"}

PendingOK == pending \in Seq(Jobs) /\ IsInjective(pending)

TypeOK ==
    /\ status \in [Jobs -> {"QUEUED"} \cup Active \cup Terminal]
    /\ unwanted \subseteq Jobs /\ overdue \subseteq Jobs
    /\ at \in [Jobs -> Requests \cup {"none"}]
    /\ killing \subseteq Jobs /\ cancelSent \subseteq Jobs
    /\ usable \in BOOLEAN /\ freeing \in BOOLEAN
    /\ inFlight \subseteq Jobs
    /\ PendingOK
    /\ running \in Jobs \cup {None}
    /\ history \in [Jobs -> {"none", "success", "error", "interrupted"}]
    /\ evicted \subseteq Jobs /\ restarts \in 0..MaxRestarts

Init ==
    /\ status = [j \in Jobs |-> "QUEUED"]
    /\ unwanted = {} /\ overdue = {}
    /\ at = [j \in Jobs |-> "none"]
    /\ killing = {} /\ cancelSent = {}
    /\ usable = FALSE
    /\ inFlight = {}     \* POST /prompt requests under way
    /\ pending = <<>>    \* queue_pending
    /\ running = None    \* queue_running: ComfyUI executes one prompt at a time
    /\ history = [j \in Jobs |-> "none"]
    /\ freeing = FALSE /\ evicted = {}
    /\ restarts = 0

ActiveJobs == {j \in Jobs : status[j] \in Active}
IsPending(j) == Contains(pending, j)
InQueue(j) == IsPending(j) \/ running = j

-----------------------------------------------------------------------------
(* Students, time, and the scheduler's tick. *)

RequestCancel(j) ==
    /\ status[j] \in Active
    /\ unwanted' = unwanted \cup {j}
    /\ UNCHANGED <<status, overdue, monitor, gateway, queue, free>>

TimeOut(j) ==
    /\ status[j] \in Active
    /\ overdue' = overdue \cup {j}
    /\ UNCHANGED <<status, unwanted, monitor, gateway, queue, free>>

\* Work is recognized by the prompt IDs of active jobs, which only a RUNNING
\* job has.
HealthChecked ==
    /\ usable' = \A j \in Jobs : InQueue(j) => status[j] = "RUNNING"
    /\ UNCHANGED <<status, unwanted, overdue, monitor, restarts, queue, free>>

\* Mutant: one job too many on the worker.
HasRoomOffByOne == Cardinality(ActiveJobs) <= Capacity
HasRoom == Cardinality(ActiveJobs) < Capacity

\* claim(), and the dispatch that follows as far as POST /prompt.
Claim(j) ==
    /\ status[j] = "QUEUED" /\ usable /\ HasRoom
    /\ status' = [status EXCEPT ![j] = "DISPATCHING"]
    /\ at' = [at EXCEPT ![j] = "post"]
    /\ inFlight' = inFlight \cup {j}
    /\ UNCHANGED <<unwanted, overdue, killing, cancelSent, gateway,
                   pending, running, history, free>>

PromptRecorded(j) ==
    /\ at[j] = "post" /\ j \notin inFlight
    /\ status' = [status EXCEPT ![j] = "RUNNING"]
    /\ at' = [at EXCEPT ![j] = "top"]
    /\ UNCHANGED <<unwanted, overdue, killing, cancelSent, gateway, queue, free>>

OutcomeUnknown(j) ==
    /\ at[j] = "post"
    /\ status' = [status EXCEPT ![j] = "LOST"]
    /\ at' = [at EXCEPT ![j] = "none"]
    /\ UNCHANGED <<unwanted, overdue, killing, cancelSent, gateway, queue, free>>

\* Mutant: interrupted dispatches are queued again.
RestartRequeues ==
    /\ restarts < MaxRestarts
    /\ restarts' = restarts + 1
    /\ status' = [j \in Jobs |-> IF status[j] = "DISPATCHING" THEN "QUEUED" ELSE status[j]]
    /\ at' = [j \in Jobs |-> IF status[j] = "RUNNING" THEN "top" ELSE "none"]
    /\ killing' = {} /\ cancelSent' = {}
    /\ UNCHANGED <<unwanted, overdue, usable, queue, free>>

\* The gateway dies, starts again, sweeps the dispatches of its former self
\* and adopts the running jobs.
Restart ==
    /\ restarts < MaxRestarts
    /\ restarts' = restarts + 1
    /\ status' = [j \in Jobs |-> IF status[j] = "DISPATCHING" THEN "LOST" ELSE status[j]]
    /\ at' = [j \in Jobs |-> IF status[j] = "RUNNING" THEN "top" ELSE "none"]
    /\ killing' = {} /\ cancelSent' = {}
    /\ UNCHANGED <<unwanted, overdue, usable, queue, free>>

-----------------------------------------------------------------------------
(* The worker. *)

WorkerAccepts(j) ==
    /\ j \in inFlight
    /\ inFlight' = inFlight \ {j}
    /\ pending' = Append(pending, j)
    /\ UNCHANGED <<status, unwanted, overdue, monitor, gateway, running, history, free>>

WorkerStarts ==
    /\ running = None /\ pending # <<>>
    /\ running' = Head(pending) /\ pending' = Tail(pending)
    /\ UNCHANGED <<status, unwanted, overdue, monitor, gateway, inFlight, history, free>>

\* The prompt that is executing, if any, ends.
EndRunning(result) ==
    /\ running' = None
    /\ history' = IF running = None THEN history ELSE [history EXCEPT ![running] = result]
    /\ UNCHANGED <<inFlight, pending>>

WorkerEnds ==
    /\ running # None
    /\ \E result \in {"success", "error"} : EndRunning(result)
    /\ UNCHANGED <<status, unwanted, overdue, monitor, gateway, free>>

FreeArrives ==
    /\ freeing
    /\ freeing' = FALSE
    /\ evicted' = evicted \cup ({running} \ {None})
    /\ UNCHANGED <<status, unwanted, overdue, monitor, gateway, queue>>

-----------------------------------------------------------------------------
(* Scheduler.monitor, one request at a time. *)

Goto(j, request) == at' = [at EXCEPT ![j] = request]

MonitorReads(j) ==
    /\ at[j] = "top"
    /\ Goto(j, IF status[j] # "RUNNING" THEN "none"
               ELSE IF j \in (unwanted \cup overdue) \ cancelSent THEN "queue"
               ELSE "history")
    /\ killing' = IF j \in unwanted THEN killing \cup {j} ELSE killing \ {j}
    /\ UNCHANGED <<status, unwanted, overdue, cancelSent, gateway, queue, free>>

\* GET /queue: delete what is pending, interrupt what is the sole running
\* prompt, and otherwise there is nothing to send.
QueueRead(j) ==
    /\ at[j] = "queue"
    /\ Goto(j, IF IsPending(j) THEN "delete" ELSE IF running = j THEN "interrupt" ELSE "history")
    /\ cancelSent' = IF InQueue(j) THEN cancelSent ELSE cancelSent \cup {j}
    /\ UNCHANGED <<status, unwanted, overdue, killing, gateway, queue, free>>

\* After the request took effect: its response may still be lost.
CancelAnswered(j) ==
    /\ Goto(j, "history")
    /\ \E sent \in {cancelSent, cancelSent \cup {j}} : cancelSent' = sent
    /\ UNCHANGED <<status, unwanted, overdue, killing, gateway, free>>

Delete(j) ==
    /\ at[j] = "delete"
    /\ \/ ~IsPending(j) /\ UNCHANGED pending
       \/ \E i \in DOMAIN pending : pending[i] = j /\ pending' = RemoveAt(pending, i)
    /\ UNCHANGED <<inFlight, running, history>>
    /\ CancelAnswered(j)

\* POST /interrupt names no prompt: it ends whatever is executing.
Interrupt(j) == at[j] = "interrupt" /\ EndRunning("interrupted") /\ CancelAnswered(j)

\* A request of the cancellation never arrives: cancelSent stays false.
CancelFails(j) ==
    /\ at[j] \in {"queue", "delete", "interrupt"}
    /\ Goto(j, "history")
    /\ UNCHANGED <<status, unwanted, overdue, killing, cancelSent, gateway, queue, free>>

\* freeIfIdle, as far as its first await: its check and the finish before it
\* are one step.
FinishAndFree(j, result) ==
    /\ status' = [status EXCEPT ![j] = result]
    /\ Goto(j, "none")
    /\ freeing' = (freeing \/ (usable /\ ActiveJobs \subseteq {j}))
    /\ UNCHANGED <<unwanted, overdue, killing, cancelSent, gateway, queue, evicted>>

\* Mutant: any history entry is a success.
HistoryReadAsSuccess(j) ==
    /\ at[j] = "history"
    /\ \/ history[j] # "none" /\ FinishAndFree(j, "COMPLETED")
       \/ /\ history[j] = "none"
          /\ Goto(j, IF j \in cancelSent THEN "absent" ELSE "end")
          /\ UNCHANGED <<status, unwanted, overdue, killing, cancelSent, gateway, queue, free>>

HistoryRead(j) ==
    /\ at[j] = "history"
    /\ \/ /\ history[j] \in {"error", "interrupted"}
          /\ FinishAndFree(j, IF j \in killing THEN "CANCELLED" ELSE "FAILED")
       \/ history[j] = "success" /\ FinishAndFree(j, "COMPLETED")
       \/ /\ history[j] = "none"
          /\ Goto(j, IF j \in cancelSent THEN "absent" ELSE "end")
          /\ UNCHANGED <<status, unwanted, overdue, killing, cancelSent, gateway, queue, free>>

\* An error response skips the entry; no response skips the rest of the try.
HistoryUnread(j) ==
    /\ at[j] = "history"
    /\ \E next \in {"end"} \cup (IF j \in cancelSent THEN {"absent"} ELSE {}) : Goto(j, next)
    /\ UNCHANGED <<status, unwanted, overdue, killing, cancelSent, gateway, queue, free>>

\* Mutant: queue_running is forgotten.
GoneFromPending(j) == ~IsPending(j)
Gone(j) == ~InQueue(j)

FoundAbsent(j) == at[j] = "absent" /\ Gone(j) /\ FinishAndFree(j, "CANCELLED")

StillThere(j) ==
    /\ at[j] = "absent"
    /\ Goto(j, "end")
    /\ UNCHANGED <<status, unwanted, overdue, killing, cancelSent, gateway, queue, free>>

\* A minute after the timeout nothing is known yet.
GivesUp(j) == at[j] = "end" /\ j \in overdue /\ FinishAndFree(j, "LOST")

PollAgain(j) ==
    /\ at[j] = "end"
    /\ Goto(j, "top")
    /\ UNCHANGED <<status, unwanted, overdue, killing, cancelSent, gateway, queue, free>>

-----------------------------------------------------------------------------
Dispatch(j) == Claim(j) \/ PromptRecorded(j) \/ OutcomeUnknown(j)

Monitor(j) ==
    \/ MonitorReads(j) \/ QueueRead(j) \/ Delete(j) \/ Interrupt(j) \/ CancelFails(j)
    \/ HistoryRead(j) \/ HistoryUnread(j) \/ FoundAbsent(j) \/ StillThere(j)
    \/ GivesUp(j) \/ PollAgain(j)

Next ==
    \/ \E j \in Jobs :
         RequestCancel(j) \/ TimeOut(j) \/ WorkerAccepts(j) \/ Dispatch(j) \/ Monitor(j)
    \/ HealthChecked \/ Restart \/ WorkerStarts \/ WorkerEnds \/ FreeArrives

Spec == Init /\ [][Next]_vars

-----------------------------------------------------------------------------
\* README.md:251: "cancellation never interrupts a different student's
\* concurrent prompt".  A prompt is interrupted only if its own job was
\* cancelled, revoked or timed out; a LOST job is not concurrent any more.
InterruptsOnlyItsOwn ==
    \A j \in Jobs :
        history[j] = "interrupted" => j \in unwanted \cup overdue \/ status[j] = "LOST"

\* scheduler.ts:332, "Keep the slot reserved until terminal state is known":
\* a job that ended other than LOST has nothing left on the worker.  The
\* monitor reads the history first and the queue afterwards, and the prompt
\* moves from one to the other in between.
EndedLeavesWorker ==
    \A j \in Jobs :
        status[j] \in Terminal \ {"LOST"} => ~InQueue(j) /\ j \notin inFlight

\* A job is CANCELLED only if somebody asked for that or its time was over, and
\* COMPLETED only on a history entry that says so (README.md:249: "Completion
\* requires terminal worker history").
OutcomeIsJustified ==
    \A j \in Jobs :
        /\ status[j] = "CANCELLED" => j \in unwanted \cup overdue
        /\ status[j] = "COMPLETED" => history[j] = "success"

\* scheduler.ts:242: after LOST, POST /free "would evict a running job's
\* models": no prompt is executing when a POST /free arrives.
NothingEvicted == evicted = {}
=============================================================================
