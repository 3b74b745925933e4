--------------------------- MODULE SchedulerProofs ---------------------------
(***************************************************************************)
(* Proofs about Scheduler, for every number of jobs, users, workers and    *)
(* owners, every capacity and every limit.                                 *)
(***************************************************************************)
EXTENDS Scheduler, FiniteSetTheorems, TLAPS

\* A job not yet claimed has left no trace: no start, no post, no task.
Untouched ==
    \A j \in Jobs : status[j] \in {"NEW", "QUEUED"} =>
        /\ startedAt[j] = 0 /\ sends[j] = 0
        /\ \A g \in Owners : task[g][j] = "none"

\* Only the owner that claimed a job takes it to its worker.
OwnDispatch ==
    \A g \in Owners, j \in Jobs : task[g][j] \in Dispatching => leaseOwner[j] = g

\* The prompt leaves once, between "connecting" and "posting".
PostedOnce ==
    \A j \in Jobs :
        /\ sends[j] \in {0, 1}
        /\ status[j] = "RUNNING" => sends[j] = 1
        /\ \A g \in Owners :
             /\ task[g][j] \in {"staging", "connecting"} => sends[j] = 0
             /\ task[g][j] = "posting" => sends[j] = 1

Inv == TypeOK /\ Untouched /\ OwnDispatch /\ PostedOnce

\* Nothing has been claimed, posted or started initially.
LEMMA InitInv == Init => Inv
<1> SUFFICES ASSUME Init PROVE Inv
  OBVIOUS
<1>1. TypeOK
  BY BoundsAssumption DEF Init, TypeOK, Statuses, TaskSteps, PromptStates
<1>2. Untouched /\ OwnDispatch /\ PostedOnce
  BY DEF Init, Untouched, OwnDispatch, PostedOnce, Dispatching
<1>3. QED
  BY <1>1, <1>2 DEF Inv

\* The end of a dispatch or monitor keeps the invariant, whatever the result.
LEMMA EndInv ==
  ASSUME Inv, NEW g \in Owners, NEW j \in Jobs, NEW result \in Terminal,
         task[g][j] # "none", EndWith(g, j, result)
  PROVE  Inv'
<1> USE DEF EndWith, Finish, SetTask, record, flags, process, upstream
<1>1. TypeOK'
  BY DEF Inv, TypeOK, Statuses, TaskSteps
<1>2. Untouched'
  BY DEF Inv, TypeOK, Untouched, Terminal
<1>3. OwnDispatch'
  BY DEF Inv, TypeOK, OwnDispatch, Dispatching
<1>4. PostedOnce'
  BY DEF Inv, TypeOK, PostedOnce, Terminal
<1>5. QED
  BY <1>1, <1>2, <1>3, <1>4 DEF Inv

\* Students and time touch no claim and no task.
LEMMA PlatformInv ==
  ASSUME Inv, NEW j \in Jobs,
         Submit(j) \/ CancelQueued(j) \/ RequestCancel(j) \/ TimeOut(j)
  PROVE  Inv'
<1> USE DEF Submit, CancelQueued, RequestCancel, TimeOut, record, flags, process, upstream
<1>1. TypeOK'
  BY DEF Inv, TypeOK, Statuses, Terminal
<1>2. Untouched'
  BY DEF Inv, TypeOK, Untouched
<1>3. OwnDispatch'
  BY DEF Inv, OwnDispatch
<1>4. PostedOnce'
  BY DEF Inv, TypeOK, PostedOnce
<1>5. QED
  BY <1>1, <1>2, <1>3, <1>4 DEF Inv

\* Nor does a change of membership.
LEMMA MembershipInv ==
  ASSUME Inv, NEW u \in Restless, ChangeMembership(u)
  PROVE  Inv'
<1> USE DEF ChangeMembership, record, process, upstream
<1>1. TypeOK'
  BY PlatformAssumption DEF Inv, TypeOK
<1>2. Untouched' /\ OwnDispatch' /\ PostedOnce'
  BY DEF Inv, Untouched, OwnDispatch, PostedOnce
<1>3. QED
  BY <1>1, <1>2 DEF Inv

\* Nor does the lease when it runs out.
LEMMA LeaseInv ==
  ASSUME Inv, LeaseExpires
  PROVE  Inv'
<1> USE DEF LeaseExpires, record, flags, upstream
<1>1. TypeOK'
  BY DEF Inv, TypeOK
<1>2. Untouched' /\ OwnDispatch' /\ PostedOnce'
  BY DEF Inv, Untouched, OwnDispatch, PostedOnce
<1>3. QED
  BY <1>1, <1>2 DEF Inv

\* The tasks of a process end with it.
LEMMA DieInv ==
  ASSUME Inv, NEW g \in Owners, Die(g)
  PROVE  Inv'
<1> USE DEF Die, record, flags, upstream
<1>1. [j \in Jobs |-> "none"] \in [Jobs -> TaskSteps]
  BY DEF TaskSteps
<1>2. /\ task' = [task EXCEPT ![g] = [j \in Jobs |-> "none"]]
      /\ task' \in [Owners -> [Jobs -> TaskSteps]]
  BY <1>1 DEF Inv, TypeOK
<1>3. \A h \in Owners, j \in Jobs : task'[h][j] \in {task[h][j], "none"}
  BY <1>2 DEF Inv, TypeOK
<1>4. TypeOK'
  BY <1>2 DEF Inv, TypeOK
<1>5. Untouched'
  BY <1>3 DEF Inv, Untouched
<1>6. OwnDispatch'
  BY <1>3 DEF Inv, OwnDispatch, Dispatching
<1>7. PostedOnce'
  BY <1>3 DEF Inv, PostedOnce
<1>8. QED
  BY <1>4, <1>5, <1>6, <1>7 DEF Inv

\* Booting, stopping, dying and renewing keep the invariant.
LEMMA LifeInv ==
  ASSUME Inv, NEW g \in Owners, Life(g)
  PROVE  Inv'
<1> USE DEF record, flags, upstream
<1>1. CASE Crash(g) \/ Exit(g)
  BY <1>1, DieInv DEF Crash, Exit
<1>2. CASE Boot(g) \/ Stop(g) \/ Renew(g) \/ RenewThrows(g)
  <2>1. TypeOK'
    BY <1>2, BoundsAssumption DEF Inv, TypeOK, Boot, Stop, Renew, RenewThrows
  <2>2. Untouched' /\ OwnDispatch' /\ PostedOnce'
    BY <1>2 DEF Inv, Untouched, OwnDispatch, PostedOnce, Boot, Stop, Renew, RenewThrows
  <2>3. QED
    BY <2>1, <2>2 DEF Inv
<1>3. QED
  BY <1>1, <1>2 DEF Life

\* What a worker does to a posted prompt keeps the invariant.
LEMMA WorkerInv ==
  ASSUME Inv, NEW j \in Jobs, WorkerAnswers(j) \/ WorkerEnds(j)
  PROVE  Inv'
<1> USE DEF WorkerAnswers, WorkerEnds, WorkerMoves, record, flags, process
<1>1. TypeOK'
  BY DEF Inv, TypeOK, PromptStates
<1>2. Untouched' /\ OwnDispatch' /\ PostedOnce'
  BY DEF Inv, Untouched, OwnDispatch, PostedOnce
<1>3. QED
  BY <1>1, <1>2 DEF Inv

\* The tick up to its claims.
LEMMA TickInv ==
  ASSUME Inv, NEW g \in Owners, NEW clean \in SUBSET Workers,
         TickBegins(g) \/ HealthChecked(g, clean) \/ Sweep(g) \/ Adopt(g)
  PROVE  Inv'
<1> USE DEF record, flags, process, upstream
<1>1. TypeOK'
  <2>1. CASE TickBegins(g)
    BY <2>1 DEF Inv, TypeOK, TickBegins
  <2>2. CASE HealthChecked(g, clean)
    BY <2>2 DEF Inv, TypeOK, HealthChecked, InTransaction
  <2>3. CASE Sweep(g)
    BY <2>3 DEF Inv, TypeOK, Sweep, Statuses, Terminal, InTransaction
  <2>4. CASE Adopt(g)
    BY <2>4 DEF Inv, TypeOK, Adopt, TaskSteps, InTransaction
  <2>5. QED
    BY <2>1, <2>2, <2>3, <2>4
<1> USE DEF TickBegins, HealthChecked, Sweep, Adopt
<1>2. Untouched'
  BY DEF Inv, TypeOK, Untouched
<1>3. OwnDispatch'
  BY SMTT(20) DEF Inv, TypeOK, OwnDispatch, Dispatching
<1>4. PostedOnce'
  BY DEF Inv, TypeOK, PostedOnce
<1>5. QED
  BY <1>1, <1>2, <1>3, <1>4 DEF Inv

\* A job is claimed once, so starts never outnumber jobs.
LEMMA StartedBound ==
  ASSUME Inv, NEW j \in Jobs, status[j] = "QUEUED"
  PROVE  Cardinality(Started) \in Nat /\ Cardinality(Started) + 1 \in 0..MaxJobs
<1>1. IsFiniteSet(Jobs) /\ Cardinality(Jobs) = MaxJobs
  BY BoundsAssumption, FS_Interval DEF Jobs
<1>2. Started \subseteq Jobs \ {j}
  BY DEF Started, Inv, Untouched
<1>3. IsFiniteSet(Jobs \ {j}) /\ Cardinality(Jobs \ {j}) = MaxJobs - 1
  BY <1>1, FS_RemoveElement
<1>4. Cardinality(Started) \in Nat /\ Cardinality(Started) <= MaxJobs - 1
  BY <1>2, <1>3, FS_Subset, FS_CardinalityType
<1>5. QED
  BY <1>4, BoundsAssumption

\* A claim starts an untouched job's only dispatch.
LEMMA ClaimInv ==
  ASSUME Inv, NEW g \in Owners, ClaimJob(g)
  PROVE  Inv'
<1> USE DEF SetTask, record, flags, process, upstream
<1>1. PICK j \in Claimable :
        /\ \E w \in LeastLoaded(Eligible(j)) : worker' = [worker EXCEPT ![j] = w]
        /\ status' = [k \in Jobs |->
               IF k = j THEN "DISPATCHING"
               ELSE IF k \in Dropped({i \in Jobs : Before(i, j)}) THEN "CANCELLED"
               ELSE status[k]]
        /\ startedAt' = [startedAt EXCEPT ![j] = Cardinality(Started) + 1]
        /\ leaseOwner' = [leaseOwner EXCEPT ![j] = g]
        /\ SetTask(g, j, "staging")
  BY DEF ClaimJob
<1>2. j \in Jobs /\ status[j] = "QUEUED" /\ Eligible(j) \subseteq Workers
  BY PlatformAssumption DEF Claimable, Eligible, Inv, TypeOK
<1>3. UNCHANGED <<flags, process, upstream>>
  BY DEF ClaimJob
<1>4. \A h \in Owners : task[h][j] = "none"
  BY <1>2 DEF Inv, Untouched
<1>5. TypeOK'
  BY <1>1, <1>2, <1>3, StartedBound DEF Inv, TypeOK, Statuses, Active, Terminal, TaskSteps,
     Dispatching, LeastLoaded
<1>6. Untouched'
  BY <1>1, <1>2, <1>3 DEF Inv, TypeOK, Untouched
<1>7. OwnDispatch'
  BY <1>1, <1>2, <1>3, <1>4 DEF Inv, TypeOK, OwnDispatch, Dispatching
<1>8. PostedOnce'
  BY <1>1, <1>2, <1>3, <1>4 DEF Inv, TypeOK, PostedOnce, Untouched
<1>9. QED
  BY <1>5, <1>6, <1>7, <1>8 DEF Inv

\* The end of a tick cancels queued jobs, which are untouched.
LEMMA ClaimNothingInv ==
  ASSUME Inv, NEW g \in Owners, ClaimNothing(g)
  PROVE  Inv'
<1> USE DEF ClaimNothing, Dropped, record, flags, upstream
<1>1. TypeOK'
  BY DEF Inv, TypeOK, Statuses, Terminal
<1>2. Untouched'
  BY DEF Inv, TypeOK, Untouched
<1>3. OwnDispatch'
  BY DEF Inv, OwnDispatch
<1>4. PostedOnce'
  BY DEF Inv, TypeOK, PostedOnce
<1>5. QED
  BY <1>1, <1>2, <1>3, <1>4 DEF Inv

\* Each step of a dispatch moves its own task one step on; only SendPrompt posts.
LEMMA DispatchInv ==
  ASSUME Inv, NEW g \in Owners, NEW j \in Jobs, Dispatch(g, j)
  PROVE  Inv'
<1> USE DEF At, SetTask, record, flags, process, upstream
<1>1. CASE StagingFails(g, j) \/ PromptRejected(g, j) \/ OutcomeUnknown(g, j)
  BY <1>1, EndInv DEF StagingFails, PromptRejected, OutcomeUnknown, Terminal
<1>2. CASE UploadsStaged(g, j)
  <2> USE <1>2 DEF UploadsStaged, Finish
  <2>1. TypeOK'
    BY DEF Inv, TypeOK, Statuses, Terminal, TaskSteps, Dispatching
  <2>2. Untouched'
    BY DEF Inv, TypeOK, Untouched
  <2>3. OwnDispatch'
    BY DEF Inv, TypeOK, OwnDispatch, Dispatching
  <2>4. PostedOnce'
    BY DEF Inv, TypeOK, PostedOnce
  <2>5. QED
    BY <2>1, <2>2, <2>3, <2>4 DEF Inv
<1>3. CASE SendPrompt(g, j)
  <2> USE <1>3 DEF SendPrompt
  <2>1. TypeOK'
    BY DEF Inv, TypeOK, TaskSteps, Dispatching, PromptStates
  <2>2. Untouched'
    BY DEF Inv, TypeOK, Untouched
  <2>3. OwnDispatch'
    BY DEF Inv, TypeOK, OwnDispatch, Dispatching
  <2>4. sends[j] = 0
    BY DEF Inv, PostedOnce
  <2>5. \A h \in Owners \ {g} : task[h][j] \notin Dispatching
    BY DEF Inv, OwnDispatch, Dispatching
  <2>6. PostedOnce'
    BY <2>4, <2>5 DEF Inv, TypeOK, PostedOnce, Dispatching
  <2>7. QED
    BY <2>1, <2>2, <2>3, <2>6 DEF Inv
<1>4. CASE PromptRecorded(g, j)
  <2> USE <1>4 DEF PromptRecorded
  <2>1. TypeOK'
    BY DEF Inv, TypeOK, Statuses, Active, TaskSteps
  <2>2. Untouched'
    BY DEF Inv, TypeOK, Untouched
  <2>3. OwnDispatch'
    BY DEF Inv, TypeOK, OwnDispatch, Dispatching
  <2>4. PostedOnce'
    BY DEF Inv, TypeOK, PostedOnce
  <2>5. QED
    BY <2>1, <2>2, <2>3, <2>4 DEF Inv
<1>5. QED
  BY <1>1, <1>2, <1>3, <1>4 DEF Dispatch

\* A monitor never goes back to a dispatch.
LEMMA MonitorInv ==
  ASSUME Inv, NEW g \in Owners, NEW j \in Jobs, Monitor(g, j)
  PROVE  Inv'
<1> USE DEF At, AtPoll, Polling, SetTask, record, flags, process, upstream
<1>1. CASE FoundError(g, j) \/ FoundSuccess(g, j) \/ FoundAbsent(g, j) \/ GivesUp(g, j)
  BY <1>1, EndInv DEF FoundError, FoundSuccess, FoundAbsent, GivesUp, Terminal
<1>2. CASE MonitorReads(g, j) \/ PollAgain(g, j)
  <2> USE <1>2 DEF MonitorReads, PollAgain
  <2>1. TypeOK'
    <3>1. PICK step \in {"none", "monitor", "kill", "late", "watch"} :
            task' = [task EXCEPT ![g][j] = step]
      OBVIOUS
    <3>2. task' \in [Owners -> [Jobs -> TaskSteps]]
      BY <3>1 DEF Inv, TypeOK, TaskSteps
    <3>3. QED
      BY <3>2 DEF Inv, TypeOK
  <2>2. Untouched'
    BY DEF Inv, TypeOK, Untouched
  <2>3. OwnDispatch'
    BY DEF Inv, TypeOK, OwnDispatch, Dispatching
  <2>4. PostedOnce'
    BY DEF Inv, TypeOK, PostedOnce
  <2>5. QED
    BY <2>1, <2>2, <2>3, <2>4 DEF Inv
<1>3. CASE CancelUpstream(g, j)
  <2> USE <1>3 DEF CancelUpstream, WorkerMoves
  <2>1. TypeOK'
    BY DEF Inv, TypeOK, PromptStates
  <2>2. Untouched' /\ OwnDispatch' /\ PostedOnce'
    BY DEF Inv, Untouched, OwnDispatch, PostedOnce
  <2>3. QED
    BY <2>1, <2>2 DEF Inv
<1>4. QED
  BY <1>1, <1>2, <1>3 DEF Monitor

\* Nothing changes, so the invariant stays.
LEMMA StutterInv ==
  ASSUME Inv, UNCHANGED vars
  PROVE  Inv'
  BY DEF Inv, TypeOK, Untouched, OwnDispatch, PostedOnce, vars, record, flags, process, upstream

\* Inv is inductive.
LEMMA NextInv == Inv /\ [Next]_vars => Inv'
<1> SUFFICES ASSUME Inv, [Next]_vars PROVE Inv'
  OBVIOUS
<1>1. CASE Platform
  BY <1>1, PlatformInv DEF Platform
<1>2. CASE \E u \in Restless : ChangeMembership(u)
  BY <1>2, MembershipInv
<1>3. CASE LeaseExpires
  BY <1>3, LeaseInv
<1>4. CASE \E j \in Jobs : WorkerAnswers(j) \/ WorkerEnds(j)
  BY <1>4, WorkerInv
<1>5. CASE \E g \in Owners : Life(g)
  BY <1>5, LifeInv
<1>6. CASE \E g \in Owners : Tick(g)
  BY <1>6, TickInv, ClaimInv, ClaimNothingInv DEF Tick
<1>7. CASE \E g \in Owners, j \in Jobs : Dispatch(g, j) \/ Monitor(g, j)
  BY <1>7, DispatchInv, MonitorInv
<1>8. CASE UNCHANGED vars
  BY <1>8, StutterInv
<1>9. QED
  BY <1>1, <1>2, <1>3, <1>4, <1>5, <1>6, <1>7, <1>8 DEF Next

\* Every variable keeps its type, for any number of jobs, users, workers and
\* gateway processes, with any lease.
THEOREM TypeCorrect == Spec => []TypeOK
<1>1. Inv => TypeOK
  BY DEF Inv
<1>2. QED
  BY InitInv, NextInv, <1>1, PTL DEF Spec

\* scheduler.ts:46, "Never submit it twice": a job's prompt is posted at most
\* once, with any crashes and take-overs, even if leases lapse under their
\* holders.  A claim takes only QUEUED jobs, and no step leads back there.
THEOREM NeverSentTwice == Spec => []SentAtMostOnce
<1>1. Inv => SentAtMostOnce
  BY DEF Inv, PostedOnce, SentAtMostOnce
<1>2. QED
  BY InitInv, NextInv, <1>1, PTL DEF Spec
-----------------------------------------------------------------------------
(***************************************************************************)
(* What a worker still holds.  No assumption on the lease.                 *)
(***************************************************************************)

Unanswered == {"none", "sent", "rejected"}

\* A prompt exists only once posted, and a job that was seen RUNNING has one
\* its worker accepted.
PromptKnown ==
    \A j \in Jobs :
        /\ status[j] \in {"NEW", "QUEUED"} => prompt[j] = "none"
        /\ status[j] = "RUNNING" => prompt[j] \notin Unanswered
        /\ \A g \in Owners :
             /\ task[g][j] \in {"staging", "connecting"} =>
                  prompt[j] = "none" /\ status[j] \in {"DISPATCHING", "LOST"}
             /\ task[g][j] = "posting" => prompt[j] # "none"
             /\ task[g][j] \in {"monitor"} \cup Polling => prompt[j] \notin Unanswered

\* The slot of a posted job is held, or openly LOST, until its worker is done.
SlotHeldUntilAnswered ==
    \A j \in Jobs : prompt[j] \in {"sent", "live"} => status[j] \in Active \cup {"LOST"}

SlotInv == Inv /\ PromptKnown /\ SlotHeldUntilAnswered

\* No prompt exists initially.
LEMMA SlotInit == Init => SlotInv
  BY InitInv DEF Init, SlotInv, PromptKnown, SlotHeldUntilAnswered, Polling

\* Before the post, no other owner has a task for the job.
LEMMA SoleTask ==
  ASSUME SlotInv, NEW g \in Owners, NEW j \in Jobs, task[g][j] \in {"staging", "connecting"}
  PROVE  /\ \A h \in Owners \ {g} : task[h][j] = "none"
         /\ prompt[j] = "none" /\ status[j] \in {"DISPATCHING", "LOST"}
<1>1. prompt[j] = "none" /\ status[j] \in {"DISPATCHING", "LOST"} /\ leaseOwner[j] = g
  BY DEF SlotInv, Inv, OwnDispatch, PromptKnown, Dispatching
<1>2. ASSUME NEW h \in Owners \ {g} PROVE task[h][j] = "none"
  <2>1. task[h][j] \notin Dispatching
    BY <1>1 DEF SlotInv, Inv, OwnDispatch
  <2>2. task[h][j] \notin {"monitor"} \cup Polling
    BY <1>1 DEF SlotInv, PromptKnown, Unanswered
  <2>3. task[h][j] \in TaskSteps
    BY DEF SlotInv, Inv, TypeOK
  <2>4. QED
    BY <2>1, <2>2, <2>3 DEF TaskSteps
<1>3. QED
  BY <1>1, <1>2

\* A job may end, or be lost, once its worker holds nothing of it.
LEMMA SlotEnd ==
  ASSUME SlotInv, NEW g \in Owners, NEW j \in Jobs, NEW result \in Terminal,
         task[g][j] # "none", EndWith(g, j, result),
         result = "LOST" \/ prompt[j] \notin {"sent", "live"}
  PROVE  PromptKnown' /\ SlotHeldUntilAnswered'
<1>1. \A h \in Owners \ {g} : task[h][j] \notin {"staging", "connecting"}
  BY SoleTask
<1>2. QED
  BY <1>1 DEF SlotInv, Inv, TypeOK, PromptKnown, SlotHeldUntilAnswered, EndWith, Finish, SetTask,
     Terminal, Polling, upstream

\* Students, time, membership, the lease and the worker never end an active job.
LEMMA SlotOutside ==
  ASSUME SlotInv, NEW j \in Jobs,
         \/ Submit(j) \/ CancelQueued(j) \/ RequestCancel(j) \/ TimeOut(j)
         \/ WorkerAnswers(j) \/ WorkerEnds(j)
  PROVE  PromptKnown' /\ SlotHeldUntilAnswered'
<1> USE DEF SlotInv, Inv, TypeOK, PromptKnown, SlotHeldUntilAnswered, upstream, Unanswered
<1>1. CASE Submit(j)
  BY <1>1 DEF Submit
<1>2. CASE CancelQueued(j)
  BY <1>2 DEF CancelQueued
<1>3. CASE RequestCancel(j)
  BY <1>3 DEF RequestCancel
<1>4. CASE TimeOut(j)
  BY <1>4 DEF TimeOut
<1>5. CASE WorkerAnswers(j) \/ WorkerEnds(j)
  BY <1>5 DEF WorkerAnswers, WorkerEnds, WorkerMoves
<1>6. QED
  BY <1>1, <1>2, <1>3, <1>4, <1>5

\* A dispatch ends its job before the post, on a rejection, or as LOST.
LEMMA SlotDispatch ==
  ASSUME SlotInv, NEW g \in Owners, NEW j \in Jobs, Dispatch(g, j)
  PROVE  PromptKnown' /\ SlotHeldUntilAnswered'
<1> USE DEF At, SetTask
<1>1. CASE StagingFails(g, j) \/ PromptRejected(g, j) \/ OutcomeUnknown(g, j)
  BY <1>1, SlotEnd
     DEF StagingFails, PromptRejected, OutcomeUnknown, Terminal, SlotInv, PromptKnown
<1>2. CASE UploadsStaged(g, j)
  <2>1. /\ \A h \in Owners \ {g} : task[h][j] = "none"
        /\ prompt[j] = "none" /\ status[j] \in {"DISPATCHING", "LOST"}
    BY <1>2, SoleTask DEF UploadsStaged
  <2>2. PICK step \in {"connecting", "none"} :
          /\ task' = [task EXCEPT ![g][j] = step]
          /\ \/ status' = status
             \/ step = "none" /\ status' = [status EXCEPT ![j] = "CANCELLED"]
    BY <1>2 DEF UploadsStaged, Finish
  <2>3. UNCHANGED prompt
    BY <1>2 DEF UploadsStaged, upstream
  <2>4. CASE status' = status
    BY <2>1, <2>2, <2>3, <2>4 DEF SlotInv, Inv, TypeOK, PromptKnown, SlotHeldUntilAnswered, Polling
  <2>5. CASE step = "none" /\ status' = [status EXCEPT ![j] = "CANCELLED"]
    BY <2>1, <2>2, <2>3, <2>5 DEF SlotInv, Inv, TypeOK, PromptKnown, SlotHeldUntilAnswered, Polling
  <2>6. QED
    BY <2>2, <2>4, <2>5
<1>3. CASE SendPrompt(g, j)
  <2>1. /\ \A h \in Owners \ {g} : task[h][j] = "none"
        /\ prompt[j] = "none" /\ status[j] \in {"DISPATCHING", "LOST"}
    BY <1>3, SoleTask DEF SendPrompt
  <2>2. /\ task' = [task EXCEPT ![g][j] = "posting"]
        /\ prompt' = [prompt EXCEPT ![j] = "sent"]
        /\ UNCHANGED status
    BY <1>3 DEF SendPrompt
  <2>3. QED
    BY <2>1, <2>2 DEF SlotInv, Inv, TypeOK, PromptKnown, SlotHeldUntilAnswered, Polling, Active
<1>4. CASE PromptRecorded(g, j)
  BY <1>4 DEF PromptRecorded, SlotInv, Inv, TypeOK, PromptKnown, SlotHeldUntilAnswered,
     Unanswered, Polling, Active, upstream
<1>5. QED
  BY <1>1, <1>2, <1>3, <1>4 DEF Dispatch

\* A monitor ends its job on what the worker's history or queue shows, or as LOST.
LEMMA SlotMonitor ==
  ASSUME SlotInv, NEW g \in Owners, NEW j \in Jobs, Monitor(g, j)
  PROVE  PromptKnown' /\ SlotHeldUntilAnswered'
<1> USE DEF At, AtPoll, Polling, SetTask
<1>1. prompt[j] \notin Unanswered
  BY DEF Monitor, MonitorReads, CancelUpstream, FoundError, FoundSuccess, FoundAbsent, GivesUp,
     PollAgain, SlotInv, PromptKnown
<1>2. CASE FoundError(g, j) \/ FoundSuccess(g, j) \/ FoundAbsent(g, j) \/ GivesUp(g, j)
  BY <1>1, <1>2, SlotEnd DEF FoundError, FoundSuccess, FoundAbsent, GivesUp, Terminal, Unanswered
<1>3. CASE MonitorReads(g, j) \/ PollAgain(g, j)
  <2>1. PICK step \in {"none", "monitor"} \cup Polling :
          task' = [task EXCEPT ![g][j] = step]
    BY <1>3 DEF MonitorReads, PollAgain
  <2>2. UNCHANGED <<status, prompt>>
    BY <1>3 DEF MonitorReads, PollAgain, upstream
  <2>3. QED
    BY <1>1, <2>1, <2>2 DEF SlotInv, Inv, TypeOK, PromptKnown, SlotHeldUntilAnswered
<1>4. CASE CancelUpstream(g, j)
  BY <1>1, <1>4 DEF CancelUpstream, WorkerMoves, SlotInv, Inv, TypeOK, PromptKnown,
     SlotHeldUntilAnswered, Unanswered
<1>5. QED
  BY <1>2, <1>3, <1>4 DEF Monitor

\* Everything a process does apart from its dispatches and monitors.
LEMMA SlotProcess ==
  ASSUME SlotInv, NEW g \in Owners, Life(g) \/ Tick(g)
  PROVE  PromptKnown' /\ SlotHeldUntilAnswered'
<1>1. CASE Crash(g) \/ Exit(g)
  <2>1. task' = [task EXCEPT ![g] = [j \in Jobs |-> "none"]] /\ UNCHANGED <<status, prompt>>
    BY <1>1 DEF Crash, Exit, Die, upstream
  <2>2. \A h \in Owners, j \in Jobs : task'[h][j] \in {task[h][j], "none"}
    BY <2>1 DEF SlotInv, Inv, TypeOK
  <2>3. QED
    BY <2>1, <2>2 DEF SlotInv, PromptKnown, SlotHeldUntilAnswered, Polling
<1>2. CASE \/ Boot(g) \/ Stop(g) \/ Renew(g) \/ RenewThrows(g) \/ TickBegins(g)
           \/ \E clean \in SUBSET Workers : HealthChecked(g, clean)
  <2>1. UNCHANGED <<status, task, prompt>>
    BY <1>2 DEF Boot, Stop, Renew, RenewThrows, TickBegins, HealthChecked, upstream
  <2>2. QED
    BY <2>1 DEF SlotInv, PromptKnown, SlotHeldUntilAnswered
<1>3. CASE Sweep(g)
  BY <1>3 DEF Sweep, upstream, SlotInv, Inv, TypeOK, PromptKnown, SlotHeldUntilAnswered, Active
<1>4. CASE Adopt(g)
  BY <1>4 DEF Adopt, upstream, SlotInv, Inv, TypeOK, PromptKnown, SlotHeldUntilAnswered, Polling
<1>5. CASE ClaimJob(g)
  <2>1. PICK j \in Claimable :
          /\ status' = [k \in Jobs |->
                 IF k = j THEN "DISPATCHING"
                 ELSE IF k \in Dropped({i \in Jobs : Before(i, j)}) THEN "CANCELLED"
                 ELSE status[k]]
          /\ task' = [task EXCEPT ![g][j] = "staging"]
    BY <1>5 DEF ClaimJob, SetTask
  <2>2. j \in Jobs /\ status[j] = "QUEUED" /\ UNCHANGED prompt
    BY <1>5 DEF Claimable, ClaimJob, upstream
  <2>3. prompt[j] = "none" /\ \A h \in Owners : task[h][j] = "none"
    BY <2>2 DEF SlotInv, PromptKnown, Inv, Untouched
  <2>4. \A k \in Jobs : status'[k] \in {"DISPATCHING", "CANCELLED", status[k]}
    BY <2>1
  <2>5. \A k \in Jobs \ {j} : status'[k] # status[k] => status[k] = "QUEUED"
    BY <2>1 DEF Dropped
  <2>6. \A h \in Owners, k \in Jobs \ {j} : task'[h][k] = task[h][k]
    BY <2>1, <2>2 DEF SlotInv, Inv, TypeOK
  <2>7. \A h \in Owners : task'[h][j] \in {"none", "staging"}
    BY <2>1, <2>2, <2>3 DEF SlotInv, Inv, TypeOK
  <2>8. status'[j] = "DISPATCHING"
    BY <2>1, <2>2
  <2>9. PromptKnown'
    BY <2>2, <2>3, <2>4, <2>5, <2>6, <2>7, <2>8 DEF SlotInv, PromptKnown, Inv, Untouched, Polling
  <2>10. SlotHeldUntilAnswered'
    BY <2>2, <2>3, <2>4, <2>5, <2>8 DEF SlotInv, PromptKnown, SlotHeldUntilAnswered, Active
  <2>11. QED
    BY <2>9, <2>10
<1>6. CASE ClaimNothing(g)
  <2>1. \A k \in Jobs : status'[k] # status[k] => status[k] = "QUEUED" /\ status'[k] = "CANCELLED"
    BY <1>6 DEF ClaimNothing, Dropped
  <2>2. UNCHANGED <<task, prompt>>
    BY <1>6 DEF ClaimNothing, upstream
  <2>3. QED
    BY <2>1, <2>2 DEF SlotInv, PromptKnown, SlotHeldUntilAnswered, Inv, Untouched
<1>7. QED
  BY <1>1, <1>2, <1>3, <1>4, <1>5, <1>6 DEF Life, Tick

\* SlotInv is inductive.
LEMMA SlotNext == SlotInv /\ [Next]_vars => SlotInv'
<1> SUFFICES ASSUME SlotInv, [Next]_vars PROVE SlotInv'
  OBVIOUS
<1>1. Inv'
  BY NextInv DEF SlotInv
<1>2. CASE Platform \/ \E j \in Jobs : WorkerAnswers(j) \/ WorkerEnds(j)
  BY <1>1, <1>2, SlotOutside DEF Platform, SlotInv
<1>3. CASE (\E u \in Restless : ChangeMembership(u)) \/ LeaseExpires \/ UNCHANGED vars
  <2>1. UNCHANGED <<status, task, prompt>>
    BY <1>3 DEF ChangeMembership, LeaseExpires, vars, upstream
  <2>2. QED
    BY <1>1, <2>1 DEF SlotInv, PromptKnown, SlotHeldUntilAnswered
<1>4. CASE \E g \in Owners : Life(g) \/ Tick(g)
  BY <1>1, <1>4, SlotProcess DEF SlotInv
<1>5. CASE \E g \in Owners, j \in Jobs : Dispatch(g, j) \/ Monitor(g, j)
  BY <1>1, <1>5, SlotDispatch, SlotMonitor DEF SlotInv
<1>6. QED
  BY <1>2, <1>3, <1>4, <1>5 DEF Next

\* scheduler.ts:332, "Keep the slot reserved until terminal state is known": no
\* job the platform reports FAILED, CANCELLED or COMPLETED is executing on a
\* worker, even if leases lapse under their holders.
THEOREM NothingRunsUnaccounted == Spec => []SlotHeldWhileExecuting
<1>1. SlotInv => SlotHeldWhileExecuting
  BY DEF SlotInv, SlotHeldUntilAnswered, SlotHeldWhileExecuting
<1>2. QED
  BY SlotInit, SlotNext, <1>1, PTL DEF Spec
-----------------------------------------------------------------------------
(***************************************************************************)
(* What the lease protects, as long as it outlives its holder: ~LeaseMay-  *)
(* Lapse is a hypothesis of every result below.                            *)
(***************************************************************************)

\* Whoever leads, ticks or serves a job is the owner of the lease.
HolderOnly ==
    \A g \in Owners :
        /\ g \in leader => proc[g] = "up" /\ lease = g
        /\ phase[g] \in InTransaction => g \in leader
        /\ \A j \in Jobs : task[g][j] # "none" => lease = g /\ proc[g] # "dead"

\* A task finds its job in the status the task itself left it in.
TaskStatus ==
    \A g \in Owners, j \in Jobs :
        /\ task[g][j] \in Dispatching => status[j] = "DISPATCHING"
        /\ task[g][j] \in {"monitor"} \cup Polling => status[j] = "RUNNING"

HeldInv == Inv /\ HolderOnly /\ TaskStatus

\* Nobody holds the lease initially.
LEMMA HeldInit == Init => HeldInv
  BY InitInv DEF Init, HeldInv, HolderOnly, TaskStatus, InTransaction, Dispatching, Polling

\* The only task for a job, then, is the lease owner's.
LEMMA OneServer ==
  ASSUME HeldInv, NEW g \in Owners, NEW j \in Jobs, task[g][j] # "none"
  PROVE  /\ \A h \in Owners \ {g} : task[h][j] = "none"
         /\ status[j] \in Active
<1>1. \A h \in Owners \ {g} : task[h][j] = "none"
  BY DEF HeldInv, HolderOnly
<1>2. task[g][j] \in TaskSteps
  BY DEF HeldInv, Inv, TypeOK
<1>3. status[j] \in Active
  BY <1>2 DEF HeldInv, TaskStatus, TaskSteps, Active
<1>4. QED
  BY <1>1, <1>3

\* The owner that serves a job may end it.
LEMMA HeldEnd ==
  ASSUME HeldInv, NEW g \in Owners, NEW j \in Jobs, NEW result \in Terminal,
         task[g][j] # "none", EndWith(g, j, result)
  PROVE  HolderOnly' /\ TaskStatus'
  BY OneServer DEF HeldInv, Inv, TypeOK, HolderOnly, TaskStatus, EndWith, Finish, SetTask, process,
     Dispatching, Polling

\* Students, time, membership and the worker change no task and no active status.
LEMMA HeldOutside ==
  ASSUME HeldInv, NEW j \in Jobs,
         \/ Submit(j) \/ CancelQueued(j) \/ RequestCancel(j) \/ TimeOut(j)
         \/ WorkerAnswers(j) \/ WorkerEnds(j)
  PROVE  HolderOnly' /\ TaskStatus'
<1>1. UNCHANGED <<process, task>>
  BY DEF Submit, CancelQueued, RequestCancel, TimeOut, WorkerAnswers, WorkerEnds, WorkerMoves
<1>2. \A k \in Jobs : status'[k] # status[k] => status[k] \in {"NEW", "QUEUED"}
  BY DEF Submit, CancelQueued, RequestCancel, TimeOut, WorkerAnswers, WorkerEnds, WorkerMoves,
     HeldInv, Inv, TypeOK
<1>3. QED
  BY <1>1, <1>2 DEF process, HeldInv, HolderOnly, TaskStatus, Inv, Untouched, Dispatching, Polling

\* A dispatch leaves its job in the status its next step expects.
LEMMA HeldDispatch ==
  ASSUME HeldInv, NEW g \in Owners, NEW j \in Jobs, Dispatch(g, j)
  PROVE  HolderOnly' /\ TaskStatus'
<1> USE DEF At, SetTask
<1>1. CASE StagingFails(g, j) \/ PromptRejected(g, j) \/ OutcomeUnknown(g, j)
  BY <1>1, HeldEnd DEF StagingFails, PromptRejected, OutcomeUnknown, Terminal
<1>2. CASE UploadsStaged(g, j) \/ SendPrompt(g, j) \/ PromptRecorded(g, j)
  <2>1. task[g][j] # "none" /\ \A h \in Owners \ {g} : task[h][j] = "none"
    BY <1>2, OneServer DEF UploadsStaged, SendPrompt, PromptRecorded
  <2>2. UNCHANGED process
    BY <1>2 DEF UploadsStaged, SendPrompt, PromptRecorded
  <2>3. HolderOnly'
    BY <1>2, <2>1, <2>2 DEF UploadsStaged, SendPrompt, PromptRecorded, process, HeldInv, Inv, TypeOK,
       HolderOnly
  <2>4. CASE UploadsStaged(g, j)
    BY <2>1, <2>3, <2>4 DEF UploadsStaged, Finish, HeldInv, Inv, TypeOK, TaskStatus, Dispatching, Polling
  <2>5. CASE SendPrompt(g, j)
    BY <2>1, <2>3, <2>5 DEF SendPrompt, HeldInv, Inv, TypeOK, TaskStatus, Dispatching, Polling
  <2>6. CASE PromptRecorded(g, j)
    BY <2>1, <2>3, <2>6 DEF PromptRecorded, HeldInv, Inv, TypeOK, TaskStatus, Dispatching, Polling
  <2>7. QED
    BY <1>2, <2>3, <2>4, <2>5, <2>6
<1>3. QED
  BY <1>1, <1>2 DEF Dispatch

\* So does a monitor.
LEMMA HeldMonitor ==
  ASSUME HeldInv, NEW g \in Owners, NEW j \in Jobs, Monitor(g, j)
  PROVE  HolderOnly' /\ TaskStatus'
<1> USE DEF At, AtPoll, Polling, SetTask
<1>1. CASE FoundError(g, j) \/ FoundSuccess(g, j) \/ FoundAbsent(g, j) \/ GivesUp(g, j)
  BY <1>1, HeldEnd DEF FoundError, FoundSuccess, FoundAbsent, GivesUp, Terminal
<1>2. CASE MonitorReads(g, j) \/ PollAgain(g, j)
  <2>1. /\ task[g][j] \in {"monitor"} \cup Polling
        /\ \E step \in {"none", "monitor"} \cup Polling : task' = [task EXCEPT ![g][j] = step]
    BY <1>2 DEF MonitorReads, PollAgain
  <2>2. UNCHANGED <<status, process>>
    BY <1>2 DEF MonitorReads, PollAgain
  <2>3. QED
    BY <2>1, <2>2 DEF process, HeldInv, Inv, TypeOK, HolderOnly, TaskStatus, Dispatching
<1>3. CASE CancelUpstream(g, j)
  BY <1>3 DEF CancelUpstream, WorkerMoves, process, HeldInv, HolderOnly, TaskStatus
<1>4. QED
  BY <1>1, <1>2, <1>3 DEF Monitor

\* A lease that outlives its holder runs out only when the holder has no tasks left.
LEMMA HeldLease ==
  ASSUME HeldInv, ~LeaseMayLapse, LeaseExpires
  PROVE  HolderOnly' /\ TaskStatus'
  BY DEF LeaseExpires, MayExpire, HeldInv, Inv, TypeOK, HolderOnly, TaskStatus

\* Only a process without competitors becomes leader.
LEMMA HeldLife ==
  ASSUME HeldInv, NEW g \in Owners, Life(g)
  PROVE  HolderOnly' /\ TaskStatus'
<1>1. CASE Crash(g) \/ Exit(g)
  <2>1. /\ proc' = [proc EXCEPT ![g] = "dead"]
        /\ leader' = leader \ {g}
        /\ phase' = [phase EXCEPT ![g] = "idle"]
        /\ task' = [task EXCEPT ![g] = [j \in Jobs |-> "none"]]
        /\ UNCHANGED <<status, lease>>
    BY <1>1 DEF Crash, Exit, Die
  <2>2. \A j \in Jobs : task'[g][j] = "none"
    BY <2>1 DEF HeldInv, Inv, TypeOK
  <2>3. \A h \in Owners \ {g} : task'[h] = task[h] /\ proc'[h] = proc[h] /\ phase'[h] = phase[h]
    BY <2>1 DEF HeldInv, Inv, TypeOK
  <2>4. phase'[g] = "idle" /\ g \notin leader'
    BY <2>1 DEF HeldInv, Inv, TypeOK
  <2>5. QED
    BY <2>1, <2>2, <2>3, <2>4 DEF HeldInv, HolderOnly, TaskStatus, InTransaction, Dispatching, Polling
<1>2. CASE Boot(g) \/ Stop(g)
  BY <1>2 DEF Boot, Stop, Awake, HeldInv, Inv, TypeOK, HolderOnly, TaskStatus
<1>3. CASE Renew(g) \/ RenewThrows(g)
  BY <1>3, PlatformAssumption DEF Renew, RenewThrows, Obtainable, Awake, HeldInv, Inv, TypeOK, HolderOnly, TaskStatus
<1>4. QED
  BY <1>1, <1>2, <1>3 DEF Life

\* The tick of the lease owner hands each job to its own tasks.
LEMMA HeldTick ==
  ASSUME HeldInv, NEW g \in Owners, Tick(g)
  PROVE  HolderOnly' /\ TaskStatus'
<1>1. CASE TickBegins(g) \/ \E clean \in SUBSET Workers : HealthChecked(g, clean)
  BY <1>1 DEF TickBegins, HealthChecked, HeldInv, Inv, TypeOK, HolderOnly, TaskStatus, InTransaction
<1>2. CASE Sweep(g)
  <2>1. g \in leader
    BY <1>2 DEF Sweep, HeldInv, HolderOnly, InTransaction
  <2>2. \A h \in Owners \ {g}, j \in Jobs : task[h][j] = "none"
    BY <2>1 DEF HeldInv, HolderOnly
  <2>3. \A j \in Jobs : task[g][j] # "none" => status'[j] = status[j]
    BY <1>2 DEF Sweep, HeldInv, Inv, TypeOK, OwnDispatch, TaskStatus, TaskSteps
  <2>4. HolderOnly'
    BY <1>2, <2>1 DEF Sweep, HeldInv, Inv, TypeOK, HolderOnly
  <2>5. TaskStatus'
    BY <1>2, <2>2, <2>3 DEF Sweep, HeldInv, TaskStatus, Dispatching, Polling
  <2>6. QED
    BY <2>4, <2>5
<1>3. CASE Adopt(g)
  <2>1. g \in leader /\ lease = g /\ proc[g] = "up"
    BY <1>3 DEF Adopt, HeldInv, HolderOnly, InTransaction
  <2>2. HolderOnly'
    BY <1>3, <2>1 DEF Adopt, HeldInv, Inv, TypeOK, HolderOnly, InTransaction
  <2>3. TaskStatus'
    BY <1>3 DEF Adopt, HeldInv, Inv, TypeOK, TaskStatus, Dispatching, Polling
  <2>4. QED
    BY <2>2, <2>3
<1>4. CASE ClaimJob(g)
  <2>1. PICK j \in Claimable :
          /\ status' = [k \in Jobs |->
                 IF k = j THEN "DISPATCHING"
                 ELSE IF k \in Dropped({i \in Jobs : Before(i, j)}) THEN "CANCELLED"
                 ELSE status[k]]
          /\ task' = [task EXCEPT ![g][j] = "staging"]
    BY <1>4 DEF ClaimJob, SetTask
  <2>2. j \in Jobs /\ status[j] = "QUEUED" /\ UNCHANGED process
    BY <1>4 DEF Claimable, ClaimJob
  <2>3. g \in leader /\ lease = g /\ proc[g] = "up"
    BY <1>4 DEF ClaimJob, HeldInv, HolderOnly
  <2>4. \A k \in Jobs \ {j} : status'[k] # status[k] => status[k] = "QUEUED"
    BY <2>1 DEF Dropped
  <2>5. \A h \in Owners : task[h][j] = "none"
    BY <2>2 DEF HeldInv, Inv, Untouched
  <2>6. HolderOnly'
    BY <2>1, <2>2, <2>3 DEF process, HeldInv, Inv, TypeOK, HolderOnly
  <2>7. TaskStatus'
    <3> SUFFICES ASSUME NEW h \in Owners, NEW k \in Jobs
        PROVE  /\ task'[h][k] \in Dispatching => status'[k] = "DISPATCHING"
               /\ task'[h][k] \in {"monitor"} \cup Polling => status'[k] = "RUNNING"
      BY DEF TaskStatus
    <3> USE DEF Dispatching, Polling
    <3>1. task \in [Owners -> [Jobs -> TaskSteps]] /\ TaskStatus
      BY DEF HeldInv, Inv, TypeOK
    <3>2. CASE k = j
      <4>1. status'[k] = "DISPATCHING"
        BY <2>1, <3>2
      <4>2. task'[h][k] \in {"none", "staging"}
        BY <2>1, <2>5, <3>1, <3>2
      <4>3. QED
        BY <4>1, <4>2
    <3>3. CASE k # j
      <4>1. task'[h][k] = task[h][k]
        BY <2>1, <3>1, <3>3
      <4>2. CASE status[k] = "QUEUED"
        BY <4>1, <4>2, <3>1 DEF TaskStatus
      <4>3. CASE status[k] # "QUEUED"
        BY <4>1, <4>3, <2>4, <3>1, <3>3 DEF TaskStatus
      <4>4. QED
        BY <4>2, <4>3
    <3>4. QED
      BY <3>2, <3>3
  <2>8. QED
    BY <2>6, <2>7
<1>5. CASE ClaimNothing(g)
  <2>1. \A k \in Jobs : status'[k] # status[k] => status[k] = "QUEUED"
    BY <1>5 DEF ClaimNothing, Dropped
  <2>2. HolderOnly'
    BY <1>5 DEF ClaimNothing, HeldInv, Inv, TypeOK, HolderOnly, InTransaction
  <2>3. TaskStatus'
    BY <1>5, <2>1 DEF ClaimNothing, HeldInv, TaskStatus, Dispatching, Polling
  <2>4. QED
    BY <2>2, <2>3
<1>6. QED
  BY <1>1, <1>2, <1>3, <1>4, <1>5 DEF Tick

\* HeldInv is inductive as long as a lease outlives its holder.
LEMMA HeldNext == ~LeaseMayLapse /\ HeldInv /\ [Next]_vars => HeldInv'
<1> SUFFICES ASSUME ~LeaseMayLapse, HeldInv, [Next]_vars PROVE HeldInv'
  OBVIOUS
<1>1. Inv'
  BY NextInv DEF HeldInv
<1>2. CASE Platform \/ \E j \in Jobs : WorkerAnswers(j) \/ WorkerEnds(j)
  BY <1>1, <1>2, HeldOutside DEF Platform, HeldInv
<1>3. CASE (\E u \in Restless : ChangeMembership(u)) \/ UNCHANGED vars
  <2>1. UNCHANGED <<status, process, task>>
    BY <1>3 DEF ChangeMembership, vars
  <2>2. QED
    BY <1>1, <2>1 DEF process, HeldInv, HolderOnly, TaskStatus
<1>4. CASE LeaseExpires
  BY <1>1, <1>4, HeldLease DEF HeldInv
<1>5. CASE \E g \in Owners : Life(g) \/ Tick(g)
  BY <1>1, <1>5, HeldLife, HeldTick DEF HeldInv
<1>6. CASE \E g \in Owners, j \in Jobs : Dispatch(g, j) \/ Monitor(g, j)
  BY <1>1, <1>6, HeldDispatch, HeldMonitor DEF HeldInv
<1>7. QED
  BY <1>2, <1>3, <1>4, <1>5, <1>6 DEF Next
-----------------------------------------------------------------------------
(* How a step may change the status of a job. *)

\* Every move of a job's life but the claim.
OtherMoves == Lifecycle!Moves \ {<<"QUEUED", "DISPATCHING">>}

\* No job becomes active; each keeps its status, or moves on.
MovesOn ==
    /\ DOMAIN status' = Jobs
    /\ \A j \in Jobs : status'[j] # status[j] => <<status[j], status'[j]>> \in OtherMoves
    /\ UNCHANGED worker

\* The moves the steps below are made of.
LEMMA MoveFacts ==
  /\ <<"NEW", "QUEUED">> \in OtherMoves /\ <<"QUEUED", "CANCELLED">> \in OtherMoves
  /\ <<"DISPATCHING", "RUNNING">> \in OtherMoves
  /\ <<"RUNNING", "COMPLETED">> \in OtherMoves
  /\ \A result \in {"FAILED", "CANCELLED", "LOST"} :
       <<"DISPATCHING", result>> \in OtherMoves /\ <<"RUNNING", result>> \in OtherMoves
  BY DEF OtherMoves, Lifecycle!Moves

\* The ends a job may come to are moves of its life.
LEMMA EndMovesOn ==
  ASSUME HeldInv, NEW g \in Owners, NEW j \in Jobs, NEW result \in Terminal,
         task[g][j] # "none", EndWith(g, j, result),
         result = "COMPLETED" => task[g][j] \in Polling
  PROVE  MovesOn
<1>1. status[j] \in Active /\ (result = "COMPLETED" => status[j] = "RUNNING")
  BY OneServer DEF HeldInv, TaskStatus
<1>2. <<status[j], result>> \in OtherMoves
  BY <1>1, MoveFacts DEF Active, Terminal
<1>3. QED
  BY <1>2 DEF MovesOn, EndWith, Finish, record, HeldInv, Inv, TypeOK

\* Every step of a dispatch is a move or changes no status.
LEMMA DispatchMovesOn ==
  ASSUME HeldInv, NEW g \in Owners, NEW j \in Jobs, Dispatch(g, j)
  PROVE  MovesOn
<1> USE DEF At
<1>1. CASE StagingFails(g, j) \/ PromptRejected(g, j) \/ OutcomeUnknown(g, j)
  BY <1>1, EndMovesOn DEF StagingFails, PromptRejected, OutcomeUnknown, Terminal
<1>2. CASE UploadsStaged(g, j) \/ SendPrompt(g, j) \/ PromptRecorded(g, j)
  <2>1. status[j] = "DISPATCHING"
    BY <1>2 DEF UploadsStaged, SendPrompt, PromptRecorded, HeldInv, TaskStatus, Dispatching
  <2>2. \/ UNCHANGED status
        \/ status' = [status EXCEPT ![j] = "CANCELLED"]
        \/ status' = [status EXCEPT ![j] = "RUNNING"]
    BY <1>2 DEF UploadsStaged, SendPrompt, PromptRecorded, Finish
  <2>3. UNCHANGED worker
    BY <1>2 DEF UploadsStaged, SendPrompt, PromptRecorded, record
  <2>4. QED
    BY <2>1, <2>2, <2>3, MoveFacts DEF MovesOn, HeldInv, Inv, TypeOK
<1>3. QED
  BY <1>1, <1>2 DEF Dispatch

\* So is every step of a monitor.
LEMMA MonitorMovesOn ==
  ASSUME HeldInv, NEW g \in Owners, NEW j \in Jobs, Monitor(g, j)
  PROVE  MovesOn
<1> USE DEF AtPoll, Polling
<1>1. CASE FoundError(g, j) \/ FoundSuccess(g, j) \/ FoundAbsent(g, j) \/ GivesUp(g, j)
  BY <1>1, EndMovesOn DEF FoundError, FoundSuccess, FoundAbsent, GivesUp, Terminal
<1>2. CASE MonitorReads(g, j) \/ PollAgain(g, j) \/ CancelUpstream(g, j)
  BY <1>2 DEF MonitorReads, PollAgain, CancelUpstream, WorkerMoves, MovesOn, record, HeldInv, Inv,
     TypeOK
<1>3. QED
  BY <1>1, <1>2 DEF Monitor

\* So is every step of students, time and the worker.
LEMMA OutsideMovesOn ==
  ASSUME HeldInv, NEW j \in Jobs,
         \/ Submit(j) \/ CancelQueued(j) \/ RequestCancel(j) \/ TimeOut(j)
         \/ WorkerAnswers(j) \/ WorkerEnds(j)
  PROVE  MovesOn
<1>1. \/ UNCHANGED status
      \/ status[j] = "NEW" /\ status' = [status EXCEPT ![j] = "QUEUED"]
      \/ status[j] = "QUEUED" /\ status' = [status EXCEPT ![j] = "CANCELLED"]
  BY DEF Submit, CancelQueued, RequestCancel, TimeOut, WorkerAnswers, WorkerEnds, WorkerMoves
<1>2. UNCHANGED worker
  BY DEF Submit, CancelQueued, RequestCancel, TimeOut, WorkerAnswers, WorkerEnds, WorkerMoves, record
<1>3. QED
  BY <1>1, <1>2, MoveFacts DEF MovesOn, HeldInv, Inv, TypeOK

\* So is every step of a process but the claim.
LEMMA ProcessMovesOn ==
  ASSUME HeldInv, NEW g \in Owners, Life(g) \/ Tick(g), ~ClaimJob(g)
  PROVE  MovesOn
<1>1. CASE Life(g) \/ TickBegins(g) \/ Adopt(g)
           \/ \E clean \in SUBSET Workers : HealthChecked(g, clean)
  BY <1>1 DEF Life, Boot, Crash, Stop, Exit, Die, Renew, RenewThrows, TickBegins, Adopt,
     HealthChecked, MovesOn, record, HeldInv, Inv, TypeOK
<1>2. CASE Sweep(g)
  BY <1>2, MoveFacts DEF Sweep, MovesOn, record
<1>3. CASE ClaimNothing(g)
  <2>1. \A k \in Jobs : status'[k] # status[k] => status[k] = "QUEUED" /\ status'[k] = "CANCELLED"
    BY <1>3 DEF ClaimNothing, Dropped
  <2>2. DOMAIN status' = Jobs /\ UNCHANGED worker
    BY <1>3 DEF ClaimNothing, record, HeldInv, Inv, TypeOK
  <2>3. QED
    BY <2>1, <2>2, MoveFacts DEF MovesOn
<1>4. QED
  BY <1>1, <1>2, <1>3 DEF Tick

\* A claim moves one job into DISPATCHING, and cancels queued jobs.
Claims(j, w) ==
    /\ status[j] = "QUEUED" /\ UnderLimit(UserOf[j]) /\ HasRoom(w)
    /\ DOMAIN status' = Jobs
    /\ status'[j] = "DISPATCHING"
    /\ \A k \in Jobs \ {j} :
         status'[k] # status[k] => status[k] = "QUEUED" /\ status'[k] = "CANCELLED"
    /\ worker' = [worker EXCEPT ![j] = w]

\* A claim activates one claimable job on one worker with room.
LEMMA ClaimClaims ==
  ASSUME HeldInv, NEW g \in Owners, ClaimJob(g)
  PROVE  \E j \in Jobs, w \in Workers : Claims(j, w)
<1>1. PICK j \in Claimable :
        /\ \E w \in LeastLoaded(Eligible(j)) : worker' = [worker EXCEPT ![j] = w]
        /\ status' = [k \in Jobs |->
               IF k = j THEN "DISPATCHING"
               ELSE IF k \in Dropped({i \in Jobs : Before(i, j)}) THEN "CANCELLED"
               ELSE status[k]]
  BY DEF ClaimJob
<1>2. j \in Jobs /\ status[j] = "QUEUED" /\ UnderLimit(UserOf[j])
  BY DEF Claimable
<1>3. PICK w \in Workers : HasRoom(w) /\ worker' = [worker EXCEPT ![j] = w]
  BY <1>1, PlatformAssumption DEF LeastLoaded, Eligible, HeldInv, Inv, TypeOK
<1>4. \A k \in Jobs \ {j} :
        status'[k] # status[k] => status[k] = "QUEUED" /\ status'[k] = "CANCELLED"
  BY <1>1 DEF Dropped
<1>5. QED
  BY <1>1, <1>2, <1>3, <1>4 DEF Claims

\* Every step of the scheduler is one of the two.
LEMMA StepMoves ==
  ASSUME HeldInv, [Next]_vars
  PROVE  MovesOn \/ \E j \in Jobs, w \in Workers : Claims(j, w)
<1>1. CASE Platform \/ \E j \in Jobs : WorkerAnswers(j) \/ WorkerEnds(j)
  BY <1>1, OutsideMovesOn DEF Platform
<1>2. CASE (\E u \in Restless : ChangeMembership(u)) \/ LeaseExpires \/ UNCHANGED vars
  BY <1>2 DEF ChangeMembership, LeaseExpires, vars, record, MovesOn, HeldInv, Inv, TypeOK
<1>3. CASE \E g \in Owners : Life(g) \/ Tick(g)
  BY <1>3, ProcessMovesOn, ClaimClaims
<1>4. CASE \E g \in Owners, j \in Jobs : Dispatch(g, j) \/ Monitor(g, j)
  BY <1>4, DispatchMovesOn, MonitorMovesOn
<1>5. QED
  BY <1>1, <1>2, <1>3, <1>4 DEF Next
-----------------------------------------------------------------------------
(* Capacity and limits. *)

\* No move but the claim leads into the active statuses.
LEMMA OtherMovesEnd ==
  ASSUME NEW a, NEW b, <<a, b>> \in OtherMoves
  PROVE  b \in Active => a \in Active
  BY DEF OtherMoves, Lifecycle!Moves, Active

\* There are finitely many active jobs, so they can be counted.
LEMMA ActiveFinite ==
  ASSUME NEW S, S \subseteq ActiveJobs
  PROVE  IsFiniteSet(S) /\ Cardinality(S) \in Nat
<1>1. IsFiniteSet(Jobs)
  BY BoundsAssumption, FS_Interval DEF Jobs
<1>2. S \subseteq Jobs
  BY DEF ActiveJobs
<1>3. QED
  BY <1>1, <1>2, FS_Subset, FS_CardinalityType

\* Without a claim nobody's active jobs grow.
LEMMA MovesOnShrinks ==
  ASSUME HeldInv, MovesOn
  PROVE  /\ \A w \in Workers : ActiveOn(w)' \subseteq ActiveOn(w)
         /\ \A u \in Users : ActiveOf(u)' \subseteq ActiveOf(u)
<1>1. ActiveJobs' \subseteq ActiveJobs
  BY OtherMovesEnd DEF MovesOn, ActiveJobs
<1>2. QED
  BY <1>1 DEF MovesOn, ActiveOn, ActiveOf

\* A claim adds the claimed job, to one worker and one user.
LEMMA ClaimsAdd ==
  ASSUME HeldInv, NEW j \in Jobs, NEW w \in Workers, Claims(j, w)
  PROVE  /\ ActiveOn(w)' \subseteq ActiveOn(w) \cup {j}
         /\ \A v \in Workers \ {w} : ActiveOn(v)' \subseteq ActiveOn(v)
         /\ \A u \in Users : ActiveOf(u)' \subseteq
                IF u = UserOf[j] THEN ActiveOf(u) \cup {j} ELSE ActiveOf(u)
<1>1. ActiveJobs' \subseteq ActiveJobs \cup {j}
  BY DEF Claims, ActiveJobs, Active
<1>2. \A k \in Jobs \ {j} : worker'[k] = worker[k]
  BY DEF Claims, HeldInv, Inv, TypeOK
<1>3. worker'[j] = w
  BY DEF Claims, HeldInv, Inv, TypeOK
<1>4. QED
  BY <1>1, <1>2, <1>3 DEF ActiveOn, ActiveOf, ActiveJobs

Limits == WorkerCapacity /\ UserActiveLimit

\* Fewer active jobs, smaller counts.
LEMMA CardinalityMonotone ==
  ASSUME NEW S, S \subseteq ActiveJobs, NEW T, T \subseteq S
  PROVE  Cardinality(T) <= Cardinality(S)
  BY ActiveFinite, FS_Subset

\* One active job more, a count larger by at most one.
LEMMA CardinalityPlusOne ==
  ASSUME NEW S, S \subseteq ActiveJobs, NEW j, NEW T, T \subseteq S \cup {j}
  PROVE  Cardinality(T) <= Cardinality(S) + 1
<1>1. IsFiniteSet(S) /\ Cardinality(S) \in Nat
  BY ActiveFinite
<1>2. /\ IsFiniteSet(S \cup {j})
      /\ Cardinality(S \cup {j}) \in {Cardinality(S), Cardinality(S) + 1}
  BY <1>1, FS_AddElement
<1>3. Cardinality(T) <= Cardinality(S \cup {j})
  BY <1>2, FS_Subset
<1>4. IsFiniteSet(T) /\ Cardinality(T) \in Nat
  BY <1>2, FS_Subset, FS_CardinalityType
<1>5. QED
  BY <1>1, <1>2, <1>3, <1>4

\* No job is active initially.
LEMMA LimitsInit == Init => Limits
<1> SUFFICES ASSUME Init PROVE Limits
  OBVIOUS
<1>1. ActiveJobs = {}
  BY DEF Init, ActiveJobs, Active
<1>2. (\A w \in Workers : ActiveOn(w) = {}) /\ (\A u \in Users : ActiveOf(u) = {})
  BY <1>1 DEF ActiveOn, ActiveOf
<1>3. Cardinality({}) = 0
  BY FS_EmptySet
<1>4. WorkerCapacity
  <2>1. ASSUME NEW w \in Workers PROVE Cardinality(ActiveOn(w)) <= Capacity[w]
    <3>1. Cardinality(ActiveOn(w)) = 0
      BY <1>2, <1>3
    <3>2. QED
      BY <3>1, PlatformAssumption
  <2>2. QED
    BY <2>1 DEF WorkerCapacity
<1>5. UserActiveLimit
  <2>1. ASSUME NEW u \in Users PROVE Cardinality(ActiveOf(u)) <= MaxActive
    <3>1. Cardinality(ActiveOf(u)) = 0
      BY <1>2, <1>3
    <3>2. QED
      BY <3>1, BoundsAssumption
  <2>2. QED
    BY <2>1 DEF UserActiveLimit
<1>6. QED
  BY <1>4, <1>5 DEF Limits

\* No step takes a worker past its capacity or a user past the limit: the claim
\* checks both in the transaction that claims.
LEMMA LimitsStep ==
  ASSUME ~LeaseMayLapse, HeldInv, Limits, [Next]_vars
  PROVE  Limits'
<1>1. \A w \in Workers : ActiveOn(w) \subseteq ActiveJobs
  BY DEF ActiveOn
<1>2. \A u \in Users : ActiveOf(u) \subseteq ActiveJobs
  BY DEF ActiveOf
<1>3. \A S \in SUBSET ActiveJobs' : Cardinality(S) \in Nat
  <2>1. ActiveJobs' \subseteq Jobs /\ IsFiniteSet(Jobs)
    BY BoundsAssumption, FS_Interval DEF ActiveJobs, Jobs
  <2>2. QED
    BY <2>1, FS_Subset, FS_CardinalityType
<1>4. /\ \A w \in Workers : ActiveOn(w)' \subseteq ActiveJobs'
      /\ \A u \in Users : ActiveOf(u)' \subseteq ActiveJobs'
  BY DEF ActiveOn, ActiveOf
<1>5. CASE MovesOn
  <2>1. ASSUME NEW w \in Workers PROVE Cardinality(ActiveOn(w)') <= Capacity[w]
    <3>1. Cardinality(ActiveOn(w)') <= Cardinality(ActiveOn(w))
      BY <1>1, <1>5, MovesOnShrinks, CardinalityMonotone
    <3>2. QED
      BY <1>1, <1>3, <1>4, <3>1, ActiveFinite, PlatformAssumption DEF Limits, WorkerCapacity
  <2>2. ASSUME NEW u \in Users PROVE Cardinality(ActiveOf(u)') <= MaxActive
    <3>1. Cardinality(ActiveOf(u)') <= Cardinality(ActiveOf(u))
      BY <1>2, <1>5, MovesOnShrinks, CardinalityMonotone
    <3>2. QED
      BY <1>2, <1>3, <1>4, <3>1, ActiveFinite, BoundsAssumption DEF Limits, UserActiveLimit
  <2>3. QED
    BY <2>1, <2>2 DEF Limits, WorkerCapacity, UserActiveLimit
<1>6. ASSUME NEW j \in Jobs, NEW v \in Workers, Claims(j, v) PROVE Limits'
  <2>1. ASSUME NEW w \in Workers PROVE Cardinality(ActiveOn(w)') <= Capacity[w]
    <3>1. CASE w = v
      <4>1. Cardinality(ActiveOn(w)') <= Cardinality(ActiveOn(w)) + 1
        BY <1>1, <1>6, <3>1, ClaimsAdd, CardinalityPlusOne
      <4>2. QED
        BY <1>1, <1>3, <1>4, <1>6, <3>1, <4>1, ActiveFinite, PlatformAssumption DEF Claims, HasRoom
    <3>2. CASE w # v
      <4>1. Cardinality(ActiveOn(w)') <= Cardinality(ActiveOn(w))
        BY <1>1, <1>6, <3>2, ClaimsAdd, CardinalityMonotone
      <4>2. QED
        BY <1>1, <1>3, <1>4, <4>1, ActiveFinite, PlatformAssumption DEF Limits, WorkerCapacity
    <3>3. QED
      BY <3>1, <3>2
  <2>2. ASSUME NEW u \in Users PROVE Cardinality(ActiveOf(u)') <= MaxActive
    <3>1. CASE u = UserOf[j]
      <4>1. Cardinality(ActiveOf(u)') <= Cardinality(ActiveOf(u)) + 1
        BY <1>2, <1>6, <3>1, ClaimsAdd, CardinalityPlusOne
      <4>2. QED
        BY <1>2, <1>3, <1>4, <1>6, <3>1, <4>1, ActiveFinite, BoundsAssumption
           DEF Claims, UnderLimit
    <3>2. CASE u # UserOf[j]
      <4>1. Cardinality(ActiveOf(u)') <= Cardinality(ActiveOf(u))
        BY <1>2, <1>6, <3>2, ClaimsAdd, CardinalityMonotone
      <4>2. QED
        BY <1>2, <1>3, <1>4, <4>1, ActiveFinite, BoundsAssumption DEF Limits, UserActiveLimit
    <3>3. QED
      BY <3>1, <3>2
  <2>3. QED
    BY <2>1, <2>2 DEF Limits, WorkerCapacity, UserActiveLimit
<1>7. QED
  BY <1>5, <1>6, StepMoves

\* README.md:180: dispatching and running jobs never exceed a worker's
\* maxConcurrentJobs, provided a lease outlives its holder: without that
\* assumption a late answer brings a LOST job back on top of the others.
THEOREM CapacityRespected == ASSUME ~LeaseMayLapse PROVE Spec => []WorkerCapacity
<1>1. Init => HeldInv /\ Limits
  BY HeldInit, LimitsInit
<1>2. HeldInv /\ Limits /\ [Next]_vars => (HeldInv /\ Limits)'
  BY HeldNext, LimitsStep
<1>3. HeldInv /\ Limits => WorkerCapacity
  BY DEF Limits
<1>4. QED
  BY <1>1, <1>2, <1>3, PTL DEF Spec

\* README.md:180: the per-user active limit holds across all workers and
\* processes, under the same assumption.
THEOREM UserLimitRespected == ASSUME ~LeaseMayLapse PROVE Spec => []UserActiveLimit
<1>1. Init => HeldInv /\ Limits
  BY HeldInit, LimitsInit
<1>2. HeldInv /\ Limits /\ [Next]_vars => (HeldInv /\ Limits)'
  BY HeldNext, LimitsStep
<1>3. HeldInv /\ Limits => UserActiveLimit
  BY DEF Limits
<1>4. QED
  BY <1>1, <1>2, <1>3, PTL DEF Spec

-----------------------------------------------------------------------------
(* The life of a job. *)

\* Every step moves each job along the edges of its life.
LEMMA StepIsMove ==
  ASSUME HeldInv, [Next]_vars
  PROVE  /\ DOMAIN status' = Jobs
         /\ \A j \in Jobs : status'[j] # status[j] => <<status[j], status'[j]>> \in Lifecycle!Moves
<1>1. CASE MovesOn
  BY <1>1 DEF MovesOn, OtherMoves
<1>2. CASE \E j \in Jobs, w \in Workers : Claims(j, w)
  BY <1>2 DEF Claims, Lifecycle!Moves
<1>3. QED
  BY <1>1, <1>2, StepMoves

\* No late response, second monitor or new leader changes the outcome of a job
\* that has ended, under the same assumption.
THEOREM OutcomeIsFinal == ASSUME ~LeaseMayLapse PROVE Spec => TerminalIsFinal
<1>1. HeldInv /\ [Next]_vars =>
        [\A j \in Jobs : status[j] \in Terminal => status'[j] = status[j]]_vars
  BY StepIsMove DEF Terminal, Lifecycle!Moves
<1>2. QED
  BY HeldInit, HeldNext, <1>1, PTL DEF Spec, TerminalIsFinal

\* At most one job is posted in a step, and then no status changes.
LEMMA OnePostAtATime ==
  ASSUME [Next]_vars
  PROVE  UNCHANGED sends \/ \E g \in Owners, j \in Jobs : SendPrompt(g, j)
<1>1. CASE Platform \/ (\E u \in Restless : ChangeMembership(u)) \/ LeaseExpires \/ UNCHANGED vars
  BY <1>1 DEF Platform, Submit, CancelQueued, RequestCancel, TimeOut, ChangeMembership, LeaseExpires,
     vars, upstream
<1>2. CASE \E j \in Jobs : WorkerAnswers(j) \/ WorkerEnds(j)
  BY <1>2 DEF WorkerAnswers, WorkerEnds, WorkerMoves
<1>3. CASE \E g \in Owners : Life(g)
  BY <1>3 DEF Life, Boot, Crash, Stop, Exit, Die, Renew, RenewThrows, upstream
<1>4. CASE \E g \in Owners : Tick(g)
  BY <1>4 DEF Tick, TickBegins, HealthChecked, Sweep, Adopt, ClaimJob, ClaimNothing, upstream
<1>5. CASE \E g \in Owners, j \in Jobs : Dispatch(g, j)
  BY <1>5 DEF Dispatch, StagingFails, UploadsStaged, PromptRejected, PromptRecorded, OutcomeUnknown,
     EndWith, upstream
<1>6. CASE \E g \in Owners, j \in Jobs : Monitor(g, j)
  BY <1>6 DEF Monitor, MonitorReads, CancelUpstream, WorkerMoves, FoundError, FoundSuccess,
     FoundAbsent, GivesUp, PollAgain, EndWith, upstream
<1>7. QED
  BY <1>1, <1>2, <1>3, <1>4, <1>5, <1>6 DEF Next

\* Every step is a step of JobLifecycle, or leaves its variables alone.
LEMMA RefinementStep ==
  ASSUME HeldInv, HeldInv', [Next]_vars
  PROVE  [Lifecycle!Next]_<<status, sends>>
<1>1. CASE UNCHANGED sends
  <2>1. \A j \in Jobs : status'[j] = "RUNNING" => sends[j] = 1
    BY <1>1 DEF HeldInv, Inv, PostedOnce
  <2>2. Lifecycle!Advance
    BY <1>1, <2>1, StepIsMove DEF Lifecycle!Advance
  <2>3. QED
    BY <2>2 DEF Lifecycle!Next
<1>2. ASSUME NEW g \in Owners, NEW j \in Jobs, SendPrompt(g, j) PROVE Lifecycle!Post(j)
  <2>1. task[g][j] = "connecting" /\ sends' = [sends EXCEPT ![j] = @ + 1] /\ UNCHANGED status
    BY <1>2 DEF SendPrompt, At
  <2>2. status[j] = "DISPATCHING" /\ sends[j] = 0
    BY <2>1 DEF HeldInv, TaskStatus, Inv, PostedOnce, Dispatching
  <2>3. sends' = [sends EXCEPT ![j] = 1]
    BY <2>1, <2>2
  <2>4. QED
    BY <2>1, <2>2, <2>3 DEF Lifecycle!Post
<1>3. QED
  BY <1>1, <1>2, OnePostAtATime DEF Lifecycle!Next

\* The scheduler implements the life of a job of README.md:249, under the same
\* assumption.
THEOREM ImplementsLifecycle == ASSUME ~LeaseMayLapse PROVE Spec => LifecycleSpec
<1>1. Init => Lifecycle!Init
  BY DEF Init, Lifecycle!Init
<1>2. HeldInv /\ HeldInv' /\ [Next]_vars => [Lifecycle!Next]_<<status, sends>>
  BY RefinementStep
<1>3. QED
  BY HeldInit, HeldNext, <1>1, <1>2, PTL DEF Spec, LifecycleSpec, Lifecycle!Spec
-----------------------------------------------------------------------------
(* Whose turn it is.  No assumption on the lease. *)

\* Nothing but a claim makes a job DISPATCHING.
LEMMA OnlyClaimsDispatch ==
  ASSUME TypeOK, [Next]_vars, NEW k \in Jobs, status[k] # "DISPATCHING", status'[k] = "DISPATCHING"
  PROVE  \E g \in Owners : ClaimJob(g)
<1> SUFFICES ASSUME ~\E g \in Owners : ClaimJob(g) PROVE FALSE
  OBVIOUS
<1>1. CASE Platform
  BY <1>1 DEF Platform, Submit, CancelQueued, RequestCancel, TimeOut, TypeOK
<1>2. CASE \/ \E u \in Restless : ChangeMembership(u)
           \/ LeaseExpires
           \/ \E j \in Jobs : WorkerAnswers(j) \/ WorkerEnds(j)
           \/ UNCHANGED vars
  BY <1>2 DEF ChangeMembership, LeaseExpires, WorkerAnswers, WorkerEnds, WorkerMoves, vars
<1>3. CASE \E g \in Owners : Life(g)
  BY <1>3 DEF Life, Boot, Crash, Stop, Exit, Die, Renew, RenewThrows
<1>4. CASE \E g \in Owners : Tick(g)
  BY <1>4 DEF Tick, TickBegins, HealthChecked, Sweep, Adopt, ClaimNothing
<1>5. CASE \E g \in Owners, j \in Jobs : Dispatch(g, j)
  BY <1>5 DEF Dispatch, StagingFails, UploadsStaged, SendPrompt, PromptRejected, PromptRecorded,
     OutcomeUnknown, EndWith, Finish, TypeOK
<1>6. CASE \E g \in Owners, j \in Jobs : Monitor(g, j)
  BY <1>6 DEF Monitor, MonitorReads, CancelUpstream, WorkerMoves, FoundError, FoundSuccess,
     FoundAbsent, GivesUp, PollAgain, EndWith, Finish, TypeOK
<1>7. QED
  BY <1>1, <1>2, <1>3, <1>4, <1>5, <1>6 DEF Next

\* A job that was served later is never considered before one that waits longer.
LEMMA LaterServedWaits ==
  ASSUME TypeOK, NEW i \in Jobs, NEW j \in Jobs, NEW k \in Jobs, UserOf[i] = UserOf[k],
         \A o \in JobsOf(UserOf[j]) : startedAt[o] < startedAt[i]
  PROVE  ~Before(k, j)
<1>1. RanEarlier(UserOf[j], UserOf[k])
  BY DEF RanEarlier, JobsOf
<1>2. ~RanEarlier(UserOf[k], UserOf[j])
  <2>1. SUFFICES ASSUME NEW m \in JobsOf(UserOf[j]), \A o \in JobsOf(UserOf[k]) : startedAt[o] < startedAt[m]
                 PROVE  FALSE
    BY DEF RanEarlier
  <2>2. m \in Jobs /\ startedAt[i] < startedAt[m] /\ startedAt[m] < startedAt[i]
    BY <2>1 DEF JobsOf
  <2>3. startedAt[i] \in Nat /\ startedAt[m] \in Nat
    BY <2>2 DEF TypeOK
  <2>4. QED
    BY <2>2, <2>3
<1>3. QED
  BY <1>1, <1>2 DEF Before

\* README.md:180: no user is dispatched a second time while another's job that
\* could be dispatched waits, with any number of jobs, users and workers, any
\* submissions in between, and even if leases lapse under their holders.
THEOREM NobodyJumpsAhead == Spec => NoSecondTurnWhileAnotherWaits
<1>1. ASSUME TypeOK, [Next]_vars, NEW i \in Jobs, NEW j \in Jobs, NEW k \in Jobs,
             UserOf[i] = UserOf[k], UserOf[j] # UserOf[k], status[j] = "QUEUED",
             status[k] = "QUEUED", status'[k] = "DISPATCHING",
             \A o \in JobsOf(UserOf[j]) : startedAt[o] < startedAt[i]
      PROVE  ~IsMember(j) \/ ~UnderLimit(UserOf[j]) \/ Eligible(j) = {}
  <2>1. PICK g \in Owners : ClaimJob(g)
    BY <1>1, OnlyClaimsDispatch
  <2>2. PICK first \in Claimable :
          /\ \A other \in Claimable \ {first} : Before(first, other)
          /\ status' = [l \in Jobs |->
                 IF l = first THEN "DISPATCHING"
                 ELSE IF l \in Dropped({o \in Jobs : Before(o, first)}) THEN "CANCELLED"
                 ELSE status[l]]
    BY <2>1 DEF ClaimJob
  <2>3. k = first
    BY <1>1, <2>2
  <2>4. j \notin Claimable
    BY <1>1, <2>2, <2>3, LaterServedWaits
  <2>5. QED
    BY <1>1, <2>4 DEF Claimable
<1>2. TypeOK /\ [Next]_vars =>
        [\A i, j, k \in Jobs :
           ( /\ UserOf[i] = UserOf[k] /\ UserOf[j] # UserOf[k] /\ i # k
             /\ status[j] = "QUEUED" /\ status[k] = "QUEUED" /\ status'[k] = "DISPATCHING"
             /\ startedAt[i] > 0
             /\ \A o \in JobsOf(UserOf[j]) : startedAt[o] < startedAt[i] )
           => \/ ~IsMember(j) \/ ~UnderLimit(UserOf[j]) \/ Eligible(j) = {}]_vars
  BY <1>1
<1>3. QED
  BY <1>2, TypeCorrect, PTL DEF Spec, NoSecondTurnWhileAnotherWaits
=============================================================================
