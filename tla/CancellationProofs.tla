------------------------- MODULE CancellationProofs -------------------------
(***************************************************************************)
(* Proofs about Cancellation, for any jobs and any number of restarts; the *)
(* last theorem for a worker with one slot.  The invariant follows a       *)
(* prompt through the worker (Placed), a monitor through its requests      *)
(* (Asked) and a job to its outcome.                                       *)
(***************************************************************************)
EXTENDS Cancellation, FiniteSetTheorems, SequenceTheorems, TLAPS

\* The dispatch or monitor of an active job, and of no other, has a request to
\* make.
Attended ==
    \A j \in Jobs :
        /\ status[j] = "DISPATCHING" <=> at[j] = "post"
        /\ status[j] \notin Active <=> at[j] = "none"

\* A prompt is in one place: not sent yet, on its way, pending, executing or in
\* the history; and a job that runs has sent its prompt.
Placed ==
    \A j \in Jobs :
        /\ status[j] = "QUEUED" \/ j \in inFlight => ~InQueue(j)
        /\ status[j] = "QUEUED" \/ j \in inFlight \/ InQueue(j) => history[j] = "none"
        /\ IsPending(j) => running # j
        /\ j \in inFlight => status[j] \in {"DISPATCHING", "LOST"}

\* Whoever is about to cancel a prompt, or believes to have done so, was asked.
Asked ==
    /\ killing \subseteq unwanted
    /\ cancelSent \subseteq unwanted \cup overdue
    /\ \A j \in Jobs :
         /\ at[j] \in {"queue", "delete", "interrupt"} => j \in unwanted \cup overdue
         /\ at[j] = "absent" => j \in cancelSent

CancelInv == TypeOK /\ Attended /\ Placed /\ Asked /\ EndedLeavesWorker /\ OutcomeIsJustified

-----------------------------------------------------------------------------
(* The worker's sequence. *)

\* POST /prompt puts the prompt last.
LEMMA AppendPending ==
    ASSUME NEW j \in Jobs, PendingOK, ~IsPending(j), pending' = Append(pending, j)
    PROVE  PendingOK' /\ \A k \in Jobs : IsPending(k)' <=> IsPending(k) \/ k = j
<1>1. /\ pending' \in Seq(Jobs) /\ Len(pending') = Len(pending) + 1
      /\ \A i \in 1 .. Len(pending) : pending'[i] = pending[i]
      /\ pending'[Len(pending) + 1] = j
    BY AppendProperties DEF PendingOK
<1>2. Len(pending) \in Nat /\ DOMAIN pending = 1 .. Len(pending) /\ DOMAIN pending' = 1 .. Len(pending')
    BY <1>1, LenProperties DEF PendingOK
<1>3. IsInjective(pending')
    BY <1>1, <1>2 DEF PendingOK, IsInjective, IsPending, Contains
<1> QED BY <1>1, <1>2, <1>3 DEF PendingOK, IsPending, Contains

\* The worker starts with the first.
LEMMA TailPending ==
    ASSUME PendingOK, pending # <<>>, pending' = Tail(pending)
    PROVE  /\ PendingOK' /\ Head(pending) \in Jobs /\ IsPending(Head(pending))
           /\ \A k \in Jobs : IsPending(k)' <=> IsPending(k) /\ k # Head(pending)
<1>1. /\ pending \in Seq(Jobs) /\ Len(pending) \in Nat \ {0} /\ Head(pending) = pending[1]
      /\ pending' \in Seq(Jobs) /\ Len(pending') = Len(pending) - 1
      /\ \A i \in 1 .. Len(pending') : pending'[i] = pending[i + 1]
    BY HeadTailProperties, EmptySeq, LenProperties DEF PendingOK
<1>2. DOMAIN pending = 1 .. Len(pending) /\ DOMAIN pending' = 1 .. Len(pending')
    BY <1>1, LenProperties
<1>3. \A i, k \in 1 .. Len(pending) : pending[i] = pending[k] => i = k
    BY <1>2 DEF PendingOK, IsInjective
<1>4. IsInjective(pending')
    BY <1>1, <1>2, <1>3 DEF IsInjective
<1>5. Head(pending) \in Jobs /\ IsPending(Head(pending))
    BY <1>1, <1>2 DEF IsPending, Contains
<1>6. ASSUME NEW k \in Jobs PROVE IsPending(k)' <=> IsPending(k) /\ k # Head(pending)
    <2>1. ASSUME NEW i \in 1 .. Len(pending'), pending'[i] = k
          PROVE  IsPending(k) /\ k # Head(pending)
        <3>1. i + 1 \in 1 .. Len(pending) /\ pending[i + 1] = k /\ i + 1 # 1
            BY <1>1, <2>1
        <3> QED BY <1>1, <1>3, <3>1 DEF IsPending, Contains
    <2>2. ASSUME NEW i \in 1 .. Len(pending), pending[i] = k, k # Head(pending)
          PROVE  IsPending(k)'
        <3>1. i - 1 \in 1 .. Len(pending') /\ pending'[i - 1] = k
            BY <1>1, <2>2
        <3> QED BY <3>1 DEF IsPending, Contains
    <2> QED BY <2>1, <2>2 DEF IsPending, Contains
<1> QED BY <1>1, <1>4, <1>5, <1>6 DEF PendingOK

\* A delete takes out the one entry of its prompt.
LEMMA DeletePending ==
    ASSUME NEW j \in Jobs, PendingOK, Delete(j)
    PROVE  PendingOK' /\ \A k \in Jobs : IsPending(k)' <=> IsPending(k) /\ k # j
<1>1. CASE ~IsPending(j) /\ UNCHANGED pending
    BY <1>1 DEF PendingOK, IsPending
<1>2. CASE \E i \in DOMAIN pending : pending[i] = j /\ pending' = RemoveAt(pending, i)
    <2>1. PICK n \in DOMAIN pending : pending[n] = j /\ pending' = RemoveAt(pending, n)
        BY <1>2
    <2>2. /\ pending \in Seq(Jobs) /\ Len(pending) \in Nat
          /\ DOMAIN pending = 1 .. Len(pending) /\ n \in 1 .. Len(pending)
        BY <2>1, LenProperties DEF PendingOK
    <2> DEFINE before == SubSeq(pending, 1, n - 1)
               after  == SubSeq(pending, n + 1, Len(pending))
    <2>3. /\ before \in Seq(Jobs) /\ Len(before) = n - 1
          /\ \A i \in 1 .. n - 1 : before[i] = pending[i]
        BY <2>2, SubSeqProperties
    <2>4. /\ after \in Seq(Jobs) /\ Len(after) = Len(pending) - n
          /\ \A i \in 1 .. Len(pending) - n : after[i] = pending[n + i]
        BY <2>2, SubSeqProperties
    <2>5. pending' = before \o after
        BY <2>1 DEF RemoveAt
    <2> HIDE DEF before, after
    <2>6. /\ pending' \in Seq(Jobs) /\ Len(pending') = Len(pending) - 1
          /\ DOMAIN pending' = 1 .. Len(pending) - 1
          /\ \A i \in 1 .. Len(pending) - 1 :
               pending'[i] = IF i < n THEN pending[i] ELSE pending[i + 1]
        <3>1. /\ before \o after \in Seq(Jobs)
              /\ Len(before \o after) = Len(before) + Len(after)
              /\ \A i \in 1 .. Len(before) + Len(after) :
                   (before \o after)[i] = IF i <= Len(before) THEN before[i]
                                         ELSE after[i - Len(before)]
            BY <2>3, <2>4, ConcatProperties
        <3>2. pending' \in Seq(Jobs) /\ Len(pending') = Len(pending) - 1
            BY <2>2, <2>3, <2>4, <2>5, <3>1
        <3>3. DOMAIN pending' = 1 .. Len(pending) - 1
            BY <3>2, LenProperties
        <3>4. ASSUME NEW i \in 1 .. Len(pending) - 1
              PROVE  pending'[i] = IF i < n THEN pending[i] ELSE pending[i + 1]
            <4>1. CASE i < n
                BY <2>2, <2>3, <2>4, <2>5, <3>1, <4>1
            <4>2. CASE i >= n
                <5>1. /\ i - (n - 1) \in 1 .. Len(pending) - n /\ n + (i - (n - 1)) = i + 1
                      /\ i \in 1 .. Len(before) + Len(after) /\ ~(i <= Len(before))
                    BY <2>2, <2>3, <2>4, <4>2, SMTT(20)
                <5>2. pending'[i] = after[i - (n - 1)]
                    BY <2>3, <2>5, <3>1, <5>1
                <5> QED BY <2>2, <2>4, <4>2, <5>1, <5>2
            <4> QED BY <2>2, <4>1, <4>2
        <3> QED BY <3>2, <3>3, <3>4
    <2>7. \A i, k \in 1 .. Len(pending) : pending[i] = pending[k] => i = k
        BY <2>2 DEF PendingOK, IsInjective
    <2>8. IsInjective(pending')
        BY <2>2, <2>6, <2>7 DEF IsInjective
    <2>9. ASSUME NEW k \in Jobs PROVE IsPending(k)' <=> IsPending(k) /\ k # j
        <3>1. ASSUME NEW i \in 1 .. Len(pending'), pending'[i] = k
              PROVE  IsPending(k) /\ k # j
            <4> DEFINE m == IF i < n THEN i ELSE i + 1
            <4>1. m \in 1 .. Len(pending) /\ pending[m] = k /\ m # n
                BY <2>2, <2>6, <3>1
            <4> QED BY <2>1, <2>2, <2>7, <4>1 DEF IsPending, Contains
        <3>2. ASSUME NEW i \in 1 .. Len(pending), pending[i] = k, k # j
              PROVE  IsPending(k)'
            <4> DEFINE m == IF i < n THEN i ELSE i - 1
            <4>1. m \in 1 .. Len(pending') /\ pending'[m] = k
                BY <2>1, <2>2, <2>6, <3>2
            <4> QED BY <4>1 DEF IsPending, Contains
        <3> QED BY <3>1, <3>2 DEF IsPending, Contains
    <2> QED BY <2>6, <2>8, <2>9 DEF PendingOK
<1> QED BY <1>1, <1>2 DEF Delete

-----------------------------------------------------------------------------
(* Inductiveness, one case per action.  The proofs expand what the worker  *)
(* has pending only in the three lemmas above.                             *)

LEMMA InitCancelInv == Init => CancelInv
<1> SUFFICES ASSUME Init PROVE CancelInv
    OBVIOUS
<1>1. PendingOK /\ \A j \in Jobs : ~IsPending(j)
    BY EmptySeq DEF Init, PendingOK, IsInjective, IsPending, Contains
<1>2. TypeOK
    <2>1. /\ status \in [Jobs -> {"QUEUED"} \cup Active \cup Terminal]
          /\ at \in [Jobs -> Requests \cup {"none"}]
          /\ history \in [Jobs -> {"none", "success", "error", "interrupted"}]
        BY DEF Init
    <2>2. restarts \in 0 .. MaxRestarts
        BY CancellationAssumption DEF Init
    <2> QED BY <1>1, <2>1, <2>2 DEF Init, TypeOK
<1>3. Attended /\ Placed /\ Asked
    BY <1>1, CancellationAssumption DEF Init, Attended, Placed, Asked, InQueue, Active
<1>4. EndedLeavesWorker /\ OutcomeIsJustified
    BY DEF Init, EndedLeavesWorker, OutcomeIsJustified, Terminal
<1> QED BY <1>2, <1>3, <1>4 DEF CancelInv

\* Requests, time and health checks move neither a prompt nor a monitor.
LEMMA RequestsKeep ==
    ASSUME CancelInv, (\E j \in Jobs : RequestCancel(j) \/ TimeOut(j)) \/ HealthChecked
    PROVE  CancelInv'
<1>1. /\ \A k \in Jobs : IsPending(k)' <=> IsPending(k)
      /\ PendingOK'
    BY DEF CancelInv, TypeOK, PendingOK, IsPending, RequestCancel, TimeOut, HealthChecked, queue
<1>2. TypeOK' /\ Attended' /\ Placed' /\ Asked' /\ EndedLeavesWorker' /\ OutcomeIsJustified'
    BY <1>1 DEF CancelInv, TypeOK, Attended, Placed, Asked, EndedLeavesWorker, OutcomeIsJustified,
       InQueue, RequestCancel, TimeOut, HealthChecked, queue, monitor, gateway, free
<1> QED BY <1>2 DEF CancelInv

\* A dispatch, from the claim to what is known of its POST /prompt.
LEMMA DispatchKeeps ==
    ASSUME CancelInv, NEW j \in Jobs, Dispatch(j)
    PROVE  CancelInv'
<1>1. /\ \A k \in Jobs : IsPending(k)' <=> IsPending(k)
      /\ PendingOK'
    BY DEF CancelInv, TypeOK, PendingOK, IsPending, Dispatch, Claim, PromptRecorded, OutcomeUnknown, queue
<1> USE DEF Active, Terminal, Requests
<1>2. CASE Claim(j)
    <2>1. TypeOK'
        BY <1>1, <1>2 DEF CancelInv, TypeOK, Claim, gateway, free
    <2>2. Attended'
        BY <1>2 DEF CancelInv, TypeOK, Attended, Claim
    <2>3. Placed'
        BY <1>1, <1>2 DEF CancelInv, TypeOK, Placed, InQueue, Claim
    <2>4. Asked'
        BY <1>2 DEF CancelInv, TypeOK, Asked, Claim
    <2>5. EndedLeavesWorker' /\ OutcomeIsJustified'
        BY <1>1, <1>2 DEF CancelInv, TypeOK, EndedLeavesWorker, OutcomeIsJustified, InQueue, Claim
    <2> QED BY <2>1, <2>2, <2>3, <2>4, <2>5 DEF CancelInv
<1>3. CASE PromptRecorded(j) \/ OutcomeUnknown(j)
    <2>1. TypeOK'
        BY <1>1, <1>3 DEF CancelInv, TypeOK, PromptRecorded, OutcomeUnknown, gateway, queue, free
    <2>2. Attended'
        BY <1>3 DEF CancelInv, TypeOK, Attended, PromptRecorded, OutcomeUnknown
    <2>3. Placed'
        BY <1>1, <1>3 DEF CancelInv, TypeOK, Attended, Placed, InQueue, PromptRecorded, OutcomeUnknown, queue
    <2>4. Asked'
        BY <1>3 DEF CancelInv, TypeOK, Asked, PromptRecorded, OutcomeUnknown
    <2>5. EndedLeavesWorker' /\ OutcomeIsJustified'
        BY <1>1, <1>3 DEF CancelInv, TypeOK, EndedLeavesWorker, OutcomeIsJustified, InQueue,
           PromptRecorded, OutcomeUnknown, queue
    <2> QED BY <2>1, <2>2, <2>3, <2>4, <2>5 DEF CancelInv
<1> QED BY <1>2, <1>3 DEF Dispatch

\* A dead gateway's dispatches are LOST and its monitors start over.
LEMMA RestartKeeps == ASSUME CancelInv, Restart PROVE CancelInv'
<1>1. /\ \A k \in Jobs : IsPending(k)' <=> IsPending(k)
      /\ PendingOK'
    BY DEF CancelInv, TypeOK, PendingOK, IsPending, Restart, queue
<1> USE DEF Active, Terminal, Requests
<1>2. TypeOK'
    BY <1>1, CancellationAssumption DEF CancelInv, TypeOK, Restart, queue, free
<1>3. Attended'
    BY DEF CancelInv, TypeOK, Attended, Restart
<1>4. Placed'
    BY <1>1 DEF CancelInv, TypeOK, Placed, InQueue, Restart, queue
<1>5. Asked'
    BY DEF CancelInv, TypeOK, Asked, Restart
<1>6. EndedLeavesWorker' /\ OutcomeIsJustified'
    BY <1>1 DEF CancelInv, TypeOK, EndedLeavesWorker, OutcomeIsJustified, InQueue, Restart, queue
<1> QED BY <1>2, <1>3, <1>4, <1>5, <1>6 DEF CancelInv

\* The prompt is queued, and its turn comes; what executes ends.
LEMMA WorkerKeeps ==
    ASSUME CancelInv, (\E j \in Jobs : WorkerAccepts(j)) \/ WorkerStarts \/ WorkerEnds \/ FreeArrives
    PROVE  CancelInv'
<1>1. Attended' /\ Asked'
    BY DEF CancelInv, Attended, Asked, WorkerAccepts, WorkerStarts, WorkerEnds, FreeArrives, monitor
<1>2. ASSUME NEW j \in Jobs, WorkerAccepts(j)
      PROVE  TypeOK' /\ Placed' /\ EndedLeavesWorker' /\ OutcomeIsJustified'
    <2>1. PendingOK' /\ \A k \in Jobs : IsPending(k)' <=> IsPending(k) \/ k = j
        BY <1>2, AppendPending DEF CancelInv, TypeOK, Placed, InQueue, WorkerAccepts
    <2>2. TypeOK'
        BY <1>2, <2>1 DEF CancelInv, TypeOK, WorkerAccepts, monitor, gateway, free
    <2>3. Placed'
        BY <1>2, <2>1 DEF CancelInv, TypeOK, Placed, InQueue, WorkerAccepts
    <2>4. EndedLeavesWorker' /\ OutcomeIsJustified'
        BY <1>2, <2>1 DEF CancelInv, Placed, EndedLeavesWorker, OutcomeIsJustified, InQueue, WorkerAccepts
    <2> QED BY <2>2, <2>3, <2>4
<1>3. CASE WorkerStarts
    <2>1. /\ PendingOK' /\ Head(pending) \in Jobs /\ IsPending(Head(pending))
          /\ \A k \in Jobs : IsPending(k)' <=> IsPending(k) /\ k # Head(pending)
        BY <1>3, TailPending DEF CancelInv, TypeOK, WorkerStarts
    <2>2. TypeOK'
        BY <1>3, <2>1 DEF CancelInv, TypeOK, WorkerStarts, monitor, gateway, free
    <2>3. Placed'
        BY <1>3, <2>1 DEF CancelInv, TypeOK, Placed, InQueue, WorkerStarts
    <2>4. EndedLeavesWorker' /\ OutcomeIsJustified'
        BY <1>3, <2>1 DEF CancelInv, Placed, EndedLeavesWorker, OutcomeIsJustified, InQueue, WorkerStarts
    <2> QED BY <1>1, <2>2, <2>3, <2>4 DEF CancelInv
<1>4. CASE WorkerEnds \/ FreeArrives
    <2>1. PendingOK' /\ \A k \in Jobs : IsPending(k)' <=> IsPending(k)
        BY <1>4 DEF CancelInv, TypeOK, PendingOK, IsPending, WorkerEnds, EndRunning, FreeArrives, queue
    <2>2. TypeOK'
        BY <1>4, <2>1 DEF CancelInv, TypeOK, WorkerEnds, EndRunning, FreeArrives, queue, monitor, gateway, free
    <2>3. Placed'
        BY <1>4, <2>1, CancellationAssumption
        DEF CancelInv, TypeOK, Placed, InQueue, WorkerEnds, EndRunning, FreeArrives, queue
    <2>4. EndedLeavesWorker' /\ OutcomeIsJustified'
        BY <1>4, <2>1, CancellationAssumption DEF CancelInv, TypeOK, Placed, EndedLeavesWorker, OutcomeIsJustified,
           InQueue, WorkerEnds, EndRunning, FreeArrives, queue
    <2> QED BY <1>1, <2>2, <2>3, <2>4 DEF CancelInv
<1> QED BY <1>1, <1>2, <1>3, <1>4 DEF CancelInv

\* The monitor reads, fails, gives the worker time, or gives up on the history.
LEMMA LooksKeep ==
    ASSUME CancelInv, NEW j \in Jobs,
           MonitorReads(j) \/ QueueRead(j) \/ CancelFails(j) \/ HistoryUnread(j) \/ StillThere(j) \/ PollAgain(j)
    PROVE  CancelInv'
<1>1. /\ \A k \in Jobs : IsPending(k)' <=> IsPending(k)
      /\ PendingOK' /\ UNCHANGED <<status, unwanted, overdue, inFlight, running, history>>
    BY DEF CancelInv, TypeOK, PendingOK, IsPending, MonitorReads, QueueRead, CancelFails, HistoryUnread,
       StillThere, PollAgain, queue
<1> USE DEF Active, Terminal, Requests
<1>2. TypeOK'
    BY <1>1 DEF CancelInv, TypeOK, MonitorReads, QueueRead, CancelFails, HistoryUnread,
       StillThere, PollAgain, Goto, queue, gateway, free
<1>3. Attended'
    BY <1>1 DEF CancelInv, TypeOK, Attended, MonitorReads, QueueRead, CancelFails, HistoryUnread,
       StillThere, PollAgain, Goto
<1>4. Asked'
    BY <1>1 DEF CancelInv, TypeOK, Asked, MonitorReads, QueueRead, CancelFails, HistoryUnread,
       StillThere, PollAgain, Goto
<1>5. Placed' /\ EndedLeavesWorker' /\ OutcomeIsJustified'
    BY <1>1 DEF CancelInv, Placed, EndedLeavesWorker, OutcomeIsJustified, InQueue
<1> QED BY <1>2, <1>3, <1>4, <1>5 DEF CancelInv

\* The monitor deletes its prompt, or interrupts whatever executes.
LEMMA DeleteKeeps == ASSUME CancelInv, NEW j \in Jobs, Delete(j) PROVE CancelInv'
<1>1. PendingOK' /\ \A k \in Jobs : IsPending(k)' <=> IsPending(k) /\ k # j
    BY DeletePending DEF CancelInv, TypeOK
<1>2. TypeOK'
    BY <1>1 DEF CancelInv, TypeOK, Delete, CancelAnswered, Goto, Requests, gateway, free
<1>3. Attended'
    BY DEF CancelInv, TypeOK, Attended, Delete, CancelAnswered, Goto
<1>4. Asked'
    BY DEF CancelInv, TypeOK, Asked, Delete, CancelAnswered, Goto
<1>5. Placed' /\ EndedLeavesWorker' /\ OutcomeIsJustified'
    BY <1>1 DEF CancelInv, Placed, EndedLeavesWorker, OutcomeIsJustified, InQueue, Delete, CancelAnswered
<1> QED BY <1>2, <1>3, <1>4, <1>5 DEF CancelInv

LEMMA InterruptKeeps == ASSUME CancelInv, NEW j \in Jobs, Interrupt(j) PROVE CancelInv'
<1>1. PendingOK' /\ \A k \in Jobs : IsPending(k)' <=> IsPending(k)
    BY DEF CancelInv, TypeOK, PendingOK, IsPending, Interrupt, EndRunning
<1>2. TypeOK'
    BY <1>1 DEF CancelInv, TypeOK, Interrupt, EndRunning, CancelAnswered, Goto, Requests, gateway, free
<1>3. Attended'
    BY DEF CancelInv, TypeOK, Attended, Interrupt, EndRunning, CancelAnswered, Goto
<1>4. Asked'
    BY DEF CancelInv, TypeOK, Asked, Interrupt, EndRunning, CancelAnswered, Goto
<1>5. Placed'
    BY <1>1, CancellationAssumption
    DEF CancelInv, TypeOK, Placed, InQueue, Interrupt, EndRunning, CancelAnswered
<1>6. EndedLeavesWorker' /\ OutcomeIsJustified'
    BY <1>1, CancellationAssumption DEF CancelInv, TypeOK, Placed, EndedLeavesWorker, OutcomeIsJustified,
       InQueue, Interrupt, EndRunning, CancelAnswered
<1> QED BY <1>2, <1>3, <1>4, <1>5, <1>6 DEF CancelInv

\* The monitor learns the outcome, or gives up.
LEMMA OutcomeKeeps ==
    ASSUME CancelInv, NEW j \in Jobs, NEW result \in Terminal, FinishAndFree(j, result),
           at[j] \in Requests \ {"post"},
           result # "LOST" => ~InQueue(j),
           result = "CANCELLED" => j \in unwanted \cup overdue,
           result = "COMPLETED" => history[j] = "success"
    PROVE  CancelInv'
<1>1. PendingOK' /\ \A k \in Jobs : IsPending(k)' <=> IsPending(k)
    BY DEF CancelInv, TypeOK, PendingOK, IsPending, FinishAndFree, queue
<1> USE DEF Active, Terminal, Requests
<1>2. status[j] = "RUNNING" /\ j \notin inFlight
    BY DEF CancelInv, TypeOK, Attended, Placed
<1>3. TypeOK'
    BY <1>1 DEF CancelInv, TypeOK, FinishAndFree, Goto, gateway, queue
<1>4. Attended'
    BY DEF CancelInv, TypeOK, Attended, FinishAndFree, Goto
<1>5. Asked'
    BY DEF CancelInv, TypeOK, Asked, FinishAndFree, Goto
<1>6. Placed'
    BY <1>1, <1>2 DEF CancelInv, TypeOK, Placed, InQueue, FinishAndFree, queue
<1>7. EndedLeavesWorker' /\ OutcomeIsJustified'
    BY <1>1, <1>2 DEF CancelInv, TypeOK, EndedLeavesWorker, OutcomeIsJustified, InQueue, FinishAndFree, queue
<1> QED BY <1>3, <1>4, <1>5, <1>6, <1>7 DEF CancelInv

\* The worker keeps a prompt in its history only once it is out of its queue.
LEMMA HistoryKeeps == ASSUME CancelInv, NEW j \in Jobs, HistoryRead(j) PROVE CancelInv'
<1>1. CASE history[j] \in {"error", "interrupted"} /\ FinishAndFree(j, IF j \in killing THEN "CANCELLED" ELSE "FAILED")
    BY <1>1, OutcomeKeeps DEF HistoryRead, CancelInv, Placed, Asked, Terminal, Requests
<1>2. CASE history[j] = "success" /\ FinishAndFree(j, "COMPLETED")
    BY <1>2, OutcomeKeeps DEF HistoryRead, CancelInv, Placed, Terminal, Requests
<1>3. CASE /\ history[j] = "none" /\ Goto(j, IF j \in cancelSent THEN "absent" ELSE "end")
           /\ UNCHANGED <<status, unwanted, overdue, killing, cancelSent, gateway, queue, free>>
    BY <1>3, LooksKeep DEF HistoryRead, HistoryUnread
<1> QED BY <1>1, <1>2, <1>3 DEF HistoryRead

LEMMA MonitorKeeps == ASSUME CancelInv, NEW j \in Jobs, Monitor(j) PROVE CancelInv'
<1>1. CASE FoundAbsent(j)
    BY <1>1, OutcomeKeeps DEF FoundAbsent, Gone, CancelInv, Asked, Terminal, Requests
<1>2. CASE GivesUp(j)
    BY <1>2, OutcomeKeeps DEF GivesUp, Terminal, Requests
<1> QED BY <1>1, <1>2, HistoryKeeps, DeleteKeeps, InterruptKeeps, LooksKeep DEF Monitor

LEMMA NextCancelInv == CancelInv /\ [Next]_vars => CancelInv'
<1> SUFFICES ASSUME CancelInv, [Next]_vars PROVE CancelInv'
    OBVIOUS
<1>1. CASE UNCHANGED vars
    <2>1. UNCHANGED <<status, unwanted, overdue, at, killing, cancelSent, usable, restarts,
                      inFlight, pending, running, history, freeing, evicted>>
        BY <1>1 DEF vars, monitor, gateway, queue, free
    <2>2. PendingOK' /\ \A k \in Jobs : InQueue(k)' <=> InQueue(k)
        BY <2>1 DEF CancelInv, TypeOK, PendingOK, InQueue, IsPending
    <2> QED BY <2>1, <2>2 DEF CancelInv, TypeOK, Attended, Placed, Asked, EndedLeavesWorker,
               OutcomeIsJustified, IsPending
<1> QED BY <1>1, RequestsKeep, DispatchKeeps, MonitorKeeps, RestartKeeps, WorkerKeeps DEF Next

LEMMA CancelInvHolds == Spec => []CancelInv
<1> QED BY InitCancelInv, NextCancelInv, PTL DEF Spec

\* Every variable keeps its type, and the worker never has a prompt twice.
THEOREM QueueTypeCorrect == Spec => []TypeOK
<1> QED BY CancelInvHolds, PTL DEF CancelInv

\* scheduler.ts:332: whatever the queue does between what the monitor read and
\* what it then concludes, a job ends other than LOST only when the worker has
\* nothing left of it.
THEOREM SlotIsKeptUntilEnded == Spec => []EndedLeavesWorker
<1> QED BY CancelInvHolds, PTL DEF CancelInv

\* A job is CANCELLED only for a reason, and COMPLETED only by its history.
THEOREM OutcomesAreJustified == Spec => []OutcomeIsJustified
<1> QED BY CancelInvHolds, PTL DEF CancelInv

-----------------------------------------------------------------------------
(* A worker with one slot. *)

OneActive == \A j, k \in ActiveJobs : j = k

\* Only a claim makes a job active, and it finds the only slot free.
LEMMA NextOneActive ==
    ASSUME Capacity = 1, CancelInv, OneActive, [Next]_vars
    PROVE  OneActive'
<1> USE DEF ActiveJobs, Active
<1>1. ASSUME NEW j \in Jobs, Claim(j) PROVE OneActive'
    <2>1. ActiveJobs = {}
        BY <1>1, CancellationAssumption, FS_Subset, FS_CardinalityType, FS_EmptySet DEF Claim, HasRoom
    <2> QED BY <1>1, <2>1 DEF Claim, OneActive, CancelInv, TypeOK
<1>2. ASSUME ~\E j \in Jobs : Claim(j) PROVE ActiveJobs' \subseteq ActiveJobs
    <2>1. ASSUME NEW j \in Jobs, Monitor(j) PROVE ActiveJobs' \subseteq ActiveJobs
        <3>1. UNCHANGED status \/ \E result \in Terminal : status' = [status EXCEPT ![j] = result]
            BY <2>1 DEF Monitor, MonitorReads, QueueRead, Delete, Interrupt, CancelFails, CancelAnswered,
               HistoryRead, HistoryUnread, FoundAbsent, StillThere, GivesUp, PollAgain, FinishAndFree, Terminal
        <3> QED BY <3>1 DEF CancelInv, TypeOK, Terminal
    <2>2. ASSUME NEW j \in Jobs, PromptRecorded(j) \/ OutcomeUnknown(j)
          PROVE  ActiveJobs' \subseteq ActiveJobs
        BY <2>2 DEF PromptRecorded, OutcomeUnknown, CancelInv, TypeOK, Attended
    <2>3. CASE Restart
        BY <2>3 DEF Restart
    <2> QED BY <1>2, <2>1, <2>2, <2>3
        DEF Next, Dispatch, RequestCancel, TimeOut, HealthChecked, WorkerAccepts, WorkerStarts, WorkerEnds,
            FreeArrives, vars
<1> QED BY <1>1, <1>2 DEF OneActive

\* What /interrupt ends is the one active job's prompt, or a LOST job's.
LEMMA NextInterruptsOwn ==
    ASSUME Capacity = 1, CancelInv, OneActive, InterruptsOnlyItsOwn, [Next]_vars
    PROVE  InterruptsOnlyItsOwn'
<1>1. ASSUME NEW j \in Jobs, Interrupt(j) PROVE InterruptsOnlyItsOwn'
    <2>1. status[j] = "RUNNING" /\ j \in unwanted \cup overdue
        BY <1>1 DEF Interrupt, CancelInv, Attended, Asked, TypeOK, Active
    <2>2. running # None => running = j \/ status[running] = "LOST"
        BY <2>1 DEF OneActive, ActiveJobs, Active, Terminal, CancelInv, TypeOK, Placed, EndedLeavesWorker, InQueue
    <2> QED BY <1>1, <2>1, <2>2 DEF Interrupt, EndRunning, CancelAnswered, InterruptsOnlyItsOwn, CancelInv, TypeOK
<1>2. ASSUME ~\E j \in Jobs : Interrupt(j)
      PROVE  /\ unwanted \subseteq unwanted' /\ overdue \subseteq overdue'
             /\ \A k \in Jobs : history'[k] = "interrupted" => history[k] = "interrupted"
             /\ \A k \in Jobs : status[k] = "LOST" => status'[k] = "LOST"
    <2>1. ASSUME NEW j \in Jobs, Monitor(j)
          PROVE  /\ UNCHANGED <<unwanted, overdue, history>>
                 /\ \A k \in Jobs : status[k] = "LOST" => status'[k] = "LOST"
        <3>1. UNCHANGED <<unwanted, overdue, history>>
            BY <1>2, <2>1 DEF Monitor, MonitorReads, QueueRead, Delete, CancelFails, CancelAnswered,
               HistoryRead, HistoryUnread, FoundAbsent, StillThere, GivesUp, PollAgain, FinishAndFree, queue
        <3>2. at[j] # "none"
            BY <2>1 DEF Monitor, MonitorReads, QueueRead, Delete, Interrupt, CancelFails,
               HistoryRead, HistoryUnread, FoundAbsent, StillThere, GivesUp, PollAgain
        <3>3. status[j] # "LOST"
            BY <3>2 DEF CancelInv, Attended, Active
        <3>4. UNCHANGED status \/ \E result \in Terminal : status' = [status EXCEPT ![j] = result]
            BY <2>1 DEF Monitor, MonitorReads, QueueRead, Delete, Interrupt, CancelFails, CancelAnswered,
               HistoryRead, HistoryUnread, FoundAbsent, StillThere, GivesUp, PollAgain, FinishAndFree, Terminal
        <3> QED BY <3>1, <3>3, <3>4 DEF CancelInv, TypeOK
    <2>2. ASSUME NEW j \in Jobs, Dispatch(j)
          PROVE  /\ UNCHANGED <<unwanted, overdue, history>>
                 /\ \A k \in Jobs : status[k] = "LOST" => status'[k] = "LOST"
        BY <2>2 DEF Dispatch, Claim, PromptRecorded, OutcomeUnknown, queue, CancelInv, TypeOK, Attended, Active
    <2>3. CASE WorkerEnds
        BY <2>3, CancellationAssumption DEF WorkerEnds, EndRunning, CancelInv, TypeOK
    <2>4. CASE Restart
        BY <2>4 DEF Restart, queue, CancelInv, TypeOK
    <2>5. CASE \/ \E j \in Jobs : RequestCancel(j) \/ TimeOut(j) \/ WorkerAccepts(j)
               \/ HealthChecked \/ WorkerStarts \/ FreeArrives \/ UNCHANGED vars
        BY <2>5 DEF RequestCancel, TimeOut, WorkerAccepts, HealthChecked, WorkerStarts, FreeArrives, vars, queue
    <2> QED BY <2>1, <2>2, <2>3, <2>4, <2>5 DEF Next
<1> QED BY <1>1, <1>2 DEF InterruptsOnlyItsOwn

\* README.md:251, for a worker with one slot: whatever the queue does between
\* GET /queue and POST /interrupt, no other active job's prompt is interrupted.
THEOREM NobodyElseIsInterrupted ==
    ASSUME Capacity = 1
    PROVE  Spec => []InterruptsOnlyItsOwn
<1>1. Init => OneActive /\ InterruptsOnlyItsOwn
    BY DEF Init, OneActive, ActiveJobs, Active, InterruptsOnlyItsOwn
<1>2. CancelInv /\ OneActive /\ InterruptsOnlyItsOwn /\ [Next]_vars
      => OneActive' /\ InterruptsOnlyItsOwn'
    BY NextOneActive, NextInterruptsOwn
<1> QED BY <1>1, <1>2, CancelInvHolds, PTL DEF Spec

=============================================================================
