------------------------ MODULE AdministrationProofs ------------------------
(***************************************************************************)
(* Proofs about what administrators do next to what runs by itself:        *)
(* deleting a class next to the archival of its jobs, for any number of    *)
(* retries and crashes and any retention policy; managing workers next to  *)
(* the gateway and the reaper, for any jobs, addresses and idle time; and  *)
(* changing accounts, for any users.                                       *)
(***************************************************************************)
EXTENDS ClassDeletion, Fleet, Administration, TLAPS

-----------------------------------------------------------------------------
(* ClassDeletion.  What purgeClass() checks is the two status columns of a  *)
(* job.  That they say enough is the invariant: whoever may still write the *)
(* job's files without retention is before the end of archive()'s           *)
(* downloads, and then the job is RUNNING or its archive is ARCHIVING.      *)

\* Steps after which the directory of the archive is not created any more.
Harmless == {"none", "mark", "manifest", "jobfile", "failing"}

\* Files are written only by a job that purgeClass() calls active.
WritersAreActive ==
    ~retention =>
        /\ ~expiring
        /\ Rows /\ ~Active => at \in Harmless

\* Without rows nothing becomes active again, and what was removed stays away.
NothingRevives ==
    ~Rows /\ ~retention =>
        /\ at \in Harmless /\ status # "RUNNING"
        /\ purge \in {"inputs", "done"} /\ ~missed => disk = "absent"
        /\ purge = "done" /\ ~missed => input # "file"

\* Only retention removes what archive() is about to publish or has published.
OutputsStay ==
    /\ expiring => old
    /\ Rows /\ ~old /\ (at = "publish" \/ archive = "COMPLETE") => disk = "outputs"

DeletionInv == WritersAreActive /\ NothingRevives /\ OutputsStay

LEMMA InitDeletionInv == DeletionInit => DeletionInv
BY DEF DeletionInit, Init, DeletionInv, WritersAreActive, NothingRevives, OutputsStay,
       Rows, Active, Harmless

\* The steps of archive().
LEMMA ArchivingInv ==
    ASSUME DeletionInv, Rows, Archiving, UNCHANGED <<deletion, staging>>
    PROVE  DeletionInv'
<1> USE DEF DeletionInv, WritersAreActive, NothingRevives, OutputsStay, Rows, Active,
            Harmless, deletion, staging, bounds, process, Goto, Thrown, Fails
<1>1. CASE Prepare
    BY <1>1 DEF Prepare
<1>2. CASE PrepareFails
    BY <1>2 DEF PrepareFails
<1>3. CASE Download
    BY <1>3 DEF Download
<1>4. CASE DownloadFails
    BY <1>4 DEF DownloadFails
<1>5. CASE Publish
    BY <1>5 DEF Publish
<1>6. CASE PublishFails
    BY <1>6 DEF PublishFails
<1>7. CASE Manifest
    BY <1>7 DEF Manifest
<1>8. CASE ManifestFails
    BY <1>8 DEF ManifestFails
<1>9. CASE JobFile
    BY <1>9 DEF JobFile
<1>10. CASE Rethrow
    BY <1>10 DEF Rethrow
<1> QED BY <1>1, <1>2, <1>3, <1>4, <1>5, <1>6, <1>7, <1>8, <1>9, <1>10 DEF Archiving

\* The life of the archive while the class exists.
LEMMA ArchiveInv ==
    ASSUME DeletionInv, Rows, Next, UNCHANGED <<deletion, staging>>
    PROVE  DeletionInv'
<1> USE DEF DeletionInv, WritersAreActive, NothingRevives, OutputsStay, Rows, Active,
            Harmless, deletion, staging, bounds, process, Goto, Thrown
<1>1. CASE Complete
    BY <1>1 DEF Complete
<1>2. CASE MarkArchiving
    BY <1>2 DEF MarkArchiving
<1>3. CASE MarkThrows
    BY <1>3 DEF MarkThrows
<1>4. CASE Archiving
    BY <1>4, ArchivingInv
<1>5. CASE Recover
    BY <1>5 DEF Recover
<1>6. CASE HistoryRecalled
    BY <1>6 DEF HistoryRecalled
<1>7. CASE HistoryUnavailable
    BY <1>7 DEF HistoryUnavailable
<1>8. CASE PickExpired
    BY <1>8 DEF PickExpired
<1>9. CASE Remove
    BY <1>9 DEF Remove
<1>10. CASE Expire
    BY <1>10 DEF Expire
<1>11. CASE Retry
    BY <1>11 DEF Retry
<1>12. CASE Ages
    BY <1>12 DEF Ages
<1>13. CASE Crash
    BY <1>13 DEF Crash
<1> QED BY <1>1, <1>2, <1>3, <1>4, <1>5, <1>6, <1>7, <1>8, <1>9, <1>10, <1>11, <1>12,
           <1>13 DEF Next, Gateway

\* What is left of it once the rows are gone.
LEMMA OrphanedInv ==
    ASSUME DeletionInv, Orphaned, UNCHANGED <<deletion, staging>>
    PROVE  DeletionInv'
<1> USE DEF DeletionInv, WritersAreActive, NothingRevives, OutputsStay, Rows, Active,
            Harmless, deletion, staging, bounds, process, Goto
<1>0. ~Rows
    BY DEF Orphaned
<1>1. CASE OrphanThrows
    BY <1>0, <1>1 DEF OrphanThrows
<1>2. CASE OrphanFails
    BY <1>0, <1>2 DEF OrphanFails
<1>3. CASE RetentionThrows
    BY <1>0, <1>3 DEF RetentionThrows
<1>4. CASE HistoryRecalled \/ Prepare \/ Download
    BY <1>0, <1>4 DEF HistoryRecalled, Prepare, Download
<1>5. CASE Manifest \/ JobFile
    BY <1>0, <1>5 DEF Manifest, JobFile
<1>6. CASE Remove
    BY <1>0, <1>6 DEF Remove
<1>7. CASE Crash
    BY <1>0, <1>7 DEF Crash
<1> QED BY <1>1, <1>2, <1>3, <1>4, <1>5, <1>6, <1>7 DEF Orphaned

\* The deletion itself, and the upload.
LEMMA PurgeInv == ASSUME DeletionInv, Purge PROVE DeletionInv'
<1> USE DEF DeletionInv, WritersAreActive, NothingRevives, OutputsStay, Rows, Active,
            Harmless, vars, deletion, staging, bounds, process
<1>1. CASE PurgeRows
    BY <1>1 DEF PurgeRows
<1>2. CASE RemoveArchive
    BY <1>2 DEF RemoveArchive
<1>3. CASE RemoveInputs
    BY <1>3 DEF RemoveInputs
<1>4. CASE WebDies
    BY <1>4 DEF WebDies
<1> QED BY <1>1, <1>2, <1>3, <1>4 DEF Purge

LEMMA UploadInv ==
    ASSUME DeletionInv, Receive \/ MakeDirectory \/ Place \/ Refuse
    PROVE  DeletionInv'
BY DEF DeletionInv, WritersAreActive, NothingRevives, OutputsStay, Rows, Active, Harmless,
       vars, deletion, bounds, process, Receive, MakeDirectory, Place, Refuse

LEMMA NextDeletionInv == DeletionInv /\ [DeletionNext]_deletionVars => DeletionInv'
<1> SUFFICES ASSUME DeletionInv, [DeletionNext]_deletionVars PROVE DeletionInv'
    OBVIOUS
<1>1. CASE Rows /\ Next /\ UNCHANGED <<deletion, staging>>
    BY <1>1, ArchiveInv
<1>2. CASE Orphaned /\ UNCHANGED <<deletion, staging>>
    BY <1>2, OrphanedInv
<1>3. CASE Purge
    BY <1>3, PurgeInv
<1>4. CASE Receive \/ MakeDirectory \/ Place \/ Refuse
    BY <1>4, UploadInv
<1>5. CASE UNCHANGED deletionVars
    BY <1>5 DEF deletionVars, vars, deletion, staging, bounds, process, DeletionInv,
       WritersAreActive, NothingRevives, OutputsStay, Rows, Active, Harmless
<1> QED BY <1>1, <1>2, <1>3, <1>4, <1>5 DEF DeletionNext

\* Whatever archive(), recovery, retention, upload and purgeClass() interleave,
\* in any order and over any crashes, the strengthened invariant stays true.
THEOREM DeletionSafe == DeletionSpec => []DeletionInv
BY InitDeletionInv, NextDeletionInv, PTL DEF DeletionSpec

\* README.md:172: without retention, a class deleted with success leaves no file
\* of an archive and no staged input behind, and none comes back later.
THEOREM DeletionIsFinal == DeletionSpec => []DeletedStaysDeleted
<1>1. DeletionInv => DeletedStaysDeleted
    BY DEF DeletionInv, NothingRevives, DeletedStaysDeleted, Rows
<1> QED BY <1>1, DeletionSafe, PTL

\* purge.ts:33: neither deletion nor crash makes a row point at outputs that
\* are gone, as long as retention leaves the job alone.
THEOREM RowsPointAtFiles == DeletionSpec => []PublishedIsOnDisk
<1>1. DeletionInv => PublishedIsOnDisk
    BY DEF DeletionInv, OutputsStay, PublishedIsOnDisk
<1> QED BY <1>1, DeletionSafe, PTL

-----------------------------------------------------------------------------
(* ClassDeletion: types. *)

LEMMA InitDeletionTypeOK == DeletionInit => DeletionTypeOK
<1> SUFFICES ASSUME DeletionInit PROVE DeletionTypeOK
    OBVIOUS
<1>1. retries \in 0..MaxRetries /\ crashes \in 0..MaxCrashes
    BY ArchiveAssumption DEF DeletionInit, Init
<1>2. TypeOK
    BY <1>1 DEF DeletionInit, Init, TypeOK, Steps
<1> QED BY <1>2 DEF DeletionInit, DeletionTypeOK

\* The steps of archive(), of which only a recovery's are marked as one.
LEMMA ArchivingTyped == TypeOK /\ Archiving => TypeOK'
<1> SUFFICES ASSUME TypeOK, Archiving PROVE TypeOK'
    OBVIOUS
<1> USE DEF TypeOK, Steps, bounds, Goto, Thrown, Fails
<1>1. CASE Prepare \/ PrepareFails
    BY <1>1 DEF Prepare, PrepareFails
<1>2. CASE Download \/ DownloadFails
    BY <1>2 DEF Download, DownloadFails
<1>3. CASE Publish \/ PublishFails
    BY <1>3 DEF Publish, PublishFails
<1>4. CASE Manifest \/ ManifestFails
    BY <1>4 DEF Manifest, ManifestFails
<1>5. CASE JobFile \/ Rethrow
    BY <1>5 DEF JobFile, Rethrow
<1> QED BY <1>1, <1>2, <1>3, <1>4, <1>5 DEF Archiving

LEMMA ArchiveTyped == TypeOK /\ [Next]_vars => TypeOK'
<1> SUFFICES ASSUME TypeOK, [Next]_vars PROVE TypeOK'
    OBVIOUS
<1> USE DEF TypeOK, Steps, process, bounds, Goto, Thrown
<1>1. CASE Complete \/ MarkArchiving \/ MarkThrows
    BY <1>1 DEF Complete, MarkArchiving, MarkThrows
<1>2. CASE Archiving
    BY <1>2, ArchivingTyped
<1>3. CASE Recover \/ HistoryRecalled \/ HistoryUnavailable
    BY <1>3 DEF Recover, HistoryRecalled, HistoryUnavailable
<1>4. CASE PickExpired
    BY <1>4 DEF PickExpired
<1>5. CASE Ages
    BY <1>5 DEF Ages
<1>6. CASE Remove
    BY <1>6 DEF Remove
<1>7. CASE Expire
    BY <1>7 DEF Expire
<1>8. CASE Retry
    BY <1>8, ArchiveAssumption DEF Retry
<1>9. CASE Crash
    <2>1. crashes' \in 0..MaxCrashes
        BY <1>9, ArchiveAssumption DEF Crash
    <2> QED BY <1>9, <2>1 DEF Crash
<1>10. CASE UNCHANGED vars
    BY <1>10 DEF vars
<1> QED BY <1>1, <1>2, <1>3, <1>4, <1>5, <1>6, <1>7, <1>8, <1>9, <1>10
        DEF Next, Gateway

LEMMA OrphanedTyped == TypeOK /\ Orphaned => TypeOK'
<1> SUFFICES ASSUME TypeOK, Orphaned PROVE TypeOK'
    OBVIOUS
<1> USE DEF TypeOK, Steps, Goto, bounds
<1>1. CASE OrphanThrows \/ OrphanFails
    BY <1>1 DEF OrphanThrows, OrphanFails
<1>2. CASE RetentionThrows
    BY <1>2 DEF RetentionThrows
<1>3. CASE HistoryRecalled \/ Prepare \/ Download \/ Manifest \/ JobFile \/ Remove \/ Crash
    BY <1>3, ArchiveTyped DEF Next, Gateway, Archiving
<1> QED BY <1>1, <1>2, <1>3 DEF Orphaned

LEMMA NextDeletionTypeOK == DeletionTypeOK /\ [DeletionNext]_deletionVars => DeletionTypeOK'
<1> SUFFICES ASSUME DeletionTypeOK, [DeletionNext]_deletionVars PROVE DeletionTypeOK'
    OBVIOUS
<1> USE DEF DeletionTypeOK
<1>1. CASE ((Rows /\ Next) \/ Orphaned) /\ UNCHANGED <<deletion, staging>>
    BY <1>1, ArchiveTyped, OrphanedTyped DEF deletion, staging
<1>2. CASE RemoveArchive
    <2>1. disk' \in {"absent", "directory", "outputs"}
        BY <1>2 DEF RemoveArchive, TypeOK
    <2>2. TypeOK'
        BY <1>2, <2>1 DEF RemoveArchive, TypeOK, process, bounds
    <2> QED BY <1>2, <2>2 DEF RemoveArchive, staging
<1>3. CASE PurgeRows \/ RemoveInputs \/ WebDies
    <2>1. UNCHANGED vars
        BY <1>3 DEF PurgeRows, RemoveInputs, WebDies
    <2>2. TypeOK'
        BY <2>1, ArchiveTyped
    <2> QED BY <1>3, <2>2 DEF PurgeRows, RemoveInputs, WebDies, staging
<1>4. CASE Receive \/ MakeDirectory \/ Place \/ Refuse
    <2>1. UNCHANGED vars
        BY <1>4 DEF Receive, MakeDirectory, Place, Refuse
    <2>2. TypeOK'
        BY <2>1, ArchiveTyped
    <2> QED BY <1>4, <2>2 DEF Receive, MakeDirectory, Place, Refuse, deletion
<1>5. CASE UNCHANGED deletionVars
    BY <1>5, ArchiveTyped DEF deletionVars, deletion, staging
<1> QED BY <1>1, <1>2, <1>3, <1>4, <1>5 DEF DeletionNext, Purge

\* Types hold also for an archival whose class is deleted under it.
THEOREM DeletionTypeCorrect == DeletionSpec => []DeletionTypeOK
BY InitDeletionTypeOK, NextDeletionTypeOK, PTL DEF DeletionSpec

-----------------------------------------------------------------------------
(* Fleet.  The parts of the invariant are about different actors and are    *)
(* proved apart: where a job is (gateway and administrators), what the      *)
(* reaper has seen (unit and reaper), and its clock (the reaper alone).     *)

\* A job that is dispatched or running is at the worker's address.
Located ==
    /\ jobStatus \in [Jobs -> {"new", "QUEUED", "DISPATCHING", "RUNNING", "ended", "LOST"}]
    /\ sentTo \in [Jobs -> Urls] /\ url \in Urls
    /\ AddressStays

\* Between the poll that saw an empty queue and the stop, what the unit got it
\* got since that poll.
Seen == pc \in {"free", "stop"} => prompts \subseteq fresh

\* The idle clock never runs ahead of what the polls have seen.
Clocked ==
    /\ clock \in 0 .. None /\ quiet \in 0 .. Unwatched
    /\ pc \in {"free", "stop"} => clock = Idle
    /\ clock = None \/ clock <= quiet

-----------------------------------------------------------------------------
(* Fleet: what the unit has. *)

LEMMA InitFleetTypeOK == FleetInit => FleetTypeOK
<1> SUFFICES ASSUME FleetInit PROVE FleetTypeOK
    OBVIOUS
<1>1. clock \in 0 .. None /\ quiet \in 0 .. Unwatched
    BY FleetAssumption DEF FleetInit, None, Unwatched
<1>2. /\ jobStatus \in [Jobs -> {"new", "QUEUED", "DISPATCHING", "RUNNING", "ended", "LOST"}]
      /\ sentTo \in [Jobs -> Urls] /\ url \in Urls
    BY FleetAssumption DEF FleetInit
<1> QED BY <1>1, <1>2 DEF FleetInit, FleetTypeOK

LEMMA NextFleetTypeOK == FleetTypeOK /\ [FleetNext]_fleetVars => FleetTypeOK'
<1> SUFFICES ASSUME FleetTypeOK, [FleetNext]_fleetVars PROVE FleetTypeOK'
    OBVIOUS
<1> USE FleetAssumption DEF FleetTypeOK, None, Unwatched, reaperVars, jobVars, workerVars
<1>1. CASE Start \/ StartFails \/ NothingToStart
    BY <1>1 DEF Start, StartFails, RunAgain, NothingToStart, Startable, fleetVars
<1>2. CASE NotIdle \/ LookIdle
    BY <1>2 DEF NotIdle, LookIdle
<1>3. CASE Freed \/ FreeFails \/ Stop
    BY <1>3 DEF Freed, FreeFails, Stop
<1>4. CASE Sleep
    BY <1>4 DEF Sleep
<1>5. CASE Restart
    BY <1>5 DEF Restart, RunAgain
<1>6. CASE StartedByHand \/ ComesUp \/ GoesDown
    BY <1>6 DEF StartedByHand, ComesUp, GoesDown, Startable
<1>7. ASSUME NEW j \in Jobs, Submit(j) \/ Claim(j) \/ NotSent(j) \/ Monitored(j)
      PROVE  FleetTypeOK'
    BY <1>7 DEF Submit, Claim, NotSent, Monitored
<1>8. ASSUME NEW j \in Jobs, Sent(j) PROVE FleetTypeOK'
    BY <1>8 DEF Sent, Answers
<1>9. ASSUME NEW j \in Jobs, Ends(j) PROVE FleetTypeOK'
    BY <1>9 DEF Ends
<1>10. CASE HealthChecked
    BY <1>10 DEF HealthChecked
<1>11. CASE (\E u \in Urls : ChangeUrl(u)) \/ (\E on \in BOOLEAN : SetEnabled(on))
    BY <1>11 DEF ChangeUrl, SetEnabled
<1>12. CASE UNCHANGED fleetVars
    BY <1>12 DEF fleetVars
<1> QED BY <1>1, <1>2, <1>3, <1>4, <1>5, <1>6, <1>7, <1>8, <1>9, <1>10, <1>11, <1>12
        DEF FleetNext, Reaper, LookInactive, LookBusy, GatewayStep

\* The unit has only prompts of RUNNING jobs, and none while it is down.
THEOREM FleetTypeCorrect == FleetSpec => []FleetTypeOK
BY InitFleetTypeOK, NextFleetTypeOK, PTL DEF FleetSpec

-----------------------------------------------------------------------------
(* Fleet: the worker's address. *)

LEMMA InitLocated == FleetInit => Located
BY FleetAssumption DEF FleetInit, Located, AddressStays, ActiveStatuses

\* What is neither a claim, nor the way of one job, nor a new address leaves
\* everything in Located alone.
LEMMA OthersKeepPlace ==
    ASSUME Reaper \/ StartedByHand \/ ComesUp \/ GoesDown \/ HealthChecked
           \/ (\E j \in Jobs : Ends(j)) \/ (\E on \in BOOLEAN : SetEnabled(on))
           \/ UNCHANGED fleetVars
    PROVE  UNCHANGED <<jobStatus, sentTo, url>>
BY DEF Reaper, Start, StartFails, NothingToStart, LookInactive, LookBusy, NotIdle, LookIdle,
       Freed, FreeFails, Stop, Sleep, Restart, RunAgain, StartedByHand, ComesUp, GoesDown,
       HealthChecked, Ends, SetEnabled, jobVars, workerVars, fleetVars

LEMMA NextLocated == Located /\ [FleetNext]_fleetVars => Located'
<1> SUFFICES ASSUME Located, [FleetNext]_fleetVars PROVE Located'
    OBVIOUS
<1>1. ASSUME UNCHANGED <<jobStatus, sentTo, url>> PROVE Located'
    BY <1>1 DEF Located, AddressStays
<1>2. ASSUME NEW j \in Jobs, Submit(j) \/ Sent(j) \/ NotSent(j) \/ Monitored(j) PROVE Located'
    <2>1. sentTo' = sentTo /\ url' = url
        BY <1>2 DEF Submit, Sent, NotSent, Monitored, workerVars
    <2>2. \A k \in Jobs : jobStatus'[k] \in ActiveStatuses => jobStatus[k] \in ActiveStatuses
        BY <1>2 DEF Located, ActiveStatuses, Submit, Sent, NotSent, Monitored
    <2>3. jobStatus' \in [Jobs -> {"new", "QUEUED", "DISPATCHING", "RUNNING", "ended", "LOST"}]
        BY <1>2 DEF Located, Submit, Sent, NotSent, Monitored
    <2> QED BY <2>1, <2>2, <2>3 DEF Located, AddressStays
<1>3. ASSUME NEW j \in Jobs, Claim(j) PROVE Located'
    <2>1. /\ jobStatus' \in [Jobs -> {"new", "QUEUED", "DISPATCHING", "RUNNING", "ended", "LOST"}]
          /\ sentTo' \in [Jobs -> Urls] /\ url' = url
        BY <1>3 DEF Located, Claim, workerVars
    <2>2. \A k \in Jobs : jobStatus'[k] \in ActiveStatuses => sentTo'[k] = url
        BY <1>3 DEF Located, Claim
    <2> QED BY <2>1, <2>2 DEF Located, AddressStays
<1>4. ASSUME NEW u \in Urls, ChangeUrl(u) PROVE Located'
    BY <1>4 DEF Located, AddressStays, ChangeUrl, UrlFree, jobVars
<1> QED BY <1>1, <1>2, <1>3, <1>4, OthersKeepPlace DEF FleetNext, GatewayStep

\* api.ts:1083: a job's monitor asks the machine it was dispatched to, for any
\* number of jobs and addresses, whenever the worker's row is edited.
THEOREM AddressHolds == FleetSpec => []AddressStays
<1>1. Located => AddressStays
    BY DEF Located
<1> QED BY <1>1, InitLocated, NextLocated, PTL DEF FleetSpec

-----------------------------------------------------------------------------
(* Fleet: what the reaper has seen. *)

LEMMA NextSeen == Seen /\ [FleetNext]_fleetVars => Seen'
<1> SUFFICES ASSUME Seen, [FleetNext]_fleetVars PROVE Seen'
    OBVIOUS
<1> USE DEF Seen, reaperVars, jobVars, workerVars
<1>1. CASE Reaper
    BY <1>1 DEF Reaper, Start, StartFails, NothingToStart, LookInactive, LookBusy, NotIdle,
       LookIdle, QueueEmpty, Freed, FreeFails, Stop, Sleep, Restart, RunAgain, fleetVars
<1>2. CASE StartedByHand \/ ComesUp \/ GoesDown
    BY <1>2 DEF StartedByHand, ComesUp, GoesDown
<1>3. CASE GatewayStep
    BY <1>3 DEF GatewayStep, HealthChecked, Submit, Claim, Sent, NotSent, Monitored
<1>4. CASE \E j \in Jobs : Ends(j)
    BY <1>4 DEF Ends
<1>5. CASE (\E u \in Urls : ChangeUrl(u)) \/ (\E on \in BOOLEAN : SetEnabled(on))
    BY <1>5 DEF ChangeUrl, SetEnabled
<1>6. CASE UNCHANGED fleetVars
    BY <1>6 DEF fleetVars
<1> QED BY <1>1, <1>2, <1>3, <1>4, <1>5, <1>6 DEF FleetNext

\* comfyui-idle-reaper.sh:114: no unit is stopped under a prompt that was there
\* to be seen.
THEOREM NothingSeenIsStopped == FleetSpec => StopsNoVisibleWork
<1>1. FleetInit => Seen
    BY DEF FleetInit, Seen
<1>2. Seen /\ [FleetNext]_fleetVars
      => [pc = "stop" /\ unit' # unit /\ pc' = "sleep" => prompts \subseteq fresh]_fleetVars
    BY DEF Seen
<1> QED BY <1>1, <1>2, NextSeen, PTL DEF FleetSpec, StopsNoVisibleWork

-----------------------------------------------------------------------------
(* Fleet: the idle clock. *)

\* Only the reaper moves it.
LEMMA OthersKeepClock ==
    ASSUME [FleetNext]_fleetVars, ~Reaper
    PROVE  UNCHANGED <<pc, clock, quiet>>
BY DEF FleetNext, fleetVars, reaperVars, jobVars, workerVars, StartedByHand, ComesUp, GoesDown, GatewayStep,
       HealthChecked, Submit, Claim, Sent, NotSent, Monitored, Ends, ChangeUrl, SetEnabled

LEMMA NextClocked == ASSUME Clocked, [FleetNext]_fleetVars PROVE Clocked'
<1> USE FleetAssumption DEF Clocked, None, Unwatched
<1>1. CASE ~Reaper
    BY <1>1, OthersKeepClock
<1>2. CASE Start \/ StartFails \/ NothingToStart
    BY <1>2 DEF Start, StartFails, RunAgain, NothingToStart, fleetVars, reaperVars
<1>3. CASE NotIdle
    BY <1>3 DEF NotIdle
<1>4. CASE LookIdle
    BY <1>4 DEF LookIdle
<1>5. CASE Freed \/ FreeFails \/ Stop
    BY <1>5 DEF Freed, FreeFails, Stop
<1>6. CASE Sleep
    BY <1>6 DEF Sleep
<1>7. CASE Restart
    BY <1>7 DEF Restart, RunAgain
<1> QED BY <1>1, <1>2, <1>3, <1>4, <1>5, <1>6, <1>7 DEF Reaper, LookInactive, LookBusy

\* README.md:397: whatever starts, fails, wakes and stops the unit in between, it
\* is stopped only after the whole idle time, or after polls nobody made.
THEOREM IdleTimeIsServed == FleetSpec => IdleBeforeStop
<1>1. FleetInit => Clocked
    BY FleetAssumption DEF FleetInit, Clocked, None, Unwatched
<1>2. Clocked /\ [FleetNext]_fleetVars => Clocked'
    BY NextClocked
<1>3. Clocked /\ [FleetNext]_fleetVars
      => [pc = "stop" /\ unit' # unit /\ pc' = "sleep" => quiet \in {Idle, Unwatched}]_fleetVars
    BY FleetAssumption DEF Clocked, None, Unwatched
<1> QED BY <1>1, <1>2, <1>3, PTL DEF FleetSpec, IdleBeforeStop

-----------------------------------------------------------------------------
(* Administration. *)

\* An account without its address proven is not active: what turns an enabled
\* account back to PENDING can never hit an active administrator.
ActiveIsVerified == \A u \in Users : account[u] = "ACTIVE" => u \in verified

AdminInv == AdminTypeOK /\ ActiveIsVerified

LEMMA InitAdminInv == AdminInit => AdminInv
BY DEF AdminInit, AdminInv, AdminTypeOK, ActiveIsVerified

LEMMA NextAdminInv == AdminInv /\ [AdminNext]_adminVars => AdminInv'
<1> SUFFICES ASSUME AdminInv, [AdminNext]_adminVars PROVE AdminInv'
  OBVIOUS
<1> USE DEF AdminInv, AdminTypeOK, ActiveIsVerified
<1>1. ASSUME NEW u \in Users, Activate(u) PROVE AdminInv'
  BY <1>1 DEF Activate
<1>2. ASSUME NEW u \in Users, Elevate(u) PROVE AdminInv'
  BY <1>2 DEF Elevate
<1>3. ASSUME NEW u \in Users, NEW r \in {"ADMIN", "STUDENT"}, Register(u, r) PROVE AdminInv'
  BY <1>3 DEF Register
<1>4. ASSUME NEW u \in Users, NEW r \in {"ADMIN", "STUDENT"}, NEW a \in Users,
             NEW s \in {"ACTIVE", "DISABLED"}, Change(a, u, s, r)
      PROVE  AdminInv'
  BY <1>4 DEF Change
<1>5. CASE UNCHANGED adminVars
  BY <1>5 DEF adminVars
<1> QED
  BY <1>1, <1>2, <1>3, <1>4, <1>5 DEF AdminNext

\* account.ts, users.ts: no way of changing an account makes one active whose
\* address was never proven.
THEOREM AdminInvariant == AdminSpec => []AdminInv
<1> QED
  BY InitAdminInv, NextAdminInv, PTL DEF AdminSpec

\* A step that takes one administrator away leaves another.
LEMMA StepKeepsAdmin ==
    ASSUME AdminInv, [AdminNext]_adminVars, NEW x \in Users, Administers(x)
    PROVE  \E u \in Users : Administers(u)'
<1> USE DEF AdminInv, AdminTypeOK, Administers
<1>1. ASSUME NEW u \in Users, Activate(u) PROVE Administers(x)'
  BY <1>1 DEF Activate
<1>2. ASSUME NEW u \in Users, Elevate(u) PROVE Administers(x)'
  BY <1>2 DEF Elevate
<1>3. ASSUME NEW u \in Users, NEW r \in {"ADMIN", "STUDENT"}, Register(u, r)
      PROVE  Administers(x)'
  BY <1>3 DEF Register
<1>4. ASSUME NEW u \in Users, NEW r \in {"ADMIN", "STUDENT"}, NEW a \in Users,
             NEW s \in {"ACTIVE", "DISABLED"}, Change(a, u, s, r)
      PROVE  \E v \in Users : Administers(v)'
  <2>1. CASE u # x
    BY <1>4, <2>1 DEF Change
  <2>2. CASE u = x /\ ~Losing(u, s, r)
    BY <1>4, <2>2 DEF Change, Losing, ActiveIsVerified
  <2>3. CASE u = x /\ Losing(u, s, r)
    <3>1. PICK v \in Users \ {u} : Administers(v)
      BY <1>4, <2>3 DEF Change, FinalOne
    <3>2. Administers(v)'
      BY <1>4, <3>1 DEF Change
    <3> QED
      BY <3>1, <3>2
  <2> QED
    BY <2>1, <2>2, <2>3
<1>5. CASE UNCHANGED adminVars
  BY <1>5 DEF adminVars
<1> QED
  BY <1>1, <1>2, <1>3, <1>4, <1>5 DEF AdminNext

\* The lab never loses its last active administrator.
THEOREM AdministratorsStay == AdminSpec => AdminRemains
<1>1. AdminInv /\ [AdminNext]_adminVars =>
          [(\E u \in Users : Administers(u)) => (\E u \in Users : Administers(u)')]_adminVars
  BY StepKeepsAdmin
<1> QED
  BY <1>1, AdminInvariant, PTL DEF AdminSpec, AdminRemains
=============================================================================
