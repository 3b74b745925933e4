------------------------------- MODULE Archive -------------------------------
(***************************************************************************)
(* How the outputs of one completed job reach the management host and      *)
(* leave it again: the end of Scheduler.monitor, archive() of storage.ts,  *)
(* the recovery at every tick, the retry of the job page, and retention,   *)
(* with crashes of the gateway and failing disks, workers and databases.   *)
(*                                                                         *)
(* A job is archived by one process at a time (`monitors` and the lease),  *)
(* and jobs do not share anything here, so one job is the whole story.     *)
(***************************************************************************)
EXTENDS Naturals

CONSTANTS
    MaxRetries,   \* bound: how often the archive is retried from the job page
    MaxCrashes,   \* bound: how often the gateway dies
    Policies      \* the settings of AUDIT_RETENTION_ENABLED under study

ASSUME ArchiveAssumption ==
    MaxRetries \in Nat /\ MaxCrashes \in Nat /\ Policies \subseteq BOOLEAN

VARIABLES
    status,       \* jobs.status
    archive,      \* jobs.archiveStatus
    at,           \* where the gateway's monitor or recovery of the job is
    recovering,   \* it is recoverArchive that runs
    expiring,     \* retention has chosen the job and is removing its files
    old,          \* completed more than AUDIT_RETENTION_DAYS ago
    disk,         \* the job's archive directory
    retention,    \* AUDIT_RETENTION_ENABLED
    retries, crashes

process == <<at, recovering, expiring>>
bounds  == <<retention, retries, crashes>>
vars == <<status, archive, process, old, disk, bounds>>

Steps == {"monitor", "mark", "recall", "prepare", "download", "publish",
          "manifest", "jobfile", "failing"}

TypeOK ==
    /\ status \in {"RUNNING", "COMPLETED"}
    /\ archive \in {"PENDING", "ARCHIVING", "COMPLETE", "FAILED", "EXPIRED"}
    /\ at \in Steps \cup {"none"}
    /\ recovering \in BOOLEAN /\ expiring \in BOOLEAN /\ old \in BOOLEAN
    /\ disk \in {"absent", "directory", "outputs"}
    /\ retention \in Policies
    /\ retries \in 0..MaxRetries /\ crashes \in 0..MaxCrashes
    /\ recovering => at \in Steps \ {"monitor", "mark"}

Init ==
    /\ status = "RUNNING" /\ archive = "PENDING"
    /\ at = "monitor" /\ recovering = FALSE
    /\ expiring = FALSE /\ old = FALSE
    /\ disk = "absent"
    /\ retention \in Policies /\ retries = 0 /\ crashes = 0

Goto(step) == at' = step /\ UNCHANGED <<recovering, expiring>>

-----------------------------------------------------------------------------
(* The end of Scheduler.monitor. *)

\* finish(id, "COMPLETED"), in a transaction of its own.
Complete ==
    /\ at = "monitor"
    /\ status' = "COMPLETED"
    /\ Goto("mark")
    /\ UNCHANGED <<archive, old, disk, bounds>>

\* A second transaction says ARCHIVING.
MarkArchiving ==
    /\ at = "mark"
    /\ archive' = "ARCHIVING"
    /\ Goto("prepare")
    /\ UNCHANGED <<status, old, disk, bounds>>

\* The second transaction throws: the loop swallows that, and returns because
\* the job is not RUNNING any more.
MarkThrows ==
    /\ at = "mark"
    /\ Goto("none")
    /\ UNCHANGED <<status, archive, old, disk, bounds>>

-----------------------------------------------------------------------------
(* archive() *)

\* archive() has thrown: recoverArchive records that, monitor only notifies.
Thrown ==
    /\ archive' = IF recovering THEN "FAILED" ELSE archive
    /\ at' = "none" /\ recovering' = FALSE /\ UNCHANGED expiring

\* mkdir and the prompt files.
Prepare ==
    /\ at = "prepare"
    /\ disk' = IF disk = "absent" THEN "directory" ELSE disk
    /\ Goto("download")
    /\ UNCHANGED <<status, archive, old, bounds>>

\* They are written outside the try.
PrepareFails == at = "prepare" /\ Thrown /\ UNCHANGED <<status, old, disk, bounds>>

Download ==
    /\ at = "download" /\ disk # "absent"
    /\ disk' = "outputs"
    /\ Goto("publish")
    /\ UNCHANGED <<status, archive, old, bounds>>

\* The catch of archive(), wherever the try has thrown.
Fails(step) ==
    /\ at = step
    /\ archive' = "FAILED"
    /\ Goto("failing")
    /\ UNCHANGED <<status, old, disk, bounds>>

DownloadFails == Fails("download")

\* Outputs, history and COMPLETE in one transaction.
Publish ==
    /\ at = "publish"
    /\ archive' = "COMPLETE"
    /\ Goto("manifest")
    /\ UNCHANGED <<status, old, disk, bounds>>

PublishFails == Fails("publish")

Manifest ==
    /\ at = "manifest" /\ disk # "absent"
    /\ Goto("jobfile")
    /\ UNCHANGED <<status, archive, old, disk, bounds>>

ManifestFails == Fails("manifest")

\* job.json is the last file; success ends here.
JobFile ==
    /\ at = "jobfile" /\ disk # "absent"
    /\ at' = "none" /\ recovering' = FALSE
    /\ UNCHANGED <<status, archive, expiring, old, disk, bounds>>

\* The finally block throws, or rethrows after job.json was written.
Rethrow == at \in {"jobfile", "failing"} /\ Thrown /\ UNCHANGED <<status, old, disk, bounds>>

-----------------------------------------------------------------------------
(* The tick: recovery and retention. *)

\* Mutant: only an archive that was retried is looked for.
RecoverAfterRetry ==
    /\ at = "none" /\ ~expiring
    /\ status = "COMPLETED" /\ archive = "ARCHIVING" /\ retries > 0
    /\ at' = "recall" /\ recovering' = TRUE
    /\ UNCHANGED <<status, archive, expiring, old, disk, bounds>>

\* Mutant: recovery repeats the monitor's last transaction.
RecoverMarksAgain ==
    /\ at = "none" /\ ~expiring
    /\ status = "COMPLETED" /\ archive = "ARCHIVING"
    /\ at' = "mark" /\ recovering' = TRUE
    /\ UNCHANGED <<status, archive, expiring, old, disk, bounds>>

\* "Resume archival interrupted by a restart": a tick, which does not begin
\* while retention of the tick before is still removing files.
Recover ==
    /\ at = "none" /\ ~expiring
    /\ status = "COMPLETED" /\ archive = "ARCHIVING"
    /\ at' = "recall" /\ recovering' = TRUE
    /\ UNCHANGED <<status, archive, expiring, old, disk, bounds>>

HistoryRecalled ==
    /\ at = "recall"
    /\ Goto("prepare")
    /\ UNCHANGED <<status, archive, old, disk, bounds>>

HistoryUnavailable == at = "recall" /\ Thrown /\ UNCHANGED <<status, old, disk, bounds>>

\* retention() meets the job on its way through the terminal ones.
PickExpired ==
    /\ retention /\ old /\ ~expiring /\ status = "COMPLETED" /\ archive # "EXPIRED"
    /\ expiring' = TRUE
    /\ UNCHANGED <<status, archive, at, recovering, old, disk, bounds>>

\* The recursive removal, as far as a crash may leave it.
Remove ==
    /\ expiring
    /\ disk' = "absent"
    /\ UNCHANGED <<status, archive, process, old, bounds>>

\* Mutant: a failed archive is left as it is.
ExpireUnlessFailed ==
    /\ expiring
    /\ disk' = "absent"
    /\ archive' = IF archive = "FAILED" THEN archive ELSE "EXPIRED"
    /\ expiring' = FALSE
    /\ UNCHANGED <<status, at, recovering, old, bounds>>

\* The end of the removal, and the transaction that follows it.
Expire ==
    /\ expiring
    /\ disk' = "absent"
    /\ archive' = "EXPIRED"
    /\ expiring' = FALSE
    /\ UNCHANGED <<status, at, recovering, old, bounds>>

-----------------------------------------------------------------------------
(* Students, time and crashes. *)

\* POST /api/jobs/:id/archive.
Retry ==
    /\ status = "COMPLETED" /\ archive = "FAILED" /\ retries < MaxRetries
    /\ archive' = "ARCHIVING"
    /\ retries' = retries + 1
    /\ UNCHANGED <<status, process, old, disk, retention, crashes>>

Ages ==
    /\ status = "COMPLETED" /\ at # "mark" /\ ~old
    /\ old' = TRUE
    /\ UNCHANGED <<status, archive, process, disk, bounds>>

\* The gateway dies and starts again; a RUNNING job is monitored anew.
Crash ==
    /\ crashes < MaxCrashes
    /\ crashes' = crashes + 1
    /\ at' = IF status = "RUNNING" THEN "monitor" ELSE "none"
    /\ recovering' = FALSE /\ expiring' = FALSE
    /\ UNCHANGED <<status, archive, old, disk, retention, retries>>

-----------------------------------------------------------------------------
Archiving ==
    \/ Prepare \/ PrepareFails \/ Download \/ DownloadFails \/ Publish \/ PublishFails
    \/ Manifest \/ ManifestFails \/ JobFile \/ Rethrow

Gateway ==
    \/ Complete \/ MarkArchiving \/ MarkThrows \/ Archiving
    \/ Recover \/ HistoryRecalled \/ HistoryUnavailable

Next == Gateway \/ PickExpired \/ Remove \/ Expire \/ Retry \/ Ages \/ Crash

Spec == Init /\ [][Next]_vars

\* The process that archives goes on and the tick comes round; an archive has to
\* settle without growing old.
Fairness == WF_vars(Gateway) /\ WF_vars(PickExpired) /\ WF_vars(Expire)

LiveSpec == Spec /\ Fairness

-----------------------------------------------------------------------------
\* scheduler.ts:62, "Resume archival interrupted by a restart": no archive is
\* left ARCHIVING, whatever throws or crashes.
ArchivingSettles == (archive = "ARCHIVING") ~> (archive # "ARCHIVING")

\* README.md:253, "A failed archive is visible and can be retried": the archive
\* of a completed job becomes COMPLETE, or fails visibly, or expires.
CompletedIsArchived ==
    (status = "COMPLETED") ~> (archive \in {"COMPLETE", "FAILED", "EXPIRED"})
=============================================================================
