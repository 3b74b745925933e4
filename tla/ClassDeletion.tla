---------------------------- MODULE ClassDeletion ----------------------------
(***************************************************************************)
(* purgeClass() of apps/web/lib/purge.ts against the archival of one of    *)
(* the class's jobs (Archive) and an upload of one of its students.  The   *)
(* rows go in one transaction of the web process, the directories after    *)
(* it, one by one; the gateway works on the same rows and directories and  *)
(* is told nothing.                                                        *)
(***************************************************************************)
EXTENDS Archive

VARIABLES
    purge,        \* where purgeClass is
    missed,       \* it reported a path, or died, before everything was removed
    upload,       \* where POST /upload/image is
    input         \* the student's directory of staged inputs

deletion == <<purge, missed>>
staging  == <<upload, input>>
deletionVars == <<vars, deletion, staging>>

DeletionTypeOK ==
    /\ TypeOK
    /\ purge \in {"none", "archive", "inputs", "done"}
    /\ missed \in BOOLEAN
    /\ upload \in {"none", "received", "placing"}
    /\ input \in {"absent", "directory", "file"}

DeletionInit ==
    /\ Init
    /\ purge = "none" /\ missed = FALSE
    /\ upload = "none" /\ input = "absent"

\* The rows of the class are there: they go in the first transaction.
Rows == purge = "none"

-----------------------------------------------------------------------------
(* The web process. *)

\* Mutant: only unfinished jobs are in flight, not unfinished archives.
ActiveByStatus == status = "RUNNING"

\* "The scheduler would race the purge": what makes it refuse.
Active == status = "RUNNING" \/ archive = "ARCHIVING"

\* Mutant: the archive is removed first, the rows afterwards.
PurgeFilesFirst ==
    /\ Rows /\ ~Active
    /\ disk' = "absent"
    /\ \E next \in {"none", "inputs"} : purge' = next
    /\ UNCHANGED <<status, archive, process, old, bounds, missed, staging>>

\* Every row of the class, in one transaction.
PurgeRows ==
    /\ Rows /\ ~Active
    /\ purge' = "archive"
    /\ UNCHANGED <<vars, missed, staging>>

\* One directory after the other; what cannot be removed is reported.
RemoveArchive ==
    /\ purge = "archive" /\ purge' = "inputs"
    /\ \/ disk' = "absent" /\ UNCHANGED missed
       \/ disk' = disk /\ missed' = TRUE
    /\ UNCHANGED <<status, archive, process, old, bounds, staging>>

RemoveInputs ==
    /\ purge = "inputs" /\ purge' = "done"
    /\ \/ input' = "absent" /\ UNCHANGED missed
       \/ input' = input /\ missed' = TRUE
    /\ UNCHANGED <<vars, upload>>

WebDies ==
    /\ purge \in {"archive", "inputs"}
    /\ purge' = "done" /\ missed' = TRUE
    /\ UNCHANGED <<vars, staging>>

-----------------------------------------------------------------------------
(* The gateway, once the rows are gone: what it reads of the job is undefined. *)

\* A throw that nothing catches, or that ends in the last write of archive().
OrphanThrows ==
    /\ at \in {"mark", "recall", "prepare", "jobfile", "failing"}
    /\ at' = "none" /\ recovering' = FALSE
    /\ UNCHANGED <<status, archive, expiring, old, disk, bounds>>

\* In archive()'s try: its catch throws too, and its finally still runs.
OrphanFails ==
    /\ at \in {"download", "publish", "manifest"}
    /\ Goto("failing")
    /\ UNCHANGED <<status, archive, old, disk, bounds>>

\* retention() removes the directory and then misses the row.
RetentionThrows ==
    /\ expiring
    /\ disk' = "absent"
    /\ expiring' = FALSE
    /\ UNCHANGED <<status, archive, at, recovering, old, bounds>>

Orphaned ==
    /\ ~Rows
    /\ \/ OrphanThrows \/ OrphanFails \/ RetentionThrows
       \/ HistoryRecalled \/ Prepare \/ Download \/ Manifest \/ JobFile
       \/ Remove \/ Crash

-----------------------------------------------------------------------------
(* A student's upload, while its file waits in .incoming. *)

Receive ==
    /\ Rows /\ upload = "none"
    /\ upload' = "received"
    /\ UNCHANGED <<vars, deletion, input>>

MakeDirectory ==
    /\ upload = "received" /\ upload' = "placing"
    /\ input' = IF input = "absent" THEN "directory" ELSE input
    /\ UNCHANGED <<vars, deletion>>

\* Membership, quota, the rename and the row are one transaction.
Place ==
    /\ upload = "placing" /\ Rows /\ input # "absent"
    /\ upload' = "none" /\ input' = "file"
    /\ UNCHANGED <<vars, deletion>>

\* Refused, or the rename throws: the waiting file is removed.
Refuse ==
    /\ upload \in {"received", "placing"}
    /\ upload' = "none"
    /\ UNCHANGED <<vars, deletion, input>>

-----------------------------------------------------------------------------
Purge == PurgeRows \/ RemoveArchive \/ RemoveInputs \/ WebDies

DeletionNext ==
    \/ Rows /\ Next /\ UNCHANGED <<deletion, staging>>
    \/ Orphaned /\ UNCHANGED <<deletion, staging>>
    \/ Purge
    \/ Receive \/ MakeDirectory \/ Place \/ Refuse

DeletionSpec == DeletionInit /\ [][DeletionNext]_deletionVars

-----------------------------------------------------------------------------
\* README.md:172: deleting a class erases "all of its files on disk".  A
\* deletion that reported success left nothing, and nothing comes back: not
\* from an archival that was finishing, nor from an upload.  Without retention:
\* an archive it expired while a recovery was asking for the history is not in
\* flight for the purge, and that recovery writes the files anew.
DeletedStaysDeleted ==
    purge = "done" /\ ~missed /\ ~retention => disk = "absent" /\ input # "file"

\* purge.ts:33: "a crash can never leave the database pointing at files that
\* are already gone": what an archive job's row says is COMPLETE is on disk,
\* until it is old enough for retention.
PublishedIsOnDisk == Rows /\ archive = "COMPLETE" /\ ~old => disk = "outputs"

\* README.md:267: with retention, old jobs "get archive status EXPIRED", in the
\* end and for good, whatever archival, retry, crash or refused deletion comes
\* in between, if their class is not deleted.
OldArchivesExpire == <>[](Rows /\ retention /\ old => archive = "EXPIRED")
=============================================================================
