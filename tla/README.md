# Formal models of class-comfyui

class-comfyui lets the students of a class share a few GPU machines that run
ComfyUI. A web process (accounts, rosters, administration) and a gateway process
(the ComfyUI frontend's API, the scheduler, output archival) share one SQLite
database on the management host; ComfyUI workers on the lab network know nothing
of users, and a script on each GPU host stops and starts its units. This directory
holds TLA+ models of the parts whose order of events matters, the TLC
configurations that check them, and TLAPS proofs.

    tlc -config SchedulerSafe.cfg MCScheduler.tla     # one run
    tlapm SchedulerProofs.tla                         # its proofs

`PROJECT.json` lists the runs, the code each definition stands for, seeded
mutants of the model that each property must detect, and the hazards of the code.

## Inventory

| Part | State | Operations | What makes it hard | Modules |
| --- | --- | --- | --- | --- |
| Scheduler (`apps/gateway/src/scheduler.ts`) | rows of `jobs` and `workers`; in memory `leader`, `busy`, `monitors` and where each dispatch and monitor stands | `renew`, `tick` (`health`, sweep, adoption, `claim`), `dispatch`, `monitor`, `finish`, `freeIfIdle` | every await lets students, administrators, workers and another gateway process move; crashes; requests whose outcome is unknown | Scheduler, JobLifecycle, Cancellation |
| Lease (`packages/database/src/index.ts`) | one row of `leases` | `acquireLease` | expiry against a running, stopped or dead holder | Scheduler |
| Archive (`storage.ts`, `scheduler.ts` 62-68, 353-440) | `archiveStatus`, `outputs`, the directory of a job | `archive`, `recoverArchive`, retry, `retention` | failing disks and downloads, crashes between two transactions, retention against recovery | Archive |
| Class deletion (`apps/web/lib/purge.ts`) | all rows of a class, its directories | `purgeClass` | files are removed after the rows, while the gateway still writes some | ClassDeletion |
| Admission and cancellation (`apps/gateway/src/index.ts`, `apps/web/lib/api.ts`) | `jobs` | `POST /prompt`, `/queue`, `/interrupt`, `DELETE /api/jobs/:id` | runs in two processes, against claims | Scheduler |
| Workspace sessions (`apps/gateway/src/index.ts`) | `workspace_tickets`, `gateway_sessions`, open sockets | ticket, exchange, session check, socket sweep | revocation while a session or socket is open | Access |
| Accounts (`api.ts`, `session.ts`) | `users`, `verifications`, `sessions` | register, activate, log in, resend, reset, block, promote | links that overtake each other, accounts registered over, roles that outlive what gave them | Access, Administration |
| Roster and signup (`api.ts`, `signup.ts`, `packages/auth/src/roster.ts`, the roster tab) | `enrollments`, `roster_imports`, `signup_tokens`; the page's text, preview and review | edit, preview, review, commit, enroll, archive | preview and commit are separate requests, answers arrive in any order, the roster changes in between | Roster, Access |
| User data, starters, grants (`userdata.ts`, `starters/`) | `user_data` | save, move, delete, seed, grant | seeding on every visit under a quota, releases, grants that come and go | Workspace |
| Uploads (`index.ts`) | `uploads`, files | upload | a file that is received before and placed after a deletion | ClassDeletion |
| Job list (`jobs.ts`) | none of its own | `GET /jobs` | pages by offset of a list that moves | JobList |
| Rate limits (`database/src/index.ts`) | `rate_limits` | `rateLimit` | several processes, window edges | RateLimit |
| Worker rows (`api.ts`, `workers.ts`) and idle reaper (`scripts/comfyui-idle-reaper.sh`) | `workers`; systemd units, idle clocks | change, enable; poll, free, stop, wake | acts on a queue it saw a moment ago; clocks that outlive what they timed | Fleet |
| Views, mail, origin checks, other pages, configuration, provisioning, migration | none of their own | reads, formats, one-shot programs | - | not modelled |

How they interact: the web process and the gateway meet only in the database,
where each transaction is `BEGIN IMMEDIATE` and synchronous, hence atomic, and on
disk, where a class's directories are. The gateway calls workers over HTTP and
relays their WebSocket events. Students are told of job events over the gateway's
WebSocket; no decision depends on that. The reaper reads the database and each
unit's queue, and stops and starts units behind the gateway's back.

## Modules

**`Scheduler`** is the core: any number of gateway processes (`Owners`, one per
boot, since `Scheduler.owner` is a fresh UUID), jobs, students and workers. One
action is one transaction, or one stretch of JavaScript between two awaits.

* `proc`, `leader`, `phase` and `task` are a process's memory: whether it runs,
  its `leader` flag, where its tick is (`busy`) and where each dispatch and
  monitor is (`monitors` plus the program counter of the async function). The
  sweep, the adoption and each claim are transactions of their own without an
  await between them, so the processes of *other* owners and the web process
  interleave there, but not the same process (`Awake`).
* `lease` is the owner of an unexpired lease. `LeaseExpires` is guarded by
  `MayExpire`: a holder renews every two of the lease's ten seconds, so it runs
  out only under a dead holder, unless `LeaseMayLapse` says that an event loop
  may be blocked for longer.
* `prompt` is the worker's view of a job: posted, refused, held (`live`), ended
  in its history, or forgotten. `OutcomeUnknown` covers timeouts, dropped
  connections and unreadable answers, and the worker may still accept later.
* Students' and administrators' requests (`Submit`, `CancelQueued`,
  `RequestCancel`, `ChangeMembership`) run in any order with all of this.
* The time of a dispatch is kept as its rank (`startedAt`); the choice among
  equally loaded workers is free (the code looks at `lastAssignedAt`).

**`JobLifecycle`** is what README.md:249 of the repository promises of a job:
its statuses, the edges between them, one post while DISPATCHING. `Scheduler`
implements it with `posts <- sends`.

**`Cancellation`** refines one worker: a real ComfyUI queue (`pending`, one
`running` prompt, `history`), and `Scheduler.monitor` with one step per request
(`at[j]`), so that the queue changes between `GET /queue` and `POST /interrupt`,
or between `GET /history` and `GET /queue`. It also has `freeIfIdle`, whose check
is one step with the `finish` before it (no await between them) while its
`POST /free` arrives later. A timed-out request either took effect before the
timeout or never does.

**`Archive`** follows one completed job: the two transactions at the end of
`monitor`, `archive()` with every point where it throws, and what is then written
depending on who called it (`recovering`), recovery by the tick, retries from the
job page, and retention, which works on the same directory. `retention` is the
setting, one of `Policies`, fixed for a behaviour.

**`ClassDeletion`** EXTENDS it with the web process that deletes the job's class:
the refusal while a job is active or ARCHIVING, the transaction that removes every
row, the two directories after it (`purge`), a removal that fails or a process
that dies (`missed`). The gateway is told nothing: its steps on a job whose row is
gone are `Orphaned`, in which database writes miss or throw and files are still
written. An upload of one of the students is received, given its directory, and
placed or refused (`upload`, `input`).

**`Access`** says who may work in a class: accounts and their emailed links
(`account`, `link`, `reset`), logins in progress (`checking`), sessions, the
class's signup link, one roster row, and the workspace (`pass`: a ticket, the
gateway session exchanged for it and the socket opened with that session). The
web process runs its handlers without interruption between two awaits, so only
two of them are cut in pieces: a login around its password check, and the mail of
a link, which deletes the link if it fails. The gateway's exchange and sweep are
transactions of another process.

* Passwords are seen from the present one: a session or a verified password is
  `current` or `old`. Links that are consumed, and tickets and reset links that
  are consumed or expired, are forgotten: the code refuses them like missing ones.
  An expired *activation* link is kept, since the link sent next inherits its class.
* `proof` (the signup version an unconfirmed account registered with) and `stale`
  (a pass from before the last sign-out) are history variables of the properties.
* Roles are in `Administration`; registering with the administrator's code is here
  registering without a class (`Code`).

**`Administration`** has the status, role and proven address of every account, and
what changes them: registration (over an unconfirmed account too), activation, the
code presented by a signed-in account, and administrators (`Change`). Links are left
to `Access`: any account that waits for its activation may get it.

**`Roster`** is a roster import end to end: the page with its text, the 400 ms
before a preview is asked for (`previewing`), answers to texts edited since
(`late`), the review on the page and the ticked students; what a preview finds
(`Clean`, `Missing`); the commit, which applies rows one after the other and is
undone as a whole (`AfterRows` are the possible rosters after each row, none after a
row that is refused, and `Imported` those after the last); and everybody who changes
the roster in between: another administrator's import, students who join, rows
archived and reactivated. An enrollment is matched by address or by student ID and
keeps its identity. `Enrollments` has one identity for every address, since
`randomUUID()` never runs out of them (`RosterAssumption`).

**`Workspace`** is one student's rows of `user_data` in one class: saves, moves and
deletions under the quota (`Total`, the number of `Bytes` of all rows but the one
that is replaced), and `seedStarters()`, which places on each entry what
the marker does not list, all or nothing. Grants (written by the web process) and
releases that raise VERSION change what is eligible. `offered` is history: how often
a starter was placed under each VERSION.

**`Fleet`** is one GPU unit between three actors. The reaper's loop is cut where
time passes or another actor may act (`pc`): wake, look, free, stop, sleep; its
idle clock is a file, so it survives the script and the unit. A `systemctl start`
that fails ends the script under `set -e` (`StartFails`), a kill or a failing stop
does at any other place (`Restart`), and either way it is run again (`RunAgain`). A
database that cannot be read has no work waiting (`NothingToStart`). The
gateway knows the unit by its last health check and claims, sends and monitors
jobs. Administrators, or the manifest, change the worker's address and enable or
disable it. `quiet`, `fresh` and `sentTo` are history: what the polls have
really seen, what was sent since, and where.

**`JobList`** is a panel that reads `GET /jobs` page by page, by offset, with the
order, filter and stable sort of the code, while jobs are submitted (with clocks
that may be set back), start, end and are cancelled. The sorted list is kept as the
place of each job in it (`Rank`).

**`RateLimit`** is one fixed window shared by all processes that count in it;
`admitted` is history, the times at which requests went through.

**`MCScheduler`** and **`MCCancellation`** are instances for TLC. **`MCComponents`**
EXTENDS the seven smaller components, which share no state in these models, and puts
them side by side: `part` says which of them moves, and the others stay in their
initial states, so that one run explores each of them completely.

The proofs are in modules of their own: **`SchedulerProofs`**,
**`CancellationProofs`**, **`AccessProofs`**, **`WorkspaceProofs`**,
**`RosterProofs`**, **`RequestProofs`** (RateLimit, JobList),
**`AdministrationProofs`** (ClassDeletion, Fleet, Administration) and
**`ComponentsProofs`** (the composition).

## Runs

| Run | Instance | Shows |
| --- | --- | --- |
| SchedulerSafe | 2 jobs of one student, 2 workers with one slot each, 2 gateway processes, one throwing renewal | TypeOK, WorkerCapacity, UserActiveLimit, SentAtMostOnce |
| SchedulerTurns | 3 jobs of 2 students, one slot | NoSecondTurnWhileAnotherWaits |
| SchedulerRestart | 1 job, 2 processes, cancellation and revocation | JobEnds under fairness; SlotHeldWhileExecuting, TerminalIsFinal, LifecycleSpec |
| SchedulerForgotten | 1 job, 1 process, one throwing renewal | *violation* of JobEnds |
| SchedulerStaleLeader | as SchedulerSafe with 2 students, one worker and lapsing leases | *violation* of WorkerCapacity |
| CancelAlone | 2 jobs, maxConcurrentJobs 1, one gateway restart | InterruptsOnlyItsOwn, EndedLeavesWorker, OutcomeIsJustified |
| CancelOther | 2 jobs, maxConcurrentJobs 2 | *violation* of InterruptsOnlyItsOwn |
| FreeAfterLost | 1 job | *violation* of NothingEvicted |
| ArchiveForgotten | 1 crash | *violation* of CompletedIsArchived |
| AccessRules | 2 people, either of whom the roster may name, 2 signup links, 1 workspace at a time; one of them signs in again and forgets her password | MembersAreProven, RowFollowsAddress, NothingOutlivesSignOut, RevokedProofNeverEnrolls; RevokedSocketsClose under fairness |
| AccessOldPassword | 1 person | *violation* of NewPasswordEndsSessions |
| Components | seven components side by side | see below |

What `Components` checks, and on what:

| Part | Instance | Properties |
| --- | --- | --- |
| Archive and ClassDeletion | one job, 2 retries, 2 crashes, with and without retention | ArchivingSettles and OldArchivesExpire under fairness; DeletedStaysDeleted, PublishedIsOnDisk |
| Roster | 2 enrollments, 2 addresses, 2 student IDs, 7 files (empty, unreadable, an invalid row, one or two rows, two rows with one ID), 1 late answer | ImportIsShown, ImportIsTheFile, ListedStay, ReimportPreserves |
| Workspace | one file of the student's, a starter, one that needs a grant, one of a later release, sizes 1 and 2, quota 5 | StarterOfferedOnce, EntryKeepsFiles, UpToDateHasAll, QuotaHolds |
| Fleet | one job, two addresses, 2 poll intervals of idle time | StopsNoVisibleWork, IdleBeforeStop, AddressStays; WorkIsTaken under fairness |
| Administration | 3 accounts | AdminRemains |
| JobList | 3 jobs, 2 submission times, pages of one job, two filters | PagingMissesNothing |
| RateLimit | limit 2 in a window of 3, for 8 units of time | TwiceTheLimit, RefusalIsEarned |

Why the bounds are enough: two jobs compete for a slot, two processes for the
lease (a third boot adds a second take-over that meets the same states), two
workers give the per-user limit something to do that capacity does not, and three
jobs of two students are the least that can show a second turn. In `Access` two
addresses are the least for a row to change hands, and two versions for a link to
be revoked; `Returning` names who signs in again, which only a reset makes
interesting. `Restless` names the students who cancel or lose membership, to keep
runs small that do not need them. In `Roster` two enrollments are the least for a
row that names two of them, by address and by ID; a file with two rows is the least
with a duplicate. In `Workspace` the quota is met both by the student's files and
in the middle of seeding. Pages of one job shift most; three jobs give a page before
and after the one that moves. Eight units of time hold two full windows. The proofs
below remove the bounds where they can.

Symmetry is used over owners, workers and jobs where no liveness property is
checked and the instance treats them alike. Jobs end, files are imported and
gateways may stay down for good in the bounded instances, so deadlock is not checked.

**Fairness** (`Scheduler!Fairness`): timers fire and the event loop runs (weak
fairness of ticks, of boots, of the worker's answers); the service manager
restarts a gateway and the last boot of an instance stays up (`Replaceable`).
Strong fairness stands for real time against endless bad luck: renewals run
every two seconds between the steps of a tick, a reachable and clean worker is
found so now and then, a dispatch or monitor in progress is resumed, and the
sixty seconds after a timeout run out (`GivesUp`). Nothing says that a worker
ever finishes a prompt that is cancelled or late. In the archive
(`ArchiveFairness`) a download ends one way or the other and the tick comes round,
but nothing says that a job grows old, that a class is deleted or that a deletion
goes on: archival must settle without their help. In the fleet (`FleetFairness`)
the reaper polls on (weak), and a unit that is started again and again does not
fail or get stopped each time before it is up, before the gateway's next
tick sees it, or before a job is claimed (strong, since each of these is disabled
when the unit goes down). Nor does every start fail, or every poll find the database
unreadable (strong fairness of `Start`). In `Access` only the one-second timer of `attachWs` is
fair; people and administrators need never do anything.

## What the violations show

* **SchedulerForgotten**: the lease renewal throws once (a busy database is
  enough) while a dispatch stages inputs. The dispatch sees `leader` false and
  returns without touching the job (`scheduler.ts:185`); two seconds later the
  process leads again. The job is DISPATCHING with its own `leaseOwner`, which
  the sweep skips, no monitor has it and no timeout looks at it: it holds a slot
  until the gateway restarts, and its class cannot be deleted.
* **SchedulerStaleLeader**: an event loop blocked for more than ten seconds lets
  another process take over and declare the dispatch LOST. The late answer is
  then recorded as RUNNING without a look at the job's status
  (`scheduler.ts:229-234`), on a slot that was given away.
* **CancelOther**: `/interrupt` names no prompt. The prompt the monitor saw
  running may finish and another student's start before it arrives.
* **FreeAfterLost**: giving a job up as LOST frees the worker's memory, although
  the comment on the other LOST path (`scheduler.ts:242`) explains why a LOST job
  must not be followed by a `/free`. Whether ComfyUI acts on `/free` while it
  executes is the worker's business and not modelled: the property speaks of the
  request arriving during an execution.
* **ArchiveForgotten**: COMPLETED and ARCHIVING are two transactions
  (`scheduler.ts:354` and `358`). A crash or a throw between them leaves an
  archive PENDING that neither the tick nor the retry button looks at.
* **AccessOldPassword**: a login verifies the password, which takes scrypt its
  time, and then reads the account again, but only its status
  (`api.ts:333-334`). A reset confirmed in between deletes the sessions there are,
  and the login adds one more, for a password that no longer exists.

Places where a property had to say more than the document it comes from, because
the code does less; each is visible in the property's own text:

* `DeletedStaysDeleted` holds without retention. With it, a job may expire while
  its recovery waits for the worker's history: it is EXPIRED, so `purgeClass`
  (`purge.ts:44`) sees nothing in flight, and the recovery then writes the
  directory of a class that is gone.
* `ListedStay` allows for a roster that changed since its preview. The preview finds a
  student missing and the administrator ticks the row; another import then changes
  the row so that the previewed file names it. The check "Roster changed; preview
  again" (`api.ts:566`) only asks whether the ticked enrollment exists, so the commit
  updates the student from the file and then archives the row, which README.md:151
  offers for missing enrollments. TLC finds this if the exception is dropped and a
  student's ID may change between two files.
* `StopsNoVisibleWork` allows for jobs that were sent after the queue was read. It is
  read once (`comfyui-idle-reaper.sh:171`), `/free` may take thirty seconds, and the
  stop follows without another look: a job dispatched in between is cut off, although
  the script's header (line 8) stops a unit whose queue stays empty. TLC finds this
  too if the exception is dropped.
* `StarterOfferedOnce` speaks of one VERSION. `starters/index.ts:18` and README.md:214
  say that a bump pushes a revised starter to everyone; the code does not do that: an
  entry after it skips every path the marker lists or at which there is a file (line
  160). It brings new starters to everyone, a revised one to nobody who has the old.
* `ReimportPreserves` speaks of rows that keep their address: an archived row
  imported with a new address becomes INVITED.
* `IdleBeforeStop` excepts time in which the reaper itself did not run: its clock
  file goes on, so its first poll may stop a unit it has not watched.
* `QuotaHolds` leaves out the grants' row, which the web process writes without
  asking for the quota.

## What is proved

`SchedulerProofs` proves, for any number of jobs, students, workers, processes,
capacities and limits, from `BoundsAssumption` and `PlatformAssumption`:

* unconditionally, even if leases lapse under their holders: `TypeCorrect`,
  `NeverSentTwice`, `NothingRunsUnaccounted`, `NobodyJumpsAhead`;
* if a lease outlives its holder (`~LeaseMayLapse`; SchedulerStaleLeader shows
  the assumption is needed): `CapacityRespected`, `UserLimitRespected`,
  `OutcomeIsFinal`, and `ImplementsLifecycle`, the refinement of `JobLifecycle`.

The argument has four layers, each inductive relative to the ones before.

1. `Inv`: a job that was never claimed has no start, post or task (`Untouched`);
   only the claiming owner dispatches (`OwnDispatch`); the post happens between
   two steps of that one dispatch (`PostedOnce`). A claim takes QUEUED jobs only
   and nothing leads back to QUEUED, hence at most one post.
2. `SlotInv`: who has seen a job RUNNING knows that the worker accepted it
   (`PromptKnown`), so a monitor that ends a job has seen the worker's terminal
   answer or says LOST; a dispatch ends it before the post, on a refusal, or as
   LOST (`SlotHeldUntilAnswered`).
3. `HeldInv`: whoever leads, ticks or serves a job owns the lease (`HolderOnly`),
   so a job has one task at a time, and the task finds the job in the status it
   left it in (`TaskStatus`). Dying drops the tasks before the lease can expire.
4. `MovesOn` and the claim: with 3, every step but the claim moves jobs along the
   edges of their life and activates none, and a claim activates one job where
   there is room: so the limits hold (`Limits`), outcomes are final, and each step
   is a step of `JobLifecycle`.

`NobodyJumpsAhead` stands beside these: only a claim makes a job DISPATCHING
(`OnlyClaimsDispatch`), it takes the first of the claimable jobs, and a user served
later is never first (`LaterServedWaits`).

`CancellationProofs` proves, for any jobs, capacity and number of restarts,
`QueueTypeCorrect`, `SlotIsKeptUntilEnded` and `OutcomesAreJustified`, and for
maxConcurrentJobs 1 (CancelOther shows that it is needed) `NobodyElseIsInterrupted`.
`CancelInv` says that a prompt is in one place at a time and has a history entry
only once it has left the queue (`Placed`): so a monitor that finds an entry, or
finds the prompt gone after its own delete, may give the slot back whatever moved
between its requests. `Attended` ties the request a task is about to make to the
job's status, and `Asked` every cancellation under way to a reason. With one slot
at most one job is active (`OneActive`), so what `/interrupt` ends is the monitor's
own prompt or that of a job already given up as LOST.

`AccessProofs` proves, for any number of addresses, open workspaces and signup
versions, `TypeCorrect`, `ParticipantsAreProven`, `AttachmentFollowsAddress`,
`WorkspaceEndsWithSignOut` and `RevocationHolds`. `AccessInv` adds to the
properties only that an ACTIVE account has proven its address (`ActiveIsProven`):
`Enroll` asks for nothing but a signed-in account, so without it a blocked and
unblocked account could join. `RevocationHolds` also needs that a link leads to
what its account last registered with, or to no class (`LinksMatchProofs`).

`WorkspaceProofs` proves `NoStarterComesBack`, `NoStarterIsForgotten`,
`EntryOverwritesNothing` and `QuotaIsKept` for any paths, starters, grants, releases
and quota. The invariant of the first three is `MarkerIsHistory`: the marker lists
exactly what was ever placed, and nothing was placed twice under one VERSION, which
an entry keeps because it is all or nothing. For
the quota, `Total` counts the bytes of all rows: a save makes it what the check
`Fits` has just added up (`TotalWith`), and a move or a deletion adds no bytes. That
the bytes can be counted takes finitely many paths (`WorkspaceAssumption`).

`RosterProofs` proves `RosterTypeCorrect`, `OfferedIsShown`, `ImportsItsFile`,
`ListedAreKept` and `AccountsArePreserved` for any enrollments, addresses, student IDs
and files of any length.

* One row (`OneRowImported`): it enrolls somebody or updates the one enrollment it
  names, and no two enrollments come to share an address or an ID. Somebody new can
  be enrolled because an address that is nobody's leaves an identity unused
  (`SomebodyIsNew`).
* All rows of a clean file (`PrefixImported`): after n rows every enrollment is as it
  was or updated once, by a row that names it, and each of the n rows is enrolled. A
  later row cannot disturb this, because in a clean file no two rows share an address
  or an ID (`OnlyOnce`). Induction over the rows is by the shortest prefix that would
  do something else, which does not exist.
* What `Imported` and the ticked enrollments make of the roster (`WholeFileImported`)
  then gives each property of the import. `ListedAreKept` and `AccountsArePreserved`
  also need that only `Import` commits the review on the page (`OnlyImportImports`).
  `OfferedIsShown` is an invariant of the page: every edit closes the review, and an
  answer opens it only for the text it was asked about.

`RequestProofs` proves `NeverMoreThanTwice` and `RefusedForAReason` for any limit and
window, and `NothingIsMissed` for any jobs, times, filters and page sizes.

* Of the rate limit the row remembers only the last window. `LimitInv` says that a
  set of requests opened windows (`Openings`): each came a window's length or more
  after the one before, and among any `Limit` requests in a row there is one of them.
  Between a request and the one 2 * `Limit` after it there are therefore two, hence a
  window's length.
* Of the list `PagingInv` says that what the reader has not got has a place in the
  list at the offset or after it (`NothingPassed`). In a list in the order of
  submission with the statuses of the property, what precedes a job only grows
  (`RanksGrow`), and a page takes at most `limit` places (`PageWithinLimit`); so
  nothing is left before the offset when the reader moves it.

`AdministrationProofs` proves `DeletionIsFinal` and `RowsPointAtFiles` for any number
of retries and crashes. `purgeClass` looks only at two status columns; that they say
enough is `WritersAreActive`: whoever may still create the directory is before the end
of a download, and then the job is RUNNING or ARCHIVING. `NothingRevives` carries this
over to when the rows are gone, and `OutputsStay` says that only retention removes
what is about to be published.

It proves `AddressHolds`, `NothingSeenIsStopped` and `IdleTimeIsServed` for any jobs,
addresses and idle time, from `FleetAssumption`. Each has an invariant of its own,
about the actors that matter to it: `Located`, `Seen` (from the poll to the stop, a
unit's prompts are those sent since) and `Clocked` (the clock never runs ahead of what
was seen).

And it proves `AdministratorsStay` for any number of accounts. It needs
`ActiveIsVerified`: setting an account to ACTIVE turns it back to PENDING if its
address is not proven, which would take the last administrator away if an
administrator's ever were not.

`ComponentsProofs` proves that the composition implements each of its components
(`SideBySide`): a step of one leaves the variables of the others alone. The theorems
above therefore speak of the behaviours that the Components run explores, and
`ComponentsTypeCorrect` puts their type invariants together.

## Only model-checked

Every invariant and action property of the passing runs is proved. What stays with TLC
is liveness under fairness, which is out of the prover's reach: `JobEnds`,
`ArchivingSettles`, `OldArchivesExpire`, `RevokedSocketsClose` and `WorkIsTaken`. The
violations are counterexamples that TLC finds in the instances above.

## Not modelled

* Prompt validation and rewriting, WebSocket relaying, password hashing, CSV text,
  the text of mails, listings, views, template files, and the pages other than the
  roster tab: they keep no state the properties depend on.
* Provisioning, model downloads, migration, backup and seeding: one-shot programs.
* Hashing, byte limits and names of archived files are one download step. Clock
  values are ranks, flags (`overdue`, `old`), poll intervals or a lease that is
  there or not.
* The sum over a student's uploaded files: it is taken in the transaction that
  adds one. A gateway that dies between the rename and the commit of an upload
  leaves a file that no row counts; only deleting the class removes it.
* The invitation mails (`api.ts:795-835`): the recipients are read once, before a
  mail per recipient is awaited. Only mails and a log of them depend on it.
* Counts that a handler's own transaction takes back (`api.ts:636`, `656`, `672`,
  `698`), the limit of ten sockets per user, names and the TA and INSTRUCTOR roles,
  which grant what STUDENT does.
* More than one unit of the reaper: its units are independent, except that under
  `set -e` a unit that fails to start ends the script before the units after it.
* Ties and clocks: two jobs dispatched in the same millisecond have different ranks
  (`scheduler.ts:132-138`); the rate limit's clock is never set back; among jobs
  that `GET /jobs` finds equal, the order of their indices stands for that of rows,
  and DISPATCHING is one with RUNNING there.
* Changes of `maxConcurrentJobs` under active jobs (`api.ts:1083-1089`, or
  `workers.ts:84` from the manifest): `Capacity` is a constant.
* Two rare failures at once: the transaction at `scheduler.ts:358` throwing for a job
  that is past its timeout, after which line 393 writes LOST over COMPLETED; and an
  error response whose body parses as a queue without the prompt
  (`scheduler.ts:381-383` do not look at the status).
* A removal that fails in `retention` ends its loop over the jobs
  (`scheduler.ts:433-440`) until the next pass; `Archive` has one job.
* Several sessions of one person verified with the same password: they are one
  session. A ticket is issued after its session was checked outside the transaction
  (`api.ts:613`, `670`), which matters only if several web processes run.
* The reaper's `--no-wake`, a missing database, and a unit without COMFY_PORT, which
  it neither frees nor stops.
* In the roster tab a chosen file is read before the text is set
  (`page.tsx:204`), and the old preview is dropped when React runs the effect's
  cleanup (`166-169`): both are one step with the edit.
* A starters' marker that does not parse (`starters/index.ts:140-143`) and starters
  without nodes (156-159): only seeding writes the marker, and it is refused to
  students (`userdata.ts:8-11`), so no state the program reaches has a corrupt one,
  and every starter in the table is built with nodes.
