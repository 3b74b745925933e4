------------------------------- MODULE JobList -------------------------------
(***************************************************************************)
(* GET /jobs of the gateway (jobs.ts): a student's panel reads the list    *)
(* page by page, by offset, while jobs are submitted, start and end.       *)
(***************************************************************************)
EXTENDS Naturals, FiniteSets, Sequences

CONSTANTS
    Times,        \* values of submittedAt; the clock may be set back
    Spans,        \* execution times
    Limits,       \* page sizes
    Filters,      \* status filters: sets of the panel's statuses
    MaxJobs       \* bound: jobs of one student

ASSUME JobListAssumption ==
    /\ Times \subseteq Nat /\ Spans \subseteq Nat /\ Limits \subseteq Nat \ {0}
    /\ Limits # {} /\ Filters # {} /\ MaxJobs \in Nat

VARIABLES
    jobs,         \* the student's rows, in the order they were inserted
    query,        \* the list the panel is reading
    offset,       \* of its next page; pages are read until has_more is false
    reading,
    there,        \* history: the matching jobs when its first page was asked for
    got           \* history: the jobs on its pages so far

paging == <<query, offset, reading, there, got>>
jobListVars == <<jobs, paging>>

Terminal == {"COMPLETED", "FAILED", "CANCELLED", "LOST"}
JobStatuses == {"QUEUED", "DISPATCHING", "RUNNING"} \cup Terminal

JobRows == [submittedAt : Times, status : JobStatuses, span : Spans \cup {0}]

Queries == [sortBy : {"created_at", "execution_duration"}, sortOrder : {"asc", "desc"},
            statuses : Filters, limit : Limits]

JobListTypeOK ==
    /\ jobs \in Seq(JobRows) /\ Len(jobs) <= MaxJobs
    /\ query \in Queries /\ offset \in 0 .. MaxJobs /\ reading \in BOOLEAN
    /\ there \subseteq DOMAIN jobs /\ got \subseteq DOMAIN jobs
    /\ offset <= Len(jobs)

NoQuery == CHOOSE q \in Queries : TRUE

JobListInit ==
    /\ jobs = <<>>
    /\ query = NoQuery /\ offset = 0 /\ reading = FALSE
    /\ there = {} /\ got = {}

-----------------------------------------------------------------------------
COMFY_STATUS(status) ==
    CASE status = "QUEUED" -> "pending"
      [] status \in {"DISPATCHING", "RUNNING"} -> "in_progress"
      [] status = "COMPLETED" -> "completed"
      [] status \in {"FAILED", "LOST"} -> "failed"
      [] status = "CANCELLED" -> "cancelled"

\* A job without both timestamps counts as zero.
SortKey(i) == IF query.sortBy = "created_at" THEN jobs[i].submittedAt ELSE jobs[i].span

\* The sort is stable: what ties stays in the order of the rows.
Before(i, k) ==
    LET a == IF query.sortOrder = "asc" THEN SortKey(i) ELSE SortKey(k)
        b == IF query.sortOrder = "asc" THEN SortKey(k) ELSE SortKey(i)
    IN  a < b \/ (a = b /\ i < k)

Matching == {i \in DOMAIN jobs : COMFY_STATUS(jobs[i].status) \in query.statuses}

\* Where a job is in the sorted list, counted from 0.
Rank(i) == Cardinality({k \in Matching : Before(k, i)})

\* What slice(offset, offset + limit) leaves of it.
Page(from) == {i \in Matching : from <= Rank(i) /\ Rank(i) < from + query.limit}

\* Mutant: a last page of one job is not announced.
HasMoreShort(from) == from + Cardinality(Page(from)) + 1 < Cardinality(Matching)

HasMore(from) == from + Cardinality(Page(from)) < Cardinality(Matching)

-----------------------------------------------------------------------------
(* The panel: GET /jobs is one synchronous handler. *)

Open(q) ==
    /\ ~reading
    /\ query' = q /\ reading' = TRUE
    /\ UNCHANGED <<jobs, offset, there, got>>

There == IF offset = 0 THEN Matching ELSE there

Read ==
    /\ reading /\ HasMore(offset)
    /\ there' = There
    /\ got' = got \cup Page(offset)
    /\ offset' = offset + Cardinality(Page(offset))
    /\ UNCHANGED <<jobs, query, reading>>

ReadLast ==
    /\ reading /\ ~HasMore(offset)
    /\ query' = NoQuery /\ offset' = 0 /\ reading' = FALSE
    /\ there' = {} /\ got' = {}
    /\ UNCHANGED jobs

-----------------------------------------------------------------------------
(* What happens to the jobs in the meantime. *)

SubmitJob(time) ==
    /\ Len(jobs) < MaxJobs
    /\ jobs' = Append(jobs, [submittedAt |-> time, status |-> "QUEUED", span |-> 0])
    /\ UNCHANGED paging

Progress(i, status, span) ==
    /\ jobs[i].status \notin Terminal
    /\ jobs' = [jobs EXCEPT ![i].status = status, ![i].span = span]
    /\ UNCHANGED paging

Starts(i) == jobs[i].status = "QUEUED" /\ Progress(i, "RUNNING", 0)

\* With the timestamps of the execution, of the columns, or with one missing.
Finishes(i) ==
    \E status \in {"COMPLETED", "LOST"}, span \in Spans \cup {0} :
        jobs[i].status = "RUNNING" /\ Progress(i, status, span)

Cancelled(i) == jobs[i].status = "QUEUED" /\ Progress(i, "CANCELLED", 0)

JobListNext ==
    \/ \E q \in Queries : Open(q)
    \/ Read \/ ReadLast
    \/ \E time \in Times : SubmitJob(time)
    \/ \E i \in DOMAIN jobs : Starts(i) \/ Finishes(i) \/ Cancelled(i)

JobListSpec == JobListInit /\ [][JobListNext]_jobListVars

-----------------------------------------------------------------------------
(* Filters of which a job that matches goes on to match. *)
Ended   == {"completed", "failed", "cancelled"}
Settled == {f \in Filters : f \subseteq Ended \/ f = Ended \cup {"pending", "in_progress"}}

\* A list in the order of submission that was read to its end misses no job
\* that matched when its first page was read, although offsets shift while jobs
\* are submitted and end: they only shift towards what comes later.  It holds
\* for lists of everything or of ended jobs; others, and lists by duration, shrink
\* and reorder under the reader and promise nothing.
PagingMissesNothing ==
    [][reading /\ ~reading' /\ query.sortBy = "created_at" /\ query.statuses \in Settled
       => There \subseteq got \cup Page(offset)]_jobListVars
=============================================================================
