---------------------------- MODULE RequestProofs ----------------------------
(***************************************************************************)
(* Proofs about what single requests are answered with: whether the rate   *)
(* limit lets them through, and which jobs a page of the list shows.       *)
(***************************************************************************)
EXTENDS RateLimit, JobList, FiniteSetTheorems, TLAPS

-----------------------------------------------------------------------------
(* RateLimit.  The requests that went through fall into windows.  The row  *)
(* knows the last window only; the argument needs all of them, so the      *)
(* invariant says that there are requests that opened them.                *)

\* Where the window of the row opened, in the order of the requests.
Opening == Len(admitted) + 1 - count

\* The requests that opened windows: the row's is the last, each came when the
\* one before was over, and among any Limit requests in a row there is one.
Openings(S) ==
    /\ S \subseteq DOMAIN admitted
    /\ count > 0 => Opening \in S
    /\ \A a \in S : a <= Opening
    /\ \A a, b \in S : a < b => admitted[b] >= admitted[a] + Window
    /\ \A i \in DOMAIN admitted :
          i + Limit \in DOMAIN admitted => \E k \in S : i < k /\ k <= i + Limit

\* Requests are numbered in the order of their times.
InOrder ==
    /\ \A i, j \in DOMAIN admitted : i <= j => admitted[i] <= admitted[j]
    /\ \A i \in DOMAIN admitted : admitted[i] <= now

\* The row describes the window that was opened last.
RowIsLast ==
    /\ count <= Len(admitted)
    /\ count = 0 => Len(admitted) = 0
    /\ count > 0 => expires = admitted[Opening] + Window

LimitInv ==
    /\ LimitTypeOK /\ InOrder /\ RowIsLast
    /\ \E S \in SUBSET (DOMAIN admitted) : Openings(S)


LEMMA InitLimitInv == LimitInit => LimitInv
<1> SUFFICES ASSUME LimitInit PROVE LimitInv
  OBVIOUS
<1>1. LimitTypeOK
  BY RateLimitAssumption DEF LimitInit, LimitTypeOK
<1>2. Openings({})
  BY DEF LimitInit, Openings
<1> QED
  BY <1>1, <1>2 DEF LimitInit, LimitInv, InOrder, RowIsLast

\* What an admitted request leaves of the history, in the terms of the proofs.
LEMMA AllowedHistory ==
    ASSUME LimitInv, Allowed
    PROVE  /\ Len(admitted) \in Nat /\ Len(admitted') = Len(admitted) + 1
           /\ DOMAIN admitted = 1 .. Len(admitted)
           /\ DOMAIN admitted' = 1 .. Len(admitted) + 1
           /\ \A i \in DOMAIN admitted :
                 admitted'[i] = admitted[i] /\ admitted[i] \in Nat
           /\ admitted'[Len(admitted) + 1] = now
           /\ admitted' \in Seq(0 .. MaxTime)
           /\ now \in Nat /\ count \in Nat /\ expires \in Nat /\ now' = now
<1> USE DEF LimitInv, LimitTypeOK, Allowed
<1>1. admitted \in Seq(0 .. MaxTime) /\ now \in 0 .. MaxTime /\ MaxTime \in Nat
  BY RateLimitAssumption
<1> QED
  BY <1>1, RateLimitAssumption

\* A window that is still open.
LEMMA CurrentAllowed ==
    ASSUME LimitInv, Allowed, Current, NEW S, Openings(S)
    PROVE  Openings(S)' /\ RowIsLast'
<1> DEFINE n == Len(admitted)
<1>1. /\ n \in Nat /\ Limit \in Nat /\ Window \in Nat
      /\ count \in Nat /\ count < Limit /\ count > 0 /\ count <= n
      /\ count' = count + 1 /\ expires' = expires
  BY AllowedHistory, RateLimitAssumption
  DEF Allowed, Full, Current, WindowEnd, LimitInv, LimitTypeOK, RowIsLast
<1>2. Opening \in 1 .. n /\ Opening' = Opening /\ Opening = n + 1 - count
  <2>1. Len(admitted') = n + 1
    BY AllowedHistory
  <2> QED
    BY <1>1, <2>1 DEF Opening
<1>3. RowIsLast'
  BY <1>1, <1>2, AllowedHistory DEF RowIsLast, LimitInv
<1>4. S \subseteq DOMAIN admitted' /\ (count' > 0 => Opening' \in S)
      /\ \A a \in S : a <= Opening'
  BY <1>1, <1>2, AllowedHistory DEF Openings
<1>5. \A a, b \in S : a < b => admitted'[b] >= admitted'[a] + Window
  BY AllowedHistory DEF Openings
<1>6. ASSUME NEW i \in DOMAIN admitted', i + Limit \in DOMAIN admitted'
      PROVE  \E k \in S : i < k /\ k <= i + Limit
  <2>1. CASE i + Limit = n + 1
    BY <1>1, <1>2, <2>1, <1>6, AllowedHistory DEF Openings
  <2>2. CASE i + Limit # n + 1
    <3>1. i \in 1 .. n + 1 /\ i + Limit \in 1 .. n + 1
      BY <1>6, AllowedHistory
    <3>2. i \in 1 .. n /\ i + Limit \in 1 .. n
      BY <1>1, <2>2, <3>1
    <3>3. DOMAIN admitted = 1 .. n
      BY AllowedHistory
    <3> QED
      BY <3>2, <3>3 DEF Openings
  <2> QED
    BY <2>1, <2>2
<1> QED
  BY <1>3, <1>4, <1>5, <1>6 DEF Openings

\* A window that opens: the one before, if there was one, is over.
LEMMA OpeningAllowed ==
    ASSUME LimitInv, Allowed, ~Current, NEW S, Openings(S), NEW n, n = Len(admitted)
    PROVE  Openings(S \cup {n + 1})' /\ RowIsLast'
<1> DEFINE T == S \cup {n + 1}
<1>1. /\ n \in Nat /\ Limit \in Nat \ {0} /\ Window \in Nat
      /\ count \in Nat /\ count <= n
      /\ count' = 1 /\ expires' = now + Window
  BY AllowedHistory, RateLimitAssumption
  DEF Allowed, WindowEnd, LimitInv, LimitTypeOK, RowIsLast
<1>2. Opening' = n + 1 /\ n + 1 \in DOMAIN admitted'
  BY <1>1, AllowedHistory DEF Opening
<1>3. RowIsLast'
  BY <1>1, <1>2, AllowedHistory DEF RowIsLast
<1>4. T \subseteq DOMAIN admitted' /\ Opening' \in T /\ \A a \in T : a <= Opening'
  BY <1>1, <1>2, AllowedHistory DEF Openings
<1>5. ASSUME NEW a \in S PROVE now >= admitted[a] + Window
  <2>1. count > 0 /\ expires <= now
    BY <1>5, <1>1, AllowedHistory DEF Openings, Current, LimitInv, RowIsLast
  <2>2. Opening \in DOMAIN admitted /\ a \in DOMAIN admitted /\ a <= Opening
    BY <2>1, <1>5 DEF Openings
  <2>3. admitted[a] <= admitted[Opening] /\ expires = admitted[Opening] + Window
    BY <2>1, <2>2 DEF LimitInv, InOrder, RowIsLast
  <2> QED
    BY <2>1, <2>2, <2>3, <1>1, AllowedHistory
<1>6. ASSUME NEW a \in T, NEW b \in T, a < b PROVE admitted'[b] >= admitted'[a] + Window
  <2>1. a \in S
    <3>1. \A x \in S : x \in 1 .. n
      BY AllowedHistory DEF Openings
    <3> QED
      BY <1>1, <1>6, <3>1
  <2>2. CASE b = n + 1
    BY <2>1, <2>2, <1>5, AllowedHistory DEF Openings
  <2>3. CASE b \in S
    BY <2>1, <2>3, <1>6, AllowedHistory DEF Openings
  <2> QED
    BY <2>2, <2>3
<1>7. ASSUME NEW i \in DOMAIN admitted', i + Limit \in DOMAIN admitted'
      PROVE  \E k \in T : i < k /\ k <= i + Limit
  <2>1. CASE i + Limit = n + 1
    BY <1>1, <2>1, <1>7, AllowedHistory
  <2>2. CASE i + Limit # n + 1
    <3>1. i \in 1 .. n /\ i + Limit \in 1 .. n /\ DOMAIN admitted = 1 .. n
      BY <1>1, <2>2, <1>7, AllowedHistory
    <3>2. \E k \in S : i < k /\ k <= i + Limit
      BY <3>1 DEF Openings
    <3> QED
      BY <3>2
  <2> QED
    BY <2>1, <2>2
<1>8. Openings(T)'
  BY <1>4, <1>6, <1>7, AllowedHistory DEF Openings
<1> QED
  BY <1>3, <1>8

LEMMA AllowedInv == LimitInv /\ Allowed => LimitInv'
<1> SUFFICES ASSUME LimitInv, Allowed PROVE LimitInv'
  OBVIOUS
<1>1. PICK S : Openings(S)
  BY DEF LimitInv
<1>2. LimitTypeOK'
  <2>1. now' \in 0 .. MaxTime /\ expires' \in 0 .. MaxTime + Window /\ count' # 0
    BY AllowedHistory, RateLimitAssumption DEF LimitInv, LimitTypeOK, Allowed, WindowEnd
  <2>2. count' \in 0 .. Limit
    BY AllowedHistory, RateLimitAssumption DEF LimitInv, LimitTypeOK, Allowed, Full
  <2> QED
    BY <2>1, <2>2, AllowedHistory DEF LimitTypeOK
<1>3. InOrder'
  BY AllowedHistory DEF LimitInv, InOrder
<1>4. RowIsLast' /\ \E T : Openings(T)'
  BY <1>1, CurrentAllowed, OpeningAllowed
<1> QED
  BY <1>2, <1>3, <1>4 DEF LimitInv, Openings

LEMMA PassesInv == LimitInv /\ Passes => LimitInv'
<1> SUFFICES ASSUME LimitInv, Passes PROVE LimitInv'
  OBVIOUS
<1>1. PICK S : Openings(S)
  BY DEF LimitInv
<1>2. LimitTypeOK' /\ Openings(S)'
  <2>1. LimitTypeOK'
    BY RateLimitAssumption DEF LimitInv, LimitTypeOK, Passes
  <2>2. Openings(S)'
    BY <1>1 DEF Openings, Opening, Passes
  <2> QED
    BY <2>1, <2>2
<1>3. InOrder' /\ RowIsLast'
  <2>1. \A i \in DOMAIN admitted : admitted[i] \in Nat
    BY RateLimitAssumption DEF LimitInv, LimitTypeOK
  <2> QED
    BY <2>1 DEF LimitInv, LimitTypeOK, InOrder, RowIsLast, Opening, Passes
<1> QED
  BY <1>1, <1>2, <1>3 DEF LimitInv, Openings

LEMMA NextLimitInv == LimitInv /\ [LimitNext]_limitVars => LimitInv'
<1> SUFFICES ASSUME LimitInv, [LimitNext]_limitVars PROVE LimitInv'
  OBVIOUS
<1>1. CASE UNCHANGED limitVars
  BY <1>1 DEF LimitInv, LimitTypeOK, InOrder, RowIsLast, Openings, Opening, limitVars
<1> QED
  BY <1>1, AllowedInv, PassesInv DEF LimitNext

\* rateLimit(): the requests let through fall into windows a window's length
\* apart, none of them with more than the limit, and the row describes the last.
THEOREM WindowsInvariant == LimitSpec => []LimitInv
<1> QED
  BY InitLimitInv, NextLimitInv, PTL DEF LimitSpec

\* No stretch as long as a window sees more than twice the limit: between the
\* first of more requests and the last, two windows opened.
THEOREM NeverMoreThanTwice == LimitSpec => []TwiceTheLimit
<1>1. ASSUME LimitInv, NEW i \in DOMAIN admitted, i + 2 * Limit \in DOMAIN admitted
      PROVE  admitted[i + 2 * Limit] >= admitted[i] + Window
  <2>1. PICK S : Openings(S)
    BY <1>1 DEF LimitInv
  <2>2. /\ DOMAIN admitted = 1 .. Len(admitted) /\ Len(admitted) \in Nat
        /\ \A k \in DOMAIN admitted : admitted[k] \in Nat
        /\ Limit \in Nat \ {0} /\ Window \in Nat
    BY <1>1, RateLimitAssumption DEF LimitInv, LimitTypeOK
  <2>3. i + Limit \in DOMAIN admitted /\ (i + Limit) + Limit = i + 2 * Limit
    BY <1>1, <2>2
  <2>4. PICK k \in S : i < k /\ k <= i + Limit
    BY <2>1, <2>3 DEF Openings
  <2>5. PICK m \in S : i + Limit < m /\ m <= i + 2 * Limit
    BY <1>1, <2>1, <2>3 DEF Openings
  <2>6. k \in DOMAIN admitted /\ m \in DOMAIN admitted /\ k < m
    BY <2>1, <2>2, <2>4, <2>5 DEF Openings
  <2>7. admitted[m] >= admitted[k] + Window
    BY <2>1, <2>4, <2>5, <2>6 DEF Openings
  <2>8. admitted[i] <= admitted[k] /\ admitted[m] <= admitted[i + 2 * Limit]
    BY <1>1, <2>2, <2>4, <2>5, <2>6 DEF LimitInv, InOrder
  <2> QED
    BY <1>1, <2>2, <2>6, <2>7, <2>8
<1>2. LimitInv => TwiceTheLimit
  BY <1>1 DEF TwiceTheLimit
<1> QED
  BY <1>2, WindowsInvariant, PTL

\* Who is refused finds the limit used up less than a window ago.
THEOREM RefusedForAReason == LimitSpec => []RefusalIsEarned
<1>1. LimitInv => RefusalIsEarned
  BY RateLimitAssumption
  DEF LimitInv, LimitTypeOK, RowIsLast, Opening, RefusalIsEarned, Full, Current
<1> QED
  BY <1>1, WindowsInvariant, PTL

-----------------------------------------------------------------------------
(* JobList.  A job's rank in the list counts the matching jobs before it.  *)
(* While the list only grows, ranks only grow, so that what the reader has *)
(* not got yet stays ahead of its offset.                                  *)

\* The numbers of the list, and its order: strict and total, whatever it sorts by.
LEMMA JobFields ==
    ASSUME NEW row \in JobRows
    PROVE  /\ row.submittedAt \in Nat /\ row.span \in Nat
           /\ row.status \in JobStatuses
<1>1. row.submittedAt \in Times /\ row.span \in Spans \cup {0} /\ row.status \in JobStatuses
  BY DEF JobRows
<1>2. \A n \in Spans \cup {0} : n \in Nat
  BY JobListAssumption
<1>3. \A n \in Times : n \in Nat
  BY JobListAssumption
<1> QED
  BY <1>1, <1>2, <1>3

LEMMA QueryFields ==
    ASSUME NEW q \in Queries
    PROVE  q.limit \in Nat /\ q.limit > 0
<1>1. q.limit \in Limits
  BY DEF Queries
<1>2. \A l \in Limits : l \in Nat /\ l > 0
  BY JobListAssumption
<1> QED
  BY <1>1, <1>2

LEMMA SortKeys == ASSUME JobListTypeOK, NEW i \in DOMAIN jobs PROVE SortKey(i) \in Nat
<1>1. jobs[i] \in JobRows
  BY DEF JobListTypeOK
<1> QED
  BY <1>1, JobFields DEF SortKey

LEMMA BeforeIsOrder ==
    ASSUME JobListTypeOK, NEW i \in DOMAIN jobs, NEW k \in DOMAIN jobs
    PROVE  /\ ~Before(i, i)
           /\ i # k => Before(i, k) \/ Before(k, i)
           /\ \A m \in DOMAIN jobs : Before(i, k) /\ Before(k, m) => Before(i, m)
<1>1. \A m \in DOMAIN jobs : SortKey(m) \in Nat /\ m \in Nat
  BY SortKeys DEF JobListTypeOK
<1> QED
  BY <1>1 DEF Before

\* The list and the ranks in it are finite numbers.
ListCounts ==
    /\ Matching \subseteq DOMAIN jobs /\ IsFiniteSet(Matching)
    /\ Cardinality(Matching) \in Nat /\ Cardinality(Matching) <= Len(jobs)
    /\ \A i : /\ IsFiniteSet({k \in Matching : Before(k, i)})
              /\ Rank(i) \in Nat

LEMMA ListIsFinite == JobListTypeOK => ListCounts
<1> SUFFICES ASSUME JobListTypeOK PROVE ListCounts
  OBVIOUS
<1>1. Matching \subseteq DOMAIN jobs /\ DOMAIN jobs = 1 .. Len(jobs) /\ Len(jobs) \in Nat
  BY DEF JobListTypeOK, Matching
<1>2. IsFiniteSet(DOMAIN jobs) /\ Cardinality(DOMAIN jobs) = Len(jobs)
  BY <1>1, FS_Interval
<1>3. /\ IsFiniteSet(Matching) /\ Cardinality(Matching) \in Nat
      /\ Cardinality(Matching) <= Len(jobs)
  BY <1>1, <1>2, FS_Subset, FS_CardinalityType
<1>4. ASSUME NEW i
      PROVE  IsFiniteSet({k \in Matching : Before(k, i)}) /\ Rank(i) \in Nat
  <2>1. {k \in Matching : Before(k, i)} \in SUBSET Matching
    OBVIOUS
  <2> QED
    BY <1>3, <2>1, FS_Subset, FS_CardinalityType DEF Rank
<1> QED
  BY <1>1, <1>3, <1>4 DEF ListCounts

\* Who comes before another has a smaller rank.
LEMMA RankFollowsOrder ==
    ASSUME JobListTypeOK, NEW i \in Matching, NEW k \in Matching, Before(i, k)
    PROVE  Rank(i) < Rank(k)
<1> ListCounts
  BY ListIsFinite
<1> DEFINE A == {m \in Matching : Before(m, i)}
           B == {m \in Matching : Before(m, k)}
<1>1. i \in DOMAIN jobs /\ k \in DOMAIN jobs /\ Matching \subseteq DOMAIN jobs
  BY DEF ListCounts
<1>2. A \in SUBSET B /\ i \in B /\ i \notin A
  BY <1>1, BeforeIsOrder
<1>3. IsFiniteSet(B) /\ A # B
  BY <1>2 DEF ListCounts
<1>4. Cardinality(A) <= Cardinality(B) /\ Cardinality(A) # Cardinality(B)
  BY <1>2, <1>3, FS_Subset
<1>5. Rank(i) \in Nat /\ Rank(k) \in Nat
  BY DEF ListCounts
<1> QED
  BY <1>4, <1>5 DEF Rank

LEMMA RankInList ==
    ASSUME JobListTypeOK, NEW i \in Matching
    PROVE  Rank(i) < Cardinality(Matching)
<1> ListCounts
  BY ListIsFinite
<1> DEFINE A == {m \in Matching : Before(m, i)}
<1>1. A \in SUBSET Matching /\ A # Matching
  BY BeforeIsOrder DEF ListCounts
<1>2. Cardinality(A) <= Cardinality(Matching) /\ Cardinality(A) # Cardinality(Matching)
  BY <1>1, FS_Subset DEF ListCounts
<1>3. Rank(i) \in Nat /\ Cardinality(Matching) \in Nat
  BY DEF ListCounts
<1> QED
  BY <1>2, <1>3 DEF Rank

\* A page has at most as many jobs as were asked for.
LEMMA PageWithinLimit ==
    ASSUME JobListTypeOK, NEW from \in Nat
    PROVE  /\ Cardinality(Page(from)) \in Nat /\ query.limit \in Nat
           /\ Cardinality(Page(from)) <= query.limit
<1> ListCounts
  BY ListIsFinite
<1>1. PICK limit \in Nat : limit = query.limit
  BY QueryFields DEF JobListTypeOK
<1>2. limit > 0
  BY <1>1, QueryFields DEF JobListTypeOK
<1> DEFINE I == from .. (from + limit - 1)
           f == [i \in Page(from) |-> Rank(i)]
<1>3. IsFiniteSet(I) /\ Cardinality(I) = limit
  BY <1>2, FS_Interval
<1>4. \A i \in Page(from) : Rank(i) \in I /\ i \in Matching
  <2> SUFFICES ASSUME NEW i \in Page(from) PROVE Rank(i) \in I /\ i \in Matching
    OBVIOUS
  <2>1. i \in Matching /\ from <= Rank(i) /\ Rank(i) < from + limit
    BY <1>1 DEF Page
  <2>2. Rank(i) \in Nat
    BY DEF ListCounts
  <2> QED
    BY <2>1, <2>2
<1>5. ASSUME NEW i \in Page(from), NEW k \in Page(from), Rank(i) = Rank(k) PROVE i = k
  <2>1. i \in DOMAIN jobs /\ k \in DOMAIN jobs /\ Rank(i) \in Nat
    BY <1>4 DEF ListCounts
  <2>2. ~Before(i, k)
    BY <1>4, <1>5, <2>1, RankFollowsOrder
  <2>3. ~Before(k, i)
    BY <1>4, <1>5, <2>1, RankFollowsOrder
  <2> QED
    BY <2>1, <2>2, <2>3, BeforeIsOrder
<1>6. f \in Injection(Page(from), I)
  BY <1>4, <1>5 DEF Injection, IsInjective
<1>7. IsFiniteSet(Page(from)) /\ Cardinality(Page(from)) <= Cardinality(I)
  BY <1>3, <1>6, FS_Injection
<1> QED
  BY <1>1, <1>3, <1>7, FS_CardinalityType

\* A list that only grows, in the order of submission.
Growing == query.sortBy = "created_at" /\ query.statuses \in Settled

\* What the reader has not got yet is on the pages it still has to ask for.
NothingPassed ==
    Growing => /\ There \subseteq Matching
               /\ \A x \in There : x \in got \/ Rank(x) >= offset

PagingInv ==
    /\ JobListTypeOK
    /\ ~reading => offset = 0
    /\ NothingPassed

\* At the start of a list nothing is behind the offset.
AtStart == JobListTypeOK /\ offset = 0

LEMMA FreshList == AtStart => NothingPassed
<1> SUFFICES ASSUME JobListTypeOK, offset = 0 PROVE NothingPassed
  BY DEF AtStart
<1>1. There = Matching /\ \A x : Rank(x) \in Nat
  BY ListIsFinite DEF There, ListCounts
<1>2. \A x : Rank(x) >= 0
  BY <1>1
<1> QED
  BY <1>1, <1>2 DEF NothingPassed

LEMMA InitPaging == JobListInit => PagingInv
<1> SUFFICES ASSUME JobListInit PROVE PagingInv
  OBVIOUS
<1>1. NoQuery \in Queries
  <2>1. PICK f \in Filters, l \in Limits : TRUE
    BY JobListAssumption
  <2>2. [sortBy |-> "created_at", sortOrder |-> "asc", statuses |-> f, limit |-> l] \in Queries
    BY <2>1 DEF Queries
  <2> QED
    BY <2>2 DEF NoQuery
<1>2. JobListTypeOK
  <2>1. jobs \in Seq(JobRows) /\ Len(jobs) = 0
    BY DEF JobListInit
  <2>2. offset = 0 /\ MaxJobs \in Nat
    BY JobListAssumption DEF JobListInit
  <2>3. query \in Queries /\ reading \in BOOLEAN /\ there = {} /\ got = {}
    BY <1>1 DEF JobListInit
  <2>4. Len(jobs) <= MaxJobs /\ offset \in 0 .. MaxJobs /\ offset <= Len(jobs)
    BY <2>1, <2>2
  <2> QED
    BY <2>1, <2>3, <2>4 DEF JobListTypeOK
<1>3. NothingPassed
  BY <1>2, FreshList DEF AtStart, JobListInit
<1> QED
  BY <1>2, <1>3 DEF JobListInit, PagingInv

\* What is read does not change the list.
LEMMA SameList ==
    ASSUME UNCHANGED <<jobs, query>>
    PROVE  /\ Matching' = Matching /\ Growing' = Growing
           /\ \A i : Rank(i)' = Rank(i)
BY DEF Matching, Growing, Rank, Before, SortKey

LEMMA OpenPaging == ASSUME PagingInv, NEW q \in Queries, Open(q) PROVE PagingInv'
<1>1. JobListTypeOK' /\ offset' = 0
  BY DEF PagingInv, JobListTypeOK, Open
<1>2. NothingPassed'
  <2>1. AtStart'
    BY <1>1 DEF AtStart
  <2> QED
    BY <2>1, FreshList, PTL
<1> QED
  BY <1>1, <1>2 DEF PagingInv

LEMMA ReadPaging == ASSUME PagingInv, Read PROVE PagingInv'
<1> JobListTypeOK /\ ListCounts
  BY ListIsFinite DEF PagingInv
<1>1. offset \in Nat /\ Len(jobs) \in Nat /\ Len(jobs) <= MaxJobs /\ MaxJobs \in Nat
  BY JobListAssumption DEF JobListTypeOK
<1>2. PICK n \in Nat : n = Cardinality(Page(offset))
  BY <1>1, PageWithinLimit
<1>3. PICK limit \in Nat : limit = query.limit
  BY <1>1, PageWithinLimit
<1>4. n <= limit
  BY <1>1, <1>2, <1>3, PageWithinLimit
<1>5. /\ offset' = offset + n /\ offset + n < Cardinality(Matching)
      /\ UNCHANGED <<jobs, query, reading>> /\ there' = There /\ got' = got \cup Page(offset)
      /\ reading
  BY <1>2 DEF Read, HasMore
<1>6. offset' \in 0 .. MaxJobs /\ offset' <= Len(jobs)
  BY <1>1, <1>5 DEF ListCounts
<1>7. JobListTypeOK'
  <2>1. there' \subseteq DOMAIN jobs /\ got' \subseteq DOMAIN jobs
    BY <1>5 DEF ListCounts, JobListTypeOK, There, Page
  <2> QED
    BY <1>5, <1>6, <2>1 DEF JobListTypeOK
<1>8. NothingPassed'
  <2> SUFFICES ASSUME Growing
               PROVE  /\ There' \subseteq Matching
                      /\ \A x \in There' : x \in got' \/ Rank(x) >= offset'
    BY <1>5, SameList DEF NothingPassed
  <2>1. There \subseteq Matching /\ \A x \in There : x \in got \/ Rank(x) >= offset
    BY DEF PagingInv, NothingPassed
  <2>2. There' = There \/ (There' = Matching /\ offset' = 0)
    <3>1. Matching' = Matching
      BY <1>5, SameList
    <3> QED
      BY <1>5, <3>1 DEF There
  <2>3. ASSUME NEW x \in There, x \notin got' PROVE Rank(x) >= offset'
    <3>1. Rank(x) \in Nat /\ Rank(x) >= offset /\ x \in Matching /\ x \notin Page(offset)
      BY <1>5, <2>1, <2>3 DEF ListCounts
    <3>2. ~(Rank(x) < offset + limit)
      BY <1>3, <3>1 DEF Page
    <3> QED
      BY <1>1, <1>4, <1>5, <3>1, <3>2
  <2>4. \A x : Rank(x) \in Nat
    BY DEF ListCounts
  <2> QED
    BY <2>1, <2>2, <2>3, <2>4
<1> QED
  BY <1>5, <1>7, <1>8 DEF PagingInv

LEMMA ReadLastPaging == ASSUME PagingInv, ReadLast PROVE PagingInv'
<1>1. JobListTypeOK' /\ offset' = 0
  <2>1. query' \in Queries
    BY DEF PagingInv, JobListTypeOK, ReadLast, NoQuery
  <2>2. /\ jobs' = jobs /\ offset' = 0 /\ reading' = FALSE
        /\ there' = {} /\ got' = {}
    BY DEF ReadLast
  <2>3. jobs \in Seq(JobRows) /\ Len(jobs) <= MaxJobs
    BY DEF PagingInv, JobListTypeOK
  <2>4. MaxJobs \in Nat /\ Len(jobs) \in Nat
    BY <2>3, JobListAssumption
  <2>5. offset' \in 0 .. MaxJobs /\ offset' <= Len(jobs)
    BY <2>2, <2>4
  <2> QED
    BY <2>1, <2>2, <2>3, <2>5 DEF JobListTypeOK
<1>2. NothingPassed'
  <2>1. AtStart'
    BY <1>1 DEF AtStart
  <2> QED
    BY <2>1, FreshList, PTL
<1> QED
  BY <1>1, <1>2 DEF PagingInv

\* A change of the jobs that only adds to a growing list.
JobsGrow ==
    /\ UNCHANGED paging
    /\ DOMAIN jobs \subseteq DOMAIN jobs'
    /\ \A i \in DOMAIN jobs : jobs'[i].submittedAt = jobs[i].submittedAt
    /\ Growing => Matching \subseteq Matching'

LEMMA RanksGrow ==
    ASSUME PagingInv, JobListTypeOK', JobsGrow, Growing, NEW i \in Matching
    PROVE  Rank(i) <= Rank(i)'
<1> DEFINE A == {k \in Matching : Before(k, i)}
           B == {k \in Matching' : Before(k, i)'}
<1>1. Matching \subseteq DOMAIN jobs /\ Matching \subseteq Matching'
  BY ListIsFinite DEF PagingInv, JobsGrow, ListCounts
<1>2. \A k \in Matching : Before(k, i) => Before(k, i)'
  BY <1>1 DEF Before, SortKey, Growing, JobsGrow, paging
<1>3. A \in SUBSET B
  BY <1>1, <1>2
<1>4. IsFiniteSet(B)
  <2>1. ListCounts'
    BY ListIsFinite, PTL
  <2> QED
    BY <2>1 DEF ListCounts
<1>5. Cardinality(A) <= Cardinality(B)
  BY <1>3, <1>4, FS_Subset
<1> QED
  BY <1>5 DEF Rank

LEMMA GrowthPaging ==
    ASSUME PagingInv, JobListTypeOK', JobsGrow
    PROVE  PagingInv'
<1>1. UNCHANGED <<query, offset, reading, there, got>> /\ Growing' = Growing
  BY DEF JobsGrow, paging, Growing
<1>2. (\A x : Rank(x) \in Nat /\ Rank(x)' \in Nat) /\ offset \in Nat
  <2>1. ListCounts'
    BY ListIsFinite, PTL
  <2>2. ListCounts /\ JobListTypeOK
    BY ListIsFinite DEF PagingInv
  <2>3. offset \in Nat
    BY <2>2 DEF JobListTypeOK
  <2> QED
    BY <2>1, <2>2, <2>3 DEF ListCounts
<1>3. ASSUME Growing, offset # 0, NEW x \in there
      PROVE  x \in Matching' /\ (x \in got \/ Rank(x)' >= offset)
  <2>1. x \in Matching /\ (x \in got \/ Rank(x) >= offset)
    BY <1>3 DEF PagingInv, NothingPassed, There
  <2>2. x \in Matching' /\ Rank(x) <= Rank(x)'
    BY <1>3, <2>1, RanksGrow DEF JobsGrow
  <2> QED
    BY <1>2, <2>1, <2>2
<1>4. NothingPassed'
  <2>1. CASE offset = 0
    <3>1. AtStart'
      BY <1>1, <2>1 DEF AtStart
    <3> QED
      BY <3>1, FreshList, PTL
  <2>2. CASE offset # 0
    BY <1>1, <1>3, <2>2 DEF NothingPassed, There
  <2> QED
    BY <2>1, <2>2
<1> QED
  BY <1>1, <1>4 DEF PagingInv

\* Every status is one of the panel's, and a job that ended has ended for it.
LEMMA PanelStatus ==
    ASSUME NEW status \in JobStatuses
    PROVE  /\ COMFY_STATUS(status) \in Ended \cup {"pending", "in_progress"}
           /\ COMFY_STATUS(status) \in Ended => status \in Terminal
BY DEF JobStatuses, Terminal, COMFY_STATUS, Ended

LEMMA SubmitGrows ==
    ASSUME JobListTypeOK, NEW time \in Times, SubmitJob(time)
    PROVE  JobListTypeOK' /\ JobsGrow
<1> DEFINE row == [submittedAt |-> time, status |-> "QUEUED", span |-> 0]
<1>1. row \in JobRows
  BY DEF JobRows, JobStatuses
<1>2. jobs \in Seq(JobRows) /\ Len(jobs) \in Nat /\ Len(jobs) < MaxJobs /\ MaxJobs \in Nat
  BY JobListAssumption DEF JobListTypeOK, SubmitJob
<1> HIDE DEF row
<1>3. jobs' = Append(jobs, row)
  BY DEF SubmitJob, row
<1>4. /\ jobs' \in Seq(JobRows) /\ Len(jobs') = Len(jobs) + 1
      /\ DOMAIN jobs \subseteq DOMAIN jobs'
      /\ \A i \in DOMAIN jobs : jobs'[i] = jobs[i]
  BY <1>1, <1>2, <1>3
<1>5. UNCHANGED <<query, offset, reading, there, got>> /\ UNCHANGED paging
  BY DEF SubmitJob, paging
<1>6. JobListTypeOK'
  BY <1>2, <1>4, <1>5 DEF JobListTypeOK
<1>7. Matching \subseteq Matching'
  BY <1>4, <1>5 DEF Matching
<1> QED
  BY <1>4, <1>5, <1>6, <1>7 DEF JobsGrow

LEMMA ProgressGrows ==
    ASSUME JobListTypeOK, NEW i \in DOMAIN jobs, NEW status \in JobStatuses,
           NEW span \in Spans \cup {0}, Progress(i, status, span)
    PROVE  JobListTypeOK' /\ JobsGrow
<1> DEFINE row == [jobs[i] EXCEPT !.status = status, !.span = span]
<1>1. jobs \in Seq(JobRows) /\ jobs[i] \in JobRows
  BY DEF JobListTypeOK
<1>2. row \in JobRows /\ row.submittedAt = jobs[i].submittedAt /\ row.status = status
  BY <1>1 DEF JobRows
<1>3. jobs' = [jobs EXCEPT ![i] = row]
  BY DEF Progress
<1> HIDE DEF row
<1>4. /\ jobs' \in Seq(JobRows) /\ Len(jobs') = Len(jobs)
      /\ DOMAIN jobs' = DOMAIN jobs
      /\ \A k \in DOMAIN jobs : jobs'[k] = IF k = i THEN row ELSE jobs[k]
  BY <1>1, <1>2, <1>3
<1>5. UNCHANGED <<query, offset, reading, there, got>> /\ UNCHANGED paging
  BY DEF Progress, paging
<1>6. JobListTypeOK'
  BY <1>4, <1>5 DEF JobListTypeOK
<1>7. ASSUME Growing, NEW k \in Matching PROVE k \in Matching'
  <2>1. k \in DOMAIN jobs /\ jobs[k] \in JobRows /\ jobs[k].status \in JobStatuses
    BY <1>1, <1>7, JobFields DEF Matching
  <2>2. COMFY_STATUS(jobs[k].status) \in query.statuses
    BY <1>7 DEF Matching
  <2>3. CASE k # i
    BY <1>4, <1>5, <2>1, <2>2, <2>3 DEF Matching
  <2>4. CASE k = i
    <3>1. jobs[i].status \notin Terminal
      BY DEF Progress
    <3>2. COMFY_STATUS(jobs[k].status) \notin Ended
      BY <2>1, <2>4, <3>1, PanelStatus
    <3>3. query.statuses = Ended \cup {"pending", "in_progress"}
      BY <1>7, <2>2, <3>2 DEF Growing, Settled
    <3>4. COMFY_STATUS(jobs'[k].status) \in query.statuses
      BY <1>2, <1>4, <2>1, <2>4, <3>3, PanelStatus
    <3> QED
      BY <1>4, <1>5, <2>1, <3>4 DEF Matching
  <2> QED
    BY <2>3, <2>4
<1>8. \A k \in DOMAIN jobs : jobs'[k].submittedAt = jobs[k].submittedAt
  BY <1>2, <1>4
<1> QED
  BY <1>4, <1>5, <1>6, <1>7, <1>8 DEF JobsGrow

LEMMA NextPaging == PagingInv /\ [JobListNext]_jobListVars => PagingInv'
<1> SUFFICES ASSUME PagingInv, [JobListNext]_jobListVars PROVE PagingInv'
  OBVIOUS
<1> JobListTypeOK
  BY DEF PagingInv
<1>1. ASSUME NEW i \in DOMAIN jobs, Starts(i) PROVE PagingInv'
  <2>1. "RUNNING" \in JobStatuses
    BY DEF JobStatuses
  <2> QED
    BY <1>1, <2>1, ProgressGrows, GrowthPaging DEF Starts
<1>2. ASSUME NEW i \in DOMAIN jobs, Finishes(i) PROVE PagingInv'
  <2>1. {"COMPLETED", "LOST"} \subseteq JobStatuses
    BY DEF JobStatuses, Terminal
  <2> QED
    BY <1>2, <2>1, ProgressGrows, GrowthPaging DEF Finishes
<1>3. ASSUME NEW i \in DOMAIN jobs, Cancelled(i) PROVE PagingInv'
  <2>1. "CANCELLED" \in JobStatuses
    BY DEF JobStatuses, Terminal
  <2> QED
    BY <1>3, <2>1, ProgressGrows, GrowthPaging DEF Cancelled
<1>4. ASSUME NEW time \in Times, SubmitJob(time) PROVE PagingInv'
  BY <1>4, SubmitGrows, GrowthPaging
<1>5. CASE UNCHANGED jobListVars
  <2>1. UNCHANGED <<jobs, query, offset, reading, there, got>>
    BY <1>5 DEF jobListVars, paging
  <2>2. Matching' = Matching /\ Growing' = Growing /\ \A x : Rank(x)' = Rank(x)
    BY <2>1, SameList
  <2> QED
    BY <2>1, <2>2 DEF PagingInv, JobListTypeOK, NothingPassed, There
<1> QED
  BY <1>1, <1>2, <1>3, <1>4, <1>5, OpenPaging, ReadPaging, ReadLastPaging DEF JobListNext

\* listJobs(): while a list that only grows is read page by page, whatever is
\* submitted or ends meanwhile, no job moves in front of the offset unread.
THEOREM PagingInvariant == JobListSpec => []PagingInv
<1> QED
  BY InitPaging, NextPaging, PTL DEF JobListSpec

\* The last page ends the list: nothing that was there at the first is left.
LEMMA LastPage ==
    ASSUME PagingInv, JobListNext, reading, ~reading', Growing
    PROVE  There \subseteq got \cup Page(offset)
<1> JobListTypeOK /\ ListCounts
  BY ListIsFinite DEF PagingInv
<1>1. ~HasMore(offset)
  BY DEF JobListNext, Open, Read, ReadLast, SubmitJob, Starts, Finishes, Cancelled,
         Progress, paging
<1>2. offset \in Nat
  BY DEF JobListTypeOK
<1>3. PICK n \in Nat : n = Cardinality(Page(offset))
  BY <1>2, PageWithinLimit
<1>4. PICK limit \in Nat : limit = query.limit
  BY <1>2, PageWithinLimit
<1>5. n <= limit
  BY <1>2, <1>3, <1>4, PageWithinLimit
<1>6. Cardinality(Matching) \in Nat /\ ~(offset + n < Cardinality(Matching))
  BY <1>1, <1>3 DEF HasMore, ListCounts
<1>7. ASSUME NEW x \in There, x \notin got PROVE x \in Page(offset)
  <2>1. x \in Matching /\ Rank(x) >= offset /\ Rank(x) \in Nat
    BY <1>7 DEF PagingInv, NothingPassed, ListCounts
  <2>2. Rank(x) < Cardinality(Matching)
    BY <2>1, RankInList
  <2>3. Rank(x) < offset + limit
    BY <1>2, <1>5, <1>6, <2>1, <2>2
  <2>4. offset <= Rank(x)
    BY <1>2, <2>1
  <2> QED
    BY <1>4, <2>1, <2>3, <2>4 DEF Page
<1> QED
  BY <1>7

\* A list that was read to its end in the order of submission misses no job.
THEOREM NothingIsMissed == JobListSpec => PagingMissesNothing
<1>1. PagingInv /\ [JobListNext]_jobListVars =>
          [reading /\ ~reading' /\ query.sortBy = "created_at" /\ query.statuses \in Settled
           => There \subseteq got \cup Page(offset)]_jobListVars
  BY LastPage DEF Growing
<1> QED
  BY <1>1, PagingInvariant, PTL DEF JobListSpec, PagingMissesNothing

=============================================================================
