---------------------------- MODULE RosterProofs ----------------------------
(***************************************************************************)
(* Proofs about roster imports: what the rows of a file, one after the     *)
(* other, make of a roster, and from it what an import may change.         *)
(***************************************************************************)
EXTENDS Roster, FiniteSetTheorems, WellFoundedInduction, TLAPS

-----------------------------------------------------------------------------
(* One row of a file. *)

\* What the type invariant says of a roster.
RosterOf(r) ==
    /\ DOMAIN r \subseteq Enrollments
    /\ \A e \in DOMAIN r : r[e] \in Enrolled
    /\ \A e, f \in DOMAIN r : e # f => r[e].email # r[f].email /\ r[e].org # r[f].org

\* A row of a roster has the address and the student ID of a row of a file.
Carries(enrolled, row) == enrolled.email = row.email /\ enrolled.org = row.org

\* What one row of a file makes of one roster.
RowImported(row, x, y) ==
    /\ RosterOf(y)
    /\ DOMAIN x \subseteq DOMAIN y
    /\ \A e \in DOMAIN x :
          \/ y[e] = x[e]
          \/ Same(row, x[e]) /\ y[e] = Updated(row, x[e])
    /\ \E e \in DOMAIN y : Carries(y[e], row)

LEMMA UpdatedCarries ==
    ASSUME NEW row \in CsvRows, NEW enrolled \in Enrolled
    PROVE  Updated(row, enrolled) \in Enrolled /\ Carries(Updated(row, enrolled), row)
BY DEF CsvRows, Enrolled, RosterStatuses, Updated, Invited, Carries

LEMMA InvitedCarries ==
    ASSUME NEW row \in CsvRows
    PROVE  Invited(row) \in Enrolled /\ Carries(Invited(row), row)
BY DEF CsvRows, Enrolled, RosterStatuses, Invited, Carries

\* While an address is nobody's, there are fewer enrollments than addresses.
LEMMA SomebodyIsNew ==
    ASSUME NEW r, RosterOf(r), NEW row \in CsvRows, Matches(row, r) = {}
    PROVE  \E n \in Enrollments : n \notin DOMAIN r
<1> DEFINE others == Emails \ {row.email}
<1> DEFINE address == [e \in DOMAIN r |-> r[e].email]
<1>1. row.email \in Emails
  BY DEF CsvRows
<1>2. IsFiniteSet(others) /\ Cardinality(others) = Cardinality(Emails) - 1
      /\ Cardinality(Emails) \in Nat
  BY <1>1, FS_RemoveElement, FS_CardinalityType, RosterAssumption
<1>3. address \in Injection(DOMAIN r, others)
  <2>1. ASSUME NEW e \in DOMAIN r PROVE r[e].email \in others
    BY DEF RosterOf, Enrolled, Matches, Same
  <2>2. ASSUME NEW e \in DOMAIN r, NEW f \in DOMAIN r, e # f
        PROVE  r[e].email # r[f].email
    BY <2>2 DEF RosterOf
  <2> QED
    BY <2>1, <2>2 DEF Injection, IsInjective
<1> HIDE DEF others, address
<1>4. Cardinality(DOMAIN r) <= Cardinality(others)
  BY <1>2, <1>3, FS_Injection
<1>5. DOMAIN r # Enrollments
  BY <1>2, <1>4, FS_CardinalityType, RosterAssumption
<1> QED
  BY <1>5 DEF RosterOf

\* A row that nobody matches enrolls somebody.
LEMMA AddedRow ==
    ASSUME NEW r, RosterOf(r), NEW row \in CsvRows, Matches(row, r) = {}
    PROVE  RowImported(row, r, Added(row, r))
<1> DEFINE new == CHOOSE n \in Enrollments : n \notin DOMAIN r
<1> DEFINE y == Added(row, r)
<1>1. new \in Enrollments /\ new \notin DOMAIN r
  BY SomebodyIsNew
<1>2. /\ DOMAIN y = DOMAIN r \cup {new}
      /\ y[new] = Invited(row)
      /\ \A e \in DOMAIN r : y[e] = r[e]
  BY <1>1 DEF Added
<1>3. Invited(row) \in Enrolled /\ Carries(Invited(row), row)
  BY InvitedCarries
<1> HIDE DEF new, y
<1>4. ASSUME NEW e \in DOMAIN r
      PROVE  r[e].email # y[new].email /\ r[e].org # y[new].org
  BY <1>2, <1>3 DEF Matches, Same, Carries
<1>5. \A e, f \in DOMAIN y : e # f => y[e].email # y[f].email /\ y[e].org # y[f].org
  BY <1>2, <1>4 DEF RosterOf
<1>6. RosterOf(y)
  BY <1>1, <1>2, <1>3, <1>5 DEF RosterOf
<1>7. new \in DOMAIN y /\ Carries(y[new], row)
  BY <1>2, <1>3
<1>8. DOMAIN r \subseteq DOMAIN y
  BY <1>2
<1>9. RowImported(row, r, y)
  BY <1>2, <1>6, <1>7, <1>8 DEF RowImported
<1> QED
  BY <1>9 DEF y

\* A row that one enrollment matches changes that one.
LEMMA ChangedRow ==
    ASSUME NEW r, RosterOf(r), NEW row \in CsvRows, NEW k, Matches(row, r) = {k},
           NEW y, y = [r EXCEPT ![k] = Updated(row, @)]
    PROVE  RowImported(row, r, y)
<1>1. k \in DOMAIN r /\ Same(row, r[k]) /\ r[k] \in Enrolled
  BY DEF Matches, RosterOf
<1>2. /\ DOMAIN y = DOMAIN r
      /\ y[k] = Updated(row, r[k])
      /\ \A e \in DOMAIN r : e # k => y[e] = r[e]
  BY <1>1
<1>3. y[k] \in Enrolled /\ Carries(y[k], row)
  BY <1>1, <1>2, UpdatedCarries
<1>4. ASSUME NEW e \in DOMAIN r, e # k
      PROVE  r[e].email # y[k].email /\ r[e].org # y[k].org
  <2>1. ~Same(row, r[e])
    BY <1>4 DEF Matches
  <2> QED
    BY <1>3, <2>1 DEF Same, Carries
<1>5. \A e, f \in DOMAIN y : e # f => y[e].email # y[f].email /\ y[e].org # y[f].org
  BY <1>2, <1>4 DEF RosterOf
<1>6. RosterOf(y)
  BY <1>2, <1>3, <1>5 DEF RosterOf
<1>7. \A e \in DOMAIN r :
          \/ y[e] = r[e]
          \/ Same(row, r[e]) /\ y[e] = Updated(row, r[e])
  BY <1>1, <1>2
<1>8. \E e \in DOMAIN y : Carries(y[e], row)
  BY <1>1, <1>2, <1>3
<1> QED
  BY <1>2, <1>6, <1>7, <1>8 DEF RowImported

\* Whatever a row makes of a roster.
LEMMA OneRowImported ==
    ASSUME NEW r, RosterOf(r), NEW row \in CsvRows, NEW y \in ImportRow(row, r)
    PROVE  RowImported(row, r, y)
<1>1. CASE Matches(row, r) = {}
  BY <1>1, AddedRow DEF ImportRow
<1>2. CASE Matches(row, r) # {}
  <2>1. PICK k \in Matches(row, r) :
            Matches(row, r) = {k} /\ y = [r EXCEPT ![k] = Updated(row, @)]
    BY <1>2 DEF ImportRow
  <2> QED
    BY <2>1, ChangedRow
<1> QED
  BY <1>1, <1>2

-----------------------------------------------------------------------------
(* Row after row.  A statement about every prefix of a file is proved by the *)
(* shortest prefix that it does not hold of.                                 *)

LEMMA Least ==
    ASSUME NEW T, T \subseteq Nat, T # {}
    PROVE  \E m \in T : \A k \in T : m <= k
<1>1. PICK m \in T : \A k \in T : ~(<<k, m>> \in OpToRel(<, Nat))
  BY NatLessThanWellFounded, WFMin
<1>2. ASSUME NEW k \in T PROVE m <= k
  <2>1. k \in Nat /\ m \in Nat
    OBVIOUS
  <2>2. ~(k < m)
    BY <1>1, <2>1 DEF OpToRel
  <2> QED
    BY <2>1, <2>2
<1> QED
  BY <1>2

\* The rosters after each of the first m rows.
RowsDone(file, r, m, g) ==
    g = [n \in 0 .. m |->
            IF n = 0 THEN {r} ELSE ImportedInto(g[n - 1], file[n])]

\* The rows can be imported one by one.
LEMMA RowsCanBeDone ==
    ASSUME NEW file, NEW r, NEW m \in Nat
    PROVE  \E g : RowsDone(file, r, m, g)
<1> DEFINE T == {n \in Nat : ~ \E g : RowsDone(file, r, n, g)}
<1> SUFFICES ASSUME T # {} PROVE FALSE
  OBVIOUS
<1>1. PICK k \in T : \A j \in T : k <= j
  BY Least
<1>2. k \in Nat /\ ~ \E g : RowsDone(file, r, k, g)
  OBVIOUS
<1>3. k # 0
  <2> DEFINE g == [n \in 0 .. 0 |-> {r}]
  <2>1. g = [n \in 0 .. 0 |->
            IF n = 0 THEN {r} ELSE ImportedInto(g[n - 1], file[n])]
    OBVIOUS
  <2>2. RowsDone(file, r, 0, g)
    BY <2>1 DEF RowsDone
  <2> QED
    BY <1>2, <2>2
<1>4. k - 1 \in Nat /\ k - 1 \notin T
  BY <1>1, <1>2, <1>3
<1>5. PICK g : RowsDone(file, r, k - 1, g)
  BY <1>4
<1> DEFINE h == [n \in 0 .. k |->
        IF n = 0 THEN {r} ELSE ImportedInto(g[n - 1], file[n])]
<1>6. ASSUME NEW n \in 0 .. k - 1 PROVE h[n] = g[n]
  <2>1. n \in 0 .. k
    BY <1>2, <1>4
  <2>2. h[n] = IF n = 0 THEN {r} ELSE ImportedInto(g[n - 1], file[n])
    BY <2>1
  <2> QED
    BY <1>5, <2>2 DEF RowsDone
<1>7. ASSUME NEW n \in 0 .. k, n # 0 PROVE g[n - 1] = h[n - 1]
  <2>1. n - 1 \in 0 .. k - 1
    BY <1>2, <1>7
  <2> QED
    BY <1>6, <2>1
<1>8. h = [n \in 0 .. k |->
            IF n = 0 THEN {r} ELSE ImportedInto(h[n - 1], file[n])]
  BY <1>7
<1> QED
  BY <1>2, <1>8 DEF RowsDone

\* AfterRows is what its equation says.
LEMMA AfterRowsDef ==
    ASSUME NEW file \in Seq(CsvRows), NEW r
    PROVE  /\ AfterRows(file, r)[0] = {r}
           /\ \A n \in 1 .. Len(file) : AfterRows(file, r)[n] =
                  ImportedInto(AfterRows(file, r)[n - 1], file[n])
<1> DEFINE g == AfterRows(file, r)
<1>1. Len(file) \in Nat
  OBVIOUS
<1>2. \E f : RowsDone(file, r, Len(file), f)
  BY <1>1, RowsCanBeDone
<1>3. g = [n \in 0 .. Len(file) |->
            IF n = 0 THEN {r} ELSE ImportedInto(g[n - 1], file[n])]
  BY <1>2 DEF RowsDone, AfterRows
<1> HIDE DEF g
<1>4. g[0] = {r}
  BY <1>1, <1>3
<1>5. ASSUME NEW n \in 1 .. Len(file)
      PROVE  g[n] = ImportedInto(g[n - 1], file[n])
  <2>1. n \in 0 .. Len(file) /\ n # 0
    BY <1>1
  <2> QED
    BY <1>3, <2>1
<1> QED
  BY <1>4, <1>5 DEF g
\* What the first n rows of a clean file make of a roster: each of its
\* enrollments is as it was or updated by a row that names it, once, and each
\* of the rows is enrolled.
RowsImported(file, n, r, x) ==
    /\ RosterOf(x)
    /\ DOMAIN r \subseteq DOMAIN x
    /\ \A e \in DOMAIN r :
          \/ x[e] = r[e]
          \/ \E i \in 1 .. n : Same(file[i], r[e]) /\ x[e] = Updated(file[i], r[e])
    /\ \A i \in 1 .. n : \E e \in DOMAIN x : Carries(x[e], file[i])

\* Another row of the file names no enrollment that an earlier row has set.
LEMMA OnlyOnce ==
    ASSUME NEW file \in Seq(CsvRows), Clean(file), NEW enrolled,
           NEW i \in DOMAIN file, NEW j \in DOMAIN file, i # j,
           Carries(enrolled, file[i])
    PROVE  ~Same(file[j], enrolled)
BY DEF Clean, Same, Carries

LEMMA NextRowImported ==
    ASSUME NEW file \in Seq(CsvRows), Clean(file), NEW r, RosterOf(r),
           NEW n \in 1 .. Len(file), NEW x, RowsImported(file, n - 1, r, x),
           NEW y \in ImportRow(file[n], x)
    PROVE  RowsImported(file, n, r, y)
<1>1. n \in DOMAIN file /\ file[n] \in CsvRows /\ n \in Nat /\ n - 1 \in Nat
  OBVIOUS
<1>2. RowImported(file[n], x, y)
  BY <1>1, OneRowImported DEF RowsImported
<1>3. RosterOf(y) /\ DOMAIN r \subseteq DOMAIN y
  BY <1>2 DEF RowImported, RowsImported
<1>4. ASSUME NEW i \in 1 .. n - 1
      PROVE  i \in DOMAIN file /\ i # n /\ i \in 1 .. n /\ file[i] \in CsvRows
  BY <1>1
<1>5. ASSUME NEW e \in DOMAIN x, NEW i \in 1 .. n - 1, Carries(x[e], file[i])
      PROVE  y[e] = x[e]
  <2>1. ~Same(file[n], x[e])
    BY <1>1, <1>4, <1>5, OnlyOnce
  <2> QED
    BY <1>2, <2>1 DEF RowImported
<1>6. ASSUME NEW e \in DOMAIN r
      PROVE  \/ y[e] = r[e]
             \/ \E i \in 1 .. n : Same(file[i], r[e]) /\ y[e] = Updated(file[i], r[e])
  <2>1. e \in DOMAIN x /\ r[e] \in Enrolled
    BY DEF RowsImported, RosterOf
  <2>2. CASE x[e] = r[e]
    <3>1. n \in 1 .. n
      BY <1>1
    <3> QED
      BY <1>2, <2>1, <2>2, <3>1 DEF RowImported
  <2>3. CASE x[e] # r[e]
    <3>1. PICK i \in 1 .. n - 1 :
              Same(file[i], r[e]) /\ x[e] = Updated(file[i], r[e])
      BY <2>3 DEF RowsImported
    <3>2. Carries(x[e], file[i])
      BY <1>4, <2>1, <3>1, UpdatedCarries
    <3>3. y[e] = x[e]
      BY <1>5, <2>1, <3>2
    <3> QED
      BY <1>4, <3>1, <3>3
  <2> QED
    BY <2>2, <2>3
<1>7. ASSUME NEW i \in 1 .. n
      PROVE  \E e \in DOMAIN y : Carries(y[e], file[i])
  <2>1. CASE i = n
    BY <1>2, <2>1 DEF RowImported
  <2>2. CASE i # n
    <3>1. i \in 1 .. n - 1
      BY <1>1, <2>2
    <3>2. PICK e \in DOMAIN x : Carries(x[e], file[i])
      BY <3>1 DEF RowsImported
    <3>3. e \in DOMAIN y /\ y[e] = x[e]
      BY <1>2, <1>5, <3>1, <3>2 DEF RowImported
    <3> QED
      BY <3>2, <3>3
  <2> QED
    BY <2>1, <2>2
<1> QED
  BY <1>3, <1>6, <1>7 DEF RowsImported

\* The shortest prefix of the file that makes something else does not exist.
LEMMA PrefixImported ==
    ASSUME NEW file \in Seq(CsvRows), Clean(file), NEW r, RosterOf(r)
    PROVE  \A n \in 0 .. Len(file) : \A x \in AfterRows(file, r)[n] :
              RowsImported(file, n, r, x)
<1> DEFINE P(n) == \A x \in AfterRows(file, r)[n] : RowsImported(file, n, r, x)
<1> DEFINE T == {n \in 0 .. Len(file) : ~P(n)}
<1> SUFFICES ASSUME T # {} PROVE FALSE
  OBVIOUS
<1>1. PICK k \in T : \A j \in T : k <= j
  <2>1. T \subseteq Nat
    OBVIOUS
  <2> HIDE DEF T
  <2> QED
    BY <2>1, Least
<1>2. k \in 0 .. Len(file) /\ ~P(k) /\ Len(file) \in Nat
  OBVIOUS
<1>3. RowsImported(file, 0, r, r)
  BY DEF RowsImported
<1>4. k # 0
  BY <1>2, <1>3, AfterRowsDef
<1>5. k \in 1 .. Len(file) /\ k - 1 \in 0 .. Len(file) /\ k - 1 \notin T
  BY <1>1, <1>2, <1>4
<1>6. P(k - 1)
  BY <1>5
<1>7. AfterRows(file, r)[k] = ImportedInto(AfterRows(file, r)[k - 1], file[k])
  BY <1>5, AfterRowsDef
<1>8. ASSUME NEW y \in AfterRows(file, r)[k] PROVE RowsImported(file, k, r, y)
  <2>1. PICK x \in AfterRows(file, r)[k - 1] : y \in ImportRow(file[k], x)
    BY <1>7 DEF ImportedInto
  <2>2. RowsImported(file, k - 1, r, x)
    BY <1>6
  <2> QED
    BY <1>5, <2>1, <2>2, NextRowImported
<1> QED
  BY <1>2, <1>8

-----------------------------------------------------------------------------
(* The whole file, and the enrollments ticked to be archived. *)

\* What an import of a file with the enrollments es ticked makes of a roster.
WholeImported(file, es, r, y) ==
    /\ RosterOf(y)
    /\ DOMAIN r \subseteq DOMAIN y
    /\ \A i \in DOMAIN file : \E e \in DOMAIN y : Carries(y[e], file[i])
    /\ \A e \in DOMAIN r :
          \/ e \in es /\ y[e] = [r[e] EXCEPT !.status = "ARCHIVED"]
          \/ e \notin es /\ y[e] = r[e]
          \/ \E i \in DOMAIN file : Same(file[i], r[e]) /\
                y[e] = IF e \in es
                       THEN [Updated(file[i], r[e]) EXCEPT !.status = "ARCHIVED"]
                       ELSE Updated(file[i], r[e])

LEMMA WholeFileImported ==
    ASSUME NEW file \in Seq(CsvRows), NEW es, NEW r, RosterOf(r),
           NEW y \in Committed(file, es, r)
    PROVE  WholeImported(file, es, r, y)
<1>1. Clean(file)
  BY DEF Committed
<1>2. PICK x \in Imported(file, r) : y = Archived(x, es)
  BY <1>1 DEF Committed
<1>3. RowsImported(file, Len(file), r, x)
  <2>1. Len(file) \in 0 .. Len(file)
    OBVIOUS
  <2> QED
    BY <1>1, <1>2, <2>1, PrefixImported DEF Imported
<1>4. DOMAIN file = 1 .. Len(file)
  OBVIOUS
<1>5. /\ DOMAIN y = DOMAIN x
      /\ \A e \in DOMAIN x :
            y[e] = IF e \in es THEN [x[e] EXCEPT !.status = "ARCHIVED"] ELSE x[e]
  BY <1>2 DEF Archived
<1>6. ASSUME NEW e \in DOMAIN x
      PROVE  y[e] \in Enrolled /\ Carries(y[e], x[e])
  <2>1. x[e] \in Enrolled
    BY <1>3 DEF RowsImported, RosterOf
  <2> QED
    BY <1>5, <2>1 DEF Enrolled, RosterStatuses, Carries
<1>7. RosterOf(y)
  BY <1>3, <1>5, <1>6 DEF RowsImported, RosterOf, Carries
<1>8. ASSUME NEW i \in DOMAIN file
      PROVE  \E e \in DOMAIN y : Carries(y[e], file[i])
  BY <1>3, <1>4, <1>5, <1>6 DEF RowsImported, Carries
<1>9. ASSUME NEW e \in DOMAIN r
      PROVE  \/ e \in es /\ y[e] = [r[e] EXCEPT !.status = "ARCHIVED"]
             \/ e \notin es /\ y[e] = r[e]
             \/ \E i \in DOMAIN file : Same(file[i], r[e]) /\
                   y[e] = IF e \in es
                          THEN [Updated(file[i], r[e]) EXCEPT !.status = "ARCHIVED"]
                          ELSE Updated(file[i], r[e])
  <2>1. e \in DOMAIN x
    BY <1>3 DEF RowsImported
  <2>2. y[e] = IF e \in es THEN [x[e] EXCEPT !.status = "ARCHIVED"] ELSE x[e]
    BY <1>5, <2>1
  <2>3. \/ x[e] = r[e]
        \/ \E i \in DOMAIN file : Same(file[i], r[e]) /\ x[e] = Updated(file[i], r[e])
    BY <1>3, <1>4 DEF RowsImported
  <2> QED
    BY <2>2, <2>3
<1>10. DOMAIN r \subseteq DOMAIN y
  BY <1>3, <1>5 DEF RowsImported
<1> QED
  BY <1>7, <1>8, <1>9, <1>10 DEF WholeImported

-----------------------------------------------------------------------------
(* The roster and the page. *)

LEMMA TypeOfRoster == RosterTypeOK => RosterOf(roster)
BY DEF RosterTypeOK, RosterOf

LEMMA FilesAreRows ==
    ASSUME NEW f \in Csvs
    PROVE  f \in Seq(CsvRows)
BY RosterAssumption

LEMMA InitRosterTypeOK == RosterInit => RosterTypeOK
BY RosterAssumption DEF RosterInit, RosterTypeOK, NoReview

\* What is missing from a file is enrolled.
LEMMA ShowTyped ==
    ASSUME RosterTypeOK, NEW f \in Csvs, Show(f)
    PROVE  /\ review' \in [file : Csvs, missing : SUBSET Enrollments,
                           open : BOOLEAN, committed : BOOLEAN]
           /\ archiveIds' \subseteq Enrollments
<1>1. NoReview \in [file : Csvs, missing : SUBSET Enrollments,
                     open : BOOLEAN, committed : BOOLEAN]
  BY RosterAssumption DEF NoReview
<1>2. Missing(f, roster) \in SUBSET Enrollments
  BY DEF RosterTypeOK, Missing
<1>3. CASE f = Malformed
  BY <1>1, <1>3 DEF RosterTypeOK, Show
<1>4. CASE f # Malformed
  <2>1. archiveIds' = {}
    BY <1>4 DEF Show
  <2>2. review' \in [file : Csvs, missing : SUBSET Enrollments,
                     open : BOOLEAN, committed : BOOLEAN]
    <3>1. PICK m \in SUBSET Enrollments : m = Missing(f, roster)
      BY <1>2
    <3>2. review' = [file |-> f, missing |-> m, open |-> TRUE, committed |-> FALSE]
      BY <1>4, <3>1 DEF Show
    <3> QED
      BY <3>2
  <2> QED
    BY <2>1, <2>2
<1> QED
  BY <1>3, <1>4

\* Only the roster changes, and is what an import of some file leaves.
LEMMA CommittedTyped ==
    ASSUME RosterTypeOK, NEW f \in Csvs, NEW es, roster' \in Committed(f, es, roster)
    PROVE  WholeImported(f, es, roster, roster')
BY TypeOfRoster, FilesAreRows, WholeFileImported

\* Who joins, or is archived or restored, keeps address and student ID.
LEMMA SameAddresses ==
    ASSUME RosterTypeOK, UNCHANGED page, DOMAIN roster' = DOMAIN roster,
           \A x \in DOMAIN roster :
               roster'[x] \in Enrolled /\ Carries(roster'[x], roster[x])
    PROVE  RosterTypeOK'
BY DEF RosterTypeOK, Carries, page

LEMMA NextRosterTypeOK == RosterTypeOK /\ [RosterNext]_rosterVars => RosterTypeOK'
<1> SUFFICES ASSUME RosterTypeOK, [RosterNext]_rosterVars PROVE RosterTypeOK'
  OBVIOUS
<1>1. ASSUME NEW f \in Csvs, Edit(f) PROVE RosterTypeOK'
  <2>1. NoReview \in [file : Csvs, missing : SUBSET Enrollments,
                       open : BOOLEAN, committed : BOOLEAN]
    BY RosterAssumption DEF NoReview
  <2>2. review' \in [file : Csvs, missing : SUBSET Enrollments,
                     open : BOOLEAN, committed : BOOLEAN]
        /\ archiveIds' \subseteq Enrollments
    BY <1>1, <2>1 DEF Edit, RosterTypeOK
  <2>3. text' \in Csvs /\ previewing' \in {"idle", "timer", "asked"}
        /\ late' \subseteq Csvs
    BY <1>1 DEF Edit, RosterTypeOK
  <2> QED
    BY <1>1, <2>2, <2>3 DEF Edit, RosterTypeOK
<1>2. ASSUME NEW f \in Csvs, LateDropped(f) PROVE RosterTypeOK'
  BY <1>2 DEF LateDropped, RosterTypeOK
<1>3. CASE Ask \/ Unreachable
  BY <1>3 DEF Ask, Unreachable, RosterTypeOK
<1>4. CASE Answered
  <2>1. text \in Csvs /\ Show(text)
    BY <1>4 DEF Answered, RosterTypeOK
  <2> QED
    BY <1>4, <2>1, ShowTyped DEF Answered, RosterTypeOK
<1>5. CASE Import
  <2>1. review.file \in Csvs
    BY DEF RosterTypeOK
  <2>2. RosterOf(roster')
    BY <1>5, <2>1, CommittedTyped DEF Import, WholeImported
  <2>3. review' \in [file : Csvs, missing : SUBSET Enrollments,
                     open : BOOLEAN, committed : BOOLEAN]
    BY <1>5 DEF Import, RosterTypeOK
  <2> QED
    BY <1>5, <2>2, <2>3 DEF Import, RosterTypeOK, RosterOf
<1>6. ASSUME NEW e \in Enrollments, Tick(e) PROVE RosterTypeOK'
  BY <1>6 DEF Tick, RosterTypeOK
<1>7. ASSUME NEW e \in Enrollments, Join(e) PROVE RosterTypeOK'
  <2>1. ASSUME NEW x \in DOMAIN roster
        PROVE  roster'[x] \in Enrolled /\ Carries(roster'[x], roster[x])
    BY <1>7 DEF Join, RosterTypeOK, Enrolled, RosterStatuses, Carries
  <2>2. DOMAIN roster' = DOMAIN roster /\ UNCHANGED page
    BY <1>7 DEF Join
  <2> QED
    BY <2>1, <2>2, SameAddresses
<1>8. ASSUME NEW e \in Enrollments, NEW status \in {"INVITED", "ARCHIVED"},
             SetStatus(e, status)
      PROVE  RosterTypeOK'
  <2>1. ASSUME NEW x \in DOMAIN roster
        PROVE  roster'[x] \in Enrolled /\ Carries(roster'[x], roster[x])
    BY <1>8 DEF SetStatus, RosterTypeOK, Enrolled, RosterStatuses, Carries
  <2>2. DOMAIN roster' = DOMAIN roster /\ UNCHANGED page
    BY <1>8 DEF SetStatus
  <2> QED
    BY <2>1, <2>2, SameAddresses
<1>9. ASSUME NEW f \in Csvs, NEW es \in SUBSET Enrollments, ImportElsewhere(f, es)
      PROVE  RosterTypeOK'
  <2>1. RosterOf(roster')
    BY <1>9, CommittedTyped DEF ImportElsewhere, WholeImported
  <2> QED
    BY <1>9, <2>1 DEF ImportElsewhere, RosterTypeOK, RosterOf, page
<1>10. CASE UNCHANGED rosterVars
  BY <1>10 DEF rosterVars, page, RosterTypeOK
<1> QED
  BY <1>1, <1>2, <1>3, <1>4, <1>5, <1>6, <1>7, <1>8, <1>9, <1>10 DEF RosterNext

\* The roster is well-formed whatever is imported: no two enrollments of a
\* class have an address or a student ID in common.
THEOREM RosterTypeCorrect == RosterSpec => []RosterTypeOK
<1> QED
  BY InitRosterTypeOK, NextRosterTypeOK, PTL DEF RosterSpec

\* README.md:152: what the page offers to import is the text it shows.
THEOREM OfferedIsShown == RosterSpec => []ImportIsShown
<1>1. RosterInit => ImportIsShown
  BY DEF RosterInit, ImportIsShown, NoReview
<1>2. RosterTypeOK /\ ImportIsShown /\ [RosterNext]_rosterVars => ImportIsShown'
  <2> SUFFICES ASSUME RosterTypeOK, ImportIsShown, [RosterNext]_rosterVars
               PROVE  ImportIsShown'
    OBVIOUS
  <2> USE DEF RosterTypeOK, ImportIsShown
  <2>1. ASSUME NEW f \in Csvs, Edit(f) \/ LateDropped(f) PROVE ImportIsShown'
    BY <2>1 DEF Edit, LateDropped, NoReview
  <2>2. CASE Ask \/ Unreachable
    BY <2>2 DEF Ask, Unreachable
  <2>3. CASE Answered
    BY <2>3 DEF Answered, Show, NoReview
  <2>4. CASE Import
    BY <2>4 DEF Import, MayImport
  <2>5. ASSUME NEW e \in Enrollments, Tick(e) \/ Join(e) PROVE ImportIsShown'
    BY <2>5 DEF Tick, Join, page
  <2>6. ASSUME NEW e \in Enrollments, NEW status \in {"INVITED", "ARCHIVED"},
               SetStatus(e, status)
        PROVE  ImportIsShown'
    BY <2>6 DEF SetStatus, page
  <2>7. ASSUME NEW f \in Csvs, NEW es \in SUBSET Enrollments, ImportElsewhere(f, es)
        PROVE  ImportIsShown'
    BY <2>7 DEF ImportElsewhere, page
  <2>8. CASE UNCHANGED rosterVars
    BY <2>8 DEF rosterVars, page
  <2> QED
    BY <2>1, <2>2, <2>3, <2>4, <2>5, <2>6, <2>7, <2>8 DEF RosterNext
<1> QED
  BY <1>1, <1>2, RosterTypeCorrect, PTL DEF RosterSpec

-----------------------------------------------------------------------------
(* What an import may change. *)

\* Nothing else imports the preview on the page.
LEMMA OnlyImportImports ==
    ASSUME RosterTypeOK, [RosterNext]_rosterVars, Imports
    PROVE  Import
<1> USE DEF Imports, RosterTypeOK
<1>1. ASSUME NEW f \in Csvs PROVE ~(Edit(f) \/ LateDropped(f))
  BY DEF Edit, LateDropped, NoReview
<1>2. ~(Ask \/ Unreachable)
  BY DEF Ask, Unreachable
<1>3. ~Answered
  BY DEF Answered, Show, NoReview
<1>4. ASSUME NEW e \in Enrollments PROVE ~(Tick(e) \/ Join(e))
  BY DEF Tick, Join, page
<1>5. ASSUME NEW e \in Enrollments, NEW status \in {"INVITED", "ARCHIVED"}
      PROVE  ~SetStatus(e, status)
  BY DEF SetStatus, page
<1>6. ASSUME NEW f \in Csvs, NEW es \in SUBSET Enrollments
      PROVE  ~ImportElsewhere(f, es)
  BY DEF ImportElsewhere, page
<1>7. ~UNCHANGED rosterVars
  BY DEF rosterVars, page
<1> QED
  BY <1>1, <1>2, <1>3, <1>4, <1>5, <1>6, <1>7 DEF RosterNext

LEMMA ImportedWhole ==
    ASSUME RosterTypeOK, [RosterNext]_rosterVars, Imports
    PROVE  /\ WholeImported(review.file, archiveIds, roster, roster')
           /\ archiveIds \subseteq review.missing
<1>1. Import
  BY OnlyImportImports
<1>2. review.file \in Csvs
  BY DEF RosterTypeOK
<1> QED
  BY <1>1, <1>2, CommittedTyped DEF Import

\* README.md:151: an import enrolls its whole file, and of the others it
\* changes only those that were ticked.
THEOREM ImportsItsFile == RosterSpec => ImportIsTheFile
<1>1. RosterTypeOK /\ [RosterNext]_rosterVars => [ImportsTheFile]_rosterVars
  <2> SUFFICES ASSUME RosterTypeOK, [RosterNext]_rosterVars, Imports
               PROVE  ImportsTheFile
    BY DEF ImportsTheFile
  <2>1. WholeImported(review.file, archiveIds, roster, roster')
    BY ImportedWhole
  <2> QED
    BY <2>1 DEF ImportsTheFile, WholeImported, Carries, Named
<1> QED
  BY <1>1, RosterTypeCorrect, PTL DEF RosterSpec, ImportIsTheFile

\* Unless the roster changed since the preview, an import archives nobody whom
\* its file lists.
THEOREM ListedAreKept == RosterSpec => ListedStay
<1>1. RosterTypeOK /\ [RosterNext]_rosterVars => [ArchivesNobodyListed]_rosterVars
  <2> SUFFICES ASSUME RosterTypeOK, [RosterNext]_rosterVars, Imports,
                      review.missing = Missing(review.file, roster),
                      NEW e \in DOMAIN roster, Named(review.file, roster[e]),
                      roster'[e].status = "ARCHIVED"
               PROVE  roster[e].status = "ARCHIVED"
    BY DEF ArchivesNobodyListed, ArchivesOnlyMissing
  <2>1. e \notin archiveIds
    BY ImportedWhole DEF Missing, Named
  <2>2. CASE roster'[e] = roster[e]
    BY <2>2
  <2>3. ASSUME NEW i \in DOMAIN review.file,
               roster'[e] = Updated(review.file[i], roster[e])
        PROVE  roster[e].status = "ARCHIVED"
    <3>1. roster[e] \in Enrolled
      BY DEF RosterTypeOK
    <3> QED
      BY <2>3, <3>1 DEF Updated, Invited, Enrolled
  <2> QED
    BY <2>1, <2>2, <2>3, ImportedWhole DEF WholeImported
<1> QED
  BY <1>1, RosterTypeCorrect, PTL DEF RosterSpec, ListedStay

\* Nobody is linked by an import, and a link is kept only with its address.
Kept(before, after, ticked) ==
    /\ after.linked => before.linked /\ after.email = before.email
    /\ after.email = before.email =>
          /\ after.linked = before.linked
          /\ \/ after.status = before.status
             \/ after.status = "ARCHIVED" /\ ticked

\* Whichever row, and ticked or not.
LEMMA ImportKeeps ==
    ASSUME NEW file \in Seq(CsvRows), NEW es, NEW r, RosterOf(r), NEW y,
           WholeImported(file, es, r, y), NEW e \in DOMAIN r
    PROVE  Kept(r[e], y[e], e \in es)
<1>1. r[e] \in Enrolled
  BY DEF RosterOf
<1>2. CASE \/ e \in es /\ y[e] = [r[e] EXCEPT !.status = "ARCHIVED"]
           \/ e \notin es /\ y[e] = r[e]
  BY <1>1, <1>2 DEF Enrolled, Kept
<1>3. ASSUME NEW i \in DOMAIN file,
             y[e] = IF e \in es
                    THEN [Updated(file[i], r[e]) EXCEPT !.status = "ARCHIVED"]
                    ELSE Updated(file[i], r[e])
      PROVE  Kept(r[e], y[e], e \in es)
  <2>1. file[i] \in CsvRows
    OBVIOUS
  <2>2. CASE r[e].email = file[i].email
    BY <1>1, <1>3, <2>1, <2>2 DEF Updated, Enrolled, CsvRows, Kept
  <2>3. CASE r[e].email # file[i].email
    <3>1. Updated(file[i], r[e]) = Invited(file[i])
      BY <2>3 DEF Updated
    <3>2. y[e].linked = FALSE /\ y[e].email = file[i].email
      BY <1>3, <3>1 DEF Invited
    <3> QED
      BY <2>3, <3>2 DEF Kept
  <2> QED
    BY <2>2, <2>3
<1> QED
  BY <1>2, <1>3 DEF WholeImported

LEMMA KeptIsPreserved ==
    ASSUME RosterTypeOK, NEW f \in Seq(CsvRows), NEW es,
           WholeImported(f, es, roster, roster'), Imports => es = archiveIds,
           NEW e \in DOMAIN roster
    PROVE  Preserves(e)
<1>1. Kept(roster[e], roster'[e], e \in es)
  BY ImportKeeps, TypeOfRoster
<1> QED
  BY <1>1 DEF Kept, Preserves

\* README.md:162: a link survives only with its address, and an archived
\* enrollment that keeps its address stays archived.
THEOREM AccountsArePreserved == RosterSpec => ReimportPreserves
<1>1. RosterTypeOK /\ [RosterNext]_rosterVars =>
          [\A e \in DOMAIN roster : Preserves(e)]_rosterVars
  <2> SUFFICES ASSUME RosterTypeOK, RosterNext, NEW e \in DOMAIN roster
               PROVE  Preserves(e)
    OBVIOUS
  <2>1. roster[e] \in Enrolled
    BY DEF RosterTypeOK
  <2>2. CASE Imports
    <3>1. WholeImported(review.file, archiveIds, roster, roster')
      BY <2>2, ImportedWhole
    <3>2. review.file \in Seq(CsvRows)
      BY FilesAreRows DEF RosterTypeOK
    <3> QED
      BY <3>1, <3>2, KeptIsPreserved
  <2>3. CASE ~Imports /\ roster'[e] = roster[e]
    BY <2>1, <2>3 DEF Preserves
  <2>4. CASE Import
    <3>1. review.file \in Csvs /\ review.file \in Seq(CsvRows)
      BY FilesAreRows DEF RosterTypeOK
    <3>2. WholeImported(review.file, archiveIds, roster, roster')
      BY <2>4, <3>1, CommittedTyped DEF Import
    <3> QED
      BY <3>1, <3>2, KeptIsPreserved
  <2>5. ASSUME NEW f \in Enrollments, Join(f), ~Imports PROVE Preserves(e)
    BY <2>1, <2>5 DEF Join, Preserves, Enrolled
  <2>6. ASSUME NEW f \in Enrollments, NEW status \in {"INVITED", "ARCHIVED"},
               SetStatus(f, status), ~Imports
        PROVE  Preserves(e)
    BY <2>1, <2>6 DEF SetStatus, Preserves, Enrolled
  <2>7. ASSUME NEW f \in Csvs, NEW es \in SUBSET Enrollments, ImportElsewhere(f, es),
               ~Imports
        PROVE  Preserves(e)
    <3>1. WholeImported(f, es, roster, roster') /\ f \in Seq(CsvRows)
      BY <2>7, CommittedTyped, FilesAreRows DEF ImportElsewhere
    <3> QED
      BY <2>7, <3>1, KeptIsPreserved
  <2>8. ASSUME NEW f \in Csvs, Edit(f) \/ LateDropped(f) PROVE roster'[e] = roster[e]
    BY <2>8 DEF Edit, LateDropped
  <2>9. CASE Ask \/ Answered \/ Unreachable
    BY <2>2, <2>3, <2>9 DEF Ask, Answered, Unreachable
  <2>10. ASSUME NEW f \in Enrollments, Tick(f) PROVE roster'[e] = roster[e]
    BY <2>10 DEF Tick
  <2> QED
    BY <2>2, <2>3, <2>4, <2>5, <2>6, <2>7, <2>8, <2>9, <2>10 DEF RosterNext
<1> QED
  BY <1>1, RosterTypeCorrect, PTL DEF RosterSpec, ReimportPreserves
=============================================================================
