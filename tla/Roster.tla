------------------------------- MODULE Roster -------------------------------
(***************************************************************************)
(* A roster import: the administrator's page (RosterTab), which previews a *)
(* CSV while it is being edited, POST /api/roster/preview and              *)
(* POST /api/roster/import, against everything else that changes a roster  *)
(* in between.  An enrollment keeps its identity while imports change its  *)
(* address and its student ID; names are left out.                         *)
(***************************************************************************)
EXTENDS Naturals, FiniteSets, Sequences

CONSTANTS
    Enrollments,  \* identities of roster rows
    Emails,
    Ids,          \* student IDs (orgDefinedId)
    Csvs,         \* the CSVs: sequences of parsed rows
    Malformed,    \* the one of them that cannot be parsed
    MaxStale      \* bound: answers on their way to a text edited since

VARIABLES
    roster,       \* enrollment -> its row
    text,         \* the CSV on the page
    previewing,   \* the preview of it: idle, in its 400 ms, asked, or answered
    late,         \* previews of earlier texts, not answered yet
    review,       \* the preview on the page; open while the page has its import ID
    archiveIds    \* the enrollments ticked to be archived

page == <<text, previewing, late, review, archiveIds>>
rosterVars == <<roster, page>>

\* A row of a CSV: a valid one has well-formed fields, and none missing.
CsvRows == [email : Emails, org : Ids, valid : BOOLEAN]

\* randomUUID() never runs out of identities: there is one for every address.
ASSUME RosterAssumption ==
    /\ Csvs \subseteq Seq(CsvRows) /\ <<>> \in Csvs /\ Malformed \in Csvs
    /\ MaxStale \in Nat
    /\ IsFiniteSet(Emails) /\ IsFiniteSet(Enrollments)
    /\ Cardinality(Emails) <= Cardinality(Enrollments)

RosterStatuses == {"INVITED", "ACTIVE", "ARCHIVED"}
Enrolled == [email : Emails, org : Ids, linked : BOOLEAN, status : RosterStatuses]

NoReview == [file |-> <<>>, missing |-> {}, open |-> FALSE, committed |-> FALSE]

RosterTypeOK ==
    /\ DOMAIN roster \subseteq Enrollments
    /\ \A e \in DOMAIN roster : roster[e] \in Enrolled
    /\ \A e, f \in DOMAIN roster : e # f =>
          roster[e].email # roster[f].email /\ roster[e].org # roster[f].org
    /\ text \in Csvs
    /\ previewing \in {"idle", "timer", "asked"}
    /\ late \subseteq Csvs
    /\ review \in [file : Csvs, missing : SUBSET Enrollments,
                   open : BOOLEAN, committed : BOOLEAN]
    /\ archiveIds \subseteq Enrollments

RosterInit ==
    /\ roster = <<>>
    /\ text = <<>>
    /\ previewing = "idle" /\ late = {} /\ review = NoReview /\ archiveIds = {}

-----------------------------------------------------------------------------
(* roster.ts *)

Same(row, e) == row.email = e.email \/ row.org = e.org

\* Mutant: a student is missing if the address is not in the file.
MissingByEmail(file, r) ==
    {e \in DOMAIN r : \A i \in DOMAIN file : file[i].email # r[e].email}

\* What no row of the file names, by address or by student ID.
Missing(file, r) ==
    {e \in DOMAIN r : \A i \in DOMAIN file : ~Same(file[i], r[e])}

\* Mutant: a duplicate is a row with the same address.
CleanByEmail(file) ==
    \A i, j \in DOMAIN file :
        file[i].valid /\ (i # j => file[i].email # file[j].email)

\* Neither invalid rows nor duplicates.
Clean(file) ==
    \A i, j \in DOMAIN file : file[i].valid /\ (i # j => ~Same(file[i], file[j]))

-----------------------------------------------------------------------------
(* POST /api/roster/import *)

Matches(row, r) == {e \in DOMAIN r : Same(row, r[e])}

Invited(row) ==
    [email |-> row.email, org |-> row.org, linked |-> FALSE, status |-> "INVITED"]

\* Mutant: a changed address keeps its account.
UpdatedInPlace(row, enrolled) == [enrolled EXCEPT !.email = row.email, !.org = row.org]

\* A new address is nobody's yet.
Updated(row, enrolled) ==
    IF enrolled.email = row.email THEN [enrolled EXCEPT !.org = row.org] ELSE Invited(row)

\* A row that nobody matches enrolls somebody.
Added(row, r) ==
    LET new == CHOOSE n \in Enrollments : n \notin DOMAIN r
    IN  [e \in DOMAIN r \cup {new} |-> IF e \in DOMAIN r THEN r[e] ELSE Invited(row)]

\* One row in each of the possible rosters: none if it names two enrollments.
ImportRow(row, r) ==
    LET known == Matches(row, r)
    IN  IF known = {} THEN {Added(row, r)}
        ELSE {[r EXCEPT ![e] = Updated(row, @)] : e \in {k \in known : known = {k}}}

\* One row in any of the rosters so far.
ImportedInto(rosters, row) == UNION {ImportRow(row, r) : r \in rosters}

\* The possible rosters after each row, none after a row that is refused.
AfterRows(file, r) ==
    LET after[n \in 0 .. Len(file)] ==
            IF n = 0 THEN {r} ELSE ImportedInto(after[n - 1], file[n])
    IN  after

\* Row after row; {} if one of them is refused, which undoes the whole import.
Imported(file, r) == AfterRows(file, r)[Len(file)]

Archived(r, es) == [e \in DOMAIN r |->
    IF e \in es THEN [r[e] EXCEPT !.status = "ARCHIVED"] ELSE r[e]]

\* What the transaction leaves: nothing new if it is refused.
Committed(file, es, r) ==
    IF Clean(file) THEN {Archived(imported, es) : imported \in Imported(file, r)} ELSE {}

-----------------------------------------------------------------------------
(* The page. *)

\* Typing, or choosing a file: the last edit wins, and its preview is awaited.
Edit(f) ==
    /\ previewing = "asked" => Cardinality(late) < MaxStale
    /\ IF f = text THEN UNCHANGED <<previewing, late>>
       ELSE /\ previewing' = IF f = <<>> THEN "idle" ELSE "timer"
            /\ late' = IF previewing = "asked" THEN late \cup {text} ELSE late
    /\ text' = f
    /\ IF f = <<>> /\ f # text THEN review' = NoReview /\ archiveIds' = {}
       ELSE review' = [review EXCEPT !.open = FALSE] /\ UNCHANGED archiveIds
    /\ UNCHANGED roster

Ask ==
    /\ previewing = "timer" /\ previewing' = "asked"
    /\ UNCHANGED <<roster, text, late, review, archiveIds>>

\* What POST /api/roster/preview stores and the page then shows.
Show(f) ==
    IF f = Malformed THEN review' = NoReview /\ UNCHANGED archiveIds
    ELSE /\ review' = [file |-> f, missing |-> Missing(f, roster),
                       open |-> TRUE, committed |-> FALSE]
         /\ archiveIds' = {}

Answered ==
    /\ previewing = "asked" /\ previewing' = "idle"
    /\ Show(text)
    /\ UNCHANGED <<roster, text, late>>

Unreachable ==
    /\ previewing = "asked" /\ previewing' = "idle"
    /\ UNCHANGED <<roster, text, late, review, archiveIds>>

\* Mutant: every answer is shown.
LateShown(f) ==
    /\ f \in late /\ late' = late \ {f}
    /\ Show(f)
    /\ UNCHANGED <<roster, text, previewing>>

\* The answer to a text edited since is dropped.
LateDropped(f) ==
    /\ f \in late /\ late' = late \ {f}
    /\ UNCHANGED <<roster, text, previewing, review, archiveIds>>

Tick(e) ==
    /\ e \in review.missing
    /\ archiveIds' = IF e \in archiveIds THEN archiveIds \ {e} ELSE archiveIds \cup {e}
    /\ UNCHANGED <<roster, text, previewing, late, review>>

\* The button is enabled, and the server has not imported this preview yet.
MayImport ==
    /\ previewing = "idle" /\ review.open /\ Clean(review.file)
    /\ ~review.committed

\* Refused, also for an hour's age, nothing changes; accepted, the answer may be lost.
Import ==
    /\ MayImport
    /\ archiveIds \subseteq review.missing
    /\ roster' \in Committed(review.file, archiveIds, roster)
    /\ \E answered \in BOOLEAN :
          review' = [review EXCEPT !.committed = TRUE, !.open = ~answered]
    /\ UNCHANGED <<text, previewing, late, archiveIds>>

-----------------------------------------------------------------------------
(* Everybody else. *)

\* Another administrator previews and imports with nothing in between.
ImportElsewhere(f, es) ==
    /\ f # Malformed /\ es \subseteq Missing(f, roster)
    /\ roster' \in Committed(f, es, roster)
    /\ UNCHANGED page

\* Activation or enrollment of the student with this address; who is linked
\* already joins a reactivated enrollment again.
Join(e) ==
    /\ e \in DOMAIN roster /\ roster[e].status # "ARCHIVED"
    /\ roster' = [roster EXCEPT ![e] = [@ EXCEPT !.linked = TRUE, !.status = "ACTIVE"]]
    /\ UNCHANGED page

SetStatus(e, status) ==
    /\ e \in DOMAIN roster
    /\ roster' = [roster EXCEPT ![e] = [@ EXCEPT !.status = status]]
    /\ UNCHANGED page

RosterNext ==
    \/ \E f \in Csvs : Edit(f) \/ LateDropped(f)
    \/ Ask \/ Answered \/ Unreachable \/ Import
    \/ \E e \in Enrollments : Tick(e) \/ Join(e)
    \/ \E e \in Enrollments, status \in {"INVITED", "ARCHIVED"} : SetStatus(e, status)
    \/ \E f \in Csvs, es \in SUBSET Enrollments : ImportElsewhere(f, es)

RosterSpec == RosterInit /\ [][RosterNext]_rosterVars

-----------------------------------------------------------------------------
\* README.md:152: "Confirm import commits the preview": what the page offers to
\* import is the text it shows, however its edits and the answers overlap.
ImportIsShown == review.open => review.file = text

\* A student whom a file names, by address or by student ID.
Named(file, enrolled) == \E i \in DOMAIN file : Same(file[i], enrolled)

Imports == ~review.committed /\ review'.committed

\* README.md:151: "omission alone never removes anyone".  An import leaves every
\* row of its file enrolled, each with its address and its student ID, and of
\* the enrollments not in it changes only those that were ticked.
ImportsTheFile == Imports =>
    /\ \A i \in DOMAIN review.file : \E e \in DOMAIN roster' :
          /\ roster'[e].email = review.file[i].email
          /\ roster'[e].org = review.file[i].org
    /\ \A e \in DOMAIN roster \ archiveIds :
          Named(review.file, roster[e]) \/ roster'[e] = roster[e]

ImportIsTheFile == [][ImportsTheFile]_rosterVars

\* Nobody whom the file names is archived by its import.
ArchivesOnlyMissing ==
    \A e \in DOMAIN roster : Named(review.file, roster[e]) =>
        (roster'[e].status = "ARCHIVED" => roster[e].status = "ARCHIVED")

\* An import archives nobody whom its file lists, unless the roster changed
\* since its preview: only then may a ticked enrollment be one the file names.
ArchivesNobodyListed == Imports =>
    review.missing # Missing(review.file, roster) \/ ArchivesOnlyMissing

ListedStay == [][ArchivesNobodyListed]_rosterVars

\* README.md:162: a new address "detaches the previous account", and
\* "reimporting an archived enrollment preserves its archive status": whatever
\* is imported, here or elsewhere, a link survives only with its address, and
\* an archived enrollment that keeps its address stays archived.
Preserves(e) ==
    /\ roster'[e].linked /\ roster[e].linked => roster'[e].email = roster[e].email
    /\ roster'[e].linked /\ ~roster[e].linked => roster[e].status # "ARCHIVED"
    /\ Imports /\ roster'[e].email = roster[e].email =>
          /\ roster'[e].linked = roster[e].linked
          /\ \/ roster'[e].status = roster[e].status
             \/ roster'[e].status = "ARCHIVED" /\ e \in archiveIds

ReimportPreserves == [][\A e \in DOMAIN roster : Preserves(e)]_rosterVars
=============================================================================
