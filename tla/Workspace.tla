------------------------------ MODULE Workspace ------------------------------
(***************************************************************************)
(* The user_data rows of one student in one class: the student's files and *)
(* settings (userdata.ts, index.ts), the class starters placed on entry    *)
(* with the marker that records them (starters), and the teacher's grants, *)
(* which the web process writes into the same table.                       *)
(***************************************************************************)
EXTENDS Naturals, FiniteSets, Functions

CONSTANTS
    Own,          \* paths of the student's own
    Starters,     \* paths of the starters
    Granted,      \* the starters that need a grant
    Later,        \* the starters that come with a later release
    Sizes,        \* sizes of what a student saves; a starter's is 1
    Quota,        \* 50 MB
    MaxVersion    \* bound: releases that raise VERSION

Settings == "__settings__"
Marker   == "__starters__"
Grants   == "__grants__"
Files    == Own \cup Starters
Paths    == Files \cup {Settings, Marker, Grants}

\* What a student saves is no reserved path and at most 5 MB.
ASSUME WorkspaceAssumption ==
    /\ IsFiniteSet(Files) /\ Files \cap {Settings, Marker, Grants} = {}
    /\ IsFiniteSet(Sizes) /\ Sizes \subseteq Nat /\ Quota \in Nat
    /\ MaxVersion \in Nat \ {0}

VARIABLES
    rows,         \* path -> [size, by], for the rows there are
    marker,       \* what the marker's row says: version, seeded
    h3Video,      \* what the grants' row says
    version,      \* the gateway's VERSION
    member,       \* activeMembership
    offered       \* history: how often each starter was placed, under which VERSION

workspaceVars == <<rows, marker, h3Video, version, member, offered>>

WorkspaceTypeOK ==
    /\ DOMAIN rows \subseteq Paths
    /\ \A p \in DOMAIN rows :
          rows[p] \in [size : Sizes \cup {1}, by : {"student", "starter", "lab"}]
    /\ marker \in [version : 0 .. MaxVersion, seeded : SUBSET Starters]
    /\ h3Video \in BOOLEAN
    /\ version \in 1 .. MaxVersion
    /\ member \in BOOLEAN
    /\ offered \in [Starters -> [1 .. MaxVersion -> Nat]]
    /\ marker.version > 0 <=> Marker \in DOMAIN rows

WorkspaceInit ==
    /\ rows = <<>>
    /\ marker = [version |-> 0, seeded |-> {}]
    /\ h3Video = FALSE /\ version = 1 /\ member = TRUE
    /\ offered = [s \in Starters |-> [v \in 1 .. MaxVersion |-> 0]]

-----------------------------------------------------------------------------
Row(size, by) == [size |-> size, by |-> by]
With(r, p, row) == [q \in DOMAIN r \cup {p} |-> IF q = p THEN row ELSE r[q]]

\* The sum of the sizes: how many bytes the rows have together.
Bytes(r) == UNION {{p} \X (1 .. r[p].size) : p \in DOMAIN r}
Total(r) == Cardinality(Bytes(r))

\* Mutant: the quota is checked before the new content is counted.
FitsBefore(r, p, size) == Total(Restrict(r, DOMAIN r \ {p})) <= Quota

\* Every row counts, except the one that is replaced.
Fits(r, p, size) == Total(Restrict(r, DOMAIN r \ {p})) + size <= Quota

-----------------------------------------------------------------------------
(* The student's requests; the reserved rows are out of their reach. *)

Save(p, size) ==
    /\ member /\ Fits(rows, p, size)
    /\ rows' = With(rows, p, Row(size, "student"))
    /\ UNCHANGED <<marker, h3Video, version, member, offered>>

\* Neither asks for the membership again, which the session had when it was let in.
Delete(p) ==
    /\ p \in DOMAIN rows
    /\ rows' = Restrict(rows, DOMAIN rows \ {p})
    /\ UNCHANGED <<marker, h3Video, version, member, offered>>

Move(p, q) ==
    /\ p \in DOMAIN rows
    /\ rows' = Restrict(With(rows, q, rows[p]), (DOMAIN rows \cup {q}) \ ({p} \ {q}))
    /\ UNCHANGED <<marker, h3Video, version, member, offered>>

SaveSettings(size) == Save(Settings, size)

-----------------------------------------------------------------------------
(* seedStarters(), one transaction on entry to the workspace. *)

Released == IF version = 1 THEN Starters \ Later ELSE Starters

Eligible == {s \in Released : s \in Granted => h3Video}

\* Mutant: a starter that was not placed before replaces what is there.
DueUnlessSeeded == Eligible \ marker.seeded

Due == {s \in Eligible : s \notin marker.seeded /\ s \notin DOMAIN rows}

Seeded(placed) ==
    [p \in DOMAIN rows \cup placed |-> IF p \in placed THEN Row(1, "starter") ELSE rows[p]]

Placed(placed) ==
    [s \in Starters |-> [v \in 1 .. MaxVersion |->
        IF s \in placed /\ v = version THEN offered[s][v] + 1 ELSE offered[s][v]]]

UpToDate == marker.version >= version /\ Eligible \subseteq marker.seeded

\* Mutant: the starters are saved one by one, and the marker after them.
EnterPiecemeal ==
    /\ member /\ ~UpToDate
    /\ \E placed \in SUBSET Due :
          /\ Total(Seeded(placed)) <= Quota
          /\ rows' = IF placed = Due /\ Fits(Seeded(placed), Marker, 1)
                        THEN With(Seeded(placed), Marker, Row(1, "lab")) ELSE Seeded(placed)
          /\ IF placed = Due /\ Fits(Seeded(placed), Marker, 1)
                THEN marker' = [version |-> version, seeded |-> marker.seeded \cup Due]
                ELSE UNCHANGED marker
          /\ offered' = Placed(placed)
    /\ UNCHANGED <<h3Video, version, member>>

\* Mutant: a starter whose path is taken counts as given.
EnterPastTaken ==
    /\ member /\ ~UpToDate
    /\ Fits(Seeded(Due), Marker, 1)
    /\ rows' = With(Seeded(Due), Marker, Row(1, "lab"))
    /\ marker' = [version |-> version, seeded |-> marker.seeded \cup Eligible]
    /\ offered' = Placed(Due)
    /\ UNCHANGED <<h3Video, version, member>>

\* All of it or, if a single save does not fit the quota, nothing.
Enter ==
    /\ member /\ ~UpToDate
    /\ Fits(Seeded(Due), Marker, 1)
    /\ rows' = With(Seeded(Due), Marker, Row(1, "lab"))
    /\ marker' = [version |-> version, seeded |-> marker.seeded \cup Due]
    /\ offered' = Placed(Due)
    /\ UNCHANGED <<h3Video, version, member>>

-----------------------------------------------------------------------------
(* Others. *)

\* setGrant() of the web process: no quota applies.
SetGrant(granted) ==
    /\ h3Video' = granted
    /\ rows' = With(rows, Grants, Row(1, "lab"))
    /\ UNCHANGED <<marker, version, member, offered>>

Release ==
    /\ version < MaxVersion
    /\ version' = version + 1
    /\ UNCHANGED <<rows, marker, h3Video, member, offered>>

ChangeMembership ==
    /\ member' = ~member
    /\ UNCHANGED <<rows, marker, h3Video, version, offered>>

WorkspaceNext ==
    \/ \E p \in Files, size \in Sizes : Save(p, size)
    \/ \E size \in Sizes : SaveSettings(size)
    \/ \E p \in Files : Delete(p)
    \/ \E p, q \in Files : Move(p, q)
    \/ \E granted \in BOOLEAN : SetGrant(granted)
    \/ Enter \/ Release \/ ChangeMembership

WorkspaceSpec == WorkspaceInit /\ [][WorkspaceNext]_workspaceVars

-----------------------------------------------------------------------------
\* starters/index.ts:18-20: leave VERSION alone "and a student who deletes or edits
\* a starter keeps that decision": whatever is saved, deleted, moved, granted and
\* revoked, no starter is placed twice under one VERSION.  What a bump does for
\* starters that were placed before ("push a revised starter to everyone") is not
\* part of this property.
StarterOfferedOnce == \A s \in Starters, v \in 1 .. MaxVersion : offered[s][v] <= 1

\* An entry to the workspace changes no file that is there, starter or not,
\* whoever wrote it and whether or not VERSION was raised since.
EntryKeepsFiles == [][marker' # marker =>
    \A p \in DOMAIN rows \ {Marker} : p \in DOMAIN rows' /\ rows'[p] = rows[p]]_workspaceVars

\* The rows of the student and of the starters.
Counted == Restrict(rows, DOMAIN rows \ {Grants})

\* However saves, moves over other files, entries and settings interleave, what
\* the student and the starters take stays within the quota; only the row of
\* the grants, which the web process writes, can exceed it.
QuotaHolds == Total(Counted) <= Quota

\* What an entry passes over (a quota that is full, a file already at the path)
\* is made up for: a workspace that is up to date was given every starter the
\* student may have, those of a later release and a later grant included.
UpToDateHasAll ==
    UpToDate => \A s \in Eligible : \E v \in 1 .. MaxVersion : offered[s][v] > 0
=============================================================================
