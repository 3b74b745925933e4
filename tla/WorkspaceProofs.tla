--------------------------- MODULE WorkspaceProofs ---------------------------
(***************************************************************************)
(* Proofs about Workspace, for any paths, starters, grants, releases and   *)
(* quota.  The marker is what links an entry to the entries before it: it  *)
(* names exactly the starters that were placed, so that a starter it does  *)
(* not name was never placed.  Only an entry writes the marker.            *)
(***************************************************************************)
EXTENDS Workspace, FiniteSetTheorems, TLAPS

\* What the marker remembers is what happened.
MarkerIsHistory ==
    /\ offered \in [Starters -> [1 .. MaxVersion -> Nat]]
    /\ version \in 1 .. MaxVersion
    /\ marker.seeded = {s \in Starters : \E v \in 1 .. MaxVersion : offered[s][v] > 0}

WorkspaceInv == MarkerIsHistory /\ StarterOfferedOnce

-----------------------------------------------------------------------------
LEMMA InitInv == WorkspaceInit => WorkspaceInv
BY WorkspaceAssumption DEF WorkspaceInit, WorkspaceInv, MarkerIsHistory, StarterOfferedOnce

\* An entry counts every starter it places once, and marks it.
LEMMA EnterInv == WorkspaceInv /\ Enter => WorkspaceInv'
<1> SUFFICES ASSUME WorkspaceInv, Enter PROVE WorkspaceInv'
    OBVIOUS
<1> USE DEF WorkspaceInv, MarkerIsHistory, StarterOfferedOnce
<1> DEFINE V == 1 .. MaxVersion
<1>1. Due \subseteq Starters /\ Due \cap marker.seeded = {}
    BY DEF Due, Eligible, Released
<1>2. offered' = [s \in Starters |-> [v \in V |->
                     IF s \in Due /\ v = version THEN offered[s][v] + 1 ELSE offered[s][v]]]
    BY DEF Enter, Placed
<1>3. marker'.seeded = marker.seeded \cup Due
    BY DEF Enter
<1>4. \A s \in Starters, v \in V : offered[s][v] \in Nat
    OBVIOUS
<1>5. \A s \in Due, v \in V : offered[s][v] = 0
  <2> SUFFICES ASSUME NEW s \in Due, NEW v \in V PROVE offered[s][v] = 0
      OBVIOUS
  <2>1. s \in Starters /\ s \notin marker.seeded
      BY <1>1
  <2>2. ~(offered[s][v] > 0) /\ offered[s][v] \in Nat
      BY <2>1, <1>4
  <2> QED BY <2>2
<1>6. version' \in V /\ version' = version
    BY DEF Enter
<1>7. \A s \in Starters, v \in V :
          offered'[s][v] = IF s \in Due /\ v = version THEN 1 ELSE offered[s][v]
    BY <1>1, <1>2, <1>5
<1>8. offered' \in [Starters -> [V -> Nat]]
    BY <1>2, <1>4
<1>9. marker'.seeded = {s \in Starters : \E v \in V : offered'[s][v] > 0}
    BY <1>1, <1>3, <1>6, <1>7
<1>10. StarterOfferedOnce'
    BY <1>7
<1> QED BY <1>6, <1>8, <1>9, <1>10

\* Nothing else touches the marker or what it remembers.
LEMMA OthersKeepMarker ==
    ASSUME [WorkspaceNext]_workspaceVars, ~Enter
    PROVE  /\ UNCHANGED <<marker, offered>>
           /\ version' # version => version < MaxVersion /\ version' = version + 1
BY DEF WorkspaceNext, workspaceVars, Save, SaveSettings, Delete, Move, SetGrant, Release, ChangeMembership

LEMMA NextInv == WorkspaceInv /\ [WorkspaceNext]_workspaceVars => WorkspaceInv'
<1> SUFFICES ASSUME WorkspaceInv, [WorkspaceNext]_workspaceVars PROVE WorkspaceInv'
    OBVIOUS
<1>1. CASE Enter
    BY <1>1, EnterInv
<1>2. CASE ~Enter
  <2>1. UNCHANGED <<marker, offered>>
      BY <1>2, OthersKeepMarker
  <2>2. version' \in 1 .. MaxVersion
      BY <1>2, OthersKeepMarker, WorkspaceAssumption DEF WorkspaceInv, MarkerIsHistory
  <2> QED BY <2>1, <2>2 DEF WorkspaceInv, MarkerIsHistory, StarterOfferedOnce
<1> QED BY <1>1, <1>2

\* The marker tells the truth about every behaviour.
THEOREM MarkerTrusted == WorkspaceSpec => []WorkspaceInv
<1>1. WorkspaceInit => WorkspaceInv
    BY InitInv
<1>2. WorkspaceInv /\ [WorkspaceNext]_workspaceVars => WorkspaceInv'
    BY NextInv
<1> QED BY <1>1, <1>2, PTL DEF WorkspaceSpec

\* starters/index.ts:19: while VERSION stays, no starter comes back to a student
\* who was given it, for any starters, saves, deletions, moves and grants.
THEOREM NoStarterComesBack == WorkspaceSpec => []StarterOfferedOnce
<1>1. WorkspaceInv => StarterOfferedOnce
    BY DEF WorkspaceInv
<1> QED BY <1>1, MarkerTrusted, PTL

\* starters/index.ts:146: where seedStarters() returns early, every starter the
\* student may have was placed: none is passed over for good.
THEOREM NoStarterIsForgotten == WorkspaceSpec => []UpToDateHasAll
<1>1. WorkspaceInv => UpToDateHasAll
  <2> SUFFICES ASSUME WorkspaceInv, UpToDate, NEW s \in Eligible
               PROVE  \E v \in 1 .. MaxVersion : offered[s][v] > 0
      BY DEF UpToDateHasAll
  <2>1. s \in Starters /\ s \in marker.seeded
      BY DEF UpToDate, Eligible, Released
  <2> QED BY <2>1 DEF WorkspaceInv, MarkerIsHistory
<1> QED BY <1>1, MarkerTrusted, PTL

\* An entry to the workspace overwrites no file, nor does one after a release.
THEOREM EntryOverwritesNothing == WorkspaceSpec => EntryKeepsFiles
<1> DEFINE Kept == marker' # marker =>
        \A p \in DOMAIN rows \ {Marker} : p \in DOMAIN rows' /\ rows'[p] = rows[p]
<1>1. [WorkspaceNext]_workspaceVars => [Kept]_workspaceVars
  <2> SUFFICES ASSUME [WorkspaceNext]_workspaceVars, marker' # marker, NEW p \in DOMAIN rows \ {Marker}
               PROVE  p \in DOMAIN rows' /\ rows'[p] = rows[p]
      OBVIOUS
  <2>1. Enter
      BY OthersKeepMarker
  <2>2. rows' = With(Seeded(Due), Marker, Row(1, "lab"))
      BY <2>1 DEF Enter
  <2>3. p \notin Due
      BY DEF Due
  <2>4. p \in DOMAIN Seeded(Due) /\ Seeded(Due)[p] = rows[p]
      BY <2>3 DEF Seeded
  <2> QED BY <2>2, <2>4 DEF With
<1> QED BY <1>1, PTL DEF WorkspaceSpec, EntryKeepsFiles

-----------------------------------------------------------------------------
(* The quota.  A sum of sizes is the number of pairs of a path and one of  *)
(* its bytes: rows at different paths have different pairs.                *)

Sized(r) == DOMAIN r \subseteq Paths /\ \A p \in DOMAIN r : r[p].size \in Sizes \cup {1}

LEMMA Names ==
    /\ IsFiniteSet(Paths)
    /\ Grants \notin Files /\ Marker \notin Files /\ Settings \notin Files
    /\ Marker # Grants /\ Settings # Grants /\ Settings # Marker
<1>1. IsFiniteSet({Settings, Marker, Grants})
  <2>1. IsFiniteSet({Settings}) /\ IsFiniteSet({Marker}) /\ IsFiniteSet({Grants})
    BY FS_Singleton
  <2>2. IsFiniteSet({Settings} \cup {Marker})
    BY <2>1, FS_Union
  <2>3. IsFiniteSet(({Settings} \cup {Marker}) \cup {Grants})
    BY <2>1, <2>2, FS_Union
  <2>4. ({Settings} \cup {Marker}) \cup {Grants} = {Settings, Marker, Grants}
    OBVIOUS
  <2> QED
    BY <2>3, <2>4
<1>2. IsFiniteSet(Paths)
  BY <1>1, WorkspaceAssumption, FS_Union DEF Paths
<1>3. Grants \notin Files /\ Marker \notin Files /\ Settings \notin Files
  BY WorkspaceAssumption
<1>4. Marker # Grants /\ Settings # Grants /\ Settings # Marker
  BY DEF Marker, Grants, Settings
<1> QED
  BY <1>2, <1>3, <1>4

LEMMA SizesAreNumbers == \A n \in Sizes \cup {1} : n \in Nat
BY WorkspaceAssumption

\* The bytes of one row.
LEMMA OneRow ==
    ASSUME NEW p, NEW n \in Nat
    PROVE  IsFiniteSet({p} \X (1 .. n)) /\ Cardinality({p} \X (1 .. n)) = n
<1>1. IsFiniteSet({p}) /\ Cardinality({p}) = 1
  BY FS_Singleton
<1>2. IsFiniteSet(1 .. n) /\ Cardinality(1 .. n) = n
  BY FS_Interval
<1>3. /\ IsFiniteSet({p} \X (1 .. n))
      /\ Cardinality({p} \X (1 .. n)) = Cardinality({p}) * Cardinality(1 .. n)
  BY <1>1, <1>2, FS_Product
<1> QED
  BY <1>1, <1>2, <1>3

LEMMA BytesOf ==
    ASSUME NEW r, NEW b
    PROVE  b \in Bytes(r) <=> \E p \in DOMAIN r : b \in {p} \X (1 .. r[p].size)
BY DEF Bytes

\* The bytes of any rows are finitely many.
LEMMA BytesFinite ==
    ASSUME NEW r, Sized(r)
    PROVE  IsFiniteSet(Bytes(r)) /\ Total(r) \in Nat
<1> DEFINE N == Sizes \cup {1}
           f == [n \in N |-> 1 .. n]
           All == {1 .. n : n \in N}
<1>1. IsFiniteSet(N)
  BY WorkspaceAssumption, FS_AddElement
<1>2. f \in Surjection(N, All)
  BY DEF Surjection
<1>3. IsFiniteSet(All)
  BY <1>1, <1>2, FS_Surjection
<1>4. \A T \in All : IsFiniteSet(T)
  BY SizesAreNumbers, FS_Interval
<1>5. IsFiniteSet(UNION All)
  BY <1>3, <1>4, FS_UNION
<1>6. IsFiniteSet(Paths \X UNION All)
  BY <1>5, Names, FS_Product
<1>7. Bytes(r) \in SUBSET (Paths \X UNION All)
  <2> SUFFICES ASSUME NEW b \in Bytes(r) PROVE b \in Paths \X UNION All
    OBVIOUS
  <2>1. PICK p \in DOMAIN r : b \in {p} \X (1 .. r[p].size)
    BY BytesOf
  <2>2. p \in Paths /\ 1 .. r[p].size \in All
    BY DEF Sized
  <2> QED
    BY <2>1, <2>2
<1>8. IsFiniteSet(Bytes(r))
  BY <1>6, <1>7, FS_Subset
<1> QED
  BY <1>8, FS_CardinalityType DEF Total

\* Fewer bytes are a smaller total.
LEMMA TotalGrows ==
    ASSUME NEW r, NEW s, Sized(s), Bytes(r) \subseteq Bytes(s)
    PROVE  Total(r) <= Total(s)
<1>1. IsFiniteSet(Bytes(s))
  BY BytesFinite
<1> QED
  BY <1>1, FS_Subset DEF Total

\* A row that takes the place of none in what is counted adds its size.
LEMMA TotalWith ==
    ASSUME NEW r, Sized(r), NEW p \in Paths, p \notin DOMAIN r, NEW n \in Nat,
           NEW s, Bytes(s) \subseteq Bytes(r) \cup ({p} \X (1 .. n))
    PROVE  Total(s) <= Total(r) + n
<1> DEFINE New == {p} \X (1 .. n)
<1>1. IsFiniteSet(Bytes(r)) /\ Total(r) \in Nat /\ Cardinality(Bytes(r)) = Total(r)
  BY BytesFinite DEF Total
<1>2. IsFiniteSet(New) /\ Cardinality(New) = n
  BY OneRow
<1>3. IsFiniteSet(Bytes(r) \cap New) /\ Cardinality(Bytes(r) \cap New) \in Nat
  BY <1>1, FS_Intersection, FS_CardinalityType
<1>4. /\ IsFiniteSet(Bytes(r) \cup New)
      /\ Cardinality(Bytes(r) \cup New)
            = Cardinality(Bytes(r)) + Cardinality(New) - Cardinality(Bytes(r) \cap New)
  BY <1>1, <1>2, FS_Union
<1>5. Cardinality(Bytes(r) \cup New) <= Total(r) + n /\ Cardinality(Bytes(r) \cup New) \in Nat
  BY <1>1, <1>2, <1>3, <1>4, FS_CardinalityType
<1>6. Bytes(s) \in SUBSET (Bytes(r) \cup New)
  OBVIOUS
<1>7. Total(s) <= Cardinality(Bytes(r) \cup New) /\ Total(s) \in Nat
  BY <1>4, <1>6, FS_Subset, FS_CardinalityType DEF Total
<1> QED
  BY <1>1, <1>5, <1>7

\* Taking a row out takes its size out.
LEMMA TotalWithout ==
    ASSUME NEW r, Sized(r), NEW p \in DOMAIN r, NEW n \in Nat, n = r[p].size
    PROVE  Total(Restrict(r, DOMAIN r \ {p})) + n <= Total(r)
<1> DEFINE s == Restrict(r, DOMAIN r \ {p})
           Gone == {p} \X (1 .. n)
<1>1. Sized(s) /\ DOMAIN s = DOMAIN r \ {p} /\ \A q \in DOMAIN s : s[q] = r[q]
  BY DEF Sized, Restrict
<1> HIDE DEF s
<1>2. IsFiniteSet(Bytes(s)) /\ Total(s) = Cardinality(Bytes(s)) /\ Total(s) \in Nat
  BY <1>1, BytesFinite DEF Total
<1>3. IsFiniteSet(Gone) /\ Cardinality(Gone) = n
  BY OneRow
<1>4. Bytes(s) \cap Gone = {}
  BY <1>1, BytesOf
<1>5. Cardinality(Bytes(s) \cap Gone) = 0
  BY <1>4, FS_EmptySet
<1>6. Cardinality(Bytes(s) \cup Gone) = Total(s) + n
  <2>1. Cardinality(Bytes(s) \cup Gone)
            = Cardinality(Bytes(s)) + Cardinality(Gone) - Cardinality(Bytes(s) \cap Gone)
    BY <1>2, <1>3, FS_Union
  <2> QED
    BY <1>2, <1>3, <1>5, <2>1
<1>7. Bytes(s) \cup Gone \in SUBSET Bytes(r)
  <2>1. ASSUME NEW b \in Bytes(s) PROVE b \in Bytes(r)
    BY <1>1, <2>1, BytesOf
  <2>2. ASSUME NEW b \in Gone PROVE b \in Bytes(r)
    BY <2>2, BytesOf
  <2> QED
    BY <2>1, <2>2
<1>8. IsFiniteSet(Bytes(r))
  BY BytesFinite
<1>9. Cardinality(Bytes(s) \cup Gone) <= Total(r)
  BY <1>7, <1>8, FS_Subset DEF Total
<1> QED
  BY <1>6, <1>9 DEF s

-----------------------------------------------------------------------------
\* A row that is written keeps the rows well-formed.
RowsOK(r) ==
    /\ DOMAIN r \subseteq Paths
    /\ \A p \in DOMAIN r :
          r[p] \in [size : Sizes \cup {1}, by : {"student", "starter", "lab"}]

LEMMA RowsOKSized == ASSUME NEW r, RowsOK(r) PROVE Sized(r)
BY DEF RowsOK, Sized

LEMMA WithOK ==
    ASSUME NEW r, RowsOK(r), NEW p \in Paths, NEW n \in Sizes \cup {1},
           NEW by \in {"student", "starter", "lab"}
    PROVE  /\ RowsOK(With(r, p, Row(n, by)))
           /\ DOMAIN With(r, p, Row(n, by)) = DOMAIN r \cup {p}
<1>1. Row(n, by) \in [size : Sizes \cup {1}, by : {"student", "starter", "lab"}]
  BY DEF Row
<1> QED
  BY <1>1 DEF RowsOK, With

LEMMA SeededOK ==
    ASSUME RowsOK(rows)
    PROVE  /\ RowsOK(Seeded(Due)) /\ Due \subseteq Starters
           /\ DOMAIN Seeded(Due) = DOMAIN rows \cup Due
<1>1. Due \subseteq Starters
  BY DEF Due, Eligible, Released
<1>2. Due \subseteq Paths
  BY <1>1 DEF Paths, Files
<1>3. Row(1, "starter") \in [size : Sizes \cup {1}, by : {"student", "starter", "lab"}]
  BY DEF Row
<1> QED
  BY <1>1, <1>2, <1>3 DEF RowsOK, Seeded

OthersOK ==
    /\ marker \in [version : 0 .. MaxVersion, seeded : SUBSET Starters]
    /\ h3Video \in BOOLEAN /\ version \in 1 .. MaxVersion /\ member \in BOOLEAN
    /\ offered \in [Starters -> [1 .. MaxVersion -> Nat]]

MarkerHasRow == marker.version > 0 <=> Marker \in DOMAIN rows

LEMMA TypeParts == WorkspaceTypeOK <=> RowsOK(rows) /\ OthersOK /\ MarkerHasRow
BY DEF WorkspaceTypeOK, RowsOK, OthersOK, MarkerHasRow

LEMMA TypesInit == WorkspaceInit => WorkspaceTypeOK
<1> SUFFICES ASSUME WorkspaceInit PROVE WorkspaceTypeOK
  OBVIOUS
<1>1. RowsOK(rows) /\ Marker \notin DOMAIN rows
  BY DEF WorkspaceInit, RowsOK
<1>2. OthersOK /\ ~(marker.version > 0)
  <2>1. 1 \in 1 .. MaxVersion /\ 0 \in 0 .. MaxVersion
    BY WorkspaceAssumption
  <2>2. marker \in [version : 0 .. MaxVersion, seeded : SUBSET Starters]
    BY <2>1 DEF WorkspaceInit
  <2>3. ~(marker.version > 0)
    BY DEF WorkspaceInit
  <2> QED
    BY <2>1, <2>2, <2>3 DEF WorkspaceInit, OthersOK
<1> QED
  BY <1>1, <1>2, TypeParts DEF MarkerHasRow

\* A step that writes rows and no marker.
LEMMA PlainRows ==
    ASSUME WorkspaceTypeOK, RowsOK(rows'), OthersOK', UNCHANGED marker,
           Marker \in DOMAIN rows' <=> Marker \in DOMAIN rows
    PROVE  WorkspaceTypeOK'
<1>1. RowsOK(rows)' /\ MarkerHasRow'
  BY TypeParts DEF RowsOK, MarkerHasRow
<1> QED
  BY <1>1, TypeParts, PTL

LEMMA TypesSave ==
    ASSUME WorkspaceTypeOK, NEW p \in Files \cup {Settings}, NEW n \in Sizes, Save(p, n)
    PROVE  WorkspaceTypeOK'
<1>1. p \in Paths /\ p # Marker
  BY Names DEF Paths
<1>2. RowsOK(rows') /\ DOMAIN rows' = DOMAIN rows \cup {p}
  BY <1>1, WithOK, TypeParts DEF Save
<1>3. OthersOK' /\ UNCHANGED marker
  BY TypeParts DEF Save, OthersOK
<1> QED
  BY <1>1, <1>2, <1>3, PlainRows

LEMMA TypesDelete ==
    ASSUME WorkspaceTypeOK, NEW p \in Files, Delete(p)
    PROVE  WorkspaceTypeOK'
<1>1. RowsOK(rows') /\ DOMAIN rows' = DOMAIN rows \ {p}
  BY TypeParts DEF Delete, Restrict, RowsOK
<1>2. OthersOK' /\ UNCHANGED marker
  BY TypeParts DEF Delete, OthersOK
<1> QED
  BY <1>1, <1>2, Names, PlainRows

LEMMA TypesMove ==
    ASSUME WorkspaceTypeOK, NEW p \in Files, NEW q \in Files, Move(p, q)
    PROVE  WorkspaceTypeOK'
<1>1. p \in Paths /\ q \in Paths /\ p # Marker /\ q # Marker /\ p \in DOMAIN rows
  BY Names DEF Paths, Move
<1>2. /\ DOMAIN rows' = (DOMAIN rows \cup {q}) \ ({p} \ {q})
      /\ \A x \in DOMAIN rows' : rows'[x] = IF x = q THEN rows[p] ELSE rows[x]
  BY DEF Move, Restrict, With
<1>3. RowsOK(rows')
  BY <1>1, <1>2, TypeParts DEF RowsOK
<1>4. OthersOK' /\ UNCHANGED marker
  BY TypeParts DEF Move, OthersOK
<1> QED
  BY <1>1, <1>2, <1>3, <1>4, PlainRows

LEMMA TypesSetGrant ==
    ASSUME WorkspaceTypeOK, NEW granted \in BOOLEAN, SetGrant(granted)
    PROVE  WorkspaceTypeOK'
<1>1. Grants \in Paths /\ Grants # Marker
  BY Names DEF Paths
<1>2. RowsOK(rows') /\ DOMAIN rows' = DOMAIN rows \cup {Grants}
  BY <1>1, WithOK, TypeParts DEF SetGrant
<1>3. OthersOK' /\ UNCHANGED marker
  BY TypeParts DEF SetGrant, OthersOK
<1> QED
  BY <1>1, <1>2, <1>3, PlainRows

LEMMA TypesEnter == ASSUME WorkspaceTypeOK, Enter PROVE WorkspaceTypeOK'
<1>1. Marker \in Paths
  BY DEF Paths
<1>2. RowsOK(Seeded(Due)) /\ Due \subseteq Starters
  BY SeededOK, TypeParts
<1>3. RowsOK(rows') /\ Marker \in DOMAIN rows'
  <2>1. rows' = With(Seeded(Due), Marker, Row(1, "lab"))
    BY DEF Enter
  <2>2. RowsOK(With(Seeded(Due), Marker, Row(1, "lab")))
    <3>1. 1 \in Sizes \cup {1} /\ "lab" \in {"student", "starter", "lab"}
      OBVIOUS
    <3> QED
      BY <1>1, <1>2, <3>1, WithOK
  <2>3. Marker \in DOMAIN With(Seeded(Due), Marker, Row(1, "lab"))
    BY DEF With
  <2> QED
    BY <2>1, <2>2, <2>3
<1>4. version \in 1 .. MaxVersion /\ MaxVersion \in Nat /\ marker.seeded \subseteq Starters
  BY WorkspaceAssumption DEF WorkspaceTypeOK
<1>5. marker' = [version |-> version, seeded |-> marker.seeded \cup Due]
  BY DEF Enter
<1>6. marker' \in [version : 0 .. MaxVersion, seeded : SUBSET Starters] /\ marker'.version = version
  BY <1>2, <1>4, <1>5
<1>7. offered' \in [Starters -> [1 .. MaxVersion -> Nat]]
  <2>1. offered \in [Starters -> [1 .. MaxVersion -> Nat]]
    BY DEF WorkspaceTypeOK
  <2>2. \A s \in Starters, v \in 1 .. MaxVersion : offered[s][v] \in Nat
    BY <2>1
  <2>3. offered' = Placed(Due)
    BY DEF Enter
  <2> QED
    BY <2>2, <2>3 DEF Placed
<1>8. OthersOK'
  BY <1>6, <1>7, TypeParts DEF Enter, OthersOK
<1>9. version > 0
  BY <1>4
<1>10. RowsOK(rows)' /\ MarkerHasRow'
  BY <1>3, <1>6, <1>9 DEF RowsOK, MarkerHasRow
<1> QED
  BY <1>8, <1>10, TypeParts, PTL

LEMMA NextTypes == WorkspaceTypeOK /\ [WorkspaceNext]_workspaceVars => WorkspaceTypeOK'
<1> SUFFICES ASSUME WorkspaceTypeOK, [WorkspaceNext]_workspaceVars PROVE WorkspaceTypeOK'
  OBVIOUS
<1>1. CASE Release
  BY <1>1, WorkspaceAssumption DEF WorkspaceTypeOK, Release
<1>2. CASE ChangeMembership
  BY <1>2 DEF WorkspaceTypeOK, ChangeMembership
<1>3. CASE UNCHANGED workspaceVars
  BY <1>3 DEF WorkspaceTypeOK, workspaceVars
<1> QED
  BY <1>1, <1>2, <1>3, TypesSave, TypesDelete, TypesMove, TypesSetGrant, TypesEnter
  DEF WorkspaceNext, SaveSettings

\* Rows, marker and history keep their types, and the marker has a row.
THEOREM WorkspaceTypeCorrect == WorkspaceSpec => []WorkspaceTypeOK
<1> QED
  BY TypesInit, NextTypes, PTL DEF WorkspaceSpec

-----------------------------------------------------------------------------
(* What a step leaves to be counted. *)

CountedRows(r) == Restrict(r, DOMAIN r \ {Grants})

\* Writing a row that fits leaves what is counted within the quota.
LEMMA FittingRow ==
    ASSUME NEW r, RowsOK(r), NEW p \in Paths, p # Grants, NEW n \in Sizes \cup {1},
           NEW by \in {"student", "starter", "lab"}, Fits(r, p, n)
    PROVE  Total(CountedRows(With(r, p, Row(n, by)))) <= Quota
<1> DEFINE rest == Restrict(r, DOMAIN r \ {p})
           new  == CountedRows(With(r, p, Row(n, by)))
<1>1. n \in Nat /\ Quota \in Nat
  BY SizesAreNumbers, WorkspaceAssumption
<1>2. Sized(rest) /\ DOMAIN rest = DOMAIN r \ {p} /\ \A q \in DOMAIN rest : rest[q] = r[q]
  BY RowsOKSized DEF Sized, Restrict
<1>3. /\ DOMAIN new \subseteq DOMAIN r \cup {p}
      /\ \A q \in DOMAIN new : IF q = p THEN new[q].size = n ELSE new[q] = r[q]
  BY DEF CountedRows, With, Restrict, Row
<1>4. Total(rest) + n <= Quota
  BY DEF Fits
<1> HIDE DEF rest, new
<1>5. Bytes(new) \subseteq Bytes(rest) \cup ({p} \X (1 .. n))
  <2> SUFFICES ASSUME NEW b \in Bytes(new) PROVE b \in Bytes(rest) \cup ({p} \X (1 .. n))
    OBVIOUS
  <2>1. PICK q \in DOMAIN new : b \in {q} \X (1 .. new[q].size)
    BY BytesOf
  <2>2. CASE q = p
    BY <1>3, <2>1, <2>2
  <2>3. CASE q # p
    <3>1. q \in DOMAIN rest /\ rest[q] = new[q]
      BY <1>2, <1>3, <2>1, <2>3
    <3> QED
      BY <2>1, <3>1, BytesOf
  <2> QED
    BY <2>2, <2>3
<1>6. Total(new) <= Total(rest) + n
  BY <1>1, <1>2, <1>5, TotalWith
<1>7. Total(rest) \in Nat
  BY <1>2, BytesFinite
<1>8. Total(new) \in Nat
  <2>1. RowsOK(With(r, p, Row(n, by)))
    BY WithOK
  <2>2. Sized(new)
    BY <2>1, RowsOKSized DEF Sized, CountedRows, Restrict, new
  <2> QED
    BY <2>2, BytesFinite
<1>9. Total(new) <= Quota
  BY <1>1, <1>4, <1>6, <1>7, <1>8
<1> QED
  BY <1>9 DEF new

LEMMA CountedSized ==
    ASSUME WorkspaceTypeOK
    PROVE  /\ Sized(Counted) /\ Total(Counted) \in Nat
           /\ DOMAIN Counted = DOMAIN rows \ {Grants}
           /\ \A p \in DOMAIN Counted : Counted[p] = rows[p]
           /\ Counted = CountedRows(rows)
<1>1. /\ Sized(Counted) /\ DOMAIN Counted = DOMAIN rows \ {Grants}
      /\ \A p \in DOMAIN Counted : Counted[p] = rows[p]
  BY TypeParts, RowsOKSized DEF Sized, Counted, Restrict
<1> QED
  BY <1>1, BytesFinite DEF Counted, CountedRows

\* A step that changes no counted row, or takes some away.
LEMMA FewerRows ==
    ASSUME WorkspaceTypeOK, QuotaHolds,
           DOMAIN rows' \ {Grants} \subseteq DOMAIN rows,
           \A p \in DOMAIN rows' \ {Grants} : rows'[p] = rows[p]
    PROVE  Total(CountedRows(rows')) <= Quota
<1> DEFINE new == CountedRows(rows')
<1>1. /\ DOMAIN new \subseteq DOMAIN Counted
      /\ \A p \in DOMAIN new : new[p] = Counted[p]
  BY CountedSized DEF CountedRows, Restrict
<1>2. Sized(new)
  BY <1>1, CountedSized DEF Sized
<1> HIDE DEF new
<1>3. Bytes(new) \subseteq Bytes(Counted)
  BY <1>1, BytesOf
<1>4. Total(new) <= Total(Counted) /\ Total(new) \in Nat /\ Total(Counted) \in Nat
  BY <1>2, <1>3, TotalGrows, CountedSized, BytesFinite
<1>5. Total(new) <= Quota
  BY <1>4, WorkspaceAssumption DEF QuotaHolds
<1> QED
  BY <1>5 DEF new

\* A file that moves takes its bytes along, and those of the file it replaces go.
LEMMA MovedRow ==
    ASSUME WorkspaceTypeOK, QuotaHolds, NEW p \in Files, NEW q \in Files, p # q, Move(p, q)
    PROVE  Total(CountedRows(rows')) <= Quota
<1> DEFINE rest == Restrict(Counted, DOMAIN Counted \ {p})
           new  == CountedRows(rows')
<1>1. p \in DOMAIN rows /\ p \in DOMAIN Counted /\ q # Grants /\ q \in Paths
  BY Names, CountedSized DEF Move, Paths
<1>2. PICK n \in Nat : n = rows[p].size
  <2>1. rows[p].size \in Sizes \cup {1}
    BY <1>1, TypeParts, RowsOKSized DEF Sized
  <2> QED
    BY <2>1, SizesAreNumbers
<1>3. Total(rest) + n <= Total(Counted)
  BY <1>1, <1>2, CountedSized, TotalWithout
<1>4. Sized(rest) /\ DOMAIN rest = DOMAIN Counted \ {p} /\ \A x \in DOMAIN rest : rest[x] = rows[x]
  BY CountedSized DEF Sized, Restrict
<1>5. /\ DOMAIN new = ((DOMAIN rows \cup {q}) \ {p}) \ {Grants}
      /\ \A x \in DOMAIN new : new[x] = IF x = q THEN rows[p] ELSE rows[x]
  <2>1. /\ DOMAIN rows' = (DOMAIN rows \cup {q}) \ {p}
        /\ \A x \in DOMAIN rows' : rows'[x] = IF x = q THEN rows[p] ELSE rows[x]
    BY DEF Move, Restrict, With
  <2> QED
    BY <2>1 DEF CountedRows, Restrict
<1> DEFINE others == Restrict(rest, DOMAIN rest \ {q})
<1>6. /\ Sized(others) /\ q \notin DOMAIN others /\ DOMAIN others = DOMAIN rest \ {q}
      /\ \A x \in DOMAIN others : others[x] = rows[x]
  BY <1>4 DEF Sized, Restrict
<1> HIDE DEF rest, new, others
<1>7. Bytes(others) \subseteq Bytes(rest)
  BY <1>4, <1>6, BytesOf
<1>8. Total(others) <= Total(rest) /\ Total(others) \in Nat /\ Total(rest) \in Nat
  BY <1>4, <1>6, <1>7, TotalGrows, BytesFinite
<1>9. Bytes(new) \subseteq Bytes(others) \cup ({q} \X (1 .. n))
  <2> SUFFICES ASSUME NEW b \in Bytes(new) PROVE b \in Bytes(others) \cup ({q} \X (1 .. n))
    OBVIOUS
  <2>1. PICK x \in DOMAIN new : b \in {x} \X (1 .. new[x].size)
    BY BytesOf
  <2>2. CASE x = q
    BY <1>2, <1>5, <2>1, <2>2
  <2>3. CASE x # q
    <3>1. x \in DOMAIN others /\ others[x] = new[x]
      BY <1>4, <1>5, <1>6, <2>1, <2>3, CountedSized
    <3> QED
      BY <2>1, <3>1, BytesOf
  <2> QED
    BY <2>2, <2>3
<1>10. Total(new) <= Total(others) + n
  BY <1>1, <1>6, <1>9, TotalWith
<1>11. Total(new) \in Nat
  <2>1. Sized(new)
    BY <1>1, <1>5, TypeParts, RowsOKSized DEF Sized
  <2> QED
    BY <2>1, BytesFinite
<1>12. Total(Counted) <= Quota /\ Quota \in Nat /\ Total(Counted) \in Nat
  BY CountedSized, WorkspaceAssumption DEF QuotaHolds
<1>13. Total(new) <= Quota
  BY <1>3, <1>8, <1>10, <1>11, <1>12
<1> QED
  BY <1>13 DEF new

LEMMA NextQuota ==
    WorkspaceTypeOK /\ QuotaHolds /\ [WorkspaceNext]_workspaceVars => QuotaHolds'
<1> SUFFICES ASSUME WorkspaceTypeOK, QuotaHolds, [WorkspaceNext]_workspaceVars
             PROVE  Total(CountedRows(rows')) <= Quota
  BY DEF QuotaHolds, Counted, CountedRows, Total, Bytes, Restrict
<1>1. ASSUME NEW p \in Files \cup {Settings}, NEW n \in Sizes, Save(p, n)
      PROVE  Total(CountedRows(rows')) <= Quota
  <2>1. p \in Paths /\ p # Grants
    BY Names DEF Paths
  <2> QED
    BY <1>1, <2>1, TypeParts, FittingRow DEF Save
<1>2. ASSUME NEW p \in Files, Delete(p) PROVE Total(CountedRows(rows')) <= Quota
  BY <1>2, FewerRows DEF Delete, Restrict
<1>3. ASSUME NEW p \in Files, NEW q \in Files, Move(p, q)
      PROVE  Total(CountedRows(rows')) <= Quota
  <2>1. CASE p = q
    BY <1>3, <2>1, FewerRows DEF Move, Restrict, With
  <2>2. CASE p # q
    BY <1>3, <2>2, MovedRow
  <2> QED
    BY <2>1, <2>2
<1>4. ASSUME NEW granted \in BOOLEAN, SetGrant(granted)
      PROVE  Total(CountedRows(rows')) <= Quota
  BY <1>4, FewerRows DEF SetGrant, With
<1>5. CASE Enter
  <2>1. RowsOK(Seeded(Due))
    BY TypeParts, SeededOK
  <2>2. Marker \in Paths /\ Marker # Grants
    BY Names DEF Paths
  <2>3. Total(CountedRows(With(Seeded(Due), Marker, Row(1, "lab")))) <= Quota
    BY <1>5, <2>1, <2>2, FittingRow DEF Enter
  <2> QED
    BY <1>5, <2>3 DEF Enter
<1>6. CASE Release \/ ChangeMembership \/ UNCHANGED workspaceVars
  BY <1>6, FewerRows DEF Release, ChangeMembership, workspaceVars
<1> QED
  BY <1>1, <1>2, <1>3, <1>4, <1>5, <1>6 DEF WorkspaceNext, SaveSettings

\* Whatever is saved, moved onto other files and seeded, in any order: what the
\* student and the starters take stays within the quota.
THEOREM QuotaIsKept == WorkspaceSpec => []QuotaHolds
<1>1. WorkspaceInit => QuotaHolds
  <2> SUFFICES ASSUME WorkspaceInit PROVE Total(Counted) <= Quota
    BY DEF QuotaHolds
  <2>1. Bytes(Counted) = {}
    BY BytesOf DEF WorkspaceInit, Counted, Restrict
  <2> QED
    BY <2>1, FS_EmptySet, WorkspaceAssumption DEF Total
<1> QED
  BY <1>1, NextQuota, WorkspaceTypeCorrect, PTL DEF WorkspaceSpec
=============================================================================
