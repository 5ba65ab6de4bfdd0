--------------------------- MODULE FoldersProofs ---------------------------
(***************************************************************************)
(* Lemmas about the statements on the folders table and about the test     *)
(* that a chain of folders resolves, for tables of any size: what they     *)
(* return, what they leave alone, and what they do to the paths.  The      *)
(* proofs about FolderService and FolderTransactions rest on them.         *)
(***************************************************************************)
EXTENDS Folders, SequenceTheorems, FunctionTheorems, FiniteSetTheorems,
  WellFoundedInduction, TLAPS

\* The facts about a row that the proofs keep needing.
LEMMA RowType ==
  ASSUME NEW t \in Tables, NEW f \in FolderIds
  PROVE  /\ t[f] \in FolderRecords
         /\ t[f].path \in Seq(FolderIds)
         /\ Len(t[f].path) \in Nat
         /\ t[f].parent \in FolderIds \cup {0}
BY DEF Tables, FolderRecords

LEMMA PathInType ==
  ASSUME NEW s \in Seq(FolderIds), NEW f \in FolderIds
  PROVE  /\ Append(s, f) \in Seq(FolderIds)
         /\ Append(s, f) # <<>>
         /\ Len(Append(s, f)) = Len(s) + 1
         /\ Last(Append(s, f)) = f
         /\ \A i \in 1 .. Len(s) : Append(s, f)[i] = s[i]
BY AppendProperties DEF Last

\* The part of a path after its first n ids.
LEMMA RestType ==
  ASSUME NEW s \in Seq(FolderIds), NEW n \in Nat, n <= Len(s)
  PROVE  /\ SubSeq(s, n + 1, Len(s)) \in Seq(FolderIds)
         /\ Len(SubSeq(s, n + 1, Len(s))) = Len(s) - n
         /\ \A i \in 1 .. Len(s) - n : SubSeq(s, n + 1, Len(s))[i] = s[n + i]
<1>1. Len(s) \in Nat /\ \A i \in n + 1 .. Len(s) : s[i] \in FolderIds
  OBVIOUS
<1>2. CASE n = Len(s)
  BY <1>1, <1>2, SubSeqEmpty
<1>3. CASE n < Len(s)
  <2>1. /\ SubSeq(s, n + 1, Len(s)) \in Seq(FolderIds)
        /\ Len(SubSeq(s, n + 1, Len(s))) =
             IF n + 1 <= Len(s) THEN Len(s) - (n + 1) + 1 ELSE 0
        /\ \A i \in 1 .. Len(s) - (n + 1) + 1 :
             SubSeq(s, n + 1, Len(s))[i] = s[n + 1 + i - 1]
    BY <1>1, SubSeqProperties
  <2> QED BY <1>1, <1>3, <2>1
<1> QED BY <1>1, <1>2, <1>3

\* Replacing what a path begins with keeps its last id, if the new beginning
\* ends as the old one did.
LEMMA Spliced ==
  ASSUME NEW s \in Seq(FolderIds), NEW old \in Seq(FolderIds), old # <<>>,
         NEW new \in Seq(FolderIds), new # <<>>,
         Last(new) = Last(old), IsPrefix(old, s)
  PROVE  LET r == new \o SubSeq(s, Len(old) + 1, Len(s))
         IN  r \in Seq(FolderIds) /\ r # <<>> /\ Last(r) = Last(s)
<1> DEFINE rest == SubSeq(s, Len(old) + 1, Len(s))
           r    == new \o rest
<1>1. /\ Len(old) \in Nat \ {0} /\ Len(s) \in Nat /\ Len(new) \in Nat \ {0}
      /\ Len(old) <= Len(s)
  BY EmptySeq DEF IsPrefix
<1>2. /\ rest \in Seq(FolderIds) /\ Len(rest) = Len(s) - Len(old)
      /\ \A i \in 1 .. Len(s) - Len(old) : rest[i] = s[Len(old) + i]
  BY <1>1, RestType
<1> HIDE DEF rest
<1>3. /\ r \in Seq(FolderIds) /\ Len(r) = Len(new) + Len(rest)
      /\ \A i \in 1 .. Len(new) + Len(rest) :
           r[i] = IF i <= Len(new) THEN new[i] ELSE rest[i - Len(new)]
  BY <1>2, ConcatProperties
<1> HIDE DEF r
<1>4. r # <<>> /\ Last(r) = r[Len(r)]
  BY <1>1, <1>2, <1>3 DEF Last
<1>5. CASE Len(s) = Len(old)
  <2>1. s = old
    BY <1>1, <1>5, SubSeqFull DEF IsPrefix
  <2>2. Last(r) = new[Len(new)]
    BY <1>1, <1>2, <1>3, <1>4, <1>5
  <2> QED BY <1>3, <1>4, <2>1, <2>2 DEF Last, r, rest
<1>6. CASE Len(s) > Len(old)
  <2>1. Last(r) = rest[Len(rest)]
    BY <1>1, <1>2, <1>3, <1>4, <1>6, SMTT(30)
  <2>2. Last(r) = s[Len(s)]
    BY <1>1, <1>2, <1>6, <2>1, SMTT(30)
  <2> QED BY <1>3, <1>4, <2>2 DEF Last, r, rest
<1> QED BY <1>1, <1>5, <1>6

\* What MoveFolder's transaction does: a table, no other column than parent
\* and path, the path of f and those of live rows below its old place.
LEMMA MovedType ==
  ASSUME NEW t \in Tables, NEW f \in FolderIds, NEW parent \in FolderIds \cup {0},
         NEW path \in Seq(FolderIds)
  PROVE  /\ Moved(t, f, parent, path) \in Tables
         /\ \A g \in FolderIds :
              /\ Moved(t, f, parent, path)[g].state = t[g].state
              /\ Moved(t, f, parent, path)[g].inherit = t[g].inherit
              /\ Moved(t, f, parent, path)[g].parent =
                   IF g = f THEN parent ELSE t[g].parent
<1> DEFINE u   == [t EXCEPT ![f].parent = parent, ![f].path = path]
           old == PathIn(t, f)
           new == Append(path, f)
<1>1. u \in Tables
  BY DEF Tables, FolderRecords
<1>2. \A g \in FolderIds :
        /\ u[g].state = t[g].state /\ u[g].inherit = t[g].inherit
        /\ u[g].parent = IF g = f THEN parent ELSE t[g].parent
  BY DEF Tables, FolderRecords
<1>3. ASSUME NEW g \in FolderIds, IsPrefix(old, u[g].path)
      PROVE  new \o SubSeq(u[g].path, Len(old) + 1, Len(u[g].path)) \in Seq(FolderIds)
  <2>1. /\ old \in Seq(FolderIds) /\ old # <<>> /\ Last(old) = f
        /\ new \in Seq(FolderIds) /\ new # <<>> /\ Last(new) = f
    BY PathInType, RowType DEF PathIn
  <2>2. u[g].path \in Seq(FolderIds)
    BY <1>1, RowType
  <2> HIDE DEF old, new, u
  <2> QED BY <1>3, <2>1, <2>2, Spliced
<1> HIDE DEF u, old, new
<1>4. Moved(t, f, parent, path) =
        [g \in FolderIds |->
           IF IsLive(u, g) /\ IsPrefix(old, u[g].path)
           THEN [u[g] EXCEPT !.path = new \o SubSeq(u[g].path, Len(old) + 1, Len(u[g].path))]
           ELSE u[g]]
  BY DEF Moved, u, old, new
<1>5. ASSUME NEW g \in FolderIds
      PROVE  /\ Moved(t, f, parent, path)[g] \in FolderRecords
             /\ Moved(t, f, parent, path)[g].state = u[g].state
             /\ Moved(t, f, parent, path)[g].inherit = u[g].inherit
             /\ Moved(t, f, parent, path)[g].parent = u[g].parent
  <2>1. u[g] \in FolderRecords
    BY <1>1 DEF Tables
  <2>2. CASE IsLive(u, g) /\ IsPrefix(old, u[g].path)
    BY <1>3, <1>4, <2>1, <2>2 DEF FolderRecords
  <2>3. CASE ~ (IsLive(u, g) /\ IsPrefix(old, u[g].path))
    BY <1>4, <2>1, <2>3
  <2> QED BY <2>2, <2>3
<1>6. Moved(t, f, parent, path) \in Tables
  BY <1>4, <1>5 DEF Tables
<1> QED BY <1>2, <1>5, <1>6

\* The path of a live row ends with its parent.
RowEnds(row)      == row.parent # 0 => row.path # <<>> /\ Last(row.path) = row.parent
EndsWithParent(t) == \A f \in FolderIds : IsLive(t, f) => RowEnds(t[f])

LEMMA MovedEnds ==
  ASSUME NEW t \in Tables, EndsWithParent(t), NEW f \in FolderIds,
         NEW parent \in FolderIds, NEW path \in Seq(FolderIds),
         path # <<>>, Last(path) = parent
  PROVE  EndsWithParent(Moved(t, f, parent, path))
<1> DEFINE u   == [t EXCEPT ![f].parent = parent, ![f].path = path]
           old == PathIn(t, f)
           new == Append(path, f)
<1>1. u \in Tables
  BY ZenonT(60) DEF Tables, FolderRecords
<1>2. EndsWithParent(u)
  BY SMTT(30) DEF EndsWithParent, RowEnds, IsLive, Tables, FolderRecords
<1>3. /\ old \in Seq(FolderIds) /\ old # <<>> /\ Last(old) = f
      /\ new \in Seq(FolderIds) /\ new # <<>> /\ Last(new) = f
  BY PathInType, RowType DEF PathIn
<1>4. Moved(t, f, parent, path) =
        [g \in FolderIds |->
           IF IsLive(u, g) /\ IsPrefix(old, u[g].path)
           THEN [u[g] EXCEPT !.path = new \o SubSeq(u[g].path, Len(old) + 1, Len(u[g].path))]
           ELSE u[g]]
  BY DEF Moved, u, old, new
<1> HIDE DEF u, old, new
<1>5. SUFFICES ASSUME NEW g \in FolderIds, IsLive(Moved(t, f, parent, path), g)
               PROVE  RowEnds(Moved(t, f, parent, path)[g])
  BY DEF EndsWithParent
<1> DEFINE row == Moved(t, f, parent, path)[g]
<1>6. u[g] \in FolderRecords /\ u[g].path \in Seq(FolderIds)
  BY <1>1, RowType
<1>7. CASE IsLive(u, g) /\ IsPrefix(old, u[g].path)
  <2> DEFINE r == new \o SubSeq(u[g].path, Len(old) + 1, Len(u[g].path))
  <2>1. r # <<>> /\ Last(r) = Last(u[g].path)
    BY <1>3, <1>6, <1>7, Spliced
  <2> HIDE DEF r
  <2>2. row.path = r /\ row.parent = u[g].parent
    BY <1>4, <1>6, <1>7 DEF FolderRecords, r
  <2> QED BY <1>2, <1>7, <2>1, <2>2 DEF EndsWithParent, RowEnds
<1>8. CASE ~ (IsLive(u, g) /\ IsPrefix(old, u[g].path))
  <2>1. row = u[g]
    BY <1>4, <1>8
  <2> QED BY <1>2, <1>5, <2>1 DEF EndsWithParent, IsLive
<1> QED BY <1>7, <1>8

LEMMA CreatedTable ==
  ASSUME NEW t \in Tables, NEW f \in FolderIds, NEW parent \in FolderIds \cup {0},
         NEW path \in Seq(FolderIds), NEW inherit \in BOOLEAN
  PROVE  /\ Created(t, f, parent, path, inherit) \in Tables
         /\ Created(t, f, parent, path, inherit)[f] =
              [state |-> "live", parent |-> parent, path |-> path, inherit |-> inherit]
         /\ \A g \in FolderIds \ {f} : Created(t, f, parent, path, inherit)[g] = t[g]
BY DEF Created, Tables, FolderRecords

LEMMA CreatedEnds ==
  ASSUME NEW t \in Tables, EndsWithParent(t), NEW f \in FolderIds,
         NEW parent \in FolderIds, NEW path \in Seq(FolderIds), NEW inherit \in BOOLEAN,
         path # <<>>, Last(path) = parent
  PROVE  EndsWithParent(Created(t, f, parent, path, inherit))
<1> SUFFICES ASSUME NEW g \in FolderIds, IsLive(Created(t, f, parent, path, inherit), g)
             PROVE  RowEnds(Created(t, f, parent, path, inherit)[g])
  BY DEF EndsWithParent
<1>1. CASE g = f
  <2>1. Created(t, f, parent, path, inherit)[f] =
          [state |-> "live", parent |-> parent, path |-> path, inherit |-> inherit]
    BY CreatedTable
  <2> QED BY <1>1, <2>1 DEF RowEnds
<1>2. CASE g # f
  <2>1. Created(t, f, parent, path, inherit)[g] = t[g]
    BY <1>2 DEF Created, Tables
  <2> QED BY <2>1 DEF EndsWithParent, IsLive
<1> QED BY <1>1, <1>2

\* A deletion changes the state of live rows, and no other column.
LEMMA DeletedTable ==
  ASSUME NEW t \in Tables, NEW f \in FolderIds
  PROVE  /\ Deleted(t, f) \in Tables
         /\ \A g \in FolderIds :
              /\ Deleted(t, f)[g].parent = t[g].parent
              /\ Deleted(t, f)[g].path = t[g].path
              /\ Deleted(t, f)[g].inherit = t[g].inherit
              /\ Deleted(t, f)[g].state =
                   IF IsLive(t, g) /\ g \in {f} \cup Below(t, f)
                   THEN "deleted" ELSE t[g].state
BY DEF Deleted, Tables, FolderRecords

LEMMA DeletedEnds ==
  ASSUME NEW t \in Tables, EndsWithParent(t), NEW f \in FolderIds
  PROVE  EndsWithParent(Deleted(t, f))
BY DeletedTable, SMTT(30) DEF EndsWithParent, RowEnds, IsLive

\* A chain with a folder that is not live does not resolve: the live ones
\* among its ids are fewer than the chain is long.
LEMMA Unresolved ==
  ASSUME NEW t \in Tables, NEW chain \in Seq(FolderIds), NEW k \in 1 .. Len(chain),
         ~ IsLive(t, chain[k])
  PROVE  ~ AllLive(t, chain)
<1> DEFINE n == Len(chain)
           I == {i \in 1 .. n : IsLive(t, chain[i])}
           L == {g \in ToSet(chain) : IsLive(t, g)}
           F == [i \in I |-> chain[i]]
<1>1. n \in Nat /\ DOMAIN chain = 1 .. n
  OBVIOUS
<1>2. IsFiniteSet(1 .. n) /\ Cardinality(1 .. n) = n
  BY <1>1, FS_Interval, SMTT(30)
<1>3. IsFiniteSet((1 .. n) \ {k}) /\ Cardinality((1 .. n) \ {k}) = n - 1
  BY <1>2, FS_RemoveElement, ZenonT(60)
<1>4. I \in SUBSET ((1 .. n) \ {k})
  BY SMTT(30)
<1>5. IsFiniteSet(I) /\ Cardinality(I) <= n - 1
  BY <1>3, <1>4, FS_Subset
<1>6. F \in Surjection(I, L)
  <2>1. F \in [I -> L]
    BY <1>1 DEF ToSet
  <2>2. \A g \in L : \E i \in I : F[i] = g
    BY <1>1 DEF ToSet
  <2> QED BY <2>1, <2>2, Fun_IsSurj
<1> HIDE DEF F, I, L
<1>7. IsFiniteSet(L) /\ Cardinality(L) <= Cardinality(I)
  BY <1>5, <1>6, FS_Surjection
<1>8. Cardinality(I) \in Nat /\ Cardinality(L) \in Nat
  BY <1>5, <1>7, FS_CardinalityType
<1>9. Cardinality(L) < n
  BY <1>1, <1>5, <1>7, <1>8
<1> QED BY <1>1, <1>8, <1>9 DEF AllLive, L

\* A live folder under a parent that is not live does not resolve.
LEMMA OrphanUnresolved ==
  ASSUME NEW t \in Tables, EndsWithParent(t), NEW f \in FolderIds, IsLive(t, f),
         t[f].parent # 0, ~ IsLive(t, t[f].parent)
  PROVE  ~ Resolves(t, f)
<1> DEFINE path == t[f].path
           chain == PathIn(t, f)
<1>1. path \in Seq(FolderIds) /\ path # <<>> /\ Last(path) = t[f].parent
  BY RowType DEF EndsWithParent, RowEnds
<1>2. Len(path) \in Nat \ {0}
  BY <1>1, EmptySeq
<1>3. /\ chain \in Seq(FolderIds) /\ Len(chain) = Len(path) + 1
      /\ chain[Len(path)] = path[Len(path)]
  BY <1>1, <1>2, PathInType DEF PathIn
<1>4. Len(path) \in 1 .. Len(chain) /\ ~ IsLive(t, chain[Len(path)])
  BY <1>1, <1>2, <1>3 DEF Last
<1> HIDE DEF path, chain
<1>5. ~ AllLive(t, chain)
  BY <1>3, <1>4, Unresolved
<1> QED BY <1>5 DEF Resolves, chain

-----------------------------------------------------------------------------
(* GetUserEffectivePermissions computes what inheritance means.  The loop   *)
(* is a recursive function: what it returns for a chain of any length is    *)
(* proved by induction, from the least-element form of well-foundedness.    *)

LEMMA LeastElement ==
  ASSUME NEW T \in SUBSET Nat, T # {}
  PROVE  \E x \in T : \A y \in T : x <= y
<1> DEFINE R == OpToRel(<, Nat)
<1>1. \A x, y \in Nat : <<x, y>> \in R <=> x < y
  BY DEF OpToRel
<1>2. IsWellFoundedOn(R, Nat)
  BY NatLessThanWellFounded
<1> HIDE DEF R
<1>3. PICK x \in T : \A y \in T : ~ (<<y, x>> \in R)
  BY <1>2, WFMin
<1>4. ASSUME NEW y \in T PROVE x <= y
  <2>1. x \in Nat /\ y \in Nat /\ ~ (<<y, x>> \in R)
    BY <1>3
  <2>2. ~ (y < x)
    BY <1>1, <2>1
  <2> QED BY <2>1, <2>2
<1> QED BY <1>4

\* Induction over the natural numbers, for a set.
LEMMA SetInduction ==
  ASSUME NEW T, 0 \in T, \A n \in Nat : n \in T => n + 1 \in T
  PROVE  Nat \subseteq T
<1> DEFINE U == Nat \ T
<1>1. SUFFICES ASSUME U # {} PROVE FALSE
  OBVIOUS
<1>2. PICK x \in U : \A y \in U : x <= y
  BY <1>1, LeastElement
<1>3. x # 0 /\ x - 1 \in Nat /\ x - 1 \notin U
  BY <1>2
<1> QED BY <1>2, <1>3

\* One turn of the loop adds the folder's own row to what is left of the bits
\* of the folders before it.
LEMMA GrantedAlongStep ==
  ASSUME NEW chain \in Seq(FolderIds), NEW inherit \in [FolderIds -> BOOLEAN],
         NEW perm \in [FolderIds -> SUBSET Bits], NEW n \in Nat, n < Len(chain)
  PROVE  GrantedAlong(chain, inherit, perm, n + 1) =
           AfterBreak(GrantedAlong(chain, inherit, perm, n), inherit[chain[n + 1]], n + 1)
             \cup perm[chain[n + 1]]
<1> DEFINE GA(m) == GrantedAlong(chain, inherit, perm, m)
           along(b, m) == \E i \in 1 .. m :
             b \in perm[chain[i]] /\ (b = "Admin" \/ \A j \in i + 1 .. m : inherit[chain[j]])
<1>1. n + 1 \in 1 .. Len(chain) /\ chain[n + 1] \in FolderIds
  OBVIOUS
<1>2. inherit[chain[n + 1]] \in BOOLEAN /\ perm[chain[n + 1]] \subseteq Bits
  BY <1>1
<1>3. \A m \in Nat : \A b : b \in GA(m) <=> b \in Bits /\ along(b, m)
  BY DEF GrantedAlong
<1>4. ASSUME NEW b \in Bits
      PROVE  along(b, n + 1) <=> \/ b \in perm[chain[n + 1]]
                                 \/ along(b, n) /\ (b = "Admin" \/ inherit[chain[n + 1]])
  <2>1. ASSUME along(b, n + 1), b \notin perm[chain[n + 1]]
        PROVE  along(b, n) /\ (b = "Admin" \/ inherit[chain[n + 1]])
    <3>1. PICK i \in 1 .. n + 1 :
            b \in perm[chain[i]] /\ (b = "Admin" \/ \A j \in i + 1 .. n + 1 : inherit[chain[j]])
      BY <2>1
    <3>2. i \in 1 .. n
      BY <2>1, <3>1
    <3>3. b = "Admin" \/ inherit[chain[n + 1]]
      BY <3>1, <3>2
    <3>4. b = "Admin" \/ \A j \in i + 1 .. n : inherit[chain[j]]
      BY <3>1, <3>2
    <3> QED BY <3>1, <3>2, <3>3, <3>4
  <2>2. ASSUME b \in perm[chain[n + 1]] PROVE along(b, n + 1)
    <3>1. n + 1 \in 1 .. n + 1 /\ \A j \in n + 1 + 1 .. n + 1 : inherit[chain[j]]
      OBVIOUS
    <3> QED BY <2>2, <3>1
  <2>3. ASSUME along(b, n), b = "Admin" \/ inherit[chain[n + 1]]
        PROVE  along(b, n + 1)
    <3>1. PICK i \in 1 .. n :
            b \in perm[chain[i]] /\ (b = "Admin" \/ \A j \in i + 1 .. n : inherit[chain[j]])
      BY <2>3
    <3>2. i \in 1 .. n + 1
      OBVIOUS
    <3>3. b = "Admin" \/ \A j \in i + 1 .. n + 1 : inherit[chain[j]]
      BY <2>3, <3>1
    <3> QED BY <3>1, <3>2, <3>3
  <2> QED BY <2>1, <2>2, <2>3
<1>5. n + 1 = 1 => \A b : b \notin GA(n)
  BY <1>3
<1> HIDE DEF GA, along
<1>6. \A b : b \in GA(n + 1) <=>
        b \in AfterBreak(GA(n), inherit[chain[n + 1]], n + 1) \cup perm[chain[n + 1]]
  BY <1>2, <1>3, <1>4, <1>5 DEF AfterBreak
<1> QED BY <1>6 DEF GA

\* What the loop answers for a chain of any length.
LEMMA WalkedIsGrantedAlong ==
  ASSUME NEW chain \in Seq(FolderIds), NEW inherit \in [FolderIds -> BOOLEAN],
         NEW perm \in [FolderIds -> SUBSET Bits]
  PROVE  Walked(chain, inherit, perm) = GrantedAlong(chain, inherit, perm, Len(chain))
<1> DEFINE n == Len(chain)
           GA(m) == GrantedAlong(chain, inherit, perm, m)
           turn(g, i) == AfterBreak(g, inherit[chain[i]], i) \cup perm[chain[i]]
           loop(g) == [i \in 0 .. n |-> IF i = 0 THEN {} ELSE turn(g[i - 1], i)]
           G == CHOOSE g : g = loop(g)
           H == [i \in 0 .. n |-> GA(i)]
<1>1. n \in Nat /\ GA(0) = {}
  BY DEF GrantedAlong
<1>2. \A m \in Nat : m < n => GA(m + 1) = turn(GA(m), m + 1)
  BY GrantedAlongStep
<1>3. Walked(chain, inherit, perm) = G[n]
  BY DEF Walked
<1> HIDE DEF n, GA, turn
<1>4. H = loop(H)
  <2>1. ASSUME NEW i \in 0 .. n PROVE H[i] = loop(H)[i]
    <3>1. CASE i = 0
      BY <1>1, <3>1
    <3>2. CASE i # 0
      <4>1. i - 1 \in Nat /\ i - 1 \in 0 .. n /\ i - 1 < n /\ i - 1 + 1 = i
        BY <1>1, <3>2
      <4>2. GA(i) = turn(GA(i - 1), i)
        BY <1>2, <4>1
      <4> QED BY <3>2, <4>1, <4>2
    <3> QED BY <3>1, <3>2
  <2> QED BY <2>1
<1>5. G = loop(G)
  BY <1>4
<1> HIDE DEF G, H
<1> DEFINE T == {i \in Nat : i <= n => G[i] = GA(i)}
<1>6. 0 \in T
  BY <1>1, <1>5
<1>7. ASSUME NEW m \in Nat, m \in T PROVE m + 1 \in T
  <2>1. CASE m + 1 <= n
    <3>1. m + 1 \in 0 .. n /\ m + 1 # 0 /\ m + 1 - 1 = m /\ m < n /\ m <= n
      BY <1>1, <2>1
    <3>2. \A i \in 0 .. n : G[i] = IF i = 0 THEN {} ELSE turn(G[i - 1], i)
      BY <1>5
    <3>3. G[m + 1] = turn(G[m + 1 - 1], m + 1)
      BY <3>1, <3>2
    <3>4. G[m + 1] = turn(G[m], m + 1)
      BY <3>1, <3>3
    <3>5. G[m] = GA(m)
      BY <1>7, <3>1
    <3> QED BY <1>2, <3>1, <3>4, <3>5
  <2>2. CASE ~ (m + 1 <= n)
    BY <2>2
  <2> QED BY <2>1, <2>2
<1> HIDE DEF T
<1>8. n \in T
  BY <1>1, <1>6, <1>7, SetInduction
<1>9. G[n] = GA(n)
  BY <1>1, <1>8 DEF T
<1> QED BY <1>3, <1>9 DEF GA, n

LEMMA EffectiveType ==
  ASSUME NEW t \in Tables, NEW perm \in Bitmasks, NEW f \in FolderIds
  PROVE  Effective(t, perm, f) \subseteq Bits
<1>1. PathIn(t, f) \in Seq(FolderIds)
  BY RowType, PathInType DEF PathIn
<1>2. Inherits(t) \in [FolderIds -> BOOLEAN]
  BY DEF Inherits, Tables, FolderRecords
<1>3. Effective(t, perm, f) =
        GrantedAlong(PathIn(t, f), Inherits(t), perm, Len(PathIn(t, f)))
  BY <1>1, <1>2, WalkedIsGrantedAlong DEF Effective, Bitmasks
<1> QED BY <1>3 DEF GrantedAlong

-----------------------------------------------------------------------------
(* Trees: every live folder is in a live folder and has its path below it.  *)

InTree(t, f) == t[f].parent # 0 =>
  IsLive(t, t[f].parent) /\ t[f].path = PathIn(t, t[f].parent)
Tree(t) == \A f \in FolderIds : IsLive(t, f) => InTree(t, f)

\* What a path one longer begins with.
LEMMA PrefixOfAppend ==
  ASSUME NEW s \in Seq(FolderIds), NEW old \in Seq(FolderIds), NEW q \in FolderIds
  PROVE  IsPrefix(old, Append(s, q)) <=> IsPrefix(old, s) \/ old = Append(s, q)
<1> DEFINE a == Append(s, q)
           n == Len(old)
<1>1. /\ Len(s) \in Nat /\ n \in Nat
      /\ a \in Seq(FolderIds) /\ Len(a) = Len(s) + 1
      /\ \A i \in 1 .. Len(s) : a[i] = s[i]
  BY PathInType
<1>2. SubSeq(old, 1, n) = old /\ SubSeq(a, 1, Len(a)) = a
  BY <1>1, SubSeqFull
<1>3. CASE n <= Len(s)
  <2>1. /\ SubSeq(s, 1, n) \in Seq(FolderIds) /\ Len(SubSeq(s, 1, n)) = n
        /\ \A i \in 1 .. n : SubSeq(s, 1, n)[i] = s[i]
    BY <1>1, <1>3, SubSeqProperties, SubSeqEmpty
  <2>2. /\ SubSeq(a, 1, n) \in Seq(FolderIds) /\ Len(SubSeq(a, 1, n)) = n
        /\ \A i \in 1 .. n : SubSeq(a, 1, n)[i] = a[i]
    BY <1>1, <1>3, SubSeqProperties, SubSeqEmpty
  <2>3. \A i \in 1 .. n : SubSeq(s, 1, n)[i] = SubSeq(a, 1, n)[i]
    BY <1>1, <1>3, <2>1, <2>2
  <2>4. SubSeq(s, 1, n) = SubSeq(a, 1, n)
    BY <2>1, <2>2, <2>3, SeqEqual
  <2>5. old # a
    BY <1>1, <1>3
  <2> QED BY <1>1, <1>3, <2>4, <2>5 DEF IsPrefix
<1>4. CASE n = Len(s) + 1
  BY <1>1, <1>2, <1>4 DEF IsPrefix
<1>5. CASE n > Len(s) + 1
  BY <1>1, <1>5 DEF IsPrefix
<1> QED BY <1>1, <1>3, <1>4, <1>5

\* The rest of a path one longer ends with the new id.
LEMMA RestOfAppend ==
  ASSUME NEW s \in Seq(FolderIds), NEW q \in FolderIds, NEW new \in Seq(FolderIds),
         NEW n \in Nat, n <= Len(s)
  PROVE  new \o SubSeq(Append(s, q), n + 1, Len(s) + 1) =
           Append(new \o SubSeq(s, n + 1, Len(s)), q)
<1> DEFINE a == Append(s, q)
           ra == SubSeq(a, n + 1, Len(s) + 1)
           rs == SubSeq(s, n + 1, Len(s))
           b == Append(rs, q)
<1>1. /\ Len(s) \in Nat
      /\ a \in Seq(FolderIds) /\ Len(a) = Len(s) + 1
      /\ \A i \in 1 .. Len(s) : a[i] = s[i]
      /\ a[Len(s) + 1] = q
  BY PathInType, AppendProperties
<1>2. /\ rs \in Seq(FolderIds) /\ Len(rs) = Len(s) - n
      /\ \A i \in 1 .. Len(s) - n : rs[i] = s[n + i]
  BY RestType
<1>3. /\ ra \in Seq(FolderIds) /\ Len(ra) = Len(s) + 1 - n
      /\ \A i \in 1 .. Len(s) + 1 - n : ra[i] = a[n + i]
  <2> HIDE DEF a
  <2>1. /\ n <= Len(a)
        /\ SubSeq(a, n + 1, Len(a)) \in Seq(FolderIds)
        /\ Len(SubSeq(a, n + 1, Len(a))) = Len(a) - n
        /\ \A i \in 1 .. Len(a) - n : SubSeq(a, n + 1, Len(a))[i] = a[n + i]
    BY <1>1, RestType
  <2> QED BY <1>1, <2>1
<1> HIDE DEF a, ra, rs
<1>4. /\ b \in Seq(FolderIds) /\ Len(b) = Len(rs) + 1
      /\ \A i \in 1 .. Len(rs) : b[i] = rs[i]
      /\ b[Len(rs) + 1] = q
  BY <1>2, AppendProperties
<1> HIDE DEF b
<1>5. ASSUME NEW i \in 1 .. Len(s) + 1 - n PROVE ra[i] = b[i]
  <2>1. CASE i = Len(s) + 1 - n
    BY <1>1, <1>2, <1>3, <1>4, <2>1, SMTT(30)
  <2>2. CASE i # Len(s) + 1 - n
    <3>1. i \in 1 .. Len(s) - n /\ n + i \in 1 .. Len(s)
      BY <1>1, <2>2
    <3> QED BY <1>1, <1>2, <1>3, <1>4, <3>1
  <2> QED BY <2>1, <2>2
<1>6. Len(b) = Len(s) + 1 - n
  BY <1>1, <1>2, <1>4
<1>7. ra = b
  BY <1>3, <1>4, <1>5, <1>6, SeqEqual
<1>8. rs \o <<q>> = b /\ (new \o rs) \o <<q>> = Append(new \o rs, q)
  BY <1>2, AppendIsConcat, ConcatProperties DEF b
<1>9. new \o (rs \o <<q>>) = (new \o rs) \o <<q>>
  <2>1. <<q>> \in Seq(FolderIds)
    OBVIOUS
  <2> QED BY <1>2, <2>1, ConcatAssociative
<1> QED BY <1>7, <1>8, <1>9 DEF ra, rs, a

\* A path that begins with new where it began with n ids of something else.
Splice(new, s, n) == new \o SubSeq(s, n + 1, Len(s))

LEMMA SpliceOfAppend ==
  ASSUME NEW s \in Seq(FolderIds), NEW q \in FolderIds, NEW new \in Seq(FolderIds),
         NEW n \in Nat, n <= Len(s)
  PROVE  Splice(new, Append(s, q), n) = Append(Splice(new, s, n), q)
<1>1. Len(Append(s, q)) = Len(s) + 1
  BY PathInType
<1>2. Splice(new, Append(s, q), n) = new \o SubSeq(Append(s, q), n + 1, Len(s) + 1)
  BY <1>1 DEF Splice
<1>3. new \o SubSeq(Append(s, q), n + 1, Len(s) + 1) =
        Append(new \o SubSeq(s, n + 1, Len(s)), q)
  BY RestOfAppend
<1> QED BY <1>2, <1>3 DEF Splice

\* A move into a live folder outside the moved subtree keeps a tree a tree:
\* every path below is rewritten, and no other.
LEMMA MovedTree ==
  ASSUME NEW t \in Tables, Tree(t), NEW f \in FolderIds, IsLive(t, f),
         NEW p \in FolderIds, IsLive(t, p), p # f, p \notin Below(t, f)
  PROVE  Tree(Moved(t, f, p, PathIn(t, p)))
<1> DEFINE path == PathIn(t, p)
           u    == [t EXCEPT ![f].parent = p, ![f].path = path]
           old  == PathIn(t, f)
           new  == Append(path, f)
           m    == Moved(t, f, p, path)
           under(g) == IsLive(u, g) /\ IsPrefix(old, u[g].path)
<1>1. /\ t[p].path \in Seq(FolderIds) /\ t[f].path \in Seq(FolderIds)
      /\ path \in Seq(FolderIds) /\ path # <<>> /\ Last(path) = p
      /\ old \in Seq(FolderIds) /\ old # <<>> /\ Last(old) = f
      /\ Len(old) = Len(t[f].path) + 1
      /\ new \in Seq(FolderIds)
  BY RowType, PathInType DEF PathIn
<1>2. u[f].path = path /\ u[f].parent = p /\ u[f].state = "live"
  BY DEF Tables, FolderRecords, IsLive
<1>3. \A g \in FolderIds : g # f => u[g] = t[g]
  BY DEF Tables
<1>4. /\ m \in Tables
      /\ \A g \in FolderIds : /\ m[g].state = t[g].state
                              /\ m[g].parent = IF g = f THEN p ELSE t[g].parent
  BY <1>1, MovedType
<1>5. m = [g \in FolderIds |->
             IF under(g)
             THEN [u[g] EXCEPT !.path = Splice(new, u[g].path, Len(old))]
             ELSE u[g]]
  BY DEF Moved, Splice
<1>6. u \in Tables
  BY <1>1, ZenonT(60) DEF Tables, FolderRecords
<1>7. /\ \A g \in FolderIds : under(g) =>
             m[g].path = Splice(new, u[g].path, Len(old))
      /\ \A g \in FolderIds : ~ under(g) => m[g].path = u[g].path
  BY <1>5, <1>6 DEF Tables, FolderRecords
<1>8. ~ IsPrefix(old, t[p].path)
  BY DEF Below, Exists, IsLive
<1>9. ~ IsPrefix(old, path)
  BY <1>1, <1>8, PrefixOfAppend DEF PathIn
<1> HIDE DEF u, old, new, m, path
<1>10. SUFFICES ASSUME NEW g \in FolderIds, IsLive(m, g), m[g].parent # 0
                PROVE  IsLive(m, m[g].parent) /\ m[g].path = PathIn(m, m[g].parent)
  BY DEF Tree, InTree, m, path
<1>11. CASE g = f
  <2>1. m[g].parent = p /\ IsLive(m, p)
    BY <1>4, <1>11 DEF IsLive
  <2>2. m[g].path = path
    BY <1>2, <1>7, <1>9, <1>11
  <2>3. m[p].path = t[p].path
    BY <1>3, <1>7, <1>8
  <2> QED BY <2>1, <2>2, <2>3 DEF PathIn, path
<1>12. CASE g # f
  <2> DEFINE q == t[g].parent
  <2>1. m[g].parent = q /\ IsLive(t, g) /\ u[g] = t[g] /\ IsLive(u, g)
    BY <1>3, <1>4, <1>10, <1>12 DEF IsLive
  <2>2. IsLive(t, q) /\ t[g].path = Append(t[q].path, q) /\ q \in FolderIds
    BY <1>10, <2>1 DEF Tree, InTree, IsLive, PathIn
  <2>3. IsLive(m, q) /\ IsLive(u, q)
    BY <1>2, <1>3, <1>4, <2>2 DEF IsLive
  <2>4. t[q].path \in Seq(FolderIds) /\ Len(t[q].path) \in Nat
    BY <2>2, RowType
  <2> HIDE DEF q
  <2>5. CASE IsPrefix(old, t[g].path)
    <3>1. m[g].path = Splice(new, t[g].path, Len(old))
      BY <1>7, <2>1, <2>5
    <3>2. CASE old = t[g].path
      <4>1. q = f
        BY <1>1, <2>2, <2>4, <3>2, PathInType
      <4>2. m[g].path = new
        <5>1. SubSeq(old, Len(old) + 1, Len(old)) = <<>>
          BY <1>1, SubSeqEmpty
        <5> QED BY <1>1, <3>1, <3>2, <5>1, ConcatEmptySeq DEF Splice
      <4>3. m[f].path = path
        BY <1>2, <1>7, <1>9
      <4> QED BY <2>1, <2>3, <4>1, <4>2, <4>3 DEF PathIn, new
    <3>3. CASE old # t[g].path
      <4>1. IsPrefix(old, t[q].path)
        BY <1>1, <2>2, <2>4, <2>5, <3>3, PrefixOfAppend
      <4>2. Len(old) \in Nat /\ Len(old) <= Len(t[q].path)
        BY <1>1, <4>1 DEF IsPrefix
      <4>3. q # f
        BY <1>1, <4>2
      <4>4. m[q].path = Splice(new, t[q].path, Len(old))
        BY <1>3, <1>7, <2>2, <2>3, <4>1, <4>3
      <4>5. Splice(new, Append(t[q].path, q), Len(old)) =
              Append(Splice(new, t[q].path, Len(old)), q)
        <5>1. q \in FolderIds
          BY <2>2
        <5>2. t[q].path \in Seq(FolderIds)
          BY <2>4
        <5>3. Len(old) \in Nat /\ Len(old) <= Len(t[q].path)
          BY <4>2
        <5>4. new \in Seq(FolderIds)
          BY <1>1
        <5> QED BY <5>1, <5>2, <5>3, <5>4, SpliceOfAppend
      <4>6. m[g].path = Append(m[q].path, q)
        BY <2>2, <3>1, <4>4, <4>5
      <4> QED BY <2>1, <2>3, <4>6 DEF PathIn
    <3> QED BY <3>2, <3>3
  <2>6. CASE ~ IsPrefix(old, t[g].path)
    <3>1. m[g].path = t[g].path
      BY <1>7, <2>1, <2>6
    <3>2. ~ IsPrefix(old, t[q].path) /\ old # Append(t[q].path, q)
      <4>1. ~ IsPrefix(old, Append(t[q].path, q))
        BY <2>2, <2>6
      <4> QED BY <1>1, <2>2, <2>4, <4>1, PrefixOfAppend
    <3>3. q # f
      BY <3>2 DEF old, PathIn
    <3>4. m[q].path = t[q].path
      BY <1>3, <1>7, <2>2, <3>2, <3>3
    <3> QED BY <2>1, <2>2, <2>3, <3>1, <3>4 DEF PathIn
  <2> QED BY <2>5, <2>6
<1> QED BY <1>11, <1>12

\* A new folder in a live one.
LEMMA CreatedTree ==
  ASSUME NEW t \in Tables, Tree(t), NEW f \in FolderIds, ~ Exists(t, f),
         NEW p \in FolderIds, IsLive(t, p), NEW inherit \in BOOLEAN
  PROVE  Tree(Created(t, f, p, PathIn(t, p), inherit))
<1> DEFINE c == Created(t, f, p, PathIn(t, p), inherit)
<1>1. PathIn(t, p) \in Seq(FolderIds)
  BY RowType, PathInType DEF PathIn
<1>2. /\ c[f] = [state |-> "live", parent |-> p, path |-> PathIn(t, p), inherit |-> inherit]
      /\ \A g \in FolderIds \ {f} : c[g] = t[g]
  BY <1>1, CreatedTable
<1>3. p # f
  BY DEF Exists, IsLive
<1> HIDE DEF c
<1>4. \A q \in FolderIds : IsLive(t, q) => q # f /\ c[q] = t[q] /\ IsLive(c, q)
  BY <1>2 DEF Exists, IsLive
<1>5. ASSUME NEW g \in FolderIds, IsLive(c, g) PROVE InTree(c, g)
  <2>1. CASE g = f
    <3>1. c[g].parent = p /\ c[g].path = PathIn(t, p)
      BY <1>2, <2>1
    <3>2. IsLive(c, p) /\ PathIn(c, p) = PathIn(t, p)
      BY <1>4 DEF PathIn
    <3> QED BY <3>1, <3>2 DEF InTree
  <2>2. CASE g # f
    <3>1. c[g] = t[g] /\ IsLive(t, g)
      BY <1>2, <1>5, <2>2 DEF IsLive
    <3>2. InTree(t, g)
      BY <3>1 DEF Tree
    <3>3. t[g].parent # 0 => t[g].parent \in FolderIds /\ c[t[g].parent] = t[t[g].parent]
      BY <1>4, <3>2 DEF InTree, IsLive
    <3> QED BY <1>4, <3>1, <3>2, <3>3 DEF InTree, PathIn
  <2> QED BY <2>1, <2>2
<1> QED BY <1>5 DEF Tree, c

\* A deletion takes everything below with it.
LEMMA DeletedTree ==
  ASSUME NEW t \in Tables, Tree(t), NEW f \in FolderIds
  PROVE  Tree(Deleted(t, f))
<1> DEFINE d   == Deleted(t, f)
           old == PathIn(t, f)
<1>1. /\ d \in Tables
      /\ \A g \in FolderIds :
           /\ d[g].parent = t[g].parent /\ d[g].path = t[g].path
           /\ d[g].state = IF IsLive(t, g) /\ g \in {f} \cup Below(t, f)
                           THEN "deleted" ELSE t[g].state
  BY DeletedTable
<1>2. old \in Seq(FolderIds)
  BY RowType, PathInType DEF PathIn
<1>3. \A g : g \in Below(t, f) <=> g \in FolderIds /\ Exists(t, g) /\ IsPrefix(old, t[g].path)
  BY DEF Below
<1> HIDE DEF d, old
<1>4. \A g \in FolderIds : IsLive(d, g) <=> IsLive(t, g) /\ g # f /\ g \notin Below(t, f)
  BY <1>1 DEF IsLive
<1>5. ASSUME NEW g \in FolderIds, IsLive(d, g), d[g].parent # 0
      PROVE  IsLive(d, d[g].parent) /\ d[g].path = PathIn(d, d[g].parent)
  <2> DEFINE q == t[g].parent
  <2>1. /\ IsLive(t, q) /\ t[g].path = Append(t[q].path, q) /\ q \in FolderIds
        /\ t[q].path \in Seq(FolderIds)
    BY <1>1, <1>4, <1>5, RowType DEF Tree, InTree, IsLive, PathIn
  <2>2. ~ IsPrefix(old, t[g].path)
    BY <1>3, <1>4, <1>5 DEF Exists, IsLive
  <2> HIDE DEF q
  <2>3. ~ IsPrefix(old, t[q].path) /\ old # Append(t[q].path, q)
    BY <1>2, <2>1, <2>2, PrefixOfAppend
  <2>4. q # f /\ q \notin Below(t, f)
    BY <1>3, <2>3 DEF old, PathIn
  <2>5. IsLive(d, q) /\ d[g].parent = q
    BY <1>1, <1>4, <2>1, <2>4 DEF q
  <2> QED BY <1>1, <2>1, <2>5 DEF PathIn
<1> QED BY <1>5 DEF Tree, InTree, d

-----------------------------------------------------------------------------
(* A new folder under one that is in reach.                                *)

\* What the walk finds depends on the folders of the chain alone.
LEMMA WalkedAgrees ==
  ASSUME NEW chain \in Seq(FolderIds),
         NEW inherit1 \in [FolderIds -> BOOLEAN], NEW inherit2 \in [FolderIds -> BOOLEAN],
         NEW perm1 \in [FolderIds -> SUBSET Bits], NEW perm2 \in [FolderIds -> SUBSET Bits],
         \A g \in ToSet(chain) : inherit1[g] = inherit2[g] /\ perm1[g] = perm2[g]
  PROVE  Walked(chain, inherit1, perm1) = Walked(chain, inherit2, perm2)
<1> DEFINE n == Len(chain)
<1>1. n \in Nat
  OBVIOUS
<1>2. \A i \in 1 .. n : chain[i] \in ToSet(chain)
  BY DEF ToSet
<1>3. \A i \in 1 .. n : inherit1[chain[i]] = inherit2[chain[i]] /\ perm1[chain[i]] = perm2[chain[i]]
  BY <1>2
<1>4. \A i \in 1 .. n : \A j \in i + 1 .. n : j \in 1 .. n
  BY <1>1
<1>5. GrantedAlong(chain, inherit1, perm1, n) = GrantedAlong(chain, inherit2, perm2, n)
  BY <1>3, <1>4 DEF GrantedAlong
<1> QED BY <1>5, WalkedIsGrantedAlong

\* A folder below adds one turn of the loop.
LEMMA WalkedOfAppend ==
  ASSUME NEW chain \in Seq(FolderIds), NEW f \in FolderIds,
         NEW inherit \in [FolderIds -> BOOLEAN], NEW perm \in [FolderIds -> SUBSET Bits]
  PROVE  Walked(Append(chain, f), inherit, perm) =
           AfterBreak(Walked(chain, inherit, perm), inherit[f], Len(chain) + 1) \cup perm[f]
<1> DEFINE n == Len(chain)
           longer == Append(chain, f)
<1>1. /\ n \in Nat /\ longer \in Seq(FolderIds) /\ Len(longer) = n + 1
      /\ longer[n + 1] = f /\ \A i \in 1 .. n : longer[i] = chain[i]
  OBVIOUS
<1> HIDE DEF longer
<1>2. \A i \in 1 .. n : \A j \in i + 1 .. n : j \in 1 .. n
  BY <1>1
<1>3. GrantedAlong(longer, inherit, perm, n) = GrantedAlong(chain, inherit, perm, n)
  BY <1>1, <1>2 DEF GrantedAlong
<1>4. GrantedAlong(longer, inherit, perm, n + 1) =
        AfterBreak(GrantedAlong(longer, inherit, perm, n), inherit[f], n + 1) \cup perm[f]
  BY <1>1, GrantedAlongStep
<1>5. /\ Walked(longer, inherit, perm) = GrantedAlong(longer, inherit, perm, n + 1)
      /\ Walked(chain, inherit, perm) = GrantedAlong(chain, inherit, perm, n)
  BY <1>1, WalkedIsGrantedAlong
<1>6. Walked(longer, inherit, perm) =
        AfterBreak(Walked(chain, inherit, perm), inherit[f], n + 1) \cup perm[f]
  BY <1>3, <1>4, <1>5
<1> QED BY <1>6 DEF longer

LEMMA CreatedResolves ==
  ASSUME NEW t \in Tables, NEW f \in FolderIds, ~ Exists(t, f),
         NEW p \in FolderIds, Resolves(t, p), NEW inherit \in BOOLEAN
  PROVE  LET c == Created(t, f, p, PathIn(t, p), inherit)
         IN  /\ f \notin ToSet(PathIn(t, p))
             /\ p # f /\ PathIn(c, p) = PathIn(t, p)
             /\ Resolves(c, p) /\ Resolves(c, f)
<1> DEFINE c == Created(t, f, p, PathIn(t, p), inherit)
           chain == PathIn(t, p)
           S == {g \in ToSet(chain) : IsLive(t, g)}
<1>1. /\ chain \in Seq(FolderIds) /\ Len(chain) \in Nat
      /\ Cardinality(S) >= Len(chain)
  BY RowType, PathInType DEF Resolves, AllLive, PathIn
<1> HIDE DEF chain
<1>2. \A k \in 1 .. Len(chain) : IsLive(t, chain[k])
  BY <1>1, Unresolved DEF Resolves, chain
<1>3. f \notin ToSet(chain)
  BY <1>2 DEF ToSet, IsLive, Exists
<1>4. p # f
  BY DEF Resolves
<1>5. /\ c \in Tables /\ \A g \in FolderIds \ {f} : c[g] = t[g]
      /\ c[f].state = "live" /\ c[f].path = chain
  <2>1. c = [t EXCEPT ![f] = [state |-> "live", parent |-> p, path |-> chain,
                              inherit |-> inherit]]
    BY DEF Created, chain
  <2>2. [state |-> "live", parent |-> p, path |-> chain, inherit |-> inherit] \in FolderRecords
    BY <1>1 DEF FolderRecords
  <2> QED BY <2>1, <2>2 DEF Tables
<1> HIDE DEF c
<1>6. PathIn(c, p) = chain /\ PathIn(c, f) = Append(chain, f)
  BY <1>4, <1>5 DEF PathIn, chain
<1>7. \A g \in ToSet(chain) : IsLive(c, g) <=> IsLive(t, g)
  BY <1>3, <1>5 DEF IsLive
<1>8. Exists(c, p) /\ Exists(c, f)
  BY <1>4, <1>5 DEF Exists, Resolves
<1>9. AllLive(c, chain)
  BY <1>1, <1>7 DEF AllLive
<1>10. AllLive(c, Append(chain, f))
  <2> DEFINE S2 == {g \in ToSet(Append(chain, f)) : IsLive(c, g)}
  <2>1. ToSet(Append(chain, f)) = ToSet(chain) \cup {f}
    <3>1. /\ Len(Append(chain, f)) = Len(chain) + 1
          /\ Append(chain, f)[Len(chain) + 1] = f
          /\ \A i \in 1 .. Len(chain) : Append(chain, f)[i] = chain[i]
      BY <1>1
    <3>2. 1 .. Len(chain) + 1 = (1 .. Len(chain)) \cup {Len(chain) + 1}
      BY <1>1
    <3>3. DOMAIN Append(chain, f) = 1 .. Len(chain) + 1 /\ DOMAIN chain = 1 .. Len(chain)
      BY <1>1, <3>1, PathInType
    <3> HIDE DEF chain
    <3> QED BY <3>1, <3>2, <3>3 DEF ToSet
  <2>2. S2 = S \cup {f} /\ f \notin S
    BY <1>3, <1>5, <1>7, <2>1 DEF IsLive
  <2>3. IsFiniteSet(S)
    <3>1. IsFiniteSet(FolderIds)
      BY FoldersAssumption, FS_Interval DEF FolderIds
    <3>2. S \subseteq FolderIds
      BY DEF IsLive
    <3> QED BY <3>1, <3>2, FS_Subset
  <2>4. Cardinality(S2) = Cardinality(S) + 1 /\ Cardinality(S) \in Nat
    BY <2>2, <2>3, FS_AddElement, FS_CardinalityType
  <2>5. Len(Append(chain, f)) = Len(chain) + 1
    BY <1>1
  <2> HIDE DEF S
  <2> QED BY <1>1, <2>4, <2>5 DEF AllLive
<1> QED BY <1>3, <1>4, <1>6, <1>8, <1>9, <1>10 DEF Resolves, c, chain
=============================================================================
