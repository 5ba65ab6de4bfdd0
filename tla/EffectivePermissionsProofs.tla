--------------------- MODULE EffectivePermissionsProofs ---------------------
(***************************************************************************)
(* Proofs about EffectivePermissions, for folders and chains of any        *)
(* number, any bits, and any number of writes during the call.  The loop   *)
(* itself is the subject of WalkedIsGrantedAlong in FoldersProofs.         *)
(***************************************************************************)
EXTENDS EffectivePermissions, FoldersProofs

PathsExist(t) ==
  \A f \in FolderIds : Exists(t, f) => \A i \in 1 .. Len(t[f].path) : Exists(t, t[f].path[i])

\* What the loop has granted after the folders it has passed.
WalkInv ==
  /\ call.pc \in {"path", "chain", "perms"} => call.i = 1 /\ call.granted = {}
  /\ At("walk") =>
       /\ call.i \in 1 .. Len(call.chain) + 1
       /\ call.granted = GrantedAlong(call.chain, call.inherit, call.perm, call.i - 1)
  /\ At("ok") =>
       call.granted = GrantedAlong(call.chain, call.inherit, call.perm, Len(call.chain))

IInv == TypeOK /\ PathsExist(folders) /\ WalkInv

\* The environments of the theorem about truth: no row is written during the
\* call, or no folder is moved or deleted.
Fixed == "grant" \notin writes
Still == writes \subseteq {"create", "grant"}
Apart == \A e \in Environments : "grant" \notin e.writes \/ e.writes \subseteq {"create", "grant"}

\* Whether the answer is among these truths.
Answers(granted, T) == [ok |-> TRUE, granted |-> granted] \in T

\* With fixed rows the answer is the one when the path was read, if the chain is
\* still live when it is looked up; with still folders it is the one when the
\* permissions are read.
TruthInv ==
  /\ Fixed \/ Still
  /\ Truth(folders, perms, call.folder) \in truths
  /\ call.pc \in {"walk", "ok"} => Answers(Walked(call.chain, call.inherit, call.perm), truths)
  /\ Fixed =>
       /\ At("chain") => \A i \in 1 .. Len(call.chain) : Exists(folders, call.chain[i])
       /\ At("chain") /\ AllLive(folders, call.chain) =>
            Answers(Walked(call.chain, Inherits(folders), perms), truths)
       /\ At("perms") => Answers(Walked(call.chain, call.inherit, perms), truths)
  /\ Still =>
       /\ call.pc \in {"chain", "perms"} =>
            Exists(folders, call.folder) /\ call.chain = PathIn(folders, call.folder)
       /\ At("perms") =>
            /\ AllLive(folders, call.chain)
            /\ \A g \in ToSet(call.chain) : call.inherit[g] = folders[g].inherit
-----------------------------------------------------------------------------
(* The paths of the folders, and chains that stay live.                    *)

LEMMA MovedPathsExist ==
  ASSUME NEW t \in Tables, PathsExist(t), NEW f \in FolderIds, NEW p \in FolderIds,
         Exists(t, f), Exists(t, p)
  PROVE  PathsExist(Moved(t, f, p, PathIn(t, p)))
<1> DEFINE path == PathIn(t, p)
           m    == Moved(t, f, p, path)
           u    == [t EXCEPT ![f].parent = p, ![f].path = path]
           old  == PathIn(t, f)
           new  == Append(path, f)
<1>1. path \in Seq(FolderIds) /\ old \in Seq(FolderIds) /\ new \in Seq(FolderIds)
  BY RowType, PathInType DEF PathIn
<1>2. \A i \in 1 .. Len(path) : Exists(t, path[i])
  <2>1. /\ t[p].path \in Seq(FolderIds) /\ path = Append(t[p].path, p)
        /\ Len(path) = Len(t[p].path) + 1 /\ path[Len(t[p].path) + 1] = p
        /\ \A i \in 1 .. Len(t[p].path) : path[i] = t[p].path[i]
    BY RowType, PathInType DEF PathIn, Last
  <2> HIDE DEF path
  <2> QED BY <2>1 DEF PathsExist
<1>3. /\ Len(path) \in Nat /\ Len(new) = Len(path) + 1 /\ new[Len(path) + 1] = f
      /\ \A i \in 1 .. Len(path) : new[i] = path[i]
  BY <1>1
<1>4. \A i \in 1 .. Len(new) : Exists(t, new[i])
  <2> HIDE DEF new, path
  <2> QED BY <1>2, <1>3
<1>5. m \in Tables /\ u \in Tables /\ \A g \in FolderIds : m[g].state = t[g].state
  <2> HIDE DEF path
  <2>1. u \in Tables
    BY <1>1 DEF Tables, FolderRecords
  <2>2. p \in FolderIds \cup {0}
    OBVIOUS
  <2>3. m \in Tables /\ \A g \in FolderIds : m[g].state = t[g].state
    BY <1>1, <2>2, MovedType
  <2> QED BY <2>1, <2>3
<1>6. \A g \in FolderIds : Exists(m, g) <=> Exists(t, g)
  BY <1>5 DEF Exists
<1>7. \A g \in FolderIds :
        m[g] = IF IsLive(u, g) /\ IsPrefix(old, u[g].path)
               THEN [u[g] EXCEPT !.path = new \o SubSeq(u[g].path, Len(old) + 1, Len(u[g].path))]
               ELSE u[g]
  BY DEF Moved
<1>8. \A g \in FolderIds : Exists(t, g) => \A i \in 1 .. Len(u[g].path) : Exists(t, u[g].path[i])
  <2>1. ASSUME NEW g \in FolderIds, Exists(t, g), NEW i \in 1 .. Len(u[g].path)
        PROVE  Exists(t, u[g].path[i])
    <3>1. CASE g = f
      <4>1. u[g].path = path
        BY <3>1 DEF Tables, FolderRecords
      <4> HIDE DEF u, path
      <4> QED BY <1>2, <2>1, <4>1
    <3>2. CASE g # f
      <4>1. u[g] = t[g]
        BY <3>2 DEF Tables
      <4> HIDE DEF u
      <4> QED BY <2>1, <4>1 DEF PathsExist
    <3> QED BY <3>1, <3>2
  <2> QED BY <2>1
<1> HIDE DEF m, u, old, new, path
<1>9. ASSUME NEW g \in FolderIds, Exists(t, g), NEW i \in 1 .. Len(m[g].path)
      PROVE  Exists(t, m[g].path[i])
  <2>1. u[g] \in FolderRecords /\ u[g].path \in Seq(FolderIds)
    BY <1>5, RowType
  <2>2. CASE IsLive(u, g) /\ IsPrefix(old, u[g].path)
    <3> DEFINE rest == SubSeq(u[g].path, Len(old) + 1, Len(u[g].path))
    <3>1. m[g].path = new \o rest
      BY <1>7, <2>1, <2>2 DEF FolderRecords
    <3>2. Len(old) \in Nat /\ Len(old) <= Len(u[g].path)
      BY <1>1, <2>1, <2>2 DEF IsPrefix
    <3>3. /\ rest \in Seq(FolderIds) /\ Len(rest) = Len(u[g].path) - Len(old)
          /\ \A k \in 1 .. Len(u[g].path) - Len(old) : rest[k] = u[g].path[Len(old) + k]
      BY <2>1, <3>2, RestType
    <3> HIDE DEF rest
    <3>4. /\ Len(new \o rest) = Len(new) + Len(rest)
          /\ \A k \in 1 .. Len(new) + Len(rest) :
               (new \o rest)[k] = IF k <= Len(new) THEN new[k] ELSE rest[k - Len(new)]
      BY <1>1, <3>3, ConcatProperties
    <3>5. Len(new) \in Nat /\ Len(rest) \in Nat /\ Len(u[g].path) \in Nat
      BY <1>1, <2>1, <3>3
    <3>6. i \in 1 .. Len(new) + Len(rest)
      BY <1>9, <3>1, <3>4
    <3>7. CASE i <= Len(new)
      BY <1>4, <3>1, <3>4, <3>5, <3>6, <3>7
    <3>8. CASE i > Len(new)
      <4>1. /\ i - Len(new) \in 1 .. Len(u[g].path) - Len(old)
            /\ Len(old) + (i - Len(new)) \in 1 .. Len(u[g].path)
        BY <3>2, <3>3, <3>5, <3>6, <3>8
      <4>2. m[g].path[i] = u[g].path[Len(old) + (i - Len(new))]
        BY <3>1, <3>3, <3>4, <3>5, <3>6, <3>8, <4>1
      <4> QED BY <1>8, <1>9, <4>1, <4>2
    <3> QED BY <3>5, <3>6, <3>7, <3>8
  <2>3. CASE ~ (IsLive(u, g) /\ IsPrefix(old, u[g].path))
    BY <1>7, <1>8, <1>9, <2>3
  <2> QED BY <2>2, <2>3
<1>10. PathsExist(m)
  <2>1. ASSUME NEW g \in FolderIds, Exists(m, g), NEW i \in 1 .. Len(m[g].path)
        PROVE  Exists(m, m[g].path[i])
    BY <1>6, <1>9, <2>1 DEF Exists
  <2> QED BY <2>1 DEF PathsExist
<1> QED BY <1>10 DEF m, path

LEMMA CreatedPathsExist ==
  ASSUME NEW t \in Tables, PathsExist(t), NEW f \in FolderIds, ~ Exists(t, f),
         NEW p \in FolderIds, Exists(t, p), NEW inherit \in BOOLEAN
  PROVE  LET c == Created(t, f, p, PathIn(t, p), inherit)
         IN  c \in Tables /\ PathsExist(c) /\ \A g \in FolderIds : Exists(t, g) => c[g] = t[g]
<1> DEFINE path == PathIn(t, p)
           c    == Created(t, f, p, path, inherit)
<1>1. path \in Seq(FolderIds)
  BY RowType, PathInType DEF PathIn
<1>2. /\ c \in Tables /\ c[f].state = "live" /\ c[f].path = path
      /\ \A g \in FolderIds \ {f} : c[g] = t[g]
  <2> HIDE DEF path
  <2>1. /\ c \in Tables /\ \A g \in FolderIds \ {f} : c[g] = t[g]
        /\ c[f] = [state |-> "live", parent |-> p, path |-> path, inherit |-> inherit]
    <3>1. p \in FolderIds \cup {0}
      OBVIOUS
    <3> QED BY <1>1, <3>1, CreatedTable
  <2> QED BY <2>1
<1>3. \A i \in 1 .. Len(path) : Exists(t, path[i])
  <2>1. /\ t[p].path \in Seq(FolderIds) /\ path = Append(t[p].path, p)
        /\ Len(path) = Len(t[p].path) + 1 /\ path[Len(t[p].path) + 1] = p
        /\ \A i \in 1 .. Len(t[p].path) : path[i] = t[p].path[i]
    BY RowType, PathInType DEF PathIn, Last
  <2> HIDE DEF path
  <2> QED BY <2>1 DEF PathsExist
<1> HIDE DEF c, path
<1>4. \A g \in FolderIds : Exists(t, g) => g # f /\ c[g] = t[g] /\ Exists(c, g)
  BY <1>2 DEF Exists
<1>5. ASSUME NEW g \in FolderIds, Exists(c, g), NEW i \in 1 .. Len(c[g].path)
      PROVE  Exists(c, c[g].path[i])
  <2>1. CASE g = f
    <3>1. Exists(t, c[g].path[i])
      BY <1>2, <1>3, <1>5, <2>1
    <3> QED BY <1>4, <3>1 DEF Exists
  <2>2. CASE g # f
    <3>1. Exists(t, g) /\ c[g] = t[g]
      BY <1>2, <1>5, <2>2 DEF Exists
    <3>2. Exists(t, c[g].path[i])
      BY <1>5, <3>1 DEF PathsExist
    <3> QED BY <1>4, <3>2 DEF Exists
  <2> QED BY <2>1, <2>2
<1>6. PathsExist(c)
  BY <1>5 DEF PathsExist
<1> QED BY <1>2, <1>4, <1>6 DEF c, path

LEMMA DeletedPathsExist ==
  ASSUME NEW t \in Tables, PathsExist(t), NEW f \in FolderIds
  PROVE  PathsExist(Deleted(t, f)) /\ \A g \in FolderIds : Exists(Deleted(t, f), g) <=> Exists(t, g)
<1> DEFINE d == Deleted(t, f)
<1>1. \A g \in FolderIds :
        d[g].path = t[g].path
        /\ d[g].state = IF IsLive(t, g) /\ g \in {f} \cup Below(t, f) THEN "deleted" ELSE t[g].state
  BY DeletedTable
<1> HIDE DEF d
<1>2. \A g \in FolderIds : Exists(d, g) <=> Exists(t, g)
  BY <1>1 DEF Exists, IsLive
<1>3. PathsExist(d)
  BY <1>1, <1>2 DEF PathsExist, Exists
<1> QED BY <1>2, <1>3 DEF d

\* If the folders of a chain that are live now were live before, a chain that is
\* live now was.
LEMMA AllLiveBefore ==
  ASSUME NEW t \in Tables, NEW u \in Tables, NEW chain \in Seq(FolderIds),
         \A i \in 1 .. Len(chain) : IsLive(u, chain[i]) => IsLive(t, chain[i]),
         AllLive(u, chain)
  PROVE  AllLive(t, chain)
<1>1. \A i \in 1 .. Len(chain) : IsLive(u, chain[i]) /\ IsLive(t, chain[i])
  BY Unresolved
<1>2. \A g \in ToSet(chain) : IsLive(u, g) /\ IsLive(t, g)
  BY <1>1 DEF ToSet
<1>3. {g \in ToSet(chain) : IsLive(u, g)} = {g \in ToSet(chain) : IsLive(t, g)}
  BY <1>2
<1> QED BY <1>3 DEF AllLive

-----------------------------------------------------------------------------
(* The steps.                                                              *)

LEMMA TruthType ==
  ASSUME NEW t \in Tables, NEW p \in Bitmasks, NEW f \in FolderIds
  PROVE  Truth(t, p, f) \in [ok : BOOLEAN, granted : SUBSET Bits]
<1>1. Effective(t, p, f) \in SUBSET Bits
  BY EffectiveType
<1> QED BY <1>1 DEF Truth

\* What the other handlers can do to the tables during a call: no folder comes
\* to life again or changes how it inherits.
LEMMA WriteEffect ==
  ASSUME IInv, Write
  PROVE  /\ folders' \in Tables /\ perms' \in Bitmasks /\ ungranted' \subseteq FolderIds
         /\ call' = call /\ left' \in Nat /\ PathsExist(folders')
         /\ \A g \in FolderIds : Exists(folders, g) =>
              /\ Exists(folders', g) /\ folders'[g].inherit = folders[g].inherit
              /\ (IsLive(folders', g) => IsLive(folders, g))
         /\ Fixed => perms' = perms
         /\ Still => \A g \in FolderIds : Exists(folders, g) => folders'[g] = folders[g]
<1>1. /\ folders \in Tables /\ perms \in Bitmasks /\ ungranted \subseteq FolderIds
      /\ PathsExist(folders) /\ left \in Nat
  BY DEF IInv, TypeOK
<1>2. left' \in Nat
  BY <1>1 DEF Write
<1>3. CASE \E f, parent \in FolderIds, inherit, own \in BOOLEAN :
             CreateFolder(f, parent, inherit, own)
  <2>1. PICK f \in FolderIds, parent \in FolderIds, inherit \in BOOLEAN, own \in BOOLEAN :
          CreateFolder(f, parent, inherit, own)
    BY <1>3
  <2>2. /\ ~ Exists(folders, f) /\ Exists(folders, parent)
        /\ folders' = Created(folders, f, parent, PathIn(folders, parent), inherit)
        /\ ungranted' \subseteq FolderIds /\ perms' = perms /\ call' = call
    BY <1>1, <2>1 DEF CreateFolder, IsLive, Exists
  <2>3. /\ folders' \in Tables /\ PathsExist(folders')
        /\ \A g \in FolderIds : Exists(folders, g) => folders'[g] = folders[g]
    BY <1>1, <2>2, CreatedPathsExist
  <2> QED BY <1>1, <1>2, <2>2, <2>3 DEF Exists, IsLive
<1>4. CASE \E f \in FolderIds : SetUserPermission(f)
  <2>1. PICK f \in FolderIds : SetUserPermission(f)
    BY <1>4
  <2>2. folders[f].parent \in FolderIds
    BY <2>1 DEF SetUserPermission, Resolves, Exists
  <2>3. Effective(folders, perms, folders[f].parent) \in SUBSET Bits
    BY <1>1, <2>2, EffectiveType
  <2>4. perms' \in Bitmasks
    BY <1>1, <2>1, <2>3 DEF SetUserPermission, Bitmasks
  <2>5. /\ folders' = folders /\ call' = call /\ ungranted' \subseteq FolderIds
        /\ "grant" \in writes
    BY <1>1, <2>1 DEF SetUserPermission
  <2> QED BY <1>1, <1>2, <2>4, <2>5 DEF Fixed
<1>5. CASE \E f, parent \in FolderIds : MoveFolder(f, parent)
  <2>1. PICK f \in FolderIds, parent \in FolderIds : MoveFolder(f, parent)
    BY <1>5
  <2>2. /\ Exists(folders, f) /\ Exists(folders, parent)
        /\ folders' = Moved(folders, f, parent, PathIn(folders, parent))
        /\ UNCHANGED <<perms, ungranted, call>> /\ "move" \in writes
    BY <2>1 DEF MoveFolder, IsLive, Exists
  <2>3. PathIn(folders, parent) \in Seq(FolderIds) /\ parent \in FolderIds \cup {0}
    BY <1>1, RowType, PathInType DEF PathIn
  <2>4. /\ folders' \in Tables
        /\ \A g \in FolderIds : /\ folders'[g].state = folders[g].state
                                /\ folders'[g].inherit = folders[g].inherit
    BY <1>1, <2>2, <2>3, MovedType
  <2>5. PathsExist(folders')
    BY <1>1, <2>2, MovedPathsExist
  <2>6. ~ Still
    BY <2>2 DEF Still
  <2> QED BY <1>1, <1>2, <2>2, <2>4, <2>5, <2>6 DEF Exists, IsLive
<1>6. CASE \E f \in FolderIds : SoftDeleteFolder(f)
  <2>1. PICK f \in FolderIds : SoftDeleteFolder(f)
    BY <1>6
  <2>2. /\ folders' = Deleted(folders, f) /\ UNCHANGED <<perms, ungranted, call>>
        /\ "delete" \in writes
    BY <2>1 DEF SoftDeleteFolder
  <2>3. /\ folders' \in Tables
        /\ \A g \in FolderIds :
             /\ folders'[g].inherit = folders[g].inherit
             /\ folders'[g].state = IF IsLive(folders, g) /\ g \in {f} \cup Below(folders, f)
                                    THEN "deleted" ELSE folders[g].state
    BY <1>1, <2>2, DeletedTable
  <2>4. \A g \in FolderIds : IsLive(folders', g) => IsLive(folders, g)
    BY <2>3 DEF IsLive
  <2>5. PathsExist(folders') /\ \A g \in FolderIds : Exists(folders', g) <=> Exists(folders, g)
    BY <1>1, <2>2, DeletedPathsExist
  <2>6. ~ Still
    BY <2>2 DEF Still
  <2> QED BY <1>1, <1>2, <2>2, <2>3, <2>4, <2>5, <2>6
<1> QED BY <1>3, <1>4, <1>5, <1>6 DEF Write

LEMMA QueryType ==
  ASSUME IInv, Query
  PROVE  call' \in Calls /\ call'.folder = call.folder
         /\ UNCHANGED <<folders, perms, ungranted, left>>
<1>1. /\ call \in Calls /\ folders \in Tables /\ perms \in Bitmasks
  BY DEF IInv, TypeOK
<1>2. UNCHANGED <<folders, perms, ungranted, left>>
  BY DEF Query, ReadPath, ReadChain, ReadPerms, Walk, tables
<1>3. CASE ReadPath
  <2>1. PathIn(folders, call.folder) \in Seq(FolderIds)
    BY <1>1, RowType, PathInType DEF PathIn, Calls
  <2> QED BY <1>1, <1>2, <1>3, <2>1 DEF ReadPath, Calls
<1>4. CASE ReadChain
  <2>1. [f \in FolderIds |-> f \in ToSet(call.chain) /\ folders[f].inherit]
          \in [FolderIds -> BOOLEAN]
    BY <1>1 DEF Tables, FolderRecords
  <2> QED BY <1>1, <1>2, <1>4, <2>1 DEF ReadChain, Calls
<1>5. CASE ReadPerms
  <2>1. [f \in FolderIds |-> IF f \in ToSet(call.chain) THEN perms[f] ELSE {}] \in Bitmasks
    BY <1>1 DEF Bitmasks
  <2> QED BY <1>1, <1>2, <1>5, <2>1 DEF ReadPerms, Calls
<1>6. CASE Walk
  <2>1. CASE call.i <= Len(call.chain)
    <3>1. call' = [call EXCEPT !.i = call.i + 1,
                     !.granted = AfterBreak(call.granted, call.inherit[call.chain[call.i]], call.i)
                                   \cup call.perm[call.chain[call.i]]]
      BY <1>1, <1>6, <2>1 DEF Walk, Calls
    <3>2. call.i \in Nat /\ call.i + 1 \in Nat /\ call.granted \in SUBSET Bits
      BY <1>1 DEF Calls
    <3>3. call.i \in 1 .. Len(call.chain)
      BY <1>6, <2>1, <3>2 DEF IInv, WalkInv, Walk
    <3>4. call.chain[call.i] \in FolderIds
      BY <1>1, <3>3 DEF Calls
    <3>5. AfterBreak(call.granted, call.inherit[call.chain[call.i]], call.i)
            \cup call.perm[call.chain[call.i]] \in SUBSET Bits
      BY <1>1, <3>2, <3>4 DEF AfterBreak, Calls, Bitmasks
    <3> QED BY <1>1, <1>2, <3>1, <3>2, <3>5 DEF Calls
  <2>2. CASE ~ (call.i <= Len(call.chain))
    BY <1>1, <1>2, <1>6, <2>2 DEF Walk, Calls
  <2> QED BY <2>1, <2>2
<1> QED BY <1>3, <1>4, <1>5, <1>6 DEF Query

\* One turn of the loop grants what the bits granted along one more folder are.
LEMMA QueryWalks == ASSUME IInv, Query PROVE WalkInv'
<1>1. call \in Calls /\ call.chain \in Seq(FolderIds) /\ call.inherit \in [FolderIds -> BOOLEAN]
      /\ call.perm \in [FolderIds -> SUBSET Bits] /\ call.i \in Nat /\ Len(call.chain) \in Nat
  BY DEF IInv, TypeOK, Calls, Bitmasks
<1>2. CASE ReadPath \/ ReadChain
  <2>1. /\ call'.pc \in {"chain", "perms", "error"} /\ call'.i = call.i
        /\ call'.granted = call.granted /\ call.pc \in {"path", "chain"}
    BY <1>1, <1>2 DEF ReadPath, ReadChain, At, Calls
  <2> QED BY <2>1 DEF IInv, WalkInv, At
<1>3. CASE ReadPerms
  <2>1. /\ call'.pc = "walk" /\ call'.i = 1 /\ call'.granted = {} /\ call'.chain = call.chain
    BY <1>1, <1>3 DEF ReadPerms, At, Calls, IInv, WalkInv
  <2>2. GrantedAlong(call'.chain, call'.inherit, call'.perm, 0) = {}
    BY DEF GrantedAlong
  <2>3. 1 \in 1 .. Len(call.chain) + 1
    BY <1>1
  <2> QED BY <2>1, <2>2, <2>3 DEF WalkInv, At
<1>4. CASE Walk
  <2>1. /\ call.i \in 1 .. Len(call.chain) + 1 /\ call.pc = "walk"
        /\ call.granted = GrantedAlong(call.chain, call.inherit, call.perm, call.i - 1)
    BY <1>4 DEF Walk, IInv, WalkInv, At
  <2>2. CASE call.i <= Len(call.chain)
    <3>1. call' = [call EXCEPT !.i = call.i + 1,
                     !.granted = AfterBreak(call.granted, call.inherit[call.chain[call.i]], call.i)
                                   \cup call.perm[call.chain[call.i]]]
      BY <1>1, <1>4, <2>2 DEF Walk, Calls
    <3>2. /\ call'.pc = "walk" /\ call'.i = call.i + 1 /\ call'.chain = call.chain
          /\ call'.inherit = call.inherit /\ call'.perm = call.perm
          /\ call'.granted =
               AfterBreak(call.granted, call.inherit[call.chain[call.i]], call.i)
                 \cup call.perm[call.chain[call.i]]
      BY <1>1, <2>1, <3>1 DEF Calls
    <3>3. PICK n \in Nat : n = call.i - 1 /\ n < Len(call.chain) /\ n + 1 = call.i
      BY <1>1, <2>1, <2>2
    <3>4. GrantedAlong(call.chain, call.inherit, call.perm, n + 1) =
            AfterBreak(GrantedAlong(call.chain, call.inherit, call.perm, n),
                       call.inherit[call.chain[n + 1]], n + 1)
              \cup call.perm[call.chain[n + 1]]
      <4>1. PICK chain, inherit, perm :
              chain = call.chain /\ inherit = call.inherit /\ perm = call.perm
        OBVIOUS
      <4>2. /\ chain \in Seq(FolderIds) /\ inherit \in [FolderIds -> BOOLEAN]
            /\ perm \in [FolderIds -> SUBSET Bits] /\ n < Len(chain)
        BY <1>1, <3>3, <4>1
      <4>3. GrantedAlong(chain, inherit, perm, n + 1) =
              AfterBreak(GrantedAlong(chain, inherit, perm, n), inherit[chain[n + 1]], n + 1)
                \cup perm[chain[n + 1]]
        BY <4>2, GrantedAlongStep
      <4> QED BY <4>1, <4>3
    <3>5. call'.granted = GrantedAlong(call'.chain, call'.inherit, call'.perm, call'.i - 1)
      <4>1. call'.i - 1 = n + 1
        BY <3>2, <3>3
      <4> QED BY <2>1, <3>2, <3>3, <3>4, <4>1
    <3>6. call'.i \in 1 .. Len(call'.chain) + 1
      BY <1>1, <2>1, <2>2, <3>2
    <3> QED BY <3>2, <3>5, <3>6 DEF WalkInv, At
  <2>3. CASE ~ (call.i <= Len(call.chain))
    <3>1. /\ call'.pc = "ok" /\ call'.chain = call.chain /\ call'.inherit = call.inherit
          /\ call'.perm = call.perm /\ call'.granted = call.granted
      BY <1>1, <1>4, <2>3 DEF Walk, Calls
    <3>2. call.i - 1 = Len(call.chain)
      BY <1>1, <2>1, <2>3
    <3> QED BY <2>1, <3>1, <3>2 DEF WalkInv, At
  <2> QED BY <2>2, <2>3
<1> QED BY <1>2, <1>3, <1>4 DEF Query

LEMMA NextInv == IInv /\ [Next]_vars => IInv'
<1> SUFFICES ASSUME IInv, [Next]_vars PROVE IInv'
  OBVIOUS
<1>1. CASE UNCHANGED vars
  BY <1>1 DEF vars, IInv, TypeOK, WalkInv, At, PathsExist
<1>2. CASE Next
  <2>1. /\ folders' \in Tables /\ perms' \in Bitmasks /\ ungranted' \subseteq FolderIds
        /\ call' \in Calls /\ left' \in Nat /\ PathsExist(folders') /\ WalkInv'
        /\ call'.folder = call.folder
    <3>1. CASE Query
      BY <3>1, QueryType, QueryWalks DEF IInv, TypeOK, PathsExist
    <3>2. CASE Write
      <4>1. call' = call
        BY <3>2, WriteEffect
      <4>2. WalkInv'
        BY <4>1 DEF IInv, WalkInv, At
      <4> QED BY <3>2, <4>1, <4>2, WriteEffect DEF IInv, TypeOK
    <3> QED BY <1>2, <3>1, <3>2 DEF Next
  <2>2. truths' \subseteq [ok : BOOLEAN, granted : SUBSET Bits]
    <3>1. call.folder \in FolderIds
      BY DEF IInv, TypeOK, Calls
    <3>2. Truth(folders', perms', call.folder) \in [ok : BOOLEAN, granted : SUBSET Bits]
      BY <2>1, <3>1, TruthType
    <3> QED BY <1>2, <3>2 DEF Next, Observed, IInv, TypeOK
  <2>3. writes' = writes
    BY <1>2 DEF Next
  <2>4. TypeOK'
    BY <2>1, <2>2, <2>3 DEF TypeOK, IInv
  <2>5. PathsExist(folders)'
    BY <2>1
  <2> QED BY <2>1, <2>4, <2>5 DEF IInv
<1> QED BY <1>1, <1>2

LEMMA Initially == Init => IInv
<1> SUFFICES ASSUME Init PROVE IInv
  OBVIOUS
<1>1. PICK e \in Environments :
        folders \in e.folders /\ perms \in e.perms /\ writes = e.writes /\ left = e.maxWrites
  BY DEF Init
<1>2. /\ folders \in Tables /\ perms \in Bitmasks /\ left \in Nat
      /\ writes \subseteq {"create", "grant", "move", "delete"} /\ ungranted = {}
  BY <1>1, EnvironmentsAssumption DEF Init
<1>3. PathsExist(folders)
  BY <1>1, EnvironmentsAssumption DEF PathsExist
<1>4. PICK f \in FolderIds : call = CallOf(f)
  BY DEF Init
<1>5. call \in Calls
  <2>1. [g \in FolderIds |-> {}] \in Bitmasks /\ <<>> \in Seq(FolderIds)
    BY DEF Bitmasks
  <2> QED BY <1>4, <2>1 DEF CallOf, Calls
<1>6. WalkInv
  BY <1>4 DEF CallOf, WalkInv, At
<1>7. truths \subseteq [ok : BOOLEAN, granted : SUBSET Bits]
  <2>1. call.folder \in FolderIds
    BY <1>5 DEF Calls
  <2> QED BY <1>2, <2>1, TruthType DEF Init
<1> QED BY <1>2, <1>3, <1>5, <1>6, <1>7 DEF IInv, TypeOK

LEMMA Invariance == Spec => []IInv
BY Initially, NextInv, PTL DEF Spec

\* The tables and the call keep their types.
THEOREM TypeCorrect == Spec => []TypeOK
BY Invariance, PTL DEF IInv

\* The loop of GetUserEffectivePermissions grants exactly the bits that reach the
\* folder along its chain with no break in between, and the administrator's bit.
THEOREM AnswersFollowInheritance == Spec => []AnswerFollowsInheritance
<1>1. IInv => AnswerFollowsInheritance
  BY DEF IInv, WalkInv, AnswerFollowsInheritance
<1> QED BY <1>1, Invariance, PTL

-----------------------------------------------------------------------------
(* The answer was true.                                                    *)

\* Every step keeps the truths there were and adds the present one.
LEMMA TruthsGrow ==
  ASSUME IInv, Next
  PROVE  /\ truths \subseteq truths' /\ Truth(folders', perms', call'.folder) \in truths'
         /\ writes' = writes
<1>1. call'.folder = call.folder
  BY QueryType, WriteEffect DEF Next
<1> QED BY <1>1 DEF Next, Observed

\* What the call would answer now if its chain is the folder's and is live.
LEMMA TruthNow ==
  ASSUME NEW t \in Tables, NEW p \in Bitmasks, NEW f \in FolderIds, Exists(t, f),
         AllLive(t, PathIn(t, f))
  PROVE  Truth(t, p, f) = [ok |-> TRUE, granted |-> Walked(PathIn(t, f), Inherits(t), p)]
BY DEF Truth, Resolves, Effective

\* The loop over what was selected for the folders of a chain is the loop over
\* the tables.
LEMMA WalkSelected ==
  ASSUME NEW chain \in Seq(FolderIds), NEW t \in Tables, NEW p \in Bitmasks,
         NEW inherit \in [FolderIds -> BOOLEAN], NEW perm \in Bitmasks,
         \A g \in ToSet(chain) : inherit[g] = t[g].inherit /\ perm[g] = p[g]
  PROVE  Walked(chain, inherit, perm) = Walked(chain, Inherits(t), p)
<1>1. \A g \in ToSet(chain) : g \in FolderIds
  BY DEF ToSet
<1>2. Inherits(t) \in [FolderIds -> BOOLEAN]
  BY DEF Inherits, Tables, FolderRecords
<1>3. \A g \in ToSet(chain) : inherit[g] = Inherits(t)[g] /\ perm[g] = p[g]
  BY <1>1 DEF Inherits
<1>4. perm \in [FolderIds -> SUBSET Bits] /\ p \in [FolderIds -> SUBSET Bits]
  BY DEF Bitmasks
<1> HIDE DEF Inherits
<1> QED BY <1>2, <1>3, <1>4, WalkedAgrees

LEMMA TruthAtWrite == ASSUME IInv, TruthInv, Next, Write PROVE TruthInv'
<1>1. /\ folders' \in Tables /\ perms' \in Bitmasks /\ call' = call
      /\ \A g \in FolderIds : Exists(folders, g) =>
           /\ Exists(folders', g) /\ folders'[g].inherit = folders[g].inherit
           /\ (IsLive(folders', g) => IsLive(folders, g))
      /\ Fixed => perms' = perms
      /\ Still => \A g \in FolderIds : Exists(folders, g) => folders'[g] = folders[g]
  BY WriteEffect
<1>2. /\ truths \subseteq truths' /\ Truth(folders', perms', call'.folder) \in truths'
      /\ writes' = writes
  BY TruthsGrow
<1>3. /\ folders \in Tables /\ perms \in Bitmasks /\ call \in Calls
      /\ call.chain \in Seq(FolderIds) /\ call.folder \in FolderIds
  BY DEF IInv, TypeOK, Calls
<1>4. (Fixed' <=> Fixed) /\ (Still' <=> Still) /\ (Fixed \/ Still)
  BY <1>2 DEF Fixed, Still, TruthInv
<1>5. \A granted : Answers(granted, truths) => Answers(granted, truths')
  BY <1>2 DEF Answers
<1>6. call.pc \in {"walk", "ok"} => Answers(Walked(call.chain, call.inherit, call.perm), truths')
  BY <1>5 DEF TruthInv
<1>7. ASSUME Fixed
      PROVE  /\ At("chain") => \A i \in 1 .. Len(call.chain) : Exists(folders', call.chain[i])
             /\ At("chain") /\ AllLive(folders', call.chain) =>
                  Answers(Walked(call.chain, Inherits(folders'), perms'), truths')
             /\ At("perms") => Answers(Walked(call.chain, call.inherit, perms'), truths')
  <2>1. At("chain") => \A i \in 1 .. Len(call.chain) :
                         call.chain[i] \in FolderIds /\ Exists(folders, call.chain[i])
    BY <1>3, <1>7 DEF TruthInv
  <2>2. At("chain") => \A i \in 1 .. Len(call.chain) : Exists(folders', call.chain[i])
    BY <1>1, <2>1
  <2>3. ASSUME At("chain"), AllLive(folders', call.chain)
        PROVE  Answers(Walked(call.chain, Inherits(folders'), perms'), truths')
    <3>1. \A i \in 1 .. Len(call.chain) :
            IsLive(folders', call.chain[i]) => IsLive(folders, call.chain[i])
      BY <1>1, <2>1, <2>3
    <3>2. AllLive(folders, call.chain)
      BY <1>1, <1>3, <2>3, <3>1, AllLiveBefore
    <3>3. Answers(Walked(call.chain, Inherits(folders), perms), truths)
      BY <1>7, <2>3, <3>2 DEF TruthInv
    <3>4. \A g \in ToSet(call.chain) : g \in FolderIds /\ Exists(folders, g)
      BY <1>3, <2>1, <2>3 DEF ToSet
    <3>5. \A g \in ToSet(call.chain) : Inherits(folders)[g] = folders'[g].inherit
      BY <1>1, <3>4 DEF Inherits
    <3>6. Inherits(folders) \in [FolderIds -> BOOLEAN]
      BY <1>3 DEF Inherits, Tables, FolderRecords
    <3>7. Walked(call.chain, Inherits(folders), perms)
            = Walked(call.chain, Inherits(folders'), perms)
      <4> HIDE DEF Inherits
      <4> QED BY <1>1, <1>3, <3>5, <3>6, WalkSelected
    <3> QED BY <1>1, <1>5, <1>7, <3>3, <3>7
  <2>4. At("perms") => Answers(Walked(call.chain, call.inherit, perms'), truths')
    BY <1>1, <1>5, <1>7 DEF TruthInv
  <2> QED BY <2>2, <2>3, <2>4
<1>8. ASSUME Still
      PROVE  /\ call.pc \in {"chain", "perms"} =>
                  Exists(folders', call.folder) /\ call.chain = PathIn(folders', call.folder)
             /\ At("perms") =>
                  /\ AllLive(folders', call.chain)
                  /\ \A g \in ToSet(call.chain) : call.inherit[g] = folders'[g].inherit
  <2>1. call.pc \in {"chain", "perms"} =>
          Exists(folders', call.folder) /\ call.chain = PathIn(folders', call.folder)
    BY <1>1, <1>3, <1>8 DEF TruthInv, PathIn
  <2>2. ASSUME At("perms")
        PROVE  /\ AllLive(folders', call.chain)
               /\ \A g \in ToSet(call.chain) : call.inherit[g] = folders'[g].inherit
    <3>1. AllLive(folders, call.chain)
          /\ \A g \in ToSet(call.chain) : call.inherit[g] = folders[g].inherit
      BY <1>8, <2>2 DEF TruthInv
    <3>2. \A i \in 1 .. Len(call.chain) : IsLive(folders, call.chain[i])
      BY <1>3, <3>1, Unresolved
    <3>3. \A i \in 1 .. Len(call.chain) : folders'[call.chain[i]] = folders[call.chain[i]]
      BY <1>1, <1>3, <1>8, <3>2 DEF IsLive, Exists
    <3>4. \A i \in 1 .. Len(call.chain) : IsLive(folders', call.chain[i])
      BY <3>2, <3>3 DEF IsLive
    <3>5. AllLive(folders', call.chain)
      BY <1>1, <1>3, <3>1, <3>4, AllLiveBefore
    <3>6. \A g \in ToSet(call.chain) : folders'[g] = folders[g]
      BY <1>3, <3>3 DEF ToSet
    <3> QED BY <3>1, <3>5, <3>6
  <2> QED BY <2>1, <2>2
<1>9. At("chain")' = At("chain") /\ At("perms")' = At("perms")
  BY <1>1 DEF At
<1> HIDE DEF Fixed, Still, Answers
<1> QED BY <1>1, <1>2, <1>4, <1>6, <1>7, <1>8, <1>9 DEF TruthInv

LEMMA TruthAtQuery == ASSUME IInv, TruthInv, Next, Query PROVE TruthInv'
<1>1. folders' = folders /\ perms' = perms /\ call' \in Calls /\ call'.folder = call.folder
  BY QueryType
<1>2. /\ truths \subseteq truths' /\ Truth(folders', perms', call'.folder) \in truths'
      /\ writes' = writes
  BY TruthsGrow
<1>3. /\ folders \in Tables /\ perms \in Bitmasks /\ call \in Calls
      /\ call.chain \in Seq(FolderIds) /\ call.folder \in FolderIds
      /\ call.inherit \in [FolderIds -> BOOLEAN] /\ PathsExist(folders)
  BY DEF IInv, TypeOK, Calls
<1>4. (Fixed' <=> Fixed) /\ (Still' <=> Still) /\ (Fixed \/ Still)
  BY <1>2 DEF Fixed, Still, TruthInv
<1>5. \A granted : Answers(granted, truths) => Answers(granted, truths')
  BY <1>2 DEF Answers
<1>6. Truth(folders, perms, call.folder) \in truths
  BY DEF TruthInv
<1>7. CASE call'.pc = "error"
  BY <1>2, <1>4, <1>7 DEF TruthInv, At
<1>8. CASE ReadPath /\ call'.pc # "error"
  <2>1. /\ Exists(folders, call.folder) /\ call'.pc = "chain"
        /\ call'.chain = PathIn(folders, call.folder)
    BY <1>3, <1>8 DEF ReadPath, Calls
  <2>2. \A i \in 1 .. Len(call'.chain) : Exists(folders, call'.chain[i])
    <3>1. PICK path \in Seq(FolderIds) : path = folders[call.folder].path
      BY <1>3, RowType
    <3>2. /\ call'.chain = Append(path, call.folder) /\ Len(call'.chain) = Len(path) + 1
          /\ call'.chain[Len(path) + 1] = call.folder /\ Len(path) \in Nat
          /\ \A i \in 1 .. Len(path) : call'.chain[i] = path[i]
      BY <1>3, <2>1, <3>1 DEF PathIn
    <3>3. \A i \in 1 .. Len(path) : Exists(folders, path[i])
      BY <1>3, <2>1, <3>1 DEF PathsExist
    <3> QED BY <2>1, <3>2, <3>3
  <2>3. AllLive(folders, call'.chain) =>
          Answers(Walked(call'.chain, Inherits(folders), perms), truths')
    BY <1>2, <1>3, <1>6, <2>1, TruthNow DEF Answers
  <2> HIDE DEF Fixed, Still, Answers
  <2> QED BY <1>1, <1>2, <1>4, <2>1, <2>2, <2>3 DEF TruthInv, At
<1>9. CASE ReadChain /\ call'.pc # "error"
  <2>1. /\ AllLive(folders, call.chain) /\ call.pc = "chain" /\ call'.pc = "perms"
        /\ call'.chain = call.chain
        /\ call'.inherit = [f \in FolderIds |-> f \in ToSet(call.chain) /\ folders[f].inherit]
    BY <1>3, <1>9 DEF ReadChain, Calls, At
  <2>2. \A g \in ToSet(call.chain) : g \in FolderIds /\ call'.inherit[g] = folders[g].inherit
    <3>1. \A g \in ToSet(call.chain) : g \in FolderIds
      BY <1>3 DEF ToSet
    <3>2. \A g \in FolderIds : folders[g].inherit \in BOOLEAN
      BY <1>3 DEF Tables, FolderRecords
    <3> QED BY <2>1, <3>1, <3>2
  <2>3. call'.inherit \in [FolderIds -> BOOLEAN]
    BY <1>1 DEF Calls
  <2>4. Walked(call.chain, call'.inherit, perms) = Walked(call.chain, Inherits(folders), perms)
    BY <1>3, <2>2, <2>3, WalkSelected
  <2>5. Fixed => Answers(Walked(call'.chain, call'.inherit, perms), truths')
    BY <1>5, <2>1, <2>4 DEF TruthInv, At
  <2>6. Still => /\ Exists(folders, call.folder) /\ call'.chain = PathIn(folders, call.folder)
                 /\ AllLive(folders, call'.chain)
                 /\ \A g \in ToSet(call'.chain) : call'.inherit[g] = folders[g].inherit
    BY <2>1, <2>2 DEF TruthInv
  <2> HIDE DEF Fixed, Still, Answers
  <2> QED BY <1>1, <1>2, <1>4, <2>1, <2>5, <2>6 DEF TruthInv, At
<1>10. CASE ReadPerms
  <2>1. /\ call.pc = "perms" /\ call'.pc = "walk" /\ call'.chain = call.chain
        /\ call'.inherit = call.inherit
        /\ call'.perm = [f \in FolderIds |-> IF f \in ToSet(call.chain) THEN perms[f] ELSE {}]
    BY <1>3, <1>10 DEF ReadPerms, Calls, At
  <2>2. \A g \in ToSet(call.chain) : g \in FolderIds /\ call'.perm[g] = perms[g]
    <3>1. \A g \in ToSet(call.chain) : g \in FolderIds
      BY <1>3 DEF ToSet
    <3> QED BY <2>1, <3>1
  <2>3. call'.perm \in Bitmasks
    BY <1>1 DEF Calls
  <2>4. CASE Fixed
    <3>1. Answers(Walked(call.chain, call.inherit, perms), truths)
      BY <2>1, <2>4 DEF TruthInv, At
    <3>2. Walked(call.chain, call.inherit, call'.perm) = Walked(call.chain, call.inherit, perms)
      BY <1>3, <2>2, <2>3, WalkedAgrees DEF Bitmasks
    <3>3. Answers(Walked(call'.chain, call'.inherit, call'.perm), truths')
      BY <1>5, <2>1, <3>1, <3>2
    <3> HIDE DEF Fixed, Still, Answers
    <3> QED BY <1>2, <1>4, <2>1, <3>3 DEF TruthInv, At
  <2>5. CASE Still
    <3>1. /\ Exists(folders, call.folder) /\ call.chain = PathIn(folders, call.folder)
          /\ AllLive(folders, call.chain)
          /\ \A g \in ToSet(call.chain) : call.inherit[g] = folders[g].inherit
      BY <2>1, <2>5 DEF TruthInv, At
    <3>2. Truth(folders, perms, call.folder) =
            [ok |-> TRUE, granted |-> Walked(call.chain, Inherits(folders), perms)]
      BY <1>3, <3>1, TruthNow
    <3>3. Walked(call.chain, call.inherit, call'.perm)
            = Walked(call.chain, Inherits(folders), perms)
      BY <1>3, <2>2, <2>3, <3>1, WalkSelected
    <3>4. Answers(Walked(call'.chain, call'.inherit, call'.perm), truths')
      BY <1>2, <1>6, <2>1, <3>2, <3>3 DEF Answers
    <3> HIDE DEF Fixed, Still, Answers
    <3> QED BY <1>2, <1>4, <2>1, <3>4 DEF TruthInv, At
  <2> QED BY <1>4, <2>4, <2>5
<1>11. CASE Walk
  <2>1. /\ call.pc = "walk" /\ call'.pc \in {"walk", "ok"} /\ call'.chain = call.chain
        /\ call'.inherit = call.inherit /\ call'.perm = call.perm
    BY <1>3, <1>11 DEF Walk, Calls, At
  <2>2. Answers(Walked(call'.chain, call'.inherit, call'.perm), truths')
    BY <1>5, <2>1 DEF TruthInv
  <2> HIDE DEF Fixed, Still, Answers
  <2> QED BY <1>2, <1>4, <2>1, <2>2 DEF TruthInv, At
<1> QED BY <1>7, <1>8, <1>9, <1>10, <1>11 DEF Query

LEMMA TruthNext == IInv /\ TruthInv /\ [Next]_vars => TruthInv'
<1> SUFFICES ASSUME IInv, TruthInv, [Next]_vars PROVE TruthInv'
  OBVIOUS
<1>1. CASE UNCHANGED vars
  BY <1>1 DEF vars, TruthInv, Fixed, Still, At, Answers
<1> QED BY <1>1, TruthAtQuery, TruthAtWrite DEF Next

\* If rows of permissions are written or folders are moved and deleted during a
\* call, and not both, then permissions that are granted were the caller's at
\* some moment of the call, though its three queries are no transaction.
THEOREM AnswersWereTrue == ASSUME Apart PROVE Spec => []AnswerWasTrue
<1>1. Init => TruthInv
  <2> SUFFICES ASSUME Init PROVE TruthInv
    OBVIOUS
  <2>1. PICK e \in Environments : writes = e.writes
    BY DEF Init
  <2>2. Fixed \/ Still
    BY <2>1 DEF Apart, Fixed, Still
  <2>3. call.pc = "path" /\ Truth(folders, perms, call.folder) \in truths
    BY DEF Init, CallOf
  <2> HIDE DEF Fixed, Still
  <2> QED BY <2>2, <2>3 DEF TruthInv, At
<1>2. IInv /\ TruthInv => AnswerWasTrue
  <2> SUFFICES ASSUME IInv, TruthInv, At("ok") PROVE Answers(call.granted, truths)
    BY DEF AnswerWasTrue, Answers
  <2>1. /\ call.chain \in Seq(FolderIds) /\ call.inherit \in [FolderIds -> BOOLEAN]
        /\ call.perm \in [FolderIds -> SUBSET Bits]
    BY DEF IInv, TypeOK, Calls, Bitmasks
  <2>2. call.granted = Walked(call.chain, call.inherit, call.perm)
    BY <2>1, WalkedIsGrantedAlong DEF IInv, WalkInv
  <2> QED BY <2>2 DEF TruthInv, At
<1> QED BY <1>1, <1>2, TruthNext, Invariance, PTL DEF Spec
=============================================================================
