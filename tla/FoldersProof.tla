---------------------------- MODULE FoldersProof ----------------------------
(***************************************************************************)
(* For any number of folders, names and requests, where a rename or a move *)
(* runs alone: the paths of the rows and the tree of their parents say the *)
(* same.  Inductive is FInv: the rows agree and no two share a path (Tree), *)
(* and every request between two of its calls still sees the rows as it read *)
(* them (EditOK), since none that could change them may run (Apart).       *)
(***************************************************************************)
EXTENDS Folders, SequenceTheorems, WellFoundedInduction, TLAPS

Path == Seq(Names)

\* Paths and their prefixes, name by name.
LEMMA FrontFacts ==
  ASSUME NEW p \in Path, p # <<>>
  PROVE  /\ Len(p) \in Nat \ {0} /\ Last(p) \in Names
         /\ Front(p) \in Path /\ Len(Front(p)) = Len(p) - 1
         /\ \A i \in 1 .. Len(p) - 1 : Front(p)[i] = p[i]
<1>1. Len(p) \in Nat \ {0} /\ \A i \in 1..Len(p) : p[i] \in Names
  BY EmptySeq, ElementOfSeq DEF Path
<1> DEFINE n == Len(p) - 1
<1>2. n \in Nat /\ Front(p) = SubSeq(p, 1, n) /\ \A i \in 1..n : p[i] \in Names
  BY <1>1 DEF Front
<1>3. /\ SubSeq(p, 1, n) \in Seq(Names) /\ Len(SubSeq(p, 1, n)) = IF 1 <= n THEN n - 1 + 1 ELSE 0
      /\ \A i \in 1 .. n - 1 + 1 : SubSeq(p, 1, n)[i] = p[1 + i - 1]
  <2> HIDE DEF n
  <2> QED  BY <1>2, SubSeqProperties
<1>4. \A i \in 1..n : Front(p)[i] = p[i]
  BY <1>2, <1>3
<1>5. Len(Front(p)) = n
  <2> HIDE DEF n
  <2> QED  BY <1>2, <1>3
<1> QED  BY <1>1, <1>2, <1>3, <1>4, <1>5 DEF Last, Path

LEMMA PrefixFacts ==
  ASSUME NEW p \in Path, NEW q \in Path
  PROVE  IsPrefix(p, q) <=> Len(p) <= Len(q) /\ \A i \in 1..Len(p) : p[i] = q[i]
<1>1. /\ Len(p) \in Nat /\ Len(q) \in Nat /\ \A i \in 1..Len(p) : p[i] \in Names
      /\ \A i \in 1..Len(q) : q[i] \in Names
  BY ElementOfSeq, LenProperties DEF Path
<1>2. SubSeq(p, 1, Len(p)) = p
  BY SubSeqFull DEF Path
<1>3. ASSUME Len(p) <= Len(q)
      PROVE /\ SubSeq(q, 1, Len(p)) \in Path /\ Len(SubSeq(q, 1, Len(p))) = Len(p)
            /\ \A i \in 1..Len(p) : SubSeq(q, 1, Len(p))[i] = q[i]
  BY <1>1, <1>3, SubSeqProperties DEF Path
<1> QED  BY <1>1, <1>2, <1>3, SeqEqual DEF IsPrefix, Path

\* A set of natural numbers has a least element.
LEMMA Shortest ==
  ASSUME NEW T, T \subseteq Nat, T # {}
  PROVE  \E n \in T : \A m \in T : n <= m
<1>1. PICK n \in T : \A m \in T : <<m, n>> \notin OpToRel(<, Nat)
  BY WFMin, NatLessThanWellFounded
<1>2. ASSUME NEW m \in T, m < n PROVE FALSE
  BY <1>1, <1>2 DEF OpToRel
<1>3. \A m \in T : n <= m
  BY <1>2
<1> QED  BY <1>3

LEMMA FrontIs ==
  ASSUME NEW p \in Path, NEW q \in Path, Len(q) = Len(p) + 1,
         \A i \in 1..Len(p) : q[i] = p[i]
  PROVE  q # <<>> /\ Front(q) = p
<1>1. Len(p) \in Nat /\ q # <<>> /\ Len(q) - 1 = Len(p)
  BY LenProperties, EmptySeq DEF Path
<1>2. Front(q) \in Path /\ Len(Front(q)) = Len(p) /\ \A i \in 1..Len(p) : Front(q)[i] = q[i]
  BY <1>1, FrontFacts
<1>3. \A i \in 1..Len(Front(q)) : Front(q)[i] = p[i]
  BY <1>2
<1> QED  BY <1>1, <1>2, <1>3, SeqEqual DEF Path

LEMMA AppendFacts ==
  ASSUME NEW p \in Path, NEW n \in Names
  PROVE  /\ Append(p, n) \in Path /\ Append(p, n) # <<>> /\ Front(Append(p, n)) = p
         /\ p \o <<n>> = Append(p, n)
         /\ <<n>> \in Path /\ <<n>> # <<>> /\ Front(<<n>>) = <<>>
<1>1. /\ Append(p, n) \in Path /\ Append(p, n) # <<>> /\ Len(Append(p, n)) = Len(p) + 1
      /\ \A i \in 1..Len(p) : Append(p, n)[i] = p[i]
      /\ p \o <<n>> = Append(p, n) /\ Len(p) \in Nat
  BY AppendProperties, AppendIsConcat, LenProperties DEF Path
<1>3. Front(Append(p, n)) = p
  BY <1>1, FrontIs
<1>4. <<n>> \in Path /\ <<n>> # <<>> /\ Len(<<n>>) = 1
  BY DEF Path
<1>5. Front(<<n>>) = <<>>
  BY <1>4, SubSeqEmpty DEF Front
<1> QED  BY <1>1, <1>3, <1>4, <1>5

\* The path was, which goes on from old, going on from new instead.
Moved(old, new, was) == new \o SubSeq(was, Len(old) + 1, Len(was))

LEMMA MovedFacts ==
  ASSUME NEW old \in Path, NEW new \in Path, NEW was \in Path
  PROVE  /\ Moved(old, new, was) \in Path
         /\ new # <<>> => Moved(old, new, was) # <<>>
         /\ Len(old) <= Len(was) =>
              /\ Len(Moved(old, new, was)) = Len(new) + Len(was) - Len(old)
              /\ \A i \in 1 .. Len(new) + Len(was) - Len(old) :
                   Moved(old, new, was)[i] =
                     IF i <= Len(new) THEN new[i] ELSE was[i - Len(new) + Len(old)]
<1> DEFINE m == Len(old)  k == Len(was)  rest == SubSeq(was, m + 1, k)
<1>1. m \in Nat /\ k \in Nat /\ Len(new) \in Nat /\ \A i \in 1..k : was[i] \in Names
  BY ElementOfSeq, LenProperties DEF Path
<1>2. /\ rest \in Seq(Names) /\ Len(rest) = IF m + 1 <= k THEN k - (m + 1) + 1 ELSE 0
      /\ \A i \in 1 .. k - (m + 1) + 1 : rest[i] = was[m + 1 + i - 1]
  <2> HIDE DEF m, k
  <2>1. m + 1 \in Int /\ k \in Int /\ \A i \in m + 1 .. k : was[i] \in Names
    BY <1>1
  <2> QED  BY <2>1, SubSeqProperties DEF rest
<1>3. /\ new \o rest \in Seq(Names) /\ Len(new \o rest) = Len(new) + Len(rest)
      /\ \A i \in 1 .. Len(new) + Len(rest) : (new \o rest)[i] =
           IF i <= Len(new) THEN new[i] ELSE rest[i - Len(new)]
      /\ new \o rest = <<>> => new = <<>>
  <2> HIDE DEF rest
  <2>1. new \in Seq(Names) /\ rest \in Seq(Names)
    BY <1>2 DEF Path
  <2>2. new \o rest = <<>> => new = <<>>
    BY <2>1, ConcatEqualIffEmpty
  <2> QED  BY <2>1, <2>2, ConcatProperties
<1>4. Moved(old, new, was) = new \o rest
  BY DEF Moved
<1>5. ASSUME m <= k
      PROVE  /\ Len(rest) = k - m
             /\ \A i \in 1 .. k - m : rest[i] = was[i + m]
  <2> HIDE DEF m, k, rest
  <2> QED  BY <1>1, <1>2, <1>5
<1>6. ASSUME m <= k, NEW i \in 1 .. Len(new) + k - m
      PROVE  (new \o rest)[i] = IF i <= Len(new) THEN new[i] ELSE was[i - Len(new) + m]
  <2> HIDE DEF m, k, rest
  <2>1. i \in 1 .. Len(new) + Len(rest)
    BY <1>1, <1>5, <1>6
  <2>2. CASE i <= Len(new)
    BY <1>3, <2>1, <2>2
  <2>3. CASE ~(i <= Len(new))
    <3>1. i - Len(new) \in 1 .. k - m
      BY <1>1, <1>6, <2>3
    <3> QED  BY <1>1, <1>3, <1>5, <1>6, <2>1, <2>3, <3>1
  <2> QED  BY <2>2, <2>3
<1> HIDE DEF rest
<1> QED  BY <1>1, <1>3, <1>4, <1>5, <1>6 DEF Path

LEMMA MovedFront ==
  ASSUME NEW old \in Path, NEW new \in Path \ {<<>>}, NEW was \in Path, Len(old) < Len(was)
  PROVE  Front(Moved(old, new, was)) = Moved(old, new, Front(was))
<1> DEFINE f == Front(was)  r == Moved(old, new, was)  t == Moved(old, new, f)
<1>0. Len(old) \in Nat /\ Len(new) \in Nat /\ Len(was) \in Nat /\ was # <<>>
  BY LenProperties, EmptySeq DEF Path
<1>1. f \in Path /\ Len(f) = Len(was) - 1 /\ \A i \in 1 .. Len(was) - 1 : f[i] = was[i]
  BY <1>0, FrontFacts
<1>2. /\ r \in Path /\ Len(r) = Len(new) + Len(was) - Len(old)
      /\ \A i \in 1 .. Len(new) + Len(was) - Len(old) :
           r[i] = IF i <= Len(new) THEN new[i] ELSE was[i - Len(new) + Len(old)]
  <2>1. Len(old) <= Len(was)
    BY <1>0
  <2> QED  BY <2>1, MovedFacts
<1> HIDE DEF f
<1>3. /\ t \in Path /\ Len(t) = Len(new) + Len(f) - Len(old)
      /\ \A i \in 1 .. Len(new) + Len(f) - Len(old) :
           t[i] = IF i <= Len(new) THEN new[i] ELSE f[i - Len(new) + Len(old)]
  <2>1. Len(old) <= Len(f)
    BY <1>0, <1>1
  <2> QED  BY <1>1, <2>1, MovedFacts
<1> HIDE DEF r, t
<1>4. Len(r) = Len(t) + 1 /\ Len(t) = Len(new) + (Len(was) - 1) - Len(old)
  BY <1>0, <1>1, <1>2, <1>3
<1>5. \A i \in 1 .. Len(new) + (Len(was) - 1) - Len(old) :
           t[i] = IF i <= Len(new) THEN new[i] ELSE f[i - Len(new) + Len(old)]
  BY <1>1, <1>3
<1>6. \A i \in 1 .. Len(new) + (Len(was) - 1) - Len(old) : r[i] = t[i]
  <2> TAKE i \in 1 .. Len(new) + (Len(was) - 1) - Len(old)
  <2>1. i \in 1 .. Len(new) + Len(was) - Len(old)
    BY <1>0
  <2>2. CASE i <= Len(new)
    BY <1>2, <1>5, <2>1, <2>2
  <2>3. CASE ~(i <= Len(new))
    <3>1. i - Len(new) + Len(old) \in 1 .. Len(was) - 1
      BY <1>0, <2>3
    <3>2. r[i] = was[i - Len(new) + Len(old)] /\ t[i] = f[i - Len(new) + Len(old)]
      BY <1>2, <1>5, <2>1, <2>3
    <3> QED  BY <1>1, <3>1, <3>2
  <2> QED  BY <2>2, <2>3
<1>7. \A i \in 1 .. Len(t) : r[i] = t[i]
  BY <1>4, <1>6
<1>8. Front(r) = t
  BY <1>2, <1>3, <1>4, <1>7, FrontIs
<1> QED  BY <1>8 DEF f, r, t

LEMMA MovedNothing ==
  ASSUME NEW old \in Path, NEW new \in Path
  PROVE  Moved(old, new, old) = new
<1>1. /\ Len(old) \in Nat /\ Len(new) \in Nat
  BY LenProperties DEF Path
<1>2. SubSeq(old, Len(old) + 1, Len(old)) = <<>>
  BY <1>1, SubSeqEmpty
<1> QED  BY <1>2, ConcatEmptySeq DEF Moved, Path
-----------------------------------------------------------------------------
(***************************************************************************)
(* Typing                                                                  *)
(***************************************************************************)
LEMMA NoEditIsEdit == NoEdit \in Edit
BY DEF NoEdit, Edit, EditOps, EditLabels

LEMMA StoredPath ==
  ASSUME FoldersTypeOK
  PROVE  /\ \A f \in Stored : f \in Folders /\ path[f] \in Path \ {<<>>} /\ Len(path[f]) \in Nat \ {0}
         /\ \A f \in Folders : path[f] \in Path
         /\ \A f \in Stored \cup {Top} : PathOf(f) \in Path
BY FolderAssumption, EmptySeq DEF FoldersTypeOK, Stored, PathOf, Path

LEMMA BeginType ==
  ASSUME FoldersTypeOK, NEW e \in Editors, NEW x \in Edit, Begin(e, x)
  PROVE  FoldersTypeOK'
BY DEF FoldersTypeOK, Begin

LEMMA EndType ==
  ASSUME FoldersTypeOK, NEW e \in Editors, EndEdit(e)
  PROVE  edit' \in [Editors -> Edit]
BY NoEditIsEdit DEF FoldersTypeOK, EndEdit

LEMMA FoldersTypeInit == InitFolders => FoldersTypeOK
BY NoEditIsEdit DEF InitFolders, FoldersTypeOK

LEMMA RequestType ==
  ASSUME FoldersTypeOK, NEW e \in Editors, NEW f \in Folders
  PROVE  /\ \A to \in Folders \cup {Top}, name \in Names : Create(e, f, to, name) => FoldersTypeOK'
         /\ \A to \in Folders \cup {Top} : Move(e, f, to) => FoldersTypeOK'
         /\ \A name \in Names : Rename(e, f, name) => FoldersTypeOK'
         /\ Discard(e, f) => FoldersTypeOK'
<1>1. ASSUME NEW to \in Folders \cup {Top}, NEW name \in Names, Create(e, f, to, name)
      PROVE  FoldersTypeOK'
  <2> DEFINE x == [NoEdit EXCEPT !.op = "create", !.at = "write", !.folder = f, !.to = to,
                                 !.new = Append(PathOf(to), name)]
  <2>1. Append(PathOf(to), name) \in Seq(Names)
    BY <1>1, StoredPath, AppendFacts DEF Create, Path
  <2>2. x \in Edit
    BY <2>1, NoEditIsEdit DEF Edit, EditOps, EditLabels
  <2> QED  BY <1>1, <2>2, BeginType DEF Create
<1>2. ASSUME NEW to \in Folders \cup {Top}, Move(e, f, to) PROVE FoldersTypeOK'
  <2> DEFINE x == [NoEdit EXCEPT !.op = "move", !.at = IF to = Top THEN "below" ELSE "target",
                                 !.folder = f, !.to = to, !.old = path[f],
                                 !.new = <<NameOf(f)>>]
  <2>1. path[f] \in Seq(Names) /\ <<NameOf(f)>> \in Seq(Names)
    BY <1>2, StoredPath, FrontFacts DEF Move, NameOf, Path
  <2>2. x \in Edit
    BY <2>1, NoEditIsEdit DEF Edit, EditOps, EditLabels
  <2> QED  BY <1>2, <2>2, BeginType DEF Move
<1>3. ASSUME NEW name \in Names, Rename(e, f, name) PROVE FoldersTypeOK'
  <2> DEFINE x == [NoEdit EXCEPT !.op = "rename", !.at = "below", !.folder = f,
                                 !.old = path[f], !.new = Append(Front(path[f]), name)]
  <2>1. path[f] \in Seq(Names) /\ Append(Front(path[f]), name) \in Seq(Names)
    BY <1>3, StoredPath, FrontFacts, AppendFacts DEF Rename, Path
  <2>2. x \in Edit
    BY <2>1, NoEditIsEdit DEF Edit, EditOps, EditLabels
  <2> QED  BY <1>3, <2>2, BeginType DEF Rename
<1>4. ASSUME Discard(e, f) PROVE FoldersTypeOK'
  <2> DEFINE x == [NoEdit EXCEPT !.op = "remove", !.at = "write", !.folder = f]
  <2>1. x \in Edit
    BY NoEditIsEdit DEF Edit, EditOps, EditLabels
  <2> QED  BY <1>4, <2>1, BeginType DEF Discard
<1> QED  BY <1>1, <1>2, <1>3, <1>4

LEMMA InsertType ==
  ASSUME FoldersTypeOK, NEW e \in Editors, Insert(e)
  PROVE  FoldersTypeOK'
<1>1. edit' \in [Editors -> Edit] /\ edit[e] \in Edit
  BY EndType DEF Insert, FoldersTypeOK
<1> QED  BY <1>1 DEF Insert, FoldersTypeOK, Edit

LEMMA ReadTargetType ==
  ASSUME FoldersTypeOK, NEW e \in Editors, ReadTarget(e)
  PROVE  FoldersTypeOK'
<1> DEFINE to == edit[e].to
           x == [edit[e] EXCEPT !.at = "below", !.new = path[to] \o edit[e].new]
<1>1. CASE to \in Stored /\ ~StartsWith(edit[e].old, path[to])
  <2>1. path[to] \o edit[e].new \in Seq(Names)
    BY <1>1, StoredPath, ConcatProperties DEF FoldersTypeOK, Edit, Path
  <2>2. edit' = [edit EXCEPT ![e] = x]
    BY <1>1 DEF ReadTarget
  <2>3. x \in Edit
    BY <2>1 DEF FoldersTypeOK, Edit, EditLabels
  <2> QED  BY <2>2, <2>3 DEF ReadTarget, FoldersTypeOK
<1>2. CASE ~(to \in Stored /\ ~StartsWith(edit[e].old, path[to]))
  BY <1>2, EndType DEF ReadTarget, FoldersTypeOK
<1> QED  BY <1>1, <1>2

LEMMA FindBelowType ==
  ASSUME FoldersTypeOK, NEW e \in Editors, FindBelow(e)
  PROVE  FoldersTypeOK'
<1> DEFINE found == {<<g, path[g]>> : g \in {x \in Folders : IsStrictPrefix(edit[e].old, path[x])}}
           x == [edit[e] EXCEPT !.at = "write", !.below = found]
<1>1. found \in SUBSET (Folders \X Seq(Names))
  BY DEF FoldersTypeOK
<1>2. edit' = [edit EXCEPT ![e] = x]
  BY DEF FindBelow
<1> DEFINE T == SUBSET (Folders \X Seq(Names))
<1> HIDE DEF found
<1>3. x \in Edit
  <2>1. Edit = [op : EditOps, at : EditLabels, folder : Folders \cup {Top}, to : Folders \cup {Top},
                old : Seq(Names), new : Seq(Names), below : T]
    BY DEF Edit
  <2>2. edit[e] \in Edit /\ found \in T /\ "write" \in EditLabels
    BY <1>1 DEF FoldersTypeOK, EditLabels
  <2> HIDE DEF T
  <2> QED  BY <2>1, <2>2
<1> QED  BY <1>2, <1>3 DEF FindBelow, FoldersTypeOK

\* The rows below that a rename or a move read, the path each had, and all the
\* paths it is about to write.
RowsBelow(x) == {b[1] : b \in x.below}
Was(x, g) == (CHOOSE b \in x.below : b[1] = g)[2]
Rewritten(x) ==
  [g \in Folders |-> IF g \in RowsBelow(x) THEN Moved(x.old, x.new, Was(x, g))
                     ELSE IF g = x.folder THEN x.new ELSE path[g]]

LEMMA RewriteFacts ==
  ASSUME NEW e \in Editors, Rewrite(e)
  PROVE  /\ EndEdit(e) /\ edit[e].op \in {"rename", "move"} /\ edit[e].at = "write"
         /\ \/ UNCHANGED <<path, parent>>
            \/ /\ path' = Rewritten(edit[e])
               /\ parent' = IF edit[e].op = "move"
                            THEN [parent EXCEPT ![edit[e].folder] = edit[e].to] ELSE parent
               /\ edit[e].folder \in Stored /\ RowsBelow(edit[e]) \subseteq Stored
               /\ edit[e].op = "move" => edit[e].to \in Stored \cup {Top}
               /\ \A g, x \in Stored : Rewritten(edit[e])[g] = Rewritten(edit[e])[x] => g = x
<1> DEFINE x == edit[e]
           below == [g \in RowsBelow(x) |->
                       LET was == (CHOOSE b \in x.below : b[1] = g)[2] IN
                       x.new \o SubSeq(was, Len(x.old) + 1, Len(was))]
           paths == [g \in Folders |-> IF g \in DOMAIN below THEN below[g]
                                       ELSE IF g = x.folder THEN x.new ELSE path[g]]
<1>1. DOMAIN below = RowsBelow(x) /\ \A g \in RowsBelow(x) : below[g] = Moved(x.old, x.new, Was(x, g))
  BY DEF Moved, Was
<1>2. paths = Rewritten(x)
  <2> HIDE DEF below
  <2> QED  BY <1>1 DEF Rewritten
<1>3. /\ EndEdit(e) /\ x.op \in {"rename", "move"} /\ x.at = "write"
      /\ IF /\ {x.folder} \cup DOMAIN below \subseteq Stored
            /\ x.op = "move" => x.to \in Stored \cup {Top}
            /\ \A g, y \in Stored : paths[g] = paths[y] => g = y
         THEN /\ path' = paths
              /\ parent' = IF x.op = "move" THEN [parent EXCEPT ![x.folder] = x.to] ELSE parent
         ELSE UNCHANGED <<path, parent>>
  BY DEF Rewrite, RowsBelow
<1> HIDE DEF paths, below
<1> QED  BY <1>1, <1>2, <1>3

LEMMA WasFacts ==
  ASSUME NEW x \in Edit, NEW g \in RowsBelow(x)
  PROVE  g \in Folders /\ Was(x, g) \in Path /\ <<g, Was(x, g)>> \in x.below
<1>1. x.below \subseteq Folders \X Seq(Names)
  BY DEF Edit
<1>2. \E b \in x.below : b[1] = g
  BY DEF RowsBelow
<1> DEFINE c == CHOOSE b \in x.below : b[1] = g
<1>3. c \in x.below /\ c[1] = g
  BY <1>2
<1>4. c \in Folders \X Seq(Names) /\ Was(x, g) = c[2]
  BY <1>1, <1>3 DEF Was
<1> HIDE DEF c
<1>5. c = <<g, Was(x, g)>> /\ c[1] \in Folders /\ c[2] \in Seq(Names)
  BY <1>3, <1>4
<1> QED  BY <1>3, <1>4, <1>5 DEF Path

LEMMA RewriteType ==
  ASSUME FoldersTypeOK, NEW e \in Editors, Rewrite(e)
  PROVE  FoldersTypeOK'
<1>1. edit' \in [Editors -> Edit] /\ edit[e] \in Edit
  BY RewriteFacts, EndType DEF FoldersTypeOK
<1>2. /\ edit[e].new \in Path /\ edit[e].old \in Path /\ edit[e].to \in Folders \cup {Top}
  BY <1>1 DEF Edit, Path
<1>3. Rewritten(edit[e]) \in [Folders -> Path]
  <2>1. \A g \in RowsBelow(edit[e]) : Moved(edit[e].old, edit[e].new, Was(edit[e], g)) \in Path
    BY <1>1, <1>2, WasFacts, MovedFacts
  <2> QED  BY <1>2, <2>1 DEF Rewritten, FoldersTypeOK, Path
<1> QED  BY <1>1, <1>2, <1>3, RewriteFacts DEF FoldersTypeOK, Path

LEMMA EraseType ==
  ASSUME FoldersTypeOK, NEW e \in Editors, Erase(e)
  PROVE  FoldersTypeOK'
<1>1. edit' \in [Editors -> Edit] /\ <<>> \in Seq(Names)
  BY EndType DEF Erase
<1> QED  BY <1>1 DEF Erase, FoldersTypeOK

LEMMA FoldersTypeNext == FoldersTypeOK /\ [NextFolders]_folderVars => FoldersTypeOK'
<1> SUFFICES ASSUME FoldersTypeOK, [NextFolders]_folderVars PROVE FoldersTypeOK'
  OBVIOUS
<1>1. CASE UNCHANGED folderVars
  BY <1>1 DEF folderVars, FoldersTypeOK
<1> QED
  BY <1>1, RequestType, InsertType, ReadTargetType, FindBelowType, RewriteType, EraseType
     DEF NextFolders

\* The rows and the requests keep their types.
THEOREM FoldersTyping == FoldersSpec => []FoldersTypeOK
BY FoldersTypeInit, FoldersTypeNext, PTL DEF FoldersSpec
-----------------------------------------------------------------------------
(***************************************************************************)
(* Paths and parents, when renames and moves run alone                     *)
(***************************************************************************)
\* No two rows have a path in common: the unique index.
Distinct == \A f, g \in Stored : path[f] = path[g] => f = g

\* What is no row has no parent.
Loose == \A f \in Folders : f \notin Stored => parent[f] = Top

Tree == PathsAgree /\ Distinct /\ Loose

\* A creation waits for an id of its own, and for the path it read of its
\* parent, if that is still there.
Creation(x) ==
  /\ x.at = "write" /\ x.folder \in Folders /\ x.folder \notin Stored /\ x.new # <<>>
  /\ x.to \in Stored \cup {Top} => Front(x.new) = PathOf(x.to)

\* A rename or a move still sees the tree as it read it.
Target(x) == IF x.op = "move" THEN x.to ELSE parent[x.folder]
Extending(p) == {g \in Folders : IsStrictPrefix(p, path[g])}

Rewriting(x) == x.op \in {"rename", "move"}

Ready(x) ==
  /\ x.folder \in Stored /\ x.old = path[x.folder]
  /\ x.at = "target" => \E n \in Names : x.new = <<n>>
  /\ x.at \in {"below", "write"} =>
       /\ x.new # <<>> /\ Target(x) \in Stored \cup {Top} /\ Front(x.new) = PathOf(Target(x))
       /\ Target(x) # Top => ~IsPrefix(x.old, path[Target(x)])
  /\ x.at = "write" => x.below = {<<g, path[g]>> : g \in Extending(x.old)}

EditOK(x) ==
  /\ x # NoEdit /\ x.op = "create" => Creation(x)
  /\ x.op = "remove" => x.at = "write"
  /\ Rewriting(x) => Ready(x)

\* A rename or a move runs alone, and a creation's id is in no other request.
Apart ==
  \A e, d \in Editors : e # d =>
    /\ Rewriting(edit[e]) => edit[d] = NoEdit
    /\ edit[e] # NoEdit /\ edit[e].op = "create" => edit[e].folder \notin {edit[d].folder, edit[d].to}

FInv == FoldersTypeOK /\ Tree /\ Apart /\ \A e \in Editors : EditOK(edit[e])

LEMMA NoEditOK == EditOK(NoEdit) /\ ~Rewriting(NoEdit)
BY DEF EditOK, Rewriting, NoEdit

\* A step that changes no row, and leaves a sound request of e.
LEMMA EditStep ==
  ASSUME FInv, NEW e \in Editors, NEW x \in Edit, edit' = [edit EXCEPT ![e] = x],
         UNCHANGED <<path, parent>>, EditOK(x),
         \A d \in Editors : d # e =>
           /\ Rewriting(x) => edit[d] = NoEdit
           /\ Rewriting(edit[d]) => x = NoEdit
           /\ x # NoEdit /\ x.op = "create" => x.folder \notin {edit[d].folder, edit[d].to}
           /\ edit[d] # NoEdit /\ edit[d].op = "create" => edit[d].folder \notin {x.folder, x.to}
  PROVE  FInv'
<1>1. edit'[e] = x /\ \A d \in Editors : d # e => edit'[d] = edit[d]
  BY DEF FInv, FoldersTypeOK
<1>2. FoldersTypeOK'
  BY DEF FInv, FoldersTypeOK
<1>3. Tree'
  BY DEF FInv, Tree, PathsAgree, Distinct, Loose, Stored, PathOf
<1>4. ASSUME NEW d \in Editors PROVE EditOK(edit[d])'
  <2>1. EditOK(edit'[d])
    BY <1>1 DEF FInv
  <2> QED  BY <2>1 DEF EditOK, Creation, Rewriting, Ready, Target, Extending, Stored, PathOf
<1>5. Apart'
  BY <1>1 DEF FInv, Apart, Rewriting
<1> QED  BY <1>2, <1>3, <1>4, <1>5 DEF FInv

\* A request that ends is in nobody's way.
LEMMA EndApart ==
  ASSUME FInv, NEW e \in Editors, EndEdit(e)
  PROVE  /\ Apart' /\ edit'[e] = NoEdit /\ \A d \in Editors : d # e => edit'[d] = edit[d]
<1>1. edit'[e] = NoEdit /\ \A d \in Editors : d # e => edit'[d] = edit[d]
  BY DEF FInv, FoldersTypeOK, EndEdit
<1>2. ASSUME NEW d \in Editors, edit[d] # NoEdit, edit[d].op = "create"
      PROVE  edit[d].folder # Top
  BY <1>2, FolderAssumption DEF FInv, EditOK, Creation
<1>3. NoEdit.folder = Top /\ NoEdit.to = Top
  BY DEF NoEdit
<1> QED  BY <1>1, <1>2, <1>3, NoEditOK DEF FInv, Apart

LEMMA BeginAlone ==
  ASSUME ~FolderOverlap, NEW op \in EditOps, MayBegin(op)
  PROVE  /\ op \in {"rename", "move"} => \A d \in Editors : edit[d] = NoEdit
         /\ \A d \in Editors : ~Rewriting(edit[d])
BY NoEditOK DEF MayBegin, Rewriting

LEMMA CreateFolderKeeps ==
  ASSUME ~FolderOverlap, FInv, NEW e \in Editors, NEW f \in Folders,
         NEW to \in Folders \cup {Top}, NEW name \in Names, Create(e, f, to, name)
  PROVE  FInv'
<1> DEFINE x == [NoEdit EXCEPT !.op = "create", !.at = "write", !.folder = f, !.to = to,
                               !.new = Append(PathOf(to), name)]
<1>1. /\ x.op = "create" /\ x.at = "write" /\ x.folder = f /\ x.to = to
      /\ x.new = Append(PathOf(to), name) /\ x # NoEdit
  BY DEF NoEdit
<1>2. Fresh(f) /\ to \in Stored \cup {Top} /\ Begin(e, x) /\ MayBegin("create")
  BY <1>1 DEF Create, Begin
<1>3. PathOf(to) \in Path
  BY <1>2, StoredPath DEF FInv
<1>4. x.new \in Seq(Names) /\ x.new # <<>> /\ Front(x.new) = PathOf(to)
  BY <1>1, <1>3, AppendFacts DEF Path
<1>5. x \in Edit
  BY <1>4, NoEditIsEdit DEF Edit, EditOps, EditLabels
<1> HIDE DEF x
<1>6. EditOK(x)
  BY <1>1, <1>2, <1>4 DEF EditOK, Creation, Rewriting, Fresh
<1>7. \A d \in Editors : ~Rewriting(edit[d]) /\ f \notin {edit[d].folder, edit[d].to}
  BY <1>2, BeginAlone DEF EditOps, Fresh
<1>8. ASSUME NEW d \in Editors, edit[d] # NoEdit, edit[d].op = "create"
      PROVE  edit[d].folder \notin {f, to}
  BY <1>2, <1>7, <1>8, FolderAssumption DEF FInv, EditOK, Creation
<1>9. ~Rewriting(x)
  BY <1>1 DEF Rewriting
<1>10. edit' = [edit EXCEPT ![e] = x] /\ UNCHANGED <<path, parent>>
  BY <1>2 DEF Begin
<1> QED  BY <1>1, <1>5, <1>6, <1>7, <1>8, <1>9, <1>10, EditStep

LEMMA PrefixLess ==
  ASSUME NEW p \in Path, NEW q \in Path, IsPrefix(p, q)
  PROVE  /\ Len(p) \in Nat /\ Len(q) \in Nat /\ Len(p) <= Len(q) /\ (Len(p) = Len(q) => p = q)
         /\ IsStrictPrefix(p, q) => Len(p) < Len(q)
<1>1. /\ Len(p) \in Nat /\ Len(q) \in Nat /\ Len(p) <= Len(q) /\ \A i \in 1..Len(p) : p[i] = q[i]
  BY PrefixFacts, LenProperties DEF Path
<1>2. ASSUME Len(p) = Len(q) PROVE p = q
  BY <1>1, <1>2, SeqEqual DEF Path
<1> QED  BY <1>1, <1>2 DEF IsStrictPrefix

LEMMA RenameKeeps ==
  ASSUME ~FolderOverlap, FInv, NEW e \in Editors, NEW f \in Folders, NEW name \in Names,
         Rename(e, f, name)
  PROVE  FInv'
<1> DEFINE x == [NoEdit EXCEPT !.op = "rename", !.at = "below", !.folder = f,
                               !.old = path[f], !.new = Append(Front(path[f]), name)]
<1>1. /\ x.op = "rename" /\ x.at = "below" /\ x.folder = f /\ x.old = path[f]
      /\ x.new = Append(Front(path[f]), name) /\ x # NoEdit
  BY DEF NoEdit
<1>2. f \in Stored /\ Begin(e, x) /\ MayBegin("rename")
  BY <1>1 DEF Rename, Begin
<1>3. /\ path[f] \in Path /\ path[f] # <<>> /\ Front(path[f]) \in Path
      /\ Len(path[f]) \in Nat \ {0} /\ Len(Front(path[f])) = Len(path[f]) - 1
  BY <1>2, StoredPath, FrontFacts DEF FInv
<1>4. x.new \in Seq(Names) /\ x.new # <<>> /\ Front(x.new) = Front(path[f])
  BY <1>1, <1>3, AppendFacts DEF Path
<1>5. x \in Edit
  BY <1>3, <1>4, NoEditIsEdit DEF Edit, EditOps, EditLabels, Path
<1> HIDE DEF x
<1>6. Target(x) = parent[f]
  BY <1>1 DEF Target
<1>7. /\ parent[f] \in Stored \cup {Top} /\ Front(path[f]) = PathOf(parent[f])
  BY <1>2 DEF FInv, Tree, PathsAgree
<1>8. ASSUME parent[f] # Top PROVE ~IsPrefix(path[f], path[parent[f]])
  <2>1. path[parent[f]] = Front(path[f])
    BY <1>7, <1>8 DEF PathOf
  <2> QED  BY <1>3, <2>1, PrefixLess
<1>9. EditOK(x)
  BY <1>1, <1>2, <1>4, <1>6, <1>7, <1>8 DEF EditOK, Ready
<1>10. \A d \in Editors : edit[d] = NoEdit
  BY <1>2, BeginAlone DEF EditOps
<1>11. edit' = [edit EXCEPT ![e] = x] /\ UNCHANGED <<path, parent>>
  BY <1>2 DEF Begin
<1> QED  BY <1>1, <1>5, <1>9, <1>10, <1>11, NoEditOK, EditStep

LEMMA MoveFolderKeeps ==
  ASSUME ~FolderOverlap, FInv, NEW e \in Editors, NEW f \in Folders,
         NEW to \in Folders \cup {Top}, Move(e, f, to)
  PROVE  FInv'
<1> DEFINE x == [NoEdit EXCEPT !.op = "move", !.at = IF to = Top THEN "below" ELSE "target",
                               !.folder = f, !.to = to, !.old = path[f],
                               !.new = <<NameOf(f)>>]
<1>1. /\ x.op = "move" /\ x.at = IF to = Top THEN "below" ELSE "target"
      /\ x.folder = f /\ x.to = to /\ x.old = path[f] /\ x.new = <<NameOf(f)>> /\ x # NoEdit
  BY DEF NoEdit
<1>2. f \in Stored /\ Begin(e, x) /\ MayBegin("move")
  BY <1>1 DEF Move, Begin
<1>3. path[f] \in Path /\ path[f] # <<>> /\ NameOf(f) \in Names
  BY <1>2, StoredPath, FrontFacts DEF FInv, NameOf
<1>4. x.new \in Seq(Names) /\ x.new # <<>> /\ Front(x.new) = <<>>
  <2>1. <<>> \in Path
    BY EmptySeq DEF Path
  <2> QED  BY <1>1, <1>3, <2>1, AppendFacts DEF Path
<1>5. x \in Edit
  BY <1>3, <1>4, NoEditIsEdit DEF Edit, EditOps, EditLabels, Path
<1> HIDE DEF x
<1>6. EditOK(x)
  BY <1>1, <1>2, <1>3, <1>4 DEF EditOK, Ready, Target, PathOf
<1>7. \A d \in Editors : edit[d] = NoEdit
  BY <1>2, BeginAlone DEF EditOps
<1>8. edit' = [edit EXCEPT ![e] = x] /\ UNCHANGED <<path, parent>>
  BY <1>2 DEF Begin
<1> QED  BY <1>1, <1>5, <1>6, <1>7, <1>8, NoEditOK, EditStep

LEMMA DiscardKeeps ==
  ASSUME ~FolderOverlap, FInv, NEW e \in Editors, NEW f \in Folders, Discard(e, f)
  PROVE  FInv'
<1> DEFINE x == [NoEdit EXCEPT !.op = "remove", !.at = "write", !.folder = f]
<1>1. x.op = "remove" /\ x.at = "write" /\ x.folder = f /\ x.to = Top
  BY DEF NoEdit
<1>2. f \in Stored /\ Begin(e, x) /\ MayBegin("remove")
  BY <1>1 DEF Discard, Begin
<1>3. x \in Edit
  BY NoEditIsEdit DEF Edit, EditOps, EditLabels
<1> HIDE DEF x
<1>4. EditOK(x) /\ ~Rewriting(x)
  BY <1>1 DEF EditOK, Rewriting
<1>5. \A d \in Editors : ~Rewriting(edit[d])
  BY <1>2, BeginAlone DEF EditOps
<1>6. ASSUME NEW d \in Editors, edit[d] # NoEdit, edit[d].op = "create"
      PROVE  edit[d].folder \notin {f, Top}
  BY <1>2, <1>6, FolderAssumption DEF FInv, EditOK, Creation
<1>7. edit' = [edit EXCEPT ![e] = x] /\ UNCHANGED <<path, parent>>
  BY <1>2 DEF Begin
<1> QED  BY <1>1, <1>3, <1>4, <1>5, <1>6, <1>7, EditStep

LEMMA CreationFolder ==
  ASSUME FInv, NEW d \in Editors, edit[d] # NoEdit, edit[d].op = "create"
  PROVE  edit[d].folder \in Folders /\ edit[d].folder \notin Stored /\ edit[d].folder # Top
BY FolderAssumption DEF FInv, EditOK, Creation

\* A request that is turned away.
LEMMA EndEditKeeps ==
  ASSUME FInv, NEW e \in Editors, EndEdit(e), UNCHANGED <<path, parent>>
  PROVE  FInv'
<1>1. edit' = [edit EXCEPT ![e] = NoEdit] /\ NoEdit.folder = Top /\ NoEdit.to = Top
  BY DEF EndEdit, NoEdit
<1>2. \A d \in Editors : edit[d] # NoEdit /\ edit[d].op = "create" =>
        edit[d].folder \notin {NoEdit.folder, NoEdit.to}
  BY <1>1, CreationFolder
<1> QED  BY <1>1, <1>2, NoEditIsEdit, NoEditOK, EditStep

\* The string of a path starts with the string of each path it extends.
LEMMA PrefixStarts ==
  ASSUME NEW p \in Path \ {<<>>}, NEW q \in Path, IsPrefix(p, q)
  PROVE  StartsWith(p, q)
<1>1. /\ Len(p) \in Nat \ {0} /\ Len(q) \in Nat /\ Len(p) <= Len(q)
      /\ \A i \in 1..Len(p) : p[i] = q[i] /\ p[i] \in Names
  BY PrefixFacts, LenProperties, EmptySeq, ElementOfSeq DEF Path
<1> DEFINE n == Len(p) - 1
<1>2. /\ n \in Nat /\ \A i \in 1..n : p[i] = q[i] /\ p[i] \in Names
  BY <1>1
<1>3. SubSeq(p, 1, n) = SubSeq(q, 1, n)
  <2> HIDE DEF n
  <2>1. /\ SubSeq(p, 1, n) \in Seq(Names) /\ Len(SubSeq(p, 1, n)) = IF 1 <= n THEN n - 1 + 1 ELSE 0
        /\ \A i \in 1 .. n - 1 + 1 : SubSeq(p, 1, n)[i] = p[1 + i - 1]
    BY <1>2, SubSeqProperties
  <2>2. /\ SubSeq(q, 1, n) \in Seq(Names) /\ Len(SubSeq(q, 1, n)) = IF 1 <= n THEN n - 1 + 1 ELSE 0
        /\ \A i \in 1 .. n - 1 + 1 : SubSeq(q, 1, n)[i] = q[1 + i - 1]
    BY <1>2, SubSeqProperties
  <2>3. \A i \in 1 .. Len(SubSeq(p, 1, n)) : SubSeq(p, 1, n)[i] = SubSeq(q, 1, n)[i]
    BY <1>2, <2>1, <2>2
  <2> QED  BY <2>1, <2>2, <2>3, SeqEqual
<1>4. p[Len(p)] = q[Len(p)] /\ p[Len(p)] \in Names
  BY <1>1
<1>5. <<Last(p), q[Len(p)]>> \in NameStarts
  BY <1>4, FolderAssumption DEF Last
<1> QED  BY <1>1, <1>3, <1>5 DEF StartsWith

LEMMA ReadTargetKeeps ==
  ASSUME FInv, NEW e \in Editors, ReadTarget(e)
  PROVE  FInv'
<1> DEFINE y == edit[e]
           to == y.to
           x == [y EXCEPT !.at = "below", !.new = path[to] \o y.new]
<1>0. y \in Edit /\ y.op = "move" /\ y.at = "target" /\ Rewriting(y) /\ Ready(y)
  BY DEF FInv, FoldersTypeOK, ReadTarget, EditAt, Rewriting, EditOK
<1>1. CASE to \in Stored /\ ~StartsWith(y.old, path[to])
  <2>1. PICK n \in Names : y.new = <<n>>
    BY <1>0 DEF Ready
  <2>2. /\ path[to] \in Path /\ y.folder \in Stored /\ y.old = path[y.folder] /\ y.old \in Path \ {<<>>}
    BY <1>0, <1>1, StoredPath DEF FInv, Ready
  <2>3. /\ path[to] \o y.new \in Seq(Names) /\ path[to] \o y.new # <<>>
        /\ Front(path[to] \o y.new) = path[to]
    <3>1. path[to] \o y.new = Append(path[to], n)
      BY <2>1, <2>2, AppendFacts
    <3> HIDE DEF to, y
    <3> QED  BY <2>2, <3>1, AppendFacts DEF Path
  <2>4. /\ x.op = "move" /\ x.at = "below" /\ x.folder = y.folder /\ x.to = to /\ x.old = y.old
        /\ x.new = path[to] \o y.new /\ x \in Edit
    BY <1>0, <2>3 DEF Edit, EditLabels
  <2>5. edit' = [edit EXCEPT ![e] = x] /\ UNCHANGED <<path, parent>>
    BY <1>1 DEF ReadTarget
  <2> HIDE DEF x
  <2>6. Target(x) = to /\ to # Top /\ PathOf(to) = path[to]
    BY <1>1, <2>4, FolderAssumption DEF Target, PathOf, Stored
  <2>7. ~IsPrefix(x.old, path[to])
    BY <1>1, <2>2, <2>4, PrefixStarts
  <2>8. EditOK(x)
    BY <1>1, <2>2, <2>3, <2>4, <2>6, <2>7 DEF EditOK, Ready
  <2>9. \A d \in Editors : d # e => edit[d] = NoEdit
    BY <1>0 DEF FInv, Apart
  <2> QED  BY <2>4, <2>5, <2>8, <2>9, NoEditOK, EditStep
<1>2. CASE ~(to \in Stored /\ ~StartsWith(y.old, path[to]))
  BY <1>2, EndEditKeeps DEF ReadTarget
<1> QED  BY <1>1, <1>2

LEMMA FindBelowKeeps ==
  ASSUME FInv, NEW e \in Editors, FindBelow(e)
  PROVE  FInv'
<1> DEFINE y == edit[e]
           found == {<<g, path[g]>> : g \in Extending(y.old)}
           x == [y EXCEPT !.at = "write", !.below = found]
<1>0. y \in Edit /\ y.at = "below" /\ y # NoEdit
  BY DEF FInv, FoldersTypeOK, FindBelow, NoEdit
<1>1. Rewriting(y) /\ Ready(y)
  BY <1>0 DEF FInv, EditOK, Creation, Edit, EditOps, Rewriting
<1>2. edit' = [edit EXCEPT ![e] = x] /\ UNCHANGED <<path, parent>>
  BY DEF FindBelow, Extending
<1>3. found \in SUBSET (Folders \X Seq(Names))
  BY DEF FInv, FoldersTypeOK, Extending
<1> HIDE DEF found
<1>4. /\ x.op = y.op /\ x.at = "write" /\ x.folder = y.folder /\ x.to = y.to /\ x.old = y.old
      /\ x.new = y.new /\ x.below = found /\ x \in Edit
  <2> DEFINE T == SUBSET (Folders \X Seq(Names))
  <2>1. Edit = [op : EditOps, at : EditLabels, folder : Folders \cup {Top}, to : Folders \cup {Top},
                old : Seq(Names), new : Seq(Names), below : T]
    BY DEF Edit
  <2>2. found \in T /\ "write" \in EditLabels
    BY <1>3 DEF EditLabels
  <2> HIDE DEF T
  <2> QED  BY <1>0, <2>1, <2>2
<1> HIDE DEF x
<1>5. Target(x) = Target(y)
  BY <1>4 DEF Target
<1>6. EditOK(x)
  BY <1>0, <1>1, <1>4, <1>5 DEF EditOK, Ready, Rewriting, found
<1>7. \A d \in Editors : d # e => edit[d] = NoEdit
  BY <1>1 DEF FInv, Apart
<1>8. x.op # "create"
  BY <1>1, <1>4 DEF Rewriting
<1> QED  BY <1>2, <1>4, <1>6, <1>7, <1>8, NoEditOK, EditStep

\* Writes that leave the rows of the others' requests in place.
LEMMA InsertKeeps ==
  ASSUME FInv, NEW e \in Editors, Insert(e)
  PROVE  FInv'
<1> DEFINE f == edit[e].folder  to == edit[e].to  new == edit[e].new
<1>0. /\ edit[e] # NoEdit /\ edit[e].op = "create" /\ Creation(edit[e]) /\ edit[e] \in Edit
  BY DEF FInv, FoldersTypeOK, Insert, EditAt, NoEdit, EditOK
<1>1. CASE ~(to \in Stored \cup {Top} /\ \A g \in Folders : path[g] # new)
  BY <1>1, EndEditKeeps DEF Insert
<1>2. CASE to \in Stored \cup {Top} /\ \A g \in Folders : path[g] # new
  <2>1. /\ f \in Folders \ Stored /\ f # Top /\ to # f /\ new # <<>> /\ Front(new) = PathOf(to)
    BY <1>0, <1>2, FolderAssumption DEF Creation
  <2>2. /\ path'[f] = new /\ parent'[f] = to
        /\ \A g \in Folders : g # f => path'[g] = path[g] /\ parent'[g] = parent[g]
    BY <1>2, <2>1 DEF Insert, FInv, FoldersTypeOK
  <2>3. /\ Stored' = Stored \cup {f}
        /\ \A g \in Stored : path'[g] = path[g]
    BY <2>1, <2>2, FolderAssumption DEF Stored
  <2>4. PathsAgree'
    <3> SUFFICES ASSUME NEW g \in Stored'
                 PROVE  /\ parent'[g] # Top => parent'[g] \in Stored'
                        /\ Front(path'[g]) = IF parent'[g] = Top THEN <<>> ELSE path'[parent'[g]]
      BY DEF PathsAgree, PathOf
    <3>1. CASE g = f
      BY <1>2, <2>1, <2>2, <2>3, <3>1 DEF PathOf
    <3>2. CASE g # f
      <4>1. /\ g \in Stored /\ g \in Folders /\ parent[g] \in Stored \cup {Top}
            /\ Front(path[g]) = PathOf(parent[g])
        BY <2>3, <3>2 DEF FInv, Tree, PathsAgree, Stored
      <4> QED  BY <2>2, <2>3, <3>2, <4>1 DEF PathOf
    <3> QED  BY <3>1, <3>2
  <2>5. Distinct' /\ Loose'
    BY <1>2, <2>1, <2>2, <2>3 DEF FInv, Tree, Distinct, Loose, Stored
  <2>6. FoldersTypeOK'
    BY InsertType DEF FInv
  <2>7. Apart' /\ edit'[e] = NoEdit /\ \A d \in Editors : d # e => edit'[d] = edit[d]
    BY EndApart DEF Insert
  <2>8. ASSUME NEW d \in Editors PROVE EditOK(edit[d])'
    <3>1. CASE d = e
      BY <2>7, <3>1 DEF EditOK, Rewriting, NoEdit
    <3>2. CASE d # e
      <4>1. /\ EditOK(edit[d]) /\ ~Rewriting(edit[d]) /\ edit'[d] = edit[d]
            /\ f \notin {edit[d].folder, edit[d].to}
        BY <1>0, <2>7, <3>2 DEF FInv, Apart
      <4> QED  BY <2>3, <4>1 DEF EditOK, Creation, Rewriting, PathOf
    <3> QED  BY <3>1, <3>2
  <2> QED  BY <2>4, <2>5, <2>6, <2>7, <2>8 DEF FInv, Tree
<1> QED  BY <1>1, <1>2

\* Who is below a folder's parent is below whatever the parent is below.
LEMMA BelowUp ==
  ASSUME NEW f \in Folders, NEW g, parent[f] = g \/ Below(parent[f], g)
  PROVE  Below(f, g)
BY DEF Below

LEMMA EraseKeeps ==
  ASSUME FInv, NEW e \in Editors, Erase(e)
  PROVE  FInv'
<1> DEFINE f == edit[e].folder  gone == {g \in Stored : g = f \/ Below(g, f)}
<1>0. /\ edit[e].op = "remove" /\ edit[e] # NoEdit
      /\ path' = [g \in Folders |-> IF g \in gone THEN <<>> ELSE path[g]]
      /\ parent' = [g \in Folders |-> IF g \in gone THEN Top ELSE parent[g]]
  BY DEF Erase, EditAt, NoEdit
<1>1. \A g \in Stored : parent[g] \in gone => g \in gone
  BY BelowUp DEF Stored
<1> HIDE DEF gone
<1>2. /\ Stored' = Stored \ gone
      /\ \A g \in Stored' : g \in Folders /\ g \in Stored /\ path'[g] = path[g] /\ parent'[g] = parent[g]
  BY <1>0 DEF Stored
<1>3. PathsAgree'
  <2> SUFFICES ASSUME NEW g \in Stored'
               PROVE  /\ parent'[g] # Top => parent'[g] \in Stored'
                      /\ Front(path'[g]) = IF parent'[g] = Top THEN <<>> ELSE path'[parent'[g]]
    BY DEF PathsAgree, PathOf
  <2>1. /\ g \in Stored /\ g \notin gone /\ path'[g] = path[g] /\ parent'[g] = parent[g]
        /\ parent[g] \in Stored \cup {Top} /\ Front(path[g]) = PathOf(parent[g])
    BY <1>2 DEF FInv, Tree, PathsAgree
  <2>2. parent[g] \in Stored' \cup {Top}
    BY <1>1, <1>2, <2>1
  <2> QED  BY <1>2, <2>1, <2>2 DEF PathOf
<1>4. Distinct' /\ Loose'
  BY <1>0, <1>2 DEF FInv, Tree, Distinct, Loose, Stored
<1>5. FoldersTypeOK'
  BY EraseType DEF FInv
<1>6. Apart' /\ edit'[e] = NoEdit /\ \A d \in Editors : d # e => edit'[d] = edit[d]
  BY EndApart DEF Erase
<1>7. ASSUME NEW d \in Editors PROVE EditOK(edit[d])'
  <2>1. CASE d = e
    BY <1>6, <2>1 DEF EditOK, Rewriting, NoEdit
  <2>2. CASE d # e
    <3>1. EditOK(edit[d]) /\ ~Rewriting(edit[d]) /\ edit'[d] = edit[d]
      BY <1>0, <1>6, <2>2 DEF FInv, Apart
    <3> QED  BY <1>2, <3>1 DEF EditOK, Creation, Rewriting, PathOf
  <2> QED  BY <2>1, <2>2
<1> QED  BY <1>3, <1>4, <1>5, <1>6, <1>7 DEF FInv, Tree

\* What is a prefix of the parent's path is a strict prefix of the folder's.
LEMMA FrontPrefix ==
  ASSUME NEW p \in Path, NEW q \in Path, q # <<>>
  PROVE  IsPrefix(p, Front(q)) <=> IsStrictPrefix(p, q)
<1>1. /\ Len(p) \in Nat /\ Len(q) \in Nat \ {0} /\ Front(q) \in Path /\ Len(Front(q)) = Len(q) - 1
      /\ \A i \in 1 .. Len(q) - 1 : Front(q)[i] = q[i]
  BY LenProperties, FrontFacts DEF Path
<1>2. ASSUME IsPrefix(p, Front(q)) PROVE IsStrictPrefix(p, q)
  <2>1. Len(p) <= Len(q) - 1 /\ \A i \in 1..Len(p) : p[i] = Front(q)[i]
    BY <1>1, <1>2, PrefixFacts
  <2>2. \A i \in 1..Len(p) : p[i] = q[i]
    BY <1>1, <2>1
  <2> QED  BY <1>1, <2>1, <2>2, PrefixFacts DEF IsStrictPrefix
<1>3. ASSUME IsStrictPrefix(p, q) PROVE IsPrefix(p, Front(q))
  <2>1. Len(p) <= Len(q) - 1 /\ \A i \in 1..Len(p) : p[i] = q[i]
    BY <1>1, <1>3, PrefixLess, PrefixFacts DEF IsStrictPrefix
  <2>2. \A i \in 1..Len(p) : p[i] = Front(q)[i]
    BY <1>1, <2>1
  <2> QED  BY <1>1, <2>1, <2>2, PrefixFacts
<1> QED  BY <1>2, <1>3

\* The path of a parent, if there is one.
LEMMA ParentPath ==
  ASSUME FoldersTypeOK, Tree, NEW g \in Folders, parent[g] # Top
  PROVE  /\ g \in Stored /\ parent[g] \in Stored /\ path[parent[g]] = Front(path[g])
         /\ path[g] \in Path /\ path[g] # <<>> /\ path[parent[g]] \in Path
         /\ \A p \in Path : IsPrefix(p, path[parent[g]]) <=> IsStrictPrefix(p, path[g])
<1>1. g \in Stored /\ parent[g] \in Stored /\ path[parent[g]] = Front(path[g])
  BY DEF Tree, Loose, PathsAgree, PathOf
<1>2. path[g] \in Path /\ path[g] # <<>> /\ path[parent[g]] \in Path
  BY <1>1, StoredPath
<1> QED  BY <1>1, <1>2, FrontPrefix

LEMMA PrefixItself ==
  ASSUME NEW p \in Path
  PROVE  IsPrefix(p, p)
BY LenProperties DEF IsPrefix, Path

\* The rows whose path starts with the old one get the new one in its place,
\* and the tree of the parents moves along.
LEMMA RewriteTree ==
  ASSUME FInv, NEW e \in Editors, Rewriting(edit[e]), Ready(edit[e]), edit[e].at = "write",
         path' = Rewritten(edit[e]),
         parent' = IF edit[e].op = "move"
                   THEN [parent EXCEPT ![edit[e].folder] = edit[e].to] ELSE parent,
         \A g, x \in Stored : Rewritten(edit[e])[g] = Rewritten(edit[e])[x] => g = x
  PROVE  Tree'
<1> DEFINE y == edit[e]  f == y.folder  old == y.old  new == y.new
<1>0. FoldersTypeOK /\ Tree /\ y \in Edit
  BY DEF FInv, FoldersTypeOK
<1>1. /\ f \in Stored /\ f \in Folders /\ f # Top /\ old = path[f] /\ old \in Path /\ old # <<>>
      /\ new \in Path /\ new # <<>> /\ Len(old) \in Nat \ {0}
  BY <1>0, StoredPath, FolderAssumption DEF Ready, Edit, Path
<1>2. /\ Target(y) \in Stored \cup {Top} /\ Front(new) = PathOf(Target(y))
      /\ Target(y) # Top => ~IsPrefix(old, path[Target(y)])
      /\ y.below = {<<g, path[g]>> : g \in Extending(old)}
  BY DEF Ready
<1>3. RowsBelow(y) = Extending(old) /\ \A g \in Extending(old) : Was(y, g) = path[g]
  <2>1. RowsBelow(y) = Extending(old)
    <3>1. ASSUME NEW g \in Extending(old) PROVE g \in RowsBelow(y)
      <4>1. <<g, path[g]>> \in y.below
        BY <1>2
      <4>2. <<g, path[g]>>[1] \in RowsBelow(y)
        BY <4>1 DEF RowsBelow
      <4> QED  BY <4>2
    <3>2. ASSUME NEW g \in RowsBelow(y) PROVE g \in Extending(old)
      <4>1. PICK b \in y.below : g = b[1]
        BY DEF RowsBelow
      <4>2. PICK k \in Extending(old) : b = <<k, path[k]>>
        BY <1>2
      <4> QED  BY <4>1, <4>2
    <3>3. \A g : g \in RowsBelow(y) <=> g \in Extending(old)
      BY <3>1, <3>2
    <3> QED  BY <3>3, SetExtensionality
  <2>2. ASSUME NEW g \in Extending(old) PROVE Was(y, g) = path[g]
    <3>1. <<g, Was(y, g)>> \in y.below
      BY <1>0, <2>1, WasFacts
    <3> QED  BY <1>2, <3>1
  <2> QED  BY <2>1, <2>2
<1>4. ASSUME NEW g \in Folders
      PROVE  path'[g] = IF g \in Extending(old) THEN Moved(old, new, path[g])
                        ELSE IF g = f THEN new ELSE path[g]
  BY <1>3 DEF Rewritten
<1>5. ASSUME NEW g \in Stored
      PROVE  path'[g] = IF IsPrefix(old, path[g]) THEN Moved(old, new, path[g]) ELSE path[g]
  <2>1. g \in Folders /\ path[g] \in Path
    BY <1>0, StoredPath
  <2>2. CASE g = f
    <3>1. f \notin Extending(old) /\ IsPrefix(old, path[f])
      BY <1>1, PrefixItself DEF Extending, IsStrictPrefix
    <3> QED  BY <1>1, <1>4, <2>1, <2>2, <3>1, MovedNothing
  <2>3. CASE g # f
    <3>1. path[g] # old
      BY <1>0, <1>1, <2>3 DEF Tree, Distinct
    <3> QED  BY <1>4, <2>1, <2>3, <3>1 DEF Extending, IsStrictPrefix
  <2> QED  BY <2>2, <2>3
<1>6. Stored' = Stored
  <2>1. ASSUME NEW g \in Stored PROVE path'[g] # <<>> /\ g \in Folders
    <3>1. path[g] \in Path /\ path[g] # <<>> /\ g \in Folders
      BY <1>0, StoredPath
    <3>2. Moved(old, new, path[g]) # <<>>
      BY <1>1, <3>1, MovedFacts
    <3> QED  BY <1>5, <3>1, <3>2
  <2>2. ASSUME NEW g \in Folders, g \notin Stored PROVE path'[g] = <<>>
    <3>1. path[g] = <<>> /\ <<>> \in Path /\ Len(<<>>) = 0
      BY <2>2, EmptySeq DEF Stored, Path
    <3>2. g \notin Extending(old)
      BY <1>1, <3>1, PrefixLess DEF Extending, IsStrictPrefix
    <3> QED  BY <1>1, <1>4, <2>2, <3>1, <3>2
  <2> QED  BY <2>1, <2>2 DEF Stored
<1>7. parent'[f] = Target(y) /\ \A g \in Folders : g # f => parent'[g] = parent[g]
  BY <1>0, <1>1 DEF Target, FoldersTypeOK, Rewriting
<1>8. ASSUME NEW g \in Stored, g # f
      PROVE  /\ parent'[g] # Top => parent'[g] \in Stored
             /\ Front(path'[g]) = IF parent'[g] = Top THEN <<>> ELSE path'[parent'[g]]
  <2>1. /\ g \in Folders /\ parent'[g] = parent[g] /\ path[g] \in Path /\ path[g] # <<>>
        /\ Front(path[g]) = PathOf(parent[g])
    BY <1>0, <1>7, <1>8, StoredPath DEF Tree, PathsAgree
  <2>2. CASE parent[g] = Top
    <3>1. Front(path[g]) = <<>> /\ <<>> \in Path /\ Len(<<>>) = 0
      BY <2>1, <2>2, EmptySeq DEF PathOf, Path
    <3>2. ~IsPrefix(old, <<>>)
      BY <1>1, <3>1, PrefixLess
    <3>3. ~IsStrictPrefix(old, path[g])
      BY <1>1, <2>1, <3>1, <3>2, FrontPrefix
    <3>4. path[g] # old
      BY <1>0, <1>1, <1>8 DEF Tree, Distinct
    <3> QED  BY <1>5, <2>1, <2>2, <3>1, <3>3, <3>4 DEF IsStrictPrefix
  <2>3. CASE parent[g] # Top
    <3>1. /\ parent[g] \in Stored /\ path[parent[g]] = Front(path[g])
          /\ IsPrefix(old, path[parent[g]]) <=> IsStrictPrefix(old, path[g])
      BY <1>0, <1>1, <2>1, <2>3, ParentPath
    <3>2. IsPrefix(old, path[g]) <=> IsStrictPrefix(old, path[g])
      BY <1>0, <1>1, <1>8 DEF Tree, Distinct, IsStrictPrefix
    <3>3. CASE IsStrictPrefix(old, path[g])
      <4>1. Len(old) < Len(path[g])
        BY <1>1, <2>1, <3>3, PrefixLess DEF IsStrictPrefix
      <4>2. Front(Moved(old, new, path[g])) = Moved(old, new, path[parent[g]])
        BY <1>1, <2>1, <3>1, <4>1, MovedFront
      <4> QED  BY <1>5, <2>1, <2>3, <3>1, <3>2, <3>3, <4>2
    <3>4. CASE ~IsStrictPrefix(old, path[g])
      BY <1>5, <2>1, <2>3, <3>1, <3>2, <3>4
    <3> QED  BY <3>3, <3>4
  <2> QED  BY <2>2, <2>3
<1>9. /\ parent'[f] # Top => parent'[f] \in Stored
      /\ Front(path'[f]) = IF parent'[f] = Top THEN <<>> ELSE path'[parent'[f]]
  <2>1. path'[f] = new
    BY <1>1, <1>4 DEF Extending, IsStrictPrefix
  <2> QED  BY <1>2, <1>5, <1>7, <2>1 DEF PathOf
<1>10. PathsAgree'
  BY <1>6, <1>8, <1>9 DEF PathsAgree, PathOf
<1>11. Distinct'
  BY <1>6 DEF Distinct
<1>12. Loose'
  BY <1>0, <1>1, <1>6, <1>7 DEF Tree, Loose
<1> QED  BY <1>10, <1>11, <1>12 DEF Tree

LEMMA RewriteKeeps ==
  ASSUME FInv, NEW e \in Editors, Rewrite(e)
  PROVE  FInv'
<1>0. /\ EndEdit(e) /\ Rewriting(edit[e]) /\ Ready(edit[e]) /\ edit[e].at = "write"
  BY RewriteFacts DEF FInv, EditOK, Rewriting
<1>1. CASE UNCHANGED <<path, parent>>
  BY <1>0, <1>1, EndEditKeeps
<1>2. CASE ~UNCHANGED <<path, parent>>
  <2>1. Tree'
    BY <1>0, <1>2, RewriteFacts, RewriteTree
  <2>2. FoldersTypeOK'
    BY RewriteType DEF FInv
  <2>3. Apart' /\ edit'[e] = NoEdit /\ \A d \in Editors : d # e => edit'[d] = edit[d]
    BY <1>0, EndApart
  <2>4. \A d \in Editors : edit'[d] = NoEdit
    BY <1>0, <2>3 DEF FInv, Apart
  <2>5. ASSUME NEW d \in Editors PROVE EditOK(edit[d])'
    <3>1. edit'[d] = NoEdit
      BY <2>4
    <3> QED  BY <3>1 DEF EditOK, Rewriting, NoEdit
  <2> QED  BY <2>1, <2>2, <2>3, <2>5 DEF FInv
<1> QED  BY <1>1, <1>2

LEMMA FoldersInit == InitFolders => FInv
<1> SUFFICES ASSUME InitFolders PROVE FInv
  OBVIOUS
<1>1. Stored = {} /\ Tree
  BY DEF InitFolders, Stored, Tree, PathsAgree, Distinct, Loose
<1>2. \A e \in Editors : edit[e] = NoEdit
  BY DEF InitFolders
<1> QED  BY <1>1, <1>2, FoldersTypeInit, NoEditOK DEF FInv, Apart

LEMMA FoldersNext ==
  ASSUME ~FolderOverlap, FInv, [NextFolders]_folderVars
  PROVE  FInv'
<1>1. CASE UNCHANGED folderVars
  <2>1. FoldersTypeOK'
    BY <1>1 DEF folderVars, FInv, FoldersTypeOK
  <2>2. Tree' /\ Apart'
    BY <1>1 DEF folderVars, FInv, Tree, PathsAgree, Distinct, Loose, Stored, PathOf, Apart, Rewriting
  <2>3. \A e \in Editors : EditOK(edit[e])'
    BY <1>1 DEF folderVars, FInv, EditOK, Creation, Rewriting, Ready, Target, Extending, Stored, PathOf
  <2> QED  BY <2>1, <2>2, <2>3 DEF FInv
<1>2. CASE \E e \in Editors, f \in Folders, to \in Folders \cup {Top} :
             Move(e, f, to) \/ \E name \in Names : Create(e, f, to, name)
  BY <1>2, MoveFolderKeeps, CreateFolderKeeps
<1>3. CASE \E e \in Editors, f \in Folders :
             Discard(e, f) \/ \E name \in Names : Rename(e, f, name)
  BY <1>3, DiscardKeeps, RenameKeeps
<1>4. CASE \E e \in Editors :
             Insert(e) \/ ReadTarget(e) \/ FindBelow(e) \/ Rewrite(e) \/ Erase(e)
  BY <1>4, InsertKeeps, ReadTargetKeeps, FindBelowKeeps, RewriteKeeps, EraseKeeps
<1> QED  BY <1>1, <1>2, <1>3, <1>4 DEF NextFolders

LEMMA FoldersInvariant ==
  ASSUME ~FolderOverlap
  PROVE  FoldersSpec => []FInv
BY FoldersInit, FoldersNext, PTL DEF FoldersSpec
-----------------------------------------------------------------------------
(***************************************************************************)
(* The tree                                                                *)
(***************************************************************************)
\* Below a folder are those whose path goes on from its path.
LEMMA BelowHasPrefix ==
  ASSUME FoldersTypeOK, Tree, NEW f \in Folders, NEW g \in Stored, Below(f, g)
  PROVE  f \in Stored /\ IsStrictPrefix(path[g], path[f])
<1> DEFINE S == {x \in Stored : IsStrictPrefix(path[g], path[x])}
<1>1. g \in Folders /\ path[g] \in Path /\ S \in SUBSET Folders
  BY StoredPath DEF Stored
<1>2. ASSUME NEW x \in Folders, parent[x] \in S \cup {g} PROVE x \in S
  <2>1. parent[x] # Top
    BY <1>1, <1>2, FolderAssumption
  <2>2. IsPrefix(path[g], path[parent[x]])
    BY <1>1, <1>2, PrefixItself DEF IsStrictPrefix
  <2> QED  BY <1>1, <2>1, <2>2, ParentPath
<1>3. f \in S
  <2> HIDE DEF S
  <2> QED  BY <1>1, <1>2 DEF Below
<1> QED  BY <1>3

LEMMA PrefixIsBelow ==
  ASSUME FoldersTypeOK, Tree, NEW f \in Stored, NEW g \in Stored,
         IsStrictPrefix(path[g], path[f])
  PROVE  Below(f, g)
<1> SUFFICES ASSUME NEW S \in SUBSET Folders, f \notin S,
                    \A x \in Folders : parent[x] \in S \cup {g} => x \in S
             PROVE  FALSE
  BY DEF Below, Stored
<1> DEFINE Out == {x \in Stored : IsStrictPrefix(path[g], path[x]) /\ x \notin S}
           T == {Len(path[x]) : x \in Out}
<1>0. path[g] \in Path /\ path[g] # <<>> /\ Len(path[g]) \in Nat \ {0}
  BY StoredPath
<1>1. T \subseteq Nat /\ T # {}
  <2>1. \A x \in Out : Len(path[x]) \in Nat
    BY StoredPath
  <2>2. f \in Out
    OBVIOUS
  <2> QED  BY <2>1, <2>2
<1>2. PICK n \in T : \A m \in T : n <= m
  <2> HIDE DEF T
  <2> QED  BY <1>1, Shortest
<1>3. PICK x \in Out : n = Len(path[x])
  OBVIOUS
<1>4. /\ x \in Folders /\ path[x] \in Path /\ path[x] # <<>> /\ Len(path[x]) \in Nat \ {0}
      /\ Front(path[x]) = PathOf(parent[x]) /\ Len(Front(path[x])) = Len(path[x]) - 1
      /\ IsPrefix(path[g], Front(path[x])) /\ Front(path[x]) \in Path
  BY <1>0, StoredPath, FrontFacts, FrontPrefix DEF Tree, PathsAgree
<1>5. parent[x] # Top
  <2>1. Len(Front(path[x])) # 0
    <3> HIDE DEF T, Out
    <3>1. Len(path[g]) <= Len(Front(path[x]))
      BY <1>0, <1>4, PrefixLess
    <3>2. Len(path[g]) \in Nat \ {0} /\ Len(Front(path[x])) \in Nat
      BY <1>0, <1>4, LenProperties DEF Path
    <3> DEFINE a == Len(path[g])  b == Len(Front(path[x]))
    <3> HIDE DEF a, b
    <3>3. a \in Nat \ {0} /\ b \in Nat /\ a <= b
      BY <3>1, <3>2 DEF a, b
    <3>4. b # 0
      BY <3>3
    <3> QED  BY <3>4 DEF b
  <2> QED  BY <1>4, <2>1, EmptySeq DEF PathOf
<1>6. parent[x] \in Stored /\ path[parent[x]] = Front(path[x])
  BY <1>4, <1>5, ParentPath
<1>7. CASE path[parent[x]] = path[g]
  <2>1. parent[x] = g
    BY <1>6, <1>7 DEF Tree, Distinct
  <2> QED  BY <1>4, <2>1
<1>8. CASE path[parent[x]] # path[g]
  <2>1. IsStrictPrefix(path[g], path[parent[x]])
    BY <1>4, <1>6, <1>8 DEF IsStrictPrefix
  <2>2. CASE parent[x] \in S
    BY <1>4, <2>2
  <2>3. CASE parent[x] \notin S
    <3>1. Len(path[parent[x]]) \in T
      BY <1>6, <2>1, <2>3
    <3> QED  BY <1>2, <1>3, <1>4, <1>6, <3>1
  <2> QED  BY <2>2, <2>3
<1> QED  BY <1>7, <1>8

\* PathsAgree: when no rename or move overlaps another change, each row's path
\* is its parent's and one name more, whatever creations and deletions run at
\* the same time.
THEOREM PathsKept ==
  ASSUME ~FolderOverlap
  PROVE  FoldersSpec => []PathsAgree
<1>1. FInv => PathsAgree
  BY DEF FInv, Tree
<1> QED  BY <1>1, FoldersInvariant, PTL

\* ScopeIsSubtree: then what a visitor of a shared folder is shown by path is
\* what is below the folder in the tree, for trees of any depth.
THEOREM Scope ==
  ASSUME ~FolderOverlap
  PROVE  FoldersSpec => []ScopeIsSubtree
<1>1. ASSUME FInv PROVE ScopeIsSubtree
  BY <1>1, BelowHasPrefix, PrefixIsBelow DEF FInv, ScopeIsSubtree, Stored
<1> QED  BY <1>1, FoldersInvariant, PTL

\* NoFolderInItself: then no folder gets below itself, the check that two moves
\* at a time defeat.
THEOREM NoCycle ==
  ASSUME ~FolderOverlap
  PROVE  FoldersSpec => []NoFolderInItself
<1>1. ASSUME FInv, NEW f \in Folders, Below(f, f) PROVE FALSE
  <2>0. FoldersTypeOK /\ Tree
    BY <1>1 DEF FInv
  <2>1. CASE f \in Stored
    BY <1>1, <2>0, <2>1, BelowHasPrefix DEF IsStrictPrefix
  <2>2. CASE f \notin Stored
    <3>1. \A x \in Folders : parent[x] # f
      BY <1>1, <2>0, <2>2, ParentPath, FolderAssumption
    <3>2. \A x \in Folders : parent[x] \in {} \cup {f} => x \in {}
      BY <3>1
    <3>3. f \in {}
      BY <1>1, <3>2 DEF Below
    <3> QED  BY <3>3
  <2> QED  BY <2>1, <2>2
<1>2. FInv => NoFolderInItself
  BY <1>1 DEF NoFolderInItself
<1> QED  BY <1>2, FoldersInvariant, PTL
=============================================================================
