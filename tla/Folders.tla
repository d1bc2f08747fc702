------------------------------ MODULE Folders ------------------------------
(***************************************************************************)
(* The folders of one owner in the storage service.  A row holds its       *)
(* parent and, once more, the whole path of names down to it, which        *)
(* renaming and moving rewrite for the folder and everything below it.     *)
(* Share links of a folder are scoped by the path, the listings and the    *)
(* cascade of the database by the parent.                                  *)
(*                                                                         *)
(* Each awaited call is a step.  The look for a folder of the same path    *)
(* has no step of its own: the unique index of the path, which decides     *)
(* when the rows are written, refuses whatever it would find.              *)
(***************************************************************************)
EXTENDS Naturals, SequencesExt

CONSTANTS
  Folders,      \* folder ids
  Top,          \* the parent of a folder at the top: null
  Names,        \* sanitized folder names; none contains a slash
  NameStarts,   \* pairs of names of which the second starts with the first
  Editors,      \* requests of the owner
  FolderOverlap \* whether a rename or a move runs beside other changes

ASSUME FolderAssumption == /\ Top \notin Folders /\ FolderOverlap \in BOOLEAN
                           /\ NameStarts \subseteq Names \X Names
                           /\ \A n \in Names : <<n, n>> \in NameStarts

VARIABLES
  path,    \* Folder.path as a sequence of names; empty if there is no row
  parent,  \* Folder.parentId
  edit     \* the requests

folderVars == <<path, parent, edit>>

EditOps == {"create", "rename", "move", "remove"}
EditLabels == {"idle", "target", "below", "write"}

\* folder, to: the arguments.  old, new, below: the path of the folder as
\* read, the path it is to have (its name, until the target is read), and the
\* rows read below it.
NoEdit == [op |-> "create", at |-> "idle", folder |-> Top, to |-> Top,
           old |-> <<>>, new |-> <<>>, below |-> {}]

Edit == [op : EditOps, at : EditLabels, folder : Folders \cup {Top}, to : Folders \cup {Top},
         old : Seq(Names), new : Seq(Names), below : SUBSET (Folders \X Seq(Names))]

FoldersTypeOK ==
  /\ path \in [Folders -> Seq(Names)]
  /\ parent \in [Folders -> Folders \cup {Top}]
  /\ edit \in [Editors -> Edit]

InitFolders ==
  /\ path = [f \in Folders |-> <<>>]
  /\ parent = [f \in Folders |-> Top]
  /\ edit = [e \in Editors |-> NoEdit]

Stored == {f \in Folders : path[f] # <<>>}
NameOf(f) == Last(path[f])
PathOf(f) == IF f = Top THEN <<>> ELSE path[f]

\* startsWith of the strings: the last name of p may go on in q.
StartsWith(p, q) ==
  /\ Len(p) <= Len(q) /\ SubSeq(p, 1, Len(p) - 1) = SubSeq(q, 1, Len(p) - 1)
  /\ <<Last(p), q[Len(p)]>> \in NameStarts

\* f is a descendant of g: it is in every set that has the children of g and
\* those of its own members.
Below(f, g) ==
  \A S \in SUBSET Folders :
    (\A x \in Folders : parent[x] \in S \cup {g} => x \in S) => f \in S

\* Ids are never given out twice: an id that nothing refers to stands for a
\* new one.
Fresh(f) ==
  /\ f \notin Stored
  /\ \A e \in Editors : f \notin {edit[e].folder, edit[e].to} \cup {b[1] : b \in edit[e].below}

\* A rename or a move, which rewrites rows it has read, runs alone.
MayBegin(op) ==
  \/ FolderOverlap
  \/ \A e \in Editors : edit[e] # NoEdit => op \notin {"rename", "move"}
                                           /\ edit[e].op \notin {"rename", "move"}

Begin(e, request) ==
  /\ edit[e] = NoEdit /\ MayBegin(request.op)
  /\ edit' = [edit EXCEPT ![e] = request]
  /\ UNCHANGED <<path, parent>>

EndEdit(e) == edit' = [edit EXCEPT ![e] = NoEdit]
EditAt(e, op, label) == edit[e].op = op /\ edit[e].at = label
-----------------------------------------------------------------------------
\* Faulty: the paths below are left as they are.
FindBelowNone(e) ==
  /\ edit[e].at = "below"
  /\ edit' = [edit EXCEPT ![e].at = "write"]
  /\ UNCHANGED <<path, parent>>

\* Faulty: a folder may be moved to anywhere.
ReadTargetAny(e) ==
  LET to == edit[e].to IN
  /\ EditAt(e, "move", "target")
  /\ IF to \in Stored
     THEN edit' = [edit EXCEPT ![e].at = "below", ![e].new = path[to] \o edit[e].new]
     ELSE EndEdit(e)
  /\ UNCHANGED <<path, parent>>
-----------------------------------------------------------------------------
(***************************************************************************)
(* createFolder, and the top folder that an upload names                   *)
(***************************************************************************)
Create(e, f, to, name) ==
  /\ Fresh(f)
  /\ to \in Stored \cup {Top}
  /\ Begin(e, [NoEdit EXCEPT !.op = "create", !.at = "write", !.folder = f, !.to = to,
                             !.new = Append(PathOf(to), name)])

Insert(e) ==
  LET f == edit[e].folder  to == edit[e].to IN
  /\ EditAt(e, "create", "write")
  /\ IF to \in Stored \cup {Top} /\ \A g \in Folders : path[g] # edit[e].new
     THEN path' = [path EXCEPT ![f] = edit[e].new] /\ parent' = [parent EXCEPT ![f] = to]
     ELSE UNCHANGED <<path, parent>>
  /\ EndEdit(e)
-----------------------------------------------------------------------------
(***************************************************************************)
(* renameFolder and moveFolder                                             *)
(***************************************************************************)
\* The parent of the new path is cut from the old one.
Rename(e, f, name) ==
  /\ f \in Stored
  /\ Begin(e, [NoEdit EXCEPT !.op = "rename", !.at = "below", !.folder = f,
                             !.old = path[f], !.new = Append(Front(path[f]), name)])

Move(e, f, to) ==
  /\ f \in Stored
  /\ Begin(e, [NoEdit EXCEPT !.op = "move", !.at = IF to = Top THEN "below" ELSE "target",
                             !.folder = f, !.to = to, !.old = path[f],
                             !.new = <<NameOf(f)>>])

ReadTarget(e) ==
  LET to == edit[e].to IN
  /\ EditAt(e, "move", "target")
  /\ IF to \in Stored /\ ~StartsWith(edit[e].old, path[to])
     THEN edit' = [edit EXCEPT ![e].at = "below", ![e].new = path[to] \o edit[e].new]
     ELSE EndEdit(e)
  /\ UNCHANGED <<path, parent>>

FindBelow(e) ==
  /\ edit[e].at = "below"
  /\ edit' = [edit EXCEPT ![e].at = "write",
                ![e].below = {<<g, path[g]>> : g \in {x \in Folders : IsStrictPrefix(edit[e].old, path[x])}}]
  /\ UNCHANGED <<path, parent>>

\* One transaction: the folder, then each row that was below it.  A row or a
\* parent that is gone, or a path that is taken, rolls everything back.
Rewrite(e) ==
  LET f == edit[e].folder  old == edit[e].old  new == edit[e].new  to == edit[e].to
      below == [g \in {b[1] : b \in edit[e].below} |->
                  LET was == (CHOOSE b \in edit[e].below : b[1] = g)[2] IN
                  new \o SubSeq(was, Len(old) + 1, Len(was))]
      paths == [g \in Folders |-> IF g \in DOMAIN below THEN below[g] ELSE IF g = f THEN new ELSE path[g]] IN
  /\ edit[e].op \in {"rename", "move"} /\ edit[e].at = "write"
  /\ IF /\ {f} \cup DOMAIN below \subseteq Stored
        /\ edit[e].op = "move" => to \in Stored \cup {Top}
        /\ \A g, x \in Stored : paths[g] = paths[x] => g = x
     THEN /\ path' = paths
          /\ parent' = IF edit[e].op = "move" THEN [parent EXCEPT ![f] = to] ELSE parent
     ELSE UNCHANGED <<path, parent>>
  /\ EndEdit(e)
-----------------------------------------------------------------------------
(***************************************************************************)
(* deleteFolder: the count of the contents, then the row, with which the   *)
(* database deletes whatever is below it by then                           *)
(***************************************************************************)
Discard(e, f) ==
  /\ f \in Stored /\ \A g \in Stored : parent[g] # f
  /\ Begin(e, [NoEdit EXCEPT !.op = "remove", !.at = "write", !.folder = f])

Erase(e) ==
  LET f == edit[e].folder
      gone == {g \in Stored : g = f \/ Below(g, f)} IN
  /\ EditAt(e, "remove", "write")
  /\ path' = [g \in Folders |-> IF g \in gone THEN <<>> ELSE path[g]]
  /\ parent' = [g \in Folders |-> IF g \in gone THEN Top ELSE parent[g]]
  /\ EndEdit(e)
-----------------------------------------------------------------------------
NextFolders ==
  \/ \E e \in Editors, f \in Folders, to \in Folders \cup {Top} :
       Move(e, f, to) \/ \E name \in Names : Create(e, f, to, name)
  \/ \E e \in Editors, f \in Folders :
       Discard(e, f) \/ \E name \in Names : Rename(e, f, name)
  \/ \E e \in Editors :
       Insert(e) \/ ReadTarget(e) \/ FindBelow(e) \/ Rewrite(e) \/ Erase(e)

FoldersSpec == InitFolders /\ [][NextFolders]_folderVars
-----------------------------------------------------------------------------
\* The path of a row is the path of its parent and one name more: every
\* rename and move keeps the whole subtree in step, creations and deletions
\* that overlap included.
PathsAgree ==
  \A f \in Stored :
    /\ parent[f] # Top => parent[f] \in Stored
    /\ Front(path[f]) = PathOf(parent[f])

\* A visitor of a shared folder is shown the files of a folder by its path
\* (startsWith of the root's path and a slash): these are the folders below
\* the root in the tree, and no others.
ScopeIsSubtree ==
  \A f, g \in Stored : (IsStrictPrefix(path[g], path[f]) <=> Below(f, g))

\* "Cannot move folder into its own subfolder".
NoFolderInItself == \A f \in Folders : ~Below(f, f)
=============================================================================
