------------------------------- MODULE FileManager -------------------------------
(***************************************************************************)
(* lib/server/modules/files/service.ts and trash-service.ts: requests that *)
(* create, upload, save, paste, rename, trash, restore and delete entries  *)
(* of one file system. Each looks at the tree, waits, and acts on the path *)
(* it looked at; whatever it finds there then is what it acts on. Nothing  *)
(* is locked. The trash is a directory, and a row tells where each of its  *)
(* entries came from.                                                      *)
(*                                                                         *)
(* An item is a folder or one content of a file: saving puts a new item in *)
(* place of the old one. Where an item lies is its folder and its label,   *)
(* so that a folder takes along what is in it. Permissions, symbolic links,*)
(* hidden names and the copying of moves between file systems are left out.*)
(* So is a trash that is itself moved, copied or renamed.                  *)
(***************************************************************************)
EXTENDS Naturals, Sequences, FiniteSets

CONSTANTS
    Item, Folder,    \* Folder: the items that are folders
    Name,
    MaxSuffix,       \* bound on the number in "name (2)"
    FileRequest,         \* bound: requests, each made once
    Asks,            \* bound: what they ask for, a subset of Ask
    Place0,          \* bound: where the items may lie at first
    Unborn,          \* of an item that does not exist yet
    Root, Bin,       \* the root of the files and the trash
    Nothing,
    MaxTroubles      \* bound: database errors and restarts

VARIABLES
    place,      \* of each item: folder and label, or Unborn, or None once it is gone
    origin,     \* files_trash_entries: of each label in the trash, the original path
    starred,    \* files_starred_paths
    step, ask,  \* where a request stands, and what it asks for
    target,     \* the path it has chosen
    todo,       \* labels an emptying has still to remove
    agreed,     \* history: items each request saw and was asked to do away with
    surprised,  \* history: requests under which another changed the tree
    culprits,   \* history: requests that did away with an item nobody agreed to
    troubles

filesVars == <<place, origin, starred, step, ask, target, todo, agreed, surprised, culprits, troubles>>

-------------------------------------------------------------------------------
(* Paths: Root or Bin, then labels *)

Label == Name \X (0..MaxSuffix)     \* <<"a", 2>> is "a (2)", <<"a", 0>> is "a"
File  == Item \ Folder
Path  == {<<top>> : top \in {Root, Bin}}
         \cup {<<top, a>> : top \in {Root, Bin}, a \in Label}
         \cup {<<top, a, b>> : top \in {Root, Bin}, a, b \in Label}

BaseName(p)   == p[Len(p)]
Parent(p) == SubSeq(p, 1, Len(p) - 1)
Below(p, q) == Len(p) < Len(q) /\ SubSeq(q, 1, Len(p)) = p

Placed(i)        == place[i] \notin {Unborn, Nothing}
Lies(dir, label) == {i \in Item : place[i] = <<dir, label>>}
TheOne(S) == IF S = {} THEN Nothing ELSE CHOOSE i \in S : TRUE

\* The directory a path names, or None: its items have it as their folder.
Top(p) == IF Len(p) = 1 THEN p[1]
          ELSE LET i == TheOne(Lies(p[1], p[2])) IN IF i \in Folder THEN i ELSE Nothing
At(p)  == IF Len(p) = 1 THEN p[1] ELSE TheOne(Lies(Top(Parent(p)), BaseName(p)))

\* What lies in a folder, at any depth: in every set of folders that
\* holds those inside it.
Inside(S) == {j \in Item : Placed(j) /\ place[j][1] \in S}
Nested(i) == {f \in Folder \cup {i} :
                 \A S \in SUBSET Folder : Inside(S \cup {i}) \cap Folder \subseteq S => f \in S \cup {i}}
Within(i) == {i} \cup Inside(Nested(i))

Mode == {Nothing, "fail", "skip", "replace", "keep-both"}
Ask  == [op: {"createFolder", "createFile", "upload", "save", "move", "copy", "rename",
              "trash", "restore", "delete", "empty"},
         path: Path,      \* what it is about
         to: Path,        \* the directory to paste into, or the new name
         mode: Mode]      \* what to do if something is there

Step == {"idle", "making", "comparing", "saving", "replacing", "moving", "copying", "unstarring", "starring",
         "recording", "forgetting", "removing", "clearing", "remaking", "emptying", "done"}

FileManagerAssumption ==
    /\ Folder \subseteq Item
    /\ Root # Bin /\ {Root, Bin, Nothing} \cap Item = {} /\ Nothing \notin {Root, Bin}
    /\ Unborn # Nothing /\ {Unborn, Nothing} \cap ((Folder \cup {Root, Bin, Nothing}) \X Label) = {}
    /\ Nothing \notin Asks /\ Nothing \notin Path
    /\ MaxSuffix \in Nat /\ MaxTroubles \in Nat
    \* bound: paths are no deeper than Path, and of the root and the trash themselves, which most
    \* requests refuse, only the deletion of the trash is asked for
    /\ Asks \subseteq {a \in Ask : /\ a.op = "empty" \/ Len(a.path) > 1 \/ (a.op = "delete" /\ a.path = <<Bin>>)
                                   /\ a.op \in {"move", "copy"} => Len(a.to) < 3
                                   /\ a.op = "rename" => Len(a.to) > 1}
    \* a tree: one item at a place, and what is in a folder is in one that is there
    /\ Place0 \subseteq [Item -> ((Folder \cup {Root, Bin}) \X Label) \cup {Unborn, Nothing}]
    /\ \A p \in Place0, i \in Item : p[i] \notin {Unborn, Nothing} =>
          /\ \A j \in Item : p[j] = p[i] => j = i
          /\ p[i][1] \in Item => p[p[i][1]] \notin {Unborn, Nothing}

FilesTypeOK ==
    /\ place \in [Item -> ((Folder \cup {Root, Bin}) \X Label) \cup {Unborn, Nothing}]
    /\ origin \in [Label -> Path \cup {Nothing}]
    /\ starred \subseteq Path
    /\ step \in [FileRequest -> Step]
    /\ ask \in [FileRequest -> Asks \cup {Nothing}]
    /\ target \in [FileRequest -> Path \cup {Nothing}]
    /\ todo \in [FileRequest -> SUBSET Label]
    /\ agreed \in [FileRequest -> SUBSET Item]
    /\ surprised \subseteq FileRequest /\ culprits \subseteq FileRequest
    /\ troubles \in 0..MaxTroubles

\* What lies in the trash at first came from the root.
FilesInit ==
    /\ place \in Place0
    /\ origin = [l \in Label |-> IF Lies(Bin, l) = {} THEN Nothing ELSE <<Root, l>>]
    /\ starred \in {{}} \cup {{<<Root, l>>} : l \in {l \in Label : Lies(Root, l) # {}}}
    /\ step = [r \in FileRequest |-> "idle"]
    /\ ask = [r \in FileRequest |-> Nothing]
    /\ target = [r \in FileRequest |-> Nothing]
    /\ todo = [r \in FileRequest |-> {}]
    /\ agreed = [r \in FileRequest |-> {}]
    /\ surprised = {} /\ culprits = {} /\ troubles = 0

Busy(r)  == step[r] \notin {"idle", "done"}
Op(r)    == ask[r].op
StepTo(r, s) == step' = [step EXCEPT ![r] = s]
Ends(r)  == StepTo(r, "done") /\ UNCHANGED <<place, surprised, culprits>>
others   == <<origin, starred, ask, target, todo, agreed, troubles>>

\* The first of "a", "a (2)", ... that is free in a directory, if MaxSuffix leaves one.
\* keep-both of a paste goes on with "a (1)" instead.
Numbers(first) == {0} \cup {k \in 1..MaxSuffix : k >= first}
FreeLabels(dir, label, first) == {k \in Numbers(first) : Lies(dir, <<label[1], k>>) = {}}
Unique(dir, label, first) ==
    LET free == FreeLabels(dir, label, first)
    IN {<<label[1], k>> : k \in {k \in free : \A m \in free : k <= m}}

\* Request r has changed the tree: what is gone without anybody's consent is its doing.
Reckon(r) ==
    LET lost == {i \in Item : Placed(i) /\ place'[i] = Nothing}
    IN /\ surprised' = IF place' = place THEN surprised
                       ELSE surprised \cup {q \in FileRequest \ {r} : Busy(q)}
       /\ culprits' = IF lost \subseteq agreed[r] THEN culprits ELSE culprits \cup {r}

-------------------------------------------------------------------------------
(* The tree *)

Removed(items) == [i \in Item |-> IF i \in items THEN Nothing ELSE place[i]]
Tree(p)        == IF At(p) \in Item THEN Within(At(p)) ELSE {}

\* A new item of a kind takes a label, from what may lie there.
Put(kind, dir, label) ==
    LET unborn == {i \in kind : place[i] = Unborn}
    IN /\ unborn # {}      \* bound
       /\ place' = [Removed(Lies(dir, label)) EXCEPT ![CHOOSE i \in unborn : TRUE] = <<dir, label>>]

\* rename(2): a file replaces a file, a folder an empty folder.
CanRename(p, q) ==
    /\ At(p) \in Item /\ Top(Parent(q)) # Nothing /\ ~Below(p, q)
    /\ At(q) \in Item \ {At(p)} =>
          /\ At(p) \in Folder <=> At(q) \in Folder
          /\ Within(At(q)) = {At(q)}

Rename(p, q) ==
    place' = [Removed(Tree(q) \ Tree(p)) EXCEPT ![At(p)] = <<Top(Parent(q)), BaseName(q)>>]

-------------------------------------------------------------------------------
(* Creating, uploading, saving *)

Looks(r, a) == step[r] = "idle" /\ ask' = [ask EXCEPT ![r] = a]
Unchosen(r) == UNCHANGED <<place, surprised, culprits, origin, starred, todo, troubles>>
Refuse(r)   == StepTo(r, "done") /\ UNCHANGED <<target, agreed>>

LookToMake(r, a) ==
    /\ a.op \in {"createFolder", "createFile", "upload"} /\ Looks(r, a)
    /\ IF Top(Parent(a.path)) = Nothing \/ At(a.path) # Nothing THEN Refuse(r)
       ELSE /\ StepTo(r, "making")
            /\ target' = [target EXCEPT ![r] = a.path] /\ agreed' = agreed
    /\ Unchosen(r)

\* mkdir and the flag wx refuse a path that is taken meanwhile, an upload writes over a
\* file.
Make(r) ==
    LET there == At(target[r])
    IN /\ step[r] = "making"
       /\ IF \/ Top(Parent(target[r])) = Nothing
             \/ there # Nothing /\ (Op(r) # "upload" \/ there \in Folder)
          THEN Ends(r)
          ELSE /\ Put(IF Op(r) = "createFolder" THEN Folder ELSE File,
                  Top(Parent(target[r])), BaseName(target[r]))
               /\ StepTo(r, "done") /\ Reckon(r)
       /\ UNCHANGED others

\* readFileForViewer: the editor shows a file and keeps its time of modification.
Open(r, a) ==
    /\ a.op = "save" /\ Looks(r, a)
    /\ IF At(a.path) \in File
       THEN /\ StepTo(r, "comparing")
            /\ target' = [target EXCEPT ![r] = a.path]
            /\ agreed' = [agreed EXCEPT ![r] = {At(a.path)}]
       ELSE Refuse(r)
    /\ Unchosen(r)

\* writeTextFile compares the time with that of the file there now.
Compare(r) ==
    /\ step[r] = "comparing"
    /\ StepTo(r, IF At(target[r]) \in agreed[r] THEN "saving" ELSE "done")
    /\ UNCHANGED <<place, surprised, culprits, others>>

Save(r) ==
    /\ step[r] = "saving"
    /\ IF At(target[r]) \notin File THEN Ends(r)
       ELSE /\ Put(File, Top(Parent(target[r])), BaseName(target[r]))
            /\ StepTo(r, "done") /\ Reckon(r)
    /\ UNCHANGED others

-------------------------------------------------------------------------------
(* Pasting and renaming *)

\* Both paths are resolved, and what to do about an entry in the way is settled.
LookToPaste(r, a) ==
    LET dir  == Top(a.to)
        goal == Append(a.to, BaseName(a.path))
        act  == IF a.op = "move" THEN "moving" ELSE "copying"
    IN /\ a.op \in {"move", "copy"} /\ Looks(r, a)
       /\ IF At(a.path) = Nothing \/ dir = Nothing \/ goal = a.path
             \/ (At(goal) # Nothing /\ a.mode \in {Nothing, "skip"})
          THEN Refuse(r)
          ELSE \/ /\ At(goal) = Nothing
                  /\ StepTo(r, act)
                  /\ target' = [target EXCEPT ![r] = goal] /\ agreed' = agreed
               \/ /\ At(goal) # Nothing /\ a.mode = "keep-both"
                  /\ \E l \in Unique(dir, BaseName(goal), 1) :
                        target' = [target EXCEPT ![r] = Append(a.to, l)]
                  /\ StepTo(r, act) /\ agreed' = agreed
               \/ /\ At(goal) # Nothing /\ a.mode = "replace"
                  /\ StepTo(r, "replacing")
                  /\ target' = [target EXCEPT ![r] = goal]
                  /\ agreed' = [agreed EXCEPT ![r] =
                                      Tree(goal) \ (IF Below(goal, a.path) THEN Tree(a.path) ELSE {})]
       /\ Unchosen(r)

\* rm -rf of what is to be replaced, in a paste or a restore.
Replace(r) ==
    /\ step[r] = "replacing"
    /\ place' = Removed(Tree(target[r]))
    /\ StepTo(r, IF Op(r) = "copy" THEN "copying" ELSE "moving")
    /\ Reckon(r)
    /\ UNCHANGED others

\* movePath and rename; a folder is not moved into itself.
Move(r) ==
    /\ step[r] = "moving"
    /\ IF ~CanRename(ask[r].path, target[r]) THEN Ends(r)
       ELSE /\ Rename(ask[r].path, target[r])
            /\ StepTo(r, CASE Op(r) = "trash"   -> "recording"
                         [] Op(r) = "restore" -> "forgetting"
                         [] OTHER             -> "unstarring")
            /\ Reckon(r)
    /\ UNCHANGED others

\* cp writes over a file only when told to replace; what a folder holds is not followed
\* into its copy.
Copy(r) ==
    LET source == At(ask[r].path)
        dir    == Top(Parent(target[r]))
        there  == At(target[r])
        kind   == IF source \in Folder THEN Folder ELSE File
    IN /\ step[r] = "copying"
       /\ IF source = Nothing \/ dir = Nothing \/ Below(ask[r].path, target[r])
             \/ (there # Nothing /\ ~(ask[r].mode = "replace" /\ {there, source} \cap Folder = {}))
          THEN Ends(r)
          ELSE /\ Put(kind, dir, BaseName(target[r]))
               /\ StepTo(r, "done") /\ Reckon(r)
       /\ UNCHANGED others

LookToRename(r, a) ==
    LET goal == Append(Parent(a.path), BaseName(a.to))
    IN /\ a.op = "rename" /\ Looks(r, a)
       /\ IF At(a.path) = Nothing \/ At(goal) # Nothing THEN Refuse(r)
          ELSE /\ StepTo(r, "moving")
               /\ target' = [target EXCEPT ![r] = goal] /\ agreed' = agreed
       /\ Unchosen(r)

\* The star of a path that was moved is taken away, then given to the new path.
Unstar(r) ==
    /\ step[r] = "unstarring"
    /\ starred' = starred \ {ask[r].path}
    /\ StepTo(r, IF ask[r].path \in starred THEN "starring" ELSE "done")
    /\ UNCHANGED <<place, surprised, culprits, origin, ask, target, todo, agreed, troubles>>

Star(r) ==
    /\ step[r] = "starring"
    /\ starred' = starred \cup {target[r]}
    /\ StepTo(r, "done")
    /\ UNCHANGED <<place, surprised, culprits, origin, ask, target, todo, agreed, troubles>>

-------------------------------------------------------------------------------
(* The trash *)

\* What is in the trash is not trashed again; only what is there is restored or deleted.
InBin(p) == p[1] = Bin

\* Mutant: an entry keeps its name in the trash.
BadLookToTrash(r, a) ==
    /\ a.op = "trash" /\ Looks(r, a)
    /\ IF InBin(a.path) \/ At(a.path) = Nothing THEN Refuse(r)
       ELSE /\ StepTo(r, "moving")
            /\ target' = [target EXCEPT ![r] = <<Bin, BaseName(a.path)>>]
            /\ agreed' = agreed
    /\ Unchosen(r)

LookToTrash(r, a) ==
    /\ a.op = "trash" /\ Looks(r, a)
    /\ IF InBin(a.path) \/ At(a.path) = Nothing THEN Refuse(r)
       ELSE /\ \E l \in Unique(Bin, BaseName(a.path), 2) : target' = [target EXCEPT ![r] = <<Bin, l>>]
            /\ StepTo(r, "moving") /\ agreed' = agreed
    /\ Unchosen(r)

\* Mutant: the row has the name the entry had before.
BadRecord(r) ==
    /\ step[r] = "recording"
    /\ origin' = [origin EXCEPT ![BaseName(ask[r].path)] = ask[r].path]
    /\ StepTo(r, "done")
    /\ UNCHANGED <<place, surprised, culprits, starred, ask, target, todo, agreed, troubles>>

\* upsertTrashEntryInDb, under the path the entry has in the trash.
Record(r) ==
    /\ step[r] = "recording"
    /\ origin' = [origin EXCEPT ![BaseName(target[r])] = ask[r].path]
    /\ StepTo(r, "done")
    /\ UNCHANGED <<place, surprised, culprits, starred, ask, target, todo, agreed, troubles>>

\* The row is read, the folder it names is made if it is missing, and what to do about
\* an entry in the way is settled.
LookToRestore(r, a) ==
    LET back == origin[BaseName(a.path)]
        made == Len(back) = 3 /\ At(Parent(back)) = Nothing
        dir  == Top(Parent(back))
    IN /\ a.op = "restore" /\ Looks(r, a)
       /\ IF \/ ~InBin(a.path) \/ At(a.path) = Nothing \/ Len(a.path) # 2 \/ back = Nothing
             \/ ~made /\ (dir = Nothing \/ (At(back) # Nothing /\ a.mode = "fail"))
          THEN Refuse(r) /\ UNCHANGED <<place, surprised, culprits>>
          ELSE IF made
          THEN /\ Put(Folder, back[1], BaseName(Parent(back))) /\ Reckon(r)
               /\ StepTo(r, "moving")
               /\ target' = [target EXCEPT ![r] = back] /\ agreed' = agreed
          ELSE /\ UNCHANGED <<place, surprised, culprits>>
               /\ \/ /\ At(back) = Nothing
                     /\ StepTo(r, "moving")
                     /\ target' = [target EXCEPT ![r] = back] /\ agreed' = agreed
                  \/ /\ At(back) # Nothing /\ a.mode = "replace"
                     /\ StepTo(r, "replacing")
                     /\ target' = [target EXCEPT ![r] = back]
                     /\ agreed' = [agreed EXCEPT ![r] = Tree(back)]
                  \/ /\ At(back) # Nothing /\ a.mode = "keep-both"
                     /\ \E l \in Unique(dir, BaseName(back), 2) :
                           target' = [target EXCEPT ![r] = Append(Parent(back), l)]
                     /\ StepTo(r, "moving") /\ agreed' = agreed
       /\ UNCHANGED <<origin, starred, todo, troubles>>

LookToDelete(r, a) ==
    /\ a.op = "delete" /\ Len(a.path) > 1 /\ Looks(r, a)
    /\ IF ~InBin(a.path) \/ At(a.path) = Nothing THEN Refuse(r)
       ELSE /\ StepTo(r, "removing")
            /\ target' = [target EXCEPT ![r] = a.path]
            /\ agreed' = [agreed EXCEPT ![r] = Tree(a.path)]
    /\ Unchosen(r)

RemoveEntry(r) ==
    /\ step[r] = "removing"
    /\ IF At(target[r]) = Nothing THEN Ends(r)
       ELSE /\ place' = Removed(Tree(target[r]))
            /\ StepTo(r, "forgetting")
            /\ Reckon(r)
    /\ UNCHANGED others

\* deleteTrashEntryFromDb: a path below an entry of the trash has no row.
ForgetRow(r) ==
    /\ step[r] = "forgetting"
    /\ origin' = IF Len(ask[r].path) = 2 THEN [origin EXCEPT ![BaseName(ask[r].path)] = Nothing]
                 ELSE origin
    /\ StepTo(r, "done")
    /\ UNCHANGED <<place, surprised, culprits, starred, ask, target, todo, agreed, troubles>>

\* The trash itself passes for a path in it. All that lies there goes, and no row.
Trashed == UNION {Tree(<<Bin, l>>) : l \in Label}

LookToClear(r, a) ==
    /\ a.op = "delete" /\ a.path = <<Bin>> /\ Looks(r, a)
    /\ StepTo(r, "clearing")
    /\ agreed' = [agreed EXCEPT ![r] = Trashed]
    /\ target' = target /\ Unchosen(r)

ClearTrash(r) ==
    /\ step[r] = "clearing"
    /\ place' = Removed(Trashed)
    /\ StepTo(r, "remaking") /\ Reckon(r)
    /\ UNCHANGED others

\* ensureFilesRootDirectories makes the trash again with the next path that is resolved.
Remake(r) ==
    /\ step[r] = "remaking"
    /\ Ends(r)
    /\ UNCHANGED others

\* Until then a request that has resolved its path finds no trash. One that resolves it only
\* now may miss it here too, which the code spares it.
MissesTrash(r) ==
    /\ step[r] \in {"making", "saving", "moving", "copying"} /\ InBin(target[r])
    /\ \E q \in FileRequest : step[q] = "remaking"
    /\ Ends(r)
    /\ UNCHANGED others

LookToEmpty(r, a) ==
    LET listed == {l \in Label : Lies(Bin, l) # {}}
    IN /\ a.op = "empty" /\ Looks(r, a)
       /\ StepTo(r, "emptying")
       /\ todo' = [todo EXCEPT ![r] = listed]
       /\ agreed' = [agreed EXCEPT ![r] = UNION {Tree(<<Bin, l>>) : l \in listed}]
       /\ UNCHANGED <<place, surprised, culprits, origin, starred, target, troubles>>

EmptyOne(r) ==
    /\ step[r] = "emptying" /\ todo[r] # {}
    /\ \E l \in todo[r] :
          /\ place' = Removed(Tree(<<Bin, l>>))
          /\ todo' = [todo EXCEPT ![r] = @ \ {l}]
    /\ Reckon(r)
    /\ UNCHANGED <<origin, starred, step, ask, target, agreed, troubles>>

\* deleteAllTrashEntriesFromDb
ForgetAll(r) ==
    /\ step[r] = "emptying" /\ todo[r] = {}
    /\ origin' = [l \in Label |-> Nothing]
    /\ StepTo(r, "done")
    /\ UNCHANGED <<place, surprised, culprits, starred, ask, target, todo, agreed, troubles>>

-------------------------------------------------------------------------------

Trouble == troubles < MaxTroubles /\ troubles' = troubles + 1

\* A database call fails, and the request with it.
DatabaseFails(r) ==
    /\ \/ step[r] \in {"unstarring", "starring", "recording", "forgetting"}
       \/ step[r] = "emptying" /\ todo[r] = {}
    /\ Trouble
    /\ Ends(r)
    /\ UNCHANGED <<origin, starred, ask, target, todo, agreed>>

\* The server restarts and drops the requests under way.
FilesRestart ==
    /\ Trouble /\ \E r \in FileRequest : Busy(r)
    /\ step' = [r \in FileRequest |-> IF Busy(r) THEN "done" ELSE step[r]]
    /\ UNCHANGED <<place, surprised, culprits, origin, starred, ask, target, todo, agreed>>

Looking(r, a) ==
    \/ LookToMake(r, a) \/ Open(r, a) \/ LookToPaste(r, a) \/ LookToRename(r, a)
    \/ LookToTrash(r, a) \/ LookToRestore(r, a) \/ LookToDelete(r, a) \/ LookToClear(r, a) \/ LookToEmpty(r, a)

Acting(r) ==
    \/ Make(r) \/ Compare(r) \/ Save(r) \/ Replace(r) \/ Move(r) \/ Copy(r)
    \/ Unstar(r) \/ Star(r) \/ Record(r) \/ RemoveEntry(r) \/ ForgetRow(r)
    \/ ClearTrash(r) \/ Remake(r) \/ MissesTrash(r) \/ EmptyOne(r) \/ ForgetAll(r) \/ DatabaseFails(r)

FilesNext ==
    \/ \E r \in FileRequest : (\E a \in Asks : Looking(r, a)) \/ Acting(r)
    \/ FilesRestart

FilesSpec == FilesInit /\ [][FilesNext]_filesVars

-------------------------------------------------------------------------------

\* Nothing is lost that nobody asked to delete, replace or overwrite, whatever was
\* trashed, restored or pasted before under the same name. The exceptions are requests
\* under which another changed the tree, but never one that creates an entry; and a
\* paste that replaces a folder with something out of that folder.
FilesAreKept ==
    \A r \in culprits :
        \/ r \in surprised /\ Op(r) \notin {"createFolder", "createFile"}
        \/ Op(r) \in {"move", "copy"} /\ Below(target[r], ask[r].path)

\* When nobody is at work, each entry of the trash has its row, and can be restored; and each
\* row has its entry, unless the trash itself was deleted: that takes the entries and leaves
\* the rows. The exceptions to both are a restart, a database error or another request that
\* came across one that works on the trash, and requests that do not but were about paths in
\* the trash: pasting, renaming and creating there write no row.
Trashing(r) == Op(r) \in {"trash", "restore", "delete", "empty"}
Clearing(r) == step[r] # "idle" /\ Op(r) = "delete" /\ ask[r].path = <<Bin>>

TrashHasRows ==
    /\ troubles = 0 /\ \A r \in surprised : ~Trashing(r)
    /\ \A r \in FileRequest : /\ ~Busy(r)
                              /\ step[r] # "idle" /\ ~Trashing(r) => ~InBin(ask[r].path) /\ ~InBin(ask[r].to)
    => \A l \in Label :
          /\ Lies(Bin, l) # {} => origin[l] # Nothing
          /\ origin[l] # Nothing /\ (\A r \in FileRequest : ~Clearing(r)) => Lies(Bin, l) # {}
================================================================================
