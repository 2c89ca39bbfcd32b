------------------------------ MODULE FilesProofs ------------------------------
(***************************************************************************)
(* Files and the trash, for any number of requests, items, names and       *)
(* faults: nothing is lost that nobody asked to do away with, and the trash*)
(* has its rows. A request that nobody surprised still finds what it looked*)
(* at (PreparedInv); what is lost was agreed to or is excused (KeptInv).   *)
(* For the trash, an entry without a row has a request about to write it,  *)
(* and a row without an entry one about to delete it (Rows).               *)
(***************************************************************************)
EXTENDS FileManager, SequenceTheorems, TLAPS

-------------------------------------------------------------------------------
(* The operators of FileManager on any tree *)

Space           == (Folder \cup {Root, Bin}) \X Label
IsPlaced(t, i)  == t[i] \notin {Unborn, Nothing}
LiesIn(t, d, l) == {i \in Item : t[i] = <<d, l>>}
TopIn(t, p)     == IF Len(p) = 1 THEN p[1]
                   ELSE LET i == TheOne(LiesIn(t, p[1], p[2])) IN IF i \in Folder THEN i ELSE Nothing
AtIn(t, p)      == IF Len(p) = 1 THEN p[1] ELSE TheOne(LiesIn(t, TopIn(t, Parent(p)), BaseName(p)))
InsideIn(t, S)  == {j \in Item : IsPlaced(t, j) /\ t[j][1] \in S}
ClosedIn(t, i, S) == InsideIn(t, S \cup {i}) \cap Folder \subseteq S
NestedIn(t, i)  == {f \in Folder \cup {i} : \A S \in SUBSET Folder : ClosedIn(t, i, S) => f \in S \cup {i}}
WithinIn(t, i)  == {i} \cup InsideIn(t, NestedIn(t, i))
TreeIn(t, p)    == IF AtIn(t, p) \in Item THEN WithinIn(t, AtIn(t, p)) ELSE {}

\* One item at a place, and nothing in a folder that does not exist yet.
WellFormed(t) ==
    /\ t \in [Item -> Space \cup {Unborn, Nothing}]
    /\ \A i, j \in Item : IsPlaced(t, i) /\ t[j] = t[i] => j = i
    /\ \A i \in Item : IsPlaced(t, i) /\ t[i][1] \in Item => t[t[i][1]] # Unborn

\* What request r has looked at is still so, unless another changed the tree.
Prepared(t, s, q, a, left, ag) ==
    /\ s \in {"making", "moving", "copying"} => AtIn(t, q) = Nothing
    /\ s = "saving" => AtIn(t, q) \in ag
    /\ s = "replacing" => TreeIn(t, q) \subseteq ag \/ (a.op \in {"move", "copy"} /\ Below(q, a.path))
    /\ s = "removing" => TreeIn(t, q) \subseteq ag
    /\ s = "emptying" => \A l \in left : TreeIn(t, <<Bin, l>>) \subseteq ag
    /\ s = "clearing" => \A l \in Label : TreeIn(t, <<Bin, l>>) \subseteq ag

PreparedInv ==
    \A r \in FileRequest \ surprised :
        Prepared(place, step[r], target[r], ask[r], todo[r], agreed[r])

\* What a request at a step is about.
Works(s, a, q) ==
    /\ s = "making" => a.op \in {"createFolder", "createFile", "upload"}
    /\ s \in {"comparing", "saving"} => a.op = "save"
    /\ s = "replacing" => a.op \in {"move", "copy", "restore"}
    /\ s = "copying" => a.op = "copy"
    /\ s = "moving" => a.op \in {"move", "rename", "trash", "restore"}
    /\ s \in {"unstarring", "starring"} => a.op \in {"move", "rename"}
    /\ s = "recording" => a.op = "trash"
    /\ s = "removing" => a.op = "delete"
    /\ s = "forgetting" => a.op \in {"restore", "delete"}
    /\ s = "emptying" => a.op = "empty"
    /\ s \in {"clearing", "remaking"} => a.op = "delete" /\ a.path = <<Bin>>
    /\ s \notin {"idle", "done", "emptying", "clearing", "remaking"} =>
          /\ q \in Path /\ Len(q) > 1
          /\ a.op = "trash" => ~InBin(a.path) /\ InBin(q) /\ Len(q) = 2
          /\ a.op = "restore" => InBin(a.path) /\ Len(a.path) = 2 /\ ~InBin(q)
          /\ a.op = "delete" => InBin(a.path) /\ q = a.path

WorkInv ==
    \A r \in FileRequest : /\ step[r] # "idle" => ask[r] \in Asks
                           /\ Works(step[r], ask[r], target[r])

\* What is in the trash came from elsewhere.
OriginInv == \A l \in Label : origin[l] # Nothing => Len(origin[l]) > 1 /\ ~InBin(origin[l])

\* What FilesAreKept excuses.
Forgiven(r, upset, a, q) ==
    \/ r \in upset /\ a.op \notin {"createFolder", "createFile"}
    \/ a.op \in {"move", "copy"} /\ Below(q, a.path)

KeptInv == \A r \in culprits : step[r] # "idle" /\ Forgiven(r, surprised, ask[r], target[r])

FilesInv == FilesTypeOK /\ WellFormed(place) /\ WorkInv /\ OriginInv /\ PreparedInv /\ KeptInv

\* The same for the trash and its rows.
TrashPrepared(t, s, a, q, left) ==
    /\ s = "recording" => AtIn(t, q) # Nothing
    /\ s = "forgetting" /\ Len(a.path) = 2 => AtIn(t, a.path) = Nothing
    /\ s = "emptying" => \A l \in Label : LiesIn(t, Bin, l) # {} => l \in left

TrashPreparedInv ==
    \A r \in FileRequest \ surprised : TrashPrepared(place, step[r], ask[r], target[r], todo[r])

\* A request about nothing in the trash aims at nothing there.
Aims(a, q) ==
    a.op \notin {"trash", "restore", "delete", "empty"} /\ ~InBin(a.path) /\ ~InBin(a.to) => ~InBin(q)

AimInv == \A r \in FileRequest : step[r] \notin {"idle", "done", "emptying"} => Aims(ask[r], target[r])

\* Nothing TrashHasRows excuses has happened.
Calm ==
    /\ troubles = 0 /\ \A r \in surprised : ~Trashing(r)
    /\ \A r \in FileRequest :
          step[r] # "idle" /\ ~Trashing(r) => ~InBin(ask[r].path) /\ ~InBin(ask[r].to)

\* An entry without a row waits for it, and a row without an entry to be deleted, unless the
\* trash itself was.
Rows ==
    \A l \in Label :
        /\ LiesIn(place, Bin, l) # {} /\ origin[l] = Nothing =>
              \E r \in FileRequest : step[r] = "recording" /\ target[r] = <<Bin, l>>
        /\ LiesIn(place, Bin, l) = {} /\ origin[l] # Nothing =>
              \E r \in FileRequest : \/ step[r] = "emptying"
                                     \/ step[r] = "forgetting" /\ ask[r].path = <<Bin, l>>
                                     \/ Clearing(r)

TrashInv ==
    /\ FilesInv /\ TrashPreparedInv /\ AimInv /\ (Calm => Rows)
    /\ \A r \in surprised : step[r] # "idle"

-------------------------------------------------------------------------------
(* Paths *)

LEMMA Tuples ==
    ASSUME NEW t, NEW a, NEW b
    PROVE  /\ Append(<<t>>, a) = <<t, a>> /\ SubSeq(<<t, a>>, 1, 1) = <<t>>
           /\ Append(<<t, a>>, b) = <<t, a, b>> /\ SubSeq(<<t, a, b>>, 1, 2) = <<t, a>>
<1> DEFINE S == {t, a, b}
<1>1. /\ <<t>> \in Seq(S) /\ <<t, a>> \in Seq(S) /\ <<t, a, b>> \in Seq(S)
      /\ Len(<<t>>) = 1 /\ Len(<<t, a>>) = 2 /\ Len(<<t, a, b>>) = 3
  OBVIOUS
<1>2. Append(<<t>>, a) = <<t, a>>
  <2>1. /\ Append(<<t>>, a) \in Seq(S) /\ Len(Append(<<t>>, a)) = 2
        /\ Append(<<t>>, a)[1] = t /\ Append(<<t>>, a)[2] = a
    BY <1>1, AppendProperties
  <2>2. \A i \in 1..2 : Append(<<t>>, a)[i] = <<t, a>>[i]
    BY <2>1
  <2>3. QED
    BY <1>1, <2>1, <2>2, SeqEqual
<1>3. Append(<<t, a>>, b) = <<t, a, b>>
  <2>1. /\ Append(<<t, a>>, b) \in Seq(S) /\ Len(Append(<<t, a>>, b)) = 3
        /\ Append(<<t, a>>, b)[1] = t /\ Append(<<t, a>>, b)[2] = a /\ Append(<<t, a>>, b)[3] = b
    BY <1>1, AppendProperties
  <2>2. \A i \in 1..3 : Append(<<t, a>>, b)[i] = <<t, a, b>>[i]
    BY <2>1
  <2>3. QED
    BY <1>1, <2>1, <2>2, SeqEqual
<1>4. SubSeq(<<t, a>>, 1, 1) = <<t>>
  <2>1. \A i \in 1..1 : <<t, a>>[i] \in S
    OBVIOUS
  <2>2. /\ SubSeq(<<t, a>>, 1, 1) \in Seq(S) /\ Len(SubSeq(<<t, a>>, 1, 1)) = 1
        /\ \A i \in 1..1 : SubSeq(<<t, a>>, 1, 1)[i] = <<t, a>>[i]
    BY <2>1, SubSeqProperties
  <2>3. \A i \in 1..1 : SubSeq(<<t, a>>, 1, 1)[i] = <<t>>[i]
    BY <2>2
  <2>4. QED
    BY <1>1, <2>2, <2>3, SeqEqual
<1>5. SubSeq(<<t, a, b>>, 1, 2) = <<t, a>>
  <2>1. \A i \in 1..2 : <<t, a, b>>[i] \in S
    OBVIOUS
  <2>2. /\ SubSeq(<<t, a, b>>, 1, 2) \in Seq(S) /\ Len(SubSeq(<<t, a, b>>, 1, 2)) = 2
        /\ \A i \in 1..2 : SubSeq(<<t, a, b>>, 1, 2)[i] = <<t, a, b>>[i]
    BY <2>1, SubSeqProperties
  <2>3. \A i \in 1..2 : SubSeq(<<t, a, b>>, 1, 2)[i] = <<t, a>>[i]
    BY <2>2
  <2>4. QED
    BY <1>1, <2>2, <2>3, SeqEqual
<1>6. QED
  BY <1>2, <1>3, <1>4, <1>5

LEMMA PathsOf ==
    ASSUME NEW top \in {Root, Bin}
    PROVE  /\ <<top>> \in Path
           /\ \A a \in Label : <<top, a>> \in Path
           /\ \A a, b \in Label : <<top, a, b>> \in Path
BY DEF Path

LEMMA PathKinds ==
    ASSUME NEW p \in Path
    PROVE  \E top \in {Root, Bin} : \/ p = <<top>>
                                    \/ \E a \in Label : p = <<top, a>>
                                    \/ \E a, b \in Label : p = <<top, a, b>>
BY DEF Path

LEMMA PathLengths ==
    ASSUME NEW p \in Path
    PROVE  /\ Len(p) \in 1..3 /\ p[1] \in {Root, Bin}
           /\ Len(p) = 1 => p = <<p[1]>>
           /\ Len(p) = 2 => p = <<p[1], p[2]>> /\ p[2] \in Label
           /\ Len(p) = 3 => p = <<p[1], p[2], p[3]>> /\ p[2] \in Label /\ p[3] \in Label
<1>1. PICK top \in {Root, Bin} : \/ p = <<top>>
                                 \/ \E a \in Label : p = <<top, a>>
                                 \/ \E a, b \in Label : p = <<top, a, b>>
  BY PathKinds
<1>2. CASE p = <<top>>
  BY <1>2
<1>3. CASE \E a \in Label : p = <<top, a>>
  BY <1>3
<1>4. CASE \E a, b \in Label : p = <<top, a, b>>
  BY <1>4
<1>5. QED
  BY <1>1, <1>2, <1>3, <1>4

\* The path of a directory and a name in it.
LEMMA PathParts ==
    ASSUME NEW p \in Path, Len(p) > 1
    PROVE  /\ Len(p) \in {2, 3} /\ p[1] \in {Root, Bin} /\ BaseName(p) \in Label
           /\ Parent(p) \in Path /\ Len(Parent(p)) = Len(p) - 1 /\ Parent(p)[1] = p[1]
           /\ Len(p) = 2 => p = <<p[1], p[2]>> /\ Parent(p) = <<p[1]>> /\ BaseName(p) = p[2]
           /\ Len(p) = 3 => /\ p = <<p[1], p[2], p[3]>> /\ p[2] \in Label
                            /\ Parent(p) = <<p[1], p[2]>> /\ BaseName(p) = p[3]
<1>1. CASE Len(p) = 2
  <2>1. p = <<p[1], p[2]>> /\ p[2] \in Label /\ p[1] \in {Root, Bin}
    BY <1>1, PathLengths
  <2>2. SubSeq(p, 1, 1) = <<p[1]>>
    BY <2>1, Tuples
  <2>3. <<p[1]>> \in Path /\ Len(<<p[1]>>) = 1 /\ <<p[1]>>[1] = p[1]
    BY <2>1, PathsOf
  <2>4. Parent(p) = <<p[1]>> /\ BaseName(p) = p[2]
    BY <1>1, <2>2 DEF Parent, BaseName
  <2>5. QED
    BY <1>1, <2>1, <2>3, <2>4
<1>2. CASE Len(p) = 3
  <2>1. p = <<p[1], p[2], p[3]>> /\ p[2] \in Label /\ p[3] \in Label /\ p[1] \in {Root, Bin}
    BY <1>2, PathLengths
  <2>2. SubSeq(p, 1, 2) = <<p[1], p[2]>>
    BY <2>1, Tuples
  <2>3. <<p[1], p[2]>> \in Path /\ Len(<<p[1], p[2]>>) = 2 /\ <<p[1], p[2]>>[1] = p[1]
    BY <2>1, PathsOf
  <2>4. Parent(p) = <<p[1], p[2]>> /\ BaseName(p) = p[3]
    BY <1>2, <2>2 DEF Parent, BaseName
  <2>5. QED
    BY <1>2, <2>1, <2>3, <2>4
<1>3. Len(p) = 2 \/ Len(p) = 3
  <2>1. Len(p) \in 1..3
    BY PathLengths
  <2>2. QED
    BY <2>1
<1>4. QED
  BY <1>1, <1>2, <1>3

LEMMA PathGrows ==
    ASSUME NEW p \in Path, Len(p) < 3, NEW l \in Label
    PROVE  /\ Append(p, l) \in Path /\ Len(Append(p, l)) = Len(p) + 1
           /\ Append(p, l)[1] = p[1]
           /\ Parent(Append(p, l)) = p /\ BaseName(Append(p, l)) = l
<1>1. CASE Len(p) = 1
  <2>1. p = <<p[1]>> /\ p[1] \in {Root, Bin}
    BY <1>1, PathLengths
  <2>2. Append(p, l) = <<p[1], l>>
    BY <2>1, Tuples
  <2>3. Append(p, l) \in Path /\ Len(Append(p, l)) = 2 /\ Append(p, l)[1] = p[1] /\ Append(p, l)[2] = l
    BY <2>1, <2>2, PathsOf
  <2>4. /\ Parent(Append(p, l)) = <<Append(p, l)[1]>>
        /\ BaseName(Append(p, l)) = Append(p, l)[2]
    BY <2>3, Len(Append(p, l)) > 1, PathParts
  <2>5. QED
    BY <1>1, <2>1, <2>3, <2>4
<1>2. CASE Len(p) = 2
  <2>1. p = <<p[1], p[2]>> /\ p[1] \in {Root, Bin} /\ p[2] \in Label
    BY <1>2, PathLengths
  <2>2. Append(p, l) = <<p[1], p[2], l>>
    BY <2>1, Tuples
  <2>3. /\ Append(p, l) \in Path /\ Len(Append(p, l)) = 3 /\ Append(p, l)[1] = p[1]
        /\ Append(p, l)[2] = p[2] /\ Append(p, l)[3] = l
    BY <2>1, <2>2, PathsOf
  <2>4. /\ Parent(Append(p, l)) = <<Append(p, l)[1], Append(p, l)[2]>>
        /\ BaseName(Append(p, l)) = Append(p, l)[3]
    BY <2>3, Len(Append(p, l)) > 1, PathParts
  <2>5. QED
    BY <1>2, <2>1, <2>3, <2>4
<1>3. QED
  BY <1>1, <1>2, PathLengths

-------------------------------------------------------------------------------
(* Trees *)

LEMMA Distinct ==
    ASSUME FileManagerAssumption
    PROVE  /\ Folder \subseteq Item /\ Root # Bin /\ Root \notin Item /\ Bin \notin Item
           /\ Nothing \notin Item /\ Nothing \notin {Root, Bin}
           /\ Unborn # Nothing /\ Unborn \notin Space /\ Nothing \notin Space
BY DEF FileManagerAssumption, Space

LEMMA OneOf ==
    ASSUME NEW S
    PROVE  /\ S = {} => TheOne(S) = Nothing
           /\ S # {} => TheOne(S) \in S
BY DEF TheOne

LEMMA TopKinds ==
    ASSUME FileManagerAssumption, NEW t, WellFormed(t), NEW p \in Path, Len(p) < 3
    PROVE  /\ Len(p) = 1 => TopIn(t, p) = p[1] /\ p[1] \in {Root, Bin}
           /\ Len(p) = 2 => TopIn(t, p) \in Folder \cup {Nothing}
           /\ TopIn(t, p) \in Folder => Len(p) = 2 /\ t[TopIn(t, p)] = <<p[1], p[2]>>
           /\ TopIn(t, p) \in Folder \cup {Root, Bin, Nothing}
<1>1. CASE Len(p) = 1
  <2>1. TopIn(t, p) = p[1] /\ p[1] \in {Root, Bin}
    BY <1>1, PathLengths DEF TopIn
  <2>2. QED
    BY <1>1, <2>1, Distinct
<1>2. CASE Len(p) # 1
  <2>1. Len(p) = 2
    <3>1. Len(p) \in 1..3
      BY PathLengths
    <3>2. QED
      BY <1>2, <3>1
  <2> DEFINE i == TheOne(LiesIn(t, p[1], p[2]))
  <2>2. TopIn(t, p) = IF i \in Folder THEN i ELSE Nothing
    BY <1>2 DEF TopIn
  <2>3. i \in Folder => t[i] = <<p[1], p[2]>>
    <3>1. i \in Folder => LiesIn(t, p[1], p[2]) # {}
      BY OneOf, Distinct
    <3>2. QED
      BY <3>1, OneOf DEF LiesIn
  <2>4. QED
    BY <2>1, <2>2, <2>3, Distinct
<1>3. QED
  BY <1>1, <1>2

LEMMA AtKinds ==
    ASSUME FileManagerAssumption, NEW t, WellFormed(t), NEW p \in Path, Len(p) > 1
    PROVE  LET d == TopIn(t, Parent(p))
               i == AtIn(t, p)
           IN /\ d \in Folder \cup {Root, Bin, Nothing}
              /\ i \in Item \cup {Nothing}
              /\ i = Nothing <=> LiesIn(t, d, BaseName(p)) = {}
              /\ i # Nothing => /\ t[i] = <<d, BaseName(p)>> /\ IsPlaced(t, i)
                                /\ d \in Folder \cup {Root, Bin} /\ LiesIn(t, d, BaseName(p)) = {i}
              /\ d \in Folder => Len(p) = 3 /\ t[d] = <<p[1], p[2]>>
              /\ Len(p) = 2 => d = p[1]
              /\ Len(p) = 3 => d \in Folder \cup {Nothing}
<1> DEFINE d == TopIn(t, Parent(p))
           i == AtIn(t, p)
           L == LiesIn(t, d, BaseName(p))
<1>1. /\ Parent(p) \in Path /\ Len(Parent(p)) = Len(p) - 1 /\ Len(p) \in {2, 3}
      /\ Parent(p)[1] = p[1] /\ BaseName(p) \in Label
      /\ Len(p) = 3 => Parent(p)[2] = p[2]
  BY PathParts
<1>2. i = TheOne(L)
  BY <1>1 DEF AtIn
<1>3. d \in Folder \cup {Root, Bin, Nothing}
  BY <1>1, TopKinds
<1>4. /\ d \in Folder => Len(p) = 3 /\ t[d] = <<p[1], p[2]>>
      /\ Len(p) = 2 => d = p[1]
      /\ Len(p) = 3 => d \in Folder \cup {Nothing}
  <2>1. CASE Len(p) = 2
    BY <1>1, <2>1, TopKinds
  <2>2. CASE Len(p) = 3
    <3>1. Len(Parent(p)) = 2 /\ Len(Parent(p)) < 3
      BY <1>1, <2>2
    <3>2. /\ d \in Folder \cup {Nothing}
          /\ d \in Folder => t[d] = <<Parent(p)[1], Parent(p)[2]>>
      BY <1>1, <3>1, TopKinds
    <3>3. QED
      BY <1>1, <2>2, <3>2
  <2>3. QED
    BY <1>1, <2>1, <2>2
<1>5. L \subseteq Item /\ \A j \in L : t[j] = <<d, BaseName(p)>>
  BY DEF LiesIn
<1>6. L = {} => i = Nothing
  BY <1>2, OneOf
<1>7. L # {} => i \in L /\ i # Nothing
  BY <1>2, <1>5, OneOf, Distinct
<1>8. ASSUME L # {} PROVE IsPlaced(t, i) /\ d \in Folder \cup {Root, Bin} /\ L = {i}
  <2>1. t[i] = <<d, BaseName(p)>> /\ i \in Item
    BY <1>5, <1>7, <1>8
  <2>2. t[i] \in Space \cup {Unborn, Nothing}
    BY <2>1 DEF WellFormed
  <2>3. <<d, BaseName(p)>> # Nothing /\ <<d, BaseName(p)>> # Unborn
    BY <1>1, <1>3 DEF FileManagerAssumption
  <2>4. d \in Folder \cup {Root, Bin} /\ IsPlaced(t, i)
    BY <2>1, <2>2, <2>3 DEF Space, IsPlaced
  <2>5. \A j \in L : j = i
    BY <1>5, <2>1, <2>4 DEF WellFormed
  <2>6. QED
    BY <1>7, <1>8, <2>4, <2>5
<1>9. QED
  BY <1>3, <1>4, <1>5, <1>6, <1>7, <1>8

LEMMA NestedClosed ==
    ASSUME FileManagerAssumption, NEW t, NEW i \in Item
    PROVE  /\ i \in NestedIn(t, i) /\ NestedIn(t, i) \subseteq Item
           /\ ClosedIn(t, i, NestedIn(t, i) \cap Folder)
<1>1. i \in NestedIn(t, i) /\ NestedIn(t, i) \subseteq Item
  BY Distinct DEF NestedIn
<1>2. ASSUME NEW g \in InsideIn(t, (NestedIn(t, i) \cap Folder) \cup {i}) \cap Folder
      PROVE  g \in NestedIn(t, i) \cap Folder
  <2>1. ASSUME NEW S \in SUBSET Folder, ClosedIn(t, i, S) PROVE g \in S \cup {i}
    <3>1. (NestedIn(t, i) \cap Folder) \cup {i} \subseteq S \cup {i}
      BY <2>1 DEF NestedIn
    <3>2. g \in InsideIn(t, S \cup {i})
      BY <1>2, <3>1 DEF InsideIn
    <3>3. QED
      BY <1>2, <2>1, <3>2 DEF ClosedIn
  <2>2. QED
    BY <1>2, <2>1 DEF NestedIn
<1>3. QED
  BY <1>1, <1>2 DEF ClosedIn

\* A folder nested in another lies in one that is.
LEMMA NestedChain ==
    ASSUME FileManagerAssumption, NEW t, NEW i \in Item, NEW f \in NestedIn(t, i), f # i
    PROVE  f \in Folder /\ IsPlaced(t, f) /\ t[f][1] \in NestedIn(t, i)
<1> DEFINE N == NestedIn(t, i) \cap Folder
<1>1. f \in Folder /\ N \subseteq Folder
  BY DEF NestedIn
<1>2. SUFFICES ASSUME ~(IsPlaced(t, f) /\ t[f][1] \in NestedIn(t, i)) PROVE FALSE
  BY <1>1
<1>3. f \notin InsideIn(t, N \cup {i})
  BY <1>2, NestedClosed DEF InsideIn
<1>4. ClosedIn(t, i, N \ {f})
  <2>1. InsideIn(t, (N \ {f}) \cup {i}) \subseteq InsideIn(t, N \cup {i})
    BY DEF InsideIn
  <2>2. InsideIn(t, N \cup {i}) \cap Folder \subseteq N
    BY NestedClosed DEF ClosedIn
  <2>3. QED
    BY <1>3, <2>1, <2>2 DEF ClosedIn
<1>5. f \in (N \ {f}) \cup {i}
  BY <1>1, <1>4 DEF NestedIn
<1>6. QED
  BY <1>5

LEMMA WithinKinds ==
    ASSUME FileManagerAssumption, NEW t, NEW i \in Item
    PROVE  /\ i \in WithinIn(t, i) /\ WithinIn(t, i) \subseteq Item
           /\ \A j \in WithinIn(t, i) : j # i => IsPlaced(t, j) /\ t[j][1] \in NestedIn(t, i) /\ t[j][1] \in Item
BY NestedClosed DEF WithinIn, InsideIn

LEMMA TreeKinds ==
    ASSUME FileManagerAssumption, NEW t, WellFormed(t), NEW p \in Path
    PROVE  /\ TreeIn(t, p) \subseteq Item
           /\ AtIn(t, p) = Nothing => TreeIn(t, p) = {}
BY WithinKinds, Distinct DEF TreeIn

-------------------------------------------------------------------------------
(* What is done to a tree *)

Cut(t, R) == [j \in Item |-> IF j \in R THEN Nothing ELSE t[j]]

LEMMA CutLies ==
    ASSUME FileManagerAssumption, NEW t, WellFormed(t), NEW R, NEW d \in Folder \cup {Root, Bin, Nothing}, NEW l \in Label
    PROVE  LiesIn(Cut(t, R), d, l) = LiesIn(t, d, l) \ R
<1>1. <<d, l>> # Nothing
  BY DEF FileManagerAssumption
<1>2. QED
  BY <1>1 DEF LiesIn, Cut

LEMMA CutWellFormed ==
    ASSUME FileManagerAssumption, NEW t, WellFormed(t), NEW R
    PROVE  /\ WellFormed(Cut(t, R))
           /\ \A j \in Item : IsPlaced(t, j) /\ Cut(t, R)[j] = Nothing => j \in R
<1>1. Cut(t, R) \in [Item -> Space \cup {Unborn, Nothing}]
  BY DEF WellFormed, Cut
<1>2. \A j \in Item : IsPlaced(Cut(t, R), j) => IsPlaced(t, j) /\ Cut(t, R)[j] = t[j]
  BY DEF Cut, IsPlaced
<1>3. \A i, j \in Item : IsPlaced(Cut(t, R), i) /\ Cut(t, R)[j] = Cut(t, R)[i] => j = i
  <2>1. TAKE i, j \in Item
  <2>2. HAVE IsPlaced(Cut(t, R), i) /\ Cut(t, R)[j] = Cut(t, R)[i]
  <2>3. IsPlaced(Cut(t, R), j)
    BY <2>2 DEF IsPlaced
  <2>4. QED
    BY <1>2, <2>2, <2>3 DEF WellFormed
<1>4. \A i \in Item : IsPlaced(Cut(t, R), i) /\ Cut(t, R)[i][1] \in Item => Cut(t, R)[Cut(t, R)[i][1]] # Unborn
  <2>1. \A j \in Item : t[j] # Unborn => Cut(t, R)[j] # Unborn
    BY Distinct DEF Cut
  <2>2. QED
    BY <1>2, <2>1 DEF WellFormed
<1>5. \A j \in Item : IsPlaced(t, j) /\ Cut(t, R)[j] = Nothing => j \in R
  BY DEF Cut, IsPlaced
<1>6. QED
  BY <1>1, <1>3, <1>4, <1>5 DEF WellFormed

LEMMA CutWithin ==
    ASSUME FileManagerAssumption, NEW t, WellFormed(t), NEW R, NEW i \in Item
    PROVE  WithinIn(Cut(t, R), i) \subseteq WithinIn(t, i)
<1>1. ASSUME NEW S PROVE InsideIn(Cut(t, R), S) \subseteq InsideIn(t, S)
  BY DEF InsideIn, IsPlaced, Cut
<1>2. ASSUME NEW S, ClosedIn(t, i, S) PROVE ClosedIn(Cut(t, R), i, S)
  BY <1>1, <1>2 DEF ClosedIn
<1>3. NestedIn(Cut(t, R), i) \subseteq NestedIn(t, i)
  BY <1>2 DEF NestedIn
<1>4. InsideIn(t, NestedIn(Cut(t, R), i)) \subseteq InsideIn(t, NestedIn(t, i))
  BY <1>3 DEF InsideIn
<1>5. QED
  BY <1>1, <1>4 DEF WithinIn

LEMMA CutAt ==
    ASSUME FileManagerAssumption, NEW t, WellFormed(t), NEW R, NEW p \in Path, Len(p) > 1
    PROVE  /\ AtIn(Cut(t, R), p) \in {AtIn(t, p), Nothing}
           /\ AtIn(t, p) \in R \cup {Nothing} => AtIn(Cut(t, R), p) = Nothing
           /\ TreeIn(Cut(t, R), p) \subseteq TreeIn(t, p)
<1> DEFINE c  == Cut(t, R)
           d  == TopIn(t, Parent(p))
           dc == TopIn(c, Parent(p))
           l  == BaseName(p)
<1>1. WellFormed(c)
  BY CutWellFormed
<1>2. Parent(p) \in Path /\ Len(Parent(p)) < 3 /\ l \in Label /\ Len(Parent(p)) \in {1, 2}
  BY PathParts
<1>3. dc \in {d, Nothing}
  <2>1. CASE Len(Parent(p)) = 1
    BY <2>1 DEF TopIn
  <2>2. CASE Len(Parent(p)) = 2
    <3> DEFINE q == Parent(p)
    <3>1. dc \in Folder \cup {Nothing}
      BY <1>1, <1>2, <2>2, TopKinds
    <3>2. ASSUME dc \in Folder PROVE dc = d
      <4>1. c[dc] = <<q[1], q[2]>> /\ dc \in Item
        BY <1>1, <1>2, <3>2, TopKinds, Distinct
      <4>2. q[1] \in {Root, Bin} /\ q[2] \in Label
        BY <1>2, <2>2, PathLengths
      <4>3. t[dc] = <<q[1], q[2]>> /\ IsPlaced(t, dc)
        <5>1. <<q[1], q[2]>> # Nothing /\ <<q[1], q[2]>> # Unborn
          BY <4>2 DEF FileManagerAssumption
        <5>2. QED
          BY <4>1, <5>1 DEF Cut, IsPlaced
      <4>4. LiesIn(t, q[1], q[2]) = {dc}
        BY <4>1, <4>3 DEF LiesIn, WellFormed
      <4>5. TheOne(LiesIn(t, q[1], q[2])) = dc
        BY <4>4, OneOf
      <4>6. QED
        BY <2>2, <3>2, <4>5 DEF TopIn
    <3>3. QED
      BY <3>1, <3>2
  <2>3. QED
    BY <1>2, <2>1, <2>2
<1>4. /\ AtIn(c, p) \in Item \cup {Nothing}
      /\ AtIn(c, p) # Nothing => c[AtIn(c, p)] = <<dc, l>> /\ IsPlaced(c, AtIn(c, p)) /\ dc # Nothing
  <2>1. /\ AtIn(c, p) \in Item \cup {Nothing}
        /\ AtIn(c, p) # Nothing => /\ c[AtIn(c, p)] = <<dc, l>> /\ IsPlaced(c, AtIn(c, p))
                                   /\ dc \in Folder \cup {Root, Bin}
    <3> HIDE DEF c
    <3>1. QED
      BY <1>1, AtKinds
  <2>2. QED
    BY <2>1, Distinct
<1>5. ASSUME AtIn(c, p) # Nothing PROVE AtIn(c, p) = AtIn(t, p) /\ AtIn(c, p) \notin R
  <2>1. dc = d
    BY <1>3, <1>4, <1>5
  <2>2. AtIn(c, p) \in LiesIn(t, d, l) /\ AtIn(c, p) \notin R
    BY <1>4, <1>5, <2>1 DEF Cut, IsPlaced, LiesIn
  <2>3. AtIn(t, p) # Nothing => LiesIn(t, d, l) = {AtIn(t, p)}
    BY AtKinds
  <2>4. AtIn(t, p) = Nothing => LiesIn(t, d, l) = {}
    BY AtKinds
  <2>5. QED
    BY <2>2, <2>3, <2>4
<1>6. TreeIn(c, p) \subseteq TreeIn(t, p)
  <2>1. CASE AtIn(c, p) = Nothing
    BY <1>1, <2>1, TreeKinds
  <2>2. CASE AtIn(c, p) # Nothing
    BY <1>4, <1>5, <2>2, CutWithin DEF TreeIn
  <2>3. QED
    BY <2>1, <2>2
<1>7. QED
  BY <1>5, <1>6

PutIn(t, x, d, l) == [Cut(t, LiesIn(t, d, l)) EXCEPT ![x] = <<d, l>>]

LEMMA PutWellFormed ==
    ASSUME FileManagerAssumption, NEW t, WellFormed(t), NEW x \in Item, t[x] = Unborn,
           NEW d \in Folder \cup {Root, Bin}, d \in Item => t[d] # Unborn, NEW l \in Label
    PROVE  /\ WellFormed(PutIn(t, x, d, l))
           /\ \A j \in Item : IsPlaced(t, j) /\ PutIn(t, x, d, l)[j] = Nothing => j \in LiesIn(t, d, l)
           /\ LiesIn(PutIn(t, x, d, l), d, l) = {x}
           /\ \A e \in Folder \cup {Root, Bin}, k \in Label :
                 e # d \/ k # l => LiesIn(PutIn(t, x, d, l), e, k) = LiesIn(t, e, k)
<1> DEFINE c == Cut(t, LiesIn(t, d, l))
           u == PutIn(t, x, d, l)
<1>1. <<d, l>> \in Space /\ <<d, l>> # Nothing /\ <<d, l>> # Unborn
  BY DEF Space, FileManagerAssumption
<1>2. WellFormed(c) /\ \A j \in Item : IsPlaced(t, j) /\ c[j] = Nothing => j \in LiesIn(t, d, l)
  BY CutWellFormed
<1>3. c \in [Item -> Space \cup {Unborn, Nothing}]
  BY <1>2 DEF WellFormed
<1>4. u \in [Item -> Space \cup {Unborn, Nothing}] /\ u[x] = <<d, l>> /\ \A j \in Item \ {x} : u[j] = c[j]
  BY <1>1, <1>3 DEF PutIn
<1>5. \A j \in Item : c[j] # <<d, l>>
  BY <1>1 DEF Cut, LiesIn
<1> HIDE DEF c, u
<1>6. \A i, j \in Item : IsPlaced(u, i) /\ u[j] = u[i] => j = i
  BY <1>2, <1>4, <1>5 DEF WellFormed, IsPlaced
<1>7. \A i \in Item : IsPlaced(u, i) /\ u[i][1] \in Item => u[u[i][1]] # Unborn
  <2>1. TAKE i \in Item
  <2>2. HAVE IsPlaced(u, i) /\ u[i][1] \in Item
  <2>3. CASE i = x
    <3>1. u[i][1] = d /\ d \in Item
      BY <1>4, <2>2, <2>3
    <3>2. c[d] # Unborn
      BY <3>1, Distinct DEF c, Cut
    <3>3. QED
      BY <1>1, <1>4, <3>1, <3>2
  <2>4. CASE i # x
    <3>1. c[u[i][1]] # Unborn
      BY <1>2, <1>4, <2>2, <2>4 DEF WellFormed, IsPlaced
    <3>2. QED
      BY <1>1, <1>4, <2>2, <3>1
  <2>5. QED
    BY <2>3, <2>4
<1>8. LiesIn(u, d, l) = {x}
  BY <1>4, <1>5 DEF LiesIn
<1>9. ASSUME NEW e \in Folder \cup {Root, Bin}, NEW k \in Label, e # d \/ k # l
      PROVE  LiesIn(u, e, k) = LiesIn(t, e, k)
  <2>1. <<e, k>> # Nothing /\ <<e, k>> # Unborn /\ <<e, k>> # <<d, l>>
    BY <1>9 DEF FileManagerAssumption
  <2>2. \A j \in Item : c[j] = <<e, k>> <=> t[j] = <<e, k>>
    BY <2>1 DEF c, Cut, LiesIn
  <2>3. QED
    BY <1>4, <2>1, <2>2 DEF LiesIn
<1>10. \A j \in Item : IsPlaced(t, j) /\ u[j] = Nothing => j \in LiesIn(t, d, l)
  BY <1>1, <1>2, <1>4
<1>11. QED
  BY <1>4, <1>6, <1>7, <1>8, <1>9, <1>10 DEF u, WellFormed

RenameIn(t, p, q) ==
    [Cut(t, TreeIn(t, q) \ TreeIn(t, p)) EXCEPT ![AtIn(t, p)] = <<TopIn(t, Parent(q)), BaseName(q)>>]

LEMMA RenameWellFormed ==
    ASSUME FileManagerAssumption, NEW t, WellFormed(t), NEW p \in Path, NEW q \in Path,
           Len(p) > 1, Len(q) > 1, AtIn(t, p) \in Item, TopIn(t, Parent(q)) # Nothing, ~Below(p, q)
    PROVE  /\ WellFormed(RenameIn(t, p, q))
           /\ \A j \in Item : IsPlaced(t, j) /\ RenameIn(t, p, q)[j] = Nothing => j \in TreeIn(t, q)
           /\ RenameIn(t, p, q)[AtIn(t, p)] = <<TopIn(t, Parent(q)), BaseName(q)>>
           /\ \A j \in Item \ {AtIn(t, p)} :
                 RenameIn(t, p, q)[j] = Cut(t, TreeIn(t, q) \ TreeIn(t, p))[j]
<1> DEFINE x == AtIn(t, p)
           d == TopIn(t, Parent(q))
           l == BaseName(q)
           c == Cut(t, TreeIn(t, q) \ TreeIn(t, p))
           u == RenameIn(t, p, q)
<1>1. /\ d \in Folder \cup {Root, Bin} /\ l \in Label
      /\ d \in Folder => Len(q) = 3 /\ t[d] = <<q[1], q[2]>>
      /\ LiesIn(t, d, l) # {} => LiesIn(t, d, l) = {AtIn(t, q)} /\ AtIn(t, q) \in Item
  BY AtKinds, PathParts, Distinct
<1>2. <<d, l>> \in Space /\ <<d, l>> # Nothing /\ <<d, l>> # Unborn
  BY <1>1 DEF Space, FileManagerAssumption
<1>3. /\ WellFormed(c)
      /\ \A j \in Item : IsPlaced(t, j) /\ c[j] = Nothing => j \in TreeIn(t, q)
      /\ c \in [Item -> Space \cup {Unborn, Nothing}]
  BY CutWellFormed DEF WellFormed
<1>4. u \in [Item -> Space \cup {Unborn, Nothing}] /\ u[x] = <<d, l>> /\ \A j \in Item \ {x} : u[j] = c[j]
  BY <1>2, <1>3 DEF RenameIn
<1>5. ASSUME NEW j \in Item, j # x, c[j] = <<d, l>> PROVE FALSE
  <2>1. t[j] = <<d, l>> /\ j \notin TreeIn(t, q) \ TreeIn(t, p)
    BY <1>2, <1>5 DEF Cut
  <2>2. j = AtIn(t, q)
    BY <1>1, <2>1 DEF LiesIn
  <2>3. j \in TreeIn(t, q)
    BY <2>2, WithinKinds DEF TreeIn
  <2>4. j \in WithinIn(t, x)
    BY <2>1, <2>3 DEF TreeIn
  <2>5. d \in NestedIn(t, x) /\ d \in Folder
    BY <1>1, <1>5, <2>1, <2>4, WithinKinds, Distinct
  <2>6. Len(q) = 3 /\ t[d] = <<q[1], q[2]>> /\ q[1] \in {Root, Bin} /\ Parent(q) = <<q[1], q[2]>>
    BY <1>1, <2>5, PathParts
  <2>7. d = x
    <3>1. ASSUME d # x PROVE FALSE
      <4>1. t[d][1] \in NestedIn(t, x)
        BY <2>5, <3>1, NestedChain
      <4>2. t[d][1] \in Item
        BY <4>1, NestedClosed
      <4>3. QED
        BY <2>6, <4>2, Distinct
    <3>2. QED
      BY <3>1
  <2>8. t[x] = <<TopIn(t, Parent(p)), BaseName(p)>> /\ TopIn(t, Parent(p)) = q[1] /\ BaseName(p) = q[2]
    <3>1. t[x] = <<TopIn(t, Parent(p)), BaseName(p)>>
      BY AtKinds, Distinct
    <3>2. QED
      BY <2>6, <2>7, <3>1
  <2>9. Len(p) = 2 /\ p[1] = q[1]
    BY <2>6, <2>8, AtKinds, PathParts, Distinct
  <2>10. p = Parent(q)
    <3>1. p = <<p[1], p[2]>> /\ BaseName(p) = p[2]
      BY <2>9, PathParts
    <3>2. QED
      BY <2>6, <2>8, <2>9, <3>1
  <2>11. QED
    BY <2>6, <2>9, <2>10 DEF Below, Parent
<1> HIDE DEF c, u, x, d, l
<1>6. \A i, j \in Item : IsPlaced(u, i) /\ u[j] = u[i] => j = i
  BY <1>3, <1>4, <1>5 DEF WellFormed, IsPlaced
<1>7. \A i \in Item : IsPlaced(u, i) /\ u[i][1] \in Item => u[u[i][1]] # Unborn
  <2>1. TAKE i \in Item
  <2>2. HAVE IsPlaced(u, i) /\ u[i][1] \in Item
  <2>3. CASE i = x
    <3>1. u[i][1] = d /\ d \in Item /\ d \in Folder
      BY <1>1, <1>4, <2>2, <2>3, Distinct
    <3>2. c[d] # Unborn
      <4>1. t[d] # Unborn
        <5>1. q[1] \in {Root, Bin} /\ q[2] \in Label
          BY <1>1, <3>1, PathLengths
        <5>2. t[d] = <<q[1], q[2]>>
          BY <1>1, <3>1
        <5>3. t[d] \in Space
          BY <5>1, <5>2 DEF Space
        <5>4. QED
          BY <5>3, Distinct
      <4>2. QED
        BY <3>1, <4>1, Distinct DEF c, Cut
    <3>3. QED
      BY <1>2, <1>4, <3>1, <3>2
  <2>4. CASE i # x
    <3>1. c[u[i][1]] # Unborn
      BY <1>3, <1>4, <2>2, <2>4 DEF WellFormed, IsPlaced
    <3>2. QED
      BY <1>2, <1>4, <2>2, <3>1
  <2>5. QED
    BY <2>3, <2>4
<1>8. \A j \in Item : IsPlaced(t, j) /\ u[j] = Nothing => j \in TreeIn(t, q)
  BY <1>2, <1>3, <1>4
<1>9. QED
  BY <1>4, <1>6, <1>7, <1>8 DEF c, u, x, d, l, WellFormed

\* The operators of the module are those on its tree.
LEMMA OnPlace ==
    /\ \A i \in Item : Placed(i) <=> IsPlaced(place, i)
    /\ \A d, l : Lies(d, l) = LiesIn(place, d, l)
    /\ \A p : Top(p) = TopIn(place, p) /\ At(p) = AtIn(place, p) /\ Tree(p) = TreeIn(place, p)
    /\ \A i : Within(i) = WithinIn(place, i)
    /\ \A R : Removed(R) = Cut(place, R)
<1>1. /\ \A i \in Item : Placed(i) <=> IsPlaced(place, i)
      /\ \A d, l : Lies(d, l) = LiesIn(place, d, l)
      /\ \A R : Removed(R) = Cut(place, R)
      /\ \A S : Inside(S) = InsideIn(place, S)
  BY DEF Placed, IsPlaced, Lies, LiesIn, Removed, Cut, Inside, InsideIn
<1>2. \A p : Top(p) = TopIn(place, p)
  BY <1>1 DEF Top, TopIn
<1>3. \A p : At(p) = AtIn(place, p)
  BY <1>1, <1>2 DEF At, AtIn
<1>4. \A i : Nested(i) = NestedIn(place, i)
  BY <1>1 DEF Nested, NestedIn, ClosedIn
<1>5. \A i : Within(i) = WithinIn(place, i)
  BY <1>1, <1>4 DEF Within, WithinIn
<1>6. \A p : Tree(p) = TreeIn(place, p)
  BY <1>3, <1>5 DEF Tree, TreeIn
<1>7. QED
  BY <1>1, <1>2, <1>3, <1>5, <1>6

-------------------------------------------------------------------------------
(* Steps *)

\* A step of r touches what is r's alone; whoever is busy is surprised by a change of the tree.
LEMMA FilesStep ==
    ASSUME FileManagerAssumption, FilesInv, NEW r \in FileRequest, FilesTypeOK', WellFormed(place'), OriginInv',
           \A q \in FileRequest \ {r} : /\ step'[q] = step[q] /\ ask'[q] = ask[q] /\ target'[q] = target[q]
                                        /\ todo'[q] = todo[q] /\ agreed'[q] = agreed[q],
           step'[r] # "idle", ask'[r] \in Asks, Works(step'[r], ask'[r], target'[r]),
           step[r] # "idle" => ask'[r] = ask[r] /\ target'[r] = target[r],
           surprised \subseteq surprised',
           place' # place => \A q \in FileRequest \ {r} : Busy(q) => q \in surprised',
           r \notin surprised' =>
                Prepared(place', step'[r], target'[r], ask'[r], todo'[r], agreed'[r]),
           culprits' \subseteq culprits \cup {r},
           r \in culprits' => r \in culprits \/ Forgiven(r, surprised', ask'[r], target'[r])
    PROVE  FilesInv'
<1>1. WorkInv'
  BY DEF FilesInv, WorkInv
<1>2. PreparedInv'
  <2>1. SUFFICES ASSUME NEW q \in FileRequest \ surprised', q # r
                 PROVE  Prepared(place', step'[q], target'[q], ask'[q], todo'[q], agreed'[q])
    BY DEF PreparedInv
  <2>2. Prepared(place, step[q], target[q], ask[q], todo[q], agreed[q])
    BY <2>1 DEF FilesInv, PreparedInv
  <2>3. CASE place' = place
    BY <2>1, <2>2, <2>3
  <2>4. CASE place' # place
    <3>1. step'[q] \in {"idle", "done"}
      BY <2>1, <2>4 DEF Busy
    <3>2. QED
      BY <3>1 DEF Prepared
  <2>5. QED
    BY <2>3, <2>4
<1>3. KeptInv'
  <2>1. SUFFICES ASSUME NEW q \in culprits'
                 PROVE  step'[q] # "idle" /\ Forgiven(q, surprised', ask'[q], target'[q])
    BY DEF KeptInv
  <2>2. CASE q \in culprits
    <3>1. q \in FileRequest
      BY <2>2 DEF FilesInv, FilesTypeOK
    <3>2. step[q] # "idle" /\ Forgiven(q, surprised, ask[q], target[q])
      BY <2>2 DEF FilesInv, KeptInv
    <3>3. step'[q] # "idle" /\ ask'[q] = ask[q] /\ target'[q] = target[q]
      BY <3>1, <3>2
    <3>4. QED
      BY <3>2, <3>3 DEF Forgiven
  <2>3. CASE q \notin culprits
    BY <2>1, <2>3
  <2>4. QED
    BY <2>2, <2>3
<1>4. QED
  BY <1>1, <1>2, <1>3 DEF FilesInv

\* A request looks, and the tree stays as it is.
LEMMA LookStep ==
    ASSUME FileManagerAssumption, FilesInv, NEW r \in FileRequest, NEW a \in Asks, Looks(r, a),
           NEW s \in Step \ {"idle"}, StepTo(r, s),
           UNCHANGED <<place, surprised, culprits, origin, starred, troubles>>,
           NEW q \in Path \cup {Nothing}, target' = [target EXCEPT ![r] = q],
           NEW R \in SUBSET Item, agreed' = [agreed EXCEPT ![r] = R],
           NEW L \in SUBSET Label, todo' = [todo EXCEPT ![r] = L],
           Works(s, a, q), Prepared(place, s, q, a, L, R)
    PROVE  FilesInv'
<1>1. FilesTypeOK
  BY DEF FilesInv
<1>2. /\ step[r] = "idle" /\ step'[r] = s /\ ask'[r] = a /\ target'[r] = q /\ todo'[r] = L /\ agreed'[r] = R
      /\ \A p \in FileRequest \ {r} : /\ step'[p] = step[p] /\ ask'[p] = ask[p] /\ target'[p] = target[p]
                                      /\ todo'[p] = todo[p] /\ agreed'[p] = agreed[p]
  BY <1>1 DEF FilesTypeOK, Looks, StepTo
<1>3. FilesTypeOK'
  BY <1>1 DEF FilesTypeOK, Looks, StepTo
<1>4. WellFormed(place') /\ OriginInv'
  BY DEF FilesInv, OriginInv
<1>5. QED
  BY <1>2, <1>3, <1>4, FilesStep

\* A request refuses what it is asked.
LEMMA RefuseStep ==
    ASSUME FileManagerAssumption, FilesInv, NEW r \in FileRequest, NEW a \in Asks, Looks(r, a), Refuse(r), Unchosen(r)
    PROVE  FilesInv'
<1>1. FilesTypeOK
  BY DEF FilesInv
<1>2. /\ target[r] \in Path \cup {Nothing} /\ agreed[r] \in SUBSET Item /\ todo[r] \in SUBSET Label
      /\ target' = [target EXCEPT ![r] = target[r]] /\ agreed' = [agreed EXCEPT ![r] = agreed[r]]
      /\ todo' = [todo EXCEPT ![r] = todo[r]]
  BY <1>1 DEF FilesTypeOK, Refuse, Unchosen
<1>3. Works("done", a, target[r]) /\ Prepared(place, "done", target[r], a, todo[r], agreed[r])
  BY DEF Works, Prepared
<1>4. StepTo(r, "done") /\ UNCHANGED <<place, surprised, culprits, origin, starred, troubles>>
  BY DEF Refuse, Unchosen
<1>5. "done" \in Step \ {"idle"}
  BY DEF Step
<1>6. QED
  BY <1>2, <1>3, <1>4, <1>5, LookStep

\* A request acts on the tree, or leaves it.
LEMMA ActStep ==
    ASSUME FileManagerAssumption, FilesInv, NEW r \in FileRequest, Busy(r), WellFormed(place'),
           NEW s \in Step \ {"idle"}, StepTo(r, s), Reckon(r),
           UNCHANGED <<origin, starred, ask, target, agreed, troubles>>,
           NEW L \in SUBSET Label, todo' = [todo EXCEPT ![r] = L],
           Works(s, ask[r], target[r]),
           r \notin surprised => Prepared(place', s, target[r], ask[r], L, agreed[r]),
           \/ Forgiven(r, surprised, ask[r], target[r])
           \/ \A i \in Item : IsPlaced(place, i) /\ place'[i] = Nothing => i \in agreed[r]
    PROVE  FilesInv'
<1>1. FilesTypeOK
  BY DEF FilesInv
<1>2. /\ step'[r] = s /\ todo'[r] = L /\ step[r] # "idle"
      /\ \A p \in FileRequest \ {r} : step'[p] = step[p] /\ todo'[p] = todo[p]
  BY <1>1 DEF FilesTypeOK, StepTo, Busy
<1>3. /\ surprised \subseteq surprised' /\ surprised' \subseteq FileRequest
      /\ r \in surprised' => r \in surprised
      /\ place' # place => \A q \in FileRequest \ {r} : Busy(q) => q \in surprised'
  BY <1>1 DEF Reckon, FilesTypeOK
<1>4. culprits' \subseteq culprits \cup {r} /\ culprits' \subseteq FileRequest
  BY <1>1 DEF Reckon, FilesTypeOK
<1>5. r \in culprits' => r \in culprits \/ Forgiven(r, surprised', ask[r], target[r])
  <2>1. CASE Forgiven(r, surprised, ask[r], target[r])
    BY <1>3, <2>1 DEF Forgiven
  <2>2. CASE \A i \in Item : IsPlaced(place, i) /\ place'[i] = Nothing => i \in agreed[r]
    BY <2>2, OnPlace DEF Reckon
  <2>3. QED
    BY <2>1, <2>2
<1>6. FilesTypeOK'
  BY <1>1, <1>3, <1>4 DEF FilesTypeOK, StepTo, WellFormed, Space
<1>7. OriginInv'
  BY DEF FilesInv, OriginInv
<1>8. ask[r] \in Asks
  BY <1>2 DEF FilesInv, WorkInv
<1>9. QED
  BY <1>2, <1>3, <1>4, <1>5, <1>6, <1>7, <1>8, FilesStep

\* A request goes on without a look at the tree.
LEMMA SilentStep ==
    ASSUME FileManagerAssumption, FilesInv, NEW r \in FileRequest, Busy(r),
           NEW s \in Step \ {"idle", "making", "saving", "replacing", "moving", "copying", "removing", "emptying",
                            "clearing"},
           StepTo(r, s), UNCHANGED <<place, surprised, culprits, ask, target, todo, agreed>>,
           origin' \in [Label -> Path \cup {Nothing}], OriginInv', starred' \subseteq Path, troubles' \in 0..MaxTroubles,
           Works(s, ask[r], target[r])
    PROVE  FilesInv'
<1>1. FilesTypeOK
  BY DEF FilesInv
<1>2. step'[r] = s /\ step[r] # "idle" /\ \A p \in FileRequest \ {r} : step'[p] = step[p]
  BY <1>1 DEF FilesTypeOK, StepTo, Busy
<1>3. FilesTypeOK'
  BY <1>1 DEF FilesTypeOK, StepTo
<1>4. WellFormed(place') /\ ask[r] \in Asks
  BY <1>2 DEF FilesInv, WorkInv
<1>5. Prepared(place', s, target[r], ask[r], todo[r], agreed[r])
  BY DEF Prepared
<1>6. QED
  BY <1>2, <1>3, <1>4, <1>5, FilesStep

-------------------------------------------------------------------------------
(* Requests that look *)

LEMMA AskKinds ==
    ASSUME FileManagerAssumption, NEW a \in Asks
    PROVE  /\ a \in Ask /\ a.path \in Path /\ a.to \in Path
           /\ a.op \notin {"empty", "delete"} => Len(a.path) > 1
           /\ a.op \in {"move", "copy"} => Len(a.to) < 3
           /\ a.op = "rename" => Len(a.to) > 1
BY DEF FileManagerAssumption, Ask

LEMMA OwnState ==
    ASSUME FilesTypeOK, NEW r \in FileRequest
    PROVE  /\ agreed = [agreed EXCEPT ![r] = agreed[r]] /\ agreed[r] \in SUBSET Item
           /\ todo = [todo EXCEPT ![r] = todo[r]] /\ todo[r] \in SUBSET Label
           /\ target = [target EXCEPT ![r] = target[r]] /\ target[r] \in Path \cup {Nothing}
           /\ step = [step EXCEPT ![r] = step[r]] /\ step[r] \in Step
BY DEF FilesTypeOK

\* A name that is free in a directory.
LEMMA UniqueFree ==
    ASSUME FileManagerAssumption, NEW dir, NEW label \in Label, NEW first, NEW l \in Unique(dir, label, first)
    PROVE  l \in Label /\ LiesIn(place, dir, l) = {}
<1>1. PICK k \in FreeLabels(dir, label, first) : l = <<label[1], k>>
  BY DEF Unique
<1>2. k \in 0..MaxSuffix /\ Lies(dir, l) = {}
  BY <1>1 DEF FreeLabels, Numbers, FileManagerAssumption
<1>3. QED
  BY <1>1, <1>2, OnPlace DEF Label

LEMMA FreeAt ==
    ASSUME FileManagerAssumption, NEW t, NEW p \in Path, Len(p) < 3, NEW l \in Label,
           LiesIn(t, TopIn(t, p), l) = {}
    PROVE  AtIn(t, Append(p, l)) = Nothing
<1>1. /\ Len(Append(p, l)) = Len(p) + 1 /\ Parent(Append(p, l)) = p /\ BaseName(Append(p, l)) = l
      /\ Len(p) \in 1..3
  BY PathGrows, PathLengths
<1>2. QED
  BY <1>1, OneOf DEF AtIn

LEMMA LooksToMake ==
    ASSUME FileManagerAssumption, FilesInv, NEW r \in FileRequest, NEW a \in Asks, LookToMake(r, a)
    PROVE  FilesInv'
<1>1. FilesTypeOK /\ Looks(r, a) /\ Unchosen(r)
  BY DEF FilesInv, LookToMake
<1>2. CASE Refuse(r)
  BY <1>1, <1>2, RefuseStep
<1>3. CASE ~Refuse(r)
  <2>1. /\ At(a.path) = Nothing /\ StepTo(r, "making")
        /\ target' = [target EXCEPT ![r] = a.path] /\ agreed' = agreed
        /\ a.op \in {"createFolder", "createFile", "upload"}
    BY <1>3 DEF LookToMake
  <2>2. a.path \in Path /\ Len(a.path) > 1 /\ AtIn(place, a.path) = Nothing
    BY <2>1, AskKinds, OnPlace
  <2>3. Works("making", a, a.path) /\ Prepared(place, "making", a.path, a, todo[r], agreed[r])
    BY <2>1, <2>2 DEF Works, Prepared
  <2>4. /\ UNCHANGED <<place, surprised, culprits, origin, starred, troubles>>
        /\ agreed' = [agreed EXCEPT ![r] = agreed[r]] /\ agreed[r] \in SUBSET Item
        /\ todo' = [todo EXCEPT ![r] = todo[r]] /\ todo[r] \in SUBSET Label
        /\ "making" \in Step \ {"idle"}
    BY <1>1, <2>1, OwnState DEF Unchosen, Step
  <2>5. QED
    BY <1>1, <2>1, <2>2, <2>3, <2>4, LookStep
<1>4. QED
  BY <1>2, <1>3

LEMMA Opens ==
    ASSUME FileManagerAssumption, FilesInv, NEW r \in FileRequest, NEW a \in Asks, Open(r, a)
    PROVE  FilesInv'
<1>1. FilesTypeOK /\ Looks(r, a) /\ Unchosen(r)
  BY DEF FilesInv, Open
<1>2. CASE Refuse(r)
  BY <1>1, <1>2, RefuseStep
<1>3. CASE ~Refuse(r)
  <2>1. /\ At(a.path) \in File /\ StepTo(r, "comparing") /\ a.op = "save"
        /\ target' = [target EXCEPT ![r] = a.path] /\ agreed' = [agreed EXCEPT ![r] = {At(a.path)}]
    BY <1>3 DEF Open
  <2>2. a.path \in Path /\ Len(a.path) > 1 /\ {At(a.path)} \in SUBSET Item
    BY <2>1, AskKinds DEF File
  <2>3. Works("comparing", a, a.path) /\ Prepared(place, "comparing", a.path, a, todo[r], {At(a.path)})
    BY <2>1, <2>2 DEF Works, Prepared
  <2>4. /\ UNCHANGED <<place, surprised, culprits, origin, starred, troubles>>
        /\ todo' = [todo EXCEPT ![r] = todo[r]] /\ todo[r] \in SUBSET Label
        /\ "comparing" \in Step \ {"idle"}
    BY <1>1, OwnState DEF Unchosen, Step
  <2>5. QED
    BY <1>1, <2>1, <2>2, <2>3, <2>4, LookStep
<1>4. QED
  BY <1>2, <1>3

LEMMA LooksToPaste ==
    ASSUME FileManagerAssumption, FilesInv, NEW r \in FileRequest, NEW a \in Asks, LookToPaste(r, a)
    PROVE  FilesInv'
<1> DEFINE dir  == Top(a.to)
           goal == Append(a.to, BaseName(a.path))
           act  == IF a.op = "move" THEN "moving" ELSE "copying"
           R    == Tree(goal) \ (IF Below(goal, a.path) THEN Tree(a.path) ELSE {})
<1>1. /\ FilesTypeOK /\ WellFormed(place) /\ Looks(r, a) /\ Unchosen(r) /\ a.op \in {"move", "copy"}
  BY DEF FilesInv, LookToPaste
<1>2. /\ UNCHANGED <<place, surprised, culprits, origin, starred, troubles>>
      /\ agreed = [agreed EXCEPT ![r] = agreed[r]] /\ agreed[r] \in SUBSET Item
      /\ todo' = [todo EXCEPT ![r] = todo[r]] /\ todo[r] \in SUBSET Label
      /\ act \in Step \ {"idle"} /\ "replacing" \in Step \ {"idle"}
  BY <1>1, OwnState DEF Unchosen, Step
<1>3. a.path \in Path /\ Len(a.path) > 1 /\ a.to \in Path /\ Len(a.to) < 3 /\ BaseName(a.path) \in Label
  BY <1>1, AskKinds, PathParts
<1>4. goal \in Path /\ Len(goal) > 1 /\ BaseName(goal) = BaseName(a.path)
  <2>1. Len(a.to) \in 1..3
    BY <1>3, PathLengths
  <2>2. QED
    BY <1>3, <2>1, PathGrows
<1>5. \/ Refuse(r)
      \/ /\ At(goal) = Nothing
         /\ StepTo(r, act)
         /\ target' = [target EXCEPT ![r] = goal] /\ agreed' = agreed
      \/ /\ \E l \in Unique(dir, BaseName(goal), 1) :
               target' = [target EXCEPT ![r] = Append(a.to, l)]
         /\ StepTo(r, act) /\ agreed' = agreed
      \/ /\ StepTo(r, "replacing")
         /\ target' = [target EXCEPT ![r] = goal]
         /\ agreed' = [agreed EXCEPT ![r] = R]
  BY DEF LookToPaste
<1>6. ASSUME NEW q \in Path, Len(q) > 1 PROVE Works(act, a, q) /\ Works("replacing", a, q)
  BY <1>1, <1>6 DEF Works
<1> HIDE DEF dir, goal, act
<1>7. ASSUME NEW q \in Path, Len(q) > 1, AtIn(place, q) = Nothing,
             target' = [target EXCEPT ![r] = q], agreed' = agreed, StepTo(r, act)
      PROVE  FilesInv'
  <2>1. Works(act, a, q) /\ agreed' = [agreed EXCEPT ![r] = agreed[r]]
    BY <1>2, <1>6, <1>7
  <2>2. Prepared(place, act, q, a, todo[r], agreed[r])
    BY <1>7 DEF Prepared, act
  <2>3. QED
    BY <1>1, <1>2, <1>7, <2>1, <2>2, LookStep
<1>8. CASE Refuse(r)
  BY <1>1, <1>8, RefuseStep
<1>9. CASE At(goal) = Nothing /\ StepTo(r, act) /\ target' = [target EXCEPT ![r] = goal] /\ agreed' = agreed
  BY <1>4, <1>7, <1>9, OnPlace
<1>10. ASSUME NEW l \in Unique(dir, BaseName(goal), 1), target' = [target EXCEPT ![r] = Append(a.to, l)],
              StepTo(r, act), agreed' = agreed
       PROVE  FilesInv'
  <2>1. l \in Label /\ LiesIn(place, TopIn(place, a.to), l) = {}
    BY <1>3, <1>4, <1>10, UniqueFree, OnPlace DEF dir
  <2>2. AtIn(place, Append(a.to, l)) = Nothing
    BY <1>3, <2>1, FreeAt
  <2>3. Append(a.to, l) \in Path /\ Len(Append(a.to, l)) > 1
    <3>1. Len(a.to) \in 1..3
      BY <1>3, PathLengths
    <3>2. QED
      BY <1>3, <2>1, <3>1, PathGrows
  <2>4. QED
    BY <1>7, <1>10, <2>2, <2>3
<1>11. CASE /\ StepTo(r, "replacing")
            /\ target' = [target EXCEPT ![r] = goal]
            /\ agreed' = [agreed EXCEPT ![r] = R]
  <2>1. TreeIn(place, goal) \subseteq R \/ Below(goal, a.path)
    BY OnPlace
  <2>2. R \in SUBSET Item
    BY <1>1, <1>4, TreeKinds, OnPlace
  <2> HIDE DEF R
  <2>3. Prepared(place, "replacing", goal, a, todo[r], R)
    BY <1>1, <2>1 DEF Prepared
  <2>4. Works("replacing", a, goal)
    BY <1>4, <1>6
  <2>5. QED
    BY <1>1, <1>2, <1>4, <1>11, <2>2, <2>3, <2>4, LookStep
<1>12. QED
  BY <1>5, <1>8, <1>9, <1>10, <1>11

LEMMA SiblingPath ==
    ASSUME NEW p \in Path, Len(p) > 1, NEW l \in Label
    PROVE  Append(Parent(p), l) \in Path /\ Len(Append(Parent(p), l)) = Len(p)
           /\ Parent(Append(Parent(p), l)) = Parent(p) /\ Append(Parent(p), l)[1] = p[1]
<1>1. Parent(p) \in Path /\ Len(Parent(p)) = Len(p) - 1 /\ Len(p) \in {2, 3} /\ Parent(p)[1] = p[1]
  BY PathParts
<1>2. QED
  BY <1>1, PathGrows

LEMMA LooksToRename ==
    ASSUME FileManagerAssumption, FilesInv, NEW r \in FileRequest, NEW a \in Asks, LookToRename(r, a)
    PROVE  FilesInv'
<1> DEFINE goal == Append(Parent(a.path), BaseName(a.to))
<1>1. FilesTypeOK /\ Looks(r, a) /\ Unchosen(r) /\ a.op = "rename"
  BY DEF FilesInv, LookToRename
<1>2. CASE Refuse(r)
  BY <1>1, <1>2, RefuseStep
<1>3. CASE ~Refuse(r)
  <2>1. /\ At(goal) = Nothing /\ StepTo(r, "moving")
        /\ target' = [target EXCEPT ![r] = goal] /\ agreed' = agreed
    BY <1>3 DEF LookToRename
  <2>2. goal \in Path /\ Len(goal) > 1 /\ AtIn(place, goal) = Nothing
    <3>1. a.path \in Path /\ Len(a.path) > 1 /\ a.to \in Path /\ Len(a.to) > 1
      BY <1>1, AskKinds
    <3>2. BaseName(a.to) \in Label
      BY <3>1, PathParts
    <3>3. goal \in Path /\ Len(goal) > 1
      BY <3>1, <3>2, SiblingPath
    <3>4. QED
      BY <2>1, <3>3, OnPlace
  <2> HIDE DEF goal
  <2>3. Works("moving", a, goal) /\ Prepared(place, "moving", goal, a, todo[r], agreed[r])
    BY <1>1, <2>1, <2>2 DEF Works, Prepared
  <2>4. /\ UNCHANGED <<place, surprised, culprits, origin, starred, troubles>>
        /\ agreed' = [agreed EXCEPT ![r] = agreed[r]] /\ agreed[r] \in SUBSET Item
        /\ todo' = [todo EXCEPT ![r] = todo[r]] /\ todo[r] \in SUBSET Label
        /\ "moving" \in Step \ {"idle"}
    BY <1>1, <2>1, OwnState DEF Unchosen, Step
  <2>5. QED
    BY <1>1, <2>1, <2>2, <2>3, <2>4, LookStep
<1>4. QED
  BY <1>2, <1>3

\* The entries of the trash.
LEMMA TrashPaths ==
    ASSUME FileManagerAssumption, NEW t, NEW l \in Label
    PROVE  /\ <<Bin, l>> \in Path /\ Len(<<Bin, l>>) = 2 /\ InBin(<<Bin, l>>)
           /\ AtIn(t, <<Bin, l>>) = TheOne(LiesIn(t, Bin, l))
<1>1. <<Bin, l>> \in Path /\ Len(<<Bin, l>>) = 2 /\ InBin(<<Bin, l>>)
  BY PathsOf DEF InBin
<1>2. Parent(<<Bin, l>>) = <<Bin>> /\ BaseName(<<Bin, l>>) = l
  BY <1>1, PathParts
<1>3. TopIn(t, <<Bin>>) = Bin
  BY DEF TopIn
<1>4. QED
  BY <1>1, <1>2, <1>3 DEF AtIn

LEMMA LooksToTrash ==
    ASSUME FileManagerAssumption, FilesInv, NEW r \in FileRequest, NEW a \in Asks, LookToTrash(r, a)
    PROVE  FilesInv'
<1>1. FilesTypeOK /\ Looks(r, a) /\ Unchosen(r) /\ a.op = "trash"
  BY DEF FilesInv, LookToTrash
<1>2. CASE Refuse(r)
  BY <1>1, <1>2, RefuseStep
<1>3. CASE ~Refuse(r)
  <2>1. /\ ~InBin(a.path) /\ StepTo(r, "moving") /\ agreed' = agreed
        /\ \E l \in Unique(Bin, BaseName(a.path), 2) : target' = [target EXCEPT ![r] = <<Bin, l>>]
    BY <1>3 DEF LookToTrash
  <2>2. PICK l \in Unique(Bin, BaseName(a.path), 2) : target' = [target EXCEPT ![r] = <<Bin, l>>]
    BY <2>1
  <2>3. l \in Label /\ LiesIn(place, Bin, l) = {}
    BY <1>1, AskKinds, PathParts, UniqueFree
  <2> DEFINE q == <<Bin, l>>
  <2>4. q \in Path /\ Len(q) = 2 /\ InBin(q) /\ AtIn(place, q) = Nothing
    BY <2>3, TrashPaths, OneOf
  <2>5. target' = [target EXCEPT ![r] = q]
    BY <2>2
  <2> HIDE DEF q
  <2>6. Works("moving", a, q) /\ Prepared(place, "moving", q, a, todo[r], agreed[r])
    BY <1>1, <2>1, <2>4 DEF Works, Prepared
  <2>7. /\ UNCHANGED <<place, surprised, culprits, origin, starred, troubles>>
        /\ agreed' = [agreed EXCEPT ![r] = agreed[r]] /\ agreed[r] \in SUBSET Item
        /\ todo' = [todo EXCEPT ![r] = todo[r]] /\ todo[r] \in SUBSET Label
        /\ "moving" \in Step \ {"idle"}
    BY <1>1, <2>1, OwnState DEF Unchosen, Step
  <2>8. QED
    BY <1>1, <2>1, <2>4, <2>5, <2>6, <2>7, LookStep
<1>4. QED
  BY <1>2, <1>3

LEMMA LooksToDelete ==
    ASSUME FileManagerAssumption, FilesInv, NEW r \in FileRequest, NEW a \in Asks, LookToDelete(r, a)
    PROVE  FilesInv'
<1>1. FilesTypeOK /\ WellFormed(place) /\ Looks(r, a) /\ Unchosen(r) /\ a.op = "delete"
  BY DEF FilesInv, LookToDelete
<1>2. CASE Refuse(r)
  BY <1>1, <1>2, RefuseStep
<1>3. CASE ~Refuse(r)
  <2>1. /\ InBin(a.path) /\ StepTo(r, "removing")
        /\ target' = [target EXCEPT ![r] = a.path] /\ agreed' = [agreed EXCEPT ![r] = Tree(a.path)]
    BY <1>3 DEF LookToDelete
  <2>2. a.path \in Path /\ Len(a.path) > 1 /\ Tree(a.path) \in SUBSET Item /\ Tree(a.path) = TreeIn(place, a.path)
    BY <1>1, AskKinds, TreeKinds, OnPlace DEF LookToDelete
  <2>3. Works("removing", a, a.path) /\ Prepared(place, "removing", a.path, a, todo[r], Tree(a.path))
    BY <1>1, <2>1, <2>2 DEF Works, Prepared
  <2>4. /\ UNCHANGED <<place, surprised, culprits, origin, starred, troubles>>
        /\ todo' = [todo EXCEPT ![r] = todo[r]] /\ todo[r] \in SUBSET Label
        /\ "removing" \in Step \ {"idle"}
    BY <1>1, OwnState DEF Unchosen, Step
  <2>5. QED
    BY <1>1, <2>1, <2>2, <2>3, <2>4, LookStep
<1>4. QED
  BY <1>2, <1>3

LEMMA LooksToEmpty ==
    ASSUME FileManagerAssumption, FilesInv, NEW r \in FileRequest, NEW a \in Asks, LookToEmpty(r, a)
    PROVE  FilesInv'
<1> DEFINE listed == {l \in Label : Lies(Bin, l) # {}}
           R == UNION {Tree(<<Bin, l>>) : l \in listed}
<1>1. /\ FilesTypeOK /\ WellFormed(place) /\ Looks(r, a) /\ a.op = "empty"
      /\ StepTo(r, "emptying") /\ todo' = [todo EXCEPT ![r] = listed] /\ agreed' = [agreed EXCEPT ![r] = R]
      /\ UNCHANGED <<place, surprised, culprits, origin, starred, troubles>> /\ target' = target
  BY DEF FilesInv, LookToEmpty
<1>2. target' = [target EXCEPT ![r] = target[r]] /\ target[r] \in Path \cup {Nothing}
  BY <1>1, OwnState
<1>3. listed \in SUBSET Label
  OBVIOUS
<1>4. ASSUME NEW l \in listed PROVE TreeIn(place, <<Bin, l>>) \subseteq R /\ Tree(<<Bin, l>>) \subseteq Item
  BY <1>1, TrashPaths, TreeKinds, OnPlace
<1>5. R \in SUBSET Item
  BY <1>4
<1> HIDE DEF R, listed
<1>6. Works("emptying", a, target[r]) /\ Prepared(place, "emptying", target[r], a, listed, R)
  BY <1>1, <1>4 DEF Works, Prepared
<1>7. "emptying" \in Step \ {"idle"}
  BY DEF Step
<1>8. QED
  BY <1>1, <1>2, <1>3, <1>5, <1>6, <1>7, LookStep

LEMMA LooksToClear ==
    ASSUME FileManagerAssumption, FilesInv, NEW r \in FileRequest, NEW a \in Asks, LookToClear(r, a)
    PROVE  FilesInv'
<1>1. /\ FilesTypeOK /\ WellFormed(place) /\ Looks(r, a) /\ a.op = "delete" /\ a.path = <<Bin>>
      /\ StepTo(r, "clearing") /\ agreed' = [agreed EXCEPT ![r] = Trashed]
      /\ UNCHANGED <<place, surprised, culprits, origin, starred, troubles>> /\ target' = target /\ todo' = todo
  BY DEF FilesInv, LookToClear, Unchosen
<1>2. /\ target' = [target EXCEPT ![r] = target[r]] /\ target[r] \in Path \cup {Nothing}
      /\ todo' = [todo EXCEPT ![r] = todo[r]] /\ todo[r] \in SUBSET Label
  BY <1>1, OwnState
<1>3. ASSUME NEW l \in Label PROVE TreeIn(place, <<Bin, l>>) \subseteq Trashed /\ Tree(<<Bin, l>>) \subseteq Item
  BY <1>1, TrashPaths, TreeKinds, OnPlace DEF Trashed
<1>4. Trashed \in SUBSET Item
  BY <1>3 DEF Trashed
<1>5. Works("clearing", a, target[r]) /\ Prepared(place, "clearing", target[r], a, todo[r], Trashed)
  BY <1>1, <1>3 DEF Works, Prepared
<1>6. "clearing" \in Step \ {"idle"}
  BY DEF Step
<1>7. QED
  BY <1>1, <1>2, <1>4, <1>5, <1>6, LookStep

\* A new item takes its place, and at most what lay there is gone.
LEMMA PutStep ==
    ASSUME FileManagerAssumption, WellFormed(place), NEW kind \in SUBSET Item,
           NEW d \in Folder \cup {Root, Bin}, d \in Item => place[d] # Unborn, NEW l \in Label, Put(kind, d, l)
    PROVE  \E x \in kind : /\ place[x] = Unborn /\ place' = PutIn(place, x, d, l)
                           /\ WellFormed(place')
                           /\ \A j \in Item : IsPlaced(place, j) /\ place'[j] = Nothing => j \in LiesIn(place, d, l)
                           /\ LiesIn(place', d, l) = {x}
                           /\ \A e \in Folder \cup {Root, Bin}, k \in Label :
                                 e # d \/ k # l => LiesIn(place', e, k) = LiesIn(place, e, k)
<1> DEFINE unborn == {i \in kind : place[i] = Unborn}
           x == CHOOSE i \in unborn : TRUE
<1>1. unborn # {} /\ place' = [Removed(Lies(d, l)) EXCEPT ![x] = <<d, l>>]
  BY DEF Put
<1>2. x \in unborn
  BY <1>1
<1>3. Removed(Lies(d, l)) = Cut(place, LiesIn(place, d, l))
  BY OnPlace
<1>4. x \in kind /\ place[x] = Unborn /\ place' = PutIn(place, x, d, l)
  BY <1>1, <1>2, <1>3 DEF PutIn
<1> HIDE DEF x, unborn
<1>5. x \in Item
  BY <1>4
<1>6. /\ WellFormed(PutIn(place, x, d, l))
      /\ \A j \in Item : IsPlaced(place, j) /\ PutIn(place, x, d, l)[j] = Nothing => j \in LiesIn(place, d, l)
      /\ LiesIn(PutIn(place, x, d, l), d, l) = {x}
      /\ \A e \in Folder \cup {Root, Bin}, k \in Label :
            e # d \/ k # l => LiesIn(PutIn(place, x, d, l), e, k) = LiesIn(place, e, k)
  BY <1>4, <1>5, PutWellFormed
<1> DEFINE u == PutIn(place, x, d, l)
<1>7. place' = u
  BY <1>4
<1>8. /\ WellFormed(u)
      /\ \A j \in Item : IsPlaced(place, j) /\ u[j] = Nothing => j \in LiesIn(place, d, l)
      /\ LiesIn(u, d, l) = {x}
      /\ \A e \in Folder \cup {Root, Bin}, k \in Label :
            e # d \/ k # l => LiesIn(u, e, k) = LiesIn(place, e, k)
  BY <1>6
<1> HIDE DEF u
<1>9. /\ WellFormed(place')
      /\ \A j \in Item : IsPlaced(place, j) /\ place'[j] = Nothing => j \in LiesIn(place, d, l)
      /\ LiesIn(place', d, l) = {x}
      /\ \A e \in Folder \cup {Root, Bin}, k \in Label :
            e # d \/ k # l => LiesIn(place', e, k) = LiesIn(place, e, k)
  BY <1>7, <1>8
<1>10. QED
  BY <1>4, <1>9

LEMMA PutElsewhere ==
    ASSUME FileManagerAssumption, WellFormed(place), NEW kind \in SUBSET Item,
           NEW d \in Folder \cup {Root, Bin}, d \in Item => place[d] # Unborn, NEW l \in Label, Put(kind, d, l)
    PROVE  \A e \in Folder \cup {Root, Bin}, k \in Label :
                 e # d \/ k # l => LiesIn(place', e, k) = LiesIn(place, e, k)
<1> DEFINE u(x) == PutIn(place, x, d, l)
<1>1. PICK x \in kind : place[x] = Unborn /\ place' = u(x)
  BY PutStep
<1>2. \A e \in Folder \cup {Root, Bin}, k \in Label :
          e # d \/ k # l => LiesIn(u(x), e, k) = LiesIn(place, e, k)
  BY <1>1, PutWellFormed
<1> HIDE DEF u
<1>3. QED
  BY <1>1, <1>2

LEMMA LooksToRestore ==
    ASSUME FileManagerAssumption, FilesInv, NEW r \in FileRequest, NEW a \in Asks, LookToRestore(r, a)
    PROVE  FilesInv'
<1> DEFINE back == origin[BaseName(a.path)]
           made == Len(back) = 3 /\ At(Parent(back)) = Nothing
           dir  == Top(Parent(back))
<1>1. /\ FilesTypeOK /\ WellFormed(place) /\ Looks(r, a) /\ a.op = "restore"
      /\ UNCHANGED <<origin, starred, todo, troubles>>
  BY DEF FilesInv, LookToRestore
<1>2. /\ agreed = [agreed EXCEPT ![r] = agreed[r]] /\ agreed[r] \in SUBSET Item
      /\ todo' = [todo EXCEPT ![r] = todo[r]] /\ todo[r] \in SUBSET Label
      /\ "moving" \in Step \ {"idle"} /\ "replacing" \in Step \ {"idle"}
  BY <1>1, OwnState DEF Step
<1>3. a.path \in Path /\ Len(a.path) > 1 /\ BaseName(a.path) \in Label
  BY <1>1, AskKinds, PathParts
<1>4. \/ Refuse(r) /\ UNCHANGED <<place, surprised, culprits>>
      \/ /\ InBin(a.path) /\ Len(a.path) = 2 /\ back # Nothing
         /\ made
         /\ Put(Folder, back[1], BaseName(Parent(back))) /\ Reckon(r)
         /\ StepTo(r, "moving")
         /\ target' = [target EXCEPT ![r] = back] /\ agreed' = agreed
      \/ /\ InBin(a.path) /\ Len(a.path) = 2 /\ back # Nothing
         /\ UNCHANGED <<place, surprised, culprits>>
         /\ \/ /\ At(back) = Nothing
               /\ StepTo(r, "moving")
               /\ target' = [target EXCEPT ![r] = back] /\ agreed' = agreed
            \/ /\ StepTo(r, "replacing")
               /\ target' = [target EXCEPT ![r] = back]
               /\ agreed' = [agreed EXCEPT ![r] = Tree(back)]
            \/ /\ \E l \in Unique(dir, BaseName(back), 2) :
                     target' = [target EXCEPT ![r] = Append(Parent(back), l)]
               /\ StepTo(r, "moving") /\ agreed' = agreed
  BY DEF LookToRestore
<1>5. CASE Refuse(r) /\ UNCHANGED <<place, surprised, culprits>>
  <2>1. Unchosen(r)
    BY <1>1, <1>5 DEF Unchosen
  <2>2. QED
    BY <1>1, <1>5, <2>1, RefuseStep
<1>6. ASSUME back # Nothing PROVE back \in Path /\ Len(back) > 1 /\ ~InBin(back) /\ BaseName(back) \in Label
  <2>1. back \in Path /\ Len(back) > 1 /\ ~InBin(back)
    BY <1>3, <1>6 DEF FilesInv, FilesTypeOK, OriginInv
  <2>2. QED
    BY <2>1, PathParts
<1>7. ASSUME InBin(a.path), Len(a.path) = 2, NEW q \in Path, Len(q) > 1, ~InBin(q)
      PROVE  Works("moving", a, q) /\ Works("replacing", a, q)
  BY <1>1, <1>7 DEF Works
<1> HIDE DEF back
<1>8. ASSUME InBin(a.path), Len(a.path) = 2, back # Nothing, made,
             Put(Folder, back[1], BaseName(Parent(back))), Reckon(r),
             StepTo(r, "moving"), target' = [target EXCEPT ![r] = back], agreed' = agreed
      PROVE  FilesInv'
  <2>1. /\ back \in Path /\ Len(back) = 3 /\ ~InBin(back) /\ back[1] \in {Root, Bin} /\ back[2] \in Label
        /\ Parent(back) = <<back[1], back[2]>> /\ BaseName(back) = back[3] /\ BaseName(back) \in Label
        /\ Parent(back) \in Path /\ Len(Parent(back)) = 2 /\ Parent(back)[1] = back[1] /\ BaseName(Parent(back)) = back[2]
    <3>1. back \in Path /\ Len(back) > 1 /\ Len(back) = 3 /\ ~InBin(back)
      BY <1>6, <1>8
    <3>2. /\ back[1] \in {Root, Bin} /\ back[2] \in Label
          /\ Parent(back) = <<back[1], back[2]>> /\ BaseName(back) = back[3] /\ BaseName(back) \in Label
          /\ Parent(back) \in Path /\ Len(Parent(back)) = 2 /\ Parent(back)[1] = back[1]
      BY <3>1, PathParts
    <3>3. BaseName(Parent(back)) = back[2]
      BY <3>2 DEF BaseName
    <3>4. QED
      BY <3>1, <3>2, <3>3
  <2> DEFINE d == back[1]
             l == back[2]
             f == Parent(back)
  <2>2. d \in {Root, Bin} /\ d \notin Item /\ l \in Label
    BY <2>1, Distinct
  <2>3. LiesIn(place, d, l) = {}
    <3>1. f \in Path /\ Len(f) > 1 /\ AtIn(place, f) = Nothing /\ Len(f) = 2
      BY <1>8, <2>1, OnPlace
    <3>2. /\ AtIn(place, f) = Nothing <=> LiesIn(place, TopIn(place, Parent(f)), BaseName(f)) = {}
          /\ TopIn(place, Parent(f)) = f[1]
      <4> HIDE DEF f
      <4>1. QED
        BY <1>1, <3>1, AtKinds
    <3>3. QED
      BY <2>1, <3>1, <3>2
  <2>4. PICK x \in Folder :
              /\ place[x] = Unborn
              /\ WellFormed(place')
              /\ \A j \in Item : IsPlaced(place, j) /\ place'[j] = Nothing => j \in LiesIn(place, d, l)
              /\ LiesIn(place', d, l) = {x}
              /\ \A e \in Folder \cup {Root, Bin}, k \in Label :
                    e # d \/ k # l => LiesIn(place', e, k) = LiesIn(place, e, k)
    <3>1. Put(Folder, d, l) /\ Folder \in SUBSET Item /\ d \in Folder \cup {Root, Bin} /\ (d \in Item => place[d] # Unborn)
      BY <1>8, <2>1, <2>2, Distinct
    <3> HIDE DEF d, l
    <3>2. QED
      BY <1>1, <2>2, <3>1, PutStep
  <2>5. culprits' = culprits /\ surprised \subseteq surprised' /\ surprised' \subseteq FileRequest
        /\ (place' # place => \A q \in FileRequest \ {r} : Busy(q) => q \in surprised')
    BY <1>1, <1>8, <2>3, <2>4, OnPlace DEF Reckon, FilesTypeOK
  <2> DEFINE t == place'
  <2>6. AtIn(t, back) = Nothing
    <3>1. LiesIn(place, x, BaseName(back)) = {}
      <4>1. SUFFICES ASSUME NEW j \in Item, place[j] = <<x, BaseName(back)>> PROVE FALSE
        BY DEF LiesIn
      <4>2. IsPlaced(place, j) /\ place[j][1] = x /\ x \in Item
        BY <2>1, <4>1, Distinct DEF IsPlaced, FileManagerAssumption
      <4>3. QED
        BY <1>1, <2>4, <4>2 DEF WellFormed
    <3>2. LiesIn(t, x, BaseName(back)) = {}
      BY <2>1, <2>2, <2>4, <3>1, Distinct
    <3>3. TopIn(t, f) = x
      <4>1. LiesIn(t, f[1], f[2]) = {x} /\ Len(f) = 2
        BY <2>1, <2>4
      <4>2. TheOne(LiesIn(t, f[1], f[2])) = x
        BY <4>1, OneOf
      <4> HIDE DEF f, t
      <4>3. QED
        BY <2>4, <4>1, <4>2 DEF TopIn
    <3>4. AtIn(t, back) = TheOne(LiesIn(t, TopIn(t, f), BaseName(back)))
      BY <2>1 DEF AtIn
    <3>5. QED
      BY <3>2, <3>3, <3>4, OneOf
  <2>7. Prepared(t, "moving", back, a, todo[r], agreed[r]) /\ WellFormed(t)
    BY <2>4, <2>6 DEF Prepared
  <2>8. /\ step[r] = "idle" /\ step'[r] = "moving" /\ ask'[r] = a /\ target'[r] = back
        /\ todo'[r] = todo[r] /\ agreed'[r] = agreed[r]
        /\ \A p \in FileRequest \ {r} : /\ step'[p] = step[p] /\ ask'[p] = ask[p] /\ target'[p] = target[p]
                                        /\ todo'[p] = todo[p] /\ agreed'[p] = agreed[p]
    BY <1>1, <1>8 DEF FilesTypeOK, Looks, StepTo
  <2>9. place' \in [Item -> ((Folder \cup {Root, Bin}) \X Label) \cup {Unborn, Nothing}]
    BY <2>7 DEF WellFormed, Space
  <2> HIDE DEF d, l, f, t
  <2>10. FilesTypeOK'
    BY <1>1, <1>2, <1>8, <2>1, <2>5, <2>9 DEF FilesTypeOK, Looks, StepTo
  <2>11. OriginInv' /\ Works("moving", a, back)
    <3>1. Len(back) > 1
      BY <2>1
    <3>2. QED
      BY <1>1, <1>7, <1>8, <2>1, <3>1 DEF FilesInv, OriginInv
  <2>12. QED
    BY <2>5, <2>7, <2>8, <2>10, <2>11, FilesStep DEF t
<1>9. ASSUME InBin(a.path), Len(a.path) = 2, UNCHANGED <<place, surprised, culprits>>,
             NEW q \in Path, Len(q) > 1, ~InBin(q), AtIn(place, q) = Nothing,
             target' = [target EXCEPT ![r] = q], agreed' = agreed, StepTo(r, "moving")
      PROVE  FilesInv'
  <2>1. /\ Works("moving", a, q) /\ agreed' = [agreed EXCEPT ![r] = agreed[r]]
        /\ UNCHANGED <<place, surprised, culprits, origin, starred, troubles>>
    BY <1>1, <1>2, <1>7, <1>9
  <2>2. Prepared(place, "moving", q, a, todo[r], agreed[r])
    BY <1>9 DEF Prepared
  <2>3. QED
    BY <1>1, <1>2, <1>9, <2>1, <2>2, LookStep
<1>10. ASSUME InBin(a.path), Len(a.path) = 2, back # Nothing, UNCHANGED <<place, surprised, culprits>>,
              StepTo(r, "replacing"), target' = [target EXCEPT ![r] = back],
              agreed' = [agreed EXCEPT ![r] = Tree(back)]
       PROVE  FilesInv'
  <2>1. /\ back \in Path /\ Len(back) > 1 /\ Tree(back) = TreeIn(place, back) /\ Tree(back) \in SUBSET Item
        /\ Works("replacing", a, back) /\ UNCHANGED <<place, surprised, culprits, origin, starred, troubles>>
    BY <1>1, <1>6, <1>7, <1>10, TreeKinds, OnPlace
  <2>2. Prepared(place, "replacing", back, a, todo[r], Tree(back))
    BY <2>1 DEF Prepared
  <2>3. QED
    BY <1>1, <1>2, <1>10, <2>1, <2>2, LookStep
<1>11. ASSUME InBin(a.path), Len(a.path) = 2, back # Nothing, UNCHANGED <<place, surprised, culprits>>,
              NEW l \in Unique(dir, BaseName(back), 2), target' = [target EXCEPT ![r] = Append(Parent(back), l)],
              StepTo(r, "moving"), agreed' = agreed
       PROVE  FilesInv'
  <2>1. l \in Label /\ LiesIn(place, TopIn(place, Parent(back)), l) = {}
    BY <1>6, <1>11, UniqueFree, OnPlace
  <2> DEFINE q == Append(Parent(back), l)
  <2>2. q \in Path /\ Len(q) > 1 /\ ~InBin(q)
    BY <1>6, <1>11, <2>1, SiblingPath DEF InBin
  <2>3. AtIn(place, q) = Nothing
    BY <1>6, <1>11, <2>1, FreeAt, PathParts
  <2>4. target' = [target EXCEPT ![r] = q]
    BY <1>11
  <2> HIDE DEF q
  <2>5. QED
    BY <1>9, <1>11, <2>2, <2>3, <2>4
<1>12. CASE /\ InBin(a.path) /\ Len(a.path) = 2 /\ back # Nothing
            /\ UNCHANGED <<place, surprised, culprits>>
            /\ At(back) = Nothing
            /\ StepTo(r, "moving")
            /\ target' = [target EXCEPT ![r] = back] /\ agreed' = agreed
  BY <1>6, <1>9, <1>12, OnPlace
<1> HIDE DEF made, dir
<1>13. QED
  BY <1>4, <1>5, <1>8, <1>10, <1>11, <1>12

-------------------------------------------------------------------------------
(* Requests that act *)

LEMMA BusyKinds ==
    ASSUME FileManagerAssumption, FilesInv, NEW r \in FileRequest, Busy(r)
    PROVE  /\ ask[r] \in Asks /\ ask[r].path \in Path
           /\ step[r] \notin {"emptying", "clearing", "remaking"} =>
                 target[r] \in Path /\ Len(target[r]) > 1 /\ (ask[r].op # "empty" => Len(ask[r].path) > 1)
           /\ Works(step[r], ask[r], target[r])
           /\ r \notin surprised => Prepared(place, step[r], target[r], ask[r], todo[r], agreed[r])
<1>1. step[r] \notin {"idle", "done"}
  BY DEF Busy
<1>2. ask[r] \in Asks /\ Works(step[r], ask[r], target[r])
  BY <1>1 DEF FilesInv, WorkInv
<1>3. r \notin surprised => Prepared(place, step[r], target[r], ask[r], todo[r], agreed[r])
  BY DEF FilesInv, PreparedInv
<1>4. QED
  BY <1>1, <1>2, <1>3, AskKinds DEF Works

LEMMA FileDoneStep ==
    ASSUME FileManagerAssumption, FilesInv, NEW r \in FileRequest, Busy(r), Ends(r),
           UNCHANGED <<origin, starred, ask, target, todo, agreed>>, troubles' \in 0..MaxTroubles
    PROVE  FilesInv'
<1>1. /\ origin' \in [Label -> Path \cup {Nothing}] /\ OriginInv' /\ starred' \subseteq Path
      /\ UNCHANGED <<place, surprised, culprits, ask, target, todo, agreed>> /\ StepTo(r, "done")
  BY DEF FilesInv, FilesTypeOK, OriginInv, Ends
<1>2. Works("done", ask[r], target[r])
  BY DEF Works
<1>3. "done" \in Step \ {"idle", "making", "saving", "replacing", "moving", "copying", "removing", "emptying", "clearing"}
  BY DEF Step
<1>4. QED
  BY <1>1, <1>2, <1>3, SilentStep

\* What a path names before a new item takes it.
LEMMA PutTarget ==
    ASSUME FileManagerAssumption, FilesInv, NEW q \in Path, Len(q) > 1, Top(Parent(q)) # Nothing,
           NEW kind \in SUBSET Item, Put(kind, Top(Parent(q)), BaseName(q))
    PROVE  /\ WellFormed(place')
           /\ \A i \in Item : IsPlaced(place, i) /\ place'[i] = Nothing => i = AtIn(place, q) /\ i # Nothing
<1> DEFINE d == TopIn(place, Parent(q))
           l == BaseName(q)
<1>1. WellFormed(place) /\ Top(Parent(q)) = d
  BY OnPlace DEF FilesInv
<1>2. /\ d \in Folder \cup {Root, Bin} /\ l \in Label
      /\ d \in Folder => Len(q) = 3 /\ place[d] = <<q[1], q[2]>>
      /\ LiesIn(place, d, l) # {} => LiesIn(place, d, l) = {AtIn(place, q)} /\ AtIn(place, q) # Nothing
  BY <1>1, AtKinds, PathParts
<1>3. d \in Item => place[d] # Unborn
  <2>1. SUFFICES ASSUME d \in Item PROVE place[d] # Unborn
    OBVIOUS
  <2>2. d \in Folder
    BY <1>2, <2>1, Distinct
  <2>3. place[d] = <<q[1], q[2]>> /\ q[1] \in {Root, Bin} /\ q[2] \in Label
    BY <1>2, <2>2, PathParts
  <2>4. place[d] \in Space
    BY <2>3 DEF Space
  <2>5. QED
    BY <2>4, Distinct
<1>4. Put(kind, d, l)
  BY <1>1
<1> HIDE DEF d, l
<1>5. /\ WellFormed(place')
      /\ \A j \in Item : IsPlaced(place, j) /\ place'[j] = Nothing => j \in LiesIn(place, d, l)
  BY <1>1, <1>2, <1>3, <1>4, PutStep
<1>6. QED
  BY <1>2, <1>5, Distinct

LEMMA Makes ==
    ASSUME FileManagerAssumption, FilesInv, NEW r \in FileRequest, Make(r)
    PROVE  FilesInv'
<1> DEFINE q == target[r]
           kind == IF Op(r) = "createFolder" THEN Folder ELSE File
<1>1. FilesTypeOK /\ step[r] = "making" /\ Busy(r) /\ UNCHANGED others
  BY DEF FilesInv, Make, Busy
<1>2. /\ q \in Path /\ Len(q) > 1 /\ ask[r].op \in {"createFolder", "createFile", "upload"}
      /\ r \notin surprised => AtIn(place, q) = Nothing
  BY <1>1, BusyKinds DEF Works, Prepared
<1>3. \/ Ends(r)
      \/ /\ Top(Parent(q)) # Nothing /\ (At(q) # Nothing => ask[r].op = "upload")
         /\ Put(kind, Top(Parent(q)), BaseName(q))
         /\ StepTo(r, "done") /\ Reckon(r)
  BY DEF Make, Op
<1>4. CASE Ends(r)
  BY <1>1, <1>4, FileDoneStep DEF others, FilesTypeOK
<1>5. CASE /\ Top(Parent(q)) # Nothing /\ (At(q) # Nothing => ask[r].op = "upload")
           /\ Put(kind, Top(Parent(q)), BaseName(q))
           /\ StepTo(r, "done") /\ Reckon(r)
  <2>1. kind \in SUBSET Item
    BY Distinct DEF File
  <2> HIDE DEF kind, q
  <2>2. /\ WellFormed(place')
        /\ \A i \in Item : IsPlaced(place, i) /\ place'[i] = Nothing => i = AtIn(place, q) /\ i # Nothing
    BY <1>2, <1>5, <2>1, PutTarget
  <2>3. \/ Forgiven(r, surprised, ask[r], q)
        \/ \A i \in Item : IsPlaced(place, i) /\ place'[i] = Nothing => i \in agreed[r]
    <3>1. CASE AtIn(place, q) = Nothing
      BY <2>2, <3>1
    <3>2. CASE AtIn(place, q) # Nothing
      BY <1>2, <1>5, <3>2, OnPlace DEF Forgiven
    <3>3. QED
      BY <3>1, <3>2
  <2>4. Works("done", ask[r], q) /\ Prepared(place', "done", q, ask[r], todo[r], agreed[r])
        /\ "done" \in Step \ {"idle"}
    BY DEF Works, Prepared, Step
  <2>5. todo' = [todo EXCEPT ![r] = todo[r]] /\ todo[r] \in SUBSET Label
        /\ UNCHANGED <<origin, starred, ask, target, agreed, troubles>>
    BY <1>1, OwnState DEF others
  <2>6. QED
    BY <1>1, <1>5, <2>2, <2>3, <2>4, <2>5, ActStep DEF q
<1>6. QED
  BY <1>3, <1>4, <1>5

LEMMA Compares ==
    ASSUME FileManagerAssumption, FilesInv, NEW r \in FileRequest, Compare(r)
    PROVE  FilesInv'
<1> DEFINE s == IF At(target[r]) \in agreed[r] THEN "saving" ELSE "done"
<1>1. FilesTypeOK /\ step[r] = "comparing" /\ Busy(r) /\ UNCHANGED others
      /\ StepTo(r, s) /\ UNCHANGED <<place, surprised, culprits>>
  BY DEF FilesInv, Compare, Busy
<1>2. target[r] \in Path /\ Len(target[r]) > 1 /\ ask[r].op = "save"
  BY <1>1, BusyKinds DEF Works
<1>3. Prepared(place', s, target[r], ask[r], todo[r], agreed[r])
  BY <1>1, OnPlace DEF Prepared
<1>4. Works(s, ask[r], target[r])
  BY <1>2 DEF Works
<1>5. s \in Step \ {"idle"}
  BY DEF Step
<1> HIDE DEF s
<1>6. Reckon(r)
  BY <1>1 DEF Reckon, Placed
<1>7. \A i \in Item : IsPlaced(place, i) /\ place'[i] = Nothing => i \in agreed[r]
  BY <1>1 DEF IsPlaced
<1>8. WellFormed(place') /\ UNCHANGED <<origin, starred, ask, target, agreed, troubles>>
      /\ todo' = [todo EXCEPT ![r] = todo[r]] /\ todo[r] \in SUBSET Label
  BY <1>1, OwnState DEF others, FilesInv
<1>9. QED
  BY <1>1, <1>3, <1>4, <1>5, <1>6, <1>7, <1>8, ActStep

LEMMA Saves ==
    ASSUME FileManagerAssumption, FilesInv, NEW r \in FileRequest, Save(r)
    PROVE  FilesInv'
<1> DEFINE q == target[r]
<1>1. FilesTypeOK /\ step[r] = "saving" /\ Busy(r) /\ UNCHANGED others
  BY DEF FilesInv, Save, Busy
<1>2. /\ q \in Path /\ Len(q) > 1 /\ ask[r].op = "save"
      /\ r \notin surprised => AtIn(place, q) \in agreed[r]
  BY <1>1, BusyKinds DEF Works, Prepared
<1>3. \/ Ends(r)
      \/ /\ At(q) \in File
         /\ Put(File, Top(Parent(q)), BaseName(q))
         /\ StepTo(r, "done") /\ Reckon(r)
  BY DEF Save
<1>4. CASE Ends(r)
  BY <1>1, <1>4, FileDoneStep DEF others, FilesTypeOK
<1>5. CASE /\ At(q) \in File
           /\ Put(File, Top(Parent(q)), BaseName(q))
           /\ StepTo(r, "done") /\ Reckon(r)
  <2>1. File \in SUBSET Item
    BY DEF File
  <2> HIDE DEF q
  <2>2. Top(Parent(q)) # Nothing
    <3>1. AtIn(place, q) # Nothing /\ WellFormed(place)
      BY <1>5, <2>1, OnPlace, Distinct DEF FilesInv
    <3>2. TopIn(place, Parent(q)) \in Folder \cup {Root, Bin}
      BY <1>2, <3>1, AtKinds
    <3>3. QED
      BY <3>2, OnPlace, Distinct
  <2>3. /\ WellFormed(place')
        /\ \A i \in Item : IsPlaced(place, i) /\ place'[i] = Nothing => i = AtIn(place, q) /\ i # Nothing
    BY <1>2, <1>5, <2>1, <2>2, PutTarget
  <2>4. \/ Forgiven(r, surprised, ask[r], q)
        \/ \A i \in Item : IsPlaced(place, i) /\ place'[i] = Nothing => i \in agreed[r]
    BY <1>2, <2>3 DEF Forgiven
  <2>5. Works("done", ask[r], q) /\ Prepared(place', "done", q, ask[r], todo[r], agreed[r])
        /\ "done" \in Step \ {"idle"}
    BY DEF Works, Prepared, Step
  <2>6. todo' = [todo EXCEPT ![r] = todo[r]] /\ todo[r] \in SUBSET Label
        /\ UNCHANGED <<origin, starred, ask, target, agreed, troubles>>
    BY <1>1, OwnState DEF others
  <2>7. QED
    BY <1>1, <1>5, <2>3, <2>4, <2>5, <2>6, ActStep DEF q
<1>6. QED
  BY <1>3, <1>4, <1>5

\* A path that is cut with all it holds.
LEMMA CutTree ==
    ASSUME FileManagerAssumption, FilesInv, NEW q \in Path, Len(q) > 1, place' = Removed(Tree(q))
    PROVE  /\ WellFormed(place')
           /\ AtIn(place', q) = Nothing
           /\ \A i \in Item : IsPlaced(place, i) /\ place'[i] = Nothing => i \in TreeIn(place, q)
           /\ \A p \in Path : Len(p) > 1 => TreeIn(place', p) \subseteq TreeIn(place, p)
<1> DEFINE R == TreeIn(place, q)
           u == Cut(place, R)
<1>1. WellFormed(place) /\ place' = u
  BY OnPlace DEF FilesInv
<1>2. AtIn(place, q) \in R \cup {Nothing}
  <2>1. AtIn(place, q) \in Item \cup {Nothing}
    BY <1>1, AtKinds
  <2>2. AtIn(place, q) \in Item => AtIn(place, q) \in R
    BY WithinKinds DEF TreeIn
  <2>3. QED
    BY <2>1, <2>2
<1> HIDE DEF R
<1>3. /\ WellFormed(u)
      /\ \A i \in Item : IsPlaced(place, i) /\ u[i] = Nothing => i \in R
  BY <1>1, CutWellFormed
<1>4. AtIn(u, q) = Nothing
  BY <1>1, <1>2, CutAt
<1>5. \A p \in Path : Len(p) > 1 => TreeIn(u, p) \subseteq TreeIn(place, p)
  BY <1>1, CutAt
<1> HIDE DEF u
<1>6. QED
  BY <1>1, <1>3, <1>4, <1>5 DEF R

LEMMA Replaces ==
    ASSUME FileManagerAssumption, FilesInv, NEW r \in FileRequest, Replace(r)
    PROVE  FilesInv'
<1> DEFINE q == target[r]
           s == IF Op(r) = "copy" THEN "copying" ELSE "moving"
<1>1. FilesTypeOK /\ step[r] = "replacing" /\ Busy(r) /\ UNCHANGED others
      /\ place' = Removed(Tree(q)) /\ StepTo(r, s) /\ Reckon(r)
  BY DEF FilesInv, Replace, Busy
<1>2. /\ q \in Path /\ Len(q) > 1 /\ ask[r].op \in {"move", "copy", "restore"}
      /\ ask[r].op = "restore" => InBin(ask[r].path) /\ Len(ask[r].path) = 2 /\ ~InBin(q)
      /\ r \notin surprised => TreeIn(place, q) \subseteq agreed[r] \/ Forgiven(r, surprised, ask[r], q)
  BY <1>1, BusyKinds DEF Works, Prepared, Forgiven
<1>3. Works(s, ask[r], q) /\ s \in Step \ {"idle"}
  BY <1>2 DEF Works, Op, Step
<1>4. s \in {"copying", "moving"}
  OBVIOUS
<1> HIDE DEF q, s
<1>5. /\ WellFormed(place') /\ AtIn(place', q) = Nothing
      /\ \A i \in Item : IsPlaced(place, i) /\ place'[i] = Nothing => i \in TreeIn(place, q)
  BY <1>1, <1>2, CutTree
<1>6. Prepared(place', s, q, ask[r], todo[r], agreed[r])
  BY <1>4, <1>5 DEF Prepared
<1>7. \/ Forgiven(r, surprised, ask[r], q)
      \/ \A i \in Item : IsPlaced(place, i) /\ place'[i] = Nothing => i \in agreed[r]
  <2>1. CASE r \in surprised
    BY <1>2, <2>1 DEF Forgiven
  <2>2. CASE r \notin surprised
    BY <1>2, <1>5, <2>2
  <2>3. QED
    BY <2>1, <2>2
<1>8. todo' = [todo EXCEPT ![r] = todo[r]] /\ todo[r] \in SUBSET Label
      /\ UNCHANGED <<origin, starred, ask, target, agreed, troubles>>
  BY <1>1, OwnState DEF others
<1>9. QED
  BY <1>1, <1>3, <1>5, <1>6, <1>7, <1>8, ActStep DEF q

LEMMA MovesItem ==
    ASSUME FileManagerAssumption, FilesInv, NEW r \in FileRequest, Move(r)
    PROVE  FilesInv'
<1> DEFINE p == ask[r].path
           q == target[r]
           s == CASE Op(r) = "trash"   -> "recording"
                  [] Op(r) = "restore" -> "forgetting"
                  [] OTHER             -> "unstarring"
<1>1. FilesTypeOK /\ WellFormed(place) /\ step[r] = "moving" /\ Busy(r) /\ UNCHANGED others
  BY DEF FilesInv, Move, Busy
<1>2. /\ q \in Path /\ Len(q) > 1 /\ ask[r].op \in {"move", "rename", "trash", "restore"}
      /\ ask[r].op = "trash" => ~InBin(ask[r].path) /\ InBin(q) /\ Len(q) = 2
      /\ ask[r].op = "restore" => InBin(ask[r].path) /\ Len(ask[r].path) = 2 /\ ~InBin(q)
      /\ r \notin surprised => AtIn(place, q) = Nothing
  BY <1>1, BusyKinds DEF Works, Prepared
<1>3. p \in Path /\ Len(p) > 1
  BY <1>1, <1>2, BusyKinds
<1>4. /\ s \in {"recording", "forgetting", "unstarring"}
      /\ Works(s, ask[r], q) /\ s \in Step \ {"idle"}
  <2>1. CASE ask[r].op = "trash"
    BY <1>2, <2>1 DEF Works, Op, Step
  <2>2. CASE ask[r].op = "restore"
    BY <1>2, <2>2 DEF Works, Op, Step
  <2>3. CASE ask[r].op \in {"move", "rename"}
    BY <1>2, <2>3 DEF Works, Op, Step
  <2>4. QED
    BY <1>2, <2>1, <2>2, <2>3
<1>5. \/ Ends(r)
      \/ CanRename(p, q) /\ Rename(p, q) /\ StepTo(r, s) /\ Reckon(r)
  BY DEF Move
<1> HIDE DEF p, q, s
<1>6. CASE Ends(r)
  BY <1>1, <1>6, FileDoneStep DEF others, FilesTypeOK
<1>7. CASE CanRename(p, q) /\ Rename(p, q) /\ StepTo(r, s) /\ Reckon(r)
  <2> DEFINE u == RenameIn(place, p, q)
  <2>1. /\ AtIn(place, p) \in Item /\ TopIn(place, Parent(q)) # Nothing /\ ~Below(p, q)
        /\ place' = u
    BY <1>7, OnPlace DEF CanRename, Rename, RenameIn
  <2>2. /\ WellFormed(u)
        /\ \A j \in Item : IsPlaced(place, j) /\ u[j] = Nothing => j \in TreeIn(place, q)
    BY <1>1, <1>2, <1>3, <2>1, RenameWellFormed
  <2> HIDE DEF u
  <2>3. /\ WellFormed(place')
        /\ \A j \in Item : IsPlaced(place, j) /\ place'[j] = Nothing => j \in TreeIn(place, q)
    BY <2>1, <2>2
  <2>4. \/ Forgiven(r, surprised, ask[r], q)
        \/ \A i \in Item : IsPlaced(place, i) /\ place'[i] = Nothing => i \in agreed[r]
    <3>1. CASE r \in surprised
      BY <1>2, <3>1 DEF Forgiven
    <3>2. CASE r \notin surprised
      BY <1>1, <1>2, <2>3, <3>2, TreeKinds
    <3>3. QED
      BY <3>1, <3>2
  <2>5. Prepared(place', s, q, ask[r], todo[r], agreed[r])
    BY <1>4 DEF Prepared
  <2>6. todo' = [todo EXCEPT ![r] = todo[r]] /\ todo[r] \in SUBSET Label
        /\ UNCHANGED <<origin, starred, ask, target, agreed, troubles>>
    BY <1>1, OwnState DEF others
  <2>7. QED
    BY <1>1, <1>4, <1>7, <2>3, <2>4, <2>5, <2>6, ActStep DEF q
<1>8. QED
  BY <1>5, <1>6, <1>7

LEMMA Copies ==
    ASSUME FileManagerAssumption, FilesInv, NEW r \in FileRequest, Copy(r)
    PROVE  FilesInv'
<1> DEFINE q == target[r]
           kind == IF At(ask[r].path) \in Folder THEN Folder ELSE File
<1>1. FilesTypeOK /\ WellFormed(place) /\ step[r] = "copying" /\ Busy(r) /\ UNCHANGED others
  BY DEF FilesInv, Copy, Busy
<1>2. /\ q \in Path /\ Len(q) > 1 /\ ask[r].op = "copy"
      /\ r \notin surprised => AtIn(place, q) = Nothing
  BY <1>1, BusyKinds DEF Works, Prepared
<1>3. \/ Ends(r)
      \/ /\ Top(Parent(q)) # Nothing
         /\ Put(kind, Top(Parent(q)), BaseName(q))
         /\ StepTo(r, "done") /\ Reckon(r)
  BY DEF Copy
<1>4. CASE Ends(r)
  BY <1>1, <1>4, FileDoneStep DEF others, FilesTypeOK
<1>5. CASE /\ Top(Parent(q)) # Nothing
           /\ Put(kind, Top(Parent(q)), BaseName(q))
           /\ StepTo(r, "done") /\ Reckon(r)
  <2>1. kind \in SUBSET Item
    BY Distinct DEF File
  <2> HIDE DEF kind, q
  <2>2. /\ WellFormed(place')
        /\ \A i \in Item : IsPlaced(place, i) /\ place'[i] = Nothing => i = AtIn(place, q) /\ i # Nothing
    BY <1>2, <1>5, <2>1, PutTarget
  <2>3. \/ Forgiven(r, surprised, ask[r], q)
        \/ \A i \in Item : IsPlaced(place, i) /\ place'[i] = Nothing => i \in agreed[r]
    BY <1>2, <2>2 DEF Forgiven
  <2>4. Works("done", ask[r], q) /\ Prepared(place', "done", q, ask[r], todo[r], agreed[r])
        /\ "done" \in Step \ {"idle"}
    BY DEF Works, Prepared, Step
  <2>5. todo' = [todo EXCEPT ![r] = todo[r]] /\ todo[r] \in SUBSET Label
        /\ UNCHANGED <<origin, starred, ask, target, agreed, troubles>>
    BY <1>1, OwnState DEF others
  <2>6. QED
    BY <1>1, <1>5, <2>2, <2>3, <2>4, <2>5, ActStep DEF q
<1>6. QED
  BY <1>3, <1>4, <1>5

LEMMA TouchesRows ==
    ASSUME FileManagerAssumption, FilesInv, NEW r \in FileRequest,
           Unstar(r) \/ Star(r) \/ Record(r) \/ ForgetRow(r) \/ ForgetAll(r)
    PROVE  FilesInv'
<1> DEFINE s == IF Unstar(r) /\ ask[r].path \in starred THEN "starring" ELSE "done"
<1>1. /\ FilesTypeOK /\ Busy(r) /\ UNCHANGED <<place, surprised, culprits, ask, target, todo, agreed, troubles>>
      /\ step[r] \in {"unstarring", "starring", "recording", "forgetting", "emptying"}
  BY DEF FilesInv, Busy, Unstar, Star, Record, ForgetRow, ForgetAll
<1>2. Works(step[r], ask[r], target[r]) /\ ask[r].path \in Path
  BY <1>1, BusyKinds
<1>3. StepTo(r, s) \/ StepTo(r, "done")
  BY DEF Unstar, Star, Record, ForgetRow, ForgetAll
<1>4. starred' \subseteq Path
  <2>1. step[r] = "starring" => target[r] \in Path
    BY <1>2 DEF Works
  <2>2. QED
    BY <1>1, <2>1 DEF Unstar, Star, Record, ForgetRow, ForgetAll, FilesTypeOK
<1>5. origin' \in [Label -> Path \cup {Nothing}] /\ OriginInv'
  <2>1. CASE Record(r)
    <3>1. /\ step[r] = "recording" /\ ask[r].op = "trash" /\ target[r] \in Path /\ Len(target[r]) > 1
          /\ ~InBin(ask[r].path)
      BY <1>2, <2>1 DEF Record, Works
    <3>2. Len(ask[r].path) > 1 /\ BaseName(target[r]) \in Label
      BY <1>1, <3>1, BusyKinds, PathParts
    <3>3. origin' = [origin EXCEPT ![BaseName(target[r])] = ask[r].path]
      BY <2>1 DEF Record
    <3>4. QED
      BY <1>1, <1>2, <3>1, <3>2, <3>3 DEF FilesInv, FilesTypeOK, OriginInv
  <2>2. CASE ForgetRow(r)
    BY <2>2 DEF ForgetRow, FilesInv, FilesTypeOK, OriginInv
  <2>3. CASE ForgetAll(r)
    BY <2>3 DEF ForgetAll, OriginInv
  <2>4. CASE Unstar(r) \/ Star(r)
    BY <2>4 DEF Unstar, Star, FilesInv, FilesTypeOK, OriginInv
  <2>5. QED
    BY <2>1, <2>2, <2>3, <2>4
<1>6. /\ Works("done", ask[r], target[r]) /\ "done" \in Step
      /\ Unstar(r) => Works("starring", ask[r], target[r]) /\ "starring" \in Step
  BY <1>2 DEF Works, Unstar, Step
<1>7. troubles' \in 0..MaxTroubles
  BY <1>1 DEF FilesTypeOK
<1>8. CASE StepTo(r, "done")
  BY <1>1, <1>4, <1>5, <1>6, <1>7, <1>8, SilentStep
<1>9. CASE Unstar(r) /\ StepTo(r, "starring")
  BY <1>1, <1>4, <1>5, <1>6, <1>7, <1>9, SilentStep
<1>10. QED
  BY <1>3, <1>8, <1>9

LEMMA Removes ==
    ASSUME FileManagerAssumption, FilesInv, NEW r \in FileRequest, RemoveEntry(r)
    PROVE  FilesInv'
<1> DEFINE q == target[r]
<1>1. FilesTypeOK /\ step[r] = "removing" /\ Busy(r) /\ UNCHANGED others
  BY DEF FilesInv, RemoveEntry, Busy
<1>2. /\ q \in Path /\ Len(q) > 1 /\ ask[r].op = "delete" /\ InBin(ask[r].path) /\ q = ask[r].path
      /\ r \notin surprised => TreeIn(place, q) \subseteq agreed[r]
  BY <1>1, BusyKinds DEF Works, Prepared
<1>3. \/ Ends(r)
      \/ place' = Removed(Tree(q)) /\ StepTo(r, "forgetting") /\ Reckon(r)
  BY DEF RemoveEntry
<1>4. CASE Ends(r)
  BY <1>1, <1>4, FileDoneStep DEF others, FilesTypeOK
<1>5. CASE place' = Removed(Tree(q)) /\ StepTo(r, "forgetting") /\ Reckon(r)
  <2>1. /\ WellFormed(place')
        /\ \A i \in Item : IsPlaced(place, i) /\ place'[i] = Nothing => i \in TreeIn(place, q)
    BY <1>2, <1>5, CutTree
  <2>2. \/ Forgiven(r, surprised, ask[r], q)
        \/ \A i \in Item : IsPlaced(place, i) /\ place'[i] = Nothing => i \in agreed[r]
    <3>1. CASE r \in surprised
      BY <1>2, <3>1 DEF Forgiven
    <3>2. CASE r \notin surprised
      BY <1>2, <2>1, <3>2
    <3>3. QED
      BY <3>1, <3>2
  <2>3. Works("forgetting", ask[r], q) /\ Prepared(place', "forgetting", q, ask[r], todo[r], agreed[r])
        /\ "forgetting" \in Step \ {"idle"}
    BY <1>2 DEF Works, Prepared, Step
  <2>4. todo' = [todo EXCEPT ![r] = todo[r]] /\ todo[r] \in SUBSET Label
        /\ UNCHANGED <<origin, starred, ask, target, agreed, troubles>>
    BY <1>1, OwnState DEF others
  <2>5. QED
    BY <1>1, <1>5, <2>1, <2>2, <2>3, <2>4, ActStep
<1>6. QED
  BY <1>3, <1>4, <1>5

LEMMA Empties ==
    ASSUME FileManagerAssumption, FilesInv, NEW r \in FileRequest, EmptyOne(r)
    PROVE  FilesInv'
<1>1. /\ FilesTypeOK /\ step[r] = "emptying" /\ Busy(r) /\ Reckon(r)
      /\ UNCHANGED <<origin, starred, step, ask, target, agreed, troubles>>
  BY DEF FilesInv, EmptyOne, Busy
<1>2. PICK l \in todo[r] : place' = Removed(Tree(<<Bin, l>>)) /\ todo' = [todo EXCEPT ![r] = @ \ {l}]
  BY DEF EmptyOne
<1>3. /\ ask[r].op = "empty" /\ todo[r] \in SUBSET Label
      /\ r \notin surprised => \A k \in todo[r] : TreeIn(place, <<Bin, k>>) \subseteq agreed[r]
  BY <1>1, BusyKinds, OwnState DEF Works, Prepared
<1>4. \A k \in Label : <<Bin, k>> \in Path /\ Len(<<Bin, k>>) > 1
  BY TrashPaths
<1>5. /\ WellFormed(place')
      /\ \A i \in Item : IsPlaced(place, i) /\ place'[i] = Nothing => i \in TreeIn(place, <<Bin, l>>)
      /\ \A p \in Path : Len(p) > 1 => TreeIn(place', p) \subseteq TreeIn(place, p)
  BY <1>2, <1>3, <1>4, CutTree
<1>6. \/ Forgiven(r, surprised, ask[r], target[r])
      \/ \A i \in Item : IsPlaced(place, i) /\ place'[i] = Nothing => i \in agreed[r]
  <2>1. CASE r \in surprised
    BY <1>3, <2>1 DEF Forgiven
  <2>2. CASE r \notin surprised
    BY <1>2, <1>3, <1>5, <2>2
  <2>3. QED
    BY <2>1, <2>2
<1> DEFINE L == todo[r] \ {l}
<1>7. todo' = [todo EXCEPT ![r] = L] /\ L \in SUBSET Label /\ L \subseteq todo[r]
  BY <1>2, <1>3
<1> HIDE DEF L
<1>8. Works("emptying", ask[r], target[r])
  BY <1>3 DEF Works
<1>9. r \notin surprised => Prepared(place', "emptying", target[r], ask[r], L, agreed[r])
  <2>1. SUFFICES ASSUME r \notin surprised, NEW k \in L PROVE TreeIn(place', <<Bin, k>>) \subseteq agreed[r]
    BY DEF Prepared
  <2>2. k \in Label /\ TreeIn(place, <<Bin, k>>) \subseteq agreed[r]
    BY <1>3, <1>7, <2>1
  <2>3. TreeIn(place', <<Bin, k>>) \subseteq TreeIn(place, <<Bin, k>>)
    BY <1>4, <1>5, <2>2
  <2>4. QED
    BY <2>2, <2>3
<1>10. StepTo(r, "emptying") /\ "emptying" \in Step \ {"idle"}
  BY <1>1, OwnState DEF StepTo, Step
<1>11. QED
  BY <1>1, <1>5, <1>6, <1>7, <1>8, <1>9, <1>10, ActStep

LEMMA Clears ==
    ASSUME FileManagerAssumption, FilesInv, NEW r \in FileRequest, ClearTrash(r)
    PROVE  FilesInv'
<1>1. /\ FilesTypeOK /\ WellFormed(place) /\ step[r] = "clearing" /\ Busy(r) /\ Reckon(r)
      /\ place' = Removed(Trashed) /\ StepTo(r, "remaking") /\ UNCHANGED others
  BY DEF FilesInv, ClearTrash, Busy
<1>2. /\ ask[r].op = "delete" /\ ask[r].path = <<Bin>>
      /\ r \notin surprised => \A l \in Label : TreeIn(place, <<Bin, l>>) \subseteq agreed[r]
  BY <1>1, BusyKinds DEF Works, Prepared
<1>3. r \notin surprised => Trashed \subseteq agreed[r]
  BY <1>2, OnPlace DEF Trashed
<1>4. place' = Cut(place, Trashed)
  BY <1>1, OnPlace
<1>5. /\ WellFormed(place')
      /\ \A i \in Item : IsPlaced(place, i) /\ place'[i] = Nothing => i \in Trashed
  BY <1>1, <1>4, CutWellFormed
<1>6. \/ Forgiven(r, surprised, ask[r], target[r])
      \/ \A i \in Item : IsPlaced(place, i) /\ place'[i] = Nothing => i \in agreed[r]
  <2>1. CASE r \in surprised
    BY <1>2, <2>1 DEF Forgiven
  <2>2. CASE r \notin surprised
    BY <1>3, <1>5, <2>2
  <2>3. QED
    BY <2>1, <2>2
<1>7. /\ Works("remaking", ask[r], target[r]) /\ "remaking" \in Step \ {"idle"}
      /\ Prepared(place', "remaking", target[r], ask[r], todo[r], agreed[r])
  BY <1>2 DEF Works, Prepared, Step
<1>8. todo' = [todo EXCEPT ![r] = todo[r]] /\ todo[r] \in SUBSET Label
      /\ UNCHANGED <<origin, starred, ask, target, agreed, troubles>>
  BY <1>1, OwnState DEF others
<1>9. QED
  BY <1>1, <1>5, <1>6, <1>7, <1>8, ActStep

LEMMA Misses ==
    ASSUME FileManagerAssumption, FilesInv, NEW r \in FileRequest, Remake(r) \/ MissesTrash(r)
    PROVE  FilesInv'
<1>1. Busy(r) /\ Ends(r) /\ UNCHANGED <<origin, starred, ask, target, todo, agreed>> /\ troubles' = troubles
  BY DEF Remake, MissesTrash, others, Busy
<1>2. troubles' \in 0..MaxTroubles
  BY <1>1 DEF FilesInv, FilesTypeOK
<1>3. QED
  BY <1>1, <1>2, FileDoneStep

LEMMA FailsAsked ==
    ASSUME FileManagerAssumption, FilesInv, NEW r \in FileRequest, DatabaseFails(r)
    PROVE  FilesInv'
<1>1. Busy(r) /\ Ends(r) /\ UNCHANGED <<origin, starred, ask, target, todo, agreed>>
  BY DEF DatabaseFails, Busy
<1>2. troubles' \in 0..MaxTroubles
  BY DEF DatabaseFails, Trouble, FilesInv, FilesTypeOK, FileManagerAssumption
<1>3. QED
  BY <1>1, <1>2, FileDoneStep

LEMMA RestartsFiles ==
    ASSUME FileManagerAssumption, FilesInv, FilesRestart
    PROVE  FilesInv'
<1>1. FilesTypeOK /\ WellFormed(place) /\ WorkInv /\ OriginInv /\ PreparedInv /\ KeptInv
  BY DEF FilesInv
<1>2. /\ step' = [r \in FileRequest |-> IF Busy(r) THEN "done" ELSE step[r]]
      /\ UNCHANGED <<place, surprised, culprits, origin, starred, ask, target, todo, agreed>>
      /\ troubles' = troubles + 1 /\ troubles < MaxTroubles
  BY DEF FilesRestart, Trouble
<1>3. \A r \in FileRequest : step'[r] \in {"idle", "done"} /\ (step'[r] = "idle" <=> step[r] = "idle")
  BY <1>2 DEF Busy
<1>4. FilesTypeOK'
  <2>1. step' \in [FileRequest -> Step] /\ troubles' \in 0..MaxTroubles
    BY <1>1, <1>2, <1>3 DEF FilesTypeOK, Step, FileManagerAssumption
  <2>2. QED
    BY <1>1, <1>2, <2>1 DEF FilesTypeOK
<1>5. WorkInv'
  BY <1>1, <1>2, <1>3 DEF WorkInv, Works
<1>6. PreparedInv'
  BY <1>3 DEF PreparedInv, Prepared
<1>7. KeptInv'
  BY <1>1, <1>2, <1>3 DEF KeptInv, FilesTypeOK
<1>8. WellFormed(place') /\ OriginInv'
  BY <1>1, <1>2 DEF OriginInv
<1>9. QED
  BY <1>4, <1>5, <1>6, <1>7, <1>8 DEF FilesInv

-------------------------------------------------------------------------------
(* All steps *)

LEMMA FilesInitInv == FileManagerAssumption /\ FilesInit => FilesInv
<1> SUFFICES ASSUME FileManagerAssumption, FilesInit PROVE FilesInv
  OBVIOUS
<1>1. place \in [Item -> Space \cup {Unborn, Nothing}]
  BY DEF FilesInit, FileManagerAssumption, Space
<1>2. WellFormed(place)
  <2>1. \A i, j \in Item : IsPlaced(place, i) /\ place[j] = place[i] => j = i
    BY DEF FilesInit, FileManagerAssumption, IsPlaced
  <2>2. \A i \in Item : IsPlaced(place, i) /\ place[i][1] \in Item => place[place[i][1]] # Unborn
    BY DEF FilesInit, FileManagerAssumption, IsPlaced
  <2>3. QED
    BY <1>1, <2>1, <2>2 DEF WellFormed
<1>3. origin \in [Label -> Path \cup {Nothing}] /\ starred \subseteq Path
  BY PathsOf DEF FilesInit
<1>4. OriginInv
  <2>1. SUFFICES ASSUME NEW l \in Label, origin[l] # Nothing PROVE Len(origin[l]) > 1 /\ ~InBin(origin[l])
    BY DEF OriginInv
  <2>2. origin[l] = <<Root, l>>
    BY <2>1 DEF FilesInit
  <2>3. QED
    BY <2>2, Distinct DEF InBin
<1>5. FilesTypeOK
  BY <1>1, <1>3 DEF FilesTypeOK, FilesInit, Space, Step, FileManagerAssumption
<1>6. WorkInv /\ PreparedInv /\ KeptInv
  BY DEF FilesInit, WorkInv, Works, PreparedInv, Prepared, KeptInv
<1>7. QED
  BY <1>2, <1>4, <1>5, <1>6 DEF FilesInv

LEMMA FilesStepInv == FileManagerAssumption /\ FilesInv /\ [FilesNext]_filesVars => FilesInv'
<1> SUFFICES ASSUME FileManagerAssumption, FilesInv, [FilesNext]_filesVars PROVE FilesInv'
  OBVIOUS
<1>1. ASSUME NEW r \in FileRequest, NEW a \in Asks, Looking(r, a) PROVE FilesInv'
  BY <1>1, LooksToMake, Opens, LooksToPaste, LooksToRename, LooksToTrash, LooksToRestore, LooksToDelete,
     LooksToClear, LooksToEmpty DEF Looking
<1>2. ASSUME NEW r \in FileRequest, Acting(r) PROVE FilesInv'
  BY <1>2, Makes, Compares, Saves, Replaces, MovesItem, Copies, TouchesRows, Removes, Clears, Misses, Empties, FailsAsked
     DEF Acting
<1>3. CASE FilesRestart
  BY <1>3, RestartsFiles
<1>4. CASE UNCHANGED filesVars
  BY <1>4 DEF filesVars, FilesInv, FilesTypeOK, WorkInv, OriginInv, PreparedInv, KeptInv, InBin
<1>5. QED
  BY <1>1, <1>2, <1>3, <1>4 DEF FilesNext

\* Every path, item, label and step of a request is one the file system can have.
THEOREM FilesTypeCorrect == FileManagerAssumption => (FilesSpec => []FilesTypeOK)
<1> SUFFICES ASSUME FileManagerAssumption PROVE FilesSpec => []FilesTypeOK
  OBVIOUS
<1>1. FilesInit => FilesInv
  BY FilesInitInv
<1>2. FilesInv /\ [FilesNext]_filesVars => FilesInv'
  BY FilesStepInv
<1>3. FilesInv => FilesTypeOK
  BY DEF FilesInv
<1>4. QED
  BY <1>1, <1>2, <1>3, PTL DEF FilesSpec

\* Whatever requests come in whatever order, none does away with an item nobody asked it to do
\* away with, but for what another changed while it was at work, and never when it creates.
THEOREM NothingIsLost == FileManagerAssumption => (FilesSpec => []FilesAreKept)
<1> SUFFICES ASSUME FileManagerAssumption PROVE FilesSpec => []FilesAreKept
  OBVIOUS
<1>1. FilesInit => FilesInv
  BY FilesInitInv
<1>2. FilesInv /\ [FilesNext]_filesVars => FilesInv'
  BY FilesStepInv
<1>3. FilesInv => FilesAreKept
  BY DEF FilesInv, KeptInv, FilesAreKept, Forgiven, Op
<1>4. QED
  BY <1>1, <1>2, <1>3, PTL DEF FilesSpec

-------------------------------------------------------------------------------
(* The trash and its rows *)

\* What a step of request r leaves to the others.
OnlyIts(r) ==
    /\ \A q \in FileRequest \ {r} :
          step'[q] = step[q] /\ ask'[q] = ask[q] /\ target'[q] = target[q] /\ todo'[q] = todo[q]
    /\ step'[r] # "idle" /\ (step[r] # "idle" => ask'[r] = ask[r] /\ target'[r] = target[r])
    /\ surprised \subseteq surprised'
    /\ \A q \in surprised' \ surprised : q \in FileRequest \ {r} /\ Busy(q)
    /\ place' # place => \A q \in FileRequest \ {r} : Busy(q) => q \in surprised'
    /\ troubles' = 0 => troubles = 0

LEMMA TrashStep ==
    ASSUME FileManagerAssumption, TrashInv, FilesInv', NEW r \in FileRequest, OnlyIts(r),
           step'[r] \in {"done", "emptying"} \/ Aims(ask'[r], target'[r]),
           r \notin surprised' => TrashPrepared(place', step'[r], ask'[r], target'[r], todo'[r]),
           Calm /\ Rows /\ Calm' => Rows'
    PROVE  TrashInv'
<1>1. FilesTypeOK
  BY DEF TrashInv, FilesInv
<1>2. TrashPreparedInv'
  <2>1. SUFFICES ASSUME NEW q \in FileRequest \ surprised', q # r
                 PROVE  TrashPrepared(place', step'[q], ask'[q], target'[q], todo'[q])
    BY DEF TrashPreparedInv
  <2>2. TrashPrepared(place, step[q], ask[q], target[q], todo[q]) /\ step'[q] = step[q]
    BY <2>1 DEF TrashInv, TrashPreparedInv, OnlyIts
  <2>3. CASE place' = place
    BY <2>1, <2>2, <2>3 DEF OnlyIts
  <2>4. CASE place' # place
    <3>1. step'[q] \in {"idle", "done"}
      BY <2>1, <2>4 DEF Busy, OnlyIts
    <3>2. QED
      BY <3>1 DEF TrashPrepared
  <2>5. QED
    BY <2>3, <2>4
<1>3. AimInv'
  BY DEF TrashInv, AimInv, OnlyIts
<1>4. \A q \in surprised' : step'[q] # "idle"
  BY <1>1 DEF TrashInv, OnlyIts, Busy, FilesTypeOK
<1>5. Calm' => Calm
  <2>1. SUFFICES ASSUME Calm' PROVE Calm
    OBVIOUS
  <2>2. troubles = 0
    BY <2>1 DEF Calm, OnlyIts
  <2>3. \A q \in FileRequest : step[q] # "idle" => step'[q] # "idle" /\ ask'[q] = ask[q]
    BY DEF OnlyIts
  <2>4. \A q \in surprised : q \in FileRequest /\ step[q] # "idle" /\ q \in surprised'
    BY <1>1 DEF TrashInv, FilesTypeOK, OnlyIts
  <2>5. QED
    BY <2>1, <2>2, <2>3, <2>4 DEF Calm, Trashing, Op
<1>6. QED
  BY <1>2, <1>3, <1>4, <1>5 DEF TrashInv

\* Who has deleted the trash has done so.
LEMMA ClearingStays ==
    ASSUME NEW r \in FileRequest, OnlyIts(r), NEW q \in FileRequest, Clearing(q)
    PROVE  Clearing(q)'
BY DEF OnlyIts, Clearing, Op

\* Neither entries nor rows come or go, and r is not about a row.
LEMMA RowsStay ==
    ASSUME NEW r \in FileRequest, OnlyIts(r), Rows, origin' = origin,
           \A l \in Label : LiesIn(place', Bin, l) = {} <=> LiesIn(place, Bin, l) = {},
           step[r] \notin {"recording", "forgetting", "emptying"}
    PROVE  Rows'
<1>1. SUFFICES ASSUME NEW l \in Label
               PROVE  /\ LiesIn(place', Bin, l) # {} /\ origin'[l] = Nothing =>
                            \E q \in FileRequest : step'[q] = "recording" /\ target'[q] = <<Bin, l>>
                      /\ LiesIn(place', Bin, l) = {} /\ origin'[l] # Nothing =>
                            \E q \in FileRequest : \/ step'[q] = "emptying"
                                                   \/ step'[q] = "forgetting" /\ ask'[q].path = <<Bin, l>>
                                                   \/ Clearing(q)'
  BY DEF Rows
<1>2. \A q \in FileRequest : step[q] \in {"recording", "forgetting", "emptying"} =>
          step'[q] = step[q] /\ target'[q] = target[q] /\ ask'[q] = ask[q]
  BY DEF OnlyIts
<1>3. /\ LiesIn(place, Bin, l) # {} /\ origin[l] = Nothing =>
            \E q \in FileRequest : step[q] = "recording" /\ target[q] = <<Bin, l>>
      /\ LiesIn(place, Bin, l) = {} /\ origin[l] # Nothing =>
            \E q \in FileRequest : \/ step[q] = "emptying"
                                   \/ step[q] = "forgetting" /\ ask[q].path = <<Bin, l>>
                                   \/ Clearing(q)
  BY <1>1 DEF Rows
<1>4. \A q \in FileRequest : Clearing(q) => Clearing(q)'
  BY ClearingStays
<1>5. QED
  BY <1>2, <1>3, <1>4

LEMMA LooksAlone ==
    ASSUME FilesInv, \A q \in surprised : step[q] # "idle", NEW r \in FileRequest, NEW a \in Asks, Looking(r, a)
    PROVE  OnlyIts(r) /\ step[r] = "idle" /\ r \notin surprised' /\ ask'[r] = a /\ origin' = origin
<1>1. FilesTypeOK
  BY DEF FilesInv
<1>2. /\ Looks(r, a) /\ UNCHANGED <<origin, troubles>>
      /\ (UNCHANGED surprised /\ UNCHANGED place) \/ Reckon(r)
  <2>1. CASE LookToRestore(r, a)
    BY <2>1 DEF LookToRestore
  <2>2. CASE ~LookToRestore(r, a)
    BY <2>2 DEF Looking, LookToMake, Open, LookToPaste, LookToRename, LookToTrash, LookToDelete, LookToClear,
       LookToEmpty, Unchosen
  <2>3. QED
    BY <2>1, <2>2
<1>3. \E s \in Step \ {"idle"} : StepTo(r, s)
  BY DEF Looking, LookToMake, Open, LookToPaste, LookToRename, LookToTrash, LookToRestore, LookToDelete,
     LookToClear, LookToEmpty, Refuse, Step
<1>4. \/ target' = target
      \/ \E q : target' = [target EXCEPT ![r] = q]
  <2>1. CASE \/ LookToMake(r, a) \/ Open(r, a) \/ LookToRename(r, a)
             \/ LookToDelete(r, a) \/ LookToClear(r, a) \/ LookToEmpty(r, a)
    BY <2>1 DEF LookToMake, Open, LookToRename, LookToDelete, LookToClear, LookToEmpty, Refuse
  <2>2. CASE LookToPaste(r, a)
    BY <2>2 DEF LookToPaste, Refuse
  <2>3. CASE LookToTrash(r, a) \/ LookToRestore(r, a)
    BY <2>3 DEF LookToTrash, LookToRestore, Refuse
  <2>4. QED
    BY <2>1, <2>2, <2>3 DEF Looking
<1>5. todo' = todo \/ \E L : todo' = [todo EXCEPT ![r] = L]
  <2>1. CASE LookToRestore(r, a)
    BY <2>1 DEF LookToRestore
  <2>2. CASE ~LookToRestore(r, a)
    BY <2>2 DEF Looking, LookToMake, Open, LookToPaste, LookToRename, LookToTrash, LookToDelete, LookToClear,
       LookToEmpty, Unchosen
  <2>3. QED
    BY <2>1, <2>2
<1>6. /\ step[r] = "idle" /\ step'[r] # "idle" /\ ask'[r] = a
      /\ \A q \in FileRequest \ {r} :
            step'[q] = step[q] /\ ask'[q] = ask[q] /\ target'[q] = target[q] /\ todo'[q] = todo[q]
  BY <1>1, <1>2, <1>3, <1>4, <1>5 DEF FilesTypeOK, Looks, StepTo
<1>7. /\ surprised \subseteq surprised' /\ r \notin surprised'
      /\ \A q \in surprised' \ surprised : q \in FileRequest \ {r} /\ Busy(q)
      /\ place' # place => \A q \in FileRequest \ {r} : Busy(q) => q \in surprised'
  BY <1>2, <1>6 DEF Reckon
<1>8. QED
  BY <1>2, <1>6, <1>7 DEF OnlyIts

LEMMA ActsAlone ==
    ASSUME FilesInv, NEW r \in FileRequest, Acting(r)
    PROVE  OnlyIts(r) /\ Busy(r) /\ ask' = ask /\ target' = target /\ (r \in surprised' => r \in surprised)
<1>1. FilesTypeOK
  BY DEF FilesInv
<1>2. /\ Busy(r) /\ ask' = ask /\ target' = target
      /\ (troubles' = 0 => troubles = 0)
      /\ (UNCHANGED surprised /\ UNCHANGED place) \/ Reckon(r)
  <2>1. CASE Make(r) \/ Compare(r) \/ Save(r) \/ Replace(r) \/ Move(r) \/ Copy(r)
    BY <2>1 DEF Make, Compare, Save, Replace, Move, Copy, others, Ends, Busy
  <2>2. CASE Unstar(r) \/ Star(r) \/ Record(r) \/ RemoveEntry(r)
    BY <2>2 DEF Unstar, Star, Record, RemoveEntry, others, Ends, Busy
  <2>3. CASE ForgetRow(r) \/ EmptyOne(r) \/ ForgetAll(r)
    BY <2>3 DEF ForgetRow, EmptyOne, ForgetAll, Busy
  <2>4. CASE ClearTrash(r) \/ Remake(r) \/ MissesTrash(r)
    BY <2>4 DEF ClearTrash, Remake, MissesTrash, others, Ends, Busy
  <2>5. CASE DatabaseFails(r)
    BY <1>1, <2>5 DEF DatabaseFails, Ends, Trouble, Busy, FilesTypeOK
  <2>6. QED
    BY <2>1, <2>2, <2>3, <2>4, <2>5 DEF Acting
<1>3. step' = step \/ \E s \in Step \ {"idle"} : StepTo(r, s)
  <2>1. CASE Move(r)
    <3>1. "recording" \in Step \ {"idle"} /\ "forgetting" \in Step \ {"idle"} /\ "unstarring" \in Step \ {"idle"}
          /\ "done" \in Step \ {"idle"}
      BY DEF Step
    <3>2. CASE Ends(r)
      BY <3>1, <3>2 DEF Ends
    <3>3. CASE ~Ends(r)
      <4>1. StepTo(r, CASE Op(r) = "trash"   -> "recording"
                        [] Op(r) = "restore" -> "forgetting"
                        [] OTHER             -> "unstarring")
        BY <2>1, <3>3 DEF Move
      <4>2. StepTo(r, "recording") \/ StepTo(r, "forgetting") \/ StepTo(r, "unstarring")
        BY <4>1
      <4>3. QED
        BY <3>1, <4>2
    <3>4. QED
      BY <3>2, <3>3
  <2>2. CASE Make(r) \/ Compare(r) \/ Save(r) \/ Replace(r) \/ Copy(r) \/ RemoveEntry(r) \/ DatabaseFails(r)
    BY <2>2 DEF Make, Compare, Save, Replace, Copy, RemoveEntry, DatabaseFails, Ends, Step
  <2>3. CASE Unstar(r) \/ Star(r) \/ Record(r) \/ ForgetRow(r) \/ EmptyOne(r) \/ ForgetAll(r)
    BY <2>3 DEF Unstar, Star, Record, ForgetRow, EmptyOne, ForgetAll, Step
  <2>4. CASE ClearTrash(r) \/ Remake(r) \/ MissesTrash(r)
    BY <2>4 DEF ClearTrash, Remake, MissesTrash, Ends, Step
  <2>5. QED
    BY <2>1, <2>2, <2>3, <2>4 DEF Acting
<1>4. todo' = todo \/ \E L : todo' = [todo EXCEPT ![r] = L]
  BY DEF Acting, Make, Compare, Save, Replace, Move, Copy, Unstar, Star, Record, RemoveEntry, ForgetRow, ClearTrash,
     Remake, MissesTrash, EmptyOne, ForgetAll, DatabaseFails, others
<1>5. /\ step'[r] # "idle"
      /\ \A q \in FileRequest \ {r} : step'[q] = step[q] /\ todo'[q] = todo[q]
  BY <1>1, <1>2, <1>3, <1>4 DEF FilesTypeOK, StepTo, Busy
<1>6. /\ surprised \subseteq surprised' /\ (r \in surprised' => r \in surprised)
      /\ \A q \in surprised' \ surprised : q \in FileRequest \ {r} /\ Busy(q)
      /\ place' # place => \A q \in FileRequest \ {r} : Busy(q) => q \in surprised'
  BY <1>2 DEF Reckon
<1>7. QED
  BY <1>2, <1>5, <1>6 DEF OnlyIts

\* Nothing below a path lies in the trash itself, but what the path names.
LEMMA TreeOutside ==
    ASSUME FileManagerAssumption, NEW t, WellFormed(t), NEW q \in Path, Len(q) > 1, NEW l \in Label,
           NEW j \in TreeIn(t, q), t[j] = <<Bin, l>>
    PROVE  q = <<Bin, l>>
<1>1. AtIn(t, q) \in Item /\ j \in WithinIn(t, AtIn(t, q))
  BY DEF TreeIn
<1>2. j = AtIn(t, q)
  <2>1. ASSUME j # AtIn(t, q) PROVE FALSE
    <3>1. t[j][1] \in Item
      BY <1>1, <2>1, WithinKinds
    <3>2. QED
      BY <3>1, Distinct
  <2>2. QED
    BY <2>1
<1>3. /\ t[j] = <<TopIn(t, Parent(q)), BaseName(q)>>
      /\ Len(q) = 2 => TopIn(t, Parent(q)) = q[1]
      /\ Len(q) = 3 => TopIn(t, Parent(q)) \in Folder \cup {Nothing}
  BY <1>1, <1>2, AtKinds, Distinct
<1>4. TopIn(t, Parent(q)) = Bin /\ BaseName(q) = l
  BY <1>3
<1>5. Len(q) # 3
  BY <1>3, <1>4, Distinct
<1>6. Len(q) = 2 /\ q = <<q[1], q[2]>> /\ BaseName(q) = q[2]
  BY <1>5, PathParts
<1>7. QED
  BY <1>3, <1>4, <1>6

\* What an entry of the trash is.
LEMMA TrashAt ==
    ASSUME FileManagerAssumption, NEW t, WellFormed(t), NEW l \in Label
    PROVE  /\ AtIn(t, <<Bin, l>>) = Nothing <=> LiesIn(t, Bin, l) = {}
           /\ LiesIn(t, Bin, l) \subseteq TreeIn(t, <<Bin, l>>)
<1>1. AtIn(t, <<Bin, l>>) = TheOne(LiesIn(t, Bin, l)) /\ LiesIn(t, Bin, l) \subseteq Item
  BY TrashPaths DEF LiesIn
<1>2. AtIn(t, <<Bin, l>>) = Nothing <=> LiesIn(t, Bin, l) = {}
  BY <1>1, OneOf, Distinct
<1>3. ASSUME NEW j \in LiesIn(t, Bin, l) PROVE j \in TreeIn(t, <<Bin, l>>)
  <2>1. AtIn(t, <<Bin, l>>) = j
    <3>1. \A k \in LiesIn(t, Bin, l) : k = j
      <4>1. <<Bin, l>> # Nothing /\ <<Bin, l>> # Unborn
        BY DEF FileManagerAssumption
      <4>2. QED
        BY <4>1 DEF LiesIn, WellFormed, IsPlaced
    <3>2. QED
      BY <1>1, <3>1, OneOf
  <2>2. QED
    BY <1>1, <2>1, WithinKinds DEF TreeIn
<1>4. QED
  BY <1>2, <1>3

LEMMA CutEntries ==
    ASSUME FileManagerAssumption, NEW t, WellFormed(t), NEW q \in Path, Len(q) > 1, NEW l \in Label
    PROVE  LiesIn(Cut(t, TreeIn(t, q)), Bin, l) = IF q = <<Bin, l>> THEN {} ELSE LiesIn(t, Bin, l)
<1>1. LiesIn(Cut(t, TreeIn(t, q)), Bin, l) = LiesIn(t, Bin, l) \ TreeIn(t, q)
  <2>1. <<Bin, l>> # Nothing
    BY DEF FileManagerAssumption
  <2>2. QED
    BY <2>1 DEF LiesIn, Cut
<1>2. CASE q = <<Bin, l>>
  BY <1>1, <1>2, TrashAt
<1>3. CASE q # <<Bin, l>>
  BY <1>1, <1>3, TreeOutside DEF LiesIn
<1>4. QED
  BY <1>2, <1>3

LEMMA RenameEntries ==
    ASSUME FileManagerAssumption, NEW t, WellFormed(t), NEW p \in Path, NEW q \in Path,
           Len(p) > 1, Len(q) > 1, AtIn(t, p) \in Item, TopIn(t, Parent(q)) # Nothing, ~Below(p, q), NEW l \in Label
    PROVE  /\ q = <<Bin, l>> => LiesIn(RenameIn(t, p, q), Bin, l) # {}
           /\ p = <<Bin, l>> /\ q # <<Bin, l>> => LiesIn(RenameIn(t, p, q), Bin, l) = {}
           /\ p # <<Bin, l>> /\ q # <<Bin, l>> => LiesIn(RenameIn(t, p, q), Bin, l) = LiesIn(t, Bin, l)
<1> DEFINE x == AtIn(t, p)
           R == TreeIn(t, q) \ TreeIn(t, p)
           u == RenameIn(t, p, q)
           d == TopIn(t, Parent(q))
<1>1. u[x] = <<d, BaseName(q)>> /\ \A j \in Item \ {x} : u[j] = Cut(t, R)[j]
  BY RenameWellFormed
<1>2. <<Bin, l>> # Nothing
  BY DEF FileManagerAssumption
<1>3. \A j \in Item \ {x} : u[j] = <<Bin, l>> <=> j \notin R /\ t[j] = <<Bin, l>>
  BY <1>1, <1>2 DEF Cut
<1>4. u[x] = <<Bin, l>> <=> q = <<Bin, l>>
  <2>1. /\ Len(q) = 2 => d = q[1] /\ q = <<q[1], q[2]>> /\ BaseName(q) = q[2]
        /\ Len(q) = 3 => d \in Folder \cup {Nothing}
        /\ Len(q) \in {2, 3}
    BY AtKinds, PathParts
  <2>2. CASE Len(q) = 2
    BY <1>1, <2>1, <2>2
  <2>3. CASE Len(q) = 3
    <3>1. q # <<Bin, l>>
      BY <2>3, TrashPaths
    <3>2. d # Bin
      BY <2>1, <2>3, Distinct
    <3>3. QED
      BY <1>1, <3>1, <3>2
  <2>4. QED
    BY <2>1, <2>2, <2>3
<1>5. x \in TreeIn(t, p)
  BY WithinKinds DEF TreeIn
<1>6. t[x] = <<Bin, l>> <=> p = <<Bin, l>>
  <2>1. t[x] = <<Bin, l>> => p = <<Bin, l>>
    BY <1>5, TreeOutside
  <2>2. p = <<Bin, l>> => t[x] = <<Bin, l>>
    <3>1. SUFFICES ASSUME p = <<Bin, l>> PROVE t[x] = <<Bin, l>>
      OBVIOUS
    <3>2. x = TheOne(LiesIn(t, Bin, l)) /\ x # Nothing
      BY <3>1, TrashPaths, Distinct
    <3>3. QED
      BY <3>2, OneOf DEF LiesIn
  <2>3. QED
    BY <2>1, <2>2
<1> HIDE DEF x, R, u, d
<1>7. x \in Item
  BY DEF x
<1>8. CASE q = <<Bin, l>>
  BY <1>4, <1>7, <1>8 DEF LiesIn, u
<1>9. CASE p = <<Bin, l>> /\ q # <<Bin, l>>
  <2>1. \A j \in Item : t[j] = <<Bin, l>> => j = x
    <3>1. t[x] = <<Bin, l>> /\ IsPlaced(t, x)
      BY <1>6, <1>9 DEF IsPlaced, FileManagerAssumption
    <3>2. QED
      BY <1>7, <3>1 DEF WellFormed
  <2>2. \A j \in Item : u[j] # <<Bin, l>>
    BY <1>3, <1>4, <1>9, <2>1
  <2>3. QED
    BY <1>9, <2>2 DEF LiesIn, u
<1>10. CASE p # <<Bin, l>> /\ q # <<Bin, l>>
  <2>1. \A j \in Item : t[j] = <<Bin, l>> => j \notin R
    BY <1>10, TreeOutside DEF R
  <2>2. \A j \in Item : u[j] = <<Bin, l>> <=> t[j] = <<Bin, l>>
    BY <1>3, <1>4, <1>6, <1>10, <2>1
  <2>3. QED
    BY <1>10, <2>2 DEF LiesIn, u
<1>11. QED
  BY <1>8, <1>9, <1>10

\* A new item outside the trash is no entry of it.
LEMMA PutEntries ==
    ASSUME FileManagerAssumption, FilesInv, NEW q \in Path, Len(q) > 1, ~InBin(q), Top(Parent(q)) # Nothing,
           NEW kind \in SUBSET Item, Put(kind, Top(Parent(q)), BaseName(q)), NEW l \in Label
    PROVE  LiesIn(place', Bin, l) = LiesIn(place, Bin, l)
<1> DEFINE d == TopIn(place, Parent(q))
           k == BaseName(q)
<1>1. WellFormed(place) /\ Top(Parent(q)) = d
  BY OnPlace DEF FilesInv
<1>2. /\ d \in Folder \cup {Root, Bin} /\ k \in Label /\ Len(q) \in {2, 3}
      /\ d \in Folder => Len(q) = 3 /\ place[d] = <<q[1], q[2]>>
      /\ Len(q) = 2 => d = q[1]
      /\ Len(q) = 3 => d \in Folder \cup {Nothing}
  BY <1>1, AtKinds, PathParts
<1>3. d # Bin
  BY <1>2, Distinct DEF InBin
<1>4. d \in Item => place[d] # Unborn
  <2>1. SUFFICES ASSUME d \in Item PROVE place[d] # Unborn
    OBVIOUS
  <2>2. d \in Folder
    BY <1>2, <2>1, Distinct
  <2>3. place[d] = <<q[1], q[2]>> /\ q[1] \in {Root, Bin} /\ q[2] \in Label
    BY <1>2, <2>2, PathParts
  <2>4. place[d] \in Space
    BY <2>3 DEF Space
  <2>5. QED
    BY <2>4, Distinct
<1>5. Put(kind, d, k)
  BY <1>1
<1> HIDE DEF d, k
<1>6. \A e \in Folder \cup {Root, Bin}, m \in Label :
         e # d \/ m # k => LiesIn(place', e, m) = LiesIn(place, e, m)
  BY <1>1, <1>2, <1>4, <1>5, PutElsewhere
<1>7. QED
  BY <1>3, <1>6

LEMMA LooksAim ==
    ASSUME FileManagerAssumption, FilesInv, NEW r \in FileRequest, NEW a \in Asks, Looking(r, a)
    PROVE  step'[r] \in {"done", "emptying"} \/ Aims(a, target'[r])
<1>1. FilesTypeOK /\ a.path \in Path /\ a.to \in Path
  BY AskKinds DEF FilesInv
<1>2. CASE LookToMake(r, a) \/ Open(r, a)
  <2>1. StepTo(r, "done") \/ target' = [target EXCEPT ![r] = a.path]
    BY <1>2 DEF LookToMake, Open, Refuse
  <2>2. QED
    BY <1>1, <2>1 DEF StepTo, FilesTypeOK, Aims
<1>3. CASE LookToPaste(r, a)
  <2>1. /\ a.op \in {"move", "copy"}
        /\ StepTo(r, "done") \/ \E l : /\ l = BaseName(a.path) \/ l \in Unique(Top(a.to), BaseName(Append(a.to, BaseName(a.path))), 1)
                                       /\ target' = [target EXCEPT ![r] = Append(a.to, l)]
    BY <1>3 DEF LookToPaste, Refuse
  <2>2. Len(a.path) > 1 /\ BaseName(a.path) \in Label /\ Len(a.to) < 3
    BY <1>1, <2>1, AskKinds, PathParts
  <2>3. BaseName(Append(a.to, BaseName(a.path))) = BaseName(a.path)
    BY <1>1, <2>2, PathGrows
  <2>4. CASE StepTo(r, "done")
    BY <1>1, <2>4 DEF StepTo, FilesTypeOK
  <2>5. CASE ~StepTo(r, "done")
    <3>1. PICK l \in Label : target' = [target EXCEPT ![r] = Append(a.to, l)]
      BY <2>1, <2>2, <2>3, <2>5, UniqueFree
    <3>2. Append(a.to, l)[1] = a.to[1]
      BY <1>1, <2>2, <3>1, PathGrows
    <3>3. QED
      BY <1>1, <3>1, <3>2 DEF FilesTypeOK, Aims, InBin
  <2>6. QED
    BY <2>4, <2>5
<1>4. CASE LookToRename(r, a)
  <2>1. /\ a.op = "rename"
        /\ StepTo(r, "done") \/ target' = [target EXCEPT ![r] = Append(Parent(a.path), BaseName(a.to))]
    BY <1>4 DEF LookToRename, Refuse
  <2>2. Append(Parent(a.path), BaseName(a.to))[1] = a.path[1]
    BY <1>1, <2>1, AskKinds, PathParts, SiblingPath
  <2>3. QED
    BY <1>1, <2>1, <2>2 DEF StepTo, FilesTypeOK, Aims, InBin
<1>5. CASE LookToTrash(r, a) \/ LookToRestore(r, a) \/ LookToDelete(r, a) \/ LookToClear(r, a) \/ LookToEmpty(r, a)
  BY <1>5 DEF LookToTrash, LookToRestore, LookToDelete, LookToClear, LookToEmpty, Aims
<1>6. QED
  BY <1>2, <1>3, <1>4, <1>5 DEF Looking

\* The folder a restore makes is not in the trash.
LEMMA RestoresElsewhere ==
    ASSUME FileManagerAssumption, FilesInv, NEW r \in FileRequest, NEW a \in Asks, LookToRestore(r, a), NEW l \in Label
    PROVE  LiesIn(place', Bin, l) = LiesIn(place, Bin, l)
<1> DEFINE back == origin[BaseName(a.path)]
<1>1. CASE place' = place
  BY <1>1
<1>2. CASE place' # place
  <2>1. Put(Folder, back[1], BaseName(Parent(back))) /\ Len(back) = 3 /\ back # Nothing /\ a.op = "restore"
    BY <1>2 DEF LookToRestore
  <2>2. BaseName(a.path) \in Label
    BY <2>1, AskKinds, PathParts
  <2>3. back \in Path /\ ~InBin(back)
    BY <2>1, <2>2 DEF FilesInv, FilesTypeOK, OriginInv
  <2> HIDE DEF back
  <2>4. Len(back) > 1
    BY <2>1
  <2>5. /\ back[1] \in {Root, Bin} /\ Parent(back) = <<back[1], back[2]>> /\ back[2] \in Label
    BY <2>1, <2>3, <2>4, PathParts
  <2>6. BaseName(Parent(back)) = back[2]
    BY <2>5 DEF BaseName
  <2> DEFINE d == back[1]
             k == back[2]
  <2>7. d \in Folder \cup {Root, Bin} /\ (d \in Item => place[d] # Unborn) /\ k \in Label /\ Put(Folder, d, k) /\ d # Bin
        /\ Folder \in SUBSET Item /\ WellFormed(place)
    BY <2>1, <2>3, <2>5, <2>6, Distinct DEF FilesInv, InBin
  <2> HIDE DEF d, k
  <2>8. \A e \in Folder \cup {Root, Bin}, m \in Label :
           e # d \/ m # k => LiesIn(place', e, m) = LiesIn(place, e, m)
    BY <2>7, PutElsewhere
  <2>9. QED
    BY <2>7, <2>8
<1>3. QED
  BY <1>1, <1>2

LEMMA LooksKeepRows ==
    ASSUME FileManagerAssumption, TrashInv, FilesInv', NEW r \in FileRequest, NEW a \in Asks, Looking(r, a)
    PROVE  TrashInv'
<1>1. /\ FilesInv /\ FilesTypeOK /\ OnlyIts(r) /\ step[r] = "idle" /\ ask'[r] = a /\ origin' = origin
  BY LooksAlone DEF TrashInv, FilesInv
<1>2. step'[r] \in {"done", "emptying"} \/ Aims(ask'[r], target'[r])
  BY <1>1, LooksAim
<1>3. ASSUME NEW l \in Label PROVE LiesIn(place', Bin, l) = LiesIn(place, Bin, l)
  <2>1. CASE LookToRestore(r, a)
    BY <1>1, <2>1, RestoresElsewhere
  <2>2. CASE ~LookToRestore(r, a)
    <3>1. place' = place
      BY <2>2 DEF Looking, LookToMake, Open, LookToPaste, LookToRename, LookToTrash, LookToDelete, LookToClear,
         LookToEmpty, Unchosen
    <3>2. QED
      BY <3>1
  <2>3. QED
    BY <2>1, <2>2
<1>4. TrashPrepared(place', step'[r], ask'[r], target'[r], todo'[r])
  <2>1. CASE LookToEmpty(r, a)
    <3>1. place' = place /\ step'[r] = "emptying" /\ todo'[r] = {l \in Label : Lies(Bin, l) # {}}
      BY <1>1, <2>1 DEF LookToEmpty, StepTo, FilesTypeOK
    <3>2. QED
      BY <3>1, OnPlace DEF TrashPrepared
  <2>2. CASE ~LookToEmpty(r, a)
    <3>1. \E s \in {"done", "making", "comparing", "moving", "copying", "replacing", "removing", "clearing"} : StepTo(r, s)
      BY <2>2 DEF Looking, LookToMake, Open, LookToPaste, LookToRename, LookToTrash, LookToRestore, LookToDelete,
         LookToClear, Refuse
    <3>2. step'[r] \notin {"recording", "forgetting", "emptying"}
      BY <1>1, <3>1 DEF StepTo, FilesTypeOK
    <3>3. QED
      BY <3>2 DEF TrashPrepared
  <2>3. QED
    BY <2>1, <2>2
<1>5. Rows => Rows'
  BY <1>1, <1>3, RowsStay
<1>6. QED
  BY <1>1, <1>2, <1>4, <1>5, TrashStep

LEMMA OutsideStep ==
    ASSUME FileManagerAssumption, TrashInv, FilesInv', NEW r \in FileRequest, Acting(r),
           step[r] \notin {"recording", "forgetting", "emptying"},
           step'[r] \notin {"recording", "forgetting", "emptying"}, origin' = origin,
           Calm /\ Calm' => \A l \in Label : LiesIn(place', Bin, l) = LiesIn(place, Bin, l)
    PROVE  TrashInv'
<1>1. FilesInv /\ OnlyIts(r) /\ Busy(r) /\ ask' = ask /\ target' = target
  BY ActsAlone DEF TrashInv
<1>2. Aims(ask'[r], target'[r])
  BY <1>1 DEF TrashInv, AimInv, Busy
<1>3. TrashPrepared(place', step'[r], ask'[r], target'[r], todo'[r])
  BY DEF TrashPrepared
<1>4. Calm /\ Rows /\ Calm' => Rows'
  BY <1>1, RowsStay
<1>5. QED
  BY <1>1, <1>2, <1>3, <1>4, TrashStep

\* A request about nothing in the trash.
LEMMA OutsideTarget ==
    ASSUME FileManagerAssumption, TrashInv, Calm, NEW r \in FileRequest, Busy(r), step[r] # "emptying",
           ask[r].op \notin {"trash", "restore", "delete", "empty"}
    PROVE  /\ target[r] \in Path /\ Len(target[r]) > 1 /\ ~InBin(target[r])
           /\ ask[r].path \in Path /\ Len(ask[r].path) > 1 /\ ~InBin(ask[r].path)
<1>1. ~InBin(ask[r].path) /\ ~InBin(ask[r].to)
  BY DEF Calm, Trashing, Op, Busy
<1>2. ~InBin(target[r])
  BY <1>1 DEF TrashInv, AimInv, Busy, Aims
<1>3. step[r] \notin {"clearing", "remaking"}
  BY BusyKinds DEF TrashInv, Works
<1>4. QED
  BY <1>1, <1>2, <1>3, BusyKinds DEF TrashInv

LEMMA QuietKeepsRows ==
    ASSUME FileManagerAssumption, TrashInv, FilesInv', NEW r \in FileRequest,
           \/ Make(r) \/ Compare(r) \/ Save(r) \/ Replace(r) \/ Copy(r) \/ Unstar(r) \/ Star(r)
    PROVE  TrashInv'
<1>1. FilesInv /\ FilesTypeOK /\ WellFormed(place) /\ Busy(r) /\ Acting(r)
  BY DEF TrashInv, FilesInv, Busy, Make, Compare, Save, Replace, Copy, Unstar, Star, Acting
<1>2. /\ step[r] \in {"making", "comparing", "saving", "replacing", "copying", "unstarring", "starring"}
      /\ origin' = origin
      /\ \E s \in {"done", "saving", "copying", "moving", "starring"} : StepTo(r, s)
  BY DEF Make, Compare, Save, Replace, Copy, Unstar, Star, others, Ends
<1>3. step'[r] \notin {"recording", "forgetting", "emptying"}
  BY <1>1, <1>2 DEF StepTo, FilesTypeOK
<1> DEFINE q == target[r]
<1>4. /\ ask[r].op \notin {"trash", "delete", "empty"}
      /\ ask[r].op = "restore" => step[r] = "replacing" /\ q \in Path /\ Len(q) > 1 /\ ~InBin(q)
  BY <1>1, <1>2, BusyKinds DEF Works
<1>5. ASSUME Calm, NEW l \in Label PROVE LiesIn(place', Bin, l) = LiesIn(place, Bin, l)
  <2>1. q \in Path /\ Len(q) > 1 /\ ~InBin(q)
    BY <1>1, <1>2, <1>4, <1>5, OutsideTarget
  <2>2. \/ place' = place
        \/ place' = Removed(Tree(q))
        \/ \E kind \in {Folder, File} : Top(Parent(q)) # Nothing /\ Put(kind, Top(Parent(q)), BaseName(q))
    <3>1. At(q) \in File => Top(Parent(q)) # Nothing
      <4>1. SUFFICES ASSUME At(q) \in File PROVE Top(Parent(q)) # Nothing
        OBVIOUS
      <4> HIDE DEF q
      <4>2. AtIn(place, q) # Nothing
        BY <4>1, OnPlace, Distinct DEF File
      <4>3. TopIn(place, Parent(q)) \in Folder \cup {Root, Bin}
        BY <1>1, <2>1, <4>2, AtKinds
      <4>4. QED
        BY <4>3, OnPlace, Distinct
    <3>2. CASE Make(r) \/ Copy(r)
      BY <3>2 DEF Make, Copy, Ends
    <3>3. CASE Save(r)
      BY <3>1, <3>3 DEF Save, Ends
    <3>4. CASE Compare(r) \/ Replace(r) \/ Unstar(r) \/ Star(r)
      BY <3>4 DEF Compare, Replace, Unstar, Star
    <3>5. QED
      BY <3>2, <3>3, <3>4
  <2> HIDE DEF q
  <2>3. q # <<Bin, l>>
    BY <2>1, TrashPaths
  <2>4. CASE place' = place
    BY <2>4
  <2>5. CASE place' = Removed(Tree(q))
    <3>1. place' = Cut(place, TreeIn(place, q))
      BY <2>5, OnPlace
    <3>2. LiesIn(Cut(place, TreeIn(place, q)), Bin, l) = LiesIn(place, Bin, l)
      BY <1>1, <2>1, <2>3, CutEntries
    <3>3. QED
      BY <3>1, <3>2
  <2>6. ASSUME NEW kind \in {Folder, File}, Top(Parent(q)) # Nothing, Put(kind, Top(Parent(q)), BaseName(q))
        PROVE  LiesIn(place', Bin, l) = LiesIn(place, Bin, l)
    <3>1. kind \in SUBSET Item
      BY <2>6, Distinct DEF File
    <3>2. QED
      BY <1>1, <1>5, <2>1, <2>6, <3>1, PutEntries
  <2>7. QED
    BY <2>2, <2>4, <2>5, <2>6
<1>6. QED
  BY <1>1, <1>2, <1>3, <1>5, OutsideStep

\* At most the entry or the row of one label comes or goes, and r is about no other.
LEMMA RowsElsewhere ==
    ASSUME NEW r \in FileRequest, OnlyIts(r), Rows, NEW l \in Label,
           \A k \in Label \ {l} : LiesIn(place', Bin, k) = LiesIn(place, Bin, k) /\ origin'[k] = origin[k],
           step[r] # "emptying",
           \A k \in Label \ {l} : /\ step[r] = "recording" => target[r] # <<Bin, k>>
                                  /\ step[r] = "forgetting" => ask[r].path # <<Bin, k>>,
           LiesIn(place', Bin, l) # {} =>
                origin'[l] # Nothing \/ (step'[r] = "recording" /\ target'[r] = <<Bin, l>>),
           LiesIn(place', Bin, l) = {} =>
                origin'[l] = Nothing \/ (step'[r] = "forgetting" /\ ask'[r].path = <<Bin, l>>)
    PROVE  Rows'
<1>1. SUFFICES ASSUME NEW k \in Label
               PROVE  /\ LiesIn(place', Bin, k) # {} /\ origin'[k] = Nothing =>
                            \E w \in FileRequest : step'[w] = "recording" /\ target'[w] = <<Bin, k>>
                      /\ LiesIn(place', Bin, k) = {} /\ origin'[k] # Nothing =>
                            \E w \in FileRequest : \/ step'[w] = "emptying"
                                                   \/ step'[w] = "forgetting" /\ ask'[w].path = <<Bin, k>>
                                                   \/ Clearing(w)'
  BY DEF Rows
<1>2. CASE k = l
  BY <1>2
<1>3. CASE k # l
  <2>1. /\ LiesIn(place, Bin, k) # {} /\ origin[k] = Nothing =>
              \E w \in FileRequest : step[w] = "recording" /\ target[w] = <<Bin, k>>
        /\ LiesIn(place, Bin, k) = {} /\ origin[k] # Nothing =>
              \E w \in FileRequest : \/ step[w] = "emptying"
                                     \/ step[w] = "forgetting" /\ ask[w].path = <<Bin, k>>
                                     \/ Clearing(w)
    BY <1>1 DEF Rows
  <2>2. \A w \in FileRequest \ {r} : step'[w] = step[w] /\ target'[w] = target[w] /\ ask'[w] = ask[w]
    BY DEF OnlyIts
  <2>3. /\ LiesIn(place', Bin, k) = LiesIn(place, Bin, k) /\ origin'[k] = origin[k]
        /\ step[r] = "recording" => target[r] # <<Bin, k>>
        /\ step[r] = "forgetting" => ask[r].path # <<Bin, k>>
    BY <1>3
  <2>4. \A w \in FileRequest : Clearing(w) => Clearing(w)'
    BY ClearingStays
  <2>5. QED
    BY <2>1, <2>2, <2>3, <2>4
<1>4. QED
  BY <1>2, <1>3

LEMMA MovesKeepRows ==
    ASSUME FileManagerAssumption, TrashInv, FilesInv', NEW r \in FileRequest, Move(r)
    PROVE  TrashInv'
<1> DEFINE p == ask[r].path
           q == target[r]
           s == CASE Op(r) = "trash"   -> "recording"
                  [] Op(r) = "restore" -> "forgetting"
                  [] OTHER             -> "unstarring"
           u == RenameIn(place, p, q)
<1>1. /\ FilesInv /\ FilesTypeOK /\ WellFormed(place) /\ step[r] = "moving" /\ Busy(r) /\ Acting(r) /\ origin' = origin
      /\ OnlyIts(r) /\ ask' = ask /\ target' = target
  <2>1. FilesInv /\ FilesTypeOK /\ WellFormed(place) /\ step[r] = "moving" /\ Busy(r) /\ Acting(r) /\ origin' = origin
    BY DEF TrashInv, FilesInv, Move, Busy, Acting, others
  <2>2. QED
    BY <2>1, ActsAlone
<1>2. /\ q \in Path /\ Len(q) > 1 /\ p \in Path /\ Len(p) > 1
      /\ ask[r].op \in {"move", "rename", "trash", "restore"}
      /\ ask[r].op = "trash" => ~InBin(p) /\ InBin(q) /\ Len(q) = 2
      /\ ask[r].op = "restore" => InBin(p) /\ Len(p) = 2 /\ ~InBin(q)
  BY <1>1, BusyKinds DEF Works
<1>3. /\ ask[r].op = "trash" => s = "recording"
      /\ ask[r].op = "restore" => s = "forgetting"
      /\ ask[r].op \in {"move", "rename"} => s = "unstarring"
  BY DEF Op
<1>4. \/ Ends(r)
      \/ CanRename(p, q) /\ Rename(p, q) /\ StepTo(r, s)
  BY DEF Move
<1>5. CASE Ends(r)
  <2>1. step'[r] = "done" /\ place' = place
    BY <1>1, <1>5 DEF Ends, StepTo, FilesTypeOK
  <2>2. QED
    BY <1>1, <2>1, OutsideStep
<1>6. CASE CanRename(p, q) /\ Rename(p, q) /\ StepTo(r, s)
  <2>1. /\ AtIn(place, p) \in Item /\ TopIn(place, Parent(q)) # Nothing /\ ~Below(p, q)
        /\ place' = u
    BY <1>6, OnPlace DEF CanRename, Rename, RenameIn
  <2>2. step'[r] = s
    BY <1>1, <1>6 DEF StepTo, FilesTypeOK
  <2> HIDE DEF p, q, s
  <2>3. ASSUME NEW l \in Label
        PROVE  /\ q = <<Bin, l>> => LiesIn(u, Bin, l) # {}
               /\ p = <<Bin, l>> /\ q # <<Bin, l>> => LiesIn(u, Bin, l) = {}
               /\ p # <<Bin, l>> /\ q # <<Bin, l>> => LiesIn(u, Bin, l) = LiesIn(place, Bin, l)
    BY <1>1, <1>2, <2>1, RenameEntries
  <2> HIDE DEF u
  <2>4. ASSUME NEW l \in Label
        PROVE  /\ q = <<Bin, l>> => LiesIn(place', Bin, l) # {}
               /\ p = <<Bin, l>> /\ q # <<Bin, l>> => LiesIn(place', Bin, l) = {}
               /\ p # <<Bin, l>> /\ q # <<Bin, l>> => LiesIn(place', Bin, l) = LiesIn(place, Bin, l)
    BY <2>1, <2>3
  <2>5. CASE ask[r].op \in {"move", "rename"}
    <3>1. ASSUME Calm, NEW l \in Label PROVE LiesIn(place', Bin, l) = LiesIn(place, Bin, l)
      <4>1. ~InBin(p) /\ ~InBin(q)
        BY <1>1, <2>5, <3>1, OutsideTarget DEF p, q
      <4>2. p # <<Bin, l>> /\ q # <<Bin, l>>
        BY <4>1, TrashPaths
      <4>3. QED
        BY <2>4, <4>2
    <3>2. QED
      BY <1>1, <1>3, <2>2, <2>5, <3>1, OutsideStep
  <2>6. CASE ask[r].op = "trash"
    <3>1. PICK l \in Label : q = <<Bin, l>>
      <4>1. q = <<q[1], q[2]>> /\ q[2] \in Label
        BY <1>2, <2>6, PathLengths
      <4>2. QED
        BY <1>2, <2>6, <4>1 DEF InBin
    <3>2. \A k \in Label : p # <<Bin, k>>
      BY <1>2, <2>6, TrashPaths
    <3>3. step'[r] = "recording" /\ target'[r] = <<Bin, l>> /\ step[r] = "moving"
      BY <1>1, <1>3, <2>2, <2>6, <3>1 DEF q
    <3>4. \A k \in Label : k # l => LiesIn(place', Bin, k) = LiesIn(place, Bin, k)
      BY <2>4, <3>1, <3>2
    <3>5. LiesIn(place', Bin, l) # {}
      BY <2>4, <3>1
    <3>6. Rows => Rows'
      BY <1>1, <3>1, <3>3, <3>4, <3>5, RowsElsewhere
    <3>7. TrashPrepared(place', step'[r], ask'[r], target'[r], todo'[r])
      <4>1. AtIn(place', <<Bin, l>>) # Nothing
        BY <3>5, TrashAt DEF FilesInv
      <4>2. QED
        BY <3>3, <4>1 DEF TrashPrepared
    <3>8. Aims(ask'[r], target'[r])
      BY <1>1, <2>6 DEF Aims
    <3>9. QED
      BY <1>1, <3>6, <3>7, <3>8, TrashStep
  <2>7. CASE ask[r].op = "restore"
    <3>1. PICK l \in Label : p = <<Bin, l>>
      <4>1. p = <<p[1], p[2]>> /\ p[2] \in Label
        BY <1>2, <2>7, PathLengths
      <4>2. QED
        BY <1>2, <2>7, <4>1 DEF InBin
    <3>2. \A k \in Label : q # <<Bin, k>>
      BY <1>2, <2>7, TrashPaths
    <3>3. step'[r] = "forgetting" /\ ask'[r].path = <<Bin, l>> /\ step[r] = "moving"
      BY <1>1, <1>3, <2>2, <2>7, <3>1 DEF p
    <3>4. \A k \in Label : k # l => LiesIn(place', Bin, k) = LiesIn(place, Bin, k)
      BY <2>4, <3>1, <3>2
    <3>5. LiesIn(place', Bin, l) = {}
      BY <2>4, <3>1, <3>2
    <3>6. Rows => Rows'
      BY <1>1, <3>1, <3>3, <3>4, <3>5, RowsElsewhere
    <3>7. TrashPrepared(place', step'[r], ask'[r], target'[r], todo'[r])
      <4>1. AtIn(place', <<Bin, l>>) = Nothing
        BY <3>5, TrashAt DEF FilesInv
      <4>2. QED
        BY <3>3, <4>1 DEF TrashPrepared
    <3>8. Aims(ask'[r], target'[r])
      BY <1>1, <2>7 DEF Aims
    <3>9. QED
      BY <1>1, <3>6, <3>7, <3>8, TrashStep
  <2>8. QED
    BY <1>2, <2>5, <2>6, <2>7
<1>7. QED
  BY <1>4, <1>5, <1>6

LEMMA RemovesKeepRows ==
    ASSUME FileManagerAssumption, TrashInv, FilesInv', NEW r \in FileRequest, RemoveEntry(r)
    PROVE  TrashInv'
<1> DEFINE q == target[r]
<1>1. /\ FilesInv /\ FilesTypeOK /\ WellFormed(place) /\ step[r] = "removing" /\ Busy(r) /\ Acting(r) /\ origin' = origin
      /\ OnlyIts(r) /\ ask' = ask /\ target' = target
  <2>1. FilesInv /\ FilesTypeOK /\ WellFormed(place) /\ step[r] = "removing" /\ Busy(r) /\ Acting(r) /\ origin' = origin
    BY DEF TrashInv, FilesInv, RemoveEntry, Busy, Acting, others
  <2>2. QED
    BY <2>1, ActsAlone
<1>2. q \in Path /\ Len(q) > 1 /\ ask[r].op = "delete" /\ InBin(q) /\ q = ask[r].path
  BY <1>1, BusyKinds DEF Works
<1>3. \/ Ends(r)
      \/ place' = Removed(Tree(q)) /\ StepTo(r, "forgetting")
  BY DEF RemoveEntry
<1>4. CASE Ends(r)
  <2>1. step'[r] = "done" /\ place' = place
    BY <1>1, <1>4 DEF Ends, StepTo, FilesTypeOK
  <2>2. QED
    BY <1>1, <2>1, OutsideStep
<1>5. CASE place' = Removed(Tree(q)) /\ StepTo(r, "forgetting")
  <2>1. step'[r] = "forgetting" /\ ask'[r].path = q
    BY <1>1, <1>2, <1>5 DEF StepTo, FilesTypeOK
  <2>2. place' = Cut(place, TreeIn(place, q))
    BY <1>5, OnPlace
  <2> HIDE DEF q
  <2>3. ASSUME NEW l \in Label
        PROVE  LiesIn(place', Bin, l) = IF q = <<Bin, l>> THEN {} ELSE LiesIn(place, Bin, l)
    <3>1. LiesIn(Cut(place, TreeIn(place, q)), Bin, l) = IF q = <<Bin, l>> THEN {} ELSE LiesIn(place, Bin, l)
      <4>1. q \in Path /\ Len(q) > 1 /\ WellFormed(place)
        BY <1>1, <1>2
      <4>2. QED
        BY <4>1, CutEntries
    <3>2. QED
      BY <2>2, <3>1
  <2>4. Aims(ask'[r], target'[r])
    BY <1>1, <1>2 DEF Aims
  <2>5. CASE Len(q) = 2
    <3>1. PICK l \in Label : q = <<Bin, l>>
      <4>1. q = <<q[1], q[2]>> /\ q[2] \in Label
        BY <1>2, <2>5, PathLengths
      <4>2. QED
        BY <1>2, <4>1 DEF InBin
    <3>2. LiesIn(place', Bin, l) = {} /\ \A k \in Label \ {l} : LiesIn(place', Bin, k) = LiesIn(place, Bin, k)
      BY <2>3, <3>1
    <3>3. Rows => Rows'
      BY <1>1, <2>1, <3>1, <3>2, RowsElsewhere
    <3>4. TrashPrepared(place', step'[r], ask'[r], target'[r], todo'[r])
      <4>1. AtIn(place', <<Bin, l>>) = Nothing
        BY <3>2, TrashAt DEF FilesInv
      <4>2. QED
        BY <2>1, <3>1, <4>1 DEF TrashPrepared
    <3>5. QED
      BY <1>1, <2>4, <3>3, <3>4, TrashStep
  <2>6. CASE Len(q) # 2
    <3>1. \A l \in Label : LiesIn(place', Bin, l) = LiesIn(place, Bin, l)
      BY <2>3, <2>6, TrashPaths
    <3>2. Rows => Rows'
      BY <1>1, <3>1, RowsStay
    <3>3. TrashPrepared(place', step'[r], ask'[r], target'[r], todo'[r])
      BY <2>1, <2>6 DEF TrashPrepared
    <3>4. QED
      BY <1>1, <2>4, <3>2, <3>3, TrashStep
  <2>7. QED
    BY <2>5, <2>6
<1>6. QED
  BY <1>3, <1>4, <1>5

\* The trash itself goes: no entry is left to lack its row.
LEMMA ClearsKeepRows ==
    ASSUME FileManagerAssumption, TrashInv, FilesInv', NEW r \in FileRequest, ClearTrash(r)
    PROVE  TrashInv'
<1>1. /\ FilesInv /\ FilesTypeOK /\ WellFormed(place) /\ step[r] = "clearing" /\ Busy(r) /\ Acting(r) /\ origin' = origin
      /\ OnlyIts(r) /\ ask' = ask /\ step'[r] = "remaking" /\ place' = Cut(place, Trashed)
  <2>1. FilesInv /\ FilesTypeOK /\ WellFormed(place) /\ step[r] = "clearing" /\ Busy(r) /\ Acting(r) /\ origin' = origin
    BY DEF TrashInv, FilesInv, ClearTrash, Busy, Acting, others
  <2>2. StepTo(r, "remaking") /\ place' = Removed(Trashed)
    BY DEF ClearTrash
  <2>3. QED
    BY <2>1, <2>2, ActsAlone, OnPlace DEF StepTo, FilesTypeOK
<1>2. ask[r].op = "delete" /\ ask[r].path = <<Bin>>
  BY <1>1, BusyKinds DEF Works
<1>3. ASSUME NEW l \in Label PROVE LiesIn(place', Bin, l) = {}
  <2>1. LiesIn(place', Bin, l) = LiesIn(place, Bin, l) \ Trashed
    BY <1>1, CutLies
  <2>2. LiesIn(place, Bin, l) \subseteq TreeIn(place, <<Bin, l>>)
    BY <1>1, TrashAt
  <2>3. TreeIn(place, <<Bin, l>>) \subseteq Trashed
    BY OnPlace DEF Trashed
  <2>4. QED
    BY <2>1, <2>2, <2>3
<1>4. Clearing(r)'
  BY <1>1, <1>2 DEF Clearing, Op
<1>5. Rows'
  BY <1>3, <1>4 DEF Rows
<1>6. Aims(ask'[r], target'[r]) /\ TrashPrepared(place', step'[r], ask'[r], target'[r], todo'[r])
  BY <1>1, <1>2 DEF Aims, TrashPrepared
<1>7. QED
  BY <1>1, <1>5, <1>6, TrashStep

LEMMA MissesKeepRows ==
    ASSUME FileManagerAssumption, TrashInv, FilesInv', NEW r \in FileRequest, Remake(r) \/ MissesTrash(r)
    PROVE  TrashInv'
<1>1. /\ FilesTypeOK /\ Acting(r) /\ StepTo(r, "done") /\ place' = place /\ origin' = origin
      /\ step[r] \notin {"recording", "forgetting", "emptying"}
  BY DEF TrashInv, FilesInv, Remake, MissesTrash, Acting, Ends, others
<1>2. step'[r] = "done"
  BY <1>1 DEF StepTo, FilesTypeOK
<1>3. QED
  BY <1>1, <1>2, OutsideStep

LEMMA EmptiesKeepRows ==
    ASSUME FileManagerAssumption, TrashInv, FilesInv', NEW r \in FileRequest, EmptyOne(r)
    PROVE  TrashInv'
<1>1. /\ FilesInv /\ FilesTypeOK /\ WellFormed(place) /\ Acting(r) /\ origin' = origin
      /\ step[r] = "emptying" /\ step' = step
      /\ OnlyIts(r) /\ ask' = ask /\ target' = target /\ (r \in surprised' => r \in surprised)
  <2>1. FilesInv /\ FilesTypeOK /\ WellFormed(place) /\ Acting(r) /\ origin' = origin /\ step[r] = "emptying" /\ step' = step
    BY DEF TrashInv, FilesInv, EmptyOne, Acting
  <2>2. QED
    BY <2>1, ActsAlone
<1>2. PICK m \in todo[r] : place' = Removed(Tree(<<Bin, m>>)) /\ todo' = [todo EXCEPT ![r] = @ \ {m}]
  BY DEF EmptyOne
<1>3. m \in Label /\ todo'[r] = todo[r] \ {m}
  BY <1>1, <1>2 DEF FilesTypeOK
<1>4. ASSUME NEW l \in Label
      PROVE  LiesIn(place', Bin, l) = IF l = m THEN {} ELSE LiesIn(place, Bin, l)
  <2> DEFINE q == <<Bin, m>>
  <2>1. place' = Cut(place, TreeIn(place, q))
    BY <1>2, OnPlace
  <2>2. q \in Path /\ Len(q) > 1 /\ (q = <<Bin, l>> <=> l = m)
    BY <1>3, TrashPaths
  <2> HIDE DEF q
  <2>3. LiesIn(Cut(place, TreeIn(place, q)), Bin, l) = IF q = <<Bin, l>> THEN {} ELSE LiesIn(place, Bin, l)
    BY <1>1, <2>2, CutEntries
  <2>4. QED
    BY <2>1, <2>2, <2>3
<1>5. r \notin surprised' => TrashPrepared(place', step'[r], ask'[r], target'[r], todo'[r])
  <2>1. SUFFICES ASSUME r \notin surprised', NEW l \in Label, LiesIn(place', Bin, l) # {} PROVE l \in todo'[r]
    BY <1>1 DEF TrashPrepared
  <2>2. l # m /\ LiesIn(place, Bin, l) # {}
    BY <1>4, <2>1
  <2>3. r \notin surprised
    BY <2>1 DEF OnlyIts, TrashInv, FilesInv, FilesTypeOK, EmptyOne, Reckon
  <2>4. l \in todo[r]
    BY <1>1, <2>2, <2>3 DEF TrashInv, TrashPreparedInv, TrashPrepared
  <2>5. QED
    BY <1>3, <2>2, <2>4
<1>6. Rows => Rows'
  <2>1. SUFFICES ASSUME Rows, NEW k \in Label
               PROVE  /\ LiesIn(place', Bin, k) # {} /\ origin'[k] = Nothing =>
                            \E w \in FileRequest : step'[w] = "recording" /\ target'[w] = <<Bin, k>>
                      /\ LiesIn(place', Bin, k) = {} /\ origin'[k] # Nothing =>
                            \E w \in FileRequest : \/ step'[w] = "emptying"
                                                   \/ step'[w] = "forgetting" /\ ask'[w].path = <<Bin, k>>
                                                   \/ Clearing(w)'
    BY DEF Rows
  <2>2. LiesIn(place, Bin, k) # {} /\ origin[k] = Nothing =>
              \E w \in FileRequest : step[w] = "recording" /\ target[w] = <<Bin, k>>
    BY <2>1 DEF Rows
  <2>3. LiesIn(place', Bin, k) # {} => LiesIn(place, Bin, k) # {}
    BY <1>4
  <2>4. QED
    BY <1>1, <2>2, <2>3
<1>7. step'[r] = "emptying"
  BY <1>1
<1>8. QED
  BY <1>1, <1>5, <1>6, <1>7, TrashStep

\* The database: a row is written or deleted for what the request did, since nothing of what
\* Calm excludes came in between.
LEMMA RecordsKeepRows ==
    ASSUME FileManagerAssumption, TrashInv, FilesInv', NEW r \in FileRequest, Record(r)
    PROVE  TrashInv'
<1>1. /\ FilesInv /\ FilesTypeOK /\ WellFormed(place) /\ Busy(r) /\ Acting(r) /\ step[r] = "recording"
      /\ UNCHANGED place /\ StepTo(r, "done") /\ origin' = [origin EXCEPT ![BaseName(target[r])] = ask[r].path]
  BY DEF TrashInv, FilesInv, Record, Busy, Acting
<1>2. OnlyIts(r) /\ step'[r] = "done" /\ \A l \in Label : LiesIn(place', Bin, l) = LiesIn(place, Bin, l)
  BY <1>1, ActsAlone DEF StepTo, FilesTypeOK
<1>3. /\ target[r] \in Path /\ Len(target[r]) = 2 /\ InBin(target[r]) /\ ask[r].op = "trash" /\ ask[r].path \in Path
  BY <1>1, BusyKinds DEF Works
<1>4. PICK l \in Label : target[r] = <<Bin, l>>
  <2>1. target[r] = <<target[r][1], target[r][2]>> /\ target[r][2] \in Label
    BY <1>3, PathLengths
  <2>2. QED
    BY <1>3, <2>1 DEF InBin
<1>5. origin'[l] # Nothing /\ \A k \in Label \ {l} : origin'[k] = origin[k]
  <2>1. BaseName(target[r]) = l
    BY <1>4 DEF BaseName
  <2>2. ask[r].path # Nothing
    BY <1>3 DEF FileManagerAssumption
  <2>3. QED
    BY <1>1, <2>1, <2>2 DEF FilesTypeOK
<1>6. ASSUME Calm, Rows PROVE Rows'
  <2>1. r \notin surprised
    BY <1>3, <1>6 DEF Calm, Trashing, Op
  <2>2. AtIn(place, <<Bin, l>>) # Nothing
    BY <1>1, <1>4, <2>1 DEF TrashInv, TrashPreparedInv, TrashPrepared
  <2>3. LiesIn(place', Bin, l) # {}
    BY <1>1, <1>2, <2>2, TrashAt
  <2>4. QED
    BY <1>1, <1>2, <1>4, <1>5, <1>6, <2>3, RowsElsewhere
<1>7. TrashPrepared(place', step'[r], ask'[r], target'[r], todo'[r])
  BY <1>2 DEF TrashPrepared
<1>8. QED
  BY <1>2, <1>6, <1>7, TrashStep

LEMMA ForgetsKeepRows ==
    ASSUME FileManagerAssumption, TrashInv, FilesInv', NEW r \in FileRequest, ForgetRow(r)
    PROVE  TrashInv'
<1> DEFINE p == ask[r].path
<1>1. /\ FilesInv /\ FilesTypeOK /\ WellFormed(place) /\ Busy(r) /\ Acting(r) /\ step[r] = "forgetting"
      /\ UNCHANGED place /\ StepTo(r, "done")
      /\ origin' = IF Len(p) = 2 THEN [origin EXCEPT ![BaseName(p)] = Nothing] ELSE origin
  BY DEF TrashInv, FilesInv, ForgetRow, Busy, Acting
<1>2. OnlyIts(r) /\ step'[r] = "done" /\ \A l \in Label : LiesIn(place', Bin, l) = LiesIn(place, Bin, l)
  BY <1>1, ActsAlone DEF StepTo, FilesTypeOK
<1>3. p \in Path /\ InBin(p) /\ ask[r].op \in {"restore", "delete"}
  BY <1>1, BusyKinds DEF Works
<1>4. TrashPrepared(place', step'[r], ask'[r], target'[r], todo'[r])
  BY <1>2 DEF TrashPrepared
<1> HIDE DEF p
<1>5. CASE Len(p) = 2
  <2>1. PICK l \in Label : p = <<Bin, l>>
    <3>1. p = <<p[1], p[2]>> /\ p[2] \in Label
      BY <1>3, <1>5, PathLengths
    <3>2. QED
      BY <1>3, <3>1 DEF InBin
  <2>2. origin'[l] = Nothing /\ \A k \in Label \ {l} : origin'[k] = origin[k]
    <3>1. BaseName(p) = l
      BY <2>1 DEF BaseName
    <3>2. QED
      BY <1>1, <1>5, <3>1 DEF FilesTypeOK
  <2>3. ASSUME Calm, Rows PROVE Rows'
    <3>1. r \notin surprised
      BY <1>3, <2>3 DEF Calm, Trashing, Op
    <3>2. AtIn(place, <<Bin, l>>) = Nothing
      BY <1>1, <1>5, <2>1, <3>1 DEF TrashInv, TrashPreparedInv, TrashPrepared, p
    <3>3. LiesIn(place', Bin, l) = {}
      BY <1>1, <1>2, <3>2, TrashAt
    <3>4. ask[r].path = <<Bin, l>>
      BY <2>1 DEF p
    <3>5. QED
      BY <1>1, <1>2, <2>2, <2>3, <3>3, <3>4, RowsElsewhere
  <2>4. QED
    BY <1>2, <1>4, <2>3, TrashStep
<1>6. CASE Len(p) # 2
  <2>1. origin' = origin /\ place' = place /\ \A l \in Label : ask[r].path # <<Bin, l>>
    BY <1>1, <1>6, TrashPaths DEF p
  <2>2. ASSUME Rows PROVE Rows'
    <3>1. SUFFICES ASSUME NEW k \in Label
               PROVE  /\ LiesIn(place', Bin, k) # {} /\ origin'[k] = Nothing =>
                            \E w \in FileRequest : step'[w] = "recording" /\ target'[w] = <<Bin, k>>
                      /\ LiesIn(place', Bin, k) = {} /\ origin'[k] # Nothing =>
                            \E w \in FileRequest : \/ step'[w] = "emptying"
                                                   \/ step'[w] = "forgetting" /\ ask'[w].path = <<Bin, k>>
                                                   \/ Clearing(w)'
      BY DEF Rows
    <3>2. /\ LiesIn(place, Bin, k) # {} /\ origin[k] = Nothing =>
                \E w \in FileRequest : step[w] = "recording" /\ target[w] = <<Bin, k>>
          /\ LiesIn(place, Bin, k) = {} /\ origin[k] # Nothing =>
                \E w \in FileRequest : \/ step[w] = "emptying"
                                       \/ step[w] = "forgetting" /\ ask[w].path = <<Bin, k>>
                                       \/ Clearing(w)
      BY <2>2 DEF Rows
    <3>3. \A w \in FileRequest \ {r} : step'[w] = step[w] /\ target'[w] = target[w] /\ ask'[w] = ask[w]
      BY <1>2 DEF OnlyIts
    <3>4. \A w \in FileRequest : Clearing(w) => Clearing(w)'
      BY <1>2, ClearingStays
    <3>5. QED
      BY <1>1, <1>2, <2>1, <3>2, <3>3, <3>4
  <2>3. QED
    BY <1>2, <1>4, <2>2, TrashStep
<1>7. QED
  BY <1>5, <1>6

LEMMA ForgettingKeepsRows ==
    ASSUME FileManagerAssumption, TrashInv, FilesInv', NEW r \in FileRequest, ForgetAll(r)
    PROVE  TrashInv'
<1>1. /\ FilesInv /\ FilesTypeOK /\ WellFormed(place) /\ Busy(r) /\ Acting(r) /\ step[r] = "emptying" /\ todo[r] = {}
      /\ UNCHANGED place /\ StepTo(r, "done") /\ origin' = [l \in Label |-> Nothing]
  BY DEF TrashInv, FilesInv, ForgetAll, Busy, Acting
<1>2. OnlyIts(r) /\ step'[r] = "done" /\ \A l \in Label : LiesIn(place', Bin, l) = LiesIn(place, Bin, l)
  BY <1>1, ActsAlone DEF StepTo, FilesTypeOK
<1>3. ask[r].op = "empty"
  BY <1>1, BusyKinds DEF Works
<1>4. ASSUME Calm, Rows PROVE Rows'
  <2>1. r \notin surprised
    BY <1>3, <1>4 DEF Calm, Trashing, Op
  <2>2. \A l \in Label : LiesIn(place, Bin, l) = {}
    BY <1>1, <2>1 DEF TrashInv, TrashPreparedInv, TrashPrepared
  <2>3. \A l \in Label : LiesIn(place', Bin, l) = {} /\ origin'[l] = Nothing
    BY <1>1, <1>2, <2>2
  <2>4. QED
    BY <2>3 DEF Rows
<1>5. TrashPrepared(place', step'[r], ask'[r], target'[r], todo'[r])
  BY <1>2 DEF TrashPrepared
<1>6. QED
  BY <1>2, <1>4, <1>5, TrashStep

LEMMA FailuresKeepRows ==
    ASSUME FileManagerAssumption, TrashInv, FilesInv', NEW r \in FileRequest, DatabaseFails(r)
    PROVE  TrashInv'
<1>1. FilesInv /\ FilesTypeOK /\ Acting(r) /\ StepTo(r, "done") /\ troubles' = troubles + 1
  BY DEF TrashInv, FilesInv, DatabaseFails, Acting, Ends, Trouble
<1>2. OnlyIts(r) /\ step'[r] = "done" /\ troubles' # 0
  BY <1>1, ActsAlone DEF StepTo, FilesTypeOK, FileManagerAssumption
<1>3. TrashPrepared(place', step'[r], ask'[r], target'[r], todo'[r]) /\ ~Calm'
  BY <1>2 DEF TrashPrepared, Calm
<1>4. QED
  BY <1>2, <1>3, TrashStep

LEMMA RestartsKeepRows ==
    ASSUME FileManagerAssumption, TrashInv, FilesInv', FilesRestart
    PROVE  TrashInv'
<1>1. /\ step' = [r \in FileRequest |-> IF Busy(r) THEN "done" ELSE step[r]]
      /\ UNCHANGED surprised /\ troubles' = troubles + 1 /\ FilesTypeOK
  BY DEF FilesRestart, Trouble, TrashInv, FilesInv
<1>2. \A r \in FileRequest : step'[r] \in {"idle", "done"} /\ (step'[r] = "idle" <=> step[r] = "idle")
  BY <1>1 DEF Busy
<1>3. TrashPreparedInv' /\ AimInv'
  BY <1>2 DEF TrashPreparedInv, TrashPrepared, AimInv
<1>4. ~Calm'
  <2>1. troubles' # 0
    BY <1>1 DEF FilesTypeOK, FileManagerAssumption
  <2>2. QED
    BY <2>1 DEF Calm
<1>5. \A r \in surprised' : step'[r] # "idle"
  BY <1>1, <1>2 DEF TrashInv, FilesTypeOK
<1>6. QED
  BY <1>3, <1>4, <1>5 DEF TrashInv

LEMMA TrashInitInv == FileManagerAssumption /\ FilesInit => TrashInv
<1> SUFFICES ASSUME FileManagerAssumption, FilesInit PROVE TrashInv
  OBVIOUS
<1>1. FilesInv
  BY FilesInitInv
<1>2. TrashPreparedInv /\ AimInv /\ \A r \in surprised : step[r] # "idle"
  BY DEF FilesInit, TrashPreparedInv, TrashPrepared, AimInv
<1>3. \A l \in Label : LiesIn(place, Bin, l) = {} <=> origin[l] = Nothing
  <2>1. TAKE l \in Label
  <2>2. origin[l] = IF LiesIn(place, Bin, l) = {} THEN Nothing ELSE <<Root, l>>
    BY OnPlace DEF FilesInit
  <2>3. <<Root, l>> # Nothing
    BY PathsOf DEF FileManagerAssumption
  <2>4. QED
    BY <2>2, <2>3
<1>4. Rows
  BY <1>3 DEF Rows
<1>5. QED
  BY <1>1, <1>2, <1>4 DEF TrashInv

LEMMA TrashStepInv == FileManagerAssumption /\ TrashInv /\ [FilesNext]_filesVars => TrashInv'
<1> SUFFICES ASSUME FileManagerAssumption, TrashInv, [FilesNext]_filesVars PROVE TrashInv'
  OBVIOUS
<1>1. FilesInv'
  BY FilesStepInv DEF TrashInv
<1>2. ASSUME NEW r \in FileRequest, NEW a \in Asks, Looking(r, a) PROVE TrashInv'
  BY <1>1, <1>2, LooksKeepRows
<1>3. ASSUME NEW r \in FileRequest, Acting(r) PROVE TrashInv'
  BY <1>1, <1>3, QuietKeepsRows, MovesKeepRows, RemovesKeepRows, ClearsKeepRows, MissesKeepRows, EmptiesKeepRows,
     RecordsKeepRows, ForgetsKeepRows, ForgettingKeepsRows, FailuresKeepRows DEF Acting
<1>4. CASE FilesRestart
  BY <1>1, <1>4, RestartsKeepRows
<1>5. CASE UNCHANGED filesVars
  BY <1>1, <1>5 DEF filesVars, TrashInv, TrashPreparedInv, AimInv, Calm, Trashing, Clearing, Op, Rows
<1>6. QED
  BY <1>2, <1>3, <1>4, <1>5 DEF FilesNext

\* When nobody is at work, each entry of the trash has its row, and each row its entry unless the
\* trash itself was deleted, whatever was trashed, restored, deleted and emptied before and unless
\* what else TrashHasRows excuses came in between.
THEOREM TrashIsRecorded == FileManagerAssumption => (FilesSpec => []TrashHasRows)
<1> SUFFICES ASSUME FileManagerAssumption PROVE FilesSpec => []TrashHasRows
  OBVIOUS
<1>1. FilesInit => TrashInv
  BY TrashInitInv
<1>2. TrashInv /\ [FilesNext]_filesVars => TrashInv'
  BY TrashStepInv
<1>3. TrashInv => TrashHasRows
  <2>1. SUFFICES ASSUME TrashInv, troubles = 0, \A r \in surprised : ~Trashing(r),
                        \A r \in FileRequest : /\ ~Busy(r)
                                               /\ step[r] # "idle" /\ ~Trashing(r) =>
                                                     ~InBin(ask[r].path) /\ ~InBin(ask[r].to),
                        NEW l \in Label
                 PROVE  /\ Lies(Bin, l) # {} => origin[l] # Nothing
                        /\ origin[l] # Nothing /\ (\A r \in FileRequest : ~Clearing(r)) => Lies(Bin, l) # {}
    BY DEF TrashHasRows
  <2>2. Rows
    BY <2>1 DEF TrashInv, Calm
  <2>3. \A r \in FileRequest : step[r] \in {"idle", "done"}
    BY <2>1 DEF Busy
  <2>4. Lies(Bin, l) = LiesIn(place, Bin, l)
    BY OnPlace
  <2>5. QED
    BY <2>2, <2>3, <2>4 DEF Rows
<1>4. QED
  BY <1>1, <1>2, <1>3, PTL DEF FilesSpec
================================================================================
