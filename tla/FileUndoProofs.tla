--------------------------- MODULE FileUndoProofs ---------------------------
(***************************************************************************)
(* What the file provider's undo gives back, for every forest of paths,    *)
(* every sequence of calls and every interference of other programs.  A    *)
(* receipt is tied to the two disks its call led from and to: undoing it   *)
(* on a disk like the second leaves one like the first, so an unwind walks *)
(* back, receipt by receipt, to the disk the run found.                    *)
(***************************************************************************)
EXTENDS FileUndo, TLAPS

Disk == [Paths -> Entries]
IsTree(d) == \A q \in Paths : d[q] # "absent" => \A r \in Above[q] : d[r] = "dir"

(* A disk like another: a directory may have stayed where there was none,    *)
(* and another program may have made a file where there was nothing.         *)
LikeAt(e, was) == \/ e = was
                  \/ e = "dir" /\ was # "dir"
                  \/ e = "foreign" /\ was = "absent"
Like(d, was) == \A q \in Paths : LikeAt(d[q], was[q])

-----------------------------------------------------------------------------
(* Paths and trees. *)

LEMMA LikeThrough ==
  ASSUME NEW a, NEW b, NEW c, LikeAt(a, b), LikeAt(b, c)
  PROVE  LikeAt(a, c)
BY DEF LikeAt

LEMMA PathFacts ==
  ASSUME NEW p \in Paths
  PROVE  /\ Above[p] \subseteq Paths /\ p \notin Above[p]
         /\ \A q \in Above[p] : Above[q] \subseteq Above[p] /\ p \notin Above[q]
         /\ Below(p) \subseteq Paths /\ p \notin Below(p) /\ Below(p) \cap Above[p] = {}
         /\ \A q \in Below(p) : p \in Above[q] /\ Above[p] \subseteq Above[q] /\ Below(q) \subseteq Below(p)
         /\ Tree(p) = {p} \cup Below(p) /\ Tree(p) \subseteq Paths
         /\ \A q \in Above[p], r \in Above[p] : q = r \/ q \in Above[r] \/ r \in Above[q]
         /\ IsFile(p)
<1>1. Above \in [Paths -> SUBSET Paths]
  BY PathsAssumption
<1>2. /\ Above[p] \subseteq Paths /\ p \notin Above[p]
      /\ \A q \in Above[p] : Above[q] \subseteq Above[p] /\ p \notin Above[q]
  BY <1>1, PathsAssumption
<1>3. /\ Below(p) \subseteq Paths /\ p \notin Below(p)
      /\ \A q \in Below(p) : p \in Above[q] /\ Above[p] \subseteq Above[q]
  BY <1>1, PathsAssumption DEF Below
<1>3a. Below(p) \cap Above[p] = {}
  BY <1>2 DEF Below
<1>4. \A q \in Below(p) : Below(q) \subseteq Below(p)
  BY <1>1, PathsAssumption DEF Below
<1>5. Tree(p) = {p} \cup Below(p) /\ Tree(p) \subseteq Paths
  BY <1>3 DEF Tree
<1>6. ASSUME NEW q \in Above[p], NEW r \in Above[p]
      PROVE  q = r \/ q \in Above[r] \/ r \in Above[q]
  <2>1. {q, r} \in (SUBSET Above[p]) \ {{}}
    OBVIOUS
  <2>2. \A ps \in (SUBSET Above[p]) \ {{}} : \E x \in ps : ps \subseteq Above[x] \cup {x}
    BY PathsAssumption
  <2>3. PICK x \in {q, r} : {q, r} \subseteq Above[x] \cup {x}
    <3> DEFINE pair == {q, r}
    <3>1. pair \in (SUBSET Above[p]) \ {{}}
      BY <2>1
    <3> HIDE DEF pair
    <3>2. \E x \in pair : pair \subseteq Above[x] \cup {x}
      BY <2>2, <3>1
    <3>3. QED
      BY <3>2 DEF pair
  <2>4. QED
    BY <2>3
<1>7. IsFile(p)
  BY PathsAssumption DEF IsFile
<1>8. QED
  BY <1>2, <1>3, <1>3a, <1>4, <1>5, <1>6, <1>7

LEMMA FreeBelow ==
  ASSUME NEW d, IsTree(d), NEW p \in Paths, d[p] # "dir"
  PROVE  \A q \in Below(p) : d[q] = "absent"
BY PathFacts DEF IsTree

LEMMA PutTree ==
  ASSUME NEW d \in Disk, IsTree(d), NEW p \in Paths, NEW e \in Entries,
         \A q \in Above[p] : d[q] = "dir", \A q \in Below(p) : d[q] = "absent"
  PROVE  [d EXCEPT ![p] = e] \in Disk /\ IsTree([d EXCEPT ![p] = e])
<1> DEFINE new == [d EXCEPT ![p] = e]
<1>1. new \in Disk /\ new[p] = e /\ \A q \in Paths : q # p => new[q] = d[q]
  BY DEF Disk
<1>2. ASSUME NEW q \in Paths, new[q] # "absent", NEW r \in Above[q] PROVE new[r] = "dir"
  <2>1. r \in Paths
    BY PathFacts
  <2>2. CASE q = p
    BY <1>1, <2>1, <2>2, PathFacts
  <2>3. CASE q # p
    <3>1. d[q] # "absent" /\ q \notin Below(p)
      BY <1>1, <1>2, <2>3
    <3>2. r # p
      BY <3>1 DEF Below
    <3>3. QED
      BY <1>1, <1>2, <2>1, <3>1, <3>2 DEF IsTree
  <2>4. QED
    BY <2>2, <2>3
<1>3. QED
  BY <1>1, <1>2 DEF IsTree

(* An entry with nothing below it goes. *)
LEMMA GoneTree ==
  ASSUME NEW d \in Disk, IsTree(d), NEW p \in Paths, \A q \in Below(p) : d[q] = "absent"
  PROVE  [d EXCEPT ![p] = "absent"] \in Disk /\ IsTree([d EXCEPT ![p] = "absent"])
<1> DEFINE new == [d EXCEPT ![p] = "absent"]
<1>1. new \in Disk /\ new[p] = "absent" /\ \A q \in Paths : q # p => new[q] = d[q]
  BY DEF Disk, Entries
<1>2. ASSUME NEW q \in Paths, new[q] # "absent", NEW r \in Above[q] PROVE new[r] = "dir"
  <2>1. r \in Paths /\ q # p /\ d[q] # "absent" /\ q \notin Below(p)
    BY <1>1, <1>2, PathFacts
  <2>2. r # p
    BY <2>1 DEF Below
  <2>3. QED
    BY <1>1, <1>2, <2>1, <2>2 DEF IsTree
<1>3. QED
  BY <1>1, <1>2 DEF IsTree

LEMMA ParentsTree ==
  ASSUME NEW d \in Disk, NEW p \in Paths
  PROVE  /\ WithParents(d, p) \in Disk
         /\ \A q \in Paths : WithParents(d, p)[q] =
              IF q \in Above[p] /\ d[q] = "absent" THEN "dir" ELSE d[q]
         /\ Reachable(d, p) => \A q \in Above[p] : WithParents(d, p)[q] = "dir"
         /\ Reachable(d, p) /\ IsTree(d) => IsTree(WithParents(d, p))
<1> DEFINE new == WithParents(d, p)
<1>1. /\ new \in Disk
      /\ \A q \in Paths : new[q] = IF q \in Above[p] /\ d[q] = "absent" THEN "dir" ELSE d[q]
  BY DEF WithParents, Disk, Entries
<1>2. ASSUME Reachable(d, p) PROVE \A q \in Above[p] : new[q] = "dir"
  BY <1>1, <1>2, PathFacts DEF Reachable, IsFile
<1>3. ASSUME Reachable(d, p), IsTree(d) PROVE IsTree(new)
  <2>1. ASSUME NEW q \in Paths, new[q] # "absent", NEW r \in Above[q] PROVE new[r] = "dir"
    <3>1. r \in Paths
      BY PathFacts
    <3>2. CASE q \in Above[p]
      BY <1>2, <1>3, <3>2, PathFacts
    <3>3. CASE q \notin Above[p]
      <4>1. d[r] = "dir"
        BY <1>1, <1>3, <2>1, <3>3 DEF IsTree
      <4>2. QED
        BY <1>1, <3>1, <4>1
    <3>4. QED
      BY <3>2, <3>3
  <2>2. QED
    BY <2>1 DEF IsTree
<1>4. QED
  BY <1>1, <1>2, <1>3

LEMMA AwayTree ==
  ASSUME NEW d \in Disk, NEW ps \in SUBSET Paths
  PROVE  /\ Without(d, ps) \in Disk
         /\ \A q \in Paths : Without(d, ps)[q] = IF q \in ps THEN "absent" ELSE d[q]
BY DEF Without, Disk, Entries

LEMMA AwayWhole ==
  ASSUME NEW d \in Disk, IsTree(d), NEW p \in Paths
  PROVE  IsTree(Without(d, Tree(p)))
<1> DEFINE new == Without(d, Tree(p))
<1>1. Tree(p) \in SUBSET Paths
  BY PathFacts
<1>2. \A q \in Paths : new[q] = IF q \in Tree(p) THEN "absent" ELSE d[q]
  BY <1>1, AwayTree
<1>3. ASSUME NEW q \in Paths, new[q] # "absent", NEW r \in Above[q] PROVE new[r] = "dir"
  <2>1. r \in Paths /\ q \notin Tree(p) /\ d[q] # "absent"
    BY <1>2, <1>3, PathFacts
  <2>2. r \notin Tree(p)
    BY <2>1, PathFacts DEF Below
  <2>3. QED
    BY <1>2, <1>3, <2>1, <2>2 DEF IsTree
<1>4. QED
  BY <1>3 DEF IsTree

(* pruneTowardBoundary leaves a tree, and of its chain only directories. *)
LEMMA PrunedTree ==
  ASSUME NEW d \in Disk, IsTree(d), NEW chain \in SUBSET Paths
  PROVE  /\ IsTree(Without(d, Removable(d, chain)))
         /\ \A q \in chain : Without(d, Removable(d, chain))[q] \in {"absent", "dir"}
         /\ Removable(d, chain) \in SUBSET Paths /\ Removable(d, chain) \subseteq chain
<1> DEFINE gone == Removable(d, chain)
           new  == Without(d, gone)
<1>1. gone \subseteq chain /\ gone \in SUBSET Paths
  BY DEF Removable
<1>2. \A q \in Paths : new[q] = IF q \in gone THEN "absent" ELSE d[q]
  BY <1>1, AwayTree
<1>3. ASSUME NEW q \in Paths, new[q] # "absent", NEW r \in Above[q] PROVE new[r] = "dir"
  <2>1. r \in Paths /\ q \notin gone /\ d[q] # "absent" /\ q \in Below(r)
    BY <1>2, <1>3, PathFacts DEF Below
  <2>2. d[r] = "dir"
    BY <1>3, <2>1 DEF IsTree
  <2>3. r \notin gone
    <3>1. SUFFICES ASSUME r \in gone PROVE FALSE
      OBVIOUS
    <3>2. q \in chain
      BY <2>1, <3>1 DEF Removable
    <3>3. PICK x \in Below(q) \ chain : d[x] # "absent"
      BY <2>1, <3>2 DEF Removable
    <3>4. x \in Below(r)
      BY <2>1, <3>3, PathFacts
    <3>5. QED
      BY <3>1, <3>3, <3>4 DEF Removable
  <2>4. QED
    BY <1>2, <2>1, <2>2, <2>3
<1>4. ASSUME NEW q \in chain PROVE new[q] \in {"absent", "dir"}
  <2>1. CASE q \in gone
    BY <1>2, <2>1
  <2>2. CASE q \notin gone
    <3>1. PICK x \in Below(q) \ chain : d[x] # "absent"
      BY <2>2 DEF Removable
    <3>2. x \in Paths /\ q \in Above[x]
      BY <3>1 DEF Below
    <3>3. d[q] = "dir"
      BY <3>1, <3>2 DEF IsTree
    <3>4. QED
      BY <1>2, <2>2, <3>3
  <2>3. QED
    BY <2>1, <2>2
<1>5. QED
  BY <1>1, <1>3, <1>4 DEF IsTree

(* findClosestExistingDir: nothing exists between a path and its boundary. *)
LEMMA BoundaryOf ==
  ASSUME NEW d \in Disk, NEW p \in Paths, NEW b, b = ClosestExisting(d, Above[p])
  PROVE  /\ b \in Above[p] \cup {Top} /\ b # None
         /\ Chain(Above[p], b) \subseteq Above[p]
         /\ Chain({p} \cup Above[p], b) = {p} \cup Chain(Above[p], b)
         /\ \A q \in Chain(Above[p], b) : d[q] = "absent"
         /\ IsTree(d) => \A q \in Above[p] \ Chain(Above[p], b) : d[q] # "absent"
         /\ IsTree(d) /\ d[p] # "absent" => Chain(Above[p], b) = {}
<1> DEFINE there == {q \in Above[p] : d[q] # "absent"}
<1>0. Above[p] \subseteq Paths /\ Top \notin Paths /\ None \notin Paths \cup {Top}
  BY PathFacts, PathsAssumption
<1>1. CASE there = {}
  <2>1. b = Top
    BY <1>1 DEF ClosestExisting
  <2>2. Chain(Above[p], b) = Above[p] /\ Chain({p} \cup Above[p], b) = {p} \cup Above[p]
    BY <2>1 DEF Chain
  <2>3. IsTree(d) /\ d[p] # "absent" => Above[p] = {}
    BY <1>1 DEF IsTree
  <2>4. QED
    BY <1>0, <1>1, <2>1, <2>2, <2>3
<1>2. CASE there # {}
  <2>1. there \in (SUBSET Above[p]) \ {{}}
    BY <1>2
  <2>2. \E q \in there : there \subseteq Above[q] \cup {q}
    <3> HIDE DEF there
    <3> QED  BY <2>1, PathsAssumption
  <2>3. b = CHOOSE q \in there : there \subseteq Above[q] \cup {q}
    BY <1>2 DEF ClosestExisting
  <2>4. b \in there /\ there \subseteq Above[b] \cup {b}
    <3> HIDE DEF there
    <3> QED  BY <2>2, <2>3
  <2>5. b \in Above[p] /\ b # Top /\ d[b] # "absent" /\ b \in Paths /\ b # p
    BY <1>0, <2>4, PathFacts
  <2>6. p \notin {b} \cup Above[b] /\ Above[b] \subseteq Above[p]
    BY <2>5, PathFacts
  <2>7. /\ Chain(Above[p], b) = Above[p] \ ({b} \cup Above[b])
        /\ Chain({p} \cup Above[p], b) = {p} \cup Chain(Above[p], b)
    BY <2>5, <2>6 DEF Chain
  <2>8. \A q \in Chain(Above[p], b) : d[q] = "absent"
    BY <2>4, <2>7
  <2>9. ASSUME IsTree(d), NEW q \in Above[p] \ Chain(Above[p], b) PROVE d[q] # "absent"
    BY <2>5, <2>7, <2>9 DEF IsTree
  <2>10. ASSUME IsTree(d), d[p] # "absent" PROVE Chain(Above[p], b) = {}
    <3>1. there = Above[p]
      BY <2>10 DEF IsTree
    <3>2. QED
      BY <2>4, <2>7, <3>1
  <2>11. QED
    BY <1>0, <2>5, <2>7, <2>8, <2>9, <2>10
<1>3. QED
  BY <1>1, <1>2
-----------------------------------------------------------------------------
(* What a call made of one disk, before, into another, after, when it      *)
(* handed out the receipt r and the archives were a.                       *)
MadeFile(before, after, r) ==
  /\ r.kind = "create_file" /\ r.source = None /\ r.id = 0
  /\ r.boundary \in Above[r.path] \cup {Top}
  /\ before[r.path] = "absent" /\ after[r.path] \in {"absent", "written", "link"}
  /\ \A q \in Chain(Above[r.path], r.boundary) : before[q] = "absent"
  /\ \A q \in Paths \ (Chain(Above[r.path], r.boundary) \cup {r.path}) : after[q] = before[q]
MadeOver(before, after, r, a) ==
  /\ r.kind \in {"update_file", "delete_file"} /\ r.source = None /\ r.boundary = None
  /\ r.id # 0 /\ a[r.id] = Snapshot(before, r.path)
  /\ before[r.path] # "absent" /\ after[r.path] \in {"absent", "written", "link"}
  /\ \A q \in Paths \ (Tree(r.path) \cup Above[r.path]) : after[q] = before[q]
MadeDir(before, after, r, a) ==
  LET chain == Chain({r.path} \cup Above[r.path], r.boundary)
  IN /\ r.kind = "create_dir" /\ r.source = None
     /\ r.boundary \in Above[r.path] \cup {Top}
     /\ after[r.path] \in {"absent", "dir"}
     /\ \A q \in chain \ {r.path} : before[q] = "absent"
     /\ \A q \in Paths \ chain : after[q] = before[q]
     /\ r.id = 0 => before[r.path] = "absent"
     /\ r.id # 0 => /\ chain = {r.path} /\ IsFile(before[r.path])
                    /\ a[r.id] = Snapshot(before, r.path)
MadeMove(before, after, r, a) ==
  /\ r.kind \in {"create_file", "update_file"}
  /\ r.source \in Paths \ (Tree(r.path) \cup Above[r.path])
  /\ IsFile(before[r.source]) /\ after[r.source] = "absent"
  /\ after[r.path] = before[r.source]
  /\ \A q \in Paths \ (Tree(r.path) \cup {r.source}) : LikeAt(after[q], before[q])
  /\ r.id = 0 => before[r.path] = "absent"
  /\ r.id # 0 => before[r.path] # "absent" /\ a[r.id] = Snapshot(before, r.path)
Made(before, after, r, a) ==
  MadeFile(before, after, r) \/ MadeOver(before, after, r, a)
    \/ MadeDir(before, after, r, a) \/ MadeMove(before, after, r, a)

(* A file the run found is on a disk; or in the archive a receipt names.     *)
OnDisk(d, c) == \E q \in Paths : d[q] = c
Archived(a, id, c) == id # 0 /\ \E q \in Paths : a[id][q] = c

(* What an undo of the receipt r may do to the archives.                     *)
OnlyArchive(a, id, b) ==
  /\ b \in Seq(Disk) /\ Len(b) = Len(a)
  /\ \A i \in 1..Len(a) : i # id => b[i] = a[i]

LEMMA PathNotNone ==
  ASSUME NEW p \in Paths PROVE p # None
BY PathsAssumption

LEMMA SnapshotIs ==
  ASSUME NEW d \in Disk, NEW p \in Paths
  PROVE  /\ Snapshot(d, p) \in Disk
         /\ \A q \in Paths : Snapshot(d, p)[q] = IF q \in Tree(p) THEN d[q] ELSE "absent"
         /\ d[p] # "absent" => Snapshot(d, p) # Blank
<1>1. /\ Snapshot(d, p) \in Disk
      /\ \A q \in Paths : Snapshot(d, p)[q] = IF q \in Tree(p) THEN d[q] ELSE "absent"
  BY DEF Snapshot, Disk, Entries
<1>2. Blank[p] = "absent" /\ p \in Tree(p)
  BY DEF Blank, Tree
<1>3. QED
  BY <1>1, <1>2

(* RestoreFile types. *)
LEMMA RestoredTyped ==
  ASSUME NEW d \in Disk, NEW r \in Receipts, archive \in Seq(Disk), r.id <= Len(archive)
  PROVE  /\ Restored(d, r).ok /\ Restored(d, r).disk \in Disk
         /\ OnlyArchive(archive, r.id, Restored(d, r).archive)
         /\ r.id = 0 => Restored(d, r) = Undone(TRUE, d, archive)
         /\ Restored(d, r) = Undone(TRUE, d, archive) \/ r.id # 0
<1>1. r.id \in Nat /\ r.path \in Paths
  BY DEF Receipts
<1>2. CASE r.id = 0 \/ archive[r.id] = Blank
  BY <1>2 DEF Restored, Undone, OnlyArchive
<1>3. CASE ~(r.id = 0 \/ archive[r.id] = Blank)
  <2>1. r.id \in 1..Len(archive) /\ archive[r.id] \in Disk
    BY <1>1, <1>3
  <2>2. Blank \in Disk
    BY DEF Blank, Disk, Entries
  <2> DEFINE tree == archive[r.id]
             new  == [q \in Paths |-> IF q \in Tree(r.path) THEN tree[q] ELSE WithParents(d, r.path)[q]]
             rest == [archive EXCEPT ![r.id] = Blank]
  <2>3. Restored(d, r) = Undone(TRUE, new, rest)
    BY <1>3 DEF Restored
  <2>4. new \in Disk
    <3>1. WithParents(d, r.path) \in Disk
      BY <1>1, ParentsTree
    <3>2. QED
      BY <2>1, <3>1 DEF Disk
  <2>5. OnlyArchive(archive, r.id, rest)
    BY <2>1, <2>2 DEF OnlyArchive
  <2>6. QED
    BY <1>3, <2>3, <2>4, <2>5 DEF Undone
<1>4. QED
  BY <1>2, <1>3

(* RestoreFile puts the tree it archived back where it was. *)
LEMMA RestoredBack ==
  ASSUME NEW before \in Disk, IsTree(before), NEW d \in Disk, IsTree(d),
         NEW r \in Receipts, archive \in Seq(Disk), r.id <= Len(archive), r.id # 0,
         archive[r.id] = Snapshot(before, r.path), before[r.path] # "absent",
         Reachable(d, r.path), \A q \in Tree(r.path) : d[q] = "absent"
  PROVE  /\ IsTree(Restored(d, r).disk)
         /\ \A q \in Tree(r.path) : Restored(d, r).disk[q] = before[q]
         /\ \A q \in Above[r.path] : Restored(d, r).disk[q] = "dir" /\ before[q] = "dir"
         /\ \A q \in Paths \ (Tree(r.path) \cup Above[r.path]) : Restored(d, r).disk[q] = d[q]
<1> DEFINE p    == r.path
           new  == Restored(d, r).disk
           wide == WithParents(d, p)
<1>1. p \in Paths /\ p \in Tree(p) /\ Tree(p) \subseteq Paths /\ Above[p] \subseteq Paths
  BY PathFacts DEF Receipts, Tree
<1>2. archive[r.id] # Blank
  BY <1>1, SnapshotIs
<1>3. \A q \in Paths : new[q] = IF q \in Tree(p) THEN archive[r.id][q] ELSE wide[q]
  BY <1>2 DEF Restored, Undone
<1>4. \A q \in Tree(p) : new[q] = before[q]
  BY <1>1, <1>3, SnapshotIs
<1>5. /\ IsTree(wide) /\ \A q \in Above[p] : wide[q] = "dir"
      /\ \A q \in Paths \ Above[p] : wide[q] = d[q]
  BY <1>1, ParentsTree
<1>6. \A q \in Above[p] : q \notin Tree(p) /\ new[q] = "dir" /\ before[q] = "dir"
  <2>1. \A q \in Above[p] : q \notin Tree(p)
    BY <1>1, PathFacts
  <2>2. \A q \in Above[p] : before[q] = "dir"
    BY <1>1 DEF IsTree
  <2>3. QED
    BY <1>1, <1>3, <1>5, <2>1, <2>2
<1>7. \A q \in Paths \ (Tree(p) \cup Above[p]) : new[q] = d[q]
  BY <1>3, <1>5
<1>8. ASSUME NEW q \in Paths, new[q] # "absent", NEW x \in Above[q] PROVE new[x] = "dir"
  <2>1. x \in Paths
    BY PathFacts
  <2>2. CASE q \in Tree(p)
    <3>1. before[x] = "dir"
      BY <1>4, <1>8, <2>2 DEF IsTree
    <3>2. CASE x \in Tree(p)
      BY <1>4, <3>1, <3>2
    <3>3. CASE x \notin Tree(p)
      <4>1. x \in Above[p]
        <5>1. CASE q = p
          BY <5>1
        <5>2. CASE q \in Below(p)
          <6>1. p \in Above[q]
            BY <5>2 DEF Below
          <6>2. x = p \/ x \in Above[p] \/ p \in Above[x]
            BY <6>1, PathFacts
          <6>3. QED
            BY <2>1, <3>3, <6>2 DEF Tree, Below
        <5>3. QED
          BY <2>2, <5>1, <5>2 DEF Tree
      <4>2. QED
        BY <1>6, <4>1
    <3>4. QED
      BY <3>2, <3>3
  <2>3. CASE q \notin Tree(p)
    <3>1. wide[x] = "dir"
      BY <1>3, <1>5, <1>8, <2>3 DEF IsTree
    <3>2. x \notin Tree(p)
      <4>1. x # p
        BY <2>3 DEF Tree, Below
      <4>2. x \notin Below(p)
        BY <1>1, <2>3, PathFacts DEF Tree, Below
      <4>3. QED
        BY <4>1, <4>2 DEF Tree
    <3>3. QED
      BY <1>3, <2>1, <3>1, <3>2
  <2>4. QED
    BY <2>2, <2>3
<1>9. QED
  BY <1>4, <1>6, <1>7, <1>8 DEF IsTree
-----------------------------------------------------------------------------
(* Undoing a receipt on a disk like the one its call left. *)
GivesBack(u, r, before) ==
  /\ u.disk \in Disk /\ IsTree(u.disk) /\ Like(u.disk, before)
  /\ OnlyArchive(archive, r.id, u.archive)
  /\ \A c \in Paths :
       OnDisk(disk, c) \/ Archived(archive, r.id, c)
         => OnDisk(u.disk, c) \/ Archived(u.archive, r.id, c)

(* A file the run found is like itself only. *)
LEMMA LikeFile ==
  ASSUME NEW c \in Paths, NEW was, LikeAt(c, was)
  PROVE  c = was
BY PathsAssumption DEF LikeAt

LEMMA FileUndoneNew ==
  ASSUME NEW before \in Disk, NEW after \in Disk, NEW r \in Receipts,
         IsTree(before), disk \in Disk, IsTree(disk), archive \in Seq(Disk), r.id <= Len(archive),
         MadeFile(before, after, r), Like(disk, after), CompensateWrite(r).ok
  PROVE  GivesBack(CompensateWrite(r), r, before)
<1> DEFINE p     == r.path
           chain == Chain(Above[p], r.boundary)
           one   == [disk EXCEPT ![p] = "absent"]
           gone  == Removable(one, chain)
           new   == Without(one, gone)
           u     == CompensateWrite(r)
<1>1. p \in Paths /\ Above[p] \subseteq Paths /\ p \notin Above[p] /\ None \notin Above[p] \cup {Top}
  BY PathFacts, PathsAssumption DEF Receipts
<1>2. chain \subseteq Above[p] /\ chain \in SUBSET Paths /\ p \notin chain
  BY <1>1 DEF Chain
<1>3. Reachable(disk, p) /\ Empty(disk, p)
  BY DEF CompensateWrite, Failed, Undone
<1>4. r.id = 0 /\ r.boundary # None
  BY <1>1 DEF MadeFile
<1>5. one \in Disk /\ IsTree(one)
  BY <1>1, <1>3, GoneTree DEF Empty
<1>6. u.disk = new /\ u.archive = archive
  BY <1>3, <1>4, <1>5, RestoredTyped DEF CompensateWrite, Undone
<1>7. one[p] = "absent" /\ \A q \in Paths : q # p => one[q] = disk[q]
  BY <1>1 DEF Disk
<1>8. /\ new \in Disk /\ IsTree(new) /\ \A q \in chain : new[q] \in {"absent", "dir"}
      /\ gone \subseteq chain
      /\ \A q \in Paths : new[q] = IF q \in gone THEN "absent" ELSE one[q]
  <2> HIDE DEF one, chain
  <2>1. /\ IsTree(new) /\ \A q \in chain : new[q] \in {"absent", "dir"}
        /\ gone \subseteq chain /\ gone \in SUBSET Paths
    BY <1>2, <1>5, PrunedTree
  <2>2. QED
    BY <1>5, <2>1, AwayTree
<1>9. ASSUME NEW q \in Paths PROVE LikeAt(new[q], before[q])
  <2>1. CASE q \in chain
    BY <1>8, <2>1 DEF MadeFile, LikeAt
  <2>2. CASE q = p
    <3>1. before[p] = "absent"
      BY DEF MadeFile
    <3>2. p \notin gone
      BY <1>2, <1>8
    <3> HIDE DEF new, one, gone, chain
    <3>3. QED
      BY <1>1, <1>7, <1>8, <2>2, <3>1, <3>2 DEF LikeAt
  <2>3. CASE q \notin chain \cup {p}
    <3>1. after[q] = before[q]
      BY <2>3 DEF MadeFile
    <3>2. LikeAt(disk[q], after[q])
      BY DEF Like
    <3> HIDE DEF new, one, gone, chain
    <3>3. QED
      BY <1>7, <1>8, <2>3, <3>1, <3>2
  <2>4. QED
    BY <2>1, <2>2, <2>3
<1>10. ASSUME NEW c \in Paths, OnDisk(disk, c) \/ Archived(archive, r.id, c) PROVE OnDisk(new, c)
  <2>1. PICK q \in Paths : disk[q] = c
    BY <1>4, <1>10 DEF OnDisk, Archived
  <2>2. q # p
    BY <2>1, LikeFile, PathsAssumption DEF Like, MadeFile
  <2>3. q \notin chain
    BY <1>2, <1>3, <2>1, PathFacts DEF Reachable
  <2>4. QED
    BY <1>7, <1>8, <2>1, <2>2, <2>3 DEF OnDisk
<1>11. OnlyArchive(archive, r.id, archive)
  BY DEF OnlyArchive
<1>12. QED
  BY <1>6, <1>8, <1>9, <1>10, <1>11 DEF GivesBack, Like

LEMMA FileUndoneOver ==
  ASSUME NEW before \in Disk, NEW after \in Disk, NEW r \in Receipts,
         IsTree(before), disk \in Disk, IsTree(disk), archive \in Seq(Disk), r.id <= Len(archive),
         MadeOver(before, after, r, archive), Like(disk, after), CompensateWrite(r).ok
  PROVE  GivesBack(CompensateWrite(r), r, before)
<1> DEFINE p    == r.path
           one  == [disk EXCEPT ![p] = "absent"]
           back == Restored(one, r)
           new  == back.disk
           u    == CompensateWrite(r)
<1>1. /\ p \in Paths /\ Above[p] \subseteq Paths /\ p \notin Above[p]
      /\ Tree(p) = {p} \cup Below(p) /\ Tree(p) \subseteq Paths /\ Below(p) \cap Above[p] = {}
      /\ p \notin Below(p)
  BY PathFacts DEF Receipts
<1>2. Reachable(disk, p) /\ Empty(disk, p)
  BY DEF CompensateWrite, Failed, Undone
<1>3. u = back
  BY <1>2 DEF CompensateWrite, MadeOver
<1>4. one \in Disk /\ IsTree(one)
  BY <1>1, <1>2, GoneTree DEF Empty
<1>5. one[p] = "absent" /\ \A q \in Paths : q # p => one[q] = disk[q]
  BY <1>1 DEF Disk
<1>6. Reachable(one, p) /\ \A q \in Tree(p) : one[q] = "absent"
  BY <1>1, <1>2, <1>5 DEF Reachable, Empty
<1>7. /\ IsTree(new) /\ \A q \in Tree(p) : new[q] = before[q]
      /\ \A q \in Above[p] : new[q] = "dir" /\ before[q] = "dir"
      /\ \A q \in Paths \ (Tree(p) \cup Above[p]) : new[q] = one[q]
  <2> HIDE DEF one
  <2>1. r.id # 0 /\ archive[r.id] = Snapshot(before, p) /\ before[p] # "absent"
    BY DEF MadeOver
  <2>2. QED
    BY <1>4, <1>6, <2>1, RestoredBack
<1>8. new \in Disk /\ OnlyArchive(archive, r.id, u.archive)
  BY <1>3, <1>4, RestoredTyped
<1>9. ASSUME NEW q \in Paths PROVE LikeAt(new[q], before[q])
  <2>1. CASE q \in Tree(p) \cup Above[p]
    BY <1>7, <2>1 DEF LikeAt
  <2>2. CASE q \notin Tree(p) \cup Above[p]
    BY <1>1, <1>5, <1>7, <2>2 DEF MadeOver, Like
  <2>3. QED
    BY <2>1, <2>2
<1>10. ASSUME NEW c \in Paths, OnDisk(disk, c) PROVE OnDisk(new, c)
  <2>1. PICK q \in Paths : disk[q] = c
    BY <1>10 DEF OnDisk
  <2>2. q # p
    BY <2>1, LikeFile, PathsAssumption DEF Like, MadeOver
  <2>3. q \notin Above[p] /\ q \notin Below(p)
    BY <1>2, <2>1, PathFacts DEF Reachable, Empty, IsFile
  <2>4. QED
    BY <1>1, <1>5, <1>7, <2>1, <2>2, <2>3 DEF OnDisk
<1>11. ASSUME NEW c \in Paths, Archived(archive, r.id, c) PROVE OnDisk(new, c)
  <2>1. PICK q \in Paths : Snapshot(before, p)[q] = c
    BY <1>11 DEF Archived, MadeOver
  <2>2. q \in Tree(p) /\ before[q] = c
    <3>1. Snapshot(before, p)[q] = IF q \in Tree(p) THEN before[q] ELSE "absent"
      BY <1>1, SnapshotIs
    <3>2. c # "absent"
      BY PathsAssumption
    <3>3. QED
      BY <2>1, <3>1, <3>2
  <2>3. QED
    BY <1>7, <2>1, <2>2 DEF OnDisk
<1>12. QED
  BY <1>3, <1>7, <1>8, <1>9, <1>10, <1>11 DEF GivesBack, Like

LEMMA DirUndone ==
  ASSUME NEW before \in Disk, NEW after \in Disk, NEW r \in Receipts,
         IsTree(before), disk \in Disk, IsTree(disk), archive \in Seq(Disk), r.id <= Len(archive),
         MadeDir(before, after, r, archive), Like(disk, after), CompensateMakeDir(r).ok
  PROVE  GivesBack(CompensateMakeDir(r), r, before)
<1> DEFINE p     == r.path
           chain == Chain({p} \cup Above[p], r.boundary)
           gone  == Removable(disk, chain)
           left  == Without(disk, gone)
           u     == CompensateMakeDir(r)
<1>1. /\ p \in Paths /\ Above[p] \subseteq Paths /\ p \notin Above[p]
      /\ Tree(p) = {p} \cup Below(p) /\ Tree(p) \subseteq Paths /\ Below(p) \cap Above[p] = {}
      /\ p \notin Below(p) /\ r.id \in Nat
  BY PathFacts DEF Receipts
<1>2. chain \subseteq {p} \cup Above[p] /\ chain \in SUBSET Paths /\ p \in chain
  <2>1. r.boundary = Top \/ r.boundary \in Above[p]
    BY DEF MadeDir
  <2>2. r.boundary # Top => p \notin {r.boundary} \cup Above[r.boundary]
    BY <1>1, <2>1, PathFacts
  <2>3. QED
    BY <1>1, <2>1, <2>2 DEF Chain
<1>3. Reachable(disk, p)
  BY DEF CompensateMakeDir, Failed, Undone
<1>4. /\ left \in Disk /\ IsTree(left) /\ \A q \in chain : left[q] \in {"absent", "dir"}
      /\ gone \subseteq chain
      /\ \A q \in Paths : left[q] = IF q \in gone THEN "absent" ELSE disk[q]
  <2> HIDE DEF chain
  <2>1. /\ IsTree(left) /\ \A q \in chain : left[q] \in {"absent", "dir"}
        /\ gone \subseteq chain /\ gone \in SUBSET Paths
    BY <1>2, PrunedTree
  <2>2. QED
    BY <2>1, AwayTree
<1>5. /\ \A q \in chain \ {p} : before[q] = "absent"
      /\ \A q \in Paths \ chain : after[q] = before[q]
      /\ r.id = 0 => before[p] = "absent"
      /\ r.id # 0 => chain = {p} /\ IsFile(before[p]) /\ archive[r.id] = Snapshot(before, p)
      /\ after[p] \in {"absent", "dir"}
  BY DEF MadeDir
<1>6. ASSUME NEW q \in Paths \ chain PROVE LikeAt(disk[q], before[q])
  BY <1>5, <1>6 DEF Like
<1>7. ASSUME NEW c \in Paths, OnDisk(disk, c)
      PROVE  \E q \in Paths \ (chain \cup {p} \cup Above[p]) : disk[q] = c
  <2>1. PICK q \in Paths : disk[q] = c
    BY <1>7 DEF OnDisk
  <2>2. q # p
    BY <1>5, <2>1, LikeFile, PathsAssumption DEF Like
  <2>3. q \notin Above[p]
    BY <1>3, <2>1, PathFacts DEF Reachable
  <2>4. QED
    BY <1>2, <2>1, <2>2, <2>3
<1>8. CASE r.id = 0
  <2>1. u.disk = left /\ u.archive = archive
    BY <1>3, <1>4, <1>8, RestoredTyped DEF CompensateMakeDir, Undone
  <2>2. ASSUME NEW q \in Paths PROVE LikeAt(left[q], before[q])
    <3>1. CASE q \in chain
      BY <1>4, <1>5, <1>8, <3>1 DEF LikeAt
    <3>2. CASE q \notin chain
      BY <1>4, <1>6, <3>2
    <3>3. QED
      BY <3>1, <3>2
  <2>3. ASSUME NEW c \in Paths, OnDisk(disk, c) \/ Archived(archive, r.id, c) PROVE OnDisk(left, c)
    <3>1. OnDisk(disk, c)
      BY <1>8, <2>3 DEF Archived
    <3>2. PICK q \in Paths \ (chain \cup {p} \cup Above[p]) : disk[q] = c
      BY <1>7, <3>1
    <3>3. left[q] = c
      <4> HIDE DEF left, gone, chain
      <4> QED  BY <1>4, <3>2
    <3>4. QED
      BY <3>3 DEF OnDisk
  <2>4. QED
    BY <1>4, <2>1, <2>2, <2>3 DEF GivesBack, Like, OnlyArchive
<1>9. CASE r.id # 0 /\ gone # chain
  <2>1. u.disk = left /\ u.archive = archive
    BY <1>3, <1>9 DEF CompensateMakeDir, Undone
  <2>2. chain = {p} /\ gone = {} /\ before[p] # "dir" /\ IsFile(before[p])
    <3>1. chain = {p} /\ IsFile(before[p])
      BY <1>5, <1>9
    <3>2. gone \subseteq {p} /\ gone # {p}
      BY <1>4, <1>9, <3>1
    <3>3. gone = {}
      BY <3>2
    <3>4. QED
      BY <3>1, <3>3 DEF IsFile
  <2>3. \A q \in Paths : left[q] = disk[q]
    BY <1>4, <2>2
  <2>4. disk[p] = "dir"
    <3>1. p \notin gone
      BY <2>2
    <3>2. PICK x \in Below(p) \ chain : disk[x] # "absent"
      BY <1>2, <3>1 DEF Removable
    <3>3. QED
      BY <3>2 DEF IsTree, Below
  <2>5. ASSUME NEW q \in Paths PROVE LikeAt(left[q], before[q])
    BY <1>6, <2>2, <2>3, <2>4 DEF LikeAt
  <2>6. \A c \in Paths : OnDisk(disk, c) => OnDisk(left, c)
    BY <2>3 DEF OnDisk
  <2>7. QED
    BY <1>4, <2>1, <2>5, <2>6 DEF GivesBack, Like, OnlyArchive
<1>10. CASE r.id # 0 /\ gone = chain
  <2> DEFINE new == Restored(left, r).disk
  <2>1. u = Restored(left, r)
    BY <1>3, <1>10 DEF CompensateMakeDir
  <2>2. chain = {p} /\ IsFile(before[p]) /\ archive[r.id] = Snapshot(before, p)
    BY <1>5, <1>10
  <2>3. left[p] = "absent" /\ \A q \in Paths : q # p => left[q] = disk[q]
    BY <1>1, <1>4, <1>10, <2>2
  <2>4. \A q \in Below(p) : left[q] = "absent"
    <3>1. p \in Removable(disk, {p})
      BY <1>10, <2>2
    <3>2. \A q \in Below(p) : disk[q] = "absent"
      BY <1>1, <3>1 DEF Removable
    <3>3. QED
      BY <1>1, <2>3, <3>2
  <2>5. Reachable(left, p)
    BY <1>1, <1>3, <2>3 DEF Reachable
  <2>6. \A q \in Tree(p) : left[q] = "absent"
    BY <1>1, <2>3, <2>4
  <2>7. before[p] # "absent"
    BY <2>2 DEF IsFile
  <2>8. /\ IsTree(new) /\ \A q \in Tree(p) : new[q] = before[q]
        /\ \A q \in Above[p] : new[q] = "dir" /\ before[q] = "dir"
        /\ \A q \in Paths \ (Tree(p) \cup Above[p]) : new[q] = left[q]
    <3> HIDE DEF left
    <3> QED  BY <1>4, <1>10, <2>2, <2>5, <2>6, <2>7, RestoredBack
  <2>9. new \in Disk /\ OnlyArchive(archive, r.id, u.archive)
    <3> HIDE DEF left
    <3> QED  BY <1>4, <2>1, RestoredTyped
  <2>10. ASSUME NEW q \in Paths PROVE LikeAt(new[q], before[q])
    <3>1. CASE q \in Tree(p) \cup Above[p]
      BY <2>8, <3>1 DEF LikeAt
    <3>2. CASE q \notin Tree(p) \cup Above[p]
      BY <1>1, <1>6, <2>2, <2>3, <2>8, <3>2
    <3>3. QED
      BY <3>1, <3>2
  <2>11. ASSUME NEW c \in Paths, OnDisk(disk, c) PROVE OnDisk(new, c)
    <3>1. PICK q \in Paths \ ({p} \cup Above[p]) : disk[q] = c
      BY <1>7, <2>11
    <3>2. c # "absent"
      BY PathsAssumption
    <3>3. left[q] = disk[q] /\ q # p
      BY <2>3, <3>1
    <3>4. q \notin Below(p)
      BY <2>4, <3>1, <3>2, <3>3
    <3>5. QED
      BY <1>1, <2>8, <3>1, <3>3, <3>4 DEF OnDisk
  <2>12. ASSUME NEW c \in Paths, Archived(archive, r.id, c) PROVE OnDisk(new, c)
    <3>1. PICK q \in Paths : Snapshot(before, p)[q] = c
      BY <2>2, <2>12 DEF Archived
    <3>2. Snapshot(before, p)[q] = IF q \in Tree(p) THEN before[q] ELSE "absent"
      BY <1>1, SnapshotIs
    <3>3. c # "absent"
      BY PathsAssumption
    <3>4. QED
      BY <2>8, <3>1, <3>2, <3>3 DEF OnDisk
  <2>13. QED
    BY <2>1, <2>8, <2>9, <2>10, <2>11, <2>12 DEF GivesBack, Like
<1>11. QED
  BY <1>8, <1>9, <1>10

LEMMA MoveUndone ==
  ASSUME NEW before \in Disk, NEW after \in Disk, NEW r \in Receipts,
         IsTree(before), disk \in Disk, IsTree(disk), archive \in Seq(Disk), r.id <= Len(archive),
         MadeMove(before, after, r, archive), Like(disk, after), CompensateMove(r).ok
  PROVE  GivesBack(CompensateMove(r), r, before)
<1> DEFINE p    == r.path
           s    == r.source
           e    == disk[p]
           bare == [disk EXCEPT ![p] = "absent"]
           back == [disk EXCEPT ![s] = e, ![p] = "absent"]
           new  == Restored(back, r).disk
           u    == CompensateMove(r)
<1>1. /\ p \in Paths /\ Above[p] \subseteq Paths /\ p \notin Above[p]
      /\ Tree(p) = {p} \cup Below(p) /\ Tree(p) \subseteq Paths /\ Below(p) \cap Above[p] = {}
      /\ p \notin Below(p) /\ r.id \in Nat
  BY PathFacts DEF Receipts
<1>2. /\ s \in Paths /\ s # p /\ s \notin Below(p) /\ s \notin Above[p]
      /\ IsFile(before[s]) /\ after[s] = "absent" /\ after[p] = before[s]
      /\ \A q \in Paths \ (Tree(p) \cup {s}) : LikeAt(after[q], before[q])
      /\ r.id = 0 => before[p] = "absent"
      /\ r.id # 0 => before[p] # "absent" /\ archive[r.id] = Snapshot(before, p)
  BY <1>1 DEF MadeMove
<1>3. /\ e # "absent" /\ Empty(disk, p) /\ Gives(disk, e, s)
      /\ \A q \in Above[s] : disk[q] = "dir"
      /\ u = Restored(back, r)
  BY DEF CompensateMove, Failed, Undone
<1>4. e \in Entries /\ LikeAt(e, before[s])
  BY <1>1, <1>2 DEF Like, Disk
<1>5. bare \in Disk /\ IsTree(bare)
  BY <1>1, <1>3, GoneTree DEF Empty
<1>6. bare[p] = "absent" /\ \A q \in Paths : q # p => bare[q] = disk[q]
  BY <1>1 DEF Disk
<1>7. \A q \in Above[s] : bare[q] = "dir"
  <2>1. p \notin Above[s]
    BY <1>2 DEF Below
  <2>2. QED
    BY <1>2, <1>3, <1>6, <2>1, PathFacts
<1>8. \A q \in Below(s) : bare[q] = "absent"
  <2>1. \A q \in Below(s) : disk[q] = "absent"
    <3>1. CASE disk[s] # "dir"
      BY <1>2, <3>1, FreeBelow
    <3>2. CASE disk[s] = "dir"
      BY <1>3, <3>2 DEF Gives, IsFile, Empty
    <3>3. QED
      BY <3>1, <3>2
  <2>2. QED
    BY <1>2, <1>6, <2>1, PathFacts
<1>9. back \in Disk /\ IsTree(back)
  <2>1. back = [bare EXCEPT ![s] = e]
    BY <1>2 DEF Disk
  <2>2. QED
    <3> HIDE DEF back, bare, e
    <3> QED  BY <1>2, <1>4, <1>5, <1>7, <1>8, <2>1, PutTree
<1>10. /\ back[p] = "absent" /\ back[s] = e
       /\ \A q \in Paths : q # p /\ q # s => back[q] = disk[q]
  BY <1>1, <1>2 DEF Disk
<1>11. \A q \in Above[p] : back[q] = "dir" /\ q # s
  <2>1. \A q \in Above[p] : disk[q] = "dir" /\ q # s /\ q # p
    BY <1>1, <1>2, <1>3 DEF IsTree
  <2>2. QED
    <3> HIDE DEF back, s, p
    <3> QED  BY <1>1, <1>10, <2>1
<1>12. \A q \in Below(p) : back[q] = "absent" /\ disk[q] = "absent"
  <2>1. \A q \in Below(p) : disk[q] = "absent" /\ q # s /\ q # p
    BY <1>1, <1>2, <1>3 DEF Empty
  <2>2. QED
    <3> HIDE DEF back, s, p
    <3> QED  BY <1>1, <1>10, <2>1
<1>13. /\ IsTree(new) /\ \A q \in Tree(p) : LikeAt(new[q], before[q])
       /\ \A q \in Paths \ Tree(p) : new[q] = back[q]
       /\ \A c \in Paths : Archived(archive, r.id, c) => OnDisk(new, c)
  <2>1. CASE r.id = 0
    <3>1. new = back
      BY <1>9, <2>1, RestoredTyped DEF Undone
    <3>2. \A q \in Below(p) : before[q] = "absent"
      BY <1>1, <1>2, <2>1, FreeBelow
    <3>3. \A q \in Tree(p) : back[q] = "absent" /\ before[q] = "absent"
      BY <1>1, <1>2, <1>10, <1>12, <2>1, <3>2
    <3> HIDE DEF back
    <3>4. QED
      BY <1>9, <2>1, <3>1, <3>3 DEF LikeAt, Archived
  <2>2. CASE r.id # 0
    <3>1. Reachable(back, p)
      BY <1>11 DEF Reachable, IsFile
    <3>2. \A q \in Tree(p) : back[q] = "absent"
      BY <1>1, <1>10, <1>12
    <3>3. before[p] # "absent" /\ archive[r.id] = Snapshot(before, p)
      BY <1>2, <2>2
    <3>4. /\ IsTree(new) /\ \A q \in Tree(p) : new[q] = before[q]
          /\ \A q \in Above[p] : new[q] = "dir" /\ before[q] = "dir"
          /\ \A q \in Paths \ (Tree(p) \cup Above[p]) : new[q] = back[q]
      <4> HIDE DEF back
      <4> QED  BY <1>9, <2>2, <3>1, <3>2, <3>3, RestoredBack
    <3>5. ASSUME NEW c \in Paths, Archived(archive, r.id, c) PROVE OnDisk(new, c)
      <4>1. PICK q \in Paths : Snapshot(before, p)[q] = c
        BY <3>3, <3>5 DEF Archived
      <4>2. Snapshot(before, p)[q] = IF q \in Tree(p) THEN before[q] ELSE "absent"
        BY <1>1, SnapshotIs
      <4>3. c # "absent"
        BY PathsAssumption
      <4>4. QED
        BY <3>4, <4>1, <4>2, <4>3 DEF OnDisk
    <3>6. QED
      BY <1>11, <3>4, <3>5 DEF LikeAt
  <2>3. QED
    BY <2>1, <2>2
<1>14. new \in Disk /\ OnlyArchive(archive, r.id, u.archive)
  <2> HIDE DEF back
  <2> QED  BY <1>3, <1>9, RestoredTyped
<1>15. ASSUME NEW q \in Paths PROVE LikeAt(new[q], before[q])
  <2>1. CASE q \in Tree(p)
    BY <1>13, <2>1
  <2>2. CASE q = s
    BY <1>1, <1>2, <1>4, <1>10, <1>13, <2>2
  <2>3. CASE q \notin Tree(p) \cup {s}
    <3>1. new[q] = disk[q]
      BY <1>1, <1>10, <1>13, <2>3
    <3>2. LikeAt(disk[q], after[q]) /\ LikeAt(after[q], before[q])
      BY <1>2, <2>3 DEF Like
    <3>3. QED
      BY <3>1, <3>2, LikeThrough
  <2>4. QED
    BY <2>1, <2>2, <2>3
<1>16. ASSUME NEW c \in Paths, OnDisk(disk, c) PROVE OnDisk(new, c)
  <2>1. PICK q \in Paths : disk[q] = c
    BY <1>16 DEF OnDisk
  <2>2. CASE q = p
    BY <1>1, <1>2, <1>10, <1>13, <2>1, <2>2 DEF OnDisk
  <2>3. CASE q # p
    <3>1. q # s
      BY <1>2, <2>1, LikeFile, PathsAssumption DEF Like
    <3>2. q \notin Below(p)
      BY <1>12, <2>1, PathsAssumption
    <3>3. QED
      BY <1>1, <1>10, <1>13, <2>1, <2>3, <3>1, <3>2 DEF OnDisk
  <2>4. QED
    BY <2>2, <2>3
<1>17. QED
  BY <1>3, <1>13, <1>14, <1>15, <1>16 DEF GivesBack, Like

LEMMA GivesBackWhole ==
  ASSUME NEW before \in Disk, NEW after \in Disk, NEW r \in Receipts,
         IsTree(before), disk \in Disk, IsTree(disk), archive \in Seq(Disk), r.id <= Len(archive),
         Made(before, after, r, archive), Like(disk, after), CompensateFileMutation(r).ok
  PROVE  GivesBack(CompensateFileMutation(r), r, before)
<1>1. CASE r.kind = "create_dir"
  <2>1. MadeDir(before, after, r, archive)
    BY <1>1 DEF Made, MadeFile, MadeOver, MadeMove
  <2>2. CompensateFileMutation(r) = CompensateMakeDir(r)
    BY <1>1, <2>1 DEF CompensateFileMutation, MadeDir
  <2>3. QED
    BY <2>1, <2>2, DirUndone
<1>2. CASE r.kind # "create_dir" /\ r.source # None
  <2>1. MadeMove(before, after, r, archive)
    BY <1>2 DEF Made, MadeFile, MadeOver, MadeDir
  <2>2. CompensateFileMutation(r) = CompensateMove(r)
    BY <1>2 DEF CompensateFileMutation
  <2>3. QED
    BY <2>1, <2>2, MoveUndone
<1>3. CASE r.kind # "create_dir" /\ r.source = None
  <2>1. MadeFile(before, after, r) \/ MadeOver(before, after, r, archive)
    BY <1>3, PathNotNone DEF Made, MadeDir, MadeMove
  <2>2. CompensateFileMutation(r) = CompensateWrite(r)
    BY <1>3 DEF CompensateFileMutation
  <2>3. QED
    BY <2>1, <2>2, FileUndoneNew, FileUndoneOver
<1>4. QED
  BY <1>1, <1>2, <1>3
-----------------------------------------------------------------------------
(* Types; and until another program interferes nothing is foreign.         *)
Seen == IF used.outside = 0 THEN Entries \ {"foreign"} ELSE Entries
Boundaries ==
  \A i \in 1..Len(journal) :
    /\ journal[i].boundary \in Above[journal[i].path] \cup {Top, None}
    /\ journal[i].kind = "create_dir" => journal[i].boundary # None
IdsApart ==
  \A i, j \in 1..Len(journal) : i < j /\ journal[i].id # 0 => journal[i].id # journal[j].id
PhasesOf ==
  /\ phase = "running" => used.unwinds = 0 /\ ~failed
  /\ phase # "running" => used.unwinds > 0
  /\ phase = "clean" => ~failed /\ cursor = 0
Kinds ==
  /\ TypeOK /\ Boundaries /\ IdsApart /\ PhasesOf
  /\ disk \in [Paths -> Seen] /\ archive \in Seq([Paths -> Seen])

LEMMA SeenFacts ==
  /\ {"absent", "dir", "written", "link"} \cup Paths \subseteq Seen /\ Seen \subseteq Entries
  /\ \A d \in [Paths -> Seen] : d \in Disk
  /\ Seq([Paths -> Seen]) \subseteq Seq(Disk)
<1>1. {"absent", "dir", "written", "link"} \cup Paths \subseteq Seen /\ Seen \subseteq Entries
  BY PathsAssumption DEF Seen, Entries
<1>2. [Paths -> Seen] \subseteq Disk
  BY <1>1 DEF Disk
<1>3. QED
  BY <1>1, <1>2

LEMMA KindsStored ==
  ASSUME Kinds
  PROVE  disk \in Disk /\ archive \in Seq(Disk)
BY SeenFacts DEF Kinds

(* What every call spends, and what it leaves alone. *)
Spent ==
  /\ phase = "running" /\ UNCHANGED Unwound
  /\ used' \in [{"ops", "faults", "outside", "unwinds", "reloads"} -> Nat]
  /\ used'.ops = used.ops + 1 /\ used.ops < MaxOps
  /\ used'.outside = used.outside /\ used'.unwinds = used.unwinds /\ used'.reloads = used.reloads
Stored ==
  /\ disk' \in [Paths -> Seen] /\ archive' \in Seq([Paths -> Seen])
  /\ Len(archive) <= Len(archive') /\ Len(archive') <= Len(archive) + 1
  /\ \A i \in 1..Len(archive) : archive'[i] = archive[i]
  /\ IsTree(disk) => IsTree(disk')
(* The call handed out the receipt r; or none.                             *)
Receipted(r) ==
  /\ Journal(r) /\ r.id <= Len(archive') /\ (r.id = 0 \/ r.id > Len(archive))
  /\ r.boundary \in Above[r.path] \cup {Top, None}
  /\ r.kind = "create_dir" => r.boundary # None
  /\ IsTree(disk) =>
       /\ Made(disk, disk', r, archive')
       /\ \A c \in Paths : OnDisk(disk, c) => OnDisk(disk', c) \/ Archived(archive', r.id, c)
Unreceipted ==
  /\ UNCHANGED journal
  /\ Like(disk', disk)
  /\ \A c \in Paths : OnDisk(disk, c) => OnDisk(disk', c)
CallDone ==
  Spent /\ Stored /\ (Unreceipted \/ \E r \in Receipts : Receipted(r))

LEMMA CallSpends ==
  ASSUME Kinds, NEW op, NEW f, Calling(op, f), UNCHANGED Unwound
  PROVE  Spent
<1>1. used \in [{"ops", "faults", "outside", "unwinds", "reloads"} -> Nat]
  BY DEF Kinds, TypeOK
<1>2. PICK n \in Nat : used' = [used EXCEPT !.ops = @ + 1, !.faults = @ + n]
  <2> DEFINE n == IF f = "none" THEN 0 ELSE 1
  <2>1. n \in Nat /\ used' = [used EXCEPT !.ops = @ + 1, !.faults = @ + n]
    BY DEF Calling, Spend
  <2>2. QED
    BY <2>1
<1>3. used' \in [{"ops", "faults", "outside", "unwinds", "reloads"} -> Nat]
  <2> DEFINE x == used.ops + 1
             y == used.faults + n
             Bs == {"ops", "faults", "outside", "unwinds", "reloads"}
  <2>1. x \in Nat /\ y \in Nat
    BY <1>1
  <2>2. used' = [[used EXCEPT !["ops"] = x] EXCEPT !["faults"] = y]
    BY <1>1, <1>2
  <2>3. used \in [Bs -> Nat]
    BY <1>1
  <2> HIDE DEF x, y, Bs
  <2>4. used' \in [Bs -> Nat]
    BY <2>1, <2>2, <2>3
  <2>5. QED
    BY <2>4 DEF Bs
<1>4. used'.ops = used.ops + 1 /\ used'.outside = used.outside
  BY <1>1, <1>2
<1>5. used'.unwinds = used.unwinds /\ used'.reloads = used.reloads
  BY <1>1, <1>2
<1>6. phase = "running" /\ used.ops < MaxOps
  BY DEF Calling
<1>7. QED
  BY <1>3, <1>4, <1>5, <1>6 DEF Spent

LEMMA ArchiveIs ==
  ASSUME Kinds, used.ops < MaxOps, NEW p \in Paths, Archive(p)
  PROVE  /\ archive' \in Seq([Paths -> Seen]) /\ Len(archive') = Len(archive) + 1
         /\ archive'[NextId] = Snapshot(disk, p)
         /\ \A i \in 1..Len(archive) : archive'[i] = archive[i]
         /\ NextId \in 0..MaxOps /\ NextId # 0 /\ NextId = Len(archive')
<1>1. Snapshot(disk, p) \in [Paths -> Seen]
  BY SeenFacts DEF Snapshot, Kinds
<1>2. /\ archive \in Seq([Paths -> Seen]) /\ Len(archive) \in Nat
      /\ Len(archive) <= used.ops /\ used.ops \in Nat /\ MaxOps \in Nat
  BY BoundsAssumption DEF Kinds, TypeOK
<1>3. archive' = Append(archive, Snapshot(disk, p))
  BY DEF Archive
<1>4. QED
  <2> DEFINE x == Snapshot(disk, p)
  <2> HIDE DEF x
  <2>1. x \in [Paths -> Seen] /\ archive' = Append(archive, x)
    BY <1>1, <1>3 DEF x
  <2>2. QED
    <3> DEFINE W == [Paths -> Seen]
    <3> HIDE DEF W
    <3>1. archive \in Seq(W) /\ x \in W /\ archive' = Append(archive, x)
      BY <1>2, <2>1 DEF W
    <3>2. /\ archive' \in Seq(W) /\ Len(archive') = Len(archive) + 1
          /\ archive'[Len(archive) + 1] = x
          /\ \A i \in 1..Len(archive) : archive'[i] = archive[i]
      BY <3>1
    <3>3. QED
      BY <1>2, <3>2 DEF W, x, NextId

(* What displaced a tree archived it. *)
LEMMA DisplacedKept ==
  ASSUME disk \in Disk, IsTree(disk), NEW p \in Paths, disk[p] # "absent", NEW new,
         \A q \in Paths \ (Tree(p) \cup Above[p]) : new[q] = disk[q],
         NEW a, NEW id, id # 0, a[id] = Snapshot(disk, p)
  PROVE  \A c \in Paths : OnDisk(disk, c) => OnDisk(new, c) \/ Archived(a, id, c)
<1> SUFFICES ASSUME NEW c \in Paths, NEW q \in Paths, disk[q] = c
             PROVE  OnDisk(new, c) \/ Archived(a, id, c)
  BY DEF OnDisk
<1>1. CASE q \in Tree(p)
  <2>1. a[id][q] = c
    BY <1>1, SnapshotIs
  <2>2. QED
    BY <2>1 DEF Archived
<1>2. CASE q \in Above[p]
  BY <1>2, PathsAssumption DEF IsTree
<1>3. CASE q \notin Tree(p) \cup Above[p]
  BY <1>3 DEF OnDisk
<1>4. QED
  BY <1>1, <1>2, <1>3

(* A call over an occupied path, which archived what stood there. *)
LEMMA OverDone ==
  ASSUME Kinds, Spent, NEW p \in Paths, NEW kind \in {"update_file", "delete_file"},
         disk[p] # "absent", Archive(p), Journal(Receipt(kind, p, None, None, NextId)),
         disk' \in [Paths -> Seen], IsTree(disk) => IsTree(disk'),
         disk'[p] \in {"absent", "written", "link"},
         \A q \in Paths \ (Tree(p) \cup Above[p]) : disk'[q] = disk[q]
  PROVE  CallDone
<1> DEFINE r == Receipt(kind, p, None, None, NextId)
<1>1. /\ archive' \in Seq([Paths -> Seen]) /\ Len(archive') = Len(archive) + 1
      /\ archive'[NextId] = Snapshot(disk, p)
      /\ \A i \in 1..Len(archive) : archive'[i] = archive[i]
      /\ NextId \in 0..MaxOps /\ NextId # 0 /\ NextId = Len(archive')
  BY ArchiveIs DEF Spent
<1>2. /\ r \in Receipts /\ r.kind = kind /\ r.path = p /\ r.source = None
      /\ r.boundary = None /\ r.id = NextId
  BY <1>1 DEF Receipt, Receipts
<1>3. Len(archive) \in Nat
  BY DEF Kinds
<1>4. Stored
  BY <1>1, <1>3 DEF Stored
<1>5. ASSUME IsTree(disk)
      PROVE  /\ Made(disk, disk', r, archive')
             /\ \A c \in Paths : OnDisk(disk, c) => OnDisk(disk', c) \/ Archived(archive', r.id, c)
  <2>1. MadeOver(disk, disk', r, archive')
    <3> HIDE DEF r
    <3> QED  BY <1>1, <1>2 DEF MadeOver
  <2>2. \A c \in Paths : OnDisk(disk, c) => OnDisk(disk', c) \/ Archived(archive', NextId, c)
    BY <1>1, <1>5, KindsStored, DisplacedKept
  <2>3. QED
    BY <1>2, <2>1, <2>2 DEF Made
<1>6. Receipted(r)
  <2>1. Journal(r)
    OBVIOUS
  <2> HIDE DEF r
  <2>2. r.id <= Len(archive') /\ r.id > Len(archive) /\ r.kind # "create_dir"
    BY <1>1, <1>2, <1>3
  <2>3. QED
    BY <1>2, <1>5, <2>1, <2>2 DEF Receipted
<1>7. QED
  BY <1>2, <1>4, <1>6 DEF CallDone

(* Making the parents changes nothing but missing directories. *)
LEMMA Widened ==
  ASSUME Kinds, NEW p \in Paths
  PROVE  /\ WithParents(disk, p) \in [Paths -> Seen] /\ WithParents(disk, p) \in Disk
         /\ Like(WithParents(disk, p), disk)
         /\ \A c \in Paths : OnDisk(disk, c) => OnDisk(WithParents(disk, p), c)
<1>1. \A q \in Paths : WithParents(disk, p)[q] =
        IF q \in Above[p] /\ disk[q] = "absent" THEN "dir" ELSE disk[q]
  BY DEF WithParents
<1>2. WithParents(disk, p) \in [Paths -> Seen]
  BY SeenFacts DEF WithParents, Kinds
<1>3. Like(WithParents(disk, p), disk)
  BY <1>1 DEF Like, LikeAt
<1>4. ASSUME NEW c \in Paths, OnDisk(disk, c) PROVE OnDisk(WithParents(disk, p), c)
  <2>1. PICK q \in Paths : disk[q] = c
    BY <1>4 DEF OnDisk
  <2>2. WithParents(disk, p)[q] = c
    BY <1>1, <2>1, PathsAssumption
  <2>3. QED
    BY <2>2 DEF OnDisk
<1>5. QED
  BY <1>2, <1>3, <1>4, SeenFacts

LEMMA StagedNew ==
  ASSUME Kinds, NEW p \in Paths, disk[p] = "absent", Reachable(disk, p),
         NEW e \in Seen
  PROVE  LET new == [WithParents(disk, p) EXCEPT ![p] = e]
         IN /\ new \in [Paths -> Seen] /\ new[p] = e
            /\ IsTree(disk) => IsTree(new)
            /\ IsTree(disk) =>
                 \A q \in Paths \ (Chain(Above[p], ClosestExisting(disk, Above[p])) \cup {p}) :
                   new[q] = disk[q]
            /\ \A q \in Paths : disk[q] # "absent" => new[q] = disk[q]
<1> DEFINE new == [WithParents(disk, p) EXCEPT ![p] = e]
           wide == WithParents(disk, p)
           chain == Chain(Above[p], ClosestExisting(disk, Above[p]))
<1>1. /\ wide \in [Paths -> Seen] /\ wide \in Disk
      /\ \A q \in Paths : wide[q] = IF q \in Above[p] /\ disk[q] = "absent" THEN "dir" ELSE disk[q]
      /\ \A q \in Above[p] : wide[q] = "dir"
      /\ IsTree(disk) => IsTree(wide)
  BY Widened, ParentsTree, KindsStored
<1>0. new = [wide EXCEPT ![p] = e]
  OBVIOUS
<1>2. new \in [Paths -> Seen] /\ new[p] = e /\ \A q \in Paths : q # p => new[q] = wide[q]
  <2> HIDE DEF wide
  <2> QED  BY <1>0, <1>1, SeenFacts
<1>3. ASSUME IsTree(disk) PROVE IsTree(new)
  <2>1. \A q \in Below(p) : wide[q] = "absent"
    <3>1. \A q \in Below(p) : disk[q] = "absent" /\ q \in Paths /\ q \notin Above[p]
      BY <1>3, FreeBelow, PathFacts
    <3>2. QED
      BY <1>1, <3>1
  <2>2. e \in Entries
    BY SeenFacts
  <2>3. QED
    <3> HIDE DEF wide
    <3>1. IsTree([wide EXCEPT ![p] = e])
      BY <1>1, <1>3, <2>1, <2>2, PutTree
    <3>2. QED
      BY <1>0, <3>1
<1>4. ASSUME IsTree(disk), NEW q \in Paths \ (chain \cup {p}) PROVE new[q] = disk[q]
  <2>1. \A x \in Above[p] \ chain : disk[x] # "absent"
    BY <1>4, KindsStored, BoundaryOf
  <2>2. QED
    BY <1>1, <1>2, <1>4, <2>1
<1>5. \A q \in Paths : disk[q] # "absent" => new[q] = disk[q]
  BY <1>1, <1>2
<1>6. QED
  BY <1>2, <1>3, <1>4, <1>5

(* A call at a free path. *)
LEMMA NewDone ==
  ASSUME Kinds, Spent, NEW p \in Paths, disk[p] = "absent",
         NEW kind \in {"create_file", "create_dir"}, Journal(Created(p, kind)), UNCHANGED archive,
         NEW e \in {"absent", "written", "link", "dir"},
         kind = "create_file" => e # "dir", kind = "create_dir" => e \in {"absent", "dir"},
         \/ disk' = disk
         \/ Reachable(disk, p) /\ disk' = [WithParents(disk, p) EXCEPT ![p] = e]
  PROVE  CallDone
<1> DEFINE r == Created(p, kind)
           b == ClosestExisting(disk, Above[p])
           chain == Chain(Above[p], b)
<1>1. /\ disk \in [Paths -> Seen] /\ archive \in Seq([Paths -> Seen]) /\ Len(archive) \in Nat
      /\ MaxOps \in Nat /\ disk \in Disk
  BY KindsStored, BoundsAssumption DEF Kinds
<1>2. /\ b \in Above[p] \cup {Top} /\ b # None /\ Above[p] \subseteq Paths
      /\ chain \subseteq Above[p] /\ Chain({p} \cup Above[p], b) = {p} \cup chain
      /\ \A q \in chain : disk[q] = "absent"
      /\ p \notin chain
  BY <1>1, BoundaryOf, PathFacts
<1>3. /\ r \in Receipts /\ r.kind = kind /\ r.path = p /\ r.source = None
      /\ r.boundary = b /\ r.id = 0
  <2> HIDE DEF b
  <2>1. b \in Paths \cup {Top, None} /\ 0 \in 0..MaxOps
    BY <1>1, <1>2
  <2>2. r = [kind |-> kind, path |-> p, source |-> None, boundary |-> b, id |-> 0]
    BY DEF Created, Receipt, b
  <2>3. QED
    BY <2>1, <2>2 DEF Receipts
<1>4. /\ disk' \in [Paths -> Seen]
      /\ disk'[p] = e \/ disk'[p] = "absent"
      /\ IsTree(disk) => IsTree(disk') /\ \A q \in Paths \ (chain \cup {p}) : disk'[q] = disk[q]
      /\ \A q \in Paths : disk[q] # "absent" => disk'[q] = disk[q]
  <2>1. CASE disk' = disk
    BY <1>1, <2>1
  <2>2. CASE Reachable(disk, p) /\ disk' = [WithParents(disk, p) EXCEPT ![p] = e]
    <3> DEFINE new == [WithParents(disk, p) EXCEPT ![p] = e]
    <3>1. disk' = new /\ Reachable(disk, p) /\ e \in Seen
      BY <2>2, SeenFacts
    <3>2. /\ new \in [Paths -> Seen] /\ new[p] = e
          /\ IsTree(disk) => IsTree(new)
          /\ IsTree(disk) => \A q \in Paths \ (chain \cup {p}) : new[q] = disk[q]
          /\ \A q \in Paths : disk[q] # "absent" => new[q] = disk[q]
      BY <3>1, StagedNew
    <3> HIDE DEF new, chain
    <3>3. QED
      BY <3>1, <3>2
  <2>3. QED
    BY <2>1, <2>2
<1>5. Stored
  BY <1>1, <1>4 DEF Stored
<1>6. ASSUME NEW c \in Paths, OnDisk(disk, c) PROVE OnDisk(disk', c)
  BY <1>4, <1>6, PathsAssumption DEF OnDisk
<1>7. ASSUME IsTree(disk) PROVE Made(disk, disk', r, archive')
  <2>1. \A q \in Paths \ (chain \cup {p}) : disk'[q] = disk[q]
    BY <1>4, <1>7
  <2>2. CASE kind = "create_file"
    <3>1. MadeFile(disk, disk', r)
      <4> HIDE DEF r, b
      <4> QED  BY <1>2, <1>3, <1>4, <2>1, <2>2 DEF MadeFile
    <3>2. QED
      BY <3>1 DEF Made
  <2>3. CASE kind = "create_dir"
    <3>1. MadeDir(disk, disk', r, archive')
      <4> HIDE DEF r, b
      <4> QED  BY <1>2, <1>3, <1>4, <2>1, <2>3 DEF MadeDir
    <3>2. QED
      BY <3>1 DEF Made
  <2>4. QED
    BY <2>2, <2>3
<1>8. Receipted(r)
  <2>1. Journal(r)
    OBVIOUS
  <2> HIDE DEF r, b
  <2>2. QED
    BY <1>1, <1>2, <1>3, <1>6, <1>7, <2>1 DEF Receipted
<1>9. QED
  BY <1>3, <1>5, <1>8 DEF CallDone

LEMMA FreshCalls ==
  ASSUME Kinds, NEW p \in Paths, NEW f \in Faults,
         WriteNew(p, f) \/ LinkNew(p, f) \/ MkdirNew(p, f)
  PROVE  CallDone
<1> DEFINE wide == WithParents(disk, p)
<1>0. disk[p] = "absent" => wide[p] = "absent" /\ wide \in Disk
  BY Widened, PathFacts DEF WithParents
<1>1. CASE WriteNew(p, f)
  <2> DEFINE e == IF f = "unopened" THEN wide[p] ELSE "written"
  <2>1. Spent /\ Free(p) /\ Journal(Created(p, "create_file")) /\ UNCHANGED archive
    BY <1>1, CallSpends DEF WriteNew
  <2>2. disk' = [wide EXCEPT ![p] = e]
    BY <1>1 DEF WriteNew
  <2>3. e \in {"absent", "written"}
    BY <1>0, <2>1 DEF Free
  <2> HIDE DEF e
  <2>4. QED
    BY <2>1, <2>2, <2>3, NewDone DEF Free
<1>2. CASE LinkNew(p, f)
  <2> DEFINE e == IF f = "none" THEN "link" ELSE wide[p]
  <2>1. /\ Spent /\ disk[p] = "absent" /\ Journal(Created(p, "create_file")) /\ UNCHANGED archive
    BY <1>2, CallSpends DEF LinkNew
  <2>2. disk' = disk \/ (Reachable(disk, p) /\ disk' = [wide EXCEPT ![p] = e])
    <3>1. disk' = IF Reachable(disk, p)
                  THEN [wide EXCEPT ![p] = IF f = "none" THEN "link" ELSE @] ELSE disk
      BY <1>2 DEF LinkNew
    <3>2. Reachable(disk, p) => disk' = [wide EXCEPT ![p] = IF f = "none" THEN "link" ELSE wide[p]]
      BY <3>1
    <3>3. QED
      BY <3>1, <3>2
  <2>3. e \in {"absent", "link"}
    BY <1>0, <2>1
  <2> HIDE DEF e
  <2>4. QED
    BY <2>1, <2>2, <2>3, NewDone
<1>3. CASE MkdirNew(p, f)
  <2> DEFINE e == IF f = "none" THEN "dir" ELSE wide[p]
  <2>1. /\ Spent /\ disk[p] = "absent" /\ Journal(Created(p, "create_dir")) /\ UNCHANGED archive
    BY <1>3, CallSpends DEF MkdirNew
  <2>2. disk' = disk \/ (Reachable(disk, p) /\ disk' = [wide EXCEPT ![p] = e])
    <3>1. disk' = IF Reachable(disk, p)
                  THEN [wide EXCEPT ![p] = IF f = "none" THEN "dir" ELSE @] ELSE disk
      BY <1>3 DEF MkdirNew
    <3>2. Reachable(disk, p) => disk' = [wide EXCEPT ![p] = IF f = "none" THEN "dir" ELSE wide[p]]
      BY <3>1
    <3>3. QED
      BY <3>1, <3>2
  <2>3. e \in {"absent", "dir"}
    BY <1>0, <2>1
  <2> HIDE DEF e
  <2>4. QED
    BY <2>1, <2>2, <2>3, NewDone
<1>4. QED
  BY <1>1, <1>2, <1>3

LEMMA StageFailsDone ==
  ASSUME Kinds, NEW op \in {"write", "move"}, NEW p \in Paths, StageFails(op, p)
  PROVE  CallDone
<1>1. Spent
  BY CallSpends DEF StageFails
<1>2. PICK made \in {q \in Above[p] : disk[q] = "absent"} :
        disk' = [WithParents(disk, made) EXCEPT ![made] = "absent"]
  BY DEF StageFails
<1> DEFINE wide == WithParents(disk, made)
<1>3. made \in Paths /\ disk[made] = "absent" /\ made \notin Above[made] /\ Above[made] \subseteq Above[p]
  BY <1>2, PathFacts
<1>4. /\ wide \in [Paths -> Seen] /\ Like(wide, disk)
      /\ \A c \in Paths : OnDisk(disk, c) => OnDisk(wide, c)
  BY <1>3, Widened
<1>5. disk' = wide
  <2>1. wide[made] = "absent"
    BY <1>3 DEF WithParents
  <2> HIDE DEF wide
  <2>2. disk' = [wide EXCEPT ![made] = "absent"]
    BY <1>2 DEF wide
  <2>3. QED
    BY <1>4, <2>1, <2>2
<1>6. IsTree(disk) => IsTree(wide)
  <2>1. Reachable(disk, made)
    BY <1>3 DEF StageFails, Free, Reachable
  <2>2. QED
    BY <1>3, <2>1, ParentsTree, KindsStored
<1>7. archive' = archive /\ journal' = journal
  BY DEF StageFails
<1>8. archive \in Seq([Paths -> Seen]) /\ Len(archive) \in Nat
  BY DEF Kinds
<1>9. QED
  <2> HIDE DEF wide
  <2> QED  BY <1>1, <1>4, <1>5, <1>6, <1>7, <1>8 DEF CallDone, Stored, Unreceipted

(* An occupant goes with all below it; something may take its place. *)
LEMMA Displaced ==
  ASSUME Kinds, NEW p \in Paths, disk[p] # "absent", NEW e \in Seen
  PROVE  LET new == [Without(disk, Tree(p)) EXCEPT ![p] = e]
         IN /\ new \in [Paths -> Seen] /\ new[p] = e
            /\ \A q \in Paths \ Tree(p) : new[q] = disk[q]
            /\ \A q \in Below(p) : new[q] = "absent"
            /\ IsTree(disk) => IsTree(new)
<1> DEFINE new == [Without(disk, Tree(p)) EXCEPT ![p] = e]
           gone == Without(disk, Tree(p))
<1>1. /\ Tree(p) = {p} \cup Below(p) /\ Tree(p) \in SUBSET Paths /\ p \notin Below(p)
      /\ Below(p) \cap Above[p] = {} /\ p \notin Above[p] /\ Above[p] \subseteq Paths
  BY PathFacts
<1>2. /\ gone \in [Paths -> Seen] /\ gone \in Disk
      /\ \A q \in Paths : gone[q] = IF q \in Tree(p) THEN "absent" ELSE disk[q]
  BY SeenFacts DEF Without, Kinds
<1>3. new = [gone EXCEPT ![p] = e]
  OBVIOUS
<1>4. new \in [Paths -> Seen] /\ new[p] = e /\ \A q \in Paths : q # p => new[q] = gone[q]
  <2> HIDE DEF gone
  <2> QED  BY <1>2, <1>3
<1>5. ASSUME IsTree(disk) PROVE IsTree(new)
  <2>1. IsTree(gone)
    BY <1>5, KindsStored, AwayWhole
  <2>2. \A q \in Above[p] : gone[q] = "dir"
    BY <1>1, <1>2, <1>5 DEF IsTree
  <2>3. \A q \in Below(p) : gone[q] = "absent"
    BY <1>1, <1>2
  <2>4. QED
    <3> HIDE DEF gone
    <3>1. IsTree([gone EXCEPT ![p] = e])
      BY <1>2, <2>1, <2>2, <2>3, SeenFacts, PutTree
    <3>2. QED
      BY <1>3, <3>1
<1>6. QED
  <2> HIDE DEF gone
  <2> QED  BY <1>1, <1>2, <1>4, <1>5

LEMMA OverCalls ==
  ASSUME Kinds, NEW p \in Paths, NEW f \in Faults, WriteOver(p, f) \/ LinkOver(p, f)
  PROVE  CallDone
<1> DEFINE gone == Without(disk, Tree(p))
<1>0. gone[p] = "absent"
  BY DEF Without, Tree
<1>1. CASE WriteOver(p, f)
  <2> DEFINE e == IF f = "unopened" THEN gone[p] ELSE "written"
  <2>1. /\ Spent /\ disk[p] # "absent" /\ Archive(p)
        /\ Journal(Receipt("update_file", p, None, None, NextId))
    BY <1>1, CallSpends DEF WriteOver, Overwritable
  <2>2. disk' = [gone EXCEPT ![p] = e]
    BY <1>1 DEF WriteOver
  <2>3. e \in {"absent", "written"} /\ e \in Seen
    BY <1>0, SeenFacts
  <2>4. /\ disk' \in [Paths -> Seen] /\ disk'[p] = e
        /\ \A q \in Paths \ Tree(p) : disk'[q] = disk[q]
        /\ IsTree(disk) => IsTree(disk')
    <3> DEFINE new == [gone EXCEPT ![p] = e]
    <3> HIDE DEF e
    <3>1. /\ new \in [Paths -> Seen] /\ new[p] = e
          /\ \A q \in Paths \ Tree(p) : new[q] = disk[q]
          /\ IsTree(disk) => IsTree(new)
      BY <2>1, <2>3, Displaced
    <3>2. disk' = new
      BY <2>2
    <3> HIDE DEF new
    <3>3. QED
      BY <3>1, <3>2
  <2>5. QED
    <3> HIDE DEF e
    <3> QED  BY <2>1, <2>3, <2>4, OverDone
<1>2. CASE LinkOver(p, f)
  <2> DEFINE e == IF f = "none" THEN "link" ELSE gone[p]
  <2>1. /\ Spent /\ disk[p] # "absent" /\ Archive(p)
        /\ Journal(Receipt("update_file", p, None, None, NextId))
    BY <1>2, CallSpends DEF LinkOver
  <2>2. disk' = [gone EXCEPT ![p] = e]
    BY <1>2 DEF LinkOver
  <2>3. e \in {"absent", "link"} /\ e \in Seen
    BY <1>0, SeenFacts
  <2>4. /\ disk' \in [Paths -> Seen] /\ disk'[p] = e
        /\ \A q \in Paths \ Tree(p) : disk'[q] = disk[q]
        /\ IsTree(disk) => IsTree(disk')
    <3> DEFINE new == [gone EXCEPT ![p] = e]
    <3> HIDE DEF e
    <3>1. /\ new \in [Paths -> Seen] /\ new[p] = e
          /\ \A q \in Paths \ Tree(p) : new[q] = disk[q]
          /\ IsTree(disk) => IsTree(new)
      BY <2>1, <2>3, Displaced
    <3>2. disk' = new
      BY <2>2
    <3> HIDE DEF new
    <3>3. QED
      BY <3>1, <3>2
  <2>5. QED
    <3> HIDE DEF e
    <3> QED  BY <2>1, <2>3, <2>4, OverDone
<1>3. QED
  BY <1>1, <1>2

LEMMA RemoveDone ==
  ASSUME Kinds, NEW op \in {"remove", "removeAll"}, NEW p \in Paths, NEW prune \in BOOLEAN,
         RemoveEntry(op, p, prune)
  PROVE  CallDone
<1> DEFINE gone  == Without(disk, Tree(p))
           empty == Removable(gone, Above[p])
<1>1. /\ Spent /\ disk[p] # "absent" /\ Archive(p)
      /\ Journal(Receipt("delete_file", p, None, None, NextId))
  BY CallSpends DEF RemoveEntry
<1>2. disk' = IF prune THEN Without(gone, empty) ELSE gone
  BY DEF RemoveEntry
<1>3. /\ Tree(p) = {p} \cup Below(p) /\ Tree(p) \in SUBSET Paths
      /\ p \notin Above[p] /\ Above[p] \in SUBSET Paths
  BY PathFacts
<1>4. /\ gone \in [Paths -> Seen] /\ gone \in Disk
      /\ \A q \in Paths : gone[q] = IF q \in Tree(p) THEN "absent" ELSE disk[q]
      /\ IsTree(disk) => IsTree(gone)
  <2>1. gone \in [Paths -> Seen]
    BY SeenFacts DEF Without, Kinds
  <2>2. QED
    BY <1>3, <2>1, KindsStored, SeenFacts, AwayTree, AwayWhole
<1>5. /\ Without(gone, empty) \in [Paths -> Seen] /\ empty \subseteq Above[p]
      /\ \A q \in Paths : Without(gone, empty)[q] = IF q \in empty THEN "absent" ELSE gone[q]
      /\ IsTree(disk) => IsTree(Without(gone, empty))
  <2> HIDE DEF gone
  <2>1. empty \subseteq Above[p] /\ (IsTree(gone) => IsTree(Without(gone, empty)))
    BY <1>3, <1>4, PrunedTree DEF Removable
  <2>2. Without(gone, empty) \in [Paths -> Seen]
    <3> HIDE DEF empty
    <3> QED  BY <1>4, SeenFacts DEF Without
  <2>3. \A q \in Paths : Without(gone, empty)[q] = IF q \in empty THEN "absent" ELSE gone[q]
    BY DEF Without
  <2>4. QED
    <3> HIDE DEF empty
    <3> QED  BY <1>4, <2>1, <2>2, <2>3
<1>6. /\ disk' \in [Paths -> Seen] /\ (IsTree(disk) => IsTree(disk'))
      /\ disk'[p] = "absent"
      /\ \A q \in Paths \ (Tree(p) \cup Above[p]) : disk'[q] = disk[q]
  <2> HIDE DEF gone, empty
  <2>1. CASE prune
    BY <1>2, <1>3, <1>4, <1>5, <2>1
  <2>2. CASE ~prune
    BY <1>2, <1>3, <1>4, <2>2
  <2>3. QED
    BY <2>1, <2>2
<1>7. QED
  <2> HIDE DEF gone
  <2> QED  BY <1>1, <1>6, OverDone

LEMMA MkdirOverDone ==
  ASSUME Kinds, NEW p \in Paths, NEW f \in Faults, MkdirOver(p, f)
  PROVE  CallDone
<1> DEFINE r == [Created(p, "create_dir") EXCEPT !.id = NextId]
           b == ClosestExisting(disk, Above[p])
           e == IF f = "none" THEN "dir" ELSE "absent"
<1>1. /\ Spent /\ IsFile(disk[p]) /\ disk[p] # "absent" /\ disk[p] # "dir" /\ Archive(p)
      /\ Journal(r) /\ disk' = [disk EXCEPT ![p] = e]
  BY CallSpends DEF MkdirOver, IsFile
<1>2. /\ archive' \in Seq([Paths -> Seen]) /\ Len(archive') = Len(archive) + 1
      /\ archive'[NextId] = Snapshot(disk, p)
      /\ \A i \in 1..Len(archive) : archive'[i] = archive[i]
      /\ NextId \in 0..MaxOps /\ NextId # 0 /\ NextId = Len(archive')
  BY <1>1, ArchiveIs DEF Spent
<1>3. Len(archive) \in Nat /\ disk \in [Paths -> Seen] /\ disk \in Disk
  BY KindsStored DEF Kinds
<1>4. /\ b \in Above[p] \cup {Top} /\ b # None /\ Above[p] \subseteq Paths
      /\ IsTree(disk) => Chain({p} \cup Above[p], b) = {p}
  <2>1. /\ b \in Above[p] \cup {Top} /\ b # None /\ Above[p] \subseteq Paths
        /\ Chain({p} \cup Above[p], b) = {p} \cup Chain(Above[p], b)
        /\ IsTree(disk) => Chain(Above[p], b) = {}
    BY <1>1, <1>3, BoundaryOf, PathFacts
  <2> HIDE DEF b
  <2>2. QED
    BY <2>1
<1>5. /\ r \in Receipts /\ r.kind = "create_dir" /\ r.path = p /\ r.source = None
      /\ r.boundary = b /\ r.id = NextId
  <2> HIDE DEF b
  <2>1. r = [kind |-> "create_dir", path |-> p, source |-> None, boundary |-> b, id |-> NextId]
    BY DEF Created, Receipt, b
  <2>2. QED
    BY <1>2, <1>4, <2>1 DEF Receipts
<1>6. e \in Seen /\ e \in {"absent", "dir"}
  BY SeenFacts
<1>7. disk' \in [Paths -> Seen] /\ disk'[p] = e /\ \A q \in Paths : q # p => disk'[q] = disk[q]
  <2> HIDE DEF e
  <2> QED  BY <1>1, <1>3, <1>6
<1>8. ASSUME IsTree(disk) PROVE IsTree(disk')
  <2>1. /\ \A q \in Above[p] : disk[q] = "dir"
        /\ \A q \in Below(p) : disk[q] = "absent"
    BY <1>1, <1>8, FreeBelow DEF IsTree
  <2>2. IsTree([disk EXCEPT ![p] = e])
    <3> HIDE DEF e
    <3> QED  BY <1>3, <1>6, <1>8, <2>1, SeenFacts, PutTree
  <2>3. QED
    BY <1>1, <2>2
<1>9. Stored
  BY <1>2, <1>3, <1>7, <1>8 DEF Stored
<1>10. ASSUME IsTree(disk)
       PROVE  /\ Made(disk, disk', r, archive')
              /\ \A c \in Paths : OnDisk(disk, c) => OnDisk(disk', c) \/ Archived(archive', r.id, c)
  <2>1. MadeDir(disk, disk', r, archive')
    <3> HIDE DEF r, b, e
    <3> QED  BY <1>1, <1>2, <1>4, <1>5, <1>6, <1>7, <1>10 DEF MadeDir
  <2>2. \A q \in Paths \ (Tree(p) \cup Above[p]) : disk'[q] = disk[q]
    BY <1>7 DEF Tree
  <2>3. \A c \in Paths : OnDisk(disk, c) => OnDisk(disk', c) \/ Archived(archive', NextId, c)
    BY <1>1, <1>2, <1>3, <1>10, <2>2, DisplacedKept
  <2>4. QED
    BY <1>5, <2>1, <2>3 DEF Made
<1>11. Receipted(r)
  <2>1. Journal(r)
    BY <1>1
  <2>2. r.id <= Len(archive') /\ r.id > Len(archive)
    <3> HIDE DEF r
    <3> QED  BY <1>2, <1>3, <1>5
  <2> HIDE DEF r, b
  <2>3. QED
    BY <1>4, <1>5, <1>10, <2>1, <2>2 DEF Receipted
<1>12. QED
  <2> HIDE DEF r
  <2> QED  BY <1>1, <1>5, <1>9, <1>11 DEF CallDone

LEMMA MoveNewDone ==
  ASSUME Kinds, NEW p \in Paths, NEW to \in Paths, NEW f \in Faults, MoveNew(p, to, f)
  PROVE  CallDone
<1> DEFINE wide == WithParents(disk, to)
           r    == [Created(to, "create_file") EXCEPT !.source = p]
           b    == ClosestExisting(disk, Above[to])
           mid  == [wide EXCEPT ![to] = disk[p]]
           new  == [mid EXCEPT ![p] = "absent"]
<1>1. /\ Spent /\ IsFile(disk[p]) /\ disk[to] = "absent" /\ Reachable(disk, to)
      /\ disk[p] # "absent" /\ disk[p] # "dir" /\ p # to /\ UNCHANGED archive
  BY CallSpends DEF MoveNew, Free, IsFile
<1>2. /\ archive \in Seq([Paths -> Seen]) /\ Len(archive) \in Nat /\ MaxOps \in Nat
      /\ disk \in [Paths -> Seen] /\ disk \in Disk /\ disk[p] \in Seen
  BY KindsStored, BoundsAssumption DEF Kinds
<1>3. /\ wide \in [Paths -> Seen] /\ wide \in Disk /\ Like(wide, disk)
      /\ \A c \in Paths : OnDisk(disk, c) => OnDisk(wide, c)
      /\ \A q \in Paths : wide[q] = IF q \in Above[to] /\ disk[q] = "absent" THEN "dir" ELSE disk[q]
      /\ IsTree(disk) => IsTree(wide)
  BY <1>1, <1>2, Widened, ParentsTree
<1>4. CASE f # "none"
  <2>1. disk' = wide /\ UNCHANGED journal
    BY <1>4 DEF MoveNew
  <2>2. Stored /\ Unreceipted
    <3> HIDE DEF wide
    <3> QED  BY <1>1, <1>2, <1>3, <2>1 DEF Stored, Unreceipted
  <2>3. QED
    BY <1>1, <2>2 DEF CallDone
<1>5. CASE f = "none"
  <2>1. Journal(r) /\ disk' = new
    <3>1. Journal(r) /\ disk' = [wide EXCEPT ![to] = disk[p], ![p] = "absent"]
      BY <1>5 DEF MoveNew
    <3>2. QED
      BY <3>1
  <2>2. /\ mid \in [Paths -> Seen] /\ mid[to] = disk[p]
        /\ IsTree(disk) => IsTree(mid)
        /\ \A q \in Paths : q # to => mid[q] = wide[q]
    <3>1. /\ mid \in [Paths -> Seen] /\ mid[to] = disk[p]
          /\ IsTree(disk) => IsTree(mid)
      BY <1>1, <1>2, StagedNew
    <3>2. \A q \in Paths : q # to => mid[q] = wide[q]
      <4> HIDE DEF wide
      <4> QED  BY <1>3
    <3>3. QED
      BY <3>1, <3>2
  <2>3. /\ new \in [Paths -> Seen] /\ new[p] = "absent" /\ new[to] = disk[p]
        /\ \A q \in Paths : q # to /\ q # p => new[q] = wide[q]
    <3> HIDE DEF mid, wide
    <3> QED  BY <1>1, <2>2, SeenFacts
  <2>4. ASSUME IsTree(disk) PROVE /\ \A q \in Below(p) : disk[q] = "absent"
                                  /\ p \notin Below(to) /\ p \notin Above[to]
    <3>1. \A q \in Below(p) : disk[q] = "absent"
      BY <1>1, <2>4, FreeBelow
    <3>2. p \notin Below(to)
      BY <1>1, <2>4 DEF IsTree, Below
    <3>3. p \notin Above[to]
      BY <1>1 DEF Reachable
    <3>4. QED
      BY <3>1, <3>2, <3>3
  <2>5. ASSUME IsTree(disk) PROVE IsTree(new)
    <3>1. \A q \in Below(p) : mid[q] = "absent"
      <4> SUFFICES ASSUME NEW q \in Below(p) PROVE mid[q] = "absent"
        OBVIOUS
      <4>1. q \in Paths /\ p \in Above[q] /\ disk[q] = "absent"
        BY <2>4, <2>5, PathFacts
      <4>2. q # to
        BY <2>4, <2>5, <4>1
      <4>3. q \notin Above[to]
        BY <2>4, <2>5, <4>1, PathFacts
      <4>4. QED
        <5> HIDE DEF mid, wide
        <5> QED  BY <1>3, <2>2, <4>1, <4>2, <4>3
    <3>2. mid \in Disk
      <4> HIDE DEF mid
      <4> QED  BY <2>2, SeenFacts
    <3>3. QED
      <4> HIDE DEF mid
      <4> QED  BY <2>2, <2>5, <3>1, <3>2, GoneTree
  <2>6. b \in Above[to] \cup {Top} /\ b # None /\ Above[to] \subseteq Paths
    BY <1>2, BoundaryOf, PathFacts
  <2>7. /\ r \in Receipts /\ r.kind = "create_file" /\ r.path = to /\ r.source = p
        /\ r.boundary = b /\ r.id = 0
    <3> HIDE DEF b
    <3>1. r = [kind |-> "create_file", path |-> to, source |-> p, boundary |-> b, id |-> 0]
      BY DEF Created, Receipt, b
    <3>2. QED
      BY <1>2, <2>6, <3>1 DEF Receipts
  <2>8. Stored
    <3> HIDE DEF new
    <3> QED  BY <1>1, <1>2, <2>1, <2>3, <2>5 DEF Stored
  <2>9. ASSUME IsTree(disk) PROVE MadeMove(disk, disk', r, archive')
    <3>1. p \in Paths \ (Tree(to) \cup Above[to])
      BY <1>1, <2>4, <2>9 DEF Tree
    <3>2. \A q \in Paths \ (Tree(to) \cup {p}) : LikeAt(disk'[q], disk[q])
      <4> HIDE DEF new, wide
      <4> QED  BY <1>3, <2>1, <2>3 DEF Like, Tree
    <3>3. QED
      <4> HIDE DEF new, r, b
      <4> QED  BY <1>1, <2>1, <2>3, <2>7, <3>1, <3>2 DEF MadeMove
  <2>10. ASSUME NEW c \in Paths, OnDisk(disk, c) PROVE OnDisk(new, c)
    <3>1. PICK q \in Paths : disk[q] = c
      BY <2>10 DEF OnDisk
    <3>2. c # "absent"
      BY PathsAssumption
    <3>3. CASE q = p
      <4> HIDE DEF new
      <4> QED  BY <2>3, <3>1, <3>3 DEF OnDisk
    <3>4. CASE q # p
      <4>1. q # to /\ wide[q] = c
        BY <1>1, <1>3, <3>1, <3>2
      <4>2. QED
        <5> HIDE DEF new, wide
        <5> QED  BY <2>3, <3>4, <4>1 DEF OnDisk
    <3>5. QED
      BY <3>3, <3>4
  <2>11. Receipted(r)
    <3> HIDE DEF new, r, b
    <3> QED  BY <1>2, <2>1, <2>6, <2>7, <2>9, <2>10, <1>1 DEF Receipted, Made
  <2>12. QED
    <3> HIDE DEF r
    <3> QED  BY <1>1, <2>7, <2>8, <2>11 DEF CallDone
<1>6. QED
  BY <1>4, <1>5

LEMMA MoveOverDone ==
  ASSUME Kinds, NEW p \in Paths, NEW to \in Paths, NEW f \in Faults, MoveOver(p, to, f)
  PROVE  CallDone
<1> DEFINE r   == Receipt("update_file", to, p, None, NextId)
           mid == [Without(disk, Tree(to)) EXCEPT ![to] = disk[p]]
           new == [mid EXCEPT ![p] = "absent"]
<1>1. /\ Spent /\ IsFile(disk[p]) /\ disk[to] # "absent"
      /\ ~(disk[to] = "dir" /\ ~Empty(disk, to)) /\ disk[p] # "absent" /\ disk[p] # "dir"
  BY CallSpends DEF MoveOver, Overwritable, IsFile
<1>2. /\ archive \in Seq([Paths -> Seen]) /\ Len(archive) \in Nat
      /\ disk \in [Paths -> Seen] /\ disk \in Disk /\ disk[p] \in Seen
  BY KindsStored DEF Kinds
<1>3. CASE ~(f = "none" /\ p # to)
  <2>1. archive' = Append(archive, Blank) /\ UNCHANGED <<disk, journal>>
    BY <1>3 DEF MoveOver
  <2>2. Blank \in [Paths -> Seen]
    BY SeenFacts DEF Blank
  <2>3. /\ archive' \in Seq([Paths -> Seen]) /\ Len(archive') = Len(archive) + 1
        /\ \A i \in 1..Len(archive) : archive'[i] = archive[i]
    <3> DEFINE W == [Paths -> Seen]
    <3>1. archive \in Seq(W) /\ Blank \in W
      BY <1>2, <2>2
    <3> HIDE DEF W
    <3>2. /\ archive' \in Seq(W) /\ Len(archive') = Len(archive) + 1
          /\ \A i \in 1..Len(archive) : archive'[i] = archive[i]
      BY <2>1, <3>1
    <3>3. QED
      BY <3>2 DEF W
  <2>4. Stored
    BY <1>2, <2>1, <2>3 DEF Stored
  <2>5. Unreceipted
    BY <2>1 DEF Unreceipted, Like, LikeAt, OnDisk
  <2>6. QED
    BY <1>1, <2>4, <2>5 DEF CallDone
<1>4. CASE f = "none" /\ p # to
  <2>1. /\ Archive(to) /\ Journal(r) /\ disk' = new
    <3>1. /\ Archive(to) /\ Journal(r)
          /\ disk' = [Without(disk, Tree(to)) EXCEPT ![to] = disk[p], ![p] = "absent"]
      BY <1>4 DEF MoveOver
    <3>2. QED
      BY <3>1
  <2>2. /\ archive' \in Seq([Paths -> Seen]) /\ Len(archive') = Len(archive) + 1
        /\ archive'[NextId] = Snapshot(disk, to)
        /\ \A i \in 1..Len(archive) : archive'[i] = archive[i]
        /\ NextId \in 0..MaxOps /\ NextId # 0 /\ NextId = Len(archive')
    BY <1>1, <2>1, ArchiveIs DEF Spent
  <2>3. /\ mid \in [Paths -> Seen] /\ mid[to] = disk[p]
        /\ \A q \in Paths \ Tree(to) : mid[q] = disk[q]
        /\ \A q \in Below(to) : mid[q] = "absent"
        /\ IsTree(disk) => IsTree(mid)
    BY <1>1, <1>2, Displaced
  <2>4. /\ new \in [Paths -> Seen] /\ new[p] = "absent"
        /\ \A q \in Paths : q # p => new[q] = mid[q]
    <3> HIDE DEF mid
    <3> QED  BY <2>3, SeenFacts
  <2>5. ASSUME IsTree(disk) PROVE /\ \A q \in Below(p) : disk[q] = "absent"
                                  /\ p \notin Below(to) /\ p \notin Above[to]
    <3>1. \A q \in Below(p) : disk[q] = "absent"
      BY <1>1, <2>5, FreeBelow
    <3>2. p \notin Below(to)
      <4>1. CASE disk[to] = "dir"
        BY <1>1, <4>1 DEF Empty
      <4>2. CASE disk[to] # "dir"
        BY <1>1, <2>5, <4>2, FreeBelow
      <4>3. QED
        BY <4>1, <4>2
    <3>3. p \notin Above[to]
      BY <1>1, <2>5 DEF IsTree
    <3>4. QED
      BY <3>1, <3>2, <3>3
  <2>6. ASSUME IsTree(disk) PROVE IsTree(new)
    <3>1. \A q \in Below(p) : mid[q] = "absent"
      <4> SUFFICES ASSUME NEW q \in Below(p) PROVE mid[q] = "absent"
        OBVIOUS
      <4>1. q \in Paths /\ disk[q] = "absent"
        BY <2>5, <2>6, PathFacts
      <4>2. q # to
        BY <1>1, <4>1
      <4>3. QED
        <5> HIDE DEF mid
        <5> QED  BY <2>3, <4>1, <4>2 DEF Tree
    <3>2. mid \in Disk
      <4> HIDE DEF mid
      <4> QED  BY <2>3, SeenFacts
    <3>3. QED
      <4> HIDE DEF mid
      <4> QED  BY <2>3, <2>6, <3>1, <3>2, GoneTree
  <2>7. /\ r \in Receipts /\ r.kind = "update_file" /\ r.path = to /\ r.source = p
        /\ r.boundary = None /\ r.id = NextId
    BY <2>2 DEF Receipt, Receipts
  <2>8. Stored
    <3> HIDE DEF new
    <3> QED  BY <1>2, <2>1, <2>2, <2>4, <2>6 DEF Stored
  <2>9. ASSUME IsTree(disk) PROVE MadeMove(disk, disk', r, archive')
    <3>1. p \in Paths \ (Tree(to) \cup Above[to])
      BY <1>4, <2>5, <2>9 DEF Tree
    <3>2. \A q \in Paths \ (Tree(to) \cup {p}) : LikeAt(disk'[q], disk[q])
      <4> HIDE DEF new, mid
      <4> QED  BY <2>1, <2>3, <2>4 DEF LikeAt
    <3>3. disk'[to] = disk[p] /\ disk'[p] = "absent"
      <4> HIDE DEF new, mid
      <4> QED  BY <1>4, <2>1, <2>3, <2>4
    <3>4. QED
      <4> HIDE DEF new, r
      <4> QED  BY <1>1, <2>2, <2>7, <3>1, <3>2, <3>3 DEF MadeMove
  <2>10. ASSUME NEW c \in Paths, OnDisk(disk, c)
         PROVE  OnDisk(new, c) \/ Archived(archive', NextId, c)
    <3>1. PICK q \in Paths : disk[q] = c
      BY <2>10 DEF OnDisk
    <3>2. CASE q = p
      <4>1. new[to] = c
        <5> HIDE DEF new, mid
        <5> QED  BY <1>4, <2>3, <2>4, <3>1, <3>2
      <4>2. QED
        BY <4>1 DEF OnDisk
    <3>3. CASE q \in Tree(to)
      <4>1. archive'[NextId][q] = c
        BY <1>2, <2>2, <3>1, <3>3, SnapshotIs
      <4>2. QED
        BY <2>2, <4>1 DEF Archived
    <3>4. CASE q # p /\ q \notin Tree(to)
      <4>1. new[q] = c
        <5> HIDE DEF new, mid
        <5> QED  BY <2>3, <2>4, <3>1, <3>4
      <4>2. QED
        BY <4>1 DEF OnDisk
    <3>5. QED
      BY <3>2, <3>3, <3>4
  <2>11. Receipted(r)
    <3>1. r.id <= Len(archive') /\ r.id > Len(archive) /\ r.kind # "create_dir"
      <4> HIDE DEF r
      <4> QED  BY <1>2, <2>2, <2>7
    <3> HIDE DEF new, r
    <3> QED  BY <2>1, <2>7, <2>9, <2>10, <3>1 DEF Receipted, Made
  <2>12. QED
    <3> HIDE DEF r
    <3> QED  BY <1>1, <2>7, <2>8, <2>11 DEF CallDone
<1>5. QED
  BY <1>3, <1>4

LEMMA CallsDone ==
  ASSUME Kinds, Call
  PROVE  CallDone
<1>1. PICK p \in Paths :
        \/ \E op \in {"write", "move"} : StageFails(op, p)
        \/ \E f \in Faults :
             \/ WriteNew(p, f) \/ WriteOver(p, f) \/ LinkNew(p, f) \/ LinkOver(p, f)
             \/ MkdirNew(p, f) \/ MkdirOver(p, f)
             \/ \E to \in Paths : MoveNew(p, to, f) \/ MoveOver(p, to, f)
        \/ \E op \in {"remove", "removeAll"}, prune \in BOOLEAN : RemoveEntry(op, p, prune)
  BY DEF Call
<1>2. CASE \E op \in {"write", "move"} : StageFails(op, p)
  BY <1>2, StageFailsDone
<1>3. ASSUME NEW f \in Faults,
             \/ WriteNew(p, f) \/ WriteOver(p, f) \/ LinkNew(p, f) \/ LinkOver(p, f)
             \/ MkdirNew(p, f) \/ MkdirOver(p, f)
             \/ \E to \in Paths : MoveNew(p, to, f) \/ MoveOver(p, to, f)
      PROVE  CallDone
  BY <1>3, FreshCalls, OverCalls, MkdirOverDone, MoveNewDone, MoveOverDone
<1>4. CASE \E op \in {"remove", "removeAll"}, prune \in BOOLEAN : RemoveEntry(op, p, prune)
  BY <1>4, RemoveDone
<1>5. QED
  BY <1>1, <1>2, <1>3, <1>4

-----------------------------------------------------------------------------
(* What a run's state is made of, at every step. *)
LEMMA UsedIs ==
  ASSUME Kinds, NEW b \in {"faults", "outside", "unwinds", "reloads"}, used' = Used(b)
  PROVE  /\ used' \in [{"ops", "faults", "outside", "unwinds", "reloads"} -> Nat]
         /\ used'.ops = used.ops /\ used'[b] = used[b] + 1
         /\ \A x \in {"faults", "outside", "unwinds", "reloads"} : x # b => used'[x] = used[x]
<1>1. used \in [{"ops", "faults", "outside", "unwinds", "reloads"} -> Nat]
  BY DEF Kinds, TypeOK
<1>2. used' = [used EXCEPT ![b] = used[b] + 1] /\ used[b] + 1 \in Nat
  BY <1>1 DEF Used
<1>3. QED
  BY <1>1, <1>2

LEMMA RestoredSeen ==
  ASSUME Kinds, NEW d \in [Paths -> Seen], NEW r \in Receipts, r.id <= Len(archive)
  PROVE  /\ Restored(d, r).ok \in BOOLEAN /\ Restored(d, r).disk \in [Paths -> Seen]
         /\ Restored(d, r).archive \in Seq([Paths -> Seen])
         /\ Len(Restored(d, r).archive) = Len(archive)
<1>1. r.id \in Nat /\ r.path \in Paths /\ archive \in Seq([Paths -> Seen])
  BY DEF Receipts, Kinds
<1>2. CASE r.id = 0 \/ archive[r.id] = Blank
  BY <1>1, <1>2 DEF Restored, Undone
<1>3. CASE ~(r.id = 0 \/ archive[r.id] = Blank)
  <2> DEFINE tree == archive[r.id]
             new  == [q \in Paths |-> IF q \in Tree(r.path) THEN tree[q] ELSE WithParents(d, r.path)[q]]
             rest == [archive EXCEPT ![r.id] = Blank]
  <2>1. r.id \in 1..Len(archive) /\ tree \in [Paths -> Seen] /\ Blank \in [Paths -> Seen]
    BY <1>1, <1>3, SeenFacts DEF Blank
  <2>2. Restored(d, r) = Undone(TRUE, new, rest)
    BY <1>3 DEF Restored
  <2>3. new \in [Paths -> Seen]
    <3>1. WithParents(d, r.path) \in [Paths -> Seen]
      BY SeenFacts DEF WithParents
    <3>2. QED
      BY <2>1, <3>1
  <2>4. rest \in Seq([Paths -> Seen]) /\ Len(rest) = Len(archive)
    BY <1>1, <2>1
  <2>5. QED
    BY <2>2, <2>3, <2>4 DEF Undone
<1>4. QED
  BY <1>2, <1>3

LEMMA UndoSeen ==
  ASSUME Kinds, NEW r \in Receipts, r.id <= Len(archive)
  PROVE  /\ CompensateFileMutation(r).ok \in BOOLEAN
         /\ CompensateFileMutation(r).disk \in [Paths -> Seen]
         /\ CompensateFileMutation(r).archive \in Seq([Paths -> Seen])
         /\ Len(CompensateFileMutation(r).archive) = Len(archive)
<1> DEFINE Good(u) == /\ u.ok \in BOOLEAN /\ u.disk \in [Paths -> Seen]
                      /\ u.archive \in Seq([Paths -> Seen]) /\ Len(u.archive) = Len(archive)
<1>1. disk \in [Paths -> Seen] /\ archive \in Seq([Paths -> Seen]) /\ "absent" \in Seen
  BY SeenFacts DEF Kinds
<1>2. Good(Failed)
  BY <1>1 DEF Failed, Undone
<1>3. ASSUME NEW d \in [Paths -> Seen] PROVE Good(Restored(d, r))
  BY <1>3, RestoredSeen
<1>4. ASSUME NEW d \in [Paths -> Seen], NEW ps PROVE Without(d, ps) \in [Paths -> Seen]
  BY <1>1, <1>4 DEF Without
<1>5. Good(CompensateWrite(r))
  <2> DEFINE one  == [disk EXCEPT ![r.path] = "absent"]
             back == Restored(one, r)
             pruned == Without(back.disk, Removable(back.disk, Chain(Above[r.path], r.boundary)))
  <2>1. one \in [Paths -> Seen]
    BY <1>1
  <2>2. Good(back)
    BY <1>3, <2>1
  <2>3. \/ CompensateWrite(r) = Failed
        \/ CompensateWrite(r) = back
        \/ CompensateWrite(r) = [back EXCEPT !.disk = pruned]
    BY DEF CompensateWrite
  <2>4. back = Undone(back.ok, back.disk, back.archive)
    BY DEF Restored, Undone
  <2>5. pruned \in [Paths -> Seen]
    <3> HIDE DEF back
    <3> QED  BY <1>4, <2>2
  <2>6. QED
    <3> HIDE DEF back, pruned
    <3> QED  BY <1>2, <2>2, <2>3, <2>4, <2>5 DEF Undone
<1>6. Good(CompensateMakeDir(r))
  <2> DEFINE left == Without(disk, Removable(disk, Chain({r.path} \cup Above[r.path], r.boundary)))
  <2>1. left \in [Paths -> Seen]
    BY <1>1, <1>4
  <2>2. \/ CompensateMakeDir(r) = Failed
        \/ CompensateMakeDir(r) = Restored(left, r)
        \/ CompensateMakeDir(r) = Undone(TRUE, left, archive)
    BY DEF CompensateMakeDir
  <2>3. Good(Undone(TRUE, left, archive))
    <3> HIDE DEF left
    <3> QED  BY <1>1, <2>1 DEF Undone
  <2>4. Good(Restored(left, r))
    <3> HIDE DEF left
    <3> QED  BY <1>3, <2>1
  <2>5. QED
    <3> HIDE DEF left, Good
    <3> QED  BY <1>2, <2>2, <2>3, <2>4
<1>7. ASSUME r.source \in Paths PROVE Good(CompensateMove(r))
  <2> DEFINE back == [disk EXCEPT ![r.source] = disk[r.path], ![r.path] = "absent"]
  <2>1. back \in [Paths -> Seen]
    <3>1. r.path \in Paths /\ disk[r.path] \in Seen
      BY <1>1 DEF Receipts
    <3>2. QED
      BY <1>1, <3>1
  <2>2. \/ CompensateMove(r) = Failed
        \/ CompensateMove(r) = Undone(FALSE, back, archive)
        \/ CompensateMove(r) = Restored(back, r)
    BY DEF CompensateMove
  <2>3. Good(Undone(FALSE, back, archive)) /\ Good(Restored(back, r))
    <3> HIDE DEF back
    <3> QED  BY <1>1, <1>3, <2>1 DEF Undone
  <2>4. QED
    <3> HIDE DEF back, Good
    <3> QED  BY <1>2, <2>2, <2>3
<1>8. r.source # None => r.source \in Paths
  BY DEF Receipts
<1>9. Good(CompensateFileMutation(r))
  <2> HIDE DEF Good
  <2> QED  BY <1>5, <1>6, <1>7, <1>8 DEF CompensateFileMutation
<1>10. QED
  BY <1>9

LEMMA KindsInit ==
  ASSUME Init
  PROVE  Kinds
<1>1. used = [b \in {"ops", "faults", "outside", "unwinds", "reloads"} |-> 0] /\ MaxOps \in Nat
  BY BoundsAssumption DEF Init
<1>2. first \in Disks /\ disk = first /\ disk \in [Paths -> Seen]
  <2>1. first \in Disks /\ disk = first
    BY DEF Init
  <2>2. \A p \in Paths : disk[p] \in {"absent", "dir", p}
    BY <2>1, DisksAssumption
  <2>3. QED
    BY <2>1, <2>2, DisksAssumption, SeenFacts
<1>3. journal = <<>> /\ archive = <<>> /\ cursor = 0 /\ failed = FALSE /\ undone = {} /\ phase = "running"
  BY DEF Init
<1>4. /\ Len(journal) = 0 /\ Len(archive) = 0 /\ journal \in Seq(Receipts)
      /\ archive \in Seq([Paths -> Entries]) /\ archive \in Seq([Paths -> Seen])
  BY <1>3
<1>5. used \in [{"ops", "faults", "outside", "unwinds", "reloads"} -> Nat] /\ used.ops = 0 /\ used.unwinds = 0
  BY <1>1
<1>6. TypeOK
  <2>1. disk \in [Paths -> Entries]
    <3>1. disk \in [Paths -> Seen]
      BY <1>2
    <3>2. disk \in Disk
      BY <3>1, SeenFacts
    <3>3. QED
      BY <3>2 DEF Disk
  <2>2. cursor \in 0..Len(journal) /\ failed \in BOOLEAN /\ undone \subseteq Nat
    <3>1. cursor = 0 /\ undone = {}
      BY <1>3
    <3>2. failed \in BOOLEAN
      BY <1>3
    <3>3. cursor \in 0..Len(journal)
      BY <1>4, <3>1
    <3>4. QED
      BY <3>1, <3>2, <3>3
  <2>3. phase \in {"running", "unwinding", "clean", "dirty"}
    BY <1>3
  <2>4. Len(archive) <= used.ops /\ used.ops <= MaxOps /\ \A i \in 1..Len(journal) : journal[i].id <= Len(archive)
    BY <1>1, <1>4, <1>5
  <2>5. QED
    BY <1>2, <1>4, <1>5, <2>1, <2>2, <2>3, <2>4 DEF TypeOK
<1>7. QED
  BY <1>2, <1>3, <1>4, <1>5, <1>6 DEF Kinds, Boundaries, IdsApart, PhasesOf

LEMMA KindsCall ==
  ASSUME Kinds, CallDone
  PROVE  Kinds'
<1>1. /\ Seen' = Seen /\ UNCHANGED Unwound /\ phase = "running"
      /\ used' \in [{"ops", "faults", "outside", "unwinds", "reloads"} -> Nat]
      /\ used'.ops <= MaxOps /\ used'.unwinds = used.unwinds
      /\ used.ops \in Nat /\ MaxOps \in Nat /\ used'.ops = used.ops + 1
  BY BoundsAssumption DEF CallDone, Spent, Seen, Kinds, TypeOK
<1>2. /\ disk' \in [Paths -> Seen] /\ archive' \in Seq([Paths -> Seen])
      /\ Len(archive) \in Nat /\ Len(archive') \in Nat
      /\ Len(archive) <= Len(archive') /\ Len(archive') <= used'.ops
  BY <1>1 DEF CallDone, Stored, Kinds, TypeOK
<1>3. /\ journal \in Seq(Receipts) /\ Len(journal) \in Nat /\ cursor \in 0..Len(journal)
      /\ \A i \in 1..Len(journal) : journal[i] \in Receipts /\ journal[i].id \in Nat /\ journal[i].id <= Len(archive)
  <2>1. /\ journal \in Seq(Receipts) /\ cursor \in 0..Len(journal)
        /\ \A i \in 1..Len(journal) : journal[i].id <= Len(archive)
    BY DEF Kinds, TypeOK
  <2>2. \A r \in Receipts : r.id \in Nat
    BY DEF Receipts
  <2>3. \A i \in 1..Len(journal) : journal[i] \in Receipts
    BY <2>1
  <2>4. QED
    BY <2>1, <2>2, <2>3
<1>4. /\ journal' \in Seq(Receipts) /\ Len(journal) <= Len(journal')
      /\ \A i \in 1..Len(journal') : journal'[i].id <= Len(archive')
      /\ Boundaries' /\ IdsApart'
  <2>1. CASE UNCHANGED journal
    BY <1>2, <1>3, <2>1 DEF Boundaries, IdsApart, Kinds
  <2>2. ASSUME NEW r \in Receipts, Receipted(r)
        PROVE  /\ journal' \in Seq(Receipts) /\ Len(journal) <= Len(journal')
               /\ \A i \in 1..Len(journal') : journal'[i].id <= Len(archive')
               /\ Boundaries' /\ IdsApart'
    <3>1. /\ r.id <= Len(archive') /\ (r.id = 0 \/ r.id > Len(archive)) /\ r.id \in Nat
          /\ r.boundary \in Above[r.path] \cup {Top, None}
          /\ r.kind = "create_dir" => r.boundary # None
      BY <2>2 DEF Receipted, Receipts
    <3>2. /\ journal' \in Seq(Receipts) /\ Len(journal') = Len(journal) + 1
          /\ journal'[Len(journal) + 1] = r
          /\ \A i \in 1..Len(journal) : journal'[i] = journal[i]
      BY <1>3, <2>2 DEF Receipted, Journal
    <3>3. \A i \in 1..Len(journal') : i \in 1..Len(journal) \/ i = Len(journal) + 1
      BY <1>3, <3>2
    <3>4. \A i \in 1..Len(journal') : journal'[i].id <= Len(archive')
      BY <1>2, <1>3, <3>1, <3>2, <3>3
    <3>5. Boundaries'
      <4>1. Boundaries
        BY DEF Kinds
      <4>2. QED
        BY <3>1, <3>2, <3>3, <4>1 DEF Boundaries
    <3>6. IdsApart'
      <4>1. IdsApart
        BY DEF Kinds
      <4>2. ASSUME NEW i \in 1..Len(journal'), NEW j \in 1..Len(journal'), i < j, journal'[i].id # 0
            PROVE  journal'[i].id # journal'[j].id
        <5>1. i \in 1..Len(journal) /\ journal'[i] = journal[i]
          BY <1>3, <3>2, <4>2
        <5>2. CASE j \in 1..Len(journal)
          BY <3>2, <4>1, <4>2, <5>1, <5>2 DEF IdsApart
        <5>3. CASE j = Len(journal) + 1
          BY <1>2, <1>3, <3>1, <3>2, <4>2, <5>1, <5>3
        <5>4. QED
          BY <3>3, <5>2, <5>3
      <4>3. QED
        BY <4>2 DEF IdsApart
    <3>7. QED
      BY <1>3, <3>2, <3>4, <3>5, <3>6
  <2>3. QED
    BY <2>1, <2>2 DEF CallDone, Unreceipted
<1>5. TypeOK'
  <2>1. disk' \in [Paths -> Entries] /\ archive' \in Seq([Paths -> Entries])
    <3>1. Seq([Paths -> Seen]) \subseteq Seq([Paths -> Entries])
      BY SeenFacts DEF Disk
    <3>2. QED
      BY <1>2, <3>1, SeenFacts DEF Disk
  <2>2. cursor' \in 0..Len(journal')
    BY <1>1, <1>3, <1>4 DEF Unwound
  <2>3. QED
    BY <1>1, <1>2, <1>4, <2>1, <2>2 DEF TypeOK, Kinds, Unwound
<1>6. PhasesOf'
  BY <1>1 DEF PhasesOf, Kinds, Unwound
<1>7. QED
  BY <1>1, <1>2, <1>4, <1>5, <1>6 DEF Kinds

(* The same site and journal, or smaller: the rest of a step's types. *)
LEMMA KindsOther ==
  ASSUME Kinds, used' \in [{"ops", "faults", "outside", "unwinds", "reloads"} -> Nat],
         used'.ops = used.ops, first' = first,
         disk' \in [Paths -> Seen'], archive' \in Seq([Paths -> Seen']), Seen' \subseteq Entries,
         Len(archive') = Len(archive),
         journal' \in Seq(Receipts), Boundaries', IdsApart',
         \A i \in 1..Len(journal') : journal'[i].id <= Len(archive'),
         phase' \in {"running", "unwinding", "clean", "dirty"}, PhasesOf',
         cursor' \in 0..Len(journal'), failed' \in BOOLEAN, undone' \subseteq Nat
  PROVE  Kinds'
<1>1. [Paths -> Seen'] \subseteq [Paths -> Entries]
  OBVIOUS
<1>2. disk' \in [Paths -> Entries] /\ archive' \in Seq([Paths -> Entries])
  <2> DEFINE W == [Paths -> Seen']
             X == [Paths -> Entries]
  <2>1. W \subseteq X /\ archive' \in Seq(W) /\ disk' \in W
    BY <1>1
  <2> HIDE DEF W, X
  <2>2. archive' \in Seq(X) /\ disk' \in X
    BY <2>1
  <2>3. QED
    BY <2>2 DEF X
<1>3. TypeOK'
  BY <1>2 DEF TypeOK, Kinds
<1>4. QED
  BY <1>3 DEF Kinds

LEMMA SeenSame ==
  ASSUME used'.outside = used.outside
  PROVE  Seen' = Seen
BY DEF Seen

LEMMA JournalFacts ==
  ASSUME Kinds
  PROVE  /\ journal \in Seq(Receipts) /\ Len(journal) \in Nat /\ cursor \in 0..Len(journal)
         /\ \A i \in 1..Len(journal) : /\ journal[i] \in Receipts /\ journal[i].id \in Nat
                                       /\ journal[i].id <= Len(archive)
         /\ archive \in Seq([Paths -> Seen]) /\ Len(archive) \in Nat
         /\ disk \in [Paths -> Seen] /\ failed \in BOOLEAN /\ undone \subseteq Nat
         /\ Boundaries /\ IdsApart /\ PhasesOf
         /\ used \in [{"ops", "faults", "outside", "unwinds", "reloads"} -> Nat]
<1>1. /\ journal \in Seq(Receipts) /\ cursor \in 0..Len(journal)
      /\ \A i \in 1..Len(journal) : journal[i].id <= Len(archive)
  BY DEF Kinds, TypeOK
<1>2. \A r \in Receipts : r.id \in Nat
  BY DEF Receipts
<1>3. \A i \in 1..Len(journal) : journal[i] \in Receipts
  BY <1>1
<1>4. /\ archive \in Seq([Paths -> Seen]) /\ disk \in [Paths -> Seen]
      /\ Boundaries /\ IdsApart /\ PhasesOf
  BY DEF Kinds
<1>5. /\ failed \in BOOLEAN /\ undone \subseteq Nat
      /\ used \in [{"ops", "faults", "outside", "unwinds", "reloads"} -> Nat]
  BY DEF Kinds, TypeOK
<1>6. QED
  BY <1>1, <1>2, <1>3, <1>4, <1>5

(* The journal stays, or a run's entries lose their sources. *)
LEMMA JournalStays ==
  ASSUME Kinds, UNCHANGED journal, Len(archive') = Len(archive)
  PROVE  /\ journal' \in Seq(Receipts) /\ Boundaries' /\ IdsApart'
         /\ \A i \in 1..Len(journal') : journal'[i].id <= Len(archive')
BY JournalFacts DEF Boundaries, IdsApart

LEMMA KindsUnwind ==
  ASSUME Kinds, StartUnwind \/ ResumeUnwind
  PROVE  Kinds'
<1>1. /\ used' = Used("unwinds") /\ UNCHANGED <<first, disk, archive, journal, undone>>
      /\ phase' = "unwinding" /\ cursor' = Len(journal) /\ failed' = FALSE
  BY DEF StartUnwind, ResumeUnwind
<1>2. /\ used' \in [{"ops", "faults", "outside", "unwinds", "reloads"} -> Nat]
      /\ used'.ops = used.ops /\ used'.outside = used.outside
      /\ used'.unwinds = used.unwinds + 1 /\ used.unwinds \in Nat
  BY <1>1, UsedIs, JournalFacts
<1>3. Seen' = Seen /\ Seen \subseteq Entries
  BY <1>2, SeenSame, SeenFacts
<1>4. PhasesOf'
  BY <1>1, <1>2 DEF PhasesOf
<1>5. /\ cursor' \in 0..Len(journal') /\ failed' \in BOOLEAN /\ undone' \subseteq Nat
      /\ phase' \in {"running", "unwinding", "clean", "dirty"}
  <2>1. failed' \in BOOLEAN
    BY <1>1
  <2>2. cursor' \in 0..Len(journal') /\ undone' \subseteq Nat
    <3>1. cursor' = Len(journal) /\ journal' = journal /\ undone' = undone
      BY <1>1
    <3>2. QED
      BY <3>1, JournalFacts
  <2>3. QED
    BY <1>1, <2>1, <2>2
<1>6. /\ disk' \in [Paths -> Seen'] /\ archive' \in Seq([Paths -> Seen']) /\ Seen' \subseteq Entries
      /\ Len(archive') = Len(archive)
  BY <1>1, <1>3, JournalFacts
<1>7. QED
  BY <1>1, <1>2, <1>4, <1>5, <1>6, JournalStays, KindsOther

LEMMA KindsBlocked ==
  ASSUME Kinds, Blocked
  PROVE  Kinds'
<1>1. /\ used' = Used("faults") /\ UNCHANGED <<first, disk, archive, journal, phase, undone>>
      /\ phase = "unwinding" /\ cursor > 0 /\ cursor' = cursor - 1 /\ failed' = TRUE
  BY DEF Blocked
<1>2. /\ used' \in [{"ops", "faults", "outside", "unwinds", "reloads"} -> Nat]
      /\ used'.ops = used.ops /\ used'.outside = used.outside /\ used'.unwinds = used.unwinds
  BY <1>1, UsedIs
<1>3. Seen' = Seen /\ Seen \subseteq Entries
  BY <1>2, SeenSame, SeenFacts
<1>4. PhasesOf' /\ cursor' \in 0..Len(journal')
  BY <1>1, <1>2, JournalFacts DEF PhasesOf
<1>5. QED
  BY <1>1, <1>2, <1>3, <1>4, JournalFacts, JournalStays, KindsOther

LEMMA KindsCompensate ==
  ASSUME Kinds, Compensate
  PROVE  Kinds'
<1>1. cursor \in 1..Len(journal) /\ phase = "unwinding"
  BY JournalFacts DEF Compensate
<1> DEFINE u == CompensateFileMutation(journal[cursor])
<1>2. /\ disk' = u.disk /\ archive' = u.archive /\ failed' = (failed \/ ~u.ok)
      /\ undone' = IF u.ok THEN undone \cup {cursor} ELSE undone
      /\ cursor' = cursor - 1 /\ UNCHANGED <<first, journal, phase, used>>
  BY DEF Compensate
<1>3. /\ u.ok \in BOOLEAN /\ u.disk \in [Paths -> Seen]
      /\ u.archive \in Seq([Paths -> Seen]) /\ Len(u.archive) = Len(archive)
  BY <1>1, JournalFacts, UndoSeen
<1> HIDE DEF u
<1>4. Seen' = Seen /\ Seen \subseteq Entries
  BY <1>2, SeenSame, SeenFacts
<1>5. /\ undone' \subseteq Nat /\ failed' \in BOOLEAN /\ cursor' \in 0..Len(journal')
      /\ phase' \in {"running", "unwinding", "clean", "dirty"}
  BY <1>1, <1>2, <1>3, JournalFacts
<1>6. PhasesOf'
  BY <1>1, <1>2, JournalFacts DEF PhasesOf
<1>7. QED
  BY <1>2, <1>3, <1>4, <1>5, <1>6, JournalFacts, JournalStays, KindsOther

LEMMA KindsLand ==
  ASSUME Kinds, Land
  PROVE  Kinds'
<1>1. /\ UNCHANGED <<first, disk, archive, cursor, failed, undone, used>>
      /\ phase = "unwinding" /\ cursor = 0
      /\ IF failed THEN phase' = "dirty" /\ UNCHANGED journal
                   ELSE phase' = "clean" /\ journal' = <<>>
  BY DEF Land
<1>2. Seen' = Seen /\ Seen \subseteq Entries
  BY <1>1, SeenSame, SeenFacts
<1>3. PhasesOf'
  BY <1>1, JournalFacts DEF PhasesOf
<1>4. /\ journal' \in Seq(Receipts) /\ Boundaries' /\ IdsApart'
      /\ \A i \in 1..Len(journal') : journal'[i].id <= Len(archive')
      /\ cursor' \in 0..Len(journal')
  <2>1. CASE failed
    BY <1>1, <2>1, JournalFacts, JournalStays
  <2>2. CASE ~failed
    <3>1. journal' \in Seq(Receipts) /\ Len(journal') = 0
      BY <1>1, <2>2
    <3>2. QED
      BY <1>1, <3>1 DEF Boundaries, IdsApart
  <2>3. QED
    BY <2>1, <2>2
<1>5. QED
  BY <1>1, <1>2, <1>3, <1>4, JournalFacts, KindsOther

LEMMA KindsReload ==
  ASSUME Kinds, Reload
  PROVE  Kinds'
<1>1. /\ used' = Used("reloads") /\ UNCHANGED <<first, disk, archive, phase, cursor, failed, undone>>
      /\ phase \in {"running", "dirty"}
      /\ journal' = [i \in 1..Len(journal) |-> Reloaded(journal[i])]
  BY DEF Reload
<1>2. /\ used' \in [{"ops", "faults", "outside", "unwinds", "reloads"} -> Nat]
      /\ used'.ops = used.ops /\ used'.outside = used.outside /\ used'.unwinds = used.unwinds
  BY <1>1, UsedIs
<1>3. Seen' = Seen /\ Seen \subseteq Entries
  BY <1>2, SeenSame, SeenFacts
<1>4. ASSUME NEW r \in Receipts
      PROVE  /\ Reloaded(r) \in Receipts /\ Reloaded(r).id = r.id /\ Reloaded(r).kind = r.kind
             /\ Reloaded(r).path = r.path /\ Reloaded(r).boundary = r.boundary
  BY DEF Reloaded, Receipts
<1>5. /\ journal' \in Seq(Receipts) /\ Len(journal') = Len(journal)
      /\ \A i \in 1..Len(journal) :
           /\ journal'[i].id = journal[i].id /\ journal'[i].kind = journal[i].kind
           /\ journal'[i].path = journal[i].path /\ journal'[i].boundary = journal[i].boundary
  <2>1. \A i \in 1..Len(journal) : journal'[i] = Reloaded(journal[i])
    BY <1>1
  <2>2. journal' \in Seq(Receipts) /\ Len(journal') = Len(journal)
    BY <1>1, <1>4, JournalFacts
  <2>3. QED
    BY <1>4, <2>1, <2>2, JournalFacts
<1>6. Boundaries' /\ IdsApart' /\ \A i \in 1..Len(journal') : journal'[i].id <= Len(archive')
  <2>1. /\ Boundaries /\ IdsApart /\ Len(journal) \in Nat
        /\ \A i \in 1..Len(journal) : journal[i].id <= Len(archive)
    BY JournalFacts
  <2>2. Boundaries'
    BY <1>5, <2>1 DEF Boundaries
  <2>3. IdsApart'
    BY <1>5, <2>1 DEF IdsApart
  <2>4. \A i \in 1..Len(journal') : journal'[i].id <= Len(archive')
    BY <1>1, <1>5, <2>1
  <2>5. QED
    BY <2>2, <2>3, <2>4
<1>7. PhasesOf'
  BY <1>1, <1>2, JournalFacts DEF PhasesOf
<1>8. QED
  BY <1>1, <1>2, <1>3, <1>5, <1>6, <1>7, JournalFacts, KindsOther

LEMMA KindsOutside ==
  ASSUME Kinds, NEW p \in Paths, Outside(p)
  PROVE  Kinds'
<1>1. /\ used' = Used("outside") /\ UNCHANGED <<archive, journal, Unwound>>
      /\ phase \in {"running", "unwinding"} /\ disk' = [disk EXCEPT ![p] = "foreign"]
  BY DEF Outside
<1>2. /\ used' \in [{"ops", "faults", "outside", "unwinds", "reloads"} -> Nat]
      /\ used'.ops = used.ops /\ used'.outside = used.outside + 1 /\ used'.unwinds = used.unwinds
      /\ used.outside \in Nat
  BY <1>1, UsedIs, JournalFacts
<1>3. Seen' = Entries /\ Seen \subseteq Entries
  BY <1>2, SeenFacts DEF Seen
<1>4. disk' \in [Paths -> Seen'] /\ archive' \in Seq([Paths -> Seen'])
  <2>1. disk \in [Paths -> Seen] /\ "foreign" \in Entries
    BY JournalFacts DEF Entries
  <2>2. disk' \in [Paths -> Entries]
    BY <1>1, <1>3, <2>1
  <2>3. archive \in Seq(Disk)
    BY KindsStored
  <2>4. QED
    BY <1>1, <1>3, <2>2, <2>3 DEF Disk
<1>5. PhasesOf'
  BY <1>1, <1>2, JournalFacts DEF PhasesOf, Unwound
<1>6. QED
  BY <1>1, <1>2, <1>3, <1>4, <1>5, JournalFacts, JournalStays, KindsOther DEF Unwound

LEMMA KindsStep ==
  ASSUME Kinds, [Next]_vars
  PROVE  Kinds'
<1>1. CASE Call
  BY <1>1, CallsDone, KindsCall
<1>2. CASE StartUnwind \/ ResumeUnwind
  BY <1>2, KindsUnwind
<1>3. CASE Compensate
  BY <1>3, KindsCompensate
<1>4. CASE Blocked
  BY <1>4, KindsBlocked
<1>5. CASE Land
  BY <1>5, KindsLand
<1>6. CASE Reload
  BY <1>6, KindsReload
<1>7. CASE \E p \in Paths : Outside(p)
  BY <1>7, KindsOutside
<1>8. CASE UNCHANGED vars
  BY <1>8 DEF vars, Kinds, TypeOK, Boundaries, IdsApart, PhasesOf, Seen
<1>9. QED
  BY <1>1, <1>2, <1>3, <1>4, <1>5, <1>6, <1>7, <1>8 DEF Next

LEMMA KindsHold == Spec => []Kinds
<1>1. Init => Kinds
  BY KindsInit
<1>2. Kinds /\ [Next]_vars => Kinds'
  BY KindsStep
<1>3. QED
  BY <1>1, <1>2, PTL DEF Spec

(* Every state of a run with the provider's calls is well typed, however   *)
(* its receipts were undone, blocked or reloaded.                          *)
THEOREM TypesHold == Spec => []TypeOK
<1>1. Kinds => TypeOK
  BY DEF Kinds
<1>2. QED
  BY <1>1, KindsHold, PTL

-----------------------------------------------------------------------------
(* The way back: for every receipt still to be undone, the disks its call  *)
(* led from and to, each like the next; the last like the disk that is     *)
(* there.  It holds while no compensation has failed, of receipts that     *)
(* name all they named; beyond, ClaimsDropStack and ResumedUndoRestores    *)
(* show what is lost.                                                      *)
K == IF phase = "running" THEN Len(journal) ELSE cursor
At(after, k) == IF k = 0 THEN first ELSE after[k]
WayBack(before, after) ==
  /\ Like(disk, At(after, K))
  /\ \A i \in 1..K : /\ IsTree(before[i]) /\ Made(before[i], after[i], journal[i], archive)
                     /\ Like(before[i], At(after, i - 1))
NothingLost == \A c \in Paths : IsFile(first[c]) => Held(c)
BackInv ==
  Straight /\ ~failed =>
    /\ IsTree(disk)
    /\ \E before, after \in [Nat -> Disk] : WayBack(before, after)
    /\ phase # "clean" => NothingLost

LEMMA HeldIs ==
  ASSUME NEW c
  PROVE  Held(c) <=> OnDisk(disk, c) \/ \E i \in 1..Len(journal) : Archived(archive, journal[i].id, c)
BY DEF Held, OnDisk, Archived

LEMMA LikeAll ==
  ASSUME NEW a, NEW b, NEW c, Like(a, b), Like(b, c)
  PROVE  Like(a, c)
BY LikeThrough DEF Like

(* What was made stays made while the archive the receipt names is kept. *)
LEMMA MadeStays ==
  ASSUME NEW before, NEW after, NEW r, NEW a, NEW b, Made(before, after, r, a),
         r.id # 0 => b[r.id] = a[r.id]
  PROVE  Made(before, after, r, b)
<1>1. MadeOver(before, after, r, a) => MadeOver(before, after, r, b)
  BY DEF MadeOver
<1>2. MadeDir(before, after, r, a) => MadeDir(before, after, r, b)
  BY DEF MadeDir
<1>3. MadeMove(before, after, r, a) => MadeMove(before, after, r, b)
  BY DEF MadeMove
<1>4. QED
  BY <1>1, <1>2, <1>3 DEF Made

LEMMA BackInit ==
  ASSUME Init
  PROVE  BackInv
<1>1. /\ first \in Disks /\ disk = first /\ phase = "running" /\ Len(journal) = 0
      /\ \A p \in Paths : first[p] \in {"absent", "dir", p}
  BY DisksAssumption DEF Init
<1>2. IsTree(disk) /\ disk \in Disk
  BY <1>1, KindsInit, KindsStored, DisksAssumption DEF IsTree
<1>3. NothingLost
  BY <1>1 DEF NothingLost, Held, IsFile
<1>4. \E before, after \in [Nat -> Disk] : WayBack(before, after)
  <2> DEFINE same == [i \in Nat |-> disk]
  <2>1. same \in [Nat -> Disk]
    BY <1>2
  <2>2. K = 0 /\ At(same, 0) = disk
    BY <1>1 DEF K, At
  <2>3. WayBack(same, same)
    BY <2>2 DEF WayBack, Like, LikeAt
  <2>4. QED
    BY <2>1, <2>3
<1>5. QED
  BY <1>2, <1>3, <1>4 DEF BackInv

LEMMA BackCall ==
  ASSUME Kinds, BackInv, CallDone
  PROVE  BackInv'
<1>1. /\ phase = "running" /\ UNCHANGED Unwound
      /\ used'.unwinds = used.unwinds /\ used'.reloads = used.reloads
  BY DEF CallDone, Spent
<1>2. SUFFICES ASSUME Straight', ~failed'
               PROVE  /\ IsTree(disk)' /\ NothingLost'
                      /\ (\E before, after \in [Nat -> Disk] : WayBack(before, after))'
  BY DEF BackInv
<1>3. /\ IsTree(disk) /\ NothingLost
      /\ \E before, after \in [Nat -> Disk] : WayBack(before, after)
  BY <1>1, <1>2 DEF BackInv, Straight, Unwound
<1>4. PICK before \in [Nat -> Disk], after \in [Nat -> Disk] : WayBack(before, after)
  BY <1>3
<1>5. /\ IsTree(disk') /\ disk' \in Disk /\ disk \in Disk
      /\ \A i \in 1..Len(archive) : archive'[i] = archive[i]
  BY <1>3, SeenFacts, KindsStored DEF CallDone, Stored
<1>6. K = Len(journal) /\ K' = Len(journal') /\ Len(journal) \in Nat
  BY <1>1, JournalFacts DEF K, Unwound
<1>7. \A i \in 1..Len(journal) : Made(before[i], after[i], journal[i], archive')
  <2> SUFFICES ASSUME NEW i \in 1..Len(journal) PROVE Made(before[i], after[i], journal[i], archive')
    OBVIOUS
  <2>1. Made(before[i], after[i], journal[i], archive)
    BY <1>4, <1>6 DEF WayBack
  <2>2. journal[i].id # 0 => archive'[journal[i].id] = archive[journal[i].id]
    BY <1>5, JournalFacts
  <2>3. QED
    BY <2>1, <2>2, MadeStays
<1>8. \A c \in Paths, i \in 1..Len(journal) :
        Archived(archive, journal[i].id, c) => Archived(archive', journal[i].id, c)
  BY <1>5, JournalFacts DEF Archived
<1>9. CASE Unreceipted
  <2>1. journal' = journal /\ Like(disk', disk) /\ \A c \in Paths : OnDisk(disk, c) => OnDisk(disk', c)
    BY <1>9 DEF Unreceipted
  <2>2. NothingLost'
    <3>1. ASSUME NEW c \in Paths, IsFile(first[c]) PROVE Held(c)'
      <4>1. OnDisk(disk, c) \/ \E i \in 1..Len(journal) : Archived(archive, journal[i].id, c)
        BY <1>3, <3>1, HeldIs DEF NothingLost
      <4>2. OnDisk(disk', c) \/ \E i \in 1..Len(journal') : Archived(archive', journal'[i].id, c)
        BY <1>8, <2>1, <4>1
      <4>3. QED
        BY <4>2 DEF Held, OnDisk, Archived
    <3>2. QED
      BY <1>1, <3>1 DEF NothingLost, Unwound
  <2>3. WayBack(before, after)'
    <3>1. Like(disk', At(after, K))
      BY <1>4, <2>1, LikeAll DEF WayBack
    <3>2. K' = K /\ first' = first
      BY <1>1, <1>6, <2>1 DEF Unwound
    <3>3. QED
      BY <1>4, <1>6, <1>7, <2>1, <3>1, <3>2 DEF WayBack, At
  <2>4. QED
    BY <1>4, <1>5, <2>2, <2>3 DEF IsTree
<1>10. ASSUME NEW r \in Receipts, Receipted(r)
       PROVE  /\ IsTree(disk)' /\ NothingLost'
              /\ (\E b, a \in [Nat -> Disk] : WayBack(b, a))'
  <2>1. /\ Made(disk, disk', r, archive')
        /\ \A c \in Paths : OnDisk(disk, c) => OnDisk(disk', c) \/ Archived(archive', r.id, c)
        /\ journal' = Append(journal, r)
    BY <1>3, <1>10 DEF Receipted, Journal
  <2>2. /\ Len(journal') = Len(journal) + 1 /\ journal'[Len(journal) + 1] = r
        /\ \A i \in 1..Len(journal) : journal'[i] = journal[i] /\ i \in 1..Len(journal')
        /\ Len(journal) + 1 \in 1..Len(journal')
    BY <2>1, JournalFacts
  <2>3. NothingLost'
    <3>1. ASSUME NEW c \in Paths, IsFile(first[c]) PROVE Held(c)'
      <4>1. OnDisk(disk, c) \/ \E i \in 1..Len(journal) : Archived(archive, journal[i].id, c)
        BY <1>3, <3>1, HeldIs DEF NothingLost
      <4>2. OnDisk(disk', c) \/ \E i \in 1..Len(journal') : Archived(archive', journal'[i].id, c)
        <5>1. CASE OnDisk(disk, c)
          BY <2>1, <2>2, <5>1
        <5>2. ASSUME NEW i \in 1..Len(journal), Archived(archive, journal[i].id, c)
              PROVE  \E j \in 1..Len(journal') : Archived(archive', journal'[j].id, c)
          <6>1. i \in 1..Len(journal') /\ Archived(archive', journal'[i].id, c)
            BY <1>8, <2>2, <5>2
          <6>2. QED
            BY <6>1
        <5>3. QED
          BY <4>1, <5>1, <5>2
      <4>3. QED
        BY <4>2 DEF Held, OnDisk, Archived
    <3>2. QED
      BY <1>1, <3>1 DEF NothingLost, Unwound
  <2>3a. PICK n \in Nat : n = Len(journal) + 1 /\ n # 0
    BY <1>6
  <2> DEFINE b2 == [i \in Nat |-> IF i = n THEN disk ELSE before[i]]
             a2 == [i \in Nat |-> IF i = n THEN disk' ELSE after[i]]
  <2>4. b2 \in [Nat -> Disk] /\ a2 \in [Nat -> Disk]
    BY <1>4, <1>5
  <2>5. /\ b2[n] = disk /\ a2[n] = disk'
        /\ \A i \in 1..Len(journal) : b2[i] = before[i] /\ a2[i] = after[i]
    BY <1>6, <2>3a
  <2>6. PICK b \in [Nat -> Disk], a \in [Nat -> Disk] :
          /\ b[n] = disk /\ a[n] = disk'
          /\ \A i \in 1..Len(journal) : b[i] = before[i] /\ a[i] = after[i]
    BY <2>4, <2>5
  <2>7. /\ K' = n /\ \A k \in 0..Len(journal) : At(a, k) = At(after, k)
        /\ \A k \in 0..n : At(a, k)' = At(a, k)
    BY <1>1, <1>6, <2>2, <2>3a, <2>6 DEF At, Unwound
  <2>8. WayBack(b, a)'
    <3>1. Like(disk', At(a, n)')
      BY <2>3a, <2>6 DEF At, Like, LikeAt
    <3>2. ASSUME NEW i \in 1..n
          PROVE  IsTree(b[i]) /\ Made(b[i], a[i], journal'[i], archive') /\ Like(b[i], At(a, i - 1)')
      <4>1. i - 1 \in 0..Len(journal)
        BY <1>6, <2>3a, <3>2
      <4>2. CASE i \in 1..Len(journal)
        <5>1. IsTree(before[i]) /\ Like(before[i], At(after, i - 1))
          BY <1>4, <1>6, <4>2 DEF WayBack
        <5>2. QED
          BY <1>7, <2>2, <2>6, <2>7, <4>1, <4>2, <5>1
      <4>3. CASE i = n
        <5>1. Like(disk, At(after, Len(journal)))
          BY <1>4, <1>6 DEF WayBack
        <5>2. i - 1 = Len(journal)
          BY <1>6, <2>3a, <4>3
        <5>3. QED
          BY <1>3, <2>1, <2>2, <2>3a, <2>6, <2>7, <4>1, <4>3, <5>1, <5>2
      <4>4. QED
        BY <1>6, <2>3a, <3>2, <4>2, <4>3
    <3>3. QED
      BY <2>7, <3>1, <3>2 DEF WayBack, IsTree
  <2>9. QED
    BY <1>5, <2>3, <2>6, <2>8 DEF IsTree
<1>11. QED
  BY <1>9, <1>10 DEF CallDone

(* Undoing the newest receipt that is left walks one disk back. *)
LEMMA BackCompensate ==
  ASSUME Kinds, BackInv, Compensate
  PROVE  BackInv'
<1>1. PICK k \in 1..Len(journal) : k = cursor
  BY JournalFacts DEF Compensate
<1>2. PICK r \in Receipts : r = journal[k] /\ r.id \in Nat /\ r.id <= Len(archive)
  BY JournalFacts
<1>3. PICK u : u = CompensateFileMutation(r)
  OBVIOUS
<1>4. /\ phase = "unwinding" /\ disk' = u.disk /\ archive' = u.archive
      /\ failed' = (failed \/ ~u.ok) /\ cursor' = k - 1
      /\ UNCHANGED <<first, journal, phase, used>>
  BY <1>1, <1>2, <1>3 DEF Compensate
<1>5. SUFFICES ASSUME Straight', ~failed'
               PROVE  /\ IsTree(disk)' /\ NothingLost'
                      /\ (\E before, after \in [Nat -> Disk] : WayBack(before, after))'
  BY DEF BackInv
<1>6. u.ok /\ ~failed /\ Straight
  BY <1>4, <1>5 DEF Straight
<1>7. /\ IsTree(disk) /\ NothingLost
      /\ \E before, after \in [Nat -> Disk] : WayBack(before, after)
  BY <1>4, <1>6 DEF BackInv
<1>8. PICK before \in [Nat -> Disk], after \in [Nat -> Disk] : WayBack(before, after)
  BY <1>7
<1>9. K = k /\ K' = k - 1 /\ k # 0 /\ k \in Nat /\ k - 1 \in Nat
  BY <1>1, <1>4 DEF K
<1>10. /\ Like(disk, after[k]) /\ IsTree(before[k]) /\ Made(before[k], after[k], r, archive)
       /\ Like(before[k], At(after, k - 1)) /\ before[k] \in Disk /\ after[k] \in Disk
  BY <1>2, <1>8, <1>9 DEF WayBack, At
<1>11. GivesBack(u, r, before[k])
  BY <1>2, <1>3, <1>6, <1>7, <1>10, KindsStored, GivesBackWhole
<1>12. /\ disk' \in Disk /\ IsTree(disk') /\ Like(disk', before[k])
       /\ \A i \in 1..Len(archive) : i # r.id => archive'[i] = archive[i]
       /\ \A c \in Paths : OnDisk(disk, c) \/ Archived(archive, r.id, c)
                             => OnDisk(disk', c) \/ Archived(archive', r.id, c)
  BY <1>4, <1>11 DEF GivesBack, OnlyArchive
<1>13. NothingLost'
  <2>1. ASSUME NEW c \in Paths, IsFile(first[c]) PROVE Held(c)'
    <3>1. OnDisk(disk, c) \/ \E i \in 1..Len(journal) : Archived(archive, journal[i].id, c)
      BY <1>7, <2>1, HeldIs DEF NothingLost
    <3>2. OnDisk(disk', c) \/ \E i \in 1..Len(journal) : Archived(archive', journal[i].id, c)
      <4>1. CASE OnDisk(disk, c)
        BY <1>2, <1>12, <4>1
      <4>2. ASSUME NEW i \in 1..Len(journal), Archived(archive, journal[i].id, c)
            PROVE  OnDisk(disk', c) \/ \E j \in 1..Len(journal) : Archived(archive', journal[j].id, c)
        <5>1. CASE journal[i].id = r.id
          BY <1>12, <4>2, <5>1
        <5>2. CASE journal[i].id # r.id
          <6>1. journal[i].id # 0 => archive'[journal[i].id] = archive[journal[i].id]
            BY <1>12, <5>2, JournalFacts
          <6>2. Archived(archive', journal[i].id, c)
            BY <4>2, <6>1 DEF Archived
          <6>3. QED
            BY <6>2
        <5>3. QED
          BY <5>1, <5>2
      <4>3. QED
        BY <3>1, <4>1, <4>2
    <3>3. QED
      BY <1>4, <3>2 DEF Held, OnDisk, Archived
  <2>2. QED
    BY <1>4, <2>1 DEF NothingLost
<1>14. WayBack(before, after)'
  <2>1. \A i \in 0..k : At(after, i)' = At(after, i)
    BY <1>4 DEF At
  <2>2. Like(disk', At(after, k - 1))
    BY <1>10, <1>12, LikeAll
  <2>3. ASSUME NEW i \in 1..(k - 1)
        PROVE  /\ IsTree(before[i]) /\ Made(before[i], after[i], journal[i], archive')
               /\ Like(before[i], At(after, i - 1))
    <3>1. /\ IsTree(before[i]) /\ Made(before[i], after[i], journal[i], archive)
          /\ Like(before[i], At(after, i - 1))
      BY <1>8, <1>9 DEF WayBack
    <3>2. i \in 1..Len(journal) /\ i < k
      BY <1>1, JournalFacts
    <3>3. journal[i].id # 0 => archive'[journal[i].id] = archive[journal[i].id]
      BY <1>1, <1>2, <1>12, <3>2, JournalFacts DEF IdsApart
    <3>4. QED
      BY <3>1, <3>3, MadeStays
  <2>4. QED
    BY <1>4, <1>9, <2>1, <2>2, <2>3 DEF WayBack, IsTree
<1>15. QED
  BY <1>8, <1>12, <1>13, <1>14 DEF IsTree

LEMMA BackStart ==
  ASSUME Kinds, BackInv, StartUnwind
  PROVE  BackInv'
<1>1. /\ phase = "running" /\ phase' = "unwinding" /\ cursor' = Len(journal) /\ failed' = FALSE
      /\ used' = Used("unwinds") /\ UNCHANGED <<first, disk, archive, journal, undone>>
  BY DEF StartUnwind
<1>2. Straight' => Straight /\ ~failed
  <2>1. used.unwinds = 0 /\ ~failed /\ used'.reloads = used.reloads
    BY <1>1, UsedIs, JournalFacts DEF PhasesOf
  <2>2. QED
    BY <2>1 DEF Straight
<1>3. K' = K
  BY <1>1 DEF K
<1>4. ASSUME NEW before \in [Nat -> Disk], NEW after \in [Nat -> Disk], WayBack(before, after)
      PROVE  WayBack(before, after)'
  BY <1>1, <1>3, <1>4 DEF WayBack, At, Like, IsTree
<1>5. NothingLost => NothingLost'
  BY <1>1 DEF NothingLost, Held
<1>6. QED
  BY <1>1, <1>2, <1>4, <1>5 DEF BackInv, IsTree

LEMMA BackLand ==
  ASSUME Kinds, BackInv, Land
  PROVE  BackInv'
<1>1. /\ UNCHANGED <<first, disk, archive, cursor, failed, undone, used>>
      /\ phase = "unwinding" /\ phase' \in {"clean", "dirty"} /\ cursor = 0
      /\ ~failed => phase' = "clean"
  BY DEF Land
<1>2. K = 0 /\ K' = 0
  BY <1>1 DEF K
<1>3. ASSUME NEW before \in [Nat -> Disk], NEW after \in [Nat -> Disk], WayBack(before, after)
      PROVE  WayBack(before, after)'
  BY <1>1, <1>2, <1>3 DEF WayBack, At, Like
<1>4. Straight' = Straight
  BY <1>1 DEF Straight
<1>5. QED
  BY <1>1, <1>3, <1>4 DEF BackInv, IsTree

LEMMA BackOutside ==
  ASSUME Kinds, BackInv, NEW p \in Paths, Outside(p)
  PROVE  BackInv'
<1>1. /\ UNCHANGED <<archive, journal>> /\ UNCHANGED Unwound /\ used' = Used("outside")
      /\ phase \in {"running", "unwinding"} /\ disk[p] = "absent"
      /\ \A q \in Above[p] : disk[q] = "dir"
      /\ disk' = [disk EXCEPT ![p] = "foreign"]
  BY DEF Outside
<1>2. Straight' = Straight /\ K' = K /\ first' = first /\ failed' = failed /\ phase' = phase
  <2>1. used'.unwinds = used.unwinds /\ used'.reloads = used.reloads
    BY <1>1, UsedIs
  <2>2. QED
    BY <1>1, <2>1 DEF Straight, K, Unwound
<1>3. SUFFICES ASSUME Straight, ~failed, IsTree(disk), NothingLost,
                      NEW before \in [Nat -> Disk], NEW after \in [Nat -> Disk], WayBack(before, after)
               PROVE  IsTree(disk)' /\ NothingLost' /\ WayBack(before, after)'
  BY <1>1, <1>2 DEF BackInv
<1>4. disk \in Disk /\ disk'[p] = "foreign" /\ \A q \in Paths : q # p => disk'[q] = disk[q]
  BY <1>1, KindsStored DEF Disk
<1>5. IsTree(disk)'
  <2>1. IsTree([disk EXCEPT ![p] = "foreign"])
    BY <1>1, <1>3, <1>4, FreeBelow, PutTree DEF Entries
  <2>2. QED
    BY <1>1, <2>1 DEF IsTree
<1>6. NothingLost'
  <2>1. ASSUME NEW c \in Paths, IsFile(first[c]) PROVE Held(c)'
    <3>1. OnDisk(disk, c) \/ \E i \in 1..Len(journal) : Archived(archive, journal[i].id, c)
      BY <1>3, <2>1, HeldIs DEF NothingLost
    <3>2. OnDisk(disk, c) => OnDisk(disk', c)
      BY <1>1, <1>4, PathsAssumption DEF OnDisk
    <3>3. QED
      BY <1>1, <3>1, <3>2 DEF Held, OnDisk, Archived
  <2>2. QED
    BY <1>2, <2>1 DEF NothingLost
<1>7. WayBack(before, after)'
  <2>1. Like(disk', disk)
    BY <1>1, <1>4 DEF Like, LikeAt
  <2>2. Like(disk', At(after, K))
    BY <1>3, <2>1, LikeAll DEF WayBack
  <2>3. QED
    BY <1>1, <1>2, <1>3, <2>2 DEF WayBack, At
<1>8. QED
  BY <1>5, <1>6, <1>7

LEMMA BackStep ==
  ASSUME Kinds, BackInv, [Next]_vars
  PROVE  BackInv'
<1>1. CASE Call
  BY <1>1, CallsDone, BackCall
<1>2. CASE StartUnwind
  BY <1>2, BackStart
<1>3. CASE Compensate
  BY <1>3, BackCompensate
<1>4. CASE Blocked
  BY <1>4 DEF Blocked, BackInv
<1>5. CASE Land
  BY <1>5, BackLand
<1>6. CASE ResumeUnwind
  <2>1. used.unwinds > 0 /\ used.unwinds \in Nat /\ used'.unwinds = used.unwinds + 1
    BY <1>6, UsedIs, JournalFacts DEF ResumeUnwind, PhasesOf
  <2>2. QED
    BY <2>1 DEF BackInv, Straight
<1>7. CASE Reload
  <2>1. used.reloads \in Nat /\ used'.reloads = used.reloads + 1
    BY <1>7, UsedIs, JournalFacts DEF Reload
  <2>2. QED
    BY <2>1 DEF BackInv, Straight
<1>8. CASE \E p \in Paths : Outside(p)
  BY <1>8, BackOutside
<1>9. CASE UNCHANGED vars
  <2>1. UNCHANGED <<first, disk, archive, journal, phase, cursor, failed, used>>
    BY <1>9 DEF vars
  <2>2. QED
    BY <2>1 DEF BackInv, Straight, IsTree, NothingLost, Held, WayBack, K, At, Like
<1>10. QED
  BY <1>1, <1>2, <1>3, <1>4, <1>5, <1>6, <1>7, <1>8, <1>9 DEF Next

LEMMA BackHolds == Spec => [](Kinds /\ BackInv)
<1>1. Init => Kinds /\ BackInv
  BY KindsInit, BackInit
<1>2. Kinds /\ BackInv /\ [Next]_vars => (Kinds /\ BackInv)'
  BY KindsStep, BackStep
<1>3. QED
  BY <1>1, <1>2, PTL DEF Spec

(* What the run found at a path, when every receipt has been undone. *)
LEMMA CleanIsBack ==
  ASSUME Kinds, BackInv, Straight, phase = "clean"
  PROVE  Like(disk, first)
<1>1. ~failed /\ K = 0
  BY JournalFacts DEF PhasesOf, K
<1>2. PICK before \in [Nat -> Disk], after \in [Nat -> Disk] : WayBack(before, after)
  BY <1>1 DEF BackInv
<1>3. QED
  BY <1>1, <1>2 DEF WayBack, At

(* No sequence of calls, of calls that failed part way, of undos and of    *)
(* other programs' writes loses a file the run found, as long as no        *)
(* compensation failed: archiveOccupant, RestoreFile and the receipts'     *)
(* ids keep it on disk or in an archive that can be found.                 *)
THEOREM NothingIsLost == Spec => []OriginalsRecoverable
<1>1. ASSUME Kinds, BackInv PROVE OriginalsRecoverable
  <2> SUFFICES ASSUME NEW p \in Paths, Straight, IsFile(first[p]), ~failed
               PROVE  Held(p) \/ (phase = "clean" /\ disk[p] = "dir")
    BY DEF OriginalsRecoverable
  <2>1. CASE phase # "clean"
    BY <1>1, <2>1 DEF BackInv, NothingLost
  <2>2. CASE phase = "clean"
    <3>1. LikeAt(disk[p], first[p])
      BY <1>1, <2>2, CleanIsBack DEF Like
    <3>2. first[p] \in {"absent", "dir", p}
      BY <1>1, DisksAssumption DEF Kinds, TypeOK
    <3>3. first[p] = p
      BY <3>2 DEF IsFile
    <3>4. disk[p] = p \/ disk[p] = "dir"
      BY <3>1, <3>3, PathsAssumption DEF LikeAt
    <3>5. QED
      BY <2>2, <3>4 DEF Held
  <2>3. QED
    BY <2>1, <2>2
<1>2. QED
  BY <1>1, BackHolds, PTL

(* A clean unwind of receipts that were never reloaded gives back, path by *)
(* path, what the run found, unless another program interfered; only a     *)
(* directory may be left over.                                             *)
THEOREM CleanUndoGivesBack == Spec => []CleanUndoRestores
<1>1. ASSUME Kinds, BackInv PROVE CleanUndoRestores
  <2> SUFFICES ASSUME phase = "clean", used.outside = 0, Straight, NEW p \in Paths
               PROVE  disk[p] = first[p] \/ (disk[p] = "dir" /\ first[p] # "dir")
    BY DEF CleanUndoRestores, AsFound
  <2>1. LikeAt(disk[p], first[p])
    BY <1>1, CleanIsBack DEF Like
  <2>2. disk[p] # "foreign"
    BY <1>1, JournalFacts DEF Seen
  <2>3. QED
    BY <2>1, <2>2 DEF LikeAt
<1>2. QED
  BY <1>1, BackHolds, PTL

-----------------------------------------------------------------------------
(* What another program made at a path a receipt is not about. *)
LEMMA RestoredSpares ==
  ASSUME NEW d, NEW r, NEW p \in Paths, d[p] = "foreign", p \notin Tree(r.path)
  PROVE  Restored(d, r).disk[p] = "foreign"
BY DEF Restored, Undone, WithParents

LEMMA UndoSpares ==
  ASSUME Kinds, NEW r \in Receipts, NEW p \in Paths, disk[p] = "foreign",
         p # r.path, p # r.source,
         r.kind = "create_dir" => r.boundary \in Above[r.path] \cup {Top}
  PROVE  CompensateFileMutation(r).disk[p] = "foreign"
<1> DEFINE q == r.path
<1>1. q \in Paths /\ q \notin Below(q) /\ IsFile(disk[p]) /\ Failed.disk[p] = "foreign"
  BY PathFacts DEF Receipts, IsFile, Failed, Undone
<1>1a. disk \in Disk /\ Tree(q) = {q} \cup Below(q)
  BY <1>1, KindsStored, PathFacts
<1>2. CompensateWrite(r).disk[p] = "foreign"
  <2> DEFINE one  == [disk EXCEPT ![q] = "absent"]
             back == Restored(one, r)
             gone == Removable(back.disk, Chain(Above[q], r.boundary))
  <2>1. CASE ~Reachable(disk, q) \/ ~Empty(disk, q)
    BY <1>1, <2>1 DEF CompensateWrite
  <2>2. CASE Reachable(disk, q) /\ Empty(disk, q)
    <3>1. p \notin Above[q] /\ p \notin Tree(q)
      BY <1>1, <1>1a, <2>2 DEF Reachable, Empty
    <3>2. one[p] = "foreign"
      BY <1>1, <1>1a DEF Disk
    <3>3. back.disk[p] = "foreign"
      <4> HIDE DEF one
      <4> QED  BY <3>1, <3>2, RestoredSpares
    <3>4. p \notin gone
      BY <3>1 DEF Removable, Chain
    <3>5. Without(back.disk, gone)[p] = "foreign"
      <4> HIDE DEF back, gone
      <4> QED  BY <3>3, <3>4 DEF Without
    <3>6. CompensateWrite(r) = IF r.boundary = None THEN back
                               ELSE [back EXCEPT !.disk = Without(back.disk, gone)]
      BY <2>2 DEF CompensateWrite
    <3>7. back = Undone(back.ok, back.disk, back.archive)
      BY DEF Restored, Undone
    <3>8. QED
      <4> HIDE DEF back, gone
      <4> QED  BY <3>3, <3>5, <3>6, <3>7 DEF Undone
  <2>3. QED
    BY <2>1, <2>2
<1>3. ASSUME r.kind = "create_dir" PROVE CompensateMakeDir(r).disk[p] = "foreign"
  <2> DEFINE chain == Chain({q} \cup Above[q], r.boundary)
             gone  == Removable(disk, chain)
             left  == Without(disk, gone)
  <2>1. CASE ~Reachable(disk, q)
    BY <1>1, <2>1 DEF CompensateMakeDir
  <2>2. CASE Reachable(disk, q)
    <3>1. p \notin Above[q]
      BY <1>1, <2>2 DEF Reachable
    <3>2. p \notin gone
      BY <3>1 DEF Removable, Chain
    <3>3. left[p] = "foreign"
      <4> HIDE DEF gone
      <4> QED  BY <3>2 DEF Without
    <3>4. CASE gone = chain
      <4>1. q \in chain
        BY <1>1, <1>3, PathFacts, PathsAssumption DEF Chain
      <4>2. p \notin Below(q)
        <5>1. p \notin chain
          BY <3>2, <3>4
        <5>2. \A x \in Below(q) \ chain : disk[x] = "absent"
          BY <3>4, <4>1 DEF Removable
        <5>3. QED
          BY <5>1, <5>2
      <4>3. Restored(left, r).disk[p] = "foreign"
        <5> HIDE DEF left
        <5> QED  BY <1>1a, <3>3, <4>2, RestoredSpares
      <4>4. CompensateMakeDir(r) = Restored(left, r)
        BY <2>2, <3>4 DEF CompensateMakeDir
      <4>5. QED
        BY <4>3, <4>4
    <3>5. CASE gone # chain
      <4>1. CompensateMakeDir(r) = Undone(TRUE, left, archive)
        BY <2>2, <3>5 DEF CompensateMakeDir
      <4>2. QED
        <5> HIDE DEF left
        <5> QED  BY <3>3, <4>1 DEF Undone
    <3>6. QED
      BY <3>4, <3>5
  <2>3. QED
    BY <2>1, <2>2
<1>4. ASSUME r.source \in Paths PROVE CompensateMove(r).disk[p] = "foreign"
  <2> DEFINE back == [disk EXCEPT ![r.source] = disk[q], ![q] = "absent"]
  <2>1. back[p] = "foreign"
    BY <1>1, <1>1a DEF Disk
  <2>2. CASE ~Empty(disk, q)
    BY <1>1, <2>2 DEF CompensateMove
  <2>3. CASE Empty(disk, q)
    <3>1. p \notin Tree(q)
      BY <1>1a, <2>3 DEF Empty
    <3>2. \/ CompensateMove(r) = Failed
          \/ CompensateMove(r) = Undone(FALSE, back, archive)
          \/ CompensateMove(r) = Restored(back, r)
      BY DEF CompensateMove
    <3> HIDE DEF back
    <3>3. Restored(back, r).disk[p] = "foreign" /\ Undone(FALSE, back, archive).disk[p] = "foreign"
      BY <2>1, <3>1, RestoredSpares DEF Undone
    <3>4. QED
      BY <1>1, <3>2, <3>3
  <2>4. QED
    BY <2>2, <2>3
<1>5. r.source # None => r.source \in Paths
  BY DEF Receipts
<1>6. QED
  BY <1>2, <1>3, <1>4, <1>5 DEF CompensateFileMutation

(* pruneTowardBoundary, RemoveAll of an empty chain and RestoreFile's      *)
(* renames never take away what another program made where no receipt of   *)
(* this run points: no undo of any run, retried, blocked or reloaded.      *)
THEOREM ForeignFilesSurvive == Spec => ForeignSurvives
<1>1. ASSUME Kinds, Next, NEW p \in Paths, phase = "unwinding", disk[p] = "foreign",
             \A i \in 1..Len(journal) : p \notin {journal[i].path, journal[i].source}
      PROVE  disk'[p] = "foreign"
  <2>1. CASE Call
    BY <1>1, <2>1, CallsDone DEF CallDone, Spent
  <2>2. CASE StartUnwind \/ Blocked \/ Land \/ ResumeUnwind \/ Reload
    BY <1>1, <2>2 DEF StartUnwind, Blocked, Land, ResumeUnwind, Reload
  <2>3. CASE Compensate
    <3>1. cursor \in 1..Len(journal)
      BY <1>1, <2>3, JournalFacts DEF Compensate
    <3>2. PICK r \in Receipts : r = journal[cursor]
      BY <1>1, <3>1, JournalFacts
    <3>3. /\ p # r.path /\ p # r.source
          /\ r.kind = "create_dir" => r.boundary \in Above[r.path] \cup {Top}
      BY <1>1, <3>1, <3>2, JournalFacts DEF Boundaries
    <3>4. disk' = CompensateFileMutation(r).disk
      BY <2>3, <3>2 DEF Compensate
    <3>5. QED
      BY <1>1, <3>3, <3>4, UndoSpares
  <2>4. CASE \E q \in Paths : Outside(q)
    <3>1. PICK q \in Paths : disk[q] = "absent" /\ disk' = [disk EXCEPT ![q] = "foreign"]
      BY <2>4 DEF Outside
    <3>2. disk \in Disk
      BY <1>1, KindsStored
    <3>3. QED
      BY <1>1, <3>1, <3>2 DEF Disk
  <2>5. QED
    BY <1>1, <2>1, <2>2, <2>3, <2>4 DEF Next
<1>2. Kinds /\ [Next]_vars =>
        [\A p \in Paths :
           /\ phase = "unwinding" /\ disk[p] = "foreign"
           /\ \A i \in 1..Len(journal) : p \notin {journal[i].path, journal[i].source}
           => disk'[p] = "foreign"]_vars
  BY <1>1
<1>3. QED
  BY <1>2, KindsHold, PTL DEF Spec, ForeignSurvives

=============================================================================
