------------------------------ MODULE FileUndo ------------------------------
(***************************************************************************)
(* The file provider's mutations and their undo (pkg/op/provider/file),    *)
(* with the archive of pkg/op/recovery_site.go and the part of Unwind,     *)
(* ResumeUnwind and the trace that decides which receipts are compensated, *)
(* in which order, how often, and what a reload left of them.  A call is   *)
(* one action: concurrent calls are ResourceCatalog's subject.  The        *)
(* conflict policy is replace; stop and skip change nothing.               *)
(***************************************************************************)
EXTENDS Integers, Sequences

CONSTANTS
  Paths,       \* the paths a run may touch, below the scoped root
  Top,         \* the scoped root itself
  Above,       \* [Paths -> SUBSET Paths]: the proper ancestors of each path
  Disks,       \* the disks a run may find
  Ops,         \* the provider's methods the plan calls
  None,        \* no boundary, no source
  MaxOps, MaxFaults, MaxOutside, MaxUnwinds, MaxReloads

(* What a path holds: nothing, a directory, the file it held when the run  *)
(* began (named by that path), a file or a link the run made, or a file    *)
(* another program made.  A link designates a file.                        *)
Entries == {"absent", "dir", "written", "link", "foreign"} \cup Paths

(* Paths form a forest; of any ancestors of a path one is the nearest.  What  *)
(* a run finds is a tree of directories with files at its leaves.            *)
ASSUME PathsAssumption ==
  /\ Above \in [Paths -> SUBSET Paths]
  /\ \A p \in Paths : p \notin Above[p] /\ \A q \in Above[p] : Above[q] \subseteq Above[p]
  /\ \A p \in Paths : \A ps \in (SUBSET Above[p]) \ {{}} :
       \E q \in ps : ps \subseteq Above[q] \cup {q}
  /\ Top \notin Paths /\ None \notin Paths \cup {Top}
  /\ Paths \cap {"absent", "dir", "written", "link", "foreign"} = {}
ASSUME DisksAssumption ==
  /\ Disks \subseteq [Paths -> {"absent", "dir"} \cup Paths]
  /\ \A d \in Disks : \A p \in Paths :
       /\ d[p] \in {"absent", "dir", p}
       /\ d[p] # "absent" => \A q \in Above[p] : d[q] = "dir"
ASSUME BoundsAssumption ==
  {MaxOps, MaxFaults, MaxOutside, MaxUnwinds, MaxReloads} \subseteq Nat

VARIABLES
  first,     \* the disk the run found (history)
  disk,      \* [Paths -> Entries]
  archive,   \* the recovery site: each archived tree, under the path it came from
  journal,   \* the recovery stack: one receipt per mutation, oldest first
  phase,     \* "running", "unwinding", "clean" or "dirty"
  cursor,    \* the entry the unwind compensates next
  failed,    \* the unwind has met a compensation that failed
  undone,    \* entries some unwind compensated successfully (history)
  used       \* [bound -> how much of it was used]

vars == <<first, disk, archive, journal, phase, cursor, failed, undone, used>>

-----------------------------------------------------------------------------
(* Trees.                                                                  *)
Below(p) == {q \in Paths : p \in Above[q]}
Tree(p) == {p} \cup Below(p)
Blank == [p \in Paths |-> "absent"]
IsFile(e) == e \notin {"absent", "dir"}
Empty(d, p) == \A q \in Below(p) : d[q] = "absent"
(* No component above p is a file: the kernel does not answer ENOTDIR.     *)
Reachable(d, p) == \A q \in Above[p] : ~IsFile(d[q])
WithParents(d, p) == [q \in Paths |-> IF q \in Above[p] /\ d[q] = "absent" THEN "dir" ELSE d[q]]
(* The directories from p up to a boundary, which is not among them.       *)
Chain(ps, b) == IF b = Top THEN ps ELSE ps \ ({b} \cup Above[b])
(* remove() from the deepest of chain upwards, up to the first that is not *)
(* empty: it takes files and missing entries in its stride.                *)
Removable(d, chain) == {q \in chain : \A r \in Below(q) \ chain : d[r] = "absent"}
Without(d, ps) == [q \in Paths |-> IF q \in ps THEN "absent" ELSE d[q]]

(* findClosestExistingDir: the nearest of ps that exists; a file will do.  *)
ClosestExisting(d, ps) ==
  LET there == {q \in ps : d[q] # "absent"}
  IN IF there = {} THEN Top ELSE CHOOSE q \in there : there \subseteq Above[q] \cup {q}

(* What the rename of RestoreFile and of a move replaces at its target.    *)
Gives(d, e, p) == \/ d[p] = "absent"
                  \/ IsFile(d[p]) /\ IsFile(e)
                  \/ d[p] = "dir" /\ e = "dir" /\ Empty(d, p)

Used(b) == [used EXCEPT ![b] = @ + 1]
Spend(f) == [used EXCEPT !.ops = @ + 1, !.faults = @ + IF f = "none" THEN 0 ELSE 1]
Calling(op, f) ==
  /\ phase = "running" /\ op \in Ops /\ used.ops < MaxOps
  /\ f = "none" \/ used.faults < MaxFaults
  /\ used' = Spend(f)

Receipt(kind, p, source, boundary, id) ==
  [kind |-> kind, path |-> p, source |-> source, boundary |-> boundary, id |-> id]
Receipts == [kind : {"create_file", "update_file", "delete_file", "create_dir"}, path : Paths,
             source : Paths \cup {None}, boundary : Paths \cup {Top, None}, id : 0..MaxOps]
Journal(r) == journal' = Append(journal, r)

(* ArchiveFile: one rename takes the entry and all below it away.          *)
Snapshot(d, p) == [q \in Paths |-> IF q \in Tree(p) THEN d[q] ELSE "absent"]
Archive(p) == archive' = Append(archive, Snapshot(disk, p))
NextId == Len(archive) + 1

-----------------------------------------------------------------------------
TypeOK ==
  /\ first \in Disks
  /\ disk \in [Paths -> Entries]
  /\ archive \in Seq([Paths -> Entries]) /\ Len(archive) <= used.ops
  /\ journal \in Seq(Receipts)
  /\ \A i \in 1..Len(journal) : journal[i].id <= Len(archive)
  /\ phase \in {"running", "unwinding", "clean", "dirty"}
  /\ cursor \in 0..Len(journal) /\ failed \in BOOLEAN /\ undone \subseteq Nat
  /\ used \in [{"ops", "faults", "outside", "unwinds", "reloads"} -> Nat]
  /\ used.ops <= MaxOps

Init ==
  /\ first \in Disks /\ disk = first
  /\ archive = <<>> /\ journal = <<>>
  /\ phase = "running" /\ cursor = 0 /\ failed = FALSE /\ undone = {}
  /\ used = [b \in {"ops", "faults", "outside", "unwinds", "reloads"} |-> 0]

Unwound == <<phase, cursor, failed, undone, first>>

-----------------------------------------------------------------------------
(* stageWrite, an occupied target: a populated directory is refused, what  *)
(* else stands there is archived.                                          *)
Overwritable(p) == disk[p] # "absent" /\ ~(disk[p] = "dir" /\ ~Empty(disk, p))
(* stageWrite, a free target: parents are made up to the boundary.         *)
Free(p) == disk[p] = "absent" /\ Reachable(disk, p)
Created(p, kind) == Receipt(kind, p, None, ClosestExisting(disk, Above[p]), 0)

(* A mkdirAll that fails part way: its error drops the spec, so what it    *)
(* made has no receipt.                                                    *)
StageFails(op, p) ==
  /\ op \in {"write", "move"} /\ Calling(op, "parents")
  /\ Free(p)
  /\ \E made \in {q \in Above[p] : disk[q] = "absent"} :
       disk' = [WithParents(disk, made) EXCEPT ![made] = "absent"]
  /\ UNCHANGED <<archive, journal, Unwound>>

(* write and Copy: "unopened" fails before anything is at the target (a    *)
(* copy's source may be the file just archived), "partial" after.  Both    *)
(* hand out the receipt.                                                   *)
WriteNew(p, f) ==
  /\ Calling("write", f) /\ f \in {"none", "unopened", "partial"}
  /\ Free(p)
  /\ disk' = [WithParents(disk, p) EXCEPT ![p] = IF f = "unopened" THEN @ ELSE "written"]
  /\ Journal(Created(p, "create_file"))
  /\ UNCHANGED <<archive, Unwound>>

WriteOver(p, f) ==
  /\ Calling("write", f) /\ f \in {"none", "unopened", "partial"}
  /\ Overwritable(p)
  /\ Archive(p)
  /\ disk' = [Without(disk, Tree(p)) EXCEPT ![p] = IF f = "unopened" THEN @ ELSE "written"]
  /\ Journal(Receipt("update_file", p, None, None, NextId))
  /\ UNCHANGED Unwound

(* Link: any lstat failure counts as a free target, the boundary may then  *)
(* be a file and the parents fail; archiveOccupant takes whole trees.  A   *)
(* link that is already right is left alone.                               *)
LinkNew(p, f) ==
  /\ Calling("link", f) /\ f \in {"none", "unopened"}
  /\ disk[p] = "absent"
  /\ disk' = IF Reachable(disk, p)
             THEN [WithParents(disk, p) EXCEPT ![p] = IF f = "none" THEN "link" ELSE @]
             ELSE disk
  /\ Journal(Created(p, "create_file"))
  /\ UNCHANGED <<archive, Unwound>>

LinkOver(p, f) ==
  /\ Calling("link", f) /\ f \in {"none", "unopened"}
  /\ disk[p] \notin {"absent", "link"}
  /\ Archive(p)
  /\ disk' = [Without(disk, Tree(p)) EXCEPT ![p] = IF f = "none" THEN "link" ELSE @]
  /\ Journal(Receipt("update_file", p, None, None, NextId))
  /\ UNCHANGED Unwound

(* Mkdir: a directory that exists makes no receipt.                        *)
MkdirNew(p, f) ==
  /\ Calling("mkdir", f) /\ f \in {"none", "unopened"}
  /\ disk[p] = "absent"
  /\ disk' = IF Reachable(disk, p)
             THEN [WithParents(disk, p) EXCEPT ![p] = IF f = "none" THEN "dir" ELSE @]
             ELSE disk
  /\ Journal(Created(p, "create_dir"))
  /\ UNCHANGED <<archive, Unwound>>

(* archiveMkdirOccupant: the occupant's id travels on the directory's receipt. *)
MkdirOverUnnamed(p, f) ==
  /\ Calling("mkdir", f) /\ f \in {"none", "unopened"}
  /\ IsFile(disk[p])
  /\ Archive(p)
  /\ disk' = [disk EXCEPT ![p] = IF f = "none" THEN "dir" ELSE "absent"]
  /\ Journal(Created(p, "create_dir"))
  /\ UNCHANGED Unwound
MkdirOver(p, f) ==
  /\ Calling("mkdir", f) /\ f \in {"none", "unopened"}
  /\ IsFile(disk[p])
  /\ Archive(p)
  /\ disk' = [disk EXCEPT ![p] = IF f = "none" THEN "dir" ELSE "absent"]
  /\ Journal([Created(p, "create_dir") EXCEPT !.id = NextId])
  /\ UNCHANGED Unwound

(* Move (and Backup) of a file or a link.  A rename that fails puts the    *)
(* archived target back and makes no receipt.                              *)
MoveNew(p, to, f) ==
  /\ Calling("move", f) /\ f \in {"none", "rename"}
  /\ IsFile(disk[p]) /\ Free(to)
  /\ LET staged == WithParents(disk, to)
     IN IF f = "none"
        THEN /\ disk' = [staged EXCEPT ![to] = disk[p], ![p] = "absent"]
             /\ Journal([Created(to, "create_file") EXCEPT !.source = p])
        ELSE disk' = staged /\ UNCHANGED journal
  /\ UNCHANGED <<archive, Unwound>>

MoveOver(p, to, f) ==
  /\ Calling("move", f) /\ f \in {"none", "rename"}
  /\ IsFile(disk[p]) /\ Overwritable(to)
  /\ IF f = "none" /\ p # to
     THEN /\ Archive(to)
          /\ disk' = [Without(disk, Tree(to)) EXCEPT ![to] = disk[p], ![p] = "absent"]
          /\ Journal(Receipt("update_file", to, p, None, NextId))
     ELSE /\ archive' = Append(archive, Blank)
          /\ UNCHANGED <<disk, journal>>
  /\ UNCHANGED Unwound

(* removeEntry behind Remove and RemoveAll: only the first refuses a       *)
(* populated directory.  Pruning stops at the scoped root.                 *)
RemoveEntry(op, p, prune) ==
  /\ Calling(op, "none")
  /\ disk[p] # "absent"
  /\ op = "remove" => Overwritable(p)
  /\ Archive(p)
  /\ LET gone == Without(disk, Tree(p))
     IN disk' = IF prune THEN Without(gone, Removable(gone, Above[p])) ELSE gone
  /\ Journal(Receipt("delete_file", p, None, None, NextId))
  /\ UNCHANGED Unwound

-----------------------------------------------------------------------------
(* Compensation: what a receipt's undo leaves of disk and archive, and     *)
(* whether it reports success.                                             *)
Undone(ok, d, a) == [ok |-> ok, disk |-> d, archive |-> a]
Failed == Undone(FALSE, disk, archive)

(* RestoreFile: the parents are made again, the tree is renamed back.      *)
Restored(d, r) ==
  LET tree == archive[r.id]
  IN IF r.id = 0 \/ tree = Blank THEN Undone(TRUE, d, archive)
     ELSE Undone(TRUE,
                 [q \in Paths |-> IF q \in Tree(r.path) THEN tree[q] ELSE WithParents(d, r.path)[q]],
                 [archive EXCEPT ![r.id] = Blank])

(* compensateWrite: always remove, tolerate a missing archive, prune.      *)
CompensateWrite(r) ==
  IF ~Reachable(disk, r.path) \/ ~Empty(disk, r.path) THEN Failed
  ELSE LET back == Restored([disk EXCEPT ![r.path] = "absent"], r)
       IN IF r.boundary = None THEN back
          ELSE [back EXCEPT !.disk = Without(@, Removable(@, Chain(Above[r.path], r.boundary)))]

(* compensateMakeDir: a directory something else lives in stays, without   *)
(* an error and without its displaced occupant.                            *)
RemoveAllBelow(r) == Restored(Without(disk, Tree(r.path)), r)
CompensateMakeDir(r) ==
  IF ~Reachable(disk, r.path) THEN Failed
  ELSE LET chain == Chain({r.path} \cup Above[r.path], r.boundary)
           left == Without(disk, Removable(disk, chain))
       IN IF Removable(disk, chain) = chain THEN Restored(left, r) ELSE Undone(TRUE, left, archive)

(* compensateMove: rename back, over whatever file is there; then the      *)
(* archived target, whose absence is an error here.  Only entries with     *)
(* nothing below them are renamed.                                         *)
CompensateMove(r) ==
  LET entry == disk[r.path]
      back == [disk EXCEPT ![r.source] = entry, ![r.path] = "absent"]
  IN IF \/ entry = "absent" \/ ~Empty(disk, r.path)
        \/ \E q \in Above[r.source] : disk[q] # "dir"
        \/ ~Gives(disk, entry, r.source)
     THEN Failed
     ELSE IF r.id # 0 /\ archive[r.id] = Blank THEN Undone(FALSE, back, archive)
     ELSE Restored(back, r)

(* CompensateFileMutation: the kind, and for a file the source, decide.    *)
CompensateFileMutation(r) ==
  CASE r.kind = "create_dir" -> CompensateMakeDir(r)
    [] r.kind # "create_dir" /\ r.source # None -> CompensateMove(r)
    [] OTHER -> CompensateWrite(r)

-----------------------------------------------------------------------------
(* failAndUnwind.                                                          *)
StartUnwind ==
  /\ phase = "running" /\ used.ops > 0
  /\ phase' = "unwinding" /\ cursor' = Len(journal) /\ failed' = FALSE
  /\ used' = Used("unwinds")
  /\ UNCHANGED <<first, disk, archive, journal, undone>>

(* Unwind: newest first, past every failure.                               *)
OldestFirst ==
  /\ phase = "unwinding" /\ cursor > 0
  /\ LET u == CompensateFileMutation(journal[Len(journal) + 1 - cursor])
     IN /\ disk' = u.disk /\ archive' = u.archive
        /\ failed' = (failed \/ ~u.ok)
        /\ undone' = IF u.ok THEN undone \cup {cursor} ELSE undone
  /\ cursor' = cursor - 1
  /\ UNCHANGED <<first, journal, phase, used>>
Compensate ==
  /\ phase = "unwinding" /\ cursor > 0
  /\ LET u == CompensateFileMutation(journal[cursor])
     IN /\ disk' = u.disk /\ archive' = u.archive
        /\ failed' = (failed \/ ~u.ok)
        /\ undone' = IF u.ok THEN undone \cup {cursor} ELSE undone
  /\ cursor' = cursor - 1
  /\ UNCHANGED <<first, journal, phase, used>>

(* A permission, a busy file: the compensation fails before it does anything. *)
Blocked ==
  /\ phase = "unwinding" /\ cursor > 0 /\ used.faults < MaxFaults
  /\ cursor' = cursor - 1 /\ failed' = TRUE
  /\ used' = Used("faults")
  /\ UNCHANGED <<first, disk, archive, journal, phase, undone>>

Land ==
  /\ phase = "unwinding" /\ cursor = 0
  /\ IF failed THEN phase' = "dirty" /\ UNCHANGED journal
               ELSE phase' = "clean" /\ journal' = <<>>
  /\ UNCHANGED <<first, disk, archive, cursor, failed, undone, used>>

(* ResumeUnwind: every entry again.                                        *)
ResumeUnwind ==
  /\ phase = "dirty" /\ used.unwinds < MaxUnwinds
  /\ phase' = "unwinding" /\ cursor' = Len(journal) /\ failed' = FALSE
  /\ used' = Used("unwinds")
  /\ UNCHANGED <<first, disk, archive, journal, undone>>

(* The trace is saved and loaded, by a pause and a resume or after a dirty *)
(* unwind.  A receipt names its resources by catalog id, and the source of *)
(* a move is a candidate that never had one.  Any other journal comes back *)
(* as it was, so only reloads that lose a source are steps.                *)
Reloaded(r) == [r EXCEPT !.source = None]
Reload ==
  /\ phase \in {"running", "dirty"} /\ used.reloads < MaxReloads
  /\ \E i \in 1..Len(journal) : journal[i].source # None
  /\ journal' = [i \in 1..Len(journal) |-> Reloaded(journal[i])]
  /\ used' = Used("reloads")
  /\ UNCHANGED <<first, disk, archive, phase, cursor, failed, undone>>

(* Another program creates a file in a directory that exists.              *)
Outside(p) ==
  /\ used.outside < MaxOutside /\ phase \in {"running", "unwinding"}
  /\ disk[p] = "absent" /\ \A q \in Above[p] : disk[q] = "dir"
  /\ disk' = [disk EXCEPT ![p] = "foreign"]
  /\ used' = Used("outside")
  /\ UNCHANGED <<archive, journal, Unwound>>

Faults == {"none", "unopened", "partial", "rename"}
Call ==
  \E p \in Paths :
    \/ \E op \in {"write", "move"} : StageFails(op, p)
    \/ \E f \in Faults :
         \/ WriteNew(p, f) \/ WriteOver(p, f) \/ LinkNew(p, f) \/ LinkOver(p, f)
         \/ MkdirNew(p, f) \/ MkdirOver(p, f)
         \/ \E to \in Paths : MoveNew(p, to, f) \/ MoveOver(p, to, f)
    \/ \E op \in {"remove", "removeAll"}, prune \in BOOLEAN : RemoveEntry(op, p, prune)

Next ==
  \/ Call
  \/ StartUnwind \/ Compensate \/ Blocked \/ Land \/ ResumeUnwind \/ Reload
  \/ \E p \in Paths : Outside(p)

Spec == Init /\ [][Next]_vars

-----------------------------------------------------------------------------
(* Where the content c can still be had: on disk, or in an archive that a  *)
(* receipt names.                                                          *)
Held(c) ==
  \/ \E p \in Paths : disk[p] = c
  \/ \E i \in 1..Len(journal) :
       journal[i].id # 0 /\ \E p \in Paths : archive[journal[i].id][p] = c

(* Every entry was compensated once at most, from a receipt that names all *)
(* it named when it was journaled.                                         *)
Straight == used.unwinds <= 1 /\ used.reloads = 0

(* No sequence of calls, failures and undos loses a file the run found, as *)
(* long as no compensation has failed: it is on disk or in an archive the  *)
(* journal names, until the unwind lands clean.  The one exception is the  *)
(* one compensateMakeDir documents: a file that gave way to a directory    *)
(* something still lives in.                                               *)
OriginalsRecoverable ==
  \A p \in Paths : Straight /\ IsFile(first[p]) /\ ~failed =>
    Held(p) \/ (phase = "clean" /\ disk[p] = "dir")

(* A clean unwind restores what the run found, path by path, unless        *)
(* another program interfered.  What may be left over is a directory: of a *)
(* mkdirAll that failed or of a move's target, which are not pruned.       *)
AsFound == \A p \in Paths : disk[p] = first[p] \/ (disk[p] = "dir" /\ first[p] # "dir")
CleanUndoRestores == phase = "clean" /\ used.outside = 0 /\ Straight => AsFound

(* failAndUnwind: "a clean unwind means" the world is back as it was; a    *)
(* run resumed from its trace is unwound from receipts that were reloaded. *)
ResumedUndoRestores == phase = "clean" /\ used.outside = 0 /\ used.unwinds <= 1 => AsFound

(* Undoing leaves alone what another program made at a path no receipt is  *)
(* about: removals stop at directories that are not empty.                 *)
ForeignSurvives ==
  [][\A p \in Paths :
       /\ phase = "unwinding" /\ disk[p] = "foreign"
       /\ \A i \in 1..Len(journal) : p \notin {journal[i].path, journal[i].source}
       => disk'[p] = "foreign"]_vars

(* ResumeUnwind relies on this: undoing again what was undone does nothing. *)
UndoneStaysUndone ==
  [][phase = "unwinding" /\ cursor \in undone /\ cursor' # cursor => disk' = disk]_vars
=============================================================================
