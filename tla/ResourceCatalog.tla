--------------------------- MODULE ResourceCatalog ---------------------------
(***************************************************************************)
(* The run's resource ledger (op.ResourceCatalog) and the callers that     *)
(* drive it while a graph runs: the file provider's write, remove and      *)
(* discover actions, the constructors of content resources, the claim      *)
(* verification a scope does, and the save / resume round trip.            *)
(*                                                                         *)
(* Every catalog method holds the mutex for one step; the calls made of    *)
(* several methods (Discover, GetOrCreate, VerifyExistence) and the        *)
(* provider's own disk accesses interleave with those of every other       *)
(* caller, as the iterations of one flow.gather do.                        *)
(*                                                                         *)
(* A URI is a namespace key; the kinds of the file taxonomy, etags and     *)
(* digests are abstracted.                                                 *)
(***************************************************************************)
EXTENDS Naturals, Sequences

CONSTANTS Actors,       \* the units in flight at once
          Locations,    \* location-addressed keys (paths)
          Contents,     \* content-addressed keys
          CallerIDs,    \* the ids a caller may stamp
          NoCaller,     \* the empty id
          CallerOf,     \* CallerOf[a]: the id a's activation carries
          Intent,       \* the intent rows the run's catalog starts from
          MaxCalls,     \* bound: calls each actor makes
          MaxOutside,   \* bound: changes of the disk by somebody else
          MaxResumes    \* bound: save / resume round trips

Keys == Locations \cup Contents
Callers == CallerIDs \cup {NoCaller}
NoID == 0

\* ResourceState
States == {"Pending", "Active", "Gone"}

\* A ledger generation: what the catalog stamps on a Resource's base.
Rows == [id : Nat \ {NoID}, key : Keys, producer : Callers]

ASSUME KeysAssumption == Locations \cap Contents = {}
ASSUME CallersAssumption == /\ NoCaller \notin CallerIDs
                            /\ CallerOf \in [Actors -> Callers]
ASSUME IntentAssumption ==
  /\ Intent \in Seq([id : Nat \ {NoID}, key : Keys])
  /\ \A i, j \in DOMAIN Intent : i < j => /\ Intent[i].id < Intent[j].id
                                          /\ Intent[i].key # Intent[j].key
ASSUME BoundsAssumption == MaxCalls \in Nat /\ MaxOutside \in Nat /\ MaxResumes \in Nat

VARIABLES
  entries,     \* the generations in append order
  byID,        \* id -> index in entries
  ns,          \* key -> current id
  states,      \* id -> lifecycle state
  destroyers,  \* id -> the unit that destroyed it
  nextID,      \* the id counter
  disk,        \* location -> whether an entry exists there
  actor,       \* where each actor is in its current call
  calls,       \* calls each actor has made
  receipts,    \* the id references the recovery stacks hold
  overlapped,  \* history: keys two calls, a failed write or an outsider touched at once
  outside, resumes

catalog == <<entries, byID, ns, states, destroyers, nextID>>
vars == <<catalog, disk, actor, calls, receipts, overlapped, outside, resumes>>

Ops == {"produce", "remove", "find", "claim", "coerce"}
Steps == {"idle", "lstat", "current", "state", "intern", "shadow", "activate",
          "write", "archive", "markGone", "verify", "exists", "present", "absent"}
Idle == [at |-> "idle", op |-> "coerce", key |-> NoID, id |-> NoID]
Busy(k) == \E a \in Actors : actor[a].at # "idle" /\ actor[a].key = k

-----------------------------------------------------------------------------
(* The maps of the catalog, rebuilt from a sequence of generations the way   *)
(* restoreEntry replays them: the last row of a key is its current one.      *)

IDsOf(rows) == {rows[i].id : i \in DOMAIN rows}
Indexed(rows) == [id \in IDsOf(rows) |-> CHOOSE i \in DOMAIN rows : rows[i].id = id]
NewestOf(rows, k) ==
  IF \E i \in DOMAIN rows : rows[i].key = k
    THEN rows[CHOOSE i \in DOMAIN rows :
                /\ rows[i].key = k
                /\ \A j \in DOMAIN rows : rows[j].key = k => j <= i].id
    ELSE NoID
Oldest(rows) == [k \in Keys |->                \* mutant: the first writer wins
  LET mine == {i \in DOMAIN rows : rows[i].key = k}
  IN  IF mine = {} THEN NoID ELSE rows[CHOOSE i \in mine : \A j \in mine : i <= j].id]
Namespace(rows) == [k \in Keys |-> NewestOf(rows, k)]

IntentRows == [i \in DOMAIN Intent |->
                [id |-> Intent[i].id, key |-> Intent[i].key, producer |-> NoCaller]]

\* unpackCatalog leaves the counter one past the highest id it restored.
CountIntent == Len(Intent)            \* mutant: ids are assumed to be contiguous
AfterIntent == IF Intent = <<>> THEN 0 ELSE Intent[Len(Intent)].id + 1

Init ==
  /\ entries = IntentRows
  /\ byID = Indexed(IntentRows)
  /\ ns = Namespace(IntentRows)
  /\ states = [id \in IDsOf(IntentRows) |-> "Pending"]
  /\ destroyers = [id \in IDsOf(IntentRows) |-> NoCaller]
  /\ nextID = AfterIntent
  /\ disk \in [Locations -> BOOLEAN]
  /\ actor = [a \in Actors |-> Idle]
  /\ calls = [a \in Actors |-> 0]
  /\ receipts = {}
  /\ overlapped = {}
  /\ outside = 0
  /\ resumes = 0

-----------------------------------------------------------------------------
(* The catalog's locked sections.                                            *)

Minted == nextID + 1

\* catalogLocked: append a generation of k and repoint the namespace at it.
CatalogLocked(k, producer) ==
  /\ nextID' = Minted
  /\ entries' = Append(entries, [id |-> Minted, key |-> k, producer |-> producer])
  /\ byID' = [id \in DOMAIN byID \cup {Minted} |->
               IF id = Minted THEN Len(entries) + 1 ELSE byID[id]]
  /\ states' = [id \in DOMAIN states \cup {Minted} |->
                 IF id = Minted THEN "Pending" ELSE states[id]]
  /\ destroyers' = [id \in DOMAIN destroyers \cup {Minted} |->
                     IF id = Minted THEN NoCaller ELSE destroyers[id]]
  /\ ns' = [ns EXCEPT ![k] = Minted]

Mark(id, state) ==
  /\ states' = [states EXCEPT ![id] = state]
  /\ UNCHANGED <<entries, byID, ns, nextID>>

ProducerOf(id) == entries[byID[id]].producer

\* MarkGone: the verdict and, when the caller has an id, its stamp.
DestroyedIfProduced(id, caller) ==    \* mutant: discovered entries keep their state
  /\ Mark(id, IF ProducerOf(id) = NoCaller THEN states[id] ELSE "Gone")
  /\ UNCHANGED destroyers
Destroyed(id, caller) ==
  /\ Mark(id, "Gone")
  /\ destroyers' = IF caller = NoCaller THEN destroyers
                   ELSE [destroyers EXCEPT ![id] = caller]

\* The producerless deference of Shadow, and the generation it adopts.
DefersToActive(k, producer) ==        \* mutant: a generation still Pending is displaced
  /\ ns[k] # NoID
  /\ ProducerOf(ns[k]) # NoCaller
  /\ producer = NoCaller
  /\ states[ns[k]] = "Active"
Defers(k, producer) ==
  /\ ns[k] # NoID
  /\ ProducerOf(ns[k]) # NoCaller
  /\ producer = NoCaller
  /\ states[ns[k]] # "Gone"

Adopted(k) == ns[k]

-----------------------------------------------------------------------------
(* The callers, one action per locked section or disk access.                *)

Goto(a, step) == actor' = [actor EXCEPT ![a].at = step]
GotoWith(a, step, id) == actor' = [actor EXCEPT ![a].at = step, ![a].id = id]
Return(a) == actor' = [actor EXCEPT ![a] = Idle]
Holds(id, k) == receipts' = receipts \cup {[id |-> id, key |-> k]}

Begin(a, op, k) ==
  /\ actor[a].at = "idle"
  /\ calls[a] < MaxCalls
  /\ op \in {"remove", "find", "claim"} => k \in Locations
  /\ op = "claim" => ns[k] # NoID      \* a claim has its intent row
  /\ calls' = [calls EXCEPT ![a] = @ + 1]
  /\ actor' = [actor EXCEPT ![a] =
       [at |-> IF op \in {"remove", "find"} THEN "lstat" ELSE "current",
        op |-> op, key |-> k, id |-> NoID]]
  /\ overlapped' = IF Busy(k) THEN overlapped \cup {k} ELSE overlapped
  /\ UNCHANGED <<catalog, disk, receipts, outside, resumes>>

\* removeEntry and Provider.Discover probe the path before the ledger.
Lstat(a) ==
  /\ actor[a].at = "lstat"
  /\ IF disk[actor[a].key] THEN Goto(a, "current") ELSE Return(a)
  /\ UNCHANGED <<catalog, disk, calls, receipts, overlapped, outside, resumes>>

\* Where a call goes once Current has answered id for its key.
AfterCurrent(op, k, id) ==
  CASE op = "claim"   -> "verify"
    [] op = "produce" -> IF id # NoID /\ k \in Contents THEN "state" ELSE "shadow"
    [] OTHER          -> IF id # NoID THEN "state" ELSE "intern"

Current(a) ==
  /\ actor[a].at = "current"
  /\ LET id == ns[actor[a].key]
     IN  GotoWith(a, AfterCurrent(actor[a].op, actor[a].key, id), id)
  /\ UNCHANGED <<catalog, disk, calls, receipts, overlapped, outside, resumes>>

\* What the caller of Discover does with the entry it got.
Discovered(a, id) ==
  CASE actor[a].op = "remove" -> GotoWith(a, "archive", id) /\ UNCHANGED receipts
    [] actor[a].op = "find"   -> GotoWith(a, "verify", id) /\ UNCHANGED receipts
    [] OTHER                  -> Return(a) /\ Holds(id, actor[a].key)

\* The states under which a hit in the namespace answers the call.
AnswersActive(op, state) == state = "Active"   \* mutant: a Pending hit is a miss
Answers(op, state) == state # "Gone"

\* The cache hit of Discover and, for content, of GetOrCreate.
StateOf(a) ==
  LET id == actor[a].id IN
  /\ actor[a].at = "state"
  /\ \/ /\ Answers(actor[a].op, states[id])
        /\ Discovered(a, id)
     \/ /\ ~Answers(actor[a].op, states[id])
        /\ IF actor[a].op = "produce" THEN Goto(a, "shadow") ELSE Return(a)
        /\ UNCHANGED receipts
  /\ UNCHANGED <<catalog, disk, calls, overlapped, outside, resumes>>

\* lookupOrCatalog, under Discover's Link.
Intern(a) ==
  LET k == actor[a].key IN
  /\ actor[a].at = "intern"
  /\ \/ /\ ns[k] # NoID
        /\ Discovered(a, ns[k])
        /\ UNCHANGED catalog
     \/ /\ ns[k] = NoID
        /\ CatalogLocked(k, NoCaller)
        /\ Discovered(a, Minted)
  /\ UNCHANGED <<disk, calls, overlapped, outside, resumes>>

Shadow(a) ==
  LET k == actor[a].key IN
  /\ actor[a].at = "shadow"
  /\ \/ /\ Defers(k, CallerOf[a])
        /\ GotoWith(a, "activate", Adopted(k))
        /\ UNCHANGED catalog
     \/ /\ ~Defers(k, CallerOf[a])
        /\ CatalogLocked(k, CallerOf[a])
        /\ GotoWith(a, "activate", Minted)
  /\ UNCHANGED <<disk, calls, receipts, overlapped, outside, resumes>>

\* markActive at the end of GetOrCreate; a file's content is written after it.
Activate(a) ==
  /\ actor[a].at = "activate"
  /\ Mark(actor[a].id, "Active")
  /\ IF actor[a].key \in Locations
       THEN Goto(a, "write") /\ UNCHANGED receipts
       ELSE Return(a) /\ Holds(actor[a].id, actor[a].key)
  /\ UNCHANGED <<destroyers, disk, calls, overlapped, outside, resumes>>

Write(a) ==
  LET k == actor[a].key IN
  /\ actor[a].at = "write"
  /\ \/ disk' = [disk EXCEPT ![k] = TRUE] /\ UNCHANGED overlapped
     \/ UNCHANGED disk /\ overlapped' = overlapped \cup {k}     \* the write failed
  /\ Return(a)
  /\ Holds(actor[a].id, k)
  /\ UNCHANGED <<catalog, calls, outside, resumes>>

\* archiveAndPrune moves the entry into the recovery site, or fails.
Archive(a) ==
  LET k == actor[a].key IN
  /\ actor[a].at = "archive"
  /\ \/ disk[k] /\ disk' = [disk EXCEPT ![k] = FALSE] /\ Goto(a, "markGone")
     \/ UNCHANGED disk /\ Return(a)
  /\ UNCHANGED <<catalog, calls, receipts, overlapped, outside, resumes>>

\* markEntryGone, the tail of removeEntry.
MarkGone(a) ==
  /\ actor[a].at = "markGone"
  /\ Destroyed(actor[a].id, CallerOf[a])
  /\ Return(a)
  /\ Holds(actor[a].id, actor[a].key)
  /\ UNCHANGED <<disk, calls, overlapped, outside, resumes>>

\* VerifyExistence: read the state, probe the disk, then record the verdict.
Verify(a) ==
  /\ actor[a].at = "verify"
  /\ IF states[actor[a].id] = "Active" THEN Return(a) ELSE Goto(a, "exists")
  /\ UNCHANGED <<catalog, disk, calls, receipts, overlapped, outside, resumes>>

Exists(a) ==
  /\ actor[a].at = "exists"
  /\ Goto(a, IF disk[actor[a].key] THEN "present" ELSE "absent")
  /\ UNCHANGED <<catalog, disk, calls, receipts, overlapped, outside, resumes>>

Record(a) ==
  /\ actor[a].at \in {"present", "absent"}
  /\ Mark(actor[a].id, IF actor[a].at = "present" THEN "Active" ELSE "Gone")
  /\ Return(a)
  /\ UNCHANGED <<destroyers, disk, calls, receipts, overlapped, outside, resumes>>

\* Somebody else changes the disk.
Outside(k) ==
  /\ outside < MaxOutside
  /\ outside' = outside + 1
  /\ disk' = [disk EXCEPT ![k] = ~@]
  /\ overlapped' = overlapped \cup {k}
  /\ UNCHANGED <<catalog, actor, calls, receipts, resumes>>

\* Snapshot records every generation, superseded ones included.
CapturedCurrent == SelectSeq(entries, LAMBDA row : ns[row.key] = row.id)   \* mutant: only those IntentEntries keeps
Captured == entries
CapturedCount == Len(entries)         \* mutant: the counter restarts at the number of rows
CapturedNextID == nextID

\* Snapshot at the pause, Rehydrate at the resume: the destroyers are not restored.
Resume ==
  /\ \A a \in Actors : actor[a].at = "idle"
  /\ resumes < MaxResumes
  /\ resumes' = resumes + 1
  /\ entries' = Captured
  /\ byID' = Indexed(Captured)
  /\ ns' = Namespace(Captured)
  /\ states' = [id \in IDsOf(Captured) |-> states[id]]
  /\ destroyers' = [id \in IDsOf(Captured) |-> NoCaller]
  /\ nextID' = CapturedNextID
  /\ UNCHANGED <<disk, actor, calls, receipts, overlapped, outside>>

Call(a) ==
  \/ \E op \in Ops, k \in Keys : Begin(a, op, k)
  \/ Lstat(a) \/ Current(a) \/ StateOf(a) \/ Intern(a) \/ Shadow(a) \/ Activate(a)
  \/ Write(a) \/ Archive(a) \/ MarkGone(a) \/ Verify(a) \/ Exists(a) \/ Record(a)

Next ==
  \/ \E a \in Actors : Call(a)
  \/ \E k \in Locations : Outside(k)
  \/ Resume

Spec == Init /\ [][Next]_vars

-----------------------------------------------------------------------------
(* Properties.                                                               *)

\* The catalog's maps agree with its rows: byID indexes every row by its id,
\* each id has one state and one destroyer slot.
TypeOK ==
  /\ entries \in Seq(Rows)
  /\ byID \in [IDsOf(entries) -> DOMAIN entries]
  /\ ns \in [Keys -> IDsOf(entries) \cup {NoID}]
  /\ states \in [IDsOf(entries) -> States]
  /\ destroyers \in [IDsOf(entries) -> Callers]
  /\ nextID \in Nat
  /\ disk \in [Locations -> BOOLEAN]
  /\ actor \in [Actors -> [at : Steps, op : Ops, key : Keys \cup {NoID}, id : Nat]]
  /\ receipts \subseteq [id : IDsOf(entries), key : Keys]
  /\ overlapped \subseteq Keys
  /\ calls \in [Actors -> Nat]
  /\ outside \in Nat /\ resumes \in Nat

\* The namespace points at the newest generation of every key, after any
\* interleaving of callers and after a rehydration (restoreEntry's "last writer
\* for a URI wins").
CurrentIsNewest ==
  \A k \in Keys :
    /\ ns[k] # NoID => entries[byID[ns[k]]].key = k
    /\ \A i \in DOMAIN entries :
         entries[i].key = k => ns[k] # NoID /\ i <= byID[ns[k]]

\* Ids grow along the ledger and the counter is never behind them: an id minted
\* after a load or a resume is new (catalogLocked, unpackCatalog, Rehydrate).
IDsFresh ==
  /\ \A i, j \in DOMAIN entries : i < j => entries[i].id < entries[j].id
  /\ \A i \in DOMAIN entries : entries[i].id <= nextID

\* An id reference held by a recovery stack's receipt resolves to the resource
\* it was recorded for, whatever was produced, superseded, saved and restored
\* since (Lookup after Rehydrate).
ReceiptsResolve ==
  \A r \in receipts : /\ r.id \in DOMAIN byID
                      /\ entries[byID[r.id]].id = r.id
                      /\ entries[byID[r.id]].key = r.key

\* No step rewrites history: rows keep their place, identity and producer.
LedgerAppendOnly ==
  [][/\ Len(entries') >= Len(entries)
     /\ SubSeq(entries', 1, Len(entries)) = entries]_vars

\* A caller without an id never takes a key over from a generation some unit
\* produced and nobody removed (Shadow's one deference).
ProducedKeepsItsKey ==
  [][\A k \in Keys :
       (ns'[k] # ns[k] /\ ns[k] # NoID)
         => \/ ProducerOf(ns[k]) = NoCaller
            \/ states[ns[k]] = "Gone"
            \/ entries'[byID'[ns'[k]]].producer # NoCaller]_vars

\* A key only ever handled by one call at a time, whose writes all landed, has a
\* ledger that tells the truth between calls: Active is on the disk, Gone is not
\* (claim verification, file.discover, write and remove).
LedgerTruthful ==
  \A k \in Locations \ overlapped :
    (~Busy(k) /\ ns[k] # NoID)
      => /\ states[ns[k]] = "Active" => disk[k]
         /\ states[ns[k]] = "Gone" => ~disk[k]

\* Content interned by one call at a time has one generation for the whole run,
\* resumes included (GetOrCreate's content hit).
ContentSingleton ==
  \A k \in Contents \ overlapped :
    \A i, j \in DOMAIN entries : entries[i].key = k /\ entries[j].key = k => i = j
=============================================================================
