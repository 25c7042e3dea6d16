------------------------ MODULE ResourceCatalogProofs ------------------------
(***************************************************************************)
(* Theorems about ResourceCatalog, for every set of callers, keys and      *)
(* intent rows and without the bounds: the ledger's maps agree with its    *)
(* rows, the namespace points at the newest generations, references held   *)
(* by receipts resolve, history is never rewritten, and a caller without   *)
(* an id never displaces a produced generation.                            *)
(***************************************************************************)
EXTENDS ResourceCatalog, TLAPS

\* The rows and the maps of the catalog, without its callers.
Ledger ==
  /\ entries \in Seq(Rows)
  /\ byID \in [IDsOf(entries) -> DOMAIN entries]
  /\ \A i \in DOMAIN entries : byID[entries[i].id] = i
  /\ ns \in [Keys -> IDsOf(entries) \cup {NoID}]
  /\ states \in [IDsOf(entries) -> States]
  /\ destroyers \in [IDsOf(entries) -> Callers]
  /\ nextID \in Nat

\* The steps of a call at which it carries an id.
Carrying == {"state", "activate", "write", "archive", "markGone",
             "verify", "exists", "present", "absent"}

\* A call in progress has a key, a claim's key has a row, and the id a call
\* carries is a row of its key.
CallsHold ==
  \A a \in Actors :
    /\ actor[a].at # "idle" => actor[a].key \in Keys
    /\ (actor[a].at # "idle" /\ actor[a].op = "claim") => ns[actor[a].key] # NoID
    /\ actor[a].at \in Carrying
         => /\ actor[a].id \in IDsOf(entries)
            /\ entries[byID[actor[a].id]].key = actor[a].key

\* Everything of TypeOK that is not the catalog's.
Surroundings ==
  /\ disk \in [Locations -> BOOLEAN]
  /\ actor \in [Actors -> [at : Steps, op : Ops, key : Keys \cup {NoID}, id : Nat]]
  /\ receipts \subseteq [id : IDsOf(entries), key : Keys]
  /\ overlapped \subseteq Keys
  /\ calls \in [Actors -> Nat]
  /\ outside \in Nat /\ resumes \in Nat

\* The inductive invariant.
IInv == Ledger /\ CurrentIsNewest /\ IDsFresh /\ CallsHold /\ Surroundings /\ ReceiptsResolve

\* What a step owes the rows that are already there.
Kept ==
  /\ \A id \in IDsOf(entries) : /\ id \in IDsOf(entries')
                                /\ entries'[byID'[id]] = entries[byID[id]]
  /\ \A k \in Keys : ns[k] # NoID => ns'[k] # NoID

-----------------------------------------------------------------------------

LEMMA IDOfRow ==
  ASSUME Ledger, NEW id \in IDsOf(entries)
  PROVE  /\ byID[id] \in DOMAIN entries
         /\ entries[byID[id]].id = id
         /\ id \in Nat \ {NoID}
<1>1. PICK i \in DOMAIN entries : entries[i].id = id  BY DEF IDsOf
<1>2. entries[i] \in Rows  BY DEF Ledger
<1> QED  BY <1>1, <1>2 DEF Ledger, Rows

\* catalogLocked extends every map by the minted id and repoints its key.
LEMMA LockedKeeps ==
  ASSUME Ledger, CurrentIsNewest, IDsFresh,
         NEW k \in Keys, NEW p \in Callers, CatalogLocked(k, p)
  PROVE  /\ Ledger' /\ CurrentIsNewest' /\ IDsFresh' /\ Kept
         /\ Minted \in IDsOf(entries')
         /\ entries'[byID'[Minted]].key = k
<1> DEFINE row == [id |-> Minted, key |-> k, producer |-> p]
           n == Len(entries)
<1>1. row \in Rows /\ Minted \in Nat \ {NoID}
  BY DEF Ledger, Minted, Rows, NoID
<1>2. entries' \in Seq(Rows) /\ Len(entries') = n + 1 /\ n \in Nat
      /\ entries'[n + 1] = row /\ DOMAIN entries = 1 .. n /\ DOMAIN entries' = 1 .. n + 1
  BY <1>1 DEF CatalogLocked, Ledger
<1>3. \A i \in 1 .. n : entries'[i] = entries[i]
  BY <1>1 DEF CatalogLocked, Ledger
<1>4. IDsOf(entries') = IDsOf(entries) \cup {Minted}
  <2>1. ASSUME NEW id \in IDsOf(entries')  PROVE id \in IDsOf(entries) \cup {Minted}
    <3>1. PICK i \in 1 .. n + 1 : entries'[i].id = id  BY <1>2 DEF IDsOf
    <3>2. CASE i = n + 1  BY <3>1, <3>2, <1>2
    <3>3. CASE i # n + 1
      <4>1. i \in DOMAIN entries  BY <3>3, <1>2
      <4> QED  BY <4>1, <3>1, <1>2, <1>3 DEF IDsOf
    <3> QED  BY <3>2, <3>3
  <2>2. ASSUME NEW id \in IDsOf(entries)  PROVE id \in IDsOf(entries')
    <3>1. PICK i \in 1 .. n : entries[i].id = id  BY <1>2 DEF IDsOf
    <3>2. i \in DOMAIN entries' /\ entries'[i].id = id  BY <3>1, <1>2, <1>3
    <3> QED  BY <3>2 DEF IDsOf
  <2>3. Minted \in IDsOf(entries')
    <3>1. n + 1 \in DOMAIN entries' /\ entries'[n + 1].id = Minted  BY <1>2
    <3> QED  BY <3>1 DEF IDsOf
  <2> QED  BY <2>1, <2>2, <2>3
<1>5. Minted \notin IDsOf(entries) /\ \A id \in IDsOf(entries) : id < Minted /\ id \in Nat
  <2>1. ASSUME NEW id \in IDsOf(entries)  PROVE id < Minted /\ id \in Nat
    <3>1. PICK i \in DOMAIN entries : entries[i].id = id  BY DEF IDsOf
    <3>2. entries[i] \in Rows  BY <3>1 DEF Ledger
    <3>3. id <= nextID  BY <3>1 DEF IDsFresh
    <3> QED  BY <3>1, <3>2, <3>3 DEF Rows, Ledger, Minted
  <2> QED  BY <2>1
<1>6. /\ byID'[Minted] = n + 1
      /\ \A id \in IDsOf(entries) : byID'[id] = byID[id] /\ byID[id] \in 1 .. n
      /\ DOMAIN byID' = IDsOf(entries')
  BY <1>2, <1>4, <1>5 DEF CatalogLocked, Ledger
<1>7. Ledger'
  <2>1. byID' \in [IDsOf(entries') -> DOMAIN entries']
    <3>1. \A id \in IDsOf(entries') : byID'[id] \in DOMAIN entries'
      BY <1>2, <1>4, <1>6
    <3>2. byID' = [id \in IDsOf(entries') |-> byID'[id]]
      BY <1>4 DEF CatalogLocked, Ledger
    <3> QED  BY <3>1, <3>2
  <2>2. ASSUME NEW i \in DOMAIN entries'  PROVE byID'[entries'[i].id] = i
    <3>1. CASE i = n + 1  BY <3>1, <1>2, <1>6
    <3>2. CASE i # n + 1
      <4>1. i \in DOMAIN entries /\ entries'[i] = entries[i]  BY <3>2, <1>2, <1>3
      <4>2. entries[i].id \in IDsOf(entries)  BY <4>1 DEF IDsOf
      <4> QED  BY <4>1, <4>2, <1>6 DEF Ledger
    <3> QED  BY <3>1, <3>2
  <2>3. ns' \in [Keys -> IDsOf(entries') \cup {NoID}]
    BY <1>4 DEF CatalogLocked, Ledger
  <2>4. states' \in [IDsOf(entries') -> States]
    BY <1>4 DEF CatalogLocked, Ledger, States
  <2>5. destroyers' \in [IDsOf(entries') -> Callers]
    BY <1>4 DEF CatalogLocked, Ledger, Callers
  <2>6. nextID' \in Nat  BY DEF CatalogLocked, Ledger, Minted
  <2> QED  BY <1>2, <2>1, <2>2, <2>3, <2>4, <2>5, <2>6 DEF Ledger
<1>8. Kept
  <2>1. \A q \in Keys : ns[q] # NoID => ns'[q] # NoID
    BY <1>1 DEF CatalogLocked, Ledger
  <2> QED  BY <2>1, <1>3, <1>4, <1>6 DEF Kept
<1>9. CurrentIsNewest'
  <2> SUFFICES ASSUME NEW q \in Keys
               PROVE  /\ ns'[q] # NoID => entries'[byID'[ns'[q]]].key = q
                      /\ \A i \in DOMAIN entries' : entries'[i].key = q
                            => ns'[q] # NoID /\ i <= byID'[ns'[q]]
    BY DEF CurrentIsNewest
  <2>1. CASE q = k
    <3>1. ns'[q] = Minted  BY <2>1 DEF CatalogLocked, Ledger
    <3>2. \A i \in 1 .. n + 1 : i <= n + 1  BY <1>2
    <3> QED  BY <2>1, <3>1, <3>2, <1>1, <1>2, <1>6
  <2>2. CASE q # k
    <3>1. ns'[q] = ns[q] /\ ns[q] \in IDsOf(entries) \cup {NoID}
      BY <2>2 DEF CatalogLocked, Ledger
    <3>2. ns'[q] # NoID => entries'[byID'[ns'[q]]].key = q
      BY <3>1, <1>3, <1>6 DEF CurrentIsNewest
    <3>3. ASSUME NEW i \in DOMAIN entries', entries'[i].key = q
          PROVE  ns'[q] # NoID /\ i <= byID'[ns'[q]]
      <4>1. i # n + 1  BY <3>3, <2>2, <1>2
      <4>2. i \in DOMAIN entries /\ entries[i].key = q  BY <4>1, <3>3, <1>2, <1>3
      <4>3. ns[q] # NoID /\ i <= byID[ns[q]]  BY <4>2 DEF CurrentIsNewest
      <4> QED  BY <4>3, <3>1, <1>6
    <3> QED  BY <3>2, <3>3
  <2> QED  BY <2>1, <2>2
<1>10. IDsFresh'
  <2>1. ASSUME NEW i \in DOMAIN entries', NEW j \in DOMAIN entries', i < j
        PROVE  entries'[i].id < entries'[j].id
    <3>1. i \in DOMAIN entries /\ entries'[i] = entries[i]  BY <2>1, <1>2, <1>3
    <3>2. CASE j = n + 1
      <4>1. entries[i].id \in IDsOf(entries)  BY <3>1 DEF IDsOf
      <4> QED  BY <3>1, <3>2, <4>1, <1>2, <1>5
    <3>3. CASE j # n + 1
      <4>1. j \in DOMAIN entries /\ entries'[j] = entries[j]  BY <3>3, <1>2, <1>3
      <4> QED  BY <2>1, <3>1, <4>1 DEF IDsFresh
    <3> QED  BY <3>2, <3>3
  <2>2. ASSUME NEW i \in DOMAIN entries'  PROVE entries'[i].id <= nextID'
    <3>1. nextID' = Minted  BY DEF CatalogLocked
    <3>2. CASE i = n + 1  BY <3>1, <3>2, <1>1, <1>2
    <3>3. CASE i # n + 1
      <4>1. i \in DOMAIN entries /\ entries'[i] = entries[i]  BY <3>3, <1>2, <1>3
      <4>2. entries[i].id \in IDsOf(entries)  BY <4>1 DEF IDsOf
      <4> QED  BY <3>1, <4>1, <4>2, <1>1, <1>5
    <3> QED  BY <3>2, <3>3
  <2> QED  BY <2>1, <2>2 DEF IDsFresh
<1> QED  BY <1>1, <1>2, <1>4, <1>6, <1>7, <1>8, <1>9, <1>10

\* markActive, markGone and MarkGone touch one state and maybe one stamp.
LEMMA MarkKeeps ==
  ASSUME Ledger, CurrentIsNewest, IDsFresh,
         NEW id \in IDsOf(entries), NEW s \in States, Mark(id, s),
         destroyers' \in [IDsOf(entries) -> Callers]
  PROVE  Ledger' /\ CurrentIsNewest' /\ IDsFresh' /\ Kept
<1>1. states' \in [IDsOf(entries) -> States]
  BY DEF Mark, Ledger
<1> QED  BY <1>1 DEF Mark, Ledger, CurrentIsNewest, IDsFresh, Kept, IDsOf

LEMMA UnchangedKeeps ==
  ASSUME Ledger, CurrentIsNewest, IDsFresh, UNCHANGED catalog
  PROVE  Ledger' /\ CurrentIsNewest' /\ IDsFresh' /\ Kept
BY DEF catalog, Ledger, CurrentIsNewest, IDsFresh, Kept, IDsOf

\* Replaying the rows in append order rebuilds byID.
LEMMA IndexRebuilt ==
  ASSUME Ledger
  PROVE  Indexed(entries) = byID
<1>1. ASSUME NEW id \in IDsOf(entries)
      PROVE  (CHOOSE i \in DOMAIN entries : entries[i].id = id) = byID[id]
  <2>1. byID[id] \in DOMAIN entries /\ entries[byID[id]].id = id
    BY <1>1, IDOfRow
  <2>2. \A i \in DOMAIN entries : entries[i].id = id => i = byID[id]
    BY DEF Ledger
  <2> QED  BY <2>1, <2>2
<1> QED  BY <1>1 DEF Indexed, Ledger

\* Replaying the rows in append order rebuilds the namespace.
LEMMA NamespaceRebuilt ==
  ASSUME Ledger, CurrentIsNewest
  PROVE  Namespace(entries) = ns
<1>1. ASSUME NEW k \in Keys  PROVE NewestOf(entries, k) = ns[k]
  <2>1. CASE ns[k] = NoID
    <3>1. ~ \E i \in DOMAIN entries : entries[i].key = k
      BY <2>1 DEF CurrentIsNewest
    <3> QED  BY <2>1, <3>1 DEF NewestOf
  <2>2. CASE ns[k] # NoID
    <3> DEFINE Newest(i) == /\ entries[i].key = k
                            /\ \A j \in DOMAIN entries : entries[j].key = k => j <= i
    <3>1. ns[k] \in IDsOf(entries)  BY <2>2 DEF Ledger
    <3>2. byID[ns[k]] \in DOMAIN entries /\ entries[byID[ns[k]]].id = ns[k]
      BY <3>1, IDOfRow
    <3>3. Newest(byID[ns[k]])  BY <2>2 DEF CurrentIsNewest
    <3>4. \A i \in DOMAIN entries : Newest(i) => i = byID[ns[k]]
      <4>1. DOMAIN entries \subseteq Nat  BY DEF Ledger
      <4>2. ASSUME NEW i \in DOMAIN entries, Newest(i)  PROVE i = byID[ns[k]]
        <5>1. byID[ns[k]] <= i  BY <4>2, <3>2, <3>3
        <5>2. i <= byID[ns[k]]  BY <4>2, <3>2, <3>3
        <5> QED  BY <4>1, <5>1, <5>2, <3>2
      <4> QED  BY <4>2
    <3>5. (CHOOSE i \in DOMAIN entries : Newest(i)) = byID[ns[k]]
      BY <3>2, <3>3, <3>4
    <3>6. \E i \in DOMAIN entries : entries[i].key = k  BY <3>2, <3>3
    <3> QED  BY <3>2, <3>5, <3>6 DEF NewestOf
  <2> QED  BY <2>1, <2>2
<1> QED  BY <1>1 DEF Namespace, Ledger

\* Save and resume leave the rows and the maps as they were.
LEMMA ResumeKeeps ==
  ASSUME Ledger, CurrentIsNewest, IDsFresh, Resume
  PROVE  Ledger' /\ CurrentIsNewest' /\ IDsFresh' /\ Kept
<1>1. entries' = entries /\ byID' = byID /\ ns' = ns /\ nextID' = nextID
  BY IndexRebuilt, NamespaceRebuilt DEF Resume, Captured, CapturedNextID
<1>2. states' \in [IDsOf(entries) -> States]
  BY DEF Resume, Captured, Ledger
<1>3. destroyers' \in [IDsOf(entries) -> Callers]
  BY DEF Resume, Captured, Callers
<1> QED  BY <1>1, <1>2, <1>3 DEF Ledger, CurrentIsNewest, IDsFresh, Kept, IDsOf

-----------------------------------------------------------------------------
Calling == [at : Steps, op : Ops, key : Keys \cup {NoID}, id : Nat]

\* A call may carry id when id is a row of its key.
RowOf(id, k) == id \in IDsOf(entries) /\ entries[byID[id]].key = k
RowAfter(id, k) == id \in IDsOf(entries') /\ entries'[byID'[id]].key = k

\* What every step of one caller has in common: given a catalog that kept its
\* rows, a caller that carries a row of its key, and at most one more reference.
LEMMA CallerStep ==
  ASSUME IInv, Ledger', CurrentIsNewest', IDsFresh', Kept,
         NEW a \in Actors, NEW v \in Calling,
         actor' = [actor EXCEPT ![a] = v],
         v.at # "idle" => v.key \in Keys,
         (v.at # "idle" /\ v.op = "claim") => ns'[v.key] # NoID,
         v.at \in Carrying => RowAfter(v.id, v.key),
         \/ receipts' = receipts
         \/ \E id \in Nat, k \in Keys : RowAfter(id, k) /\ Holds(id, k),
         disk' \in [Locations -> BOOLEAN], overlapped' \subseteq Keys,
         calls' \in [Actors -> Nat], outside' \in Nat, resumes' \in Nat
  PROVE  IInv'
<1>1. actor' \in [Actors -> Calling]
  BY DEF IInv, Surroundings, Calling
<1>2. CallsHold'
  <2> SUFFICES ASSUME NEW b \in Actors
               PROVE  /\ actor'[b].at # "idle" => actor'[b].key \in Keys
                      /\ (actor'[b].at # "idle" /\ actor'[b].op = "claim")
                           => ns'[actor'[b].key] # NoID
                      /\ actor'[b].at \in Carrying
                           => /\ actor'[b].id \in IDsOf(entries')
                              /\ entries'[byID'[actor'[b].id]].key = actor'[b].key
    BY DEF CallsHold
  <2>1. CASE b = a
    <3>1. actor'[b] = v  BY <2>1 DEF IInv, Surroundings
    <3> QED  BY <3>1 DEF RowAfter
  <2>2. CASE b # a
    <3>1. actor'[b] = actor[b]  BY <2>2 DEF IInv, Surroundings
    <3> QED  BY <3>1 DEF IInv, CallsHold, Kept
  <2> QED  BY <2>1, <2>2
<1>3. \A r \in receipts' :
        /\ r \in [id : IDsOf(entries'), key : Keys]
        /\ entries'[byID'[r.id]].key = r.key
  <2>1. ASSUME NEW r \in receipts
        PROVE  r \in [id : IDsOf(entries'), key : Keys] /\ entries'[byID'[r.id]].key = r.key
    BY DEF IInv, Surroundings, ReceiptsResolve, Kept
  <2>2. ASSUME NEW id \in Nat, NEW k \in Keys, RowAfter(id, k)
        PROVE  /\ [id |-> id, key |-> k] \in [id : IDsOf(entries'), key : Keys]
               /\ entries'[byID'[id]].key = k
    BY <2>2 DEF RowAfter
  <2> QED  BY <2>1, <2>2 DEF Holds
<1>4. ReceiptsResolve'
  <2> SUFFICES ASSUME NEW r \in receipts'
               PROVE  /\ r.id \in DOMAIN byID'
                      /\ entries'[byID'[r.id]].id = r.id
                      /\ entries'[byID'[r.id]].key = r.key
    BY DEF ReceiptsResolve
  <2>1. r.id \in IDsOf(entries') /\ DOMAIN byID' = IDsOf(entries')
    BY <1>3 DEF Ledger
  <2>2. entries'[byID'[r.id]].id = r.id
    <3>1. PICK i \in DOMAIN entries' : entries'[i].id = r.id  BY <2>1 DEF IDsOf
    <3> QED  BY <3>1 DEF Ledger
  <2> QED  BY <2>1, <2>2, <1>3
<1>5. Surroundings'
  BY <1>1, <1>3 DEF Surroundings, Calling
<1> QED  BY <1>2, <1>4, <1>5 DEF IInv

LEMMA IdleIsACall ==
  Idle \in Calling /\ Idle.at = "idle" /\ Idle.op # "claim" /\ "idle" \notin Carrying
BY DEF Idle, NoID, Calling, Steps, Ops, Carrying

\* The surroundings a step leaves well typed.
Around == /\ disk \in [Locations -> BOOLEAN]
          /\ overlapped \subseteq Keys
          /\ calls \in [Actors -> Nat]
          /\ outside \in Nat /\ resumes \in Nat

\* At most one more reference, to a row of its key.
OneMoreReceipt ==
  \/ receipts' = receipts
  \/ \E id \in Nat, k \in Keys : RowAfter(id, k) /\ Holds(id, k)

\* A caller that goes on, with the id it had or a new one.
LEMMA CallerGoes ==
  ASSUME IInv, Ledger', CurrentIsNewest', IDsFresh', Kept, Around', OneMoreReceipt,
         NEW a \in Actors, actor[a].at # "idle",
         NEW step \in Steps, NEW id \in Nat,
         GotoWith(a, step, id) \/ (Goto(a, step) /\ id = actor[a].id),
         step \in Carrying => RowAfter(id, actor[a].key)
  PROVE  IInv'
<1> DEFINE v == [actor[a] EXCEPT !.at = step, !.id = id]
<1>1. actor \in [Actors -> Calling] /\ actor[a] \in Calling
  BY DEF IInv, Surroundings, Calling
<1>2. v \in Calling /\ v.at = step /\ v.id = id /\ v.key = actor[a].key /\ v.op = actor[a].op
  BY <1>1 DEF Calling
<1>3. actor' = [actor EXCEPT ![a] = v]
  <2>1. CASE GotoWith(a, step, id)  BY <2>1, <1>1 DEF GotoWith, Calling
  <2>2. CASE Goto(a, step) /\ id = actor[a].id
    <3>1. v = [actor[a] EXCEPT !.at = step]  BY <2>2, <1>1 DEF Calling
    <3> QED  BY <2>2, <3>1, <1>1 DEF Goto
  <2> QED  BY <2>1, <2>2
<1>4. /\ actor[a].key \in Keys
      /\ actor[a].op = "claim" => ns[actor[a].key] # NoID
  BY DEF IInv, CallsHold
<1>5. v.op = "claim" => ns'[v.key] # NoID
  BY <1>2, <1>4 DEF Kept
<1> HIDE DEF v
<1> QED  BY <1>2, <1>3, <1>4, <1>5, CallerStep DEF Around, OneMoreReceipt

LEMMA CallerReturns ==
  ASSUME IInv, Ledger', CurrentIsNewest', IDsFresh', Kept, Around', OneMoreReceipt,
         NEW a \in Actors, Return(a)
  PROVE  IInv'
BY IdleIsACall, CallerStep DEF Return, Around, OneMoreReceipt

-----------------------------------------------------------------------------
(* One lemma per action that can disturb the invariant.                      *)

LEMMA BeginKeeps ==
  ASSUME IInv, NEW a \in Actors, NEW op \in Ops, NEW k \in Keys, Begin(a, op, k)
  PROVE  IInv'
<1> DEFINE v == [at |-> IF op \in {"remove", "find"} THEN "lstat" ELSE "current",
                 op |-> op, key |-> k, id |-> NoID]
<1>1. Ledger' /\ CurrentIsNewest' /\ IDsFresh' /\ Kept
  BY UnchangedKeeps DEF Begin, IInv
<1>2. v \in Calling /\ v.key = k /\ v.op = op /\ v.at \notin Carrying
  BY DEF Calling, Steps, NoID, Carrying
<1>3. actor' = [actor EXCEPT ![a] = v] /\ (op = "claim" => ns'[k] # NoID)
  BY DEF Begin, catalog
<1>4. Around' /\ receipts' = receipts
  BY DEF Begin, IInv, Surroundings, Around
<1> HIDE DEF v
<1> QED  BY <1>1, <1>2, <1>3, <1>4, CallerStep DEF Around

LEMMA LstatKeeps ==
  ASSUME IInv, NEW a \in Actors, Lstat(a)
  PROVE  IInv'
<1>1. Ledger' /\ CurrentIsNewest' /\ IDsFresh' /\ Kept
  BY UnchangedKeeps DEF Lstat, IInv
<1>2. Around' /\ OneMoreReceipt
  BY DEF Lstat, IInv, Surroundings, Around, OneMoreReceipt
<1>3. CASE Goto(a, "current")
  <2>1. "current" \in Steps /\ "current" \notin Carrying
    BY DEF Steps, Carrying
  <2>2. actor[a].id \in Nat /\ actor[a].at # "idle"
    BY DEF Lstat, IInv, Surroundings
  <2> QED  BY <1>1, <1>2, <1>3, <2>1, <2>2, CallerGoes
<1>4. CASE Return(a)
  BY <1>1, <1>2, <1>4, CallerReturns
<1> QED  BY <1>3, <1>4 DEF Lstat

LEMMA CurrentKeeps ==
  ASSUME IInv, NEW a \in Actors, Current(a)
  PROVE  IInv'
<1> DEFINE k == actor[a].key
           step == AfterCurrent(actor[a].op, k, ns[k])
<1>1. Ledger' /\ CurrentIsNewest' /\ IDsFresh' /\ Kept
  BY UnchangedKeeps DEF Current, IInv
<1>2. Around' /\ OneMoreReceipt /\ actor[a].at # "idle" /\ UNCHANGED <<entries, byID>>
  BY DEF Current, IInv, Surroundings, Around, OneMoreReceipt, catalog
<1>3. k \in Keys  BY DEF Current, IInv, CallsHold
<1>4. ns[k] \in IDsOf(entries) \cup {NoID}  BY <1>3 DEF IInv, Ledger
<1>5. ns[k] \in Nat  BY <1>4, IDOfRow DEF IInv, NoID
<1>6. step \in Steps  BY DEF AfterCurrent, Steps
<1>7. step \in Carrying => RowAfter(ns[k], k)
  <2>1. ns[k] # NoID => RowOf(ns[k], k)
    BY <1>3, <1>4 DEF IInv, CurrentIsNewest, RowOf
  <2>2. step \in Carrying => ns[k] # NoID
    <3>1. CASE actor[a].op = "claim"
      BY <3>1, <1>2 DEF IInv, CallsHold
    <3>2. CASE actor[a].op # "claim"
      BY <3>2 DEF AfterCurrent, Carrying
    <3> QED  BY <3>1, <3>2
  <2>3. RowOf(ns[k], k) => RowAfter(ns[k], k)
    BY <1>2 DEF RowOf, RowAfter, IDsOf, Current, catalog
  <2> QED  BY <2>1, <2>2, <2>3
<1>8. GotoWith(a, step, ns[k])  BY DEF Current
<1> HIDE DEF step
<1> QED  BY <1>1, <1>2, <1>5, <1>6, <1>7, <1>8, CallerGoes

\* The row a caller carries is still there after a step that keeps the rows.
LEMMA CarriedStays ==
  ASSUME IInv, Kept, NEW a \in Actors, actor[a].at \in Carrying
  PROVE  /\ actor[a].id \in Nat /\ actor[a].id \in IDsOf(entries)
         /\ RowAfter(actor[a].id, actor[a].key)
         /\ actor[a].at # "idle" /\ actor[a].key \in Keys
<1>1. actor[a].at # "idle"  BY DEF Carrying
<1> QED  BY <1>1 DEF IInv, Surroundings, CallsHold, Kept, RowAfter

LEMMA DiscoveredKeeps ==
  ASSUME IInv, Ledger', CurrentIsNewest', IDsFresh', Kept, Around',
         NEW a \in Actors, actor[a].at # "idle",
         NEW id \in Nat, RowAfter(id, actor[a].key), Discovered(a, id)
  PROVE  IInv'
<1>1. CASE GotoWith(a, "archive", id) /\ UNCHANGED receipts
  BY <1>1, CallerGoes DEF OneMoreReceipt, Steps
<1>2. CASE GotoWith(a, "verify", id) /\ UNCHANGED receipts
  BY <1>2, CallerGoes DEF OneMoreReceipt, Steps
<1>3. CASE Return(a) /\ Holds(id, actor[a].key)
  <2>1. actor[a].key \in Keys  BY DEF IInv, CallsHold
  <2>2. OneMoreReceipt  BY <1>3, <2>1 DEF OneMoreReceipt
  <2> QED  BY <1>3, <2>2, CallerReturns
<1> QED  BY <1>1, <1>2, <1>3 DEF Discovered

LEMMA StateOfKeeps ==
  ASSUME IInv, NEW a \in Actors, StateOf(a)
  PROVE  IInv'
<1>1. Ledger' /\ CurrentIsNewest' /\ IDsFresh' /\ Kept
  BY UnchangedKeeps DEF StateOf, IInv
<1>2. Around'
  BY DEF StateOf, IInv, Surroundings, Around
<1>3. /\ actor[a].id \in Nat /\ actor[a].at # "idle"
      /\ RowAfter(actor[a].id, actor[a].key)
  BY <1>1, CarriedStays DEF StateOf, Carrying
<1>4. CASE Discovered(a, actor[a].id)
  BY <1>1, <1>2, <1>3, <1>4, DiscoveredKeeps
<1>5. CASE Goto(a, "shadow") /\ UNCHANGED receipts
  <2>1. "shadow" \in Steps /\ "shadow" \notin Carrying  BY DEF Steps, Carrying
  <2> QED  BY <1>1, <1>2, <1>3, <1>5, <2>1, CallerGoes DEF OneMoreReceipt
<1>6. CASE Return(a) /\ UNCHANGED receipts
  BY <1>1, <1>2, <1>6, CallerReturns DEF OneMoreReceipt
<1> QED  BY <1>4, <1>5, <1>6 DEF StateOf

\* The current generation of a key is a row of that key.
LEMMA CurrentIsARow ==
  ASSUME IInv, NEW k \in Keys, ns[k] # NoID
  PROVE  ns[k] \in Nat /\ ns[k] \in IDsOf(entries) /\ RowOf(ns[k], k)
<1>1. ns[k] \in IDsOf(entries)  BY DEF IInv, Ledger
<1> QED  BY <1>1, IDOfRow DEF IInv, CurrentIsNewest, RowOf

LEMMA InternKeeps ==
  ASSUME IInv, NEW a \in Actors, Intern(a)
  PROVE  IInv'
<1>1. actor[a].at # "idle" /\ actor[a].key \in Keys  BY DEF Intern, IInv, CallsHold
<1>2. Around'
  BY DEF Intern, IInv, Surroundings, Around
<1>3. CASE ns[actor[a].key] # NoID /\ Discovered(a, ns[actor[a].key]) /\ UNCHANGED catalog
  <2>1. Ledger' /\ CurrentIsNewest' /\ IDsFresh' /\ Kept
    BY <1>3, UnchangedKeeps DEF IInv
  <2>2. ns[actor[a].key] \in Nat /\ RowAfter(ns[actor[a].key], actor[a].key)
    BY <1>1, <1>3, <2>1, CurrentIsARow DEF RowOf, RowAfter, Kept
  <2> QED  BY <1>1, <1>2, <1>3, <2>1, <2>2, DiscoveredKeeps
<1>4. CASE CatalogLocked(actor[a].key, NoCaller) /\ Discovered(a, Minted)
  <2>1. NoCaller \in Callers  BY DEF Callers
  <2>2. /\ Ledger' /\ CurrentIsNewest' /\ IDsFresh' /\ Kept
        /\ RowAfter(Minted, actor[a].key)
    BY <1>1, <1>4, <2>1, LockedKeeps DEF IInv, RowAfter
  <2>3. Minted \in Nat  BY DEF IInv, Ledger, Minted
  <2> QED  BY <1>1, <1>2, <1>4, <2>2, <2>3, DiscoveredKeeps
<1> QED  BY <1>3, <1>4 DEF Intern

LEMMA ShadowKeeps ==
  ASSUME IInv, NEW a \in Actors, Shadow(a)
  PROVE  IInv'
<1>1. actor[a].at # "idle" /\ actor[a].key \in Keys  BY DEF Shadow, IInv, CallsHold
<1>2. Around' /\ OneMoreReceipt
  BY DEF Shadow, IInv, Surroundings, Around, OneMoreReceipt
<1>3. "activate" \in Steps  BY DEF Steps
<1>4. CASE /\ Defers(actor[a].key, CallerOf[a])
           /\ GotoWith(a, "activate", Adopted(actor[a].key))
           /\ UNCHANGED catalog
  <2>1. Ledger' /\ CurrentIsNewest' /\ IDsFresh' /\ Kept
    BY <1>4, UnchangedKeeps DEF IInv
  <2>2. ns[actor[a].key] # NoID  BY <1>4 DEF Defers
  <2>3. ns[actor[a].key] \in Nat /\ RowAfter(ns[actor[a].key], actor[a].key)
    BY <1>1, <2>1, <2>2, CurrentIsARow DEF RowOf, RowAfter, Kept
  <2> QED  BY <1>1, <1>2, <1>3, <1>4, <2>1, <2>3, CallerGoes DEF Adopted
<1>5. CASE CatalogLocked(actor[a].key, CallerOf[a]) /\ GotoWith(a, "activate", Minted)
  <2>1. CallerOf[a] \in Callers  BY CallersAssumption
  <2>2. /\ Ledger' /\ CurrentIsNewest' /\ IDsFresh' /\ Kept
        /\ RowAfter(Minted, actor[a].key)
    BY <1>1, <1>5, <2>1, LockedKeeps DEF IInv, RowAfter
  <2>3. Minted \in Nat  BY DEF IInv, Ledger, Minted
  <2> QED  BY <1>1, <1>2, <1>3, <1>5, <2>2, <2>3, CallerGoes
<1> QED  BY <1>4, <1>5 DEF Shadow

LEMMA ActivateKeeps ==
  ASSUME IInv, NEW a \in Actors, Activate(a)
  PROVE  IInv'
<1>1. actor[a].at \in Carrying  BY DEF Activate, Carrying
<1>2. actor[a].id \in IDsOf(entries)  BY <1>1 DEF IInv, CallsHold
<1>3. destroyers' \in [IDsOf(entries) -> Callers]  BY DEF Activate, IInv, Ledger
<1>4. Ledger' /\ CurrentIsNewest' /\ IDsFresh' /\ Kept
  BY <1>2, <1>3, MarkKeeps DEF Activate, IInv, States
<1>5. /\ actor[a].id \in Nat /\ actor[a].at # "idle" /\ actor[a].key \in Keys
      /\ RowAfter(actor[a].id, actor[a].key)
  BY <1>1, <1>4, CarriedStays
<1>6. Around'
  BY DEF Activate, IInv, Surroundings, Around
<1>7. CASE Goto(a, "write") /\ UNCHANGED receipts
  BY <1>4, <1>5, <1>6, <1>7, CallerGoes DEF OneMoreReceipt, Steps
<1>8. CASE Return(a) /\ Holds(actor[a].id, actor[a].key)
  BY <1>4, <1>5, <1>6, <1>8, CallerReturns DEF OneMoreReceipt
<1> QED  BY <1>7, <1>8 DEF Activate

LEMMA WriteKeeps ==
  ASSUME IInv, NEW a \in Actors, Write(a)
  PROVE  IInv'
<1>1. Ledger' /\ CurrentIsNewest' /\ IDsFresh' /\ Kept
  BY UnchangedKeeps DEF Write, IInv
<1>2. /\ actor[a].id \in Nat /\ actor[a].key \in Keys
      /\ RowAfter(actor[a].id, actor[a].key)
  BY <1>1, CarriedStays DEF Write, Carrying
<1>3. Around'
  BY <1>2 DEF Write, IInv, Surroundings, Around
<1>4. OneMoreReceipt /\ Return(a)
  BY <1>2 DEF Write, OneMoreReceipt
<1> QED  BY <1>1, <1>3, <1>4, CallerReturns

LEMMA ArchiveKeeps ==
  ASSUME IInv, NEW a \in Actors, Archive(a)
  PROVE  IInv'
<1>1. Ledger' /\ CurrentIsNewest' /\ IDsFresh' /\ Kept
  BY UnchangedKeeps DEF Archive, IInv
<1>2. /\ actor[a].id \in Nat /\ actor[a].at # "idle"
      /\ RowAfter(actor[a].id, actor[a].key)
  BY <1>1, CarriedStays DEF Archive, Carrying
<1>3. Around' /\ OneMoreReceipt
  BY DEF Archive, IInv, Surroundings, Around, OneMoreReceipt
<1>4. CASE Goto(a, "markGone")
  BY <1>1, <1>2, <1>3, <1>4, CallerGoes DEF Steps
<1>5. CASE Return(a)
  BY <1>1, <1>3, <1>5, CallerReturns
<1> QED  BY <1>4, <1>5 DEF Archive

LEMMA MarkGoneKeeps ==
  ASSUME IInv, NEW a \in Actors, MarkGone(a)
  PROVE  IInv'
<1>1. actor[a].at \in Carrying  BY DEF MarkGone, Carrying
<1>2. actor[a].id \in IDsOf(entries)  BY <1>1 DEF IInv, CallsHold
<1>3. destroyers' \in [IDsOf(entries) -> Callers]
  BY CallersAssumption DEF MarkGone, Destroyed, IInv, Ledger
<1>4. Ledger' /\ CurrentIsNewest' /\ IDsFresh' /\ Kept
  BY <1>2, <1>3, MarkKeeps DEF MarkGone, Destroyed, IInv, States
<1>5. /\ actor[a].id \in Nat /\ actor[a].key \in Keys
      /\ RowAfter(actor[a].id, actor[a].key)
  BY <1>1, <1>4, CarriedStays
<1>6. Around'
  BY DEF MarkGone, IInv, Surroundings, Around
<1>7. OneMoreReceipt /\ Return(a)
  BY <1>5 DEF MarkGone, OneMoreReceipt
<1> QED  BY <1>4, <1>6, <1>7, CallerReturns

LEMMA VerifyKeeps ==
  ASSUME IInv, NEW a \in Actors, Verify(a) \/ Exists(a)
  PROVE  IInv'
<1>1. Ledger' /\ CurrentIsNewest' /\ IDsFresh' /\ Kept
  BY UnchangedKeeps DEF Verify, Exists, IInv
<1>2. /\ actor[a].id \in Nat /\ actor[a].at # "idle"
      /\ RowAfter(actor[a].id, actor[a].key)
  BY <1>1, CarriedStays DEF Verify, Exists, Carrying
<1>3. Around' /\ OneMoreReceipt
  BY DEF Verify, Exists, IInv, Surroundings, Around, OneMoreReceipt
<1>4. CASE \E step \in {"exists", "present", "absent"} : Goto(a, step)
  BY <1>1, <1>2, <1>3, <1>4, CallerGoes DEF Steps
<1>5. CASE Return(a)
  BY <1>1, <1>3, <1>5, CallerReturns
<1> QED  BY <1>4, <1>5 DEF Verify, Exists

LEMMA RecordKeeps ==
  ASSUME IInv, NEW a \in Actors, Record(a)
  PROVE  IInv'
<1>1. actor[a].at \in Carrying  BY DEF Record, Carrying
<1>2. actor[a].id \in IDsOf(entries)  BY <1>1 DEF IInv, CallsHold
<1>3. destroyers' \in [IDsOf(entries) -> Callers]  BY DEF Record, IInv, Ledger
<1>4. Ledger' /\ CurrentIsNewest' /\ IDsFresh' /\ Kept
  BY <1>2, <1>3, MarkKeeps DEF Record, IInv, States
<1>5. Around' /\ OneMoreReceipt /\ Return(a)
  BY DEF Record, IInv, Surroundings, Around, OneMoreReceipt
<1> QED  BY <1>4, <1>5, CallerReturns

\* Steps in which no caller moves.
LEMMA OthersKeep ==
  ASSUME IInv, Ledger', CurrentIsNewest', IDsFresh', Kept, Around',
         UNCHANGED <<actor, receipts>>
  PROVE  IInv'
<1>1. CallsHold'
  BY DEF IInv, CallsHold, Kept
<1>2. Surroundings'
  BY DEF IInv, Surroundings, Around, Kept
<1>3. ReceiptsResolve'
  <2> SUFFICES ASSUME NEW r \in receipts
               PROVE  /\ r.id \in DOMAIN byID'
                      /\ entries'[byID'[r.id]].id = r.id
                      /\ entries'[byID'[r.id]].key = r.key
    BY DEF ReceiptsResolve
  <2>1. r.id \in IDsOf(entries)  BY DEF IInv, Surroundings
  <2>2. r.id \in DOMAIN byID'  BY <2>1 DEF Ledger, Kept
  <2> QED  BY <2>1, <2>2 DEF IInv, ReceiptsResolve, Kept
<1> QED  BY <1>1, <1>2, <1>3 DEF IInv

LEMMA StepKeeps ==
  ASSUME IInv, [Next]_vars
  PROVE  IInv'
<1>1. ASSUME NEW a \in Actors, Call(a)  PROVE IInv'
  <2>1. ASSUME NEW op \in Ops, NEW k \in Keys, Begin(a, op, k)  PROVE IInv'
    BY <2>1, BeginKeeps
  <2> QED
    BY <1>1, <2>1, LstatKeeps, CurrentKeeps, StateOfKeeps, InternKeeps, ShadowKeeps,
       ActivateKeeps, WriteKeeps, ArchiveKeeps, MarkGoneKeeps, VerifyKeeps, RecordKeeps
    DEF Call
<1>2. ASSUME NEW k \in Locations, Outside(k)  PROVE IInv'
  <2>1. Ledger' /\ CurrentIsNewest' /\ IDsFresh' /\ Kept
    BY <1>2, UnchangedKeeps DEF Outside, IInv
  <2>2. Around' /\ UNCHANGED <<actor, receipts>>
    BY <1>2 DEF Outside, IInv, Surroundings, Around, Keys
  <2> QED  BY <2>1, <2>2, OthersKeep
<1>3. ASSUME Resume  PROVE IInv'
  <2>1. Ledger' /\ CurrentIsNewest' /\ IDsFresh' /\ Kept
    BY <1>3, ResumeKeeps DEF IInv
  <2>2. Around' /\ UNCHANGED <<actor, receipts>>
    BY <1>3 DEF Resume, IInv, Surroundings, Around
  <2> QED  BY <2>1, <2>2, OthersKeep
<1>4. ASSUME UNCHANGED vars  PROVE IInv'
  <2>1. Ledger' /\ CurrentIsNewest' /\ IDsFresh' /\ Kept
    BY <1>4, UnchangedKeeps DEF vars, IInv
  <2>2. Around' /\ UNCHANGED <<actor, receipts>>
    BY <1>4 DEF vars, IInv, Surroundings, Around
  <2> QED  BY <2>1, <2>2, OthersKeep
<1> QED  BY <1>1, <1>2, <1>3, <1>4 DEF Next

-----------------------------------------------------------------------------
(* The intent rows a run starts from.                                        *)

LEMMA IntentLedger ==
  ASSUME Init
  PROVE  Ledger /\ CurrentIsNewest /\ IDsFresh
<1> DEFINE n == Len(Intent)
<1>1. /\ n \in Nat /\ DOMAIN Intent = 1 .. n /\ DOMAIN entries = 1 .. n
      /\ \A i \in 1 .. n : /\ Intent[i].id \in Nat \ {NoID} /\ Intent[i].key \in Keys
                           /\ entries[i] = [id |-> Intent[i].id, key |-> Intent[i].key,
                                            producer |-> NoCaller]
  <2>1. n \in Nat /\ DOMAIN Intent = 1 .. n
    BY IntentAssumption
  <2>2. \A i \in 1 .. n : Intent[i] \in [id : Nat \ {NoID}, key : Keys]
    <3> DEFINE R == [id : Nat \ {NoID}, key : Keys]
    <3>1. Intent \in Seq(R)  BY IntentAssumption
    <3> HIDE DEF R
    <3>2. \A i \in 1 .. n : Intent[i] \in R  BY <3>1
    <3> QED  BY <3>2 DEF R
  <2>3. entries = [i \in 1 .. n |-> [id |-> Intent[i].id, key |-> Intent[i].key,
                                    producer |-> NoCaller]]
    BY <2>1 DEF Init, IntentRows
  <2> HIDE DEF n
  <2> QED  BY <2>1, <2>2, <2>3
<1>12. \A i, j \in 1 .. n : i < j => /\ Intent[i].id < Intent[j].id
                                    /\ Intent[i].key # Intent[j].key
  <2>1. \A i, j \in DOMAIN Intent : i < j => /\ Intent[i].id < Intent[j].id
                                             /\ Intent[i].key # Intent[j].key
    BY IntentAssumption
  <2> QED  BY <2>1, <1>1
<1>2. entries \in Seq(Rows)
  <2>1. \A i \in 1 .. n : entries[i] \in Rows  BY <1>1 DEF Rows, Callers
  <2>2. entries = [i \in 1 .. n |-> entries[i]]  BY <1>1 DEF Init, IntentRows
  <2> QED  BY <1>1, <2>1, <2>2
<1>3. \A i, j \in DOMAIN entries : i # j => /\ entries[i].id # entries[j].id
                                            /\ entries[i].key # entries[j].key
  <2> SUFFICES ASSUME NEW i \in 1 .. n, NEW j \in 1 .. n, i # j
               PROVE  Intent[i].id # Intent[j].id /\ Intent[i].key # Intent[j].key
    BY <1>1
  <2>0. Intent[i].id \in Nat /\ Intent[j].id \in Nat  BY <1>1
  <2>1. CASE i < j  BY <2>0, <2>1, <1>12
  <2>2. CASE j < i  BY <2>0, <2>2, <1>12
  <2> QED  BY <2>1, <2>2, <1>1
<1>4. ASSUME NEW i \in DOMAIN entries
      PROVE  (CHOOSE j \in DOMAIN entries : entries[j].id = entries[i].id) = i
  BY <1>3
<1>5. byID \in [IDsOf(entries) -> DOMAIN entries]
      /\ \A i \in DOMAIN entries : entries[i].id \in IDsOf(entries) /\ byID[entries[i].id] = i
  <2>1. byID = Indexed(entries)  BY DEF Init
  <2>2. \A i \in DOMAIN entries : entries[i].id \in IDsOf(entries)  BY DEF IDsOf
  <2>3. \A id \in IDsOf(entries) : \E i \in DOMAIN entries : id = entries[i].id  BY DEF IDsOf
  <2>4. \A i \in DOMAIN entries : byID[entries[i].id] = i
    BY <2>1, <2>2, <1>4 DEF Indexed
  <2>5. \A id \in IDsOf(entries) : byID[id] \in DOMAIN entries
    BY <2>3, <2>4
  <2> QED  BY <2>1, <2>2, <2>4, <2>5 DEF Indexed
<1>6. ASSUME NEW k \in Keys
      PROVE  \/ ns[k] = NoID /\ \A i \in DOMAIN entries : entries[i].key # k
             \/ \E i \in DOMAIN entries : entries[i].key = k /\ ns[k] = entries[i].id
  <2>1. ns[k] = NewestOf(entries, k)  BY DEF Init, Namespace
  <2>2. CASE ~ \E i \in DOMAIN entries : entries[i].key = k
    BY <2>1, <2>2 DEF NewestOf
  <2>3. ASSUME NEW i \in DOMAIN entries, entries[i].key = k  PROVE ns[k] = entries[i].id
    <3> DEFINE Newest(m) == /\ entries[m].key = k
                            /\ \A j \in DOMAIN entries : entries[j].key = k => j <= m
    <3>1. \A j \in DOMAIN entries : entries[j].key = k => j = i  BY <2>3, <1>3
    <3>2. i <= i  BY <1>1
    <3>3. Newest(i)  BY <2>3, <3>1, <3>2
    <3>4. (CHOOSE m \in DOMAIN entries : Newest(m)) = i  BY <3>1, <3>3
    <3> QED  BY <2>1, <2>3, <3>4 DEF NewestOf
  <2> QED  BY <2>2, <2>3
<1>7. CurrentIsNewest
  <2> SUFFICES ASSUME NEW k \in Keys
               PROVE  /\ ns[k] # NoID => entries[byID[ns[k]]].key = k
                      /\ \A i \in DOMAIN entries :
                           entries[i].key = k => ns[k] # NoID /\ i <= byID[ns[k]]
    BY DEF CurrentIsNewest
  <2>1. CASE ns[k] = NoID /\ \A i \in DOMAIN entries : entries[i].key # k
    BY <2>1
  <2>2. ASSUME NEW i \in DOMAIN entries, entries[i].key = k, ns[k] = entries[i].id
        PROVE  /\ ns[k] # NoID => entries[byID[ns[k]]].key = k
               /\ \A j \in DOMAIN entries :
                    entries[j].key = k => ns[k] # NoID /\ j <= byID[ns[k]]
    <3>1. byID[ns[k]] = i /\ ns[k] # NoID  BY <2>2, <1>1, <1>5
    <3>2. \A j \in DOMAIN entries : entries[j].key = k => j = i  BY <2>2, <1>3
    <3>3. i <= i  BY <1>1
    <3> QED  BY <2>2, <3>1, <3>2, <3>3
  <2> QED  BY <2>1, <2>2, <1>6
<1>8. ns \in [Keys -> IDsOf(entries) \cup {NoID}]
  <2>1. \A k \in Keys : ns[k] \in IDsOf(entries) \cup {NoID}  BY <1>5, <1>6
  <2>2. ns = [k \in Keys |-> ns[k]]  BY DEF Init, Namespace
  <2> QED  BY <2>1, <2>2
<1>9. states \in [IDsOf(entries) -> States] /\ destroyers \in [IDsOf(entries) -> Callers]
  BY DEF Init, States, Callers
<1>10. nextID \in Nat /\ \A i \in DOMAIN entries : entries[i].id <= nextID
  <2>1. CASE Intent = <<>>  BY <2>1, <1>1 DEF Init, AfterIntent
  <2>2. CASE Intent # <<>>
    <3>1. n \in 1 .. n  BY <2>2, <1>1
    <3>2. nextID = Intent[n].id + 1 /\ Intent[n].id \in Nat
      BY <2>2, <3>1, <1>1 DEF Init, AfterIntent
    <3>3. ASSUME NEW i \in 1 .. n  PROVE Intent[i].id <= Intent[n].id
      <4>1. CASE i = n  BY <4>1, <3>2
      <4>2. CASE i < n
        <5>1. Intent[i].id < Intent[n].id  BY <4>2, <3>1, <1>12
        <5>2. Intent[i].id \in Nat /\ Intent[n].id \in Nat  BY <3>1, <1>1
        <5> QED  BY <5>1, <5>2
      <4>3. i < n \/ i = n
        <5>1. n \in Nat  BY <1>1
        <5> HIDE DEF n
        <5> QED  BY <5>1
      <4> QED  BY <4>1, <4>2, <4>3
    <3>4. ASSUME NEW i \in 1 .. n  PROVE entries[i].id <= nextID
      <4>1. entries[i].id = Intent[i].id /\ Intent[i].id \in Nat  BY <1>1
      <4> QED  BY <4>1, <3>2, <3>3
    <3> QED  BY <1>1, <3>2, <3>4
  <2> QED  BY <2>1, <2>2
<1>11. IDsFresh
  <2>1. \A i, j \in 1 .. n : i < j => entries[i].id < entries[j].id
    BY <1>1, <1>12
  <2> QED  BY <1>1, <1>10, <2>1 DEF IDsFresh
<1> QED  BY <1>2, <1>5, <1>7, <1>8, <1>9, <1>10, <1>11 DEF Ledger

LEMMA InitHolds ==
  ASSUME Init
  PROVE  IInv
<1>1. Ledger /\ CurrentIsNewest /\ IDsFresh  BY IntentLedger
<1>2. CallsHold  BY DEF Init, CallsHold, Idle, Carrying
<1>3. Surroundings
  BY DEF Init, Surroundings, Idle, Steps, Ops, NoID
<1>4. ReceiptsResolve  BY DEF Init, ReceiptsResolve
<1> QED  BY <1>1, <1>2, <1>3, <1>4 DEF IInv

\* How one step changes the rows and the namespace.
LEMMA StepShape ==
  ASSUME IInv, [Next]_vars
  PROVE  \/ entries' = entries /\ ns' = ns /\ byID' = byID
         \/ \E k \in Keys, p \in Callers :
              CatalogLocked(k, p) /\ (ns[k] = NoID \/ ~Defers(k, p))
<1>1. CASE \E a \in Actors : Intern(a)
  <2>1. PICK a \in Actors : Intern(a)  BY <1>1
  <2>2. actor[a].key \in Keys  BY <2>1 DEF Intern, IInv, CallsHold
  <2> QED  BY <2>1, <2>2 DEF Intern, catalog, Callers
<1>2. CASE \E a \in Actors : Shadow(a)
  <2>1. PICK a \in Actors : Shadow(a)  BY <1>2
  <2>2. actor[a].key \in Keys  BY <2>1 DEF Shadow, IInv, CallsHold
  <2> QED  BY <2>1, <2>2, CallersAssumption DEF Shadow, catalog
<1>3. CASE Resume
  BY <1>3, IndexRebuilt, NamespaceRebuilt DEF IInv, Resume, Captured
<1>4. CASE \E a \in Actors : Activate(a) \/ MarkGone(a) \/ Record(a)
  BY <1>4 DEF Activate, MarkGone, Record, Destroyed, Mark
<1>5. CASE UNCHANGED catalog
  BY <1>5 DEF catalog
<1>6. \/ \E a \in Actors : Intern(a) \/ Shadow(a) \/ Activate(a) \/ MarkGone(a) \/ Record(a)
      \/ Resume \/ UNCHANGED catalog
  BY DEF Next, Call, vars, Begin, Lstat, Current, StateOf, Write, Archive, Verify, Exists,
         Outside
<1> QED  BY <1>1, <1>2, <1>3, <1>4, <1>5, <1>6

LEMMA StepAppends ==
  ASSUME IInv, [Next]_vars
  PROVE  /\ Len(entries') >= Len(entries)
         /\ SubSeq(entries', 1, Len(entries)) = entries
<1>1. entries \in Seq(Rows) /\ Len(entries) \in Nat  BY DEF IInv, Ledger
<1>2. CASE entries' = entries
  <2>1. SubSeq(entries, 1, Len(entries)) = entries  BY <1>1
  <2> QED  BY <1>1, <1>2, <2>1
<1>3. ASSUME NEW k \in Keys, NEW p \in Callers, CatalogLocked(k, p)
      PROVE  /\ Len(entries') >= Len(entries)
             /\ SubSeq(entries', 1, Len(entries)) = entries
  <2> DEFINE row == [id |-> Minted, key |-> k, producer |-> p]
  <2>1. entries' = Append(entries, row)  BY <1>3 DEF CatalogLocked
  <2>2. row \in Rows  BY DEF IInv, Ledger, Rows, Minted, NoID
  <2> HIDE DEF row
  <2>3. Len(Append(entries, row)) = Len(entries) + 1  BY <1>1, <2>2
  <2>4. SubSeq(Append(entries, row), 1, Len(entries)) = entries  BY <1>1, <2>2
  <2> QED  BY <1>1, <2>1, <2>3, <2>4
<1> QED  BY <1>2, <1>3, StepShape

LEMMA StepDefers ==
  ASSUME IInv, [Next]_vars,
         NEW k \in Keys, ns'[k] # ns[k], ns[k] # NoID
  PROVE  \/ ProducerOf(ns[k]) = NoCaller
         \/ states[ns[k]] = "Gone"
         \/ entries'[byID'[ns'[k]]].producer # NoCaller
<1>1. PICK q \in Keys, p \in Callers : CatalogLocked(q, p) /\ (ns[q] = NoID \/ ~Defers(q, p))
  BY StepShape
<1>2. q = k /\ ns'[k] = Minted  BY <1>1 DEF CatalogLocked, IInv, Ledger
<1>3. CASE p = NoCaller
  BY <1>1, <1>2, <1>3 DEF Defers
<1>4. CASE p # NoCaller
  <2>1. byID'[Minted] = Len(entries) + 1  BY <1>1 DEF CatalogLocked
  <2>2. entries'[Len(entries) + 1].producer = p  BY <1>1 DEF CatalogLocked, IInv, Ledger
  <2> QED  BY <1>2, <1>4, <2>1, <2>2
<1> QED  BY <1>3, <1>4

-----------------------------------------------------------------------------
(* The theorems.                                                             *)

\* IInv is an inductive invariant.
THEOREM CatalogInvariant == Spec => []IInv
<1>1. Init => IInv  BY InitHolds
<1>2. IInv /\ [Next]_vars => IInv'  BY StepKeeps
<1> QED  BY <1>1, <1>2, PTL DEF Spec

\* The catalog's maps agree with its rows in every reachable state.
THEOREM CatalogTyped == Spec => []TypeOK
<1>1. IInv => TypeOK  BY DEF IInv, Ledger, Surroundings, TypeOK
<1> QED  BY <1>1, CatalogInvariant, PTL

\* The namespace points at the newest generation of every key, whatever the
\* callers interleave and however often the ledger is saved and restored.
THEOREM NewestIsCurrent == Spec => []CurrentIsNewest
<1>1. IInv => CurrentIsNewest  BY DEF IInv
<1> QED  BY <1>1, CatalogInvariant, PTL

\* No id is minted twice, after a load with gaps or a resume (catalogLocked).
THEOREM FreshIDs == Spec => []IDsFresh
<1>1. IInv => IDsFresh  BY DEF IInv
<1> QED  BY <1>1, CatalogInvariant, PTL

\* The id references of the recovery stacks resolve to the resources they were
\* recorded for (Lookup after Rehydrate).
THEOREM ReferencesResolve == Spec => []ReceiptsResolve
<1>1. IInv => ReceiptsResolve  BY DEF IInv
<1> QED  BY <1>1, CatalogInvariant, PTL

\* The ledger only grows: rows keep their place, id, key and producer.
THEOREM HistoryKept == Spec => LedgerAppendOnly
<1>1. IInv /\ [Next]_vars => [/\ Len(entries') >= Len(entries)
                              /\ SubSeq(entries', 1, Len(entries)) = entries]_vars
  BY StepAppends
<1> QED  BY <1>1, CatalogInvariant, PTL DEF Spec, LedgerAppendOnly

\* A caller without an id never displaces a generation some unit produced and
\* nobody removed (Shadow's deference).
THEOREM ProducersDeferredTo == Spec => ProducedKeepsItsKey
<1> DEFINE Deferred == \A k \in Keys :
             (ns'[k] # ns[k] /\ ns[k] # NoID)
               => \/ ProducerOf(ns[k]) = NoCaller
                  \/ states[ns[k]] = "Gone"
                  \/ entries'[byID'[ns'[k]]].producer # NoCaller
<1>1. IInv /\ [Next]_vars => [Deferred]_vars
  BY StepDefers
<1> QED  BY <1>1, CatalogInvariant, PTL DEF Spec, ProducedKeepsItsKey

-----------------------------------------------------------------------------
(* What the ledger says is so.  A key that is not overlapped is handled by *)
(* one call at a time; at each place of that call, what the ledger says of *)
(* the disk and what the call knows of both.                               *)
AtKey(a, k) == actor[a].at # "idle" /\ actor[a].key = k

Truth(k) == ns[k] # NoID => /\ states[ns[k]] = "Active" => disk[k]
                            /\ states[ns[k]] = "Gone" => ~disk[k]
Single(k) == \A i, j \in DOMAIN entries : entries[i].key = k /\ entries[j].key = k => i = j

Honest == {"idle", "lstat", "current", "state", "intern", "shadow", "verify", "exists", "archive"}
RightAt(at, id, k) ==
  /\ k \in Locations =>
       /\ at \in Honest => Truth(k)
       /\ at \in Carrying => id = ns[k]
       /\ at \in {"markGone", "absent"} => ~disk[k]
       /\ at = "present" => disk[k]
       /\ at = "write" => states[ns[k]] = "Active"
  /\ k \in Contents => Single(k) /\ (at = "shadow" => ns[k] = NoID)

KeyRight(k) ==
  /\ (\A a \in Actors : ~AtKey(a, k)) => RightAt("idle", NoID, k)
  /\ \A a \in Actors : AtKey(a, k) => RightAt(actor[a].at, actor[a].id, k)
  /\ \A a, b \in Actors : AtKey(a, k) /\ AtKey(b, k) => a = b

\* Only what is at a path is archived, marked gone or looked up on the disk,
\* so content is never gone.
OnPath(at, op, k) ==
  /\ op \in {"remove", "find", "claim"} => k \in Locations
  /\ at \in {"archive", "markGone"} => op = "remove"
  /\ at \in {"verify", "exists", "present", "absent"} => op \in {"find", "claim"}
OnPaths == \A a \in Actors :
  actor[a].at # "idle" => OnPath(actor[a].at, actor[a].op, actor[a].key)
ContentStays == \A id \in IDsOf(entries) : entries[byID[id]].key \in Contents => states[id] # "Gone"

TInv == OnPaths /\ ContentStays /\ \A k \in Keys \ overlapped : KeyRight(k)

\* A step that is about another key.
Same(k) == /\ ns'[k] = ns[k] /\ (k \in Locations => disk'[k] = disk[k])
           /\ ns[k] # NoID => states'[ns[k]] = states[ns[k]]
           /\ Single(k) => Single(k)'

LEMMA SameRight ==
  ASSUME NEW k, NEW at, NEW id, Same(k), RightAt(at, id, k),
         at = "write" => ns[k] # NoID \/ k \notin Locations
  PROVE  RightAt(at, id, k)'
BY DEF Same, RightAt, Truth

\* Where a call is after one of its steps.
Moved(a, step, id) ==
  \/ GotoWith(a, step, id)
  \/ Goto(a, step) /\ id = actor[a].id
  \/ Return(a) /\ step = "idle"

LEMMA MovedTo ==
  ASSUME IInv, NEW a \in Actors, NEW step, NEW id, Moved(a, step, id)
  PROVE  /\ \A b \in Actors : b # a => actor'[b] = actor[b]
         /\ actor'[a].at = step
         /\ step # "idle" => /\ actor'[a].key = actor[a].key /\ actor'[a].op = actor[a].op
                             /\ actor'[a].id = id
<1>1. actor \in [Actors -> Calling]
  BY DEF IInv, Surroundings, Calling
<1>2. CASE GotoWith(a, step, id)  BY <1>1, <1>2 DEF GotoWith, Calling
<1>3. CASE Goto(a, step) /\ id = actor[a].id  BY <1>1, <1>3 DEF Goto, Calling
<1>4. CASE Return(a) /\ step = "idle"  BY <1>1, <1>4 DEF Return, Idle
<1> QED  BY <1>2, <1>3, <1>4 DEF Moved

\* The id a call carries at the place it writes the file is a row of its key.
LEMMA WriteHasRow ==
  ASSUME IInv, NEW a \in Actors, NEW k \in Locations, AtKey(a, k), actor[a].at = "write",
         RightAt(actor[a].at, actor[a].id, k)
  PROVE  ns[k] # NoID
<1>1. actor[a].at \in Carrying  BY DEF Carrying
<1>2. actor[a].id \in IDsOf(entries) /\ actor[a].id = ns[k]
  BY <1>1 DEF IInv, CallsHold, RightAt
<1> QED  BY <1>2, IDOfRow DEF IInv

LEMMA CallMoves ==
  ASSUME IInv, TInv, NEW a \in Actors, NEW q, actor[a].at # "idle", actor[a].key = q,
         NEW step, NEW id, Moved(a, step, id), overlapped \subseteq overlapped',
         \A k \in Keys \ {q} : Same(k),
         q \in Keys \ overlapped' /\ RightAt(actor[a].at, actor[a].id, q) => RightAt(step, id, q)',
         step # "idle" => OnPath(step, actor[a].op, q),
         ContentStays'
  PROVE  TInv'
<1>1. /\ \A b \in Actors : b # a => actor'[b] = actor[b]
      /\ actor'[a].at = step
      /\ step # "idle" => actor'[a].key = q /\ actor'[a].op = actor[a].op /\ actor'[a].id = id
  BY MovedTo
<1>2. OnPaths'
  <2> SUFFICES ASSUME NEW b \in Actors, actor'[b].at # "idle"
               PROVE  OnPath(actor'[b].at, actor'[b].op, actor'[b].key)
    BY DEF OnPaths, OnPath
  <2>1. CASE b = a  BY <1>1, <2>1
  <2>2. CASE b # a  BY <1>1, <2>2 DEF TInv, OnPaths
  <2> QED  BY <2>1, <2>2
<1>3. ASSUME NEW k \in Keys, k \notin overlapped'  PROVE KeyRight(k)'
  <2>1. KeyRight(k)
    BY <1>3 DEF TInv
  <2>2. CASE k = q
    <3>1. AtKey(a, k) /\ \A b \in Actors : AtKey(b, k) => b = a
      BY <2>1, <2>2 DEF KeyRight, AtKey
    <3>2. RightAt(step, id, k)'
      BY <1>3, <2>1, <2>2, <3>1 DEF KeyRight
    <3>3. \A b \in Actors : AtKey(b, k)' => b = a
      BY <1>1, <3>1 DEF AtKey
    <3>4. CASE step = "idle"
      <4>1. \A b \in Actors : ~AtKey(b, k)'
        BY <1>1, <3>3, <3>4 DEF AtKey
      <4>2. RightAt("idle", NoID, k)'
        BY <3>2, <3>4 DEF RightAt, Carrying
      <4> QED  BY <4>1, <4>2 DEF KeyRight
    <3>5. CASE step # "idle"
      <4>1. AtKey(a, k)' /\ actor'[a].at = step /\ actor'[a].id = id
        BY <1>1, <2>2, <3>5 DEF AtKey
      <4>2. RightAt(actor[a].at, actor[a].id, k)'
        BY <3>2, <4>1 DEF RightAt
      <4> QED  BY <3>3, <4>1, <4>2 DEF KeyRight
    <3> QED  BY <3>4, <3>5
  <2>3. CASE k # q
    <3>1. Same(k)  BY <1>3, <2>3
    <3>2. \A b \in Actors : AtKey(b, k)' <=> AtKey(b, k)
      BY <1>1, <2>3 DEF AtKey
    <3>3. ASSUME NEW b \in Actors, AtKey(b, k)  PROVE RightAt(actor[b].at, actor[b].id, k)'
      <4>1. PICK at, number : at = actor[b].at /\ number = actor[b].id
        OBVIOUS
      <4>2. actor'[b] = actor[b]
        BY <1>1, <2>3, <3>3 DEF AtKey
      <4>3. RightAt(at, number, k)
        BY <2>1, <3>3, <4>1 DEF KeyRight
      <4>4. at = "write" => ns[k] # NoID \/ k \notin Locations
        BY <3>3, <4>1, <4>3, WriteHasRow
      <4>5. RightAt(at, number, k)'
        BY <3>1, <4>3, <4>4, SameRight
      <4>6. actor'[b].at = at /\ actor'[b].id = number
        BY <4>1, <4>2
      <4> QED  BY <4>5, <4>6 DEF RightAt
    <3>4. (\A b \in Actors : ~AtKey(b, k)) => RightAt("idle", NoID, k)'
      BY <2>1, <3>1, SameRight DEF KeyRight
    <3> QED  BY <2>1, <3>2, <3>3, <3>4 DEF KeyRight
  <2> QED  BY <2>2, <2>3
<1> QED  BY <1>2, <1>3 DEF TInv

\* Steps that leave the catalog and the disk alone.
LEMMA LooksOnly ==
  ASSUME IInv, TInv, NEW a \in Actors, NEW q, actor[a].at # "idle", actor[a].key = q,
         NEW step, NEW id, Moved(a, step, id), UNCHANGED <<catalog, disk, overlapped>>,
         RightAt(actor[a].at, actor[a].id, q) => RightAt(step, id, q),
         step # "idle" => OnPath(step, actor[a].op, q)
  PROVE  TInv'
<1>1. /\ \A k \in Keys : Same(k)
      /\ ContentStays'
      /\ RightAt(step, id, q) => RightAt(step, id, q)'
  BY DEF catalog, Same, Single, TInv, ContentStays, RightAt, Truth, IDsOf
<1> QED  BY <1>1, CallMoves

\* A new generation of a key leaves the others as they were.
LEMMA LockedSame ==
  ASSUME IInv, TInv, NEW q \in Keys, NEW p \in Callers, CatalogLocked(q, p), UNCHANGED disk
  PROVE  /\ \A k \in Keys \ {q} : Same(k)
         /\ ContentStays'
         /\ ns'[q] = Minted /\ states'[Minted] = "Pending"
         /\ ns[q] = NoID => Single(q)'
<1> DEFINE n == Len(entries)
           row == [id |-> Minted, key |-> q, producer |-> p]
<1>1. /\ Minted \in IDsOf(entries') /\ IDsOf(entries') = IDsOf(entries) \cup {Minted}
      /\ Minted \notin IDsOf(entries) /\ entries'[byID'[Minted]].key = q /\ Kept
  <2>1. Minted \in IDsOf(entries') /\ entries'[byID'[Minted]].key = q /\ Kept
    BY LockedKeeps DEF IInv
  <2>2. \A id \in IDsOf(entries) : id <= nextID
    BY DEF IDsOf, IInv, IDsFresh
  <2>3. Minted \notin IDsOf(entries)
    BY <2>2 DEF Minted, IInv, Ledger
  <2>4. entries' = Append(entries, row) /\ row \in Rows /\ entries \in Seq(Rows)
    BY DEF CatalogLocked, IInv, Ledger, Rows, Minted, NoID
  <2>5. IDsOf(entries') = IDsOf(entries) \cup {Minted}
    <3>1. DOMAIN entries' = DOMAIN entries \cup {n + 1} /\ entries'[n + 1].id = Minted
          /\ \A i \in DOMAIN entries : entries'[i] = entries[i]
      BY <2>4
    <3> QED  BY <3>1 DEF IDsOf
  <2> QED  BY <2>1, <2>3, <2>5
<1>2. /\ n \in Nat /\ DOMAIN entries = 1 .. n /\ DOMAIN entries' = 1 .. n + 1
      /\ \A i \in 1 .. n : entries'[i] = entries[i]
      /\ entries'[n + 1].key = q
  BY DEF CatalogLocked, IInv, Ledger, Rows, Minted, NoID
<1>3. /\ \A id \in IDsOf(entries) : states'[id] = states[id]
      /\ states'[Minted] = "Pending" /\ ns' = [ns EXCEPT ![q] = Minted]
      /\ ns \in [Keys -> IDsOf(entries) \cup {NoID}]
  BY <1>1 DEF CatalogLocked, IInv, Ledger
<1>4. ASSUME NEW k \in Keys, k # q  PROVE Same(k)
  <2>1. ns'[k] = ns[k] /\ (ns[k] # NoID => states'[ns[k]] = states[ns[k]])
    BY <1>3, <1>4
  <2>2. Single(k) => Single(k)'
    <3>1. \A i \in DOMAIN entries' : entries'[i].key = k => i \in DOMAIN entries /\ entries[i].key = k
      BY <1>2, <1>4
    <3> QED  BY <3>1 DEF Single
  <2> QED  BY <2>1, <2>2 DEF Same
<1>5. ContentStays'
  BY <1>1, <1>3 DEF ContentStays, TInv, Kept
<1>6. ns[q] = NoID => Single(q)'
  <2>1. ns[q] = NoID => \A i \in DOMAIN entries : entries[i].key # q
    BY DEF IInv, CurrentIsNewest
  <2>2. ns[q] = NoID => \A i \in DOMAIN entries' : entries'[i].key = q => i = n + 1
    BY <1>2, <2>1
  <2> QED  BY <2>2 DEF Single
<1> QED  BY <1>3, <1>4, <1>5, <1>6 DEF IInv, Ledger

\* A verdict on a row of a key leaves the others as they were.
LEMMA MarkSame ==
  ASSUME IInv, TInv, NEW a \in Actors, NEW q, actor[a].at \in Carrying, actor[a].key = q,
         NEW s \in States, Mark(actor[a].id, s),
         s = "Gone" => q \notin Contents,
         \A k \in Keys \ {q} : k \in Locations => disk'[k] = disk[k]
  PROVE  /\ \A k \in Keys \ {q} : Same(k)
         /\ ContentStays' /\ states'[actor[a].id] = s
         /\ ns' = ns /\ (Single(q) => Single(q)') /\ q \in Keys
<1> DEFINE id == actor[a].id
<1>1. id \in IDsOf(entries) /\ entries[byID[id]].key = q /\ q \in Keys
  BY DEF IInv, CallsHold, Carrying
<1>2. states' = [states EXCEPT ![id] = s] /\ UNCHANGED <<entries, byID, ns>>
      /\ states \in [IDsOf(entries) -> States]
  BY DEF Mark, IInv, Ledger
<1>3. ASSUME NEW k \in Keys \ {q}  PROVE Same(k)
  <2>1. ns[k] # NoID => ns[k] # id
    BY <1>1, <1>3 DEF IInv, CurrentIsNewest
  <2>2. ns[k] # NoID => states'[ns[k]] = states[ns[k]]
    BY <1>2, <2>1, <1>3 DEF IInv, Ledger
  <2> QED  BY <1>2, <2>2 DEF Same, Single
<1>4. ContentStays'
  BY <1>1, <1>2 DEF ContentStays, TInv, IDsOf
<1> QED  BY <1>1, <1>2, <1>3, <1>4 DEF Single

\* What every call at a place knows.
LEMMA Calls ==
  ASSUME IInv, TInv, NEW a \in Actors, actor[a].at # "idle"
  PROVE  /\ actor[a].key \in Keys /\ actor[a].op \in Ops
         /\ OnPath(actor[a].at, actor[a].op, actor[a].key)
BY DEF IInv, CallsHold, Surroundings, TInv, OnPaths

LEMMA BeginTrue ==
  ASSUME IInv, TInv, NEW a \in Actors, NEW op \in Ops, NEW q \in Keys, Begin(a, op, q)
  PROVE  TInv'
<1> DEFINE first == IF op \in {"remove", "find"} THEN "lstat" ELSE "current"
           v == [at |-> first, op |-> op, key |-> q, id |-> NoID]
<1>1. /\ actor' = [actor EXCEPT ![a] = v] /\ actor[a].at = "idle"
      /\ op \in {"remove", "find", "claim"} => q \in Locations
      /\ overlapped' = IF Busy(q) THEN overlapped \cup {q} ELSE overlapped
      /\ UNCHANGED <<catalog, disk>>
  BY DEF Begin
<1>2. /\ \A b \in Actors : b # a => actor'[b] = actor[b]
      /\ actor'[a] = v /\ v.at = first /\ v.key = q /\ v.op = op
  BY <1>1 DEF IInv, Surroundings
<1> HIDE DEF v
<1>3. OnPaths'
  BY <1>1, <1>2 DEF TInv, OnPaths, OnPath
<1>4. ContentStays' /\ \A k \in Keys : \A at, id : RightAt(at, id, k) => RightAt(at, id, k)'
  BY <1>1 DEF TInv, ContentStays, RightAt, Truth, Single, catalog, IDsOf
<1>5. ASSUME NEW k \in Keys, k \notin overlapped'  PROVE KeyRight(k)'
  <2>1. KeyRight(k)
    BY <1>1, <1>5 DEF TInv
  <2>2. CASE k = q
    <3>1. \A b \in Actors : ~AtKey(b, k)
      BY <1>1, <1>5, <2>2 DEF Busy, AtKey
    <3>2. \A b \in Actors : AtKey(b, k)' => b = a
      BY <1>2, <3>1 DEF AtKey
    <3>3. RightAt("idle", NoID, k)'
      BY <1>4, <2>1, <3>1 DEF KeyRight
    <3>4. RightAt(actor[a].at, actor[a].id, k)'
      <4>1. actor'[a].at = first
        BY <1>2
      <4> QED  BY <3>3, <4>1 DEF RightAt, Honest, Carrying
    <3> QED  BY <1>2, <2>2, <3>2, <3>4 DEF KeyRight, AtKey
  <2>3. CASE k # q
    <3>1. \A b \in Actors : AtKey(b, k)' <=> AtKey(b, k)
      BY <1>1, <1>2, <2>3 DEF AtKey
    <3>2. \A b \in Actors : AtKey(b, k) => actor'[b] = actor[b]
      BY <1>1, <1>2, <2>3 DEF AtKey
    <3>3. ASSUME NEW b \in Actors, AtKey(b, k)  PROVE RightAt(actor[b].at, actor[b].id, k)'
      <4>1. PICK at, id : at = actor[b].at /\ id = actor[b].id
        OBVIOUS
      <4>2. RightAt(at, id, k)'
        BY <1>4, <2>1, <3>3, <4>1 DEF KeyRight
      <4>3. actor'[b].at = at /\ actor'[b].id = id
        BY <3>2, <3>3, <4>1
      <4> QED  BY <4>2, <4>3 DEF RightAt
    <3> QED  BY <1>4, <2>1, <3>1, <3>3 DEF KeyRight
  <2> QED  BY <2>2, <2>3
<1> QED  BY <1>3, <1>4, <1>5 DEF TInv

LEMMA LstatTrue == ASSUME IInv, TInv, NEW a \in Actors, Lstat(a) PROVE TInv'
<1> DEFINE q == actor[a].key
<1>1. actor[a].at = "lstat" /\ UNCHANGED <<catalog, disk, overlapped>> /\ OnPath("lstat", actor[a].op, q)
  BY Calls DEF Lstat
<1>2. PICK step \in {"current", "idle"} : Moved(a, step, actor[a].id)
  BY DEF Lstat, Moved
<1>3. RightAt("lstat", actor[a].id, q) => RightAt(step, actor[a].id, q)
  BY DEF RightAt, Honest, Carrying
<1>4. OnPath(step, actor[a].op, q)
  BY <1>1 DEF OnPath
<1> QED  BY <1>1, <1>2, <1>3, <1>4, LooksOnly

LEMMA CurrentTrue == ASSUME IInv, TInv, NEW a \in Actors, Current(a) PROVE TInv'
<1> DEFINE q == actor[a].key
           op == actor[a].op
<1>1. /\ actor[a].at = "current" /\ UNCHANGED <<catalog, disk, overlapped>>
      /\ OnPath("current", op, q) /\ op \in Ops /\ q \in Keys
  BY Calls DEF Current
<1>2. PICK step : step = AfterCurrent(op, q, ns[q]) /\ Moved(a, step, ns[q])
  BY DEF Current, Moved
<1>3. step \in {"verify", "state", "shadow", "intern"} /\ (step = "verify" => op = "claim")
  BY <1>2 DEF AfterCurrent
<1>4. step = "shadow" /\ q \in Contents => ns[q] = NoID
  BY <1>2 DEF AfterCurrent
<1>5. RightAt("current", actor[a].id, q) => RightAt(step, ns[q], q)
  BY <1>3, <1>4 DEF RightAt, Honest
<1>6. OnPath(step, op, q)
  BY <1>1, <1>3 DEF OnPath
<1> QED  BY <1>1, <1>2, <1>5, <1>6, LooksOnly

\* What Discovered does next, with the current id of its key.
LEMMA DiscoveredTo ==
  ASSUME IInv, TInv, NEW a \in Actors, NEW id, Discovered(a, id)
  PROVE  \E step \in {"archive", "verify", "idle"} :
           /\ Moved(a, step, id) \/ (step = "idle" /\ Moved(a, step, actor[a].id))
           /\ step = "archive" => actor[a].op = "remove"
           /\ step = "verify" => actor[a].op = "find"
<1>1. CASE actor[a].op = "remove"  BY <1>1 DEF Discovered, Moved
<1>2. CASE actor[a].op = "find"  BY <1>2 DEF Discovered, Moved
<1>3. CASE actor[a].op \notin {"remove", "find"}  BY <1>3 DEF Discovered, Moved
<1> QED  BY <1>1, <1>2, <1>3

LEMMA StateOfTrue == ASSUME IInv, TInv, NEW a \in Actors, StateOf(a) PROVE TInv'
<1> DEFINE q == actor[a].key
           op == actor[a].op
           id == actor[a].id
<1>1. /\ actor[a].at = "state" /\ UNCHANGED <<catalog, disk, overlapped>>
      /\ OnPath("state", op, q) /\ op \in Ops /\ q \in Keys
  BY Calls DEF StateOf
<1>2. id \in IDsOf(entries) /\ entries[byID[id]].key = q
  BY <1>1 DEF IInv, CallsHold, Carrying
<1>3. PICK step \in {"archive", "verify", "idle", "shadow"} :
        /\ Moved(a, step, id)
        /\ step = "archive" => op = "remove"
        /\ step = "verify" => op = "find"
        /\ step = "shadow" => ~Answers(op, states[id])
  BY DiscoveredTo DEF StateOf, Moved
<1>4. step = "shadow" => q \notin Contents
  BY <1>2, <1>3 DEF Answers, TInv, ContentStays
<1>5. RightAt("state", id, q) => RightAt(step, id, q)
  BY <1>3, <1>4 DEF RightAt, Honest, Carrying
<1>6. OnPath(step, op, q)
  BY <1>1, <1>3 DEF OnPath
<1> QED  BY <1>1, <1>3, <1>5, <1>6, LooksOnly

LEMMA InternTrue == ASSUME IInv, TInv, NEW a \in Actors, Intern(a) PROVE TInv'
<1> DEFINE q == actor[a].key
           op == actor[a].op
<1>1. /\ actor[a].at = "intern" /\ UNCHANGED <<disk, overlapped>>
      /\ OnPath("intern", op, q) /\ op \in Ops /\ q \in Keys
  BY Calls DEF Intern
<1>2. CASE ns[q] # NoID /\ Discovered(a, ns[q]) /\ UNCHANGED catalog
  <2>1. PICK step \in {"archive", "verify", "idle"} :
          /\ Moved(a, step, ns[q]) \/ (step = "idle" /\ Moved(a, step, actor[a].id))
          /\ step = "archive" => op = "remove"
          /\ step = "verify" => op = "find"
    BY <1>2, DiscoveredTo
  <2>2. /\ RightAt("intern", actor[a].id, q) => RightAt(step, ns[q], q)
        /\ step = "idle" => (RightAt("intern", actor[a].id, q) => RightAt(step, actor[a].id, q))
    BY DEF RightAt, Honest, Carrying
  <2>3. OnPath(step, op, q)
    BY <1>1, <2>1 DEF OnPath
  <2> QED  BY <1>1, <1>2, <2>1, <2>2, <2>3, LooksOnly
<1>3. CASE ns[q] = NoID /\ CatalogLocked(q, NoCaller) /\ Discovered(a, Minted)
  <2>1. PICK step, id :
          /\ Moved(a, step, id) /\ (step # "idle" => id = Minted)
          /\ step \in {"archive", "verify", "idle"}
          /\ step = "archive" => op = "remove"
          /\ step = "verify" => op = "find"
    BY <1>3, DiscoveredTo
  <2>2. PICK k, m : k = q /\ m = Minted
    OBVIOUS
  <2>3. /\ \A j \in Keys \ {k} : Same(j)
        /\ ContentStays' /\ ns'[k] = m /\ states'[m] = "Pending" /\ Single(k)'
    <3>1. k \in Keys /\ ns[k] = NoID /\ CatalogLocked(k, NoCaller) /\ NoCaller \in Callers
      BY <1>1, <1>3, <2>2 DEF Callers
    <3> QED  BY <1>1, <2>2, <3>1, LockedSame
  <2>4. RightAt(step, id, k)'
    <3>1. Truth(k)'
      BY <2>3 DEF Truth
    <3>2. step # "idle" => id = ns'[k]
      BY <2>1, <2>2, <2>3
    <3> QED  BY <2>1, <2>3, <3>1, <3>2 DEF RightAt, Carrying
  <2>5. OnPath(step, op, k)
    BY <1>1, <2>1, <2>2 DEF OnPath
  <2> QED  BY <1>1, <2>1, <2>2, <2>3, <2>4, <2>5, CallMoves
<1> QED  BY <1>2, <1>3 DEF Intern

LEMMA ShadowTrue == ASSUME IInv, TInv, NEW a \in Actors, Shadow(a) PROVE TInv'
<1> DEFINE q == actor[a].key
           op == actor[a].op
<1>1. /\ actor[a].at = "shadow" /\ UNCHANGED <<disk, overlapped>>
      /\ OnPath("shadow", op, q) /\ op \in Ops /\ q \in Keys
  BY Calls DEF Shadow
<1>2. OnPath("activate", op, q)
  BY <1>1 DEF OnPath
<1>3. CASE GotoWith(a, "activate", Adopted(q)) /\ UNCHANGED catalog
  <2>1. Moved(a, "activate", ns[q])
    BY <1>3 DEF Moved, Adopted
  <2>2. RightAt("shadow", actor[a].id, q) => RightAt("activate", ns[q], q)
    BY DEF RightAt, Honest
  <2> QED  BY <1>1, <1>2, <1>3, <2>1, <2>2, LooksOnly
<1>4. CASE CatalogLocked(q, CallerOf[a]) /\ GotoWith(a, "activate", Minted)
  <2>1. Moved(a, "activate", Minted)
    BY <1>4 DEF Moved
  <2>2. PICK k, m : k = q /\ m = Minted
    OBVIOUS
  <2>3. /\ \A j \in Keys \ {k} : Same(j)
        /\ ContentStays' /\ ns'[k] = m /\ (ns[k] = NoID => Single(k)')
    <3>1. k \in Keys /\ CallerOf[a] \in Callers /\ CatalogLocked(k, CallerOf[a])
      BY <1>1, <1>4, <2>2, CallersAssumption
    <3> QED  BY <1>1, <2>2, <3>1, LockedSame
  <2>4. RightAt("shadow", actor[a].id, k) => RightAt("activate", m, k)'
    BY <2>3 DEF RightAt, Honest
  <2> QED  BY <1>1, <1>2, <2>1, <2>2, <2>3, <2>4, CallMoves
<1> QED  BY <1>3, <1>4 DEF Shadow

LEMMA ActivateTrue == ASSUME IInv, TInv, NEW a \in Actors, Activate(a) PROVE TInv'
<1>1. PICK q, op, id : q = actor[a].key /\ op = actor[a].op /\ id = actor[a].id
  OBVIOUS
<1>2. /\ actor[a].at = "activate" /\ actor[a].at \in Carrying /\ Mark(actor[a].id, "Active")
      /\ UNCHANGED <<disk, overlapped>> /\ q \in Keys /\ OnPath("activate", op, q)
  BY <1>1, Calls DEF Activate, Carrying
<1>3. PICK step : /\ Moved(a, step, id)
                  /\ step = IF q \in Locations THEN "write" ELSE "idle"
  BY <1>1 DEF Activate, Moved
<1>4. /\ \A k \in Keys \ {q} : Same(k)
      /\ ContentStays' /\ states'[id] = "Active" /\ ns' = ns /\ (Single(q) => Single(q)')
  <2>1. "Active" \in States
    BY DEF States
  <2> QED  BY <1>1, <1>2, <2>1, MarkSame
<1>5. RightAt("activate", id, q) => RightAt(step, id, q)'
  BY <1>3, <1>4, KeysAssumption DEF RightAt, Carrying, Honest
<1>6. step # "idle" => OnPath(step, op, q)
  BY <1>2, <1>3 DEF OnPath
<1> QED  BY <1>1, <1>2, <1>3, <1>4, <1>5, <1>6, CallMoves

LEMMA WriteTrue == ASSUME IInv, TInv, NEW a \in Actors, Write(a) PROVE TInv'
<1>1. PICK q, op, id : q = actor[a].key /\ op = actor[a].op /\ id = actor[a].id
  OBVIOUS
<1>2. actor[a].at = "write" /\ UNCHANGED catalog /\ Moved(a, "idle", id) /\ q \in Keys
  BY <1>1, Calls DEF Write, Moved
<1>3. /\ \A k \in Keys \ {q} : k \in Locations => disk'[k] = disk[k]
      /\ overlapped \subseteq overlapped'
      /\ q \notin overlapped' /\ q \in Locations => disk'[q]
  BY <1>1 DEF Write, IInv, Surroundings
<1>4. (\A k \in Keys \ {q} : Same(k)) /\ ContentStays'
  BY <1>2, <1>3 DEF catalog, Same, Single, TInv, ContentStays, IDsOf
<1>5. q \in Keys \ overlapped' /\ RightAt("write", id, q) => RightAt("idle", id, q)'
  BY <1>2, <1>3, KeysAssumption DEF catalog, RightAt, Truth, Single, Honest, Carrying
<1> QED  BY <1>1, <1>2, <1>3, <1>4, <1>5, CallMoves

LEMMA ArchiveTrue == ASSUME IInv, TInv, NEW a \in Actors, Archive(a) PROVE TInv'
<1>1. PICK q, op, id : q = actor[a].key /\ op = actor[a].op /\ id = actor[a].id
  OBVIOUS
<1>2. /\ actor[a].at = "archive" /\ UNCHANGED <<catalog, overlapped>>
      /\ op = "remove" /\ q \in Locations /\ q \in Keys
  BY <1>1, Calls DEF Archive, OnPath
<1>3. CASE disk[q] /\ disk' = [disk EXCEPT ![q] = FALSE] /\ Goto(a, "markGone")
  <2>1. Moved(a, "markGone", id) /\ ~disk'[q] /\ OnPath("markGone", op, q)
        /\ \A k \in Keys \ {q} : k \in Locations => disk'[k] = disk[k]
    BY <1>1, <1>2, <1>3 DEF Moved, IInv, Surroundings, OnPath
  <2>2. (\A k \in Keys \ {q} : Same(k)) /\ ContentStays'
    BY <1>2, <2>1 DEF catalog, Same, Single, TInv, ContentStays, IDsOf
  <2>3. RightAt("archive", id, q) => RightAt("markGone", id, q)'
    BY <1>2, <2>1, KeysAssumption DEF catalog, RightAt, Honest, Carrying
  <2> QED  BY <1>1, <1>2, <2>1, <2>2, <2>3, CallMoves
<1>4. CASE UNCHANGED disk /\ Return(a)
  <2>1. RightAt("archive", id, q) => RightAt("idle", id, q)
    BY DEF RightAt, Honest, Carrying
  <2>2. Moved(a, "idle", id)
    BY <1>4 DEF Moved
  <2> QED  BY <1>1, <1>2, <1>4, <2>1, <2>2, LooksOnly
<1> QED  BY <1>1, <1>3, <1>4 DEF Archive

\* A verdict that ends a call.
LEMMA VerdictTrue ==
  ASSUME IInv, TInv, NEW a \in Actors, NEW s \in {"Active", "Gone"},
         actor[a].at \in Carrying, actor[a].key \in Locations,
         Mark(actor[a].id, s), Return(a), UNCHANGED <<disk, overlapped>>,
         RightAt(actor[a].at, actor[a].id, actor[a].key) => (disk[actor[a].key] <=> s = "Active")
  PROVE  TInv'
<1>1. PICK q, op, id, at :
        q = actor[a].key /\ op = actor[a].op /\ id = actor[a].id /\ at = actor[a].at
  OBVIOUS
<1>2. at # "idle" /\ Moved(a, "idle", id) /\ s \in States /\ q \notin Contents
  BY <1>1, KeysAssumption DEF Carrying, Moved, States
<1>3. /\ \A k \in Keys \ {q} : Same(k)
      /\ ContentStays' /\ states'[id] = s /\ ns' = ns /\ q \in Keys
  BY <1>1, <1>2, MarkSame
<1>4. RightAt(at, id, q) => RightAt("idle", id, q)'
  <2> SUFFICES ASSUME RightAt(at, id, q) PROVE RightAt("idle", id, q)'
    OBVIOUS
  <2>1. id = ns'[q] /\ (disk'[q] <=> s = "Active")
    BY <1>1, <1>3, KeysAssumption DEF RightAt
  <2>2. Truth(q)'
    BY <1>3, <2>1 DEF Truth
  <2> QED  BY <1>2, <2>2 DEF RightAt, Carrying
<1> QED  BY <1>1, <1>2, <1>3, <1>4, CallMoves

LEMMA MarkGoneTrue == ASSUME IInv, TInv, NEW a \in Actors, MarkGone(a) PROVE TInv'
<1>1. /\ actor[a].at = "markGone" /\ actor[a].at \in Carrying /\ Mark(actor[a].id, "Gone")
      /\ Return(a) /\ UNCHANGED <<disk, overlapped>>
  BY DEF MarkGone, Destroyed, Carrying
<1>2. actor[a].key \in Locations
  BY <1>1, Calls DEF OnPath
<1>3. RightAt(actor[a].at, actor[a].id, actor[a].key) => ~disk[actor[a].key]
  BY <1>1, <1>2 DEF RightAt
<1> QED  BY <1>1, <1>2, <1>3, VerdictTrue

LEMMA VerifyTrue == ASSUME IInv, TInv, NEW a \in Actors, Verify(a) PROVE TInv'
<1>1. PICK q, op, id : q = actor[a].key /\ op = actor[a].op /\ id = actor[a].id
  OBVIOUS
<1>2. /\ actor[a].at = "verify" /\ UNCHANGED <<catalog, disk, overlapped>>
      /\ OnPath("verify", op, q)
  BY <1>1, Calls DEF Verify
<1>3. PICK step \in {"idle", "exists"} : Moved(a, step, id)
  BY <1>1 DEF Verify, Moved
<1>4. RightAt("verify", id, q) => RightAt(step, id, q)
  BY DEF RightAt, Honest, Carrying
<1>5. OnPath(step, op, q)
  BY <1>2 DEF OnPath
<1> QED  BY <1>1, <1>2, <1>3, <1>4, <1>5, LooksOnly

LEMMA ExistsTrue == ASSUME IInv, TInv, NEW a \in Actors, Exists(a) PROVE TInv'
<1>1. PICK q, op, id : q = actor[a].key /\ op = actor[a].op /\ id = actor[a].id
  OBVIOUS
<1>2. /\ actor[a].at = "exists" /\ UNCHANGED <<catalog, disk, overlapped>>
      /\ OnPath("exists", op, q) /\ q \in Keys
  BY <1>1, Calls DEF Exists
<1>3. PICK step : Moved(a, step, id) /\ step = IF disk[q] THEN "present" ELSE "absent"
  BY <1>1 DEF Exists, Moved
<1>4. q \in Locations
  BY <1>2, Calls, <1>1 DEF OnPath
<1>5. RightAt("exists", id, q) => RightAt(step, id, q)
  BY <1>3, <1>4, KeysAssumption DEF RightAt, Honest, Carrying
<1>6. OnPath(step, op, q)
  BY <1>2, <1>3 DEF OnPath
<1> QED  BY <1>1, <1>2, <1>3, <1>5, <1>6, LooksOnly

LEMMA RecordTrue == ASSUME IInv, TInv, NEW a \in Actors, Record(a) PROVE TInv'
<1>1. PICK s \in {"Active", "Gone"} :
        /\ s = IF actor[a].at = "present" THEN "Active" ELSE "Gone"
        /\ Mark(actor[a].id, s)
  BY DEF Record
<1>2. /\ actor[a].at \in {"present", "absent"} /\ actor[a].at \in Carrying
      /\ Return(a) /\ UNCHANGED <<disk, overlapped>>
  BY DEF Record, Carrying
<1>3. actor[a].key \in Locations
  BY <1>2, Calls DEF OnPath
<1>4. RightAt(actor[a].at, actor[a].id, actor[a].key) => (disk[actor[a].key] <=> s = "Active")
  BY <1>1, <1>2, <1>3 DEF RightAt
<1> QED  BY <1>1, <1>2, <1>3, <1>4, VerdictTrue

\* Steps no call takes: every actor stays where it is.
LEMMA NobodyMoves ==
  ASSUME IInv, TInv, UNCHANGED actor, overlapped \subseteq overlapped',
         \A k \in Keys \ overlapped' : Same(k), ContentStays'
  PROVE  TInv'
<1>1. OnPaths'
  BY DEF TInv, OnPaths, OnPath
<1>2. ASSUME NEW k \in Keys, k \notin overlapped'  PROVE KeyRight(k)'
  <2>1. KeyRight(k) /\ Same(k)
    BY <1>2 DEF TInv
  <2>2. ASSUME NEW b \in Actors, AtKey(b, k)  PROVE RightAt(actor[b].at, actor[b].id, k)'
    <3>1. PICK at, number : at = actor[b].at /\ number = actor[b].id
      OBVIOUS
    <3>2. RightAt(at, number, k)
      BY <2>1, <2>2, <3>1 DEF KeyRight
    <3>3. at = "write" => ns[k] # NoID \/ k \notin Locations
      BY <2>2, <3>1, <3>2, WriteHasRow
    <3>4. RightAt(at, number, k)'
      BY <2>1, <3>2, <3>3, SameRight
    <3> QED  BY <3>1, <3>4 DEF RightAt
  <2>3. (\A b \in Actors : ~AtKey(b, k)) => RightAt("idle", NoID, k)'
    BY <2>1, SameRight DEF KeyRight
  <2>4. \A b \in Actors : AtKey(b, k)' <=> AtKey(b, k)
    BY DEF AtKey
  <2> QED  BY <2>1, <2>2, <2>3, <2>4 DEF KeyRight
<1> QED  BY <1>1, <1>2 DEF TInv

LEMMA OutsideTrue == ASSUME IInv, TInv, NEW q \in Locations, Outside(q) PROVE TInv'
<1>1. /\ UNCHANGED <<catalog, actor>> /\ overlapped' = overlapped \cup {q}
      /\ \A k \in Locations \ {q} : disk'[k] = disk[k]
  BY DEF Outside, IInv, Surroundings
<1>2. \A k \in Keys \ overlapped' : Same(k)
  BY <1>1 DEF catalog, Same, Single
<1>3. ContentStays'
  BY <1>1 DEF catalog, TInv, ContentStays, IDsOf
<1> QED  BY <1>1, <1>2, <1>3, NobodyMoves

LEMMA ResumeTrue == ASSUME IInv, TInv, Resume PROVE TInv'
<1>1. entries' = entries /\ byID' = byID /\ ns' = ns /\ UNCHANGED <<disk, actor, overlapped>>
  BY IndexRebuilt, NamespaceRebuilt DEF Resume, Captured, IInv
<1>2. \A id \in IDsOf(entries) : states'[id] = states[id]
  BY DEF Resume, Captured
<1>3. \A k \in Keys : Same(k)
  BY <1>1, <1>2 DEF Same, Single, IInv, Ledger
<1>4. ContentStays'
  BY <1>1, <1>2 DEF TInv, ContentStays, IDsOf
<1> QED  BY <1>1, <1>3, <1>4, NobodyMoves

LEMMA StepTrue == IInv /\ TInv /\ [Next]_vars => TInv'
<1> SUFFICES ASSUME IInv, TInv, [Next]_vars PROVE TInv'
  OBVIOUS
<1>1. ASSUME NEW a \in Actors, Call(a)  PROVE TInv'
  BY <1>1, BeginTrue, LstatTrue, CurrentTrue, StateOfTrue, InternTrue, ShadowTrue, ActivateTrue,
     WriteTrue, ArchiveTrue, MarkGoneTrue, VerifyTrue, ExistsTrue, RecordTrue DEF Call
<1>2. ASSUME NEW k \in Locations, Outside(k)  PROVE TInv'
  BY <1>2, OutsideTrue
<1>3. CASE Resume  BY <1>3, ResumeTrue
<1>4. CASE UNCHANGED vars
  <2>1. UNCHANGED <<catalog, disk, actor, overlapped>>
    BY <1>4 DEF vars
  <2>2. (\A k \in Keys : Same(k)) /\ ContentStays'
    BY <2>1 DEF catalog, Same, Single, TInv, ContentStays, IDsOf
  <2> QED  BY <2>1, <2>2, NobodyMoves
<1> QED  BY <1>1, <1>2, <1>3, <1>4 DEF Next

LEMMA InitTrue == Init => TInv
<1> SUFFICES ASSUME Init PROVE TInv
  OBVIOUS
<1>1. \A a \in Actors : actor[a].at = "idle"
  BY DEF Init, Idle
<1>2. IInv
  BY InitHolds
<1>3. \A id \in IDsOf(entries) : states[id] = "Pending"
  BY DEF Init
<1>4. \A k \in Keys : Single(k)
  <2>1. \A i, j \in DOMAIN Intent : i # j => Intent[i].key # Intent[j].key
    BY IntentAssumption
  <2>2. entries = IntentRows
    BY DEF Init
  <2> QED  BY <2>1, <2>2 DEF Single, IntentRows
<1>5. \A k \in Keys : Truth(k)
  BY <1>2, <1>3 DEF Truth, IInv, Ledger
<1> QED  BY <1>1, <1>3, <1>4, <1>5 DEF TInv, OnPaths, ContentStays, KeyRight, AtKey, RightAt, Carrying

LEMMA LedgerRight == Spec => [](IInv /\ TInv)
<1>1. IInv /\ [Next]_vars => IInv'
  BY StepKeeps
<1> QED  BY <1>1, InitHolds, InitTrue, StepTrue, PTL DEF Spec

\* A path only ever handled by one call at a time, whose writes all landed and
\* which nobody else changed, has a ledger that tells the truth between calls:
\* Active is on the disk, Gone is not, whatever the other paths went through
\* (GetOrCreate's markActive before the write, markEntryGone after the archive,
\* VerifyExistence's read and record, save and resume).
THEOREM LedgerTellsTruth == Spec => []LedgerTruthful
<1>1. IInv /\ TInv => LedgerTruthful
  <2> SUFFICES ASSUME IInv, TInv, NEW k \in Locations \ overlapped, ~Busy(k), ns[k] # NoID
               PROVE  /\ states[ns[k]] = "Active" => disk[k]
                      /\ states[ns[k]] = "Gone" => ~disk[k]
    BY DEF LedgerTruthful
  <2>1. \A a \in Actors : ~AtKey(a, k)
    BY DEF Busy, AtKey
  <2>2. RightAt("idle", NoID, k)
    BY <2>1 DEF TInv, KeyRight, Keys
  <2> QED  BY <2>2 DEF RightAt, Honest, Truth
<1> QED  BY <1>1, LedgerRight, PTL

\* Content interned by one call at a time has one generation for the whole run,
\* resumes included: nothing marks content gone, so every later hit answers
\* (GetOrCreate's content hit, Discover's lookupOrCatalog, restoreEntry).
THEOREM ContentInternedOnce == Spec => []ContentSingleton
<1>1. IInv /\ TInv => ContentSingleton
  <2> SUFFICES ASSUME IInv, TInv, NEW k \in Contents \ overlapped  PROVE Single(k)
    BY DEF ContentSingleton, Single
  <2>1. KeyRight(k)
    BY DEF TInv, Keys
  <2>2. CASE \A a \in Actors : ~AtKey(a, k)
    BY <2>1, <2>2 DEF KeyRight, RightAt
  <2>3. CASE \E a \in Actors : AtKey(a, k)
    BY <2>1, <2>3 DEF KeyRight, RightAt
  <2> QED  BY <2>2, <2>3
<1> QED  BY <1>1, LedgerRight, PTL
=============================================================================
