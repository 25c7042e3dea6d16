------------------------ MODULE GraphExecutorProofs ------------------------
(***************************************************************************)
(* The type invariant of GraphExecutor and the shape of its journal,       *)
(* proved for every tree, policy and environment that the module's         *)
(* assumptions admit.  TypeOK is not inductive: the unwind reads entries   *)
(* of the stacks through its cursor, so that cursor must stay within the   *)
(* stacks, and clearing a stack must leave every other frame in bounds.    *)
(***************************************************************************)
EXTENDS GraphExecutor, SequenceTheorems, WellFoundedInduction, TLAPS

(* Every entry is journaled on the stack of the executor that dispatched its *)
(* unit; only a boundary leaves a nested stack, and only a node a receipt    *)
(* with something to compensate.                                             *)
OwnedBy(x, entry) ==
  /\ entry \in Entries /\ Owner(entry.unit) = x
  /\ entry.kind = "stack" => entry.unit \in Subgraphs
  /\ entry.token # 0 => entry.kind = "receipt" /\ entry.unit \in Nodes
Journal(x)  == {entries \in Seq(Entries) : \A i \in 1 .. Len(entries) : OwnedBy(x, entries[i])}
StacksOwned == \A x \in Executors : stack[x] \in Journal(x)

(* The unwind's frames lead down the tree, one boundary inside the other,    *)
(* each frame within its stack and each outer one at an entry still to do.   *)
CursorNested ==
  /\ pc = "unwinding" <=> cursor # <<>>
  /\ \A k \in DOMAIN cursor : cursor[k].at <= Len(stack[cursor[k].of])
  /\ \A j, k \in DOMAIN cursor : j < k =>
       /\ cursor[j].at > 0
       /\ cursor[k].of \in Subgraphs
       /\ cursor[j].of \in {Top} \cup Enclosing[cursor[k].of]

(* Nothing is dispatched or unwound before Run has started. *)
Unstarted == phase = "preparing" => pc = "idle"

IInv == TypeOK /\ StacksOwned /\ CursorNested /\ Unstarted

-----------------------------------------------------------------------------
(* The tree and the status algebra. *)

LEMMA OwnerTyped ==
  ASSUME NEW u \in Units
  PROVE  /\ Owner(u) \in Executors
         /\ u # Root => /\ Owner(u) \in Subgraphs
                        /\ u \in Range(Children[Owner(u)])
BY TreeAssumption DEF Owner, Executors, Units

LEMMA PositionTyped ==
  ASSUME NEW u \in Units, u # Root
  PROVE  /\ Position(u) \in 1 .. Len(Children[Owner(u)])
         /\ Children[Owner(u)][Position(u)] = u
<1>1. Owner(u) \in Subgraphs /\ u \in Range(Children[Owner(u)])
  BY OwnerTyped
<1>2. Children[Owner(u)] \in Seq(Units)
  BY <1>1, TreeAssumption
<1>3. \E i \in DOMAIN Children[Owner(u)] : Children[Owner(u)][i] = u
  BY <1>1 DEF Range
<1>4. DOMAIN Children[Owner(u)] = 1 .. Len(Children[Owner(u)])
  BY <1>2
<1>5. QED
  BY <1>3, <1>4 DEF Position

LEMMA FirstChild ==
  ASSUME NEW s \in Subgraphs
  PROVE  Children[s][1] \in Units
<1>1. Children[s] \in Seq(Units) /\ Children[s] # <<>>
  BY TreeAssumption
<1>2. QED
  BY <1>1

LEMMA NextChildTyped ==
  ASSUME NEW u \in Units, u # Root, Position(u) # Len(Children[Owner(u)])
  PROVE  Children[Owner(u)][Position(u) + 1] \in Units
<1>1. Children[Owner(u)] \in Seq(Units)
  BY OwnerTyped, TreeAssumption
<1>2. Position(u) \in 1 .. Len(Children[Owner(u)])
  BY PositionTyped
<1>3. QED
  BY <1>1, <1>2

LEMMA PolicyTyped ==
  ASSUME NEW u \in Units
  PROVE  PolicyFor(u) \in Policies /\ RunPolicy \in Policies
<1>1. FloorPolicy \in Policies
  BY DEF FloorPolicy, Policies, Reactions, Continue, Pause, Stop
<1>2. RunPolicy \in Policies
  BY <1>1, PolicyAssumption, TreeAssumption DEF RunPolicy, Units
<1>3. QED
  BY <1>2, PolicyAssumption DEF PolicyFor

LEMMA StatusTyped ==
  ASSUME NEW status \in Statuses, NEW policy \in Policies,
         NEW condition \in Conditions, NEW reason \in Reasons
  PROVE  AfterTransition(status, policy, condition, reason) \in Statuses
<1>1. ReactionFor(policy, condition) \in Reactions
  BY DEF ReactionFor, Policies, Conditions, Reactions, Healthy, Degraded,
         ExecutionFailed, CompensationFailed, Continue, Pause, Stop
<1>2. QED
  BY <1>1 DEF AfterTransition, Statuses

LEMMA FailureTyped ==
  ASSUME NEW error \in Errors
  PROVE  /\ FailureReason(error) \in Reasons
         /\ ConditionForReason(FailureReason(error)) \in Conditions
         /\ \A base \in Reasons : Standing(error, base) \in Errors
BY DEF FailureReason, ConditionForReason, Standing, Error, Errors, Reasons, Conditions,
       Healthy, Degraded, ExecutionFailed, CompensationFailed

-----------------------------------------------------------------------------
(* The operations on one stack. *)

LEMMA JournalEmpty == \A x \in Executors : <<>> \in Journal(x)
BY DEF Journal

LEMMA JournalAppend ==
  ASSUME NEW x \in Executors, NEW entries \in Journal(x), NEW entry, OwnedBy(x, entry)
  PROVE  Append(entries, entry) \in Journal(x)
<1>1. entries \in Seq(Entries) /\ entry \in Entries
  BY DEF Journal, OwnedBy
<1>2. Append(entries, entry) \in Seq(Entries)
  BY <1>1
<1>3. ASSUME NEW i \in 1 .. Len(Append(entries, entry))
      PROVE  OwnedBy(x, Append(entries, entry)[i])
  <2>1. CASE i \in 1 .. Len(entries)
    <3>1. Append(entries, entry)[i] = entries[i]
      BY <1>1, <2>1
    <3>2. OwnedBy(x, entries[i])
      BY <2>1 DEF Journal
    <3>3. QED
      BY <3>1, <3>2
  <2>2. CASE i = Len(entries) + 1
    <3>1. Append(entries, entry)[i] = entry
      BY <1>1, <2>2
    <3>2. QED
      BY <3>1
  <2>3. QED
    BY <1>1, <2>1, <2>2
<1>4. QED
  BY <1>2, <1>3 DEF Journal

LEMMA JournalRemove ==
  ASSUME NEW x \in Executors, NEW entries \in Journal(x), NEW n \in 1 .. Len(entries)
  PROVE  RemoveAt(entries, n) \in Journal(x)
<1> DEFINE before == SubSeq(entries, 1, n - 1)
           after  == SubSeq(entries, n + 1, Len(entries))
<1>1. /\ entries \in Seq(Entries) /\ Len(entries) \in Nat
      /\ \A i \in 1 .. Len(entries) : entries[i] \in Entries /\ OwnedBy(x, entries[i])
  BY DEF Journal, OwnedBy
<1>2. /\ before \in Seq(Entries) /\ Len(before) = n - 1
      /\ \A i \in 1 .. n - 1 : before[i] = entries[i]
  BY <1>1, SubSeqProperties
<1>3. /\ after \in Seq(Entries) /\ Len(after) = Len(entries) - n
      /\ \A i \in 1 .. Len(entries) - n : after[i] = entries[n + i]
  BY <1>1, SubSeqProperties
<1> HIDE DEF before, after
<1>4. /\ before \o after \in Seq(Entries)
      /\ Len(before \o after) = Len(before) + Len(after)
      /\ \A i \in 1 .. Len(before) + Len(after) : (before \o after)[i] =
            IF i <= Len(before) THEN before[i] ELSE after[i - Len(before)]
  BY <1>2, <1>3, ConcatProperties
<1>5. ASSUME NEW i \in 1 .. Len(before \o after)
      PROVE  OwnedBy(x, (before \o after)[i])
  <2>1. CASE i <= Len(before)
    <3>1. i \in 1 .. n - 1 /\ i \in 1 .. Len(entries)
      BY <1>1, <1>2, <1>3, <1>4, <2>1
    <3>2. (before \o after)[i] = entries[i]
      BY <1>2, <1>3, <1>4, <2>1, <3>1
    <3>3. QED
      BY <1>1, <3>1, <3>2
  <2>2. CASE ~(i <= Len(before))
    <3>1. /\ i - Len(before) \in 1 .. Len(entries) - n
          /\ n + (i - Len(before)) \in 1 .. Len(entries)
      BY <1>1, <1>2, <1>3, <1>4, <2>2
    <3>2. (before \o after)[i] = entries[n + (i - Len(before))]
      BY <1>2, <1>3, <1>4, <2>2, <3>1
    <3>3. QED
      BY <1>1, <3>1, <3>2
  <2>3. QED
    BY <2>1, <2>2
<1>6. RemoveAt(entries, n) = before \o after
  BY DEF RemoveAt, before, after
<1>7. QED
  BY <1>4, <1>5, <1>6 DEF Journal

(* A non-empty set of places in a sequence has a last one. *)
LEMMA LastPlace ==
  ASSUME NEW n \in Nat, NEW P \in SUBSET (1 .. n), P # {}
  PROVE  \E i \in P : \A j \in P : j <= i
<1> DEFINE Q == {n - i : i \in P}
<1>1. Q \subseteq Nat /\ Q # {}
  <2>1. ASSUME NEW i \in P PROVE n - i \in Nat
    OBVIOUS
  <2>2. PICK i \in P : TRUE
    OBVIOUS
  <2>3. n - i \in Q
    OBVIOUS
  <2>4. QED
    BY <2>1, <2>3
<1> HIDE DEF Q
<1>2. PICK m \in Q : \A k \in Q : <<k, m>> \notin OpToRel(<, Nat)
  BY <1>1, WFMin, NatLessThanWellFounded, Zenon
<1>3. ASSUME NEW k \in Q PROVE ~(k < m)
  <2>1. k \in Nat /\ m \in Nat /\ <<k, m>> \notin OpToRel(<, Nat)
    BY <1>1, <1>2, Zenon
  <2>2. QED
    BY <2>1, Zenon DEF OpToRel
<1> USE DEF Q
<1>4. PICK i \in P : m = n - i
  OBVIOUS
<1>5. \A j \in P : ~(n - j < n - i)
  BY <1>3, <1>4
<1>6. QED
  BY <1>5

LEMMA SupersededOwned ==
  ASSUME StacksOwned, NEW s \in Subgraphs
  PROVE  Superseded(s) \in Journal(Owner(s))
<1> DEFINE entries == stack[Owner(s)]
           ofUnit  == {i \in DOMAIN entries : entries[i].unit = s}
<1>1. Owner(s) \in Executors
  BY OwnerTyped DEF Units
<1>2. entries \in Journal(Owner(s)) /\ entries \in Seq(Entries)
  BY <1>1 DEF StacksOwned, Journal
<1>3. DOMAIN entries = 1 .. Len(entries) /\ Len(entries) \in Nat
  BY <1>2
<1>4. CASE Prior(s) = 0
  BY <1>2, <1>4 DEF Superseded
<1>5. CASE Prior(s) # 0
  <2>1. {i \in DOMAIN entries : entries[i].unit = s /\ entries[i].kind = "stack"} # {}
    BY <1>5 DEF Prior, LastOf
  <2>2. ofUnit \in SUBSET (1 .. Len(entries)) /\ ofUnit # {}
    BY <1>3, <2>1
  <2>3. \E i \in ofUnit : \A j \in ofUnit : j <= i
    BY <1>3, <2>2, LastPlace
  <2> DEFINE place == CHOOSE i \in DOMAIN entries :
                        /\ entries[i].unit = s
                        /\ \A j \in DOMAIN entries : entries[j].unit = s => j <= i
  <2>4. place \in 1 .. Len(entries)
    BY <1>3, <2>3
  <2>5. RemoveAt(entries, place) \in Journal(Owner(s))
    BY <1>1, <1>2, <2>4, JournalRemove
  <2>6. QED
    BY <1>5, <2>5 DEF Superseded
<1>6. QED
  BY <1>4, <1>5

-----------------------------------------------------------------------------
(* The initial state, and what a step must show. *)

LEMMA FieldsTyped ==
  ASSUME NEW status \in Statuses
  PROVE  /\ \A c \in Conditions, r \in Reasons :
              [status EXCEPT !.condition = c, !.reason = r] \in Statuses
         /\ \A r \in Reasons : [status EXCEPT !.reason = r] \in Statuses
         /\ \A r \in Reactions : [status EXCEPT !.reaction = r] \in Statuses
BY DEF Statuses

LEMMA LiteralsTyped ==
  /\ \A kind \in ErrorKinds, reason \in Reasons : Error(kind, reason) \in Errors
  /\ \A reason \in Reasons : HardError(reason) \in Errors
  /\ NoError \in Errors /\ FreshStatus \in Statuses
  /\ Degraded \in Conditions /\ ExecutionFailed \in Conditions
  /\ CompensationFailed \in Conditions /\ Continue \in Reactions
BY DEF Error, HardError, NoError, Errors, ErrorKinds, FreshStatus, Statuses, Conditions,
       Reasons, Reactions, Healthy, Degraded, ExecutionFailed, CompensationFailed,
       Continue, Stop

LEMMA RootTyped == Root \in Units /\ Root \in Subgraphs /\ Top \in Executors
BY TreeAssumption DEF Units, Executors

LEMMA InitShaped == Init => IInv
<1> SUFFICES ASSUME Init PROVE IInv
  OBVIOUS
<1>1. TypeOK
  <2>1. stack \in [Executors -> Seq(Entries)] /\ attempt \in [Units -> Nat]
    BY EmptySeq DEF Init
  <2>2. exec \in [Executors -> Statuses] /\ err \in Errors /\ unit \in Units
    BY LiteralsTyped, RootTyped DEF Init
  <2>3. requests \in Seq({"pause", "stop", "step"}) /\ cursor \in Seq(Frames)
    BY EmptySeq DEF Init
  <2>4. QED
    BY <2>1, <2>2, <2>3 DEF Init, TypeOK, Phases, Pcs
<1>2. StacksOwned
  BY JournalEmpty DEF Init, StacksOwned
<1>3. CursorNested /\ Unstarted
  BY DEF Init, CursorNested, Unstarted
<1>4. QED
  BY <1>1, <1>2, <1>3 DEF IInv

(* Outside the unwind there is no cursor to keep in bounds. *)
LEMMA NoCursor ==
  ASSUME IInv, pc # "unwinding", pc' # "unwinding", UNCHANGED cursor, phase' # "preparing"
  PROVE  CursorNested' /\ Unstarted'
BY DEF IInv, CursorNested, Unstarted

(* The entry an action journals on its own executor's stack. *)
LEMMA JournalStep ==
  ASSUME IInv, NEW x \in Executors, NEW entry, OwnedBy(x, entry),
         stack' = [stack EXCEPT ![x] = Append(@, entry)]
  PROVE  StacksOwned' /\ stack' \in [Executors -> Seq(Entries)]
<1>1. stack \in [Executors -> Seq(Entries)] /\ StacksOwned
  BY DEF IInv, TypeOK
<1>2. Append(stack[x], entry) \in Journal(x)
  BY <1>1, JournalAppend DEF StacksOwned
<1>3. ASSUME NEW y \in Executors PROVE stack'[y] \in Journal(y)
  BY <1>1, <1>2 DEF StacksOwned
<1>4. QED
  BY <1>1, <1>3 DEF StacksOwned, Journal

-----------------------------------------------------------------------------
(* The run's environment, and the entrances to Run. *)

LEMMA RequestStep ==
  ASSUME IInv, NEW command \in Commands, Request(command)
  PROVE  IInv'
<1>1. command \in {"pause", "stop", "step"}
  BY EnvironmentAssumption
<1>2. requests \in Seq({"pause", "stop", "step"}) /\ issued \in Nat
  BY DEF IInv, TypeOK
<1>3. TypeOK'
  BY <1>1, <1>2 DEF IInv, TypeOK, Request, unwinding, world
<1>4. StacksOwned' /\ CursorNested' /\ Unstarted'
  BY DEF IInv, StacksOwned, CursorNested, Unstarted, Request, unwinding, world
<1>5. QED
  BY <1>3, <1>4 DEF IInv

LEMMA CancelStep ==
  ASSUME IInv, Cancel
  PROVE  IInv'
<1>1. TypeOK'
  BY DEF IInv, TypeOK, Cancel, unwinding, world
<1>2. StacksOwned' /\ CursorNested' /\ Unstarted'
  BY DEF IInv, StacksOwned, CursorNested, Unstarted, Cancel, unwinding, world
<1>3. QED
  BY <1>1, <1>2 DEF IInv

LEMMA StartStep ==
  ASSUME IInv, Start
  PROVE  IInv'
<1>1. TypeOK'
  BY LiteralsTyped, RootTyped
  DEF IInv, TypeOK, Start, DispatchUnit, unwinding, world, control, Phases, Pcs
<1>2. StacksOwned' /\ UNCHANGED cursor
  BY DEF IInv, StacksOwned, Start, DispatchUnit, unwinding, world
<1>3. pc # "unwinding" /\ pc' # "unwinding" /\ phase' # "preparing"
  BY DEF IInv, Unstarted, Start, DispatchUnit
<1>4. QED
  BY <1>1, <1>2, <1>3, NoCursor DEF IInv

LEMMA PreflightStep ==
  ASSUME IInv, LandPreflightFailure
  PROVE  IInv'
<1>1. exec' \in [Executors -> Statuses]
  BY FieldsTyped, LiteralsTyped, RootTyped DEF IInv, TypeOK, LandPreflightFailure, Reasons
<1>2. TypeOK'
  BY <1>1 DEF IInv, TypeOK, LandPreflightFailure, unwinding, world, control, Phases
<1>3. StacksOwned' /\ CursorNested' /\ Unstarted'
  BY DEF IInv, StacksOwned, CursorNested, Unstarted, LandPreflightFailure, unwinding, world
<1>4. QED
  BY <1>2, <1>3 DEF IInv

LEMMA ResumeStep ==
  ASSUME IInv, NEW mode \in ResumeModes, Resume(mode)
  PROVE  IInv'
<1>1. exec \in [Executors -> Statuses] /\ exec[Top] \in Statuses
  BY RootTyped DEF IInv, TypeOK
<1>2. ResumedReaction(mode) \in Reactions
  BY <1>1, LiteralsTyped DEF ResumedReaction, Statuses
<1>3. exec' \in [Executors -> Statuses]
  BY <1>1, <1>2, FieldsTyped DEF Resume
<1>4. resumes' \in Nat
  BY DEF IInv, TypeOK, Resume, TakenUp
<1>5. requests' \in Seq({"pause", "stop", "step"})
  BY EmptySeq DEF IInv, TypeOK, Resume
<1>6. TypeOK'
  BY <1>3, <1>4, <1>5, LiteralsTyped, RootTyped
  DEF IInv, TypeOK, Resume, DispatchUnit, unwinding, world, Phases, Pcs
<1>7. StacksOwned' /\ UNCHANGED cursor
  BY DEF IInv, StacksOwned, Resume, DispatchUnit, unwinding, world
<1>8. pc # "unwinding" /\ pc' # "unwinding" /\ phase' # "preparing"
  BY DEF Resume, DispatchUnit
<1>9. QED
  BY <1>6, <1>7, <1>8, NoCursor DEF IInv

-----------------------------------------------------------------------------
(* Control points, cancellation and the dispatch of nodes. *)

LEMMA AcknowledgeTyped ==
  ASSUME IInv, requests # <<>>, NEW x \in Executors, Acknowledge(x, Head(requests))
  PROVE  /\ requests' \in Seq({"pause", "stop", "step"})
         /\ acked' \in {"none", "pause", "stop"}
         /\ exec' \in [Executors -> Statuses]
         /\ phase' \in Phases /\ (phase' = phase \/ phase' \in {"paused", "stopping"})
         /\ UNCHANGED <<cancelled, issued, resumes>>
         /\ Head(requests) \in {"pause", "stop", "step"}
<1> DEFINE command == Head(requests)
<1>1. command \in {"pause", "stop", "step"} /\ Tail(requests) \in Seq({"pause", "stop", "step"})
  BY HeadTailProperties DEF IInv, TypeOK
<1>2. requests' = Tail(requests) /\ UNCHANGED <<cancelled, issued, resumes>>
  BY DEF Acknowledge
<1>3. acked' \in {"none", "pause", "stop"}
  BY <1>1 DEF Acknowledge, IInv, TypeOK
<1>4. \A r \in {"paused", "stopped"} :
        [exec EXCEPT ![x] = [@ EXCEPT !.reason = r]] \in [Executors -> Statuses]
  BY FieldsTyped DEF IInv, TypeOK, Reasons
<1>5. exec' = exec \/ \E r \in {"paused", "stopped"} :
        exec' = [exec EXCEPT ![x] = [@ EXCEPT !.reason = r]]
  BY <1>1 DEF Acknowledge
<1>6. phase' = phase \/ phase' \in {"paused", "stopping"}
  BY <1>1 DEF Acknowledge
<1>7. QED
  BY <1>1, <1>2, <1>3, <1>4, <1>5, <1>6 DEF IInv, TypeOK, Phases

LEMMA ExitCancelledStep ==
  ASSUME IInv, ExitCancelled
  PROVE  IInv'
<1>1. TypeOK'
  BY LiteralsTyped DEF IInv, TypeOK, ExitCancelled, Settled, ErrorKinds, Reasons, Pcs,
                       unwinding, world, control
<1>2. StacksOwned' /\ UNCHANGED cursor
  BY DEF IInv, StacksOwned, ExitCancelled, Settled, unwinding, world
<1>3. pc # "unwinding" /\ pc' # "unwinding" /\ phase' # "preparing"
  BY DEF IInv, Unstarted, ExitCancelled, Settled
<1>4. QED
  BY <1>1, <1>2, <1>3, NoCursor DEF IInv

LEMMA ControlPointStep ==
  ASSUME IInv, ControlPoint
  PROVE  IInv'
<1>1. Owner(unit) \in Executors
  BY OwnerTyped DEF IInv, TypeOK
<1>2. requests # <<>> /\ Acknowledge(Owner(unit), Head(requests))
  BY DEF ControlPoint
<1>3. err' \in Errors /\ pc' \in {"dispatch", "returned"}
  BY LiteralsTyped DEF IInv, TypeOK, ControlPoint, Returned, Interruption, ErrorKinds, Reasons
<1>4. TypeOK'
  BY <1>1, <1>2, <1>3, AcknowledgeTyped DEF IInv, TypeOK, ControlPoint, Pcs, unwinding, world
<1>5. StacksOwned' /\ UNCHANGED cursor
  BY DEF IInv, StacksOwned, ControlPoint, unwinding, world
<1>6. pc # "unwinding" /\ pc' # "unwinding" /\ phase' # "preparing"
  BY <1>1, <1>2, <1>3, AcknowledgeTyped DEF IInv, Unstarted, ControlPoint
<1>7. QED
  BY <1>4, <1>5, <1>6, NoCursor DEF IInv

LEMMA ReplayNodeStep ==
  ASSUME IInv, ReplayNode \/ PruneSubgraph
  PROVE  IInv'
<1>1. TypeOK'
  BY LiteralsTyped DEF IInv, TypeOK, ReplayNode, PruneSubgraph, Returned, Pcs,
                       unwinding, world, control
<1>2. StacksOwned' /\ UNCHANGED cursor
  BY DEF IInv, StacksOwned, ReplayNode, PruneSubgraph, unwinding, world
<1>3. pc # "unwinding" /\ pc' # "unwinding" /\ phase' # "preparing"
  BY DEF IInv, Unstarted, ReplayNode, PruneSubgraph, Clear, Returned
<1>4. QED
  BY <1>1, <1>2, <1>3, NoCursor DEF IInv

LEMMA RunNodeStep ==
  ASSUME IInv, NEW outcome \in NodeOutcomes, RunNode(outcome)
  PROVE  IInv'
<1> DEFINE error == IF outcome \in {"fail", "partial"} THEN "failed" ELSE "none"
           acts  == outcome \in {"ok", "partial"}
           entry == Receipt(unit, error, IF acts THEN clock + 1 ELSE 0)
<1>1. unit \in Units /\ unit \in Nodes /\ Owner(unit) \in Executors /\ clock \in Nat
  BY OwnerTyped DEF IInv, TypeOK, RunNode, NodeMay
<1>2. entry \in Entries /\ OwnedBy(Owner(unit), entry)
  BY <1>1 DEF OwnedBy, Entries, Receipt, ErrorKinds
<1>3. EffectOf(entry) \in Effects
  BY <1>2 DEF Entries, EffectOf, Effects, Succeeded
<1>4. stack' = [stack EXCEPT ![Owner(unit)] = Append(@, entry)]
  BY DEF RunNode
<1>5. StacksOwned' /\ stack' \in [Executors -> Seq(Entries)]
  BY <1>1, <1>2, <1>4, JournalStep
<1>6. outstanding' \in SUBSET Effects /\ clock' \in Nat
  BY <1>1, <1>3 DEF IInv, TypeOK, RunNode
<1>7. err' \in Errors /\ pc' = "returned"
  BY LiteralsTyped DEF RunNode, Returned, ErrorKinds, Reasons
<1>8. TypeOK'
  BY <1>5, <1>6, <1>7 DEF IInv, TypeOK, RunNode, Pcs, unwinding, control
<1>9. pc # "unwinding" /\ pc' # "unwinding" /\ phase' # "preparing" /\ UNCHANGED cursor
  BY <1>7 DEF IInv, Unstarted, RunNode, NodeMay, Clear, unwinding
<1>10. QED
  BY <1>5, <1>8, <1>9, NoCursor DEF IInv

(* A flip of one executor's status by a unit it dispatches. *)
LEMMA FlipTyped ==
  ASSUME IInv, NEW x \in Executors, NEW policy \in Policies,
         NEW condition \in Conditions, NEW reason \in Reasons
  PROVE  [exec EXCEPT ![x] = AfterTransition(@, policy, condition, reason)]
           \in [Executors -> Statuses]
<1>1. exec \in [Executors -> Statuses]
  BY DEF IInv, TypeOK
<1>2. AfterTransition(exec[x], policy, condition, reason) \in Statuses
  BY <1>1, StatusTyped
<1>3. QED
  BY <1>1, <1>2

LEMMA AssertNodeStep ==
  ASSUME IInv, NEW outcome \in NodeOutcomes, AssertNode(outcome)
  PROVE  IInv'
<1> DEFINE entry == Receipt(unit, "none", 0)
<1>1. unit \in Units /\ Owner(unit) \in Executors /\ PolicyFor(unit) \in Policies
  BY OwnerTyped, PolicyTyped DEF IInv, TypeOK
<1>2. OwnedBy(Owner(unit), entry)
  BY <1>1 DEF OwnedBy, Entries, Receipt, ErrorKinds
<1>3. StacksOwned' /\ stack' \in [Executors -> Seq(Entries)]
  BY <1>1, <1>2, JournalStep DEF AssertNode
<1>4. AssertedCondition(outcome) \in Conditions /\ outcome \in Reasons
  BY LiteralsTyped DEF AssertedCondition, AssertNode, Reasons
<1>5. exec' \in [Executors -> Statuses]
  BY <1>1, <1>4, FlipTyped DEF AssertNode
<1>6. err' \in Errors /\ pc' = "returned"
  BY LiteralsTyped DEF AssertNode, Returned
<1>7. TypeOK'
  BY <1>3, <1>5, <1>6 DEF IInv, TypeOK, AssertNode, Pcs, unwinding, control
<1>8. pc # "unwinding" /\ pc' # "unwinding" /\ phase' # "preparing" /\ UNCHANGED cursor
  BY <1>6 DEF IInv, Unstarted, AssertNode, NodeMay, Clear, unwinding
<1>9. QED
  BY <1>3, <1>7, <1>8, NoCursor DEF IInv

LEMMA FrameworkTyped ==
  ASSUME IInv, NEW x \in Executors, FrameworkFailure(x)
  PROVE  exec' \in [Executors -> Statuses] /\ err' \in Errors /\ pc' = "returned"
<1>1. PolicyFor(unit) \in Policies
  BY PolicyTyped DEF IInv, TypeOK
<1>2. "framework_failed" \in Reasons
  BY DEF Reasons
<1>3. exec' \in [Executors -> Statuses]
  BY <1>1, <1>2, FlipTyped, LiteralsTyped DEF FrameworkFailure
<1>4. QED
  BY <1>2, <1>3, LiteralsTyped DEF FrameworkFailure, Returned

LEMMA UnboundNodeStep ==
  ASSUME IInv, UnboundNode
  PROVE  IInv'
<1>1. Owner(unit) \in Executors
  BY OwnerTyped DEF IInv, TypeOK
<1>2. exec' \in [Executors -> Statuses] /\ err' \in Errors /\ pc' = "returned"
  BY <1>1, FrameworkTyped DEF UnboundNode
<1>3. TypeOK'
  BY <1>2 DEF IInv, TypeOK, UnboundNode, Pcs, unwinding, world, control
<1>4. StacksOwned' /\ UNCHANGED cursor
  BY DEF IInv, StacksOwned, UnboundNode, unwinding, world
<1>5. pc # "unwinding" /\ pc' # "unwinding" /\ phase' # "preparing"
  BY <1>2 DEF IInv, Unstarted, UnboundNode, NodeMay, Clear
<1>6. QED
  BY <1>3, <1>4, <1>5, NoCursor DEF IInv

-----------------------------------------------------------------------------
(* Entering and leaving a subgraph. *)

LEMMA DispatchTyped ==
  ASSUME IInv, NEW u \in Units, DispatchUnit(u)
  PROVE  unit' \in Units /\ err' \in Errors /\ attempt' \in [Units -> Nat] /\ pc' = "dispatch"
BY LiteralsTyped DEF IInv, TypeOK, DispatchUnit

LEMMA EnterSubgraphStep ==
  ASSUME IInv, NEW s \in Subgraphs, EnterSubgraph(s)
  PROVE  IInv'
<1>1. s \in Executors /\ Owner(s) \in Executors
  BY OwnerTyped DEF Executors, Units
<1>2. stack \in [Executors -> Seq(Entries)] /\ StacksOwned /\ exec \in [Executors -> Statuses]
  BY DEF IInv, TypeOK
<1>3. Superseded(s) \in Journal(Owner(s)) /\ ChildStack(s) \in Journal(s)
  BY <1>1, <1>2, SupersededOwned, JournalEmpty DEF ChildStack, StacksOwned
<1>4. \A y \in Executors : stack'[y] \in Journal(y)
  BY <1>1, <1>2, <1>3 DEF EnterSubgraph, StacksOwned
<1>5. stack' \in [Executors -> Seq(Entries)] /\ StacksOwned'
  BY <1>1, <1>2, <1>3, <1>4 DEF EnterSubgraph, StacksOwned, Journal
<1>6. exec' \in [Executors -> Statuses]
  BY <1>1, <1>2, LiteralsTyped DEF EnterSubgraph
<1>7. unit' \in Units /\ err' \in Errors /\ attempt' \in [Units -> Nat] /\ pc' = "dispatch"
  BY FirstChild, DispatchTyped DEF EnterSubgraph
<1>8. TypeOK'
  BY <1>5, <1>6, <1>7 DEF IInv, TypeOK, EnterSubgraph, Pcs, unwinding, control
<1>9. pc # "unwinding" /\ pc' # "unwinding" /\ phase' # "preparing" /\ UNCHANGED cursor
  BY <1>7 DEF IInv, Unstarted, EnterSubgraph, Entering, Clear, unwinding
<1>10. QED
  BY <1>5, <1>8, <1>9, NoCursor DEF IInv

LEMMA DropOwned ==
  ASSUME IInv, NEW s \in Subgraphs, NEW entries \in Journal(Owner(s)), Drop(s, entries)
  PROVE  StacksOwned' /\ stack' \in [Executors -> Seq(Entries)]
<1>1. stack \in [Executors -> Seq(Entries)] /\ StacksOwned
  BY DEF IInv, TypeOK
<1>2. \A y \in Executors : stack'[y] \in Journal(y)
  BY <1>1, JournalEmpty DEF Drop, StacksOwned
<1>3. \A y \in Executors : stack'[y] \in Seq(Entries)
  BY <1>2 DEF Journal
<1>4. stack' \in [Executors -> Seq(Entries)]
  BY <1>3 DEF Drop
<1>5. QED
  BY <1>2, <1>4 DEF StacksOwned

LEMMA ScopeFaultStep ==
  ASSUME IInv, NEW s \in Subgraphs, ScopeFault(s)
  PROVE  IInv'
<1>1. s \in Executors /\ Owner(s) \in Executors /\ s \in Units
  BY OwnerTyped DEF Executors, Units
<1>2. Superseded(s) \in Journal(Owner(s))
  BY SupersededOwned DEF IInv
<1>3. OwnedBy(Owner(s), Receipt(s, "failed", 0))
  BY <1>1 DEF OwnedBy, Entries, Receipt, ErrorKinds
<1>4. Append(Superseded(s), Receipt(s, "failed", 0)) \in Journal(Owner(s))
  BY <1>1, <1>2, <1>3, JournalAppend
<1>5. \E entries \in Journal(Owner(s)) : Drop(s, entries)
  BY <1>2, <1>4 DEF ScopeFault
<1>6. StacksOwned' /\ stack' \in [Executors -> Seq(Entries)]
  BY <1>5, DropOwned
<1>7. exec' \in [Executors -> Statuses] /\ err' \in Errors /\ pc' = "returned"
  <2>1. CASE FrameworkFailure(Owner(s))
    BY <1>1, <2>1, FrameworkTyped
  <2>2. CASE Returned(Error("failed", "preflight_failed")) /\ exec' = [exec EXCEPT ![s] = FreshStatus]
    <3>1. exec \in [Executors -> Statuses]
      BY DEF IInv, TypeOK
    <3>2. exec' \in [Executors -> Statuses]
      BY <1>1, <2>2, <3>1, LiteralsTyped
    <3>3. QED
      BY <2>2, <3>2, LiteralsTyped DEF Returned, ErrorKinds, Reasons
  <2>3. QED
    BY <2>1, <2>2 DEF ScopeFault
<1>8. TypeOK'
  BY <1>6, <1>7 DEF IInv, TypeOK, ScopeFault, Pcs, unwinding, control
<1>9. pc # "unwinding" /\ pc' # "unwinding" /\ phase' # "preparing" /\ UNCHANGED cursor
  BY <1>7 DEF IInv, Unstarted, ScopeFault, Entering, Clear, unwinding
<1>10. QED
  BY <1>6, <1>8, <1>9, NoCursor DEF IInv

LEMMA NextChildStep ==
  ASSUME IInv, NextChild
  PROVE  IInv'
<1>1. unit \in Units /\ unit # Root /\ Position(unit) # Len(Children[Owner(unit)])
  BY DEF IInv, TypeOK, NextChild, BodyDone
<1>2. unit' \in Units /\ err' \in Errors /\ attempt' \in [Units -> Nat] /\ pc' = "dispatch"
  BY <1>1, NextChildTyped, DispatchTyped DEF NextChild
<1>3. TypeOK'
  BY <1>2 DEF IInv, TypeOK, NextChild, Pcs, unwinding, world, control
<1>4. StacksOwned' /\ UNCHANGED cursor
  BY DEF IInv, StacksOwned, NextChild, unwinding, world
<1>5. pc # "unwinding" /\ pc' # "unwinding" /\ phase' # "preparing"
  BY <1>2 DEF IInv, Unstarted, NextChild
<1>6. QED
  BY <1>3, <1>4, <1>5, NoCursor DEF IInv

LEMMA ExitSubgraphStep ==
  ASSUME IInv, ExitSubgraph
  PROVE  IInv'
<1> DEFINE s == Owner(unit)
           x == Owner(s)
           entry == Nested(s, err.kind)
<1>1. s \in Subgraphs /\ s \in Units /\ s \in Executors
  BY OwnerTyped DEF IInv, TypeOK, ExitSubgraph, Executors, Units
<1>2. x \in Executors /\ PolicyFor(s) \in Policies
  BY <1>1, OwnerTyped, PolicyTyped
<1>3. err.kind \in ErrorKinds /\ exec[s].condition \in Conditions /\ exec[s].reason \in Reasons
  BY <1>1 DEF IInv, TypeOK, Errors, Statuses
<1>4. OwnedBy(x, entry)
  BY <1>1, <1>3 DEF OwnedBy, Entries, Nested
<1>5. StacksOwned' /\ stack' \in [Executors -> Seq(Entries)]
  <2>1. stack \in [Executors -> Seq(Entries)]
    BY DEF IInv, TypeOK
  <2>2. stack' = [stack EXCEPT ![x] = Append(@, entry)]
    BY <1>2, <2>1 DEF ExitSubgraph, Recorded
  <2>3. QED
    BY <1>2, <1>4, <2>2, JournalStep
<1>6. exec' \in [Executors -> Statuses]
  <2>1. [exec EXCEPT ![x] = AfterTransition(@, PolicyFor(s), exec[s].condition, exec[s].reason)]
          \in [Executors -> Statuses]
    BY <1>2, <1>3, FlipTyped
  <2>2. QED
    BY <2>1 DEF ExitSubgraph, IInv, TypeOK
<1>7. unit' \in Units /\ err' \in Errors /\ pc' = "returned"
  BY <1>1 DEF ExitSubgraph, Returned, IInv, TypeOK
<1>8. TypeOK'
  BY <1>5, <1>6, <1>7 DEF IInv, TypeOK, ExitSubgraph, Pcs, unwinding, control
<1>9. pc # "unwinding" /\ pc' # "unwinding" /\ phase' # "preparing" /\ UNCHANGED cursor
  BY <1>7 DEF IInv, Unstarted, ExitSubgraph, unwinding
<1>10. QED
  BY <1>5, <1>8, <1>9, NoCursor DEF IInv

LEMMA PanicStep ==
  ASSUME IInv, Panic
  PROVE  IInv'
<1>1. pc # "unwinding" /\ pc' = "crashed" /\ phase' = phase /\ phase # "preparing"
  BY DEF Panic, NodeMay, Clear, IInv, Unstarted
<1>2. TypeOK'
  BY <1>1 DEF IInv, TypeOK, Panic, Pcs, unwinding, world, control
<1>3. StacksOwned' /\ UNCHANGED cursor
  BY DEF IInv, StacksOwned, Panic, unwinding, world
<1>4. QED
  BY <1>1, <1>2, <1>3, NoCursor DEF IInv

-----------------------------------------------------------------------------
(* Adjudication.  Its actions leave the stacks and the cursor alone. *)

LEMMA Adjudicates ==
  ASSUME IInv, UNCHANGED <<unit, unwinding, world>>,
         pc \in {"returned", "gate", "exhausted", "vetoed"},
         pc' \in {"dispatch", "gate", "exhausted", "vetoed", "settled"},
         err' \in Errors, attempt' \in [Units -> Nat],
         exec' \in [Executors -> Statuses],
         phase' \in Phases, phase' # "preparing",
         requests' \in Seq({"pause", "stop", "step"}), acked' \in {"none", "pause", "stop"},
         UNCHANGED <<cancelled, issued, resumes>>
  PROVE  IInv'
<1>1. TypeOK'
  BY DEF IInv, TypeOK, Pcs, unwinding, world
<1>2. StacksOwned' /\ UNCHANGED cursor
  BY DEF IInv, StacksOwned, unwinding, world
<1>3. pc # "unwinding" /\ pc' # "unwinding"
  OBVIOUS
<1>4. QED
  BY <1>1, <1>2, <1>3, NoCursor DEF IInv

(* What an adjudication that only settles or resolves leaves alone. *)
LEMMA AdjudicatesQuietly ==
  ASSUME IInv, UNCHANGED <<phase, exec, unit, unwinding, world, control>>,
         pc \in {"returned", "gate", "exhausted", "vetoed"},
         pc' \in {"dispatch", "gate", "exhausted", "vetoed", "settled"},
         err' \in Errors, attempt' \in [Units -> Nat]
  PROVE  IInv'
<1>1. phase' \in Phases /\ phase' # "preparing" /\ exec' \in [Executors -> Statuses]
  BY DEF IInv, TypeOK, Unstarted
<1>2. /\ requests' \in Seq({"pause", "stop", "step"}) /\ acked' \in {"none", "pause", "stop"}
      /\ UNCHANGED <<cancelled, issued, resumes>>
  BY DEF IInv, TypeOK, control
<1>3. QED
  BY <1>1, <1>2, Adjudicates

LEMMA SucceedStep ==
  ASSUME IInv, Succeed \/ GiveUp
  PROVE  IInv'
<1>1. exec[Owner(unit)].reason \in Reasons
  BY OwnerTyped DEF IInv, TypeOK, Statuses
<1>2. err' \in Errors /\ pc' = "settled"
  <2>1. CASE Succeed
    <3> DEFINE status == exec[Owner(unit)]
    <3>1. pc' = "settled" /\ err' \in {HardError(status.reason), Error("paused", "unspecified"), NoError}
      <4>1. CASE status.reaction = Stop
        BY <2>1, <4>1 DEF Succeed, Settled
      <4>2. CASE status.reaction = Pause /\ status.reaction # Stop
        BY <2>1, <4>2 DEF Succeed, Settled
      <4>3. CASE status.reaction # Pause /\ status.reaction # Stop
        BY <2>1, <4>3 DEF Succeed, Settled
      <4>4. QED
        BY <4>1, <4>2, <4>3
    <3>2. QED
      BY <1>1, <3>1, LiteralsTyped DEF ErrorKinds, Reasons
  <2>2. CASE GiveUp
    BY <2>2 DEF GiveUp, Settled, IInv, TypeOK
  <2>3. QED
    BY <2>1, <2>2
<1>3. attempt' \in [Units -> Nat] /\ pc = "returned"
  BY DEF IInv, TypeOK, Succeed, GiveUp
<1>4. UNCHANGED <<phase, exec, unit, unwinding, world, control>>
  BY DEF Succeed, GiveUp
<1>5. QED
  BY <1>2, <1>3, <1>4, AdjudicatesQuietly

LEMMA NextAttemptTyped ==
  ASSUME IInv, NextAttempt
  PROVE  pc' = "dispatch" /\ err' \in Errors /\ attempt' \in [Units -> Nat]
BY LiteralsTyped DEF IInv, TypeOK, NextAttempt

LEMMA ResolveTyped ==
  ASSUME IInv, NEW where \in {"exhausted", "vetoed"}, NEW base \in Reasons, Resolve(where, base)
  PROVE  pc' \in {"exhausted", "vetoed", "settled"} /\ err' \in Errors
BY FailureTyped DEF IInv, TypeOK, Resolve, Settled

LEMMA RetryStep ==
  ASSUME IInv, Retry \/ Exhaust
  PROVE  IInv'
<1>1. /\ pc' \in {"dispatch", "gate", "exhausted", "vetoed", "settled"}
      /\ err' \in Errors /\ attempt' \in [Units -> Nat]
  <2>1. CASE Retry
    BY <2>1, NextAttemptTyped DEF Retry, IInv, TypeOK
  <2>2. CASE Exhaust
    <3>1. "action_failed" \in Reasons
      BY DEF Reasons
    <3>2. QED
      BY <2>2, <3>1, ResolveTyped DEF Exhaust, IInv, TypeOK
  <2>3. QED
    BY <2>1, <2>2
<1>2. UNCHANGED <<phase, exec, unit, unwinding, world, control>> /\ pc = "returned"
  BY DEF Retry, Exhaust, Adjudicated
<1>3. QED
  BY <1>1, <1>2, AdjudicatesQuietly

LEMMA HandlerInterruptedStep ==
  ASSUME IInv, HandlerInterrupted
  PROVE  IInv'
<1>1. /\ unit \in Units /\ Owner(unit) \in Executors /\ phase # "preparing"
      /\ attempt' \in [Units -> Nat] /\ pc \in {"gate", "exhausted", "vetoed"}
      /\ UNCHANGED <<unit, unwinding, world>>
  BY OwnerTyped DEF IInv, TypeOK, Unstarted, HandlerInterrupted, Handling
<1>2. CASE Settled(Error("failed", "handler_failed")) /\ UNCHANGED <<phase, exec, control>>
  <2>1. err' \in Errors /\ pc' = "settled"
    BY <1>2, LiteralsTyped DEF Settled, ErrorKinds, Reasons
  <2>2. UNCHANGED <<phase, exec, unit, unwinding, world, control>>
    BY <1>1, <1>2
  <2>3. QED
    BY <1>1, <2>1, <2>2, AdjudicatesQuietly
<1>3. CASE requests # <<>> /\ Acknowledge(Owner(unit), Head(requests))
           /\ IF Head(requests) = "step"
              THEN UNCHANGED <<pc, err>>
              ELSE Settled(Error(Interruption(Head(requests)), "handler_failed"))
  <2>1. err' \in Errors /\ pc' \in {"gate", "exhausted", "vetoed", "settled"}
    BY <1>1, <1>3, LiteralsTyped DEF Settled, ErrorKinds, Reasons, Interruption, IInv, TypeOK
  <2>2. /\ requests' \in Seq({"pause", "stop", "step"})
        /\ acked' \in {"none", "pause", "stop"}
        /\ exec' \in [Executors -> Statuses]
        /\ phase' \in Phases /\ phase' # "preparing"
        /\ UNCHANGED <<cancelled, issued, resumes>>
    BY <1>1, <1>3, AcknowledgeTyped
  <2>3. QED
    BY <1>1, <2>1, <2>2, Adjudicates
<1>4. QED
  BY <1>2, <1>3 DEF HandlerInterrupted

LEMMA HandlerReturnsStep ==
  ASSUME IInv, NEW v \in HandlerVerdicts, HandlerReturns(v)
  PROVE  IInv'
<1> DEFINE x       == Owner(unit)
           verdict == Verdict(v, x)
<1>1. /\ unit \in Units /\ x \in Executors /\ phase # "preparing" /\ RunPolicy \in Policies
      /\ pc \in {"gate", "exhausted", "vetoed"} /\ attempt \in [Units -> Nat]
      /\ err \in Errors
  BY OwnerTyped, PolicyTyped DEF IInv, TypeOK, Unstarted, HandlerReturns, Handling
<1>2. exec' \in [Executors -> Statuses]
  <2>1. [exec EXCEPT ![x] = AfterTransition(@, RunPolicy, Degraded, "degraded")]
          \in [Executors -> Statuses]
    BY <1>1, FlipTyped, LiteralsTyped DEF Reasons
  <2>2. QED
    BY <2>1 DEF HandlerReturns, IInv, TypeOK
<1>3. /\ pc' \in {"dispatch", "gate", "exhausted", "vetoed", "settled"}
      /\ err' \in Errors /\ attempt' \in [Units -> Nat]
  <2> HIDE DEF x, verdict
  <2>1. CASE verdict = "error"
    <3>1. Settled(Error("failed", "handler_failed")) /\ UNCHANGED attempt
      BY <2>1 DEF HandlerReturns, x, verdict
    <3>2. QED
      BY <1>1, <3>1, LiteralsTyped DEF Settled, ErrorKinds, Reasons
  <2>2. CASE verdict = "pause"
    <3>1. Settled(Error("paused", "handler_failed")) /\ UNCHANGED attempt
      BY <2>2 DEF HandlerReturns, x, verdict
    <3>2. QED
      BY <1>1, <3>1, LiteralsTyped DEF Settled, ErrorKinds, Reasons
  <2>3. CASE verdict = "falsy"
    <3>1. /\ CASE pc = "gate"   -> Resolve("vetoed", "retry_vetoed")
               [] pc = "vetoed" -> Settled(Standing(err, "retry_vetoed"))
               [] OTHER         -> Settled(Standing(err, "action_failed"))
          /\ UNCHANGED attempt
      BY <2>3 DEF HandlerReturns, x, verdict
    <3>2. "retry_vetoed" \in Reasons /\ "action_failed" \in Reasons
      BY DEF Reasons
    <3>3. CASE pc = "gate"
      BY <1>1, <3>1, <3>2, <3>3, ResolveTyped
    <3>4. CASE pc # "gate"
      <4>1. Settled(Standing(err, "retry_vetoed")) \/ Settled(Standing(err, "action_failed"))
        BY <3>1, <3>4
      <4>2. QED
        BY <1>1, <3>1, <3>2, <4>1, FailureTyped DEF Settled
    <3>5. QED
      BY <3>3, <3>4
  <2>4. CASE verdict \notin {"error", "pause", "falsy"}
    <3>1. IF pc = "gate" THEN NextAttempt ELSE Settled(NoError) /\ UNCHANGED attempt
      BY <2>4 DEF HandlerReturns, x, verdict
    <3>2. QED
      BY <1>1, <3>1, NextAttemptTyped, LiteralsTyped DEF Settled
  <2>5. QED
    BY <2>1, <2>2, <2>3, <2>4
<1>4. UNCHANGED <<phase, unit, unwinding, world, control>>
  BY DEF HandlerReturns
<1>5. /\ requests' \in Seq({"pause", "stop", "step"}) /\ acked' \in {"none", "pause", "stop"}
      /\ UNCHANGED <<cancelled, issued, resumes>> /\ phase' \in Phases
  BY <1>4 DEF IInv, TypeOK, control
<1>6. QED
  BY <1>1, <1>2, <1>3, <1>4, <1>5, Adjudicates

-----------------------------------------------------------------------------
(* The tail of Run. *)

LEMMA CompleteStep ==
  ASSUME IInv, Complete
  PROVE  IInv'
<1>1. TypeOK'
  BY DEF IInv, TypeOK, Complete, Phases, Pcs, unwinding, world
<1>2. StacksOwned' /\ UNCHANGED cursor
  BY DEF IInv, StacksOwned, Complete, unwinding, world
<1>3. pc # "unwinding" /\ pc' # "unwinding" /\ phase' # "preparing"
  BY DEF Complete, RunReturned
<1>4. QED
  BY <1>1, <1>2, <1>3, NoCursor DEF IInv

LEMMA ParkStep ==
  ASSUME IInv, Park
  PROVE  IInv'
<1>1. exec' \in [Executors -> Statuses]
  BY FieldsTyped, RootTyped DEF IInv, TypeOK, Park, Reasons
<1>2. TypeOK'
  BY <1>1 DEF IInv, TypeOK, Park, Phases, Pcs, unwinding, world
<1>3. StacksOwned' /\ UNCHANGED cursor
  BY DEF IInv, StacksOwned, Park, unwinding, world
<1>4. pc # "unwinding" /\ pc' # "unwinding" /\ phase' # "preparing"
  BY DEF Park, RunReturned
<1>5. QED
  BY <1>2, <1>3, <1>4, NoCursor DEF IInv

(* The first frame stands at the top of the run's own stack. *)
LEMMA BeginUnwindShaped ==
  ASSUME IInv, BeginUnwind, UNCHANGED stack
  PROVE  CursorNested' /\ cursor' \in Seq(Frames) /\ pc' = "unwinding" /\ tried' = {}
<1>1. stack[Top] \in Seq(Entries) /\ Top \in Executors
  BY RootTyped DEF IInv, TypeOK
<1>2. Len(stack[Top]) \in Nat
  BY <1>1
<1>3. [at |-> Len(stack[Top]), of |-> Top, dirty |-> FALSE] \in Frames
  BY <1>1, <1>2 DEF Frames
<1>4. cursor' = <<[at |-> Len(stack[Top]), of |-> Top, dirty |-> FALSE]>>
  BY DEF BeginUnwind
<1>5. cursor' \in Seq(Frames) /\ Len(cursor') = 1 /\ DOMAIN cursor' = {1}
  BY <1>3, <1>4
<1>6. cursor' # <<>> /\ cursor'[1].at = Len(stack'[cursor'[1].of])
  BY <1>4
<1>7. CursorNested'
  BY <1>2, <1>5, <1>6 DEF CursorNested, BeginUnwind
<1>8. QED
  BY <1>5, <1>7 DEF BeginUnwind

LEMMA FailStep ==
  ASSUME IInv, Fail
  PROVE  IInv'
<1>1. CursorNested' /\ cursor' \in Seq(Frames) /\ pc' = "unwinding" /\ tried' = {}
  BY BeginUnwindShaped DEF Fail, world
<1>2. TypeOK'
  BY <1>1 DEF IInv, TypeOK, Fail, Pcs, world, control
<1>3. StacksOwned' /\ Unstarted'
  BY DEF IInv, StacksOwned, Unstarted, Fail, RunReturned, world
<1>4. QED
  BY <1>1, <1>2, <1>3 DEF IInv

LEMMA ResumeUnwindStep ==
  ASSUME IInv, ResumeUnwind
  PROVE  IInv'
<1>1. CursorNested' /\ cursor' \in Seq(Frames) /\ pc' = "unwinding" /\ tried' = {}
  BY BeginUnwindShaped DEF ResumeUnwind, world
<1>2. resumes' \in Nat
  BY DEF IInv, TypeOK, ResumeUnwind, TakenUp
<1>3. TypeOK'
  BY <1>1, <1>2, LiteralsTyped DEF IInv, TypeOK, ResumeUnwind, Pcs, world
<1>4. StacksOwned' /\ Unstarted'
  BY DEF IInv, StacksOwned, Unstarted, ResumeUnwind, world
<1>5. QED
  BY <1>1, <1>3, <1>4 DEF IInv

-----------------------------------------------------------------------------
(* The unwind. *)

LEMMA FrameTyped ==
  ASSUME IInv, pc = "unwinding"
  PROVE  /\ Len(cursor) \in Nat /\ Len(cursor) > 0 /\ DOMAIN cursor = 1 .. Len(cursor)
         /\ Frame \in Frames /\ Frame.of \in Executors
         /\ Frame.at \in Nat /\ Frame.at <= Len(stack[Frame.of])
         /\ stack[Frame.of] \in Journal(Frame.of)
<1>1. cursor \in Seq(Frames) /\ cursor # <<>>
  BY DEF IInv, TypeOK, CursorNested
<1>2. Len(cursor) \in Nat /\ Len(cursor) > 0 /\ DOMAIN cursor = 1 .. Len(cursor)
  BY <1>1, EmptySeq
<1>3. Frame \in Frames
  BY <1>1, <1>2 DEF Frame
<1>4. Frame.at <= Len(stack[Frame.of])
  BY <1>2 DEF IInv, CursorNested, Frame
<1>5. QED
  BY <1>2, <1>3, <1>4 DEF Frames, IInv, StacksOwned

LEMMA CurrentTyped ==
  ASSUME IInv, Unwinding
  PROVE  OwnedBy(Frame.of, Current) /\ Current \in Entries /\ EffectOf(Current) \in Effects
<1>1. /\ Frame.at \in Nat /\ Frame.at <= Len(stack[Frame.of]) /\ Frame.at > 0
      /\ stack[Frame.of] \in Journal(Frame.of)
  BY FrameTyped DEF Unwinding
<1>2. Frame.at \in 1 .. Len(stack[Frame.of])
  BY <1>1 DEF Journal
<1>3. OwnedBy(Frame.of, Current)
  BY <1>1, <1>2 DEF Journal, Current
<1>4. Current \in Entries
  BY <1>3 DEF OwnedBy
<1>5. EffectOf(Current) \in Effects
  BY <1>4 DEF Entries, EffectOf, Effects, Succeeded
<1>6. QED
  BY <1>3, <1>4, <1>5

(* Replacing the last element of a sequence. *)
LEMMA LastReplaced ==
  ASSUME NEW S, NEW q \in Seq(S), Len(q) > 0, NEW e \in S
  PROVE  LET r == [q EXCEPT ![Len(q)] = e]
         IN  /\ r \in Seq(S) /\ r # <<>> /\ DOMAIN r = 1 .. Len(q) /\ r[Len(q)] = e
             /\ \A k \in 1 .. Len(q) : k # Len(q) => r[k] = q[k]
<1> DEFINE r == [q EXCEPT ![Len(q)] = e]
<1>1. Len(q) \in Nat /\ DOMAIN q = 1 .. Len(q) /\ Len(q) \in 1 .. Len(q)
  OBVIOUS
<1>2. r \in Seq(S) /\ DOMAIN r = 1 .. Len(q)
  BY <1>1
<1>3. r[Len(q)] = e /\ \A k \in 1 .. Len(q) : k # Len(q) => r[k] = q[k]
  BY <1>1
<1>4. r # <<>>
  BY <1>1, <1>2
<1>5. QED
  BY <1>2, <1>3, <1>4

(* What walking an entry does to a frame. *)
LEMMA WalkedTyped ==
  ASSUME NEW frame \in Frames, frame.at > 0, NEW dirty \in BOOLEAN
  PROVE  /\ Walked(frame, dirty) \in Frames
         /\ Walked(frame, dirty).of = frame.of
         /\ Walked(frame, dirty).at = frame.at - 1
<1> DEFINE mark == frame.dirty \/ dirty
<1>1. mark \in BOOLEAN
  OBVIOUS
<1>2. frame.at - 1 \in Nat /\ frame.of \in Executors
  BY DEF Frames
<1> HIDE DEF mark
<1>3. LET moved == [frame EXCEPT !.at = @ - 1, !.dirty = mark]
      IN  moved \in Frames /\ moved.of = frame.of /\ moved.at = frame.at - 1
  BY <1>1, <1>2 DEF Frames
<1>4. QED
  BY <1>3, Zenon DEF mark, Walked

(* A walked entry moves the innermost frame one place down. *)
LEMMA WalkShaped ==
  ASSUME IInv, Unwinding, NEW dirty \in BOOLEAN, cursor' = Step(dirty), UNCHANGED <<stack, pc>>
  PROVE  CursorNested' /\ cursor' \in Seq(Frames)
<1> DEFINE n == Len(cursor)
           moved == Walked(Frame, dirty)
<1>1. /\ n \in Nat /\ n > 0 /\ DOMAIN cursor = 1 .. n /\ pc = "unwinding"
      /\ Frame \in Frames /\ Frame.at \in Nat /\ Frame.at <= Len(stack[Frame.of]) /\ Frame.at > 0
      /\ Frame = cursor[n] /\ n \in 1 .. n
  BY FrameTyped DEF Unwinding, Frame
<1>2. moved \in Frames /\ moved.of = Frame.of /\ moved.at = Frame.at - 1
  BY <1>1, WalkedTyped
<1>3. cursor \in Seq(Frames) /\ cursor' = [cursor EXCEPT ![n] = moved]
  BY DEF IInv, TypeOK, Step, Frame
<1> HIDE DEF moved, n
<1>4. /\ cursor' \in Seq(Frames) /\ DOMAIN cursor' = 1 .. n /\ cursor'[n] = moved
      /\ \A k \in 1 .. n : k # n => cursor'[k] = cursor[k]
      /\ cursor' # <<>>
  BY <1>1, <1>2, <1>3, LastReplaced DEF n
<1>5. ASSUME NEW k \in 1 .. n PROVE cursor'[k].of = cursor[k].of
  BY <1>1, <1>2, <1>4
<1>6. ASSUME NEW k \in 1 .. n PROVE cursor'[k].at <= Len(stack[cursor'[k].of])
  <2>1. CASE k = n
    <3>1. Len(stack[Frame.of]) \in Nat
      BY FrameTyped, <1>1 DEF Journal
    <3>2. QED
      BY <1>1, <1>2, <1>4, <2>1, <3>1
  <2>2. CASE k # n
    BY <1>1, <1>4, <2>2 DEF IInv, CursorNested
  <2>3. QED
    BY <2>1, <2>2
<1>7. ASSUME NEW j \in 1 .. n, NEW k \in 1 .. n, j < k
      PROVE  /\ cursor'[j].at > 0 /\ cursor'[k].of \in Subgraphs
             /\ cursor'[j].of \in {Top} \cup Enclosing[cursor'[k].of]
  <2>1. j # n
    BY <1>1, <1>7
  <2>2. /\ cursor[j].at > 0 /\ cursor[k].of \in Subgraphs
        /\ cursor[j].of \in {Top} \cup Enclosing[cursor[k].of]
    BY <1>1, <1>7 DEF IInv, CursorNested
  <2>3. QED
    BY <1>4, <1>5, <2>1, <2>2
<1>8. QED
  BY <1>1, <1>4, <1>6, <1>7 DEF CursorNested

LEMMA SkipEntryStep ==
  ASSUME IInv, SkipEntry
  PROVE  IInv'
<1>1. CursorNested' /\ cursor' \in Seq(Frames)
  BY WalkShaped DEF SkipEntry, world
<1>2. TypeOK'
  BY <1>1 DEF IInv, TypeOK, SkipEntry, world, control
<1>3. StacksOwned' /\ Unstarted'
  BY DEF IInv, StacksOwned, Unstarted, SkipEntry, world
<1>4. QED
  BY <1>1, <1>2, <1>3 DEF IInv

LEMMA CompensateStep ==
  ASSUME IInv, NEW fails \in BOOLEAN, Compensate(fails)
  PROVE  IInv'
<1>1. CursorNested' /\ cursor' \in Seq(Frames)
  BY WalkShaped DEF Compensate
<1>2. EffectOf(Current) \in Effects
  BY CurrentTyped DEF Compensate
<1>3. outstanding' \in SUBSET Effects /\ tried' \in SUBSET Effects
  BY <1>2 DEF Compensate, IInv, TypeOK
<1>4. TypeOK'
  BY <1>1, <1>3 DEF IInv, TypeOK, Compensate, control
<1>5. StacksOwned' /\ Unstarted'
  BY DEF IInv, StacksOwned, Unstarted, Compensate
<1>6. QED
  BY <1>1, <1>4, <1>5 DEF IInv

(* Going down into a nested stack, the unwind goes down the tree. *)
LEMMA EnclosingOwner ==
  ASSUME NEW s \in Subgraphs
  PROVE  /\ Owner(s) \in {Top} \cup Enclosing[s] /\ s \notin {Top} \cup Enclosing[s]
         /\ Owner(s) \in Subgraphs => {Top} \cup Enclosing[Owner(s)] \subseteq {Top} \cup Enclosing[s]
<1>1. CASE s = Root
  <2>1. Owner(s) = Top
    BY <1>1 DEF Owner
  <2>2. QED
    BY <1>1, <2>1, TreeAssumption DEF Units
<1>2. CASE s # Root
  BY <1>2, TreeAssumption DEF Units
<1>3. QED
  BY <1>1, <1>2

LEMMA DescendStep ==
  ASSUME IInv, Descend
  PROVE  IInv'
<1> DEFINE n == Len(cursor)
           s == Current.unit
           frame == [at |-> Len(stack[s]), of |-> s, dirty |-> FALSE]
<1>1. /\ n \in Nat /\ n > 0 /\ DOMAIN cursor = 1 .. n /\ pc = "unwinding"
      /\ Frame \in Frames /\ Frame.at > 0 /\ Frame = cursor[n] /\ n \in 1 .. n
  BY FrameTyped DEF Descend, Unwinding, Frame
<1>2. s \in Subgraphs /\ s \in Executors /\ Owner(s) = Frame.of
  BY CurrentTyped DEF Descend, OwnedBy, Executors
<1>3. stack[s] \in Seq(Entries) /\ Len(stack[s]) \in Nat /\ cursor \in Seq(Frames)
  BY <1>2 DEF IInv, TypeOK
<1>4. frame \in Frames /\ cursor' = Append(cursor, frame)
  BY <1>2, <1>3 DEF Frames, Descend
<1>5. frame.at = Len(stack[frame.of]) /\ frame.of = s
  OBVIOUS
<1> HIDE DEF frame, n
<1>6. /\ cursor' \in Seq(Frames) /\ DOMAIN cursor' = 1 .. n + 1 /\ cursor'[n + 1] = frame
      /\ \A k \in 1 .. n : cursor'[k] = cursor[k]
      /\ cursor' # <<>>
  BY <1>1, <1>3, <1>4 DEF n
<1>7. ASSUME NEW k \in 1 .. n + 1 PROVE cursor'[k].at <= Len(stack[cursor'[k].of])
  <2>1. CASE k = n + 1
    BY <1>3, <1>5, <1>6, <2>1
  <2>2. CASE k \in 1 .. n
    BY <1>1, <1>6, <2>2 DEF IInv, CursorNested
  <2>3. QED
    BY <1>1, <2>1, <2>2
<1>8. ASSUME NEW j \in 1 .. n + 1, NEW k \in 1 .. n + 1, j < k
      PROVE  /\ cursor'[j].at > 0 /\ cursor'[k].of \in Subgraphs
             /\ cursor'[j].of \in {Top} \cup Enclosing[cursor'[k].of]
  <2>1. j \in 1 .. n /\ cursor'[j] = cursor[j]
    BY <1>1, <1>6, <1>8
  <2>2. CASE k \in 1 .. n
    <3>1. /\ cursor[j].at > 0 /\ cursor[k].of \in Subgraphs
          /\ cursor[j].of \in {Top} \cup Enclosing[cursor[k].of]
      BY <1>1, <1>8, <2>1, <2>2 DEF IInv, CursorNested
    <3>2. QED
      BY <1>6, <2>1, <2>2, <3>1
  <2>3. CASE k = n + 1 /\ j = n
    BY <1>1, <1>2, <1>5, <1>6, <2>1, <2>3, EnclosingOwner
  <2>4. CASE k = n + 1 /\ j # n
    <3>1. j < n /\ n \in 1 .. n
      BY <1>1, <2>1, <2>4
    <3>2. /\ cursor[j].at > 0 /\ Frame.of \in Subgraphs
          /\ cursor[j].of \in {Top} \cup Enclosing[Frame.of]
      BY <1>1, <2>1, <3>1 DEF IInv, CursorNested
    <3>3. QED
      BY <1>2, <1>5, <1>6, <2>1, <2>4, <3>2, EnclosingOwner
  <2>5. QED
    BY <1>1, <2>2, <2>3, <2>4
<1>9. UNCHANGED <<stack, pc>>
  BY DEF Descend, world
<1>10. CursorNested'
  BY <1>1, <1>6, <1>7, <1>8, <1>9 DEF CursorNested
<1>11. TypeOK'
  BY <1>6 DEF IInv, TypeOK, Descend, world, control
<1>12. StacksOwned' /\ Unstarted'
  BY DEF IInv, StacksOwned, Unstarted, Descend, world
<1>13. QED
  BY <1>10, <1>11, <1>12 DEF IInv

(* A stack that was unwound is emptied or kept; no other stack changes. *)
LEMMA ClearedOwned ==
  ASSUME IInv, pc = "unwinding", stack' = Cleared
  PROVE  /\ StacksOwned' /\ stack' \in [Executors -> Seq(Entries)]
         /\ \A x \in Executors : x # Frame.of => stack'[x] = stack[x]
<1>1. stack \in [Executors -> Seq(Entries)] /\ StacksOwned
  BY DEF IInv, TypeOK
<1>2. \A x \in Executors : stack'[x] = stack[x] \/ (x = Frame.of /\ stack'[x] = <<>>)
  BY <1>1 DEF Cleared
<1>3. StacksOwned'
  BY <1>1, <1>2, JournalEmpty DEF StacksOwned
<1>4. stack' \in [Executors -> Seq(Entries)]
  BY <1>1, EmptySeq DEF Cleared
<1>5. QED
  BY <1>2, <1>3, <1>4

LEMMA AscendStep ==
  ASSUME IInv, Ascend
  PROVE  IInv'
<1> DEFINE n == Len(cursor)
           m == n - 1
           moved == Walked(cursor[m], Frame.dirty)
           upper == SubSeq(cursor, 1, m)
<1>1. /\ n \in Nat /\ n > 0 /\ DOMAIN cursor = 1 .. n /\ pc = "unwinding" /\ pc' = pc
      /\ Frame \in Frames /\ m = n - 1 /\ m \in Nat /\ m > 0
      /\ m \in 1 .. m /\ m \in 1 .. n /\ n \in 1 .. n
  BY FrameTyped DEF Ascend
<1>2. cursor \in Seq(Frames) /\ cursor[m] \in Frames /\ cursor[n] = Frame
  BY <1>1 DEF IInv, TypeOK, Frame
<1>3. ASSUME NEW j \in 1 .. m
      PROVE  /\ cursor[j].at > 0 /\ cursor[j].of \in Executors /\ cursor[j].of # Frame.of
             /\ cursor[j].at <= Len(stack[cursor[j].of])
  <2>1. j \in 1 .. n /\ j < n
    BY <1>1
  <2>2. /\ cursor[j].at > 0 /\ cursor[n].of \in Subgraphs
        /\ cursor[j].of \in {Top} \cup Enclosing[cursor[n].of]
        /\ cursor[j].at <= Len(stack[cursor[j].of])
    BY <1>1, <2>1 DEF IInv, CursorNested
  <2>3. cursor[j] \in Frames
    BY <1>2, <2>1
  <2>4. QED
    BY <1>2, <2>2, <2>3, EnclosingOwner DEF Frames
<1>4. moved \in Frames /\ moved.of = cursor[m].of /\ moved.at = cursor[m].at - 1
  <2>1. m \in 1 .. m /\ cursor[m].at \in Nat /\ cursor[m].at > 0
    BY <1>1, <1>2, <1>3 DEF Frames
  <2>2. Frame.dirty \in BOOLEAN /\ cursor[m].dirty \in BOOLEAN
    BY <1>1, <1>2 DEF Frames
  <2>3. QED
    BY <1>2, <2>1, <2>2, WalkedTyped
<1>5. /\ upper \in Seq(Frames) /\ Len(upper) = m
      /\ \A k \in 1 .. m : upper[k] = cursor[k]
  BY <1>1, <1>2, SubSeqProperties
<1>6. cursor' = [upper EXCEPT ![m] = moved]
  <2>1. cursor' = [upper EXCEPT ![m] = Walked(@, Frame.dirty)]
    BY DEF Ascend
  <2>2. m \in DOMAIN upper /\ upper[m] = cursor[m]
    BY <1>1, <1>5
  <2>3. QED
    BY <2>1, <2>2
<1> HIDE DEF moved, upper, m, n
<1>7. /\ cursor' \in Seq(Frames) /\ DOMAIN cursor' = 1 .. m /\ cursor'[m] = moved
      /\ \A k \in 1 .. m : k # m => cursor'[k] = cursor[k]
      /\ cursor' # <<>>
  BY <1>1, <1>4, <1>5, <1>6, LastReplaced
<1>8. stack' = Cleared
  BY DEF Ascend
<1>9. ASSUME NEW k \in 1 .. m
       PROVE  /\ cursor'[k].of = cursor[k].of /\ cursor'[k].at <= cursor[k].at
              /\ cursor'[k].at \in Nat /\ cursor[k].at \in Nat
             /\ stack'[cursor[k].of] = stack[cursor[k].of]
  <2>1. /\ cursor'[k].of = cursor[k].of /\ cursor'[k].at <= cursor[k].at
        /\ cursor'[k].at \in Nat /\ cursor[k].at \in Nat
    <3>1. cursor[k] \in Frames
      BY <1>1, <1>2
    <3>2. QED
      BY <1>4, <1>7, <3>1 DEF Frames
  <2>2. stack'[cursor[k].of] = stack[cursor[k].of]
    BY <1>1, <1>3, <1>8, ClearedOwned
  <2>3. QED
    BY <2>1, <2>2
<1>10. ASSUME NEW k \in 1 .. m PROVE cursor'[k].at <= Len(stack'[cursor'[k].of])
  <2>1. cursor[k].at <= Len(stack[cursor[k].of]) /\ Len(stack[cursor[k].of]) \in Nat
    <3>1. stack[cursor[k].of] \in Seq(Entries)
      BY <1>3 DEF IInv, TypeOK
    <3>2. QED
      BY <1>3, <3>1
  <2>2. QED
    BY <1>9, <2>1
<1>11. ASSUME NEW j \in 1 .. m, NEW k \in 1 .. m, j < k
       PROVE  /\ cursor'[j].at > 0 /\ cursor'[k].of \in Subgraphs
              /\ cursor'[j].of \in {Top} \cup Enclosing[cursor'[k].of]
  <2>1. j # m /\ j \in 1 .. n /\ k \in 1 .. n
    BY <1>1, <1>11
  <2>2. /\ cursor[j].at > 0 /\ cursor[k].of \in Subgraphs
        /\ cursor[j].of \in {Top} \cup Enclosing[cursor[k].of]
    BY <1>1, <1>11, <2>1 DEF IInv, CursorNested
  <2>3. cursor'[j] = cursor[j] /\ cursor'[k].of = cursor[k].of
    BY <1>7, <1>9, <2>1
  <2>4. QED
    BY <2>2, <2>3
<1>12. CursorNested'
  BY <1>1, <1>7, <1>10, <1>11 DEF CursorNested
<1>13. StacksOwned' /\ stack' \in [Executors -> Seq(Entries)]
  BY <1>1, <1>8, ClearedOwned
<1>14. TypeOK'
  BY <1>7, <1>13 DEF IInv, TypeOK, Ascend, control
<1>15. Unstarted'
  BY DEF IInv, Unstarted, Ascend
<1>16. QED
  BY <1>12, <1>13, <1>14, <1>15 DEF IInv

LEMMA LandedTyped ==
  ASSUME IInv
  PROVE  LandedStatus \in Statuses
<1> DEFINE implied == ConditionForReason(FailureReason(err))
           status  == exec[Top]
<1>1. status \in Statuses /\ err \in Errors
  BY RootTyped DEF IInv, TypeOK
<1>2. implied \in Conditions /\ FailureReason(err) \in Reasons
  BY <1>1, FailureTyped
<1>3. {"compensation_failed", "unwound", "stopped"} \subseteq Reasons
  BY DEF Reasons
<1> HIDE DEF implied
<1>4. CASE Frame.dirty
  BY <1>1, <1>3, <1>4, FieldsTyped, LiteralsTyped, Zenon DEF LandedStatus
<1>5. CASE ~Frame.dirty
  BY <1>1, <1>2, <1>3, <1>5, FieldsTyped, LiteralsTyped DEF LandedStatus, implied
<1>6. QED
  BY <1>4, <1>5

LEMMA LandStep ==
  ASSUME IInv, Land
  PROVE  IInv'
<1>1. StacksOwned' /\ stack' \in [Executors -> Seq(Entries)]
  BY ClearedOwned DEF Land
<1>2. exec' \in [Executors -> Statuses]
  BY LandedTyped, RootTyped DEF IInv, TypeOK, Land
<1>3. cursor' \in Seq(Frames)
  BY EmptySeq DEF Land
<1>4. TypeOK'
  BY <1>1, <1>2, <1>3 DEF IInv, TypeOK, Land, Phases, Pcs
<1>5. CursorNested' /\ Unstarted'
  BY DEF Land, CursorNested, Unstarted
<1>6. QED
  BY <1>1, <1>4, <1>5 DEF IInv

-----------------------------------------------------------------------------
LEMMA StepShaped == IInv /\ [Next]_vars => IInv'
<1> SUFFICES ASSUME IInv, [Next]_vars
             PROVE  IInv'
  OBVIOUS
<1>1. CASE Execution
  <2>1. ASSUME NEW outcome \in NodeOutcomes, RunNode(outcome) \/ AssertNode(outcome)
        PROVE  IInv'
    BY <2>1, RunNodeStep, AssertNodeStep
  <2>2. ASSUME NEW s \in Subgraphs, EnterSubgraph(s) \/ ScopeFault(s)
        PROVE  IInv'
    BY <2>2, EnterSubgraphStep, ScopeFaultStep
  <2>3. QED
    BY <1>1, <2>1, <2>2, ExitCancelledStep, ControlPointStep, ReplayNodeStep, UnboundNodeStep,
       NextChildStep, ExitSubgraphStep, PanicStep DEF Execution
<1>2. CASE Adjudication
  BY <1>2, SucceedStep, RetryStep, HandlerInterruptedStep, HandlerReturnsStep DEF Adjudication
<1>3. CASE Ending
  BY <1>3, CompleteStep, ParkStep, FailStep, SkipEntryStep, CompensateStep, DescendStep,
     AscendStep, LandStep DEF Ending
<1>4. CASE Host
  BY <1>4, StartStep, PreflightStep, ResumeStep, ResumeUnwindStep
  DEF Host, StartRefused, ResumeRefused
<1>5. CASE Consumer
  BY <1>5, CancelStep, RequestStep DEF Consumer
<1>6. CASE UNCHANGED vars
  BY <1>6 DEF vars, control, unwinding, world, IInv, TypeOK, StacksOwned, CursorNested, Unstarted
<1>7. QED
  BY <1>1, <1>2, <1>3, <1>4, <1>5, <1>6 DEF Next, Progress

(* The executor's state keeps its type: in particular every entry an unwind  *)
(* reads is there, and every frame it returns to is within its stack.        *)
THEOREM ExecutorTyped == Spec => []TypeOK
<1>1. IInv => TypeOK
  BY DEF IInv
<1>2. QED
  BY <1>1, InitShaped, StepShaped, PTL DEF Spec

(* Every receipt is on the stack of the executor that dispatched its unit:   *)
(* RecoveryStack never mixes two boundaries' journals, so the stack a        *)
(* boundary adopts, supersedes or unwinds is its own.                        *)
THEOREM JournalsOwned == Spec => []StacksOwned
<1>1. IInv => StacksOwned
  BY DEF IInv
<1>2. QED
  BY <1>1, InitShaped, StepShaped, PTL DEF Spec

(* Unwind walks down the tree: at any moment the stacks it is inside belong  *)
(* to boundaries nested in one another, none of them twice, and its place in *)
(* each is an entry that is still there.                                     *)
THEOREM UnwindNested == Spec => []CursorNested
<1>1. IInv => CursorNested
  BY DEF IInv
<1>2. QED
  BY <1>1, InitShaped, StepShaped, PTL DEF Spec

-----------------------------------------------------------------------------
(* Hard failures.  A hard error is on its way up, or the run has ended with  *)
(* it: it is never in the hands of the retry loop or of a handler.           *)

HardShape ==
  err.hard => err.kind = "failed" /\ pc \in {"returned", "settled", "unwinding", "idle", "crashed"}

HardBypass ==
  err.hard /\ pc \notin {"idle", "crashed"} => clock' = clock /\ err'.hard

LEMMA ErrorsHard ==
  /\ \A kind, reason : ~Error(kind, reason).hard
  /\ ~NoError.hard
  /\ \A reason : HardError(reason).hard /\ HardError(reason).kind = "failed"
  /\ \A error, base : ~error.hard => ~Standing(error, base).hard
BY DEF Error, NoError, HardError, Standing

LEMMA HardInit == Init => HardShape
BY ErrorsHard DEF Init, HardShape

LEMMA HardDispatch ==
  ASSUME HardShape, Execution, pc = "dispatch"
  PROVE  HardShape' /\ HardBypass
<1>1. ~err.hard
  BY DEF HardShape
<1>2. HardBypass
  BY <1>1 DEF HardBypass
<1>3. pc' \in {"returned", "settled", "crashed"} /\ err'.hard => err'.kind = "failed"
  BY <1>1, ErrorsHard
  DEF Execution, ExitCancelled, ControlPoint, ReplayNode, PruneSubgraph, RunNode, AssertNode,
      UnboundNode, EnterSubgraph, ScopeFault, NextChild, ExitSubgraph, Panic,
      Returned, Settled, DispatchUnit, FrameworkFailure
<1>4. pc' \in {"returned", "settled", "crashed"} \/ ~err'.hard
  BY <1>1, ErrorsHard
  DEF Execution, ExitCancelled, ControlPoint, ReplayNode, PruneSubgraph, RunNode, AssertNode,
      UnboundNode, EnterSubgraph, ScopeFault, NextChild, ExitSubgraph, Panic,
      Returned, Settled, DispatchUnit, FrameworkFailure
<1>5. QED
  BY <1>2, <1>3, <1>4 DEF HardShape

LEMMA HardWalk ==
  ASSUME HardShape, Execution, pc # "dispatch"
  PROVE  HardShape' /\ HardBypass
<1>1. NextChild \/ ExitSubgraph \/ Panic
  BY DEF Execution, ExitCancelled, ControlPoint, ReplayNode, PruneSubgraph, RunNode, AssertNode,
         UnboundNode, EnterSubgraph, ScopeFault, Entering, NodeMay, Clear
<1>2. CASE NextChild
  BY <1>2, ErrorsHard DEF HardShape, HardBypass, NextChild, BodyDone, DispatchUnit
<1>3. CASE ExitSubgraph
  BY <1>3 DEF HardShape, HardBypass, ExitSubgraph, Returned
<1>4. CASE Panic
  BY <1>4 DEF HardShape, HardBypass, Panic, world
<1>5. QED
  BY <1>1, <1>2, <1>3, <1>4

LEMMA HardAdjudication ==
  ASSUME HardShape, Adjudication
  PROVE  HardShape' /\ HardBypass
<1>1. CASE Succeed
  <2>1. err.kind = "none" /\ pc' = "settled"
    BY <1>1 DEF Succeed, Settled
  <2>2. err' \in {HardError(exec[Owner(unit)].reason), Error("paused", "unspecified"), NoError}
    BY <1>1, Zenon DEF Succeed, Settled
  <2>3. QED
    BY <2>1, <2>2, ErrorsHard DEF HardShape, HardBypass
<1>2. CASE GiveUp
  BY <1>2 DEF HardShape, HardBypass, GiveUp, Settled, world
<1>3. CASE Retry \/ Exhaust
  BY <1>3, ErrorsHard
  DEF HardShape, HardBypass, Retry, Exhaust, Adjudicated, NextAttempt, Resolve, Settled
<1>4. CASE HandlerInterrupted
  BY <1>4, ErrorsHard DEF HardShape, HardBypass, HandlerInterrupted, Handling, Settled
<1>5. ASSUME NEW v \in HandlerVerdicts, HandlerReturns(v)
      PROVE  HardShape' /\ HardBypass
  <2>1. ~err.hard /\ Handling
    BY <1>5 DEF HardShape, HandlerReturns, Handling
  <2>2. ~err'.hard
    <3> DEFINE verdict == Verdict(v, Owner(unit))
    <3>1. CASE verdict = "error"
      BY <1>5, <3>1, ErrorsHard DEF HandlerReturns, Settled
    <3>2. CASE verdict = "pause"
      BY <1>5, <3>2, ErrorsHard DEF HandlerReturns, Settled
    <3>3. CASE verdict = "falsy"
      BY <1>5, <2>1, <3>3, ErrorsHard DEF HandlerReturns, Settled, Resolve, Handling
    <3>4. CASE verdict \notin {"error", "pause", "falsy"}
      BY <1>5, <3>4, ErrorsHard DEF HandlerReturns, Settled, NextAttempt
    <3>5. QED
      BY <3>1, <3>2, <3>3, <3>4
  <2>3. QED
    BY <2>1, <2>2 DEF HardShape, HardBypass
<1>6. QED
  BY <1>1, <1>2, <1>3, <1>4, <1>5 DEF Adjudication

LEMMA HardEnding ==
  ASSUME HardShape, Ending
  PROVE  HardShape' /\ HardBypass
BY DEF HardShape, HardBypass, Ending, Complete, Park, RunReturned, Fail, BeginUnwind, SkipEntry,
       Compensate, Descend, Ascend, Land, world

LEMMA HardOutside ==
  ASSUME IInv, HardShape, Host \/ Consumer \/ UNCHANGED vars
  PROVE  HardShape' /\ HardBypass
<1>1. CASE Host
  <2>1. pc = "idle"
    BY <1>1 DEF IInv, Unstarted, Host, Start, StartRefused, ResumeRefused, ResumeUnwind, Resume
  <2>2. HardShape'
    BY <1>1, <2>1, ErrorsHard
    DEF HardShape, Host, Start, StartRefused, ResumeRefused, ResumeUnwind, Resume,
        LandPreflightFailure, DispatchUnit, BeginUnwind
  <2>3. QED
    BY <2>1, <2>2 DEF HardBypass
<1>2. CASE Consumer \/ UNCHANGED vars
  BY <1>2 DEF HardShape, HardBypass, Consumer, Cancel, Request, world, vars
<1>3. QED
  BY <1>1, <1>2

(* A hard failure bypasses retry and OnError (isHardFailure): from where it  *)
(* is raised to the end of the run nothing more is performed, and no         *)
(* attempt, handler or enclosing boundary turns it into anything softer.     *)
THEOREM HardFailuresEnd == Spec => HardFailureEnds
<1>1. Init => IInv /\ HardShape
  BY InitShaped, HardInit
<1>2. IInv /\ HardShape /\ [Next]_vars => IInv' /\ HardShape' /\ HardBypass
  BY StepShaped, HardDispatch, HardWalk, HardAdjudication, HardEnding, HardOutside
  DEF Next, Progress
<1>3. HardBypass => [ err.hard /\ pc \notin {"idle", "crashed"} => clock' = clock /\ err'.hard ]_vars
  BY DEF HardBypass
<1>4. QED
  BY <1>1, <1>2, <1>3, PTL DEF Spec, HardFailureEnds

-----------------------------------------------------------------------------
(* A command that was acknowledged.  Between the control point that took it  *)
(* and the end of the run its sentinel is the error in flight, and a handler *)
(* runs only for a unit that has a failure to handle.                        *)

Answering ==
  /\ acked = "pause" => pc = "crashed" \/ (pc \in {"returned", "settled"} /\ err.kind = "paused")
  /\ pc = "idle" => acked = "none"
  /\ pc = "dispatch" => err.kind = "none"
  /\ pc = "gate" => attempt[unit] < Retries(unit)
  /\ pc \in {"exhausted", "vetoed"} => unit \in OnError

PauseKept == acked = "pause" => clock' = clock /\ (acked' = "pause" \/ phase' = "paused")
StopKept  ==
  acked = "stop" /\ err.kind = "stopped" /\ (\A u \in {unit} \cup Enclosing[unit] : Final(u))
    => StopObeyed /\ err'.kind = "stopped"

LEMMA KindsKept ==
  /\ \A kind, reason : Error(kind, reason).kind = kind
  /\ \A error, base : Standing(error, base).kind = error.kind
  /\ NoError.kind = "none"
BY DEF Error, Standing, NoError

LEMMA AnsweringInit == Init => Answering
BY DEF Init, Answering

(* The sentinel an acknowledged command becomes. *)
LEMMA AckedBecomes ==
  ASSUME NEW x, Acknowledge(x, Head(requests)), Head(requests) \in {"pause", "stop", "step"}
  PROVE  /\ Head(requests) = "step" => acked' = acked
         /\ Head(requests) # "step" => acked' = Head(requests)
         /\ acked' = "pause" /\ Head(requests) # "step" => Interruption(Head(requests)) = "paused"
BY DEF Acknowledge, Interruption

LEMMA AnsweringDispatch ==
  ASSUME IInv, Answering, Execution, pc = "dispatch"
  PROVE  Answering' /\ PauseKept /\ StopKept
<1>1. acked # "pause" /\ err.kind # "stopped"
  BY DEF Answering
<1>2. PauseKept /\ StopKept
  BY <1>1 DEF PauseKept, StopKept
<1>3. CASE ControlPoint
  <2>1. Head(requests) \in {"pause", "stop", "step"}
    BY <1>3, AcknowledgeTyped, OwnerTyped DEF ControlPoint, IInv, TypeOK
  <2>2. Acknowledge(Owner(unit), Head(requests))
    BY <1>3 DEF ControlPoint
  <2>3. CASE Head(requests) = "step"
    <3>1. acked' = acked
      BY <2>1, <2>2, <2>3, AckedBecomes
    <3>2. pc' = pc /\ err' = err
      BY <1>3, <2>3 DEF ControlPoint
    <3>3. QED
      BY <1>1, <1>2, <3>1, <3>2 DEF Answering
  <2>4. CASE Head(requests) # "step"
    <3>1. pc' = "returned" /\ err'.kind = Interruption(Head(requests))
      BY <1>3, <2>4, KindsKept DEF ControlPoint, Returned
    <3>2. acked' = "pause" => err'.kind = "paused"
      BY <2>1, <2>2, <2>4, <3>1, AckedBecomes
    <3>3. QED
      BY <1>2, <3>1, <3>2 DEF Answering
  <2>5. QED
    BY <2>3, <2>4
<1>4. CASE ~ControlPoint
  <2>1. UNCHANGED acked /\ pc' \in {"returned", "settled", "crashed", "dispatch"}
    BY <1>4
    DEF Execution, ExitCancelled, ReplayNode, PruneSubgraph, RunNode, AssertNode,
        UnboundNode, EnterSubgraph, ScopeFault, NextChild, ExitSubgraph, Panic,
        Returned, Settled, DispatchUnit, FrameworkFailure, control
  <2>2. pc' = "dispatch" => err' = NoError
    BY <1>4
    DEF Execution, ExitCancelled, ReplayNode, PruneSubgraph, RunNode, AssertNode,
        UnboundNode, EnterSubgraph, ScopeFault, NextChild, ExitSubgraph, Panic,
        Returned, Settled, DispatchUnit, FrameworkFailure
  <2>3. QED
    BY <1>1, <1>2, <2>1, <2>2, KindsKept DEF Answering
<1>5. QED
  BY <1>2, <1>3, <1>4

LEMMA AnsweringWalk ==
  ASSUME Answering, Execution, pc # "dispatch"
  PROVE  Answering' /\ PauseKept /\ StopKept
<1>1. NextChild \/ ExitSubgraph \/ Panic
  BY DEF Execution, ExitCancelled, ControlPoint, ReplayNode, PruneSubgraph, RunNode, AssertNode,
         UnboundNode, EnterSubgraph, ScopeFault, Entering, NodeMay, Clear
<1>2. CASE NextChild
  BY <1>2, KindsKept
  DEF Answering, PauseKept, StopKept, NextChild, BodyDone, DispatchUnit, control
<1>3. CASE ExitSubgraph
  BY <1>3 DEF Answering, PauseKept, StopKept, StopObeyed, ExitSubgraph, Returned, control
<1>4. CASE Panic
  BY <1>4 DEF Answering, PauseKept, StopKept, StopObeyed, Panic, world, control
<1>5. QED
  BY <1>1, <1>2, <1>3, <1>4

LEMMA AnsweringAdjudication ==
  ASSUME IInv, Answering, Adjudication
  PROVE  Answering' /\ PauseKept /\ StopKept
<1>1. CASE Succeed
  BY <1>1 DEF Answering, PauseKept, StopKept, Succeed, Settled, control, world
<1>2. CASE GiveUp
  BY <1>2 DEF Answering, PauseKept, StopKept, StopObeyed, GiveUp, Settled, control, world
<1>3. CASE Retry
  <2>1. acked # "pause" /\ UNCHANGED <<acked, clock, unit>> /\ attempt[unit] < Retries(unit)
    BY <1>3 DEF Answering, Retry, Adjudicated, BudgetLeft, control, world
  <2>2. attempt[unit] \in Nat /\ ~(attempt[unit] >= Retries(unit))
    BY <2>1, OwnerTyped, PolicyAssumption DEF IInv, TypeOK, Retries
  <2>3. StopKept /\ PauseKept
    BY <2>1, <2>2 DEF StopKept, PauseKept, Final
  <2>4. (pc' = "gate" /\ UNCHANGED attempt) \/ (pc' = "dispatch" /\ err' = NoError)
    BY <1>3 DEF Retry, NextAttempt
  <2>5. pc = "returned"
    BY <1>3 DEF Retry, Adjudicated
  <2>6. QED
    BY <2>1, <2>3, <2>4, <2>5, KindsKept DEF Answering
<1>4. CASE Exhaust
  <2>1. acked # "pause" /\ UNCHANGED <<acked, clock, unit, attempt>> /\ pc = "returned"
    BY <1>4 DEF Answering, Exhaust, Adjudicated, control, world
  <2>2. \/ unit \in OnError /\ pc' = "exhausted" /\ UNCHANGED err
        \/ unit \notin OnError /\ pc' = "settled" /\ err' = Standing(err, "action_failed")
    BY <1>4 DEF Exhaust, Resolve, Settled
  <2>3. StopKept /\ PauseKept
    BY <2>1, <2>2, KindsKept DEF StopKept, PauseKept, StopObeyed, Final
  <2>4. QED
    BY <2>1, <2>2, <2>3 DEF Answering
<1>5. CASE Handling
  <2>1. acked # "pause" /\ ~Final(unit)
    <3>1. CASE pc = "gate"
      <4>1. attempt[unit] \in Nat /\ attempt[unit] < Retries(unit)
        BY <3>1 DEF IInv, TypeOK, Answering
      <4>2. Retries(unit) \in Nat
        BY PolicyAssumption DEF IInv, TypeOK, Retries
      <4>3. QED
        BY <3>1, <4>1, <4>2 DEF Answering, Final
    <3>2. CASE pc \in {"exhausted", "vetoed"}
      BY <3>2 DEF Answering, Final
    <3>3. QED
      BY <1>5, <3>1, <3>2 DEF Handling
  <2>2. StopKept /\ PauseKept
    BY <2>1 DEF StopKept, PauseKept
  <2>3. CASE HandlerInterrupted
    <3>1. CASE cancelled
      BY <2>1, <2>2, <2>3, <3>1 DEF HandlerInterrupted, Settled, Answering, control
    <3>2. CASE ~cancelled
      <4>1. requests # <<>> /\ Acknowledge(Owner(unit), Head(requests))
        BY <2>3, <3>2 DEF HandlerInterrupted
      <4>2. Head(requests) \in {"pause", "stop", "step"}
        BY <4>1, AcknowledgeTyped, OwnerTyped DEF IInv, TypeOK
      <4>3. CASE Head(requests) = "step"
        <5>1. acked' = acked
          BY <4>1, <4>2, <4>3, AckedBecomes
        <5>2. pc' = pc /\ err' = err /\ unit' = unit /\ attempt' = attempt
          BY <2>3, <3>2, <4>3 DEF HandlerInterrupted
        <5>3. QED
          BY <1>5, <2>1, <2>2, <5>1, <5>2 DEF Answering, Handling
      <4>4. CASE Head(requests) # "step"
        <5>1. pc' = "settled" /\ err'.kind = Interruption(Head(requests))
          BY <2>3, <3>2, <4>4, KindsKept DEF HandlerInterrupted, Settled
        <5>2. acked' = "pause" => err'.kind = "paused"
          BY <4>1, <4>2, <4>4, <5>1, AckedBecomes
        <5>3. QED
          BY <2>2, <5>1, <5>2 DEF Answering
      <4>5. QED
        BY <4>3, <4>4
    <3>3. QED
      BY <3>1, <3>2
  <2>4. ASSUME NEW v \in HandlerVerdicts, HandlerReturns(v)
        PROVE  Answering'
    <3>1. UNCHANGED <<acked, unit>>
      BY <2>4 DEF HandlerReturns, control
    <3>2. \/ pc' = "settled"
          \/ pc' = "vetoed" /\ unit \in OnError
          \/ pc' = "dispatch" /\ err' = NoError
      <4> DEFINE verdict == Verdict(v, Owner(unit))
      <4>1. CASE verdict = "error"
        BY <2>4, <4>1 DEF HandlerReturns, Settled
      <4>2. CASE verdict = "pause"
        BY <2>4, <4>2 DEF HandlerReturns, Settled
      <4>3. CASE verdict = "falsy"
        BY <1>5, <2>4, <4>3 DEF HandlerReturns, Settled, Resolve, Handling
      <4>4. CASE verdict \notin {"error", "pause", "falsy"}
        BY <2>4, <4>4 DEF HandlerReturns, Settled, NextAttempt
      <4>5. QED
        BY <4>1, <4>2, <4>3, <4>4
    <3>3. QED
      BY <2>1, <3>1, <3>2, KindsKept DEF Answering
  <2>5. CASE Succeed \/ GiveUp \/ Retry \/ Exhaust
    BY <1>5, <2>5 DEF Handling, Succeed, GiveUp, Retry, Exhaust, Adjudicated
  <2>6. QED
    BY <2>2, <2>3, <2>4, <2>5 DEF Adjudication
<1>6. QED
  BY <1>1, <1>2, <1>3, <1>4, <1>5 DEF Adjudication, HandlerInterrupted, HandlerReturns

LEMMA AnsweringEnding ==
  ASSUME Answering, Ending
  PROVE  Answering' /\ PauseKept /\ StopKept
<1>1. CASE Complete \/ Park
  BY <1>1 DEF Answering, PauseKept, StopKept, StopObeyed, Complete, Park, RunReturned, world
<1>2. CASE Fail
  BY <1>2 DEF Answering, PauseKept, StopKept, StopObeyed, Fail, RunReturned, BeginUnwind,
              world, control
<1>3. CASE pc = "unwinding"
  <2>1. SkipEntry \/ (\E fails \in BOOLEAN : Compensate(fails)) \/ Descend \/ Ascend \/ Land
    BY <1>3 DEF Ending, Complete, Park, Fail, RunReturned
  <2>2. UNCHANGED <<clock, err, unit, attempt>>
    BY <2>1 DEF SkipEntry, Compensate, Descend, Ascend, Land, world
  <2>3. \/ UNCHANGED <<acked, pc>>
        \/ pc' = "idle" /\ acked' = "none" /\ phase' = "stopped"
    BY <2>1 DEF SkipEntry, Compensate, Descend, Ascend, Land, control
  <2>4. QED
    BY <1>3, <2>2, <2>3 DEF Answering, PauseKept, StopKept, StopObeyed
<1>4. QED
  BY <1>1, <1>2, <1>3 DEF Ending, SkipEntry, Compensate, Descend, Unwinding, Ascend, Land

LEMMA AnsweringOutside ==
  ASSUME IInv, Answering, Host \/ Consumer \/ UNCHANGED vars
  PROVE  Answering' /\ PauseKept /\ (StopKept \/ UNCHANGED vars)
<1>1. CASE Host
  <2>1. pc = "idle" /\ acked = "none"
    BY <1>1 DEF IInv, Unstarted, Answering, Host, Start, StartRefused, ResumeRefused,
                ResumeUnwind, Resume
  <2>2. acked' = "none" /\ (pc' = "dispatch" => err' = NoError)
        /\ pc' \in {"idle", "dispatch", "unwinding"}
    BY <1>1, <2>1
    DEF Host, Start, StartRefused, ResumeRefused, ResumeUnwind, Resume,
        LandPreflightFailure, DispatchUnit, BeginUnwind, control
  <2>3. QED
    BY <2>1, <2>2, KindsKept DEF Answering, PauseKept, StopKept
<1>2. CASE Consumer
  BY <1>2 DEF Answering, PauseKept, StopKept, StopObeyed, Consumer, Cancel, Request, world
<1>3. CASE UNCHANGED vars
  BY <1>3 DEF Answering, PauseKept, world, control, vars
<1>4. QED
  BY <1>1, <1>2, <1>3

LEMMA AnsweringStep ==
  ASSUME IInv, Answering, [Next]_vars
  PROVE  Answering' /\ PauseKept /\ (StopKept \/ UNCHANGED vars)
BY AnsweringDispatch, AnsweringWalk, AnsweringAdjudication, AnsweringEnding, AnsweringOutside
DEF Next, Progress

(* A pause the control plane acknowledged takes effect: from controlPoint on *)
(* nothing more is performed, no retry, handler or boundary stands in its    *)
(* way (isPaused ends the dispatch loop), and the run parks.                 *)
THEOREM PausesHonoured == Spec => PauseHonoured
<1>1. IInv /\ Answering /\ [Next]_vars => IInv' /\ Answering' /\ PauseKept
  BY StepShaped, AnsweringStep
<1>2. PauseKept =>
        [ acked = "pause" => clock' = clock /\ (acked' = "pause" \/ phase' = "paused") ]_vars
  BY DEF PauseKept
<1>3. QED
  BY <1>1, <1>2, InitShaped, AnsweringInit, PTL DEF Spec, PauseHonoured

(* A stop travels up to Run and lands it, performing nothing more, as long   *)
(* as no unit on its way up has an attempt left or a handler: those two are  *)
(* the only ways a stop is mistaken for an action's failure.                 *)
THEOREM StopsLand == Spec => StopLands
<1>1. IInv /\ Answering /\ [Next]_vars => IInv' /\ Answering' /\ (StopKept \/ UNCHANGED vars)
  BY StepShaped, AnsweringStep
<1>2. StopKept \/ UNCHANGED vars =>
        [ acked = "stop" /\ err.kind = "stopped" /\ (\A u \in {unit} \cup Enclosing[unit] : Final(u))
            => StopObeyed /\ err'.kind = "stopped" ]_vars
  BY DEF StopKept
<1>3. QED
  BY <1>1, <1>2, InitShaped, AnsweringInit, PTL DEF Spec, StopLands

-----------------------------------------------------------------------------
(* The run's condition.  Only the end of an unwind records a compensation    *)
(* failure, and a run that stopped is not dispatched again: so no transition *)
(* the executors make on their way can find the worst condition on record.   *)

Worst ==
  /\ \A x \in Executors : exec[x].condition = CompensationFailed => x = Top /\ phase = "stopped"
  /\ phase = "stopped" => pc \in {"idle", "unwinding"}

Worsens  == exec'[Top].condition >= exec[Top].condition
Unfailed == \A x \in Executors : exec'[x].condition # CompensationFailed

LEMMA WorstInit == Init => Worst
BY DEF Init, Worst, FreshStatus, Healthy, CompensationFailed

(* One flip of one executor's condition, in the direction Transition allows. *)
LEMMA FlipWorsens ==
  ASSUME IInv, \A x \in Executors : exec[x].condition # CompensationFailed,
         NEW x \in Executors, NEW policy, NEW reason,
         NEW condition \in Conditions \ {CompensationFailed}, Accepts(exec[x], condition),
         exec' = [exec EXCEPT ![x] = AfterTransition(@, policy, condition, reason)]
  PROVE  Worsens /\ Unfailed
<1>1. /\ \A y \in Executors : exec[y] \in Statuses /\ exec[y].condition \in Conditions
      /\ exec \in [Executors -> Statuses] /\ Top \in Executors
  BY RootTyped DEF IInv, TypeOK, Statuses
<1>2. AfterTransition(exec[x], policy, condition, reason).condition = condition
  BY DEF AfterTransition
<1>3. exec'[x].condition = condition /\ \A y \in Executors : y # x => exec'[y] = exec[y]
  BY <1>1, <1>2
<1>4. condition >= exec[x].condition
  BY DEF Accepts
<1>5. Worsens
  BY <1>1, <1>3, <1>4 DEF Worsens, Conditions, Healthy, CompensationFailed
<1>6. QED
  BY <1>3, <1>5 DEF Unfailed

(* A status whose reason alone changes, or a fresh one below the top. *)
LEMMA KeptWorsens ==
  ASSUME IInv, \A x \in Executors : exec[x].condition # CompensationFailed,
         exec' \in [Executors -> Statuses],
         \A x \in Executors : exec'[x].condition = exec[x].condition
                              \/ (x # Top /\ exec'[x] = FreshStatus)
  PROVE  Worsens /\ Unfailed
<1>1. exec[Top].condition \in Conditions /\ exec'[Top].condition = exec[Top].condition
  BY RootTyped DEF IInv, TypeOK, Statuses
<1>2. Worsens
  BY <1>1 DEF Worsens, Conditions, Healthy, CompensationFailed
<1>3. FreshStatus.condition # CompensationFailed
  BY DEF FreshStatus, Healthy, CompensationFailed
<1>4. QED
  BY <1>2, <1>3 DEF Unfailed

LEMMA FrameworkWorsens ==
  ASSUME IInv, \A x \in Executors : exec[x].condition # CompensationFailed,
         NEW x \in Executors, FrameworkFailure(x)
  PROVE  Worsens /\ Unfailed
<1>1. exec[x].condition \in Conditions
  BY DEF IInv, TypeOK, Statuses
<1>2. Accepts(exec[x], ExecutionFailed) /\ ExecutionFailed \in Conditions \ {CompensationFailed}
  BY <1>1 DEF Accepts, Conditions, Healthy, ExecutionFailed, CompensationFailed
<1>3. exec' = [exec EXCEPT ![x] =
                 AfterTransition(@, PolicyFor(unit), ExecutionFailed, "framework_failed")]
  BY DEF FrameworkFailure
<1>4. QED
  BY <1>2, <1>3, FlipWorsens

LEMMA AcknowledgeWorsens ==
  ASSUME IInv, \A x \in Executors : exec[x].condition # CompensationFailed,
         NEW x \in Executors, requests # <<>>, Acknowledge(x, Head(requests))
  PROVE  Worsens /\ Unfailed
<1>1. exec \in [Executors -> Statuses] /\ exec' \in [Executors -> Statuses]
  BY AcknowledgeTyped DEF IInv, TypeOK
<1>2. \/ exec' = exec
      \/ exec' = [exec EXCEPT ![x] = [@ EXCEPT !.reason = "paused"]]
      \/ exec' = [exec EXCEPT ![x] = [@ EXCEPT !.reason = "stopped"]]
  BY DEF Acknowledge
<1>3. \A y \in Executors : exec'[y].condition = exec[y].condition
  BY <1>1, <1>2 DEF Statuses
<1>4. QED
  BY <1>1, <1>3, KeptWorsens

LEMMA ExecutionWorsens ==
  ASSUME IInv, Worst, Execution
  PROVE  Worsens /\ Unfailed
<1>1. pc \in {"dispatch", "settled"}
  BY DEF Execution, ExitCancelled, ControlPoint, ReplayNode, PruneSubgraph, RunNode, AssertNode,
         UnboundNode, EnterSubgraph, ScopeFault, Entering, NodeMay, Clear, NextChild,
         ExitSubgraph, Panic
<1>2. /\ \A x \in Executors : exec[x].condition # CompensationFailed
      /\ exec \in [Executors -> Statuses]
      /\ unit \in Units /\ Owner(unit) \in Executors
  BY <1>1, OwnerTyped DEF Worst, IInv, TypeOK
<1>3. CASE ControlPoint
  BY <1>2, <1>3, AcknowledgeWorsens DEF ControlPoint
<1>4. ASSUME NEW outcome \in NodeOutcomes, AssertNode(outcome)
      PROVE  Worsens /\ Unfailed
  <2>1. AssertedCondition(outcome) \in Conditions \ {CompensationFailed}
    BY DEF AssertedCondition, Conditions, Healthy, Degraded, ExecutionFailed, CompensationFailed
  <2>2. QED
    BY <1>2, <1>4, <2>1, FlipWorsens DEF AssertNode
<1>5. CASE UnboundNode
  BY <1>2, <1>5, FrameworkWorsens DEF UnboundNode
<1>6. ASSUME NEW s \in Subgraphs, exec' = [exec EXCEPT ![s] = FreshStatus]
      PROVE  Worsens /\ Unfailed
  <2>1. s \in Executors /\ s # Top
    BY TreeAssumption DEF Executors, Units
  <2>2. QED
    BY <1>2, <1>6, <2>1, LiteralsTyped, KeptWorsens
<1>7. ASSUME NEW s \in Subgraphs, EnterSubgraph(s) \/ ScopeFault(s)
      PROVE  Worsens /\ Unfailed
  <2>1. Owner(s) \in Executors
    BY OwnerTyped DEF Units
  <2>2. exec' = [exec EXCEPT ![s] = FreshStatus] \/ FrameworkFailure(Owner(s))
    BY <1>7 DEF EnterSubgraph, ScopeFault
  <2>3. QED
    BY <1>2, <1>6, <2>1, <2>2, FrameworkWorsens
<1>8. CASE ExitSubgraph
  <2> DEFINE s == Owner(unit)
             x == Owner(s)
  <2>1. s \in Subgraphs /\ s \in Executors /\ x \in Executors
    BY <1>2, <1>8, OwnerTyped DEF ExitSubgraph, Units, Executors
  <2>2. exec[s].condition \in Conditions \ {CompensationFailed}
    BY <1>2, <2>1 DEF Statuses
  <2>3. CASE BubblesUp(s)
    <3>1. /\ Accepts(exec[x], exec[s].condition)
          /\ exec' = [exec EXCEPT ![x] = AfterTransition(@, PolicyFor(s),
                                            exec[s].condition, exec[s].reason)]
      BY <1>8, <2>3 DEF ExitSubgraph
    <3>2. PICK condition, reason : condition = exec[s].condition /\ reason = exec[s].reason
      OBVIOUS
    <3> HIDE DEF s, x
    <3>3. QED
      BY <1>2, <2>1, <2>2, <3>1, <3>2, FlipWorsens
  <2>4. CASE ~BubblesUp(s)
    BY <1>2, <1>8, <2>4, KeptWorsens DEF ExitSubgraph
  <2>5. QED
    BY <2>3, <2>4
<1>9. CASE UNCHANGED exec
  BY <1>2, <1>9, KeptWorsens
<1>10. QED
  BY <1>3, <1>4, <1>5, <1>7, <1>8, <1>9
  DEF Execution, ExitCancelled, ReplayNode, PruneSubgraph, RunNode, NextChild, Panic

LEMMA AdjudicationWorsens ==
  ASSUME IInv, Worst, Adjudication
  PROVE  Worsens /\ Unfailed
<1>1. pc \notin {"idle", "unwinding"}
  BY DEF Adjudication, Succeed, GiveUp, Retry, Exhaust, Adjudicated, HandlerInterrupted,
         HandlerReturns, Handling
<1>2. /\ \A x \in Executors : exec[x].condition # CompensationFailed
      /\ exec \in [Executors -> Statuses]
      /\ unit \in Units /\ Owner(unit) \in Executors
  BY <1>1, OwnerTyped DEF Worst, IInv, TypeOK
<1>3. CASE UNCHANGED exec
  BY <1>2, <1>3, KeptWorsens
<1>4. CASE HandlerInterrupted
  BY <1>2, <1>3, <1>4, AcknowledgeWorsens DEF HandlerInterrupted
<1>5. ASSUME NEW v \in HandlerVerdicts, HandlerReturns(v)
      PROVE  Worsens /\ Unfailed
  <2> DEFINE x == Owner(unit)
  <2>1. CASE Flips(v, x)
    <3>1. Accepts(exec[x], Degraded)
      <4>1. v = "degrade" /\ Verdict(v, x) # "error"
        BY <2>1 DEF Flips
      <4>2. CASE ~Accepts(exec[x], Degraded)
        <5>1. Verdict(v, x) = "error"
          BY <4>1, <4>2 DEF Verdict
        <5>2. QED
          BY <4>1, <5>1
      <4>3. QED
        BY <4>2
    <3>2. exec' = [exec EXCEPT ![x] = AfterTransition(@, RunPolicy, Degraded, "degraded")]
      BY <1>5, <2>1 DEF HandlerReturns
    <3>3. Degraded \in Conditions \ {CompensationFailed}
      BY DEF Degraded, Conditions, Healthy, CompensationFailed
    <3>4. QED
      BY <1>2, <3>1, <3>2, <3>3, FlipWorsens
  <2>2. CASE ~Flips(v, x)
    BY <1>3, <1>5, <2>2 DEF HandlerReturns
  <2>3. QED
    BY <2>1, <2>2
<1>6. QED
  BY <1>3, <1>4, <1>5 DEF Adjudication, Succeed, GiveUp, Retry, Exhaust

(* An unwind lands on a condition no better, unless it cleared the failure. *)
LEMMA LandWorsens ==
  ASSUME IInv, Land
  PROVE  /\ Worsens \/ exec'[Top].reason = "unwound"
         /\ \A x \in Executors : x # Top => exec'[x] = exec[x]
<1>1. exec \in [Executors -> Statuses] /\ exec[Top] \in Statuses /\ Top \in Executors
  BY RootTyped DEF IInv, TypeOK
<1>2. exec' = [exec EXCEPT ![Top] = LandedStatus]
  BY DEF Land
<1>3. exec'[Top] = LandedStatus /\ \A x \in Executors : x # Top => exec'[x] = exec[x]
  BY <1>1, <1>2
<1>4. exec[Top].condition \in Conditions /\ exec[Top].condition \in 0 .. 3
  BY <1>1 DEF Statuses, Conditions, Healthy, CompensationFailed
<1>5. LandedStatus.condition >= exec[Top].condition \/ LandedStatus.reason = "unwound"
  <2> DEFINE implied == ConditionForReason(FailureReason(err))
             status == exec[Top]
  <2>1. implied \in 0 .. 3
    BY FailureTyped DEF IInv, TypeOK, Conditions, Healthy, CompensationFailed
  <2> HIDE DEF implied
  <2>2. CASE Frame.dirty
    <3>1. LandedStatus = [status EXCEPT !.condition = CompensationFailed,
                                        !.reason = "compensation_failed"]
      BY <2>2, Zenon DEF LandedStatus
    <3>2. QED
      BY <1>1, <1>4, <3>1 DEF Statuses, CompensationFailed
  <2>3. CASE ~Frame.dirty /\ err.kind = "none"
    BY <1>1, <2>3 DEF LandedStatus, Statuses
  <2>4. CASE ~Frame.dirty /\ err.kind = "stopped"
    BY <1>1, <1>4, <2>4 DEF LandedStatus, Statuses
  <2>5. CASE ~Frame.dirty /\ err.kind \notin {"none", "stopped"}
    <3>1. LandedStatus = IF status.condition > implied THEN status
                         ELSE [status EXCEPT !.condition = implied,
                                             !.reason = FailureReason(err)]
      BY <2>5 DEF LandedStatus, implied
    <3>2. CASE status.condition > implied
      BY <1>4, <3>1, <3>2
    <3>3. CASE ~(status.condition > implied)
      BY <1>1, <1>4, <2>1, <3>1, <3>3 DEF Statuses
    <3>4. QED
      BY <3>2, <3>3
  <2>6. QED
    BY <2>2, <2>3, <2>4, <2>5
<1>6. QED
  BY <1>3, <1>5 DEF Worsens

LEMMA WorstStep ==
  ASSUME IInv, Worst, [Next]_vars
  PROVE  Worst' /\ (Worsens \/ exec'[Top].reason = "unwound")
<1>1. /\ exec \in [Executors -> Statuses] /\ Top \in Executors
      /\ exec[Top].condition \in 0 .. 3
  BY RootTyped DEF IInv, TypeOK, Statuses, Conditions, Healthy, CompensationFailed
<1>2. CASE Execution
  <2>1. pc \in {"dispatch", "settled"} /\ pc' # "idle" /\ phase' # "stopped"
    BY <1>2
    DEF Execution, ExitCancelled, ControlPoint, ReplayNode, PruneSubgraph, RunNode, AssertNode,
        UnboundNode, EnterSubgraph, ScopeFault, Entering, NodeMay, Clear, NextChild,
        ExitSubgraph, Panic, Returned, Settled, DispatchUnit, FrameworkFailure, Acknowledge, Worst
  <2>2. QED
    BY <1>2, <2>1, ExecutionWorsens DEF Worst, Unfailed
<1>3. CASE Adjudication
  <2>1. phase' # "stopped"
    BY <1>3
    DEF Adjudication, Succeed, GiveUp, Retry, Exhaust, Adjudicated, HandlerInterrupted,
        HandlerReturns, Handling, Acknowledge, Worst
  <2>2. QED
    BY <1>3, <2>1, AdjudicationWorsens DEF Worst, Unfailed
<1>4. CASE Ending
  <2>1. CASE Complete
    BY <1>1, <2>1 DEF Complete, RunReturned, Worst, Worsens
  <2>2. CASE Park
    <3>1. \A x \in Executors : exec'[x].condition = exec[x].condition
      BY <1>1, <2>2 DEF Park, Statuses
    <3>2. QED
      BY <1>1, <2>2, <3>1 DEF Park, RunReturned, Worst, Worsens
  <2>3. CASE Fail \/ SkipEntry \/ (\E fails \in BOOLEAN : Compensate(fails)) \/ Descend \/ Ascend
    <3>1. UNCHANGED <<exec, phase>> /\ pc' = "unwinding"
      BY <2>3 DEF Fail, BeginUnwind, SkipEntry, Compensate, Descend, Ascend, Unwinding
    <3>2. QED
      BY <1>1, <3>1 DEF Worst, Worsens
  <2>4. CASE Land
    BY <2>4, LandWorsens DEF Land, Worst
  <2>5. QED
    BY <1>4, <2>1, <2>2, <2>3, <2>4 DEF Ending
<1>5. CASE Host
  <2>1. CASE Start
    BY <1>1, <2>1 DEF Start, DispatchUnit, Worst, Worsens
  <2>2. CASE StartRefused \/ ResumeRefused
    <3>1. exec[Top].condition \in 0 .. 2 /\ pc = "idle"
      BY <1>1, <2>2 DEF Worst, StartRefused, ResumeRefused, CompensationFailed, IInv, Unstarted
    <3>2. /\ exec'[Top].condition = ExecutionFailed
          /\ \A x \in Executors : x # Top => exec'[x] = exec[x]
          /\ phase' = "stopped" /\ pc' = pc
      BY <1>1, <2>2 DEF StartRefused, ResumeRefused, LandPreflightFailure, Statuses
    <3>3. QED
      BY <3>1, <3>2 DEF Worst, Worsens, ExecutionFailed
  <2>3. ASSUME NEW mode \in ResumeModes, Resume(mode)
        PROVE  Worst' /\ Worsens
    <3>1. \A x \in Executors : exec'[x].condition = exec[x].condition
      BY <1>1, <2>3 DEF Resume, Statuses
    <3>2. QED
      BY <1>1, <2>3, <3>1 DEF Resume, Worst, Worsens
  <2>4. CASE ResumeUnwind
    BY <1>1, <2>4 DEF ResumeUnwind, BeginUnwind, Worst, Worsens
  <2>5. QED
    BY <1>5, <2>1, <2>2, <2>3, <2>4 DEF Host
<1>6. CASE Consumer \/ UNCHANGED vars
  BY <1>1, <1>6 DEF Consumer, Cancel, Request, vars, Worst, Worsens
<1>7. QED
  BY <1>2, <1>3, <1>4, <1>5, <1>6 DEF Next, Progress

(* Severity is ratcheted: whatever nodes assert, handlers degrade, bodies    *)
(* bubble up and unwinds land on, the run's condition never gets better,     *)
(* except where a resumed unwind has cleared a compensation failure.         *)
THEOREM ConditionsWorsen == Spec => ConditionOnlyWorsens
<1>1. IInv /\ Worst /\ [Next]_vars =>
        IInv' /\ Worst' /\ (Worsens \/ exec'[Top].reason = "unwound")
  BY StepShaped, WorstStep
<1>2. Worsens \/ exec'[Top].reason = "unwound" =>
        [ exec'[Top].condition >= exec[Top].condition \/ exec'[Top].reason = "unwound" ]_vars
  BY DEF Worsens
<1>3. QED
  BY <1>1, <1>2, InitShaped, WorstInit, PTL DEF Spec, ConditionOnlyWorsens

-----------------------------------------------------------------------------
(* Reaching every journal.  A stack that is not empty is nested in the stack *)
(* of every boundary around it, or that boundary is still executing; and an  *)
(* unwind that has met no failure has left nothing behind it, neither on the *)
(* entries it walked past nor on the stacks nested in them.                  *)

Attached  == \A x \in Executors : stack[x] # <<>> => Reached(x)
Journaled == \A e \in outstanding : \E x \in Executors : e \in EffectsOn(stack[x])

Undone(entry) ==
  /\ entry.token # 0 => EffectOf(entry) \notin outstanding
  /\ entry.kind = "stack" => \A x \in Within(entry.unit) : stack[x] = <<>>

Descent ==
  /\ cursor # <<>> => cursor[1].of = Top
  /\ \A j, k \in DOMAIN cursor : k = j + 1 =>
       /\ stack[cursor[j].of][cursor[j].at].kind = "stack"
       /\ stack[cursor[j].of][cursor[j].at].unit = cursor[k].of
  /\ \A k \in DOMAIN cursor : ~cursor[k].dirty =>
       \A i \in DOMAIN stack[cursor[k].of] :
         i > cursor[k].at => Undone(stack[cursor[k].of][i])

(* A boundary that fails its claims, or has no action, while effects of an   *)
(* earlier dispatch stand on the stack it has just adopted.                  *)
Loses == \E s \in Subgraphs : \E x \in Within(s) :
           ScopeFault(s) /\ outstanding \cap EffectsOn(stack[x]) # {}

(* The tree, seen from a unit and from a boundary. *)
LEMMA ChildOf ==
  ASSUME NEW s \in Subgraphs, NEW i \in DOMAIN Children[s]
  PROVE  /\ Children[s][i] \in Units \ {Root}
         /\ Owner(Children[s][i]) = s /\ Position(Children[s][i]) = i
<1> DEFINE u == Children[s][i]
<1>1. Children[s] \in Seq(Units \ {Root}) /\ u \in Units \ {Root} /\ u \in Range(Children[s])
  BY TreeAssumption DEF Range
<1>2. PICK t \in Subgraphs : {r \in Subgraphs : u \in Range(Children[r])} = {t}
  BY <1>1, TreeAssumption
<1>3. s = t /\ Owner(u) \in Subgraphs /\ u \in Range(Children[Owner(u)])
  BY <1>1, <1>2, OwnerTyped
<1>4. Owner(u) = s
  BY <1>2, <1>3
<1>5. Position(u) \in DOMAIN Children[s] /\ Children[s][Position(u)] = u
  <2>1. Position(u) \in 1 .. Len(Children[s]) /\ Children[s][Position(u)] = u
    BY <1>1, <1>4, PositionTyped
  <2>2. QED
    BY <1>1, <2>1
<1>6. IsInjective(Children[s])
  BY TreeAssumption
<1>7. Position(u) = i
  BY <1>5, <1>6 DEF IsInjective
<1>8. QED
  BY <1>1, <1>4, <1>7

LEMMA EnclosingOf ==
  ASSUME NEW u \in Units
  PROVE  /\ Enclosing[u] \subseteq Subgraphs /\ u \notin Enclosing[u]
         /\ u = Root => Owner(u) = Top /\ Enclosing[u] = {}
         /\ u # Root => /\ Owner(u) \in Subgraphs /\ Owner(u) \in Units
                        /\ Enclosing[u] = {Owner(u)} \cup Enclosing[Owner(u)]
                        /\ Root \in Enclosing[u]
         /\ \A s \in Enclosing[u] : Enclosing[s] \subseteq Enclosing[u]
<1>1. Enclosing \in [Units -> SUBSET Subgraphs] /\ Enclosing[Root] = {}
  BY TreeAssumption
<1>2. CASE u = Root
  BY <1>1, <1>2 DEF Owner
<1>3. CASE u # Root
  BY <1>1, <1>3, OwnerTyped, TreeAssumption DEF Units
<1>4. QED
  BY <1>2, <1>3

(* The way down from a boundary to one within it starts with a child of it. *)
LEMMA WayDown ==
  ASSUME NEW x \in Subgraphs, NEW f \in {Top} \cup Enclosing[x]
  PROVE  \E c \in {x} \cup Enclosing[x] : Owner(c) = f
<1>1. CASE x = Root \/ f = Top
  BY <1>1, EnclosingOf, RootTyped DEF Units
<1>2. CASE x # Root /\ f \in Enclosing[x]
  <2>1. Enclosing[x] = {Owner(c) : c \in ({x} \cup Enclosing[x]) \ {Root}}
    BY <1>2, TreeAssumption DEF Units
  <2>2. QED
    BY <1>2, <2>1
<1>3. QED
  BY <1>1, <1>2

(* Where the newest nested stack of a boundary is. *)
LEMMA PriorPlace ==
  ASSUME StacksOwned, NEW s \in Subgraphs
  PROVE  /\ Prior(s) = 0 <=> ~Linked(s)
         /\ Prior(s) # 0 =>
              /\ Prior(s) \in DOMAIN stack[Owner(s)]
              /\ stack[Owner(s)][Prior(s)].kind = "stack"
              /\ stack[Owner(s)][Prior(s)].unit = s
              /\ \A j \in DOMAIN stack[Owner(s)] :
                   stack[Owner(s)][j].kind = "stack" /\ stack[Owner(s)][j].unit = s
                     => j <= Prior(s)
<1> DEFINE entries == stack[Owner(s)]
           places == {i \in DOMAIN entries : entries[i].unit = s /\ entries[i].kind = "stack"}
<1>1. entries \in Seq(Entries) /\ Len(entries) \in Nat /\ DOMAIN entries = 1 .. Len(entries)
  BY OwnerTyped DEF StacksOwned, Journal, Units
<1>2. places \in SUBSET (1 .. Len(entries)) /\ (Linked(s) <=> places # {})
  BY <1>1 DEF Linked
<1>3. Prior(s) = IF places = {} THEN 0
                 ELSE CHOOSE i \in places : \A j \in places : j <= i
  BY DEF Prior, LastOf
<1>4. CASE places = {}
  BY <1>2, <1>3, <1>4
<1>5. CASE places # {}
  <2>1. \E i \in places : \A j \in places : j <= i
    <3> HIDE DEF places
    <3> QED  BY <1>1, <1>2, <1>5, LastPlace
  <2>2. Prior(s) \in places /\ \A j \in places : j <= Prior(s)
    <3> HIDE DEF places
    <3> QED  BY <1>3, <1>5, <2>1
  <2>3. Prior(s) # 0
    BY <1>1, <2>2
  <2>4. QED
    BY <1>2, <1>5, <2>2, <2>3
<1>6. QED
  BY <1>4, <1>5

LEMMA RemovedAt ==
  ASSUME NEW S, NEW seq \in Seq(S), NEW n \in 1 .. Len(seq)
  PROVE  /\ RemoveAt(seq, n) \in Seq(S) /\ Len(RemoveAt(seq, n)) = Len(seq) - 1
         /\ \A i \in 1 .. Len(seq) - 1 :
              RemoveAt(seq, n)[i] = IF i < n THEN seq[i] ELSE seq[i + 1]
<1> DEFINE before == SubSeq(seq, 1, n - 1)
           after  == SubSeq(seq, n + 1, Len(seq))
<1>1. Len(seq) \in Nat /\ \A i \in 1 .. Len(seq) : seq[i] \in S
  OBVIOUS
<1>2. /\ before \in Seq(S) /\ Len(before) = n - 1
      /\ \A i \in 1 .. n - 1 : before[i] = seq[i]
  BY <1>1, SubSeqProperties
<1>3. /\ after \in Seq(S) /\ Len(after) = Len(seq) - n
      /\ \A i \in 1 .. Len(seq) - n : after[i] = seq[n + i]
  BY <1>1, SubSeqProperties
<1>4. RemoveAt(seq, n) = before \o after
  BY DEF RemoveAt
<1> HIDE DEF before, after
<1>5. /\ before \o after \in Seq(S)
      /\ Len(before \o after) = Len(before) + Len(after)
      /\ \A i \in 1 .. Len(before) + Len(after) : (before \o after)[i] =
            IF i <= Len(before) THEN before[i] ELSE after[i - Len(before)]
  BY <1>2, <1>3, ConcatProperties
<1>6. Len(before \o after) = Len(seq) - 1
  BY <1>1, <1>2, <1>3, <1>5
<1>7. ASSUME NEW i \in 1 .. Len(seq) - 1
      PROVE  (before \o after)[i] = IF i < n THEN seq[i] ELSE seq[i + 1]
  <2>1. (before \o after)[i] = IF i <= n - 1 THEN before[i] ELSE after[i - (n - 1)]
    BY <1>1, <1>2, <1>3, <1>5
  <2>2. CASE i < n
    BY <1>2, <2>1, <2>2
  <2>3. CASE ~(i < n)
    <3>1. i - (n - 1) \in 1 .. Len(seq) - n /\ n + (i - (n - 1)) = i + 1
      BY <1>1, <2>3
    <3>2. QED
      BY <1>3, <2>1, <2>3, <3>1
  <2>4. QED
    BY <2>2, <2>3
<1>8. QED
  BY <1>4, <1>5, <1>6, <1>7

(* The stale entry of an adopted stack is the one removed, and none other. *)
LEMMA SupersededAt ==
  ASSUME StacksOwned, NEW s \in Subgraphs
  PROVE  /\ Prior(s) = 0 => Superseded(s) = stack[Owner(s)]
         /\ Prior(s) # 0 => \E place \in 1 .. Len(stack[Owner(s)]) :
              /\ stack[Owner(s)][place].unit = s /\ Prior(s) <= place
              /\ Superseded(s) = RemoveAt(stack[Owner(s)], place)
<1> DEFINE entries == stack[Owner(s)]
           ofUnit  == {i \in DOMAIN entries : entries[i].unit = s}
           place == CHOOSE i \in DOMAIN entries :
                        /\ entries[i].unit = s
                        /\ \A j \in DOMAIN entries : entries[j].unit = s => j <= i
<1>1. entries \in Seq(Entries) /\ Len(entries) \in Nat /\ DOMAIN entries = 1 .. Len(entries)
  BY OwnerTyped DEF StacksOwned, Journal, Units
<1>2. CASE Prior(s) # 0
  <2>1. Prior(s) \in ofUnit
    BY <1>2, PriorPlace
  <2>2. ofUnit \in SUBSET (1 .. Len(entries)) /\ ofUnit # {}
    BY <1>1, <2>1
  <2>3. \E i \in ofUnit : \A j \in ofUnit : j <= i
    <3> HIDE DEF ofUnit
    <3> QED  BY <1>1, <2>2, LastPlace
  <2>4. /\ place \in DOMAIN entries /\ entries[place].unit = s
        /\ \A j \in DOMAIN entries : entries[j].unit = s => j <= place
    BY <1>1, <2>3
  <2>5. Superseded(s) = RemoveAt(entries, place)
    BY <1>2 DEF Superseded
  <2> HIDE DEF place
  <2>6. QED
    BY <1>1, <1>2, <2>1, <2>4, <2>5
<1>3. QED
  BY <1>2 DEF Superseded

LEMMA SupersededKeeps ==
  ASSUME StacksOwned, NEW s \in Subgraphs, NEW i \in DOMAIN stack[Owner(s)],
         stack[Owner(s)][i].unit # s
  PROVE  \E j \in DOMAIN Superseded(s) : Superseded(s)[j] = stack[Owner(s)][i]
<1> DEFINE entries == stack[Owner(s)]
<1>1. entries \in Seq(Entries) /\ Len(entries) \in Nat /\ DOMAIN entries = 1 .. Len(entries)
  BY OwnerTyped DEF StacksOwned, Journal, Units
<1>2. CASE Prior(s) = 0
  BY <1>2, SupersededAt
<1>3. CASE Prior(s) # 0
  <2>1. PICK place \in 1 .. Len(entries) :
          entries[place].unit = s /\ Superseded(s) = RemoveAt(entries, place)
    BY <1>3, SupersededAt
  <2> DEFINE kept == RemoveAt(entries, place)
  <2>2. /\ Len(kept) = Len(entries) - 1 /\ DOMAIN kept = 1 .. Len(entries) - 1
        /\ \A k \in 1 .. Len(entries) - 1 :
              kept[k] = IF k < place THEN entries[k] ELSE entries[k + 1]
    <3>1. PICK seq \in Seq(Entries) : seq = entries
      BY <1>1
    <3>2. place \in 1 .. Len(seq)
      BY <3>1
    <3>3. /\ RemoveAt(seq, place) \in Seq(Entries) /\ Len(RemoveAt(seq, place)) = Len(seq) - 1
          /\ \A k \in 1 .. Len(seq) - 1 :
               RemoveAt(seq, place)[k] = IF k < place THEN seq[k] ELSE seq[k + 1]
      BY <3>2, RemovedAt
    <3>4. kept = RemoveAt(seq, place)
      BY <3>1
    <3> HIDE DEF kept
    <3>5. DOMAIN kept = 1 .. Len(kept)
      BY <3>3, <3>4
    <3> HIDE DEF entries
    <3>6. QED
      BY <3>1, <3>3, <3>4, <3>5
  <2>3. i # place /\ i \in 1 .. Len(entries)
    BY <1>1, <2>1
  <2> HIDE DEF kept
  <2>4. CASE i < place
    <3>1. i \in 1 .. Len(entries) - 1
      BY <1>1, <2>1, <2>3, <2>4
    <3>2. QED
      BY <2>1, <2>2, <2>4, <3>1 DEF kept
  <2>5. CASE i > place
    <3>1. i - 1 \in 1 .. Len(entries) - 1 /\ ~(i - 1 < place) /\ (i - 1) + 1 = i
      BY <1>1, <2>1, <2>3, <2>5
    <3>2. kept[i - 1] = entries[i]
      BY <2>2, <3>1
    <3>3. QED
      BY <2>1, <2>2, <3>1, <3>2 DEF kept
  <2>6. QED
    BY <1>1, <2>1, <2>3, <2>4, <2>5
<1>4. QED
  BY <1>2, <1>3

(* Appending leaves every entry in place. *)
LEMMA AppendKeeps ==
  ASSUME IInv, NEW x \in Executors, NEW entry, OwnedBy(x, entry),
         stack' = [stack EXCEPT ![x] = Append(@, entry)]
  PROVE  /\ \A y \in Executors : y # x => stack'[y] = stack[y]
         /\ Len(stack'[x]) = Len(stack[x]) + 1 /\ stack'[x][Len(stack[x]) + 1] = entry
         /\ DOMAIN stack'[x] = 1 .. Len(stack[x]) + 1 /\ DOMAIN stack[x] = 1 .. Len(stack[x])
         /\ Len(stack[x]) \in Nat
         /\ \A i \in DOMAIN stack[x] : stack'[x][i] = stack[x][i]
<1>1. stack \in [Executors -> Seq(Entries)] /\ entry \in Entries /\ stack[x] \in Seq(Entries)
  BY DEF IInv, TypeOK, OwnedBy
<1>2. stack'[x] = Append(stack[x], entry)
  BY <1>1
<1>3. \A y \in Executors : y # x => stack'[y] = stack[y]
  BY <1>1
<1>4. /\ Len(stack[x]) \in Nat /\ DOMAIN stack[x] = 1 .. Len(stack[x])
      /\ stack'[x] \in Seq(Entries) /\ Len(stack'[x]) = Len(stack[x]) + 1
      /\ stack'[x][Len(stack[x]) + 1] = entry
      /\ \A i \in 1 .. Len(stack[x]) : stack'[x][i] = stack[x][i]
  BY <1>1, <1>2, AppendProperties
<1>5. QED
  BY <1>3, <1>4

-----------------------------------------------------------------------------
(* Attached is kept by every step. *)

Walking == pc \notin {"idle", "unwinding"}

LEMMA AttachedIf ==
  ASSUME Attached,
         \A x \in Subgraphs : stack'[x] # <<>> =>
            \/ \A s \in {x} \cup Enclosing[x] : Executing(s)'
            \/ /\ stack[x] # <<>>
               /\ \A s \in {x} \cup Enclosing[x] :
                    Linked(s) \/ Executing(s) => Linked(s)' \/ Executing(s)'
  PROVE  Attached'
BY DEF Attached, Reached, Executors

LEMMA AttachedQuietly ==
  ASSUME Attached, UNCHANGED stack, \A s \in Subgraphs : Executing(s) => Executing(s)'
  PROVE  Attached'
<1>1. ASSUME NEW x \in Subgraphs, NEW s \in {x} \cup Enclosing[x], Linked(s) \/ Executing(s)
      PROVE  Linked(s)' \/ Executing(s)'
  <2>1. s \in Subgraphs
    BY EnclosingOf DEF Units
  <2>2. Linked(s) => Linked(s)'
    BY DEF Linked
  <2>3. QED
    BY <1>1, <2>1, <2>2
<1>2. QED
  BY <1>1, AttachedIf

(* An entry appended to the stack of the executor at work, or of the one     *)
(* whose boundary returns.                                                   *)
LEMMA AttachedAppend ==
  ASSUME IInv, Attached, NEW x0 \in Executors, NEW entry, OwnedBy(x0, entry),
         stack' = [stack EXCEPT ![x0] = Append(@, entry)],
         x0 # Top => \A s \in {x0} \cup Enclosing[x0] : Executing(s)',
         \A s \in Subgraphs : Executing(s) => Linked(s)' \/ Executing(s)'
  PROVE  Attached'
<1>1. ASSUME NEW s \in Subgraphs, Linked(s) PROVE Linked(s)'
  <2>1. PICK i \in DOMAIN stack[Owner(s)] :
          stack[Owner(s)][i].kind = "stack" /\ stack[Owner(s)][i].unit = s
    BY <1>1 DEF Linked
  <2>2. Owner(s) \in Executors
    BY OwnerTyped DEF Units
  <2>3. i \in DOMAIN stack'[Owner(s)] /\ stack'[Owner(s)][i] = stack[Owner(s)][i]
    BY <2>1, <2>2, AppendKeeps
  <2>4. QED
    BY <2>1, <2>3 DEF Linked
<1>2. ASSUME NEW x \in Subgraphs, stack'[x] # <<>>
      PROVE  \/ \A s \in {x} \cup Enclosing[x] : Executing(s)'
             \/ /\ stack[x] # <<>>
                /\ \A s \in {x} \cup Enclosing[x] :
                     Linked(s) \/ Executing(s) => Linked(s)' \/ Executing(s)'
  <2>1. x \in Executors /\ x # Top /\ {x} \cup Enclosing[x] \subseteq Subgraphs
    BY EnclosingOf, TreeAssumption DEF Executors, Units
  <2>2. CASE x = x0
    BY <2>1, <2>2
  <2>3. CASE x # x0
    BY <1>1, <1>2, <2>1, <2>3, AppendKeeps
  <2>4. QED
    BY <2>2, <2>3
<1>3. QED
  BY <1>2, AttachedIf

LEMMA AttachedEnter ==
  ASSUME IInv, Attached, NEW s \in Subgraphs, EnterSubgraph(s)
  PROVE  Attached'
<1> DEFINE o == Owner(s)
<1>1. /\ unit = s /\ pc = "dispatch" /\ pc' = "dispatch"
      /\ unit' \in Units \ {Root} /\ Owner(unit') = s
  <2>1. unit' = Children[s][1] /\ 1 \in DOMAIN Children[s]
    <3>1. Children[s] \in Seq(Units) /\ Children[s] # <<>>
      BY TreeAssumption
    <3>2. QED
      BY <3>1 DEF EnterSubgraph, DispatchUnit
  <2>2. QED
    BY <2>1, ChildOf DEF EnterSubgraph, Entering, Clear, DispatchUnit
<1>2. Enclosing[unit'] = {s} \cup Enclosing[s]
  BY <1>1, EnclosingOf
<1>3. \A t \in {s} \cup Enclosing[s] : Executing(t)'
  BY <1>1, <1>2 DEF Executing
<1>4. /\ o \in Executors /\ o # s /\ s \in Executors
      /\ o # Top => {o} \cup Enclosing[o] \subseteq Enclosing[s]
  <2>1. CASE s = Root
    BY <2>1, EnclosingOf, RootTyped, TreeAssumption DEF Executors
  <2>2. CASE s # Root
    BY <2>2, EnclosingOf DEF Executors, Units
  <2>3. QED
    BY <2>1, <2>2
<1>5. /\ stack \in [Executors -> Seq(Entries)] /\ StacksOwned
      /\ stack' = [stack EXCEPT ![o] = Superseded(s), ![s] = ChildStack(s)]
  BY DEF IInv, TypeOK, EnterSubgraph
<1>6. /\ stack'[o] = Superseded(s) /\ stack'[s] = ChildStack(s)
      /\ \A y \in Executors : y \notin {o, s} => stack'[y] = stack[y]
  BY <1>4, <1>5
<1>7. stack'[s] = stack[s]
  <2>1. CASE Prior(s) # 0
    BY <1>6, <2>1 DEF ChildStack
  <2>2. CASE Prior(s) = 0
    <3>1. ~Linked(s) /\ ~Executing(s)
      BY <1>1, <1>5, <2>2, PriorPlace, EnclosingOf DEF Executing, Units
    <3>2. stack[s] = <<>>
      BY <1>4, <3>1, TreeAssumption DEF Attached, Reached, Units
    <3>3. QED
      BY <1>6, <2>2, <3>2 DEF ChildStack
  <2>3. QED
    BY <2>1, <2>2
<1>8. ASSUME NEW t \in Subgraphs, t # s, Linked(t) PROVE Linked(t)'
  <2>1. PICK i \in DOMAIN stack[Owner(t)] :
          stack[Owner(t)][i].kind = "stack" /\ stack[Owner(t)][i].unit = t
    BY <1>8 DEF Linked
  <2>2. Owner(t) \in Executors
    BY OwnerTyped DEF Units
  <2>3. CASE Owner(t) = o
    <3>1. \E j \in DOMAIN Superseded(s) : Superseded(s)[j] = stack[o][i]
      BY <1>5, <1>8, <2>1, <2>3, SupersededKeeps
    <3>2. QED
      BY <1>6, <2>1, <2>3, <3>1 DEF Linked
  <2>4. CASE Owner(t) # o
    <3>1. stack'[Owner(t)] = stack[Owner(t)]
      BY <1>6, <1>7, <2>2, <2>4
    <3>2. QED
      BY <2>1, <3>1 DEF Linked
  <2>5. QED
    BY <2>3, <2>4
<1>9. ASSUME NEW x \in Subgraphs, stack'[x] # <<>>
      PROVE  \/ \A t \in {x} \cup Enclosing[x] : Executing(t)'
             \/ /\ stack[x] # <<>>
                /\ \A t \in {x} \cup Enclosing[x] :
                     Linked(t) \/ Executing(t) => Linked(t)' \/ Executing(t)'
  <2>1. x \in Executors /\ x # Top /\ {x} \cup Enclosing[x] \subseteq Subgraphs
    BY EnclosingOf, TreeAssumption DEF Executors, Units
  <2>2. CASE x = o
    BY <1>3, <1>4, <2>1, <2>2
  <2>3. CASE x # o
    <3>1. stack[x] # <<>>
      BY <1>6, <1>7, <1>9, <2>1, <2>3
    <3>2. \A t \in Subgraphs : Executing(t) => Executing(t)'
      BY <1>1, <1>2 DEF Executing
    <3>3. Executing(s)'
      BY <1>3
    <3>4. QED
      BY <1>8, <2>1, <3>1, <3>2, <3>3
  <2>4. QED
    BY <2>2, <2>3
<1>10. QED
  BY <1>9, AttachedIf

LEMMA AttachedFault ==
  ASSUME IInv, Attached, NEW s \in Subgraphs, ScopeFault(s)
  PROVE  Attached'
<1> DEFINE o == Owner(s)
<1>1. unit = s /\ unit' = s /\ pc = "dispatch" /\ pc' = "returned"
  BY DEF ScopeFault, Entering, Clear, Returned, FrameworkFailure
<1>2. /\ o \in Executors /\ s \in Executors
      /\ o # Top => {o} \cup Enclosing[o] \subseteq Enclosing[s]
  <2>1. CASE s = Root
    BY <2>1, EnclosingOf, RootTyped DEF Executors
  <2>2. CASE s # Root
    BY <2>2, EnclosingOf DEF Executors, Units
  <2>3. QED
    BY <2>1, <2>2
<1>3. stack \in [Executors -> Seq(Entries)] /\ StacksOwned
  BY DEF IInv, TypeOK
<1>4. PICK entries :
         /\ entries \in {Superseded(s), Append(Superseded(s), Receipt(s, "failed", 0))}
         /\ Drop(s, entries)
  BY DEF ScopeFault
<1>5. /\ stack'[o] = entries
      /\ \A y \in Executors \ {o} : stack'[y] = IF y \in Within(s) THEN <<>> ELSE stack[y]
  BY <1>2, <1>4 DEF Drop
<1>6. Superseded(s) \in Seq(Entries) /\ Receipt(s, "failed", 0) \in Entries
  BY <1>3, SupersededOwned DEF Journal, Receipt, Entries, ErrorKinds, Units
<1>7. \A j \in DOMAIN Superseded(s) : j \in DOMAIN entries /\ entries[j] = Superseded(s)[j]
  <2>1. CASE entries = Superseded(s)
    BY <2>1
  <2>2. CASE entries = Append(Superseded(s), Receipt(s, "failed", 0))
    BY <1>6, <2>2, AppendProperties
  <2>3. QED
    BY <1>4, <2>1, <2>2
<1>8. ASSUME NEW t \in Subgraphs, t # s, s \notin Enclosing[t], Linked(t) PROVE Linked(t)'
  <2>1. PICK i \in DOMAIN stack[Owner(t)] :
          stack[Owner(t)][i].kind = "stack" /\ stack[Owner(t)][i].unit = t
    BY <1>8 DEF Linked
  <2>2. Owner(t) \in Executors
    BY OwnerTyped DEF Units
  <2>3. CASE Owner(t) = o
    <3>1. PICK j \in DOMAIN Superseded(s) : Superseded(s)[j] = stack[o][i]
      BY <1>3, <1>8, <2>1, <2>3, SupersededKeeps
    <3>2. j \in DOMAIN stack'[o] /\ stack'[o][j] = stack[o][i]
      BY <1>5, <1>7, <3>1
    <3>3. QED
      BY <2>1, <2>3, <3>2 DEF Linked
  <2>4. CASE Owner(t) # o
    <3>1. Owner(t) \notin Within(s)
      <4>1. CASE t = Root
        BY <4>1, EnclosingOf, TreeAssumption DEF Within, Units
      <4>2. CASE t # Root
        BY <1>8, <4>2, EnclosingOf DEF Within, Units
      <4>3. QED
        BY <4>1, <4>2
    <3>2. stack'[Owner(t)] = stack[Owner(t)]
      BY <1>5, <2>2, <2>4, <3>1
    <3>3. QED
      BY <2>1, <3>2 DEF Linked
  <2>5. QED
    BY <2>3, <2>4
<1>9. ASSUME NEW x \in Subgraphs, stack'[x] # <<>>
      PROVE  \/ \A t \in {x} \cup Enclosing[x] : Executing(t)'
             \/ /\ stack[x] # <<>>
                /\ \A t \in {x} \cup Enclosing[x] :
                     Linked(t) \/ Executing(t) => Linked(t)' \/ Executing(t)'
  <2>1. x \in Executors /\ x # Top /\ {x} \cup Enclosing[x] \subseteq Subgraphs
    BY EnclosingOf, TreeAssumption DEF Executors, Units
  <2>2. CASE x = o
    BY <1>1, <1>2, <2>1, <2>2 DEF Executing
  <2>3. CASE x # o
    <3>1. x \notin Within(s) /\ stack[x] # <<>>
      BY <1>5, <1>9, <2>1, <2>3
    <3>2. \A t \in {x} \cup Enclosing[x] : t # s /\ s \notin Enclosing[t]
      BY <2>1, <3>1, EnclosingOf DEF Within, Units
    <3>3. \A t \in Subgraphs : Executing(t) => Executing(t)'
      BY <1>1 DEF Executing
    <3>4. QED
      BY <1>8, <2>1, <3>1, <3>2, <3>3
  <2>4. QED
    BY <2>2, <2>3
<1>10. QED
  BY <1>9, AttachedIf

LEMMA AttachedNode ==
  ASSUME IInv, Attached, NEW entry, OwnedBy(Owner(unit), entry), unit \in Nodes,
         stack' = [stack EXCEPT ![Owner(unit)] = Append(@, entry)],
         unit' = unit, Walking, Walking'
  PROVE  Attached'
<1>1. unit \in Units /\ unit # Root
  BY TreeAssumption DEF Units
<1>2. Owner(unit) \in Executors /\ Enclosing[unit] = {Owner(unit)} \cup Enclosing[Owner(unit)]
  BY <1>1, EnclosingOf DEF Executors
<1>3. \A s \in {Owner(unit)} \cup Enclosing[Owner(unit)] : Executing(s)'
  BY <1>2 DEF Executing, Walking
<1>4. \A s \in Subgraphs : Executing(s) => Executing(s)'
  BY DEF Executing, Walking
<1>5. QED
  BY <1>2, <1>3, <1>4, AttachedAppend

LEMMA AttachedExit ==
  ASSUME IInv, Attached, ExitSubgraph
  PROVE  Attached'
<1>0. PICK s, x, entry :
         s = Owner(unit) /\ x = Owner(s) /\ entry = Nested(s, err.kind)
  OBVIOUS
<1>1. unit \in Units /\ unit # Root /\ unit' = s /\ pc' = "returned" /\ pc = "settled"
  BY <1>0 DEF IInv, TypeOK, ExitSubgraph, Returned
<1>2. s \in Subgraphs /\ s \in Units /\ Enclosing[unit] = {s} \cup Enclosing[s]
  BY <1>0, <1>1, EnclosingOf
<1>3. x \in Executors /\ (x # Top => {x} \cup Enclosing[x] \subseteq Enclosing[s])
  <2>1. CASE s = Root
    BY <1>0, <2>1, EnclosingOf, RootTyped
  <2>2. CASE s # Root
    BY <1>0, <1>2, <2>2, EnclosingOf DEF Executors
  <2>3. QED
    BY <2>1, <2>2
<1>4. OwnedBy(x, entry) /\ entry.kind = "stack" /\ entry.unit = s
  BY <1>0, <1>2 DEF OwnedBy, Nested, Entries, IInv, TypeOK, Errors
<1>5. stack' = [stack EXCEPT ![x] = Append(@, entry)]
  <2>1. stack \in [Executors -> Seq(Entries)]
    BY DEF IInv, TypeOK
  <2>2. stack' = [stack EXCEPT ![x] = Append(stack[x], entry)]
    BY <1>0 DEF ExitSubgraph, Recorded
  <2>3. QED
    BY <1>3, <2>1, <2>2
<1>6. Linked(s)'
  <2>1. PICK n : n = Len(stack[x]) + 1
    OBVIOUS
  <2>2. n \in DOMAIN stack'[Owner(s)] /\ stack'[Owner(s)][n] = entry
    <3>1. /\ stack'[x][Len(stack[x]) + 1] = entry /\ Len(stack[x]) \in Nat
          /\ DOMAIN stack'[x] = 1 .. Len(stack[x]) + 1
      BY <1>3, <1>4, <1>5, AppendKeeps
    <3>2. n \in DOMAIN stack'[x] /\ stack'[x][n] = entry
      BY <2>1, <3>1
    <3>3. QED
      BY <1>0, <3>2
  <2>3. QED
    BY <1>0, <1>4, <2>2 DEF Linked
<1>7. \A t \in Subgraphs : Executing(t) => Linked(t)' \/ Executing(t)'
  BY <1>1, <1>2, <1>6 DEF Executing
<1>8. x # Top => \A t \in {x} \cup Enclosing[x] : Executing(t)'
  BY <1>1, <1>3 DEF Executing
<1>9. QED
  BY <1>3, <1>4, <1>5, <1>7, <1>8, AttachedAppend

(* What neither journals, supersedes nor unwinds. *)
Journals ==
  \/ \E outcome \in NodeOutcomes : RunNode(outcome) \/ AssertNode(outcome)
  \/ \E s \in Subgraphs : EnterSubgraph(s) \/ ScopeFault(s)
  \/ ExitSubgraph

LEMMA QuietExecution ==
  ASSUME IInv, Execution, ~Journals
  PROVE  /\ UNCHANGED <<stack, outstanding>>
         /\ Walking /\ Walking' /\ Enclosing[unit'] = Enclosing[unit]
<1>1. CASE NextChild
  <2>1. unit \in Units /\ unit # Root /\ Position(unit) # Len(Children[Owner(unit)])
    BY <1>1 DEF NextChild, BodyDone, IInv, TypeOK
  <2>2. /\ Owner(unit) \in Subgraphs /\ Children[Owner(unit)] \in Seq(Units)
        /\ Position(unit) \in 1 .. Len(Children[Owner(unit)])
    BY <2>1, OwnerTyped, PositionTyped, TreeAssumption
  <2>3. Position(unit) + 1 \in DOMAIN Children[Owner(unit)]
    BY <2>1, <2>2
  <2>4. unit' = Children[Owner(unit)][Position(unit) + 1]
    BY <1>1 DEF NextChild, DispatchUnit
  <2>5. unit' \in Units \ {Root} /\ Owner(unit') = Owner(unit)
    BY <2>2, <2>3, <2>4, ChildOf
  <2>6. Enclosing[unit'] = Enclosing[unit]
    BY <2>1, <2>5, EnclosingOf
  <2>7. QED
    BY <1>1, <2>6 DEF NextChild, DispatchUnit, Walking, world
<1>2. CASE ~NextChild
  BY <1>2
  DEF Execution, Journals, ExitCancelled, ControlPoint, ReplayNode, PruneSubgraph, UnboundNode,
      NodeMay, Clear, Panic, Returned, Settled, FrameworkFailure, Walking, world
<1>3. QED
  BY <1>1, <1>2

LEMMA QuietAdjudication ==
  ASSUME Adjudication
  PROVE  UNCHANGED <<stack, outstanding, unit>> /\ Walking /\ Walking'
<1>1. CASE Succeed \/ GiveUp \/ Retry \/ Exhaust
  BY <1>1 DEF Succeed, GiveUp, Retry, Exhaust, Adjudicated, NextAttempt, Resolve, Settled,
              Walking, world
<1>2. CASE HandlerInterrupted
  BY <1>2 DEF HandlerInterrupted, Handling, Settled, Walking, world
<1>3. ASSUME NEW v \in HandlerVerdicts, HandlerReturns(v)
      PROVE  UNCHANGED <<stack, outstanding, unit>> /\ Walking /\ Walking'
  <2>1. UNCHANGED <<stack, outstanding, unit>> /\ Handling
    BY <1>3 DEF HandlerReturns, world
  <2>2. pc' \in {"settled", "vetoed", "dispatch"}
    <3> DEFINE verdict == Verdict(v, Owner(unit))
    <3>1. CASE verdict = "error"
      BY <1>3, <3>1 DEF HandlerReturns, Settled
    <3>2. CASE verdict = "pause"
      BY <1>3, <3>2 DEF HandlerReturns, Settled
    <3>3. CASE verdict = "falsy"
      BY <1>3, <2>1, <3>3 DEF HandlerReturns, Settled, Resolve, Handling
    <3>4. CASE verdict \notin {"error", "pause", "falsy"}
      BY <1>3, <3>4 DEF HandlerReturns, Settled, NextAttempt
    <3>5. QED
      BY <3>1, <3>2, <3>3, <3>4
  <2>3. QED
    BY <2>1, <2>2 DEF Handling, Walking
<1>4. QED
  BY <1>1, <1>2, <1>3 DEF Adjudication

LEMMA AttachedUnless ==
  ASSUME IInv, Attached, [Next]_vars, ~(Ascend \/ Land)
  PROVE  Attached'
<1>1. CASE Execution
  <2>1. CASE Journals
    <3>1. ASSUME NEW outcome \in NodeOutcomes, RunNode(outcome) \/ AssertNode(outcome)
          PROVE  Attached'
      <4> DEFINE error == IF outcome \in {"fail", "partial"} THEN "failed" ELSE "none"
                 acts  == outcome \in {"ok", "partial"}
                 entry == IF RunNode(outcome)
                          THEN Receipt(unit, error, IF acts THEN clock + 1 ELSE 0)
                          ELSE Receipt(unit, "none", 0)
      <4>1. /\ unit \in Nodes /\ unit \in Units /\ clock \in Nat /\ unit' = unit
            /\ Walking /\ Walking'
        BY <3>1 DEF RunNode, AssertNode, NodeMay, Clear, Returned, Walking, IInv, TypeOK
      <4>2. OwnedBy(Owner(unit), entry)
        BY <4>1 DEF OwnedBy, Entries, Receipt, ErrorKinds
      <4>3. stack' = [stack EXCEPT ![Owner(unit)] = Append(@, entry)]
        BY <3>1 DEF RunNode, AssertNode
      <4> HIDE DEF entry
      <4>4. QED
        BY <4>1, <4>2, <4>3, AttachedNode
    <3>2. QED
      BY <2>1, <3>1, AttachedEnter, AttachedFault, AttachedExit DEF Journals
  <2>2. CASE ~Journals
    <3>1. \A s \in Subgraphs : Executing(s) => Executing(s)'
      BY <1>1, <2>2, QuietExecution DEF Executing, Walking
    <3>2. QED
      BY <1>1, <2>2, <3>1, QuietExecution, AttachedQuietly
  <2>3. QED
    BY <2>1, <2>2
<1>2. CASE Adjudication
  <2>1. \A s \in Subgraphs : Executing(s) => Executing(s)'
    BY <1>2, QuietAdjudication DEF Executing, Walking
  <2>2. QED
    BY <1>2, <2>1, QuietAdjudication, AttachedQuietly
<1>3. CASE Ending
  <2>1. UNCHANGED stack /\ (pc = "unwinding" \/ unit = Root)
    BY <1>3 DEF Ending, Complete, Park, RunReturned, Fail, BeginUnwind, SkipEntry, Compensate,
                Descend, Unwinding, world
  <2>2. \A s \in Subgraphs : ~Executing(s)
    BY <2>1, EnclosingOf, RootTyped DEF Executing
  <2>3. QED
    BY <2>1, <2>2, AttachedQuietly
<1>4. CASE Host
  <2>1. UNCHANGED stack /\ pc = "idle"
    BY <1>4 DEF Host, Start, StartRefused, ResumeRefused, ResumeUnwind, Resume, DispatchUnit,
                LandPreflightFailure, BeginUnwind, world, IInv, Unstarted
  <2>2. QED
    BY <2>1, AttachedQuietly DEF Executing
<1>5. CASE Consumer \/ UNCHANGED vars
  BY <1>5, AttachedQuietly DEF Consumer, Cancel, Request, world, vars, Executing
<1>6. QED
  BY <1>1, <1>2, <1>3, <1>4, <1>5 DEF Next, Progress

-----------------------------------------------------------------------------
(* Descent is kept by every step, and a stack is thrown away only once       *)
(* everything on it and below it has been undone.                            *)

LEMMA WalkedClean ==
  ASSUME NEW frame \in Frames, NEW dirty \in BOOLEAN, ~Walked(frame, dirty).dirty
  PROVE  ~frame.dirty /\ ~dirty
<1> DEFINE mark == frame.dirty \/ dirty
<1>1. mark \in BOOLEAN
  OBVIOUS
<1> HIDE DEF mark
<1>2. [frame EXCEPT !.at = @ - 1, !.dirty = mark].dirty = mark
  BY <1>1 DEF Frames
<1>3. Walked(frame, dirty).dirty = mark
  BY <1>2, Zenon DEF mark, Walked
<1>4. ~mark
  BY <1>3
<1>5. QED
  BY <1>4 DEF mark

(* The cursor after an entry was walked, and after an unwind returned to the *)
(* one around it.                                                            *)
LEMMA WalkFrames ==
  ASSUME IInv, Unwinding, NEW dirty \in BOOLEAN, cursor' = Step(dirty)
  PROVE  /\ DOMAIN cursor' = DOMAIN cursor /\ Len(cursor) \in DOMAIN cursor
         /\ DOMAIN cursor = 1 .. Len(cursor) /\ Len(cursor) \in Nat
         /\ \A k \in DOMAIN cursor : k # Len(cursor) => cursor'[k] = cursor[k]
         /\ cursor'[Len(cursor)].of = Frame.of
         /\ cursor'[Len(cursor)].at = Frame.at - 1
         /\ ~cursor'[Len(cursor)].dirty => ~Frame.dirty /\ ~dirty
<1> DEFINE n == Len(cursor)
           moved == Walked(Frame, dirty)
<1>1. /\ n \in Nat /\ n > 0 /\ DOMAIN cursor = 1 .. n
      /\ Frame \in Frames /\ Frame.at > 0 /\ Frame = cursor[n] /\ n \in 1 .. n
  BY FrameTyped DEF Unwinding, Frame
<1>2. /\ moved \in Frames /\ moved.of = Frame.of /\ moved.at = Frame.at - 1
      /\ ~moved.dirty => ~Frame.dirty /\ ~dirty
  BY <1>1, WalkedTyped, WalkedClean
<1>3. cursor \in Seq(Frames) /\ cursor' = [cursor EXCEPT ![n] = moved]
  BY DEF IInv, TypeOK, Step, Frame
<1> HIDE DEF moved, n
<1>4. /\ DOMAIN cursor' = 1 .. n /\ cursor'[n] = moved
      /\ \A k \in 1 .. n : k # n => cursor'[k] = cursor[k]
  BY <1>1, <1>2, <1>3, LastReplaced DEF n
<1>5. QED
  BY <1>1, <1>2, <1>4 DEF n

LEMMA AscendFrames ==
  ASSUME IInv, Ascend
  PROVE  \E m \in Nat :
            /\ m > 0 /\ Len(cursor) = m + 1 /\ Frame = cursor[m + 1]
            /\ DOMAIN cursor = 1 .. m + 1 /\ DOMAIN cursor' = 1 .. m
            /\ \A k \in 1 .. m : k # m => cursor'[k] = cursor[k]
            /\ cursor'[m].of = cursor[m].of /\ cursor'[m].at = cursor[m].at - 1
            /\ ~cursor'[m].dirty => ~cursor[m].dirty /\ ~Frame.dirty
            /\ \A k \in 1 .. m : cursor[k].of # Frame.of /\ cursor[k].of \in Executors
<1> DEFINE n == Len(cursor)
           m == n - 1
           moved == Walked(cursor[m], Frame.dirty)
           upper == SubSeq(cursor, 1, m)
<1>1. /\ n \in Nat /\ n > 0 /\ DOMAIN cursor = 1 .. n /\ pc = "unwinding"
      /\ Frame \in Frames /\ m = n - 1 /\ m \in Nat /\ m > 0
      /\ m \in 1 .. m /\ m \in 1 .. n /\ n \in 1 .. n /\ n = m + 1
  BY FrameTyped DEF Ascend
<1>2. cursor \in Seq(Frames) /\ cursor[m] \in Frames /\ cursor[n] = Frame
  BY <1>1 DEF IInv, TypeOK, Frame
<1>3. ASSUME NEW j \in 1 .. m
      PROVE  cursor[j].at > 0 /\ cursor[j].of \in Executors /\ cursor[j].of # Frame.of
  <2>1. j \in 1 .. n /\ j < n
    BY <1>1
  <2>2. /\ cursor[j].at > 0 /\ cursor[n].of \in Subgraphs
        /\ cursor[j].of \in {Top} \cup Enclosing[cursor[n].of]
    BY <1>1, <2>1 DEF IInv, CursorNested
  <2>3. cursor[j] \in Frames
    BY <1>2, <2>1
  <2>4. QED
    BY <1>2, <2>2, <2>3, EnclosingOwner DEF Frames
<1>4. /\ moved \in Frames /\ moved.of = cursor[m].of /\ moved.at = cursor[m].at - 1
      /\ ~moved.dirty => ~cursor[m].dirty /\ ~Frame.dirty
  <2>1. cursor[m].at > 0 /\ Frame.dirty \in BOOLEAN
    BY <1>1, <1>3 DEF Frames
  <2>2. QED
    BY <1>2, <2>1, WalkedTyped, WalkedClean
<1>5. /\ upper \in Seq(Frames) /\ Len(upper) = m
      /\ \A k \in 1 .. m : upper[k] = cursor[k]
  BY <1>1, <1>2, SubSeqProperties
<1>6. cursor' = [upper EXCEPT ![m] = moved]
  <2>1. cursor' = [upper EXCEPT ![m] = Walked(@, Frame.dirty)]
    BY DEF Ascend
  <2>2. m \in DOMAIN upper /\ upper[m] = cursor[m]
    BY <1>1, <1>5
  <2>3. QED
    BY <2>1, <2>2
<1> HIDE DEF moved, upper, m, n
<1>7. /\ DOMAIN cursor' = 1 .. m /\ cursor'[m] = moved
      /\ \A k \in 1 .. m : k # m => cursor'[k] = cursor[k]
  BY <1>1, <1>4, <1>5, <1>6, LastReplaced
<1>8. QED
  BY <1>1, <1>2, <1>3, <1>4, <1>7 DEF n

LEMMA UndoneKept ==
  ASSUME NEW entry, Undone(entry), outstanding' \subseteq outstanding,
         \A x \in Subgraphs : stack'[x] \in {stack[x], <<>>}
  PROVE  Undone(entry)'
BY DEF Undone, Within

(* A frame that stays where it is, over a stack that stays what it is. *)
LEMMA FrameKept ==
  ASSUME Descent, NEW k \in DOMAIN cursor, ~cursor[k].dirty,
         NEW of, NEW at, of = cursor[k].of, at = cursor[k].at,
         outstanding' \subseteq outstanding, stack'[of] = stack[of],
         \A x \in Subgraphs : stack'[x] \in {stack[x], <<>>}
  PROVE  \A i \in DOMAIN stack'[of] : i > at => Undone(stack[of][i])'
<1>1. PICK entries : entries = stack[of]
  OBVIOUS
<1>2. ASSUME NEW i \in DOMAIN entries, i > at PROVE Undone(entries[i])'
  <2>1. Undone(entries[i])
    BY <1>1, <1>2 DEF Descent
  <2>2. QED
    BY <2>1, UndoneKept
<1>3. entries = stack'[of]
  BY <1>1
<1>4. \A i \in DOMAIN entries : i > at => Undone(entries[i])'
  BY <1>2
<1>5. QED
  BY <1>3, <1>4 DEF Undone

LEMMA DescentWalk ==
  ASSUME IInv, Descent, Unwinding, NEW dirty \in BOOLEAN, cursor' = Step(dirty), UNCHANGED stack,
         Current.kind = "receipt", outstanding' \subseteq outstanding,
         Current.token # 0 /\ ~dirty => EffectOf(Current) \notin outstanding'
  PROVE  Descent'
<1>1. PICK n : n = Len(cursor)
  OBVIOUS
<1>2. /\ n \in Nat /\ n \in DOMAIN cursor /\ DOMAIN cursor = 1 .. n /\ DOMAIN cursor' = DOMAIN cursor
      /\ \A k \in DOMAIN cursor : k # n => cursor'[k] = cursor[k]
      /\ cursor'[n].of = Frame.of /\ cursor'[n].at = Frame.at - 1
      /\ ~cursor'[n].dirty => ~Frame.dirty /\ ~dirty
  BY <1>1, WalkFrames
<1>3. /\ Frame = cursor[n] /\ Frame.at \in Nat /\ Frame.at > 0
      /\ \A k \in DOMAIN cursor : cursor'[k].of = cursor[k].of
  BY <1>1, <1>2, FrameTyped DEF Frame, Unwinding
<1>4. cursor' # <<>> => cursor'[1].of = Top
  <2>1. 1 \in DOMAIN cursor /\ cursor # <<>>
    BY <1>2
  <2>2. QED
    BY <1>3, <2>1 DEF Descent
<1>5. ASSUME NEW j \in DOMAIN cursor, NEW k \in DOMAIN cursor, k = j + 1
      PROVE  /\ stack'[cursor'[j].of][cursor'[j].at].kind = "stack"
             /\ stack'[cursor'[j].of][cursor'[j].at].unit = cursor'[k].of
  <2>1. j # n
    BY <1>2, <1>5
  <2>2. cursor'[j] = cursor[j]
    BY <1>2, <2>1
  <2>3. QED
    BY <1>3, <1>5, <2>2 DEF Descent
<1>6. ASSUME NEW k \in DOMAIN cursor, ~cursor'[k].dirty
      PROVE  \A i \in DOMAIN stack'[cursor'[k].of] :
               i > cursor'[k].at => Undone(stack[cursor[k].of][i])'
  <2>1. CASE k # n
    <3>1. PICK of, at : of = cursor[k].of /\ at = cursor[k].at
      OBVIOUS
    <3>2. cursor'[k] = cursor[k] /\ ~cursor[k].dirty
      BY <1>2, <1>6, <2>1
    <3>3. \A i \in DOMAIN stack'[of] : i > at => Undone(stack[of][i])'
      BY <3>1, <3>2, FrameKept
    <3>4. QED
      BY <3>1, <3>2, <3>3 DEF Undone
  <2>2. CASE k = n
    <3>1. PICK of, at, entry : of = Frame.of /\ at = Frame.at /\ entry = Current
      OBVIOUS
    <3>2. ~cursor[k].dirty /\ ~dirty /\ cursor'[k].of = of /\ cursor'[k].at = at - 1
          /\ at \in Nat /\ cursor[k].of = of
      BY <1>2, <1>3, <1>6, <2>2, <3>1
    <3>3. \A i \in DOMAIN stack'[of] : i > at => Undone(stack[of][i])'
      BY <1>3, <2>2, <3>1, <3>2, FrameKept
    <3>4. Undone(entry)'
      BY <3>1, <3>2 DEF Undone
    <3>5. stack'[of][at] = entry
      BY <3>1 DEF Current
    <3>6. ASSUME NEW i \in DOMAIN stack'[of], i > at - 1 PROVE Undone(stack[of][i])'
      <4>1. DOMAIN stack'[of] = 1 .. Len(stack[of])
        BY <3>1, <1>2, FrameTyped DEF Unwinding, Journal
      <4>2. i = at \/ i > at
        BY <3>2, <3>6, <4>1
      <4>3. QED
        BY <3>3, <3>4, <3>5, <4>2 DEF Undone
    <3>7. ASSUME NEW i \in DOMAIN stack'[cursor'[k].of], i > cursor'[k].at
          PROVE  Undone(stack[cursor[k].of][i])'
      <4>1. PICK e : e = stack'[of][i]
        OBVIOUS
      <4>2. i \in DOMAIN stack'[of] /\ i > at - 1
        BY <3>2, <3>7
      <4>3. Undone(stack[of][i])'
        BY <3>6, <4>2
      <4>4. Undone(e)'
        BY <4>1, <4>3 DEF Undone
      <4>5. e = stack'[cursor'[k].of][i]
        BY <3>2, <4>1
      <4>6. QED
        BY <4>4, <4>5 DEF Undone
    <3>8. QED
      BY <3>7
  <2>3. QED
    BY <2>1, <2>2
<1>7. QED
  BY <1>2, <1>3, <1>4, <1>5, <1>6 DEF Descent, Undone

LEMMA DescentDown ==
  ASSUME IInv, Descent, Descend
  PROVE  Descent'
<1>1. PICK n, frame : n = Len(cursor) /\ frame = [at |-> Len(stack[Current.unit]), of |-> Current.unit,
                                                  dirty |-> FALSE]
  OBVIOUS
<1>2. /\ n \in Nat /\ n > 0 /\ DOMAIN cursor = 1 .. n /\ pc = "unwinding"
      /\ Frame = cursor[n] /\ n \in 1 .. n
  BY <1>1, FrameTyped DEF Descend, Unwinding, Frame
<1>3. /\ Current.unit \in Subgraphs /\ Current.unit \in Executors
      /\ Current.kind = "stack" /\ Current = stack[cursor[n].of][cursor[n].at]
  BY <1>2, CurrentTyped DEF Descend, OwnedBy, Executors, Current
<1>4. /\ stack[Current.unit] \in Seq(Entries) /\ cursor \in Seq(Frames)
      /\ Len(stack[Current.unit]) \in Nat
      /\ DOMAIN stack[Current.unit] = 1 .. Len(stack[Current.unit])
  <2>1. stack \in [Executors -> Seq(Entries)] /\ cursor \in Seq(Frames)
    BY DEF IInv, TypeOK
  <2>2. PICK entries : entries = stack[Current.unit]
    OBVIOUS
  <2>3. entries \in Seq(Entries)
    BY <1>3, <2>1, <2>2
  <2>4. Len(entries) \in Nat /\ DOMAIN entries = 1 .. Len(entries)
    BY <2>3
  <2>5. QED
    BY <2>1, <2>2, <2>3, <2>4
<1>5. frame \in Frames /\ cursor' = Append(cursor, frame)
      /\ frame.of = Current.unit /\ frame.at = Len(stack[Current.unit])
  BY <1>1, <1>3, <1>4 DEF Frames, Descend
<1>6. /\ DOMAIN cursor' = 1 .. n + 1 /\ cursor'[n + 1] = frame
      /\ \A k \in 1 .. n : cursor'[k] = cursor[k]
  BY <1>1, <1>2, <1>4, <1>5
<1>7. UNCHANGED <<stack, outstanding>>
  BY DEF Descend, world
<1>8. cursor'[1].of = Top
  <2>1. 1 \in 1 .. n /\ cursor # <<>>
    BY <1>2
  <2>2. QED
    BY <1>6, <2>1 DEF Descent
<1>9. ASSUME NEW j \in 1 .. n + 1, NEW k \in 1 .. n + 1, k = j + 1
      PROVE  /\ stack'[cursor'[j].of][cursor'[j].at].kind = "stack"
             /\ stack'[cursor'[j].of][cursor'[j].at].unit = cursor'[k].of
  <2>1. j \in 1 .. n /\ cursor'[j] = cursor[j]
    BY <1>2, <1>6, <1>9
  <2>2. CASE k \in 1 .. n
    BY <1>2, <1>6, <1>7, <1>9, <2>1, <2>2 DEF Descent
  <2>3. CASE k = n + 1
    <3>1. j = n /\ cursor'[k] = frame
      BY <1>2, <1>6, <1>9, <2>3
    <3>2. QED
      BY <1>3, <1>5, <1>7, <2>1, <3>1
  <2>4. QED
    BY <1>2, <2>2, <2>3
<1>10. ASSUME NEW k \in 1 .. n + 1, ~cursor'[k].dirty,
              NEW i \in DOMAIN stack[cursor'[k].of], i > cursor'[k].at
       PROVE  Undone(stack[cursor'[k].of][i])
  <2>1. CASE k \in 1 .. n
    BY <1>2, <1>6, <1>10, <2>1 DEF Descent
  <2>2. CASE k = n + 1
    BY <1>4, <1>5, <1>6, <1>10, <2>2
  <2>3. QED
    BY <1>2, <2>1, <2>2
<1>11. QED
  BY <1>6, <1>7, <1>8, <1>9, <1>10 DEF Descent, Undone

(* When a clean unwind reaches the bottom of a stack, nothing is left on it  *)
(* or on any stack below it.                                                 *)
LEMMA CleanBelow ==
  ASSUME IInv, Attached, Descent, pc = "unwinding", Frame.at = 0, ~Frame.dirty
  PROVE  /\ \A i \in DOMAIN stack[Frame.of] : Undone(stack[Frame.of][i])
         /\ \A x \in Subgraphs : Frame.of \in {Top} \cup Enclosing[x] => stack[x] = <<>>
<1>1. /\ Len(cursor) \in DOMAIN cursor /\ DOMAIN stack[Frame.of] = 1 .. Len(stack[Frame.of])
      /\ Frame.of \in Executors
  BY FrameTyped DEF Journal
<1>2. ASSUME NEW i \in DOMAIN stack[Frame.of] PROVE Undone(stack[Frame.of][i])
  <2>1. i > Frame.at
    BY <1>1
  <2>2. QED
    BY <1>1, <2>1 DEF Descent, Frame
<1>3. ASSUME NEW x \in Subgraphs, Frame.of \in {Top} \cup Enclosing[x], stack[x] # <<>>
      PROVE  FALSE
  <2>1. PICK c \in {x} \cup Enclosing[x] : Owner(c) = Frame.of
    BY <1>3, WayDown
  <2>2. x \in Executors /\ x # Top /\ c \in Subgraphs
    BY EnclosingOf, TreeAssumption DEF Executors, Units
  <2>3. Linked(c)
    BY <1>3, <2>1, <2>2 DEF Attached, Reached, Executing
  <2>4. PICK i \in DOMAIN stack[Frame.of] :
          stack[Frame.of][i].kind = "stack" /\ stack[Frame.of][i].unit = c
    BY <2>1, <2>3 DEF Linked
  <2>5. x \in Within(c)
    BY <2>1 DEF Within
  <2>6. QED
    BY <1>2, <1>3, <2>4, <2>5 DEF Undone
<1>4. QED
  BY <1>2, <1>3

LEMMA ClearedStacks ==
  ASSUME IInv, pc = "unwinding", stack' = Cleared
  PROVE  /\ \A x \in Executors : x # Frame.of => stack'[x] = stack[x]
         /\ Frame.dirty => stack' = stack
         /\ ~Frame.dirty => stack'[Frame.of] = <<>>
         /\ \A x \in Subgraphs : stack'[x] \in {stack[x], <<>>}
<1>1. stack \in [Executors -> Seq(Entries)] /\ Frame.of \in Executors
  BY FrameTyped DEF IInv, TypeOK
<1>2. QED
  BY <1>1 DEF Cleared, Executors

LEMMA AttachedCleared ==
  ASSUME IInv, Attached, Descent, pc = "unwinding", Frame.at = 0, stack' = Cleared
  PROVE  Attached'
<1>1. CASE Frame.dirty
  BY <1>1, ClearedStacks, AttachedQuietly DEF Executing
<1>2. CASE ~Frame.dirty
  <2>1. ASSUME NEW x \in Subgraphs, stack'[x] # <<>>,
               NEW t \in {x} \cup Enclosing[x], Linked(t) \/ Executing(t)
        PROVE  stack[x] # <<>> /\ Linked(t)'
    <3>1. x \in Executors /\ t \in Subgraphs
      BY EnclosingOf DEF Executors, Units
    <3>2. stack[x] # <<>> /\ Linked(t)
      BY <2>1, <3>1, ClearedStacks DEF Executing
    <3>3. Owner(t) # Frame.of
      <4>1. SUFFICES ASSUME Owner(t) = Frame.of PROVE FALSE
        OBVIOUS
      <4>2. PICK i \in DOMAIN stack[Frame.of] :
              stack[Frame.of][i].kind = "stack" /\ stack[Frame.of][i].unit = t
        BY <3>2, <4>1 DEF Linked
      <4>3. Undone(stack[Frame.of][i])
        BY <1>2, CleanBelow
      <4>4. x \in Within(t)
        BY DEF Within
      <4>5. QED
        BY <3>2, <4>2, <4>3, <4>4 DEF Undone
    <3>4. stack'[Owner(t)] = stack[Owner(t)]
      BY <3>1, <3>3, ClearedStacks, OwnerTyped DEF Units
    <3>5. QED
      BY <3>2, <3>4 DEF Linked
  <2>2. ASSUME NEW x \in Subgraphs, stack'[x] # <<>> PROVE stack[x] # <<>>
    BY <2>2, ClearedStacks
  <2>3. QED
    BY <2>1, <2>2, AttachedIf
<1>3. QED
  BY <1>1, <1>2

LEMMA DescentUp ==
  ASSUME IInv, Attached, Descent, Ascend
  PROVE  Descent'
<1>1. PICK m \in Nat :
         /\ m > 0 /\ Len(cursor) = m + 1 /\ Frame = cursor[m + 1]
         /\ DOMAIN cursor = 1 .. m + 1 /\ DOMAIN cursor' = 1 .. m
         /\ \A k \in 1 .. m : k # m => cursor'[k] = cursor[k]
         /\ cursor'[m].of = cursor[m].of /\ cursor'[m].at = cursor[m].at - 1
         /\ ~cursor'[m].dirty => ~cursor[m].dirty /\ ~Frame.dirty
         /\ \A k \in 1 .. m : cursor[k].of # Frame.of /\ cursor[k].of \in Executors
  BY AscendFrames
<1>2. /\ pc = "unwinding" /\ Frame.at = 0 /\ stack' = Cleared /\ outstanding' = outstanding
  BY DEF Ascend
<1>3. /\ \A x \in Subgraphs : stack'[x] \in {stack[x], <<>>}
      /\ \A k \in 1 .. m : stack'[cursor[k].of] = stack[cursor[k].of]
      /\ \A k \in 1 .. m : cursor'[k].of = cursor[k].of
  BY <1>1, <1>2, ClearedStacks
<1>4. cursor'[1].of = Top
  <2>1. 1 \in 1 .. m /\ cursor # <<>>
    BY <1>1
  <2>2. QED
    BY <1>3, <2>1 DEF Descent
<1>5. ASSUME NEW j \in 1 .. m, NEW k \in 1 .. m, k = j + 1
      PROVE  /\ stack'[cursor'[j].of][cursor'[j].at].kind = "stack"
             /\ stack'[cursor'[j].of][cursor'[j].at].unit = cursor'[k].of
  <2>1. j # m /\ j \in DOMAIN cursor /\ k \in DOMAIN cursor
    BY <1>1, <1>5
  <2>2. cursor'[j] = cursor[j]
    BY <1>1, <2>1
  <2>3. QED
    BY <1>3, <1>5, <2>1, <2>2 DEF Descent
<1>6. ASSUME NEW k \in 1 .. m, ~cursor'[k].dirty,
             NEW i \in DOMAIN stack'[cursor'[k].of], i > cursor'[k].at
      PROVE  Undone(stack[cursor[k].of][i])'
  <2>1. PICK of, at, entries :
          of = cursor[k].of /\ at = cursor[k].at /\ entries = stack[of]
    OBVIOUS
  <2>2. cursor'[k].of = of /\ stack'[of] = entries /\ i \in DOMAIN entries /\ k \in DOMAIN cursor
    BY <1>1, <1>3, <1>6, <2>1
  <2>3. SUFFICES Undone(entries[i])'
    BY <2>2 DEF Undone
  <2>4. ~cursor[k].dirty
    BY <1>1, <1>6
  <2>5. \A l \in DOMAIN stack'[of] : l > at => Undone(stack[of][l])'
    BY <1>2, <1>3, <2>1, <2>2, <2>4, FrameKept
  <2>6. CASE i > at
    BY <2>2, <2>5, <2>6 DEF Undone
  <2>7. CASE ~(i > at)
    <3>1. /\ k = m /\ i > at - 1 /\ ~Frame.dirty /\ of \in Executors
      BY <1>1, <1>6, <2>1, <2>7
    <3>2. /\ i = at /\ entries \in Journal(of) /\ i \in 1 .. Len(entries)
      <4>1. entries \in Journal(of)
        BY <2>1, <3>1 DEF IInv, StacksOwned
      <4>2. DOMAIN entries = 1 .. Len(entries) /\ Len(entries) \in Nat
        BY <4>1 DEF Journal
      <4>3. cursor[k] \in Frames
        BY <2>2 DEF IInv, TypeOK
      <4>4. at \in Nat
        BY <2>1, <4>3 DEF Frames
      <4>5. QED
        BY <2>2, <2>7, <3>1, <4>1, <4>2, <4>4
    <3>3. entries[i].kind = "stack" /\ entries[i].unit = Frame.of
      <4>1. m + 1 \in DOMAIN cursor
        BY <1>1
      <4>2. /\ stack[cursor[m].of][cursor[m].at].kind = "stack"
            /\ stack[cursor[m].of][cursor[m].at].unit = cursor[m + 1].of
        BY <2>2, <3>1, <4>1 DEF Descent
      <4>3. QED
        BY <1>1, <2>1, <3>1, <3>2, <4>2
    <3>4. OwnedBy(of, entries[i])
      BY <3>2 DEF Journal
    <3>5. entries[i].token = 0 /\ Frame.of \in Subgraphs /\ Frame.of \in Executors
      BY <3>3, <3>4 DEF OwnedBy, Executors
    <3>6. ASSUME NEW x \in Within(Frame.of) PROVE stack'[x] = <<>>
      <4>1. x \in Subgraphs
        BY DEF Within
      <4>2. CASE x = Frame.of
        BY <1>2, <3>1, <4>2, ClearedStacks
      <4>3. CASE x # Frame.of
        <5>1. Frame.of \in Enclosing[x]
          BY <4>3 DEF Within
        <5>2. stack[x] = <<>>
          BY <1>2, <3>1, <4>1, <5>1, CleanBelow
        <5>3. QED
          BY <1>3, <4>1, <5>2
      <4>4. QED
        BY <4>2, <4>3
    <3>7. PICK f : f = Frame.of
      OBVIOUS
    <3>8. \A x \in Within(f) : stack'[x] = <<>>
      BY <3>6, <3>7
    <3>9. QED
      BY <3>3, <3>5, <3>7, <3>8 DEF Undone
  <2>8. QED
    BY <2>6, <2>7
<1>7. QED
  BY <1>1, <1>4, <1>5, <1>6 DEF Descent, Undone

LEMMA DescentNone ==
  ASSUME cursor' = <<>>
  PROVE  Descent'
BY DEF Descent

LEMMA DescentBegun ==
  ASSUME IInv, BeginUnwind, UNCHANGED stack
  PROVE  Descent'
<1>1. PICK frame : frame = [at |-> Len(stack[Top]), of |-> Top, dirty |-> FALSE]
  OBVIOUS
<1>2. /\ cursor' = <<frame>> /\ DOMAIN cursor' = {1} /\ cursor'[1] = frame
      /\ frame.of = Top /\ frame.at = Len(stack[Top])
  BY <1>1 DEF BeginUnwind
<1>3. DOMAIN stack[Top] = 1 .. Len(stack[Top]) /\ Len(stack[Top]) \in Nat
  BY RootTyped DEF IInv, StacksOwned, Journal
<1>4. \A i \in DOMAIN stack'[Top] : ~(i > Len(stack[Top]))
  BY <1>3
<1>5. QED
  BY <1>2, <1>4 DEF Descent

LEMMA DescentStep ==
  ASSUME IInv, IInv', Attached, Descent, [Next]_vars
  PROVE  Descent'
<1>1. CASE pc' # "unwinding"
  BY <1>1, DescentNone DEF IInv, CursorNested
<1>2. CASE pc = "unwinding"
  <2>1. CASE SkipEntry
    <3>1. outstanding' \subseteq outstanding /\ UNCHANGED stack
      BY <2>1 DEF SkipEntry, world
    <3>2. QED
      BY <2>1, <3>1, DescentWalk DEF SkipEntry
  <2>2. ASSUME NEW fails \in BOOLEAN, Compensate(fails) PROVE Descent'
    <3>1. /\ outstanding' \subseteq outstanding /\ UNCHANGED stack
          /\ ~fails => EffectOf(Current) \notin outstanding'
      BY <2>2 DEF Compensate
    <3>2. QED
      BY <2>2, <3>1, DescentWalk DEF Compensate
  <2>3. CASE Descend
    BY <2>3, DescentDown
  <2>4. CASE Ascend
    BY <2>4, DescentUp
  <2>5. CASE Land
    BY <2>5, DescentNone DEF Land
  <2>6. CASE UNCHANGED <<stack, cursor, outstanding>>
    BY <2>6 DEF Descent, Undone
  <2>7. CASE Execution \/ Adjudication \/ Host
    <3>1. FALSE
      BY <1>2, <2>7
      DEF Execution, ExitCancelled, ControlPoint, ReplayNode, PruneSubgraph, RunNode, AssertNode,
          UnboundNode, EnterSubgraph, ScopeFault, Entering, NodeMay, Clear, NextChild,
          ExitSubgraph, Panic, Adjudication, Succeed, GiveUp, Retry, Exhaust, Adjudicated,
          HandlerInterrupted, HandlerReturns, Handling, Host, Start, StartRefused, Resume,
          ResumeRefused, ResumeUnwind, IInv, Unstarted
    <3>2. QED
      BY <3>1
  <2>8. QED
    BY <1>2, <2>1, <2>2, <2>3, <2>4, <2>5, <2>6, <2>7
    DEF Next, Progress, Ending, Complete, Park, Fail, RunReturned, Consumer, Cancel, Request,
        vars, unwinding, world
<1>3. CASE pc # "unwinding" /\ pc' = "unwinding"
  <2>1. Fail \/ ResumeUnwind
    <3>1. CASE Execution
      BY <1>3, <3>1
      DEF Execution, ExitCancelled, ControlPoint, ReplayNode, PruneSubgraph, RunNode, AssertNode,
          UnboundNode, EnterSubgraph, ScopeFault, NextChild, ExitSubgraph, Panic, Returned,
          Settled, DispatchUnit, FrameworkFailure
    <3>2. CASE Adjudication
      BY <1>3, <3>2, QuietAdjudication DEF Walking
    <3>3. CASE Ending \/ Host \/ Consumer \/ UNCHANGED vars
      BY <1>3, <3>3
      DEF Ending, Complete, Park, SkipEntry, Compensate, Descend, Unwinding, Ascend, Land,
          Host, Start, StartRefused, Resume, ResumeRefused, LandPreflightFailure, DispatchUnit,
          Consumer, Cancel, Request, vars
    <3>4. QED
      BY <3>1, <3>2, <3>3 DEF Next, Progress
  <2>2. QED
    BY <2>1, DescentBegun DEF Fail, ResumeUnwind, world
<1>4. QED
  BY <1>1, <1>2, <1>3
-----------------------------------------------------------------------------
(* Every effect keeps its receipt, and the receipt stays within reach. *)

LEMMA AttachedStep ==
  ASSUME IInv, Attached, Descent, [Next]_vars
  PROVE  Attached'
<1>1. CASE Ascend \/ Land
  BY <1>1, AttachedCleared DEF Ascend, Land
<1>2. CASE ~(Ascend \/ Land)
  BY <1>2, AttachedUnless
<1>3. QED
  BY <1>1, <1>2

(* What carries something to compensate is a node's: no boundary removes it  *)
(* as the stale entry of its own.                                            *)
LEMMA EffectKept ==
  ASSUME NEW x, NEW e \in EffectsOn(stack[x]),
         \A i \in DOMAIN stack[x] : stack[x][i].token # 0 =>
            \E j \in DOMAIN stack'[x] : stack'[x][j] = stack[x][i]
  PROVE  e \in EffectsOn(stack'[x])
<1>1. PICK i \in DOMAIN stack[x] : stack[x][i].token # 0 /\ e = EffectOf(stack[x][i])
  BY DEF EffectsOn
<1>2. PICK j \in DOMAIN stack'[x] : stack'[x][j] = stack[x][i]
  BY <1>1
<1>3. QED
  BY <1>1, <1>2 DEF EffectsOn

LEMMA JournaledKept ==
  ASSUME Journaled, outstanding' \subseteq outstanding,
         \A x \in Executors : \A i \in DOMAIN stack[x] :
           stack[x][i].token # 0 /\ EffectOf(stack[x][i]) \in outstanding' =>
             \E j \in DOMAIN stack'[x] : stack'[x][j] = stack[x][i]
  PROVE  Journaled'
<1>1. ASSUME NEW e \in outstanding' PROVE \E x \in Executors : e \in EffectsOn(stack'[x])
  <2>1. PICK x \in Executors : e \in EffectsOn(stack[x])
    BY <1>1 DEF Journaled
  <2>2. PICK i \in DOMAIN stack[x] : stack[x][i].token # 0 /\ e = EffectOf(stack[x][i])
    BY <2>1 DEF EffectsOn
  <2>3. PICK j \in DOMAIN stack'[x] : stack'[x][j] = stack[x][i]
    BY <1>1, <2>2
  <2>4. QED
    BY <2>2, <2>3 DEF EffectsOn
<1>2. QED
  BY <1>1 DEF Journaled

LEMMA JournaledAppend ==
  ASSUME IInv, Journaled, NEW x0 \in Executors, NEW entry, OwnedBy(x0, entry),
         stack' = [stack EXCEPT ![x0] = Append(@, entry)],
         outstanding' \subseteq outstanding \cup (IF entry.token # 0 THEN {EffectOf(entry)} ELSE {})
  PROVE  Journaled'
<1>1. /\ \A y \in Executors : y # x0 => stack'[y] = stack[y]
      /\ stack'[x0][Len(stack[x0]) + 1] = entry /\ Len(stack[x0]) \in Nat
      /\ DOMAIN stack'[x0] = 1 .. Len(stack[x0]) + 1 /\ DOMAIN stack[x0] = 1 .. Len(stack[x0])
      /\ \A i \in DOMAIN stack[x0] : stack'[x0][i] = stack[x0][i]
  BY AppendKeeps
<1>2. ASSUME NEW e \in outstanding' PROVE \E x \in Executors : e \in EffectsOn(stack'[x])
  <2>1. CASE e \in outstanding
    <3>1. PICK x \in Executors : e \in EffectsOn(stack[x])
      BY <2>1 DEF Journaled
    <3>2. \A i \in DOMAIN stack[x] : \E j \in DOMAIN stack'[x] : stack'[x][j] = stack[x][i]
      <4>1. CASE x = x0
        BY <1>1, <4>1
      <4>2. CASE x # x0
        BY <1>1, <4>2
      <4>3. QED
        BY <4>1, <4>2
    <3>3. QED
      BY <3>1, <3>2, EffectKept
  <2>2. CASE e \notin outstanding
    <3>1. entry.token # 0 /\ e = EffectOf(entry)
      BY <2>2
    <3>2. PICK n : n = Len(stack[x0]) + 1
      OBVIOUS
    <3>3. n \in DOMAIN stack'[x0] /\ stack'[x0][n] = entry
      BY <1>1, <3>2
    <3>4. e \in EffectsOn(stack'[x0])
      BY <3>1, <3>3 DEF EffectsOn
    <3>5. QED
      BY <3>4
  <2>3. QED
    BY <2>1, <2>2
<1>3. QED
  BY <1>2 DEF Journaled

LEMMA JournaledNode ==
  ASSUME IInv, Journaled, NEW outcome \in NodeOutcomes, RunNode(outcome) \/ AssertNode(outcome)
  PROVE  Journaled'
<1> DEFINE error == IF outcome \in {"fail", "partial"} THEN "failed" ELSE "none"
           acts  == outcome \in {"ok", "partial"}
           entry == IF RunNode(outcome)
                    THEN Receipt(unit, error, IF acts THEN clock + 1 ELSE 0)
                    ELSE Receipt(unit, "none", 0)
<1>1. unit \in Nodes /\ unit \in Units /\ clock \in Nat
  BY DEF RunNode, AssertNode, NodeMay, IInv, TypeOK
<1>2. OwnedBy(Owner(unit), entry) /\ Owner(unit) \in Executors
  BY <1>1, OwnerTyped DEF OwnedBy, Entries, Receipt, ErrorKinds
<1>3. stack' = [stack EXCEPT ![Owner(unit)] = Append(@, entry)]
  BY DEF RunNode, AssertNode
<1>4. outstanding' \subseteq outstanding \cup (IF entry.token # 0 THEN {EffectOf(entry)} ELSE {})
  <2>1. CASE RunNode(outcome) /\ acts
    <3>1. entry.token = clock + 1 /\ entry.token # 0
      BY <1>1, <2>1 DEF Receipt
    <3>2. QED
      BY <2>1, <3>1 DEF RunNode
  <2>2. CASE ~(RunNode(outcome) /\ acts)
    BY <2>2 DEF RunNode, AssertNode
  <2>3. QED
    BY <2>1, <2>2
<1> HIDE DEF entry
<1>5. QED
  BY <1>2, <1>3, <1>4, JournaledAppend

(* A node's receipt is not the stale entry of a boundary. *)
LEMMA NodeReceiptKept ==
  ASSUME IInv, NEW s \in Subgraphs, NEW i \in DOMAIN stack[Owner(s)],
         stack[Owner(s)][i].token # 0
  PROVE  \E j \in DOMAIN Superseded(s) : Superseded(s)[j] = stack[Owner(s)][i]
<1>1. stack[Owner(s)] \in Journal(Owner(s)) /\ i \in 1 .. Len(stack[Owner(s)])
  BY OwnerTyped DEF IInv, StacksOwned, Journal, Units
<1>2. OwnedBy(Owner(s), stack[Owner(s)][i])
  BY <1>1 DEF Journal
<1>3. stack[Owner(s)][i].unit # s
  BY <1>2, TreeAssumption DEF OwnedBy
<1>4. QED
  BY <1>3, SupersededKeeps DEF IInv

LEMMA JournaledEnter ==
  ASSUME IInv, Attached, Journaled, NEW s \in Subgraphs, EnterSubgraph(s)
  PROVE  Journaled'
<1> DEFINE o == Owner(s)
<1>1. /\ o \in Executors /\ o # s /\ s \in Executors
  <2>1. CASE s = Root
    BY <2>1, EnclosingOf, RootTyped, TreeAssumption DEF Executors
  <2>2. CASE s # Root
    BY <2>2, EnclosingOf DEF Executors, Units
  <2>3. QED
    BY <2>1, <2>2
<1>2. /\ stack \in [Executors -> Seq(Entries)] /\ StacksOwned /\ unit = s
      /\ stack' = [stack EXCEPT ![o] = Superseded(s), ![s] = ChildStack(s)]
  BY DEF IInv, TypeOK, EnterSubgraph, Entering
<1>3. /\ stack'[o] = Superseded(s) /\ stack'[s] = ChildStack(s)
      /\ \A y \in Executors : y \notin {o, s} => stack'[y] = stack[y]
  BY <1>1, <1>2
<1>4. stack'[s] = stack[s]
  <2>1. CASE Prior(s) # 0
    BY <1>3, <2>1 DEF ChildStack
  <2>2. CASE Prior(s) = 0
    <3>1. ~Linked(s) /\ ~Executing(s)
      BY <1>2, <2>2, PriorPlace, EnclosingOf DEF Executing, Units
    <3>2. stack[s] = <<>>
      BY <1>1, <3>1, TreeAssumption DEF Attached, Reached, Units
    <3>3. QED
      BY <1>3, <2>2, <3>2 DEF ChildStack
  <2>3. QED
    BY <2>1, <2>2
<1>5. ASSUME NEW x \in Executors, NEW i \in DOMAIN stack[x], stack[x][i].token # 0
      PROVE  \E j \in DOMAIN stack'[x] : stack'[x][j] = stack[x][i]
  <2>1. CASE x = o
    BY <1>3, <1>5, <2>1, NodeReceiptKept
  <2>2. CASE x # o
    <3>1. stack'[x] = stack[x]
      BY <1>3, <1>4, <2>2
    <3>2. QED
      BY <3>1
  <2>3. QED
    BY <2>1, <2>2
<1>6. outstanding' = outstanding
  BY DEF EnterSubgraph
<1>7. QED
  BY <1>5, <1>6, JournaledKept

LEMMA JournaledFault ==
  ASSUME IInv, Journaled, NEW s \in Subgraphs, ScopeFault(s), ~Loses
  PROVE  Journaled'
<1> DEFINE o == Owner(s)
<1>1. o \in Executors
  BY OwnerTyped DEF Units
<1>2. PICK entries :
         /\ entries \in {Superseded(s), Append(Superseded(s), Receipt(s, "failed", 0))}
         /\ Drop(s, entries)
  BY DEF ScopeFault
<1>3. /\ stack'[o] = entries
      /\ \A y \in Executors \ {o} : stack'[y] = IF y \in Within(s) THEN <<>> ELSE stack[y]
  BY <1>1, <1>2 DEF Drop
<1>4. Superseded(s) \in Seq(Entries) /\ Receipt(s, "failed", 0) \in Entries
  BY SupersededOwned DEF IInv, Journal, Receipt, Entries, ErrorKinds, Units
<1>5. \A j \in DOMAIN Superseded(s) : j \in DOMAIN entries /\ entries[j] = Superseded(s)[j]
  <2>1. CASE entries = Superseded(s)
    BY <2>1
  <2>2. CASE entries = Append(Superseded(s), Receipt(s, "failed", 0))
    BY <1>4, <2>2, AppendProperties
  <2>3. QED
    BY <1>2, <2>1, <2>2
<1>6. ASSUME NEW x \in Executors, NEW i \in DOMAIN stack[x], stack[x][i].token # 0,
             EffectOf(stack[x][i]) \in outstanding'
      PROVE  \E j \in DOMAIN stack'[x] : stack'[x][j] = stack[x][i]
  <2>1. CASE x = o
    <3>1. PICK j \in DOMAIN Superseded(s) : Superseded(s)[j] = stack[o][i]
      BY <1>6, <2>1, NodeReceiptKept
    <3>2. QED
      BY <1>3, <1>5, <2>1, <3>1
  <2>2. CASE x # o /\ x \notin Within(s)
    BY <1>3, <2>2
  <2>3. CASE x \in Within(s)
    <3>1. EffectOf(stack[x][i]) \in outstanding \cap EffectsOn(stack[x])
      BY <1>6 DEF EffectsOn, ScopeFault
    <3>2. QED
      BY <2>3, <3>1 DEF Loses
  <2>4. QED
    BY <2>1, <2>2, <2>3
<1>7. outstanding' = outstanding
  BY DEF ScopeFault
<1>8. QED
  BY <1>6, <1>7, JournaledKept

LEMMA JournaledExit ==
  ASSUME IInv, Journaled, ExitSubgraph
  PROVE  Journaled'
<1>1. PICK s, x, entry :
         s = Owner(unit) /\ x = Owner(s) /\ entry = Nested(s, err.kind)
  OBVIOUS
<1>2. s \in Subgraphs /\ s \in Units
  BY <1>1, EnclosingOf DEF ExitSubgraph, IInv, TypeOK
<1>3. x \in Executors
  BY <1>1, <1>2, OwnerTyped
<1>4. OwnedBy(x, entry)
  BY <1>1, <1>2 DEF OwnedBy, Nested, Entries, IInv, TypeOK, Errors
<1>5. stack' = [stack EXCEPT ![x] = Append(@, entry)]
  <2>1. stack \in [Executors -> Seq(Entries)]
    BY DEF IInv, TypeOK
  <2>2. stack' = [stack EXCEPT ![x] = Append(stack[x], entry)]
    BY <1>1 DEF ExitSubgraph, Recorded
  <2>3. QED
    BY <1>3, <2>1, <2>2
<1>6. outstanding' = outstanding
  BY DEF ExitSubgraph
<1>7. QED
  BY <1>3, <1>4, <1>5, <1>6, JournaledAppend

LEMMA JournaledCleared ==
  ASSUME IInv, Attached, Descent, Journaled, Ascend \/ Land
  PROVE  Journaled'
<1>1. /\ pc = "unwinding" /\ Frame.at = 0 /\ stack' = Cleared /\ outstanding' = outstanding
  BY DEF Ascend, Land
<1>2. ASSUME NEW x \in Executors, NEW i \in DOMAIN stack[x], stack[x][i].token # 0,
             EffectOf(stack[x][i]) \in outstanding'
      PROVE  \E j \in DOMAIN stack'[x] : stack'[x][j] = stack[x][i]
  <2>1. stack'[x] = stack[x]
    <3>1. CASE Frame.dirty \/ x # Frame.of
      BY <1>1, <3>1, ClearedStacks
    <3>2. CASE ~Frame.dirty /\ x = Frame.of
      BY <1>1, <1>2, <3>2, CleanBelow DEF Undone
    <3>3. QED
      BY <3>1, <3>2
  <2>2. QED
    BY <2>1
<1>3. QED
  BY <1>1, <1>2, JournaledKept

LEMMA JournaledStep ==
  ASSUME IInv, Attached, Descent, Journaled, [Next]_vars, ~Loses
  PROVE  Journaled'
<1>1. CASE Journals
  BY <1>1, JournaledNode, JournaledEnter, JournaledFault, JournaledExit DEF Journals
<1>2. CASE Ascend \/ Land
  BY <1>2, JournaledCleared
<1>3. CASE ~Journals /\ ~(Ascend \/ Land)
  <2>1. UNCHANGED stack /\ outstanding' \subseteq outstanding
    <3>1. CASE Execution
      BY <1>3, <3>1, QuietExecution
    <3>2. CASE Adjudication
      BY <3>2, QuietAdjudication
    <3>3. CASE Ending
      BY <1>3, <3>3 DEF Ending, Complete, Park, Fail, SkipEntry, Compensate, Descend, world
    <3>4. CASE Host \/ Consumer \/ UNCHANGED vars
      BY <3>4 DEF Host, Start, StartRefused, ResumeRefused, ResumeUnwind, Resume,
                  LandPreflightFailure, Consumer, Cancel, Request, vars, world
    <3>5. QED
      BY <3>1, <3>2, <3>3, <3>4 DEF Next, Progress
  <2>2. QED
    BY <2>1, JournaledKept
<1>4. QED
  BY <1>1, <1>2, <1>3

LEMMA JournalsInit == Init => Attached /\ Descent /\ Journaled
BY DEF Init, Attached, Descent, Journaled

LEMMA InReach ==
  ASSUME IInv, Attached, Journaled
  PROVE  EffectsJournaled
<1>1. ASSUME NEW x \in Executors, NEW e \in EffectsOn(stack[x]) PROVE Reached(x)
  <2>1. stack[x] # <<>>
    BY <1>1 DEF EffectsOn
  <2>2. QED
    BY <2>1 DEF Attached
<1>2. QED
  BY <1>1 DEF Journaled, EffectsJournaled

(* A stack that holds anything at all is one an unwind from the run's own    *)
(* stack reaches: no path of adoption, supersession or clearing cuts one off.*)
THEOREM StacksReached == Spec => [](\A x \in Executors : stack[x] # <<>> => Reached(x))
<1>1. Init => IInv /\ Attached /\ Descent
  BY InitShaped, JournalsInit
<1>2. IInv /\ Attached /\ Descent /\ [Next]_vars => (IInv /\ Attached /\ Descent)'
  BY StepShaped, AttachedStep, DescentStep
<1>3. Attached => \A x \in Executors : stack[x] # <<>> => Reached(x)
  BY DEF Attached
<1>4. QED
  BY <1>1, <1>2, <1>3, PTL DEF Spec

(* Every effect standing in the world has its receipt on a stack an unwind   *)
(* reaches, as long as no boundary fails its claims over effects it adopted: *)
(* pushAuditReceipt, adoptPriorStack, supersede and Unwind lose none.        *)
THEOREM EffectsKept == Spec /\ [][~Loses]_vars => []EffectsJournaled
<1> DEFINE Inv == IInv /\ Attached /\ Descent /\ Journaled
<1>1. Init => Inv
  BY InitShaped, JournalsInit
<1>2. Inv /\ [Next]_vars /\ [~Loses]_vars => Inv'
  <2>1. CASE UNCHANGED vars
    <3>1. ASSUME Inv, UNCHANGED vars PROVE Journaled'
      BY <3>1 DEF vars, world, Journaled
    <3>2. QED
      BY <2>1, <3>1, StepShaped, AttachedStep, DescentStep
  <2>2. CASE ~Loses
    BY <2>2, StepShaped, AttachedStep, DescentStep, JournaledStep
  <2>3. QED
    BY <2>1, <2>2
<1>3. Inv => EffectsJournaled
  BY InReach
<1>4. QED
  BY <1>1, <1>2, <1>3, PTL DEF Spec

LEMMA CleanLanding ==
  ASSUME IInv, Attached, Descent, Journaled, [Next]_vars
  PROVE  pc = "unwinding" /\ phase' = "stopped" /\ pc' = "idle"
           /\ exec'[Top].condition # CompensationFailed => outstanding = {}
<1>1. SUFFICES ASSUME pc = "unwinding", pc' = "idle", exec'[Top].condition # CompensationFailed,
                      NEW e \in outstanding
               PROVE  FALSE
  OBVIOUS
<1>2. Land
  BY <1>1
  DEF Next, Progress, Execution, ExitCancelled, ControlPoint, ReplayNode, PruneSubgraph, RunNode,
      AssertNode, UnboundNode, EnterSubgraph, ScopeFault, Entering, NodeMay, Clear, NextChild,
      ExitSubgraph, Panic, Adjudication, Succeed, GiveUp, Retry, Exhaust, Adjudicated,
      HandlerInterrupted, HandlerReturns, Handling, Ending, Complete, Park, Fail, RunReturned,
      SkipEntry, Compensate, Descend, Ascend, Host, Start, StartRefused, Resume, ResumeRefused,
      ResumeUnwind, Consumer, Cancel, Request, vars, IInv, Unstarted
<1>3. Frame.at = 0 /\ Frame.of = Top
  <2>1. Len(cursor) = 1 /\ Frame = cursor[1] /\ cursor # <<>> /\ Frame.at = 0
    BY <1>2 DEF Land, Frame, IInv, CursorNested
  <2>2. QED
    BY <2>1 DEF Descent
<1>4. ~Frame.dirty
  <2>1. exec \in [Executors -> Statuses] /\ Top \in Executors
    BY RootTyped DEF IInv, TypeOK
  <2>2. Frame.dirty => exec'[Top].condition = CompensationFailed
    <3>1. ASSUME Frame.dirty PROVE exec'[Top].condition = CompensationFailed
      <4>1. exec'[Top] = [exec[Top] EXCEPT !.condition = CompensationFailed,
                                           !.reason = "compensation_failed"]
        BY <1>2, <2>1, <3>1 DEF Land, LandedStatus
      <4>2. exec[Top] \in Statuses
        BY <2>1
      <4>3. QED
        BY <4>1, <4>2 DEF Statuses
    <3>2. QED
      BY <3>1
  <2>3. QED
    BY <1>1, <2>2
<1>5. PICK x \in Executors : e \in EffectsOn(stack[x])
  BY DEF Journaled
<1>6. PICK i \in DOMAIN stack[x] : stack[x][i].token # 0 /\ e = EffectOf(stack[x][i])
  BY <1>5 DEF EffectsOn
<1>7. CASE x = Top
  BY <1>1, <1>3, <1>4, <1>6, <1>7, CleanBelow DEF Undone
<1>8. CASE x # Top
  <2>1. stack[x] = <<>>
    BY <1>1, <1>3, <1>4, <1>8, CleanBelow DEF Executors
  <2>2. QED
    BY <1>6, <2>1
<1>9. QED
  BY <1>7, <1>8

(* After an unwind that failed nowhere nothing the run performed stands: the *)
(* system is back at its pre-run state, as failAndUnwind promises.           *)
THEOREM CleanStopsRestore == Spec /\ [][~Loses]_vars => CleanStopRestores
<1> DEFINE Inv == IInv /\ Attached /\ Descent /\ Journaled
           Restored == pc = "unwinding" /\ phase' = "stopped" /\ pc' = "idle"
                         /\ exec'[Top].condition # CompensationFailed => outstanding = {}
<1>1. Init => Inv
  BY InitShaped, JournalsInit
<1>2. Inv /\ [Next]_vars /\ [~Loses]_vars => Inv'
  <2>1. CASE UNCHANGED vars
    <3>1. ASSUME Inv, UNCHANGED vars PROVE Journaled'
      BY <3>1 DEF vars, world, Journaled
    <3>2. QED
      BY <2>1, <3>1, StepShaped, AttachedStep, DescentStep
  <2>2. CASE ~Loses
    BY <2>2, StepShaped, AttachedStep, DescentStep, JournaledStep
  <2>3. QED
    BY <2>1, <2>2
<1>3. Inv /\ [Next]_vars => Restored
  BY CleanLanding
<1>4. Restored =>
        [ pc = "unwinding" /\ phase' = "stopped" /\ pc' = "idle"
          /\ exec'[Top].condition # CompensationFailed => outstanding = {} ]_vars
  BY DEF Restored
<1>5. QED
  BY <1>1, <1>2, <1>3, <1>4, PTL DEF Spec, CleanStopRestores

-----------------------------------------------------------------------------
(* The frontier.  On every stack a nested stack that did not succeed is the  *)
(* newest entry, and every sibling before its boundary is done with; while   *)
(* units are dispatched, so is every sibling before the one at work and      *)
(* before the boundaries around it, whose own entries are not back yet.      *)

Failed(entry) == entry.kind = "stack" /\ ~Succeeded(entry)
KindOf(u) == IF u \in Nodes THEN "receipt" ELSE "stack"
Newest(entries, i, u) ==
  /\ entries[i].unit = u /\ entries[i].kind = KindOf(u)
  /\ \A j \in DOMAIN entries :
       entries[j].unit = u /\ entries[j].kind = KindOf(u) => j <= i

(* What a resumed walk replays or prunes. *)
PassedOn(entries, u) ==
  \E i \in DOMAIN entries : Newest(entries, i, u) /\ Succeeded(entries[i])
DoneBefore(entries, u) ==
  u # Root => \A v \in Units \ {Root} :
    Owner(v) = Owner(u) /\ Position(v) < Position(u) => PassedOn(entries, v)

NoneFailed(entries) == \A i \in DOMAIN entries : ~Failed(entries[i])
StackFrontier(entries) ==
  \A i \in DOMAIN entries : Failed(entries[i]) =>
    i = Len(entries) /\ DoneBefore(entries, entries[i].unit)

InOrder ==
  /\ \A u \in {unit} \cup Enclosing[unit] : DoneBefore(stack[Owner(u)], u)
  /\ \A u \in Enclosing[unit] : NoneFailed(stack[Owner(u)])
Frontier ==
  /\ \A x \in Executors : StackFrontier(stack[x])
  /\ Walking => InOrder
  /\ pc \in {"returned", "settled"} /\ err.kind = "none" => PassedOn(stack[Owner(unit)], unit)

(* A failure handler that stands in for what failed: the walk goes on past a *)
(* unit that a resumed run would dispatch again.                             *)
Absorbs == Handling /\ pc' = "settled" /\ err'.kind = "none"

LEMMA OwnersApart ==
  ASSUME NEW w \in Units, NEW u \in Enclosing[w]
  PROVE  /\ u \in Subgraphs /\ u \in Units /\ Owner(u) \in Executors
         /\ Owner(u) # Owner(w) /\ Owner(u) \notin Within(w)
<1>1. w # Root /\ u \in Subgraphs /\ u \in Units
  BY EnclosingOf DEF Units
<1>2. PICK o \in Subgraphs : o = Owner(w)
  BY <1>1, EnclosingOf
<1>3. Enclosing[w] = {o} \cup Enclosing[o] /\ o \notin Enclosing[o]
  BY <1>1, <1>2, EnclosingOf DEF Units
<1>4. o \notin Enclosing[u]
  <2>1. CASE u = o
    BY <1>3, <2>1
  <2>2. CASE u # o
    <3>1. Enclosing[u] \subseteq Enclosing[o]
      BY <1>2, <1>3, <2>2, EnclosingOf DEF Units
    <3>2. QED
      BY <1>3, <3>1
  <2>3. QED
    BY <2>1, <2>2
<1>5. CASE u = Root
  <2>1. Owner(u) = Top /\ Top \notin Units
    BY <1>5, EnclosingOf, RootTyped, TreeAssumption
  <2>2. QED
    BY <1>1, <1>2, <2>1 DEF Within, Units, Executors
<1>6. CASE u # Root
  <2>1. Owner(u) \in Enclosing[u] /\ Owner(u) \in Subgraphs
    BY <1>1, <1>6, EnclosingOf
  <2>2. Enclosing[u] \subseteq Enclosing[w]
    BY EnclosingOf
  <2>3. w \notin Enclosing[w] /\ Enclosing[Owner(u)] \subseteq Enclosing[w]
    BY <2>1, <2>2, EnclosingOf
  <2>4. QED
    BY <1>1, <1>2, <1>4, <2>1, <2>2, <2>3 DEF Within, Executors
<1>7. QED
  BY <1>5, <1>6

LEMMA LastOfPlace ==
  ASSUME NEW entries \in Seq(Entries), NEW kind, NEW u
  PROVE  LET p == LastOf(kind, entries, u)
             places == {i \in DOMAIN entries : entries[i].unit = u /\ entries[i].kind = kind}
         IN  /\ p = 0 <=> places = {}
             /\ p # 0 => p \in places /\ \A j \in places : j <= p
<1> DEFINE places == {i \in DOMAIN entries : entries[i].unit = u /\ entries[i].kind = kind}
<1>1. Len(entries) \in Nat /\ DOMAIN entries = 1 .. Len(entries)
  OBVIOUS
<1>2. places \in SUBSET (1 .. Len(entries))
  BY <1>1
<1>3. LastOf(kind, entries, u) = IF places = {} THEN 0
                                 ELSE CHOOSE i \in places : \A j \in places : j <= i
  BY DEF LastOf
<1> HIDE DEF places
<1>4. CASE places # {}
  <2>1. \E i \in places : \A j \in places : j <= i
    BY <1>1, <1>2, <1>4, LastPlace
  <2>2. LastOf(kind, entries, u) \in places /\ \A j \in places : j <= LastOf(kind, entries, u)
    BY <1>3, <1>4, <2>1
  <2>3. LastOf(kind, entries, u) # 0
    BY <1>1, <1>2, <2>2
  <2>4. QED
    BY <1>4, <2>2, <2>3 DEF places
<1>5. CASE places = {}
  BY <1>3, <1>5 DEF places
<1>6. QED
  BY <1>4, <1>5

(* What the walk does not dispatch again is what has passed. *)
LEMMA PassedHere ==
  ASSUME IInv, NEW u \in Units
  PROVE  /\ u \in Nodes => (Replayed(u) <=> PassedOn(stack[Owner(u)], u))
         /\ u \in Subgraphs =>
              (Prior(u) # 0 /\ Succeeded(stack[Owner(u)][Prior(u)]) <=> PassedOn(stack[Owner(u)], u))
<1>1. PICK entries \in Seq(Entries) : entries = stack[Owner(u)]
  BY OwnerTyped DEF IInv, TypeOK
<1>2. PICK p : p = LastOf(KindOf(u), entries, u)
  OBVIOUS
<1>3. Len(entries) \in Nat /\ DOMAIN entries = 1 .. Len(entries)
  OBVIOUS
<1>4. /\ p = 0 => ~ \E i \in DOMAIN entries : entries[i].unit = u /\ entries[i].kind = KindOf(u)
      /\ p # 0 => p \in DOMAIN entries /\ Newest(entries, p, u)
  BY <1>2, LastOfPlace DEF Newest
<1>5. p # 0 /\ Succeeded(entries[p]) <=> PassedOn(entries, u)
  <2>1. ASSUME PassedOn(entries, u) PROVE p # 0 /\ Succeeded(entries[p])
    <3>1. PICK i \in DOMAIN entries : Newest(entries, i, u) /\ Succeeded(entries[i])
      BY <2>1 DEF PassedOn
    <3>2. p # 0 /\ p \in DOMAIN entries /\ Newest(entries, p, u)
      BY <1>4, <3>1 DEF Newest
    <3>3. i <= p /\ p <= i
      BY <3>1, <3>2 DEF Newest
    <3>4. i = p
      BY <1>3, <3>2, <3>3
    <3>5. QED
      BY <3>1, <3>2, <3>4
  <2>2. QED
    BY <1>4, <2>1 DEF PassedOn
<1>6. CASE u \in Nodes
  <2>1. KindOf(u) = "receipt" /\ u \notin Subgraphs
    BY <1>6, TreeAssumption DEF KindOf
  <2>2. QED
    BY <1>1, <1>2, <1>5, <2>1 DEF Replayed
<1>7. CASE u \in Subgraphs
  <2>1. KindOf(u) = "stack" /\ u \notin Nodes
    BY <1>7, TreeAssumption DEF KindOf
  <2>2. QED
    BY <1>1, <1>2, <1>5, <2>1 DEF Prior
<1>8. QED
  BY <1>6, <1>7 DEF Units

LEMMA PassedAppend ==
  ASSUME NEW entries \in Seq(Entries), NEW entry \in Entries, NEW u
  PROVE  /\ PassedOn(entries, u) /\ entry.unit # u => PassedOn(Append(entries, entry), u)
         /\ entry.unit = u /\ entry.kind = KindOf(u) /\ Succeeded(entry)
              => PassedOn(Append(entries, entry), u)
<1>1. PICK n, longer : n = Len(entries) /\ longer = Append(entries, entry)
  OBVIOUS
<1>2. /\ n \in Nat /\ DOMAIN entries = 1 .. n /\ DOMAIN longer = 1 .. n + 1
      /\ longer[n + 1] = entry /\ \A i \in 1 .. n : longer[i] = entries[i]
  BY <1>1, AppendProperties
<1>3. ASSUME PassedOn(entries, u), entry.unit # u PROVE PassedOn(longer, u)
  <2>1. PICK i \in 1 .. n : Newest(entries, i, u) /\ Succeeded(entries[i])
    BY <1>2, <1>3 DEF PassedOn
  <2>2. ASSUME NEW j \in 1 .. n + 1, longer[j].unit = u, longer[j].kind = KindOf(u)
        PROVE  j <= i
    <3>1. j # n + 1
      BY <1>2, <1>3, <2>2
    <3>2. j \in 1 .. n
      BY <1>2, <3>1
    <3>3. QED
      BY <1>2, <2>1, <2>2, <3>2 DEF Newest
  <2>3. i \in 1 .. n + 1 /\ longer[i] = entries[i]
    BY <1>2
  <2>4. QED
    BY <1>2, <2>1, <2>2, <2>3 DEF PassedOn, Newest
<1>4. ASSUME entry.unit = u, entry.kind = KindOf(u), Succeeded(entry) PROVE PassedOn(longer, u)
  <2>1. PICK k : k = n + 1
    OBVIOUS
  <2>2. k \in DOMAIN longer /\ longer[k] = entry /\ \A j \in DOMAIN longer : j <= k
    BY <1>2, <2>1
  <2>3. QED
    BY <1>4, <2>2 DEF PassedOn, Newest
<1>5. QED
  BY <1>1, <1>3, <1>4

LEMMA PassedRemove ==
  ASSUME NEW entries \in Seq(Entries), NEW n \in 1 .. Len(entries), NEW u,
         entries[n].unit # u, PassedOn(entries, u)
  PROVE  PassedOn(RemoveAt(entries, n), u)
<1>1. PICK m, fewer : m = Len(entries) /\ fewer = RemoveAt(entries, n)
  OBVIOUS
<1>2. /\ m \in Nat /\ n \in Nat /\ DOMAIN entries = 1 .. m /\ DOMAIN fewer = 1 .. m - 1
      /\ \A i \in 1 .. m - 1 : fewer[i] = IF i < n THEN entries[i] ELSE entries[i + 1]
  <2>1. /\ fewer \in Seq(Entries) /\ Len(fewer) = m - 1
        /\ \A i \in 1 .. m - 1 : fewer[i] = IF i < n THEN entries[i] ELSE entries[i + 1]
    <3>1. /\ RemoveAt(entries, n) \in Seq(Entries)
          /\ Len(RemoveAt(entries, n)) = Len(entries) - 1
          /\ \A i \in 1 .. Len(entries) - 1 :
               RemoveAt(entries, n)[i] = IF i < n THEN entries[i] ELSE entries[i + 1]
      BY RemovedAt
    <3>2. QED
      BY <1>1, <3>1
  <2>2. m \in Nat /\ n \in Nat /\ DOMAIN entries = 1 .. m
    BY <1>1
  <2>3. DOMAIN fewer = 1 .. Len(fewer)
    BY <2>1
  <2>4. QED
    BY <2>1, <2>2, <2>3
<1>3. PICK i \in 1 .. m : Newest(entries, i, u) /\ Succeeded(entries[i])
  BY <1>2 DEF PassedOn
<1>4. i # n
  BY <1>3 DEF Newest
<1>5. PICK k \in 1 .. m - 1 : IF i < n THEN k = i ELSE k = i - 1
  <2>1. CASE i < n
    BY <1>1, <1>2, <2>1
  <2>2. CASE ~(i < n)
    <3>1. i - 1 \in 1 .. m - 1
      BY <1>1, <1>2, <1>4, <2>2
    <3>2. QED
      BY <2>2, <3>1
  <2>3. QED
    BY <2>1, <2>2
<1>6. fewer[k] = entries[i]
  <2>1. CASE i < n
    BY <1>2, <1>5, <2>1
  <2>2. CASE ~(i < n)
    <3>1. ~(k < n) /\ k + 1 = i
      BY <1>2, <1>4, <1>5, <2>2
    <3>2. QED
      BY <1>2, <3>1
  <2>3. QED
    BY <2>1, <2>2
<1>7. ASSUME NEW j \in 1 .. m - 1, fewer[j].unit = u, fewer[j].kind = KindOf(u)
      PROVE  j <= k
  <2>1. CASE j < n
    <3>1. j <= i
      <4>1. fewer[j] = entries[j] /\ j \in 1 .. m
        BY <1>2, <2>1
      <4>2. QED
        BY <1>2, <1>3, <1>7, <4>1 DEF Newest
    <3>2. QED
      BY <1>2, <1>4, <1>5, <2>1, <3>1
  <2>2. CASE ~(j < n)
    <3>1. j + 1 <= i
      <4>1. fewer[j] = entries[j + 1] /\ j + 1 \in 1 .. m
        BY <1>2, <2>2
      <4>2. QED
        BY <1>2, <1>3, <1>7, <4>1 DEF Newest
    <3>2. QED
      BY <1>2, <1>4, <1>5, <2>2, <3>1
  <2>3. QED
    BY <2>1, <2>2
<1>8. QED
  BY <1>1, <1>2, <1>3, <1>6, <1>7 DEF PassedOn, Newest

LEMMA DoneKept ==
  ASSUME NEW u \in Units, NEW entries, NEW entries2, DoneBefore(entries, u),
         \A v \in Units : v # u /\ PassedOn(entries, v) => PassedOn(entries2, v)
  PROVE  DoneBefore(entries2, u)
<1>1. ASSUME u # Root, NEW v \in Units \ {Root}, Owner(v) = Owner(u), Position(v) < Position(u)
      PROVE  PassedOn(entries2, v)
  <2>1. v # u
    <3>1. Position(u) \in 1 .. Len(Children[Owner(u)]) /\ Len(Children[Owner(u)]) \in Nat
      BY <1>1, OwnerTyped, PositionTyped, TreeAssumption
    <3>2. ~(Position(u) < Position(u))
      BY <3>1
    <3>3. QED
      BY <1>1, <3>2
  <2>2. QED
    BY <1>1, <2>1 DEF DoneBefore
<1>2. QED
  BY <1>1 DEF DoneBefore

(* On the stack of a unit about to be dispatched nothing failed but itself. *)
LEMMA FailedHere ==
  ASSUME IInv, NEW u \in Units, StackFrontier(stack[Owner(u)]), DoneBefore(stack[Owner(u)], u),
         ~PassedOn(stack[Owner(u)], u),
         NEW i \in DOMAIN stack[Owner(u)], Failed(stack[Owner(u)][i])
  PROVE  stack[Owner(u)][i].unit = u /\ i = Len(stack[Owner(u)])
<1>1. PICK entries \in Seq(Entries) : entries = stack[Owner(u)]
  BY OwnerTyped DEF IInv, TypeOK
<1>2. PICK v : v = entries[i].unit
  OBVIOUS
<1>3. Len(entries) \in Nat /\ DOMAIN entries = 1 .. Len(entries)
  OBVIOUS
<1>4. /\ entries[i].kind = "stack" /\ ~Succeeded(entries[i])
      /\ i = Len(entries) /\ DoneBefore(entries, v) /\ i \in DOMAIN entries
  BY <1>1, <1>2 DEF StackFrontier, Failed
<1>5. Owner(v) = Owner(u) /\ v \in Subgraphs /\ v \in Units
  <2>1. Owner(u) \in Executors
    BY OwnerTyped
  <2>2. OwnedBy(Owner(u), entries[i])
    BY <1>1, <1>3, <1>4, <2>1 DEF IInv, StacksOwned, Journal
  <2>3. QED
    BY <1>2, <1>4, <2>2 DEF OwnedBy, Units
<1>6. SUFFICES ASSUME v # u PROVE FALSE
  BY <1>1, <1>2, <1>4
<1>7. u # Root /\ v # Root
  <2>1. \A w \in Units \ {Root} : Owner(w) # Top
    BY OwnerTyped, TreeAssumption DEF Units
  <2>2. Owner(Root) = Top
    BY DEF Owner
  <2>3. QED
    BY <1>5, <1>6, <2>1, <2>2
<1>8. /\ Position(u) \in Nat /\ Position(v) \in Nat /\ Position(u) # Position(v)
  <2>1. Children[Owner(u)] \in Seq(Units) /\ Len(Children[Owner(u)]) \in Nat
    BY <1>7, OwnerTyped, TreeAssumption
  <2>2. /\ Position(u) \in 1 .. Len(Children[Owner(u)]) /\ Children[Owner(u)][Position(u)] = u
        /\ Position(v) \in 1 .. Len(Children[Owner(u)]) /\ Children[Owner(u)][Position(v)] = v
    BY <1>5, <1>7, PositionTyped
  <2>3. QED
    BY <1>6, <2>1, <2>2
<1>9. CASE Position(v) < Position(u)
  <2>1. PassedOn(entries, v)
    BY <1>1, <1>5, <1>7, <1>9 DEF DoneBefore
  <2>2. PICK k \in DOMAIN entries : Newest(entries, k, v) /\ Succeeded(entries[k])
    BY <2>1 DEF PassedOn
  <2>3. KindOf(v) = "stack"
    BY <1>5, TreeAssumption DEF KindOf
  <2>4. i <= k
    BY <1>2, <1>4, <2>2, <2>3 DEF Newest
  <2>5. k = i
    BY <1>3, <1>4, <2>4
  <2>6. QED
    BY <1>4, <2>2, <2>5
<1>10. CASE Position(u) < Position(v)
  <2>1. PassedOn(entries, u)
    BY <1>4, <1>5, <1>7, <1>10 DEF DoneBefore
  <2>2. QED
    BY <1>1, <2>1
<1>11. QED
  BY <1>8, <1>9, <1>10

(* A boundary that enters its body takes its own failed entry off, and       *)
(* leaves what has passed.                                                   *)
LEMMA SupersededClean ==
  ASSUME IInv, NEW s \in Subgraphs, StackFrontier(stack[Owner(s)]),
         DoneBefore(stack[Owner(s)], s), ~PassedOn(stack[Owner(s)], s)
  PROVE  NoneFailed(Superseded(s))
<1>1. s \in Units
  BY DEF Units
<1>2. PICK entries \in Seq(Entries) : entries = stack[Owner(s)]
  BY <1>1, OwnerTyped DEF IInv, TypeOK
<1>3. Len(entries) \in Nat /\ DOMAIN entries = 1 .. Len(entries) /\ StacksOwned
  BY DEF IInv
<1>4. \A i \in DOMAIN entries : Failed(entries[i]) =>
        i = Len(entries) /\ entries[i].unit = s /\ entries[i].kind = "stack"
  BY <1>1, <1>2, FailedHere DEF Failed
<1>5. CASE Prior(s) = 0
  <2>1. ~Linked(s) /\ Superseded(s) = entries
    BY <1>2, <1>3, <1>5, PriorPlace, SupersededAt
  <2>2. QED
    BY <1>2, <1>4, <2>1 DEF Linked, NoneFailed
<1>6. CASE Prior(s) # 0
  <2>1. PICK place \in 1 .. Len(entries) :
          Prior(s) <= place /\ Superseded(s) = RemoveAt(entries, place)
    BY <1>2, <1>3, <1>6, SupersededAt
  <2>2. /\ Prior(s) \in DOMAIN entries
        /\ \A j \in DOMAIN entries :
             entries[j].kind = "stack" /\ entries[j].unit = s => j <= Prior(s)
    BY <1>2, <1>3, <1>6, PriorPlace
  <2>3. PICK kept, m : kept = RemoveAt(entries, place) /\ m = Len(entries)
    OBVIOUS
  <2>4. /\ kept \in Seq(Entries) /\ Len(kept) = m - 1
        /\ \A i \in 1 .. m - 1 : kept[i] = IF i < place THEN entries[i] ELSE entries[i + 1]
    <3>1. /\ RemoveAt(entries, place) \in Seq(Entries)
          /\ Len(RemoveAt(entries, place)) = Len(entries) - 1
          /\ \A i \in 1 .. Len(entries) - 1 : RemoveAt(entries, place)[i] =
               IF i < place THEN entries[i] ELSE entries[i + 1]
      BY RemovedAt
    <3>2. QED
      BY <2>3, <3>1
  <2>5. m \in Nat /\ DOMAIN entries = 1 .. m /\ DOMAIN kept = 1 .. m - 1
    BY <1>3, <2>3, <2>4
  <2>6. ASSUME NEW i \in 1 .. m - 1, Failed(kept[i]) PROVE FALSE
    <3>1. PICK j \in 1 .. m : kept[i] = entries[j] /\ j # place
      <4>1. CASE i < place
        BY <2>4, <2>5, <4>1
      <4>2. CASE ~(i < place)
        <5>1. i + 1 \in 1 .. m /\ i + 1 # place
          BY <2>1, <2>3, <2>5, <4>2
        <5>2. QED
          BY <2>4, <4>2, <5>1
      <4>3. QED
        BY <4>1, <4>2
    <3>2. j = m /\ j <= Prior(s)
      BY <1>4, <2>2, <2>3, <2>5, <2>6, <3>1
    <3>3. QED
      BY <2>1, <2>2, <2>3, <2>5, <3>1, <3>2
  <2>7. QED
    BY <2>1, <2>3, <2>5, <2>6 DEF NoneFailed
<1>7. QED
  BY <1>5, <1>6

LEMMA SupersededPassed ==
  ASSUME IInv, NEW s \in Subgraphs, NEW u, u # s, PassedOn(stack[Owner(s)], u)
  PROVE  PassedOn(Superseded(s), u)
<1>1. PICK entries \in Seq(Entries) : entries = stack[Owner(s)]
  BY OwnerTyped DEF IInv, TypeOK, Units
<1>2. StacksOwned
  BY DEF IInv
<1>3. CASE Prior(s) = 0
  BY <1>2, <1>3, SupersededAt
<1>4. CASE Prior(s) # 0
  <2>1. PICK place \in 1 .. Len(entries) :
          entries[place].unit = s /\ Superseded(s) = RemoveAt(entries, place)
    BY <1>1, <1>2, <1>4, SupersededAt
  <2>2. PassedOn(entries, u)
    BY <1>1
  <2>3. PassedOn(RemoveAt(entries, place), u)
    BY <2>1, <2>2, PassedRemove
  <2>4. QED
    BY <2>1, <2>3
<1>5. QED
  BY <1>3, <1>4

(* A stack without a failed entry, and one that gets an entry on top. *)
LEMMA CleanFrontier ==
  ASSUME NEW entries, NoneFailed(entries)
  PROVE  StackFrontier(entries)
BY DEF NoneFailed, StackFrontier

LEMMA CleanAppend ==
  ASSUME NEW entries \in Seq(Entries), NoneFailed(entries), NEW entry \in Entries
  PROVE  /\ ~Failed(entry) => NoneFailed(Append(entries, entry))
         /\ entry.unit \in Units /\ DoneBefore(entries, entry.unit)
              => StackFrontier(Append(entries, entry)) /\ DoneBefore(Append(entries, entry), entry.unit)
<1>1. PICK n, longer : n = Len(entries) /\ longer = Append(entries, entry)
  OBVIOUS
<1>2. /\ n \in Nat /\ DOMAIN entries = 1 .. n /\ DOMAIN longer = 1 .. n + 1 /\ Len(longer) = n + 1
      /\ longer[n + 1] = entry /\ \A i \in 1 .. n : longer[i] = entries[i]
  BY <1>1, AppendProperties
<1>3. ASSUME NEW i \in 1 .. n + 1, Failed(longer[i]) PROVE i = n + 1 /\ longer[i] = entry
  <2>1. i \notin 1 .. n
    BY <1>2, <1>3 DEF NoneFailed
  <2>2. i = n + 1
    BY <1>2, <2>1
  <2>3. QED
    BY <1>2, <2>2
<1>4. ~Failed(entry) => NoneFailed(longer)
  BY <1>2, <1>3 DEF NoneFailed
<1>5. ASSUME entry.unit \in Units, DoneBefore(entries, entry.unit)
      PROVE  StackFrontier(longer) /\ DoneBefore(longer, entry.unit)
  <2>1. \A v \in Units : v # entry.unit /\ PassedOn(entries, v) => PassedOn(longer, v)
    BY <1>1, PassedAppend
  <2>2. PICK u \in Units : u = entry.unit
    BY <1>5
  <2>3. DoneBefore(longer, u)
    BY <1>5, <2>1, <2>2, DoneKept
  <2>4. QED
    BY <1>2, <1>3, <2>2, <2>3 DEF StackFrontier
<1>6. QED
  BY <1>1, <1>4, <1>5

-----------------------------------------------------------------------------
(* The frontier is kept by every step that absorbs no failure. *)

LEMMA FrontierAt ==
  ASSUME Frontier, UNCHANGED <<stack, unit>>, Walking,
         pc' \in {"returned", "settled"} /\ err'.kind = "none" => PassedOn(stack[Owner(unit)], unit)
  PROVE  Frontier'
BY DEF Frontier, InOrder, Walking, PassedOn, Newest, StackFrontier, DoneBefore, NoneFailed

LEMMA FrontierIdle ==
  ASSUME Frontier, pc' \in {"idle", "unwinding"},
         \A x \in Executors : stack'[x] \in {stack[x], <<>>}
  PROVE  Frontier'
<1>1. ASSUME NEW x \in Executors PROVE StackFrontier(stack'[x])
  <2>1. CASE stack'[x] = stack[x]
    BY <2>1 DEF Frontier
  <2>2. CASE stack'[x] = <<>>
    BY <2>2 DEF StackFrontier
  <2>3. QED
    BY <2>1, <2>2
<1>2. QED
  BY <1>1 DEF Frontier, Walking, StackFrontier

LEMMA FrontierFresh ==
  ASSUME Frontier, UNCHANGED stack, unit' = Root, pc' = "dispatch"
  PROVE  Frontier'
<1>1. Enclosing[Root] = {}
  BY TreeAssumption
<1>2. \A x \in Executors : StackFrontier(stack'[x])
  BY DEF Frontier
<1>3. DoneBefore(stack'[Owner(Root)], Root)
  BY DEF DoneBefore
<1>4. QED
  BY <1>1, <1>2, <1>3 DEF Frontier, Walking, InOrder, StackFrontier, DoneBefore

LEMMA FrontierNext ==
  ASSUME IInv, Frontier, NextChild
  PROVE  Frontier'
<1>1. /\ unit \in Units /\ unit # Root /\ Position(unit) # Len(Children[Owner(unit)])
      /\ pc = "settled" /\ err.kind = "none" /\ pc' = "dispatch" /\ UNCHANGED stack
  BY DEF NextChild, BodyDone, DispatchUnit, world, IInv, TypeOK
<1>2. /\ Owner(unit) \in Subgraphs /\ Children[Owner(unit)] \in Seq(Units)
      /\ Position(unit) \in 1 .. Len(Children[Owner(unit)])
      /\ Children[Owner(unit)][Position(unit)] = unit
  BY <1>1, OwnerTyped, PositionTyped, TreeAssumption
<1>3. PICK o, n : o = Owner(unit) /\ n = Position(unit)
  OBVIOUS
<1>4. n + 1 \in DOMAIN Children[o] /\ n \in Nat
  BY <1>1, <1>2, <1>3
<1>5. unit' = Children[o][n + 1]
  BY <1>3 DEF NextChild, DispatchUnit
<1>6. unit' \in Units \ {Root} /\ Owner(unit') = o /\ Position(unit') = n + 1
  BY <1>2, <1>3, <1>4, <1>5, ChildOf
<1>7. Enclosing[unit'] = Enclosing[unit]
  BY <1>1, <1>3, <1>6, EnclosingOf
<1>8. InOrder /\ PassedOn(stack[o], unit)
  BY <1>1, <1>3 DEF Frontier, Walking
<1>9. ASSUME NEW v \in Units \ {Root}, Owner(v) = o, Position(v) < n + 1
      PROVE  PassedOn(stack[o], v)
  <2>1. /\ Position(v) \in 1 .. Len(Children[o]) /\ Children[o][Position(v)] = v
        /\ Len(Children[o]) \in Nat
    BY <1>2, <1>3, <1>9, PositionTyped
  <2>2. CASE Position(v) = n
    BY <1>2, <1>3, <1>8, <2>1, <2>2
  <2>3. CASE Position(v) # n
    <3>1. Position(v) < n
      BY <1>4, <1>9, <2>1, <2>3
    <3>2. DoneBefore(stack[o], unit)
      BY <1>3, <1>8 DEF InOrder
    <3>3. QED
      BY <1>1, <1>3, <1>9, <3>1, <3>2 DEF DoneBefore
  <2>4. QED
    BY <2>2, <2>3
<1>10. PICK u : u = unit'
  OBVIOUS
<1>11. DoneBefore(stack[Owner(u)], u)
  BY <1>6, <1>9, <1>10 DEF DoneBefore
<1>12. \A w \in Enclosing[u] : DoneBefore(stack[Owner(w)], w) /\ NoneFailed(stack[Owner(w)])
  BY <1>7, <1>8, <1>10 DEF InOrder
<1>13. InOrder'
  BY <1>1, <1>10, <1>11, <1>12 DEF InOrder, DoneBefore, NoneFailed, PassedOn, Newest
<1>14. \A x \in Executors : StackFrontier(stack'[x])
  BY <1>1 DEF Frontier
<1>15. QED
  BY <1>1, <1>13, <1>14 DEF Frontier, StackFrontier

LEMMA FrontierNode ==
  ASSUME IInv, Frontier, unit \in Nodes, ~Replayed(unit), Walking,
         NEW entry \in Entries, entry.kind = "receipt", entry.unit = unit,
         stack' = [stack EXCEPT ![Owner(unit)] = Append(@, entry)], unit' = unit,
         Succeeded(entry) \/ err'.kind # "none"
  PROVE  Frontier'
<1>1. PICK o : o = Owner(unit)
  OBVIOUS
<1>2. unit \in Units /\ unit # Root /\ o \in Executors /\ stack \in [Executors -> Seq(Entries)]
  BY <1>1, TreeAssumption, OwnerTyped DEF Units, IInv, TypeOK
<1>3. PICK entries \in Seq(Entries) : entries = stack[o]
  BY <1>2
<1>4. /\ stack'[o] = Append(entries, entry)
      /\ \A x \in Executors : x # o => stack'[x] = stack[x]
  BY <1>1, <1>2, <1>3
<1>5. /\ InOrder /\ StackFrontier(entries) /\ DoneBefore(entries, unit)
  BY <1>1, <1>2, <1>3 DEF Frontier, InOrder
<1>6. NoneFailed(entries)
  <2>1. ~PassedOn(entries, unit)
    BY <1>1, <1>2, <1>3, PassedHere
  <2>2. ASSUME NEW i \in DOMAIN entries, Failed(entries[i]) PROVE FALSE
    <3>1. entries[i].unit = unit /\ entries[i].kind = "stack"
      BY <1>1, <1>2, <1>3, <1>5, <2>1, <2>2, FailedHere DEF Failed
    <3>2. entries \in Journal(o) /\ i \in 1 .. Len(entries)
      BY <1>2, <1>3, <2>2 DEF IInv, StacksOwned
    <3>3. OwnedBy(o, entries[i])
      BY <3>2 DEF Journal
    <3>4. QED
      BY <3>1, <3>3, TreeAssumption DEF OwnedBy
  <2>3. QED
    BY <2>2 DEF NoneFailed
<1>7. NoneFailed(Append(entries, entry)) /\ DoneBefore(Append(entries, entry), unit)
  BY <1>2, <1>5, <1>6, CleanAppend DEF Failed
<1>8. Succeeded(entry) => PassedOn(Append(entries, entry), unit)
  BY PassedAppend DEF KindOf
<1>9. \A x \in Executors : StackFrontier(stack'[x])
  <2>1. ASSUME NEW x \in Executors PROVE StackFrontier(stack'[x])
    <3>1. CASE x = o
      BY <1>4, <1>7, <3>1, CleanFrontier
    <3>2. CASE x # o
      BY <1>4, <3>2 DEF Frontier
    <3>3. QED
      BY <3>1, <3>2
  <2>2. QED
    BY <2>1
<1>10. \A w \in Enclosing[unit] : stack'[Owner(w)] = stack[Owner(w)]
  BY <1>1, <1>2, <1>4, OwnersApart
<1>11. \A w \in Enclosing[unit] : DoneBefore(stack'[Owner(w)], w) /\ NoneFailed(stack'[Owner(w)])
  BY <1>5, <1>10 DEF InOrder
<1>12. DoneBefore(stack'[o], unit) /\ (Succeeded(entry) => PassedOn(stack'[o], unit))
  BY <1>4, <1>7, <1>8
<1>13. InOrder'
  BY <1>1, <1>11, <1>12 DEF InOrder, DoneBefore, NoneFailed, PassedOn, Newest
<1>14. QED
  BY <1>1, <1>9, <1>12, <1>13 DEF Frontier, StackFrontier, PassedOn, Newest

LEMMA FrontierEnter ==
  ASSUME IInv, Frontier, NEW s \in Subgraphs, EnterSubgraph(s)
  PROVE  Frontier'
<1>1. /\ unit = s /\ s \in Units /\ s \in Executors /\ Walking /\ pc' = "dispatch"
      /\ ~(Prior(s) # 0 /\ Succeeded(stack[Owner(s)][Prior(s)]))
      /\ unit' = Children[s][1] /\ stack \in [Executors -> Seq(Entries)]
      /\ stack' = [stack EXCEPT ![Owner(s)] = Superseded(s), ![s] = ChildStack(s)]
  BY DEF EnterSubgraph, Entering, Clear, DispatchUnit, Walking, Units, Executors, IInv, TypeOK
<1>2. PICK o \in Executors : o = Owner(s)
  BY <1>1, OwnerTyped
<1>3. o # s
  BY <1>1, <1>2, EnclosingOf, RootTyped, TreeAssumption
<1>4. /\ stack'[o] = Superseded(s) /\ stack'[s] \in {<<>>, stack[s]}
      /\ \A x \in Executors : x \notin {o, s} => stack'[x] = stack[x]
  BY <1>1, <1>2, <1>3 DEF ChildStack
<1>5. InOrder /\ StackFrontier(stack[o]) /\ DoneBefore(stack[o], s) /\ ~PassedOn(stack[o], s)
  BY <1>1, <1>2, PassedHere DEF Frontier, InOrder
<1>6. NoneFailed(Superseded(s))
  BY <1>2, <1>5, SupersededClean
<1>7. DoneBefore(Superseded(s), s)
  <2>1. \A v \in Units : v # s /\ PassedOn(stack[o], v) => PassedOn(Superseded(s), v)
    BY <1>2, SupersededPassed
  <2>2. QED
    BY <1>1, <1>5, <2>1, DoneKept
<1>8. ASSUME NEW x \in Executors PROVE StackFrontier(stack'[x])
  <2>1. CASE x = o
    BY <1>4, <1>6, <2>1, CleanFrontier
  <2>2. CASE x # o
    <3>1. stack'[x] \in {<<>>, stack[x]}
      BY <1>4, <2>2
    <3>2. QED
      BY <3>1 DEF Frontier, StackFrontier
  <2>3. QED
    BY <2>1, <2>2
<1>9. PICK u : u = Children[s][1]
  OBVIOUS
<1>10. /\ u \in Units \ {Root} /\ Owner(u) = s /\ Position(u) = 1
       /\ Enclosing[u] = {s} \cup Enclosing[s]
  <2>1. 1 \in DOMAIN Children[s]
    <3>1. Children[s] \in Seq(Units) /\ Children[s] # <<>>
      BY TreeAssumption
    <3>2. QED
      BY <3>1
  <2>2. /\ u \in Units \ {Root} /\ Owner(u) = s /\ Position(u) = 1
    BY <1>9, <2>1, ChildOf
  <2>3. QED
    BY <2>2, EnclosingOf
<1>11. ASSUME NEW entries PROVE DoneBefore(entries, u)
  <2>1. ASSUME NEW v \in Units \ {Root}, Owner(v) = Owner(u), Position(v) < Position(u)
        PROVE  FALSE
    <3>1. Position(v) \in 1 .. Len(Children[s]) /\ Len(Children[s]) \in Nat
      BY <1>10, <2>1, PositionTyped, TreeAssumption
    <3>2. QED
      BY <1>10, <2>1, <3>1
  <2>2. QED
    BY <2>1 DEF DoneBefore
<1>12. ASSUME NEW w \in Enclosing[u]
       PROVE  DoneBefore(stack'[Owner(w)], w) /\ NoneFailed(stack'[Owner(w)])
  <2>1. CASE w = s
    BY <1>2, <1>4, <1>6, <1>7, <2>1
  <2>2. CASE w # s
    <3>1. w \in Enclosing[s]
      BY <1>10, <2>2
    <3>2. Owner(w) \in Executors /\ Owner(w) # o /\ Owner(w) # s
      BY <1>1, <1>2, <3>1, OwnersApart DEF Within
    <3>3. stack'[Owner(w)] = stack[Owner(w)]
      BY <1>4, <3>2
    <3>4. QED
      BY <1>1, <1>5, <3>1, <3>3 DEF InOrder
  <2>3. QED
    BY <2>1, <2>2
<1>13. DoneBefore(stack'[Owner(u)], u)
  BY <1>11
<1>14. u = unit' /\ \A w \in Enclosing[u] :
          DoneBefore(stack'[Owner(w)], w) /\ NoneFailed(stack'[Owner(w)])
  BY <1>1, <1>9, <1>12
<1>15. InOrder'
  BY <1>13, <1>14 DEF InOrder, DoneBefore, NoneFailed, PassedOn, Newest
<1>16. QED
  BY <1>1, <1>8, <1>15 DEF Frontier, StackFrontier

LEMMA FrontierFault ==
  ASSUME IInv, Frontier, NEW s \in Subgraphs, ScopeFault(s)
  PROVE  Frontier'
<1>1. /\ unit = s /\ unit' = s /\ s \in Units /\ Walking /\ pc' = "returned"
      /\ ~(Prior(s) # 0 /\ Succeeded(stack[Owner(s)][Prior(s)]))
      /\ err'.kind # "none"
  BY DEF ScopeFault, Entering, Clear, Returned, FrameworkFailure, Error, HardError, Walking, Units
<1>2. PICK o \in Executors : o = Owner(s)
  BY <1>1, OwnerTyped
<1>3. PICK entries :
         /\ entries \in {Superseded(s), Append(Superseded(s), Receipt(s, "failed", 0))}
         /\ Drop(s, entries)
  BY DEF ScopeFault
<1>4. /\ stack'[o] = entries
      /\ \A x \in Executors \ {o} : stack'[x] = IF x \in Within(s) THEN <<>> ELSE stack[x]
  BY <1>2, <1>3 DEF Drop
<1>5. InOrder /\ StackFrontier(stack[o]) /\ DoneBefore(stack[o], s) /\ ~PassedOn(stack[o], s)
  BY <1>1, <1>2, PassedHere DEF Frontier, InOrder
<1>6. NoneFailed(Superseded(s)) /\ DoneBefore(Superseded(s), s)
  <2>1. \A v \in Units : v # s /\ PassedOn(stack[o], v) => PassedOn(Superseded(s), v)
    BY <1>2, SupersededPassed
  <2>2. QED
    BY <1>1, <1>2, <1>5, <2>1, DoneKept, SupersededClean
<1>7. NoneFailed(entries) /\ DoneBefore(entries, s)
  <2>1. CASE entries = Superseded(s)
    BY <1>6, <2>1
  <2>2. CASE entries = Append(Superseded(s), Receipt(s, "failed", 0))
    <3>1. PICK old, entry : old = Superseded(s) /\ entry = Receipt(s, "failed", 0)
      OBVIOUS
    <3>2. old \in Seq(Entries) /\ entry \in Entries /\ ~Failed(entry) /\ entry.unit = s
      BY <1>1, <3>1, SupersededOwned
      DEF IInv, Journal, Receipt, Entries, ErrorKinds, Failed
    <3>3. NoneFailed(Append(old, entry)) /\ DoneBefore(Append(old, entry), s)
      BY <1>1, <1>6, <3>1, <3>2, CleanAppend
    <3>4. QED
      BY <2>2, <3>1, <3>3
  <2>3. QED
    BY <1>3, <2>1, <2>2
<1>8. ASSUME NEW x \in Executors PROVE StackFrontier(stack'[x])
  <2>1. CASE x = o
    BY <1>4, <1>7, <2>1, CleanFrontier
  <2>2. CASE x # o
    <3>1. stack'[x] \in {<<>>, stack[x]}
      BY <1>4, <2>2
    <3>2. QED
      BY <3>1 DEF Frontier, StackFrontier
  <2>3. QED
    BY <2>1, <2>2
<1>9. ASSUME NEW w \in Enclosing[s]
      PROVE  DoneBefore(stack'[Owner(w)], w) /\ NoneFailed(stack'[Owner(w)])
  <2>1. Owner(w) \in Executors /\ Owner(w) # o /\ Owner(w) \notin Within(s)
    BY <1>1, <1>2, OwnersApart
  <2>2. stack'[Owner(w)] = stack[Owner(w)]
    BY <1>4, <2>1
  <2>3. QED
    BY <1>1, <1>5, <2>2 DEF InOrder
<1>10. DoneBefore(stack'[Owner(s)], s)
  BY <1>2, <1>4, <1>7
<1>11. InOrder'
  BY <1>1, <1>9, <1>10 DEF InOrder, DoneBefore, NoneFailed, PassedOn, Newest
<1>12. QED
  BY <1>1, <1>8, <1>11 DEF Frontier, StackFrontier

LEMMA FrontierExit ==
  ASSUME IInv, Frontier, ExitSubgraph
  PROVE  Frontier'
<1>1. PICK s, x, entry :
         s = Owner(unit) /\ x = Owner(s) /\ entry = Nested(s, err.kind)
  OBVIOUS
<1>2. /\ unit \in Units /\ unit # Root /\ unit' = s /\ pc' = "returned" /\ Walking
      /\ err' = err
  BY <1>1 DEF IInv, TypeOK, ExitSubgraph, Returned, Walking
<1>3. s \in Subgraphs /\ s \in Units /\ Enclosing[unit] = {s} \cup Enclosing[s]
  BY <1>1, <1>2, EnclosingOf
<1>4. x \in Executors /\ stack \in [Executors -> Seq(Entries)]
  BY <1>1, <1>3, OwnerTyped DEF IInv, TypeOK
<1>5. PICK entries \in Seq(Entries) : entries = stack[x]
  BY <1>4
<1>6. /\ entry \in Entries /\ entry.unit = s /\ entry.kind = KindOf(s)
      /\ entry.error = err.kind
  BY <1>1, <1>3, TreeAssumption DEF Nested, Entries, IInv, TypeOK, Errors, KindOf
<1>7. /\ stack'[x] = Append(entries, entry)
      /\ \A y \in Executors : y # x => stack'[y] = stack[y]
  BY <1>1, <1>4, <1>5 DEF ExitSubgraph, Recorded
<1>8. InOrder /\ NoneFailed(entries) /\ DoneBefore(entries, s)
  BY <1>1, <1>2, <1>3, <1>5 DEF Frontier, InOrder
<1>9. StackFrontier(Append(entries, entry)) /\ DoneBefore(Append(entries, entry), s)
  BY <1>3, <1>6, <1>8, CleanAppend
<1>10. err.kind = "none" => PassedOn(Append(entries, entry), s)
  BY <1>6, PassedAppend DEF Succeeded
<1>11. \A y \in Executors : StackFrontier(stack'[y])
  <2>1. ASSUME NEW y \in Executors PROVE StackFrontier(stack'[y])
    <3>1. CASE y = x
      BY <1>7, <1>9, <3>1
    <3>2. CASE y # x
      BY <1>7, <3>2 DEF Frontier
    <3>3. QED
      BY <3>1, <3>2
  <2>2. QED
    BY <2>1
<1>12. ASSUME NEW w \in Enclosing[s]
       PROVE  DoneBefore(stack'[Owner(w)], w) /\ NoneFailed(stack'[Owner(w)])
  <2>1. stack'[Owner(w)] = stack[Owner(w)]
    BY <1>1, <1>3, <1>7, OwnersApart
  <2>2. QED
    BY <1>3, <1>8, <2>1 DEF InOrder
<1>13. /\ DoneBefore(stack'[Owner(s)], s)
       /\ err.kind = "none" => PassedOn(stack'[Owner(s)], s)
  BY <1>1, <1>7, <1>9, <1>10
<1>14. InOrder'
  BY <1>2, <1>12, <1>13 DEF InOrder, DoneBefore, NoneFailed, PassedOn, Newest
<1>15. QED
  BY <1>2, <1>11, <1>13, <1>14 DEF Frontier, StackFrontier, PassedOn, Newest

(* What reports no error has passed, unless a handler absorbed it. *)
LEMMA PassesHere ==
  ASSUME IInv, Frontier, Execution, ~Journals, ~NextChild
  PROVE  /\ unit' = unit
         /\ pc' \in {"returned", "settled"} /\ err'.kind = "none" => PassedOn(stack[Owner(unit)], unit)
<1>1. CASE ReplayNode \/ PruneSubgraph
  <2>1. /\ unit' = unit /\ unit \in Units
    BY <1>1 DEF ReplayNode, PruneSubgraph, IInv, TypeOK
  <2>2. PassedOn(stack[Owner(unit)], unit)
    BY <1>1, <2>1, PassedHere DEF ReplayNode, PruneSubgraph
  <2>3. QED
    BY <2>1, <2>2
<1>2. CASE ExitCancelled \/ UnboundNode \/ Panic
  BY <1>2 DEF ExitCancelled, UnboundNode, Panic, Settled, Returned, FrameworkFailure, Error, HardError
<1>3. CASE ControlPoint
  BY <1>3 DEF ControlPoint, Returned, Interruption, Error
<1>4. QED
  BY <1>1, <1>2, <1>3 DEF Execution, Journals

LEMMA SettlesHere ==
  ASSUME IInv, Frontier, Adjudication, ~Absorbs
  PROVE  pc' \in {"returned", "settled"} /\ err'.kind = "none" => PassedOn(stack[Owner(unit)], unit)
<1>1. CASE Succeed
  BY <1>1 DEF Succeed, Frontier
<1>2. CASE GiveUp
  BY <1>2 DEF GiveUp, Settled
<1>3. CASE Retry
  BY <1>3 DEF Retry, NextAttempt
<1>4. CASE Exhaust
  <2>1. err.kind # "none"
    BY <1>4 DEF Exhaust, Adjudicated
  <2>2. Standing(err, "action_failed").kind = err.kind
    BY DEF Standing, Error
  <2>3. QED
    BY <1>4, <2>1, <2>2 DEF Exhaust, Resolve, Settled
<1>5. CASE Handling
  <2>1. pc' # "returned"
    <3>1. CASE HandlerInterrupted
      BY <1>5, <3>1 DEF HandlerInterrupted, Settled, Handling
    <3>2. ASSUME NEW v \in HandlerVerdicts, HandlerReturns(v)
          PROVE  pc' # "returned"
      <4> DEFINE verdict == Verdict(v, Owner(unit))
      <4>1. CASE verdict = "error"
        BY <3>2, <4>1 DEF HandlerReturns, Settled
      <4>2. CASE verdict = "pause"
        BY <3>2, <4>2 DEF HandlerReturns, Settled
      <4>3. CASE verdict = "falsy"
        BY <1>5, <3>2, <4>3 DEF HandlerReturns, Settled, Resolve, Handling
      <4>4. CASE verdict \notin {"error", "pause", "falsy"}
        BY <3>2, <4>4 DEF HandlerReturns, Settled, NextAttempt
      <4>5. QED
        BY <4>1, <4>2, <4>3, <4>4
    <3>3. QED
      BY <1>5, <3>1, <3>2
      DEF Adjudication, Handling, Succeed, GiveUp, Retry, Exhaust, Adjudicated
  <2>2. QED
    BY <1>5, <2>1 DEF Absorbs
<1>6. QED
  BY <1>1, <1>2, <1>3, <1>4, <1>5 DEF Adjudication, HandlerInterrupted, HandlerReturns

LEMMA FrontierStep ==
  ASSUME IInv, Frontier, [Next]_vars, ~Absorbs
  PROVE  Frontier'
<1>1. CASE Execution
  <2>1. ASSUME NEW outcome \in NodeOutcomes, RunNode(outcome) \/ AssertNode(outcome)
        PROVE  Frontier'
    <3> DEFINE error == IF outcome \in {"fail", "partial"} THEN "failed" ELSE "none"
               acts  == outcome \in {"ok", "partial"}
               entry == IF RunNode(outcome)
                        THEN Receipt(unit, error, IF acts THEN clock + 1 ELSE 0)
                        ELSE Receipt(unit, "none", 0)
    <3>1. /\ unit \in Nodes /\ unit \in Units /\ clock \in Nat /\ unit' = unit
          /\ Walking /\ ~Replayed(unit)
      BY <2>1 DEF RunNode, AssertNode, NodeMay, Clear, Walking, IInv, TypeOK
    <3>2. entry \in Entries /\ entry.kind = "receipt" /\ entry.unit = unit
      BY <3>1 DEF Entries, Receipt, ErrorKinds
    <3>3. stack' = [stack EXCEPT ![Owner(unit)] = Append(@, entry)]
      BY <2>1 DEF RunNode, AssertNode
    <3>4. Succeeded(entry) \/ err'.kind # "none"
      BY <2>1 DEF RunNode, AssertNode, Returned, Error, Receipt, Succeeded
    <3> HIDE DEF entry
    <3>5. QED
      BY <3>1, <3>2, <3>3, <3>4, FrontierNode
  <2>2. CASE Journals
    BY <2>1, <2>2, FrontierEnter, FrontierFault, FrontierExit DEF Journals
  <2>3. CASE NextChild
    BY <2>3, FrontierNext
  <2>4. CASE ~Journals /\ ~NextChild
    BY <1>1, <2>4, QuietExecution, PassesHere, FrontierAt
  <2>5. QED
    BY <2>2, <2>3, <2>4
<1>2. CASE Adjudication
  BY <1>2, QuietAdjudication, SettlesHere, FrontierAt
<1>3. CASE Ending
  <2>1. pc' \in {"idle", "unwinding"} /\ \A x \in Executors : stack'[x] \in {stack[x], <<>>}
    <3>1. CASE Ascend \/ Land
      BY <3>1, ClearedStacks DEF Ascend, Land
    <3>2. CASE ~(Ascend \/ Land)
      BY <1>3, <3>2 DEF Ending, Complete, Park, Fail, BeginUnwind, SkipEntry, Compensate, Descend,
                        Unwinding, world
    <3>3. QED
      BY <3>1, <3>2
  <2>2. QED
    BY <2>1, FrontierIdle
<1>4. CASE Host
  <2>1. CASE Start \/ \E mode \in ResumeModes : Resume(mode)
    BY <2>1, FrontierFresh DEF Start, Resume, DispatchUnit, world
  <2>2. CASE StartRefused \/ ResumeRefused \/ ResumeUnwind
    <3>1. pc' \in {"idle", "unwinding"} /\ UNCHANGED stack
      BY <2>2 DEF StartRefused, ResumeRefused, ResumeUnwind, LandPreflightFailure, BeginUnwind,
                  world, IInv, Unstarted
    <3>2. QED
      BY <3>1, FrontierIdle
  <2>3. QED
    BY <1>4, <2>1, <2>2 DEF Host
<1>5. CASE Consumer \/ UNCHANGED vars
  <2>1. UNCHANGED <<stack, unit, pc, err>>
    BY <1>5 DEF Consumer, Cancel, Request, world, vars
  <2>2. QED
    BY <2>1 DEF Frontier, InOrder, Walking, PassedOn, Newest, StackFrontier, DoneBefore, NoneFailed
<1>6. QED
  BY <1>1, <1>2, <1>3, <1>4, <1>5 DEF Next, Progress

LEMMA FrontierInit == Init => Frontier
BY DEF Init, Frontier, StackFrontier, Walking

(* A parked run has one frontier: on each of its stacks the only nested      *)
(* stack that a resumed run adopts rather than prunes (adoptPriorStack) is   *)
(* the newest entry, in every run in which no failure handler has stood in   *)
(* for what failed.  A handler that does lets the walk go on past a unit     *)
(* that the resumed run dispatches again, above the frontier.                *)
THEOREM FrontierStays == Spec /\ [][~Absorbs]_vars => []FrontierIsNewest
<1> DEFINE Inv == IInv /\ Frontier
<1>1. Init => Inv
  BY InitShaped, FrontierInit
<1>2. Inv /\ [Next]_vars /\ [~Absorbs]_vars => Inv'
  <2>1. CASE UNCHANGED vars
    <3>1. ASSUME Inv, UNCHANGED vars PROVE Frontier'
      BY <3>1 DEF vars, world, Frontier, InOrder, Walking, PassedOn, Newest, StackFrontier,
                  DoneBefore, NoneFailed
    <3>2. QED
      BY <2>1, <3>1, StepShaped
  <2>2. CASE ~Absorbs
    BY <2>2, StepShaped, FrontierStep
  <2>3. QED
    BY <2>1, <2>2
<1>3. Inv => FrontierIsNewest
  BY DEF Frontier, FrontierIsNewest, StackFrontier, Failed
<1>4. QED
  BY <1>1, <1>2, <1>3, PTL DEF Spec


=============================================================================
