--------------------------- MODULE GraphExecutor ---------------------------
(***************************************************************************)
(* One run of the execution engine (pkg/op): GraphExecutor.Run walks the   *)
(* tree of subgraphs and nodes, every dispatch leaves a receipt on the     *)
(* recovery stack of the saga boundary it ran in, and the run ends by      *)
(* completing, by parking on those stacks (paused), or by unwinding them.  *)
(*                                                                         *)
(* The Go call stack is not modelled: the tree is static, so the executor  *)
(* that dispatches a unit is Owner(unit), and pc says how far the dispatch *)
(* of `unit` has come.  A subgraph has at most one recovery stack at a     *)
(* time, so the nested stack an entry carries is stack[entry.unit].        *)
(***************************************************************************)
EXTENDS RunStatus, FiniteSets, SequencesExt

CONSTANTS
  Nodes,        \* leaf units, each bound to an action
  Subgraphs,    \* saga boundaries, bound to flow.subgraph
  Root,         \* the graph's root subgraph
  Top,          \* the executor GraphExecutor.Run dispatches the root with
  Children,     \* [Subgraphs -> Seq(Units)], in declaration order
  Enclosing,    \* [Units -> SUBSET Subgraphs], the boundaries around a unit
  Unset,        \* a policy that was not given
  RetryPolicy,  \* [Units -> Nat \cup {Unset}], MaxAttempts where given
  Structural,   \* subgraphs that inherit policies.retry when unset
  DefaultRetry, \* MaxAttempts of policies.retry (3 at the builtin floor)
  Transitions,  \* [Units -> Policies \cup {Unset}]
  OnRetry, OnError, \* units that carry the handler
  Completes,    \* nodes bound to flow.complete: an early return of the body
  Outcomes,     \* [Nodes -> SUBSET NodeOutcomes], what dispatching one can do
  Faults,       \* [Subgraphs -> SUBSET ScopeFaults], what entering one can meet
  Verdicts,     \* what a failure handler can do
  Irreversible, \* nodes whose Compensate may fail
  Commands,     \* what a consumer can ask of the control plane
  Cancellable,  \* whether the run's context may be cancelled
  ResumeModes,  \* "executor": Run again; "trace": ResumeExecutor, then Run
  PreflightMayFail, \* whether environment build, binding, rehydrate may fail
  MaxCommands, \* bound: commands a run receives
  MaxResumes   \* bound: times a host takes the run up again, or Unset

Units     == Nodes \cup Subgraphs
Executors == Subgraphs \cup {Top}

NodeOutcomes    == {"ok", "read", "fail", "partial", "degraded", "failed", "unbound"}
ScopeFaults     == {"claims", "unbound"}
HandlerVerdicts == {"truthy", "falsy", "error", "degrade"}

(* The executor that dispatches a unit, and the unit's place among its siblings. *)
Owner(u)    == IF u = Root THEN Top
               ELSE CHOOSE s \in Subgraphs : u \in Range(Children[s])
Position(u) == CHOOSE i \in DOMAIN Children[Owner(u)] : Children[Owner(u)][i] = u
Within(s)   == {x \in Subgraphs : x = s \/ s \in Enclosing[x]}

ASSUME TreeAssumption ==
  /\ Root \in Subgraphs /\ Top \notin Units /\ Nodes \cap Subgraphs = {}
  /\ Children \in [Subgraphs -> Seq(Units \ {Root}) \ {<<>>}]
  /\ \A s \in Subgraphs : IsInjective(Children[s])
  /\ \A u \in Units \ {Root} :
       /\ \E s \in Subgraphs : {t \in Subgraphs : u \in Range(Children[t])} = {s}
       /\ Enclosing[u] = {Owner(u)} \cup Enclosing[Owner(u)]
       /\ Enclosing[u] = {Owner(x) : x \in ({u} \cup Enclosing[u]) \ {Root}}
       /\ Root \in Enclosing[u] /\ u \notin Enclosing[u]
       /\ \A s \in Enclosing[u] : Enclosing[s] \subseteq Enclosing[u]
  /\ Enclosing \in [Units -> SUBSET Subgraphs] /\ Enclosing[Root] = {}

ASSUME PolicyAssumption ==
  /\ Unset \notin Nat /\ Unset \notin Policies
  /\ RetryPolicy \in [Units -> Nat \cup {Unset}] /\ DefaultRetry \in Nat
  /\ Transitions \in [Units -> Policies \cup {Unset}]
  /\ Structural \subseteq Subgraphs /\ Completes \subseteq Nodes

ASSUME EnvironmentAssumption ==
  /\ Outcomes \in [Nodes -> SUBSET NodeOutcomes]
  /\ Faults \in [Subgraphs -> SUBSET ScopeFaults]
  /\ Verdicts \subseteq HandlerVerdicts
  /\ Commands \subseteq {"pause", "stop", "step"}
  /\ ResumeModes \subseteq {"executor", "trace"}
  /\ Cancellable \in BOOLEAN /\ PreflightMayFail \in BOOLEAN
  /\ MaxCommands \in Nat /\ MaxResumes \in Nat \cup {Unset}

(* retryPolicyFor: how many retries a unit gets; the root inherits none. *)
Retries(u) ==
  IF RetryPolicy[u] # Unset THEN RetryPolicy[u]
  ELSE IF u \in Structural \ {Root} THEN DefaultRetry ELSE 0

(* transitionPolicyFor: the unit's own policy, the root's, the builtin floor. *)
RunPolicy    == IF Transitions[Root] # Unset THEN Transitions[Root] ELSE FloorPolicy
PolicyFor(u) == IF Transitions[u] # Unset THEN Transitions[u] ELSE RunPolicy

VARIABLES
  phase,       \* RunStatus.Phase of the top executor
  exec,        \* [Executors -> Statuses]: condition, reason, pendingReaction
  stack,       \* [Executors -> Seq(Entry)]: the recovery stacks
  pc,          \* how far the dispatch of `unit` has come
  unit,        \* the unit being dispatched
  err,         \* the error in flight
  attempt,     \* [Units -> Nat]: the attempt index of each unit's dispatch loop
  cancelled,   \* the run's context is done
  requests,    \* commands queued on the control plane
  acked,       \* the command the run last acknowledged and has not yet served
  cursor,      \* Unwind's call stack: which stack, which entry, any failure yet
  tried,       \* effects whose compensation this unwind has attempted
  outstanding, \* effects standing in the world
  clock,       \* effects performed so far
  issued, resumes

control    == <<cancelled, requests, acked, issued, resumes>>
unwinding  == <<cursor, tried>>
world      == <<stack, outstanding, clock>>
vars == <<phase, exec, pc, unit, err, attempt, control, unwinding, world>>

(* What a recovery stack holds: a committed receipt (token 0 when it carries *)
(* nothing to compensate) or a nested stack, each stamped with its unit and  *)
(* the kind of error its dispatch returned.  Only whether there was one      *)
(* survives serialization, so the code never asks for more.                  *)
Entries == [kind : {"receipt", "stack"}, unit : Units, error : ErrorKinds, token : Nat]
Effects == [id : Nat, unit : Units, whole : BOOLEAN]

Receipt(u, error, token) ==
  [kind |-> "receipt", unit |-> u, error |-> error, token |-> token]
Nested(s, error) ==
  [kind |-> "stack", unit |-> s, error |-> error, token |-> 0]

Succeeded(entry) == entry.error = "none"
EffectOf(entry)  == [id |-> entry.token, unit |-> entry.unit, whole |-> Succeeded(entry)]
EffectsOn(entries) ==
  {EffectOf(entries[i]) : i \in {j \in DOMAIN entries : entries[j].token # 0}}

(* receiptByUnitID and NestedStackByUnitID search one stack from the top;    *)
(* 0 when the unit left none.                                                *)
LastOf(kind, entries, u) ==
  LET places == {i \in DOMAIN entries : entries[i].unit = u /\ entries[i].kind = kind}
  IN  IF places = {} THEN 0
      ELSE CHOOSE i \in places : \A j \in places : j <= i

Pcs == {"idle", "dispatch", "returned", "gate", "exhausted", "vetoed", "settled",
        "unwinding", "crashed"}
Frames == [at : Nat, of : Executors, dirty : BOOLEAN]

TypeOK ==
  /\ phase \in Phases /\ pc \in Pcs
  /\ exec \in [Executors -> Statuses]
  /\ stack \in [Executors -> Seq(Entries)]
  /\ unit \in Units /\ err \in Errors
  /\ attempt \in [Units -> Nat]
  /\ cancelled \in BOOLEAN
  /\ requests \in Seq({"pause", "stop", "step"})
  /\ acked \in {"none", "pause", "stop"}
  /\ cursor \in Seq(Frames)
  /\ tried \in SUBSET Effects /\ outstanding \in SUBSET Effects
  /\ clock \in Nat /\ issued \in Nat /\ resumes \in Nat

Init ==
  /\ phase = "preparing" /\ pc = "idle"
  /\ exec = [x \in Executors |-> FreshStatus]
  /\ stack = [x \in Executors |-> <<>>]
  /\ unit = Root /\ err = NoError
  /\ attempt = [u \in Units |-> 0]
  /\ cancelled = FALSE /\ requests = <<>> /\ acked = "none"
  /\ cursor = <<>> /\ tried = {}
  /\ outstanding = {} /\ clock = 0 /\ issued = 0 /\ resumes = 0

-----------------------------------------------------------------------------
(* The run's environment. *)

(* ControlPlane.Request, which Pause and Stop call while the run is running. *)
Request(command) ==
  /\ phase \in {"running", "paused", "stopping"} /\ issued < MaxCommands
  /\ requests' = Append(requests, command)
  /\ issued' = issued + 1
  /\ UNCHANGED <<phase, exec, pc, unit, err, attempt, unwinding, world,
                 cancelled, acked, resumes>>

Cancel ==
  /\ Cancellable /\ ~cancelled /\ phase \in {"running", "stopping"}
  /\ cancelled' = TRUE
  /\ UNCHANGED <<phase, exec, pc, unit, err, attempt, unwinding, world,
                 requests, acked, issued, resumes>>

-----------------------------------------------------------------------------
(* Run's preflight and its two entrances. *)

(* Dispatch a unit from its first attempt. *)
DispatchUnit(u) ==
  /\ unit' = u /\ pc' = "dispatch" /\ err' = NoError
  /\ attempt' = [attempt EXCEPT ![u] = 0]

LandPreflightFailure ==
  /\ PreflightMayFail
  /\ phase' = "stopped"
  /\ exec' = [exec EXCEPT ![Top] = [@ EXCEPT !.condition = ExecutionFailed,
                                              !.reason = "preflight_failed"]]
  /\ UNCHANGED <<pc, unit, err, attempt, unwinding, world, control>>

Start ==
  /\ phase = "preparing"
  /\ phase' = "running"
  /\ DispatchUnit(Root)
  /\ UNCHANGED <<exec, unwinding, world, control>>

StartRefused == phase = "preparing" /\ LandPreflightFailure

\* Mutant of ResumedReaction: the trace carries the reaction as well.
ReactionKept(mode) == exec[Top].reaction
ResumedReaction(mode) == IF mode = "trace" THEN Continue ELSE exec[Top].reaction

TakenUp == \/ MaxResumes = Unset /\ UNCHANGED resumes
           \/ MaxResumes # Unset /\ resumes < MaxResumes /\ resumes' = resumes + 1

(* A paused run goes on over the stacks it parked: on the same executor, with *)
(* its recorded reaction and its queued requests, or on a fresh one built     *)
(* from the trace, which keeps the status and the stacks only.                *)
Resume(mode) ==
  /\ phase = "paused" /\ pc = "idle" /\ TakenUp
  /\ phase' = "running"
  /\ DispatchUnit(Root)
  /\ cancelled' = FALSE /\ acked' = "none"
  /\ IF mode = "trace"
     THEN requests' = <<>>
     ELSE UNCHANGED requests
  /\ exec' = [exec EXCEPT ![Top] = [@ EXCEPT !.reaction = ResumedReaction(mode)]]
  /\ UNCHANGED <<unwinding, world, issued>>

ResumeRefused == phase = "paused" /\ pc = "idle" /\ LandPreflightFailure

-----------------------------------------------------------------------------
(* Subgraph.Execute and Node.Execute. *)

Returned(error) == pc' = "returned" /\ err' = error
Settled(error)  == pc' = "settled" /\ err' = error

(* Exit 1, and a backoff wait cut short: the context is done.  The receipt   *)
(* pushed here is never committed: no unit, nothing to compensate.           *)
ExitCancelled ==
  /\ pc = "dispatch" /\ cancelled
  /\ Settled(Error("failed", "unspecified"))
  /\ UNCHANGED <<phase, exec, unit, attempt, unwinding, world, control>>

(* controlPoint drains one command; it moves the status of the executor that *)
(* polled, which is the run's own only for the root unit.                    *)
Acknowledge(x, command) ==
  /\ requests' = Tail(requests)
  /\ acked' = IF command = "step" THEN acked ELSE command
  /\ exec' = CASE command = "pause" -> [exec EXCEPT ![x] = [@ EXCEPT !.reason = "paused"]]
               [] command = "stop"  -> [exec EXCEPT ![x] = [@ EXCEPT !.reason = "stopped"]]
               [] OTHER             -> exec
  /\ phase' = CASE x = Top /\ command = "pause" -> "paused"
                [] x = Top /\ command = "stop"  -> "stopping"
                [] OTHER                        -> phase
  /\ UNCHANGED <<cancelled, issued, resumes>>

\* Mutants of Interruption: the command for the sentinel; the sentinel lost.
InterruptionRaw(command)  == command
Interruption(command) == IF command = "pause" THEN "paused" ELSE "stopped"

ControlPoint ==
  /\ pc = "dispatch" /\ ~cancelled /\ requests # <<>>
  /\ Acknowledge(Owner(unit), Head(requests))
  /\ IF Head(requests) = "step"
     THEN UNCHANGED <<pc, err>>
     ELSE Returned(Error(Interruption(Head(requests)), "unspecified"))
  /\ UNCHANGED <<unit, attempt, unwinding, world>>

Clear == pc = "dispatch" /\ ~cancelled /\ requests = <<>>

(* A node whose latest receipt succeeded is replayed, never re-dispatched. *)
\* Mutant of Replayed: a resumed or retried body dispatches every node again.
ReplaysNothing(u) == FALSE
Replayed(u) ==
  LET entries == stack[Owner(u)]
      last    == LastOf("receipt", entries, u)
  IN  last # 0 /\ Succeeded(entries[last])

ReplayNode ==
  /\ Clear /\ unit \in Nodes /\ Replayed(unit)
  /\ Returned(NoError)
  /\ UNCHANGED <<phase, exec, unit, attempt, unwinding, world, control>>

NodeMay(outcome) ==
  /\ Clear /\ unit \in Nodes /\ ~Replayed(unit)
  /\ outcome \in Outcomes[unit]

(* Do and its audit receipt: an effect with its compensator ("ok"), a result *)
(* with none ("read"), an error ("fail"), an error that still hands back the *)
(* compensator of what it had done ("partial").                              *)
RunNode(outcome) ==
  LET error == IF outcome \in {"fail", "partial"} THEN "failed" ELSE "none"
      acts  == outcome \in {"ok", "partial"}
      entry == Receipt(unit, error, IF acts THEN clock + 1 ELSE 0)
  IN  /\ outcome \in {"ok", "read", "fail", "partial"} /\ NodeMay(outcome)
      /\ stack' = [stack EXCEPT ![Owner(unit)] = Append(@, entry)]
      /\ IF acts THEN /\ outstanding' = outstanding \cup {EffectOf(entry)}
                      /\ clock' = clock + 1
                 ELSE UNCHANGED <<outstanding, clock>>
      /\ Returned(Error(error, "unspecified"))
      /\ UNCHANGED <<phase, exec, unit, attempt, unwinding, control>>

(* flow.Degraded and flow.Failed: the node succeeds and flips the condition. *)
AssertedCondition(outcome) == IF outcome = "degraded" THEN Degraded ELSE ExecutionFailed

AssertNode(outcome) ==
  LET x == Owner(unit)
      condition == AssertedCondition(outcome)
  IN  /\ outcome \in {"degraded", "failed"} /\ NodeMay(outcome)
      /\ Accepts(exec[x], condition)
      /\ exec' = [exec EXCEPT ![x] =
                    AfterTransition(@, PolicyFor(unit), condition, outcome)]
      /\ stack' = [stack EXCEPT ![x] = Append(@, Receipt(unit, "none", 0))]
      /\ Returned(NoError)
      /\ UNCHANGED <<phase, unit, attempt, unwinding, outstanding, clock, control>>

(* frameworkFailure: flip to execution_failed, bypass retry and handlers. *)
FrameworkFailure(x) ==
  /\ exec' = [exec EXCEPT ![x] =
                AfterTransition(@, PolicyFor(unit), ExecutionFailed, "framework_failed")]
  /\ Returned(HardError("framework_failed"))

UnboundNode ==
  /\ NodeMay("unbound")
  /\ FrameworkFailure(Owner(unit))
  /\ UNCHANGED <<phase, unit, attempt, unwinding, world, control>>

(* adoptPriorStack: 0 on a first dispatch. *)
Prior(s) == LastOf("stack", stack[Owner(s)], s)

PruneSubgraph ==
  /\ Clear /\ unit \in Subgraphs
  /\ Prior(unit) # 0 /\ Succeeded(stack[Owner(unit)][Prior(unit)])
  /\ Returned(NoError)
  /\ UNCHANGED <<phase, exec, unit, attempt, unwinding, world, control>>

Entering(s) ==
  /\ Clear /\ unit = s /\ s \in Subgraphs
  /\ Prior(s) # 0 => ~Succeeded(stack[Owner(s)][Prior(s)])

\* Mutant of Superseded: the stale entry stays beside the fresh one.
EntryKept(s) == stack[Owner(s)]

(* The parent's stack once an adopted stack's stale entry is superseded. *)
Superseded(s) ==
  LET entries == stack[Owner(s)]
      place == CHOOSE i \in DOMAIN entries : /\ entries[i].unit = s
                 /\ \A j \in DOMAIN entries : entries[j].unit = s => j <= i
  IN  IF Prior(s) = 0 THEN entries ELSE RemoveAt(entries, place)

\* Mutant of ChildStack: an adopted stack is started over.
ChildStackFresh(s) == <<>>
ChildStack(s) == IF Prior(s) = 0 THEN <<>> ELSE stack[s]

(* newChildExecutor over the adopted stack or a fresh one, then the body. *)
EnterSubgraph(s) ==
  /\ Entering(s)
  /\ stack' = [stack EXCEPT ![Owner(s)] = Superseded(s),
                            ![s] = ChildStack(s)]
  /\ exec' = [exec EXCEPT ![s] = FreshStatus]
  /\ DispatchUnit(Children[s][1])
  /\ UNCHANGED <<phase, unwinding, outstanding, clock, control>>

(* The scope fails between the adoption and the body: no compensator goes    *)
(* with the exit, so an adopted stack is nested nowhere and dropped.         *)
Drop(s, entries) ==
  stack' = [x \in Executors |-> IF x = Owner(s) THEN entries
                                ELSE IF x \in Within(s) THEN <<>> ELSE stack[x]]

ScopeFault(s) ==
  /\ Entering(s)
  /\ \/ /\ "claims" \in Faults[s]
        /\ Drop(s, Append(Superseded(s), Receipt(s, "failed", 0)))
        /\ Returned(Error("failed", "preflight_failed"))
        /\ exec' = [exec EXCEPT ![s] = FreshStatus]
     \/ /\ "unbound" \in Faults[s]
        /\ Drop(s, Superseded(s))
        /\ FrameworkFailure(Owner(s))
  /\ UNCHANGED <<phase, unit, attempt, unwinding, outstanding, clock, control>>

-----------------------------------------------------------------------------
(* walkSubgraphChildren, and the exits of Subgraph.Execute. *)

BodyDone(u) ==
  err.kind # "none" \/ u \in Completes \/ Position(u) = Len(Children[Owner(u)])

NextChild ==
  /\ pc = "settled" /\ unit # Root /\ ~BodyDone(unit)
  /\ DispatchUnit(Children[Owner(unit)][Position(unit) + 1])
  /\ UNCHANGED <<phase, exec, unwinding, world, control>>

(* The body's stack is stamped with the outcome and nested in the parent's.  *)
Recorded(s) == Append(stack[Owner(s)], Nested(s, err.kind))

(* Bubble-up: the condition of a body that returned cleanly or paused is     *)
(* recorded on the parent; a failure rides the error instead.                *)
BubblesUp(s) == err.kind \in {"none", "paused"} /\ exec[s].condition > Healthy

ExitSubgraph ==
  LET s == Owner(unit)
      x == Owner(s)
  IN  /\ pc = "settled" /\ unit # Root /\ BodyDone(unit)
      /\ BubblesUp(s) => Accepts(exec[x], exec[s].condition)
      /\ exec' = IF BubblesUp(s)
                 THEN [exec EXCEPT ![x] = AfterTransition(@, PolicyFor(s),
                                            exec[s].condition, exec[s].reason)]
                 ELSE exec
      /\ stack' = [stack EXCEPT ![x] = Recorded(s)]
      /\ unit' = s /\ Returned(err)
      /\ UNCHANGED <<phase, attempt, unwinding, outstanding, clock, control>>

(* A refused transition is asserted away at these two call sites: the panic  *)
(* leaves Run, and with it the process.                                      *)
Panic ==
  /\ \/ \E outcome \in {"degraded", "failed"} :
          NodeMay(outcome) /\ ~Accepts(exec[Owner(unit)], AssertedCondition(outcome))
     \/ /\ pc = "settled" /\ unit # Root /\ BodyDone(unit) /\ BubblesUp(Owner(unit))
        /\ ~Accepts(exec[Owner(Owner(unit))], exec[Owner(unit)].condition)
  /\ pc' = "crashed"
  /\ UNCHANGED <<phase, exec, unit, err, attempt, unwinding, world, control>>

-----------------------------------------------------------------------------
(* dispatchWithPolicy, after Execute has returned. *)

(* The reaction is read and never reset: it stays pending on this executor. *)
Succeed ==
  LET status == exec[Owner(unit)]
  IN  /\ pc = "returned" /\ err.kind = "none"
      /\ Settled(CASE status.reaction = Stop  -> HardError(status.reason)
                   [] status.reaction = Pause -> Error("paused", "unspecified")
                   [] OTHER                   -> NoError)
      /\ UNCHANGED <<phase, exec, unit, attempt, unwinding, world, control>>

GiveUp ==
  /\ pc = "returned" /\ err.kind # "none"
  /\ err.kind = "paused" \/ cancelled \/ err.hard
  /\ Settled(err)
  /\ UNCHANGED <<phase, exec, unit, attempt, unwinding, world, control>>

\* Mutants of Adjudicated: pauses and hard failures are retried and handled.
PauseAdjudicated == pc = "returned" /\ err.kind # "none" /\ ~cancelled /\ ~err.hard
HardAdjudicated  == pc = "returned" /\ err.kind \notin {"none", "paused"} /\ ~cancelled
Adjudicated ==
  pc = "returned" /\ err.kind \notin {"none", "paused"} /\ ~cancelled /\ ~err.hard

NextAttempt ==
  /\ pc' = "dispatch" /\ err' = NoError
  /\ attempt' = [attempt EXCEPT ![unit] = @ + 1]

\* Mutant of BudgetLeft: the budget counts attempts where it means retries.
BudgetOffByOne(u) == attempt[u] <= Retries(u)
BudgetLeft(u) == attempt[u] < Retries(u)

Retry ==
  /\ Adjudicated /\ BudgetLeft(unit)
  /\ IF unit \in OnRetry THEN pc' = "gate" /\ UNCHANGED <<err, attempt>>
                         ELSE NextAttempt
  /\ UNCHANGED <<phase, exec, unit, unwinding, world, control>>

(* The failure falls to OnError, or stands. *)
Resolve(where, base) ==
  IF unit \in OnError THEN pc' = where /\ UNCHANGED err
                      ELSE Settled(Standing(err, base))

Exhaust ==
  /\ Adjudicated /\ ~BudgetLeft(unit)
  /\ Resolve("exhausted", "action_failed")
  /\ UNCHANGED <<phase, exec, unit, attempt, unwinding, world, control>>

-----------------------------------------------------------------------------
(* dispatchHandler: the handler subgraph runs with the owner's executor on a *)
(* stack of its own, so it drains commands and flips the owner's condition   *)
(* but leaves no entry on the run's stacks.                                  *)

Handling == pc \in {"gate", "exhausted", "vetoed"}

HandlerInterrupted ==
  /\ Handling
  /\ \/ /\ cancelled
        /\ Settled(Error("failed", "handler_failed"))
        /\ UNCHANGED <<phase, exec, control>>
     \/ /\ ~cancelled /\ requests # <<>>
        /\ Acknowledge(Owner(unit), Head(requests))
        /\ IF Head(requests) = "step"
           THEN UNCHANGED <<pc, err>>
           ELSE Settled(Error(Interruption(Head(requests)), "handler_failed"))
  /\ UNCHANGED <<unit, attempt, unwinding, world>>

(* A handler that degrades is judged by the run's policy; its flip reaches   *)
(* the owner unless the reaction stops the handler or the owner refuses it   *)
(* (that panic is recovered).                                                *)
Verdict(v, x) ==
  LET reaction == ReactionFor(RunPolicy, Degraded)
  IN  IF v # "degrade" THEN v
      ELSE IF ~Accepts(exec[x], Degraded) \/ reaction = Stop THEN "error"
      ELSE IF reaction = Pause THEN "pause" ELSE "truthy"

Flips(v, x) == v = "degrade" /\ Verdict(v, x) # "error"

HandlerReturns(v) ==
  LET x == Owner(unit)
      verdict == Verdict(v, x)
  IN  /\ Handling /\ ~cancelled /\ requests = <<>> /\ v \in Verdicts
      /\ exec' = IF Flips(v, x)
                 THEN [exec EXCEPT ![x] =
                         AfterTransition(@, RunPolicy, Degraded, "degraded")]
                 ELSE exec
      /\ CASE verdict = "error" -> Settled(Error("failed", "handler_failed"))
                                   /\ UNCHANGED attempt
           [] verdict = "pause" -> Settled(Error("paused", "handler_failed"))
                                   /\ UNCHANGED attempt
           [] verdict = "falsy" -> /\ CASE pc = "gate"   -> Resolve("vetoed", "retry_vetoed")
                                        [] pc = "vetoed" -> Settled(Standing(err, "retry_vetoed"))
                                        [] OTHER         -> Settled(Standing(err, "action_failed"))
                                   /\ UNCHANGED attempt
           [] OTHER             -> IF pc = "gate" THEN NextAttempt
                                   ELSE Settled(NoError) /\ UNCHANGED attempt
      /\ UNCHANGED <<phase, unit, unwinding, world, control>>

-----------------------------------------------------------------------------
(* The tail of Run. *)

RunReturned(kinds) == pc = "settled" /\ unit = Root /\ err.kind \in kinds

Complete ==
  /\ RunReturned({"none"})
  /\ phase' = "completed" /\ pc' = "idle" /\ acked' = "none"
  /\ UNCHANGED <<exec, unit, err, attempt, unwinding, world,
                 cancelled, requests, issued, resumes>>

Park ==
  /\ RunReturned({"paused"})
  /\ phase' = "paused" /\ pc' = "idle" /\ acked' = "none"
  /\ exec' = [exec EXCEPT ![Top] = [@ EXCEPT !.reason = "paused"]]
  /\ UNCHANGED <<unit, err, attempt, unwinding, world,
                 cancelled, requests, issued, resumes>>

BeginUnwind ==
  /\ pc' = "unwinding" /\ tried' = {}
  /\ cursor' = <<[at |-> Len(stack[Top]), of |-> Top, dirty |-> FALSE]>>

Fail ==
  /\ RunReturned({"failed", "stopped"})
  /\ BeginUnwind
  /\ UNCHANGED <<phase, exec, unit, err, attempt, world, control>>

(* A compensation_failed run is taken up again, to unwind what is left. *)
ResumeUnwind ==
  /\ phase = "stopped" /\ pc = "idle" /\ TakenUp
  /\ exec[Top].condition = CompensationFailed
  /\ BeginUnwind
  /\ err' = NoError
  /\ UNCHANGED <<phase, exec, unit, attempt, world, cancelled, requests, acked, issued>>

-----------------------------------------------------------------------------
(* RecoveryStack.Unwind: newest entry first, every entry attempted, entries  *)
(* cleared only by an unwind in which nothing failed.                        *)

Frame       == cursor[Len(cursor)]
Current     == stack[Frame.of][Frame.at]

Walked(frame, dirty) == [frame EXCEPT !.at = @ - 1, !.dirty = @ \/ dirty]
\* Mutants of Step: a failure is not remembered; the walk does not advance.
StepClean(dirty) == [cursor EXCEPT ![Len(cursor)].at = @ - 1]
StepStuck(dirty) == cursor
Step(dirty) == [cursor EXCEPT ![Len(cursor)] = Walked(@, dirty)]
Unwinding   == pc = "unwinding" /\ Frame.at > 0

SkipEntry ==
  /\ Unwinding /\ Current.kind = "receipt" /\ Current.token = 0
  /\ cursor' = Step(FALSE)
  /\ UNCHANGED <<phase, exec, pc, unit, err, attempt, tried, world, control>>

Compensate(fails) ==
  /\ Unwinding /\ Current.kind = "receipt" /\ Current.token # 0
  /\ fails => Current.unit \in Irreversible /\ EffectOf(Current) \in outstanding
  /\ outstanding' = IF fails THEN outstanding ELSE outstanding \ {EffectOf(Current)}
  /\ tried' = tried \cup {EffectOf(Current)}
  /\ cursor' = Step(fails)
  /\ UNCHANGED <<phase, exec, pc, unit, err, attempt, stack, clock, control>>

Descend ==
  /\ Unwinding /\ Current.kind = "stack"
  /\ cursor' = Append(cursor,
       [at |-> Len(stack[Current.unit]), of |-> Current.unit, dirty |-> FALSE])
  /\ UNCHANGED <<phase, exec, pc, unit, err, attempt, tried, world, control>>

\* Mutant of Cleared: a dirty journal is thrown away too.
Cleared == IF Frame.dirty THEN stack ELSE [stack EXCEPT ![Frame.of] = <<>>]

Ascend ==
  LET outer == Len(cursor) - 1
  IN  /\ pc = "unwinding" /\ Frame.at = 0 /\ outer > 0
      /\ stack' = Cleared
      /\ cursor' = [SubSeq(cursor, 1, outer) EXCEPT ![outer] = Walked(@, Frame.dirty)]
      /\ UNCHANGED <<phase, exec, pc, unit, err, attempt, tried,
                     outstanding, clock, control>>

\* Mutant of LandedStatus: a worse condition on record is not honoured.
LandedAsImplied ==
  [exec[Top] EXCEPT !.condition = ConditionForReason(FailureReason(err)),
                    !.reason = FailureReason(err)]

(* The terminal status of each of the three callers of Unwind. *)
LandedStatus ==
  LET implied == ConditionForReason(FailureReason(err))
      status  == exec[Top]
  IN  CASE Frame.dirty ->
             [status EXCEPT !.condition = CompensationFailed, !.reason = "compensation_failed"]
        [] ~Frame.dirty /\ err.kind = "none" ->       \* ResumeUnwind
             [status EXCEPT !.condition = ExecutionFailed, !.reason = "unwound"]
        [] ~Frame.dirty /\ err.kind = "stopped" ->    \* Run, on a stop
             [status EXCEPT !.reason = "stopped"]
        [] OTHER ->                                   \* failAndUnwind
             IF status.condition > implied THEN status
             ELSE [status EXCEPT !.condition = implied, !.reason = FailureReason(err)]

Land ==
  /\ pc = "unwinding" /\ Frame.at = 0 /\ Len(cursor) = 1
  /\ stack' = Cleared
  /\ exec' = [exec EXCEPT ![Top] = LandedStatus]
  /\ phase' = "stopped" /\ pc' = "idle" /\ cursor' = <<>> /\ acked' = "none"
  /\ UNCHANGED <<unit, err, attempt, tried, outstanding, clock,
                 cancelled, requests, issued, resumes>>

-----------------------------------------------------------------------------
Execution ==
  \/ ExitCancelled \/ ControlPoint \/ ReplayNode \/ PruneSubgraph
  \/ \E outcome \in NodeOutcomes : RunNode(outcome) \/ AssertNode(outcome)
  \/ UnboundNode
  \/ \E s \in Subgraphs : EnterSubgraph(s) \/ ScopeFault(s)
  \/ NextChild \/ ExitSubgraph \/ Panic

Adjudication ==
  \/ Succeed \/ GiveUp \/ Retry \/ Exhaust
  \/ HandlerInterrupted \/ \E v \in HandlerVerdicts : HandlerReturns(v)

Ending ==
  \/ Complete \/ Park \/ Fail
  \/ SkipEntry \/ (\E fails \in BOOLEAN : Compensate(fails)) \/ Descend \/ Ascend \/ Land

(* The goroutine inside Run, and what its host and its consumers may do. *)
Progress == Execution \/ Adjudication \/ Ending
Host     == \/ Start \/ StartRefused \/ ResumeRefused \/ ResumeUnwind
            \/ \E mode \in ResumeModes : Resume(mode)
Consumer == Cancel \/ \E command \in Commands : Request(command)

Next == Progress \/ Host \/ Consumer
Spec == Init /\ [][Next]_vars

(* The run's goroutine never waits for anything but its own actions, which   *)
(* return; the host of a run that keeps pausing takes it up from its trace   *)
(* sooner or later, whatever else it tries.                                  *)
FairSpec == Spec /\ WF_vars(Progress) /\ WF_vars(Start)
HostSpec == FairSpec /\ SF_vars(\E mode \in ResumeModes \cap {"trace"} : Resume(mode))

-----------------------------------------------------------------------------
(* What the engine promises. *)

(* A stack that an unwind starting at the run's stack would reach: every     *)
(* boundary around it is nested in its parent's stack, or still executing.   *)
Linked(s)    == \E i \in DOMAIN stack[Owner(s)] :
                  stack[Owner(s)][i].kind = "stack" /\ stack[Owner(s)][i].unit = s
Executing(s) == pc \notin {"idle", "unwinding"} /\ s \in Enclosing[unit]
Reached(x)   == x = Top \/ \A s \in {x} \cup Enclosing[x] : Linked(s) \/ Executing(s)

(* Every effect standing in the world has its receipt on a stack that an     *)
(* unwind reaches, at every step of running, pausing, resuming, retrying and *)
(* unwinding: pushAuditReceipt, adoptPriorStack, supersede and Unwind never  *)
(* lose one between them, unless a boundary that was adopted with effects    *)
(* on its stack fails its claims (Drop).                                     *)
EffectsJournaled ==
  \A e \in outstanding :
    \E x \in Executors : e \in EffectsOn(stack[x]) /\ Reached(x)

(* A parked run has one frontier: on each of its stacks the only entry that  *)
(* a resumed run adopts rather than replays (adoptPriorStack) is the newest, *)
(* so re-execution goes on where the run left off.                           *)
FrontierIsNewest ==
  phase = "paused" /\ pc = "idle" =>
    \A x \in Executors : \A i \in DOMAIN stack[x] :
      stack[x][i].kind = "stack" /\ ~Succeeded(stack[x][i]) => i = Len(stack[x])

(* failAndUnwind: after an unwind that failed nowhere the system is back at  *)
(* its pre-run state.  What Drop loses is the exception.                     *)
CleanStopRestores ==
  [][ pc = "unwinding" /\ phase' = "stopped" /\ pc' = "idle"
      /\ exec'[Top].condition # CompensationFailed => outstanding = {} ]_vars

(* The run's condition never improves; the one sanctioned step down is the   *)
(* resumed unwind that cleared a compensation failure.                       *)
ConditionOnlyWorsens ==
  [][ exec'[Top].condition >= exec[Top].condition \/ exec'[Top].reason = "unwound" ]_vars

(* An acknowledged pause takes effect: nothing more is performed, no retry   *)
(* and no failure handler gets in its way, and the run parks.                *)
PauseHonoured ==
  [][ acked = "pause" =>
        clock' = clock /\ (acked' = "pause" \/ phase' = "paused") ]_vars

(* Stop's contract: from the control point on, nothing more is performed and *)
(* the run ends stopped.                                                     *)
StopObeyed   == clock' = clock /\ (acked' = "stop" \/ phase' = "stopped")
StopHonoured == [][ acked = "stop" => StopObeyed ]_vars

(* What does hold: a stop travels up to Run and lands the run as long as no   *)
(* unit it passes has an attempt left or a handler for what it takes as an   *)
(* action's failure.                                                         *)
Final(u)  == attempt[u] >= Retries(u) /\ u \notin OnError
StopLands ==
  [][ acked = "stop" /\ err.kind = "stopped" /\ (\A u \in {unit} \cup Enclosing[unit] : Final(u))
      => StopObeyed /\ err'.kind = "stopped" ]_vars

(* A hard failure - a framework error, a reaction that stops - bypasses      *)
(* retry and OnError: nothing is performed after it and nothing absorbs it.  *)
HardFailureEnds ==
  [][ err.hard /\ pc \notin {"idle", "crashed"} => clock' = clock /\ err'.hard ]_vars

(* Every dispatch comes to an end: the run completes, parks or lands. *)
RunSettles == (pc = "dispatch") ~> (pc \in {"idle", "crashed"})

(* A host that keeps resuming a paused run sees it end. *)
PausedFinishes == (phase = "paused") ~> (phase \in {"completed", "stopped"})

(* The executor implements the saga it documents. *)
SagaMode ==
  CASE pc = "unwinding"                  -> "unwinding"
    [] phase = "completed"               -> "done"
    [] phase = "paused" /\ pc = "idle"   -> "paused"
    [] phase = "stopped" /\ pc = "idle"  -> IF exec[Top].condition = CompensationFailed
                                            THEN "dirty" ELSE "clean"
    [] OTHER                             -> "running"

saga == INSTANCE Saga WITH Steps <- Nodes, mode <- SagaMode,
                           standing <- outstanding, kept <- tried \cap outstanding

ImplementsSaga == saga!Spec
=============================================================================
