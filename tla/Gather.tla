------------------------------- MODULE Gather -------------------------------
(***************************************************************************)
(* flow.gather (pkg/op/provider/flow): a saga boundary whose body runs     *)
(* once per item, each iteration in a goroutine of its own on a child      *)
(* recovery stack of its own, at most Limit at a time.  The dispatcher     *)
(* starts every iteration before it reads the first completion, then       *)
(* stamps and nests the iterations' stacks and returns to the dispatch     *)
(* loop of the boundary, which completes, parks, retries or rolls back;    *)
(* a resumed or retried gather replays the iterations that finished and    *)
(* goes on with the others.  The boundary's own control point, its failure *)
(* handlers and the run around it are GraphExecutor's; a body that ends    *)
(* early (flow.complete), branches or asserts a condition is not modelled. *)
(***************************************************************************)
EXTENDS Naturals, FiniteSets, SequencesExt

CONSTANTS
  Count,        \* how many items there are
  Body,         \* the units of the body, in declaration order
  Limit,        \* iterations in flight at once
  Outcomes,     \* what dispatching a unit of the body can do
  Irreversible, \* units whose Compensate may fail
  Commands,     \* what a consumer can ask of the control plane
  Cancellable,  \* whether the run's context may be cancelled
  Retries,      \* the boundary's own retry budget
  MaxCommands, MaxResumes  \* bounds: commands received, resumes from a trace

Items == 1 .. Count
Units == Range(Body)
UnitOutcomes == {"ok", "read", "fail", "partial"}

ASSUME CountsAssumption ==
  /\ Count \in Nat \ {0} /\ Limit \in Nat \ {0}
  /\ Retries \in Nat /\ MaxCommands \in Nat /\ MaxResumes \in Nat
ASSUME BodyAssumption ==
  /\ Body \in Seq(Units) \ {<<>>} /\ IsInjective(Body)
  /\ Outcomes \in [Units -> SUBSET UnitOutcomes \ {{}}]
  /\ Irreversible \subseteq Units
  /\ Commands \subseteq {"pause", "stop"} /\ Cancellable \in BOOLEAN

VARIABLES
  phase,     \* where the dispatch of the gather is
  pc,        \* [Items -> the step each iteration is at]
  at,        \* [Items -> position in Body]
  err,       \* [Items -> the error the iteration ends with]
  stack,     \* [Items -> Seq(Receipt)]: the iterations' recovery stacks
  stamp,     \* [Items -> the error stamped on the nested stack, or "unrun"]
  nested,    \* items in the order their stacks were nested on the gather's
  events,    \* the completion channel
  firstErr,
  stopping,  \* gatherCancel was called
  cancelled, \* the run's context is done
  requests, issued, \* commands queued, and how many there were
  acked,     \* commands acknowledged since the gather was last entered
  outstanding, \* [Items -> effects standing in the world]
  cursor,    \* Unwind: which nested stack, which entry of it
  tried,     \* [Items -> effects whose compensation was attempted]
  attempt, resumes

iterations == <<pc, at, err, stack>>
gathered   == <<stamp, nested>>
control    == <<cancelled, requests, issued>>
undo       == <<cursor, tried>>
vars == <<phase, iterations, gathered, events, firstErr, stopping, control, acked,
          outstanding, undo, attempt, resumes>>

Errors  == {"none", "paused", "stopped", "failed", "cancelled"}
Phases  == {"gathering", "returned", "paused", "completed", "unwinding", "landed"}
Places  == {"replayed", "waiting", "exit1", "controlPoint", "do", "send", "sent"}
Receipts == [unit : Units, token : Nat, failed : BOOLEAN]
Effects  == [id : Nat, unit : Units, whole : BOOLEAN]

Running   == {i \in Items : pc[i] \in {"exit1", "controlPoint", "do", "send"}}
Waiting   == {i \in Items : pc[i] = "waiting"}
Unit(i)   == Body[at[i]]

Init ==
  /\ phase = "gathering"
  /\ pc = [i \in Items |-> "waiting"] /\ at = [i \in Items |-> 1]
  /\ err = [i \in Items |-> "none"] /\ stack = [i \in Items |-> <<>>]
  /\ stamp = [i \in Items |-> "unrun"] /\ nested = <<>>
  /\ events = <<>> /\ firstErr = "none" /\ stopping = FALSE
  /\ cancelled = FALSE /\ requests = <<>> /\ issued = 0 /\ acked = {}
  /\ outstanding = [i \in Items |-> {}]
  /\ cursor = [stack |-> 0, entry |-> 0] /\ tried = [i \in Items |-> {}]
  /\ attempt = 0 /\ resumes = 0

-----------------------------------------------------------------------------
(* The consumer and the context.                                             *)

Request(command) ==
  /\ issued < MaxCommands /\ phase = "gathering"
  /\ issued' = issued + 1
  /\ requests' = Append(requests, command)
  /\ UNCHANGED <<phase, iterations, gathered, events, firstErr, stopping, cancelled,
                 acked, outstanding, undo, attempt, resumes>>

Cancel ==
  /\ Cancellable /\ ~cancelled /\ phase = "gathering"
  /\ cancelled' = TRUE
  /\ UNCHANGED <<phase, iterations, gathered, events, firstErr, stopping, requests, issued,
                 acked, outstanding, undo, attempt, resumes>>

-----------------------------------------------------------------------------
(* The dispatching goroutine.                                                *)

\* sem <- struct{}{}; go func(r).  A slot is free again once its iteration sent.
Spawn(i) ==
  /\ phase = "gathering"
  /\ i \in Waiting /\ \A j \in Waiting : i <= j
  /\ Cardinality(Running) < Limit
  /\ pc' = [pc EXCEPT ![i] = "exit1"]
  /\ UNCHANGED <<phase, at, err, stack, gathered, events, firstErr, stopping, control,
                 acked, outstanding, undo, attempt, resumes>>

FailureOnly(old, new) == IF old = "none" /\ new # "paused" THEN new ELSE old  \* mutant
FirstError(old, new) == IF old = "none" THEN new ELSE old

\* c := <-events, for every pending iteration, once all of them were started.
Collect ==
  /\ phase = "gathering" /\ Waiting = {} /\ events # <<>>
  /\ firstErr' = FirstError(firstErr, err[Head(events)])
  /\ stopping' = (firstErr' # "none")
  /\ events' = Tail(events)
  /\ UNCHANGED <<phase, iterations, gathered, control, acked, outstanding, undo,
                 attempt, resumes>>

\* The fresh stacks PushNested nests; an adopted one is nested already.
NestsClean(i) == pc[i] = "sent" /\ stamp[i] = "unrun" /\ err[i] = "none"  \* mutant
Nests(i) == pc[i] = "sent" /\ stamp[i] = "unrun"

InIndexOrder(S) == {order \in [1 .. Cardinality(S) -> S] :
                      Range(order) = S /\ \A m, n \in DOMAIN order : m < n => order[m] < order[n]}

\* wg.Wait, then stamping and nesting in index order.
Return ==
  /\ phase = "gathering"
  /\ \A i \in Items : pc[i] \in {"replayed", "sent"}
  /\ events = <<>>
  /\ stamp' = [i \in Items |-> IF pc[i] = "sent" THEN err[i] ELSE stamp[i]]
  /\ \E fresh \in InIndexOrder({i \in Items : Nests(i)}) : nested' = nested \o fresh
  /\ phase' = "returned"
  /\ UNCHANGED <<iterations, events, firstErr, stopping, control, acked, outstanding, undo,
                 attempt, resumes>>

-----------------------------------------------------------------------------
(* One iteration: walkSubgraphChildren over the body, Node.Execute per unit. *)

Goto(i, place) == pc' = [pc EXCEPT ![i] = place] /\ UNCHANGED <<at, err>>
End(i, e) == pc' = [pc EXCEPT ![i] = "send"] /\ err' = [err EXCEPT ![i] = e] /\ UNCHANGED at

AtEnd(i) == at[i] = Len(Body)
Advance(i) == IF AtEnd(i) THEN End(i, "none")
              ELSE /\ at' = [at EXCEPT ![i] = @ + 1]
                   /\ pc' = [pc EXCEPT ![i] = "exit1"]
                   /\ UNCHANGED err

Exit1(i) ==
  /\ pc[i] = "exit1"
  /\ IF stopping \/ cancelled THEN End(i, "cancelled") ELSE Goto(i, "controlPoint")
  /\ UNCHANGED <<phase, stack, gathered, events, firstErr, stopping, control, acked,
                 outstanding, undo, attempt, resumes>>

\* receiptByUnitID on the iteration's own stack: the newest receipt of the unit.
ReplaysNothing(i) == FALSE            \* mutant: every unit is dispatched again
Replayed(i) ==
  \E n \in DOMAIN stack[i] :
    /\ stack[i][n].unit = Unit(i) /\ ~stack[i][n].failed
    /\ \A m \in DOMAIN stack[i] : stack[i][m].unit = Unit(i) => m <= n

Interruption(command) == IF command = "pause" THEN "paused" ELSE "stopped"

\* controlPoint, then the replay guard.
ControlPoint(i) ==
  /\ pc[i] = "controlPoint"
  /\ \/ /\ requests # <<>>
        /\ requests' = Tail(requests)
        /\ acked' = acked \cup {Head(requests)}
        /\ End(i, Interruption(Head(requests)))
     \/ /\ requests = <<>>
        /\ IF Replayed(i) THEN Advance(i) ELSE Goto(i, "do")
        /\ UNCHANGED <<requests, acked>>
  /\ UNCHANGED <<phase, stack, gathered, events, firstErr, stopping, cancelled, issued,
                 outstanding, undo, attempt, resumes>>

\* Action.Do and the receipt it leaves; "partial" fails with an effect behind.
Do(i) ==
  /\ pc[i] = "do"
  /\ \E outcome \in Outcomes[Unit(i)] :
       LET effect == outcome \in {"ok", "partial"}
           failed == outcome \in {"fail", "partial"}
           id     == Len(stack[i]) + 1
       IN  /\ outstanding' = IF effect
                THEN [outstanding EXCEPT ![i] = @ \cup
                        {[id |-> id, unit |-> Unit(i), whole |-> ~failed]}]
                ELSE outstanding
           /\ stack' = [stack EXCEPT ![i] = Append(@,
                [unit |-> Unit(i), token |-> IF effect THEN id ELSE 0, failed |-> failed])]
           /\ IF failed THEN End(i, "failed") ELSE Advance(i)
  /\ UNCHANGED <<phase, gathered, events, firstErr, stopping, control, acked, undo,
                 attempt, resumes>>

\* events is buffered for every pending iteration, so a send never waits.
Unbuffered == Waiting = {}            \* mutant: a send meets a receive
Room == Len(events) < Cardinality({i \in Items : pc[i] # "replayed"})

Send(i) ==
  /\ pc[i] = "send" /\ Room
  /\ events' = Append(events, i)
  /\ pc' = [pc EXCEPT ![i] = "sent"]
  /\ UNCHANGED <<phase, at, err, stack, gathered, firstErr, stopping, control, acked,
                 outstanding, undo, attempt, resumes>>

-----------------------------------------------------------------------------
(* The boundary's dispatch loop, and the resume of a parked run.             *)

\* classifyGatherRuns: what a nested stack makes of its iteration.
ClassifyNested(i) == IF stamp[i] = "unrun" THEN "fresh" ELSE "replay"  \* mutant
Classify(i) == CASE stamp[i] = "unrun" -> "fresh"
                 [] stamp[i] = "none"  -> "replay"
                 [] OTHER              -> "adopt"

Enter ==
  /\ phase' = "gathering"
  /\ pc' = [i \in Items |-> IF Classify(i) = "replay" THEN "replayed" ELSE "waiting"]
  /\ at' = [i \in Items |-> 1]
  /\ err' = [i \in Items |-> "none"]
  /\ stack' = [i \in Items |-> IF Classify(i) = "fresh" THEN <<>> ELSE stack[i]]
  /\ firstErr' = "none" /\ stopping' = FALSE /\ acked' = {}
  /\ UNCHANGED <<gathered, events, outstanding, undo>>

Ends(next) ==
  /\ phase' = next
  /\ UNCHANGED <<iterations, gathered, events, firstErr, stopping, control, acked,
                 outstanding, attempt, resumes>>

Complete == phase = "returned" /\ firstErr = "none" /\ Ends("completed") /\ UNCHANGED undo
Park     == phase = "returned" /\ firstErr = "paused" /\ Ends("paused") /\ UNCHANGED undo

MayRetry == firstErr \in {"failed", "stopped"} /\ ~cancelled /\ attempt < Retries

Retry ==
  /\ phase = "returned" /\ MayRetry
  /\ attempt' = attempt + 1
  /\ Enter
  /\ UNCHANGED <<control, resumes>>

\* A trace is resumed by a new executor with a new context, and a new plane or the old one.
Resume ==
  /\ phase = "paused" /\ resumes < MaxResumes
  /\ resumes' = resumes + 1
  /\ attempt' = 0
  /\ cancelled' = FALSE
  /\ requests' \in {requests, <<>>}
  /\ Enter
  /\ UNCHANGED issued

\* The length of the n-th nested stack.
Height(n) == IF n = 0 THEN 0 ELSE Len(stack[nested[n]])

\* CompensateGather: Unwind of the gather's stack, nested stacks newest first.
Rollback ==
  /\ phase = "returned" /\ firstErr \notin {"none", "paused"} /\ ~MayRetry
  /\ cursor' = [stack |-> Len(nested), entry |-> Height(Len(nested))]
  /\ UNCHANGED tried
  /\ Ends("unwinding")

Compensate ==
  /\ phase = "unwinding" /\ cursor.entry > 0
  /\ LET i == nested[cursor.stack]
         receipt == stack[i][cursor.entry]
         mine == {e \in outstanding[i] : e.id = receipt.token}
     IN  /\ tried' = [tried EXCEPT ![i] = @ \cup mine]
         /\ \/ outstanding' = [outstanding EXCEPT ![i] = @ \ mine]
            \/ receipt.unit \in Irreversible /\ mine # {} /\ UNCHANGED outstanding
  /\ cursor' = [cursor EXCEPT !.entry = @ - 1]
  /\ UNCHANGED <<phase, iterations, gathered, events, firstErr, stopping, control, acked,
                 attempt, resumes>>

NextStack ==
  /\ phase = "unwinding" /\ cursor.entry = 0 /\ cursor.stack > 0
  /\ cursor' = [stack |-> cursor.stack - 1, entry |-> Height(cursor.stack - 1)]
  /\ UNCHANGED <<phase, iterations, gathered, events, firstErr, stopping, control, acked,
                 outstanding, tried, attempt, resumes>>

Land ==
  /\ phase = "unwinding" /\ cursor.stack = 0
  /\ UNCHANGED undo
  /\ Ends("landed")

Iterate(i) == Exit1(i) \/ ControlPoint(i) \/ Do(i) \/ Send(i)
Dispatch   == (\E i \in Items : Spawn(i)) \/ Collect \/ Return
Adjudicate == Complete \/ Park \/ Retry \/ Rollback
Unwind     == Compensate \/ NextStack \/ Land

Progress == Dispatch \/ Adjudicate \/ Unwind \/ (\E i \in Items : Iterate(i))

Next ==
  \/ \E command \in Commands : Request(command)
  \/ Cancel \/ Resume
  \/ Progress

Spec == Init /\ [][Next]_vars

\* Some goroutine is scheduled while any of them can go on, and every action
\* it calls returns; none of them is asked to win a race.
FairSpec == Spec /\ WF_vars(Progress)

-----------------------------------------------------------------------------
(* Properties.                                                               *)

TypeOK ==
  /\ phase \in Phases /\ firstErr \in Errors
  /\ stopping \in BOOLEAN /\ cancelled \in BOOLEAN
  /\ pc \in [Items -> Places] /\ at \in [Items -> 1 .. Len(Body)]
  /\ err \in [Items -> Errors] /\ stamp \in [Items -> Errors \cup {"unrun"}]
  /\ stack \in [Items -> Seq(Receipts)]
  /\ nested \in Seq(Items) /\ events \in Seq(Items)
  /\ requests \in Seq(Commands) /\ acked \subseteq Commands /\ issued \in Nat
  /\ outstanding \in [Items -> SUBSET Effects] /\ tried \in [Items -> SUBSET Effects]
  /\ cursor \in [stack : 0 .. Len(nested), entry : Nat]
  /\ attempt \in Nat /\ resumes \in Nat

\* Every effect standing in the world has its receipt on the stack of the
\* iteration that performed it, and once the gather returned that stack is
\* nested where an unwind or a resume will find it.
EffectsNested ==
  \A i \in Items : \A e \in outstanding[i] :
    /\ \E n \in DOMAIN stack[i] : stack[i][n].token = e.id
    /\ phase # "gathering" => i \in Range(nested)

\* Each iteration is a saga of its own: no unit of it is performed twice over
\* however often the gather is paused, resumed or retried, and its effects are
\* taken back newest first, each of them, when the gather is rolled back.
ModeOf(i) == CASE phase \in {"gathering", "returned"} -> "running"
               [] phase = "completed" -> "done"
               [] phase = "landed" -> IF outstanding[i] = {} THEN "clean" ELSE "dirty"
               [] OTHER -> phase
item(i) == INSTANCE Saga WITH Steps <- Units, mode <- ModeOf(i), standing <- outstanding[i],
                              kept <- tried[i] \cap outstanding[i]
ItemsAreSagas ==
  /\ \A i \in Items : item(i)!Init
  /\ [][\A i \in Items : item(i)!Next \/ UNCHANGED item(i)!vars]_vars

\* A gather reports success only when every iteration did the whole body, the
\* replayed ones included (classifyGatherRuns).
CompletedWhole ==
  phase = "completed" =>
    \A i \in Items : \A u \in Units :
      \E n \in DOMAIN stack[i] : stack[i][n].unit = u /\ ~stack[i][n].failed

\* A pause or stop acknowledged in one pass over the items is never followed by
\* that pass completing, whichever iteration drained it (firstErr).
AckEndsPass == phase = "completed" => acked = {}

\* The dispatcher, the semaphore and the completion channel never wait on each
\* other for ever: the gather returns and is settled.
GatherSettles == []<>(phase \in {"paused", "completed", "landed"})
=============================================================================
