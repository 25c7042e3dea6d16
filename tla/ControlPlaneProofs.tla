------------------------- MODULE ControlPlaneProofs -------------------------
(***************************************************************************)
(* The promises of the control plane and its router, proved for any number *)
(* of clients, observers, goroutines and runs and any capacity.            *)
(***************************************************************************)
EXTENDS ControlPlane, TLAPS

-----------------------------------------------------------------------------
(* The inductive invariant.                                                *)

(* What the driver knows of its runs: those to come are ready.             *)
RunsOrdered ==
  /\ (stage = "none") = (run = 0)
  /\ \A r \in Runs : r > run => phase[r] = "ready"

(* Whoever has got past the registry holds a run, and a goroutine that is  *)
(* serving holds a request.                                                *)
HandlesHeld ==
  /\ \A c \in Clients : client[c].at \notin {"idle", "refused"} => client[c].run \in Runs
  /\ \A w \in Workers : worker[w].at \in {"polled", "report", "stamped"} =>
       worker[w].request \in Clients

(* A request that was sent names its command.                              *)
CommandsNamed ==
  \A c \in Clients : client[c].at # "idle" => client[c].command # "none"

(* A command that was not queued yet, or never will be, is nowhere.        *)
Nowhere(c) ==
  /\ c \notin obeyed
  /\ \A r \in Runs : ~Pending(c, r)
  /\ \A w \in Workers : worker[w].at \in {"polled", "report", "stamped"} =>
       worker[w].request # c
UnqueuedNowhere ==
  \A c \in Clients :
    client[c].at \in {"idle", "found", "checked", "refused"} => Nowhere(c)

(* The run whose driver registered it is in the registry from then on.     *)
StaysRegistered ==
  stage \in {"registered", "working"} => registered = run \/ run \in displaced

IInv ==
  /\ TypeOK /\ RunsOrdered /\ HandlesHeld /\ CommandsNamed /\ UnqueuedNowhere
  /\ StaysRegistered

-----------------------------------------------------------------------------
LEMMA BoundsPositive ==
  MaxRuns \in Nat /\ MaxRuns > 0 /\ Capacity \in Nat /\ Capacity > 0
    /\ Backlog \in Nat /\ Backlog > 0
BY PlaneAssumption

(* A client's next place keeps its record a record.                        *)
LEMMA GoesTyped ==
  ASSUME TypeOK, NEW c \in Clients,
         NEW at \in {"idle", "found", "checked", "waiting", "served", "answered",
                     "refused", "gaveUp"},
         Goes(c, at)
  PROVE  /\ client' \in [Clients -> [at : {"idle", "found", "checked", "waiting", "served",
                                           "answered", "refused", "gaveUp"},
                                     run : 0..MaxRuns, command : {"none", "pause", "stop", "step"}]]
         /\ client'[c] = [client[c] EXCEPT !.at = at]
         /\ \A d \in Clients \ {c} : client'[d] = client[d]
BY ZenonT(40) DEF Goes, TypeOK

(* An event reaches a subscription's channel or is counted as dropped.     *)
LEMMA FanOutTyped ==
  ASSUME TypeOK, NEW n \in Nat, FanOut(n)
  PROVE  observer' \in [Observers -> [at : {"off", "on", "closed"}, run : 0..MaxRuns,
                                      last : Nat, lost : Nat, unread : 0..Backlog]]
<1> DEFINE Subscription == [at : {"off", "on", "closed"}, run : 0..MaxRuns,
                            last : Nat, lost : Nat, unread : 0..Backlog]
<1>1. ASSUME NEW o \in Observers
      PROVE  Offer(observer[o], n) \in Subscription
  <2>1. observer[o] \in Subscription
    BY DEF TypeOK
  <2> DEFINE was == observer[o]
  <2>2. CASE was.at # "on" \/ was.run # run
    BY <2>1, <2>2 DEF Offer
  <2>3. CASE was.at = "on" /\ was.run = run /\ was.unread < Backlog
    <3>1. was.unread + 1 \in 0..Backlog
      BY <2>1, <2>3, BoundsPositive
    <3>2. Offer(was, n) = [at |-> was.at, run |-> was.run, last |-> n, lost |-> 0,
                           unread |-> was.unread + 1]
      BY <2>1, <2>3 DEF Offer
    <3>3. QED
      BY <2>1, <3>1, <3>2
  <2>4. CASE was.at = "on" /\ was.run = run /\ ~(was.unread < Backlog)
    BY <2>1, <2>4 DEF Offer
  <2>5. QED
    BY <2>2, <2>3, <2>4
<1>2. QED
  BY <1>1 DEF FanOut

LEMMA NumberTyped == ASSUME TypeOK, run \in Runs PROVE Number \in Nat
BY DEF TypeOK, Number

LEMMA EmitTyped ==
  ASSUME TypeOK, run \in Runs, Emit
  PROVE  /\ seq' \in [Runs -> Nat] /\ raced' = raced
         /\ observer' \in [Observers -> [at : {"off", "on", "closed"}, run : 0..MaxRuns,
                                         last : Nat, lost : Nat, unread : 0..Backlog]]
BY NumberTyped, FanOutTyped DEF Emit, Counted, TypeOK

(* The records a goroutine and a subscription are reset to.                *)
LEMMA RestRecords ==
  /\ \A to \in {"returned", "idle"} : [AtRest EXCEPT !.at = to]
                                     = [at |-> to, request |-> 0, seq |-> 0]
  /\ [Unsubscribed EXCEPT !.at = "closed"]
       = [at |-> "closed", run |-> 0, last |-> 0, lost |-> 0, unread |-> 0]
<1>1. ASSUME NEW to \in {"returned", "idle"}
      PROVE  [AtRest EXCEPT !.at = to] = [at |-> to, request |-> 0, seq |-> 0]
  BY DEF AtRest
<1>2. [Unsubscribed EXCEPT !.at = "closed"]
        = [at |-> "closed", run |-> 0, last |-> 0, lost |-> 0, unread |-> 0]
  BY DEF Unsubscribed
<1>3. QED
  BY <1>1, <1>2

-----------------------------------------------------------------------------
LEMMA InitIInv == Init => IInv
<1> SUFFICES ASSUME Init PROVE IInv
  OBVIOUS
<1>1. TypeOK
  BY BoundsPositive DEF Init, TypeOK, Unsubscribed, AtRest, Runs
<1>2. RunsOrdered /\ HandlesHeld /\ StaysRegistered
  BY DEF Init, RunsOrdered, HandlesHeld, StaysRegistered, AtRest
<1>3. UnqueuedNowhere /\ CommandsNamed
  BY DEF Init, UnqueuedNowhere, CommandsNamed, Nowhere, Pending, AtRest
<1>4. QED
  BY <1>1, <1>2, <1>3 DEF IInv

(* Once a driver has begun there is a run.                                 *)
LEMMA RunExists == ASSUME TypeOK, RunsOrdered, stage # "none" PROVE run \in Runs
BY BoundsPositive DEF TypeOK, RunsOrdered, Runs

-----------------------------------------------------------------------------
(* The driver of a run.                                                    *)
LEMMA DriverTyped == ASSUME IInv, Driver PROVE TypeOK'
<1>1. CASE Begin
  <2>1. run + 1 \in Runs
    BY <1>1, BoundsPositive DEF Begin, IInv, TypeOK, Runs
  <2>2. run' \in 0..MaxRuns /\ stage' = "registered" /\ acked' = {} /\ registered' \in 0..MaxRuns
        /\ UNCHANGED <<left, displaced, phase, queue, eventVars, clientVars>>
    BY <1>1, <2>1, BoundsPositive DEF Begin, Register, Claims, Runs
  <2>3. worker' \in [Workers -> [at : {"idle", "polled", "report", "stamped", "returned"},
                                 request : Clients \cup {0}, seq : Nat]]
    BY <1>1 DEF Begin, AtRest
  <2>4. QED
    BY <2>2, <2>3 DEF IInv, TypeOK, eventVars, clientVars
<1>2. CASE Start
  <2>1. run \in Runs
    BY <1>2, RunExists DEF Start, IInv
  <2>2. QED
    BY <1>2, <2>1, EmitTyped DEF Start, IInv, TypeOK, routerVars, clientVars
<1>3. CASE Finish
  <2>1. run \in Runs
    BY <1>3, RunExists DEF Finish, IInv
  <2>2. QED
    <3>1. PICK p \in Ended : /\ phase' = [phase EXCEPT ![run] = p]
                             /\ stage' = IF p = "completed" THEN "closing" ELSE "ended"
      BY <1>3 DEF Finish
    <3>2. /\ seq' \in [Runs -> Nat] /\ raced' = raced
          /\ observer' \in [Observers -> [at : {"off", "on", "closed"}, run : 0..MaxRuns,
                                          last : Nat, lost : Nat, unread : 0..Backlog]]
      BY <1>3, <2>1, EmitTyped DEF Finish, IInv
    <3>3. phase' \in [Runs -> {"ready", "running"} \cup Ended]
          /\ stage' \in {"none", "registered", "working", "closing", "ended"}
      BY <3>1, <2>1 DEF IInv, TypeOK
    <3>4. UNCHANGED <<run, acked, registered, left, displaced, queue, worker, client, obeyed>>
      BY <1>3 DEF Finish, routerVars, clientVars
    <3>5. QED
      BY <3>2, <3>3, <3>4 DEF IInv, TypeOK
<1>4. CASE Close
  <2>1. run \in Runs
    BY <1>4, RunExists DEF Close, IInv
  <2>2. QED
    <3>1. /\ seq' \in [Runs -> Nat] /\ raced' = raced
          /\ observer' \in [Observers -> [at : {"off", "on", "closed"}, run : 0..MaxRuns,
                                          last : Nat, lost : Nat, unread : 0..Backlog]]
      BY <1>4, <2>1, EmitTyped DEF Close, IInv
    <3>2. stage' = "ended"
          /\ UNCHANGED <<run, phase, acked, registered, left, displaced, queue, worker, client, obeyed>>
      BY <1>4 DEF Close, routerVars, clientVars
    <3>3. QED
      BY <3>1, <3>2 DEF IInv, TypeOK
<1>5. ASSUME NEW r \in Runs, Unregister(r) PROVE TypeOK'
  <2>1. registered > r => registered \in Runs
    BY BoundsPositive DEF IInv, TypeOK, Runs
  <2>2. displaced' \subseteq Runs /\ left' \subseteq Runs /\ registered' \in 0..MaxRuns
    BY <1>5, <2>1, BoundsPositive DEF Unregister, IInv, TypeOK
  <2>3. UNCHANGED <<run, stage, phase, acked, queue, worker, seq, raced, observer, client, obeyed>>
    BY <1>5 DEF Unregister, runVars, eventVars, clientVars
  <2>4. QED
    BY <2>2, <2>3 DEF IInv, TypeOK
<1>6. QED
  BY <1>1, <1>2, <1>3, <1>4, <1>5 DEF Driver

LEMMA DriverOrders == ASSUME IInv, Driver PROVE RunsOrdered' /\ StaysRegistered'
<1>1. CASE Begin
  BY <1>1 DEF Begin, Register, Claims, IInv, TypeOK, RunsOrdered, StaysRegistered, Runs
<1>2. CASE Start \/ Finish \/ Close
  <2>1. run \in Runs /\ stage # "none"
    BY <1>2, RunExists DEF Start, Finish, Close, IInv
  <2>2. stage' # "none" /\ UNCHANGED <<run, registered, displaced>>
        /\ (stage' \in {"registered", "working"} => stage = "registered")
    BY <1>2 DEF Start, Finish, Close, routerVars
  <2>3. ASSUME NEW r \in Runs, r > run PROVE phase'[r] = phase[r]
    BY <1>2, <2>1, <2>3 DEF Start, Finish, Close, IInv, TypeOK
  <2>4. QED
    BY <2>1, <2>2, <2>3 DEF IInv, RunsOrdered, StaysRegistered
<1>3. ASSUME NEW r \in Runs, Unregister(r) PROVE RunsOrdered' /\ StaysRegistered'
  <2>1. r <= run
    BY <1>3 DEF Unregister, IInv, RunsOrdered, TypeOK, Ended, Runs
  <2>2. RunsOrdered'
    BY <1>3 DEF Unregister, IInv, RunsOrdered, runVars
  <2>3. StaysRegistered'
    BY <1>3, <2>1 DEF Unregister, IInv, StaysRegistered, TypeOK, runVars, Runs
  <2>4. QED
    BY <2>2, <2>3
<1>4. QED
  BY <1>1, <1>2, <1>3 DEF Driver

LEMMA DriverLeaves == ASSUME IInv, Driver PROVE HandlesHeld' /\ UnqueuedNowhere'
<1>1. CASE Begin
  <2>1. client' = client /\ queue' = queue /\ obeyed' = obeyed
        /\ \A w \in Workers : worker'[w].at = "idle"
    BY <1>1 DEF Begin, clientVars, AtRest
  <2>2. QED
    BY <2>1 DEF IInv, HandlesHeld, UnqueuedNowhere, Nowhere, Pending
<1>2. CASE Start \/ Finish \/ Close \/ \E r \in Runs : Unregister(r)
  <2>1. UNCHANGED <<client, queue, obeyed, worker>>
    BY <1>2 DEF Start, Finish, Close, Unregister, clientVars
  <2>2. QED
    BY <2>1 DEF IInv, HandlesHeld, UnqueuedNowhere, Nowhere, Pending
<1>3. QED
  BY <1>1, <1>2 DEF Driver

-----------------------------------------------------------------------------
(* A request for a command.                                                *)
ClientRecord ==
  [at : {"idle", "found", "checked", "waiting", "served", "answered", "refused", "gaveUp"},
   run : 0..MaxRuns, command : {"none", "pause", "stop", "step"}]

LEMMA ClientTyped == ASSUME IInv, NEW c \in Clients, Client(c) PROVE TypeOK'
<1>1. ASSUME NEW command \in Sends[c], LookUp(c, command) PROVE TypeOK'
  <2>1. command \in {"pause", "stop", "step"}
    BY PlaneAssumption
  <2>2. client' \in [Clients -> ClientRecord]
    BY <1>1, <2>1 DEF LookUp, IInv, TypeOK, ClientRecord
  <2>3. UNCHANGED <<runVars, routerVars, queue, worker, eventVars, obeyed>>
    BY <1>1 DEF LookUp
  <2>4. QED
    BY <2>2, <2>3 DEF IInv, TypeOK, ClientRecord, runVars, routerVars, eventVars
<1>2. CASE CheckPhase(c) \/ Receive(c) \/ GiveUp(c)
  <2>1. client' \in [Clients -> ClientRecord]
    BY <1>2, GoesTyped DEF CheckPhase, Receive, GiveUp, IInv, ClientRecord
  <2>2. UNCHANGED <<runVars, routerVars, queue, worker, eventVars, obeyed>>
    BY <1>2 DEF CheckPhase, Receive, GiveUp
  <2>3. QED
    BY <2>1, <2>2 DEF IInv, TypeOK, ClientRecord, runVars, routerVars, eventVars
<1>3. CASE Request(c)
  <2>1. client' \in [Clients -> ClientRecord]
    BY <1>3, GoesTyped DEF Request, IInv, ClientRecord
  <2>2. queue' \in [Runs -> Seq(Clients)] /\ \A r \in Runs : Len(queue'[r]) <= Capacity
    <3>1. client[c].run \in Runs
      BY <1>3 DEF Request, IInv, HandlesHeld
    <3>2. CASE Len(queue[client[c].run]) < Capacity
      <4>1. queue' = [queue EXCEPT ![client[c].run] = Append(@, c)]
        BY <1>3, <3>2 DEF Request, Enqueue
      <4>2. Len(Append(queue[client[c].run], c)) <= Capacity
            /\ Append(queue[client[c].run], c) \in Seq(Clients)
        BY <3>1, <3>2, BoundsPositive DEF IInv, TypeOK
      <4>3. QED
        BY <3>1, <4>1, <4>2 DEF IInv, TypeOK
    <3>3. CASE ~(Len(queue[client[c].run]) < Capacity)
      BY <1>3, <3>3 DEF Request, IInv, TypeOK
    <3>4. QED
      BY <3>2, <3>3
  <2>3. UNCHANGED <<runVars, routerVars, worker, eventVars, obeyed>>
    BY <1>3 DEF Request
  <2>4. QED
    BY <2>1, <2>2, <2>3 DEF IInv, TypeOK, ClientRecord, runVars, routerVars, eventVars
<1>4. QED
  BY <1>1, <1>2, <1>3 DEF Client

LEMMA ClientLeaves ==
  ASSUME IInv, NEW c \in Clients, Client(c)
  PROVE  RunsOrdered' /\ StaysRegistered' /\ HandlesHeld' /\ UnqueuedNowhere'
<1>1. UNCHANGED <<runVars, routerVars, worker, eventVars, obeyed>>
  BY DEF Client, LookUp, CheckPhase, Request, Receive, GiveUp
<1>2. RunsOrdered' /\ StaysRegistered'
  BY <1>1 DEF IInv, RunsOrdered, StaysRegistered, runVars, routerVars
<1>3. ASSUME NEW command \in Sends[c], LookUp(c, command) PROVE HandlesHeld' /\ UnqueuedNowhere'
  <2>1. /\ queue' = queue /\ client[c].at = "idle"
        /\ \A d \in Clients \ {c} : client'[d] = client[d]
        /\ client'[c].at \in {"found", "refused"}
        /\ client'[c].at = "found" => client'[c].run \in Runs
    BY <1>3, BoundsPositive DEF LookUp, IInv, TypeOK, Runs
  <2>2. QED
    BY <1>1, <2>1 DEF IInv, HandlesHeld, UnqueuedNowhere, Nowhere, Pending
<1>4. CASE CheckPhase(c) \/ Receive(c) \/ GiveUp(c)
  <2>1. /\ queue' = queue
        /\ \A d \in Clients \ {c} : client'[d] = client[d]
        /\ client'[c].run = client[c].run
        /\ \/ client[c].at = "found" /\ client'[c].at \in {"checked", "refused"}
           \/ client[c].at \in {"waiting", "served"} /\ client'[c].at \in {"answered", "gaveUp"}
    BY <1>4 DEF CheckPhase, Receive, GiveUp, Goes, IInv, TypeOK
  <2>2. QED
    BY <1>1, <1>2, <2>1 DEF IInv, HandlesHeld, UnqueuedNowhere, Nowhere, Pending
<1>5. CASE Request(c)
  <2>1. /\ client[c].at = "checked" /\ client[c].run \in Runs
        /\ \A d \in Clients \ {c} : client'[d] = client[d]
        /\ client'[c].run = client[c].run
        /\ client'[c].at \in {"waiting", "refused"}
    BY <1>5 DEF Request, Goes, IInv, TypeOK, HandlesHeld
  <2>2. HandlesHeld'
    BY <1>1, <2>1 DEF IInv, HandlesHeld
  <2>3. UnqueuedNowhere'
    <3>1. CASE Len(queue[client[c].run]) < Capacity
      <4>1. client'[c].at = "waiting" /\ queue' = [queue EXCEPT ![client[c].run] = Append(@, c)]
        BY <1>5, <3>1 DEF Request, Enqueue, Goes, IInv, TypeOK
      <4>2. ASSUME NEW d \in Clients \ {c}, NEW r \in Runs, ~Pending(d, r) PROVE ~Pending(d, r)'
        <5>1. queue[r] \in Seq(Clients)
          BY DEF IInv, TypeOK
        <5>2. queue'[r] = queue[r] \/ queue'[r] = Append(queue[r], c)
          BY <4>1 DEF IInv, TypeOK
        <5>3. CASE queue'[r] = Append(queue[r], c)
          BY <4>2, <5>1, <5>3 DEF Pending
        <5>4. QED
          BY <4>2, <5>2, <5>3 DEF Pending
      <4>3. QED
        BY <1>1, <2>1, <4>1, <4>2 DEF IInv, UnqueuedNowhere, Nowhere
    <3>2. CASE ~(Len(queue[client[c].run]) < Capacity)
      BY <1>1, <1>5, <2>1, <3>2 DEF Request, IInv, UnqueuedNowhere, Nowhere, Pending
    <3>3. QED
      BY <3>1, <3>2
  <2>4. QED
    BY <1>2, <2>2, <2>3
<1>6. HandlesHeld' /\ UnqueuedNowhere'
  BY <1>3, <1>4, <1>5 DEF Client
<1>7. QED
  BY <1>2, <1>6

-----------------------------------------------------------------------------
(* A subscription.                                                         *)
LEMMA ObserverKeeps == ASSUME IInv, NEW o \in Observers, Observer(o) PROVE IInv'
<1>1. UNCHANGED <<runVars, routerVars, queue, seq, raced, worker, clientVars>>
  BY DEF Observer, Subscribe, Read, Disconnect
<1>2. observer' \in [Observers -> [at : {"off", "on", "closed"}, run : 0..MaxRuns, last : Nat,
                                  lost : Nat, unread : 0..Backlog]]
  <2> DEFINE was == observer[o]
  <2>. was \in [at : {"off", "on", "closed"}, run : 0..MaxRuns, last : Nat, lost : Nat,
                unread : 0..Backlog]
    BY DEF IInv, TypeOK
  <2>1. CASE Subscribe(o)
    <3>1. observer' = [observer EXCEPT ![o] = [was EXCEPT !.at = "on", !.run = registered]]
      BY <2>1 DEF Subscribe, IInv, TypeOK
    <3>2. QED
      BY <3>1 DEF IInv, TypeOK
  <2>2. CASE Read(o)
    <3>1. observer' = [observer EXCEPT ![o] = [was EXCEPT !.unread = was.unread - 1]]
      BY <2>2 DEF Read
    <3>2. was.unread - 1 \in 0..Backlog
      BY <2>2, BoundsPositive DEF Read
    <3>3. QED
      BY <3>1, <3>2 DEF IInv, TypeOK
  <2>3. CASE Disconnect(o)
    <3>1. observer' = [observer EXCEPT ![o] = [at |-> "closed", run |-> 0, last |-> 0, lost |-> 0,
                                              unread |-> 0]]
      BY <2>3, RestRecords DEF Disconnect
    <3>2. 0 \in 0..Backlog /\ 0 \in 0..MaxRuns
      BY BoundsPositive
    <3>3. QED
      BY <3>1, <3>2 DEF IInv, TypeOK
  <2>4. QED
    BY <2>1, <2>2, <2>3 DEF Observer
<1>3. TypeOK'
  BY <1>1, <1>2 DEF IInv, TypeOK, runVars, routerVars, clientVars
<1>4. RunsOrdered' /\ StaysRegistered' /\ HandlesHeld' /\ CommandsNamed' /\ UnqueuedNowhere'
  BY <1>1 DEF IInv, RunsOrdered, StaysRegistered, HandlesHeld, CommandsNamed, UnqueuedNowhere,
              Nowhere, Pending, runVars, routerVars, clientVars
<1>5. QED
  BY <1>3, <1>4 DEF IInv

-----------------------------------------------------------------------------
(* A goroutine of the run.                                                 *)
WorkerRecord == [at : {"idle", "polled", "report", "stamped", "returned"},
                 request : Clients \cup {0}, seq : Nat]

LEMMA WorkerTyped == ASSUME IInv, NEW w \in Workers, Worker(w) PROVE TypeOK'
<1>1. run \in Runs
  BY RunExists DEF Worker, Poll, Serve, Stamp, Deliver, WorkerReturns, At, IInv
<1>2. worker[w] \in WorkerRecord
  BY DEF IInv, TypeOK, WorkerRecord
<1>3. CASE Poll(w)
  <2>1. Head(queue[run]) \in Clients /\ Tail(queue[run]) \in Seq(Clients)
        /\ Len(Tail(queue[run])) <= Capacity
    BY <1>1, <1>3, BoundsPositive DEF Poll, IInv, TypeOK
  <2>2. worker' = [worker EXCEPT ![w] = [at |-> "polled", request |-> Head(queue[run]), seq |-> 0]]
    BY <1>3 DEF Poll
  <2>3. worker' \in [Workers -> WorkerRecord]
    BY <2>1, <2>2 DEF IInv, TypeOK, WorkerRecord
  <2>4. queue' = [queue EXCEPT ![run] = Tail(queue[run])]
    BY <1>3 DEF Poll
  <2>5. queue' \in [Runs -> Seq(Clients)] /\ \A r \in Runs : Len(queue'[r]) <= Capacity
    BY <1>1, <2>1, <2>4 DEF IInv, TypeOK
  <2>6. UNCHANGED <<runVars, routerVars, eventVars, clientVars>>
    BY <1>3 DEF Poll
  <2>7. QED
    BY <2>3, <2>5, <2>6 DEF IInv, TypeOK, WorkerRecord, runVars, routerVars, eventVars, clientVars
<1>4. CASE Serve(w)
  <2> DEFINE c == worker[w].request
  <2>1. c \in Clients
    BY <1>4 DEF Serve, At, IInv, HandlesHeld
  <2>2. client' \in [Clients -> ClientRecord]
    <3>1. client' = client \/ client' = [client EXCEPT ![c] = [client[c] EXCEPT !.at = "served"]]
      BY <1>4 DEF Serve, Respond
    <3>2. client \in [Clients -> ClientRecord]
      BY DEF IInv, TypeOK, ClientRecord
    <3>3. [client[c] EXCEPT !.at = "served"] \in ClientRecord
      BY <2>1, <3>2 DEF ClientRecord
    <3>4. QED
      BY <3>1, <3>2, <3>3
  <2>3. worker' \in [Workers -> WorkerRecord]
    <3>1. PICK to \in {"idle", "report"} : worker' = [worker EXCEPT ![w] = [worker[w] EXCEPT !.at = to]]
      BY <1>4 DEF Serve, Moves
    <3>2. [worker[w] EXCEPT !.at = to] \in WorkerRecord
      BY <1>2 DEF WorkerRecord
    <3>3. QED
      BY <3>1, <3>2 DEF IInv, TypeOK, WorkerRecord
  <2>4. acked' \subseteq {"pause", "stop"} /\ obeyed' \subseteq Clients
    <3>1. CASE client[c].command = "step"
      BY <1>4, <3>1 DEF Serve, IInv, TypeOK
    <3>2. CASE client[c].command # "step"
      <4>1. acked' = acked \cup {client[c].command} /\ obeyed' = obeyed \cup {c}
        BY <1>4, <3>2 DEF Serve
      <4>2. client[c].command # "none"
        <5>1. client[c].at # "idle"
          BY <1>4, <2>1 DEF Serve, At, IInv, UnqueuedNowhere, Nowhere
        <5>2. QED
          BY <2>1, <5>1 DEF IInv, CommandsNamed
      <4>3. QED
        BY <2>1, <3>2, <4>1, <4>2 DEF IInv, TypeOK
    <3>3. QED
      BY <3>1, <3>2
  <2>5. UNCHANGED <<run, stage, phase, routerVars, queue, eventVars>>
    BY <1>4 DEF Serve
  <2>6. QED
    BY <2>2, <2>3, <2>4, <2>5 DEF IInv, TypeOK, ClientRecord, WorkerRecord, routerVars, eventVars
<1>5. CASE Stamp(w)
  <2>1. Number \in Nat
    BY <1>1, NumberTyped DEF IInv
  <2>2. worker' \in [Workers -> WorkerRecord]
    BY <1>2, <1>5, <2>1 DEF Stamp, IInv, TypeOK, WorkerRecord
  <2>3. seq' \in [Runs -> Nat] /\ raced' \subseteq Runs
    BY <1>1, <1>5, <2>1 DEF Stamp, Counted, IInv, TypeOK
  <2>4. UNCHANGED <<runVars, routerVars, queue, observer, clientVars>>
    BY <1>5 DEF Stamp
  <2>5. QED
    BY <2>2, <2>3, <2>4 DEF IInv, TypeOK, WorkerRecord, runVars, routerVars, clientVars
<1>6. CASE Deliver(w)
  <2>1. observer' \in [Observers -> [at : {"off", "on", "closed"}, run : 0..MaxRuns, last : Nat,
                                    lost : Nat, unread : 0..Backlog]]
    BY <1>2, <1>6, FanOutTyped DEF Deliver, IInv, WorkerRecord
  <2>2. PICK to \in {"returned", "idle"} :
          worker' = [worker EXCEPT ![w] = [at |-> to, request |-> 0, seq |-> 0]]
    BY <1>6 DEF Deliver, AtRest
  <2>3. worker' \in [Workers -> WorkerRecord]
    BY <2>2 DEF IInv, TypeOK, WorkerRecord
  <2>4. UNCHANGED <<runVars, routerVars, queue, seq, raced, clientVars>>
    BY <1>6 DEF Deliver
  <2>5. QED
    BY <2>1, <2>3, <2>4 DEF IInv, TypeOK, WorkerRecord, runVars, routerVars, clientVars
<1>7. CASE WorkerReturns(w)
  <2>1. worker' = [worker EXCEPT ![w] = [at |-> "returned", request |-> 0, seq |-> 0]]
    BY <1>7, RestRecords DEF WorkerReturns
  <2>2. worker' \in [Workers -> WorkerRecord]
    BY <2>1 DEF IInv, TypeOK, WorkerRecord
  <2>3. UNCHANGED <<runVars, routerVars, queue, eventVars, clientVars>>
    BY <1>7 DEF WorkerReturns
  <2>4. QED
    BY <2>2, <2>3 DEF IInv, TypeOK, WorkerRecord, runVars, routerVars, eventVars, clientVars
<1>8. QED
  BY <1>3, <1>4, <1>5, <1>6, <1>7 DEF Worker

LEMMA WorkerLeaves ==
  ASSUME IInv, NEW w \in Workers, Worker(w)
  PROVE  RunsOrdered' /\ StaysRegistered' /\ HandlesHeld' /\ UnqueuedNowhere'
<1>1. run \in Runs /\ UNCHANGED <<run, stage, phase, routerVars>>
  BY RunExists DEF Worker, Poll, Serve, Stamp, Deliver, WorkerReturns, At, IInv, runVars
<1>2. RunsOrdered' /\ StaysRegistered'
  BY <1>1 DEF IInv, RunsOrdered, StaysRegistered, routerVars
<1>3. \A v \in Workers \ {w} : worker'[v] = worker[v]
  BY DEF Worker, Poll, Serve, Stamp, Deliver, WorkerReturns, Moves, IInv, TypeOK
<1>4. CASE Poll(w)
  <2> DEFINE c == Head(queue[run])
  <2>1. queue[run] \in Seq(Clients) /\ queue[run] # <<>>
    BY <1>1, <1>4 DEF Poll, IInv, TypeOK
  <2>2. c \in Clients /\ Pending(c, run)
    BY <2>1 DEF Pending
  <2>3. ASSUME NEW d \in Clients, NEW r \in Runs, ~Pending(d, r) PROVE ~Pending(d, r)'
    <3>1. queue'[r] = queue[r] \/ (r = run /\ queue'[r] = Tail(queue[r]))
      <4>1. queue' = [queue EXCEPT ![run] = Tail(queue[run])]
        BY <1>4 DEF Poll
      <4>2. queue \in [Runs -> Seq(Clients)]
        BY DEF IInv, TypeOK
      <4>3. CASE r = run
        BY <1>1, <4>1, <4>2, <4>3
      <4>4. CASE r # run
        BY <4>1, <4>2, <4>4
      <4>5. QED
        BY <4>3, <4>4
    <3>2. CASE r = run /\ queue'[r] = Tail(queue[r])
      BY <2>1, <2>3, <3>2 DEF Pending
    <3>3. QED
      BY <2>3, <3>1, <3>2 DEF Pending
  <2>4. worker'[w].request = c /\ UNCHANGED <<client, obeyed>>
    BY <1>4 DEF Poll, clientVars, IInv, TypeOK
  <2>5. HandlesHeld'
    BY <1>3, <2>2, <2>4 DEF IInv, HandlesHeld
  <2>6. UnqueuedNowhere'
    BY <1>1, <1>3, <2>2, <2>3, <2>4 DEF IInv, UnqueuedNowhere, Nowhere
  <2>7. QED
    BY <1>2, <2>5, <2>6
<1>5. CASE Serve(w)
  <2> DEFINE c == worker[w].request
  <2>1. worker[w].at = "polled" /\ c \in Clients
    BY <1>5 DEF Serve, At, IInv, HandlesHeld
  <2>2. client[c].at \notin {"idle", "found", "checked", "refused"}
    BY <2>1 DEF IInv, UnqueuedNowhere, Nowhere
  <2>3. /\ queue' = queue /\ worker'[w].request = c /\ obeyed' \subseteq obeyed \cup {c}
        /\ \A d \in Clients : d # c => client'[d] = client[d]
        /\ client'[c].run = client[c].run
        /\ client'[c].at \notin {"idle", "found", "checked", "refused"}
    BY <1>5, <2>1, <2>2 DEF Serve, Moves, Respond, IInv, TypeOK
  <2>4. HandlesHeld'
    BY <1>3, <2>1, <2>2, <2>3 DEF IInv, HandlesHeld
  <2>5. UnqueuedNowhere'
    BY <1>3, <2>1, <2>3 DEF IInv, UnqueuedNowhere, Nowhere, Pending
  <2>6. QED
    BY <1>2, <2>4, <2>5
<1>6. CASE Stamp(w) \/ Deliver(w) \/ WorkerReturns(w)
  <2>1. UNCHANGED <<client, obeyed, queue>>
    BY <1>6 DEF Stamp, Deliver, WorkerReturns, clientVars
  <2>2. \/ worker'[w].at \notin {"polled", "report", "stamped"}
        \/ worker[w].at = "report" /\ worker'[w].request = worker[w].request
    BY <1>6 DEF Stamp, Deliver, WorkerReturns, At, AtRest, IInv, TypeOK
  <2>3. QED
    BY <1>2, <1>3, <2>1, <2>2 DEF IInv, HandlesHeld, UnqueuedNowhere, Nowhere, Pending
<1>7. QED
  BY <1>4, <1>5, <1>6 DEF Worker

-----------------------------------------------------------------------------
(* The command of a request is set once, when it arrives.                  *)
LEMMA CommandsStay ==
  ASSUME IInv, Driver \/ (\E w \in Workers : Worker(w)) \/ \E c \in Clients : Client(c)
  PROVE  CommandsNamed'
<1>1. CASE Driver
  BY <1>1 DEF Driver, Begin, Start, Finish, Close, Unregister, clientVars, IInv, CommandsNamed
<1>2. ASSUME NEW w \in Workers, Worker(w) PROVE CommandsNamed'
  <2>1. \/ client' = client
        \/ worker[w].at = "polled" /\ Respond(worker[w].request)
    BY <1>2 DEF Worker, Poll, Serve, Stamp, Deliver, WorkerReturns, At, clientVars
  <2>2. CASE worker[w].at = "polled" /\ Respond(worker[w].request)
    BY <2>2 DEF Respond, IInv, TypeOK, HandlesHeld, CommandsNamed
  <2>3. QED
    BY <2>1, <2>2 DEF IInv, CommandsNamed
<1>3. ASSUME NEW c \in Clients, Client(c) PROVE CommandsNamed'
  <2>1. ASSUME NEW command \in Sends[c], LookUp(c, command) PROVE CommandsNamed'
    <3>1. command # "none"
      BY PlaneAssumption
    <3>2. client'[c].command = command /\ \A d \in Clients \ {c} : client'[d] = client[d]
      BY <2>1 DEF LookUp, IInv, TypeOK
    <3>3. QED
      BY <3>1, <3>2 DEF IInv, CommandsNamed
  <2>2. CASE CheckPhase(c) \/ Request(c) \/ Receive(c) \/ GiveUp(c)
    <3>1. client[c].at # "idle" /\ client'[c].command = client[c].command
          /\ \A d \in Clients \ {c} : client'[d] = client[d]
      BY <2>2 DEF CheckPhase, Request, Receive, GiveUp, Goes, IInv, TypeOK
    <3>2. QED
      BY <3>1 DEF IInv, CommandsNamed
  <2>3. QED
    BY <1>3, <2>1, <2>2 DEF Client
<1>4. QED
  BY <1>1, <1>2, <1>3

LEMMA NextKeeps == IInv /\ [Next]_vars => IInv'
<1> SUFFICES ASSUME IInv, [Next]_vars PROVE IInv'
  OBVIOUS
<1>1. CASE Driver
  BY <1>1, DriverTyped, DriverOrders, DriverLeaves, CommandsStay DEF IInv
<1>2. ASSUME NEW w \in Workers, Worker(w) PROVE IInv'
  BY <1>2, WorkerTyped, WorkerLeaves, CommandsStay DEF IInv
<1>3. ASSUME NEW c \in Clients, Client(c) PROVE IInv'
  BY <1>3, ClientTyped, ClientLeaves, CommandsStay DEF IInv
<1>4. ASSUME NEW o \in Observers, Observer(o) PROVE IInv'
  BY <1>4, ObserverKeeps
<1>5. CASE UNCHANGED vars
  BY <1>5 DEF vars, runVars, routerVars, eventVars, clientVars, IInv, TypeOK, RunsOrdered,
              StaysRegistered, HandlesHeld, CommandsNamed, UnqueuedNowhere, Nowhere, Pending
<1>6. QED
  BY <1>1, <1>2, <1>3, <1>4, <1>5 DEF Next

(* The strengthened invariant of the plane, its router and its clients.    *)
THEOREM PlaneInvariant == Spec => []IInv
BY InitIInv, NextKeeps, PTL DEF Spec

(* Every reachable state of control plane, router and clients is well      *)
(* typed: the queue within its capacity, the backlogs within theirs.       *)
THEOREM PlaneTyped == Spec => []TypeOK
<1>1. IInv => TypeOK
  BY DEF IInv
<1>2. QED
  BY <1>1, PlaneInvariant, PTL

(* What handleCommand refuses is never obeyed and is in no run's queue.    *)
THEOREM RefusalsHaveNoEffect == Spec => []RefusedHasNoEffect
<1>1. IInv => RefusedHasNoEffect
  BY DEF IInv, UnqueuedNowhere, Nowhere, RefusedHasNoEffect
<1>2. QED
  BY <1>1, PlaneInvariant, PTL

(* A run that is going on is found under its id, unless an earlier run's   *)
(* driver took its registration away.                                      *)
THEOREM RunsReachable == Spec => []RunningIsReachable
<1>1. IInv => RunningIsReachable
  BY DEF IInv, StaysRegistered, RunningIsReachable
<1>2. QED
  BY <1>1, PlaneInvariant, PTL
-----------------------------------------------------------------------------
(* What the numbers of events mean while emits do not overlap: at most one *)
(* event is between its number and its delivery, and that number is the    *)
(* latest; a subscription of the latest run has been sent or has dropped   *)
(* every other one since the first it was sent.                            *)
Undelivered == IF Emitting = {} THEN 0 ELSE 1
OneAtATime ==
  /\ stage # "working" => Emitting = {}
  /\ run \notin raced => \A v, w \in Emitting : v = w
  /\ run \notin raced => \A w \in Emitting : worker[w].seq = seq[run]
Accounted ==
  \A o \in Observers :
    observer[o].at = "on" /\ observer[o].run = run /\ observer[o].last # 0 /\ run \notin raced =>
      observer[o].last + observer[o].lost + Undelivered = seq[run]

(* Nobody subscribes to a run that has not begun, and whoever has not      *)
(* subscribed was sent nothing.                                            *)
Subscribed ==
  /\ registered <= run
  /\ \A o \in Observers : /\ observer[o].run <= run
                          /\ observer[o].at = "off" => observer[o].last = 0
NInv == OneAtATime /\ Accounted /\ Subscribed

LEMMA InitNInv == Init => NInv
<1> SUFFICES ASSUME Init PROVE NInv
  OBVIOUS
<1>1. Emitting = {}
  BY DEF Init, Emitting, AtRest
<1>2. QED
  BY <1>1 DEF Init, NInv, OneAtATime, Accounted, Subscribed, Unsubscribed

(* One event fanned out to one subscription.                               *)
LEMMA Offered ==
  ASSUME TypeOK, NEW n \in Nat, FanOut(n), NEW o \in Observers
  PROVE  /\ observer'[o].at = observer[o].at /\ observer'[o].run = observer[o].run
         /\ \/ /\ observer[o].at = "on" /\ observer[o].run = run
               /\ observer'[o].last = n /\ observer'[o].lost = 0
            \/ /\ observer[o].at = "on" /\ observer[o].run = run
               /\ observer'[o].last = observer[o].last
               /\ observer'[o].lost = observer[o].lost + 1
               /\ observer'[o].unread = observer[o].unread
            \/ ~(observer[o].at = "on" /\ observer[o].run = run) /\ observer'[o] = observer[o]
<1> DEFINE was == observer[o]
<1>1. was \in [at : {"off", "on", "closed"}, run : 0..MaxRuns, last : Nat, lost : Nat,
               unread : 0..Backlog]
  BY DEF TypeOK
<1>2. observer'[o] = Offer(was, n)
  BY DEF FanOut
<1>3. CASE was.at # "on" \/ was.run # run
  BY <1>2, <1>3 DEF Offer
<1>4. CASE was.at = "on" /\ was.run = run /\ was.unread < Backlog
  <2>1. Offer(was, n) = [was EXCEPT !.last = n, !.lost = 0, !.unread = @ + 1]
    BY <1>4 DEF Offer
  <2>2. QED
    BY <1>1, <1>2, <1>4, <2>1
<1>5. CASE was.at = "on" /\ was.run = run /\ ~(was.unread < Backlog)
  <2>1. Offer(was, n) = [was EXCEPT !.lost = @ + 1]
    BY <1>5 DEF Offer
  <2>2. QED
    BY <1>1, <1>2, <1>5, <2>1
<1>6. QED
  BY <1>3, <1>4, <1>5

(* An event that a subscription is offered in the order of the numbers     *)
(* keeps its account, and the number it is sent tells what it lost.        *)
LEMMA AccountKept ==
  ASSUME TypeOK, Accounted, Subscribed, run \in Runs, NEW n \in Nat, FanOut(n), run' = run,
         raced' = raced, Undelivered' = 0,
         run \notin raced => /\ n = seq'[run]
                             /\ seq'[run] = seq[run] + 1 - Undelivered
  PROVE  /\ Accounted' /\ \A o \in Observers : observer'[o].run <= run'
         /\ \A o \in Observers : observer'[o].at = "off" => observer'[o].last = 0
         /\ \A o \in Observers :
              observer[o].at = "on" /\ observer[o].last # 0 /\ observer'[o].unread > observer[o].unread
                /\ observer[o].run \notin raced =>
              observer'[o].last = observer[o].last + observer[o].lost + 1
<1>1. ASSUME NEW o \in Observers
      PROVE  observer[o] \in [at : {"off", "on", "closed"}, run : 0..MaxRuns, last : Nat,
                              lost : Nat, unread : 0..Backlog]
  BY DEF TypeOK
<1>2. seq[run] \in Nat /\ Undelivered \in {0, 1}
  BY DEF TypeOK, Undelivered
<1>3. ASSUME NEW o \in Observers, observer'[o].at = "on", observer'[o].run = run,
             observer'[o].last # 0, run \notin raced
      PROVE  observer'[o].last + observer'[o].lost = seq'[run]
  <2>1. observer[o].at = "on" /\ observer[o].run = run
    BY <1>3, Offered
  <2>2. CASE observer'[o].last = n /\ observer'[o].lost = 0
    BY <1>2, <1>3, <2>2
  <2>3. CASE observer'[o].last = observer[o].last /\ observer'[o].lost = observer[o].lost + 1
    <3>1. observer[o].last + observer[o].lost + Undelivered = seq[run]
      BY <1>3, <2>1, <2>3 DEF Accounted
    <3>2. QED
      BY <1>1, <1>2, <1>3, <2>3, <3>1
  <2>4. QED
    BY <2>1, <2>2, <2>3, Offered
<1>4. Accounted'
  <2>1. ASSUME NEW o \in Observers, observer'[o].at = "on", observer'[o].run = run,
               observer'[o].last # 0, run \notin raced
        PROVE  observer'[o].last + observer'[o].lost + 0 = seq'[run]
    <3>1. observer'[o].last \in Nat /\ observer'[o].lost \in Nat
      BY FanOutTyped
    <3>2. QED
      BY <1>3, <2>1, <3>1
  <2>2. QED
    BY <2>1 DEF Accounted
<1>5. ASSUME NEW o \in Observers
      PROVE  observer'[o].run <= run' /\ (observer'[o].at = "off" => observer'[o].last = 0)
  BY <1>1, Offered DEF Subscribed
<1>6. ASSUME NEW o \in Observers, observer[o].at = "on", observer[o].last # 0,
             observer'[o].unread > observer[o].unread, observer[o].run \notin raced
      PROVE  observer'[o].last = observer[o].last + observer[o].lost + 1
  <2>1. observer[o].run = run /\ observer'[o].last = n
    BY <1>1, <1>6, Offered
  <2>2. observer[o].last + observer[o].lost + Undelivered = seq[run]
    BY <1>6, <2>1 DEF Accounted
  <2>3. n = seq[run] + 1 - Undelivered
    BY <1>6, <2>1
  <2>4. QED
    BY <1>1, <1>2, <2>1, <2>2, <2>3
<1>7. QED
  BY <1>4, <1>5, <1>6

(* What a step of the plane may do to a subscription.                      *)
GapsKnown ==
  \A o \in Observers :
    observer[o].at = "on" /\ observer[o].last # 0 /\ observer'[o].unread > observer[o].unread
      /\ observer[o].run \notin raced =>
    observer'[o].last = observer[o].last + observer[o].lost + 1

LEMMA EmitAccounts ==
  ASSUME IInv, NInv, run \in Runs, Emit, UNCHANGED run, Emitting = {}, Emitting' = {},
         registered' <= run
  PROVE  NInv' /\ GapsKnown
<1>1. Undelivered = 0 /\ Undelivered' = 0
  BY DEF Undelivered
<1>2. seq[run] \in Nat /\ seq'[run] = seq[run] + 1 /\ Number = seq[run] + 1 /\ Number \in Nat
  BY DEF Emit, Counted, Number, IInv, TypeOK
<1>3. FanOut(Number) /\ raced' = raced
  BY DEF Emit
<1>4. seq[run] + 1 = seq[run] + 1 - Undelivered
  BY <1>1, <1>2
<1>5. /\ Accounted' /\ GapsKnown
      /\ \A o \in Observers : /\ observer'[o].run <= run'
                              /\ observer'[o].at = "off" => observer'[o].last = 0
  BY <1>1, <1>2, <1>3, <1>4, AccountKept DEF IInv, NInv, GapsKnown
<1>6. OneAtATime'
  BY DEF OneAtATime
<1>7. QED
  BY <1>5, <1>6 DEF NInv, Subscribed

LEMMA DriverAccounts == ASSUME IInv, NInv, Driver PROVE NInv' /\ GapsKnown
<1>1. CASE Begin
  <2>1. run' = run + 1 /\ registered' = run + 1 /\ observer' = observer /\ raced' = raced
        /\ Emitting' = {}
    BY <1>1 DEF Begin, Register, Claims, eventVars, Emitting, AtRest
  <2>2. run \in Nat
    BY BoundsPositive DEF IInv, TypeOK
  <2>3. ASSUME NEW o \in Observers
        PROVE  observer[o].run # run + 1 /\ observer[o].run <= run + 1
    BY <2>2, BoundsPositive DEF NInv, Subscribed, IInv, TypeOK
  <2>4. OneAtATime' /\ Accounted' /\ Subscribed'
    BY <2>1, <2>2, <2>3 DEF OneAtATime, Accounted, Subscribed, NInv
  <2>5. GapsKnown
    BY <2>1, BoundsPositive DEF GapsKnown, IInv, TypeOK
  <2>6. QED
    BY <2>4, <2>5 DEF NInv
<1>2. CASE Start \/ Finish \/ Close
  <2>1. run \in Runs
    BY <1>2, RunExists DEF Start, Finish, Close, IInv
  <2>2. Emitting = {}
    BY <1>2 DEF Start, Finish, Close, NInv, OneAtATime, Emitting
  <2>3. Emit /\ UNCHANGED <<run, registered, worker>>
    BY <1>2 DEF Start, Finish, Close, routerVars
  <2>4. Emitting' = {} /\ registered' <= run
    BY <2>2, <2>3 DEF Emitting, NInv, Subscribed
  <2>5. QED
    BY <2>1, <2>2, <2>3, <2>4, EmitAccounts
<1>3. ASSUME NEW r \in Runs, Unregister(r) PROVE NInv' /\ GapsKnown
  <2>1. UNCHANGED <<run, stage, worker, seq, raced, observer>> /\ registered' = 0
    BY <1>3 DEF Unregister, runVars, eventVars
  <2>2. 0 <= run
    BY BoundsPositive DEF IInv, TypeOK
  <2>3. QED
    BY <2>1, <2>2, BoundsPositive
       DEF NInv, OneAtATime, Accounted, Subscribed, Undelivered, Emitting, GapsKnown, IInv, TypeOK
<1>4. QED
  BY <1>1, <1>2, <1>3 DEF Driver

LEMMA WorkerAccounts == ASSUME IInv, NInv, NEW w \in Workers, Worker(w) PROVE NInv' /\ GapsKnown
<1>1. run \in Runs /\ stage = "working" /\ UNCHANGED <<run, stage, registered>>
  BY RunExists DEF Worker, Poll, Serve, Stamp, Deliver, WorkerReturns, At, IInv, runVars, routerVars
<1>2. \A v \in Workers \ {w} : worker'[v] = worker[v]
  BY DEF Worker, Poll, Serve, Stamp, Deliver, WorkerReturns, Moves, IInv, TypeOK
<1>3. CASE Poll(w) \/ Serve(w) \/ WorkerReturns(w)
  <2>1. UNCHANGED <<seq, raced, observer>>
    BY <1>3 DEF Poll, Serve, WorkerReturns, eventVars
  <2>2. worker[w].at # "stamped" /\ worker'[w].at # "stamped"
    BY <1>3 DEF Poll, Serve, WorkerReturns, At, Moves, AtRest, IInv, TypeOK
  <2>3. Emitting' = Emitting /\ \A v \in Emitting : worker'[v] = worker[v]
    BY <1>2, <2>2 DEF Emitting
  <2>4. OneAtATime' /\ Accounted' /\ Subscribed'
    BY <1>1, <2>1, <2>3 DEF NInv, OneAtATime, Accounted, Subscribed, Undelivered
  <2>5. GapsKnown
    BY <2>1, BoundsPositive DEF GapsKnown, IInv, TypeOK
  <2>6. QED
    BY <2>4, <2>5 DEF NInv
<1>4. CASE Stamp(w)
  <2>1. /\ worker[w].at = "report" /\ observer' = observer
        /\ worker'[w].at = "stamped" /\ worker'[w].seq = seq[run] + 1
        /\ seq'[run] = seq[run] + 1
        /\ raced' = IF Emitting = {} THEN raced ELSE raced \cup {run}
    BY <1>1, <1>4 DEF Stamp, At, Counted, Number, IInv, TypeOK
  <2>2. CASE Emitting # {}
    BY <1>1, <2>1, <2>2, BoundsPositive
       DEF NInv, OneAtATime, Accounted, Subscribed, GapsKnown, IInv, TypeOK
  <2>3. CASE Emitting = {}
    <3>1. Emitting' = {w} /\ raced' = raced
      BY <1>2, <2>1, <2>3 DEF Emitting
    <3>2. Undelivered = 0 /\ Undelivered' = 1
      BY <2>3, <3>1 DEF Undelivered
    <3>3. OneAtATime'
      BY <1>1, <2>1, <3>1 DEF OneAtATime
    <3>4. Accounted'
      <4>1. ASSUME NEW o \in Observers, observer[o].at = "on", observer[o].run = run,
                   observer[o].last # 0, run \notin raced
            PROVE  observer[o].last + observer[o].lost + 1 = seq[run] + 1
        <5>1. observer[o].last + observer[o].lost + 0 = seq[run]
          BY <3>2, <4>1 DEF NInv, Accounted
        <5>2. observer[o].last \in Nat /\ observer[o].lost \in Nat
          BY DEF IInv, TypeOK
        <5>3. QED
          BY <5>1, <5>2
      <4>2. QED
        BY <1>1, <2>1, <3>1, <3>2, <4>1 DEF Accounted
    <3>5. Subscribed' /\ GapsKnown
      BY <1>1, <2>1, BoundsPositive DEF NInv, Subscribed, GapsKnown, IInv, TypeOK
    <3>6. QED
      BY <3>3, <3>4, <3>5 DEF NInv
  <2>4. QED
    BY <2>2, <2>3
<1>5. CASE Deliver(w)
  <2> DEFINE n == worker[w].seq
  <2>1. /\ w \in Emitting /\ worker'[w].at # "stamped" /\ FanOut(n)
        /\ UNCHANGED <<seq, raced>>
    BY <1>5 DEF Deliver, At, Emitting, AtRest, IInv, TypeOK
  <2>2. n \in Nat /\ seq[run] \in Nat
    BY <1>1 DEF IInv, TypeOK
  <2>3. CASE run \in raced
    <3>1. ASSUME NEW o \in Observers
          PROVE  /\ observer'[o].run = observer[o].run /\ observer'[o].at = observer[o].at
                 /\ observer[o].run # run => observer'[o] = observer[o]
      BY <2>1, <2>2, Offered DEF IInv
    <3>2. OneAtATime' /\ Accounted'
      BY <1>1, <2>1, <2>3 DEF OneAtATime, Accounted
    <3>3. \A o \in Observers : observer[o].at = "off" => observer'[o].last = 0
      BY <2>1, <2>2, Offered DEF IInv, NInv, Subscribed
    <3>4. Subscribed'
      BY <1>1, <3>1, <3>3 DEF NInv, Subscribed
    <3>5. GapsKnown
      <4>1. ASSUME NEW o \in Observers, observer[o].run # run
            PROVE  ~(observer'[o].unread > observer[o].unread)
        <5>1. observer'[o].unread = observer[o].unread /\ observer[o].unread \in 0..Backlog
          BY <3>1, <4>1 DEF IInv, TypeOK
        <5>2. QED
          BY <5>1, BoundsPositive
      <4>2. QED
        BY <2>3, <4>1 DEF GapsKnown
    <3>6. QED
      BY <3>2, <3>4, <3>5 DEF NInv
  <2>4. CASE run \notin raced
    <3>1. Emitting = {w} /\ n = seq[run]
      BY <2>1, <2>4 DEF NInv, OneAtATime
    <3>2. Emitting' = {}
      BY <1>2, <2>1, <3>1 DEF Emitting
    <3>3. Undelivered = 1 /\ Undelivered' = 0
      BY <3>1, <3>2 DEF Undelivered
    <3>4. n = seq'[run] /\ seq'[run] = seq[run] + 1 - Undelivered
      BY <2>1, <2>2, <3>1, <3>3
    <3>5. /\ Accounted' /\ GapsKnown
          /\ \A o \in Observers : /\ observer'[o].run <= run'
                                  /\ observer'[o].at = "off" => observer'[o].last = 0
      BY <1>1, <2>1, <2>2, <3>3, <3>4, AccountKept DEF IInv, NInv, GapsKnown
    <3>6. OneAtATime' /\ registered' <= run'
      BY <1>1, <3>2 DEF OneAtATime, NInv, Subscribed
    <3>7. QED
      BY <3>5, <3>6 DEF NInv, Subscribed
  <2>5. QED
    BY <2>3, <2>4
<1>6. QED
  BY <1>3, <1>4, <1>5 DEF Worker

LEMMA ObserverAccounts ==
  ASSUME IInv, NInv, NEW o \in Observers, Observer(o) PROVE NInv' /\ GapsKnown
<1>1. UNCHANGED <<run, stage, registered, worker, seq, raced>>
  BY DEF Observer, Subscribe, Read, Disconnect, runVars, routerVars
<1>2. OneAtATime' /\ Undelivered' = Undelivered
  BY <1>1 DEF NInv, OneAtATime, Undelivered, Emitting
<1>3. /\ \A p \in Observers \ {o} : observer'[p] = observer[p]
      /\ \/ observer'[o].at = "on" => observer'[o].last = 0
         \/ /\ observer'[o].at = observer[o].at /\ observer'[o].run = observer[o].run
            /\ observer'[o].last = observer[o].last /\ observer'[o].lost = observer[o].lost
      /\ observer'[o].run <= run
      /\ observer'[o].at = "off" => observer'[o].last = 0
      /\ observer'[o].unread <= observer[o].unread
  <2>1. observer[o] \in [at : {"off", "on", "closed"}, run : 0..MaxRuns, last : Nat, lost : Nat,
                         unread : 0..Backlog]
        /\ run \in 0..MaxRuns
    BY DEF IInv, TypeOK
  <2>2. observer[o].run <= run /\ registered <= run
        /\ (observer[o].at = "off" => observer[o].last = 0)
    BY DEF NInv, Subscribed
  <2>3. CASE Subscribe(o)
    <3>1. observer' = [observer EXCEPT ![o] = [observer[o] EXCEPT !.at = "on", !.run = registered]]
      BY <2>3 DEF Subscribe, IInv, TypeOK
    <3>2. observer[o].at = "off"
      BY <2>3 DEF Subscribe
    <3>3. QED
      BY <2>1, <2>2, <3>1, <3>2, BoundsPositive DEF IInv, TypeOK
  <2>4. CASE Read(o)
    <3>1. observer' = [observer EXCEPT ![o] = [observer[o] EXCEPT !.unread = observer[o].unread - 1]]
      BY <2>4 DEF Read
    <3>2. QED
      BY <2>1, <2>2, <3>1, BoundsPositive DEF IInv, TypeOK
  <2>5. CASE Disconnect(o)
    <3>1. observer' = [observer EXCEPT ![o] = [at |-> "closed", run |-> 0, last |-> 0, lost |-> 0,
                                              unread |-> 0]]
      BY <2>5, RestRecords DEF Disconnect
    <3>2. QED
      BY <2>1, <3>1, BoundsPositive DEF IInv, TypeOK
  <2>6. QED
    BY <2>3, <2>4, <2>5 DEF Observer
<1>4. Accounted'
  BY <1>1, <1>2, <1>3 DEF NInv, Accounted
<1>5. Subscribed'
  BY <1>1, <1>3 DEF NInv, Subscribed
<1>6. GapsKnown
  <2>1. ASSUME NEW p \in Observers PROVE ~(observer'[p].unread > observer[p].unread)
    <3>1. observer[p].unread \in 0..Backlog /\ observer[o].unread \in 0..Backlog
      BY DEF IInv, TypeOK
    <3>2. CASE p = o
      <4>1. observer'[o].unread \in 0..Backlog
        BY ObserverKeeps DEF IInv, TypeOK
      <4>2. QED
        BY <1>3, <3>1, <3>2, <4>1, BoundsPositive
    <3>3. CASE p # o
      BY <1>3, <3>1, <3>3, BoundsPositive
    <3>4. QED
      BY <3>2, <3>3
  <2>2. QED
    BY <2>1 DEF GapsKnown
<1>7. QED
  BY <1>2, <1>4, <1>5, <1>6 DEF NInv

LEMMA NextAccounts == IInv /\ NInv /\ [Next]_vars => NInv' /\ GapsKnown
<1> SUFFICES ASSUME IInv, NInv, [Next]_vars PROVE NInv' /\ GapsKnown
  OBVIOUS
<1>1. ASSUME UNCHANGED <<run, stage, registered, worker, seq, raced, observer>>
      PROVE  NInv' /\ GapsKnown
  BY <1>1, BoundsPositive
     DEF NInv, OneAtATime, Accounted, Subscribed, Undelivered, Emitting, GapsKnown, IInv, TypeOK
<1>2. ASSUME NEW c \in Clients, Client(c) PROVE NInv' /\ GapsKnown
  BY <1>1, <1>2 DEF Client, LookUp, CheckPhase, Request, Receive, GiveUp, runVars, routerVars,
                    eventVars
<1>3. CASE UNCHANGED vars
  BY <1>1, <1>3 DEF vars, runVars, routerVars, eventVars
<1>4. QED
  BY <1>2, <1>3, DriverAccounts, WorkerAccounts, ObserverAccounts DEF Next

(* As long as emits did not overlap, the number of the next event a        *)
(* subscriber is sent tells exactly how many were dropped for it since.    *)
THEOREM GapsTellLosses == Spec => GapsAreLosses
<1>1. IInv /\ NInv /\ [Next]_vars => NInv'
  BY NextAccounts
<1>2. IInv /\ NInv /\ [Next]_vars =>
        [\A o \in Observers :
           LET was == observer[o] is == observer'[o]
           IN was.at = "on" /\ was.last # 0 /\ is.unread > was.unread /\ was.run \notin raced =>
                is.last = was.last + was.lost + 1]_vars
  BY NextAccounts DEF GapsKnown
<1>3. QED
  BY <1>1, <1>2, InitNInv, PlaneInvariant, PTL DEF Spec, GapsAreLosses
=============================================================================
