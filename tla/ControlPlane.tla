---------------------------- MODULE ControlPlane ----------------------------
(***************************************************************************)
(* The control plane of a run (pkg/op/control_plane.go), the control       *)
(* points that drain it, and the HTTP router that fronts it                *)
(* (pkg/op/server/router.go).  A run is taken up again under the same id   *)
(* with a plane of its own.  What a command does to the run is             *)
(* GraphExecutor's and Gather's subject; here it is acknowledged, reported *)
(* and ends the goroutine that drained it.                                 *)
(***************************************************************************)
EXTENDS Integers, Sequences, FiniteSets

CONSTANTS
  Clients,      \* requests to the commands endpoint, one command each
  Sends,        \* [Clients -> SUBSET {"pause", "stop", "step"}]: what each may ask
  Observers,    \* requests to the events endpoint
  Workers,      \* the goroutines of a run that reach control points
  Capacity,     \* of the request queue (16 in the code)
  Backlog,      \* of a subscriber's channel (64 in the code)
  MaxRuns       \* bound: how often the run is taken up

ASSUME PlaneAssumption ==
  /\ Sends \in [Clients -> SUBSET {"pause", "stop", "step"}]
  /\ {Capacity, Backlog, MaxRuns} \subseteq Nat \ {0}

VARIABLES
  run,          \* the latest run, 0 before the first
  stage,        \* how far its driver is: registered, working, closing, ended
  phase,        \* [1..MaxRuns -> its executor's phase]
  acked,        \* commands the latest run acknowledged
  registered,   \* the run the router finds under the id, or 0
  left,         \* runs whose driver has called its unregister
  displaced,    \* runs whose registration an earlier run's unregister removed (history)
  queue,        \* [1..MaxRuns -> Seq(Clients)]: each plane's pending requests
  seq,          \* [1..MaxRuns -> Nat]: each plane's event counter
  worker,       \* [Workers -> where the goroutine is, with what]
  raced,        \* runs in which two emits overlapped (history)
  client,       \* [Clients -> where the HTTP request is, its run and command]
  obeyed,       \* clients whose command took effect (history)
  observer      \* [Observers -> its subscription]

runVars == <<run, stage, phase, acked>>
routerVars == <<registered, left, displaced>>
eventVars == <<seq, raced, observer>>
clientVars == <<client, obeyed>>
vars == <<runVars, routerVars, queue, worker, eventVars, clientVars>>

Runs == 1..MaxRuns
Ended == {"paused", "stopped", "completed"}
AtRest == [at |-> "idle", request |-> 0, seq |-> 0]
(* A subscription: the number last put in its channel, how many were       *)
(* dropped for it since, and how much of the channel is unread.            *)
Unsubscribed == [at |-> "off", run |-> 0, last |-> 0, lost |-> 0, unread |-> 0]

TypeOK ==
  /\ run \in 0..MaxRuns /\ stage \in {"none", "registered", "working", "closing", "ended"}
  /\ phase \in [Runs -> {"ready", "running"} \cup Ended] /\ acked \subseteq {"pause", "stop"}
  /\ registered \in 0..MaxRuns /\ left \subseteq Runs /\ displaced \subseteq Runs
  /\ queue \in [Runs -> Seq(Clients)] /\ \A r \in Runs : Len(queue[r]) <= Capacity
  /\ seq \in [Runs -> Nat] /\ raced \subseteq Runs
  /\ worker \in [Workers -> [at : {"idle", "polled", "report", "stamped", "returned"},
                             request : Clients \cup {0}, seq : Nat]]
  /\ client \in [Clients -> [at : {"idle", "found", "checked", "waiting", "served", "answered",
                                   "refused", "gaveUp"},
                             run : 0..MaxRuns, command : {"none", "pause", "stop", "step"}]]
  /\ obeyed \subseteq Clients
  /\ observer \in [Observers -> [at : {"off", "on", "closed"}, run : 0..MaxRuns, last : Nat,
                                 lost : Nat, unread : 0..Backlog]]

Init ==
  /\ run = 0 /\ stage = "none" /\ phase = [r \in Runs |-> "ready"] /\ acked = {}
  /\ registered = 0 /\ left = {} /\ displaced = {}
  /\ queue = [r \in Runs |-> <<>>] /\ seq = [r \in Runs |-> 0] /\ raced = {}
  /\ worker = [w \in Workers |-> AtRest]
  /\ client = [c \in Clients |-> [at |-> "idle", run |-> 0, command |-> "none"]] /\ obeyed = {}
  /\ observer = [o \in Observers |-> Unsubscribed]

-----------------------------------------------------------------------------
(* emit: the number is taken before the lock; under the lock the event     *)
(* goes to every subscriber whose channel has room.                        *)
Number == seq[run] + 1
CountedIfRead ==
  seq' = [seq EXCEPT ![run] =
            IF \E o \in Observers : observer[o].unread = Backlog THEN @ ELSE Number]
Counted == seq' = [seq EXCEPT ![run] = Number]
Offer(o, n) ==
  IF o.at # "on" \/ o.run # run THEN o
  ELSE IF o.unread < Backlog THEN [o EXCEPT !.last = n, !.lost = 0, !.unread = @ + 1]
  ELSE [o EXCEPT !.lost = @ + 1]
FanOut(n) == observer' = [o \in Observers |-> Offer(observer[o], n)]
(* Run's own goroutine emits when no other one does.                       *)
Emit == Counted /\ FanOut(Number) /\ UNCHANGED raced

(* The driver of a run registers its plane under the id, and unregisters   *)
(* some time after the run has ended by deleting the id.                   *)
ClaimsIfFree(r) == registered' = IF registered = 0 THEN r ELSE registered
Claims(r) == registered' = r
Register(r) == Claims(r) /\ UNCHANGED <<left, displaced>>
Begin ==
  /\ run < MaxRuns
  /\ run # 0 => stage = "ended" /\ phase[run] = "paused"
  /\ run' = run + 1 /\ stage' = "registered" /\ acked' = {}
  /\ Register(run + 1)
  /\ worker' = [w \in Workers |-> AtRest]
  /\ UNCHANGED <<phase, queue, eventVars, clientVars>>

Unregister(r) ==
  /\ phase[r] \in Ended /\ r \notin left /\ (r = run => stage = "ended")
  /\ left' = left \cup {r}
  /\ registered' = 0
  /\ displaced' = IF registered > r THEN displaced \cup {registered} ELSE displaced
  /\ UNCHANGED <<runVars, queue, worker, eventVars, clientVars>>

(* Run, from the first dispatch to its end; its goroutines have returned   *)
(* by then.  A stop may have been retried away (GraphExecutor), a pause    *)
(* overtaken by another goroutine's failure (Gather).                      *)
Start ==
  /\ stage = "registered"
  /\ stage' = "working" /\ phase' = [phase EXCEPT ![run] = "running"]
  /\ Emit
  /\ UNCHANGED <<run, acked, routerVars, queue, worker, clientVars>>

Finish ==
  /\ stage = "working"
  /\ \A w \in Workers : worker[w].at = "returned"
  /\ \E p \in Ended :
       /\ p = "completed" => "pause" \notin acked
       /\ phase' = [phase EXCEPT ![run] = p]
       /\ stage' = IF p = "completed" THEN "closing" ELSE "ended"
  /\ Emit
  /\ UNCHANGED <<run, acked, routerVars, queue, worker, clientVars>>

(* A completed run reports its result as well.                             *)
Close ==
  /\ stage = "closing" /\ stage' = "ended"
  /\ Emit
  /\ UNCHANGED <<run, phase, acked, routerVars, queue, worker, clientVars>>

-----------------------------------------------------------------------------
(* handleCommand.                                                          *)
Goes(c, at) == client' = [client EXCEPT ![c].at = at]

LookUp(c, command) ==
  /\ client[c].at = "idle"
  /\ client' = [client EXCEPT ![c] = [at |-> IF registered = 0 THEN "refused" ELSE "found",
                                      run |-> registered, command |-> command]]
  /\ UNCHANGED <<runVars, routerVars, queue, worker, eventVars, obeyed>>

(* The phase is read once, before the command is queued.                   *)
CheckPhase(c) ==
  /\ client[c].at = "found"
  /\ Goes(c, IF phase[client[c].run] = "running" THEN "checked" ELSE "refused")
  /\ UNCHANGED <<runVars, routerVars, queue, worker, eventVars, obeyed>>

(* Request never blocks: a full queue answers at once.                     *)
Enqueue(c) == queue' = [queue EXCEPT ![client[c].run] = Append(@, c)]
RequestThenCheck(c) ==
  /\ client[c].at = "checked" /\ Len(queue[client[c].run]) < Capacity
  /\ Enqueue(c) /\ Goes(c, IF phase[client[c].run] = "running" THEN "waiting" ELSE "refused")
  /\ UNCHANGED <<runVars, routerVars, worker, eventVars, obeyed>>
Request(c) ==
  /\ client[c].at = "checked"
  /\ IF Len(queue[client[c].run]) < Capacity
     THEN Enqueue(c) /\ Goes(c, "waiting")
     ELSE UNCHANGED queue /\ Goes(c, "refused")
  /\ UNCHANGED <<runVars, routerVars, worker, eventVars, obeyed>>

Receive(c) ==
  /\ client[c].at = "served"
  /\ Goes(c, "answered")
  /\ UNCHANGED <<runVars, routerVars, queue, worker, eventVars, obeyed>>

(* The request's context is done; the command stays where it is.           *)
GiveUp(c) ==
  /\ client[c].at \in {"waiting", "served"}
  /\ Goes(c, "gaveUp")
  /\ UNCHANGED <<runVars, routerVars, queue, worker, eventVars, obeyed>>

-----------------------------------------------------------------------------
(* controlPoint, in the steps another goroutine can come between: drain    *)
(* one request, answer it, report the phase.                               *)
At(w, from) == stage = "working" /\ worker[w].at = from
Moves(w, to) == worker' = [worker EXCEPT ![w].at = to]

Poll(w) ==
  /\ At(w, "idle") /\ queue[run] # <<>>
  /\ worker' = [worker EXCEPT ![w] = [at |-> "polled", request |-> Head(queue[run]), seq |-> 0]]
  /\ queue' = [queue EXCEPT ![run] = Tail(@)]
  /\ UNCHANGED <<runVars, routerVars, eventVars, clientVars>>

Silent(c) == client' = IF client[c].command = "step" \/ client[c].at # "waiting" THEN client
                       ELSE [client EXCEPT ![c].at = "served"]
Respond(c) == client' = IF client[c].at = "waiting" THEN [client EXCEPT ![c].at = "served"] ELSE client
Serve(w) ==
  /\ At(w, "polled")
  /\ LET c == worker[w].request
     IN /\ Respond(c)
        /\ IF client[c].command = "step"
           THEN Moves(w, "idle") /\ UNCHANGED <<acked, obeyed>>
           ELSE Moves(w, "report") /\ acked' = acked \cup {client[c].command}
                                   /\ obeyed' = obeyed \cup {c}
  /\ UNCHANGED <<run, stage, phase, routerVars, queue, eventVars>>

Emitting == {w \in Workers : worker[w].at = "stamped"}
Stamp(w) ==
  /\ At(w, "report")
  /\ Counted
  /\ worker' = [worker EXCEPT ![w].seq = Number, ![w].at = "stamped"]
  /\ raced' = IF Emitting = {} THEN raced ELSE raced \cup {run}
  /\ UNCHANGED <<runVars, routerVars, queue, observer, clientVars>>

(* The acknowledgement ends the goroutine's walk; a stop may be retried.   *)
Deliver(w) ==
  /\ At(w, "stamped")
  /\ FanOut(worker[w].seq)
  /\ \E to \in {"returned"} \cup (IF client[worker[w].request].command = "stop" THEN {"idle"} ELSE {}) :
       worker' = [worker EXCEPT ![w] = [AtRest EXCEPT !.at = to]]
  /\ UNCHANGED <<runVars, routerVars, queue, seq, raced, clientVars>>

(* The goroutine is done with its units.                                   *)
WorkerReturns(w) ==
  /\ At(w, "idle")
  /\ worker' = [worker EXCEPT ![w] = [AtRest EXCEPT !.at = "returned"]]
  /\ UNCHANGED <<runVars, routerVars, queue, eventVars, clientVars>>

-----------------------------------------------------------------------------
(* handleEvents.                                                           *)
Subscribe(o) ==
  /\ observer[o].at = "off" /\ registered # 0
  /\ observer' = [observer EXCEPT ![o].at = "on", ![o].run = registered]
  /\ UNCHANGED <<runVars, routerVars, queue, seq, raced, worker, clientVars>>

Read(o) ==
  /\ observer[o].unread > 0
  /\ observer' = [observer EXCEPT ![o].unread = @ - 1]
  /\ UNCHANGED <<runVars, routerVars, queue, seq, raced, worker, clientVars>>

Disconnect(o) ==
  /\ observer[o].at = "on"
  /\ observer' = [observer EXCEPT ![o] = [Unsubscribed EXCEPT !.at = "closed"]]
  /\ UNCHANGED <<runVars, routerVars, queue, seq, raced, worker, clientVars>>

-----------------------------------------------------------------------------
Worker(w) == Poll(w) \/ Serve(w) \/ Stamp(w) \/ Deliver(w) \/ WorkerReturns(w)
Client(c) ==
  \/ \E command \in Sends[c] : LookUp(c, command)
  \/ CheckPhase(c) \/ Request(c) \/ Receive(c) \/ GiveUp(c)
Observer(o) == Subscribe(o) \/ Read(o) \/ Disconnect(o)
Driver == Begin \/ Start \/ Finish \/ Close \/ \E r \in Runs : Unregister(r)

Next ==
  \/ Driver
  \/ \E w \in Workers : Worker(w)
  \/ \E c \in Clients : Client(c)
  \/ \E o \in Observers : Observer(o)
Spec == Init /\ [][Next]_vars

(* A goroutine of the run does not stop of its own accord, and Run returns *)
(* once they have; nothing is asked of clients and observers.              *)
FairSpec == Spec /\ WF_vars(Finish) /\ \A w \in Workers : WF_vars(Worker(w))

-----------------------------------------------------------------------------
Pending(c, r) == \E i \in DOMAIN queue[r] : queue[r][i] = c

(* A refused command has no effect, then or later: what handleCommand      *)
(* answers with 404 or 409 is not in the queue of any run.  (A 503         *)
(* promises nothing.)                                                      *)
RefusedHasNoEffect ==
  \A c \in Clients : client[c].at = "refused" =>
    /\ c \notin obeyed
    /\ \A r \in Runs : ~Pending(c, r)

(* As long as emits did not overlap, a subscriber can tell from the        *)
(* numbers exactly how many events were dropped between two it was sent.   *)
GapsAreLosses ==
  [][\A o \in Observers :
       LET was == observer[o] is == observer'[o]
       IN was.at = "on" /\ was.last # 0 /\ is.unread > was.unread /\ was.run \notin raced =>
            is.last = was.last + was.lost + 1]_vars

(* A run that is going on is found under its id, unless the driver of an   *)
(* earlier run unregistered late.                                          *)
RunningIsReachable ==
  stage = "working" => registered = run \/ run \in displaced

(* No command is lost: it is answered, or the client gives up, or the run  *)
(* ends with the command still in its queue, where nobody answers it.      *)
CommandsSettle ==
  \A c \in Clients :
    (client[c].at = "waiting") ~>
      (\/ client[c].at \in {"served", "answered", "gaveUp"}
       \/ \E r \in Runs : phase[r] \in Ended /\ Pending(c, r))
=============================================================================
