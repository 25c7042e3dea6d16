------------------------------- MODULE Broker -------------------------------
(***************************************************************************)
(* Commands run through the in-process broker (pkg/op/broker_run.go,       *)
(* broker_stub.go, broker_stream.go, pkg/process/runner.go): callers that  *)
(* subscribe to the console of one run, ask for a child and collect its    *)
(* frames; the goroutine behind each child; the queue and the drain        *)
(* goroutine behind each subscription; the contexts that end them.         *)
(***************************************************************************)
EXTENDS Integers, Sequences, FiniteSets

CONSTANTS
  Callers,    \* calls of Run, each with its child and its subscription
  Watchers,   \* subscriptions to the same console without a child
  Neighbour,  \* an exec of the same run that nobody here waits for
  MaxSaid,    \* bound: frames a child has to say
  MaxOther    \* bound: frames of the neighbour

ASSUME BrokerAssumption ==
  /\ Callers \cap Watchers = {} /\ Neighbour \notin Callers
  /\ MaxSaid \in Nat /\ MaxOther \in Nat

Readers == Callers \cup Watchers

VARIABLES
  log,        \* the frames of the run's console, a frame's seq its place
  subscribed, \* the stream's subscriber set
  sub,        \* [Readers -> the subscription: queue, signal, drain, value in hand]
  call,       \* [Readers -> where the call is, the last frame received, its child's it kept]
  child,      \* [Callers -> the child, what it said, whether a helper holds its pipes]
  watcher,    \* [Callers -> the goroutine that waits for the environment]
  ended       \* contexts that are done: callers', children's, the environment's

vars == <<log, subscribed, sub, call, child, watcher, ended>>

Environment == <<"environment">>
Contexts == ({"call", "child"} \X Callers) \cup {Environment}
Frames == [exec : Callers \cup {Neighbour}, kind : {"said", "exit"}]
NoSub   == [queue |-> <<>>, ready |-> FALSE, stopped |-> FALSE, drain |-> "none", held |-> 0]
NoCall  == [at |-> "idle", seen |-> 0, kept |-> 0, result |-> "none"]
NoChild == [at |-> "none", said |-> 0, helper |-> FALSE]

(* The children map: an exec is in it from Exec to the end of its goroutine. *)
Known == {"registered", "bound", "running", "exited", "waited", "framed"}

TypeOK ==
  /\ log \in Seq(Frames) /\ subscribed \subseteq Readers /\ ended \subseteq Contexts
  /\ sub \in [Readers -> [queue : Seq(1..Len(log)), ready : BOOLEAN, stopped : BOOLEAN,
                          drain : {"none", "top", "waiting", "handing", "closed"},
                          held : 0..Len(log)]]
  /\ call \in [Readers -> [at : {"idle", "subscribed", "collecting", "watching", "leaving",
                                 "stopping", "returned"},
                           seen : 0..Len(log), kept : 0..MaxSaid,
                           result : {"none", "refused", "outcome", "context"}]]
  /\ child \in [Callers -> [at : Known \cup {"none", "gone"}, said : 0..MaxSaid,
                            helper : BOOLEAN]]
  /\ watcher \in [Callers -> {"none", "armed", "spent"}]

Init ==
  /\ log = <<>> /\ subscribed = {} /\ ended = {}
  /\ sub = [c \in Readers |-> NoSub] /\ call = [c \in Readers |-> NoCall]
  /\ child = [c \in Callers |-> NoChild] /\ watcher = [c \in Callers |-> "none"]

-----------------------------------------------------------------------------
(* deliver, next, publish, enqueue: under the broker's mutex a frame gets  *)
(* its number and goes to the end of every subscriber's queue, however     *)
(* long; one pending signal is enough.                                     *)
EnqueueIfRoom(s, n) == IF s.queue = <<>> THEN [s EXCEPT !.queue = <<n>>, !.ready = TRUE] ELSE s
Enqueue(s, n) == [s EXCEPT !.queue = Append(@, n), !.ready = TRUE]
Deliver(frame) ==
  /\ log' = Append(log, frame)
  /\ sub' = [c \in Readers |-> IF c \in subscribed THEN Enqueue(sub[c], Len(log) + 1) ELSE sub[c]]

(* drain: one turn of its loop, its wait for a signal, its wait for the    *)
(* subscriber.                                                             *)
Turn(s) ==
  IF s.stopped THEN [s EXCEPT !.queue = <<>>, !.drain = "closed"]
  ELSE IF s.queue = <<>> THEN [s EXCEPT !.drain = "waiting"]
  ELSE [s EXCEPT !.drain = "handing", !.held = Head(s.queue), !.queue = Tail(@)]
DrainTurn(c) ==
  /\ sub[c].drain = "top"
  /\ sub' = [sub EXCEPT ![c] = Turn(@)]
  /\ UNCHANGED <<log, subscribed, call, child, watcher, ended>>

DrainWakes(c) ==
  /\ sub[c].drain = "waiting"
  /\ \/ sub[c].ready /\ sub' = [sub EXCEPT ![c].drain = "top", ![c].ready = FALSE]
     \/ sub[c].stopped /\ sub' = [sub EXCEPT ![c].drain = "top"]
  /\ UNCHANGED <<log, subscribed, call, child, watcher, ended>>

DrainGivesUp(c) ==
  /\ sub[c].drain = "handing" /\ sub[c].stopped
  /\ sub' = [sub EXCEPT ![c].drain = "top"]
  /\ UNCHANGED <<log, subscribed, call, child, watcher, ended>>

-----------------------------------------------------------------------------
(* Run (broker_run.go): subscribe, ask, collect until the control frame of *)
(* the own child or the end of the context; then cancel the subscription:  *)
(* leave the set, stop the drain, wait until it has closed the channel.    *)
Subscribe(c) ==
  /\ call[c].at = "idle"
  /\ call' = [call EXCEPT ![c].at = IF c \in Watchers THEN "watching" ELSE "subscribed",
                          ![c].seen = Len(log)]
  /\ subscribed' = subscribed \cup {c}
  /\ sub' = [sub EXCEPT ![c].drain = "top"]
  /\ UNCHANGED <<log, child, watcher, ended>>

(* Exec returns at once; the child's own goroutine does the rest.          *)
Exec(c) ==
  /\ call[c].at = "subscribed"
  /\ call' = [call EXCEPT ![c].at = "collecting"]
  /\ child' = [child EXCEPT ![c].at = "registered"]
  /\ ended' = IF <<"call", c>> \in ended THEN ended \cup {<<"child", c>>} ELSE ended
  /\ UNCHANGED <<log, subscribed, sub, watcher>>

Returns(c, result) == call' = [call EXCEPT ![c].at = "leaving", ![c].result = result]

Refused(c) ==
  /\ call[c].at = "subscribed"
  /\ Returns(c, "refused")
  /\ UNCHANGED <<log, subscribed, sub, child, watcher, ended>>

Collect(c) ==
  /\ call[c].at = "collecting" /\ sub[c].drain = "handing"
  /\ LET frame == log[sub[c].held]
         heard == [call[c] EXCEPT !.seen = sub[c].held]
     IN call' = [call EXCEPT ![c] =
          IF frame.exec # c THEN heard
          ELSE IF frame.kind = "said" THEN [heard EXCEPT !.kept = @ + 1]
          ELSE [heard EXCEPT !.at = "leaving", !.result = "outcome"]]
  /\ sub' = [sub EXCEPT ![c].drain = "top"]
  /\ UNCHANGED <<log, subscribed, child, watcher, ended>>

(* The wait ends with the context, whatever frames are ready.              *)
ContextDone(c) ==
  /\ call[c].at = "collecting" /\ <<"call", c>> \in ended
  /\ Returns(c, "context")
  /\ UNCHANGED <<log, subscribed, sub, child, watcher, ended>>

Leave(c) ==
  /\ call[c].at \in {"leaving", "watching"}
  /\ subscribed' = subscribed \ {c}
  /\ sub' = [sub EXCEPT ![c].stopped = TRUE]
  /\ call' = [call EXCEPT ![c].at = "stopping"]
  /\ UNCHANGED <<log, child, watcher, ended>>

Return(c) ==
  /\ call[c].at = "stopping" /\ sub[c].drain = "closed"
  /\ call' = [call EXCEPT ![c].at = "returned"]
  /\ UNCHANGED <<log, subscribed, sub, child, watcher, ended>>

(* A subscription to the console that reads, or does not, and leaves.      *)
Take(w) ==
  /\ call[w].at = "watching" /\ sub[w].drain = "handing"
  /\ call' = [call EXCEPT ![w].seen = sub[w].held]
  /\ sub' = [sub EXCEPT ![w].drain = "top"]
  /\ UNCHANGED <<log, subscribed, child, watcher, ended>>

-----------------------------------------------------------------------------
(* The child's goroutine: commandFor and bindCancel, Start, Wait, the      *)
(* control frame, the deferred removal.                                    *)
Becomes(c, at) == child' = [child EXCEPT ![c].at = at]

Bind(c) ==
  /\ child[c].at = "registered"
  /\ Becomes(c, "bound") /\ watcher' = [watcher EXCEPT ![c] = "armed"]
  /\ UNCHANGED <<log, subscribed, sub, call, ended>>

(* Start refuses a context that is done; it may fail, and a dry run        *)
(* launches nothing.                                                       *)
Launch(c) ==
  /\ child[c].at = "bound" /\ <<"child", c>> \notin ended
  /\ Becomes(c, "running")
  /\ UNCHANGED <<log, subscribed, sub, call, watcher, ended>>

LaunchFails(c) ==
  /\ child[c].at = "bound"
  /\ Becomes(c, "waited")
  /\ UNCHANGED <<log, subscribed, sub, call, watcher, ended>>

(* The pipes stay open as long as the child, or a helper it left, holds    *)
(* them.                                                                   *)
PipesOpen(c) == child[c].at = "running" \/ child[c].helper
Say(c) ==
  /\ PipesOpen(c) /\ child[c].said < MaxSaid
  /\ Deliver([exec |-> c, kind |-> "said"])
  /\ child' = [child EXCEPT ![c].said = @ + 1]
  /\ UNCHANGED <<subscribed, call, watcher, ended>>

OthersSaid == Cardinality({i \in DOMAIN log : log[i].exec = Neighbour})
OtherSays ==
  /\ OthersSaid < MaxOther
  /\ Deliver([exec |-> Neighbour, kind |-> "said"])
  /\ UNCHANGED <<subscribed, call, child, watcher, ended>>

Dies(c) ==
  \E helper \in BOOLEAN : child' = [child EXCEPT ![c].at = "exited", ![c].helper = helper]

Exits(c) ==
  /\ child[c].at = "running"
  /\ Dies(c)
  /\ UNCHANGED <<log, subscribed, sub, call, watcher, ended>>

KilledByContext(c) ==
  /\ child[c].at = "running" /\ <<"child", c>> \in ended
  /\ Dies(c)
  /\ UNCHANGED <<log, subscribed, sub, call, watcher, ended>>

HelperExits(c) ==
  /\ child[c].at = "exited" /\ child[c].helper
  /\ child' = [child EXCEPT ![c].helper = FALSE]
  /\ UNCHANGED <<log, subscribed, sub, call, watcher, ended>>

(* Wait returns when the pipes are closed, or abandons them when it has    *)
(* waited for a helper long enough.                                        *)
Wait(c) ==
  /\ child[c].at = "exited" /\ ~child[c].helper
  /\ Becomes(c, "waited")
  /\ UNCHANGED <<log, subscribed, sub, call, watcher, ended>>

WaitForgets(c) ==
  /\ child[c].at = "exited" /\ child[c].helper
  /\ Becomes(c, "waited")
  /\ UNCHANGED <<log, subscribed, sub, call, watcher, ended>>
WaitForever(c) == FALSE
WaitAbandons(c) ==
  /\ child[c].at = "exited" /\ child[c].helper
  /\ child' = [child EXCEPT ![c].at = "waited", ![c].helper = FALSE]
  /\ UNCHANGED <<log, subscribed, sub, call, watcher, ended>>

ControlFrame(c) ==
  /\ child[c].at = "waited"
  /\ Deliver([exec |-> c, kind |-> "exit"])
  /\ Becomes(c, "framed")
  /\ UNCHANGED <<subscribed, call, watcher, ended>>

Forget(c) ==
  /\ child[c].at = "framed"
  /\ Becomes(c, "gone") /\ ended' = ended \cup {<<"child", c>>}
  /\ UNCHANGED <<log, subscribed, sub, call, watcher>>

(* bindCancel's goroutine kills once, when the environment's context ends: *)
(* a child that has not been started by then is not killed.                *)
Watch(c) ==
  /\ watcher[c] = "armed" /\ Environment \in ended
  /\ watcher' = [watcher EXCEPT ![c] = "spent"]
  /\ IF child[c].at = "running" THEN Dies(c) ELSE UNCHANGED child
  /\ UNCHANGED <<log, subscribed, sub, call, ended>>

-----------------------------------------------------------------------------
(* Cancel by exec id, the end of a caller's context, from which its        *)
(* child's is derived, and of the environment's.                           *)
Cancel(c) ==
  /\ <<"child", c>> \notin ended
  /\ child[c].at \in {"registered", "bound", "running"}
  /\ ended' = ended \cup {<<"child", c>>}
  /\ UNCHANGED <<log, subscribed, sub, call, child, watcher>>

CallerGivesUp(c) ==
  /\ <<"call", c>> \notin ended
  /\ call[c].at \in {"subscribed", "collecting"}
  /\ ended' = ended \cup {<<"call", c>>}
                      \cup (IF child[c].at \in Known THEN {<<"child", c>>} ELSE {})
  /\ UNCHANGED <<log, subscribed, sub, call, child, watcher>>

EnvironmentEnds ==
  /\ Environment \notin ended
  /\ ended' = ended \cup {Environment}
  /\ UNCHANGED <<log, subscribed, sub, call, child, watcher>>

-----------------------------------------------------------------------------
Drain(r) == DrainTurn(r) \/ DrainWakes(r) \/ DrainGivesUp(r)
Leaves(r) == Leave(r) \/ Return(r)
Calling(c) == Exec(c) \/ Collect(c) \/ ContextDone(c) \/ Leaves(c)
Child(c) == \/ Bind(c) \/ Launch(c) \/ LaunchFails(c) \/ KilledByContext(c) \/ Wait(c)
            \/ WaitAbandons(c) \/ ControlFrame(c) \/ Forget(c) \/ Watch(c)
Own(c) == Exits(c) \/ Say(c) \/ HelperExits(c) \/ Cancel(c) \/ CallerGivesUp(c)
Watcher(w) == Take(w) \/ Leaves(w)

Next == \/ \E r \in Readers : Drain(r) \/ Subscribe(r)
        \/ \E c \in Callers : Refused(c) \/ Calling(c) \/ Child(c) \/ Own(c)
        \/ \E w \in Watchers : Watcher(w)
        \/ OtherSays \/ EnvironmentEnds
Spec == Init /\ [][Next]_vars

(* Each goroutine runs; a wait on a pipe ends by its delay.  Nothing is    *)
(* asked of the child itself, nor of the contexts.                         *)
FairSpec ==
  /\ Spec
  /\ \A r \in Readers : WF_vars(Drain(r)) /\ WF_vars(Return(r))
  /\ \A c \in Callers : WF_vars(Calling(c)) /\ WF_vars(Child(c))

-----------------------------------------------------------------------------
(* The stream is a feed: each caller receives every frame after its        *)
(* subscription, once and in order, whatever other callers do.             *)
Away == -1
Place == [c \in Readers |-> IF c \in subscribed THEN call[c].seen ELSE Away]
AFeed == INSTANCE Feed WITH Values <- Frames, place <- Place
IsFeed == AFeed!Spec

(* Nothing of an exec follows its control frame, so an outcome holds all   *)
(* that the child, and the helpers it left, said.                          *)
OutcomeWhole ==
  \A c \in Callers : call[c].result = "outcome" =>
    call[c].kept = child[c].said /\ child[c].at \in {"framed", "gone"}

(* A call comes back once its child has exited or its context is done,     *)
(* and then the child is ended as well: "ends the wait, and the child with *)
(* it" (broker_run.go).                                                    *)
CallsEnd ==
  \A c \in Callers :
    (call[c].at = "collecting" /\ (child[c].at = "exited" \/ <<"call", c>> \in ended))
      ~> (call[c].at = "returned" /\ child[c].at = "gone")
=============================================================================
