---------------------------- MODULE BrokerProofs ----------------------------
(***************************************************************************)
(* The console is a Feed to every subscriber, for any number of calls,     *)
(* subscriptions and frames: the queue, the value the drain goroutine has  *)
(* in hand and what the reader has received join without a gap.            *)
(***************************************************************************)
EXTENDS Broker, FiniteSetTheorems, TLAPS

-----------------------------------------------------------------------------
(* The inductive invariant.                                                *)
Subscription == [queue : Seq(Nat), ready : BOOLEAN, stopped : BOOLEAN,
                 drain : {"none", "top", "waiting", "handing", "closed"}, held : Nat]
Call == [at : {"idle", "subscribed", "collecting", "watching", "leaving", "stopping", "returned"},
         seen : Nat, kept : Nat, result : {"none", "refused", "outcome", "context"}]

StreamTyped ==
  /\ log \in Seq(Frames) /\ subscribed \subseteq Readers
  /\ sub \in [Readers -> Subscription] /\ call \in [Readers -> Call]

(* A reader is in the subscriber set from its subscription until it        *)
(* leaves, and before it has no queue.                                     *)
Enlisted == {"subscribed", "collecting", "watching", "leaving"}
SetMatchesCalls ==
  \A r \in Readers :
    /\ r \in subscribed <=> call[r].at \in Enlisted
    /\ call[r].at = "idle" =>
         sub[r].queue = <<>> /\ ~sub[r].stopped /\ sub[r].drain = "none"

(* What is in hand follows what was received, what is queued follows that, *)
(* up to the end of the log.                                               *)
Got(r) == IF sub[r].drain = "handing" THEN sub[r].held ELSE call[r].seen
Joined(r) ==
  /\ ~sub[r].stopped
  /\ sub[r].drain = "handing" => sub[r].held = call[r].seen + 1
  /\ Len(log) = Got(r) + Len(sub[r].queue)
  /\ \A i \in 1..Len(sub[r].queue) : sub[r].queue[i] = Got(r) + i

QueuesJoin == \A r \in subscribed : Joined(r)

FeedInv == StreamTyped /\ SetMatchesCalls /\ QueuesJoin

-----------------------------------------------------------------------------
LEMMA InitFeed == Init => FeedInv /\ AFeed!Init
<1> SUFFICES ASSUME Init PROVE FeedInv /\ AFeed!Init
  OBVIOUS
<1>1. NoSub \in Subscription /\ NoCall \in Call
  BY DEF NoSub, NoCall, Subscription, Call
<1>2. StreamTyped
  BY <1>1 DEF Init, StreamTyped
<1>3. SetMatchesCalls /\ QueuesJoin
  BY DEF Init, SetMatchesCalls, QueuesJoin, NoSub, NoCall, Enlisted
<1>4. AFeed!Init
  BY DEF Init, AFeed!Init, Place
<1>5. QED
  BY <1>2, <1>3, <1>4 DEF FeedInv

(* A frame is appended to the log and, with its number, to each queue.     *)
LEMMA Delivers ==
  ASSUME FeedInv, NEW frame \in Frames, Deliver(frame), UNCHANGED <<subscribed, call>>
  PROVE  FeedInv' /\ AFeed!Publish
<1>1. log \in Seq(Frames) /\ sub \in [Readers -> Subscription]
  BY DEF FeedInv, StreamTyped
<1>2. log' = Append(log, frame) /\ log' \in Seq(Frames) /\ Len(log') = Len(log) + 1
      /\ Len(log) \in Nat
  BY <1>1 DEF Deliver
<1>3. \A r \in Readers :
        sub'[r] = IF r \in subscribed THEN Enqueue(sub[r], Len(log) + 1) ELSE sub[r]
  BY DEF Deliver
<1>4. ASSUME NEW r \in Readers
      PROVE  /\ Enqueue(sub[r], Len(log) + 1) \in Subscription
             /\ Enqueue(sub[r], Len(log) + 1).queue = Append(sub[r].queue, Len(log) + 1)
             /\ Enqueue(sub[r], Len(log) + 1).held = sub[r].held
             /\ Enqueue(sub[r], Len(log) + 1).drain = sub[r].drain
             /\ Enqueue(sub[r], Len(log) + 1).stopped = sub[r].stopped
  <2>1. sub[r] \in Subscription
    BY <1>1
  <2>2. Append(sub[r].queue, Len(log) + 1) \in Seq(Nat)
    BY <1>2, <2>1 DEF Subscription
  <2>3. QED
    BY <2>1, <2>2 DEF Enqueue, Subscription
<1>5. StreamTyped'
  BY <1>2, <1>3, <1>4 DEF FeedInv, StreamTyped, Deliver
<1>6. SetMatchesCalls'
  BY <1>3 DEF FeedInv, SetMatchesCalls, Enlisted
<1>7. QueuesJoin'
  <2> SUFFICES ASSUME NEW r \in subscribed PROVE Joined(r)'
    BY DEF QueuesJoin
  <2>1. r \in Readers /\ Joined(r) /\ sub[r].queue \in Seq(Nat) /\ call'[r] = call[r]
    BY DEF FeedInv, StreamTyped, QueuesJoin, Subscription
  <2>2. sub'[r].queue = Append(sub[r].queue, Len(log) + 1) /\ Got(r)' = Got(r)
        /\ ~sub'[r].stopped /\ (sub'[r].drain = "handing" => sub'[r].held = call[r].seen + 1)
    BY <1>3, <1>4, <2>1 DEF Got, Joined
  <2>3. Got(r) \in Nat
    BY <2>1 DEF Got, FeedInv, StreamTyped, Subscription, Call
  <2> DEFINE q == sub[r].queue
  <2>4. Len(sub'[r].queue) = Len(q) + 1 /\ Len(q) \in Nat /\ Len(log) = Got(r) + Len(q)
    BY <2>1, <2>2 DEF Joined
  <2>5. ASSUME NEW i \in 1..Len(sub'[r].queue) PROVE sub'[r].queue[i] = Got(r) + i
    <3>1. CASE i \in 1..Len(q)
      BY <2>1, <2>2, <3>1 DEF Joined
    <3>2. CASE i = Len(q) + 1
      <4>1. Append(q, Len(log) + 1)[Len(q) + 1] = Len(log) + 1
        BY <2>1
      <4>2. sub'[r].queue[i] = Len(log) + 1
        BY <2>2, <3>2, <4>1
      <4>3. Len(log) + 1 = Got(r) + i
        BY <2>3, <2>4, <3>2
      <4>4. QED
        BY <4>2, <4>3
    <3>3. QED
      BY <2>4, <3>1, <3>2
  <2>6. Len(log)' = Got(r)' + Len(sub'[r].queue)
    BY <1>2, <2>2, <2>3, <2>4
  <2>7. \A i \in 1..Len(sub'[r].queue) : sub'[r].queue[i] = Got(r)' + i
    BY <2>2, <2>5
  <2>8. QED
    BY <2>1, <2>2, <2>6, <2>7 DEF Joined
<1>8. AFeed!Publish
  <2>1. SubSeq(log', 1, Len(log)) = log
    BY <1>1, <1>2
  <2>2. Place' = Place
    BY DEF Place
  <2>3. QED
    BY <1>2, <2>1, <2>2 DEF AFeed!Publish
<1>9. QED
  BY <1>5, <1>6, <1>7, <1>8 DEF FeedInv

LEMMA TakesOne == ASSUME NEW a \in Nat, NEW b \in Nat PROVE a + b = (a + 1) + (b - 1)
OBVIOUS

(* The drain goroutine takes the head of the queue in hand.                *)
LEMMA Drains ==
  ASSUME FeedInv, NEW r \in Readers, Drain(r)
  PROVE  FeedInv' /\ UNCHANGED <<log, Place>>
<1>1. sub \in [Readers -> Subscription] /\ sub[r] \in Subscription
  BY DEF FeedInv, StreamTyped
<1>2. UNCHANGED <<log, subscribed, call, Place>>
  BY DEF Drain, DrainTurn, DrainWakes, DrainGivesUp, Place
<1>3. \A q \in Readers \ {r} : sub'[q] = sub[q]
  BY <1>1 DEF Drain, DrainTurn, DrainWakes, DrainGivesUp
<1>4. sub' \in [Readers -> Subscription] /\ sub[r].drain # "none"
      /\ (r \in subscribed => Joined(r)')
  <2>1. CASE DrainTurn(r)
    <3>1. sub' = [sub EXCEPT ![r] = Turn(sub[r])] /\ sub[r].drain = "top"
      BY <2>1 DEF DrainTurn
    <3>2. CASE sub[r].stopped
      <4>1. Turn(sub[r]) \in Subscription
        <5>1. Turn(sub[r]) = [queue |-> <<>>, ready |-> sub[r].ready, stopped |-> sub[r].stopped,
                              drain |-> "closed", held |-> sub[r].held]
          BY <1>1, <3>2 DEF Turn, Subscription
        <5>2. <<>> \in Seq(Nat)
          OBVIOUS
        <5>3. QED
          BY <1>1, <5>1, <5>2 DEF Subscription
      <4>2. r \notin subscribed
        BY <3>2 DEF FeedInv, QueuesJoin, Joined
      <4>3. QED
        BY <1>1, <3>1, <4>1, <4>2
    <3>3. CASE ~sub[r].stopped /\ sub[r].queue = <<>>
      <4>1. Turn(sub[r]) = [sub[r] EXCEPT !.drain = "waiting"]
        BY <3>3 DEF Turn
      <4>2. Turn(sub[r]) \in Subscription
        BY <1>1, <4>1 DEF Subscription
      <4>3. sub'[r] = Turn(sub[r]) /\ sub'[r].drain = "waiting" /\ sub'[r].queue = sub[r].queue
            /\ sub'[r].stopped = sub[r].stopped
        BY <1>1, <3>1, <4>1 DEF Subscription
      <4>4. QED
        BY <1>1, <1>2, <3>1, <4>2, <4>3 DEF FeedInv, QueuesJoin, Joined, Got
    <3>4. CASE ~sub[r].stopped /\ sub[r].queue # <<>>
      <4>1. Turn(sub[r]) = [queue |-> Tail(sub[r].queue), ready |-> sub[r].ready,
                            stopped |-> sub[r].stopped, drain |-> "handing",
                            held |-> Head(sub[r].queue)]
        BY <1>1, <3>4 DEF Turn, Subscription
      <4>2. sub[r].queue \in Seq(Nat) /\ Tail(sub[r].queue) \in Seq(Nat)
            /\ Head(sub[r].queue) \in Nat /\ Head(sub[r].queue) = sub[r].queue[1]
            /\ Len(Tail(sub[r].queue)) = Len(sub[r].queue) - 1 /\ Len(sub[r].queue) \in Nat \ {0}
        BY <1>1, <3>4 DEF Subscription
      <4>3. Turn(sub[r]) \in Subscription
        BY <1>1, <4>1, <4>2 DEF Subscription
      <4>4. sub'[r] = Turn(sub[r])
        BY <1>1, <3>1
      <4>5. ASSUME r \in subscribed PROVE Joined(r)'
        <5>1. Joined(r) /\ Got(r) = call[r].seen /\ call[r].seen \in Nat
          BY <3>1, <4>5 DEF FeedInv, QueuesJoin, Got, StreamTyped, Call
        <5>2. sub'[r].held = call[r].seen + 1 /\ Got(r)' = call[r].seen + 1
          BY <4>1, <4>2, <4>4, <5>1 DEF Joined, Got
        <5>3. sub'[r].queue = Tail(sub[r].queue) /\ ~sub'[r].stopped
          BY <3>4, <4>1, <4>4
        <5>4. \A i \in 1..Len(sub'[r].queue) : sub'[r].queue[i] = sub[r].queue[i + 1]
          BY <4>2, <5>3
        <5>5. ASSUME NEW i \in 1..Len(sub'[r].queue) PROVE sub'[r].queue[i] = Got(r)' + i
          <6>1. i + 1 \in 1..Len(sub[r].queue)
            BY <4>2, <5>3
          <6>2. sub[r].queue[i + 1] = call[r].seen + (i + 1)
            BY <5>1, <6>1 DEF Joined
          <6>3. sub'[r].queue[i] = sub[r].queue[i + 1]
            BY <5>4
          <6>4. call[r].seen + (i + 1) = (call[r].seen + 1) + i
            BY <4>2, <5>1, <5>3
          <6>5. QED
            BY <5>2, <6>2, <6>3, <6>4
        <5>6. Len(log') = Got(r)' + Len(sub'[r].queue)
          <6>1. Len(log) = call[r].seen + Len(sub[r].queue)
            BY <5>1 DEF Joined
          <6>2. Len(log') = Len(log) /\ Len(sub'[r].queue) = Len(sub[r].queue) - 1
            BY <1>2, <4>2, <5>3
          <6>3. call[r].seen \in Nat /\ Len(sub[r].queue) \in Nat
            BY <4>2, <5>1
          <6>4. call[r].seen + Len(sub[r].queue) = (call[r].seen + 1) + (Len(sub[r].queue) - 1)
            BY <6>3, TakesOne
          <6>5. QED
            BY <5>2, <6>1, <6>2, <6>4
        <5>7. sub'[r].held = call'[r].seen + 1
          BY <1>2, <5>2
        <5>8. QED
          BY <5>3, <5>5, <5>6, <5>7 DEF Joined
      <4>6. QED
        BY <1>1, <3>1, <4>3, <4>5
    <3>5. QED
      BY <3>2, <3>3, <3>4
  <2>2. CASE DrainWakes(r)
    <3>1. sub'[r].drain = "top" /\ sub'[r].queue = sub[r].queue /\ sub[r].drain = "waiting"
          /\ sub'[r].stopped = sub[r].stopped /\ sub' \in [Readers -> Subscription]
      <4>1. PICK ready \in BOOLEAN :
              sub' = [sub EXCEPT ![r] = [sub[r] EXCEPT !.drain = "top", !.ready = ready]]
        BY <1>1, <2>2 DEF DrainWakes, Subscription
      <4>2. [sub[r] EXCEPT !.drain = "top", !.ready = ready] \in Subscription
        BY <1>1 DEF Subscription
      <4>3. QED
        BY <1>1, <2>2, <4>1, <4>2 DEF DrainWakes, Subscription
    <3>2. QED
      BY <1>2, <3>1 DEF FeedInv, QueuesJoin, Joined, Got
  <2>3. CASE DrainGivesUp(r)
    <3>1. r \notin subscribed /\ sub[r].drain = "handing"
      BY <2>3 DEF DrainGivesUp, FeedInv, QueuesJoin, Joined
    <3>2. QED
      BY <1>1, <2>3, <3>1 DEF DrainGivesUp, Subscription
  <2>4. QED
    BY <2>1, <2>2, <2>3 DEF Drain
<1>5. StreamTyped'
  BY <1>2, <1>4 DEF FeedInv, StreamTyped
<1>6. SetMatchesCalls'
  BY <1>2, <1>3, <1>4 DEF FeedInv, SetMatchesCalls
<1>7. QueuesJoin'
  BY <1>2, <1>3, <1>4 DEF FeedInv, StreamTyped, QueuesJoin, Joined, Got
<1>8. QED
  BY <1>2, <1>5, <1>6, <1>7 DEF FeedInv

-----------------------------------------------------------------------------
(* A reader subscribes: it has received what there is.                     *)
LEMMA Subscribes ==
  ASSUME FeedInv, NEW r \in Readers, Subscribe(r)
  PROVE  FeedInv' /\ AFeed!Subscribe(r)
<1>1. log \in Seq(Frames) /\ Len(log) \in Nat /\ sub[r] \in Subscription /\ call[r] \in Call
  BY DEF FeedInv, StreamTyped
<1>2. r \notin subscribed /\ sub[r].queue = <<>> /\ ~sub[r].stopped
  BY DEF Subscribe, FeedInv, SetMatchesCalls, Enlisted
<1>3. /\ log' = log /\ subscribed' = subscribed \cup {r}
      /\ \A q \in Readers \ {r} : sub'[q] = sub[q] /\ call'[q] = call[q]
      /\ sub'[r] = [sub[r] EXCEPT !.drain = "top"]
  BY DEF Subscribe, FeedInv, StreamTyped
<1>4. PICK at \in {"watching", "subscribed"} :
        call' = [call EXCEPT ![r] = [call[r] EXCEPT !.at = at, !.seen = Len(log)]]
  BY <1>1 DEF Subscribe, FeedInv, StreamTyped, Call
<1>5. StreamTyped'
  <2>1. [call[r] EXCEPT !.at = at, !.seen = Len(log)] \in Call
    BY <1>1 DEF Call
  <2>2. [sub[r] EXCEPT !.drain = "top"] \in Subscription
    BY <1>1 DEF Subscription
  <2>3. /\ sub' = [sub EXCEPT ![r] = [sub[r] EXCEPT !.drain = "top"]]
        /\ sub \in [Readers -> Subscription] /\ call \in [Readers -> Call]
    BY DEF Subscribe, FeedInv, StreamTyped
  <2>4. sub' \in [Readers -> Subscription] /\ call' \in [Readers -> Call]
    BY <1>4, <2>1, <2>2, <2>3
  <2>5. QED
    BY <1>3, <2>4 DEF FeedInv, StreamTyped
<1>6. call'[r].at = at /\ call'[r].seen = Len(log)
  <2>1. call'[r] = [call[r] EXCEPT !.at = at, !.seen = Len(log)]
    BY <1>4 DEF FeedInv, StreamTyped
  <2>2. QED
    BY <1>1, <2>1 DEF Call
<1>7. sub'[r].queue = <<>> /\ ~sub'[r].stopped /\ sub'[r].drain = "top"
  BY <1>1, <1>2, <1>3 DEF Subscription
<1>8. SetMatchesCalls'
  BY <1>3, <1>6 DEF FeedInv, SetMatchesCalls, Enlisted
<1>9. QueuesJoin'
  <2>1. Joined(r)'
    BY <1>1, <1>3, <1>6, <1>7 DEF Joined, Got
  <2>2. ASSUME NEW q \in subscribed PROVE Joined(q)'
    BY <1>2, <1>3, <2>2 DEF FeedInv, StreamTyped, QueuesJoin, Joined, Got
  <2>3. QED
    BY <1>3, <2>1, <2>2 DEF QueuesJoin
<1>10. AFeed!Subscribe(r)
  <2>1. Place[r] = Away
    BY <1>2 DEF Place
  <2>2. Place' = [Place EXCEPT ![r] = Len(log)]
    BY <1>3, <1>6 DEF Place
  <2>3. QED
    BY <1>3, <2>1, <2>2 DEF AFeed!Subscribe, AFeed!Moves
<1>11. QED
  BY <1>5, <1>8, <1>9, <1>10 DEF FeedInv

(* A reader receives what the drain goroutine has in hand, which is the    *)
(* next frame of the log.                                                  *)
Receives(r) == (r \in Callers /\ Collect(r)) \/ (r \in Watchers /\ Take(r))

LEMMA ReceivesNext ==
  ASSUME FeedInv, NEW r \in Readers, Receives(r)
  PROVE  FeedInv' /\ AFeed!Receive(r)
<1>1. log \in Seq(Frames) /\ Len(log) \in Nat /\ sub[r] \in Subscription /\ call[r] \in Call
  BY DEF FeedInv, StreamTyped
<1>2. call[r].at \in {"collecting", "watching"} /\ sub[r].drain = "handing"
  BY DEF Receives, Collect, Take
<1>3. r \in subscribed /\ Joined(r)
  BY <1>2 DEF FeedInv, SetMatchesCalls, QueuesJoin, Enlisted
<1>4. sub[r].held = call[r].seen + 1 /\ call[r].seen \in Nat /\ sub[r].held <= Len(log)
  BY <1>1, <1>2, <1>3 DEF Joined, Got, Subscription, Call
<1>5. /\ log' = log /\ subscribed' = subscribed
      /\ sub' = [sub EXCEPT ![r] = [sub[r] EXCEPT !.drain = "top"]]
  BY DEF Receives, Collect, Take
<1>6. \E new \in Call : /\ call' = [call EXCEPT ![r] = new]
                        /\ new.seen = sub[r].held /\ new.at \in Enlisted
  <2> DEFINE heard == [call[r] EXCEPT !.seen = sub[r].held]
  <2>1. heard \in Call /\ heard.seen = sub[r].held /\ heard.at \in Enlisted
    BY <1>1, <1>2 DEF Call, Subscription, Enlisted
  <2>2. CASE Take(r)
    <3>1. call' = [call EXCEPT ![r] = heard]
      BY <2>2 DEF Take
    <3>2. QED
      BY <2>1, <3>1
  <2>3. CASE Collect(r)
    <3> DEFINE frame == log[sub[r].held]
               more == [heard EXCEPT !.kept = heard.kept + 1]
               done == [heard EXCEPT !.at = "leaving", !.result = "outcome"]
    <3> HIDE DEF heard
    <3>1. more \in Call /\ more.seen = sub[r].held /\ more.at \in Enlisted
      BY <2>1 DEF Call, Enlisted
    <3>2. done \in Call /\ done.seen = sub[r].held /\ done.at \in Enlisted
      BY <2>1 DEF Call, Enlisted
    <3>3. \/ call' = [call EXCEPT ![r] = heard] \/ call' = [call EXCEPT ![r] = more]
          \/ call' = [call EXCEPT ![r] = done]
      BY <2>3 DEF Collect, heard
    <3>4. QED
      BY <2>1, <3>1, <3>2, <3>3
  <2>4. QED
    BY <2>2, <2>3 DEF Receives
<1>7. call' \in [Readers -> Call] /\ call'[r].at \in Enlisted /\ call'[r].seen = sub[r].held
      /\ \A q \in Readers \ {r} : call'[q] = call[q]
  BY <1>1, <1>6 DEF FeedInv, StreamTyped, Call, Enlisted, Subscription
<1>8. sub' \in [Readers -> Subscription] /\ \A q \in Readers \ {r} : sub'[q] = sub[q]
  BY <1>1, <1>5 DEF FeedInv, StreamTyped, Subscription
<1>9. sub'[r].drain = "top" /\ sub'[r].queue = sub[r].queue /\ sub'[r].stopped = sub[r].stopped
  BY <1>1, <1>5 DEF FeedInv, StreamTyped, Subscription
<1>10. StreamTyped' /\ SetMatchesCalls'
  BY <1>3, <1>5, <1>7, <1>8 DEF FeedInv, StreamTyped, SetMatchesCalls, Enlisted
<1>11. QueuesJoin'
  <2>1. Joined(r)'
    BY <1>2, <1>3, <1>5, <1>7, <1>9 DEF Joined, Got
  <2>2. ASSUME NEW q \in subscribed, q # r PROVE Joined(q)'
    BY <1>5, <1>7, <1>8, <2>2 DEF FeedInv, StreamTyped, QueuesJoin, Joined, Got
  <2>3. QED
    BY <1>5, <2>1, <2>2 DEF QueuesJoin
<1>12. AFeed!Receive(r)
  <2>1. Place[r] = call[r].seen /\ Place[r] # Away /\ Place[r] < Len(log)
    BY <1>1, <1>3, <1>4 DEF Place, Away
  <2>2. Place' = [Place EXCEPT ![r] = call[r].seen + 1]
    BY <1>3, <1>4, <1>5, <1>7 DEF Place
  <2>3. QED
    BY <1>5, <2>1, <2>2 DEF AFeed!Receive, AFeed!Moves
<1>13. QED
  BY <1>10, <1>11, <1>12 DEF FeedInv

(* A reader leaves: the set first, then the drain goroutine ends.          *)
LEMMA LeavesFeed ==
  ASSUME FeedInv, NEW r \in Readers, Leave(r)
  PROVE  FeedInv' /\ AFeed!Leave(r)
<1>1. r \in subscribed /\ sub[r] \in Subscription /\ call[r] \in Call
  BY DEF Leave, FeedInv, StreamTyped, SetMatchesCalls, Enlisted
<1>2. /\ log' = log /\ subscribed' = subscribed \ {r}
      /\ \A q \in Readers \ {r} : sub'[q] = sub[q] /\ call'[q] = call[q]
      /\ call'[r].at = "stopping"
  BY DEF Leave, FeedInv, StreamTyped
<1>3. StreamTyped'
  BY <1>1 DEF Leave, FeedInv, StreamTyped, Subscription, Call
<1>4. SetMatchesCalls'
  BY <1>2 DEF FeedInv, SetMatchesCalls, Enlisted
<1>5. QueuesJoin'
  BY <1>2 DEF FeedInv, StreamTyped, QueuesJoin, Joined, Got
<1>6. AFeed!Leave(r)
  <2>1. Place[r] # Away
    BY <1>1 DEF Place, Away, Call
  <2>2. Place' = [Place EXCEPT ![r] = Away]
    BY <1>1, <1>2 DEF Place
  <2>3. QED
    BY <1>2, <2>1, <2>2 DEF AFeed!Leave, AFeed!Moves
<1>7. QED
  BY <1>3, <1>4, <1>5, <1>6 DEF FeedInv

(* The other steps of a call move neither its subscription nor its place.  *)
LEMMA CallsAside ==
  ASSUME FeedInv, NEW r \in Readers,
         (r \in Callers /\ (Exec(r) \/ Refused(r) \/ ContextDone(r))) \/ Return(r)
  PROVE  FeedInv' /\ UNCHANGED <<log, Place>>
<1>1. UNCHANGED <<log, subscribed, sub>>
  BY DEF Exec, Refused, ContextDone, Return
<1>2. call[r] \in Call
  BY DEF FeedInv, StreamTyped
<1>3. \E new \in Call :
        /\ call' = [call EXCEPT ![r] = new] /\ new.seen = call[r].seen /\ new.at # "idle"
        /\ (new.at \in Enlisted <=> call[r].at \in Enlisted) /\ call[r].at # "idle"
  <2>1. ASSUME NEW at \in {"collecting", "returned"}
        PROVE  LET new == [call[r] EXCEPT !.at = at]
               IN new \in Call /\ new.seen = call[r].seen /\ new.at = at
    BY <1>2 DEF Call
  <2>2. CASE r \in Callers /\ Exec(r)
    <3>1. call' = [call EXCEPT ![r] = [call[r] EXCEPT !.at = "collecting"]]
          /\ call[r].at = "subscribed"
      BY <2>2 DEF Exec
    <3>2. QED
      BY <2>1, <3>1 DEF Enlisted
  <2>3. CASE r \in Callers /\ (Refused(r) \/ ContextDone(r))
    <3>1. PICK result \in {"refused", "context"} :
            call' = [call EXCEPT ![r] = [call[r] EXCEPT !.at = "leaving", !.result = result]]
      BY <2>3 DEF Refused, ContextDone, Returns
    <3>2. LET new == [call[r] EXCEPT !.at = "leaving", !.result = result]
          IN new \in Call /\ new.seen = call[r].seen /\ new.at = "leaving"
      BY <1>2 DEF Call
    <3>3. call[r].at \in {"subscribed", "collecting"}
      BY <2>3 DEF Refused, ContextDone
    <3>4. QED
      BY <3>1, <3>2, <3>3 DEF Enlisted
  <2>4. CASE Return(r)
    <3>1. call' = [call EXCEPT ![r] = [call[r] EXCEPT !.at = "returned"]]
          /\ call[r].at = "stopping"
      BY <2>4 DEF Return
    <3>2. QED
      BY <2>1, <3>1 DEF Enlisted
  <2>5. QED
    BY <2>2, <2>3, <2>4
<1>4. /\ call' \in [Readers -> Call] /\ \A q \in Readers : call'[q].seen = call[q].seen
      /\ \A q \in Readers : call'[q].at \in Enlisted <=> call[q].at \in Enlisted
      /\ \A q \in Readers : call'[q].at = "idle" => call[q].at = "idle"
  BY <1>2, <1>3 DEF FeedInv, StreamTyped, Call
<1>5. FeedInv'
  <2>1. StreamTyped' /\ SetMatchesCalls'
    BY <1>1, <1>4 DEF FeedInv, StreamTyped, SetMatchesCalls
  <2>2. QueuesJoin'
    BY <1>1, <1>4 DEF FeedInv, StreamTyped, QueuesJoin, Joined, Got
  <2>3. QED
    BY <2>1, <2>2 DEF FeedInv
<1>6. QED
  BY <1>1, <1>4, <1>5 DEF Place

-----------------------------------------------------------------------------
(* The child's goroutine and the contexts concern the stream only by the   *)
(* frames they deliver.                                                    *)
LEMMA OwnFrames == \A c \in Callers : [exec |-> c, kind |-> "said"] \in Frames
                                    /\ [exec |-> c, kind |-> "exit"] \in Frames
BY DEF Frames

LEMMA NextFeeds == FeedInv /\ [Next]_vars => FeedInv' /\ [AFeed!Next]_(AFeed!vars)
<1> SUFFICES ASSUME FeedInv, [Next]_vars PROVE FeedInv' /\ [AFeed!Next]_(AFeed!vars)
  OBVIOUS
<1>1. ASSUME UNCHANGED <<log, subscribed, sub, call>> PROVE FeedInv' /\ UNCHANGED <<log, Place>>
  BY <1>1 DEF FeedInv, StreamTyped, SetMatchesCalls, QueuesJoin, Joined, Got, Place
<1>2. ASSUME NEW r \in Readers, Drain(r) \/ Subscribe(r) \/ Leaves(r)
      PROVE  FeedInv' /\ [AFeed!Next]_(AFeed!vars)
  <2>1. CASE Drain(r)
    BY <2>1, Drains DEF AFeed!vars
  <2>2. CASE Subscribe(r)
    BY <2>2, Subscribes DEF AFeed!Next
  <2>3. CASE Leave(r)
    BY <2>3, LeavesFeed DEF AFeed!Next
  <2>4. CASE Return(r)
    BY <2>4, CallsAside DEF AFeed!vars
  <2>5. QED
    BY <1>2, <2>1, <2>2, <2>3, <2>4 DEF Leaves
<1>3. ASSUME NEW c \in Callers, Refused(c) \/ Calling(c)
      PROVE  FeedInv' /\ [AFeed!Next]_(AFeed!vars)
  <2>1. c \in Readers
    BY DEF Readers
  <2>2. CASE Collect(c)
    BY <2>1, <2>2, ReceivesNext DEF Receives, AFeed!Next
  <2>3. CASE Exec(c) \/ Refused(c) \/ ContextDone(c)
    BY <2>1, <2>3, CallsAside DEF AFeed!vars
  <2>4. CASE Leaves(c)
    BY <1>2, <2>1, <2>4
  <2>5. QED
    BY <1>3, <2>2, <2>3, <2>4 DEF Calling
<1>4. ASSUME NEW c \in Callers, Child(c) \/ Own(c) PROVE FeedInv' /\ [AFeed!Next]_(AFeed!vars)
  <2>1. CASE Say(c)
    BY <2>1, OwnFrames, Delivers DEF Say, AFeed!Next
  <2>2. CASE ControlFrame(c)
    BY <2>2, OwnFrames, Delivers DEF ControlFrame, AFeed!Next
  <2>3. CASE Bind(c) \/ Launch(c) \/ LaunchFails(c) \/ KilledByContext(c) \/ Wait(c)
             \/ WaitAbandons(c) \/ Forget(c) \/ Watch(c)
    <3>1. UNCHANGED <<log, subscribed, sub, call>>
      BY <2>3 DEF Bind, Launch, LaunchFails, KilledByContext, Wait, WaitAbandons, Forget, Watch
    <3>2. QED
      BY <1>1, <3>1 DEF AFeed!vars
  <2>4. CASE Exits(c) \/ HelperExits(c) \/ Cancel(c) \/ CallerGivesUp(c)
    <3>1. UNCHANGED <<log, subscribed, sub, call>>
      BY <2>4 DEF Exits, HelperExits, Cancel, CallerGivesUp
    <3>2. QED
      BY <1>1, <3>1 DEF AFeed!vars
  <2>5. QED
    BY <1>4, <2>1, <2>2, <2>3, <2>4 DEF Child, Own
<1>5. ASSUME NEW w \in Watchers, Watcher(w) PROVE FeedInv' /\ [AFeed!Next]_(AFeed!vars)
  <2>1. w \in Readers
    BY DEF Readers
  <2>2. CASE Take(w)
    BY <2>1, <2>2, ReceivesNext DEF Receives, AFeed!Next
  <2>3. CASE Leaves(w)
    BY <1>2, <2>1, <2>3
  <2>4. QED
    BY <1>5, <2>2, <2>3 DEF Watcher
<1>6. CASE OtherSays
  <2>1. [exec |-> Neighbour, kind |-> "said"] \in Frames
    BY DEF Frames
  <2>2. QED
    BY <1>6, <2>1, Delivers DEF OtherSays, AFeed!Next
<1>7. CASE EnvironmentEnds \/ UNCHANGED vars
  <2>1. UNCHANGED <<log, subscribed, sub, call>>
    BY <1>7 DEF EnvironmentEnds, vars
  <2>2. QED
    BY <1>1, <2>1 DEF AFeed!vars
<1>8. QED
  BY <1>2, <1>3, <1>4, <1>5, <1>6, <1>7 DEF Next

(* The console of the in-process broker is a Feed: brokerStream delivers   *)
(* to every subscriber each frame after its subscription, once and in      *)
(* order, whatever other subscribers, children and contexts do.            *)
THEOREM ConsoleIsFeed == Spec => IsFeed
<1>1. FeedInv /\ [Next]_vars => FeedInv'
  BY NextFeeds
<1>2. FeedInv /\ [Next]_vars => [AFeed!Next]_(AFeed!vars)
  BY NextFeeds
<1>3. Init => FeedInv /\ AFeed!Init
  BY InitFeed
<1>4. QED
  BY <1>1, <1>2, <1>3, PTL DEF Spec, IsFeed, AFeed!Spec

(* What a subscriber has received and what waits for it make up the log    *)
(* since its subscription: nothing is lost, repeated or reordered in the   *)
(* queue of the subscription or in the hand of its drain goroutine.        *)
THEOREM NothingLostBetween == Spec => []QueuesJoin
<1>1. FeedInv /\ [Next]_vars => FeedInv'
  BY NextFeeds
<1>2. Init => FeedInv
  BY InitFeed
<1>3. FeedInv => QueuesJoin
  BY DEF FeedInv
<1>4. QED
  BY <1>1, <1>2, <1>3, PTL DEF Spec

-----------------------------------------------------------------------------
(* An outcome is whole.  What the child said is counted in the log; what   *)
(* its caller kept is counted in the part of the log it has received; and  *)
(* the control frame, if there is one, is the last of the exec's frames.   *)
ChildRecord == [at : Known \cup {"none", "gone"}, said : Nat, helper : BOOLEAN]
SaidBy(c, l, n) == {i \in 1..n : l[i].exec = c /\ l[i].kind = "said"}
Over == {"framed", "gone"}

Tells(c, l, k, h) ==
  /\ h.said = Cardinality(SaidBy(c, l, Len(l)))
  /\ h.helper => h.at = "exited"
  /\ k.at \in {"idle", "subscribed"} =>
       h.at = "none" /\ k.kept = 0 /\ \A i \in 1..Len(l) : l[i].exec # c
  /\ k.at = "collecting" => k.kept = Cardinality(SaidBy(c, l, k.seen))
  /\ k.result = "outcome" =>
       k.at \notin {"idle", "subscribed", "collecting"} /\ k.kept = h.said /\ h.at \in Over
  /\ \A i \in 1..Len(l) : l[i].exec = c /\ l[i].kind = "exit" =>
       h.at \in Over /\ \A j \in 1..Len(l) : l[j].exec = c => j <= i

TellsInv ==
  /\ child \in [Callers -> ChildRecord]
  /\ \A c \in Callers : Tells(c, log, call[c], child[c])

LEMMA SaidFinite ==
  ASSUME NEW c, NEW l, NEW n \in Nat
  PROVE  IsFiniteSet(SaidBy(c, l, n)) /\ Cardinality(SaidBy(c, l, n)) \in Nat
<1>1. IsFiniteSet(1..n)
  BY FS_Interval
<1>2. IsFiniteSet(SaidBy(c, l, n))
  BY <1>1, FS_Subset DEF SaidBy
<1>3. QED
  BY <1>2, FS_CardinalityType

(* One frame further, one more of the exec's own or none.                  *)
LEMMA SaidNext ==
  ASSUME NEW c, NEW l, NEW n \in Nat
  PROVE  /\ l[n + 1].exec = c /\ l[n + 1].kind = "said" =>
              Cardinality(SaidBy(c, l, n + 1)) = Cardinality(SaidBy(c, l, n)) + 1
         /\ ~(l[n + 1].exec = c /\ l[n + 1].kind = "said") => SaidBy(c, l, n + 1) = SaidBy(c, l, n)
<1>1. 1..(n + 1) = (1..n) \cup {n + 1} /\ n + 1 \notin 1..n
  OBVIOUS
<1>2. CASE l[n + 1].exec = c /\ l[n + 1].kind = "said"
  <2>1. SaidBy(c, l, n + 1) = SaidBy(c, l, n) \cup {n + 1} /\ n + 1 \notin SaidBy(c, l, n)
    BY <1>1, <1>2 DEF SaidBy
  <2>2. Cardinality(SaidBy(c, l, n) \cup {n + 1}) = Cardinality(SaidBy(c, l, n)) + 1
    BY <2>1, SaidFinite, FS_AddElement
  <2>3. QED
    BY <1>2, <2>1, <2>2
<1>3. CASE ~(l[n + 1].exec = c /\ l[n + 1].kind = "said")
  BY <1>1, <1>3 DEF SaidBy
<1>4. QED
  BY <1>2, <1>3

LEMMA SaidKept ==
  ASSUME NEW c, NEW l \in Seq(Frames), NEW frame \in Frames, NEW n \in 0..Len(l)
  PROVE  SaidBy(c, Append(l, frame), n) = SaidBy(c, l, n)
<1>1. \A i \in 1..n : Append(l, frame)[i] = l[i]
  OBVIOUS
<1>2. QED
  BY <1>1 DEF SaidBy

(* The child's goroutine, the helpers and the contexts say nothing new.    *)
LEMMA ChildMoves ==
  ASSUME NEW c, NEW l, NEW k, NEW h \in ChildRecord, NEW h2 \in ChildRecord,
         Tells(c, l, k, h), h.at # "none", h2.said = h.said,
         h2.helper => h2.at = "exited", h.at \in Over => h2.at \in Over
  PROVE  Tells(c, l, k, h2)
BY DEF Tells

(* A frame of another exec concerns neither the counts nor the order.      *)
LEMMA OthersDelivered ==
  ASSUME NEW c, NEW l \in Seq(Frames), NEW frame \in Frames, NEW k \in Call, NEW h,
         Tells(c, l, k, h), frame.exec # c,
         k.at = "collecting" => k.seen <= Len(l)
  PROVE  Tells(c, Append(l, frame), k, h)
<1> DEFINE longer == Append(l, frame)
<1>1. Len(longer) = Len(l) + 1 /\ Len(l) \in Nat /\ longer[Len(l) + 1] = frame
      /\ \A i \in 1..Len(l) : longer[i] = l[i]
  OBVIOUS
<1>2. /\ SaidBy(c, longer, Len(l)) = SaidBy(c, l, Len(l))
      /\ k.at = "collecting" => SaidBy(c, longer, k.seen) = SaidBy(c, l, k.seen)
  BY SaidKept DEF Call
<1>3. SaidBy(c, longer, Len(longer)) = SaidBy(c, l, Len(l))
  BY <1>1, <1>2, SaidNext
<1> HIDE DEF longer
<1>4. \A i \in 1..Len(longer) : longer[i].exec = c => i \in 1..Len(l) /\ longer[i] = l[i]
  BY <1>1
<1>5. QED
  BY <1>1, <1>2, <1>3, <1>4 DEF Tells, longer

(* A frame the child or its helper says.                                   *)
LEMMA Said ==
  ASSUME NEW c \in Callers, NEW l \in Seq(Frames), NEW k \in Call, NEW h \in ChildRecord,
         Tells(c, l, k, h), h.at = "running" \/ h.helper,
         k.at = "collecting" => k.seen <= Len(l)
  PROVE  Tells(c, Append(l, [exec |-> c, kind |-> "said"]), k, [h EXCEPT !.said = h.said + 1])
<1> DEFINE frame == [exec |-> c, kind |-> "said"]
           longer == Append(l, frame)
           h2 == [h EXCEPT !.said = h.said + 1]
<1>1. frame \in Frames
  BY DEF Frames
<1>2. Len(longer) = Len(l) + 1 /\ Len(l) \in Nat /\ longer[Len(l) + 1] = frame
      /\ \A i \in 1..Len(l) : longer[i] = l[i]
  BY <1>1
<1>3. /\ SaidBy(c, longer, Len(l)) = SaidBy(c, l, Len(l))
      /\ k.at = "collecting" => SaidBy(c, longer, k.seen) = SaidBy(c, l, k.seen)
  BY <1>1, SaidKept DEF Call
<1>4. Cardinality(SaidBy(c, longer, Len(longer))) = Cardinality(SaidBy(c, l, Len(l))) + 1
  <2>1. longer[Len(l) + 1].exec = c /\ longer[Len(l) + 1].kind = "said"
    BY <1>2
  <2> HIDE DEF longer
  <2>2. Cardinality(SaidBy(c, longer, Len(l) + 1)) = Cardinality(SaidBy(c, longer, Len(l))) + 1
    BY <1>2, <2>1, SaidNext
  <2>3. QED
    BY <1>2, <1>3, <2>2
<1>5. h2.said = h.said + 1 /\ h2.at = h.at /\ h2.helper = h.helper
  BY DEF ChildRecord
<1>6. h.at \notin Over /\ h.at # "none" /\ k.result # "outcome"
      /\ k.at \notin {"idle", "subscribed"}
  BY DEF Tells, Over
<1>7. \A i \in 1..Len(longer) : ~(longer[i].exec = c /\ longer[i].kind = "exit")
  <2>1. \A i \in 1..Len(l) : ~(l[i].exec = c /\ l[i].kind = "exit")
    BY <1>6 DEF Tells
  <2>2. \A i \in 1..Len(longer) : i \in 1..Len(l) \/ i = Len(l) + 1
    BY <1>2
  <2>3. QED
    BY <1>2, <2>1, <2>2
<1> HIDE DEF longer, h2
<1>8. Tells(c, longer, k, h2)
  BY <1>3, <1>4, <1>5, <1>6, <1>7 DEF Tells
<1>9. QED
  BY <1>8 DEF longer, h2

(* The control frame: the pipes are closed, so it is the last one.         *)
LEMMA Framed ==
  ASSUME NEW c \in Callers, NEW l \in Seq(Frames), NEW k \in Call, NEW h \in ChildRecord,
         Tells(c, l, k, h), h.at = "waited",
         k.at = "collecting" => k.seen <= Len(l)
  PROVE  Tells(c, Append(l, [exec |-> c, kind |-> "exit"]), k, [h EXCEPT !.at = "framed"])
<1> DEFINE frame == [exec |-> c, kind |-> "exit"]
           longer == Append(l, frame)
           h2 == [h EXCEPT !.at = "framed"]
<1>1. frame \in Frames
  BY DEF Frames
<1>2. Len(longer) = Len(l) + 1 /\ Len(l) \in Nat /\ longer[Len(l) + 1] = frame
      /\ \A i \in 1..Len(l) : longer[i] = l[i]
  BY <1>1
<1>3. /\ SaidBy(c, longer, Len(l)) = SaidBy(c, l, Len(l))
      /\ k.at = "collecting" => SaidBy(c, longer, k.seen) = SaidBy(c, l, k.seen)
  BY <1>1, SaidKept DEF Call
<1>4. SaidBy(c, longer, Len(longer)) = SaidBy(c, l, Len(l))
  <2>1. longer[Len(l) + 1].kind # "said"
    BY <1>2
  <2> HIDE DEF longer
  <2>2. SaidBy(c, longer, Len(l) + 1) = SaidBy(c, longer, Len(l))
    BY <1>2, <2>1, SaidNext
  <2>3. QED
    BY <1>2, <1>3, <2>2
<1>5. h2.said = h.said /\ h2.at = "framed" /\ ~h2.helper
  BY DEF ChildRecord, Tells
<1>6. k.result # "outcome" /\ k.at \notin {"idle", "subscribed"}
  BY DEF Tells, Over
<1>7. \A i \in 1..Len(longer) : longer[i].exec = c /\ longer[i].kind = "exit" => i = Len(l) + 1
  <2>1. \A i \in 1..Len(l) : ~(l[i].exec = c /\ l[i].kind = "exit")
    BY DEF Tells, Over
  <2>2. \A i \in 1..Len(longer) : i \in 1..Len(l) \/ i = Len(l) + 1
    BY <1>2
  <2>3. QED
    BY <1>2, <2>1, <2>2
<1>8. \A j \in 1..Len(longer) : j <= Len(l) + 1
  BY <1>2
<1> HIDE DEF longer, h2
<1>9. Tells(c, longer, k, h2)
  BY <1>3, <1>4, <1>5, <1>6, <1>7, <1>8 DEF Tells, Over
<1>10. QED
  BY <1>9 DEF longer, h2

(* A step of the caller that is not the receipt of a frame.                *)
LEMMA CallMoves ==
  ASSUME NEW c, NEW l, NEW k, NEW k2, NEW h, Tells(c, l, k, h),
         k2.at \in {"leaving", "stopping", "returned"}, k2.kept = k.kept,
         k2.result = "outcome" => k.result = "outcome"
  PROVE  Tells(c, l, k2, h)
BY DEF Tells

LEMMA Hears ==
  ASSUME FeedInv, TellsInv, NEW c \in Callers, Collect(c)
  PROVE  Tells(c, log, call'[c], child[c])
<1> DEFINE k == call[c]
           h == child[c]
           n == k.seen
           frame == log[n + 1]
           heard == [k EXCEPT !.seen = n + 1]
<1>1. c \in Readers /\ Tells(c, log, k, h) /\ k \in Call /\ h \in ChildRecord
  BY DEF Readers, TellsInv, FeedInv, StreamTyped
<1>2. k.at = "collecting" /\ sub[c].drain = "handing"
  BY DEF Collect
<1>3. c \in subscribed /\ Joined(c)
  BY <1>1, <1>2 DEF FeedInv, SetMatchesCalls, QueuesJoin, Enlisted
<1>4. log \in Seq(Frames) /\ sub[c] \in Subscription /\ n \in Nat
  BY <1>1 DEF FeedInv, StreamTyped, Call
<1>5. sub[c].held = n + 1 /\ n + 1 \in 1..Len(log)
  BY <1>2, <1>3, <1>4 DEF Joined, Got, Subscription
<1>6. frame \in Frames
  BY <1>4, <1>5
<1>7. call'[c] = IF frame.exec # c THEN heard
                 ELSE IF frame.kind = "said" THEN [heard EXCEPT !.kept = heard.kept + 1]
                 ELSE [heard EXCEPT !.at = "leaving", !.result = "outcome"]
  BY <1>1, <1>5 DEF Collect, FeedInv, StreamTyped
<1>8. /\ heard.at = "collecting" /\ heard.seen = n + 1 /\ heard.kept = k.kept
      /\ heard.result = k.result /\ k.kept = Cardinality(SaidBy(c, log, n)) /\ k.result # "outcome"
  BY <1>1, <1>2 DEF Call, Tells
<1>9. CASE frame.exec # c
  <2>1. SaidBy(c, log, n + 1) = SaidBy(c, log, n)
    BY <1>4, <1>9, SaidNext
  <2>2. call'[c] = heard
    BY <1>7, <1>9
  <2> HIDE DEF heard
  <2>3. QED
    BY <1>1, <1>8, <2>1, <2>2 DEF Tells
<1>10. CASE frame.exec = c /\ frame.kind = "said"
  <2> DEFINE more == [heard EXCEPT !.kept = heard.kept + 1]
  <2>1. Cardinality(SaidBy(c, log, n + 1)) = Cardinality(SaidBy(c, log, n)) + 1
    BY <1>4, <1>10, SaidNext
  <2>2. call'[c] = more
    BY <1>7, <1>10
  <2>3. more.at = "collecting" /\ more.seen = n + 1 /\ more.kept = k.kept + 1
        /\ more.result = k.result
    BY <1>1, <1>2 DEF Call
  <2> HIDE DEF heard, more
  <2>4. QED
    BY <1>1, <1>8, <2>1, <2>2, <2>3 DEF Tells
<1>11. CASE frame.exec = c /\ frame.kind # "said"
  <2> DEFINE done == [heard EXCEPT !.at = "leaving", !.result = "outcome"]
  <2>1. frame.kind = "exit"
    BY <1>6, <1>11 DEF Frames
  <2>2. h.at \in Over /\ \A j \in 1..Len(log) : log[j].exec = c => j <= n + 1
    BY <1>1, <1>5, <1>11, <2>1 DEF Tells
  <2>3. SaidBy(c, log, Len(log)) = SaidBy(c, log, n)
    <3>1. \A j \in 1..Len(log) : j \in 1..n \/ j = n + 1 \/ ~(j <= n + 1)
      BY <1>4, <1>5
    <3>2. \A j \in 1..n : j \in 1..Len(log)
      BY <1>4, <1>5
    <3>3. QED
      BY <1>11, <2>2, <3>1, <3>2 DEF SaidBy
  <2>4. call'[c] = done
    BY <1>7, <1>11
  <2>5. done.at = "leaving" /\ done.kept = k.kept /\ done.result = "outcome"
    BY <1>1 DEF Call
  <2> HIDE DEF heard, done
  <2>6. QED
    BY <1>1, <1>8, <2>2, <2>3, <2>4, <2>5 DEF Tells
<1>12. QED
  BY <1>9, <1>10, <1>11

(* A frame of c, or of another exec, is delivered.                         *)
LEMMA SeenInLog ==
  ASSUME FeedInv, NEW c \in Callers
  PROVE  /\ c \in Readers /\ call[c] \in Call /\ log \in Seq(Frames)
         /\ call[c].at = "collecting" => call[c].seen <= Len(log)
<1>1. c \in Readers /\ call[c] \in Call /\ log \in Seq(Frames) /\ sub[c] \in Subscription
  BY DEF Readers, FeedInv, StreamTyped
<1>2. ASSUME c \in subscribed PROVE call[c].seen <= Len(log)
  BY <1>1, <1>2 DEF FeedInv, QueuesJoin, Joined, Got, Subscription, Call
<1>3. call[c].at = "collecting" => c \in subscribed
  BY <1>1 DEF FeedInv, SetMatchesCalls, Enlisted
<1>4. QED
  BY <1>1, <1>2, <1>3

LEMMA OwnDelivery ==
  ASSUME FeedInv, TellsInv, NEW c \in Callers, Say(c) \/ ControlFrame(c)
  PROVE  TellsInv'
<1>1. /\ child \in [Callers -> ChildRecord] /\ call' = call /\ log \in Seq(Frames)
      /\ Tells(c, log, call[c], child[c])
  BY SeenInLog DEF TellsInv, Say, ControlFrame
<1>2. PICK frame \in Frames, h2 \in ChildRecord :
        /\ frame.exec = c /\ log' = Append(log, frame) /\ child' = [child EXCEPT ![c] = h2]
        /\ Tells(c, log', call[c], h2)
  <2> DEFINE said == [exec |-> c, kind |-> "said"]
             exit == [exec |-> c, kind |-> "exit"]
             told == [child[c] EXCEPT !.said = child[c].said + 1]
             ends == [child[c] EXCEPT !.at = "framed"]
  <2>1. said \in Frames /\ exit \in Frames /\ child[c] \in ChildRecord
    BY <1>1 DEF Frames
  <2>2. told \in ChildRecord /\ ends \in ChildRecord
    BY <2>1 DEF ChildRecord, Known
  <2>3. CASE Say(c)
    <3>1. log' = Append(log, said) /\ child' = [child EXCEPT ![c] = told]
          /\ (child[c].at = "running" \/ child[c].helper)
      BY <2>3 DEF Say, Deliver, PipesOpen
    <3>2. Tells(c, Append(log, said), call[c], told)
      BY <1>1, <2>1, <3>1, SeenInLog, Said
    <3> HIDE DEF told
    <3>3. QED
      BY <2>1, <2>2, <3>1, <3>2
  <2>4. CASE ControlFrame(c)
    <3>1. log' = Append(log, exit) /\ child' = [child EXCEPT ![c] = ends]
          /\ child[c].at = "waited"
      BY <2>4 DEF ControlFrame, Deliver, Becomes
    <3>2. Tells(c, Append(log, exit), call[c], ends)
      BY <1>1, <2>1, <3>1, SeenInLog, Framed
    <3> HIDE DEF ends
    <3>3. QED
      BY <2>1, <2>2, <3>1, <3>2
  <2>5. QED
    BY <2>3, <2>4
<1>3. ASSUME NEW d \in Callers, d # c PROVE Tells(d, log', call'[d], child'[d])
  <2>1. Tells(d, log, call[d], child[d]) /\ child'[d] = child[d]
    BY <1>1, <1>2, <1>3 DEF TellsInv
  <2>2. frame.exec # d
    BY <1>2, <1>3
  <2>3. Tells(d, Append(log, frame), call[d], child[d])
    BY <1>1, <2>1, <2>2, SeenInLog, OthersDelivered
  <2>4. QED
    BY <1>1, <1>2, <2>1, <2>3
<1>4. Tells(c, log', call'[c], child'[c]) /\ child' \in [Callers -> ChildRecord]
  BY <1>1, <1>2
<1>5. QED
  BY <1>3, <1>4 DEF TellsInv

LEMMA NextTells == FeedInv /\ TellsInv /\ [Next]_vars => TellsInv'
<1> SUFFICES ASSUME FeedInv, TellsInv, [Next]_vars PROVE TellsInv'
  OBVIOUS
<1>0. child \in [Callers -> ChildRecord] /\ call \in [Readers -> Call] /\ Callers \subseteq Readers
  BY DEF TellsInv, FeedInv, StreamTyped, Readers
<1>1. ASSUME NEW r \in Readers, NEW k2, call' = [call EXCEPT ![r] = k2], UNCHANGED <<log, child>>,
             r \in Callers => Tells(r, log, k2, child[r])
      PROVE  TellsInv'
  BY <1>0, <1>1 DEF TellsInv
<1>2. ASSUME NEW c \in Callers, NEW h2 \in ChildRecord, child' = [child EXCEPT ![c] = h2],
             UNCHANGED <<log, call>>, Tells(c, log, call[c], h2)
      PROVE  TellsInv'
  BY <1>0, <1>2 DEF TellsInv
<1>3. ASSUME UNCHANGED <<log, call, child>> PROVE TellsInv'
  BY <1>3 DEF TellsInv
<1>4. ASSUME NEW r \in Readers, NEW k2, call' = [call EXCEPT ![r] = k2], UNCHANGED <<log, child>>,
             k2.at \in {"leaving", "stopping", "returned"}, k2.kept = call[r].kept,
             k2.result = "outcome" => call[r].result = "outcome"
      PROVE  TellsInv'
  <2>1. r \in Callers => Tells(r, log, k2, child[r])
    BY <1>4, CallMoves DEF TellsInv
  <2>2. QED
    BY <1>1, <1>4, <2>1
<1>5. ASSUME NEW c \in Callers, NEW h2 \in ChildRecord, child' = [child EXCEPT ![c] = h2],
             UNCHANGED <<log, call>>, child[c].at # "none", h2.said = child[c].said,
             h2.helper => h2.at = "exited", child[c].at \in Over => h2.at \in Over
      PROVE  TellsInv'
  <2>1. Tells(c, log, call[c], h2)
    BY <1>0, <1>5, ChildMoves DEF TellsInv
  <2>2. QED
    BY <1>2, <1>5, <2>1
<1>6. ASSUME NEW r \in Readers, Subscribe(r) PROVE TellsInv'
  <2> DEFINE at == IF r \in Watchers THEN "watching" ELSE "subscribed"
             k2 == [call[r] EXCEPT !.at = at, !.seen = Len(log)]
  <2>1. call' = [call EXCEPT ![r] = k2] /\ UNCHANGED <<log, child>> /\ call[r].at = "idle"
    BY <1>6 DEF Subscribe
  <2>2. k2.at = at /\ k2.kept = call[r].kept /\ k2.result = call[r].result
    BY <1>0 DEF Call
  <2>3. r \in Callers => Tells(r, log, k2, child[r])
    <3>1. r \in Callers => k2.at = "subscribed" /\ Tells(r, log, call[r], child[r])
      BY <2>2, BrokerAssumption DEF TellsInv
    <3> HIDE DEF k2
    <3>2. QED
      BY <2>1, <2>2, <3>1 DEF Tells
  <2> HIDE DEF k2
  <2>4. QED
    BY <1>1, <2>1, <2>3
<1>7. ASSUME NEW r \in Readers, Leaves(r) PROVE TellsInv'
  <2>1. PICK at \in {"stopping", "returned"} : call' = [call EXCEPT ![r] = [call[r] EXCEPT !.at = at]]
    BY <1>7 DEF Leaves, Leave, Return
  <2>2. UNCHANGED <<log, child>>
    BY <1>7 DEF Leaves, Leave, Return
  <2> DEFINE k2 == [call[r] EXCEPT !.at = at]
  <2>3. k2.at = at /\ k2.kept = call[r].kept /\ k2.result = call[r].result
    BY <1>0 DEF Call
  <2> HIDE DEF k2
  <2>4. QED
    BY <1>4, <2>1, <2>2, <2>3 DEF k2
<1>8. ASSUME NEW c \in Callers, Refused(c) \/ ContextDone(c) PROVE TellsInv'
  <2>1. PICK result \in {"refused", "context"} :
          call' = [call EXCEPT ![c] = [call[c] EXCEPT !.at = "leaving", !.result = result]]
    BY <1>8 DEF Refused, ContextDone, Returns
  <2>2. UNCHANGED <<log, child>> /\ c \in Readers
    BY <1>0, <1>8 DEF Refused, ContextDone
  <2> DEFINE k2 == [call[c] EXCEPT !.at = "leaving", !.result = result]
  <2>3. k2.at = "leaving" /\ k2.kept = call[c].kept /\ k2.result = result
    BY <1>0 DEF Call
  <2> HIDE DEF k2
  <2>4. QED
    BY <1>4, <2>1, <2>2, <2>3 DEF k2
<1>9. ASSUME NEW c \in Callers, Exec(c) PROVE TellsInv'
  <2> DEFINE k2 == [call[c] EXCEPT !.at = "collecting"]
             h2 == [child[c] EXCEPT !.at = "registered"]
  <2>1. /\ call' = [call EXCEPT ![c] = k2] /\ child' = [child EXCEPT ![c] = h2] /\ log' = log
        /\ call[c].at = "subscribed"
    BY <1>9 DEF Exec
  <2>2. k2.at = "collecting" /\ k2.kept = call[c].kept /\ k2.result = call[c].result
        /\ k2.seen = call[c].seen /\ k2.seen \in Nat
    BY <1>0 DEF Call
  <2>3. h2.at = "registered" /\ h2.said = child[c].said /\ h2.helper = child[c].helper
        /\ h2 \in ChildRecord
    BY <1>0 DEF ChildRecord, Known
  <2>4. Tells(c, log, call[c], child[c]) /\ log \in Seq(Frames) /\ k2.seen <= Len(log)
    <3>1. c \in subscribed /\ c \in Readers
      BY <1>0, <2>1 DEF FeedInv, SetMatchesCalls, Enlisted
    <3>2. call[c].seen <= Len(log)
      <4>1. call[c] \in Call /\ log \in Seq(Frames) /\ sub[c] \in Subscription
        BY <3>1 DEF FeedInv, StreamTyped
      <4>2. QED
        BY <3>1, <4>1 DEF FeedInv, QueuesJoin, Joined, Got, Subscription, Call
    <3>3. QED
      BY <2>2, <3>2 DEF TellsInv, FeedInv, StreamTyped
  <2>5. Cardinality(SaidBy(c, log, k2.seen)) = 0
    <3>1. \A i \in 1..k2.seen : i \in 1..Len(log)
      BY <2>2, <2>4
    <3>2. \A i \in 1..Len(log) : log[i].exec # c
      BY <2>1, <2>4 DEF Tells
    <3>3. SaidBy(c, log, k2.seen) = {}
      BY <3>1, <3>2 DEF SaidBy
    <3>4. QED
      BY <3>3, FS_EmptySet
  <2> HIDE DEF k2, h2
  <2>6. Tells(c, log, k2, h2)
    <3>1. /\ h2.said = Cardinality(SaidBy(c, log, Len(log))) /\ ~h2.helper
          /\ k2.kept = 0 /\ k2.result # "outcome"
          /\ \A i \in 1..Len(log) : log[i].exec # c
      BY <2>1, <2>2, <2>3, <2>4 DEF Tells, Over
    <3>2. QED
      BY <2>2, <2>5, <3>1 DEF Tells
  <2>7. QED
    BY <1>0, <2>1, <2>3, <2>6 DEF TellsInv
<1>10. ASSUME NEW c \in Callers, Collect(c) PROVE TellsInv'
  <2>1. c \in Readers /\ UNCHANGED <<log, child>>
        /\ \E k2 : call' = [call EXCEPT ![c] = k2]
    BY <1>0, <1>10 DEF Collect
  <2>2. PICK k2 : call' = [call EXCEPT ![c] = k2]
    BY <2>1
  <2>3. call'[c] = k2
    BY <1>0, <2>1, <2>2
  <2>4. QED
    BY <1>1, <1>10, <2>1, <2>2, <2>3, Hears
<1>11. ASSUME NEW c \in Callers, Child(c) \/ Own(c) PROVE TellsInv'
  <2> DEFINE h == child[c]
  <2>1. h \in ChildRecord
    BY <1>0
  <2>2. ASSUME NEW at \in {"bound", "running", "waited"}, h.at \in {"registered", "bound", "exited"},
               h.helper => FALSE, UNCHANGED <<log, call>>, Becomes(c, at)
        PROVE  TellsInv'
    <3> DEFINE h2 == [h EXCEPT !.at = at]
    <3>1. h2 \in ChildRecord /\ h2.said = h.said /\ h2.helper = h.helper
      BY <2>1 DEF ChildRecord, Known
    <3>2. child' = [child EXCEPT ![c] = h2] /\ UNCHANGED <<log, call>>
      BY <2>2 DEF Becomes
    <3> HIDE DEF h2
    <3>3. h.at # "none" /\ h.at \notin Over
      BY <2>2 DEF Over
    <3>4. QED
      BY <1>5, <2>2, <3>1, <3>2, <3>3
  <2>3. ASSUME h.at = "running", UNCHANGED <<log, call>>, Dies(c) PROVE TellsInv'
    <3>1. PICK helper \in BOOLEAN :
            child' = [child EXCEPT ![c] = [h EXCEPT !.at = "exited", !.helper = helper]]
      BY <2>3 DEF Dies
    <3> DEFINE h2 == [h EXCEPT !.at = "exited", !.helper = helper]
    <3>2. h2 \in ChildRecord /\ h2.said = h.said /\ h2.at = "exited"
      BY <2>1 DEF ChildRecord, Known
    <3>3. child' = [child EXCEPT ![c] = h2]
      BY <3>1
    <3> HIDE DEF h2
    <3>4. h.at # "none" /\ h.at \notin Over
      BY <2>3 DEF Over
    <3>5. QED
      BY <1>5, <2>3, <3>2, <3>3, <3>4
  <2>4. Tells(c, log, call[c], h)
    BY DEF TellsInv
  <2>5. CASE Bind(c)
    BY <2>2, <2>4, <2>5 DEF Bind, Tells
  <2>6. CASE Launch(c)
    BY <2>2, <2>4, <2>6 DEF Launch, Tells
  <2>7. CASE LaunchFails(c)
    BY <2>2, <2>4, <2>7 DEF LaunchFails, Tells
  <2>8. CASE Exits(c) \/ KilledByContext(c)
    BY <2>3, <2>8 DEF Exits, KilledByContext
  <2>9. CASE Wait(c)
    BY <2>2, <2>9 DEF Wait
  <2>10. CASE WaitAbandons(c) \/ HelperExits(c)
    <3>1. PICK at \in {"waited", "exited"} :
            child' = [child EXCEPT ![c] = [h EXCEPT !.at = at, !.helper = FALSE]]
      <4>1. CASE WaitAbandons(c)
        BY <4>1 DEF WaitAbandons
      <4>2. CASE HelperExits(c)
        <5>1. [h EXCEPT !.helper = FALSE] = [h EXCEPT !.at = "exited", !.helper = FALSE]
          BY <2>1, <4>2 DEF HelperExits, ChildRecord
        <5>2. child' = [child EXCEPT ![c] = [h EXCEPT !.helper = FALSE]]
          BY <4>2 DEF HelperExits
        <5>3. QED
          BY <5>1, <5>2
      <4>3. QED
        BY <2>10, <4>1, <4>2
    <3> DEFINE h2 == [h EXCEPT !.at = at, !.helper = FALSE]
    <3>2. h2 \in ChildRecord /\ h2.said = h.said /\ ~h2.helper
      BY <2>1 DEF ChildRecord, Known
    <3>3. child' = [child EXCEPT ![c] = h2]
      BY <3>1
    <3> HIDE DEF h2
    <3>4. h.at = "exited" /\ UNCHANGED <<log, call>>
      BY <2>10 DEF WaitAbandons, HelperExits
    <3>5. QED
      BY <1>5, <3>2, <3>3, <3>4 DEF Over
  <2>11. CASE Say(c) \/ ControlFrame(c)
    BY <2>11, OwnDelivery
  <2>12. CASE Forget(c)
    <3> DEFINE h2 == [h EXCEPT !.at = "gone"]
    <3>1. h2 \in ChildRecord /\ h2.said = h.said /\ h2.at = "gone" /\ h2.helper = h.helper
      BY <2>1 DEF ChildRecord
    <3>2. child' = [child EXCEPT ![c] = h2] /\ UNCHANGED <<log, call>> /\ h.at = "framed"
      BY <2>12 DEF Forget, Becomes
    <3>3. ~h2.helper
      BY <2>4, <3>1, <3>2 DEF Tells
    <3> HIDE DEF h2
    <3>4. QED
      BY <1>5, <3>1, <3>2, <3>3 DEF Over
  <2>13. CASE Watch(c)
    BY <1>3, <2>3, <2>13 DEF Watch
  <2>14. CASE Cancel(c) \/ CallerGivesUp(c)
    BY <1>3, <2>14 DEF Cancel, CallerGivesUp
  <2>15. QED
    BY <1>11, <2>5, <2>6, <2>7, <2>8, <2>9, <2>10, <2>11, <2>12, <2>13, <2>14 DEF Child, Own
<1>12. ASSUME NEW w \in Watchers, Take(w) PROVE TellsInv'
  <2>1. w \in Readers /\ w \notin Callers
    BY BrokerAssumption DEF Readers
  <2>2. UNCHANGED <<log, child>> /\ call' = [call EXCEPT ![w] = [call[w] EXCEPT !.seen = sub[w].held]]
    BY <1>12 DEF Take
  <2>3. QED
    BY <1>1, <2>1, <2>2
<1>13. ASSUME NEW r \in Readers, Drain(r) PROVE TellsInv'
  BY <1>3, <1>13 DEF Drain, DrainTurn, DrainWakes, DrainGivesUp
<1>14. CASE OtherSays
  <2> DEFINE frame == [exec |-> Neighbour, kind |-> "said"]
  <2>1. log' = Append(log, frame) /\ frame \in Frames /\ UNCHANGED <<call, child>>
    BY <1>14 DEF OtherSays, Deliver, Frames
  <2>2. ASSUME NEW c \in Callers PROVE Tells(c, log', call'[c], child'[c])
    <3>1. frame.exec # c
      BY BrokerAssumption
    <3> HIDE DEF frame
    <3>2. Tells(c, Append(log, frame), call[c], child[c])
      BY <2>1, <3>1, SeenInLog, OthersDelivered DEF TellsInv
    <3>3. QED
      BY <2>1, <3>2
  <2>3. QED
    BY <1>0, <2>1, <2>2 DEF TellsInv
<1>15. CASE EnvironmentEnds \/ UNCHANGED vars
  BY <1>3, <1>15 DEF EnvironmentEnds, vars
<1>16. QED
  <2>1. Callers \subseteq Readers /\ Watchers \subseteq Readers
    BY DEF Readers
  <2>2. ASSUME NEW c \in Callers, Refused(c) \/ Calling(c) \/ Child(c) \/ Own(c) PROVE TellsInv'
    BY <1>7, <1>8, <1>9, <1>10, <1>11, <2>1, <2>2 DEF Calling
  <2>3. ASSUME NEW w \in Watchers, Watcher(w) PROVE TellsInv'
    BY <1>7, <1>12, <2>1, <2>3 DEF Watcher
  <2>4. QED
    BY <1>6, <1>13, <1>14, <1>15, <2>2, <2>3 DEF Next

(* In an outcome is all that the child and its helpers said: what a caller *)
(* keeps counts the frames of its child up to the one it heard last, and   *)
(* the frame that ends its wait is the last of them, for the control frame *)
(* is delivered once the pipes are closed.                                 *)
THEOREM OutcomesWhole == Spec => []OutcomeWhole
<1>1. Init => TellsInv
  <2> SUFFICES ASSUME Init PROVE TellsInv
    OBVIOUS
  <2>1. child = [c \in Callers |-> NoChild] /\ NoChild \in ChildRecord
    BY DEF Init, NoChild, ChildRecord
  <2>2. ASSUME NEW c \in Callers PROVE Tells(c, log, call[c], child[c])
    <3>1. log = <<>> /\ call[c] = NoCall /\ child[c] = NoChild
      BY <2>1 DEF Init, Readers
    <3>2. SaidBy(c, log, Len(log)) = {} /\ 1..Len(log) = {}
      BY <3>1 DEF SaidBy
    <3>3. Cardinality(SaidBy(c, log, Len(log))) = 0
      BY <3>2, FS_EmptySet
    <3>4. QED
      BY <3>1, <3>2, <3>3 DEF Tells, NoCall, NoChild
  <2>3. QED
    BY <2>1, <2>2 DEF TellsInv
<1>2. FeedInv /\ TellsInv => OutcomeWhole
  BY DEF TellsInv, Tells, OutcomeWhole, Over
<1>3. FeedInv /\ [Next]_vars => FeedInv'
  BY NextFeeds
<1>4. Init => FeedInv
  BY InitFeed
<1>5. FeedInv /\ TellsInv /\ [Next]_vars => TellsInv'
  BY NextTells
<1>6. QED
  BY <1>1, <1>2, <1>3, <1>4, <1>5, PTL DEF Spec
=============================================================================
