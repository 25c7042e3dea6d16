---------------------------- MODULE GatherProofs ----------------------------
(***************************************************************************)
(* A gather that completes is whole, and none completes past a command it  *)
(* acknowledged: proved for any number of items, any body, limit, retry    *)
(* budget and number of resumes.                                           *)
(***************************************************************************)
EXTENDS Gather, FiniteSetTheorems, TLAPS

Typed ==
  /\ firstErr \in Errors
  /\ pc \in [Items -> Places] /\ at \in [Items -> 1 .. Len(Body)]
  /\ err \in [Items -> Errors] /\ stamp \in [Items -> Errors \cup {"unrun"}]
  /\ stack \in [Items -> Seq(Receipts)]
  /\ events \in Seq(Items) /\ requests \in Seq(Commands)

-----------------------------------------------------------------------------
(* The inductive invariant: what an iteration has journaled at each place, *)
(* and where the error it ended with is until firstErr has seen it.        *)
Journaled(log, u) == \E n \in DOMAIN log : log[n].unit = u /\ ~log[n].failed
Whole(log) == \A u \in Units : Journaled(log, u)
InFlight(i) == \E n \in DOMAIN events : events[n] = i

JournalFollowsPlace(i) ==
  /\ stamp[i] = "none" => Whole(stack[i])
  /\ pc[i] = "replayed" => stamp[i] = "none"
  /\ pc[i] = "waiting" => at[i] = 1
  /\ pc[i] \in {"exit1", "controlPoint", "do"} =>
       \A k \in 1 .. at[i] - 1 : Journaled(stack[i], Body[k])
  /\ pc[i] \in {"send", "sent"} /\ err[i] = "none" => Whole(stack[i])

ErrorArrives(i) ==
  /\ InFlight(i) => pc[i] = "sent"
  /\ pc[i] = "sent" /\ err[i] # "none" => firstErr # "none" \/ InFlight(i)

AckLeavesError ==
  acked # {} => firstErr # "none" \/ \E i \in Items : pc[i] \in {"send", "sent"} /\ err[i] # "none"

Settled ==
  /\ phase # "gathering" => events = <<>> /\ \A i \in Items : pc[i] \in {"replayed", "sent"}
  /\ phase = "completed" => firstErr = "none"

IInv == /\ Typed /\ AckLeavesError /\ Settled
        /\ \A i \in Items : JournalFollowsPlace(i) /\ ErrorArrives(i)

-----------------------------------------------------------------------------
LEMMA BodyTyped ==
  /\ Len(Body) \in Nat \ {0} /\ \A k \in 1 .. Len(Body) : Body[k] \in Units
  /\ \A u \in Units : \E k \in 1 .. Len(Body) : u = Body[k]
<1>1. Body \in Seq(Units) /\ Body # <<>>
  BY BodyAssumption
<1>2. Units = {Body[k] : k \in DOMAIN Body}
  BY DEF Units, Range
<1>3. QED
  BY <1>1, <1>2

(* The body is done once every unit up to its last one is journaled.       *)
LEMMA LastIsWhole ==
  ASSUME NEW log, NEW n \in 1 .. Len(Body), n = Len(Body),
         \A k \in 1 .. n - 1 : Journaled(log, Body[k]), Journaled(log, Body[n])
  PROVE  Whole(log)
<1>1. \A k \in 1 .. Len(Body) : Journaled(log, Body[k])
  BY BodyTyped
<1>2. QED
  BY <1>1, BodyTyped DEF Whole

(* A journal that grows forgets nothing.                                   *)
LEMMA JournaledGrows ==
  ASSUME NEW log \in Seq(Receipts), NEW r \in Receipts
  PROVE  /\ Append(log, r) \in Seq(Receipts)
         /\ \A u : Journaled(log, u) => Journaled(Append(log, r), u)
         /\ ~r.failed => Journaled(Append(log, r), r.unit)
<1> DEFINE longer == Append(log, r)
<1>1. /\ longer \in Seq(Receipts) /\ DOMAIN longer = 1 .. Len(log) + 1
      /\ \A n \in DOMAIN log : longer[n] = log[n] /\ n \in DOMAIN longer
      /\ longer[Len(log) + 1] = r /\ Len(log) + 1 \in DOMAIN longer
  OBVIOUS
<1>2. ASSUME NEW u, Journaled(log, u)
      PROVE  Journaled(longer, u)
  <2>1. PICK n \in DOMAIN log : log[n].unit = u /\ ~log[n].failed
    BY <1>2 DEF Journaled
  <2>2. QED
    BY <1>1, <2>1 DEF Journaled
<1>3. ~r.failed => Journaled(longer, r.unit)
  BY <1>1 DEF Journaled
<1> HIDE DEF longer
<1>4. QED
  BY <1>1, <1>2, <1>3 DEF longer

LEMMA InitHolds == Init => IInv
<1> SUFFICES ASSUME Init
             PROVE  IInv
  OBVIOUS
<1>1. Typed
  BY BodyTyped DEF Init, Typed, Errors, Places
<1>2. AckLeavesError /\ Settled
  BY DEF Init, AckLeavesError, Settled
<1>3. ASSUME NEW i \in Items
      PROVE  JournalFollowsPlace(i) /\ ErrorArrives(i)
  BY DEF Init, JournalFollowsPlace, ErrorArrives, InFlight
<1>4. QED
  BY <1>1, <1>2, <1>3 DEF IInv

-----------------------------------------------------------------------------
(* The steps of one iteration.                                             *)
Elsewhere(i) == \A j \in Items \ {i} : pc'[j] = pc[j] /\ at'[j] = at[j] /\ err'[j] = err[j]

LEMMA EndMoves ==
  ASSUME Typed, NEW i \in Items, NEW e \in Errors, End(i, e)
  PROVE  /\ pc' \in [Items -> Places] /\ at' \in [Items -> 1 .. Len(Body)]
         /\ err' \in [Items -> Errors] /\ Elsewhere(i)
         /\ pc'[i] = "send" /\ err'[i] = e
  BY DEF Typed, End, Places, Elsewhere

LEMMA GotoMoves ==
  ASSUME Typed, NEW i \in Items, NEW place \in Places, Goto(i, place)
  PROVE  /\ pc' \in [Items -> Places] /\ at' \in [Items -> 1 .. Len(Body)]
         /\ err' \in [Items -> Errors] /\ Elsewhere(i)
         /\ pc'[i] = place /\ at'[i] = at[i]
  BY DEF Typed, Goto, Elsewhere

(* Advance, with the unit it leaves journaled.                             *)
LEMMA AdvanceMoves ==
  ASSUME Typed, NEW i \in Items, Advance(i), stamp' = stamp,
         stamp[i] = "none" => Whole(stack'[i]),
         \A k \in 1 .. at[i] : Journaled(stack'[i], Body[k])
  PROVE  /\ pc' \in [Items -> Places] /\ at' \in [Items -> 1 .. Len(Body)]
         /\ err' \in [Items -> Errors] /\ Elsewhere(i)
         /\ pc'[i] \in {"send", "exit1"}
         /\ JournalFollowsPlace(i)'
<1>0. at[i] \in 1 .. Len(Body) /\ Len(Body) \in Nat
  BY BodyTyped DEF Typed
<1>1. CASE AtEnd(i)
  <2>1. End(i, "none") /\ "none" \in Errors
    BY <1>1 DEF Advance, Errors
  <2>2. Whole(stack'[i])
    BY <1>0, <1>1, LastIsWhole DEF AtEnd
  <2>3. QED
    BY <2>1, <2>2, EndMoves DEF JournalFollowsPlace
<1>2. CASE ~AtEnd(i)
  <2>1. /\ at' = [at EXCEPT ![i] = at[i] + 1] /\ pc' = [pc EXCEPT ![i] = "exit1"]
        /\ err' = err
    BY <1>2 DEF Advance
  <2>2. at[i] + 1 \in 1 .. Len(Body)
    BY <1>0, <1>2 DEF AtEnd
  <2>3. /\ pc' \in [Items -> Places] /\ at' \in [Items -> 1 .. Len(Body)]
        /\ err' \in [Items -> Errors] /\ Elsewhere(i)
        /\ pc'[i] = "exit1" /\ at'[i] = at[i] + 1
    BY <2>1, <2>2 DEF Typed, Places, Elsewhere
  <2>4. \A k \in 1 .. at'[i] - 1 : Journaled(stack'[i], Body[k])
    BY <2>3, <1>0
  <2>5. QED
    BY <2>3, <2>4 DEF JournalFollowsPlace
<1>3. QED
  BY <1>1, <1>2

(* What such a step owes the invariant.                                    *)
LEMMA IterationStep ==
  ASSUME IInv, NEW i \in Items, Elsewhere(i), Typed',
         \A j \in Items \ {i} : stack'[j] = stack[j],
         UNCHANGED <<phase, stamp, events, firstErr>>,
         pc[i] \notin {"replayed", "send", "sent"}, pc'[i] # "sent",
         acked' = acked \/ (pc'[i] = "send" /\ err'[i] # "none"),
         JournalFollowsPlace(i)'
  PROVE  IInv'
<1>1. phase = "gathering"
  BY DEF IInv, Settled
<1>2. Settled'
  BY <1>1 DEF Settled
<1>3. AckLeavesError'
  <2>1. CASE pc'[i] = "send" /\ err'[i] # "none"
    BY <2>1 DEF AckLeavesError
  <2>2. CASE acked' = acked
    BY <2>2 DEF IInv, AckLeavesError, Elsewhere
  <2>3. QED
    BY <2>1, <2>2
<1>4. ASSUME NEW j \in Items
      PROVE  JournalFollowsPlace(j)' /\ ErrorArrives(j)'
  <2>1. CASE j = i
    BY <2>1 DEF IInv, ErrorArrives, InFlight
  <2>2. CASE j # i
    BY <2>2 DEF IInv, ErrorArrives, InFlight, JournalFollowsPlace, Elsewhere
  <2>3. QED
    BY <2>1, <2>2
<1>5. QED
  BY <1>2, <1>3, <1>4 DEF IInv

LEMMA SpawnStep == ASSUME IInv, NEW i \in Items, Spawn(i) PROVE IInv'
<1>1. /\ pc[i] = "waiting" /\ pc' = [pc EXCEPT ![i] = "exit1"]
      /\ UNCHANGED <<phase, at, err, stack, stamp, events, firstErr, requests, acked>>
  BY DEF Spawn, Waiting, gathered, control
<1>2. Typed' /\ Elsewhere(i) /\ pc'[i] = "exit1"
  BY <1>1 DEF IInv, Typed, Places, Elsewhere
<1>3. JournalFollowsPlace(i)'
  BY <1>1, <1>2 DEF IInv, JournalFollowsPlace
<1>4. QED
  BY <1>1, <1>2, <1>3, IterationStep

LEMMA Exit1Step == ASSUME IInv, NEW i \in Items, Exit1(i) PROVE IInv'
<1>0. /\ pc[i] = "exit1"
      /\ UNCHANGED <<phase, stack, stamp, events, firstErr, requests, acked>>
  BY DEF Exit1, gathered, control
<1>1. CASE End(i, "cancelled")
  <2>1. /\ pc' \in [Items -> Places] /\ at' \in [Items -> 1 .. Len(Body)]
        /\ err' \in [Items -> Errors] /\ Elsewhere(i)
        /\ pc'[i] = "send" /\ err'[i] = "cancelled"
    BY <1>1, EndMoves DEF IInv, Errors
  <2>2. JournalFollowsPlace(i)'
    BY <1>0, <2>1 DEF IInv, JournalFollowsPlace
  <2>3. Typed'
    BY <1>0, <2>1 DEF IInv, Typed
  <2>4. QED
    BY <1>0, <2>1, <2>2, <2>3, IterationStep
<1>2. CASE Goto(i, "controlPoint")
  <2>1. /\ pc' \in [Items -> Places] /\ at' \in [Items -> 1 .. Len(Body)]
        /\ err' \in [Items -> Errors] /\ Elsewhere(i)
        /\ pc'[i] = "controlPoint" /\ at'[i] = at[i]
    BY <1>2, GotoMoves DEF IInv, Places
  <2>2. JournalFollowsPlace(i)'
    BY <1>0, <2>1 DEF IInv, JournalFollowsPlace
  <2>3. Typed'
    BY <1>0, <2>1 DEF IInv, Typed
  <2>4. QED
    BY <1>0, <2>1, <2>2, <2>3, IterationStep
<1>3. QED
  BY <1>1, <1>2 DEF Exit1

LEMMA ControlPointStep == ASSUME IInv, NEW i \in Items, ControlPoint(i) PROVE IInv'
<1>0. /\ pc[i] = "controlPoint"
      /\ UNCHANGED <<phase, stack, stamp, events, firstErr>>
  BY DEF ControlPoint, gathered
<1>1. CASE requests # <<>> /\ requests' = Tail(requests) /\ End(i, Interruption(Head(requests)))
  <2>0. Interruption(Head(requests)) \in Errors \ {"none"} /\ requests' \in Seq(Commands)
    BY <1>1 DEF Interruption, Errors, IInv, Typed
  <2>1. /\ pc' \in [Items -> Places] /\ at' \in [Items -> 1 .. Len(Body)]
        /\ err' \in [Items -> Errors] /\ Elsewhere(i)
        /\ pc'[i] = "send" /\ err'[i] # "none"
    BY <1>1, <2>0, EndMoves DEF IInv
  <2>2. JournalFollowsPlace(i)'
    BY <1>0, <2>1 DEF IInv, JournalFollowsPlace
  <2>3. Typed'
    BY <1>0, <2>0, <2>1 DEF IInv, Typed
  <2>4. QED
    BY <1>0, <2>1, <2>2, <2>3, IterationStep
<1>2. CASE Replayed(i) /\ Advance(i) /\ UNCHANGED <<requests, acked>>
  <2>1. Journaled(stack[i], Body[at[i]])
    BY <1>2 DEF Replayed, Journaled, Unit
  <2>2. at[i] \in 1 .. Len(Body) /\ Len(Body) \in Nat
    BY BodyTyped DEF IInv, Typed
  <2>3. \A k \in 1 .. at[i] - 1 : Journaled(stack[i], Body[k])
    BY <1>0 DEF IInv, JournalFollowsPlace
  <2>4. \A k \in 1 .. at[i] : Journaled(stack'[i], Body[k])
    <3>1. TAKE k \in 1 .. at[i]
    <3>2. k = at[i] \/ k \in 1 .. at[i] - 1
      BY <2>2
    <3>3. QED
      BY <1>0, <2>1, <2>3, <3>2
  <2>5. stamp[i] = "none" => Whole(stack'[i])
    BY <1>0 DEF IInv, JournalFollowsPlace
  <2>6. /\ pc' \in [Items -> Places] /\ at' \in [Items -> 1 .. Len(Body)]
        /\ err' \in [Items -> Errors] /\ Elsewhere(i)
        /\ pc'[i] \in {"send", "exit1"} /\ JournalFollowsPlace(i)'
    BY <1>0, <1>2, <2>4, <2>5, AdvanceMoves DEF IInv
  <2>7. Typed'
    BY <1>0, <1>2, <2>6 DEF IInv, Typed
  <2>8. QED
    BY <1>0, <1>2, <2>6, <2>7, IterationStep
<1>3. CASE Goto(i, "do") /\ UNCHANGED <<requests, acked>>
  <2>1. /\ pc' \in [Items -> Places] /\ at' \in [Items -> 1 .. Len(Body)]
        /\ err' \in [Items -> Errors] /\ Elsewhere(i)
        /\ pc'[i] = "do" /\ at'[i] = at[i]
    BY <1>3, GotoMoves DEF IInv, Places
  <2>2. JournalFollowsPlace(i)'
    BY <1>0, <2>1 DEF IInv, JournalFollowsPlace
  <2>3. Typed'
    BY <1>0, <1>3, <2>1 DEF IInv, Typed
  <2>4. QED
    BY <1>0, <1>3, <2>1, <2>2, <2>3, IterationStep
<1>4. QED
  BY <1>1, <1>2, <1>3 DEF ControlPoint

LEMMA DoStep == ASSUME IInv, NEW i \in Items, Do(i) PROVE IInv'
<1>0. /\ pc[i] = "do"
      /\ UNCHANGED <<phase, stamp, events, firstErr, requests, acked>>
  BY DEF Do, gathered, control
<1>1. PICK outcome \in Outcomes[Unit(i)] :
        LET effect == outcome \in {"ok", "partial"}
            failed == outcome \in {"fail", "partial"}
            id     == Len(stack[i]) + 1
        IN  /\ stack' = [stack EXCEPT ![i] = Append(@,
                 [unit |-> Unit(i), token |-> IF effect THEN id ELSE 0, failed |-> failed])]
            /\ IF failed THEN End(i, "failed") ELSE Advance(i)
  BY DEF Do
<1> DEFINE failed == outcome \in {"fail", "partial"}
           token == IF outcome \in {"ok", "partial"} THEN Len(stack[i]) + 1 ELSE 0
           r == [unit |-> Unit(i), token |-> token, failed |-> failed]
<1>2. stack' = [stack EXCEPT ![i] = Append(stack[i], r)]
  BY <1>1
<1>3. IF failed THEN End(i, "failed") ELSE Advance(i)
  BY <1>1
<1>4. at[i] \in 1 .. Len(Body) /\ Len(Body) \in Nat /\ stack[i] \in Seq(Receipts)
  BY BodyTyped DEF IInv, Typed
<1>5. r \in Receipts
  <2>1. Unit(i) \in Units /\ token \in Nat /\ failed \in BOOLEAN
    BY <1>4, BodyTyped DEF Unit
  <2>2. QED
    BY <2>1 DEF Receipts
<1>6. r.unit = Body[at[i]] /\ r.failed = failed
  BY DEF Unit
<1> HIDE DEF r, failed, token
<1>7. /\ stack' \in [Items -> Seq(Receipts)]
      /\ \A j \in Items \ {i} : stack'[j] = stack[j]
      /\ \A u : Journaled(stack[i], u) => Journaled(stack'[i], u)
      /\ ~failed => Journaled(stack'[i], Body[at[i]])
  <2>1. /\ Append(stack[i], r) \in Seq(Receipts)
        /\ \A u : Journaled(stack[i], u) => Journaled(Append(stack[i], r), u)
        /\ ~failed => Journaled(Append(stack[i], r), Body[at[i]])
    BY <1>4, <1>5, <1>6, JournaledGrows
  <2>2. stack'[i] = Append(stack[i], r)
    BY <1>2 DEF IInv, Typed
  <2>3. QED
    BY <1>2, <2>1, <2>2 DEF IInv, Typed
<1>8. stamp[i] = "none" => Whole(stack'[i])
  BY <1>7 DEF IInv, JournalFollowsPlace, Whole
<1>9. CASE failed
  <2>1. End(i, "failed") /\ "failed" \in Errors
    BY <1>3, <1>9 DEF Errors
  <2>2. /\ pc' \in [Items -> Places] /\ at' \in [Items -> 1 .. Len(Body)]
        /\ err' \in [Items -> Errors] /\ Elsewhere(i)
        /\ pc'[i] = "send" /\ err'[i] = "failed"
    BY <2>1, EndMoves DEF IInv
  <2>3. JournalFollowsPlace(i)'
    BY <1>0, <1>8, <2>2 DEF JournalFollowsPlace
  <2>4. Typed'
    BY <1>0, <1>7, <2>2 DEF IInv, Typed
  <2>5. QED
    BY <1>0, <1>7, <2>2, <2>3, <2>4, IterationStep
<1>10. CASE ~failed
  <2>1. Advance(i)
    BY <1>3, <1>10
  <2>2. \A k \in 1 .. at[i] : Journaled(stack'[i], Body[k])
    <3>1. TAKE k \in 1 .. at[i]
    <3>2. k = at[i] \/ k \in 1 .. at[i] - 1
      BY <1>4
    <3>3. k \in 1 .. at[i] - 1 => Journaled(stack[i], Body[k])
      BY <1>0 DEF IInv, JournalFollowsPlace
    <3>4. QED
      BY <1>7, <1>10, <3>2, <3>3
  <2>3. /\ pc' \in [Items -> Places] /\ at' \in [Items -> 1 .. Len(Body)]
        /\ err' \in [Items -> Errors] /\ Elsewhere(i)
        /\ pc'[i] \in {"send", "exit1"} /\ JournalFollowsPlace(i)'
    BY <1>0, <1>8, <2>1, <2>2, AdvanceMoves DEF IInv
  <2>4. Typed'
    BY <1>0, <1>7, <2>3 DEF IInv, Typed
  <2>5. QED
    BY <1>0, <1>7, <2>3, <2>4, IterationStep
<1>11. QED
  BY <1>9, <1>10

-----------------------------------------------------------------------------
(* The completion channel.                                                 *)
LEMMA SendStep == ASSUME IInv, NEW i \in Items, Send(i) PROVE IInv'
<1>1. /\ pc[i] = "send" /\ events' = Append(events, i) /\ pc' = [pc EXCEPT ![i] = "sent"]
      /\ UNCHANGED <<phase, at, err, stack, stamp, firstErr, requests, acked>>
  BY DEF Send, gathered, control
<1>2. /\ pc'[i] = "sent" /\ \A j \in Items \ {i} : pc'[j] = pc[j]
      /\ events \in Seq(Items) /\ pc' \in [Items -> Places]
  BY <1>1 DEF IInv, Typed, Places
<1>3. Typed'
  BY <1>1, <1>2 DEF IInv, Typed
<1>4. \A j \in Items : InFlight(j)' <=> InFlight(j) \/ j = i
  <2>1. /\ \A n \in DOMAIN events : n \in DOMAIN events' /\ events'[n] = events[n]
        /\ Len(events) + 1 \in DOMAIN events' /\ events'[Len(events) + 1] = i
        /\ \A n \in DOMAIN events' : n \in DOMAIN events \/ n = Len(events) + 1
    BY <1>1, <1>2
  <2>2. QED
    BY <2>1 DEF InFlight
<1>5. phase = "gathering"
  BY <1>1 DEF IInv, Settled
<1>6. Settled'
  BY <1>1, <1>5 DEF Settled
<1>7. AckLeavesError'
  BY <1>1, <1>2 DEF IInv, AckLeavesError
<1>8. ASSUME NEW j \in Items
      PROVE  JournalFollowsPlace(j)' /\ ErrorArrives(j)'
  <2>1. ErrorArrives(j)'
    BY <1>1, <1>2, <1>4 DEF IInv, ErrorArrives
  <2>2. JournalFollowsPlace(j)'
    BY <1>1, <1>2 DEF IInv, JournalFollowsPlace
  <2>3. QED
    BY <2>1, <2>2
<1>9. QED
  BY <1>3, <1>6, <1>7, <1>8 DEF IInv

LEMMA CollectStep == ASSUME IInv, Collect PROVE IInv'
<1>1. /\ phase = "gathering" /\ events # <<>> /\ events' = Tail(events)
      /\ firstErr' = FirstError(firstErr, err[Head(events)])
      /\ UNCHANGED <<phase, pc, at, err, stack, stamp, requests, acked>>
  BY DEF Collect, iterations, gathered, control
<1>2. events \in Seq(Items) /\ Head(events) \in Items /\ events' \in Seq(Items)
  BY <1>1 DEF IInv, Typed
<1>3. /\ firstErr' \in Errors
      /\ firstErr # "none" => firstErr' # "none"
      /\ err[Head(events)] # "none" => firstErr' # "none"
  BY <1>1, <1>2 DEF IInv, Typed, FirstError
<1>4. Typed'
  BY <1>1, <1>2, <1>3 DEF IInv, Typed
<1>5. \A j \in Items : /\ InFlight(j)' => InFlight(j)
                       /\ InFlight(j) => InFlight(j)' \/ j = Head(events)
  <2>1. /\ Head(events) = events[1] /\ Len(events) \in Nat
        /\ DOMAIN events = 1 .. Len(events)
    BY <1>1, <1>2
  <2>2. Len(events') = Len(events) - 1 /\ DOMAIN events' = 1 .. Len(events) - 1
    BY <1>1, <1>2
  <2>3. \A n \in 1 .. Len(events) - 1 : events'[n] = events[n + 1]
    BY <1>1, <1>2
  <2>4. ASSUME NEW j \in Items, InFlight(j)
        PROVE  InFlight(j)' \/ j = Head(events)
    <3>1. PICK n \in 1 .. Len(events) : events[n] = j
      BY <2>1, <2>4 DEF InFlight
    <3>2. CASE n = 1
      BY <2>1, <3>1, <3>2
    <3>3. CASE n # 1
      <4>1. n - 1 \in 1 .. Len(events) - 1 /\ (n - 1) + 1 = n
        BY <2>1, <3>3
      <4>2. events'[n - 1] = j
        BY <2>3, <3>1, <4>1
      <4>3. QED
        BY <2>2, <4>1, <4>2 DEF InFlight
    <3>4. QED
      BY <3>2, <3>3
  <2>5. ASSUME NEW j \in Items, InFlight(j)'
        PROVE  InFlight(j)
    <3>1. PICK n \in 1 .. Len(events) - 1 : events'[n] = j
      BY <2>2, <2>5 DEF InFlight
    <3>2. n + 1 \in 1 .. Len(events) /\ events[n + 1] = j
      BY <2>1, <2>3, <3>1
    <3>3. QED
      BY <2>1, <3>2 DEF InFlight
  <2>6. QED
    BY <2>4, <2>5
<1>6. Settled' /\ AckLeavesError'
  BY <1>1, <1>3 DEF IInv, Settled, AckLeavesError
<1>7. ASSUME NEW j \in Items
      PROVE  JournalFollowsPlace(j)' /\ ErrorArrives(j)'
  <2>1. ErrorArrives(j)'
    BY <1>1, <1>3, <1>5 DEF IInv, ErrorArrives
  <2>2. JournalFollowsPlace(j)'
    BY <1>1 DEF IInv, JournalFollowsPlace
  <2>3. QED
    BY <2>1, <2>2
<1>8. QED
  BY <1>4, <1>6, <1>7 DEF IInv

-----------------------------------------------------------------------------
(* The gather as a whole.                                                  *)
LEMMA ReturnStep == ASSUME IInv, Return PROVE IInv'
<1>1. /\ \A j \in Items : pc[j] \in {"replayed", "sent"}
      /\ events = <<>> /\ phase' = "returned"
      /\ stamp' = [j \in Items |-> IF pc[j] = "sent" THEN err[j] ELSE stamp[j]]
      /\ UNCHANGED <<pc, at, err, stack, events, firstErr, requests, acked>>
  BY DEF Return, iterations, control
<1>2. Typed'
  BY <1>1 DEF IInv, Typed
<1>3. Settled' /\ AckLeavesError'
  BY <1>1 DEF IInv, Settled, AckLeavesError
<1>4. ASSUME NEW j \in Items
      PROVE  JournalFollowsPlace(j)' /\ ErrorArrives(j)'
  <2>1. ErrorArrives(j)'
    BY <1>1 DEF IInv, ErrorArrives, InFlight
  <2>2. JournalFollowsPlace(j)'
    BY <1>1 DEF IInv, JournalFollowsPlace
  <2>3. QED
    BY <2>1, <2>2
<1>5. QED
  BY <1>2, <1>3, <1>4 DEF IInv

LEMMA EnterStep ==
  ASSUME IInv, phase # "gathering", Enter, requests' \in Seq(Commands)
  PROVE  IInv'
<1>1. /\ phase' = "gathering" /\ events = <<>>
      /\ pc' = [j \in Items |-> IF Classify(j) = "replay" THEN "replayed" ELSE "waiting"]
      /\ at' = [j \in Items |-> 1] /\ err' = [j \in Items |-> "none"]
      /\ stack' = [j \in Items |-> IF Classify(j) = "fresh" THEN <<>> ELSE stack[j]]
      /\ firstErr' = "none" /\ acked' = {} /\ UNCHANGED <<stamp, events>>
  BY DEF Enter, gathered, IInv, Settled
<1>2. Typed'
  <2>1. 1 \in 1 .. Len(Body) /\ "none" \in Errors /\ <<>> \in Seq(Receipts)
    BY BodyTyped DEF Errors
  <2>2. QED
    BY <1>1, <2>1 DEF IInv, Typed, Places
<1>3. Settled' /\ AckLeavesError'
  BY <1>1 DEF Settled, AckLeavesError
<1>4. ASSUME NEW j \in Items
      PROVE  JournalFollowsPlace(j)' /\ ErrorArrives(j)'
  <2>1. ErrorArrives(j)'
    BY <1>1 DEF ErrorArrives, InFlight
  <2>2. stamp[j] = "none" => Classify(j) = "replay" /\ stack'[j] = stack[j]
    BY <1>1 DEF Classify
  <2>3. Classify(j) = "replay" => stamp[j] = "none"
    BY DEF Classify
  <2>4. JournalFollowsPlace(j)'
    BY <1>1, <2>2, <2>3 DEF IInv, JournalFollowsPlace
  <2>5. QED
    BY <2>1, <2>4
<1>5. QED
  BY <1>2, <1>3, <1>4 DEF IInv

(* Steps that leave the iterations and the channel alone.                  *)
LEMMA ElsewhereStep ==
  ASSUME IInv, UNCHANGED <<pc, at, err, stack, stamp, events, firstErr, acked>>,
         requests' \in Seq(Commands),
         phase' = phase \/ (phase # "gathering" /\ (phase' = "completed" => firstErr = "none"))
  PROVE  IInv'
<1>1. Typed' /\ AckLeavesError' /\ Settled'
  BY DEF IInv, Typed, AckLeavesError, Settled
<1>2. \A j \in Items : JournalFollowsPlace(j)' /\ ErrorArrives(j)'
  BY DEF IInv, JournalFollowsPlace, ErrorArrives, InFlight
<1>3. QED
  BY <1>1, <1>2 DEF IInv

LEMMA InvStep == IInv /\ [Next]_vars => IInv'
<1> SUFFICES ASSUME IInv, [Next]_vars
             PROVE  IInv'
  OBVIOUS
<1>0. requests \in Seq(Commands)
  BY DEF IInv, Typed
<1>1. ASSUME NEW command \in Commands, Request(command)
      PROVE  IInv'
  BY <1>0, <1>1, ElsewhereStep DEF Request, iterations, gathered
<1>2. CASE Cancel
  BY <1>0, <1>2, ElsewhereStep DEF Cancel, iterations, gathered
<1>3. CASE Resume
  <2>1. phase # "gathering" /\ Enter /\ requests' \in Seq(Commands)
    <3>1. phase = "paused" /\ Enter /\ requests' \in {requests, <<>>} /\ <<>> \in Seq(Commands)
      BY <1>3 DEF Resume
    <3>2. QED
      BY <1>0, <3>1
  <2>2. QED
    BY <2>1, EnterStep
<1>4. CASE Dispatch
  BY <1>4, SpawnStep, CollectStep, ReturnStep DEF Dispatch
<1>5. CASE Adjudicate
  <2>1. CASE Complete
    BY <1>0, <2>1, ElsewhereStep DEF Complete, Ends, iterations, gathered, control
  <2>2. CASE Park
    BY <1>0, <2>2, ElsewhereStep DEF Park, Ends, iterations, gathered, control
  <2>3. CASE Retry
    BY <1>0, <2>3, EnterStep DEF Retry, control
  <2>4. CASE Rollback
    BY <1>0, <2>4, ElsewhereStep DEF Rollback, Ends, iterations, gathered, control
  <2>5. QED
    BY <1>5, <2>1, <2>2, <2>3, <2>4 DEF Adjudicate
<1>6. CASE Unwind
  <2>1. CASE Compensate
    BY <1>0, <2>1, ElsewhereStep DEF Compensate, iterations, gathered, control
  <2>2. CASE NextStack
    BY <1>0, <2>2, ElsewhereStep DEF NextStack, iterations, gathered, control
  <2>3. CASE Land
    BY <1>0, <2>3, ElsewhereStep DEF Land, Ends, iterations, gathered, control
  <2>4. QED
    BY <1>6, <2>1, <2>2, <2>3 DEF Unwind
<1>7. ASSUME NEW i \in Items, Iterate(i)
      PROVE  IInv'
  BY <1>7, Exit1Step, ControlPointStep, DoStep, SendStep DEF Iterate
<1>8. CASE UNCHANGED vars
  BY <1>0, <1>8, ElsewhereStep DEF vars, iterations, gathered, control
<1>9. QED
  BY <1>1, <1>2, <1>3, <1>4, <1>5, <1>6, <1>7, <1>8 DEF Next, Progress

-----------------------------------------------------------------------------
LEMMA IInvHolds == Spec => []IInv
<1>1. QED
  BY InitHolds, InvStep, PTL DEF Spec

(* Whatever is paused, resumed, retried, cancelled or replayed in between, *)
(* a gather that reports success did the whole body for every item: what   *)
(* classifyGatherRuns skips was whole when it was stamped.                 *)
THEOREM CompletesWhole == Spec => []CompletedWhole
<1>1. IInv => CompletedWhole
  <2> SUFFICES ASSUME IInv, phase = "completed", NEW i \in Items
               PROVE  Whole(stack[i])
    BY DEF CompletedWhole, Whole, Journaled
  <2>1. pc[i] \in {"replayed", "sent"} /\ firstErr = "none" /\ ~InFlight(i)
    BY DEF IInv, Settled, InFlight
  <2>2. pc[i] = "sent" => err[i] = "none"
    BY <2>1 DEF IInv, ErrorArrives
  <2>3. QED
    BY <2>1, <2>2 DEF IInv, JournalFollowsPlace
<1>2. QED
  BY <1>1, IInvHolds, PTL

(* A command one iteration drained for all of them reaches firstErr before *)
(* the gather returns, in whatever order the others finish.                *)
THEOREM AckEndsGather == Spec => []AckEndsPass
<1>1. IInv => AckEndsPass
  <2> SUFFICES ASSUME IInv, phase = "completed", acked # {}
               PROVE  FALSE
    BY DEF AckEndsPass
  <2>1. firstErr = "none" /\ \A i \in Items : pc[i] \in {"replayed", "sent"} /\ ~InFlight(i)
    BY DEF IInv, Settled, InFlight
  <2>2. PICK i \in Items : pc[i] = "sent" /\ err[i] # "none"
    BY <2>1 DEF IInv, AckLeavesError
  <2>3. QED
    BY <2>1, <2>2 DEF IInv, ErrorArrives
<1>2. QED
  BY <1>1, IInvHolds, PTL

-----------------------------------------------------------------------------
(* Each iteration is a saga.  Where the iterations' stacks are once the    *)
(* gather has returned, what a stack says of the effects that stand, and   *)
(* how far an unwind has come.                                             *)
NestedOnce == \A m, n \in DOMAIN nested : nested[m] = nested[n] => m = n
StampedNested == \A i \in Items : stamp[i] # "unrun" <=> \E n \in DOMAIN nested : nested[n] = i
AllStamped == phase # "gathering" => \A i \in Items : stamp[i] # "unrun"
Nesting == nested \in Seq(Items) /\ NestedOnce /\ StampedNested /\ AllStamped

(* A completed receipt is the last one of its unit, and an effect stands   *)
(* under the place of the receipt that answers for it.                     *)
Tokens(log) == \A n \in DOMAIN log : log[n].token \in {0, n}
CompletedLast(log) ==
  \A m, n \in DOMAIN log : ~log[m].failed /\ log[n].unit = log[m].unit => n <= m
Answers(log, e) ==
  /\ e \in Effects /\ e.id \in DOMAIN log
  /\ log[e.id].unit = e.unit /\ log[e.id].token = e.id /\ (log[e.id].failed <=> ~e.whole)
Answered(log, effects) == \A e \in effects : Answers(log, e)
NotDoneYet(i) == pc[i] = "do" => ~Journaled(stack[i], Unit(i))
Booked(i) == /\ Tokens(stack[i]) /\ CompletedLast(stack[i])
             /\ Answered(stack[i], outstanding[i]) /\ NotDoneYet(i)

Untried(i) == phase \notin {"unwinding", "landed"} => tried[i] = {}
AllTried(i) == outstanding[i] \subseteq tried[i]
CursorTyped == cursor.stack \in 0 .. Len(nested) /\ cursor.entry \in Nat
UnwoundTo(n) ==
  LET i == nested[n]
  IN /\ n > cursor.stack => AllTried(i)
     /\ n < cursor.stack => tried[i] = {}
     /\ n = cursor.stack =>
          /\ cursor.entry <= Len(stack[i])
          /\ \A e \in tried[i] : e.id > cursor.entry
          /\ \A e \in outstanding[i] : e.id > cursor.entry => e \in tried[i]
Unwound == phase = "unwinding" =>
  /\ CursorTyped /\ (cursor.stack = 0 => cursor.entry = 0)
  /\ \A n \in DOMAIN nested : UnwoundTo(n)

SagaTyped == /\ phase \in Phases
             /\ outstanding \in [Items -> SUBSET Effects] /\ tried \in [Items -> SUBSET Effects]
             /\ cursor \in [stack : Nat, entry : Nat]
SInv == SagaTyped /\ Nesting /\ Unwound /\ \A i \in Items : Booked(i) /\ Untried(i)

(* The abstract step of one iteration, and one that leaves it alone.       *)
Saga(i) == item(i)!Next \/ UNCHANGED item(i)!vars
Sagas == \A i \in Items : Saga(i)

LEMMA Modes ==
  ASSUME NEW i \in Items
  PROVE  /\ phase \in {"gathering", "returned"} => ModeOf(i) = "running"
         /\ phase = "completed" => ModeOf(i) = "done"
         /\ phase = "paused" => ModeOf(i) = "paused"
         /\ phase = "unwinding" => ModeOf(i) = "unwinding"
         /\ phase = "landed" => ModeOf(i) = IF outstanding[i] = {} THEN "clean" ELSE "dirty"
BY DEF ModeOf

LEMMA ModesNext ==
  ASSUME NEW i \in Items
  PROVE  /\ phase' \in {"gathering", "returned"} => ModeOf(i)' = "running"
         /\ phase' = "completed" => ModeOf(i)' = "done"
         /\ phase' = "paused" => ModeOf(i)' = "paused"
         /\ phase' = "unwinding" => ModeOf(i)' = "unwinding"
         /\ phase' = "landed" => ModeOf(i)' = IF outstanding'[i] = {} THEN "clean" ELSE "dirty"
BY DEF ModeOf

LEMMA ModeKept ==
  ASSUME NEW i \in Items, phase' = phase, outstanding' = outstanding
  PROVE  ModeOf(i)' = ModeOf(i)
BY DEF ModeOf

LEMMA AloneIsSaga ==
  ASSUME NEW i \in Items, ModeOf(i)' = ModeOf(i), outstanding'[i] = outstanding[i],
         tried'[i] = tried[i]
  PROVE  Saga(i)
BY DEF Saga, item!vars

LEMMA StutterSagas ==
  ASSUME phase' = phase \/ {phase, phase'} \subseteq {"gathering", "returned"},
         UNCHANGED <<outstanding, tried>>
  PROVE  Sagas
<1> SUFFICES ASSUME NEW i \in Items PROVE Saga(i)
  BY DEF Sagas
<1>1. CASE phase' = phase
  BY <1>1, ModeKept, AloneIsSaga
<1>2. CASE {phase, phase'} \subseteq {"gathering", "returned"}
  <2>1. ModeOf(i) = "running" /\ ModeOf(i)' = "running"
    BY <1>2, Modes, ModesNext
  <2>2. QED
    BY <2>1, AloneIsSaga
<1>3. QED
  BY <1>1, <1>2

LEMMA InitSagas == Init => SInv /\ \A i \in Items : item(i)!Init
<1> SUFFICES ASSUME Init PROVE SInv /\ \A i \in Items : item(i)!Init
  OBVIOUS
<1>1. SagaTyped /\ Unwound
  BY DEF Init, SagaTyped, Phases, Unwound
<1>2. Nesting
  BY DEF Init, Nesting, NestedOnce, StampedNested, AllStamped
<1>3. ASSUME NEW i \in Items PROVE Booked(i) /\ Untried(i)
  BY DEF Init, Booked, Untried, Tokens, CompletedLast, Answered, NotDoneYet
<1>4. ASSUME NEW i \in Items PROVE item(i)!Init
  BY Modes DEF Init, item!Init
<1>5. QED
  BY <1>1, <1>2, <1>3, <1>4 DEF SInv

(* What is standing is where the undo of its item will look for it.        *)
LEMMA SInvNests == IInv /\ SInv => EffectsNested
<1> SUFFICES ASSUME SInv, NEW i \in Items, NEW e \in outstanding[i]
             PROVE  /\ \E n \in DOMAIN stack[i] : stack[i][n].token = e.id
                    /\ phase # "gathering" => i \in Range(nested)
  BY DEF EffectsNested
<1>1. \E n \in DOMAIN stack[i] : stack[i][n].token = e.id
  <2>1. Answers(stack[i], e)
    BY DEF SInv, Booked, Answered
  <2>2. QED
    BY <2>1 DEF Answers
<1>2. phase # "gathering" => i \in Range(nested)
  BY DEF SInv, Nesting, AllStamped, StampedNested, Range
<1>3. QED
  BY <1>1, <1>2

-----------------------------------------------------------------------------
(* Steps that move no effect and no receipt.                               *)
LEMMA QuietStep ==
  ASSUME SInv, UNCHANGED <<phase, stack, stamp, nested, outstanding, cursor, tried>>,
         \A i \in Items : NotDoneYet(i)'
  PROVE  SInv' /\ Sagas
<1>1. SagaTyped' /\ Nesting' /\ Unwound'
  BY DEF SInv, SagaTyped, Nesting, NestedOnce, StampedNested, AllStamped, Unwound, CursorTyped,
         UnwoundTo, AllTried
<1>2. ASSUME NEW i \in Items PROVE Booked(i)' /\ Untried(i)'
  BY DEF SInv, Booked, Untried
<1>3. QED
  BY <1>1, <1>2, StutterSagas DEF SInv

LEMMA NothingToDo ==
  ASSUME SInv, NEW i \in Items, UNCHANGED stack, pc'[i] = "do" => pc[i] = "do" /\ at'[i] = at[i]
  PROVE  NotDoneYet(i)'
BY DEF SInv, Booked, NotDoneYet, Unit

LEMMA PlacesQuiet ==
  ASSUME IInv, SInv, NEW i \in Items, Exit1(i) \/ Spawn(i) \/ Send(i)
  PROVE  SInv' /\ Sagas
<1>1. UNCHANGED <<phase, stack, stamp, nested, outstanding, cursor, tried>>
  BY DEF Exit1, Spawn, Send, gathered, undo
<1>2. PICK place \in Places \ {"do"} : pc' = [pc EXCEPT ![i] = place] /\ at' = at
  BY DEF Exit1, Spawn, Send, Goto, End, Places
<1>3. ASSUME NEW j \in Items PROVE NotDoneYet(j)'
  BY <1>1, <1>2, NothingToDo DEF IInv, Typed
<1>4. QED
  BY <1>1, <1>3, QuietStep

(* The replay guard: a unit is dispatched only if it is not journaled as   *)
(* completed, for then its newest receipt is the completed one.            *)
LEMMA CompletedReplays ==
  ASSUME NEW i \in Items, CompletedLast(stack[i]), Journaled(stack[i], Unit(i))
  PROVE  Replayed(i)
BY DEF CompletedLast, Journaled, Replayed

LEMMA ControlPointQuiet ==
  ASSUME IInv, SInv, NEW i \in Items, ControlPoint(i)
  PROVE  SInv' /\ Sagas
<1>1. UNCHANGED <<phase, stack, stamp, nested, outstanding, cursor, tried>>
  BY DEF ControlPoint, gathered, undo
<1>2. /\ \A j \in Items \ {i} : pc'[j] = pc[j] /\ at'[j] = at[j]
      /\ pc'[i] = "do" => ~Replayed(i) /\ at'[i] = at[i]
  BY DEF ControlPoint, End, Goto, Advance, IInv, Typed
<1>3. ASSUME NEW j \in Items PROVE NotDoneYet(j)'
  <2>1. CASE j = i
    BY <1>1, <1>2, <2>1, CompletedReplays DEF SInv, Booked, NotDoneYet, Unit
  <2>2. CASE j # i
    BY <1>1, <1>2, <2>2, NothingToDo
  <2>3. QED
    BY <2>1, <2>2
<1>4. QED
  BY <1>1, <1>3, QuietStep

(* Do: the one step that performs an effect.                               *)
LEMMA BooksGrow ==
  ASSUME NEW log \in Seq(Receipts), NEW r \in Receipts, NEW effects,
         Tokens(log), CompletedLast(log), Answered(log, effects),
         r.token \in {0, Len(log) + 1}, ~Journaled(log, r.unit)
  PROVE  /\ Tokens(Append(log, r)) /\ CompletedLast(Append(log, r))
         /\ Answered(Append(log, r), effects)
<1> DEFINE longer == Append(log, r)
<1>1. /\ DOMAIN longer = 1 .. Len(log) + 1 /\ DOMAIN log = 1 .. Len(log) /\ Len(log) \in Nat
      /\ \A n \in 1 .. Len(log) : longer[n] = log[n]
      /\ longer[Len(log) + 1] = r
  OBVIOUS
<1> HIDE DEF longer
<1>2. \A n \in DOMAIN longer : n \in DOMAIN log \/ n = Len(log) + 1
  BY <1>1
<1>3. Tokens(longer)
  BY <1>1, <1>2 DEF Tokens
<1>4. CompletedLast(longer)
  <2>1. SUFFICES ASSUME NEW m \in DOMAIN longer, NEW n \in DOMAIN longer, ~longer[m].failed,
                        longer[n].unit = longer[m].unit
                 PROVE  n <= m
    BY DEF CompletedLast
  <2>2. CASE m \in DOMAIN log /\ n \in DOMAIN log
    BY <1>1, <2>1, <2>2 DEF CompletedLast
  <2>3. CASE m \in DOMAIN log /\ n = Len(log) + 1
    BY <1>1, <2>1, <2>3 DEF Journaled
  <2>4. CASE m = Len(log) + 1
    BY <1>1, <2>4
  <2>5. QED
    BY <1>2, <2>2, <2>3, <2>4
<1>5. Answered(longer, effects)
  <2>1. ASSUME NEW e \in effects PROVE Answers(longer, e)
    <3>1. Answers(log, e) /\ e.id \in 1 .. Len(log)
      BY <1>1 DEF Answered, Answers
    <3>2. longer[e.id] = log[e.id] /\ e.id \in DOMAIN longer
      BY <1>1, <3>1
    <3>3. QED
      BY <3>1, <3>2 DEF Answers
  <2>2. QED
    BY <2>1 DEF Answered
<1>6. QED
  BY <1>3, <1>4, <1>5 DEF longer

LEMMA DoPerforms ==
  ASSUME IInv, SInv, NEW i \in Items, Do(i)
  PROVE  SInv' /\ Sagas
<1> DEFINE log == stack[i]
           out == outstanding[i]
           id == Len(log) + 1
<1>0. /\ pc[i] = "do" /\ phase = "gathering" /\ log \in Seq(Receipts) /\ id \in Nat
      /\ out \subseteq Effects /\ tried[i] = {} /\ UNCHANGED <<phase, stamp, nested, cursor, tried>>
  <2>1. pc[i] = "do" /\ UNCHANGED <<phase, stamp, nested, cursor, tried>>
    BY DEF Do, gathered, undo
  <2>2. phase = "gathering"
    BY <2>1 DEF IInv, Settled
  <2>3. log \in Seq(Receipts) /\ id \in Nat
    BY DEF IInv, Typed
  <2>4. out \subseteq Effects /\ tried[i] = {}
    BY <2>2 DEF SInv, SagaTyped, Untried
  <2>5. QED
    BY <2>1, <2>2, <2>3, <2>4
<1>1. PICK outcome \in Outcomes[Unit(i)] :
        LET effect == outcome \in {"ok", "partial"}
            failed == outcome \in {"fail", "partial"}
        IN  /\ outstanding' = IF effect
                 THEN [outstanding EXCEPT ![i] = out \cup
                         {[id |-> id, unit |-> Unit(i), whole |-> ~failed]}]
                 ELSE outstanding
            /\ stack' = [stack EXCEPT ![i] = Append(log,
                 [unit |-> Unit(i), token |-> IF effect THEN id ELSE 0, failed |-> failed])]
            /\ IF failed THEN End(i, "failed") ELSE Advance(i)
  BY DEF Do
<1> DEFINE effect == outcome \in {"ok", "partial"}
           failed == outcome \in {"fail", "partial"}
           token == IF effect THEN id ELSE 0
           r == [unit |-> Unit(i), token |-> token, failed |-> failed]
           e == [id |-> id, unit |-> Unit(i), whole |-> ~failed]
           out2 == IF effect THEN out \cup {e} ELSE out
<1>2. /\ stack' = [stack EXCEPT ![i] = Append(log, r)]
      /\ outstanding' = [outstanding EXCEPT ![i] = out2]
  <2>1. outstanding' = IF effect THEN [outstanding EXCEPT ![i] = out \cup {e}] ELSE outstanding
    BY <1>1
  <2>2. outstanding = [outstanding EXCEPT ![i] = out]
    BY DEF SInv, SagaTyped
  <2>3. QED
    BY <1>1, <2>1, <2>2
<1>3. Unit(i) \in Units
  BY BodyTyped DEF IInv, Typed, Unit
<1>4. /\ r \in Receipts /\ r.unit = Unit(i) /\ r.token = token /\ r.failed = failed
      /\ e \in Effects /\ e.id = id /\ e.unit = Unit(i) /\ e.whole = ~failed
  BY <1>0, <1>3 DEF Receipts, Effects
<1>5. /\ Tokens(log) /\ CompletedLast(log) /\ Answered(log, out) /\ ~Journaled(log, Unit(i))
  BY <1>0 DEF SInv, Booked, NotDoneYet
<1>6. Answers(Append(log, r), e) \/ ~effect
  <2>1. id \in DOMAIN Append(log, r) /\ Append(log, r)[id] = r
    BY <1>0, <1>4
  <2>2. effect => r.token = id
    BY <1>4
  <2> HIDE DEF r, e, effect, failed
  <2>3. QED
    BY <1>4, <2>1, <2>2 DEF Answers
<1>7. /\ Tokens(Append(log, r)) /\ CompletedLast(Append(log, r)) /\ Answered(Append(log, r), out)
  BY <1>0, <1>4, <1>5, BooksGrow
<1> HIDE DEF r, e, token
<1>8. Answered(Append(log, r), out2)
  BY <1>6, <1>7 DEF Answered
<1>9. out2 \subseteq Effects
  BY <1>0, <1>4
<1>10. \A j \in Items : /\ pc'[j] = "do" => j # i /\ pc[j] = "do" /\ at'[j] = at[j]
  BY <1>1 DEF End, Advance, IInv, Typed
<1>11. SagaTyped' /\ Nesting' /\ Unwound'
  <2>1. SagaTyped'
    BY <1>0, <1>2, <1>9 DEF SInv, SagaTyped
  <2>2. Nesting' /\ Unwound'
    BY <1>0 DEF SInv, Nesting, NestedOnce, StampedNested, AllStamped, Unwound
  <2>3. QED
    BY <2>1, <2>2
<1>12. ASSUME NEW j \in Items PROVE Booked(j)' /\ Untried(j)'
  <2>1. CASE j = i
    <3>1. stack'[i] = Append(log, r) /\ outstanding'[i] = out2
      BY <1>2 DEF SInv, SagaTyped, IInv, Typed
    <3>2. QED
      BY <1>0, <1>7, <1>8, <1>10, <2>1, <3>1 DEF Booked, Untried, NotDoneYet
  <2>2. CASE j # i
    <3>1. stack'[j] = stack[j] /\ outstanding'[j] = outstanding[j]
      BY <1>2, <2>2
    <3>2. QED
      BY <1>0, <1>10, <3>1 DEF SInv, Booked, Untried, NotDoneYet, Unit
  <2>3. QED
    BY <2>1, <2>2
<1>13. ASSUME NEW j \in Items PROVE Saga(j)
  <2>1. ModeOf(j) = "running" /\ ModeOf(j)' = "running"
    BY <1>0, Modes, ModesNext
  <2>2. CASE j # i
    BY <1>0, <1>2, <2>1, <2>2, AloneIsSaga
  <2>3. CASE j = i
    <3>1. outstanding'[i] = out2 /\ tried'[i] = {}
      BY <1>0, <1>2 DEF SInv, SagaTyped
    <3>2. CASE ~effect
      BY <1>0, <2>1, <2>3, <3>1, <3>2, AloneIsSaga
    <3>3. CASE effect
      <4>1. \A f \in out : f.id \in 1 .. Len(log) /\ log[f.id].unit = f.unit
                            /\ (log[f.id].failed <=> ~f.whole)
        BY <1>0, <1>5 DEF Answered, Answers
      <4>2. \A f \in out : e.id > f.id /\ ~(f.whole /\ e.unit = f.unit)
        BY <1>0, <1>4, <1>5, <4>1 DEF Journaled
      <4>3. e \in out2 \ out /\ out2 = out \cup {e}
        BY <3>3, <1>4, <4>2
      <4>4. item(i)!Perform
        BY <1>0, <1>4, <2>1, <2>3, <3>1, <4>2, <4>3
           DEF item!Perform, item!Newer, Effects, item!Effects
      <4>5. QED
        BY <2>3, <4>4 DEF Saga, item!Next
    <3>4. QED
      BY <3>2, <3>3
  <2>4. QED
    BY <2>2, <2>3
<1>14. QED
  BY <1>11, <1>12, <1>13 DEF SInv, Sagas

-----------------------------------------------------------------------------
(* The gather as a whole, again: nesting, replaying, ending, unwinding.    *)
LEMMA ReturnNests ==
  ASSUME IInv, SInv, Return
  PROVE  SInv' /\ Sagas
<1> DEFINE new == {i \in Items : Nests(i)}
<1>1. /\ phase = "gathering" /\ phase' = "returned"
      /\ \A i \in Items : pc[i] \in {"replayed", "sent"}
      /\ stamp' = [i \in Items |-> IF pc[i] = "sent" THEN err[i] ELSE stamp[i]]
      /\ UNCHANGED <<pc, at, stack, outstanding, cursor, tried>>
  BY DEF Return, iterations, undo
<1>2. PICK fresh \in InIndexOrder(new) : nested' = nested \o fresh
  BY DEF Return
<1>3. nested \in Seq(Items) /\ Len(nested) \in Nat /\ DOMAIN nested = 1 .. Len(nested)
  BY DEF SInv, Nesting
<1>4. PICK size \in Nat : fresh \in [1 .. size -> new]
  <2>1. new \in SUBSET (1 .. Count) /\ Count \in Nat
    BY CountsAssumption DEF Items
  <2>2. IsFiniteSet(new)
    <3>1. IsFiniteSet(1 .. Count)
      BY <2>1, FS_Interval
    <3> HIDE DEF new
    <3>2. QED
      BY <2>1, <3>1, FS_Subset
  <2>3. Cardinality(new) \in Nat
    BY <2>2, FS_CardinalityType
  <2>4. QED
    BY <1>2, <2>3 DEF InIndexOrder
<1>5. /\ \A i \in new : \E n \in 1 .. size : fresh[n] = i
      /\ \A m, n \in 1 .. size : m < n => fresh[m] < fresh[n]
  BY <1>2, <1>4 DEF InIndexOrder, Range
<1>6. fresh \in Seq(Items) /\ Len(fresh) = size
  BY <1>4
<1>7. /\ nested' \in Seq(Items) /\ DOMAIN nested' = 1 .. Len(nested) + size
      /\ \A n \in 1 .. Len(nested) : nested'[n] = nested[n]
      /\ \A n \in 1 .. size : nested'[Len(nested) + n] = fresh[n]
  BY <1>2, <1>3, <1>6
<1>8. \A n \in DOMAIN nested' : n \in 1 .. Len(nested) \/ \E k \in 1 .. size : n = Len(nested) + k
  <2>1. TAKE n \in DOMAIN nested'
  <2>2. \/ n \in 1 .. Len(nested)
        \/ n - Len(nested) \in 1 .. size /\ n = Len(nested) + (n - Len(nested))
    BY <1>3, <1>7
  <2>3. QED
    BY <2>2
<1>9. \A i \in Items : i \in new <=> pc[i] = "sent" /\ stamp[i] = "unrun"
  BY DEF Nests
<1>10. \A i \in Items : stamp'[i] # "unrun" /\ (i \in new <=> stamp[i] = "unrun")
  BY <1>1, <1>9 DEF IInv, Typed, Errors, JournalFollowsPlace
<1> HIDE DEF new
<1>11. \A i \in Items : \E n \in DOMAIN nested' : nested'[n] = i
  <2>1. TAKE i \in Items
  <2>2. CASE i \in new
    <3>1. PICK n \in 1 .. size : fresh[n] = i
      BY <1>5, <2>2
    <3>2. Len(nested) + n \in DOMAIN nested' /\ nested'[Len(nested) + n] = i
      BY <1>3, <1>7, <3>1
    <3>3. QED
      BY <3>2
  <2>3. CASE i \notin new
    <3>1. PICK n \in 1 .. Len(nested) : nested[n] = i
      BY <1>3, <1>10, <2>3 DEF SInv, Nesting, StampedNested
    <3>2. QED
      BY <1>3, <1>7, <3>1
  <2>4. QED
    BY <2>2, <2>3
<1>12. NestedOnce'
  <2>1. \A n \in 1 .. Len(nested) : nested[n] \in Items \ new
    BY <1>3, <1>10 DEF SInv, Nesting, StampedNested
  <2>2. \A n \in 1 .. size : fresh[n] \in new
    BY <1>4
  <2>3. \A m, n \in 1 .. size : fresh[m] = fresh[n] => m = n
    <3>1. \A n \in 1 .. size : fresh[n] \in Int
      BY <1>4, <1>6, CountsAssumption DEF Items
    <3>2. QED
      BY <1>5, <3>1
  <2>4. SUFFICES ASSUME NEW m \in DOMAIN nested', NEW n \in DOMAIN nested', nested'[m] = nested'[n]
                 PROVE  m = n
    BY DEF NestedOnce
  <2>5. CASE m \in 1 .. Len(nested) /\ n \in 1 .. Len(nested)
    <3>1. nested[m] = nested[n] /\ m \in DOMAIN nested /\ n \in DOMAIN nested
      BY <1>3, <1>7, <2>4, <2>5
    <3>2. QED
      BY <3>1 DEF SInv, Nesting, NestedOnce
  <2>6. CASE m \in 1 .. Len(nested) /\ \E k \in 1 .. size : n = Len(nested) + k
    BY <1>7, <2>1, <2>2, <2>4, <2>6
  <2>7. CASE n \in 1 .. Len(nested) /\ \E k \in 1 .. size : m = Len(nested) + k
    BY <1>7, <2>1, <2>2, <2>4, <2>7
  <2>8. CASE (\E k \in 1 .. size : m = Len(nested) + k) /\ (\E k \in 1 .. size : n = Len(nested) + k)
    <3>1. PICK k \in 1 .. size : m = Len(nested) + k
      BY <2>8
    <3>2. PICK l \in 1 .. size : n = Len(nested) + l
      BY <2>8
    <3>3. fresh[k] = fresh[l]
      BY <1>7, <2>4, <3>1, <3>2
    <3>4. QED
      BY <2>3, <3>1, <3>2, <3>3
  <2>9. QED
    BY <1>8, <2>5, <2>6, <2>7, <2>8
<1>13. Nesting'
  BY <1>7, <1>10, <1>11, <1>12 DEF Nesting, StampedNested, AllStamped
<1>14. SagaTyped' /\ Unwound'
  BY <1>1 DEF SInv, SagaTyped, Phases, Unwound
<1>15. ASSUME NEW i \in Items PROVE Booked(i)' /\ Untried(i)'
  BY <1>1 DEF SInv, Booked, Untried, NotDoneYet, Unit
<1>16. Sagas
  BY <1>1, StutterSagas
<1>17. QED
  BY <1>13, <1>14, <1>15, <1>16 DEF SInv

(* Nothing of a stack is forgotten when it is entered again: all were      *)
(* stamped, so none is fresh.                                              *)
LEMMA EnterReplays ==
  ASSUME IInv, SInv, phase \in {"returned", "paused"}, Enter
  PROVE  SInv' /\ Sagas
<1>1. /\ phase' = "gathering" /\ \A i \in Items : pc'[i] # "do"
      /\ stack' = [i \in Items |-> IF Classify(i) = "fresh" THEN <<>> ELSE stack[i]]
      /\ UNCHANGED <<stamp, nested, outstanding, cursor, tried>>
  BY DEF Enter, gathered, undo
<1>2. \A i \in Items : Classify(i) # "fresh"
  BY DEF SInv, Nesting, AllStamped, Classify
<1>3. stack' = stack
  BY <1>1, <1>2 DEF IInv, Typed
<1>4. SagaTyped' /\ Nesting' /\ Unwound'
  BY <1>1 DEF SInv, SagaTyped, Phases, Nesting, NestedOnce, StampedNested, AllStamped, Unwound
<1>5. ASSUME NEW i \in Items PROVE Booked(i)' /\ Untried(i)'
  BY <1>1, <1>3 DEF SInv, Booked, Untried, NotDoneYet
<1>6. ASSUME NEW i \in Items PROVE Saga(i)
  <2>1. /\ outstanding'[i] = outstanding[i] /\ tried'[i] = tried[i] /\ ModeOf(i)' = "running"
        /\ ModeOf(i) = IF phase = "paused" THEN "paused" ELSE "running"
    BY <1>1, Modes, ModesNext
  <2>2. CASE phase = "returned"
    BY <2>1, <2>2, AloneIsSaga
  <2>3. CASE phase = "paused"
    <3>1. item(i)!Wake
      BY <2>1, <2>3 DEF item!Wake, item!Move
    <3>2. QED
      BY <3>1 DEF Saga, item!Next
  <2>4. QED
    BY <2>2, <2>3
<1>7. QED
  BY <1>4, <1>5, <1>6 DEF SInv, Sagas

(* Completing and parking; an unwind that lands has tried everything.      *)
LEMMA EndsSaga ==
  ASSUME IInv, SInv, Complete \/ Park
  PROVE  SInv' /\ Sagas
<1>1. /\ phase = "returned" /\ phase' \in {"completed", "paused"}
      /\ UNCHANGED <<pc, at, stack, stamp, nested, outstanding, cursor, tried>>
  BY DEF Complete, Park, Ends, iterations, gathered, undo
<1>2. SagaTyped' /\ Nesting' /\ Unwound'
  BY <1>1 DEF SInv, SagaTyped, Phases, Nesting, NestedOnce, StampedNested, AllStamped, Unwound
<1>3. ASSUME NEW i \in Items PROVE Booked(i)' /\ Untried(i)'
  BY <1>1 DEF SInv, Booked, Untried, NotDoneYet, Unit
<1>4. ASSUME NEW i \in Items PROVE Saga(i)
  <2>1. /\ outstanding'[i] = outstanding[i] /\ tried'[i] = tried[i] /\ ModeOf(i) = "running"
        /\ phase' = "completed" => ModeOf(i)' = "done"
        /\ phase' = "paused" => ModeOf(i)' = "paused"
    BY <1>1, Modes, ModesNext
  <2>2. item(i)!Finish \/ item(i)!Park
    BY <1>1, <2>1 DEF item!Finish, item!Park, item!Move
  <2>3. QED
    BY <2>2 DEF Saga, item!Next
<1>5. QED
  BY <1>2, <1>3, <1>4 DEF SInv, Sagas

LEMMA HeightOf ==
  ASSUME IInv, SInv, NEW n \in 0 .. Len(nested)
  PROVE  /\ Height(n) \in Nat
         /\ n = 0 => Height(n) = 0
         /\ n > 0 => n \in DOMAIN nested /\ nested[n] \in Items /\ Height(n) = Len(stack[nested[n]])
<1>1. nested \in Seq(Items) /\ n \in Nat
  BY DEF SInv, Nesting
<1>2. \A i \in Items : Len(stack[i]) \in Nat
  BY DEF IInv, Typed
<1>3. QED
  BY <1>1, <1>2 DEF Height

(* An effect that stands lies no higher than its stack.                    *)
LEMMA WithinStack ==
  ASSUME IInv, SInv, NEW i \in Items, NEW e \in outstanding[i]
  PROVE  e.id \in 1 .. Len(stack[i]) /\ stack[i][e.id].token = e.id /\ e \in Effects
<1>1. Answers(stack[i], e) /\ stack[i] \in Seq(Receipts)
  BY DEF SInv, Booked, Answered, IInv, Typed
<1>2. QED
  BY <1>1 DEF Answers

LEMMA RollbackUnwinds ==
  ASSUME IInv, SInv, Rollback
  PROVE  SInv' /\ Sagas
<1>1. /\ phase = "returned" /\ phase' = "unwinding"
      /\ cursor' = [stack |-> Len(nested), entry |-> Height(Len(nested))]
      /\ UNCHANGED <<pc, at, stack, stamp, nested, outstanding, tried>>
  BY DEF Rollback, Ends, iterations, gathered
<1>2. Len(nested) \in 0 .. Len(nested) /\ nested \in Seq(Items) /\ DOMAIN nested = 1 .. Len(nested)
  BY DEF SInv, Nesting
<1>3. \A i \in Items : tried[i] = {}
  BY <1>1 DEF SInv, Untried
<1>4. SagaTyped' /\ Nesting'
  BY <1>1, <1>2, HeightOf DEF SInv, SagaTyped, Phases, Nesting, NestedOnce, StampedNested, AllStamped
<1>5. Unwound'
  <2>1. /\ cursor'.stack = Len(nested) /\ cursor'.entry = Height(Len(nested))
        /\ cursor'.entry \in Nat /\ (Len(nested) = 0 => cursor'.entry = 0)
    BY <1>1, <1>2, HeightOf
  <2>2. ASSUME NEW n \in DOMAIN nested PROVE UnwoundTo(n)'
    <3>1. nested[n] \in Items /\ ~(n > Len(nested))
      BY <1>2, <2>2
    <3>2. n = Len(nested) => cursor'.entry = Len(stack[nested[n]])
      BY <1>2, <2>1, HeightOf
    <3>3. \A e \in outstanding[nested[n]] : ~(e.id > Len(stack[nested[n]]))
      BY <3>1, WithinStack
    <3>4. Len(stack[nested[n]]) \in Nat
      BY <3>1 DEF IInv, Typed
    <3>5. QED
      BY <1>1, <1>3, <2>1, <3>1, <3>2, <3>3, <3>4 DEF UnwoundTo
  <2>3. CursorTyped'
    BY <1>1, <1>2, <2>1 DEF CursorTyped
  <2>4. QED
    BY <1>1, <2>1, <2>2, <2>3 DEF Unwound
<1>6. ASSUME NEW i \in Items PROVE Booked(i)' /\ Untried(i)'
  BY <1>1 DEF SInv, Booked, Untried, NotDoneYet, Unit
<1>7. ASSUME NEW i \in Items PROVE Saga(i)
  <2>1. /\ outstanding'[i] = outstanding[i] /\ tried'[i] = {} /\ ModeOf(i) = "running"
        /\ ModeOf(i)' = "unwinding"
    BY <1>1, <1>3, Modes, ModesNext
  <2>2. item(i)!Unwind
    BY <2>1 DEF item!Unwind
  <2>3. QED
    BY <2>2 DEF Saga, item!Next
<1>8. QED
  BY <1>4, <1>5, <1>6, <1>7 DEF SInv, Sagas

(* One compensation: for the iteration whose stack is being unwound it     *)
(* takes back its newest untried effect, or there was none to take back.   *)
LEMMA CompensateTakesBack ==
  ASSUME IInv, SInv, Compensate
  PROVE  SInv' /\ Sagas
<1> DEFINE i == nested[cursor.stack]
           receipt == stack[i][cursor.entry]
           mine == {e \in outstanding[i] : e.id = receipt.token}
           at2 == cursor.entry - 1
<1>0. /\ phase = "unwinding" /\ cursor.entry > 0
      /\ tried' = [tried EXCEPT ![i] = tried[i] \cup mine]
      /\ \/ outstanding' = [outstanding EXCEPT ![i] = outstanding[i] \ mine]
         \/ mine # {} /\ UNCHANGED outstanding
      /\ cursor' = [cursor EXCEPT !.entry = cursor.entry - 1]
      /\ UNCHANGED <<phase, pc, at, stack, stamp, nested>>
  BY DEF Compensate, iterations, gathered
<1>1. /\ CursorTyped /\ cursor.stack > 0 /\ cursor.stack \in DOMAIN nested /\ i \in Items
      /\ \A n \in DOMAIN nested : UnwoundTo(n)
      /\ nested \in Seq(Items) /\ DOMAIN nested = 1 .. Len(nested) /\ Len(nested) \in Nat
  <2>1. CursorTyped /\ cursor.stack # 0 /\ \A n \in DOMAIN nested : UnwoundTo(n)
    BY <1>0 DEF SInv, Unwound, CursorTyped
  <2>2. nested \in Seq(Items) /\ DOMAIN nested = 1 .. Len(nested) /\ Len(nested) \in Nat
    BY DEF SInv, Nesting
  <2>3. QED
    BY <2>1, <2>2 DEF CursorTyped
<1>2. /\ cursor' = [stack |-> cursor.stack, entry |-> at2] /\ at2 \in Nat
      /\ cursor.entry \in 1 .. Len(stack[i]) /\ stack[i] \in Seq(Receipts)
      /\ \A e \in tried[i] : e.id > cursor.entry
      /\ \A e \in outstanding[i] : e.id > cursor.entry => e \in tried[i]
  <2>1. UnwoundTo(cursor.stack) /\ stack[i] \in Seq(Receipts)
    BY <1>1 DEF IInv, Typed
  <2>2. cursor.entry \in Nat \ {0} /\ cursor \in [stack : Nat, entry : Nat]
    BY <1>0, <1>1 DEF CursorTyped, SInv, SagaTyped
  <2>3. QED
    BY <1>0, <2>1, <2>2 DEF UnwoundTo
<1>3. receipt.token \in {0, cursor.entry}
  BY <1>1, <1>2 DEF SInv, Booked, Tokens
<1>4. \A e \in outstanding[i] : e.id \in 1 .. Len(stack[i]) /\ e \in Effects
                               /\ stack[i][e.id].token = e.id
  BY <1>1, WithinStack
<1>5. mine = {e \in outstanding[i] : e.id = cursor.entry}
  <2>1. ASSUME NEW e \in outstanding[i] PROVE e.id = receipt.token <=> e.id = cursor.entry
    BY <1>3, <1>4, <2>1
  <2>2. QED
    BY <2>1
<1>6. \A e, f \in mine : e = f
  <2>1. SUFFICES ASSUME NEW e \in mine, NEW f \in mine PROVE e = f
    OBVIOUS
  <2>2. /\ e \in outstanding[i] /\ f \in outstanding[i] /\ e.id = f.id
    BY <1>5
  <2>3. Answers(stack[i], e) /\ Answers(stack[i], f)
    BY <1>1, <2>2 DEF SInv, Booked, Answered
  <2>4. e.unit = f.unit /\ (e.whole <=> f.whole) /\ e \in Effects /\ f \in Effects
    BY <2>2, <2>3 DEF Answers
  <2>5. QED
    BY <2>2, <2>4 DEF Effects
<1> HIDE DEF mine, receipt
<1>7. /\ tried'[i] = tried[i] \cup mine /\ mine \subseteq outstanding[i]
      /\ \A j \in Items \ {i} : tried'[j] = tried[j] /\ outstanding'[j] = outstanding[j]
      /\ \/ outstanding'[i] = outstanding[i] \ mine
         \/ mine # {} /\ outstanding'[i] = outstanding[i]
      /\ tried' \in [Items -> SUBSET Effects] /\ outstanding' \in [Items -> SUBSET Effects]
  <2>1. mine \subseteq outstanding[i] /\ mine \subseteq Effects
    BY <1>4, <1>5
  <2>2. tried \in [Items -> SUBSET Effects] /\ outstanding \in [Items -> SUBSET Effects]
    BY DEF SInv, SagaTyped
  <2>3. QED
    BY <1>0, <1>1, <2>1, <2>2
<1>8. SagaTyped' /\ Nesting'
  BY <1>0, <1>1, <1>2, <1>7
     DEF SInv, SagaTyped, Nesting, NestedOnce, StampedNested, AllStamped, CursorTyped
<1>9. Unwound'
  <2>1. cursor'.stack = cursor.stack /\ cursor'.entry = at2
    BY <1>2
  <2>2. ASSUME NEW n \in DOMAIN nested PROVE UnwoundTo(n)'
    <3>1. UnwoundTo(n) /\ nested[n] \in Items /\ n \in Nat /\ cursor.stack \in Nat
      BY <1>1, <2>2
    <3>2. CASE n = cursor.stack
      <4>1. at2 <= Len(stack[i])
        BY <1>2
      <4>2. \A e \in tried'[i] : e.id > at2
        <5>1. \A e \in tried[i] : e.id > at2
          <6>1. \A e \in tried[i] : e.id \in Nat
            BY <1>1 DEF SInv, SagaTyped, Effects
          <6>2. QED
            BY <1>2, <6>1
        <5>2. \A e \in mine : e.id > at2
          BY <1>2, <1>5
        <5>3. QED
          BY <1>7, <5>1, <5>2
      <4>3. \A e \in outstanding'[i] : e.id > at2 => e \in tried'[i]
        BY <1>2, <1>4, <1>5, <1>7
      <4>4. QED
        BY <1>0, <2>1, <3>1, <3>2, <4>1, <4>2, <4>3 DEF UnwoundTo
    <3>3. CASE n # cursor.stack
      <4>1. nested[n] # i
        BY <1>1, <3>3 DEF SInv, Nesting, NestedOnce
      <4>2. outstanding'[nested[n]] = outstanding[nested[n]] /\ tried'[nested[n]] = tried[nested[n]]
        BY <1>7, <3>1, <4>1
      <4>3. QED
        BY <1>0, <2>1, <3>1, <3>3, <4>2 DEF UnwoundTo, AllTried
    <3>4. QED
      BY <3>2, <3>3
  <2>3. CursorTyped' /\ (cursor'.stack = 0 => cursor'.entry = 0)
    BY <1>0, <1>1, <1>2, <2>1 DEF CursorTyped
  <2>4. QED
    BY <1>0, <2>2, <2>3 DEF Unwound
<1>10. ASSUME NEW j \in Items PROVE Booked(j)' /\ Untried(j)'
  <2>1. outstanding'[j] \subseteq outstanding[j]
    BY <1>7
  <2>2. QED
    BY <1>0, <2>1 DEF SInv, Booked, Untried, NotDoneYet, Unit, Answered
<1>11. ASSUME NEW j \in Items PROVE Saga(j)
  <2>1. ModeOf(j) = "unwinding" /\ ModeOf(j)' = "unwinding"
    BY <1>0, Modes, ModesNext
  <2>2. CASE j # i
    BY <1>7, <2>1, <2>2, AloneIsSaga
  <2>3. CASE j = i /\ mine = {}
    <3>1. tried'[i] = tried[i] /\ outstanding'[i] = outstanding[i]
      BY <1>7, <2>3
    <3>2. QED
      BY <2>1, <2>3, <3>1, AloneIsSaga
  <2>4. CASE j = i /\ mine # {}
    <3>1. PICK e \in mine : mine = {e}
      BY <1>6, <2>4
    <3>2. e \in outstanding[i] /\ e.id = cursor.entry /\ e \notin tried[i]
      BY <1>2, <1>5, <3>1
    <3>3. \A f \in outstanding[i] : f \notin tried[i] /\ f # e => e.id > f.id
      <4>1. ASSUME NEW f \in outstanding[i], f \notin tried[i], f # e PROVE e.id > f.id
        <5>1. ~(f.id > cursor.entry) /\ f.id \in Nat /\ cursor.entry \in Nat
          BY <1>2, <1>4, <4>1
        <5>2. f.id # cursor.entry
          BY <1>5, <3>1, <4>1
        <5>3. QED
          BY <3>2, <5>1, <5>2
      <4>2. QED
        BY <4>1
    <3>4. \/ /\ outstanding'[j] = outstanding[j] \ {e}
             /\ tried'[j] \cap outstanding'[j] = tried[j] \cap outstanding[j]
          \/ /\ outstanding'[j] = outstanding[j]
             /\ tried'[j] \cap outstanding'[j] = (tried[j] \cap outstanding[j]) \cup {e}
      BY <1>7, <2>4, <3>1, <3>2
    <3>5. e \in outstanding[j] /\ e \notin tried[j]
          /\ \A f \in outstanding[j] : f \notin tried[j] /\ f # e => e.id > f.id
      BY <2>4, <3>2, <3>3
    <3>6. item(j)!TakeBack(e)
      BY <2>1, <3>4, <3>5 DEF item!TakeBack, item!Newest, item!Newer
    <3>7. QED
      BY <3>5, <3>6 DEF Saga, item!Next
  <2>5. QED
    BY <2>2, <2>3, <2>4
<1>12. QED
  BY <1>8, <1>9, <1>10, <1>11 DEF SInv, Sagas

LEMMA NextStackQuiet ==
  ASSUME IInv, SInv, NextStack
  PROVE  SInv' /\ Sagas
<1> DEFINE below == cursor.stack - 1
<1>1. /\ phase = "unwinding" /\ cursor.entry = 0 /\ cursor.stack > 0
      /\ cursor' = [stack |-> below, entry |-> Height(below)]
      /\ UNCHANGED <<phase, pc, at, stack, stamp, nested, outstanding, tried>>
  BY DEF NextStack, iterations, gathered
<1>2. /\ nested \in Seq(Items) /\ DOMAIN nested = 1 .. Len(nested)
      /\ cursor.stack \in 1 .. Len(nested) /\ \A n \in DOMAIN nested : UnwoundTo(n)
  <2>1. nested \in Seq(Items) /\ CursorTyped /\ \A n \in DOMAIN nested : UnwoundTo(n)
    BY <1>1 DEF SInv, Nesting, Unwound
  <2>2. QED
    BY <1>1, <2>1 DEF CursorTyped
<1>3. below \in 0 .. Len(nested)
  BY <1>2
<1>4. /\ cursor'.stack = below /\ cursor'.entry = Height(below) /\ Height(below) \in Nat
      /\ below = 0 => cursor'.entry = 0
      /\ below > 0 => cursor'.entry = Len(stack[nested[below]])
  BY <1>1, <1>3, HeightOf
<1>5. SagaTyped' /\ Nesting'
  BY <1>1, <1>3, <1>4 DEF SInv, SagaTyped, Nesting, NestedOnce, StampedNested, AllStamped
<1>6. Unwound'
  <2>1. ASSUME NEW n \in DOMAIN nested PROVE UnwoundTo(n)'
    <3>1. UnwoundTo(n) /\ nested[n] \in Items /\ n \in Nat
      BY <1>2, <2>1
    <3>2. Len(stack[nested[n]]) \in Nat
      BY <3>1 DEF IInv, Typed
    <3>3. \A e \in outstanding[nested[n]] : e.id \in 1 .. Len(stack[nested[n]])
      BY <3>1, WithinStack
    <3>4. CASE n = cursor.stack
      <4>1. AllTried(nested[n])
        BY <1>1, <3>1, <3>3, <3>4 DEF UnwoundTo, AllTried
      <4>2. QED
        BY <1>1, <1>2, <1>4, <3>4, <4>1 DEF UnwoundTo, AllTried
    <3>5. CASE n > cursor.stack
      <4>1. AllTried(nested[n]) /\ n > below /\ n # below /\ ~(n < below)
        BY <1>2, <3>1, <3>5 DEF UnwoundTo
      <4>2. QED
        BY <1>1, <1>4, <4>1 DEF UnwoundTo, AllTried
    <3>6. CASE n < cursor.stack
      <4>1. tried[nested[n]] = {} /\ ~(n > below)
        BY <1>2, <3>1, <3>6 DEF UnwoundTo
      <4>2. n = below => cursor'.entry = Len(stack[nested[n]])
        BY <1>2, <1>4, <3>1
      <4>3. \A e \in outstanding[nested[n]] : ~(e.id > Len(stack[nested[n]]))
        BY <3>2, <3>3
      <4>4. QED
        BY <1>1, <1>4, <3>2, <4>1, <4>2, <4>3 DEF UnwoundTo, AllTried
    <3>7. QED
      BY <1>2, <3>1, <3>4, <3>5, <3>6
  <2>2. CursorTyped' /\ (cursor'.stack = 0 => cursor'.entry = 0)
    BY <1>1, <1>3, <1>4 DEF CursorTyped
  <2>3. QED
    BY <1>1, <2>1, <2>2 DEF Unwound
<1>7. ASSUME NEW i \in Items PROVE Booked(i)' /\ Untried(i)'
  BY <1>1 DEF SInv, Booked, Untried, NotDoneYet, Unit
<1>8. QED
  BY <1>1, <1>5, <1>6, <1>7, StutterSagas DEF SInv

LEMMA LandSettles ==
  ASSUME IInv, SInv, Land
  PROVE  SInv' /\ Sagas
<1>1. /\ phase = "unwinding" /\ phase' = "landed" /\ cursor.stack = 0
      /\ UNCHANGED <<pc, at, stack, stamp, nested, outstanding, cursor, tried>>
  BY DEF Land, Ends, iterations, gathered, undo
<1>2. SagaTyped' /\ Nesting' /\ Unwound'
  BY <1>1 DEF SInv, SagaTyped, Phases, Nesting, NestedOnce, StampedNested, AllStamped, Unwound
<1>3. ASSUME NEW i \in Items PROVE Booked(i)' /\ Untried(i)'
  BY <1>1 DEF SInv, Booked, Untried, NotDoneYet, Unit
<1>4. ASSUME NEW i \in Items PROVE Saga(i)
  <2>1. PICK n \in DOMAIN nested : nested[n] = i
    BY <1>1 DEF SInv, Nesting, AllStamped, StampedNested
  <2>2. n > cursor.stack
    BY <1>1, <2>1 DEF SInv, Nesting
  <2>3. outstanding[i] \subseteq tried[i]
    BY <1>1, <2>1, <2>2 DEF SInv, Unwound, UnwoundTo, AllTried
  <2>4. /\ outstanding'[i] = outstanding[i] /\ tried'[i] = tried[i] /\ ModeOf(i) = "unwinding"
        /\ ModeOf(i)' = IF outstanding'[i] = {} THEN "clean" ELSE "dirty"
    BY <1>1, Modes, ModesNext
  <2>5. item(i)!Settle
    BY <2>3, <2>4 DEF item!Settle
  <2>6. QED
    BY <2>5 DEF Saga, item!Next
<1>5. QED
  BY <1>2, <1>3, <1>4 DEF SInv, Sagas

LEMMA SagaStep == IInv /\ SInv /\ [Next]_vars => SInv' /\ Sagas
<1> SUFFICES ASSUME IInv, SInv, [Next]_vars
             PROVE  SInv' /\ Sagas
  OBVIOUS
<1>1. ASSUME UNCHANGED <<phase, pc, at, stack, stamp, nested, outstanding, cursor, tried>>
      PROVE  SInv' /\ Sagas
  BY <1>1, NothingToDo, QuietStep
<1>2. ASSUME NEW command \in Commands, Request(command) PROVE SInv' /\ Sagas
  BY <1>1, <1>2 DEF Request, iterations, gathered, undo
<1>3. CASE Cancel \/ Collect
  BY <1>1, <1>3 DEF Cancel, Collect, iterations, gathered, undo
<1>4. CASE Retry \/ Resume
  BY <1>4, EnterReplays DEF Retry, Resume
<1>5. CASE UNCHANGED vars
  BY <1>1, <1>5 DEF vars, iterations, gathered, undo
<1>6. CASE Dispatch
  BY <1>3, <1>6, PlacesQuiet, ReturnNests DEF Dispatch
<1>7. CASE Adjudicate
  BY <1>4, <1>7, EndsSaga, RollbackUnwinds DEF Adjudicate
<1>8. CASE Unwind
  BY <1>8, CompensateTakesBack, NextStackQuiet, LandSettles DEF Unwind
<1>9. ASSUME NEW i \in Items, Iterate(i) PROVE SInv' /\ Sagas
  BY <1>9, PlacesQuiet, ControlPointQuiet, DoPerforms DEF Iterate
<1>10. QED
  BY <1>2, <1>3, <1>4, <1>5, <1>6, <1>7, <1>8, <1>9 DEF Next, Progress

-----------------------------------------------------------------------------
(* Nothing an iteration did is out of reach of the undo: its receipt is on *)
(* its own stack and, when the gather returns, that stack is nested.       *)
THEOREM NothingOutOfReach == Spec => []EffectsNested
<1>1. QED
  BY InitHolds, InvStep, InitSagas, SagaStep, SInvNests, PTL DEF Spec

(* Every iteration of a gather refines Saga: pauses, retries, resumes and  *)
(* rollbacks of the gather are those of each of its items, none of whose   *)
(* units is performed twice over and whose effects are taken back newest   *)
(* first, each of them, however the iterations interleave.                 *)
THEOREM IterationsAreSagas == Spec => ItemsAreSagas
<1>1. Init => \A i \in Items : item(i)!Init
  BY InitSagas
<1>2. IInv /\ SInv /\ [Next]_vars => [\A i \in Items : item(i)!Next \/ UNCHANGED item(i)!vars]_vars
  BY SagaStep DEF Sagas, Saga
<1>3. QED
  BY InitHolds, InvStep, InitSagas, SagaStep, <1>1, <1>2, PTL DEF Spec, ItemsAreSagas
=============================================================================
