-------------------------------- MODULE Feed --------------------------------
(***************************************************************************)
(* What a broker promises of one stream of a run: every subscriber         *)
(* receives every value published after it subscribed, in order, each      *)
(* once, until it leaves; what happens to other subscribers does not       *)
(* concern it.                                                             *)
(***************************************************************************)
EXTENDS Naturals, Sequences

CONSTANTS
  Readers,
  Values,
  Away      \* the place of a reader that is not subscribed

VARIABLES
  log,      \* everything ever published
  place     \* [Readers -> how much of the log a reader is done with, or Away]

vars == <<log, place>>

TypeOK == log \in Seq(Values) /\ place \in [Readers -> Nat \cup {Away}]

Init == log = <<>> /\ place = [r \in Readers |-> Away]

Publish == /\ Len(log') = Len(log) + 1 /\ SubSeq(log', 1, Len(log)) = log
           /\ UNCHANGED place

Moves(r, to) == place' = [place EXCEPT ![r] = to] /\ UNCHANGED log

Subscribe(r) == place[r] = Away /\ Moves(r, Len(log))
Receive(r)   == place[r] # Away /\ place[r] < Len(log) /\ Moves(r, place[r] + 1)
Leave(r)     == place[r] # Away /\ Moves(r, Away)

Next == Publish \/ \E r \in Readers : Subscribe(r) \/ Receive(r) \/ Leave(r)
Spec == Init /\ [][Next]_vars
=============================================================================
