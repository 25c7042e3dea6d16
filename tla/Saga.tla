------------------------------- MODULE Saga --------------------------------
(***************************************************************************)
(* What a run of the execution engine promises about the effects its       *)
(* actions leave in the world, whatever the shape of the graph: they are   *)
(* performed one at a time, a completed step is performed once, a parked   *)
(* run keeps them, and an unwind takes them back newest first, trying each *)
(* one; the run may call its end clean only when none is left.             *)
(***************************************************************************)
EXTENDS Naturals, FiniteSets

CONSTANTS Steps  \* what performs effects: the nodes of a graph

Effects == [id : Nat, unit : Steps, whole : BOOLEAN]
Modes   == {"running", "paused", "unwinding", "done", "clean", "dirty"}

VARIABLES
  mode,
  standing, \* effects in the world; a partial one is not whole
  kept      \* effects this unwind tried to take back and could not

vars == <<mode, standing, kept>>

TypeOK == mode \in Modes /\ standing \in SUBSET Effects /\ kept \in SUBSET standing

Init == mode = "running" /\ standing = {} /\ kept = {}

Newer(e, f) == e.id > f.id

Perform ==
  /\ mode = "running"
  /\ \E e \in standing' \ standing :
       /\ e \in Effects /\ standing' = standing \cup {e}
       /\ \A f \in standing : Newer(e, f) /\ ~(f.whole /\ e.unit = f.unit)
  /\ UNCHANGED <<mode, kept>>

Move(from, to) == mode = from /\ mode' = to /\ UNCHANGED <<standing, kept>>

Park   == Move("running", "paused")
Wake   == Move("paused", "running")
Finish == Move("running", "done")

Unwind == /\ mode \in {"running", "dirty"}
          /\ mode' = "unwinding" /\ kept' = {}
          /\ UNCHANGED standing

Newest(e) == \A f \in (standing \ kept) \ {e} : Newer(e, f)

TakeBack(e) ==
  /\ mode = "unwinding" /\ e \in standing \ kept /\ Newest(e)
  /\ \/ standing' = standing \ {e} /\ UNCHANGED kept
     \/ kept' = kept \cup {e} /\ UNCHANGED standing
  /\ UNCHANGED mode

Settle ==
  /\ mode = "unwinding" /\ standing = kept
  /\ mode' = IF standing = {} THEN "clean" ELSE "dirty"
  /\ UNCHANGED <<standing, kept>>

Next == \/ Perform \/ \E e \in standing : TakeBack(e)
        \/ Park \/ Wake \/ Finish \/ Unwind \/ Settle

Spec == Init /\ [][Next]_vars

(* A run that reports a clean rollback has left nothing standing. *)
CleanMeansClean == mode = "clean" => standing = {}

(* A completed step stands in the world at most once, however often the run  *)
(* retried, paused and resumed around it.                                    *)
PerformedOnce ==
  \A e, f \in standing : (e.whole /\ f.whole /\ e.unit = f.unit) => e = f

=============================================================================
