----------------------------- MODULE SagaProofs -----------------------------
(***************************************************************************)
(* The promises of Saga, proved for any set of steps.                      *)
(***************************************************************************)
EXTENDS Saga, TLAPS

(* The state never leaves its type, and what an unwind could not take back   *)
(* stands in the world.                                                      *)
THEOREM SagaTyped == Spec => []TypeOK
<1>1. Init => TypeOK
  BY DEF Init, TypeOK, Modes
<1>2. TypeOK /\ [Next]_vars => TypeOK'
  <2> SUFFICES ASSUME TypeOK, [Next]_vars
               PROVE  TypeOK'
    OBVIOUS
  <2>1. CASE Perform
    BY <2>1 DEF Perform, TypeOK
  <2>2. ASSUME NEW e \in standing, TakeBack(e)
        PROVE  TypeOK'
    BY <2>2 DEF TakeBack, TypeOK
  <2>3. CASE Park \/ Wake \/ Finish
    BY <2>3 DEF Park, Wake, Finish, Move, TypeOK, Modes
  <2>4. CASE Unwind \/ Settle
    BY <2>4 DEF Unwind, Settle, TypeOK, Modes
  <2>5. CASE UNCHANGED vars
    BY <2>5 DEF vars, TypeOK
  <2>6. QED
    BY <2>1, <2>2, <2>3, <2>4, <2>5 DEF Next
<1>3. QED
  BY <1>1, <1>2, PTL DEF Spec

(* A run that reports a clean rollback has left nothing standing: only       *)
(* Settle enters the clean mode, and nothing is performed from there.        *)
THEOREM CleanRollback == Spec => []CleanMeansClean
<1>1. Init => CleanMeansClean
  BY DEF Init, CleanMeansClean
<1>2. CleanMeansClean /\ [Next]_vars => CleanMeansClean'
  BY DEF Next, Perform, TakeBack, Park, Wake, Finish, Move, Unwind, Settle,
         vars, CleanMeansClean
<1>3. QED
  BY <1>1, <1>2, PTL DEF Spec

(* A completed step stands in the world at most once: a new effect is of a   *)
(* step no whole effect of which stands, and taking back adds none.          *)
THEOREM StepsPerformedOnce == Spec => []PerformedOnce
<1>1. Init => PerformedOnce
  BY DEF Init, PerformedOnce
<1>2. PerformedOnce /\ [Next]_vars => PerformedOnce'
  <2> SUFFICES ASSUME PerformedOnce, [Next]_vars
               PROVE  PerformedOnce'
    OBVIOUS
  <2>1. CASE Perform
    BY <2>1 DEF Perform, PerformedOnce
  <2>2. ASSUME NEW e \in standing, TakeBack(e)
        PROVE  PerformedOnce'
    BY <2>2 DEF TakeBack, PerformedOnce
  <2>3. CASE Park \/ Wake \/ Finish \/ Unwind \/ Settle \/ UNCHANGED vars
    BY <2>3 DEF Park, Wake, Finish, Move, Unwind, Settle, vars, PerformedOnce
  <2>4. QED
    BY <2>1, <2>2, <2>3 DEF Next
<1>3. QED
  BY <1>1, <1>2, PTL DEF Spec

=============================================================================
