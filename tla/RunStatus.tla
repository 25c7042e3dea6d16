----------------------------- MODULE RunStatus -----------------------------
(***************************************************************************)
(* The status algebra every executor shares (pkg/op/run_state.go,          *)
(* policies_config.go and the failure helpers of graph_executor.go): how   *)
(* bad a run is, how a flip of its condition is recorded, and what a       *)
(* failure's reason says about where the run must land.  Pure operators:   *)
(* no state of its own.                                                    *)
(***************************************************************************)
EXTENDS Integers

(* Condition: ordered by severity, a run's condition only worsens. *)
Healthy            == 0
Degraded           == 1
ExecutionFailed    == 2
CompensationFailed == 3
Conditions         == Healthy .. CompensationFailed

(* Reaction: ordered by severity, continue < pause < stop. *)
Continue  == 0
Pause     == 1
Stop      == 2
Reactions == Continue .. Stop

Phases == {"preparing", "running", "paused", "stopping", "stopped", "completed"}

Reasons == {"unspecified", "action_failed", "compensation_failed", "retry_vetoed",
            "handler_failed", "degraded", "failed", "preflight_failed",
            "framework_failed", "stopped", "paused", "unwound"}

(* A TransitionPolicy that Validate accepts: a dirty unwind is never walked past. *)
Policies == [degraded : Reactions, execution_failed : Reactions,
             compensation_failed : Reactions \ {Continue}]

(* The builtin floor of NewPoliciesConfig. *)
FloorPolicy ==
  [degraded |-> Continue, execution_failed |-> Stop, compensation_failed |-> Stop]

ReactionFor(policy, condition) ==
  CASE condition = Degraded           -> policy.degraded
    [] condition = ExecutionFailed    -> policy.execution_failed
    [] condition = CompensationFailed -> policy.compensation_failed
    [] OTHER                          -> Continue

(* The part of one executor's state that Transition touches: its status and *)
(* the most severe reaction it has recorded and not yet acted on.           *)
Statuses == [condition : Conditions, reason : Reasons, reaction : Reactions]

FreshStatus == [condition |-> Healthy, reason |-> "unspecified", reaction |-> Continue]

(* Transition refuses to improve the condition; a repeat is a no-op; a worse *)
(* one is recorded together with the reaction the policy prescribes for it.  *)
Accepts(status, condition) == condition >= status.condition

AfterTransition(status, policy, condition, reason) ==
  LET prescribed == ReactionFor(policy, condition)
  IN  IF condition = status.condition THEN status
      ELSE [condition |-> condition,
            reason    |-> reason,
            reaction  |-> IF prescribed > status.reaction
                          THEN prescribed ELSE status.reaction]

(* The condition a failure's reason implies when nothing worse is on record. *)
ConditionForReason(reason) ==
  CASE reason = "degraded"            -> Degraded
    [] reason = "compensation_failed" -> CompensationFailed
    [] OTHER                          -> ExecutionFailed

(***************************************************************************)
(* Errors.  kind says which sentinel the error wraps ("failed": neither);  *)
(* reason is the one the outermost dispatchFailure carries, "unspecified"  *)
(* when the error carries none; hard is its bypassHandler mark.            *)
(***************************************************************************)
ErrorKinds == {"none", "paused", "stopped", "failed"}
Errors     == [kind : ErrorKinds, hard : BOOLEAN, reason : Reasons]

Error(kind, reason) == [kind |-> kind, hard |-> FALSE, reason |-> reason]
HardError(reason)   == [kind |-> "failed", hard |-> TRUE, reason |-> reason]
NoError             == Error("none", "unspecified")

FailureReason(error) ==
  IF error.reason = "unspecified" THEN "action_failed" ELSE error.reason

(* standingFailure: the reason is stamped once, where the failure began. *)
Standing(error, base) ==
  IF error.reason = "unspecified" THEN Error(error.kind, base) ELSE error

=============================================================================
