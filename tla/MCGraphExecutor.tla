-------------------------- MODULE MCGraphExecutor --------------------------
(***************************************************************************)
(* Instances of GraphExecutor for TLC.  One tree serves every run:         *)
(*                                                                         *)
(*     root  = << outer, middle, last >>                                   *)
(*     outer = << left, inner >>      inner = << right, done, rest >>      *)
(*                                                                         *)
(* `done` is bound to flow.complete, so `rest` must never run.             *)
(***************************************************************************)
EXTENDS GraphExecutor

MCNodes     == {"middle", "left", "right", "done", "rest", "last"}
MCSubgraphs == {"root", "outer", "inner"}
MCChildren  == [root |-> <<"outer", "middle", "last">>,
                outer |-> <<"left", "inner">>, inner |-> <<"right", "done", "rest">>]
MCEnclosing == [root |-> {}, middle |-> {"root"}, outer |-> {"root"}, last |-> {"root"},
                left |-> {"root", "outer"}, inner |-> {"root", "outer"},
                right |-> {"root", "outer", "inner"}, done |-> {"root", "outer", "inner"},
                rest |-> {"root", "outer", "inner"}]

None == [u \in MCNodes \cup MCSubgraphs |-> Unset]
Some(f) == [u \in MCNodes \cup MCSubgraphs |->
              IF u \in DOMAIN f THEN f[u] ELSE Unset]

(* What a node that is not named in f does: one effect, and its success. *)
Do(f)    == [n \in MCNodes |-> CASE n \in DOMAIN f -> f[n]
                                [] n = "done"    -> {"read"}
                                [] OTHER         -> {"ok"}]
NoFaults == [s \in MCSubgraphs |-> {}]

(* Retries: the structural subgraph `outer` inherits the default. *)
NodeRetry == Some([left |-> 0, right |-> 1, middle |-> 0, last |-> 0])

(* Outcomes *)
Reliable   == Do(<<>>)
Failing    == Do([left |-> {"ok", "partial"}, right |-> {"ok", "degraded", "fail"},
                  middle |-> {"ok", "partial"}, last |-> {"read", "partial"}])
Asserting  == Do([left |-> {"ok", "partial", "degraded"}, middle |-> {"ok", "degraded"},
                  right |-> {"degraded", "failed", "fail"},
                  last |-> {"ok", "unbound", "degraded"}])

(* Scope faults: InnerFaults strikes a boundary whose nodes leave no effect *)
(* in that run, OuterClaims one that may have some to lose.                *)
InnerFaults == [s \in MCSubgraphs |-> IF s = "inner" THEN {"claims", "unbound"} ELSE {}]
OuterClaims == [s \in MCSubgraphs |-> IF s = "outer" THEN {"claims"} ELSE {}]

(* Transition policies *)
Policy(d, x) == [degraded |-> d, execution_failed |-> x, compensation_failed |-> Stop]
PauseOnDegraded  == Some([root |-> Policy(Pause, Stop)])
MixedPolicies    == Some([root |-> Policy(Continue, Continue),
                          left |-> Policy(Pause, Stop), outer |-> Policy(Stop, Pause),
                          last |-> Policy(Stop, Stop)])
=============================================================================
