-------------------------- MODULE MCResourceCatalog --------------------------
(* Small instances of ResourceCatalog: a unit with an id and a caller without *)
(* one share a path and a content blob, over a graph document whose first     *)
(* intent row was superseded while planning (its id is a gap).                *)
EXTENDS ResourceCatalog

CONSTANTS unit, script, path, blob, u1

MCCallerOf == [a \in Actors |-> IF a = unit THEN u1 ELSE NoCaller]
MCIntent == <<[id |-> 2, key |-> path]>>
=============================================================================
