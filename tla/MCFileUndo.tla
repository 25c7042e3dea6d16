----------------------------- MODULE MCFileUndo -----------------------------
(***************************************************************************)
(* A directory that holds a file, beside a name that is free or a file,   *)
(* with a path below it.                                                   *)
(***************************************************************************)
EXTENDS FileUndo

MCPaths == {"d", "d/f", "e", "e/x"}
MCAbove == [p \in MCPaths |-> CASE p = "d/f" -> {"d"} [] p = "e/x" -> {"e"} [] OTHER -> {}]
MCDisks ==
  {[p \in MCPaths |-> CASE p = "d" -> "dir" [] p = "e" -> e [] p = "e/x" -> "absent" [] OTHER -> p]
     : e \in {"absent", "e"}}
=============================================================================
