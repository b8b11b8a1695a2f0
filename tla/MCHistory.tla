----------------------------- MODULE MCHistory -----------------------------
(* An instance of History for TLC. *)
EXTENDS History

R(name, tokens) == [name |-> name, tokens |-> tokens]

(* No tool; a small and a large Action result; two large ones; the         *)
(* browser; and a large result of a tool that is no Action.                *)
MCResults ==
  { <<>>, <<R("action", 1), R("action", 6)>>, <<R("action", 6), R("action", 6)>>,
    <<R("browser", 2)>>, <<R("memory", 3)>> }
=============================================================================
