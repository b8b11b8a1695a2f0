----------------------------- MODULE MCCharging -----------------------------
(* An instance of Charging for TLC: one turn with a text, an image and an  *)
(* opaque file, and one with an image, over a single slot.                   *)
EXTENDS Charging, TLC

CONSTANTS t1, t2

F(i, kind, encoded) ==
  [id |-> i, content |-> kind, malformed |-> FALSE, chars |-> 1, pixels |-> 1,
   encoded |-> encoded]

MCFilesOf ==
  t1 :> <<F(1, "opaque", 1), F(2, "text", 4), F(3, "image", 2)>> @@
  t2 :> <<F(1, "image", 2)>>

=============================================================================
