----------------------------- MODULE MCCircArray -----------------------------
(* CircArray instantiated for TLC: two values, a buffer of capacity 2 that  *)
(* resize_by_two may grow once to 4, so wrap-around, overwrite and resize   *)
(* all happen with the start at every slot.                                 *)
EXTENDS CircArray

MCValues == {"a", "b"}

=============================================================================
