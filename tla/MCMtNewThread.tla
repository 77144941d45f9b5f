---------------------------- MODULE MCMtNewThread ----------------------------
(* MtNewThread for TLC: a buffer of two slots and four packets, so the    *)
(* buffer fills, wraps and drops while the task drains it.                 *)
EXTENDS MtNewThread
=============================================================================
