---------------------------- MODULE MCScheduler ----------------------------
(***************************************************************************)
(* Three tasks and slices of two ticks.  The tick counter wraps at an odd   *)
(* number, so that a slice may be cut short where it wraps.                 *)
(***************************************************************************)
EXTENDS Scheduler
=============================================================================
