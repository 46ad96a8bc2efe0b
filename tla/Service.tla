------------------------------- MODULE Service -------------------------------
(* What the daemon's services have in common: its clock, and no value.      *)
EXTENDS Integers, FiniteSets

CONSTANTS None,
          LastTick   \* bound of the clock

VARIABLE now   \* time.time(), in ticks
=============================================================================
