----------------------------- MODULE InputTicks -----------------------------
(***************************************************************************)
(* Times since the last input, from GetTickCount's 32-bit milliseconds     *)
(* (activity/user_activity.cpp).  TickRange stands for 2^32.               *)
(***************************************************************************)
EXTENDS Integers

CONSTANT TickRange  \* the tick count's range

ASSUME TickAssumption == TickRange \in Nat \ {0}

\* The unsigned difference, read as a signed one; a negative one counts as 0.
TickDeltaMs(fromTick, toTick) ==
    LET delta == (toTick - fromTick) % TickRange IN
    IF 2 * delta >= TickRange THEN 0 ELSE delta

IdleMilliseconds(nowTick, lastInputTick) == TickDeltaMs(lastInputTick, nowTick)
=============================================================================
