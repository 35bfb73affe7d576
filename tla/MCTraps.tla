------------------------------ MODULE MCTraps ------------------------------
(* Two threads and the boot stack; the clock, the keyboard, the cascade    *)
(* and the RTC; an exception without and one with an error code; the two   *)
(* calls, an unknown and an impossible one.                                *)
EXTENDS Traps

MCIrq == {0, 1, 2, 8}
MCExceptions == {3, 14}
MCCalls == {0, 1, 2, 64}
=============================================================================
