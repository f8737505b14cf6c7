------------------------------- MODULE MCTimer -------------------------------
(* Timer for TLC: timeouts that are negative, and of one or two ticks.    *)
EXTENDS Timer

MCTimeouts == {-2, 1, 2}
=============================================================================
