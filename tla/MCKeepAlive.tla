----------------------------- MODULE MCKeepAlive -----------------------------
(* An instance of KeepAlive for TLC. *)
EXTENDS KeepAlive

Accepted == KeepAliveMaxDelay + PeriodMax + 1
End      == Accepted + 3 * (KeepAliveMaxDelay + PeriodMax)
==============================================================================
