----------------------------- MODULE MCFtmSystem -----------------------------
EXTENDS FtmSystem

(* Two reports, so that the second may meet the answer to the first. *)
SafeUsed == {StartFtm, StopFtm, Cmd("REPORT", "RX", 1), Cmd("REPORT", "RX", 2)}

(* A setting, so that commands fill the queue and a send blocks. *)
LiveUsed == {StartFtm, StopFtm, Cmd("REPORT", "BAND", 1), Cmd("SET", "CHANNEL", 6)}

=============================================================================
