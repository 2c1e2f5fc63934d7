----------------------------- MODULE MCFtmDaemon -----------------------------
EXTENDS FtmDaemon

(* A 5 GHz channel (it is set twice) staged over the 2.4 GHz default, and   *)
(* every command that touches the transmitter's parameters.                 *)
TxUsed == {Cmd("SET", "CHANNEL", 36), Cmd("SET", "TX_POWER", 12), Cmd("START", "TX", 0), Cmd("STOP", "TX", 0),
           Cmd("START", "RX", 0), Cmd("REPORT", "BAND", 0)}

(* Receptions, with their packets. *)
RxUsed == {Cmd("START", "RX", 0), Cmd("STOP", "RX", 0), Cmd("REPORT", "RX", 0),
           Cmd("START", "SCW", 0), Cmd("STOP", "SCW", 0), Cmd("OTHER", "none", 0),
           Cmd("START", "FTM", 0), Cmd("STOP", "FTM", 0)}

=============================================================================
