----------------------------- MODULE RemoteCall ------------------------------
(***************************************************************************)
(* What a remote wl call promises: that a success was executed by the      *)
(* server at least once since the call began.  The frames carry no number, *)
(* so that a frame left from before may excuse a call from the promise.    *)
(***************************************************************************)

VARIABLES busy,      \* a call is under way
          executed,  \* the server has executed this call
          excused,   \* a frame of something else has come in
          outcome    \* "none" until the call returns

vars == <<busy, executed, excused, outcome>>

Init == busy = FALSE /\ executed = FALSE /\ excused = FALSE /\ outcome = "none"

Begin == /\ ~busy /\ busy' = TRUE
         /\ executed' = FALSE /\ outcome' = "none"
         /\ UNCHANGED excused

(* Also after the call has returned: a request may be late. *)
Execute == executed' = TRUE /\ UNCHANGED <<busy, excused, outcome>>

Excuse == /\ busy /\ excused' \in BOOLEAN
          /\ UNCHANGED <<busy, executed, outcome>>

Return == /\ busy /\ busy' = FALSE
          /\ outcome' \in {"done", "failed"}
          /\ outcome' = "done" => executed \/ excused
          /\ UNCHANGED <<executed, excused>>

Next == Begin \/ Execute \/ Excuse \/ Return

Spec == Init /\ [][Next]_vars
=============================================================================
