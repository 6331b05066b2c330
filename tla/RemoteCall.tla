----------------------------- MODULE RemoteCall -----------------------------
(***************************************************************************)
(* What a caller of the remote panel is promised (engine/panel_rpc_client.py, *)
(* section 2 of its design document): calls are strictly one at a time, a    *)
(* call that returns ran, once, with success, and a call that raises may     *)
(* have run, or may still run, but never twice and with no silent retry.     *)
(***************************************************************************)
CONSTANT Requests

VARIABLES
  asked,   \* the requests made
  ran,     \* the commands carried out, each with its success
  answer   \* what the caller was told

vars == <<asked, ran, answer>>

Init ==
  /\ asked = {}
  /\ ran = [r \in Requests |-> "no"]
  /\ answer = [r \in Requests |-> "none"]

Ask(r) ==
  /\ r \notin asked /\ \A q \in asked : answer[q] # "none"
  /\ asked' = asked \cup {r}
  /\ UNCHANGED <<ran, answer>>

\* After a lost connection possibly long after the caller was told.
Run(r) ==
  /\ r \in asked /\ ran[r] = "no" /\ answer[r] # "returned"
  /\ \E how \in {"well", "badly"} : ran' = [ran EXCEPT ![r] = how]
  /\ UNCHANGED <<asked, answer>>

Return(r) ==
  /\ r \in asked /\ answer[r] = "none" /\ ran[r] = "well"
  /\ answer' = [answer EXCEPT ![r] = "returned"]
  /\ UNCHANGED <<asked, ran>>

Raise(r) ==
  /\ r \in asked /\ answer[r] = "none"
  /\ answer' = [answer EXCEPT ![r] = "raised"]
  /\ UNCHANGED <<asked, ran>>

Next == \E r \in Requests : Ask(r) \/ Run(r) \/ Return(r) \/ Raise(r)

Spec == Init /\ [][Next]_vars
=============================================================================
