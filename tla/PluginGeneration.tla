--------------------------- MODULE PluginGeneration ---------------------------
(***************************************************************************)
(* What a worker generation promises the plugin loader: it is usable at    *)
(* most once, for one stretch of its life; an invoke that fails leaves it  *)
(* ended; and it is called terminated only when nothing of it is left.     *)
(***************************************************************************)
CONSTANT Request   \* calls of invoke

VARIABLES
  alive,      \* "none" before the worker was started, "up", "gone"
  usable,     \* the transport may be used
  ended,      \* a fault was seen, or its termination was decided
  confirmed,  \* snapshot.termination_confirmed
  result      \* what every call came to

genVars == <<alive, usable, ended, confirmed, result>>

GenInit ==
  /\ alive = "none" /\ usable = FALSE /\ ended = FALSE /\ confirmed = FALSE
  /\ result = [r \in Request |-> "none"]

Begins ==
  /\ alive = "none" /\ alive' = "up" /\ ended' \in BOOLEAN
  /\ UNCHANGED <<usable, confirmed, result>>

Opens ==
  /\ alive # "none" /\ ~ended /\ usable' = TRUE
  /\ UNCHANGED <<alive, ended, confirmed, result>>

Answers(r) ==
  /\ result[r] = "none"
  /\ result' = [result EXCEPT ![r] = "ok"] \/ result' = [result EXCEPT ![r] = "refused"]
  /\ UNCHANGED <<alive, usable, ended, confirmed>>

Fails(r) ==
  /\ result[r] = "none" /\ ended
  /\ result' = [result EXCEPT ![r] = "error"]
  /\ UNCHANGED <<alive, usable, ended, confirmed>>

Ends ==
  /\ ended' = TRUE /\ usable' \in {usable, FALSE}
  /\ UNCHANGED <<alive, confirmed, result>>

Vanishes ==
  /\ alive = "up" /\ alive' = "gone"
  /\ UNCHANGED <<usable, ended, confirmed, result>>

Confirms ==
  /\ ended /\ confirmed' \in {FALSE, alive = "gone"}
  /\ UNCHANGED <<alive, usable, ended, result>>

GenNext ==
  \/ Begins \/ Opens \/ Ends \/ Vanishes \/ Confirms
  \/ \E r \in Request : Answers(r) \/ Fails(r)

GenSpec == GenInit /\ [][GenNext]_genVars
=============================================================================
