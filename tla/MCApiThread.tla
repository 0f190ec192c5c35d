------------------------------ MODULE MCApiThread ------------------------------
(* The api thread: its loop over the partitions (MCMympdApi) and its timers. *)
(* They share no state here; a behaviour is one of a single part, which the  *)
(* variable part names, and the other stays in an initial state.             *)
EXTENDS MCMympdApi, TimerList

VARIABLE part

threadVars == <<part, vars, tvars>>

ThreadInit == part \in {"loop", "timers"} /\ Init /\ (part = "loop" \/ named = {}) /\ TimerInit

ThreadNext ==
  \/ part = "loop" /\ Next /\ UNCHANGED <<part, tvars>>
  \/ part = "timers" /\ TimerNext /\ UNCHANGED <<part, vars>>

ThreadSpec == ThreadInit /\ [][ThreadNext]_threadVars
=============================================================================
