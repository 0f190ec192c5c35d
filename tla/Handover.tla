-------------------------------- MODULE Handover --------------------------------
(***************************************************************************)
(* The list inside a queue, and the API calls of scripts that share one,   *)
(* on small instances.  The parts share no state here (MsgQueue has the    *)
(* threads around a queue).  A behaviour is one of a single part, which    *)
(* the variable seen names; the other stays in its initial state.          *)
(***************************************************************************)
EXTENDS QueueList, ScriptCall

VARIABLE seen

handoverVars == <<seen, queueListVars, scriptCallVars>>

HandoverInit == seen \in {"list", "calls"} /\ QueueListInit /\ ScriptCallInit

\* a step of the part that is seen
Of(part, Step, rest) == seen = part /\ Step /\ UNCHANGED <<seen, rest>>

HandoverNext ==
  \/ Of("list", QueueListNext, scriptCallVars)
  \/ Of("calls", ScriptCallNext, queueListVars)

\* the loop of the expiry goes on, and ScriptCallFairness
HandoverSpec ==
  /\ HandoverInit /\ [][HandoverNext]_handoverVars
  /\ WF_handoverVars(Of("list", ExpiryStep, scriptCallVars))
  /\ \A c \in Callers : WF_handoverVars(Of("calls", Run(c), queueListVars))
  /\ WF_handoverVars(Of("calls", Signal, queueListVars))
  /\ WF_handoverVars(Of("calls", Tick, queueListVars))
=================================================================================
