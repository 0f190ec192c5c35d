----------------------------- MODULE ScriptCall ------------------------------
(***************************************************************************)
(* lua_mympd_api (scripts/interface_mympd_api.c): a script thread pushes a *)
(* request with a random id and shifts script_worker_queue for that id, at *)
(* most MaxTries = 60 times with a timeout of one second.  All the script  *)
(* threads share the queue and its one condition variable, and each push   *)
(* wakes a single thread, whichever id that one waits for.                 *)
(* The random ids are taken to be distinct and not 0: a call is its id.    *)
(* Time is counted in ticks, Second ticks are a second; a thread that can  *)
(* run does so before the next tick.                                       *)
(***************************************************************************)
EXTENDS Naturals, FiniteSets

CONSTANTS
  Callers,     \* script threads
  MaxCalls,    \* bound on the number of calls
  MaxTries,    \* 60 in the code
  Second,      \* ticks of the timeout of one try
  MaxAge       \* ticks of the age at which responses expire, 120 s in the code

\* responses expire after 120 seconds, a try ends after one
ASSUME CallAssumption ==
  /\ IsFiniteSet(Callers)
  /\ {MaxCalls, MaxTries, Second, MaxAge} \subseteq Nat \ {0}
  /\ Second <= MaxAge

VARIABLES
  calls,       \* calls made so far
  call,        \* caller -> its current call, 0 outside of lua_mympd_api
  stage,       \* caller -> "idle", "looping", "waiting", "woken"
  tries,       \* caller -> i
  left,        \* caller -> ticks until its wait times out
  elapsed,     \* caller -> ticks since the call was made
  requests,    \* requests the api, script or worker threads may still answer
  responses,   \* calls with a response in script_worker_queue
  age,         \* call -> ticks its response spent in the queue
  signals,     \* pushes whose pthread_cond_signal is still due
  stopping     \* s_signal_received

callVars == <<call, stage, tries, left, elapsed>>
respVars == <<requests, responses, age, signals>>
scriptCallVars     == <<calls, callVars, respVars, stopping>>

Call       == 1..MaxCalls
Oldest     == MaxAge + 1
Asleep    == {c \in Callers : stage[c] = "waiting"}
Answered(c) == call[c] \in responses

CallTypeOK ==
  /\ calls \in 0..MaxCalls /\ stopping \in BOOLEAN /\ signals \in 0..MaxCalls
  /\ call \in [Callers -> 0..MaxCalls]
  /\ stage \in [Callers -> {"idle", "looping", "waiting", "woken"}]
  /\ tries \in [Callers -> 0..MaxTries]
  /\ left \in [Callers -> 0..Second]
  /\ elapsed \in [Callers -> 0..MaxTries * Second]
  /\ requests \subseteq Call /\ responses \subseteq Call
  /\ age \in [Call -> 0..Oldest]

ScriptCallInit ==
  /\ calls = 0 /\ stopping = FALSE /\ signals = 0
  /\ call = [c \in Callers |-> 0]
  /\ stage = [c \in Callers |-> "idle"]
  /\ tries = [c \in Callers |-> 0]
  /\ left = [c \in Callers |-> 0]
  /\ elapsed = [c \in Callers |-> 0]
  /\ requests = {} /\ responses = {}
  /\ age = [k \in Call |-> 0]

\* leaves lua_mympd_api, with the response or with the error
Return(c) ==
  /\ stage' = [stage EXCEPT ![c] = "idle"]
  /\ call' = [call EXCEPT ![c] = 0]
  /\ tries' = [tries EXCEPT ![c] = 0]
  /\ left' = [left EXCEPT ![c] = 0]
  /\ elapsed' = [elapsed EXCEPT ![c] = 0]

\* the shift found the response with the id of the caller
Take(c) ==
  /\ Answered(c)
  /\ responses' = responses \ {call[c]}
  /\ age' = [age EXCEPT ![call[c]] = 0]
  /\ Return(c)
  /\ UNCHANGED <<requests, signals>>

MakeCall(c) ==
  /\ stage[c] = "idle" /\ calls < MaxCalls
  /\ calls' = calls + 1
  /\ call' = [call EXCEPT ![c] = calls + 1]
  /\ requests' = requests \cup {calls + 1}
  /\ stage' = [stage EXCEPT ![c] = "looping"]
  /\ UNCHANGED <<tries, left, elapsed, responses, age, signals, stopping>>

\* mutant: the queue is not scanned before the wait
TryUnscanned(c) ==
  /\ stage[c] = "looping" /\ ~stopping /\ tries[c] < MaxTries
  /\ stage' = [stage EXCEPT ![c] = "waiting"]
  /\ tries' = [tries EXCEPT ![c] = @ + 1]
  /\ left' = [left EXCEPT ![c] = Second]
  /\ UNCHANGED <<calls, call, elapsed, respVars, stopping>>

\* one turn of the while loop, up to the wait
Try(c) ==
  /\ stage[c] = "looping" /\ ~stopping /\ tries[c] < MaxTries
  /\ \/ Take(c)
     \/ /\ ~Answered(c)
        /\ stage' = [stage EXCEPT ![c] = "waiting"]
        /\ tries' = [tries EXCEPT ![c] = @ + 1]
        /\ left' = [left EXCEPT ![c] = Second]
        /\ UNCHANGED <<call, elapsed, respVars>>
  /\ UNCHANGED <<calls, stopping>>

\* mutant: the scan after the wait ignores the id
RescanAny(c) ==
  /\ stage[c] = "woken"
  /\ \/ /\ responses # {}
        /\ responses' = responses \ {CHOOSE k \in responses : TRUE}
        /\ Return(c) /\ UNCHANGED <<requests, age, signals>>
     \/ /\ responses = {} /\ stage' = [stage EXCEPT ![c] = "looping"]
        /\ left' = [left EXCEPT ![c] = 0]
        /\ UNCHANGED <<call, tries, elapsed, respVars>>
  /\ UNCHANGED <<calls, stopping>>

\* woken by a signal: one scan, then the next turn
Rescan(c) ==
  /\ stage[c] = "woken"
  /\ \/ Take(c)
     \/ /\ ~Answered(c)
        /\ stage' = [stage EXCEPT ![c] = "looping"]
        /\ left' = [left EXCEPT ![c] = 0]
        /\ UNCHANGED <<call, tries, elapsed, respVars>>
  /\ UNCHANGED <<calls, stopping>>

\* mutant: a thread only stops waiting if there is a response for it
TimedOutAnswered(c) ==
  /\ stage[c] = "waiting" /\ left[c] = 0 /\ Answered(c)
  /\ stage' = [stage EXCEPT ![c] = "looping"]
  /\ UNCHANGED <<calls, call, tries, left, elapsed, respVars, stopping>>

\* ETIMEDOUT: the shift returns NULL without looking at the queue
TimedOut(c) ==
  /\ stage[c] = "waiting" /\ left[c] = 0
  /\ stage' = [stage EXCEPT ![c] = "looping"]
  /\ UNCHANGED <<calls, call, tries, left, elapsed, respVars, stopping>>

GiveUp(c) ==
  /\ stage[c] = "looping" /\ (stopping \/ tries[c] = MaxTries)
  /\ Return(c)
  /\ UNCHANGED <<calls, respVars, stopping>>

\* push_response with REQUEST_TYPE_SCRIPT: any thread, in any order
Answer(k) ==
  /\ k \in requests
  /\ requests' = requests \ {k}
  /\ responses' = responses \cup {k}
  /\ age' = [age EXCEPT ![k] = 0]
  /\ signals' = signals + 1
  /\ UNCHANGED <<calls, callVars, stopping>>

Signal ==
  /\ signals > 0
  /\ signals' = signals - 1
  /\ \/ Asleep = {} /\ UNCHANGED stage
     \/ \E c \in Asleep : stage' = [stage EXCEPT ![c] = "woken"]
  /\ UNCHANGED <<calls, call, tries, left, elapsed, requests, responses, age, stopping>>

\* mutant: the age is not compared
ExpireYoung ==
  /\ responses' = {}
  /\ UNCHANGED <<calls, callVars, requests, age, signals, stopping>>

\* script_start drops what is older than 120 s
Expire ==
  /\ responses' = {k \in responses : age[k] <= MaxAge}
  /\ age' = [k \in Call |-> IF k \in responses' THEN age[k] ELSE 0]
  /\ UNCHANGED <<calls, callVars, requests, signals, stopping>>

Stop ==
  /\ ~stopping /\ stopping' = TRUE
  /\ UNCHANGED <<calls, callVars, respVars>>

\* a second passes while every thread is asleep or outside of lua_mympd_api
Tick ==
  /\ signals = 0
  /\ \A c \in Callers : stage[c] = "idle" \/ (stage[c] = "waiting" /\ left[c] > 0)
  /\ left' = [c \in Callers |-> IF stage[c] = "waiting" THEN left[c] - 1 ELSE 0]
  /\ elapsed' = [c \in Callers |-> IF stage[c] = "waiting" THEN elapsed[c] + 1 ELSE 0]
  /\ age' = [k \in Call |-> IF k \in responses /\ age[k] < Oldest THEN age[k] + 1 ELSE age[k]]
  /\ UNCHANGED <<calls, call, stage, tries, requests, responses, signals, stopping>>

Run(c) == Try(c) \/ Rescan(c) \/ TimedOut(c) \/ GiveUp(c)

ScriptCallNext ==
  \/ \E c \in Callers : MakeCall(c) \/ Run(c)
  \/ \E k \in Call : Answer(k)
  \/ Signal \/ Expire \/ Stop \/ Tick

ScriptCallSpec == ScriptCallInit /\ [][ScriptCallNext]_scriptCallVars

\* script threads run, signals follow their push, time passes; no answer is promised
ScriptCallFairness ==
  /\ \A c \in Callers : WF_scriptCallVars(Run(c))
  /\ WF_scriptCallVars(Signal) /\ WF_scriptCallVars(Tick)

-----------------------------------------------------------------------------
(* The wrong thread may be woken for a response, but the timeout of its    *)
(* own try makes the right one look again: a response never waits longer   *)
(* than a second for a caller that is still in its call.                   *)
PromptPickup ==
  \A c \in Callers : Answered(c) => age[call[c]] <= Second

(* A call lasts at most 60 seconds, however its tries are used up.         *)
CallBounded == \A c \in Callers : elapsed[c] <= MaxTries * Second

(* Dropping old responses when a script starts never takes the response of *)
(* a call that still runs.                                                 *)
ExpiryKeepsLive ==
  [][Expire => \A c \in Callers : Answered(c) => Answered(c)']_scriptCallVars

(* A caller returns only with the error or with the response to this call, *)
(* also if responses to calls that gave up before are in the queue.        *)
OwnResponseOnly ==
  [][\A c \in Callers : stage[c] # "idle" /\ stage'[c] = "idle" =>
       responses \ {call[c]} \subseteq responses']_scriptCallVars

(* Every call ends, answered or not. *)
CallEnds == \A c \in Callers : stage[c] # "idle" ~> stage[c] = "idle"

(* In states of the right types, a call picks its response up promptly and *)
(* lasts no longer than its tries allow.                                   *)
CallsPrompt == CallTypeOK /\ PromptPickup /\ CallBounded

(* A response reaches the call it belongs to, and no other one.            *)
ResponsesReach == ExpiryKeepsLive /\ OwnResponseOnly
=============================================================================
