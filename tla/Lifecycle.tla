------------------------------ MODULE Lifecycle ------------------------------
(***************************************************************************)
(* The life of a myMPD process: main (main.c) creates the webserver, api   *)
(* and scripts threads and waits for their end; these create detached      *)
(* threads nobody waits for (script_run, mympd_worker_run).  The handler   *)
(* of lib/signal.c runs on whichever thread the kernel interrupts.         *)
(*                                                                         *)
(* Queues are modelled as far as the end of the program depends on them:   *)
(* the mutexes of mympd_api_queue and script_queue, the count of the       *)
(* eventfd, the messages in the socket pair of mongoose, the entries of    *)
(* script_queue.  MsgQueue has the rest.  Unlock, signal and notification  *)
(* of a push are one step here.                                            *)
(***************************************************************************)
EXTENDS Naturals, FiniteSets

CONSTANTS
  Detached,            \* threads of scripts and workers
  MaxTerm, MaxHup,     \* bounds: SIGTERM or SIGINT, SIGHUP
  MaxWork,             \* bound: browser requests, timers, MPD events, script calls
  PipeCap              \* messages the socket pair holds

Main    == "main"
Joined  == {"webserver", "api", "scripts"}
Threads == {Main} \cup Joined \cup Detached
Free    == "free"                        \* no thread holds the mutex

ASSUME LifecycleAssumption ==
  /\ Detached \cap ({Main, Free} \cup Joined) = {}
  /\ MaxTerm \in Nat /\ MaxHup \in Nat /\ MaxWork \in Nat /\ PipeCap \in Nat \ {0}

VARIABLES
  pc,          \* thread -> where it is
  handler,     \* thread -> where the signal handler is that interrupts it, or "none"
  handles,     \* threads main joins: webserver_thread, mympd_api_thread, script_thread
  flag,        \* s_signal_received # 0
  lock,        \* queue -> thread that holds its mutex
  entries,     \* of script_queue
  eventfd,     \* count of mympd_api_queue->event_fd
  pipe,        \* messages in the socket pair of mongoose
  queues,      \* queues that are not freed
  left,        \* what the bounds leave: signals and work
  lateUse,     \* history: threads that used a freed queue
  failed,      \* history: a pthread_create of main failed
  announced,   \* history: a handler went through all wakeups
  missed       \* history: script_queue was signalled after the test of the flag
               \* and before the wait

shared == <<entries, eventfd, pipe>>
marks == <<failed, announced, missed>>
vars == <<pc, handler, handles, flag, lock, shared, queues, left, lateUse, marks>>

Locks == {"api", "script"}               \* the mutexes a handler takes
Queues == {"webserver", "api", "script", "worker"}
Stages == {"none", "test", "poll", "shift", "shifting", "waiting", "woken", "rescan",
           "handle", "push", "pushing", "stop", "stopping", "ended"}
MainStages == {"create api", "create scripts", "create webserver", "join webserver",
               "join api", "join scripts", "free", "exited"}
HandlerStages == {"none", "flag", "signal", "event", "wakeup", "save api", "save scripts"}

TypeOK ==
  /\ pc \in [Threads -> Stages \cup MainStages]
  /\ handler \in [Threads -> HandlerStages]
  /\ handles \subseteq Joined /\ flag \in BOOLEAN
  /\ lock \in [Locks -> Threads \cup {Free}]
  /\ entries \in 0 .. MaxWork + MaxHup + 1        \* the trigger at the end
  /\ eventfd \in 0 .. MaxWork + MaxHup + MaxTerm /\ pipe \in 0 .. PipeCap
  /\ queues \subseteq Queues
  /\ left \in [term : 0 .. MaxTerm, hup : 0 .. MaxHup, work : 0 .. MaxWork]
  /\ lateUse \subseteq Threads
  /\ failed \in BOOLEAN /\ announced \in BOOLEAN /\ missed \in BOOLEAN

Init ==
  /\ pc = [t \in Threads |-> IF t = Main THEN "create api" ELSE "none"]
  /\ handler = [t \in Threads |-> "none"]
  /\ handles = {} /\ flag = FALSE
  /\ lock = [q \in Locks |-> Free]
  /\ entries = 0 /\ eventfd = 0 /\ pipe = 0
  /\ queues = Queues
  /\ left = [term |-> MaxTerm, hup |-> MaxHup, work |-> MaxWork]
  /\ lateUse = {} /\ failed = FALSE /\ announced = FALSE /\ missed = FALSE

-----------------------------------------------------------------------------
Exited == pc[Main] = "exited"                       \* takes all threads with it
Alive(t) == pc[t] \notin {"none", "ended"} /\ ~Exited
At(t, stage) == pc[t] = stage /\ handler[t] = "none" /\ ~Exited
Goto(t, stage) == pc' = [pc EXCEPT ![t] = stage]

Acquire(t, q) == lock[q] = Free /\ lock' = [lock EXCEPT ![q] = t]
Release(t, q) == lock[q] = t /\ lock' = [lock EXCEPT ![q] = Free]

Work == left.work > 0 /\ left' = [left EXCEPT !.work = @ - 1]
Use(t, q) == lateUse' = IF q \in queues THEN lateUse ELSE lateUse \cup {t}

\* mg_wakeup drops the message of a full socket pair
Wakeup == pipe' = IF pipe < PipeCap THEN pipe + 1 ELSE pipe

\* the entry, and the notification that follows it
NewEntry(q) ==
  /\ entries' = IF q = "script" THEN entries + 1 ELSE entries
  /\ eventfd' = IF q = "api" THEN eventfd + 1 ELSE eventfd

\* pthread_cond_signal(&script_queue->wakeup)
SignalScripts(stages) ==
  IF stages["scripts"] = "waiting" THEN [stages EXCEPT !["scripts"] = "woken"] ELSE stages
-----------------------------------------------------------------------------
(* main *)

\* pthread_create; a failure resets a handle and sets the flag, but wakes nobody
Create(t, stage, next, reset) ==
  /\ At(Main, stage)
  /\ \/ pc' = [pc EXCEPT ![Main] = next, ![t] = "test"]
        /\ handles' = handles \cup {t} /\ UNCHANGED <<flag, failed>>
     \/ /\ Goto(Main, next) /\ handles' = handles \ {reset}
        /\ flag' = TRUE /\ failed' = TRUE
  /\ UNCHANGED <<handler, lock, shared, queues, left, lateUse, announced, missed>>

CreateApi == Create("api", "create api", "create scripts", "api")

\* The code resets webserver_thread, which is not set yet.  A script_thread that
\* was not created is 0 or stale, and pthread_join returns at once for both.
CreateScripts == Create("scripts", "create scripts", "create webserver", "webserver")

\* mutant: the wrong handle is reset
CreateWebserverResets == Create("webserver", "create webserver", "join webserver", "api")

CreateWebserver == Create("webserver", "create webserver", "join webserver", "webserver")

Join(t, stage, next) ==
  /\ At(Main, stage)
  /\ t \in handles => pc[t] = "ended"
  /\ Goto(Main, next)
  /\ UNCHANGED <<handler, handles, flag, lock, shared, queues, left, lateUse, marks>>

Joins == \/ Join("webserver", "join webserver", "join api")
         \/ Join("api", "join api", "join scripts")
         \/ Join("scripts", "join scripts", "free")

FreeOrder == <<"webserver", "api", "script", "worker">>
NextQueue == FreeOrder[5 - Cardinality(queues)]

\* mympd_queue_free: the expiry of all entries locks and unlocks the mutex
FreeQueueLock ==
  /\ At(Main, "free") /\ NextQueue \in Locks /\ Acquire(Main, NextQueue)
  /\ UNCHANGED <<pc, handler, handles, flag, shared, queues, left, lateUse, marks>>

FreeQueue ==
  /\ At(Main, "free")
  /\ IF NextQueue \in Locks THEN Release(Main, NextQueue) ELSE UNCHANGED lock
  /\ queues' = queues \ {NextQueue}
  /\ IF queues' = {} THEN Goto(Main, "exited") ELSE UNCHANGED pc
  /\ UNCHANGED <<handler, handles, flag, shared, left, lateUse, marks>>
-----------------------------------------------------------------------------
(* mympd_queue_push to the queue of the api or the scripts thread, by any   *)
(* thread; next is where the thread goes on                                 *)

PushLock(t, stage, next) ==
  /\ At(t, stage)
  /\ \E q \in Locks :
       /\ Use(t, q)
       /\ IF q \in queues THEN Acquire(t, q) /\ Goto(t, next)
          ELSE Goto(t, "ended") /\ UNCHANGED lock
  /\ UNCHANGED <<handler, handles, flag, shared, queues, left, marks>>

PushUnlock(t, stage, next) ==
  /\ At(t, stage)
  /\ \E q \in Locks :
       /\ Release(t, q) /\ NewEntry(q)
       /\ pc' = [(IF q = "script" THEN SignalScripts(pc) ELSE pc) EXCEPT ![t] = next]
  /\ UNCHANGED <<handler, handles, flag, pipe, queues, left, lateUse, marks>>

Push(t) == \/ PushLock(t, "push", "pushing")
           \/ PushUnlock(t, "pushing", IF t \in Detached THEN "handle" ELSE "test")

\* mympd_queue_push(webserver_queue, ...) by a thread that answers or notifies
PushResponse(t, next) ==
  /\ Use(t, "webserver") /\ Goto(t, next)
  /\ IF "webserver" \in queues THEN Wakeup ELSE UNCHANGED pipe
-----------------------------------------------------------------------------
(* The loops.  while (s_signal_received == 0)                               *)

Test(t, next) ==
  /\ At(t, "test")
  /\ Goto(t, IF flag THEN "stop" ELSE next)
  /\ UNCHANGED <<handler, handles, flag, lock, shared, queues, left, lateUse, marks>>

\* webserver_loop: mg_mgr_poll(mgr, -1) returns for a message of the socket pair or
\* for a connection, whose request may be forwarded
WebserverPoll ==
  /\ At("webserver", "poll")
  /\ \/ pipe > 0 /\ pipe' = pipe - 1 /\ Goto("webserver", "test") /\ UNCHANGED left
     \/ Work /\ (Goto("webserver", "test") \/ Goto("webserver", "push")) /\ UNCHANGED pipe
  /\ UNCHANGED <<handler, handles, flag, lock, entries, eventfd, queues, lateUse, marks>>

WebserverStop ==
  /\ At("webserver", "stop") /\ Goto("webserver", "ended")
  /\ UNCHANGED <<handler, handles, flag, lock, shared, queues, left, lateUse, marks>>

\* mympd_api_loop: poll(..., -1) returns for the eventfd, which is read before the
\* queue, or for another descriptor
ApiPoll ==
  /\ At("api", "poll")
  /\ \/ eventfd > 0 /\ eventfd' = eventfd - 1 /\ Goto("api", "shift") /\ UNCHANGED left
     \/ Work /\ Goto("api", "handle") /\ UNCHANGED eventfd
  /\ UNCHANGED <<handler, handles, flag, lock, entries, pipe, queues, lateUse, marks>>

ApiShift ==
  /\ \/ At("api", "shift") /\ Acquire("api", "api") /\ Goto("api", "shifting")
     \/ At("api", "shifting") /\ Release("api", "api") /\ Goto("api", "handle")
  /\ Use("api", "api")
  /\ UNCHANGED <<handler, handles, flag, shared, queues, left, marks>>

\* a response or a notification, a push for a script or a worker's result, a worker
ApiHandle ==
  /\ At("api", "handle")
  /\ \/ PushResponse("api", "test") /\ UNCHANGED left
     \/ Work /\ Goto("api", "push") /\ UNCHANGED <<pipe, lateUse>>
     \/ \E d \in Detached : /\ pc[d] = "none"
                            /\ pc' = [pc EXCEPT !["api"] = "test", ![d] = "handle"]
                            /\ UNCHANGED <<pipe, lateUse, left>>
     \/ Goto("api", "test") /\ UNCHANGED <<pipe, lateUse, left>>
  /\ UNCHANGED <<handler, handles, flag, lock, entries, eventfd, queues, marks>>

\* the scripts of the trigger MYMPD_STOP, then the states are saved
ApiStop ==
  \/ PushLock("api", "stop", "stopping") /\ lock'["script"] = "api"
  \/ PushUnlock("api", "stopping", "ended")
  \/ /\ At("api", "stop") /\ Goto("api", "ended")
     /\ UNCHANGED <<handler, handles, flag, lock, shared, queues, left, lateUse, marks>>

\* scripts_loop: mympd_queue_shift(script_queue, 0, 0)
ScriptsLock ==
  /\ \/ At("scripts", "shift") /\ Goto("scripts", "shifting")
     \/ At("scripts", "woken") /\ Goto("scripts", "rescan")
  /\ Acquire("scripts", "script") /\ Use("scripts", "script")
  /\ UNCHANGED <<handler, handles, flag, shared, queues, left, marks>>

ScriptsTake ==
  /\ At("scripts", "shifting") \/ At("scripts", "rescan")
  /\ Release("scripts", "script")
  /\ IF entries > 0 THEN entries' = entries - 1 /\ Goto("scripts", "handle")
     ELSE /\ Goto("scripts", IF pc["scripts"] = "shifting" THEN "waiting" ELSE "test")
          /\ UNCHANGED entries
  /\ UNCHANGED <<handler, handles, flag, eventfd, pipe, queues, left, lateUse, marks>>

\* scripts_api_handler: an answer, script_start, or neither (SIGHUP, too many threads)
ScriptsHandle ==
  /\ At("scripts", "handle")
  /\ \/ PushResponse("scripts", "test")
     \/ \E d \in Detached : /\ pc[d] = "none"
                            /\ pc' = [pc EXCEPT !["scripts"] = "test", ![d] = "handle"]
                            /\ UNCHANGED <<pipe, lateUse>>
     \/ Goto("scripts", "test") /\ UNCHANGED <<pipe, lateUse>>
  /\ UNCHANGED <<handler, handles, flag, lock, entries, eventfd, queues, left, marks>>

ScriptsStop ==
  /\ At("scripts", "stop") /\ Goto("scripts", "ended")
  /\ UNCHANGED <<handler, handles, flag, lock, shared, queues, left, lateUse, marks>>

\* script_run and mympd_worker_run: pushes of requests, the last message if there is one
DetachedStep(d) ==
  /\ At(d, "handle")
  /\ \/ Work /\ Goto(d, "push") /\ UNCHANGED <<pipe, lateUse>>
     \/ PushResponse(d, "ended") /\ UNCHANGED left
     \/ Goto(d, "ended") /\ UNCHANGED <<pipe, lateUse, left>>
  /\ UNCHANGED <<handler, handles, flag, lock, entries, eventfd, queues, marks>>
-----------------------------------------------------------------------------
(* mympd_signal_handler, on thread t                                        *)

Interrupt(t) ==
  /\ Alive(t) /\ handler[t] = "none"
  /\ \/ /\ left.term > 0 /\ left' = [left EXCEPT !.term = @ - 1]
        /\ handler' = [handler EXCEPT ![t] = "flag"]
     \/ /\ left.hup > 0 /\ left' = [left EXCEPT !.hup = @ - 1]
        /\ handler' = [handler EXCEPT ![t] = "save api"]
  /\ UNCHANGED <<pc, handles, flag, lock, shared, queues, lateUse, marks>>

In(t, stage) == handler[t] = stage /\ ~Exited
HandlerNext(t, stage) == handler' = [handler EXCEPT ![t] = stage]

SetFlag(t) ==
  /\ In(t, "flag") /\ flag' = TRUE /\ HandlerNext(t, "signal")
  /\ UNCHANGED <<pc, handles, lock, shared, queues, left, lateUse, marks>>

\* mutant: the condition of the scripts thread is not signalled
SignalSkipped(t) ==
  /\ In(t, "signal") /\ HandlerNext(t, "event")
  /\ UNCHANGED <<pc, handles, flag, lock, shared, queues, left, lateUse, marks>>

\* the other three conditions have no waiter, or one that waits with a timeout
Signal(t) ==
  /\ In(t, "signal") /\ HandlerNext(t, "event")
  /\ pc' = IF "script" \in queues THEN SignalScripts(pc) ELSE pc
  /\ missed' = (pc["scripts"] \in {"shift", "shifting"})
  /\ Use(t, "script")
  /\ UNCHANGED <<handles, flag, lock, shared, queues, left, failed, announced>>

\* mutant: the eventfd is not written
EventSkipped(t) ==
  /\ In(t, "event") /\ HandlerNext(t, "wakeup")
  /\ UNCHANGED <<pc, handles, flag, lock, shared, queues, left, lateUse, marks>>

Event(t) ==
  /\ In(t, "event") /\ HandlerNext(t, "wakeup")
  /\ eventfd' = IF "api" \in queues THEN eventfd + 1 ELSE eventfd
  /\ Use(t, "api")
  /\ UNCHANGED <<pc, handles, flag, lock, entries, pipe, queues, left, marks>>

WakeWebserver(t) ==
  /\ In(t, "wakeup") /\ HandlerNext(t, "none") /\ announced' = TRUE
  /\ IF "webserver" \in queues THEN Wakeup ELSE UNCHANGED pipe
  /\ Use(t, "webserver")
  /\ UNCHANGED <<pc, handles, flag, lock, entries, eventfd, queues, left, failed, missed>>

\* SIGHUP: pushes to both queues, each with the mutex of the queue
SaveStates(t, stage, next, q) ==
  /\ In(t, stage) /\ HandlerNext(t, next) /\ Use(t, q)
  /\ IF q \in queues
     THEN /\ lock[q] = Free /\ NewEntry(q)
          /\ pc' = IF q = "script" THEN SignalScripts(pc) ELSE pc
     ELSE UNCHANGED <<pc, entries, eventfd>>
  /\ UNCHANGED <<handles, flag, lock, pipe, queues, left, marks>>

SaveApi(t) == SaveStates(t, "save api", "save scripts", "api")
SaveScripts(t) == SaveStates(t, "save scripts", "none", "script")

Handler(t) == \/ SetFlag(t) \/ Signal(t) \/ Event(t) \/ WakeWebserver(t)
              \/ SaveApi(t) \/ SaveScripts(t)
-----------------------------------------------------------------------------
MainStep == CreateApi \/ CreateScripts \/ CreateWebserver \/ Joins \/ FreeQueueLock \/ FreeQueue
WebserverStep == Test("webserver", "poll") \/ WebserverPoll \/ WebserverStop \/ Push("webserver")
ApiStep == Test("api", "poll") \/ ApiPoll \/ ApiShift \/ ApiHandle \/ ApiStop \/ Push("api")
ScriptsStep == \/ Test("scripts", "shift") \/ ScriptsLock \/ ScriptsTake \/ ScriptsHandle
               \/ ScriptsStop

Next == \/ MainStep \/ WebserverStep \/ ApiStep \/ ScriptsStep
        \/ \E d \in Detached : DetachedStep(d) \/ Push(d)
        \/ \E t \in Threads : Interrupt(t) \/ Handler(t)

\* The threads of main run on, and so do handlers and critical sections.  A
\* script or a worker may run for ever; signals and outside events may not come.
Fairness ==
  /\ WF_vars(MainStep) /\ WF_vars(WebserverStep) /\ WF_vars(ApiStep) /\ WF_vars(ScriptsStep)
  /\ \A d \in Detached : WF_vars(Push(d))
  /\ \A t \in Threads : WF_vars(Handler(t))

Spec == Init /\ [][Next]_vars
FairSpec == Spec /\ Fairness
-----------------------------------------------------------------------------
(* main frees the queues when nobody it has created can use them any more,  *)
(* whichever thread could not be created.  Detached threads and handlers    *)
(* that interrupt main may use them after that (main.c:418).                *)
JoinedBeforeFree == lateUse \cap Joined = {}

\* A handler of SIGHUP waits for a mutex the interrupted thread holds
SelfLocked == \E t \in Threads : \/ handler[t] = "save api" /\ lock["api"] = t
                                 \/ handler[t] = "save scripts" /\ lock["script"] = t

(* After SIGTERM neither the webserver nor the api thread blocks in its     *)
(* poll, whatever it was doing when the flag was set and however full the   *)
(* socket pair was (signal.c:65-69).                                        *)
LoopsEnd == <>[](announced => pc["webserver"] # "poll" /\ pc["api"] # "poll")

(* myMPD ends after SIGTERM or a failed start.  The exceptions: the scripts *)
(* thread waits without having seen flag or signal (scripts.c:42), nobody   *)
(* was woken after a failed start (main.c:356), a handler waits for the     *)
(* thread it interrupted (signal.c:75).                                     *)
Ends ==
  LET Lost == missed /\ pc["scripts"] = "waiting"
  IN  <>[](flag => Exited \/ Lost \/ SelfLocked \/ (failed /\ ~announced))

(* SIGTERM ends the three loops, and then the program.                     *)
Terminates == LoopsEnd /\ Ends
=============================================================================
