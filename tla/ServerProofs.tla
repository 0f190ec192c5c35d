----------------------------- MODULE ServerProofs -----------------------------
(***************************************************************************)
(* The program and its webserver, for any detached threads, browsers,      *)
(* connections and requests, and any number of signals and outside events: *)
(* main frees the queues when none of the threads it has created can use   *)
(* them; the connections of the proxy are consistent (ProxyOK), and the    *)
(* responses on the connections of browsers are in order (InOrder).        *)
(***************************************************************************)
EXTENDS Lifecycle, Webserver, FiniteSetTheorems, TLAPS

-----------------------------------------------------------------------------
(* The life cycle of the program.                                          *)

Quiet(t) == pc[t] \in {"none", "ended"}

\* What the stage of main says of the threads it creates and joins
Order ==
  /\ pc[Main] \in MainStages
  /\ pc[Main] = "create api" => pc["api"] = "none"
  /\ pc[Main] \in {"create api", "create scripts"} => pc["scripts"] = "none"
  /\ pc[Main] \in {"create api", "create scripts", "create webserver"}
       => pc["webserver"] = "none"
  /\ pc[Main] \in {"join api", "join scripts", "free", "exited"} => Quiet("webserver")
  /\ pc[Main] \in {"join scripts", "free", "exited"} => Quiet("api")
  /\ pc[Main] \in {"free", "exited"} => Quiet("scripts")
  /\ \A t \in Joined : pc[t] # "none" => t \in handles

\* A handler interrupts a thread that runs, and the thread waits for it
HostsRun == \A t \in Threads : handler[t] # "none" => ~Quiet(t)

FreedLast == queues # Queues => pc[Main] \in {"free", "exited"}

LifeInv ==
  /\ pc \in [Threads -> Stages \cup MainStages]
  /\ handler \in [Threads -> HandlerStages]
  /\ Order /\ HostsRun /\ FreedLast /\ JoinedBeforeFree

\* What a step of thread t may do to the other threads
Others(t) ==
  \A u \in Threads \ {t} : \/ pc'[u] = pc[u]
                           \/ u = "scripts" /\ pc[u] = "waiting" /\ pc'[u] = "woken"
                           \/ u \in Detached /\ pc[u] = "none" /\ pc'[u] = "handle"

LEMMA Names ==
  /\ Main \in Threads /\ Joined \subseteq Threads /\ Detached \subseteq Threads
  /\ Main \notin Joined /\ Main \notin Detached
  /\ \A d \in Detached : d \notin Joined
  /\ \A t \in Threads : t = Main \/ t \in Joined \/ t \in Detached
  /\ Joined = {"webserver", "api", "scripts"} /\ Main = "main"
BY LifecycleAssumption DEF Main, Joined, Threads


\* A step of thread t between its start and its end, which uses freed queues at
\* most as itself
OwnStep(t) ==
  /\ ~Quiet(t) /\ handler[t] = "none"
  /\ Others(t) /\ pc' \in [Threads -> Stages \cup MainStages] /\ pc'[t] # "none"
  /\ handler' = handler /\ handles' = handles /\ queues' = queues
  /\ lateUse' = lateUse \/ (queues # Queues /\ lateUse' = lateUse \cup {t})

LEMMA OwnStepKeeps ==
  ASSUME LifeInv, NEW t \in Threads \ {Main}, OwnStep(t)
  PROVE  LifeInv'
<1> USE DEF OwnStep
<1>1. pc'[Main] = pc[Main] /\ Main \in Threads
  BY Names DEF Others
<1>2. \A u \in Joined \ {t} : pc[u] # pc'[u] => ~Quiet(u) /\ ~Quiet(u)'
  BY Names DEF Others, Quiet
<1>3. t \in Joined => queues = Queues
  BY Names DEF LifeInv, Order, FreedLast, Quiet
<1>4. Order'
  BY <1>1, <1>2, Names DEF LifeInv, Order, Quiet
<1>5. HostsRun'
  BY Names DEF LifeInv, HostsRun, Others, Quiet
<1>6. FreedLast'
  BY <1>1 DEF LifeInv, FreedLast
<1>7. JoinedBeforeFree'
  BY <1>3 DEF LifeInv, JoinedBeforeFree
<1> QED
  BY <1>4, <1>5, <1>6, <1>7 DEF LifeInv

\* One thread goes on to a stage that is not "none"; it may wake or start another
LEMMA MoveIsOwn ==
  ASSUME LifeInv, NEW t \in Threads \ {Main}, NEW stage, NEW next \in Stages,
         At(t, stage), stage \notin {"none", "ended"}, next # "none",
         \/ pc' = [pc EXCEPT ![t] = next]
         \/ pc' = [SignalScripts(pc) EXCEPT ![t] = next]
         \/ \E d \in Detached : pc[d] = "none" /\ pc' = [pc EXCEPT ![t] = next, ![d] = "handle"],
         handler' = handler, handles' = handles, queues' = queues,
         lateUse' = lateUse \/ \E q \in Queues : Use(t, q)
  PROVE  LifeInv'
<1>1. ~Quiet(t) /\ handler[t] = "none" /\ pc[t] = stage
  BY DEF At, Quiet
<1>2. pc' \in [Threads -> Stages \cup MainStages] /\ pc'[t] # "none" /\ Others(t)
  <2>1. CASE pc' = [pc EXCEPT ![t] = next]
    BY <2>1, Names DEF LifeInv, Others
  <2>2. CASE pc' = [SignalScripts(pc) EXCEPT ![t] = next]
    BY <2>2, Names DEF LifeInv, Others, SignalScripts, Stages
  <2>3. ASSUME NEW d \in Detached, pc[d] = "none", pc' = [pc EXCEPT ![t] = next, ![d] = "handle"]
        PROVE  pc' \in [Threads -> Stages \cup MainStages] /\ pc'[t] # "none" /\ Others(t)
    BY <1>1, <2>3, Names DEF LifeInv, Others, Stages
  <2> QED
    BY <2>1, <2>2, <2>3
<1>3. lateUse' = lateUse \/ (queues # Queues /\ lateUse' = lateUse \cup {t})
  BY DEF Use
<1> QED
  BY <1>1, <1>2, <1>3, OwnStepKeeps DEF OwnStep
-----------------------------------------------------------------------------
LEMMA PushKeeps ==
  ASSUME LifeInv, NEW t \in Threads \ {Main}, NEW stage \in Stages, NEW next \in Stages,
         stage \notin {"none", "ended"}, next # "none",
         PushLock(t, stage, next) \/ PushUnlock(t, stage, next)
  PROVE  LifeInv'
<1>1. CASE PushLock(t, stage, next)
  <2>1. PICK q \in Locks :
          /\ Use(t, q)
          /\ IF q \in queues THEN Acquire(t, q) /\ Goto(t, next)
             ELSE Goto(t, "ended") /\ UNCHANGED lock
    BY <1>1 DEF PushLock
  <2>2. At(t, stage) /\ UNCHANGED <<handler, handles, queues>> /\ q \in Queues
    BY <1>1 DEF PushLock, Locks, Queues
  <2>3. PICK to \in {next, "ended"} : pc' = [pc EXCEPT ![t] = to]
    BY <2>1 DEF Goto
  <2>4. to \in Stages /\ to # "none"
    BY DEF Stages
  <2> QED
    BY <2>1, <2>2, <2>3, <2>4, MoveIsOwn
<1>2. CASE PushUnlock(t, stage, next)
  <2>1. At(t, stage) /\ UNCHANGED <<handler, handles, queues, lateUse>>
    BY <1>2 DEF PushUnlock
  <2>2. \/ pc' = [pc EXCEPT ![t] = next]
        \/ pc' = [SignalScripts(pc) EXCEPT ![t] = next]
    BY <1>2 DEF PushUnlock
  <2> QED
    BY <2>1, <2>2, MoveIsOwn
<1> QED
  BY <1>1, <1>2

\* The loops of the three threads, and the detached threads
LEMMA LoopsKeep ==
  ASSUME LifeInv, WebserverStep \/ ApiStep \/ ScriptsStep
  PROVE  LifeInv'
<1> USE DEF Goto
<1>0. /\ {"webserver", "api", "scripts"} \subseteq Threads \ {Main}
      /\ {"webserver", "api", "script"} \subseteq Queues
  BY Names DEF Queues
<1>1. ASSUME NEW t \in Joined, NEW next \in Stages, next # "none", Test(t, next) PROVE LifeInv'
  <2>1. PICK to \in {next, "stop"} : pc' = [pc EXCEPT ![t] = to]
    BY <1>1 DEF Test
  <2>2. At(t, "test") /\ UNCHANGED <<handler, handles, queues, lateUse>>
    BY <1>1 DEF Test
  <2>3. to \in Stages /\ to # "none" /\ t \in Threads \ {Main}
    BY <1>1, Names DEF Stages
  <2> QED
    BY <2>1, <2>2, <2>3, MoveIsOwn
<1>2. ASSUME NEW t \in Joined, Push(t) PROVE LifeInv'
  <2>1. /\ t \in Threads \ {Main} /\ t \notin Detached
        /\ "push" \in Stages /\ "pushing" \in Stages /\ "test" \in Stages
    BY Names DEF Stages
  <2>2. PushLock(t, "push", "pushing") \/ PushUnlock(t, "pushing", "test")
    BY <1>2, <2>1 DEF Push
  <2> QED
    BY <2>1, <2>2, PushKeeps
<1>3. CASE WebserverPoll \/ WebserverStop
  <2>1. PICK to \in {"test", "push", "ended"} : pc' = [pc EXCEPT !["webserver"] = to]
    BY <1>3 DEF WebserverPoll, WebserverStop
  <2>2. /\ At("webserver", "poll") \/ At("webserver", "stop")
        /\ UNCHANGED <<handler, handles, queues, lateUse>>
    BY <1>3 DEF WebserverPoll, WebserverStop
  <2>3. to \in Stages /\ to # "none"
    BY DEF Stages
  <2> QED
    BY <1>0, <2>1, <2>2, <2>3, MoveIsOwn
<1>4. CASE ApiPoll \/ ApiShift
  <2>1. PICK to \in {"shift", "handle", "shifting"} : pc' = [pc EXCEPT !["api"] = to]
    BY <1>4 DEF ApiPoll, ApiShift
  <2>2. /\ At("api", "poll") \/ At("api", "shift") \/ At("api", "shifting")
        /\ UNCHANGED <<handler, handles, queues>>
        /\ lateUse' = lateUse \/ Use("api", "api")
    BY <1>4 DEF ApiPoll, ApiShift
  <2>3. to \in Stages /\ to # "none"
    BY DEF Stages
  <2> QED
    BY <1>0, <2>1, <2>2, <2>3, MoveIsOwn
<1>5. CASE ApiHandle
  <2>1. /\ At("api", "handle") /\ UNCHANGED <<handler, handles, queues>>
        /\ lateUse' = lateUse \/ Use("api", "webserver")
    BY <1>5 DEF ApiHandle, PushResponse
  <2>2. PICK to \in {"test", "push"} :
          \/ pc' = [pc EXCEPT !["api"] = to]
          \/ \E d \in Detached : /\ pc[d] = "none"
                                 /\ pc' = [pc EXCEPT !["api"] = to, ![d] = "handle"]
    BY <1>5 DEF ApiHandle, PushResponse
  <2>3. to \in Stages /\ to # "none"
    BY DEF Stages
  <2> QED
    BY <1>0, <2>1, <2>2, <2>3, MoveIsOwn
<1>6. CASE ApiStop
  <2>0. /\ "stop" \in Stages /\ "stopping" \in Stages /\ "ended" \in Stages
    BY DEF Stages
  <2>1. CASE PushLock("api", "stop", "stopping") \/ PushUnlock("api", "stopping", "ended")
    BY <1>0, <2>0, <2>1, PushKeeps
  <2>2. CASE /\ At("api", "stop") /\ Goto("api", "ended")
             /\ UNCHANGED <<handler, handles, queues, lateUse>>
    BY <1>0, <2>0, <2>2, MoveIsOwn
  <2> QED
    BY <1>6, <2>1, <2>2 DEF ApiStop
<1>7. CASE ScriptsLock \/ ScriptsTake \/ ScriptsStop
  <2>1. PICK to \in {"shifting", "rescan", "handle", "waiting", "test", "ended"} :
          pc' = [pc EXCEPT !["scripts"] = to]
    BY <1>7 DEF ScriptsLock, ScriptsTake, ScriptsStop
  <2>2. /\ \E from \in {"shift", "woken", "shifting", "rescan", "stop"} : At("scripts", from)
        /\ UNCHANGED <<handler, handles, queues>>
        /\ lateUse' = lateUse \/ Use("scripts", "script")
    BY <1>7 DEF ScriptsLock, ScriptsTake, ScriptsStop
  <2>3. to \in Stages /\ to # "none"
    BY DEF Stages
  <2> QED
    BY <1>0, <2>1, <2>2, <2>3, MoveIsOwn
<1>8. CASE ScriptsHandle
  <2>1. /\ At("scripts", "handle") /\ UNCHANGED <<handler, handles, queues>>
        /\ lateUse' = lateUse \/ Use("scripts", "webserver")
    BY <1>8 DEF ScriptsHandle, PushResponse
  <2>2. \/ pc' = [pc EXCEPT !["scripts"] = "test"]
        \/ \E d \in Detached : /\ pc[d] = "none"
                               /\ pc' = [pc EXCEPT !["scripts"] = "test", ![d] = "handle"]
    BY <1>8 DEF ScriptsHandle, PushResponse
  <2>3. "test" \in Stages
    BY DEF Stages
  <2> QED
    BY <1>0, <2>1, <2>2, <2>3, MoveIsOwn
<1>9. /\ {"poll", "shift"} \subseteq Stages
      /\ {"webserver", "api", "scripts"} \subseteq Joined
  BY Names DEF Stages
<1>10. CASE WebserverStep
  BY <1>1, <1>2, <1>3, <1>9, <1>10 DEF WebserverStep
<1>11. CASE ApiStep
  BY <1>1, <1>2, <1>4, <1>5, <1>6, <1>9, <1>11 DEF ApiStep
<1>12. CASE ScriptsStep
  BY <1>1, <1>7, <1>8, <1>9, <1>12 DEF ScriptsStep
<1> QED
  BY <1>10, <1>11, <1>12

LEMMA DetachedKeep ==
  ASSUME LifeInv, NEW d \in Detached, DetachedStep(d) \/ Push(d)
  PROVE  LifeInv'
<1>0. /\ d \in Threads \ {Main} /\ "webserver" \in Queues
      /\ {"push", "pushing", "handle", "ended"} \subseteq Stages
  BY Names DEF Queues, Stages
<1>1. CASE DetachedStep(d)
  <2>1. PICK to \in {"push", "ended"} : pc' = [pc EXCEPT ![d] = to]
    BY <1>1 DEF DetachedStep, PushResponse, Goto
  <2>2. /\ At(d, "handle") /\ UNCHANGED <<handler, handles, queues>>
        /\ lateUse' = lateUse \/ Use(d, "webserver")
    BY <1>1 DEF DetachedStep, PushResponse
  <2> QED
    BY <1>0, <2>1, <2>2, MoveIsOwn
<1>2. CASE PushLock(d, "push", "pushing") \/ PushUnlock(d, "pushing", "handle")
  BY <1>0, <1>2, PushKeeps
<1> QED
  BY <1>1, <1>2 DEF Push
-----------------------------------------------------------------------------
\* main creates the threads in this order, which Order follows
LEMMA CreateKeeps ==
  ASSUME LifeInv, CreateApi \/ CreateScripts \/ CreateWebserver
  PROVE  LifeInv'
<1> USE DEF Create, Goto
<1>1. /\ UNCHANGED <<handler, queues, lateUse>> /\ pc[Main] \notin {"free", "exited"}
      /\ pc' \in [Threads -> Stages \cup MainStages] /\ queues = Queues
      /\ handler[Main] = "none"
  <2>1. /\ UNCHANGED <<handler, queues, lateUse>> /\ pc[Main] \notin {"free", "exited"}
        /\ handler[Main] = "none"
    BY DEF CreateApi, CreateScripts, CreateWebserver, At
  <2>2. pc' \in [Threads -> Stages \cup MainStages]
    BY Names DEF CreateApi, CreateScripts, CreateWebserver, LifeInv, Stages, MainStages
  <2> QED
    BY <2>1, <2>2 DEF LifeInv, FreedLast
<1>2. CASE CreateApi
  <2>1. pc[Main] = "create api" /\ pc'[Main] = "create scripts"
        /\ \A u \in Threads \ {Main, "api"} : pc'[u] = pc[u]
        /\ \/ pc'["api"] = pc["api"] /\ handles' = handles \ {"api"}
           \/ pc'["api"] = "test" /\ handles' = handles \cup {"api"}
    BY <1>2, Names DEF CreateApi, At, LifeInv
  <2>2. Order'
    BY <2>1, Names DEF LifeInv, Order, Quiet, MainStages
  <2>3. HostsRun'
    BY <1>1, <2>1, Names DEF LifeInv, HostsRun, Quiet
  <2> QED
    BY <1>1, <2>2, <2>3 DEF LifeInv, FreedLast, JoinedBeforeFree
<1>3. CASE CreateScripts
  <2>1. pc[Main] = "create scripts" /\ pc'[Main] = "create webserver"
        /\ \A u \in Threads \ {Main, "scripts"} : pc'[u] = pc[u]
        /\ \/ pc'["scripts"] = pc["scripts"] /\ handles' = handles \ {"webserver"}
           \/ pc'["scripts"] = "test" /\ handles' = handles \cup {"scripts"}
    BY <1>3, Names DEF CreateScripts, At, LifeInv
  <2>2. Order'
    BY <2>1, Names DEF LifeInv, Order, Quiet, MainStages
  <2>3. HostsRun'
    BY <1>1, <2>1, Names DEF LifeInv, HostsRun, Quiet
  <2> QED
    BY <1>1, <2>2, <2>3 DEF LifeInv, FreedLast, JoinedBeforeFree
<1>4. CASE CreateWebserver
  <2>1. pc[Main] = "create webserver" /\ pc'[Main] = "join webserver"
        /\ \A u \in Threads \ {Main, "webserver"} : pc'[u] = pc[u]
        /\ \/ pc'["webserver"] = pc["webserver"] /\ handles' = handles \ {"webserver"}
           \/ pc'["webserver"] = "test" /\ handles' = handles \cup {"webserver"}
    BY <1>4, Names DEF CreateWebserver, At, LifeInv
  <2>2. Order'
    BY <2>1, Names DEF LifeInv, Order, Quiet, MainStages
  <2>3. HostsRun'
    BY <1>1, <2>1, Names DEF LifeInv, HostsRun, Quiet
  <2> QED
    BY <1>1, <2>2, <2>3 DEF LifeInv, FreedLast, JoinedBeforeFree
<1> QED
  BY <1>2, <1>3, <1>4

\* main joins a thread that has ended, or that it could not create
LEMMA JoinKeeps ==
  ASSUME LifeInv, Joins PROVE LifeInv'
<1>1. /\ UNCHANGED <<handler, handles, queues, lateUse>>
      /\ handler[Main] = "none" /\ pc[Main] \notin {"free", "exited"}
      /\ \A u \in Threads \ {Main} : pc'[u] = pc[u]
  BY Names DEF Joins, Join, At, Goto, LifeInv
<1>2. pc' \in [Threads -> Stages \cup MainStages]
  BY Names DEF Joins, Join, Goto, LifeInv, Stages, MainStages
<1>3. Order'
  <2>1. ASSUME NEW t \in Joined, NEW stage, NEW next, Join(t, stage, next)
        PROVE  pc[Main] = stage /\ pc'[Main] = next /\ Quiet(t)
    BY <2>1, Names DEF Join, At, Goto, LifeInv, Order, Quiet
  <2>2. CASE Join("webserver", "join webserver", "join api")
    <3>1. pc[Main] = "join webserver" /\ pc'[Main] = "join api" /\ Quiet("webserver")
      BY <2>1, <2>2, Names
    <3> QED
      BY <1>1, <3>1, Names DEF LifeInv, Order, Quiet, MainStages
  <2>3. CASE Join("api", "join api", "join scripts")
    <3>1. pc[Main] = "join api" /\ pc'[Main] = "join scripts" /\ Quiet("api")
      BY <2>1, <2>3, Names
    <3> QED
      BY <1>1, <3>1, Names DEF LifeInv, Order, Quiet, MainStages
  <2>4. CASE Join("scripts", "join scripts", "free")
    <3>1. pc[Main] = "join scripts" /\ pc'[Main] = "free" /\ Quiet("scripts")
      BY <2>1, <2>4, Names
    <3> QED
      BY <1>1, <3>1, Names DEF LifeInv, Order, Quiet, MainStages
  <2> QED
    BY <2>2, <2>3, <2>4 DEF Joins
<1>4. HostsRun'
  BY <1>1, Names DEF LifeInv, HostsRun, Quiet
<1> QED
  BY <1>1, <1>2, <1>3, <1>4 DEF LifeInv, FreedLast, JoinedBeforeFree

LEMMA FreeKeeps ==
  ASSUME LifeInv, FreeQueueLock \/ FreeQueue PROVE LifeInv'
<1>1. /\ UNCHANGED <<handler, handles, lateUse>>
      /\ handler[Main] = "none" /\ pc[Main] = "free"
      /\ \A u \in Threads \ {Main} : pc'[u] = pc[u]
      /\ pc'[Main] \in {"free", "exited"}
  BY Names DEF FreeQueueLock, FreeQueue, At, Goto, LifeInv
<1>2. pc' \in [Threads -> Stages \cup MainStages]
  BY Names DEF FreeQueueLock, FreeQueue, Goto, LifeInv, Stages, MainStages
<1>3. Order'
  BY <1>1, Names DEF LifeInv, Order, Quiet, MainStages
<1>4. HostsRun'
  BY <1>1, Names DEF LifeInv, HostsRun, Quiet
<1> QED
  BY <1>1, <1>2, <1>3, <1>4 DEF LifeInv, FreedLast, JoinedBeforeFree
-----------------------------------------------------------------------------
LEMMA InterruptKeeps ==
  ASSUME LifeInv, NEW t \in Threads, Interrupt(t) PROVE LifeInv'
<1>1. ~Quiet(t) /\ UNCHANGED <<pc, handles, queues, lateUse>>
  BY DEF Interrupt, Alive, Quiet
<1>2. handler' \in [Threads -> HandlerStages] /\ \A u \in Threads \ {t} : handler'[u] = handler[u]
  BY DEF Interrupt, LifeInv, HandlerStages
<1> QED
  BY <1>1, <1>2 DEF LifeInv, Order, HostsRun, FreedLast, JoinedBeforeFree, Quiet

\* The host of a handler is alive; if main joined it, no queue is freed
LEMMA HandlerKeeps ==
  ASSUME LifeInv, NEW t \in Threads, Handler(t) PROVE LifeInv'
<1> USE DEF Handler, SetFlag, Signal, Event, WakeWebserver, SaveApi, SaveScripts, SaveStates
<1>1. UNCHANGED <<handles, queues>> /\ handler[t] # "none"
  BY DEF In
<1>2. /\ handler' \in [Threads -> HandlerStages]
      /\ \A u \in Threads \ {t} : handler'[u] = handler[u]
  BY DEF HandlerNext, LifeInv, HandlerStages
<1>3. pc' = pc \/ pc' = SignalScripts(pc)
  OBVIOUS
<1>4. lateUse' = lateUse \/ \E q \in Queues : Use(t, q)
  BY DEF Queues
<1>5. t \in Joined => queues = Queues
  BY <1>1, Names DEF LifeInv, Order, HostsRun, FreedLast, Quiet
<1>6. /\ pc' \in [Threads -> Stages \cup MainStages]
      /\ \A u \in Threads : \/ pc'[u] = pc[u]
                            \/ u = "scripts" /\ pc[u] = "waiting" /\ pc'[u] = "woken"
  BY <1>3, Names DEF SignalScripts, LifeInv, Stages
<1>7. Order'
  BY <1>1, <1>6, Names DEF LifeInv, Order, Quiet
<1>8. HostsRun'
  BY <1>1, <1>2, <1>6 DEF LifeInv, HostsRun, Quiet
<1>9. FreedLast' /\ JoinedBeforeFree'
  BY <1>1, <1>4, <1>5, <1>6, Names DEF LifeInv, FreedLast, JoinedBeforeFree, Use
<1> QED
  BY <1>2, <1>6, <1>7, <1>8, <1>9 DEF LifeInv

LEMMA InitHolds == Init => LifeInv
<1> SUFFICES ASSUME Init PROVE LifeInv
  OBVIOUS
<1>1. /\ pc \in [Threads -> Stages \cup MainStages] /\ handler \in [Threads -> HandlerStages]
      /\ pc[Main] = "create api" /\ \A t \in Joined : pc[t] = "none"
  BY Names DEF Init, Stages, MainStages, HandlerStages
<1> QED
  BY <1>1, Names DEF Init, LifeInv, Order, HostsRun, FreedLast, JoinedBeforeFree, Quiet, MainStages

LEMMA StepKeeps == LifeInv /\ [Next]_vars => LifeInv'
<1> SUFFICES ASSUME LifeInv, [Next]_vars PROVE LifeInv'
  OBVIOUS
<1>1. CASE MainStep
  BY <1>1, CreateKeeps, JoinKeeps, FreeKeeps DEF MainStep
<1>2. CASE WebserverStep \/ ApiStep \/ ScriptsStep
  BY <1>2, LoopsKeep
<1>3. ASSUME NEW d \in Detached, DetachedStep(d) \/ Push(d) PROVE LifeInv'
  BY <1>3, DetachedKeep
<1>4. ASSUME NEW t \in Threads, Interrupt(t) \/ Handler(t) PROVE LifeInv'
  BY <1>4, InterruptKeeps, HandlerKeeps
<1>5. CASE UNCHANGED vars
  BY <1>5 DEF vars, LifeInv, Order, HostsRun, FreedLast, JoinedBeforeFree, Quiet
<1> QED
  BY <1>1, <1>2, <1>3, <1>4, <1>5 DEF Next

(* No thread that main has created uses a queue main has freed, whichever   *)
(* thread could not be created and wherever signals interrupt (main.c:388). *)
THEOREM JoinedBeforeFreeHolds == Spec => []JoinedBeforeFree
<1>1. LifeInv => JoinedBeforeFree
  BY DEF LifeInv
<1> QED
  BY <1>1, InitHolds, StepKeeps, PTL DEF Spec

-----------------------------------------------------------------------------
(* The webserver.                                                          *)

Ended     == {"none", "closed"}
Connected == {"open", "closing"}
Kinds     == [stream : BOOLEAN, ticket : Tickets, told : BOOLEAN]

LiveFronts     == {f \in Fronts : conn[f] \in Live}
ConnectedBacks == {b \in Backs : back[b] \in Connected}

\* a connection of the proxy has its data until it is closed
KindThere == \A b \in Backs : back[b] \notin Ended => kind[b] \in Kinds

\* a connection does not get more requests than the browsers send
AskedBounded == \A f \in Fronts : handled[f] + asked[f] + toAsk <= MaxRequests

\* The inductive invariant
WebInv == WebTypeOK /\ AskedBounded /\ BackendLinks /\ CountTracks /\ KindThere

\* a step opens and closes no connection
SameConnections ==
  /\ \A f \in Fronts : conn'[f] \in Live <=> conn[f] \in Live
  /\ \A b \in Backs : /\ back'[b] \in Ended <=> back[b] \in Ended
                      /\ back'[b] \in Connected <=> back[b] \in Connected
                      /\ kind[b] \in Kinds => kind'[b] \in Kinds
  /\ UNCHANGED <<backend, frontend, count, drift>>

LEMMA Sizes ==
  /\ IsFiniteSet(LiveFronts) /\ IsFiniteSet(ConnectedBacks)
  /\ Cardinality(LiveFronts) \in Nat /\ Cardinality(ConnectedBacks) \in Nat
<1>1. IsFiniteSet(LiveFronts) /\ IsFiniteSet(ConnectedBacks)
  BY WebAssumption, FS_Subset DEF LiveFronts, ConnectedBacks
<1>2. QED
  BY <1>1, FS_CardinalityType

LEMMA Tracks ==
  CountTracks <=> count + drift = Cardinality(LiveFronts) + Cardinality(ConnectedBacks)
BY DEF CountTracks, LiveFronts, ConnectedBacks, Connected

(* Only the steps that open or close a connection touch the pointers.      *)
LEMMA LinksKept ==
  ASSUME WebInv, SameConnections
  PROVE  BackendLinks' /\ CountTracks' /\ KindThere'
<1>1. BackendLinks'
  BY DEF WebInv, WebTypeOK, SameConnections, BackendLinks, Ended
<1>2. CountTracks'
  BY DEF WebInv, SameConnections, CountTracks, Connected
<1>3. KindThere'
  BY DEF WebInv, SameConnections, KindThere
<1>4. QED
  BY <1>1, <1>2, <1>3

(* A response keeps the types, and opens and closes no connection.         *)
LEMMA SendTypes ==
  ASSUME WebTypeOK, NEW f \in Fronts, NEW tickets \in Seq(0..MaxRequests), NEW drain,
         SendKeep(f, tickets, drain)
  PROVE  /\ answers' \in [Fronts -> Seq(0..MaxRequests)]
         /\ busy' \in [Fronts -> BOOLEAN]
         /\ conn' \in [Fronts -> Live \union {"none", "closed"}]
         /\ conn[f] \in Live => \A g \in Fronts : conn'[g] \in Live <=> conn[g] \in Live
<1> USE DEF WebTypeOK
<1>1. answers' \in [Fronts -> Seq(0..MaxRequests)]
  <2>1. answers[f] \o tickets \in Seq(0..MaxRequests)
    OBVIOUS
  <2>2. QED
    BY <2>1 DEF SendKeep
<1>2. Draining(conn[f]) \in Live
  BY DEF Draining, Live
<1>3. conn' = [conn EXCEPT ![f] = IF drain THEN Draining(conn[f]) ELSE conn[f]]
  BY DEF SendKeep
<1>4. QED
  BY <1>1, <1>2, <1>3 DEF SendKeep

(* So does the receipt of a request, whose ticket is in the bounds.        *)
LEMMA ReceiveTypes ==
  ASSUME WebInv, NEW f \in Fronts, Receive(f)
  PROVE  /\ conn[f] \in Live /\ Ticket(f) \in Tickets /\ Ticket(f) \in 0..MaxRequests
         /\ asked' \in [Fronts -> Nat] /\ handled' \in [Fronts -> Nat]
         /\ \A g \in Fronts : handled'[g] + asked'[g] <= MaxRequests
         /\ AskedBounded' /\ toAsk' = toAsk /\ close' \in [Fronts -> BOOLEAN]
<1> USE DEF WebInv, WebTypeOK, Receive
<1>1. /\ asked[f] \in Nat /\ asked[f] > 0 /\ handled[f] \in Nat /\ MaxRequests \in Nat
      /\ handled[f] + asked[f] <= MaxRequests
  BY WebAssumption
<1>2. Ticket(f) \in Tickets /\ Ticket(f) \in 0..MaxRequests
  BY <1>1 DEF Ticket, Tickets
<1>3. asked' = [asked EXCEPT ![f] = asked[f] - 1] /\ handled' = [handled EXCEPT ![f] = handled[f] + 1]
  OBVIOUS
<1>4. asked[f] - 1 \in Nat /\ handled[f] + 1 \in Nat
  BY <1>1
<1>5. asked' \in [Fronts -> Nat] /\ handled' \in [Fronts -> Nat]
  BY <1>3, <1>4
<1>6. \A g \in Fronts : handled'[g] + asked'[g] = handled[g] + asked[g]
  BY <1>1, <1>3
<1>7. AskedBounded'
  BY <1>6 DEF AskedBounded
<1>8. QED
  BY <1>2, <1>5, <1>6, <1>7 DEF Live

LEMMA One == ASSUME NEW n \in 0..MaxRequests PROVE <<n>> \in Seq(0..MaxRequests)
OBVIOUS

\* the step does not touch the connections of the proxy
BacksSame == UNCHANGED <<backVars, count, drift>>

LEMMA SameBacks ==
  ASSUME WebInv, BacksSame, \A f \in Fronts : conn'[f] \in Live <=> conn[f] \in Live
  PROVE  BackendLinks' /\ CountTracks' /\ KindThere'
<1>1. SameConnections
  BY DEF BacksSame, backVars, SameConnections
<1>2. QED
  BY <1>1, LinksKept

-----------------------------------------------------------------------------
(* The steps that open and close no connection.                            *)

LEMMA RespondKeeps ==
  ASSUME WebInv, NEW f \in Fronts, NEW drain, Respond(f, drain)
  PROVE  WebInv'
<1>1. Receive(f) /\ SendKeep(f, <<Ticket(f)>>, drain \/ close'[f])
      /\ UNCHANGED <<ws, backVars, queued, toDeliver, started, count, history>>
  BY DEF Respond, Reply
<1>2. /\ answers' \in [Fronts -> Seq(0..MaxRequests)] /\ busy' \in [Fronts -> BOOLEAN]
      /\ conn' \in [Fronts -> Live \union {"none", "closed"}]
      /\ \A g \in Fronts : conn'[g] \in Live <=> conn[g] \in Live
  BY <1>1, ReceiveTypes, SendTypes, One DEF WebInv
<1>3. BackendLinks' /\ CountTracks' /\ KindThere'
  BY <1>1, <1>2, SameBacks DEF BacksSame, history
<1>4. WebTypeOK' /\ AskedBounded'
  BY <1>1, <1>2, ReceiveTypes DEF WebInv, WebTypeOK, backVars, history
<1>5. QED
  BY <1>3, <1>4 DEF WebInv

LEMMA PushTypes ==
  ASSUME WebInv, NEW f \in Fronts, Receive(f),
         NEW to \in Answering \union {"script", "second", "nobody"}, PushRequest(f, to)
  PROVE  queued' \subseteq Forward
BY ReceiveTypes, SMTT(30) DEF PushRequest, Forward, WebInv, WebTypeOK

LEMMA HandKeeps ==
  ASSUME WebInv, NEW f \in Fronts, NEW to \in Answering \union {"script", "second", "nobody"},
         Hand(f, to)
  PROVE  WebInv'
<1>1. /\ Receive(f) /\ PushRequest(f, to) /\ busy' = [busy EXCEPT ![f] = TRUE]
      /\ UNCHANGED <<answers, conn, ws, backVars, toDeliver, started, count, history>>
  BY DEF Hand, Wait
<1>2. queued' \subseteq Forward
  BY <1>1, PushTypes
<1>3. BackendLinks' /\ CountTracks' /\ KindThere'
  BY <1>1, SameBacks DEF BacksSame, history
<1>4. WebTypeOK' /\ AskedBounded'
  BY <1>1, <1>2, ReceiveTypes DEF WebInv, WebTypeOK, backVars, history
<1>5. QED
  BY <1>3, <1>4 DEF WebInv

\* the recipients of a request that is not answered at once
Recipients == Answering \union {"script", "second", "nobody"}

LEMMA AfterErrorKeeps ==
  ASSUME WebInv, NEW f \in Fronts, NEW early \in BOOLEAN, NEW to \in Recipients \union {"done"},
         NEW drain \in BOOLEAN, AfterError(f, early, to, drain)
  PROVE  WebInv'
<1> DEFINE first  == IF early THEN <<Ticket(f)>> ELSE <<>>
           last   == IF to = "done" THEN <<Ticket(f)>> ELSE <<>>
           errors == first \o last
<1>1. /\ Receive(f)
      /\ IF to = "done" THEN UNCHANGED queued ELSE PushRequest(f, to)
      /\ IF errors = <<>> THEN Wait(f) ELSE Reply(f, errors, drain)
      /\ excess' = IF early THEN excess \union {f} ELSE excess
      /\ UNCHANGED <<ws, backVars, toDeliver, started, count, drift, crashed>>
  BY DEF AfterError
<1>2. errors \in Seq(0..MaxRequests)
  <2>1. Ticket(f) \in 0..MaxRequests
    BY <1>1, ReceiveTypes
  <2>2. <<Ticket(f)>> \in Seq(0..MaxRequests) /\ <<>> \in Seq(0..MaxRequests)
    BY <2>1
  <2>3. first \in Seq(0..MaxRequests)
    BY <2>2
  <2>4. last \in Seq(0..MaxRequests)
    BY <2>2
  <2> HIDE DEF first, last
  <2> QED
    BY <2>3, <2>4
<1> HIDE DEF errors
<1>3. /\ answers' \in [Fronts -> Seq(0..MaxRequests)] /\ busy' \in [Fronts -> BOOLEAN]
      /\ conn' \in [Fronts -> Live \union {"none", "closed"}]
      /\ \A g \in Fronts : conn'[g] \in Live <=> conn[g] \in Live
  <2>1. CASE Wait(f)
    BY <2>1 DEF Wait, WebInv, WebTypeOK
  <2>2. CASE Reply(f, errors, drain)
    <3>1. SendKeep(f, errors, drain \/ close'[f]) /\ conn[f] \in Live
      BY <1>1, <2>2, ReceiveTypes DEF Reply
    <3>2. QED
      BY <1>2, <3>1, SendTypes DEF WebInv
  <2>3. QED
    BY <1>1, <2>1, <2>2
<1>4. queued' \subseteq Forward
  <2>1. CASE to = "done"
    BY <1>1, <2>1 DEF WebInv, WebTypeOK
  <2>2. CASE to # "done"
    BY <1>1, <2>2, PushTypes DEF Recipients
  <2> QED
    BY <2>1, <2>2
<1>5. BackendLinks' /\ CountTracks' /\ KindThere'
  BY <1>1, <1>3, SameBacks DEF BacksSame
<1>6. WebTypeOK' /\ AskedBounded'
  BY <1>1, <1>3, <1>4, ReceiveTypes DEF WebInv, WebTypeOK, backVars
<1>7. QED
  BY <1>5, <1>6 DEF WebInv

LEMMA ApiKeeps == ASSUME WebInv, NEW f \in Fronts, Api(f) PROVE WebInv'
<1>1. PICK to \in SessionApi \union Lyrics \union {"api", "scripts", "script"}, drain \in BOOLEAN :
        AfterError(f, ~started, to, drain)
  BY DEF Api
<1>2. to \in Recipients \union {"done"}
  BY DEF SessionApi, Lyrics, Recipients, Answering, ApiRequests
<1> QED
  BY <1>1, <1>2, AfterErrorKeeps

LEMMA ScriptApiKeeps ==
  ASSUME WebInv, NEW f \in Fronts, NEW external \in BOOLEAN, ScriptApi(f, external)
  PROVE  WebInv'
<1>1. CASE \E to \in {"done", "scripts"}, drain \in BOOLEAN : AfterError(f, ~external, to, drain)
  <2>1. PICK to \in {"done", "scripts"}, drain \in BOOLEAN : AfterError(f, ~external, to, drain)
    BY <1>1
  <2>2. to \in Recipients \union {"done"}
    BY DEF Recipients, Answering
  <2> QED
    BY <2>1, <2>2, AfterErrorKeeps
<1>2. CASE Hand(f, "nobody") \/ Respond(f, FALSE)
  BY <1>2, HandKeeps, RespondKeeps
<1> QED
  BY <1>1, <1>2 DEF ScriptApi

LEMMA WebsocketKeeps ==
  ASSUME WebInv, NEW f \in Fronts, NEW upgraded \in BOOLEAN, Websocket(f, upgraded)
  PROVE  WebInv'
<1>1. Receive(f) /\ UNCHANGED <<backVars, queued, toDeliver, started, count, history>>
  BY DEF Websocket
<1>2. Ticket(f) \in 0..MaxRequests /\ conn[f] \in Live
  BY <1>1, ReceiveTypes
<1>3. /\ answers' \in [Fronts -> Seq(0..MaxRequests)] /\ busy' \in [Fronts -> BOOLEAN]
      /\ conn' \in [Fronts -> Live \union {"none", "closed"}]
      /\ ws' \in [Fronts -> {"no", "fresh", "stale"}]
      /\ \A g \in Fronts : conn'[g] \in Live <=> conn[g] \in Live
  <2>1. CASE upgraded
    <3>1. Append(answers[f], Ticket(f)) \in Seq(0..MaxRequests)
      BY <1>2 DEF WebInv, WebTypeOK
    <3>2. QED
      BY <2>1, <3>1 DEF Websocket, WebInv, WebTypeOK
  <2>2. CASE ~upgraded
    <3>1. SendKeep(f, <<Ticket(f)>>, TRUE \/ close'[f]) /\ UNCHANGED ws
      BY <2>2 DEF Websocket, Reply
    <3>2. QED
      BY <1>2, <3>1, SendTypes, One DEF WebInv, WebTypeOK
  <2>3. QED
    BY <2>1, <2>2
<1>4. BackendLinks' /\ CountTracks' /\ KindThere'
  BY <1>1, <1>3, SameBacks DEF BacksSame, history
<1>5. WebTypeOK' /\ AskedBounded'
  BY <1>1, <1>3, ReceiveTypes DEF WebInv, WebTypeOK, backVars, history
<1>6. QED
  BY <1>4, <1>5 DEF WebInv

(* Requests on their way, websockets, and the start.                       *)
LEMMA AskKeeps == ASSUME WebInv, NEW f \in Fronts, Ask(f) PROVE WebInv'
<1> USE DEF WebInv, WebTypeOK
<1>1. /\ toAsk > 0 /\ toAsk' = toAsk - 1 /\ asked' = [asked EXCEPT ![f] = asked[f] + 1]
      /\ UNCHANGED <<conn, busy, close, handled, answers, ws, backVars, queued, toDeliver, started,
                     count, history>>
  BY DEF Ask
<1>2. /\ toAsk \in Nat /\ MaxRequests \in Nat /\ toAsk <= MaxRequests
      /\ \A g \in Fronts : asked[g] \in Nat /\ handled[g] \in Nat
  BY WebAssumption
<1>3. toAsk' \in 0..MaxRequests /\ asked' \in [Fronts -> Nat]
  BY <1>1, <1>2
<1>4. \A g \in Fronts : handled'[g] + asked'[g] + toAsk' <= MaxRequests
  <2>1. \A g \in Fronts : handled[g] + asked[g] + toAsk <= MaxRequests
    BY DEF AskedBounded
  <2>2. \A g \in Fronts : handled'[g] = handled[g] /\ asked'[g] \in {asked[g], asked[g] + 1}
    BY <1>1
  <2>3. QED
    BY <1>1, <1>2, <2>1, <2>2
<1>5. \A g \in Fronts : handled'[g] + asked'[g] <= MaxRequests
  <2>1. \A g \in Fronts : handled'[g] \in Nat /\ asked'[g] \in Nat
    BY <1>1, <1>2, <1>3
  <2>2. QED
    BY <1>2, <1>3, <1>4, <2>1
<1>6. BackendLinks' /\ CountTracks' /\ KindThere'
  BY <1>1, SameBacks DEF BacksSame, history
<1>7. WebTypeOK'
  BY <1>1, <1>3, <1>5 DEF backVars, history
<1>8. QED
  BY <1>4, <1>6, <1>7 DEF AskedBounded

LEMMA WsKeeps ==
  ASSUME WebInv, \/ \E f \in Fronts : PingsTimeOut(f) \/ \E written \in BOOLEAN : Ping(f, written)
               \/ Notify \/ Start
  PROVE  WebInv'
<1>1. /\ ws' \in [Fronts -> {"no", "fresh", "stale"}]
      /\ conn' \in [Fronts -> Live \union {"none", "closed"}]
      /\ \A g \in Fronts : conn'[g] \in Live <=> conn[g] \in Live
      /\ started' \in BOOLEAN
      /\ UNCHANGED <<busy, close, toAsk, asked, handled, answers, backVars, queued, toDeliver,
                     count, history>>
  <2>1. CASE \E f \in Fronts : PingsTimeOut(f)
    BY <2>1 DEF PingsTimeOut, WebInv, WebTypeOK
  <2>2. CASE \E f \in Fronts, written \in BOOLEAN : Ping(f, written)
    BY <2>2 DEF Ping, WebInv, WebTypeOK, Live
  <2>3. CASE Notify
    BY <2>3 DEF Notify, WebInv, WebTypeOK, Live
  <2>4. CASE Start
    BY <2>4 DEF Start, WebInv, WebTypeOK, frontVars
  <2>5. QED
    BY <2>1, <2>2, <2>3, <2>4
<1>2. BackendLinks' /\ CountTracks' /\ KindThere'
  BY <1>1, SameBacks DEF BacksSame, history
<1>3. WebTypeOK' /\ AskedBounded'
  BY <1>1 DEF WebInv, WebTypeOK, AskedBounded, backVars, history
<1>4. QED
  BY <1>2, <1>3 DEF WebInv

LEMMA AnswerKeeps ==
  ASSUME WebInv, NEW r \in Forward, AnswerRequest(r) \/ \E n \in 0..2 : Triggered(r, n)
  PROVE  WebInv'
<1>1. r.front \in Fronts /\ \A x \in {"nobody", "script", "second"} : [r EXCEPT !.to = x] \in Forward
  BY DEF Forward
<1>2. /\ queued' \subseteq Forward /\ toDeliver' \subseteq Forward /\ excess' \subseteq Fronts
      /\ UNCHANGED <<frontVars, backVars, started, count, drift, crashed>>
  <2>1. CASE AnswerRequest(r)
    BY <2>1 DEF AnswerRequest, WebInv, WebTypeOK, history
  <2>2. ASSUME NEW n \in 0..2, Triggered(r, n)
        PROVE  /\ queued' \subseteq Forward /\ toDeliver' \subseteq Forward /\ excess' \subseteq Fronts
               /\ UNCHANGED <<frontVars, backVars, started, count, drift, crashed>>
    <3>1. queued' \subseteq queued \union {[r EXCEPT !.to = x] : x \in {"nobody", "script", "second"}}
      BY <2>2 DEF Triggered
    <3>2. {[r EXCEPT !.to = x] : x \in {"nobody", "script", "second"}} \subseteq Forward
      BY <1>1
    <3>3. queued \subseteq Forward /\ toDeliver \subseteq Forward /\ excess \subseteq Fronts
      BY DEF WebInv, WebTypeOK
    <3>4. excess' \subseteq excess \union {r.front}
          /\ UNCHANGED <<frontVars, backVars, toDeliver, started, count, drift, crashed>>
      BY <2>2 DEF Triggered
    <3>5. QED
      BY <1>1, <3>1, <3>2, <3>3, <3>4
  <2>3. QED
    BY <2>1, <2>2
<1>3. BackendLinks' /\ CountTracks' /\ KindThere'
  BY <1>2, SameBacks DEF BacksSame, frontVars
<1>4. WebTypeOK' /\ AskedBounded'
  BY <1>2 DEF WebInv, WebTypeOK, AskedBounded, frontVars, backVars
<1>5. QED
  BY <1>3, <1>4 DEF WebInv

LEMMA DeliverKeeps == ASSUME WebInv, NEW r \in Forward, Deliver(r) PROVE WebInv'
<1>1. r.front \in Fronts /\ r.ticket \in Tickets /\ r.ticket \in 0..MaxRequests
  BY DEF Forward, Tickets
<1>2. /\ toDeliver' = toDeliver \ {r}
      /\ UNCHANGED <<close, toAsk, asked, handled, ws, backVars, queued, started, count, history>>
  BY DEF Deliver
<1>3. /\ answers' \in [Fronts -> Seq(0..MaxRequests)] /\ busy' \in [Fronts -> BOOLEAN]
      /\ conn' \in [Fronts -> Live \union {"none", "closed"}]
      /\ \A g \in Fronts : conn'[g] \in Live <=> conn[g] \in Live
  <2>1. CASE conn[r.front] \in Live
    <3>1. SendKeep(r.front, <<r.ticket>>, FALSE \/ close[r.front])
      BY <2>1 DEF Deliver, Send
    <3>2. QED
      BY <1>1, <2>1, <3>1, SendTypes, One DEF WebInv
  <2>2. CASE conn[r.front] \notin Live
    BY <2>2 DEF Deliver, WebInv, WebTypeOK
  <2>3. QED
    BY <2>1, <2>2
<1>4. BackendLinks' /\ CountTracks' /\ KindThere'
  BY <1>2, <1>3, SameBacks DEF BacksSame, history
<1>5. WebTypeOK' /\ AskedBounded'
  BY <1>2, <1>3 DEF WebInv, WebTypeOK, AskedBounded, backVars, history
<1>6. QED
  BY <1>4, <1>5 DEF WebInv

-----------------------------------------------------------------------------
(* The steps of the proxy, and the ends of connections.                    *)

\* a connection of the proxy that leads to a browser's
LEMMA LinkedFront ==
  ASSUME WebInv, NEW b \in Backs, frontend[b] # Null
  PROVE  /\ frontend[b] \in Fronts /\ backend[frontend[b]] = b /\ conn[frontend[b]] \in Live
         /\ back[b] \notin Ended
<1>1. frontend[b] \in Fronts /\ b # Null
  BY WebAssumption DEF WebInv, WebTypeOK
<1>2. backend[frontend[b]] = b
  BY DEF WebInv, BackendLinks
<1>3. conn[frontend[b]] \in Live /\ back[b] \notin Ended
  BY <1>1, <1>2 DEF WebInv, BackendLinks, Ended
<1>4. QED
  BY <1>1, <1>2, <1>3

LEMMA AcceptKeeps == ASSUME WebInv, NEW f \in Fronts, Accept(f) PROVE WebInv'
<1>1. /\ conn[f] = "none" /\ count' = count + 1
      /\ UNCHANGED <<close, toAsk, asked, handled, ws, backVars, queued, toDeliver, started, drift, crashed>>
  BY DEF Accept
<1>2. /\ answers' \in [Fronts -> Seq(0..MaxRequests)] /\ busy' \in [Fronts -> BOOLEAN]
      /\ excess' \subseteq Fronts
      /\ conn' \in [Fronts -> Live \union {"none", "closed"}]
      /\ conn'[f] \in Live /\ \A g \in Fronts : g # f => conn'[g] = conn[g]
  <2>1. CASE count' > MaxConns
    <3>1. SendKeep(f, <<0>>, TRUE \/ close[f]) /\ excess' = excess \union {f}
      BY <2>1 DEF Accept, Send
    <3>2. 0 \in 0..MaxRequests
      BY WebAssumption
    <3>3. conn' = [conn EXCEPT ![f] = Draining(conn[f])]
      BY <3>1 DEF SendKeep
    <3>4. Draining(conn[f]) \in Live
      BY DEF Draining, Live
    <3>5. QED
      BY <3>1, <3>2, <3>3, <3>4, SendTypes, One DEF WebInv, WebTypeOK
  <2>2. CASE ~(count' > MaxConns)
    BY <2>2 DEF Accept, WebInv, WebTypeOK, Live
  <2>3. QED
    BY <2>1, <2>2
<1>3. f \notin LiveFronts /\ LiveFronts' = LiveFronts \union {f} /\ ConnectedBacks' = ConnectedBacks
  BY <1>1, <1>2 DEF LiveFronts, ConnectedBacks, Live, backVars
<1>4. Cardinality(LiveFronts') = Cardinality(LiveFronts) + 1
  BY <1>3, Sizes, FS_AddElement
<1>5. CountTracks'
  <2>1. count + drift = Cardinality(LiveFronts) + Cardinality(ConnectedBacks)
        /\ count \in Int /\ drift \in Nat
    BY Tracks DEF WebInv, WebTypeOK
  <2>2. count' + drift' = Cardinality(LiveFronts)' + Cardinality(ConnectedBacks)'
    BY <1>1, <1>3, <1>4, <2>1, Sizes, SMTT(30)
  <2>3. QED
    BY <2>2 DEF CountTracks, LiveFronts, ConnectedBacks, Connected
<1>6. BackendLinks'
  BY <1>1, <1>2 DEF WebInv, WebTypeOK, BackendLinks, backVars
<1>7. KindThere' /\ AskedBounded' /\ WebTypeOK'
  BY <1>1, <1>2 DEF WebInv, WebTypeOK, KindThere, AskedBounded, backVars
<1>8. QED
  BY <1>5, <1>6, <1>7 DEF WebInv

(* A new connection of the proxy, for a browser that has none.             *)
LEMMA ProxyKeeps ==
  ASSUME WebInv, NEW f \in Fronts, NEW stream \in BOOLEAN, Proxy(f, stream)
  PROVE  WebInv'
<1>1. Receive(f) /\ UNCHANGED <<ws, queued, toDeliver, started, count, history>>
  BY DEF Proxy
<1>2. conn[f] \in Live /\ Ticket(f) \in Tickets
  BY <1>1, ReceiveTypes
<1>3. CASE Wait(f) /\ UNCHANGED backVars
  <2>1. BackendLinks' /\ CountTracks' /\ KindThere'
    BY <1>1, <1>3, SameBacks DEF BacksSame, history, Wait
  <2>2. WebTypeOK' /\ AskedBounded'
    BY <1>1, <1>3, ReceiveTypes DEF WebInv, WebTypeOK, backVars, history, Wait
  <2>3. QED
    BY <2>1, <2>2 DEF WebInv
<1>4. CASE Reply(f, <<Ticket(f)>>, TRUE) /\ UNCHANGED backVars
  <2>1. SendKeep(f, <<Ticket(f)>>, TRUE \/ close'[f])
    BY <1>4 DEF Reply
  <2>2. /\ answers' \in [Fronts -> Seq(0..MaxRequests)] /\ busy' \in [Fronts -> BOOLEAN]
        /\ conn' \in [Fronts -> Live \union {"none", "closed"}]
        /\ \A g \in Fronts : conn'[g] \in Live <=> conn[g] \in Live
    BY <1>1, <2>1, ReceiveTypes, SendTypes, One DEF WebInv
  <2>3. BackendLinks' /\ CountTracks' /\ KindThere'
    BY <1>1, <1>4, <2>2, SameBacks DEF BacksSame, history
  <2>4. WebTypeOK' /\ AskedBounded'
    BY <1>1, <1>4, <2>2, ReceiveTypes DEF WebInv, WebTypeOK, backVars, history
  <2>5. QED
    BY <2>3, <2>4 DEF WebInv
<1>5. ASSUME NEW b \in Backs, Connect(f, b, stream), Wait(f), backend[f] = Null PROVE WebInv'
  <2> DEFINE new == [stream |-> stream, ticket |-> Ticket(f), told |-> FALSE]
  <2>1. /\ back[b] = "none" /\ back' = [back EXCEPT ![b] = "connecting"]
        /\ frontend' = [frontend EXCEPT ![b] = f] /\ kind' = [kind EXCEPT ![b] = new]
        /\ backend' = [backend EXCEPT ![f] = b]
        /\ busy' = [busy EXCEPT ![f] = TRUE] /\ UNCHANGED <<answers, conn>>
    BY <1>5 DEF Connect, Wait
  <2>2. new \in Kinds
    BY <1>2 DEF Kinds
  <2> HIDE DEF new
  <2>3. frontend[b] = Null /\ b # Null /\ f # Null
    BY <2>1, LinkedFront, WebAssumption DEF Ended
  <2>4. \A g \in Fronts : backend[g] # b
    BY <2>1, <2>3 DEF WebInv, WebTypeOK, BackendLinks
  <2>5. \A c \in Backs : frontend[c] # f
    <3>1. SUFFICES ASSUME NEW c \in Backs, frontend[c] = f PROVE FALSE
      OBVIOUS
    <3>2. backend[f] = c /\ c # Null
      BY <2>3, <3>1, LinkedFront, WebAssumption
    <3>3. QED
      BY <1>5, <3>2
  <2>6. BackendLinks'
    <3>1. ASSUME NEW g \in Fronts, backend'[g] # Null
          PROVE  /\ conn'[g] \in Live /\ frontend'[backend'[g]] = g
                 /\ back'[backend'[g]] \notin {"none", "closed"}
      <4>1. CASE g = f
        BY <1>2, <2>1, <4>1 DEF WebInv, WebTypeOK
      <4>2. CASE g # f
        <5>1. backend'[g] = backend[g] /\ backend[g] # b /\ backend[g] \in Backs
          BY <2>1, <2>4, <3>1, <4>2 DEF WebInv, WebTypeOK
        <5>2. QED
          BY <2>1, <3>1, <5>1 DEF WebInv, WebTypeOK, BackendLinks
      <4>3. QED
        BY <4>1, <4>2
    <3>2. ASSUME NEW c \in Backs, frontend'[c] # Null PROVE backend'[frontend'[c]] = c
      <4>1. CASE c = b
        BY <2>1, <4>1 DEF WebInv, WebTypeOK
      <4>2. CASE c # b
        <5>1. frontend'[c] = frontend[c] /\ frontend[c] # f /\ frontend[c] \in Fronts
          BY <2>1, <2>5, <3>2, <4>2 DEF WebInv, WebTypeOK
        <5>2. QED
          BY <2>1, <3>2, <5>1 DEF WebInv, WebTypeOK, BackendLinks
      <4>3. QED
        BY <4>1, <4>2
    <3>3. QED
      BY <3>1, <3>2 DEF BackendLinks
  <2>7. KindThere'
    BY <2>1, <2>2 DEF WebInv, WebTypeOK, KindThere
  <2>8. CountTracks'
    <3>1. ConnectedBacks' = ConnectedBacks /\ LiveFronts' = LiveFronts
      BY <2>1 DEF WebInv, WebTypeOK, ConnectedBacks, LiveFronts, Connected
    <3>2. QED
      BY <1>1, <3>1, Tracks DEF WebInv, CountTracks, history, ConnectedBacks, LiveFronts, Connected
  <2>9. AskedBounded'
    BY <1>1, ReceiveTypes
  <2>10. WebTypeOK'
    <3>1. /\ back' \in [Backs -> {"none", "connecting", "open", "failed", "closing", "closed"}]
          /\ busy' \in [Fronts -> BOOLEAN]
          /\ backend' \in [Fronts -> Backs \union {Null}]
          /\ frontend' \in [Backs -> Fronts \union {Null}]
      BY <2>1 DEF WebInv, WebTypeOK
    <3>2. kind' \in [Backs -> Kinds \union {Null}]
      BY <2>1, <2>2 DEF WebInv, WebTypeOK, Kinds
    <3>3. QED
      BY <1>1, <2>1, <3>1, <3>2, ReceiveTypes DEF WebInv, WebTypeOK, Kinds, history
  <2>11. QED
    BY <2>6, <2>7, <2>8, <2>9, <2>10 DEF WebInv
<1>6. QED
  BY <1>3, <1>4, <1>5 DEF Proxy

LEMMA ConnectedKeeps == ASSUME WebInv, NEW b \in Backs, BackendConnected(b) PROVE WebInv'
<1>1. /\ back[b] = "connecting" /\ back' = [back EXCEPT ![b] = "open"] /\ count' = count + 1
      /\ UNCHANGED <<frontVars, backend, frontend, kind, queued, toDeliver, started, history>>
  BY DEF BackendConnected
<1>2. b \notin ConnectedBacks /\ ConnectedBacks' = ConnectedBacks \union {b} /\ LiveFronts' = LiveFronts
  BY <1>1 DEF ConnectedBacks, LiveFronts, Connected, frontVars, WebInv, WebTypeOK
<1>3. CountTracks'
  <2>1. Cardinality(ConnectedBacks') = Cardinality(ConnectedBacks) + 1
    BY <1>2, Sizes, FS_AddElement
  <2>2. count + drift = Cardinality(LiveFronts) + Cardinality(ConnectedBacks)
        /\ count \in Int /\ drift \in Nat
    BY Tracks DEF WebInv, WebTypeOK
  <2>3. count' + drift' = Cardinality(LiveFronts)' + Cardinality(ConnectedBacks)'
    BY <1>1, <1>2, <2>1, <2>2, Sizes DEF history
  <2>4. QED
    BY <2>3 DEF CountTracks, LiveFronts, ConnectedBacks, Connected
<1>4. BackendLinks' /\ KindThere'
  BY <1>1 DEF WebInv, WebTypeOK, BackendLinks, KindThere, Ended, frontVars
<1>5. WebTypeOK' /\ AskedBounded'
  BY <1>1 DEF WebInv, WebTypeOK, AskedBounded, frontVars, history
<1>6. QED
  BY <1>3, <1>4, <1>5 DEF WebInv

\* that an answer was given is noted
LEMMA ToldKind ==
  ASSUME WebInv, NEW b \in Backs, back[b] \notin Ended, kind' = [kind EXCEPT ![b].told = TRUE]
  PROVE  /\ kind' \in [Backs -> Kinds \union {Null}]
         /\ \A c \in Backs : kind[c] \in Kinds => kind'[c] \in Kinds
<1>1. kind[b] \in Kinds
  BY DEF WebInv, KindThere
<1>2. [kind[b] EXCEPT !.told = TRUE] \in Kinds
  BY <1>1 DEF Kinds
<1>3. kind' = [kind EXCEPT ![b] = [kind[b] EXCEPT !.told = TRUE]]
  BY DEF WebInv, WebTypeOK
<1>4. kind \in [Backs -> Kinds \union {Null}]
  BY DEF WebInv, WebTypeOK, Kinds
<1>5. QED
  BY <1>2, <1>3, <1>4

LEMMA TicketBounded ==
  ASSUME WebInv, NEW b \in Backs, back[b] \notin Ended
  PROVE  kind[b] \in Kinds /\ kind[b].ticket \in 0..MaxRequests
BY DEF WebInv, KindThere, Kinds, Tickets

(* The steps of a connection of the proxy that close nothing: an error, the *)
(* data of a stream, an image with a wrong length.                         *)
LEMMA ProxyAnswerKeeps ==
  ASSUME WebInv, NEW b \in Backs, BackendError(b) \/ StreamData(b) \/ CoverMismatch(b)
  PROVE  WebInv'
<1>1. /\ answers' \in [Fronts -> Seq(0..MaxRequests)] /\ busy' \in [Fronts -> BOOLEAN]
      /\ conn' \in [Fronts -> Live \union {"none", "closed"}]
      /\ kind' \in [Backs -> Kinds \union {Null}]
      /\ back' \in [Backs -> {"none", "connecting", "open", "failed", "closing", "closed"}]
      /\ excess' \subseteq Fronts /\ crashed' \in BOOLEAN
      /\ SameConnections
      /\ UNCHANGED <<close, toAsk, asked, handled, ws, backend, frontend, queued, toDeliver, started,
                     count, drift>>
  <2>1. CASE BackendError(b)
    <3>1. /\ back[b] \notin Ended
          /\ back' = [back EXCEPT ![b] = IF back[b] = "connecting" THEN "failed" ELSE
                                         IF back[b] = "open" THEN "closing" ELSE back[b]]
          /\ UNCHANGED <<close, toAsk, asked, handled, ws, backend, frontend, queued, toDeliver, started,
                         count, drift>>
      BY <2>1 DEF BackendError, Ended
    <3>2. /\ back' \in [Backs -> {"none", "connecting", "open", "failed", "closing", "closed"}]
          /\ \A c \in Backs : /\ back'[c] \in Ended <=> back[c] \in Ended
                              /\ back'[c] \in Connected <=> back[c] \in Connected
      BY <3>1 DEF WebInv, WebTypeOK, Ended, Connected
    <3>3. CASE UNCHANGED <<answers, busy, conn, kind, excess>> /\ crashed' \in BOOLEAN
      BY <3>1, <3>2, <3>3 DEF WebInv, WebTypeOK, SameConnections, Kinds
    <3>4. CASE /\ frontend[b] # Null /\ UNCHANGED crashed
               /\ Send(frontend[b], <<kind[b].ticket>>, FALSE)
               /\ kind' = [kind EXCEPT ![b].told = TRUE]
               /\ excess' = IF kind[b].told THEN excess \union {frontend[b]} ELSE excess
      <4>1. SendKeep(frontend[b], <<kind[b].ticket>>, FALSE \/ close[frontend[b]])
        BY <3>4 DEF Send
      <4>2. frontend[b] \in Fronts /\ conn[frontend[b]] \in Live
        BY <3>4, LinkedFront
      <4>3. <<kind[b].ticket>> \in Seq(0..MaxRequests)
        BY <3>1, TicketBounded, One
      <4>4. /\ answers' \in [Fronts -> Seq(0..MaxRequests)] /\ busy' \in [Fronts -> BOOLEAN]
            /\ conn' \in [Fronts -> Live \union {"none", "closed"}]
            /\ \A g \in Fronts : conn'[g] \in Live <=> conn[g] \in Live
        BY <4>1, <4>2, <4>3, SendTypes DEF WebInv
      <4>5. /\ kind' \in [Backs -> Kinds \union {Null}]
            /\ \A c \in Backs : kind[c] \in Kinds => kind'[c] \in Kinds
        BY <3>1, <3>4, ToldKind
      <4>6. excess' \subseteq Fronts /\ crashed' \in BOOLEAN
        BY <3>4, <4>2 DEF WebInv, WebTypeOK
      <4>7. QED
        BY <3>1, <3>2, <4>4, <4>5, <4>6 DEF SameConnections
    <3>5. kind[b].stream \in BOOLEAN
      BY <3>1, TicketBounded DEF Kinds
    <3>6. QED
      BY <2>1, <3>3, <3>4, <3>5 DEF BackendError, WebInv, WebTypeOK
  <2>2. CASE StreamData(b)
    <3>1. /\ back[b] = "open" /\ frontend[b] # Null /\ kind' = [kind EXCEPT ![b].told = TRUE]
          /\ answers' = [answers EXCEPT ![frontend[b]] = Append(answers[frontend[b]], kind[b].ticket)]
          /\ UNCHANGED <<conn, busy, close, toAsk, asked, handled, ws, backend, back, frontend, queued,
                         toDeliver, started, count, history>>
      BY <2>2 DEF StreamData
    <3>2. back[b] \notin Ended
      BY <3>1 DEF Ended
    <3>3. kind[b].ticket \in 0..MaxRequests /\ frontend[b] \in Fronts
      BY <3>1, <3>2, TicketBounded, LinkedFront
    <3>4. answers' \in [Fronts -> Seq(0..MaxRequests)]
      BY <3>1, <3>3 DEF WebInv, WebTypeOK
    <3>5. /\ kind' \in [Backs -> Kinds \union {Null}]
          /\ \A c \in Backs : kind[c] \in Kinds => kind'[c] \in Kinds
      BY <3>1, <3>2, ToldKind
    <3>6. QED
      BY <3>1, <3>4, <3>5 DEF WebInv, WebTypeOK, SameConnections, history
  <2>3. CASE CoverMismatch(b)
    <3>1. /\ back[b] = "open" /\ frontend[b] # Null /\ kind' = [kind EXCEPT ![b].told = TRUE]
          /\ SendKeep(frontend[b], <<kind[b].ticket>>, FALSE \/ close[frontend[b]])
          /\ UNCHANGED <<close, toAsk, asked, handled, ws, backend, back, frontend, queued, toDeliver,
                         started, count, history>>
      BY <2>3 DEF CoverMismatch, Send
    <3>2. back[b] \notin Ended
      BY <3>1 DEF Ended
    <3>3. <<kind[b].ticket>> \in Seq(0..MaxRequests) /\ frontend[b] \in Fronts
          /\ conn[frontend[b]] \in Live
      BY <3>1, <3>2, TicketBounded, LinkedFront, One
    <3>4. /\ answers' \in [Fronts -> Seq(0..MaxRequests)] /\ busy' \in [Fronts -> BOOLEAN]
          /\ conn' \in [Fronts -> Live \union {"none", "closed"}]
          /\ \A g \in Fronts : conn'[g] \in Live <=> conn[g] \in Live
      BY <3>1, <3>3, SendTypes DEF WebInv
    <3>5. /\ kind' \in [Backs -> Kinds \union {Null}]
          /\ \A c \in Backs : kind[c] \in Kinds => kind'[c] \in Kinds
      BY <3>1, <3>2, ToldKind
    <3>6. QED
      BY <3>1, <3>4, <3>5 DEF WebInv, WebTypeOK, SameConnections, history
  <2>4. QED
    BY <2>1, <2>2, <2>3
<1>2. BackendLinks' /\ CountTracks' /\ KindThere'
  BY <1>1, LinksKept
<1>3. AskedBounded'
  BY <1>1 DEF WebInv, AskedBounded
<1>4. WebTypeOK'
  BY <1>1 DEF WebInv, WebTypeOK, Kinds
<1>5. QED
  BY <1>2, <1>3, <1>4 DEF WebInv

LEMMA BackendCloseKeeps ==
  ASSUME WebInv, NEW b \in Backs, NEW image \in BOOLEAN, BackendClose(b, image)
  PROVE  WebInv'
<1>1. /\ back[b] \in {"connecting", "open", "failed", "closing"}
      /\ back' = [back EXCEPT ![b] = "closed"] /\ frontend' = [frontend EXCEPT ![b] = Null]
      /\ kind' = [kind EXCEPT ![b] = Null] /\ count' = count - 1
      /\ drift' = IF back[b] \in {"connecting", "failed"} THEN drift + 1 ELSE drift
      /\ UNCHANGED <<close, toAsk, asked, handled, ws, queued, toDeliver, started, excess, crashed>>
  BY DEF BackendClose
<1>2. back[b] \notin Ended
  BY <1>1 DEF Ended
<1>3. /\ answers' \in [Fronts -> Seq(0..MaxRequests)] /\ busy' \in [Fronts -> BOOLEAN]
      /\ conn' \in [Fronts -> Live \union {"none", "closed"}]
      /\ \A g \in Fronts : conn'[g] \in Live <=> conn[g] \in Live
      /\ backend' \in [Fronts -> Backs \union {Null}]
      /\ \A g \in Fronts : backend'[g] = IF backend[g] = b THEN Null ELSE backend[g]
  <2>1. CASE frontend[b] = Null
    <3>1. UNCHANGED <<answers, busy, conn, backend>>
      BY <2>1 DEF BackendClose
    <3>2. \A g \in Fronts : backend[g] # b
      BY <2>1, WebAssumption DEF WebInv, BackendLinks
    <3>3. QED
      BY <3>1, <3>2 DEF WebInv, WebTypeOK
  <2>2. CASE frontend[b] # Null
    <3>1. frontend[b] \in Fronts /\ backend[frontend[b]] = b /\ conn[frontend[b]] \in Live
      BY <2>2, LinkedFront
    <3>2. backend' = [backend EXCEPT ![frontend[b]] = Null]
      BY <2>2 DEF BackendClose
    <3>3. \A g \in Fronts : backend[g] = b => g = frontend[b]
      BY WebAssumption DEF WebInv, BackendLinks
    <3>4. /\ backend' \in [Fronts -> Backs \union {Null}]
          /\ \A g \in Fronts : backend'[g] = IF backend[g] = b THEN Null ELSE backend[g]
      BY <3>1, <3>2, <3>3 DEF WebInv, WebTypeOK
    <3>5. CASE image
      <4>1. SendKeep(frontend[b], <<kind[b].ticket>>, TRUE \/ close[frontend[b]])
        BY <2>2, <3>5 DEF BackendClose, Send
      <4>2. <<kind[b].ticket>> \in Seq(0..MaxRequests)
        BY <1>2, TicketBounded, One
      <4>3. QED
        BY <3>1, <3>4, <4>1, <4>2, SendTypes DEF WebInv
    <3>6. CASE ~image
      <4>1. conn' = [conn EXCEPT ![frontend[b]] = Draining(conn[frontend[b]])]
            /\ UNCHANGED <<answers, busy>>
        BY <2>2, <3>6 DEF BackendClose
      <4>2. Draining(conn[frontend[b]]) \in Live
        BY DEF Draining, Live
      <4>3. QED
        BY <3>1, <3>4, <4>1, <4>2 DEF WebInv, WebTypeOK
    <3>7. QED
      BY <3>5, <3>6
  <2>3. QED
    BY <2>1, <2>2
<1>4. BackendLinks'
  <2>1. ASSUME NEW g \in Fronts, backend'[g] # Null
        PROVE  /\ conn'[g] \in Live /\ frontend'[backend'[g]] = g
               /\ back'[backend'[g]] \notin {"none", "closed"}
    <3>1. backend'[g] = backend[g] /\ backend[g] # b /\ backend[g] \in Backs
      BY <1>3, <2>1 DEF WebInv, WebTypeOK
    <3>2. QED
      BY <1>1, <1>3, <2>1, <3>1 DEF WebInv, WebTypeOK, BackendLinks
  <2>2. ASSUME NEW c \in Backs, frontend'[c] # Null PROVE backend'[frontend'[c]] = c
    <3>1. c # b /\ frontend'[c] = frontend[c] /\ frontend[c] \in Fronts
      BY <1>1, <2>2 DEF WebInv, WebTypeOK
    <3>2. QED
      BY <1>3, <2>2, <3>1 DEF WebInv, BackendLinks
  <2>3. QED
    BY <2>1, <2>2 DEF BackendLinks
<1>5. KindThere'
  BY <1>1 DEF WebInv, WebTypeOK, KindThere, Ended
<1>6. CountTracks'
  <2>1. LiveFronts' = LiveFronts /\ ConnectedBacks' = ConnectedBacks \ {b}
    BY <1>1, <1>3 DEF LiveFronts, ConnectedBacks, Connected, WebInv, WebTypeOK
  <2>2. b \in ConnectedBacks <=> back[b] \notin {"connecting", "failed"}
    BY <1>1 DEF ConnectedBacks, Connected
  <2>3. Cardinality(ConnectedBacks \ {b}) =
          IF b \in ConnectedBacks THEN Cardinality(ConnectedBacks) - 1 ELSE Cardinality(ConnectedBacks)
    BY Sizes, FS_RemoveElement
  <2>4. count + drift = Cardinality(LiveFronts) + Cardinality(ConnectedBacks)
        /\ count \in Int /\ drift \in Nat
    BY Tracks DEF WebInv, WebTypeOK
  <2>5. count' + drift' = Cardinality(LiveFronts)' + Cardinality(ConnectedBacks)'
    BY <1>1, <2>1, <2>2, <2>3, <2>4, Sizes
  <2>6. QED
    BY <2>5 DEF CountTracks, LiveFronts, ConnectedBacks, Connected
<1>7. WebTypeOK' /\ AskedBounded'
  <2>1. count' \in Int /\ drift' \in Nat
    BY <1>1 DEF WebInv, WebTypeOK
  <2>2. QED
    BY <1>1, <1>3, <2>1 DEF WebInv, WebTypeOK, AskedBounded
<1>8. QED
  BY <1>4, <1>5, <1>6, <1>7 DEF WebInv

LEMMA FrontCloseKeeps == ASSUME WebInv, NEW f \in Fronts, FrontClose(f) PROVE WebInv'
<1>1. /\ conn[f] \in Live /\ conn' = [conn EXCEPT ![f] = "closed"] /\ count' = count - 1
      /\ backend' = [backend EXCEPT ![f] = Null]
      /\ asked' = [asked EXCEPT ![f] = 0] /\ handled' = [handled EXCEPT ![f] = 0]
      /\ answers' = [answers EXCEPT ![f] = <<>>] /\ ws' = [ws EXCEPT ![f] = "no"]
      /\ busy' = [busy EXCEPT ![f] = FALSE] /\ close' = [close EXCEPT ![f] = FALSE]
      /\ excess' = excess \ {f}
      /\ UNCHANGED <<toAsk, kind, queued, toDeliver, started, drift, crashed>>
  BY DEF FrontClose
<1>2. /\ back' \in [Backs -> {"none", "connecting", "open", "failed", "closing", "closed"}]
      /\ frontend' \in [Backs -> Fronts \union {Null}]
      /\ \A c \in Backs : /\ frontend'[c] = IF frontend[c] = f THEN Null ELSE frontend[c]
                          /\ back'[c] \in Ended <=> back[c] \in Ended
                          /\ back'[c] \in Connected <=> back[c] \in Connected
  <2>1. CASE backend[f] = Null
    <3>1. UNCHANGED <<frontend, back>>
      BY <2>1 DEF FrontClose
    <3>2. \A c \in Backs : frontend[c] # f
      BY <2>1, LinkedFront, WebAssumption
    <3>3. QED
      BY <3>1, <3>2 DEF WebInv, WebTypeOK
  <2>2. CASE backend[f] # Null
    <3> DEFINE b == backend[f]
    <3>1. b \in Backs /\ frontend[b] = f
      BY <2>2 DEF WebInv, WebTypeOK, BackendLinks
    <3>2. /\ frontend' = [frontend EXCEPT ![b] = Null]
          /\ back' = [back EXCEPT ![b] = IF back[b] = "connecting" THEN "failed" ELSE
                                         IF back[b] = "open" THEN "closing" ELSE back[b]]
      BY <2>2 DEF FrontClose
    <3>3. \A c \in Backs : frontend[c] = f => c = b
      BY LinkedFront, WebAssumption
    <3> HIDE DEF b
    <3>4. QED
      BY <3>1, <3>2, <3>3 DEF WebInv, WebTypeOK, Ended, Connected
  <2>3. QED
    BY <2>1, <2>2
<1>3. f # Null
  BY WebAssumption
<1>4. BackendLinks'
  <2>1. ASSUME NEW g \in Fronts, backend'[g] # Null
        PROVE  /\ conn'[g] \in Live /\ frontend'[backend'[g]] = g
               /\ back'[backend'[g]] \notin {"none", "closed"}
    <3>1. g # f /\ backend'[g] = backend[g] /\ backend[g] \in Backs
      BY <1>1, <2>1 DEF WebInv, WebTypeOK
    <3>2. QED
      BY <1>1, <1>2, <2>1, <3>1 DEF WebInv, WebTypeOK, BackendLinks, Ended
  <2>2. ASSUME NEW c \in Backs, frontend'[c] # Null PROVE backend'[frontend'[c]] = c
    <3>1. frontend'[c] = frontend[c] /\ frontend[c] # f /\ frontend[c] \in Fronts
      BY <1>2, <2>2 DEF WebInv, WebTypeOK
    <3>2. QED
      BY <1>1, <2>2, <3>1 DEF WebInv, WebTypeOK, BackendLinks
  <2>3. QED
    BY <2>1, <2>2 DEF BackendLinks
<1>5. KindThere'
  BY <1>1, <1>2 DEF WebInv, KindThere
<1>6. CountTracks'
  <2>1. f \in LiveFronts /\ LiveFronts' = LiveFronts \ {f} /\ ConnectedBacks' = ConnectedBacks
    BY <1>1, <1>2 DEF LiveFronts, ConnectedBacks, Live, WebInv, WebTypeOK
  <2>2. Cardinality(LiveFronts') = Cardinality(LiveFronts) - 1
    BY <2>1, Sizes, FS_RemoveElement
  <2>3. count + drift = Cardinality(LiveFronts) + Cardinality(ConnectedBacks)
        /\ count \in Int /\ drift \in Nat
    BY Tracks DEF WebInv, WebTypeOK
  <2>4. count' + drift' = Cardinality(LiveFronts)' + Cardinality(ConnectedBacks)'
    BY <1>1, <2>1, <2>2, <2>3, Sizes
  <2>5. QED
    BY <2>4 DEF CountTracks, LiveFronts, ConnectedBacks, Connected
<1>7. AskedBounded'
  <2>1. toAsk <= MaxRequests /\ toAsk \in Nat /\ MaxRequests \in Nat
    BY WebAssumption DEF WebInv, WebTypeOK
  <2>2. QED
    BY <1>1, <2>1 DEF WebInv, WebTypeOK, AskedBounded
<1>8. WebTypeOK'
  <2>1. /\ conn' \in [Fronts -> Live \union {"none", "closed"}]
        /\ answers' \in [Fronts -> Seq(0..MaxRequests)]
        /\ asked' \in [Fronts -> Nat] /\ handled' \in [Fronts -> Nat]
    BY <1>1 DEF WebInv, WebTypeOK
  <2>2. \A g \in Fronts : handled'[g] + asked'[g] <= MaxRequests
    BY <1>1, WebAssumption DEF WebInv, WebTypeOK
  <2>3. count' \in Int
    BY <1>1 DEF WebInv, WebTypeOK
  <2>4. QED
    BY <1>1, <1>2, <2>1, <2>2, <2>3 DEF WebInv, WebTypeOK
<1>9. QED
  BY <1>4, <1>5, <1>6, <1>7, <1>8 DEF WebInv

-----------------------------------------------------------------------------
LEMMA WebInvInit == WebInit => WebInv
<1> SUFFICES ASSUME WebInit PROVE WebInv
  OBVIOUS
<1>1. MaxRequests \in Nat /\ MaxRequests \in 0..MaxRequests
  BY WebAssumption
<1>2. WebTypeOK
  <2>1. \A f \in Fronts : handled[f] = 0 /\ asked[f] = 0 /\ handled[f] + asked[f] <= MaxRequests
    BY <1>1 DEF WebInit
  <2>2. /\ answers \in [Fronts -> Seq(0..MaxRequests)]
        /\ asked \in [Fronts -> Nat] /\ handled \in [Fronts -> Nat] /\ toAsk \in 0..MaxRequests
    BY <1>1 DEF WebInit
  <2>3. /\ conn \in [Fronts -> Live \union {"none", "closed"}]
        /\ back \in [Backs -> {"none", "connecting", "open", "failed", "closing", "closed"}]
        /\ busy \in [Fronts -> BOOLEAN] /\ close \in [Fronts -> BOOLEAN]
        /\ backend \in [Fronts -> Backs \union {Null}]
        /\ frontend \in [Backs -> Fronts \union {Null}]
        /\ kind \in [Backs -> Kinds \union {Null}]
        /\ ws \in [Fronts -> {"no", "fresh", "stale"}]
    BY DEF WebInit
  <2>4. /\ queued \subseteq Forward /\ toDeliver \subseteq Forward /\ started \in BOOLEAN
        /\ crashed \in BOOLEAN /\ count \in Int /\ drift \in Nat /\ excess \subseteq Fronts
    <3>1. /\ queued = {} /\ toDeliver = {} /\ started = FALSE /\ crashed = FALSE
          /\ count = 0 /\ drift = 0 /\ excess = {}
      BY DEF WebInit
    <3>2. queued \subseteq Forward /\ toDeliver \subseteq Forward /\ excess \subseteq Fronts
      BY <3>1
    <3>3. count \in Int /\ drift \in Nat
      BY <3>1
    <3>4. started \in BOOLEAN /\ crashed \in BOOLEAN
      BY <3>1
    <3>5. QED
      BY <3>2, <3>3, <3>4
  <2>5. QED
    BY <2>1, <2>2, <2>3, <2>4 DEF WebTypeOK, Kinds
<1>3. AskedBounded
  BY <1>1 DEF WebInit, AskedBounded
<1>4. BackendLinks /\ KindThere
  BY DEF WebInit, BackendLinks, KindThere, Ended
<1>5. CountTracks
  <2>1. LiveFronts = {} /\ ConnectedBacks = {}
    BY DEF WebInit, LiveFronts, ConnectedBacks, Live, Connected
  <2>2. QED
    BY <2>1, FS_EmptySet, Tracks DEF WebInit
<1>6. QED
  BY <1>2, <1>3, <1>4, <1>5 DEF WebInv

LEMMA HandleKeeps == ASSUME WebInv, NEW f \in Fronts, Handle(f) PROVE WebInv'
<1> USE RespondKeeps, HandKeeps
<1>1. PICK b \in BOOLEAN :
    \/ CheckRequest(f, b) \/ ServeFile(f) \/ Extm3u(f, b) \/ Api(f) \/ ScriptApi(f, b)
    \/ AlbumartByAlbumId(f) \/ Folderart(f, b) \/ Tagart(f, b) \/ Playlistart(f, b)
    \/ ScriptHttp(f, b) \/ Bgimage(f) \/ Websocket(f, b) \/ Proxy(f, b)
    \/ \E source \in Sources : AlbumartByUri(f, source)
  BY DEF Handle
<1>2. CASE CheckRequest(f, b) \/ ServeFile(f) \/ Extm3u(f, b)
  BY <1>2 DEF CheckRequest, ServeFile, Extm3u
<1>3. CASE Folderart(f, b) \/ Tagart(f, b) \/ Playlistart(f, b)
  BY <1>3 DEF Folderart, Tagart, Playlistart, Answering, ApiRequests
<1>4. CASE AlbumartByAlbumId(f) \/ ScriptHttp(f, b) \/ Bgimage(f)
  BY <1>4 DEF AlbumartByAlbumId, ScriptHttp, Bgimage, Answering, ApiRequests
<1>5. CASE \E source \in Sources : AlbumartByUri(f, source)
  BY <1>5 DEF AlbumartByUri, Answering, ApiRequests
<1>6. QED
  BY <1>1, <1>2, <1>3, <1>4, <1>5, ApiKeeps, ScriptApiKeeps, WebsocketKeeps, ProxyKeeps

LEMMA WebInvStep == WebInv /\ [WebNext]_webVars => WebInv'
<1> SUFFICES ASSUME WebInv, [WebNext]_webVars PROVE WebInv'
  OBVIOUS
<1>1. CASE \E f \in Fronts : \/ Accept(f) \/ FrontClose(f) \/ Handle(f) \/ Ask(f)
  BY <1>1, AcceptKeeps, FrontCloseKeeps, HandleKeeps, AskKeeps
<1>2. CASE \/ \E f \in Fronts : PingsTimeOut(f) \/ \E written \in BOOLEAN : Ping(f, written)
           \/ Notify \/ Start
  BY <1>2, WsKeeps
<1>3. CASE \E b \in Backs : \/ BackendConnected(b) \/ BackendError(b) \/ StreamData(b)
                            \/ CoverMismatch(b) \/ \E image \in BOOLEAN : BackendClose(b, image)
  BY <1>3, ConnectedKeeps, ProxyAnswerKeeps, BackendCloseKeeps
<1>4. CASE \E r \in Forward : AnswerRequest(r) \/ Deliver(r) \/ \E n \in 0..2 : Triggered(r, n)
  BY <1>4, AnswerKeeps, DeliverKeeps
<1>5. CASE UNCHANGED webVars
  <2>1. /\ UNCHANGED <<frontVars, backVars, queued, toDeliver, started, count, history>>
    BY <1>5 DEF webVars
  <2>2. BackendLinks' /\ CountTracks' /\ KindThere'
    BY <2>1, SameBacks DEF BacksSame, history, frontVars
  <2>3. QED
    BY <2>1, <2>2 DEF WebInv, WebTypeOK, AskedBounded, frontVars, backVars, history
<1>6. QED
  BY <1>1, <1>2, <1>3, <1>4, <1>5 DEF WebNext

(* The pointers between the connections of a browser and of the proxy are   *)
(* mutual and lead to no connection that was freed, whichever ends first,   *)
(* and connection_count misses only the connections of the proxy that were  *)
(* never established.                                                      *)
THEOREM ProxyIsConsistent == WebSpec => []ProxyOK
<1>1. WebInv => ProxyOK
  BY DEF WebInv, ProxyOK
<1>2. QED
  BY WebInvInit, WebInvStep, <1>1, PTL DEF WebSpec
-----------------------------------------------------------------------------
(* The order of the responses.  A connection that is not busy has got all  *)
(* its responses and nobody will send one; one that is busy waits for a    *)
(* single response, from another thread or from the proxy.                 *)

Pending(f) == {r \in queued \union toDeliver : r.front = f /\ r.to # "nobody"}
Awaits(f)  == busy[f] /\ Len(answers[f]) = handled[f] - 1
Untold(f)  == backend[f] # Null /\ ~kind[backend[f]].told
Numbered(f) == \A k \in DOMAIN answers[f] : answers[f][k] = k

Ordered(f) ==
  /\ Numbered(f)
  /\ Len(answers[f]) = handled[f] \/ Awaits(f)
  /\ conn[f] \notin Live => handled[f] = 0 /\ Len(answers[f]) = 0
  /\ conn[f] \in Live => \A r \in Pending(f) :
       /\ Awaits(f) /\ ~Untold(f) /\ r.ticket = handled[f]
       /\ r \notin queued \intersect toDeliver /\ Pending(f) = {r}
  /\ Untold(f) => Awaits(f) /\ kind[backend[f]].ticket = handled[f]

\* requests come from connections, and nobody answers none
Sent ==
  /\ \A r \in queued \union toDeliver : conn[r.front] # "none"
  /\ \A r \in toDeliver : r.to # "nobody"

OrderInv == Sent /\ \A f \in Fronts \ excess : Ordered(f)

\* all is answered
Settled(f) ==
  /\ Numbered(f) /\ Len(answers[f]) = handled[f]
  /\ Pending(f) = {} /\ ~Untold(f) /\ conn[f] \in Live

SameFront(f) ==
  /\ answers'[f] = answers[f] /\ handled'[f] = handled[f] /\ busy'[f] = busy[f]
  /\ conn'[f] \in Live <=> conn[f] \in Live
  /\ backend'[f] = backend[f] /\ (backend[f] # Null => kind'[backend[f]] = kind[backend[f]])
  /\ \A r : r.front = f => (r \in queued' <=> r \in queued) /\ (r \in toDeliver' <=> r \in toDeliver)

LEMMA SettledOrdered == ASSUME NEW f \in Fronts, Settled(f) PROVE Ordered(f)
BY DEF Settled, Ordered

LEMMA SettledOrdered2 == ASSUME NEW f \in Fronts, Settled(f)' PROVE Ordered(f)'
BY DEF Settled, Ordered

LEMMA SameOrdered == ASSUME NEW f \in Fronts, Ordered(f), SameFront(f) PROVE Ordered(f)'
<1>1. Awaits(f)' = Awaits(f) /\ Numbered(f)' = Numbered(f) /\ Untold(f)' = Untold(f)
  BY DEF SameFront, Awaits, Numbered, Untold
<1>2. \A r : r \in Pending(f)' <=> r \in Pending(f)
  BY DEF SameFront, Pending
<1>3. Pending(f)' = Pending(f)
  BY <1>2
<1>4. \A r \in Pending(f) : r \in queued' \intersect toDeliver' <=> r \in queued \intersect toDeliver
  BY DEF SameFront, Pending
<1>5. Untold(f) => kind'[backend'[f]].ticket = kind[backend[f]].ticket
  BY DEF SameFront, Untold
<1> QED
  BY <1>1, <1>3, <1>4, <1>5 DEF SameFront, Ordered

(* The next ticket keeps the numbers.                                      *)
LEMMA NextNumber ==
  ASSUME NEW s \in Seq(0..MaxRequests), \A k \in DOMAIN s : s[k] = k,
         NEW t, t = Len(s) + 1
  PROVE  /\ Len(s \o <<t>>) = t /\ Len(Append(s, t)) = t
         /\ \A k \in DOMAIN (s \o <<t>>) : (s \o <<t>>)[k] = k
         /\ \A k \in DOMAIN Append(s, t) : Append(s, t)[k] = k
OBVIOUS

(* What a response does to its connection and to the others.               *)
LEMMA SendFacts ==
  ASSUME WebInv, NEW f \in Fronts, NEW t, NEW drain, SendKeep(f, <<t>>, drain)
  PROVE  /\ f \notin excess => answers'[f] = answers[f] \o <<t>>
         /\ busy'[f] = FALSE
         /\ conn[f] \in Live => conn'[f] \in Live
         /\ \A g \in Fronts \ {f} :
              answers'[g] = answers[g] /\ busy'[g] = busy[g] /\ conn'[g] = conn[g]
BY DEF WebInv, WebTypeOK, SendKeep, Draining, Live

LEMMA ReceiveFacts ==
  ASSUME WebInv, OrderInv, NEW f \in Fronts, Receive(f)
  PROVE  /\ conn[f] \in Live /\ handled[f] \in Nat
         /\ handled'[f] = handled[f] + 1 /\ Ticket(f) = handled[f] + 1
         /\ \A g \in Fronts \ {f} : handled'[g] = handled[g]
         /\ f \notin excess => Settled(f)
<1>1. conn[f] \in Live /\ ~busy[f]
  BY DEF Receive, Live
<1>2. handled' = [handled EXCEPT ![f] = @ + 1] /\ handled \in [Fronts -> Nat]
  BY DEF Receive, WebInv, WebTypeOK
<1>3. ASSUME f \notin excess PROVE Settled(f)
  BY <1>1, <1>3 DEF OrderInv, Ordered, Settled, Awaits
<1> QED
  BY <1>1, <1>2, <1>3 DEF Ticket

\* the step changes nothing about f but its own state
LEMMA SameElsewhere ==
  ASSUME NEW f \in Fronts, OrderInv, excess \subseteq excess' \union {f},
         \A g \in Fronts \ {f} : SameFront(g), f \notin excess' => Ordered(f)', Sent'
  PROVE  OrderInv'
BY SameOrdered DEF OrderInv

LEMMA RespondOrder ==
  ASSUME WebInv, OrderInv, NEW f \in Fronts, NEW drain, Respond(f, drain)
  PROVE  OrderInv'
<1>1. /\ Receive(f) /\ SendKeep(f, <<Ticket(f)>>, drain \/ close'[f])
      /\ UNCHANGED <<ws, backend, back, frontend, kind, queued, toDeliver, excess>>
  BY DEF Respond, Reply, backVars, history
<1>2. /\ f \notin excess => answers'[f] = answers[f] \o <<Ticket(f)>>
      /\ conn[f] \in Live => conn'[f] \in Live
      /\ \A g \in Fronts \ {f} :
           answers'[g] = answers[g] /\ busy'[g] = busy[g] /\ conn'[g] = conn[g]
  BY <1>1, SendFacts
<1>3. \A g \in Fronts \ {f} : SameFront(g)
  BY <1>1, <1>2, ReceiveFacts DEF SameFront
<1>4. ASSUME f \notin excess PROVE Ordered(f)'
  <2>1. Settled(f) /\ Ticket(f) = Len(answers[f]) + 1 /\ handled'[f] = Ticket(f)
    BY <1>1, <1>4, ReceiveFacts DEF Settled
  <2>2. answers[f] \in Seq(0..MaxRequests)
    BY DEF WebInv, WebTypeOK
  <2>3. Numbered(f)' /\ Len(answers'[f]) = handled'[f]
    BY <1>2, <1>4, <2>1, <2>2, NextNumber DEF Settled, Numbered
  <2>4. Settled(f)'
    BY <1>1, <1>2, <2>1, <2>3, ReceiveFacts DEF Settled, Pending, Untold
  <2> QED
    BY <2>4, SettledOrdered2
<1>5. Sent'
  <2>1. \A g \in Fronts : conn[g] # "none" => conn'[g] # "none"
    BY <1>1, <1>2, ReceiveFacts DEF Live
  <2> QED
    BY <1>1, <2>1 DEF OrderInv, Sent, WebInv, WebTypeOK, Forward
<1> QED
  BY <1>1, <1>3, <1>4, <1>5, SameElsewhere

(* A request that waits: for another thread (the step adds r), for the      *)
(* proxy (b is the connection made for it), or for nothing.                *)
LEMMA WaitOrder ==
  ASSUME WebInv, OrderInv, NEW f \in Fronts, Receive(f), Wait(f), UNCHANGED <<toDeliver, excess>>,
         \/ UNCHANGED backVars /\ \E to : PushRequest(f, to)
         \/ UNCHANGED <<backVars, queued>>
         \/ UNCHANGED queued /\ \E b \in Backs, stream \in BOOLEAN : Connect(f, b, stream)
  PROVE  OrderInv'
<1>1. /\ answers' = answers /\ conn' = conn /\ busy' = [busy EXCEPT ![f] = TRUE]
      /\ busy \in [Fronts -> BOOLEAN]
  BY DEF Wait, WebInv, WebTypeOK
<1>2. conn[f] \in Live /\ handled'[f] = handled[f] + 1 /\ Ticket(f) = handled[f] + 1
      /\ handled[f] \in Nat /\ \A g \in Fronts \ {f} : handled'[g] = handled[g]
  BY ReceiveFacts
<1>3. \A g \in Fronts \ {f} : SameFront(g)
  <2>1. CASE UNCHANGED backVars /\ \E to : PushRequest(f, to)
    BY <1>1, <1>2, <2>1 DEF SameFront, PushRequest, backVars
  <2>2. CASE UNCHANGED <<backVars, queued>>
    BY <1>1, <1>2, <2>2 DEF SameFront, backVars
  <2>3. CASE UNCHANGED queued /\ \E b \in Backs, stream \in BOOLEAN : Connect(f, b, stream)
    <3>1. PICK b \in Backs, stream \in BOOLEAN : Connect(f, b, stream)
      BY <2>3
    <3>2. back[b] = "none" /\ backend' = [backend EXCEPT ![f] = b]
          /\ \A c \in Backs \ {b} : kind'[c] = kind[c]
      BY <3>1 DEF Connect, WebInv, WebTypeOK
    <3>3. \A g \in Fronts \ {f} : backend'[g] = backend[g] /\ backend[g] # b
      <4>1. backend \in [Fronts -> Backs \union {Null}] /\ b # Null
        BY WebAssumption DEF WebInv, WebTypeOK
      <4>2. \A g \in Fronts : backend[g] # Null => back[backend[g]] # "none"
        BY DEF WebInv, BackendLinks
      <4> QED
        BY <3>2, <4>1, <4>2
    <3>4. \A g \in Fronts : backend[g] \in Backs \union {Null}
      BY DEF WebInv, WebTypeOK
    <3> QED
      BY <1>1, <1>2, <2>3, <3>2, <3>3, <3>4 DEF SameFront
  <2> QED
    BY <2>1, <2>2, <2>3
<1>4. ASSUME f \notin excess PROVE Ordered(f)'
  <2>1. Settled(f)
    BY <1>4, ReceiveFacts
  <2>2. /\ Awaits(f)' /\ Numbered(f)' /\ conn'[f] \in Live
    BY <1>1, <1>2, <2>1 DEF Settled, Awaits, Numbered
  <2>3. CASE UNCHANGED backVars /\ \E to : PushRequest(f, to)
    <3>1. PICK to : PushRequest(f, to)
      BY <2>3
    <3> DEFINE r == [front |-> f, ticket |-> Ticket(f), to |-> to]
    <3>2. queued' = queued \union {r} /\ toDeliver' = toDeliver
      BY <3>1 DEF PushRequest
    <3>3. Pending(f)' \in {{}, {r}} /\ (Pending(f)' = {r} => r \notin toDeliver)
      BY <2>1, <3>1, <3>2 DEF Settled, Pending
    <3>4. ~Untold(f)'
      BY <2>1, <2>3 DEF Settled, Untold, backVars
    <3> QED
      BY <1>2, <2>2, <3>2, <3>3, <3>4 DEF Ordered
  <2>4. CASE UNCHANGED <<backVars, queued>>
    <3>1. Pending(f)' = {} /\ ~Untold(f)'
      BY <2>1, <2>4 DEF Settled, Pending, Untold, backVars
    <3> QED
      BY <2>2, <3>1 DEF Ordered
  <2>5. CASE UNCHANGED queued /\ \E b \in Backs, stream \in BOOLEAN : Connect(f, b, stream)
    <3>1. Pending(f)' = {}
      BY <2>1, <2>5 DEF Settled, Pending
    <3>2. PICK b \in Backs, stream \in BOOLEAN : Connect(f, b, stream)
      BY <2>5
    <3>3. backend'[f] = b /\ kind'[b].ticket = handled'[f]
      BY <1>2, <3>2 DEF Connect, WebInv, WebTypeOK
    <3> QED
      BY <2>2, <3>1, <3>3 DEF Ordered
  <2> QED
    BY <2>3, <2>4, <2>5
<1>5. Sent'
  <2>1. \A r \in queued' : r \in queued \/ r.front = f
    BY DEF PushRequest
  <2> QED
    BY <1>1, <1>2, <2>1 DEF OrderInv, Sent, Live
<1> QED
  BY <1>3, <1>4, <1>5, SameElsewhere
LEMMA HandOrder ==
  ASSUME WebInv, OrderInv, NEW f \in Fronts, NEW to, Hand(f, to)
  PROVE  OrderInv'
<1>1. Receive(f) /\ Wait(f) /\ PushRequest(f, to) /\ UNCHANGED <<backVars, toDeliver, excess>>
  BY DEF Hand, history
<1> QED
  BY <1>1, WaitOrder

(* After an early error the connection is one of the named exceptions.     *)
LEMMA AfterErrorOrder ==
  ASSUME WebInv, OrderInv, NEW f \in Fronts, NEW early \in BOOLEAN, NEW to, NEW drain,
         AfterError(f, early, to, drain)
  PROVE  OrderInv'
<1> DEFINE first  == IF early THEN <<Ticket(f)>> ELSE <<>>
           last   == IF to = "done" THEN <<Ticket(f)>> ELSE <<>>
           errors == first \o last
<1>1. /\ Receive(f)
      /\ IF to = "done" THEN UNCHANGED queued ELSE PushRequest(f, to)
      /\ IF errors = <<>> THEN Wait(f) ELSE Reply(f, errors, drain)
      /\ excess' = IF early THEN excess \union {f} ELSE excess
      /\ UNCHANGED <<ws, backVars, toDeliver, started, count, drift, crashed>>
  BY DEF AfterError
<1>2. CASE ~early /\ to # "done"
  <2>1. errors = <<>>
    BY <1>2
  <2> QED
    BY <1>1, <1>2, <2>1, WaitOrder
<1>3. CASE ~early /\ to = "done"
  <2>1. errors = <<Ticket(f)>>
    BY <1>3
  <2>2. errors # <<>>
    BY <2>1
  <2>3. Respond(f, drain)
    BY <1>1, <1>3, <2>1, <2>2 DEF Respond, history
  <2> QED
    BY <2>3, RespondOrder
<1>4. CASE early
  <2> HIDE DEF errors
  <2>1. \/ Wait(f) \/ SendKeep(f, errors, drain \/ close'[f])
    BY <1>1 DEF Reply
  <2>2. \A g \in Fronts \ {f} :
          answers'[g] = answers[g] /\ busy'[g] = busy[g] /\ conn'[g] = conn[g]
    BY <2>1 DEF Wait, SendKeep, WebInv, WebTypeOK
  <2>3. conn[f] \in Live /\ conn'[f] # "none"
    BY <1>1, <2>1, ReceiveFacts DEF Wait, SendKeep, WebInv, WebTypeOK, Draining, Live
  <2>4. \A g \in Fronts \ {f} : SameFront(g)
    BY <1>1, <2>2, ReceiveFacts DEF SameFront, PushRequest, backVars
  <2>5. Sent'
    <3>1. \A r \in queued' : r \in queued \/ r.front = f
      BY <1>1 DEF PushRequest
    <3> QED
      BY <1>1, <2>2, <2>3, <3>1 DEF OrderInv, Sent, WebInv, WebTypeOK, Forward
  <2>6. f \in excess'
    BY <1>1, <1>4
  <2> QED
    BY <1>1, <1>4, <2>4, <2>5, <2>6, SameElsewhere
<1> QED
  BY <1>2, <1>3, <1>4

LEMMA ApiOrder == ASSUME WebInv, OrderInv, NEW f \in Fronts, Api(f) PROVE OrderInv'
<1>1. PICK to, drain : AfterError(f, ~started, to, drain)
  BY DEF Api
<1>2. (~started) \in BOOLEAN
  OBVIOUS
<1> QED
  BY <1>1, <1>2, AfterErrorOrder

LEMMA ScriptApiOrder ==
  ASSUME WebInv, OrderInv, NEW f \in Fronts, NEW external \in BOOLEAN, ScriptApi(f, external)
  PROVE  OrderInv'
<1>1. (~external) \in BOOLEAN
  OBVIOUS
<1>2. CASE \E to, drain : AfterError(f, ~external, to, drain)
  BY <1>1, <1>2, AfterErrorOrder
<1>3. CASE Hand(f, "nobody") \/ Respond(f, FALSE)
  BY <1>3, HandOrder, RespondOrder
<1> QED
  BY <1>2, <1>3 DEF ScriptApi

LEMMA WebsocketOrder ==
  ASSUME WebInv, OrderInv, NEW f \in Fronts, NEW upgraded \in BOOLEAN, Websocket(f, upgraded)
  PROVE  OrderInv'
<1>1. Receive(f) /\ UNCHANGED <<backend, back, frontend, kind, queued, toDeliver, excess>>
  BY DEF Websocket, backVars, history
<1>2. /\ f \notin excess => answers'[f] \in {answers[f] \o <<Ticket(f)>>, Append(answers[f], Ticket(f))}
      /\ conn[f] \in Live => conn'[f] \in Live
      /\ \A g \in Fronts \ {f} :
           answers'[g] = answers[g] /\ busy'[g] = busy[g] /\ conn'[g] = conn[g]
  <2>1. CASE upgraded
    BY <2>1 DEF Websocket, WebInv, WebTypeOK
  <2>2. CASE ~upgraded
    <3>1. SendKeep(f, <<Ticket(f)>>, TRUE \/ close'[f])
      BY <2>2 DEF Websocket, Reply
    <3> QED
      BY <3>1, SendFacts
  <2> QED
    BY <2>1, <2>2
<1>3. \A g \in Fronts \ {f} : SameFront(g)
  BY <1>1, <1>2, ReceiveFacts DEF SameFront
<1>4. ASSUME f \notin excess PROVE Ordered(f)'
  <2>1. Settled(f) /\ Ticket(f) = Len(answers[f]) + 1 /\ handled'[f] = Ticket(f)
    BY <1>1, <1>4, ReceiveFacts DEF Settled
  <2>2. answers[f] \in Seq(0..MaxRequests)
    BY DEF WebInv, WebTypeOK
  <2>3. Numbered(f)' /\ Len(answers'[f]) = handled'[f]
    BY <1>2, <1>4, <2>1, <2>2, NextNumber DEF Settled, Numbered
  <2>4. Settled(f)'
    BY <1>1, <1>2, <2>1, <2>3, ReceiveFacts DEF Settled, Pending, Untold
  <2> QED
    BY <2>4, SettledOrdered2
<1>5. Sent'
  <2>1. \A g \in Fronts : conn[g] # "none" => conn'[g] # "none"
    BY <1>1, <1>2, ReceiveFacts DEF Live
  <2> QED
    BY <1>1, <2>1 DEF OrderInv, Sent, WebInv, WebTypeOK, Forward
<1> QED
  BY <1>1, <1>3, <1>4, <1>5, SameElsewhere

LEMMA ProxyOrder ==
  ASSUME WebInv, OrderInv, NEW f \in Fronts, NEW stream \in BOOLEAN, Proxy(f, stream)
  PROVE  OrderInv'
<1>1. Receive(f) /\ UNCHANGED <<ws, queued, toDeliver, started, count, history>>
  BY DEF Proxy
<1>2. CASE Reply(f, <<Ticket(f)>>, TRUE) /\ UNCHANGED backVars
  <2>1. Respond(f, TRUE)
    BY <1>1, <1>2 DEF Respond
  <2> QED
    BY <2>1, RespondOrder
<1>3. CASE Wait(f) /\ (UNCHANGED backVars \/ \E b \in Backs : Connect(f, b, stream))
  BY <1>1, <1>3, WaitOrder DEF history
<1> QED
  BY <1>2, <1>3 DEF Proxy

(* Steps that leave the requests and responses of every connection alone.  *)
LEMMA QuietOrder ==
  ASSUME WebInv, OrderInv,
         UNCHANGED <<answers, busy, handled, backend, kind, queued, toDeliver, excess>>,
         \A f \in Fronts : /\ conn'[f] \in Live <=> conn[f] \in Live
                           /\ conn[f] # "none" => conn'[f] # "none"
  PROVE  OrderInv'
<1>1. \A f \in Fronts : SameFront(f)
  BY DEF SameFront
<1>2. Sent'
  BY DEF OrderInv, Sent, WebInv, WebTypeOK, Forward
<1> QED
  BY <1>1, <1>2, SameOrdered DEF OrderInv

LEMMA QuietStepsOrder ==
  ASSUME WebInv, OrderInv,
         \/ \E f \in Fronts : \/ Ask(f) \/ PingsTimeOut(f) \/ \E written \in BOOLEAN : Ping(f, written)
         \/ Notify \/ Start \/ \E b \in Backs : BackendConnected(b)
         \/ UNCHANGED webVars
  PROVE  OrderInv'
<1>1. UNCHANGED <<answers, busy, handled, backend, kind, queued, toDeliver, excess>>
  BY DEF Ask, PingsTimeOut, Ping, Notify, Start, BackendConnected, webVars, frontVars, backVars, history
<1>2. \A f \in Fronts : conn'[f] = conn[f] \/ (conn[f] \in Live /\ conn'[f] \in Live)
  <2>1. CASE conn' = conn
    BY <2>1
  <2>2. CASE \E f \in Fronts, written \in BOOLEAN : Ping(f, written)
    BY <2>2 DEF Ping, Live, WebInv, WebTypeOK
  <2>3. CASE Notify
    BY <2>3 DEF Notify, Live, WebInv, WebTypeOK
  <2> QED
    BY <2>1, <2>2, <2>3
       DEF Ask, PingsTimeOut, Start, BackendConnected, webVars, frontVars
<1>3. "none" \notin Live
  BY DEF Live
<1> QED
  BY <1>1, <1>2, <1>3, QuietOrder

LEMMA AcceptOrder == ASSUME WebInv, OrderInv, NEW f \in Fronts, Accept(f) PROVE OrderInv'
<1>1. /\ conn[f] = "none"
      /\ UNCHANGED <<close, toAsk, asked, handled, ws, backend, back, frontend, kind, queued, toDeliver>>
  BY DEF Accept, backVars
<1>2. /\ \/ /\ excess' = excess \union {f}
            /\ SendKeep(f, <<0>>, TRUE \/ close[f])
         \/ conn' = [conn EXCEPT ![f] = "open"] /\ UNCHANGED <<busy, answers, excess>>
  BY DEF Accept, Send
<1>3. \A g \in Fronts \ {f} :
        answers'[g] = answers[g] /\ busy'[g] = busy[g] /\ conn'[g] = conn[g]
  BY <1>2, SendFacts DEF WebInv, WebTypeOK
<1>4. \A g \in Fronts \ {f} : SameFront(g)
  BY <1>1, <1>3 DEF SameFront
<1>5. conn'[f] # "none"
  BY <1>2 DEF SendKeep, Draining, WebInv, WebTypeOK
<1>6. Sent'
  BY <1>1, <1>3, <1>5 DEF OrderInv, Sent, WebInv, WebTypeOK, Forward
<1>7. ASSUME f \notin excess' PROVE Ordered(f)'
  <2>1. conn' = [conn EXCEPT ![f] = "open"] /\ UNCHANGED <<busy, answers, excess>>
    BY <1>2, <1>7
  <2>2. Ordered(f) /\ Pending(f) = {}
    BY <1>1, <1>7, <2>1 DEF OrderInv, Sent, Pending
  <2>3. backend[f] = Null
    BY <1>1 DEF WebInv, BackendLinks, Live
  <2>4. Numbered(f) /\ handled[f] = Len(answers[f])
    BY <1>1, <2>2 DEF Ordered, Live
  <2>5. Settled(f)'
    BY <1>1, <2>1, <2>2, <2>3, <2>4 DEF Settled, Numbered, Pending, Untold, Live, WebInv, WebTypeOK
  <2> QED
    BY <2>5, SettledOrdered2
<1> QED
  BY <1>2, <1>4, <1>6, <1>7, SameElsewhere

LEMMA FrontCloseOrder == ASSUME WebInv, OrderInv, NEW f \in Fronts, FrontClose(f) PROVE OrderInv'
<1>1. /\ conn[f] \in Live /\ conn' = [conn EXCEPT ![f] = "closed"]
      /\ backend' = [backend EXCEPT ![f] = Null] /\ handled' = [handled EXCEPT ![f] = 0]
      /\ answers' = [answers EXCEPT ![f] = <<>>] /\ busy' = [busy EXCEPT ![f] = FALSE]
      /\ excess' = excess \ {f}
      /\ UNCHANGED <<kind, queued, toDeliver>>
  BY DEF FrontClose
<1>2. \A g \in Fronts \ {f} : SameFront(g)
  BY <1>1 DEF SameFront, WebInv, WebTypeOK
<1>3. /\ conn'[f] = "closed" /\ backend'[f] = Null /\ handled'[f] = 0 /\ answers'[f] = <<>>
  BY <1>1 DEF WebInv, WebTypeOK
<1>4. Ordered(f)'
  BY <1>3 DEF Ordered, Numbered, Untold, Live
<1>5. Sent'
  BY <1>1 DEF OrderInv, Sent, WebInv, WebTypeOK, Forward
<1> QED
  BY <1>1, <1>2, <1>4, <1>5, SameElsewhere
(* The answer of another thread goes from one queue to the other.          *)
LEMMA AnswerOrder ==
  ASSUME WebInv, OrderInv, NEW r \in Forward, AnswerRequest(r)
  PROVE  OrderInv'
<1>1. /\ r \in queued /\ r.to # "nobody"
      /\ queued' = queued \ {r} /\ toDeliver' = toDeliver \union {r}
      /\ UNCHANGED <<conn, busy, handled, answers, backend, kind, excess>>
  BY DEF AnswerRequest, frontVars, backVars, history
<1> DEFINE f == r.front
<1>2. f \in Fronts
  BY DEF Forward
<1>3. \A g \in Fronts \ {f} : SameFront(g)
  BY <1>1 DEF SameFront
<1>4. ASSUME f \notin excess PROVE Ordered(f)'
  <2>1. Pending(f)' = Pending(f)
    BY <1>1 DEF Pending
  <2>2. Ordered(f) /\ Awaits(f)' = Awaits(f) /\ Untold(f)' = Untold(f) /\ Numbered(f)' = Numbered(f)
    BY <1>1, <1>2, <1>4 DEF OrderInv, Awaits, Untold, Numbered
  <2>3. r \in Pending(f)
    BY <1>1 DEF Pending
  <2>4. r \notin queued' \intersect toDeliver'
    BY <1>1
  <2> QED
    BY <1>1, <2>1, <2>2, <2>3, <2>4 DEF Ordered
<1>5. Sent'
  BY <1>1 DEF OrderInv, Sent
<1> QED
  BY <1>1, <1>2, <1>3, <1>4, <1>5, SameElsewhere

(* The scripts of an event take over the request; two of them are a named  *)
(* exception.                                                              *)
LEMMA TriggeredOrder ==
  ASSUME WebInv, OrderInv, NEW r \in Forward, NEW n \in 0..2, Triggered(r, n)
  PROVE  OrderInv'
<1> DEFINE f == r.front
           new(x) == [r EXCEPT !.to = x]
<1>1. /\ r \in queued /\ r.to \in {"image", "bgimage"}
      /\ UNCHANGED <<conn, busy, handled, answers, backend, kind, toDeliver>>
  BY DEF Triggered, frontVars, backVars
<1>2. excess' = IF n = 2 /\ conn[f] \in Live THEN excess \union {f} ELSE excess
  BY DEF Triggered
<1>3. f \in Fronts /\ \A x : new(x).front = f /\ new(x).ticket = r.ticket /\ new(x).to = x
  BY DEF Forward
<1>4. queued' = (queued \ {r}) \union
        {new(x) : x \in CASE n = 0 -> {"nobody"} [] n = 1 -> {"script"} [] n = 2 -> {"script", "second"}}
  BY DEF Triggered
<1>5. /\ \A s \in queued' : s \in queued \/ s.front = f
      /\ \A s \in queued : s \in queued' \/ s = r
  BY <1>3, <1>4, ZenonT(60)
<1> HIDE DEF new
<1>6. ASSUME NEW g \in Fronts \ {f} PROVE SameFront(g)
  <2>1. \A s : s.front = g => (s \in queued' <=> s \in queued)
    BY <1>5
  <2> QED
    BY <1>1, <1>2, <2>1 DEF SameFront
<1>7. ASSUME f \notin excess' PROVE Ordered(f)'
  <2>1. f \notin excess /\ Ordered(f)
    BY <1>2, <1>3, <1>7 DEF OrderInv
  <2>2. Awaits(f)' = Awaits(f) /\ Untold(f)' = Untold(f) /\ Numbered(f)' = Numbered(f)
    BY <1>1 DEF Awaits, Untold, Numbered
  <2>3. CASE conn[f] \notin Live
    BY <1>1, <2>1, <2>2, <2>3 DEF Ordered
  <2>4. CASE conn[f] \in Live
    <3>1. r \in Pending(f)
      BY <1>1 DEF Pending
    <3>2. /\ Awaits(f) /\ ~Untold(f) /\ r.ticket = handled[f]
          /\ r \notin toDeliver /\ Pending(f) = {r}
      BY <1>1, <2>1, <2>4, <3>1 DEF Ordered
    <3>3. \A s \in toDeliver : s.front = f => s.to = "nobody"
      BY <3>2 DEF Pending
    <3>4. \A s \in queued \ {r} : s.front = f => s.to = "nobody"
      BY <3>2 DEF Pending
    <3>5. CASE n = 0
      <4>1. queued' = (queued \ {r}) \union {new("nobody")}
        BY <1>4, <3>5
      <4>2. Pending(f)' = {}
        BY <1>1, <1>3, <3>3, <3>4, <4>1 DEF Pending
      <4> QED
        BY <1>1, <2>1, <2>2, <4>2 DEF Ordered
    <3>6. CASE n = 1
      <4>1. queued' = (queued \ {r}) \union {new("script")}
        BY <1>4, <3>6
      <4>2. new("script") \notin toDeliver
        <5>1. new("script").front = f /\ new("script").to = "script"
          BY <1>3
        <5> QED
          BY <3>3, <5>1
      <4>3. Pending(f)' = {new("script")}
        <5>1. new("script").front = f /\ new("script").to = "script"
          BY <1>3
        <5>2. new("script") \in Pending(f)'
          BY <4>1, <5>1 DEF Pending
        <5>3. \A s \in Pending(f)' : s = new("script")
          BY <1>1, <3>3, <3>4, <4>1 DEF Pending
        <5> QED
          BY <5>2, <5>3
      <4> QED
        BY <1>1, <1>3, <2>1, <2>2, <3>2, <4>2, <4>3 DEF Ordered
    <3> QED
      BY <1>2, <1>7, <2>4, <3>5, <3>6
  <2> QED
    BY <2>3, <2>4
<1>8. Sent'
  BY <1>1, <1>5 DEF OrderInv, Sent
<1> QED
  BY <1>2, <1>3, <1>6, <1>7, <1>8, SameElsewhere

(* The response a connection waits for settles it.                         *)
LEMMA AnsweredSettled ==
  ASSUME WebInv, NEW f \in Fronts, f \notin excess, Ordered(f), Awaits(f), conn[f] \in Live,
         NEW drain, SendKeep(f, <<handled[f]>>, drain), handled' = handled,
         Pending(f)' = {}, ~Untold(f)'
  PROVE  Settled(f)'
<1>1. answers'[f] = answers[f] \o <<handled[f]>> /\ conn'[f] \in Live
  BY SendFacts
<1>2. answers[f] \in Seq(0..MaxRequests) /\ handled[f] \in Nat
  BY DEF WebInv, WebTypeOK
<1>3. handled[f] = Len(answers[f]) + 1
  BY <1>2 DEF Awaits
<1>4. Numbered(f)' /\ Len(answers'[f]) = handled[f]
  BY <1>1, <1>2, <1>3, NextNumber DEF Ordered, Numbered
<1> QED
  BY <1>1, <1>4 DEF Settled

LEMMA DeliverOrder == ASSUME WebInv, OrderInv, NEW r \in Forward, Deliver(r) PROVE OrderInv'
<1> DEFINE f == r.front
<1>1. /\ r \in toDeliver /\ toDeliver' = toDeliver \ {r} /\ f \in Fronts
      /\ UNCHANGED <<handled, backend, kind, queued, excess>>
  BY DEF Deliver, backVars, history, Forward
<1>2. /\ conn[f] \in Live => SendKeep(f, <<r.ticket>>, FALSE \/ close[f])
      /\ conn[f] \notin Live => UNCHANGED <<answers, busy, conn>>
  BY DEF Deliver, Send
<1>3. /\ \A g \in Fronts \ {f} :
           answers'[g] = answers[g] /\ busy'[g] = busy[g] /\ conn'[g] = conn[g]
      /\ conn[f] \in Live => conn'[f] \in Live
  BY <1>1, <1>2, SendFacts
<1>4. \A g \in Fronts \ {f} : SameFront(g)
  BY <1>1, <1>3 DEF SameFront
<1>5. ASSUME f \notin excess PROVE Ordered(f)'
  <2>1. Ordered(f) /\ r \in Pending(f)
    BY <1>1, <1>5 DEF OrderInv, Sent, Pending
  <2>2. CASE conn[f] \in Live
    <3>1. /\ Awaits(f) /\ ~Untold(f) /\ r.ticket = handled[f]
          /\ r \notin queued /\ Pending(f) = {r}
      BY <1>1, <2>1, <2>2 DEF Ordered
    <3>2. Pending(f)' = {} /\ ~Untold(f)'
      BY <1>1, <3>1 DEF Pending, Untold
    <3>3. SendKeep(f, <<handled[f]>>, FALSE \/ close[f])
      BY <1>2, <2>2, <3>1
    <3>4. Settled(f)'
      BY <1>1, <1>5, <2>1, <2>2, <3>1, <3>2, <3>3, AnsweredSettled
    <3> QED
      BY <1>1, <3>4, SettledOrdered2
  <2>3. CASE conn[f] \notin Live
    BY <1>1, <1>2, <2>1, <2>3 DEF Ordered, Numbered, Awaits, Untold
  <2> QED
    BY <2>2, <2>3
<1>6. Sent'
  <2>1. \A g \in Fronts : conn[g] # "none" => conn'[g] # "none"
    BY <1>2, <1>3 DEF Live
  <2> QED
    BY <1>1, <2>1 DEF OrderInv, Sent, WebInv, WebTypeOK, Forward
<1> QED
  BY <1>1, <1>4, <1>5, <1>6, SameElsewhere

(* A connection of the proxy answers the request it was made for.          *)
LEMMA ProxyAnswerOrder ==
  ASSUME WebInv, OrderInv, NEW b \in Backs, BackendError(b) \/ StreamData(b) \/ CoverMismatch(b)
  PROVE  OrderInv'
<1> PICK f : f = frontend[b]
  OBVIOUS
<1>1. /\ UNCHANGED <<handled, backend, frontend, queued, toDeliver>>
      /\ back[b] \notin Ended
  BY DEF BackendError, StreamData, CoverMismatch, history, Ended
<1>2. CASE UNCHANGED <<answers, busy, conn, kind, excess>>
  BY <1>1, <1>2, QuietOrder
<1>3. CASE /\ f # Null /\ kind' = [kind EXCEPT ![b].told = TRUE]
           /\ excess' = IF kind[b].told THEN excess \union {f} ELSE excess
           /\ \/ SendKeep(f, <<kind[b].ticket>>, FALSE \/ close[f])
              \/ /\ UNCHANGED <<busy, conn>>
                 /\ answers' = [answers EXCEPT ![f] = Append(@, kind[b].ticket)]
  <2>1. f \in Fronts /\ conn[f] \in Live /\ backend[f] = b /\ b # Null
    BY <1>3, LinkedFront, WebAssumption DEF WebInv, BackendLinks
  <2>2. /\ f \notin excess => answers'[f] \in {answers[f] \o <<kind[b].ticket>>, Append(answers[f], kind[b].ticket)}
        /\ conn'[f] \in Live
        /\ \A g \in Fronts \ {f} :
             answers'[g] = answers[g] /\ busy'[g] = busy[g] /\ conn'[g] = conn[g]
    <3>1. CASE SendKeep(f, <<kind[b].ticket>>, FALSE \/ close[f])
      BY <2>1, <3>1, SendFacts
    <3>2. CASE /\ UNCHANGED <<busy, conn>>
               /\ answers' = [answers EXCEPT ![f] = Append(@, kind[b].ticket)]
      BY <2>1, <3>2 DEF WebInv, WebTypeOK
    <3> QED
      BY <1>3, <3>1, <3>2
  <2>3. \A g \in Fronts \ {f} : backend[g] # Null => kind'[backend[g]] = kind[backend[g]]
    <3>1. \A g \in Fronts \ {f} : backend[g] # b
      BY <2>1 DEF WebInv, BackendLinks
    <3>2. \A c \in Backs \ {b} : kind'[c] = kind[c]
      BY <1>3 DEF WebInv, WebTypeOK
    <3>3. \A g \in Fronts : backend[g] \in Backs \union {Null}
      BY DEF WebInv, WebTypeOK
    <3> QED
      BY <3>1, <3>2, <3>3
  <2>4. \A g \in Fronts \ {f} : SameFront(g)
    BY <1>1, <2>2, <2>3 DEF SameFront
  <2>5. ASSUME f \notin excess' PROVE Ordered(f)'
    <3>1. f \notin excess /\ ~kind[b].told /\ Ordered(f)
      BY <1>3, <2>1, <2>5 DEF OrderInv
    <3>2. Untold(f) /\ Awaits(f) /\ kind[b].ticket = handled[f]
      BY <2>1, <3>1 DEF Untold, Ordered
    <3>3. Pending(f) = {} /\ Pending(f)' = {}
      BY <1>1, <2>1, <3>1, <3>2 DEF Ordered, Pending
    <3>4. ~Untold(f)'
      <4>1. kind[b] \in Kinds
        BY <1>1, TicketBounded
      <4>2. kind'[b] = [kind[b] EXCEPT !.told = TRUE]
        BY <1>3 DEF WebInv, WebTypeOK
      <4>3. kind'[b].told
        BY <4>1, <4>2 DEF Kinds
      <4> QED
        BY <1>1, <2>1, <4>3 DEF Untold
    <3>5. answers[f] \in Seq(0..MaxRequests) /\ handled[f] = Len(answers[f]) + 1
      BY <2>1, <3>2 DEF Awaits, WebInv, WebTypeOK
    <3>6. Numbered(f)' /\ Len(answers'[f]) = handled'[f]
      <4>1. kind[b].ticket = Len(answers[f]) + 1 /\ handled'[f] = handled[f]
            /\ \A k \in DOMAIN answers[f] : answers[f][k] = k
        BY <1>1, <3>1, <3>2, <3>5 DEF Ordered, Numbered
      <4>2. Len(answers'[f]) = kind[b].ticket /\ \A k \in DOMAIN answers'[f] : answers'[f][k] = k
        <5> DEFINE t == kind[b].ticket
                   s == answers[f]
        <5>1. s \in Seq(0..MaxRequests) /\ t = Len(s) + 1 /\ \A k \in DOMAIN s : s[k] = k
          BY <3>5, <4>1
        <5>2. answers'[f] \in {s \o <<t>>, Append(s, t)}
          BY <2>2, <3>1
        <5> HIDE DEF s, t
        <5>3. /\ Len(s \o <<t>>) = t /\ Len(Append(s, t)) = t
              /\ \A k \in DOMAIN (s \o <<t>>) : (s \o <<t>>)[k] = k
              /\ \A k \in DOMAIN Append(s, t) : Append(s, t)[k] = k
          BY <5>1, NextNumber
        <5>4. Len(answers'[f]) = t /\ \A k \in DOMAIN answers'[f] : answers'[f][k] = k
          BY <5>2, <5>3
        <5> QED
          BY <5>4 DEF t
      <4> QED
        BY <3>2, <4>1, <4>2 DEF Numbered
    <3>7. Settled(f)'
      BY <2>2, <3>3, <3>4, <3>6 DEF Settled
    <3> QED
      BY <2>1, <3>7, SettledOrdered2
  <2>6. Sent'
    <3>1. \A g \in Fronts : conn[g] # "none" => conn'[g] # "none"
      BY <2>1, <2>2 DEF Live
    <3> QED
      BY <1>1, <3>1 DEF OrderInv, Sent, WebInv, WebTypeOK, Forward
  <2> QED
    BY <1>3, <2>1, <2>4, <2>5, <2>6, SameElsewhere
<1>4. CASE BackendError(b)
  BY <1>1, <1>2, <1>3, <1>4, TicketBounded DEF BackendError, Send, Kinds
<1>5. CASE StreamData(b) \/ CoverMismatch(b)
  <2>1. ~kind[b].told /\ excess' = excess
    BY <1>5 DEF StreamData, CoverMismatch, history
  <2> QED
    BY <1>3, <1>5, <2>1 DEF StreamData, CoverMismatch, Send
<1> QED
  BY <1>4, <1>5

LEMMA BackendCloseOrder ==
  ASSUME WebInv, OrderInv, NEW b \in Backs, NEW image \in BOOLEAN, BackendClose(b, image)
  PROVE  OrderInv'
<1> PICK f : f = frontend[b]
  OBVIOUS
<1>1. /\ kind' = [kind EXCEPT ![b] = Null] /\ back[b] \notin Ended
      /\ image => ~kind[b].told /\ f # Null
      /\ UNCHANGED <<handled, queued, toDeliver, excess>>
  BY DEF BackendClose, Ended
<1>2. \A c \in Backs \ {b} : kind'[c] = kind[c]
  BY <1>1 DEF WebInv, WebTypeOK
<1>3. \A g \in Fronts : backend[g] \in Backs \union {Null} /\ (backend[g] = b => g = f)
  BY WebAssumption DEF WebInv, WebTypeOK, BackendLinks
<1>4. CASE f = Null
  <2>1. UNCHANGED <<answers, busy, conn, backend>>
    BY <1>4 DEF BackendClose
  <2>2. \A g \in Fronts : SameFront(g)
    BY <1>1, <1>2, <1>3, <1>4, <2>1, WebAssumption DEF SameFront
  <2>3. Sent'
    BY <1>1, <2>1 DEF OrderInv, Sent
  <2> QED
    BY <1>1, <2>2, <2>3, SameOrdered DEF OrderInv
<1>5. CASE f # Null
  <2>1. f \in Fronts /\ conn[f] \in Live /\ backend[f] = b /\ b # Null
    BY <1>5, LinkedFront, WebAssumption DEF WebInv, BackendLinks
  <2>2. /\ backend' = [backend EXCEPT ![f] = Null]
        /\ image => SendKeep(f, <<kind[b].ticket>>, TRUE \/ close[f])
        /\ ~image => conn' = [conn EXCEPT ![f] = Draining(@)] /\ UNCHANGED <<answers, busy>>
    BY <1>5 DEF BackendClose, Send
  <2>3. /\ conn'[f] \in Live
        /\ \A g \in Fronts \ {f} :
             answers'[g] = answers[g] /\ busy'[g] = busy[g] /\ conn'[g] = conn[g]
    <3>1. CASE image
      BY <2>1, <2>2, <3>1, SendFacts
    <3>2. CASE ~image
      BY <2>1, <2>2, <3>2 DEF WebInv, WebTypeOK, Draining, Live
    <3> QED
      BY <3>1, <3>2
  <2>4. \A g \in Fronts \ {f} : backend'[g] = backend[g]
        /\ (backend[g] # Null => kind'[backend[g]] = kind[backend[g]])
    BY <1>2, <1>3, <2>2 DEF WebInv, WebTypeOK
  <2>5. \A g \in Fronts \ {f} : SameFront(g)
    BY <1>1, <2>3, <2>4 DEF SameFront
  <2>6. ~Untold(f)' /\ Pending(f)' = Pending(f)
    BY <1>1, <2>1, <2>2 DEF Untold, Pending, WebInv, WebTypeOK
  <2>7. ASSUME f \notin excess PROVE Ordered(f)'
    <3>1. Ordered(f)
      BY <2>1, <2>7 DEF OrderInv
    <3>2. CASE image
      <4>1. Untold(f)
        BY <1>1, <2>1, <3>2 DEF Untold
      <4>2. Awaits(f) /\ kind[b].ticket = handled[f] /\ Pending(f) = {}
        BY <2>1, <3>1, <4>1 DEF Ordered
      <4>3. SendKeep(f, <<handled[f]>>, TRUE \/ close[f])
        BY <2>2, <3>2, <4>2
      <4>4. Settled(f)'
        BY <1>1, <2>1, <2>6, <2>7, <3>1, <4>2, <4>3, AnsweredSettled
      <4> QED
        BY <2>1, <4>4, SettledOrdered2
    <3>3. CASE ~image
      <4>1. Awaits(f)' = Awaits(f) /\ Numbered(f)' = Numbered(f)
        BY <1>1, <2>1, <2>2, <3>3 DEF Awaits, Numbered
      <4> QED
        BY <1>1, <2>1, <2>2, <2>3, <2>6, <3>1, <3>3, <4>1 DEF Ordered
    <3> QED
      BY <3>2, <3>3
  <2>8. Sent'
    <3>1. \A g \in Fronts : conn[g] # "none" => conn'[g] # "none"
      BY <2>1, <2>3 DEF Live
    <3> QED
      BY <1>1, <3>1 DEF OrderInv, Sent, WebInv, WebTypeOK, Forward
  <2> QED
    BY <1>1, <2>1, <2>5, <2>7, <2>8, SameElsewhere
<1> QED
  BY <1>4, <1>5

LEMMA OrderInit == WebInit => OrderInv
BY DEF WebInit, OrderInv, Sent, Ordered, Numbered, Awaits, Untold, Pending, Live

LEMMA HandleOrder == ASSUME WebInv, OrderInv, NEW f \in Fronts, Handle(f) PROVE OrderInv'
<1> USE RespondOrder, HandOrder
<1>1. PICK b \in BOOLEAN :
    \/ CheckRequest(f, b) \/ ServeFile(f) \/ Extm3u(f, b) \/ Api(f) \/ ScriptApi(f, b)
    \/ AlbumartByAlbumId(f) \/ Folderart(f, b) \/ Tagart(f, b) \/ Playlistart(f, b)
    \/ ScriptHttp(f, b) \/ Bgimage(f) \/ Websocket(f, b) \/ Proxy(f, b)
    \/ \E source \in Sources : AlbumartByUri(f, source)
  BY DEF Handle
<1>2. CASE CheckRequest(f, b) \/ ServeFile(f) \/ Extm3u(f, b)
  BY <1>2 DEF CheckRequest, ServeFile, Extm3u
<1>3. CASE Folderart(f, b) \/ Tagart(f, b) \/ Playlistart(f, b)
  BY <1>3 DEF Folderart, Tagart, Playlistart
<1>4. CASE AlbumartByAlbumId(f) \/ ScriptHttp(f, b) \/ Bgimage(f)
  BY <1>4 DEF AlbumartByAlbumId, ScriptHttp, Bgimage
<1>5. CASE \E source \in Sources : AlbumartByUri(f, source)
  BY <1>5 DEF AlbumartByUri
<1> QED
  BY <1>1, <1>2, <1>3, <1>4, <1>5, ApiOrder, ScriptApiOrder, WebsocketOrder, ProxyOrder

LEMMA OrderStep == WebInv /\ OrderInv /\ [WebNext]_webVars => OrderInv'
<1> SUFFICES ASSUME WebInv, OrderInv, [WebNext]_webVars PROVE OrderInv'
  OBVIOUS
<1>1. CASE \E f \in Fronts : Accept(f) \/ FrontClose(f) \/ Handle(f)
  BY <1>1, AcceptOrder, FrontCloseOrder, HandleOrder
<1>2. CASE \/ \E f \in Fronts : \/ Ask(f) \/ PingsTimeOut(f) \/ \E written \in BOOLEAN : Ping(f, written)
           \/ Notify \/ Start \/ \E b \in Backs : BackendConnected(b)
           \/ UNCHANGED webVars
  BY <1>2, QuietStepsOrder
<1>3. CASE \E b \in Backs : \/ BackendError(b) \/ StreamData(b) \/ CoverMismatch(b)
                            \/ \E image \in BOOLEAN : BackendClose(b, image)
  BY <1>3, ProxyAnswerOrder, BackendCloseOrder
<1>4. CASE \E r \in Forward : AnswerRequest(r) \/ Deliver(r) \/ \E n \in 0..2 : Triggered(r, n)
  BY <1>4, AnswerOrder, DeliverOrder, TriggeredOrder
<1> QED
  BY <1>1, <1>2, <1>3, <1>4 DEF WebNext

(* The k-th response on a connection is the one to its k-th request,       *)
(* however many requests are sent ahead and in whatever order the other    *)
(* threads and the proxied servers answer, but for the named exceptions    *)
(* (webserver.c:489), for any connections, requests and limits.            *)
THEOREM ResponsesInOrder == WebSpec => []InOrder
<1>1. WebInv /\ OrderInv => InOrder
  <2> SUFFICES ASSUME OrderInv, NEW f \in Fronts \ excess
               PROVE  /\ Len(answers[f]) \in {handled[f], handled[f] - 1}
                      /\ \A k \in DOMAIN answers[f] : answers[f][k] = k
    BY DEF InOrder
  <2>1. Ordered(f)
    BY DEF OrderInv
  <2> QED
    BY <2>1 DEF Ordered, Numbered, Awaits
<1> QED
  BY WebInvInit, WebInvStep, OrderInit, OrderStep, <1>1, PTL DEF WebSpec
=============================================================================
