------------------------------ MODULE MCMsgQueue ------------------------------
(* The four queues of main.c.  The first two have one consumer, the api or *)
(* the webserver thread; so has script_queue, but two consumers make more  *)
(* wakeups go astray.                                                      *)
EXTENDS MsgQueue, TLC

CONSTANTS p1, p2, p3, c1, c2

OneThread == (c1 :> {0}) @@ (c2 :> {})
AnyEntry  == [c \in Consumers |-> {0}]
OwnId     == (c1 :> {1}) @@ (c2 :> {2})

AllQueues == {"mympd_api", "webserver", "script", "script_worker"}
AllSetups ==
  [q \in AllQueues |->
     CASE q = "mympd_api"     -> [notify |-> "eventfd", ids |-> {0}, want |-> OneThread,
                                  timed |-> {}, expires |-> FALSE]
       [] q = "webserver"     -> [notify |-> "mongoose", ids |-> {0}, want |-> OneThread,
                                  timed |-> {}, expires |-> FALSE]
       [] q = "script"        -> [notify |-> "cond", ids |-> {0}, want |-> AnyEntry,
                                  timed |-> {c2}, expires |-> FALSE]
       [] q = "script_worker" -> [notify |-> "cond", ids |-> {1, 2}, want |-> OwnId,
                                  timed |-> Consumers, expires |-> TRUE]]
===============================================================================
