------------------------------ MODULE MsgQueue -------------------------------
(***************************************************************************)
(* The threads around a message queue of lib/msg_queue.c: producers in     *)
(* mympd_queue_push, consumers in mympd_queue_shift, and the three ways a  *)
(* consumer learns of an entry.  main.c creates four queues; a behavior is *)
(* about one of them, which the variable queue names.                      *)
(*   "cond"     consumers block in pthread_cond_(timed)wait: script_queue  *)
(*              (infinite wait, id 0) and script_worker_queue (1 s, ids).  *)
(*   "eventfd"  the consumer polls a semaphore eventfd and takes one entry *)
(*              per count without waiting: mympd_api_queue.                *)
(*   "mongoose" the consumer drains the queue at every wakeup message of a *)
(*              bounded socket pair: webserver_queue.                      *)
(* The mutex makes everything between lock and unlock one step; the        *)
(* signal and the notification follow the unlock and are steps of their    *)
(* own, so other threads run in between.                                   *)
(***************************************************************************)
EXTENDS Channel

CONSTANTS
  Producers, Consumers,
  Queues,
  Setup,       \* queue -> how it is used
  PipeCap      \* wakeup messages the socket pair of mongoose holds

ASSUME QueueAssumption ==
  /\ IsFiniteSet(Producers) /\ IsFiniteSet(Consumers)
  /\ Setup \in [Queues -> [notify : {"cond", "eventfd", "mongoose"},
                           ids : SUBSET Ids,               \* of the entries
                           want : [Consumers -> SUBSET Ids],
                           timed : SUBSET Consumers,       \* waits with a timeout
                           expires : BOOLEAN]]             \* mympd_queue_expire_age
  /\ PipeCap \in Nat \ {0}

VARIABLES
  queue,     \* the queue of this behavior
  pc,        \* producer -> "idle", "unlocked" (signal due), "signalled" (notification due)
  state,     \* consumer -> "idle", "waiting", "woken", "reading"
  wanted,    \* consumer -> id of its pending shift
  notified   \* eventfd counter, or wakeup messages in the socket pair

vars == <<chanVars, queue, pc, state, wanted, notified>>

Notify    == Setup[queue].notify
Want      == Setup[queue].want
Timed     == Setup[queue].timed
MayExpire == Setup[queue].expires

Unlocked  == {p \in Producers : pc[p] = "unlocked"}
Signalled == {p \in Producers : pc[p] = "signalled"}
Waiting   == {c \in Consumers : state[c] = "waiting"}
Woken     == {c \in Consumers : state[c] = "woken"}
Reading   == {c \in Consumers : state[c] = "reading"}

TypeOK ==
  /\ ChannelTypeOK /\ queue \in Queues
  /\ pc \in [Producers -> {"idle", "unlocked", "signalled"}]
  /\ state \in [Consumers -> {"idle", "waiting", "woken", "reading"}]
  /\ wanted \in [Consumers -> Ids]
  /\ notified \in Nat

Init ==
  /\ ChannelInit /\ queue \in Queues
  /\ pc = [p \in Producers |-> "idle"]
  /\ state = [c \in Consumers |-> "idle"]
  /\ wanted = [c \in Consumers |-> 0]
  /\ notified = 0

-----------------------------------------------------------------------------
(* mympd_queue_push *)

Push(p, id) ==
  /\ pc[p] = "idle"
  /\ Enqueue(id)
  /\ pc' = [pc EXCEPT ![p] = "unlocked"]
  /\ UNCHANGED <<queue, state, wanted, notified>>

\* mutant: no pthread_cond_signal, no notification
SignalLost(p) ==
  /\ pc[p] = "unlocked"
  /\ pc' = [pc EXCEPT ![p] = "idle"]
  /\ UNCHANGED <<chanVars, queue, state, wanted, notified>>

\* pthread_cond_signal: wakes one waiter if there is one, whichever id it wants
Signal(p) ==
  /\ pc[p] = "unlocked"
  /\ pc' = [pc EXCEPT ![p] = IF Notify = "cond" THEN "idle" ELSE "signalled"]
  /\ \/ Waiting = {} /\ UNCHANGED state
     \/ \E c \in Waiting : state' = [state EXCEPT ![c] = "woken"]
  /\ UNCHANGED <<chanVars, queue, wanted, notified>>

\* eventfd_write adds one; mg_wakeup's send drops the message of a full socket
NotifyConsumer(p) ==
  /\ pc[p] = "signalled"
  /\ pc' = [pc EXCEPT ![p] = "idle"]
  /\ notified' = IF Notify = "mongoose" /\ notified >= PipeCap
                 THEN notified ELSE notified + 1
  /\ UNCHANGED <<chanVars, queue, state, wanted>>

-----------------------------------------------------------------------------
(* mympd_queue_shift *)

\* the scan from head on: take the first match, or return NULL
Scan(id) == \/ \E m \in Queued : Dequeue(m, id)
            \/ ~HasId(id) /\ UNCHANGED chanVars

\* mutant: the queue is not checked before the wait
ShiftUnchecked(c) ==
  /\ Notify = "cond" /\ state[c] = "idle"
  /\ \E id \in Want[c] : wanted' = [wanted EXCEPT ![c] = id]
  /\ state' = [state EXCEPT ![c] = "waiting"]
  /\ UNCHANGED <<chanVars, queue, pc, notified>>

\* timeout_ms >= 0: an entry is there, or the thread blocks
Shift(c) ==
  /\ Notify = "cond" /\ state[c] = "idle"
  /\ \E id \in Want[c] :
       /\ wanted' = [wanted EXCEPT ![c] = id]
       /\ \/ \E m \in Queued : Dequeue(m, id) /\ UNCHANGED state
          \/ /\ ~HasId(id) /\ UNCHANGED chanVars
             /\ state' = [state EXCEPT ![c] = "waiting"]
  /\ UNCHANGED <<queue, pc, notified>>

\* the wait returned 0: one scan, not a loop; NULL if the entry is not there
Rescan(c) ==
  /\ state[c] = "woken"
  /\ Scan(wanted[c])
  /\ state' = [state EXCEPT ![c] = "idle"]
  /\ UNCHANGED <<queue, pc, wanted, notified>>

\* ETIMEDOUT: NULL without a scan
Timeout(c) ==
  /\ state[c] = "waiting" /\ c \in Timed
  /\ state' = [state EXCEPT ![c] = "idle"]
  /\ UNCHANGED <<chanVars, queue, pc, wanted, notified>>

\* POSIX allows it, and the signal handler of lib/signal.c signals the condition
SpuriousWakeup(c) ==
  /\ state[c] = "waiting"
  /\ state' = [state EXCEPT ![c] = "woken"]
  /\ UNCHANGED <<chanVars, queue, pc, wanted, notified>>

\* poll reports the descriptor readable; the count or the message is consumed
ReadNotification(c) ==
  /\ Notify # "cond" /\ 0 \in Want[c] /\ state[c] = "idle" /\ notified > 0
  /\ notified' = notified - 1
  /\ state' = [state EXCEPT ![c] = "reading"]
  /\ UNCHANGED <<chanVars, queue, pc, wanted>>

\* mutant: one count of the semaphore drains the queue
ShiftUntilEmpty(c) ==
  /\ state[c] = "reading"
  /\ Scan(0)
  /\ state' = [state EXCEPT ![c] = IF Queued # {} THEN "reading" ELSE "idle"]
  /\ UNCHANGED <<queue, pc, wanted, notified>>

\* mutant: one wakeup message takes one response
ShiftOne(c) ==
  /\ state[c] = "reading"
  /\ Scan(0)
  /\ state' = [state EXCEPT ![c] = "idle"]
  /\ UNCHANGED <<queue, pc, wanted, notified>>

\* timeout_ms = -1: mympd_api takes one entry, read_queue repeats until NULL
ShiftNoWait(c) ==
  /\ state[c] = "reading"
  /\ Scan(0)
  /\ state' = [state EXCEPT ![c] = IF Notify = "mongoose" /\ Queued # {}
                                   THEN "reading" ELSE "idle"]
  /\ UNCHANGED <<queue, pc, wanted, notified>>

-----------------------------------------------------------------------------
(* mympd_queue_expire_age: the stamps are wall-clock times, so the entries *)
(* older than the limit are any subset                                     *)
Expire ==
  /\ MayExpire
  /\ \E S \in SUBSET Queued : Drop(S)
  /\ UNCHANGED <<queue, pc, state, wanted, notified>>

Consume(c) ==
  Shift(c) \/ Rescan(c) \/ ReadNotification(c) \/ ShiftNoWait(c)

Next ==
  \/ \E p \in Producers : (\E id \in Setup[queue].ids : Push(p, id)) \/ Signal(p) \/ NotifyConsumer(p)
  \/ \E c \in Consumers : Consume(c) \/ Timeout(c) \/ SpuriousWakeup(c)
  \/ Expire

Spec == Init /\ [][Next]_vars

\* Threads that may run do run, and a timed wait ends; nobody has to push.
Fairness ==
  /\ \A p \in Producers : WF_vars(Signal(p)) /\ WF_vars(NotifyConsumer(p))
  /\ \A c \in Consumers : WF_vars(Consume(c)) /\ WF_vars(Timeout(c))

FairSpec == Spec /\ Fairness

-----------------------------------------------------------------------------
(* mympd_api_queue: every queued request has exactly one count of the      *)
(* semaphore behind it, or a producer that still owes it, or the api       *)
(* thread between eventfd_read and the shift.  So a read eventfd never     *)
(* leads to an empty shift and no request is left without a wakeup.        *)
EventAccounting ==
  Notify = "eventfd" /\ ~MayExpire =>
    Cardinality(Queued) = notified + Cardinality(Unlocked)
                          + Cardinality(Signalled) + Cardinality(Reading)

(* script_queue: if every consumer takes any entry, then as long as one of *)
(* them sleeps in pthread_cond_wait each queued entry has a signal on its  *)
(* way or a woken consumer, although the signal is sent after the unlock.  *)
NoLostWakeup ==
  Notify = "cond" /\ Want = [c \in Consumers |-> {0}] /\ Waiting # {} =>
    Cardinality(Queued) <= Cardinality(Unlocked) + Cardinality(Woken)

(* webserver_queue: a response never stays behind unseen, although mg_wakeup *)
(* drops its message when the socket pair is full and read_queue takes all   *)
(* the responses at one message.                                             *)
NoStrandedResponse ==
  Notify = "mongoose" /\ Queued # {} =>
    notified > 0 \/ Unlocked \cup Signalled \cup Reading # {}

(* An entry some consumer asks for leaves the queue, whoever the signals    *)
(* wake up and however often a wait ends for nothing.                       *)
Delivered ==
  \A m \in Ticket :
    (fate[m] = "queued" /\ \E c \in Consumers : \E id \in Want[c] : Matches(m, id))
      ~> fate[m] # "queued"
=============================================================================
