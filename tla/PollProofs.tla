----------------------------- MODULE PollProofs ------------------------------
(***************************************************************************)
(* What the loop of the mympd_api thread waits for: message queues and     *)
(* timers.  The safety properties of MsgQueue, for any number of threads,  *)
(* entries and ids, and those of TimerList (UniqueIds, PollsListed,        *)
(* OneShotOnce, FitsArray and ChangesScheduled), for any partitions,       *)
(* descriptors and limits.                                                 *)
(***************************************************************************)
EXTENDS MsgQueue, TimerList, FiniteSetTheorems, WellFoundedInduction, TLAPS

-----------------------------------------------------------------------------
(* The message queue.                                                      *)

LEMMA TicketsFinite == IsFiniteSet(Ticket) /\ Ticket \subseteq Nat
BY ChannelAssumption, FS_Interval DEF Ticket

(* What QueueAssumption says of the queue of a behavior. *)
LEMMA SetupType ==
  ASSUME queue \in Queues
  PROVE  /\ Notify \in {"cond", "eventfd", "mongoose"} /\ Setup[queue].ids \subseteq Ids
         /\ Want \in [Consumers -> SUBSET Ids] /\ Timed \subseteq Consumers
         /\ MayExpire \in BOOLEAN
BY QueueAssumption DEF Notify, Want, Timed, MayExpire

\* the ids a queue carries are ids
LEMMA PushedId == ASSUME TypeOK, NEW id \in Setup[queue].ids PROVE id \in Ids
BY SetupType DEF TypeOK

(* No step changes the queue. *)
LEMMA SameQueue == [Next]_vars => queue' = queue
BY DEF Next, Consume, Push, Signal, NotifyConsumer, Shift, Rescan, Timeout, SpuriousWakeup,
   ReadNotification, ShiftNoWait, Expire, vars

-----------------------------------------------------------------------------
(* Type correctness. *)
LEMMA TypeStep == TypeOK /\ [Next]_vars => TypeOK'
<1> USE ChannelAssumption, QueueAssumption DEF TypeOK, ChannelTypeOK, Fate
<1> SUFFICES ASSUME TypeOK, [Next]_vars PROVE TypeOK'
  OBVIOUS
<1>0. Setup[queue].ids \subseteq Ids /\ Want \in [Consumers -> SUBSET Ids]
  BY SetupType
<1>1. ASSUME NEW p \in Producers, NEW id \in Ids, Push(p, id) PROVE TypeOK'
  BY <1>1 DEF Push, Enqueue, Ticket
<1>2. ASSUME NEW p \in Producers, Signal(p) PROVE TypeOK'
  BY <1>2 DEF Signal, Waiting, chanVars
<1>3. ASSUME NEW p \in Producers, NotifyConsumer(p) PROVE TypeOK'
  BY <1>3 DEF NotifyConsumer, chanVars
<1>4. ASSUME NEW c \in Consumers, Shift(c) PROVE TypeOK'
  <2>1. PICK id \in Want[c] : /\ wanted' = [wanted EXCEPT ![c] = id]
                              /\ \/ \E m \in Queued : Dequeue(m, id) /\ UNCHANGED state
                                 \/ /\ ~HasId(id) /\ UNCHANGED chanVars
                                    /\ state' = [state EXCEPT ![c] = "waiting"]
    BY <1>4 DEF Shift
  <2>2. id \in Ids
    BY <1>0
  <2>3. ChannelTypeOK'
    BY <2>1 DEF Dequeue, IsFirst, Queued, chanVars
  <2>4. state' \in [Consumers -> {"idle", "waiting", "woken", "reading"}]
    BY <2>1
  <2>5. QED
    BY <1>4, <2>1, <2>2, <2>3, <2>4 DEF Shift
<1>5. ASSUME NEW c \in Consumers, Rescan(c) PROVE TypeOK'
  BY <1>5 DEF Rescan, Scan, Dequeue, IsFirst, Queued, chanVars
<1>6. ASSUME NEW c \in Consumers, ReadNotification(c) PROVE TypeOK'
  BY <1>6 DEF ReadNotification, chanVars
<1>7. ASSUME NEW c \in Consumers, ShiftNoWait(c) PROVE TypeOK'
  BY <1>7 DEF ShiftNoWait, Scan, Dequeue, IsFirst, Queued, chanVars
<1>8. ASSUME NEW c \in Consumers, Timeout(c) \/ SpuriousWakeup(c) PROVE TypeOK'
  BY <1>8 DEF Timeout, SpuriousWakeup, chanVars
<1>9. ASSUME Expire PROVE TypeOK'
  BY <1>9 DEF Expire, Drop
<1>10. CASE UNCHANGED vars
  BY <1>10 DEF vars, chanVars
<1>11. QED
  BY <1>0, <1>1, <1>2, <1>3, <1>4, <1>5, <1>6, <1>7, <1>8, <1>9, <1>10 DEF Next, Consume

(* Every variable of the queue keeps its type. *)
THEOREM TypeCorrect == Spec => []TypeOK
<1>1. Init => TypeOK
  BY ChannelAssumption, QueueAssumption
     DEF Init, ChannelInit, TypeOK, ChannelTypeOK, Fate
<1>2. QED
  BY <1>1, TypeStep, PTL DEF Spec

-----------------------------------------------------------------------------
(* The sets the properties count are finite. *)
LEMMA CountNat ==
  ASSUME TypeOK
  PROVE  /\ IsFiniteSet(Queued) /\ Cardinality(Queued) \in Nat
         /\ IsFiniteSet(Unlocked) /\ Cardinality(Unlocked) \in Nat
         /\ IsFiniteSet(Signalled) /\ Cardinality(Signalled) \in Nat
         /\ IsFiniteSet(Woken) /\ Cardinality(Woken) \in Nat
         /\ IsFiniteSet(Reading) /\ Cardinality(Reading) \in Nat
<1>1. IsFiniteSet(Queued) /\ IsFiniteSet(Unlocked) /\ IsFiniteSet(Signalled)
      /\ IsFiniteSet(Woken) /\ IsFiniteSet(Reading)
  BY TicketsFinite, QueueAssumption, FS_Subset
     DEF Queued, Unlocked, Signalled, Woken, Reading
<1>2. QED
  BY <1>1, FS_CardinalityType

\* the tickets above sent have not been pushed
Fresh == \A n \in Ticket : n > sent => fate[n] = "unsent"

(* A push adds one queued entry. *)
LEMMA EnqueueCount ==
  ASSUME TypeOK, Fresh, NEW id \in Ids, Enqueue(id)
  PROVE  Cardinality(Queued') = Cardinality(Queued) + 1
<1>1. sent + 1 \in Ticket /\ fate[sent + 1] # "queued"
  BY ChannelAssumption DEF Enqueue, TypeOK, ChannelTypeOK, Ticket, Fresh
<1>2. Queued' = Queued \cup {sent + 1} /\ sent + 1 \notin Queued
  BY <1>1 DEF Enqueue, Queued, TypeOK, ChannelTypeOK
<1>3. QED
  BY <1>2, CountNat, FS_AddElement

(* A scan takes one entry, or the queue has none with that id. *)
LEMMA ScanCount ==
  ASSUME TypeOK, NEW id \in Ids, Scan(id)
  PROVE  \/ /\ Queued # {}
            /\ Cardinality(Queued') = Cardinality(Queued) - 1
         \/ /\ ~HasId(id) /\ Queued' = Queued
            /\ id = 0 => Queued = {}
<1>1. CASE ~HasId(id) /\ UNCHANGED chanVars
  BY <1>1 DEF HasId, Matches, chanVars, Queued
<1>2. ASSUME NEW m \in Queued, Dequeue(m, id)
      PROVE  Cardinality(Queued') = Cardinality(Queued) - 1
  <2>1. Queued' = Queued \ {m}
    BY <1>2 DEF Dequeue, Queued, TypeOK, ChannelTypeOK
  <2>2. QED
    BY <2>1, CountNat, FS_RemoveElement
<1>3. QED
  BY <1>1, <1>2 DEF Scan

(* A step of one thread changes the number of threads per state. *)
LEMMA ProducerCount ==
  ASSUME TypeOK, NEW p \in Producers, \A y \in Producers : y # p => pc'[y] = pc[y]
  PROVE  /\ Cardinality(Unlocked') = Cardinality(Unlocked)
              + (IF pc'[p] = "unlocked" THEN 1 ELSE 0) - (IF pc[p] = "unlocked" THEN 1 ELSE 0)
         /\ Cardinality(Signalled') = Cardinality(Signalled)
              + (IF pc'[p] = "signalled" THEN 1 ELSE 0) - (IF pc[p] = "signalled" THEN 1 ELSE 0)
<1>1. /\ Unlocked' = IF pc'[p] = "unlocked" THEN Unlocked \cup {p} ELSE Unlocked \ {p}
      /\ Signalled' = IF pc'[p] = "signalled" THEN Signalled \cup {p} ELSE Signalled \ {p}
  BY DEF TypeOK, Unlocked, Signalled
<1>2. (p \in Unlocked <=> pc[p] = "unlocked") /\ (p \in Signalled <=> pc[p] = "signalled")
  BY DEF Unlocked, Signalled
<1>3. ASSUME NEW S \in {Unlocked, Signalled}
      PROVE  /\ Cardinality(S \cup {p}) = IF p \in S THEN Cardinality(S) ELSE Cardinality(S) + 1
             /\ Cardinality(S \ {p}) = IF p \in S THEN Cardinality(S) - 1 ELSE Cardinality(S)
  <2>1. IsFiniteSet(S)
    BY CountNat
  <2>2. QED
    BY <2>1, FS_AddElement, FS_RemoveElement
<1>4. QED
  BY <1>1, <1>2, <1>3, CountNat

LEMMA ConsumerCount ==
  ASSUME TypeOK, NEW c \in Consumers, \A y \in Consumers : y # c => state'[y] = state[y]
  PROVE  /\ Cardinality(Woken') = Cardinality(Woken)
              + (IF state'[c] = "woken" THEN 1 ELSE 0) - (IF state[c] = "woken" THEN 1 ELSE 0)
         /\ Cardinality(Reading') = Cardinality(Reading)
              + (IF state'[c] = "reading" THEN 1 ELSE 0) - (IF state[c] = "reading" THEN 1 ELSE 0)
<1>1. /\ Woken' = IF state'[c] = "woken" THEN Woken \cup {c} ELSE Woken \ {c}
      /\ Reading' = IF state'[c] = "reading" THEN Reading \cup {c} ELSE Reading \ {c}
  BY DEF TypeOK, Woken, Reading
<1>2. (c \in Woken <=> state[c] = "woken") /\ (c \in Reading <=> state[c] = "reading")
  BY DEF Woken, Reading
<1>3. ASSUME NEW S \in {Woken, Reading}
      PROVE  /\ Cardinality(S \cup {c}) = IF c \in S THEN Cardinality(S) ELSE Cardinality(S) + 1
             /\ Cardinality(S \ {c}) = IF c \in S THEN Cardinality(S) - 1 ELSE Cardinality(S)
  <2>1. IsFiniteSet(S)
    BY CountNat
  <2>2. QED
    BY <2>1, FS_AddElement, FS_RemoveElement
<1>4. QED
  BY <1>1, <1>2, <1>3, CountNat

(* Fresh holds throughout. *)
LEMMA FreshStep == TypeOK /\ Fresh /\ [Next]_vars => Fresh'
<1> SUFFICES ASSUME TypeOK, Fresh, [Next]_vars PROVE Fresh'
  OBVIOUS
<1>1. ASSUME NEW id \in Ids, Enqueue(id) PROVE Fresh'
  BY <1>1, ChannelAssumption DEF Enqueue, Fresh, TypeOK, ChannelTypeOK, Ticket
<1>2. ASSUME NEW id, NEW m \in Queued, Dequeue(m, id) PROVE Fresh'
  BY <1>2 DEF Dequeue, Queued, Fresh, TypeOK, ChannelTypeOK
<1>3. ASSUME NEW S \in SUBSET Queued, Drop(S) PROVE Fresh'
  BY <1>3 DEF Drop, Queued, Fresh, TypeOK, ChannelTypeOK
<1>4. CASE UNCHANGED chanVars
  BY <1>4 DEF chanVars, Fresh
<1>5. QED
  BY PushedId, <1>1, <1>2, <1>3, <1>4 DEF Next, Consume, Push, Signal, NotifyConsumer, Shift, Rescan, Scan,
     Timeout, SpuriousWakeup, ReadNotification, ShiftNoWait, Expire, vars

LEMMA InitFacts == Init => TypeOK /\ Fresh /\ Queued = {}
BY ChannelAssumption, QueueAssumption
   DEF Init, ChannelInit, TypeOK, ChannelTypeOK, Fate, Fresh, Queued

\* only the queues with a condition variable have threads blocked in shift
NoWaiters ==
  Notify # "cond" => \A c \in Consumers : state[c] \in {"idle", "reading"}

LEMMA WaitersStep == TypeOK /\ NoWaiters /\ [Next]_vars => NoWaiters'
BY SameQueue DEF Notify, TypeOK, NoWaiters, Next, Consume, Push, Signal, Waiting, NotifyConsumer, Shift, Rescan,
   Timeout, SpuriousWakeup, ReadNotification, ShiftNoWait, Expire, vars

-----------------------------------------------------------------------------
(* mympd_api_queue: each queued request has exactly one count of the       *)
(* semaphore eventfd, or one thread about to write or use it.              *)
LEMMA EventStep ==
  TypeOK /\ Fresh /\ NoWaiters /\ EventAccounting /\ [Next]_vars => EventAccounting'
<1> SUFFICES ASSUME TypeOK, Fresh, NoWaiters, EventAccounting, [Next]_vars,
                    Notify = "eventfd", ~MayExpire
             PROVE  Cardinality(Queued') = notified' + Cardinality(Unlocked')
                                   + Cardinality(Signalled') + Cardinality(Reading')
  BY SameQueue DEF EventAccounting, Notify, MayExpire
<1> DEFINE Goal == Cardinality(Queued') = notified' + Cardinality(Unlocked')
                                   + Cardinality(Signalled') + Cardinality(Reading')
<1>0. /\ Cardinality(Queued) = notified + Cardinality(Unlocked)
                                + Cardinality(Signalled) + Cardinality(Reading)
      /\ notified \in Nat
      /\ \A c \in Consumers : state[c] \in {"idle", "reading"}
  BY DEF EventAccounting, TypeOK, NoWaiters
<1>1. ASSUME NEW p \in Producers, NEW id \in Ids, Push(p, id) PROVE Goal
  <2>1. Reading' = Reading /\ notified' = notified
    BY <1>1 DEF Push, Reading
  <2>2. pc[p] = "idle" /\ pc'[p] = "unlocked" /\ \A q \in Producers : q # p => pc'[q] = pc[q]
    BY <1>1 DEF Push, TypeOK
  <2>3. Cardinality(Unlocked') = Cardinality(Unlocked) + 1
        /\ Cardinality(Signalled') = Cardinality(Signalled)
    BY <2>2, ProducerCount, CountNat
  <2>4. Cardinality(Queued') = Cardinality(Queued) + 1
    BY <1>1, EnqueueCount DEF Push
  <2>5. QED
    BY <1>0, <2>1, <2>3, <2>4, CountNat
<1>2. ASSUME NEW p \in Producers, Signal(p) PROVE Goal
  <2>1. Queued' = Queued /\ Reading' = Reading /\ notified' = notified
    BY <1>0, <1>2 DEF Signal, chanVars, Queued, Reading, Waiting
  <2>2. pc[p] = "unlocked" /\ pc'[p] = "signalled" /\ \A q \in Producers : q # p => pc'[q] = pc[q]
    BY <1>2 DEF Signal, TypeOK
  <2>3. Cardinality(Unlocked') = Cardinality(Unlocked) - 1
        /\ Cardinality(Signalled') = Cardinality(Signalled) + 1
    BY <2>2, ProducerCount, CountNat
  <2>4. QED
    BY <1>0, <2>1, <2>3, CountNat
<1>3. ASSUME NEW p \in Producers, NotifyConsumer(p) PROVE Goal
  <2>1. Queued' = Queued /\ Reading' = Reading /\ notified' = notified + 1
    BY <1>3 DEF NotifyConsumer, chanVars, Queued, Reading
  <2>2. pc[p] = "signalled" /\ pc'[p] = "idle" /\ \A q \in Producers : q # p => pc'[q] = pc[q]
    BY <1>3 DEF NotifyConsumer, TypeOK
  <2>3. Cardinality(Unlocked') = Cardinality(Unlocked)
        /\ Cardinality(Signalled') = Cardinality(Signalled) - 1
    BY <2>2, ProducerCount, CountNat
  <2>4. QED
    BY <1>0, <2>1, <2>3, CountNat
<1>4. ASSUME NEW c \in Consumers, ReadNotification(c) PROVE Goal
  <2>1. /\ Queued' = Queued /\ Unlocked' = Unlocked /\ Signalled' = Signalled
        /\ notified' = notified - 1
    BY <1>4 DEF ReadNotification, chanVars, Queued, Unlocked, Signalled
  <2>2. state[c] = "idle" /\ state'[c] = "reading" /\ \A d \in Consumers : d # c => state'[d] = state[d]
    BY <1>4 DEF ReadNotification, TypeOK
  <2>3. Cardinality(Reading') = Cardinality(Reading) + 1
    BY <2>2, ConsumerCount, CountNat
  <2>4. QED
    BY <1>0, <2>1, <2>3, CountNat
<1>5. ASSUME NEW c \in Consumers, ShiftNoWait(c) PROVE Goal
  <2>1. Unlocked' = Unlocked /\ Signalled' = Signalled /\ notified' = notified
    BY <1>5 DEF ShiftNoWait, Unlocked, Signalled
  <2>2. state[c] = "reading" /\ state'[c] = "idle" /\ \A d \in Consumers : d # c => state'[d] = state[d]
    BY <1>5 DEF ShiftNoWait, TypeOK
  <2>3. Cardinality(Reading') = Cardinality(Reading) - 1
    BY <2>2, ConsumerCount, CountNat
  <2>4. Cardinality(Reading) # 0
    BY <2>2, CountNat, FS_EmptySet DEF Reading
  <2>5. Queued # {}
    BY <1>0, <2>4, CountNat, FS_EmptySet
  <2>6. Cardinality(Queued') = Cardinality(Queued) - 1
    BY <1>5, <2>5, ScanCount, ChannelAssumption DEF ShiftNoWait
  <2>7. QED
    BY <1>0, <2>1, <2>3, <2>6, CountNat
<1>6. CASE UNCHANGED vars
  BY <1>0, <1>6 DEF vars, chanVars, Queued, Unlocked, Signalled, Reading
<1>7. QED
  BY PushedId, <1>0, <1>1, <1>2, <1>3, <1>4, <1>5, <1>6
     DEF Next, Consume, Shift, Rescan, Timeout, SpuriousWakeup, Expire

(* On mympd_api_queue no read of the eventfd leads to an empty shift and   *)
(* no request is left without a wakeup.                                    *)
THEOREM EventAccountingHolds == Spec => []EventAccounting
<1> DEFINE IInv == TypeOK /\ Fresh /\ NoWaiters /\ EventAccounting
<1>1. Init => IInv
  <2> SUFFICES ASSUME Init PROVE EventAccounting /\ NoWaiters
    BY InitFacts
  <2>1. Queued = {} /\ Unlocked = {} /\ Signalled = {} /\ Reading = {} /\ notified = 0
    BY InitFacts DEF Init, Unlocked, Signalled, Reading
  <2>2. QED
    BY <2>1, FS_EmptySet DEF EventAccounting, NoWaiters, Init
<1>2. IInv /\ [Next]_vars => IInv'
  BY TypeStep, FreshStep, WaitersStep, EventStep
<1>3. QED
  BY <1>1, <1>2, PTL DEF Spec

-----------------------------------------------------------------------------
(* script_queue: no wakeup is lost although the signal follows the unlock. *)
WantAnyEntry == Want = [c \in Consumers |-> {0}]
WantedAny    == WantAnyEntry => \A c \in Consumers : wanted[c] = 0

LEMMA WantedStep == TypeOK /\ WantedAny /\ [Next]_vars => WantedAny'
BY SameQueue DEF Want, TypeOK, WantedAny, WantAnyEntry, Next, Consume, Push, Signal, NotifyConsumer, Shift, Rescan,
   Timeout, SpuriousWakeup, ReadNotification, ShiftNoWait, Expire, vars

LEMMA WakeupStep ==
  TypeOK /\ Fresh /\ WantedAny /\ NoLostWakeup /\ [Next]_vars => NoLostWakeup'
<1> DEFINE Enough == Cardinality(Queued) <= Cardinality(Unlocked) + Cardinality(Woken)
<1> SUFFICES ASSUME TypeOK, Fresh, WantedAny, NoLostWakeup, [Next]_vars,
                    Notify = "cond", WantAnyEntry, Waiting' # {}
             PROVE  Enough'
  BY SameQueue DEF NoLostWakeup, WantAnyEntry, Notify, Want
<1>0. Waiting # {} => Enough
  BY DEF NoLostWakeup, WantAnyEntry
<1>1. ASSUME NEW p \in Producers, NEW id \in Ids, Push(p, id) PROVE Enough'
  <2>1. Waiting' = Waiting /\ Woken' = Woken
    BY <1>1 DEF Push, Waiting, Woken
  <2>2. pc[p] = "idle" /\ pc'[p] = "unlocked" /\ \A q \in Producers : q # p => pc'[q] = pc[q]
    BY <1>1 DEF Push, TypeOK
  <2>3. Cardinality(Unlocked') = Cardinality(Unlocked) + 1
    BY <2>2, ProducerCount, CountNat
  <2>4. Cardinality(Queued') = Cardinality(Queued) + 1
    BY <1>1, EnqueueCount DEF Push
  <2>5. QED
    BY <1>0, <2>1, <2>3, <2>4, CountNat
<1>2. ASSUME NEW p \in Producers, Signal(p) PROVE Enough'
  <2>1. Queued' = Queued
    BY <1>2 DEF Signal, chanVars, Queued
  <2>2. pc[p] = "unlocked" /\ pc'[p] = "idle" /\ \A q \in Producers : q # p => pc'[q] = pc[q]
    BY <1>2 DEF Signal, TypeOK
  <2>3. Cardinality(Unlocked') = Cardinality(Unlocked) - 1
    BY <2>2, ProducerCount, CountNat
  <2>4. PICK c \in Waiting : state' = [state EXCEPT ![c] = "woken"]
    BY <1>2 DEF Signal, Waiting
  <2>5. /\ c \in Consumers /\ state[c] = "waiting" /\ state'[c] = "woken"
        /\ \A d \in Consumers : d # c => state'[d] = state[d]
    BY <2>4 DEF Waiting, TypeOK
  <2>6. Cardinality(Woken') = Cardinality(Woken) + 1
    BY <2>5, ConsumerCount, CountNat
  <2>7. QED
    BY <1>0, <2>1, <2>3, <2>4, <2>6, CountNat
<1>3. ASSUME NEW p \in Producers, NotifyConsumer(p) PROVE Enough'
  <2>1. Queued' = Queued /\ Woken' = Woken /\ Waiting' = Waiting /\ Unlocked' = Unlocked
    BY <1>3 DEF NotifyConsumer, chanVars, Queued, Woken, Waiting, Unlocked, TypeOK
  <2>2. QED
    BY <1>0, <2>1
<1>4. ASSUME NEW c \in Consumers, Shift(c) PROVE Enough'
  <2>1. Unlocked' = Unlocked
    BY <1>4 DEF Shift, Unlocked
  <2>2. CASE UNCHANGED state
    <3>1. Waiting' = Waiting /\ Woken' = Woken
      BY <2>2 DEF Waiting, Woken
    <3>2. Cardinality(Queued') <= Cardinality(Queued) /\ Cardinality(Queued') \in Nat
      <4>1. PICK id \in Want[c] : Scan(id) /\ id \in Ids
        BY <1>4, SetupType DEF Shift, Scan, TypeOK
      <4>2. QED
        BY <4>1, ScanCount, CountNat, FS_EmptySet
    <3>3. QED
      BY <1>0, <2>1, <3>1, <3>2, CountNat
  <2>3. CASE ~HasId(0) /\ UNCHANGED chanVars /\ state' = [state EXCEPT ![c] = "waiting"]
    <3>1. Queued' = {}
      BY <2>3 DEF HasId, Matches, Queued, chanVars
    <3>2. state[c] = "idle" /\ state'[c] = "waiting" /\ \A d \in Consumers : d # c => state'[d] = state[d]
      BY <1>4, <2>3 DEF Shift, TypeOK
    <3>3. Cardinality(Woken') = Cardinality(Woken)
      BY <3>2, ConsumerCount, CountNat
    <3>4. QED
      BY <2>1, <3>1, <3>3, CountNat, FS_EmptySet
  <2>4. QED
    BY <1>4, <2>2, <2>3 DEF Shift, WantAnyEntry
<1>5. ASSUME NEW c \in Consumers, Rescan(c) PROVE Enough'
  <2>1. Unlocked' = Unlocked
    BY <1>5 DEF Rescan, Unlocked
  <2>2. state[c] = "woken" /\ state'[c] = "idle" /\ \A d \in Consumers : d # c => state'[d] = state[d]
    BY <1>5 DEF Rescan, TypeOK
  <2>3. Cardinality(Woken') = Cardinality(Woken) - 1 /\ Cardinality(Woken') \in Nat
    <3>1. Cardinality(Woken) # 0
      BY <2>2, CountNat, FS_EmptySet DEF Woken
    <3>2. QED
      BY <2>2, <3>1, ConsumerCount, CountNat
  <2>4. Waiting # {}
    BY <2>2 DEF Waiting
  <2>5. Scan(0)
    BY <1>5 DEF Rescan, WantedAny
  <2>6. \/ Cardinality(Queued') = Cardinality(Queued) - 1
        \/ Cardinality(Queued') = 0
    BY <2>5, ScanCount, ChannelAssumption, FS_EmptySet
  <2>7. QED
    BY <1>0, <2>1, <2>3, <2>4, <2>6, CountNat
<1>6. ASSUME NEW c \in Consumers, Timeout(c) \/ SpuriousWakeup(c) PROVE Enough'
  <2>1. Unlocked' = Unlocked /\ Queued' = Queued
    BY <1>6 DEF Timeout, SpuriousWakeup, Unlocked, Queued, chanVars
  <2>2. state[c] = "waiting" /\ \A d \in Consumers : d # c => state'[d] = state[d]
    BY <1>6 DEF Timeout, SpuriousWakeup, TypeOK
  <2>3. Cardinality(Woken') >= Cardinality(Woken) /\ Cardinality(Woken') \in Nat
    <3>1. CASE state'[c] = "woken"
      BY <2>2, <3>1, ConsumerCount, CountNat
    <3>2. CASE state'[c] # "woken"
      BY <2>2, <3>2, ConsumerCount, CountNat
    <3>3. QED
      BY <3>1, <3>2
  <2>4. Enough
    BY <1>0, <2>2 DEF Waiting
  <2>5. Cardinality(Queued') = Cardinality(Queued) /\ Cardinality(Unlocked') = Cardinality(Unlocked)
    BY <2>1
  <2>6. QED
    BY <2>3, <2>4, <2>5, CountNat
<1>7. ASSUME NEW c \in Consumers, ShiftNoWait(c) PROVE Enough'
  <2>1. Unlocked' = Unlocked
    BY <1>7 DEF ShiftNoWait, Unlocked
  <2>2. state[c] = "reading" /\ state'[c] = "idle" /\ \A d \in Consumers : d # c => state'[d] = state[d]
    BY <1>7 DEF ShiftNoWait, TypeOK
  <2>3. Waiting' = Waiting /\ Woken' = Woken
    BY <2>2 DEF Waiting, Woken
  <2>4. Cardinality(Queued') <= Cardinality(Queued) /\ Cardinality(Queued') \in Nat
    BY <1>7, ScanCount, ChannelAssumption, CountNat, FS_EmptySet DEF ShiftNoWait
  <2>5. QED
    BY <1>0, <2>1, <2>3, <2>4, CountNat
<1>8. ASSUME Expire PROVE Enough'
  <2>1. Unlocked' = Unlocked /\ Waiting' = Waiting /\ Woken' = Woken
    BY <1>8 DEF Expire, Unlocked, Waiting, Woken
  <2>2. Queued' \subseteq Queued
    BY <1>8 DEF Expire, Drop, Queued, TypeOK, ChannelTypeOK
  <2>3. Cardinality(Queued') <= Cardinality(Queued) /\ Cardinality(Queued') \in Nat
    BY <2>2, CountNat, FS_Subset, FS_CardinalityType
  <2>4. QED
    BY <1>0, <2>1, <2>3, CountNat
<1>9. CASE UNCHANGED vars
  BY <1>0, <1>9 DEF vars, chanVars, Queued, Unlocked, Woken, Waiting
<1>10. QED
  BY PushedId, <1>1, <1>2, <1>3, <1>4, <1>5, <1>6, <1>7, <1>8, <1>9 DEF Next, Consume, ReadNotification

(* While a consumer of script_queue sleeps, each queued script request has *)
(* its own signal under way or a consumer woken for it.                    *)
THEOREM NoLostWakeupHolds == Spec => []NoLostWakeup
<1> DEFINE IInv == TypeOK /\ Fresh /\ WantedAny /\ NoLostWakeup
<1>1. Init => IInv
  BY InitFacts DEF Init, NoLostWakeup, WantedAny, Waiting
<1>2. IInv /\ [Next]_vars => IInv'
  BY TypeStep, FreshStep, WantedStep, WakeupStep
<1>3. QED
  BY <1>1, <1>2, PTL DEF Spec

-----------------------------------------------------------------------------
(* webserver_queue: no response stays behind without a wakeup message, a   *)
(* producer about to send one, or mongoose draining the queue.             *)
LEMMA StrandedStep ==
  TypeOK /\ NoWaiters /\ NoStrandedResponse /\ [Next]_vars => NoStrandedResponse'
<1> DEFINE Seen == notified > 0 \/ Unlocked \cup Signalled \cup Reading # {}
<1> SUFFICES ASSUME TypeOK, NoWaiters, NoStrandedResponse, [Next]_vars,
                    Notify = "mongoose", Queued' # {}
             PROVE  Seen'
  BY SameQueue DEF NoStrandedResponse, Notify
<1>0. (Queued # {} => Seen) /\ \A c \in Consumers : state[c] \in {"idle", "reading"}
  BY DEF NoStrandedResponse, NoWaiters
<1>1. ASSUME NEW p \in Producers, NEW id \in Ids, Push(p, id) PROVE Seen'
  BY <1>1 DEF Push, TypeOK, Unlocked
<1>2. ASSUME NEW p \in Producers, Signal(p) PROVE Seen'
  BY <1>2 DEF Signal, TypeOK, Signalled
<1>3. ASSUME NEW p \in Producers, NotifyConsumer(p) PROVE Seen'
  BY <1>3, QueueAssumption DEF NotifyConsumer, TypeOK
<1>4. ASSUME NEW c \in Consumers, ReadNotification(c) PROVE Seen'
  BY <1>4 DEF ReadNotification, TypeOK, Reading
<1>5. ASSUME NEW c \in Consumers, ShiftNoWait(c) PROVE Seen'
  <2>1. Queued # {}
    BY <1>5 DEF ShiftNoWait, Scan, Dequeue, IsFirst, Queued, chanVars
  <2>2. QED
    BY <1>5, <2>1 DEF ShiftNoWait, TypeOK, Reading
<1>6. ASSUME Expire PROVE Seen'
  <2>1. Queued # {}
    BY <1>6 DEF Expire, Drop, Queued, TypeOK, ChannelTypeOK
  <2>2. QED
    BY <1>0, <1>6, <2>1 DEF Expire, Unlocked, Signalled, Reading
<1>7. CASE UNCHANGED vars
  BY <1>0, <1>7 DEF vars, chanVars, Queued, Unlocked, Signalled, Reading
<1>8. QED
  BY PushedId, <1>0, <1>1, <1>2, <1>3, <1>4, <1>5, <1>6, <1>7
     DEF Next, Consume, Shift, Rescan, Timeout, SpuriousWakeup

(* A full socket pair may swallow wakeup messages without a response of    *)
(* webserver_queue being left unseen.                                      *)
THEOREM NoStrandedResponseHolds == Spec => []NoStrandedResponse
<1> DEFINE IInv == TypeOK /\ NoWaiters /\ NoStrandedResponse
<1>1. Init => IInv
  BY InitFacts DEF Init, NoWaiters, NoStrandedResponse
<1>2. IInv /\ [Next]_vars => IInv'
  BY TypeStep, WaitersStep, StrandedStep
<1>3. QED
  BY <1>1, <1>2, PTL DEF Spec

-----------------------------------------------------------------------------
(* The timers.                                                             *)

\* The inductive invariant: UniqueIds needs that a user timer never has the id
\* of an internal one, PollsListed has to hold in the whole round
Distinct(ns) == \A m, n \in ns : m.id = n.id => m = n
Above(ns)    == \A n \in ns : n.part # NoPart => n.id \in Nat /\ n.id > FirstId
Good(L)      == Distinct(L.nodes) /\ Above(L.nodes)
Polls(L, fs) == L.repop \/ fs = Open(L.nodes)

IInv ==
  /\ Good(List) /\ Polls(List, pfds)
  /\ last_id \in Nat /\ last_id >= FirstId
  /\ \A i \in known : i \in Nat /\ i > FirstId

(* A removal keeps the invariant and has pfds filled again (timer.c:262).  *)
LEMMA RemoveKeeps ==
  ASSUME NEW L, NEW gone, Good(L)
  PROVE  Good(Remove(L, gone)) /\ Remove(L, gone).repop
         /\ Remove(L, gone).nodes = L.nodes \ gone
BY DEF Good, Distinct, Above, Remove, Changed

(* So does the addition of an id that is not in the list (timer.c:215).    *)
LEMMA AddKeeps ==
  ASSUME NEW L, NEW id, NEW interval, NEW part, NEW on, NEW soon, NEW created,
         Good(L), \A n \in L.nodes : n.id # id,
         part # NoPart => id \in Nat /\ id > FirstId
  PROVE  /\ Good(Add(L, id, interval, part, on, soon, created))
         /\ Add(L, id, interval, part, on, soon, created).repop
<1> DEFINE fd  == IF on THEN Lowest(Fds \ Open(L.nodes)) ELSE NoFd
           new == [id |-> id, interval |-> interval, part |-> part, on |-> on,
                   fd |-> fd, runs |-> 0]
           A   == Add(L, id, interval, part, on, soon, created)
<1>1. A.repop /\ (A.nodes = L.nodes \/ A.nodes = L.nodes \cup {new})
  BY DEF Add, Changed
<1>2. new.id = id /\ new.part = part
  OBVIOUS
<1> HIDE DEF new
<1>3. Distinct(L.nodes \cup {new}) /\ Above(L.nodes \cup {new})
  BY <1>2 DEF Good, Distinct, Above
<1> QED
  BY <1>1, <1>3 DEF Good

LEMMA ReplaceKeeps ==
  ASSUME NEW L, NEW id, NEW interval, NEW part, NEW on, NEW soon, NEW created,
         Good(L), part # NoPart => id \in Nat /\ id > FirstId
  PROVE  /\ Good(Replace(L, id, interval, part, on, soon, created))
         /\ Replace(L, id, interval, part, on, soon, created).repop
<1> DEFINE R == Remove(L, WithId(L, id))
<1>1. Good(R) /\ R.nodes = L.nodes \ WithId(L, id)
  BY RemoveKeeps
<1>2. \A n \in R.nodes : n.id # id
  BY <1>1 DEF WithId
<1> HIDE DEF R
<1>3. Good(Add(R, id, interval, part, on, soon, created))
      /\ Add(R, id, interval, part, on, soon, created).repop
  BY <1>1, <1>2, AddKeeps
<1> QED
  BY <1>3 DEF Replace, R

LEMMA AddInternalKeeps ==
  ASSUME NEW L, NEW id, NEW interval, Good(L), \A n \in L.nodes : n.id # id
  PROVE  Good(AddInternal(L, id, interval)) /\ AddInternal(L, id, interval).repop
BY AddKeeps DEF AddInternal

LEMMA ReplaceInternalKeeps ==
  ASSUME NEW L, NEW id, Good(L)
  PROVE  Good(ReplaceInternal(L, id)) /\ ReplaceInternal(L, id).repop
<1> DEFINE R == Remove(L, WithId(L, id))
           i == IF id = Caches THEN -1 ELSE 1
<1>1. Good(R) /\ \A n \in R.nodes : n.id # id
  BY RemoveKeeps DEF WithId
<1> HIDE DEF R, i
<1>2. Good(AddInternal(R, id, i)) /\ AddInternal(R, id, i).repop
  BY <1>1, AddInternalKeeps
<1> QED
  BY <1>2 DEF ReplaceInternal, R, i

(* mympd_api_timer_add_uniq leaves the list alone or adds a new id.        *)
LEMMA AddUniqKeeps ==
  ASSUME NEW L, NEW id, NEW interval, NEW fs, Good(L), Polls(L, fs)
  PROVE  Good(AddUniq(L, id, interval)) /\ Polls(AddUniq(L, id, interval), fs)
BY AddInternalKeeps DEF AddUniq, WithId, Polls

LEMMA RemovePartitionsKeeps ==
  ASSUME NEW L, NEW ps, Good(L)
  PROVE  Good(RemovePartitions(L, ps)) /\ RemovePartitions(L, ps).repop
BY RemoveKeeps DEF RemovePartitions

(* A request that leaves a good list leaves a good state.                  *)
LEMMA IdleKeeps ==
  ASSUME NEW L, Good(L), Polls(L, pfds), Idle(L)
  PROVE  (Good(List) /\ Polls(List, pfds))'
<1> DEFINE A == AddUniq(L, StateSave, -1)
<1>1. Good(A) /\ Polls(A, pfds)
  BY AddUniqKeeps
<1>2. nodes' = A.nodes /\ repopulated' = A.repop /\ pfds' = pfds
  BY DEF Idle, ScheduleSave, SetList
<1> HIDE DEF A
<1> QED
  BY <1>1, <1>2 DEF Good, Polls, List, Distinct, Above, Open

(* The lines of the timer file carry the ids of the user timers, each once *)
(* (timer.c:613), and what is read back of them makes a good list          *)
(* (timer.c:541).                                                          *)
LEMMA LinesKeep ==
  ASSUME Good(List)
  PROVE  Distinct(Lines(nodes)) /\ \A x \in Lines(nodes) : x.id \in Nat /\ x.id > FirstId
BY DEF Good, Distinct, Above, Lines, List, IsUser

LEMMA StartedKeeps ==
  ASSUME NEW ls, NEW soon, Distinct(ls), \A x \in ls : x.id \in Nat /\ x.id > FirstId
  PROVE  Good(Started(ls, soon)) /\ Started(ls, soon).repop
<1> DEFINE fd(x) == IF x.on THEN CHOOSE f \in Fds : Cardinality({g \in Fds : g <= f}) = Rank(ls, x)
                    ELSE NoFd
           ns == {[id |-> x.id, interval |-> x.interval, part |-> x.part, on |-> x.on,
                   fd |-> fd(x), runs |-> 0] : x \in ls}
           cl == [f \in Fds |-> IF \E x \in ls : x.on /\ fd(x) = f
                                THEN LET x == CHOOSE y \in ls : y.on /\ fd(y) = f
                                     IN  Arm(x.interval, x \in soon)
                                ELSE "off"]
           C  == Changed(ns, cl, {})
<1>1. Started(ls, soon) = AddInternal(C, Crop, 1)
  BY DEF Started
<1>2. C.nodes = ns
  BY DEF Changed
<1>3. \A n \in ns : \E x \in ls : n = [id |-> x.id, interval |-> x.interval, part |-> x.part,
                                      on |-> x.on, fd |-> fd(x), runs |-> 0]
  OBVIOUS
<1> HIDE DEF fd, ns, cl, C
<1>4. \A n \in ns : n.id \in Nat /\ n.id > FirstId
  BY <1>3
<1>5. Distinct(ns)
  BY <1>3 DEF Distinct
<1>6. Good(C)
  BY <1>2, <1>4, <1>5 DEF Good, Above
<1>7. \A n \in C.nodes : n.id # Crop
  BY <1>2, <1>4, TimerAssumption DEF Crop, StateSave
<1> QED
  BY <1>1, <1>6, <1>7, AddInternalKeeps

LEMMA StartKeeps ==
  ASSUME Good(List), Start(Lines(nodes))
  PROVE  Good(List)' /\ repopulated' /\ last_id' \in Nat /\ last_id' >= FirstId
<1>1. PICK ls, soon : /\ ls \in SUBSET Lines(nodes) /\ SetList(Started(ls, soon))
                      /\ last_id' \in {FirstId} \cup {x.id : x \in ls}
  <2>1. PICK read, soon :
          /\ read \in SUBSET Counted(Lines(nodes)) /\ SetList(Started(Readable(read), soon))
          /\ last_id' \in {FirstId} \cup {x.id : x \in Readable(read)}
    BY DEF Start
  <2>2. Readable(read) \in SUBSET Lines(nodes)
    BY <2>1 DEF Readable, Counted
  <2> QED
    BY <2>1, <2>2
<1>2. Distinct(ls) /\ \A x \in ls : x.id \in Nat /\ x.id > FirstId
  BY <1>1, LinesKeep DEF Distinct
<1>3. Good(Started(ls, soon)) /\ Started(ls, soon).repop
  BY <1>2, StartedKeeps
<1>4. Good(List)' /\ repopulated'
  BY <1>1, <1>3 DEF SetList, Good, List, Distinct, Above
<1>5. last_id' \in Nat /\ last_id' >= FirstId
  BY <1>1, <1>2, TimerAssumption
<1> QED
  BY <1>4, <1>5

LEMMA InitHolds == TimerInit => IInv
<1> SUFFICES ASSUME TimerInit PROVE IInv
  OBVIOUS
<1>1. Good(List)
  <2> DEFINE crop == [id |-> Crop, interval |-> 1, part |-> NoPart, on |-> TRUE,
                      fd |-> Lowest(Fds), runs |-> 0]
  <2>1. List.nodes = {crop} /\ crop.part = NoPart
    BY DEF TimerInit, List
  <2> HIDE DEF crop
  <2> QED
    BY <2>1 DEF Good, Distinct, Above
<1>2. Polls(List, pfds)
  BY DEF TimerInit, Polls, List
<1>3. last_id \in Nat /\ last_id >= FirstId
  BY TimerAssumption DEF TimerInit
<1>4. \A i \in known : i \in Nat /\ i > FirstId
  BY DEF TimerInit
<1> QED
  BY <1>1, <1>2, <1>3, <1>4 DEF IInv

(* A change of a definition keeps id and descriptor (timer.c:351, 99).     *)
LEMMA UpdateKeeps ==
  ASSUME NEW L, NEW n \in L.nodes, NEW on, NEW runs, NEW fs, Good(L), Polls(L, fs)
  PROVE  Good(UpdateNode(L, n, on, runs)) /\ Polls(UpdateNode(L, n, on, runs), fs)
<1> DEFINE new == [id |-> n.id, interval |-> n.interval, part |-> n.part,
                   on |-> on, fd |-> n.fd, runs |-> runs]
           U   == UpdateNode(L, n, on, runs)
<1>1. U.nodes = (L.nodes \ {n}) \cup {new} /\ U.repop = L.repop
  BY DEF UpdateNode
<1>2. new.id = n.id /\ new.part = n.part /\ new.fd = n.fd
  OBVIOUS
<1> HIDE DEF new, U
<1>3. Good(U)
  BY <1>1, <1>2 DEF Good, Distinct, Above
<1>4. Open(U.nodes) = Open(L.nodes)
  BY <1>1, <1>2 DEF Open
<1> QED
  BY <1>1, <1>3, <1>4 DEF Polls, U

(* Each action keeps the invariant.                                        *)
LEMMA StepHolds == IInv /\ [TimerNext]_tvars => IInv'
<1> SUFFICES ASSUME IInv, [TimerNext]_tvars PROVE IInv'
  OBVIOUS
<1> DEFINE SameIds == UNCHANGED <<last_id, known>>
           OK  == Good(List) /\ Polls(List, pfds)
<1>0. OK /\ last_id \in Nat /\ last_id >= FirstId /\ \A i \in known : i \in Nat /\ i > FirstId
  BY DEF IInv
<1>a. ASSUME OK', SameIds PROVE IInv'
  BY <1>0, <1>a DEF IInv
<1>b. ASSUME NEW L, Good(L), Polls(L, pfds), Idle(L), SameIds PROVE IInv'
  BY <1>a, <1>b, IdleKeeps
<1>c. ASSUME NEW L, Good(L), Polls(L, pfds), SetList(L), pfds' = pfds PROVE OK'
  BY <1>c DEF SetList, Good, Polls, List, Distinct, Above, Open
<1>d. List.nodes = nodes /\ List.repop = repopulated
  BY DEF List
<1>1. ASSUME UNCHANGED <<nodes, repopulated, pfds, last_id, known>> PROVE IInv'
  BY <1>0, <1>1 DEF Good, Polls, List, Distinct, Above, Open, IInv
<1>2. ASSUME NEW f \in Fds, FdExpires(f) \/ Stale(f) \/ Skip(f) PROVE IInv'
  BY <1>1, <1>2 DEF FdExpires, Stale, Skip, tlist
<1>3. ASSUME NEW f \in Fds, Run(f) PROVE IInv'
  <2>1. PICK n, on, runs : n \in nodes /\
          LET L == IF n.interval < 0 THEN Remove(List, WithId(List, n.id))
                                     ELSE UpdateNode(List, n, on, runs)
          IN  SetList([nodes |-> L.nodes, clock |-> L.clock, due |-> L.due \ {f},
                       repop |-> L.repop])
    BY <1>3, ZenonT(60) DEF Run
  <2> DEFINE L == IF n.interval < 0 THEN Remove(List, WithId(List, n.id))
                                    ELSE UpdateNode(List, n, on, runs)
             M == [nodes |-> L.nodes, clock |-> L.clock, due |-> L.due \ {f}, repop |-> L.repop]
  <2>2. Good(L) /\ Polls(L, pfds)
    BY <1>0, <1>d, <2>1, RemoveKeeps, UpdateKeeps DEF Polls
  <2>3. M.nodes = L.nodes /\ M.repop = L.repop /\ SetList(M)
    BY <2>1
  <2> HIDE DEF L, M
  <2>4. Good(M) /\ Polls(M, pfds)
    BY <2>2, <2>3 DEF Good, Polls
  <2>5. SameIds /\ pfds' = pfds
    BY <1>3 DEF Run
  <2> QED
    BY <2>3, <2>4, <2>5, <1>a, <1>c
<1>4. ASSUME PollTimers PROVE IInv'
  BY <1>0, <1>4 DEF PollTimers, IInv, Good, Polls, List, Distinct, Above, Open
<1>5. ASSUME ConnectParts PROVE IInv'
  <2>1. PICK older, periodic \in BOOLEAN :
          LET L == Connected(List, older, periodic)
          IN  SetList(Populated(L)) \/ SetList(L)
    BY <1>5 DEF ConnectParts
  <2> DEFINE L == Connected(List, older, periodic)
             L1 == IF older THEN ReplaceInternal(List, Caches) ELSE List
  <2>2. Good(L1) /\ Polls(L1, pfds)
    BY <1>0, ReplaceInternalKeeps DEF Polls
  <2> HIDE DEF L1
  <2>3. Good(L) /\ Polls(L, pfds)
    BY <2>2, ReplaceInternalKeeps DEF Connected, L1, Polls
  <2> HIDE DEF L
  <2>4. Good(Populated(L)) /\ Polls(Populated(L), pfds)
    BY <2>3, RemovePartitionsKeeps DEF Populated, Polls
  <2>5. SetList(Populated(L)) \/ SetList(L)
    BY <2>1 DEF L
  <2>6. SameIds /\ pfds' = pfds
    BY <1>5 DEF ConnectParts
  <2> QED
    BY <2>3, <2>4, <2>5, <2>6, <1>a, <1>c
<1>6. ASSUME TimerSave PROVE IInv'
  <2>0. PICK id \in {0} \cup known, interval \in Intervals, part \in partList :
       \E on, soon, created \in BOOLEAN :
         LET timerid == IF id = 0 THEN last_id + 1 ELSE id
             L == Replace(List, timerid, interval, part, on, soon, created)
         IN  /\ (created \/ on) /\ (soon => created /\ on /\ interval <= 0)
             /\ IF TooMany THEN Idle(List) /\ UNCHANGED <<last_id, unsaved>>
                ELSE /\ timerid <= LastId
                     /\ Idle(L)
                     /\ last_id' = IF id = 0 /\ WithId(L, timerid) # {} THEN timerid ELSE last_id
                     /\ unsaved' = TRUE
             /\ known' = known \cup {n.id : n \in {m \in nodes' : IsUser(m) /\ m.id <= MaxId}}
    BY <1>6 DEF TimerSave
  <2>1. PICK on \in BOOLEAN, soon \in BOOLEAN, created \in BOOLEAN :
          LET timerid == IF id = 0 THEN last_id + 1 ELSE id
              L == Replace(List, timerid, interval, part, on, soon, created)
          IN  /\ \/ Idle(List) /\ UNCHANGED last_id
                 \/ Idle(L) /\ (last_id' = timerid \/ last_id' = last_id)
              /\ known' = known \cup {n.id : n \in {m \in nodes' : IsUser(m) /\ m.id <= MaxId}}
    BY <2>0
  <2> DEFINE timerid == IF id = 0 THEN last_id + 1 ELSE id
             L == Replace(List, timerid, interval, part, on, soon, created)
  <2>2. timerid \in Nat /\ timerid > FirstId /\ (id = 0 => timerid >= last_id)
    BY <1>0, TimerAssumption
  <2>x. last_id' = timerid => last_id' \in Nat /\ last_id' >= FirstId
    BY <2>2, TimerAssumption
  <2> HIDE DEF timerid
  <2>3. Good(L) /\ Polls(L, pfds)
    BY <1>0, <2>2, ReplaceKeeps DEF Polls
  <2>4. /\ Idle(List) \/ Idle(L)
        /\ last_id' = timerid \/ last_id' = last_id
    BY <2>1 DEF timerid
  <2> HIDE DEF L
  <2>5. OK'
    BY <1>0, <2>3, <2>4, IdleKeeps
  <2>6. last_id' \in Nat /\ last_id' >= FirstId
    BY <1>0, <2>4, <2>x
  <2>7. \A i \in known' : i \in Nat /\ i > FirstId
    BY <1>0, <2>1, <2>5 DEF Good, Above, List, IsUser
  <2> QED
    BY <2>5, <2>6, <2>7 DEF IInv
<1>7. ASSUME TimerRm PROVE IInv'
  <2>1. PICK id : Idle(Remove(List, Listed(id)))
    BY <1>7 DEF TimerRm
  <2>2. SameIds
    BY <1>7 DEF TimerRm
  <2>3. Good(Remove(List, Listed(id))) /\ Polls(Remove(List, Listed(id)), pfds)
    BY <1>0, RemoveKeeps DEF Polls
  <2> QED
    BY <2>1, <2>2, <2>3, <1>b
<1>8. ASSUME TimerToggle PROVE IInv'
  <2>1. PICK n \in nodes : Idle(UpdateNode(List, n, ~n.on, n.runs))
    BY <1>8 DEF TimerToggle
  <2>2. Good(UpdateNode(List, n, ~n.on, n.runs)) /\ Polls(UpdateNode(List, n, ~n.on, n.runs), pfds)
    BY <1>0, <1>d, UpdateKeeps
  <2>3. SameIds
    BY <1>8 DEF TimerToggle
  <2> QED
    BY <2>1, <2>2, <2>3, <1>b
<1>9. ASSUME ReplaceTimer \/ RemoveSmartPls PROVE IInv'
  <2>1. SameIds
    BY <1>9 DEF ReplaceTimer, RemoveSmartPls
  <2>2. CASE ReplaceTimer
    <3>1. PICK id \in Replaced : Idle(ReplaceInternal(List, id))
      BY <2>2 DEF ReplaceTimer
    <3>2. Good(ReplaceInternal(List, id)) /\ Polls(ReplaceInternal(List, id), pfds)
      BY <1>0, ReplaceInternalKeeps DEF Polls
    <3> QED
      BY <2>1, <3>1, <3>2, <1>b
  <2>3. CASE RemoveSmartPls
    <3>1. Good(Remove(List, Listed(SmartPls))) /\ Polls(Remove(List, Listed(SmartPls)), pfds)
      BY <1>0, RemoveKeeps DEF Polls
    <3> QED
      BY <2>1, <2>3, <3>1, <1>b DEF RemoveSmartPls
  <2> QED
    BY <1>9, <2>2, <2>3
<1>10. ASSUME PartsEvent PROVE IInv'
  <2>1. Good(Populated(List)) /\ Polls(Populated(List), pfds)
    BY <1>0, RemovePartitionsKeeps DEF Populated, Polls
  <2> QED
    BY <1>10, <2>1, <1>b DEF PartsEvent
<1>11. ASSUME PartsRm \/ OtherWork PROVE IInv'
  BY <1>0, <1>11, <1>b DEF PartsRm, OtherWork
<1>12. ASSUME Quiet \/ MpdPartitions PROVE IInv'
  BY <1>1, <1>12 DEF Quiet, MpdPartitions, tlist
<1>13. ASSUME Restart PROVE IInv'
  <2>1. Start(Lines(nodes)) /\ known' = known
    BY <1>13 DEF Restart
  <2>2. Good(List)' /\ repopulated' /\ last_id' \in Nat /\ last_id' >= FirstId
    BY <1>0, <2>1, StartKeeps
  <2>3. Polls(List, pfds)'
    BY <2>2 DEF Polls, List
  <2> QED
    BY <1>0, <2>1, <2>2, <2>3 DEF IInv
<1>14. ASSUME UNCHANGED tvars PROVE IInv'
  BY <1>1, <1>14 DEF tvars, tlist
<1> QED
  BY <1>2, <1>3, <1>4, <1>5, <1>6, <1>7, <1>8, <1>9, <1>10, <1>11, <1>12, <1>13, <1>14 DEF TimerNext

LEMMA Inductive == TimerSpec => []IInv
  BY InitHolds, StepHolds, PTL DEF TimerSpec

(* What the thread polls are the descriptors of the listed timers, for any *)
(* number of timers and descriptors (mympd_api.c:126).                     *)
THEOREM PollsListedHolds == TimerSpec => []PollsListed
<1>1. IInv => PollsListed
  BY DEF IInv, Polls, List, PollsListed
<1> QED
  BY <1>1, Inductive, PTL

(* No two timers have the same id, for any limits (timer.c:171, 190).      *)
THEOREM UniqueIdsHolds == TimerSpec => []UniqueIds
<1>1. IInv => UniqueIds
  BY DEF IInv, Good, Distinct, List, UniqueIds
<1> QED
  BY <1>1, Inductive, PTL

-----------------------------------------------------------------------------
(* The descriptors.  One shot timers, the saving of the state and the limit *)
(* need that every descriptor belongs to one timer and that there is one    *)
(* for the internal timers.                                                 *)

Users(ns) == {n \in ns : n.part # NoPart}

\* no two timers share a descriptor, and only those of the list are readable
Descriptors(L) ==
  /\ IsFiniteSet(L.nodes) /\ L.clock \in [Fds -> {"off", "once", "often"}]
  /\ \A n \in L.nodes : n.fd \in Fds \cup {NoFd}
  /\ \A m, n \in L.nodes : m.fd = n.fd /\ m.fd # NoFd => m = n
  /\ L.due \subseteq Open(L.nodes)

\* the clock of a one shot timer runs out once, and after its run no more
OneShots(L) ==
  \A n \in L.nodes :
    /\ n.interval \in Int /\ n.runs \in Nat
    /\ n.interval <= 0 =>
         /\ n.runs <= 1
         /\ n.fd # NoFd =>
              /\ L.clock[n.fd] # "often" /\ (L.clock[n.fd] = "once" => n.fd \notin L.due)
              /\ n.runs = 1 => L.clock[n.fd] = "off" /\ n.fd \notin L.due

\* internal timers are enabled, and the one that saves the state is on its way
Internals(L) ==
  \A n \in L.nodes : n.part = NoPart =>
    /\ n.id \in Internal /\ n.on = TRUE /\ n.fd # NoFd
    /\ n.id = Crop => n.interval > 0
    /\ n.id = StateSave => n.interval = -1 /\ (L.clock[n.fd] = "once" \/ n.fd \in L.due)

Limited(L) == Cardinality(Users(L.nodes)) <= ListMax
Sound(L)   == Good(L) /\ Descriptors(L) /\ OneShots(L) /\ Internals(L) /\ Limited(L)

Has(L, id) == \E n \in L.nodes : n.id = id

\* The second inductive invariant
SInv ==
  /\ Sound(List) /\ Has(List, Crop)
  /\ unsaved => Has(List, StateSave)
  /\ partList \subseteq Partitions /\ mpdParts \subseteq OtherParts

(* The kernel finds a number if there is one. *)
LEMMA LowestIsFree ==
  ASSUME NEW S \in SUBSET Fds, S # {}
  PROVE  Lowest(S) \in S
<1>1. S \subseteq Nat
  BY TimerAssumption
<1>2. PICK x \in S : \A y \in S : ~(<<y, x>> \in OpToRel(<, Nat))
  BY <1>1, NatLessThanWellFounded, WFMin
<1>3. \A y \in S : ~(y < x)
  BY <1>1, <1>2 DEF OpToRel
<1>4. \A y \in S : x <= y
  BY <1>1, <1>3
<1> QED
  BY <1>4 DEF Lowest

(* Three of the four internal timers and the timers of users leave a       *)
(* descriptor for the fourth.                                              *)
LEMMA InternalCount ==
  ASSUME NEW i \in Internal
  PROVE  /\ IsFiniteSet(Internal \ {i})
         /\ Cardinality(Internal \ {i}) = Cardinality(Internal) - 1
         /\ Cardinality(Internal) = 4
<1> DEFINE S1 == {Crop}
           S2 == S1 \cup {SmartPls}
           S3 == S2 \cup {Caches}
           S4 == S3 \cup {StateSave}
<1>1. IsFiniteSet(S1) /\ Cardinality(S1) = 1
  BY FS_Singleton
<1>2. IsFiniteSet(S2) /\ Cardinality(S2) = 2
  <2>1. SmartPls \notin S1
    BY DEF SmartPls, Crop
  <2> HIDE DEF S1
  <2> QED
    BY <1>1, <2>1, FS_AddElement
<1>3. IsFiniteSet(S3) /\ Cardinality(S3) = 3
  <2>1. Caches \notin S2
    BY DEF SmartPls, Crop, Caches
  <2> HIDE DEF S2
  <2> QED
    BY <1>2, <2>1, FS_AddElement
<1>4. IsFiniteSet(S4) /\ Cardinality(S4) = 4
  <2>1. StateSave \notin S3
    BY DEF SmartPls, Crop, Caches, StateSave
  <2> HIDE DEF S3
  <2> QED
    BY <1>3, <2>1, FS_AddElement
<1>5. Internal = S4
  BY DEF Internal
<1> HIDE DEF S4
<1> QED
  BY <1>4, <1>5, FS_RemoveElement

LEMMA FreeForInternal ==
  ASSUME NEW L, Sound(L), NEW i \in Internal, ~Has(L, i)
  PROVE  Fds \ Open(L.nodes) # {}
<1> DEFINE U == Users(L.nodes)
           I == L.nodes \ U
           f == [n \in I |-> n.id]
           D == {n.fd : n \in L.nodes}
           g == [n \in L.nodes |-> n.fd]
<1>1. IsFiniteSet(L.nodes) /\ Cardinality(U) <= ListMax
  BY DEF Sound, Descriptors, Limited
<1>2. IsFiniteSet(U) /\ IsFiniteSet(I) /\ Cardinality(U) \in Nat /\ Cardinality(I) \in Nat
  BY <1>1, FS_Subset, FS_CardinalityType DEF Users
<1>3. f \in Injection(I, Internal \ {i})
  <2>1. \A n \in I : n \in L.nodes /\ n.part = NoPart
    BY DEF Users
  <2>2. \A n \in I : n.id \in Internal \ {i}
    BY <2>1 DEF Sound, Internals, Has
  <2>3. \A m, n \in I : m.id = n.id => m = n
    BY <2>1 DEF Sound, Good, Distinct
  <2> HIDE DEF I
  <2> QED
    BY <2>2, <2>3 DEF Injection, IsInjective
<1>4. Cardinality(I) <= 3
  <2>1. IsFiniteSet(Internal \ {i}) /\ Cardinality(Internal \ {i}) = 3
    <3>1. Cardinality(Internal \ {i}) = 4 - 1
      BY InternalCount
    <3> QED
      BY <3>1, InternalCount
  <2> HIDE DEF f, I
  <2>2. Cardinality(I) <= Cardinality(Internal \ {i})
    BY <1>3, <2>1, FS_Injection
  <2> QED
    BY <2>1, <2>2
<1>5. Cardinality(L.nodes) <= ListMax + 3
  <2>1. Cardinality(U \cup I) = Cardinality(U) + Cardinality(I) - Cardinality(U \cap I)
    BY <1>2, FS_Union
  <2>2. U \cup I = L.nodes /\ U \cap I = {}
    BY DEF Users
  <2>3. Cardinality(U \cap I) = 0
    BY <2>2, FS_EmptySet
  <2> HIDE DEF U, I
  <2>4. Cardinality(L.nodes) = Cardinality(U) + Cardinality(I)
    <3>1. Cardinality(L.nodes) = Cardinality(U \cup I)
      BY <2>2
    <3> QED
      BY <1>2, <2>1, <2>3, <3>1
  <2> QED
    BY <1>1, <1>2, <1>4, <2>4, TimerAssumption
<1>6. IsFiniteSet(D) /\ Cardinality(D) <= Cardinality(L.nodes)
  <2>1. g \in Surjection(L.nodes, D)
    BY DEF Surjection
  <2> HIDE DEF g, D
  <2> QED
    BY <1>1, <2>1, FS_Surjection
<1>7. ASSUME Fds \subseteq D PROVE FALSE
  <2>1. Cardinality(Fds) <= Cardinality(D)
    BY <1>6, <1>7, FS_Subset
  <2> HIDE DEF D
  <2>2. Cardinality(Fds) \in Nat /\ Cardinality(D) \in Nat /\ Cardinality(L.nodes) \in Nat
    BY <1>1, <1>6, FS_CardinalityType, TimerAssumption
  <2>3. Cardinality(Fds) >= ListMax + 4
    BY InternalCount, TimerAssumption
  <2> QED
    BY <1>5, <1>6, <2>1, <2>2, <2>3, TimerAssumption
<1>8. Open(L.nodes) \subseteq D
  BY DEF Open
<1> QED
  BY <1>7, <1>8

(* What a removal leaves is as it was (timer.c:262, 324).                  *)
LEMMA RemoveSound ==
  ASSUME NEW L, NEW gone, Sound(L)
  PROVE  Sound(Remove(L, gone))
<1> DEFINE kept == L.nodes \ gone
           R == Remove(L, gone)
<1>1. /\ R.nodes = kept /\ R.due = L.due \cap Open(kept)
      /\ R.clock = [f \in Fds |-> IF f \in Open(kept) THEN L.clock[f] ELSE "off"]
  BY DEF Remove, Changed
<1>2. \A n \in kept : n \in L.nodes /\ (n.fd # NoFd => n.fd \in Open(kept))
  BY DEF Open
<1>3. Good(R)
  BY RemoveKeeps DEF Sound
<1>4. IsFiniteSet(kept) /\ Cardinality(Users(kept)) <= ListMax
  <2>1. IsFiniteSet(L.nodes) /\ Cardinality(Users(L.nodes)) <= ListMax
    BY DEF Sound, Descriptors, Limited
  <2>2. IsFiniteSet(kept) /\ IsFiniteSet(Users(L.nodes))
    BY <2>1, FS_Subset DEF Users
  <2>3. Cardinality(Users(kept)) <= Cardinality(Users(L.nodes))
        /\ Cardinality(Users(kept)) \in Nat /\ Cardinality(Users(L.nodes)) \in Nat
    BY <2>2, FS_Subset, FS_CardinalityType DEF Users
  <2> QED
    BY <2>1, <2>2, <2>3, TimerAssumption
<1> HIDE DEF kept, R
<1>5. Descriptors(R)
  BY <1>1, <1>2, <1>4 DEF Sound, Descriptors
<1>6. \A n \in R.nodes : n.fd \in Fds => R.clock[n.fd] = IF n.fd # NoFd THEN L.clock[n.fd] ELSE "off"
  BY <1>1, <1>2 DEF Open
<1>7. \A n \in R.nodes : n.fd # NoFd => n.fd \in Fds /\ (n.fd \in R.due <=> n.fd \in L.due)
  BY <1>1, <1>2, <1>5 DEF Descriptors
<1>8. OneShots(R)
  BY <1>1, <1>2, <1>6, <1>7 DEF Sound, OneShots
<1>9. Internals(R)
  BY <1>1, <1>2, <1>6, <1>7 DEF Sound, Internals
<1> QED
  BY <1>1, <1>3, <1>4, <1>5, <1>8, <1>9 DEF Sound, Limited, R

(* What is added gets a descriptor of its own, and an internal timer gets   *)
(* one in any case (timer.c:215).                                          *)
LEMMA AddSound ==
  ASSUME NEW L, NEW id, NEW interval \in Int, NEW part, NEW on \in BOOLEAN, NEW soon, NEW created,
         Sound(L), ~Has(L, id),
         part # NoPart => id \in Nat /\ id > FirstId /\ Cardinality(Users(L.nodes)) < ListMax,
         part = NoPart => /\ id \in Internal /\ on /\ created /\ ~soon
                          /\ id = StateSave => interval = -1
                          /\ id = Crop => interval > 0
  PROVE  LET A == Add(L, id, interval, part, on, soon, created)
         IN  /\ Sound(A) /\ L.nodes \subseteq A.nodes
             /\ part = NoPart => Has(A, id)
<1> DEFINE free == Fds \ Open(L.nodes)
           fd   == IF on THEN Lowest(free) ELSE NoFd
           new  == [id |-> id, interval |-> interval, part |-> part, on |-> on,
                    fd |-> fd, runs |-> 0]
           A    == Add(L, id, interval, part, on, soon, created)
<1>1. Good(A)
  <2>1. Good(L) /\ \A n \in L.nodes : n.id # id
    BY DEF Sound, Has
  <2> QED
    BY <2>1, AddKeeps
<1>2. part = NoPart => free # {}
  BY FreeForInternal
<1>3. CASE on /\ (~created \/ free = {})
  <2>1. A.nodes = L.nodes /\ A.clock = L.clock /\ A.due = L.due
    BY <1>3 DEF Add, Changed
  <2>2. part # NoPart
    BY <1>2, <1>3
  <2> HIDE DEF A
  <2>3. Sound(A)
    BY <1>1, <2>1 DEF Sound, Descriptors, OneShots, Internals, Limited
  <2> QED
    BY <2>1, <2>2, <2>3 DEF A
<1>4. CASE ~(on /\ (~created \/ free = {}))
  <2>1. /\ A.nodes = L.nodes \cup {new} /\ A.due = L.due
        /\ A.clock = [f \in Fds |-> IF f = fd THEN Arm(interval, soon) ELSE L.clock[f]]
    BY <1>4 DEF Add, Changed
  <2>2. fd \in free \cup {NoFd} /\ (on => fd \in free) /\ (fd # NoFd => on)
    <3>1. free # {} => Lowest(free) \in free
      BY LowestIsFree
    <3> QED
      BY <1>4, <3>1
  <2>3. NoFd \notin Fds
    BY TimerAssumption
  <2>4. /\ new.id = id /\ new.interval = interval /\ new.part = part /\ new.on = on
        /\ new.fd = fd /\ new.runs = 0
    OBVIOUS
  <2>5. Arm(interval, soon) \in {"off", "once", "often"}
        /\ (interval <= 0 => Arm(interval, soon) # "often")
        /\ (~soon /\ interval = -1 => Arm(interval, soon) = "once")
    BY DEF Arm
  <2>7. \A n \in L.nodes : n.fd # NoFd => n.fd \in Open(L.nodes)
    BY DEF Open
  <2>8. IsFiniteSet(L.nodes)
    BY DEF Sound, Descriptors
  <2> HIDE DEF A, new, fd, free
  <2>6. \A f \in Open(L.nodes) \cup L.due : f # fd /\ f \in Fds
    <3>1. L.due \subseteq Open(L.nodes) /\ \A n \in L.nodes : n.fd \in Fds \cup {NoFd}
      BY DEF Sound, Descriptors
    <3>2. Open(L.nodes) \subseteq Fds
      BY <3>1 DEF Open
    <3>3. NoFd \notin Open(L.nodes) /\ free \cap Open(L.nodes) = {}
      BY DEF Open, free
    <3> QED
      BY <2>2, <3>1, <3>2, <3>3
  <2>9. Descriptors(A)
    <3>1. IsFiniteSet(A.nodes)
      BY <2>1, <2>8, FS_AddElement
    <3>2. A.clock \in [Fds -> {"off", "once", "often"}]
      BY <2>1, <2>5 DEF Sound, Descriptors
    <3>3. \A n \in A.nodes : n.fd \in Fds \cup {NoFd}
      BY <2>1, <2>2, <2>4 DEF Sound, Descriptors, free
    <3>4. \A m, n \in A.nodes : m.fd = n.fd /\ m.fd # NoFd => m = n
      BY <2>1, <2>4, <2>6, <2>7 DEF Sound, Descriptors
    <3>5. A.due \subseteq Open(A.nodes)
      BY <2>1 DEF Sound, Descriptors, Open
    <3> QED
      BY <3>1, <3>2, <3>3, <3>4, <3>5 DEF Descriptors
  <2>10. \A n \in L.nodes : n.fd # NoFd => A.clock[n.fd] = L.clock[n.fd]
    BY <2>1, <2>6, <2>7
  <2>11. on => /\ fd \in Fds /\ A.clock[fd] = Arm(interval, soon) /\ fd \notin A.due
    BY <2>1, <2>2, <2>6 DEF free
  <2>12. OneShots(A)
    <3>1. ASSUME NEW n \in L.nodes
          PROVE  /\ n.interval \in Int /\ n.runs \in Nat
                 /\ n.interval <= 0 =>
                      /\ n.runs <= 1
                      /\ n.fd # NoFd =>
                           /\ A.clock[n.fd] # "often" /\ (A.clock[n.fd] = "once" => n.fd \notin A.due)
                           /\ n.runs = 1 => A.clock[n.fd] = "off" /\ n.fd \notin A.due
      BY <2>1, <2>10, <3>1 DEF Sound, OneShots
    <3>2. /\ new.interval \in Int /\ new.runs \in Nat
          /\ new.interval <= 0 =>
               /\ new.runs <= 1
               /\ new.fd # NoFd =>
                    /\ A.clock[new.fd] # "often" /\ (A.clock[new.fd] = "once" => new.fd \notin A.due)
                    /\ new.runs = 1 => A.clock[new.fd] = "off" /\ new.fd \notin A.due
      BY <2>2, <2>4, <2>5, <2>11
    <3> QED
      BY <2>1, <3>1, <3>2 DEF OneShots
  <2>13. Internals(A)
    <3>1. ASSUME NEW n \in L.nodes, n.part = NoPart
          PROVE  /\ n.id \in Internal /\ n.on = TRUE /\ n.fd # NoFd
                 /\ n.id = Crop => n.interval > 0
                 /\ n.id = StateSave => n.interval = -1 /\ (A.clock[n.fd] = "once" \/ n.fd \in A.due)
      BY <2>1, <2>10, <3>1 DEF Sound, Internals
    <3>2. ASSUME part = NoPart
          PROVE  /\ new.id \in Internal /\ new.on = TRUE /\ new.fd # NoFd
                 /\ new.id = Crop => new.interval > 0
                 /\ new.id = StateSave => new.interval = -1 /\ (A.clock[new.fd] = "once" \/ new.fd \in A.due)
      <4>1. on = TRUE /\ fd # NoFd
        BY <2>3, <2>11, <3>2
      <4> QED
        BY <2>4, <2>5, <2>11, <3>2, <4>1
    <3> QED
      BY <2>1, <2>4, <3>1, <3>2 DEF Internals
  <2>14. Limited(A)
    <3>1. CASE part = NoPart
      <4>1. Users(A.nodes) = Users(L.nodes)
        BY <2>1, <2>4, <3>1 DEF Users
      <4> QED
        BY <4>1 DEF Sound, Limited
    <3>2. CASE part # NoPart
      <4>1. Users(A.nodes) = Users(L.nodes) \cup {new}
        BY <2>1, <2>4, <3>2 DEF Users
      <4>2. IsFiniteSet(Users(L.nodes))
        BY <2>8, FS_Subset DEF Users
      <4>3. Cardinality(Users(L.nodes) \cup {new}) <= Cardinality(Users(L.nodes)) + 1
            /\ Cardinality(Users(L.nodes)) \in Nat /\ Cardinality(Users(L.nodes) \cup {new}) \in Nat
        <5>1. IsFiniteSet(Users(L.nodes) \cup {new})
              /\ Cardinality(Users(L.nodes) \cup {new}) =
                   IF new \in Users(L.nodes) THEN Cardinality(Users(L.nodes))
                                            ELSE Cardinality(Users(L.nodes)) + 1
          BY <4>2, FS_AddElement
        <5>2. Cardinality(Users(L.nodes)) \in Nat /\ Cardinality(Users(L.nodes) \cup {new}) \in Nat
          BY <4>2, <5>1, FS_CardinalityType
        <5> QED
          BY <5>1, <5>2
      <4>4. Cardinality(Users(A.nodes)) <= ListMax
        BY <3>2, <4>1, <4>3, TimerAssumption
      <4> QED
        BY <4>4 DEF Limited
    <3> QED
      BY <3>1, <3>2
  <2>15. L.nodes \subseteq A.nodes /\ Has(A, id)
    BY <2>1, <2>4 DEF Has
  <2> QED
    BY <1>1, <2>9, <2>12, <2>13, <2>14, <2>15 DEF Sound, A
<1> QED
  BY <1>3, <1>4

(* A change of a definition touches neither clock nor descriptor            *)
(* (timer.c:351); it counts at most one run of a timer that stays spent.   *)
LEMMA UpdateSound ==
  ASSUME NEW L, NEW n \in L.nodes, NEW on \in BOOLEAN, NEW runs \in Nat, Sound(L),
         n.part = NoPart => on = TRUE,
         n.interval <= 0 =>
           runs <= 1 /\ (n.fd # NoFd /\ runs = 1 => L.clock[n.fd] = "off" /\ n.fd \notin L.due)
  PROVE  Sound(UpdateNode(L, n, on, runs))
<1> DEFINE new == [id |-> n.id, interval |-> n.interval, part |-> n.part,
                   on |-> on, fd |-> n.fd, runs |-> runs]
           U   == UpdateNode(L, n, on, runs)
<1>1. U.nodes = (L.nodes \ {n}) \cup {new} /\ U.clock = L.clock /\ U.due = L.due
  BY DEF UpdateNode
<1>2. /\ new.id = n.id /\ new.part = n.part /\ new.fd = n.fd /\ new.interval = n.interval
      /\ new.on = on /\ new.runs = runs
  OBVIOUS
<1>3. Good(U)
  <2>1. Good(L) /\ Polls(L, Open(L.nodes))
    BY DEF Sound, Polls
  <2> QED
    BY <2>1, UpdateKeeps
<1> HIDE DEF U, new
<1>4. Descriptors(U)
  <2>1. IsFiniteSet(U.nodes)
    <3>1. IsFiniteSet(L.nodes \ {n})
      BY FS_Subset DEF Sound, Descriptors
    <3> QED
      BY <1>1, <3>1, FS_AddElement
  <2>2. Open(U.nodes) = Open(L.nodes)
    BY <1>1, <1>2 DEF Open
  <2> QED
    BY <1>1, <1>2, <2>1, <2>2 DEF Sound, Descriptors
<1>5. OneShots(U)
  <2>1. /\ new.interval \in Int /\ new.runs \in Nat
        /\ new.interval <= 0 =>
             /\ new.runs <= 1
             /\ new.fd # NoFd =>
                  /\ L.clock[new.fd] # "often" /\ (L.clock[new.fd] = "once" => new.fd \notin L.due)
                  /\ new.runs = 1 => L.clock[new.fd] = "off" /\ new.fd \notin L.due
    BY <1>2 DEF Sound, OneShots
  <2> QED
    BY <1>1, <2>1 DEF Sound, OneShots
<1>6. Internals(U)
  BY <1>1, <1>2 DEF Sound, Internals
<1>7. Limited(U)
  <2>1. IsFiniteSet(L.nodes)
    BY DEF Sound, Descriptors
  <2>2. CASE n.part = NoPart
    <3>1. Users(U.nodes) = Users(L.nodes)
      BY <1>1, <1>2, <2>2 DEF Users
    <3> QED
      BY <3>1 DEF Sound, Limited
  <2>3. CASE n.part # NoPart
    <3> DEFINE rest == Users(L.nodes) \ {n}
    <3>1. Users(U.nodes) = rest \cup {new} /\ n \in Users(L.nodes)
      BY <1>1, <1>2, <2>3 DEF Users
    <3>2. IsFiniteSet(Users(L.nodes)) /\ Cardinality(Users(L.nodes)) \in Nat
      BY <2>1, FS_Subset, FS_CardinalityType DEF Users
    <3>3. IsFiniteSet(rest) /\ Cardinality(rest) = Cardinality(Users(L.nodes)) - 1
      BY <3>1, <3>2, FS_RemoveElement
    <3> HIDE DEF rest
    <3>4. Cardinality(rest \cup {new}) <= Cardinality(rest) + 1
          /\ Cardinality(rest) \in Nat /\ Cardinality(rest \cup {new}) \in Nat
      BY <3>3, FS_AddElement, FS_CardinalityType, SMTT(30)
    <3>5. Cardinality(Users(L.nodes)) <= ListMax
      BY DEF Sound, Limited
    <3> QED
      BY <3>1, <3>2, <3>3, <3>4, <3>5, TimerAssumption DEF Limited
  <2> QED
    BY <2>2, <2>3
<1> QED
  BY <1>3, <1>4, <1>5, <1>6, <1>7 DEF Sound, U

(* The operations made of removals and additions. *)
LEMMA ReplaceSound ==
  ASSUME NEW L, NEW id, NEW interval \in Int, NEW part, NEW on \in BOOLEAN, NEW soon, NEW created,
         Sound(L), part # NoPart, id \in Nat, id > FirstId, Cardinality(Users(L.nodes)) < ListMax
  PROVE  LET R == Replace(L, id, interval, part, on, soon, created)
         IN  Sound(R) /\ (Has(L, Crop) => Has(R, Crop))
<1> DEFINE K == Remove(L, WithId(L, id))
           R == Replace(L, id, interval, part, on, soon, created)
<1>1. Sound(K) /\ K.nodes = L.nodes \ WithId(L, id)
  BY RemoveSound DEF Remove, Changed
<1>2. ~Has(K, id)
  BY <1>1 DEF Has, WithId
<1>3. Cardinality(Users(K.nodes)) < ListMax
  <2>1. IsFiniteSet(Users(L.nodes))
    BY FS_Subset DEF Users, Sound, Descriptors
  <2>2. Users(K.nodes) \in SUBSET Users(L.nodes)
    BY <1>1 DEF Users
  <2>3. IsFiniteSet(Users(K.nodes)) /\ Cardinality(Users(K.nodes)) <= Cardinality(Users(L.nodes))
    BY <2>1, <2>2, FS_Subset
  <2>4. Cardinality(Users(K.nodes)) \in Nat /\ Cardinality(Users(L.nodes)) \in Nat
    BY <2>1, <2>3, FS_CardinalityType
  <2> HIDE DEF K
  <2> QED
    BY <2>3, <2>4, TimerAssumption
<1>4. Has(L, Crop) => Has(K, Crop)
  <2>1. id # Crop
    BY TimerAssumption DEF Crop, StateSave
  <2> QED
    BY <1>1, <2>1 DEF Has, WithId
<1> HIDE DEF K
<1>5. Sound(Add(K, id, interval, part, on, soon, created))
      /\ K.nodes \subseteq Add(K, id, interval, part, on, soon, created).nodes
  BY <1>1, <1>2, <1>3, AddSound
<1> QED
  BY <1>4, <1>5 DEF Replace, Has, K

LEMMA AddInternalSound ==
  ASSUME NEW L, NEW id \in Internal, NEW interval \in Int, Sound(L), ~Has(L, id),
         id = StateSave => interval = -1, id = Crop => interval > 0
  PROVE  LET A == AddInternal(L, id, interval)
         IN  Sound(A) /\ L.nodes \subseteq A.nodes /\ Has(A, id)
<1>1. id \in Internal /\ NoPart = NoPart
  OBVIOUS
<1> QED
  BY <1>1, AddSound DEF AddInternal

LEMMA ReplaceInternalSound ==
  ASSUME NEW L, NEW id \in {SmartPls, Caches}, Sound(L)
  PROVE  LET R == ReplaceInternal(L, id)
         IN  Sound(R) /\ \A i \in Internal : Has(L, i) => Has(R, i)
<1> DEFINE K == Remove(L, WithId(L, id))
           t == IF id = Caches THEN -1 ELSE 1
           R == ReplaceInternal(L, id)
<1>1. Sound(K) /\ K.nodes = L.nodes \ WithId(L, id)
  BY RemoveSound DEF Remove, Changed
<1>2. ~Has(K, id) /\ \A i \in Internal : i # id /\ Has(L, i) => Has(K, i)
  BY <1>1 DEF Has, WithId
<1>3. id \in Internal /\ id # StateSave /\ id # Crop /\ t \in Int
  BY DEF Internal, SmartPls, Caches, StateSave, Crop
<1> HIDE DEF K, t
<1>4. Sound(AddInternal(K, id, t)) /\ K.nodes \subseteq AddInternal(K, id, t).nodes
      /\ Has(AddInternal(K, id, t), id)
  BY <1>1, <1>2, <1>3, AddInternalSound
<1> QED
  BY <1>2, <1>4 DEF ReplaceInternal, Has, K, t

LEMMA RemovePartitionsSound ==
  ASSUME NEW L, NEW ps, Sound(L), NoPart \notin ps
  PROVE  /\ Sound(RemovePartitions(L, ps))
         /\ \A i \in Internal : Has(L, i) => Has(RemovePartitions(L, ps), i)
<1> DEFINE gone == {n \in L.nodes : n.part \in ps}
<1>1. Sound(Remove(L, gone)) /\ Remove(L, gone).nodes = L.nodes \ gone
  BY RemoveSound DEF Remove, Changed
<1>2. \A n \in gone : n.id \notin Internal
  <2>1. \A n \in gone : n \in L.nodes /\ n.part # NoPart
    OBVIOUS
  <2>2. \A n \in L.nodes : n.part # NoPart => n.id \in Nat /\ n.id > FirstId
    BY DEF Sound, Good, Above
  <2>3. \A i \in Internal : i \in Nat /\ ~(i > FirstId)
    BY TimerAssumption DEF Internal, Crop, SmartPls, Caches, StateSave
  <2> HIDE DEF gone
  <2> QED
    BY <2>1, <2>2, <2>3
<1> HIDE DEF gone
<1>3. \A i \in Internal : Has(L, i) => Has(Remove(L, gone), i)
  BY <1>1, <1>2 DEF Has
<1> QED
  BY <1>1, <1>3 DEF RemovePartitions, gone

(* A request that leaves a sound list has the saving of the state on its   *)
(* way (mympd_api.c:146).                                                  *)
LEMMA IdleSound ==
  ASSUME NEW L, Sound(L), Has(L, Crop), Idle(L)
  PROVE  (Sound(List) /\ Has(List, Crop) /\ Has(List, StateSave))'
<1> DEFINE A == AddUniq(L, StateSave, -1)
<1>1. Sound(A) /\ Has(A, Crop) /\ Has(A, StateSave)
  <2>1. CASE WithId(L, StateSave) # {}
    BY <2>1 DEF AddUniq, WithId, Has
  <2>2. CASE WithId(L, StateSave) = {}
    <3>1. ~Has(L, StateSave) /\ StateSave \in Internal /\ StateSave # Crop
      BY <2>2 DEF Has, WithId, Internal, StateSave, Crop
    <3>2. Sound(AddInternal(L, StateSave, -1)) /\ L.nodes \subseteq AddInternal(L, StateSave, -1).nodes
          /\ Has(AddInternal(L, StateSave, -1), StateSave)
      BY <3>1, AddInternalSound
    <3> QED
      BY <2>2, <3>2 DEF AddUniq, Has
  <2> QED
    BY <2>1, <2>2
<1>2. SetList(A)
  BY DEF Idle, ScheduleSave
<1>3. List'.nodes = A.nodes /\ List'.clock = A.clock /\ List'.due = A.due
  BY <1>2 DEF SetList, List
<1> HIDE DEF A
<1> QED
  BY <1>1, <1>3 DEF Sound, Good, Descriptors, OneShots, Internals, Limited, Has, Distinct, Above,
                    Users, Open

(* Descriptors in the order of their numbers, timers in that of their ids. *)
LEMMA NthDescriptor ==
  ASSUME NEW k \in Nat, k >= 1, k <= Cardinality(Fds)
  PROVE  \E f \in Fds : Cardinality({g \in Fds : g <= f}) = k
<1> DEFINE Upto(f) == {g \in Fds : g <= f}
           N == Cardinality(Fds)
           r == [f \in Fds |-> Cardinality(Upto(f))]
<1>1. IsFiniteSet(Fds) /\ Fds \subseteq Nat /\ N \in Nat
  BY TimerAssumption, FS_CardinalityType
<1>2. \A f \in Fds : IsFiniteSet(Upto(f)) /\ Cardinality(Upto(f)) \in 1..N
  <2>1. SUFFICES ASSUME NEW f \in Fds PROVE IsFiniteSet(Upto(f)) /\ Cardinality(Upto(f)) \in 1..N
    OBVIOUS
  <2>2. IsFiniteSet(Upto(f)) /\ Cardinality(Upto(f)) <= N
    BY <1>1, FS_Subset
  <2>3. Cardinality(Upto(f)) \in Nat
    BY <2>2, FS_CardinalityType
  <2>4. f \in Upto(f)
    BY <1>1
  <2>5. Cardinality(Upto(f)) # 0
    BY <2>2, <2>4, FS_EmptySet
  <2> HIDE DEF Upto
  <2> QED
    BY <1>1, <2>2, <2>3, <2>5
<1>3. \A f, h \in Fds : f < h => Cardinality(Upto(f)) # Cardinality(Upto(h))
  <2>1. SUFFICES ASSUME NEW f \in Fds, NEW h \in Fds, f < h
                 PROVE  Cardinality(Upto(f)) # Cardinality(Upto(h))
    OBVIOUS
  <2>2. Upto(f) \subseteq Upto(h) /\ h \in Upto(h) /\ h \notin Upto(f)
    <3>1. f \in Nat /\ h \in Nat
      BY <1>1
    <3>2. \A g \in Fds : g <= f => g <= h
      BY <1>1, <2>1, <3>1
    <3>3. h <= h /\ ~(h <= f)
      BY <2>1, <3>1
    <3> QED
      BY <3>2, <3>3
  <2> HIDE DEF Upto
  <2> QED
    BY <1>2, <2>2, FS_Subset
<1>4. r \in Injection(Fds, 1..N)
  <2>1. \A f, h \in Fds : Cardinality(Upto(f)) = Cardinality(Upto(h)) => f = h
    <3>1. \A f, h \in Fds : f < h \/ h < f \/ f = h
      BY <1>1
    <3> HIDE DEF Upto
    <3> QED
      BY <1>3, <3>1
  <2> HIDE DEF Upto
  <2> QED
    BY <1>2, <2>1 DEF Injection, IsInjective
<1>5. IsFiniteSet(1..N) /\ Cardinality(1..N) = N
  BY <1>1, FS_Interval
<1> HIDE DEF Upto, r
<1>6. r \in Surjection(Fds, 1..N)
  BY <1>4, <1>5, FS_Injection
<1>7. \E f \in Fds : r[f] = k
  BY <1>1, <1>6 DEF Surjection
<1> QED
  BY <1>7 DEF r, Upto

LEMMA Ranks ==
  ASSUME NEW ls, IsFiniteSet(ls), Distinct(ls), \A x \in ls : x.id \in Nat
  PROVE  /\ \A x \in ls : Rank(ls, x) \in 1..Cardinality(ls)
         /\ \A x, z \in ls : x.on /\ z.on /\ Rank(ls, x) = Rank(ls, z) => x = z
<1> DEFINE Below(x) == {y \in ls : y.on /\ y.id < x.id}
<1>1. \A x \in ls : IsFiniteSet(Below(x)) /\ Cardinality(Below(x)) \in Nat
                    /\ Cardinality(Below(x)) < Cardinality(ls)
  <2>1. SUFFICES ASSUME NEW x \in ls
                 PROVE  IsFiniteSet(Below(x)) /\ Cardinality(Below(x)) \in Nat
                        /\ Cardinality(Below(x)) < Cardinality(ls)
    OBVIOUS
  <2>2. Below(x) \in SUBSET ls /\ Below(x) # ls
    <3>1. x \notin Below(x)
      OBVIOUS
    <3> QED
      BY <2>1, <3>1
  <2> HIDE DEF Below
  <2>3. IsFiniteSet(Below(x)) /\ Cardinality(Below(x)) <= Cardinality(ls)
        /\ Cardinality(Below(x)) # Cardinality(ls)
    BY <2>2, FS_Subset
  <2>4. Cardinality(Below(x)) \in Nat /\ Cardinality(ls) \in Nat
    BY <2>3, FS_CardinalityType
  <2> QED
    BY <2>3, <2>4
<1>2. \A x, z \in ls : x.on /\ x.id < z.id => Cardinality(Below(x)) # Cardinality(Below(z))
  <2>1. SUFFICES ASSUME NEW x \in ls, NEW z \in ls, x.on, x.id < z.id
                 PROVE  Cardinality(Below(x)) # Cardinality(Below(z))
    OBVIOUS
  <2>2. Below(x) \subseteq Below(z) /\ x \in Below(z) /\ x \notin Below(x)
    BY <2>1
  <2> HIDE DEF Below
  <2> QED
    BY <1>1, <2>2, FS_Subset
<1>3. \A x \in ls : Rank(ls, x) = 1 + Cardinality(Below(x))
  BY DEF Rank
<1>4. IsFiniteSet(ls) /\ Cardinality(ls) \in Nat
  BY FS_CardinalityType
<1> HIDE DEF Below
<1>5. \A x \in ls : Rank(ls, x) \in 1..Cardinality(ls)
  BY <1>1, <1>3, <1>4
<1>6. ASSUME NEW x \in ls, NEW z \in ls, x.on, z.on, Rank(ls, x) = Rank(ls, z)
      PROVE  x = z
  <2>1. Cardinality(Below(x)) = Cardinality(Below(z))
    BY <1>1, <1>3, <1>6
  <2>2. ~(x.id < z.id) /\ ~(z.id < x.id)
    BY <1>2, <1>6, <2>1
  <2>3. x.id = z.id
    BY <2>2
  <2> QED
    BY <2>3 DEF Distinct
<1> QED
  BY <1>5, <1>6

(* The start makes a sound list of what it reads of the file (timer.c:541).*)
LEMMA LinesSound ==
  ASSUME Sound(List)
  PROVE  /\ IsFiniteSet(Lines(nodes)) /\ Cardinality(Lines(nodes)) <= ListMax
         /\ \A x \in Lines(nodes) : x.interval \in Int /\ x.part # NoPart
<1> DEFINE U == Users(nodes)
           g == [n \in U |-> [id |-> n.id, interval |-> n.interval, part |-> n.part, on |-> n.on]]
<1>1. IsFiniteSet(U) /\ Cardinality(U) <= ListMax
  <2>1. IsFiniteSet(nodes) /\ Cardinality(U) <= ListMax
    BY DEF Sound, Descriptors, Limited, List
  <2> QED
    BY <2>1, FS_Subset DEF Users
<1>2. g \in Surjection(U, Lines(nodes))
  BY DEF Surjection, Lines, IsUser, Users
<1>3. IsFiniteSet(Lines(nodes)) /\ Cardinality(Lines(nodes)) <= Cardinality(U)
  <2> HIDE DEF U, g
  <2> QED
    BY <1>1, <1>2, FS_Surjection
<1>4. Cardinality(Lines(nodes)) \in Nat /\ Cardinality(U) \in Nat
  BY <1>1, <1>3, FS_CardinalityType
<1>5. \A x \in Lines(nodes) : x.interval \in Int /\ x.part # NoPart
  BY DEF Lines, IsUser, Sound, OneShots, List
<1> HIDE DEF U
<1> QED
  BY <1>1, <1>3, <1>4, <1>5, TimerAssumption

LEMMA StartedSound ==
  ASSUME NEW ls, NEW soon, IsFiniteSet(ls), Cardinality(ls) <= ListMax, Distinct(ls),
         \A x \in ls : x.id \in Nat /\ x.id > FirstId /\ x.interval \in Int /\ x.part # NoPart
  PROVE  Sound(Started(ls, soon)) /\ Has(Started(ls, soon), Crop)
<1> DEFINE fd(x) == IF x.on THEN CHOOSE f \in Fds : Cardinality({g \in Fds : g <= f}) = Rank(ls, x)
                    ELSE NoFd
           node(x) == [id |-> x.id, interval |-> x.interval, part |-> x.part, on |-> x.on,
                       fd |-> fd(x), runs |-> 0]
           ns == {node(x) : x \in ls}
           cl == [f \in Fds |-> IF \E x \in ls : x.on /\ fd(x) = f
                                THEN LET x == CHOOSE y \in ls : y.on /\ fd(y) = f
                                     IN  Arm(x.interval, x \in soon)
                                ELSE "off"]
           C  == Changed(ns, cl, {})
           h  == [x \in ls |-> node(x)]
<1>1. Started(ls, soon) = AddInternal(C, Crop, 1)
  BY DEF Started
<1>2. C.nodes = ns /\ C.clock = cl /\ C.due = {}
  BY DEF Changed
<1>3. \A x \in ls : x.on => fd(x) \in Fds /\ Cardinality({g \in Fds : g <= fd(x)}) = Rank(ls, x)
  <2>1. SUFFICES ASSUME NEW x \in ls, x.on
                 PROVE  fd(x) \in Fds /\ Cardinality({g \in Fds : g <= fd(x)}) = Rank(ls, x)
    OBVIOUS
  <2>2. Rank(ls, x) \in 1..Cardinality(ls)
    BY Ranks
  <2>3. Rank(ls, x) \in Nat /\ Rank(ls, x) >= 1 /\ Rank(ls, x) <= Cardinality(Fds)
    <3>1. Cardinality(ls) \in Nat /\ Cardinality(Fds) \in Nat /\ Cardinality(Fds) >= ListMax + 4
      BY FS_CardinalityType, InternalCount, TimerAssumption DEF Internal
    <3> QED
      BY <2>2, <3>1, TimerAssumption
  <2>4. \E f \in Fds : Cardinality({g \in Fds : g <= f}) = Rank(ls, x)
    BY <2>3, NthDescriptor
  <2> QED
    BY <2>1, <2>4
<1>4. \A x, z \in ls : x.on /\ z.on /\ fd(x) = fd(z) => x = z
  <2> HIDE DEF fd
  <2> QED
    BY <1>3, Ranks
<1>5. \A x \in ls : ~x.on => fd(x) = NoFd
  OBVIOUS
<1>6. NoFd \notin Fds
  BY TimerAssumption
<1>7. \A x \in ls : /\ node(x).id = x.id /\ node(x).interval = x.interval /\ node(x).part = x.part
                    /\ node(x).on = x.on /\ node(x).fd = fd(x) /\ node(x).runs = 0
  OBVIOUS
<1>8. \A n \in ns : \E x \in ls : n = node(x)
  OBVIOUS
<1>9. IsFiniteSet(ns) /\ Cardinality(ns) <= ListMax
  <2>1. h \in Surjection(ls, ns)
    <3> HIDE DEF node
    <3> QED
      BY DEF Surjection
  <2> HIDE DEF h, ns
  <2>2. IsFiniteSet(ns) /\ Cardinality(ns) <= Cardinality(ls)
    BY <2>1, FS_Surjection
  <2>3. Cardinality(ns) \in Nat /\ Cardinality(ls) \in Nat
    BY <2>2, FS_CardinalityType
  <2> QED
    BY <2>2, <2>3, TimerAssumption
<1> HIDE DEF fd
<1>10. \A x \in ls : x.on => cl[fd(x)] = Arm(x.interval, x \in soon)
  <2>1. SUFFICES ASSUME NEW x \in ls, x.on PROVE cl[fd(x)] = Arm(x.interval, x \in soon)
    OBVIOUS
  <2>2. (CHOOSE y \in ls : y.on /\ fd(y) = fd(x)) = x
    BY <1>4, <2>1
  <2> QED
    BY <1>3, <2>1, <2>2
<1>11. cl \in [Fds -> {"off", "once", "often"}]
  BY DEF Arm
<1> HIDE DEF node, ns, cl, C, h
<1>12. Good(C)
  <2>1. Distinct(ns) /\ Above(ns)
    BY <1>7, <1>8 DEF Distinct, Above
  <2> QED
    BY <1>2, <2>1 DEF Good
<1>13. Descriptors(C)
  <2>1. \A n \in ns : n.fd \in Fds \cup {NoFd}
    BY <1>3, <1>5, <1>7, <1>8, ZenonT(60)
  <2>2. \A m, n \in ns : m.fd = n.fd /\ m.fd # NoFd => m = n
    BY <1>4, <1>5, <1>7, <1>8
  <2> QED
    BY <1>2, <1>9, <1>11, <2>1, <2>2 DEF Descriptors
<1>14. OneShots(C)
  <2>1. \A x \in ls : x.interval <= 0 => Arm(x.interval, x \in soon) # "often"
    BY DEF Arm
  <2>2. ASSUME NEW n \in ns
        PROVE  /\ n.interval \in Int /\ n.runs = 0
               /\ n.interval <= 0 => (n.fd # NoFd => cl[n.fd] # "often")
    <3>1. PICK x \in ls : n = node(x)
      BY <1>8
    <3> QED
      BY <1>5, <1>7, <1>10, <2>1, <3>1
  <2> QED
    BY <1>2, <2>2 DEF OneShots
<1>15. Internals(C)
  BY <1>2, <1>7, <1>8 DEF Internals
<1>16. Limited(C)
  <2>1. Users(C.nodes) = ns
    BY <1>2, <1>7, <1>8 DEF Users
  <2> QED
    BY <1>9, <2>1 DEF Limited
<1>17. Sound(C)
  BY <1>12, <1>13, <1>14, <1>15, <1>16 DEF Sound
<1>18. ~Has(C, Crop)
  <2>1. \A x \in ls : x.id # Crop
    BY TimerAssumption DEF Crop, StateSave
  <2> QED
    BY <1>2, <1>7, <1>8, <2>1 DEF Has
<1>19. Crop \in Internal /\ Crop # StateSave
  BY DEF Internal, Crop, StateSave
<1>20. Sound(AddInternal(C, Crop, 1)) /\ Has(AddInternal(C, Crop, 1), Crop)
  BY <1>17, <1>18, <1>19, AddInternalSound
<1> QED
  BY <1>1, <1>20

LEMMA StartSound ==
  ASSUME Sound(List), Start(Lines(nodes))
  PROVE  (Sound(List) /\ Has(List, Crop))'
<1>1. PICK read, soon :
        read \in SUBSET Counted(Lines(nodes)) /\ SetList(Started(Readable(read), soon))
  BY DEF Start
<1> DEFINE ls == Readable(read)
           S  == Started(ls, soon)
<1>2. ls \in SUBSET Lines(nodes)
  BY <1>1 DEF Readable, Counted
<1>3. Distinct(Lines(nodes)) /\ \A x \in Lines(nodes) : x.id \in Nat /\ x.id > FirstId
  BY LinesKeep DEF Sound
<1>4. IsFiniteSet(Lines(nodes)) /\ Cardinality(Lines(nodes)) <= ListMax
      /\ \A x \in Lines(nodes) : x.interval \in Int /\ x.part # NoPart
  BY LinesSound
<1> HIDE DEF ls
<1>5. IsFiniteSet(ls) /\ Cardinality(ls) <= ListMax
  <2>1. IsFiniteSet(ls) /\ Cardinality(ls) <= Cardinality(Lines(nodes))
    BY <1>2, <1>4, FS_Subset
  <2>2. Cardinality(ls) \in Nat /\ Cardinality(Lines(nodes)) \in Nat
    BY <1>4, <2>1, FS_CardinalityType
  <2> QED
    BY <1>4, <2>1, <2>2, TimerAssumption
<1>6. Sound(S) /\ Has(S, Crop)
  <2>1. Distinct(ls)
    BY <1>2, <1>3 DEF Distinct
  <2> QED
    BY <1>2, <1>3, <1>4, <1>5, <2>1, StartedSound
<1>7. List'.nodes = S.nodes /\ List'.clock = S.clock /\ List'.due = S.due
  BY <1>1 DEF SetList, List, ls
<1> HIDE DEF S
<1> QED
  BY <1>6, <1>7 DEF Sound, Good, Descriptors, OneShots, Internals, Limited, Has, Distinct, Above,
                    Users, Open

LEMMA InitSound == TimerInit => SInv
<1> SUFFICES ASSUME TimerInit PROVE SInv
  OBVIOUS
<1> DEFINE f    == Lowest(Fds)
           crop == [id |-> Crop, interval |-> 1, part |-> NoPart, on |-> TRUE, fd |-> f, runs |-> 0]
<1>1. f \in Fds /\ f # NoFd
  <2>1. Cardinality(Fds) >= ListMax + 4 /\ ListMax \in Nat /\ IsFiniteSet(Fds)
    BY InternalCount, TimerAssumption DEF Internal
  <2>2. Cardinality(Fds) # 0 /\ Cardinality(Fds) \in Nat
    BY <2>1, FS_CardinalityType
  <2>3. Fds # {}
    BY <2>2, FS_EmptySet
  <2> QED
    BY <2>3, LowestIsFree, TimerAssumption
<1>2. /\ List.nodes = {crop} /\ List.due = {}
      /\ List.clock = [g \in Fds |-> IF g = f THEN "often" ELSE "off"]
  BY DEF TimerInit, List
<1>3. /\ crop.id = Crop /\ crop.interval = 1 /\ crop.part = NoPart /\ crop.on = TRUE
      /\ crop.fd = f /\ crop.runs = 0
  OBVIOUS
<1>4. Good(List)
  BY InitHolds DEF IInv
<1> HIDE DEF f, crop
<1>5. Descriptors(List)
  <2>1. IsFiniteSet({crop})
    BY FS_Singleton
  <2> QED
    BY <1>1, <1>2, <1>3, <2>1 DEF Descriptors
<1>6. OneShots(List)
  BY <1>2, <1>3 DEF OneShots
<1>7. Internals(List)
  <2>1. Crop \in Internal /\ Crop # StateSave
    BY DEF Internal, Crop, StateSave
  <2> QED
    BY <1>1, <1>2, <1>3, <2>1 DEF Internals
<1>8. Limited(List)
  <2>1. Users(List.nodes) = {}
    BY <1>2, <1>3 DEF Users
  <2>2. Cardinality(Users(List.nodes)) = 0
    BY <2>1, FS_EmptySet
  <2> QED
    BY <2>2, TimerAssumption DEF Limited
<1>9. Has(List, Crop) /\ ~unsaved /\ partList \subseteq Partitions /\ mpdParts \subseteq OtherParts
  BY <1>2, <1>3 DEF Has, TimerInit, Partitions
<1> QED
  BY <1>4, <1>5, <1>6, <1>7, <1>8, <1>9 DEF SInv, Sound

(* Each action keeps it.                                                   *)
LEMMA StepSound == IInv /\ SInv /\ [TimerNext]_tvars => SInv'
<1> SUFFICES ASSUME IInv, SInv, [TimerNext]_tvars PROVE SInv'
  OBVIOUS
<1>0. /\ Sound(List) /\ Has(List, Crop) /\ (unsaved => Has(List, StateSave))
      /\ partList \subseteq Partitions
  BY DEF SInv
<1>d. List.nodes = nodes /\ List.clock = clock /\ List.due = due
  BY DEF List
<1>i. /\ Crop \in Internal /\ StateSave \in Internal /\ Crop # StateSave
      /\ {SmartPls, Caches} \subseteq Internal
      /\ \A i \in Internal : i \in Nat /\ ~(i > FirstId)
  BY TimerAssumption DEF Internal, Crop, SmartPls, Caches, StateSave
<1>n. NoPart \notin Partitions
  BY TimerAssumption DEF Partitions, DefaultPart, NoPart
<1>z. mpdParts' \subseteq OtherParts
  BY DEF SInv, TimerNext, tvars, tlist, FdExpires, Stale, Skip, Run, PollTimers, ConnectParts, Quiet, TimerSave, TimerRm,
         TimerToggle, ReplaceTimer, RemoveSmartPls, PartsEvent, PartsRm, OtherWork,
         MpdPartitions, Restart
<1>a. ASSUME (Sound(List) /\ Has(List, Crop))', unsaved' => Has(List, StateSave)',
             partList' \subseteq Partitions
      PROVE  SInv'
  BY <1>a, <1>z DEF SInv
<1>b. ASSUME NEW L, Sound(L), Has(L, Crop), Idle(L), partList' \subseteq Partitions PROVE SInv'
  BY <1>a, <1>b, IdleSound
<1>c. ASSUME NEW L, Sound(L), Has(L, Crop), nodes' = L.nodes, clock' = L.clock, due' = L.due,
             unsaved' => Has(L, StateSave), partList' \subseteq Partitions
      PROVE  SInv'
  <2>1. List'.nodes = L.nodes /\ List'.clock = L.clock /\ List'.due = L.due
    BY <1>c DEF List
  <2> QED
    BY <1>a, <1>c, <2>1 DEF Sound, Good, Descriptors, OneShots, Internals, Limited, Has, Distinct,
                            Above, Users, Open
<1>1. ASSUME UNCHANGED <<nodes, clock, due>>, unsaved' = unsaved, partList' \subseteq Partitions
      PROVE  SInv'
  BY <1>0, <1>1, <1>c, <1>d
<1>2. ASSUME NEW f \in Fds, FdExpires(f) PROVE SInv'
  <2> DEFINE M == [nodes |-> nodes, due |-> due \cup {f}, repop |-> repopulated, clock |->
                     IF clock[f] = "once" THEN [clock EXCEPT ![f] = "off"] ELSE clock]
  <2>1. f \in Open(nodes) /\ clock[f] # "off"
    BY <1>2 DEF FdExpires
  <2>2. M.nodes = nodes /\ M.due = due \cup {f}
        /\ M.clock = IF clock[f] = "once" THEN [clock EXCEPT ![f] = "off"] ELSE clock
    OBVIOUS
  <2>3. nodes' = M.nodes /\ clock' = M.clock /\ due' = M.due
        /\ unsaved' = unsaved /\ partList' = partList
    BY <1>2 DEF FdExpires
  <2> HIDE DEF M
  <2>4. clock \in [Fds -> {"off", "once", "often"}]
    BY <1>0, <1>d DEF Sound, Descriptors
  <2>5. /\ \A g \in Fds : g # f => M.clock[g] = clock[g]
        /\ M.clock[f] = IF clock[f] = "once" THEN "off" ELSE clock[f]
        /\ M.clock \in [Fds -> {"off", "once", "often"}]
    BY <2>2, <2>4
  <2>6. Descriptors(M)
    BY <1>0, <1>d, <2>1, <2>2, <2>5 DEF Sound, Descriptors
  <2>7. \A n \in nodes : n.fd # NoFd => n.fd \in Fds
    BY <1>0, <1>d DEF Sound, Descriptors
  <2>8. OneShots(M)
    <3>1. SUFFICES ASSUME NEW n \in nodes
                   PROVE  /\ n.interval \in Int /\ n.runs \in Nat
                          /\ n.interval <= 0 =>
                               /\ n.runs <= 1
                               /\ n.fd # NoFd =>
                                    /\ M.clock[n.fd] # "often"
                                    /\ (M.clock[n.fd] = "once" => n.fd \notin M.due)
                                    /\ n.runs = 1 => M.clock[n.fd] = "off" /\ n.fd \notin M.due
      BY <2>2 DEF OneShots
    <3>2. /\ n.interval \in Int /\ n.runs \in Nat
          /\ n.interval <= 0 =>
               /\ n.runs <= 1
               /\ n.fd # NoFd =>
                    /\ clock[n.fd] # "often" /\ (clock[n.fd] = "once" => n.fd \notin due)
                    /\ n.runs = 1 => clock[n.fd] = "off" /\ n.fd \notin due
      BY <1>0, <1>d DEF Sound, OneShots
    <3> QED
      BY <2>1, <2>2, <2>5, <2>7, <3>2
  <2>9. Internals(M)
    BY <1>0, <1>d, <2>2, <2>5, <2>7 DEF Sound, Internals
  <2>10. Good(M) /\ Limited(M) /\ Has(M, Crop) /\ (unsaved => Has(M, StateSave))
    BY <1>0, <1>d, <2>2 DEF Sound, Good, Limited, Has
  <2> QED
    BY <1>0, <1>c, <2>3, <2>6, <2>8, <2>9, <2>10 DEF Sound
<1>3. ASSUME NEW f \in Fds, Stale(f) PROVE SInv'
  BY <1>0, <1>1, <1>3 DEF Stale, tlist
<1>4. ASSUME NEW L, Sound(L), NEW f, \A n \in L.nodes : n.fd = f /\ n.part = NoPart => n.id # StateSave
      PROVE  Sound([nodes |-> L.nodes, clock |-> L.clock, due |-> L.due \ {f}, repop |-> L.repop])
  <2> DEFINE M == [nodes |-> L.nodes, clock |-> L.clock, due |-> L.due \ {f}, repop |-> L.repop]
  <2>1. M.nodes = L.nodes /\ M.clock = L.clock /\ M.due = L.due \ {f}
    OBVIOUS
  <2> HIDE DEF M
  <2>2. Good(M) /\ Limited(M) /\ Descriptors(M)
    BY <1>4, <2>1 DEF Sound, Good, Limited, Descriptors
  <2>3. OneShots(M)
    BY <1>4, <2>1 DEF Sound, OneShots
  <2>4. Internals(M)
    BY <1>4, <2>1 DEF Sound, Internals
  <2> QED
    BY <2>2, <2>3, <2>4 DEF Sound, M
<1>5. ASSUME NEW f \in Fds, Skip(f) PROVE SInv'
  <2>1. PICK n \in nodes : n.fd = f /\ n.part # NoPart
    BY <1>5 DEF Skip, IsUser
  <2>2. NoFd \notin Fds
    BY TimerAssumption
  <2>3. \A m \in List.nodes : m.fd = f /\ m.part = NoPart => m.id # StateSave
    BY <1>0, <1>d, <2>1, <2>2 DEF Sound, Descriptors
  <2> DEFINE M == [nodes |-> List.nodes, clock |-> List.clock, due |-> List.due \ {f}, repop |-> List.repop]
  <2>4. Sound(M)
    BY <1>0, <1>4, <2>3
  <2>5. M.nodes = nodes /\ nodes' = M.nodes /\ clock' = M.clock /\ due' = M.due
        /\ unsaved' = unsaved /\ partList' = partList
    BY <1>5, <1>d DEF Skip
  <2> HIDE DEF M
  <2>6. Has(M, Crop) /\ (unsaved => Has(M, StateSave))
    BY <1>0, <1>d, <2>5 DEF Has
  <2> QED
    BY <1>0, <1>c, <2>4, <2>5, <2>6
<1>6. ASSUME NEW f \in Fds, Run(f) PROVE SInv'
  <2>1. PICK n \in nodes :
          LET on   == n.on /\ ~(IsUser(n) /\ n.interval = 0)
              runs == IF n.interval <= 0 /\ n.runs < 2 THEN n.runs + 1 ELSE n.runs
              L    == IF n.interval < 0 THEN Remove(List, WithId(List, n.id))
                                        ELSE UpdateNode(List, n, on, runs)
          IN  /\ n.fd = f /\ n.on
              /\ SetList([nodes |-> L.nodes, clock |-> L.clock, due |-> L.due \ {f},
                          repop |-> L.repop])
              /\ unsaved' = (unsaved /\ n.id # StateSave)
    BY <1>6 DEF Run
  <2> DEFINE on   == n.on /\ ~(IsUser(n) /\ n.interval = 0)
             runs == IF n.interval <= 0 /\ n.runs < 2 THEN n.runs + 1 ELSE n.runs
             L    == IF n.interval < 0 THEN Remove(List, WithId(List, n.id))
                                       ELSE UpdateNode(List, n, on, runs)
             M    == [nodes |-> L.nodes, clock |-> L.clock, due |-> L.due \ {f}, repop |-> L.repop]
  <2>2. n.fd = f /\ f \in due /\ unsaved' = (unsaved /\ n.id # StateSave) /\ SetList(M)
        /\ partList' = partList
    BY <1>6, <2>1 DEF Run
  <2>3. n \in List.nodes /\ n.on /\ n.fd # NoFd /\ n.interval \in Int /\ n.runs \in Nat
    BY <1>0, <1>d, <2>1, TimerAssumption DEF Sound, OneShots
  <2>4. \A m \in nodes : m.fd = f => m = n
    BY <1>0, <1>d, <2>1, <2>3 DEF Sound, Descriptors
  <2>5. CASE n.interval < 0
    <3> DEFINE K == Remove(List, WithId(List, n.id))
               X == [nodes |-> K.nodes, clock |-> K.clock, due |-> K.due \ {f}, repop |-> K.repop]
    <3>1. Sound(K) /\ K.nodes = nodes \ WithId(List, n.id)
      BY <1>0, <1>d, RemoveSound DEF Remove, Changed
    <3>2. \A m \in K.nodes : m.fd # f
      BY <1>d, <2>3, <2>4, <3>1 DEF WithId
    <3>3. n.id # Crop
      <4>1. n.part = NoPart => (n.id = Crop => n.interval > 0)
        BY <1>0, <2>3 DEF Sound, Internals
      <4>2. n.part # NoPart => n.id \in Nat /\ n.id > FirstId
        BY <1>0, <2>3 DEF Sound, Good, Above
      <4> QED
        BY <1>i, <2>3, <2>5, <4>1, <4>2
    <3>4. Has(K, Crop) /\ (unsaved' => Has(K, StateSave))
      BY <1>0, <1>d, <2>2, <3>1, <3>3 DEF Has, WithId
    <3> HIDE DEF K
    <3>5. Sound(X)
      BY <1>4, <3>1, <3>2
    <3>6. X.nodes = K.nodes
      OBVIOUS
    <3>7. Has(X, Crop) /\ (unsaved' => Has(X, StateSave))
      BY <3>4, <3>6 DEF Has
    <3>8. SetList(X)
      BY <2>2, <2>5 DEF K
    <3>9. nodes' = X.nodes /\ clock' = X.clock /\ due' = X.due
      BY <3>8 DEF SetList
    <3> HIDE DEF X
    <3> QED
      BY <1>0, <1>c, <2>2, <3>5, <3>7, <3>9
  <2>6. CASE ~(n.interval < 0)
    <3> DEFINE K == [nodes |-> List.nodes, clock |-> List.clock, due |-> List.due \ {f}, repop |-> List.repop]
               X == UpdateNode(K, n, on, runs)
    <3>1. K.nodes = nodes /\ K.clock = clock /\ K.due = due \ {f}
      BY <1>d
    <3>2. n.part = NoPart => n.id # StateSave
      BY <1>0, <2>3, <2>6 DEF Sound, Internals
    <3>3. Sound(K)
      BY <1>0, <1>4, <1>d, <2>4, <3>2
    <3>4. n.part = NoPart => on = TRUE
      BY <1>0, <2>3 DEF Sound, Internals, IsUser
    <3>5. n.interval <= 0 => n.runs = 0 /\ clock[f] = "off"
      <4>1. ASSUME n.interval <= 0
            PROVE  /\ n.runs <= 1 /\ clock[f] # "often" /\ (clock[f] = "once" => f \notin due)
                   /\ n.runs = 1 => f \notin due
        BY <1>0, <1>d, <2>1, <2>3, <4>1 DEF Sound, OneShots
      <4>2. clock[f] \in {"off", "once", "often"}
        BY <1>0, <1>d DEF Sound, Descriptors
      <4> QED
        BY <2>2, <2>3, <4>1, <4>2
    <3>6. runs \in Nat /\ (n.interval <= 0 => runs = 1)
      BY <2>3, <3>5
    <3>7. on \in BOOLEAN
      OBVIOUS
    <3> HIDE DEF K, on, runs
    <3>8. Sound(X)
      <4>1. n \in K.nodes
        BY <3>1
      <4>2. n.interval <= 0 =>
              runs <= 1 /\ (n.fd # NoFd /\ runs = 1 => K.clock[n.fd] = "off" /\ n.fd \notin K.due)
        BY <2>2, <3>1, <3>5, <3>6
      <4> QED
        BY <3>3, <3>4, <3>6, <3>7, <4>1, <4>2, UpdateSound
    <3>9. nodes' = X.nodes /\ clock' = X.clock /\ due' = X.due
      <4>1. nodes' = UpdateNode(List, n, on, runs).nodes /\ clock' = UpdateNode(List, n, on, runs).clock
            /\ due' = UpdateNode(List, n, on, runs).due \ {f}
        BY <2>2, <2>6 DEF SetList
      <4> QED
        BY <1>d, <3>1, <4>1 DEF UpdateNode
    <3>10. \A i : Has(List, i) => Has(X, i)
      <4> DEFINE new == [id |-> n.id, interval |-> n.interval, part |-> n.part,
                         on |-> on, fd |-> n.fd, runs |-> runs]
      <4>1. X.nodes = (nodes \ {n}) \cup {new}
        BY <3>1 DEF UpdateNode
      <4>2. new.id = n.id
        OBVIOUS
      <4> HIDE DEF X, new
      <4> QED
        BY <1>d, <4>1, <4>2 DEF Has
    <3> HIDE DEF X
    <3> QED
      BY <1>0, <1>c, <2>2, <3>8, <3>9, <3>10
  <2> QED
    BY <2>5, <2>6
<1>7. ASSUME PollTimers \/ Quiet \/ MpdPartitions PROVE SInv'
  BY <1>0, <1>1, <1>7 DEF PollTimers, Quiet, MpdPartitions, tlist
<1>p. ASSUME NEW L, Sound(L) PROVE Sound(Populated(L)) /\ \A i \in Internal : Has(L, i) => Has(Populated(L), i)
  <2>1. NoPart \notin partList \ ({DefaultPart} \cup mpdParts)
    BY <1>0, <1>n
  <2> QED
    BY <1>p, <2>1, RemovePartitionsSound DEF Populated
<1>8. ASSUME ConnectParts PROVE SInv'
  <2>1. PICK older, periodic \in BOOLEAN :
          LET L == Connected(List, older, periodic)
          IN  (SetList(Populated(L)) /\ Populate) \/ (SetList(L) /\ UNCHANGED <<partList, dirs>>)
    BY <1>8 DEF ConnectParts
  <2> DEFINE L1 == IF older THEN ReplaceInternal(List, Caches) ELSE List
             L == Connected(List, older, periodic)
  <2>2. Sound(L1) /\ \A i \in Internal : Has(List, i) => Has(L1, i)
    BY <1>0, ReplaceInternalSound
  <2> HIDE DEF L1
  <2>3. Sound(L) /\ \A i \in Internal : Has(L1, i) => Has(L, i)
    BY <2>2, ReplaceInternalSound DEF Connected, L1
  <2> HIDE DEF L
  <2>4. Sound(Populated(L)) /\ \A i \in Internal : Has(L, i) => Has(Populated(L), i)
    BY <1>p, <2>3
  <2>5. unsaved' = unsaved /\ (SetList(Populated(L)) \/ SetList(L))
    BY <1>8, <2>1 DEF ConnectParts, L
  <2>6. partList' \subseteq Partitions
    <3>1. mpdParts \subseteq OtherParts
      BY DEF SInv
    <3> QED
      BY <1>0, <2>1, <3>1 DEF Populate, Partitions
  <2> QED
    BY <1>0, <1>c, <1>i, <2>2, <2>3, <2>4, <2>5, <2>6 DEF SetList
<1>9. ASSUME TimerSave PROVE SInv'
  <2>1. PICK id \in {0} \cup known, interval \in Intervals, part \in partList,
             on \in BOOLEAN, soon \in BOOLEAN, created \in BOOLEAN :
          LET timerid == IF id = 0 THEN last_id + 1 ELSE id
              L == Replace(List, timerid, interval, part, on, soon, created)
          IN  Idle(List) \/ (~TooMany /\ Idle(L))
    BY <1>9 DEF TimerSave
  <2> DEFINE timerid == IF id = 0 THEN last_id + 1 ELSE id
             L == Replace(List, timerid, interval, part, on, soon, created)
  <2>2. timerid \in Nat /\ timerid > FirstId /\ interval \in Int /\ part # NoPart
    BY <1>0, <1>n, TimerAssumption DEF IInv, Intervals
  <2>3. partList' \subseteq Partitions
    BY <1>0, <1>9 DEF TimerSave
  <2>4. ~TooMany => Cardinality(Users(nodes)) < ListMax
    <3>1. PICK c \in nodes : c.id = Crop
      BY <1>0, <1>d DEF Has
    <3>2. c \notin Users(nodes)
      BY <1>0, <1>d, <1>i, <3>1 DEF Sound, Good, Above, Users
    <3>3. IsFiniteSet(nodes)
      BY <1>0, <1>d DEF Sound, Descriptors
    <3>4. Users(nodes) \in SUBSET nodes /\ Users(nodes) # nodes
      BY <3>1, <3>2 DEF Users
    <3>5. IsFiniteSet(Users(nodes)) /\ Cardinality(Users(nodes)) <= Cardinality(nodes)
          /\ Cardinality(Users(nodes)) # Cardinality(nodes)
      BY <3>3, <3>4, FS_Subset
    <3>6. Cardinality(Users(nodes)) \in Nat /\ Cardinality(nodes) \in Nat
      BY <3>3, <3>5, FS_CardinalityType
    <3> QED
      BY <3>5, <3>6, TimerAssumption DEF TooMany
  <2> HIDE DEF timerid
  <2>5. ~TooMany => Sound(L) /\ Has(L, Crop)
    BY <1>0, <1>d, <2>2, <2>4, ReplaceSound
  <2>6. Idle(List) \/ (~TooMany /\ Idle(L))
    BY <2>1 DEF timerid
  <2> HIDE DEF L
  <2> QED
    BY <1>0, <1>b, <2>3, <2>5, <2>6
<1>10. ASSUME TimerRm PROVE SInv'
  <2>1. PICK id \in FirstId + 1 .. MaxId : Idle(Remove(List, Listed(id)))
    BY <1>10 DEF TimerRm
  <2> DEFINE L == Remove(List, Listed(id))
  <2>2. Sound(L) /\ L.nodes = nodes \ Listed(id)
    BY <1>0, <1>d, RemoveSound DEF Remove, Changed
  <2>3. id # Crop
    BY <1>i, TimerAssumption
  <2>4. Has(L, Crop)
    BY <1>0, <1>d, <2>2, <2>3 DEF Has, Listed
  <2> HIDE DEF L
  <2> QED
    BY <1>0, <1>b, <1>10, <2>1, <2>2, <2>4 DEF TimerRm, L
<1>11. ASSUME TimerToggle PROVE SInv'
  <2>1. PICK n \in nodes : IsUser(n) /\ Idle(UpdateNode(List, n, ~n.on, n.runs))
    BY <1>11 DEF TimerToggle
  <2> DEFINE L == UpdateNode(List, n, ~n.on, n.runs)
  <2>2. Sound(L)
    <3>1. n \in List.nodes /\ n.runs \in Nat /\ n.part # NoPart /\ (~n.on) \in BOOLEAN
      BY <1>0, <1>d, <2>1 DEF Sound, OneShots, IsUser
    <3>2. n.interval <= 0 =>
            n.runs <= 1 /\ (n.fd # NoFd /\ n.runs = 1 => List.clock[n.fd] = "off" /\ n.fd \notin List.due)
      BY <1>0, <3>1 DEF Sound, OneShots
    <3> QED
      BY <1>0, <3>1, <3>2, UpdateSound
  <2>3. Has(L, Crop)
    <3>1. L.nodes = (nodes \ {n}) \cup {[id |-> n.id, interval |-> n.interval, part |-> n.part,
                                         on |-> ~n.on, fd |-> n.fd, runs |-> n.runs]}
      BY <1>d DEF UpdateNode
    <3> HIDE DEF L
    <3> QED
      BY <1>0, <1>d, <3>1, ZenonT(60) DEF Has
  <2> HIDE DEF L
  <2> QED
    BY <1>0, <1>b, <1>11, <2>1, <2>2, <2>3 DEF TimerToggle, L
<1>12. ASSUME ReplaceTimer PROVE SInv'
  <2>1. PICK id \in Replaced : Idle(ReplaceInternal(List, id))
    BY <1>12 DEF ReplaceTimer
  <2>2. id \in {SmartPls, Caches}
    BY TimerAssumption
  <2>3. Sound(ReplaceInternal(List, id)) /\ Has(ReplaceInternal(List, id), Crop)
    BY <1>0, <1>i, <2>2, ReplaceInternalSound
  <2> QED
    BY <1>0, <1>b, <1>12, <2>1, <2>3 DEF ReplaceTimer
<1>13. ASSUME RemoveSmartPls PROVE SInv'
  <2> DEFINE L == Remove(List, Listed(SmartPls))
  <2>1. Sound(L) /\ L.nodes = nodes \ Listed(SmartPls)
    BY <1>0, <1>d, RemoveSound DEF Remove, Changed
  <2>2. Has(L, Crop)
    BY <1>0, <1>d, <2>1 DEF Has, Listed, Crop, SmartPls
  <2> HIDE DEF L
  <2> QED
    BY <1>0, <1>b, <1>13, <2>1, <2>2 DEF RemoveSmartPls, L
<1>14. ASSUME PartsEvent PROVE SInv'
  <2>1. Sound(Populated(List)) /\ Has(Populated(List), Crop)
    BY <1>0, <1>i, <1>p
  <2>2. partList' \subseteq Partitions
    BY <1>14 DEF PartsEvent, Populate, Partitions, SInv
  <2> QED
    BY <1>b, <1>14, <2>1, <2>2 DEF PartsEvent
<1>15. ASSUME PartsRm \/ OtherWork PROVE SInv'
  <2>1. Idle(List) /\ partList' = partList
    BY <1>15 DEF PartsRm, OtherWork
  <2> QED
    BY <1>0, <1>b, <2>1
<1>16. ASSUME Restart PROVE SInv'
  <2>1. Start(Lines(nodes)) /\ ~unsaved' /\ partList' \subseteq Partitions
    BY <1>16 DEF Restart, Partitions
  <2> QED
    BY <1>0, <1>a, <2>1, StartSound
<1>17. ASSUME UNCHANGED tvars PROVE SInv'
  BY <1>0, <1>1, <1>17 DEF tvars, tlist
<1> QED
  BY <1>2, <1>3, <1>5, <1>6, <1>7, <1>8, <1>9, <1>10, <1>11, <1>12, <1>13, <1>14, <1>15, <1>16, <1>17
     DEF TimerNext

LEMMA SoundAlways == TimerSpec => []SInv
  BY InitSound, StepSound, Inductive, PTL DEF TimerSpec

(* A one shot timer runs once until it is saved again, for any timers: its *)
(* clock runs out once, and after the run it is off (timer.c:93).          *)
THEOREM OneShotOnceHolds == TimerSpec => []OneShotOnce
<1>1. SInv => OneShotOnce
  BY DEF SInv, Sound, OneShots, List, OneShotOnce
<1> QED
  BY <1>1, SoundAlways, PTL

(* A change of a client that is not saved has its timer on the way         *)
(* (mympd_api.c:146), if a descriptor may be had for each timer.           *)
THEOREM ChangesScheduledHolds == TimerSpec => []ChangesScheduled
<1>1. SInv => ChangesScheduled
  <2>1. SUFFICES ASSUME SInv, unsaved
                 PROVE  \E n \in Listed(StateSave) : clock[n.fd] = "once" \/ n.fd \in due
    BY DEF ChangesScheduled
  <2>2. PICK n \in nodes : n.id = StateSave
    BY <2>1 DEF SInv, Has, List
  <2>3. n.part = NoPart
    <3>1. n.part # NoPart => n.id > FirstId
      BY <2>1, <2>2 DEF SInv, Sound, Good, Above, List
    <3> QED
      BY <2>2, <3>1, TimerAssumption DEF StateSave
  <2>4. clock[n.fd] = "once" \/ n.fd \in due
    BY <2>1, <2>2, <2>3 DEF SInv, Sound, Internals, List
  <2> QED
    BY <2>2, <2>4 DEF Listed
<1> QED
  BY <1>1, SoundAlways, PTL

(* The timers of a partition fit the array of ids, as the limit is tested  *)
(* on a list that always has an internal timer too (timer.c:166, 324).     *)
THEOREM FitsArrayHolds == TimerSpec => []FitsArray
<1>1. SInv => FitsArray
  <2>1. SUFFICES ASSUME SInv, NEW p \in Partitions
                 PROVE  Cardinality({n \in nodes : n.part = p}) <= ListMax
    BY DEF FitsArray
  <2> DEFINE S == {n \in nodes : n.part = p}
             U == Users(nodes)
  <2>2. IsFiniteSet(U) /\ Cardinality(U) <= ListMax
    <3>1. IsFiniteSet(nodes) /\ Cardinality(U) <= ListMax
      BY <2>1 DEF SInv, Sound, Descriptors, Limited, List
    <3> QED
      BY <3>1, FS_Subset DEF Users
  <2>3. S \in SUBSET U
    BY TimerAssumption DEF Users, Partitions, DefaultPart, NoPart
  <2> HIDE DEF S, U
  <2>4. IsFiniteSet(S) /\ Cardinality(S) <= Cardinality(U)
    BY <2>2, <2>3, FS_Subset
  <2>5. Cardinality(S) \in Nat /\ Cardinality(U) \in Nat
    BY <2>2, <2>4, FS_CardinalityType
  <2>6. Cardinality(S) <= ListMax
    BY <2>2, <2>4, <2>5, TimerAssumption
  <2> QED
    BY <2>6 DEF S
<1> QED
  BY <1>1, SoundAlways, PTL
==============================================================================
