------------------------------- MODULE Channel -------------------------------
(***************************************************************************)
(* What a myMPD message queue promises, without threads and without its    *)
(* linked list.  Every push gets the next ticket 1, 2, 3, ...; a shift     *)
(* with id 0 takes the oldest queued entry, a shift with another id the    *)
(* oldest queued entry that carries that id; an expiry drops entries.      *)
(* QueueList (the linked list of lib/msg_queue.c) implements this          *)
(* specification and MsgQueue adds the threads that use it.                *)
(***************************************************************************)
EXTENDS Naturals, FiniteSets

CONSTANTS
  MaxMsgs,   \* bound on the number of pushes
  Ids        \* the ids an entry may carry, 0 among them

ASSUME ChannelAssumption == MaxMsgs \in Nat /\ Ids \subseteq Nat /\ 0 \in Ids

VARIABLES
  sent,      \* number of entries pushed so far
  idOf,      \* ticket -> id given to mympd_queue_push
  fate       \* ticket -> where the entry is

chanVars == <<sent, idOf, fate>>

Ticket == 1..MaxMsgs
Fate   == {"unsent", "queued", "taken", "expired"}
Queued == {m \in Ticket : fate[m] = "queued"}

ChannelTypeOK ==
  /\ sent \in 0..MaxMsgs
  /\ idOf \in [Ticket -> Ids]
  /\ fate \in [Ticket -> Fate]

Matches(m, id) == id = 0 \/ idOf[m] = id
HasId(id)      == \E m \in Queued : Matches(m, id)
IsFirst(m, id) == /\ m \in Queued /\ Matches(m, id)
                  /\ \A n \in Queued : Matches(n, id) => m <= n

ChannelInit ==
  /\ sent = 0
  /\ idOf = [m \in Ticket |-> 0]
  /\ fate = [m \in Ticket |-> "unsent"]

Enqueue(id) ==
  /\ sent < MaxMsgs
  /\ sent' = sent + 1
  /\ idOf' = [idOf EXCEPT ![sent + 1] = id]
  /\ fate' = [fate EXCEPT ![sent + 1] = "queued"]

Dequeue(m, id) ==
  /\ IsFirst(m, id)
  /\ fate' = [fate EXCEPT ![m] = "taken"]
  /\ UNCHANGED <<sent, idOf>>

Drop(S) ==
  /\ fate' = [m \in Ticket |-> IF m \in S THEN "expired" ELSE fate[m]]
  /\ UNCHANGED <<sent, idOf>>

ChannelNext ==
  \/ \E id \in Ids : Enqueue(id)
  \/ \E id \in Ids, m \in Ticket : Dequeue(m, id)
  \/ \E S \in SUBSET Queued : Drop(S)

ChannelSpec == ChannelInit /\ [][ChannelNext]_chanVars
=============================================================================
