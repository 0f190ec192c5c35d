------------------------------ MODULE QueueList ------------------------------
(***************************************************************************)
(* The singly linked list inside struct t_mympd_queue: head, tail, length  *)
(* and the next pointers, as mympd_queue_push, mympd_queue_shift and       *)
(* mympd_queue_expire_age relink them.  A node is named by its ticket, so  *)
(* that the list can be compared with Channel, which it implements.  The   *)
(* mutex is held throughout each function: push and shift are one step,    *)
(* the loop of the expiry is one step per iteration with the mutex held.   *)
(***************************************************************************)
EXTENDS Naturals, FiniteSets

CONSTANTS
  MaxMsgs,   \* bound on the number of pushes
  Ids,       \* the ids an entry may carry, 0 among them
  MaxTime    \* bound on the wall-clock stamps

ASSUME ListAssumption == {MaxMsgs, MaxTime} \subseteq Nat /\ Ids \subseteq Nat /\ 0 \in Ids

NoNode == 0
Node == 1..MaxMsgs

VARIABLES
  head, tail, length, next,   \* the list
  stamp,                      \* node -> time(NULL) of the push
  sent, idOf, fate,           \* what Channel sees of a node
  locked,                     \* is mympd_queue_expire_age inside its loop?
  limit,                      \* its expire_time; MaxTime + 1 stands for max_age_s = 0
  current, previous           \* its loop variables

listVars   == <<head, tail, length, next>>
cursorVars == <<locked, limit, current, previous>>
queueListVars       == <<listVars, stamp, sent, idOf, fate, cursorVars>>

\* what the list implements: a node is its ticket
Abstract == INSTANCE Channel WITH MaxMsgs <- MaxMsgs, Ids <- Ids,
                                  sent <- sent, idOf <- idOf, fate <- fate

ListTypeOK ==
  /\ {head, tail, current, previous} \subseteq Node \cup {NoNode}
  /\ length \in 0..MaxMsgs
  /\ next \in [Node -> Node \cup {NoNode}]
  /\ stamp \in [Node -> 0..MaxTime]
  /\ locked \in BOOLEAN /\ limit \in 0..MaxTime + 1
  /\ Abstract!ChannelTypeOK

\* the k-th node after head, NoNode (NULL) behind the last one
At[k \in 0..MaxMsgs] ==
  IF k = 0 THEN head ELSE IF At[k - 1] = NoNode THEN NoNode ELSE next[At[k - 1]]

Chain == {At[k] : k \in 0..MaxMsgs} \ {NoNode}

QueueListInit ==
  /\ head = NoNode /\ tail = NoNode /\ length = 0
  /\ next = [n \in Node |-> NoNode]
  /\ stamp = [n \in Node |-> 0]
  /\ Abstract!ChannelInit
  /\ locked = FALSE /\ limit = 0 /\ current = NoNode /\ previous = NoNode

Push(id, time) ==
  /\ ~locked /\ sent < MaxMsgs
  /\ LET node == sent + 1 IN
       /\ sent' = node
       /\ idOf' = [idOf EXCEPT ![node] = id]
       /\ stamp' = [stamp EXCEPT ![node] = time]
       /\ fate' = [fate EXCEPT ![node] = "queued"]
       /\ length' = length + 1
       /\ tail' = node
       /\ IF head = NoNode /\ tail = NoNode
          THEN head' = node /\ UNCHANGED next
          ELSE next' = [next EXCEPT ![tail] = node] /\ UNCHANGED head
  /\ UNCHANGED cursorVars

\* unlinks n, whose predecessor is p
\* mutant: tail stays at the removed node
UnlinkKeepTail(n, p) ==
  /\ head' = IF p = NoNode THEN next[n] ELSE head
  /\ next' = [m \in Node |-> IF m = n THEN NoNode ELSE IF m = p THEN next[n] ELSE next[m]]
  /\ length' = length - 1
  /\ UNCHANGED tail

Unlink(n, p) ==
  /\ head' = IF p = NoNode THEN next[n] ELSE head
  /\ next' = [m \in Node |-> IF m = n THEN NoNode ELSE IF m = p THEN next[n] ELSE next[m]]
  /\ tail' = IF tail = n THEN p ELSE tail
  /\ length' = length - 1

\* check_for_queue_id: decides by length for id 0, by a scan for other ids
\* mutant: only the head is looked at
HasEntryByHead(id) == head # NoNode /\ (id = 0 \/ idOf[head] = id)
HasEntry(id) == length # 0 /\ (id = 0 \/ \E n \in Chain : idOf[n] = id)

\* mutant: the last match is taken
ShiftLast(id) ==
  /\ ~locked
  /\ \E k \in 0..MaxMsgs :
       /\ At[k] # NoNode
       /\ id = 0 \/ idOf[At[k]] = id
       /\ \A j \in k + 1..MaxMsgs : At[j] # NoNode => id # 0 /\ idOf[At[j]] # id
       /\ Unlink(At[k], IF k = 0 THEN NoNode ELSE At[k - 1])
       /\ fate' = [fate EXCEPT ![At[k]] = "taken"]
  /\ UNCHANGED <<stamp, sent, idOf, cursorVars>>

\* the scan of mympd_queue_shift stops at the first node with the id
Shift(id) ==
  /\ ~locked
  /\ \E k \in 0..MaxMsgs :
       /\ At[k] # NoNode
       /\ id = 0 \/ idOf[At[k]] = id
       /\ \A j \in 0..MaxMsgs : j < k => id # 0 /\ idOf[At[j]] # id
       /\ Unlink(At[k], IF k = 0 THEN NoNode ELSE At[k - 1])
       /\ fate' = [fate EXCEPT ![At[k]] = "taken"]
  /\ UNCHANGED <<stamp, sent, idOf, cursorVars>>

ExpireStart(expire_time) ==
  /\ ~locked /\ head # NoNode
  /\ locked' = TRUE /\ limit' = expire_time
  /\ current' = head /\ previous' = NoNode
  /\ UNCHANGED <<listVars, stamp, sent, idOf, fate>>

TooOld(n) == limit > MaxTime \/ stamp[n] < limit

\* after a removal the loop goes on at the new head or at the predecessor
\* mutant: the node after a removed one is skipped
ExpireRemoveSkip ==
  /\ locked /\ current # NoNode /\ TooOld(current)
  /\ Unlink(current, previous)
  /\ fate' = [fate EXCEPT ![current] = "expired"]
  /\ previous' = next[current]
  /\ current' = IF next[current] = NoNode THEN NoNode ELSE next[next[current]]
  /\ UNCHANGED <<stamp, sent, idOf, locked, limit>>

ExpireRemove ==
  /\ locked /\ current # NoNode /\ TooOld(current)
  /\ Unlink(current, previous)
  /\ fate' = [fate EXCEPT ![current] = "expired"]
  /\ current' = IF previous = NoNode THEN next[current] ELSE previous
  /\ UNCHANGED <<stamp, sent, idOf, locked, limit, previous>>

\* mutant: the loop does not pass the node it stepped back to
ExpireKeepStuck ==
  /\ locked /\ current # NoNode /\ ~TooOld(current)
  /\ previous' = current /\ current' = IF current = previous THEN current ELSE next[current]
  /\ UNCHANGED <<listVars, stamp, sent, idOf, fate, locked, limit>>

ExpireKeep ==
  /\ locked /\ current # NoNode /\ ~TooOld(current)
  /\ previous' = current /\ current' = next[current]
  /\ UNCHANGED <<listVars, stamp, sent, idOf, fate, locked, limit>>

ExpireEnd ==
  /\ locked /\ current = NoNode
  /\ locked' = FALSE /\ limit' = 0 /\ previous' = NoNode
  /\ UNCHANGED <<listVars, stamp, sent, idOf, fate, current>>

\* the function goes on until it has met every entry
ExpiryStep == ExpireRemove \/ ExpireKeep \/ ExpireEnd

QueueListNext ==
  \/ \E id \in Ids, time \in 0..MaxTime : Push(id, time)
  \/ \E id \in Ids : Shift(id)
  \/ \E expire_time \in 0..MaxTime + 1 : ExpireStart(expire_time)
  \/ ExpiryStep

QueueListSpec == QueueListInit /\ [][QueueListNext]_queueListVars

-----------------------------------------------------------------------------
(* The list is whole: following next from head meets exactly the queued    *)
(* nodes, tail is the last of them, length their number.  No node leaks    *)
(* and no removed node stays reachable, in the middle of an expiry too.    *)
ListOK ==
  /\ Chain = Abstract!Queued
  /\ length = Cardinality(Chain)
  /\ head = NoNode <=> tail = NoNode
  /\ tail # NoNode => tail \in Chain /\ next[tail] = NoNode

(* check_for_queue_id, which trusts the length counter, says yes exactly   *)
(* when the scan of mympd_queue_shift would find an entry.                 *)
CheckMatchesScan == \A id \in Ids : HasEntry(id) <=> Abstract!HasId(id)

(* Every push, shift and expiry of the list is one of the channel: oldest  *)
(* matching entry first, nothing lost, doubled or reordered.               *)
RefinesChannel == Abstract!ChannelSpec

(* An expiry that ends has dropped every entry older than its limit, also  *)
(* the ones behind a younger entry.                                        *)
ExpiryComplete ==
  [][ExpireEnd => \A n \in Chain : ~TooOld(n)]_queueListVars

(* The loop of the expiry ends although it steps back to the predecessor   *)
(* after each removal in the middle of the list.                           *)
ExpiryTerminates == locked ~> ~locked

(* The list is sound in all its pointers and counters, and the test that   *)
(* trusts one of them agrees with the scan of the list.                    *)
ListSound == ListTypeOK /\ ListOK /\ CheckMatchesScan

(* An expiry sweeps the whole list, and ends.                              *)
ExpirySweeps == ExpiryComplete /\ ExpiryTerminates
=============================================================================
