------------------------------ MODULE ApiProofs -------------------------------
(***************************************************************************)
(* The way of a request to the api thread and its round there: the linked  *)
(* list of a queue implements Channel and is sound, for any number of      *)
(* entries, ids and times; the calls of scripts, which wait on such a      *)
(* queue, are prompt, for any threads, calls and timeouts; and the loop of *)
(* the api thread keeps NoFreedEntry, AnsweredOnce and Attended, for any   *)
(* partitions, requests and number of idle events.                         *)
(***************************************************************************)
EXTENDS QueueList, ScriptCall, MympdApi, FiniteSetTheorems, WellFoundedInduction, TLAPS

-----------------------------------------------------------------------------
(* The queues and the calls of scripts.                                    *)

Queued == Abstract!Queued

\* The inductive invariant.  The pointers are described by the order of the
\* tickets: next leads to the next younger queued node.
Chained ==
  /\ \A n \in Queued : n <= sent
  /\ head = NoNode \/ tail = NoNode => head = tail /\ Queued = {}
  /\ head # NoNode => head \in Queued /\ \A n \in Queued : head <= n
  /\ tail # NoNode => tail \in Queued /\ \A n \in Queued : n <= tail
  /\ \A n \in Queued :
       IF next[n] = NoNode THEN n = tail
       ELSE next[n] \in Queued /\ n < next[n] /\ \A m \in Queued : m <= n \/ next[n] <= m
  /\ \A n \in Node \ Queued : next[n] = NoNode
  /\ length = Cardinality(Queued)

\* The loop of the expiry has passed no node it has to remove; the node before
\* the one it looks at is known, unless it has just stepped back to it.
Cursor ==
  /\ current # NoNode => current \in Queued
  /\ previous # NoNode =>
       previous \in Queued /\ ~TooOld(previous) /\ current \in {previous, next[previous]}
  /\ locked /\ previous = NoNode => current = head
  /\ ~locked => current = NoNode /\ previous = NoNode
  /\ locked => \A n \in Queued : current = NoNode \/ n < current => ~TooOld(n)

ListInv == ListTypeOK /\ Chained /\ Cursor

-----------------------------------------------------------------------------
(* At, the walk from head along next.                                      *)

(* Every nonempty set of numbers has a least one. *)
LEMMA Least ==
  ASSUME NEW T \in SUBSET Nat, T # {}
  PROVE  \E x \in T : \A y \in T : x <= y
<1>1. PICK x \in T : \A y \in T : ~(<<y, x>> \in OpToRel(<, Nat))
  BY NatLessThanWellFounded, WFMin
<1>2. \A y \in T : ~(y < x)
  BY <1>1 DEF OpToRel
<1>3. QED
  BY <1>2

(* The walk has as many steps as one likes. *)
LEMMA Walk ==
  ASSUME ListTypeOK, NEW K \in Nat
  PROVE  \E f \in [0..K -> Node \cup {NoNode}] :
           /\ f[0] = head
           /\ \A k \in 1..K : f[k] = IF f[k - 1] = NoNode THEN NoNode ELSE next[f[k - 1]]
<1> DEFINE Is(f, k) ==
             /\ f[0] = head
             /\ \A i \in 1..k : f[i] = IF f[i - 1] = NoNode THEN NoNode ELSE next[f[i - 1]]
           T == {k \in Nat : ~ \E f \in [0..k -> Node \cup {NoNode}] : Is(f, k)}
<1>1. SUFFICES ASSUME T # {} PROVE FALSE
  OBVIOUS
<1>2. PICK k \in T : \A j \in T : k <= j
  BY <1>1, Least
<1>3. k # 0
  <2>1. Is([i \in 0..0 |-> head], 0)
    OBVIOUS
  <2>2. [i \in 0..0 |-> head] \in [0..0 -> Node \cup {NoNode}]
    BY DEF ListTypeOK
  <2>3. QED
    BY <2>1, <2>2
<1>4. PICK f \in [0..k - 1 -> Node \cup {NoNode}] : Is(f, k - 1)
  <2> HIDE DEF Is
  <2>1. k - 1 \in Nat /\ ~(k <= k - 1)
    BY <1>2, <1>3
  <2>2. k - 1 \notin T
    BY <1>2, <2>1
  <2>3. QED
    BY <2>1, <2>2
<1> DEFINE last == IF f[k - 1] = NoNode THEN NoNode ELSE next[f[k - 1]]
           g    == [i \in 0..k |-> IF i = k THEN last ELSE f[i]]
<1>5. f[k - 1] \in Node \cup {NoNode} /\ last \in Node \cup {NoNode}
  BY <1>3, <1>4 DEF ListTypeOK
<1>6. g \in [0..k -> Node \cup {NoNode}]
  BY <1>3, <1>5
<1>7. Is(g, k)
  BY <1>3, <1>4
<1>8. QED
  BY <1>2, <1>6, <1>7

(* So At is what its definition says. *)
LEMMA AtSteps ==
  ASSUME ListTypeOK
  PROVE  /\ At \in [0..MaxMsgs -> Node \cup {NoNode}]
         /\ At[0] = head
         /\ \A k \in 1..MaxMsgs : At[k] = IF At[k - 1] = NoNode THEN NoNode ELSE next[At[k - 1]]
<1> DEFINE Body(f) == [k \in 0..MaxMsgs |-> IF k = 0 THEN head ELSE
                         IF f[k - 1] = NoNode THEN NoNode ELSE next[f[k - 1]]]
<1>1. MaxMsgs \in Nat
  BY ListAssumption
<1>2. PICK f \in [0..MaxMsgs -> Node \cup {NoNode}] :
           /\ f[0] = head
           /\ \A k \in 1..MaxMsgs : f[k] = IF f[k - 1] = NoNode THEN NoNode ELSE next[f[k - 1]]
  BY <1>1, Walk
<1>3. f = Body(f)
  BY <1>1, <1>2
<1>4. At = CHOOSE g : g = Body(g)
  BY DEF At
<1> HIDE DEF Body
<1>5. At = Body(At)
  BY <1>3, <1>4
<1>6. DOMAIN At = 0..MaxMsgs /\ \A k \in 0..MaxMsgs : At[k] =
        IF k = 0 THEN head ELSE IF At[k - 1] = NoNode THEN NoNode ELSE next[At[k - 1]]
  BY <1>5, Zenon DEF Body
<1> DEFINE Bad == {k \in 0..MaxMsgs : At[k] \notin Node \cup {NoNode}}
<1>7. ASSUME Bad # {} PROVE FALSE
  <2>0. Bad \in SUBSET Nat
    BY <1>1
  <2>1. PICK k \in Bad : \A j \in Bad : k <= j
    <3> HIDE DEF Bad
    <3>1. QED
      BY <1>7, <2>0, Least
  <2>2. k # 0
    <3>1. At[0] = head
      BY <1>1, <1>6
    <3>2. head \in Node \cup {NoNode}
      BY DEF ListTypeOK
    <3>3. QED
      BY <2>1, <3>1, <3>2
  <2>3. At[k - 1] \in Node \cup {NoNode}
    BY <1>1, <2>1, <2>2
  <2>4. k \in 0..MaxMsgs /\ At[k] = IF At[k - 1] = NoNode THEN NoNode ELSE next[At[k - 1]]
    BY <1>6, <2>1, <2>2
  <2>5. QED
    BY <2>1, <2>3, <2>4 DEF ListTypeOK
<1>8. At \in [0..MaxMsgs -> Node \cup {NoNode}]
  <2>1. \A k \in 0..MaxMsgs : At[k] \in Node \cup {NoNode}
    BY <1>7
  <2>2. At = [k \in 0..MaxMsgs |-> At[k]]
    BY <1>5, Zenon DEF Body
  <2> HIDE DEF At
  <2>3. QED
    BY <2>1, <2>2, Zenon
<1>9. QED
  BY <1>1, <1>6, <1>8

(* The walk meets queued nodes only, each older than the next one: the      *)
(* k-th has at least k before it.                                          *)
LEMMA AtQueued ==
  ASSUME ListTypeOK, Chained
  PROVE  \A k \in 0..MaxMsgs : At[k] # NoNode => At[k] \in Queued /\ k < At[k]
<1> DEFINE Bad == {k \in 0..MaxMsgs : At[k] # NoNode /\ ~(At[k] \in Queued /\ k < At[k])}
<1>1. MaxMsgs \in Nat /\ Bad \in SUBSET Nat /\ Queued \subseteq Node /\ Node \subseteq Nat \ {0}
  BY ListAssumption DEF Queued, Abstract!Queued, Abstract!Ticket, Node
<1>2. SUFFICES ASSUME Bad # {} PROVE FALSE
  OBVIOUS
<1>3. PICK k \in Bad : \A j \in Bad : k <= j
  <2> HIDE DEF Bad
  <2>1. QED
    BY <1>1, <1>2, Least
<1>4. k # 0
  <2>1. At[0] # NoNode => At[0] \in Queued /\ At[0] \in Nat \ {0}
    BY <1>1, AtSteps DEF Chained
  <2>2. QED
    BY <1>1, <1>3, <2>1
<1>5. At[k - 1] # NoNode /\ next[At[k - 1]] = At[k]
  BY <1>1, <1>3, <1>4, AtSteps
<1>6. At[k - 1] \in Queued /\ k - 1 < At[k - 1]
  <2>1. k - 1 \in 0..MaxMsgs /\ ~(k <= k - 1)
    BY <1>1, <1>3, <1>4
  <2>2. QED
    BY <1>3, <1>5, <2>1
<1>7. At[k] \in Queued /\ At[k - 1] < At[k]
  BY <1>3, <1>5, <1>6 DEF Chained
<1>8. k \in Nat /\ At[k] \in Nat /\ At[k - 1] \in Nat
  BY <1>1, <1>3, <1>6, <1>7
<1>9. k < At[k]
  BY <1>6, <1>7, <1>8
<1>10. QED
  BY <1>3, <1>7, <1>9

(* It leaves out no queued node.                                           *)
LEMMA AtMeetsAll ==
  ASSUME ListTypeOK, Chained, NEW n \in Queued, NEW k \in 0..MaxMsgs,
         At[k] # NoNode, n < At[k]
  PROVE  \E j \in 0..MaxMsgs : j < k /\ At[j] = n
<1> DEFINE Past == {j \in 0..MaxMsgs : At[j] # NoNode /\ n < At[j]}
<1>1. MaxMsgs \in Nat /\ Past \in SUBSET Nat /\ Queued \subseteq Node /\ Node \subseteq Nat \ {0}
  BY ListAssumption DEF Queued, Abstract!Queued, Abstract!Ticket, Node
<1>2. PICK j \in Past : \A i \in Past : j <= i
  <2>1. k \in Past
    OBVIOUS
  <2> HIDE DEF Past
  <2>2. QED
    BY <1>1, <2>1, Least
<1>3. n \in Nat /\ j \in Nat /\ k \in Nat /\ At[j] \in Nat
  BY <1>1, <1>2, AtQueued
<1>4. j # 0
  <2>1. head # NoNode => head <= n
    BY DEF Chained
  <2>2. At[0] = head
    BY AtSteps
  <2>3. QED
    BY <1>2, <1>3, <2>1, <2>2
<1>5. At[j - 1] # NoNode /\ next[At[j - 1]] = At[j]
  BY <1>1, <1>2, <1>4, AtSteps
<1>6. j - 1 \in 0..MaxMsgs /\ At[j - 1] \in Queued /\ At[j - 1] \in Nat
  <2>1. j - 1 \in 0..MaxMsgs
    BY <1>1, <1>2, <1>4
  <2>2. At[j - 1] \in Queued
    BY <1>5, <2>1, AtQueued
  <2>3. QED
    BY <1>1, <2>1, <2>2
<1>7. ~(n < At[j - 1])
  <2>1. ~(j <= j - 1)
    BY <1>3
  <2>2. j - 1 \notin Past
    BY <1>2, <2>1
  <2>3. QED
    BY <1>5, <1>6, <2>2
<1>8. n <= At[j - 1] \/ At[j] <= n
  BY <1>2, <1>5, <1>6 DEF Chained
<1>9. n = At[j - 1]
  <2>1. n < At[j]
    BY <1>2
  <2>2. QED
    BY <1>3, <1>6, <1>7, <1>8, <2>1
<1>10. j - 1 < k
  <2>1. j <= k
    BY <1>2
  <2>2. QED
    BY <1>3, <2>1
<1>11. QED
  BY <1>6, <1>9, <1>10

(* The nodes that following next from head meets are the queued ones.      *)
LEMMA ChainIsQueued == ASSUME ListTypeOK, Chained PROVE Chain = Queued
<1>1. MaxMsgs \in Nat /\ Queued \subseteq Node /\ Node \subseteq Nat \ {0} /\ Node = 1..MaxMsgs
  BY ListAssumption DEF Queued, Abstract!Queued, Abstract!Ticket, Node
<1>2. Chain \subseteq Queued
  BY AtQueued DEF Chain
<1>3. ASSUME NEW n \in Queued PROVE n \in Chain
  <2>1. At[MaxMsgs] = NoNode
    <3>1. MaxMsgs \in 0..MaxMsgs
      BY <1>1
    <3>2. At[MaxMsgs] \in Node => ~(MaxMsgs < At[MaxMsgs])
      BY <1>1
    <3>3. QED
      BY <1>1, <3>1, <3>2, AtQueued
  <2> DEFINE Ends == {j \in 0..MaxMsgs : At[j] = NoNode}
  <2>2. PICK j \in Ends : \A i \in Ends : j <= i
    <3>1. MaxMsgs \in Ends /\ Ends \in SUBSET Nat
      BY <1>1, <2>1
    <3> HIDE DEF Ends
    <3>2. QED
      BY <3>1, Least
  <2>3. j # 0
    BY <1>1, <1>3, <2>2, AtSteps DEF Chained
  <2>4. j - 1 \in 0..MaxMsgs /\ At[j - 1] # NoNode
    BY <1>1, <2>2, <2>3
  <2>5. At[j - 1] \in Queued /\ next[At[j - 1]] = NoNode
    BY <1>1, <2>2, <2>3, <2>4, AtSteps, AtQueued
  <2>6. n <= At[j - 1]
    <3>1. At[j - 1] = tail /\ tail # NoNode
      BY <2>4, <2>5 DEF Chained
    <3>2. QED
      BY <3>1 DEF Chained
  <2>7. CASE n = At[j - 1]
    BY <1>1, <2>4, <2>7 DEF Chain, NoNode
  <2>8. CASE n < At[j - 1]
    <3>1. PICK i \in 0..MaxMsgs : At[i] = n
      BY <2>4, <2>8, AtMeetsAll
    <3>2. QED
      BY <1>1, <3>1 DEF Chain, NoNode
  <2>9. n \in Nat /\ At[j - 1] \in Nat
    BY <1>1, <2>5
  <2>10. QED
    BY <2>6, <2>7, <2>8, <2>9
<1>4. QED
  BY <1>2, <1>3

-----------------------------------------------------------------------------
(* The steps.                                                              *)

LEMMA Nodes ==
  ASSUME ListTypeOK
  PROVE  /\ Queued \subseteq Node /\ Node = 1..MaxMsgs /\ MaxMsgs \in Nat /\ IsFiniteSet(Queued)
         /\ NoNode \notin Node /\ Node \subseteq Nat
<1>1. Queued \subseteq Node /\ MaxMsgs \in Nat
  BY ListAssumption DEF Queued, Abstract!Queued, Abstract!Ticket, Node
<1>2. IsFiniteSet(Node)
  BY <1>1, FS_Interval DEF Node
<1>3. IsFiniteSet(Queued)
  BY <1>1, <1>2, FS_Subset
<1>4. QED
  BY <1>1, <1>3 DEF Node, NoNode

(* A removal links the neighbours of the node (mympd_queue_shift and        *)
(* mympd_queue_expire_age, which both know the node before it).            *)
LEMMA UnlinkKeeps ==
  ASSUME ListTypeOK, Chained, NEW n \in Queued, NEW p, NEW f \in {"taken", "expired"},
         IF p = NoNode THEN n = head ELSE p \in Queued /\ next[p] = n,
         Unlink(n, p), fate' = [fate EXCEPT ![n] = f], UNCHANGED <<stamp, sent, idOf>>
  PROVE  /\ Chained' /\ Queued' = Queued \ {n}
         /\ length' \in 0..MaxMsgs /\ head' \in Node \cup {NoNode} /\ tail' \in Node \cup {NoNode}
         /\ next' \in [Node -> Node \cup {NoNode}] /\ Abstract!ChannelTypeOK'
<1>1. /\ Queued \subseteq Node /\ Node = 1..MaxMsgs /\ MaxMsgs \in Nat /\ IsFiniteSet(Queued)
      /\ NoNode \notin Node /\ Node \subseteq Nat
  BY Nodes
<1>2. fate \in [Node -> Abstract!Fate] /\ Abstract!Ticket = Node
  BY DEF ListTypeOK, Abstract!ChannelTypeOK, Abstract!Ticket, Node
<1>3. Queued' = Queued \ {n}
  BY <1>1, <1>2 DEF Queued, Abstract!Queued, Abstract!Ticket
<1>4. /\ head' = IF p = NoNode THEN next[n] ELSE head
      /\ next' = [m \in Node |-> IF m = n THEN NoNode ELSE IF m = p THEN next[n] ELSE next[m]]
      /\ tail' = IF tail = n THEN p ELSE tail
      /\ length' = length - 1
  BY DEF Unlink
<1>5. next \in [Node -> Node \cup {NoNode}] /\ {head, tail} \subseteq Node \cup {NoNode}
  BY DEF ListTypeOK
<1>6. next' \in [Node -> Node \cup {NoNode}]
  BY <1>1, <1>4, <1>5
<1>7. head' \in Node \cup {NoNode} /\ tail' \in Node \cup {NoNode}
  BY <1>1, <1>4, <1>5
<1>8. Abstract!ChannelTypeOK'
  BY <1>2 DEF ListTypeOK, Abstract!ChannelTypeOK, Abstract!Fate
<1>9. length' = Cardinality(Queued') /\ length' \in 0..MaxMsgs
  <2>1. length = Cardinality(Queued) /\ length \in 0..MaxMsgs
    BY DEF Chained, ListTypeOK
  <2>2. Cardinality(Queued \ {n}) = Cardinality(Queued) - 1 /\ IsFiniteSet(Queued \ {n})
    BY <1>1, FS_RemoveElement
  <2>3. Cardinality(Queued \ {n}) \in Nat
    BY <2>2, FS_CardinalityType
  <2>4. QED
    BY <1>1, <1>3, <1>4, <2>1, <2>2, <2>3
<1>10. Chained'
  <2>1. \A m \in Queued' : m <= sent'
    BY <1>3 DEF Chained
  <2>2. \A m \in Queued' :
          IF next'[m] = NoNode THEN m = tail'
          ELSE next'[m] \in Queued' /\ m < next'[m] /\ \A i \in Queued' : i <= m \/ next'[m] <= i
    <3> SUFFICES ASSUME NEW m \in Queued'
                 PROVE  IF next'[m] = NoNode THEN m = tail'
                        ELSE next'[m] \in Queued' /\ m < next'[m]
                             /\ \A i \in Queued' : i <= m \/ next'[m] <= i
      OBVIOUS
    <3>1. m \in Queued /\ m # n /\ m \in Node /\ n \in Node
      BY <1>1, <1>3
    <3>2. CASE m = p
      <4>1. next'[m] = next[n] /\ next[m] = n /\ m < n /\ \A i \in Queued : i <= m \/ n <= i
        BY <1>1, <1>4, <3>1, <3>2 DEF Chained
      <4>2. CASE next[n] = NoNode
        BY <1>4, <3>1, <3>2, <4>1, <4>2 DEF Chained
      <4>3. CASE next[n] # NoNode
        <5>1. next[n] \in Queued /\ n < next[n] /\ \A i \in Queued : i <= n \/ next[n] <= i
          BY <4>3 DEF Chained
        <5>2. \A i \in Queued' : i <= m \/ next[n] <= i
          BY <1>1, <1>3, <3>1, <4>1, <5>1
        <5>3. next[n] # n /\ m < next[n]
          <6>1. n \in Nat /\ m \in Nat /\ next[n] \in Nat
            BY <1>1, <3>1, <5>1
          <6>2. QED
            BY <4>1, <5>1, <6>1
        <5>4. QED
          BY <1>3, <4>1, <4>3, <5>1, <5>2, <5>3
      <4>4. QED
        BY <4>2, <4>3
    <3>3. CASE m # p
      <4>1. next'[m] = next[m]
        BY <1>4, <3>1, <3>3
      <4>2. CASE next[m] = NoNode
        BY <1>4, <3>1, <4>1, <4>2 DEF Chained
      <4>3. CASE next[m] # NoNode
        <5>1. next[m] \in Queued /\ m < next[m] /\ \A i \in Queued : i <= m \/ next[m] <= i
          BY <3>1, <4>3 DEF Chained
        <5>2. next[m] # n
          <6>1. CASE p = NoNode
            <7>1. n <= m
              BY <1>1, <3>1, <6>1 DEF Chained
            <7>2. QED
              BY <1>1, <3>1, <5>1, <7>1
          <6>2. CASE p # NoNode
            <7>1. p \in Queued /\ p < n /\ \A i \in Queued : i <= p \/ n <= i
              BY <1>1, <6>2 DEF Chained
            <7>2. next[m] = n => p <= m /\ m <= p
              BY <1>1, <3>1, <5>1, <7>1
            <7>3. QED
              BY <1>1, <3>1, <3>3, <7>1, <7>2
          <6>3. QED
            BY <6>1, <6>2
        <5>3. QED
          BY <1>3, <4>1, <4>3, <5>1, <5>2
      <4>4. QED
        BY <4>2, <4>3
    <3>4. QED
      BY <3>2, <3>3
  <2>3. head' # NoNode => head' \in Queued' /\ \A m \in Queued' : head' <= m
    <3>1. CASE p = NoNode
      <4>1. n = head /\ \A m \in Queued : n <= m
        BY <1>1, <3>1 DEF Chained
      <4>2. ASSUME next[n] # NoNode
            PROVE  next[n] \in Queued' /\ \A m \in Queued' : next[n] <= m
        <5>1. next[n] \in Queued /\ n < next[n] /\ \A i \in Queued : i <= n \/ next[n] <= i
          BY <4>2 DEF Chained
        <5>2. QED
          BY <1>1, <1>3, <4>1, <5>1
      <4>3. QED
        BY <1>4, <3>1, <4>2
    <3>2. CASE p # NoNode
      <4>1. p \in Queued /\ n # head
        <5>1. p \in Queued /\ p < n /\ head <= p
          BY <1>1, <3>2 DEF Chained
        <5>2. p \in Nat /\ n \in Nat /\ head \in Nat
          BY <1>1, <1>5, <5>1 DEF NoNode
        <5>3. QED
          BY <5>1, <5>2
      <4>2. QED
        BY <1>3, <1>4, <3>2, <4>1 DEF Chained
    <3>3. QED
      BY <3>1, <3>2
  <2>4. tail' # NoNode => tail' \in Queued' /\ \A m \in Queued' : m <= tail'
    <3>1. CASE tail = n
      <4>1. ASSUME p # NoNode PROVE p \in Queued' /\ \A m \in Queued' : m <= p
        <5>1. p \in Queued /\ p < n /\ \A i \in Queued : i <= p \/ n <= i
          BY <1>1, <4>1 DEF Chained
        <5>2. \A i \in Queued : i <= n
          BY <1>1, <3>1 DEF Chained
        <5>3. QED
          BY <1>1, <1>3, <5>1, <5>2
      <4>2. QED
        BY <1>4, <3>1, <4>1
    <3>2. CASE tail # n
      BY <1>3, <1>4, <3>2 DEF Chained
    <3>3. QED
      BY <3>1, <3>2
  <2>5. head' = NoNode => Queued' = {}
    <3>1. ASSUME head' = NoNode, NEW m \in Queued, m # n PROVE FALSE
      <4>1. head # NoNode /\ head \in Queued /\ head <= m /\ head <= n /\ m <= tail /\ n <= tail
        BY <1>1, <3>1 DEF Chained
      <4>2. p = NoNode /\ n = head /\ next[n] = NoNode
        BY <1>4, <3>1, <4>1
      <4>3. n = tail
        BY <4>2 DEF Chained
      <4>4. QED
        BY <1>1, <3>1, <4>1, <4>2, <4>3
    <3>2. QED
      BY <1>3, <3>1
  <2>6. tail' = NoNode => Queued' = {}
    <3>1. ASSUME tail' = NoNode, NEW m \in Queued, m # n PROVE FALSE
      <4>1. tail # NoNode /\ tail \in Queued /\ head <= m /\ head <= n /\ m <= tail /\ n <= tail
        BY <1>1, <3>1 DEF Chained
      <4>2. p = NoNode /\ n = tail /\ n = head
        BY <1>4, <3>1, <4>1
      <4>3. QED
        BY <1>1, <3>1, <4>1, <4>2
    <3>2. QED
      BY <1>3, <3>1
  <2>7. head' = NoNode \/ tail' = NoNode => head' = tail' /\ Queued' = {}
    BY <2>3, <2>4, <2>5, <2>6
  <2>8. \A m \in Node \ Queued' : next'[m] = NoNode
    <3>1. p # NoNode => p \in Queued /\ p < n
      BY <1>1 DEF Chained
    <3>2. p # NoNode => p \in Queued'
      BY <1>1, <1>3, <3>1
    <3>3. \A m \in Node \ Queued : next[m] = NoNode
      BY DEF Chained
    <3>4. QED
      BY <1>1, <1>3, <1>4, <3>2, <3>3
  <2>9. QED
    BY <1>9, <2>1, <2>2, <2>3, <2>4, <2>7, <2>8 DEF Chained
<1>11. QED
  BY <1>3, <1>6, <1>7, <1>8, <1>9, <1>10

(* mympd_queue_push links the new node behind the last one.                *)
LEMMA PushKeeps ==
  ASSUME ListInv, NEW id \in Ids, NEW time \in 0..MaxTime, Push(id, time)
  PROVE  ListInv' /\ Abstract!Enqueue(id)
<1>1. /\ Queued \subseteq Node /\ Node = 1..MaxMsgs /\ MaxMsgs \in Nat /\ IsFiniteSet(Queued)
      /\ NoNode \notin Node /\ Node \subseteq Nat
  BY Nodes DEF ListInv
<1>2. fate \in [Node -> Abstract!Fate] /\ idOf \in [Node -> Ids] /\ Abstract!Ticket = Node
      /\ sent \in 0..MaxMsgs
  BY DEF ListInv, ListTypeOK, Abstract!ChannelTypeOK, Abstract!Ticket, Node
<1> DEFINE node == sent + 1
<1>3. /\ ~locked /\ sent < MaxMsgs /\ sent' = node
      /\ idOf' = [idOf EXCEPT ![node] = id] /\ stamp' = [stamp EXCEPT ![node] = time]
      /\ fate' = [fate EXCEPT ![node] = "queued"]
      /\ length' = length + 1 /\ tail' = node
      /\ IF head = NoNode /\ tail = NoNode THEN head' = node /\ next' = next
         ELSE next' = [next EXCEPT ![tail] = node] /\ head' = head
      /\ locked' = locked /\ limit' = limit /\ current' = current /\ previous' = previous
  BY DEF Push, cursorVars
<1>4. node \in Node /\ node \notin Queued /\ \A n \in Queued : n < node
  BY <1>1, <1>2, <1>3 DEF ListInv, Chained
<1>5. Queued' = Queued \cup {node}
  BY <1>1, <1>2, <1>3, <1>4 DEF Queued, Abstract!Queued, Abstract!Ticket
<1>6. Chained
  BY DEF ListInv
<1>7. length' = Cardinality(Queued') /\ length' \in 0..MaxMsgs
  <2>1. Cardinality(Queued \cup {node}) = Cardinality(Queued) + 1
    BY <1>1, <1>4, FS_AddElement
  <2>2. Cardinality(Node) = MaxMsgs /\ IsFiniteSet(Node)
    BY <1>1, FS_Interval
  <2>3. Queued' \subseteq Node
    BY <1>1, <1>4, <1>5
  <2>4. Cardinality(Queued') <= MaxMsgs
    BY <2>2, <2>3, FS_Subset
  <2>5. length = Cardinality(Queued) /\ length \in Nat
    BY <1>1 DEF ListInv, Chained, ListTypeOK
  <2>6. QED
    BY <1>1, <1>3, <1>5, <2>1, <2>4, <2>5
<1>8. ListTypeOK'
  <2> USE DEF ListInv, ListTypeOK
  <2>1. {head', tail', current', previous'} \subseteq Node \cup {NoNode}
    BY <1>3, <1>4
  <2>2. next' \in [Node -> Node \cup {NoNode}]
    BY <1>3, <1>4
  <2>3. stamp' \in [Node -> 0..MaxTime]
    BY <1>3, <1>4
  <2>4. Abstract!ChannelTypeOK'
    BY <1>1, <1>2, <1>3, <1>4 DEF Abstract!ChannelTypeOK, Abstract!Fate
  <2>5. locked' \in BOOLEAN /\ limit' \in 0..MaxTime + 1
    BY <1>3
  <2>6. QED
    BY <1>7, <2>1, <2>2, <2>3, <2>4, <2>5
<1>9. Chained'
  <2>1. \A n \in Queued' : n <= sent'
    BY <1>1, <1>3, <1>4, <1>5
  <2>2. tail' \in Queued' /\ (\A n \in Queued' : n <= tail')
    BY <1>1, <1>3, <1>4, <1>5
  <2>3. next \in [Node -> Node \cup {NoNode}]
    BY DEF ListInv, ListTypeOK
  <2>4. next[node] = NoNode /\ \A n \in Node \ Queued : next[n] = NoNode
    BY <1>4, <1>6 DEF Chained
  <2>5. /\ head' # NoNode /\ head' \in Queued' /\ (\A n \in Queued' : head' <= n)
        /\ \A n \in Node \ Queued' : next'[n] = NoNode
        /\ \A n \in Queued' :
             IF next'[n] = NoNode THEN n = tail'
             ELSE next'[n] \in Queued' /\ n < next'[n] /\ \A m \in Queued' : m <= n \/ next'[n] <= m
    <3>1. CASE head = NoNode /\ tail = NoNode
      <4>1. Queued = {} /\ head' = node /\ next' = next
        BY <1>3, <1>6, <3>1 DEF Chained
      <4>2. node <= node /\ node # NoNode
        BY <1>1, <1>4
      <4>3. QED
        BY <1>3, <1>5, <2>4, <4>1, <4>2
    <3>2. CASE ~(head = NoNode /\ tail = NoNode)
      <4>1. /\ head # NoNode /\ head \in Queued /\ \A n \in Queued : head <= n
            /\ tail # NoNode /\ tail \in Queued /\ \A n \in Queued : n <= tail
        BY <1>6, <3>2 DEF Chained
      <4>2. next' = [next EXCEPT ![tail] = node] /\ head' = head
        BY <1>3, <3>2
      <4>3. head' # NoNode /\ head' \in Queued' /\ (\A n \in Queued' : head' <= n)
        BY <1>1, <1>4, <1>5, <4>1, <4>2
      <4>4. \A n \in Node \ Queued' : next'[n] = NoNode
        BY <1>5, <2>4, <4>1, <4>2
      <4>5. ASSUME NEW n \in Queued'
            PROVE  IF next'[n] = NoNode THEN n = tail'
                   ELSE next'[n] \in Queued' /\ n < next'[n]
                        /\ \A m \in Queued' : m <= n \/ next'[n] <= m
        <5>1. CASE n = node
          <6>1. next'[n] = NoNode
            BY <1>1, <1>4, <2>4, <4>1, <4>2, <5>1
          <6>2. QED
            BY <1>3, <5>1, <6>1
        <5>2. CASE n = tail
          <6>1. next'[n] = node
            BY <1>1, <2>3, <4>1, <4>2, <5>2
          <6>2. \A m \in Queued' : m <= n \/ node <= m
            BY <1>1, <1>4, <1>5, <4>1, <5>2
          <6>3. QED
            BY <1>1, <1>4, <1>5, <4>1, <5>2, <6>1, <6>2
        <5>3. CASE n # node /\ n # tail
          <6>1. n \in Queued /\ next'[n] = next[n]
            BY <1>1, <1>5, <2>3, <4>2, <5>3
          <6>2. /\ next[n] # NoNode /\ next[n] \in Queued /\ n < next[n]
                /\ \A m \in Queued : m <= n \/ next[n] <= m
            BY <1>6, <5>3, <6>1 DEF Chained
          <6>3. next[n] <= node
            <7>1. next[n] < node /\ next[n] \in Nat /\ node \in Nat
              BY <1>1, <1>4, <6>2
            <7>2. QED
              BY <7>1
          <6>4. QED
            BY <1>5, <6>1, <6>2, <6>3
        <5>4. QED
          BY <5>1, <5>2, <5>3
      <4>6. QED
        BY <4>3, <4>4, <4>5
    <3>3. QED
      BY <3>1, <3>2
  <2>6. tail' # NoNode
    BY <1>1, <1>3, <1>4
  <2>7. QED
    BY <1>7, <2>1, <2>2, <2>5, <2>6 DEF Chained
<1>10. Cursor'
  BY <1>3 DEF ListInv, Cursor
<1>11. Abstract!Enqueue(id)
  BY <1>3 DEF Abstract!Enqueue
<1>12. QED
  BY <1>8, <1>9, <1>10, <1>11 DEF ListInv

(* mympd_queue_shift takes the oldest entry with the id.                   *)
LEMMA ShiftKeeps ==
  ASSUME ListInv, NEW id \in Ids, Shift(id)
  PROVE  ListInv' /\ \E m \in Abstract!Ticket : Abstract!Dequeue(m, id)
<1> USE DEF ListInv
<1>1. /\ Queued \subseteq Node /\ Node = 1..MaxMsgs /\ MaxMsgs \in Nat /\ IsFiniteSet(Queued)
      /\ NoNode \notin Node /\ Node \subseteq Nat
  BY Nodes
<1>2. PICK k \in 0..MaxMsgs :
        /\ At[k] # NoNode
        /\ id = 0 \/ idOf[At[k]] = id
        /\ \A j \in 0..MaxMsgs : j < k => id # 0 /\ idOf[At[j]] # id
        /\ Unlink(At[k], IF k = 0 THEN NoNode ELSE At[k - 1])
        /\ fate' = [fate EXCEPT ![At[k]] = "taken"]
  BY DEF Shift
<1> DEFINE n == At[k]
           p == IF k = 0 THEN NoNode ELSE At[k - 1]
<1>3. n \in Queued
  BY <1>2, AtQueued
<1>4. IF p = NoNode THEN n = head ELSE p \in Queued /\ next[p] = n
  <2>1. CASE k = 0
    BY <2>1, AtSteps
  <2>2. CASE k # 0
    <3>1. k \in 1..MaxMsgs /\ k - 1 \in 0..MaxMsgs
      BY <1>1, <2>2
    <3>2. At[k - 1] # NoNode /\ next[At[k - 1]] = n
      BY <1>2, <3>1, AtSteps
    <3>3. QED
      BY <2>2, <3>1, <3>2, AtQueued
  <2>3. QED
    BY <2>1, <2>2
<1>5. ~locked /\ UNCHANGED <<stamp, sent, idOf, cursorVars>>
  BY DEF Shift
<1>6. Unlink(n, p) /\ fate' = [fate EXCEPT ![n] = "taken"]
  BY <1>2
<1>7. \A m \in Queued : m < n => id # 0 /\ idOf[m] # id
  BY <1>2, AtMeetsAll
<1> HIDE DEF n, p
<1>8. /\ Chained' /\ Queued' = Queued \ {n}
      /\ length' \in 0..MaxMsgs /\ head' \in Node \cup {NoNode} /\ tail' \in Node \cup {NoNode}
      /\ next' \in [Node -> Node \cup {NoNode}] /\ Abstract!ChannelTypeOK'
  BY <1>3, <1>4, <1>5, <1>6, UnlinkKeeps
<1>9. ListTypeOK'
  BY <1>5, <1>8 DEF ListTypeOK, cursorVars
<1>10. Cursor'
  BY <1>5 DEF Cursor, cursorVars
<1>11. Abstract!IsFirst(n, id)
  <2>1. id = 0 \/ idOf[n] = id
    BY <1>2 DEF n
  <2>2. \A m \in Queued : id = 0 \/ idOf[m] = id => n <= m
    BY <1>1, <1>3, <1>7
  <2>3. QED
    BY <1>3, <2>1, <2>2 DEF Abstract!IsFirst, Abstract!Matches, Queued
<1>12. Abstract!Dequeue(n, id)
  BY <1>5, <1>6, <1>11 DEF Abstract!Dequeue
<1>13. n \in Abstract!Ticket
  BY <1>1, <1>3 DEF Abstract!Ticket
<1>14. QED
  BY <1>8, <1>9, <1>10, <1>12, <1>13

(* mympd_queue_expire_age                                                  *)
LEMMA ExpireStartKeeps ==
  ASSUME ListInv, NEW expire_time \in 0..MaxTime + 1, ExpireStart(expire_time)
  PROVE  ListInv' /\ UNCHANGED Abstract!chanVars
<1>1. Queued \subseteq Node /\ Node \subseteq Nat
  BY Nodes DEF ListInv
<1>2. /\ head # NoNode /\ locked' = TRUE /\ limit' = expire_time
      /\ current' = head /\ previous' = NoNode
      /\ UNCHANGED <<head, tail, length, next, stamp, sent, idOf, fate>>
  BY DEF ExpireStart, listVars
<1>3. Queued' = Queued /\ Abstract!ChannelTypeOK'
  BY <1>2 DEF Queued, Abstract!Queued, ListInv, ListTypeOK, Abstract!ChannelTypeOK
<1>4. ListTypeOK' /\ Chained'
  BY <1>2, <1>3 DEF ListInv, ListTypeOK, Chained
<1>5. Cursor'
  <2>1. head \in Queued /\ \A n \in Queued : ~(n < head)
    <3>1. head \in Queued /\ \A n \in Queued : head <= n
      BY <1>2 DEF ListInv, Chained
    <3>2. \A n \in Queued : n \in Nat /\ head \in Nat
      BY <1>1, <3>1
    <3>3. QED
      BY <3>1, <3>2
  <2>2. QED
    BY <1>2, <1>3, <2>1 DEF Cursor
<1>6. QED
  BY <1>2, <1>4, <1>5 DEF ListInv, Abstract!chanVars

LEMMA ExpireRemoveKeeps ==
  ASSUME ListInv, ExpireRemove
  PROVE  ListInv' /\ Abstract!Drop({current}) /\ current \in Queued
<1> USE DEF ListInv
<1>1. /\ Queued \subseteq Node /\ Node = 1..MaxMsgs /\ MaxMsgs \in Nat
      /\ NoNode \notin Node /\ Node \subseteq Nat
  BY Nodes
<1>2. /\ locked /\ current # NoNode /\ TooOld(current) /\ Unlink(current, previous)
      /\ fate' = [fate EXCEPT ![current] = "expired"]
      /\ current' = IF previous = NoNode THEN next[current] ELSE previous
      /\ UNCHANGED <<stamp, sent, idOf, locked, limit, previous>>
  BY DEF ExpireRemove
<1>3. current \in Queued
  BY <1>2 DEF Cursor
<1>4. IF previous = NoNode THEN current = head ELSE previous \in Queued /\ next[previous] = current
  BY <1>2 DEF Cursor
<1>5. /\ Chained' /\ Queued' = Queued \ {current}
      /\ length' \in 0..MaxMsgs /\ head' \in Node \cup {NoNode} /\ tail' \in Node \cup {NoNode}
      /\ next' \in [Node -> Node \cup {NoNode}] /\ Abstract!ChannelTypeOK'
  BY <1>2, <1>3, <1>4, UnlinkKeeps
<1>6. ListTypeOK'
  <2>1. current' \in Node \cup {NoNode} /\ previous' \in Node \cup {NoNode}
    BY <1>1, <1>2, <1>3 DEF ListTypeOK
  <2>2. QED
    BY <1>2, <1>5, <2>1 DEF ListTypeOK
<1>7. \A n : TooOld(n)' <=> TooOld(n)
  BY <1>2 DEF TooOld
<1>8. Cursor'
  <2>1. CASE previous = NoNode
    <3>1. current = head /\ head' = next[current] /\ current' = head' /\ previous' = NoNode /\ locked'
      BY <1>2, <1>4, <2>1 DEF Unlink
    <3>2. head' # NoNode => head' \in Queued' /\ \A n \in Queued' : head' <= n
      BY <1>5 DEF Chained
    <3>3. head' = NoNode => Queued' = {}
      BY <1>5 DEF Chained
    <3>4. \A n \in Queued' : ~(n < head') \/ head' = NoNode
      BY <1>1, <1>5, <3>2 DEF NoNode
    <3>5. QED
      BY <1>5, <3>1, <3>2, <3>3, <3>4 DEF Cursor
  <2>2. CASE previous # NoNode
    <3>1. previous \in Queued /\ ~TooOld(previous) /\ next[previous] = current /\ previous # current
      BY <1>2, <2>2 DEF Cursor
    <3>2. current' = previous /\ previous' = previous /\ locked'
      BY <1>2, <2>2
    <3>3. previous < current
      BY <1>1, <1>2, <3>1 DEF Chained
    <3>4. \A n \in Queued' : n < previous => ~TooOld(n)
      BY <1>1, <1>2, <1>3, <1>5, <3>1, <3>3 DEF Cursor
    <3>5. QED
      BY <1>1, <1>5, <1>7, <2>2, <3>1, <3>2, <3>4 DEF Cursor
  <2>3. QED
    BY <2>1, <2>2
<1>9. Abstract!Drop({current})
  BY <1>1, <1>2, <1>3 DEF Abstract!Drop, Abstract!Ticket, ListTypeOK, Abstract!ChannelTypeOK
<1>10. QED
  BY <1>3, <1>5, <1>6, <1>8, <1>9

LEMMA ExpireGoesOn ==
  ASSUME ListInv, ExpireKeep \/ ExpireEnd
  PROVE  ListInv' /\ UNCHANGED Abstract!chanVars
<1> USE DEF ListInv
<1>1. Queued \subseteq Node /\ Node \subseteq Nat /\ NoNode \notin Node
  BY Nodes
<1>2. UNCHANGED <<head, tail, length, next, stamp, sent, idOf, fate>>
  BY DEF ExpireKeep, ExpireEnd, listVars
<1>3. Queued' = Queued /\ Abstract!ChannelTypeOK'
  BY <1>2 DEF Queued, Abstract!Queued, ListTypeOK, Abstract!ChannelTypeOK
<1>4. Chained'
  BY <1>2, <1>3 DEF Chained
<1>5. CASE ExpireKeep
  <2>1. /\ locked /\ current # NoNode /\ ~TooOld(current)
        /\ previous' = current /\ current' = next[current] /\ UNCHANGED <<locked, limit>>
    BY <1>5 DEF ExpireKeep
  <2>2. current \in Queued
    BY <2>1 DEF Cursor
  <2>3. ListTypeOK'
    BY <1>1, <1>2, <1>3, <2>1, <2>2 DEF ListTypeOK
  <2>4. \A n : TooOld(n)' <=> TooOld(n)
    BY <1>2, <2>1 DEF TooOld
  <2>5. next[current] # NoNode => next[current] \in Queued
    BY <2>2 DEF Chained
  <2>6. \A n \in Queued : next[current] = NoNode \/ n < next[current] => n <= current
    <3>1. next[current] # NoNode => \A n \in Queued : n <= current \/ next[current] <= n
      BY <2>2 DEF Chained
    <3>2. next[current] = NoNode => current = tail /\ \A n \in Queued : n <= current
      BY <2>1, <2>2 DEF Chained
    <3>3. next[current] # NoNode => next[current] \in Nat
      BY <1>1, <2>5
    <3>4. \A n \in Queued : n \in Nat
      BY <1>1
    <3>5. QED
      BY <3>1, <3>2, <3>3, <3>4
  <2>7. \A n \in Queued : n <= current => ~TooOld(n)
    BY <1>1, <2>1, <2>2 DEF Cursor
  <2>8. Cursor'
    BY <1>2, <1>3, <2>1, <2>2, <2>4, <2>5, <2>6, <2>7 DEF Cursor
  <2>9. QED
    BY <1>2, <1>4, <2>3, <2>8 DEF Abstract!chanVars
<1>6. CASE ExpireEnd
  <2>1. current = NoNode /\ ~locked' /\ locked' = FALSE /\ limit' = 0 /\ previous' = NoNode /\ current' = current
    BY <1>6 DEF ExpireEnd
  <2>2. ListTypeOK'
    <3>1. 0 \in 0..MaxTime + 1 /\ FALSE \in BOOLEAN
      BY ListAssumption
    <3>2. {head', tail', current', previous'} \subseteq Node \cup {NoNode}
      BY <1>2, <2>1 DEF ListTypeOK
    <3>3. QED
      BY <1>2, <1>3, <2>1, <3>1, <3>2 DEF ListTypeOK
  <2>3. Cursor'
    BY <2>1 DEF Cursor
  <2>4. QED
    BY <1>2, <1>4, <2>2, <2>3 DEF Abstract!chanVars
<1>7. QED
  BY <1>5, <1>6

-----------------------------------------------------------------------------
LEMMA ListInvInit == QueueListInit => ListInv
<1> SUFFICES ASSUME QueueListInit PROVE ListInv
  OBVIOUS
<1>1. {MaxMsgs, MaxTime} \subseteq Nat /\ 0 \in Ids
  BY ListAssumption
<1>2. sent = 0 /\ idOf = [m \in Node |-> 0] /\ fate = [m \in Node |-> "unsent"]
  BY DEF QueueListInit, Abstract!ChannelInit, Abstract!Ticket, Node
<1>3. Queued = {}
  BY <1>2 DEF Queued, Abstract!Queued, Abstract!Ticket, Node
<1>4. Abstract!ChannelTypeOK
  BY <1>1, <1>2 DEF Abstract!ChannelTypeOK, Abstract!Ticket, Abstract!Fate, Node
<1>5. ListTypeOK
  <2>1. 0 \in 0..MaxMsgs /\ 0 \in 0..MaxTime /\ 0 \in 0..MaxTime + 1
    BY <1>1
  <2>2. next \in [Node -> Node \cup {NoNode}] /\ stamp \in [Node -> 0..MaxTime]
    BY <2>1 DEF QueueListInit
  <2>3. QED
    BY <1>4, <2>1, <2>2 DEF QueueListInit, ListTypeOK
<1>6. Chained /\ Cursor
  BY <1>3, FS_EmptySet DEF QueueListInit, Chained, Cursor
<1>7. QED
  BY <1>5, <1>6 DEF ListInv

(* Every step of the list is one of the channel, or changes nothing there. *)
LEMMA ListInvStep == ListInv /\ [QueueListNext]_queueListVars
                    => ListInv' /\ [Abstract!ChannelNext]_Abstract!chanVars
<1> SUFFICES ASSUME ListInv, [QueueListNext]_queueListVars
             PROVE  ListInv' /\ [Abstract!ChannelNext]_Abstract!chanVars
  OBVIOUS
<1>1. CASE \E id \in Ids, time \in 0..MaxTime : Push(id, time)
  BY <1>1, PushKeeps DEF Abstract!ChannelNext
<1>2. CASE \E id \in Ids : Shift(id)
  BY <1>2, ShiftKeeps DEF Abstract!ChannelNext
<1>3. CASE \E expire_time \in 0..MaxTime + 1 : ExpireStart(expire_time)
  BY <1>3, ExpireStartKeeps
<1>4. CASE ExpireRemove
  <2>1. {current} \in SUBSET Abstract!Queued /\ Abstract!Drop({current})
    BY <1>4, ExpireRemoveKeeps DEF Queued
  <2>2. QED
    BY <1>4, <2>1, ExpireRemoveKeeps DEF Abstract!ChannelNext
<1>5. CASE ExpireKeep \/ ExpireEnd
  BY <1>5, ExpireGoesOn
<1>6. CASE UNCHANGED queueListVars
  <2>1. UNCHANGED <<head, tail, length, next, stamp, sent, idOf, fate, locked, limit, current, previous>>
    BY <1>6 DEF queueListVars, listVars, cursorVars
  <2>2. Queued' = Queued /\ Abstract!ChannelTypeOK' = Abstract!ChannelTypeOK
    BY <2>1 DEF Queued, Abstract!Queued, Abstract!ChannelTypeOK
  <2>3. QED
    BY <2>1, <2>2 DEF ListInv, ListTypeOK, Chained, Cursor, TooOld, Abstract!chanVars
<1>7. QED
  BY <1>1, <1>2, <1>3, <1>4, <1>5, <1>6 DEF QueueListNext, ExpiryStep

(* The invariant gives the soundness of the list.                          *)
LEMMA ListInvSound == ListInv => ListSound
<1> SUFFICES ASSUME ListInv PROVE ListSound
  OBVIOUS
<1>1. Chain = Queued /\ Queued \subseteq Node /\ IsFiniteSet(Queued) /\ NoNode \notin Node
      /\ Node \subseteq Nat
  BY ChainIsQueued, Nodes DEF ListInv
<1>2. tail # NoNode => next[tail] = NoNode
  <2>1. SUFFICES ASSUME tail # NoNode, next[tail] # NoNode PROVE FALSE
    OBVIOUS
  <2>2. tail \in Queued /\ next[tail] \in Queued /\ tail < next[tail] /\ next[tail] <= tail
    BY <2>1 DEF ListInv, Chained
  <2>3. tail \in Nat /\ next[tail] \in Nat
    BY <1>1, <2>2
  <2>4. QED
    BY <2>2, <2>3
<1>3. ListOK
  BY <1>1, <1>2 DEF ListInv, Chained, ListOK, Queued
<1>4. CheckMatchesScan
  <2>1. length # 0 <=> Queued # {}
    BY <1>1, FS_EmptySet DEF ListInv, Chained
  <2>2. QED
    BY <1>1, <2>1 DEF CheckMatchesScan, HasEntry, Abstract!HasId, Abstract!Matches, Queued
<1>5. QED
  BY <1>3, <1>4 DEF ListInv, ListSound

(* The pointers and the counter of the list are sound after every step of   *)
(* push, shift and expiry, for queues of any length.                       *)
THEOREM ListIsSound == QueueListSpec => []ListSound
<1>1. ListInv /\ [QueueListNext]_queueListVars => ListInv'
  BY ListInvStep
<1>2. QED
  BY ListInvInit, <1>1, ListInvSound, PTL DEF QueueListSpec

(* The linked list implements the channel: oldest matching entry first,     *)
(* nothing lost, doubled or reordered.                                     *)
THEOREM ListRefinesChannel == QueueListSpec => RefinesChannel
<1>1. QueueListInit => Abstract!ChannelInit
  BY DEF QueueListInit
<1>2. ListInv /\ [QueueListNext]_queueListVars => ListInv'
  BY ListInvStep
<1>3. ListInv /\ [QueueListNext]_queueListVars => [Abstract!ChannelNext]_Abstract!chanVars
  BY ListInvStep
<1>4. QED
  BY ListInvInit, <1>1, <1>2, <1>3, PTL DEF QueueListSpec, RefinesChannel, Abstract!ChannelSpec

(* An expiry that ends has removed every entry older than its limit, in     *)
(* whatever places of the list they were.                                  *)
THEOREM ExpiryIsComplete == QueueListSpec => ExpiryComplete
<1>1. ListInv /\ [QueueListNext]_queueListVars => ListInv'
  BY ListInvStep
<1>2. ListInv => [ExpireEnd => \A n \in Chain : ~TooOld(n)]_queueListVars
  BY ChainIsQueued DEF ListInv, ExpireEnd, Cursor
<1>3. QED
  BY ListInvInit, <1>1, <1>2, PTL DEF QueueListSpec, ExpiryComplete

-----------------------------------------------------------------------------
(* The calls of scripts: what a caller has used up of its tries, and how    *)
(* long its response has waited for it.                                    *)

\* a call is in at most one place; it is answered once
Places ==
  /\ requests \subseteq 1..calls /\ responses \subseteq 1..calls
  /\ requests \cap responses = {}
  /\ signals + Cardinality(requests) <= calls

\* the time of the tries used up bounds the time of the call, and the time left
\* of a try that of its response
Paced(c) ==
  /\ stage[c] # "waiting" => elapsed[c] <= tries[c] * Second
  /\ stage[c] = "waiting" => elapsed[c] + left[c] <= tries[c] * Second
  /\ Answered(c) => age[call[c]] <= Second
  /\ Answered(c) /\ stage[c] = "waiting" => age[call[c]] + left[c] <= Second
  /\ stage[c] = "idle" => call[c] = 0

CallInv ==
  /\ calls \in 0..MaxCalls /\ stopping \in BOOLEAN /\ signals \in Nat
  /\ call \in [Callers -> 0..MaxCalls]
  /\ stage \in [Callers -> {"idle", "looping", "waiting", "woken"}]
  /\ tries \in [Callers -> 0..MaxTries]
  /\ left \in [Callers -> 0..Second]
  /\ elapsed \in [Callers -> Nat]
  /\ age \in [Call -> 0..Oldest]
  /\ Places /\ \A c \in Callers : Paced(c)

LEMMA CallNumbers ==
  /\ MaxCalls \in Nat /\ MaxTries \in Nat /\ Second \in Nat /\ MaxAge \in Nat
  /\ MaxCalls >= 1 /\ MaxTries >= 1 /\ Second >= 1 /\ Second <= MaxAge /\ Oldest = MaxAge + 1
BY CallAssumption DEF Oldest

(* t tries take t times a second. *)
LEMMA TryTime ==
  ASSUME NEW t \in 0..MaxTries
  PROVE  /\ t * Second \in Nat /\ (t + 1) * Second = t * Second + Second
         /\ t * Second <= MaxTries * Second /\ 0 * Second = 0
<1> DEFINE S == Second
           M == MaxTries
<1>1. S \in Nat /\ M \in Nat
  BY CallNumbers
<1> HIDE DEF S, M
<1>2. \A x, y, z \in Nat : x <= y => x * z <= y * z
  OBVIOUS
<1>3. t \in 0..M
  BY DEF M
<1>4. t * S \in Nat /\ (t + 1) * S = t * S + S /\ t * S <= M * S /\ 0 * S = 0
  BY <1>1, <1>2, <1>3
<1> QED
  BY <1>4 DEF S, M

(* In such states the calls are prompt. *)
LEMMA CallInvPrompt == CallInv => CallsPrompt
<1> SUFFICES ASSUME CallInv PROVE CallsPrompt
  OBVIOUS
<1>1. \A c \in Callers : elapsed[c] <= MaxTries * Second
  <2>1. SUFFICES ASSUME NEW c \in Callers PROVE elapsed[c] <= MaxTries * Second
    OBVIOUS
  <2>2. tries[c] \in 0..MaxTries /\ elapsed[c] \in Nat /\ left[c] \in Nat
    BY CallNumbers DEF CallInv
  <2>3. elapsed[c] <= tries[c] * Second
    <3>1. tries[c] * Second \in Nat
      BY <2>2, TryTime
    <3>2. Paced(c)
      BY DEF CallInv
    <3> QED
      BY <2>2, <3>1, <3>2 DEF Paced
  <2>4. tries[c] * Second <= MaxTries * Second /\ tries[c] * Second \in Nat
    BY <2>2, TryTime
  <2>5. MaxTries * Second \in Nat
    BY CallNumbers
  <2> QED
    BY <2>2, <2>3, <2>4, <2>5
<1>2. elapsed \in [Callers -> 0..MaxTries * Second]
  <2>1. MaxTries * Second \in Nat /\ elapsed \in [Callers -> Nat]
    BY CallNumbers DEF CallInv
  <2> QED
    BY <1>1, <2>1
<1>3. requests \subseteq Call /\ responses \subseteq Call /\ IsFiniteSet(requests)
  <2>1. calls \in 0..MaxCalls /\ requests \subseteq 1..calls /\ responses \subseteq 1..calls
    BY DEF CallInv, Places
  <2>2. 1..calls \subseteq Call /\ IsFiniteSet(1..calls)
    BY <2>1, CallNumbers, FS_Interval DEF Call
  <2> QED
    BY <2>1, <2>2, FS_Subset
<1>4. signals \in 0..MaxCalls
  <2>1. Cardinality(requests) \in Nat
    BY <1>3, FS_CardinalityType
  <2> QED
    BY <2>1, CallNumbers DEF CallInv, Places
<1>5. PromptPickup
  BY DEF CallInv, Paced, PromptPickup
<1> QED
  BY <1>1, <1>2, <1>3, <1>4, <1>5 DEF CallInv, CallsPrompt, CallTypeOK, CallBounded

LEMMA CallInit == ScriptCallInit => CallInv
<1> SUFFICES ASSUME ScriptCallInit PROVE CallInv
  OBVIOUS
<1>1. Places
  BY CallNumbers, FS_EmptySet DEF ScriptCallInit, Places
<1>2. \A c \in Callers : Paced(c)
  <2>1. 0 * Second = 0 /\ 0 \in 0..MaxTries
    BY CallNumbers
  <2> QED
    BY <2>1 DEF ScriptCallInit, Paced, Answered
<1>3. /\ calls \in 0..MaxCalls /\ stopping \in BOOLEAN /\ signals \in Nat
      /\ call \in [Callers -> 0..MaxCalls] /\ tries \in [Callers -> 0..MaxTries]
      /\ left \in [Callers -> 0..Second] /\ elapsed \in [Callers -> Nat]
  <2>1. 0 \in 0..MaxCalls /\ 0 \in 0..MaxTries /\ 0 \in 0..Second /\ 0 \in Nat
    BY CallNumbers
  <2> QED
    BY <2>1, Zenon DEF ScriptCallInit
<1>4. stage \in [Callers -> {"idle", "looping", "waiting", "woken"}]
  BY DEF ScriptCallInit
<1>5. age \in [Call -> 0..Oldest]
  BY CallNumbers DEF ScriptCallInit
<1> QED
  BY <1>1, <1>2, <1>3, <1>4, <1>5 DEF CallInv

(* The end of a call (GiveUp, and Take with the response). *)
LEMMA ReturnPaced ==
  ASSUME CallInv, NEW c \in Callers, Return(c), responses' \subseteq responses,
         \A k \in responses' : age'[k] = age[k]
  PROVE  /\ \A d \in Callers : Paced(d)'
         /\ call' \in [Callers -> 0..MaxCalls]
         /\ stage' \in [Callers -> {"idle", "looping", "waiting", "woken"}]
         /\ tries' \in [Callers -> 0..MaxTries]
         /\ left' \in [Callers -> 0..Second]
         /\ elapsed' \in [Callers -> Nat]
<1>1. call' \in [Callers -> 0..MaxCalls]
      /\ stage' \in [Callers -> {"idle", "looping", "waiting", "woken"}]
      /\ tries' \in [Callers -> 0..MaxTries] /\ left' \in [Callers -> 0..Second]
      /\ elapsed' \in [Callers -> Nat]
  BY CallNumbers DEF Return, CallInv
<1>2. \A d \in Callers : d # c =>
        /\ call'[d] = call[d] /\ stage'[d] = stage[d] /\ tries'[d] = tries[d] /\ left'[d] = left[d]
        /\ elapsed'[d] = elapsed[d]
  BY DEF Return, CallInv
<1>3. call'[c] = 0 /\ stage'[c] = "idle" /\ tries'[c] = 0 /\ elapsed'[c] = 0
  BY DEF Return, CallInv
<1>4. 0 \notin responses'
  BY DEF CallInv, Places
<1>5. ASSUME NEW d \in Callers PROVE Paced(d)'
  <2>1. CASE d = c
    <3>1. 0 * Second = 0
      BY CallNumbers
    <3> QED
      BY <1>3, <1>4, <2>1, <3>1 DEF Paced, Answered
  <2>2. CASE d # c
    <3>1. Paced(d)
      BY DEF CallInv
    <3> QED
      BY <1>2, <2>2, <3>1 DEF Paced, Answered
  <2> QED
    BY <2>1, <2>2
<1> QED
  BY <1>1, <1>5

LEMMA TakeKeeps ==
  ASSUME CallInv, NEW c \in Callers, Take(c), UNCHANGED <<calls, stopping>>
  PROVE  CallInv'
<1>1. /\ responses' = responses \ {call[c]} /\ age' = [age EXCEPT ![call[c]] = 0]
      /\ requests' = requests /\ signals' = signals /\ Return(c)
  BY DEF Take
<1>2. age' \in [Call -> 0..Oldest] /\ \A k \in responses' : age'[k] = age[k]
  <2>1. age \in [Call -> 0..Oldest] /\ 0 \in 0..Oldest
    BY CallNumbers DEF CallInv
  <2>2. age' \in [Call -> 0..Oldest]
    BY <1>1, <2>1
  <2>3. responses \subseteq Call
    BY CallNumbers DEF CallInv, Places, Call
  <2>4. \A k \in responses' : k \in Call /\ k # call[c]
    BY <1>1, <2>3
  <2> QED
    BY <1>1, <2>1, <2>2, <2>4
<1>3. /\ \A d \in Callers : Paced(d)'
      /\ call' \in [Callers -> 0..MaxCalls]
      /\ stage' \in [Callers -> {"idle", "looping", "waiting", "woken"}]
      /\ tries' \in [Callers -> 0..MaxTries] /\ left' \in [Callers -> 0..Second]
      /\ elapsed' \in [Callers -> Nat]
  BY <1>1, <1>2, ReturnPaced
<1>4. Places'
  BY <1>1 DEF CallInv, Places
<1>5. /\ calls' \in 0..MaxCalls /\ stopping' \in BOOLEAN /\ signals' \in Nat
  BY <1>1 DEF CallInv
<1> QED
  BY <1>2, <1>3, <1>4, <1>5 DEF CallInv

LEMMA CallStep == CallInv /\ [ScriptCallNext]_scriptCallVars => CallInv'
<1> SUFFICES ASSUME CallInv, [ScriptCallNext]_scriptCallVars PROVE CallInv'
  OBVIOUS
<1> DEFINE Typed == /\ calls \in 0..MaxCalls /\ stopping \in BOOLEAN /\ signals \in Nat
                    /\ call \in [Callers -> 0..MaxCalls]
                    /\ stage \in [Callers -> {"idle", "looping", "waiting", "woken"}]
                    /\ tries \in [Callers -> 0..MaxTries]
                    /\ left \in [Callers -> 0..Second]
                    /\ elapsed \in [Callers -> Nat]
                    /\ age \in [Call -> 0..Oldest]
<1>0. Typed /\ Places /\ \A c \in Callers : Paced(c)
  BY DEF CallInv
<1>a. ASSUME Typed', Places', \A c \in Callers : Paced(c)' PROVE CallInv'
  BY <1>a DEF CallInv
<1>f. IsFiniteSet(requests) /\ Cardinality(requests) \in Nat
  <2>1. requests \in SUBSET (1..calls) /\ IsFiniteSet(1..calls)
    BY <1>0, CallNumbers, FS_Interval DEF Places
  <2> QED
    BY <2>1, FS_Subset, FS_CardinalityType
<1>1. ASSUME NEW c \in Callers, MakeCall(c) PROVE CallInv'
  <2>1. Typed'
    BY <1>0, <1>1, CallNumbers DEF MakeCall
  <2>2. requests' = requests \cup {calls + 1} /\ calls' = calls + 1
        /\ responses' = responses /\ signals' = signals
    BY <1>1 DEF MakeCall
  <2>3. Places'
    <3>1. calls + 1 \notin requests /\ calls + 1 \notin responses
      BY <1>0, CallNumbers DEF Places
    <3>2. Cardinality(requests') = Cardinality(requests) + 1
      BY <1>f, <2>2, <3>1, FS_AddElement
    <3>3. requests' \subseteq 1..calls' /\ responses' \subseteq 1..calls'
          /\ requests' \cap responses' = {}
      BY <1>0, <2>2, <3>1, CallNumbers DEF Places
    <3> QED
      BY <1>0, <1>f, <2>2, <3>2, <3>3, CallNumbers DEF Places
  <2>4. ASSUME NEW d \in Callers PROVE Paced(d)'
    <3>1. Paced(d)
      BY <1>0
    <3>2. CASE d # c
      <4>1. call'[d] = call[d] /\ stage'[d] = stage[d]
        BY <1>0, <1>1, <3>2 DEF MakeCall
      <4> QED
        BY <1>1, <3>1, <4>1 DEF MakeCall, Paced, Answered
    <3>3. CASE d = c
      <4>1. call'[c] = calls + 1 /\ stage'[c] = "looping" /\ stage[c] = "idle"
            /\ elapsed' = elapsed /\ tries' = tries /\ responses' = responses
        BY <1>0, <1>1 DEF MakeCall
      <4>2. calls + 1 \notin responses
        BY <1>0, CallNumbers DEF Places
      <4> QED
        BY <3>1, <3>3, <4>1, <4>2 DEF Paced, Answered
    <3> QED
      BY <3>2, <3>3
  <2> QED
    BY <1>a, <2>1, <2>3, <2>4
<1>2. ASSUME NEW c \in Callers, Try(c) PROVE CallInv'
  <2>1. CASE Take(c)
    BY <1>2, <2>1, TakeKeeps DEF Try
  <2>2. CASE ~Take(c)
    <3>1. /\ stage[c] = "looping" /\ tries[c] < MaxTries /\ ~Answered(c)
          /\ stage' = [stage EXCEPT ![c] = "waiting"]
          /\ tries' = [tries EXCEPT ![c] = @ + 1]
          /\ left' = [left EXCEPT ![c] = Second]
          /\ UNCHANGED <<call, elapsed, requests, responses, age, signals, calls, stopping>>
      BY <1>2, <2>2 DEF Try, respVars
    <3>2. Typed'
      BY <1>0, <3>1, CallNumbers
    <3>3. Places'
      BY <1>0, <3>1 DEF Places
    <3>4. ASSUME NEW d \in Callers PROVE Paced(d)'
      <4>1. Paced(d)
        BY <1>0
      <4>2. CASE d # c
        <5>1. stage'[d] = stage[d] /\ tries'[d] = tries[d] /\ left'[d] = left[d]
          BY <1>0, <3>1, <4>2
        <5> QED
          BY <3>1, <4>1, <5>1 DEF Paced, Answered
      <4>3. CASE d = c
        <5>1. stage'[c] = "waiting" /\ tries'[c] = tries[c] + 1 /\ left'[c] = Second
          BY <1>0, <3>1
        <5>2. elapsed[c] <= tries[c] * Second
          BY <3>1, <4>1, <4>3 DEF Paced
        <5>3. elapsed[c] \in Nat /\ tries[c] \in 0..MaxTries
          BY <1>0
        <5>4. tries[c] * Second \in Nat /\ (tries[c] + 1) * Second = tries[c] * Second + Second
          BY <5>3, TryTime
        <5>5. elapsed[c] + Second <= (tries[c] + 1) * Second
          BY <5>2, <5>3, <5>4, CallNumbers
        <5>6. elapsed'[c] + left'[c] <= tries'[c] * Second
          BY <3>1, <5>1, <5>5
        <5>7. ~Answered(c)'
          BY <3>1 DEF Answered
        <5> QED
          BY <4>3, <5>1, <5>6, <5>7 DEF Paced
      <4> QED
        BY <4>2, <4>3
    <3> QED
      BY <1>a, <3>2, <3>3, <3>4
  <2> QED
    BY <2>1, <2>2
<1>3. ASSUME NEW c \in Callers, stage' = [stage EXCEPT ![c] = "looping"],
             \/ stage[c] = "woken" /\ left' = [left EXCEPT ![c] = 0] /\ ~Answered(c)
             \/ stage[c] = "waiting" /\ left[c] = 0 /\ left' = left,
             UNCHANGED <<call, tries, elapsed, requests, responses, age, signals, calls, stopping>>
      PROVE  CallInv'
  <2>1. Typed' /\ Places'
    BY <1>0, <1>3, CallNumbers DEF Places
  <2>2. ASSUME NEW d \in Callers PROVE Paced(d)'
    <3>1. Paced(d) /\ elapsed[d] \in Nat /\ left[d] \in Nat
      BY <1>0, CallNumbers
    <3>2. CASE d # c
      <4>1. stage'[d] = stage[d] /\ left'[d] = left[d]
        BY <1>0, <1>3, <3>2
      <4> QED
        BY <1>3, <3>1, <4>1 DEF Paced, Answered
    <3>3. CASE d = c
      <4>1. stage'[c] = "looping"
        BY <1>0, <1>3
      <4>2. elapsed[c] <= tries[c] * Second
        BY <1>3, <3>1, <3>3 DEF Paced
      <4> QED
        BY <1>3, <3>1, <3>3, <4>1, <4>2 DEF Paced, Answered
    <3> QED
      BY <3>2, <3>3
  <2> QED
    BY <1>a, <2>1, <2>2
<1>4. ASSUME NEW c \in Callers, Rescan(c) PROVE CallInv'
  <2>1. CASE Take(c)
    BY <1>4, <2>1, TakeKeeps DEF Rescan
  <2>2. CASE ~Take(c)
    <3>1. /\ stage[c] = "woken" /\ ~Answered(c)
          /\ stage' = [stage EXCEPT ![c] = "looping"] /\ left' = [left EXCEPT ![c] = 0]
          /\ UNCHANGED <<call, tries, elapsed, requests, responses, age, signals, calls, stopping>>
      BY <1>4, <2>2 DEF Rescan, respVars
    <3>2. \/ stage[c] = "woken" /\ left' = [left EXCEPT ![c] = 0] /\ ~Answered(c)
          \/ stage[c] = "waiting" /\ left[c] = 0 /\ left' = left
      BY <3>1, Zenon
    <3> QED
      BY <1>3, <3>1, <3>2, Zenon
  <2> QED
    BY <2>1, <2>2
<1>5. ASSUME NEW c \in Callers, TimedOut(c) PROVE CallInv'
  BY <1>3, <1>5 DEF TimedOut, respVars
<1>6. ASSUME NEW c \in Callers, GiveUp(c) PROVE CallInv'
  <2>1. Return(c) /\ UNCHANGED <<calls, requests, responses, age, signals, stopping>>
    BY <1>6 DEF GiveUp, respVars
  <2>2. /\ \A d \in Callers : Paced(d)'
        /\ call' \in [Callers -> 0..MaxCalls]
        /\ stage' \in [Callers -> {"idle", "looping", "waiting", "woken"}]
        /\ tries' \in [Callers -> 0..MaxTries] /\ left' \in [Callers -> 0..Second]
        /\ elapsed' \in [Callers -> Nat]
    BY <2>1, ReturnPaced
  <2> QED
    BY <1>0, <1>a, <2>1, <2>2 DEF Places
<1>7. ASSUME NEW k \in Call, Answer(k) PROVE CallInv'
  <2>1. /\ k \in requests /\ requests' = requests \ {k} /\ responses' = responses \cup {k}
        /\ age' = [age EXCEPT ![k] = 0] /\ signals' = signals + 1
        /\ UNCHANGED <<calls, call, stage, tries, left, elapsed, stopping>>
    BY <1>7 DEF Answer, callVars
  <2>2. Typed'
    BY <1>0, <2>1, CallNumbers
  <2>3. Places'
    <3>1. Cardinality(requests') = Cardinality(requests) - 1
      BY <1>f, <2>1, FS_RemoveElement
    <3> QED
      BY <1>0, <1>f, <2>1, <3>1, CallNumbers DEF Places
  <2>4. ASSUME NEW d \in Callers PROVE Paced(d)'
    <3>1. Paced(d) /\ left[d] \in 0..Second /\ call[d] \in 0..MaxCalls
      BY <1>0
    <3>2. CASE call[d] # k
      <4>1. age'[call[d]] = age[call[d]]
        BY <1>0, <2>1, <3>2
      <4> QED
        BY <2>1, <3>1, <3>2, <4>1 DEF Paced, Answered
    <3>3. CASE call[d] = k
      <4>1. age'[call[d]] = 0
        BY <1>0, <2>1, <3>3
      <4> QED
        BY <2>1, <3>1, <4>1, CallNumbers DEF Paced, Answered
    <3> QED
      BY <3>2, <3>3
  <2> QED
    BY <1>a, <2>2, <2>3, <2>4
<1>8. ASSUME Signal PROVE CallInv'
  <2>1. signals > 0 /\ signals' = signals - 1
        /\ UNCHANGED <<calls, call, tries, left, elapsed, requests, responses, age, stopping>>
    BY <1>8 DEF Signal
  <2>2. stage' = stage \/ \E c \in Callers : stage[c] = "waiting" /\ stage' = [stage EXCEPT ![c] = "woken"]
    BY <1>8 DEF Signal, Asleep
  <2>3. Typed'
    BY <1>0, <2>1, <2>2
  <2>4. Places'
    BY <1>0, <1>f, <2>1, CallNumbers DEF Places
  <2>5. ASSUME NEW d \in Callers PROVE Paced(d)'
    <3>1. Paced(d) /\ left[d] \in Nat /\ elapsed[d] \in Nat /\ call[d] \in 0..MaxCalls
          /\ tries[d] \in 0..MaxTries
      BY <1>0, CallNumbers
    <3>2. stage'[d] = stage[d] \/ (stage[d] = "waiting" /\ stage'[d] = "woken")
      BY <1>0, <2>2
    <3>3. tries[d] * Second \in Nat
      BY <3>1, TryTime
    <3>4. Answered(d) => age[call[d]] \in Nat
      BY <1>0, CallNumbers DEF Answered, Places, Call, Oldest
    <3> QED
      BY <2>1, <3>1, <3>2, <3>3, <3>4, CallNumbers DEF Paced, Answered
  <2> QED
    BY <1>a, <2>3, <2>4, <2>5
<1>9. ASSUME Expire PROVE CallInv'
  <2>1. /\ responses' \subseteq responses
        /\ age' = [k \in Call |-> IF k \in responses' THEN age[k] ELSE 0]
        /\ UNCHANGED <<calls, call, stage, tries, left, elapsed, requests, signals, stopping>>
    BY <1>9 DEF Expire, callVars
  <2>2. Typed' /\ Places'
    BY <1>0, <2>1, CallNumbers DEF Places, Oldest
  <2>3. \A k \in responses' : age'[k] = age[k]
    BY <1>0, <2>1, CallNumbers DEF Places, Call
  <2>4. ASSUME NEW d \in Callers PROVE Paced(d)'
    <3>1. Paced(d)
      BY <1>0
    <3> QED
      BY <2>1, <2>3, <3>1 DEF Paced, Answered
  <2> QED
    BY <1>a, <2>2, <2>4
<1>10. ASSUME Stop PROVE CallInv'
  BY <1>0, <1>10 DEF Stop, callVars, respVars, CallInv, Places, Paced, Answered
<1>11. ASSUME Tick PROVE CallInv'
  <2>1. /\ \A c \in Callers : stage[c] = "idle" \/ (stage[c] = "waiting" /\ left[c] > 0)
        /\ left' = [c \in Callers |-> IF stage[c] = "waiting" THEN left[c] - 1 ELSE 0]
        /\ elapsed' = [c \in Callers |-> IF stage[c] = "waiting" THEN elapsed[c] + 1 ELSE 0]
        /\ age' = [k \in Call |-> IF k \in responses /\ age[k] < Oldest THEN age[k] + 1 ELSE age[k]]
        /\ UNCHANGED <<calls, call, stage, tries, requests, responses, signals, stopping>>
    BY <1>11 DEF Tick
  <2>2. Typed' /\ Places'
    <3>1. left' \in [Callers -> 0..Second]
      BY <1>0, <2>1, CallNumbers
    <3>2. elapsed' \in [Callers -> Nat]
      BY <1>0, <2>1
    <3>3. age' \in [Call -> 0..Oldest]
      BY <1>0, <2>1, CallNumbers DEF Oldest
    <3> QED
      BY <1>0, <2>1, <3>1, <3>2, <3>3 DEF Places
  <2>3. ASSUME NEW d \in Callers PROVE Paced(d)'
    <3>1. Paced(d) /\ left[d] \in 0..Second /\ elapsed[d] \in Nat /\ tries[d] \in 0..MaxTries
          /\ call[d] \in 0..MaxCalls
      BY <1>0
    <3>2. CASE stage[d] = "idle"
      <4>1. ~Answered(d)' /\ stage'[d] = "idle" /\ elapsed'[d] = 0 /\ call'[d] = 0
        BY <1>0, <2>1, <3>1, <3>2 DEF Paced, Answered, Places
      <4>2. tries'[d] * Second \in Nat
        BY <2>1, <3>1, TryTime
      <4> QED
        BY <4>1, <4>2 DEF Paced
    <3>3. CASE stage[d] = "waiting" /\ left[d] > 0
      <4>1. left'[d] = left[d] - 1 /\ elapsed'[d] = elapsed[d] + 1 /\ stage'[d] = "waiting"
        BY <2>1, <3>3
      <4>2. elapsed'[d] + left'[d] <= tries'[d] * Second
        <5>1. elapsed[d] + left[d] <= tries[d] * Second /\ tries[d] * Second \in Nat
          BY <3>1, <3>3, TryTime DEF Paced
        <5>2. elapsed'[d] + left'[d] = elapsed[d] + left[d]
          BY <3>1, <4>1
        <5> QED
          BY <2>1, <5>1, <5>2
      <4>3. Answered(d)' => age'[call'[d]] + left'[d] <= Second /\ age'[call'[d]] <= Second
        <5>1. SUFFICES ASSUME Answered(d) PROVE age'[call[d]] + left'[d] <= Second /\ age'[call[d]] <= Second
          BY <2>1 DEF Answered
        <5>2. call[d] \in Call /\ call[d] \in responses /\ age[call[d]] \in 0..Oldest
          BY <1>0, <5>1, CallNumbers DEF Answered, Places, Call
        <5>3. age[call[d]] + left[d] <= Second
          BY <3>1, <3>3, <5>1 DEF Paced
        <5>4. age'[call[d]] <= age[call[d]] + 1 /\ age'[call[d]] \in Nat
          BY <2>1, <5>2, CallNumbers
        <5> QED
          BY <3>1, <3>3, <4>1, <5>2, <5>3, <5>4, CallNumbers
      <4> QED
        BY <4>1, <4>2, <4>3 DEF Paced
    <3> QED
      BY <2>1, <3>2, <3>3
  <2> QED
    BY <1>a, <2>2, <2>3
<1>12. ASSUME UNCHANGED scriptCallVars PROVE CallInv'
  BY <1>0, <1>12 DEF scriptCallVars, callVars, respVars, CallInv, Places, Paced, Answered
<1> QED
  BY <1>1, <1>2, <1>4, <1>5, <1>6, <1>7, <1>8, <1>9, <1>10, <1>11, <1>12 DEF ScriptCallNext, Run

LEMMA CallInvAlways == ScriptCallSpec => []CallInv
  BY CallInit, CallStep, PTL DEF ScriptCallSpec

(* Whatever thread a push wakes, a response waits at most a second for its *)
(* caller, and a call no longer than its tries, for any threads, tries and *)
(* timeouts (interface_mympd_api.c:77).                                    *)
THEOREM CallsPromptHolds == ScriptCallSpec => []CallsPrompt
  BY CallInvPrompt, CallInvAlways, PTL

(* The expiry never takes the response of a call that runs, and a call     *)
(* takes no response but its own (scripts.c:137, interface_mympd_api.c:77).*)
THEOREM ResponsesReachHolds == ScriptCallSpec => ResponsesReach
<1>1. CallInv /\ [ScriptCallNext]_scriptCallVars =>
        [Expire => \A c \in Callers : Answered(c) => Answered(c)']_scriptCallVars
  <2>1. SUFFICES ASSUME CallInv, Expire, NEW c \in Callers, Answered(c) PROVE Answered(c)'
    OBVIOUS
  <2>2. age[call[c]] <= Second /\ age[call[c]] \in Nat
    BY <2>1, CallNumbers DEF CallInv, Paced, Places, Answered, Call, Oldest
  <2>3. age[call[c]] <= MaxAge
    BY <2>2, CallNumbers
  <2> QED
    BY <2>1, <2>3 DEF Expire, Answered, callVars
<1>2. CallInv /\ [ScriptCallNext]_scriptCallVars =>
        [\A c \in Callers : stage[c] # "idle" /\ stage'[c] = "idle" =>
           responses \ {call[c]} \subseteq responses']_scriptCallVars
  <2>1. SUFFICES ASSUME CallInv, ScriptCallNext, NEW c \in Callers, stage[c] # "idle", stage'[c] = "idle"
                 PROVE  responses \ {call[c]} \subseteq responses'
    OBVIOUS
  <2>2. stage \in [Callers -> {"idle", "looping", "waiting", "woken"}]
    BY <2>1 DEF CallInv
  <2>3. ASSUME NEW d \in Callers, Take(d) PROVE d = c /\ responses \ {call[c]} \subseteq responses'
    BY <2>1, <2>2, <2>3 DEF Take, Return
  <2>4. ASSUME NEW d \in Callers, MakeCall(d) \/ Run(d)
        PROVE  responses \ {call[c]} \subseteq responses'
    BY <2>3, <2>4 DEF MakeCall, Run, Try, Rescan, TimedOut, GiveUp, respVars
  <2>5. ~Expire
    BY <2>1, <2>2 DEF Expire, callVars
  <2>6. ASSUME NEW k \in Call, Answer(k) PROVE responses \ {call[c]} \subseteq responses'
    BY <2>6 DEF Answer
  <2> QED
    BY <2>1, <2>4, <2>5, <2>6 DEF ScriptCallNext, Signal, Stop, Tick, respVars
<1> QED
  BY <1>1, <1>2, CallInvAlways, PTL DEF ScriptCallSpec, ResponsesReach, ExpiryKeepsLive, OwnResponseOnly

-----------------------------------------------------------------------------
(* The loop of the api thread.                                             *)

\* The inductive invariant.  Links: the list of the partitions, their state and
\* pfds.  A descriptor belongs to a partition of the list or to one that was
\* freed, and to the list alone unless a refill is due.
Events  == {"partition", "queue", "jukebox"}
Linked  == {"disconnected", "connected", "failure"}
Modes   == {"null", "open", "idle"}
LinksOK(ps, st, ev) ==
  /\ ps \subseteq Partition /\ Default \in ps
  /\ st \in [Partition -> Linked] /\ ev \in [Partition -> SUBSET Events]
  /\ \A p \in Partition : st[p] = "connected" \/ "queue" \in ev[p] => p \in ps
FdsOK(fs, ps, fr, rep) ==
  /\ fs \subseteq PollFd
  /\ \A f \in fs : f[2] \in ps \cup fr /\ (~rep => f[2] \in ps \ fr)
Links ==
  /\ LinksOK(parts, state, events) /\ FdsOK(fds, parts, freed, repopulate)
  /\ repopulate \in BOOLEAN /\ ready \subseteq fds /\ cur \in Partition
  /\ named \subseteq Others /\ conn \in [Partition -> Modes]

\* The round.  Before the queue is read there is no request; then the loop
\* keeps it until the loop of mympd_client_idle comes to its partition, which
\* lies ahead as long as it is connected.
Connects == {"connect", "options", "features", "list", "switch", "status", "autostart",
             "enter_idle"}
Idles    == {"visit", "early", "noidle", "parse", "jukebox", "handle", "reenter", "leave"}
Open     == {"early", "noidle", "parse", "jukebox", "handle"}

Ahead(p) == \E i, j \in 1..Len(Order) : j < i /\ Order[j] = cur /\ Order[i] = p

NotConnected == request.for \in Partition /\ state[request.for] # "connected"
Waiting ==
  /\ request \in Request
  /\ request.for \in Partition /\ state[request.for] = "connected" =>
       /\ "queue" \in events[request.for]
       /\ Ahead(request.for) \/ (pc = "visit" /\ cur = request.for)

NoRequestYet == request = NoRequest /\ holder = "nobody" /\ answers = 0
Taken ==
  \/ holder = "nobody" /\ answers = 0 /\ (request = NoRequest \/ NotConnected)
  \/ holder = "loop" /\ answers = 0 /\ Waiting
  \/ holder = "partition" /\ answers = 1 /\ pc \notin {"early", "handle"}
  \/ holder = "partition" /\ answers = 0 /\ pc \in Open /\ request.for = cur
QueueEvents ==
  \A p \in Partition : "queue" \in events[p] =>
    /\ pc \in Idles \cup Crashed
    /\ pc \in Idles => p = request.for /\ (p = cur \/ Ahead(p))

Control ==
  /\ pc \in InLoop \cup Crashed /\ QueueEvents
  /\ pc \in Connects => cur \in parts
  /\ pc \in {"features", "list"} => cur = Default
  /\ pc \in Connects \cup {"dispatch"} => NoRequestYet
  /\ pc \in Idles => Taken
  /\ pc \in {"early", "handle"} => holder = "partition"
  /\ AnsweredOnce

LoopInv == Links /\ Control

-----------------------------------------------------------------------------
(* What a call with MPD does to the partitions: no connection appears, no   *)
(* queue event appears, and one of a connected partition stays.             *)
Calm ==
  /\ LinksOK(parts', state', events') /\ conn' \in [Partition -> Modes]
  /\ \A p \in Partition : state'[p] = "connected" =>
       /\ state[p] = "connected"
       /\ "queue" \in events[p] => "queue" \in events'[p]
  /\ \A p \in Partition : "queue" \in events'[p] => "queue" \in events[p]
  /\ parts \cup freed \subseteq parts' \cup freed'
  /\ repopulate' \in BOOLEAN
  /\ ~repopulate' => ~repopulate /\ parts' = parts /\ freed' = freed

LEMMA Defaults == Default \in Partition /\ Unknown \notin Partition
BY LoopAssumption DEF Partition, Default

(* A change of the list or of connections is calm if what is added is new   *)
(* and the default partition is not removed (connection.c:166).             *)
LEMMA UpdateCalm ==
  ASSUME Links, NEW added, NEW removed, NEW lost, NEW closed, NEW given,
         added \subseteq Partition \ parts, removed \subseteq parts \ {Default},
         (added \cup removed) \cap (lost \cup closed) = {},
         Update(added, removed, lost, closed, given)
  PROVE  Calm
<1> USE Defaults
<1> DEFINE down == added \cup removed \cup lost \cup closed
<1>1. /\ parts' = (parts \cup added) \ removed
      /\ state' = [p \in Partition |-> IF p \in down THEN "disconnected" ELSE state[p]]
      /\ events' = [p \in Partition |->
                      CASE p \in added \cup removed -> {}
                        [] p \in lost \cup closed   -> events[p] \ {"partition"}
                        [] OTHER                    -> events[p]]
      /\ freed' = freed \cup removed
      /\ repopulate' = (repopulate \/ added \cup removed \cup (lost \cup closed) # {})
  BY DEF Update, PollChanges
<1>2. /\ parts \subseteq Partition /\ Default \in parts /\ repopulate \in BOOLEAN
      /\ state \in [Partition -> Linked] /\ events \in [Partition -> SUBSET Events]
      /\ \A p \in Partition : state[p] = "connected" \/ "queue" \in events[p] => p \in parts
  BY DEF Links, LinksOK
<1>3. ASSUME NEW p \in Partition
      PROVE  /\ events'[p] \subseteq events[p] /\ events'[p] \subseteq Events
             /\ p \notin added \cup removed /\ "queue" \in events[p] => "queue" \in events'[p]
             /\ p \in added \cup removed => events'[p] = {}
  <2>1. CASE p \in added \cup removed
    <3>1. p \notin lost \cup closed
      BY <2>1
    <3>2. events'[p] = {}
      BY <1>1, <2>1, <3>1
    <3>3. QED
      BY <3>2, <2>1
  <2>2. CASE p \notin added \cup removed /\ p \in lost \cup closed
    <3>1. events'[p] = events[p] \ {"partition"}
      BY <1>1, <2>2
    <3>2. QED
      BY <3>1, <2>2, <1>2
  <2>3. CASE p \notin added \cup removed /\ p \notin lost \cup closed
    <3>1. events'[p] = events[p]
      BY <1>1, <2>3
    <3>2. QED
      BY <3>1, <2>3, <1>2
  <2>4. QED
    BY <2>1, <2>2, <2>3
<1>4. ASSUME NEW p \in Partition
      PROVE  /\ state'[p] = (IF p \in down THEN "disconnected" ELSE state[p])
             /\ state'[p] \in Linked
  BY <1>1, <1>2 DEF Linked
<1>5. state' \in [Partition -> Linked] /\ events' \in [Partition -> SUBSET Events]
  <2>1. state' \in [Partition -> Linked]
    BY <1>1, <1>2 DEF Linked
  <2>2. DOMAIN events' = Partition /\ events' = [p \in Partition |-> events'[p]]
    BY <1>1
  <2>3. QED
    BY <2>1, <2>2, <1>3
<1>6. \A p \in Partition : state'[p] = "connected" \/ "queue" \in events'[p] => p \in parts'
  BY <1>1, <1>2, <1>3, <1>4
<1>7. LinksOK(parts', state', events')
  BY <1>1, <1>2, <1>5, <1>6 DEF LinksOK
<1>8. \A p \in Partition : state'[p] = "connected" =>
        state[p] = "connected" /\ ("queue" \in events[p] => "queue" \in events'[p])
  BY <1>3, <1>4
<1>9. /\ parts \cup freed \subseteq parts' \cup freed' /\ repopulate' \in BOOLEAN
      /\ ~repopulate' => ~repopulate /\ parts' = parts /\ freed' = freed
  BY <1>1, <1>2
<1>10. conn' \in [Partition -> Modes]
  BY DEF Update, Links, Modes
<1>11. QED
  BY <1>3, <1>7, <1>8, <1>9, <1>10 DEF Calm


LEMMA StillCalm ==
  ASSUME Links, UNCHANGED <<parts, state, events, repopulate, freed>>,
         conn' = conn \/ \E p \in Partition, mode \in Modes : conn' = [conn EXCEPT ![p] = mode]
  PROVE  Calm
BY DEF Links, LinksOK, Calm

LEMMA FailureCalm ==
  ASSUME Links, NEW p \in Partition, SetFailure(p) \/ Disconnect(p)
  PROVE  Calm /\ state'[p] # "connected" /\ named' = named
<1>1. Calm
  BY UpdateCalm DEF SetFailure, Disconnect
<1>2. state'[p] # "connected"
  BY DEF SetFailure, Disconnect, Update
<1>3. QED
  BY <1>1, <1>2 DEF SetFailure, Disconnect

(* A command may end anywhere, but never with more connections              *)
(* (errorhandler.c:144).                                                    *)
LEMMA CommandCalm ==
  ASSUME Links, NEW p \in Partition, NEW good, NEW bad, Command(p, good, bad)
  PROVE  Calm /\ pc' \in {good, bad, "null_connection"} /\ named' = named
<1>1. CASE UNCHANGED links
  BY <1>1, StillCalm DEF links, Command
<1>2. CASE SetFailure(p)
  BY <1>2, FailureCalm DEF Command, links
<1>3. QED
  BY <1>1, <1>2 DEF Command

(* idle and noidle that fail end the connection (idle.c:216).               *)
LEMMA SendCalm ==
  ASSUME Links, NEW p \in Partition, NEW mode \in Modes, NEW good, NEW bad,
         Send(p, mode, good, bad)
  PROVE  /\ Calm /\ pc' \in {good, bad, "null_connection"} /\ named' = named
         /\ pc' \in {good, "null_connection"} \/ state'[p] # "connected"
<1>1. CASE pc' = "null_connection" /\ UNCHANGED links
  BY <1>1, StillCalm DEF links
<1>2. CASE /\ pc' = good /\ conn' = [conn EXCEPT ![p] = mode]
           /\ UNCHANGED <<parts, state, timer, events, repopulate, freed, named, abandoned>>
  BY <1>2, StillCalm
<1>3. CASE pc' = bad /\ SetFailure(p)
  BY <1>3, FailureCalm
<1>4. QED
  BY <1>1, <1>2, <1>3 DEF Send

(* What MPD names is added, what it does not name is freed                  *)
(* (mympd_client/partitions.c).                                             *)
LEMMA PopulateCalm ==
  ASSUME Links, NEW target, PartitionsPopulate(target)
  PROVE  Calm /\ pc' \in {target, "null_connection"} /\ named' = named
<1>1. CASE UNCHANGED links
  BY <1>1, StillCalm DEF PartitionsPopulate, links
<1>2. ASSUME Update(named \ parts, (parts \ named) \ {Default}, {}, {}, {}) PROVE Calm
  BY <1>2, UpdateCalm, Defaults DEF Others, Links, LinksOK
<1>3. ASSUME NEW S \in SUBSET (named \ parts), NEW lost \in SUBSET {Default},
             Update(S, {}, lost, {}, {})
      PROVE  Calm
  BY <1>3, UpdateCalm, Defaults DEF Others, Links, LinksOK
<1>4. QED
  BY <1>1, <1>2, <1>3 DEF PartitionsPopulate, links

(* MYMPD_API_PARTITION_RM and MYMPD_API_CONNECTION_SAVE                     *)
(* (mympd_api/partitions.c, mympd_api_handler.c:546).                       *)
LEMMA PartitionRmCalm ==
  ASSUME Links, NEW t \in Partition, NEW target, PartitionRm(t, target)
  PROVE  Calm /\ pc' = target /\ named' \subseteq named
<1>1. CASE UNCHANGED links
  BY <1>1, StillCalm DEF links, PartitionRm
<1>2. CASE Update({}, {}, {}, {t}, {t}) /\ named' = named \ {t}
  BY <1>2, UpdateCalm DEF PartitionRm
<1>3. CASE (\E lost \in SUBSET {cur} : Update({}, {}, lost, {t}, {t})) /\ named' = named
  BY <1>3, UpdateCalm DEF PartitionRm
<1>4. CASE SetFailure(t)
  BY <1>4, FailureCalm DEF PartitionRm, links
<1>5. CASE /\ conn' = [conn EXCEPT ![t] = "open"]
           /\ UNCHANGED <<parts, state, timer, events, repopulate, freed, named>>
  BY <1>5, StillCalm DEF PartitionRm, links, Modes
<1>6. QED
  BY <1>1, <1>2, <1>3, <1>4, <1>5 DEF PartitionRm

LEMMA ConnectionSaveCalm ==
  ASSUME Links, NEW target, ConnectionSave(target)
  PROVE  Calm /\ pc' \in {target, "null_connection", "freed_partition"} /\ named' = named
<1>1. CASE pc' = target /\ UNCHANGED links
  BY <1>1, StillCalm DEF links
<1>2. CASE Command(cur, target, target)
  BY <1>2, CommandCalm DEF Links
<1>3. CASE Update({}, parts \ {Default}, {Default}, {}, {}) /\ pc' \in {target, "freed_partition"}
  BY <1>3, UpdateCalm DEF ConnectionSave, Command, links, SetFailure
<1>4. QED
  BY <1>1, <1>2, <1>3 DEF ConnectionSave

(* A handler counts one answer, whatever it does to the connections.        *)
LEMMA HandlerCalm ==
  ASSUME Links, NEW target, Handler(target) \/ Respond(target)
  PROVE  /\ Calm /\ pc' \in {target, "null_connection", "freed_partition"}
         /\ named' \subseteq named /\ answers' = answers + 1
<1>1. CASE pc' = target /\ UNCHANGED links
  BY <1>1, StillCalm DEF links, Handler, Respond
<1>2. CASE Command(cur, target, target)
  BY <1>2, CommandCalm DEF Links, Handler, Respond
<1>3. CASE ConnectionSave(target)
  BY <1>3, ConnectionSaveCalm DEF Handler, Respond
<1>4. CASE \E t \in Partition : PartitionRm(t, target)
  BY <1>4, PartitionRmCalm DEF Handler, Respond
<1>5. QED
  <2>1. Respond(target) => pc' = target /\ UNCHANGED links
    BY DEF Respond
  <2>2. Handler(target) => \/ pc' = target /\ UNCHANGED links
                         \/ Command(cur, target, target)
                         \/ ConnectionSave(target)
                         \/ \E t \in Partition : PartitionRm(t, target)
    BY DEF Handler
  <2>3. QED
    BY <1>1, <1>2, <1>3, <1>4, <2>1, <2>2

(* A calm step keeps pfds and the list.                                     *)
LEMMA CalmKeepsLinks ==
  ASSUME Links, Calm, named' \subseteq named, UNCHANGED fds, ready' \subseteq ready,
         cur' \in Partition
  PROVE  Links'
BY DEF Links, Calm, FdsOK

-----------------------------------------------------------------------------
(* The round: a step of mympd_client_idle that is calm and leaves the       *)
(* request with its owner.                                                  *)
LEMMA OwnerKept ==
  ASSUME Links, pc \in Idles, pc # "visit", Taken, Calm, UNCHANGED <<cur, request>>
  PROVE  /\ NotConnected => NotConnected'
         /\ Waiting => Waiting'
         /\ holder = "nobody" /\ UNCHANGED <<holder, answers>> => Taken'
         /\ holder = "loop" /\ UNCHANGED <<holder, answers>> => Taken'
<1>1. NotConnected => NotConnected'
  BY DEF NotConnected, Calm
<1>2. Waiting => Waiting'
  BY DEF Waiting, Calm, Ahead
<1>3. holder = "nobody" => answers = 0 /\ (request = NoRequest \/ NotConnected)
  BY DEF Taken
<1>4. holder = "loop" => answers = 0 /\ Waiting
  BY DEF Taken
<1>5. QED
  BY <1>1, <1>2, <1>3, <1>4 DEF Taken

LEMMA IdleKeeps ==
  ASSUME LoopInv, pc \in Idles, pc' \in Idles \cup Crashed, Calm,
         named' \subseteq named, UNCHANGED <<cur, request, fds, ready>>,
         pc' \in Idles => Taken', pc' \in {"early", "handle"} => holder' = "partition"
  PROVE  LoopInv'
<1>1. Links'
  BY CalmKeepsLinks DEF LoopInv, Links
<1>2. QueueEvents'
  BY DEF LoopInv, Control, QueueEvents, Calm, Ahead, Idles, Crashed
<1>3. /\ pc' \in InLoop \cup Crashed /\ pc' \notin Connects \cup {"dispatch"} /\ pc' # "poll"
  BY DEF InLoop, Crashed, Idles, Connects
<1>4. AnsweredOnce'
  BY <1>3 DEF AnsweredOnce
<1>5. QED
  BY <1>1, <1>2, <1>3, <1>4 DEF LoopInv, Control, Connects

LEMMA VisitKeeps == ASSUME LoopInv, Visit PROVE LoopInv'
<1>1. /\ pc = "visit" /\ pc' \in {"early", "leave", "noidle"} /\ Calm /\ Taken
      /\ UNCHANGED <<cur, request, fds, ready, named, answers, state, events>>
  BY StillCalm DEF Visit, inIdle, links, LoopInv, Control, Idles
<1>2. CASE Mine
  <2>1. holder = "loop" /\ answers = 0 /\ holder' = "partition" /\ pc' # "leave"
    BY <1>1, <1>2 DEF Visit, Mine, Taken
  <2>2. request.for = cur
    BY <1>1, <1>2 DEF Mine, LoopInv, Control, QueueEvents, Links, Idles
  <2>3. Taken'
    BY <1>1, <2>1, <2>2 DEF Taken, Open
  <2>4. QED
    BY <1>1, <2>1, <2>3, IdleKeeps DEF Idles
<1>3. CASE ~Mine
  <2>1. holder' = holder /\ pc' # "early"
    BY <1>3 DEF Visit
  <2>2. Waiting /\ holder = "loop" => Waiting'
    BY <1>1, <1>3, <2>1 DEF Waiting, Mine, Ahead
  <2>3. Taken'
    BY <1>1, <2>1, <2>2 DEF Taken, Open, NotConnected
  <2>4. QED
    BY <1>1, <2>1, <2>3, IdleKeeps DEF Idles
<1>4. QED
  BY <1>2, <1>3

LEMMA NoidleKeeps == ASSUME LoopInv, Noidle PROVE LoopInv'
<1>1. /\ pc = "noidle" /\ Taken /\ cur \in Partition /\ Links
      /\ UNCHANGED <<cur, request, fds, ready, answers>>
      /\ Send(cur, "open", "parse", "leave")
      /\ holder' = IF pc' = "leave" /\ answers = 0 /\ holder = "partition" THEN "nobody" ELSE holder
  BY DEF Noidle, inIdle, LoopInv, Control, Idles, Links
<1>2. /\ Calm /\ named' = named /\ pc' \in {"parse", "leave", "null_connection"}
      /\ pc' = "leave" => state'[cur] # "connected"
  BY <1>1, SendCalm DEF Modes
<1>3. ASSUME pc' # "null_connection" PROVE Taken'
  <2>1. CASE pc' = "leave" /\ answers = 0 /\ holder = "partition"
    <3>1. request.for = cur
      BY <1>1, <2>1 DEF Taken
    <3>2. QED
      BY <1>1, <1>2, <2>1, <3>1 DEF Taken, NotConnected
  <2>2. CASE ~(pc' = "leave" /\ answers = 0 /\ holder = "partition")
    <3>1. holder' = holder
      BY <1>1, <2>2
    <3>2. CASE holder \in {"nobody", "loop"}
      BY <1>1, <1>2, <3>1, <3>2, OwnerKept DEF Idles
    <3>3. CASE holder = "partition"
      BY <1>1, <1>2, <1>3, <2>2, <3>1, <3>3 DEF Taken, Open
    <3>4. QED
      BY <1>1, <3>2, <3>3 DEF Taken
  <2>3. QED
    BY <2>1, <2>2
<1>4. QED
  BY <1>1, <1>2, <1>3, IdleKeeps DEF Idles, Crashed

\* a step before the request is handled, or after it was
LEMMA TakenKept ==
  ASSUME Links, Taken, Calm, UNCHANGED <<cur, request, holder, answers>>,
         pc \in Idles, pc # "visit", pc' \in Idles,
         holder = "partition" /\ answers = 0 => pc' \in Open,
         holder = "partition" /\ answers = 1 => pc' \notin {"early", "handle"}
  PROVE  Taken'
<1>1. CASE holder \in {"nobody", "loop"}
  BY <1>1, OwnerKept
<1>2. CASE holder = "partition"
  BY <1>2 DEF Taken
<1>3. QED
  BY <1>1, <1>2 DEF Taken

LEMMA IdleEventsKeep ==
  ASSUME LoopInv, IdleEvent \/ PartitionIdleEvent \/ Jukebox \/ ReenterIdle
  PROVE  LoopInv'
<1>1. /\ pc \in {"parse", "jukebox", "reenter"} /\ Taken /\ cur \in Partition /\ Links
      /\ UNCHANGED <<cur, request, fds, ready, answers, holder>>
  BY DEF IdleEvent, PartitionIdleEvent, Jukebox, ReenterIdle, inIdle, round, LoopInv, Control,
         Idles, Links
<1>2. CASE IdleEvent
  <2>1. pc = "parse" /\ Calm /\ named' = named /\ pc' \in {"parse", "null_connection"}
    BY <1>1, <1>2, CommandCalm DEF IdleEvent
  <2>2. pc' \in Idles => Taken'
    BY <1>1, <2>1, TakenKept DEF Idles, Open, Crashed
  <2>3. QED
    BY <1>1, <2>1, <2>2, IdleKeeps DEF Idles, Crashed
<1>3. CASE PartitionIdleEvent
  <2>1. pc = "parse" /\ Calm /\ named' = named /\ pc' \in {"jukebox", "null_connection"}
    BY <1>1, <1>3, PopulateCalm DEF PartitionIdleEvent
  <2>2. pc' \in Idles => Taken'
    BY <1>1, <2>1, TakenKept DEF Idles, Open, Crashed
  <2>3. QED
    BY <1>1, <2>1, <2>2, IdleKeeps DEF Idles, Crashed
<1>4. CASE Jukebox
  <2> DEFINE target == IF holder = "partition" /\ answers = 0 THEN "handle" ELSE "reenter"
  <2>1. Calm /\ named' = named /\ pc' \in {target, "null_connection"}
    BY <1>1, <1>4, CommandCalm, StillCalm DEF Jukebox, links
  <2>2. ASSUME pc' # "null_connection" PROVE Taken'
    BY <1>1, <2>1, <2>2, TakenKept DEF Idles, Open
  <2>3. QED
    BY <1>1, <2>1, <2>2, IdleKeeps DEF Idles, Crashed
<1>5. CASE ReenterIdle
  <2>1. pc = "reenter" /\ Calm /\ named' = named /\ pc' \in {"leave", "null_connection"}
    BY <1>1, <1>5, SendCalm, StillCalm DEF ReenterIdle, links, Modes
  <2>2. ASSUME pc' # "null_connection" PROVE Taken'
    BY <1>1, <2>1, <2>2, TakenKept DEF Idles, Taken, Open
  <2>3. QED
    BY <1>1, <2>1, <2>2, IdleKeeps DEF Idles, Crashed
<1>6. QED
  BY <1>2, <1>3, <1>4, <1>5

LEMMA HandlingKeeps ==
  ASSUME LoopInv, EarlyRequest \/ HandleRequest
  PROVE  LoopInv'
<1> DEFINE target == IF pc = "handle" THEN "reenter"
                   ELSE IF events[cur] = {"queue"} THEN "leave" ELSE "noidle"
<1>1. /\ pc \in {"early", "handle"} /\ Links /\ Taken
      /\ UNCHANGED <<cur, request, fds, ready, holder>>
      /\ Handler(target) \/ Respond(target)
  BY DEF EarlyRequest, HandleRequest, inIdle, LoopInv, Control, Idles
<1>2. holder = "partition" /\ answers = 0
  BY <1>1 DEF LoopInv, Control, Taken
<1> HIDE DEF target
<1>3. /\ Calm /\ pc' \in {target, "null_connection", "freed_partition"}
      /\ named' \subseteq named /\ answers' = 1
  BY <1>1, <1>2, HandlerCalm
<1>4. target \in {"reenter", "leave", "noidle"}
  BY DEF target
<1>5. ASSUME pc' \in Idles PROVE Taken'
  BY <1>1, <1>2, <1>3, <1>4, <1>5 DEF Taken, Idles
<1>6. QED
  BY <1>1, <1>3, <1>4, <1>5, IdleKeeps DEF Idles, Crashed

(* The loop goes to the partitions in the order of their list, so that one  *)
(* that lies ahead is the next one or still ahead (idle.c:60).              *)
LEMMA LeaveKeeps == ASSUME LoopInv, Leave PROVE LoopInv'
<1>1. /\ pc = "leave" /\ Links /\ Taken /\ QueueEvents /\ named' = named
      /\ events' = [events EXCEPT ![cur] = {}]
      /\ UNCHANGED <<parts, state, repopulate, freed, fds, ready, request, conn>>
  BY DEF Leave, LoopInv, Control, Idles
<1>2. /\ cur \in Partition /\ events \in [Partition -> SUBSET Events]
      /\ \A p \in Partition : state[p] = "connected" \/ "queue" \in events[p] => p \in parts
  BY <1>1 DEF Links, LinksOK
<1>3. \A p \in Partition : events'[p] = IF p = cur THEN {} ELSE events[p]
  BY <1>1, <1>2
<1>4. LinksOK(parts', state', events')
  <2>1. events' \in [Partition -> SUBSET Events]
    BY <1>1, <1>2
  <2>2. QED
    BY <1>1, <1>2, <1>3, <2>1 DEF Links, LinksOK
<1>5. \A p \in parts : Ahead(p) => \E i \in After(cur) : Order[i] = p
  BY DEF Ahead, After
<1>6. \A p \in Partition : "queue" \in events'[p] =>
        p = request.for /\ p # cur /\ p \in parts /\ Ahead(p)
  BY <1>1, <1>2, <1>3 DEF QueueEvents, Idles
<1>7. CASE After(cur) # {}
  <2>1. PICK i \in After(cur) : cur' = Order[i] /\ \A j \in After(cur) : i <= j
    BY <1>7 DEF Leave
  <2>2. pc' = "visit" /\ UNCHANGED <<holder, answers>>
    BY <1>7 DEF Leave
  <2>3. i \in 1..Len(Order) /\ cur' \in parts /\ cur' \in Partition
    BY <2>1, <1>1 DEF After, Links, LinksOK
  <2>4. \A p \in parts : Ahead(p) => p = cur' \/ Ahead(p)'
    <3>1. SUFFICES ASSUME NEW p \in parts, Ahead(p) PROVE p = cur' \/ Ahead(p)'
      OBVIOUS
    <3>2. PICK k \in After(cur) : Order[k] = p
      BY <1>5, <3>1
    <3>3. k \in 1..Len(Order) /\ i <= k
      BY <2>1, <3>2 DEF After
    <3>4. CASE i = k
      BY <2>1, <3>2, <3>4
    <3>5. CASE i # k
      BY <2>1, <2>3, <3>2, <3>3, <3>5 DEF Ahead
    <3>6. QED
      BY <3>4, <3>5
  <2>5. Links'
    BY <1>1, <1>4, <2>3 DEF Links, FdsOK
  <2>6. QueueEvents'
    BY <1>6, <1>1, <2>2, <2>4 DEF QueueEvents, Idles
  <2>7. Waiting => Waiting'
    <3>1. SUFFICES ASSUME Waiting, request.for \in Partition, state[request.for] = "connected"
                   PROVE  /\ "queue" \in events'[request.for]
                          /\ cur' = request.for \/ Ahead(request.for)'
      BY <1>1, <2>2 DEF Waiting
    <3>2. "queue" \in events[request.for] /\ Ahead(request.for)
      BY <3>1, <1>1 DEF Waiting
    <3>3. request.for # cur
      <4>1. PICK i1, j1 \in 1..Len(Order) : j1 < i1 /\ Order[j1] = cur /\ Order[i1] = request.for
        BY <3>2 DEF Ahead
      <4>2. QED
        BY <4>1, LoopAssumption
    <3>4. QED
      <4>1. request.for \in parts
        BY <1>2, <3>1
      <4>2. request' = request
        BY <1>1
      <4>3. cur' = request.for \/ Ahead(request.for)'
        BY <2>4, <3>2, <4>1, <4>2 DEF Ahead
      <4>4. QED
        BY <1>3, <3>1, <3>2, <3>3, <4>3
  <2>8. NotConnected => NotConnected'
    BY <1>1 DEF NotConnected
  <2>9. Taken'
    BY <1>1, <2>2, <2>7, <2>8 DEF Taken, Open
  <2>10. AnsweredOnce' /\ pc' \in InLoop /\ pc' \in Idles /\ pc' \notin Connects
    BY <2>2 DEF AnsweredOnce, InLoop, Idles, Connects
  <2>11. QED
    BY <2>2, <2>5, <2>6, <2>9, <2>10 DEF LoopInv, Control
<1>8. CASE After(cur) = {}
  <2>1. /\ pc' = "poll" /\ cur' = Default /\ holder' = "nobody"
        /\ answers' = IF holder = "loop" /\ request.type # "script" THEN answers + 1 ELSE answers
    BY <1>8 DEF Leave
  <2>2. \A p \in parts : ~Ahead(p)
    BY <1>5, <1>8
  <2>3. QueueEvents'
    BY <1>6, <2>2 DEF QueueEvents
  <2>4. Links'
    BY <1>1, <1>4, <2>1, Defaults DEF Links, FdsOK
  <2>5. AnsweredOnce'
    <3>1. SUFFICES ASSUME request # NoRequest
                   PROVE  \/ answers' = 1
                          \/ /\ answers' = 0
                             /\ IF request.for = Unknown THEN request.type = "script"
                                                         ELSE state[request.for] # "connected"
      BY <1>1 DEF AnsweredOnce
    <3>2. CASE holder = "nobody"
      BY <1>1, <2>1, <3>1, <3>2, Defaults DEF Taken, NotConnected
    <3>3. CASE holder = "partition"
      BY <1>1, <2>1, <3>3 DEF Taken, Open
    <3>4. CASE holder = "loop"
      <4>1. Waiting /\ answers = 0
        BY <1>1, <3>4 DEF Taken
      <4>2. request.for \in Partition => state[request.for] # "connected"
        BY <1>1, <1>2, <2>2, <4>1 DEF Waiting
      <4>3. request.for \in Partition \/ request.for = Unknown
        BY <4>1 DEF Waiting, Request
      <4>4. QED
        BY <2>1, <3>4, <4>1, <4>2, <4>3
    <3>5. QED
      BY <1>1, <3>2, <3>3, <3>4 DEF Taken
  <2>6. QED
    BY <2>1, <2>3, <2>4, <2>5 DEF LoopInv, Control, InLoop, Connects, Idles
<1>9. QED
  BY <1>7, <1>8

-----------------------------------------------------------------------------
(* The dispatch and the connection of a partition: there is no request yet. *)
LEMMA WakeKeeps ==
  ASSUME LoopInv, Links', pc \in Connects \cup {"dispatch"},
         pc' \in Connects \cup {"dispatch"} \cup Crashed, UNCHANGED round,
         \A p \in Partition : "queue" \in events'[p] => "queue" \in events[p],
         pc' \in Connects => cur' \in parts',
         pc' \in {"features", "list"} => cur' = Default
  PROVE  LoopInv'
<1>1. \A p \in Partition : "queue" \notin events[p]
  BY DEF LoopInv, Control, QueueEvents, Connects, Idles, Crashed
<1>2. /\ pc' \in InLoop \cup Crashed /\ pc' \notin Idles /\ pc' # "poll"
  BY DEF InLoop, Crashed, Idles, Connects
<1>3. NoRequestYet'
  BY DEF LoopInv, Control, round, NoRequestYet
<1>4. QueueEvents' /\ AnsweredOnce'
  BY <1>1, <1>2 DEF QueueEvents, AnsweredOnce
<1>5. QED
  BY <1>2, <1>3, <1>4 DEF LoopInv, Control, Idles

LEMMA DispatchKeeps ==
  ASSUME LoopInv, NEW f \in PollFd,
         PartitionEvent(f) \/ SocketError(f) \/ ConnectEvent(f) \/ FreedEvent(f)
  PROVE  LoopInv'
<1>1. /\ pc = "dispatch" /\ f \in ready /\ ready' \subseteq ready /\ UNCHANGED <<round, fds>>
      /\ Links /\ f[2] \in Partition /\ f[2] \in parts \cup freed
  BY DEF PartitionEvent, SocketError, ConnectEvent, FreedEvent, Handle, LoopInv, Links, FdsOK, PollFd
<1>2. CASE PartitionEvent(f)
  <2>1. /\ f[1] \in {"partition", "jukebox"} /\ pc' = pc
        /\ events' = [events EXCEPT ![f[2]] = @ \cup {f[1]}]
        /\ UNCHANGED <<parts, conn, state, repopulate, freed, named, cur>>
    BY <1>2 DEF PartitionEvent
  <2>2. \A p \in Partition : /\ events'[p] = IF p = f[2] THEN events[p] \cup {f[1]} ELSE events[p]
                             /\ "queue" \in events'[p] <=> "queue" \in events[p]
    BY <1>1, <2>1 DEF Links, LinksOK
  <2>3. events' \in [Partition -> SUBSET Events]
    BY <1>1, <2>1 DEF Links, LinksOK, Events
  <2>4. Calm
    BY <1>1, <2>1, <2>2, <2>3 DEF Calm, Links, LinksOK
  <2>5. Links'
    BY <1>1, <2>1, <2>4, CalmKeepsLinks DEF Links
  <2>6. QED
    BY <1>1, <2>1, <2>2, <2>5, WakeKeeps DEF Connects
<1>3. CASE SocketError(f)
  <2>1. Calm /\ UNCHANGED <<pc, cur, named>>
    BY <1>1, <1>3, UpdateCalm DEF SocketError
  <2>2. Links'
    BY <1>1, <2>1, CalmKeepsLinks DEF Links
  <2>3. QED
    BY <1>1, <2>1, <2>2, WakeKeeps DEF Calm, Connects
<1>4. CASE ConnectEvent(f) \/ FreedEvent(f)
  <2>1. Calm /\ named' = named /\ UNCHANGED <<parts, events>>
    BY <1>1, <1>4, StillCalm DEF ConnectEvent, FreedEvent, links
  <2>2. /\ cur' \in Partition /\ pc' \in {"connect", "freed_partition"}
        /\ pc' = "connect" => cur' \in parts
    BY <1>1, <1>4 DEF ConnectEvent, FreedEvent, Links
  <2>3. Links'
    BY <1>1, <2>1, <2>2, CalmKeepsLinks
  <2>4. QED
    BY <1>1, <2>1, <2>2, <2>3, WakeKeeps DEF Connects, Crashed
<1>5. QED
  BY <1>2, <1>3, <1>4

LEMMA QueueEventKeeps == ASSUME LoopInv, QueueEvent PROVE LoopInv'
<1>1. /\ pc = "dispatch" /\ Links /\ NoRequestYet /\ pc' = "visit" /\ cur' = Default
      /\ request' \in Requests \cup {NoRequest}
      /\ holder' = IF request' = NoRequest THEN "nobody" ELSE "loop"
      /\ events' = [p \in Partition |-> IF p \in parts /\ p = request'.for
                                        THEN events[p] \cup {"queue"} ELSE events[p]]
      /\ UNCHANGED <<parts, conn, state, repopulate, freed, named, fds, ready, answers>>
  BY DEF QueueEvent, LoopInv, Control
<1>2. \A p \in Partition : "queue" \notin events[p]
  BY <1>1 DEF LoopInv, Control, QueueEvents, Idles, Crashed
<1>3. \A p \in Partition : events'[p] = IF p \in parts /\ p = request'.for
                                       THEN events[p] \cup {"queue"} ELSE events[p]
  BY <1>1
<1>4. \A p \in Partition : "queue" \in events'[p] <=> p \in parts /\ p = request'.for
  BY <1>2, <1>3
<1>5. \A p \in Partition : p = cur' \/ Ahead(p)'
  <2>1. SUFFICES ASSUME NEW p \in Partition, p # Default
                 PROVE  \E i, j \in 1..Len(Order) : j < i /\ Order[j] = Default /\ Order[i] = p
    BY <1>1 DEF Ahead
  <2>2. PICK i \in 1..Len(Order) : Order[i] = p
    BY DEF Partition
  <2>3. 1 \in 1..Len(Order) /\ Order[1] = Default /\ 1 < i
    BY <2>1, <2>2 DEF Default
  <2>4. QED
    BY <2>2, <2>3
<1>6. Links'
  <2>1. events' \in [Partition -> SUBSET Events]
    <3>1. \A p \in Partition : events'[p] \subseteq Events
      BY <1>1, <1>3 DEF Links, LinksOK, Events
    <3>2. QED
      BY <1>1, <3>1
  <2>2. LinksOK(parts', state', events')
    BY <1>1, <1>4, <2>1 DEF Links, LinksOK
  <2>3. QED
    BY <1>1, <2>2, Defaults DEF Links, FdsOK
<1>7. QueueEvents'
  BY <1>1, <1>4, <1>5 DEF QueueEvents, Idles
<1>8. Taken'
  <2>1. CASE request' = NoRequest
    BY <1>1, <2>1 DEF Taken, NoRequestYet
  <2>2. CASE request' # NoRequest
    <3>1. request' \in Request /\ holder' = "loop" /\ answers' = 0
      BY <1>1, <2>2, LoopAssumption DEF NoRequestYet
    <3>2. ASSUME request'.for \in Partition, state'[request'.for] = "connected"
          PROVE  /\ "queue" \in events'[request'.for]
                 /\ Ahead(request.for)' \/ cur' = request'.for
      <4>1. request'.for \in parts
        BY <1>1, <3>2 DEF Links, LinksOK
      <4>2. "queue" \in events'[request'.for]
        BY <1>4, <3>2, <4>1
      <4>3. Ahead(request.for)' \/ cur' = request'.for
        BY <1>5, <3>2 DEF Ahead
      <4>4. QED
        BY <4>2, <4>3
    <3>3. Waiting'
      BY <1>1, <3>1, <3>2 DEF Waiting
    <3>4. QED
      BY <3>1, <3>3 DEF Taken
  <2>3. QED
    BY <2>1, <2>2
<1>9. QED
  BY <1>1, <1>6, <1>7, <1>8 DEF LoopInv, Control, AnsweredOnce, InLoop, Idles, Connects

\* a call on the way to a connection keeps the partition in the list
LEMMA PartsKept ==
  ASSUME NEW p \in Partition, NEW good, NEW bad, NEW mode,
         \/ Command(p, good, bad) \/ Send(p, mode, good, bad)
         \/ SetFailure(p) \/ Disconnect(p)
  PROVE  parts' = parts
<1>1. ASSUME SetFailure(p) \/ Disconnect(p) PROVE parts' = parts
  BY <1>1 DEF SetFailure, Disconnect, Update
<1>2. QED
  BY <1>1 DEF Command, Send, links

LEMMA CallKeeps ==
  ASSUME LoopInv, pc \in Connects, Calm, parts' = parts \/ cur = Default, named' = named,
         UNCHANGED inConnect, pc' \in Connects \cup {"dispatch"} \cup Crashed,
         pc' \in {"features", "list"} => cur = Default
  PROVE  LoopInv'
<1>1. Links /\ cur \in parts /\ cur \in Partition /\ UNCHANGED <<cur, fds, ready, round>>
  BY DEF LoopInv, Control, inConnect, Links
<1>2. Links'
  BY <1>1, CalmKeepsLinks
<1>3. cur' \in parts'
  BY <1>1 DEF Calm, LinksOK
<1>4. QED
  BY <1>1, <1>2, <1>3, WakeKeeps DEF Calm

(* Only mympd_client_connect makes a connection, and of a partition of the  *)
(* list (connection.c).                                                     *)
LEMMA ConnectKeeps == ASSUME LoopInv, Connect PROVE LoopInv'
<1>1. /\ pc = "connect" /\ Links /\ cur \in parts /\ cur \in Partition
      /\ UNCHANGED <<cur, fds, ready, round>>
  BY DEF Connect, inConnect, LoopInv, Control, Links, Connects
<1>2. PICK c \in {"null", "open"}, s \in Linked, again \in BOOLEAN :
        SetLink(c, s, again) /\ pc' \in {"dispatch", "options"}
  BY DEF Connect, Linked
<1>3. /\ state' = [state EXCEPT ![cur] = s] /\ conn' = [conn EXCEPT ![cur] = c]
      /\ repopulate' = (repopulate \/ again) /\ UNCHANGED <<parts, events, freed, named>>
  BY <1>2 DEF SetLink
<1>4. /\ state' \in [Partition -> Linked]
      /\ \A p \in Partition : state'[p] = "connected" => p = cur \/ state[p] = "connected"
  BY <1>1, <1>3 DEF Links, LinksOK
<1>5. LinksOK(parts', state', events')
  BY <1>1, <1>3, <1>4 DEF Links, LinksOK
<1>6. conn' \in [Partition -> Modes]
  BY <1>1, <1>3 DEF Links, Modes
<1>7. Links'
  BY <1>1, <1>3, <1>5, <1>6 DEF Links, FdsOK
<1>8. QED
  BY <1>1, <1>2, <1>3, <1>7, WakeKeeps DEF Connects

LEMMA ConnectingKeeps == ASSUME LoopInv, Connecting PROVE LoopInv'
<1>1. Links /\ cur \in Partition
  BY DEF LoopInv, Links
<1>2. CASE Connect
  BY <1>2, ConnectKeeps
<1>3. CASE SetOptions
  <2> DEFINE target == IF cur = Default THEN "features" ELSE "switch"
  <2>1. pc = "options" /\ UNCHANGED inConnect /\ Command(cur, target, target)
    BY <1>3 DEF SetOptions
  <2>2. /\ Calm /\ pc' \in {target, "null_connection"} /\ named' = named /\ parts' = parts
    BY <1>1, <2>1, CommandCalm, PartsKept
  <2>3. QED
    BY <2>1, <2>2, CallKeeps DEF Connects, Crashed
<1>4. CASE Features
  <2>1. /\ pc = "features" /\ UNCHANGED inConnect /\ cur = Default
        /\ Command(cur, "list", "list") \/ (pc' = "dispatch" /\ UNCHANGED links)
    BY <1>4 DEF Features, LoopInv, Control
  <2>2. Calm /\ pc' \in {"list", "dispatch", "null_connection"} /\ named' = named
    BY <1>1, <2>1, CommandCalm, StillCalm DEF links
  <2>3. QED
    BY <2>1, <2>2, CallKeeps DEF Connects, Crashed
<1>5. CASE ListPartitions
  <2>1. /\ pc = "list" /\ UNCHANGED inConnect /\ cur = Default /\ PartitionsPopulate("status")
    BY <1>5 DEF ListPartitions, LoopInv, Control
  <2>2. Calm /\ pc' \in {"status", "null_connection"} /\ named' = named
    BY <1>1, <2>1, PopulateCalm
  <2>3. QED
    BY <2>1, <2>2, CallKeeps DEF Connects, Crashed
<1>6. CASE SwitchPartition
  <2>1. /\ pc = "switch" /\ UNCHANGED inConnect
        /\ \/ Command(cur, "status", "dispatch")
           \/ pc' = "dispatch" /\ Disconnect(cur)
    BY <1>6 DEF SwitchPartition
  <2>2. Calm /\ pc' \in {"status", "dispatch", "null_connection"} /\ named' = named /\ parts' = parts
    BY <1>1, <2>1, CommandCalm, FailureCalm, PartsKept
  <2>3. QED
    BY <2>1, <2>2, CallKeeps DEF Connects, Crashed
<1>7. CASE Status
  <2>1. pc = "status" /\ UNCHANGED inConnect /\ pc' \in {"autostart", "null_connection"}
        /\ UNCHANGED <<parts, events, freed, named>>
    BY <1>7 DEF Status, links
  <2>2. \/ UNCHANGED <<state, repopulate>>
        \/ repopulate' = TRUE /\ state' = [state EXCEPT ![cur] = "disconnected"]
    BY <1>7 DEF Status, links
  <2>3. /\ state' \in [Partition -> Linked]
        /\ \A p \in Partition : state'[p] = "connected" => state[p] = "connected"
    BY <1>1, <2>2 DEF Links, LinksOK, Linked
  <2>4. conn' \in [Partition -> Modes]
    BY <1>1, <1>7 DEF Status, links, Links, Modes
  <2>5. Calm
    BY <1>1, <2>1, <2>2, <2>3, <2>4 DEF Links, LinksOK, Calm
  <2>6. QED
    BY <2>1, <2>5, CallKeeps DEF Connects, Crashed
<1>8. CASE Autostart
  <2>1. /\ pc = "autostart" /\ UNCHANGED inConnect
        /\ Command(cur, "enter_idle", "enter_idle") \/ (pc' = "enter_idle" /\ UNCHANGED links)
    BY <1>8 DEF Autostart
  <2>2. Calm /\ pc' \in {"enter_idle", "null_connection"} /\ named' = named /\ parts' = parts
    BY <1>1, <2>1, CommandCalm, StillCalm, PartsKept DEF links
  <2>3. QED
    BY <2>1, <2>2, CallKeeps DEF Connects, Crashed
<1>9. CASE EnterIdle
  <2>1. pc = "enter_idle" /\ UNCHANGED inConnect /\ Send(cur, "idle", "dispatch", "dispatch")
    BY <1>9 DEF EnterIdle
  <2>2. Calm /\ pc' \in {"dispatch", "null_connection"} /\ named' = named /\ parts' = parts
    BY <1>1, <2>1, SendCalm, PartsKept DEF Modes
  <2>3. QED
    BY <2>1, <2>2, CallKeeps DEF Connects, Crashed
<1>10. QED
  BY <1>2, <1>3, <1>4, <1>5, <1>6, <1>7, <1>8, <1>9 DEF Connecting

LEMMA PollKeeps == ASSUME LoopInv, NEW F \in SUBSET PollFd, Poll(F) PROVE LoopInv'
<1>1. /\ pc = "poll" /\ pc' = "dispatch" /\ F \subseteq fds' /\ ready' = F /\ repopulate' = FALSE
      /\ fds' = (IF repopulate THEN PollFds ELSE fds)
      /\ freed' = (IF repopulate THEN {} ELSE freed)
      /\ request' = NoRequest /\ holder' = "nobody" /\ answers' = 0
      /\ UNCHANGED <<cur, parts, conn, state, events, named>>
  BY DEF Poll
<1>2. Links /\ QueueEvents
  BY DEF LoopInv, Control
<1>3. FdsOK(fds', parts', freed', repopulate')
  <2>1. CASE repopulate
    BY <1>1, <1>2, <2>1 DEF FdsOK, PollFds
  <2>2. CASE ~repopulate
    BY <1>1, <1>2, <2>2 DEF FdsOK, Links
  <2>3. QED
    BY <2>1, <2>2
<1>4. Links'
  BY <1>1, <1>2, <1>3 DEF Links, LinksOK
<1>5. QueueEvents'
  BY <1>1, <1>2 DEF QueueEvents, Idles, Crashed
<1>6. QED
  BY <1>1, <1>4, <1>5 DEF LoopInv, Control, NoRequestYet, AnsweredOnce, InLoop, Connects, Idles

-----------------------------------------------------------------------------
LEMMA LoopInvInit == Init => LoopInv
<1> SUFFICES ASSUME Init PROVE LoopInv
  OBVIOUS
<1>1. LinksOK(parts, state, events)
  <2>1. parts \subseteq Partition /\ Default \in parts
    BY Defaults DEF Init
  <2>2. state \in [Partition -> Linked] /\ events \in [Partition -> SUBSET Events]
    BY DEF Init, Linked
  <2>3. \A p \in Partition : state[p] = "disconnected" /\ events[p] = {}
    BY DEF Init
  <2>4. QED
    BY <2>1, <2>2, <2>3 DEF LinksOK
<1>2. Links
  BY <1>1, Defaults DEF Init, Links, FdsOK, Modes
<1>3. QueueEvents
  BY DEF Init, QueueEvents
<1>4. QED
  BY <1>2, <1>3 DEF Init, LoopInv, Control, AnsweredOnce, InLoop, Connects, Idles

LEMMA LoopInvStep == LoopInv /\ [Next]_vars => LoopInv'
<1> SUFFICES ASSUME LoopInv, [Next]_vars PROVE LoopInv'
  OBVIOUS
<1>1. CASE Dispatch
  BY <1>1, DispatchKeeps, QueueEventKeeps DEF Dispatch
<1>2. CASE Connecting
  BY <1>2, ConnectingKeeps
<1>3. CASE Idling
  BY <1>3, VisitKeeps, HandlingKeeps, NoidleKeeps, IdleEventsKeep, LeaveKeeps DEF Idling
<1>4. CASE Heal \/ MpdChanges
  <2>1. /\ UNCHANGED <<pc, cur, parts, conn, state, events, repopulate, freed, fds, ready, round>>
        /\ named' \subseteq Others
    BY <1>4 DEF Heal, MpdChanges, links, LoopInv, Links
  <2>2. Links'
    BY <2>1 DEF LoopInv, Links, LinksOK, FdsOK
  <2>3. QED
    BY <2>1, <2>2 DEF LoopInv, Control, QueueEvents, Ahead, Taken, Waiting, NotConnected, NoRequestYet,
                      AnsweredOnce, round
<1>5. ASSUME NEW F \in SUBSET PollFd, Poll(F) PROVE LoopInv'
  BY <1>5, PollKeeps
<1>6. CASE UNCHANGED vars
  BY <1>6 DEF vars, links, round, LoopInv, Links, LinksOK, FdsOK, Control, QueueEvents, Ahead, Taken,
              Waiting, NotConnected, NoRequestYet, AnsweredOnce
<1>7. QED
  BY <1>1, <1>2, <1>3, <1>4, <1>5, <1>6 DEF Next, Thread

(* However connections break, partitions come and go and requests arrive,   *)
(* a request is answered at most once in its round, and not at all only if  *)
(* the connection of its partition is lost or a script named a partition    *)
(* that does not exist (mympd_client_idle, mympd_api_loop).                 *)
THEOREM AnsweredAtMostOnce == Spec => []AnsweredOnce
<1>1. LoopInv => AnsweredOnce
  BY DEF LoopInv, Control
<1>2. QED
  BY <1>1, LoopInvInit, LoopInvStep, PTL DEF Spec

(* When the thread sleeps and no refill is due, pfds names no partition     *)
(* that was freed (populate_pfds, mympd_client_disconnect_silent).          *)
THEOREM NoFreedEntryHolds == Spec => []NoFreedEntry
<1>1. LoopInv => NoFreedEntry
  BY DEF LoopInv, Links, FdsOK, NoFreedEntry
<1>2. QED
  BY <1>1, LoopInvInit, LoopInvStep, PTL DEF Spec

-----------------------------------------------------------------------------
(* Attended.  Between the calls each partition is in idle mode or waits for *)
(* its connect timer; the one that is being connected or worked on is open. *)
Armed(p)  == state[p] # "connected" /\ p \in timer
IdleIn(p) == state[p] = "connected" /\ conn[p] = "idle" /\ p \notin timer
OpenIn(p) == state[p] = "connected" /\ conn[p] = "open"

AtRest   == {"poll", "dispatch", "visit", "early", "noidle", "leave"}
Arming   == {"options", "features", "list", "switch", "status"}
Disarmed == {"autostart", "enter_idle"}
Working  == {"parse", "jukebox", "handle", "reenter"}

Resting == \A p \in parts \ abandoned : p # cur \/ pc \in AtRest => Armed(p) \/ IdleIn(p)
Current ==
  /\ pc \in Arming \cup {"connect"} => cur \in timer
  /\ pc \in Arming => conn[cur] = "null" \/ OpenIn(cur)
  /\ pc \in Disarmed => conn[cur] = "null" \/ (OpenIn(cur) /\ cur \notin timer)
  /\ pc \in Working /\ cur \in parts \ abandoned => Armed(cur) \/ (OpenIn(cur) /\ cur \notin timer)
TimersReady ==
  /\ pc \in Connects \cup {"dispatch"} =>
       \A p \in Partition : <<"connect", p>> \in ready => p \in timer \cup freed
  /\ pc \in Connects => <<"connect", cur>> \notin ready
Polled ==
  ~repopulate => \A p \in parts :
    /\ <<"connect", p>> \in fds
    /\ p \notin abandoned /\ state[p] = "connected" => <<"partition", p>> \in fds

Looked == Resting /\ Current /\ TimersReady /\ Polled
WInv   == LoopInv /\ (stop \/ pc \in Crashed \/ Looked)

\* What a call does to a partition: the connect timer is armed, or nothing
Same(p) == state'[p] = state[p] /\ conn'[p] = conn[p] /\ (p \in timer' <=> p \in timer)
Watched(p) ==
  p \in parts' \ abandoned' =>
    \/ state'[p] # "connected" /\ p \in timer'
    \/ p \in parts \ abandoned /\ Same(p)
Watch ==
  /\ \A p \in Partition : p # cur => Watched(p)
  /\ timer \cup freed \subseteq timer' \cup freed'
  /\ ~repopulate' => abandoned \subseteq abandoned'

LEMMA UpdateWatch ==
  ASSUME Links, NEW added, NEW removed, NEW lost, NEW closed, NEW given,
         added \subseteq Partition, closed \subseteq given \cup timer,
         Update(added, removed, lost, closed, given)
  PROVE  Watch /\ Watched(cur)
<1> DEFINE down == added \cup removed \cup lost \cup closed
<1>1. /\ parts' = (parts \cup added) \ removed
      /\ conn' = [p \in Partition |-> IF p \in down THEN "null" ELSE conn[p]]
      /\ state' = [p \in Partition |-> IF p \in down THEN "disconnected" ELSE state[p]]
      /\ timer' = (timer \cup added \cup lost) \ removed
      /\ repopulate' = (repopulate \/ added \cup removed \cup (lost \cup closed) # {})
      /\ freed' = freed \cup removed /\ abandoned' = (abandoned \ down) \cup given
  BY DEF Update, PollChanges
<1>2. ASSUME NEW p \in Partition PROVE Watched(p)
  <2>1. CASE p \in down
    BY <1>1, <2>1 DEF Watched
  <2>2. CASE p \notin down
    BY <1>1, <2>2 DEF Watched, Same
  <2>3. QED
    BY <2>1, <2>2
<1>3. ~repopulate' => abandoned \subseteq abandoned'
  BY <1>1 DEF Links
<1>4. timer \cup freed \subseteq timer' \cup freed' /\ cur \in Partition
  BY <1>1 DEF Links
<1>5. QED
  BY <1>2, <1>3, <1>4 DEF Watch

LEMMA StillWatch ==
  ASSUME Links, UNCHANGED <<parts, conn, state, timer, freed, abandoned>>
  PROVE  Watch /\ Watched(cur)
BY DEF Watch, Watched, Same

LEMMA FailureWatch ==
  ASSUME Links, NEW p \in Partition, SetFailure(p) \/ (Disconnect(p) /\ p \in timer)
  PROVE  /\ Watch /\ Watched(cur) /\ conn'[p] = "null"
         /\ state'[p] # "connected" /\ p \in timer'
<1>1. Watch /\ Watched(cur)
  BY UpdateWatch DEF SetFailure, Disconnect
<1>2. conn'[p] = "null" /\ state'[p] # "connected" /\ p \in timer'
  BY DEF SetFailure, Disconnect, Update
<1>3. QED
  BY <1>1, <1>2

(* A failed call arms the timer of its partition (errorhandler.c:39).       *)
LEMMA CommandWatch ==
  ASSUME Links, NEW good, NEW bad, Command(cur, good, bad)
  PROVE  /\ Watch /\ Watched(cur) /\ (conn'[cur] = "null" \/ Same(cur))
         /\ timer \subseteq timer'
<1>1. CASE UNCHANGED links
  BY <1>1, StillWatch DEF links, Same
<1>2. CASE SetFailure(cur)
  <2>1. timer' = timer \cup {cur}
    BY <1>2 DEF SetFailure, Update
  <2>2. QED
    BY <1>2, <2>1, FailureWatch DEF Links
<1>3. QED
  BY <1>1, <1>2 DEF Command

LEMMA SendWatch ==
  ASSUME Links, NEW mode, NEW good, NEW bad, Send(cur, mode, good, bad)
  PROVE  /\ Watch
         /\ \/ pc' = "null_connection"
            \/ /\ pc' = good /\ conn' = [conn EXCEPT ![cur] = mode]
               /\ UNCHANGED <<parts, state, timer, events, repopulate, freed, named, abandoned>>
            \/ pc' = bad /\ state'[cur] # "connected" /\ cur \in timer'
<1>1. CASE pc' = "null_connection" /\ UNCHANGED links
  BY <1>1, StillWatch DEF links
<1>2. CASE /\ pc' = good /\ conn' = [conn EXCEPT ![cur] = mode]
           /\ UNCHANGED <<parts, state, timer, events, repopulate, freed, named, abandoned>>
  BY <1>2 DEF Watch, Watched, Same, Links
<1>3. CASE pc' = bad /\ SetFailure(cur)
  BY <1>3, FailureWatch DEF Links
<1>4. QED
  BY <1>1, <1>2, <1>3 DEF Send

LEMMA PopulateWatch ==
  ASSUME Links, NEW target, PartitionsPopulate(target)
  PROVE  /\ Watch /\ Watched(cur)
         /\ cur = Default /\ cur \in timer =>
              cur \in timer' /\ (conn'[cur] = "null" \/ Same(cur))
<1>1. CASE UNCHANGED links
  BY <1>1, StillWatch DEF links, Same
<1>2. ASSUME NEW S \in SUBSET (named \ parts), NEW R \in SUBSET (parts \ {Default}),
             NEW lost \in SUBSET {Default}, Update(S, R, lost, {}, {})
      PROVE  /\ Watch /\ Watched(cur)
             /\ cur = Default /\ cur \in timer =>
                  cur \in timer' /\ (conn'[cur] = "null" \/ Same(cur))
  <2>1. Watch /\ Watched(cur)
    BY <1>2, UpdateWatch DEF Links, Others
  <2>2. ASSUME cur = Default, cur \in timer
        PROVE  cur \in timer' /\ (conn'[cur] = "null" \/ Same(cur))
    <3>1. cur \notin S \cup R /\ cur \in Partition
      BY <1>2, <2>2 DEF Links, LinksOK
    <3>2. QED
      BY <1>2, <2>2, <3>1 DEF Update, Same
  <2>3. QED
    BY <2>1, <2>2
<1>3. CASE Update(named \ parts, (parts \ named) \ {Default}, {}, {}, {})
  BY <1>2, <1>3
<1>4. CASE \E S \in SUBSET (named \ parts) : \E lost \in SUBSET {Default} :
             Update(S, {}, lost, {}, {})
  BY <1>2, <1>4
<1>5. QED
  BY <1>1, <1>3, <1>4 DEF PartitionsPopulate

LEMMA HandlerWatch ==
  ASSUME Links, NEW target, Handler(target) \/ Respond(target)
  PROVE  Watch /\ Watched(cur)
<1>1. CASE UNCHANGED links
  BY <1>1, StillWatch DEF links
<1>2. CASE Command(cur, target, target)
  BY <1>2, CommandWatch
<1>3. CASE Update({}, parts \ {Default}, {Default}, {}, {})
  BY <1>3, UpdateWatch
<1>4. ASSUME NEW t \in Partition, PartitionRm(t, target)
      PROVE  Watch /\ Watched(cur)
  <2>1. CASE UNCHANGED links
    BY <2>1, StillWatch DEF links
  <2>2. ASSUME NEW lost \in SUBSET {cur}, Update({}, {}, lost, {t}, {t})
        PROVE  Watch /\ Watched(cur)
    BY <2>2, UpdateWatch
  <2>3. CASE SetFailure(t)
    BY <2>3, FailureWatch
  <2>4. CASE /\ conn' = [conn EXCEPT ![t] = "open"] /\ abandoned' = abandoned \cup {t}
             /\ UNCHANGED <<parts, state, timer, events, repopulate, freed, named>>
    BY <2>4 DEF Watch, Watched, Same, Links
  <2>5. \/ UNCHANGED links
        \/ \E lost \in SUBSET {cur} : Update({}, {}, lost, {t}, {t})
        \/ SetFailure(t)
        \/ /\ conn' = [conn EXCEPT ![t] = "open"] /\ abandoned' = abandoned \cup {t}
           /\ UNCHANGED <<parts, state, timer, events, repopulate, freed, named>>
    BY <1>4 DEF PartitionRm
  <2>6. QED
    BY <2>1, <2>2, <2>3, <2>4, <2>5
<1>5. \/ UNCHANGED links
      \/ Command(cur, target, target)
      \/ Update({}, parts \ {Default}, {Default}, {}, {})
      \/ \E t \in Partition : PartitionRm(t, target)
  BY DEF Handler, Respond, ConnectionSave
<1>6. QED
  BY <1>1, <1>2, <1>3, <1>4, <1>5

\* the partition the thread works on after a step
ArmedNext == state'[cur] # "connected" /\ cur \in timer'
RestNext  == cur \in parts' \ abandoned' =>
  ArmedNext \/ (state'[cur] = "connected" /\ conn'[cur] = "idle" /\ cur \notin timer')
WorkNext  == cur \in parts' \ abandoned' =>
  ArmedNext \/ (state'[cur] = "connected" /\ conn'[cur] = "open" /\ cur \notin timer')

LEMMA RestKept ==
  ASSUME Resting, pc \in AtRest, Watched(cur)
  PROVE  RestNext
BY DEF Resting, Armed, IdleIn, Watched, Same, RestNext, ArmedNext

LEMMA WorkKept ==
  ASSUME Current, pc \in Working, Watched(cur)
  PROVE  WorkNext
BY DEF Current, Armed, OpenIn, Watched, Same, WorkNext, ArmedNext

LEMMA WatchKeeps ==
  ASSUME Links, Calm, Watch, Resting, Polled, UNCHANGED <<cur, fds>>, pc' \in AtRest => RestNext
  PROVE  Resting' /\ Polled'
<1>1. Polled'
  BY DEF Polled, Calm, Watch, Links, LinksOK
<1>2. ASSUME NEW p \in parts' \ abandoned', p # cur \/ pc' \in AtRest
      PROVE  \/ state'[p] # "connected" /\ p \in timer'
             \/ state'[p] = "connected" /\ conn'[p] = "idle" /\ p \notin timer'
  <2>1. CASE p = cur
    BY <1>2, <2>1 DEF RestNext, ArmedNext
  <2>2. CASE p # cur
    <3>1. p \in Partition
      BY DEF Calm, LinksOK
    <3>2. Watched(p)
      BY <2>2, <3>1 DEF Watch
    <3>3. p \in parts \ abandoned => Armed(p) \/ IdleIn(p)
      BY <2>2 DEF Resting
    <3>4. QED
      BY <3>2, <3>3 DEF Watched, Same, Armed, IdleIn
  <2>3. QED
    BY <2>1, <2>2
<1>3. Resting'
  BY <1>2 DEF Resting, Armed, IdleIn
<1>4. QED
  BY <1>1, <1>3

LEMMA IdleWatch ==
  ASSUME Links, Calm, Watch, Resting, Polled, UNCHANGED <<cur, fds>>, pc' \in Idles,
         pc' \in AtRest => RestNext, pc' \in Working => WorkNext
  PROVE  Looked'
<1>1. pc' \notin Connects \cup {"dispatch"} /\ pc' \notin Arming \cup Disarmed \cup {"connect"}
  BY DEF Idles, Connects, Arming, Disarmed
<1>2. TimersReady'
  BY <1>1 DEF TimersReady
<1>3. Current'
  BY <1>1 DEF Current, WorkNext, ArmedNext, Armed, OpenIn
<1>4. QED
  BY <1>2, <1>3, WatchKeeps DEF Looked

LEMMA IdlingLooked ==
  ASSUME LoopInv, Looked, Idling
  PROVE  pc' \in Crashed \/ Looked'
<1> USE DEF Looked
<1>1. Links /\ cur \in Partition /\ conn \in [Partition -> Modes]
  BY DEF LoopInv, Links
<1>2. CASE Visit
  <2>1. UNCHANGED <<links, cur, fds>> /\ pc = "visit" /\ pc' \in {"early", "leave", "noidle"}
    BY <1>2 DEF Visit, inIdle
  <2>2. Calm /\ Watch /\ Watched(cur)
    BY <1>1, <2>1, StillCalm, StillWatch DEF links
  <2>3. RestNext
    BY <2>1, <2>2, RestKept DEF AtRest
  <2>4. QED
    BY <1>1, <2>1, <2>2, <2>3, IdleWatch DEF Idles, AtRest, Working
<1>3. CASE EarlyRequest
  <2> DEFINE target == IF events[cur] = {"queue"} THEN "leave" ELSE "noidle"
  <2>1. UNCHANGED <<cur, fds>> /\ pc = "early" /\ (Handler(target) \/ Respond(target))
    BY <1>3 DEF EarlyRequest, inIdle
  <2>2. /\ Calm /\ Watch /\ Watched(cur)
        /\ pc' \in {target, "null_connection", "freed_partition"}
    BY <1>1, <2>1, HandlerCalm, HandlerWatch
  <2>3. RestNext
    BY <2>1, <2>2, RestKept DEF AtRest
  <2>4. QED
    BY <1>1, <2>1, <2>2, <2>3, IdleWatch DEF Idles, AtRest, Working, Crashed
<1>4. CASE HandleRequest
  <2>1. UNCHANGED <<cur, fds>> /\ pc = "handle" /\ (Handler("reenter") \/ Respond("reenter"))
    BY <1>4 DEF HandleRequest, inIdle
  <2>2. /\ Calm /\ Watch /\ Watched(cur)
        /\ pc' \in {"reenter", "null_connection", "freed_partition"}
    BY <1>1, <2>1, HandlerCalm, HandlerWatch
  <2>3. WorkNext
    BY <2>1, <2>2, WorkKept DEF Working
  <2>4. QED
    BY <1>1, <2>1, <2>2, <2>3, IdleWatch DEF Idles, AtRest, Working, Crashed
<1>5. CASE IdleEvent \/ PartitionIdleEvent \/ Jukebox
  <2>1. UNCHANGED <<cur, fds>> /\ pc \in {"parse", "jukebox"}
    BY <1>5 DEF IdleEvent, PartitionIdleEvent, Jukebox, inIdle
  <2>2. /\ Calm /\ Watch /\ Watched(cur)
        /\ pc' \in {"parse", "jukebox", "handle", "reenter", "null_connection"}
    <3>1. CASE IdleEvent
      BY <1>1, <3>1, CommandCalm, CommandWatch DEF IdleEvent
    <3>2. CASE PartitionIdleEvent
      BY <1>1, <3>2, PopulateCalm, PopulateWatch DEF PartitionIdleEvent
    <3>3. CASE Jukebox
      <4> DEFINE target == IF holder = "partition" /\ answers = 0 THEN "handle" ELSE "reenter"
      <4>1. \/ pc' = target /\ UNCHANGED links
            \/ Command(cur, target, target)
        BY <3>3 DEF Jukebox
      <4>2. QED
        BY <1>1, <4>1, CommandCalm, CommandWatch, StillCalm, StillWatch DEF links
    <3>4. QED
      BY <1>5, <3>1, <3>2, <3>3
  <2>3. WorkNext
    BY <2>1, <2>2, WorkKept DEF Working
  <2>4. QED
    BY <1>1, <2>1, <2>2, <2>3, IdleWatch DEF Idles, AtRest, Working, Crashed
<1>6. CASE Noidle
  <2>1. UNCHANGED <<cur, fds>> /\ pc = "noidle" /\ Send(cur, "open", "parse", "leave")
    BY <1>6 DEF Noidle, inIdle
  <2>2. Calm /\ Watch
    BY <1>1, <2>1, SendCalm, SendWatch DEF Modes
  <2>3. \/ pc' = "null_connection"
        \/ /\ pc' = "parse" /\ conn' = [conn EXCEPT ![cur] = "open"]
           /\ UNCHANGED <<parts, state, timer, abandoned>>
        \/ pc' = "leave" /\ ArmedNext
    BY <1>1, <2>1, SendWatch DEF ArmedNext
  <2>4. pc' = "parse" => WorkNext
    BY <1>1, <2>1, <2>3 DEF Resting, AtRest, Armed, IdleIn, WorkNext, ArmedNext
  <2>5. QED
    BY <1>1, <2>1, <2>2, <2>3, <2>4, IdleWatch DEF Idles, AtRest, Working, Crashed, RestNext
<1>7. CASE ReenterIdle
  <2>1. UNCHANGED <<cur, fds>> /\ pc = "reenter"
    BY <1>7 DEF ReenterIdle, inIdle
  <2>2. CASE state[cur] = "connected"
    <3>1. Send(cur, "idle", "leave", "leave")
      BY <1>7, <2>2 DEF ReenterIdle
    <3>2. Calm /\ Watch
      BY <1>1, <3>1, SendCalm, SendWatch DEF Modes
    <3>3. \/ pc' = "null_connection"
          \/ /\ pc' = "leave" /\ conn' = [conn EXCEPT ![cur] = "idle"]
             /\ UNCHANGED <<parts, state, timer, abandoned>>
          \/ pc' = "leave" /\ ArmedNext
      BY <1>1, <3>1, SendWatch DEF ArmedNext
    <3>4. pc' = "leave" => RestNext
      BY <1>1, <2>1, <2>2, <3>3 DEF Current, Working, Armed, OpenIn, RestNext, ArmedNext
    <3>5. QED
      BY <1>1, <2>1, <3>2, <3>3, <3>4, IdleWatch DEF Idles, AtRest, Working, Crashed
  <2>3. CASE state[cur] # "connected"
    <3>1. pc' = "leave" /\ UNCHANGED links
      BY <1>7, <2>3 DEF ReenterIdle
    <3>2. Calm /\ Watch
      BY <1>1, <3>1, StillCalm, StillWatch DEF links
    <3>3. RestNext
      BY <2>1, <2>3, <3>1 DEF links, Current, Working, Armed, OpenIn, RestNext, ArmedNext
    <3>4. QED
      BY <1>1, <2>1, <3>1, <3>2, <3>3, IdleWatch DEF Idles, AtRest, Working
  <2>4. QED
    BY <2>2, <2>3
<1>8. CASE Leave
  <2>1. /\ pc = "leave" /\ pc' \in {"visit", "poll"}
        /\ UNCHANGED <<parts, conn, state, timer, repopulate, fds, abandoned>>
    BY <1>8 DEF Leave
  <2>2. Resting' /\ Polled'
    BY <2>1 DEF Resting, Polled, AtRest, Armed, IdleIn
  <2>3. Current' /\ TimersReady'
    BY <2>1 DEF Current, TimersReady, Arming, Disarmed, Working, Connects
  <2>4. QED
    BY <2>2, <2>3
<1>9. QED
  BY <1>2, <1>3, <1>4, <1>5, <1>6, <1>7, <1>8 DEF Idling

LEMMA ReadyKept ==
  ASSUME TimersReady, pc \in Connects \cup {"dispatch"}, ready' \subseteq ready,
         timer \cup freed \subseteq timer' \cup freed',
         pc' \in Connects => <<"connect", cur'>> \notin ready'
  PROVE  TimersReady'
BY DEF TimersReady

LEMMA DispatchLooked ==
  ASSUME LoopInv, Looked, Dispatch
  PROVE  pc' \in Crashed \/ Looked'
<1> USE DEF Looked
<1>1. Links /\ pc = "dispatch"
  BY DEF LoopInv, Dispatch, PartitionEvent, SocketError, ConnectEvent, FreedEvent, QueueEvent, Handle
<1>2. CASE QueueEvent
  <2>1. pc' = "visit" /\ UNCHANGED <<parts, conn, state, timer, repopulate, fds, abandoned>>
    BY <1>2 DEF QueueEvent
  <2>2. Resting' /\ Polled'
    BY <1>1, <2>1 DEF Resting, Polled, AtRest, Armed, IdleIn
  <2>3. Current' /\ TimersReady'
    BY <2>1 DEF Current, TimersReady, Arming, Disarmed, Working, Connects
  <2>4. QED
    BY <2>2, <2>3
<1>3. ASSUME NEW f \in PollFd, PartitionEvent(f)
      PROVE  Looked'
  <2>1. /\ pc' = "dispatch" /\ ready' \subseteq ready
        /\ UNCHANGED <<cur, parts, conn, state, timer, repopulate, freed, fds, abandoned>>
    BY <1>3, <1>1 DEF PartitionEvent, Handle, round
  <2>2. Resting' /\ Polled'
    BY <1>1, <2>1 DEF Resting, Polled, AtRest, Armed, IdleIn
  <2>3. Current' /\ TimersReady'
    BY <1>1, <2>1, ReadyKept DEF Current, Arming, Disarmed, Working, Connects
  <2>4. QED
    BY <2>2, <2>3
<1>4. ASSUME NEW f \in PollFd, SocketError(f)
      PROVE  Looked'
  <2>1. /\ pc' = "dispatch" /\ ready' \subseteq ready /\ UNCHANGED <<cur, fds>>
        /\ Update({}, {}, {}, {f[2]}, {f[2]}) /\ f[2] \in Partition
    BY <1>4, <1>1 DEF SocketError, Handle, PollFd
  <2>2. Calm /\ Watch /\ Watched(cur)
    BY <1>1, <2>1, UpdateCalm, UpdateWatch
  <2>3. Resting' /\ Polled'
    BY <1>1, <2>1, <2>2, RestKept, WatchKeeps DEF AtRest
  <2>4. Current' /\ TimersReady'
    BY <1>1, <2>1, <2>2, ReadyKept DEF Watch, Current, Arming, Disarmed, Working, Connects
  <2>5. QED
    BY <2>3, <2>4
<1>5. ASSUME NEW f \in PollFd, ConnectEvent(f)
      PROVE  Looked'
  <2>1. /\ pc' = "connect" /\ cur' = f[2] /\ f \in ready /\ ready' = ready \ {f}
        /\ f = <<"connect", f[2]>> /\ f[2] \in Partition /\ f[2] \notin freed
        /\ UNCHANGED <<parts, conn, state, timer, repopulate, freed, fds, abandoned>>
    BY <1>5, <1>1 DEF ConnectEvent, Handle, PollFd, links
  <2>2. Resting' /\ Polled'
    BY <1>1, <2>1 DEF Resting, Polled, AtRest, Armed, IdleIn
  <2>3. f[2] \in timer
    BY <1>1, <2>1 DEF TimersReady
  <2>4. Current'
    BY <2>1, <2>3 DEF Current, Arming, Disarmed, Working
  <2>5. TimersReady'
    BY <1>1, <2>1, ReadyKept
  <2>6. QED
    BY <2>2, <2>4, <2>5
<1>6. ASSUME NEW f \in PollFd, FreedEvent(f)
      PROVE  pc' \in Crashed
  BY <1>6 DEF FreedEvent, Crashed
<1>7. QED
  BY <1>2, <1>3, <1>4, <1>5, <1>6 DEF Dispatch

\* a call on the way to a connection
LEMMA CallLooked ==
  ASSUME Links, Calm, Watch, Looked, pc \in Connects, UNCHANGED <<cur, fds, ready>>,
         pc' \in Arming \cup Disarmed \cup {"dispatch"},
         pc' \in Arming => cur \in timer' /\ (conn'[cur] = "null" \/
                              (state'[cur] = "connected" /\ conn'[cur] = "open")),
         pc' \in Disarmed => conn'[cur] = "null" \/
           (state'[cur] = "connected" /\ conn'[cur] = "open" /\ cur \notin timer'),
         pc' = "dispatch" => RestNext
  PROVE  Looked'
<1>1. Resting' /\ Polled'
  BY WatchKeeps DEF Looked, AtRest, Arming, Disarmed
<1>2. Current'
  BY DEF Current, OpenIn, Arming, Disarmed, Working
<1>3. TimersReady'
  BY ReadyKept DEF Looked, Watch, TimersReady
<1>4. QED
  BY <1>1, <1>2, <1>3 DEF Looked

LEMMA ConnectingLooked ==
  ASSUME LoopInv, Looked, Connecting
  PROVE  stop' \/ pc' \in Crashed \/ Looked'
<1>1. /\ Links /\ cur \in Partition /\ UNCHANGED <<cur, fds, ready>> /\ conn \in [Partition -> Modes]
      /\ state \in [Partition -> Linked] /\ pc \in Connects /\ cur \in parts
  BY DEF LoopInv, Control, Links, LinksOK, Connecting, Connect, SetOptions, Features, ListPartitions,
         SwitchPartition, Status, Autostart, EnterIdle, inConnect, Connects
<1>2. CASE Connect
  <2>1. PICK c \in {"null", "open"}, s \in Linked, again \in BOOLEAN :
          /\ SetLink(c, s, again)
          /\ \/ pc' = "dispatch" /\ s # "connected"
             \/ pc' = "options" /\ s = "connected" /\ c = "open" /\ again
    BY <1>2 DEF Connect, Linked
  <2>2. /\ state' = [state EXCEPT ![cur] = s] /\ conn' = [conn EXCEPT ![cur] = c]
        /\ repopulate' = (repopulate \/ again)
        /\ UNCHANGED <<parts, timer, freed, abandoned>>
    BY <2>1 DEF SetLink
  <2>3. cur \in timer
    BY <1>2 DEF Connect, Looked, Current
  <2>4. \A p \in Partition : p # cur => state'[p] = state[p] /\ conn'[p] = conn[p]
    BY <1>1, <2>2
  <2>5. state'[cur] = s /\ conn'[cur] = c
    BY <1>1, <2>2
  <2>6. Polled'
    BY <1>1, <2>1, <2>2, <2>4, <2>5 DEF Looked, Polled, Links, LinksOK
  <2>7. Resting'
    BY <1>1, <2>1, <2>2, <2>3, <2>4, <2>5
       DEF Looked, Resting, Armed, IdleIn, AtRest, Links, LinksOK
  <2>8. Current' /\ TimersReady'
    BY <1>1, <2>1, <2>2, <2>3, <2>5, ReadyKept
       DEF Looked, Current, TimersReady, OpenIn, Arming, Disarmed, Working
  <2>9. QED
    BY <2>6, <2>7, <2>8 DEF Looked
<1>3. CASE SetOptions
  <2> DEFINE target == IF cur = Default THEN "features" ELSE "switch"
  <2>1. pc = "options" /\ Command(cur, target, target)
    BY <1>3 DEF SetOptions
  <2>2. Calm /\ Watch /\ pc' \in {target, "null_connection"} /\ timer \subseteq timer'
        /\ (conn'[cur] = "null" \/ Same(cur))
    BY <1>1, <2>1, CommandCalm, CommandWatch
  <2>3. QED
    BY <1>1, <2>1, <2>2, CallLooked DEF Looked, Current, OpenIn, Same, Arming, Disarmed, Crashed
<1>4. CASE Features
  <2>1. pc = "features" /\ (Command(cur, "list", "list") \/ stop')
    BY <1>4 DEF Features
  <2>2. CASE Command(cur, "list", "list")
    <3>1. Calm /\ Watch /\ pc' \in {"list", "null_connection"} /\ timer \subseteq timer'
          /\ (conn'[cur] = "null" \/ Same(cur))
      BY <1>1, <2>2, CommandCalm, CommandWatch
    <3>2. QED
      BY <1>1, <2>1, <3>1, CallLooked DEF Looked, Current, OpenIn, Same, Arming, Disarmed, Crashed
  <2>3. QED
    BY <2>1, <2>2
<1>5. CASE ListPartitions
  <2>1. pc = "list" /\ cur = Default /\ PartitionsPopulate("status") /\ cur \in timer
    BY <1>5 DEF ListPartitions, LoopInv, Control, Looked, Current, Arming
  <2>2. /\ Calm /\ Watch /\ pc' \in {"status", "null_connection"} /\ cur \in timer'
        /\ (conn'[cur] = "null" \/ Same(cur))
    BY <1>1, <2>1, PopulateCalm, PopulateWatch
  <2>3. QED
    BY <1>1, <2>1, <2>2, CallLooked DEF Looked, Current, OpenIn, Same, Arming, Disarmed, Crashed
<1>6. CASE SwitchPartition
  <2>1. pc = "switch" /\ cur \in timer /\ (conn[cur] = "null" \/ OpenIn(cur))
    BY <1>6 DEF SwitchPartition, Looked, Current, Arming
  <2>2. CASE SetFailure(cur) \/ Disconnect(cur)
    <3>1. Calm /\ Watch /\ ArmedNext /\ conn'[cur] = "null"
      BY <1>1, <2>1, <2>2, FailureCalm, FailureWatch DEF ArmedNext
    <3>2. pc' \in {"status", "dispatch", "null_connection"}
      BY <1>6 DEF SwitchPartition, Command
    <3>3. QED
      BY <1>1, <3>1, <3>2, CallLooked DEF RestNext, ArmedNext, Arming, Disarmed, Crashed
  <2>3. CASE UNCHANGED links /\ pc' \in {"status", "null_connection"}
    <3>1. Calm /\ Watch
      BY <1>1, <2>3, StillCalm, StillWatch DEF links
    <3>2. QED
      BY <1>1, <2>1, <2>3, <3>1, CallLooked DEF links, OpenIn, Arming, Disarmed, Crashed
  <2>4. SetFailure(cur) \/ Disconnect(cur) \/ (UNCHANGED links /\ pc' \in {"status", "null_connection"})
    BY <1>6 DEF SwitchPartition, Command
  <2>5. QED
    BY <2>2, <2>3, <2>4
<1>7. CASE Status
  <2>1. CASE pc' = "null_connection"
    BY <2>1 DEF Crashed
  <2>2. CASE pc' # "null_connection"
    <3>1. /\ pc = "status" /\ pc' = "autostart" /\ timer' = timer \ {cur} /\ conn[cur] # "null"
          /\ UNCHANGED <<parts, freed, abandoned>>
          /\ \/ UNCHANGED <<conn, state, repopulate>>
             \/ /\ repopulate' = TRUE /\ conn' = [conn EXCEPT ![cur] = "null"]
                /\ state' = [state EXCEPT ![cur] = "disconnected"]
      BY <1>7, <2>2 DEF Status
    <3>2. OpenIn(cur)
      BY <3>1 DEF Looked, Current, Arming
    <3>3. /\ \A p \in Partition : p # cur => state'[p] = state[p] /\ conn'[p] = conn[p]
          /\ conn'[cur] = "null" \/ (state'[cur] = "connected" /\ conn'[cur] = "open")
      BY <1>1, <3>1, <3>2 DEF OpenIn
    <3>4. Resting'
      BY <1>1, <3>1, <3>3 DEF Looked, Resting, Armed, IdleIn, AtRest, Links, LinksOK
    <3>5. Polled'
      <4>1. CASE repopulate' = TRUE
        BY <4>1 DEF Polled
      <4>2. CASE UNCHANGED <<state, repopulate>>
        BY <1>1, <3>1, <4>2 DEF Looked, Polled
      <4>3. QED
        BY <3>1, <4>1, <4>2
    <3>6. Current'
      BY <1>1, <3>1, <3>3 DEF Current, OpenIn, Arming, Disarmed, Working
    <3>7. TimersReady'
      BY <1>1, <3>1 DEF Looked, TimersReady, Connects
    <3>8. QED
      BY <3>4, <3>5, <3>6, <3>7 DEF Looked
  <2>3. QED
    BY <2>1, <2>2
<1>8. CASE Autostart
  <2>1. /\ pc = "autostart" /\ (conn[cur] = "null" \/ (OpenIn(cur) /\ cur \notin timer))
        /\ Command(cur, "enter_idle", "enter_idle") \/ (pc' = "enter_idle" /\ UNCHANGED links)
    BY <1>8 DEF Autostart, Looked, Current, Disarmed
  <2>2. /\ Calm /\ Watch /\ pc' \in {"enter_idle", "null_connection"}
        /\ (conn'[cur] = "null" \/ Same(cur))
    BY <1>1, <2>1, CommandCalm, CommandWatch, StillCalm, StillWatch DEF links, Same
  <2>3. QED
    BY <1>1, <2>1, <2>2, CallLooked DEF OpenIn, Same, Arming, Disarmed, Crashed
<1>9. CASE EnterIdle
  <2>1. /\ pc = "enter_idle" /\ Send(cur, "idle", "dispatch", "dispatch")
        /\ conn[cur] = "null" \/ (OpenIn(cur) /\ cur \notin timer)
    BY <1>9 DEF EnterIdle, Looked, Current, Disarmed
  <2>2. Calm /\ Watch
    BY <1>1, <2>1, SendCalm, SendWatch DEF Modes
  <2>3. \/ pc' = "null_connection"
        \/ /\ pc' = "dispatch" /\ conn' = [conn EXCEPT ![cur] = "idle"] /\ conn[cur] # "null"
           /\ UNCHANGED <<state, timer>>
        \/ pc' = "dispatch" /\ ArmedNext
    BY <1>1, <2>1, SendWatch DEF ArmedNext, Send
  <2>4. pc' = "dispatch" => RestNext
    BY <1>1, <2>1, <2>3 DEF OpenIn, RestNext, ArmedNext
  <2>5. QED
    BY <1>1, <2>2, <2>3, <2>4, CallLooked DEF Arming, Disarmed, Crashed
<1>10. QED
  BY <1>2, <1>3, <1>4, <1>5, <1>6, <1>7, <1>8, <1>9 DEF Connecting

LEMMA PollLooked ==
  ASSUME LoopInv, Looked, NEW F \in SUBSET PollFd, Poll(F)
  PROVE  Looked'
<1>1. /\ pc = "poll" /\ pc' = "dispatch" /\ ready' = F
      /\ \A f \in F : f[1] = "connect" => f[2] \in timer
      /\ fds' = (IF repopulate THEN PollFds ELSE fds)
      /\ UNCHANGED <<cur, parts, conn, state, timer, abandoned>>
  BY DEF Poll
<1>2. Resting' /\ Current'
  BY <1>1 DEF Looked, Resting, Current, Armed, IdleIn, AtRest, Arming, Disarmed, Working
<1>3. TimersReady'
  BY <1>1 DEF TimersReady, Connects
<1>4. Polled'
  <2>1. CASE repopulate
    <3>1. ASSUME NEW p \in parts
          PROVE  /\ <<"connect", p>> \in PollFds
                 /\ p \notin abandoned /\ state[p] = "connected" => <<"partition", p>> \in PollFds
      <4>1. p \in Partition
        BY DEF LoopInv, Links, LinksOK
      <4>2. <<"connect", p>> \in PollFds
        BY <4>1 DEF PollFds, PollFd
      <4>3. ASSUME p \notin abandoned, state[p] = "connected" PROVE <<"partition", p>> \in PollFds
        <5>1. conn[p] = "idle"
          BY <1>1, <4>3 DEF Looked, Resting, Armed, IdleIn, AtRest
        <5>2. QED
          BY <4>1, <5>1 DEF PollFds, PollFd
      <4>4. QED
        BY <4>2, <4>3
    <3>2. QED
      BY <1>1, <2>1, <3>1 DEF Polled
  <2>2. CASE ~repopulate
    BY <1>1, <2>2 DEF Looked, Polled
  <2>3. QED
    BY <2>1, <2>2
<1>5. QED
  BY <1>2, <1>3, <1>4 DEF Looked

LEMMA StopStays ==
  ASSUME Next, stop
  PROVE  stop'
<1>1. ASSUME NEW F \in SUBSET PollFd, Poll(F) PROVE stop'
  BY <1>1 DEF Poll
<1>2. CASE Dispatch
  BY <1>2 DEF Dispatch, PartitionEvent, SocketError, ConnectEvent, FreedEvent, QueueEvent
<1>3. CASE Connecting
  BY <1>3 DEF Connecting, Connect, SetOptions, Features, ListPartitions, SwitchPartition, Status,
              Autostart, EnterIdle
<1>4. CASE Idling
  BY <1>4 DEF Idling, Visit, EarlyRequest, Noidle, IdleEvent, PartitionIdleEvent, Jukebox,
              HandleRequest, ReenterIdle, Leave, inIdle
<1>5. CASE Heal \/ MpdChanges
  BY <1>5 DEF Heal, MpdChanges
<1>6. QED
  BY <1>1, <1>2, <1>3, <1>4, <1>5 DEF Next, Thread

LEMMA LookedStep ==
  ASSUME WInv, [Next]_vars
  PROVE  WInv'
<1>1. LoopInv /\ LoopInv'
  BY LoopInvStep DEF WInv
<1>2. CASE UNCHANGED vars
  BY <1>1, <1>2 DEF vars, links, round, WInv, Looked, Resting, Current, TimersReady, Polled, Armed,
                    IdleIn, OpenIn
<1>3. CASE stop /\ Next
  BY <1>1, <1>3, StopStays DEF WInv
<1>4. CASE pc \in Crashed /\ Next
  <2>1. pc \notin InLoop
    BY <1>4 DEF Crashed, InLoop
  <2>2. Next => pc \in InLoop
    <3>1. Dispatch => pc \in InLoop
      BY DEF Dispatch, PartitionEvent, SocketError, ConnectEvent, FreedEvent, QueueEvent, Handle, InLoop
    <3>2. Connecting => pc \in InLoop
      BY DEF Connecting, Connect, SetOptions, Features, ListPartitions, SwitchPartition, Status,
             Autostart, EnterIdle, InLoop
    <3>3. Idling => pc \in InLoop
      BY DEF Idling, Visit, EarlyRequest, Noidle, IdleEvent, PartitionIdleEvent, Jukebox,
             HandleRequest, ReenterIdle, Leave, InLoop
    <3>4. QED
      BY <3>1, <3>2, <3>3 DEF Next, Thread, Heal, MpdChanges, Poll, InLoop
  <2>3. QED
    BY <1>4, <2>1, <2>2
<1>5. CASE Looked /\ Next
  <2>1. CASE Dispatch
    BY <1>1, <1>5, <2>1, DispatchLooked DEF WInv
  <2>2. CASE Connecting
    BY <1>1, <1>5, <2>2, ConnectingLooked DEF WInv
  <2>3. CASE Idling
    BY <1>1, <1>5, <2>3, IdlingLooked DEF WInv
  <2>4. ASSUME NEW F \in SUBSET PollFd, Poll(F) PROVE Looked'
    BY <1>1, <1>5, <2>4, PollLooked
  <2>5. CASE Heal \/ MpdChanges
    BY <1>1, <1>5, <2>5 DEF Heal, MpdChanges, links, WInv, Looked, Resting, Current, TimersReady, Polled,
                            Armed, IdleIn, OpenIn
  <2>6. QED
    BY <1>1, <1>5, <2>1, <2>2, <2>3, <2>4, <2>5 DEF WInv, Next, Thread
<1>6. QED
  BY <1>2, <1>3, <1>4, <1>5 DEF WInv

(* Whenever the thread sleeps, each partition it has not given up on will   *)
(* wake it: it is in idle mode and polled, or its connect timer is armed    *)
(* and polled, whatever calls failed before and whatever partitions were    *)
(* added or removed (mympd_api_loop, partitions_connect,                    *)
(* mympd_client_idle, mympd_set_mpd_failure).                               *)
THEOREM AlwaysAttended == Spec => []Attended
<1>1. Init => WInv
  <2>1. ASSUME Init PROVE Looked
    <3>1. Default \in Partition => state[Default] = "disconnected"
      BY <2>1 DEF Init
    <3>2. /\ pc = "poll" /\ cur = Default /\ parts = {Default} /\ timer = {Default}
          /\ repopulate /\ abandoned = {}
      BY <2>1 DEF Init
    <3>3. Resting /\ Polled
      BY <3>1, <3>2, Defaults DEF Resting, Polled, Armed
    <3>4. Current /\ TimersReady
      BY <3>2 DEF Current, TimersReady, Arming, Disarmed, Working, Connects
    <3>5. QED
      BY <3>3, <3>4 DEF Looked
  <2>2. QED
    BY <2>1, LoopInvInit DEF WInv
<1>2. WInv => Attended
  <2>1. SUFFICES ASSUME WInv, pc = "poll", ~stop, NEW p \in parts \ abandoned
                 PROVE  \/ /\ state[p] = "connected" /\ conn[p] = "idle" /\ p \notin timer
                           /\ (repopulate \/ <<"partition", p>> \in fds)
                        \/ /\ state[p] # "connected" /\ p \in timer
                           /\ (repopulate \/ <<"connect", p>> \in fds)
    BY DEF Attended
  <2>2. Resting /\ Polled
    BY <2>1 DEF WInv, Looked, Crashed
  <2>3. QED
    BY <2>1, <2>2 DEF Resting, Polled, AtRest, Armed, IdleIn
<1>3. QED
  BY <1>1, <1>2, LookedStep, PTL DEF Spec
=============================================================================
