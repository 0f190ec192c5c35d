------------------------------ MODULE LinkedList ------------------------------
(***************************************************************************)
(* The doubly linked list that keeps triggers, timers, home icons,         *)
(* presets, last played songs, script variables and jukebox queues         *)
(* (lib/list/list.c, sort.c, shuffle.c).  A list is a record of its head,  *)
(* tail and length and of the links and keys of the nodes; each function   *)
(* of the code is an operator from lists to lists.  Positions count from   *)
(* 0, as in the code.  The callers hold the list for themselves.           *)
(***************************************************************************)
EXTENDS Integers, Sequences, SequencesExt, FiniteSets, FiniteSetsExt

CONSTANTS
  ListNodes,   \* addresses of nodes, numbers
  ListKeys     \* keys of nodes, numbers in the order of the sort

ASSUME LinkedListAssumption == ListNodes \subseteq Nat \ {0} /\ ListKeys \subseteq Int

NoNode == 0

VARIABLES
  linked,
  listCall   \* history: the last call and its arguments

listVars == <<linked, listCall>>

\* the nodes reached along links from n
Walk(links, n) ==
  LET at[i \in 1..Cardinality(ListNodes) + 1] ==
        IF i = 1 THEN n ELSE IF at[i - 1] = NoNode THEN NoNode ELSE links[at[i - 1]] IN
  SelectSeq(at, LAMBDA m : m # NoNode)

Chain(l)  == Walk(l.next, l.head)
Unused(l) == ListNodes \ Range(Chain(l))
AnyKey    == CHOOSE k \in ListKeys : TRUE

\* freed memory has no contents
Free(l, nodes) ==
  LET links(f) == [n \in ListNodes |-> IF n \in nodes THEN NoNode ELSE f[n]] IN
  [l EXCEPT !.next = links(@), !.prev = links(@),
            !.key = [n \in ListNodes |-> IF n \in nodes THEN AnyKey ELSE @[n]]]

ListInit ==
  /\ listCall = <<"init", 0, 0>>
  /\ linked = [head |-> NoNode, tail |-> NoNode, length |-> 0,
             next |-> [n \in ListNodes |-> NoNode], prev |-> [n \in ListNodes |-> NoNode],
             key |-> [n \in ListNodes |-> AnyKey]]

-----------------------------------------------------------------------------
\* the links with n's set to m; nothing has a link into NoNode
Set(links, n, m) == [x \in ListNodes |-> IF x = n THEN m ELSE links[x]]

\* list_push_len
ListPush(l, n, k) ==
  [l EXCEPT !.key[n] = k, !.length = @ + 1, !.tail = n,
            !.prev[n] = IF l.head = NoNode THEN NoNode ELSE l.tail,
            !.head = IF @ = NoNode THEN n ELSE @,
            !.next = IF l.head = NoNode THEN Set(@, n, NoNode)
                     ELSE Set(Set(@, n, NoNode), l.tail, n)]

ListInsert(l, n, k) ==
  [l EXCEPT !.key[n] = k, !.length = @ + 1, !.head = n,
            !.next[n] = l.head, !.prev = Set(Set(@, n, NoNode), l.head, n),
            !.tail = IF @ = NoNode THEN n ELSE @]

\* list_node_at: from the end that is nearer
NodeAt(l, idx) ==
  IF l.head = NoNode \/ idx >= l.length THEN NoNode
  ELSE IF idx > l.length \div 2 THEN Walk(l.prev, l.tail)[l.length - idx]
  ELSE Walk(l.next, l.head)[idx + 1]

\* list_node_extract
ListExtract(l, n) ==
  LET before == l.prev[n]  after == l.next[n] IN
  [l EXCEPT !.head = IF before = NoNode THEN after ELSE @,
            !.tail = IF @ = n THEN before ELSE @,
            !.next = Set(Set(@, before, after), n, NoNode),
            !.prev = Set(Set(@, after, before), n, NoNode),
            !.length = @ - 1]

\* list_remove_node_user_data, or list_shift_first once its caller is done
ListRemove(l, n) == Free(ListExtract(l, n), {n})

\* list_move_node: behind the node at to if the move goes to the end, before
\* it otherwise
\* mutant: always before it
ListMoveBefore(l, from, to) ==
  LET n      == NodeAt(l, from)
      target == NodeAt(l, to)
      rest   == ListExtract(l, n)
      behind == rest.prev[target]
      after  == IF behind # NoNode THEN rest.next[behind] ELSE rest.head IN
  [rest EXCEPT !.next = Set(Set(@, n, after), behind, n),
               !.prev = Set(Set(@, after, n), n, behind),
               !.head = IF behind = NoNode THEN n ELSE @,
               !.tail = IF after = NoNode THEN n ELSE @,
               !.length = @ + 1]

ListMove(l, from, to) ==
  LET n      == NodeAt(l, from)
      target == NodeAt(l, to)
      rest   == ListExtract(l, n)
      behind == IF from < to THEN target ELSE rest.prev[target]
      after  == IF behind # NoNode THEN rest.next[behind] ELSE rest.head IN
  [rest EXCEPT !.next = Set(Set(@, n, after), behind, n),
               !.prev = Set(Set(@, after, n), n, behind),
               !.head = IF behind = NoNode THEN n ELSE @,
               !.tail = IF after = NoNode THEN n ELSE @,
               !.length = @ + 1]

\* list_crop frees what follows the node at length - 1, one by one along the
\* links; a length of 0 is list_clear
\* mutant: the tail stays
ListCropKeepTail(l, length) ==
  IF length = 0
  THEN [Free(l, ListNodes) EXCEPT !.head = NoNode, !.tail = NoNode, !.length = 0]
  ELSE LET last == NodeAt(l, length - 1) IN
       [Free(l, Range(Walk(l.next, l.next[last]))) EXCEPT !.next[last] = NoNode,
         !.length = length]

ListCrop(l, length) ==
  IF length = 0
  THEN [Free(l, ListNodes) EXCEPT !.head = NoNode, !.tail = NoNode, !.length = 0]
  ELSE LET last == NodeAt(l, length - 1) IN
       [Free(l, Range(Walk(l.next, l.next[last]))) EXCEPT !.next[last] = NoNode, !.tail = last,
                                                          !.length = length]

\* list_append: a copy of each node of the source, in its order
ListAppend(l, keys, nodes) ==
  LET upTo[i \in 0..Len(keys)] ==
        IF i = 0 THEN l ELSE ListPush(upTo[i - 1], nodes[i], keys[i]) IN
  upTo[Len(keys)]

\* all nodes are linked anew in this order
Relink(l, order) ==
  LET pos(n) == CHOOSE i \in DOMAIN order : order[i] = n
      other(n, i) == IF i \in DOMAIN order THEN order[i] ELSE NoNode IN
  [l EXCEPT !.head = order[1], !.tail = order[Len(order)],
            !.next = [n \in ListNodes |-> IF n \in Range(order) THEN other(n, pos(n) + 1) ELSE @[n]],
            !.prev = [n \in ListNodes |-> IF n \in Range(order) THEN other(n, pos(n) - 1) ELSE @[n]]]

-----------------------------------------------------------------------------
(* The bottom-up merge sort of lib/list/sort.c                             *)

\* merge: of two equal keys the one of the first run comes first
\* mutant: the one of the second run
MergeRunsUnstable(l, a, b) ==
  LET m[i \in 1..Len(a) + 1, j \in 1..Len(b) + 1] ==
        IF i > Len(a) THEN SubSeq(b, j, Len(b))
        ELSE IF j > Len(b) THEN SubSeq(a, i, Len(a))
        ELSE IF l.key[a[i]] >= l.key[b[j]] THEN <<b[j]>> \o m[i, j + 1]
        ELSE <<a[i]>> \o m[i + 1, j] IN
  m[1, 1]

MergeRuns(l, a, b) ==
  LET m[i \in 1..Len(a) + 1, j \in 1..Len(b) + 1] ==
        IF i > Len(a) THEN SubSeq(b, j, Len(b))
        ELSE IF j > Len(b) THEN SubSeq(a, i, Len(a))
        ELSE IF l.key[a[i]] > l.key[b[j]] THEN <<b[j]>> \o m[i, j + 1]
        ELSE <<a[i]>> \o m[i + 1, j] IN
  m[1, 1]

\* one pass merges neighbouring runs of this size
MergePass(l, s, size) ==
  LET run(i) == SubSeq(s, i, Min({i + size - 1, Len(s)}))
      from[k \in 0..Len(s)] ==
        LET i == 1 + 2 * size * k IN
        IF i > Len(s) THEN <<>> ELSE MergeRuns(l, run(i), run(i + size)) \o from[k + 1] IN
  from[0]

\* list_sort_by_callback: the size of the runs doubles as long as it is less
\* than the length
ListSort(l) ==
  IF l.length < 2 THEN l
  ELSE LET pass[k \in 0..l.length] ==
             IF k = 0 THEN Chain(l)
             ELSE IF 2^(k - 1) < l.length THEN MergePass(l, pass[k - 1], 2^(k - 1))
             ELSE pass[k - 1] IN
       Relink(l, pass[l.length])

\* list_get_node_idx and list_get_node look from both ends at once; -1 stands
\* for UINT_MAX
NodeIndex(l, k) ==
  LET forward  == Walk(l.next, l.head)
      backward == Walk(l.prev, l.tail)
      \* the index found in round i, if there is one
      found(i) == IF l.key[forward[i + 1]] = k THEN i
                  ELSE IF i # l.length - 1 - i /\ l.key[backward[i + 1]] = k
                  THEN l.length - 1 - i ELSE -1
      rounds == 0..l.length \div 2
      first  == {i \in rounds : found(i) # -1 /\ \A h \in rounds : h < i => found(h) = -1} IN
  IF l.head = NoNode \/ first = {} THEN -1 ELSE found(CHOOSE i \in first : TRUE)

-----------------------------------------------------------------------------
NewNode == Min(Unused(linked))

Push(k) ==
  /\ Unused(linked) # {}
  /\ linked' = ListPush(linked, NewNode, k) /\ listCall' = <<"push", k, 0>>

Insert(k) ==
  /\ Unused(linked) # {}
  /\ linked' = ListInsert(linked, NewNode, k) /\ listCall' = <<"insert", k, 0>>

Append2(k1, k2) ==
  /\ Cardinality(Unused(linked)) > 1
  /\ linked' = ListAppend(linked, <<k1, k2>>, <<NewNode, Min(Unused(linked) \ {NewNode})>>)
  /\ listCall' = <<"append", k1, k2>>

\* list_replace_len_user_data
ReplaceKey(idx, k) ==
  /\ idx < linked.length
  /\ linked' = [linked EXCEPT !.key[NodeAt(linked, idx)] = k]
  /\ listCall' = <<"replace", idx, k>>

RemoveNode(idx) ==
  /\ idx < linked.length
  /\ linked' = ListRemove(linked, NodeAt(linked, idx)) /\ listCall' = <<"remove", idx, 0>>

\* list_remove_node_by_key goes from the head to the first node with the key
RemoveKey(k) ==
  LET i == SelectInSeq(Chain(linked), LAMBDA n : linked.key[n] = k) IN
  /\ i # 0
  /\ linked' = ListRemove(linked, Chain(linked)[i]) /\ listCall' = <<"remove_key", k, 0>>

MoveNode(from, to) ==
  /\ from < linked.length /\ to < linked.length /\ from # to
  /\ linked' = ListMove(linked, from, to) /\ listCall' = <<"move", from, to>>

CropTo(length) ==
  /\ length < linked.length
  /\ linked' = ListCrop(linked, length) /\ listCall' = <<"crop", length, 0>>

SortKeys == linked' = ListSort(linked) /\ listCall' = <<"sort", 0, 0>>

ShuffleNodes ==
  /\ linked.length > 1
  /\ \E order \in SetToSeqs(Range(Chain(linked))) : linked' = Relink(linked, order)
  /\ listCall' = <<"shuffle", 0, 0>>

ListNext ==
  \/ \E k \in ListKeys : Push(k) \/ Insert(k) \/ RemoveKey(k)
  \/ \E k1, k2 \in ListKeys : Append2(k1, k2)
  \/ \E idx \in 0..Cardinality(ListNodes) - 1 :
       \/ RemoveNode(idx) \/ CropTo(idx)
       \/ \E k \in ListKeys : ReplaceKey(idx, k)
       \/ \E to \in 0..Cardinality(ListNodes) - 1 : MoveNode(idx, to)
  \/ SortKeys
  \/ ShuffleNodes

-----------------------------------------------------------------------------
\* Whatever sequence of operations: both directions of links give the same
\* nodes, as many as the length says, the tail is the last of them, and the
\* shortcuts of list_node_at and list_get_node_idx find what a walk from the
\* head finds.  With several nodes of a key the search may return any of them.
LinksOK ==
  LET chain == Chain(linked) IN
  /\ Len(chain) = linked.length /\ Cardinality(Range(chain)) = linked.length
  /\ Walk(linked.prev, linked.tail) = Reverse(chain)
  /\ \A idx \in 0..linked.length - 1 : NodeAt(linked, idx) = chain[idx + 1]
  /\ \A k \in ListKeys :
       LET idx == NodeIndex(linked, k) IN
       IF idx = -1 THEN \A n \in Range(chain) : linked.key[n] # k
       ELSE linked.key[chain[idx + 1]] = k

\* The links implement the sequence: each function does to it what its comment
\* says; the merge sort is stable; a moved node ends at the position asked for.
Seqs == INSTANCE SeqList WITH
  ListNodes <- ListNodes, ListKeys <- ListKeys, call <- listCall,
  items <- [i \in 1..Len(Chain(linked)) |-> [node |-> Chain(linked)[i], key |-> linked.key[Chain(linked)[i]]]]

ListImplements == Seqs!SeqListSpec

(* The list does what a sequence would do, and keeps its pointers and its  *)
(* length consistent while it does.                                        *)
ListCorrect == []LinksOK /\ ListImplements
=============================================================================
