-------------------------------- MODULE SeqList --------------------------------
(***************************************************************************)
(* What the list container of myMPD promises: a sequence of nodes, each    *)
(* with a key, and for each call what becomes of the sequence.             *)
(* LinkedList implements it with the links of lib/list.                    *)
(***************************************************************************)
EXTENDS Naturals, Sequences, SequencesExt, FiniteSets, TLC

CONSTANTS ListNodes, ListKeys

VARIABLES
  items,  \* sequence of [node, key]
  call    \* the last call: its name and two arguments

ItemKeys(s)  == [i \in DOMAIN s |-> s[i].key]
ItemNodes(s) == {s[i].node : i \in DOMAIN s}
Called(name) == call'[1] = name
First        == call'[2]
Second       == call'[3]

\* new nodes with these keys follow s
Extends(s, keys) ==
  /\ SubSeq(items', 1, Len(s)) = s
  /\ ItemKeys(items') = ItemKeys(s) \o keys
  /\ Cardinality(ItemNodes(items')) = Len(items')

Push     == Called("push") /\ Extends(items, <<First>>)
Insert   == /\ Called("insert")
            /\ Tail(items') = items /\ Head(items').key = First
            /\ Head(items').node \notin ItemNodes(items)
Concat   == Called("append") /\ Extends(items, <<First, Second>>)
Replace  == Called("replace") /\ items' = [items EXCEPT ![First + 1].key = Second]
RemoveAtPos  == Called("remove") /\ items' = RemoveAt(items, First + 1)
RemoveBy == /\ Called("remove_key")
            /\ items' = RemoveAt(items, SelectInSeq(items, LAMBDA x : x.key = First))
\* the item that was at the first position is at the second one afterwards,
\* the others keep their order
Move     == /\ Called("move")
            /\ items' = InsertAt(RemoveAt(items, First + 1), Second + 1, items[First + 1])
Crop     == Called("crop") /\ items' = SubSeq(items, 1, First)
\* stable
Sort     == Called("sort") /\ items' = SortSeq(items, LAMBDA x, y : x.key < y.key)
Shuffle  == /\ Called("shuffle")
            /\ Range(items') = Range(items) /\ Len(items') = Len(items)

SeqListSpec ==
  /\ items = <<>> /\ call = <<"init", 0, 0>>
  /\ [][Push \/ Insert \/ Concat \/ Replace \/ RemoveAtPos \/ RemoveBy \/ Move \/ Crop
        \/ Sort \/ Shuffle]_<<items, call>>
=============================================================================
