-------------------------------- MODULE Ordered --------------------------------
(***************************************************************************)
(* Sequences by the rank of their elements, without recursion: what stays  *)
(* of a list when some of its positions go, and a list sorted by name.     *)
(***************************************************************************)
EXTENDS Naturals, Sequences, FiniteSets

\* the k-th position in a set of positions
NthIn(I, k) == CHOOSE i \in I : Cardinality({j \in I : j <= i}) = k

\* the numbers of a set, the least first
Ascending(I) == [k \in 1..Cardinality(I) |-> NthIn(I, k)]

\* the entries of s at the positions I, in their order
EntriesAt(s, I) == [k \in 1..Cardinality(I) |-> s[NthIn(I, k)]]

\* the entry at j comes before the one at i, or is that one; entries with the same
\* name keep their order
NotBehind(s, j, i) == s[j].name < s[i].name \/ (s[j].name = s[i].name /\ j <= i)

\* list_sort_by_key is a merge sort, and stable
NameSorted(s) ==
  [k \in DOMAIN s |->
     s[CHOOSE i \in DOMAIN s : Cardinality({j \in DOMAIN s : NotBehind(s, j, i)}) = k]]
=============================================================================
