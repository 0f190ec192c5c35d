---------------------------- MODULE PlaylistsProofs ----------------------------
(***************************************************************************)
(* Theorems about the playlists, for every number of jobs, every library,  *)
(* every limit of an answer and of a list of commands: a job of the worker *)
(* keeps the songs of its playlist whatever fails under it, copying and    *)
(* moving lose none (SongsKept), and an update that is not disturbed ends  *)
(* with what the definition asks for (Updated).  Both follow from          *)
(* PlistInv, which says for each program of exchanges where in it the      *)
(* thread can be, and what the lists and the buffer are there.             *)
(*                                                                         *)
(* The invariant and the jobs of the worker are in PlaylistJobsProofs. The *)
(* parts here: the copies and moves; an exchange of one thread, seen by    *)
(* both; jobs and commands that begin; the actions; the theorems.          *)
(***************************************************************************)
EXTENDS PlaylistJobsProofs

-----------------------------------------------------------------------------
(* The commands of the api thread: copying, moving and renaming.           *)

(* The entries of lists that are joined, cut or changed.                   *)
LEMMA EntriesOf ==
  ASSUME NEW E, NEW s \in Seq(E), NEW x
  PROVE  x \in ToSet(s) <=> \E i \in 1..Len(s) : s[i] = x
<1>1. DOMAIN s = 1..Len(s)
  OBVIOUS
<1> QED
  BY <1>1 DEF ToSet

(* Two lists joined hold the songs of both.                                *)
LEMMA JoinedEntries ==
  ASSUME NEW E, NEW s \in Seq(E), NEW t \in Seq(E)
  PROVE  ToSet(s \o t) = ToSet(s) \cup ToSet(t)
<1>1. PICK q, m, n : q = s \o t /\ m = Len(s) /\ n = Len(t)
  OBVIOUS
<1>2. /\ q \in Seq(E) /\ m \in Nat /\ n \in Nat /\ Len(q) = m + n
      /\ \A i \in 1..m + n : q[i] = IF i <= m THEN s[i] ELSE t[i - m]
  BY <1>1
<1>3. ASSUME NEW x \in ToSet(q) PROVE x \in ToSet(s) \cup ToSet(t)
  <2>1. PICK i \in 1..m + n : q[i] = x
    BY <1>2, <1>3, EntriesOf
  <2>2. CASE i <= m
    <3>1. i \in 1..m /\ s[i] = x
      BY <1>2, <2>1, <2>2
    <3> QED
      BY <1>1, <3>1, EntriesOf
  <2>3. CASE ~(i <= m)
    <3>1. PICK k : k = i - m
      OBVIOUS
    <3>2. k \in 1..n /\ t[k] = x
      BY <1>2, <2>1, <2>3, <3>1
    <3> QED
      BY <1>1, <3>2, EntriesOf
  <2> QED
    BY <2>2, <2>3
<1>4. ASSUME NEW x \in ToSet(s) PROVE x \in ToSet(q)
  <2>1. PICK i \in 1..m : s[i] = x
    BY <1>1, <1>4, EntriesOf
  <2>2. i \in 1..m + n /\ q[i] = x
    BY <1>2, <2>1
  <2> QED
    BY <1>2, <2>2, EntriesOf
<1>5. ASSUME NEW x \in ToSet(t) PROVE x \in ToSet(q)
  <2>1. PICK i \in 1..n : t[i] = x
    BY <1>1, <1>5, EntriesOf
  <2>2. PICK k : k = i + m
    OBVIOUS
  <2>3. k \in 1..m + n /\ ~(k <= m) /\ k - m = i
    BY <1>2, <2>2
  <2>4. q[k] = x
    BY <1>2, <2>1, <2>3
  <2> QED
    BY <1>2, <2>3, <2>4, EntriesOf
<1> QED
  BY <1>1, <1>3, <1>4, <1>5

(* Removing one place loses no song but the one at that place.             *)
LEMMA RemovedEntries ==
  ASSUME NEW E, NEW s \in Seq(E), NEW i \in DOMAIN s, NEW x \in ToSet(s), x # s[i]
  PROVE  x \in ToSet(RemoveAt(s, i))
<1>1. PICK n, r : n = Len(s) /\ r = RemoveAt(s, i)
  OBVIOUS
<1>2. n \in Nat /\ i \in 1..n
  BY <1>1
<1>3. /\ r \in Seq(E) /\ Len(r) = n - 1
      /\ \A k \in 1..n - 1 : r[k] = IF k < i THEN s[k] ELSE s[k + 1]
  BY <1>1, RemovedAt
<1>4. PICK j \in 1..n : s[j] = x
  BY <1>1, EntriesOf
<1>5. CASE j < i
  <2>1. j \in 1..n - 1 /\ r[j] = x
    BY <1>2, <1>3, <1>4, <1>5
  <2>2. x \in ToSet(r)
    BY <1>3, <2>1, EntriesOf
  <2> QED
    BY <1>1, <2>2
<1>6. CASE j > i
  <2>1. PICK k : k = j - 1
    OBVIOUS
  <2>2. k \in 1..n - 1 /\ ~(k < i) /\ k + 1 = j
    BY <1>2, <1>6, <2>1
  <2>3. r[k] = x
    BY <1>3, <1>4, <2>2
  <2>4. x \in ToSet(r)
    BY <1>3, <2>2, <2>3, EntriesOf
  <2> QED
    BY <1>1, <2>4
<1> QED
  BY <1>2, <1>4, <1>5, <1>6

(* Inserting a song loses none.                                            *)
LEMMA InsertedEntries ==
  ASSUME NEW E, NEW s \in Seq(E), NEW i \in 1..Len(s) + 1, NEW e \in E
  PROVE  ToSet(s) \cup {e} \subseteq ToSet(InsertAt(s, i, e))
<1>1. PICK n, r : n = Len(s) /\ r = InsertAt(s, i, e)
  OBVIOUS
<1>2. n \in Nat /\ i \in 1..n + 1
  BY <1>1
<1>3. /\ r \in Seq(E) /\ Len(r) = n + 1
      /\ \A k \in 1..n + 1 : r[k] = IF k < i THEN s[k] ELSE IF k = i THEN e ELSE s[k - 1]
  <2>1. /\ InsertAt(s, i, e) \in Seq(E) /\ Len(InsertAt(s, i, e)) = Len(s) + 1
        /\ \A k \in 1..Len(s) + 1 : InsertAt(s, i, e)[k] = IF k < i THEN s[k] ELSE IF k = i THEN e ELSE s[k - 1]
    BY InsertedAt
  <2> QED
    BY <1>1, <2>1
<1>4. e \in ToSet(r)
  <2>1. r[i] = e
    BY <1>2, <1>3
  <2> QED
    BY <1>2, <1>3, <2>1, EntriesOf
<1>5. ASSUME NEW x \in ToSet(s) PROVE x \in ToSet(r)
  <2>1. PICK j \in 1..n : s[j] = x
    BY <1>1, <1>5, EntriesOf
  <2>2. CASE j < i
    <3>1. j \in 1..n + 1 /\ r[j] = x
      BY <1>2, <1>3, <2>1, <2>2
    <3> QED
      BY <1>3, <3>1, EntriesOf
  <2>3. CASE ~(j < i)
    <3>1. PICK k : k = j + 1
      OBVIOUS
    <3>2. k \in 1..n + 1 /\ ~(k < i) /\ k # i /\ k - 1 = j
      BY <1>2, <2>3, <3>1
    <3>3. r[k] = x
      BY <1>3, <2>1, <3>2
    <3> QED
      BY <1>3, <3>2, <3>3, EntriesOf
  <2> QED
    BY <2>2, <2>3
<1> QED
  BY <1>1, <1>4, <1>5

(* The songs of some playlists, one after the other.                       *)
JoinsUp(l, names, f) ==
  /\ f \in [0..Len(names) -> Seq(Songs)] /\ f[0] = <<>> /\ Joined(l, names) = f[Len(names)]
  /\ \A n \in 1..Len(names) : f[n] = f[n - 1] \o l[names[n]]

(* The partial sums of the lists that are copied.                          *)
LEMMA JoinedUp ==
  ASSUME NEW l, NEW names, Len(names) \in Nat, \A i \in 1..Len(names) : l[names[i]] \in Seq(Songs)
  PROVE  \E f : JoinsUp(l, names, f)
<1> DEFINE N == Len(names)
           S == Seq(Songs)
           Body(f) == [i \in 0..N |-> IF i = 0 THEN <<>> ELSE f[i - 1] \o l[names[i]]]
           step == [q \in (1..N) \X S |-> q[2] \o l[names[q[1]]]]
<1>1. \A k \in 1..N, m \in S : m \o l[names[k]] \in S
  OBVIOUS
<1>0. <<>> \in S /\ N \in Nat
  OBVIOUS
<1> HIDE DEF S
<1>2. step \in [(1..N) \X S -> S] /\ \A k \in 1..N, m \in S : step[<<k, m>>] = m \o l[names[k]]
  BY <1>1
<1> HIDE DEF step, N
<1>4. PICK f : f \in [0..N -> S] /\ f[0] = <<>> /\ \A n \in 1..N : f[n] = step[<<n, f[n - 1]>>]
  <2>1. PICK g, a : g = step /\ a = <<>>
    OBVIOUS
  <2>2. g \in [(1..N) \X S -> S] /\ a \in S
    BY <1>0, <1>2, <2>1
  <2>3. PICK f : Recursive(N, S, a, g, f)
    BY <1>0, <2>2, Recursion
  <2> QED
    BY <2>1, <2>3 DEF Recursive
<1>5. \A k \in 1..N : f[k - 1] \in S /\ f[k] = f[k - 1] \o l[names[k]]
  <2>1. \A k \in 1..N : k - 1 \in 0..N
    BY <1>0
  <2>2. \A k \in 1..N : f[k - 1] \in S
    BY <1>4, <2>1
  <2> QED
    BY <1>2, <1>4, <2>2
<1>6. f = Body(f)
  <2>1. \A k \in 0..N : f[k] = IF k = 0 THEN <<>> ELSE f[k - 1] \o l[names[k]]
    <3>1. SUFFICES ASSUME NEW k \in 0..N PROVE f[k] = IF k = 0 THEN <<>> ELSE f[k - 1] \o l[names[k]]
      OBVIOUS
    <3>2. k = 0 \/ k \in 1..N
      BY <1>0
    <3>3. k \in 1..N => k # 0
      BY <1>0
    <3> QED
      BY <1>4, <1>5, <3>2, <3>3
  <2> QED
    BY <1>4, <2>1
<1>7. PICK g : g = CHOOSE h : h = Body(h)
  OBVIOUS
<1>8. g = Body(g)
  <2> HIDE DEF Body
  <2> QED
    BY <1>6, <1>7
<1>9. Joined(l, names) = g[N]
  BY <1>7 DEF Joined, N
<1>10. \A k \in 1..N : g[k] = g[k - 1] \o l[names[k]]
  <2>1. SUFFICES ASSUME NEW k \in 1..N PROVE g[k] = g[k - 1] \o l[names[k]]
    OBVIOUS
  <2>2. k \in 0..N /\ k # 0
    BY <1>0
  <2>3. PICK h : h = g
    OBVIOUS
  <2>4. g = Body(h)
    BY <1>8, <2>3
  <2>5. g[k] = h[k - 1] \o l[names[k]]
    BY <2>2, <2>4
  <2> QED
    BY <2>3, <2>5
<1>11. g[0] = <<>>
  BY <1>0, <1>8
<1>12. \A k \in 0..N : g[k] = f[k]
  <2> DEFINE P == {k \in 0..N : g[k] = f[k]}
  <2>1. 0 \in P
    BY <1>0, <1>4, <1>11
  <2>2. ASSUME NEW k \in 1..N, k - 1 \in P PROVE k \in P
    <3>1. g[k - 1] = f[k - 1]
      BY <2>2
    <3>2. g[k] = f[k]
      BY <1>5, <1>10, <3>1
    <3> QED
      BY <1>0, <3>2
  <2> HIDE DEF P
  <2>3. \A k \in 0..N : k \in P
    BY <1>0, <2>1, <2>2, Induct
  <2> QED
    BY <2>3 DEF P
<1>13. Joined(l, names) = f[N]
  BY <1>0, <1>9, <1>12
<1>14. JoinsUp(l, names, f)
  BY <1>4, <1>5, <1>13 DEF JoinsUp, N, S
<1> QED
  BY <1>14

(* One source more adds its songs at the end.                              *)
LEMMA JoinedOn ==
  ASSUME NEW l, NEW E, NEW names \in Seq(E), NEW k \in 0..Len(names) - 1, \A i \in 1..k + 1 : l[names[i]] \in Seq(Songs)
  PROVE  /\ Joined(l, SubSeq(names, 1, k)) \in Seq(Songs)
         /\ Joined(l, SubSeq(names, 1, k + 1)) = Joined(l, SubSeq(names, 1, k)) \o l[names[k + 1]]
<1>1. PICK a, b, m : a = SubSeq(names, 1, k) /\ b = SubSeq(names, 1, k + 1) /\ m = k + 1
  OBVIOUS
<1>2. k \in Nat /\ m \in Nat /\ m \in 1..Len(names) /\ m - 1 = k
  BY <1>1
<1>3. Len(a) = k /\ \A i \in 1..k : a[i] = names[i]
  BY <1>1, <1>2
<1>4. Len(b) = m /\ \A i \in 1..m : b[i] = names[i]
  BY <1>1, <1>2
<1>5. \A i \in 1..m : l[names[i]] \in Seq(Songs)
  BY <1>1
<1>6. PICK f : JoinsUp(l, a, f)
  <2>1. \A i \in 1..Len(a) : l[a[i]] \in Seq(Songs)
    BY <1>1, <1>2, <1>3, <1>5
  <2> QED
    BY <1>2, <1>3, <2>1, JoinedUp
<1>7. PICK g : JoinsUp(l, b, g)
  <2>1. \A i \in 1..Len(b) : l[b[i]] \in Seq(Songs)
    BY <1>4, <1>5
  <2> QED
    BY <1>2, <1>4, <2>1, JoinedUp
<1>8. \A i \in 0..k : f[i] = g[i]
  <2> DEFINE P == {i \in 0..k : f[i] = g[i]}
  <2>1. 0 \in P
    BY <1>2, <1>6, <1>7 DEF JoinsUp
  <2>2. ASSUME NEW i \in 1..k, i - 1 \in P PROVE i \in P
    <3>1. f[i - 1] = g[i - 1]
      BY <2>2
    <3>2. PICK n : n = names[i]
      OBVIOUS
    <3>3. i \in 1..m /\ a[i] = n /\ b[i] = n
      BY <1>1, <1>2, <1>3, <1>4, <3>2
    <3>4. f[i] = f[i - 1] \o l[n] /\ g[i] = g[i - 1] \o l[n]
      BY <1>3, <1>4, <1>6, <1>7, <3>3 DEF JoinsUp
    <3>5. f[i] = g[i]
      BY <3>1, <3>4
    <3>6. i \in 0..k
      BY <1>2
    <3> QED
      BY <3>5, <3>6
  <2> HIDE DEF P
  <2>3. \A i \in 0..k : i \in P
    BY <1>2, <2>1, <2>2, Induct
  <2> QED
    BY <2>3 DEF P
<1>9. Joined(l, a) = f[k] /\ f[k] \in Seq(Songs)
  BY <1>2, <1>3, <1>6 DEF JoinsUp
<1>10. Joined(l, b) = g[m] /\ g[m] = g[k] \o l[names[m]]
  <2>1. m \in 1..Len(b) /\ b[m] = names[m]
    BY <1>2, <1>4
  <2> QED
    BY <1>2, <1>4, <1>7, <2>1 DEF JoinsUp
<1>11. f[k] = g[k]
  <2>1. k \in 0..k
    BY <1>2
  <2> QED
    BY <1>8, <2>1
<1>12. Joined(l, b) = Joined(l, a) \o l[names[m]] /\ Joined(l, a) \in Seq(Songs)
  BY <1>9, <1>10, <1>11
<1> QED
  BY <1>1, <1>12

(* The joined sources hold every song of every source.                     *)
LEMMA JoinedHolds ==
  ASSUME NEW l, NEW E, NEW names \in Seq(E), \A i \in 1..Len(names) : l[names[i]] \in Seq(Songs)
  PROVE  /\ Joined(l, names) \in Seq(Songs) /\ SubSeq(names, 1, Len(names)) = names
         /\ \A i \in 1..Len(names) : ToSet(l[names[i]]) \subseteq ToSet(Joined(l, names))
<1>1. PICK N \in Nat : N = Len(names)
  OBVIOUS
<1>2. PICK f : JoinsUp(l, names, f)
  BY <1>1, JoinedUp
<1>3. /\ f \in [0..N -> Seq(Songs)] /\ Joined(l, names) = f[N]
      /\ \A n \in 1..N : f[n] = f[n - 1] \o l[names[n]]
  BY <1>1, <1>2 DEF JoinsUp
<1>4. \A k \in 0..N : \A i \in 1..k : ToSet(l[names[i]]) \subseteq ToSet(f[k])
  <2> DEFINE P == {k \in 0..N : \A i \in 1..k : ToSet(l[names[i]]) \subseteq ToSet(f[k])}
  <2>1. 0 \in P
    OBVIOUS
  <2>2. ASSUME NEW k \in 1..N, k - 1 \in P PROVE k \in P
    <3>1. PICK a, b : a = f[k - 1] /\ b = l[names[k]]
      OBVIOUS
    <3>2. a \in Seq(Songs) /\ b \in Seq(Songs) /\ f[k] = a \o b
      <4>1. k - 1 \in 0..N
        OBVIOUS
      <4> QED
        BY <1>1, <1>3, <3>1, <4>1
    <3>3. ToSet(f[k]) = ToSet(a) \cup ToSet(b)
      BY <3>2, JoinedEntries
    <3>4. ASSUME NEW i \in 1..k PROVE ToSet(l[names[i]]) \subseteq ToSet(f[k])
      <4>1. CASE i = k
        BY <3>1, <3>3, <4>1
      <4>2. CASE i # k
        <5>1. i \in 1..k - 1
          BY <4>2
        <5>2. ToSet(l[names[i]]) \subseteq ToSet(a)
          BY <2>2, <3>1, <5>1
        <5> QED
          BY <3>3, <5>2
      <4> QED
        BY <4>1, <4>2
    <3> QED
      BY <3>4
  <2> HIDE DEF P
  <2>3. \A k \in 0..N : k \in P
    BY <2>1, <2>2, Induct
  <2> QED
    BY <2>3 DEF P
<1>5. SubSeq(names, 1, Len(names)) = names
  OBVIOUS
<1> QED
  BY <1>1, <1>3, <1>4, <1>5

(* The commands of the api thread: a command that fails is given up.       *)
LEMMA NoRemovalIn ==
  ASSUME NEW w, WorkOK(w), w.all # "update_all"
  PROVE  NoRemoval(w)
<1>1. \A i \in DOMAIN w.program : StepOK(w, w.program[i])
  BY DEF WorkOK
<1> QED
  BY <1>1 DEF StepOK, NoRemoval

(* A failed command of the api thread is over: only sorting has something  *)
(* to clean up.                                                            *)
LEMMA ApiStops ==
  ASSUME NEW w, EditOK(w), w.result = "none", NEW s, s.do \notin {"rmif", "crop", "check"},
         ~(s.do \in {"fill", "rename"} /\ s.a = Tmp(w.nr)), NEW v, v \in {Undo(w, s), Lost(w, s)}
  PROVE  v.program = <<>> /\ v.result = "failed"
<1>1. WorkOK(w) /\ w.all = "none" /\ IsWork(w)
  BY DEF EditOK, WorkOK
<1>2. NoRemoval(w) /\ w.all # "update_all"
  BY <1>1, NoRemovalIn
<1>3. v.result = "failed"
  BY <1>1, Failures
<1>4. v.program = <<>>
  BY <1>1, <1>2, GivesUp
<1> QED
  BY <1>3, <1>4

(* Lists that did not change hold what they held.                          *)
LEMMA OldLists ==
  ASSUME NEW w, WorkOK(w), NEW l, Unchanged(w, l)
  PROVE  AllHeld(w, l)
BY DEF AllHeld, Holds, Unchanged

(* A playlist is renamed, or nothing happens.                              *)
LEMMA RenamingStep ==
  ASSUME lists \in Stored, NEW w, EditOK(w), w.op = "rename", w.program # <<>>, RenameInv(w, lists),
         NEW l \in Stored, NEW v, Outcome(w, l, v)
  PROVE  RenameInv(v, l)
<1>1. WorkOK(w) /\ IsWork(w) /\ w.nr = <<>>
  BY DEF EditOK, WorkOK
<1>2. PICK src \in Plists, dst \in Plists : src = w.arg[1] /\ dst = w.arg[2] /\ src # dst /\ DOMAIN w.old = {src, dst}
  BY DEF EditOK
<1>3. PICK c : c = Do("rename", src, dst)
  OBVIOUS
<1>4. c.do = "rename" /\ c.a = src /\ c.b = dst
  BY <1>3 DEF Do
<1>5. w.result = "none" /\ w.program = <<c>> /\ Unchanged(w, lists)
  BY <1>2, <1>3 DEF RenameInv
<1>6. Head(w.program) = c /\ w.program = <<c>> \o <<>>
  <2>1. Head(<<c>>) = c
    OBVIOUS
  <2>2. <<c>> \o <<>> = <<c>>
    BY Single
  <2> QED
    BY <1>5, <2>1, <2>2
<1>7. \/ l = lists /\ (v = Undo(w, c) \/ v = Lost(w, c))
      \/ l = MpdCommand(lists, c) /\ l # NoList /\ (v = Advance(w) \/ v = Lost(w, c))
  BY <1>1, <1>4, <1>6, Told1
<1>8. src # Tmp(w.nr)
  <2>1. Tmp(<<>>) \notin Plists
    BY PlistAssumption DEF PlistAssumption
  <2> QED
    BY <1>1, <1>2, <2>1
<1>9. v.program = <<>>
  <2>1. CASE v \in {Undo(w, c), Lost(w, c)}
    BY <1>4, <1>5, <1>8, <2>1, ApiStops
  <2>2. CASE v = Advance(w)
    <3>1. IsAfter(v, w, <<>>)
      BY <1>1, <1>5, <1>6, <2>2, Empty, AdvancedTo
    <3> QED
      BY <3>1 DEF IsAfter
  <2> QED
    BY <1>7, <2>1, <2>2
<1>10. v.arg = w.arg /\ v.old = w.old
  <2>1. Kin(v, w)
    BY <1>1, Kept
  <2> QED
    BY <2>1 DEF Kin
<1>11. CASE l = lists
  BY <1>5, <1>9, <1>10, <1>11 DEF RenameInv, Unchanged
<1>12. CASE l = MpdCommand(lists, c) /\ l # NoList
  <2>1. src \in PlistNames /\ dst \in PlistNames
    BY Names
  <2>2. l[src] = NoList /\ l[dst] = lists[src]
    BY <1>2, <1>3, <1>12, <2>1, Renamed
  <2>3. lists[src] = w.old[src]
    BY <1>2, <1>5 DEF Unchanged
  <2> QED
    BY <1>2, <1>9, <1>10, <2>2, <2>3 DEF RenameInv
<1> QED
  BY <1>7, <1>11, <1>12

(* A playlist is read, if there is one.                                    *)
ReadsOne(w, l, v, r, e, read, x) ==
  \/ l = lists /\ v \in {Undo(w, e), Lost(w, e)}
  \/ l = lists /\ x \in Seq(Songs) /\ (ReadOn(v, w, r, read, x) \/ v \in Got(w, e.a, e.b, read \o x))

(* A step of the api thread that reads goes on, or has read, or fails.     *)
LEMMA ReadingOne ==
  ASSUME lists \in Stored, ranges \in BOOLEAN, NEW w, WorkOK(w), w.program # <<>>, NEW e, e = Head(w.program), e.do = "read",
         NEW x, lists[e.a] = x, NEW read \in Seq(Songs), Reading(w, ranges, read, x),
         NEW l, NEW v, Outcome(w, l, v)
  PROVE  ReadsOne(w, l, v, ranges, e, read, x)
<1>1. e.a \in PlistNames
  <2>1. StepOK(w, e)
    BY Programs
  <2> QED
    BY <2>1 DEF StepOK
<1>2. x \in Seq(Songs) \/ x = NoList
  BY <1>1 DEF Stored
<1>3. CASE x \in Seq(Songs)
  <2>1. HasRead(w, l, v, ranges, e, read, x)
    BY <1>3, ReadingStep
  <2> QED
    BY <1>3, <2>1 DEF HasRead, ReadsOne
<1>4. CASE x = NoList
  <2>1. After(w, e) = {}
    BY <1>4 DEF After, Exists
  <2>2. Commands(w, e) = <<>>
    BY DEF Commands
  <2>3. l = lists /\ (v = Undo(w, e) \/ v = Lost(w, e))
    BY <2>1, <2>2, QuietOutcome
  <2> QED
    BY <2>3 DEF ReadsOne
<1> QED
  BY <1>2, <1>3, <1>4

GotSo(v, rest, buf) == v.program = rest /\ v.result = "none" /\ v.start = 0 /\ v.pos = 0 /\ v.buf = buf

(* A list read to be copied goes into the buffer, and the next step        *)
(* begins.                                                                 *)
LEMMA GotAll ==
  ASSUME NEW w, IsWork(w), w.result = "none", NEW e, NEW rest, IsSeq(rest), rest # <<>>, w.program = <<e>> \o rest,
         NEW p, NEW how,
         how \notin {"shuffle", "sort", "dedup", "validate"}, NEW buf, NEW v \in Got(w, p, how, buf)
  PROVE  GotSo(v, rest, buf)
<1>1. PICK g : g = [w EXCEPT !.buf = buf, !.start = 0, !.pos = 0]
  OBVIOUS
<1>2. IsWork(g) /\ g.program = w.program /\ g.result = "none" /\ g.buf = buf /\ g.start = 0 /\ g.pos = 0
  BY <1>1 DEF IsWork, Fields
<1>3. v = Advance(g)
  BY <1>1 DEF Got
<1>4. IsAfter(v, g, rest)
  BY <1>2, <1>3, AdvancedTo
<1> QED
  BY <1>2, <1>4 DEF IsAfter, GotSo

(* Songs are moved to another playlist: each is added there before it is   *)
(* removed.                                                                *)
ShiftKept(m, src, dst, s, t) ==
  /\ m \in Stored /\ m[src] = t /\ t \in Seq(Songs)
  /\ \A x \in ToSet(s) : x \in ToSet(t) \/ x \in ToSet(Content(m[dst]))
  /\ ToSet(Content(lists[dst])) \subseteq ToSet(Content(m[dst]))

(* A song added to the target keeps what is to be moved.                   *)
LEMMA ShiftAdd ==
  ASSUME NEW src \in PlistNames, NEW dst \in PlistNames, src # dst, NEW m, NEW s, NEW t, ShiftKept(m, src, dst, s, t),
         NEW e, NEW n, n = MpdCommand(m, Add(dst, e)), n # NoList
  PROVE  ShiftKept(n, src, dst, s, t) /\ e \in ToSet(Content(n[dst]))
<1>1. m \in Stored
  BY DEF ShiftKept
<1>2. e \in KnownSongs /\ n = [m EXCEPT ![dst] = IF m[dst] = NoList THEN <<e>> ELSE Append(m[dst], e)]
  BY DEF MpdCommand, Add, Do
<1>3. e \in Songs
  BY <1>2, Kinds
<1>4. m[dst] \in Seq(Songs) \cup {NoList} /\ Content(m[dst]) \in Seq(Songs)
  BY <1>1 DEF Stored, Content
<1>5. PICK a, b : a = Content(m[dst]) /\ b = <<e>>
  OBVIOUS
<1>6. a \in Seq(Songs) /\ b \in Seq(Songs) /\ Len(b) = 1 /\ b[1] = e
  BY <1>3, <1>4, <1>5
<1>7. (IF m[dst] = NoList THEN <<e>> ELSE Append(m[dst], e)) = a \o b
  <2>1. CASE m[dst] = NoList
    <3>1. a = <<>> /\ <<>> \o b = b
      BY <1>5, <1>6, <2>1 DEF Content
    <3> QED
      BY <1>5, <2>1, <3>1
  <2>2. CASE m[dst] # NoList
    <3>1. a = m[dst]
      BY <1>5, <2>2 DEF Content
    <3>2. Append(a, e) = a \o <<e>>
      BY <1>3, <1>6
    <3> QED
      BY <1>5, <2>2, <3>1, <3>2
  <2> QED
    BY <2>1, <2>2
<1>8. PICK c \in Seq(Songs) : c = a \o b
  <2>1. a \o b \in Seq(Songs)
    BY <1>6
  <2> QED
    BY <2>1
<1>9. n = [m EXCEPT ![dst] = c]
  BY <1>2, <1>7, <1>8
<1>10. n \in Stored /\ n[dst] = c /\ n[src] = m[src]
  BY <1>1, <1>9 DEF Stored
<1>11. ToSet(c) = ToSet(a) \cup ToSet(b) /\ e \in ToSet(b)
  <2>1. e \in ToSet(b)
    <3>1. 1 \in 1..Len(b) /\ b[1] = e
      BY <1>6
    <3> QED
      BY <1>6, <3>1, EntriesOf
  <2> QED
    BY <1>6, <1>8, <2>1, JoinedEntries
<1>12. Content(n[dst]) = c
  BY <1>10, Kinds DEF Content
<1> QED
  BY <1>5, <1>10, <1>11, <1>12 DEF ShiftKept

(* A song deleted from the source after it was added to the target is not  *)
(* lost.                                                                   *)
LEMMA ShiftDel ==
  ASSUME NEW src \in PlistNames, NEW dst \in PlistNames, src # dst, NEW m, NEW s, NEW t, ShiftKept(m, src, dst, s, t),
         NEW i \in DOMAIN t, t[i] \in ToSet(Content(m[dst])), NEW n, n = MpdCommand(m, Do("del", src, i)), n # NoList
  PROVE  ShiftKept(n, src, dst, s, RemoveAt(t, i))
<1>1. m \in Stored /\ m[src] = t /\ t \in Seq(Songs)
  BY DEF ShiftKept
<1>2. n = [m EXCEPT ![src] = RemoveAt(m[src], i)]
  BY DEF MpdCommand, Do
<1>3. PICK r : r = RemoveAt(t, i)
  OBVIOUS
<1>4. r \in Seq(Songs)
  BY <1>1, <1>3, RemovedAt
<1>5. n = [m EXCEPT ![src] = r]
  BY <1>1, <1>2, <1>3
<1>6. n \in Stored /\ n[dst] = m[dst] /\ n[src] = r
  BY <1>1, <1>4, <1>5 DEF Stored
<1>7. \A x \in ToSet(t) : x \in ToSet(r) \/ x \in ToSet(Content(m[dst]))
  <2>1. SUFFICES ASSUME NEW x \in ToSet(t), x # t[i] PROVE x \in ToSet(r)
    OBVIOUS
  <2> QED
    BY <1>1, <1>3, <2>1, RemovedEntries
<1>8. ShiftKept(n, src, dst, s, r)
  BY <1>4, <1>6, <1>7 DEF ShiftKept
<1> QED
  BY <1>3, <1>8

(* After any first part of the commands of a shift no song is lost.        *)
LEMMA ShiftRun ==
  ASSUME lists \in Stored, NEW src \in PlistNames, NEW dst \in PlistNames, src # dst, NEW s \in Seq(Songs), lists[src] = s,
         NEW cs, cs = Shifted(s, src, dst), NEW k \in 0..Len(cs), MpdCommands(lists, cs)[k] # NoList
  PROVE  \E t : ShiftKept(MpdCommands(lists, cs)[k], src, dst, s, t)
<1>1. PICK c1, c2, c3, c4 : /\ c1 = Add(dst, s[2]) /\ c2 = Do("del", src, 2)
                            /\ c3 = Add(dst, s[1]) /\ c4 = Do("del", src, 1)
  OBVIOUS
<1>2. Tellable(c1) /\ Tellable(c2) /\ Tellable(c3) /\ Tellable(c4)
  BY <1>1 DEF Tellable, Add, Do
<1>3. PICK mpd : mpd = MpdCommands(lists, cs)
  OBVIOUS
<1>4. ShiftKept(lists, src, dst, s, s)
  BY DEF ShiftKept
<1>5. CASE Len(s) > 1
  <2>1. cs = <<c1, c2>> \o <<c3, c4>>
    <3>1. s # <<>>
      BY <1>5
    <3> QED
      BY <1>1, <1>5, <3>1 DEF Shifted
  <2>2. Len(cs) = 4 /\ cs[1] = c1 /\ cs[2] = c2 /\ cs[3] = c3 /\ cs[4] = c4
    <3>1. PICK x, y : x = <<c1, c2>> /\ y = <<c3, c4>>
      OBVIOUS
    <3>2. x \in Seq({c1, c2}) /\ y \in Seq({c3, c4})
      BY <3>1
    <3>3. Len(x) = 2 /\ Len(y) = 2 /\ x[1] = c1 /\ x[2] = c2 /\ y[1] = c3 /\ y[2] = c4 /\ IsSeq(x) /\ IsSeq(y)
      BY <3>1, <3>2 DEF IsSeq
    <3>4. cs = x \o y
      BY <2>1, <3>1
    <3>5. Len(cs) = 4 /\ \A i \in 1..4 : cs[i] = IF i <= 2 THEN x[i] ELSE y[i - 2]
      <4>1. PICK m, n : m = Len(x) /\ n = Len(y)
        OBVIOUS
      <4>4. IsSeq(x) /\ IsSeq(y)
        BY <3>3
      <4>5. /\ Len(x \o y) = Len(x) + Len(y)
            /\ \A i \in 1..Len(x) + Len(y) : (x \o y)[i] = IF i <= Len(x) THEN x[i] ELSE y[i - Len(x)]
        BY <4>4, Joins
      <4>2. Len(cs) = m + n /\ \A i \in 1..m + n : cs[i] = IF i <= m THEN x[i] ELSE y[i - m]
        BY <3>4, <4>1, <4>5
      <4>3. m = 2 /\ n = 2
        BY <3>3, <4>1
      <4> QED
        BY <4>2, <4>3
    <3> QED
      BY <3>3, <3>5
  <2>3. Len(cs) \in Nat /\ \A i \in 1..Len(cs) : Tellable(cs[i])
    <3>1. \A i \in 1..4 : i = 1 \/ i = 2 \/ i = 3 \/ i = 4
      OBVIOUS
    <3> QED
      BY <1>2, <2>2, <3>1
  <2>4. mpd[0] = lists
    BY <1>3, <2>3, MpdRuns
  <2>5. \A i \in 1..4 : mpd[i] # NoList => mpd[i - 1] \in Stored /\ mpd[i] = MpdCommand(mpd[i - 1], cs[i])
    BY <1>3, <2>2, <2>3, MpdStep
  <2>6. /\ mpd[1] # NoList => mpd[0] \in Stored /\ mpd[1] = MpdCommand(mpd[0], c1)
        /\ mpd[2] # NoList => mpd[1] \in Stored /\ mpd[2] = MpdCommand(mpd[1], c2)
        /\ mpd[3] # NoList => mpd[2] \in Stored /\ mpd[3] = MpdCommand(mpd[2], c3)
        /\ mpd[4] # NoList => mpd[3] \in Stored /\ mpd[4] = MpdCommand(mpd[3], c4)
    BY <2>2, <2>5
  <2>7. PICK a, b, u : a = s[1] /\ b = s[2] /\ u = RemoveAt(s, 2)
    OBVIOUS
  <2>8. a \in Songs /\ b \in Songs /\ 1 \in DOMAIN s /\ 2 \in DOMAIN s /\ u \in Seq(Songs) /\ 1 \in DOMAIN u /\ u[1] = a
    <3>1. 1 \in DOMAIN s /\ 2 \in DOMAIN s /\ Len(s) \in Nat
      BY <1>5
    <3>2. /\ u \in Seq(Songs) /\ DOMAIN u = 1..Len(s) - 1
          /\ \A j \in 1..Len(s) - 1 : u[j] = IF j < 2 THEN s[j] ELSE s[j + 1]
      BY <2>7, <3>1, RemovedAt
    <3>3. 1 \in 1..Len(s) - 1
      BY <1>5, <3>1
    <3> QED
      BY <2>7, <3>1, <3>2, <3>3
  <2>9. NoList \notin Stored
    BY Kinds
  <2>10. mpd[1] # NoList => ShiftKept(mpd[1], src, dst, s, s) /\ b \in ToSet(Content(mpd[1][dst]))
    <3>1. c1 = Add(dst, b)
      BY <1>1, <2>7
    <3> QED
      BY <1>4, <2>4, <2>6, <3>1, ShiftAdd
  <2>11. mpd[2] # NoList => ShiftKept(mpd[2], src, dst, s, u)
    <3>1. SUFFICES ASSUME mpd[2] # NoList PROVE ShiftKept(mpd[2], src, dst, s, u)
      OBVIOUS
    <3>2. mpd[1] # NoList /\ mpd[2] = MpdCommand(mpd[1], c2)
      BY <2>6, <2>9, <3>1
    <3>3. PICK i, m : i = 2 /\ m = mpd[1]
      OBVIOUS
    <3>4. c2 = Do("del", src, i) /\ i \in DOMAIN s /\ s[i] \in ToSet(Content(m[dst])) /\ ShiftKept(m, src, dst, s, s)
      BY <1>1, <2>7, <2>8, <2>10, <3>2, <3>3
    <3>5. ShiftKept(mpd[2], src, dst, s, RemoveAt(s, i))
      BY <3>1, <3>2, <3>3, <3>4, ShiftDel
    <3> QED
      BY <2>7, <3>3, <3>5
  <2>12. mpd[3] # NoList => ShiftKept(mpd[3], src, dst, s, u) /\ a \in ToSet(Content(mpd[3][dst]))
    <3>1. c3 = Add(dst, a)
      BY <1>1, <2>7
    <3> QED
      BY <2>6, <2>9, <2>11, <3>1, ShiftAdd
  <2>13. mpd[4] # NoList => ShiftKept(mpd[4], src, dst, s, RemoveAt(u, 1))
    <3>1. SUFFICES ASSUME mpd[4] # NoList PROVE ShiftKept(mpd[4], src, dst, s, RemoveAt(u, 1))
      OBVIOUS
    <3>2. mpd[3] # NoList /\ mpd[4] = MpdCommand(mpd[3], c4)
      BY <2>6, <2>9, <3>1
    <3>3. PICK i, m : i = 1 /\ m = mpd[3]
      OBVIOUS
    <3>4. c4 = Do("del", src, i) /\ i \in DOMAIN u /\ u[i] \in ToSet(Content(m[dst])) /\ ShiftKept(m, src, dst, s, u)
      BY <1>1, <2>7, <2>8, <2>12, <3>2, <3>3
    <3>5. ShiftKept(mpd[4], src, dst, s, RemoveAt(u, i))
      BY <3>1, <3>2, <3>3, <3>4, ShiftDel
    <3> QED
      BY <3>3, <3>5
  <2>14. k = 0 \/ k = 1 \/ k = 2 \/ k = 3 \/ k = 4
    BY <2>2
  <2> QED
    BY <1>3, <1>4, <2>4, <2>10, <2>11, <2>12, <2>13, <2>14
<1>6. CASE ~(Len(s) > 1) /\ s # <<>>
  <2>1. cs = <<c3, c4>>
    <3>1. cs = <<>> \o <<c3, c4>>
      BY <1>1, <1>6 DEF Shifted
    <3>2. PICK E : E = {c3, c4}
      OBVIOUS
    <3>3. <<c3, c4>> \in Seq(E)
      BY <3>2
    <3> QED
      BY <3>1, <3>3
  <2>2. Len(cs) = 2 /\ cs[1] = c3 /\ cs[2] = c4
    BY <2>1
  <2>3. Len(cs) \in Nat /\ \A i \in 1..Len(cs) : Tellable(cs[i])
    <3>1. \A i \in 1..2 : i = 1 \/ i = 2
      OBVIOUS
    <3> QED
      BY <1>2, <2>2, <3>1
  <2>4. mpd[0] = lists
    BY <1>3, <2>3, MpdRuns
  <2>5. \A i \in 1..2 : mpd[i] # NoList => mpd[i - 1] \in Stored /\ mpd[i] = MpdCommand(mpd[i - 1], cs[i])
    BY <1>3, <2>2, <2>3, MpdStep
  <2>6. /\ mpd[1] # NoList => mpd[0] \in Stored /\ mpd[1] = MpdCommand(mpd[0], c3)
        /\ mpd[2] # NoList => mpd[1] \in Stored /\ mpd[2] = MpdCommand(mpd[1], c4)
    BY <2>2, <2>5
  <2>7. PICK a : a = s[1]
    OBVIOUS
  <2>8. 1 \in DOMAIN s
    BY <1>6
  <2>9. NoList \notin Stored
    BY Kinds
  <2>10. mpd[1] # NoList => ShiftKept(mpd[1], src, dst, s, s) /\ a \in ToSet(Content(mpd[1][dst]))
    <3>1. c3 = Add(dst, a)
      BY <1>1, <2>7
    <3> QED
      BY <1>4, <2>4, <2>6, <3>1, ShiftAdd
  <2>11. mpd[2] # NoList => ShiftKept(mpd[2], src, dst, s, RemoveAt(s, 1))
    <3>1. SUFFICES ASSUME mpd[2] # NoList PROVE ShiftKept(mpd[2], src, dst, s, RemoveAt(s, 1))
      OBVIOUS
    <3>2. mpd[1] # NoList /\ mpd[2] = MpdCommand(mpd[1], c4)
      BY <2>6, <2>9, <3>1
    <3>3. PICK i, m : i = 1 /\ m = mpd[1]
      OBVIOUS
    <3>4. c4 = Do("del", src, i) /\ i \in DOMAIN s /\ s[i] \in ToSet(Content(m[dst])) /\ ShiftKept(m, src, dst, s, s)
      BY <1>1, <2>7, <2>8, <2>10, <3>2, <3>3
    <3>5. ShiftKept(mpd[2], src, dst, s, RemoveAt(s, i))
      BY <3>1, <3>2, <3>3, <3>4, ShiftDel
    <3> QED
      BY <3>3, <3>5
  <2>12. k = 0 \/ k = 1 \/ k = 2
    BY <2>2
  <2> QED
    BY <1>3, <1>4, <2>4, <2>10, <2>11, <2>12
<1>7. CASE s = <<>>
  <2>1. cs = <<>>
    <3>1. cs = <<>> \o <<>>
      BY <1>7 DEF Shifted
    <3> QED
      BY <3>1
  <2>2. k = 0
    BY <2>1
  <2>3. MpdCommands(lists, <<>>)[0] = lists
    BY MpdFew
  <2> QED
    BY <1>4, <2>1, <2>2, <2>3
<1> QED
  BY <1>5, <1>6, <1>7

(* Every exchange of moving songs between playlists keeps its invariant.   *)
LEMMA ShiftingStep ==
  ASSUME lists \in Stored, ranges \in BOOLEAN, NEW w, EditOK(w), w.op = "move_songs", w.program # <<>>, ShiftInv(w, lists, ranges),
         NEW l \in Stored, NEW v, Outcome(w, l, v)
  PROVE  ShiftInv(v, l, ranges)
<1>1. WorkOK(w) /\ IsWork(w) /\ w.nr = <<>> /\ w.buf \in Seq(Songs)
  BY DEF EditOK, WorkOK
<1>2. PICK src \in Plists, dst \in Plists : src = w.arg[1][1] /\ dst = Target(w) /\ src # dst /\ DOMAIN w.old = {src, dst}
  BY DEF EditOK
<1>3. /\ v.arg = w.arg /\ v.old = w.old /\ Target(v) = dst /\ (\A x : Unchanged(v, x) <=> Unchanged(w, x))
      /\ \A x : AllHeld(v, x) <=> AllHeld(w, x)
  <2>1. Kin(v, w)
    BY <1>1, Kept
  <2> QED
    BY <1>2, <2>1 DEF Kin, Target, Unchanged, AllHeld
<1>4. PICK s, c, d : s = w.old[src] /\ c = Do("read", src, "") /\ d = Do("shift", dst, src)
  OBVIOUS
<1>5. c.do = "read" /\ c.a = src /\ c.b = "" /\ d.do = "shift" /\ d.a = dst /\ d.b = src
  BY <1>4 DEF Do
<1>6. src \in PlistNames /\ dst \in PlistNames
  BY Names
<1>7. PICK shift : shift = <<d>>
  OBVIOUS
<1>8. IsSeq(shift) /\ shift # <<>> /\ Head(shift) = d /\ shift = <<d>> \o <<>>
  <2>1. IsSeq(<<d>>) /\ <<d>> \o <<>> = <<d>>
    BY Single
  <2>2. Head(<<d>>) = d /\ <<d>> # <<>>
    OBVIOUS
  <2> QED
    BY <1>7, <2>1, <2>2
<1>9. \/ w.result = "none" /\ Unchanged(w, lists) /\ w.program = <<c>> \o shift /\ Reading(w, ranges, <<>>, s)
      \/ w.result = "none" /\ Unchanged(w, lists) /\ w.program = shift /\ w.buf = s
  BY <1>2, <1>4, <1>7 DEF ShiftInv
<1>10. \A x : (Unchanged(w, x) => AllHeld(w, x))
  BY <1>1, OldLists
<1>11. lists[src] = s
  BY <1>2, <1>4, <1>9 DEF Unchanged
<1>12. CASE w.result = "none" /\ Unchanged(w, lists) /\ w.program = <<c>> \o shift /\ Reading(w, ranges, <<>>, s)
  <2>1. Head(w.program) = c
    BY <1>8, <1>12, Starts
  <2>2. <<>> \in Seq(Songs)
    OBVIOUS
  <2>3. ReadsOne(w, l, v, ranges, c, <<>>, s)
    BY <1>1, <1>5, <1>11, <1>12, <2>1, <2>2, ReadingOne
  <2>4. CASE l = lists /\ v \in {Undo(w, c), Lost(w, c)}
    <3>1. v.program = <<>>
      BY <1>5, <1>12, <2>4, ApiStops
    <3> QED
      BY <1>3, <1>10, <1>12, <2>4, <3>1 DEF ShiftInv
  <2>5. CASE l = lists /\ ReadOn(v, w, ranges, <<>>, s)
    BY <1>2, <1>3, <1>4, <1>7, <1>12, <2>5 DEF ReadOn, ShiftInv
  <2>6. CASE l = lists /\ s \in Seq(Songs) /\ v \in Got(w, c.a, c.b, <<>> \o s)
    <3>1. <<>> \o s = s
      BY <2>6
    <3>2. PICK how : how = ""
      OBVIOUS
    <3>4. v \in Got(w, src, how, s) /\ how \notin {"shuffle", "sort", "dedup", "validate"}
      BY <1>5, <2>6, <3>1, <3>2
    <3>5. GotSo(v, shift, s)
      BY <1>1, <1>8, <1>12, <3>4, GotAll
    <3>3. v.program = shift /\ v.result = "none" /\ v.buf = s
      BY <3>5 DEF GotSo
    <3> QED
      BY <1>2, <1>3, <1>4, <1>7, <1>12, <2>6, <3>3 DEF ShiftInv
  <2> QED
    BY <2>3, <2>4, <2>5, <2>6 DEF ReadsOne
<1>13. CASE w.result = "none" /\ Unchanged(w, lists) /\ w.program = shift /\ w.buf = s
  <2>1. Head(w.program) = d /\ w.program = <<d>> \o <<>>
    BY <1>8, <1>13
  <2>2. PICK cs : cs = Shifted(s, src, dst)
    OBVIOUS
  <2>3. Commands(w, d) = cs
    BY <1>5, <1>13, <2>2 DEF Commands
  <2>4. PICK k \in 0..Len(cs) : l = MpdCommands(lists, cs)[k] /\ l # NoList /\ v \in After(w, d) \cup {Undo(w, d), Lost(w, d)}
    BY <2>1, <2>3 DEF Outcome
  <2>5. s \in Seq(Songs)
    BY <1>1, <1>13
  <2>6. PICK t : ShiftKept(l, src, dst, s, t)
    <3>1. MpdCommands(lists, cs)[k] # NoList
      BY <2>4
    <3>2. \E t : ShiftKept(MpdCommands(lists, cs)[k], src, dst, s, t)
      BY <1>2, <1>6, <1>11, <2>2, <2>5, <3>1, ShiftRun
    <3> QED
      BY <2>4, <3>2
  <2>7. AllHeld(w, l)
    <3>1. SUFFICES ASSUME NEW x \in Songs, Holds(w.old, DOMAIN w.old, x) PROVE Holds(l, DOMAIN w.old, x)
      BY DEF AllHeld
    <3>2. x \in ToSet(l[src]) \/ x \in ToSet(Content(l[dst]))
      <4>1. PICK n \in {src, dst} : w.old[n] # NoList /\ x \in ToSet(w.old[n])
        BY <1>2, <3>1 DEF Holds
      <4>2. CASE n = src
        BY <1>4, <2>6, <4>1, <4>2 DEF ShiftKept
      <4>3. CASE n = dst
        <5>1. lists[dst] = w.old[dst]
          BY <1>2, <1>13 DEF Unchanged
        <5>2. x \in ToSet(Content(lists[dst]))
          BY <4>1, <4>3, <5>1 DEF Content
        <5> QED
          BY <2>6, <5>2 DEF ShiftKept
      <4> QED
        BY <4>1, <4>2, <4>3
    <3>3. CASE x \in ToSet(l[src])
      <4>1. l[src] # NoList
        BY <2>6, Kinds DEF ShiftKept
      <4> QED
        BY <1>2, <3>3, <4>1 DEF Holds
    <3>4. CASE x \in ToSet(Content(l[dst]))
      <4>1. l[dst] # NoList
        <5>1. ToSet(<<>>) = {}
          BY DEF ToSet
        <5> QED
          BY <3>4, <5>1 DEF Content
      <4>2. x \in ToSet(l[dst])
        BY <3>4, <4>1 DEF Content
      <4> QED
        BY <1>2, <4>1, <4>2 DEF Holds
    <3> QED
      BY <3>2, <3>3, <3>4
  <2>8. v.program = <<>>
    <3>1. CASE v \in {Undo(w, d), Lost(w, d)}
      BY <1>5, <1>13, <3>1, ApiStops
    <3>2. CASE v \in After(w, d)
      <4>1. v = Advance(w)
        BY <1>5, <3>2 DEF After
      <4>2. IsAfter(v, w, <<>>)
        BY <1>1, <1>13, <2>1, <4>1, Empty, AdvancedTo
      <4> QED
        BY <4>2 DEF IsAfter
    <3> QED
      BY <2>4, <3>1, <3>2
  <2> QED
    BY <1>3, <2>7, <2>8 DEF ShiftInv
<1> QED
  BY <1>9, <1>12, <1>13

(* Songs inserted one by one are there, and so are those before them.      *)
Inserted(l, n, p, buf, k) ==
  /\ ToSet(Content(l[p])) \subseteq ToSet(Content(n[p]))
  /\ \A i \in 1..k : buf[i] \in ToSet(Content(n[p]))

(* The songs of the buffer are inserted one behind the other.              *)
LEMMA MpdInserts ==
  ASSUME NEW l \in Stored, NEW p \in PlistNames, NEW buf \in Seq(Songs), NEW j \in Nat, NEW cs, Len(cs) \in 0..Len(buf),
         \A i \in 1..Len(cs) : cs[i] = Do("insert", p, <<buf[i], j + i>>),
         NEW k \in 0..Len(cs), MpdCommands(l, cs)[k] # NoList
  PROVE  Inserted(l, MpdCommands(l, cs)[k], p, buf, k)
<1> DEFINE N == Len(cs)
           mpd == MpdCommands(l, cs)
           P == {i \in 0..N : mpd[i] # NoList => Inserted(l, mpd[i], p, buf, i)}
<1>1. Len(cs) \in Nat /\ \A i \in 1..N : Tellable(cs[i])
  <2>1. ASSUME NEW i \in 1..N PROVE Tellable(cs[i])
    <3>2. PICK e, m : e = buf[i] /\ m = j + i
      OBVIOUS
    <3>3. cs[i] = Do("insert", p, <<e, m>>)
      BY <3>2
    <3>1. cs[i].do = "insert" /\ cs[i].b = <<e, m>> /\ m \in Nat
      BY <3>2, <3>3 DEF Do
    <3>4. <<e, m>>[2] = m
      OBVIOUS
    <3> QED
      BY <3>1, <3>4 DEF Tellable
  <2> QED
    BY <2>1
<1>3. 0 \in P
  <2>1. mpd[0] = l
    BY <1>1, MpdRuns
  <2>2. Inserted(l, mpd[0], p, buf, 0)
    BY <2>1 DEF Inserted
  <2>5. 0 \in 0..N
    BY <1>1
  <2> HIDE DEF mpd
  <2> QED
    BY <2>2, <2>5
<1>4. ASSUME NEW i \in 1..N, i - 1 \in P PROVE i \in P
  <2>1. SUFFICES ASSUME mpd[i] # NoList PROVE i \in P
    OBVIOUS
  <2>2. PICK e, d, m : e = buf[i] /\ d = j + i /\ m = mpd[i - 1]
    OBVIOUS
  <2>3. m \in Stored /\ mpd[i] = MpdCommand(m, cs[i]) /\ cs[i] = Do("insert", p, <<e, d>>)
    BY <1>1, <2>1, <2>2, MpdStep
  <2>4. PICK c : c = cs[i]
    OBVIOUS
  <2>5. c.do = "insert" /\ c.a = p /\ c.b[1] = e /\ c.b[2] = d
    BY <2>3, <2>4 DEF Do
  <2>6. m[p] # NoList /\ e \in KnownSongs /\ d <= Len(m[p]) /\ mpd[i] = [m EXCEPT ![p] = InsertAt(m[p], d + 1, e)]
    <3>1. mpd[i] = MpdCommand(m, c) /\ mpd[i] # NoList
      BY <2>1, <2>3, <2>4
    <3> HIDE DEF mpd
    <3> QED
      BY <2>5, <3>1 DEF MpdCommand
  <2>7. PICK s \in Seq(Songs) : s = m[p]
    BY <2>3, <2>6 DEF Stored
  <2>8. PICK q : q = d + 1
    OBVIOUS
  <2>9. q \in 1..Len(s) + 1 /\ e \in Songs
    <3>1. d \in Nat
      BY <2>2
    <3> QED
      BY <2>6, <2>7, <2>8, <3>1, Kinds
  <2>10. PICK t : t = InsertAt(s, q, e)
    OBVIOUS
  <2>11. t \in Seq(Songs) /\ ToSet(s) \cup {e} \subseteq ToSet(t)
    BY <2>9, <2>10, InsertedAt, InsertedEntries
  <2>12. mpd[i][p] = t
    BY <2>3, <2>6, <2>7, <2>8, <2>10 DEF Stored
  <2>13. Content(mpd[i][p]) = t /\ Content(m[p]) = s
    BY <2>6, <2>7, <2>11, <2>12, Kinds DEF Content
  <2>14. Inserted(l, m, p, buf, i - 1)
    <3>1. m # NoList
      BY <2>3, Kinds
    <3> QED
      BY <1>4, <2>2, <3>1
  <2>15. \A n \in 1..i : buf[n] \in ToSet(t)
    <3>1. SUFFICES ASSUME NEW n \in 1..i PROVE buf[n] \in ToSet(t)
      OBVIOUS
    <3>2. CASE n = i
      BY <2>2, <2>11, <3>2
    <3>3. CASE n # i
      <4>1. n \in 1..i - 1
        BY <3>3
      <4> QED
        BY <2>11, <2>13, <2>14, <4>1 DEF Inserted
    <3> QED
      BY <3>2, <3>3
  <2>16. Inserted(l, mpd[i], p, buf, i)
    <3>1. ToSet(Content(l[p])) \subseteq ToSet(t)
      BY <2>11, <2>13, <2>14 DEF Inserted
    <3> HIDE DEF mpd
    <3> QED
      BY <2>13, <2>15, <3>1 DEF Inserted
  <2>17. i \in 0..N
    BY <1>1
  <2> HIDE DEF mpd
  <2> QED
    BY <2>16, <2>17
<1>5. \A i \in 0..N : i \in P
  <2>1. \A i \in 1..N : i - 1 \in P => i \in P
    BY <1>4
  <2> HIDE DEF P, N
  <2> QED
    BY <1>1, <1>3, <2>1, Induct DEF N
<1> QED
  BY <1>5

(* Songs are put in a playlist: the first k are there.                     *)
PutSo(l, p, buf, k, how) ==
  /\ ToSet(Content(lists[p])) \subseteq ToSet(Content(l[p]))
  /\ \A i \in 1..k : buf[i] \in ToSet(Content(l[p]))
  /\ how # "insert" => Content(l[p]) = Content(lists[p]) \o SubSeq(buf, 1, k)
  /\ \A n \in PlistNames \ {p} : l[n] = lists[n]
PutTo(w, l, v, s, p) ==
  \E k \in 0..Len(w.buf) :
    /\ PutSo(l, p, w.buf, k, s.b)
    /\ v = Filled(w, k) \/ v = Undo(w, s) \/ v = Lost(w, s)

(* Putting songs into the target puts a first part of them there.          *)
LEMMA PutOutcome ==
  ASSUME lists \in Stored, NEW w, WorkOK(w), NEW l \in Stored, NEW v, Outcome(w, l, v), NEW s, s = Head(w.program),
         s.do = "put", NEW p \in PlistNames, p = s.a
  PROVE  PutTo(w, l, v, s, p)
<1>1. PICK buf \in Seq(Songs) : buf = w.buf
  BY DEF WorkOK
<1>2. CASE s.b # "insert"
  <2>1. FilledTo(w, l, v, s, p)
    BY <1>2, FillOutcome
  <2>2. PICK k \in 0..Len(buf) :
             /\ Added(l, p, buf, k)
             /\ v = Filled(w, k) \/ v = Undo(w, s) \/ v = Lost(w, s)
    BY <1>1, <2>1 DEF FilledTo
  <2>3. PICK a, b : a = Content(lists[p]) /\ b = SubSeq(buf, 1, k)
    OBVIOUS
  <2>4. a \in Seq(Songs) /\ b \in Seq(Songs) /\ Content(l[p]) = a \o b /\ Len(b) = k /\ \A i \in 1..k : b[i] = buf[i]
    <3>1. a \in Seq(Songs)
      BY <2>3 DEF Content, Stored
    <3>2. b \in Seq(Songs) /\ Len(b) = k /\ \A i \in 1..k : b[i] = buf[i]
      BY <2>3
    <3> QED
      BY <2>2, <2>3, <3>1, <3>2 DEF Added
  <2>5. ToSet(Content(l[p])) = ToSet(a) \cup ToSet(b)
    BY <2>4, JoinedEntries
  <2>6. \A i \in 1..k : buf[i] \in ToSet(b)
    BY <2>4, EntriesOf
  <2>7. PutSo(l, p, buf, k, s.b)
    BY <2>2, <2>3, <2>4, <2>5, <2>6 DEF PutSo, Added
  <2> QED
    BY <1>1, <2>2, <2>7 DEF PutTo
<1>3. CASE s.b = "insert"
  <2>1. PICK b, n, j : b = Batch(w, s) /\ n = Len(b) /\ j = w.pos
    OBVIOUS
  <2>2. n \in 0..Len(buf) /\ b \in Seq(Songs) /\ DOMAIN b = 1..n /\ n \in Nat /\ j \in Nat
    BY <1>1, <2>1, Batched DEF WorkOK
  <2>3. PICK cs : cs = Commands(w, s)
    OBVIOUS
  <2>4. cs = [i \in 1..n |-> Do("insert", p, <<buf[i], j + i>>)]
    BY <1>1, <1>3, <2>1, <2>2, <2>3 DEF Commands
  <2>5. Len(cs) = n /\ \A i \in 1..n : cs[i] = Do("insert", p, <<buf[i], j + i>>)
    BY <2>2, <2>4
  <2>6. PICK k \in 0..Len(cs) :
          /\ l = MpdCommands(lists, cs)[k] /\ l # NoList
          /\ (v \in After(w, s) /\ k = Len(cs)) \/ v = Undo(w, s) \/ v = Lost(w, s)
    BY <2>3 DEF Outcome
  <2>7. \A i \in 1..Len(cs) : cs[i].do = "insert" /\ cs[i].a = p /\ cs[i].b[2] \in Nat
    <3>1. SUFFICES ASSUME NEW i \in 1..n PROVE cs[i].do = "insert" /\ cs[i].a = p /\ cs[i].b[2] \in Nat
      BY <2>5
    <3>2. PICK e, m : e = buf[i] /\ m = j + i
      OBVIOUS
    <3>3. cs[i] = Do("insert", p, <<e, m>>) /\ m \in Nat
      BY <2>2, <2>5, <3>2
    <3> QED
      BY <3>3 DEF Do
  <2>8. \A i \in 1..Len(cs) : Tellable(cs[i])
    BY <2>7 DEF Tellable
  <2>9. Inserted(lists, l, p, buf, k)
    <3>1. Len(cs) \in 0..Len(buf) /\ \A i \in 1..Len(cs) : cs[i] = Do("insert", p, <<buf[i], j + i>>)
      BY <2>2, <2>5
    <3>2. MpdCommands(lists, cs)[k] # NoList
      BY <2>6
    <3>3. Inserted(lists, MpdCommands(lists, cs)[k], p, buf, k)
      BY <2>2, <3>1, <3>2, MpdInserts
    <3> QED
      BY <2>6, <3>3
  <2>10. ASSUME NEW m \in PlistNames \ {p} PROVE l[m] = lists[m]
    <3>1. \A i \in 1..Len(cs) : m # cs[i].a /\ ~(cs[i].do = "rename" /\ m = cs[i].b)
      BY <2>7, <2>10
    <3> QED
      BY <2>2, <2>5, <2>6, <2>8, <3>1, MpdFrame
  <2>11. PutSo(l, p, buf, k, s.b)
    BY <1>3, <2>9, <2>10 DEF PutSo, Inserted
  <2>12. v \in After(w, s) => v = Filled(w, n)
    BY <2>1 DEF After, Filled
  <2> QED
    BY <1>1, <2>2, <2>5, <2>6, <2>11, <2>12 DEF PutTo
<1> QED
  BY <1>2, <1>3

(* Playlists are copied or moved to another.                               *)
Copying(w) ==
  /\ EditOK(w) /\ (Moving(w) \/ w.op = "append")
  /\ Target(w) \notin ToSet(Sources(w))

(* The types of the playlists a copy is about.                             *)
LEMMA CopyNames ==
  ASSUME NEW w, EditOK(w), Moving(w) \/ w.op = "append"
  PROVE  /\ WorkOK(w) /\ IsWork(w) /\ w.buf \in Seq(Songs) /\ Sources(w) \in Seq(Plists) /\ Len(Sources(w)) \in Nat
         /\ Target(w) \in Plists /\ Target(w) \in PlistNames /\ Target(w) \in DOMAIN w.old
         /\ DOMAIN w.old = ToSet(Sources(w)) \cup {Target(w)} /\ DOMAIN w.old \subseteq PlistNames
         /\ \A n \in DOMAIN w.old : w.old[n] \in Seq(Songs) \cup {NoList}
         /\ \A i \in 1..Len(Sources(w)) : Sources(w)[i] \in ToSet(Sources(w)) /\ Sources(w)[i] \in PlistNames
<1>1. WorkOK(w) /\ w.op \in {"append", "move_append", "move_insert", "insert", "replace"}
  BY DEF EditOK, Moving
<1>2. Sources(w) \in Seq(Plists) /\ Target(w) \in Plists /\ DOMAIN w.old = ToSet(Sources(w)) \cup {Target(w)}
  BY <1>1 DEF EditOK
<1>3. \A n \in DOMAIN w.old : n \in PlistNames /\ w.old[n] \in Seq(Songs) \cup {NoList}
  BY <1>1 DEF WorkOK
<1>4. IsWork(w) /\ w.buf \in Seq(Songs)
  BY <1>1 DEF WorkOK
<1>5. \A i \in 1..Len(Sources(w)) : Sources(w)[i] \in ToSet(Sources(w))
  <2>1. PICK s \in Seq(Plists) : s = Sources(w)
    BY <1>2
  <2>2. \A i \in 1..Len(s) : s[i] \in ToSet(s)
    BY EntriesOf
  <2> QED
    BY <2>1, <2>2
<1>6. Target(w) \in PlistNames /\ \A i \in 1..Len(Sources(w)) : Sources(w)[i] \in PlistNames
  BY <1>2, Names
<1> QED
  BY <1>1, <1>2, <1>3, <1>4, <1>5, <1>6

(* The songs of the sources are in the target, or still in the sources.    *)
LEMMA HeldInTarget ==
  ASSUME NEW w, EditOK(w), Moving(w) \/ w.op = "append", NEW l \in Stored, Gathered(w, l, <<>>)
  PROVE  AllHeld(w, l)
<1>1. PICK names, dst, now : names = Sources(w) /\ dst = Target(w) /\ now = Content(l[dst])
  OBVIOUS
<1>2. /\ names \in Seq(Plists) /\ DOMAIN w.old = ToSet(names) \cup {dst}
      /\ \A n \in DOMAIN w.old : w.old[n] \in Seq(Songs) \cup {NoList}
      /\ \A i \in 1..Len(names) : names[i] \in ToSet(names)
  BY <1>1, CopyNames
<1>3. \A i \in 1..Len(names) : w.old[names[i]] # NoList
  BY <1>1, <1>2 DEF Gathered
<1>4. \A i \in 1..Len(names) : w.old[names[i]] \in Seq(Songs)
  BY <1>2, <1>3
<1>5. \A i \in 1..Len(names) : ToSet(w.old[names[i]]) \subseteq ToSet(Joined(w.old, names))
  BY <1>2, <1>4, JoinedHolds
<1>6. ToSet(Content(w.old[dst])) \subseteq ToSet(now) /\ ToSet(Joined(w.old, names)) \subseteq ToSet(now)
  <2>1. ToSet(<<>>) = {}
    BY DEF ToSet
  <2> QED
    BY <1>1, <2>1 DEF Gathered
<1>7. SUFFICES ASSUME NEW x \in Songs, Holds(w.old, DOMAIN w.old, x) PROVE Holds(l, DOMAIN w.old, x)
  BY DEF AllHeld
<1>8. PICK n \in DOMAIN w.old : w.old[n] # NoList /\ x \in ToSet(w.old[n])
  BY <1>7 DEF Holds
<1>9. x \in ToSet(now)
  <2>1. CASE n = dst
    BY <1>6, <1>8, <2>1 DEF Content
  <2>2. CASE n \in ToSet(names)
    <3>1. PICK i \in 1..Len(names) : names[i] = n
      BY <1>2, <2>2, EntriesOf
    <3> QED
      BY <1>5, <1>6, <1>8, <3>1
  <2> QED
    BY <1>2, <2>1, <2>2
<1>10. l[dst] # NoList
  <2>1. ToSet(<<>>) = {}
    BY DEF ToSet
  <2> QED
    BY <1>1, <1>9, <2>1 DEF Content
<1>11. x \in ToSet(l[dst]) /\ dst \in DOMAIN w.old
  BY <1>1, <1>2, <1>9, <1>10 DEF Content
<1> QED
  BY <1>10, <1>11 DEF Holds

(* While the sources are as they were and the target only grew, no song is *)
(* lost.                                                                   *)
LEMMA HeldInSources ==
  ASSUME NEW w, EditOK(w), Moving(w) \/ w.op = "append", NEW l \in Stored,
         \A n \in DOMAIN w.old \ {Target(w)} : l[n] = w.old[n],
         ToSet(Content(w.old[Target(w)])) \subseteq ToSet(Content(l[Target(w)]))
  PROVE  AllHeld(w, l)
<1>1. SUFFICES ASSUME NEW x \in Songs, Holds(w.old, DOMAIN w.old, x) PROVE Holds(l, DOMAIN w.old, x)
  BY DEF AllHeld
<1>2. PICK n \in DOMAIN w.old : w.old[n] # NoList /\ x \in ToSet(w.old[n])
  BY <1>1 DEF Holds
<1>3. CASE n # Target(w)
  BY <1>2, <1>3 DEF Holds
<1>4. CASE n = Target(w)
  <2>1. x \in ToSet(Content(l[n]))
    BY <1>2, <1>4 DEF Content
  <2>2. ToSet(<<>>) = {}
    BY DEF ToSet
  <2> QED
    BY <2>1, <2>2 DEF Content, Holds
<1> QED
  BY <1>3, <1>4

(* What stays the same is what the work is about.                          *)
LEMMA CopyKin ==
  ASSUME NEW w, NEW v, Kin(v, w)
  PROVE  /\ Sources(v) = Sources(w) /\ Target(v) = Target(w) /\ (Moving(v) <=> Moving(w)) /\ v.op = w.op /\ v.old = w.old
         /\ Deleting(v) = Deleting(w) /\ Putting(v) = Putting(w)
         /\ \A l : (Unchanged(v, l) <=> Unchanged(w, l)) /\ (AllHeld(v, l) <=> AllHeld(w, l))
         /\ \A l, c : Gathered(v, l, c) <=> Gathered(w, l, c)
<1>1. v.op = w.op /\ v.arg = w.arg /\ v.old = w.old
  BY DEF Kin
<1>2. Sources(v) = Sources(w) /\ Target(v) = Target(w) /\ (Moving(v) <=> Moving(w))
  BY <1>1 DEF Sources, Target, Moving
<1>3. Deleting(v) = Deleting(w)
  BY <1>2 DEF Deleting
<1>4. Putting(v) = Putting(w)
  BY <1>1, <1>2, <1>3 DEF Putting
<1>5. \A l : (Unchanged(v, l) <=> Unchanged(w, l)) /\ (AllHeld(v, l) <=> AllHeld(w, l))
  BY <1>1 DEF Unchanged, AllHeld
<1>6. \A l, c : Gathered(v, l, c) <=> Gathered(w, l, c)
  BY <1>1, <1>2 DEF Gathered
<1> QED
  BY <1>1, <1>2, <1>3, <1>4, <1>5, <1>6

(* The exchanges of a copy that are left.                                  *)
PutFirst(w, how) ==
  /\ Putting(w) = <<Do("put", Target(w), how)>> \o Deleting(w)
  /\ Head(Putting(w)) = Do("put", Target(w), how) /\ (how = "insert" <=> w.op = "move_insert")

(* How the steps of a copy follow each other.                              *)
LEMMA CopyParts ==
  ASSUME NEW w
  PROVE  /\ IsSeq(Deleting(w)) /\ IsSeq(Putting(w)) /\ Putting(w) # <<>>
         /\ \E how : PutFirst(w, how)
<1>1. IsSeq(Deleting(w))
  <2>1. \A c : IsSeq(<<c>>)
    BY Single
  <2> QED
    BY <2>1, Empty DEF Deleting
<1>2. PICK how : how = (IF w.op = "move_insert" THEN "insert" ELSE "")
  OBVIOUS
<1>3. PICK c : c = Do("put", Target(w), how)
  OBVIOUS
<1>4. Putting(w) = <<c>> \o Deleting(w)
  BY <1>2, <1>3 DEF Putting
<1>5. IsSeq(Putting(w)) /\ Putting(w) # <<>> /\ Head(Putting(w)) = c
  BY <1>1, <1>4, Starts
<1>6. how = "insert" <=> w.op = "move_insert"
  BY <1>2
<1>7. PutFirst(w, how)
  BY <1>3, <1>4, <1>5, <1>6 DEF PutFirst
<1> QED
  BY <1>1, <1>5, <1>7

(* Reading the sources, one after the other.                               *)
LEMMA ReadsOn ==
  ASSUME NEW names \in Seq(Plists), NEW j \in 0..Len(names) - 1
  PROVE  /\ IsSeq(Reads(names, j)) /\ IsSeq(Reads(names, j + 1)) /\ j + 1 \in 1..Len(names)
         /\ Reads(names, j) = <<Do("read", names[j + 1], "")>> \o Reads(names, j + 1)
         /\ Reads(names, Len(names)) = <<>>
<1>1. PICK n \in Nat : n = Len(names)
  OBVIOUS
<1>2. PICK k \in Nat : k = j + 1
  BY <1>1
<1>3. j \in Nat /\ k \in 1..n /\ k = j + 1 /\ n - j \in Nat /\ n - k \in Nat
  BY <1>1, <1>2
<1>4. PICK a, b, c : a = Reads(names, j) /\ b = Reads(names, k) /\ c = Do("read", names[k], "")
  OBVIOUS
<1>5. a = [i \in 1..n - j |-> Do("read", names[i + j], "")] /\ b = [i \in 1..n - k |-> Do("read", names[i + k], "")]
  BY <1>1, <1>4 DEF Reads
<1>6. IsSeq(a) /\ Len(a) = n - j
  <2>1. PICK m \in Nat : m = n - j
    BY <1>3
  <2>2. a = [i \in 1..m |-> a[i]] /\ DOMAIN a = 1..m
    BY <1>5, <2>1
  <2>3. PICK E : E = {a[i] : i \in 1..m}
    OBVIOUS
  <2>4. a \in Seq(E)
    BY <2>2, <2>3
  <2>5. IsSeq(a)
    BY <2>4 DEF IsSeq
  <2>6. Len(a) = m
    BY <2>2, <2>4
  <2> QED
    BY <2>1, <2>5, <2>6
<1>7. IsSeq(b) /\ Len(b) = n - k
  <2>1. PICK m \in Nat : m = n - k
    BY <1>3
  <2>2. b = [i \in 1..m |-> b[i]] /\ DOMAIN b = 1..m
    BY <1>5, <2>1
  <2>3. PICK E : E = {b[i] : i \in 1..m}
    OBVIOUS
  <2>4. b \in Seq(E)
    BY <2>2, <2>3
  <2>5. IsSeq(b)
    BY <2>4 DEF IsSeq
  <2>6. Len(b) = m
    BY <2>2, <2>4
  <2> QED
    BY <2>1, <2>5, <2>6
<1>8. PICK e : e = <<c>> \o b
  OBVIOUS
<1>9. IsSeq(e) /\ Len(e) = Len(b) + 1 /\ \A i \in 1..Len(b) + 1 : e[i] = IF i = 1 THEN c ELSE b[i - 1]
  <2>1. IsSeq(e)
    BY <1>7, <1>8, Starts
  <2>2. /\ Len(<<c>> \o b) = Len(b) + 1
        /\ \A i \in 1..Len(b) + 1 : (<<c>> \o b)[i] = IF i = 1 THEN c ELSE b[i - 1]
    BY <1>7, StartsAt
  <2> QED
    BY <1>8, <2>1, <2>2
<1>10. \A i \in 1..n - j : e[i] = a[i]
  <2>1. SUFFICES ASSUME NEW i \in 1..n - j PROVE e[i] = a[i]
    OBVIOUS
  <2>2. CASE i = 1
    <3>1. i + j = k
      BY <1>3, <2>2
    <3>2. PICK m : m = i + j
      OBVIOUS
    <3>3. a[i] = Do("read", names[m], "")
      BY <1>5, <3>2
    <3>4. a[i] = c
      BY <1>4, <3>1, <3>2, <3>3
    <3>5. 1 \in 1..Len(b) + 1
      BY <1>3, <1>7
    <3>6. e[1] = c
      BY <1>9, <3>5
    <3> QED
      BY <2>2, <3>4, <3>6
  <2>3. CASE i # 1
    <3>1. PICK m : m = i - 1
      OBVIOUS
    <3>2. m \in 1..n - k /\ m + k = i + j
      BY <1>3, <2>3, <3>1
    <3>3. b[m] = Do("read", names[m + k], "") /\ a[i] = Do("read", names[i + j], "")
      BY <1>5, <3>2
    <3>4. e[i] = b[m]
      BY <1>3, <1>7, <1>9, <2>3, <3>1
    <3> QED
      BY <3>2, <3>3, <3>4
  <2> QED
    BY <2>2, <2>3
<1>11. a = e
  BY <1>3, <1>6, <1>7, <1>9, <1>10, SMTT(30) DEF IsSeq
<1>12. Reads(names, n) = <<>>
  <2>1. Reads(names, n) = [i \in 1..n - n |-> Do("read", names[i + n], "")]
    BY <1>1 DEF Reads
  <2>2. 1..n - n = {}
    BY <1>1
  <2> QED
    BY <2>1, <2>2
<1> QED
  BY <1>1, <1>2, <1>3, <1>4, <1>6, <1>7, <1>8, <1>11, <1>12

(* A source is read.                                                       *)
LEMMA CopyReadStep ==
  ASSUME lists \in Stored, ranges \in BOOLEAN, NEW w, EditOK(w), Moving(w) \/ w.op = "append",
         w.result = "none", Unchanged(w, lists), NEW j \in 0..Len(Sources(w)) - 1, ReadingAt(w, ranges, j),
         NEW l \in Stored, NEW v, Outcome(w, l, v)
  PROVE  CopyInv(v, l, ranges)
<1>1. PICK names, old : names = Sources(w) /\ old = w.old
  OBVIOUS
<1>2. /\ WorkOK(w) /\ IsWork(w) /\ names \in Seq(Plists) /\ Len(names) \in Nat
      /\ DOMAIN old = ToSet(names) \cup {Target(w)} /\ DOMAIN old \subseteq PlistNames
      /\ \A n \in DOMAIN old : old[n] \in Seq(Songs) \cup {NoList}
      /\ \A i \in 1..Len(names) : names[i] \in ToSet(names)
  BY <1>1, CopyNames
<1>3. PICK m \in Nat : m = j + 1
  OBVIOUS
<1>4. m \in 1..Len(names) /\ j \in 0..Len(names) - 1
  BY <1>1, <1>2, <1>3
<1>5. PICK p, x, read : p = names[m] /\ x = old[p] /\ read = Joined(old, SubSeq(names, 1, j))
  OBVIOUS
<1>6. /\ w.program = Reads(names, j) \o Putting(w) /\ Reading(w, ranges, read, x)
      /\ \A i \in 1..j : old[names[i]] # NoList
  BY <1>1, <1>3, <1>5 DEF ReadingAt
<1>7. PICK e : e = Do("read", p, "")
  OBVIOUS
<1>8. e.do = "read" /\ e.a = p /\ e.b = ""
  BY <1>7 DEF Do
<1>9. IsSeq(Reads(names, m)) /\ IsSeq(<<e>>) /\ Reads(names, j) = <<e>> \o Reads(names, m)
  <2>1. IsSeq(Reads(names, m)) /\ Reads(names, j) = <<Do("read", names[m], "")>> \o Reads(names, m)
    BY <1>2, <1>3, <1>4, ReadsOn
  <2>2. IsSeq(<<e>>)
    BY Single
  <2> QED
    BY <1>5, <1>7, <2>1, <2>2
<1>10. PICK put : put = Putting(w)
  OBVIOUS
<1>11. IsSeq(put) /\ put # <<>>
  BY <1>10, CopyParts
<1>12. PICK rest : rest = Reads(names, m) \o put
  OBVIOUS
<1>13. IsSeq(rest) /\ rest # <<>> /\ w.program = <<e>> \o rest
  <2>1. IsSeq(rest)
    BY <1>9, <1>11, <1>12, Joins
  <2>2. rest # <<>>
    BY <1>9, <1>11, <1>12, Joined0
  <2>3. (<<e>> \o Reads(names, m)) \o put = <<e>> \o (Reads(names, m) \o put)
    BY <1>9, <1>11, Assoc
  <2> QED
    BY <1>6, <1>9, <1>10, <1>12, <2>1, <2>2, <2>3
<1>14. Head(w.program) = e /\ w.program # <<>>
  BY <1>13, Starts
<1>15. p \in DOMAIN old /\ lists[p] = x
  BY <1>1, <1>2, <1>4, <1>5 DEF Unchanged
<1>16. read \in Seq(Songs)
  <2>1. PICK a : a = SubSeq(names, 1, j)
    OBVIOUS
  <2>2. a \in Seq(Plists) /\ Len(a) = j /\ \A i \in 1..j : a[i] = names[i]
    BY <1>2, <1>4, <2>1
  <2>3. ASSUME NEW i \in 1..Len(a) PROVE old[a[i]] \in Seq(Songs)
    <3>1. i \in 1..j /\ i \in 1..Len(names)
      BY <1>2, <1>4, <2>2
    <3> QED
      BY <1>2, <1>6, <2>2, <3>1
  <2>4. Joined(old, a) \in Seq(Songs)
    BY <2>2, <2>3, JoinedHolds
  <2> QED
    BY <1>5, <2>1, <2>4
<1>17. ReadsOne(w, l, v, ranges, e, read, x)
  BY <1>2, <1>6, <1>8, <1>14, <1>15, <1>16, ReadingOne
<1>18. Kin(v, w)
  BY <1>2, Kept
<1>19. /\ Sources(v) = names /\ v.old = old /\ Putting(v) = put /\ Target(v) = Target(w)
       /\ (Unchanged(v, lists) <=> Unchanged(w, lists)) /\ (AllHeld(v, lists) <=> AllHeld(w, lists))
  BY <1>1, <1>10, <1>18, CopyKin
<1>20. CASE l = lists /\ v \in {Undo(w, e), Lost(w, e)}
  <2>1. v.program = <<>> /\ v.result = "failed"
    BY <1>8, <1>20, ApiStops
  <2>2. AllHeld(w, lists)
    BY <1>2, OldLists
  <2> QED
    BY <1>19, <1>20, <2>1, <2>2 DEF CopyInv
<1>21. CASE l = lists /\ ReadOn(v, w, ranges, read, x)
  <2>1. v.program = w.program /\ v.result = "none" /\ Reading(v, ranges, read, x)
    BY <1>21 DEF ReadOn
  <2>2. ReadingAt(v, ranges, j)
    BY <1>3, <1>5, <1>6, <1>10, <1>19, <2>1 DEF ReadingAt
  <2> QED
    BY <1>4, <1>19, <1>21, <2>1, <2>2 DEF CopyInv
<1>22. CASE l = lists /\ x \in Seq(Songs) /\ v \in Got(w, e.a, e.b, read \o x)
  <2>1. PICK buf, how : buf = read \o x /\ how = ""
    OBVIOUS
  <2>2. v \in Got(w, p, how, buf) /\ how \notin {"shuffle", "sort", "dedup", "validate"}
    BY <1>8, <1>22, <2>1
  <2>3. GotSo(v, rest, buf)
    BY <1>2, <1>13, <2>2, GotAll
  <2>4. v.program = rest /\ v.result = "none" /\ v.start = 0 /\ v.pos = 0 /\ v.buf = buf
    BY <2>3 DEF GotSo
  <2>5. \A i \in 1..m : old[names[i]] \in Seq(Songs) /\ old[names[i]] # NoList
    <3>1. SUFFICES ASSUME NEW i \in 1..m PROVE old[names[i]] \in Seq(Songs)
      BY Kinds
    <3>2. CASE i = m
      BY <1>5, <1>22, <3>2
    <3>3. CASE i # m
      <4>1. i \in 1..j /\ i \in 1..Len(names)
        BY <1>3, <1>4, <3>3
      <4> QED
        BY <1>2, <1>6, <4>1
    <3> QED
      BY <3>2, <3>3
  <2>6. Joined(old, SubSeq(names, 1, m)) = buf
    <3>1. \A i \in 1..j + 1 : old[names[i]] \in Seq(Songs)
      BY <1>3, <2>5
    <3>2. Joined(old, SubSeq(names, 1, j + 1)) = Joined(old, SubSeq(names, 1, j)) \o old[names[j + 1]]
      BY <1>2, <1>4, <3>1, JoinedOn
    <3> QED
      BY <1>3, <1>5, <2>1, <3>2
  <2>7. CASE m < Len(names)
    <3>1. PICK y : y = old[names[m + 1]]
      OBVIOUS
    <3>2. Reading(v, ranges, buf, y)
      BY <2>4 DEF Reading
    <3>3. ReadingAt(v, ranges, m)
      BY <1>10, <1>12, <1>19, <2>4, <2>5, <2>6, <3>1, <3>2 DEF ReadingAt
    <3>4. m \in 0..Len(names) - 1
      BY <1>2, <1>4, <2>7
    <3> QED
      BY <1>19, <1>22, <2>4, <3>3, <3>4 DEF CopyInv
  <2>8. CASE m = Len(names)
    <3>1. v.program = put
      <4>1. Reads(names, m) = <<>>
        BY <1>2, <1>4, <2>8, ReadsOn
      <4>2. <<>> \o put = put
        BY <1>11, Nothing
      <4> QED
        BY <1>12, <2>4, <4>1, <4>2
    <3>2. SubSeq(names, 1, m) = names
      BY <1>2, <2>8
    <3>3. Joined(old, names) = buf
      BY <2>6, <3>2
    <3>4. PICK before : before = Content(old[Target(w)])
      OBVIOUS
    <3>5. Content(lists[Target(w)]) = before
      BY <1>1, <1>2, <3>4 DEF Unchanged
    <3>6. Gathered(v, lists, buf)
      <4>1. \A i \in DOMAIN names : old[names[i]] # NoList
        BY <1>2, <2>5, <2>8
      <4> QED
        BY <1>19, <3>3, <3>4, <3>5, <4>1 DEF Gathered
    <3>7. PuttingOn(v, lists)
      BY <1>1, <1>19, <2>4, <3>6 DEF PuttingOn, Unchanged
    <3> QED
      BY <1>19, <1>22, <2>4, <3>1, <3>7 DEF CopyInv
  <2> QED
    BY <1>2, <1>4, <2>7, <2>8
<1> QED
  BY <1>17, <1>20, <1>21, <1>22 DEF ReadsOne

(* What was read goes into the target.                                     *)
PutOn(v, w, rest, b) ==
  /\ v.start = w.start
  /\ b # <<>> => v.program = w.program /\ v.result = "none" /\ v.buf = b
  /\ b = <<>> => v.program = rest /\ v.buf = <<>> /\ v.result = IF rest = <<>> THEN "ok" ELSE "none"

(* Putting a part of the buffer leaves the other part in it.               *)
LEMMA FilledAll ==
  ASSUME NEW w, WorkOK(w), w.result = "none", NEW e, NEW rest, IsSeq(rest), w.program = <<e>> \o rest,
         NEW k \in 0..Len(w.buf), NEW b, b = SubSeq(w.buf, k + 1, Len(w.buf)), NEW v, v = Filled(w, k)
  PROVE  PutOn(v, w, rest, b)
<1>1. PICK i : i = w.pos + k
  OBVIOUS
<1>2. PICK u : u = [w EXCEPT !.buf = b, !.pos = i]
  OBVIOUS
<1>3. IsWork(w)
  BY DEF WorkOK
<1>4. u.buf = b /\ u.start = w.start /\ u.program = w.program /\ u.result = w.result /\ IsWork(u)
  BY <1>2, <1>3 DEF IsWork, Fields
<1>5. v = IF b = <<>> THEN Advance([u EXCEPT !.pos = 0]) ELSE u
  BY <1>1, <1>2, <1>4 DEF Filled
<1>6. CASE b # <<>>
  BY <1>4, <1>5, <1>6 DEF PutOn
<1>7. CASE b = <<>>
  <2>1. PICK t : t = [u EXCEPT !.pos = 0]
    OBVIOUS
  <2>2. t.buf = b /\ t.start = w.start /\ t.program = w.program /\ t.result = w.result /\ IsWork(t)
    BY <1>4, <2>1 DEF IsWork, Fields
  <2>3. v = Advance(t)
    BY <1>5, <1>7, <2>1
  <2>4. IsAfter(v, t, rest)
    BY <2>2, <2>3, AdvancedTo
  <2> QED
    BY <1>7, <2>2, <2>4 DEF IsAfter, PutOn
<1> QED
  BY <1>6, <1>7

(* Putting the songs that were read keeps the invariant of the copy.       *)
LEMMA CopyPutStep ==
  ASSUME lists \in Stored, NEW w, EditOK(w), Moving(w) \/ w.op = "append",
         w.result = "none", w.program = Putting(w), PuttingOn(w, lists),
         NEW l \in Stored, NEW v, Outcome(w, l, v)
  PROVE  CopyInv(v, l, ranges)
<1>1. PICK dst, buf, old, rest : dst = Target(w) /\ buf = w.buf /\ old = w.old /\ rest = Deleting(w)
  OBVIOUS
<1>2. WorkOK(w) /\ IsWork(w) /\ buf \in Seq(Songs) /\ dst \in PlistNames /\ DOMAIN old \subseteq PlistNames /\ dst \in DOMAIN old
  BY <1>1, CopyNames
<1>3. PICK how : PutFirst(w, how)
  BY CopyParts
<1>4. PICK e : e = Do("put", dst, how)
  OBVIOUS
<1>5. e.do = "put" /\ e.a = dst /\ e.b = how
  BY <1>4 DEF Do
<1>6. IsSeq(rest) /\ w.program = <<e>> \o rest /\ Head(w.program) = e
  BY <1>1, <1>3, <1>4, CopyParts DEF PutFirst
<1>7. how = "insert" <=> w.op = "move_insert"
  BY <1>3 DEF PutFirst
<1>8. PutTo(w, l, v, e, dst)
  BY <1>2, <1>5, <1>6, PutOutcome
<1>9. PICK k \in 0..Len(buf) : PutSo(l, dst, buf, k, how) /\ (v = Filled(w, k) \/ v = Undo(w, e) \/ v = Lost(w, e))
  BY <1>1, <1>5, <1>8 DEF PutTo
<1>10. PICK before, now, then, all : /\ before = Content(old[dst]) /\ now = Content(lists[dst])
                                     /\ then = Content(l[dst]) /\ all = Joined(old, Sources(w))
  OBVIOUS
<1>11. /\ \A i \in DOMAIN Sources(w) : old[Sources(w)[i]] # NoList
       /\ ToSet(before) \subseteq ToSet(now) /\ ToSet(all) \subseteq ToSet(now) \cup ToSet(buf)
       /\ w.op # "move_insert" => now \o buf = before \o all
       /\ w.start = 0 /\ \A n \in DOMAIN old \ {dst} : lists[n] = old[n]
  BY <1>1, <1>10 DEF PuttingOn, Gathered
<1>12. /\ ToSet(now) \subseteq ToSet(then) /\ \A i \in 1..k : buf[i] \in ToSet(then)
       /\ how # "insert" => then = now \o SubSeq(buf, 1, k)
       /\ \A n \in DOMAIN old \ {dst} : l[n] = old[n]
  <2>1. \A n \in PlistNames \ {dst} : l[n] = lists[n]
    BY <1>9 DEF PutSo
  <2>2. \A n \in DOMAIN old \ {dst} : l[n] = old[n]
    BY <1>2, <1>11, <2>1
  <2> QED
    BY <1>9, <1>10, <2>2 DEF PutSo
<1>13. Kin(v, w)
  BY <1>2, Kept
<1>14. /\ v.old = old /\ Target(v) = dst /\ Putting(v) = Putting(w) /\ Deleting(v) = rest /\ (Moving(v) <=> Moving(w))
       /\ (AllHeld(v, l) <=> AllHeld(w, l)) /\ \A c : Gathered(v, l, c) <=> Gathered(w, l, c)
  BY <1>1, <1>13, CopyKin
<1>15. CASE v \in {Undo(w, e), Lost(w, e)}
  <2>1. v.program = <<>> /\ v.result = "failed"
    BY <1>5, <1>15, ApiStops
  <2>2. ToSet(before) \subseteq ToSet(then)
    BY <1>11, <1>12
  <2>3. AllHeld(w, l)
    BY <1>1, <1>10, <1>12, <2>2, HeldInSources
  <2> QED
    BY <1>14, <2>1, <2>3 DEF CopyInv
<1>16. CASE v = Filled(w, k)
  <2>1. PICK a, b : a = SubSeq(buf, 1, k) /\ b = SubSeq(buf, k + 1, Len(buf))
    OBVIOUS
  <2>2. a \in Seq(Songs) /\ b \in Seq(Songs) /\ a \o b = buf
    <3>1. PICK n \in Nat : n = Len(buf)
      BY <1>2
    <3>2. k \in 0..Len(buf) /\ n \in k..Len(buf)
      BY <3>1
    <3>4. /\ SubSeq(buf, 1, k) \o SubSeq(buf, k + 1, n) = SubSeq(buf, 1, n)
          /\ SubSeq(buf, k + 1, n) \in Seq(Songs) /\ SubSeq(buf, 1, k) \in Seq(Songs)
      BY <1>2, <3>2, Pieces
    <3>5. SubSeq(buf, 1, n) = buf
      BY <1>2, <3>1
    <3>3. /\ SubSeq(buf, 1, k) \o SubSeq(buf, k + 1, n) = SubSeq(buf, 1, n) /\ SubSeq(buf, 1, n) = buf
          /\ SubSeq(buf, k + 1, n) \in Seq(Songs) /\ SubSeq(buf, 1, k) \in Seq(Songs)
      BY <3>4, <3>5
    <3> QED
      BY <2>1, <3>1, <3>3
  <2>3. PutOn(v, w, rest, b)
    BY <1>1, <1>2, <1>6, <1>16, <2>1, FilledAll
  <2>4. ToSet(a) \subseteq ToSet(then)
    <3>1. Len(a) = k /\ \A i \in 1..k : a[i] = buf[i]
      BY <1>2, <2>1
    <3>2. SUFFICES ASSUME NEW x \in ToSet(a) PROVE x \in ToSet(then)
      OBVIOUS
    <3>3. PICK i \in 1..Len(a) : a[i] = x
      BY <2>2, EntriesOf
    <3> QED
      BY <1>12, <3>1, <3>3
  <2>5. ToSet(buf) = ToSet(a) \cup ToSet(b)
    <3>2. a \in Seq(Songs) /\ b \in Seq(Songs)
      BY <2>2
    <3>1. ToSet(a \o b) = ToSet(a) \cup ToSet(b)
      BY <3>2, JoinedEntries
    <3> QED
      BY <2>2, <3>1
  <2>6. w.op # "move_insert" => then \o b = before \o all
    <3>1. SUFFICES ASSUME w.op # "move_insert" PROVE then \o b = before \o all
      OBVIOUS
    <3>2. then = now \o a /\ now \o buf = before \o all
      BY <1>7, <1>11, <1>12, <2>1, <3>1
    <3>3. IsSeq(now) /\ IsSeq(a) /\ IsSeq(b)
      <4>1. now \in Seq(Songs)
        BY <1>2, <1>10 DEF Stored, Content
      <4> QED
        BY <2>2, <4>1 DEF IsSeq
    <3>4. (now \o a) \o b = now \o (a \o b)
      BY <3>3, Assoc
    <3> QED
      BY <2>2, <3>2, <3>4
  <2>7. Gathered(w, l, b)
    <3>1. ToSet(before) \subseteq ToSet(then) /\ ToSet(all) \subseteq ToSet(then) \cup ToSet(b)
      BY <1>11, <1>12, <2>4, <2>5
    <3> QED
      BY <1>1, <1>10, <1>11, <2>6, <3>1 DEF Gathered
  <2>8. CASE b # <<>>
    <3>1. v.program = Putting(v) /\ v.result = "none" /\ v.buf = b /\ v.start = 0
      BY <1>11, <1>14, <2>3, <2>8 DEF PutOn
    <3>2. PuttingOn(v, l)
      BY <1>12, <1>14, <2>7, <3>1 DEF PuttingOn
    <3> QED
      BY <3>1, <3>2 DEF CopyInv
  <2>9. CASE b = <<>>
    <3>1. v.program = rest /\ v.result = (IF rest = <<>> THEN "ok" ELSE "none") /\ Gathered(v, l, <<>>)
      BY <1>14, <2>3, <2>7, <2>9 DEF PutOn
    <3>2. CASE rest = <<>>
      BY <3>1, <3>2 DEF CopyInv
    <3>3. CASE rest # <<>>
      <4>1. Moving(v)
        BY <1>1, <1>14, <3>3 DEF Deleting
      <4>2. DeletingOn(v, l)
        BY <1>14, <3>1, <4>1 DEF DeletingOn
      <4>3. v.result = "none"
        BY <3>1, <3>3
      <4> QED
        BY <4>2, <4>3 DEF CopyInv
    <3> QED
      BY <3>2, <3>3
  <2> QED
    BY <2>8, <2>9
<1> QED
  BY <1>9, <1>15, <1>16

(* The sources are removed.                                                *)
LEMMA CopyDelStep ==
  ASSUME lists \in Stored, NEW w, EditOK(w), Moving(w), Target(w) \notin ToSet(Sources(w)),
         w.result = "none", w.program # <<>>, DeletingOn(w, lists),
         NEW l \in Stored, NEW v, Outcome(w, l, v)
  PROVE  CopyInv(v, l, ranges)
<1>1. PICK dst, S : dst = Target(w) /\ S = ToSet(Sources(w))
  OBVIOUS
<1>2. /\ WorkOK(w) /\ IsWork(w) /\ dst \in PlistNames
      /\ DOMAIN w.old = S \cup {dst} /\ DOMAIN w.old \subseteq PlistNames /\ dst \notin S
  BY <1>1, CopyNames
<1>3. Gathered(w, lists, <<>>)
  BY DEF DeletingOn
<1>4. PICK e : e = Head(w.program)
  OBVIOUS
<1>5. Kin(v, w)
  BY <1>2, Kept
<1>6. /\ Sources(v) = Sources(w) /\ Moving(v) /\ (AllHeld(v, l) <=> AllHeld(w, l))
      /\ \A c : Gathered(v, l, c) <=> Gathered(w, l, c)
  BY <1>5, CopyKin
<1>7. ASSUME e.do \in {"delete", "drop"}, Gathered(w, l, <<>>), v \in {Undo(w, e), Lost(w, e)} PROVE CopyInv(v, l, ranges)
  <2>1. v.program = <<>> /\ v.result = "failed"
    BY <1>7, ApiStops
  <2>2. AllHeld(w, l)
    BY <1>7, HeldInTarget
  <2> QED
    BY <1>6, <2>1, <2>2 DEF CopyInv
<1>8. IsSeq(<<e>>) /\ <<e>> \o <<>> = <<e>>
  BY Single
<1>9. CASE w.program = Deleting(w)
  <2>1. PICK c : c = Do("delete", "", S)
    OBVIOUS
  <2>2. w.program = <<c>>
    BY <1>1, <1>9, <2>1 DEF Deleting
  <2>3. e = c
    <3>1. Head(<<c>>) = c
      OBVIOUS
    <3> QED
      BY <1>4, <2>2, <3>1
  <2>4. e.do = "delete" /\ e.b = S
    BY <2>1, <2>3 DEF Do
  <2>5. Commands(w, e) = <<>>
    BY <2>4 DEF Commands
  <2>6. l = lists /\ (v \in After(w, e) \/ v = Undo(w, e) \/ v = Lost(w, e))
    BY <1>4, <2>5, QuietOutcome
  <2>7. CASE v \in {Undo(w, e), Lost(w, e)}
    BY <1>3, <1>7, <2>4, <2>6, <2>7
  <2>8. CASE v \in After(w, e)
    <3>1. PICK d : d = Do("drop", S, Removed(S))
      OBVIOUS
    <3>2. v = Instead(w, <<d>>)
      BY <2>4, <2>8, <3>1 DEF After
    <3>3. <<d>> \o <<>> = <<d>> /\ <<d>> # <<>> /\ Head(<<d>>) = d
      <4>1. <<d>> \o <<>> = <<d>>
        BY Single
      <4>2. Head(<<d>>) = d
        OBVIOUS
      <4> QED
        BY <4>1, <4>2
    <3>4. PICK f : f = <<d>>
      OBVIOUS
    <3>5. w.program = <<e>> \o <<>> /\ v = Instead(w, f)
      BY <1>8, <2>2, <2>3, <3>2, <3>4
    <3>6. IsAfter(v, w, f \o <<>>)
      BY <1>2, <3>5, Empty, InsteadOf
    <3>7. v.program = f /\ f # <<>> /\ Head(f) = d
      BY <3>3, <3>4, <3>6 DEF IsAfter
    <3>8. v.result = "none"
      BY <3>3, <3>4, <3>6 DEF IsAfter
    <3>9. Drops(d, S)
      <4>1. d.do = "drop" /\ d.b = Removed(S)
        BY <3>1 DEF Do
      <4>2. S \subseteq PlistNames
        BY <1>2
      <4>3. \A i \in 1..Len(Removed(S)) : \E n \in S : Removed(S)[i] = Do("rm", n, "")
        BY <4>2, RemovedListed
      <4> QED
        BY <4>1, <4>3 DEF Drops
    <3>10. v.program = <<Head(v.program)>> /\ Drops(Head(v.program), S)
      BY <3>4, <3>7, <3>9
    <3>11. DeletingOn(v, l)
      BY <1>1, <1>3, <1>6, <2>6, <3>10 DEF DeletingOn
    <3> QED
      BY <3>8, <3>11 DEF CopyInv
  <2> QED
    BY <2>6, <2>7, <2>8
<1>10. CASE w.program = <<e>> /\ Drops(e, S)
  <2>1. PICK cs : cs = e.b
    OBVIOUS
  <2>2. e.do = "drop" /\ \A i \in 1..Len(cs) : \E n \in S : cs[i] = Do("rm", n, "")
    BY <1>10, <2>1 DEF Drops
  <2>3. Commands(w, e) = cs
    BY <2>1, <2>2 DEF Commands
  <2>4. Len(cs) \in Nat
    <3>1. StepOK(w, e)
      BY <1>2, <1>4, Programs
    <3> QED
      BY <2>1, <2>2, <3>1 DEF StepOK
  <2>5. \A i \in 1..Len(cs) : cs[i].do = "rm" /\ cs[i].a \in S
    <3>1. SUFFICES ASSUME NEW i \in 1..Len(cs) PROVE cs[i].do = "rm" /\ cs[i].a \in S
      OBVIOUS
    <3>2. PICK n \in S : cs[i] = Do("rm", n, "")
      BY <2>2
    <3>3. PICK r : r = Do("rm", n, "")
      OBVIOUS
    <3>4. r.do = "rm" /\ r.a = n
      BY <3>3 DEF Do
    <3> QED
      BY <3>2, <3>3, <3>4
  <2>6. PICK k \in 0..Len(cs) :
          /\ l = MpdCommands(lists, cs)[k] /\ l # NoList
          /\ v \in After(w, e) \cup {Undo(w, e), Lost(w, e)}
    BY <1>4, <2>3 DEF Outcome
  <2>7. l[dst] = lists[dst]
    <3>1. \A i \in 1..Len(cs) : Tellable(cs[i])
      BY <2>5 DEF Tellable
    <3>2. \A i \in 1..Len(cs) : dst # cs[i].a /\ ~(cs[i].do = "rename" /\ dst = cs[i].b)
      BY <1>2, <2>5
    <3> QED
      BY <1>2, <2>4, <2>6, <3>1, <3>2, MpdFrame
  <2>8. Gathered(w, l, <<>>)
    BY <1>1, <1>3, <2>7 DEF Gathered
  <2>9. CASE v \in {Undo(w, e), Lost(w, e)}
    BY <1>7, <2>2, <2>8, <2>9
  <2>10. CASE v \in After(w, e)
    <3>1. v = Advance(w)
      BY <2>2, <2>10 DEF After
    <3>2. w.program = <<e>> \o <<>>
      BY <1>8, <1>10
    <3>3. IsAfter(v, w, <<>>)
      BY <1>2, <3>1, <3>2, Empty, AdvancedTo
    <3>4. v.program = <<>> /\ v.result = "ok"
      BY <3>3 DEF IsAfter
    <3> QED
      BY <1>6, <2>8, <3>4 DEF CopyInv
  <2> QED
    BY <2>6, <2>9, <2>10
<1> QED
  BY <1>1, <1>4, <1>9, <1>10 DEF DeletingOn

(* Every exchange of a copy keeps its invariant: the sources go only once  *)
(* all is put.                                                             *)
LEMMA CopyStep ==
  ASSUME lists \in Stored, ranges \in BOOLEAN, NEW w, EditOK(w), Moving(w) \/ w.op = "append", Target(w) \notin ToSet(Sources(w)),
         w.program # <<>>, CopyInv(w, lists, ranges), NEW l \in Stored, NEW v, Outcome(w, l, v)
  PROVE  CopyInv(v, l, ranges)
<1>1. CASE w.result = "none" /\ Unchanged(w, lists) /\ \E j \in 0..Len(Sources(w)) - 1 : ReadingAt(w, ranges, j)
  BY <1>1, CopyReadStep
<1>2. CASE w.result = "none" /\ w.program = Putting(w) /\ PuttingOn(w, lists)
  BY <1>2, CopyPutStep
<1>3. CASE w.result = "none" /\ DeletingOn(w, lists)
  BY <1>3, CopyDelStep DEF DeletingOn
<1> QED
  BY <1>1, <1>2, <1>3 DEF CopyInv

(* A command goes on as its invariant says, whatever comes of an exchange. *)
LEMMA EditStep ==
  ASSUME lists \in Stored, ranges \in BOOLEAN, NEW w, EditOK(w), w.program # <<>>, EditInv(w, lists, ranges),
         NEW l \in Stored, NEW v, Outcome(w, l, v)
  PROVE  EditInv(v, l, ranges)
<1>1. Kin(v, w)
  BY Kept DEF EditOK, WorkOK
<1>2. SUFFICES ASSUME v.alone PROVE
        /\ (Moving(v) \/ v.op = "append") /\ Target(v) \notin ToSet(Sources(v)) => CopyInv(v, l, ranges)
        /\ v.op = "move_songs" => ShiftInv(v, l, ranges)
        /\ v.op = "rename" /\ v.old[v.arg[1]] # NoList => RenameInv(v, l)
  BY DEF EditInv
<1>3. w.alone
  BY <1>1, <1>2 DEF Kin
<1>4. ASSUME (Moving(v) \/ v.op = "append") /\ Target(v) \notin ToSet(Sources(v)) PROVE CopyInv(v, l, ranges)
  <2>1. (Moving(w) \/ w.op = "append") /\ Target(w) \notin ToSet(Sources(w))
    BY <1>1, <1>4 DEF Kin, Moving, Sources, Target
  <2>2. CopyInv(w, lists, ranges)
    BY <1>3, <2>1 DEF EditInv
  <2> QED
    BY <2>1, <2>2, CopyStep
<1>5. ASSUME v.op = "move_songs" PROVE ShiftInv(v, l, ranges)
  <2>1. w.op = "move_songs"
    BY <1>1, <1>5 DEF Kin
  <2>2. ShiftInv(w, lists, ranges)
    BY <1>3, <2>1 DEF EditInv
  <2> QED
    BY <2>1, <2>2, ShiftingStep
<1>6. ASSUME v.op = "rename", v.old[v.arg[1]] # NoList PROVE RenameInv(v, l)
  <2>1. w.op = "rename" /\ w.old[w.arg[1]] # NoList
    BY <1>1, <1>6 DEF Kin
  <2>2. RenameInv(w, lists)
    BY <1>3, <2>1 DEF EditInv
  <2> QED
    BY <2>1, <2>2, RenamingStep
<1> QED
  BY <1>4, <1>5, <1>6

(* A thread creates no playlists but its own.                              *)
LEMMA OwnCommands ==
  ASSUME NEW w, WorkOK(w), NEW s, StepOK(w, s), NEW cs, cs = Commands(w, s), NEW i \in 1..Len(cs)
  PROVE  (cs[i].do = "add" => cs[i].a \in Own(w)) /\ (cs[i].do = "rename" => cs[i].b \in Own(w))
<1>1. CASE s.do \in {"add", "insert", "del", "delfrom", "move", "rename", "rm", "clear"}
  <2>1. cs = <<s>>
    BY <1>1 DEF Commands
  <2>2. cs[i] = s
    BY <2>1
  <2> QED
    BY <2>2 DEF StepOK
<1>2. CASE s.do \in {"list", "drop"}
  <2>1. cs = s.b
    BY <1>2 DEF Commands
  <2>2. cs[i].do \in {"rm", "del"}
    BY <1>2, <2>1 DEF StepOK
  <2> QED
    BY <2>2
<1>3. CASE s.do = "shift"
  <2>1. PICK c1, c2, c3, c4 : /\ c1 = Add(s.a, w.buf[2]) /\ c2 = Do("del", s.b, 2)
                              /\ c3 = Add(s.a, w.buf[1]) /\ c4 = Do("del", s.b, 1)
    OBVIOUS
  <2>2. PICK x, y : x = (IF Len(w.buf) > 1 THEN <<c1, c2>> ELSE <<>>) /\ y = (IF w.buf # <<>> THEN <<c3, c4>> ELSE <<>>)
    OBVIOUS
  <2>3. cs = x \o y
    <3>1. cs = Shifted(w.buf, s.b, s.a)
      BY <1>3 DEF Commands
    <3> QED
      BY <2>1, <2>2, <3>1 DEF Shifted
  <2>4. PICK E : E = {c1, c2, c3, c4}
    OBVIOUS
  <2>5. x \in Seq(E) /\ y \in Seq(E)
    <3>1. <<>> \in Seq(E)
      OBVIOUS
    <3>2. <<c1, c2>> \in Seq(E) /\ <<c3, c4>> \in Seq(E)
      BY <2>4
    <3> QED
      BY <2>2, <3>1, <3>2
  <2>6. x \o y \in Seq(E)
    BY <2>5
  <2>7. cs[i] \in E
    BY <2>3, <2>6
  <2>8. s.a \in Own(w)
    BY <1>3 DEF StepOK
  <2>9. c1.a = s.a /\ c1.do = "add" /\ c2.do = "del" /\ c3.a = s.a /\ c3.do = "add" /\ c4.do = "del"
    BY <2>1 DEF Add, Do
  <2> QED
    BY <2>4, <2>7, <2>8, <2>9
<1>4. CASE s.do \in {"fill", "put", "search"}
  <2>1. s.a \in Own(w)
    BY <1>4 DEF StepOK
  <2>2. PICK b : b = IF s.do = "search" THEN Found(s.b) ELSE Batch(w, s)
    OBVIOUS
  <2>3. b \in Seq(Songs)
    <3>1. CASE s.do = "search"
      <4>1. s.b \in DefKinds
        BY <3>1 DEF StepOK
      <4> QED
        BY <2>2, <3>1, <4>1, Finds
    <3>2. CASE s.do # "search"
      <4>1. w.buf \in Seq(Songs)
        BY DEF WorkOK
      <4> QED
        BY <2>2, <3>2, <4>1, Batched
    <3> QED
      BY <3>1, <3>2
  <2>4. PICK n \in Nat : n = Len(b) /\ DOMAIN b = 1..n
    BY <2>3
  <2>5. CASE s.do = "search"
    <3>1. cs = [k \in 1..n |-> Add(s.a, b[k])]
      BY <2>2, <2>4, <2>5 DEF Commands
    <3>2. PICK e : e = b[i]
      OBVIOUS
    <3>3. cs[i] = Add(s.a, e)
      BY <2>4, <3>1, <3>2
    <3> QED
      BY <2>1, <3>3 DEF Add, Do
  <2>6. CASE s.do = "fill" \/ (s.do = "put" /\ s.b # "insert")
    <3>1. cs = [k \in 1..n |-> Add(s.a, w.buf[k])]
      BY <2>2, <2>4, <2>6 DEF Commands
    <3>2. PICK e : e = w.buf[i]
      OBVIOUS
    <3>3. cs[i] = Add(s.a, e)
      BY <2>4, <3>1, <3>2
    <3> QED
      BY <2>1, <3>3 DEF Add, Do
  <2>7. CASE s.do = "put" /\ s.b = "insert"
    <3>1. cs = [k \in 1..n |-> Do("insert", s.a, <<w.buf[k], w.pos + k>>)]
      BY <2>2, <2>4, <2>7 DEF Commands
    <3>2. PICK e : e = <<w.buf[i], w.pos + i>>
      OBVIOUS
    <3>3. cs[i] = Do("insert", s.a, e)
      BY <2>4, <3>1, <3>2
    <3> QED
      BY <3>3 DEF Do
  <2> QED
    BY <1>4, <2>5, <2>6, <2>7
<1>5. CASE s.do = "rmif"
  <2>1. PICK c : c = Do("rm", s.a, "")
    OBVIOUS
  <2>2. cs = IF Exists(s.a) THEN <<c>> ELSE <<>>
    BY <1>5, <2>1 DEF Commands
  <2>3. cs[i] = c
    BY <2>2
  <2>4. c.do = "rm"
    BY <2>1 DEF Do
  <2> QED
    BY <2>3, <2>4
<1>6. CASE s.do = "crop"
  <2>4. PICK d : d = s.b + 1
    OBVIOUS
  <2>1. PICK c : c = Do("delfrom", s.a, d)
    OBVIOUS
  <2>2. cs = IF Exists(s.a) /\ Len(lists[s.a]) > s.b THEN <<c>> ELSE <<>>
    BY <1>6, <2>1, <2>4 DEF Commands
  <2>3. cs[i] = c
    BY <2>2
  <2>5. c.do = "delfrom"
    BY <2>1 DEF Do
  <2> QED
    BY <2>3, <2>5
<1>7. CASE s.do \notin {"add", "insert", "del", "delfrom", "move", "rename", "rm", "clear", "list", "drop", "shift",
                        "fill", "put", "search", "rmif", "crop"}
  <2>1. cs = <<>>
    BY <1>7 DEF Commands
  <2> QED
    BY <2>1
<1> QED
  BY <1>1, <1>2, <1>3, <1>4, <1>5, <1>6, <1>7

-----------------------------------------------------------------------------
(* An exchange of one thread, seen by both.                                *)

(* Work adds no playlist under a name that is not its own.                 *)
LEMMA Creates ==
  ASSUME lists \in Stored, NEW w, WorkOK(w), w.program # <<>>, NEW l, NEW v, Outcome(w, l, v),
         NEW n \in PlistNames, n \notin Own(w), lists[n] = NoList
  PROVE  l[n] = NoList
<1>1. PICK s, cs : s = Head(w.program) /\ cs = Commands(w, s)
  OBVIOUS
<1>2. StepOK(w, s)
  BY <1>1, Programs
<1>3. Len(cs) \in Nat /\ \A i \in 1..Len(cs) : Tellable(cs[i])
  BY <1>1, <1>2, Commanded
<1>4. \A i \in 1..Len(cs) : ~(cs[i].do = "add" /\ n = cs[i].a) /\ ~(cs[i].do = "rename" /\ n = cs[i].b)
  BY <1>1, <1>2, OwnCommands
<1>5. PICK k \in 0..Len(cs) : l = MpdCommands(lists, cs)[k] /\ l # NoList
  BY <1>1 DEF Outcome
<1> QED
  BY <1>3, <1>4, <1>5, MpdFrame

(* What a thread is about stays well formed.                               *)
LEMMA GoesJob ==
  ASSUME NEW j, NEW w, JobOK(w, j), NEW v, Goes(v, w)
  PROVE  JobOK(v, j)
<1>1. /\ WorkOK(v) /\ v.op = w.op /\ v.all = w.all /\ v.arg = w.arg /\ v.todo = w.todo /\ v.nr = w.nr
      /\ v.old = w.old /\ v.def = w.def
  BY DEF Goes, Kin
<1> QED
  BY <1>1 DEF JobOK

(* A command of the api thread that goes on keeps its type.                *)
LEMMA GoesEdit ==
  ASSUME NEW w, EditOK(w), NEW v, Goes(v, w)
  PROVE  EditOK(v)
<1>1. WorkOK(v) /\ v.op = w.op /\ v.all = w.all /\ v.arg = w.arg /\ v.nr = w.nr /\ v.old = w.old
  BY DEF Goes, Kin
<1> QED
  BY <1>1 DEF EditOK, Sources, Target

(* The other thread is at most told that it is not alone.                  *)
ToldSo(v, w, b) ==
  /\ WorkOK(v) /\ (v.alone => b /\ v = w)
  /\ v.op = w.op /\ v.all = w.all /\ v.arg = w.arg /\ v.todo = w.todo /\ v.nr = w.nr
  /\ v.old = w.old /\ v.def = w.def

(* The other thread is told of a change, and nothing else of its work      *)
(* changes.                                                                *)
LEMMA Disturbed ==
  ASSUME NEW w, WorkOK(w), NEW b \in BOOLEAN, NEW v, v = [w EXCEPT !.alone = w.alone /\ b]
  PROVE  ToldSo(v, w, b)
<1>1. IsWork(w) /\ w.alone \in BOOLEAN
  BY DEF WorkOK
<1>2. PICK a \in BOOLEAN : a = (w.alone /\ b)
  BY <1>1
<1>3. v = [w EXCEPT !.alone = a]
  BY <1>2
<1>4. /\ IsWork(v) /\ v.alone = a /\ v.op = w.op /\ v.all = w.all /\ v.arg = w.arg /\ v.todo = w.todo /\ v.nr = w.nr
      /\ v.old = w.old /\ v.def = w.def /\ v.program = w.program /\ v.buf = w.buf /\ v.start = w.start /\ v.pos = w.pos
      /\ v.blind = w.blind /\ v.result = w.result
  BY <1>1, <1>3 DEF IsWork, Fields
<1>5. \A c : StepOK(w, c) => StepOK(v, c)
  <2>1. SUFFICES ASSUME NEW c, StepOK(w, c) PROVE StepOK(v, c)
    OBVIOUS
  <2>2. v.nr = w.nr /\ v.all = w.all /\ (v.result = "failed" <=> w.result = "failed")
    BY <1>4
  <2> QED
    BY <2>1, <2>2, StepOKSame
<1>6. WorkOK(v)
  BY <1>4, <1>5 DEF WorkOK
<1>7. a => b /\ v = w
  <2>1. SUFFICES ASSUME a PROVE b /\ v = w
    OBVIOUS
  <2>2. w.alone = TRUE /\ a = TRUE
    BY <1>1, <1>2, <2>1
  <2>3. b
    BY <1>2, <2>1
  <2>4. v = [w EXCEPT !.alone = w.alone]
    BY <1>3, <2>2
  <2>5. v = w
    BY <1>1, <2>4 DEF IsWork
  <2> QED
    BY <2>3, <2>5
<1> QED
  BY <1>4, <1>6, <1>7 DEF ToldSo

(* Who is alone finds its playlists as it left them.                       *)
LEMMA JobFrame ==
  ASSUME NEW j, NEW w, JobOK(w, j), NEW m, NEW l, w.alone => \A n \in DOMAIN w.old : l[n] = m[n], NEW r,
         JobInv(w, m[w.arg], m[Tmp(w.nr)], m[Bak(w.nr)], r)
  PROVE  JobInv(w, l[w.arg], l[Tmp(w.nr)], l[Bak(w.nr)], r)
<1>1. SUFFICES ASSUME w.alone PROVE JobInv(w, l[w.arg], l[Tmp(w.nr)], l[Bak(w.nr)], r)
  BY DEF JobInv
<1>2. PICK now, new, bak, now1, new1, bak1 :
        /\ now = m[w.arg] /\ new = m[Tmp(w.nr)] /\ bak = m[Bak(w.nr)]
        /\ now1 = l[w.arg] /\ new1 = l[Tmp(w.nr)] /\ bak1 = l[Bak(w.nr)]
  OBVIOUS
<1>3. w.op \in {"shuffle", "sort", "dedup", "validate", "validate_dedup", "update"} => now1 = now
  BY <1>1, <1>2 DEF JobOK
<1>4. w.op \in {"shuffle", "sort", "update"} => new1 = new /\ bak1 = bak
  BY <1>1, <1>2 DEF JobOK
<1>5. JobInv(w, now, new, bak, r)
  BY <1>2
<1>6. JobInv(w, now1, new1, bak1, r)
  BY <1>3, <1>4, <1>5 DEF JobInv
<1> QED
  BY <1>2, <1>6

(* A command that nobody disturbed does not see what the other thread did  *)
(* elsewhere.                                                              *)
LEMMA EditFrame ==
  ASSUME NEW w, EditOK(w), NEW m, NEW l, w.alone => \A n \in DOMAIN w.old : l[n] = m[n], NEW r, EditInv(w, m, r)
  PROVE  EditInv(w, l, r)
<1>1. SUFFICES ASSUME w.alone PROVE
        /\ (Moving(w) \/ w.op = "append") /\ Target(w) \notin ToSet(Sources(w)) => CopyInv(w, l, r)
        /\ w.op = "move_songs" => ShiftInv(w, l, r)
        /\ w.op = "rename" /\ w.old[w.arg[1]] # NoList => RenameInv(w, l)
  BY DEF EditInv
<1>2. \A n \in DOMAIN w.old : l[n] = m[n]
  BY <1>1
<1>3. Unchanged(w, m) => Unchanged(w, l)
  BY <1>2 DEF Unchanged
<1>4. AllHeld(w, m) => AllHeld(w, l)
  BY <1>2 DEF AllHeld, Holds
<1>5. ASSUME Moving(w) \/ w.op = "append", CopyInv(w, m, r) PROVE CopyInv(w, l, r)
  <2>1. Target(w) \in DOMAIN w.old
    BY <1>5, CopyNames
  <2>2. \A c : Gathered(w, m, c) => Gathered(w, l, c)
    BY <1>2, <2>1 DEF Gathered
  <2>3. PuttingOn(w, m) => PuttingOn(w, l)
    BY <1>2, <2>2 DEF PuttingOn
  <2>4. DeletingOn(w, m) => DeletingOn(w, l)
    BY <2>2 DEF DeletingOn
  <2> QED
    BY <1>3, <1>4, <1>5, <2>2, <2>3, <2>4 DEF CopyInv
<1>6. ShiftInv(w, m, r) => ShiftInv(w, l, r)
  BY <1>3, <1>4 DEF ShiftInv
<1>7. ASSUME w.op = "rename", RenameInv(w, m) PROVE RenameInv(w, l)
  <2>1. w.arg[1] \in DOMAIN w.old /\ w.arg[2] \in DOMAIN w.old
    BY <1>7 DEF EditOK
  <2>2. l[w.arg[1]] = m[w.arg[1]] /\ l[w.arg[2]] = m[w.arg[2]]
    BY <1>2, <2>1
  <2> QED
    BY <1>3, <1>7, <2>2 DEF RenameInv
<1> QED
  BY <1>1, <1>5, <1>6, <1>7 DEF EditInv

(* All of it.                                                              *)
PlistInv == PlistShape /\ WorkerInv /\ ApiInv

(* The state after a step, in parts.                                       *)
Shape(l, r, d, wk, e, j) ==
  /\ l \in Stored /\ r \in BOOLEAN /\ d \in [Plists -> DefKinds \cup {NoDef}]
  /\ DOMAIN wk = {"api", "worker"} /\ e \in Nat /\ j \in 0..PlistJobs
  /\ JobOK(wk["worker"], j) /\ EditOK(wk["api"])
  /\ \A n \in 1..PlistJobs, q \in Plists :
       n > j \/ (n = j /\ wk["worker"].all = "update_all" /\ q \in wk["worker"].todo) =>
         l[Tmp(<<n, q>>)] = NoList /\ l[Bak(<<n, q>>)] = NoList
  /\ e = 0 => wk["api"] = Idle
  /\ j = 0 => wk["worker"] = Idle
WorkerOf(w, l, r) == JobInv(w, l[w.arg], l[Tmp(w.nr)], l[Bak(w.nr)], r)

(* The invariant in terms of the two threads' work, in this state and in   *)
(* the next.                                                               *)
LEMMA InvParts ==
  /\ PlistInv <=> /\ Shape(lists, ranges, defs, work, edits, jobs)
                  /\ WorkerOf(work["worker"], lists, ranges) /\ EditInv(work["api"], lists, ranges)
  /\ PlistInv' <=> /\ Shape(lists', ranges', defs', work', edits', jobs')
                   /\ WorkerOf(work'["worker"], lists', ranges') /\ EditInv(work'["api"], lists', ranges')
<1>1. PlistInv <=> /\ Shape(lists, ranges, defs, work, edits, jobs)
                   /\ WorkerOf(work["worker"], lists, ranges) /\ EditInv(work["api"], lists, ranges)
  BY DEF PlistInv, PlistShape, Unused, WorkerInv, ApiInv, Shape, WorkerOf
<1>2. PlistInv' <=> /\ Shape(lists', ranges', defs', work', edits', jobs')
                    /\ WorkerOf(work'["worker"], lists', ranges') /\ EditInv(work'["api"], lists', ranges')
  BY DEF PlistInv, PlistShape, Unused, WorkerInv, ApiInv, Shape, WorkerOf
<1> QED
  BY <1>1, <1>2

(* An exchange of one thread, and what the other is told.                  *)
Told(x, w, l) == \E b \in BOOLEAN : (b = \A n \in DOMAIN w.old : l[n] = lists[n]) /\ x = [w EXCEPT !.alone = w.alone /\ b]

(* What an exchange of one thread does to the work of both.                *)
LEMMA Both ==
  ASSUME DOMAIN work = {"api", "worker"}, NEW l, NEW v, NEW wk
  PROVE  /\ wk = Disturb("worker", l, v) =>
              DOMAIN wk = {"api", "worker"} /\ wk["worker"] = v /\ Told(wk["api"], work["api"], l)
         /\ wk = Disturb("api", l, v) =>
              DOMAIN wk = {"api", "worker"} /\ wk["api"] = v /\ Told(wk["worker"], work["worker"], l)
<1>1. ASSUME NEW t, NEW u, t # u, {t, u} = {"api", "worker"}, wk = Disturb(t, l, v)
      PROVE  DOMAIN wk = {"api", "worker"} /\ wk[t] = v /\ Told(wk[u], work[u], l)
  <2>1. PICK w : w = work[u]
    OBVIOUS
  <2>2. PICK b \in BOOLEAN : b = \A n \in DOMAIN w.old : l[n] = lists[n]
    OBVIOUS
  <2>3. PICK x : x = [w EXCEPT !.alone = w.alone /\ b]
    OBVIOUS
  <2>4. DOMAIN wk = {"api", "worker"} /\ wk[t] = v
    BY <1>1 DEF Disturb
  <2>5. wk[u] = [w EXCEPT !.alone = w.alone /\ (\A n \in DOMAIN w.old : l[n] = lists[n])]
    BY <1>1, <2>1 DEF Disturb
  <2>6. wk[u] = x
    BY <2>2, <2>3, <2>5
  <2>7. Told(x, w, l)
    BY <2>2, <2>3 DEF Told
  <2> QED
    BY <2>1, <2>4, <2>6, <2>7
<1>2. "api" # "worker"
  OBVIOUS
<1> QED
  BY <1>1, <1>2

(* The worker's invariant survives an exchange of the api thread.          *)
LEMMA ToldJob ==
  ASSUME NEW j, NEW w, JobOK(w, j), NEW l, NEW x, Told(x, w, l), WorkerOf(w, lists, ranges)
  PROVE  /\ JobOK(x, j) /\ WorkerOf(x, l, ranges) /\ x.all = w.all /\ x.todo = w.todo /\ (w = Idle => x = Idle)
<1>1. PICK b \in BOOLEAN : (b = \A n \in DOMAIN w.old : l[n] = lists[n]) /\ x = [w EXCEPT !.alone = w.alone /\ b]
  BY DEF Told
<1>2. /\ WorkOK(x) /\ (x.alone => b /\ x = w)
      /\ x.op = w.op /\ x.all = w.all /\ x.arg = w.arg /\ x.todo = w.todo /\ x.nr = w.nr
      /\ x.old = w.old /\ x.def = w.def
  <2>1. WorkOK(w)
    BY DEF JobOK
  <2>2. x = [w EXCEPT !.alone = w.alone /\ b]
    BY <1>1
  <2>3. ToldSo(x, w, b)
    BY <2>1, <2>2, Disturbed
  <2> QED
    BY <2>3 DEF ToldSo
<1>3. JobOK(x, j)
  BY <1>2 DEF JobOK
<1>4. WorkerOf(x, l, ranges)
  <2>1. CASE ~x.alone
    BY <2>1 DEF WorkerOf, JobInv
  <2>2. CASE x.alone
    <3>1. x = w /\ \A n \in DOMAIN w.old : l[n] = lists[n]
      BY <1>1, <1>2, <2>2
    <3>2. JobInv(w, l[w.arg], l[Tmp(w.nr)], l[Bak(w.nr)], ranges)
      BY <3>1, JobFrame DEF WorkerOf
    <3> QED
      BY <3>1, <3>2 DEF WorkerOf
  <2> QED
    BY <2>1, <2>2
<1>5. w = Idle => x = Idle
  <2>1. SUFFICES ASSUME w = Idle PROVE x = Idle
    OBVIOUS
  <2>2. w.old = <<>> /\ w.alone = TRUE
    BY <2>1 DEF Idle
  <2>3. b = TRUE
    BY <1>1, <2>2
  <2>4. x = [w EXCEPT !.alone = TRUE]
    BY <1>1, <2>2, <2>3
  <2> QED
    BY <2>1, <2>4 DEF Idle
<1> QED
  BY <1>2, <1>3, <1>4, <1>5

(* The api thread's invariant survives an exchange of the worker.          *)
LEMMA ToldEdit ==
  ASSUME NEW w, EditOK(w), NEW l, NEW x, Told(x, w, l), EditInv(w, lists, ranges)
  PROVE  EditOK(x) /\ EditInv(x, l, ranges) /\ (w = Idle => x = Idle)
<1>1. PICK b \in BOOLEAN : (b = \A n \in DOMAIN w.old : l[n] = lists[n]) /\ x = [w EXCEPT !.alone = w.alone /\ b]
  BY DEF Told
<1>2. /\ WorkOK(x) /\ (x.alone => b /\ x = w)
      /\ x.op = w.op /\ x.all = w.all /\ x.arg = w.arg /\ x.nr = w.nr /\ x.old = w.old
  <2>1. WorkOK(w)
    BY DEF EditOK
  <2>2. x = [w EXCEPT !.alone = w.alone /\ b]
    BY <1>1
  <2>3. ToldSo(x, w, b)
    BY <2>1, <2>2, Disturbed
  <2> QED
    BY <2>3 DEF ToldSo
<1>3. EditOK(x)
  BY <1>2 DEF EditOK, Sources, Target
<1>4. EditInv(x, l, ranges)
  <2>1. CASE ~x.alone
    BY <2>1 DEF EditInv
  <2>2. CASE x.alone
    <3>1. x = w /\ \A n \in DOMAIN w.old : l[n] = lists[n]
      BY <1>1, <1>2, <2>2
    <3> QED
      BY <3>1, EditFrame
  <2> QED
    BY <2>1, <2>2
<1>5. w = Idle => x = Idle
  <2>1. SUFFICES ASSUME w = Idle PROVE x = Idle
    OBVIOUS
  <2>2. w.old = <<>> /\ w.alone = TRUE
    BY <2>1 DEF Idle
  <2>3. b = TRUE
    BY <1>1, <2>2
  <2>4. x = [w EXCEPT !.alone = TRUE]
    BY <1>1, <2>2, <2>3
  <2> QED
    BY <2>1, <2>4 DEF Idle
<1> QED
  BY <1>3, <1>4, <1>5

(* Removing definitions keeps the type of the definitions.                 *)
LEMMA DefsDropped ==
  ASSUME defs \in [Plists -> DefKinds \cup {NoDef}], NEW S
  PROVE  [n \in Plists |-> IF n \in S THEN NoDef ELSE defs[n]] \in [Plists -> DefKinds \cup {NoDef}]
<1> HIDE DEF NoDef, DefKinds
<1> QED
  OBVIOUS

(* An exchange of either thread with MPD keeps the invariant.              *)
LEMMA ExchangeStep ==
  ASSUME PlistInv, NEW t \in {"api", "worker"}, Exchange(t)
  PROVE  PlistInv'
<1>1. /\ Shape(lists, ranges, defs, work, edits, jobs)
      /\ WorkerOf(work["worker"], lists, ranges) /\ EditInv(work["api"], lists, ranges)
  BY InvParts
<1>2. /\ lists \in Stored /\ ranges \in BOOLEAN /\ defs \in [Plists -> DefKinds \cup {NoDef}]
      /\ DOMAIN work = {"api", "worker"} /\ edits \in Nat /\ jobs \in 0..PlistJobs
      /\ JobOK(work["worker"], jobs) /\ EditOK(work["api"])
      /\ (edits = 0 => work["api"] = Idle) /\ (jobs = 0 => work["worker"] = Idle)
  BY <1>1 DEF Shape
<1>3. \A n \in 1..PlistJobs, q \in Plists :
       n > jobs \/ (n = jobs /\ work["worker"].all = "update_all" /\ q \in work["worker"].todo) =>
         lists[Tmp(<<n, q>>)] = NoList /\ lists[Bak(<<n, q>>)] = NoList
  BY <1>1 DEF Shape
<1>4. WorkOK(work[t])
  BY <1>2 DEF JobOK, EditOK
<1>5. PICK w, l : w = work[t] /\ l = lists'
  OBVIOUS
<1>6. /\ w.program # <<>> /\ Head(w.program).do \notin Local /\ l \in Stored
      /\ \E v : Outcome(w, l, v) /\ work' = Disturb(t, l, v)
  BY <1>2, <1>4, <1>5, Exchanged
<1>7. PICK v : Outcome(w, l, v) /\ work' = Disturb(t, l, v)
  BY <1>6
<1>8. ranges' = ranges /\ edits' = edits /\ jobs' = jobs
  BY DEF Exchange
<1>9. defs' \in [Plists -> DefKinds \cup {NoDef}]
  <2>1. defs' = IF Head(work[t].program).do = "drop"
             THEN [n \in Plists |-> IF n \in Head(work[t].program).a THEN NoDef ELSE defs[n]] ELSE defs
    BY DEF Exchange
  <2> QED
    BY <1>2, <2>1, DefsDropped
<1>10. Goes(v, w)
  BY <1>2, <1>4, <1>5, <1>6, <1>7, WorkGoes
<1>11. \A n \in PlistNames : n \notin Own(w) /\ lists[n] = NoList => l[n] = NoList
  BY <1>2, <1>4, <1>5, <1>6, <1>7, Creates
<1>12. PICK wk : wk = work'
  OBVIOUS
<1>13. w # Idle
  <2>1. Idle.program = <<>>
    BY DEF Idle
  <2> QED
    BY <1>6, <2>1
<1>14. CASE t = "worker"
  <2>1. wk["worker"] = v /\ Told(wk["api"], work["api"], l) /\ DOMAIN wk = {"api", "worker"}
    BY <1>2, <1>7, <1>12, <1>14, Both
  <2>2. EditOK(wk["api"]) /\ EditInv(wk["api"], l, ranges) /\ (work["api"] = Idle => wk["api"] = Idle)
    BY <1>1, <1>2, <2>1, ToldEdit
  <2>3. JobOK(v, jobs)
    BY <1>2, <1>5, <1>10, <1>14, GoesJob
  <2>4. jobs \in 1..PlistJobs
    BY <1>2, <1>5, <1>13, <1>14
  <2>5. JobInv(w, lists[w.arg], lists[Tmp(w.nr)], lists[Bak(w.nr)], ranges) /\ JobOK(w, jobs)
    BY <1>1, <1>2, <1>5, <1>14 DEF WorkerOf
  <2>6. WorkerOf(v, l, ranges)
    BY <1>2, <1>6, <1>7, <2>4, <2>5, JobStep DEF WorkerOf
  <2>7. v.all = w.all /\ v.todo = w.todo
    BY <1>10 DEF Goes, Kin
  <2>8. ASSUME NEW n \in 1..PlistJobs, NEW q \in Plists, n > jobs \/ (n = jobs /\ v.all = "update_all" /\ q \in v.todo)
        PROVE  l[Tmp(<<n, q>>)] = NoList /\ l[Bak(<<n, q>>)] = NoList
    <3>1. PICK id : id = <<n, q>>
      OBVIOUS
    <3>2. id \in JobIds /\ Tmp(id) \in PlistNames /\ Bak(id) \in PlistNames /\ Tmp(id) \notin Plists /\ Bak(id) \notin Plists
      BY <3>1, Names DEF JobIds
    <3>3. lists[Tmp(id)] = NoList /\ lists[Bak(id)] = NoList
      BY <1>3, <1>5, <1>14, <2>7, <2>8, <3>1
    <3>4. id # w.nr
      <4>1. CASE w.nr = <<>>
        BY <3>1, <4>1
      <4>2. CASE w.nr = <<jobs, w.arg>> /\ w.arg \notin w.todo
        <5>1. n # jobs \/ q # w.arg
          BY <1>2, <2>7, <2>8, <4>2
        <5> QED
          BY <3>1, <4>2, <5>1
      <4> QED
        BY <2>5, <4>1, <4>2 DEF JobOK
    <3>5. Tmp(id) \notin Own(w) /\ Bak(id) \notin Own(w)
      <4>1. Tmp(id) # Tmp(w.nr) /\ Tmp(id) # Bak(w.nr) /\ Bak(id) # Tmp(w.nr) /\ Bak(id) # Bak(w.nr)
        BY <3>4, Names
      <4> QED
        BY <3>2, <4>1 DEF Own
    <3> QED
      BY <1>11, <3>1, <3>2, <3>3, <3>5
  <2>9. Shape(l, ranges, defs', wk, edits, jobs)
    BY <1>2, <1>5, <1>6, <1>9, <1>13, <1>14, <2>1, <2>2, <2>3, <2>8 DEF Shape
  <2> QED
    BY <1>5, <1>8, <1>12, <2>1, <2>2, <2>6, <2>9, InvParts
<1>15. CASE t = "api"
  <2>1. wk["api"] = v /\ Told(wk["worker"], work["worker"], l) /\ DOMAIN wk = {"api", "worker"}
    BY <1>2, <1>7, <1>12, <1>15, Both
  <2>2. PICK u, x : u = work["worker"] /\ x = wk["worker"]
    OBVIOUS
  <2>3. JobOK(x, jobs) /\ WorkerOf(x, l, ranges) /\ x.all = u.all /\ x.todo = u.todo /\ (u = Idle => x = Idle)
    BY <1>1, <1>2, <2>1, <2>2, ToldJob
  <2>4. EditOK(w) /\ EditInv(w, lists, ranges) /\ w.nr = <<>>
    BY <1>1, <1>2, <1>5, <1>15 DEF EditOK
  <2>5. EditOK(v) /\ EditInv(v, l, ranges)
    BY <1>2, <1>6, <1>7, <1>10, <2>4, GoesEdit, EditStep
  <2>8. ASSUME NEW n \in 1..PlistJobs, NEW q \in Plists, n > jobs \/ (n = jobs /\ x.all = "update_all" /\ q \in x.todo)
        PROVE  l[Tmp(<<n, q>>)] = NoList /\ l[Bak(<<n, q>>)] = NoList
    <3>1. PICK id : id = <<n, q>>
      OBVIOUS
    <3>2. id \in JobIds /\ Tmp(id) \in PlistNames /\ Bak(id) \in PlistNames /\ Tmp(id) \notin Plists /\ Bak(id) \notin Plists
      BY <3>1, Names DEF JobIds
    <3>3. lists[Tmp(id)] = NoList /\ lists[Bak(id)] = NoList
      BY <1>3, <2>2, <2>3, <2>8, <3>1
    <3>4. id # w.nr
      BY <2>4, <3>1
    <3>5. Tmp(id) \notin Own(w) /\ Bak(id) \notin Own(w)
      <4>1. Tmp(id) # Tmp(w.nr) /\ Tmp(id) # Bak(w.nr) /\ Bak(id) # Tmp(w.nr) /\ Bak(id) # Bak(w.nr)
        BY <3>4, Names
      <4> QED
        BY <3>2, <4>1 DEF Own
    <3> QED
      BY <1>11, <3>1, <3>2, <3>3, <3>5
  <2>9. Shape(l, ranges, defs', wk, edits, jobs)
    BY <1>2, <1>5, <1>6, <1>9, <1>13, <1>15, <2>1, <2>2, <2>3, <2>5, <2>8 DEF Shape
  <2> QED
    BY <1>5, <1>8, <1>12, <2>1, <2>2, <2>3, <2>5, <2>9, InvParts
<1> QED
  BY <1>14, <1>15

(* Lists given entry by entry.                                             *)
LEMMA HeadTail ==
  ASSUME NEW s, IsSeq(s), s # <<>>
  PROVE  s = <<Head(s)>> \o Tail(s) /\ IsSeq(Tail(s))
<1>1. PICK S : s \in Seq(S)
  BY DEF IsSeq
<1>2. PICK e, t : e = Head(s) /\ t = Tail(s)
  OBVIOUS
<1>3. e \in S /\ t \in Seq(S) /\ Len(s) \in Nat /\ Len(t) = Len(s) - 1 /\ e = s[1] /\ \A i \in 1..Len(t) : t[i] = s[i + 1]
  BY <1>1, <1>2
<1>4. IsSeq(t)
  BY <1>3 DEF IsSeq
<1>5. PICK u : u = <<e>> \o t
  OBVIOUS
<1>6. <<e>> \in Seq(S)
  BY <1>3
<1>7. u \in Seq(S)
  BY <1>3, <1>5, <1>6
<1>8. Len(u) = Len(t) + 1 /\ \A i \in 1..Len(t) + 1 : u[i] = IF i = 1 THEN e ELSE t[i - 1]
  BY <1>4, <1>5, StartsAt
<1>9. \A i \in 1..Len(s) : u[i] = s[i]
  <2>1. SUFFICES ASSUME NEW i \in 1..Len(s) PROVE u[i] = s[i]
    OBVIOUS
  <2>2. CASE i = 1
    BY <1>3, <1>8, <2>2
  <2>3. CASE i # 1
    <3>1. PICK k : k = i - 1
      OBVIOUS
    <3>2. k \in 1..Len(t) /\ k + 1 = i
      BY <1>3, <2>3, <3>1
    <3>3. t[k] = s[k + 1]
      BY <1>3, <3>2
    <3>4. u[i] = t[k]
      BY <1>3, <1>8, <2>3, <3>1, <3>2
    <3> QED
      BY <3>2, <3>3, <3>4
  <2> QED
    BY <2>2, <2>3
<1>10. u = s
  BY <1>1, <1>3, <1>7, <1>8, <1>9
<1> QED
  BY <1>2, <1>4, <1>5, <1>10

-----------------------------------------------------------------------------
(* Jobs and commands that begin, and jobs that go on to the next playlist. *)

(* Two steps as a program.                                                 *)
LEMMA Two ==
  ASSUME NEW a, NEW b
  PROVE  IsSeq(<<a, b>>) /\ <<a, b>> = <<a>> \o <<b>>
<1>1. <<a, b>> \in Seq({a, b})
  OBVIOUS
<1>2. IsSeq(<<a, b>>)
  BY <1>1 DEF IsSeq
<1>3. Head(<<a, b>>) = a /\ Tail(<<a, b>>) = <<b>> /\ <<a, b>> # <<>>
  OBVIOUS
<1>4. PICK s : s = <<a, b>>
  OBVIOUS
<1>5. s = <<Head(s)>> \o Tail(s)
  BY <1>2, <1>3, <1>4, HeadTail
<1> QED
  BY <1>2, <1>3, <1>4, <1>5
FiveSo(s, a, b, c, d, e, rest) == IsSeq(s) /\ s \o rest = <<a>> \o (<<b>> \o (<<c>> \o (<<d>> \o (<<e>> \o rest))))

(* Five steps as a program: what comes first, and what is left.            *)
LEMMA Five ==
  ASSUME NEW a, NEW b, NEW c, NEW d, NEW e, NEW rest, IsSeq(rest)
  PROVE  FiveSo(<<a, b, c, d, e>>, a, b, c, d, e, rest)
<1>1. PICK s5, s4, s3, s2, s1 : s5 = <<a, b, c, d, e>> /\ s4 = <<b, c, d, e>> /\ s3 = <<c, d, e>> /\ s2 = <<d, e>> /\ s1 = <<e>>
  OBVIOUS
<1>2. s5 \in Seq({a, b, c, d, e})
  BY <1>1
<1>3. IsSeq(s5) /\ s5 # <<>>
  BY <1>1, <1>2 DEF IsSeq
<1>4. Head(s5) = a /\ Tail(s5) = s4 /\ s4 # <<>> /\ Head(s4) = b /\ Tail(s4) = s3 /\ s3 # <<>>
  BY <1>1
<1>5. Head(s3) = c /\ Tail(s3) = s2 /\ s2 # <<>> /\ Head(s2) = d /\ Tail(s2) = s1
  BY <1>1
<1>6. s5 = <<a>> \o s4 /\ IsSeq(s4)
  BY <1>3, <1>4, HeadTail
<1>7. s4 = <<b>> \o s3 /\ IsSeq(s3)
  BY <1>4, <1>6, HeadTail
<1>8. s3 = <<c>> \o s2 /\ IsSeq(s2)
  BY <1>4, <1>5, <1>7, HeadTail
<1>9. s2 = <<d>> \o s1 /\ IsSeq(s1)
  BY <1>5, <1>8, HeadTail
<1>10. IsSeq(<<a>>) /\ IsSeq(<<b>>) /\ IsSeq(<<c>>) /\ IsSeq(<<d>>)
  BY Single
<1>11. s2 \o rest = <<d>> \o (s1 \o rest)
  BY <1>9, <1>10, Assoc
<1>12. s3 \o rest = <<c>> \o (s2 \o rest)
  BY <1>8, <1>9, <1>10, Assoc
<1>13. s4 \o rest = <<b>> \o (s3 \o rest)
  BY <1>7, <1>8, <1>10, Assoc
<1>14. s5 \o rest = <<a>> \o (s4 \o rest)
  BY <1>6, <1>7, <1>10, Assoc
<1> QED
  BY <1>1, <1>3, <1>11, <1>12, <1>13, <1>14 DEF FiveSo
PartsSo(a, b, c, d, e) == (((a \o b) \o c) \o d) \o e = a \o (b \o (c \o (d \o e)))

(* Five programs joined, as a program.                                     *)
LEMMA FiveParts ==
  ASSUME NEW a, NEW b, NEW c, NEW d, NEW e, IsSeq(a), IsSeq(b), IsSeq(c), IsSeq(d), IsSeq(e)
  PROVE  PartsSo(a, b, c, d, e)
<1>1. PICK x, y : x = a \o b /\ y = d \o e
  OBVIOUS
<1>2. IsSeq(x) /\ IsSeq(y)
  BY <1>1, Joins
<1>3. PICK u, z : u = x \o c /\ z = c \o y
  OBVIOUS
<1>4. IsSeq(u) /\ IsSeq(z)
  BY <1>2, <1>3, Joins
<1>5. (u \o d) \o e = u \o (d \o e)
  BY <1>4, Assoc, SMTT(30)
<1>6. (x \o c) \o y = x \o (c \o y)
  BY <1>2, Assoc, SMTT(30)
<1>7. (a \o b) \o z = a \o (b \o z)
  <2>1. IsSeq(a) /\ IsSeq(b) /\ IsSeq(z)
    BY <1>4
  <2> QED
    BY <2>1, Assoc, SMTT(30)
<1>8. (u \o d) \o e = u \o y /\ u \o y = x \o z /\ x \o z = a \o (b \o z)
  BY <1>1, <1>3, <1>5, <1>6, <1>7
<1> QED
  BY <1>1, <1>3, <1>8 DEF PartsSo

(* The exchanges a job begins with are well formed.                        *)
LEMMA JobSteps ==
  ASSUME NEW w, w.result # "failed", NEW p, NEW q, NEW d
  PROVE  /\ p \in PlistNames => StepOK(w, Do("read", p, q))
         /\ p \in Own(w) => StepOK(w, Do("fill", p, "")) /\ StepOK(w, Do("put", p, q)) /\ StepOK(w, Do("shift", p, q))
         /\ StepOK(w, Do("rm", p, "")) /\ StepOK(w, Do("rmif", p, "")) /\ StepOK(w, Do("crop", p, d)) /\ StepOK(w, Do("stat", p, ""))
         /\ d \in DefKinds => StepOK(w, Do("find", p, d)) /\ (p \in Own(w) => StepOK(w, Do("search", p, d)))
         /\ w.all # "none" => StepOK(w, Do("next", "", ""))
<1>1. ASSUME NEW c, c.do \in {"rm", "rmif", "crop", "stat"} PROVE StepOK(w, c)
  BY <1>1 DEF StepOK
<1>2. ASSUME NEW c, c.do \in {"fill", "put", "shift"}, c.a \in Own(w) PROVE StepOK(w, c)
  BY <1>2 DEF StepOK
<1>3. ASSUME NEW c, c.do = "find", c.b \in DefKinds PROVE StepOK(w, c)
  BY <1>3 DEF StepOK
<1>4. ASSUME NEW c, c.do = "search", c.b \in DefKinds, c.a \in Own(w) PROVE StepOK(w, c)
  BY <1>4 DEF StepOK
<1>5. ASSUME NEW c, c.do = "read", c.a \in PlistNames PROVE StepOK(w, c)
  BY <1>5 DEF StepOK
<1>6. ASSUME NEW c, c.do = "next", w.all # "none" PROVE StepOK(w, c)
  BY <1>6 DEF StepOK
<1>8. ASSUME p \in PlistNames PROVE StepOK(w, Do("read", p, q))
  <2>1. PICK c1 : c1 = Do("read", p, q)
    OBVIOUS
  <2>2. c1.do = "read" /\ c1.a = p /\ c1.b = q
    BY <2>1 DEF Do
  <2>3. StepOK(w, c1)
    BY <1>8, <2>2, <1>5
  <2> QED
    BY <2>1, <2>3
<1>9. ASSUME p \in Own(w) PROVE StepOK(w, Do("fill", p, "")) /\ StepOK(w, Do("put", p, q)) /\ StepOK(w, Do("shift", p, q))
  <2>1. PICK c1, c2, c3 : c1 = Do("fill", p, "") /\ c2 = Do("put", p, q) /\ c3 = Do("shift", p, q)
    OBVIOUS
  <2>2. c1.do = "fill" /\ c1.a = p /\ c1.b = "" /\ c2.do = "put" /\ c2.a = p /\ c2.b = q /\ c3.do = "shift" /\ c3.a = p /\ c3.b = q
    BY <2>1 DEF Do
  <2>4. c1.do \in {"fill", "put", "shift"} /\ c1.a \in Own(w)
    BY <1>9, <2>2
  <2>5. c2.do \in {"fill", "put", "shift"} /\ c2.a \in Own(w)
    BY <1>9, <2>2
  <2>6. c3.do \in {"fill", "put", "shift"} /\ c3.a \in Own(w)
    BY <1>9, <2>2
  <2>3. StepOK(w, c1) /\ StepOK(w, c2) /\ StepOK(w, c3)
    BY <1>2, <2>4, <2>5, <2>6
  <2> QED
    BY <2>1, <2>3
<1>10. StepOK(w, Do("rm", p, "")) /\ StepOK(w, Do("rmif", p, "")) /\ StepOK(w, Do("crop", p, d)) /\ StepOK(w, Do("stat", p, ""))
  <2>1. PICK c1, c2, c3, c4 : c1 = Do("rm", p, "") /\ c2 = Do("rmif", p, "") /\ c3 = Do("crop", p, d) /\ c4 = Do("stat", p, "")
    OBVIOUS
  <2>2. c1.do = "rm" /\ c1.a = p /\ c1.b = "" /\ c2.do = "rmif" /\ c2.a = p /\ c2.b = "" /\ c3.do = "crop" /\ c3.a = p /\ c3.b = d /\ c4.do = "stat" /\ c4.a = p /\ c4.b = ""
    BY <2>1 DEF Do
  <2>4. c1.do \in {"rm", "rmif", "crop", "stat"} /\ c2.do \in {"rm", "rmif", "crop", "stat"}
    BY <2>2
  <2>5. c3.do \in {"rm", "rmif", "crop", "stat"} /\ c4.do \in {"rm", "rmif", "crop", "stat"}
    BY <2>2
  <2>3. StepOK(w, c1) /\ StepOK(w, c2) /\ StepOK(w, c3) /\ StepOK(w, c4)
    BY <1>1, <2>4, <2>5
  <2> QED
    BY <2>1, <2>3
<1>11. ASSUME d \in DefKinds PROVE StepOK(w, Do("find", p, d))
  <2>1. PICK c1 : c1 = Do("find", p, d)
    OBVIOUS
  <2>2. c1.do = "find" /\ c1.a = p /\ c1.b = d
    BY <2>1 DEF Do
  <2>3. StepOK(w, c1)
    BY <1>11, <2>2, <1>3
  <2> QED
    BY <2>1, <2>3
<1>12. ASSUME d \in DefKinds, p \in Own(w) PROVE StepOK(w, Do("search", p, d))
  <2>1. PICK c1 : c1 = Do("search", p, d)
    OBVIOUS
  <2>2. c1.do = "search" /\ c1.a = p /\ c1.b = d
    BY <2>1 DEF Do
  <2>3. StepOK(w, c1)
    BY <1>12, <2>2, <1>4
  <2> QED
    BY <2>1, <2>3
<1>13. ASSUME w.all # "none" PROVE StepOK(w, Do("next", "", ""))
  <2>1. PICK c1 : c1 = Do("next", "", "")
    OBVIOUS
  <2>2. c1.do = "next" /\ c1.a = "" /\ c1.b = ""
    BY <2>1 DEF Do
  <2>3. StepOK(w, c1)
    BY <1>13, <2>2, <1>6
  <2> QED
    BY <2>1, <2>3
<1> QED
  BY <1>8, <1>9, <1>10, <1>11, <1>12, <1>13

(* The renames of a job are allowed steps.                                 *)
LEMMA RenameStep ==
  ASSUME NEW w, NEW p \in PlistNames, NEW q \in Own(w), p = Tmp(w.nr) => Bak(w.nr) \in PlistNames
  PROVE  StepOK(w, Do("rename", p, q))
<1>1. PICK c : c = Do("rename", p, q)
  OBVIOUS
<1>2. c.do = "rename" /\ c.a = p /\ c.b = q
  BY <1>1 DEF Do
<1>3. StepOK(w, c)
  BY <1>2 DEF StepOK
<1> QED
  BY <1>1, <1>3

(* The program a job begins with.                                          *)
LEMMA ReorderProgram ==
  ASSUME NEW w, NEW p, NEW how, NEW rest, IsSeq(rest)
  PROVE  /\ Reorder(p, how, w.nr) \o rest = <<Do("read", p, how)>> \o Filling(w, p, rest)
         /\ IsSeq(Reorder(p, how, w.nr))
<1>1. PICK a, b, c, d, e : /\ a = Do("read", p, how) /\ b = Do("fill", Tmp(w.nr), "") /\ c = Do("rename", p, Bak(w.nr))
                           /\ d = Do("rename", Tmp(w.nr), p) /\ e = Do("rm", Bak(w.nr), "")
  OBVIOUS
<1>2. Reorder(p, how, w.nr) = <<a, b, c, d, e>>
  BY <1>1 DEF Reorder
<1>3. Filling(w, p, rest) = <<b>> \o (<<c>> \o (<<d>> \o (<<e>> \o rest)))
  BY <1>1 DEF Filling, Saving, Naming, Dropping
<1>4. IsSeq(<<a, b, c, d, e>>) /\ <<a, b, c, d, e>> \o rest = <<a>> \o (<<b>> \o (<<c>> \o (<<d>> \o (<<e>> \o rest))))
  <2>1. FiveSo(<<a, b, c, d, e>>, a, b, c, d, e, rest)
    BY Five
  <2> QED
    BY <2>1 DEF FiveSo
<1> QED
  BY <1>1, <1>2, <1>3, <1>4

(* A refill is a program.                                                  *)
LEMMA RefillSeq == ASSUME NEW p, NEW d, NEW feat PROVE IsSeq(Refill(p, d, feat))
<1>1. PICK a, b, c, e : a = Do("find", p, d) /\ b = Do("fill", p, "") /\ c = Do("stat", p, "") /\ e = Do("search", p, d)
  OBVIOUS
<1>2. IsSeq(<<a, b>>) /\ IsSeq(<<c, e>>) /\ IsSeq(<<e>>) /\ IsSeq(<<>>)
  BY Two, Single, Empty
<1>3. Refill(p, d, feat) \in {<<a, b>>, <<c, e>>, <<e>>, <<>>}
  BY <1>1 DEF Refill
<1> QED
  BY <1>2, <1>3

SortPart(p, d, nr) ==
  IF d.sort = "shuffle" THEN Reorder(p, "shuffle", nr)
  ELSE IF d.kind = "sticker" /\ d.sort = "tag" THEN Reorder(p, "sort", nr) ELSE <<>>
CropPart(p, d) == IF d.max > 0 THEN <<Do("crop", p, d.max)>> ELSE <<>>

(* An update removes, refills, then sorts and crops.                       *)
LEMMA UpdateProgram ==
  ASSUME NEW w, NEW feat, NEW rest, rest = Rest(w)
  PROVE  Update(w.arg, w.def, feat, w.nr) \o rest = <<Do("rmif", w.arg, "")>> \o (Refill(w.arg, w.def, feat) \o AfterRefill(w))
<1>1. PICK p, d, nr : p = w.arg /\ d = w.def /\ nr = w.nr
  OBVIOUS
<1>2. PICK x, a, b, c, e : /\ x = Do("rmif", p, "") /\ a = <<x>> /\ b = Refill(p, d, feat)
                           /\ c = SortPart(p, d, nr) /\ e = CropPart(p, d)
  OBVIOUS
<1>3. Update(p, d, feat, nr) = ((a \o b) \o c) \o e
  BY <1>2 DEF Update, SortPart, CropPart
<1>4. IsSeq(a) /\ IsSeq(b) /\ IsSeq(rest)
  BY <1>2, Single, RefillSeq, RestSeq
<1>5. IsSeq(e) /\ Cropping(w) = e \o rest
  <2>1. \A y : IsSeq(<<y>>)
    BY Single
  <2> QED
    BY <1>1, <1>2, <2>1, Empty DEF CropPart, Cropping
<1>6. IsSeq(e \o rest)
  BY <1>4, <1>5, Joins
<1>7. IsSeq(c) /\ AfterRefill(w) = c \o (e \o rest)
  <2>1. CASE Sorting(w) = "none"
    <3>1. c = <<>>
      BY <1>1, <1>2, <2>1 DEF Sorting, SortPart
    <3>2. <<>> \o (e \o rest) = e \o rest
      BY <1>6, Nothing
    <3> QED
      BY <1>5, <2>1, <3>1, <3>2, Empty DEF AfterRefill
  <2>2. CASE Sorting(w) # "none"
    <3>1. PICK how : how = Sorting(w)
      OBVIOUS
    <3>2. c = Reorder(p, how, nr)
      BY <1>1, <1>2, <2>2, <3>1 DEF Sorting, SortPart
    <3>3. PICK q : q = e \o rest
      OBVIOUS
    <3>4. Reorder(p, how, w.nr) \o q = <<Do("read", p, how)>> \o Filling(w, p, q) /\ IsSeq(Reorder(p, how, w.nr))
      <4>1. IsSeq(q)
        BY <1>6, <3>3
      <4> QED
        BY <4>1, ReorderProgram
    <3>5. AfterRefill(w) = <<Do("read", p, how)>> \o Filling(w, p, q)
      BY <1>1, <1>5, <2>2, <3>1, <3>3 DEF AfterRefill
    <3> QED
      BY <1>1, <3>2, <3>3, <3>4, <3>5
  <2> QED
    BY <2>1, <2>2
<1>8. (((a \o b) \o c) \o e) \o rest = a \o (b \o (c \o (e \o rest)))
  <2>1. IsSeq(a) /\ IsSeq(b) /\ IsSeq(c) /\ IsSeq(e) /\ IsSeq(rest)
    BY <1>4, <1>5, <1>7
  <2>2. PartsSo(a, b, c, e, rest)
    BY <2>1, FiveParts
  <2> QED
    BY <2>2 DEF PartsSo
<1> QED
  BY <1>1, <1>2, <1>3, <1>7, <1>8

(* A job as it is started.                                                 *)
Started(v, op, p, feat, n, all, rest) ==
  /\ IsWork(v) /\ v.op = op /\ v.arg = p /\ v.all = all /\ v.nr = <<n, p>>
  /\ v.program = Program(op, p, feat, <<n, p>>) \o rest
  /\ v.buf = <<>> /\ v.start = 0 /\ v.pos = 0 /\ v.alone = TRUE /\ v.result = "none" /\ v.blind = FALSE
  /\ v.old = [m \in (IF p \in Plists THEN {p, Tmp(<<n, p>>), Bak(<<n, p>>)} ELSE {p}) |-> lists[m]]
  /\ v.def = IF p \in Plists THEN defs[p] ELSE NoDef
StartsWith(u, op, p, feat, n) ==
  /\ IsWork(u) /\ u.op = op /\ u.arg = p /\ u.all = "none" /\ u.nr = <<n, p>> /\ u.todo = {}
  /\ u.program = Program(op, p, feat, <<n, p>>)
  /\ u.buf = <<>> /\ u.start = 0 /\ u.pos = 0 /\ u.alone = TRUE /\ u.result = "none" /\ u.blind = FALSE
  /\ u.old = [m \in (IF p \in Plists THEN {p, Tmp(<<n, p>>), Bak(<<n, p>>)} ELSE {p}) |-> lists[m]]
  /\ u.def = IF p \in Plists THEN defs[p] ELSE NoDef
BegunSo(u, op, arg, names, program) ==
  /\ IsWork(u) /\ u.op = op /\ u.arg = arg /\ u.all = "none" /\ u.nr = <<>> /\ u.todo = {} /\ u.program = program
  /\ u.buf = <<>> /\ u.start = 0 /\ u.pos = 0 /\ u.alone = TRUE /\ u.result = "none" /\ u.blind = FALSE
  /\ u.old = [m \in names |-> lists[m]] /\ u.def = NoDef

(* What a thread's work is when it begins.                                 *)
LEMMA Begun ==
  ASSUME NEW op, NEW arg, NEW names, NEW program, NEW u, u = Begin(op, arg, names, program)
  PROVE  BegunSo(u, op, arg, names, program)
<1>1. PICK old : old = [n \in names |-> lists[n]]
  OBVIOUS
<1>2. u = [Idle EXCEPT !.op = op, !.arg = arg, !.program = program, !.old = old]
  BY <1>1 DEF Begin
<1>3. /\ IsWork(Idle) /\ Idle.all = "none" /\ Idle.nr = <<>> /\ Idle.todo = {}
      /\ Idle.buf = <<>> /\ Idle.start = 0 /\ Idle.pos = 0 /\ Idle.alone = TRUE /\ Idle.result = "none" /\ Idle.blind = FALSE
      /\ Idle.def = NoDef
  BY DEF Idle, IsWork, Fields
<1> QED
  BY <1>1, <1>2, <1>3 DEF IsWork, Fields, BegunSo

(* What the worker's job is when it begins.                                *)
LEMMA StartFields ==
  ASSUME NEW op, NEW p, NEW feat, NEW n
  PROVE  StartsWith(StartJob(op, p, feat, n), op, p, feat, n)
<1>1. PICK names, program, nr, def :
        /\ names = (IF p \in Plists THEN {p, Tmp(<<n, p>>), Bak(<<n, p>>)} ELSE {p})
        /\ program = Program(op, p, feat, <<n, p>>) /\ nr = <<n, p>> /\ def = IF p \in Plists THEN defs[p] ELSE NoDef
  OBVIOUS
<1>2. PICK b : b = Begin(op, p, names, program)
  OBVIOUS
<1>3. PICK u : u = [b EXCEPT !.nr = nr, !.def = def]
  OBVIOUS
<1>4. StartJob(op, p, feat, n) = u
  BY <1>1, <1>2, <1>3 DEF StartJob
<1>5. /\ IsWork(b) /\ b.op = op /\ b.arg = p /\ b.all = "none" /\ b.todo = {} /\ b.program = program
      /\ b.buf = <<>> /\ b.start = 0 /\ b.pos = 0 /\ b.alone = TRUE /\ b.result = "none" /\ b.blind = FALSE
      /\ b.old = [m \in names |-> lists[m]]
  <2>1. BegunSo(b, op, p, names, program)
    BY <1>2, Begun
  <2> QED
    BY <2>1 DEF BegunSo
<1>6. /\ IsWork(u) /\ u.op = op /\ u.arg = p /\ u.all = "none" /\ u.todo = {} /\ u.program = program /\ u.nr = nr /\ u.def = def
      /\ u.buf = <<>> /\ u.start = 0 /\ u.pos = 0 /\ u.alone = TRUE /\ u.result = "none" /\ u.blind = FALSE
      /\ u.old = b.old
  BY <1>3, <1>5 DEF IsWork, Fields
<1>7. StartsWith(u, op, p, feat, n)
  BY <1>1, <1>5, <1>6 DEF StartsWith
<1> QED
  BY <1>4, <1>7

(* A single job began.                                                     *)
LEMMA StartedSo ==
  ASSUME NEW op, NEW p, NEW feat, NEW n, IsSeq(Program(op, p, feat, <<n, p>>)),
         NEW u, u = StartJob(op, p, feat, n)
  PROVE  Started(u, op, p, feat, n, "none", <<>>) /\ u.todo = {}
<1>1. StartsWith(u, op, p, feat, n)
  BY StartFields
<1>2. PICK prog : prog = Program(op, p, feat, <<n, p>>)
  OBVIOUS
<1>3. prog \o <<>> = prog
  BY <1>2, Nothing
<1> QED
  BY <1>1, <1>2, <1>3 DEF StartsWith, Started
StartedTo(v, op, p, feat, n, all, rest, todo) == Started(v, op, p, feat, n, all, rest) /\ v.todo = todo

(* A job for one of all playlists began.                                   *)
LEMMA StartedMore ==
  ASSUME NEW op, NEW p, NEW feat, NEW n, NEW u, u = StartJob(op, p, feat, n),
         NEW all, NEW todo, NEW rest, NEW v, v = [u EXCEPT !.all = all, !.todo = todo, !.program = @ \o rest]
  PROVE  StartedTo(v, op, p, feat, n, all, rest, todo)
<1>1. StartsWith(u, op, p, feat, n)
  BY StartFields
<1>2. PICK q : q = u.program \o rest
  OBVIOUS
<1>3. v = [u EXCEPT !.all = all, !.todo = todo, !.program = q]
  BY <1>2
<1>4. IsWork(u)
  BY <1>1 DEF StartsWith
<1>5. /\ IsWork(v) /\ v.op = u.op /\ v.arg = u.arg /\ v.all = all /\ v.nr = u.nr /\ v.todo = todo /\ v.program = q
      /\ v.buf = u.buf /\ v.start = u.start /\ v.pos = u.pos /\ v.alone = u.alone /\ v.result = u.result /\ v.blind = u.blind
      /\ v.old = u.old /\ v.def = u.def
  BY <1>3, <1>4 DEF IsWork, Fields
<1>6. Started(v, op, p, feat, n, all, rest) /\ v.todo = todo
  BY <1>1, <1>2, <1>5 DEF StartsWith, Started
<1> QED
  BY <1>6 DEF StartedTo

(* The exchanges a job begins with.                                        *)
LEMMA FewSteps ==
  ASSUME NEW w, NEW a, NEW b, StepOK(w, a), StepOK(w, b)
  PROVE  /\ Steps(w, <<a, b>>)
         /\ \A c, d, e : StepOK(w, c) /\ StepOK(w, d) /\ StepOK(w, e) => Steps(w, <<a, b, c, d, e>>)
<1>1. IsSeq(<<a, b>>)
  BY Two
<1>4. Len(<<a, b>>) = 2 /\ \A i \in 1..2 : <<a, b>>[i] \in {a, b}
  OBVIOUS
<1>2. Steps(w, <<a, b>>)
  BY <1>1, <1>4 DEF Steps
<1>3. ASSUME NEW c, NEW d, NEW e, StepOK(w, c), StepOK(w, d), StepOK(w, e)
      PROVE  Steps(w, <<a, b, c, d, e>>)
  <2>1. FiveSo(<<a, b, c, d, e>>, a, b, c, d, e, <<>>)
    BY Five, Empty
  <2>2. IsSeq(<<a, b, c, d, e>>)
    BY <2>1 DEF FiveSo
  <2>3. Len(<<a, b, c, d, e>>) = 5 /\ \A i \in 1..5 : <<a, b, c, d, e>>[i] \in {a, b, c, d, e}
    OBVIOUS
  <2>4. \A x \in {a, b, c, d, e} : StepOK(w, x)
    BY <1>3
  <2> QED
    BY <2>2, <2>3, <2>4 DEF Steps
<1> QED
  BY <1>2, <1>3

(* The steps of playlist_shuffle_sort are allowed.                         *)
LEMMA ReorderSteps ==
  ASSUME NEW w, w.result # "failed", w.nr \in JobIds, NEW p \in Plists, NEW how
  PROVE  Steps(w, Reorder(p, how, w.nr))
<1>1. PICK a, b, c, d, e : /\ a = Do("read", p, how) /\ b = Do("fill", Tmp(w.nr), "") /\ c = Do("rename", p, Bak(w.nr))
                           /\ d = Do("rename", Tmp(w.nr), p) /\ e = Do("rm", Bak(w.nr), "")
  OBVIOUS
<1>2. Reorder(p, how, w.nr) = <<a, b, c, d, e>>
  BY <1>1 DEF Reorder
<1>3. p \in PlistNames /\ Tmp(w.nr) \in PlistNames /\ Bak(w.nr) \in PlistNames
  BY Names
<1>4. p \in Own(w) /\ Tmp(w.nr) \in Own(w) /\ Bak(w.nr) \in Own(w)
  BY DEF Own
<1>5. StepOK(w, a) /\ StepOK(w, b) /\ StepOK(w, e)
  BY <1>1, <1>3, <1>4, JobSteps
<1>6. StepOK(w, c) /\ StepOK(w, d)
  BY <1>1, <1>3, <1>4, RenameStep
<1>7. Steps(w, <<a, b, c, d, e>>)
  BY <1>5, <1>6, FewSteps
<1> QED
  BY <1>2, <1>7

(* The steps of a refill are allowed.                                      *)
LEMMA RefillSteps ==
  ASSUME NEW w, w.result # "failed", NEW p \in Own(w), NEW d \in DefKinds, NEW feat
  PROVE  Steps(w, Refill(p, d, feat))
<1>1. PICK a, b, c, e : a = Do("find", p, d) /\ b = Do("fill", p, "") /\ c = Do("stat", p, "") /\ e = Do("search", p, d)
  OBVIOUS
<1>2. StepOK(w, a) /\ StepOK(w, b) /\ StepOK(w, c) /\ StepOK(w, e)
  BY <1>1, JobSteps
<1>3. Steps(w, <<a, b>>) /\ Steps(w, <<c, e>>) /\ Steps(w, <<e>>) /\ Steps(w, <<>>)
  BY <1>2, FewSteps, StepsParts
<1>4. Refill(p, d, feat) \in {<<a, b>>, <<c, e>>, <<e>>, <<>>}
  BY <1>1 DEF Refill
<1> QED
  BY <1>3, <1>4

(* The steps of smartpls_update are allowed.                               *)
LEMMA UpdateSteps ==
  ASSUME NEW w, w.result # "failed", w.nr \in JobIds, NEW p \in Plists, NEW d \in DefKinds, NEW feat
  PROVE  Steps(w, Update(p, d, feat, w.nr))
<1>1. PICK x, y : x = Do("rmif", p, "") /\ y = Do("crop", p, d.max)
  OBVIOUS
<1>2. PICK a, b, c, e : a = <<x>> /\ b = Refill(p, d, feat) /\ c = SortPart(p, d, w.nr) /\ e = CropPart(p, d)
  OBVIOUS
<1>3. Update(p, d, feat, w.nr) = ((a \o b) \o c) \o e
  BY <1>1, <1>2 DEF Update, SortPart, CropPart
<1>4. p \in Own(w)
  BY DEF Own
<1>5. StepOK(w, x) /\ StepOK(w, y)
  BY <1>1, JobSteps
<1>6. Steps(w, a) /\ Steps(w, <<y>>) /\ Steps(w, <<>>)
  BY <1>2, <1>5, StepsParts
<1>7. Steps(w, b)
  BY <1>2, <1>4, RefillSteps
<1>8. \A how : Steps(w, Reorder(p, how, w.nr))
  BY ReorderSteps
<1>9. Steps(w, c)
  BY <1>2, <1>6, <1>8 DEF SortPart
<1>10. Steps(w, e)
  BY <1>1, <1>2, <1>6 DEF CropPart
<1>11. Steps(w, a \o b)
  BY <1>6, <1>7, StepsParts
<1>12. Steps(w, (a \o b) \o c)
  BY <1>9, <1>11, StepsParts
<1>13. Steps(w, ((a \o b) \o c) \o e)
  BY <1>10, <1>12, StepsParts
<1> QED
  BY <1>3, <1>13

JobOps == {"shuffle", "sort", "dedup", "validate", "validate_dedup", "update"}
Startable(op, p, n) ==
  /\ op \in JobOps /\ p \in PlistNames /\ n \in 1..PlistJobs
  /\ op \in {"shuffle", "sort", "update"} => p \in Plists
  /\ op = "update" => defs[p] \in DefKinds

(* The steps of every job are allowed.                                     *)
LEMMA ProgramSteps ==
  ASSUME NEW w, w.result # "failed", NEW op, NEW p, NEW n, Startable(op, p, n), w.nr = <<n, p>>, NEW feat
  PROVE  Steps(w, Program(op, p, feat, w.nr))
<1>1. \A how : StepOK(w, Do("read", p, how))
  BY JobSteps DEF Startable
<1>2. \A how, hew : Steps(w, <<Do("read", p, how)>>) /\ Steps(w, <<Do("read", p, how), Do("read", p, hew)>>)
  BY <1>1, StepsParts, FewSteps
<1>3. p \in Plists => w.nr \in JobIds
  BY DEF JobIds, Startable
<1>4. CASE op \in {"shuffle", "sort"}
  <2>1. Program(op, p, feat, w.nr) = Reorder(p, op, w.nr)
    BY <1>4 DEF Program
  <2>2. p \in Plists
    BY <1>4 DEF Startable
  <2> QED
    BY <1>3, <2>1, <2>2, ReorderSteps
<1>5. CASE op \in {"dedup", "validate"}
  BY <1>2, <1>5 DEF Program
<1>6. CASE op = "validate_dedup"
  BY <1>2, <1>6 DEF Program
<1>7. CASE op = "update"
  <2>1. Program(op, p, feat, w.nr) = Update(p, defs[p], feat, w.nr)
    BY <1>7 DEF Program
  <2>2. p \in Plists /\ defs[p] \in DefKinds
    BY <1>7 DEF Startable
  <2> QED
    BY <1>3, <2>1, <2>2, UpdateSteps
<1> QED
  BY <1>4, <1>5, <1>6, <1>7 DEF Startable, JobOps

(* A job that starts is well formed, and its invariant holds.              *)
Chosen(op, p, all, todo) ==
  /\ all \in {"none", "dedup_all", "validate_all", "update_all"}
  /\ op = "update" => all \in {"none", "update_all"}
  /\ op \in {"shuffle", "sort", "validate_dedup"} => all = "none"
  /\ op \in {"dedup", "validate"} => all # "update_all"
  /\ todo \subseteq PlistNames /\ p \notin todo

(* A job that began has its type.                                          *)
LEMMA StartedWork ==
  ASSUME lists \in Stored, NEW op, NEW p, NEW feat, NEW n, NEW all, NEW rest, NEW v,
         Started(v, op, p, feat, n, all, rest), Startable(op, p, n), rest = Rest(v), Chosen(op, p, all, v.todo)
  PROVE  JobOK(v, n)
<1>1. /\ IsWork(v) /\ v.op = op /\ v.arg = p /\ v.all = all /\ v.nr = <<n, p>>
      /\ v.buf = <<>> /\ v.start = 0 /\ v.pos = 0 /\ v.alone = TRUE /\ v.result = "none" /\ v.blind = FALSE
  BY DEF Started
<1>2. v.result # "failed"
  BY <1>1
<1>3. Steps(v, Program(op, p, feat, v.nr))
  BY <1>1, <1>2, ProgramSteps
<1>4. Steps(v, rest)
  <2>1. v.all # "none" => StepOK(v, Do("next", "", ""))
    BY <1>2, JobSteps
  <2> QED
    BY <2>1, StepsParts DEF Rest
<1>5. Steps(v, v.program)
  <2>1. v.program = Program(op, p, feat, v.nr) \o rest
    BY <1>1 DEF Started
  <2> QED
    BY <1>3, <1>4, <2>1, StepsParts
<1>6. v.program \in Seq(ToSet(v.program)) /\ \A i \in DOMAIN v.program : StepOK(v, v.program[i])
  BY <1>5, StepsGiven
<1>7. PICK names : names = IF p \in Plists THEN {p, Tmp(<<n, p>>), Bak(<<n, p>>)} ELSE {p}
  OBVIOUS
<1>8. p \in names /\ \A m \in names : m \in PlistNames
  <2>1. p \in Plists => <<n, p>> \in JobIds
    BY DEF JobIds, Startable
  <2>2. p \in Plists => Tmp(<<n, p>>) \in PlistNames /\ Bak(<<n, p>>) \in PlistNames
    BY <2>1, Names
  <2> QED
    BY <1>7, <2>2 DEF Startable
<1>9. v.old = [m \in names |-> lists[m]]
  BY <1>7 DEF Started
<1>10. \A m \in DOMAIN v.old : m \in PlistNames /\ v.old[m] \in Seq(Songs) \cup {NoList}
  BY <1>8, <1>9 DEF Stored
<1>11. v.buf \in Seq(Songs) /\ v.start \in Nat /\ v.pos \in Nat /\ v.alone \in BOOLEAN /\ v.blind \in BOOLEAN
  <2>1. <<>> \in Seq(Songs) /\ 0 \in Nat
    OBVIOUS
  <2>2. v.alone \in BOOLEAN /\ v.blind \in BOOLEAN
    BY <1>1
  <2>3. v.buf = <<>> /\ v.start = 0 /\ v.pos = 0
    BY <1>1
  <2>4. v.buf \in Seq(Songs)
    BY <2>1, <2>3
  <2>5. v.start \in Nat /\ v.pos \in Nat
    BY <2>3
  <2> QED
    BY <2>2, <2>4, <2>5
<1>12. WorkOK(v)
  BY <1>1, <1>6, <1>10, <1>11 DEF WorkOK
<1>13. /\ op \in JobOps => p \in DOMAIN v.old
       /\ op \in {"shuffle", "sort", "update"} => p \in Plists /\ DOMAIN v.old = {p, Tmp(v.nr), Bak(v.nr)}
  BY <1>1, <1>7, <1>8, <1>9 DEF Startable
<1>14. op = "update" => v.def \in DefKinds
  BY DEF Started, Startable
<1>15. /\ v.todo \subseteq PlistNames /\ (v.nr = <<n, v.arg>> /\ v.arg \notin v.todo)
       /\ v.op \in {"shuffle", "sort", "dedup", "validate", "validate_dedup", "update"} =>
             v.arg \in DOMAIN v.old /\ v.nr = <<n, v.arg>>
       /\ v.op \in {"shuffle", "sort", "update"} => v.arg \in Plists /\ DOMAIN v.old = {v.arg, Tmp(v.nr), Bak(v.nr)}
  BY <1>1, <1>13 DEF Chosen, JobOps
<1>16. /\ v.op \in {"shuffle", "sort", "validate_dedup"} => v.all = "none"
       /\ v.op = "update" => v.def \in DefKinds /\ v.all \in {"none", "update_all"}
       /\ v.op \in {"dedup", "validate"} => v.all # "update_all"
       /\ v.all \in {"none", "dedup_all", "validate_all", "update_all"}
  BY <1>1, <1>14 DEF Chosen
<1> QED
  BY <1>12, <1>15, <1>16 DEF JobOK

(* A job that began satisfies its invariant.                               *)
LEMMA StartedInv ==
  ASSUME lists \in Stored, NEW op, NEW p, NEW feat \in BOOLEAN, NEW n, NEW all, NEW rest, NEW v,
         Started(v, op, p, feat, n, all, rest), Startable(op, p, n), rest = Rest(v), Chosen(op, p, all, v.todo),
         op \in {"shuffle", "sort", "update"} => lists[Tmp(<<n, p>>)] = NoList /\ lists[Bak(<<n, p>>)] = NoList
  PROVE  WorkerOf(v, lists, ranges)
<1>1. /\ IsWork(v) /\ v.op = op /\ v.arg = p /\ v.all = all /\ v.nr = <<n, p>>
      /\ v.start = 0 /\ v.pos = 0 /\ v.buf = <<>> /\ v.result = "none"
  BY DEF Started
<1>2. v.program = Program(op, p, feat, v.nr) \o rest
  BY <1>1 DEF Started
<1>3. v.old[p] = lists[p]
  BY DEF Started
<1>4. PICK s, new, bak, r : s = lists[p] /\ new = lists[Tmp(v.nr)] /\ bak = lists[Bak(v.nr)] /\ r = ranges
  OBVIOUS
<1>5. op \in {"shuffle", "sort", "update"} => new = NoList /\ bak = NoList
  BY <1>1, <1>4
<1>6. Reading(v, r, <<>>, s) /\ Fresh(v)
  BY <1>1 DEF Reading, Fresh
<1>7. IsSeq(rest)
  BY RestSeq
<1>8. ASSUME op \in {"shuffle", "sort"} PROVE ReorderInv(v, s, new, bak, r)
  <2>1. rest = <<>>
    BY <1>1, <1>8 DEF Chosen, Rest
  <2>2. Program(op, p, feat, v.nr) = Reorder(p, op, v.nr)
    BY <1>8 DEF Program
  <2>4. PICK q : q = rest
    OBVIOUS
  <2>6. IsSeq(q)
    BY <1>7, <2>4
  <2>7. Reorder(p, op, v.nr) \o q = <<Do("read", p, op)>> \o Filling(v, p, q) /\ IsSeq(Reorder(p, op, v.nr))
    BY <2>6, ReorderProgram
  <2>5. Reorder(p, op, v.nr) \o rest = <<Do("read", p, op)>> \o Filling(v, p, rest)
    BY <2>4, <2>7
  <2>3. v.program = <<Do("read", p, op)>> \o Filling(v, p, <<>>)
    BY <1>2, <2>1, <2>2, <2>5
  <2>8. Reordering(v, s, new, bak, r, op, s, <<>>)
    BY <1>1, <1>5, <1>6, <1>8, <2>3 DEF Reordering
  <2> QED
    BY <1>1, <1>3, <1>4, <2>8 DEF ReorderInv
<1>9. ASSUME op = "dedup" PROVE DedupInv(v, s, r)
  <2>1. v.program = <<Do("read", p, "dedup")>> \o rest
    BY <1>2, <1>9 DEF Program
  <2>2. DedupReading(v, s, r, s)
    BY <1>1, <1>6, <2>1 DEF DedupReading
  <2> QED
    BY <1>1, <1>3, <1>4, <2>2 DEF DedupInv
<1>10. ASSUME op = "validate" PROVE ValidInv(v, s, r)
  <2>1. v.program = <<Do("read", p, "validate")>> \o rest
    BY <1>2, <1>10 DEF Program
  <2>2. ValidReading(v, s, r, s, rest)
    BY <1>1, <1>6, <2>1 DEF ValidReading
  <2> QED
    BY <1>1, <1>3, <1>4, <2>2 DEF ValidInv
<1>11. ASSUME op = "validate_dedup" PROVE ValidDedupInv(v, s, r)
  <2>1. PICK a, b : a = Do("read", p, "validate") /\ b = Do("read", p, "dedup")
    OBVIOUS
  <2>2. Program(op, p, feat, v.nr) = <<a, b>>
    BY <1>11, <2>1 DEF Program
  <2>3. PICK z : z = v.program
    OBVIOUS
  <2>4. AreTwo(z, a, b, rest)
    BY <1>2, <1>7, <2>2, <2>3, TwoSteps
  <2>5. v.program = <<a>> \o (<<b>> \o rest)
    BY <2>3, <2>4 DEF AreTwo
  <2>6. ValidReading(v, s, r, s, <<b>> \o rest)
    BY <1>1, <1>6, <2>1, <2>5 DEF ValidReading
  <2> QED
    BY <1>1, <1>3, <1>4, <2>1, <2>6 DEF ValidDedupInv
<1>12. ASSUME op = "update" PROVE UpdateInv(v, s, new, bak, r)
  <2>1. p \in Plists /\ v.def = defs[p]
    BY <1>12 DEF Startable, Started
  <2>2. Program(op, p, feat, v.nr) = Update(v.arg, v.def, feat, v.nr)
    BY <1>1, <1>12, <2>1 DEF Program
  <2>3. v.program = <<Do("rmif", v.arg, "")>> \o (Refill(v.arg, v.def, feat) \o AfterRefill(v))
    BY <1>2, <2>2, UpdateProgram
  <2>4. Refilling(v, s)
    BY <2>3 DEF Refilling
  <2> QED
    BY <1>1, <1>5, <1>6, <1>12, <2>4 DEF UpdateInv
<1>13. JobInv(v, s, new, bak, r)
  <2>1. v.op = op
    BY <1>1
  <2> QED
    BY <2>1, <1>8, <1>9, <1>10, <1>11, <1>12 DEF JobInv
<1> QED
  BY <1>1, <1>4, <1>13 DEF WorkerOf

(* The next playlist of an all-command comes when nothing is left to do    *)
(* for the last one.                                                       *)
LEMMA HeadDo ==
  ASSUME NEW w, NEW do, NEW a, NEW b, NEW rest, IsSeq(rest), w.program = <<Do(do, a, b)>> \o rest
  PROVE  Head(w.program).do = do
<1>1. PICK c : c = Do(do, a, b)
  OBVIOUS
<1>2. c.do = do
  BY <1>1 DEF Do
<1>3. Head(w.program) = c
  BY <1>1, Starts
<1> QED
  BY <1>2, <1>3
AtNext(w) == w.program # <<>> /\ Head(w.program).do = "next"

(* After the last list a job for all playlists has only to go on.          *)
LEMMA RestAdvance ==
  ASSUME NEW w, IsWork(w), w.result = "none", w.program = Rest(w), AtNext(w), NEW v, v = Advance(w)
  PROVE  IsAfter(v, w, <<>>)
<1>1. PICK n : n = Do("next", "", "")
  OBVIOUS
<1>2. w.program = <<n>>
  BY <1>1 DEF Rest, AtNext
<1>3. w.program = <<n>> \o <<>> /\ IsSeq(<<>>)
  BY <1>2, Single, Empty
<1> QED
  BY <1>3, AdvancedTo

(* A list without removals left has no duplicates.                         *)
LEMMA RemovalsNext ==
  ASSUME NEW w, NEW p, NEW s \in Seq(Songs), w.program = Removals(p, s) \o Rest(w), AtNext(w)
  PROVE  w.program = Rest(w) /\ Unique(s) = s
<1>1. IsSeq(Rest(w))
  BY RestSeq
<1>2. CASE Removals(p, s) = <<>>
  BY <1>1, <1>2, RemovalsStep, Nothing
<1>3. CASE Removals(p, s) # <<>>
  <2>1. PICK m \in DOMAIN s : Removals(p, s) = <<Do("del", p, m)>> \o Removals(p, RemoveAt(s, m))
    BY <1>3, RemovalsStep
  <2>2. PICK c, t, a : c = Do("del", p, m) /\ t = RemoveAt(s, m) /\ a = Removals(p, t)
    OBVIOUS
  <2>3. t \in Seq(Songs)
    BY <2>2, RemovedAt
  <2>4. IsSeq(a)
    BY <2>2, <2>3, RemovalsStep
  <2>5. IsSeq(<<c>>)
    BY Single
  <2>6. PICK b : b = a \o Rest(w)
    OBVIOUS
  <2>7. IsSeq(b)
    BY <1>1, <2>4, <2>6, Joins
  <2>8. (<<c>> \o a) \o Rest(w) = <<c>> \o (a \o Rest(w))
    BY <1>1, <2>4, <2>5, Assoc
  <2>9. w.program = <<Do("del", p, m)>> \o b
    BY <2>1, <2>2, <2>6, <2>8
  <2>10. Head(w.program).do = "del"
    BY <2>7, <2>9, HeadDo
  <2> QED
    BY <2>10 DEF AtNext
<1> QED
  BY <1>2, <1>3

(* A list without checks left is checked.                                  *)
LEMMA ChecksNext ==
  ASSUME NEW w, NEW now, NEW s, Len(now) \in Nat, Checking(w, now, s, Rest(w)), AtNext(w)
  PROVE  w.program = Rest(w)
<1>1. PICK rest : rest = Rest(w)
  OBVIOUS
<1>2. IsSeq(rest)
  BY <1>1, RestSeq
<1>3. PICK i \in 0..Len(now) :
        \/ w.program = Checks(w.arg, now, i) \o rest
        \/ i > 0 /\ w.program = <<Do("del", w.arg, i)>> \o (Checks(w.arg, now, i - 1) \o rest)
  BY <1>1 DEF Checking
<1>4. i \in Nat
  OBVIOUS
<1>5. CASE i = 0
  <2>1. Checks(w.arg, now, i) = <<>>
    BY <1>4, <1>5, ChecksStep
  <2>2. <<>> \o rest = rest
    BY <1>2, Nothing
  <2>3. ~(i > 0)
    BY <1>5
  <2>4. w.program = Checks(w.arg, now, i) \o rest
    BY <1>3, <2>3
  <2> QED
    BY <1>1, <2>1, <2>2, <2>4
<1>6. CASE i > 0
  <2>1. PICK m \in Nat : m = i - 1
    BY <1>4, <1>6
  <2>2. PICK a : a = Checks(w.arg, now, m)
    OBVIOUS
  <2>3. IsSeq(a)
    BY <2>2, ChecksStep
  <2>4. PICK b, x : b = a \o rest /\ x = <<i, now[i]>>
    OBVIOUS
  <2>5. IsSeq(b)
    BY <1>2, <2>3, <2>4, Joins
  <2>6. PICK c : c = Do("check", w.arg, x)
    OBVIOUS
  <2>7. Checks(w.arg, now, i) = <<c>> \o a
    BY <1>4, <1>6, <2>1, <2>2, <2>4, <2>6, ChecksStep
  <2>8. IsSeq(<<c>>)
    BY Single
  <2>9. (<<c>> \o a) \o rest = <<c>> \o (a \o rest)
    BY <1>2, <2>3, <2>8, Assoc
  <2>10. w.program = <<Do("check", w.arg, x)>> \o b \/ w.program = <<Do("del", w.arg, i)>> \o b
    BY <1>3, <2>1, <2>2, <2>4, <2>6, <2>7, <2>9
  <2>11. Head(w.program).do = "check" \/ Head(w.program).do = "del"
    BY <2>5, <2>10, HeadDo
  <2> QED
    BY <2>11 DEF AtNext
<1> QED
  BY <1>4, <1>5, <1>6

(* Going on from a list without duplicates keeps the invariant.            *)
LEMMA DedupNext ==
  ASSUME NEW w, IsWork(w), NEW now \in Seq(Songs) \cup {NoList}, NEW r, w.old[w.arg] \in Seq(Songs), DedupInv(w, now, r),
         AtNext(w), NEW v, v = Advance(w)
  PROVE  DedupInv(v, now, r)
<1>1. PICK s \in Seq(Songs) : s = w.old[w.arg]
  OBVIOUS
<1>2. IsSeq(Rest(w)) /\ v.arg = w.arg /\ v.old = w.old
  <2>1. Kin(v, w)
    BY KinSteps DEF Advance
  <2> QED
    BY <2>1, RestSeq DEF Kin
<1>3. CASE DedupReading(w, now, r, s)
  <2>1. w.program = <<Do("read", w.arg, "dedup")>> \o Rest(w)
    BY <1>3 DEF DedupReading
  <2>2. Head(w.program).do = "read"
    BY <1>2, <2>1, HeadDo
  <2> QED
    BY <2>2 DEF AtNext
<1>4. CASE Deduping(w, now, s)
  <2>1. /\ w.result = "none" /\ w.program = Removals(w.arg, now) \o Rest(w) /\ now \in Seq(Songs) /\ Unique(now) = Unique(s)
    BY <1>4 DEF Deduping
  <2>2. w.program = Rest(w) /\ Unique(now) = now
    BY <2>1, RemovalsNext
  <2>3. IsAfter(v, w, <<>>)
    BY <2>1, <2>2, RestAdvance
  <2>4. v.program = <<>> /\ v.result = "ok"
    BY <2>3 DEF IsAfter
  <2> QED
    BY <1>1, <1>2, <2>1, <2>2, <2>4 DEF DedupInv
<1> QED
  BY <1>1, <1>3, <1>4 DEF DedupInv, AtNext

(* Going on from a validated list keeps the invariant.                     *)
LEMMA ValidNext ==
  ASSUME NEW w, IsWork(w), NEW now \in Seq(Songs) \cup {NoList}, NEW r, w.old[w.arg] \in Seq(Songs), ValidInv(w, now, r),
         AtNext(w), NEW v, v = Advance(w)
  PROVE  ValidInv(v, now, r)
<1>1. PICK s \in Seq(Songs) : s = w.old[w.arg]
  OBVIOUS
<1>2. IsSeq(Rest(w)) /\ v.arg = w.arg /\ v.old = w.old
  <2>1. Kin(v, w)
    BY KinSteps DEF Advance
  <2> QED
    BY <2>1, RestSeq DEF Kin
<1>3. CASE ValidReading(w, now, r, s, Rest(w))
  <2>1. w.program = <<Do("read", w.arg, "validate")>> \o Rest(w)
    BY <1>3 DEF ValidReading
  <2>2. Head(w.program).do = "read"
    BY <1>2, <2>1, HeadDo
  <2> QED
    BY <2>2 DEF AtNext
<1>4. CASE Checking(w, now, s, Rest(w))
  <2>1. now \in Seq(Songs)
    BY <1>4 DEF Checking
  <2>2. w.program = Rest(w)
    BY <1>4, <2>1, ChecksNext
  <2>3. now = Valid(s) /\ w.result = "none"
    BY <1>2, <1>4, <2>1, <2>2, CheckedAll
  <2>4. IsAfter(v, w, <<>>)
    BY <2>2, <2>3, RestAdvance
  <2>5. v.program = <<>> /\ v.result = "ok"
    BY <2>4 DEF IsAfter
  <2> QED
    BY <1>1, <1>2, <2>3, <2>5 DEF ValidInv
<1> QED
  BY <1>1, <1>3, <1>4 DEF ValidInv, AtNext

(* An update that goes on to the next playlist is done.                    *)
UpdateDone(w, now, new, bak) ==
  /\ w.result = "none" /\ new = NoList /\ bak = NoList /\ Fresh(w) /\ w.program = Rest(w) /\ Wanted(w, now)

(* A list that is being shuffled or sorted is not done with.               *)
LEMMA ReorderingHead ==
  ASSUME NEW w, NEW now, NEW new, NEW bak, NEW r, NEW how, NEW s, NEW rest, IsSeq(rest),
         Reordering(w, now, new, bak, r, how, s, rest)
  PROVE  ~AtNext(w)
<1>1. /\ IsSeq(Dropping(w, w.arg, rest)) /\ IsSeq(Naming(w, w.arg, rest)) /\ IsSeq(Saving(w, w.arg, rest))
      /\ IsSeq(Filling(w, w.arg, rest))
  BY Parts
<1>2. PICK p, d, n, f, g : /\ p = w.arg /\ d = Dropping(w, w.arg, rest) /\ n = Naming(w, w.arg, rest)
                           /\ f = Saving(w, w.arg, rest) /\ g = Filling(w, w.arg, rest)
  OBVIOUS
<1>3. \/ w.program = <<Do("read", p, how)>> \o g
      \/ w.program = <<Do("fill", Tmp(w.nr), "")>> \o f
      \/ w.program = <<Do("rename", p, Bak(w.nr))>> \o n
      \/ w.program = <<Do("rename", Tmp(w.nr), p)>> \o d
      \/ w.program = <<Do("rm", Bak(w.nr), "")>> \o rest
  BY <1>2 DEF Reordering, Filling, Saving, Naming, Dropping
<1>4. IsSeq(g) /\ IsSeq(f) /\ IsSeq(n) /\ IsSeq(d)
  BY <1>1, <1>2
<1>5. Head(w.program).do \in {"read", "fill", "rename", "rm"}
  <2>1. CASE w.program = <<Do("read", p, how)>> \o g
    BY <1>4, <2>1, HeadDo
  <2>2. CASE w.program = <<Do("fill", Tmp(w.nr), "")>> \o f
    BY <1>4, <2>2, HeadDo
  <2>3. CASE w.program = <<Do("rename", p, Bak(w.nr))>> \o n
    BY <1>4, <2>3, HeadDo
  <2>4. CASE w.program = <<Do("rename", Tmp(w.nr), p)>> \o d
    BY <1>4, <2>4, HeadDo
  <2>5. CASE w.program = <<Do("rm", Bak(w.nr), "")>> \o rest
    BY <2>5, HeadDo
  <2> QED
    BY <1>3, <2>1, <2>2, <2>3, <2>4, <2>5
<1> QED
  BY <1>5 DEF AtNext

(* The update that is done with has what was wanted.                       *)
LEMMA UpdateLast ==
  ASSUME NEW w, w.def \in DefKinds, NEW now, NEW new, NEW bak, NEW r, UpdateInv(w, now, new, bak, r), AtNext(w)
  PROVE  UpdateDone(w, now, new, bak)
<1> DEFINE p == w.arg
           d == w.def
<1>1. IsSeq(Rest(w)) /\ IsSeq(Cropping(w)) /\ IsSeq(AfterRefill(w))
  BY UpdateParts
<1>2. ASSUME NEW do \in {"rmif", "search", "fill", "find", "stat", "read", "crop"}, NEW a, NEW b, NEW rest, IsSeq(rest),
             w.program = <<Do(do, a, b)>> \o rest
      PROVE  FALSE
  <2>1. Head(w.program).do = do
    BY <1>2, HeadDo
  <2> QED
    BY <2>1 DEF AtNext
<1>3. CASE w.result = "none" /\ Sorting(w) # "none" /\ Reordering(w, now, new, bak, r, Sorting(w), Found(d), Cropping(w))
  <2>1. ~AtNext(w)
    BY <1>1, <1>3, ReorderingHead
  <2> QED
    BY <2>1
<1>4. CASE w.result = "ok" /\ w.program = <<>>
  BY <1>4 DEF AtNext
<1>5. SUFFICES ASSUME /\ w.result = "none" /\ new = NoList /\ bak = NoList
                      /\ \/ Fresh(w) /\ Refilling(w, now)
                         \/ w.program = <<Do("fill", p, "")>> \o AfterRefill(w)
                         \/ Fresh(w) /\ w.program = AfterRefill(w) /\ (now = Found(d) \/ Missing(w, now))
                         \/ Fresh(w) /\ w.program = Cropping(w) /\ (Uncut(w, now) \/ Missing(w, now))
                         \/ Fresh(w) /\ w.program = Rest(w) /\ Wanted(w, now)
               PROVE  UpdateDone(w, now, new, bak)
  BY <1>3, <1>4 DEF UpdateInv
<1>6. ASSUME Fresh(w), w.program = Cropping(w), Uncut(w, now) \/ Missing(w, now) PROVE UpdateDone(w, now, new, bak)
  <2>1. ~(d.max > 0)
    <3>1. SUFFICES ASSUME d.max > 0 PROVE FALSE
      OBVIOUS
    <3>2. w.program = <<Do("crop", p, d.max)>> \o Rest(w)
      BY <1>6, <3>1, UpdateParts
    <3> QED
      BY <1>1, <1>2, <3>2
  <2>2. w.program = Rest(w)
    BY <1>6, <2>1, UpdateParts
  <2>3. d.max = 0
    <3>1. d.max \in Nat
      BY DEF DefKinds
    <3> QED
      BY <2>1, <3>1
  <2>4. Wanted(w, now)
    BY <1>6, <2>1, <2>3 DEF Wanted, Uncut
  <2> QED
    BY <1>5, <1>6, <2>2, <2>4 DEF UpdateDone
<1>7. ASSUME Fresh(w), w.program = AfterRefill(w), now = Found(d) \/ Missing(w, now) PROVE UpdateDone(w, now, new, bak)
  <2>1. CASE Sorting(w) = "none"
    <3>1. w.program = Cropping(w) /\ Uncut(w, Found(d))
      BY <1>7, <2>1, UpdateParts, FoundUncut
    <3> QED
      BY <1>6, <1>7, <3>1
  <2>2. CASE Sorting(w) # "none"
    <3>1. PICK f : f = Filling(w, p, Cropping(w))
      OBVIOUS
    <3>2. IsSeq(f)
      BY <1>1, <3>1, Parts
    <3>3. w.program = <<Do("read", p, Sorting(w))>> \o f
      BY <1>7, <2>2, <3>1, UpdateParts
    <3> QED
      BY <1>2, <3>2, <3>3
  <2> QED
    BY <2>1, <2>2
<1>8. ASSUME now = NoList, Fresh(w), NEW feat \in BOOLEAN, w.program = Refill(p, d, feat) \o AfterRefill(w)
      PROVE  UpdateDone(w, now, new, bak)
  <2>1. PICK e, f, g, h, q : /\ e = Do("find", p, d) /\ f = Do("fill", p, "") /\ g = Do("stat", p, "") /\ h = Do("search", p, d)
                             /\ q = AfterRefill(w)
    OBVIOUS
  <2>2. IsSeq(q)
    BY <1>1, <2>1
  <2>3. CASE d.kind = "sticker" /\ ~feat
    <3>1. w.program = AfterRefill(w)
      BY <1>1, <1>8, <2>3, Nothing DEF Refill
    <3> QED
      BY <1>7, <1>8, <2>3, <3>1 DEF Missing
  <2>4. CASE d.kind = "sticker" /\ feat
    <3>1. w.program = <<e, f>> \o q
      BY <1>8, <2>1, <2>4 DEF Refill
    <3>2. PICK z : z = w.program
      OBVIOUS
    <3>3. AreTwo(z, e, f, q)
      BY <2>2, <3>1, <3>2, TwoSteps
    <3>4. PICK y : y = <<f>> \o q
      OBVIOUS
    <3>5. w.program = <<Do("find", p, d)>> \o y /\ IsSeq(y)
      BY <2>1, <3>2, <3>3, <3>4 DEF AreTwo
    <3> QED
      BY <1>2, <3>5
  <2>5. CASE d.kind = "newest"
    <3>1. w.program = <<g, h>> \o q
      BY <1>8, <2>1, <2>5 DEF Refill
    <3>2. PICK z : z = w.program
      OBVIOUS
    <3>3. AreTwo(z, g, h, q)
      BY <2>2, <3>1, <3>2, TwoSteps
    <3>4. PICK y : y = <<h>> \o q
      OBVIOUS
    <3>5. w.program = <<Do("stat", p, "")>> \o y /\ IsSeq(y)
      BY <2>1, <3>2, <3>3, <3>4 DEF AreTwo
    <3> QED
      BY <1>2, <3>5
  <2>6. CASE d.kind \notin {"sticker", "newest"}
    <3>1. w.program = <<Do("search", p, d)>> \o q
      BY <1>8, <2>1, <2>6 DEF Refill
    <3> QED
      BY <1>2, <2>2, <3>1
  <2> QED
    BY <2>3, <2>4, <2>5, <2>6
<1>9. ASSUME NEW feat \in BOOLEAN, w.program = <<Do("rmif", p, "")>> \o (Refill(p, d, feat) \o AfterRefill(w)) PROVE FALSE
  <2>1. PICK x : x = Refill(p, d, feat) \o AfterRefill(w)
    OBVIOUS
  <2>2. IsSeq(x)
    BY <1>1, <2>1, RefillSeq, Joins
  <2>3. w.program = <<Do("rmif", p, "")>> \o x
    BY <1>9, <2>1
  <2> QED
    BY <1>2, <2>2, <2>3
<1>10. CASE Fresh(w) /\ Refilling(w, now)
  <2>1. CASE now = NoList /\ w.program = <<Do("search", p, d)>> \o AfterRefill(w)
    BY <1>1, <1>2, <2>1
  <2>2. CASE ~(now = NoList /\ w.program = <<Do("search", p, d)>> \o AfterRefill(w))
    BY <1>8, <1>9, <1>10, <2>2 DEF Refilling
  <2> QED
    BY <2>1, <2>2
<1>11. CASE w.program = <<Do("fill", p, "")>> \o AfterRefill(w)
  BY <1>1, <1>2, <1>11
<1>12. CASE Fresh(w) /\ w.program = Rest(w) /\ Wanted(w, now)
  BY <1>5, <1>12 DEF UpdateDone
<1> QED
  BY <1>5, <1>6, <1>7, <1>10, <1>11, <1>12

(* The worker goes on to other work.                                       *)
Turned(v, n) ==
  /\ n \in 1..PlistJobs /\ jobs <= n /\ JobOK(v, n) /\ WorkerOf(v, lists, ranges)
  /\ n = jobs /\ v.all = "update_all" => work["worker"].all = "update_all" /\ v.todo \subseteq work["worker"].todo

(* A turn of the worker that changes no playlist keeps the invariant.      *)
LEMMA WorkerTurns ==
  ASSUME PlistInv, NEW n, NEW v, Turned(v, n), work' = [work EXCEPT !["worker"] = v],
         jobs' = n, defs' \in [Plists -> DefKinds \cup {NoDef}], UNCHANGED <<lists, ranges, edits>>
  PROVE  PlistInv'
<1>1. /\ Shape(lists, ranges, defs, work, edits, jobs) /\ EditInv(work["api"], lists, ranges)
  BY InvParts
<1>2. /\ lists \in Stored /\ ranges \in BOOLEAN
      /\ DOMAIN work = {"api", "worker"} /\ edits \in Nat /\ jobs \in 0..PlistJobs /\ EditOK(work["api"])
      /\ (edits = 0 => work["api"] = Idle)
  BY <1>1 DEF Shape
<1>3. \A m \in 1..PlistJobs, q \in Plists :
       m > jobs \/ (m = jobs /\ work["worker"].all = "update_all" /\ q \in work["worker"].todo) =>
         lists[Tmp(<<m, q>>)] = NoList /\ lists[Bak(<<m, q>>)] = NoList
  BY <1>1 DEF Shape
<1>4. PICK wk : wk = work'
  OBVIOUS
<1>5. DOMAIN wk = {"api", "worker"} /\ wk["worker"] = v /\ wk["api"] = work["api"]
  BY <1>2, <1>4
<1>6. ASSUME NEW m \in 1..PlistJobs, NEW q \in Plists, m > n \/ (m = n /\ v.all = "update_all" /\ q \in v.todo)
      PROVE  lists[Tmp(<<m, q>>)] = NoList /\ lists[Bak(<<m, q>>)] = NoList
  <2>1. m > jobs \/ (m = jobs /\ work["worker"].all = "update_all" /\ q \in work["worker"].todo)
    BY <1>2, <1>6 DEF Turned
  <2> QED
    BY <1>3, <2>1
<1>7. JobOK(v, n) /\ n \in 0..PlistJobs /\ n # 0
  BY DEF Turned
<1>8. Shape(lists, ranges, defs', wk, edits, n)
  BY <1>2, <1>5, <1>6, <1>7 DEF Shape
<1>9. WorkerOf(wk["worker"], lists, ranges) /\ EditInv(wk["api"], lists, ranges)
  BY <1>1, <1>5 DEF Turned
<1> QED
  BY <1>4, <1>8, <1>9, InvParts

(* Who has something to do has begun.                                      *)
LEMMA WorkerBusy ==
  ASSUME PlistInv, Busy("worker"), NEW w, w = work["worker"]
  PROVE  /\ jobs \in 1..PlistJobs /\ JobOK(w, jobs) /\ WorkOK(w) /\ IsWork(w) /\ WorkerOf(w, lists, ranges)
         /\ w.program # <<>> /\ StepOK(w, Head(w.program)) /\ lists \in Stored
         /\ defs \in [Plists -> DefKinds \cup {NoDef}] /\ DOMAIN work = {"api", "worker"}
<1>1. Shape(lists, ranges, defs, work, edits, jobs) /\ WorkerOf(w, lists, ranges)
  BY InvParts
<1>2. JobOK(w, jobs) /\ lists \in Stored /\ defs \in [Plists -> DefKinds \cup {NoDef}] /\ DOMAIN work = {"api", "worker"}
  BY <1>1 DEF Shape
<1>3. w.program # <<>>
  BY DEF Busy
<1>4. jobs \in 1..PlistJobs
  <2>1. Idle.program = <<>>
    BY DEF Idle
  <2>2. jobs \in 0..PlistJobs /\ (jobs = 0 => w = Idle)
    BY <1>1 DEF Shape
  <2>3. jobs # 0
    BY <1>3, <2>1, <2>2
  <2> QED
    BY <2>2, <2>3
<1>5. WorkOK(w)
  BY <1>2 DEF JobOK
<1>6. StepOK(w, Head(w.program))
  BY <1>3, <1>5, Programs
<1> QED
  BY <1>1, <1>2, <1>3, <1>4, <1>5, <1>6 DEF WorkOK

(* Starting a job, alone or as one of many.                                *)
LEMMA ProgramSeq ==
  ASSUME NEW op, NEW p, NEW n, Startable(op, p, n), NEW feat
  PROVE  IsSeq(Program(op, p, feat, <<n, p>>))
<1>1. PICK u : u = StartJob(op, p, feat, n)
  OBVIOUS
<1>2. StartsWith(u, op, p, feat, n)
  BY <1>1, StartFields
<1>3. u.result # "failed" /\ u.nr = <<n, p>>
  BY <1>2 DEF StartsWith
<1>4. Steps(u, Program(op, p, feat, u.nr))
  BY <1>3, ProgramSteps
<1> QED
  BY <1>3, <1>4 DEF Steps

(* Starting a job keeps the invariant.                                     *)
LEMMA JobStarts ==
  ASSUME PlistInv, NEW op \in JobOps, NEW p \in Plists, NEW feat \in BOOLEAN, JobStart(op, p, feat)
  PROVE  PlistInv'
<1>1. Shape(lists, ranges, defs, work, edits, jobs)
  BY InvParts
<1>2. /\ lists \in Stored /\ jobs \in 0..PlistJobs /\ defs \in [Plists -> DefKinds \cup {NoDef}]
      /\ \A m \in 1..PlistJobs, q \in Plists : m > jobs => lists[Tmp(<<m, q>>)] = NoList /\ lists[Bak(<<m, q>>)] = NoList
  BY <1>1 DEF Shape
<1>3. PICK n : n = jobs + 1
  OBVIOUS
<1>4. n \in 1..PlistJobs /\ n > jobs /\ jobs' = n
  <2>1. jobs < PlistJobs /\ jobs' = jobs + 1 /\ PlistJobs \in Nat
    BY PlistAssumption DEF JobStart, PlistAssumption
  <2> QED
    BY <1>2, <1>3, <2>1
<1>5. Startable(op, p, n)
  <2>1. op = "update" => defs[p] \in DefKinds
    BY <1>2 DEF JobStart, Smart
  <2>2. p \in PlistNames
    BY Names
  <2> QED
    BY <1>4, <2>1, <2>2 DEF Startable
<1>6. PICK u : u = StartJob(op, p, feat, n)
  OBVIOUS
<1>7. Started(u, op, p, feat, n, "none", <<>>) /\ u.todo = {}
  <2>1. IsSeq(Program(op, p, feat, <<n, p>>))
    BY <1>5, ProgramSeq
  <2> QED
    BY <1>6, <2>1, StartedSo
<1>8. u.all = "none" /\ <<>> = Rest(u)
  BY <1>7 DEF Started, Rest
<1>9. Chosen(op, p, "none", u.todo)
  BY <1>7 DEF Chosen
<1>10. JobOK(u, n)
  BY <1>2, <1>5, <1>7, <1>8, <1>9, StartedWork
<1>11. WorkerOf(u, lists, ranges)
  <2>1. lists[Tmp(<<n, p>>)] = NoList /\ lists[Bak(<<n, p>>)] = NoList
    BY <1>2, <1>4
  <2> QED
    BY <1>2, <1>5, <1>7, <1>8, <1>9, <2>1, StartedInv
<1>12. Turned(u, n)
  <2>1. jobs <= n
    BY <1>2, <1>4
  <2> QED
    BY <1>4, <1>8, <1>10, <1>11, <2>1 DEF Turned
<1>13. work' = [work EXCEPT !["worker"] = u] /\ UNCHANGED <<lists, ranges, edits>> /\ defs' \in [Plists -> DefKinds \cup {NoDef}]
  BY <1>2, <1>3, <1>6 DEF JobStart
<1> QED
  BY <1>4, <1>12, <1>13, WorkerTurns

(* The commands about all playlists.                                       *)
LEMMA AllStarts ==
  ASSUME PlistInv, NEW op \in DOMAIN Each, NEW new, AllStart(op, new)
  PROVE  PlistInv'
<1>1. Shape(lists, ranges, defs, work, edits, jobs)
  BY InvParts
<1>2. lists \in Stored /\ jobs \in 0..PlistJobs /\ defs \in [Plists -> DefKinds \cup {NoDef}]
  BY <1>1 DEF Shape
<1>3. PICK n : n = jobs + 1
  OBVIOUS
<1>4. n \in 1..PlistJobs /\ n > jobs /\ jobs' = n
  <2>1. jobs < PlistJobs /\ jobs' = jobs + 1 /\ PlistJobs \in Nat
    BY PlistAssumption DEF AllStart, PlistAssumption
  <2> QED
    BY <1>2, <1>3, <2>1
<1>5. op \in {"dedup_all", "validate_all", "update_all"}
  BY DEF Each
<1>6. PICK c, b, todo : /\ c = Do("next", "", "") /\ b = Begin(op, "none", {}, <<c>>)
                        /\ todo = IF op = "update_all" THEN Plists ELSE {m \in PlistNames : Exists(m) /\ ~Smart(m)}
  OBVIOUS
<1>7. PICK v : v = [b EXCEPT !.all = op, !.todo = todo]
  OBVIOUS
<1>8. /\ IsWork(b) /\ b.op = op /\ b.arg = "none" /\ b.nr = <<>> /\ b.program = <<c>>
      /\ b.buf = <<>> /\ b.start = 0 /\ b.pos = 0 /\ b.alone = TRUE /\ b.result = "none" /\ b.blind = FALSE
      /\ b.old = [m \in {} |-> lists[m]]
  <2>1. PICK none, arg, program : none = {} /\ arg = "none" /\ program = <<c>>
    OBVIOUS
  <2>2. BegunSo(b, op, arg, none, program)
    BY <1>6, <2>1, Begun
  <2> QED
    BY <2>1, <2>2 DEF BegunSo
<1>9. /\ IsWork(v) /\ v.op = op /\ v.all = op /\ v.todo = todo /\ v.arg = "none" /\ v.nr = <<>> /\ v.program = <<c>>
      /\ v.buf = b.buf /\ v.start = b.start /\ v.pos = b.pos /\ v.alone = b.alone /\ v.result = b.result /\ v.blind = b.blind
      /\ v.old = b.old
  BY <1>7, <1>8 DEF IsWork, Fields
<1>10. Steps(v, v.program)
  <2>1. v.all # "none" /\ v.result # "failed"
    BY <1>5, <1>8, <1>9
  <2>2. StepOK(v, c)
    BY <1>6, <2>1, JobSteps
  <2> QED
    BY <1>9, <2>2, StepsParts
<1>11. todo \subseteq PlistNames
  BY <1>6, Names
<1>12. v.buf \in Seq(Songs) /\ v.start \in Nat /\ v.pos \in Nat
  <2>1. <<>> \in Seq(Songs) /\ 0 \in Nat
    OBVIOUS
  <2>2. v.buf = <<>> /\ v.start = 0 /\ v.pos = 0
    BY <1>8, <1>9
  <2>3. v.buf \in Seq(Songs)
    BY <2>1, <2>2
  <2> QED
    BY <2>2, <2>3
<1>13. v.alone \in BOOLEAN /\ v.blind \in BOOLEAN /\ DOMAIN v.old = {}
  BY <1>8, <1>9
<1>14. WorkOK(v)
  <2>1. v.program \in Seq(ToSet(v.program)) /\ \A i \in DOMAIN v.program : StepOK(v, v.program[i])
    BY <1>10, StepsGiven
  <2> QED
    BY <1>9, <1>12, <1>13, <2>1 DEF WorkOK
<1>15. v.op \notin {"shuffle", "sort", "dedup", "validate", "validate_dedup", "update"}
  BY <1>5, <1>9
<1>16. JobOK(v, n)
  BY <1>5, <1>9, <1>11, <1>14, <1>15 DEF JobOK
<1>17. WorkerOf(v, lists, ranges)
  BY <1>15 DEF WorkerOf, JobInv
<1>18. Turned(v, n)
  <2>1. jobs <= n
    BY <1>2, <1>4
  <2> QED
    BY <1>4, <1>16, <1>17, <2>1 DEF Turned
<1>19. work' = [work EXCEPT !["worker"] = v] /\ UNCHANGED <<lists, ranges, edits>>
  BY <1>6, <1>7 DEF AllStart
<1>20. defs' \in [Plists -> DefKinds \cup {NoDef}]
  <2>1. PICK d : d = [kind |-> "search", sort |-> "", max |-> 0]
    OBVIOUS
  <2>2. d \in DefKinds
    BY <2>1 DEF DefKinds
  <2>3. defs' = [m \in Plists |-> IF m \in new /\ defs[m] = NoDef THEN d ELSE defs[m]]
    BY <2>1 DEF AllStart
  <2> QED
    BY <1>2, <2>2, <2>3
<1> QED
  BY <1>4, <1>18, <1>19, <1>20, WorkerTurns

(* Going to the next step keeps the type of the work.                      *)
LEMMA AdvanceGoes ==
  ASSUME NEW w, WorkOK(w), w.program # <<>>, NEW v, v = Advance(w)
  PROVE  Goes(v, w)
<1>1. Steps(w, <<>>)
  BY StepsParts
<1>2. v = Instead(w, <<>>)
  BY DEF Advance
<1> QED
  BY <1>1, <1>2, InsteadOK

(* The job for all playlists ends after the last one.                      *)
LEMMA JobsEnd ==
  ASSUME PlistInv, Busy("worker"), NEW w, w = work["worker"], Head(w.program).do = "next", NEW v, v = Advance(w)
  PROVE  Turned(v, jobs)
<1>1. /\ jobs \in 1..PlistJobs /\ JobOK(w, jobs) /\ WorkOK(w) /\ IsWork(w) /\ WorkerOf(w, lists, ranges)
      /\ w.program # <<>> /\ StepOK(w, Head(w.program)) /\ lists \in Stored
  BY WorkerBusy
<1>2. AtNext(w) /\ w.all # "none"
  BY <1>1 DEF AtNext, StepOK
<1>3. Goes(v, w)
  BY <1>1, AdvanceGoes
<1>4. JobOK(v, jobs)
  BY <1>1, <1>3, GoesJob
<1>5. /\ v.op = w.op /\ v.all = w.all /\ v.arg = w.arg /\ v.todo = w.todo /\ v.nr = w.nr /\ v.old = w.old /\ v.def = w.def
      /\ v.alone = w.alone /\ (~v.blind => ~w.blind) /\ (v.result # "failed" => w.result # "failed")
  BY <1>3 DEF Goes, Kin
<1>6. PICK now, new, bak, r : now = lists[w.arg] /\ new = lists[Tmp(w.nr)] /\ bak = lists[Bak(w.nr)] /\ r = ranges
  OBVIOUS
<1>7. JobInv(w, now, new, bak, r)
  BY <1>1, <1>6 DEF WorkerOf
<1>8. w.op \in {"dedup", "validate"} /\ w.old[w.arg] # NoList => w.old[w.arg] \in Seq(Songs) /\ now \in Seq(Songs) \cup {NoList}
  <2>1. \A m \in DOMAIN w.old : m \in PlistNames /\ w.old[m] \in Seq(Songs) \cup {NoList}
    BY <1>1 DEF WorkOK
  <2>2. w.op \in {"dedup", "validate"} => w.arg \in DOMAIN w.old
    BY <1>1 DEF JobOK
  <2>3. \A m \in PlistNames : lists[m] \in Seq(Songs) \cup {NoList}
    BY <1>1 DEF Stored
  <2> QED
    BY <1>6, <2>1, <2>2, <2>3
<1>9. w.op \notin {"shuffle", "sort", "validate_dedup"}
  BY <1>1, <1>2 DEF JobOK
<1>10. ASSUME v.alone PROVE JobInv(v, now, new, bak, r)
  <2>1. ASSUME w.op = "dedup", w.old[w.arg] # NoList PROVE DedupInv(v, now, r)
    <3>1. DedupInv(w, now, r)
      BY <1>5, <1>7, <1>10, <2>1 DEF JobInv
    <3> QED
      BY <1>1, <1>2, <1>8, <2>1, <3>1, DedupNext
  <2>2. ASSUME w.op = "validate", w.old[w.arg] # NoList, ~v.blind PROVE ValidInv(v, now, r)
    <3>1. ValidInv(w, now, r)
      BY <1>5, <1>7, <1>10, <2>2 DEF JobInv
    <3> QED
      BY <1>1, <1>2, <1>8, <2>2, <3>1, ValidNext
  <2>3. ASSUME w.op = "update", ~v.blind, v.result # "failed" PROVE UpdateInv(v, now, new, bak, r)
    <3>1. UpdateInv(w, now, new, bak, r) /\ w.def \in DefKinds
      BY <1>1, <1>5, <1>7, <1>10, <2>3 DEF JobInv, JobOK
    <3>2. UpdateDone(w, now, new, bak)
      BY <1>2, <3>1, UpdateLast
    <3>3. IsAfter(v, w, <<>>)
      BY <1>1, <1>2, <3>2, RestAdvance DEF UpdateDone
    <3>4. v.program = <<>> /\ v.result = "ok"
      BY <3>3 DEF IsAfter
    <3>5. Wanted(v, now)
      BY <1>5, <3>2 DEF UpdateDone, Wanted, Missing, Uncut
    <3> QED
      BY <3>4, <3>5 DEF UpdateInv
  <2> QED
    BY <1>5, <1>9, <2>1, <2>2, <2>3 DEF JobInv
<1>11. WorkerOf(v, lists, ranges)
  <2>1. JobInv(v, now, new, bak, r)
    BY <1>10 DEF JobInv
  <2> QED
    BY <1>5, <1>6, <2>1 DEF WorkerOf
<1>12. jobs <= jobs
  BY <1>1
<1> QED
  BY <1>1, <1>4, <1>5, <1>11, <1>12 DEF Turned

(* A playlist is skipped when it is no smart playlist, or cannot be        *)
(* updated.                                                                *)
LEMMA Skips ==
  ASSUME PlistInv, Busy("worker"), NEW w, w = work["worker"], Head(w.program).do = "next", w.all = "update_all",
         NEW p, NEW todo, todo = w.todo \ {p}, NEW v, v = [w EXCEPT !.todo = todo]
  PROVE  Turned(v, jobs)
<1>1. /\ jobs \in 1..PlistJobs /\ JobOK(w, jobs) /\ WorkOK(w) /\ IsWork(w) /\ WorkerOf(w, lists, ranges)
      /\ w.program # <<>> /\ lists \in Stored
  BY WorkerBusy
<1>2. /\ IsWork(v) /\ v.op = w.op /\ v.all = w.all /\ v.arg = w.arg /\ v.todo = todo /\ v.nr = w.nr /\ v.old = w.old
      /\ v.def = w.def /\ v.alone = w.alone /\ v.blind = w.blind /\ v.result = w.result /\ v.program = w.program
      /\ v.buf = w.buf /\ v.start = w.start /\ v.pos = w.pos
  BY <1>1 DEF IsWork, Fields
<1>3. WorkOK(v)
  <2>1. \A c : StepOK(w, c) => StepOK(v, c)
    <3>1. v.nr = w.nr /\ v.all = w.all /\ (v.result = "failed" <=> w.result = "failed")
      BY <1>2
    <3>2. \A c : StepOK(v, c) <=> StepOK(w, c)
      BY <3>1, StepOKSame
    <3> QED
      BY <3>2
  <2>2. \A i \in DOMAIN v.program : StepOK(v, v.program[i])
    BY <1>1, <1>2, <2>1 DEF WorkOK
  <2>3. v.program \in Seq(ToSet(v.program)) /\ \A n \in DOMAIN v.old : n \in PlistNames /\ v.old[n] \in Seq(Songs) \cup {NoList}
    BY <1>1, <1>2 DEF WorkOK
  <2>4. v.buf \in Seq(Songs) /\ v.start \in Nat /\ v.pos \in Nat
    BY <1>1, <1>2 DEF WorkOK
  <2>5. v.alone \in BOOLEAN /\ v.blind \in BOOLEAN
    BY <1>1, <1>2 DEF WorkOK
  <2> QED
    BY <1>2, <2>2, <2>3, <2>4, <2>5 DEF WorkOK
<1>4. todo \subseteq PlistNames /\ (w.arg \notin w.todo => w.arg \notin todo)
  BY <1>1 DEF JobOK
<1>5. JobOK(v, jobs)
  BY <1>1, <1>2, <1>3, <1>4 DEF JobOK
<1>6. AtNext(w) /\ AtNext(v)
  BY <1>1, <1>2 DEF AtNext
<1>7. PICK now, new, bak, r : now = lists[w.arg] /\ new = lists[Tmp(w.nr)] /\ bak = lists[Bak(w.nr)] /\ r = ranges
  OBVIOUS
<1>8. JobInv(w, now, new, bak, r)
  BY <1>1, <1>7 DEF WorkerOf
<1>9. w.op \notin {"shuffle", "sort", "validate_dedup", "dedup", "validate"}
  BY <1>1 DEF JobOK
<1>10. ASSUME v.alone, v.op = "update", ~v.blind, v.result # "failed" PROVE UpdateInv(v, now, new, bak, r)
  <2>1. UpdateInv(w, now, new, bak, r) /\ w.def \in DefKinds
    BY <1>1, <1>2, <1>8, <1>10 DEF JobInv, JobOK
  <2>2. UpdateDone(w, now, new, bak)
    BY <1>6, <2>1, UpdateLast
  <2>3. Fresh(v) /\ v.program = Rest(v) /\ v.result = "none" /\ new = NoList /\ bak = NoList /\ v.program # <<>>
    BY <1>2, <1>6, <2>2 DEF UpdateDone, Fresh, Rest, AtNext
  <2>4. Wanted(v, now)
    BY <1>2, <2>2 DEF UpdateDone, Wanted, Missing, Uncut
  <2> QED
    BY <2>3, <2>4 DEF UpdateInv
<1>11. WorkerOf(v, lists, ranges)
  <2>1. JobInv(v, now, new, bak, r)
    BY <1>2, <1>9, <1>10 DEF JobInv
  <2> QED
    BY <1>2, <1>7, <2>1 DEF WorkerOf
<1>12. jobs <= jobs
  BY <1>1
<1> QED
  BY <1>1, <1>2, <1>5, <1>11, <1>12 DEF Turned
Turning(v, op, p, n) == JobOK(v, n) /\ WorkerOf(v, lists, ranges)

(* A job that begins is a turn of the worker.                              *)
LEMMA StartsTurning ==
  ASSUME lists \in Stored, NEW op, NEW p, NEW feat \in BOOLEAN, NEW n, NEW all, NEW rest, NEW v,
         Started(v, op, p, feat, n, all, rest), Startable(op, p, n), rest = Rest(v), Chosen(op, p, all, v.todo),
         op \in {"shuffle", "sort", "update"} => lists[Tmp(<<n, p>>)] = NoList /\ lists[Bak(<<n, p>>)] = NoList
  PROVE  Turning(v, op, p, n)
BY StartedWork, StartedInv DEF Turning

(* The next of all playlists is begun.                                     *)
LEMMA NextStarts ==
  ASSUME PlistInv, Busy("worker"), NEW w, w = work["worker"], Head(w.program).do = "next", NEW p \in w.todo, NEW feat \in BOOLEAN,
         ~(w.all = "update_all" /\ ~Smart(p)), NEW u, u = StartJob(Each[w.all], p, feat, jobs),
         NEW v, v = [u EXCEPT !.all = w.all, !.todo = w.todo \ {p}, !.program = @ \o <<Do("next", "", "")>>]
  PROVE  Turned(v, jobs)
<1>1. /\ jobs \in 1..PlistJobs /\ JobOK(w, jobs) /\ WorkOK(w) /\ IsWork(w)
      /\ w.program # <<>> /\ StepOK(w, Head(w.program)) /\ lists \in Stored
      /\ defs \in [Plists -> DefKinds \cup {NoDef}]
  BY WorkerBusy
<1>2. w.all \in {"dedup_all", "validate_all", "update_all"} /\ w.todo \subseteq PlistNames
  BY <1>1 DEF StepOK, JobOK
<1>3. PICK op, all, todo, rest, n : /\ op = Each[w.all] /\ all = w.all /\ todo = w.todo \ {p} /\ rest = <<Do("next", "", "")>>
                                    /\ n = jobs
  OBVIOUS
<1>4. op \in {"dedup", "validate", "update"} /\ (op = "update" <=> all = "update_all")
  <2>1. Each["dedup_all"] = "dedup" /\ Each["validate_all"] = "validate" /\ Each["update_all"] = "update"
    BY DEF Each
  <2> QED
    BY <1>2, <1>3, <2>1
<1>5. Startable(op, p, n)
  <2>1. op = "update" => p \in Plists /\ defs[p] \in DefKinds
    BY <1>1, <1>3, <1>4 DEF Smart
  <2> QED
    BY <1>1, <1>2, <1>3, <1>4, <2>1 DEF Startable, JobOps
<1>6. Started(v, op, p, feat, n, all, rest) /\ v.todo = todo
  <2>2. u = StartJob(op, p, feat, n)
    BY <1>3
  <2>3. v = [u EXCEPT !.all = all, !.todo = todo, !.program = @ \o rest]
    BY <1>3
  <2>4. StartedTo(v, op, p, feat, n, all, rest, todo)
    BY <2>2, <2>3, StartedMore
  <2> QED
    BY <2>4 DEF StartedTo
<1>7. v.all = all /\ rest = Rest(v)
  BY <1>2, <1>3, <1>6 DEF Started, Rest
<1>8. Chosen(op, p, all, v.todo)
  <2>1. todo \subseteq PlistNames /\ p \notin todo
    BY <1>2, <1>3
  <2> QED
    BY <1>2, <1>3, <1>4, <1>6, <2>1 DEF Chosen
<1>10. op = "update" => lists[Tmp(<<n, p>>)] = NoList /\ lists[Bak(<<n, p>>)] = NoList
  <2>1. Shape(lists, ranges, defs, work, edits, jobs)
    BY InvParts
  <2> QED
    BY <1>1, <1>3, <1>4, <1>5, <2>1 DEF Shape, Startable
<1>11. Turning(v, op, p, n)
  <2>1. op \in {"shuffle", "sort", "update"} => lists[Tmp(<<n, p>>)] = NoList /\ lists[Bak(<<n, p>>)] = NoList
    BY <1>4, <1>10
  <2>2. lists \in Stored
    BY <1>1
  <2>3. rest = Rest(v)
    BY <1>7
  <2>4. Started(v, op, p, feat, n, all, rest)
    BY <1>6
  <2> QED
    BY <1>5, <1>8, <2>1, <2>2, <2>3, <2>4, StartsTurning
<1>12. jobs <= n
  <2>1. jobs <= jobs
    BY <1>1
  <2> QED
    BY <1>3, <2>1
<1>15. todo \subseteq w.todo
  <2>1. \A x, y : x \ {y} \subseteq x
    OBVIOUS
  <2> QED
    BY <1>3, <2>1
<1>13. JobOK(v, n) /\ WorkerOf(v, lists, ranges)
  BY <1>11 DEF Turning
<1>14. Turned(v, n)
  <2>1. v.all = w.all /\ v.todo \subseteq w.todo
    BY <1>3, <1>6, <1>7, <1>15
  <2> QED
    BY <1>1, <1>3, <1>12, <1>13, <2>1 DEF Turned
<1> QED
  BY <1>3, <1>14

(* Going on to the next of all playlists keeps the invariant.              *)
LEMMA AllGoesOn ==
  ASSUME PlistInv, NEW feat \in BOOLEAN, NEW skip \in BOOLEAN, AllNext(feat, skip)
  PROVE  PlistInv'
<1>1. PICK w : w = work["worker"]
  OBVIOUS
<1>2. Busy("worker") /\ Head(w.program).do = "next" /\ UNCHANGED <<lists, ranges, edits>> /\ defs' = defs /\ jobs' = jobs
  BY <1>1 DEF AllNext
<1>3. defs' \in [Plists -> DefKinds \cup {NoDef}]
  BY <1>1, <1>2, WorkerBusy
<1>4. CASE w.todo = {}
  <2>1. PICK v : v = Advance(w)
    OBVIOUS
  <2>2. Turned(v, jobs)
    BY <1>1, <1>2, <2>1, JobsEnd
  <2>3. work' = [work EXCEPT !["worker"] = v]
    BY <1>1, <1>4, <2>1 DEF AllNext
  <2> QED
    BY <1>2, <1>3, <2>2, <2>3, WorkerTurns
<1>5. CASE w.todo # {}
  <2>1. PICK p \in w.todo :
            work' = [work EXCEPT !["worker"] =
              IF w.all = "update_all" /\ (~Smart(p) \/ skip) THEN [w EXCEPT !.todo = w.todo \ {p}]
              ELSE LET v == StartJob(Each[w.all], p, feat, jobs)
                   IN  [v EXCEPT !.all = w.all, !.todo = w.todo \ {p}, !.program = @ \o <<Do("next", "", "")>>]]
    BY <1>1, <1>5 DEF AllNext
  <2>2. CASE w.all = "update_all" /\ (~Smart(p) \/ skip)
    <3>1. PICK todo : todo = w.todo \ {p}
      OBVIOUS
    <3>2. PICK v : v = [w EXCEPT !.todo = todo]
      OBVIOUS
    <3>3. Turned(v, jobs)
      BY <1>1, <1>2, <2>2, <3>1, <3>2, Skips
    <3>4. work' = [work EXCEPT !["worker"] = v]
      BY <2>1, <2>2, <3>1, <3>2
    <3> QED
      BY <1>2, <1>3, <3>3, <3>4, WorkerTurns
  <2>3. CASE ~(w.all = "update_all" /\ (~Smart(p) \/ skip))
    <3>1. PICK u : u = StartJob(Each[w.all], p, feat, jobs)
      OBVIOUS
    <3>2. PICK v : v = [u EXCEPT !.all = w.all, !.todo = w.todo \ {p}, !.program = @ \o <<Do("next", "", "")>>]
      OBVIOUS
    <3>3. ~(w.all = "update_all" /\ ~Smart(p))
      BY <2>3
    <3>4. Turned(v, jobs)
      BY <1>1, <1>2, <3>1, <3>2, <3>3, NextStarts
    <3>5. work' = [work EXCEPT !["worker"] = v]
      BY <2>1, <2>3, <3>1, <3>2
    <3> QED
      BY <1>2, <1>3, <3>4, <3>5, WorkerTurns
  <2> QED
    BY <2>2, <2>3
<1> QED
  BY <1>4, <1>5

(* Removing a definition that was found broken keeps the invariant.        *)
LEMMA DefinitionGoes ==
  ASSUME PlistInv, RemoveDefinition
  PROVE  PlistInv'
<1>1. PICK w : w = work["worker"]
  OBVIOUS
<1>2. PICK v : v = Advance(w)
  OBVIOUS
<1>3. /\ Busy("worker") /\ Head(w.program).do = "rmdef" /\ UNCHANGED <<lists, ranges, edits>> /\ jobs' = jobs
      /\ work' = [work EXCEPT !["worker"] = v] /\ defs' = [defs EXCEPT ![w.arg] = NoDef]
  BY <1>1, <1>2 DEF RemoveDefinition
<1>4. /\ jobs \in 1..PlistJobs /\ JobOK(w, jobs) /\ WorkOK(w) /\ IsWork(w)
      /\ w.program # <<>> /\ StepOK(w, Head(w.program)) /\ lists \in Stored
      /\ defs \in [Plists -> DefKinds \cup {NoDef}]
  BY <1>1, <1>3, WorkerBusy
<1>5. w.all = "update_all" /\ w.result = "failed"
  BY <1>3, <1>4 DEF StepOK
<1>6. Goes(v, w)
  BY <1>2, <1>4, AdvanceGoes
<1>7. JobOK(v, jobs)
  BY <1>4, <1>6, GoesJob
<1>8. v.op = w.op /\ v.all = w.all /\ v.todo = w.todo /\ v.result = "failed"
  BY <1>5, <1>6 DEF Goes, Kin
<1>9. v.op \notin {"shuffle", "sort", "validate_dedup", "dedup", "validate"}
  BY <1>5, <1>7, <1>8 DEF JobOK
<1>10. WorkerOf(v, lists, ranges)
  BY <1>8, <1>9 DEF WorkerOf, JobInv
<1>11. Turned(v, jobs)
  <2>1. jobs <= jobs
    BY <1>4
  <2> QED
    BY <1>1, <1>4, <1>7, <1>8, <1>10, <2>1 DEF Turned
<1>12. defs' \in [Plists -> DefKinds \cup {NoDef}]
  BY <1>3, <1>4
<1> QED
  BY <1>3, <1>11, <1>12, WorkerTurns

(* A command of the api thread begins.                                     *)
Commanding(v) == EditOK(v) /\ EditInv(v, lists, ranges)

(* A command that begins keeps the invariant.                              *)
LEMMA ApiTurns ==
  ASSUME PlistInv, NEW v, Commanding(v), Command(v), UNCHANGED lists, defs' \in [Plists -> DefKinds \cup {NoDef}]
  PROVE  PlistInv'
<1>1. /\ Shape(lists, ranges, defs, work, edits, jobs) /\ WorkerOf(work["worker"], lists, ranges)
  BY InvParts
<1>2. /\ lists \in Stored /\ ranges \in BOOLEAN
      /\ DOMAIN work = {"api", "worker"} /\ edits \in Nat /\ jobs \in 0..PlistJobs
      /\ JobOK(work["worker"], jobs) /\ (jobs = 0 => work["worker"] = Idle)
  BY <1>1 DEF Shape
<1>3. \A m \in 1..PlistJobs, q \in Plists :
       m > jobs \/ (m = jobs /\ work["worker"].all = "update_all" /\ q \in work["worker"].todo) =>
         lists[Tmp(<<m, q>>)] = NoList /\ lists[Bak(<<m, q>>)] = NoList
  BY <1>1 DEF Shape
<1>4. work' = [work EXCEPT !["api"] = v] /\ edits' = edits + 1 /\ UNCHANGED <<lists, ranges, jobs>>
  BY DEF Command
<1>5. PICK wk, e : wk = work' /\ e = edits'
  OBVIOUS
<1>6. DOMAIN wk = {"api", "worker"} /\ wk["worker"] = work["worker"] /\ wk["api"] = v
  BY <1>2, <1>4, <1>5
<1>7. e \in Nat /\ e # 0
  BY <1>2, <1>4, <1>5
<1>8. Shape(lists, ranges, defs', wk, e, jobs)
  BY <1>2, <1>3, <1>6, <1>7 DEF Shape, Commanding
<1>9. WorkerOf(wk["worker"], lists, ranges) /\ EditInv(wk["api"], lists, ranges)
  BY <1>1, <1>6 DEF Commanding
<1> QED
  BY <1>4, <1>5, <1>8, <1>9, InvParts

(* A command that begins with allowed steps has its type.                  *)
LEMMA BegunOK ==
  ASSUME lists \in Stored, NEW op, NEW arg, NEW names, NEW program, NEW v, BegunSo(v, op, arg, names, program),
         Steps(v, program), names \subseteq PlistNames
  PROVE  WorkOK(v) /\ v.nr = <<>> /\ v.all = "none" /\ v.result = "none" /\ v.op = op
<1>1. /\ IsWork(v) /\ v.op = op /\ v.arg = arg /\ v.all = "none" /\ v.nr = <<>> /\ v.program = program
      /\ v.buf = <<>> /\ v.start = 0 /\ v.pos = 0 /\ v.alone = TRUE /\ v.result = "none" /\ v.blind = FALSE
      /\ v.old = [m \in names |-> lists[m]]
  BY DEF BegunSo
<1>2. v.program \in Seq(ToSet(v.program)) /\ \A i \in DOMAIN v.program : StepOK(v, v.program[i])
  BY <1>1, StepsGiven
<1>3. v.buf \in Seq(Songs)
  <2>1. <<>> \in Seq(Songs)
    OBVIOUS
  <2> QED
    BY <1>1, <2>1
<1>4. v.start \in Nat /\ v.pos \in Nat
  BY <1>1
<1>5. v.alone \in BOOLEAN /\ v.blind \in BOOLEAN
  BY <1>1
<1>6. \A n \in DOMAIN v.old : n \in PlistNames /\ v.old[n] \in Seq(Songs) \cup {NoList}
  BY <1>1 DEF Stored
<1>7. WorkOK(v)
  BY <1>1, <1>2, <1>3, <1>4, <1>5, <1>6 DEF WorkOK
<1> QED
  BY <1>1, <1>7

(* The commands that change, clear or delete playlists.                    *)
LEMMA StateOK ==
  ASSUME PlistInv
  PROVE  lists \in Stored /\ defs \in [Plists -> DefKinds \cup {NoDef}] /\ ranges \in BOOLEAN
BY InvParts DEF Shape

(* Commands that keep nothing in mind have no invariant of their own.      *)
LEMMA PlainCommand ==
  ASSUME lists \in Stored, NEW op \in {"edit", "delete", "delete_all"}, NEW arg, NEW none, none = {}, NEW program, NEW v,
         BegunSo(v, op, arg, none, program), Steps(v, program)
  PROVE  Commanding(v)
<1>1. none \subseteq PlistNames
  OBVIOUS
<1>2. WorkOK(v) /\ v.nr = <<>> /\ v.all = "none" /\ v.op = op
  BY <1>1, BegunOK
<1>3. EditOK(v)
  BY <1>2 DEF EditOK
<1>4. EditInv(v, lists, ranges)
  BY <1>2 DEF EditInv, Moving
<1> QED
  BY <1>3, <1>4 DEF Commanding

(* The steps of those commands are allowed.                                *)
LEMMA PlainStep ==
  ASSUME NEW w, w.result # "failed", NEW c,
         \/ c.do = "add" /\ c.a \in Plists
         \/ c.do = "insert" /\ c.a \in Plists /\ c.b[2] \in Nat
         \/ c.do \in {"clear", "move", "delfrom", "delete_all"}
         \/ c.do = "list" /\ Len(c.b) = 2 /\ \A i \in 1..2 : c.b[i].do = "del"
         \/ c.do = "delete" /\ c.b \subseteq PlistNames
  PROVE  StepOK(w, c) /\ Steps(w, <<c>>)
<1>1. ASSUME c.do = "add" /\ c.a \in Plists PROVE StepOK(w, c)
  BY <1>1 DEF StepOK, Own
<1>2. ASSUME c.do = "insert" /\ c.a \in Plists /\ c.b[2] \in Nat PROVE StepOK(w, c)
  BY <1>2 DEF StepOK, Own
<1>3. ASSUME c.do \in {"clear", "move", "delfrom", "delete_all"} PROVE StepOK(w, c)
  BY <1>3 DEF StepOK
<1>4. ASSUME c.do = "list" /\ Len(c.b) = 2 /\ \A i \in 1..2 : c.b[i].do = "del" PROVE StepOK(w, c)
  <2>1. 2 \in Nat
    OBVIOUS
  <2> QED
    BY <1>4, <2>1 DEF StepOK
<1>5. ASSUME c.do = "delete" /\ c.b \subseteq PlistNames PROVE StepOK(w, c)
  BY <1>5 DEF StepOK
<1>6. StepOK(w, c)
  BY <1>1, <1>2, <1>3, <1>4, <1>5
<1> QED
  BY <1>6, StepsParts

(* The edits of one playlist keep the invariant.                           *)
LEMMA Edits ==
  ASSUME PlistInv, NEW p \in Plists, NEW song, Edit(p, song, 1, 2)
  PROVE  PlistInv'
<1>1. PICK i, j, k : i = 1 /\ j = 2 /\ k = 1
  OBVIOUS
<1>2. PICK program \in {AppendSong(p, song), InsertSong(p, song, i), ReplaceSongs(p, song),
                        ClearList(p), MoveSong(p, i, j), RmRange(p, i), RmPositions(p, i, j)} :
        Command(Begin("edit", p, {}, program))
  BY <1>1 DEF Edit
<1>3. PICK op, none : op = "edit" /\ none = {}
  OBVIOUS
<1>4. PICK v : v = Begin(op, p, none, program)
  OBVIOUS
<1>5. BegunSo(v, op, p, none, program)
  BY <1>4, Begun
<1>6. v.result # "failed"
  BY <1>5 DEF BegunSo
<1>7. PICK x, y, z : x = <<song, i>> /\ y = <<i, j>> /\ z = <<Do("del", p, j), Do("del", p, i)>>
  OBVIOUS
<1>8. PICK c1, c2, c3, c4, c5, c6 : /\ c1 = Do("add", p, song) /\ c2 = Do("insert", p, x) /\ c3 = Do("clear", p, "")
                                    /\ c4 = Do("move", p, y) /\ c5 = Do("delfrom", p, i) /\ c6 = Do("list", p, z)
  OBVIOUS
<1>9. c1.do = "add" /\ c1.a = p
  BY <1>8 DEF Do
<1>10. c2.do = "insert" /\ c2.a = p /\ c2.b = x
  BY <1>8 DEF Do
<1>11. c3.do = "clear" /\ c4.do = "move" /\ c5.do = "delfrom"
  BY <1>8 DEF Do
<1>12. c6.do = "list" /\ c6.b = z
  BY <1>8 DEF Do
<1>13. Len(z) = 2 /\ \A m \in 1..2 : z[m].do = "del"
  <2>1. PICK a, b : a = Do("del", p, j) /\ b = Do("del", p, i)
    OBVIOUS
  <2>2. a.do = "del" /\ b.do = "del"
    BY <2>1 DEF Do
  <2>3. z = <<a, b>>
    BY <1>7, <2>1
  <2> QED
    BY <2>2, <2>3
<1>14. x[2] \in Nat
  BY <1>1, <1>7
<1>15. Steps(v, <<c1>>)
  BY <1>6, <1>9, PlainStep
<1>16. Steps(v, <<c2>>)
  BY <1>6, <1>10, <1>14, PlainStep
<1>17. Steps(v, <<c3>>) /\ Steps(v, <<c4>>) /\ Steps(v, <<c5>>)
  BY <1>6, <1>11, PlainStep
<1>18. Steps(v, <<c6>>)
  BY <1>6, <1>12, <1>13, PlainStep
<1>19. Steps(v, <<c3>> \o <<c1>>)
  BY <1>15, <1>17, StepsParts
<1>20. program \in {<<c1>>, <<c2>>, <<c3>> \o <<c1>>, <<c3>>, <<c4>>, <<c5>>, <<c6>>}
  <2>1. RmPositions(p, i, j) = <<c6>>
    <3>1. i < j
      BY <1>1
    <3> QED
      BY <1>7, <1>8, <3>1 DEF RmPositions
  <2>2. AppendSong(p, song) = <<c1>> /\ InsertSong(p, song, i) = <<c2>> /\ ClearList(p) = <<c3>>
        /\ MoveSong(p, i, j) = <<c4>> /\ RmRange(p, i) = <<c5>>
    BY <1>7, <1>8 DEF AppendSong, InsertSong, ClearList, MoveSong, RmRange, Add
  <2>3. ReplaceSongs(p, song) = <<c3>> \o <<c1>>
    BY <2>2 DEF ReplaceSongs
  <2> QED
    BY <1>2, <2>1, <2>2, <2>3
<1>21. Steps(v, program)
  BY <1>15, <1>16, <1>17, <1>18, <1>19, <1>20
<1>22. Commanding(v)
  BY <1>3, <1>5, <1>21, StateOK, PlainCommand
<1>23. Command(v) /\ UNCHANGED lists /\ defs' = defs
  BY <1>2, <1>3, <1>4 DEF Edit
<1> QED
  BY <1>22, <1>23, StateOK, ApiTurns

(* Deleting playlists keeps the invariant.                                 *)
LEMMA Deletes ==
  ASSUME PlistInv
  PROVE  /\ \A S \in SUBSET Plists : Delete(S) => PlistInv'
         /\ \A criteria : DeleteAll(criteria) => PlistInv'
<1>1. ASSUME NEW op \in {"delete", "delete_all"}, NEW arg, NEW c, c.do = op, op = "delete" => c.b \subseteq PlistNames,
             NEW v, NEW none, none = {}, v = Begin(op, arg, none, <<c>>), Command(v), UNCHANGED <<lists, defs>>
      PROVE  PlistInv'
  <2>1. PICK program : program = <<c>>
    OBVIOUS
  <2>2. BegunSo(v, op, arg, none, program)
    BY <1>1, <2>1, Begun
  <2>3. v.result # "failed"
    BY <2>2 DEF BegunSo
  <2>4. Steps(v, program)
    BY <1>1, <2>1, <2>3, PlainStep
  <2>5. Commanding(v)
    BY <2>2, <2>4, <1>1, StateOK, PlainCommand
  <2> QED
    BY <1>1, <2>5, StateOK, ApiTurns
<1>2. ASSUME NEW S \in SUBSET Plists, Delete(S) PROVE PlistInv'
  <2>1. PICK op, none, c : op = "delete" /\ none = {} /\ c = Do("delete", "", S)
    OBVIOUS
  <2>2. c.do = op /\ c.b = S
    BY <2>1 DEF Do
  <2>3. PICK v : v = Begin(op, S, none, <<c>>)
    OBVIOUS
  <2>4. Command(v) /\ UNCHANGED <<lists, defs>>
    BY <1>2, <2>1, <2>3 DEF Delete
  <2>5. S \subseteq PlistNames
    BY Names
  <2> QED
    BY <1>1, <2>1, <2>2, <2>3, <2>4, <2>5
<1>3. ASSUME NEW criteria, DeleteAll(criteria) PROVE PlistInv'
  <2>1. PICK op, none, c : op = "delete_all" /\ none = {} /\ c = Do("delete_all", "", criteria)
    OBVIOUS
  <2>2. c.do = op
    BY <2>1 DEF Do
  <2>3. PICK v : v = Begin(op, criteria, none, <<c>>)
    OBVIOUS
  <2>4. Command(v) /\ UNCHANGED <<lists, defs>>
    BY <1>3, <2>1, <2>3 DEF DeleteAll
  <2> QED
    BY <1>1, <2>1, <2>2, <2>3, <2>4
<1> QED
  BY <1>2, <1>3

(* Moving songs to another playlist, renaming a playlist.                  *)
LEMMA NoTmp == Tmp(<<>>) \notin Plists /\ Bak(<<>>) \notin Plists
BY PlistAssumption DEF PlistAssumption

(* The parts of a pair.                                                    *)
LEMMA PairOf ==
  ASSUME NEW a, NEW b, NEW p, p = <<a, b>>
  PROVE  p[1] = a /\ p[2] = b
OBVIOUS

(* Beginning to move songs keeps the invariant.                            *)
LEMMA SongsMove ==
  ASSUME PlistInv, NEW src \in Plists, NEW dst \in Plists, MoveSongs(src, dst)
  PROVE  PlistInv'
<1>1. src # dst /\ UNCHANGED lists /\ defs' = defs
  BY DEF MoveSongs
<1>2. PICK op, one, arg, names, c, d : /\ op = "move_songs" /\ one = <<src>> /\ arg = <<one, dst>> /\ names = {src, dst}
                                       /\ c = Do("read", src, "") /\ d = Do("shift", dst, src)
  OBVIOUS
<1>3. PICK program : program = <<c, d>>
  OBVIOUS
<1>4. PICK v : v = Begin(op, arg, names, program)
  OBVIOUS
<1>5. BegunSo(v, op, arg, names, program)
  BY <1>4, Begun
<1>6. Command(v)
  BY <1>2, <1>3, <1>4 DEF MoveSongs
<1>7. /\ v.result # "failed" /\ v.op = op /\ v.arg = arg /\ v.program = program /\ v.result = "none"
      /\ v.start = 0 /\ v.pos = 0 /\ v.buf = <<>> /\ v.old = [m \in names |-> lists[m]]
  BY <1>5 DEF BegunSo
<1>8. src \in PlistNames /\ dst \in PlistNames /\ names \subseteq PlistNames
  BY <1>2, Names
<1>9. Steps(v, program)
  <2>1. dst \in Own(v)
    BY DEF Own
  <2>2. StepOK(v, c) /\ StepOK(v, d)
    BY <1>2, <1>7, <1>8, <2>1, JobSteps
  <2> QED
    BY <1>3, <2>2, FewSteps
<1>10. WorkOK(v) /\ v.nr = <<>> /\ v.all = "none"
  BY <1>5, <1>8, <1>9, StateOK, BegunOK
<1>11. v.arg[1] = one /\ v.arg[2] = dst /\ one[1] = src
  <2>1. one[1] = src
    BY <1>2
  <2>2. arg[1] = one /\ arg[2] = dst
    BY <1>2, PairOf
  <2> QED
    BY <1>7, <2>1, <2>2
<1>12. EditOK(v)
  BY <1>1, <1>2, <1>7, <1>10, <1>11 DEF EditOK, Sources, Target
<1>13. ShiftInv(v, lists, ranges)
  <2>1. program = <<c>> \o <<d>>
    BY <1>3, Two
  <2>2. Unchanged(v, lists)
    BY <1>7 DEF Unchanged
  <2>3. Reading(v, ranges, <<>>, v.old[src])
    BY <1>7 DEF Reading
  <2>4. PICK shift : shift = <<Do("shift", Target(v), src)>>
    OBVIOUS
  <2>5. shift = <<d>>
    BY <1>2, <1>11, <2>4 DEF Target
  <2>6. v.program = <<Do("read", src, "")>> \o shift
    BY <1>2, <1>7, <2>1, <2>5
  <2> QED
    BY <1>7, <1>11, <2>2, <2>3, <2>4, <2>6 DEF ShiftInv
<1>14. EditInv(v, lists, ranges)
  BY <1>2, <1>7, <1>13 DEF EditInv, Moving
<1>15. Commanding(v)
  BY <1>12, <1>14 DEF Commanding
<1> QED
  BY <1>1, <1>6, <1>15, StateOK, ApiTurns

(* Beginning to rename keeps the invariant.                                *)
LEMMA Renames ==
  ASSUME PlistInv, NEW p \in Plists, NEW q \in Plists, Rename(p, q)
  PROVE  PlistInv'
<1>1. p # q /\ UNCHANGED lists
  BY DEF Rename
<1>2. PICK op, arg, names, c : op = "rename" /\ arg = <<p, q>> /\ names = {p, q} /\ c = Do("rename", p, q)
  OBVIOUS
<1>3. PICK program : program = <<c>>
  OBVIOUS
<1>4. PICK v : v = Begin(op, arg, names, program)
  OBVIOUS
<1>5. BegunSo(v, op, arg, names, program)
  BY <1>4, Begun
<1>6. Command(v)
  BY <1>2, <1>3, <1>4 DEF Rename
<1>7. /\ v.result # "failed" /\ v.op = op /\ v.arg = arg /\ v.program = program /\ v.result = "none" /\ v.nr = <<>>
      /\ v.old = [m \in names |-> lists[m]]
  BY <1>5 DEF BegunSo
<1>8. p \in PlistNames /\ q \in PlistNames /\ names \subseteq PlistNames
  BY <1>2, Names
<1>9. Steps(v, program)
  <2>1. q \in Own(v)
    BY DEF Own
  <2>2. p # Tmp(v.nr)
    BY <1>7, NoTmp
  <2>3. StepOK(v, c)
    BY <1>2, <1>8, <2>1, <2>2, RenameStep
  <2> QED
    BY <1>3, <2>3, StepsParts
<1>10. WorkOK(v) /\ v.nr = <<>> /\ v.all = "none"
  BY <1>5, <1>8, <1>9, StateOK, BegunOK
<1>11. v.arg[1] = p /\ v.arg[2] = q
  BY <1>2, <1>7, PairOf
<1>12. EditOK(v)
  BY <1>1, <1>2, <1>7, <1>10, <1>11 DEF EditOK
<1>13. RenameInv(v, lists)
  <2>1. Unchanged(v, lists)
    BY <1>7 DEF Unchanged
  <2>2. v.program = <<Do("rename", p, q)>>
    BY <1>2, <1>3, <1>7
  <2> QED
    BY <1>7, <1>11, <2>1, <2>2 DEF RenameInv
<1>14. EditInv(v, lists, ranges)
  BY <1>2, <1>7, <1>13 DEF EditInv, Moving
<1>15. Commanding(v)
  BY <1>12, <1>14 DEF Commanding
<1>16. defs' \in [Plists -> DefKinds \cup {NoDef}]
  <2>1. defs \in [Plists -> DefKinds \cup {NoDef}]
    BY StateOK
  <2>2. defs' = IF Smart(p) THEN [defs EXCEPT ![p] = NoDef, ![q] = defs[p]] ELSE defs
    BY DEF Rename
  <2>3. defs[p] \in DefKinds \cup {NoDef}
    BY <2>1
  <2> QED
    BY <2>1, <2>2, <2>3
<1> QED
  BY <1>1, <1>6, <1>15, <1>16, ApiTurns

(* A definition is saved.                                                  *)
LEMMA Saves ==
  ASSUME PlistInv, NEW p \in Plists, NEW d \in Defs, SmartSave(p, d)
  PROVE  PlistInv'
<1>1. /\ Shape(lists, ranges, defs, work, edits, jobs) /\ WorkerOf(work["worker"], lists, ranges)
      /\ EditInv(work["api"], lists, ranges)
  BY InvParts
<1>2. d \in DefKinds
  BY PlistAssumption DEF PlistAssumption
<1>3. /\ edits' = edits + 1 /\ defs' = [defs EXCEPT ![p] = d] /\ lists' = lists /\ ranges' = ranges /\ work' = work /\ jobs' = jobs
  BY DEF SmartSave
<1>4. PICK e, ds : e = edits' /\ ds = defs'
  OBVIOUS
<1>5. e \in Nat /\ e # 0 /\ ds \in [Plists -> DefKinds \cup {NoDef}]
  BY <1>1, <1>2, <1>3, <1>4 DEF Shape
<1>6. Shape(lists, ranges, ds, work, e, jobs)
  BY <1>1, <1>5 DEF Shape
<1> QED
  BY <1>1, <1>3, <1>4, <1>6, InvParts

(* Nothing has been done yet.                                              *)
LEMMA IdleOK ==
  /\ JobOK(Idle, 0) /\ EditOK(Idle) /\ \A l, r : WorkerOf(Idle, l, r) /\ EditInv(Idle, l, r)
<1>1. PICK w : w = Idle
  OBVIOUS
<1>2. /\ IsWork(w) /\ w.op = "none" /\ w.all = "none" /\ w.nr = <<>> /\ w.todo = {} /\ w.program = <<>>
      /\ w.buf = <<>> /\ w.start = 0 /\ w.pos = 0 /\ w.alone = TRUE /\ w.result = "none" /\ w.blind = FALSE
      /\ w.old = <<>>
  BY <1>1 DEF Idle, IsWork, Fields
<1>3. <<>> \in Seq(Songs) /\ DOMAIN <<>> = {} /\ 0 \in Nat
  OBVIOUS
<1>4. w.program \in Seq(ToSet(w.program)) /\ \A i \in DOMAIN w.program : StepOK(w, w.program[i])
  <2>1. Steps(w, w.program)
    BY <1>2, StepsParts
  <2> QED
    BY <2>1, StepsGiven
<1>5. w.buf \in Seq(Songs) /\ w.start \in Nat /\ w.pos \in Nat
  BY <1>2, <1>3
<1>6. w.alone \in BOOLEAN /\ w.blind \in BOOLEAN /\ DOMAIN w.old = {}
  BY <1>2, <1>3
<1>7. WorkOK(w)
  BY <1>2, <1>4, <1>5, <1>6 DEF WorkOK
<1>8. JobOK(w, 0)
  BY <1>2, <1>7 DEF JobOK
<1>9. EditOK(w)
  BY <1>2, <1>7 DEF EditOK
<1>10. \A l, r : WorkerOf(w, l, r) /\ EditInv(w, l, r)
  BY <1>2 DEF WorkerOf, JobInv, EditInv, Moving
<1> QED
  BY <1>1, <1>8, <1>9, <1>10

(* The state the threads find at start satisfies the invariant.            *)
LEMMA Found0 ==
  ASSUME PlistInv, NEW world \in PlistWorlds, PlistBefore(world)
  PROVE  PlistInv'
<1>1. /\ Shape(lists, ranges, defs, work, edits, jobs)
  BY InvParts
<1>2. edits = 0 /\ jobs = 0 /\ work' = work /\ edits' = edits /\ jobs' = jobs /\ defs' = world.defs /\ ranges' = world.ranges
      /\ lists' = [n \in PlistNames |-> IF n \in Plists THEN world.lists[n] ELSE NoList]
  BY DEF PlistBefore
<1>3. work["worker"] = Idle /\ work["api"] = Idle
  BY <1>1, <1>2 DEF Shape
<1>4. /\ world.lists \in [Plists -> Seq(Songs) \union {NoList}]
      /\ world.defs \in [Plists -> DefKinds \union {NoDef}] /\ world.ranges \in BOOLEAN
  BY PlistAssumption DEF PlistAssumption
<1>5. PICK l, r, d : l = lists' /\ r = ranges' /\ d = defs'
  OBVIOUS
<1>6. l \in Stored
  <2>1. \A n \in PlistNames : (IF n \in Plists THEN world.lists[n] ELSE NoList) \in Seq(Songs) \union {NoList}
    BY <1>4
  <2>2. l = [n \in PlistNames |-> IF n \in Plists THEN world.lists[n] ELSE NoList]
    BY <1>2, <1>5
  <2> QED
    BY <2>1, <2>2 DEF Stored
<1>7. \A n \in 1..PlistJobs, q \in Plists : l[Tmp(<<n, q>>)] = NoList /\ l[Bak(<<n, q>>)] = NoList
  <2>1. SUFFICES ASSUME NEW n \in 1..PlistJobs, NEW q \in Plists PROVE l[Tmp(<<n, q>>)] = NoList /\ l[Bak(<<n, q>>)] = NoList
    OBVIOUS
  <2>2. PICK id : id = <<n, q>>
    OBVIOUS
  <2>3. /\ Tmp(id) \in PlistNames /\ Bak(id) \in PlistNames /\ Tmp(id) \notin Plists /\ Bak(id) \notin Plists
    BY <2>2, Names DEF JobIds
  <2> QED
    BY <1>2, <1>5, <2>2, <2>3
<1>8. Shape(l, r, d, work, edits, jobs)
  BY <1>1, <1>2, <1>4, <1>5, <1>6, <1>7 DEF Shape
<1>9. WorkerOf(work["worker"], l, r) /\ EditInv(work["api"], l, r)
  BY <1>3, IdleOK
<1> QED
  BY <1>2, <1>5, <1>8, <1>9, InvParts

(* The invariant holds at first.                                           *)
LEMMA PlistBegins == PlistInit => PlistInv
<1>1. SUFFICES ASSUME PlistInit PROVE PlistInv
  OBVIOUS
<1>2. /\ lists = [n \in PlistNames |-> NoList] /\ ranges = TRUE /\ defs = [n \in Plists |-> NoDef]
      /\ work = [t \in {"api", "worker"} |-> Idle] /\ edits = 0 /\ jobs = 0
  BY <1>1 DEF PlistInit
<1>3. lists \in Stored /\ defs \in [Plists -> DefKinds \cup {NoDef}] /\ ranges \in BOOLEAN
  BY <1>2 DEF Stored
<1>4. DOMAIN work = {"api", "worker"} /\ work["worker"] = Idle /\ work["api"] = Idle
  BY <1>2
<1>5. \A n \in 1..PlistJobs, q \in Plists : lists[Tmp(<<n, q>>)] = NoList /\ lists[Bak(<<n, q>>)] = NoList
  <2>1. SUFFICES ASSUME NEW n \in 1..PlistJobs, NEW q \in Plists PROVE lists[Tmp(<<n, q>>)] = NoList /\ lists[Bak(<<n, q>>)] = NoList
    OBVIOUS
  <2>2. PICK id : id = <<n, q>>
    OBVIOUS
  <2>3. Tmp(id) \in PlistNames /\ Bak(id) \in PlistNames
    BY <2>2, Names DEF JobIds
  <2> QED
    BY <1>2, <2>2, <2>3
<1>6. jobs \in 0..PlistJobs /\ edits \in Nat
  BY <1>2, PlistAssumption DEF PlistAssumption
<1>7. Shape(lists, ranges, defs, work, edits, jobs)
  BY <1>2, <1>3, <1>4, <1>5, <1>6, IdleOK DEF Shape
<1>8. WorkerOf(work["worker"], lists, ranges) /\ EditInv(work["api"], lists, ranges)
  BY <1>4, IdleOK
<1> QED
  BY <1>7, <1>8, InvParts

(* Playlists are copied or moved into another one.                         *)
LEMMA SourcesOf ==
  ASSUME NEW S \in SUBSET Plists, S # {}, NEW srcs, srcs = SetToSeq(S)
  PROVE  srcs \in Seq(Plists) /\ Len(srcs) \in Nat /\ Len(srcs) > 0
<1>1. IsFiniteSet(S)
  <2>1. IsFiniteSet(Plists)
    BY PlistAssumption DEF PlistAssumption
  <2> QED
    BY <2>1, FS_Subset
<1>2. srcs \in Seq(S)
  BY <1>1, SetListed
<1>3. PICK n \in Nat : n = Cardinality(S)
  BY <1>1, FS_CardinalityType
<1>4. srcs \in [1..n -> S]
  <2>1. ExistsBijection(1..n, S)
    BY <1>1, <1>3, FS_CardinalityType
  <2>2. PICK f : f \in Bijection(1..n, S)
    BY <2>1 DEF ExistsBijection
  <2>3. f \in [1..n -> S] /\ IsInjective(f)
    BY <2>2 DEF Bijection, Injection, Surjection, IsInjective
  <2> QED
    BY <1>3, <2>3 DEF SetToSeq
<1>5. n # 0
  BY <1>1, <1>3, FS_EmptySet
<1>6. srcs \in Seq(Plists)
  BY <1>2
<1>7. Len(srcs) = n
  BY <1>3, <1>4
<1> QED
  BY <1>3, <1>5, <1>6, <1>7

(* No source has been read at first.                                       *)
LEMMA JoinedNone ==
  ASSUME NEW l, NEW E, NEW names \in Seq(E)
  PROVE  Joined(l, SubSeq(names, 1, 0)) = <<>>
<1>1. PICK a, z : a = SubSeq(names, 1, 0) /\ z = 0
  OBVIOUS
<1>2. Len(a) = z /\ Len(a) \in Nat /\ z = 0
  BY <1>1
<1>3. \A i \in 1..Len(a) : l[a[i]] \in Seq(Songs)
  BY <1>2
<1>4. PICK f : JoinsUp(l, a, f)
  BY <1>2, <1>3, JoinedUp
<1>5. f[0] = <<>> /\ Joined(l, a) = f[Len(a)]
  BY <1>4 DEF JoinsUp
<1> QED
  BY <1>1, <1>2, <1>5
CopyMode(mode) == mode \in {"append", "insert", "replace", "move_append", "move_insert"}
ReadEach(srcs) == [i \in DOMAIN srcs |-> Do("read", srcs[i], "")]

(* The steps that read the sources are allowed.                            *)
LEMMA ReadSteps ==
  ASSUME NEW w, w.result # "failed", NEW srcs \in Seq(Plists)
  PROVE  Steps(w, ReadEach(srcs)) /\ ReadEach(srcs) = Reads(srcs, 0)
<1>1. PICK n \in Nat : n = Len(srcs)
  OBVIOUS
<1>2. DOMAIN srcs = 1..n /\ \A i \in 1..n : srcs[i] \in Plists
  BY <1>1
<1>3. PICK a : a = ReadEach(srcs)
  OBVIOUS
<1>4. a = [i \in 1..n |-> Do("read", srcs[i], "")]
  BY <1>2, <1>3 DEF ReadEach
<1>5. IsSeq(a) /\ Len(a) = n
  <2>1. a = [i \in 1..n |-> a[i]] /\ DOMAIN a = 1..n
    BY <1>4
  <2>2. PICK E : E = {a[i] : i \in 1..n}
    OBVIOUS
  <2>3. a \in Seq(E)
    BY <2>1, <2>2
  <2>4. IsSeq(a)
    BY <2>3 DEF IsSeq
  <2>5. Len(a) = n
    BY <2>1
  <2> QED
    BY <2>4, <2>5
<1>6. ASSUME NEW i \in 1..n PROVE StepOK(w, a[i])
  <2>1. PICK p \in Plists : p = srcs[i]
    BY <1>2
  <2>2. PICK c : c = Do("read", p, "")
    OBVIOUS
  <2>3. p \in PlistNames
    BY Names
  <2>4. StepOK(w, c)
    BY <2>2, <2>3, JobSteps
  <2> QED
    BY <1>4, <2>1, <2>2, <2>4
<1>7. Steps(w, a)
  BY <1>5, <1>6 DEF Steps
<1>8. \A i \in 1..n : i + 0 = i
  OBVIOUS
<1>9. n - 0 = n
  OBVIOUS
<1>10. Reads(srcs, 0) = a
  <2>1. PICK z : z = 0
    OBVIOUS
  <2>2. Reads(srcs, z) = [i \in 1..n - z |-> Do("read", srcs[i + z], "")]
    BY <1>1 DEF Reads
  <2>3. 1..n - z = 1..n /\ \A i \in 1..n : i + z = i
    BY <1>8, <1>9, <2>1
  <2>4. Reads(srcs, z) = [i \in 1..n |-> Do("read", srcs[i], "")]
    BY <2>2, <2>3
  <2> QED
    BY <1>4, <2>1, <2>4
<1> QED
  BY <1>3, <1>7, <1>10
ClearPart(dst, mode) == IF mode = "replace" THEN <<Do("clear", dst, "")>> ELSE <<>>
PutPart(dst, mode)   == <<Do("put", dst, IF mode \in {"insert", "move_insert"} THEN "insert" ELSE "")>>
DelPart(srcs, mode)  == IF mode \in {"move_append", "move_insert"} THEN <<Do("delete", "", ToSet(srcs))>> ELSE <<>>

(* The other steps of a copy are allowed.                                  *)
LEMMA CopySteps ==
  ASSUME NEW w, w.result # "failed", NEW srcs \in Seq(Plists), NEW dst \in Plists, NEW mode
  PROVE  Steps(w, ClearPart(dst, mode)) /\ Steps(w, PutPart(dst, mode)) /\ Steps(w, DelPart(srcs, mode))
<1>1. Steps(w, <<>>)
  BY StepsParts
<1>2. Steps(w, ClearPart(dst, mode))
  <2>1. PICK c : c = Do("clear", dst, "")
    OBVIOUS
  <2>2. c.do = "clear"
    BY <2>1 DEF Do
  <2>3. Steps(w, <<c>>)
    BY <2>2, PlainStep
  <2> QED
    BY <1>1, <2>1, <2>3 DEF ClearPart
<1>3. Steps(w, PutPart(dst, mode))
  <2>1. PICK how : how = IF mode \in {"insert", "move_insert"} THEN "insert" ELSE ""
    OBVIOUS
  <2>2. PICK c : c = Do("put", dst, how)
    OBVIOUS
  <2>3. dst \in Own(w)
    BY DEF Own
  <2>4. StepOK(w, c)
    BY <2>2, <2>3, JobSteps
  <2>5. Steps(w, <<c>>)
    BY <2>4, StepsParts
  <2> QED
    BY <2>1, <2>2, <2>5 DEF PutPart
<1>4. Steps(w, DelPart(srcs, mode))
  <2>1. PICK c, S : c = Do("delete", "", S) /\ S = ToSet(srcs)
    OBVIOUS
  <2>2. c.do = "delete" /\ c.b = S
    BY <2>1 DEF Do
  <2>3. S \subseteq PlistNames
    <3>1. S = {srcs[i] : i \in DOMAIN srcs}
      BY <2>1 DEF ToSet
    <3>2. \A i \in DOMAIN srcs : srcs[i] \in Plists
      OBVIOUS
    <3>3. S \subseteq Plists
      BY <3>1, <3>2
    <3> QED
      BY <3>3, Names
  <2>4. Steps(w, <<c>>)
    BY <2>2, <2>3, PlainStep
  <2> QED
    BY <1>1, <2>1, <2>4 DEF DelPart
<1> QED
  BY <1>2, <1>3, <1>4

(* Beginning a copy keeps the invariant.                                   *)
LEMMA Copies ==
  ASSUME PlistInv, NEW S \in SUBSET Plists, S # {}, NEW srcs, srcs = SetToSeq(S), NEW dst \in Plists, NEW mode, CopyMode(mode),
         Copy(srcs, dst, mode)
  PROVE  PlistInv'
<1>1. srcs \in Seq(Plists) /\ Len(srcs) \in Nat /\ Len(srcs) > 0
  BY SourcesOf
<1>2. UNCHANGED lists /\ defs' = defs
  BY DEF Copy
<1>3. PICK arg, names : arg = <<srcs, dst>> /\ names = ToSet(srcs) \cup {dst}
  OBVIOUS
<1>4. PICK rds, clr, put, del : /\ rds = ReadEach(srcs) /\ clr = ClearPart(dst, mode) /\ put = PutPart(dst, mode)
                                /\ del = DelPart(srcs, mode)
  OBVIOUS
<1>5. PICK program : program = ((rds \o clr) \o put) \o del
  OBVIOUS
<1>6. PICK v : v = Begin(mode, arg, names, program)
  OBVIOUS
<1>7. Command(v)
  <2>1. {srcs[i] : i \in DOMAIN srcs} = ToSet(srcs)
    BY <1>1 DEF ToSet
  <2> QED
    BY <1>3, <1>4, <1>5, <1>6, <2>1 DEF Copy, ReadEach, ClearPart, PutPart, DelPart
<1>8. BegunSo(v, mode, arg, names, program)
  BY <1>6, Begun
<1>9. /\ v.result # "failed" /\ v.op = mode /\ v.arg = arg /\ v.program = program /\ v.result = "none"
      /\ v.start = 0 /\ v.pos = 0 /\ v.buf = <<>> /\ v.old = [m \in names |-> lists[m]] /\ DOMAIN v.old = names
  BY <1>8 DEF BegunSo
<1>10. names \subseteq PlistNames
  BY <1>1, <1>3, Names DEF ToSet
<1>11. Steps(v, rds) /\ rds = Reads(srcs, 0)
  BY <1>1, <1>4, <1>9, ReadSteps
<1>12. Steps(v, clr) /\ Steps(v, put) /\ Steps(v, del)
  BY <1>1, <1>4, <1>9, CopySteps
<1>13. Steps(v, program)
  <2>1. Steps(v, rds \o clr)
    BY <1>11, <1>12, StepsParts
  <2>2. Steps(v, (rds \o clr) \o put)
    BY <1>12, <2>1, StepsParts
  <2> QED
    BY <1>5, <1>12, <2>2, StepsParts
<1>14. WorkOK(v) /\ v.nr = <<>> /\ v.all = "none"
  BY <1>8, <1>10, <1>13, StateOK, BegunOK
<1>15. Sources(v) = srcs /\ Target(v) = dst
  BY <1>3, <1>9, PairOf DEF Sources, Target
<1>16. EditOK(v)
  <2>1. v.op # "move_songs" /\ v.op # "rename"
    BY <1>9 DEF CopyMode
  <2>2. Sources(v) \in Seq(Plists) /\ Target(v) \in Plists /\ DOMAIN v.old = ToSet(Sources(v)) \cup {Target(v)}
    BY <1>1, <1>3, <1>9, <1>15
  <2> QED
    BY <1>14, <2>1, <2>2 DEF EditOK
<1>17. ASSUME Moving(v) \/ v.op = "append" PROVE CopyInv(v, lists, ranges)
  <2>1. clr = <<>>
    BY <1>4, <1>9, <1>17 DEF ClearPart, Moving
  <2>2. IsSeq(rds) /\ IsSeq(put) /\ IsSeq(del)
    BY <1>11, <1>12 DEF Steps
  <2>3. rds \o clr = rds
    BY <2>1, <2>2, Nothing
  <2>4. program = rds \o (put \o del)
    BY <1>5, <2>2, <2>3, Assoc, SMTT(30)
  <2>5. PICK j : j = 0
    OBVIOUS
  <2>6. put \o del = Putting(v)
    <3>1. del = Deleting(v)
      BY <1>4, <1>9, <1>15 DEF DelPart, Deleting, Moving
    <3>2. put = <<Do("put", dst, IF v.op = "move_insert" THEN "insert" ELSE "")>>
      BY <1>4, <1>9, <1>17 DEF PutPart, Moving
    <3> QED
      BY <1>15, <3>1, <3>2 DEF Putting
  <2>7. v.program = Reads(Sources(v), j) \o Putting(v)
    BY <1>9, <1>11, <1>15, <2>4, <2>5, <2>6
  <2>8. Joined(v.old, SubSeq(srcs, 1, j)) = <<>>
    BY <1>1, <2>5, JoinedNone
  <2>9. Reading(v, ranges, Joined(v.old, SubSeq(Sources(v), 1, j)), v.old[Sources(v)[j + 1]])
    BY <1>9, <1>15, <2>8 DEF Reading
  <2>10. ReadingAt(v, ranges, j)
    BY <2>5, <2>7, <2>9 DEF ReadingAt
  <2>11. j \in 0..Len(Sources(v)) - 1
    BY <1>1, <1>15, <2>5
  <2>12. Unchanged(v, lists)
    BY <1>9 DEF Unchanged
  <2> QED
    BY <1>9, <2>10, <2>11, <2>12 DEF CopyInv
<1>18. EditInv(v, lists, ranges)
  <2>1. v.op # "move_songs" /\ v.op # "rename"
    BY <1>9 DEF CopyMode
  <2> QED
    BY <1>17, <2>1 DEF EditInv
<1>19. Commanding(v)
  BY <1>16, <1>18 DEF Commanding
<1> QED
  BY <1>2, <1>7, <1>19, StateOK, ApiTurns

(* A list without duplicates, without songs that are not known.            *)
LEMMA DistinctUnique ==
  ASSUME NEW s \in Seq(Songs), Distinct(s)
  PROVE  Unique(s) = s
<1>1. \A i \in DOMAIN s : ~Repeated(s, i)
  <2>1. SUFFICES ASSUME NEW i \in DOMAIN s, Repeated(s, i) PROVE FALSE
    OBVIOUS
  <2>2. PICK k \in 1..(i - 1) : s[k] = s[i]
    BY <2>1 DEF Repeated
  <2>3. k \in DOMAIN s /\ k # i
    BY <2>1, <2>2
  <2> QED
    BY <2>1, <2>2, <2>3 DEF Distinct
<1>2. {i \in DOMAIN s : ~Repeated(s, i)} = DOMAIN s
  BY <1>1
<1>3. EntriesAt(s, DOMAIN s) = s
  BY AllEntries
<1> QED
  BY <1>2, <1>3 DEF Unique

-----------------------------------------------------------------------------
(* The theorems.                                                           *)

(* Removing duplicates twice removes none the second time.                 *)
LEMMA UniqueTwice ==
  ASSUME NEW s \in Seq(Songs)
  PROVE  Distinct(Unique(s)) /\ Unique(Unique(s)) = Unique(s) /\ Unique(s) \in Seq(Songs)
<1>1. PICK I : I = {i \in DOMAIN s : ~Repeated(s, i)}
  OBVIOUS
<1>2. I \in SUBSET (DOMAIN s) /\ I \in SUBSET Nat
  BY <1>1
<1>3. PICK u : u = Unique(s)
  OBVIOUS
<1>4. PICK n : n = Cardinality(I)
  OBVIOUS
<1>5. IsFiniteSet(I) /\ u \in Seq(Songs) /\ DOMAIN u = 1..n /\ n \in Nat
  <2>1. u = EntriesAt(s, I)
    BY <1>1, <1>3 DEF Unique
  <2> QED
    BY <1>2, <1>4, <2>1, AtPositions
<1>6. \A k \in 1..n : u[k] = s[NthIn(I, k)]
  BY <1>1, <1>3, <1>4 DEF Unique, EntriesAt
<1>7. /\ \A k \in 1..n : NthIn(I, k) \in I
      /\ \A j, k \in 1..n : j < k => NthIn(I, j) < NthIn(I, k)
  BY <1>2, <1>4, <1>5, Positions
<1>8. ASSUME NEW j \in 1..n, NEW k \in 1..n, j < k PROVE u[j] # u[k]
  <2>1. PICK a \in I, b \in I : a = NthIn(I, j) /\ b = NthIn(I, k)
    BY <1>7
  <2>2. a < b /\ ~Repeated(s, b) /\ a \in Nat /\ b \in Nat /\ a >= 1
    BY <1>1, <1>2, <1>7, <1>8, <2>1
  <2>3. a \in 1..(b - 1)
    BY <2>2
  <2>4. s[a] # s[b]
    BY <2>2, <2>3 DEF Repeated
  <2> QED
    BY <1>6, <2>1, <2>4
<1>9. Distinct(u)
  <2>1. SUFFICES ASSUME NEW j \in 1..n, NEW k \in 1..n, u[j] = u[k] PROVE j = k
    BY <1>5 DEF Distinct
  <2>2. j \in Nat /\ k \in Nat
    BY <1>5
  <2>3. ~(j < k) /\ ~(k < j)
    BY <1>8, <2>1
  <2> QED
    BY <2>2, <2>3
<1>10. Unique(u) = u
  BY <1>5, <1>9, DistinctUnique
<1> QED
  BY <1>3, <1>5, <1>9, <1>10

(* What the invariant of a shuffle or sort says of the songs.              *)
KeptIn(l, w, s) == \E n \in DOMAIN w.old : l[n] # NoList /\ SameSongs(l[n], s)
ReorderEnds(l, w, p, s) ==
  w.result = "ok" => /\ \A n \in DOMAIN w.old \ {p} : l[n] = NoList
                     /\ w.op = "sort" => l[p] = Sorted(s)

(* The invariant of shuffling and sorting says that the songs are kept.    *)
LEMMA ReorderKeeps ==
  ASSUME NEW w, NEW p, NEW x, NEW y, w.arg = p, x = Tmp(w.nr), y = Bak(w.nr), DOMAIN w.old = {p, x, y},
         NEW s \in Seq(Songs), w.old[p] = s, NEW l \in Stored, NEW r, ReorderInv(w, l[p], l[x], l[y], r),
         w.op \in {"shuffle", "sort"}
  PROVE  KeptIn(l, w, s) /\ ReorderEnds(l, w, p, s)
<1>1. SameSongs(s, s) /\ s # NoList
  BY Kinds, SortedShuffled, ShuffledSame
<1>2. \A b \in Reorderings(s) : SameSongs(b, s)
  BY ShuffledSame
<1>3. ASSUME NEW n \in {p, x, y}, l[n] # NoList, l[n] = s \/ l[n] \in Reorderings(s) PROVE KeptIn(l, w, s)
  BY <1>1, <1>2, <1>3 DEF KeptIn
<1>4. CASE w.result = "none"
  <2>1. Reordering(w, l[p], l[x], l[y], r, w.op, s, <<>>)
    BY <1>4 DEF ReorderInv
  <2>2. l[p] = s \/ l[y] = s
    BY <2>1 DEF Reordering
  <2>3. KeptIn(l, w, s)
    BY <1>1, <1>3, <2>2
  <2> QED
    BY <1>4, <2>3 DEF ReorderEnds
<1>5. CASE w.result = "ok"
  <2>1. l[p] # NoList /\ Reordered(l[p], s, w.op) /\ l[x] = NoList /\ l[y] = NoList
    BY <1>5 DEF ReorderInv
  <2>2. KeptIn(l, w, s)
    BY <1>3, <2>1 DEF Reordered
  <2>3. w.op = "sort" => l[p] = Sorted(s)
    BY <2>1 DEF Reordered
  <2>4. \A n \in DOMAIN w.old \ {p} : l[n] = NoList
    BY <2>1
  <2> QED
    BY <2>2, <2>3, <2>4 DEF ReorderEnds
<1>6. CASE w.result = "failed"
  <2>1. GivenUp(w, l[p], l[x], l[y], s)
    BY <1>6 DEF ReorderInv
  <2>2. \E n \in {p, x, y} : l[n] # NoList /\ (l[n] = s \/ l[n] \in Reorderings(s))
    BY <1>1, <2>1 DEF GivenUp
  <2>3. KeptIn(l, w, s)
    BY <1>3, <2>2
  <2> QED
    BY <1>6, <2>3 DEF ReorderEnds
<1>7. w.result = "none" \/ w.result = "ok" \/ w.result = "failed"
  BY DEF ReorderInv
<1> QED
  BY <1>4, <1>5, <1>6, <1>7

(* What those of the other jobs say.                                       *)
DedupKept(now, s) == Valid(Unique(now)) = Valid(Unique(s))

(* The invariant of playlist_dedup says that the songs are kept.           *)
LEMMA DedupKeeps ==
  ASSUME NEW w, NEW s \in Seq(Songs), w.old[w.arg] = s, NEW now, NEW r, DedupInv(w, now, r)
  PROVE  DedupKept(now, s) /\ (w.result = "ok" => now = Unique(s))
<1>1. Unique(now) = Unique(s)
  BY UniqueTwice DEF DedupInv, DedupReading, Deduping
<1>2. w.result = "ok" => now = Unique(s)
  BY DEF DedupInv, DedupReading, Deduping
<1> QED
  BY <1>1, <1>2 DEF DedupKept

(* The invariant of playlist_validate says that the known songs are kept.  *)
LEMMA ValidKeeps ==
  ASSUME NEW w, NEW s \in Seq(Songs), w.old[w.arg] = s, NEW now, NEW r, ValidInv(w, now, r)
  PROVE  Valid(now) = Valid(s) /\ (w.result = "ok" => now = Valid(s))
<1>1. Valid(now) = Valid(s)
  BY Filtered DEF ValidInv, ValidReading, Checking
<1>2. w.result = "ok" => now = Valid(s)
  BY DEF ValidInv, ValidReading, Checking
<1> QED
  BY <1>1, <1>2

(* The invariant of playlist_validate_dedup says that the known songs are  *)
(* kept.                                                                   *)
LEMMA ValidDedupKeeps ==
  ASSUME NEW w, NEW s \in Seq(Songs), w.old[w.arg] = s, NEW now \in Seq(Songs) \cup {NoList}, NEW r, ValidDedupInv(w, now, r)
  PROVE  DedupKept(now, s) /\ (w.result = "ok" => now = Unique(Valid(s)))
<1>1. w.result = "ok" => now = Unique(Valid(s))
  BY DEF ValidDedupInv, ValidReading, Checking, DedupReading, Deduping
<1>2. PICK v \in Seq(Songs) : v = Valid(s)
  BY Filtered
<1>3. Valid(Unique(s)) = Unique(v) /\ Valid(v) = v
  BY <1>2, Filtered
<1>4. Valid(Unique(v)) = Unique(v)
  BY <1>2, <1>3, Filtered
<1>5. CASE now = s
  BY <1>1, <1>5 DEF DedupKept
<1>6. CASE now # NoList /\ Valid(now) = v
  <2>1. now \in Seq(Songs)
    BY <1>6
  <2>2. Valid(Unique(now)) = Unique(Valid(now))
    BY <2>1, Filtered
  <2> QED
    BY <1>1, <1>2, <1>3, <1>6, <2>2 DEF DedupKept
<1>7. CASE Unique(now) = Unique(v)
  BY <1>1, <1>2, <1>3, <1>4, <1>7 DEF DedupKept
<1>8. CASE Valid(Unique(now)) = Valid(Unique(s))
  BY <1>1, <1>8 DEF DedupKept
<1>9. Unique(Unique(v)) = Unique(v)
  BY UniqueTwice
<1>10. \/ now = s \/ (now # NoList /\ Valid(now) = v) \/ Unique(now) = Unique(v) \/ Valid(Unique(now)) = Valid(Unique(s))
  BY <1>2, <1>9 DEF ValidDedupInv, ValidReading, Checking, DedupReading, Deduping
<1> QED
  BY <1>1, <1>5, <1>6, <1>7, <1>8, <1>10

(* The jobs keep the songs.                                                *)
LEMMA JobsKeep == PlistInv => JobsKeepSongs
<1> SUFFICES ASSUME PlistInv PROVE JobsKeepSongs
  OBVIOUS
<1>1. PICK w : w = work["worker"]
  OBVIOUS
<1>2. PICK p, old, now : p = w.arg /\ old = w.old[p] /\ now = lists[p]
  OBVIOUS
<1>3. PICK x, y : x = Tmp(w.nr) /\ y = Bak(w.nr)
  OBVIOUS
<1>4. /\ lists \in Stored /\ JobOK(w, jobs) /\ JobInv(w, now, lists[x], lists[y], ranges)
  BY <1>1, <1>2, <1>3, InvParts DEF Shape, WorkerOf
<1>5. /\ \A n \in DOMAIN w.old : n \in PlistNames /\ w.old[n] \in Seq(Songs) \cup {NoList}
      /\ w.op \in {"shuffle", "sort"} => DOMAIN w.old = {p, x, y}
  BY <1>2, <1>3, <1>4 DEF JobOK, WorkOK
<1>6. SUFFICES ASSUME w.alone, p \in DOMAIN w.old, old # NoList
               PROVE  /\ w.op \in {"shuffle", "sort"} =>
                           /\ \E n \in DOMAIN w.old : Exists(n) /\ SameSongs(lists[n], old)
                           /\ w.result = "ok" => /\ \A n \in DOMAIN w.old \ {p} : ~Exists(n)
                                                 /\ w.op = "sort" => now = Sorted(old)
                      /\ w.op \in {"dedup", "validate_dedup"} => Valid(Unique(now)) = Valid(Unique(old)) \/ w.blind
                      /\ w.op = "dedup" /\ w.result = "ok" => now = Unique(old)
                      /\ w.op = "validate" /\ ~w.blind => /\ Valid(now) = Valid(old)
                                                          /\ w.result = "ok" => now = Valid(old)
                      /\ w.op = "validate_dedup" /\ w.result = "ok" /\ ~w.blind => now = Unique(Valid(old))
  BY <1>1, <1>2 DEF JobsKeepSongs
<1>7. old \in Seq(Songs) /\ now \in Seq(Songs) \cup {NoList}
  BY <1>2, <1>4, <1>5, <1>6 DEF Stored
<1>8. ASSUME w.op \in {"shuffle", "sort"}
      PROVE  /\ \E n \in DOMAIN w.old : Exists(n) /\ SameSongs(lists[n], old)
             /\ w.result = "ok" => /\ \A n \in DOMAIN w.old \ {p} : ~Exists(n)
                                   /\ w.op = "sort" => now = Sorted(old)
  <2>1. ReorderInv(w, lists[p], lists[x], lists[y], ranges)
    BY <1>2, <1>4, <1>6, <1>8 DEF JobInv
  <2>2. KeptIn(lists, w, old) /\ ReorderEnds(lists, w, p, old)
    BY <1>2, <1>3, <1>4, <1>5, <1>7, <1>8, <2>1, ReorderKeeps
  <2> QED
    BY <1>2, <2>2 DEF KeptIn, ReorderEnds, Exists
<1>9. ASSUME w.op = "dedup" PROVE Valid(Unique(now)) = Valid(Unique(old)) /\ (w.result = "ok" => now = Unique(old))
  <2>1. DedupInv(w, now, ranges)
    BY <1>2, <1>4, <1>6, <1>9 DEF JobInv
  <2>2. DedupKept(now, old) /\ (w.result = "ok" => now = Unique(old))
    BY <1>2, <1>7, <2>1, DedupKeeps
  <2> QED
    BY <2>2 DEF DedupKept
<1>10. ASSUME w.op = "validate", ~w.blind PROVE Valid(now) = Valid(old) /\ (w.result = "ok" => now = Valid(old))
  <2>1. ValidInv(w, now, ranges)
    BY <1>2, <1>4, <1>6, <1>10 DEF JobInv
  <2> QED
    BY <1>2, <1>7, <2>1, ValidKeeps
<1>11. ASSUME w.op = "validate_dedup", ~w.blind
       PROVE  Valid(Unique(now)) = Valid(Unique(old)) /\ (w.result = "ok" => now = Unique(Valid(old)))
  <2>1. ValidDedupInv(w, now, ranges)
    BY <1>2, <1>4, <1>6, <1>11 DEF JobInv
  <2>2. DedupKept(now, old) /\ (w.result = "ok" => now = Unique(Valid(old)))
    BY <1>2, <1>7, <2>1, ValidDedupKeeps
  <2> QED
    BY <2>2 DEF DedupKept
<1>12. w.blind \in BOOLEAN
  BY <1>4 DEF JobOK, WorkOK
<1> QED
  BY <1>8, <1>9, <1>10, <1>11, <1>12

(* An updated playlist is what its definition says.                        *)
LEMMA UpdatesRight == PlistInv => Updated
<1> SUFFICES ASSUME PlistInv PROVE Updated
  OBVIOUS
<1>1. PICK w : w = work["worker"]
  OBVIOUS
<1>2. PICK d, n, now : d = w.def /\ n = Cardinality(KnownSongs) /\ now = lists[w.arg]
  OBVIOUS
<1>3. lists \in Stored /\ JobOK(w, jobs) /\ JobInv(w, now, lists[Tmp(w.nr)], lists[Bak(w.nr)], ranges)
  BY <1>1, <1>2, InvParts DEF Shape, WorkerOf
<1>4. SUFFICES ASSUME w.op = "update", w.alone, ~w.blind, w.result = "ok"
               PROVE  \/ (d.kind = "sticker" \/ KnownSongs = {}) /\ now = NoList
                      \/ /\ now = Unique(now) /\ Len(now) = IF d.max = 0 \/ d.max > n THEN n ELSE d.max
                         /\ d.sort = "tag" => now = Upto(Sorted(DbOrder(KnownSongs)), Len(now))
  BY <1>1, <1>2 DEF Updated
<1>5. UpdateInv(w, now, lists[Tmp(w.nr)], lists[Bak(w.nr)], ranges)
  BY <1>3, <1>4 DEF JobInv
<1>6. Wanted(w, now)
  BY <1>4, <1>5 DEF UpdateInv
<1>7. now \in Seq(Songs) \cup {NoList}
  <2>1. w.arg \in Plists
    BY <1>3, <1>4 DEF JobOK
  <2>2. w.arg \in PlistNames
    BY <2>1, Names
  <2> QED
    BY <1>2, <1>3, <2>2 DEF Stored
<1>8. CASE Missing(w, now)
  BY <1>2, <1>8 DEF Missing
<1>9. CASE Uncut(w, now) /\ Len(now) = (IF d.max = 0 \/ d.max > n THEN n ELSE d.max)
  <2>1. now # NoList /\ Distinct(now) /\ (d.sort = "tag" => now = Upto(DbSorted, Len(now)))
    BY <1>2, <1>9 DEF Uncut
  <2>2. now \in Seq(Songs)
    BY <1>7, <2>1
  <2>3. Unique(now) = now
    BY <2>1, <2>2, DistinctUnique
  <2> QED
    BY <1>9, <2>1, <2>3 DEF DbSorted
<1>10. Missing(w, now) \/ (Uncut(w, now) /\ Len(now) = (IF d.max = 0 \/ d.max > n THEN n ELSE d.max))
  BY <1>2, <1>6 DEF Wanted
<1> QED
  BY <1>8, <1>9, <1>10

(* Playlists that are moved or renamed keep the songs.                     *)
LEMMA CopyHolds ==
  ASSUME NEW w, EditOK(w), Moving(w) \/ w.op = "append", NEW l \in Stored, NEW r, CopyInv(w, l, r)
  PROVE  AllHeld(w, l)
<1>1. CASE Unchanged(w, l)
  <2>1. WorkOK(w)
    BY DEF EditOK
  <2> QED
    BY <1>1, <2>1, OldLists
<1>2. CASE PuttingOn(w, l)
  <2>1. /\ \A n \in DOMAIN w.old \ {Target(w)} : l[n] = w.old[n]
        /\ ToSet(Content(w.old[Target(w)])) \subseteq ToSet(Content(l[Target(w)]))
    BY <1>2 DEF PuttingOn, Gathered
  <2> QED
    BY <2>1, HeldInSources
<1>3. CASE Gathered(w, l, <<>>)
  BY <1>3, HeldInTarget
<1>4. CASE AllHeld(w, l)
  BY <1>4
<1> QED
  BY <1>1, <1>2, <1>3, <1>4 DEF CopyInv, DeletingOn

(* The invariant of moving songs says that none is lost.                   *)
LEMMA ShiftHolds ==
  ASSUME NEW w, EditOK(w), NEW l \in Stored, NEW r, ShiftInv(w, l, r)
  PROVE  AllHeld(w, l)
<1>1. Unchanged(w, l) \/ AllHeld(w, l)
  BY DEF ShiftInv
<1>2. WorkOK(w)
  BY DEF EditOK
<1> QED
  BY <1>1, <1>2, OldLists

(* A finished copy holds the sources behind what the target held.          *)
LEMMA CopyAppends ==
  ASSUME NEW w, EditOK(w), w.op \in {"append", "move_append"}, NEW l \in Stored, NEW r, CopyInv(w, l, r), w.result = "ok"
  PROVE  Content(l[Target(w)]) = Content(w.old[Target(w)]) \o Joined(w.old, Sources(w))
<1>1. Gathered(w, l, <<>>)
  BY DEF CopyInv
<1>2. PICK now : now = Content(l[Target(w)])
  OBVIOUS
<1>3. now \o <<>> = Content(w.old[Target(w)]) \o Joined(w.old, Sources(w))
  BY <1>1, <1>2 DEF Gathered
<1>4. now \in Seq(Songs)
  <2>1. Target(w) \in Plists
    BY DEF EditOK
  <2>2. l[Target(w)] \in Seq(Songs) \cup {NoList}
    BY <2>1, Names DEF Stored
  <2>3. <<>> \in Seq(Songs)
    OBVIOUS
  <2> QED
    BY <1>2, <2>2, <2>3 DEF Content
<1>5. now \o <<>> = now
  BY <1>4
<1> QED
  BY <1>2, <1>3, <1>5

(* The invariant of a rename says that the list is under one of the names. *)
LEMMA RenameKeeps ==
  ASSUME NEW w, EditOK(w), w.op = "rename", NEW l, RenameInv(w, l)
  PROVE  \/ l[w.arg[1]] = w.old[w.arg[1]] /\ l[w.arg[2]] = w.old[w.arg[2]]
         \/ l[w.arg[1]] = NoList /\ l[w.arg[2]] = w.old[w.arg[1]]
<1>1. PICK src, dst : src = w.arg[1] /\ dst = w.arg[2]
  OBVIOUS
<1>2. DOMAIN w.old = {src, dst}
  BY <1>1 DEF EditOK
<1>3. Unchanged(w, l) \/ (l[src] = NoList /\ l[dst] = w.old[src])
  BY <1>1 DEF RenameInv
<1>4. Unchanged(w, l) => l[src] = w.old[src] /\ l[dst] = w.old[dst]
  BY <1>2 DEF Unchanged
<1> QED
  BY <1>1, <1>3, <1>4

(* The invariants of the commands imply MovesKeepSongs.                    *)
LEMMA MovesKeep == PlistInv => MovesKeepSongs
<1> SUFFICES ASSUME PlistInv PROVE MovesKeepSongs
  OBVIOUS
<1>1. PICK w : w = work["api"]
  OBVIOUS
<1>2. lists \in Stored /\ EditOK(w) /\ EditInv(w, lists, ranges)
  BY <1>1, InvParts DEF Shape
<1>3. ASSUME w.alone, w.op \in {"move_append", "move_insert", "move_songs"}, Target(w) \notin ToSet(Sources(w))
      PROVE  AllHeld(w, lists)
  <2>1. CASE w.op = "move_songs"
    BY <1>2, <1>3, <2>1, ShiftHolds DEF EditInv
  <2>2. CASE Moving(w)
    BY <1>2, <1>3, <2>2, CopyHolds DEF EditInv
  <2> QED
    BY <1>3, <2>1, <2>2 DEF Moving
<1>4. ASSUME w.alone, w.op \in {"append", "move_append"}, Target(w) \notin ToSet(Sources(w)), w.result = "ok"
      PROVE  Content(lists[Target(w)]) = Content(w.old[Target(w)]) \o Joined(w.old, Sources(w))
  <2>1. CopyInv(w, lists, ranges)
    BY <1>2, <1>4 DEF EditInv, Moving
  <2> QED
    BY <1>2, <1>4, <2>1, CopyAppends
<1>5. ASSUME w.alone, w.op = "rename", w.old[w.arg[1]] # NoList
      PROVE  \/ lists[w.arg[1]] = w.old[w.arg[1]] /\ lists[w.arg[2]] = w.old[w.arg[2]]
             \/ lists[w.arg[1]] = NoList /\ lists[w.arg[2]] = w.old[w.arg[1]]
  <2>1. RenameInv(w, lists)
    BY <1>2, <1>5 DEF EditInv
  <2> QED
    BY <1>2, <1>5, <2>1, RenameKeeps
<1>6. PICK src, dst, before : src = w.arg[1] /\ dst = w.arg[2] /\ before = w.old
  OBVIOUS
<1>7. ASSUME w.alone, w.op \in {"move_append", "move_insert", "move_songs"}, dst \notin ToSet(src),
             NEW x \in Songs, \E n \in DOMAIN w.old : before[n] # NoList /\ x \in ToSet(before[n])
      PROVE  \E n \in DOMAIN w.old : lists[n] # NoList /\ x \in ToSet(lists[n])
  BY <1>3, <1>6, <1>7 DEF AllHeld, Holds, Sources, Target
<1>8. ASSUME w.alone, w.op \in {"append", "move_append"}, dst \notin ToSet(src), w.result = "ok"
      PROVE  Content(lists[dst]) = Content(before[dst]) \o Joined(before, src)
  BY <1>4, <1>6, <1>8 DEF Sources, Target
<1>9. ASSUME w.alone, w.op = "rename", before[src] # NoList
      PROVE  \/ lists[src] = before[src] /\ lists[dst] = before[dst]
             \/ lists[src] = NoList /\ lists[dst] = before[src]
  BY <1>5, <1>6, <1>9
<1> QED
  BY <1>1, <1>6, <1>7, <1>8, <1>9 DEF MovesKeepSongs

(* Every step keeps the invariant.                                         *)
LEMMA PlistStays ==
  ASSUME PlistInv, [PlistNext]_plistVars
  PROVE  PlistInv'
<1>1. ASSUME NEW t \in {"api", "worker"}, Exchange(t) PROVE PlistInv'
  BY <1>1, ExchangeStep
<1>2. ASSUME NEW op \in {"shuffle", "sort", "dedup", "validate", "validate_dedup", "update"}, NEW p \in Plists,
             NEW feat \in BOOLEAN, JobStart(op, p, feat)
      PROVE  PlistInv'
  <2>1. op \in JobOps
    BY DEF JobOps
  <2> QED
    BY <1>2, <2>1, JobStarts
<1>3. ASSUME NEW feat \in BOOLEAN, NEW skip \in BOOLEAN, AllNext(feat, skip) PROVE PlistInv'
  BY <1>3, AllGoesOn
<1>4. ASSUME NEW p \in Plists, NEW song \in EditSongs, Edit(p, song, 1, 2) PROVE PlistInv'
  BY <1>4, Edits
<1>5. ASSUME NEW p \in Plists, NEW q \in Plists, MoveSongs(p, q) PROVE PlistInv'
  BY <1>5, SongsMove
<1>6. ASSUME NEW p \in Plists, NEW q \in Plists, Rename(p, q) PROVE PlistInv'
  BY <1>6, Renames
<1>7. ASSUME NEW p \in Plists, NEW d \in Defs, SmartSave(p, d) PROVE PlistInv'
  BY <1>7, Saves
<1>8. ASSUME NEW op \in DOMAIN Each, NEW new, AllStart(op, new) PROVE PlistInv'
  BY <1>8, AllStarts
<1>9. ASSUME RemoveDefinition PROVE PlistInv'
  BY <1>9, DefinitionGoes
<1>10. ASSUME NEW world \in PlistWorlds, PlistBefore(world) PROVE PlistInv'
  BY <1>10, Found0
<1>11. ASSUME NEW srcs \in {SetToSeq(S) : S \in (SUBSET Plists) \ {{}}}, NEW dst \in Plists,
              NEW mode \in {"append", "insert", "replace", "move_append", "move_insert"}, Copy(srcs, dst, mode)
       PROVE  PlistInv'
  <2>1. PICK S \in SUBSET Plists : S # {} /\ srcs = SetToSeq(S)
    BY <1>11
  <2>2. CopyMode(mode)
    BY <1>11 DEF CopyMode
  <2> QED
    BY <1>11, <2>1, <2>2, Copies
<1>12. ASSUME NEW S \in SUBSET Plists, Delete(S) PROVE PlistInv'
  BY <1>12, Deletes
<1>13. ASSUME NEW criteria, DeleteAll(criteria) PROVE PlistInv'
  BY <1>13, Deletes
<1>14. ASSUME UNCHANGED plistVars PROVE PlistInv'
  <2>1. lists' = lists /\ ranges' = ranges /\ defs' = defs /\ work' = work /\ edits' = edits /\ jobs' = jobs
    BY <1>14 DEF plistVars
  <2> QED
    BY <2>1, InvParts
<1>15. ASSUME NEW p \in Plists, NEW feat \in BOOLEAN,
              \/ \E op \in {"shuffle", "sort", "dedup", "validate", "validate_dedup", "update"} : JobStart(op, p, feat)
              \/ \E skip \in BOOLEAN : AllNext(feat, skip)
              \/ \E song \in EditSongs : Edit(p, song, 1, 2)
              \/ \E q \in Plists : MoveSongs(p, q) \/ Rename(p, q)
              \/ \E d \in Defs : SmartSave(p, d)
       PROVE  PlistInv'
  BY <1>15, <1>2, <1>3, <1>4, <1>5, <1>6, <1>7
<1>16. CASE PlistNext
  BY <1>16, <1>1, <1>8, <1>9, <1>10, <1>11, <1>12, <1>13, <1>15, ZenonT(60) DEF PlistNext
<1> QED
  BY <1>14, <1>16

(* The inductive invariant of the playlists: the exchanges that a thread has *)
(* left fit to what it has read and to what MPD has stored.                  *)
THEOREM PlaylistsInvariant == PlaylistsSpec => []PlistInv
<1>1. PlistInit => PlistInv
  BY PlistBegins
<1>2. PlistInv /\ [PlistNext]_plistVars => PlistInv'
  BY PlistStays
<1> QED
  BY <1>1, <1>2, PTL DEF PlaylistsSpec

(* Neither the jobs of the worker thread nor the commands of the clients lose *)
(* the songs of a playlist that nobody else changes, whatever MPD answers and *)
(* wherever the connection breaks, for any playlists, songs and batch sizes.  *)
THEOREM PlaylistsKeepSongs == PlaylistsSpec => []SongsKept
<1>1. PlistInv => SongsKept
  BY JobsKeep, MovesKeep DEF SongsKept
<1> QED
  BY <1>1, PlaylistsInvariant, PTL

(* A smart playlist that was updated has what its definition says, for every *)
(* definition.                                                               *)
THEOREM PlaylistsUpdated == PlaylistsSpec => []Updated
<1> QED
  BY UpdatesRight, PlaylistsInvariant, PTL
=============================================================================
