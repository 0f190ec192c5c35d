-------------------------- MODULE PlaylistJobsProofs ---------------------------
(***************************************************************************)
(* The playlists: the inductive invariant PlistInv of PlaylistsProofs and  *)
(* the exchanges of the worker under it.  PlistInv says for each program   *)
(* of exchanges where in it the thread can be, and what the lists of MPD   *)
(* and the buffer are there.                                               *)
(*                                                                         *)
(* The parts: the inductive invariant; MPD's answers to commands and the   *)
(* outcomes of an exchange; the jobs, stage by stage; the type of the work *)
(* and the exchanges of a job.                                             *)
(***************************************************************************)
EXTENDS Playlists, OrderedProofs

-----------------------------------------------------------------------------
(* The inductive invariant: where in its program a thread can be.          *)

(* What follows a job: the next playlist, when the job is for all of them. *)
Rest(w) == IF w.all = "none" THEN <<>> ELSE <<Do("next", "", "")>>

(* The list is the old one in the order the job is to bring about.         *)
Reordered(y, x, how) == y \in Reorderings(x) /\ (how = "sort" => y = Sorted(x))

(* The worker read a list: the songs of 'read' and the first pos songs of  *)
(* s are in the buffer. Without ranges it may give up: the list is longer  *)
(* than one answer.                                                        *)
Reading(w, r, read, s) ==
  \/ w.start = 0 /\ w.pos = 0 /\ w.buf = read
  \/ r /\ w.pos = w.start /\ w.pos <= Len(s) /\ w.buf = read \o SubSeq(s, 1, w.pos)
  \/ ~r /\ w.pos >= w.start /\ Len(s) >= ResultsMax

(* Nothing was read yet, or everything read was used.                      *)
Fresh(w) == w.start = 0 /\ w.pos = 0 /\ w.buf = <<>>

\* the exchanges of Reorder that are left
Dropping(w, p, rest)  == <<Do("rm", Bak(w.nr), "")>> \o rest
Naming(w, p, rest)    == <<Do("rename", Tmp(w.nr), p)>> \o Dropping(w, p, rest)
Saving(w, p, rest)    == <<Do("rename", p, Bak(w.nr))>> \o Naming(w, p, rest)
Filling(w, p, rest)   == <<Do("fill", Tmp(w.nr), "")>> \o Saving(w, p, rest)

(* Where playlist_shuffle_sort is: reads the list, fills the new one,      *)
(* saves the old one under the backup's name, names the new one, drops the *)
(* backup. The list is complete under one of the names in every stage.     *)
Reordering(w, now, new, bak, r, how, s, rest) ==
  LET p == w.arg IN
  \/ /\ w.program = <<Do("read", p, how)>> \o Filling(w, p, rest) /\ Reading(w, r, <<>>, s)
     /\ now = s /\ new = NoList /\ bak = NoList
  \/ /\ w.program = Filling(w, p, rest) /\ w.start = 0
     /\ now = s /\ bak = NoList /\ Reordered(Content(new) \o w.buf, s, how)
  \/ /\ w.program = Saving(w, p, rest) /\ Fresh(w)
     /\ now = s /\ bak = NoList /\ Reordered(Content(new), s, how)
  \/ /\ w.program = Naming(w, p, rest) /\ Fresh(w)
     /\ now = NoList /\ bak = s /\ Reordered(Content(new), s, how)
  \/ /\ w.program = Dropping(w, p, rest) /\ Fresh(w)
     /\ new = NoList /\ bak = s /\ now # NoList /\ Reordered(now, s, how)

(* Where it is after an error: the cleanup is left, or nothing is.         *)
GivenUp(w, now, new, bak, s) ==
  \/ w.program = <<Do("rm", Tmp(w.nr), "")>> /\ now = s
  \/ w.program = <<Do("rename", Bak(w.nr), w.arg)>> /\ bak = s /\ now = NoList
  \/ w.program = <<>> /\ \E l \in {now, new, bak} : l # NoList /\ l \in Reorderings(s)

(* The invariant of shuffling and sorting.                                 *)
ReorderInv(w, now, new, bak, r) ==
  LET p == w.arg
      s == w.old[p] IN
  \/ w.result = "none" /\ Reordering(w, now, new, bak, r, w.op, s, <<>>)
  \/ /\ w.result = "ok" /\ w.program = <<>>
     /\ now # NoList /\ Reordered(now, s, w.op) /\ new = NoList /\ bak = NoList
  \/ w.result = "failed" /\ GivenUp(w, now, new, bak, s)

(* Where playlist_dedup is.                                                *)
DedupReading(w, now, r, s) ==
  /\ w.result = "none" /\ w.program = <<Do("read", w.arg, "dedup")>> \o Rest(w)
  /\ now = s /\ Reading(w, r, <<>>, s)
Deduping(w, now, s) ==
  /\ w.result = "none" /\ w.program # <<>> /\ w.program = Removals(w.arg, now) \o Rest(w)
  /\ now # NoList /\ Unique(now) = Unique(s)

(* The invariant of playlist_dedup: the list comes down to the same list   *)
(* without duplicates.                                                     *)
DedupInv(w, now, r) ==
  LET s == w.old[w.arg] IN
  \/ DedupReading(w, now, r, s)
  \/ Deduping(w, now, s)
  \/ w.result = "ok" /\ w.program = <<>> /\ now = Unique(s)
  \/ w.result = "failed" /\ w.program = <<>> /\ now # NoList /\ Unique(now) = Unique(s)

(* Where playlist_validate is: it checks from the last song to the first.  *)
ValidReading(w, now, r, s, rest) ==
  /\ w.result = "none" /\ w.program = <<Do("read", w.arg, "validate")>> \o rest
  /\ now = s /\ Reading(w, r, <<>>, s)
KnownAfter(s, i) == \A j \in (i + 1)..Len(s) : s[j] \in KnownSongs
Checking(w, now, s, rest) ==
  /\ w.result = "none" /\ w.program # <<>> /\ Fresh(w) /\ now # NoList /\ Valid(now) = Valid(s)
  /\ \E i \in 0..Len(now) :
       /\ KnownAfter(now, i)
       /\ \/ w.program = Checks(w.arg, now, i) \o rest
          \/ /\ i > 0 /\ now[i] \notin KnownSongs
             /\ w.program = <<Do("del", w.arg, i)>> \o (Checks(w.arg, now, i - 1) \o rest)

(* The invariant of playlist_validate: the list comes down to the same     *)
(* known songs.                                                            *)
ValidInv(w, now, r) ==
  LET s == w.old[w.arg] IN
  \/ ValidReading(w, now, r, s, Rest(w)) \/ Checking(w, now, s, Rest(w))
  \/ w.result = "ok" /\ w.program = <<>> /\ now = Valid(s)
  \/ w.result = "failed" /\ w.program = <<>> /\ now # NoList /\ Valid(now) = Valid(s)

(* The invariant of playlist_validate_dedup: validated, then without       *)
(* duplicates.                                                             *)
ValidDedupInv(w, now, r) ==
  LET s == w.old[w.arg]
      rest == <<Do("read", w.arg, "dedup")>> \o Rest(w) IN
  \/ ValidReading(w, now, r, s, rest) \/ Checking(w, now, s, rest)
  \/ DedupReading(w, now, r, Valid(s)) \/ Deduping(w, now, Valid(s))
  \/ w.result = "ok" /\ w.program = <<>> /\ now = Unique(Valid(s))
  \/ w.result = "failed" /\ w.program = <<>> /\ now # NoList /\ Valid(Unique(now)) = Valid(Unique(s))

(* What smartpls_update does after the refill.                             *)
Sorting(w) ==
  LET d == w.def IN
  IF d.sort = "shuffle" THEN "shuffle" ELSE IF d.kind = "sticker" /\ d.sort = "tag" THEN "sort" ELSE "none"
Cropping(w) == (IF w.def.max > 0 THEN <<Do("crop", w.arg, w.def.max)>> ELSE <<>>) \o Rest(w)
AfterRefill(w) ==
  IF Sorting(w) = "none" THEN Cropping(w)
  ELSE <<Do("read", w.arg, Sorting(w))>> \o Filling(w, w.arg, Cropping(w))

(* A list that MPD never created, since nothing was added.                 *)
Missing(w, now) == (w.def.kind = "sticker" \/ KnownSongs = {}) /\ now = NoList
DbSorted == Sorted(DbOrder(KnownSongs))
Distinct(s) == \A i, j \in DOMAIN s : s[i] = s[j] => i = j

(* The list of an update, not yet cropped or cropped.                      *)
Uncut(w, now) ==
  LET d == w.def
      n == Cardinality(KnownSongs) IN
  /\ now # NoList /\ Distinct(now)
  /\ Len(now) = n \/ (d.max > 0 /\ d.max < n /\ Len(now) = d.max)
  /\ d.sort = "tag" => now = Upto(DbSorted, Len(now))

(* What the update is to bring about.                                      *)
Wanted(w, now) ==
  LET d == w.def
      n == Cardinality(KnownSongs) IN
  \/ Missing(w, now)
  \/ Uncut(w, now) /\ Len(now) = (IF d.max = 0 \/ d.max > n THEN n ELSE d.max)

(* Where smartpls_update is before the refill.                             *)
Refilling(w, now) ==
  LET p == w.arg
      d == w.def IN
  \/ \E feat \in BOOLEAN :
       \/ w.program = <<Do("rmif", p, "")>> \o (Refill(p, d, feat) \o AfterRefill(w))
       \/ now = NoList /\ w.program = Refill(p, d, feat) \o AfterRefill(w)
  \/ now = NoList /\ w.program = <<Do("search", p, d)>> \o AfterRefill(w)

(* The invariant of smartpls_update.                                       *)
UpdateInv(w, now, new, bak, r) ==
  LET p == w.arg
      d == w.def IN
  \/ /\ w.result = "none" /\ new = NoList /\ bak = NoList
     /\ \/ Fresh(w) /\ Refilling(w, now)
        \/ /\ w.program = <<Do("fill", p, "")>> \o AfterRefill(w)
           /\ w.start = 0 /\ Content(now) \o w.buf = Found(d)
        \/ Fresh(w) /\ w.program = AfterRefill(w) /\ (now = Found(d) \/ Missing(w, now)) /\ w.program # <<>>
        \/ Fresh(w) /\ w.program = Cropping(w) /\ (Uncut(w, now) \/ Missing(w, now)) /\ w.program # <<>>
        \/ Fresh(w) /\ w.program = Rest(w) /\ Wanted(w, now) /\ w.program # <<>>
  \/ w.result = "none" /\ Sorting(w) # "none" /\ Reordering(w, now, new, bak, r, Sorting(w), Found(d), Cropping(w))
  \/ w.result = "ok" /\ w.program = <<>> /\ Wanted(w, now)

(* What the worker's job promises while no other client and no other       *)
(* thread touched its playlists, no answer was lost, and the list existed. *)
JobInv(w, now, new, bak, r) ==
  w.alone =>
    /\ w.op \in {"shuffle", "sort"} /\ w.old[w.arg] # NoList => ReorderInv(w, now, new, bak, r)
    /\ w.op = "dedup" /\ w.old[w.arg] # NoList => DedupInv(w, now, r)
    /\ w.op = "validate" /\ w.old[w.arg] # NoList /\ ~w.blind => ValidInv(w, now, r)
    /\ w.op = "validate_dedup" /\ w.old[w.arg] # NoList /\ ~w.blind => ValidDedupInv(w, now, r)
    /\ w.op = "update" /\ ~w.blind /\ w.result # "failed" => UpdateInv(w, now, new, bak, r)

WorkerInv ==
  LET w == work["worker"] IN JobInv(w, lists[w.arg], lists[Tmp(w.nr)], lists[Bak(w.nr)], ranges)

(* What the commands of the api thread promise: no song is lost.           *)
Holds(l, names, x) == \E n \in names : l[n] # NoList /\ x \in ToSet(l[n])
AllHeld(w, l) == \A x \in Songs : Holds(w.old, DOMAIN w.old, x) => Holds(l, DOMAIN w.old, x)
Unchanged(w, l) == \A n \in DOMAIN w.old : l[n] = w.old[n]

(* The commands that copy or move: the playlists they read, and the one    *)
(* they write.                                                             *)
Sources(w) == w.arg[1]
Target(w)  == w.arg[2]
Moving(w)  == w.op \in {"move_append", "move_insert"}

(* What is left of the program of a copy.                                  *)
Reads(names, j) == [i \in 1..Len(names) - j |-> Do("read", names[i + j], "")]
Deleting(w) == IF Moving(w) THEN <<Do("delete", "", ToSet(Sources(w)))>> ELSE <<>>
Putting(w) == <<Do("put", Target(w), IF w.op = "move_insert" THEN "insert" ELSE "")>> \o Deleting(w)

\* what is in the target, and what is on its way
Gathered(w, l, coming) ==
  LET now == Content(l[Target(w)])
      before == Content(w.old[Target(w)])
      all == Joined(w.old, Sources(w)) IN
  /\ \A i \in DOMAIN Sources(w) : w.old[Sources(w)[i]] # NoList
  /\ ToSet(before) \subseteq ToSet(now) /\ ToSet(all) \subseteq ToSet(now) \cup ToSet(coming)
  /\ w.op # "move_insert" => now \o coming = before \o all

\* the sources are read, the first j of them are
ReadingAt(w, r, j) ==
  /\ w.program = Reads(Sources(w), j) \o Putting(w)
  /\ \A i \in 1..j : w.old[Sources(w)[i]] # NoList
  /\ Reading(w, r, Joined(w.old, SubSeq(Sources(w), 1, j)), w.old[Sources(w)[j + 1]])

\* what was read is put in the target
PuttingOn(w, l) ==
  /\ w.start = 0 /\ Gathered(w, l, w.buf)
  /\ \A n \in DOMAIN w.old \ {Target(w)} : l[n] = w.old[n]

\* the sources are removed
Drops(c, names) == c.do = "drop" /\ \A i \in 1..Len(c.b) : \E n \in names : c.b[i] = Do("rm", n, "")
DeletingOn(w, l) ==
  /\ Moving(w) /\ Gathered(w, l, <<>>)
  /\ \/ w.program = Deleting(w)
     \/ w.program = <<Head(w.program)>> /\ Drops(Head(w.program), ToSet(Sources(w)))

(* The invariant of copying and moving playlists.                          *)
CopyInv(w, l, r) ==
  \/ /\ w.result = "none" /\ Unchanged(w, l)
     /\ \E j \in 0..Len(Sources(w)) - 1 : ReadingAt(w, r, j)
  \/ w.result = "none" /\ w.program = Putting(w) /\ PuttingOn(w, l)
  \/ w.result = "none" /\ DeletingOn(w, l)
  \/ w.result = "ok" /\ w.program = <<>> /\ Gathered(w, l, <<>>)
  \/ w.result = "failed" /\ w.program = <<>> /\ AllHeld(w, l)

(* The invariant of moving songs: read, then added and deleted in one list *)
(* of commands.                                                            *)
ShiftInv(w, l, r) ==
  LET src == w.arg[1][1]
      s == w.old[src]
      shift == <<Do("shift", Target(w), src)>> IN
  \/ w.result = "none" /\ Unchanged(w, l) /\ w.program = <<Do("read", src, "")>> \o shift /\ Reading(w, r, <<>>, s)
  \/ w.result = "none" /\ Unchanged(w, l) /\ w.program = shift /\ w.buf = s
  \/ w.program = <<>> /\ AllHeld(w, l)

(* The invariant of a rename: one command.                                 *)
RenameInv(w, l) ==
  LET src == w.arg[1]
      dst == w.arg[2] IN
  \/ w.result = "none" /\ w.program = <<Do("rename", src, dst)>> /\ Unchanged(w, l)
  \/ w.program = <<>> /\ Unchanged(w, l)
  \/ w.program = <<>> /\ l[src] = NoList /\ l[dst] = w.old[src]

(* What the api thread's command promises while nobody else touched its    *)
(* playlists.                                                              *)
EditInv(w, l, r) ==
  w.alone =>
    /\ (Moving(w) \/ w.op = "append") /\ Target(w) \notin ToSet(Sources(w)) => CopyInv(w, l, r)
    /\ w.op = "move_songs" => ShiftInv(w, l, r)
    /\ w.op = "rename" /\ w.old[w.arg[1]] # NoList => RenameInv(w, l)
ApiInv == EditInv(work["api"], lists, ranges)

(* The names under which work may create a playlist.                       *)
Own(w) == Plists \cup {Tmp(w.nr), Bak(w.nr)}

(* The steps a program may have.                                           *)
StepOK(w, c) ==
  /\ c.do \in {"add", "insert", "fill", "put", "search", "shift"} => c.a \in Own(w)
  /\ c.do = "rename" => c.a \in PlistNames /\ c.b \in Own(w) /\ (c.a = Tmp(w.nr) => Bak(w.nr) \in PlistNames)
  /\ c.do = "read" => c.a \in PlistNames
  /\ c.do = "delete" => c.b \subseteq PlistNames
  /\ (c.do = "rmdef" => w.all = "update_all" /\ w.result = "failed") /\ (c.do = "next" => w.all # "none")
  /\ w.result = "failed" => c.do \in {"rm", "rename", "rmdef", "next"}
  /\ c.do = "insert" => c.b[2] \in Nat
  /\ c.do \in {"list", "drop"} => Len(c.b) \in Nat /\ \A i \in 1..Len(c.b) : c.b[i].do \in {"rm", "del"}
  /\ c.do \in {"search", "find"} => c.b \in DefKinds

(* Types: of the work of a thread, of the worker's job, of the api         *)
(* thread's command.                                                       *)
Fields == {"op", "all", "arg", "program", "buf", "start", "pos", "todo", "nr", "old", "def",
           "alone", "result", "blind"}
IsWork(w) == w = [f \in Fields |-> w[f]]
WorkOK(w) ==
  /\ IsWork(w)
  /\ w.buf \in Seq(Songs) /\ w.start \in Nat /\ w.pos \in Nat /\ w.alone \in BOOLEAN /\ w.blind \in BOOLEAN
  /\ w.program \in Seq(ToSet(w.program)) /\ \A i \in DOMAIN w.program : StepOK(w, w.program[i])
  /\ \A n \in DOMAIN w.old : n \in PlistNames /\ w.old[n] \in Seq(Songs) \cup {NoList}

(* A job is about the playlist it began with, under its own number.        *)
JobOK(w, j) ==
  /\ WorkOK(w) /\ w.todo \subseteq PlistNames
  /\ w.nr = <<>> \/ (w.nr = <<j, w.arg>> /\ w.arg \notin w.todo)
  /\ w.op \in {"shuffle", "sort", "dedup", "validate", "validate_dedup", "update"} =>
       w.arg \in DOMAIN w.old /\ w.nr = <<j, w.arg>>
  /\ w.op \in {"shuffle", "sort", "update"} => w.arg \in Plists /\ DOMAIN w.old = {w.arg, Tmp(w.nr), Bak(w.nr)}
  /\ w.op \in {"shuffle", "sort", "validate_dedup"} => w.all = "none"
  /\ w.op = "update" => w.def \in DefKinds /\ w.all \in {"none", "update_all"}
  /\ w.op \in {"dedup", "validate"} => w.all # "update_all"
  /\ w.all \in {"none", "dedup_all", "validate_all", "update_all"}

(* A command is about the playlists it began with.                         *)
EditOK(w) ==
  /\ WorkOK(w) /\ w.nr = <<>> /\ w.all = "none"
  /\ w.op \in {"append", "move_append", "move_insert", "insert", "replace"} =>
       Sources(w) \in Seq(Plists) /\ Target(w) \in Plists /\ DOMAIN w.old = ToSet(Sources(w)) \cup {Target(w)}
  /\ w.op = "move_songs" => w.arg[1][1] \in Plists /\ Target(w) \in Plists /\ w.arg[1][1] # Target(w)
                              /\ DOMAIN w.old = {w.arg[1][1], Target(w)} /\ Sources(w) = <<w.arg[1][1]>>
  /\ w.op = "rename" => w.arg[1] \in Plists /\ w.arg[2] \in Plists /\ w.arg[1] # w.arg[2] /\ DOMAIN w.old = {w.arg[1], w.arg[2]}

(* No list exists under the temporary names of jobs that did not begin     *)
(* yet.                                                                    *)
Unused ==
  LET w == work["worker"] IN
  \A n \in 1..PlistJobs, q \in Plists :
    n > jobs \/ (n = jobs /\ w.all = "update_all" /\ q \in w.todo) =>
      lists[Tmp(<<n, q>>)] = NoList /\ lists[Bak(<<n, q>>)] = NoList

(* The type of the state, and that the names of the lists fit the threads' *)
(* work.                                                                   *)
PlistShape ==
  /\ lists \in Stored /\ ranges \in BOOLEAN /\ defs \in [Plists -> DefKinds \cup {NoDef}]
  /\ DOMAIN work = {"api", "worker"} /\ edits \in Nat /\ jobs \in 0..PlistJobs
  /\ JobOK(work["worker"], jobs) /\ EditOK(work["api"]) /\ Unused
  /\ edits = 0 => work["api"] = Idle
  /\ jobs = 0 => work["worker"] = Idle

(* The names of the playlists that jobs create are their own.              *)
JobIds == (1..PlistJobs) \X Plists

-----------------------------------------------------------------------------
(* Names, MPD's answers, and the outcomes of an exchange.                  *)

(* The names that jobs create are no user's playlists, and no two jobs     *)
(* share one.                                                              *)
LEMMA Names ==
  /\ \A q \in Plists : q \in PlistNames
  /\ \A id \in JobIds : /\ Tmp(id) \in PlistNames /\ Bak(id) \in PlistNames
                        /\ Tmp(id) \notin Plists /\ Bak(id) \notin Plists
  /\ \A id, jd : Tmp(id) # Bak(jd) /\ (Tmp(id) = Tmp(jd) => id = jd) /\ (Bak(id) = Bak(jd) => id = jd)
<1>1. \A id, jd : Tmp(id) # Bak(jd) /\ (Tmp(id) = Tmp(jd) => id = jd) /\ (Bak(id) = Bak(jd) => id = jd)
  BY DEF Tmp, Bak
<1>2. \A id \in JobIds : Tmp(id) \notin Plists /\ Bak(id) \notin Plists
  BY PlistAssumption DEF PlistAssumption, JobIds
<1>3. \A id \in JobIds : Tmp(id) \in PlistNames /\ Bak(id) \in PlistNames
  BY DEF PlistNames, JobIds
<1>4. \A q \in Plists : q \in PlistNames
  BY DEF PlistNames
<1> QED
  BY <1>1, <1>2, <1>3, <1>4

(* What a song is, and that NoList is neither a playlist nor a state.      *)
LEMMA Kinds ==
  /\ NoList \notin Seq(Songs) /\ NoList \notin Stored /\ Songs \subseteq Nat /\ KnownSongs \subseteq Songs
  /\ ResultsMax \in Nat \ {0} /\ CommandsMax \in Nat \ {0} /\ IsFiniteSet(KnownSongs)
BY PlistAssumption DEF PlistAssumption, Songs

(* MPD stores playlists, whatever it is told.                              *)
Tellable(c) ==
  /\ c.do = "insert" => c.b[2] \in Nat
  /\ c.do = "rename" => c.a \in PlistNames

(* MPD answers a command with a state of its playlists, or refuses it.     *)
LEMMA MpdTyped ==
  ASSUME NEW l \in Stored, NEW c, Tellable(c)
  PROVE  MpdCommand(l, c) \in Stored \union {NoList}
<1> DEFINE p == c.a
           L == Seq(Songs) \union {NoList}
<1>1. l \in [PlistNames -> L]
  BY DEF Stored
<1>2. \A n, v : (n \in PlistNames => v \in L) => [l EXCEPT ![n] = v] \in Stored
  BY <1>1 DEF Stored
<1>3. NoList \in L /\ <<>> \in L /\ KnownSongs \subseteq Songs /\ (\A s \in Seq(Songs) : s \in L)
  BY Kinds
<1> HIDE DEF L
<1>4. \A n \in PlistNames : l[n] # NoList => l[n] \in Seq(Songs)
  BY <1>1 DEF L
<1>5. CASE c.do = "add" /\ c.b \in KnownSongs
  <2>1. MpdCommand(l, c) = [l EXCEPT ![p] = IF l[p] = NoList THEN <<c.b>> ELSE Append(l[p], c.b)]
    BY <1>5 DEF MpdCommand
  <2>2. p \in PlistNames => (IF l[p] = NoList THEN <<c.b>> ELSE Append(l[p], c.b)) \in Seq(Songs)
    BY <1>3, <1>4, <1>5
  <2>3. PICK v : MpdCommand(l, c) = [l EXCEPT ![p] = v] /\ (p \in PlistNames => v \in Seq(Songs))
    BY <2>1, <2>2
  <2>4. p \in PlistNames => v \in L
    BY <1>3, <2>3
  <2>5. [l EXCEPT ![p] = v] \in Stored
    BY <1>2, <2>4
  <2> QED
    BY <2>3, <2>5
<1>6. CASE c.do = "insert" /\ l[p] # NoList /\ c.b[1] \in KnownSongs /\ c.b[2] <= Len(l[p])
  <2>1. MpdCommand(l, c) = [l EXCEPT ![p] = InsertAt(l[p], c.b[2] + 1, c.b[1])]
    BY <1>6 DEF MpdCommand
  <2>2. ASSUME p \in PlistNames PROVE InsertAt(l[p], c.b[2] + 1, c.b[1]) \in Seq(Songs)
    <3>1. PICK s \in Seq(Songs) : s = l[p]
      BY <1>4, <1>6, <2>2
    <3>2. PICK i : i = c.b[2] + 1
      OBVIOUS
    <3>3. i \in 1..Len(s) + 1
      BY <1>6, <3>1, <3>2 DEF Tellable
    <3>4. PICK e \in Songs : e = c.b[1]
      BY <1>3, <1>6
    <3>5. InsertAt(s, i, e) \in Seq(Songs)
      BY <3>3, InsertedAt
    <3> QED
      BY <3>1, <3>2, <3>4, <3>5
  <2>3. PICK v : MpdCommand(l, c) = [l EXCEPT ![p] = v] /\ (p \in PlistNames => v \in Seq(Songs))
    BY <2>1, <2>2
  <2>4. p \in PlistNames => v \in L
    BY <1>3, <2>3
  <2>5. [l EXCEPT ![p] = v] \in Stored
    BY <1>2, <2>4
  <2> QED
    BY <2>3, <2>5
<1>7. CASE c.do = "del" /\ l[p] # NoList /\ c.b \in DOMAIN l[p]
  <2>1. MpdCommand(l, c) = [l EXCEPT ![p] = RemoveAt(l[p], c.b)]
    BY <1>7 DEF MpdCommand
  <2>2. ASSUME p \in PlistNames PROVE RemoveAt(l[p], c.b) \in Seq(Songs)
    BY <1>4, <1>7, <2>2, RemovedAt
  <2>3. PICK v : MpdCommand(l, c) = [l EXCEPT ![p] = v] /\ (p \in PlistNames => v \in Seq(Songs))
    BY <2>1, <2>2
  <2>4. p \in PlistNames => v \in L
    BY <1>3, <2>3
  <2>5. [l EXCEPT ![p] = v] \in Stored
    BY <1>2, <2>4
  <2> QED
    BY <2>3, <2>5
<1>8. CASE c.do = "delfrom" /\ l[p] # NoList /\ c.b \in DOMAIN l[p]
  <2>1. MpdCommand(l, c) = [l EXCEPT ![p] = Upto(l[p], c.b - 1)]
    BY <1>8 DEF MpdCommand
  <2>2. ASSUME p \in PlistNames PROVE Upto(l[p], c.b - 1) \in Seq(Songs)
    <3>1. PICK s \in Seq(Songs) : s = l[p]
      BY <1>4, <1>8, <2>2
    <3>2. c.b - 1 \in 0..Len(s)
      BY <1>8, <3>1
    <3> QED
      BY <3>1, <3>2 DEF Upto
  <2>3. PICK v : MpdCommand(l, c) = [l EXCEPT ![p] = v] /\ (p \in PlistNames => v \in Seq(Songs))
    BY <2>1, <2>2
  <2>4. p \in PlistNames => v \in L
    BY <1>3, <2>3
  <2>5. [l EXCEPT ![p] = v] \in Stored
    BY <1>2, <2>4
  <2> QED
    BY <2>3, <2>5
<1>9. CASE c.do = "move" /\ l[p] # NoList /\ {c.b[1], c.b[2]} \subseteq DOMAIN l[p]
  <2>1. MpdCommand(l, c) = [l EXCEPT ![p] = InsertAt(RemoveAt(l[p], c.b[1]), c.b[2], l[p][c.b[1]])]
    BY <1>9 DEF MpdCommand
  <2>2. ASSUME p \in PlistNames PROVE InsertAt(RemoveAt(l[p], c.b[1]), c.b[2], l[p][c.b[1]]) \in Seq(Songs)
    <3>1. PICK s \in Seq(Songs) : s = l[p]
      BY <1>4, <1>9, <2>2
    <3>2. PICK i, j : i = c.b[1] /\ j = c.b[2]
      OBVIOUS
    <3>3. i \in DOMAIN s /\ j \in DOMAIN s /\ s[i] \in Songs
      BY <1>9, <3>1, <3>2
    <3>4. PICK r : r = RemoveAt(s, i)
      OBVIOUS
    <3>5. r \in Seq(Songs) /\ j \in 1..Len(r) + 1
      BY <3>3, <3>4, RemovedAt
    <3>6. InsertAt(r, j, s[i]) \in Seq(Songs)
      BY <3>3, <3>5, InsertedAt
    <3> QED
      BY <3>1, <3>2, <3>4, <3>6
  <2>3. PICK v : MpdCommand(l, c) = [l EXCEPT ![p] = v] /\ (p \in PlistNames => v \in Seq(Songs))
    BY <2>1, <2>2
  <2>4. p \in PlistNames => v \in L
    BY <1>3, <2>3
  <2>5. [l EXCEPT ![p] = v] \in Stored
    BY <1>2, <2>4
  <2> QED
    BY <2>3, <2>5
<1>10. CASE c.do = "rename" /\ l[p] # NoList /\ l[c.b] = NoList
  <2>1. MpdCommand(l, c) = [l EXCEPT ![p] = NoList, ![c.b] = l[p]]
    BY <1>10 DEF MpdCommand
  <2>2. p \in PlistNames /\ l[p] \in L
    BY <1>1, <1>10 DEF Tellable
  <2> QED
    BY <1>1, <1>3, <2>1, <2>2 DEF Stored, L
<1>11. CASE c.do = "rm" /\ l[p] # NoList
  BY <1>2, <1>3, <1>11 DEF MpdCommand
<1>12. CASE c.do = "clear" /\ l[p] # NoList
  BY <1>2, <1>3, <1>12 DEF MpdCommand
<1>13. CASE ~(c.do = "add" /\ c.b \in KnownSongs)
            /\ ~(c.do = "insert" /\ l[p] # NoList /\ c.b[1] \in KnownSongs /\ c.b[2] <= Len(l[p]))
            /\ ~(c.do = "del" /\ l[p] # NoList /\ c.b \in DOMAIN l[p])
            /\ ~(c.do = "delfrom" /\ l[p] # NoList /\ c.b \in DOMAIN l[p])
            /\ ~(c.do = "move" /\ l[p] # NoList /\ {c.b[1], c.b[2]} \subseteq DOMAIN l[p])
            /\ ~(c.do = "rename" /\ l[p] # NoList /\ l[c.b] = NoList)
            /\ ~(c.do = "rm" /\ l[p] # NoList) /\ ~(c.do = "clear" /\ l[p] # NoList)
  BY <1>13 DEF MpdCommand
<1> QED
  BY <1>5, <1>6, <1>7, <1>8, <1>9, <1>10, <1>11, <1>12, <1>13

(* A command leaves the other playlists alone.                             *)
LEMMA MpdOthers ==
  ASSUME NEW l \in Stored, NEW c, Tellable(c), MpdCommand(l, c) # NoList, NEW n \in PlistNames
  PROVE  /\ n # c.a /\ ~(c.do = "rename" /\ n = c.b) => MpdCommand(l, c)[n] = l[n]
         /\ l[n] = NoList /\ MpdCommand(l, c)[n] # NoList =>
              (c.do = "add" /\ n = c.a) \/ (c.do = "rename" /\ n = c.b)
<1> DEFINE p == c.a
<1>1. l = [m \in PlistNames |-> l[m]]
  BY DEF Stored
<1>2. \A v : [l EXCEPT ![p] = v][n] = IF n = p THEN v ELSE l[n]
  BY <1>1
<1>3. CASE c.do = "rename"
  <2>1. MpdCommand(l, c) = [l EXCEPT ![p] = NoList, ![c.b] = l[p]]
    BY <1>3 DEF MpdCommand
  <2> QED
    BY <1>1, <1>3, <2>1
<1>4. CASE c.do = "add"
  <2>1. \E v : MpdCommand(l, c) = [l EXCEPT ![p] = v]
    BY <1>4 DEF MpdCommand
  <2> QED
    BY <1>2, <1>4, <2>1
<1>5. CASE c.do \notin {"rename", "add"}
  <2>1. l[p] # NoList /\ \E v : MpdCommand(l, c) = [l EXCEPT ![p] = v]
    <3>1. CASE c.do = "insert"
      BY <3>1 DEF MpdCommand
    <3>2. CASE c.do = "del"
      BY <3>2 DEF MpdCommand
    <3>3. CASE c.do = "delfrom"
      BY <3>3 DEF MpdCommand
    <3>4. CASE c.do = "move"
      BY <3>4 DEF MpdCommand
    <3>5. CASE c.do = "rm"
      BY <3>5 DEF MpdCommand
    <3>6. CASE c.do = "clear"
      BY <3>6 DEF MpdCommand
    <3>7. CASE c.do \notin {"insert", "del", "delfrom", "move", "rm", "clear"}
      BY <1>5, <3>7 DEF MpdCommand
    <3> QED
      BY <3>1, <3>2, <3>3, <3>4, <3>5, <3>6, <3>7
  <2> QED
    BY <1>2, <1>5, <2>1
<1> QED
  BY <1>3, <1>4, <1>5

(* What MPD has after each command of a list.                              *)
LEMMA MpdRuns ==
  ASSUME NEW l \in Stored, NEW cs, Len(cs) \in Nat, \A k \in 1..Len(cs) : Tellable(cs[k])
  PROVE  LET mpd == MpdCommands(l, cs) IN
         /\ mpd[0] = l
         /\ \A k \in 0..Len(cs) : mpd[k] \in Stored \union {NoList}
         /\ \A k \in 1..Len(cs) : mpd[k] = IF mpd[k - 1] = NoList THEN NoList ELSE MpdCommand(mpd[k - 1], cs[k])
<1> DEFINE N == Len(cs)
           S == Stored \union {NoList}
           Told(m, k) == IF m = NoList THEN NoList ELSE MpdCommand(m, cs[k])
           Body(f) == [k \in 0..N |-> IF k = 0 THEN l ELSE LET m == f[k - 1] IN IF m = NoList THEN NoList ELSE MpdCommand(m, cs[k])]
           step == [q \in (1..N) \X S |-> Told(q[2], q[1])]
<1>1. \A k \in 1..N, m \in S : Told(m, k) \in S
  BY MpdTyped
<1> HIDE DEF S, Told
<1>2. step \in [(1..N) \X S -> S] /\ \A k \in 1..N, m \in S : step[<<k, m>>] = Told(m, k)
  BY <1>1
<1>3. l \in S /\ N \in Nat
  BY DEF S
<1> HIDE DEF step, N
<1>4. PICK f : f \in [0..N -> S] /\ f[0] = l /\ \A n \in 1..N : f[n] = step[<<n, f[n - 1]>>]
  <2>1. PICK g : g = step
    OBVIOUS
  <2>2. g \in [(1..N) \X S -> S]
    BY <1>2, <2>1
  <2>3. PICK f : Recursive(N, S, l, g, f)
    BY <1>3, <2>2, Recursion
  <2> QED
    BY <2>1, <2>3 DEF Recursive
<1>5. \A k \in 1..N : f[k - 1] \in S /\ f[k] = Told(f[k - 1], k)
  <2>1. \A k \in 1..N : k - 1 \in 0..N
    BY <1>3
  <2>2. \A k \in 1..N : f[k - 1] \in S
    BY <1>4, <2>1
  <2> QED
    BY <1>2, <1>4, <2>2
<1>6. f = Body(f)
  <2>1. \A k \in 0..N : f[k] = IF k = 0 THEN l ELSE Told(f[k - 1], k)
    BY <1>3, <1>4, <1>5
  <2>2. f = [k \in 0..N |-> IF k = 0 THEN l ELSE Told(f[k - 1], k)]
    BY <1>4, <2>1
  <2> QED
    BY <2>2 DEF Told
<1>7. PICK g : g = CHOOSE h : h = Body(h)
  OBVIOUS
<1>8. g = Body(g)
  <2> HIDE DEF Body
  <2> QED
    BY <1>6, <1>7
<1>9. MpdCommands(l, cs) = g
  BY <1>7 DEF MpdCommands, N
<1>10. \A k \in 1..N : g[k] = IF g[k - 1] = NoList THEN NoList ELSE MpdCommand(g[k - 1], cs[k])
  BY <1>3, <1>8
<1>11. g[0] = l
  BY <1>3, <1>8
<1>12. \A k \in 0..N : g[k] \in S
  <2> DEFINE P == {k \in 0..N : g[k] \in S}
  <2>1. 0 \in P
    BY <1>3, <1>11
  <2>2. ASSUME NEW k \in 1..N, k - 1 \in P PROVE k \in P
    <3>1. g[k - 1] \in S
      BY <2>2
    <3>2. g[k] = Told(g[k - 1], k)
      BY <1>10 DEF Told
    <3> QED
      BY <1>1, <1>3, <3>1, <3>2
  <2> HIDE DEF P
  <2>3. \A k \in 0..N : k \in P
    BY <1>3, <2>1, <2>2, Induct
  <2> QED
    BY <2>3 DEF P
<1> QED
  BY <1>9, <1>10, <1>11, <1>12 DEF N, S

(* Nothing follows a command that MPD refuses.                             *)
LEMMA MpdStep ==
  ASSUME NEW l \in Stored, NEW cs, Len(cs) \in Nat, \A k \in 1..Len(cs) : Tellable(cs[k]),
         NEW k \in 1..Len(cs), MpdCommands(l, cs)[k] # NoList
  PROVE  /\ MpdCommands(l, cs)[k - 1] \in Stored /\ MpdCommands(l, cs)[k] \in Stored
         /\ MpdCommands(l, cs)[k] = MpdCommand(MpdCommands(l, cs)[k - 1], cs[k])
<1>1. k - 1 \in 0..Len(cs) /\ k \in 0..Len(cs)
  OBVIOUS
<1> DEFINE mpd == MpdCommands(l, cs)
<1>2. mpd[k - 1] \in Stored \union {NoList} /\ mpd[k] \in Stored \union {NoList}
  BY <1>1, MpdRuns
<1>3. mpd[k] = IF mpd[k - 1] = NoList THEN NoList ELSE MpdCommand(mpd[k - 1], cs[k])
  BY MpdRuns
<1> HIDE DEF mpd
<1>4. mpd[k - 1] # NoList /\ mpd[k] # NoList
  BY <1>3 DEF mpd
<1> QED
  BY <1>2, <1>3, <1>4 DEF mpd

(* No command, and a single one.                                           *)
LEMMA MpdFew ==
  ASSUME NEW l \in Stored
  PROVE  /\ MpdCommands(l, <<>>)[0] = l
         /\ \A c : Tellable(c) => MpdCommands(l, <<c>>)[0] = l /\ MpdCommands(l, <<c>>)[1] = MpdCommand(l, c)
<1>1. MpdCommands(l, <<>>)[0] = l
  <2>1. PICK cs : cs = <<>>
    OBVIOUS
  <2>2. Len(cs) = 0 /\ Len(cs) \in Nat /\ \A k \in 1..Len(cs) : Tellable(cs[k])
    BY <2>1
  <2>3. MpdCommands(l, cs)[0] = l
    BY <2>2, MpdRuns
  <2> QED
    BY <2>1, <2>3
<1>2. ASSUME NEW c, Tellable(c)
      PROVE  MpdCommands(l, <<c>>)[0] = l /\ MpdCommands(l, <<c>>)[1] = MpdCommand(l, c)
  <2>1. PICK cs : cs = <<c>>
    OBVIOUS
  <2>2. Len(cs) = 1 /\ Len(cs) \in Nat /\ cs[1] = c
    BY <2>1
  <2>3. \A k \in 1..Len(cs) : Tellable(cs[k])
    <3>1. 1..Len(cs) = {1}
      BY <2>2
    <3> QED
      BY <1>2, <2>2, <3>1
  <2>4. PICK mpd : mpd = MpdCommands(l, cs)
    OBVIOUS
  <2>5. mpd[0] = l /\ \A k \in 1..Len(cs) : mpd[k] = IF mpd[k - 1] = NoList THEN NoList ELSE MpdCommand(mpd[k - 1], cs[k])
    BY <2>2, <2>3, <2>4, MpdRuns
  <2>6. 1 \in 1..Len(cs) /\ 1 - 1 = 0
    BY <2>2
  <2>7. mpd[1] = IF mpd[0] = NoList THEN NoList ELSE MpdCommand(mpd[0], cs[1])
    BY <2>5, <2>6
  <2>8. l # NoList
    BY Kinds
  <2> QED
    BY <2>1, <2>2, <2>4, <2>5, <2>7, <2>8
<1> QED
  BY <1>1, <1>2

(* A playlist that no command names stays, and one that no command creates *)
(* is not there.                                                           *)
LEMMA MpdFrame ==
  ASSUME NEW l \in Stored, NEW cs, Len(cs) \in Nat, \A k \in 1..Len(cs) : Tellable(cs[k]),
         NEW k \in 0..Len(cs), MpdCommands(l, cs)[k] # NoList, NEW n \in PlistNames
  PROVE  /\ (\A i \in 1..Len(cs) : n # cs[i].a /\ ~(cs[i].do = "rename" /\ n = cs[i].b)) =>
              MpdCommands(l, cs)[k][n] = l[n]
         /\ l[n] = NoList /\ (\A i \in 1..Len(cs) : /\ ~(cs[i].do = "add" /\ n = cs[i].a)
                                                    /\ ~(cs[i].do = "rename" /\ n = cs[i].b)) =>
              MpdCommands(l, cs)[k][n] = NoList
<1> DEFINE N == Len(cs)
           mpd == MpdCommands(l, cs)
           Spared == \A i \in 1..N : n # cs[i].a /\ ~(cs[i].do = "rename" /\ n = cs[i].b)
           Missed == /\ l[n] = NoList
                     /\ \A i \in 1..N : ~(cs[i].do = "add" /\ n = cs[i].a) /\ ~(cs[i].do = "rename" /\ n = cs[i].b)
           P == {i \in 0..N : mpd[i] # NoList => (Spared => mpd[i][n] = l[n]) /\ (Missed => mpd[i][n] = NoList)}
<1>1. 0 \in P
  BY MpdRuns
<1>2. ASSUME NEW i \in 1..N, i - 1 \in P PROVE i \in P
  <2>1. SUFFICES ASSUME mpd[i] # NoList PROVE i \in P
    OBVIOUS
  <2>2. mpd[i - 1] \in Stored /\ mpd[i] = MpdCommand(mpd[i - 1], cs[i])
    BY <2>1, MpdStep
  <2>3. mpd[i - 1] # NoList
    BY <2>2, Kinds
  <2>4. PICK m, c : m = mpd[i - 1] /\ c = cs[i]
    OBVIOUS
  <2>5. m \in Stored /\ mpd[i] = MpdCommand(m, c) /\ Tellable(c) /\ MpdCommand(m, c) # NoList
    BY <2>1, <2>2, <2>4
  <2>6. /\ n # c.a /\ ~(c.do = "rename" /\ n = c.b) => MpdCommand(m, c)[n] = m[n]
        /\ m[n] = NoList /\ MpdCommand(m, c)[n] # NoList =>
             (c.do = "add" /\ n = c.a) \/ (c.do = "rename" /\ n = c.b)
    BY <2>5, MpdOthers
  <2>7. (Spared => m[n] = l[n]) /\ (Missed => m[n] = NoList)
    BY <1>2, <2>3, <2>4
  <2>8. (Spared => mpd[i][n] = l[n]) /\ (Missed => mpd[i][n] = NoList)
    BY <2>4, <2>5, <2>6, <2>7
  <2> HIDE DEF Spared, Missed, mpd
  <2> QED
    BY <2>8
<1>3. \A i \in 0..N : i \in P
  <2>1. \A i \in 1..N : i - 1 \in P => i \in P
    BY <1>2
  <2> HIDE DEF P, N
  <2> QED
    BY <1>1, <2>1, Induct DEF N
<1> QED
  BY <1>3

(* Songs added one by one come behind those that are there.                *)
LEMMA MpdAdds ==
  ASSUME NEW l \in Stored, NEW p \in PlistNames, NEW buf \in Seq(Songs), NEW cs, Len(cs) \in 0..Len(buf),
         \A i \in 1..Len(cs) : cs[i] = Add(p, buf[i]),
         NEW k \in 0..Len(cs), MpdCommands(l, cs)[k] # NoList
  PROVE  /\ Content(MpdCommands(l, cs)[k][p]) = Content(l[p]) \o SubSeq(buf, 1, k)
         /\ k > 0 => MpdCommands(l, cs)[k][p] # NoList
         /\ k = 0 => MpdCommands(l, cs)[k] = l
<1> DEFINE N == Len(cs)
           mpd == MpdCommands(l, cs)
           Now(i) == Content(l[p]) \o SubSeq(buf, 1, i)
           P == {i \in 0..N : mpd[i] # NoList => Content(mpd[i][p]) = Now(i) /\ (i > 0 => mpd[i][p] # NoList)}
<1>1. Len(cs) \in Nat /\ \A i \in 1..N : Tellable(cs[i])
  <2>1. ASSUME NEW i \in 1..N PROVE Tellable(cs[i])
    <3>2. PICK e : e = buf[i]
      OBVIOUS
    <3>3. cs[i] = Add(p, e)
      BY <3>2
    <3>1. cs[i].do = "add"
      BY <3>3 DEF Add, Do
    <3> QED
      BY <3>1 DEF Tellable
  <2> QED
    BY <2>1
<1>2. Content(l[p]) \in Seq(Songs) /\ l[p] \in Seq(Songs) \union {NoList}
  BY DEF Content, Stored
<1>3. 0 \in P
  <2>1. mpd[0] = l
    BY <1>1, MpdRuns
  <2>2. SubSeq(buf, 1, 0) = <<>>
    OBVIOUS
  <2>3. Content(l[p]) \o <<>> = Content(l[p])
    BY <1>2
  <2>4. Content(mpd[0][p]) = Now(0)
    BY <2>1, <2>2, <2>3
  <2>5. 0 \in 0..N /\ ~(0 > 0)
    BY <1>1
  <2> HIDE DEF mpd, Now
  <2> QED
    BY <2>4, <2>5
<1>4. ASSUME NEW i \in 1..N, i - 1 \in P PROVE i \in P
  <2>1. SUFFICES ASSUME mpd[i] # NoList PROVE i \in P
    OBVIOUS
  <2>2. mpd[i - 1] \in Stored /\ mpd[i] = MpdCommand(mpd[i - 1], cs[i]) /\ cs[i] = Add(p, buf[i])
    BY <1>1, <2>1, MpdStep
  <2>3. mpd[i - 1] # NoList
    BY <2>2, Kinds
  <2>4. PICK m, e : m = mpd[i - 1] /\ e = buf[i]
    OBVIOUS
  <2>5. m \in Stored /\ mpd[i] = MpdCommand(m, Add(p, e))
    BY <2>2, <2>4
  <2>6. e \in KnownSongs /\ mpd[i] = [m EXCEPT ![p] = IF m[p] = NoList THEN <<e>> ELSE Append(m[p], e)]
    BY <2>1, <2>5 DEF MpdCommand, Add, Do
  <2>7. mpd[i][p] = IF m[p] = NoList THEN <<e>> ELSE Append(m[p], e)
    BY <2>5, <2>6 DEF Stored
  <2>8. m[p] \in Seq(Songs) \union {NoList} /\ e \in Songs
    BY <2>5, <2>6, Kinds DEF Stored
  <2>9. mpd[i][p] = Content(m[p]) \o <<e>> /\ mpd[i][p] \in Seq(Songs)
    <3>0. <<e>> \in Seq(Songs)
      BY <2>8
    <3>1. <<>> \o <<e>> = <<e>> /\ <<e>> \in Seq(Songs)
      BY <3>0
    <3>2. ASSUME m[p] # NoList PROVE Append(m[p], e) = m[p] \o <<e>> /\ Append(m[p], e) \in Seq(Songs)
      <4>1. PICK t \in Seq(Songs) : t = m[p]
        BY <2>8, <3>2
      <4>2. Append(t, e) = t \o <<e>> /\ Append(t, e) \in Seq(Songs)
        BY <2>8
      <4> QED
        BY <4>1, <4>2
    <3> QED
      BY <2>7, <3>1, <3>2 DEF Content
  <2>10. Content(m[p]) = Now(i - 1)
    BY <1>4, <2>3, <2>4
  <2>11. mpd[i][p] = Now(i)
    <3>1. PICK t \in Seq(Songs) : t = Content(l[p])
      BY <1>2
    <3>2. PICK a, b : a = SubSeq(buf, 1, i - 1) /\ b = SubSeq(buf, 1, i)
      OBVIOUS
    <3>3. i \in 1..Len(buf) /\ e = buf[i]
      BY <2>4
    <3>4. a \in Seq(Songs) /\ b \in Seq(Songs) /\ b = a \o <<e>>
      BY <2>8, <3>2, <3>3
    <3>5. (t \o a) \o <<e>> = t \o (a \o <<e>>)
      BY <2>8, <3>4, SMTT(30)
    <3> QED
      BY <2>9, <2>10, <3>1, <3>2, <3>4, <3>5
  <2>12. mpd[i][p] # NoList
    BY <2>9, Kinds
  <2>13. Content(mpd[i][p]) = Now(i)
    BY <2>11, <2>12 DEF Content
  <2> HIDE DEF mpd, Now
  <2> QED
    BY <2>12, <2>13
<1>5. \A i \in 0..N : i \in P
  <2>1. \A i \in 1..N : i - 1 \in P => i \in P
    BY <1>4
  <2> HIDE DEF P, N
  <2> QED
    BY <1>1, <1>3, <2>1, Induct DEF N
<1>6. k = 0 => mpd[k] = l
  BY <1>1, MpdRuns
<1> QED
  BY <1>5, <1>6

(* The first songs of a list.                                              *)
LEMMA First ==
  ASSUME NEW E, NEW s \in Seq(E), NEW n \in Nat
  PROVE  /\ Upto(s, n) \in Seq(E) /\ Upto(s, n) = SubSeq(s, 1, Len(Upto(s, n)))
         /\ Len(Upto(s, n)) = (IF n < Len(s) THEN n ELSE Len(s)) /\ Len(Upto(s, n)) \in 0..Len(s)
         /\ n >= Len(s) => Upto(s, n) = s
<1> DEFINE k == IF n < Len(s) THEN n ELSE Len(s)
<1>1. k \in 0..Len(s) /\ Upto(s, n) = SubSeq(s, 1, k)
  BY DEF Upto
<1> HIDE DEF k
<1>2. SubSeq(s, 1, k) \in Seq(E) /\ Len(SubSeq(s, 1, k)) = k
  BY <1>1
<1>3. k = Len(s) => SubSeq(s, 1, k) = s
  OBVIOUS
<1> QED
  BY <1>1, <1>2, <1>3 DEF k

(* The numbers of a set, from the greatest to the least.                   *)
LEMMA Descended ==
  ASSUME NEW S \in SUBSET Nat, IsFiniteSet(S)
  PROVE  /\ Descending(S) \in Seq(S) /\ Len(Descending(S)) = Cardinality(S) /\ Cardinality(S) \in Nat
         /\ \A k \in 1..Cardinality(S) : Descending(S)[k] \in S
         /\ \A j, k \in 1..Cardinality(S) : j < k => Descending(S)[j] > Descending(S)[k]
         /\ \A x \in S : \E k \in 1..Cardinality(S) : Descending(S)[k] = x
<1> DEFINE n == Cardinality(S)
<1>1. n \in Nat
  BY FS_CardinalityType
<1>2. /\ \A k \in 1..n : NthIn(S, k) \in S
      /\ \A i \in S : \E k \in 1..n : NthIn(S, k) = i
      /\ \A j, k \in 1..n : j < k => NthIn(S, j) < NthIn(S, k)
  BY Positions
<1>3. Descending(S) = [k \in 1..n |-> NthIn(S, n + 1 - k)]
  BY DEF Descending
<1> HIDE DEF n
<1>4. \A k \in 1..n : n + 1 - k \in 1..n
  BY <1>1
<1>5. \A k \in 1..n : NthIn(S, n + 1 - k) \in S
  BY <1>2, <1>4
<1>6. Descending(S) \in Seq(S) /\ Len(Descending(S)) = n
  BY <1>1, <1>3, <1>5
<1>7. ASSUME NEW j \in 1..n, NEW k \in 1..n, j < k PROVE Descending(S)[j] > Descending(S)[k]
  <2>1. PICK a, b : a = n + 1 - k /\ b = n + 1 - j
    OBVIOUS
  <2>2. a \in 1..n /\ b \in 1..n /\ a < b
    BY <1>1, <1>7, <2>1
  <2>3. NthIn(S, a) < NthIn(S, b) /\ NthIn(S, a) \in S /\ NthIn(S, b) \in S
    BY <1>2, <2>2
  <2> QED
    BY <1>3, <2>1, <2>3
<1>8. ASSUME NEW x \in S PROVE \E k \in 1..n : Descending(S)[k] = x
  <2>1. PICK k \in 1..n : NthIn(S, k) = x
    BY <1>2
  <2>2. PICK i : i = n + 1 - k
    OBVIOUS
  <2>3. i \in 1..n /\ n + 1 - i = k
    BY <1>1, <2>2
  <2>4. Descending(S)[i] = NthIn(S, k)
    BY <1>3, <2>3
  <2> QED
    BY <2>1, <2>3, <2>4
<1> QED
  BY <1>1, <1>3, <1>5, <1>6, <1>7, <1>8 DEF n

(* A sorted list has the entries of the list, each as often as it was.     *)
LEMMA SortedPlaces ==
  ASSUME NEW E \in SUBSET Nat, NEW s \in Seq(E)
  PROVE  /\ Sorted(s) \in Seq(E) /\ Len(Sorted(s)) = Len(s)
         /\ \E f \in Bijection(DOMAIN s, DOMAIN s) : Sorted(s) = [k \in DOMAIN s |-> s[f[k]]]
<1> DEFINE n == Len(s)
           D == 1..n
           R == {p \in D \X D : Before(s, p[1], p[2])}
           nth == [k \in D |-> CHOOSE i \in D : RankIn(D, R, i) = k]
<1>1. n \in Nat /\ DOMAIN s = D
  OBVIOUS
<1>2. \A a, b \in D : <<a, b>> \in R <=> Before(s, a, b)
  OBVIOUS
<1>3. \A a \in D : RankIn(D, R, a) = Cardinality({x \in D : Before(s, x, a)})
  BY <1>2 DEF RankIn
<1>4. \A a \in D : s[a] \in Nat /\ s[a] \in E /\ a \in Nat
  <2>1. \A a \in D : s[a] \in E /\ a \in Nat
    BY <1>1
  <2>2. \A e \in E : e \in Nat
    OBVIOUS
  <2> QED
    BY <2>1, <2>2
<1>5. /\ \A a \in D : <<a, a>> \in R
      /\ \A a, b \in D : <<a, b>> \in R \/ <<b, a>> \in R
      /\ \A a, b \in D : <<a, b>> \in R /\ <<b, a>> \in R => a = b
      /\ \A a, b, c \in D : <<a, b>> \in R /\ <<b, c>> \in R => <<a, c>> \in R
  <2> HIDE DEF R, D
  <2>1. \A a \in D : <<a, a>> \in R
    BY <1>2, <1>4 DEF Before
  <2>2. \A a, b \in D : <<a, b>> \in R \/ <<b, a>> \in R
    <3>1. SUFFICES ASSUME NEW a \in D, NEW b \in D PROVE <<a, b>> \in R \/ <<b, a>> \in R
      OBVIOUS
    <3>2. PICK x, y : x = s[a] /\ y = s[b]
      OBVIOUS
    <3>3. x \in Nat /\ y \in Nat /\ a \in Nat /\ b \in Nat
      BY <1>4, <3>2
    <3>4. (<<a, b>> \in R <=> (x < y \/ (x = y /\ a <= b))) /\ (<<b, a>> \in R <=> (y < x \/ (y = x /\ b <= a)))
      BY <1>2, <3>2 DEF Before
    <3> QED
      BY <3>3, <3>4
  <2>3. \A a, b \in D : <<a, b>> \in R /\ <<b, a>> \in R => a = b
    <3>1. SUFFICES ASSUME NEW a \in D, NEW b \in D PROVE <<a, b>> \in R /\ <<b, a>> \in R => a = b
      OBVIOUS
    <3>2. PICK x, y : x = s[a] /\ y = s[b]
      OBVIOUS
    <3>3. x \in Nat /\ y \in Nat /\ a \in Nat /\ b \in Nat
      BY <1>4, <3>2
    <3>4. (<<a, b>> \in R <=> (x < y \/ (x = y /\ a <= b))) /\ (<<b, a>> \in R <=> (y < x \/ (y = x /\ b <= a)))
      BY <1>2, <3>2 DEF Before
    <3> QED
      BY <3>3, <3>4
  <2>4. \A a, b, c \in D : <<a, b>> \in R /\ <<b, c>> \in R => <<a, c>> \in R
    BY <1>2, <1>4 DEF Before
  <2> QED
    BY <2>1, <2>2, <2>3, <2>4
<1> HIDE DEF R, n
<1>6. /\ nth \in Bijection(D, D)
      /\ \A k \in D : RankIn(D, R, nth[k]) = k
      /\ \A i \in D : nth[RankIn(D, R, i)] = i
      /\ \A j, k \in D : j < k => <<nth[j], nth[k]>> \in R
  BY <1>1, <1>5, Places
<1> HIDE DEF nth, D
<1>7. \A k \in D : nth[k] \in D
  BY <1>6 DEF Bijection, Injection
<1>8. Sorted(s) = [k \in D |-> s[nth[k]]]
  <2> DEFINE C(i) == Cardinality({x \in D : Before(s, x, i)})
  <2>1. Sorted(s) = [k \in D |-> s[CHOOSE i \in D : C(i) = k]]
    BY <1>1 DEF Sorted
  <2> HIDE DEF C
  <2>2. \A i \in D : C(i) = RankIn(D, R, i)
    BY <1>3 DEF C
  <2>3. ASSUME NEW k \in D PROVE (CHOOSE i \in D : C(i) = k) = nth[k]
    <3>1. PICK c : c = CHOOSE i \in D : C(i) = k
      OBVIOUS
    <3>2. nth[k] \in D /\ C(nth[k]) = k
      BY <1>6, <1>7, <2>2
    <3>3. c \in D /\ C(c) = k
      BY <3>1, <3>2
    <3>4. nth[k] = c
      BY <1>6, <2>2, <3>3
    <3> QED
      BY <3>1, <3>4
  <2> QED
    BY <2>1, <2>3
<1>9. \A k \in D : s[nth[k]] \in E
  BY <1>4, <1>7
<1>10. Sorted(s) \in Seq(E) /\ Len(Sorted(s)) = n
  BY <1>1, <1>8, <1>9 DEF D, n
<1> QED
  BY <1>1, <1>6, <1>8, <1>10 DEF n

(* Lists with the same songs at other positions.                           *)
LEMMA Shuffled ==
  ASSUME NEW E, NEW s \in Seq(E), NEW b \in Reorderings(s)
  PROVE  /\ b \in Seq(E) /\ Len(b) = Len(s)
         /\ \E f \in Bijection(DOMAIN s, DOMAIN s) : b = [k \in DOMAIN s |-> s[f[k]]]
<1> DEFINE D == DOMAIN s
<1>1. PICK f \in [D -> D] : b = [k \in D |-> s[f[k]]] /\ \A i, j \in D : f[i] = f[j] => i = j
  BY DEF Reorderings
<1>2. D = 1..Len(s) /\ Len(s) \in Nat /\ \A k \in D : s[k] \in E
  OBVIOUS
<1>3. b \in Seq(E) /\ Len(b) = Len(s)
  <2>1. \A k \in D : s[f[k]] \in E
    BY <1>1, <1>2
  <2> HIDE DEF D
  <2> QED
    BY <1>1, <1>2, <2>1
<1>4. IsFiniteSet(D)
  <2>1. IsFiniteSet(1..Len(s))
    BY <1>2, FS_Interval
  <2> QED
    BY <1>2, <2>1
<1> HIDE DEF D
<1>5. f \in Injection(D, D)
  BY <1>1 DEF Injection, IsInjective
<1>6. f \in Surjection(D, D)
  BY <1>4, <1>5, FS_Injection
<1>7. f \in Bijection(D, D)
  BY <1>5, <1>6 DEF Bijection
<1> QED
  BY <1>1, <1>3, <1>7 DEF D

(* A sorted list, and the list as it is, are rearrangements of it.         *)
LEMMA SortedShuffled ==
  ASSUME NEW E \in SUBSET Nat, NEW s \in Seq(E)
  PROVE  Sorted(s) \in Reorderings(s) /\ s \in Reorderings(s)
<1> DEFINE D == DOMAIN s
<1>1. PICK f \in Bijection(D, D) : Sorted(s) = [k \in D |-> s[f[k]]]
  BY SortedPlaces
<1>2. f \in [D -> D] /\ \A i, j \in D : f[i] = f[j] => i = j
  BY <1>1 DEF Bijection, Injection, IsInjective
<1>3. Sorted(s) \in Reorderings(s)
  BY <1>1, <1>2 DEF Reorderings
<1>4. PICK g : g = [k \in D |-> k]
  OBVIOUS
<1>5. g \in [D -> D] /\ (\A i, j \in D : g[i] = g[j] => i = j) /\ s = [k \in D |-> s[g[k]]]
  BY <1>4
<1>6. s \in Reorderings(s)
  BY <1>5 DEF Reorderings
<1> QED
  BY <1>3, <1>6

(* A rearrangement holds the same songs, as often.                         *)
LEMMA ShuffledSame ==
  ASSUME NEW s \in Seq(Songs), NEW b \in Reorderings(s)
  PROVE  SameSongs(b, s) /\ SameSongs(s, b) /\ (Distinct(s) => Distinct(b))
<1> DEFINE D == DOMAIN s
<1>1. PICK f \in Bijection(D, D) : b = [k \in D |-> s[f[k]]]
  BY Shuffled
<1>2. /\ f \in [D -> D] /\ \A i, j \in D : f[i] = f[j] => i = j
      /\ \A i \in D : \E k \in D : f[k] = i
  BY <1>1 DEF Bijection, Injection, Surjection, IsInjective
<1>3. D = 1..Len(s) /\ Len(s) \in Nat /\ DOMAIN b = D
  BY <1>1
<1> HIDE DEF D
<1>4. ASSUME NEW x PROVE Times(x, b) = Times(x, s)
  <2> DEFINE B == {k \in D : b[k] = x}
             S == {i \in D : s[i] = x}
             h == [k \in B |-> f[k]]
  <2>1. h \in [B -> S] /\ (\A i, j \in B : h[i] = h[j] => i = j) /\ \A i \in S : \E k \in B : h[k] = i
    BY <1>1, <1>2
  <2>2. IsFiniteSet(B)
    <3>1. IsFiniteSet(1..Len(s))
      BY <1>3, FS_Interval
    <3> QED
      BY <1>3, <3>1, FS_Subset
  <2>3. B = {k \in DOMAIN b : b[k] = x} /\ S = {i \in DOMAIN s : s[i] = x}
    BY <1>3 DEF D
  <2> HIDE DEF B, S, h
  <2>4. h \in Bijection(B, S)
    BY <2>1 DEF Bijection, Injection, Surjection, IsInjective
  <2>5. ExistsBijection(B, S)
    BY <2>4 DEF ExistsBijection
  <2>6. Cardinality(S) = Cardinality(B)
    BY <2>2, <2>5, FS_Bijection
  <2> QED
    BY <2>3, <2>6 DEF Times
<1>5. Distinct(s) => Distinct(b)
  BY <1>1, <1>2, <1>3 DEF Distinct, D
<1> QED
  BY <1>4, <1>5 DEF SameSongs

(* A list of known songs is a list of songs.                               *)
LEMMA KnownLists == \A s \in Seq(KnownSongs) : s \in Seq(Songs)
<1>1. SUFFICES ASSUME NEW s \in Seq(KnownSongs) PROVE s \in Seq(Songs)
  OBVIOUS
<1>2. \A i \in 1..Len(s) : s[i] \in Songs
  <2>1. \A i \in 1..Len(s) : s[i] \in KnownSongs
    OBVIOUS
  <2> QED
    BY <2>1, Kinds
<1>3. s = [i \in 1..Len(s) |-> s[i]] /\ Len(s) \in Nat
  OBVIOUS
<1> QED
  BY <1>2, <1>3

(* What is found in the database.                                          *)
LEMMA Db ==
  /\ DbOrder(KnownSongs) \in Seq(KnownSongs) /\ Len(DbOrder(KnownSongs)) = Cardinality(KnownSongs)
  /\ DbSorted \in Seq(KnownSongs) /\ Len(DbSorted) = Cardinality(KnownSongs) /\ Cardinality(KnownSongs) \in Nat
  /\ Distinct(DbOrder(KnownSongs)) /\ Distinct(DbSorted)
<1> DEFINE db == DbOrder(KnownSongs)
           n == Cardinality(KnownSongs)
<1>1. KnownSongs \in SUBSET Nat /\ IsFiniteSet(KnownSongs) /\ KnownSongs \subseteq Songs
  BY Kinds
<1>2. /\ db \in Seq(KnownSongs) /\ Len(db) = n /\ n \in Nat
      /\ \A j, k \in 1..n : j < k => db[j] > db[k]
      /\ \A k \in 1..n : db[k] \in KnownSongs
  BY <1>1, Descended DEF DbOrder
<1>3. Distinct(db)
  <2>1. SUFFICES ASSUME NEW i \in DOMAIN db, NEW j \in DOMAIN db, i # j PROVE db[i] # db[j]
    BY DEF Distinct
  <2>5. i \in 1..n /\ j \in 1..n
    <3>1. PICK t \in Seq(KnownSongs) : t = db
      BY <1>2
    <3>2. DOMAIN t = 1..Len(t)
      OBVIOUS
    <3> HIDE DEF db, n
    <3> QED
      BY <1>2, <3>1, <3>2
  <2>6. db[i] \in KnownSongs /\ db[j] \in KnownSongs
    BY <1>2, <2>5
  <2>2. i \in 1..n /\ j \in 1..n /\ db[i] \in Nat /\ db[j] \in Nat
    BY <1>1, <2>5, <2>6
  <2>3. i < j \/ j < i
    BY <2>1, <2>2
  <2>4. db[i] > db[j] \/ db[j] > db[i]
    BY <1>2, <2>2, <2>3
  <2> QED
    BY <2>2, <2>4
<1>4. DbSorted \in Seq(KnownSongs) /\ Len(DbSorted) = n
  BY <1>1, <1>2, SortedPlaces DEF DbSorted
<1>5. Distinct(DbSorted)
  <2>1. PICK b : b = DbSorted
    OBVIOUS
  <2>2. b \in Reorderings(db)
    BY <1>1, <1>2, <2>1, SortedShuffled DEF DbSorted
  <2>3. PICK s : s = db
    OBVIOUS
  <2>4. s \in Seq(Songs)
    BY <1>2, <2>3, KnownLists
  <2>5. Distinct(b)
    BY <1>3, <2>2, <2>3, <2>4, ShuffledSame
  <2> QED
    BY <2>1, <2>5
<1> QED
  BY <1>2, <1>3, <1>4, <1>5

Whole(d) == IF d.sort = "tag" /\ d.kind # "sticker" THEN DbSorted ELSE DbOrder(KnownSongs)

(* What a smart playlist finds: known songs, none twice, and no more than  *)
(* its limit.                                                              *)
LEMMA Finds ==
  ASSUME NEW d \in DefKinds
  PROVE  /\ Found(d) \in Seq(KnownSongs) /\ Found(d) \in Seq(Songs) /\ Distinct(Found(d))
         /\ Whole(d) \in Seq(KnownSongs) /\ Len(Whole(d)) = Cardinality(KnownSongs)
         /\ Found(d) = IF d.max = 0 \/ d.sort = "shuffle" \/ (d.sort = "tag" /\ d.kind = "sticker")
                       THEN Whole(d) ELSE Upto(Whole(d), d.max)
<1>1. Whole(d) \in Seq(KnownSongs) /\ Len(Whole(d)) = Cardinality(KnownSongs) /\ Distinct(Whole(d))
  BY Db DEF Whole
<1>2. Found(d) = IF d.max = 0 \/ d.sort = "shuffle" \/ (d.sort = "tag" /\ d.kind = "sticker")
                 THEN Whole(d) ELSE Upto(Whole(d), d.max)
  BY DEF Found, Whole, DbSorted
<1>3. PICK s \in Seq(KnownSongs) : s = Whole(d)
  BY <1>1
<1>4. PICK n \in Nat : n = d.max
  BY DEF DefKinds
<1>5. PICK u : u = Upto(s, n)
  OBVIOUS
<1>6. u \in Seq(KnownSongs) /\ u = SubSeq(s, 1, Len(u)) /\ Len(u) \in 0..Len(s)
  BY <1>5, First
<1>7. DOMAIN u = 1..Len(u) /\ DOMAIN s = 1..Len(s) /\ \A i \in DOMAIN u : i \in DOMAIN s /\ u[i] = s[i]
  BY <1>6
<1>8. Distinct(u)
  BY <1>1, <1>3, <1>7 DEF Distinct
<1>9. Found(d) = s \/ Found(d) = u
  BY <1>2, <1>3, <1>4, <1>5
<1>10. Found(d) \in Seq(KnownSongs) /\ Distinct(Found(d))
  BY <1>1, <1>3, <1>6, <1>8, <1>9
<1>11. Found(d) \in Seq(Songs)
  BY <1>10, KnownLists
<1> QED
  BY <1>1, <1>2, <1>10, <1>11

(* The songs of an exchange.                                               *)
LEMMA Batched ==
  ASSUME NEW w, w.buf \in Seq(Songs), NEW s
  PROVE  /\ Batch(w, s) \in Seq(Songs) /\ Batch(w, s) = SubSeq(w.buf, 1, Len(Batch(w, s)))
         /\ Len(Batch(w, s)) \in 0..Len(w.buf) /\ \A i \in 1..Len(Batch(w, s)) : Batch(w, s)[i] = w.buf[i]
<1>1. PICK n \in Nat : Batch(w, s) = Upto(w.buf, n)
  <2>1. CommandsMax \in Nat /\ Len(w.buf) \in Nat
    BY Kinds
  <2> QED
    BY <2>1 DEF Batch
<1>2. PICK b \in Seq(Songs) : b = w.buf
  OBVIOUS
<1>3. PICK u : u = Upto(b, n)
  OBVIOUS
<1>4. u \in Seq(Songs) /\ u = SubSeq(b, 1, Len(u)) /\ Len(u) \in 0..Len(b)
  BY <1>3, First
<1>5. \A i \in 1..Len(u) : u[i] = b[i]
  BY <1>4
<1> QED
  BY <1>1, <1>2, <1>3, <1>4, <1>5

(* What MPD is told is a list of commands, all of them well formed.        *)
LEMMA Commanded ==
  ASSUME NEW w, WorkOK(w), NEW s, StepOK(w, s), NEW cs, cs = Commands(w, s)
  PROVE  Len(cs) \in Nat /\ \A k \in 1..Len(cs) : Tellable(cs[k])
<1> DEFINE Good(c) == Len(c) \in Nat /\ \A k \in 1..Len(c) : Tellable(c[k])
<1>2. \A c : c.do \notin {"insert", "rename"} => Tellable(c)
  BY DEF Tellable
<1>3. Good(<<>>) /\ \A c : Tellable(c) => Good(<<c>>)
  <2>1. ASSUME NEW c, Tellable(c) PROVE Good(<<c>>)
    <3>1. Len(<<c>>) = 1 /\ <<c>>[1] = c
      OBVIOUS
    <3>2. \A k \in 1..1 : k = 1
      OBVIOUS
    <3> QED
      BY <2>1, <3>1, <3>2
  <2> QED
    BY <2>1
<1>4. CASE s.do \in {"add", "insert", "del", "delfrom", "move", "rename", "rm", "clear"}
  <2>1. cs = <<s>>
    BY <1>4 DEF Commands
  <2>2. Tellable(s)
    <3>1. /\ s.do = "insert" => s.b[2] \in Nat
          /\ s.do = "rename" => s.a \in PlistNames
      BY DEF StepOK
    <3> QED
      BY <3>1 DEF Tellable
  <2> QED
    BY <1>3, <2>1, <2>2
<1>5. CASE s.do \in {"list", "drop"}
  <2>1. cs = s.b
    BY <1>5 DEF Commands
  <2> QED
    BY <1>2, <1>5, <2>1 DEF StepOK
<1>6. CASE s.do = "shift"
  <2>1. cs = Shifted(w.buf, s.b, s.a)
    BY <1>6 DEF Commands
  <2>2. PICK c1, c2, c3, c4 : /\ c1 = Add(s.a, w.buf[2]) /\ c2 = Do("del", s.b, 2)
                              /\ c3 = Add(s.a, w.buf[1]) /\ c4 = Do("del", s.b, 1)
    OBVIOUS
  <2>3. Tellable(c1) /\ Tellable(c2) /\ Tellable(c3) /\ Tellable(c4)
    BY <2>2 DEF Tellable, Add, Do
  <2>4. PICK a, b : /\ a = (IF Len(w.buf) > 1 THEN <<c1, c2>> ELSE <<>>)
                    /\ b = (IF w.buf # <<>> THEN <<c3, c4>> ELSE <<>>)
    OBVIOUS
  <2>5. cs = a \o b
    BY <2>1, <2>2, <2>4 DEF Shifted
  <2>6. Good(a) /\ Good(b) /\ IsSeq(a) /\ IsSeq(b)
    <3>1. Good(<<c1, c2>>) /\ Good(<<c3, c4>>)
      BY <2>3
    <3>2. <<c1, c2>> \in Seq({c1, c2}) /\ <<c3, c4>> \in Seq({c3, c4})
      OBVIOUS
    <3>3. IsSeq(<<c1, c2>>) /\ IsSeq(<<c3, c4>>)
      BY <3>2 DEF IsSeq
    <3> QED
      BY <1>3, <2>4, <3>1, <3>3, Empty
  <2>7. PICK m, n : m = Len(a) /\ n = Len(b)
    OBVIOUS
  <2>8. m \in Nat /\ n \in Nat /\ Len(cs) = m + n /\ \A i \in 1..m + n : cs[i] = IF i <= m THEN a[i] ELSE b[i - m]
    BY <2>5, <2>6, <2>7, Joins
  <2>9. ASSUME NEW i \in 1..m + n PROVE Tellable(cs[i])
    <3>1. CASE i <= m
      BY <2>6, <2>7, <2>8, <3>1
    <3>2. CASE ~(i <= m)
      <4>1. PICK j : j = i - m
        OBVIOUS
      <4>2. j \in 1..n /\ cs[i] = b[j]
        BY <2>8, <3>2, <4>1
      <4> QED
        BY <2>6, <2>7, <4>2
    <3> QED
      BY <3>1, <3>2
  <2> QED
    BY <2>8, <2>9
<1>7. CASE s.do \in {"fill", "put"}
  <2>1. PICK b, n : b = Batch(w, s) /\ n = Len(b)
    OBVIOUS
  <2>2. n \in Nat /\ DOMAIN b = 1..n
    BY <2>1, Batched DEF WorkOK
  <2>3. w.pos \in Nat
    BY DEF WorkOK
  <2>4. CASE s.do = "fill"
    <3>1. cs = [i \in DOMAIN b |-> Add(s.a, w.buf[i])]
      BY <2>1, <2>4 DEF Commands
    <3>2. Len(cs) = n /\ \A i \in 1..n : cs[i] = Add(s.a, w.buf[i])
      BY <2>2, <3>1
    <3> QED
      BY <2>2, <3>2 DEF Tellable, Add, Do
  <2>5. CASE s.do = "put"
    <3>1. cs = [i \in DOMAIN b |-> IF s.b = "insert" THEN Do("insert", s.a, <<w.buf[i], w.pos + i>>) ELSE Add(s.a, w.buf[i])]
      BY <2>1, <2>5 DEF Commands
    <3>2. Len(cs) = n /\ \A i \in 1..n : cs[i] = IF s.b = "insert" THEN Do("insert", s.a, <<w.buf[i], w.pos + i>>) ELSE Add(s.a, w.buf[i])
      BY <2>2, <3>1
    <3>3. ASSUME NEW i \in 1..n PROVE Tellable(cs[i])
      <4>1. PICK e, j : e = w.buf[i] /\ j = w.pos + i
        OBVIOUS
      <4>2. j \in Nat
        BY <2>2, <2>3, <4>1
      <4>3. cs[i] = Do("insert", s.a, <<e, j>>) \/ cs[i] = Add(s.a, e)
        BY <3>2, <4>1
      <4> QED
        BY <4>2, <4>3 DEF Tellable, Add, Do
    <3> QED
      BY <2>2, <3>2, <3>3
  <2> QED
    BY <1>7, <2>4, <2>5
<1>8. CASE s.do = "search"
  <2>1. PICK f : f = Found(s.b)
    OBVIOUS
  <2>2. f \in Seq(Songs)
    BY <1>8, <2>1, Finds DEF StepOK
  <2>3. cs = [i \in DOMAIN f |-> Add(s.a, f[i])]
    BY <1>8, <2>1 DEF Commands
  <2>4. Len(cs) = Len(f) /\ Len(f) \in Nat /\ \A i \in 1..Len(f) : cs[i] = Add(s.a, f[i])
    BY <2>2, <2>3
  <2>5. \A i \in 1..Len(f) : cs[i].do = "add"
    <3>1. SUFFICES ASSUME NEW i \in 1..Len(f) PROVE cs[i].do = "add"
      OBVIOUS
    <3>2. PICK e : e = f[i]
      OBVIOUS
    <3>3. cs[i] = Add(s.a, e)
      BY <2>4, <3>2
    <3> QED
      BY <3>3 DEF Add, Do
  <2> QED
    BY <1>2, <2>4, <2>5
<1>9. CASE s.do = "rmif"
  <2>1. cs = <<>> \/ cs = <<Do("rm", s.a, "")>>
    BY <1>9 DEF Commands
  <2>2. Tellable(Do("rm", s.a, ""))
    BY DEF Tellable, Do
  <2> QED
    BY <1>3, <2>1, <2>2
<1>10. CASE s.do = "crop"
  <2>1. cs = <<>> \/ cs = <<Do("delfrom", s.a, s.b + 1)>>
    BY <1>10 DEF Commands
  <2>2. Tellable(Do("delfrom", s.a, s.b + 1))
    BY DEF Tellable, Do
  <2> QED
    BY <1>3, <2>1, <2>2
<1>11. CASE s.do \notin {"add", "insert", "del", "delfrom", "move", "rename", "rm", "clear", "list", "drop", "shift",
                         "fill", "put", "search", "rmif", "crop"}
  <2>1. cs = <<>>
    BY <1>11 DEF Commands
  <2> QED
    BY <1>3, <2>1
<1> QED
  BY <1>4, <1>5, <1>6, <1>7, <1>8, <1>9, <1>10, <1>11

(* What an exchange comes to: MPD has carried out some of the commands,    *)
(* and the thread goes on after an answer, an error or a lost connection.  *)
Outcome(w, l, v) ==
  LET s   == Head(w.program)
      cs  == Commands(w, s)
      mpd == MpdCommands(lists, cs) IN
  \E k \in 0..Len(cs) :
    /\ l = mpd[k] /\ l # NoList
    /\ \/ k = Len(cs) /\ v \in After(w, s)
       \/ (cs = <<>> \/ k < Len(cs)) /\ v = Undo(w, s)
       \/ v = Lost(w, s)

(* The head of a program and what follows it.                              *)
LEMMA Programs ==
  ASSUME NEW w, WorkOK(w), w.program # <<>>
  PROVE  /\ IsSeq(w.program) /\ StepOK(w, Head(w.program)) /\ IsSeq(Tail(w.program))
         /\ w.program = <<Head(w.program)>> \o Tail(w.program)
         /\ \A i \in DOMAIN Tail(w.program) : i + 1 \in DOMAIN w.program /\ Tail(w.program)[i] = w.program[i + 1]
<1>1. PICK S : w.program \in Seq(S)
  BY DEF WorkOK
<1>2. PICK p \in Seq(S) : p = w.program
  BY <1>1
<1>3. p # <<>> /\ 1 \in DOMAIN p /\ Head(p) = p[1]
  BY <1>2
<1>4. Tail(p) \in Seq(S) /\ p = <<Head(p)>> \o Tail(p)
  BY <1>3
<1>5. \A i \in DOMAIN Tail(p) : i + 1 \in DOMAIN p /\ Tail(p)[i] = p[i + 1]
  BY <1>3
<1>6. StepOK(w, p[1])
  BY <1>2, <1>3 DEF WorkOK
<1> QED
  BY <1>2, <1>3, <1>4, <1>5, <1>6 DEF IsSeq

(* An exchange lets the thread's work go on from one of its outcomes.      *)
LEMMA Exchanged ==
  ASSUME lists \in Stored, NEW t \in DOMAIN work, WorkOK(work[t]), Exchange(t)
  PROVE  /\ work[t].program # <<>> /\ Head(work[t].program).do \notin Local /\ lists' \in Stored
         /\ \E v : Outcome(work[t], lists', v) /\ work' = Disturb(t, lists', v)
<1> DEFINE w == work[t]
           s == Head(w.program)
           cs == Commands(w, s)
           mpd == MpdCommands(lists, cs)
           Then(k, v) == mpd[k] # NoList /\ lists' = mpd[k] /\ work' = Disturb(t, mpd[k], v)
<1>1. w.program # <<>> /\ s.do \notin Local
  BY DEF Exchange, Busy
<1>2. Len(cs) \in Nat /\ \A k \in 1..Len(cs) : Tellable(cs[k])
  <2>1. StepOK(w, s)
    BY <1>1, Programs
  <2> QED
    BY <2>1, Commanded
<1>3. PICK k \in 0..Len(cs), v \in After(w, s) \union {Undo(w, s), Lost(w, s)} :
        /\ Then(k, v)
        /\ \/ k = Len(cs) /\ v \in After(w, s)
           \/ (cs = <<>> \/ k < Len(cs)) /\ v = Undo(w, s)
           \/ v = Lost(w, s)
  <2>1. CASE \E v \in After(w, s) : Then(Len(cs), v)
    BY <1>2, <2>1
  <2>2. CASE \E k \in 0..Len(cs) : (cs = <<>> \/ k < Len(cs)) /\ Then(k, Undo(w, s))
    BY <2>2
  <2>3. CASE \E k \in 0..Len(cs) : Then(k, Lost(w, s))
    BY <2>3
  <2> HIDE DEF Then
  <2>4. \/ \E v \in After(w, s) : Then(Len(cs), v)
        \/ \E k \in 0..Len(cs) : (cs = <<>> \/ k < Len(cs)) /\ Then(k, Undo(w, s))
        \/ \E k \in 0..Len(cs) : Then(k, Lost(w, s))
    BY DEF Exchange, Then
  <2> QED
    BY <2>1, <2>2, <2>3, <2>4
<1>4. mpd[k] \in Stored \union {NoList}
  BY <1>2, MpdRuns
<1>5. Outcome(w, lists', v) /\ work' = Disturb(t, lists', v)
  BY <1>3 DEF Outcome
<1> QED
  BY <1>1, <1>3, <1>4, <1>5

(* The outcomes by kind of exchange: MPD is told nothing, or one command.  *)
LEMMA QuietOutcome ==
  ASSUME lists \in Stored, NEW w, NEW l, NEW v, Outcome(w, l, v), NEW s, s = Head(w.program),
         Commands(w, s) = <<>>
  PROVE  l = lists /\ (v \in After(w, s) \/ v = Undo(w, s) \/ v = Lost(w, s))
<1>1. MpdCommands(lists, <<>>)[0] = lists
  BY MpdFew
<1>2. PICK k \in 0..Len(<<>>) : /\ l = MpdCommands(lists, <<>>)[k]
                                /\ (v \in After(w, s) \/ v = Undo(w, s) \/ v = Lost(w, s))
  BY DEF Outcome
<1>3. k = 0
  OBVIOUS
<1> QED
  BY <1>1, <1>2, <1>3

(* A step of one command: MPD refuses it, carries it out, or its answer is *)
(* lost.                                                                   *)
LEMMA OneOutcome ==
  ASSUME lists \in Stored, NEW w, NEW l, NEW v, Outcome(w, l, v), NEW s, s = Head(w.program),
         NEW c, Commands(w, s) = <<c>>, Tellable(c)
  PROVE  \/ l = lists /\ (v = Undo(w, s) \/ v = Lost(w, s))
         \/ l = MpdCommand(lists, c) /\ l # NoList /\ (v \in After(w, s) \/ v = Lost(w, s))
<1>1. MpdCommands(lists, <<c>>)[0] = lists /\ MpdCommands(lists, <<c>>)[1] = MpdCommand(lists, c)
  BY MpdFew
<1>2. Len(<<c>>) = 1 /\ <<c>> # <<>>
  OBVIOUS
<1>3. PICK k \in 0..Len(<<c>>) :
        /\ l = MpdCommands(lists, <<c>>)[k] /\ l # NoList
        /\ \/ k = Len(<<c>>) /\ v \in After(w, s)
           \/ k < Len(<<c>>) /\ v = Undo(w, s)
           \/ v = Lost(w, s)
  BY <1>2 DEF Outcome
<1>4. k = 0 \/ k = 1
  BY <1>2
<1> QED
  BY <1>1, <1>2, <1>3, <1>4

(* Songs that are added: the first k are there.                            *)
Filled(w, k) ==
  LET rest == [w EXCEPT !.buf = SubSeq(@, k + 1, Len(@)), !.pos = @ + k] IN
  IF rest.buf = <<>> THEN Advance([rest EXCEPT !.pos = 0]) ELSE rest
Added(l, p, songs, k) ==
  /\ Content(l[p]) = Content(lists[p]) \o SubSeq(songs, 1, k)
  /\ (k > 0 => l[p] # NoList) /\ (k = 0 => l = lists)
  /\ \A n \in PlistNames \ {p} : l[n] = lists[n]

AddedTo(w, l, v, s, p, songs) ==
  \E k \in 0..Len(songs) :
    /\ Added(l, p, songs, k)
    /\ (v \in After(w, s) /\ k = Len(Commands(w, s))) \/ v = Undo(w, s) \/ v = Lost(w, s)

(* A step that adds songs one by one: some first part of them is added.    *)
LEMMA AddedOutcome ==
  ASSUME lists \in Stored, NEW w, NEW l, NEW v, Outcome(w, l, v), NEW s, s = Head(w.program),
         NEW p \in PlistNames, NEW songs \in Seq(Songs), Len(Commands(w, s)) \in 0..Len(songs),
         \A i \in 1..Len(Commands(w, s)) : Commands(w, s)[i] = Add(p, songs[i])
  PROVE  AddedTo(w, l, v, s, p, songs)
<1> SUFFICES \E k \in 0..Len(songs) :
               /\ Added(l, p, songs, k)
               /\ (v \in After(w, s) /\ k = Len(Commands(w, s))) \/ v = Undo(w, s) \/ v = Lost(w, s)
  BY DEF AddedTo
<1>1. PICK cs : cs = Commands(w, s)
  OBVIOUS
<1>2. PICK k \in 0..Len(cs) :
        /\ l = MpdCommands(lists, cs)[k] /\ l # NoList
        /\ (v \in After(w, s) /\ k = Len(cs)) \/ v = Undo(w, s) \/ v = Lost(w, s)
  BY <1>1 DEF Outcome
<1>3. Len(cs) \in 0..Len(songs) /\ Len(cs) \in Nat /\ Len(songs) \in Nat /\ \A i \in 1..Len(cs) : cs[i] = Add(p, songs[i])
  BY <1>1
<1>4. /\ Content(l[p]) = Content(lists[p]) \o SubSeq(songs, 1, k)
      /\ (k > 0 => l[p] # NoList) /\ (k = 0 => l = lists)
  <2>1. \A i \in 1..Len(cs) : cs[i] = Add(p, songs[i])
    BY <1>3
  <2>2. MpdCommands(lists, cs)[k] # NoList
    BY <1>2
  <2>3. /\ Content(MpdCommands(lists, cs)[k][p]) = Content(lists[p]) \o SubSeq(songs, 1, k)
        /\ k > 0 => MpdCommands(lists, cs)[k][p] # NoList
        /\ k = 0 => MpdCommands(lists, cs)[k] = lists
    BY <1>3, <2>1, <2>2, MpdAdds
  <2> QED
    BY <1>2, <2>3
<1>5. \A i \in 1..Len(cs) : cs[i].do = "add" /\ cs[i].a = p
  <2>1. SUFFICES ASSUME NEW i \in 1..Len(cs) PROVE cs[i].do = "add" /\ cs[i].a = p
    OBVIOUS
  <2>2. PICK e : e = songs[i]
    OBVIOUS
  <2>3. cs[i] = Add(p, e)
    BY <1>3, <2>2
  <2> QED
    BY <2>3 DEF Add, Do
<1>6. \A i \in 1..Len(cs) : Tellable(cs[i])
  BY <1>5 DEF Tellable
<1>7. ASSUME NEW n \in PlistNames \ {p} PROVE l[n] = lists[n]
  <2>1. \A i \in 1..Len(cs) : n # cs[i].a /\ ~(cs[i].do = "rename" /\ n = cs[i].b)
    BY <1>5
  <2> QED
    BY <1>2, <1>3, <1>6, <2>1, MpdFrame
<1>8. Added(l, p, songs, k)
  BY <1>4, <1>7 DEF Added
<1>9. k \in 0..Len(songs)
  BY <1>3
<1> QED
  BY <1>1, <1>2, <1>8, <1>9

FilledTo(w, l, v, s, p) ==
  \E k \in 0..Len(w.buf) :
    /\ Added(l, p, w.buf, k)
    /\ v = Filled(w, k) \/ v = Undo(w, s) \/ v = Lost(w, s)

(* Filling a playlist from the buffer adds a first part of what the buffer *)
(* holds.                                                                  *)
LEMMA FillOutcome ==
  ASSUME lists \in Stored, NEW w, WorkOK(w), NEW l, NEW v, Outcome(w, l, v), NEW s, s = Head(w.program),
         s.do = "fill" \/ (s.do = "put" /\ s.b # "insert"), NEW p \in PlistNames, p = s.a
  PROVE  FilledTo(w, l, v, s, p)
<1> SUFFICES \E k \in 0..Len(w.buf) :
               /\ Added(l, p, w.buf, k)
               /\ v = Filled(w, k) \/ v = Undo(w, s) \/ v = Lost(w, s)
  BY DEF FilledTo
<1>1. PICK songs \in Seq(Songs) : songs = w.buf
  BY DEF WorkOK
<1>2. PICK b, n : b = Batch(w, s) /\ n = Len(b)
  OBVIOUS
<1>3. n \in 0..Len(songs) /\ b \in Seq(Songs) /\ DOMAIN b = 1..n
  BY <1>1, <1>2, Batched
<1>4. Commands(w, s) = [i \in 1..n |-> Add(p, songs[i])]
  BY <1>1, <1>2, <1>3 DEF Commands
<1>5. Len(Commands(w, s)) = n /\ \A i \in 1..n : Commands(w, s)[i] = Add(p, songs[i])
  BY <1>3, <1>4
<1>6. PICK k \in 0..Len(songs) :
           /\ Added(l, p, songs, k)
           /\ (v \in After(w, s) /\ k = n) \/ v = Undo(w, s) \/ v = Lost(w, s)
  <2>1. PICK cs : cs = Commands(w, s)
    OBVIOUS
  <2>2. Len(cs) \in 0..Len(songs) /\ \A i \in 1..Len(cs) : cs[i] = Add(p, songs[i])
    BY <1>3, <1>5, <2>1
  <2> QED
    BY <1>5, <2>1, <2>2, AddedOutcome DEF AddedTo
<1>7. v \in After(w, s) => v = Filled(w, n)
  BY <1>2 DEF After, Filled
<1> QED
  BY <1>1, <1>6, <1>7

-----------------------------------------------------------------------------
(* The jobs of the worker: shuffling and sorting.                          *)

(* The work after an exchange.                                             *)
NoRemoval(w) == \A i \in DOMAIN w.program : w.program[i].do # "rmdef"
Stopped(w, steps) == [w EXCEPT !.program = steps, !.result = "failed", !.buf = <<>>]

(* What is left of a program once its first step is replaced, or is done.  *)
LEMMA Advanced ==
  ASSUME NEW w, IsWork(w), NEW e, NEW rest, IsSeq(rest), w.program = <<e>> \o rest,
         NEW steps, IsSeq(steps)
  PROVE  /\ Instead(w, steps) = [w EXCEPT !.program = steps \o rest,
                                   !.result = IF steps \o rest = <<>> /\ w.result # "failed" THEN "ok" ELSE w.result]
         /\ Advance(w) = [w EXCEPT !.program = rest,
                            !.result = IF rest = <<>> /\ w.result # "failed" THEN "ok" ELSE w.result]
<1>1. Tail(w.program) = rest
  BY Starts
<1>2. <<>> \o rest = rest
  BY Nothing
<1> QED
  BY <1>1, <1>2 DEF Instead, Advance

(* What a failed step leaves to do: the cleanup of playlist_shuffle_sort.  *)
LEMMA Undone ==
  ASSUME NEW w, IsWork(w), w.result = "none", w.all # "update_all", NEW s, s.do \notin {"rmif", "crop", "check"}
  PROVE  Undo(w, s) = Stopped(w, IF s.do = "fill" /\ s.a = Tmp(w.nr) THEN <<Do("rm", s.a, "")>>
                                 ELSE IF s.do = "rename" /\ s.a = Tmp(w.nr) THEN <<Do("rename", Bak(w.nr), s.b)>>
                                 ELSE <<>>)
<1> DEFINE undo == IF s.do = "fill" /\ s.a = Tmp(w.nr) THEN <<Do("rm", s.a, "")>>
                   ELSE IF s.do = "rename" /\ s.a = Tmp(w.nr) THEN <<Do("rename", Bak(w.nr), s.b)>>
                   ELSE <<>>
<1>1. IsSeq(undo)
  <2>1. \A c : IsSeq(<<c>>)
    <3>1. \A c : <<c>> \in Seq({c})
      OBVIOUS
    <3> QED
      BY <3>1 DEF IsSeq
  <2> QED
    BY <2>1, Empty
<1>2. undo \o <<>> = undo
  BY <1>1, Nothing
<1>3. Undo(w, s) = [w EXCEPT !.program = undo \o <<>>, !.result = "failed", !.buf = <<>>]
  BY DEF Undo
<1> QED
  BY <1>2, <1>3 DEF Stopped

(* A lost connection ends the work: nothing is cleaned up.                 *)
LEMMA LostAll ==
  ASSUME NEW w, IsWork(w), w.all # "update_all", NoRemoval(w), NEW s, s.do # "crop"
  PROVE  Lost(w, s) = [w EXCEPT !.buf = <<>>, !.blind = TRUE, !.result = "failed", !.program = <<>>]
BY DEF Lost, NoRemoval

(* Parts of a list, one after the other.                                   *)
LEMMA Pieces ==
  ASSUME NEW E, NEW s \in Seq(E), NEW a \in 0..Len(s), NEW b \in a..Len(s)
  PROVE  /\ SubSeq(s, 1, a) \o SubSeq(s, a + 1, b) = SubSeq(s, 1, b)
         /\ SubSeq(s, a + 1, b) \in Seq(E) /\ Len(SubSeq(s, a + 1, b)) = b - a
         /\ SubSeq(s, 1, a) \in Seq(E) /\ Len(SubSeq(s, 1, a)) = a
         /\ a = 0 => SubSeq(s, 1, a) = <<>> /\ SubSeq(s, a + 1, b) = SubSeq(s, 1, b)
         /\ b = Len(s) => SubSeq(s, 1, b) = s
<1>1. PICK x, y, z : x = SubSeq(s, 1, a) /\ y = SubSeq(s, a + 1, b) /\ z = SubSeq(s, 1, b)
  OBVIOUS
<1>2. x \in Seq(E) /\ Len(x) = a /\ \A i \in 1..a : x[i] = s[i]
  BY <1>1
<1>3. y \in Seq(E) /\ Len(y) = b - a /\ \A i \in 1..b - a : y[i] = s[i + a]
  BY <1>1
<1>4. z \in Seq(E) /\ Len(z) = b /\ \A i \in 1..b : z[i] = s[i]
  BY <1>1
<1>5. x \o y = z
  <2>1. Len(x \o y) = b /\ x \o y \in Seq(E)
    <3>3. \A u, t \in Seq(E) : Len(u \o t) = Len(u) + Len(t) /\ u \o t \in Seq(E)
      OBVIOUS
    <3>1. Len(x \o y) = Len(x) + Len(y) /\ x \o y \in Seq(E)
      BY <1>2, <1>3, <3>3
    <3>2. a \in Nat /\ b \in Nat
      OBVIOUS
    <3> QED
      BY <1>2, <1>3, <3>1, <3>2
  <2>2. ASSUME NEW i \in 1..b PROVE (x \o y)[i] = z[i]
    <3>1. CASE i <= a
      BY <1>2, <1>3, <1>4, <3>1
    <3>2. CASE ~(i <= a)
      <4>1. PICK j : j = i - a
        OBVIOUS
      <4>2. j \in 1..b - a /\ i = j + a /\ (x \o y)[i] = y[j]
        BY <1>2, <1>3, <3>2, <4>1
      <4> QED
        BY <1>3, <1>4, <4>2
    <3> QED
      BY <3>1, <3>2
  <2> QED
    BY <1>4, <2>1, <2>2
<1>6. a = 0 => x = <<>> /\ y = z
  <2>1. a = 0 => SubSeq(s, a + 1, b) = SubSeq(s, 1, b)
    OBVIOUS
  <2> QED
    BY <1>1, <1>2, <2>1
<1>7. b = Len(s) => z = s
  BY <1>1
<1> QED
  BY <1>1, <1>2, <1>3, <1>5, <1>6, <1>7

(* Reading a playlist that stays as it is: more of it was read, or all.    *)
Got(w, p, how, buf) ==
  LET got == [w EXCEPT !.buf = buf, !.start = 0, !.pos = 0] IN
  CASE how = "shuffle"  -> {Advance([got EXCEPT !.buf = b]) : b \in Reorderings(buf)}
    [] how = "sort"     -> {Advance([got EXCEPT !.buf = Sorted(buf)])}
    [] how = "dedup"    -> {Instead([got EXCEPT !.buf = <<>>], Removals(p, buf))}
    [] how = "validate" -> {Instead([got EXCEPT !.buf = <<>>], Checks(p, buf, Len(buf)))}
    [] OTHER            -> {Advance(got)}

(* A step that reads goes on reading, or has read the whole list.          *)
LEMMA ReadStep ==
  ASSUME ranges \in BOOLEAN, NEW w, WorkOK(w), NEW p, NEW how, NEW x \in Seq(Songs), lists[p] = x,
         NEW read \in Seq(Songs), Reading(w, ranges, read, x), NEW v \in ReadPlist(w, p, how)
  PROVE  \/ \E b \in Seq(Songs), i, j \in Nat :
              v = [w EXCEPT !.buf = b, !.start = i, !.pos = j] /\ Reading(v, ranges, read, x)
         \/ v \in Got(w, p, how, read \o x)
<1> DEFINE N == Len(x)
           R == ResultsMax
           more == SubSeq(x, w.start + 1, N)
           part == IF ranges THEN Upto(more, R) ELSE x
           m == Len(part)
<1>1. N \in Nat /\ R \in Nat /\ R > 0 /\ w.start \in Nat /\ w.pos \in Nat /\ w.buf \in Seq(Songs) /\ IsWork(w)
  BY Kinds DEF WorkOK
<1> HIDE DEF N, R
<1>2. PICK c, i, j : /\ c = w.buf \o part /\ i = w.start + R /\ j = w.pos + m
                     /\ \/ j >= i /\ v = [w EXCEPT !.buf = c, !.start = i, !.pos = j]
                        \/ ~(j >= i) /\ v \in Got(w, p, how, c)
  BY DEF ReadPlist, Got, R, N
<1> HIDE DEF part, m, more
<1>3. CASE ~ranges
  <2>1. part = x /\ m = N
    BY <1>3 DEF part, m, N
  <2>2. CASE w.start = 0 /\ w.pos = 0 /\ w.buf = read
    <3>3. c = read \o x /\ i = R /\ j = N
      BY <1>1, <1>2, <2>1, <2>2
    <3>1. CASE N >= R
      <4>1. v = [w EXCEPT !.buf = c, !.start = i, !.pos = j]
        BY <1>1, <1>2, <3>1, <3>3
      <4>2. v.start = R /\ v.pos = N
        BY <1>1, <3>3, <4>1 DEF IsWork, Fields
      <4>3. read \o x \in Seq(Songs)
        OBVIOUS
      <4>4. Reading(v, ranges, read, x)
        BY <1>1, <1>3, <3>1, <4>2 DEF Reading, R, N
      <4> QED
        BY <1>1, <3>3, <4>1, <4>3, <4>4
    <3>2. CASE ~(N >= R)
      BY <1>1, <1>2, <3>2, <3>3
    <3> QED
      BY <3>1, <3>2
  <2>3. CASE w.pos >= w.start /\ N >= R
    <3>2. i \in Nat /\ j \in Nat /\ j >= i
      BY <1>1, <1>2, <2>1, <2>3
    <3>1. v = [w EXCEPT !.buf = c, !.start = i, !.pos = j]
      BY <1>2, <3>2
    <3>3. v.start = i /\ v.pos = j
      BY <1>1, <3>1 DEF IsWork, Fields
    <3>4. c \in Seq(Songs)
      BY <1>1, <1>2, <2>1
    <3>5. Reading(v, ranges, read, x)
      BY <1>3, <2>3, <3>2, <3>3 DEF Reading, R, N
    <3> QED
      BY <3>1, <3>2, <3>4, <3>5
  <2> QED
    BY <1>3, <2>2, <2>3 DEF Reading, N, R
<1>4. CASE ranges
  <2>1. PICK a \in 0..N : w.start = a /\ w.pos = a /\ w.buf = read \o SubSeq(x, 1, a)
    <3>1. CASE w.start = 0 /\ w.pos = 0 /\ w.buf = read
      <4>1. SubSeq(x, 1, 0) = <<>> /\ read \o <<>> = read
        OBVIOUS
      <4> QED
        BY <1>1, <3>1, <4>1
    <3>2. CASE w.pos = w.start /\ w.pos <= N /\ w.buf = read \o SubSeq(x, 1, w.pos)
      <4>1. w.pos \in 0..N
        BY <1>1, <3>2
      <4> QED
        BY <3>2, <4>1
    <3> QED
      BY <1>4, <3>1, <3>2 DEF Reading, N
  <2>2. more \in Seq(Songs) /\ Len(more) = N - a
    BY <1>1, <2>1 DEF more, N
  <2>3. part = SubSeq(more, 1, m) /\ m = (IF R < N - a THEN R ELSE N - a) /\ m \in 0..N - a
    <3>1. PICK t \in Seq(Songs) : t = more
      BY <2>2
    <3>2. part = Upto(t, R)
      BY <1>4, <3>1 DEF part
    <3>3. part = SubSeq(t, 1, Len(part)) /\ Len(part) = (IF R < Len(t) THEN R ELSE Len(t)) /\ Len(part) \in 0..Len(t)
      BY <1>1, <3>2, First
    <3> QED
      BY <2>2, <3>1, <3>3 DEF m
  <2>4. PICK b : b = a + m
    OBVIOUS
  <2>5. b \in a..N /\ b \in Nat
    BY <1>1, <2>3, <2>4
  <2>6. part = SubSeq(x, a + 1, b)
    <3>1. PICK t \in Seq(Songs) : t = more
      BY <2>2
    <3>2. SubSeq(t, 1, m) = SubSeq(x, a + 1, b)
      BY <1>1, <2>1, <2>2, <2>3, <2>4, <2>5, <3>1 DEF more, N
    <3> QED
      BY <2>3, <3>1, <3>2
  <2>7. w.buf \o part = read \o SubSeq(x, 1, b) /\ w.buf \o part \in Seq(Songs)
    <3>1. PICK u, t, z : u = SubSeq(x, 1, a) /\ t = SubSeq(x, a + 1, b) /\ z = SubSeq(x, 1, b)
      OBVIOUS
    <3>2. u \o t = z /\ u \in Seq(Songs) /\ t \in Seq(Songs)
      BY <2>5, <3>1, Pieces DEF N
    <3>3. (read \o u) \o t = read \o (u \o t) /\ (read \o u) \o t \in Seq(Songs)
      <4>1. \A a1, a2, a3 \in Seq(Songs) : (a1 \o a2) \o a3 = a1 \o (a2 \o a3) /\ (a1 \o a2) \o a3 \in Seq(Songs)
        BY SMTT(30)
      <4> QED
        BY <3>2, <4>1
    <3> QED
      BY <2>1, <2>6, <3>1, <3>2, <3>3
  <2>8. c = read \o SubSeq(x, 1, b) /\ i = a + R /\ j = b /\ c \in Seq(Songs)
    BY <1>2, <2>1, <2>4, <2>7
  <2>9. CASE m >= R
    <3>1. i = b /\ j = b
      BY <1>1, <2>1, <2>3, <2>4, <2>8, <2>9
    <3>2. v = [w EXCEPT !.buf = c, !.start = b, !.pos = b]
      <4>1. j >= i
        BY <2>5, <3>1
      <4> QED
        BY <1>2, <3>1, <4>1
    <3>3. v.start = b /\ v.pos = b /\ v.buf = c
      BY <1>1, <3>2 DEF IsWork, Fields
    <3>4. b <= Len(x)
      BY <1>1, <2>5 DEF N
    <3>5. Reading(v, ranges, read, x)
      BY <1>4, <2>8, <3>3, <3>4 DEF Reading
    <3> QED
      BY <2>5, <2>8, <3>2, <3>5
  <2>10. CASE ~(m >= R)
    <3>1. b = N /\ ~(j >= i)
      BY <1>1, <2>1, <2>3, <2>4, <2>8, <2>10
    <3>2. SubSeq(x, 1, b) = x
      BY <3>1 DEF N
    <3> QED
      BY <1>2, <2>8, <3>1, <3>2
  <2> QED
    BY <1>1, <2>3, <2>9, <2>10
<1> QED
  BY <1>3, <1>4

(* What a thread works on stays the same.                                  *)
Kin(v, w) ==
  /\ IsWork(v) /\ v.op = w.op /\ v.all = w.all /\ v.arg = w.arg /\ v.todo = w.todo /\ v.nr = w.nr
  /\ v.old = w.old /\ v.def = w.def /\ v.alone = w.alone

(* Work keeps its playlist, its number and what it began with when a step  *)
(* is done.                                                                *)
LEMMA KinSteps ==
  ASSUME NEW w, IsWork(w)
  PROVE  /\ \A steps : Kin(Instead(w, steps), w)
         /\ \A b, i, j : Kin([w EXCEPT !.buf = b, !.start = i, !.pos = j], w)
         /\ \A b, i : Kin([w EXCEPT !.buf = b, !.pos = i], w)
         /\ \A b : Kin([w EXCEPT !.buf = b], w) /\ Kin([w EXCEPT !.pos = b], w) /\ Kin([w EXCEPT !.blind = b], w)
         /\ \A steps, r, b : Kin([w EXCEPT !.program = steps, !.result = r, !.buf = b], w)
         /\ \A steps, r, b, c : Kin([w EXCEPT !.buf = b, !.blind = c, !.result = r, !.program = steps], w)
         /\ Kin(w, w)
<1>1. \A steps : Kin(Instead(w, steps), w)
  <2>1. SUFFICES ASSUME NEW steps PROVE Kin(Instead(w, steps), w)
    OBVIOUS
  <2>2. PICK q, r : q = steps \o Tail(w.program) /\ r = IF q = <<>> /\ w.result # "failed" THEN "ok" ELSE w.result
    OBVIOUS
  <2>3. Instead(w, steps) = [w EXCEPT !.program = q, !.result = r]
    BY <2>2 DEF Instead
  <2> QED
    BY <2>3 DEF Kin, IsWork, Fields
<1>2. ASSUME NEW b, NEW i, NEW j PROVE Kin([w EXCEPT !.buf = b, !.start = i, !.pos = j], w)
  <2>1. PICK v : v = [w EXCEPT !.buf = b, !.start = i, !.pos = j]
    OBVIOUS
  <2>2. /\ v.op = w.op /\ v.all = w.all /\ v.arg = w.arg /\ v.todo = w.todo /\ v.nr = w.nr
        /\ v.old = w.old /\ v.def = w.def /\ v.alone = w.alone
    BY <2>1 DEF IsWork, Fields
  <2>3. IsWork(v)
    BY <2>1 DEF IsWork, Fields
  <2> QED
    BY <2>1, <2>2, <2>3 DEF Kin
<1>3. \A b, i : Kin([w EXCEPT !.buf = b, !.pos = i], w)
  <2>1. SUFFICES ASSUME NEW b, NEW i PROVE Kin([w EXCEPT !.buf = b, !.pos = i], w)
    OBVIOUS
  <2>2. PICK v : v = [w EXCEPT !.buf = b, !.pos = i]
    OBVIOUS
  <2>3. /\ v.op = w.op /\ v.all = w.all /\ v.arg = w.arg /\ v.todo = w.todo /\ v.nr = w.nr
        /\ v.old = w.old /\ v.def = w.def /\ v.alone = w.alone
    BY <2>2 DEF IsWork, Fields
  <2>4. IsWork(v)
    BY <2>2 DEF IsWork, Fields
  <2> QED
    BY <2>2, <2>3, <2>4 DEF Kin
<1>4. \A b : Kin([w EXCEPT !.buf = b], w) /\ Kin([w EXCEPT !.pos = b], w) /\ Kin([w EXCEPT !.blind = b], w)
  BY DEF Kin, IsWork, Fields
<1>5. ASSUME NEW steps, NEW r, NEW b PROVE Kin([w EXCEPT !.program = steps, !.result = r, !.buf = b], w)
  <2>1. PICK v : v = [w EXCEPT !.program = steps, !.result = r, !.buf = b]
    OBVIOUS
  <2>2. /\ v.op = w.op /\ v.all = w.all /\ v.arg = w.arg /\ v.todo = w.todo /\ v.nr = w.nr
        /\ v.old = w.old /\ v.def = w.def /\ v.alone = w.alone
    BY <2>1 DEF IsWork, Fields
  <2>3. IsWork(v)
    BY <2>1 DEF IsWork, Fields
  <2> QED
    BY <2>1, <2>2, <2>3 DEF Kin
<1>6. ASSUME NEW steps, NEW r, NEW b, NEW c PROVE Kin([w EXCEPT !.buf = b, !.blind = c, !.result = r, !.program = steps], w)
  <2>1. PICK v : v = [w EXCEPT !.buf = b, !.blind = c, !.result = r, !.program = steps]
    OBVIOUS
  <2>2. /\ v.op = w.op /\ v.all = w.all /\ v.arg = w.arg /\ v.todo = w.todo /\ v.nr = w.nr
        /\ v.old = w.old /\ v.def = w.def /\ v.alone = w.alone
    BY <2>1 DEF IsWork, Fields
  <2>3. IsWork(v)
    BY <2>1 DEF IsWork, Fields
  <2> QED
    BY <2>1, <2>2, <2>3 DEF Kin
<1>7. Kin(w, w)
  BY DEF Kin
<1> QED
  BY <1>1, <1>2, <1>3, <1>4, <1>5, <1>6, <1>7

(* Work two steps later is the same work.                                  *)
LEMMA KinTrans ==
  ASSUME NEW u, NEW v, NEW w, Kin(v, u), Kin(w, v)
  PROVE  Kin(w, u)
BY DEF Kin

(* What was read decides the next steps only.                              *)
LEMMA KinGot ==
  ASSUME NEW w, IsWork(w), NEW p, NEW how, NEW buf, NEW v \in Got(w, p, how, buf)
  PROVE  Kin(v, w)
<1> DEFINE got == [w EXCEPT !.buf = buf, !.start = 0, !.pos = 0]
<1>1. Kin(got, w)
  BY KinSteps
<1>2. IsWork(got)
  BY <1>1 DEF Kin
<1> HIDE DEF got
<1>3. \A b : Kin([got EXCEPT !.buf = b], w)
  <2>1. \A b : Kin([got EXCEPT !.buf = b], got)
    BY <1>2, KinSteps
  <2> QED
    BY <1>1, <2>1, KinTrans
<1>4. ASSUME NEW g, Kin(g, w), NEW steps PROVE Kin(Instead(g, steps), w) /\ Kin(Advance(g), w)
  <2>1. IsWork(g)
    BY <1>4 DEF Kin
  <2>2. Kin(Instead(g, steps), g) /\ Kin(Instead(g, <<>>), g)
    BY <2>1, KinSteps
  <2> QED
    BY <1>4, <2>2, KinTrans DEF Advance
<1>5. \/ \E b \in Reorderings(buf) : v = Advance([got EXCEPT !.buf = b])
      \/ v = Advance([got EXCEPT !.buf = Sorted(buf)])
      \/ v = Instead([got EXCEPT !.buf = <<>>], Removals(p, buf))
      \/ v = Instead([got EXCEPT !.buf = <<>>], Checks(p, buf, Len(buf)))
      \/ v = Advance(got)
  BY DEF Got, got
<1> QED
  BY <1>1, <1>3, <1>4, <1>5

(* An exchange never changes which work it is part of.                     *)
LEMMA Kept ==
  ASSUME NEW w, IsWork(w), NEW l, NEW v, Outcome(w, l, v)
  PROVE  Kin(v, w)
<1> DEFINE s == Head(w.program)
<1>1. ASSUME NEW g, Kin(g, w), NEW steps PROVE Kin(Instead(g, steps), w) /\ Kin(Advance(g), w)
  <2>1. IsWork(g)
    BY <1>1 DEF Kin
  <2>2. Kin(Instead(g, steps), g) /\ Kin(Instead(g, <<>>), g)
    BY <2>1, KinSteps
  <2> QED
    BY <1>1, <2>2, KinTrans DEF Advance
<1>2. Kin(w, w)
  BY KinSteps
<1>3. CASE v = Lost(w, s)
  <2>1. PICK q, r : v = [w EXCEPT !.buf = <<>>, !.blind = TRUE, !.result = r, !.program = q]
    BY <1>3 DEF Lost
  <2> QED
    BY <2>1, KinSteps
<1>4. CASE v = Undo(w, s)
  <2>1. CASE w.result = "failed" \/ s.do \in {"rmif", "crop", "check"}
    <3>1. PICK b, steps : v \in {Advance(w), Advance([w EXCEPT !.blind = TRUE]), Instead([w EXCEPT !.blind = b], steps)}
      <4>1. CASE w.result = "failed"
        BY <1>4, <4>1 DEF Undo
      <4>2. CASE w.result # "failed" /\ s.do \in {"rmif", "crop"}
        BY <1>4, <4>2 DEF Undo
      <4>3. CASE w.result # "failed" /\ s.do = "check"
        BY <1>4, <4>3 DEF Undo
      <4> QED
        BY <2>1, <4>1, <4>2, <4>3
    <3>2. Kin([w EXCEPT !.blind = TRUE], w) /\ Kin([w EXCEPT !.blind = b], w)
      BY KinSteps
    <3> QED
      BY <1>1, <1>2, <3>1, <3>2
  <2>2. CASE w.result # "failed" /\ s.do \notin {"rmif", "crop", "check"}
    <3>1. PICK q : v = [w EXCEPT !.program = q, !.result = "failed", !.buf = <<>>]
      BY <1>4, <2>2 DEF Undo
    <3> QED
      BY <3>1, KinSteps
  <2> QED
    BY <2>1, <2>2
<1>5. CASE v \in After(w, s)
  <2>1. CASE s.do = "read"
    <3>1. v \in ReadPlist(w, s.a, s.b)
      BY <1>5, <2>1 DEF After
    <3>2. (\E b, i, j : v = [w EXCEPT !.buf = b, !.start = i, !.pos = j]) \/ (\E b : v \in Got(w, s.a, s.b, b))
      BY <3>1 DEF ReadPlist, Got
    <3>3. CASE \E b, i, j : v = [w EXCEPT !.buf = b, !.start = i, !.pos = j]
      <4>1. PICK b, i, j : v = [w EXCEPT !.buf = b, !.start = i, !.pos = j]
        BY <3>3
      <4>2. Kin([w EXCEPT !.buf = b, !.start = i, !.pos = j], w)
        BY KinSteps
      <4> QED
        BY <4>1, <4>2
    <3>4. CASE \E b : v \in Got(w, s.a, s.b, b)
      BY <3>4, KinGot
    <3> QED
      BY <3>2, <3>3, <3>4
  <2>2. CASE s.do = "find"
    <3>1. v = Advance([w EXCEPT !.buf = Found(s.b)])
      BY <1>5, <2>2 DEF After
    <3>2. Kin([w EXCEPT !.buf = Found(s.b)], w)
      BY KinSteps
    <3> QED
      BY <1>1, <3>1, <3>2
  <2>3. CASE s.do \in {"fill", "put"}
    <3>1. PICK b, i : LET rest == [w EXCEPT !.buf = b, !.pos = i] IN v = rest \/ v = Advance([rest EXCEPT !.pos = 0])
      BY <1>5, <2>3 DEF After
    <3>2. Kin([w EXCEPT !.buf = b, !.pos = i], w)
      BY KinSteps
    <3>3. PICK g : g = [w EXCEPT !.buf = b, !.pos = i]
      OBVIOUS
    <3>6. Kin(g, w) /\ IsWork(g)
      BY <3>2, <3>3 DEF Kin
    <3>4. Kin(g, w) /\ Kin([g EXCEPT !.pos = 0], g)
      BY <3>6, KinSteps
    <3>5. Kin([g EXCEPT !.pos = 0], w)
      BY <3>4, KinTrans
    <3> QED
      BY <1>1, <3>1, <3>3, <3>4, <3>5
  <2>4. CASE s.do \notin {"read", "find", "fill", "put"}
    <3>1. v = Advance(w) \/ \E steps : v = Instead(w, steps)
      <4>1. CASE s.do = "check"
        BY <1>5, <4>1 DEF After
      <4>2. CASE s.do = "delete"
        BY <1>5, <4>2 DEF After
      <4>3. CASE s.do = "delete_all"
        BY <1>5, <4>3 DEF After
      <4>4. CASE s.do \notin {"read", "find", "fill", "put", "check", "delete", "delete_all"}
        BY <1>5, <4>4 DEF After
      <4> QED
        BY <2>4, <4>1, <4>2, <4>3, <4>4
    <3> QED
      BY <1>1, <1>2, <3>1
  <2> QED
    BY <2>1, <2>2, <2>3, <2>4
<1> QED
  BY <1>3, <1>4, <1>5 DEF Outcome

(* The playlists a job is about, and what becomes of the work.             *)
LEMMA Three ==
  ASSUME NEW w, w.nr \in JobIds, w.arg \in Plists
  PROVE  /\ w.arg \in PlistNames /\ Tmp(w.nr) \in PlistNames /\ Bak(w.nr) \in PlistNames
         /\ w.arg # Tmp(w.nr) /\ w.arg # Bak(w.nr) /\ Tmp(w.nr) # Bak(w.nr)
BY Names

(* The answer to a single command of a job.                                *)
LEMMA Renamed ==
  ASSUME lists \in Stored, NEW p \in PlistNames, NEW q \in PlistNames, NEW l, l = MpdCommand(lists, Do("rename", p, q)), l # NoList, p # q
  PROVE  /\ lists[p] # NoList /\ lists[q] = NoList /\ l[p] = NoList /\ l[q] = lists[p]
         /\ \A n \in PlistNames \ {p, q} : l[n] = lists[n]
<1> DEFINE c == Do("rename", p, q)
<1>1. c.do = "rename" /\ c.a = p /\ c.b = q
  BY DEF Do
<1> HIDE DEF c
<1>2. lists[p] # NoList /\ lists[q] = NoList /\ l = [lists EXCEPT ![p] = NoList, ![q] = lists[p]]
  BY <1>1 DEF MpdCommand, c
<1> QED
  BY <1>2 DEF Stored

(* Removing a playlist leaves every other one.                             *)
LEMMA RemovedPlist ==
  ASSUME lists \in Stored, NEW p \in PlistNames, NEW c, c.do = "rm", c.a = p, NEW l, l = MpdCommand(lists, c), l # NoList
  PROVE  lists[p] # NoList /\ l[p] = NoList /\ \A n \in PlistNames \ {p} : l[n] = lists[n]
<1>2. lists[p] # NoList /\ l = [lists EXCEPT ![p] = NoList]
  BY DEF MpdCommand
<1> QED
  BY <1>2 DEF Stored

(* A step that is one command: the outcomes of OneOutcome, by name.        *)
LEMMA Told1 ==
  ASSUME lists \in Stored, NEW w, WorkOK(w), NEW l, NEW v, Outcome(w, l, v), NEW s, w.program # <<>>, s = Head(w.program),
         s.do \in {"add", "insert", "del", "delfrom", "move", "rename", "rm", "clear"}
  PROVE  \/ l = lists /\ (v = Undo(w, s) \/ v = Lost(w, s))
         \/ l = MpdCommand(lists, s) /\ l # NoList /\ (v = Advance(w) \/ v = Lost(w, s))
<1>1. Commands(w, s) = <<s>>
  BY DEF Commands
<1>2. Tellable(s)
  <2>1. StepOK(w, s)
    BY Programs
  <2> QED
    BY <2>1 DEF Tellable, StepOK
<1>3. After(w, s) = {Advance(w)}
  BY DEF After
<1> QED
  BY <1>1, <1>2, <1>3, OneOutcome

(* A refused or a lost command fails the work.                             *)
LEMMA Failures ==
  ASSUME NEW w, IsWork(w), w.result = "none", NEW s, s.do \notin {"rmif", "crop", "check"}
  PROVE  Undo(w, s).result = "failed" /\ Lost(w, s).result = "failed"
<1>1. PICK q : Undo(w, s) = [w EXCEPT !.program = q, !.result = "failed", !.buf = <<>>]
  BY DEF Undo
<1>2. PICK d : Lost(w, s) = [w EXCEPT !.buf = <<>>, !.blind = TRUE, !.result = "failed", !.program = d]
  BY DEF Lost
<1>3. Undo(w, s).result = "failed"
  BY <1>1 DEF IsWork, Fields
<1>4. Lost(w, s).result = "failed"
  BY <1>2 DEF IsWork, Fields
<1> QED
  BY <1>3, <1>4

(* Advancing to what is left of a program.                                 *)
IsAfter(v, w, rest) ==
  /\ v.program = rest /\ v.start = w.start /\ v.pos = w.pos /\ v.buf = w.buf /\ v.blind = w.blind
  /\ rest # <<>> => v.result = "none"
  /\ rest = <<>> => v.result = "ok"

(* A step that was done leaves the rest of the program.                    *)
LEMMA AdvancedTo ==
  ASSUME NEW w, IsWork(w), w.result = "none", NEW e, NEW rest, IsSeq(rest), w.program = <<e>> \o rest, NEW v, v = Advance(w)
  PROVE  IsAfter(v, w, rest)
<1>1. PICK r : r = IF rest = <<>> /\ w.result # "failed" THEN "ok" ELSE w.result
  OBVIOUS
<1>4. Advance(w) = [w EXCEPT !.program = rest,
                      !.result = IF rest = <<>> /\ w.result # "failed" THEN "ok" ELSE w.result]
  <2>1. Tail(w.program) = rest
    BY Starts
  <2>2. <<>> \o rest = rest
    BY Nothing
  <2> QED
    BY <2>1, <2>2 DEF Advance, Instead
<1>2. v = [w EXCEPT !.program = rest, !.result = r]
  BY <1>1, <1>4
<1>3. v.program = rest /\ v.result = r /\ v.start = w.start /\ v.pos = w.pos /\ v.buf = w.buf /\ v.blind = w.blind
  BY <1>2 DEF IsWork, Fields
<1> QED
  BY <1>1, <1>3 DEF IsAfter

(* What is left of a job that puts a playlist in order.                    *)
LEMMA Parts ==
  ASSUME NEW w, NEW p, NEW rest, IsSeq(rest)
  PROVE  /\ IsSeq(Dropping(w, p, rest)) /\ IsSeq(Naming(w, p, rest)) /\ IsSeq(Saving(w, p, rest)) /\ IsSeq(Filling(w, p, rest))
         /\ Dropping(w, p, rest) # <<>> /\ Naming(w, p, rest) # <<>> /\ Saving(w, p, rest) # <<>> /\ Filling(w, p, rest) # <<>>
<1>1. IsSeq(Dropping(w, p, rest)) /\ Dropping(w, p, rest) # <<>>
  BY Starts DEF Dropping
<1>2. IsSeq(Naming(w, p, rest)) /\ Naming(w, p, rest) # <<>>
  BY <1>1, Starts DEF Naming
<1>3. IsSeq(Saving(w, p, rest)) /\ Saving(w, p, rest) # <<>>
  BY <1>2, Starts DEF Saving
<1>4. IsSeq(Filling(w, p, rest)) /\ Filling(w, p, rest) # <<>>
  BY <1>3, Starts DEF Filling
<1> QED
  BY <1>1, <1>2, <1>3, <1>4

(* A job gives up: what it changed is undone, or remains in the new or the *)
(* backup playlist.                                                        *)
LEMMA GivesUp ==
  ASSUME NEW w, IsWork(w), w.result = "none", w.all # "update_all", NoRemoval(w), NEW s, s.do \notin {"rmif", "crop", "check"},
         NEW v, NEW c
  PROVE  /\ v = Lost(w, s) => v.program = <<>>
         /\ v = Undo(w, s) /\ s.do = "fill" /\ s.a = Tmp(w.nr) => v.program = <<Do("rm", Tmp(w.nr), "")>>
         /\ v = Undo(w, s) /\ s = Do("rename", Tmp(w.nr), c) => v.program = <<Do("rename", Bak(w.nr), c)>>
         /\ v = Undo(w, s) /\ ~(s.do \in {"fill", "rename"} /\ s.a = Tmp(w.nr)) => v.program = <<>>
<1>1. v = Lost(w, s) => v.program = <<>>
  <2>1. PICK u : u = [w EXCEPT !.buf = <<>>, !.blind = TRUE, !.result = "failed", !.program = <<>>]
    OBVIOUS
  <2>2. u.program = <<>>
    BY <2>1 DEF IsWork, Fields
  <2>3. Lost(w, s) = u
    BY <2>1, LostAll
  <2> QED
    BY <2>2, <2>3
<1>2. PICK q : q = IF s.do = "fill" /\ s.a = Tmp(w.nr) THEN <<Do("rm", s.a, "")>>
                   ELSE IF s.do = "rename" /\ s.a = Tmp(w.nr) THEN <<Do("rename", Bak(w.nr), s.b)>>
                   ELSE <<>>
  OBVIOUS
<1>3. Undo(w, s) = Stopped(w, q)
  BY <1>2, Undone
<1>4. Stopped(w, q).program = q
  BY DEF Stopped, IsWork, Fields
<1>5. s = Do("rename", Tmp(w.nr), c) => s.do = "rename" /\ s.a = Tmp(w.nr) /\ s.b = c
  BY DEF Do
<1> QED
  BY <1>1, <1>2, <1>3, <1>4, <1>5

(* The backup takes its name back when the new playlist cannot be named.   *)
LEMMA RenameUndone ==
  ASSUME NEW w, IsWork(w), w.result = "none", w.all # "update_all", NoRemoval(w), NEW c,
         NEW v, v = Undo(w, Do("rename", Tmp(w.nr), c))
  PROVE  v.program = <<Do("rename", Bak(w.nr), c)>>
<1>1. PICK s : s = Do("rename", Tmp(w.nr), c)
  OBVIOUS
<1>2. s.do \notin {"rmif", "crop", "check"} /\ v = Undo(w, s)
  BY <1>1 DEF Do
<1> QED
  BY <1>1, <1>2, GivesUp

(* An exchange of a job that puts a playlist in order.                     *)
Reached(w, v, l, how, s, rest) ==
  LET now == l[w.arg]
      new == l[Tmp(w.nr)]
      bak == l[Bak(w.nr)] IN
  \/ v.result = "none" /\ Reordering(v, now, new, bak, ranges, how, s, rest)
  \/ /\ v.program = rest /\ (rest # <<>> => v.result = "none") /\ (rest = <<>> => v.result = "ok")
     /\ Fresh(v) /\ now # NoList /\ Reordered(now, s, how) /\ new = NoList /\ bak = NoList
  \/ v.result = "failed" /\ (w.all # "update_all" /\ NoRemoval(w) => GivenUp(v, now, new, bak, s))

(* A step of shuffling or sorting: the next stage, or given up with the    *)
(* list kept.                                                              *)
LEMMA ReorderingStep ==
  ASSUME lists \in Stored, ranges \in BOOLEAN, NEW w, WorkOK(w), w.nr \in JobIds, w.arg \in Plists, w.result = "none",
         NEW how \in {"shuffle", "sort"}, NEW s \in Seq(Songs), NEW rest, IsSeq(rest),
         Reordering(w, lists[w.arg], lists[Tmp(w.nr)], lists[Bak(w.nr)], ranges, how, s, rest),
         NEW l, NEW v, Outcome(w, l, v)
  PROVE  Reached(w, v, l, how, s, rest)
<1> DEFINE p == w.arg
           T == Tmp(w.nr)
           B == Bak(w.nr)
           e == Head(w.program)
<1>1. IsWork(w) /\ Kin(v, w)
  <2>1. IsWork(w)
    BY DEF WorkOK
  <2> QED
    BY <2>1, Kept
<1>2. IsWork(v) /\ v.arg = p /\ v.nr = w.nr /\ v.all = w.all
  BY <1>1 DEF Kin
<1>3. p \in PlistNames /\ T \in PlistNames /\ B \in PlistNames /\ p # T /\ p # B /\ T # B
  BY Three
<1>4. /\ IsSeq(Dropping(w, p, rest)) /\ IsSeq(Naming(w, p, rest)) /\ IsSeq(Saving(w, p, rest)) /\ IsSeq(Filling(w, p, rest))
      /\ Dropping(w, p, rest) # <<>> /\ Naming(w, p, rest) # <<>> /\ Saving(w, p, rest) # <<>> /\ Filling(w, p, rest) # <<>>
  BY Parts
<1>5. /\ Dropping(v, p, rest) = Dropping(w, p, rest) /\ Naming(v, p, rest) = Naming(w, p, rest)
      /\ Saving(v, p, rest) = Saving(w, p, rest) /\ Filling(v, p, rest) = Filling(w, p, rest)
  BY <1>2 DEF Dropping, Naming, Saving, Filling
<1>6. s # NoList /\ s \in Reorderings(s) /\ s \in Reorderings(s) /\ Content(NoList) = <<>> /\ \A x \in Seq(Songs) : Content(x) = x
  <2>1. s \in Reorderings(s)
    BY SortedShuffled, Kinds
  <2> QED
    BY <2>1, Kinds DEF Content
<1>7. w.program # <<>>
  BY <1>4, Starts DEF Reordering
<1>8. ASSUME v = Undo(w, e) \/ v = Lost(w, e), e.do \notin {"rmif", "crop", "check"}
      PROVE  v.result = "failed"
  BY <1>1, <1>8, Failures
<1>9. ASSUME v = Lost(w, e), e.do \notin {"rmif", "crop", "check"}, NEW x \in {l[p], l[T], l[B]}, x # NoList, x \in Reorderings(s)
      PROVE  Reached(w, v, l, how, s, rest)
  <2>1. ASSUME w.all # "update_all", NoRemoval(w) PROVE GivenUp(v, l[p], l[T], l[B], s)
    <3>1. v.program = <<>>
      BY <1>1, <1>9, <2>1, GivesUp
    <3> QED
      BY <1>9, <3>1 DEF GivenUp
  <2> QED
    BY <1>8, <1>9, <2>1 DEF Reached
<1>15. PICK fill, rm : fill = Do("fill", T, "") /\ rm = Do("rm", B, "")
  OBVIOUS
<1>16. /\ fill.do = "fill" /\ fill.a = T /\ rm.do = "rm" /\ rm.a = B
       /\ Filling(w, p, rest) = <<fill>> \o Saving(w, p, rest) /\ Dropping(w, p, rest) = <<rm>> \o rest
  BY <1>15 DEF Do, Filling, Dropping
<1>10. CASE /\ w.program = <<Do("read", p, how)>> \o Filling(w, p, rest) /\ Reading(w, ranges, <<>>, s)
            /\ lists[p] = s /\ lists[T] = NoList /\ lists[B] = NoList
  <2>1. e = Do("read", p, how) /\ e.do = "read" /\ e.a = p /\ e.b = how
    BY <1>4, <1>10, Starts DEF Do
  <2>2. l = lists /\ (v \in After(w, e) \/ v = Undo(w, e) \/ v = Lost(w, e))
    <3>1. Commands(w, e) = <<>>
      BY <2>1 DEF Commands
    <3> QED
      BY <3>1, QuietOutcome
  <2>3. CASE v \in After(w, e)
    <3>1. v \in ReadPlist(w, p, how)
      BY <2>1, <2>3 DEF After
    <3>2. <<>> \in Seq(Songs) /\ <<>> \o s = s
      OBVIOUS
    <3>3. \/ \E b \in Seq(Songs), i, j \in Nat :
                v = [w EXCEPT !.buf = b, !.start = i, !.pos = j] /\ Reading(v, ranges, <<>>, s)
          \/ v \in Got(w, p, how, s)
      <4>1. PICK r : r = <<>>
        OBVIOUS
      <4>2. r \in Seq(Songs) /\ r \o s = s /\ Reading(w, ranges, r, s)
        BY <1>10, <3>2, <4>1
      <4>3. \/ \E b \in Seq(Songs), i, j \in Nat :
                 v = [w EXCEPT !.buf = b, !.start = i, !.pos = j] /\ Reading(v, ranges, r, s)
            \/ v \in Got(w, p, how, r \o s)
        BY <1>10, <3>1, <4>2, ReadStep
      <4> QED
        BY <4>1, <4>2, <4>3
    <3>4. CASE v \in Got(w, p, how, s)
      <4>1. PICK b : b \in Reorderings(s) /\ (how = "sort" => b = Sorted(s))
                     /\ v = Advance([[w EXCEPT !.buf = s, !.start = 0, !.pos = 0] EXCEPT !.buf = b])
        <5>1. Sorted(s) \in Reorderings(s)
          BY SortedShuffled, Kinds
        <5> QED
          BY <3>4, <5>1 DEF Got
      <4>2. PICK u : u = [[w EXCEPT !.buf = s, !.start = 0, !.pos = 0] EXCEPT !.buf = b]
        OBVIOUS
      <4>3. IsWork(u) /\ u.program = w.program /\ u.result = "none" /\ u.buf = b /\ u.start = 0
        BY <1>1, <4>2 DEF IsWork, Fields
      <4>4. v.program = Filling(w, p, rest) /\ v.start = 0 /\ v.buf = b /\ v.result = "none"
        <5>1. v = Advance(u)
          BY <4>1, <4>2
        <5>2. u.program = <<Do("read", p, how)>> \o Filling(w, p, rest)
          BY <1>10, <4>3
        <5>3. PICK f, r : f = Do("read", p, how) /\ r = Filling(w, p, rest)
          OBVIOUS
        <5>4. IsSeq(r) /\ r # <<>> /\ u.program = <<f>> \o r
          BY <1>4, <5>2, <5>3
        <5>5. IsAfter(v, u, r)
          BY <4>3, <5>1, <5>4, AdvancedTo
        <5> QED
          BY <4>3, <5>3, <5>4, <5>5 DEF IsAfter
      <4>5. b \in Seq(Songs) /\ <<>> \o b = b
        BY <4>1, Shuffled
      <4>6. Reordered(Content(l[T]) \o v.buf, s, how)
        BY <1>6, <1>10, <2>2, <4>1, <4>4, <4>5 DEF Reordered
      <4>7. Reordering(v, l[p], l[T], l[B], ranges, how, s, rest)
        BY <1>2, <1>5, <1>10, <2>2, <4>4, <4>6 DEF Reordering
      <4> QED
        BY <4>4, <4>7 DEF Reached
    <3>5. CASE \E b \in Seq(Songs), i, j \in Nat :
                v = [w EXCEPT !.buf = b, !.start = i, !.pos = j] /\ Reading(v, ranges, <<>>, s)
      <4>1. PICK b, i, j : v = [w EXCEPT !.buf = b, !.start = i, !.pos = j] /\ Reading(v, ranges, <<>>, s)
        BY <3>5
      <4>2. v.program = w.program /\ v.result = "none"
        BY <1>1, <4>1 DEF IsWork, Fields
      <4>3. Reordering(v, l[p], l[T], l[B], ranges, how, s, rest)
        BY <1>2, <1>5, <1>10, <2>2, <4>1, <4>2 DEF Reordering
      <4> QED
        BY <4>2, <4>3 DEF Reached
    <3> QED
      BY <3>3, <3>4, <3>5
  <2>4. CASE v = Undo(w, e)
    <3>1. ASSUME w.all # "update_all", NoRemoval(w) PROVE GivenUp(v, l[p], l[T], l[B], s)
      <4>1. v.program = <<>>
        BY <1>1, <2>1, <2>4, <3>1, GivesUp
      <4> QED
        BY <1>6, <1>10, <2>2, <4>1 DEF GivenUp
    <3> QED
      BY <1>8, <2>1, <2>4, <3>1 DEF Reached
  <2>5. CASE v = Lost(w, e)
    BY <1>6, <1>9, <1>10, <2>1, <2>2, <2>5
  <2> QED
    BY <2>2, <2>3, <2>4, <2>5
<1>11. CASE /\ w.program = Filling(w, p, rest) /\ w.start = 0
            /\ lists[p] = s /\ lists[B] = NoList /\ Reordered(Content(lists[T]) \o w.buf, s, how)
  <2>1. e = fill /\ e.do = "fill" /\ e.a = T
    BY <1>4, <1>11, <1>16, Starts
  <2>2. PICK k \in 0..Len(w.buf) : Added(l, T, w.buf, k) /\ (v = Filled(w, k) \/ v = Undo(w, e) \/ v = Lost(w, e))
    <3>1. PICK f : f = Head(w.program)
      OBVIOUS
    <3>2. f.do = "fill" /\ T = f.a
      BY <2>1, <3>1
    <3>3. \E k \in 0..Len(w.buf) : Added(l, T, w.buf, k) /\ (v = Filled(w, k) \/ v = Undo(w, f) \/ v = Lost(w, f))
      BY <1>3, <3>1, <3>2, FillOutcome DEF FilledTo
    <3> QED
      BY <3>1, <3>3
  <2>3. l[p] = s /\ l[B] = NoList /\ Content(l[T]) = Content(lists[T]) \o SubSeq(w.buf, 1, k)
    BY <1>3, <1>11, <2>2 DEF Added
  <2>4. CASE v = Filled(w, k)
    <3>1. PICK songs \in Seq(Songs), c \in Seq(Songs) : songs = w.buf /\ c = Content(lists[T])
      <4>1. Content(lists[T]) \in Seq(Songs)
        <5>1. lists[T] \in Seq(Songs) \union {NoList}
          BY <1>3 DEF Stored
        <5> QED
          BY <5>1 DEF Content
      <4> QED
        BY <4>1 DEF WorkOK
    <3>2. PICK a, b : a = SubSeq(songs, 1, k) /\ b = SubSeq(songs, k + 1, Len(songs))
      OBVIOUS
    <3>3. a \in Seq(Songs) /\ b \in Seq(Songs) /\ a \o b = songs
      <4>1. k \in 0..Len(songs) /\ Len(songs) \in k..Len(songs)
        BY <2>2, <3>1
      <4>2. PICK m : m = Len(songs)
        OBVIOUS
      <4>3. k \in 0..Len(songs) /\ m \in k..Len(songs)
        BY <4>1, <4>2
      <4>4. /\ SubSeq(songs, 1, k) \o SubSeq(songs, k + 1, m) = SubSeq(songs, 1, m)
            /\ SubSeq(songs, k + 1, m) \in Seq(Songs) /\ SubSeq(songs, 1, k) \in Seq(Songs)
        BY <4>3, Pieces
      <4>5. SubSeq(songs, 1, m) = songs
        BY <4>2
      <4> QED
        BY <3>2, <4>2, <4>4, <4>5
    <3>4. Content(l[T]) \o b = c \o songs
      <4>1. \A x, y, z \in Seq(Songs) : (x \o y) \o z = x \o (y \o z)
        BY SMTT(30)
      <4>2. Content(l[T]) = c \o a
        BY <2>3, <3>1, <3>2
      <4>3. (c \o a) \o b = c \o (a \o b)
        BY <3>3, <4>1
      <4> QED
        BY <3>3, <4>2, <4>3
    <3>5. PICK i, u : i = w.pos + k /\ u = [w EXCEPT !.buf = b, !.pos = i]
      OBVIOUS
    <3>6. IsWork(u) /\ u.buf = b /\ u.start = 0 /\ u.program = w.program /\ u.result = "none"
      BY <1>1, <1>11, <3>5 DEF IsWork, Fields
    <3>7. v = IF b = <<>> THEN Advance([u EXCEPT !.pos = 0]) ELSE u
      <4>1. [w EXCEPT !.buf = SubSeq(w.buf, k + 1, Len(w.buf)), !.pos = w.pos + k] = u
        BY <3>1, <3>2, <3>5
      <4> QED
        BY <2>4, <3>6, <4>1 DEF Filled
    <3>8. CASE b = <<>>
      <4>1. PICK y : y = [u EXCEPT !.pos = 0]
        OBVIOUS
      <4>2. IsWork(y) /\ y.buf = <<>> /\ y.start = 0 /\ y.pos = 0 /\ y.program = w.program /\ y.result = "none"
        BY <3>6, <3>8, <4>1 DEF IsWork, Fields
      <4>3. y.program = <<fill>> \o Saving(w, p, rest) /\ v = Advance(y)
        BY <1>11, <1>16, <3>7, <3>8, <4>1, <4>2
      <4>4. v.program = Saving(w, p, rest) /\ v.start = 0 /\ v.pos = 0 /\ v.buf = <<>> /\ v.result = "none"
        <5>1. IsAfter(v, y, Saving(w, p, rest))
          BY <1>4, <4>2, <4>3, AdvancedTo
        <5> QED
          BY <1>4, <4>2, <5>1 DEF IsAfter
      <4>5. Content(l[T]) \o <<>> = Content(l[T])
        <5>1. c \o a \in Seq(Songs) /\ (c \o a) \o <<>> = c \o a
          BY <3>3
        <5> QED
          BY <2>3, <3>1, <3>2, <5>1
      <4>6. Reordered(Content(l[T]), s, how)
        BY <1>11, <3>1, <3>4, <3>8, <4>5
      <4>7. Reordering(v, l[p], l[T], l[B], ranges, how, s, rest)
        BY <1>2, <1>5, <2>3, <4>4, <4>6 DEF Reordering, Fresh
      <4> QED
        BY <4>4, <4>7 DEF Reached
    <3>9. CASE b # <<>>
      <4>1. v = u
        BY <3>7, <3>9
      <4>2. Reordered(Content(l[T]) \o v.buf, s, how)
        BY <1>11, <3>1, <3>4, <3>6, <4>1
      <4>3. Reordering(v, l[p], l[T], l[B], ranges, how, s, rest)
        BY <1>2, <1>5, <1>11, <2>3, <3>6, <4>1, <4>2 DEF Reordering
      <4> QED
        BY <3>6, <4>1, <4>3 DEF Reached
    <3> QED
      BY <3>8, <3>9
  <2>5. CASE v = Undo(w, e)
    <3>1. ASSUME w.all # "update_all", NoRemoval(w) PROVE GivenUp(v, l[p], l[T], l[B], s)
      <4>1. v.program = <<Do("rm", T, "")>>
        BY <1>1, <2>1, <2>5, <3>1, GivesUp
      <4> QED
        BY <1>2, <2>3, <4>1 DEF GivenUp
    <3> QED
      BY <1>8, <2>1, <2>5, <3>1 DEF Reached
  <2>6. CASE v = Lost(w, e)
    BY <1>6, <1>9, <2>1, <2>3, <2>6
  <2> QED
    BY <2>2, <2>4, <2>5, <2>6
<1>12. CASE /\ w.program = Saving(w, p, rest) /\ Fresh(w)
            /\ lists[p] = s /\ lists[B] = NoList /\ Reordered(Content(lists[T]), s, how)
  <2>1. e = Do("rename", p, B) /\ e.do = "rename" /\ e.a = p /\ e.b = B
    BY <1>4, <1>12, Starts DEF Do, Saving
  <2>2. \/ l = lists /\ (v = Undo(w, e) \/ v = Lost(w, e))
        \/ l = MpdCommand(lists, e) /\ l # NoList /\ (v = Advance(w) \/ v = Lost(w, e))
    BY <1>7, <2>1, Told1
  <2>3. CASE l = MpdCommand(lists, e) /\ l # NoList /\ (v = Advance(w) \/ v = Lost(w, e))
    <3>1. l[p] = NoList /\ l[B] = s /\ l[T] = lists[T]
      BY <1>3, <1>12, <2>1, <2>3, Renamed
    <3>2. CASE v = Advance(w)
      <4>1. v.program = Naming(w, p, rest) /\ v.start = 0 /\ v.pos = 0 /\ v.buf = <<>> /\ v.result = "none"
        <5>1. w.program = <<e>> \o Naming(w, p, rest)
          BY <1>12, <2>1 DEF Saving
        <5>2. IsAfter(v, w, Naming(w, p, rest))
          BY <1>1, <1>4, <3>2, <5>1, AdvancedTo
        <5> QED
          BY <1>4, <1>12, <5>2 DEF IsAfter, Fresh
      <4>2. Reordering(v, l[p], l[T], l[B], ranges, how, s, rest)
        BY <1>2, <1>5, <1>12, <3>1, <4>1 DEF Reordering, Fresh
      <4> QED
        BY <4>1, <4>2 DEF Reached
    <3>3. CASE v = Lost(w, e)
      BY <1>6, <1>9, <2>1, <3>1, <3>3
    <3> QED
      BY <2>3, <3>2, <3>3
  <2>4. CASE l = lists /\ v = Undo(w, e)
    <3>1. ASSUME w.all # "update_all", NoRemoval(w) PROVE GivenUp(v, l[p], l[T], l[B], s)
      <4>1. v.program = <<>>
        BY <1>1, <1>3, <2>1, <2>4, <3>1, GivesUp
      <4> QED
        BY <1>6, <1>12, <2>4, <4>1 DEF GivenUp
    <3> QED
      BY <1>8, <2>1, <2>4, <3>1 DEF Reached
  <2>5. CASE l = lists /\ v = Lost(w, e)
    BY <1>6, <1>9, <1>12, <2>1, <2>5
  <2> QED
    BY <2>2, <2>3, <2>4, <2>5
<1>13. CASE /\ w.program = Naming(w, p, rest) /\ Fresh(w)
            /\ lists[p] = NoList /\ lists[B] = s /\ Reordered(Content(lists[T]), s, how)
  <2>1. e = Do("rename", T, p) /\ e.do = "rename" /\ e.a = T /\ e.b = p
    BY <1>4, <1>13, Starts DEF Do, Naming
  <2>2. \/ l = lists /\ (v = Undo(w, e) \/ v = Lost(w, e))
        \/ l = MpdCommand(lists, e) /\ l # NoList /\ (v = Advance(w) \/ v = Lost(w, e))
    BY <1>7, <2>1, Told1
  <2>3. CASE l = MpdCommand(lists, e) /\ l # NoList /\ (v = Advance(w) \/ v = Lost(w, e))
    <3>1. l[T] = NoList /\ l[p] = lists[T] /\ lists[T] # NoList /\ l[B] = s
      BY <1>3, <1>13, <2>1, <2>3, Renamed
    <3>2. CASE v = Advance(w)
      <4>1. v.program = Dropping(w, p, rest) /\ v.start = 0 /\ v.pos = 0 /\ v.buf = <<>> /\ v.result = "none"
        <5>1. w.program = <<e>> \o Dropping(w, p, rest)
          BY <1>13, <2>1 DEF Naming
        <5>2. IsAfter(v, w, Dropping(w, p, rest))
          BY <1>1, <1>4, <3>2, <5>1, AdvancedTo
        <5> QED
          BY <1>4, <1>13, <5>2 DEF IsAfter, Fresh
      <4>3. l[p] # NoList /\ Reordered(l[p], s, how)
        BY <1>13, <3>1 DEF Content
      <4>2. Reordering(v, l[p], l[T], l[B], ranges, how, s, rest)
        BY <1>2, <1>5, <3>1, <4>1, <4>3 DEF Reordering, Fresh
      <4> QED
        BY <4>1, <4>2 DEF Reached
    <3>3. CASE v = Lost(w, e)
      BY <1>6, <1>9, <2>1, <3>1, <3>3
    <3> QED
      BY <2>3, <3>2, <3>3
  <2>4. CASE l = lists /\ v = Undo(w, e)
    <3>1. ASSUME w.all # "update_all", NoRemoval(w) PROVE GivenUp(v, l[p], l[T], l[B], s)
      <4>1. v.program = <<Do("rename", B, p)>>
        <5>1. v = Undo(w, Do("rename", Tmp(w.nr), p))
          BY <2>1, <2>4
        <5> QED
          BY <1>1, <3>1, <5>1, RenameUndone
      <4> QED
        BY <1>2, <1>13, <2>4, <4>1 DEF GivenUp
    <3> QED
      BY <1>8, <2>1, <2>4, <3>1 DEF Reached
  <2>5. CASE l = lists /\ v = Lost(w, e)
    BY <1>6, <1>9, <1>13, <2>1, <2>5
  <2> QED
    BY <2>2, <2>3, <2>4, <2>5
<1>14. CASE /\ w.program = Dropping(w, p, rest) /\ Fresh(w)
            /\ lists[T] = NoList /\ lists[B] = s /\ lists[p] # NoList /\ Reordered(lists[p], s, how)
  <2>1. e = rm /\ e.do = "rm" /\ e.a = B
    BY <1>14, <1>16, Starts
  <2>2. \/ l = lists /\ (v = Undo(w, e) \/ v = Lost(w, e))
        \/ l = MpdCommand(lists, e) /\ l # NoList /\ (v = Advance(w) \/ v = Lost(w, e))
    BY <1>7, <2>1, Told1
  <2>3. lists[p] \in Reorderings(s)
    BY <1>14 DEF Reordered
  <2>4. CASE l = MpdCommand(lists, e) /\ l # NoList /\ (v = Advance(w) \/ v = Lost(w, e))
    <3>1. l[B] = NoList /\ l[p] = lists[p] /\ l[T] = NoList
      BY <1>3, <1>14, <2>1, <2>4, RemovedPlist
    <3>2. CASE v = Advance(w)
      <4>1. /\ v.program = rest /\ v.start = 0 /\ v.pos = 0 /\ v.buf = <<>>
            /\ (rest # <<>> => v.result = "none") /\ (rest = <<>> => v.result = "ok")
        <5>1. w.program = <<rm>> \o rest /\ w.start = 0 /\ w.pos = 0 /\ w.buf = <<>>
          BY <1>14, <1>16 DEF Fresh
        <5>2. IsAfter(v, w, rest)
          BY <1>1, <3>2, <5>1, AdvancedTo
        <5> QED
          BY <5>1, <5>2 DEF IsAfter
      <4> QED
        BY <1>14, <3>1, <4>1 DEF Reached, Fresh
    <3>3. CASE v = Lost(w, e)
      BY <1>9, <1>14, <2>1, <2>3, <3>1, <3>3
    <3> QED
      BY <2>4, <3>2, <3>3
  <2>5. CASE l = lists /\ v = Undo(w, e)
    <3>1. ASSUME w.all # "update_all", NoRemoval(w) PROVE GivenUp(v, l[p], l[T], l[B], s)
      <4>1. v.program = <<>>
        BY <1>1, <1>3, <2>1, <2>5, <3>1, GivesUp
      <4> QED
        BY <1>14, <2>3, <2>5, <4>1 DEF GivenUp
    <3> QED
      BY <1>8, <2>1, <2>5, <3>1 DEF Reached
  <2>6. CASE l = lists /\ v = Lost(w, e)
    BY <1>9, <1>14, <2>1, <2>3, <2>6
  <2> QED
    BY <2>2, <2>4, <2>5, <2>6
<1> QED
  BY <1>10, <1>11, <1>12, <1>13, <1>14 DEF Reordering

-----------------------------------------------------------------------------
(* The jobs of the worker: removing duplicates and unknown songs.          *)

(* A function of the numbers up to n is a list.                            *)
LEMMA Listed ==
  ASSUME NEW n \in Nat, NEW f, f = [k \in 1..n |-> f[k]]
  PROVE  IsSeq(f) /\ Len(f) = n /\ DOMAIN f = 1..n
<1>1. PICK S : S = {f[k] : k \in 1..n}
  OBVIOUS
<1>2. \A k \in 1..n : f[k] \in S
  BY <1>1
<1>3. f \in Seq(S) /\ Len(f) = n
  BY <1>2
<1> QED
  BY <1>3 DEF IsSeq

(* Duplicates are removed from the last to the first.                      *)
LEMMA RemovalsStep ==
  ASSUME NEW p, NEW s \in Seq(Songs)
  PROVE  /\ IsSeq(Removals(p, s))
         /\ Removals(p, s) = <<>> => Unique(s) = s
         /\ Removals(p, s) # <<>> =>
              \E m \in DOMAIN s : /\ Removals(p, s) = <<Do("del", p, m)>> \o Removals(p, RemoveAt(s, m))
                                  /\ Unique(RemoveAt(s, m)) = Unique(s)
<1> DEFINE N == Len(s)
           R == {i \in DOMAIN s : Repeated(s, i)}
           n == Cardinality(R)
<1>1. N \in Nat /\ DOMAIN s = 1..N /\ R \in SUBSET Nat /\ IsFiniteSet(R)
  <2>1. IsFiniteSet(DOMAIN s)
    BY FS_Interval
  <2> QED
    BY <2>1, FS_Subset
<1>2. /\ n \in Nat
      /\ \A k \in 1..n : Descending(R)[k] \in R
      /\ Descending(R) \in Seq(R) /\ Len(Descending(R)) = n
  BY <1>1, Descended
<1>3. \A k \in 1..n : NthIn(R, k) \in R
  BY <1>1, Positions
<1>4. \A i \in DOMAIN s : i \in R <=> Repeated(s, i)
  OBVIOUS
<1> HIDE DEF n
<1>5. Removals(p, s) = [k \in 1..n |-> Do("del", p, Descending(R)[k])]
  BY <1>2 DEF Removals
<1>6. IsSeq(Removals(p, s)) /\ Len(Removals(p, s)) = n
  <2>1. PICK f : f = Removals(p, s)
    OBVIOUS
  <2>2. f = [k \in 1..n |-> f[k]]
    BY <1>5, <2>1
  <2> QED
    BY <1>2, <2>1, <2>2, Listed
<1>7. Removals(p, s) = <<>> => Unique(s) = s
  <2>1. SUFFICES ASSUME Removals(p, s) = <<>> PROVE Unique(s) = s
    OBVIOUS
  <2>2. n = 0
    BY <1>6, <2>1
  <2>3. R = {}
    BY <1>1, <2>2, FS_EmptySet DEF n
  <2>4. {i \in DOMAIN s : ~Repeated(s, i)} = DOMAIN s
    BY <2>3
  <2> QED
    BY <2>4, AllEntries DEF Unique
<1> HIDE DEF R, N
<1>8. ASSUME Removals(p, s) # <<>>
      PROVE  \E m \in DOMAIN s : /\ Removals(p, s) = <<Do("del", p, m)>> \o Removals(p, RemoveAt(s, m))
                                 /\ Unique(RemoveAt(s, m)) = Unique(s)
  <2>1. n > 0
    <3>1. n = 0 => Removals(p, s) = <<>>
      BY <1>5
    <3> QED
      BY <1>2, <1>8, <3>1
  <2>2. PICK m : m = NthIn(R, n)
    OBVIOUS
  <2>3. m \in R /\ m \in 1..N /\ m \in DOMAIN s /\ Repeated(s, m)
    <3>1. m \in R
      BY <1>2, <1>3, <2>1, <2>2
    <3> QED
      BY <1>1, <3>1 DEF R
  <2>4. \A i \in R : i <= m
    <3>1. SUFFICES ASSUME NEW i \in R PROVE i <= m
      OBVIOUS
    <3>2. PICK k \in 1..n : NthIn(R, k) = i
      BY <1>1, Positions DEF n
    <3>3. k < n => NthIn(R, k) < NthIn(R, n)
      <4>1. n \in 1..n
        BY <1>2, <2>1
      <4> QED
        BY <1>1, <4>1, Positions DEF n
    <3>4. i \in Nat /\ m \in Nat
      BY <1>1, <2>3
    <3> QED
      BY <1>2, <2>2, <3>2, <3>3, <3>4
  <2>5. PICK t : t = RemoveAt(s, m)
    OBVIOUS
  <2>6. /\ t \in Seq(Songs) /\ DOMAIN t = 1..N - 1 /\ Len(t) = N - 1 /\ N - 1 \in Nat
        /\ \A k \in 1..N - 1 : t[k] = IF k < m THEN s[k] ELSE s[k + 1]
    <3>1. /\ RemoveAt(s, m) \in Seq(Songs) /\ Len(RemoveAt(s, m)) = Len(s) - 1
          /\ DOMAIN RemoveAt(s, m) = 1..Len(s) - 1
          /\ \A k \in 1..Len(s) - 1 : RemoveAt(s, m)[k] = IF k < m THEN s[k] ELSE s[k + 1]
      BY <2>3, RemovedAt
    <3> QED
      BY <1>1, <2>3, <2>5, <3>1 DEF N
  <2>7. \A k \in 1..N - 1 : k < m => (Repeated(t, k) <=> Repeated(s, k))
    <3>1. SUFFICES ASSUME NEW k \in 1..N - 1, k < m PROVE Repeated(t, k) <=> Repeated(s, k)
      OBVIOUS
    <3>2. \A j \in 1..(k - 1) : j \in 1..N - 1 /\ j < m
      BY <1>1, <2>3, <3>1
    <3>3. t[k] = s[k] /\ \A j \in 1..(k - 1) : t[j] = s[j]
      BY <2>6, <3>1, <3>2
    <3> QED
      BY <3>3 DEF Repeated
  <2>8. \A k \in 1..N - 1 : ~(k < m) => ~Repeated(t, k) /\ ~Repeated(s, k + 1)
    <3>1. SUFFICES ASSUME NEW k \in 1..N - 1, ~(k < m) PROVE ~Repeated(t, k) /\ ~Repeated(s, k + 1)
      OBVIOUS
    <3>2. PICK q : q = k + 1
      OBVIOUS
    <3>3. q \in DOMAIN s /\ q > m /\ q \in Nat
      BY <1>1, <2>3, <3>1, <3>2
    <3>4. ~Repeated(s, q)
      BY <1>1, <1>4, <2>3, <2>4, <3>3
    <3>5. t[k] = s[q]
      BY <2>6, <3>1, <3>2
    <3>6. ASSUME NEW j \in 1..(k - 1), t[j] = t[k] PROVE FALSE
      <4>1. j \in 1..N - 1
        BY <1>1, <3>1, <3>6
      <4>2. PICK i : i = IF j < m THEN j ELSE j + 1
        OBVIOUS
      <4>3. i \in 1..(q - 1) /\ t[j] = s[i]
        BY <1>1, <2>3, <2>6, <3>2, <4>1, <4>2
      <4> QED
        BY <3>4, <3>5, <3>6, <4>3 DEF Repeated
    <3>7. ~Repeated(t, k)
      BY <3>6 DEF Repeated
    <3> QED
      BY <3>2, <3>4, <3>7
  <2>9. Unique(t) = Unique(s)
    <3> DEFINE I == {i \in DOMAIN s : ~Repeated(s, i)}
               J == {i \in DOMAIN t : ~Repeated(t, i)}
               h == [i \in I |-> IF i < m THEN i ELSE i - 1]
    <3>1. ASSUME NEW i \in I
          PROVE  /\ i \in 1..N /\ i # m /\ h[i] = (IF i < m THEN i ELSE i - 1)
                 /\ h[i] \in J /\ t[h[i]] = s[i]
      <4>1. i \in 1..N /\ i # m /\ ~Repeated(s, i)
        BY <1>1, <2>3
      <4>2. PICK k : k = IF i < m THEN i ELSE i - 1
        OBVIOUS
      <4>3. k \in 1..N - 1 /\ (k < m <=> i < m) /\ (~(i < m) => i = k + 1) /\ (i < m => i = k)
        BY <1>1, <2>3, <4>1, <4>2
      <4>4. t[k] = s[i]
        BY <2>6, <4>3
      <4>5. ~Repeated(t, k)
        BY <2>7, <2>8, <4>1, <4>3
      <4>6. k \in J
        BY <2>6, <4>3, <4>5
      <4>7. h[i] = k
        BY <4>2
      <4> HIDE DEF h, J
      <4> QED
        BY <4>1, <4>2, <4>4, <4>6, <4>7
    <3>2. ASSUME NEW k \in J PROVE \E i \in I : h[i] = k
      <4>1. k \in 1..N - 1 /\ ~Repeated(t, k)
        BY <2>6
      <4>2. PICK i : i = IF k < m THEN k ELSE k + 1
        OBVIOUS
      <4>3. i \in 1..N /\ (i < m <=> k < m) /\ k = IF i < m THEN i ELSE i - 1
        BY <1>1, <2>3, <4>1, <4>2
      <4>4. ~Repeated(s, i)
        BY <2>7, <2>8, <4>1, <4>2
      <4>5. i \in I
        BY <1>1, <4>3, <4>4
      <4> QED
        BY <4>3, <4>5
    <3>3. I \in SUBSET (DOMAIN s) /\ J \in SUBSET (DOMAIN t)
      OBVIOUS
    <3>4. h \in [I -> J]
      <4>1. \A i \in I : h[i] \in J
        BY <3>1
      <4> HIDE DEF I, J
      <4> QED
        BY <4>1
    <3> HIDE DEF I, J, h
    <3>5. \A i, j \in I : i < j => h[i] < h[j]
      <4>1. SUFFICES ASSUME NEW i \in I, NEW j \in I, i < j PROVE h[i] < h[j]
        OBVIOUS
      <4>2. i \in Nat /\ j \in Nat /\ m \in Nat /\ i # m /\ j # m
            /\ h[i] = (IF i < m THEN i ELSE i - 1) /\ h[j] = (IF j < m THEN j ELSE j - 1)
        BY <2>3, <3>1
      <4> QED
        BY <4>1, <4>2
    <3>6. EntriesAt(t, J) = EntriesAt(s, I)
      BY <2>6, <3>1, <3>2, <3>3, <3>4, <3>5, SameEntries
    <3> QED
      BY <3>6 DEF Unique, I, J
  <2>10. PICK Q : Q = {i \in DOMAIN t : Repeated(t, i)}
    OBVIOUS
  <2>11. Q = R \ {m}
    <3>1. ASSUME NEW i \in Q PROVE i \in R \ {m}
      <4>1. i \in 1..N - 1 /\ Repeated(t, i)
        BY <2>6, <2>10
      <4>2. i < m /\ i \in DOMAIN s /\ i \in Nat
        BY <1>1, <2>8, <4>1
      <4> QED
        BY <1>4, <2>3, <2>7, <4>1, <4>2
    <3>2. ASSUME NEW i \in R \ {m} PROVE i \in Q
      <4>1. i \in DOMAIN s /\ Repeated(s, i) /\ i <= m /\ i \in Nat
        BY <1>1, <2>4, <3>2 DEF R
      <4>2. i \in 1..N - 1 /\ i < m
        BY <1>1, <2>3, <3>2, <4>1
      <4> QED
        BY <2>6, <2>7, <2>10, <4>1, <4>2
    <3> QED
      BY <3>1, <3>2
  <2>12. Cardinality(Q) = n - 1 /\ IsFiniteSet(Q) /\ Q \in SUBSET Nat
    <3>1. Cardinality(Q) = Cardinality(R) - 1
      BY <1>1, <2>3, <2>11, FS_RemoveElement
    <3>2. IsFiniteSet(Q)
      BY <1>1, <2>11, FS_Subset
    <3> QED
      BY <1>1, <2>11, <3>1, <3>2 DEF n
  <2>13. ASSUME NEW k \in 1..n, k # n PROVE NthIn(Q, k) = NthIn(R, k)
    <3>1. PICK i : i = NthIn(R, k)
      OBVIOUS
    <3>2. i \in R /\ i < m
      <4>1. n \in 1..n /\ k < n
        BY <1>2, <2>1, <2>13
      <4> QED
        BY <1>1, <1>3, <2>2, <3>1, <4>1, Positions DEF n
    <3>3. Cardinality({j \in R : j <= i}) = k
      BY <1>1, <3>1, RankOf DEF n
    <3>4. {j \in Q : j <= i} = {j \in R : j <= i}
      <4>1. \A j \in R : j <= i => j # m
        BY <1>1, <2>3, <3>2
      <4> QED
        BY <2>11, <4>1
    <3>5. i \in Q /\ i \in Nat /\ m \in Nat
      BY <1>1, <2>3, <2>11, <3>2
    <3>6. NthIn(Q, Cardinality({j \in Q : j <= i})) = i
      BY <2>12, <3>5, RankOf
    <3> QED
      BY <3>1, <3>3, <3>4, <3>6
  <2>14. PICK z : z = Removals(p, t)
    OBVIOUS
  <2>15. z = [k \in 1..n - 1 |-> Do("del", p, NthIn(Q, n - k))]
    <3>1. Len(Descending(Q)) = n - 1 /\ Descending(Q) \in Seq(Q)
      BY <2>12, Descended
    <3>2. DOMAIN Descending(Q) = 1..n - 1
      BY <3>1
    <3>3. z = [k \in 1..n - 1 |-> Do("del", p, Descending(Q)[k])]
      BY <2>10, <2>14, <3>2 DEF Removals
    <3>4. ASSUME NEW k \in 1..n - 1 PROVE Descending(Q)[k] = NthIn(Q, n - k)
      <4>1. (n - 1) + 1 - k = n - k
        BY <1>2, <3>4
      <4>2. Descending(Q) = [i \in 1..n - 1 |-> NthIn(Q, (n - 1) + 1 - i)]
        BY <2>12 DEF Descending
      <4> QED
        BY <4>1, <4>2
    <3> QED
      BY <3>3, <3>4
  <2>16. IsSeq(z) /\ Len(z) = n - 1
    <3>1. PICK a : a = n - 1
      OBVIOUS
    <3>2. a \in Nat /\ z = [k \in 1..a |-> z[k]]
      BY <1>2, <2>1, <2>15, <3>1
    <3> QED
      BY <3>1, <3>2, Listed
  <2>17. PICK y : y = Removals(p, s)
    OBVIOUS
  <2>18. y = [k \in 1..n |-> Do("del", p, NthIn(R, n + 1 - k))]
    <3>1. ASSUME NEW k \in 1..n PROVE Descending(R)[k] = NthIn(R, n + 1 - k)
      BY DEF Descending, n
    <3> QED
      BY <1>5, <2>17, <3>1
  <2>19. PICK d : d = Do("del", p, m)
    OBVIOUS
  <2>20. y = <<d>> \o z
    <3>1. Len(<<d>> \o z) = n /\ \A i \in 1..n : (<<d>> \o z)[i] = IF i = 1 THEN d ELSE z[i - 1]
      <4>1. Len(z) + 1 = n
        BY <1>2, <2>1, <2>16
      <4> QED
        BY <2>16, <4>1, StartsAt
    <3>2. IsSeq(<<d>> \o z)
      BY <2>16, Starts
    <3>3. ASSUME NEW i \in 1..n PROVE y[i] = (<<d>> \o z)[i]
      <4>1. CASE i = 1
        BY <1>2, <2>2, <2>18, <2>19, <3>1, <4>1
      <4>2. CASE i # 1
        <5>1. PICK k : k = i - 1
          OBVIOUS
        <5>2. k \in 1..n - 1 /\ n - k = n + 1 - i /\ n - k \in 1..n /\ n - k # n
          BY <1>2, <4>2, <5>1
        <5>3. z[k] = Do("del", p, NthIn(R, n - k))
          BY <2>13, <2>15, <5>2
        <5>4. y[i] = Do("del", p, NthIn(R, n - k))
          BY <2>18, <5>2
        <5> QED
          BY <3>1, <4>2, <5>1, <5>3, <5>4
      <4> QED
        BY <4>1, <4>2
    <3>4. DOMAIN (<<d>> \o z) = 1..n /\ (<<d>> \o z) = [i \in 1..n |-> (<<d>> \o z)[i]]
      <4>1. PICK c : c = <<d>> \o z
        OBVIOUS
      <4>2. PICK S : c \in Seq(S)
        BY <3>2, <4>1 DEF IsSeq
      <4>3. DOMAIN c = 1..Len(c) /\ c = [i \in 1..Len(c) |-> c[i]]
        BY <4>2
      <4> QED
        BY <3>1, <4>1, <4>3
    <3>5. y = [i \in 1..n |-> y[i]]
      BY <2>18
    <3> QED
      BY <3>3, <3>4, <3>5
  <2> QED
    BY <2>3, <2>5, <2>9, <2>14, <2>17, <2>19, <2>20
<1> QED
  BY <1>6, <1>7, <1>8

(* Playlists without duplicates and without unknown songs.                 *)
LEMMA Filtered ==
  ASSUME NEW s \in Seq(Songs)
  PROVE  /\ Unique(s) \in Seq(Songs) /\ Valid(s) \in Seq(Songs)
         /\ Valid(Unique(s)) = Unique(Valid(s)) /\ Valid(Valid(s)) = Valid(s)
<1> DEFINE D == DOMAIN s
           U == {i \in D : ~Repeated(s, i)}
           V == {i \in D : s[i] \in KnownSongs}
           K == {i \in D : ~Repeated(s, i) /\ s[i] \in KnownSongs}
           u == EntriesAt(s, U)
           v == EntriesAt(s, V)
<1>1. Unique(s) = u /\ Valid(s) = v
  BY DEF Unique, Valid
<1>2. U \in SUBSET D /\ V \in SUBSET D /\ K \in SUBSET D /\ K \in SUBSET U /\ K \in SUBSET V /\ D \in SUBSET Nat
  OBVIOUS
<1>3. /\ \A i \in U : i \in D /\ ~Repeated(s, i) /\ (i \in K <=> s[i] \in KnownSongs)
      /\ \A i \in V : i \in D /\ s[i] \in KnownSongs /\ (i \in K <=> ~Repeated(s, i))
      /\ \A i \in D : i \in V <=> s[i] \in KnownSongs
  OBVIOUS
<1> HIDE DEF U, V, K
<1>4. u \in Seq(Songs) /\ \A k \in DOMAIN u : NthIn(U, k) \in U /\ u[k] = s[NthIn(U, k)]
  BY <1>2, AtPositions
<1>5. /\ v \in Seq(Songs) /\ \A k \in DOMAIN v : NthIn(V, k) \in V /\ v[k] = s[NthIn(V, k)]
      /\ \A i \in V : \E k \in DOMAIN v : NthIn(V, k) = i /\ v[k] = s[i]
      /\ \A j, k \in DOMAIN v : j < k => NthIn(V, j) < NthIn(V, k)
  BY <1>2, AtPositions
<1> HIDE DEF u, v
<1>6. Valid(u) = EntriesAt(s, K)
  <2> DEFINE J == {k \in DOMAIN u : u[k] \in KnownSongs}
  <2>1. \A k \in DOMAIN u : k \in J <=> NthIn(U, k) \in K
    BY <1>3, <1>4
  <2>2. J \in SUBSET (DOMAIN u) /\ Valid(u) = EntriesAt(u, J)
    BY DEF Valid
  <2> HIDE DEF J
  <2>3. EntriesAt(u, J) = EntriesAt(s, K)
    BY <1>2, <2>1, <2>2, EntriesOfEntries DEF u
  <2> QED
    BY <2>2, <2>3
<1>7. Unique(v) = EntriesAt(s, K)
  <2> DEFINE J == {k \in DOMAIN v : ~Repeated(v, k)}
  <2>1. ASSUME NEW k \in DOMAIN v PROVE k \in J <=> NthIn(V, k) \in K
    <3>1. PICK i : i = NthIn(V, k)
      OBVIOUS
    <3>2. i \in V /\ v[k] = s[i] /\ i \in Nat /\ k \in Nat /\ DOMAIN v = 1..Len(v)
      BY <1>2, <1>5, <3>1
    <3>3. ASSUME Repeated(v, k) PROVE Repeated(s, i)
      <4>1. PICK j \in 1..(k - 1) : v[j] = v[k]
        BY <3>3 DEF Repeated
      <4>2. j \in DOMAIN v /\ j < k
        BY <3>2
      <4>3. PICK a : a = NthIn(V, j)
        OBVIOUS
      <4>4. a < i /\ a \in V /\ v[j] = s[a] /\ a \in Nat
        BY <1>2, <1>5, <3>1, <4>2, <4>3
      <4>5. a \in 1..(i - 1)
        <5>1. a \in DOMAIN s /\ DOMAIN s = 1..Len(s)
          BY <1>3, <4>4
        <5> QED
          BY <3>2, <4>4, <5>1
      <4> QED
        BY <3>2, <4>1, <4>4, <4>5 DEF Repeated
    <3>4. ASSUME Repeated(s, i) PROVE Repeated(v, k)
      <4>1. PICK a \in 1..(i - 1) : s[a] = s[i]
        BY <3>4 DEF Repeated
      <4>2. a \in D /\ a < i /\ a \in Nat
        <5>1. i \in D /\ D = 1..Len(s)
          BY <1>3, <3>2
        <5> QED
          BY <5>1
      <4>3. a \in V
        BY <1>3, <3>2, <4>1, <4>2
      <4>4. PICK j \in DOMAIN v : NthIn(V, j) = a /\ v[j] = s[a]
        BY <1>5, <4>3
      <4>5. j < k
        <5>1. j \in Nat /\ j # k
          BY <3>1, <3>2, <4>2, <4>4
        <5>2. ASSUME k < j PROVE FALSE
          BY <1>5, <3>1, <3>2, <4>2, <4>4, <5>2
        <5> QED
          BY <3>2, <5>1, <5>2
      <4>6. j \in 1..(k - 1)
        BY <3>2, <4>4, <4>5
      <4> QED
        BY <3>2, <4>1, <4>4, <4>6 DEF Repeated
    <3>5. i \in K <=> ~Repeated(s, i)
      BY <1>3, <3>2
    <3> QED
      BY <3>1, <3>3, <3>4, <3>5
  <2>2. J \in SUBSET (DOMAIN v) /\ Unique(v) = EntriesAt(v, J)
    BY DEF Unique
  <2> HIDE DEF J
  <2>3. EntriesAt(v, J) = EntriesAt(s, K)
    BY <1>2, <2>1, <2>2, EntriesOfEntries DEF v
  <2> QED
    BY <2>2, <2>3
<1>8. Valid(v) = v
  <2>1. {k \in DOMAIN v : v[k] \in KnownSongs} = DOMAIN v
    BY <1>3, <1>5
  <2>2. EntriesAt(v, DOMAIN v) = v
    BY <1>5, AllEntries
  <2> QED
    BY <2>1, <2>2 DEF Valid
<1> QED
  BY <1>1, <1>4, <1>5, <1>6, <1>7, <1>8

(* A list whose songs are all known needs no check.                        *)
LEMMA AllValid ==
  ASSUME NEW s \in Seq(Songs), KnownAfter(s, 0)
  PROVE  Valid(s) = s
<1>1. \A i \in 1..Len(s) : s[i] \in KnownSongs
  <2>1. \A j \in (0 + 1)..Len(s) : s[j] \in KnownSongs
    BY DEF KnownAfter
  <2>2. 0 + 1 = 1
    OBVIOUS
  <2> QED
    BY <2>1, <2>2
<1>2. {i \in DOMAIN s : s[i] \in KnownSongs} = DOMAIN s
  <2>1. DOMAIN s = 1..Len(s)
    OBVIOUS
  <2> QED
    BY <1>1, <2>1
<1> QED
  BY <1>2, AllEntries DEF Valid

(* A song that MPD does not know is removed.                               *)
LEMMA ValidStep ==
  ASSUME NEW s \in Seq(Songs), NEW m \in DOMAIN s, s[m] \notin KnownSongs, KnownAfter(s, m)
  PROVE  Valid(RemoveAt(s, m)) = Valid(s) /\ KnownAfter(RemoveAt(s, m), m - 1)
         /\ \A k \in 1..m - 1 : RemoveAt(s, m)[k] = s[k]
<1> DEFINE N == Len(s)
<1>1. PICK t : t = RemoveAt(s, m)
  OBVIOUS
<1>2. /\ t \in Seq(Songs) /\ DOMAIN t = 1..N - 1 /\ Len(t) = N - 1 /\ N \in Nat /\ m \in 1..N
      /\ \A k \in 1..N - 1 : t[k] = IF k < m THEN s[k] ELSE s[k + 1]
  <2>1. /\ RemoveAt(s, m) \in Seq(Songs) /\ Len(RemoveAt(s, m)) = Len(s) - 1
        /\ DOMAIN RemoveAt(s, m) = 1..Len(s) - 1
        /\ \A k \in 1..Len(s) - 1 : RemoveAt(s, m)[k] = IF k < m THEN s[k] ELSE s[k + 1]
    BY RemovedAt
  <2> QED
    BY <1>1, <2>1
<1>10. DOMAIN s = 1..N
  OBVIOUS
<1> HIDE DEF N
<1> DEFINE I == {i \in DOMAIN s : s[i] \in KnownSongs}
           J == {i \in DOMAIN t : t[i] \in KnownSongs}
           h == [i \in I |-> IF i < m THEN i ELSE i - 1]
<1>3. ASSUME NEW i \in I
      PROVE  /\ i \in 1..N /\ i # m /\ h[i] = (IF i < m THEN i ELSE i - 1)
             /\ h[i] \in J /\ t[h[i]] = s[i]
  <2>1. i \in 1..N /\ i # m /\ s[i] \in KnownSongs
    BY <1>10
  <2>2. PICK k : k = IF i < m THEN i ELSE i - 1
    OBVIOUS
  <2>3. k \in 1..N - 1 /\ (k < m <=> i < m) /\ (~(i < m) => i = k + 1) /\ (i < m => i = k)
    BY <1>2, <2>1, <2>2
  <2>4. t[k] = s[i]
    BY <1>2, <2>3
  <2>5. k \in J
    BY <1>2, <2>1, <2>3, <2>4
  <2>6. h[i] = k
    BY <2>2
  <2> HIDE DEF h, J
  <2> QED
    BY <2>1, <2>2, <2>4, <2>5, <2>6
<1>4. ASSUME NEW k \in J PROVE \E i \in I : h[i] = k
  <2>1. k \in 1..N - 1 /\ t[k] \in KnownSongs
    BY <1>2
  <2>2. PICK i : i = IF k < m THEN k ELSE k + 1
    OBVIOUS
  <2>3. i \in 1..N /\ (i < m <=> k < m) /\ k = IF i < m THEN i ELSE i - 1
    BY <1>2, <2>1, <2>2
  <2>4. t[k] = s[i]
    BY <1>2, <2>1, <2>2
  <2>5. i \in I
    BY <1>10, <2>1, <2>3, <2>4
  <2> QED
    BY <2>3, <2>5
<1>5. I \in SUBSET (DOMAIN s) /\ J \in SUBSET (DOMAIN t)
  OBVIOUS
<1>6. h \in [I -> J]
  <2>1. \A i \in I : h[i] \in J
    BY <1>3
  <2> HIDE DEF I, J
  <2> QED
    BY <2>1
<1>11. Valid(s) = EntriesAt(s, I) /\ Valid(t) = EntriesAt(t, J)
  BY DEF Valid
<1> HIDE DEF I, J, h
<1>7. \A i, j \in I : i < j => h[i] < h[j]
  <2>1. SUFFICES ASSUME NEW i \in I, NEW j \in I, i < j PROVE h[i] < h[j]
    OBVIOUS
  <2>2. i \in Nat /\ j \in Nat /\ m \in Nat /\ i # m /\ j # m
        /\ h[i] = (IF i < m THEN i ELSE i - 1) /\ h[j] = (IF j < m THEN j ELSE j - 1)
    BY <1>2, <1>3
  <2> QED
    BY <2>1, <2>2
<1>8. EntriesAt(t, J) = EntriesAt(s, I)
  <2>1. /\ t \in Seq(Songs) /\ (\A i \in I : t[h[i]] = s[i]) /\ \A k \in J : \E i \in I : h[i] = k
    BY <1>2, <1>3, <1>4
  <2> QED
    BY <2>1, <1>5, <1>6, <1>7, SameEntries
<1>9. KnownAfter(t, m - 1) /\ \A k \in 1..m - 1 : t[k] = s[k]
  <2>1. ASSUME NEW j \in ((m - 1) + 1)..Len(t) PROVE t[j] \in KnownSongs
    <3>1. PICK q : q = j + 1
      OBVIOUS
    <3>2. j \in 1..N - 1 /\ ~(j < m) /\ q \in (m + 1)..N
      BY <1>2, <3>1
    <3>3. s[q] \in KnownSongs
      BY <3>2 DEF KnownAfter, N
    <3> QED
      BY <1>2, <3>1, <3>2, <3>3
  <2>2. \A k \in 1..m - 1 : t[k] = s[k]
    BY <1>2
  <2> QED
    BY <2>1, <2>2 DEF KnownAfter
<1> QED
  BY <1>1, <1>8, <1>9, <1>11

(* The songs are looked up from the last to the first.                     *)
LEMMA ChecksStep ==
  ASSUME NEW p, NEW s, NEW n \in Nat
  PROVE  /\ IsSeq(Checks(p, s, n)) /\ Checks(p, s, 0) = <<>>
         /\ n > 0 => Checks(p, s, n) = <<Do("check", p, <<n, s[n]>>)>> \o Checks(p, s, n - 1)
         /\ \A t : (\A k \in 1..n : t[k] = s[k]) => Checks(p, t, n) = Checks(p, s, n)
<1>1. \A m \in Nat : IsSeq(Checks(p, s, m)) /\ Len(Checks(p, s, m)) = m /\ DOMAIN Checks(p, s, m) = 1..m
  <2>1. SUFFICES ASSUME NEW m \in Nat PROVE IsSeq(Checks(p, s, m)) /\ Len(Checks(p, s, m)) = m /\ DOMAIN Checks(p, s, m) = 1..m
    OBVIOUS
  <2>2. PICK f : f = Checks(p, s, m)
    OBVIOUS
  <2>3. f = [k \in 1..m |-> f[k]]
    BY <2>2 DEF Checks
  <2> QED
    BY <2>2, <2>3, Listed
<1>2. Checks(p, s, 0) = <<>>
  BY DEF Checks
<1>3. ASSUME n > 0 PROVE Checks(p, s, n) = <<Do("check", p, <<n, s[n]>>)>> \o Checks(p, s, n - 1)
  <2>1. PICK d, m : d = Do("check", p, <<n, s[n]>>) /\ m = n - 1
    OBVIOUS
  <2>2. PICK y, z : y = Checks(p, s, n) /\ z = Checks(p, s, m)
    OBVIOUS
  <2>3. m \in Nat /\ n = m + 1 /\ IsSeq(z) /\ Len(z) = m
    BY <1>1, <1>3, <2>1, <2>2
  <2>4. y = [i \in 1..n |-> Do("check", p, <<n + 1 - i, s[n + 1 - i]>>)]
    BY <2>2 DEF Checks
  <2>5. z = [i \in 1..m |-> Do("check", p, <<m + 1 - i, s[m + 1 - i]>>)]
    BY <2>2 DEF Checks
  <2>6. PICK c : c = <<d>> \o z
    OBVIOUS
  <2>7. Len(c) = n /\ \A i \in 1..n : c[i] = IF i = 1 THEN d ELSE z[i - 1]
    BY <2>3, <2>6, StartsAt
  <2>8. c = [i \in 1..n |-> c[i]]
    <3>1. PICK S : c \in Seq(S)
      BY <2>3, <2>6, Starts DEF IsSeq
    <3>2. c = [i \in 1..Len(c) |-> c[i]]
      BY <3>1
    <3> QED
      BY <2>7, <3>2
  <2>9. ASSUME NEW i \in 1..n PROVE y[i] = c[i]
    <3>1. CASE i = 1
      <4>1. n + 1 - 1 = n
        OBVIOUS
      <4> QED
        BY <2>1, <2>4, <2>7, <3>1, <4>1
    <3>2. CASE i # 1
      <4>1. PICK k, a : k = i - 1 /\ a = n + 1 - i
        OBVIOUS
      <4>2. k \in 1..m /\ a = m + 1 - k
        BY <2>3, <3>2, <4>1
      <4>3. z[k] = Do("check", p, <<a, s[a]>>)
        BY <2>5, <4>2
      <4>4. y[i] = Do("check", p, <<a, s[a]>>)
        BY <2>4, <4>1
      <4> QED
        BY <2>7, <3>2, <4>1, <4>3, <4>4
    <3> QED
      BY <3>1, <3>2
  <2>10. y = [i \in 1..n |-> y[i]]
    BY <2>4
  <2> QED
    BY <2>1, <2>2, <2>6, <2>8, <2>9, <2>10
<1>4. ASSUME NEW t, \A k \in 1..n : t[k] = s[k] PROVE Checks(p, t, n) = Checks(p, s, n)
  <2>1. \A i \in 1..n : n + 1 - i \in 1..n
    OBVIOUS
  <2>2. \A i \in 1..n : t[n + 1 - i] = s[n + 1 - i]
    BY <1>4, <2>1
  <2> QED
    BY <2>2 DEF Checks
<1> QED
  BY <1>1, <1>2, <1>3, <1>4

(* The last exchange of a job that failed.                                 *)
LEMMA LastStep ==
  ASSUME NEW w, IsWork(w), w.result = "failed", NEW e, w.program = <<e>>, w.all # "update_all", e.do \notin {"rmdef", "crop"},
         NEW v, v \in {Advance(w), Undo(w, e), Lost(w, e)}
  PROVE  v.program = <<>> /\ v.result = "failed"
<1>1. Undo(w, e) = Advance(w)
  BY DEF Undo
<1>2. ASSUME v = Advance(w) PROVE v.program = <<>> /\ v.result = "failed"
  <2>2. PICK r : r = <<>>
    OBVIOUS
  <2>1. IsSeq(r) /\ w.program = <<e>> \o r
    <3>1. <<e>> \o <<>> = <<e>>
      OBVIOUS
    <3> QED
      BY <2>2, <3>1, Empty
  <2>6. Advance(w) = [w EXCEPT !.program = r, !.result = IF r = <<>> /\ w.result # "failed" THEN "ok" ELSE w.result]
    <3>1. Tail(w.program) = r
      BY <2>1, Starts
    <3>2. <<>> \o r = r
      BY <2>1, Nothing
    <3> QED
      BY <3>1, <3>2 DEF Advance, Instead
  <2>3. Advance(w) = [w EXCEPT !.program = r, !.result = IF r = <<>> /\ w.result # "failed" THEN "ok" ELSE w.result]
    BY <2>6
  <2>4. v = [w EXCEPT !.program = r, !.result = "failed"]
    BY <1>2, <2>3
  <2> QED
    BY <2>2, <2>4 DEF IsWork, Fields
<1>3. ASSUME v = Lost(w, e) PROVE v.program = <<>> /\ v.result = "failed"
  <2>1. NoRemoval(w)
    BY DEF NoRemoval
  <2>2. v = [w EXCEPT !.buf = <<>>, !.blind = TRUE, !.result = "failed", !.program = <<>>]
    BY <1>3, <2>1, LostAll
  <2> QED
    BY <2>2 DEF IsWork, Fields
<1> QED
  BY <1>1, <1>2, <1>3

(* Shuffling and sorting: an exchange of the job.                          *)
LEMMA ReorderStep ==
  ASSUME lists \in Stored, ranges \in BOOLEAN, NEW w, WorkOK(w), w.nr \in JobIds, w.arg \in Plists, w.program # <<>>,
         w.all = "none", NoRemoval(w), w.op \in {"shuffle", "sort"}, w.old[w.arg] \in Seq(Songs),
         ReorderInv(w, lists[w.arg], lists[Tmp(w.nr)], lists[Bak(w.nr)], ranges),
         NEW l, NEW v, Outcome(w, l, v)
  PROVE  ReorderInv(v, l[w.arg], l[Tmp(w.nr)], l[Bak(w.nr)], ranges)
<1> DEFINE p == w.arg
           T == Tmp(w.nr)
           B == Bak(w.nr)
           s == w.old[p]
<1>1. IsWork(w) /\ Kin(v, w)
  <2>1. IsWork(w)
    BY DEF WorkOK
  <2> QED
    BY <2>1, Kept
<1>2. v.arg = p /\ v.nr = w.nr /\ v.op = w.op /\ v.old = w.old
  BY <1>1 DEF Kin
<1>3. p \in PlistNames /\ T \in PlistNames /\ B \in PlistNames /\ p # T /\ p # B /\ T # B
  BY Three
<1>4. s # NoList /\ s \in Reorderings(s)
  <2>1. s \in Reorderings(s)
    BY SortedShuffled, Kinds
  <2> QED
    BY <2>1, Kinds
<1>5. CASE w.result = "none" /\ Reordering(w, lists[p], lists[T], lists[B], ranges, w.op, s, <<>>)
  <2>1. PICK rest, how, old : rest = <<>> /\ how = w.op /\ old = s
    OBVIOUS
  <2>2. IsSeq(rest) /\ how \in {"shuffle", "sort"} /\ old \in Seq(Songs)
        /\ Reordering(w, lists[p], lists[T], lists[B], ranges, how, old, rest)
    BY <1>5, <2>1, Empty
  <2>3. Reached(w, v, l, how, old, rest)
    BY <1>5, <2>2, ReorderingStep
  <2>4. \/ v.result = "none" /\ Reordering(v, l[p], l[T], l[B], ranges, how, old, rest)
        \/ /\ v.program = <<>> /\ v.result = "ok"
           /\ l[p] # NoList /\ Reordered(l[p], old, how) /\ l[T] = NoList /\ l[B] = NoList
        \/ v.result = "failed" /\ GivenUp(v, l[p], l[T], l[B], old)
    BY <2>1, <2>3 DEF Reached
  <2> QED
    BY <1>2, <2>1, <2>4 DEF ReorderInv
<1>6. CASE w.result = "failed" /\ GivenUp(w, lists[p], lists[T], lists[B], s)
  <2>1. ASSUME v.program = <<>>, v.result = "failed", NEW x \in {l[p], l[T], l[B]}, x = s
        PROVE  ReorderInv(v, l[p], l[T], l[B], ranges)
    BY <1>2, <1>4, <2>1 DEF ReorderInv, GivenUp
  <2>2. CASE w.program = <<Do("rm", T, "")>> /\ lists[p] = s
    <3>1. PICK e : e = Do("rm", T, "")
      OBVIOUS
    <3>2. w.program = <<e>> /\ e.do = "rm" /\ e.a = T /\ e = Head(w.program)
      <4>1. w.program = <<e>>
        BY <2>2, <3>1
      <4>2. e.do = "rm" /\ e.a = T
        BY <3>1 DEF Do
      <4> QED
        BY <4>1, <4>2
    <3>3. \/ l = lists /\ (v = Undo(w, e) \/ v = Lost(w, e))
          \/ l = MpdCommand(lists, e) /\ l # NoList /\ (v = Advance(w) \/ v = Lost(w, e))
      BY <3>2, Told1
    <3>4. v.program = <<>> /\ v.result = "failed"
      BY <1>1, <1>6, <3>2, <3>3, LastStep
    <3>5. l[p] = s
      <4>1. CASE l = lists
        BY <2>2, <4>1
      <4>2. CASE l = MpdCommand(lists, e) /\ l # NoList
        <5>1. e.do = "rm" /\ e.a = T
          BY <3>2
        <5>2. \A n \in PlistNames \ {T} : l[n] = lists[n]
          BY <1>3, <4>2, <5>1, RemovedPlist
        <5> QED
          BY <1>3, <2>2, <5>2
      <4> QED
        BY <3>3, <4>1, <4>2
    <3> QED
      BY <2>1, <3>4, <3>5
  <2>3. CASE w.program = <<Do("rename", B, p)>> /\ lists[B] = s /\ lists[p] = NoList
    <3>1. PICK e : e = Do("rename", B, p)
      OBVIOUS
    <3>2. w.program = <<e>> /\ e.do = "rename" /\ e = Head(w.program)
      <4>1. w.program = <<e>>
        BY <2>3, <3>1
      <4>2. e.do = "rename"
        BY <3>1 DEF Do
      <4> QED
        BY <4>1, <4>2
    <3>3. \/ l = lists /\ (v = Undo(w, e) \/ v = Lost(w, e))
          \/ l = MpdCommand(lists, e) /\ l # NoList /\ (v = Advance(w) \/ v = Lost(w, e))
      <4>1. w.program # <<>> /\ e = Head(w.program) /\ e.do = "rename"
        BY <3>2
      <4> QED
        BY <4>1, Told1
    <3>4. v.program = <<>> /\ v.result = "failed"
      BY <1>1, <1>6, <3>2, <3>3, LastStep
    <3>5. l[B] = s \/ l[p] = s
      <4>1. CASE l = lists
        BY <2>3, <4>1
      <4>2. CASE l = MpdCommand(lists, e) /\ l # NoList
        BY <1>3, <2>3, <3>1, <4>2, Renamed
      <4> QED
        BY <3>3, <4>1, <4>2
    <3> QED
      BY <2>1, <3>4, <3>5
  <2> QED
    BY <1>6, <2>2, <2>3 DEF GivenUp
<1> QED
  BY <1>5, <1>6 DEF ReorderInv

(* Lists of one entry, and of none.                                        *)
LEMMA Single == ASSUME NEW e PROVE IsSeq(<<e>>) /\ Len(<<e>>) = 1 /\ <<e>> \o <<>> = <<e>>
<1>1. <<e>> \in Seq({e}) /\ Len(<<e>>) = 1
  OBVIOUS
<1>2. <<e>> \o <<>> = <<e>>
  OBVIOUS
<1> QED
  BY <1>1, <1>2 DEF IsSeq

(* Two programs that join to none are both none.                           *)
LEMMA Joined0 ==
  ASSUME NEW a, NEW b, IsSeq(a), IsSeq(b), a \o b = <<>>
  PROVE  a = <<>> /\ b = <<>>
<1>1. PICK S, T : a \in Seq(S) /\ b \in Seq(T)
  BY DEF IsSeq
<1>2. PICK c : c = a \o b
  OBVIOUS
<1>3. Len(c) = Len(a) + Len(b) /\ Len(c) = 0 /\ Len(a) \in Nat /\ Len(b) \in Nat
  BY <1>1, <1>2, Joins
<1>4. Len(a) = 0 /\ Len(b) = 0
  BY <1>3
<1> QED
  BY <1>1, <1>4

(* The work goes on with other steps.                                      *)
LEMMA InsteadOf ==
  ASSUME NEW w, IsWork(w), w.result = "none", NEW e, NEW rest, IsSeq(rest), w.program = <<e>> \o rest,
         NEW steps, NEW v, v = Instead(w, steps)
  PROVE  IsAfter(v, w, steps \o rest)
<1>1. PICK left : left = steps \o rest
  OBVIOUS
<1>2. PICK r : r = IF left = <<>> /\ w.result # "failed" THEN "ok" ELSE w.result
  OBVIOUS
<1>3. v = [w EXCEPT !.program = left, !.result = r]
  <2>1. Tail(w.program) = rest
    BY Starts
  <2> QED
    BY <1>1, <1>2, <2>1 DEF Instead
<1>4. v.program = left /\ v.result = r /\ v.start = w.start /\ v.pos = w.pos /\ v.buf = w.buf /\ v.blind = w.blind
  BY <1>3 DEF IsWork, Fields
<1> QED
  BY <1>1, <1>2, <1>4 DEF IsAfter

(* An exchange of a job that reads a playlist.                             *)
ReadOn(v, w, r, read, x) ==
  v.program = w.program /\ v.result = w.result /\ v.blind = w.blind /\ Reading(v, r, read, x)
HasRead(w, l, v, r, e, read, x) ==
  l = lists /\ (ReadOn(v, w, r, read, x) \/ v \in Got(w, e.a, e.b, read \o x) \/ v \in {Undo(w, e), Lost(w, e)})

(* The exchange of a step that reads: nothing is told to MPD.              *)
LEMMA ReadingStep ==
  ASSUME lists \in Stored, ranges \in BOOLEAN, NEW w, WorkOK(w), NEW e, e = Head(w.program), e.do = "read",
         NEW x \in Seq(Songs), lists[e.a] = x, NEW read \in Seq(Songs), Reading(w, ranges, read, x),
         NEW l, NEW v, Outcome(w, l, v)
  PROVE  HasRead(w, l, v, ranges, e, read, x)
<1>1. IsWork(w)
  BY DEF WorkOK
<1>2. Commands(w, e) = <<>>
  BY DEF Commands
<1>3. l = lists /\ (v \in After(w, e) \/ v = Undo(w, e) \/ v = Lost(w, e))
  BY <1>2, QuietOutcome
<1>4. ASSUME v \in After(w, e) PROVE ReadOn(v, w, ranges, read, x) \/ v \in Got(w, e.a, e.b, read \o x)
  <2>1. v \in ReadPlist(w, e.a, e.b)
    BY <1>4 DEF After
  <2>2. PICK p, how : p = e.a /\ how = e.b
    OBVIOUS
  <2>3. lists[p] = x /\ v \in ReadPlist(w, p, how)
    BY <2>1, <2>2
  <2>4. \/ \E b \in Seq(Songs), i, j \in Nat :
              v = [w EXCEPT !.buf = b, !.start = i, !.pos = j] /\ Reading(v, ranges, read, x)
        \/ v \in Got(w, p, how, read \o x)
    BY <2>3, ReadStep
  <2>5. ASSUME NEW b \in Seq(Songs), NEW i \in Nat, NEW j \in Nat, v = [w EXCEPT !.buf = b, !.start = i, !.pos = j],
               Reading(v, ranges, read, x)
        PROVE  ReadOn(v, w, ranges, read, x)
    <3>1. v.program = w.program /\ v.result = w.result /\ v.blind = w.blind
      BY <1>1, <2>5 DEF IsWork, Fields
    <3> QED
      BY <2>5, <3>1 DEF ReadOn
  <2> QED
    BY <2>2, <2>4, <2>5
<1> QED
  BY <1>3, <1>4 DEF HasRead

(* The answer to the removal of a song.                                    *)
LEMMA RemovedSong ==
  ASSUME lists \in Stored, NEW p \in PlistNames, NEW c, c.do = "del", c.a = p, NEW l, l = MpdCommand(lists, c), l # NoList
  PROVE  /\ lists[p] \in Seq(Songs) /\ c.b \in DOMAIN lists[p] /\ l[p] = RemoveAt(lists[p], c.b)
         /\ \A n \in PlistNames \ {p} : l[n] = lists[n]
<1>1. lists[p] # NoList /\ c.b \in DOMAIN lists[p] /\ l = [lists EXCEPT ![p] = RemoveAt(lists[p], c.b)]
  BY DEF MpdCommand
<1>2. lists = [n \in PlistNames |-> lists[n]] /\ lists[p] \in Seq(Songs) \union {NoList}
  BY DEF Stored
<1> QED
  BY <1>1, <1>2

(* Removing duplicates: an exchange of the job.                            *)
LEMMA RestSeq == ASSUME NEW w PROVE IsSeq(Rest(w))
<1>1. PICK e : e = Do("next", "", "")
  OBVIOUS
<1>2. IsSeq(<<e>>)
  BY Single
<1> QED
  BY <1>1, <1>2, Empty DEF Rest

Deduped(v, now, r, s) ==
  \/ DedupReading(v, now, r, s)
  \/ Deduping(v, now, s)
  \/ v.result = "ok" /\ v.program = <<>> /\ now = Unique(s)
  \/ v.result = "failed" /\ v.program = <<>> /\ now # NoList /\ Unique(now) = Unique(s)

(* Reading for the removal of duplicates ends in the removals that the     *)
(* list needs.                                                             *)
LEMMA DedupReadStep ==
  ASSUME lists \in Stored, ranges \in BOOLEAN, NEW w, WorkOK(w), w.arg \in PlistNames, w.all # "update_all", NoRemoval(w),
         NEW s \in Seq(Songs), DedupReading(w, lists[w.arg], ranges, s),
         NEW l, NEW v, Outcome(w, l, v)
  PROVE  Deduped(v, l[w.arg], ranges, s)
<1> DEFINE p == w.arg
           e == Head(w.program)
<1>1. IsWork(w) /\ Kin(v, w)
  <2>1. IsWork(w)
    BY DEF WorkOK
  <2> QED
    BY <2>1, Kept
<1>2. v.arg = p /\ Rest(v) = Rest(w) /\ IsSeq(Rest(w))
  BY <1>1, RestSeq DEF Kin, Rest
<1>3. w.result = "none" /\ lists[p] = s /\ Reading(w, ranges, <<>>, s)
  BY DEF DedupReading
<1>4. PICK c : c = Do("read", p, "dedup")
  OBVIOUS
<1>5. c.do = "read" /\ c.a = p /\ c.b = "dedup"
  BY <1>4 DEF Do
<1>6. w.program = <<c>> \o Rest(w)
  BY <1>4 DEF DedupReading
<1>7. Head(w.program) = c
  BY <1>2, <1>6, Starts
<1>8. l = lists /\ (ReadOn(v, w, ranges, <<>>, s) \/ v \in Got(w, p, "dedup", s) \/ v \in {Undo(w, c), Lost(w, c)})
  <2>1. PICK r : r = <<>>
    OBVIOUS
  <2>2. r \in Seq(Songs) /\ r \o s = s /\ Reading(w, ranges, r, s)
    BY <1>3, <2>1
  <2>3. l = lists /\ (ReadOn(v, w, ranges, r, s) \/ v \in Got(w, c.a, c.b, r \o s) \/ v \in {Undo(w, c), Lost(w, c)})
    <3>1. c = Head(w.program) /\ c.do = "read" /\ lists[c.a] = s
      BY <1>3, <1>5, <1>7
    <3>2. HasRead(w, l, v, ranges, c, r, s)
      BY <2>2, <3>1, ReadingStep
    <3> QED
      BY <3>2 DEF HasRead
  <2> QED
    BY <1>5, <2>1, <2>2, <2>3
<1>9. CASE ReadOn(v, w, ranges, <<>>, s)
  BY <1>2, <1>3, <1>4, <1>6, <1>8, <1>9 DEF ReadOn, DedupReading, Deduped
<1>10. CASE v \in Got(w, p, "dedup", s)
  <2>1. PICK u : u = [[w EXCEPT !.buf = s, !.start = 0, !.pos = 0] EXCEPT !.buf = <<>>]
    OBVIOUS
  <2>2. v = Instead(u, Removals(p, s))
    BY <1>10, <2>1 DEF Got
  <2>3. IsWork(u) /\ u.result = "none" /\ u.program = w.program
    BY <1>1, <1>3, <2>1 DEF IsWork, Fields
  <2>4. PICK steps : steps = Removals(p, s)
    OBVIOUS
  <2>5. IsAfter(v, u, steps \o Rest(w))
    BY <1>2, <1>6, <2>2, <2>3, <2>4, InsteadOf
  <2>6. PICK left : left = steps \o Rest(w)
    OBVIOUS
  <2>7. v.program = left /\ (left # <<>> => v.result = "none") /\ (left = <<>> => v.result = "ok")
    BY <2>5, <2>6 DEF IsAfter
  <2>8. CASE left # <<>>
    <3>1. Deduping(v, s, s)
      BY <1>2, <2>4, <2>6, <2>7, <2>8, Kinds DEF Deduping
    <3> QED
      BY <1>3, <1>8, <3>1 DEF Deduped
  <2>9. CASE left = <<>>
    <3>1. steps = <<>>
      <4>1. IsSeq(steps)
        BY <2>4, RemovalsStep
      <4> QED
        BY <1>2, <2>6, <2>9, <4>1, Joined0
    <3>2. Unique(s) = s
      BY <2>4, <3>1, RemovalsStep
    <3> QED
      BY <1>3, <1>8, <2>7, <2>9, <3>2 DEF Deduped
  <2> QED
    BY <2>8, <2>9
<1>11. CASE v \in {Undo(w, c), Lost(w, c)}
  <2>1. v.result = "failed"
    BY <1>1, <1>3, <1>5, <1>11, Failures
  <2>2. v.program = <<>>
    BY <1>1, <1>3, <1>5, <1>11, GivesUp
  <2> QED
    BY <1>3, <1>8, <2>1, <2>2, Kinds DEF Deduped
<1> QED
  BY <1>8, <1>9, <1>10, <1>11

(* One removal of a duplicate keeps what the list comes down to.           *)
LEMMA DedupDelStep ==
  ASSUME lists \in Stored, NEW w, WorkOK(w), w.arg \in PlistNames, w.all # "update_all", NoRemoval(w),
         NEW s \in Seq(Songs), Deduping(w, lists[w.arg], s), Head(w.program).do \notin Local,
         NEW l, NEW v, Outcome(w, l, v)
  PROVE  Deduped(v, l[w.arg], ranges, s)
<1> DEFINE p == w.arg
<1>1. IsWork(w) /\ Kin(v, w)
  <2>1. IsWork(w)
    BY DEF WorkOK
  <2> QED
    BY <2>1, Kept
<1>2. v.arg = p /\ Rest(v) = Rest(w) /\ IsSeq(Rest(w))
  BY <1>1, RestSeq DEF Kin, Rest
<1>3. PICK now \in Seq(Songs) : now = lists[p]
  <2>1. lists[p] \in Seq(Songs) \union {NoList}
    BY DEF Stored
  <2> QED
    BY <2>1 DEF Deduping
<1>4. w.result = "none" /\ w.program = Removals(p, now) \o Rest(w) /\ w.program # <<>> /\ Unique(now) = Unique(s)
  BY <1>3 DEF Deduping
<1>5. Removals(p, now) # <<>>
  <2>1. SUFFICES ASSUME Removals(p, now) = <<>> PROVE FALSE
    OBVIOUS
  <2>2. w.program = Rest(w)
    BY <1>2, <1>4, <2>1, Nothing
  <2>3. PICK n : n = Do("next", "", "")
    OBVIOUS
  <2>5. w.program = <<n>>
    BY <1>4, <2>2, <2>3 DEF Rest
  <2>6. n.do = "next"
    BY <2>3 DEF Do
  <2>4. Head(w.program).do = "next"
    BY <2>5, <2>6
  <2> QED
    BY <2>4 DEF Local
<1>6. PICK m \in DOMAIN now : Removals(p, now) = <<Do("del", p, m)>> \o Removals(p, RemoveAt(now, m))
                              /\ Unique(RemoveAt(now, m)) = Unique(now)
  BY <1>5, RemovalsStep
<1>7. PICK c, next, rest : c = Do("del", p, m) /\ next = RemoveAt(now, m) /\ rest = Removals(p, next)
  OBVIOUS
<1>8. c.do = "del" /\ c.a = p /\ c.b = m /\ next \in Seq(Songs)
  BY <1>7, RemovedAt DEF Do
<1>9. IsSeq(rest) /\ (rest = <<>> => Unique(next) = next)
  BY <1>7, <1>8, RemovalsStep
<1>10. PICK left : left = rest \o Rest(w)
  OBVIOUS
<1>11. IsSeq(left) /\ w.program = <<c>> \o left /\ (left = <<>> => rest = <<>>)
  <2>1. IsSeq(<<c>>) /\ IsSeq(left)
    BY <1>2, <1>9, <1>10, Single, Joins
  <2>2. w.program = (<<c>> \o rest) \o Rest(w)
    BY <1>4, <1>6, <1>7
  <2>3. (<<c>> \o rest) \o Rest(w) = <<c>> \o (rest \o Rest(w))
    BY <1>2, <1>9, <2>1, Assoc
  <2>4. ASSUME left = <<>> PROVE rest = <<>>
    BY <1>2, <1>9, <1>10, <2>4, Joined0
  <2> QED
    BY <1>10, <2>1, <2>2, <2>3, <2>4
<1>12. Head(w.program) = c
  BY <1>11, Starts
<1>13. \/ l = lists /\ (v = Undo(w, c) \/ v = Lost(w, c))
       \/ l = MpdCommand(lists, c) /\ l # NoList /\ (v = Advance(w) \/ v = Lost(w, c))
  BY <1>4, <1>8, <1>12, Told1
<1>14. l[p] = now \/ l[p] = next
  <2>1. CASE l = lists
    BY <1>3, <2>1
  <2>2. CASE l = MpdCommand(lists, c) /\ l # NoList
    <3>1. l[p] = RemoveAt(lists[p], c.b)
      BY <1>8, <2>2, RemovedSong
    <3> QED
      BY <1>3, <1>7, <1>8, <3>1
  <2> QED
    BY <1>13, <2>1, <2>2
<1>15. l[p] # NoList /\ Unique(l[p]) = Unique(s)
  BY <1>4, <1>6, <1>7, <1>8, <1>14, Kinds
<1>16. CASE v \in {Undo(w, c), Lost(w, c)}
  <2>1. v.result = "failed"
    BY <1>1, <1>4, <1>8, <1>16, Failures
  <2>2. v.program = <<>>
    BY <1>1, <1>4, <1>8, <1>16, GivesUp
  <2> QED
    BY <1>15, <2>1, <2>2 DEF Deduped
<1>17. CASE l = MpdCommand(lists, c) /\ l # NoList /\ v = Advance(w)
  <2>1. l[p] = next
    <3>1. l[p] = RemoveAt(lists[p], c.b)
      BY <1>8, <1>17, RemovedSong
    <3> QED
      BY <1>3, <1>7, <1>8, <3>1
  <2>2. IsAfter(v, w, left)
    BY <1>1, <1>4, <1>11, <1>17, AdvancedTo
  <2>3. v.program = left /\ (left # <<>> => v.result = "none") /\ (left = <<>> => v.result = "ok")
    BY <2>2 DEF IsAfter
  <2>4. CASE left # <<>>
    <3>1. Deduping(v, next, s)
      BY <1>2, <1>7, <1>10, <1>15, <2>1, <2>3, <2>4 DEF Deduping
    <3> QED
      BY <2>1, <3>1 DEF Deduped
  <2>5. CASE left = <<>>
    <3>1. next = Unique(s)
      BY <1>9, <1>11, <1>15, <2>1, <2>5
    <3> QED
      BY <2>1, <2>3, <2>5, <3>1 DEF Deduped
  <2> QED
    BY <2>4, <2>5
<1> QED
  BY <1>13, <1>16, <1>17

(* Validation: an exchange of the job.                                     *)
Validated(v, now, r, s, rest) ==
  \/ ValidReading(v, now, r, s, rest)
  \/ Checking(v, now, s, rest)
  \/ v.result = "ok" /\ v.program = <<>> /\ now = Valid(s) /\ rest = <<>>
  \/ v.result = "failed" /\ v.program = <<>> /\ now # NoList /\ Valid(now) = Valid(s)

(* Once the songs behind place k are known, place k is the next to be      *)
(* checked.                                                                *)
LEMMA CheckedUpTo ==
  ASSUME NEW w, NEW v, NEW s, NEW r, NEW rest, IsSeq(rest), NEW t \in Seq(Songs), NEW k \in 0..Len(t), Fresh(w), v.arg = w.arg,
         KnownAfter(t, k), Valid(t) = Valid(s), IsAfter(v, w, Checks(w.arg, t, k) \o rest)
  PROVE  Validated(v, t, r, s, rest)
<1> DEFINE p == w.arg
<1>1. PICK left : left = Checks(p, t, k) \o rest
  OBVIOUS
<1>2. /\ v.program = left /\ (left # <<>> => v.result = "none") /\ (left = <<>> => v.result = "ok")
      /\ Fresh(v)
  BY <1>1 DEF IsAfter, Fresh
<1>3. CASE left # <<>>
  <2>1. t # NoList
    BY Kinds
  <2>2. Checking(v, t, s, rest)
    BY <1>1, <1>2, <1>3, <2>1 DEF Checking
  <2> QED
    BY <2>2 DEF Validated
<1>4. CASE left = <<>>
  <2>1. IsSeq(Checks(p, t, k))
    <3>1. k \in Nat
      OBVIOUS
    <3> QED
      BY <3>1, ChecksStep
  <2>2. Checks(p, t, k) = <<>> /\ rest = <<>>
    BY <1>1, <1>4, <2>1, Joined0
  <2>3. k = 0
    <3>1. SUFFICES ASSUME k > 0 PROVE FALSE
      OBVIOUS
    <3>2. PICK c, m : c = Do("check", p, <<k, t[k]>>) /\ m = k - 1
      OBVIOUS
    <3>3. Checks(p, t, k) = <<c>> \o Checks(p, t, m)
      BY <3>1, <3>2, ChecksStep
    <3>4. m \in Nat
      BY <3>1, <3>2
    <3>5. IsSeq(Checks(p, t, m))
      BY <3>4, ChecksStep
    <3> QED
      BY <2>2, <3>3, <3>5, Starts
  <2>4. Valid(t) = t
    BY <2>3, AllValid
  <2> QED
    BY <1>2, <1>4, <2>2, <2>4 DEF Validated
<1> QED
  BY <1>3, <1>4

(* Reading for the validation ends with every place left to check.         *)
LEMMA ValidReadStep ==
  ASSUME lists \in Stored, ranges \in BOOLEAN, NEW w, WorkOK(w), w.arg \in PlistNames, w.all # "update_all", NoRemoval(w),
         NEW s \in Seq(Songs), NEW rest, IsSeq(rest), ValidReading(w, lists[w.arg], ranges, s, rest),
         NEW l, NEW v, Outcome(w, l, v)
  PROVE  Validated(v, l[w.arg], ranges, s, rest)
<1> DEFINE p == w.arg
<1>1. IsWork(w) /\ Kin(v, w)
  <2>1. IsWork(w)
    BY DEF WorkOK
  <2> QED
    BY <2>1, Kept
<1>2. v.arg = p
  BY <1>1 DEF Kin
<1>3. w.result = "none" /\ lists[p] = s /\ Reading(w, ranges, <<>>, s)
  BY DEF ValidReading
<1>4. PICK c : c = Do("read", p, "validate")
  OBVIOUS
<1>5. c.do = "read" /\ c.a = p /\ c.b = "validate"
  BY <1>4 DEF Do
<1>6. w.program = <<c>> \o rest
  BY <1>4 DEF ValidReading
<1>7. Head(w.program) = c
  BY <1>6, Starts
<1>8. l = lists /\ (ReadOn(v, w, ranges, <<>>, s) \/ v \in Got(w, p, "validate", s) \/ v \in {Undo(w, c), Lost(w, c)})
  <2>1. PICK r : r = <<>>
    OBVIOUS
  <2>2. r \in Seq(Songs) /\ r \o s = s /\ Reading(w, ranges, r, s)
    BY <1>3, <2>1
  <2>3. c = Head(w.program) /\ c.do = "read" /\ lists[c.a] = s
    BY <1>3, <1>5, <1>7
  <2>4. HasRead(w, l, v, ranges, c, r, s)
    BY <2>2, <2>3, ReadingStep
  <2> QED
    BY <1>5, <2>1, <2>2, <2>4 DEF HasRead
<1>9. CASE ReadOn(v, w, ranges, <<>>, s)
  BY <1>2, <1>3, <1>4, <1>6, <1>8, <1>9 DEF ReadOn, ValidReading, Validated
<1>10. CASE v \in Got(w, p, "validate", s)
  <2>1. PICK u : u = [[w EXCEPT !.buf = s, !.start = 0, !.pos = 0] EXCEPT !.buf = <<>>]
    OBVIOUS
  <2>2. v = Instead(u, Checks(p, s, Len(s)))
    BY <1>10, <2>1 DEF Got
  <2>3. IsWork(u) /\ u.result = "none" /\ u.program = w.program /\ Fresh(u) /\ u.arg = p
    BY <1>1, <1>3, <2>1 DEF IsWork, Fields, Fresh
  <2>4. PICK k, steps : k = Len(s) /\ steps = Checks(p, s, k)
    OBVIOUS
  <2>5. IsAfter(v, u, steps \o rest)
    BY <1>6, <2>2, <2>3, <2>4, InsteadOf
  <2>6. k \in 0..Len(s) /\ KnownAfter(s, k)
    BY <2>4 DEF KnownAfter
  <2>7. IsAfter(v, u, Checks(u.arg, s, k) \o rest) /\ v.arg = u.arg
    BY <1>2, <2>3, <2>4, <2>5
  <2>8. Validated(v, s, ranges, s, rest)
    BY <2>3, <2>6, <2>7, CheckedUpTo
  <2> QED
    BY <1>3, <1>8, <2>8
<1>11. CASE v \in {Undo(w, c), Lost(w, c)}
  <2>1. v.result = "failed"
    BY <1>1, <1>3, <1>5, <1>11, Failures
  <2>2. v.program = <<>>
    BY <1>1, <1>3, <1>5, <1>11, GivesUp
  <2> QED
    BY <1>3, <1>8, <2>1, <2>2, Kinds DEF Validated
<1> QED
  BY <1>8, <1>9, <1>10, <1>11

(* A checked place is kept if its song is known, and deleted if it is not. *)
LEMMA CheckingStep ==
  ASSUME lists \in Stored, NEW w, WorkOK(w), w.arg \in PlistNames, w.all # "update_all", NoRemoval(w),
         NEW s \in Seq(Songs), NEW rest, IsSeq(rest), Checking(w, lists[w.arg], s, rest), w.program # rest,
         NEW l, NEW v, Outcome(w, l, v), ~v.blind
  PROVE  Validated(v, l[w.arg], ranges, s, rest)
<1> DEFINE p == w.arg
<1>1. IsWork(w) /\ Kin(v, w)
  <2>1. IsWork(w)
    BY DEF WorkOK
  <2> QED
    BY <2>1, Kept
<1>2. v.arg = p
  BY <1>1 DEF Kin
<1>3. PICK now \in Seq(Songs) : now = lists[p]
  <2>1. lists[p] \in Seq(Songs) \union {NoList}
    BY DEF Stored
  <2> QED
    BY <2>1 DEF Checking
<1>4. w.result = "none" /\ w.program # <<>> /\ Fresh(w) /\ Valid(now) = Valid(s)
  BY <1>3 DEF Checking
<1>5. PICK i \in 0..Len(now) :
       /\ KnownAfter(now, i)
       /\ \/ w.program = Checks(p, now, i) \o rest
          \/ /\ i > 0 /\ now[i] \notin KnownSongs
             /\ w.program = <<Do("del", p, i)>> \o (Checks(p, now, i - 1) \o rest)
  BY <1>3 DEF Checking
<1>6. i > 0
  <2>1. SUFFICES ASSUME i = 0 PROVE FALSE
    OBVIOUS
  <2>2. w.program = Checks(p, now, 0) \o rest
    BY <1>5, <2>1
  <2>3. Checks(p, now, 0) = <<>>
    BY ChecksStep
  <2> QED
    BY <2>2, <2>3, Nothing
<1>7. PICK j : j = i - 1
  OBVIOUS
<1>8. j \in Nat /\ i \in DOMAIN now /\ j + 1 = i
  BY <1>5, <1>6, <1>7
<1>9. PICK left : left = Checks(p, now, j) \o rest
  OBVIOUS
<1>10. IsSeq(Checks(p, now, j)) /\ IsSeq(left)
  BY <1>8, <1>9, ChecksStep, Joins
<1>11. PICK c, d : c = Do("check", p, <<i, now[i]>>) /\ d = Do("del", p, i)
  OBVIOUS
<1>12. c.do = "check" /\ c.a = p /\ c.b = <<i, now[i]>> /\ d.do = "del" /\ d.a = p /\ d.b = i
  BY <1>11 DEF Do
<1>13. CASE w.program = Checks(p, now, i) \o rest
  <2>1. w.program = <<c>> \o left
    <3>1. Checks(p, now, i) = <<c>> \o Checks(p, now, j)
      BY <1>5, <1>6, <1>7, <1>11, ChecksStep
    <3>2. (<<c>> \o Checks(p, now, j)) \o rest = <<c>> \o (Checks(p, now, j) \o rest)
      BY <1>10, Single, Assoc
    <3> QED
      BY <1>9, <1>13, <3>1, <3>2
  <2>2. c = Head(w.program)
    BY <1>10, <2>1, Starts
  <2>3. Commands(w, c) = <<>>
    BY <1>12 DEF Commands
  <2>4. l = lists /\ (v \in After(w, c) \/ v = Undo(w, c) \/ v = Lost(w, c))
    BY <2>2, <2>3, QuietOutcome
  <2>5. CASE v \in After(w, c)
    <3>1. v = Advance(w) /\ now[i] \in KnownSongs
      BY <1>12, <2>5 DEF After
    <3>2. IsAfter(v, w, left)
      BY <1>1, <1>4, <1>10, <2>1, <3>1, AdvancedTo
    <3>3. KnownAfter(now, j) /\ j \in 0..Len(now)
      BY <1>5, <1>7, <1>8, <3>1 DEF KnownAfter
    <3>4. Validated(v, now, ranges, s, rest)
      BY <1>2, <1>4, <1>9, <3>2, <3>3, CheckedUpTo
    <3> QED
      BY <1>3, <2>4, <3>4
  <2>6. CASE v = Undo(w, c)
    <3>1. PICK u : u = [w EXCEPT !.blind = w.blind \/ now[i] \in KnownSongs]
      OBVIOUS
    <3>2. v = Instead(u, <<Do("del", p, i)>>)
      <4>1. v = Instead([w EXCEPT !.blind = w.blind \/ c.b[2] \in KnownSongs], <<Do("del", c.a, c.b[1])>>)
        BY <1>4, <1>12, <2>6 DEF Undo
      <4>2. c.b[1] = i /\ c.b[2] = now[i]
        BY <1>12
      <4> QED
        BY <1>12, <3>1, <4>1, <4>2
    <3>3. IsWork(u) /\ u.program = w.program /\ u.result = "none" /\ Fresh(u) /\ (now[i] \in KnownSongs => u.blind)
      BY <1>1, <1>4, <3>1 DEF IsWork, Fields, Fresh
    <3>4. PICK steps : steps = <<d>>
      OBVIOUS
    <3>5. IsAfter(v, u, steps \o left)
      BY <1>10, <1>11, <2>1, <3>2, <3>3, <3>4, InsteadOf
    <3>6. now[i] \notin KnownSongs
      BY <3>3, <3>5 DEF IsAfter
    <3>7. v.program = <<d>> \o left /\ v.program # <<>> /\ v.result = "none" /\ Fresh(v)
      <4>1. <<d>> \o left # <<>>
        BY <1>10, Starts
      <4> QED
        BY <3>3, <3>4, <3>5, <4>1 DEF IsAfter, Fresh
    <3>8. \E n \in 0..Len(now) :
             /\ KnownAfter(now, n)
             /\ \/ v.program = Checks(p, now, n) \o rest
                \/ /\ n > 0 /\ now[n] \notin KnownSongs
                   /\ v.program = <<Do("del", p, n)>> \o (Checks(p, now, n - 1) \o rest)
      BY <1>5, <1>6, <1>7, <1>9, <1>11, <3>6, <3>7
    <3>9. Checking(v, now, s, rest)
      BY <1>2, <1>4, <3>7, <3>8, Kinds DEF Checking
    <3> QED
      BY <1>3, <2>4, <3>9 DEF Validated
  <2>7. CASE v = Lost(w, c)
    <3>1. v = [w EXCEPT !.buf = <<>>, !.blind = TRUE, !.result = "failed", !.program = <<>>]
      BY <1>1, <1>12, <2>7, LostAll
    <3>2. v.blind
      BY <1>1, <3>1 DEF IsWork, Fields
    <3> QED
      BY <3>2
  <2> QED
    BY <2>4, <2>5, <2>6, <2>7
<1>14. CASE now[i] \notin KnownSongs /\ w.program = <<Do("del", p, i)>> \o (Checks(p, now, i - 1) \o rest)
  <2>1. w.program = <<d>> \o left
    BY <1>7, <1>9, <1>11, <1>14
  <2>2. d = Head(w.program)
    BY <1>10, <2>1, Starts
  <2>3. \/ l = lists /\ (v = Undo(w, d) \/ v = Lost(w, d))
        \/ l = MpdCommand(lists, d) /\ l # NoList /\ (v = Advance(w) \/ v = Lost(w, d))
    BY <1>4, <1>12, <2>2, Told1
  <2>4. CASE v = Lost(w, d)
    <3>1. v = [w EXCEPT !.buf = <<>>, !.blind = TRUE, !.result = "failed", !.program = <<>>]
      BY <1>1, <1>12, <2>4, LostAll
    <3>2. v.blind
      BY <1>1, <3>1 DEF IsWork, Fields
    <3> QED
      BY <3>2
  <2>5. CASE l = lists /\ v = Undo(w, d)
    <3>1. v.result = "failed"
      BY <1>1, <1>4, <1>12, <2>5, Failures
    <3>2. v.program = <<>>
      BY <1>1, <1>4, <1>12, <2>5, GivesUp
    <3> QED
      BY <1>3, <1>4, <2>5, <3>1, <3>2, Kinds DEF Validated
  <2>6. CASE l = MpdCommand(lists, d) /\ l # NoList /\ v = Advance(w)
    <3>1. PICK t : t = RemoveAt(now, i)
      OBVIOUS
    <3>2. l[p] = t
      <4>1. l[p] = RemoveAt(lists[p], d.b)
        BY <1>12, <2>6, RemovedSong
      <4> QED
        BY <1>3, <1>12, <3>1, <4>1
    <3>3. t \in Seq(Songs) /\ Len(t) = Len(now) - 1
      BY <1>8, <3>1, RemovedAt
    <3>4. Valid(t) = Valid(now) /\ KnownAfter(t, j) /\ \A k \in 1..j : t[k] = now[k]
      BY <1>5, <1>7, <1>8, <1>14, <3>1, ValidStep
    <3>5. Checks(p, t, j) = Checks(p, now, j)
      BY <1>8, <3>4, ChecksStep
    <3>6. IsAfter(v, w, Checks(p, t, j) \o rest)
      BY <1>1, <1>4, <1>9, <1>10, <2>1, <2>6, <3>5, AdvancedTo
    <3>7. j \in 0..Len(t)
      BY <1>5, <1>8, <3>3
    <3>8. Validated(v, t, ranges, s, rest)
      BY <1>2, <1>4, <3>3, <3>4, <3>6, <3>7, CheckedUpTo
    <3> QED
      BY <3>2, <3>8
  <2> QED
    BY <2>3, <2>4, <2>5, <2>6
<1> QED
  BY <1>5, <1>6, <1>13, <1>14

-----------------------------------------------------------------------------
(* The jobs of the worker: updating smart playlists.                       *)

(* Songs that are added one batch after the other.                         *)
FilledSo(w, v, l, p, rest, s) ==
  \/ v.program = w.program /\ v.result = "none" /\ v.start = 0 /\ Content(l[p]) \o v.buf = s
  \/ \E u : IsAfter(v, u, rest) /\ Fresh(u) /\ Content(l[p]) = s

(* After part of the buffer is added, list and buffer together are as      *)
(* before.                                                                 *)
LEMMA FilledOn ==
  ASSUME lists \in Stored, NEW w, WorkOK(w), w.result = "none", w.start = 0, NEW e, NEW rest, IsSeq(rest),
         w.program = <<e>> \o rest, NEW p \in PlistNames, NEW l, NEW k \in 0..Len(w.buf), Added(l, p, w.buf, k),
         NEW v, v = Filled(w, k), NEW s, Content(lists[p]) \o w.buf = s
  PROVE  FilledSo(w, v, l, p, rest, s)
<1>1. IsWork(w) /\ w.pos \in Nat
  BY DEF WorkOK
<1>2. PICK songs \in Seq(Songs), c \in Seq(Songs) : songs = w.buf /\ c = Content(lists[p])
  <2>1. Content(lists[p]) \in Seq(Songs)
    <3>1. lists[p] \in Seq(Songs) \union {NoList}
      BY DEF Stored
    <3> QED
      BY <3>1 DEF Content
  <2> QED
    BY <2>1 DEF WorkOK
<1>3. PICK m, a, b : m = Len(songs) /\ a = SubSeq(songs, 1, k) /\ b = SubSeq(songs, k + 1, m)
  OBVIOUS
<1>4. a \in Seq(Songs) /\ b \in Seq(Songs) /\ a \o b = songs
  <2>1. k \in 0..Len(songs) /\ m \in k..Len(songs)
    BY <1>2, <1>3
  <2>2. /\ SubSeq(songs, 1, k) \o SubSeq(songs, k + 1, m) = SubSeq(songs, 1, m)
        /\ SubSeq(songs, k + 1, m) \in Seq(Songs) /\ SubSeq(songs, 1, k) \in Seq(Songs)
    BY <2>1, Pieces
  <2>3. SubSeq(songs, 1, m) = songs
    BY <1>3
  <2> QED
    BY <1>3, <2>2, <2>3
<1>5. Content(l[p]) = c \o a
  BY <1>2, <1>3 DEF Added
<1>6. Content(l[p]) \o b = s
  <2>1. \A x, y, z \in Seq(Songs) : (x \o y) \o z = x \o (y \o z)
    OBVIOUS
  <2>2. (c \o a) \o b = c \o (a \o b)
    BY <1>4, <2>1
  <2> QED
    BY <1>2, <1>4, <1>5, <2>2
<1>7. PICK i, u : i = w.pos + k /\ u = [w EXCEPT !.buf = b, !.pos = i]
  OBVIOUS
<1>8. IsWork(u) /\ u.buf = b /\ u.start = 0 /\ u.program = w.program /\ u.result = "none"
  BY <1>1, <1>7 DEF IsWork, Fields
<1>9. v = IF b = <<>> THEN Advance([u EXCEPT !.pos = 0]) ELSE u
  <2>1. [w EXCEPT !.buf = SubSeq(w.buf, k + 1, Len(w.buf)), !.pos = w.pos + k] = u
    BY <1>2, <1>3, <1>7
  <2> QED
    BY <1>8, <2>1 DEF Filled
<1>10. CASE b = <<>>
  <2>1. PICK y : y = [u EXCEPT !.pos = 0]
    OBVIOUS
  <2>2. IsWork(y) /\ y.buf = <<>> /\ y.start = 0 /\ y.pos = 0 /\ y.program = w.program /\ y.result = "none"
    BY <1>8, <1>10, <2>1 DEF IsWork, Fields
  <2>3. IsAfter(v, y, rest)
    BY <1>9, <1>10, <2>1, <2>2, AdvancedTo
  <2>4. Content(l[p]) = s
    <3>1. c \o a \in Seq(Songs) /\ (c \o a) \o <<>> = c \o a
      BY <1>4
    <3> QED
      BY <1>5, <1>6, <1>10, <3>1
  <2> QED
    BY <2>2, <2>3, <2>4 DEF Fresh, FilledSo
<1>11. CASE b # <<>>
  BY <1>6, <1>8, <1>9, <1>11 DEF FilledSo
<1> QED
  BY <1>10, <1>11

(* A playlist that is cut.                                                 *)
LEMMA CutPlist ==
  ASSUME lists \in Stored, NEW p \in PlistNames, NEW c, c.do = "delfrom", c.a = p, NEW l, l = MpdCommand(lists, c), l # NoList
  PROVE  /\ lists[p] \in Seq(Songs) /\ c.b \in DOMAIN lists[p] /\ l[p] = Upto(lists[p], c.b - 1)
         /\ \A n \in PlistNames \ {p} : l[n] = lists[n]
<1>1. lists[p] # NoList /\ c.b \in DOMAIN lists[p] /\ l = [lists EXCEPT ![p] = Upto(lists[p], c.b - 1)]
  BY DEF MpdCommand
<1>2. lists = [n \in PlistNames |-> lists[n]] /\ lists[p] \in Seq(Songs) \union {NoList}
  BY DEF Stored
<1> QED
  BY <1>1, <1>2

(* What an update does is settled when it starts.                          *)
LEMMA SameJob ==
  ASSUME NEW w, NEW v, Kin(v, w)
  PROVE  /\ v.arg = w.arg /\ v.def = w.def /\ v.nr = w.nr
         /\ Rest(v) = Rest(w) /\ Sorting(v) = Sorting(w) /\ Cropping(v) = Cropping(w) /\ AfterRefill(v) = AfterRefill(w)
         /\ \A p, rest : Filling(v, p, rest) = Filling(w, p, rest)
         /\ \A x : (Missing(v, x) <=> Missing(w, x)) /\ (Uncut(v, x) <=> Uncut(w, x)) /\ (Wanted(v, x) <=> Wanted(w, x))
<1>1. v.arg = w.arg /\ v.def = w.def /\ v.nr = w.nr /\ v.all = w.all
  BY DEF Kin
<1>2. Rest(v) = Rest(w) /\ Sorting(v) = Sorting(w)
  BY <1>1 DEF Rest, Sorting
<1>3. Cropping(v) = Cropping(w)
  BY <1>1, <1>2 DEF Cropping
<1>4. \A p, rest : Filling(v, p, rest) = Filling(w, p, rest)
  BY <1>1 DEF Filling, Saving, Naming, Dropping
<1>5. AfterRefill(v) = AfterRefill(w)
  BY <1>1, <1>2, <1>3, <1>4 DEF AfterRefill
<1>6. \A x : (Missing(v, x) <=> Missing(w, x)) /\ (Uncut(v, x) <=> Uncut(w, x))
  BY <1>1 DEF Missing, Uncut
<1>7. \A x : Wanted(v, x) <=> Wanted(w, x)
  BY <1>1, <1>6 DEF Wanted
<1> QED
  BY <1>1, <1>2, <1>3, <1>4, <1>5, <1>6, <1>7

(* The steps that follow the refill of a smart playlist: sorting, then     *)
(* cropping.                                                               *)
LEMMA UpdateParts ==
  ASSUME NEW w
  PROVE  /\ IsSeq(Rest(w)) /\ IsSeq(Cropping(w)) /\ IsSeq(AfterRefill(w))
         /\ w.def.max > 0 => Cropping(w) = <<Do("crop", w.arg, w.def.max)>> \o Rest(w) /\ Cropping(w) # <<>>
         /\ ~(w.def.max > 0) => Cropping(w) = Rest(w)
         /\ Sorting(w) = "none" => AfterRefill(w) = Cropping(w)
         /\ Sorting(w) # "none" => AfterRefill(w) = <<Do("read", w.arg, Sorting(w))>> \o Filling(w, w.arg, Cropping(w))
                                    /\ AfterRefill(w) # <<>>
<1>1. IsSeq(Rest(w))
  BY RestSeq
<1>2. w.def.max > 0 => /\ Cropping(w) = <<Do("crop", w.arg, w.def.max)>> \o Rest(w)
                       /\ Cropping(w) # <<>> /\ IsSeq(Cropping(w))
  <2>1. PICK c : c = Do("crop", w.arg, w.def.max)
    OBVIOUS
  <2>2. IsSeq(<<c>> \o Rest(w)) /\ <<c>> \o Rest(w) # <<>>
    BY <1>1, Starts
  <2> QED
    BY <2>1, <2>2 DEF Cropping
<1>3. ~(w.def.max > 0) => Cropping(w) = Rest(w)
  BY <1>1, Nothing DEF Cropping
<1>4. IsSeq(Cropping(w))
  BY <1>1, <1>2, <1>3
<1>5. Sorting(w) # "none" => /\ AfterRefill(w) = <<Do("read", w.arg, Sorting(w))>> \o Filling(w, w.arg, Cropping(w))
                             /\ AfterRefill(w) # <<>> /\ IsSeq(AfterRefill(w))
  <2>1. PICK c, f : c = Do("read", w.arg, Sorting(w)) /\ f = Filling(w, w.arg, Cropping(w))
    OBVIOUS
  <2>2. IsSeq(f)
    BY <1>4, <2>1, Parts
  <2>3. IsSeq(<<c>> \o f) /\ <<c>> \o f # <<>>
    BY <2>2, Starts
  <2> QED
    BY <2>1, <2>3 DEF AfterRefill
<1>6. Sorting(w) = "none" => AfterRefill(w) = Cropping(w)
  BY DEF AfterRefill
<1> QED
  BY <1>1, <1>2, <1>3, <1>4, <1>5, <1>6

(* What was found is what is wanted, but may have to be cut.               *)
LEMMA FoundUncut ==
  ASSUME NEW w, w.def \in DefKinds, Sorting(w) = "none"
  PROVE  Uncut(w, Found(w.def))
<1> DEFINE d == w.def
           n == Cardinality(KnownSongs)
<1>1. /\ Found(d) \in Seq(Songs) /\ Distinct(Found(d)) /\ Whole(d) \in Seq(KnownSongs) /\ Len(Whole(d)) = n
      /\ Found(d) = IF d.max = 0 \/ d.sort = "shuffle" \/ (d.sort = "tag" /\ d.kind = "sticker")
                    THEN Whole(d) ELSE Upto(Whole(d), d.max)
  BY Finds
<1>2. d.sort # "shuffle" /\ ~(d.sort = "tag" /\ d.kind = "sticker")
  BY DEF Sorting
<1>3. d.max \in Nat /\ n \in Nat
  BY Db DEF DefKinds
<1>4. PICK x, f : x = Whole(d) /\ f = Found(d)
  OBVIOUS
<1>5. x \in Seq(KnownSongs) /\ Len(x) = n /\ f = (IF d.max = 0 THEN x ELSE Upto(x, d.max))
  BY <1>1, <1>2, <1>4
<1>6. /\ Upto(x, d.max) = SubSeq(x, 1, Len(Upto(x, d.max)))
      /\ Len(Upto(x, d.max)) = IF d.max < n THEN d.max ELSE n
      /\ d.max >= n => Upto(x, d.max) = x
  BY <1>3, <1>5, First
<1>7. Len(f) \in 0..n /\ f = Upto(x, Len(f)) /\ (Len(f) = n \/ (d.max > 0 /\ d.max < n /\ Len(f) = d.max))
  <2>1. n >= Len(x) /\ n \in Nat
    BY <1>3, <1>5
  <2>2. Upto(x, n) = x
    BY <1>5, <2>1, First
  <2> QED
    BY <1>3, <1>5, <1>6, <2>2
<1>8. d.sort = "tag" => x = DbSorted
  BY <1>2, <1>4 DEF Whole
<1>9. f # NoList /\ Distinct(f)
  BY <1>1, <1>4, Kinds
<1> QED
  BY <1>4, <1>7, <1>8, <1>9 DEF Uncut

(* A search that finds nothing had an empty library to search.             *)
LEMMA FoundNone ==
  ASSUME NEW d \in DefKinds, Found(d) = <<>>
  PROVE  KnownSongs = {}
<1>1. /\ Whole(d) \in Seq(KnownSongs) /\ Len(Whole(d)) = Cardinality(KnownSongs)
      /\ Found(d) = IF d.max = 0 \/ d.sort = "shuffle" \/ (d.sort = "tag" /\ d.kind = "sticker")
                    THEN Whole(d) ELSE Upto(Whole(d), d.max)
  BY Finds
<1>2. PICK x \in Seq(KnownSongs) : x = Whole(d)
  BY <1>1
<1>3. d.max \in Nat /\ Cardinality(KnownSongs) \in Nat
  BY Db DEF DefKinds
<1>4. Len(Upto(x, d.max)) = IF d.max < Len(x) THEN d.max ELSE Len(x)
  BY <1>3, First
<1>5. Len(x) = 0
  BY <1>1, <1>2, <1>3, <1>4
<1> QED
  BY <1>1, <1>2, <1>5, Kinds, FS_EmptySet

(* The parts of an update that are done.                                   *)
LEMMA Cropped ==
  ASSUME NEW w, NEW v, Kin(v, w), Fresh(w), IsAfter(v, w, Rest(w)), NEW now, NEW r, Wanted(w, now)
  PROVE  UpdateInv(v, now, NoList, NoList, r)
<1>1. Rest(v) = Rest(w) /\ Wanted(v, now)
  BY SameJob
<1>2. Fresh(v) /\ v.program = Rest(w) /\ (Rest(w) # <<>> => v.result = "none") /\ (Rest(w) = <<>> => v.result = "ok")
  BY DEF IsAfter, Fresh
<1> QED
  BY <1>1, <1>2 DEF UpdateInv

(* A refilled smart playlist is what the search found, or is missing when  *)
(* that is nothing.                                                        *)
LEMMA Refilled ==
  ASSUME NEW w, NEW v, Kin(v, w), w.def \in DefKinds, NEW u, Fresh(u), IsAfter(v, u, AfterRefill(w)), NEW now, NEW r,
         now = Found(w.def) \/ Missing(w, now)
  PROVE  UpdateInv(v, now, NoList, NoList, r)
<1> DEFINE d == w.def
<1>1. AfterRefill(v) = AfterRefill(w) /\ v.def = d /\ (Missing(v, now) <=> Missing(w, now)) /\ (Wanted(v, now) <=> Wanted(w, now))
  BY SameJob
<1>2. /\ Fresh(v) /\ v.program = AfterRefill(w)
      /\ (v.program # <<>> => v.result = "none") /\ (v.program = <<>> => v.result = "ok")
  BY DEF IsAfter, Fresh
<1>3. CASE v.program # <<>>
  BY <1>1, <1>2, <1>3 DEF UpdateInv
<1>4. CASE v.program = <<>>
  <2>1. Sorting(w) = "none" /\ ~(d.max > 0)
    BY <1>2, <1>4, UpdateParts
  <2>2. Uncut(w, Found(d))
    BY <2>1, FoundUncut
  <2>3. d.max = 0
    <3>1. d.max \in Nat
      BY DEF DefKinds
    <3>2. ~(d.max > 0)
      BY <2>1
    <3> QED
      BY <3>1, <3>2
  <2>4. Wanted(w, now)
    BY <2>2, <2>3 DEF Wanted, Uncut
  <2> QED
    BY <1>1, <1>2, <1>4, <2>4 DEF UpdateInv
<1> QED
  BY <1>3, <1>4

(* The exchanges of an update, phase by phase.                             *)
UpdateBase(w) ==
  /\ WorkOK(w) /\ w.arg \in Plists /\ w.nr \in JobIds /\ w.def \in DefKinds /\ w.result = "none"
  /\ lists[Tmp(w.nr)] = NoList /\ lists[Bak(w.nr)] = NoList /\ lists \in Stored
Reach(w, v, l) == UpdateInv(v, l[w.arg], l[Tmp(w.nr)], l[Bak(w.nr)], ranges)

(* An update that touches its own playlist only leaves no other list       *)
(* behind.                                                                 *)
LEMMA UpdateNames ==
  ASSUME NEW w, UpdateBase(w), NEW l, \A n \in PlistNames \ {w.arg} : l[n] = lists[n]
  PROVE  l[Tmp(w.nr)] = NoList /\ l[Bak(w.nr)] = NoList
<1>1. w.arg \in PlistNames /\ Tmp(w.nr) \in PlistNames /\ Bak(w.nr) \in PlistNames /\ w.arg # Tmp(w.nr) /\ w.arg # Bak(w.nr)
  BY Three DEF UpdateBase
<1> QED
  BY <1>1 DEF UpdateBase

(* The old list of a smart playlist is removed before it is refilled.      *)
LEMMA UpdateRemoves ==
  ASSUME NEW w, UpdateBase(w), NEW e, e.do = "rmif", e.a = w.arg, NEW feat \in BOOLEAN,
         w.program = <<e>> \o (Refill(w.arg, w.def, feat) \o AfterRefill(w)), Fresh(w),
         NEW l, NEW v, Outcome(w, l, v), ~v.blind, v.result # "failed"
  PROVE  Reach(w, v, l)
<1> DEFINE p == w.arg
           d == w.def
<1>1. IsWork(w) /\ Kin(v, w) /\ w.result = "none"
  <2>1. IsWork(w)
    BY DEF UpdateBase, WorkOK
  <2> QED
    BY <2>1, Kept DEF UpdateBase
<1>2. p \in PlistNames
  BY Three DEF UpdateBase
<1>3. PICK fill : fill = Refill(p, d, feat)
  OBVIOUS
<1>4. IsSeq(fill) /\ (fill = <<>> => d.kind = "sticker")
  <2>1. \A a, b : IsSeq(<<a, b>>) /\ <<a, b>> # <<>>
    <3>1. SUFFICES ASSUME NEW a, NEW b PROVE IsSeq(<<a, b>>) /\ <<a, b>> # <<>>
      OBVIOUS
    <3>2. <<a, b>> \in Seq({a, b})
      OBVIOUS
    <3> QED
      BY <3>2 DEF IsSeq
  <2>2. \A a : IsSeq(<<a>>) /\ <<a>> # <<>>
    BY Single
  <2> QED
    BY <1>3, <2>1, <2>2, Empty DEF Refill
<1>5. PICK left : left = fill \o AfterRefill(w)
  OBVIOUS
<1>6. IsSeq(AfterRefill(w)) /\ IsSeq(left)
  BY <1>4, <1>5, UpdateParts, Joins
<1>7. w.program = <<e>> \o left
  BY <1>3, <1>5
<1>8. Head(w.program) = e
  BY <1>6, <1>7, Starts
<1>9. ASSUME v = Undo(w, e) PROVE FALSE
  <2>1. PICK u : u = [w EXCEPT !.blind = TRUE]
    OBVIOUS
  <2>2. IsWork(u) /\ u.program = w.program /\ u.result = "none" /\ u.blind
    BY <1>1, <2>1 DEF IsWork, Fields
  <2>3. v = Advance(u)
    BY <1>1, <1>9, <2>1 DEF Undo
  <2>4. IsAfter(v, u, left)
    BY <1>6, <1>7, <2>2, <2>3, AdvancedTo
  <2> QED
    BY <2>2, <2>4 DEF IsAfter
<1>10. ASSUME v = Lost(w, e) PROVE FALSE
  <2>1. \E r, q : v = [w EXCEPT !.buf = <<>>, !.blind = TRUE, !.result = r, !.program = q]
    BY <1>10 DEF Lost
  <2> QED
    BY <1>1, <2>1 DEF IsWork, Fields
<1>11. l[p] = NoList /\ (\A n \in PlistNames \ {p} : l[n] = lists[n]) /\ v = Advance(w)
  <2>1. ASSUME v \in After(w, e) PROVE v = Advance(w)
    BY <2>1 DEF After
  <2>2. CASE Exists(p)
    <3>1. PICK c : c = Do("rm", p, "")
      OBVIOUS
    <3>2. c.do = "rm" /\ c.a = p /\ Tellable(c)
      BY <3>1 DEF Do, Tellable
    <3>3. Commands(w, e) = <<c>>
      BY <2>2, <3>1 DEF Commands
    <3>4. \/ l = lists /\ (v = Undo(w, e) \/ v = Lost(w, e))
          \/ l = MpdCommand(lists, c) /\ l # NoList /\ (v \in After(w, e) \/ v = Lost(w, e))
      BY <1>8, <3>2, <3>3, OneOutcome DEF UpdateBase
    <3>5. l = MpdCommand(lists, c) /\ l # NoList /\ v = Advance(w)
      BY <1>9, <1>10, <2>1, <3>4
    <3> QED
      BY <1>2, <3>2, <3>5, RemovedPlist DEF UpdateBase
  <2>3. CASE ~Exists(p)
    <3>1. Commands(w, e) = <<>>
      BY <2>3 DEF Commands
    <3>2. l = lists /\ (v \in After(w, e) \/ v = Undo(w, e) \/ v = Lost(w, e))
      BY <1>8, <3>1, QuietOutcome DEF UpdateBase
    <3> QED
      BY <1>9, <1>10, <2>1, <2>3, <3>2 DEF Exists
  <2> QED
    BY <2>2, <2>3
<1>12. l[Tmp(w.nr)] = NoList /\ l[Bak(w.nr)] = NoList
  BY <1>11, UpdateNames
<1>13. IsAfter(v, w, left)
  BY <1>1, <1>6, <1>7, <1>11, AdvancedTo
<1>14. v.arg = p /\ v.def = d /\ AfterRefill(v) = AfterRefill(w)
  BY <1>1, SameJob
<1>15. CASE left # <<>>
  <2>1. Fresh(v) /\ v.result = "none" /\ v.program = left
    BY <1>13, <1>15 DEF IsAfter, Fresh
  <2>2. Refilling(v, l[p])
    BY <1>3, <1>5, <1>11, <1>14, <2>1 DEF Refilling
  <2> QED
    BY <1>12, <2>1, <2>2 DEF UpdateInv, Reach
<1>16. CASE left = <<>>
  <2>1. fill = <<>> /\ AfterRefill(w) = <<>>
    BY <1>4, <1>5, <1>6, <1>16, Joined0
  <2>2. Missing(w, NoList)
    BY <1>4, <2>1 DEF Missing
  <2>3. IsAfter(v, w, AfterRefill(w))
    BY <1>13, <1>16, <2>1
  <2>4. UpdateInv(v, NoList, NoList, NoList, ranges)
    <3>1. w.def \in DefKinds
      BY DEF UpdateBase
    <3>2. PICK now : now = NoList
      OBVIOUS
    <3>3. UpdateInv(v, now, NoList, NoList, ranges)
      BY <1>1, <2>2, <2>3, <3>1, <3>2, Refilled
    <3> QED
      BY <3>2, <3>3
  <2> QED
    BY <1>11, <1>12, <2>4 DEF Reach
<1> QED
  BY <1>15, <1>16

\* a search in the database, MPD adds the songs
LEMMA UpdateSearches ==
  ASSUME NEW w, UpdateBase(w), NEW e, e.do = "search", e.a = w.arg, e.b = w.def, lists[w.arg] = NoList,
         w.program = <<e>> \o AfterRefill(w), Fresh(w),
         NEW l, NEW v, Outcome(w, l, v), v.result # "failed"
  PROVE  Reach(w, v, l)
<1> DEFINE p == w.arg
           d == w.def
<1>1. IsWork(w) /\ Kin(v, w) /\ w.result = "none" /\ d \in DefKinds
  <2>1. IsWork(w)
    BY DEF UpdateBase, WorkOK
  <2> QED
    BY <2>1, Kept DEF UpdateBase
<1>2. p \in PlistNames
  BY Three DEF UpdateBase
<1>3. IsSeq(AfterRefill(w)) /\ Head(w.program) = e
  BY UpdateParts, Starts
<1>4. v # Undo(w, e) /\ v # Lost(w, e)
  BY <1>1, Failures
<1>5. PICK songs \in Seq(Songs) : songs = Found(d)
  BY <1>1, Finds
<1>6. PICK cs : cs = Commands(w, e)
  OBVIOUS
<1>7. cs = [i \in DOMAIN songs |-> Add(p, songs[i])]
  BY <1>5, <1>6 DEF Commands
<1>8. Len(cs) = Len(songs) /\ \A i \in 1..Len(cs) : cs[i] = Add(p, songs[i])
  <2>1. cs = [i \in 1..Len(songs) |-> Add(p, songs[i])]
    BY <1>7
  <2>2. cs = [i \in 1..Len(songs) |-> cs[i]] /\ Len(songs) \in Nat
    BY <2>1
  <2>3. Len(cs) = Len(songs)
    BY <2>2, Listed
  <2> QED
    BY <2>1, <2>3
<1>9. \E k \in 0..Len(songs) :
        /\ Added(l, p, songs, k)
        /\ (v \in After(w, e) /\ k = Len(cs)) \/ v = Undo(w, e) \/ v = Lost(w, e)
  <2>1. PICK s : s = Head(w.program)
    OBVIOUS
  <2>2. s = e
    BY <1>3, <2>1
  <2>3. Len(Commands(w, s)) \in 0..Len(songs) /\ \A i \in 1..Len(Commands(w, s)) : Commands(w, s)[i] = Add(p, songs[i])
    BY <1>6, <1>8, <2>2
  <2>4. \E k \in 0..Len(songs) :
        /\ Added(l, p, songs, k)
        /\ (v \in After(w, s) /\ k = Len(Commands(w, s))) \/ v = Undo(w, s) \/ v = Lost(w, s)
    <3>1. lists \in Stored
      BY DEF UpdateBase
    <3>2. AddedTo(w, l, v, s, p, songs)
      BY <1>2, <2>1, <2>3, <3>1, AddedOutcome
    <3> QED
      BY <3>2 DEF AddedTo
  <2> QED
    BY <1>6, <2>2, <2>4
<1>10. PICK k : k = Len(songs) /\ Added(l, p, songs, k) /\ v \in After(w, e)
  BY <1>4, <1>8, <1>9
<1>11. v = Advance(w)
  BY <1>10 DEF After
<1>12. IsAfter(v, w, AfterRefill(w))
  BY <1>1, <1>3, <1>11, AdvancedTo
<1>13. l[p] = songs \/ (songs = <<>> /\ l[p] = NoList)
  <2>1. Content(l[p]) = songs
    <3>1. SubSeq(songs, 1, k) = songs /\ <<>> \o songs = songs
      BY <1>10
    <3> QED
      BY <1>10, <3>1 DEF Added, Content
  <2> QED
    BY <2>1 DEF Content
<1>14. l[p] = Found(d) \/ Missing(w, l[p])
  BY <1>1, <1>5, <1>13, FoundNone DEF Missing
<1>15. l[Tmp(w.nr)] = NoList /\ l[Bak(w.nr)] = NoList
  BY <1>10, UpdateNames DEF Added
<1>16. UpdateInv(v, l[p], NoList, NoList, ranges)
  BY <1>1, <1>12, <1>14, Refilled
<1> QED
  BY <1>15, <1>16 DEF Reach

(* The refill adds what was found, part by part.                           *)
LEMMA UpdateFills ==
  ASSUME NEW w, UpdateBase(w), NEW e, e.do = "fill", e.a = w.arg,
         w.program = <<e>> \o AfterRefill(w), w.start = 0, Content(lists[w.arg]) \o w.buf = Found(w.def), e = Do("fill", w.arg, ""),
         NEW l, NEW v, Outcome(w, l, v), v.result # "failed"
  PROVE  Reach(w, v, l)
<1> DEFINE p == w.arg
           d == w.def
<1>1. IsWork(w) /\ Kin(v, w) /\ w.result = "none" /\ d \in DefKinds /\ WorkOK(w) /\ lists \in Stored
  <2>1. IsWork(w)
    BY DEF UpdateBase, WorkOK
  <2> QED
    BY <2>1, Kept DEF UpdateBase
<1>2. p \in PlistNames
  BY Three DEF UpdateBase
<1>3. IsSeq(AfterRefill(w)) /\ Head(w.program) = e
  BY UpdateParts, Starts
<1>4. v # Undo(w, e) /\ v # Lost(w, e)
  BY <1>1, Failures
<1>5. PICK k \in 0..Len(w.buf) : Added(l, p, w.buf, k) /\ v = Filled(w, k)
  <2>1. PICK s : s = Head(w.program)
    OBVIOUS
  <2>2. s = e /\ s.do = "fill" /\ p = s.a
    BY <1>3, <2>1
  <2>3. \E k \in 0..Len(w.buf) :
           /\ Added(l, p, w.buf, k)
           /\ v = Filled(w, k) \/ v = Undo(w, s) \/ v = Lost(w, s)
    <3>1. FilledTo(w, l, v, s, p)
      BY <1>1, <1>2, <2>1, <2>2, FillOutcome
    <3> QED
      BY <3>1 DEF FilledTo
  <2> QED
    BY <1>4, <2>2, <2>3
<1>6. PICK s, rest : s = Found(d) /\ rest = AfterRefill(w)
  OBVIOUS
<1>7. \/ v.program = w.program /\ v.result = "none" /\ v.start = 0 /\ Content(l[p]) \o v.buf = s
      \/ \E u : IsAfter(v, u, rest) /\ Fresh(u) /\ Content(l[p]) = s
  <2>1. /\ IsSeq(rest) /\ w.program = <<e>> \o rest /\ w.start = 0 /\ Content(lists[p]) \o w.buf = s
    BY <1>3, <1>6
  <2> QED
    <3>1. FilledSo(w, v, l, p, rest, s)
      BY <1>1, <1>2, <1>5, <2>1, FilledOn
    <3> QED
      BY <3>1 DEF FilledSo
<1>8. l[Tmp(w.nr)] = NoList /\ l[Bak(w.nr)] = NoList
  BY <1>5, UpdateNames DEF Added
<1>9. CASE v.program = w.program /\ v.result = "none" /\ v.start = 0 /\ Content(l[p]) \o v.buf = s
  <2>1. v.arg = p /\ v.def = d /\ AfterRefill(v) = AfterRefill(w)
    BY <1>1, SameJob
  <2> QED
    BY <1>6, <1>8, <1>9, <2>1 DEF UpdateInv, Reach
<1>10. CASE \E u : IsAfter(v, u, rest) /\ Fresh(u) /\ Content(l[p]) = s
  <2>1. PICK u : IsAfter(v, u, rest) /\ Fresh(u) /\ Content(l[p]) = s
    BY <1>10
  <2>2. l[p] = Found(d) \/ Missing(w, l[p])
    BY <1>1, <1>6, <2>1, FoundNone DEF Missing, Content
  <2>3. UpdateInv(v, l[p], NoList, NoList, ranges)
    BY <1>1, <1>6, <2>1, <2>2, Refilled
  <2> QED
    BY <1>8, <2>3 DEF Reach
<1> QED
  BY <1>7, <1>9, <1>10

\* an exchange that MPD is told nothing in
Answered(w, l, v, e) == l = lists /\ v \in After(w, e)

(* Asking for songs or for the size of the library changes no playlist.    *)
LEMMA UpdateQuiet ==
  ASSUME NEW w, UpdateBase(w), NEW e, e = Head(w.program), e.do \in {"find", "stat"},
         NEW l, NEW v, Outcome(w, l, v), v.result # "failed"
  PROVE  Answered(w, l, v, e)
<1>1. IsWork(w) /\ w.result = "none"
  BY DEF UpdateBase, WorkOK
<1>2. v # Undo(w, e) /\ v # Lost(w, e)
  BY <1>1, Failures
<1>3. Commands(w, e) = <<>>
  BY DEF Commands
<1> QED
  BY <1>2, <1>3, QuietOutcome DEF UpdateBase, Answered

AreTwo(z, a, b, rest) == z = <<a>> \o (<<b>> \o rest) /\ IsSeq(<<b>> \o rest) /\ <<b>> \o rest # <<>>

(* A program that begins with two steps.                                   *)
LEMMA TwoSteps ==
  ASSUME NEW a, NEW b, NEW rest, IsSeq(rest), NEW z, z = <<a, b>> \o rest
  PROVE  AreTwo(z, a, b, rest)
<1>1. <<a, b>> = <<a>> \o <<b>>
  <2>1. PICK x, y, c : x = <<a>> /\ y = <<b>> /\ c = x \o y
    OBVIOUS
  <2>2. x \in Seq({a, b}) /\ y \in Seq({a, b}) /\ Len(x) = 1 /\ Len(y) = 1
    BY <2>1
  <2>3. c \in Seq({a, b}) /\ Len(c) = 2 /\ c[1] = a /\ c[2] = b
    BY <2>1, <2>2
  <2>4. c = <<a, b>>
    BY <2>3
  <2> QED
    BY <2>1, <2>4
<1>2. (<<a>> \o <<b>>) \o rest = <<a>> \o (<<b>> \o rest)
  BY Single, Assoc
<1> QED
  BY <1>1, <1>2, Starts DEF AreTwo

(* The songs are found before the refill, and none are added yet.          *)
LEMMA UpdateFinds ==
  ASSUME NEW w, UpdateBase(w), NEW e, NEW f, e.do = "find", e.b = w.def, f = Do("fill", w.arg, ""), lists[w.arg] = NoList,
         w.program = <<e, f>> \o AfterRefill(w), Fresh(w),
         NEW l, NEW v, Outcome(w, l, v), v.result # "failed"
  PROVE  Reach(w, v, l)
<1> DEFINE p == w.arg
           d == w.def
<1>1. IsWork(w) /\ Kin(v, w) /\ w.result = "none" /\ d \in DefKinds
  <2>1. IsWork(w)
    BY DEF UpdateBase, WorkOK
  <2> QED
    BY <2>1, Kept DEF UpdateBase
<1>2. PICK rest : rest = <<f>> \o AfterRefill(w)
  OBVIOUS
<1>3. w.program = <<e>> \o rest /\ IsSeq(rest) /\ rest # <<>>
  <2>1. IsSeq(AfterRefill(w))
    BY UpdateParts
  <2>2. PICK r, z : r = AfterRefill(w) /\ z = <<e, f>> \o r
    OBVIOUS
  <2>3. AreTwo(z, e, f, r)
    BY <2>1, <2>2, TwoSteps
  <2> QED
    BY <1>2, <2>2, <2>3 DEF AreTwo
<1>4. e = Head(w.program)
  BY <1>3, Starts
<1>5. l = lists /\ v \in After(w, e)
  <2>1. e.do \in {"find", "stat"}
    OBVIOUS
  <2>2. Answered(w, l, v, e)
    BY <1>4, <2>1, UpdateQuiet
  <2> QED
    BY <2>2 DEF Answered
<1>6. PICK u : u = [w EXCEPT !.buf = Found(d)]
  OBVIOUS
<1>7. v = Advance(u)
  BY <1>5, <1>6 DEF After
<1>8. IsWork(u) /\ u.program = w.program /\ u.result = "none" /\ u.buf = Found(d) /\ u.start = 0
  BY <1>1, <1>6 DEF IsWork, Fields, Fresh
<1>9. IsAfter(v, u, rest)
  BY <1>3, <1>7, <1>8, AdvancedTo
<1>10. v.program = <<f>> \o AfterRefill(w) /\ v.result = "none" /\ v.start = 0 /\ v.buf = Found(d)
  BY <1>2, <1>3, <1>8, <1>9 DEF IsAfter
<1>11. v.arg = p /\ v.def = d /\ AfterRefill(v) = AfterRefill(w)
  BY <1>1, SameJob
<1>12. Content(l[p]) \o v.buf = Found(d)
  <2>1. PICK s \in Seq(Songs) : s = Found(d)
    BY <1>1, Finds
  <2>3. IsSeq(s)
    BY DEF IsSeq
  <2>2. <<>> \o s = s
    BY <2>3, Nothing
  <2> QED
    BY <1>5, <1>10, <2>1, <2>2 DEF Content
<1>13. l[Tmp(w.nr)] = NoList /\ l[Bak(w.nr)] = NoList
  BY <1>5 DEF UpdateBase
<1>14. v.program = <<Do("fill", v.arg, "")>> \o AfterRefill(v) /\ Content(l[p]) \o v.buf = Found(v.def)
  BY <1>10, <1>11, <1>12
<1> QED
  BY <1>10, <1>13, <1>14 DEF UpdateInv, Reach

(* The size of the library is asked for before the search.                 *)
LEMMA UpdateStats ==
  ASSUME NEW w, UpdateBase(w), NEW e, NEW f, e.do = "stat", f = Do("search", w.arg, w.def), lists[w.arg] = NoList,
         w.program = <<e, f>> \o AfterRefill(w), Fresh(w),
         NEW l, NEW v, Outcome(w, l, v), v.result # "failed"
  PROVE  Reach(w, v, l)
<1> DEFINE p == w.arg
           d == w.def
<1>1. IsWork(w) /\ Kin(v, w) /\ w.result = "none" /\ d \in DefKinds
  <2>1. IsWork(w)
    BY DEF UpdateBase, WorkOK
  <2> QED
    BY <2>1, Kept DEF UpdateBase
<1>2. PICK rest : rest = <<f>> \o AfterRefill(w)
  OBVIOUS
<1>3. w.program = <<e>> \o rest /\ IsSeq(rest) /\ rest # <<>>
  <2>1. IsSeq(AfterRefill(w))
    BY UpdateParts
  <2>2. PICK r, z : r = AfterRefill(w) /\ z = <<e, f>> \o r
    OBVIOUS
  <2>3. AreTwo(z, e, f, r)
    BY <2>1, <2>2, TwoSteps
  <2> QED
    BY <1>2, <2>2, <2>3 DEF AreTwo
<1>4. e = Head(w.program)
  BY <1>3, Starts
<1>5. l = lists /\ v \in After(w, e)
  <2>1. e.do \in {"find", "stat"}
    OBVIOUS
  <2>2. Answered(w, l, v, e)
    BY <1>4, <2>1, UpdateQuiet
  <2> QED
    BY <2>2 DEF Answered
<1>6. v = Advance(w)
  BY <1>5 DEF After
<1>7. IsAfter(v, w, rest)
  BY <1>1, <1>3, <1>6, AdvancedTo
<1>8. v.program = <<f>> \o AfterRefill(w) /\ v.result = "none" /\ Fresh(v)
  BY <1>2, <1>3, <1>7 DEF IsAfter, Fresh
<1>9. v.arg = p /\ v.def = d /\ AfterRefill(v) = AfterRefill(w)
  BY <1>1, SameJob
<1>10. l[Tmp(w.nr)] = NoList /\ l[Bak(w.nr)] = NoList /\ l[p] = NoList
  BY <1>5 DEF UpdateBase
<1>11. Refilling(v, l[p])
  BY <1>8, <1>9, <1>10 DEF Refilling
<1> QED
  BY <1>8, <1>10, <1>11 DEF UpdateInv, Reach

\* the playlist is cut
LEMMA UpdateCrops ==
  ASSUME NEW w, UpdateBase(w), NEW e, e.do = "crop", e.a = w.arg, e.b = w.def.max, w.def.max > 0,
         w.program = <<e>> \o Rest(w), Fresh(w), Uncut(w, lists[w.arg]) \/ Missing(w, lists[w.arg]),
         NEW l, NEW v, Outcome(w, l, v), ~v.blind
  PROVE  Reach(w, v, l)
<1> DEFINE p == w.arg
           d == w.def
           n == Cardinality(KnownSongs)
<1>1. IsWork(w) /\ Kin(v, w) /\ w.result = "none" /\ lists \in Stored
  <2>1. IsWork(w)
    BY DEF UpdateBase, WorkOK
  <2> QED
    BY <2>1, Kept DEF UpdateBase
<1>2. p \in PlistNames /\ lists[p] \in Seq(Songs) \union {NoList}
  <2>1. p \in PlistNames
    BY Three DEF UpdateBase
  <2> QED
    BY <1>1, <2>1 DEF Stored
<1>3. PICK max \in Nat : max = d.max /\ max > 0
  BY DEF UpdateBase, DefKinds
<1>4. IsSeq(Rest(w)) /\ Head(w.program) = e
  BY RestSeq, Starts
<1>5. ASSUME v = Undo(w, e) PROVE FALSE
  <2>1. PICK u : u = [w EXCEPT !.blind = TRUE]
    OBVIOUS
  <2>2. IsWork(u) /\ u.program = w.program /\ u.result = "none" /\ u.blind
    BY <1>1, <2>1 DEF IsWork, Fields
  <2>3. v = Advance(u)
    BY <1>1, <1>5, <2>1 DEF Undo
  <2>4. IsAfter(v, u, Rest(w))
    BY <1>4, <2>2, <2>3, AdvancedTo
  <2> QED
    BY <2>2, <2>4 DEF IsAfter
<1>6. ASSUME v = Lost(w, e) PROVE FALSE
  <2>1. \E r, q : v = [w EXCEPT !.buf = <<>>, !.blind = TRUE, !.result = r, !.program = q]
    BY <1>6 DEF Lost
  <2> QED
    BY <1>1, <2>1 DEF IsWork, Fields
<1>7. ASSUME v \in After(w, e) PROVE v = Advance(w)
  BY <1>7 DEF After
<1>8. n \in Nat
  BY Db
<1>9. CASE Exists(p) /\ Len(lists[p]) > max
  <2>20. PICK s \in Seq(Songs) : s = lists[p]
    BY <1>2, <1>9 DEF Exists
  <2>21. PICK m : m = max + 1
    OBVIOUS
  <2>1. s = lists[p] /\ m = max + 1
    BY <2>20, <2>21
  <2>2. PICK c : c = Do("delfrom", p, m)
    OBVIOUS
  <2>3. c.do = "delfrom" /\ c.a = p /\ c.b = m /\ Tellable(c)
    BY <2>2 DEF Do, Tellable
  <2>4. Commands(w, e) = <<c>>
    BY <1>3, <1>9, <2>1, <2>2 DEF Commands
  <2>5. \/ l = lists /\ (v = Undo(w, e) \/ v = Lost(w, e))
        \/ l = MpdCommand(lists, c) /\ l # NoList /\ (v \in After(w, e) \/ v = Lost(w, e))
    BY <1>1, <1>4, <2>3, <2>4, OneOutcome
  <2>6. l = MpdCommand(lists, c) /\ l # NoList /\ v = Advance(w)
    BY <1>5, <1>6, <1>7, <2>5
  <2>7. l[p] = Upto(lists[p], c.b - 1) /\ \A q \in PlistNames \ {p} : l[q] = lists[q]
    BY <1>1, <1>2, <2>3, <2>6, CutPlist
  <2>8. l[p] = Upto(s, max)
    <3>1. m - 1 = max
      BY <2>1
    <3> QED
      BY <2>1, <2>3, <2>7, <3>1
  <2>9. PICK t : t = Upto(s, max)
    OBVIOUS
  <2>10. t \in Seq(Songs) /\ Len(t) = max /\ t = SubSeq(s, 1, max)
    <3>1. max < Len(s)
      BY <1>9, <2>1
    <3> QED
      BY <2>9, <3>1, First
  <2>11. Uncut(w, s)
    <3>1. ~Missing(w, lists[p])
      BY <1>9 DEF Missing, Exists
    <3> QED
      BY <2>1, <3>1
  <2>12. Len(s) = n /\ Distinct(s) /\ (d.sort = "tag" => s = Upto(DbSorted, Len(s))) /\ max < n
    BY <1>3, <1>9, <2>1, <2>11 DEF Uncut
  <2>13. Distinct(t)
    <3>1. DOMAIN t = 1..max /\ \A i \in 1..max : t[i] = s[i] /\ i \in DOMAIN s
      BY <1>9, <2>1, <2>10
    <3> QED
      BY <2>12, <3>1 DEF Distinct
  <2>14. d.sort = "tag" => t = Upto(DbSorted, Len(t))
    <3>1. SUFFICES ASSUME d.sort = "tag" PROVE t = Upto(DbSorted, Len(t))
      OBVIOUS
    <3>2. PICK x \in Seq(KnownSongs) : x = DbSorted /\ Len(x) = n
      BY Db
    <3>3. Upto(x, n) = x
      <4>1. n >= Len(x)
        BY <1>8, <3>2
      <4> QED
        BY <1>8, <4>1, First
    <3>4. s = x
      BY <2>12, <3>1, <3>2, <3>3
    <3> QED
      BY <2>9, <2>10, <3>2, <3>4
  <2>15. Uncut(w, t)
    BY <1>3, <2>10, <2>12, <2>13, <2>14, Kinds DEF Uncut
  <2>16. Wanted(w, t)
    BY <1>3, <1>8, <2>10, <2>12, <2>15 DEF Wanted
  <2>17. IsAfter(v, w, Rest(w))
    BY <1>1, <1>4, <2>6, AdvancedTo
  <2>18. UpdateInv(v, t, NoList, NoList, ranges)
    BY <1>1, <2>16, <2>17, Cropped
  <2>19. l[Tmp(w.nr)] = NoList /\ l[Bak(w.nr)] = NoList
    BY <2>7, UpdateNames
  <2> QED
    BY <2>8, <2>9, <2>18, <2>19 DEF Reach
<1>10. CASE ~(Exists(p) /\ Len(lists[p]) > max)
  <2>1. Commands(w, e) = <<>>
    BY <1>3, <1>10 DEF Commands
  <2>2. l = lists /\ (v \in After(w, e) \/ v = Undo(w, e) \/ v = Lost(w, e))
    BY <1>1, <1>4, <2>1, QuietOutcome
  <2>3. v = Advance(w)
    BY <1>5, <1>6, <1>7, <2>2
  <2>4. Wanted(w, lists[p])
    <3>1. CASE Missing(w, lists[p])
      BY <3>1 DEF Wanted
    <3>2. CASE Uncut(w, lists[p])
      <4>1. PICK s \in Seq(Songs) : s = lists[p]
        BY <1>2, <3>2 DEF Uncut
      <4>2. ~(Len(s) > max)
        BY <1>10, <3>2, <4>1 DEF Uncut, Exists
      <4>3. Len(s) = n \/ (max < n /\ Len(s) = max)
        BY <1>3, <3>2, <4>1 DEF Uncut
      <4>4. Len(s) = IF max = 0 \/ max > n THEN n ELSE max
        BY <1>3, <1>8, <4>2, <4>3
      <4> QED
        BY <1>3, <3>2, <4>1, <4>4 DEF Wanted
    <3> QED
      BY <3>1, <3>2
  <2>5. IsAfter(v, w, Rest(w))
    BY <1>1, <1>4, <2>3, AdvancedTo
  <2>6. PICK now : now = lists[p]
    OBVIOUS
  <2>7. UpdateInv(v, now, NoList, NoList, ranges)
    BY <1>1, <2>4, <2>5, <2>6, Cropped
  <2>8. l[Tmp(w.nr)] = NoList /\ l[Bak(w.nr)] = NoList
    BY <2>2 DEF UpdateBase
  <2> QED
    BY <2>2, <2>6, <2>7, <2>8 DEF Reach
<1> QED
  BY <1>9, <1>10

\* an update that shuffles or sorts the playlist
LEMMA UpdateOrders ==
  ASSUME lists \in Stored, ranges \in BOOLEAN, NEW w, WorkOK(w), w.nr \in JobIds, w.arg \in Plists, w.def \in DefKinds,
         w.result = "none", Sorting(w) # "none",
         Reordering(w, lists[w.arg], lists[Tmp(w.nr)], lists[Bak(w.nr)], ranges, Sorting(w), Found(w.def), Cropping(w)),
         NEW l, NEW v, Outcome(w, l, v), v.result # "failed"
  PROVE  Reach(w, v, l)
<1> DEFINE p == w.arg
           d == w.def
           T == Tmp(w.nr)
           B == Bak(w.nr)
           n == Cardinality(KnownSongs)
<1>1. IsWork(w) /\ Kin(v, w)
  <2>1. IsWork(w)
    BY DEF WorkOK
  <2> QED
    BY <2>1, Kept
<1>8. PICK how \in {"shuffle", "sort"}, s \in Seq(Songs) : how = Sorting(w) /\ s = Found(d)
  <2>1. Sorting(w) \in {"shuffle", "sort"}
    BY DEF Sorting
  <2>2. Found(d) \in Seq(Songs)
    BY Finds
  <2> QED
    BY <2>1, <2>2
<1>9. PICK rest : rest = Cropping(w)
  OBVIOUS
<1>2. how = Sorting(w) /\ s = Found(d) /\ rest = Cropping(w)
  BY <1>8, <1>9
<1>3. IsSeq(rest) /\ Reordering(w, lists[p], lists[T], lists[B], ranges, how, s, rest)
  BY <1>2, UpdateParts
<1>4. Reached(w, v, l, how, s, rest)
  BY <1>3, ReorderingStep
<1>5. /\ v.arg = p /\ v.def = d /\ v.nr = w.nr /\ Sorting(v) = how /\ Cropping(v) = rest /\ AfterRefill(v) = AfterRefill(w)
      /\ \A x : (Uncut(v, x) <=> Uncut(w, x)) /\ (Wanted(v, x) <=> Wanted(w, x))
  BY <1>1, <1>2, SameJob
<1>6. CASE v.result = "none" /\ Reordering(v, l[p], l[T], l[B], ranges, how, s, rest)
  <2>1. Reordering(v, l[p], l[T], l[B], ranges, Sorting(v), Found(v.def), Cropping(v)) /\ Sorting(v) # "none"
    BY <1>2, <1>5, <1>6
  <2> QED
    BY <1>6, <2>1 DEF UpdateInv, Reach
<1>7. CASE /\ v.program = rest /\ (rest # <<>> => v.result = "none") /\ (rest = <<>> => v.result = "ok")
           /\ Fresh(v) /\ l[p] # NoList /\ Reordered(l[p], s, how) /\ l[T] = NoList /\ l[B] = NoList
  <2>1. PICK b : b = l[p]
    OBVIOUS
  <2>2. b \in Reorderings(s) /\ (how = "sort" => b = Sorted(s))
    BY <1>7, <2>1 DEF Reordered
  <2>3. Distinct(b) /\ b \in Seq(Songs) /\ Len(b) = Len(s)
    <3>1. Distinct(s)
      BY <1>2, Finds
    <3>2. b \in Seq(Songs) /\ Len(b) = Len(s)
      BY <2>2, Shuffled
    <3> QED
      BY <2>2, <3>1, <3>2, ShuffledSame
  <2>4. s = Whole(d) /\ Len(s) = n
    <3>1. d.sort = "shuffle" \/ (d.sort = "tag" /\ d.kind = "sticker")
      BY DEF Sorting
    <3>2. /\ Len(Whole(d)) = n
          /\ Found(d) = IF d.max = 0 \/ d.sort = "shuffle" \/ (d.sort = "tag" /\ d.kind = "sticker")
                        THEN Whole(d) ELSE Upto(Whole(d), d.max)
      BY Finds
    <3> QED
      BY <1>2, <3>1, <3>2
  <2>5. d.sort = "tag" => b = Upto(DbSorted, Len(b))
    <3>1. SUFFICES ASSUME d.sort = "tag" PROVE b = Upto(DbSorted, Len(b))
      OBVIOUS
    <3>2. how = "sort" /\ d.kind = "sticker"
      BY <1>2, <3>1 DEF Sorting
    <3>3. s = DbOrder(KnownSongs)
      BY <2>4, <3>2 DEF Whole
    <3>4. b = DbSorted
      BY <2>2, <3>2, <3>3 DEF DbSorted
    <3>5. PICK x \in Seq(KnownSongs) : x = DbSorted
      BY Db
    <3>6. Len(x) \in Nat /\ Len(x) >= Len(x)
      OBVIOUS
    <3>7. Upto(x, Len(x)) = x
      BY <3>6, First
    <3> QED
      BY <3>4, <3>5, <3>7
  <2>6. Uncut(w, b)
    BY <1>7, <2>1, <2>3, <2>4, <2>5 DEF Uncut
  <2>7. CASE rest # <<>>
    BY <1>5, <1>7, <2>1, <2>6, <2>7 DEF UpdateInv, Reach
  <2>8. CASE rest = <<>>
    <3>1. ~(d.max > 0)
      BY <1>2, <2>8, UpdateParts
    <3>2. d.max \in Nat
      BY DEF DefKinds
    <3>3. d.max = 0
      BY <3>1, <3>2
    <3>4. Wanted(w, b)
      BY <2>3, <2>4, <2>6, <3>3 DEF Wanted
    <3> QED
      BY <1>5, <1>7, <2>1, <2>8, <3>4 DEF UpdateInv, Reach
  <2> QED
    BY <2>7, <2>8
<1> QED
  BY <1>4, <1>6, <1>7 DEF Reached

(* An exchange of an update.                                               *)
LEMMA UpdateStep ==
  ASSUME lists \in Stored, ranges \in BOOLEAN, NEW w, WorkOK(w), w.nr \in JobIds, w.arg \in Plists, w.def \in DefKinds,
         w.program # <<>>, Head(w.program).do \notin Local,
         UpdateInv(w, lists[w.arg], lists[Tmp(w.nr)], lists[Bak(w.nr)], ranges),
         NEW l, NEW v, Outcome(w, l, v), ~v.blind, v.result # "failed"
  PROVE  Reach(w, v, l)
<1> DEFINE p == w.arg
           d == w.def
           now == lists[p]
           new == lists[Tmp(w.nr)]
           bak == lists[Bak(w.nr)]
<1>1. IsSeq(Rest(w)) /\ IsSeq(Cropping(w)) /\ IsSeq(AfterRefill(w))
  BY UpdateParts
<1>2. ASSUME w.program = Rest(w) PROVE FALSE
  <2>1. PICK c : c = Do("next", "", "")
    OBVIOUS
  <2>2. c.do = "next"
    BY <2>1 DEF Do
  <2>3. w.program = <<c>>
    BY <1>2, <2>1 DEF Rest
  <2>4. Head(w.program) = c
    BY <2>3
  <2> QED
    BY <2>2, <2>4 DEF Local
<1>3. CASE w.result = "none" /\ Sorting(w) # "none"
           /\ Reordering(w, now, new, bak, ranges, Sorting(w), Found(d), Cropping(w))
  BY <1>3, UpdateOrders
<1>4. ASSUME w.result = "none", new = NoList, bak = NoList PROVE UpdateBase(w)
  BY <1>4 DEF UpdateBase
<1>5. ASSUME UpdateBase(w), Fresh(w), w.program = Cropping(w), Uncut(w, now) \/ Missing(w, now) PROVE Reach(w, v, l)
  <2>1. CASE d.max > 0
    <3>1. PICK c : c = Do("crop", p, d.max)
      OBVIOUS
    <3>2. c.do = "crop" /\ c.a = p /\ c.b = d.max
      BY <3>1 DEF Do
    <3>3. w.program = <<c>> \o Rest(w)
      BY <1>5, <2>1, <3>1, UpdateParts
    <3> QED
      BY <1>5, <2>1, <3>2, <3>3, UpdateCrops
  <2>2. CASE ~(d.max > 0)
    BY <1>2, <1>5, <2>2, UpdateParts
  <2> QED
    BY <2>1, <2>2
<1>6. ASSUME UpdateBase(w), Fresh(w), w.program = AfterRefill(w), now = Found(d) \/ Missing(w, now) PROVE Reach(w, v, l)
  <2>1. CASE Sorting(w) = "none"
    <3>1. w.program = Cropping(w)
      BY <1>6, <2>1, UpdateParts
    <3>2. Uncut(w, Found(d))
      BY <2>1, FoundUncut
    <3> QED
      BY <1>5, <1>6, <3>1, <3>2
  <2>2. CASE Sorting(w) # "none"
    <3>1. PICK c, f : c = Do("read", p, Sorting(w)) /\ f = Filling(w, p, Cropping(w))
      OBVIOUS
    <3>2. c.do = "read" /\ c.a = p /\ c.b = Sorting(w)
      BY <3>1 DEF Do
    <3>3. w.program = <<c>> \o f /\ IsSeq(f)
      BY <1>1, <1>6, <2>2, <3>1, UpdateParts, Parts
    <3>4. CASE now = Found(d)
      <4>1. Reading(w, ranges, <<>>, Found(d))
        BY <1>6 DEF Reading, Fresh
      <4>2. Reordering(w, now, new, bak, ranges, Sorting(w), Found(d), Cropping(w))
        BY <1>6, <3>1, <3>3, <3>4, <4>1 DEF Reordering, UpdateBase
      <4>3. w.result = "none"
        BY <1>6 DEF UpdateBase
      <4> QED
        BY <2>2, <4>2, <4>3, UpdateOrders
    <3>5. CASE Missing(w, now)
      <4>1. c = Head(w.program)
        BY <3>3, Starts
      <4>2. Commands(w, c) = <<>>
        BY <3>2 DEF Commands
      <4>3. v \in After(w, c) \/ v = Undo(w, c) \/ v = Lost(w, c)
        BY <4>1, <4>2, QuietOutcome
      <4>4. After(w, c) = {}
        BY <3>2, <3>5 DEF After, Missing, Exists
      <4>5. IsWork(w) /\ w.result = "none"
        BY <1>6 DEF UpdateBase, WorkOK
      <4> QED
        BY <3>2, <4>3, <4>4, <4>5, Failures
    <3> QED
      BY <1>6, <3>4, <3>5
  <2> QED
    BY <2>1, <2>2
<1>7. ASSUME UpdateBase(w), now = NoList, Fresh(w), w.program = <<Do("search", p, d)>> \o AfterRefill(w) PROVE Reach(w, v, l)
  <2>1. PICK c : c = Do("search", p, d)
    OBVIOUS
  <2>2. c.do = "search" /\ c.a = p /\ c.b = d
    BY <2>1 DEF Do
  <2>3. w.program = <<c>> \o AfterRefill(w)
    BY <1>7, <2>1
  <2> QED
    BY <1>7, <2>2, <2>3, UpdateSearches
<1>8. ASSUME UpdateBase(w), now = NoList, Fresh(w), NEW feat \in BOOLEAN, w.program = Refill(p, d, feat) \o AfterRefill(w)
      PROVE  Reach(w, v, l)
  <2>1. CASE d.kind = "sticker" /\ feat
    <3>1. PICK e, f : e = Do("find", p, d) /\ f = Do("fill", p, "")
      OBVIOUS
    <3>2. e.do = "find" /\ e.b = d
      BY <3>1 DEF Do
    <3>3. w.program = <<e, f>> \o AfterRefill(w)
      BY <1>8, <2>1, <3>1 DEF Refill
    <3> QED
      BY <1>8, <3>1, <3>2, <3>3, UpdateFinds
  <2>2. CASE d.kind = "sticker" /\ ~feat
    <3>1. w.program = AfterRefill(w)
      BY <1>1, <1>8, <2>2, Nothing DEF Refill
    <3> QED
      BY <1>6, <1>8, <2>2, <3>1 DEF Missing
  <2>3. CASE d.kind = "newest"
    <3>1. PICK e, f : e = Do("stat", p, "") /\ f = Do("search", p, d)
      OBVIOUS
    <3>2. e.do = "stat"
      BY <3>1 DEF Do
    <3>3. w.program = <<e, f>> \o AfterRefill(w)
      BY <1>8, <2>3, <3>1 DEF Refill
    <3> QED
      BY <1>8, <3>1, <3>2, <3>3, UpdateStats
  <2>4. CASE d.kind \notin {"sticker", "newest"}
    <3>1. w.program = <<Do("search", p, d)>> \o AfterRefill(w)
      BY <1>8, <2>4 DEF Refill
    <3> QED
      BY <1>7, <1>8, <3>1
  <2> QED
    BY <2>1, <2>2, <2>3, <2>4
<1>9. ASSUME UpdateBase(w), Fresh(w), NEW feat \in BOOLEAN,
             w.program = <<Do("rmif", p, "")>> \o (Refill(p, d, feat) \o AfterRefill(w)) PROVE Reach(w, v, l)
  <2>1. PICK e : e = Do("rmif", p, "")
    OBVIOUS
  <2>2. e.do = "rmif" /\ e.a = p
    BY <2>1 DEF Do
  <2>3. w.program = <<e>> \o (Refill(p, d, feat) \o AfterRefill(w))
    BY <1>9, <2>1
  <2> QED
    BY <1>9, <2>2, <2>3, UpdateRemoves
<1>10. ASSUME UpdateBase(w), w.program = <<Do("fill", p, "")>> \o AfterRefill(w), w.start = 0, Content(now) \o w.buf = Found(d)
       PROVE  Reach(w, v, l)
  <2>1. PICK e : e = Do("fill", p, "")
    OBVIOUS
  <2>2. e.do = "fill" /\ e.a = p
    BY <2>1 DEF Do
  <2>3. w.program = <<e>> \o AfterRefill(w)
    BY <1>10, <2>1
  <2> QED
    BY <1>10, <2>1, <2>2, <2>3, UpdateFills
<1>11. CASE w.result = "none" /\ new = NoList /\ bak = NoList /\ Fresh(w) /\ Refilling(w, now)
  BY <1>4, <1>7, <1>8, <1>9, <1>11 DEF Refilling
<1>12. CASE /\ w.result = "none" /\ new = NoList /\ bak = NoList
            /\ \/ w.program = <<Do("fill", p, "")>> \o AfterRefill(w) /\ w.start = 0 /\ Content(now) \o w.buf = Found(d)
               \/ Fresh(w) /\ w.program = AfterRefill(w) /\ (now = Found(d) \/ Missing(w, now))
               \/ Fresh(w) /\ w.program = Cropping(w) /\ (Uncut(w, now) \/ Missing(w, now))
               \/ w.program = Rest(w)
  BY <1>2, <1>4, <1>5, <1>6, <1>10, <1>12
<1> QED
  BY <1>3, <1>11, <1>12 DEF UpdateInv

-----------------------------------------------------------------------------
(* The type of the work, whatever comes of an exchange.                    *)

(* The playlists are finitely many; a finite set has a list of its         *)
(* elements.                                                               *)
LEMMA FiniteRange ==
  ASSUME NEW S, IsFiniteSet(S), NEW f, DOMAIN f = S, f = [x \in S |-> f[x]]
  PROVE  IsFiniteSet({f[x] : x \in S})
<1> DEFINE T == {f[x] : x \in S}
<1>1. f \in Surjection(S, T)
  BY DEF Surjection
<1> HIDE DEF T
<1>3. IsFiniteSet(T)
  BY <1>1, FS_Surjection
<1> QED
  BY <1>3 DEF T

(* There are finitely many names of playlists.                             *)
LEMMA FiniteNames == IsFiniteSet(PlistNames)
<1>1. IsFiniteSet(JobIds)
  <2>1. PlistJobs \in Nat /\ IsFiniteSet(Plists)
    BY PlistAssumption DEF PlistAssumption
  <2>2. IsFiniteSet(1..PlistJobs)
    BY <2>1, FS_Interval
  <2> QED
    BY <2>1, <2>2, FS_Product DEF JobIds
<1>2. PICK f, g : f = [id \in JobIds |-> Tmp(id)] /\ g = [id \in JobIds |-> Bak(id)]
  OBVIOUS
<1>3. IsFiniteSet({f[x] : x \in JobIds}) /\ IsFiniteSet({g[x] : x \in JobIds})
  BY <1>1, <1>2, FiniteRange
<1>4. PlistNames = Plists \cup ({f[x] : x \in JobIds} \cup {g[x] : x \in JobIds})
  BY <1>2 DEF PlistNames, JobIds
<1>5. IsFiniteSet(Plists)
  BY PlistAssumption DEF PlistAssumption
<1>6. IsFiniteSet({f[x] : x \in JobIds} \cup {g[x] : x \in JobIds})
  BY <1>3, FS_Union
<1> QED
  BY <1>4, <1>5, <1>6, FS_Union

(* A finite set can be listed.                                             *)
LEMMA SetListed ==
  ASSUME NEW S, IsFiniteSet(S)
  PROVE  SetToSeq(S) \in Seq(S)
<1> DEFINE n == Cardinality(S)
<1>1. n \in Nat /\ ExistsBijection(1..n, S)
  BY FS_CardinalityType
<1>2. PICK f : f \in Bijection(1..n, S)
  BY <1>1 DEF ExistsBijection
<1>3. f \in [1..n -> S] /\ IsInjective(f)
  BY <1>2 DEF Bijection, Injection, Surjection, IsInjective
<1>4. SetToSeq(S) \in [1..n -> S]
  BY <1>3 DEF SetToSeq
<1> QED
  BY <1>1, <1>4

(* The commands that remove a set of playlists remove members of it only.  *)
LEMMA RemovedListed ==
  ASSUME NEW S, S \subseteq PlistNames
  PROVE  /\ IsSeq(Removed(S)) /\ Len(Removed(S)) \in Nat
         /\ \A i \in 1..Len(Removed(S)) : Removed(S)[i].do = "rm" /\ \E n \in S : Removed(S)[i] = Do("rm", n, "")
<1>1. PICK R : R = {n \in S : Exists(n)}
  OBVIOUS
<1>2. IsFiniteSet(R)
  <2>1. R \subseteq PlistNames
    BY <1>1
  <2> QED
    BY <2>1, FiniteNames, FS_Subset
<1>3. PICK f : f = [n \in R |-> Do("rm", n, "")]
  OBVIOUS
<1>4. PICK C : C = {f[n] : n \in R}
  OBVIOUS
<1>5. IsFiniteSet(C)
  <2>1. DOMAIN f = R /\ f = [n \in R |-> f[n]]
    BY <1>3
  <2> QED
    BY <1>2, <1>4, <2>1, FiniteRange
<1>6. Removed(S) = SetToSeq(C)
  <2>1. C = {Do("rm", n, "") : n \in R}
    BY <1>3, <1>4
  <2> QED
    BY <1>1, <2>1 DEF Removed
<1>7. PICK s \in Seq(C) : s = Removed(S)
  BY <1>5, <1>6, SetListed
<1>8. ASSUME NEW c \in C PROVE c.do = "rm" /\ \E n \in S : c = Do("rm", n, "")
  <2>1. PICK n \in R : c = f[n]
    BY <1>4, <1>8
  <2>2. c = Do("rm", n, "")
    BY <1>3, <2>1
  <2>3. c.do = "rm"
    BY <2>2 DEF Do
  <2> QED
    BY <1>1, <2>1, <2>2, <2>3
<1>9. \A i \in 1..Len(s) : s[i] \in C
  OBVIOUS
<1>10. IsSeq(s) /\ Len(s) \in Nat
  BY DEF IsSeq
<1>11. \A i \in 1..Len(s) : s[i].do = "rm" /\ \E n \in S : s[i] = Do("rm", n, "")
  BY <1>8, <1>9
<1> QED
  BY <1>7, <1>10, <1>11

(* The exchanges a thread has left are well formed, whatever comes of the  *)
(* next one.                                                               *)
Steps(w, q) == IsSeq(q) /\ Len(q) \in Nat /\ \A i \in 1..Len(q) : StepOK(w, q[i])

(* A program of allowed steps is joined from such programs.                *)
LEMMA StepsParts ==
  ASSUME NEW w
  PROVE  /\ Steps(w, <<>>) /\ (\A c : StepOK(w, c) => Steps(w, <<c>>))
         /\ \A a, b : Steps(w, a) /\ Steps(w, b) => Steps(w, a \o b)
<1>1. Steps(w, <<>>)
  BY Empty DEF Steps
<1>2. ASSUME NEW c, StepOK(w, c) PROVE Steps(w, <<c>>)
  <2>1. IsSeq(<<c>>) /\ Len(<<c>>) = 1 /\ <<c>>[1] = c
    BY Single
  <2>2. \A i \in 1..1 : i = 1
    OBVIOUS
  <2> QED
    BY <1>2, <2>1, <2>2 DEF Steps
<1>3. ASSUME NEW a, NEW b, Steps(w, a), Steps(w, b) PROVE Steps(w, a \o b)
  <2>1. PICK q, m, n : q = a \o b /\ m = Len(a) /\ n = Len(b)
    OBVIOUS
  <2>2. IsSeq(a) /\ IsSeq(b)
    BY <1>3 DEF Steps
  <2>3. /\ IsSeq(q) /\ Len(q) = m + n /\ m \in Nat /\ n \in Nat
        /\ \A i \in 1..m + n : q[i] = IF i <= m THEN a[i] ELSE b[i - m]
    BY <2>1, <2>2, Joins
  <2>4. ASSUME NEW i \in 1..m + n PROVE StepOK(w, q[i])
    <3>1. CASE i <= m
      BY <1>3, <2>1, <2>3, <3>1 DEF Steps
    <3>2. CASE ~(i <= m)
      <4>1. PICK j : j = i - m
        OBVIOUS
      <4>2. j \in 1..n /\ q[i] = b[j]
        BY <2>3, <3>2, <4>1
      <4> QED
        BY <1>3, <2>1, <4>2 DEF Steps
    <3> QED
      BY <3>1, <3>2
  <2>5. Steps(w, q)
    BY <2>3, <2>4 DEF Steps
  <2> QED
    BY <2>1, <2>5
<1> QED
  BY <1>1, <1>2, <1>3

(* A work with other exchanges left.                                       *)
LEMMA StepsGiven ==
  ASSUME NEW w, Steps(w, w.program)
  PROVE  w.program \in Seq(ToSet(w.program)) /\ \A i \in DOMAIN w.program : StepOK(w, w.program[i])
<1>1. PICK S : w.program \in Seq(S)
  BY DEF Steps, IsSeq
<1>2. PICK q \in Seq(S) : q = w.program
  BY <1>1
<1>3. DOMAIN q = 1..Len(q) /\ q = [i \in 1..Len(q) |-> q[i]] /\ Len(q) \in Nat
  OBVIOUS
<1>4. \A i \in 1..Len(q) : q[i] \in ToSet(q)
  BY <1>3 DEF ToSet
<1>5. q \in Seq(ToSet(q))
  BY <1>3, <1>4
<1> QED
  BY <1>2, <1>3, <1>5 DEF Steps

(* What is left of a program are allowed steps.                            *)
LEMMA StepsLeft ==
  ASSUME NEW w, WorkOK(w)
  PROVE  Steps(w, w.program) /\ (w.program # <<>> => Steps(w, Tail(w.program)))
<1>1. PICK S : w.program \in Seq(S)
  BY DEF WorkOK
<1>2. PICK q \in Seq(S) : q = w.program
  BY <1>1
<1>3. DOMAIN q = 1..Len(q) /\ Len(q) \in Nat
  OBVIOUS
<1>4. Steps(w, q)
  BY <1>2, <1>3 DEF Steps, IsSeq, WorkOK
<1>5. ASSUME q # <<>> PROVE Steps(w, Tail(q))
  <2>1. Tail(q) \in Seq(S) /\ Len(Tail(q)) = Len(q) - 1
    BY <1>5
  <2>2. \A i \in 1..Len(q) - 1 : i + 1 \in 1..Len(q) /\ Tail(q)[i] = q[i + 1]
    BY <1>3, <1>5
  <2>3. \A i \in 1..Len(q) - 1 : StepOK(w, Tail(q)[i])
    BY <1>4, <2>2 DEF Steps
  <2>4. Len(Tail(q)) \in Nat
    BY <2>1
  <2> QED
    BY <2>1, <2>3, <2>4 DEF Steps, IsSeq
<1> QED
  BY <1>2, <1>4, <1>5

(* What a thread may become without failing.                               *)
Goes(v, w) ==
  /\ WorkOK(v) /\ Kin(v, w) /\ v.blind \in BOOLEAN /\ (w.blind => v.blind)
  /\ w.result = "failed" => v.result = "failed"

(* Which steps are allowed depends on the number and the result of the     *)
(* work.                                                                   *)
LEMMA StepOKSame ==
  ASSUME NEW w, NEW v, v.nr = w.nr, v.all = w.all, v.result = "failed" <=> w.result = "failed", NEW c
  PROVE  StepOK(v, c) <=> StepOK(w, c)
BY DEF StepOK, Own

Buffered(w, b, i, j, d) == [w EXCEPT !.buf = b, !.start = i, !.pos = j, !.blind = d]
GoesSo(g, w) == Goes(g, w) /\ g.program = w.program /\ g.result = w.result

(* New contents of the buffer keep the type of the work.                   *)
LEMMA BufOK ==
  ASSUME NEW w, WorkOK(w), NEW b \in Seq(Songs), NEW i \in Nat, NEW j \in Nat, NEW d \in BOOLEAN, w.blind => d,
         NEW v, v = Buffered(w, b, i, j, d)
  PROVE  GoesSo(v, w)
<1>0. v = [w EXCEPT !.buf = b, !.start = i, !.pos = j, !.blind = d]
  BY DEF Buffered
<1>1. IsWork(w) /\ IsWork(v)
  BY <1>0 DEF WorkOK, IsWork, Fields
<1>2. /\ v.op = w.op /\ v.all = w.all /\ v.arg = w.arg /\ v.todo = w.todo /\ v.nr = w.nr
      /\ v.old = w.old /\ v.def = w.def /\ v.alone = w.alone /\ v.program = w.program /\ v.result = w.result
      /\ v.buf = b /\ v.start = i /\ v.pos = j /\ v.blind = d
  <2>1. IsWork(w)
    BY DEF WorkOK
  <2> QED
    BY <1>0, <2>1 DEF IsWork, Fields
<1>3. \A c : StepOK(v, c) <=> StepOK(w, c)
  <2>1. v.nr = w.nr /\ v.all = w.all /\ (v.result = "failed" <=> w.result = "failed")
    BY <1>2
  <2> QED
    BY <2>1, StepOKSame
<1>4. WorkOK(v)
  <2>1. v.program \in Seq(ToSet(v.program)) /\ \A k \in DOMAIN v.program : StepOK(v, v.program[k])
    BY <1>2, <1>3 DEF WorkOK
  <2>2. v.alone \in BOOLEAN /\ \A n \in DOMAIN v.old : n \in PlistNames /\ v.old[n] \in Seq(Songs) \cup {NoList}
    BY <1>2 DEF WorkOK
  <2> QED
    BY <1>1, <1>2, <2>1, <2>2 DEF WorkOK
<1> QED
  BY <1>1, <1>2, <1>4 DEF Goes, GoesSo, Kin

(* The assignments to the buffer and to its place in the list, as one      *)
(* operator.                                                               *)
LEMMA Setting ==
  ASSUME NEW w, IsWork(w), NEW b, NEW i, NEW j, NEW d
  PROVE  /\ [w EXCEPT !.buf = b, !.start = i, !.pos = j] = Buffered(w, b, i, j, w.blind)
         /\ [w EXCEPT !.buf = b, !.pos = j] = Buffered(w, b, w.start, j, w.blind)
         /\ [w EXCEPT !.buf = b] = Buffered(w, b, w.start, w.pos, w.blind)
         /\ [w EXCEPT !.blind = d] = Buffered(w, w.buf, w.start, w.pos, d)
         /\ [[w EXCEPT !.buf = b, !.start = i, !.pos = j] EXCEPT !.buf = d] = Buffered(w, d, i, j, w.blind)
         /\ [[w EXCEPT !.buf = b, !.pos = j] EXCEPT !.pos = d] = Buffered(w, b, w.start, d, w.blind)
<1>1. [w EXCEPT !.buf = b, !.start = i, !.pos = j] = Buffered(w, b, i, j, w.blind)
  BY DEF Buffered, IsWork, Fields
<1>2. [w EXCEPT !.buf = b, !.pos = j] = Buffered(w, b, w.start, j, w.blind)
  BY DEF Buffered, IsWork, Fields
<1>3. [w EXCEPT !.buf = b] = Buffered(w, b, w.start, w.pos, w.blind)
  BY DEF Buffered, IsWork, Fields
<1>4. [w EXCEPT !.blind = d] = Buffered(w, w.buf, w.start, w.pos, d)
  BY DEF Buffered, IsWork, Fields
<1>5. [[w EXCEPT !.buf = b, !.start = i, !.pos = j] EXCEPT !.buf = d] = Buffered(w, d, i, j, w.blind)
  BY DEF Buffered, IsWork, Fields
<1>6. [[w EXCEPT !.buf = b, !.pos = j] EXCEPT !.pos = d] = Buffered(w, b, w.start, d, w.blind)
  BY DEF Buffered, IsWork, Fields
<1> QED
  BY <1>1, <1>2, <1>3, <1>4, <1>5, <1>6

(* Allowed steps in the place of one keep the type of the work.            *)
LEMMA InsteadOK ==
  ASSUME NEW w, WorkOK(w), w.program # <<>>, NEW steps, Steps(w, steps), NEW v, v = Instead(w, steps)
  PROVE  Goes(v, w)
<1>1. PICK q : q = steps \o Tail(w.program)
  OBVIOUS
<1>2. Steps(w, q)
  BY <1>1, StepsLeft, StepsParts
<1>3. PICK r : r = IF q = <<>> /\ w.result # "failed" THEN "ok" ELSE w.result
  OBVIOUS
<1>4. v = [w EXCEPT !.program = q, !.result = r]
  BY <1>1, <1>3 DEF Instead
<1>5. IsWork(w) /\ IsWork(v)
  BY <1>4 DEF WorkOK, IsWork, Fields
<1>6. /\ v.op = w.op /\ v.all = w.all /\ v.arg = w.arg /\ v.todo = w.todo /\ v.nr = w.nr
      /\ v.old = w.old /\ v.def = w.def /\ v.alone = w.alone /\ v.program = q /\ v.result = r
      /\ v.buf = w.buf /\ v.start = w.start /\ v.pos = w.pos /\ v.blind = w.blind
  <2>1. IsWork(w)
    BY <1>5
  <2> QED
    BY <1>4, <2>1 DEF IsWork, Fields
<1>7. \A c : StepOK(v, c) <=> StepOK(w, c)
  BY <1>3, <1>6, StepOKSame
<1>8. Steps(v, v.program)
  BY <1>2, <1>6, <1>7 DEF Steps
<1>9. WorkOK(v)
  <2>1. v.program \in Seq(ToSet(v.program)) /\ \A k \in DOMAIN v.program : StepOK(v, v.program[k])
    BY <1>8, StepsGiven
  <2>2. v.alone \in BOOLEAN /\ \A n \in DOMAIN v.old : n \in PlistNames /\ v.old[n] \in Seq(Songs) \cup {NoList}
    BY <1>6 DEF WorkOK
  <2>3. v.buf \in Seq(Songs) /\ v.start \in Nat /\ v.pos \in Nat /\ v.blind \in BOOLEAN
    BY <1>6 DEF WorkOK
  <2> QED
    BY <1>5, <2>1, <2>2, <2>3 DEF WorkOK
<1>10. w.result = "failed" => v.result = "failed"
  BY <1>3, <1>6
<1>11. Kin(v, w)
  BY <1>5, <1>6 DEF Kin
<1>12. v.blind \in BOOLEAN /\ (w.blind => v.blind)
  BY <1>6 DEF WorkOK
<1> QED
  BY <1>9, <1>10, <1>11, <1>12 DEF Goes

(* Going on twice is going on.                                             *)
LEMMA GoesOn ==
  ASSUME NEW u, NEW v, NEW w, Goes(v, u), Goes(w, v)
  PROVE  Goes(w, u)
<1>1. Kin(w, u)
  BY KinTrans DEF Goes
<1> QED
  BY <1>1 DEF Goes

(* A thread that fails has what is given to do.                            *)
LEMMA FailedOK ==
  ASSUME NEW w, WorkOK(w), NEW q, NEW d \in BOOLEAN, w.blind => d,
         NEW v, v = [w EXCEPT !.buf = <<>>, !.blind = d, !.result = "failed", !.program = q], Steps(v, q)
  PROVE  Goes(v, w)
<1>1. IsWork(w) /\ IsWork(v)
  BY DEF WorkOK, IsWork, Fields
<1>2. /\ v.op = w.op /\ v.all = w.all /\ v.arg = w.arg /\ v.todo = w.todo /\ v.nr = w.nr
      /\ v.old = w.old /\ v.def = w.def /\ v.alone = w.alone /\ v.program = q /\ v.result = "failed"
      /\ v.buf = <<>> /\ v.start = w.start /\ v.pos = w.pos /\ v.blind = d
  <2>1. IsWork(w)
    BY <1>1
  <2> QED
    BY <2>1 DEF IsWork, Fields
<1>3. v.program \in Seq(ToSet(v.program)) /\ \A k \in DOMAIN v.program : StepOK(v, v.program[k])
  BY <1>2, StepsGiven
<1>4. v.alone \in BOOLEAN /\ \A n \in DOMAIN v.old : n \in PlistNames /\ v.old[n] \in Seq(Songs) \cup {NoList}
  BY <1>2 DEF WorkOK
<1>5. v.buf \in Seq(Songs) /\ v.start \in Nat /\ v.pos \in Nat /\ v.blind \in BOOLEAN
  BY <1>2 DEF WorkOK
<1>6. WorkOK(v)
  BY <1>1, <1>3, <1>4, <1>5 DEF WorkOK
<1>7. Kin(v, w)
  BY <1>1, <1>2 DEF Kin
<1> QED
  BY <1>2, <1>6, <1>7 DEF Goes

(* The exchanges that take the place of one.                               *)
LEMMA RemovalsOK ==
  ASSUME NEW w, w.result # "failed", NEW p, NEW s \in Seq(Songs)
  PROVE  Steps(w, Removals(p, s)) /\ Steps(w, Checks(p, s, Len(s)))
<1>1. \A c : c.do \in {"del", "check"} => StepOK(w, c)
  BY DEF StepOK
<1>2. Steps(w, Removals(p, s))
  <2>1. PICK S : S = {i \in DOMAIN s : Repeated(s, i)}
    OBVIOUS
  <2>2. IsFiniteSet(S) /\ S \in SUBSET Nat
    <3>0. PICK m \in Nat : m = Len(s)
      OBVIOUS
    <3>1. S \subseteq 1..m
      BY <2>1, <3>0
    <3>2. IsFiniteSet(1..m)
      BY FS_Interval
    <3>3. IsFiniteSet(S)
      BY <3>1, <3>2, FS_Subset
    <3> QED
      BY <3>1, <3>3
  <2>3. PICK b \in Seq(S) : b = Descending(S)
    BY <2>2, Descended
  <2>4. PICK f, n : n = Len(b) /\ f = [k \in 1..n |-> Do("del", p, b[k])]
    OBVIOUS
  <2>5. n \in Nat /\ f = [k \in 1..n |-> f[k]]
    BY <2>4
  <2>6. IsSeq(f) /\ Len(f) = n
    BY <2>5, Listed
  <2>7. Removals(p, s) = f
    BY <2>1, <2>3, <2>4 DEF Removals
  <2>8. \A k \in 1..n : f[k].do = "del"
    <3>1. SUFFICES ASSUME NEW k \in 1..n PROVE f[k].do = "del"
      OBVIOUS
    <3>2. PICK e : e = b[k]
      OBVIOUS
    <3>3. f[k] = Do("del", p, e)
      BY <2>4, <3>2
    <3> QED
      BY <3>3 DEF Do
  <2> QED
    BY <1>1, <2>5, <2>6, <2>7, <2>8, SMTT(30) DEF Steps
<1>3. Steps(w, Checks(p, s, Len(s)))
  <2>1. PICK f, n : n = Len(s) /\ f = Checks(p, s, n)
    OBVIOUS
  <2>2. n \in Nat /\ f = [k \in 1..n |-> f[k]]
    BY <2>1 DEF Checks
  <2>3. IsSeq(f) /\ Len(f) = n
    BY <2>2, Listed
  <2>4. \A k \in 1..n : f[k].do = "check"
    <3>1. SUFFICES ASSUME NEW k \in 1..n PROVE f[k].do = "check"
      OBVIOUS
    <3>2. PICK e : e = <<n + 1 - k, s[n + 1 - k]>>
      OBVIOUS
    <3>3. f[k] = Do("check", p, e)
      BY <2>1, <3>2 DEF Checks
    <3> QED
      BY <3>3 DEF Do
  <2> QED
    BY <1>1, <2>1, <2>2, <2>3, <2>4 DEF Steps
<1> QED
  BY <1>2, <1>3

(* The step that drops a set of playlists is allowed.                      *)
LEMMA DropOK ==
  ASSUME NEW w, w.result # "failed", NEW S, S \subseteq PlistNames, NEW a
  PROVE  Steps(w, <<Do("drop", a, Removed(S))>>)
<1>1. PICK q : q = Removed(S)
  OBVIOUS
<1>2. Len(q) \in Nat /\ \A i \in 1..Len(q) : q[i].do \in {"rm", "del"}
  BY <1>1, RemovedListed
<1>3. PICK c : c = Do("drop", a, q)
  OBVIOUS
<1>4. c.do = "drop" /\ c.b = q
  BY <1>3 DEF Do
<1>5. StepOK(w, c)
  BY <1>2, <1>4 DEF StepOK
<1>6. Steps(w, <<c>>)
  BY <1>5, StepsParts
<1> QED
  BY <1>1, <1>3, <1>6

(* After a failure a job removes or renames playlists, and definitions.    *)
LEMMA UndoOK ==
  ASSUME NEW w, WorkOK(w), NEW s, StepOK(w, s), NEW u, u.result = "failed", u.nr = w.nr, u.all = w.all
  PROVE  LET undo == IF s.do = "fill" /\ s.a = Tmp(w.nr) THEN <<Do("rm", s.a, "")>>
                     ELSE IF s.do = "rename" /\ s.a = Tmp(w.nr) THEN <<Do("rename", Bak(w.nr), s.b)>>
                     ELSE <<>>
             then == IF w.all = "update_all" THEN <<Do("rmdef", w.arg, ""), Do("next", "", "")>> ELSE <<>>
         IN  Steps(u, undo \o then) /\ (w.all = "update_all" => Steps(u, <<Do("rmdef", w.arg, "")>>))
<1>1. PICK c1, c2, c3, c4 : /\ c1 = Do("rm", s.a, "") /\ c2 = Do("rename", Bak(w.nr), s.b)
                            /\ c3 = Do("rmdef", w.arg, "") /\ c4 = Do("next", "", "")
  OBVIOUS
<1>2. c1.do = "rm" /\ c2.do = "rename" /\ c2.a = Bak(w.nr) /\ c2.b = s.b /\ c3.do = "rmdef" /\ c4.do = "next"
  BY <1>1 DEF Do
<1>3. StepOK(u, c1)
  BY <1>2 DEF StepOK
<1>4. ASSUME s.do = "rename", s.a = Tmp(w.nr) PROVE StepOK(u, c2)
  <2>1. Bak(w.nr) \in PlistNames /\ s.b \in Own(u)
    BY <1>4 DEF StepOK, Own
  <2> QED
    BY <1>2, <2>1 DEF StepOK
<1>5. ASSUME w.all = "update_all" PROVE StepOK(u, c3) /\ StepOK(u, c4)
  BY <1>2, <1>5 DEF StepOK
<1>6. PICK a, b : /\ a = (IF s.do = "fill" /\ s.a = Tmp(w.nr) THEN <<c1>>
                          ELSE IF s.do = "rename" /\ s.a = Tmp(w.nr) THEN <<c2>> ELSE <<>>)
                  /\ b = (IF w.all = "update_all" THEN <<c3, c4>> ELSE <<>>)
  OBVIOUS
<1>7. Steps(u, <<>>) /\ (\A c : StepOK(u, c) => Steps(u, <<c>>)) /\ \A x, y : Steps(u, x) /\ Steps(u, y) => Steps(u, x \o y)
  BY StepsParts
<1>8. Steps(u, a)
  BY <1>3, <1>4, <1>6, <1>7
<1>9. Steps(u, b)
  <2>1. <<c3, c4>> = <<c3>> \o <<c4>>
    <3>1. PICK x, y, z : x = <<c3>> /\ y = <<c4>> /\ z = x \o y
      OBVIOUS
    <3>2. x \in Seq({c3, c4}) /\ y \in Seq({c3, c4}) /\ Len(x) = 1 /\ Len(y) = 1
      BY <3>1
    <3>3. z \in Seq({c3, c4}) /\ Len(z) = 2 /\ z[1] = c3 /\ z[2] = c4
      BY <3>1, <3>2
    <3>4. PICK d : d = <<c3, c4>>
      OBVIOUS
    <3>5. d \in Seq({c3, c4}) /\ Len(d) = 2 /\ d[1] = c3 /\ d[2] = c4
      BY <3>4
    <3>6. z = d
      <4>1. \A i \in 1..2 : z[i] = d[i]
        <5>1. \A i \in 1..2 : i = 1 \/ i = 2
          OBVIOUS
        <5> QED
          BY <3>3, <3>5, <5>1
      <4> QED
        BY <3>3, <3>5, <4>1
    <3> QED
      BY <3>1, <3>4, <3>6
  <2> QED
    BY <1>5, <1>6, <1>7, <2>1
<1>10. Steps(u, a \o b)
  BY <1>7, <1>8, <1>9
<1>11. w.all = "update_all" => Steps(u, <<c3>>)
  BY <1>5, <1>7
<1> QED
  BY <1>1, <1>6, <1>10, <1>11

(* Whatever comes of an exchange, the work stays well formed.              *)
LEMMA WorkGoes ==
  ASSUME lists \in Stored, NEW w, WorkOK(w), w.program # <<>>, NEW s, s = Head(w.program), s.do \notin Local,
         NEW l, NEW v, Outcome(w, l, v)
  PROVE  Goes(v, w)
<1>1. StepOK(w, s) /\ IsWork(w) /\ w.buf \in Seq(Songs) /\ w.start \in Nat /\ w.pos \in Nat /\ w.blind \in BOOLEAN
  BY Programs DEF WorkOK
<1>2. ASSUME NEW g, Goes(g, w), g.program = w.program, NEW steps, Steps(g, steps)
      PROVE  Goes(Instead(g, steps), w) /\ Goes(Advance(g), w)
  <2>1. WorkOK(g) /\ g.program # <<>> /\ Steps(g, <<>>)
    BY <1>2, StepsParts DEF Goes
  <2>2. PICK x, y : x = Instead(g, steps) /\ y = Instead(g, <<>>)
    OBVIOUS
  <2>3. Goes(x, g)
    BY <1>2, <2>1, <2>2, InsteadOK
  <2>4. Goes(y, g)
    BY <2>1, <2>2, InsteadOK
  <2>5. Goes(x, w) /\ Goes(y, w)
    BY <1>2, <2>3, <2>4, GoesOn
  <2> QED
    BY <2>2, <2>5 DEF Advance
<1>3. \A b \in Seq(Songs), i \in Nat, j \in Nat, d \in BOOLEAN : (w.blind => d) => GoesSo(Buffered(w, b, i, j, d), w)
  BY BufOK
<1>4. Goes(w, w)
  <2>1. Kin(w, w)
    BY <1>1, KinSteps
  <2> QED
    BY <1>1, <2>1 DEF Goes
<1>5. \A g : Goes(g, w) => Steps(g, <<>>)
  BY StepsParts
<1>6. CASE v = Lost(w, s)
  <2>1. PICK q, r : /\ v = [w EXCEPT !.buf = <<>>, !.blind = TRUE, !.result = r, !.program = q]
                    /\ r = (IF s.do = "crop" THEN "ok" ELSE "failed")
                    /\ q = (IF \/ w.all = "update_all" /\ s.do # "crop" /\ w.result # "failed"
                               \/ \E i \in DOMAIN w.program : w.program[i].do = "rmdef"
                            THEN <<Do("rmdef", w.arg, "")>> ELSE <<>>)
    BY <1>6 DEF Lost
  <2>2. v.nr = w.nr /\ v.all = w.all /\ v.result = r
    BY <1>1, <2>1 DEF IsWork, Fields
  <2>3. ASSUME NEW i \in DOMAIN w.program, w.program[i].do = "rmdef" PROVE w.all = "update_all" /\ w.result = "failed" /\ s.do # "crop"
    <3>1. StepOK(w, w.program[i])
      BY DEF WorkOK
    <3> QED
      BY <1>1, <2>3, <3>1 DEF StepOK
  <2>4. CASE s.do = "crop"
    <3>1. q = <<>> /\ r = "ok" /\ w.result # "failed"
      BY <1>1, <2>1, <2>3, <2>4 DEF StepOK
    <3>2. IsWork(v) /\ v.program = <<>> /\ v.buf = <<>> /\ v.blind = TRUE /\ v.start = w.start /\ v.pos = w.pos
      BY <1>1, <2>1, <3>1 DEF IsWork, Fields
    <3>3. v.old = w.old /\ v.alone = w.alone
      BY <1>1, <2>1 DEF IsWork, Fields
    <3>4. Steps(v, v.program)
      BY <3>2, StepsParts
    <3>5. v.program \in Seq(ToSet(v.program)) /\ \A k \in DOMAIN v.program : StepOK(v, v.program[k])
      BY <3>4, StepsGiven
    <3>6. v.alone \in BOOLEAN /\ \A n \in DOMAIN v.old : n \in PlistNames /\ v.old[n] \in Seq(Songs) \cup {NoList}
      BY <3>3 DEF WorkOK
    <3>7. WorkOK(v)
      <4>1. v.buf \in Seq(Songs) /\ v.start \in Nat /\ v.pos \in Nat /\ v.blind \in BOOLEAN
        <5>1. <<>> \in Seq(Songs)
          OBVIOUS
        <5> QED
          BY <1>1, <3>2, <5>1
      <4> QED
        BY <3>2, <3>5, <3>6, <4>1 DEF WorkOK
    <3>8. Kin(v, w)
      BY <1>1, <2>1, KinSteps
    <3> QED
      BY <3>1, <3>2, <3>7, <3>8 DEF Goes
  <2>5. CASE s.do # "crop"
    <3>1. r = "failed" /\ (q = <<>> \/ (w.all = "update_all" /\ q = <<Do("rmdef", w.arg, "")>>))
      BY <2>1, <2>3, <2>5
    <3>2. v.result = "failed"
      BY <2>2, <3>1
    <3>3. Steps(v, q)
      BY <1>1, <2>2, <3>1, <3>2, UndoOK, StepsParts
    <3>4. v = [w EXCEPT !.buf = <<>>, !.blind = TRUE, !.result = "failed", !.program = q]
      BY <2>1, <3>1
    <3> QED
      BY <3>3, <3>4, FailedOK
  <2> QED
    BY <2>4, <2>5
<1>7. CASE v = Undo(w, s)
  <2>1. CASE w.result = "failed"
    <3>1. v = Advance(w)
      BY <1>7, <2>1 DEF Undo
    <3> QED
      BY <1>2, <1>4, <1>5, <3>1
  <2>2. CASE w.result # "failed" /\ s.do \in {"rmif", "crop"}
    <3>1. PICK g : g = [w EXCEPT !.blind = TRUE]
      OBVIOUS
    <3>2. g = Buffered(w, w.buf, w.start, w.pos, TRUE)
      BY <1>1, <3>1, Setting
    <3>3. Goes(g, w) /\ g.program = w.program
      BY <1>1, <1>3, <3>2 DEF GoesSo
    <3>4. v = Advance(g)
      BY <1>7, <2>2, <3>1 DEF Undo
    <3> QED
      BY <1>2, <1>5, <3>3, <3>4
  <2>3. CASE w.result # "failed" /\ s.do = "check"
    <3>1. PICK d : d = (w.blind \/ s.b[2] \in KnownSongs)
      OBVIOUS
    <3>2. PICK g, c : g = [w EXCEPT !.blind = d] /\ c = Do("del", s.a, s.b[1])
      OBVIOUS
    <3>3. g = Buffered(w, w.buf, w.start, w.pos, d)
      BY <1>1, <3>2, Setting
    <3>4. d \in BOOLEAN /\ (w.blind => d)
      BY <3>1
    <3>5. Goes(g, w) /\ g.program = w.program /\ g.result = w.result
      BY <1>1, <1>3, <3>3, <3>4 DEF GoesSo
    <3>6. v = Instead(g, <<c>>)
      BY <1>7, <2>3, <3>1, <3>2 DEF Undo
    <3>7. c.do = "del"
      BY <3>2 DEF Do
    <3>8. StepOK(g, c)
      BY <2>3, <3>5, <3>7 DEF StepOK
    <3>9. Steps(g, <<c>>)
      BY <3>8, StepsParts
    <3> QED
      BY <1>2, <3>5, <3>6, <3>9
  <2>4. CASE w.result # "failed" /\ s.do \notin {"rmif", "crop", "check"}
    <3>1. PICK a, b : /\ a = (IF s.do = "fill" /\ s.a = Tmp(w.nr) THEN <<Do("rm", s.a, "")>>
                              ELSE IF s.do = "rename" /\ s.a = Tmp(w.nr) THEN <<Do("rename", Bak(w.nr), s.b)>>
                              ELSE <<>>)
                      /\ b = (IF w.all = "update_all" THEN <<Do("rmdef", w.arg, ""), Do("next", "", "")>> ELSE <<>>)
      OBVIOUS
    <3>2. PICK q : q = a \o b
      OBVIOUS
    <3>3. v = [w EXCEPT !.program = q, !.result = "failed", !.buf = <<>>]
      BY <1>7, <2>4, <3>1, <3>2 DEF Undo
    <3>4. v = [w EXCEPT !.buf = <<>>, !.blind = w.blind, !.result = "failed", !.program = q]
      BY <1>1, <3>3 DEF IsWork, Fields
    <3>5. v.nr = w.nr /\ v.all = w.all /\ v.result = "failed"
      BY <1>1, <3>3 DEF IsWork, Fields
    <3>6. Steps(v, q)
      BY <1>1, <3>1, <3>2, <3>5, UndoOK
    <3> QED
      BY <1>1, <3>4, <3>6, FailedOK
  <2> QED
    BY <2>1, <2>2, <2>3, <2>4
<1>8. CASE v \in After(w, s)
  <2>1. CASE s.do = "read"
    <3>1. v \in ReadPlist(w, s.a, s.b) /\ Exists(s.a) /\ s.a \in PlistNames /\ w.result # "failed"
      BY <1>1, <1>8, <2>1 DEF After, StepOK
    <3>2. PICK x \in Seq(Songs) : x = lists[s.a]
      BY <3>1 DEF Exists, Stored
    <3>3. PICK y : y = IF ranges THEN Upto(SubSeq(x, w.start + 1, Len(x)), ResultsMax) ELSE x
      OBVIOUS
    <3>4. y \in Seq(Songs)
      <4>1. PICK z : z = SubSeq(x, w.start + 1, Len(x))
        OBVIOUS
      <4>2. z \in Seq(Songs)
        BY <1>1, <4>1
      <4>3. Upto(z, ResultsMax) \in Seq(Songs)
        BY <4>2, Kinds, First
      <4> QED
        BY <3>3, <4>1, <4>3
    <3>5. PICK b, i, j : b = w.buf \o y /\ i = w.start + ResultsMax /\ j = w.pos + Len(y)
      OBVIOUS
    <3>55. b \in Seq(Songs) /\ i \in Nat /\ j \in Nat
      BY <1>1, <3>4, <3>5, Kinds
    <3>6. \/ v = [w EXCEPT !.buf = b, !.start = i, !.pos = j]
          \/ v \in Got(w, s.a, s.b, b)
      BY <3>1, <3>2, <3>3, <3>5 DEF ReadPlist, Got
    <3>8. ASSUME v = [w EXCEPT !.buf = b, !.start = i, !.pos = j] PROVE Goes(v, w)
      <4>1. v = Buffered(w, b, i, j, w.blind)
        BY <1>1, <3>8 DEF Buffered, IsWork, Fields
      <4> QED
        BY <1>1, <1>3, <3>55, <4>1 DEF GoesSo
    <3>9. ASSUME v \in Got(w, s.a, s.b, b) PROVE Goes(v, w)
      <4>1. PICK got : got = [w EXCEPT !.buf = b, !.start = 0, !.pos = 0]
        OBVIOUS
      <4>2. got = Buffered(w, b, 0, 0, w.blind) /\ \A c : [got EXCEPT !.buf = c] = Buffered(w, c, 0, 0, w.blind)
        <5>1. got = Buffered(w, b, 0, 0, w.blind)
          BY <1>1, <4>1 DEF Buffered, IsWork, Fields
        <5>2. ASSUME NEW c PROVE [got EXCEPT !.buf = c] = Buffered(w, c, 0, 0, w.blind)
          BY <1>1, <4>1 DEF Buffered, IsWork, Fields
        <5> QED
          BY <5>1, <5>2
      <4>3. \/ \E c \in Reorderings(b) : v = Advance([got EXCEPT !.buf = c])
            \/ v = Advance([got EXCEPT !.buf = Sorted(b)])
            \/ v = Instead([got EXCEPT !.buf = <<>>], Removals(s.a, b))
            \/ v = Instead([got EXCEPT !.buf = <<>>], Checks(s.a, b, Len(b)))
            \/ v = Advance(got)
        BY <3>9, <4>1 DEF Got
      <4>4. \A c \in Seq(Songs) : GoesSo([got EXCEPT !.buf = c], w)
        <5>1. SUFFICES ASSUME NEW c \in Seq(Songs) PROVE GoesSo([got EXCEPT !.buf = c], w)
          OBVIOUS
        <5>2. PICK k \in Nat : k = 0
          OBVIOUS
        <5>3. GoesSo(Buffered(w, c, k, k, w.blind), w)
          BY <1>1, <1>3
        <5>4. [got EXCEPT !.buf = c] = Buffered(w, c, 0, 0, w.blind)
          BY <4>2
        <5> QED
          BY <5>2, <5>3, <5>4
      <4>5. (\A c \in Reorderings(b) : c \in Seq(Songs)) /\ Sorted(b) \in Seq(Songs)
        BY <3>55, Shuffled, SortedPlaces, Kinds
      <4>6. Goes(got, w) /\ got.program = w.program
        <5>2. PICK k \in Nat : k = 0
          OBVIOUS
        <5>3. GoesSo(Buffered(w, b, k, k, w.blind), w)
          BY <1>1, <1>3, <3>55
        <5> QED
          BY <4>2, <5>2, <5>3 DEF GoesSo
      <4>7. \A c \in Seq(Songs) : Goes(Advance([got EXCEPT !.buf = c]), w)
        <5>1. SUFFICES ASSUME NEW c \in Seq(Songs) PROVE Goes(Advance([got EXCEPT !.buf = c]), w)
          OBVIOUS
        <5>2. PICK g : g = [got EXCEPT !.buf = c]
          OBVIOUS
        <5>3. Goes(g, w) /\ g.program = w.program /\ Steps(g, <<>>)
          BY <1>5, <4>4, <5>2 DEF GoesSo
        <5>4. Goes(Advance(g), w)
          BY <1>2, <5>3
        <5> QED
          BY <5>2, <5>4
      <4>8. Goes(Instead([got EXCEPT !.buf = <<>>], Removals(s.a, b)), w) /\ Goes(Instead([got EXCEPT !.buf = <<>>], Checks(s.a, b, Len(b))), w)
        <5>1. PICK g : g = [got EXCEPT !.buf = <<>>]
          OBVIOUS
        <5>2. Goes(g, w) /\ g.program = w.program /\ g.result # "failed"
          <6>0. <<>> \in Seq(Songs)
            OBVIOUS
          <6>1. PICK c \in Seq(Songs) : c = <<>>
            BY <6>0
          <6>2. GoesSo([got EXCEPT !.buf = c], w)
            BY <4>4
          <6> QED
            BY <3>1, <5>1, <6>1, <6>2 DEF GoesSo
        <5>3. PICK x1, x2 : x1 = Removals(s.a, b) /\ x2 = Checks(s.a, b, Len(b))
          OBVIOUS
        <5>4. Steps(g, x1) /\ Steps(g, x2)
          BY <3>55, <5>2, <5>3, RemovalsOK
        <5>5. Goes(Instead(g, x1), w) /\ Goes(Instead(g, x2), w)
          BY <1>2, <5>2, <5>4
        <5> QED
          BY <5>1, <5>3, <5>5
      <4>9. Goes(Advance(got), w)
        BY <1>2, <1>5, <4>6
      <4> QED
        BY <4>3, <4>5, <4>7, <4>8, <4>9
    <3> QED
      BY <3>6, <3>8, <3>9
  <2>2. CASE s.do = "find"
    <3>1. PICK b \in Seq(Songs) : b = Found(s.b)
      BY <1>1, <2>2, Finds DEF StepOK
    <3>2. PICK g : g = [w EXCEPT !.buf = b]
      OBVIOUS
    <3>3. g = Buffered(w, b, w.start, w.pos, w.blind)
      BY <1>1, <3>2, Setting
    <3>4. Goes(g, w) /\ g.program = w.program
      BY <1>1, <1>3, <3>3 DEF GoesSo
    <3>5. v = Advance(g)
      BY <1>8, <2>2, <3>1, <3>2 DEF After
    <3> QED
      BY <1>2, <1>5, <3>4, <3>5
  <2>3. CASE s.do \in {"fill", "put"}
    <3>1. PICK k : k = Len(Batch(w, s))
      OBVIOUS
    <3>2. k \in 0..Len(w.buf)
      BY <1>1, <3>1, Batched
    <3>3. PICK b \in Seq(Songs) : b = SubSeq(w.buf, k + 1, Len(w.buf))
      <4>1. PICK x \in Seq(Songs) : x = w.buf
        BY <1>1
      <4>2. SubSeq(x, k + 1, Len(x)) \in Seq(Songs)
        BY <3>2, <4>1
      <4> QED
        BY <4>1, <4>2
    <3>4. PICK i \in Nat : i = w.pos + k
      <4>1. k \in Nat
        BY <1>1, <3>2
      <4> QED
        BY <1>1, <4>1
    <3>5. PICK g : g = [w EXCEPT !.buf = b, !.pos = i]
      OBVIOUS
    <3>8. PICK h : h = [g EXCEPT !.pos = 0]
      OBVIOUS
    <3>6. g = Buffered(w, b, w.start, i, w.blind) /\ h = Buffered(w, b, w.start, 0, w.blind)
      <4>1. g = Buffered(w, b, w.start, i, w.blind)
        BY <1>1, <3>5 DEF Buffered, IsWork, Fields
      <4>2. h = Buffered(w, b, w.start, 0, w.blind)
        BY <1>1, <3>5, <3>8 DEF Buffered, IsWork, Fields
      <4> QED
        BY <4>1, <4>2
    <3>7. GoesSo(g, w)
      BY <1>1, <1>3, <3>6
    <3>9. GoesSo(h, w)
      <4>1. 0 \in Nat
        OBVIOUS
      <4> QED
        BY <1>1, <1>3, <3>6, <4>1
    <3>10. v = g \/ v = Advance(h)
      BY <1>8, <2>3, <3>1, <3>3, <3>4, <3>5, <3>8 DEF After
    <3> QED
      BY <1>2, <1>5, <3>7, <3>9, <3>10 DEF GoesSo
  <2>4. CASE s.do = "delete"
    <3>1. s.b \subseteq PlistNames /\ w.result # "failed"
      BY <1>1, <2>4 DEF StepOK
    <3>2. PICK q : q = <<Do("drop", s.b, Removed(s.b))>>
      OBVIOUS
    <3>3. Steps(w, q)
      BY <3>1, <3>2, DropOK
    <3>4. v = Instead(w, q)
      BY <1>8, <2>4, <3>2 DEF After
    <3> QED
      BY <1>2, <1>4, <3>3, <3>4
  <2>5. CASE s.do = "delete_all"
    <3>1. w.result # "failed"
      BY <1>1, <2>5 DEF StepOK
    <3>2. PICK S : S = {n \in PlistNames : Exists(n) /\ CASE s.b = "all"   -> TRUE
                                                       [] s.b = "smart" -> Smart(n)
                                                       [] s.b = "empty" -> lists[n] = <<>>}
      OBVIOUS
    <3>3. PICK a : a = S \union {n \in Plists : ~Exists(n)}
      OBVIOUS
    <3>4. PICK q : q = <<Do("drop", a, Removed(S))>>
      OBVIOUS
    <3>5. S \subseteq PlistNames
      BY <3>2
    <3>6. Steps(w, q)
      BY <3>1, <3>4, <3>5, DropOK
    <3>7. v = Instead(w, q)
      BY <1>8, <2>5, <3>2, <3>3, <3>4 DEF After
    <3> QED
      BY <1>2, <1>4, <3>6, <3>7
  <2>6. CASE s.do \notin {"read", "find", "fill", "put", "delete", "delete_all"}
    <3>1. v = Advance(w)
      BY <1>8, <2>6 DEF After
    <3> QED
      BY <1>2, <1>4, <1>5, <3>1
  <2> QED
    BY <2>1, <2>2, <2>3, <2>4, <2>5, <2>6
<1> QED
  BY <1>6, <1>7, <1>8 DEF Outcome

-----------------------------------------------------------------------------
(* An exchange of the worker keeps the invariant of its job.               *)

(* A job goes on as its invariant says, whatever comes of an exchange.     *)
LEMMA RestLocal ==
  ASSUME NEW w, w.program # <<>>, Head(w.program).do \notin Local
  PROVE  w.program # Rest(w)
<1>1. SUFFICES ASSUME w.program = Rest(w), w.all # "none" PROVE FALSE
  BY DEF Rest
<1>2. PICK c : c = Do("next", "", "")
  OBVIOUS
<1>3. w.program = <<c>>
  BY <1>1, <1>2 DEF Rest
<1>4. Head(w.program) = c /\ c.do = "next"
  <2>1. Head(<<c>>) = c
    OBVIOUS
  <2>2. c.do = "next"
    BY <1>2 DEF Do
  <2> QED
    BY <1>3, <2>1, <2>2
<1> QED
  BY <1>4 DEF Local

(* Every exchange of playlist_dedup keeps its invariant.                   *)
LEMMA DedupStep ==
  ASSUME lists \in Stored, ranges \in BOOLEAN, NEW w, WorkOK(w), w.arg \in PlistNames, w.all # "update_all", NoRemoval(w),
         w.program # <<>>, Head(w.program).do \notin Local, w.old[w.arg] \in Seq(Songs), DedupInv(w, lists[w.arg], ranges),
         NEW l, NEW v, Outcome(w, l, v)
  PROVE  DedupInv(v, l[v.arg], ranges)
<1>1. PICK s \in Seq(Songs) : s = w.old[w.arg]
  OBVIOUS
<1>2. DedupReading(w, lists[w.arg], ranges, s) \/ Deduping(w, lists[w.arg], s)
  BY <1>1 DEF DedupInv
<1>3. Deduped(v, l[w.arg], ranges, s)
  BY <1>2, DedupReadStep, DedupDelStep
<1>4. v.arg = w.arg /\ v.old = w.old
  <2>1. Kin(v, w)
    BY Kept DEF WorkOK
  <2> QED
    BY <2>1 DEF Kin
<1> QED
  BY <1>1, <1>3, <1>4 DEF Deduped, DedupInv

(* Every exchange of playlist_validate keeps its invariant, unless an      *)
(* answer is lost.                                                         *)
LEMMA ValidateStep ==
  ASSUME lists \in Stored, ranges \in BOOLEAN, NEW w, WorkOK(w), w.arg \in PlistNames, w.all # "update_all", NoRemoval(w),
         w.program # <<>>, Head(w.program).do \notin Local, w.old[w.arg] \in Seq(Songs), ValidInv(w, lists[w.arg], ranges),
         NEW l, NEW v, Outcome(w, l, v), ~v.blind
  PROVE  ValidInv(v, l[v.arg], ranges)
<1>1. PICK s \in Seq(Songs) : s = w.old[w.arg]
  OBVIOUS
<1>2. PICK rest : rest = Rest(w)
  OBVIOUS
<1>3. IsSeq(rest) /\ w.program # rest
  BY <1>2, RestSeq, RestLocal
<1>4. ValidReading(w, lists[w.arg], ranges, s, rest) \/ Checking(w, lists[w.arg], s, rest)
  BY <1>1, <1>2 DEF ValidInv
<1>5. Validated(v, l[w.arg], ranges, s, rest)
  BY <1>3, <1>4, ValidReadStep, CheckingStep
<1>6. v.arg = w.arg /\ v.old = w.old /\ Rest(v) = Rest(w)
  <2>1. Kin(v, w)
    BY Kept DEF WorkOK
  <2> QED
    BY <2>1 DEF Kin, Rest
<1> QED
  BY <1>1, <1>2, <1>5, <1>6 DEF Validated, ValidInv

(* Nothing is left to check: the songs are known.                          *)
LEMMA CheckedAll ==
  ASSUME NEW w, NEW now \in Seq(Songs), NEW s, NEW rest, IsSeq(rest), Checking(w, now, s, rest), w.program = rest
  PROVE  now = Valid(s) /\ Fresh(w) /\ w.result = "none"
<1>1. PICK i \in 0..Len(now) :
        /\ KnownAfter(now, i)
        /\ \/ w.program = Checks(w.arg, now, i) \o rest
           \/ i > 0 /\ w.program = <<Do("del", w.arg, i)>> \o (Checks(w.arg, now, i - 1) \o rest)
  BY DEF Checking
<1>2. \A e, a : IsSeq(a) => rest # <<e>> \o (a \o rest)
  <2>1. SUFFICES ASSUME NEW e, NEW a, IsSeq(a), rest = <<e>> \o (a \o rest) PROVE FALSE
    OBVIOUS
  <2>2. PICK b : b = a \o rest
    OBVIOUS
  <2>3. IsSeq(b) /\ Len(b) = Len(a) + Len(rest) /\ Len(a) \in Nat /\ Len(rest) \in Nat
    BY <2>1, <2>2, Joins
  <2>4. Len(<<e>> \o b) = Len(b) + 1
    BY <2>3, StartsAt
  <2> QED
    BY <2>1, <2>2, <2>3, <2>4
<1>3. i \in Nat
  OBVIOUS
<1>4. i = 0
  <2>1. SUFFICES ASSUME i > 0 PROVE FALSE
    BY <1>3
  <2>2. PICK m \in Nat : m = i - 1
    BY <1>3, <2>1
  <2>3. PICK a : a = Checks(w.arg, now, m)
    OBVIOUS
  <2>4. IsSeq(a)
    BY <2>3, ChecksStep
  <2>5. PICK c : c = Do("check", w.arg, <<i, now[i]>>)
    OBVIOUS
  <2>6. Checks(w.arg, now, i) = <<c>> \o a
    BY <1>3, <2>1, <2>2, <2>3, <2>5, ChecksStep
  <2>7. IsSeq(<<c>>)
    BY Single
  <2>8. (<<c>> \o a) \o rest = <<c>> \o (a \o rest)
    BY <2>4, <2>7, Assoc
  <2>9. PICK d : d = Do("del", w.arg, i)
    OBVIOUS
  <2>10. w.program = <<c>> \o (a \o rest) \/ w.program = <<d>> \o (a \o rest)
    BY <1>1, <2>2, <2>3, <2>6, <2>8, <2>9
  <2> QED
    BY <1>2, <2>4, <2>10
<1>5. KnownAfter(now, 0)
  BY <1>1, <1>4
<1>6. Valid(now) = now
  BY <1>5, AllValid
<1> QED
  BY <1>6 DEF Checking

(* Every exchange of playlist_validate_dedup keeps its invariant, unless   *)
(* an answer is lost.                                                      *)
LEMMA BothStep ==
  ASSUME lists \in Stored, ranges \in BOOLEAN, NEW w, WorkOK(w), w.arg \in PlistNames, w.all # "update_all", NoRemoval(w),
         w.program # <<>>, Head(w.program).do \notin Local, w.old[w.arg] \in Seq(Songs), ValidDedupInv(w, lists[w.arg], ranges),
         NEW l, NEW v, Outcome(w, l, v), ~v.blind, l \in Stored
  PROVE  ValidDedupInv(v, l[v.arg], ranges)
<1>1. PICK s \in Seq(Songs) : s = w.old[w.arg]
  OBVIOUS
<1>2. PICK c, rest : c = Do("read", w.arg, "dedup") /\ rest = <<c>> \o Rest(w)
  OBVIOUS
<1>3. IsSeq(rest) /\ rest # <<>>
  BY <1>2, RestSeq, Starts
<1>4. PICK u : u = Valid(s)
  OBVIOUS
<1>5. u \in Seq(Songs) /\ Unique(u) = Valid(Unique(s)) /\ Unique(u) \in Seq(Songs)
  BY <1>4, Filtered
<1>6. v.arg = w.arg /\ v.old = w.old /\ Rest(v) = Rest(w)
  <2>1. Kin(v, w)
    BY Kept DEF WorkOK
  <2> QED
    BY <2>1 DEF Kin, Rest
<1>7. \/ ValidReading(w, lists[w.arg], ranges, s, rest) \/ Checking(w, lists[w.arg], s, rest)
      \/ DedupReading(w, lists[w.arg], ranges, u) \/ Deduping(w, lists[w.arg], u)
  BY <1>1, <1>2, <1>4 DEF ValidDedupInv
<1>8. \A x : l[w.arg] # NoList /\ x = l[w.arg] => Valid(Unique(x)) = Unique(Valid(x)) /\ x \in Seq(Songs)
  <2>1. l[w.arg] \in Seq(Songs) \union {NoList}
    BY DEF Stored
  <2> QED
    BY <2>1, Filtered
<1>9. ASSUME Deduped(v, l[w.arg], ranges, u) PROVE ValidDedupInv(v, l[v.arg], ranges)
  <2>1. CASE DedupReading(v, l[w.arg], ranges, u) \/ Deduping(v, l[w.arg], u)
                \/ (v.result = "ok" /\ v.program = <<>> /\ l[w.arg] = Unique(u))
    BY <1>1, <1>4, <1>6, <2>1 DEF ValidDedupInv
  <2>2. CASE v.result = "failed" /\ v.program = <<>> /\ l[w.arg] # NoList /\ Unique(l[w.arg]) = Unique(u)
    <3>1. Valid(Unique(u)) = Unique(Valid(u)) /\ Valid(u) = u
      BY <1>4, <1>5, Filtered
    <3>2. Valid(Unique(l[w.arg])) = Valid(Unique(s))
      BY <1>5, <2>2, <3>1
    <3> QED
      BY <1>1, <1>6, <2>2, <3>2 DEF ValidDedupInv
  <2> QED
    BY <1>9, <2>1, <2>2 DEF Deduped
<1>10. ASSUME Validated(v, l[w.arg], ranges, s, rest) PROVE ValidDedupInv(v, l[v.arg], ranges)
  <2>1. CASE ValidReading(v, l[w.arg], ranges, s, rest) \/ Checking(v, l[w.arg], s, rest)
    BY <1>1, <1>2, <1>6, <2>1 DEF ValidDedupInv
  <2>2. CASE v.result = "failed" /\ v.program = <<>> /\ l[w.arg] # NoList /\ Valid(l[w.arg]) = Valid(s)
    <3>1. Valid(Unique(l[w.arg])) = Valid(Unique(s))
      BY <1>4, <1>5, <1>8, <2>2
    <3> QED
      BY <1>1, <1>6, <2>2, <3>1 DEF ValidDedupInv
  <2> QED
    BY <1>3, <1>10, <2>1, <2>2 DEF Validated
<1>11. CASE DedupReading(w, lists[w.arg], ranges, u) \/ Deduping(w, lists[w.arg], u)
  <2>1. Deduped(v, l[w.arg], ranges, u)
    BY <1>5, <1>11, DedupReadStep, DedupDelStep
  <2> QED
    BY <1>9, <2>1
<1>12. CASE ValidReading(w, lists[w.arg], ranges, s, rest)
  <2>1. Validated(v, l[w.arg], ranges, s, rest)
    BY <1>3, <1>12, ValidReadStep
  <2> QED
    BY <1>10, <2>1
<1>13. CASE Checking(w, lists[w.arg], s, rest) /\ w.program # rest
  <2>1. Validated(v, l[w.arg], ranges, s, rest)
    BY <1>3, <1>13, CheckingStep
  <2> QED
    BY <1>10, <2>1
<1>14. CASE Checking(w, lists[w.arg], s, rest) /\ w.program = rest
  <2>1. PICK now : now = lists[w.arg]
    OBVIOUS
  <2>2. now # NoList
    BY <1>14, <2>1 DEF Checking
  <2>3. now \in Seq(Songs)
    BY <2>1, <2>2 DEF Stored
  <2>4. Checking(w, now, s, rest) /\ w.program = rest
    BY <1>14, <2>1
  <2>5. now = u /\ Fresh(w) /\ w.result = "none"
    BY <1>3, <1>4, <2>3, <2>4, CheckedAll
  <2>6. DedupReading(w, lists[w.arg], ranges, u)
    BY <1>2, <1>14, <2>1, <2>5 DEF DedupReading, Reading, Fresh
  <2>7. Deduped(v, l[w.arg], ranges, u)
    BY <1>5, <2>6, DedupReadStep
  <2> QED
    BY <1>9, <2>7
<1> QED
  BY <1>7, <1>11, <1>12, <1>13, <1>14

(* Every exchange of the worker's job keeps the invariant of that job.     *)
LEMMA JobStep ==
  ASSUME lists \in Stored, ranges \in BOOLEAN, NEW j \in 1..PlistJobs, NEW w, JobOK(w, j),
         w.program # <<>>, Head(w.program).do \notin Local,
         JobInv(w, lists[w.arg], lists[Tmp(w.nr)], lists[Bak(w.nr)], ranges),
         NEW l \in Stored, NEW v, Outcome(w, l, v)
  PROVE  JobInv(v, l[v.arg], l[Tmp(v.nr)], l[Bak(v.nr)], ranges)
<1>1. WorkOK(w)
  BY DEF JobOK
<1>2. Goes(v, w)
  BY <1>1, WorkGoes
<1>3. /\ v.op = w.op /\ v.all = w.all /\ v.arg = w.arg /\ v.nr = w.nr /\ v.old = w.old /\ v.def = w.def /\ v.alone = w.alone
      /\ (~v.blind => ~w.blind) /\ (v.result # "failed" => w.result # "failed")
  BY <1>2 DEF Goes, Kin
<1>4. w.all # "update_all" => NoRemoval(w)
  <2>1. \A i \in DOMAIN w.program : StepOK(w, w.program[i])
    BY <1>1 DEF WorkOK
  <2> QED
    BY <2>1 DEF StepOK, NoRemoval
<1>5. SUFFICES ASSUME v.alone PROVE JobInv(v, l[v.arg], l[Tmp(v.nr)], l[Bak(v.nr)], ranges)
  BY DEF JobInv
<1>6. w.alone /\ v.alone
  BY <1>3, <1>5
<1>7. w.op \in {"shuffle", "sort", "dedup", "validate", "validate_dedup"} /\ w.old[w.arg] # NoList =>
        w.old[w.arg] \in Seq(Songs) /\ w.arg \in PlistNames
  <2>1. \A n \in DOMAIN w.old : n \in PlistNames /\ w.old[n] \in Seq(Songs) \cup {NoList}
    BY <1>1 DEF WorkOK
  <2>2. w.op \in {"shuffle", "sort", "dedup", "validate", "validate_dedup"} => w.arg \in DOMAIN w.old
    BY DEF JobOK
  <2> QED
    BY <2>1, <2>2
<1>8. ASSUME w.op \in {"shuffle", "sort"}, w.old[w.arg] # NoList
      PROVE  ReorderInv(v, l[v.arg], l[Tmp(v.nr)], l[Bak(v.nr)], ranges)
  <2>1. w.arg \in Plists /\ w.nr = <<j, w.arg>> /\ w.all = "none"
    BY <1>8 DEF JobOK
  <2>2. w.nr \in JobIds /\ NoRemoval(w)
    BY <1>4, <2>1 DEF JobIds
  <2>3. ReorderInv(w, lists[w.arg], lists[Tmp(w.nr)], lists[Bak(w.nr)], ranges)
    BY <1>6, <1>8 DEF JobInv
  <2>4. ReorderInv(v, l[w.arg], l[Tmp(w.nr)], l[Bak(w.nr)], ranges)
    BY <1>1, <1>7, <1>8, <2>1, <2>2, <2>3, ReorderStep
  <2> QED
    BY <1>3, <2>4
<1>9. ASSUME w.op = "dedup", w.old[w.arg] # NoList PROVE DedupInv(v, l[v.arg], ranges)
  <2>1. w.all # "update_all" /\ NoRemoval(w)
    BY <1>4, <1>9 DEF JobOK
  <2>2. DedupInv(w, lists[w.arg], ranges)
    BY <1>6, <1>9 DEF JobInv
  <2> QED
    BY <1>1, <1>7, <1>9, <2>1, <2>2, DedupStep
<1>10. ASSUME w.op = "validate", w.old[w.arg] # NoList, ~v.blind PROVE ValidInv(v, l[v.arg], ranges)
  <2>1. w.all # "update_all" /\ NoRemoval(w)
    BY <1>4, <1>10 DEF JobOK
  <2>2. ValidInv(w, lists[w.arg], ranges)
    BY <1>3, <1>6, <1>10 DEF JobInv
  <2> QED
    BY <1>1, <1>7, <1>10, <2>1, <2>2, ValidateStep
<1>11. ASSUME w.op = "validate_dedup", w.old[w.arg] # NoList, ~v.blind PROVE ValidDedupInv(v, l[v.arg], ranges)
  <2>1. w.all # "update_all" /\ NoRemoval(w)
    BY <1>4, <1>11 DEF JobOK
  <2>2. ValidDedupInv(w, lists[w.arg], ranges)
    BY <1>3, <1>6, <1>11 DEF JobInv
  <2> QED
    BY <1>1, <1>7, <1>11, <2>1, <2>2, BothStep
<1>12. ASSUME w.op = "update", ~v.blind, v.result # "failed" PROVE UpdateInv(v, l[v.arg], l[Tmp(v.nr)], l[Bak(v.nr)], ranges)
  <2>1. w.arg \in Plists /\ w.nr = <<j, w.arg>> /\ w.def \in DefKinds
    BY <1>12 DEF JobOK
  <2>2. w.nr \in JobIds
    BY <2>1 DEF JobIds
  <2>3. UpdateInv(w, lists[w.arg], lists[Tmp(w.nr)], lists[Bak(w.nr)], ranges)
    BY <1>3, <1>6, <1>12 DEF JobInv
  <2>4. Reach(w, v, l)
    BY <1>1, <1>12, <2>1, <2>2, <2>3, UpdateStep
  <2> QED
    BY <1>3, <2>4 DEF Reach
<1> QED
  BY <1>3, <1>8, <1>9, <1>10, <1>11, <1>12 DEF JobInv
================================================================================
