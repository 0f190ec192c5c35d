------------------------------- MODULE Playlists -------------------------------
(***************************************************************************)
(* The stored playlists of MPD and the smart playlists                     *)
(* (mympd_client/playlists.c, mympd_api/playlists.c,                       *)
(* mympd_worker/smartpls.c).  The api thread edits playlists; a worker     *)
(* thread shuffles, sorts, deduplicates and validates them, and creates    *)
(* playlists from the definitions of smart playlists, over a connection of *)
(* its own.  What either does is a program of exchanges with MPD, each of  *)
(* them atomic; MPD may answer with an error, or the connection may break, *)
(* and the exchanges of the two threads interleave.                        *)
(*                                                                         *)
(* Songs are numbers, in the order of the sort tag.  The songs that are    *)
(* not in KnownSongs were dropped from MPD's database: MPD refuses to add  *)
(* them to a playlist.                                                     *)
(***************************************************************************)
EXTENDS Naturals, Sequences, FiniteSets, SequencesExt, Ordered

CONSTANTS
  Plists,         \* names of playlists
  NoList,         \* there is no such playlist
  KnownSongs, GoneSongs,
  ResultsMax,     \* MPD_RESULTS_MAX
  CommandsMax,    \* MPD_COMMANDS_MAX
  PlistWorlds,    \* what there may be at the beginning: records of lists, defs and ranges
  Defs,           \* definitions of smart playlists: records of the kind ("search" and
                  \* "newest" are searches in the database, or "sticker"), of the sort
                  \* ("", "shuffle" or "tag") and of the maximum of entries (0: all)
  EditSongs,      \* songs the user adds
  ReadBound,      \* bound: songs that a job reads
  PlistEdits, PlistJobs, PlistFaults \* bounds

Songs  == KnownSongs \union GoneSongs
NoDef  == [kind |-> "none"]

\* the playlists a job creates, they have random names
Tmp(id) == <<"tmp", id>>
Bak(id) == <<"bak", id>>
PlistNames == Plists \union UNION {{Tmp(id), Bak(id)} : id \in (1..PlistJobs) \X Plists}

\* what MPD may have stored, and the definitions
Stored   == [PlistNames -> Seq(Songs) \union {NoList}]
DefKinds == [kind : {"search", "newest", "sticker"}, sort : {"", "shuffle", "tag"}, max : Nat]

ASSUME PlistAssumption ==
  /\ IsFiniteSet(Plists) /\ PlistJobs \in Nat
  /\ \A id \in (1..PlistJobs) \X Plists \union {<<>>} : Tmp(id) \notin Plists /\ Bak(id) \notin Plists
  /\ NoList \notin Seq(Songs) /\ NoList \notin Stored
  /\ Songs \subseteq Nat /\ IsFiniteSet(KnownSongs)
  /\ ResultsMax \in Nat \ {0} /\ CommandsMax \in Nat \ {0}
  /\ Defs \subseteq DefKinds
  /\ \A world \in PlistWorlds :
       /\ world.lists \in [Plists -> Seq(Songs) \union {NoList}]
       /\ world.defs \in [Plists -> DefKinds \union {NoDef}] /\ world.ranges \in BOOLEAN

VARIABLES
  lists,     \* MPD: name -> songs, or NoList
  ranges,    \* feat.listplaylist_range: MPD is at least 0.24
  defs,      \* definition files of the smart playlists
  work,      \* thread -> what it does, or did last
  edits, jobs, plistFaults \* number of commands, jobs and failures

plistVars == <<lists, ranges, defs, work, edits, jobs, plistFaults>>

Do(do, a, b) == [do |-> do, a |-> a, b |-> b]
Add(p, song)  == Do("add", p, song)

\* a piece of work: the exchanges left to do, what was read, for the all-commands
\* the playlists to come, and for the properties the playlists it is about, as
\* they were, and whether nobody else changed them
Idle == [op |-> "none", all |-> "none", arg |-> "none", program |-> <<>>, buf |-> <<>>,
         start |-> 0, pos |-> 0, todo |-> {}, nr |-> <<>>, old |-> <<>>, def |-> NoDef,
         alone |-> TRUE, result |-> "none", blind |-> FALSE]

Begin(op, arg, names, program) ==
  [Idle EXCEPT !.op = op, !.arg = arg, !.program = program, !.old = [n \in names |-> lists[n]]]

PlistInit ==
  /\ lists = [n \in PlistNames |-> NoList] /\ ranges = TRUE
  /\ defs = [n \in Plists |-> NoDef]
  /\ work = [t \in {"api", "worker"} |-> Idle]
  /\ edits = 0 /\ jobs = 0 /\ plistFaults = 0

Exists(n)  == lists[n] # NoList
Busy(t)    == work[t].program # <<>>
Upto(s, n) == SubSeq(s, 1, IF n < Len(s) THEN n ELSE Len(s))
\* the songs of a playlist at other positions
Reorderings(s) ==
  {[i \in DOMAIN s |-> s[f[i]]] : f \in {g \in [DOMAIN s -> DOMAIN s] :
                                       \A i, j \in DOMAIN s : g[i] = g[j] => i = j}}
\* each at its rank: sorted, equal songs in the order they were in
Before(s, i, j) == s[i] < s[j] \/ (s[i] = s[j] /\ i <= j)
Sorted(s) ==
  [k \in DOMAIN s |-> s[CHOOSE j \in DOMAIN s : Cardinality({i \in DOMAIN s : Before(s, i, j)}) = k]]
\* the numbers of a set, the greatest first
Descending(S) == [k \in 1..Cardinality(S) |-> NthIn(S, Cardinality(S) + 1 - k)]
\* the order of the database
DbOrder(S)    == Descending(S)
Times(x, s)    == Cardinality({i \in DOMAIN s : s[i] = x})
SameSongs(s, t) == \A x \in Songs : Times(x, s) = Times(x, t)

-----------------------------------------------------------------------------
(* MPD: what a command makes of the playlists, NoList if it refuses        *)

MpdCommand(l, c) ==
  LET p == c.a
      has == l[p] # NoList IN
  CASE c.do = "add" /\ c.b \in KnownSongs -> [l EXCEPT ![p] = IF @ = NoList THEN <<c.b>> ELSE Append(@, c.b)]
    [] c.do = "insert" /\ has /\ c.b[1] \in KnownSongs /\ c.b[2] <= Len(l[p])
                                                   -> [l EXCEPT ![p] = InsertAt(@, c.b[2] + 1, c.b[1])]
    [] c.do = "del" /\ has /\ c.b \in DOMAIN l[p]     -> [l EXCEPT ![p] = RemoveAt(@, c.b)]
    [] c.do = "delfrom" /\ has /\ c.b \in DOMAIN l[p] -> [l EXCEPT ![p] = Upto(@, c.b - 1)]
    [] c.do = "move" /\ has /\ {c.b[1], c.b[2]} \subseteq DOMAIN l[p]
                                 -> [l EXCEPT ![p] = InsertAt(RemoveAt(@, c.b[1]), c.b[2], @[c.b[1]])]
    [] c.do = "rename" /\ has /\ l[c.b] = NoList      -> [l EXCEPT ![p] = NoList, ![c.b] = l[p]]
    [] c.do = "rm" /\ has                             -> [l EXCEPT ![p] = NoList]
    [] c.do = "clear" /\ has                          -> [l EXCEPT ![p] = <<>>]
    [] OTHER                                          -> NoList

\* what a list of commands makes of them, up to each command: it stops at the
\* first that MPD refuses
MpdCommands(l, cs) ==
  LET after[k \in 0..Len(cs)] ==
        IF k = 0 THEN l
        ELSE LET m == after[k - 1] IN IF m = NoList THEN NoList ELSE MpdCommand(m, cs[k])
  IN  after

-----------------------------------------------------------------------------
(* Programs                                                                *)

\* mutant: the playlist is removed and filled again
ReorderInPlace(p, how, n) == <<Do("read", p, how), Do("rm", p, ""), Do("fill", p, "")>>

\* mympd_client_playlist_shuffle, playlist_sort and playlist_replace
Reorder(p, how, n) ==
  <<Do("read", p, how), Do("fill", Tmp(n), ""), Do("rename", p, Bak(n)),
    Do("rename", Tmp(n), p), Do("rm", Bak(n), "")>>

\* mympd_worker_smartpls_update_search, _sticker and _newest
Refill(p, d, feat) ==
  CASE d.kind = "sticker" -> IF feat THEN <<Do("find", p, d), Do("fill", p, "")>> ELSE <<>>
    [] d.kind = "newest"  -> <<Do("stat", p, ""), Do("search", p, d)>>
    [] OTHER              -> <<Do("search", p, d)>>
\* mutant: the playlist is cut before it is sorted
UpdateCropFirst(p, d, feat, n) ==
  <<Do("rmif", p, "")>> \o Refill(p, d, feat)
  \o (IF d.max > 0 THEN <<Do("crop", p, d.max)>> ELSE <<>>)
  \o (IF d.sort = "shuffle" THEN Reorder(p, "shuffle", n)
      ELSE IF d.kind = "sticker" /\ d.sort = "tag" THEN Reorder(p, "sort", n) ELSE <<>>)

\* mympd_worker_smartpls_update
Update(p, d, feat, n) ==
  <<Do("rmif", p, "")>> \o Refill(p, d, feat)
  \o (IF d.sort = "shuffle" THEN Reorder(p, "shuffle", n)
      ELSE IF d.kind = "sticker" /\ d.sort = "tag" THEN Reorder(p, "sort", n) ELSE <<>>)
  \o (IF d.max > 0 THEN <<Do("crop", p, d.max)>> ELSE <<>>)

Program(op, p, feat, n) ==
  CASE op \in {"shuffle", "sort"}   -> Reorder(p, op, n)
    [] op \in {"dedup", "validate"} -> <<Do("read", p, op)>>
    [] op = "validate_dedup"        -> <<Do("read", p, "validate"), Do("read", p, "dedup")>>
    [] op = "update"                -> Update(p, defs[p], feat, n)

StartJob(op, p, feat, n) ==
  LET names == IF p \in Plists THEN {p, Tmp(<<n, p>>), Bak(<<n, p>>)} ELSE {p} IN
  [Begin(op, p, names, Program(op, p, feat, <<n, p>>)) EXCEPT !.nr = <<n, p>>,
     !.def = IF p \in Plists THEN defs[p] ELSE NoDef]

-----------------------------------------------------------------------------
(* Exchanges                                                               *)

\* the work after an exchange, with "steps" in its place
Instead(w, steps) ==
  LET left == steps \o Tail(w.program) IN
  [w EXCEPT !.program = left, !.result = IF left = <<>> /\ @ # "failed" THEN "ok" ELSE @]
Advance(w) == Instead(w, <<>>)

\* each repeated song is put in front of the list of duplicates: they are removed
\* from the end, so that the positions of the others stay right
Repeated(s, i) == \E k \in 1..(i - 1) : s[k] = s[i]
Removals(p, s) ==
  LET bad == Descending({i \in DOMAIN s : Repeated(s, i)}) IN [k \in DOMAIN bad |-> Do("del", p, bad[k])]
\* the songs are looked up from the end
Checks(p, s, n) == [i \in 1..n |-> Do("check", p, <<n + 1 - i, s[n + 1 - i]>>)]

\* mympd_client_playlist_get and its kind: range by range, or with an older
\* MPD the whole playlist each time; then what the job does with the songs
ReadPlist(w, p, how) ==
  LET l    == lists[p]
      part == IF ranges THEN Upto(SubSeq(l, w.start + 1, Len(l)), ResultsMax) ELSE l
      buf  == w.buf \o part
      got  == [w EXCEPT !.buf = buf, !.start = 0, !.pos = 0] IN
  IF w.pos + Len(part) >= w.start + ResultsMax
  THEN {[w EXCEPT !.buf = buf, !.start = @ + ResultsMax, !.pos = @ + Len(part)]}
  ELSE CASE how = "shuffle"  -> {Advance([got EXCEPT !.buf = b]) : b \in Reorderings(buf)}
         [] how = "sort"     -> {Advance([got EXCEPT !.buf = Sorted(buf)])}
         [] how = "dedup"    -> {Instead([got EXCEPT !.buf = <<>>], Removals(p, buf))}
         [] how = "validate" -> {Instead([got EXCEPT !.buf = <<>>], Checks(p, buf, Len(buf)))}
         [] OTHER            -> {Advance(got)}

\* stickerdb_find_stickers_sorted, a search in the database: sorted, and cut
\* unless the songs are shuffled or sorted later
Found(d) ==
  LET s == IF d.sort = "tag" /\ d.kind # "sticker" THEN Sorted(DbOrder(KnownSongs)) ELSE DbOrder(KnownSongs) IN
  IF d.max = 0 \/ d.sort = "shuffle" \/ (d.sort = "tag" /\ d.kind = "sticker") THEN s ELSE Upto(s, d.max)

\* the first two songs, from the last to the first
Shifted(buf, src, dst) ==
  (IF Len(buf) > 1 THEN <<Add(dst, buf[2]), Do("del", src, 2)>> ELSE <<>>)
  \o (IF buf # <<>> THEN <<Add(dst, buf[1]), Do("del", src, 1)>> ELSE <<>>)

\* the commands of an exchange
Batch(w, s) ==
  LET n == IF s.do = "put" /\ w.pos > 0 THEN Len(w.buf) ELSE CommandsMax IN Upto(w.buf, n)
Commands(w, s) ==
  CASE s.do \in {"add", "insert", "del", "delfrom", "move", "rename", "rm", "clear"} -> <<s>>
    [] s.do \in {"list", "drop"} -> s.b
    [] s.do = "shift"  -> Shifted(w.buf, s.b, s.a)
    [] s.do = "fill"   -> [i \in DOMAIN Batch(w, s) |-> Add(s.a, w.buf[i])]
    [] s.do = "put"    -> [i \in DOMAIN Batch(w, s) |->
                            IF s.b = "insert" THEN Do("insert", s.a, <<w.buf[i], w.pos + i>>) ELSE Add(s.a, w.buf[i])]
    [] s.do = "search" -> [i \in DOMAIN Found(s.b) |-> Add(s.a, Found(s.b)[i])]
    [] s.do = "rmif"   -> IF Exists(s.a) THEN <<Do("rm", s.a, "")>> ELSE <<>>
    [] s.do = "crop"   -> IF Exists(s.a) /\ Len(lists[s.a]) > s.b THEN <<Do("delfrom", s.a, s.b + 1)>> ELSE <<>>
    [] OTHER           -> <<>>

\* what a listing of the playlists is made of: the removal of some
Smart(n) == n \in Plists /\ defs[n] # NoDef
Removed(S) == SetToSeq({Do("rm", n, "") : n \in {m \in S : Exists(m)}})

\* the work after the exchange, if MPD has carried it out
After(w, s) ==
  LET rest == [w EXCEPT !.buf = SubSeq(@, Len(Batch(w, s)) + 1, Len(@)), !.pos = @ + Len(Batch(w, s))] IN
  CASE s.do = "read" -> IF Exists(s.a) THEN ReadPlist(w, s.a, s.b) ELSE {}
    [] s.do = "find" -> {Advance([w EXCEPT !.buf = Found(s.b)])}
    [] s.do \in {"fill", "put"} -> {IF rest.buf = <<>> THEN Advance([rest EXCEPT !.pos = 0]) ELSE rest}
    [] s.do = "check" -> IF s.b[2] \in KnownSongs THEN {Advance(w)} ELSE {}
    [] s.do = "delete" -> {Instead(w, <<Do("drop", s.b, Removed(s.b))>>)}
    [] s.do = "delete_all" ->
         LET gone == {n \in PlistNames : Exists(n) /\ CASE s.b = "all"   -> TRUE
                                                       [] s.b = "smart" -> Smart(n)
                                                       [] s.b = "empty" -> lists[n] = <<>>} IN
         {Instead(w, <<Do("drop", gone \union {n \in Plists : ~Exists(n)}, Removed(gone))>>)}
    [] OTHER -> {Advance(w)}

\* the work after an error: what is left to undo, or to go on with
Undo(w, s) ==
  IF w.result = "failed" THEN Advance(w) ELSE
  CASE s.do \in {"rmif", "crop"} -> Advance([w EXCEPT !.blind = TRUE])
    [] s.do = "check" -> Instead([w EXCEPT !.blind = @ \/ s.b[2] \in KnownSongs], <<Do("del", s.a, s.b[1])>>)
    [] OTHER ->
         LET undo == IF s.do = "fill" /\ s.a = Tmp(w.nr) THEN <<Do("rm", s.a, "")>>
                     ELSE IF s.do = "rename" /\ s.a = Tmp(w.nr) THEN <<Do("rename", Bak(w.nr), s.b)>>
                     ELSE <<>>
             then == IF w.all = "update_all" THEN <<Do("rmdef", w.arg, ""), Do("next", "", "")>> ELSE <<>>
         IN  [w EXCEPT !.program = undo \o then, !.result = "failed", !.buf = <<>>]

\* the connection is lost: nothing more can be done
Lost(w, s) ==
  [w EXCEPT !.buf = <<>>, !.blind = TRUE, !.result = IF s.do = "crop" THEN "ok" ELSE "failed",
            !.program = IF \/ w.all = "update_all" /\ s.do # "crop" /\ w.result # "failed"
                           \/ \E i \in DOMAIN w.program : w.program[i].do = "rmdef"
                        THEN <<Do("rmdef", w.arg, "")>> ELSE <<>>]

\* the other thread's playlists are changed behind its back
Disturb(t, l, w) ==
  [u \in DOMAIN work |->
     IF u = t THEN w
     ELSE [work[u] EXCEPT !.alone = @ /\ \A n \in DOMAIN work[u].old : l[n] = lists[n]]]

\* steps that need no exchange
Local == {"next", "rmdef"}

\* one exchange of a thread.  The buffer is bounded: reading a playlist with
\* an older MPD may have no end.
Exchange(t) ==
  /\ Busy(t) /\ Head(work[t].program).do \notin Local
  /\ Len(work[t].buf) <= ReadBound
  /\ LET w    == work[t]
         s    == Head(w.program)
         cs   == Commands(w, s)
         mpd  == MpdCommands(lists, cs)
         ok   == mpd[Len(cs)] # NoList /\ After(w, s) # {}
         \* the first k commands have been carried out, then the thread goes on with v
         Then(k, v) == mpd[k] # NoList /\ lists' = mpd[k] /\ work' = Disturb(t, mpd[k], v)
         Refused(k) == k < Len(cs) /\ mpd[k + 1] = NoList
         Fault      == /\ plistFaults < PlistFaults /\ plistFaults' = plistFaults + 1
                       /\ ~(s.do \in {"fill", "put"} /\ w.buf = <<>>) IN
     \/ ok /\ (\E v \in After(w, s) : Then(Len(cs), v)) /\ UNCHANGED plistFaults
     \/ ~ok /\ (\E k \in 0..Len(cs) : (cs = <<>> \/ Refused(k)) /\ Then(k, Undo(w, s))) /\ UNCHANGED plistFaults
     \/ ok /\ Fault /\ \E k \in 0..Len(cs) : (cs = <<>> \/ k < Len(cs)) /\ Then(k, Undo(w, s))
     \/ Fault /\ \E k \in 0..Len(cs) : Then(k, Lost(w, s))
  /\ defs' = IF Head(work[t].program).do = "drop"
             THEN [n \in Plists |-> IF n \in Head(work[t].program).a THEN NoDef ELSE defs[n]] ELSE defs
  /\ UNCHANGED <<ranges, edits, jobs>>

-----------------------------------------------------------------------------
(* Jobs of the worker thread                                               *)

Each == [dedup_all |-> "dedup", validate_all |-> "validate", update_all |-> "update"]

JobStart(op, p, feat) ==
  /\ ~Busy("worker") /\ jobs < PlistJobs /\ jobs' = jobs + 1
  /\ op = "update" => Smart(p)
  /\ work' = [work EXCEPT !["worker"] = StartJob(op, p, feat, jobs + 1)]
  /\ UNCHANGED <<lists, ranges, defs, edits, plistFaults>>

\* the playlists that are not smart, or all definitions; smart playlists for
\* the values of a tag are defined before their update
AllStart(op, new) ==
  /\ ~Busy("worker") /\ jobs < PlistJobs /\ jobs' = jobs + 1
  /\ op # "update_all" => new = {}
  /\ defs' = [n \in Plists |-> IF n \in new /\ defs[n] = NoDef
                               THEN [kind |-> "search", sort |-> "", max |-> 0] ELSE defs[n]]
  /\ work' = [work EXCEPT !["worker"] =
       [Begin(op, "none", {}, <<Do("next", "", "")>>) EXCEPT !.all = op,
          !.todo = IF op = "update_all" THEN Plists
                   ELSE {n \in PlistNames : Exists(n) /\ ~Smart(n)}]]
  /\ UNCHANGED <<lists, ranges, edits, plistFaults>>

\* the next playlist of an all-command; an update may skip it, as it is newer
\* than its definition and the database
AllNext(feat, skip) ==
  LET w == work["worker"] IN
  /\ Busy("worker") /\ Head(w.program).do = "next"
  /\ IF w.todo = {} THEN work' = [work EXCEPT !["worker"] = Advance(w)]
     ELSE \E p \in w.todo :
            work' = [work EXCEPT !["worker"] =
              IF w.all = "update_all" /\ (~Smart(p) \/ skip) THEN [w EXCEPT !.todo = @ \ {p}]
              ELSE LET v == StartJob(Each[w.all], p, feat, jobs)
                   IN  [v EXCEPT !.all = w.all, !.todo = w.todo \ {p}, !.program = @ \o <<Do("next", "", "")>>]]
  /\ UNCHANGED <<lists, ranges, defs, edits, jobs, plistFaults>>

\* mympd_worker_smartpls_update_all removes what it could not update
RemoveDefinition ==
  LET w == work["worker"] IN
  /\ Busy("worker") /\ Head(w.program).do = "rmdef"
  /\ defs' = [defs EXCEPT ![w.arg] = NoDef]
  /\ work' = [work EXCEPT !["worker"] = Advance(w)]
  /\ UNCHANGED <<lists, ranges, edits, jobs, plistFaults>>

-----------------------------------------------------------------------------
(* Commands of the api thread                                              *)

Command(w) ==
  /\ ~Busy("api") /\ edits < PlistEdits /\ edits' = edits + 1
  /\ work' = [work EXCEPT !["api"] = w]
  /\ UNCHANGED <<ranges, jobs, plistFaults>>

InsertSong(p, song, i) == <<Do("insert", p, <<song, i>>)>>
AppendSong(p, song) == <<Add(p, song)>>
ClearList(p) == <<Do("clear", p, "")>>
ReplaceSongs(p, song) == ClearList(p) \o AppendSong(p, song)
MoveSong(p, i, j) == <<Do("move", p, <<i, j>>)>>
RmRange(p, i) == <<Do("delfrom", p, i)>>

\* the positions are sorted first: the last is removed first
RmPositions(p, i, j) == <<Do("list", p, <<Do("del", p, IF i < j THEN j ELSE i),
                                          Do("del", p, IF i < j THEN i ELSE j)>>)>>

\* the commands that change the content of a playlist
Edit(p, song, i, j) ==
  /\ \E program \in {AppendSong(p, song), InsertSong(p, song, i), ReplaceSongs(p, song),
                     ClearList(p), MoveSong(p, i, j), RmRange(p, i), RmPositions(p, 1, 2)} :
       Command(Begin("edit", p, {}, program))
  /\ UNCHANGED <<lists, defs>>

\* mutant: the sources of a move are deleted first
CopyDeleteFirst(srcs, dst, mode) ==
  /\ Command(Begin(mode, <<srcs, dst>>, {srcs[i] : i \in DOMAIN srcs} \union {dst},
       [i \in DOMAIN srcs |-> Do("read", srcs[i], "")]
       \o (IF mode \in {"move_append", "move_insert"} THEN <<Do("delete", "", ToSet(srcs))>> ELSE <<>>)
       \o <<Do("put", dst, IF mode \in {"insert", "move_insert"} THEN "insert" ELSE "")>>))
  /\ UNCHANGED <<lists, defs>>

\* mympd_api_playlist_copy
Copy(srcs, dst, mode) ==
  /\ Command(Begin(mode, <<srcs, dst>>, {srcs[i] : i \in DOMAIN srcs} \union {dst},
       [i \in DOMAIN srcs |-> Do("read", srcs[i], "")]
       \o (IF mode = "replace" THEN <<Do("clear", dst, "")>> ELSE <<>>)
       \o <<Do("put", dst, IF mode \in {"insert", "move_insert"} THEN "insert" ELSE "")>>
       \o (IF mode \in {"move_append", "move_insert"} THEN <<Do("delete", "", ToSet(srcs))>> ELSE <<>>)))
  /\ UNCHANGED <<lists, defs>>

\* mympd_api_playlist_content_move_to_playlist, of the positions 1 and 2:
\* the songs are added and removed from the last to the first
MoveSongs(src, dst) ==
  /\ src # dst
  /\ Command(Begin("move_songs", <<<<src>>, dst>>, {src, dst}, <<Do("read", src, ""), Do("shift", dst, src)>>))
  /\ UNCHANGED <<lists, defs>>

\* mympd_api_playlist_rename: the definition first
Rename(p, q) ==
  /\ p # q /\ ~(Smart(p) /\ Smart(q))
  /\ Command(Begin("rename", <<p, q>>, {p, q}, <<Do("rename", p, q)>>))
  /\ defs' = IF Smart(p) THEN [defs EXCEPT ![p] = NoDef, ![q] = defs[p]] ELSE defs
  /\ UNCHANGED lists

\* mympd_api_playlist_delete
Delete(S) == Command(Begin("delete", S, {}, <<Do("delete", "", S)>>)) /\ UNCHANGED <<lists, defs>>

\* mympd_api_playlist_delete_all
DeleteAll(criteria) ==
  Command(Begin("delete_all", criteria, {}, <<Do("delete_all", "", criteria)>>)) /\ UNCHANGED <<lists, defs>>

\* the user saves a smart playlist (mympd_api_smartpls_save), its update is requested
SmartSave(p, d) ==
  /\ ~Busy("api")
  /\ edits < PlistEdits /\ edits' = edits + 1
  /\ defs' = [defs EXCEPT ![p] = d]
  /\ UNCHANGED <<lists, ranges, work, jobs, plistFaults>>

\* what was there before
PlistBefore(world) ==
  /\ edits = 0 /\ jobs = 0
  /\ \A n \in Plists : ~Exists(n) /\ ~Smart(n)
  /\ lists' = [n \in PlistNames |-> IF n \in Plists THEN world.lists[n] ELSE NoList] /\ defs' = world.defs
  /\ ranges' = world.ranges
  /\ UNCHANGED <<work, edits, jobs, plistFaults>>

PlistNext ==
  \/ \E t \in {"api", "worker"} : Exchange(t)
  \/ \E p \in Plists, feat \in BOOLEAN :
       \/ \E op \in {"shuffle", "sort", "dedup", "validate", "validate_dedup", "update"} : JobStart(op, p, feat)
       \/ \E skip \in BOOLEAN : AllNext(feat, skip)
       \/ \E song \in EditSongs : Edit(p, song, 1, 2)
       \/ \E q \in Plists : MoveSongs(p, q) \/ Rename(p, q)
       \/ \E d \in Defs : SmartSave(p, d)
  \/ \E op \in DOMAIN Each, new \in {{n} : n \in Plists} \union {{}} : AllStart(op, new)
  \/ RemoveDefinition
  \/ \E world \in PlistWorlds : PlistBefore(world)
  \/ \E srcs \in {SetToSeq(S) : S \in (SUBSET Plists) \ {{}}}, dst \in Plists,
        mode \in {"append", "insert", "replace", "move_append", "move_insert"} : Copy(srcs, dst, mode)
  \/ \E S \in (SUBSET Plists) \ {{}} : Delete(S)
  \/ \E criteria \in {"all", "smart", "empty"} : DeleteAll(criteria)

PlaylistsSpec == PlistInit /\ [][PlistNext]_plistVars

-----------------------------------------------------------------------------
(* Properties                                                              *)

\* a playlist without its duplicates, without the songs MPD does not know
Unique(s) == EntriesAt(s, {i \in DOMAIN s : ~Repeated(s, i)})
Valid(s)  == EntriesAt(s, {i \in DOMAIN s : s[i] \in KnownSongs})
Content(l) == IF l = NoList THEN <<>> ELSE l
\* the songs of some playlists, one after the other
Joined(l, names) ==
  LET upto[i \in 0..Len(names)] == IF i = 0 THEN <<>> ELSE upto[i - 1] \o l[names[i]]
  IN  upto[Len(names)]

\* The work of the worker thread never loses a song of a playlist that nobody
\* else touches, whatever fails.  While it is shuffled or sorted all its songs are
\* under its name, or in the new or the backup playlist; when that succeeds these two
\* are gone.  Removing duplicates leaves one of each, validation removes what MPD
\* does not know, and both remove the right positions.
JobsKeepSongs ==
  LET w == work["worker"]
      p == w.arg
      old == w.old[p]
      now == lists[p] IN
  w.alone /\ p \in DOMAIN w.old /\ old # NoList =>
    /\ w.op \in {"shuffle", "sort"} =>
         /\ \E n \in DOMAIN w.old : Exists(n) /\ SameSongs(lists[n], old)
         /\ w.result = "ok" => /\ \A n \in DOMAIN w.old \ {p} : ~Exists(n)
                               /\ w.op = "sort" => now = Sorted(old)
    /\ w.op \in {"dedup", "validate_dedup"} => Valid(Unique(now)) = Valid(Unique(old)) \/ w.blind
    /\ w.op = "dedup" /\ w.result = "ok" => now = Unique(old)
    /\ w.op = "validate" /\ ~w.blind => /\ Valid(now) = Valid(old)
                                        /\ w.result = "ok" => now = Valid(old)
    /\ w.op = "validate_dedup" /\ w.result = "ok" /\ ~w.blind => now = Unique(Valid(old))

\* A smart playlist that was updated without an ignored error has what its
\* definition says: the songs found, each once, in the order and up to the number wanted.
Updated ==
  LET w == work["worker"]
      d == w.def
      n == Cardinality(KnownSongs)
      now == lists[w.arg] IN
  w.op = "update" /\ w.alone /\ ~w.blind /\ w.result = "ok" =>
    \/ (d.kind = "sticker" \/ KnownSongs = {}) /\ now = NoList
    \/ /\ now = Unique(now) /\ Len(now) = IF d.max = 0 \/ d.max > n THEN n ELSE d.max
       /\ d.sort = "tag" => now = Upto(Sorted(DbOrder(KnownSongs)), Len(now))

\* Moving playlists, or songs, into another playlist, or renaming one, never loses a
\* song, whatever fails in between.
MovesKeepSongs ==
  LET w == work["api"]
      src == w.arg[1]
      dst == w.arg[2]
      all == DOMAIN w.old
      Held(l, x) == \E n \in all : l[n] # NoList /\ x \in ToSet(l[n])
      before == w.old IN
  w.alone =>
    /\ w.op \in {"move_append", "move_insert", "move_songs"} /\ dst \notin ToSet(src) =>
         \A x \in Songs : Held(before, x) => Held(lists, x)
    /\ w.op \in {"append", "move_append"} /\ dst \notin ToSet(src) /\ w.result = "ok" =>
         Content(lists[dst]) = Content(before[dst]) \o Joined(before, src)
    /\ w.op = "rename" /\ before[src] # NoList =>
         \/ lists[src] = before[src] /\ lists[dst] = before[dst]
         \/ lists[src] = NoList /\ lists[dst] = before[src]

\* Neither the worker thread nor the commands of the clients lose songs.
SongsKept == JobsKeepSongs /\ MovesKeepSongs
=============================================================================
