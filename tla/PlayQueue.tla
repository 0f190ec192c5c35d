------------------------------ MODULE PlayQueue ------------------------------
(***************************************************************************)
(* The commands on MPD's queue (mympd_api/queue.c, mympd_client/queue.c,   *)
(* mympd_client/shortcuts.c and the MYMPD_API_QUEUE_ commands of the       *)
(* handler).  A command is a program of exchanges with MPD: each exchange  *)
(* is a command or a list of commands that MPD carries out as one step and *)
(* up to the first it refuses.  Other clients of MPD change the queue, and *)
(* MPD plays on, between the exchanges.                                    *)
(*                                                                         *)
(* What is added is a sequence of parts, one for each uri, playlist or     *)
(* album; a part is a sequence of songs.                                   *)
(***************************************************************************)
EXTENDS Integers, Sequences, FiniteSets, SequencesExt

CONSTANTS
  QueueParts,     \* kind of source -> the parts a command adds
  QueueUnknown,   \* songs that MPD does not know
  QueueStart,     \* queues MPD may have at the beginning, as sequences of songs
  QueuePrioMax,   \* MPD_QUEUE_PRIO_MAX
  JukeboxStart,   \* the jukebox queue at the beginning
  JukeboxLength,  \* jukebox.queue_length: songs the queue should have
  QueueCalls, QueueForeign \* bounds: commands, steps of others

VARIABLES
  queue,          \* MPD: sequence of records with the id, song and priority
  current,        \* MPD: id of the current song, 0 if there is none
  touched,        \* MPD: id -> queue version of its last change of position
  queueVersion, lastId,\* MPD: of the queue
  known,          \* partition_state: queue_version
  jukeboxQueue,        \* partition_state->jukebox.queue, songs to come
  queueCall,      \* the command that is carried out, or the last one
  queueCalls, queueForeign

mpdQueue  == <<queue, current, touched, queueVersion, lastId>>
queueVars == <<mpdQueue, known, jukeboxQueue, queueCall, queueCalls, queueForeign>>

Ids(q)      == {q[i].id : i \in DOMAIN q}
At(q, id)   == CHOOSE i \in DOMAIN q : q[i].id = id
Songs(q)    == [i \in DOMAIN q |-> q[i].song]
IdsOf(q)    == [i \in DOMAIN q |-> q[i].id]
\* what is left of a sequence when only the members of a set are looked at
Among(s, S) == SelectSeq(s, LAMBDA x : x \in S)

NoCall == [op |-> "none", what |-> "none", ids |-> <<>>, play |-> FALSE, at |-> <<0, "end">>, program |-> <<>>, got |-> 0, left |-> 0, juke |-> <<>>,
           prio |-> 0, result |-> "none", before |-> <<>>, was |-> 0, first |-> 0, alone |-> TRUE]

PlayQueueInit ==
  /\ \E songs \in QueueStart :
       /\ queue = [i \in DOMAIN songs |-> [id |-> i, song |-> songs[i], prio |-> 0]]
       /\ current \in 0..Len(songs) /\ touched = [i \in DOMAIN songs |-> 1]
       /\ queueVersion = 1 /\ lastId = Len(songs)
  /\ known = 0 /\ jukeboxQueue = JukeboxStart
  /\ queueCall = NoCall /\ queueCalls = 0 /\ queueForeign = 0

-----------------------------------------------------------------------------
(* MPD: a command is applied to a record of the queue and the current song *)

Mpd == [q |-> queue, cur |-> current, last |-> lastId, ok |-> TRUE, new |-> 0]

\* the position of "to" relative to the current song, -1 if MPD refuses it
Place(m, to, whence) ==
  LET here == IF m.cur \in Ids(m.q) THEN At(m.q, m.cur) - 1 ELSE -1
      pos  == CASE whence = "absolute" -> to
                [] whence = "after"    -> IF here = -1 THEN -1 ELSE here + 1 + to
                [] whence = "before"   -> IF here = -1 THEN -1 ELSE here - to
                [] whence = "end"      -> Len(m.q)
  IN IF pos \in 0..Len(m.q) THEN pos ELSE -1

Refuse(m) == [m EXCEPT !.ok = FALSE]

Adding(m, songs, to, whence) ==
  LET pos == Place(m, to, whence)
      new == [i \in DOMAIN songs |-> [id |-> m.last + i, song |-> songs[i], prio |-> 0]] IN
  IF pos = -1 \/ \E i \in DOMAIN songs : songs[i] \in QueueUnknown THEN Refuse(m)
  ELSE [m EXCEPT !.q = SubSeq(@, 1, pos) \o new \o SubSeq(@, pos + 1, Len(@)),
                 !.last = @ + Len(songs), !.new = m.last + 1]

Keeping(m, S) == [m EXCEPT !.q = SelectSeq(@, LAMBDA e : e.id \in S), !.cur = IF @ \in S THEN @ ELSE 0]

MpdDo(m, c) ==
  CASE c.do = "add"    -> Adding(m, c.songs, c.to, c.whence)
    [] c.do = "delete" -> IF c.id \in Ids(m.q) THEN Keeping(m, Ids(m.q) \ {c.id}) ELSE Refuse(m)
    [] c.do = "range"  -> IF c.from > Len(m.q) THEN Refuse(m)
                          ELSE Keeping(m, Ids(SubSeq(m.q, 1, c.from) \o SubSeq(m.q, c.upto + 1, Len(m.q))))
    [] c.do = "prio"   -> IF c.id \in Ids(m.q) THEN [m EXCEPT !.q[At(m.q, c.id)].prio = c.prio] ELSE Refuse(m)
    [] c.do = "move"   -> IF c.id \notin Ids(m.q) \/ Place(m, c.to, c.whence) \notin 0..Len(m.q) - 1 THEN Refuse(m)
                          ELSE [m EXCEPT !.q = InsertAt(RemoveAt(@, At(@, c.id)),
                                                        Place(m, c.to, c.whence) + 1, @[At(@, c.id)])]
    [] c.do = "play"   -> IF c.id \in Ids(m.q) THEN [m EXCEPT !.cur = c.id] ELSE Refuse(m)
    [] c.do = "clear"  -> Keeping(m, {})

\* a list of commands stops at the first that is refused
MpdList(cs) == FoldLeft(LAMBDA m, c : IF m.ok THEN MpdDo(m, c) ELSE m, Mpd, cs)

\* MPD's state becomes m; the songs that are new or were moved belong to a new version
Becomes(m) ==
  /\ queue' = m.q /\ current' = m.cur /\ lastId' = m.last
  /\ queueVersion' = IF m.q # queue THEN queueVersion + 1 ELSE queueVersion
  /\ touched' = [id \in Ids(m.q) |->
                   IF id \in Ids(queue) /\ At(queue, id) = At(m.q, id) /\ queue[At(queue, id)] = m.q[At(m.q, id)]
                   THEN touched[id] ELSE queueVersion + 1]

\* plchangesposid: MPD answers with the changes since a version in the order of the queue
FirstChanged(since) ==
  LET changed == {i \in DOMAIN queue : touched[queue[i].id] > since} IN
  IF changed = {} THEN 0 ELSE queue[CHOOSE i \in changed : \A j \in changed : i <= j].id

-----------------------------------------------------------------------------
(* Programs                                                                *)

Do(do, list) == [do |-> do, list |-> list]
AddTo(songs, to, whence) == [do |-> "add", songs |-> songs, to |-> to, whence |-> whence]

\* mutant: all uris at the position that was asked for
AddsInPlace(what, to, whence) ==
  <<Do("list", [i \in DOMAIN QueueParts[what] |-> AddTo(QueueParts[what][i], to, whence)])>>

\* mympd_client_add_uris_to_queue, mympd_api_queue_insert_plists and
\* mympd_client_add_albums_to_queue, and the commands that add only one part
Adds(what, to, whence) ==
  LET parts == QueueParts[what]
      Part(i, pos) == AddTo(parts[i], pos, whence) IN
  CASE what \in {"uris", "bad"} -> <<Do("list", [i \in DOMAIN parts |-> Part(i, to + i - 1)])>>
    [] what = "playlists" -> <<Do("list", [i \in DOMAIN parts |-> Part(i, to)])>>
    [] what = "albums"    -> [i \in DOMAIN parts |-> Do("list", <<Part(i, to)>>)]
    [] what = "random"    -> <<Do("list", [i \in DOMAIN parts |-> Part(i, to)])>>
    [] what = "tags"      -> <<Do("list", <<Part(1, to)>>), Do("tagid", <<>>)>>
    [] what = "resume"    -> <<Do("list", <<Part(1, to)>>), Do("playid", <<>>)>>
    [] OTHER              -> <<Do("list", <<Part(1, to)>>)>>

Clear == <<Do("list", <<[do |-> "clear"]>>)>>
\* mympd_client_queue_check_start_play; a worker that adds random songs has a
\* partition state of its own, whose queue version is 0
StartPlay(play) == IF play THEN <<Do("changes", <<>>), Do("playid", <<>>)>> ELSE <<>>

\* mutant: what is to be played is looked up before it is added
AddProgramEarly(op, what, to, whence, play) ==
  IF play THEN <<Do("changes", <<>>)>> \o Adds(what, to, whence) \o <<Do("playid", <<>>)>>
  ELSE Adds(what, to, whence)

\* The handler compares the id of the command that appends a range of a playlist
\* with the wrong one (mympd_api_handler.c:1227), and so takes it for the one that
\* replaces the queue.
Replaces(op, what) == op = "replace" \/ (op = "append" /\ what = "range")

AddProgram(op, what, to, whence, play) ==
  (IF Replaces(op, what) THEN Clear ELSE <<>>)
  \o Adds(what, to, whence) \o StartPlay(play)

\* song ids the caller knows, one of them may be gone
SomeIds == {<<a>> : a \in 1..lastId} \union {<<a, b>> : a \in 1..lastId, b \in 1..lastId}

DeleteIds(ids) == <<Do("list", [i \in DOMAIN ids |-> [do |-> "delete", id |-> ids[i]]])>>
PrioIds(ids, prio) == Do("list", [i \in DOMAIN ids |-> [do |-> "prio", id |-> ids[i], prio |-> prio]])
MoveIds(ids, to, whence) ==
  <<Do("list", [i \in DOMAIN ids |-> [do |-> "move", id |-> ids[i], to |-> to + i - 1, whence |-> whence]])>>

\* mutant: the end of a range counted in
CropRangesOver(length, pos) == IF pos > 0 THEN <<[do |-> "range", from |-> 0, upto |-> pos + 1]>> ELSE <<>>

\* mympd_api_queue_crop with the status: the last song is left behind when it
\* follows the current one, and two songs cannot be cropped
CropRanges(length, pos) ==
  (IF pos + 1 < length - 1 THEN <<[do |-> "range", from |-> pos + 1, upto |-> length]>> ELSE <<>>)
  \o (IF pos > 0 THEN <<[do |-> "range", from |-> 0, upto |-> pos]>> ELSE <<>>)

Accept(call) ==
  /\ queueCall.program = <<>> /\ queueCalls < QueueCalls /\ queueCalls' = queueCalls + 1
  /\ queueCall' = [call EXCEPT !.before = queue, !.was = current, !.first = lastId + 1, !.alone = queueVersion = known]
  /\ UNCHANGED <<mpdQueue, known, jukeboxQueue, queueForeign>>

AddRequest ==
  \E what \in DOMAIN QueueParts, play \in BOOLEAN, op \in {"append", "replace", "insert"}, to \in 0..1,
     whence \in {"absolute", "after", "before", "end"} :
    /\ (what = "resume" => ~play) /\ (what = "random" => op = "append")
    /\ IF op = "insert" THEN whence # "end" ELSE whence = "end" /\ to = 0
    /\ Accept([NoCall EXCEPT !.op = op, !.what = what, !.play = play, !.at = <<to, whence>>,
                             !.program = AddProgram(op, what, to, whence, play)])

IdsRequest ==
  \E ids \in SomeIds :
    \/ Accept([NoCall EXCEPT !.op = "rm", !.ids = ids, !.program = DeleteIds(ids)])
    \/ Accept([NoCall EXCEPT !.op = "prio", !.ids = ids, !.program = <<PrioIds(ids, 1)>>])
    \/ Accept([NoCall EXCEPT !.op = "highest", !.ids = ids,
                             !.program = <<Do("next", <<>>), Do("song", <<>>), Do("prioids", <<>>)>>])
    \/ \E to \in 0..1, whence \in {"absolute", "after"} :
         Accept([NoCall EXCEPT !.op = "move", !.ids = ids, !.program = MoveIds(ids, to, whence)])

CropRequest ==
  \E op \in {"crop", "crop_or_clear"} : Accept([NoCall EXCEPT !.op = op, !.program = <<Do("crop", <<>>)>>])

\* jukebox_run, "left" is the number of songs to add
JukeboxRun == Accept([NoCall EXCEPT !.op = "jukebox", !.program = <<Do("length", <<>>)>>, !.juke = jukeboxQueue])

-----------------------------------------------------------------------------
(* Exchanges                                                               *)

Step(program) ==
  queueCall' = [queueCall EXCEPT !.program = program, !.result = IF program = <<>> THEN "ok" ELSE "none"]
Fail == queueCall' = [queueCall EXCEPT !.program = <<>>, !.result = "failed"]

Exchange ==
  /\ queueCall.program # <<>>
  /\ LET c == Head(queueCall.program)
         rest == Tail(queueCall.program)
         On(m) == Becomes(m) /\ IF m.ok THEN queueCall' = [queueCall EXCEPT !.program = rest,
                                              !.got = IF m.new > 0 THEN m.new ELSE @,
                                              !.result = IF rest = <<>> THEN "ok" ELSE "none"]
                                ELSE Fail
         Still == UNCHANGED mpdQueue
     IN \/ c.do = "list" /\ On(MpdList(c.list))
        \* mpd_send_add_tag_id, which does not move anything
        \/ c.do = "tagid" /\ Still /\ IF queueCall.got \in Ids(queue) THEN Step(rest) ELSE Fail
        \/ c.do = "playid" /\ On(MpdList(<<[do |-> "play", id |-> queueCall.got]>>))
        \/ c.do = "changes" /\ Still /\ queueCall' = [queueCall EXCEPT !.program = rest, !.got = FirstChanged(IF queueCall.what = "random" THEN 0 ELSE known)]
        \* the song after the current one, if there is any
        \/ /\ c.do = "next" /\ Still
           /\ \E id \in (Ids(queue) \ {current}) \union {0} :
                /\ queueCall' = [queueCall EXCEPT !.got = id, !.prio = 1,
                                   !.program = IF id = 0 THEN Tail(rest) ELSE rest]
        \/ /\ c.do = "song" /\ Still
           /\ IF queueCall.got \in Ids(queue)
              THEN LET p == queue[At(queue, queueCall.got)].prio + 1 IN
                   queueCall' = [queueCall EXCEPT !.prio = IF p > QueuePrioMax THEN QueuePrioMax ELSE p,
                                                  !.program = rest]
              ELSE Fail
        \/ c.do = "prioids" /\ Still /\ Step(<<PrioIds(queueCall.ids, queueCall.prio)>>)
        \* how many songs are missing; the worker is asked when the jukebox has too few
        \/ /\ c.do = "length" /\ Still
           /\ LET n == IF JukeboxLength > Len(queue) THEN JukeboxLength - Len(queue) ELSE 1 IN
              IF Len(queue) > JukeboxLength \/ n > Len(jukeboxQueue) THEN Step(<<>>)
              ELSE queueCall' = [queueCall EXCEPT !.left = n, !.program = <<Do("jukebox", <<>>)>>]
        \* MPD starts with any song when it does not play
        \/ /\ c.do = "resume"
           /\ IF current # 0 \/ queue = <<>> THEN Still /\ Step(<<>>)
              ELSE \E id \in Ids(queue) : On(MpdList(<<[do |-> "play", id |-> id]>>))
        \/ /\ c.do = "crop" /\ Still
           /\ LET pos == IF current \in Ids(queue) THEN At(queue, current) - 1 ELSE -1 IN
              \/ pos > -1 /\ Len(queue) > 2 /\ Step(<<Do("list", CropRanges(Len(queue), pos))>>)
              \/ /\ ~(pos > -1 /\ Len(queue) > 2)
                 /\ IF queueCall.op = "crop_or_clear" THEN Step(Clear) ELSE Fail
  /\ UNCHANGED <<known, jukeboxQueue, queueCalls, queueForeign>>

\* mutant: a song that MPD refuses counts
JukeboxAddCounting ==
  /\ queueCall.program # <<>> /\ Head(queueCall.program).do = "jukebox"
  /\ LET m == MpdDo(Mpd, AddTo(<<Head(jukeboxQueue)>>, 0, "end"))
         n == queueCall.left - 1 IN
     /\ Becomes(m) /\ jukeboxQueue' = Tail(jukeboxQueue)
     /\ queueCall' = [queueCall EXCEPT !.left = n, !.program = IF n = 0 \/ jukeboxQueue' = <<>> THEN <<>> ELSE @,
                                       !.result = IF n = 0 \/ jukeboxQueue' = <<>> THEN "ok" ELSE "none"]
  /\ UNCHANGED <<known, queueCalls, queueForeign>>

\* jukebox_add_to_queue: the next song of the jukebox goes to the queue, songs
\* that MPD refuses are skipped, at the end MPD is told to play
JukeboxAdd ==
  /\ queueCall.program # <<>> /\ Head(queueCall.program).do = "jukebox"
  /\ LET m == MpdDo(Mpd, AddTo(<<Head(jukeboxQueue)>>, 0, "end"))
         n == IF m.ok THEN queueCall.left - 1 ELSE queueCall.left
         end == n = 0 \/ Len(jukeboxQueue) = 1 IN
     /\ Becomes(m) /\ jukeboxQueue' = Tail(jukeboxQueue)
     /\ queueCall' = [queueCall EXCEPT
          !.left = n,
          !.got = IF m.ok /\ @ = 0 THEN m.new ELSE @,
          !.program = IF ~end THEN @ ELSE IF queueCall.got = 0 /\ ~m.ok THEN <<>> ELSE <<Do("resume", <<>>)>>,
          !.result = IF end /\ queueCall.got = 0 /\ ~m.ok THEN "failed" ELSE "none"]
  /\ UNCHANGED <<known, queueCalls, queueForeign>>

\* another client adds or removes a song, or another song is played
Foreign ==
  /\ queueForeign < QueueForeign /\ queueForeign' = queueForeign + 1
  /\ \/ \E c \in {AddTo(QueueParts["uris"][1], 0, "absolute")} \union {[do |-> "delete", id |-> i] : i \in Ids(queue)} :
          Becomes(MpdDo(Mpd, c)) /\ queueCall' = [queueCall EXCEPT !.alone = FALSE]
     \/ /\ \E i \in Ids(queue) : i # current /\ Becomes(MpdDo(Mpd, [do |-> "play", id |-> i]))
        /\ queueCall' = [queueCall EXCEPT !.alone = FALSE]
  /\ UNCHANGED <<known, jukeboxQueue, queueCalls>>

\* mympd_client_queue_status_update, when MPD has told of changes
StatusUpdate ==
  /\ queueCall.program = <<>> /\ known # queueVersion
  /\ known' = queueVersion
  /\ UNCHANGED <<mpdQueue, jukeboxQueue, queueCall, queueCalls, queueForeign>>

PlayQueueNext == AddRequest \/ IdsRequest \/ CropRequest \/ JukeboxRun \/ Exchange \/ JukeboxAdd \/ Foreign \/ StatusUpdate

PlayQueueSpec == PlayQueueInit /\ [][PlayQueueNext]_queueVars

-----------------------------------------------------------------------------
(* Properties                                                              *)

Finished == queueCall.program = <<>> /\ queueCall.result = "ok"
\* the commands that the handler and MPD understand in the same way: several
\* parts at one position, and uris before the current song, arrive in reverse
InOrder == queueCall.at[2] \in {"absolute", "after", "end"}
           /\ (queueCall.what \in {"playlists", "albums"} => queueCall.at[2] = "end")
Old == IdsOf(queueCall.before)
New == {i \in Ids(queue) : i >= queueCall.first}

\* What was asked for is in the queue as one block and in the order of the
\* request, and an insert or append keeps what was there in its order, when no
\* other client meddles (mympd_api_queue_insert, _append, _replace and the
\* functions for playlists and albums).  The exception: where the API has "Appends
\* the playlist range to the queue" (apidoc.js:558), the queue is replaced by it.
AddsAsAsked ==
  Finished /\ queueCall.op \in {"append", "insert", "replace"} /\ InOrder /\ queueCall.alone =>
    LET block == SelectSeq(queue, LAMBDA e : e.id \in New) IN
    /\ Songs(block) = FlattenSeq(QueueParts[queueCall.what])
    /\ \E i \in 0..Len(queue) : SubSeq(queue, i + 1, i + Len(block)) = block
    /\ Among(IdsOf(queue), ToSet(Old)) =
         IF queueCall.op \in {"append", "insert"} /\ <<queueCall.op, queueCall.what>> # <<"append", "range">>
         THEN Old ELSE <<>>

\* The song that is started is the first of those that were added, when the queue
\* is as the last status said it was (mympd_client_queue_play_newly_inserted).
PlaysFirstAdded ==
  Finished /\ queueCall.play /\ queueCall.alone /\ queueCall.what # "random" =>
    current = (SelectSeq(queue, LAMBDA e : e.id \in New)[1]).id

\* The jukebox adds its first songs that MPD knows, in their order, until the queue
\* is as long as it should be or the jukebox is empty (jukebox_add_to_queue).
JukeboxFills ==
  Finished /\ queueCall.op = "jukebox" /\ queueCall.alone =>
    LET added == SelectSeq(queue, LAMBDA e : e.id \in New)
        used  == SubSeq(queueCall.juke, 1, Len(queueCall.juke) - Len(jukeboxQueue)) IN
    /\ Songs(added) = SelectSeq(used, LAMBDA x : x \notin QueueUnknown)
    /\ added # <<>> => jukeboxQueue = <<>> \/ Len(queue) \in {JukeboxLength, JukeboxLength + 1}

\* The commands that only insert, move or change the priority of songs never stop the
\* current song.
CurrentKept ==
  Finished /\ queueCall.alone /\ queueCall.was # 0 /\ queueCall.op \in {"insert", "prio", "highest", "move"} =>
    queueCall.was \in Ids(queue)

\* Cropping a queue leaves the current song (mympd_api_queue_crop).  The exceptions to
\* "removes all but playing song" (queue.c:696): one song more is left if it is the last
\* of the queue and follows the current one directly, and two songs, one of them playing,
\* are cleared by the command that crops or clears, and left by the other one.
CropLeaves ==
  queueCall.program = <<>> /\ queueCall.op \in {"crop", "crop_or_clear"} /\ queueCall.alone =>
    LET last == Old[Len(Old)]
        Follows(i, j) == \E k \in 2..Len(Old) : Old[k - 1] = i /\ Old[k] = j IN
    \/ /\ queueCall.was # 0 /\ Len(Old) > 2 /\ queueCall.result = "ok" /\ current = queueCall.was
       /\ IdsOf(queue) = <<queueCall.was>> \o IF Follows(queueCall.was, last) THEN <<last>> ELSE <<>>
    \/ /\ queueCall.was = 0 \/ Len(Old) <= 2
       /\ IF queueCall.op = "crop_or_clear" THEN queueCall.result = "ok" /\ queue = <<>>
          ELSE queueCall.result = "failed" /\ queue = queueCall.before

\* The queue is as the commands of a client and the jukebox should leave it.
QueueOK == AddsAsAsked /\ PlaysFirstAdded /\ CurrentKept /\ CropLeaves /\ JukeboxFills
=============================================================================
