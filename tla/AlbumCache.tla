----------------------------- MODULE AlbumCache -----------------------------
(***************************************************************************)
(* The album cache: mympd_worker/album_cache.c folds the songs MPD lists,  *)
(* page by page, into a tree of albums; the api thread swaps it in, the    *)
(* worker writes it to a file that lib/cache/cache_rax_album.c reads at    *)
(* the next start.  An album is stored under the key of its songs; the     *)
(* front end gets the key of the album, computed from the album's own tags *)
(* (lib/album.c).  The library of an MPD may change between two pages, the *)
(* user may connect myMPD to another MPD, the process may end anywhere.    *)
(*                                                                         *)
(* A tag value is a model value.  A key is the text it is hashed from,     *)
(* word by word, and a value may read like others that are joined: one     *)
(* artist "X, Y" and the two artists "X" and "Y" give the same key.        *)
(* AlbumArtist is assumed to be among the enabled tags, MPD to be one of   *)
(* 0.25 or later, which lists albums page by page.  What happens to the    *)
(* tree between threads is in Jobs.                                        *)
(***************************************************************************)
EXTENDS Integers, Sequences, SequencesExt, FiniteSets, Ordered

CONSTANTS
  AlbumSongs,      \* song -> [tags, disc, time, modified, added]
  AlbumLibraries,  \* sequences of songs: what an MPD may list, in its order
  AlbumConfigs,    \* records [mode, group, unknown]: album_mode, album_group_tag, ...
  AlbumReads,      \* a value -> the words it reads, where they are more than itself
  AlbumIds,        \* the values of MBID_LENGTH characters
  AlbumPage,       \* MPD_RESULTS_MAX
  AlbumClock,      \* bound of the seconds
  AlbumUpdates,    \* bound of the database updates and of the changes of the MPD
  NoTree,          \* no cache, no file
  AlbumFaults      \* bound of the failing commands, failing writes and restarts

MultiTags == {"Artist", "AlbumArtist", "Genre"}     \* is_multivalue_tag
AlbumTags == MultiTags \cup {"Album", "Date", "MbId"}
NoTag == "none"                                     \* MPD_TAG_UNKNOWN, a missing value
UnknownAlbum == "unknown"
Hosts == {"first", "second"}

VARIABLES
  mpds,       \* host -> [songs, mtime]: the libraries
  albumHost,       \* the MPD of the settings
  albumConf,  \* config->albums
  album,      \* the api thread: [tree, mtime, building, timer]
  albumEvent, \* MPD has an idle event "database" for the api thread
  results,    \* INTERNAL_API_ALBUMCACHE_* on their way to the api thread
  builder,    \* the worker that reads: [at, host, force, start, seen, tree, lib, clean]
  writers,    \* the trees that workers still have to write to the file
  cacheFile,  \* the album cache file: [tree, conf, mtime] or NoTree
  albumTime,  \* seconds
  albumLeft   \* [updates, faults]

\* the names and values that tags have
AlbumNames == UNION {ToSet(AlbumSongs[s].tags[t]) : s \in DOMAIN AlbumSongs, t \in AlbumTags}

ASSUME AlbumAssumption ==
  /\ \A s \in DOMAIN AlbumSongs :
       AlbumSongs[s] \in [tags : [AlbumTags -> Seq(AlbumNames)], disc : Nat, time : Nat,
                          modified : Nat, added : Nat]
  /\ NoTag \notin AlbumNames /\ AlbumLibraries \subseteq Seq(DOMAIN AlbumSongs)
  /\ AlbumConfigs \subseteq [mode : {"adv", "simple"}, unknown : BOOLEAN, group : {NoTag} \cup AlbumTags]
  /\ AlbumPage \in Nat \ {0}

albumVars == <<mpds, albumHost, albumConf, album, albumEvent, results, builder, writers,
               cacheFile, albumTime, albumLeft>>

-----------------------------------------------------------------------------
(* Keys *)

FirstOf(values) == IF values = <<>> THEN NoTag ELSE Head(values)

\* the artists, the name and the group that make a key
ArtistsOf(tags) == IF tags["AlbumArtist"] # <<>> THEN tags["AlbumArtist"] ELSE tags["Artist"]
NameOf(tags, conf) ==
  IF tags["Album"] # <<>> THEN Head(tags["Album"]) ELSE IF conf.unknown THEN UnknownAlbum ELSE NoTag
GroupOf(tags, conf) == IF conf.group = NoTag THEN NoTag ELSE FirstOf(tags[conf.group])

\* The text of a key: the artists joined with ", ", the name and the group behind "::"
WordsOf(value) == IF value \in DOMAIN AlbumReads THEN AlbumReads[value] ELSE <<value>>
ArtistText(values) ==
  LET upto[n \in 0..Len(values)] ==
        IF n = 0 THEN <<>>
        ELSE upto[n - 1] \o (IF n = 1 THEN <<>> ELSE <<", ">>) \o WordsOf(values[n])
  IN  upto[Len(values)]
KeyText(artists, name, group) ==
  ArtistText(artists) \o <<"::">> \o WordsOf(name) \o (IF group = NoTag THEN <<>> ELSE <<"::">> \o WordsOf(group))

\* album_cache_get_key_from_song; the key of an album is the same function of its tags
HasId(tags) == tags["MbId"] # <<>> /\ Head(tags["MbId"]) \in AlbumIds
KeyOf(tags, conf) ==
  IF conf.mode = "adv" /\ HasId(tags) THEN <<"id", Head(tags["MbId"])>>
  ELSE IF ArtistsOf(tags) = <<>> \/ NameOf(tags, conf) = NoTag THEN <<>>
  ELSE <<"hash", KeyText(ArtistsOf(tags), NameOf(tags, conf), GroupOf(tags, conf))>>

SongKey(s, conf) == KeyOf(AlbumSongs[s].tags, conf)
AlbumKey(a, conf) == KeyOf(a.tags, conf)              \* album_cache_get_key_from_album

-----------------------------------------------------------------------------
(* Albums *)

AppendTagAlways(values, value) == Append(values, value)
AppendTag(values, value) ==
  IF \E i \in DOMAIN values : values[i] = value THEN values ELSE Append(values, value)

AppendTags(values, more) ==
  LET after[n \in 0..Len(more)] == IF n = 0 THEN values ELSE AppendTag(after[n - 1], more[n])
  IN  after[Len(more)]

\* album_copy_tags: AlbumArtist is that of the filters of MPD
CopyTags(tags) ==
  IF tags["AlbumArtist"] = <<>> THEN [tags EXCEPT !["AlbumArtist"] = tags["Artist"]] ELSE tags

\* The first song of an album; its disc does not count (tag_disc_empty_is_first is off).
\* songs is a history variable: the songs that were folded into the album.
NewAlbum(s, conf) ==
  LET song == AlbumSongs[s]
      unknown == song.tags["Album"] = <<>>
      tags == [t \in AlbumTags |-> AppendTags(<<>>, song.tags[t])]
      named == IF conf.unknown /\ unknown THEN [tags EXCEPT !["Album"] = <<UnknownAlbum>>] ELSE tags
  IN [tags |-> CopyTags(named), songs |-> {s}, unknown |-> unknown, discs |-> 0, count |-> 1,
      time |-> song.time, modified |-> song.modified, added |-> song.added]

\* A later song
LastModified(old, new) == IF old < new THEN new ELSE old
Added(old, new) == IF old > new \/ old = 0 THEN new ELSE old
Discs(old, new) == IF new > old THEN new ELSE old
AppendMulti(tags, more) ==
  [t \in AlbumTags |-> IF t \in MultiTags THEN AppendTags(tags[t], more[t]) ELSE tags[t]]
AddSong(a, s) ==
  LET song == AlbumSongs[s]
  IN [tags |-> AppendMulti(a.tags, song.tags), songs |-> a.songs \cup {s}, unknown |-> a.unknown,
      discs |-> Discs(a.discs, song.disc), count |-> a.count + 1, time |-> a.time + song.time,
      modified |-> LastModified(a.modified, song.modified), added |-> Added(a.added, song.added)]

Fold(tree, s, conf) ==
  LET key == SongKey(s, conf)
  IN IF key = <<>> THEN tree
     ELSE [k \in DOMAIN tree \cup {key} |->
             CASE k # key -> tree[k]
               [] k = key /\ key \in DOMAIN tree -> AddSong(tree[key], s)
               [] k = key /\ key \notin DOMAIN tree -> NewAlbum(s, conf)]

\* The search of the advanced mode: MPD falls back from AlbumArtist to Artist
Listed(lib, conf) ==
  EntriesAt(lib, {i \in DOMAIN lib :
    LET tags == AlbumSongs[lib[i]].tags
    IN /\ tags["AlbumArtist"] # <<>> \/ tags["Artist"] # <<>>
       /\ conf.unknown \/ tags["Album"] # <<>>})

\* The simple mode: MPD lists each album with each of its artists once.  It sends an artist
\* with every album, or once before the albums that have it.
Pair(artist, s, conf) ==
  [artist |-> artist, name |-> FirstOf(AlbumSongs[s].tags["Album"]), group |-> GroupOf(AlbumSongs[s].tags, conf)]
Pairs(lib, conf) ==
  SetToSeq({Pair(x[1], x[2], conf) :
    x \in UNION {{<<a, s>> : a \in ToSet(ArtistsOf(AlbumSongs[s].tags))} : s \in ToSet(lib)}})
Repeats(page, n, once) == once /\ n > 1 /\ page[n - 1].artist = page[n].artist
PairLines(page, once, conf) ==
  LET fresh == {n \in 1..Len(page) : ~Repeats(page, n, once)}
      grouped == {n \in 1..Len(page) : n \in fresh \/ page[n - 1].group # page[n].group}
  IN Len(page) + Cardinality(fresh) + (IF conf.group = NoTag THEN 0 ELSE Cardinality(grouped))

\* The artist is cleared with every album that is taken: the next one needs its own
ArtistKnown(page, n, once) ==
  \E m \in 1..n : ~Repeats(page, m, once) /\ \A j \in m..(n - 1) : page[j].name = NoTag
PairTags(pair, conf) ==
  LET tags == [t \in AlbumTags |-> CASE t \in {"Artist", "AlbumArtist"} -> <<pair.artist>>
                                    [] t = "Album" -> <<pair.name>>
                                    [] OTHER -> <<>>]
  IN IF pair.group = NoTag THEN tags ELSE [tags EXCEPT ![conf.group] = AppendTag(@, pair.group)]
InsertAlbum(tree, tags, conf) ==
  LET key == KeyOf(tags, conf)
  IN IF key \in DOMAIN tree THEN tree
     ELSE [k \in DOMAIN tree \cup {key} |->
             IF k # key THEN tree[k]
             ELSE [tags |-> tags, songs |-> {}, unknown |-> FALSE, discs |-> 0, count |-> 0,
                   time |-> 0, modified |-> 0, added |-> 0]]
InsertPair(tree, page, n, once, conf) ==
  IF page[n].name = NoTag \/ ~ArtistKnown(page, n, once) THEN tree
  ELSE InsertAlbum(tree, PairTags(page[n], conf), conf)

-----------------------------------------------------------------------------
(* The file *)

\* album_from_mpack_node: what is read back of an album
Restored(a, conf) == [a EXCEPT !.unknown = @ /\ conf.unknown]

\* album_cache_read: a file of another configuration is removed
SameConfigMode(file, conf) == file # NoTree /\ file.conf.mode = conf.mode
SameConfig(file, conf) == file # NoTree /\ file.conf = conf
FileTree(conf) ==
  IF SameConfig(cacheFile, conf)
  THEN [k \in DOMAIN cacheFile.tree |-> Restored(cacheFile.tree[k], conf)] ELSE NoTree
FileTime == IF cacheFile = NoTree THEN 0 ELSE cacheFile.mtime

NoBuild == [at |-> "none", host |-> "first", force |-> FALSE, start |-> 0, seen |-> 0,
            tree |-> <<>>, lib |-> <<>>, clean |-> TRUE]

AlbumInit ==
  /\ \E lib \in AlbumLibraries : mpds = [h \in Hosts |-> [songs |-> lib, mtime |-> 1]]
  /\ albumHost = "first" /\ albumConf \in AlbumConfigs
  /\ album = [tree |-> NoTree, mtime |-> 0, building |-> FALSE, timer |-> TRUE]
  /\ albumEvent = FALSE /\ results = <<>> /\ builder = NoBuild
  /\ writers = {} /\ cacheFile = NoTree
  /\ albumTime = 1 /\ albumLeft = [updates |-> AlbumUpdates, faults |-> AlbumFaults]

-----------------------------------------------------------------------------
(* The api thread *)

\* mympd_client_parse_idle
DatabaseEvent ==
  /\ albumEvent /\ albumEvent' = FALSE
  /\ album' = [album EXCEPT !.timer = TRUE]
  /\ UNCHANGED <<mpds, albumHost, albumConf, results, builder, writers, cacheFile, albumTime, albumLeft>>

\* MYMPD_API_CACHES_CREATE: refused while a cache is built
CreateRequest(force) ==
  IF album.building THEN UNCHANGED <<builder>> /\ album' = [album EXCEPT !.timer = @ /\ ~force]
  ELSE /\ album' = [album EXCEPT !.building = TRUE, !.timer = @ /\ ~force]
       /\ builder' = [NoBuild EXCEPT !.at = "check", !.host = albumHost, !.force = force]
CreateCache ==
  /\ \/ album.timer /\ CreateRequest(TRUE)
     \/ CreateRequest(FALSE)
  /\ UNCHANGED <<mpds, albumHost, albumConf, albumEvent, results, writers, cacheFile, albumTime, albumLeft>>

\* INTERNAL_API_ALBUMCACHE_CREATED, _SKIPPED and _ERROR
CacheResult ==
  /\ results # <<>> /\ results' = Tail(results)
  /\ album' = IF Head(results).tree = NoTree THEN [album EXCEPT !.building = FALSE]
              ELSE [album EXCEPT !.building = FALSE, !.tree = Head(results).tree, !.mtime = albumTime]
  /\ UNCHANGED <<mpds, albumHost, albumConf, albumEvent, builder, writers, cacheFile, albumTime, albumLeft>>

\* partitions_connect: the timer is set if the library is newer than the cache
Connected(mtime) == [album EXCEPT !.timer = @ \/ mpds[albumHost'].mtime > mtime]

\* MYMPD_API_CONNECTION_SAVE with another MPD: the file is removed, the cache is not
OtherMpd ==
  /\ albumLeft.updates > 0 /\ albumLeft' = [albumLeft EXCEPT !.updates = @ - 1]
  /\ albumHost' \in Hosts \ {albumHost} /\ albumEvent' = FALSE /\ cacheFile' = NoTree
  /\ album' = Connected(album.mtime)
  /\ UNCHANGED <<mpds, albumConf, results, builder, writers, albumTime>>

\* The process ends at any point; album_cache_read at the next start, which takes the time
\* of the file before it looks at the configuration the file was written under
AlbumRestart ==
  /\ albumLeft.faults > 0 /\ albumLeft' = [albumLeft EXCEPT !.faults = @ - 1]
  /\ albumConf' \in AlbumConfigs /\ albumEvent' = FALSE /\ results' = <<>> /\ builder' = NoBuild /\ writers' = {}
  /\ LET read == FileTree(albumConf')
     IN /\ album' = [tree |-> read, mtime |-> FileTime, building |-> FALSE,
                     timer |-> mpds[albumHost].mtime > FileTime]
        /\ cacheFile' = IF read = NoTree THEN NoTree ELSE cacheFile
  /\ UNCHANGED <<mpds, albumHost, albumTime>>

-----------------------------------------------------------------------------
(* The worker *)

Result(tree) == Append(results, [tree |-> tree, lib |-> builder.lib, conf |-> albumConf,
                                 clean |-> builder.clean])

\* mympd_worker_album_cache_create: is the file newer than the library?
CheckCache ==
  /\ builder.at = "check"
  /\ LET upToDate == ~builder.force /\ mpds[builder.host].mtime < FileTime
     IN \/ /\ upToDate /\ builder' = NoBuild /\ results' = Result(NoTree)
        \/ /\ ~upToDate /\ UNCHANGED results
           /\ builder' = [builder EXCEPT !.at = "page", !.lib = mpds[builder.host].songs]
  /\ UNCHANGED <<mpds, albumHost, albumConf, album, albumEvent, writers, cacheFile, albumTime, albumLeft>>

\* One page of at most AlbumPage entries; done when it did not reach the next page
NextStartLate(start) == start + AlbumPage + 1
NextStart(start) == start + AlbumPage
\* the tree with the entries of a page
Folded(tree, page, once) ==
  LET after[n \in 0..Len(page)] ==
        IF n = 0 THEN tree
        ELSE IF albumConf.mode = "adv" THEN Fold(after[n - 1], page[n], albumConf)
        ELSE InsertPair(after[n - 1], page, n, once, albumConf)
  IN  after[Len(page)]
\* songs are counted, or the lines of the albums
Counted(page, once) == IF albumConf.mode = "adv" THEN Len(page) ELSE PairLines(page, once, albumConf)
ReadPage(list, once) ==
  LET end == builder.start + AlbumPage
      page == SubSeq(list, builder.start + 1, IF end < Len(list) THEN end ELSE Len(list))
      seen == builder.seen + Counted(page, once)
      start == NextStart(builder.start)
      tree == Folded(builder.tree, page, once)
  IN IF seen >= start
     THEN builder' = [builder EXCEPT !.start = start, !.seen = seen, !.tree = tree] /\ UNCHANGED <<results, writers>>
     ELSE builder' = NoBuild /\ results' = Result(tree) /\ writers' = writers \cup {tree}
CacheSongs == albumConf.mode = "adv" /\ ReadPage(Listed(mpds[builder.host].songs, albumConf), FALSE)
CacheSimple ==
  /\ albumConf.mode = "simple"
  /\ \E once \in BOOLEAN : ReadPage(Pairs(mpds[builder.host].songs, albumConf), once)
ReadAlbums ==
  /\ builder.at = "page" /\ (CacheSongs \/ CacheSimple)
  /\ UNCHANGED <<mpds, albumHost, albumConf, album, albumEvent, cacheFile, albumTime, albumLeft>>

ReadFails ==
  /\ builder.at \in {"check", "page"}
  /\ albumLeft.faults > 0 /\ albumLeft' = [albumLeft EXCEPT !.faults = @ - 1]
  /\ builder' = NoBuild /\ results' = Result(NoTree)
  /\ UNCHANGED <<mpds, albumHost, albumConf, album, albumEvent, writers, cacheFile, albumTime>>

\* album_cache_write: a temporary file, then rename
WriteCache ==
  /\ \E tree \in writers :
       /\ writers' = writers \ {tree}
       /\ \/ /\ cacheFile' = [tree |-> tree, conf |-> albumConf, mtime |-> albumTime]
             /\ UNCHANGED albumLeft
          \/ /\ albumLeft.faults > 0 /\ albumLeft' = [albumLeft EXCEPT !.faults = @ - 1]
             /\ UNCHANGED cacheFile
  /\ UNCHANGED <<mpds, albumHost, albumConf, album, albumEvent, results, builder, albumTime>>

-----------------------------------------------------------------------------
(* MPD *)

UpdateDatabase ==
  /\ albumLeft.updates > 0 /\ albumLeft' = [albumLeft EXCEPT !.updates = @ - 1]
  /\ \E lib \in AlbumLibraries \ {mpds[albumHost].songs} :
       mpds' = [mpds EXCEPT ![albumHost] = [songs |-> lib, mtime |-> albumTime]]
  /\ albumEvent' = TRUE
  /\ builder' = [builder EXCEPT !.clean = @ /\ (builder.at # "page" \/ builder.host # albumHost)]
  /\ UNCHANGED <<albumHost, albumConf, album, results, writers, cacheFile, albumTime>>

Second ==
  /\ albumTime < AlbumClock /\ albumTime' = albumTime + 1
  /\ UNCHANGED <<mpds, albumHost, albumConf, album, albumEvent, results, builder, writers, cacheFile, albumLeft>>

AlbumNext ==
  \/ DatabaseEvent \/ CreateCache \/ CacheResult \/ OtherMpd \/ AlbumRestart
  \/ CheckCache \/ ReadAlbums \/ ReadFails \/ WriteCache
  \/ UpdateDatabase \/ Second

AlbumSpec == AlbumInit /\ [][AlbumNext]_albumVars

-----------------------------------------------------------------------------
(* Properties *)

\* Songs whose album keeps their key: the key is made of the same artists, name and group
\* for each of them, no artist is named twice, and the group is not a tag that a song lacks
\* and its album has.
KeyParts(s, conf) ==
  LET tags == AlbumSongs[s].tags IN <<ArtistsOf(tags), NameOf(tags, conf), GroupOf(tags, conf)>>
KeepsKey(s, conf) ==
  LET tags == AlbumSongs[s].tags
  IN IsInjective(ArtistsOf(tags)) /\ (conf.group \in {"Album", "AlbumArtist"} => tags[conf.group] # <<>>)
KeepKey(songs, conf) ==
  \A s \in songs : KeepsKey(s, conf) /\ \A other \in songs : KeyParts(other, conf) = KeyParts(s, conf)

\* The key the front end gets with an album (computed from the album's tags, album.c:531)
\* finds that album in the cache, whatever songs were folded into it, in which order,
\* and whatever configuration the file of the last run was written under.  An album without
\* a MusicBrainz id is excepted if its songs do not keep the key: their tags differ and
\* only read the same ("X" and "Y" or "X, Y"), so that the album collects the tags of all.
AlbumKeys ==
  album.tree # NoTree => \A k \in DOMAIN album.tree :
    LET a == album.tree[k]
    IN AlbumKey(a, albumConf) = k \/ (~HasId(a.tags) /\ ~KeepKey(a.songs, albumConf))

\* The songs of a list up to a position that have a key, and how long they play.
OfKey(songs, n, k, conf) == {i \in 1..n : SongKey(songs[i], conf) = k}
TimeOf(songs, n, k, conf) ==
  LET upto[i \in 0..Len(songs)] ==
        IF i = 0 THEN 0
        ELSE IF SongKey(songs[i], conf) = k THEN upto[i - 1] + AlbumSongs[songs[i]].time
        ELSE upto[i - 1]
  IN  upto[n]
\* An album is that of the songs that have its key: it has their number, their whole length,
\* the latest modification, the oldest date if all have one, all their artists and genres.
AlbumOf(a, songs, n, k, conf) ==
  LET of == OfKey(songs, n, k, conf)
  IN /\ a.count = Cardinality(of)
     /\ a.time = TimeOf(songs, n, k, conf)
     /\ \A i \in of : a.modified >= AlbumSongs[songs[i]].modified
     /\ \E i \in of : a.modified = AlbumSongs[songs[i]].modified
     /\ (\A i \in of : AlbumSongs[songs[i]].added # 0) =>
          /\ \A i \in of : a.added <= AlbumSongs[songs[i]].added
          /\ \E i \in of : a.added = AlbumSongs[songs[i]].added
     /\ \A t \in {"Artist", "Genre"} :
          ToSet(a.tags[t]) = UNION {ToSet(AlbumSongs[songs[i]].tags[t]) : i \in of}
CompleteUpto(tree, songs, n, conf) ==
  /\ DOMAIN tree = {SongKey(songs[i], conf) : i \in 1..n} \ {<<>>}
  /\ \A k \in DOMAIN tree : AlbumOf(tree[k], songs, n, k, conf)
Complete(tree, lib, conf) ==
  LET songs == Listed(lib, conf) IN CompleteUpto(tree, songs, Len(songs), conf)
\* If the library did not change while it was read, the cache has one album per key of its
\* songs, and it is the album of them, wherever the pages end.
AlbumsComplete ==
  \A i \in DOMAIN results : LET r == results[i] IN
    r.tree # NoTree /\ r.clean /\ r.conf.mode = "adv" => Complete(r.tree, r.lib, r.conf)

\* When nothing is pending and nothing failed, the cache is that of the library MPD has now:
\* it is created "on each database refresh" (docs/080-known-issues.rst:10).  Only the MPD of
\* the start is meant here: with another one the cache is kept as well.
AlbumQuiet == ~albumEvent /\ ~album.timer /\ ~album.building /\ results = <<>>
CacheCurrent ==
  AlbumQuiet /\ album.tree # NoTree /\ albumConf.mode = "adv" /\ albumLeft.faults = AlbumFaults
    /\ albumHost = "first" =>
    DOMAIN album.tree = {SongKey(s, albumConf) : s \in ToSet(Listed(mpds[albumHost].songs, albumConf))} \ {<<>>}

\* The album cache finds an album by its key and has every album.
AlbumsOK == AlbumKeys /\ AlbumsComplete
=============================================================================
