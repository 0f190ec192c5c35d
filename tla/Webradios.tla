------------------------------- MODULE Webradios -------------------------------
(***************************************************************************)
(* The webradio favorites and the WebradioDB (lib/webradio.c,              *)
(* mympd_api/webradio*.c, mympd_worker/webradiodb.c).  Each is a tree of   *)
(* radios by name with an index by uri, behind a read-write lock.  The api *)
(* thread writes both, and reads them without the lock, as nobody else     *)
(* writes; the webserver thread takes both read locks to look up the cover *)
(* or the stream of a uri.                                                 *)
(*                                                                         *)
(* A favorite is a piece of memory that holds a name and one uri.  What is *)
(* told apart of the WebradioDB is its version.                            *)
(***************************************************************************)
EXTENDS Naturals, FiniteSets

CONSTANTS
  RadioNames,   \* names, in the order of the tree
  RadioUris,
  RadioMemory,  \* addresses of favorites
  NoRadio,
  DbVersions    \* bound: downloads of the WebradioDB

ASSUME WebradioAssumption ==
  /\ RadioNames \subseteq Nat /\ DbVersions \in Nat
  /\ NoRadio \notin RadioMemory \union 0..DbVersions \union [name : RadioNames, uri : RadioUris]
  /\ RadioMemory \intersect 0..DbVersions = {}

VARIABLES
  favorites,   \* webradio_favorites->db
  favIndex,    \* webradio_favorites->idx_uris
  memory,      \* address -> the favorite there, NoRadio if it is free
  favFile,     \* what the file of the favorites holds
  dbVersion,   \* version of webradiodb, 0 while it is empty
  dbFile,      \* version in its file, 0 if there is none
  download,    \* what the worker does, and the version it downloaded
  downloads,   \* number of downloads so far
  looking,     \* the webserver thread: the lookup and the locks it has
  hand         \* the radio it uses: an address, a version, or NoRadio

favVars   == <<favorites, favIndex, memory, favFile>>
dbVars    == <<dbVersion, dbFile, download, downloads>>
radioVars == <<favVars, dbVars, looking, hand>>

RadiosInit ==
  /\ favorites = [n \in RadioNames |-> NoRadio]
  /\ favIndex = [u \in RadioUris |-> NoRadio]
  /\ memory = [a \in RadioMemory |-> NoRadio] /\ favFile = {}
  /\ dbVersion = 0 /\ dbFile = 0 /\ downloads = 0
  /\ download = [step |-> "none", version |-> 0]
  /\ looking = "no" /\ hand = NoRadio

\* the webserver thread has the read locks
FavoritesRead == looking \in {"favorites", "both", "found"}
DatabaseRead  == looking \in {"both", "found", "database"}

-----------------------------------------------------------------------------
(* Favorites.  A command has the write lock from its start to its end.     *)

\* the trees, and the memory behind them
Favs == [db |-> favorites, idx |-> favIndex, mem |-> memory]

SetFavs(f) == favorites' = f.db /\ favIndex' = f.idx /\ memory' = f.mem

\* mympd_api_webradio_favorite_delete, for one name: the entry of the index
\* goes, whichever favorite it leads to
\* mutant: it stays
FavoriteForget(f, n) ==
  IF f.db[n] = NoRadio THEN f
  ELSE [f EXCEPT !.db[n] = NoRadio, !.mem[f.db[n]] = NoRadio]

FavoriteDelete(f, n) ==
  IF f.db[n] = NoRadio THEN f
  ELSE [f EXCEPT !.db[n] = NoRadio, !.mem[f.db[n]] = NoRadio,
                 !.idx[f.mem[f.db[n]].uri] = NoRadio]

\* raxTryInsert keeps what is there
FavoriteInsert(f, a, n, u) ==
  [f EXCEPT !.db[n] = a, !.mem[a] = [name |-> n, uri |-> u],
            !.idx[u] = IF @ = NoRadio THEN a ELSE @]

\* mutant: without the lock
FavoriteSaveUnlocked(old, n, u) ==
  \E a \in RadioMemory :
    /\ memory[a] = NoRadio
    /\ SetFavs(FavoriteInsert(FavoriteDelete(FavoriteDelete(Favs, old), n), a, n, u))
    /\ UNCHANGED <<favFile, dbVars, looking, hand>>

\* an old name that is the new one, or the name of no favorite, is without
\* effect
FavoriteSave(old, n, u) ==
  /\ ~FavoritesRead
  /\ \E a \in RadioMemory :
       /\ memory[a] = NoRadio
       /\ SetFavs(FavoriteInsert(FavoriteDelete(FavoriteDelete(Favs, old), n), a, n, u))
  /\ UNCHANGED <<favFile, dbVars, looking, hand>>

FavoriteRm(n1, n2) ==
  /\ ~FavoritesRead
  /\ SetFavs(FavoriteDelete(FavoriteDelete(Favs, n1), n2))
  /\ UNCHANGED <<favFile, dbVars, looking, hand>>

\* webradios_save_to_disk, with the rest of the state
FavoritesToDisk ==
  /\ favFile' = {memory[favorites[n]] : n \in {n \in RadioNames : favorites[n] # NoRadio}}
  /\ UNCHANGED <<favorites, favIndex, memory, dbVars, looking, hand>>

-----------------------------------------------------------------------------
(* The WebradioDB                                                          *)

\* mympd_worker_webradiodb_update: a download fails, or its result is saved
\* and handed to the api thread even if the file could not be written
Download ==
  /\ download.step = "none" /\ downloads < DbVersions
  /\ downloads' = downloads + 1
  /\ download' = [step |-> "parsed", version |-> downloads + 1]
  /\ UNCHANGED <<favVars, dbVersion, dbFile, looking, hand>>

DownloadSaved ==
  /\ download.step = "parsed"
  /\ dbFile' \in {dbFile, download.version}
  /\ download' = [download EXCEPT !.step = "sent"]
  /\ UNCHANGED <<favVars, dbVersion, downloads, looking, hand>>

\* INTERNAL_API_WEBRADIODB_CREATED: the old radios are freed and the trees
\* exchanged under the write lock
\* mutant: before it
DbCreatedUnlocked ==
  /\ download.step = "sent"
  /\ dbVersion' = download.version
  /\ download' = [step |-> "none", version |-> 0]
  /\ UNCHANGED <<favVars, dbFile, downloads, looking, hand>>

DbCreated ==
  /\ download.step = "sent" /\ ~DatabaseRead
  /\ dbVersion' = download.version
  /\ download' = [step |-> "none", version |-> 0]
  /\ UNCHANGED <<favVars, dbFile, downloads, looking, hand>>

-----------------------------------------------------------------------------
(* The webserver thread: webserver_webradio_get_cover_uri and _get_extm3u  *)

LookStep(from, to) ==
  /\ looking = from /\ looking' = to /\ UNCHANGED <<favVars, dbVars>>

LockFavorites == LookStep("no", "favorites") /\ UNCHANGED hand
LockDatabase  == LookStep("favorites", "both") /\ UNCHANGED hand

\* webradio_by_uri: the favorites come first
LookUp(u) ==
  /\ LookStep("both", "found")
  /\ IF favIndex[u] # NoRadio THEN hand' = favIndex[u]
     ELSE hand' \in {NoRadio} \union IF dbVersion = 0 THEN {} ELSE {dbVersion}

\* the answer is printed, then the locks are released, favorites first
ReleaseFavorites == LookStep("found", "database") /\ hand' = NoRadio
ReleaseDatabase  == LookStep("database", "no") /\ UNCHANGED hand

-----------------------------------------------------------------------------
\* webradios_read_from_disk: in the order of the names; of several favorites
\* with a uri the index leads to the first.  A file that can not be read, or
\* does not parse to its end, gives no radio at all.
FavoritesRestored(file) ==
  \E place \in [file -> RadioMemory] :
    /\ \A r, s \in file : place[r] = place[s] => r = s
    /\ favorites' = [n \in RadioNames |->
         IF \E r \in file : r.name = n THEN place[CHOOSE r \in file : r.name = n] ELSE NoRadio]
    /\ memory' = [a \in RadioMemory |->
         IF \E r \in file : place[r] = a THEN CHOOSE r \in file : place[r] = a ELSE NoRadio]
    /\ favIndex' = [u \in RadioUris |->
         LET have == {r \in file : r.uri = u} IN
         IF have = {} THEN NoRadio
         ELSE place[CHOOSE r \in have : \A s \in have : r.name <= s.name]]

RadiosRestart ==
  /\ FavoritesRestored(favFile) \/ FavoritesRestored({})
  /\ dbVersion' \in {0, dbFile}
  /\ download' = [step |-> "none", version |-> 0]
  /\ looking' = "no" /\ hand' = NoRadio
  /\ UNCHANGED <<favFile, dbFile, downloads>>

RadiosNext ==
  \/ \E n1, n2 \in RadioNames :
       FavoriteRm(n1, n2) \/ \E u \in RadioUris : FavoriteSave(n1, n2, u)
  \/ FavoritesToDisk \/ Download \/ DownloadSaved \/ DbCreated
  \/ LockFavorites \/ LockDatabase \/ (\E u \in RadioUris : LookUp(u))
  \/ ReleaseFavorites \/ ReleaseDatabase
  \/ RadiosRestart

RadiosSpec == RadiosInit /\ [][RadiosNext]_radioVars

-----------------------------------------------------------------------------
\* The index of the favorites leads to favorites that exist and have the uri:
\* saving, renaming, deleting and restarting leave no entry to freed memory,
\* though favorites may share a uri and a deletion removes the entry of others.
IndexLive ==
  /\ \A u \in RadioUris : favIndex[u] # NoRadio =>
       /\ memory[favIndex[u]] # NoRadio
       /\ memory[favIndex[u]].uri = u
       /\ favorites[memory[favIndex[u]].name] = favIndex[u]
  /\ \A n \in RadioNames : favorites[n] # NoRadio =>
       memory[favorites[n]] # NoRadio /\ memory[favorites[n]].name = n

\* The webserver thread never prints a radio that the api thread freed: a
\* favorite that was saved anew, or the WebradioDB an update replaced.
RadioInHand ==
  hand # NoRadio =>
    IF hand \in RadioMemory THEN memory[hand] # NoRadio ELSE hand = dbVersion

\* Neither thread follows a pointer to a radio that was freed.
RadiosOK == IndexLive /\ RadioInHand
=============================================================================
