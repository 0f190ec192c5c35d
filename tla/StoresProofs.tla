------------------------------ MODULE StoresProofs ------------------------------
(***************************************************************************)
(* Theorems about the stores, for every value of their constants: the      *)
(* webradio favorites and their database (RadiosCorrect), the connection   *)
(* to the stickers (StickersCorrect), the sessions (SessionsCorrect), the  *)
(* triggers (TriggersCorrect), the scripts, their workers and variables    *)
(* (ScriptsCorrect), the files (FilesStayWhole), the random selection      *)
(* (SelectionCorrect), the pages of lists (PagesCorrect), the settings     *)
(* (SettingsCorrect) and the album cache (AlbumsCorrect).  The last part   *)
(* has the theorems of the composition (SettingsSoundHolds, PartsCorrect). *)
(***************************************************************************)
EXTENDS Stores, OrderedProofs

-----------------------------------------------------------------------------
(* The webradios: RadiosOK for any names, uris, pieces of memory and        *)
(* downloads.                                                              *)

Radio == [name : RadioNames, uri : RadioUris]

\* the trees of the favorites, and the memory behind them
FavTrees == [db  : [RadioNames -> RadioMemory \union {NoRadio}],
             idx : [RadioUris -> RadioMemory \union {NoRadio}],
             mem : [RadioMemory -> Radio \union {NoRadio}]]

\* IndexLive of such trees
Live(f) ==
  /\ \A u \in RadioUris : f.idx[u] # NoRadio =>
       /\ f.mem[f.idx[u]] # NoRadio
       /\ f.mem[f.idx[u]].uri = u
       /\ f.db[f.mem[f.idx[u]].name] = f.idx[u]
  /\ \A n \in RadioNames : f.db[n] # NoRadio =>
       f.mem[f.db[n]] # NoRadio /\ f.mem[f.db[n]].name = n

NamesDiffer(file) == \A r, s \in file : r.name = s.name => r = s

\* The inductive invariant.  A radio is in the hand of the webserver thread
\* only while it has both locks, under which nothing is freed.
RadioInv ==
  /\ Favs \in FavTrees /\ Live(Favs)
  /\ favFile \subseteq Radio /\ NamesDiffer(favFile)
  /\ dbVersion \in 0..DbVersions /\ dbFile \in 0..DbVersions /\ downloads \in 0..DbVersions
  /\ download.step # "none" => download.version \in 0..DbVersions
  /\ download = [step |-> download.step, version |-> download.version]
  /\ looking \in {"no", "favorites", "both", "found", "database"}
  /\ hand # NoRadio => looking = "found"
  /\ hand # NoRadio => IF hand \in RadioMemory THEN memory[hand] # NoRadio ELSE hand = dbVersion

(* NoRadio is neither a piece of memory nor a radio.                       *)
LEMMA Distinct ==
  /\ RadioNames \subseteq Nat /\ DbVersions \in Nat
  /\ NoRadio \notin RadioMemory /\ NoRadio \notin 0..DbVersions /\ NoRadio \notin Radio
  /\ RadioMemory \intersect 0..DbVersions = {}
BY WebradioAssumption DEF Radio

(* The deletion of a favorite leaves no way to it, though another may have  *)
(* its uri.                                                                *)
LEMMA DeleteKeeps ==
  ASSUME NEW f \in FavTrees, Live(f), NEW n \in RadioNames
  PROVE  /\ FavoriteDelete(f, n) \in FavTrees /\ Live(FavoriteDelete(f, n))
         /\ FavoriteDelete(f, n).db[n] = NoRadio
         /\ \A m \in RadioNames : f.db[m] = NoRadio => FavoriteDelete(f, n).db[m] = NoRadio
         /\ \A a \in RadioMemory : f.mem[a] = NoRadio => FavoriteDelete(f, n).mem[a] = NoRadio
<1>1. CASE f.db[n] = NoRadio
  BY <1>1 DEF FavoriteDelete
<1>2. CASE f.db[n] # NoRadio
  <2> DEFINE a == f.db[n]
             u == f.mem[a].uri
             g == FavoriteDelete(f, n)
  <2>1. a \in RadioMemory /\ f.mem[a] \in Radio /\ u \in RadioUris /\ f.mem[a].name = n
    BY <1>2 DEF FavTrees, Live, Radio
  <2>2. /\ g.db = [f.db EXCEPT ![n] = NoRadio]
        /\ g.mem = [f.mem EXCEPT ![a] = NoRadio]
        /\ g.idx = [f.idx EXCEPT ![u] = NoRadio]
        /\ g = [db |-> g.db, idx |-> g.idx, mem |-> g.mem]
    BY <1>2 DEF FavoriteDelete, FavTrees
  <2>3. g \in FavTrees
    BY <2>1, <2>2 DEF FavTrees
  <2>4. ASSUME NEW v \in RadioUris, g.idx[v] # NoRadio
        PROVE  /\ g.mem[g.idx[v]] # NoRadio
               /\ g.mem[g.idx[v]].uri = v
               /\ g.db[g.mem[g.idx[v]].name] = g.idx[v]
    <3>1. v # u /\ g.idx[v] = f.idx[v]
      BY <2>1, <2>2, <2>4 DEF FavTrees
    <3>2. /\ f.mem[f.idx[v]] # NoRadio /\ f.mem[f.idx[v]].uri = v
          /\ f.db[f.mem[f.idx[v]].name] = f.idx[v]
      BY <2>4, <3>1 DEF Live
    <3>3. f.idx[v] # a /\ f.idx[v] \in RadioMemory
      BY <2>4, <3>1, <3>2 DEF FavTrees
    <3>4. g.mem[f.idx[v]] = f.mem[f.idx[v]] /\ f.mem[f.idx[v]] \in Radio
      BY <2>1, <2>2, <3>2, <3>3 DEF FavTrees
    <3>5. f.mem[f.idx[v]].name \in RadioNames /\ f.mem[f.idx[v]].name # n
      BY <3>2, <3>3, <3>4 DEF Radio
    <3>6. g.db[f.mem[f.idx[v]].name] = f.idx[v]
      BY <2>2, <3>2, <3>5 DEF FavTrees
    <3>7. QED
      BY <3>1, <3>2, <3>4, <3>6
  <2>5. ASSUME NEW m \in RadioNames, g.db[m] # NoRadio
        PROVE  g.mem[g.db[m]] # NoRadio /\ g.mem[g.db[m]].name = m
    <3>1. m # n /\ g.db[m] = f.db[m]
      BY <2>2, <2>5 DEF FavTrees
    <3>2. f.mem[f.db[m]] # NoRadio /\ f.mem[f.db[m]].name = m /\ f.db[m] \in RadioMemory
      BY <2>5, <3>1 DEF Live, FavTrees
    <3>3. f.db[m] # a
      BY <2>1, <3>1, <3>2
    <3>4. QED
      BY <2>2, <3>1, <3>2, <3>3 DEF FavTrees
  <2>6. g.db[n] = NoRadio /\ \A m \in RadioNames : f.db[m] = NoRadio => g.db[m] = NoRadio
    BY <2>2 DEF FavTrees
  <2>7. \A b \in RadioMemory : f.mem[b] = NoRadio => g.mem[b] = NoRadio
    BY <2>2 DEF FavTrees
  <2> HIDE DEF g
  <2>8. Live(g)
    BY <2>4, <2>5 DEF Live
  <2>9. QED
    BY <2>3, <2>6, <2>7, <2>8 DEF g
<1>3. QED
  BY <1>1, <1>2

(* A new favorite gets a piece of memory that is free.                     *)
LEMMA InsertKeeps ==
  ASSUME NEW f \in FavTrees, Live(f), NEW n \in RadioNames, NEW u \in RadioUris,
         NEW a \in RadioMemory, f.mem[a] = NoRadio, f.db[n] = NoRadio
  PROVE  FavoriteInsert(f, a, n, u) \in FavTrees /\ Live(FavoriteInsert(f, a, n, u))
<1> DEFINE g == FavoriteInsert(f, a, n, u)
           r == [name |-> n, uri |-> u]
<1>1. /\ g.db = [f.db EXCEPT ![n] = a]
      /\ g.mem = [f.mem EXCEPT ![a] = r]
      /\ g.idx = [f.idx EXCEPT ![u] = IF f.idx[u] = NoRadio THEN a ELSE f.idx[u]]
      /\ g = [db |-> g.db, idx |-> g.idx, mem |-> g.mem]
  <2>1. f = [db |-> f.db, idx |-> f.idx, mem |-> f.mem]
    BY DEF FavTrees
  <2> DEFINE x == IF f.idx[u] = NoRadio THEN a ELSE f.idx[u]
  <2>2. g = [f EXCEPT !.db[n] = a, !.mem[a] = r, !.idx[u] = x]
    BY DEF FavoriteInsert
  <2> HIDE DEF x, r, g
  <2>3. /\ g.db = [f.db EXCEPT ![n] = a] /\ g.mem = [f.mem EXCEPT ![a] = r]
        /\ g.idx = [f.idx EXCEPT ![u] = x] /\ g = [db |-> g.db, idx |-> g.idx, mem |-> g.mem]
    BY <2>1, <2>2
  <2>4. QED
    BY <2>3 DEF x
<1>2. r \in Radio /\ r.name = n /\ r.uri = u /\ r # NoRadio /\ a # NoRadio
  BY Distinct DEF Radio
<1> HIDE DEF r, g
<1>3. g \in FavTrees
  BY <1>1, <1>2 DEF FavTrees
<1>4. \A m \in RadioNames : f.db[m] # a
  BY <1>2 DEF Live
<1>5. \A v \in RadioUris : f.idx[v] # a
  BY <1>2 DEF Live
<1>6. ASSUME NEW v \in RadioUris, g.idx[v] # NoRadio
      PROVE  /\ g.mem[g.idx[v]] # NoRadio
             /\ g.mem[g.idx[v]].uri = v
             /\ g.db[g.mem[g.idx[v]].name] = g.idx[v]
  <2>1. CASE v = u /\ f.idx[u] = NoRadio
    BY <1>1, <1>2, <2>1 DEF FavTrees
  <2>2. CASE ~(v = u /\ f.idx[u] = NoRadio)
    <3>1. g.idx[v] = f.idx[v]
      BY <1>1, <2>2 DEF FavTrees
    <3>2. /\ f.mem[f.idx[v]] # NoRadio /\ f.mem[f.idx[v]].uri = v
          /\ f.db[f.mem[f.idx[v]].name] = f.idx[v] /\ f.idx[v] \in RadioMemory
      BY <1>6, <3>1 DEF Live, FavTrees
    <3>3. g.mem[f.idx[v]] = f.mem[f.idx[v]] /\ f.mem[f.idx[v]] \in Radio
      BY <1>1, <1>5, <3>2 DEF FavTrees
    <3>4. f.mem[f.idx[v]].name \in RadioNames /\ f.mem[f.idx[v]].name # n
      BY <3>2, <3>3, <1>6, <3>1 DEF Radio
    <3>5. g.db[f.mem[f.idx[v]].name] = f.idx[v]
      BY <1>1, <3>2, <3>4 DEF FavTrees
    <3>6. QED
      BY <3>1, <3>2, <3>3, <3>5
  <2>3. QED
    BY <2>1, <2>2
<1>7. ASSUME NEW m \in RadioNames, g.db[m] # NoRadio
      PROVE  g.mem[g.db[m]] # NoRadio /\ g.mem[g.db[m]].name = m
  <2>1. CASE m = n
    BY <1>1, <1>2, <2>1 DEF FavTrees
  <2>2. CASE m # n
    <3>1. g.db[m] = f.db[m] /\ f.db[m] # a
      BY <1>1, <1>4, <2>2 DEF FavTrees
    <3>2. f.mem[f.db[m]] # NoRadio /\ f.mem[f.db[m]].name = m /\ f.db[m] \in RadioMemory
      BY <1>7, <3>1 DEF Live, FavTrees
    <3>3. QED
      BY <1>1, <3>1, <3>2 DEF FavTrees
  <2>3. QED
    BY <2>1, <2>2
<1>8. Live(g)
  BY <1>6, <1>7 DEF Live
<1>9. QED
  BY <1>3, <1>8 DEF g

-----------------------------------------------------------------------------
(* The steps.                                                              *)

\* what the commands on favorites leave alone
OthersSame == UNCHANGED <<favFile, dbVars, looking, hand>>

(* A command on favorites has the write lock: nothing is in the hand.      *)
LEMMA CommandKeeps ==
  ASSUME RadioInv, NEW f, f \in FavTrees, Live(f), ~FavoritesRead, SetFavs(f), OthersSame
  PROVE  RadioInv'
<1>1. Favs' = f
  BY DEF SetFavs, Favs, FavTrees
<1>2. hand' = NoRadio
  BY DEF RadioInv, FavoritesRead, OthersSame
<1>3. QED
  BY <1>1, <1>2 DEF RadioInv, OthersSame, dbVars, FavTrees, Live

LEMMA SaveKeeps ==
  ASSUME RadioInv, NEW old \in RadioNames, NEW n \in RadioNames, NEW u \in RadioUris,
         FavoriteSave(old, n, u)
  PROVE  RadioInv'
<1>1. PICK a \in RadioMemory :
        /\ memory[a] = NoRadio
        /\ SetFavs(FavoriteInsert(FavoriteDelete(FavoriteDelete(Favs, old), n), a, n, u))
  BY DEF FavoriteSave
<1> DEFINE f == FavoriteDelete(Favs, old)
           g == FavoriteDelete(f, n)
           h == FavoriteInsert(g, a, n, u)
<1>2. Favs \in FavTrees /\ Live(Favs) /\ Favs.mem[a] = NoRadio
  BY <1>1 DEF RadioInv, Favs
<1>3. f \in FavTrees /\ Live(f) /\ f.mem[a] = NoRadio
  BY <1>2, DeleteKeeps
<1> HIDE DEF f
<1>4. g \in FavTrees /\ Live(g) /\ g.mem[a] = NoRadio /\ g.db[n] = NoRadio
  BY <1>3, DeleteKeeps
<1> HIDE DEF g
<1>5. h \in FavTrees /\ Live(h)
  BY <1>4, InsertKeeps
<1>6. SetFavs(h) /\ ~FavoritesRead /\ OthersSame
  BY <1>1 DEF FavoriteSave, OthersSame, f, g
<1> HIDE DEF h
<1>7. QED
  BY <1>5, <1>6, CommandKeeps

LEMMA RmKeeps ==
  ASSUME RadioInv, NEW n1 \in RadioNames, NEW n2 \in RadioNames, FavoriteRm(n1, n2)
  PROVE  RadioInv'
<1> DEFINE f == FavoriteDelete(Favs, n1)
           g == FavoriteDelete(f, n2)
<1>1. f \in FavTrees /\ Live(f)
  BY DeleteKeeps DEF RadioInv
<1> HIDE DEF f
<1>2. g \in FavTrees /\ Live(g)
  BY <1>1, DeleteKeeps
<1>3. SetFavs(g) /\ ~FavoritesRead /\ OthersSame
  BY DEF FavoriteRm, OthersSame, f
<1> HIDE DEF g
<1>4. QED
  BY <1>2, <1>3, CommandKeeps

(* What the file holds is the favorites, whose names differ.               *)
LEMMA ToDiskKeeps == ASSUME RadioInv, FavoritesToDisk PROVE RadioInv'
<1>1. \A n \in RadioNames : favorites[n] # NoRadio =>
        memory[favorites[n]] \in Radio /\ memory[favorites[n]].name = n
  BY DEF RadioInv, Favs, FavTrees, Live
<1>2. favFile' \subseteq Radio /\ NamesDiffer(favFile')
  BY <1>1 DEF FavoritesToDisk, NamesDiffer
<1>3. UNCHANGED <<favorites, favIndex, memory, dbVersion, dbFile, download, downloads, looking, hand>>
  BY DEF FavoritesToDisk, dbVars
<1>4. Favs' = Favs
  BY <1>3 DEF Favs
<1>5. QED
  BY <1>2, <1>3, <1>4 DEF RadioInv

LEMMA DbKeeps ==
  ASSUME RadioInv, Download \/ DownloadSaved \/ DbCreated
  PROVE  RadioInv'
<1> USE DEF RadioInv
<1>1. UNCHANGED <<favorites, favIndex, memory, favFile, looking, hand>>
  BY DEF Download, DownloadSaved, DbCreated, favVars
<1>2. Favs' = Favs
  BY <1>1 DEF Favs
<1>3. CASE Download
  BY <1>1, <1>2, <1>3, WebradioAssumption DEF Download
<1>4. CASE DownloadSaved
  <2>1. download' = [step |-> "sent", version |-> download.version]
    BY <1>4 DEF DownloadSaved
  <2>2. QED
    BY <1>1, <1>2, <1>4, <2>1 DEF DownloadSaved
<1>5. CASE DbCreated
  <2>1. hand = NoRadio
    BY <1>5 DEF DbCreated, DatabaseRead
  <2>2. QED
    BY <1>1, <1>2, <1>5, <2>1 DEF DbCreated
<1>6. QED
  BY <1>3, <1>4, <1>5

LEMMA LookKeeps ==
  ASSUME RadioInv,
         \/ LockFavorites \/ LockDatabase \/ (\E u \in RadioUris : LookUp(u))
         \/ ReleaseFavorites \/ ReleaseDatabase
  PROVE  RadioInv'
<1> USE DEF RadioInv
<1>1. UNCHANGED <<favorites, favIndex, memory, favFile, dbVersion, dbFile, download, downloads>>
  BY DEF LockFavorites, LockDatabase, LookUp, ReleaseFavorites, ReleaseDatabase, LookStep,
         favVars, dbVars
<1>2. Favs' = Favs
  BY <1>1 DEF Favs
<1>3. CASE LockFavorites \/ LockDatabase \/ ReleaseFavorites \/ ReleaseDatabase
  BY <1>1, <1>2, <1>3
     DEF LockFavorites, LockDatabase, ReleaseFavorites, ReleaseDatabase, LookStep
<1>4. ASSUME NEW u \in RadioUris, LookUp(u) PROVE RadioInv'
  <2>1. looking' = "found"
    BY <1>4 DEF LookUp, LookStep
  <2>2. hand' \in {NoRadio, dbVersion} \/ (favIndex[u] # NoRadio /\ hand' = favIndex[u])
    BY <1>4 DEF LookUp
  <2>3. dbVersion \notin RadioMemory
    BY Distinct
  <2>4. favIndex[u] # NoRadio => favIndex[u] \in RadioMemory /\ memory[favIndex[u]] # NoRadio
    BY DEF Favs, FavTrees, Live
  <2>5. hand' # NoRadio =>
          IF hand' \in RadioMemory THEN memory'[hand'] # NoRadio ELSE hand' = dbVersion'
    BY <1>1, <2>2, <2>3, <2>4
  <2>6. QED
    BY <1>1, <1>2, <2>1, <2>5
<1>5. QED
  BY <1>3, <1>4

(* Of the favorites that a file gives each has its piece of memory, and the *)
(* index leads to the first with a uri (webradios_read_from_disk).         *)
LEMMA RestoredLive ==
  ASSUME NEW file \in SUBSET Radio, NamesDiffer(file), FavoritesRestored(file)
  PROVE  Favs' \in FavTrees /\ Live(Favs')
<1>1. PICK place \in [file -> RadioMemory] :
    /\ \A r, s \in file : place[r] = place[s] => r = s
    /\ favorites' = [n \in RadioNames |->
         IF \E r \in file : r.name = n THEN place[CHOOSE r \in file : r.name = n] ELSE NoRadio]
    /\ memory' = [a \in RadioMemory |->
         IF \E r \in file : place[r] = a THEN CHOOSE r \in file : place[r] = a ELSE NoRadio]
    /\ favIndex' = [u \in RadioUris |->
         LET have == {r \in file : r.uri = u} IN
         IF have = {} THEN NoRadio
         ELSE place[CHOOSE r \in have : \A s \in have : r.name <= s.name]]
  BY DEF FavoritesRestored
<1>2. \A r \in file : r \in Radio /\ r # NoRadio /\ place[r] \in RadioMemory /\ place[r] # NoRadio
                      /\ r.name \in RadioNames /\ r.uri \in RadioUris
  BY <1>1, Distinct DEF Radio
<1>3. ASSUME NEW r \in file PROVE memory'[place[r]] = r /\ favorites'[r.name] = place[r]
  <2>1. (CHOOSE s \in file : place[s] = place[r]) = r
    BY <1>1
  <2>2. (CHOOSE s \in file : s.name = r.name) = r
    BY DEF NamesDiffer
  <2>3. QED
    BY <1>1, <1>2, <2>1, <2>2
<1>4. ASSUME NEW n \in RadioNames
      PROVE  favorites'[n] = NoRadio \/ \E r \in file : r.name = n /\ favorites'[n] = place[r]
  <2>1. CASE \E r \in file : r.name = n
    BY <1>3, <2>1
  <2>2. CASE ~ \E r \in file : r.name = n
    BY <1>1, <2>2
  <2>3. QED
    BY <2>1, <2>2
<1>5. ASSUME NEW u \in RadioUris
      PROVE  favIndex'[u] = NoRadio \/ \E r \in file : r.uri = u /\ favIndex'[u] = place[r]
  <2> DEFINE have  == {r \in file : r.uri = u}
             first == CHOOSE r \in have : \A s \in have : r.name <= s.name
             names == {r.name : r \in have}
  <2>1. CASE have = {}
    BY <1>1, <2>1
  <2>2. CASE have # {}
    <3>1. names # {} /\ names \in SUBSET Nat
      BY <1>2, <2>2, Distinct, ZenonT(60)
    <3>2. PICK x \in names : \A y \in names : x <= y
      <4> HIDE DEF names
      <4>1. QED
        BY <3>1, Least
    <3>4. \E r \in have : \A s \in have : r.name <= s.name
      BY <3>2
    <3>5. first \in have
      <4> HIDE DEF have
      <4>1. QED
        BY <3>4
    <3>6. favIndex'[u] = place[first]
      BY <1>1, <2>2
    <3> HIDE DEF first
    <3>7. QED
      BY <3>5, <3>6
  <2>3. QED
    BY <2>1, <2>2
<1>6. Favs' \in FavTrees
  <2>1. favorites' \in [RadioNames -> RadioMemory \union {NoRadio}]
    BY <1>1, <1>2, <1>4
  <2>2. favIndex' \in [RadioUris -> RadioMemory \union {NoRadio}]
    BY <1>1, <1>2, <1>5
  <2>3. memory' \in [RadioMemory -> Radio \union {NoRadio}]
    BY <1>1, <1>2, <1>3
  <2>4. QED
    BY <2>1, <2>2, <2>3 DEF Favs, FavTrees
<1>7. Live(Favs')
  BY <1>2, <1>3, <1>4, <1>5 DEF Live, Favs
<1>8. QED
  BY <1>6, <1>7

LEMMA RestartKeeps == ASSUME RadioInv, RadiosRestart PROVE RadioInv'
<1>1. PICK file \in {favFile, {}} : FavoritesRestored(file)
  BY DEF RadiosRestart
<1>2. file \in SUBSET Radio /\ NamesDiffer(file)
  BY <1>1 DEF RadioInv, NamesDiffer
<1>3. Favs' \in FavTrees /\ Live(Favs')
  BY <1>1, <1>2, RestoredLive
<1>4. QED
  BY <1>3, Distinct DEF RadioInv, RadiosRestart

LEMMA RadioStart == RadiosInit => RadioInv
<1> SUFFICES ASSUME RadiosInit PROVE RadioInv
  OBVIOUS
<1>1. Favs \in FavTrees /\ Live(Favs)
  BY DEF RadiosInit, Favs, FavTrees, Live
<1>2. QED
  BY <1>1, Distinct DEF RadiosInit, RadioInv, NamesDiffer

LEMMA RadioRest == RadioInv /\ [RadiosNext]_radioVars => RadioInv'
<1> SUFFICES ASSUME RadioInv, [RadiosNext]_radioVars PROVE RadioInv'
  OBVIOUS
<1>1. CASE UNCHANGED radioVars
  <2>1. Favs' = Favs
    BY <1>1 DEF radioVars, favVars, Favs
  <2>2. QED
    BY <1>1, <2>1 DEF radioVars, favVars, dbVars, RadioInv
<1>2. QED
  BY <1>1, SaveKeeps, RmKeeps, ToDiskKeeps, DbKeeps, LookKeeps, RestartKeeps DEF RadiosNext

(* No thread follows a pointer to a radio that was freed: the index of the  *)
(* favorites leads to favorites with the uri, and what the webserver thread *)
(* found stays until it has released its locks.                            *)
THEOREM RadiosCorrect == RadiosSpec => []RadiosOK
<1>1. RadioInv => RadiosOK
  BY DEF RadioInv, RadiosOK, IndexLive, RadioInHand, Live, Favs
<1>2. QED
  BY RadioStart, RadioRest, <1>1, PTL DEF RadiosSpec

-----------------------------------------------------------------------------
(* The connection to the stickers: what the plays that were reported as     *)
(* counted promise, and that no command meets a connection in idle mode.    *)

LinkConns  == {"none", "idle", "lost", "ready"}
LinkStates == {"disconnected", "connected", "failure"}
Links == [conn : LinkConns, state : LinkStates, feat : Features]
\* what a handler works on
Work  == [conn : LinkConns, state : LinkStates, feat : Features, sent : Seq(Features),
          plays : Nat, played : Nat, fault : {"no", "null"}, ok : BOOLEAN]

\* the features are those of an MPD that was there
FeatsKnown(c) == c \in Work /\ (c.feat = "basic" => basic)
\* and a connection that counts as connected has some
Fine(c) == FeatsKnown(c) /\ (c.state = "connected" => c.feat # "none")
\* the exchanges so far wrote nothing
Unwritten(c) == c.plays = plays /\ c.played = played

\* a play is counted or it is not, unless the MPD is a basic one
Kept == ~basic => acked <= plays /\ acked <= played

\* The inductive invariant
StickerInv ==
  /\ link \in Links /\ shared \in Features /\ waiting \in Seq(Features) /\ mpd \in Kinds
  /\ basic \in BOOLEAN /\ plays \in Nat /\ played \in Nat /\ acked \in Nat
  /\ mpd = "basic" \/ link.feat = "basic" => basic
  /\ link.state = "connected" => link.feat # "none"
  /\ Kept /\ stickerFault \in {"no", "null"}

LEMMA StickerStrings ==
  /\ Kinds = {"down", "old", "nosticker", "basic", "advanced"}
  /\ Features = {"none", "basic", "advanced"}
BY DEF Kinds, Features

LEMMA HandlerFine == ASSUME StickerInv PROVE Fine(Handler) /\ Unwritten(Handler)
<1>1. <<>> \in Seq(Features)
  OBVIOUS
<1> QED
  BY <1>1 DEF StickerInv, Fine, FeatsKnown, Unwritten, Handler, Work, Links

(* An exchange, on a connection that is not in idle mode, keeps all but the *)
(* state and the result.                                                   *)
LEMMA ExchangeFine ==
  ASSUME StickerInv, NEW c, FeatsKnown(c), c.conn # "idle", NEW d \in StickerExchange(c)
  PROVE  /\ FeatsKnown(d) /\ d.conn # "idle" /\ d.state \in {c.state, "failure"}
         /\ d.feat = c.feat /\ d.plays = c.plays /\ d.played = c.played
         /\ d.sent = c.sent /\ (d.ok => c.conn = "ready" /\ d.conn = "ready")
<1>1. c.conn \in {"none", "lost", "ready"}
  BY DEF FeatsKnown, Work, LinkConns
<1>2. CASE c.conn \in {"none", "lost"}
  BY <1>2 DEF FeatsKnown, Work, StickerExchange, Failed, LinkStates, LinkConns
<1>3. CASE c.conn = "ready"
  BY <1>3, ZenonT(60) DEF FeatsKnown, Work, StickerExchange, Failed, LinkStates, LinkConns
<1> QED
  BY <1>1, <1>2, <1>3

LEMMA ExitFine ==
  ASSUME StickerInv, NEW c, Fine(c), NEW d \in ExitIdle(c)
  PROVE  /\ Fine(d) /\ d.conn # "idle" /\ (d.ok => d.feat = c.feat /\ d.state = c.state /\ d.conn = "ready")
         /\ d.plays = c.plays /\ d.played = c.played
<1>1. CASE c.conn = "none"
  BY <1>1 DEF Fine, FeatsKnown, Work, ExitIdle, Failed, LinkStates, LinkConns
<1>2. CASE c.conn = "idle"
  BY <1>2 DEF Fine, FeatsKnown, Work, ExitIdle, Failed, LinkStates, LinkConns
<1>3. CASE c.conn \notin {"none", "idle"}
  BY <1>3, ZenonT(60) DEF Fine, FeatsKnown, Work, ExitIdle, Failed, LinkStates, LinkConns
<1> QED
  BY <1>1, <1>2, <1>3

LEMMA EnterFine ==
  ASSUME StickerInv, NEW c, Fine(c), NEW d \in EnterIdle(c)
  PROVE  /\ Fine(d) /\ d.plays = c.plays /\ d.played = c.played /\ d.ok = c.ok
<1>1. CASE c.conn = "ready" /\ c.state = "connected"
  BY <1>1 DEF Fine, FeatsKnown, Work, EnterIdle, LinkStates, LinkConns
<1>2. CASE c.conn = "lost" /\ c.state = "connected"
  BY <1>2 DEF Fine, FeatsKnown, Work, EnterIdle, Disconnected, LinkStates, LinkConns
<1>3. CASE ~(c.conn \in {"ready", "lost"} /\ c.state = "connected")
  BY <1>3 DEF Fine, FeatsKnown, Work, EnterIdle, Disconnected, LinkStates, LinkConns
<1> QED
  BY <1>1, <1>2, <1>3

LEMMA DisconnectedFine ==
  ASSUME NEW c, FeatsKnown(c)
  PROVE  /\ Fine(Disconnected(c)) /\ Disconnected(c).conn = "none"
         /\ Disconnected(c).plays = c.plays /\ Disconnected(c).played = c.played
BY DEF Fine, FeatsKnown, Work, Disconnected, LinkStates, LinkConns

(* A new connection is in no idle mode, and if it is of use its features   *)
(* are those of the MPD that is there.                                     *)
LEMMA NewFine ==
  ASSUME StickerInv, NEW c, Fine(c), NEW d \in NewConnection(c)
  PROVE  /\ Fine(d) /\ d.conn # "idle" /\ (d.ok => d.feat # "none")
         /\ d.plays = c.plays /\ d.played = c.played
<1> DEFINE Good(x) == /\ Fine(x) /\ x.conn # "idle" /\ (x.ok => x.feat # "none")
                      /\ x.plays = c.plays /\ x.played = c.played
<1>1. PICK e \in ConnectMpd(c) : d \in (IF e.ok THEN CheckSupport(e) ELSE {e})
  BY DEF NewConnection
<1>2. /\ FeatsKnown(e) /\ e.plays = c.plays /\ e.played = c.played /\ e.conn \in {"none", "ready"}
      /\ e.ok => mpd # "down" /\ e.conn = "ready" /\ e.state = "connected"
      /\ ~e.ok => e.state = "failure"
  <2>1. CASE mpd = "down"
    BY <2>1 DEF Fine, FeatsKnown, Work, ConnectMpd, Failed, LinkStates, LinkConns
  <2>2. CASE mpd # "down"
    BY <2>2 DEF Fine, FeatsKnown, Work, ConnectMpd, Failed, LinkStates, LinkConns
  <2> QED
    BY <2>1, <2>2
<1>3. CASE ~e.ok
  BY <1>1, <1>2, <1>3 DEF Fine
<1>4. CASE e.ok /\ mpd = "old"
  <2>1. d = FeatSent([Disconnected(e) EXCEPT !.ok = FALSE], "none")
    BY <1>1, <1>4 DEF CheckSupport
  <2>2. \A s \in Seq(Features) : Append(s, "none") \in Seq(Features)
    BY DEF Features
  <2> QED
    BY <1>2, <2>1, <2>2 DEF Fine, FeatsKnown, Work, FeatSent, Disconnected, LinkStates, LinkConns
<1>5. CASE e.ok /\ mpd # "old"
  <2>1. PICK x \in StickerExchange(e) :
          d \in IF ~x.ok \/ mpd = "nosticker"
                THEN {FeatSent([Disconnected(x) EXCEPT !.feat = "none", !.ok = FALSE], "none")}
                ELSE LET y == FeatSent([x EXCEPT !.feat = mpd], mpd)
                     IN {[z EXCEPT !.ok = TRUE] :
                           z \in (IF mpd = "advanced" THEN StickerExchange(y) ELSE {y})}
    BY <1>1, <1>5 DEF CheckSupport
  <2>2. /\ FeatsKnown(x) /\ x.plays = c.plays /\ x.played = c.played
        /\ x.ok => x.conn = "ready"
    BY <1>2, <1>5, ExchangeFine
  <2>3. \A s \in Seq(Features) : \A f \in Features : Append(s, f) \in Seq(Features)
    OBVIOUS
  <2>4. CASE ~x.ok \/ mpd = "nosticker"
    <3>1. d = FeatSent([Disconnected(x) EXCEPT !.feat = "none", !.ok = FALSE], "none")
      BY <2>1, <2>4
    <3>2. "none" \in Features
      BY DEF Features
    <3> QED
      BY <2>2, <2>3, <3>1, <3>2 DEF Fine, FeatsKnown, Work, FeatSent, Disconnected, LinkStates, LinkConns
  <2>5. CASE x.ok /\ mpd # "nosticker"
    <3> DEFINE y == FeatSent([x EXCEPT !.feat = mpd], mpd)
    <3>1. PICK z \in (IF mpd = "advanced" THEN StickerExchange(y) ELSE {y}) : d = [z EXCEPT !.ok = TRUE]
      BY <2>1, <2>5
    <3>2. mpd \in {"basic", "advanced"} /\ mpd \in Features
      BY <1>2, <1>5, <2>5 DEF StickerInv, Kinds, Features
    <3>3. /\ FeatsKnown(y) /\ y.conn = "ready" /\ y.feat = mpd /\ y.plays = c.plays /\ y.played = c.played
      BY <2>2, <2>3, <2>5, <3>2 DEF StickerInv, FeatsKnown, Work, FeatSent, LinkConns
    <3> HIDE DEF y
    <3>4. FeatsKnown(z) /\ z.conn # "idle" /\ z.feat = mpd /\ z.plays = c.plays /\ z.played = c.played
      BY <3>1, <3>3, ExchangeFine
    <3> QED
      BY <3>1, <3>2, <3>4 DEF Fine, FeatsKnown, Work
  <2> QED
    BY <2>4, <2>5
<1> QED
  BY <1>3, <1>4, <1>5

LEMMA ConnectFine ==
  ASSUME StickerInv, NEW d \in Connect(Handler)
  PROVE  /\ Fine(d) /\ d.conn # "idle" /\ (d.ok => d.feat # "none") /\ Unwritten(d)
<1>1. Fine(Handler) /\ Unwritten(Handler)
  BY HandlerFine
<1>2. CASE Handler.state = "connected"
  <2>1. PICK e \in ExitIdle(Handler) : d \in (IF e.ok THEN {e} ELSE NewConnection(Disconnected(e)))
    BY <1>2 DEF Connect
  <2>2. /\ Fine(e) /\ e.conn # "idle" /\ Unwritten(e) /\ (e.ok => e.feat # "none")
    BY <1>1, <1>2, ExitFine DEF Unwritten, Fine
  <2>3. CASE ~e.ok
    <3>1. d \in NewConnection(Disconnected(e)) /\ Fine(Disconnected(e)) /\ Unwritten(Disconnected(e))
      BY <2>1, <2>2, <2>3, DisconnectedFine DEF Fine, Unwritten
    <3> QED
      BY <3>1, NewFine DEF Unwritten
  <2> QED
    BY <2>1, <2>2, <2>3
<1>3. CASE Handler.state # "connected"
  <2>1. PICK e : e \in {Handler, Disconnected(Handler)} /\ d \in NewConnection(e)
    BY <1>3 DEF Connect
  <2>2. Fine(e) /\ Unwritten(e)
    BY <1>1, <2>1, DisconnectedFine DEF Fine, Unwritten
  <2> QED
    BY <2>1, <2>2, NewFine DEF Unwritten
<1> QED
  BY <1>2, <1>3

(* A handler that ends with c leaves the invariant, if c wrote what it     *)
(* should.                                                                 *)
LEMMA ReturnsFine ==
  ASSUME StickerInv, NEW c, Fine(c), Returns(c), shared' = shared, acked' \in Nat,
         ~basic => acked' <= c.plays /\ acked' <= c.played
  PROVE  StickerInv'
<1>1. /\ stickerFault' = c.fault /\ waiting' = waiting \o c.sent /\ plays' = c.plays /\ played' = c.played
      /\ link' = [conn |-> c.conn, state |-> c.state, feat |-> c.feat]
      /\ UNCHANGED <<mpd, restarts, basic>>
  BY DEF Returns
<1>2. c \in Work /\ (c.feat = "basic" => basic) /\ (c.state = "connected" => c.feat # "none")
  BY DEF Fine, FeatsKnown
<1>3. waiting \o c.sent \in Seq(Features)
  BY <1>2 DEF StickerInv, Work
<1>4. link' \in Links /\ stickerFault' \in {"no", "null"} /\ plays' \in Nat /\ played' \in Nat
  BY <1>1, <1>2 DEF Work, Links
<1> QED
  BY <1>1, <1>2, <1>3, <1>4 DEF StickerInv, Kept

LEMMA UnwrittenFine ==
  ASSUME StickerInv, NEW c, Fine(c), Unwritten(c), Returns(c), UNCHANGED <<shared, acked>>
  PROVE  StickerInv'
BY ReturnsFine DEF Unwritten, StickerInv, Kept

(* The commands that read, or write another sticker.                       *)
LEMMA CommandFine ==
  ASSUME StickerInv, NEW body, DOMAIN body = Connect(Handler), UNCHANGED <<shared, acked>>,
         \A c \in Connect(Handler) : body[c] \subseteq
           {[d EXCEPT !.ok = TRUE] : d \in StickerExchange(c)} \union StickerExchange(c),
         \E c \in WithConnection(body) : Returns(c)
  PROVE  StickerInv'
<1>1. PICK c \in WithConnection(body) : Returns(c)
  OBVIOUS
<1>2. PICK e \in Connect(Handler) : c \in (IF ~e.ok THEN {e} ELSE UNION {EnterIdle(d) : d \in body[e]})
  BY DEF WithConnection
<1>3. Fine(e) /\ e.conn # "idle" /\ (e.ok => e.feat # "none") /\ Unwritten(e)
  BY ConnectFine
<1>4. CASE ~e.ok
  BY <1>1, <1>2, <1>3, <1>4, UnwrittenFine
<1>5. CASE e.ok
  <2>1. PICK d \in body[e] : c \in EnterIdle(d)
    BY <1>2, <1>5
  <2>2. PICK x \in StickerExchange(e) : d = x \/ d = [x EXCEPT !.ok = TRUE]
    BY <2>1
  <2>3. FeatsKnown(x) /\ x.feat # "none" /\ Unwritten(x)
    BY <1>3, <1>5, ExchangeFine DEF Fine, Unwritten
  <2>4. Fine(d) /\ Unwritten(d)
    <3>1. CASE d = x
      BY <2>3, <3>1 DEF Fine
    <3>2. CASE d = [x EXCEPT !.ok = TRUE]
      BY <2>3, <3>2 DEF Fine, FeatsKnown, Work, Unwritten
    <3> QED
      BY <2>2, <3>1, <3>2
  <2>5. Fine(c) /\ Unwritten(c)
    BY <2>1, <2>4, EnterFine DEF Unwritten
  <2> QED
    BY <1>1, <2>5, UnwrittenFine
<1> QED
  BY <1>4, <1>5
(* One play: the time is set, then the counter; the result is the one of    *)
(* both.                                                                   *)
LEMMA SetFine ==
  ASSUME StickerInv, NEW c, FeatsKnown(c), c.conn # "idle", Unwritten(c), NEW t \in Nat, t > acked,
         NEW d \in SetLastPlayed(c, t)
  PROVE  /\ FeatsKnown(d) /\ d.conn # "idle" /\ d.feat = c.feat /\ d.plays = plays
         /\ d.played \in {played, t} /\ (d.ok => d.played = t)
<1>1. CASE d \in NotOk(c)
  BY <1>1, ExchangeFine DEF NotOk, Unwritten
<1>2. CASE d \notin NotOk(c)
  <2>1. PICK x \in Executed(c) : d = [x EXCEPT !.played = t]
    BY <1>2 DEF SetLastPlayed
  <2>2. x \in StickerExchange(c)
    BY DEF Executed
  <2>3. FeatsKnown(x) /\ x.conn # "idle" /\ x.feat = c.feat /\ x.plays = plays
    BY <2>2, ExchangeFine DEF Unwritten
  <2> QED
    BY <2>1, <2>3 DEF FeatsKnown, Work
<1> QED
  BY <1>1, <1>2

LEMMA IncFine ==
  ASSUME StickerInv, NEW c, FeatsKnown(c), c.conn # "idle", c.feat # "none", c.plays = plays,
         NEW d \in IncSticker(c)
  PROVE  /\ FeatsKnown(d) /\ d.feat = c.feat /\ d.played = c.played
         /\ ~basic => d.plays \in {plays, plays + 1} /\ (d.ok => d.plays = plays + 1)
<1>1. CASE c.feat = "advanced"
  <2>1. CASE d \in NotOk(c)
    BY <2>1, ExchangeFine DEF NotOk
  <2>2. CASE d \notin NotOk(c)
    <3>1. PICK x \in Executed(c) : d = [x EXCEPT !.plays = @ + 1]
      BY <1>1, <2>2 DEF IncSticker
    <3>2. x \in StickerExchange(c)
      BY DEF Executed
    <3>3. FeatsKnown(x) /\ x.feat = c.feat /\ x.plays = plays /\ x.played = c.played
      BY <3>2, ExchangeFine
    <3> QED
      BY <3>1, <3>3 DEF FeatsKnown, Work
  <2> QED
    BY <2>1, <2>2
<1>2. CASE c.feat # "advanced"
  <2>1. basic
    BY <1>2 DEF FeatsKnown, Work, Features
  <2>2. PICK x \in StickerExchange(c) : \E y \in StickerExchange(x) :
          d = [y EXCEPT !.plays = IF y.ok THEN (IF x.ok THEN @ ELSE 0) + 1 ELSE @]
    BY <1>2 DEF IncSticker, IncBasic
  <2>5. PICK y \in StickerExchange(x) :
          d = [y EXCEPT !.plays = IF y.ok THEN (IF x.ok THEN @ ELSE 0) + 1 ELSE @]
    BY <2>2
  <2>3. FeatsKnown(x) /\ x.conn # "idle" /\ x.feat = c.feat /\ x.played = c.played
    BY <2>2, ExchangeFine
  <2>4. FeatsKnown(y) /\ y.feat = c.feat /\ y.played = c.played
    BY <2>2, <2>3, ExchangeFine
  <2> QED
    BY <2>1, <2>5, <2>4 DEF FeatsKnown, Work
<1> QED
  BY <1>1, <1>2

LEMMA CountFine == ASSUME StickerInv, CountPlay PROVE StickerInv'
<1> DEFINE body == [d \in Connect(Handler) |-> IncSet(d, acked + 1)]
<1>1. PICK c \in WithConnection(body) :
        Returns(c) /\ acked' = (IF c.ok THEN acked + 1 ELSE acked) /\ shared' = shared
  BY DEF CountPlay
<1>2. DOMAIN body = Connect(Handler)
  OBVIOUS
<1>3. PICK e \in Connect(Handler) : c \in (IF ~e.ok THEN {e} ELSE UNION {EnterIdle(d) : d \in body[e]})
  BY <1>2 DEF WithConnection
<1>4. Fine(e) /\ e.conn # "idle" /\ (e.ok => e.feat # "none") /\ Unwritten(e)
  BY ConnectFine
<1>5. acked \in Nat /\ acked' \in Nat /\ acked + 1 \in Nat /\ acked + 1 > acked
  BY <1>1 DEF StickerInv
<1>6. CASE ~e.ok
  BY <1>1, <1>3, <1>4, <1>6, UnwrittenFine
<1>7. CASE e.ok
  <2>1. PICK d \in IncSet(e, acked + 1) : c \in EnterIdle(d)
    BY <1>3, <1>7
  <2>2. PICK x \in SetLastPlayed(e, acked + 1) : d \in (IF x.ok THEN IncSticker(x) ELSE {x})
    BY DEF IncSet
  <2>3. /\ FeatsKnown(x) /\ x.conn # "idle" /\ x.feat # "none" /\ x.plays = plays
        /\ x.played \in {played, acked + 1} /\ (x.ok => x.played = acked + 1)
    BY <1>4, <1>5, <1>7, SetFine DEF Fine
  <2>4. /\ FeatsKnown(d) /\ d.feat # "none"
        /\ ~basic => /\ d.plays \in {plays, plays + 1} /\ d.played \in {played, acked + 1}
                     /\ (d.ok => d.plays = plays + 1 /\ d.played = acked + 1)
    <3>1. CASE x.ok
      BY <2>2, <2>3, <3>1, IncFine
    <3>2. CASE ~x.ok
      BY <2>2, <2>3, <3>2
    <3> QED
      BY <3>1, <3>2
  <2>5. Fine(c) /\ c.plays = d.plays /\ c.played = d.played /\ c.ok = d.ok
    BY <2>1, <2>4, EnterFine DEF Fine
  <2>6. ~basic => acked' <= c.plays /\ acked' <= c.played
    BY <1>1, <1>5, <2>4, <2>5 DEF StickerInv, Kept
  <2> QED
    BY <1>1, <1>5, <2>5, <2>6, ReturnsFine
<1> QED
  BY <1>6, <1>7

LEMMA FindFine == ASSUME StickerInv, Find PROVE StickerInv'
<1>1. PICK c \in Connect(Handler) :
        IF ~c.ok THEN Returns(c)
        ELSE \E d \in StickerExchange(c) :
               IF d.ok THEN \E e \in EnterIdle(d) : Returns(e) ELSE Returns(d)
  BY DEF Find
<1>2. Fine(c) /\ c.conn # "idle" /\ (c.ok => c.feat # "none") /\ Unwritten(c)
  BY ConnectFine
<1>3. UNCHANGED <<shared, acked>>
  BY DEF Find
<1>4. CASE ~c.ok
  BY <1>1, <1>2, <1>3, <1>4, UnwrittenFine
<1>5. CASE c.ok
  <2>1. PICK d \in StickerExchange(c) : IF d.ok THEN \E e \in EnterIdle(d) : Returns(e) ELSE Returns(d)
    BY <1>1, <1>5
  <2>2. Fine(d) /\ Unwritten(d)
    BY <1>2, <1>5, ExchangeFine DEF Fine, Unwritten
  <2>3. \A e \in EnterIdle(d) : Fine(e) /\ Unwritten(e)
    BY <2>2, EnterFine DEF Unwritten
  <2> QED
    BY <1>3, <2>1, <2>2, <2>3, UnwrittenFine
<1> QED
  BY <1>4, <1>5

LEMMA ListSongsFine == ASSUME StickerInv, ListSongs PROVE StickerInv'
<1>1. PICK c \in ExitIdle(Handler) :
        IF c.fault # "no" THEN Returns(c)
        ELSE \E d \in ReadStickers(c) \union {c} :
               \/ \E e \in EnterIdle(d) : Returns(e)
               \/ Returns(d)
  BY DEF ListSongs
<1>2. Fine(c) /\ c.conn # "idle" /\ Unwritten(c)
  BY HandlerFine, ExitFine DEF Unwritten
<1>3. UNCHANGED <<shared, acked>>
  BY DEF ListSongs
<1>4. \A d \in ReadStickers(c) : Fine(d) /\ Unwritten(d)
  <2>1. SUFFICES ASSUME NEW x \in StickerExchange(c)
                 PROVE  Fine([x EXCEPT !.ok = TRUE]) /\ Unwritten([x EXCEPT !.ok = TRUE])
    BY DEF ReadStickers
  <2>2. Fine(x) /\ Unwritten(x)
    BY <1>2, ExchangeFine DEF Fine, Unwritten
  <2> QED
    BY <2>2 DEF Fine, FeatsKnown, Work, Unwritten
<1>5. \A d \in ReadStickers(c) \union {c} : \A e \in EnterIdle(d) : Fine(e) /\ Unwritten(e)
  BY <1>2, <1>4, EnterFine DEF Unwritten
<1> QED
  BY <1>1, <1>2, <1>3, <1>4, <1>5, UnwrittenFine

LEMMA SocketFine == ASSUME StickerInv, IdleEvent \/ SocketError PROVE StickerInv'
<1>1. UNCHANGED <<shared, acked>>
  BY DEF IdleEvent, SocketError
<1>2. Fine(Handler) /\ Unwritten(Handler)
  BY HandlerFine
<1>3. Fine(Disconnected(Handler)) /\ Unwritten(Disconnected(Handler))
  BY <1>2, DisconnectedFine DEF Fine, Unwritten
<1>4. \A c \in ExitIdle(Handler) : Fine(c) /\ Unwritten(c)
  BY <1>2, ExitFine DEF Unwritten
<1>5. \A c \in ExitIdle(Handler) : \A d \in EnterIdle(c) : Fine(d) /\ Unwritten(d)
  BY <1>4, EnterFine DEF Unwritten
<1>6. \E c : Fine(c) /\ Unwritten(c) /\ Returns(c)
  BY <1>3, <1>4, <1>5 DEF IdleEvent, SocketError
<1> QED
  BY <1>1, <1>6, UnwrittenFine

LEMMA ReconnectFine == ASSUME StickerInv, Reconnect PROVE StickerInv'
<1>1. UNCHANGED <<shared, acked>>
  BY DEF Reconnect
<1>2. Fine(Disconnected(Handler)) /\ Unwritten(Disconnected(Handler))
  BY HandlerFine, DisconnectedFine DEF Fine, Unwritten
<1>3. PICK d \in NewConnection(Disconnected(Handler)) :
        \E c \in (IF d.ok THEN EnterIdle(d) ELSE {d}) : Returns(c)
  BY DEF Reconnect
<1>4. Fine(d) /\ Unwritten(d)
  BY <1>2, NewFine DEF Unwritten
<1>5. \A c \in EnterIdle(d) : Fine(c) /\ Unwritten(c)
  BY <1>4, EnterFine DEF Unwritten
<1> QED
  BY <1>1, <1>3, <1>4, <1>5, UnwrittenFine

LEMMA StickerCommands == ASSUME StickerInv, StickerGet \/ StickerSet \/ SetFeedback PROVE StickerInv'
<1>1. CASE StickerGet
  <2> DEFINE body == [d \in Connect(Handler) |-> ReadStickers(d)]
  <2>1. \E c \in WithConnection(body) : Returns(c)
    BY <1>1 DEF StickerGet
  <2>2. \A c \in Connect(Handler) : body[c] = {[d EXCEPT !.ok = TRUE] : d \in StickerExchange(c)}
    BY DEF ReadStickers
  <2>3. DOMAIN body = Connect(Handler) /\ UNCHANGED <<shared, acked>>
    BY <1>1 DEF StickerGet
  <2> HIDE DEF body
  <2> QED
    BY <2>1, <2>2, <2>3, CommandFine
<1>2. CASE StickerSet \/ SetFeedback
  <2> DEFINE body == [d \in Connect(Handler) |-> WriteSticker(d)]
  <2>1. \E c \in WithConnection(body) : Returns(c)
    BY <1>2 DEF StickerSet, SetFeedback
  <2>2. \A c \in Connect(Handler) : body[c] = StickerExchange(c)
    BY DEF WriteSticker
  <2>3. DOMAIN body = Connect(Handler) /\ UNCHANGED <<shared, acked>>
    BY <1>2 DEF StickerSet, SetFeedback
  <2> HIDE DEF body
  <2> QED
    BY <2>1, <2>2, <2>3, CommandFine
<1> QED
  BY <1>1, <1>2

LEMMA StickerRest ==
  ASSUME StickerInv,
         FeaturesReceived \/ FeaturesDetected \/ MpdRestarts \/ MpdTimeout \/ OtherPlay
         \/ UNCHANGED stickerVars
  PROVE  StickerInv'
<1>1. CASE FeaturesReceived
  <2>1. waiting \in Seq(Features) /\ waiting # <<>>
    BY <1>1 DEF FeaturesReceived, StickerInv
  <2>2. Head(waiting) \in Features /\ Tail(waiting) \in Seq(Features)
    BY <2>1
  <2> QED
    BY <1>1, <2>2 DEF FeaturesReceived, StickerInv, Kept
<1>2. CASE FeaturesDetected
  BY <1>2 DEF FeaturesDetected, StickerInv, Kept, Links
<1>3. CASE MpdRestarts
  <2>1. link' = link \/ link' = [link EXCEPT !.conn = "lost"]
    BY <1>3 DEF MpdRestarts
  <2>2. link' \in Links /\ link'.feat = link.feat /\ link'.state = link.state
    BY <2>1 DEF StickerInv, Links, LinkConns
  <2> QED
    BY <1>3, <2>2 DEF MpdRestarts, StickerInv, Kept
<1>4. CASE MpdTimeout
  <2>1. link' \in Links /\ link'.feat = link.feat /\ link'.state = link.state
    BY <1>4 DEF MpdTimeout, StickerInv, Links, LinkConns
  <2> QED
    BY <1>4, <2>1 DEF MpdTimeout, StickerInv, Kept
<1>5. CASE OtherPlay
  BY <1>5 DEF OtherPlay, StickerInv, Kept
<1>6. CASE UNCHANGED stickerVars
  BY <1>6 DEF stickerVars, StickerInv, Kept
<1> QED
  BY <1>1, <1>2, <1>3, <1>4, <1>5, <1>6

LEMMA StickerStart == StickersInit => StickerInv
<1>1. <<>> \in Seq(Features)
  OBVIOUS
<1> SUFFICES ASSUME StickersInit PROVE StickerInv
  OBVIOUS
<1>2. basic \in BOOLEAN /\ (mpd = "basic" => basic)
  BY Zenon DEF StickersInit
<1>3. link = [conn |-> "none", state |-> "disconnected", feat |-> "none"]
  BY DEF StickersInit
<1>4. link \in Links /\ link.feat = "none" /\ link.state = "disconnected"
  BY <1>3 DEF Links, LinkConns, LinkStates, Features
<1>5. shared \in Features /\ waiting \in Seq(Features) /\ mpd \in Kinds /\ plays = 0 /\ played = 0
      /\ acked = 0 /\ stickerFault = "no"
  BY <1>1 DEF StickersInit, Features
<1> QED
  BY <1>2, <1>4, <1>5 DEF StickerInv, Kept

(* The stickers of a song follow the plays that were reported as counted,  *)
(* whichever of the two exchanges fails and whenever MPD goes, and no      *)
(* command meets a connection in idle mode, for any number of plays and    *)
(* starts of MPD (stickerdb.c:607, stickerdb.c:162).                         *)
THEOREM StickersCorrect == StickersSpec => []StickersOK
<1>1. StickerInv /\ [StickersNext]_stickerVars => StickerInv'
  BY ReconnectFine, StickerCommands, FindFine, CountFine, ListSongsFine, SocketFine, StickerRest
     DEF StickersNext
<1>2. StickerInv => StickersOK
  BY DEF StickerInv, Kept, StickersOK
<1> QED
  BY StickerStart, <1>1, <1>2, PTL DEF StickersSpec

-----------------------------------------------------------------------------
(* The sessions: a session lasts as long as it should.                      *)

\* A list of sessions agrees with what was used when and revoked: an entry ends when
\* its session does, no session is in the list twice, and one that is not in it is over.
Booked(list, use, gone, now) ==
  /\ list \in Seq([id : Nat, ends : Nat]) /\ use \in Seq(Nat) /\ gone \subseteq DOMAIN use
  /\ \A i \in DOMAIN list :
       /\ list[i].id \in DOMAIN use \ gone
       /\ list[i].ends = use[list[i].id] + SessionTimeout
  /\ \A i, j \in DOMAIN list : list[i].id = list[j].id => i = j
  /\ \A id \in DOMAIN use \ gone :
       use[id] + SessionTimeout < now \/ \E i \in DOMAIN list : list[i].id = id

\* The inductive invariant
SessionInv ==
  /\ Booked(sessions, used, revoked, sessionNow) /\ Len(sessions) <= MaxSessions
  /\ sessionNow \in Nat

\* what the time adds to is a number
LEMMA SessionNumbers == MaxSessions \in Nat \ {0} /\ SessionTimeout \in Nat
BY SessionAssumption

(* Entries that ended or were revoked may go.                               *)
LEMMA BookedLeft ==
  ASSUME NEW list, NEW use, NEW gone, NEW now, Booked(list, use, gone, now),
         NEW I \in SUBSET (DOMAIN list), NEW use2 \in Seq(Nat), DOMAIN use2 = DOMAIN use,
         NEW gone2 \in SUBSET (DOMAIN use), gone \subseteq gone2,
         \A id \in DOMAIN use \ gone2 : use2[id] = use[id],
         \A i \in DOMAIN list \ I : list[i].ends < now \/ list[i].id \in gone2,
         \A i \in I : list[i].id \notin gone2
  PROVE  Booked(EntriesAt(list, I), use2, gone2, now) /\ Len(EntriesAt(list, I)) <= Len(list)
<1> DEFINE new == EntriesAt(list, I)
           nth(k) == NthIn(I, k)
<1>1. /\ new \in Seq([id : Nat, ends : Nat]) /\ Len(new) <= Len(list)
      /\ \A k \in DOMAIN new : nth(k) \in I /\ new[k] = list[nth(k)]
      /\ \A i \in I : \E k \in DOMAIN new : nth(k) = i /\ new[k] = list[i]
      /\ \A j, k \in DOMAIN new : j < k => nth(j) < nth(k)
      /\ DOMAIN new \subseteq Nat
  <2>1. list \in Seq([id : Nat, ends : Nat])
    BY DEF Booked
  <2>2. /\ new \in Seq([id : Nat, ends : Nat])
        /\ Len(new) = Cardinality(I) /\ Cardinality(I) <= Len(list)
        /\ DOMAIN new = 1..Cardinality(I)
        /\ \A k \in DOMAIN new : nth(k) \in I /\ new[k] = list[nth(k)]
        /\ \A i \in I : \E k \in DOMAIN new : nth(k) = i /\ new[k] = list[i]
        /\ \A j, k \in DOMAIN new : j < k => nth(j) < nth(k)
    BY SMTT(30), <2>1, AtPositions
  <2> HIDE DEF new, nth
  <2> QED
    BY <2>2
<1> HIDE DEF new, nth
<1>2. \A k \in DOMAIN new :
        new[k].id \in DOMAIN use2 \ gone2 /\ new[k].ends = use2[new[k].id] + SessionTimeout
  <2>1. SUFFICES ASSUME NEW k \in DOMAIN new
                 PROVE  new[k].id \in DOMAIN use2 \ gone2
                        /\ new[k].ends = use2[new[k].id] + SessionTimeout
    OBVIOUS
  <2>2. PICK i \in I : new[k] = list[i]
    BY <1>1
  <2> QED
    BY SMTT(30), <2>2 DEF Booked
<1>3. \A j, k \in DOMAIN new : new[j].id = new[k].id => j = k
  <2>1. SUFFICES ASSUME NEW j \in DOMAIN new, NEW k \in DOMAIN new, new[j].id = new[k].id, j # k
                 PROVE  FALSE
    OBVIOUS
  <2>5. /\ nth(j) \in DOMAIN list /\ nth(k) \in DOMAIN list /\ nth(j) \in I
        /\ list[nth(j)].id = list[nth(k)].id
    BY <1>1, <2>1
  <2>2. nth(j) = nth(k) /\ nth(j) \in I
    BY <2>5 DEF Booked
  <2>3. nth(j) \in Nat
    BY <2>2 DEF Booked
  <2>4. nth(j) < nth(k) \/ nth(k) < nth(j)
    BY <1>1, <2>1
  <2> QED
    BY <2>2, <2>3, <2>4
<1>4. ASSUME NEW id \in DOMAIN use2 \ gone2
      PROVE  use2[id] + SessionTimeout < now \/ \E k \in DOMAIN new : new[k].id = id
  <2>1. use2[id] = use[id] /\ id \in DOMAIN use \ gone
    OBVIOUS
  <2>2. CASE use[id] + SessionTimeout < now
    BY <2>1, <2>2
  <2>3. CASE \E i \in DOMAIN list : list[i].id = id
    <3>1. PICK i \in DOMAIN list : list[i].id = id
      BY <2>3
    <3>2. CASE i \in I
      BY <1>1, <3>1, <3>2
    <3>3. CASE i \notin I
      <4>1. list[i].ends = use[id] + SessionTimeout
        BY <3>1 DEF Booked
      <4>2. list[i].ends < now
        BY <3>1, <3>3
      <4> QED
        BY <2>1, <4>1, <4>2
    <3> QED
      BY <3>2, <3>3
  <2> QED
    BY <2>1, <2>2, <2>3 DEF Booked
<1> QED
  BY <1>1, <1>2, <1>3, <1>4 DEF Booked, new

LEMMA BookedNotEnded ==
  ASSUME SessionInv
  PROVE  Booked(NotEnded, used, revoked, sessionNow) /\ Len(NotEnded) <= Len(sessions)
<1>1. Booked(sessions, used, revoked, sessionNow) /\ Running \in SUBSET (DOMAIN sessions)
  BY DEF SessionInv, Running
<1>2. /\ used \in Seq(Nat) /\ revoked \in SUBSET (DOMAIN used)
      /\ \A i \in DOMAIN sessions \ Running : sessions[i].ends < sessionNow
      /\ \A i \in Running : sessions[i].id \notin revoked
  BY <1>1 DEF Booked, Running, Ended
<1> QED
  BY <1>1, <1>2, BookedLeft DEF NotEnded

(* A login adds a session, and may discard the first one.                   *)
LEMMA NewKeeps == ASSUME SessionInv, SessionNew PROVE SessionInv'
<1> DEFINE id  == FreshSession
           all == Append(NotEnded, [id |-> id, ends |-> sessionNow + SessionTimeout])
           use == Append(used, sessionNow)
<1>1. /\ sessions' = IF Len(all) > MaxSessions THEN Tail(all) ELSE all
      /\ revoked' = revoked \union IF Len(all) > MaxSessions THEN {all[1].id} ELSE {}
      /\ used' = use /\ sessionNow' = sessionNow
  BY DEF SessionNew
<1>2. PICK list : list = NotEnded
  OBVIOUS
<1>3. Booked(list, used, revoked, sessionNow) /\ Len(list) <= MaxSessions /\ sessionNow \in Nat
  BY <1>2, BookedNotEnded, SessionNumbers DEF SessionInv, Booked
<1>4. /\ list \in Seq([id : Nat, ends : Nat]) /\ used \in Seq(Nat) /\ Len(list) \in Nat
      /\ id = Len(used) + 1 /\ id \in Nat /\ id \notin DOMAIN used /\ use \in Seq(Nat)
      /\ DOMAIN use = DOMAIN used \union {id} /\ use[id] = sessionNow
      /\ \A x \in DOMAIN used : use[x] = used[x]
      /\ revoked \subseteq DOMAIN used
  BY <1>3 DEF Booked, FreshSession
<1> HIDE DEF id, use
<1>5. PICK e : e = [id |-> id, ends |-> sessionNow + SessionTimeout]
  OBVIOUS
<1>6. e \in [id : Nat, ends : Nat] /\ e.id = id /\ e.ends = sessionNow + SessionTimeout
  BY <1>3, <1>4, <1>5, SessionNumbers
<1>7. PICK a : a = Append(list, e)
  OBVIOUS
<1>8. /\ all = a /\ a \in Seq([id : Nat, ends : Nat]) /\ Len(a) = Len(list) + 1
      /\ \A i \in DOMAIN list : a[i] = list[i] /\ i \in DOMAIN a
      /\ a[Len(a)] = e /\ \A i \in DOMAIN a : i \in DOMAIN list \/ i = Len(a)
  BY SMTT(30), <1>2, <1>4, <1>5, <1>6, <1>7
<1> HIDE DEF all
<1>9. Booked(a, use, revoked, sessionNow)
  <2>4. \A i \in DOMAIN list : /\ list[i].id \in DOMAIN used \ revoked
                               /\ list[i].ends = used[list[i].id] + SessionTimeout
    BY <1>3 DEF Booked
  <2>5. \A i, j \in DOMAIN list : list[i].id = list[j].id => i = j
    BY <1>3 DEF Booked
  <2>6. id \notin revoked
    BY <1>4
  <2>1. ASSUME NEW i \in DOMAIN a
        PROVE  /\ a[i].id \in DOMAIN use \ revoked
               /\ a[i].ends = use[a[i].id] + SessionTimeout
    <3>1. CASE i \in DOMAIN list
      BY <1>4, <1>8, <2>4, <3>1
    <3>2. CASE i = Len(a)
      BY <1>4, <1>6, <1>8, <2>6, <3>2
    <3> QED
      BY <1>8, <3>1, <3>2
  <2>2. \A i, j \in DOMAIN a : a[i].id = a[j].id => i = j
    <3>1. \A i \in DOMAIN list : a[i].id # id /\ a[i] = list[i]
      BY <1>4, <1>8, <2>4
    <3>2. a[Len(a)].id = id
      BY <1>6, <1>8
    <3> QED
      BY <1>8, <2>5, <3>1, <3>2
  <2>3. ASSUME NEW x \in DOMAIN use \ revoked
        PROVE  use[x] + SessionTimeout < sessionNow \/ \E i \in DOMAIN a : a[i].id = x
    <3>1. CASE x = id
      <4>1. Len(a) \in DOMAIN a
        BY <1>4, <1>8
      <4> QED
        BY <1>6, <1>8, <3>1, <4>1
    <3>2. CASE x # id
      <4>1. use[x] = used[x] /\ x \in DOMAIN used \ revoked
        BY <1>4, <3>2
      <4> QED
        <5>1. used[x] + SessionTimeout < sessionNow \/ \E i \in DOMAIN list : list[i].id = x
          BY <1>3, <4>1 DEF Booked
        <5> QED
          BY <1>8, <4>1, <5>1
    <3> QED
      BY <3>1, <3>2
  <2> QED
    BY <1>4, <1>8, <2>1, <2>2, <2>3 DEF Booked
<1>10. CASE Len(a) > MaxSessions
  <2>1. sessions' = Tail(a) /\ revoked' = revoked \union {a[1].id}
    BY <1>1, <1>8, <1>10
  <2>2. PICK t : t = Tail(a)
    OBVIOUS
  <2>3. /\ t \in Seq([id : Nat, ends : Nat]) /\ Len(t) = Len(a) - 1 /\ Len(t) \in Nat
        /\ DOMAIN t = 1..Len(a) - 1 /\ DOMAIN a = 1..Len(a)
        /\ \A i \in DOMAIN t : t[i] = a[i + 1] /\ i + 1 \in DOMAIN a
        /\ \A i \in DOMAIN a : i # 1 => i - 1 \in DOMAIN t /\ t[i - 1] = a[i]
        /\ 1 \in DOMAIN a
    <3>1. Len(a) \in Nat /\ Len(a) > 0
      BY <1>4, <1>8
    <3> QED
      BY SMTT(30), <1>8, <2>2, <3>1
  <2>4. PICK gone : gone = revoked \union {a[1].id}
    OBVIOUS
  <2>5. gone \subseteq DOMAIN use
    <3>1. a[1].id \in DOMAIN use /\ revoked \subseteq DOMAIN use
      BY <1>9, <2>3 DEF Booked
    <3> QED
      BY <2>4, <3>1
  <2>6. \A i \in DOMAIN t : t[i].id \in DOMAIN use \ gone /\ t[i].ends = use[t[i].id] + SessionTimeout
    <3>1. \A i \in DOMAIN t : i + 1 # 1 /\ i + 1 \in DOMAIN a /\ t[i] = a[i + 1]
      BY <2>3
    <3>2. \A i \in DOMAIN t : a[i + 1].id # a[1].id
      BY <1>9, <2>3, <3>1 DEF Booked
    <3> QED
      BY <1>9, <2>4, <3>1, <3>2 DEF Booked
  <2>7. \A i, j \in DOMAIN t : t[i].id = t[j].id => i = j
    <3>1. SUFFICES ASSUME NEW i \in DOMAIN t, NEW j \in DOMAIN t, t[i].id = t[j].id PROVE i = j
      OBVIOUS
    <3>3. i + 1 \in DOMAIN a /\ j + 1 \in DOMAIN a /\ a[i + 1].id = a[j + 1].id
      BY <2>3, <3>1
    <3>2. i + 1 = j + 1
      BY <1>9, <3>3 DEF Booked
    <3> QED
      BY <2>3, <3>2
  <2>8. ASSUME NEW x \in DOMAIN use \ gone
        PROVE  use[x] + SessionTimeout < sessionNow \/ \E i \in DOMAIN t : t[i].id = x
    <3>1. CASE use[x] + SessionTimeout < sessionNow
      BY <3>1
    <3>2. CASE \E i \in DOMAIN a : a[i].id = x
      BY <2>3, <2>4, <3>2
    <3> QED
      BY <1>9, <2>4, <3>1, <3>2 DEF Booked
  <2>9. Booked(t, use, gone, sessionNow) /\ Len(t) <= MaxSessions
    BY <1>3, <1>4, <1>8, <2>3, <2>5, <2>6, <2>7, <2>8, SessionNumbers DEF Booked
  <2> QED
    BY <1>1, <1>3, <2>1, <2>2, <2>4, <2>9 DEF SessionInv, use
<1>11. CASE ~(Len(a) > MaxSessions)
  <2>1. sessions' = a /\ revoked' = revoked
    BY <1>1, <1>8, <1>11
  <2>2. Len(a) <= MaxSessions
    BY <1>4, <1>8, <1>11, SessionNumbers
  <2> QED
    BY <1>1, <1>3, <1>9, <2>1, <2>2 DEF SessionInv, use
<1> QED
  BY <1>10, <1>11

(* A request finds a session that is not over, and extends it.              *)
LEMMA ValidatedKeeps ==
  ASSUME SessionInv, NEW id \in DOMAIN used
  PROVE  LET v == Validated(id)
             use == IF v.ok THEN [used EXCEPT ![id] = sessionNow] ELSE used IN
         /\ Booked(v.list, use, revoked, sessionNow) /\ Len(v.list) <= MaxSessions
         /\ v.ok => Alive(id)
<1> DEFINE found == {i \in Running : sessions[i].id = id}
           entry == [id |-> id, ends |-> sessionNow + SessionTimeout]
<1>1. /\ Booked(sessions, used, revoked, sessionNow) /\ Len(sessions) <= MaxSessions
      /\ sessionNow \in Nat /\ Running \in SUBSET (DOMAIN sessions) /\ Len(sessions) \in Nat
      /\ used \in Seq(Nat) /\ id \in Nat /\ DOMAIN sessions = 1..Len(sessions)
      /\ sessions \in Seq([id : Nat, ends : Nat])
  BY DEF SessionInv, Running, Booked
<1>2. CASE found = {}
  <2>1. Validated(id) = [ok |-> FALSE, list |-> NotEnded]
    BY <1>2 DEF Validated
  <2>2. Len(NotEnded) <= MaxSessions
    BY <1>1, BookedNotEnded, SessionNumbers DEF Booked
  <2> QED
    BY <2>1, <2>2, BookedNotEnded
<1>3. CASE found # {}
  <2>1. PICK at \in found : found = {at}
    <3>1. \A i, j \in found : i = j
      BY <1>1 DEF Booked
    <3> QED
      BY <1>3, <3>1
  <2>2. at = CHOOSE i \in found : \A j \in found : i <= j
    BY <1>1, <2>1
  <2>3. PICK new : new = [sessions EXCEPT ![at] = entry]
    OBVIOUS
  <2>4. PICK I : I = Running \union {j \in DOMAIN sessions : j >= at}
    OBVIOUS
  <2>5. Validated(id) = [ok |-> TRUE, list |-> EntriesAt(new, I)]
    BY <1>3, <2>2, <2>3, <2>4 DEF Validated
  <2>6. PICK use : use = [used EXCEPT ![id] = sessionNow]
    OBVIOUS
  <2>7. /\ use \in Seq(Nat) /\ DOMAIN use = DOMAIN used /\ use[id] = sessionNow
        /\ \A x \in DOMAIN used : x # id => use[x] = used[x]
    BY <1>1, <2>6
  <2>8. /\ at \in DOMAIN sessions /\ sessions[at].id = id /\ ~Ended(sessions[at])
        /\ entry \in [id : Nat, ends : Nat] /\ at \in Running
        /\ entry.id = id /\ entry.ends = sessionNow + SessionTimeout
    BY <1>1, <2>1, SessionNumbers DEF Running
  <2> HIDE DEF entry
  <2>9. /\ new \in Seq([id : Nat, ends : Nat]) /\ DOMAIN new = DOMAIN sessions
        /\ Len(new) = Len(sessions) /\ new[at] = entry
        /\ \A i \in DOMAIN sessions : i # at => new[i] = sessions[i]
    BY <1>1, <2>3, <2>8
  <2>10. \A i \in DOMAIN sessions : new[i].id = sessions[i].id
    BY <2>8, <2>9
  <2>11. \A i \in DOMAIN sessions : i # at => sessions[i].id # id
    BY <1>1, <2>8 DEF Booked
  <2>12. \A i \in DOMAIN new : /\ new[i].id \in DOMAIN use \ revoked
                               /\ new[i].ends = use[new[i].id] + SessionTimeout
    <3>1. ASSUME NEW i \in DOMAIN new, i # at
          PROVE  /\ new[i].id \in DOMAIN use \ revoked
                 /\ new[i].ends = use[new[i].id] + SessionTimeout
      <4>1. /\ sessions[i].id \in DOMAIN used \ revoked
            /\ sessions[i].ends = used[sessions[i].id] + SessionTimeout
        BY <1>1, <2>9 DEF Booked
      <4> QED
        BY <2>7, <2>9, <2>11, <3>1, <4>1
    <3>2. /\ new[at].id \in DOMAIN use \ revoked
          /\ new[at].ends = use[new[at].id] + SessionTimeout
      BY <1>1, <2>7, <2>8, <2>9 DEF Booked
    <3> QED
      BY <3>1, <3>2
  <2>13. \A x \in DOMAIN use \ revoked :
           use[x] + SessionTimeout < sessionNow \/ \E i \in DOMAIN new : new[i].id = x
    <3>1. TAKE x \in DOMAIN use \ revoked
    <3>2. CASE x = id
      BY <2>8, <2>9, <3>2
    <3>3. CASE x # id
      <4>1. x \in DOMAIN used \ revoked /\ use[x] = used[x]
        BY <2>7, <3>1, <3>3
      <4>2. used[x] + SessionTimeout < sessionNow \/ \E i \in DOMAIN sessions : sessions[i].id = x
        BY <1>1, <4>1 DEF Booked
      <4> QED
        BY <2>9, <2>10, <4>1, <4>2
    <3> QED
      BY <3>2, <3>3
  <2>14. Booked(new, use, revoked, sessionNow)
    BY <1>1, <2>7, <2>9, <2>10, <2>12, <2>13 DEF Booked
  <2>15. /\ I \in SUBSET (DOMAIN new) /\ at \in I
         /\ \A i \in DOMAIN new \ I : new[i].ends < sessionNow
         /\ \A i \in I : new[i].id \notin revoked
    <3>1. I \in SUBSET (DOMAIN new) /\ at \in I
      BY <1>1, <2>4, <2>8, <2>9
    <3>2. \A i \in DOMAIN new \ I : i # at /\ Ended(sessions[i])
      BY <2>4, <2>9, <3>1 DEF Running
    <3> QED
      BY <2>9, <2>12, <3>1, <3>2 DEF Ended
  <2>16. Booked(EntriesAt(new, I), use, revoked, sessionNow) /\ Len(EntriesAt(new, I)) <= Len(new)
    <3>1. revoked \in SUBSET (DOMAIN use)
      BY <2>14 DEF Booked
    <3> QED
      BY <2>7, <2>14, <2>15, <3>1, BookedLeft
  <2>17. Len(EntriesAt(new, I)) <= MaxSessions
    BY <1>1, <2>9, <2>16, SessionNumbers DEF Booked
  <2>18. Alive(id)
    <3>1. sessions[at].ends = used[id] + SessionTimeout /\ id \notin revoked
      BY <1>1, <2>8 DEF Booked
    <3>2. used[id] \in Nat
      BY <1>1
    <3> QED
      BY <1>1, <2>8, <3>1, <3>2, SessionNumbers DEF Ended, Alive
  <2> QED
    BY <2>5, <2>6, <2>16, <2>17, <2>18
<1> QED
  BY <1>2, <1>3

LEMMA UseKeeps ==
  ASSUME SessionInv, NEW id \in DOMAIN used, SessionUse(id)
  PROVE  SessionInv'
<1>1. PICK v : v = Validated(id)
  OBVIOUS
<1>2. PICK use : use = IF v.ok THEN [used EXCEPT ![id] = sessionNow] ELSE used
  OBVIOUS
<1>3. Booked(v.list, use, revoked, sessionNow) /\ Len(v.list) <= MaxSessions
  BY <1>1, <1>2, ValidatedKeeps
<1>4. sessions' = v.list /\ used' = use /\ revoked' = revoked /\ sessionNow' = sessionNow
  BY <1>1, <1>2 DEF SessionUse, SessionAccept
<1> QED
  BY <1>3, <1>4 DEF SessionInv

LEMMA LogoutKeeps ==
  ASSUME SessionInv, NEW id \in DOMAIN used, SessionLogout(id)
  PROVE  SessionInv'
<1>1. PICK v : v = Validated(id)
  OBVIOUS
<1>2. PICK use : use = IF v.ok THEN [used EXCEPT ![id] = sessionNow] ELSE used
  OBVIOUS
<1>3. Booked(v.list, use, revoked, sessionNow) /\ Len(v.list) <= MaxSessions
  BY <1>1, <1>2, ValidatedKeeps
<1>4. sessionNow' = sessionNow /\ used' = used /\ sessionNow \in Nat /\ used \in Seq(Nat)
  BY DEF SessionLogout, SessionInv, Booked
<1>5. CASE ~v.ok
  BY <1>1, <1>2, <1>3, <1>4, <1>5 DEF SessionLogout, SessionInv
<1>6. CASE v.ok
  <2>1. PICK I : I = {i \in DOMAIN v.list : v.list[i].id # id}
    OBVIOUS
  <2>2. sessions' = EntriesAt(v.list, I) /\ revoked' = revoked \union {id}
    BY <1>1, <1>6, <2>1 DEF SessionLogout
  <2>3. PICK gone : gone = revoked \union {id}
    OBVIOUS
  <2>4. /\ DOMAIN used = DOMAIN use /\ \A x \in DOMAIN use \ gone : used[x] = use[x]
    BY <1>2, <1>4, <1>6, <2>3
  <2>5. /\ gone \in SUBSET (DOMAIN use) /\ revoked \subseteq gone
        /\ I \in SUBSET (DOMAIN v.list)
        /\ \A i \in DOMAIN v.list \ I : v.list[i].id \in gone
        /\ \A i \in I : v.list[i].id \notin gone
    BY <1>3, <2>1, <2>3, <2>4 DEF Booked
  <2>6. Booked(EntriesAt(v.list, I), used, gone, sessionNow) /\ Len(EntriesAt(v.list, I)) <= Len(v.list)
    <3>1. \A i \in DOMAIN v.list \ I : v.list[i].ends < sessionNow \/ v.list[i].id \in gone
      BY <2>5
    <3>2. PICK list : list = v.list
      OBVIOUS
    <3>3. /\ Booked(list, use, revoked, sessionNow) /\ I \in SUBSET (DOMAIN list)
          /\ gone \in SUBSET (DOMAIN use) /\ revoked \subseteq gone
          /\ \A i \in DOMAIN list \ I : list[i].ends < sessionNow \/ list[i].id \in gone
          /\ \A i \in I : list[i].id \notin gone
      BY <1>3, <2>5, <3>1, <3>2
    <3>4. used \in Seq(Nat) /\ DOMAIN used = DOMAIN use /\ \A x \in DOMAIN use \ gone : used[x] = use[x]
      BY <1>4, <2>4
    <3>5. Booked(EntriesAt(list, I), used, gone, sessionNow) /\ Len(EntriesAt(list, I)) <= Len(list)
      BY <3>3, <3>4, BookedLeft, SMTT(90)
    <3> QED
      BY <3>2, <3>5
  <2>7. Len(EntriesAt(v.list, I)) <= MaxSessions
    BY <1>3, <2>6, SessionNumbers DEF Booked
  <2> QED
    BY <1>4, <2>2, <2>3, <2>6, <2>7 DEF SessionInv
<1> QED
  BY <1>5, <1>6

LEMMA SessionTickKeeps == ASSUME SessionInv, SessionTick PROVE SessionInv'
<1>1. sessionNow' = sessionNow + 1 /\ UNCHANGED <<sessions, used, revoked>>
  BY DEF SessionTick
<1>2. \A id \in DOMAIN used : used[id] + SessionTimeout < sessionNow =>
                              used[id] + SessionTimeout < sessionNow + 1
  BY SessionNumbers DEF SessionInv, Booked
<1>3. Booked(sessions, used, revoked, sessionNow + 1)
  BY <1>2 DEF SessionInv, Booked
<1> QED
  BY <1>1, <1>3 DEF SessionInv

LEMMA SessionStart == SessionsInit => SessionInv
<1> SUFFICES ASSUME SessionsInit PROVE SessionInv
  OBVIOUS
<1>1. <<>> \in Seq([id : Nat, ends : Nat]) /\ <<>> \in Seq(Nat) /\ Len(<<>>) = 0 /\ DOMAIN <<>> = {}
  OBVIOUS
<1> QED
  BY <1>1, SessionNumbers DEF SessionsInit, SessionInv, Booked

LEMMA SessionInvStep == SessionInv /\ [SessionsNext]_sessionVars => SessionInv'
<1> SUFFICES ASSUME SessionInv, [SessionsNext]_sessionVars PROVE SessionInv'
  OBVIOUS
<1>1. CASE UNCHANGED sessionVars
  BY <1>1 DEF sessionVars, SessionInv, Booked
<1>2. CASE SessionNew
  BY <1>2, NewKeeps
<1>3. CASE SessionTick
  BY <1>3, SessionTickKeeps
<1>4. ASSUME NEW id \in DOMAIN used, SessionUse(id) \/ SessionLogout(id) PROVE SessionInv'
  BY <1>4, UseKeeps, LogoutKeeps
<1> QED
  BY <1>1, <1>2, <1>3, <1>4 DEF SessionsNext

LEMMA SessionsRight == SessionInv => SessionsOK
<1> SUFFICES ASSUME SessionInv PROVE SessionsOK
  OBVIOUS
<1>1. Booked(sessions, used, revoked, sessionNow) /\ sessionNow \in Nat
  BY DEF SessionInv
<1>2. ASSUME NEW id \in DOMAIN used, Alive(id)
      PROVE  \E i \in DOMAIN sessions : sessions[i].id = id /\ ~Ended(sessions[i])
  <2>1. used[id] \in Nat /\ id \notin revoked /\ sessionNow <= used[id] + SessionTimeout
    BY <1>1, <1>2 DEF Alive, Booked
  <2>2. PICK i \in DOMAIN sessions : sessions[i].id = id
    BY <1>1, <2>1, SessionNumbers DEF Booked
  <2>3. sessions[i].ends = used[id] + SessionTimeout
    BY <1>1, <2>2 DEF Booked
  <2> QED
    BY <1>1, <2>1, <2>2, <2>3, SessionNumbers DEF Ended
<1>3. ASSUME NEW id \in DOMAIN used, NEW i \in DOMAIN sessions,
             sessions[i].id = id, ~Ended(sessions[i])
      PROVE  Alive(id)
  <2>1. sessions[i].ends = used[id] + SessionTimeout /\ id \notin revoked /\ used[id] \in Nat
    BY <1>1, <1>3 DEF Booked
  <2> QED
    BY <1>1, <1>3, <2>1, SessionNumbers DEF Ended, Alive
<1> QED
  BY <1>2, <1>3 DEF SessionsOK, SessionInv

(* Without an entry that ended, the list has as many entries as there are   *)
(* sessions that are not over.                                             *)
LEMMA AliveListed ==
  ASSUME SessionInv
  PROVE  /\ Cardinality({s \in DOMAIN used : Alive(s)}) = Len(NotEnded) /\ Len(NotEnded) \in Nat
         /\ \A k \in DOMAIN NotEnded : NotEnded[k].id \in DOMAIN used \ revoked
<1> DEFINE A == {s \in DOMAIN used : Alive(s)}
           f == [i \in Running |-> sessions[i].id]
<1>1. /\ Booked(sessions, used, revoked, sessionNow) /\ SessionsOK
      /\ Running \in SUBSET (DOMAIN sessions) /\ sessions \in Seq([id : Nat, ends : Nat])
  BY SessionsRight DEF SessionInv, Running, Booked
<1>2. IsFiniteSet(Running) /\ Cardinality(Running) = Len(NotEnded) /\ Cardinality(Running) \in Nat
  BY <1>1, AtPositions DEF NotEnded
<1>3. \A i \in Running : f[i] \in A
  BY <1>1 DEF SessionsOK, Running, Booked
<1>4. \A i, j \in Running : f[i] = f[j] => i = j
  BY <1>1 DEF Booked
<1>5. \A s \in A : \E i \in Running : f[i] = s
  BY <1>1 DEF SessionsOK, Running
<1> HIDE DEF A, f
<1>6. f \in Bijection(Running, A)
  <2>1. f = [i \in Running |-> f[i]]
    BY DEF f
  <2> QED
    BY <1>3, <1>4, <1>5, <2>1 DEF Bijection, Injection, Surjection, IsInjective
<1>7. Cardinality(A) = Cardinality(Running)
  BY <1>2, <1>6, FS_Bijection DEF ExistsBijection
<1>8. \A k \in DOMAIN NotEnded : NotEnded[k].id \in DOMAIN used \ revoked
  BY BookedNotEnded DEF Booked
<1> QED
  BY <1>2, <1>7, <1>8 DEF A

(* A step accepts only a session that is not over, and discards one only    *)
(* for lack of room.                                                       *)
LEMMA SessionStepRight ==
  ASSUME SessionInv, [SessionsNext]_sessionVars
  PROVE  [/\ acceptedWith' # NoSession => Alive(acceptedWith')
          /\ Len(used') > Len(used) =>
               \A id \in revoked' : Alive(id) =>
                 Cardinality({s \in DOMAIN used : Alive(s)}) = MaxSessions]_sessionVars
<1>1. CASE UNCHANGED sessionVars
  BY <1>1
<1>2. CASE SessionNew
  <2> DEFINE all == Append(NotEnded, [id |-> FreshSession, ends |-> sessionNow + SessionTimeout])
             n == Cardinality({s \in DOMAIN used : Alive(s)})
  <2>1. acceptedWith' = NoSession
        /\ revoked' = revoked \union IF Len(all) > MaxSessions THEN {all[1].id} ELSE {}
    BY <1>2 DEF SessionNew
  <2>2. ASSUME NEW id \in revoked', Alive(id) PROVE n = MaxSessions
    <3>1. id \notin revoked
      BY <2>2 DEF Alive
    <3>2. Len(all) > MaxSessions
      BY <2>1, <2>2, <3>1
    <3>3. Len(all) = Len(NotEnded) + 1 /\ n = Len(NotEnded) /\ Len(NotEnded) \in Nat
      BY AliveListed, BookedNotEnded DEF Booked
    <3>4. Len(NotEnded) <= MaxSessions
      BY <3>3, BookedNotEnded, SessionNumbers DEF SessionInv, Booked
    <3> HIDE DEF all, n
    <3> QED
      BY <3>2, <3>3, <3>4, SessionNumbers
  <2> QED
    BY <2>1, <2>2
<1>3. CASE SessionTick
  <2>1. acceptedWith' = NoSession /\ used' = used
    BY <1>3 DEF SessionTick
  <2>2. ~(Len(used') > Len(used))
    BY <2>1 DEF SessionInv, Booked
  <2> QED
    BY <2>1, <2>2
<1>4. ASSUME NEW id \in DOMAIN used, SessionLogout(id)
      PROVE  acceptedWith' = NoSession /\ ~(Len(used') > Len(used))
  BY <1>4 DEF SessionLogout, SessionInv, Booked
<1>5. ASSUME NEW id \in DOMAIN used, SessionUse(id)
      PROVE  (acceptedWith' # NoSession => Alive(acceptedWith')) /\ ~(Len(used') > Len(used))
  <2>1. Validated(id).ok => Alive(id)
    BY ValidatedKeeps
  <2>2. acceptedWith' = IF Validated(id).ok THEN id ELSE NoSession
    BY <1>5 DEF SessionUse, SessionAccept
  <2>3. used' = [used EXCEPT ![id] = sessionNow] \/ used' = used
    BY <1>5 DEF SessionUse, SessionAccept
  <2>4. used \in Seq(Nat) /\ sessionNow \in Nat
    BY DEF SessionInv, Booked
  <2>5. Len(used') = Len(used) /\ Len(used) \in Nat
    BY <2>3, <2>4
  <2> QED
    BY <2>1, <2>2, <2>5
<1> QED
  BY <1>1, <1>2, <1>3, <1>4, <1>5 DEF SessionsNext

(* A session is valid from its login until it was not used for the timeout, *)
(* was logged out or made room, and no request is accepted with another     *)
(* (webserver/sessions.c).                                                 *)
THEOREM SessionsCorrect == SessionsSpec => SessionsKept
<1>1. SessionsSpec => []SessionInv
  BY SessionStart, SessionInvStep, PTL DEF SessionsSpec
<1>2. SessionsSpec => SessionSteps
  BY <1>1, SessionStepRight, PTL DEF SessionsSpec, SessionSteps
<1> QED
  BY <1>1, <1>2, SessionsRight, PTL DEF SessionsKept

-----------------------------------------------------------------------------
(* The triggers.                                                            *)

\* the entries have keys of their own and are in the order of their names
OnceInOrder(s) ==
  \A i, j \in DOMAIN s : i < j => s[i].key # s[j].key /\ s[i].name <= s[j].name

\* a list, or what the file has of one, holds the triggers that are due
HoldsDue(s, due, n) ==
  /\ s \in Seq(Trigger) /\ Len(s) <= TriggerMax + 1 /\ OnceInOrder(s)
  /\ Range(s) = due /\ \A i \in DOMAIN s : s[i].key <= n

\* The inductive invariant: list and file hold what is due, and have place for no more
\* than can be read back.
TriggerInv ==
  /\ triggerSaves \in 0..TriggerSaves
  /\ HoldsDue(triggers, dueTriggers, triggerSaves)
  /\ HoldsDue(triggerFile, dueInFile, triggerSaves)
  /\ TriggersAddressed
  /\ startedTriggers \subseteq {t.key : t \in dueTriggers}

(* What the sort makes of a list holds the same triggers.                   *)
LEMMA SortedTriggers ==
  ASSUME NEW s \in Seq(Trigger), \A i, j \in DOMAIN s : i # j => s[i].key # s[j].key
  PROVE  /\ TriggerSort(s) \in Seq(Trigger) /\ Len(TriggerSort(s)) = Len(s)
         /\ OnceInOrder(TriggerSort(s)) /\ Range(TriggerSort(s)) = Range(s)
<1>1. \A i \in DOMAIN s : s[i].name \in Int
  <2>1. \A i \in DOMAIN s : s[i] \in Trigger
    OBVIOUS
  <2> QED
    BY <2>1, TriggerAssumption DEF Trigger
<1>2. PICK t : t = NameSorted(s)
  OBVIOUS
<1>3. /\ t \in Seq(Trigger) /\ Len(t) = Len(s) /\ DOMAIN t = DOMAIN s
      /\ \A j, k \in DOMAIN s : j < k => t[j].name <= t[k].name
  <2>1. /\ t \in Seq(Trigger) /\ Len(t) = Len(s)
        /\ \A j, k \in DOMAIN s : j < k => t[j].name <= t[k].name
    BY <1>1, <1>2, NamesSorted
  <2> QED
    BY <2>1
<1>4. PICK p \in Bijection(DOMAIN s, DOMAIN s) : \A k \in DOMAIN s : t[k] = s[p[k]]
  BY <1>1, <1>2, NamesSorted
<1>5. /\ \A k \in DOMAIN s : p[k] \in DOMAIN s
      /\ \A i \in DOMAIN s : \E k \in DOMAIN s : p[k] = i
      /\ \A j, k \in DOMAIN s : p[j] = p[k] => j = k
  <2>1. p \in [DOMAIN s -> DOMAIN s] /\ IsInjective(p) /\ \A i \in DOMAIN s : \E k \in DOMAIN s : p[k] = i
    BY <1>4 DEF Bijection, Injection, Surjection
  <2>2. \A j, k \in DOMAIN s : p[j] = p[k] => j = k
    BY <2>1 DEF IsInjective
  <2> QED
    BY <2>1, <2>2
<1>6. Range(t) = Range(s)
  <2>1. \A k \in DOMAIN t : \E i \in DOMAIN s : t[k] = s[i]
    BY <1>3, <1>4, <1>5
  <2>2. \A i \in DOMAIN s : \E k \in DOMAIN t : t[k] = s[i]
    <3>1. SUFFICES ASSUME NEW i \in DOMAIN s PROVE \E k \in DOMAIN t : t[k] = s[i]
      OBVIOUS
    <3>2. PICK k \in DOMAIN s : p[k] = i
      BY <1>5
    <3> QED
      BY <1>3, <1>4, <3>2
  <2> QED
    BY <2>1, <2>2 DEF Range
<1>7. OnceInOrder(t)
  <2>1. SUFFICES ASSUME NEW j \in DOMAIN t, NEW k \in DOMAIN t, j < k
                 PROVE  t[j].key # t[k].key /\ t[j].name <= t[k].name
    BY DEF OnceInOrder
  <2>2. j \in Int /\ k \in Int /\ j # k
    BY <1>3, <2>1
  <2>3. p[j] # p[k]
    BY <1>3, <1>5, <2>2
  <2>4. p[j] \in DOMAIN s /\ p[k] \in DOMAIN s /\ t[j] = s[p[j]] /\ t[k] = s[p[k]]
    BY <1>3, <1>4, <1>5, <2>1
  <2>5. t[j].key # t[k].key
    BY <2>3, <2>4
  <2> QED
    BY <1>3, <2>1, <2>5
<1> QED
  BY <1>2, <1>3, <1>6, <1>7 DEF TriggerSort

(* Triggers with different positions in a list are different.               *)
LEMMA KeysDiffer ==
  ASSUME NEW s \in Seq(Trigger), OnceInOrder(s), NEW i \in DOMAIN s, NEW j \in DOMAIN s, i # j
  PROVE  s[i].key # s[j].key /\ s[i] # s[j]
<1>1. i \in Int /\ j \in Int
  OBVIOUS
<1>2. CASE i < j
  BY <1>2 DEF OnceInOrder
<1>3. CASE j < i
  BY <1>3 DEF OnceInOrder
<1> QED
  BY <1>1, <1>2, <1>3

(* What every change of the list does.                                      *)
LEMMA ChangedKeeps ==
  ASSUME TriggerInv, NEW new, NEW due, NEW n \in triggerSaves..TriggerSaves, HoldsDue(new, due, n),
         triggers' = new, dueTriggers' = due, triggerSaves' = n,
         triggerFile' = triggerFile, dueInFile' = dueInFile,
         startedTriggers' = {}, TriggersAddressed'
  PROVE  TriggerInv'
<1>1. n \in 0..TriggerSaves /\ triggerSaves \in Nat /\ triggerSaves <= n
  BY TriggerAssumption DEF TriggerInv
<1>2. HoldsDue(triggerFile, dueInFile, n)
  <2>1. HoldsDue(triggerFile, dueInFile, triggerSaves)
    BY DEF TriggerInv
  <2>2. \A i \in DOMAIN triggerFile : triggerFile[i].key <= n
    <3>1. \A i \in DOMAIN triggerFile : triggerFile[i].key <= triggerSaves /\ triggerFile[i] \in Trigger
      BY <2>1 DEF HoldsDue
    <3>2. \A t \in Trigger : t.key \in Int
      BY TriggerAssumption DEF Trigger
    <3> QED
      BY <1>1, <3>1, <3>2
  <2> QED
    BY <2>1, <2>2 DEF HoldsDue
<1>3. HoldsDue(triggers, dueTriggers, triggerSaves)' /\ HoldsDue(triggerFile, dueInFile, triggerSaves)'
  BY <1>2 DEF HoldsDue, OnceInOrder, Range
<1> QED
  BY <1>1, <1>3 DEF TriggerInv

(* A list without the trigger at a position.                                *)
LEMMA RemovedTrigger ==
  ASSUME NEW s, NEW due, NEW n, HoldsDue(s, due, n), NEW i \in DOMAIN s
  PROVE  HoldsDue(RemoveAt(s, i), due \ {s[i]}, n) /\ Len(RemoveAt(s, i)) = Len(s) - 1
<1>1. PICK r : r = RemoveAt(s, i)
  OBVIOUS
<1>3. s \in Seq(Trigger) /\ OnceInOrder(s) /\ Len(s) <= TriggerMax + 1 /\ Range(s) = due
      /\ \A j \in DOMAIN s : s[j].key <= n
  BY DEF HoldsDue
<1>4. /\ r \in Seq(Trigger) /\ DOMAIN r = 1..Len(s) - 1 /\ Len(r) = Len(s) - 1
      /\ \A k \in DOMAIN r : r[k] = IF k < i THEN s[k] ELSE s[k + 1]
  BY <1>1, <1>3, RemovedAt
<1>5. Len(s) \in Nat /\ DOMAIN s = 1..Len(s) /\ i \in 1..Len(s)
  BY <1>3
<1>6. \A k \in DOMAIN r : \E a \in DOMAIN s : r[k] = s[a] /\ a # i /\ (a = k \/ a = k + 1)
  <2>1. SUFFICES ASSUME NEW k \in DOMAIN r
                 PROVE  \E a \in DOMAIN s : r[k] = s[a] /\ a # i /\ (a = k \/ a = k + 1)
    OBVIOUS
  <2>2. k \in DOMAIN s /\ k + 1 \in DOMAIN s /\ (k < i \/ k + 1 # i) /\ (k < i => k # i)
    BY <1>4, <1>5, <2>1
  <2>3. CASE k < i
    BY <1>4, <2>2, <2>3
  <2>4. CASE ~(k < i)
    BY <1>4, <2>2, <2>4
  <2> QED
    BY <2>3, <2>4
<1>7. OnceInOrder(r)
  <2>1. SUFFICES ASSUME NEW j \in DOMAIN r, NEW k \in DOMAIN r, j < k
                 PROVE  r[j].key # r[k].key /\ r[j].name <= r[k].name
    BY DEF OnceInOrder
  <2>2. PICK a \in {j, j + 1}, b \in {k, k + 1} : r[j] = s[a] /\ r[k] = s[b] /\ a < b
                                                 /\ a \in DOMAIN s /\ b \in DOMAIN s
    BY <1>4, <1>5, <2>1
  <2> QED
    BY <1>3, <2>2 DEF OnceInOrder
<1>8. Range(r) = due \ {s[i]}
  <2>1. \A k \in DOMAIN r : r[k] \in due \ {s[i]}
    <3>1. SUFFICES ASSUME NEW k \in DOMAIN r PROVE r[k] \in due \ {s[i]}
      OBVIOUS
    <3>2. PICK a \in DOMAIN s : r[k] = s[a] /\ a # i
      BY <1>6
    <3>3. s[a] # s[i]
      BY <1>3, <3>2, KeysDiffer
    <3>4. s[a] \in due
      BY <1>3 DEF Range
    <3> QED
      BY <3>2, <3>3, <3>4
  <2>2. \A t \in due \ {s[i]} : \E k \in DOMAIN r : r[k] = t
    <3>1. SUFFICES ASSUME NEW t \in due, t # s[i] PROVE \E k \in DOMAIN r : r[k] = t
      OBVIOUS
    <3>2. PICK a \in DOMAIN s : t = s[a]
      BY <1>3 DEF Range
    <3>3. a # i /\ a \in 1..Len(s)
      BY <1>5, <3>1, <3>2
    <3>4. CASE a < i
      <4>1. a \in DOMAIN r
        BY <1>4, <1>5, <3>3, <3>4
      <4> QED
        BY <1>4, <3>2, <3>4, <4>1
    <3>5. CASE ~(a < i)
      <4>1. a - 1 \in DOMAIN r /\ ~(a - 1 < i) /\ a - 1 + 1 = a
        BY <1>4, <1>5, <3>3, <3>5
      <4> QED
        BY <1>4, <3>2, <4>1
    <3> QED
      BY <3>4, <3>5
  <2> QED
    BY <2>1, <2>2 DEF Range
<1>9. \A k \in DOMAIN r : r[k].key <= n
  BY <1>3, <1>6
<1>10. Len(r) <= TriggerMax + 1
  BY <1>3, <1>4, <1>5, TriggerAssumption
<1> QED
  BY <1>1, <1>4, <1>7, <1>8, <1>9, <1>10 DEF HoldsDue

(* The trigger a client means is the one at the position.                   *)
LEMMA MeantIsThere ==
  ASSUME TriggersAddressed, NEW id
  PROVE  MeantTrigger(id) = triggers[id + 1]
BY DEF TriggersAddressed, MeantTrigger

LEMMA TriggerSaveKeeps ==
  ASSUME TriggerInv, NEW id \in -1..TriggerMax, NEW name \in TriggerNames, NEW part \in TriggerScopes,
         TriggerSave(id, name, part)
  PROVE  TriggerInv'
<1>1. PICK new : new = [key |-> triggerSaves + 1, name |-> name, part |-> part]
  OBVIOUS
<1>2. PICK rest : rest = IF id >= 0 THEN RemoveAt(triggers, id + 1) ELSE triggers
  OBVIOUS
<1>3. PICK due : due = IF id >= 0 THEN dueTriggers \ {MeantTrigger(id)} ELSE dueTriggers
  OBVIOUS
<1>4. PICK all : all = Append(rest, new)
  OBVIOUS
<1>5. PICK sorted : sorted = TriggerSort(all)
  OBVIOUS
<1>6. /\ TriggersChanged(sorted, due \union {new}) /\ triggerSaves' = triggerSaves + 1
      /\ triggerSaves < TriggerSaves /\ Len(triggers) <= TriggerMax /\ (id >= 0 => id < Len(triggers))
  BY <1>1, <1>2, <1>3, <1>4, <1>5 DEF TriggerSave, TriggerFound
<1>7. /\ triggerSaves \in Nat /\ TriggerSaves \in Nat /\ triggerSaves + 1 \in 1..TriggerSaves
      /\ triggerSaves + 1 \in triggerSaves..TriggerSaves /\ id \in Int /\ TriggerMax \in Nat
  BY <1>6, TriggerAssumption DEF TriggerInv
<1>8. new \in Trigger /\ new.key = triggerSaves + 1
  BY <1>1, <1>7 DEF Trigger
<1>9. HoldsDue(triggers, dueTriggers, triggerSaves) /\ triggers \in Seq(Trigger)
  BY DEF TriggerInv, HoldsDue
<1>10. HoldsDue(rest, due, triggerSaves) /\ Len(rest) <= TriggerMax
  <2>1. CASE id >= 0
    <3>1. id + 1 \in DOMAIN triggers
      BY <1>6, <1>7, <1>9, <2>1
    <3>2. MeantTrigger(id) = triggers[id + 1]
      BY MeantIsThere DEF TriggerInv
    <3>3. rest = RemoveAt(triggers, id + 1) /\ due = dueTriggers \ {triggers[id + 1]}
      BY <1>2, <1>3, <2>1, <3>2
    <3>4. HoldsDue(rest, due, triggerSaves) /\ Len(rest) = Len(triggers) - 1
      BY <1>9, <3>1, <3>3, RemovedTrigger
    <3>5. Len(rest) <= TriggerMax
      BY <1>6, <1>7, <1>9, <3>4
    <3> QED
      BY <3>4, <3>5
  <2>2. CASE ~(id >= 0)
    BY <1>2, <1>3, <1>6, <1>9, <2>2
  <2> QED
    BY <2>1, <2>2
<1>11. /\ rest \in Seq(Trigger) /\ Range(rest) = due /\ OnceInOrder(rest)
       /\ \A i \in DOMAIN rest : rest[i].key <= triggerSaves /\ rest[i].key \in Int
  <2>1. /\ rest \in Seq(Trigger) /\ Range(rest) = due /\ OnceInOrder(rest)
        /\ \A i \in DOMAIN rest : rest[i].key <= triggerSaves
    BY <1>10 DEF HoldsDue
  <2>2. \A t \in Trigger : t.key \in Int
    BY <1>7 DEF Trigger
  <2> QED
    BY <2>1, <2>2
<1>12. /\ all \in Seq(Trigger) /\ Len(all) = Len(rest) + 1 /\ Len(rest) \in Nat
       /\ \A i \in DOMAIN rest : i \in DOMAIN all /\ all[i] = rest[i]
       /\ Len(all) \in DOMAIN all /\ all[Len(all)] = new
       /\ \A i \in DOMAIN all : i \in DOMAIN rest \/ i = Len(all)
  BY <1>4, <1>8, <1>11
<1>13. Range(all) = due \union {new}
  BY <1>11, <1>12 DEF Range
<1>14. \A i, j \in DOMAIN all : i # j => all[i].key # all[j].key
  <2>1. SUFFICES ASSUME NEW i \in DOMAIN all, NEW j \in DOMAIN all, i # j PROVE all[i].key # all[j].key
    OBVIOUS
  <2>2. CASE i \in DOMAIN rest /\ j \in DOMAIN rest
    BY <1>11, <1>12, <2>1, <2>2, KeysDiffer
  <2>3. CASE i \notin DOMAIN rest \/ j \notin DOMAIN rest
    <3>1. \A k \in DOMAIN rest : all[k].key # new.key
      BY <1>7, <1>8, <1>11, <1>12
    <3> QED
      BY <1>12, <2>1, <2>3, <3>1
  <2> QED
    BY <2>2, <2>3
<1>15. /\ sorted \in Seq(Trigger) /\ Len(sorted) = Len(all) /\ OnceInOrder(sorted)
       /\ Range(sorted) = due \union {new}
  BY <1>5, <1>12, <1>13, <1>14, SortedTriggers
<1>16. \A i \in DOMAIN sorted : sorted[i].key <= triggerSaves + 1
  <2>1. SUFFICES ASSUME NEW i \in DOMAIN sorted PROVE sorted[i].key <= triggerSaves + 1
    OBVIOUS
  <2>2. sorted[i] \in due \union {new}
    BY <1>15 DEF Range
  <2>3. CASE sorted[i] = new
    BY <1>7, <1>8, <2>3
  <2>4. CASE sorted[i] \in due
    <3>1. PICK k \in DOMAIN rest : sorted[i] = rest[k]
      BY <1>11, <2>4 DEF Range
    <3> QED
      BY <1>7, <1>11, <3>1
  <2> QED
    BY <2>2, <2>3, <2>4
<1>17. Len(sorted) <= TriggerMax + 1
  BY <1>7, <1>10, <1>12, <1>15
<1>18. HoldsDue(sorted, due \union {new}, triggerSaves + 1)
  BY <1>15, <1>16, <1>17 DEF HoldsDue
<1>19. /\ triggers' = sorted /\ dueTriggers' = due \union {new} /\ triggerFile' = triggerFile
       /\ dueInFile' = dueInFile /\ shownTriggers' = <<>> /\ startedTriggers' = {}
  BY <1>6 DEF TriggersChanged
<1>20. TriggersAddressed'
  BY <1>19 DEF TriggersAddressed
<1> QED
  BY <1>6, <1>7, <1>18, <1>19, <1>20, ChangedKeeps

LEMMA TriggerDeleteKeeps ==
  ASSUME TriggerInv, NEW id \in 0..TriggerMax, TriggerDelete(id)
  PROVE  TriggerInv'
<1>1. PICK r : r = RemoveAt(triggers, id + 1)
  OBVIOUS
<1>2. PICK due : due = dueTriggers \ {MeantTrigger(id)}
  OBVIOUS
<1>3. id < Len(triggers) /\ TriggersChanged(r, due) /\ triggerSaves' = triggerSaves
  BY <1>1, <1>2 DEF TriggerDelete, TriggerFound
<1>4. HoldsDue(triggers, dueTriggers, triggerSaves) /\ triggers \in Seq(Trigger)
  BY DEF TriggerInv, HoldsDue
<1>5. id + 1 \in DOMAIN triggers
  BY <1>3, <1>4
<1>6. MeantTrigger(id) = triggers[id + 1]
  BY MeantIsThere DEF TriggerInv
<1>7. HoldsDue(r, due, triggerSaves)
  BY <1>1, <1>2, <1>4, <1>5, <1>6, RemovedTrigger
<1>8. triggerSaves \in triggerSaves..TriggerSaves
  BY TriggerAssumption DEF TriggerInv
<1>9. /\ triggers' = r /\ dueTriggers' = due /\ triggerFile' = triggerFile
      /\ dueInFile' = dueInFile /\ shownTriggers' = <<>> /\ startedTriggers' = {}
  BY <1>3 DEF TriggersChanged
<1>10. TriggersAddressed'
  BY <1>9 DEF TriggersAddressed
<1> QED
  BY <1>3, <1>7, <1>8, <1>9, <1>10, ChangedKeeps

(* What a partition leaves that takes entries from the head of the list: if *)
(* those are its own, all others.                                          *)
LEMMA PartitionLeaves ==
  ASSUME TriggerInv, NEW p
  PROVE  /\ HoldsDue(TriggerDeletePartition(p), DueWithout(p), triggerSaves)
         /\ TriggersOf(p) = {} => TriggerDeletePartition(p) = triggers
<1>1. PICK s : s = triggers
  OBVIOUS
<1>2. PICK I : I = TriggersOf(p)
  OBVIOUS
<1>3. PICK n : n = Cardinality(I)
  OBVIOUS
<1>4. PICK r : r = SubSeq(s, n + 1, Len(s))
  OBVIOUS
<1>5. /\ s \in Seq(Trigger) /\ Len(s) \in Nat /\ DOMAIN s = 1..Len(s) /\ OnceInOrder(s)
      /\ Len(s) <= TriggerMax + 1 /\ Range(s) = dueTriggers /\ \A i \in DOMAIN s : s[i].key <= triggerSaves
  BY <1>1 DEF TriggerInv, HoldsDue
<1>6. I = {i \in DOMAIN s : s[i].part = p} /\ I \in SUBSET (1..Len(s))
  BY <1>1, <1>2, <1>5 DEF TriggersOf
<1>7. n \in Nat /\ n <= Len(s) /\ IsFiniteSet(I)
  <2>1. IsFiniteSet(1..Len(s)) /\ Cardinality(1..Len(s)) = Len(s)
    <3>1. PICK l \in Nat : l = Len(s)
      BY <1>5
    <3>2. 1 \in Int /\ l \in Int
      OBVIOUS
    <3>3. IsFiniteSet(1..l) /\ Cardinality(1..l) = IF 1 > l THEN 0 ELSE l - 1 + 1
      BY <3>2, FS_Interval
    <3>4. Cardinality(1..l) = l
      BY <3>3
    <3> QED
      BY <3>1, <3>3, <3>4
  <2>2. IsFiniteSet(I) /\ Cardinality(I) <= Cardinality(1..Len(s))
    BY <1>6, <2>1, FS_Subset
  <2>3. Cardinality(I) \in Nat
    BY <2>2, FS_CardinalityType
  <2> QED
    BY <1>3, <2>1, <2>2, <2>3
<1>8. /\ r \in Seq(Trigger) /\ DOMAIN r = 1..Len(s) - n /\ Len(r) = Len(s) - n
      /\ \A k \in DOMAIN r : k + n \in DOMAIN s /\ r[k] = s[k + n] /\ k \in Nat
  <2>1. CASE n < Len(s)
    <3>1. PICK m : m = Len(s) - n
      OBVIOUS
    <3>2. m \in Nat /\ n + m = Len(s)
      BY <1>5, <1>7, <2>1, <3>1
    <3>3. r \in Seq(Trigger) /\ Len(r) = m
      <4>1. n + 1 \in Nat /\ n + 1 <= Len(s) /\ Len(s) - (n + 1) + 1 = m
        BY <1>5, <1>7, <2>1, <3>1
      <4>2. \A k \in n + 1..Len(s) : s[k] \in Trigger
        BY <1>5, <1>7
      <4>3. Len(r) = m
        BY <1>4, <1>5, <4>1
      <4>4. r \in Seq(Trigger)
        BY <1>4, <1>5, <4>1, <4>2
      <4> QED
        BY <4>3, <4>4
    <3>4. \A k \in 1..m : r[k] = s[k + n] /\ k + n \in 1..Len(s)
      BY <1>4, <1>5, <1>7, <3>2
    <3> QED
      BY <1>5, <3>1, <3>2, <3>3, <3>4
  <2>2. CASE ~(n < Len(s))
    <3>1. n = Len(s)
      BY <1>5, <1>7, <2>2
    <3>2. r = <<>> /\ 1..Len(s) - n = {}
      BY <1>4, <1>5, <3>1
    <3> QED
      BY <1>5, <3>1, <3>2
  <2> QED
    BY <2>1, <2>2
<1>9. OnceInOrder(r)
  <2>1. SUFFICES ASSUME NEW j \in DOMAIN r, NEW k \in DOMAIN r, j < k
                 PROVE  r[j].key # r[k].key /\ r[j].name <= r[k].name
    BY DEF OnceInOrder
  <2>2. j + n < k + n
    BY <1>7, <1>8, <2>1
  <2>3. s[j + n].key # s[k + n].key /\ s[j + n].name <= s[k + n].name
    BY <1>5, <1>8, <2>2 DEF OnceInOrder
  <2> QED
    BY <1>8, <2>3
<1>10. TriggerDeletePartition(p) = r
  BY <1>1, <1>2, <1>3, <1>4 DEF TriggerDeletePartition
<1>11. Range(r) = DueWithout(p)
  <2>1. CASE \A i \in 1..n : s[i].part = p
    <3>1. 1..n \in SUBSET I
      BY <1>5, <1>6, <1>7, <2>1
    <3>2. Cardinality(1..n) = n
      BY <1>7, FS_Interval
    <3>3. I = 1..n
      BY <1>3, <1>7, <3>1, <3>2, FS_Subset
    <3>4. DueWithout(p) = {t \in dueTriggers : t.part # p}
      BY <1>1, <1>2, <1>3, <2>1 DEF DueWithout
    <3>5. \A k \in DOMAIN r : r[k] \in dueTriggers /\ r[k].part # p
      <4>1. SUFFICES ASSUME NEW k \in DOMAIN r PROVE r[k] \in dueTriggers /\ r[k].part # p
        OBVIOUS
      <4>2. k + n \in DOMAIN s /\ r[k] = s[k + n] /\ k + n \notin 1..n
        BY <1>7, <1>8
      <4>3. s[k + n].part # p
        BY <1>6, <3>3, <4>2
      <4> QED
        BY <1>5, <4>2, <4>3 DEF Range
    <3>6. \A t \in dueTriggers : t.part # p => \E k \in DOMAIN r : r[k] = t
      <4>1. SUFFICES ASSUME NEW t \in dueTriggers, t.part # p PROVE \E k \in DOMAIN r : r[k] = t
        OBVIOUS
      <4>2. PICK i \in DOMAIN s : t = s[i]
        BY <1>5 DEF Range
      <4>3. i \notin 1..n /\ i \in 1..Len(s)
        BY <1>5, <1>6, <3>3, <4>1, <4>2
      <4>4. i - n \in DOMAIN r /\ i - n + n = i
        BY <1>5, <1>7, <1>8, <4>3
      <4> QED
        BY <1>8, <4>2, <4>4
    <3> QED
      BY <3>4, <3>5, <3>6 DEF Range
  <2>2. CASE ~(\A i \in 1..n : s[i].part = p)
    BY <1>1, <1>2, <1>3, <1>10, <2>2 DEF DueWithout
  <2> QED
    BY <2>1, <2>2
<1>12. \A k \in DOMAIN r : r[k].key <= triggerSaves
  BY <1>5, <1>8
<1>13. Len(r) <= TriggerMax + 1
  BY <1>5, <1>7, <1>8, TriggerAssumption
<1>14. ASSUME TriggersOf(p) = {} PROVE r = s
  <2>1. n = 0
    BY <1>2, <1>3, <1>14, FS_EmptySet
  <2> QED
    BY <1>4, <1>5, <1>8, <2>1
<1> QED
  BY <1>1, <1>8, <1>9, <1>10, <1>11, <1>12, <1>13, <1>14 DEF HoldsDue

LEMMA PartitionKeeps ==
  ASSUME TriggerInv, NEW p \in TriggerPartitions, PartitionRemoved(p)
  PROVE  TriggerInv'
<1>1. PICK r : r = TriggerDeletePartition(p)
  OBVIOUS
<1>2. PICK due : due = DueWithout(p)
  OBVIOUS
<1>3. HoldsDue(r, due, triggerSaves) /\ (TriggersOf(p) = {} => r = triggers)
  BY <1>1, <1>2, PartitionLeaves
<1>4. /\ triggers' = r /\ dueTriggers' = due /\ triggerSaves' = triggerSaves
      /\ triggerFile' = triggerFile /\ dueInFile' = dueInFile /\ startedTriggers' = {}
      /\ shownTriggers' = (IF TriggersOf(p) = {} THEN shownTriggers ELSE <<>>)
  BY <1>1, <1>2 DEF PartitionRemoved
<1>5. TriggersAddressed'
  <2>1. CASE TriggersOf(p) = {}
    <3>1. triggers' = triggers /\ shownTriggers' = shownTriggers
      BY <1>3, <1>4, <2>1
    <3> QED
      BY <3>1 DEF TriggerInv, TriggersAddressed, TriggerFound
  <2>2. CASE TriggersOf(p) # {}
    <3>1. shownTriggers' = <<>>
      BY <1>4, <2>2
    <3> QED
      BY <3>1 DEF TriggersAddressed
  <2> QED
    BY <2>1, <2>2
<1>6. triggerSaves \in triggerSaves..TriggerSaves
  BY TriggerAssumption DEF TriggerInv
<1> QED
  BY <1>3, <1>4, <1>5, <1>6, ChangedKeeps

(* A restart brings back what was due when the file was written: the file   *)
(* has no more lines than are read.                                        *)
LEMMA RestartKeepsTriggers == ASSUME TriggerInv, TriggersRestart PROVE TriggerInv'
<1>1. PICK file : file = triggerFile
  OBVIOUS
<1>2. PICK readable : readable = {i \in DOMAIN file : i <= TriggerMax + 1 /\ PartitionKnown(file[i])}
  OBVIOUS
<1>3. PICK lines : lines = EntriesAt(file, readable)
  OBVIOUS
<1>4. PICK r : r = TriggerSort(lines)
  OBVIOUS
<1>5. PICK due : due = {t \in dueInFile : PartitionKnown(t)}
  OBVIOUS
<1>6. /\ file \in Seq(Trigger) /\ Len(file) \in Nat /\ DOMAIN file = 1..Len(file) /\ OnceInOrder(file)
      /\ Len(file) <= TriggerMax + 1 /\ Range(file) = dueInFile /\ \A i \in DOMAIN file : file[i].key <= triggerSaves
  BY <1>1 DEF TriggerInv, HoldsDue
<1>7. readable \in SUBSET (DOMAIN file) /\ \A i \in DOMAIN file : i \in readable <=> PartitionKnown(file[i])
  BY <1>2, <1>6, TriggerAssumption
<1>8. /\ lines \in Seq(Trigger) /\ Len(lines) <= Len(file) /\ Len(lines) \in Nat
      /\ \A k \in DOMAIN lines : NthIn(readable, k) \in readable /\ lines[k] = file[NthIn(readable, k)]
      /\ \A i \in readable : \E k \in DOMAIN lines : lines[k] = file[i]
      /\ \A j, k \in DOMAIN lines : j < k => NthIn(readable, j) < NthIn(readable, k)
  BY <1>3, <1>6, <1>7, AtPositions
<1>9. \A j, k \in DOMAIN lines : j # k => lines[j].key # lines[k].key
  <2>1. SUFFICES ASSUME NEW j \in DOMAIN lines, NEW k \in DOMAIN lines, j # k
                 PROVE  lines[j].key # lines[k].key
    OBVIOUS
  <2>2. PICK a : a = NthIn(readable, j)
    OBVIOUS
  <2>3. PICK b : b = NthIn(readable, k)
    OBVIOUS
  <2>4. a \in DOMAIN file /\ b \in DOMAIN file /\ lines[j] = file[a] /\ lines[k] = file[b]
    BY <1>7, <1>8, <2>2, <2>3
  <2>5. a < b \/ b < a
    <3>1. j < k \/ k < j
      BY <1>8, <2>1
    <3> QED
      BY <1>8, <2>2, <2>3, <3>1
  <2>6. a # b
    BY <1>6, <2>4, <2>5
  <2> QED
    BY <1>6, <2>4, <2>6, KeysDiffer
<1>10. Range(lines) = due
  <2>1. \A k \in DOMAIN lines : lines[k] \in due
    BY <1>5, <1>6, <1>7, <1>8 DEF Range
  <2>2. \A t \in due : \E k \in DOMAIN lines : lines[k] = t
    <3>1. SUFFICES ASSUME NEW t \in due PROVE \E k \in DOMAIN lines : lines[k] = t
      OBVIOUS
    <3>2. PICK i \in DOMAIN file : t = file[i]
      BY <1>5, <1>6 DEF Range
    <3>3. i \in readable
      BY <1>5, <1>7, <3>1, <3>2
    <3> QED
      BY <1>8, <3>2, <3>3
  <2> QED
    BY <2>1, <2>2 DEF Range
<1>11. /\ r \in Seq(Trigger) /\ Len(r) = Len(lines) /\ OnceInOrder(r) /\ Range(r) = due
  BY <1>4, <1>8, <1>9, <1>10, SortedTriggers
<1>12. Len(r) <= TriggerMax + 1
  BY <1>6, <1>8, <1>11, TriggerAssumption
<1>13. \A i \in DOMAIN r : r[i].key <= triggerSaves
  <2>1. SUFFICES ASSUME NEW i \in DOMAIN r PROVE r[i].key <= triggerSaves
    OBVIOUS
  <2>2. r[i] \in due
    BY <1>11 DEF Range
  <2>3. PICK k \in DOMAIN file : r[i] = file[k]
    BY <1>5, <1>6, <2>2 DEF Range
  <2> QED
    BY <1>6, <2>3
<1>14. HoldsDue(r, due, triggerSaves)
  BY <1>11, <1>12, <1>13 DEF HoldsDue
<1>15. /\ triggers' = r /\ dueTriggers' = due /\ triggerSaves' = triggerSaves
       /\ triggerFile' = triggerFile /\ dueInFile' = dueInFile
       /\ shownTriggers' = <<>> /\ startedTriggers' = {}
  BY <1>1, <1>2, <1>3, <1>4, <1>5 DEF TriggersRestart, TriggerFileRead
<1>16. TriggersAddressed'
  BY <1>15 DEF TriggersAddressed
<1>17. triggerSaves \in triggerSaves..TriggerSaves
  BY TriggerAssumption DEF TriggerInv
<1> QED
  BY <1>14, <1>15, <1>16, <1>17, ChangedKeeps

LEMMA FileKeeps == ASSUME TriggerInv, TriggerFileSave PROVE TriggerInv'
<1>1. /\ triggerFile' = triggers /\ dueInFile' = dueTriggers
      /\ UNCHANGED <<triggers, triggerSaves, dueTriggers, shownTriggers, startedTriggers>>
  BY DEF TriggerFileSave, triggerViews
<1>2. HoldsDue(triggers, dueTriggers, triggerSaves)' /\ HoldsDue(triggerFile, dueInFile, triggerSaves)'
  BY <1>1 DEF TriggerInv, HoldsDue, OnceInOrder, Range
<1> QED
  BY <1>1, <1>2 DEF TriggerInv, TriggersAddressed, TriggerFound

(* A listing shows the positions of the whole list, and an event starts     *)
(* what is in it.                                                          *)
LEMMA ViewKeeps ==
  ASSUME TriggerInv, NEW p, ListTriggers(p) \/ TriggerEvent(p)
  PROVE  TriggerInv'
<1>1. UNCHANGED <<triggers, triggerFile, triggerSaves, dueTriggers, dueInFile>>
  BY DEF ListTriggers, TriggerEvent, triggerStore
<1>2. HoldsDue(triggers, dueTriggers, triggerSaves)' /\ HoldsDue(triggerFile, dueInFile, triggerSaves)'
  BY <1>1 DEF TriggerInv, HoldsDue, OnceInOrder, Range
<1>3. triggers \in Seq(Trigger) /\ Len(triggers) <= TriggerMax + 1 /\ Range(triggers) = dueTriggers
  BY DEF TriggerInv, HoldsDue
<1>4. CASE ListTriggers(p)
  <2>1. shownTriggers' = TriggerList(p) /\ startedTriggers' = startedTriggers
    BY <1>4 DEF ListTriggers
  <2>2. PICK ids : ids = {i - 1 : i \in {i \in DOMAIN triggers : InScope(triggers[i], p)}}
    OBVIOUS
  <2>3. TriggerList(p) = [id \in ids |-> triggers[id + 1]]
    BY <2>2 DEF TriggerList
  <2>4. \A id \in ids : id \in 0..TriggerMax /\ id < Len(triggers)
    <3>1. \A i \in DOMAIN triggers : i - 1 \in 0..TriggerMax /\ i - 1 < Len(triggers)
      BY <1>3, TriggerAssumption
    <3> QED
      BY <2>2, <3>1
  <2>5. TriggersAddressed'
    BY <1>1, <2>1, <2>3, <2>4 DEF TriggersAddressed, TriggerFound
  <2> QED
    BY <1>1, <1>2, <2>1, <2>5 DEF TriggerInv
<1>5. CASE TriggerEvent(p)
  <2>1. shownTriggers' = shownTriggers
        /\ startedTriggers' = {t.key : t \in {t \in Range(triggers) : InScope(t, p)}}
    BY <1>5 DEF TriggerEvent
  <2>2. startedTriggers' \subseteq {t.key : t \in dueTriggers}
    BY <1>3, <2>1
  <2>3. TriggersAddressed'
    BY <1>1, <2>1 DEF TriggerInv, TriggersAddressed, TriggerFound
  <2> QED
    BY <1>1, <1>2, <2>2, <2>3 DEF TriggerInv
<1> QED
  BY <1>4, <1>5

LEMMA TriggerStart == TriggersInit => TriggerInv
<1> SUFFICES ASSUME TriggersInit PROVE TriggerInv
  OBVIOUS
<1>1. <<>> \in Seq(Trigger) /\ DOMAIN <<>> = {} /\ Len(<<>>) = 0
  OBVIOUS
<1>2. HoldsDue(<<>>, {}, 0)
  BY <1>1, TriggerAssumption DEF HoldsDue, OnceInOrder, Range
<1>3. TriggersAddressed
  BY <1>1 DEF TriggersInit, TriggersAddressed
<1> QED
  BY <1>2, <1>3, TriggerAssumption DEF TriggersInit, TriggerInv

LEMMA TriggerStep == TriggerInv /\ [TriggersNext]_triggerVars => TriggerInv'
<1> SUFFICES ASSUME TriggerInv, [TriggersNext]_triggerVars PROVE TriggerInv'
  OBVIOUS
<1>1. ASSUME UNCHANGED <<triggerStore, triggerViews>> PROVE TriggerInv'
  <2>1. UNCHANGED <<triggers, triggerFile, triggerSaves, dueTriggers, dueInFile, shownTriggers, startedTriggers>>
    BY <1>1 DEF triggerStore, triggerViews
  <2>2. HoldsDue(triggers, dueTriggers, triggerSaves)' /\ HoldsDue(triggerFile, dueInFile, triggerSaves)'
    BY <2>1 DEF TriggerInv, HoldsDue, OnceInOrder, Range
  <2> QED
    BY <2>1, <2>2 DEF TriggerInv, TriggersAddressed, TriggerFound
<1>2. CASE UNCHANGED triggerVars
  BY <1>1, <1>2 DEF triggerVars
<1>3. ASSUME NEW id \in -1..TriggerMax, NEW name \in TriggerNames, NEW part \in TriggerScopes,
             TriggerSave(id, name, part)
      PROVE  TriggerInv'
  BY <1>3, TriggerSaveKeeps
<1>4. ASSUME NEW id \in 0..TriggerMax, TriggerDelete(id) PROVE TriggerInv'
  BY <1>4, TriggerDeleteKeeps
<1>5. ASSUME NEW p \in TriggerScopes, ListTriggers(p) \/ TriggerEvent(p) PROVE TriggerInv'
  BY <1>5, ViewKeeps
<1>6. ASSUME NEW p \in TriggerPartitions, PartitionNew(p) \/ PartitionRm(p) \/ PartitionAdded(p)
      PROVE  TriggerInv'
  BY <1>1, <1>6 DEF PartitionNew, PartitionRm, PartitionAdded
<1>7. ASSUME NEW p \in TriggerPartitions, PartitionRemoved(p) PROVE TriggerInv'
  BY <1>7, PartitionKeeps
<1> QED
  BY <1>2, <1>3, <1>4, <1>5, <1>6, <1>7, FileKeeps, RestartKeepsTriggers DEF TriggersNext

(* The list holds the triggers that are due, each once and at the position  *)
(* it was shown with (mympd_api/trigger.c), in a full list and after a      *)
(* restart too.                                                            *)
THEOREM TriggersCorrect == TriggersSpec => []TriggersOK
<1>1. TriggerInv => TriggersOK
  BY DEF TriggerInv, HoldsDue, OnceInOrder, TriggersOK, TriggersKept
<1> QED
  BY <1>1, TriggerStart, TriggerStep, PTL DEF TriggersSpec

-----------------------------------------------------------------------------
ScriptEntries == [name : ScriptNames, text : Texts, code : Texts \union {NoText}]
ScriptRuns    == [call : Nat, http : BOOLEAN, counted : BOOLEAN]
TmpValues     == [expires : Int, read : BOOLEAN]

\* ScriptsOnDisk of a list and the files, but for the names that may differ
OnDisk(list, files, but) ==
  \A i \in DOMAIN list :
    /\ list[i].code \in {NoText, list[i].text}
    /\ \/ list[i].name \in but
       \/ /\ files[list[i].name] = list[i].text
          /\ \A j \in DOMAIN list : list[j].name = list[i].name => j = i

\* the listed scripts have the contents of their files
StoreInv ==
  /\ scripts \in Seq(ScriptEntries)
  /\ scriptFiles \in [ScriptNames -> Texts \union {BareText, NoText}]
  /\ OnDisk(scripts, scriptFiles, doubled)

\* a request that is not answered is that of one script that runs
RunInv ==
  /\ runs \subseteq ScriptRuns /\ scriptAnswers \in Seq(0..1)
  /\ \A r \in runs : r.call \in DOMAIN scriptAnswers
  /\ \A r, s \in runs : r.call = s.call => r = s
  /\ ScriptsAnswer

\* a temporary variable had not expired when the list was swept last
TmpInv ==
  /\ tmps \in [TmpNames -> SUBSET TmpValues] /\ nextSweep \in Nat /\ scriptNow \in Nat
  /\ nextSweep <= scriptNow + TmpSweep
  /\ \A t \in TmpNames : \A x \in tmps[t] :
       /\ x.expires > 0 => x.expires + TmpSweep > nextSweep
       /\ x.expires = 0 => ~x.read
  /\ tmpRead.expires > 0 => tmpRead.at < tmpRead.expires + TmpSweep - 1
  /\ ~scriptsUp => tmps = NoTmps

ScriptInv == StoreInv /\ RunInv /\ TmpInv

-----------------------------------------------------------------------------
(* The list and the files.                                                  *)

LEMMA EntryNames ==
  ASSUME NEW list \in Seq(ScriptEntries)
  PROVE  \A i \in DOMAIN list : list[i].name \in ScriptNames /\ list[i].name \in Int
<1>1. \A i \in DOMAIN list : list[i] \in ScriptEntries
  OBVIOUS
<1>2. \A e \in ScriptEntries : e.name \in ScriptNames
  BY DEF ScriptEntries
<1>3. \A n \in ScriptNames : n \in Int
  BY ScriptAssumption
<1> QED
  BY <1>1, <1>2, <1>3

(* A list that is sorted is as right as it was.                             *)
LEMMA OnDiskSorted ==
  ASSUME NEW list \in Seq(ScriptEntries), NEW files, NEW but, OnDisk(list, files, but)
  PROVE  ByName(list) \in Seq(ScriptEntries) /\ OnDisk(ByName(list), files, but)
<1>1. \A i \in DOMAIN list : list[i].name \in Int
  BY EntryNames
<1>2. PICK new : new = NameSorted(list)
  OBVIOUS
<1>3. new \in Seq(ScriptEntries) /\ DOMAIN new = DOMAIN list
  <2>1. new \in Seq(ScriptEntries) /\ Len(new) = Len(list)
    BY <1>1, <1>2, NamesSorted
  <2> QED
    BY <2>1
<1>4. PICK p \in Bijection(DOMAIN list, DOMAIN list) : \A k \in DOMAIN list : new[k] = list[p[k]]
  BY <1>1, <1>2, NamesSorted
<1>5. /\ \A k \in DOMAIN list : p[k] \in DOMAIN list
      /\ \A j, k \in DOMAIN list : p[j] = p[k] => j = k
  BY <1>4 DEF Bijection, Injection, IsInjective
<1>6. OnDisk(new, files, but)
  <2>1. SUFFICES ASSUME NEW k \in DOMAIN new
                 PROVE  /\ new[k].code \in {NoText, new[k].text}
                        /\ \/ new[k].name \in but
                           \/ /\ files[new[k].name] = new[k].text
                              /\ \A j \in DOMAIN new : new[j].name = new[k].name => j = k
    BY DEF OnDisk
  <2>2. PICK i \in DOMAIN list : i = p[k] /\ new[k] = list[i]
    BY <1>3, <1>4, <1>5
  <2>3. \A j \in DOMAIN new : p[j] \in DOMAIN list /\ new[j] = list[p[j]] /\ (p[j] = i => j = k)
    BY <1>3, <1>4, <1>5, <2>2
  <2> QED
    BY <2>2, <2>3 DEF OnDisk
<1> QED
  BY <1>2, <1>3, <1>6 DEF ByName

(* Without its first entry of a name the list is as right as it was, and if  *)
(* the name had one entry it has none.                                     *)
LEMMA WithoutOnDisk ==
  ASSUME StoreInv, NEW name
  PROVE  /\ Without(name) \in Seq(ScriptEntries) /\ OnDisk(Without(name), scriptFiles, doubled)
         /\ \A k \in DOMAIN Without(name) : \E i \in DOMAIN scripts : Without(name)[k] = scripts[i]
         /\ name \notin doubled => \A k \in DOMAIN Without(name) : Without(name)[k].name # name
<1>1. PICK list : list = scripts
  OBVIOUS
<1>2. list \in Seq(ScriptEntries) /\ OnDisk(list, scriptFiles, doubled)
  BY <1>1 DEF StoreInv
<1>3. CASE EntriesOf(name) = {}
  BY <1>1, <1>2, <1>3 DEF Without, EntriesOf
<1>4. CASE EntriesOf(name) # {}
  <2>1. PICK m : m = Min(EntriesOf(name))
    OBVIOUS
  <2>2. m \in DOMAIN list /\ list[m].name = name
    <3>1. EntriesOf(name) \in SUBSET Nat
      BY <1>1, <1>2 DEF EntriesOf
    <3>2. \E x \in EntriesOf(name) : \A y \in EntriesOf(name) : x <= y
      BY <1>4, <3>1, Least
    <3>3. m \in EntriesOf(name)
      BY <2>1, <3>2 DEF Min
    <3> QED
      BY <1>1, <3>3 DEF EntriesOf
  <2>3. PICK new : new = RemoveAt(list, m)
    OBVIOUS
  <2>4. Without(name) = new
    BY <1>1, <1>4, <2>1, <2>3 DEF Without
  <2>5. /\ new \in Seq(ScriptEntries) /\ DOMAIN new = 1..Len(list) - 1
        /\ \A k \in 1..Len(list) - 1 : new[k] = IF k < m THEN list[k] ELSE list[k + 1]
    BY <1>2, <2>2, <2>3, RemovedAt
  <2>6. Len(list) \in Nat /\ DOMAIN list = 1..Len(list) /\ m \in Nat
    BY <1>2, <2>2
  <2> DEFINE from(k) == IF k < m THEN k ELSE k + 1
  <2>7. /\ \A k \in DOMAIN new : from(k) \in DOMAIN list /\ new[k] = list[from(k)] /\ from(k) # m
        /\ \A j, k \in DOMAIN new : from(j) = from(k) => j = k
    BY <2>2, <2>5, <2>6
  <2> HIDE DEF from
  <2>8. OnDisk(new, scriptFiles, doubled)
    BY <1>2, <2>7 DEF OnDisk
  <2>9. ASSUME name \notin doubled, NEW k \in DOMAIN new PROVE new[k].name # name
    <3>1. \A j \in DOMAIN list : list[j].name = name => j = m
      BY <1>2, <2>2, <2>9 DEF OnDisk
    <3> QED
      BY <2>7, <3>1
  <2> QED
    BY <1>1, <2>4, <2>5, <2>7, <2>8, <2>9
<1> QED
  BY <1>3, <1>4

(* A reload makes the list that of the files.                               *)
LEMMA ReadOnDisk ==
  ASSUME StoreInv, NEW but
  PROVE  ScriptsRead \in Seq(ScriptEntries) /\ OnDisk(ScriptsRead, scriptFiles, but)
<1> DEFINE names == {n \in ScriptNames : scriptFiles[n] \in Texts}
           nth(k) == NthIn(names, k)
<1>1. IsFiniteSet(names) /\ names \in SUBSET Nat /\ Cardinality(names) \in Nat
  <2>1. names \in SUBSET ScriptNames /\ IsFiniteSet(ScriptNames) /\ ScriptNames \subseteq Nat
    BY ScriptAssumption
  <2> HIDE DEF names
  <2> QED
    BY <2>1, FS_Subset, FS_CardinalityType
<1>2. PICK n : n = Cardinality(names)
  OBVIOUS
<1>3. ScriptsRead = [k \in 1..n |-> ScriptEntry(nth(k), scriptFiles[nth(k)])]
  BY <1>2 DEF ScriptsRead
<1>4. \A m \in names : m \in ScriptNames /\ scriptFiles[m] \in Texts
  OBVIOUS
<1> HIDE DEF names
<1>5. /\ \A k \in 1..n : nth(k) \in names
      /\ \A j, k \in 1..n : j < k => nth(j) < nth(k)
  BY <1>1, <1>2, Positions
<1> HIDE DEF nth
<1>6. n \in Nat /\ \A j, k \in 1..n : nth(j) = nth(k) => j = k
  <2>1. n \in Nat /\ \A k \in 1..n : nth(k) \in Nat
    BY <1>1, <1>2, <1>5
  <2> QED
    BY <1>5, <2>1
<1>7. \A k \in 1..n : ScriptEntry(nth(k), scriptFiles[nth(k)]) \in ScriptEntries
  BY <1>4, <1>5 DEF ScriptEntry, ScriptEntries
<1>8. PICK list : list = ScriptsRead
  OBVIOUS
<1>9. /\ list \in Seq(ScriptEntries) /\ DOMAIN list = 1..n
      /\ \A k \in 1..n : list[k] = ScriptEntry(nth(k), scriptFiles[nth(k)])
  BY <1>3, <1>6, <1>7, <1>8
<1>10. OnDisk(list, scriptFiles, but)
  BY <1>6, <1>9 DEF OnDisk, ScriptEntry
<1> QED
  BY <1>8, <1>9, <1>10

LEMMA SaveKeepsStore ==
  ASSUME StoreInv, NEW name \in ScriptNames, NEW old \in ScriptNames \union {0}, NEW text \in Texts,
         ScriptSave(name, old, text)
  PROVE  StoreInv'
<1>1. PICK failed \in {"write", "nothing", "remove"} :
        /\ old \in {0, name} => failed # "remove"
        /\ IF failed = "write" THEN UNCHANGED scriptStore
           ELSE /\ scriptFiles' = [n \in ScriptNames |->
                     IF n = name THEN text
                     ELSE IF n = old /\ failed = "nothing" THEN NoText ELSE scriptFiles[n]]
                /\ scripts' =
                     LET rest == Without(old)
                     IN IF failed = "remove" THEN rest ELSE ByName(Append(rest, ScriptEntry(name, text)))
                /\ doubled' = IF old # name /\ EntriesOf(name) # {}
                              THEN doubled \cup {name} ELSE doubled
  BY DEF ScriptSave
<1>2. CASE failed = "write"
  BY <1>1, <1>2 DEF StoreInv, scriptStore
<1>3. CASE failed # "write"
  <2>1. PICK rest : rest = Without(old)
    OBVIOUS
  <2>2. PICK files : files = [n \in ScriptNames |->
                     IF n = name THEN text
                     ELSE IF n = old /\ failed = "nothing" THEN NoText ELSE scriptFiles[n]]
    OBVIOUS
  <2>3. PICK but : but = IF old # name /\ EntriesOf(name) # {} THEN doubled \cup {name} ELSE doubled
    OBVIOUS
  <2>4. /\ rest \in Seq(ScriptEntries) /\ OnDisk(rest, scriptFiles, doubled)
        /\ \A k \in DOMAIN rest : \E i \in DOMAIN scripts : rest[k] = scripts[i]
        /\ old \notin doubled => \A k \in DOMAIN rest : rest[k].name # old
    BY <2>1, WithoutOnDisk
  <2>5. \A k \in DOMAIN rest : rest[k].name \in ScriptNames
    BY <2>4, EntryNames
  <2>6. files \in [ScriptNames -> Texts \union {BareText, NoText}]
    BY <2>2 DEF StoreInv
  <2>7. ASSUME NEW k \in DOMAIN rest, rest[k].name \notin but PROVE rest[k].name # name
    <3>1. CASE old = name
      BY <2>3, <2>4, <2>7, <3>1
    <3>2. CASE old # name
      <4>1. SUFFICES ASSUME rest[k].name = name PROVE FALSE
        OBVIOUS
      <4>2. EntriesOf(name) # {}
        BY <2>4, <4>1 DEF EntriesOf
      <4> QED
        BY <2>3, <2>7, <3>2, <4>1, <4>2
    <3> QED
      BY <3>1, <3>2
  <2>8. \A k \in DOMAIN rest : rest[k].name \notin but => files[rest[k].name] = scriptFiles[rest[k].name]
    <3>1. SUFFICES ASSUME NEW k \in DOMAIN rest, rest[k].name \notin but
                   PROVE  files[rest[k].name] = scriptFiles[rest[k].name]
      OBVIOUS
    <3>2. rest[k].name # name /\ rest[k].name # old /\ rest[k].name \in ScriptNames
      BY <2>3, <2>4, <2>5, <2>7, <3>1
    <3> QED
      BY <2>2, <3>2
  <2>9. OnDisk(rest, files, but)
    <3>1. doubled \subseteq but
      BY <2>3
    <3> QED
      BY <2>4, <2>8, <3>1 DEF OnDisk
  <2>10. CASE failed = "remove"
    BY <1>1, <1>3, <2>1, <2>2, <2>3, <2>4, <2>6, <2>9, <2>10 DEF StoreInv
  <2>11. CASE failed # "remove"
    <3>1. PICK e : e = ScriptEntry(name, text)
      OBVIOUS
    <3>2. e \in ScriptEntries /\ e.name = name /\ e.text = text /\ e.code = NoText
      BY <3>1 DEF ScriptEntry, ScriptEntries
    <3>3. PICK list : list = Append(rest, e)
      OBVIOUS
    <3>4. /\ list \in Seq(ScriptEntries)
          /\ \A i \in DOMAIN list : i \in DOMAIN rest \/ i = Len(rest) + 1
          /\ \A i \in DOMAIN rest : list[i] = rest[i] /\ i # Len(rest) + 1
          /\ list[Len(rest) + 1] = e
      BY <2>4, <3>2, <3>3
    <3>5. files[name] = text
      BY <2>2
    <3>6. \A k \in DOMAIN rest : rest[k].name = name => rest[k].name \in but
      BY <2>7
    <3>7. OnDisk(list, files, but)
      <4>1. SUFFICES ASSUME NEW i \in DOMAIN list
                     PROVE  /\ list[i].code \in {NoText, list[i].text}
                            /\ \/ list[i].name \in but
                               \/ /\ files[list[i].name] = list[i].text
                                  /\ \A j \in DOMAIN list : list[j].name = list[i].name => j = i
        BY DEF OnDisk
      <4>2. CASE i \in DOMAIN rest
        BY <2>9, <3>2, <3>4, <3>6, <4>2 DEF OnDisk
      <4>3. CASE i = Len(rest) + 1
        BY <3>2, <3>4, <3>5, <3>6, <4>3
      <4> QED
        BY <3>4, <4>2, <4>3
    <3>8. ByName(list) \in Seq(ScriptEntries) /\ OnDisk(ByName(list), files, but)
      BY <3>4, <3>7, OnDiskSorted
    <3> QED
      BY <1>1, <1>3, <2>1, <2>2, <2>3, <2>6, <2>11, <3>1, <3>3, <3>8 DEF StoreInv
  <2> QED
    BY <2>10, <2>11
<1> QED
  BY <1>2, <1>3

LEMMA DeleteKeepsStore ==
  ASSUME StoreInv, NEW name \in ScriptNames, ScriptDelete(name)
  PROVE  StoreInv'
<1>1. PICK files : files = scriptFiles'
  OBVIOUS
<1>2. /\ files = scriptFiles \/ files = [scriptFiles EXCEPT ![name] = NoText]
      /\ scripts' = Without(name) /\ doubled' = doubled
  BY <1>1 DEF ScriptDelete
<1>3. PICK rest : rest = Without(name)
  OBVIOUS
<1>4. /\ rest \in Seq(ScriptEntries) /\ OnDisk(rest, scriptFiles, doubled)
      /\ name \notin doubled => \A k \in DOMAIN rest : rest[k].name # name
  BY <1>3, WithoutOnDisk
<1>5. \A k \in DOMAIN rest : rest[k].name \in ScriptNames
  BY <1>4, EntryNames
<1>6. \A k \in DOMAIN rest : rest[k].name \notin doubled => files[rest[k].name] = scriptFiles[rest[k].name]
  BY <1>2, <1>4, <1>5 DEF StoreInv
<1>7. OnDisk(rest, files, doubled)
  BY <1>4, <1>6 DEF OnDisk
<1>8. files \in [ScriptNames -> Texts \union {BareText, NoText}]
  BY <1>2 DEF StoreInv
<1> QED
  BY <1>1, <1>2, <1>3, <1>4, <1>7, <1>8 DEF StoreInv

LEMMA ReloadKeepsStore ==
  ASSUME StoreInv, ScriptReload \/ ScriptsStop \/ ScriptsStart
  PROVE  StoreInv'
<1>1. scriptFiles' = scriptFiles /\ scripts' \in {<<>>, ScriptsRead}
  BY DEF ScriptReload, ScriptsStop, ScriptsStart
<1>2. CASE scripts' = <<>>
  <2>1. <<>> \in Seq(ScriptEntries) /\ DOMAIN <<>> = {}
    OBVIOUS
  <2> QED
    BY <1>1, <1>2, <2>1 DEF StoreInv, OnDisk
<1>3. CASE scripts' = ScriptsRead
  <2>1. PICK list, but : list = ScriptsRead /\ but = doubled'
    OBVIOUS
  <2>2. list \in Seq(ScriptEntries) /\ OnDisk(list, scriptFiles, but)
    BY <2>1, ReadOnDisk
  <2> QED
    BY <1>1, <1>3, <2>1, <2>2 DEF StoreInv
<1> QED
  BY <1>1, <1>2, <1>3

(* The byte code of an entry is compiled from its text.                     *)
LEMMA ExecuteKeepsStore ==
  ASSUME StoreInv, NEW name \in ScriptNames, NEW http \in BOOLEAN, ScriptExecute(name, http)
  PROVE  StoreInv'
<1>1. scriptFiles' = scriptFiles /\ doubled' = doubled
  BY DEF ScriptExecute
<1>2. scripts' = scripts \/ scripts' = Compiled(FoundEntry(name))
  BY DEF ScriptExecute
<1>3. PICK i : i = FoundEntry(name)
  OBVIOUS
<1>4. PICK list : list = scripts
  OBVIOUS
<1>5. list \in Seq(ScriptEntries) /\ OnDisk(list, scriptFiles, doubled)
  BY <1>4 DEF StoreInv
<1>6. PICK code : code = IF Compiles(list[i].text) THEN list[i].text ELSE NoText
  OBVIOUS
<1>7. PICK new : new = [list EXCEPT ![i].code = code]
  OBVIOUS
<1>8. new \in Seq(ScriptEntries) /\ OnDisk(new, scriptFiles, doubled)
  <2>1. CASE i \notin DOMAIN list
    <3>1. new = list
      BY <1>5, <1>7, <2>1
    <3> QED
      BY <1>5, <3>1
  <2>2. CASE i \in DOMAIN list
    <3>1. list[i] \in ScriptEntries /\ code \in {NoText, list[i].text}
      BY <1>5, <1>6, <2>2
    <3>2. PICK e : e = [list[i] EXCEPT !.code = code]
      OBVIOUS
    <3>3. e \in ScriptEntries /\ e.name = list[i].name /\ e.text = list[i].text /\ e.code = code
      BY <3>1, <3>2 DEF ScriptEntries
    <3>4. new = [list EXCEPT ![i] = e]
      BY <1>7, <3>2
    <3>5. /\ new \in Seq(ScriptEntries) /\ DOMAIN new = DOMAIN list /\ new[i] = e
          /\ \A j \in DOMAIN list : j # i => new[j] = list[j]
      BY <1>5, <2>2, <3>3, <3>4
    <3>6. \A j \in DOMAIN list : /\ new[j].name = list[j].name /\ new[j].text = list[j].text
                                 /\ new[j].code \in {NoText, new[j].text}
      BY <1>5, <3>1, <3>3, <3>5 DEF OnDisk
    <3> QED
      BY <1>5, <3>5, <3>6 DEF OnDisk
  <2> QED
    BY <2>1, <2>2
<1>9. Compiled(i) = list \/ Compiled(i) = new
  BY <1>4, <1>6, <1>7 DEF Compiled
<1> QED
  BY <1>1, <1>2, <1>3, <1>4, <1>5, <1>8, <1>9 DEF StoreInv

LEMMA EditKeepsStore ==
  ASSUME StoreInv, NEW name \in ScriptNames, NEW text \in Texts \union {BareText, NoText},
         ScriptEdit(name, text)
  PROVE  StoreInv'
<1>1. scriptFiles' = [scriptFiles EXCEPT ![name] = text] /\ doubled' = doubled \union {name}
      /\ scripts' = scripts
  BY DEF ScriptEdit
<1>2. \A i \in DOMAIN scripts : scripts[i].name \in ScriptNames
  BY EntryNames DEF StoreInv
<1>3. \A n \in ScriptNames : n # name => scriptFiles'[n] = scriptFiles[n]
  BY <1>1 DEF StoreInv
<1>4. OnDisk(scripts, scriptFiles', doubled')
  BY <1>1, <1>2, <1>3 DEF StoreInv, OnDisk
<1> QED
  BY <1>1, <1>4 DEF StoreInv

LEMMA StoreStep == ASSUME StoreInv, [ScriptsNext]_scriptVars PROVE StoreInv'
<1>1. ASSUME UNCHANGED scriptStore PROVE StoreInv'
  BY <1>1 DEF StoreInv, scriptStore
<1>2. CASE UNCHANGED scriptVars
  BY <1>1, <1>2 DEF scriptVars, scriptStore
<1>3. ASSUME NEW n \in ScriptNames, NEW o \in ScriptNames \cup {0}, NEW x \in Texts, ScriptSave(n, o, x)
      PROVE  StoreInv'
  BY <1>3, SaveKeepsStore
<1>4. ASSUME NEW n \in ScriptNames, ScriptDelete(n) PROVE StoreInv'
  BY <1>4, DeleteKeepsStore
<1>5. ASSUME NEW n \in ScriptNames, NEW http \in BOOLEAN, ScriptExecute(n, http) PROVE StoreInv'
  BY <1>5, ExecuteKeepsStore
<1>6. ASSUME NEW n \in ScriptNames, NEW x \in Texts \cup {BareText, NoText}, ScriptEdit(n, x)
      PROVE  StoreInv'
  BY <1>6, EditKeepsStore
<1>7. CASE ScriptReload \/ ScriptsStop \/ ScriptsStart
  BY <1>7, ReloadKeepsStore
<1>8. CASE ScriptRead \/ VarsSave \/ TmpList \/ ScriptTick
  BY <1>1, <1>8 DEF ScriptRead, VarsSave, TmpList, ScriptTick
<1>9. ASSUME NEW x, NEW y, ScriptPost(x) \/ VarSet(x, y) \/ VarDelete(x) \/ TmpSet(x, y) \/ TmpDelete(x)
                           \/ TmpGet(x) \/ WorkerBegins(x) \/ WorkerEnds(x)
      PROVE  StoreInv'
  BY <1>1, <1>9 DEF ScriptPost, VarSet, VarDelete, TmpSet, TmpDelete, TmpGet, WorkerBegins, WorkerEnds
<1> QED
  BY <1>2, <1>3, <1>4, <1>5, <1>6, <1>7, <1>8, <1>9 DEF ScriptsNext, ScriptsRequest

-----------------------------------------------------------------------------
(* The requests and the workers.                                            *)

(* A new request is answered by its handler, or the worker it started       *)
(* answers it.                                                             *)
LEMMA RespondKeeps ==
  ASSUME RunInv, NEW a \in 0..1, NEW new \in SUBSET ScriptRuns,
         scriptAnswers' = Append(scriptAnswers, a), runs' = runs \union new,
         \A r \in new : r.call = Len(scriptAnswers) + 1, \A r, s \in new : r = s,
         a = 0 <=> \E r \in new : r.http
  PROVE  RunInv'
<1>1. PICK old : old = scriptAnswers
  OBVIOUS
<1>2. PICK n : n = Len(old) + 1
  OBVIOUS
<1>3. PICK all : all = Append(old, a)
  OBVIOUS
<1>4. /\ old \in Seq(0..1) /\ n \in Nat /\ n \notin DOMAIN old
      /\ all \in Seq(0..1) /\ DOMAIN all = DOMAIN old \union {n} /\ all[n] = a
      /\ \A c \in DOMAIN old : all[c] = old[c]
  BY <1>1, <1>2, <1>3 DEF RunInv
<1>5. /\ \A r \in runs : r.call \in DOMAIN old
      /\ \A c \in DOMAIN old : old[c] = IF \E r \in runs : r.call = c /\ r.http THEN 0 ELSE 1
      /\ \A r \in new : r.call = n
  BY <1>1, <1>2 DEF RunInv, ScriptsAnswer
<1>6. ASSUME NEW c \in DOMAIN all
      PROVE  all[c] = IF \E r \in runs \union new : r.call = c /\ r.http THEN 0 ELSE 1
  <2>1. CASE c \in DOMAIN old
    <3>1. \A r \in new : r.call # c
      BY <1>4, <1>5, <2>1
    <3> QED
      BY <1>4, <1>5, <2>1, <3>1
  <2>2. CASE c = n
    <3>1. \A r \in runs : r.call # c
      BY <1>4, <1>5, <2>2
    <3> QED
      BY <1>4, <1>5, <2>2, <3>1
  <2> QED
    BY <1>4, <2>1, <2>2
<1>7. \A r, s \in runs \union new : r.call = s.call => r = s
  BY <1>4, <1>5 DEF RunInv
<1>8. \A r \in runs \union new : r.call \in DOMAIN all
  BY <1>4, <1>5
<1>9. scriptAnswers' = all /\ runs' = runs \union new /\ runs \union new \subseteq ScriptRuns
  BY <1>1, <1>3 DEF RunInv
<1> QED
  BY <1>4, <1>6, <1>7, <1>8, <1>9 DEF RunInv, ScriptsAnswer

LEMMA AnswerKeeps == ASSUME RunInv, Respond(1), runs' = runs PROVE RunInv'
<1>1. PICK new : new = {}
  OBVIOUS
<1>2. scriptAnswers' = Append(scriptAnswers, 1) /\ runs' = runs \union new
  BY <1>1 DEF Respond
<1>3. /\ new \in SUBSET ScriptRuns /\ \A r \in new : r.call = Len(scriptAnswers) + 1
      /\ \A r, s \in new : r = s
      /\ 1 \in 0..1 /\ (1 = 0 <=> \E r \in new : r.http)
  BY <1>1
<1> QED
  BY <1>2, <1>3, RespondKeeps

LEMMA ExecuteKeepsRuns ==
  ASSUME RunInv, NEW name, NEW http \in BOOLEAN, ScriptExecute(name, http)
  PROVE  RunInv'
<1>1. PICK n : n = Len(scriptAnswers) + 1
  OBVIOUS
<1>2. PICK started \in BOOLEAN :
        /\ runs' = IF started THEN runs \cup {[call |-> n, http |-> http, counted |-> FALSE]} ELSE runs
        /\ Respond(Answered(http, started))
  <2>1. PICK failed \in {"nothing", "lua", "thread"} :
          LET found == ~TooManyWorkers /\ EntriesOf(name) # {}
              loads == found /\ failed # "lua"
              code  == IF loads THEN Compiled(FoundEntry(name)) ELSE scripts
              runnable == loads /\ code[FoundEntry(name)].code # NoText
              started == runnable /\ failed # "thread"
          IN /\ runs' = IF started
                        THEN runs \cup {[call |-> Len(scriptAnswers) + 1, http |-> http, counted |-> FALSE]}
                        ELSE runs
             /\ Respond(Answered(http, started))
    BY DEF ScriptExecute
  <2> QED
    BY <1>1, <2>1
<1>3. n \in Nat
  BY <1>1 DEF RunInv
<1>4. PICK new : new = IF started THEN {[call |-> n, http |-> http, counted |-> FALSE]} ELSE {}
  OBVIOUS
<1>5. /\ new \in SUBSET ScriptRuns /\ runs' = runs \union new
      /\ \A r \in new : r.call = n /\ r.http = http
      /\ \A r, s \in new : r = s
  <2>1. PICK e : e = [call |-> n, http |-> http, counted |-> FALSE]
    OBVIOUS
  <2>2. e \in ScriptRuns /\ e.call = n /\ e.http = http
    BY <1>3, <2>1 DEF ScriptRuns
  <2>3. new = IF started THEN {e} ELSE {}
    BY <1>4, <2>1
  <2>4. runs' = runs \union new
    BY <1>2, <1>4
  <2> QED
    BY <2>2, <2>3, <2>4
<1>6. PICK a : a = Answered(http, started)
  OBVIOUS
<1>7. a \in 0..1 /\ scriptAnswers' = Append(scriptAnswers, a)
  BY <1>2, <1>6 DEF Answered, Respond
<1>8. a = 0 <=> \E r \in new : r.http
  BY <1>4, <1>5, <1>6 DEF Answered
<1> QED
  BY <1>1, <1>5, <1>7, <1>8, RespondKeeps

LEMMA PostKeepsRuns == ASSUME RunInv, NEW text, ScriptPost(text) PROVE RunInv'
<1>1. PICK n : n = Len(scriptAnswers) + 1
  OBVIOUS
<1>2. n \in Nat
  BY <1>1 DEF RunInv
<1>3. PICK new \in SUBSET {[call |-> n, http |-> FALSE, counted |-> FALSE]} : runs' = runs \union new
  <2>1. runs' = runs \union {} \/ runs' = runs \union {[call |-> n, http |-> FALSE, counted |-> FALSE]}
    BY <1>1 DEF ScriptPost
  <2> QED
    BY <2>1
<1>4. /\ new \in SUBSET ScriptRuns /\ \A r \in new : r.call = n /\ ~r.http
      /\ \A r, s \in new : r = s
  <2>1. PICK e : e = [call |-> n, http |-> FALSE, counted |-> FALSE]
    OBVIOUS
  <2>2. e \in ScriptRuns /\ e.call = n /\ ~e.http
    BY <1>2, <2>1 DEF ScriptRuns
  <2>3. new \subseteq {e}
    BY <1>3, <2>1
  <2> QED
    BY <2>2, <2>3
<1>5. /\ scriptAnswers' = Append(scriptAnswers, 1) /\ 1 \in 0..1
      /\ 1 = 0 <=> \E r \in new : r.http
  BY <1>4 DEF ScriptPost, Respond
<1>6. \A r \in new : r.call = Len(scriptAnswers) + 1
  BY <1>1, <1>4
<1> QED
  BY <1>3, <1>4, <1>5, <1>6, RespondKeeps

LEMMA BeginKeepsRuns == ASSUME RunInv, NEW r \in runs, WorkerBegins(r) PROVE RunInv'
<1>1. PICK s : s = [r EXCEPT !.counted = TRUE]
  OBVIOUS
<1>2. s \in ScriptRuns /\ s.call = r.call /\ s.http = r.http
  BY <1>1 DEF RunInv, ScriptRuns
<1>3. PICK new : new = (runs \ {r}) \union {s}
  OBVIOUS
<1>4. runs' = new /\ scriptAnswers' = scriptAnswers
  BY <1>1, <1>3 DEF WorkerBegins
<1>5. /\ new \subseteq ScriptRuns /\ \A x \in new : x.call \in DOMAIN scriptAnswers
      /\ \A x, y \in new : x.call = y.call => x = y
  BY <1>2, <1>3 DEF RunInv
<1>6. \A c : (\E x \in new : x.call = c /\ x.http) <=> \E x \in runs : x.call = c /\ x.http
  BY <1>2, <1>3
<1>7. \A c \in DOMAIN scriptAnswers :
        scriptAnswers[c] = IF \E x \in new : x.call = c /\ x.http THEN 0 ELSE 1
  <2>1. SUFFICES ASSUME NEW c \in DOMAIN scriptAnswers
                 PROVE  scriptAnswers[c] = IF \E x \in new : x.call = c /\ x.http THEN 0 ELSE 1
    OBVIOUS
  <2>2. scriptAnswers[c] = IF \E x \in runs : x.call = c /\ x.http THEN 0 ELSE 1
    BY DEF RunInv, ScriptsAnswer
  <2> QED
    BY <1>6, <2>2
<1> QED
  BY <1>4, <1>5, <1>7 DEF RunInv, ScriptsAnswer

LEMMA EndKeepsRuns == ASSUME RunInv, NEW r \in runs, WorkerEnds(r) PROVE RunInv'
<1>1. PICK old : old = scriptAnswers
  OBVIOUS
<1>2. PICK all : all = IF r.http THEN [old EXCEPT ![r.call] = @ + 1] ELSE old
  OBVIOUS
<1>3. scriptAnswers' = all /\ runs' = runs \ {r}
  BY <1>1, <1>2 DEF WorkerEnds
<1>4. /\ old \in Seq(0..1) /\ r.call \in DOMAIN old /\ r.http \in BOOLEAN
      /\ \A c \in DOMAIN old : old[c] = IF \E x \in runs : x.call = c /\ x.http THEN 0 ELSE 1
      /\ \A x \in runs : x.call = r.call => x = r
  BY <1>1 DEF RunInv, ScriptsAnswer, ScriptRuns
<1>5. /\ all \in Seq(0..1) /\ DOMAIN all = DOMAIN old
      /\ \A c \in DOMAIN old : c # r.call => all[c] = old[c]
      /\ all[r.call] = 1
  <2>1. CASE r.http
    <3>3. \E x \in runs : x.call = r.call /\ x.http
      BY <2>1
    <3>4. old[r.call] = 0
      BY <1>4, <3>3
    <3>1. old[r.call] = 0 /\ all = [old EXCEPT ![r.call] = 1]
      BY <1>2, <2>1, <3>4
    <3>2. 1 \in 0..1
      OBVIOUS
    <3> QED
      BY <1>4, <3>1, <3>2
  <2>2. CASE ~r.http
    <3>1. old[r.call] = 1 /\ all = old
      BY <1>2, <1>4, <2>2
    <3> QED
      BY <1>4, <3>1
  <2> QED
    BY <2>1, <2>2
<1>6. \A c \in DOMAIN all : all[c] = IF \E x \in runs \ {r} : x.call = c /\ x.http THEN 0 ELSE 1
  BY <1>4, <1>5
<1>7. /\ runs \ {r} \subseteq ScriptRuns
      /\ \A x \in runs \ {r} : x.call \in DOMAIN all
      /\ \A x, y \in runs \ {r} : x.call = y.call => x = y
  BY <1>1, <1>5 DEF RunInv
<1> QED
  BY <1>3, <1>5, <1>6, <1>7 DEF RunInv, ScriptsAnswer

LEMMA StopKeepsRuns == ASSUME RunInv, ScriptsStop PROVE RunInv'
<1>1. PICK old : old = scriptAnswers
  OBVIOUS
<1>2. PICK all : all = [i \in DOMAIN old |-> 1]
  OBVIOUS
<1>3. scriptAnswers' = all /\ runs' = {}
  BY <1>1, <1>2 DEF ScriptsStop
<1>4. all \in Seq(0..1)
  <2>1. DOMAIN old = 1..Len(old) /\ Len(old) \in Nat /\ 1 \in 0..1
    BY <1>1 DEF RunInv
  <2> QED
    BY <1>2, <2>1
<1> QED
  BY <1>2, <1>3, <1>4 DEF RunInv, ScriptsAnswer

LEMMA RunStep == ASSUME RunInv, [ScriptsNext]_scriptVars PROVE RunInv'
<1>1. ASSUME UNCHANGED <<runs, scriptAnswers>> PROVE RunInv'
  BY <1>1 DEF RunInv, ScriptsAnswer
<1>2. CASE UNCHANGED scriptVars
  BY <1>1, <1>2 DEF scriptVars
<1>3. ASSUME NEW x, NEW y, NEW z, ScriptSave(x, y, z) \/ ScriptDelete(x) \/ VarSet(x, y) \/ VarDelete(x)
                                  \/ TmpSet(x, y) \/ TmpDelete(x) \/ TmpGet(x)
      PROVE  RunInv'
  BY <1>3, AnswerKeeps DEF ScriptSave, ScriptDelete, VarSet, VarDelete, TmpSet, TmpDelete, TmpGet
<1>4. CASE ScriptRead \/ ScriptReload \/ VarsSave \/ TmpList
  BY <1>4, AnswerKeeps DEF ScriptRead, ScriptReload, VarsSave, TmpList
<1>5. ASSUME NEW n \in ScriptNames, NEW http \in BOOLEAN, ScriptExecute(n, http) PROVE RunInv'
  BY <1>5, ExecuteKeepsRuns
<1>6. ASSUME NEW x, ScriptPost(x) PROVE RunInv'
  BY <1>6, PostKeepsRuns
<1>7. ASSUME NEW r \in runs, WorkerBegins(r) \/ WorkerEnds(r) PROVE RunInv'
  BY <1>7, BeginKeepsRuns, EndKeepsRuns
<1>8. ASSUME NEW n, NEW x, ScriptEdit(n, x) \/ ScriptsStart \/ ScriptTick PROVE RunInv'
  BY <1>1, <1>8 DEF ScriptEdit, ScriptsStart, ScriptTick
<1> QED
  BY <1>2, <1>3, <1>4, <1>5, <1>6, <1>7, <1>8, StopKeepsRuns DEF ScriptsNext, ScriptsRequest

-----------------------------------------------------------------------------
(* The temporary variables.                                                 *)

(* What is left after the sweep had not expired at it, and if the list is    *)
(* not swept the last sweep was not long ago.                              *)
LEMMA SweepKeeps ==
  ASSUME TmpInv, SweepThen
  PROVE  /\ Swept \in [TmpNames -> SUBSET TmpValues] /\ nextSweep' \in Nat
         /\ nextSweep' <= scriptNow + TmpSweep
         /\ \A t \in TmpNames : \A x \in Swept[t] :
              /\ x.expires > 0 => /\ x.expires + TmpSweep > nextSweep'
                                  /\ scriptNow < x.expires + TmpSweep - 1
              /\ x.expires = 0 => ~x.read
<1>1. TmpSweep \in Nat /\ TmpSweep > 0 /\ scriptNow \in Nat /\ nextSweep \in Nat
  BY ScriptAssumption DEF TmpInv
<1>2. CASE SweepDue
  <2>1. nextSweep' = scriptNow + TmpSweep
        /\ Swept = [t \in TmpNames |-> {x \in tmps[t] : ~Expired(x)}]
    BY <1>2 DEF SweepThen, Swept
  <2>2. \A t \in TmpNames : \A x \in Swept[t] : x \in tmps[t] /\ x \in TmpValues /\ ~Expired(x)
    BY <2>1 DEF TmpInv
  <2>3. \A t \in TmpNames : \A x \in Swept[t] : x.expires \in Int
    BY <2>2 DEF TmpValues
  <2>4. Swept \in [TmpNames -> SUBSET TmpValues]
    BY <2>1 DEF TmpInv
  <2> QED
    BY <1>1, <2>1, <2>2, <2>3, <2>4 DEF TmpInv, Expired
<1>3. CASE ~SweepDue
  <2>1. nextSweep' = nextSweep /\ Swept = tmps /\ scriptNow < nextSweep
    BY <1>1, <1>3 DEF SweepThen, Swept, SweepDue
  <2>2. \A t \in TmpNames : \A x \in tmps[t] : x.expires \in Int
    BY DEF TmpInv, TmpValues
  <2> QED
    BY <1>1, <2>1, <2>2 DEF TmpInv
<1> QED
  BY <1>2, <1>3

LEMMA GetKeepsTmps == ASSUME TmpInv, NEW t \in TmpNames, TmpGet(t) PROVE TmpInv'
<1>1. /\ SweepThen /\ scriptNow' = scriptNow /\ scriptsUp' = scriptsUp /\ scriptsUp
      /\ tmps' = [Swept EXCEPT ![t] = AfterRead(t)]
      /\ tmpRead' = IF Swept[t] = {} THEN NoTmpRead
                    ELSE [expires |-> (CHOOSE x \in Swept[t] : TRUE).expires, at |-> scriptNow]
  BY DEF TmpGet, Respond
<1>2. PICK sw : sw = Swept
  OBVIOUS
<1>3. /\ sw \in [TmpNames -> SUBSET TmpValues] /\ nextSweep' \in Nat
      /\ nextSweep' <= scriptNow + TmpSweep
      /\ \A u \in TmpNames : \A x \in sw[u] :
           /\ x.expires > 0 => /\ x.expires + TmpSweep > nextSweep'
                               /\ scriptNow < x.expires + TmpSweep - 1
           /\ x.expires = 0 => ~x.read
  BY <1>1, <1>2, SweepKeeps
<1>4. PICK left : left = AfterRead(t)
  OBVIOUS
<1>5. \A x \in left : \E y \in sw[t] : x = [y EXCEPT !.read = TRUE] /\ y.expires # 0
  BY <1>2, <1>4 DEF AfterRead
<1>6. \A x \in left : x \in TmpValues /\ x.expires # 0 /\ \E y \in sw[t] : x.expires = y.expires
  <2>1. SUFFICES ASSUME NEW x \in left
                 PROVE  x \in TmpValues /\ x.expires # 0 /\ \E y \in sw[t] : x.expires = y.expires
    OBVIOUS
  <2>2. PICK y \in sw[t] : x = [y EXCEPT !.read = TRUE] /\ y.expires # 0
    BY <1>5
  <2>3. y \in TmpValues
    BY <1>3
  <2>4. x \in TmpValues /\ x.expires = y.expires
    BY <2>2, <2>3 DEF TmpValues
  <2> QED
    BY <2>2, <2>4
<1>7. tmps' \in [TmpNames -> SUBSET TmpValues]
  BY <1>1, <1>2, <1>3, <1>4, <1>6
<1>8. \A u \in TmpNames : tmps'[u] = IF u = t THEN left ELSE sw[u]
  BY <1>1, <1>2, <1>3, <1>4
<1>9. \A u \in TmpNames : \A x \in tmps'[u] :
        /\ x.expires > 0 => x.expires + TmpSweep > nextSweep'
        /\ x.expires = 0 => ~x.read
  BY <1>3, <1>6, <1>8
<1>10. tmpRead'.expires > 0 => tmpRead'.at < tmpRead'.expires + TmpSweep - 1
  <2>1. CASE sw[t] = {}
    BY <1>1, <1>2, <2>1 DEF NoTmpRead
  <2>2. CASE sw[t] # {}
    <3>1. PICK x \in sw[t] : x = CHOOSE y \in sw[t] : TRUE
      BY <2>2
    <3>2. tmpRead' = [expires |-> x.expires, at |-> scriptNow]
      BY <1>1, <1>2, <2>2, <3>1
    <3> QED
      BY <1>3, <3>2
  <2> QED
    BY <2>1, <2>2
<1> QED
  BY <1>1, <1>3, <1>7, <1>9, <1>10 DEF TmpInv

LEMMA ListKeepsTmps == ASSUME TmpInv, TmpList PROVE TmpInv'
<1>1. /\ SweepThen /\ tmps' = Swept /\ tmpRead' = tmpRead /\ scriptNow' = scriptNow
      /\ scriptsUp' = scriptsUp /\ scriptsUp
  BY DEF TmpList, Respond
<1> QED
  BY <1>1, SweepKeeps DEF TmpInv

LEMMA SetKeepsTmps ==
  ASSUME TmpInv, NEW t \in TmpNames, NEW life \in TmpLives, TmpSet(t, life)
  PROVE  TmpInv'
<1>1. TmpSweep \in Nat /\ TmpSweep > 0 /\ scriptNow \in Nat /\ nextSweep \in Nat /\ life \in Int
  BY ScriptAssumption DEF TmpInv
<1>2. PICK x : x = [expires |-> IF life > 0 THEN scriptNow + life ELSE life, read |-> FALSE]
  OBVIOUS
<1>3. /\ x \in TmpValues /\ ~x.read /\ (x.expires > 0 => x.expires > scriptNow)
  BY <1>1, <1>2 DEF TmpValues
<1>4. x.expires > 0 => x.expires + TmpSweep > nextSweep
  <2>1. x.expires \in Int
    BY <1>3 DEF TmpValues
  <2> QED
    BY <1>1, <1>3, <2>1 DEF TmpInv
<1>5. /\ tmps' = [tmps EXCEPT ![t] = {x}] /\ scriptsUp' = scriptsUp /\ scriptsUp
      /\ UNCHANGED <<nextSweep, tmpRead, scriptNow>>
  BY <1>2 DEF TmpSet, Respond
<1>6. tmps' \in [TmpNames -> SUBSET TmpValues] /\ \A u \in TmpNames : tmps'[u] = IF u = t THEN {x} ELSE tmps[u]
  BY <1>3, <1>5 DEF TmpInv
<1> QED
  BY <1>3, <1>4, <1>5, <1>6 DEF TmpInv

LEMMA DeleteKeepsTmps == ASSUME TmpInv, NEW t \in TmpNames, TmpDelete(t) PROVE TmpInv'
<1>1. /\ tmps' = [tmps EXCEPT ![t] = {}] /\ scriptsUp' = scriptsUp /\ scriptsUp
      /\ UNCHANGED <<nextSweep, tmpRead, scriptNow>>
  BY DEF TmpDelete, Respond
<1>2. /\ tmps' \in [TmpNames -> SUBSET TmpValues]
      /\ \A u \in TmpNames : tmps'[u] = IF u = t THEN {} ELSE tmps[u]
  BY <1>1 DEF TmpInv
<1> QED
  BY <1>1, <1>2 DEF TmpInv

LEMMA NoTmpsRight == NoTmps \in [TmpNames -> SUBSET TmpValues] /\ \A t \in TmpNames : NoTmps[t] = {}
BY DEF NoTmps

LEMMA StopKeepsTmps == ASSUME TmpInv, ScriptsStop \/ ScriptsStart PROVE TmpInv'
<1>1. CASE ScriptsStop
  <2>1. tmps' = NoTmps /\ tmpRead' = NoTmpRead /\ nextSweep' = nextSweep /\ scriptNow' = scriptNow
    BY <1>1 DEF ScriptsStop
  <2>2. ~(tmpRead'.expires > 0)
    BY <2>1 DEF NoTmpRead
  <2> QED
    BY <2>1, <2>2, NoTmpsRight DEF TmpInv
<1>2. CASE ScriptsStart
  <2>1. /\ tmps = NoTmps /\ tmps' = tmps /\ tmpRead' = tmpRead /\ scriptNow' = scriptNow
        /\ nextSweep' = scriptNow + TmpSweep /\ scriptsUp' = TRUE
    BY <1>2 DEF ScriptsStart, TmpInv
  <2>2. scriptNow + TmpSweep \in Nat
    BY ScriptAssumption DEF TmpInv
  <2> QED
    BY <2>1, <2>2, NoTmpsRight DEF TmpInv
<1> QED
  BY <1>1, <1>2

LEMMA TmpStep == ASSUME TmpInv, [ScriptsNext]_scriptVars PROVE TmpInv'
<1>1. ASSUME UNCHANGED <<tmpVars, scriptNow, scriptsUp>> PROVE TmpInv'
  BY <1>1 DEF TmpInv, tmpVars
<1>2. CASE UNCHANGED scriptVars
  BY <1>1, <1>2 DEF scriptVars, tmpVars
<1>3. ASSUME NEW x, NEW y, NEW z,
             \/ ScriptSave(x, y, z) \/ ScriptDelete(x) \/ VarSet(x, y) \/ VarDelete(x) \/ ScriptPost(x)
             \/ ScriptExecute(x, y) \/ WorkerBegins(x) \/ WorkerEnds(x) \/ ScriptEdit(x, y)
             \/ ScriptRead \/ ScriptReload \/ VarsSave
      PROVE  TmpInv'
  BY <1>1, <1>3 DEF ScriptSave, ScriptDelete, VarSet, VarDelete, ScriptPost, ScriptExecute, WorkerBegins,
                    WorkerEnds, ScriptEdit, ScriptRead, ScriptReload, VarsSave, Respond
<1>4. ASSUME NEW t \in TmpNames, NEW life \in TmpLives, TmpSet(t, life) PROVE TmpInv'
  BY <1>4, SetKeepsTmps
<1>5. ASSUME NEW t \in TmpNames, TmpDelete(t) \/ TmpGet(t) PROVE TmpInv'
  BY <1>5, DeleteKeepsTmps, GetKeepsTmps
<1>6. CASE ScriptTick
  <2>1. UNCHANGED <<tmps, nextSweep, tmpRead, scriptsUp>> /\ scriptNow' = scriptNow + 1
    BY <1>6 DEF ScriptTick, tmpVars
  <2>2. scriptNow + 1 \in Nat /\ nextSweep <= scriptNow + 1 + TmpSweep
    BY ScriptAssumption DEF TmpInv
  <2> QED
    BY <2>1, <2>2 DEF TmpInv
<1> QED
  BY <1>2, <1>3, <1>4, <1>5, <1>6, ListKeepsTmps, StopKeepsTmps DEF ScriptsNext, ScriptsRequest

LEMMA ScriptStart == ScriptsInit => ScriptInv
<1> SUFFICES ASSUME ScriptsInit PROVE ScriptInv
  OBVIOUS
<1>1. /\ <<>> \in Seq(ScriptEntries) /\ <<>> \in Seq(0..1) /\ DOMAIN <<>> = {}
  OBVIOUS
<1>2. StoreInv
  BY <1>1 DEF ScriptsInit, StoreInv, OnDisk
<1>3. RunInv
  BY <1>1 DEF ScriptsInit, RunInv, ScriptsAnswer
<1>4. TmpInv
  BY NoTmpsRight, ScriptAssumption DEF ScriptsInit, TmpInv, NoTmpRead
<1> QED
  BY <1>2, <1>3, <1>4 DEF ScriptInv

(* The list of scripts is that of the files, every request gets one answer,  *)
(* and no temporary variable is returned long after it expired or twice     *)
(* (scripts/api_scripts.c, scripts_worker.c, api_tmp.c).                   *)
THEOREM ScriptsCorrect == ScriptsSpec => []ScriptsOK
<1>1. ScriptInv => ScriptsOK
  <2>1. SUFFICES ASSUME ScriptInv PROVE ScriptsOnDisk /\ TmpsFresh
    BY DEF ScriptsOK, ScriptInv, RunInv
  <2>2. ScriptsOnDisk
    BY <2>1 DEF ScriptInv, StoreInv, OnDisk, ScriptsOnDisk, EntriesOf
  <2> QED
    BY <2>1, <2>2 DEF ScriptInv, TmpInv, TmpsFresh
<1>2. ScriptInv /\ [ScriptsNext]_scriptVars => ScriptInv'
  BY StoreStep, RunStep, TmpStep DEF ScriptInv
<1> QED
  BY <1>1, <1>2, ScriptStart, PTL DEF ScriptsSpec

------------------------------------------------------------------------------
(* The files of the api thread.                                             *)

\* what a line of a file may hold
Lines == Entries \union {"default"}

\* tmp has the first lines of what is to be written
Partial == Len(tmp) <= Len(inMemory[Head(toSave)])
           /\ \A i \in 1..Len(tmp) : tmp[i] = inMemory[Head(toSave)][i]

\* The inductive invariant
FileInv ==
  /\ inMemory \in [Files -> Seq(Lines)] /\ disk \in [Files -> Seq(Lines) \union {NoFile}]
  /\ toSave \in Seq(Files) /\ tmp \in Seq(Lines) \union {NoFile}
  /\ tmp # NoFile => toSave # <<>> /\ Partial
  /\ FilesWhole

LEMMA FileNames == Files = {"last_played", "presets", "home", "setting"}
BY DEF Files, Lists

LEMMA FileNumbers ==
  /\ HomeMax \in Nat \ {0} /\ LastPlayedCount \in Nat \ {0}
BY StateFilesAssumption

(* The first lines of a list.                                               *)
LEMMA FirstLines ==
  ASSUME NEW s \in Seq(Lines), NEW n \in Nat, n <= Len(s)
  PROVE  SubSeq(s, 1, n) \in Seq(Lines)
OBVIOUS

(* A command leaves lists, and nothing to write.                            *)
LEMMA CommandKeepsFiles ==
  ASSUME FileInv, toSave = <<>>, NEW f \in Files, NEW l \in Seq(Lines),
         inMemory' = [inMemory EXCEPT ![f] = l], UNCHANGED <<disk, written, tmp>>,
         toSave' \in Seq(Files)
  PROVE  FileInv'
BY DEF FileInv, FilesWhole, Partial

LEMMA HomeLines ==
  ASSUME NEW s \in Seq(Lines), NEW i \in DOMAIN s, NEW j \in DOMAIN s
  PROVE  /\ RemoveAt(s, i) \in Seq(Lines)
         /\ InsertAt(RemoveAt(s, i), j, s[i]) \in Seq(Lines)
<1>1. Len(s) \in Nat /\ i \in 1..Len(s) /\ j \in 1..Len(s) /\ s[i] \in Lines
  OBVIOUS
<1>2. SubSeq(s, 1, i - 1) \in Seq(Lines) /\ SubSeq(s, i + 1, Len(s)) \in Seq(Lines)
      /\ Len(SubSeq(s, 1, i - 1)) = i - 1 /\ Len(SubSeq(s, i + 1, Len(s))) = Len(s) - i
  BY <1>1
<1>3. PICK r : r = RemoveAt(s, i)
  OBVIOUS
<1>4. r \in Seq(Lines) /\ Len(r) = Len(s) - 1
  BY <1>3, RemovedAt
<1>5. SubSeq(r, 1, j - 1) \in Seq(Lines) /\ SubSeq(r, j, Len(r)) \in Seq(Lines)
  BY <1>1, <1>4
<1>6. <<s[i]>> \in Seq(Lines)
  BY <1>1
<1>7. InsertAt(r, j, s[i]) \in Seq(Lines)
  BY <1>5, <1>6 DEF InsertAt
<1> QED
  BY <1>3, <1>4, <1>7

LEMMA ChangeKeepsFiles ==
  ASSUME FileInv,
         \/ \E e \in Entries : HomeSave(e) \/ PresetSave(e) \/ LastPlayed(e) \/ SettingSet(e)
         \/ HomeMove \/ HomeRm \/ PresetRm
  PROVE  FileInv'
<1>0. toSave = <<>> /\ inMemory \in [Files -> Seq(Lines)] /\ <<>> \in Seq(Files) /\ <<>> \in Seq(Lines)
  <2>1. Between
    BY DEF HomeSave, PresetSave, LastPlayed, SettingSet, HomeMove, HomeRm, PresetRm, FileCommand
  <2> QED
    BY <2>1 DEF FileInv, Between
<1>1. ASSUME NEW f \in Files, NEW l \in Seq(Lines), FileCommand(f, l) PROVE FileInv'
  BY <1>0, <1>1, CommandKeepsFiles DEF FileCommand
<1>2. "home" \in Files /\ "presets" \in Files /\ "last_played" \in Files /\ "setting" \in Files
  BY FileNames
<1>3. inMemory["home"] \in Seq(Lines)
  BY <1>0, <1>2
<1>4. ASSUME NEW e \in Entries, HomeSave(e) PROVE FileInv'
  <2>1. \A icons \in HomeWith(e) : icons \in Seq(Lines)
    BY <1>3 DEF HomeWith, Lines
  <2> QED
    BY <1>1, <1>2, <1>4, <2>1 DEF HomeSave
<1>5. ASSUME NEW e \in Entries, PresetSave(e) PROVE FileInv'
  <2>1. <<e>> \in Seq(Lines)
    BY DEF Lines
  <2> QED
    BY <1>1, <1>2, <1>5, <2>1 DEF PresetSave
<1>6. ASSUME NEW e \in Entries, LastPlayed(e) PROVE FileInv'
  <2>1. PICK l : l = <<e>> \o inMemory["last_played"]
    OBVIOUS
  <2>2. l \in Seq(Lines)
    <3>1. <<e>> \in Seq(Lines) /\ inMemory["last_played"] \in Seq(Lines)
      BY <1>0, <1>2 DEF Lines
    <3> QED
      BY <2>1, <3>1
  <2>3. PICK n : n = IF Len(l) < LastPlayedCount THEN Len(l) ELSE LastPlayedCount
    OBVIOUS
  <2>4. n \in Nat /\ n <= Len(l)
    BY <2>2, <2>3, FileNumbers
  <2>5. inMemory' = [inMemory EXCEPT !["last_played"] = SubSeq(l, 1, n)]
    BY <1>0, <1>2, <1>6, <2>1, <2>3 DEF LastPlayed
  <2>6. SubSeq(l, 1, n) \in Seq(Lines)
    BY <2>2, <2>4, FirstLines
  <2> QED
    BY <1>0, <1>2, <1>6, <2>5, <2>6, CommandKeepsFiles DEF LastPlayed
<1>7. ASSUME NEW e \in Entries, SettingSet(e) PROVE FileInv'
  <2>1. <<e>> \in Seq(Lines) /\ <<"setting">> \in Seq(Files)
    BY <1>2 DEF Lines
  <2> QED
    BY <1>0, <1>2, <1>7, <2>1, CommandKeepsFiles DEF SettingSet
<1>8. ASSUME HomeMove PROVE FileInv'
  BY <1>1, <1>2, <1>3, <1>8, HomeLines DEF HomeMove
<1>9. ASSUME HomeRm PROVE FileInv'
  BY <1>1, <1>2, <1>3, <1>9, HomeLines DEF HomeRm
<1>10. ASSUME PresetRm PROVE FileInv'
  BY <1>0, <1>1, <1>2, <1>10 DEF PresetRm
<1> QED
  BY <1>4, <1>5, <1>6, <1>7, <1>8, <1>9, <1>10

(* Nothing is open when a save begins.                                      *)
LEMMA SaveBegins ==
  ASSUME FileInv, SaveTimer \/ SaveRequest \/ Stop
  PROVE  FileInv'
<1>1. SaveOrder \in Seq(Files)
  BY FileNames DEF SaveOrder
<1> QED
  BY <1>1 DEF FileInv, FilesWhole, Partial, SaveTimer, SaveRequest, Stop, StartSave, Between

(* A file gets its name when it is complete.                                *)
LEMMA NextFileKeeps ==
  ASSUME FileInv, toSave # <<>>, NEW ok \in BOOLEAN, NextFile(ok), ok => WrittenOut
  PROVE  FileInv'
<1>1. Head(toSave) \in Files /\ Tail(toSave) \in Seq(Files)
  BY DEF FileInv
<1>2. ok => tmp = inMemory[Head(toSave)] /\ tmp \in Seq(Lines)
  <2>1. SUFFICES ASSUME ok PROVE tmp = inMemory[Head(toSave)] /\ tmp \in Seq(Lines)
    OBVIOUS
  <2>2. PICK l \in Seq(Lines) : l = inMemory[Head(toSave)]
    BY <1>1 DEF FileInv
  <2>3. tmp \in Seq(Lines) /\ Len(tmp) = Len(l) /\ \A i \in 1..Len(tmp) : tmp[i] = l[i]
    BY <2>1, <2>2 DEF FileInv, Partial, WrittenOut
  <2>4. tmp = l
    BY <2>2, <2>3
  <2> QED
    BY <2>2, <2>3, <2>4
<1>3. disk' = written' /\ disk' \in [Files -> Seq(Lines) \union {NoFile}]
  BY <1>1, <1>2 DEF FileInv, FilesWhole, NextFile
<1> QED
  BY <1>1, <1>3 DEF FileInv, FilesWhole, NextFile

LEMMA SaveKeepsFiles == ASSUME FileInv, SaveSteps PROVE FileInv'
<1>1. toSave # <<>>
  BY DEF SaveSteps, OpenTmp, OpenFails, WriteLine, RenameTmp, WriteFails, Saving
<1>2. CASE OpenTmp
  <2>1. <<>> \in Seq(Lines) /\ Len(<<>>) = 0 /\ Head(toSave) \in Files
    BY <1>1 DEF FileInv
  <2>2. inMemory[Head(toSave)] \in Seq(Lines)
    BY <2>1 DEF FileInv
  <2> QED
    BY <1>1, <1>2, <2>1, <2>2 DEF OpenTmp, FileInv, Partial, FilesWhole
<1>3. CASE OpenFails \/ WriteFails
  BY <1>1, <1>3, NextFileKeeps DEF OpenFails, WriteFails
<1>4. CASE RenameTmp
  BY <1>1, <1>4, NextFileKeeps DEF RenameTmp
<1>5. CASE WriteLine
  <2>1. PICK l \in Seq(Lines) : l = inMemory[Head(toSave)]
    BY <1>1 DEF FileInv
  <2>2. tmp \in Seq(Lines) /\ Len(tmp) < Len(l) /\ \A i \in 1..Len(tmp) : tmp[i] = l[i]
    BY <1>5, <2>1 DEF WriteLine, WrittenOut, FileInv, Partial
  <2>3. l[Len(tmp) + 1] \in Lines
    BY <2>1, <2>2
  <2>4. PICK t : t = Append(tmp, l[Len(tmp) + 1])
    OBVIOUS
  <2>5. t \in Seq(Lines) /\ Len(t) <= Len(l) /\ \A i \in 1..Len(t) : t[i] = l[i]
    BY <2>1, <2>2, <2>3, <2>4
  <2>6. tmp' = t /\ UNCHANGED <<inMemory, disk, written, toSave>>
    BY <1>5, <2>1, <2>4 DEF WriteLine
  <2> QED
    BY <1>1, <2>1, <2>5, <2>6 DEF FileInv, Partial, FilesWhole
<1> QED
  BY <1>2, <1>3, <1>4, <1>5 DEF SaveSteps

LEMMA StartKeepsFiles == ASSUME FileInv, Start PROVE FileInv'
<1>1. ASSUME NEW f \in Files PROVE FileRestored(f) \in Seq(Lines)
  <2>1. Default \in Seq(Lines) /\ <<>> \in Seq(Lines)
    BY DEF Default, Lines
  <2>2. CASE disk[f] = NoFile
    BY <2>1, <2>2 DEF FileRestored
  <2>3. CASE disk[f] # NoFile
    <3>1. PICK d \in Seq(Lines) : d = disk[f]
      BY <2>3 DEF FileInv
    <3>2. PICK n : n = IF f = "home" /\ Len(d) > HomeMax THEN HomeMax ELSE Len(d)
      OBVIOUS
    <3>3. n \in Nat /\ n <= Len(d)
      BY <3>1, <3>2, FileNumbers
    <3>4. SubSeq(d, 1, n) \in Seq(Lines)
      BY <3>3, FirstLines
    <3> QED
      BY <2>3, <3>1, <3>2, <3>4 DEF FileRestored
  <2> QED
    BY <2>2, <2>3
<1>2. <<"setting">> \in Seq(Files) /\ <<>> \in Seq(Files)
  BY FileNames
<1> QED
  BY <1>1, <1>2 DEF Start, FileInv, FilesWhole

LEMMA FileStart == StateFilesInit => FileInv
<1>1. /\ <<"setting">> \in Seq(Files) /\ Default \in Seq(Lines) /\ <<>> \in Seq(Lines)
  BY FileNames DEF Default, Lines
<1> QED
  BY <1>1 DEF StateFilesInit, FileInv, FilesWhole

LEMMA FileStep == FileInv /\ [StateFilesNext]_stateFileVars => FileInv'
<1> SUFFICES ASSUME FileInv, [StateFilesNext]_stateFileVars PROVE FileInv'
  OBVIOUS
<1>1. CASE Crash
  BY <1>1 DEF Crash, FileInv, FilesWhole
<1>2. CASE End
  BY <1>2 DEF End, FileInv, FilesWhole, Partial
<1>3. CASE UNCHANGED stateFileVars
  BY <1>3 DEF stateFileVars, FileInv, FilesWhole, Partial
<1> QED
  BY <1>1, <1>2, <1>3, ChangeKeepsFiles, SaveBegins, SaveKeepsFiles, StartKeepsFiles
  DEF StateFilesNext

(* A file holds the whole of what the last save that succeeded had to write, *)
(* at whatever point a write fails or the process ends (filehandler.c).      *)
THEOREM FilesStayWhole == StateFilesSpec => []FilesWhole
<1>1. FileInv => FilesWhole
  BY DEF FileInv
<1> QED
  BY <1>1, FileStart, FileStep, PTL DEF StateFilesSpec

------------------------------------------------------------------------------
(* The random selection.                                                    *)

\* what a selection starts from
SoundWorld(w) ==
  /\ w.candidates \in Seq(RandomKeys) /\ w.have \in Seq(RandomKeys) /\ w.want \in Nat
  /\ w.uniq \in BOOLEAN /\ w.pages \in BOOLEAN

Already(w) == Len(w.have)

\* what was drawn fits and is unique, and what was there is
Drawn(w, list) ==
  /\ list \in Seq(RandomKeys) /\ Already(w) <= Len(list)
  /\ \A i \in 1..Already(w) : list[i] = w.have[i]
  /\ \A i \in Already(w) + 1 .. Len(list) :
       /\ list[i] \in w.fit
       /\ w.uniq => /\ \A k \in w.queued : k # list[i] /\ RandomTag[k] # RandomTag[list[i]]
                    /\ \A j \in 1 .. i - 1 : RandomTag[list[j]] # RandomTag[list[i]]

\* the candidates looked at so far, and the end of the page
Considered == lineno - 1 + skipno
PageEnd(w, start) ==
  IF w.pages /\ start + RandomPage < Len(w.candidates) THEN start + RandomPage ELSE Len(w.candidates)

\* no use for a candidate: drawn, of no fit, or not unique
NoUse(w, list, key) ==
  \/ \E i \in DOMAIN list : list[i] = key
  \/ key \notin w.fit
  \/ w.uniq /\ \/ \E k \in w.queued : k = key \/ RandomTag[k] = RandomTag[key]
               \/ \E i \in DOMAIN list : list[i] = key \/ RandomTag[list[i]] = RandomTag[key]

\* as long as the list is short, every candidate that could be drawn was appended
Exhausted ==
  Len(picked) < world.want =>
    /\ Len(picked) = Already(world) + lineno - 1
    /\ \A i \in 1..Considered : NoUse(world, picked, world.candidates[i])

OnPage ==
  /\ nextPage \in Seq(RandomKeys)
  /\ Considered + Len(nextPage) = PageEnd(world, pageStart)
  /\ \A i \in 1..Len(nextPage) : nextPage[i] = world.candidates[Considered + i]

\* The inductive invariant
DrawInv ==
  /\ SoundWorld(world) /\ lineno \in Nat \ {0} /\ skipno \in Nat /\ pageStart \in Nat
  /\ Considered <= Len(world.candidates)
  /\ randomAt \in {"idle", "read", "done", "failed"}
  /\ randomAt = "idle" => lineno = 1 /\ skipno = 0 /\ pageStart = 0
  /\ randomAt # "idle" => Drawn(world, picked) /\ Exhausted
  /\ randomAt = "read" => OnPage
  /\ randomAt = "done" /\ Len(picked) < world.want => Considered = Len(world.candidates)

(* A window of MPD is the part of the candidates up to its end.             *)
LEMMA WindowRight ==
  ASSUME NEW w, SoundWorld(w), NEW start \in Nat, start <= Len(w.candidates), ~w.pages => start = 0
  PROVE  /\ Window(w, start) \in Seq(RandomKeys)
         /\ start + Len(Window(w, start)) = PageEnd(w, start)
         /\ \A i \in 1..Len(Window(w, start)) : Window(w, start)[i] = w.candidates[start + i]
<1>1. PICK s : s = w.candidates
  OBVIOUS
<1>2. s \in Seq(RandomKeys) /\ Len(s) \in Nat /\ RandomPage \in Nat \ {0}
  BY <1>1, RandomAssumption DEF SoundWorld
<1>3. CASE ~w.pages
  BY <1>1, <1>2, <1>3 DEF Window, PageEnd
<1>4. CASE w.pages
  <2>1. PICK e : e = IF start + RandomPage < Len(s) THEN start + RandomPage ELSE Len(s)
    OBVIOUS
  <2>2. e \in Nat /\ start <= e /\ e <= Len(s)
    BY <1>1, <1>2, <2>1
  <2>3. PICK x : x = SubSeq(s, start + 1, e)
    OBVIOUS
  <2>4. x \in Seq(RandomKeys) /\ Len(x) = e - start /\ \A i \in 1..Len(x) : x[i] = s[start + i]
    BY <1>2, <2>2, <2>3
  <2>5. Window(w, start) = x /\ PageEnd(w, start) = e
    BY <1>1, <1>4, <2>1, <2>3 DEF Window, PageEnd
  <2> QED
    BY <1>1, <2>2, <2>4, <2>5
<1> QED
  BY <1>3, <1>4

(* Unique is what the two lists say.                                        *)
LEMMA UniqueMeans ==
  ASSUME NEW key, picked \in Seq(RandomKeys)
  PROVE  Unique(key) <=>
           ~(world.uniq /\ \/ \E k \in world.queued : k = key \/ RandomTag[k] = RandomTag[key]
                           \/ \E i \in DOMAIN picked : picked[i] = key \/ RandomTag[picked[i]] = RandomTag[key])
BY DEF Unique, ToSet

(* Entries at the end keep what there is no use for.                        *)
LEMMA NoUseStays ==
  ASSUME NEW w, NEW list, NEW longer, NEW key, NoUse(w, list, key), DOMAIN list \subseteq DOMAIN longer,
         \A i \in DOMAIN list : longer[i] = list[i]
  PROVE  NoUse(w, longer, key)
BY DEF NoUse

(* A candidate that fits goes to the end of a list that is short.           *)
LEMMA AppendDrawn ==
  ASSUME NEW w, SoundWorld(w), NEW list, Drawn(w, list), NEW key \in RandomKeys, key \in w.fit,
         w.uniq => /\ \A k \in w.queued : k # key /\ RandomTag[k] # RandomTag[key]
                   /\ \A i \in DOMAIN list : RandomTag[list[i]] # RandomTag[key]
  PROVE  Drawn(w, Append(list, key))
<1>1. list \in Seq(RandomKeys) /\ w.have \in Seq(RandomKeys)
  BY DEF Drawn, SoundWorld
<1>2. PICK new : new = Append(list, key)
  OBVIOUS
<1>3. /\ new \in Seq(RandomKeys) /\ Len(new) = Len(list) + 1 /\ new[Len(new)] = key
      /\ \A i \in 1..Len(list) : new[i] = list[i]
  BY <1>1, <1>2
<1>4. Len(list) \in Nat /\ DOMAIN list = 1..Len(list) /\ Already(w) \in Nat
  BY <1>1 DEF Already
<1>5. Already(w) <= Len(new) /\ \A i \in 1..Already(w) : new[i] = w.have[i]
  BY <1>3, <1>4 DEF Drawn
<1>6. ASSUME NEW i \in Already(w) + 1 .. Len(new)
      PROVE /\ new[i] \in w.fit
            /\ w.uniq => /\ \A k \in w.queued : k # new[i] /\ RandomTag[k] # RandomTag[new[i]]
                         /\ \A j \in 1 .. i - 1 : RandomTag[new[j]] # RandomTag[new[i]]
  <2>1. CASE i = Len(new)
    BY <1>3, <1>4, <2>1
  <2>2. CASE i # Len(new)
    <3>1. i \in Already(w) + 1 .. Len(list) /\ \A j \in 1..i : new[j] = list[j]
      BY <1>3, <1>4, <2>2
    <3> QED
      BY <1>4, <3>1 DEF Drawn
  <2> QED
    BY <2>1, <2>2
<1> QED
  <2>1. Drawn(w, new)
    BY <1>3, <1>5, <1>6 DEF Drawn
  <2> QED
    BY <1>2, <2>1

(* Or takes the place of one that was drawn.                                *)
LEMMA ReplaceDrawn ==
  ASSUME NEW w, SoundWorld(w), NEW list, Drawn(w, list), NEW key \in RandomKeys, key \in w.fit,
         w.uniq => /\ \A k \in w.queued : k # key /\ RandomTag[k] # RandomTag[key]
                   /\ \A i \in DOMAIN list : RandomTag[list[i]] # RandomTag[key],
         NEW at \in Already(w) + 1 .. Len(list)
  PROVE  Drawn(w, [list EXCEPT ![at] = key])
<1>1. list \in Seq(RandomKeys) /\ w.have \in Seq(RandomKeys)
  BY DEF Drawn, SoundWorld
<1>2. PICK new : new = [list EXCEPT ![at] = key]
  OBVIOUS
<1>3. Len(list) \in Nat /\ DOMAIN list = 1..Len(list) /\ Already(w) \in Nat
  BY <1>1 DEF Already
<1>4. /\ new \in Seq(RandomKeys) /\ Len(new) = Len(list) /\ new[at] = key
      /\ \A i \in 1..Len(list) : i # at => new[i] = list[i]
  BY <1>1, <1>2, <1>3
<1>5. \A i \in 1..Already(w) : new[i] = w.have[i]
  BY <1>3, <1>4 DEF Drawn
<1>6. ASSUME NEW i \in Already(w) + 1 .. Len(list)
      PROVE /\ new[i] \in w.fit
            /\ w.uniq => /\ \A k \in w.queued : k # new[i] /\ RandomTag[k] # RandomTag[new[i]]
                         /\ \A j \in 1 .. i - 1 : RandomTag[new[j]] # RandomTag[new[i]]
  <2>1. CASE i = at
    BY SMTT(30), <1>3, <1>4, <2>1
  <2>2. CASE i # at
    <3>1. new[i] = list[i] /\ i \in 1..Len(list) /\ list[i] \in w.fit
      BY <1>3, <1>4, <2>2 DEF Drawn
    <3>2. ASSUME w.uniq, NEW j \in 1 .. i - 1 PROVE RandomTag[new[j]] # RandomTag[new[i]]
      <4>1. j \in 1..Len(list)
        BY <1>3
      <4>2. CASE j = at
        BY <1>3, <1>4, <3>1, <3>2, <4>2
      <4>3. CASE j # at
        BY <1>4, <3>1, <3>2, <4>1, <4>3 DEF Drawn
      <4> QED
        BY <4>2, <4>3
    <3> QED
      BY <3>1, <3>2 DEF Drawn
  <2> QED
    BY <2>1, <2>2
<1> QED
  BY <1>2, <1>3, <1>4, <1>5, <1>6 DEF Drawn

LEMMA DrawStart == RandomInit => DrawInv
<1>1. <<>> \in Seq(RandomKeys) /\ Len(<<>>) = 0
  OBVIOUS
<1> QED
  BY <1>1 DEF RandomInit, DrawInv, SoundWorld, Considered

LEMMA StartKeepsDraw == ASSUME DrawInv, RandomStart PROVE DrawInv'
<1>1. PICK w \in RandomWorlds :
        /\ world' = w /\ picked' = w.have
        /\ IF Len(w.have) >= w.want THEN randomAt' = "done" /\ nextPage' = <<>>
           ELSE randomAt' = "read" /\ nextPage' = Window(w, 0)
  BY DEF RandomStart
<1>2. SoundWorld(w) /\ randomAt = "idle" /\ UNCHANGED <<lineno, skipno, pageStart>>
  BY RandomAssumption DEF SoundWorld, RandomStart
<1>3. lineno = 1 /\ skipno = 0 /\ pageStart = 0 /\ lineno' = 1 /\ skipno' = 0 /\ pageStart' = 0
  BY <1>2 DEF DrawInv
<1>4. w.candidates \in Seq(RandomKeys) /\ Len(w.candidates) \in Nat /\ Len(w.have) \in Nat /\ w.want \in Nat
      /\ w.have \in Seq(RandomKeys)
  BY <1>2 DEF SoundWorld
<1>5. Drawn(w, w.have)
  BY <1>4 DEF Drawn, Already
<1>6. Considered' = 0
  BY <1>3 DEF Considered
<1>7. Exhausted'
  BY <1>1, <1>3, <1>4, <1>6 DEF Exhausted, Already
<1>8. randomAt' = "read" => OnPage'
  <2>1. /\ Window(w, 0) \in Seq(RandomKeys) /\ 0 + Len(Window(w, 0)) = PageEnd(w, 0)
        /\ \A i \in 1..Len(Window(w, 0)) : Window(w, 0)[i] = w.candidates[0 + i]
    BY <1>2, <1>4, WindowRight
  <2> QED
    BY <1>1, <1>3, <1>6, <2>1 DEF OnPage
<1>9. randomAt' = "done" => ~(Len(picked') < world'.want)
  BY <1>1, <1>4
<1> QED
  BY <1>1, <1>2, <1>3, <1>4, <1>5, <1>6, <1>7, <1>8, <1>9 DEF DrawInv

(* The next candidate: what becomes of the list.                            *)
LEMMA TakenDrawn ==
  ASSUME DrawInv, randomAt = "read", NEW key \in RandomKeys, key \in world.fit, Unique(key), Taken(key)
  PROVE  /\ Drawn(world, picked')
         /\ Len(picked) < world.want => picked' = Append(picked, key)
         /\ Len(picked') >= Len(picked)
<1>1. /\ Drawn(world, picked) /\ Exhausted /\ SoundWorld(world) /\ lineno \in Nat \ {0}
      /\ picked \in Seq(RandomKeys) /\ Len(picked) \in Nat /\ DOMAIN picked = 1..Len(picked)
  BY DEF DrawInv, Drawn
<1>2. /\ world.want \in Nat /\ Already(world) \in Nat /\ Already(world) <= Len(picked)
      /\ Draws = world.want - Already(world)
  BY <1>1 DEF SoundWorld, Drawn, Already, Draws
<1>3. world.uniq => /\ \A k \in world.queued : k # key /\ RandomTag[k] # RandomTag[key]
                    /\ \A i \in DOMAIN picked : RandomTag[picked[i]] # RandomTag[key]
  BY <1>1, UniqueMeans
<1>4. CASE picked' = picked /\ lineno > Draws
  <2>1. ~(Len(picked) < world.want)
    BY <1>1, <1>2, <1>4 DEF Exhausted
  <2>2. picked' = picked
    BY <1>4
  <2>3. Drawn(world, picked') /\ Len(picked') >= Len(picked)
    BY <1>1, <2>2
  <2> QED
    BY <2>1, <2>3
<1>5. CASE Len(picked) < world.want /\ picked' = Append(picked, key)
  BY <1>1, <1>3, <1>5, AppendDrawn
<1>6. CASE Len(picked) >= world.want
           /\ \E i \in 1..Draws : picked' = [picked EXCEPT ![Len(world.have) + i] = key]
  <2>1. PICK i \in 1..Draws : picked' = [picked EXCEPT ![Already(world) + i] = key]
    BY <1>6 DEF Already
  <2>2. Already(world) + i \in Already(world) + 1 .. Len(picked)
    BY <1>1, <1>2, <1>6
  <2>3. Drawn(world, picked')
    BY <1>1, <1>3, <2>1, <2>2, ReplaceDrawn
  <2> QED
    <3>1. Len(picked') = Len(picked) /\ ~(Len(picked) < world.want)
      BY <1>1, <1>2, <1>6, <2>1
    <3> QED
      BY <1>1, <2>3, <3>1
<1> QED
  BY <1>4, <1>5, <1>6 DEF Taken

LEMMA ConsiderKeepsDraw == ASSUME DrawInv, Consider PROVE DrawInv'
<1>1. /\ randomAt = "read" /\ nextPage # <<>> /\ nextPage' = Tail(nextPage)
      /\ UNCHANGED <<world, pageStart, randomAt>>
  BY DEF Consider
<1>2. PICK key : key = Head(nextPage)
  OBVIOUS
<1>3. PICK c : c = Considered
  OBVIOUS
<1>4. PICK page : page = nextPage
  OBVIOUS
<1>5. /\ page \in Seq(RandomKeys) /\ Len(page) \in Nat /\ Len(page) > 0 /\ key \in RandomKeys /\ key = page[1]
      /\ nextPage' = Tail(page) /\ Tail(page) \in Seq(RandomKeys) /\ Len(Tail(page)) = Len(page) - 1
      /\ \A i \in 1..Len(Tail(page)) : Tail(page)[i] = page[i + 1]
  BY <1>1, <1>2, <1>4 DEF DrawInv, OnPage
<1>6. /\ lineno \in Nat \ {0} /\ skipno \in Nat /\ pageStart \in Nat /\ SoundWorld(world)
      /\ Drawn(world, picked) /\ Exhausted /\ c \in Nat
  BY <1>1, <1>3 DEF DrawInv, Considered
<1>7. /\ c + Len(page) = PageEnd(world, pageStart) /\ c + 1 \in Nat
      /\ \A i \in 1..Len(page) : page[i] = world.candidates[c + i]
  BY <1>1, <1>3, <1>4, <1>6 DEF DrawInv, OnPage
<1>8. Len(world.candidates) \in Nat /\ PageEnd(world, pageStart) <= Len(world.candidates)
  <2>1. Len(world.candidates) \in Nat
    BY <1>6 DEF SoundWorld
  <2>2. pageStart + RandomPage \in Nat
    BY <1>6, RandomAssumption
  <2> QED
    BY <2>1, <2>2 DEF PageEnd
<1>9. key = world.candidates[c + 1] /\ c + 1 <= Len(world.candidates)
  BY <1>5, <1>6, <1>7, <1>8
<1>10. /\ Considered' = c + 1 /\ lineno' \in Nat \ {0} /\ skipno' \in Nat
       /\ \/ /\ key \in world.fit /\ Unique(key) /\ Taken(key) /\ lineno' = lineno + 1
          \/ /\ ~(key \in world.fit /\ Unique(key)) /\ picked' = picked /\ lineno' = lineno
  <2>1. IF key \in world.fit /\ Unique(key)
        THEN Taken(key) /\ lineno' = lineno + 1 /\ skipno' = skipno
        ELSE skipno' = skipno + 1 /\ picked' = picked /\ lineno' = lineno
    BY <1>2 DEF Consider
  <2>2. c = lineno - 1 + skipno
    BY <1>3 DEF Considered
  <2>3. Considered' = lineno' - 1 + skipno'
    BY DEF Considered
  <2> QED
    BY <1>6, <2>1, <2>2, <2>3
<1>11. OnPage'
  <2>1. \A i \in 1..Len(Tail(page)) : Tail(page)[i] = world.candidates[c + 1 + i]
    <3>1. SUFFICES ASSUME NEW i \in 1..Len(Tail(page)) PROVE Tail(page)[i] = world.candidates[c + 1 + i]
      OBVIOUS
    <3>2. i + 1 \in 1..Len(page) /\ c + (i + 1) = c + 1 + i
      BY <1>5, <1>6
    <3> QED
      BY <1>5, <1>7, <3>2
  <2>2. c + 1 + Len(Tail(page)) = PageEnd(world, pageStart)
    BY <1>5, <1>6, <1>7
  <2>3. PageEnd(world, pageStart)' = PageEnd(world, pageStart)
    BY <1>1 DEF PageEnd
  <2> QED
    BY <1>1, <1>5, <1>10, <2>1, <2>2, <2>3 DEF OnPage
<1>12. picked \in Seq(RandomKeys) /\ Len(picked) \in Nat /\ DOMAIN picked = 1..Len(picked)
       /\ world.want \in Nat /\ Already(world) \in Nat
  BY <1>6 DEF Drawn, SoundWorld, Already
<1>13. Drawn(world, picked') /\ Len(picked') >= Len(picked)
  <2>1. CASE picked' = picked
    BY <1>6, <1>12, <2>1
  <2>2. CASE key \in world.fit /\ Unique(key) /\ Taken(key)
    BY <1>1, <1>5, <2>2, TakenDrawn
  <2> QED
    BY <1>10, <2>1, <2>2
<1>14. Exhausted'
  <2>1. SUFFICES ASSUME Len(picked') < world.want
        PROVE /\ Len(picked') = Already(world) + lineno' - 1
              /\ \A i \in 1..c + 1 : NoUse(world, picked', world.candidates[i])
    <3>1. world' = world /\ Already(world)' = Already(world)
      BY <1>1 DEF Already
    <3> QED
      BY <1>10, <2>1, <3>1 DEF Exhausted, NoUse
  <2>2. Len(picked) < world.want
    <3>1. Len(picked') \in Nat
      BY <1>13 DEF Drawn
    <3> QED
      BY <1>12, <1>13, <2>1, <3>1
  <2>3. Len(picked) = Already(world) + lineno - 1 /\ \A i \in 1..c : NoUse(world, picked, world.candidates[i])
    BY <1>3, <1>6, <2>2 DEF Exhausted
  <2>4. CASE key \in world.fit /\ Unique(key) /\ Taken(key) /\ lineno' = lineno + 1
    <3>1. PICK new : new = Append(picked, key)
      OBVIOUS
    <3>2. picked' = new
      BY <1>1, <1>5, <2>2, <2>4, <3>1, TakenDrawn
    <3>3. /\ Len(new) = Len(picked) + 1 /\ DOMAIN new = 1..Len(picked) + 1 /\ new[Len(picked) + 1] = key
          /\ \A i \in 1..Len(picked) : new[i] = picked[i]
      BY <1>5, <1>12, <3>1
    <3>4. NoUse(world, new, key)
      BY <1>12, <3>3 DEF NoUse
    <3>5. \A i \in 1..c : NoUse(world, new, world.candidates[i])
      BY <1>12, <2>3, <3>3, NoUseStays
    <3>6. Len(new) = Already(world) + lineno' - 1
      BY <1>6, <1>12, <2>3, <2>4, <3>3
    <3>7. \A i \in 1..c + 1 : i \in 1..c \/ i = c + 1
      BY <1>6
    <3> QED
      BY <1>9, <3>2, <3>4, <3>5, <3>6, <3>7
  <2>5. CASE ~(key \in world.fit /\ Unique(key)) /\ picked' = picked /\ lineno' = lineno
    <3>1. NoUse(world, picked, key)
      BY <1>12, <2>5, UniqueMeans DEF NoUse
    <3>2. \A i \in 1..c + 1 : i \in 1..c \/ i = c + 1
      BY <1>6
    <3> QED
      BY <1>9, <2>3, <2>5, <3>1, <3>2
  <2> QED
    BY <1>10, <2>4, <2>5
<1> QED
  BY <1>1, <1>6, <1>8, <1>9, <1>10, <1>11, <1>13, <1>14 DEF DrawInv

(* The next page begins where the last one ended, or that was the end.      *)
LEMMA PageKeepsDraw == ASSUME DrawInv, NextPageOf PROVE DrawInv'
<1>1. /\ randomAt = "read" /\ nextPage = <<>> /\ pageStart' = pageStart + RandomPage
      /\ UNCHANGED <<world, picked, lineno, skipno>>
  BY DEF NextPageOf
<1>2. PICK c : c = Considered
  OBVIOUS
<1>3. /\ c \in Nat /\ c = lineno - 1 + skipno /\ lineno \in Nat \ {0} /\ skipno \in Nat /\ pageStart \in Nat
      /\ SoundWorld(world) /\ RandomPage \in Nat \ {0} /\ Len(world.candidates) \in Nat
      /\ c <= Len(world.candidates) /\ pageStart' \in Nat
  BY <1>1, <1>2, RandomAssumption DEF DrawInv, Considered, SoundWorld
<1>4. c = PageEnd(world, pageStart)
  BY <1>1, <1>2, <1>3 DEF DrawInv, OnPage
<1>5. Considered' = c /\ Drawn(world, picked) /\ Exhausted /\ Exhausted'
  <2>1. Considered' = c /\ Exhausted /\ Drawn(world, picked)
    BY <1>1, <1>2 DEF DrawInv, Considered
  <2> QED
    BY <1>1, <1>2, <2>1 DEF Exhausted, Already, NoUse
<1>6. CASE world.pages /\ lineno + skipno > pageStart'
  <2>1. c = pageStart'
    BY <1>1, <1>3, <1>4, <1>6 DEF PageEnd
  <2>2. randomAt' = "read" /\ nextPage' = Window(world, c)
    BY <1>6, <2>1 DEF NextPageOf
  <2>3. /\ Window(world, c) \in Seq(RandomKeys) /\ c + Len(Window(world, c)) = PageEnd(world, c)
        /\ \A i \in 1..Len(Window(world, c)) : Window(world, c)[i] = world.candidates[c + i]
    BY <1>3, <1>6, WindowRight
  <2>4. PageEnd(world', pageStart') = PageEnd(world, c)
    BY <1>1, <2>1 DEF PageEnd
  <2>5. OnPage'
    BY <1>1, <1>5, <2>2, <2>3, <2>4 DEF OnPage
  <2> QED
    BY <1>1, <1>3, <1>5, <2>2, <2>5 DEF DrawInv
<1>7. CASE ~(world.pages /\ lineno + skipno > pageStart')
  <2>1. c = Len(world.candidates)
    BY <1>1, <1>3, <1>4, <1>7 DEF PageEnd
  <2>2. randomAt' = "done"
    BY <1>7 DEF NextPageOf
  <2> QED
    BY <1>1, <1>3, <1>5, <2>1, <2>2 DEF DrawInv
<1> QED
  BY <1>6, <1>7

LEMMA UsedKeepsDraw == ASSUME DrawInv, RandomUsed PROVE DrawInv'
<1>1. <<>> \in Seq(RandomKeys) /\ Len(<<>>) = 0
  OBVIOUS
<1>2. /\ randomAt' = "idle" /\ lineno' = 1 /\ skipno' = 0 /\ pageStart' = 0
      /\ world' = [world EXCEPT !.candidates = <<>>, !.fit = {}, !.queued = {}, !.uniq = FALSE,
                                !.have = <<>>, !.want = 0, !.pages = FALSE]
  BY DEF RandomUsed
<1>3. SoundWorld(world') /\ world'.candidates = <<>>
  BY <1>1, <1>2 DEF SoundWorld
<1>4. Considered' = 0
  BY <1>2 DEF Considered
<1> QED
  BY <1>1, <1>2, <1>3, <1>4 DEF DrawInv

LEMMA DrawStep == DrawInv /\ [RandomNext]_randomVars => DrawInv'
<1> SUFFICES ASSUME DrawInv, [RandomNext]_randomVars PROVE DrawInv'
  OBVIOUS
<1>1. ASSUME UNCHANGED <<world, picked, lineno, skipno, pageStart, nextPage>>,
             randomAt' = randomAt \/ (randomAt = "read" /\ randomAt' = "failed")
      PROVE  DrawInv'
  <2>1. /\ Considered' = Considered /\ Exhausted' = Exhausted
        /\ Drawn(world, picked)' = Drawn(world, picked) /\ OnPage' = OnPage
    BY <1>1 DEF Considered, Exhausted, Drawn, OnPage, PageEnd, Already, NoUse
  <2> QED
    BY <1>1, <2>1 DEF DrawInv, SoundWorld
<1>2. CASE PageFailed
  BY <1>1, <1>2 DEF PageFailed
<1>3. CASE UNCHANGED randomVars
  BY <1>1, <1>3 DEF randomVars
<1> QED
  BY <1>2, <1>3, StartKeepsDraw, ConsiderKeepsDraw, PageKeepsDraw, UsedKeepsDraw DEF RandomNext

(* What is drawn is right, and all there is when it is too little.         *)
LEMMA DrawnIsRight == DrawInv => SelectionOK
<1> SUFFICES ASSUME DrawInv PROVE SelectionOK
  OBVIOUS
<1>1. randomAt # "idle" => picked \in Seq(RandomKeys) /\ world.have \in Seq(RandomKeys)
  BY DEF DrawInv, Drawn, SoundWorld
<1>2. SelectionUnique
  <2>1. SUFFICES ASSUME randomAt # "idle"
        PROVE /\ SubSeq(picked, 1, Len(world.have)) = world.have
              /\ \A i \in Len(world.have) + 1 .. Len(picked) :
                   /\ picked[i] \in world.fit
                   /\ world.uniq => /\ \A k \in world.queued : k # picked[i] /\ RandomTag[k] # RandomTag[picked[i]]
                                    /\ \A j \in 1 .. i - 1 : RandomTag[picked[j]] # RandomTag[picked[i]]
    BY DEF SelectionUnique
  <2>2. PICK n : n = Len(world.have)
    OBVIOUS
  <2>3. n \in Nat /\ n <= Len(picked) /\ \A i \in 1..n : picked[i] = world.have[i]
    BY <1>1, <2>1, <2>2 DEF DrawInv, Drawn, Already
  <2>4. SubSeq(picked, 1, n) = world.have
    <3>1. PICK a : a = SubSeq(picked, 1, n)
      OBVIOUS
    <3>2. a \in Seq(RandomKeys) /\ Len(a) = n /\ \A i \in 1..n : a[i] = picked[i]
      BY <1>1, <2>1, <2>3, <3>1
    <3>3. PICK h : h = world.have
      OBVIOUS
    <3>4. h \in Seq(RandomKeys) /\ Len(h) = n /\ \A i \in 1..n : h[i] = a[i]
      BY <1>1, <2>1, <2>2, <2>3, <3>2, <3>3
    <3>5. a = h
      BY <3>2, <3>4
    <3> QED
      BY <3>1, <3>3, <3>5
  <2> QED
    BY <2>1, <2>2, <2>4 DEF DrawInv, Drawn, Already
<1>3. SelectionFull
  <2>1. SUFFICES ASSUME randomAt = "done", Len(picked) < world.want, NEW i \in DOMAIN world.candidates
        PROVE  world.candidates[i] \in ToSet(picked) \/ world.candidates[i] \notin world.fit
               \/ ~Unique(world.candidates[i])
    BY DEF SelectionFull
  <2>2. i \in 1..Considered
    <3>1. Considered = Len(world.candidates)
      BY <2>1 DEF DrawInv
    <3> QED
      BY <2>1, <3>1 DEF DrawInv, SoundWorld
  <2>3. NoUse(world, picked, world.candidates[i])
    BY <2>1, <2>2 DEF DrawInv, Exhausted
  <2> QED
    BY <1>1, <2>1, <2>3, UniqueMeans DEF NoUse, ToSet
<1> QED
  BY <1>2, <1>3 DEF SelectionOK

(* A random selection has only candidates that fit and are unique, keeps the *)
(* entries the list had, and is short only if there is no other candidate    *)
(* (random_select.c), whatever was drawn and wherever the pages end.         *)
THEOREM SelectionCorrect == RandomSpec => []SelectionOK
BY DrawnIsRight, DrawStart, DrawStep, PTL DEF RandomSpec

------------------------------------------------------------------------------
(***************************************************************************)
(* The pages.  The loop over the entries and MPD's window come to the same *)
(* page of the order in which a list is read; if no two entries have the   *)
(* same key there is one such order, so that what was shown is always its  *)
(* beginning.                                                              *)
(***************************************************************************)

\* the orders a list may be read in
PageOrders == IF listing.kind \in Trees THEN TreeOrders ELSE {Wanted}
\* no value of a tag is empty
NoneEmpty == listing.kind = "tags_mpd" => \A i \in DOMAIN listing.entries : Entry(i).here
\* what is shown of an order up to the offset
ShownOf(order) == [n \in 1..(IF offset < Len(order) THEN offset ELSE Len(order)) |-> order[n]]
\* how many entries the page at the offset has, and the entries
PageLength(order) ==
  IF Len(order) <= offset THEN 0 ELSE IF offset + perPage <= Len(order) THEN perPage ELSE Len(order) - offset
PageOf(order) == [n \in 1..PageLength(order) |-> order[offset + n]]

ListingGood ==
  /\ listing \in [kind : ListKinds, limit : Nat \ {0}, desc : BOOLEAN, searched : BOOLEAN, entries : Seq(ListEntry)]
  /\ ~listing.searched => \A i \in DOMAIN listing.entries : Entry(i).hit
  /\ listing.kind \notin MayMiss => \A i \in DOMAIN listing.entries : Entry(i).here

ListingInv ==
  /\ ListingGood
  /\ offset \in Nat /\ paging \in BOOLEAN /\ shownTotal \in Int
  /\ shownSoFar \in Seq([entry : Nat, pos : Int])
  /\ NoneEmpty => IF paging THEN offset <= Len(Wanted) ELSE offset >= Len(Wanted)
  /\ shownTotal # -1 /\ ~OddTotal => shownTotal = Len(Wanted)
  /\ listing.kind \in WithPos \ {"jukebox_songs"} =>
       \A n \in DOMAIN shownSoFar : shownSoFar[n].pos = shownSoFar[n].entry - 1
  /\ Steady => \/ offset = 0 /\ shownSoFar = <<>>
               \/ \E order \in PageOrders :
                    [n \in DOMAIN shownSoFar |-> shownSoFar[n].entry] = ShownOf(order)

(* What the list is to show, in the order of the list.                     *)
LEMMA WantedIs ==
  ASSUME ListingGood
  PROVE  LET n == Len(listing.entries) IN
         /\ n \in Nat /\ DOMAIN listing.entries = 1..n
         /\ \A i \in 1..n : listing.entries[i] \in ListEntry
         /\ Wanted \in Seq(1..n) /\ Len(Wanted) \in 0..n /\ DOMAIN Wanted = 1..Len(Wanted)
         /\ Range(Wanted) = {i \in 1..n : IsWanted(i)}
         /\ \A j, k \in DOMAIN Wanted : j < k => Wanted[j] < Wanted[k]
         /\ (\A i \in 1..n : IsWanted(i)) => Wanted = [k \in 1..n |-> k]
<1>1. PICK s \in Seq(ListEntry) : s = listing.entries
  BY DEF ListingGood
<1>2. PICK n \in Nat : n = Len(s)
  OBVIOUS
<1>3. DOMAIN s = 1..n /\ \A i \in 1..n : s[i] \in ListEntry
  BY <1>2
<1>4. PICK I : I = {i \in 1..n : IsWanted(i)}
  OBVIOUS
<1>5. I \in SUBSET (1..n) /\ Wanted = Ascending(I)
  BY <1>1, <1>3, <1>4 DEF Wanted
<1>6. (\A i \in 1..n : IsWanted(i)) => I = 1..n
  BY <1>4
<1>7. /\ Wanted \in Seq(1..n) /\ Len(Wanted) \in 0..n /\ DOMAIN Wanted = 1..Len(Wanted)
      /\ Range(Wanted) = I
      /\ \A j, k \in DOMAIN Wanted : j < k => Wanted[j] < Wanted[k]
      /\ I = 1..n => Wanted = [k \in 1..n |-> k]
  BY <1>5, AscendingIs
<1> HIDE DEF IsWanted, Wanted
<1> QED
  BY <1>1, <1>2, <1>3, <1>4, <1>6, <1>7

(* The loop over all entries finds those up to the end of the page, or all *)
(* of them, and prints the page.                                           *)
LEMMA PrintLoopIs ==
  ASSUME NEW S, NEW order \in Seq(S), NEW stops \in BOOLEAN,
         offset \in Nat, perPage \in Nat \ {0}
  PROVE  /\ PrintLoop(order, stops).page = PageOf(order)
         /\ stops => PrintLoop(order, stops).found =
                       IF offset + perPage < Len(order) THEN offset + perPage ELSE Len(order)
         /\ ~stops => PrintLoop(order, stops).found = Len(order)
<1>1. PICK o \in Nat, p \in Nat \ {0}, N \in Nat : o = offset /\ p = perPage /\ N = Len(order)
  OBVIOUS
<1> DEFINE K(n) == IF n <= o THEN 0 ELSE IF o + p <= n THEN p ELSE n - o
           F(n) == IF stops /\ o + p < n THEN o + p ELSE n
           Page(k) == [i \in 1..k |-> order[o + i]]
           Read(s, n) ==
             IF stops /\ s.found = o + p THEN s
             ELSE [found |-> s.found + 1,
                   page  |-> IF s.found >= o /\ (stops \/ s.found < o + p)
                             THEN Append(s.page, order[n]) ELSE s.page]
           Closed(n) == [found |-> F(n), page |-> Page(K(n))]
           Body(g) == [n \in 0..N |-> IF n = 0 THEN [found |-> 0, page |-> <<>>] ELSE Read(g[n - 1], n)]
           loop == CHOOSE g : g = Body(g)
<1>2. \A k \in Nat : o + k + 1 <= N => Append(Page(k), order[o + k + 1]) = Page(k + 1)
  <2>1. SUFFICES ASSUME NEW k \in Nat, o + k + 1 <= N PROVE Append(Page(k), order[o + k + 1]) = Page(k + 1)
    OBVIOUS
  <2>2. \A i \in 1..k + 1 : o + i \in DOMAIN order /\ order[o + i] \in S
    BY <1>1, <2>1
  <2>3. Page(k) \in Seq(S) /\ Len(Page(k)) = k
    BY <2>2
  <2> QED
    BY <2>1, <2>2, <2>3
<1>3. ASSUME NEW n \in 1..N PROVE Closed(n) = Read(Closed(n - 1), n)
  <2>1. n \in Nat /\ n - 1 \in Nat /\ n <= N
    OBVIOUS
  <2>2. CASE stops /\ o + p <= n - 1
    <3>1. F(n - 1) = o + p /\ F(n) = o + p /\ K(n - 1) = p /\ K(n) = p
      BY <2>1, <2>2
    <3> HIDE DEF F, K, Page
    <3> QED
      BY <2>2, <3>1
  <2>3. CASE ~(stops /\ o + p <= n - 1)
    <3>1. F(n - 1) = n - 1 /\ F(n) = n /\ ~(stops /\ F(n - 1) = o + p)
      BY <2>1, <2>3
    <3>2. CASE o <= n - 1 /\ n - 1 < o + p
      <4>1. K(n) = n - o /\ K(n - 1) = n - 1 - o /\ n - 1 - o \in Nat
        BY <2>1, <3>2
      <4>2. Append(Page(n - 1 - o), order[o + (n - 1 - o) + 1]) = Page(n - 1 - o + 1)
        BY <1>2, <2>1, <4>1
      <4>3. o + (n - 1 - o) + 1 = n /\ n - 1 - o + 1 = n - o /\ n - 1 + 1 = n
        BY <2>1
      <4>4. Append(Page(n - 1 - o), order[n]) = Page(n - o)
        BY <4>2, <4>3
      <4>5. F(n - 1) >= o /\ F(n - 1) < o + p
        BY <3>1, <3>2
      <4> HIDE DEF F, K, Page
      <4>6. Closed(n - 1) = [found |-> n - 1, page |-> Page(n - 1 - o)]
        BY <3>1, <4>1
      <4>7. Closed(n - 1).found = n - 1 /\ Closed(n - 1).page = Page(n - 1 - o)
        BY <4>6
      <4> HIDE DEF Closed
      <4>8. Read(Closed(n - 1), n) = [found |-> n - 1 + 1, page |-> Append(Page(n - 1 - o), order[n])]
        BY <3>1, <4>5, <4>7
      <4>9. Closed(n) = [found |-> n, page |-> Page(n - o)]
        BY <3>1, <4>1 DEF Closed
      <4> QED
        BY <4>3, <4>4, <4>8, <4>9
    <3>3. CASE ~(o <= n - 1 /\ n - 1 < o + p)
      <4>1. K(n) = K(n - 1) /\ ~(F(n - 1) >= o /\ (stops \/ F(n - 1) < o + p))
        BY <2>1, <2>3, <3>1, <3>3
      <4> HIDE DEF F, K, Page
      <4> QED
        BY <2>1, <3>1, <4>1
    <3> QED
      BY <3>2, <3>3
  <2> QED
    BY <2>2, <2>3
<1>4. Closed(0) = [found |-> 0, page |-> <<>>]
  <2>1. F(0) = 0 /\ K(0) = 0 /\ Page(0) = <<>>
    OBVIOUS
  <2> QED
    BY <2>1
<1>5. PICK h : h = [n \in 0..N |-> Closed(n)]
  OBVIOUS
<1> HIDE DEF Read, Closed, F, K, Page
<1>6. h = Body(h)
  <2>1. ASSUME NEW n \in 0..N PROVE h[n] = IF n = 0 THEN [found |-> 0, page |-> <<>>] ELSE Read(h[n - 1], n)
    <3>1. h[n] = Closed(n)
      BY <1>5
    <3>2. n # 0 => n \in 1..N /\ n - 1 \in 0..N /\ h[n - 1] = Closed(n - 1)
      BY <1>5
    <3> QED
      BY <1>3, <1>4, <3>1, <3>2
  <2> QED
    BY <1>5, <2>1
<1>7. loop = Body(loop)
  <2> HIDE DEF Body
  <2> QED
    BY <1>6
<1>8. PrintLoop(order, stops) = loop[N]
  BY <1>1 DEF PrintLoop, Read
<1> HIDE DEF loop
<1>9. \A n \in 0..N : loop[n] = IF n = 0 THEN [found |-> 0, page |-> <<>>] ELSE Read(loop[n - 1], n)
  BY <1>7
<1> DEFINE Off == {n \in 0..N : loop[n] # Closed(n)}
<1>10. ASSUME Off # {} PROVE FALSE
  <2>1. Off \in SUBSET Nat
    OBVIOUS
  <2>2. PICK n \in Off : \A j \in Off : n <= j
    <3> HIDE DEF Off
    <3> QED
      BY <1>10, <2>1, Least
  <2>3. n # 0 /\ n \in 1..N /\ n - 1 \in 0..N
    BY <1>4, <1>9, <2>2
  <2>4. loop[n - 1] = Closed(n - 1)
    BY <2>2, <2>3
  <2>5. loop[n] = Closed(n)
    BY <1>3, <1>9, <2>3, <2>4
  <2> QED
    BY <2>2, <2>5
<1>11. PrintLoop(order, stops) = Closed(N)
  BY <1>8, <1>10
<1>12. Page(K(N)) = PageOf(order)
  BY <1>1 DEF Page, K, PageOf, PageLength
<1> QED
  BY <1>1, <1>11, <1>12 DEF Closed, F

(* Whatever the order of a list, it has what is wanted, once.              *)
LEMMA OrdersAre ==
  ASSUME ListingGood, NEW order \in PageOrders
  PROVE  /\ order \in Seq(1..Len(listing.entries)) /\ Len(order) = Len(Wanted)
         /\ DOMAIN order = 1..Len(Wanted) /\ Range(order) = Range(Wanted)
         /\ \A j, k \in DOMAIN order : order[j] = order[k] => j = k
         /\ listing.kind \notin Trees => order = Wanted
<1>0. Len(listing.entries) \in Nat /\ Len(Wanted) \in 0..Len(listing.entries)
  <2> HIDE DEF Wanted, ListingGood
  <2> QED
    BY WantedIs
<1>1. PICK n \in Nat, W \in Nat : n = Len(listing.entries) /\ W = Len(Wanted)
  BY <1>0
<1>2. /\ Wanted \in Seq(1..n) /\ DOMAIN Wanted = 1..W
      /\ Range(Wanted) \in SUBSET (1..n)
      /\ \A j, k \in 1..W : j < k => Wanted[j] < Wanted[k]
  <2> HIDE DEF Wanted, IsWanted, ListingGood
  <2> QED
    BY <1>1, WantedIs
<1>3. \A j, k \in 1..W : Wanted[j] = Wanted[k] => j = k
  <2>1. \A j \in 1..W : Wanted[j] \in Nat
    BY <1>2
  <2>2. SUFFICES ASSUME NEW j \in 1..W, NEW k \in 1..W, j # k PROVE Wanted[j] # Wanted[k]
    OBVIOUS
  <2>3. j < k \/ k < j
    BY <2>2
  <2> QED
    BY <1>2, <2>1, <2>3
<1>4. CASE listing.kind \notin Trees
  BY <1>1, <1>2, <1>3, <1>4 DEF PageOrders
<1>5. CASE listing.kind \in Trees
  <2>1. order \in TreeOrders
    BY <1>5 DEF PageOrders
  <2>2. order \in [1..W -> Range(Wanted)] /\ IsInjective(order)
    BY <1>2, <2>1 DEF TreeOrders
  <2>3. \A j, k \in 1..W : order[j] = order[k] => j = k
    BY <2>2 DEF IsInjective
  <2>4. IsFiniteSet(1..W) /\ Cardinality(1..W) = W
    BY FS_Interval
  <2>5. ExistsBijection(1..W, Range(Wanted))
    <3>1. Wanted \in [1..W -> Range(Wanted)]
      BY <1>2 DEF Range
    <3>2. \A x \in Range(Wanted) : \E k \in 1..W : Wanted[k] = x
      BY <1>2 DEF Range
    <3> QED
      BY <1>3, <3>1, <3>2 DEF ExistsBijection, Bijection, Injection, Surjection, IsInjective
  <2>6. IsFiniteSet(Range(Wanted)) /\ Cardinality(Range(Wanted)) = W
    BY <2>4, <2>5, FS_Bijection
  <2>7. order \in Injection(1..W, Range(Wanted))
    BY <2>2 DEF Injection
  <2>8. order \in Surjection(1..W, Range(Wanted))
    BY <2>4, <2>6, <2>7, FS_Injection
  <2>9. Range(order) = Range(Wanted)
    <3>1. DOMAIN order = 1..W /\ \A k \in 1..W : order[k] \in Range(Wanted)
      BY <2>2
    <3>2. \A x \in Range(Wanted) : \E k \in 1..W : order[k] = x
      BY <2>8 DEF Surjection
    <3>3. Range(order) = {order[k] : k \in 1..W}
      BY <3>1 DEF Range
    <3> HIDE DEF Range
    <3> QED
      BY <3>1, <3>2, <3>3
  <2>10. order \in Seq(1..n) /\ Len(order) = W /\ DOMAIN order = 1..W
    BY <1>2, <2>2
  <2> QED
    BY <1>1, <1>5, <2>3, <2>9, <2>10
<1> QED
  BY <1>4, <1>5

(* The orders of a tree follow the keys; they are strict if no two entries *)
(* have the same.                                                          *)
LEMMA KeysRise ==
  ASSUME ListingGood, Steady, listing.kind \in Trees, NEW order \in PageOrders,
         NEW j \in DOMAIN order, NEW k \in DOMAIN order, j < k
  PROVE  /\ Entry(order[j]).key \in Int /\ Entry(order[k]).key \in Int
         /\ IF listing.desc THEN Entry(order[j]).key > Entry(order[k]).key
                            ELSE Entry(order[j]).key < Entry(order[k]).key
<1>0. Len(listing.entries) \in Nat
  BY WantedIs
<1>1. PICK n \in Nat : n = Len(listing.entries)
  BY <1>0
<1>2. \A i \in 1..n : Entry(i).key \in Int
  <2>1. \A i \in 1..n : listing.entries[i] \in ListEntry
    BY <1>1, WantedIs
  <2>2. \A e \in ListEntry : e.key \in ListingKeys
    BY DEF ListEntry
  <2>3. ListingKeys \subseteq Int
    BY ListingAssumption
  <2> QED
    BY <2>1, <2>2, <2>3 DEF Entry
<1>3. /\ order \in Seq(1..n) /\ Range(order) = Range(Wanted)
      /\ \A a, b \in DOMAIN order : order[a] = order[b] => a = b
  BY <1>1, OrdersAre
<1>4. order[j] \in 1..n /\ order[k] \in 1..n /\ order[j] # order[k]
  <2>1. DOMAIN order = 1..Len(order) /\ Len(order) \in Nat /\ \A x \in DOMAIN order : order[x] \in 1..n
    BY <1>3
  <2>2. j # k
    BY <2>1
  <2> QED
    BY <1>3, <2>1, <2>2
<1>5. PICK a \in Int, b \in Int : a = Entry(order[j]).key /\ b = Entry(order[k]).key
  BY <1>2, <1>4
<1>6. IF listing.desc THEN a >= b ELSE a <= b
  <2>1. order \in TreeOrders
    BY DEF PageOrders
  <2> QED
    BY <1>5, <2>1 DEF TreeOrders
<1>7. PICK x \in DOMAIN Wanted, y \in DOMAIN Wanted : Wanted[x] = order[j] /\ Wanted[y] = order[k]
  <2>1. order[j] \in Range(order) /\ order[k] \in Range(order)
    BY DEF Range
  <2>2. order[j] \in Range(Wanted) /\ order[k] \in Range(Wanted)
    BY <1>3, <2>1
  <2> QED
    BY <2>2 DEF Range
<1>8. a # b
  BY <1>4, <1>5, <1>7 DEF Steady
<1> QED
  BY <1>5, <1>6, <1>8

(* If no two entries have the same key, there is one order.                *)
LEMMA OneOrder ==
  ASSUME ListingGood, Steady, NEW order \in PageOrders, NEW other \in PageOrders
  PROVE  other = order
<1>1. CASE listing.kind \notin Trees
  BY <1>1, OrdersAre
<1>2. CASE listing.kind \in Trees
  <2>1. PICK n, W : n = Len(listing.entries) /\ W = Len(Wanted)
    OBVIOUS
  <2>2. n \in Nat /\ W \in Nat
    BY <2>1, WantedIs
  <2> DEFINE Before(a, b) == IF listing.desc THEN Entry(a).key > Entry(b).key
                                            ELSE Entry(a).key < Entry(b).key
             Order(f) == /\ DOMAIN f = 1..W /\ Range(f) = Range(Wanted)
                         /\ \A j, k \in 1..W : f[j] = f[k] => j = k
                         /\ \A j, k \in 1..W : j < k => Before(f[j], f[k])
                         /\ f = [k \in 1..W |-> f[k]]
                         /\ \A j \in 1..W : f[j] \in 1..n
  <2>3. ASSUME NEW f \in PageOrders PROVE Order(f)
    <3>1. /\ f \in Seq(1..n) /\ DOMAIN f = 1..W /\ Range(f) = Range(Wanted)
          /\ \A j, k \in 1..W : f[j] = f[k] => j = k
      BY <2>1, OrdersAre
    <3>2. \A j, k \in 1..W : j < k => Before(f[j], f[k])
      BY <1>2, <3>1, KeysRise
    <3>3. f = [k \in 1..W |-> f[k]] /\ \A j \in 1..W : f[j] \in 1..n
      BY <2>2, <3>1
    <3> HIDE DEF Before
    <3> QED
      BY <3>1, <3>2, <3>3
  <2>4. Order(order) /\ Order(other)
    BY <2>3
  <2>5. \A a, b \in 1..n : Entry(a).key \in Int /\ Entry(b).key \in Int /\ Before(a, b) => ~Before(b, a)
    <3>1. \A x, y \in Int : (x < y => ~(y < x)) /\ (x > y => ~(y > x))
      OBVIOUS
    <3> QED
      BY <3>1
  <2>6. \A i \in 1..n : Entry(i).key \in Int
    <3>1. \A i \in 1..n : listing.entries[i] \in ListEntry
      BY <2>1, WantedIs
    <3>2. \A e \in ListEntry : e.key \in ListingKeys
      BY DEF ListEntry
    <3>3. ListingKeys \subseteq Int
      BY ListingAssumption
    <3> QED
      BY <3>1, <3>2, <3>3 DEF Entry
  <2> HIDE DEF Before, Wanted
  <2> DEFINE Off == {k \in 1..W : order[k] # other[k]}
  <2>7. ASSUME Off # {} PROVE FALSE
    <3>1. PICK k \in Off : \A j \in Off : k <= j
      <4>1. Off \in SUBSET Nat
        OBVIOUS
      <4> HIDE DEF Off
      <4> QED
        BY <2>7, <4>1, Least
    <3>2. k \in 1..W /\ order[k] # other[k] /\ \A j \in 1..W : j < k => order[j] = other[j]
      BY <3>1
    <3>3. ASSUME NEW f, NEW g, Order(f), Order(g), f[k] # g[k], \A j \in 1..W : j < k => f[j] = g[j]
          PROVE  Before(f[k], g[k])
      <4>1. PICK j \in 1..W : f[j] = g[k]
        <5>1. g[k] \in Range(g)
          BY <3>2, <3>3 DEF Range
        <5>2. g[k] \in Range(f)
          BY <3>3, <5>1
        <5> QED
          BY <3>3, <5>2 DEF Range
      <4>2. ~(j < k)
        BY <3>2, <3>3, <4>1
      <4>3. k < j
        BY <3>2, <3>3, <4>1, <4>2
      <4> QED
        BY <3>2, <3>3, <4>1, <4>3
    <3>4. Before(order[k], other[k]) /\ Before(other[k], order[k])
      <4> HIDE DEF Order, Off
      <4> QED
        BY <2>4, <3>2, <3>3
    <3>5. order[k] \in 1..n /\ other[k] \in 1..n
      BY <2>4, <3>2
    <3> QED
      BY <2>5, <2>6, <3>4, <3>5
  <2> QED
    BY <2>4, <2>7
<1> QED
  BY <1>1, <1>2

(* MPD's window is the page.                                               *)
LEMMA WindowIs ==
  ASSUME NEW S, NEW order \in Seq(S), offset \in Nat, perPage \in Nat \ {0}
  PROVE  /\ MpdWindow(order, offset + perPage) = PageOf(order)
         /\ PageOf(order) \in Seq(S) /\ Len(PageOf(order)) = PageLength(order)
         /\ PageLength(order) \in 0..Len(order) /\ DOMAIN PageOf(order) = 1..PageLength(order)
<1>1. PICK o \in Nat, p \in Nat \ {0}, N \in Nat : o = offset /\ p = perPage /\ N = Len(order)
  OBVIOUS
<1>2. PICK k : k = PageLength(order)
  OBVIOUS
<1>3. k = (IF N <= o THEN 0 ELSE IF o + p <= N THEN p ELSE N - o) /\ k \in 0..N
  BY <1>1, <1>2 DEF PageLength
<1>4. PageOf(order) = [n \in 1..k |-> order[o + n]]
  BY <1>1, <1>2 DEF PageOf
<1>5. \A n \in 1..k : o + n \in DOMAIN order /\ order[o + n] \in S
  BY <1>1, <1>3
<1>6. PageOf(order) \in Seq(S) /\ Len(PageOf(order)) = k /\ DOMAIN PageOf(order) = 1..k
  <2>1. PICK page : page = [n \in 1..k |-> order[o + n]]
    OBVIOUS
  <2>2. k \in Nat /\ \A n \in 1..k : order[o + n] \in S
    BY <1>3, <1>5
  <2>3. page \in Seq(S) /\ Len(page) = k /\ DOMAIN page = 1..k
    BY <2>1, <2>2
  <2> QED
    BY <1>4, <2>1, <2>3
<1>7. PICK m \in Nat : m = IF o + p < N THEN o + p ELSE N
  OBVIOUS
<1>8. MpdWindow(order, offset + perPage) = SubSeq(order, o + 1, m)
  BY <1>1, <1>7 DEF MpdWindow
<1>9. SubSeq(order, o + 1, m) = [n \in 1..k |-> order[o + n]]
  <2>1. CASE N <= o
    BY <1>1, <1>3, <1>7, <2>1
  <2>2. CASE o < N
    <3>1. m - o = k /\ m <= N /\ o + 1 \in 1..N
      BY <1>1, <1>3, <1>7, <2>2
    <3>2. SubSeq(order, o + 1, m) = [n \in 1..(m - (o + 1) + 1) |-> order[n + (o + 1) - 1]]
      OBVIOUS
    <3>3. m - (o + 1) + 1 = k
      BY <3>1
    <3>4. \A n \in 1..k : n + (o + 1) - 1 = o + n
      OBVIOUS
    <3> QED
      BY <3>2, <3>3, <3>4
  <2> QED
    BY <2>1, <2>2
<1> HIDE DEF PageOf, PageLength, MpdWindow
<1> QED
  BY <1>1, <1>2, <1>3, <1>4, <1>6, <1>8, <1>9

(* Which handler answers.                                                  *)
LEMMA AnswerIs ==
  ASSUME ListingGood, NEW order
  PROVE  \/ listing.kind = "albums" /\ Answer(order) = AlbumList(order)
         \/ /\ listing.kind \in {"playlists", "tags", "filesystem", "jukebox_songs", "jukebox_albums"}
            /\ Answer(order) = CountedList(order)
         \/ listing.kind \in {"webradios", "playlist_old"} /\ Answer(order) = UntilFull(order)
         \/ listing.kind = "last_played" /\ Answer(order) = LastPlayedList(order)
         \/ listing.kind = "queue" /\ Answer(order) = QueueList(order)
         \/ listing.kind = "queue_search" /\ Answer(order) = QueueSearch(order, TRUE)
         \/ listing.kind = "queue_search_old" /\ Answer(order) = QueueSearch(order, FALSE)
         \/ listing.kind = "search" /\ Answer(order) = SearchSongs(order)
         \/ listing.kind = "tags_mpd" /\ Answer(order) = TagListMpd
         \/ listing.kind = "playlist" /\ Answer(order) = PlaylistContent(order)
<1>1. listing.kind \in ListKinds
  BY DEF ListingGood
<1>2. PICK k : k = listing.kind
  OBVIOUS
<1>3. k \in {"albums", "webradios", "playlists", "filesystem", "tags", "last_played", "jukebox_songs",
             "jukebox_albums", "playlist", "playlist_old", "tags_mpd", "queue", "queue_search",
             "queue_search_old", "search"}
  BY <1>1, <1>2 DEF ListKinds, Trees, WithPos, MayMiss
<1>4. k = "albums" => Answer(order) = AlbumList(order)
  BY <1>2 DEF Answer
<1>5. k \in {"playlists", "tags", "filesystem", "jukebox_songs", "jukebox_albums"} => Answer(order) = CountedList(order)
  BY <1>2 DEF Answer
<1>6. k \in {"webradios", "playlist_old"} => Answer(order) = UntilFull(order)
  BY <1>2 DEF Answer
<1>7. k = "last_played" => Answer(order) = LastPlayedList(order)
  BY <1>2 DEF Answer
<1>8. k = "queue" => Answer(order) = QueueList(order)
  BY <1>2 DEF Answer
<1>9. k = "queue_search" => Answer(order) = QueueSearch(order, TRUE)
  BY <1>2 DEF Answer
<1>10. k = "queue_search_old" => Answer(order) = QueueSearch(order, FALSE)
  BY <1>2 DEF Answer
<1>11. k = "search" => Answer(order) = SearchSongs(order)
  BY <1>2 DEF Answer
<1>12. k = "tags_mpd" => Answer(order) = TagListMpd
  BY <1>2 DEF Answer
<1>13. k = "playlist" => Answer(order) = PlaylistContent(order)
  BY <1>2 DEF Answer
<1> HIDE DEF Answer
<1> QED
  BY <1>2, <1>3, <1>4, <1>5, <1>6, <1>7, <1>8, <1>9, <1>10, <1>11, <1>12, <1>13

(* MPD has the values of a tag in the order of the list; of a page of      *)
(* them those that are not empty are shown.                                *)
LEMMA TagPage ==
  ASSUME ListingGood, offset \in Nat, listing.kind = "tags_mpd"
  PROVE  /\ TagListMpd.page \in Seq(1..Len(listing.entries)) /\ TagListMpd.total = -1
         /\ NoneEmpty => TagListMpd.page = PageOf(Wanted)
<1>1. PICK n \in Nat : n = Len(listing.entries) /\ DOMAIN listing.entries = 1..n
  BY WantedIs
<1>2. PICK H : H = {i \in 1..n : Entry(i).hit}
  OBVIOUS
<1>3. PICK a : a = Ascending(H)
  OBVIOUS
<1>4. H \in SUBSET (1..n)
  BY <1>2
<1>5. /\ a \in Seq(1..n) /\ Len(a) \in 0..n /\ DOMAIN a = 1..Len(a)
      /\ \A j, k \in DOMAIN a : j < k => a[j] < a[k]
  BY <1>3, <1>4, AscendingIs
<1>6. perPage \in Nat \ {0}
  BY DEF ListingGood, perPage
<1>7. PICK w : w = MpdWindow(a, offset + perPage)
  OBVIOUS
<1>8. /\ w = PageOf(a) /\ w \in Seq(1..n) /\ Len(w) = PageLength(a)
      /\ PageLength(a) \in 0..Len(a) /\ DOMAIN w = 1..PageLength(a)
  BY <1>5, <1>6, <1>7, WindowIs
<1>9. PICK V : V = {i \in Range(w) : Entry(i).here}
  OBVIOUS
<1>10. V \in SUBSET (1..n)
  BY <1>8, <1>9 DEF Range
<1>11. TagListMpd = [page |-> Ascending(V), total |-> -1]
  BY <1>1, <1>2, <1>3, <1>7, <1>9 DEF TagListMpd, Response
<1>12. Ascending(V) \in Seq(1..n)
  BY <1>10, AscendingIs
<1>13. ASSUME NoneEmpty PROVE Ascending(V) = PageOf(Wanted)
  <2>1. \A i \in 1..n : Entry(i).here
    BY <1>1, <1>13 DEF NoneEmpty
  <2>2. {i \in 1..n : IsWanted(i)} = H
    BY <1>2, <2>1 DEF IsWanted
  <2>3. a = Wanted
    BY <1>1, <1>3, <2>2 DEF Wanted
  <2>4. V = Range(w)
    BY <1>8, <1>9, <2>1 DEF Range
  <2>5. Ascending(Range(w)) = w
    <3>1. \A j, k \in DOMAIN w : j < k => w[j] < w[k]
      <4>1. \A j \in DOMAIN w : w[j] = a[offset + j] /\ offset + j \in DOMAIN a
        BY <1>5, <1>6, <1>8 DEF PageOf, PageLength
      <4> QED
        BY <1>5, <1>8, <4>1
    <3> QED
      BY <1>8, <3>1, AscendingOf
  <2> QED
    BY <1>8, <2>3, <2>4, <2>5
<1> QED
  BY <1>1, <1>11, <1>12, <1>13

(* Whichever handler answers, it shows the page of the order it reads, and *)
(* counts what is wanted.                                                  *)
LEMMA AnswerRight ==
  ASSUME ListingGood, offset \in Nat, NEW order \in PageOrders
  PROVE  /\ Answer(order).page \in Seq(1..Len(listing.entries)) /\ Answer(order).total \in Int
         /\ NoneEmpty => Answer(order).page = PageOf(order)
         /\ offset <= Len(Wanted) =>
              \/ Answer(order).total \in {-1, Len(Wanted)}
              \/ listing.kind = "playlist" /\ listing.searched /\ offset > 0
              \/ listing.kind = "last_played" /\ ~listing.searched
<1>1. PICK n \in Nat : n = Len(listing.entries)
  BY WantedIs
<1>2. /\ order \in Seq(1..n) /\ Len(order) = Len(Wanted)
      /\ listing.kind \notin Trees => order = Wanted
  BY <1>1, OrdersAre
<1>3. PICK o \in Nat, p \in Nat \ {0}, W \in Nat :
        o = offset /\ p = perPage /\ W = Len(order) /\ W = Len(Wanted) /\ p = listing.limit
  <2>1. perPage = listing.limit /\ perPage \in Nat \ {0}
    BY DEF ListingGood, perPage
  <2>2. Len(order) \in Nat
    BY <1>2
  <2> QED
    BY <1>2, <2>1, <2>2
<1>4. PICK page : page = PageOf(order)
  OBVIOUS
<1>5. PICK L : L = Len(page)
  OBVIOUS
<1>6. page \in Seq(1..n) /\ L = (IF W <= o THEN 0 ELSE IF o + p <= W THEN p ELSE W - o) /\ L \in Nat
  <2>1. PageLength(order) = IF W <= o THEN 0 ELSE IF o + p <= W THEN p ELSE W - o
    BY <1>3 DEF PageLength
  <2>2. page \in Seq(1..n) /\ L = PageLength(order) /\ L \in 0..W
    BY <1>2, <1>3, <1>4, <1>5, WindowIs
  <2> QED
    BY <2>1, <2>2
<1>7. MpdWindow(order, offset + perPage) = page
  BY <1>2, <1>3, <1>4, WindowIs
<1>8. PICK F : F = IF o + p < W THEN o + p ELSE W
  OBVIOUS
<1>9. PrintLoop(order, TRUE).found = F /\ PrintLoop(order, TRUE).page = page
  <2>1. /\ PrintLoop(order, TRUE).page = PageOf(order)
        /\ PrintLoop(order, TRUE).found =
              IF offset + perPage < Len(order) THEN offset + perPage ELSE Len(order)
    BY <1>2, <1>3, PrintLoopIs
  <2> HIDE DEF PrintLoop
  <2> QED
    BY <1>3, <1>4, <1>8, <2>1
<1>10. PrintLoop(order, FALSE).found = W /\ PrintLoop(order, FALSE).page = page
  <2>1. PrintLoop(order, FALSE).page = PageOf(order) /\ PrintLoop(order, FALSE).found = Len(order)
    BY <1>2, <1>3, PrintLoopIs
  <2> HIDE DEF PrintLoop
  <2> QED
    BY <1>3, <1>4, <2>1
<1>11. PICK k : k = listing.kind
  OBVIOUS
<1>12. PICK s \in BOOLEAN : s = listing.searched
  BY DEF ListingGood
<1>13. PICK A : A = Answer(order)
  OBVIOUS
<1> DEFINE Right == /\ A.page = page \/ (A.page \in Seq(1..n) /\ (NoneEmpty => A.page = page))
                    /\ A.total \in Int
                    /\ o <= W => \/ A.total \in {-1, W}
                                 \/ k = "playlist" /\ s /\ o > 0
                                 \/ k = "last_played" /\ ~s
<1>14. SUFFICES Right
  BY <1>1, <1>3, <1>4, <1>6, <1>11, <1>12, <1>13
<1> HIDE DEF PrintLoop, MpdWindow
<1>15. CASE k = "albums" /\ A = AlbumList(order)
  <2>1. A.page = page /\ A.total = W
    BY <1>3, <1>9, <1>15 DEF AlbumList, Response
  <2> QED
    BY <1>3, <2>1
<1>16. CASE A = CountedList(order)
  <2>1. A.page = page /\ A.total = W
    BY <1>10, <1>16 DEF CountedList, Response
  <2> QED
    BY <1>3, <2>1
<1>17. CASE A = UntilFull(order)
  <2>1. A.page = page /\ A.total = IF F = o + p THEN -1 ELSE F
    BY <1>3, <1>9, <1>17 DEF UntilFull, Response
  <2> QED
    BY <1>3, <1>8, <2>1
<1>18. CASE k = "last_played" /\ A = LastPlayedList(order)
  <2>1. A.page = page /\ A.total = IF ~s THEN n ELSE IF p > F THEN F ELSE -1
    BY <1>1, <1>3, <1>9, <1>12, <1>18 DEF LastPlayedList, Response
  <2> QED
    BY <1>3, <1>8, <1>18, <2>1
<1>19. CASE A = QueueList(order)
  <2>1. A.total = W /\ A.page = IF o >= W THEN <<>> ELSE page
    BY <1>3, <1>7, <1>19 DEF QueueList, Response
  <2>2. o >= W => page = <<>>
    <3>1. \A q \in Seq(1..n) : Len(q) = 0 => q = <<>>
      OBVIOUS
    <3> QED
      BY <1>3, <1>5, <1>6, <3>1
  <2> QED
    BY <1>3, <2>1, <2>2
<1>20. CASE A = QueueSearch(order, TRUE) \/ A = QueueSearch(order, FALSE)
  <2>1. A = Response(page, IF Len(page) < perPage THEN offset + Len(page) ELSE -1)
    <3>1. QueueSearch(order, TRUE) = Response(page, IF Len(page) < perPage THEN offset + Len(page) ELSE -1)
      BY <1>7 DEF QueueSearch
    <3>2. QueueSearch(order, FALSE) = Response(page, IF Len(page) < perPage THEN offset + Len(page) ELSE -1)
      BY <1>9 DEF QueueSearch
    <3> QED
      BY <1>20, <3>1, <3>2
  <2>2. A.page = page /\ A.total = IF L < p THEN o + L ELSE -1
    BY <1>3, <1>5, <2>1 DEF Response
  <2> QED
    BY <1>3, <1>6, <2>2
<1>21. CASE A = SearchSongs(order)
  <2>1. A.page = page /\ A.total = IF o = 0 /\ L < p THEN L ELSE -1
    BY <1>3, <1>5, <1>7, <1>21 DEF SearchSongs, Response
  <2> QED
    BY <1>3, <1>6, <2>1
<1>22. CASE k = "playlist" /\ A = PlaylistContent(order)
  <2>1. PICK f : f = IF s THEN L ELSE o + L
    OBVIOUS
  <2>2. A.page = page /\ A.total = IF f = o + p THEN -1 ELSE f
    <3>1. A = Response(page, IF f = offset + perPage THEN -1 ELSE f)
      <4>1. f = IF listing.searched THEN Len(page) ELSE offset + Len(page)
        BY <1>3, <1>5, <1>12, <2>1
      <4> QED
        BY <1>7, <1>22, <4>1 DEF PlaylistContent
    <3> QED
      BY <1>3, <3>1 DEF Response
  <2>3. CASE s
    BY <1>3, <1>6, <1>22, <2>1, <2>2, <2>3
  <2>4. CASE ~s
    BY <1>3, <1>6, <1>22, <2>1, <2>2, <2>4
  <2> QED
    BY <2>3, <2>4
<1>23. CASE k = "tags_mpd" /\ A = TagListMpd
  <2>1. /\ TagListMpd.page \in Seq(1..n) /\ TagListMpd.total = -1
        /\ NoneEmpty => TagListMpd.page = PageOf(Wanted)
    BY <1>1, <1>11, <1>23, TagPage
  <2>2. k \notin Trees
    BY <1>23 DEF Trees
  <2>3. order = Wanted
    BY <1>2, <1>11, <2>2
  <2> QED
    BY <1>1, <1>4, <1>13, <1>23, <2>1, <2>3
<1>24. \/ k = "albums" /\ A = AlbumList(order)
       \/ A = CountedList(order)
       \/ A = UntilFull(order)
       \/ k = "last_played" /\ A = LastPlayedList(order)
       \/ A = QueueList(order)
       \/ A = QueueSearch(order, TRUE) \/ A = QueueSearch(order, FALSE)
       \/ A = SearchSongs(order)
       \/ k = "playlist" /\ A = PlaylistContent(order)
       \/ k = "tags_mpd" /\ A = TagListMpd
  BY <1>11, <1>13, AnswerIs
<1> QED
  BY <1>15, <1>16, <1>17, <1>18, <1>19, <1>20, <1>21, <1>22, <1>23, <1>24

(* What "Pos" is.                                                          *)
LEMMA PosIs ==
  ASSUME ListingGood, offset \in Nat, NEW i \in Nat \ {0}, NEW n \in Nat
  PROVE  /\ Pos(i, n) \in Int
         /\ listing.kind \in WithPos \ {"jukebox_songs"} =>
              Pos(i, n) = IF listing.kind = "playlist" /\ ~listing.searched THEN offset + n - 1 ELSE i - 1
<1>1. Cardinality({j \in 1..(i - 1) : Entry(j).here}) \in Int
  <2>1. PICK J : J = {j \in 1..(i - 1) : Entry(j).here}
    OBVIOUS
  <2>2. J \in SUBSET (1..(i - 1)) /\ i - 1 \in Nat
    BY <2>1
  <2>3. \A m \in Nat : IsFiniteSet(1..m)
    BY FS_Interval
  <2>4. IsFiniteSet(J)
    BY <2>2, <2>3, FS_Subset
  <2> QED
    BY <2>1, <2>4, FS_CardinalityType
<1> QED
  BY <1>1 DEF Pos

LEMMA ListingStart == ListingInit => ListingInv
<1> SUFFICES ASSUME ListingInit PROVE ListingInv
  OBVIOUS
<1>1. ListingGood
  BY DEF ListingInit, ListingGood, ListKinds, Trees, WithPos, MayMiss
<1>2. Len(Wanted) = 0
  <2>1. Len(listing.entries) = 0
    BY DEF ListingInit
  <2>2. Len(Wanted) \in 0..Len(listing.entries)
    BY <1>1, WantedIs
  <2> QED
    BY <2>1, <2>2
<1>3. offset = 0 /\ shownSoFar = <<>> /\ shownTotal = -1 /\ paging = FALSE
  BY DEF ListingInit
<1>4. shownSoFar \in Seq([entry : Nat, pos : Int]) /\ DOMAIN shownSoFar = {}
  BY <1>3
<1>5. offset \in Nat /\ paging \in BOOLEAN /\ shownTotal \in Int /\ shownTotal = -1
  <2>1. paging \in BOOLEAN
    BY <1>3
  <2>2. -1 \in Int /\ 0 \in Nat
    OBVIOUS
  <2>3. shownTotal \in Int /\ shownTotal = -1 /\ offset \in Nat
    BY <1>3, <2>2
  <2> QED
    BY <2>1, <2>3
<1>6. IF paging THEN offset <= Len(Wanted) ELSE offset >= Len(Wanted)
  BY <1>2, <1>3
<1> QED
  BY <1>1, <1>3, <1>4, <1>5, <1>6 DEF ListingInv

(* The client opens a list.                                                *)
LEMMA OpenListStep == ListingInv /\ OpenList => ListingInv'
<1> SUFFICES ASSUME OpenList PROVE ListingInv'
  OBVIOUS
<1>1. PICK kind \in ListKinds, lim \in ListingLimits, desc \in BOOLEAN, searched \in BOOLEAN,
           n \in 0..ListingLength :
        \E entries \in [1..n -> ListEntry] :
          /\ kind = "queue" => ~searched
          /\ \A i \in 1..n : /\ ~searched => entries[i].hit
                             /\ kind \notin MayMiss => entries[i].here
                             /\ kind \notin Trees => entries[i].key = 0 /\ ~desc
          /\ listing' = [kind |-> kind, limit |-> lim, desc |-> desc,
                         searched |-> searched, entries |-> entries]
  BY DEF OpenList
<1>2. PICK entries \in [1..n -> ListEntry] :
        /\ \A i \in 1..n : /\ ~searched => entries[i].hit
                           /\ kind \notin MayMiss => entries[i].here
        /\ listing' = [kind |-> kind, limit |-> lim, desc |-> desc,
                       searched |-> searched, entries |-> entries]
  BY <1>1
<1>3. n \in Nat /\ entries \in Seq(ListEntry) /\ DOMAIN entries = 1..n /\ lim \in Nat \ {0}
  BY ListingAssumption
<1>4. ListingGood'
  BY <1>2, <1>3 DEF ListingGood, Entry
<1>5. Len(Wanted') \in Nat
  <2>1. PICK I : I = {i \in 1..n : IsWanted(i)'}
    OBVIOUS
  <2>2. Wanted' = Ascending(I)
    BY <1>2, <1>3, <2>1 DEF Wanted
  <2>3. Len(Ascending(I)) \in 0..n
    BY <1>3, <2>1, AscendingIs
  <2> QED
    BY <2>2, <2>3
<1>6. offset' = 0 /\ shownSoFar' = <<>> /\ shownTotal' = -1 /\ paging' = TRUE
  BY DEF OpenList
<1>7. shownSoFar' \in Seq([entry : Nat, pos : Int]) /\ DOMAIN shownSoFar' = {}
  BY <1>6
<1> QED
  BY <1>4, <1>5, <1>6, <1>7 DEF ListingInv

(* The next page is that of the order, and continues what was shown.       *)
LEMMA NextPageStep == ListingInv /\ NextPage => ListingInv'
<1> SUFFICES ASSUME ListingInv, NextPage PROVE ListingInv'
  OBVIOUS
<1>1. /\ ListingGood /\ offset \in Nat /\ paging = TRUE
      /\ NoneEmpty => offset <= Len(Wanted)
      /\ shownSoFar \in Seq([entry : Nat, pos : Int])
  BY DEF ListingInv, NextPage
<1>2. listing' = listing /\ offset' = offset + perPage
  BY DEF NextPage
<1>3. PICK order \in PageOrders : LET answer == Answer(order) IN
        /\ shownSoFar' = shownSoFar \o [n \in DOMAIN answer.page |->
                                [entry |-> answer.page[n], pos |-> Pos(answer.page[n], n)]]
        /\ shownTotal' = answer.total
        /\ paging' = (Len(answer.page) = perPage)
  BY DEF NextPage, PageOrders
<1>4. PICK page, total : page = Answer(order).page /\ total = Answer(order).total
  OBVIOUS
<1>5. PICK rows : rows = [n \in DOMAIN page |-> [entry |-> page[n], pos |-> Pos(page[n], n)]]
  OBVIOUS
<1>6. shownSoFar' = shownSoFar \o rows /\ shownTotal' = total /\ paging' = (Len(page) = perPage)
  BY <1>3, <1>4, <1>5
<1>7. PICK n \in Nat, W \in Nat, o \in Nat, p \in Nat \ {0} :
        n = Len(listing.entries) /\ W = Len(Wanted) /\ o = offset /\ p = perPage
  <2>1. Len(listing.entries) \in Nat /\ Len(Wanted) \in Nat
    BY <1>1, WantedIs
  <2>2. perPage \in Nat \ {0}
    BY <1>1 DEF ListingGood, perPage
  <2> QED
    BY <1>1, <2>1, <2>2
<1>8. /\ ListingGood' /\ Wanted' = Wanted /\ PageOrders' = PageOrders
      /\ Steady' = Steady /\ NoneEmpty' = NoneEmpty
  <2>1. Wanted' = Wanted
    BY <1>2 DEF Wanted, IsWanted, Entry
  <2>2. TreeOrders' = TreeOrders
    BY <1>2, <2>1 DEF TreeOrders, Entry
  <2> QED
    BY <1>1, <1>2, <2>1, <2>2 DEF ListingGood, PageOrders, Steady, NoneEmpty, Entry
<1>9. /\ order \in Seq(1..n) /\ Len(order) = W /\ DOMAIN order = 1..W
      /\ listing.kind \notin Trees => order = Wanted
  BY <1>1, <1>7, OrdersAre
<1>10. /\ page \in Seq(1..n) /\ total \in Int
       /\ NoneEmpty => page = PageOf(order)
       /\ o <= W => \/ total \in {-1, W}
                    \/ listing.kind = "playlist" /\ listing.searched /\ o > 0
                    \/ listing.kind = "last_played" /\ ~listing.searched
  BY <1>1, <1>4, <1>7, AnswerRight
<1>11. PICK L \in Nat : L = Len(page) /\ DOMAIN page = 1..L
  BY <1>10
<1>12. NoneEmpty => L = (IF W <= o THEN 0 ELSE IF o + p <= W THEN p ELSE W - o)
  <2>1. Len(PageOf(order)) = PageLength(order)
    BY <1>7, <1>9, WindowIs
  <2>2. PageLength(order) = IF W <= o THEN 0 ELSE IF o + p <= W THEN p ELSE W - o
    BY <1>7, <1>9 DEF PageLength
  <2> QED
    BY <1>10, <1>11, <2>1, <2>2
<1>13. NoneEmpty => \A k \in 1..L : page[k] = order[o + k]
  <2>1. PageOf(order) = [k \in 1..PageLength(order) |-> order[o + k]]
    BY <1>7 DEF PageOf
  <2> QED
    BY <1>10, <1>11, <2>1
<1>14. \A k \in 1..L : /\ page[k] \in 1..n /\ page[k] \in Nat \ {0}
                       /\ rows[k].entry = page[k] /\ rows[k].pos = Pos(page[k], k)
                       /\ rows[k] \in [entry : Nat, pos : Int]
  <2>1. SUFFICES ASSUME NEW k \in 1..L
                 PROVE  /\ page[k] \in 1..n /\ page[k] \in Nat \ {0}
                        /\ rows[k].entry = page[k] /\ rows[k].pos = Pos(page[k], k)
                        /\ rows[k] \in [entry : Nat, pos : Int]
    OBVIOUS
  <2>2. page[k] \in 1..n /\ page[k] \in Nat \ {0} /\ k \in Nat
    BY <1>10, <1>11
  <2>3. Pos(page[k], k) \in Int
    BY <1>1, <2>2, PosIs
  <2>4. rows[k] = [entry |-> page[k], pos |-> Pos(page[k], k)]
    BY <1>5, <1>11
  <2> HIDE DEF Pos
  <2> QED
    BY <2>2, <2>3, <2>4
<1>15. PICK a \in Nat : a = Len(shownSoFar) /\ DOMAIN shownSoFar = 1..a
  BY <1>1
<1>16. rows \in Seq([entry : Nat, pos : Int]) /\ Len(rows) = L
  BY <1>5, <1>11, <1>14
<1>17. PICK now : now = shownSoFar'
  OBVIOUS
<1>18. /\ now \in Seq([entry : Nat, pos : Int]) /\ Len(now) = a + L /\ DOMAIN now = 1..a + L
       /\ \A k \in 1..a + L : now[k] = IF k <= a THEN shownSoFar[k] ELSE rows[k - a]
  <2>1. PICK T : T = [entry : Nat, pos : Int]
    OBVIOUS
  <2>2. PICK old : old = shownSoFar
    OBVIOUS
  <2>3. old \in Seq(T) /\ rows \in Seq(T) /\ Len(old) = a /\ Len(rows) = L
    BY <1>1, <1>15, <1>16, <2>1, <2>2
  <2>4. now = old \o rows
    BY <1>6, <1>17, <2>2
  <2>5. now \in Seq(T) /\ Len(now) = a + L
    <3>1. old \o rows \in Seq(T) /\ Len(old \o rows) = Len(old) + Len(rows)
      BY <2>3
    <3> QED
      BY <2>3, <2>4, <3>1
  <2>6. DOMAIN now = 1..a + L
    BY <2>5
  <2>7. \A k \in 1..a + L : now[k] = IF k <= a THEN old[k] ELSE rows[k - a]
    BY <2>3, <2>4
  <2> QED
    BY <2>1, <2>2, <2>5, <2>6, <2>7
<1>19. (NoneEmpty => IF paging THEN offset <= Len(Wanted) ELSE offset >= Len(Wanted))'
  <2>1. SUFFICES ASSUME NoneEmpty PROVE IF L = p THEN o + p <= W ELSE o + p >= W
    BY <1>2, <1>6, <1>7, <1>8, <1>11
  <2>2. o <= W
    BY <1>1, <1>7, <2>1
  <2> QED
    BY <1>12, <2>1, <2>2
<1>20. (shownTotal # -1 /\ ~OddTotal => shownTotal = Len(Wanted))'
  <2>1. SUFFICES ASSUME total # -1, ~OddTotal' PROVE total = W
    BY <1>6, <1>7, <1>8
  <2>2. listing.kind # "tags_mpd"
    <3>1. SUFFICES ASSUME listing.kind = "tags_mpd" PROVE FALSE
      OBVIOUS
    <3>2. Answer(order) = TagListMpd
      BY <3>1 DEF Answer
    <3>3. TagListMpd.total = -1
      BY <1>1, <3>1, TagPage
    <3> QED
      BY <1>4, <2>1, <3>2, <3>3
  <2>3. o <= W
    BY <1>1, <1>7, <2>2 DEF NoneEmpty
  <2>4. ~(listing.kind = "last_played" /\ ~listing.searched)
    BY <1>2, <2>1 DEF OddTotal
  <2>5. ~(listing.kind = "playlist" /\ listing.searched /\ o > 0)
    <3>1. perPage' = perPage
      BY <1>2 DEF perPage
    <3>2. o > 0 => offset' > perPage'
      BY <1>2, <1>7, <3>1
    <3> QED
      BY <1>2, <2>1, <3>2 DEF OddTotal
  <2> QED
    BY <1>10, <2>1, <2>3, <2>4, <2>5
<1>21. (listing.kind \in WithPos \ {"jukebox_songs"} =>
          \A k \in DOMAIN shownSoFar : shownSoFar[k].pos = shownSoFar[k].entry - 1)'
  <2>1. SUFFICES ASSUME listing.kind \in WithPos \ {"jukebox_songs"}, NEW k \in 1..a + L
                 PROVE  now[k].pos = now[k].entry - 1
    BY <1>2, <1>17, <1>18
  <2>2. CASE k <= a
    <3>1. shownSoFar[k].pos = shownSoFar[k].entry - 1
      <4>1. \A m \in DOMAIN shownSoFar : shownSoFar[m].pos = shownSoFar[m].entry - 1
        BY <2>1 DEF ListingInv
      <4>2. k \in DOMAIN shownSoFar
        BY <1>15, <2>2
      <4> QED
        BY <4>1, <4>2
    <3>2. now[k] = shownSoFar[k]
      BY <1>18, <2>2
    <3> QED
      BY <3>1, <3>2
  <2>3. CASE ~(k <= a)
    <3>1. PICK i \in 1..L : i = k - a
      BY <2>3
    <3>2. now[k].pos = Pos(page[i], i) /\ now[k].entry = page[i]
      BY <1>14, <1>18, <2>3, <3>1
    <3>0. page[i] \in Nat \ {0} /\ i \in Nat
      BY <1>14
    <3>3. Pos(page[i], i) = IF listing.kind = "playlist" /\ ~listing.searched THEN offset + i - 1 ELSE page[i] - 1
      BY <1>1, <2>1, <3>0, PosIs
    <3>4. ASSUME listing.kind = "playlist", ~listing.searched PROVE page[i] = o + i
      <4>1. \A j \in 1..n : IsWanted(j)
        <5>1. listing.kind \notin MayMiss
          BY <3>4 DEF MayMiss
        <5>2. DOMAIN listing.entries = 1..n
          BY <1>1, <1>7, WantedIs
        <5> QED
          BY <1>1, <3>4, <5>1, <5>2 DEF ListingGood, IsWanted
      <4>2. Wanted = [j \in 1..n |-> j]
        BY <1>1, <1>7, <4>1, WantedIs
      <4>3. order = Wanted
        BY <1>9, <3>4 DEF Trees
      <4>4. NoneEmpty
        BY <3>4 DEF NoneEmpty
      <4>5. page[i] = order[o + i] /\ o + i \in 1..W
        BY <1>12, <1>13, <4>4
      <4>6. DOMAIN order = 1..n
        BY <4>2, <4>3
      <4> QED
        BY <1>9, <4>2, <4>3, <4>5, <4>6
    <3> QED
      BY <1>7, <3>2, <3>3, <3>4
  <2> QED
    BY <2>2, <2>3
<1>22. (Steady => \/ offset = 0 /\ shownSoFar = <<>>
                  \/ \E other \in PageOrders :
                       [k \in DOMAIN shownSoFar |-> shownSoFar[k].entry] = ShownOf(other))'
  <2>1. SUFFICES ASSUME Steady PROVE [k \in 1..a + L |-> now[k].entry] = ShownOf(order)'
    BY <1>8, <1>17, <1>18
  <2>2. NoneEmpty
    BY <2>1 DEF Steady, NoneEmpty
  <2>3. o <= W
    BY <1>1, <1>7, <2>2
  <2>4. ShownOf(order) = [k \in 1..o |-> order[k]]
    BY <1>7, <1>9, <2>3 DEF ShownOf
  <2>5. a = o /\ \A k \in 1..a : shownSoFar[k].entry = order[k]
    <3>1. CASE offset = 0 /\ shownSoFar = <<>>
      BY <1>7, <1>15, <3>1
    <3>2. CASE \E other \in PageOrders :
                 [k \in DOMAIN shownSoFar |-> shownSoFar[k].entry] = ShownOf(other)
      <4>1. PICK other \in PageOrders :
              [k \in DOMAIN shownSoFar |-> shownSoFar[k].entry] = ShownOf(other)
        BY <3>2
      <4>2. other = order
        BY <1>1, <2>1, OneOrder
      <4>3. [k \in 1..a |-> shownSoFar[k].entry] = [k \in 1..o |-> order[k]]
        BY <1>15, <2>4, <4>1, <4>2
      <4>4. 1..a = 1..o
        BY <4>3
      <4>5. a = o
        BY <4>4
      <4> QED
        BY <4>3, <4>5
    <3> QED
      BY <2>1, <3>1, <3>2 DEF ListingInv
  <2>6. o + L = IF o + p < W THEN o + p ELSE W
    BY <1>12, <2>2, <2>3
  <2>7. ShownOf(order)' = [k \in 1..o + L |-> order[k]]
    BY <1>2, <1>7, <1>9, <2>6 DEF ShownOf
  <2>8. ASSUME NEW k \in 1..o + L PROVE now[k].entry = order[k]
    <3>1. CASE k <= a
      <4>1. k \in 1..a + L /\ k \in 1..a
        BY <2>5, <2>8, <3>1
      <4>2. now[k] = shownSoFar[k]
        BY <1>18, <3>1, <4>1
      <4> QED
        BY <2>5, <4>1, <4>2
    <3>2. CASE ~(k <= a)
      <4>1. PICK i \in 1..L : i = k - a
        BY <2>5, <2>8, <3>2
      <4>2. now[k].entry = page[i]
        BY <1>14, <1>18, <2>5, <2>8, <3>2, <4>1
      <4>3. page[i] = order[o + i]
        BY <1>13, <2>2
      <4> QED
        BY <2>5, <4>1, <4>2, <4>3
    <3> QED
      BY <3>1, <3>2
  <2> QED
    BY <2>5, <2>7, <2>8
<1>23. (offset \in Nat /\ paging \in BOOLEAN /\ shownTotal \in Int)'
  <2>1. offset' = o + p /\ shownTotal' \in Int
    BY <1>2, <1>6, <1>7, <1>10
  <2>2. paging' \in BOOLEAN
    BY <1>6
  <2> QED
    BY <2>1, <2>2
<1>24. shownSoFar' \in Seq([entry : Nat, pos : Int])
  BY <1>17, <1>18
<1> QED
  BY <1>8, <1>19, <1>20, <1>21, <1>22, <1>23, <1>24 DEF ListingInv

LEMMA ListingStep == ListingInv /\ [ListingNext]_listingVars => ListingInv'
<1> SUFFICES ASSUME ListingInv, [ListingNext]_listingVars PROVE ListingInv'
  OBVIOUS
<1>1. CASE OpenList
  BY <1>1, OpenListStep
<1>2. CASE NextPage
  BY <1>2, NextPageStep
<1>3. CASE UNCHANGED listingVars
  <2>1. TreeOrders' = TreeOrders /\ Wanted' = Wanted
    BY <1>3 DEF listingVars, TreeOrders, Wanted, IsWanted, Entry
  <2>2. /\ listing' = listing /\ offset' = offset /\ shownSoFar' = shownSoFar
        /\ shownTotal' = shownTotal /\ paging' = paging
    BY <1>3 DEF listingVars
  <2>3. ListingGood' = ListingGood /\ PageOrders' = PageOrders /\ NoneEmpty' = NoneEmpty
        /\ Steady' = Steady /\ OddTotal' = OddTotal
    BY <2>1, <2>2 DEF ListingGood, PageOrders, NoneEmpty, Steady, OddTotal, Entry, perPage
  <2>4. \A order : ShownOf(order)' = ShownOf(order)
    BY <2>2 DEF ShownOf
  <2> QED
    BY <2>1, <2>2, <2>3, <2>4 DEF ListingInv
<1> QED
  BY <1>1, <1>2, <1>3 DEF ListingNext

(* What was shown up to the offset is all there is when the client asks    *)
(* for no further page.                                                    *)
LEMMA PagesAreComplete == ListingInv => PagesComplete
<1> SUFFICES ASSUME ListingInv PROVE PagesComplete
  OBVIOUS
<1> DEFINE entries == [n \in DOMAIN shownSoFar |-> shownSoFar[n].entry]
           Rises(a, b) == IF listing.kind \in Trees
                          THEN IF listing.desc THEN Entry(a).key > Entry(b).key
                                               ELSE Entry(a).key < Entry(b).key
                          ELSE a < b
<1>1. ASSUME Steady
      PROVE  /\ IsInjective(entries) /\ Range(entries) \subseteq Range(Wanted)
             /\ ~paging => Range(entries) = Range(Wanted)
             /\ \A a, b \in DOMAIN entries : a < b => Rises(entries[a], entries[b])
  <2>1. PICK W, o, e : W = Len(Wanted) /\ o = offset /\ e = entries
    OBVIOUS
  <2>2. W \in Nat /\ DOMAIN Wanted = 1..W /\ o \in Nat /\ ListingGood
    BY <2>1, WantedIs DEF ListingInv
  <2>3. NoneEmpty
    BY <1>1 DEF Steady, NoneEmpty
  <2>4. ~paging => o >= W
    BY <2>1, <2>3 DEF ListingInv
  <2>5. SUFFICES /\ IsInjective(e) /\ Range(e) \subseteq Range(Wanted)
                 /\ ~paging => Range(e) = Range(Wanted)
                 /\ \A a, b \in DOMAIN e : a < b => Rises(e[a], e[b])
    BY <2>1
  <2>6. CASE offset = 0 /\ shownSoFar = <<>>
    <3>1. DOMAIN e = {}
      BY <2>1, <2>6
    <3>2. ~paging => DOMAIN Wanted = {}
      BY <2>1, <2>2, <2>4, <2>6
    <3> HIDE DEF Wanted, Rises, entries
    <3> QED
      BY <3>1, <3>2 DEF Range, IsInjective
  <2>7. CASE \E order \in PageOrders : entries = ShownOf(order)
    <3>1. PICK order \in PageOrders : e = ShownOf(order)
      BY <2>1, <2>7
    <3>2. /\ Len(order) = W /\ DOMAIN order = 1..W /\ Range(order) = Range(Wanted)
          /\ \A j, k \in 1..W : order[j] = order[k] => j = k
          /\ listing.kind \notin Trees => order = Wanted
      BY <2>1, <2>2, OrdersAre
    <3>3. PICK m \in 0..W : m = IF o < W THEN o ELSE W
      BY <2>2
    <3>4. e = [n \in 1..m |-> order[n]]
      BY <2>1, <3>1, <3>2, <3>3 DEF ShownOf
    <3>5. DOMAIN e = 1..m /\ 1..m \subseteq 1..W /\ \A n \in 1..m : e[n] = order[n]
      BY <2>2, <3>4
    <3>6. ~paging => m = W
      BY <2>2, <2>4, <3>3
    <3>7. IsInjective(e)
      BY <3>2, <3>5 DEF IsInjective
    <3>8. Range(e) = {order[n] : n \in 1..m} /\ Range(order) = {order[n] : n \in 1..W}
      BY <3>2, <3>5 DEF Range
    <3>9. Range(e) \subseteq Range(order) /\ (~paging => Range(e) = Range(order))
      BY <3>5, <3>6, <3>8
    <3>10. ASSUME NEW a \in 1..m, NEW b \in 1..m, a < b PROVE Rises(order[a], order[b])
      <4>1. CASE listing.kind \in Trees
        BY <1>1, <2>2, <3>2, <3>5, <3>10, <4>1, KeysRise
      <4>2. CASE listing.kind \notin Trees
        <5>1. \A j, k \in DOMAIN Wanted : j < k => Wanted[j] < Wanted[k]
          BY <2>2, WantedIs
        <5> QED
          BY <2>2, <3>2, <3>5, <3>10, <4>2, <5>1
      <4> QED
        BY <4>1, <4>2
    <3> HIDE DEF Rises
    <3> QED
      BY <3>2, <3>5, <3>7, <3>9, <3>10
  <2> QED
    BY <1>1, <2>6, <2>7 DEF ListingInv
<1>2. shownTotal # -1 /\ ~OddTotal => shownTotal = Len(Wanted)
  BY DEF ListingInv
<1>3. listing.kind \in WithPos \ {"jukebox_songs"} =>
        \A n \in DOMAIN shownSoFar : shownSoFar[n].pos = shownSoFar[n].entry - 1
  BY DEF ListingInv
<1>4. DOMAIN entries = DOMAIN shownSoFar
  OBVIOUS
<1> QED
  BY <1>1, <1>2, <1>3, <1>4 DEF PagesComplete

(* Paging to the end shows every entry that was asked for once, in the     *)
(* order of the list; a total is the number of these entries, and a        *)
(* position is the one of the entry in the list: for lists of any length,  *)
(* any keys and any page length, whichever of the handlers answers.        *)
THEOREM PagesCorrect == ListingSpec => []PagesComplete
BY ListingStart, ListingStep, PagesAreComplete, PTL DEF ListingSpec

------------------------------------------------------------------------------
(***************************************************************************)
(* The settings.  The tables are taken row by row: a value that a command  *)
(* accepts can be read back from its file or is one of the named losses.   *)
(* From there one key, the keys of a command, and the steps.               *)
(***************************************************************************)
Unset == "dontsetpassword"
Passwords == {"mpdPass", "stickerdbMpdPass"}
\* what can be set: a password is left alone by its placeholder
Usable(k, s) == IF k \in Passwords THEN s.accepted \ {Unset} ELSE s.accepted
HasKeys(table, keys) == DOMAIN table = keys
(* The keys of the tables, row by row.                                     *)
LEMMA RowKeys == \A keys, setting : HasKeys(All(keys, setting), keys)
BY DEF HasKeys, All
LEMMA TableOnly == \A f : HasKeys(f, DOMAIN f)
BY DEF HasKeys
LEMMA JoinedKeys ==
  ASSUME NEW f, NEW g, NEW C, NEW D, HasKeys(f, C), HasKeys(g, D) PROVE HasKeys(f ++ g, C \cup D)
BY DEF ++, HasKeys
LEMMA TableKeys ==
  /\ DOMAIN ConnectionSettings = {"mpdHost", "stickerdbMpdHost", "mpdPort", "stickerdbMpdPort",
       "mpdTimeout", "stickerdbMpdTimeout", "mpdBinarylimit", "mpdPass", "stickerdbMpdPass",
       "mpdKeepalive", "stickerdbMpdKeepalive", "mpdStringnormalization", "musicDirectory",
       "playlistDirectory"}
  /\ DOMAIN SmartplsSettings = {"smartpls", "smartplsSort", "smartplsPrefix", "smartplsInterval",
       "smartplsGenerateTagList"}
  /\ DOMAIN GlobalSettings = DOMAIN SmartplsSettings \cup {"imageNamesSm", "imageNamesMd",
       "imageNamesLg", "bookletName", "infoTxtName", "lastPlayedCount", "volumeMin", "volumeMax",
       "volumeStep", "tagList", "tagListSearch", "tagListBrowse", "tagDiscEmptyIsFirst",
       "webuiSettings", "lyricsUsltExt", "lyricsSyltExt", "lyricsVorbisUslt", "lyricsVorbisSylt"}
  /\ DOMAIN PartitionSettings = {"highlightColor", "highlightColorContrast", "mpdStreamPort",
       "streamUri"}
  /\ DOMAIN JukeboxSettings = {"jukeboxMode", "jukeboxPlaylist", "jukeboxUniqTag",
       "jukeboxLastPlayed", "jukeboxIgnoreHated", "jukeboxFilterInclude", "jukeboxFilterExclude",
       "jukeboxMinSongDuration", "jukeboxMaxSongDuration"}
  /\ DOMAIN PlaybackSettings = DOMAIN JukeboxSettings \cup {"autoPlay", "jukeboxAutostart",
       "jukeboxQueueLength"}
  /\ DOMAIN ViewSettings = {"viewQueueCurrent", "viewQueueLastPlayed", "viewQueueJukeboxSong",
       "viewQueueJukeboxAlbum", "viewSearch", "viewPlayback", "viewBrowseFilesystem",
       "viewBrowseDatabaseAlbumDetailInfo", "viewBrowseDatabaseAlbumDetail",
       "viewBrowseDatabaseAlbumList", "viewBrowseDatabaseTagList", "viewBrowsePlaylistDetail",
       "viewBrowsePlaylistList", "viewBrowseRadioWebradiodb", "viewBrowseRadioFavorites"}
  /\ DOMAIN MpdOptions = {"random", "repeat", "single", "consume", "crossfade", "mixrampDb",
       "mixrampDelay", "replaygain"}
<1>1. HasKeys(ConnectionSettings,
       {"mpdHost", "stickerdbMpdHost"} \cup
       {"mpdPort", "stickerdbMpdPort", "mpdTimeout", "stickerdbMpdTimeout",
           "mpdBinarylimit"} \cup
       {"mpdPass", "stickerdbMpdPass"} \cup
       {"mpdKeepalive", "stickerdbMpdKeepalive", "mpdStringnormalization"} \cup
       {"musicDirectory", "playlistDirectory"})
  BY RowKeys, JoinedKeys DEF ConnectionSettings
<1>2. HasKeys(SmartplsSettings,
       {"smartpls"} \cup
       {"smartplsSort"} \cup
       {"smartplsPrefix"} \cup
       {"smartplsInterval"} \cup
       {"smartplsGenerateTagList"})
  BY RowKeys, JoinedKeys DEF SmartplsSettings
<1>3. HasKeys(GlobalSettings,
       DOMAIN SmartplsSettings \cup
       {"imageNamesSm", "imageNamesMd", "imageNamesLg", "bookletName", "infoTxtName"} \cup
       {"lastPlayedCount", "volumeMin", "volumeMax"} \cup
       {"volumeStep"} \cup
       {"tagList", "tagListSearch", "tagListBrowse"} \cup
       {"tagDiscEmptyIsFirst"} \cup
       {"webuiSettings"} \cup
       {"lyricsUsltExt", "lyricsSyltExt", "lyricsVorbisUslt", "lyricsVorbisSylt"})
  <2>1. PICK first : first = SmartplsSettings ++
          All({"imageNamesSm", "imageNamesMd", "imageNamesLg", "bookletName", "infoTxtName"},
              Same(Filename, "word")) ++
          All({"lastPlayedCount", "volumeMin", "volumeMax"}, Same({"zero", "n1", "n2"}, "n1")) ++
          All({"volumeStep"}, Same({"n1", "n2"}, "n1"))
    OBVIOUS
  <2>2. HasKeys(first, DOMAIN SmartplsSettings \cup
          {"imageNamesSm", "imageNamesMd", "imageNamesLg", "bookletName", "infoTxtName"} \cup
          {"lastPlayedCount", "volumeMin", "volumeMax"} \cup
          {"volumeStep"})
    BY <2>1, RowKeys, JoinedKeys, TableOnly
  <2>3. GlobalSettings = first ++
          All({"tagList", "tagListSearch", "tagListBrowse"}, Same(TagList, "Tag")) ++
          All({"tagDiscEmptyIsFirst"}, Same(Bools, "true")) ++
          All({"webuiSettings"}, Setting(Objects, JsonObject, "{}")) ++
          All({"lyricsUsltExt", "lyricsSyltExt", "lyricsVorbisUslt", "lyricsVorbisSylt"},
              Same(Alnum, "word"))
    BY <2>1 DEF GlobalSettings
  <2> QED
    BY <2>2, <2>3, RowKeys, JoinedKeys
<1>4. HasKeys(PartitionSettings,
       {"highlightColor", "highlightColorContrast"} \cup
       {"mpdStreamPort"} \cup
       {"streamUri"})
  BY RowKeys, JoinedKeys DEF PartitionSettings
<1>5. HasKeys(JukeboxSettings,
       {"jukeboxMode"} \cup
       {"jukeboxPlaylist"} \cup
       {"jukeboxUniqTag"} \cup
       {"jukeboxLastPlayed"} \cup
       {"jukeboxIgnoreHated"} \cup
       {"jukeboxFilterInclude", "jukeboxFilterExclude"} \cup
       {"jukeboxMinSongDuration", "jukeboxMaxSongDuration"})
  BY RowKeys, JoinedKeys DEF JukeboxSettings
<1>6. HasKeys(PlaybackSettings,
       DOMAIN JukeboxSettings \cup
       {"autoPlay", "jukeboxAutostart"} \cup
       {"jukeboxQueueLength"})
  BY RowKeys, JoinedKeys, TableOnly DEF PlaybackSettings
<1>7. HasKeys(ViewSettings,
       {"viewQueueCurrent", "viewQueueLastPlayed", "viewQueueJukeboxSong",
           "viewQueueJukeboxAlbum", "viewSearch", "viewPlayback", "viewBrowseFilesystem",
           "viewBrowseDatabaseAlbumDetailInfo", "viewBrowseDatabaseAlbumDetail",
           "viewBrowseDatabaseAlbumList", "viewBrowseDatabaseTagList",
           "viewBrowsePlaylistDetail", "viewBrowsePlaylistList",
           "viewBrowseRadioWebradiodb", "viewBrowseRadioFavorites"})
  BY RowKeys, JoinedKeys DEF ViewSettings
<1>8. HasKeys(MpdOptions,
       {"random", "repeat"} \cup
       {"single", "consume"} \cup
       {"crossfade", "mixrampDb", "mixrampDelay"} \cup
       {"replaygain"})
  BY RowKeys, JoinedKeys DEF MpdOptions
<1> QED
  BY <1>1, <1>2, <1>3, <1>4, <1>5, <1>6, <1>7, <1>8 DEF HasKeys

\* a setting whose values survive a save and a restart
ProperSetting(k, s) ==
  /\ s.default \in Usable(k, s) /\ StripSlash(k, s.default) = s.default
  /\ \A v \in Usable(k, s) :
       /\ v # "none" /\ v # "\n"
       /\ StripSlash(k, v) \in Usable(k, s)
       /\ Lost(Written(k, v)) \/ Written(k, v) \in s.read
  /\ k = "jukeboxMode" => s.accepted = {"off", "song"}
  /\ k \in TagKeys => s.accepted = TagList

AllProper(table) == \A k \in DOMAIN table : ProperSetting(k, table[k])

LEMMA JoinedProper == ASSUME NEW f, NEW g, AllProper(f), AllProper(g) PROVE AllProper(f ++ g)
BY DEF ++, AllProper

(* The settings of every table are such, a leaf for each of its rows.      *)
LEMMA ConnectionSettingsProper == AllProper(ConnectionSettings)
<1> USE DEF AllProper, All, Setting, Same, ProperSetting, StripSlash, Written, Lost,
         Usable, Passwords, Unset, TagKeys
<1>1. AllProper(All({"mpdHost", "stickerdbMpdHost"}, Setting(FilePath, Name, "word")))
  BY ZenonT(60) DEF FilePath, Filename, Name, Strings
<1>2. AllProper(All({"mpdPort", "stickerdbMpdPort", "mpdTimeout", "stickerdbMpdTimeout",
                    "mpdBinarylimit"}, Same({"n1", "n2"}, "n1")))
  OBVIOUS
<1>3. AllProper(All({"mpdPass", "stickerdbMpdPass"}, Setting(Name \cup
                    {"dontsetpassword"}, Name, "")))
  BY ZenonT(60) DEF Name, Strings
<1>4. AllProper(All({"mpdKeepalive", "stickerdbMpdKeepalive", "mpdStringnormalization"},
                    Same(Bools, "true")))
  BY DEF Bools
<1>5. AllProper(All({"musicDirectory", "playlistDirectory"}, Same(FilePath, "word")))
  BY DEF FilePath, Filename
<1> HIDE DEF AllProper, All, Setting, Same
<1> QED
  BY <1>1, <1>2, <1>3, <1>4, <1>5, JoinedProper DEF ConnectionSettings

LEMMA SmartplsSettingsProper == AllProper(SmartplsSettings)
<1> USE DEF AllProper, All, Setting, Same, ProperSetting, StripSlash, Written, Lost,
         Usable, Passwords, Unset, TagKeys
<1>1. AllProper(All({"smartpls"}, Same(Bools, "true")))
  BY DEF Bools
<1>2. AllProper(All({"smartplsSort"}, Setting(SortTag \cup {""}, SortTag, "")))
  BY DEF SortTag
<1>3. AllProper(All({"smartplsPrefix"}, Setting(Filename \cup {""}, Name, "word")))
  BY ZenonT(60) DEF Filename, Name, Strings
<1>4. AllProper(All({"smartplsInterval"}, Same({"zero", "n1", "n2"}, "n1")))
  OBVIOUS
<1>5. AllProper(All({"smartplsGenerateTagList"}, Same(TagList, "")))
  BY DEF TagList
<1> HIDE DEF AllProper, All, Setting, Same
<1> QED
  BY <1>1, <1>2, <1>3, <1>4, <1>5, JoinedProper DEF SmartplsSettings

LEMMA GlobalSettingsProper == AllProper(GlobalSettings)
<1> USE DEF AllProper, All, Setting, Same, ProperSetting, StripSlash, Written, Lost,
         Usable, Passwords, Unset, TagKeys
<1>1. AllProper(All({"imageNamesSm", "imageNamesMd", "imageNamesLg", "bookletName",
                    "infoTxtName"}, Same(Filename, "word")))
  BY ZenonT(60) DEF Filename
<1>2. AllProper(All({"lastPlayedCount", "volumeMin", "volumeMax"}, Same({"zero", "n1",
                    "n2"}, "n1")))
  OBVIOUS
<1>3. AllProper(All({"volumeStep"}, Same({"n1", "n2"}, "n1")))
  OBVIOUS
<1>4. AllProper(All({"tagList", "tagListSearch", "tagListBrowse"}, Same(TagList, "Tag")))
  BY DEF TagList
<1>5. AllProper(All({"tagDiscEmptyIsFirst"}, Same(Bools, "true")))
  BY DEF Bools
<1>6. AllProper(All({"webuiSettings"}, Setting(Objects, JsonObject, "{}")))
  BY DEF Objects, JsonObject
<1>7. AllProper(All({"lyricsUsltExt", "lyricsSyltExt", "lyricsVorbisUslt",
                    "lyricsVorbisSylt"}, Same(Alnum, "word")))
  BY DEF Alnum
<1> HIDE DEF AllProper, All, Setting, Same
<1> QED
  BY <1>1, <1>2, <1>3, <1>4, <1>5, <1>6, <1>7, SmartplsSettingsProper, JoinedProper DEF GlobalSettings

LEMMA PartitionSettingsProper == AllProper(PartitionSettings)
<1> USE DEF AllProper, All, Setting, Same, ProperSetting, StripSlash, Written, Lost,
         Usable, Passwords, Unset, TagKeys
<1>1. AllProper(All({"highlightColor", "highlightColorContrast"}, Same(HexColor, "#c0")))
  BY DEF HexColor
<1>2. AllProper(All({"mpdStreamPort"}, Same({"n1", "n2"}, "n1")))
  OBVIOUS
<1>3. AllProper(All({"streamUri"}, Setting({"", "http://"}, Uri, "")))
  BY DEF Uri, FilePath, Filename
<1> HIDE DEF AllProper, All, Setting, Same
<1> QED
  BY <1>1, <1>2, <1>3, JoinedProper DEF PartitionSettings

LEMMA JukeboxSettingsProper == AllProper(JukeboxSettings)
<1> USE DEF AllProper, All, Setting, Same, ProperSetting, StripSlash, Written, Lost,
         Usable, Passwords, Unset, TagKeys
<1>1. AllProper(All({"jukeboxMode"}, Setting({"off", "song"}, {"0", "1"}, "off")))
  BY DEF JukeboxNumber
<1>2. AllProper(All({"jukeboxPlaylist"}, Same(Filename, "word")))
  BY DEF Filename
<1>3. AllProper(All({"jukeboxUniqTag"}, Same({"Tag", "Tag2"}, "Tag")))
  OBVIOUS
<1>4. AllProper(All({"jukeboxLastPlayed"}, Same({"zero", "n1", "n2"}, "n1")))
  OBVIOUS
<1>5. AllProper(All({"jukeboxIgnoreHated"}, Same(Bools, "false")))
  BY DEF Bools
<1>6. AllProper(All({"jukeboxFilterInclude", "jukeboxFilterExclude"},
                    Setting(SearchExpression, SongExpression, "")))
  BY DEF SearchExpression, SongExpression
<1>7. AllProper(All({"jukeboxMinSongDuration", "jukeboxMaxSongDuration"}, Same(Numbers,
                    "zero")))
  BY DEF Numbers
<1> HIDE DEF AllProper, All, Setting, Same
<1> QED
  BY <1>1, <1>2, <1>3, <1>4, <1>5, <1>6, <1>7, JoinedProper DEF JukeboxSettings

LEMMA PlaybackSettingsProper == AllProper(PlaybackSettings)
<1> USE DEF AllProper, All, Setting, Same, ProperSetting, StripSlash, Written, Lost,
         Usable, Passwords, Unset, TagKeys
<1>1. AllProper(All({"autoPlay", "jukeboxAutostart"}, Same(Bools, "false")))
  BY DEF Bools
<1>2. AllProper(All({"jukeboxQueueLength"}, Setting({"n1", "n2"}, {"zero", "n1", "n2"},
                    "n1")))
  OBVIOUS
<1> HIDE DEF AllProper, All, Setting, Same
<1> QED
  BY <1>1, <1>2, JukeboxSettingsProper, JoinedProper DEF PlaybackSettings

LEMMA ViewSettingsProper == AllProper(ViewSettings)
<1> USE DEF AllProper, All, Setting
<1>1. \A k \in DOMAIN ViewSettings :
        k \notin {"jukeboxMode", "musicDirectory", "playlistDirectory"} \cup TagKeys
  BY TableKeys DEF TagKeys
<1>2. ASSUME NEW k \in DOMAIN ViewSettings PROVE ViewSettings[k] = Setting({"{}", "{..}"}, Name, "{}")
  BY DEF ViewSettings
<1>3. \A k \in DOMAIN ViewSettings : ProperSetting(k, Setting({"{}", "{..}"}, Name, "{}"))
  BY <1>1 DEF Setting, ProperSetting, StripSlash, Written, Name, Strings, Usable, Passwords, Unset
<1> HIDE DEF All, Setting
<1> QED
  BY <1>2, <1>3

(* No two commands have a key in common.                                   *)
LEMMA TablesApart ==
  /\ DOMAIN ConnectionSettings \cap DOMAIN GlobalSettings = {}
  /\ DOMAIN ConnectionSettings \cap DOMAIN PartitionSettings = {}
  /\ DOMAIN ConnectionSettings \cap DOMAIN PlaybackSettings = {}
  /\ DOMAIN ConnectionSettings \cap DOMAIN ViewSettings = {}
  /\ DOMAIN ConnectionSettings \cap DOMAIN MpdOptions = {}
  /\ DOMAIN GlobalSettings \cap DOMAIN PartitionSettings = {}
  /\ DOMAIN GlobalSettings \cap DOMAIN PlaybackSettings = {}
  /\ DOMAIN GlobalSettings \cap DOMAIN ViewSettings = {}
  /\ DOMAIN GlobalSettings \cap DOMAIN MpdOptions = {}
  /\ DOMAIN PartitionSettings \cap DOMAIN PlaybackSettings = {}
  /\ DOMAIN PartitionSettings \cap DOMAIN ViewSettings = {}
  /\ DOMAIN PartitionSettings \cap DOMAIN MpdOptions = {}
  /\ DOMAIN PlaybackSettings \cap DOMAIN ViewSettings = {}
  /\ DOMAIN PlaybackSettings \cap DOMAIN MpdOptions = {}
  /\ DOMAIN ViewSettings \cap DOMAIN MpdOptions = {}
BY TableKeys
(* Where the keys are that the connections and the webserver are told.    *)
LEMMA KeysInside ==
  /\ HostKeys \cup StickerKeys \cup ConnectionOptions \cup DOMAIN StickerDefault
       \subseteq DOMAIN ConnectionSettings
  /\ "tagList" \in DOMAIN GlobalSettings /\ "smartplsInterval" \in DOMAIN GlobalSettings
  /\ DOMAIN JukeboxSettings \subseteq DOMAIN PlaybackSettings
  /\ WebKeys \subseteq DOMAIN ConnectionSettings \cup DOMAIN GlobalSettings \cup DOMAIN PartitionSettings
  /\ DirKeys \subseteq DOMAIN ConnectionSettings /\ TagKeys \subseteq DOMAIN GlobalSettings
BY TableKeys DEF HostKeys, StickerKeys, ConnectionOptions, StickerDefault, WebKeys, DirKeys, TagKeys
(* A setting of the sticker connection is like the one of MPD.             *)
LEMMA TwinSettings == \A k \in DOMAIN StickerDefault :
   /\ StickerDefault[k] \in DOMAIN ConnectionSettings
   /\ ConnectionSettings[StickerDefault[k]] = ConnectionSettings[k]
<1>1. ConnectionSettings["mpdHost"] = ConnectionSettings["stickerdbMpdHost"]
  BY DEF ConnectionSettings, ++, All
<1>2. ConnectionSettings["mpdPort"] = ConnectionSettings["stickerdbMpdPort"]
  BY DEF ConnectionSettings, ++, All
<1>3. ConnectionSettings["mpdPass"] = ConnectionSettings["stickerdbMpdPass"]
  BY DEF ConnectionSettings, ++, All
<1>4. ConnectionSettings["mpdTimeout"] = ConnectionSettings["stickerdbMpdTimeout"]
  BY DEF ConnectionSettings, ++, All
<1>5. ConnectionSettings["mpdKeepalive"] = ConnectionSettings["stickerdbMpdKeepalive"]
  BY DEF ConnectionSettings, ++, All
<1>6. {"mpdHost", "mpdPort", "mpdPass", "mpdTimeout", "mpdKeepalive"} \subseteq DOMAIN ConnectionSettings
  BY TableKeys
<1> QED
  BY <1>1, <1>2, <1>3, <1>4, <1>5, <1>6 DEF StickerDefault

(* json_iterate_object, by induction over the number of pairs: what every  *)
(* key keeps, the command keeps.                                           *)
LEMMA IterationStays ==
  ASSUME NEW command, NEW P, NEW pairs \in Seq(P), NEW failed,
         NEW G, NEW h \in G,
         \A s \in G, i \in DOMAIN pairs :
           s.ok => SetKey(command, s, pairs[i][1], pairs[i][2], i = failed) \in G
  PROVE  Iterate(command, h, pairs, failed) \in G
<1> DEFINE N == Len(pairs)
           Key(s, n) == IF s.ok THEN SetKey(command, s, pairs[n][1], pairs[n][2], n = failed) ELSE s
           Body(f, m) == [n \in 0..m |-> IF n = 0 THEN h ELSE Key(f[n - 1], n)]
           Ok == {m \in 0..N : \E f \in [0..m -> G] : f = Body(f, m)}
           Bad == 0..N \ Ok
<1>1. N \in Nat /\ DOMAIN pairs = 1..N
  OBVIOUS
<1>2. \A s \in G, n \in 1..N : Key(s, n) \in G
  BY <1>1
<1> HIDE DEF Key, N
<1>3. ASSUME Bad # {} PROVE FALSE
  <2>0. Bad \in SUBSET Nat
    BY <1>1
  <2>1. PICK m \in Bad : \A j \in Bad : m <= j
    <3> HIDE DEF Bad
    <3> QED
      BY <1>3, <2>0, Least
  <2>2. m \in 0..N /\ \A f \in [0..m -> G] : f # Body(f, m)
    BY <2>1
  <2>3. CASE m = 0
    <3>1. PICK f : f = [n \in 0..0 |-> h]
      OBVIOUS
    <3>2. f \in [0..m -> G] /\ f = Body(f, m)
      BY <2>3, <3>1
    <3> QED
      BY <2>2, <3>2
  <2>4. CASE m # 0
    <3>1. m - 1 \in Ok
      <4>1. m - 1 \in 0..N /\ ~(m <= m - 1)
        BY <1>1, <2>2, <2>4
      <4>2. m - 1 \notin Bad
        <5> HIDE DEF Bad
        <5> QED
          BY <2>1, <4>1
      <4> HIDE DEF Ok
      <4> QED
        BY <4>1, <4>2
    <3>2. PICK f \in [0..m - 1 -> G] : f = Body(f, m - 1)
      BY <3>1
    <3>3. PICK g : g = [n \in 0..m |-> IF n = m THEN Key(f[m - 1], m) ELSE f[n]]
      OBVIOUS
    <3>4. g \in [0..m -> G]
      <4>1. f[m - 1] \in G /\ m \in 1..N
        BY <1>1, <2>2, <2>4
      <4>2. Key(f[m - 1], m) \in G
        BY <1>2, <4>1
      <4>3. \A n \in 0..m : n # m => n \in 0..m - 1
        BY <1>1, <2>2
      <4> QED
        BY <3>3, <4>2, <4>3
    <3>5. \A n \in 0..m : g[n] = IF n = 0 THEN h ELSE Key(g[n - 1], n)
      <4>1. SUFFICES ASSUME NEW n \in 0..m PROVE g[n] = IF n = 0 THEN h ELSE Key(g[n - 1], n)
        OBVIOUS
      <4>2. \A k \in 0..m - 1 : g[k] = f[k]
        BY <1>1, <2>2, <3>3
      <4>3. \A k \in 0..m - 1 : f[k] = IF k = 0 THEN h ELSE Key(f[k - 1], k)
        BY <3>2
      <4>4. n # 0 => n - 1 \in 0..m - 1
        BY <1>1, <2>2
      <4>5. n = m \/ n \in 0..m - 1
        BY <1>1, <2>2
      <4>6. g[m] = Key(f[m - 1], m)
        BY <1>1, <2>2, <3>3
      <4> QED
        BY <2>4, <4>2, <4>3, <4>4, <4>5, <4>6
    <3>6. g = Body(g, m)
      BY <3>4, <3>5
    <3> QED
      BY <2>2, <3>4, <3>6
  <2> QED
    BY <2>3, <2>4
<1>4. PICK f \in [0..N -> G] : f = Body(f, N)
  BY <1>1, <1>3
<1> DEFINE after == CHOOSE g : g = Body(g, N)
<1>5. Iterate(command, h, pairs, failed) = after[N]
  BY DEF Iterate, Key, N
<1>6. after = Body(after, N)
  <2> HIDE DEF Body
  <2> QED
    BY <1>4
<1> HIDE DEF after
<1>7. \A n \in 0..N : after[n] = IF n = 0 THEN h ELSE Key(after[n - 1], n)
  BY <1>6
<1> DEFINE Out == {n \in 0..N : after[n] \notin G}
<1>8. ASSUME Out # {} PROVE FALSE
  <2>0. Out \in SUBSET Nat
    BY <1>1
  <2>1. PICK n \in Out : \A j \in Out : n <= j
    <3> HIDE DEF Out
    <3> QED
      BY <1>8, <2>0, Least
  <2>2. n # 0 /\ n \in 1..N /\ n - 1 \in 0..N
    BY <1>1, <1>7, <2>1
  <2>3. after[n - 1] \in G
    BY <1>1, <2>1, <2>2
  <2>4. after[n] \in G
    BY <1>2, <1>7, <2>2, <2>3
  <2> QED
    BY <2>1, <2>4
<1> QED
  BY <1>1, <1>5, <1>8

SettingKeys    == DOMAIN AllSettings
OptionKeys == DOMAIN MpdOptions
\* the values a setting has in memory
ValuesOf(k) == Usable(k, AllSettings[k])
KeysOf(command) ==
  CASE command = "connection" -> DOMAIN ConnectionSettings
    [] command = "settings"   -> DOMAIN GlobalSettings
    [] command = "partition"  -> DOMAIN PartitionSettings
    [] command = "view"       -> DOMAIN ViewSettings
    [] OTHER                  -> DOMAIN PlaybackSettings

(* The tables have no key in common, so each setting is the one of its     *)
(* table.                                                                  *)
LEMMA TablesIn ==
  /\ SettingKeys = DOMAIN ConnectionSettings \cup DOMAIN GlobalSettings \cup DOMAIN PartitionSettings
              \cup DOMAIN PlaybackSettings \cup DOMAIN ViewSettings
  /\ \A k \in DOMAIN ConnectionSettings : AllSettings[k] = ConnectionSettings[k]
  /\ \A k \in DOMAIN GlobalSettings : AllSettings[k] = GlobalSettings[k]
  /\ \A k \in DOMAIN PartitionSettings : AllSettings[k] = PartitionSettings[k]
  /\ \A k \in DOMAIN PlaybackSettings : AllSettings[k] = PlaybackSettings[k]
  /\ \A k \in DOMAIN ViewSettings : AllSettings[k] = ViewSettings[k]
<1>1. PICK a : a = ConnectionSettings ++ GlobalSettings
  OBVIOUS
<1>2. PICK b : b = a ++ PartitionSettings
  OBVIOUS
<1>3. PICK c : c = b ++ PlaybackSettings
  OBVIOUS
<1>4. AllSettings = c ++ ViewSettings
  BY <1>1, <1>2, <1>3 DEF AllSettings
<1>5. /\ DOMAIN a = DOMAIN ConnectionSettings \cup DOMAIN GlobalSettings
      /\ \A k \in DOMAIN ConnectionSettings : a[k] = ConnectionSettings[k]
      /\ \A k \in DOMAIN GlobalSettings : a[k] = GlobalSettings[k]
  BY <1>1, TablesApart DEF ++
<1>6. /\ DOMAIN b = DOMAIN a \cup DOMAIN PartitionSettings
      /\ \A k \in DOMAIN a : b[k] = a[k]
      /\ \A k \in DOMAIN PartitionSettings : b[k] = PartitionSettings[k]
  BY <1>2, <1>5, TablesApart DEF ++
<1>7. /\ DOMAIN c = DOMAIN b \cup DOMAIN PlaybackSettings
      /\ \A k \in DOMAIN b : c[k] = b[k]
      /\ \A k \in DOMAIN PlaybackSettings : c[k] = PlaybackSettings[k]
  BY <1>3, <1>5, <1>6, TablesApart DEF ++
<1>8. /\ DOMAIN AllSettings = DOMAIN c \cup DOMAIN ViewSettings
      /\ \A k \in DOMAIN c : AllSettings[k] = c[k]
      /\ \A k \in DOMAIN ViewSettings : AllSettings[k] = ViewSettings[k]
  BY <1>4, <1>5, <1>6, <1>7, TablesApart DEF ++
<1> QED
  BY <1>5, <1>6, <1>7, <1>8 DEF SettingKeys

(* So every setting is proper.                                             *)
LEMMA SettingsProper == AllProper(AllSettings)
<1>1. \A k \in SettingKeys : ProperSetting(k, AllSettings[k])
  BY TablesIn, ConnectionSettingsProper, GlobalSettingsProper, PartitionSettingsProper,
     PlaybackSettingsProper, ViewSettingsProper DEF AllProper
<1> QED
  BY <1>1 DEF AllProper, SettingKeys

\* what a file is: the writing of a value
StoredAs(k, text) == \E v \in ValuesOf(k) : text = Written(k, v)

\* the number in the file stands for the mode
LEMMA JukeboxModes == \A v \in {"off", "song"} :
  (CHOOSE m \in {"off", "song"} : JukeboxNumber(m) = JukeboxNumber(v)) = v
BY DEF JukeboxNumber

(* What the start reads from a file that was written.                      *)
LEMMA ReadBackValue ==
  ASSUME NEW k \in SettingKeys, NEW v \in ValuesOf(k), NEW file, file[k] = Written(k, v), NEW default
  PROVE  /\ ReadOr(default, k, file) \in {default, StripSlash(k, v)}
         /\ ~Lost(file[k]) => ReadOr(default, k, file) = StripSlash(k, v)
<1>1. ProperSetting(k, AllSettings[k]) /\ v \in Usable(k, AllSettings[k])
  BY SettingsProper DEF AllProper, SettingKeys, ValuesOf
<1>2. Lost("")
  BY DEF Lost
<1>3. CASE k = "jukeboxMode"
  <2>1. v \in {"off", "song"} /\ file[k] = JukeboxNumber(v)
    BY <1>1, <1>3 DEF ProperSetting, Usable, Passwords, Written
  <2>2. ReadOr(default, k, file) \in {default, v}
    BY <1>3, <2>1, JukeboxModes DEF ReadOr
  <2>3. file[k] \notin {"none", ""} /\ StripSlash(k, v) = v
    BY <1>3, <2>1 DEF JukeboxNumber, StripSlash
  <2>4. ~Lost(file[k]) => file[k] \in AllSettings[k].read
    BY <1>1 DEF ProperSetting
  <2>5. ~Lost(file[k]) => ReadOr(default, k, file) = v
    BY <1>3, <2>1, <2>3, <2>4, JukeboxModes DEF ReadOr
  <2> QED
    BY <2>2, <2>3, <2>5
<1>4. CASE k # "jukeboxMode"
  <2>1. file[k] = v /\ v # "none" /\ (Lost(v) \/ v \in AllSettings[k].read)
    BY <1>1, <1>4 DEF ProperSetting, Written
  <2> QED
    BY <1>2, <1>4, <2>1 DEF ReadOr
<1> QED
  BY <1>3, <1>4

(* A directory without its slash is a value and has none to lose.          *)
LEMMA StrippedValue ==
  ASSUME NEW k \in SettingKeys, NEW v \in ValuesOf(k)
  PROVE  StripSlash(k, v) \in ValuesOf(k) /\ StripSlash(k, StripSlash(k, v)) = StripSlash(k, v)
BY SettingsProper DEF AllProper, ProperSetting, SettingKeys, ValuesOf, StripSlash

(* The defaults are values.                                                *)
LEMMA DefaultValues ==
  \A k \in SettingKeys : /\ AllSettings[k].default \in ValuesOf(k)
                  /\ StripSlash(k, AllSettings[k].default) = AllSettings[k].default
BY SettingsProper DEF AllProper, ProperSetting, SettingKeys, ValuesOf

\* the values of the two are the same, and none of them is a directory
LEMMA TwinValues ==
  ASSUME NEW k \in DOMAIN StickerDefault
  PROVE  /\ k \in SettingKeys /\ StickerDefault[k] \in SettingKeys
         /\ ValuesOf(StickerDefault[k]) = ValuesOf(k)
         /\ \A v : StripSlash(k, v) = v
<1>1. k \in {"stickerdbMpdHost", "stickerdbMpdPort", "stickerdbMpdPass", "stickerdbMpdTimeout",
             "stickerdbMpdKeepalive"}
  BY DEF StickerDefault
<1>2. k \in DOMAIN ConnectionSettings
  BY KeysInside
<1>3. StickerDefault[k] \in Passwords <=> k \in Passwords
  BY <1>1 DEF StickerDefault, Passwords
<1>4. StickerDefault[k] \in DOMAIN ConnectionSettings
      /\ AllSettings[StickerDefault[k]] = AllSettings[k]
  BY <1>2, TwinSettings, TablesIn
<1>5. ValuesOf(StickerDefault[k]) = ValuesOf(k)
  BY <1>3, <1>4 DEF ValuesOf, Usable
<1> QED
  BY <1>1, <1>2, <1>4, <1>5, TablesIn DEF StripSlash

(* The settings after a start have values of their kind, those of the      *)
(* files if these were written and can be read.                            *)
LEMMA ReadingIsGood ==
  ASSUME NEW file, \A k \in SettingKeys : file[k] = "none" \/ StoredAs(k, file[k])
  PROVE  /\ Reading(file) \in [SettingKeys -> UNION {ValuesOf(k) : k \in SettingKeys}]
         /\ \A k \in SettingKeys : /\ Reading(file)[k] \in ValuesOf(k)
                            /\ StripSlash(k, Reading(file)[k]) = Reading(file)[k]
         /\ \A k \in SettingKeys : \A v \in ValuesOf(k) : file[k] = Written(k, v) =>
              Lost(file[k]) \/ Reading(file)[k] = StripSlash(k, v)
<1> DEFINE own == [k \in SettingKeys |-> ReadOr(AllSettings[k].default, k, file)]
<1>1. ASSUME NEW k \in SettingKeys, NEW default \in ValuesOf(k), StripSlash(k, default) = default
      PROVE  /\ ReadOr(default, k, file) \in ValuesOf(k)
             /\ StripSlash(k, ReadOr(default, k, file)) = ReadOr(default, k, file)
  <2>1. CASE file[k] = "none"
    BY <1>1, <2>1 DEF ReadOr
  <2>2. CASE StoredAs(k, file[k])
    <3>1. PICK v \in ValuesOf(k) : file[k] = Written(k, v)
      BY <2>2 DEF StoredAs
    <3>2. ReadOr(default, k, file) \in {default, StripSlash(k, v)}
      BY <3>1, ReadBackValue
    <3> QED
      BY <1>1, <3>2, StrippedValue
  <2> QED
    BY <2>1, <2>2
<1>2. \A k \in SettingKeys : own[k] \in ValuesOf(k) /\ StripSlash(k, own[k]) = own[k]
  BY <1>1, DefaultValues
<1>3. Reading(file) = [k \in SettingKeys |-> IF k \in DOMAIN StickerDefault
                                      THEN ReadOr(own[StickerDefault[k]], k, file) ELSE own[k]]
  BY DEF Reading, SettingKeys
<1> HIDE DEF own
<1>4. ASSUME NEW k \in DOMAIN StickerDefault
      PROVE  /\ own[StickerDefault[k]] \in ValuesOf(k)
             /\ StripSlash(k, own[StickerDefault[k]]) = own[StickerDefault[k]]
  BY <1>2, TwinValues
<1>5. ASSUME NEW k \in SettingKeys
      PROVE  Reading(file)[k] \in ValuesOf(k) /\ StripSlash(k, Reading(file)[k]) = Reading(file)[k]
  BY <1>1, <1>2, <1>3, <1>4
<1>6. ASSUME NEW k \in SettingKeys, NEW v \in ValuesOf(k), file[k] = Written(k, v), ~Lost(file[k])
      PROVE  Reading(file)[k] = StripSlash(k, v)
  <2>1. \A default : ReadOr(default, k, file) = StripSlash(k, v)
    BY <1>6, ReadBackValue
  <2> QED
    BY <1>3, <2>1 DEF own
<1> QED
  BY <1>3, <1>5, <1>6

\* what the structs of the api thread hold
SettingValues ==
  (UNION {ValuesOf(k) : k \in SettingKeys}) \cup (UNION {MpdOptions[k].accepted : k \in OptionKeys})
    \cup {"zero"}
FileTexts == UNION {{Written(k, v) : v \in ValuesOf(k)} : k \in SettingKeys}
Structs ==
  [now : [SettingKeys -> SettingValues], file : [SettingKeys -> FileTexts], ok : BOOLEAN,
   options : [OptionKeys -> SettingValues], connOptionsDue : BOOLEAN, stickersFailed : BOOLEAN,
   smartplsTimer : SettingValues, jukebox : {<<>>} \cup [DOMAIN JukeboxSettings -> SettingValues]]

\* values of their kind, files that were written, songs by the options of now
SettingsGood(h) ==
  /\ \A k \in SettingKeys : h.now[k] \in ValuesOf(k) /\ StripSlash(k, h.now[k]) = h.now[k]
  /\ \A k \in SettingKeys : StoredAs(k, h.file[k])
  /\ \A k \in OptionKeys : h.options[k] \in MpdOptions[k].accepted
  /\ h.jukebox = <<>> \/ h.jukebox = Of(DOMAIN JukeboxSettings, h.now)

\* the files have the settings in use
SettingsSaved(h) ==
  \A k \in SettingKeys : \/ Lost(h.file[k])
                  \/ \E v \in ValuesOf(k) : h.file[k] = Written(k, v) /\ h.now[k] = StripSlash(k, v)

IntervalOf(h) == h.now["smartplsInterval"]

\* what keys of a command make of h, one of whose writes may have been wrong
SettingsMoved(h, r, command, wrong) ==
  /\ r \in Structs /\ SettingsGood(r)
  /\ \A k \in SettingKeys \ KeysOf(command) : r.now[k] = h.now[k]
  /\ SettingsSaved(h) => SettingsSaved(r) \/ (~r.ok /\ wrong)
  /\ r.connOptionsDue \/ \A k \in ConnectionOptions : r.now[k] = h.now[k]
  /\ h.connOptionsDue => r.connOptionsDue
  /\ r.smartplsTimer = IntervalOf(r) \/ (r.smartplsTimer = h.smartplsTimer /\ IntervalOf(r) = IntervalOf(h))

(* Where the keys of the commands are, and their values.                   *)
LEMMA CommandKeysIn == \A command : KeysOf(command) \subseteq SettingKeys
BY TablesIn DEF KeysOf

LEMMA KeysInTables ==
  /\ ConnectionOptions \subseteq SettingKeys /\ HostKeys \subseteq SettingKeys
  /\ WebKeys \subseteq SettingKeys
                /\ "smartplsInterval" \in SettingKeys /\ DOMAIN JukeboxSettings \subseteq SettingKeys
                /\ StickerKeys \subseteq SettingKeys
  /\ DirKeys \subseteq SettingKeys /\ TagKeys \subseteq SettingKeys
BY KeysInside, TablesIn

LEMMA ValuesIn ==
  ASSUME NEW k \in SettingKeys, NEW v \in ValuesOf(k)
  PROVE  v \in SettingValues /\ Written(k, v) \in FileTexts /\ StoredAs(k, Written(k, v))
BY DEF SettingValues, FileTexts, StoredAs

(* A key that is held and then written, and what comes with it.            *)
LEMMA KeyMoved ==
  ASSUME NEW h \in Structs, SettingsGood(h), NEW command, NEW key \in KeysOf(command),
         NEW value \in ValuesOf(key),
         NEW fails \in BOOLEAN, NEW r \in Structs,
         r.now = [h.now EXCEPT ![key] = StripSlash(key, value)],
         \/ r.file = [h.file EXCEPT ![key] = Written(key, value)]
         \/ r.file = h.file /\ ~r.ok /\ fails,
         r.options = h.options,
         \/ r.jukebox = <<>>
         \/ r.jukebox = h.jukebox /\ (key \in DOMAIN JukeboxSettings => value = h.now[key]),
         h.connOptionsDue \/ (key \in ConnectionOptions /\ value # h.now[key]) => r.connOptionsDue,
         IF key = "smartplsInterval" /\ value # h.now[key] THEN r.smartplsTimer = value
         ELSE r.smartplsTimer = h.smartplsTimer
  PROVE  SettingsMoved(h, r, command, fails)
<1> DEFINE new == StripSlash(key, value)
<1>1. key \in SettingKeys /\ new \in ValuesOf(key) /\ StripSlash(key, new) = new
  BY CommandKeysIn, StrippedValue
<1>2. DOMAIN h.now = SettingKeys /\ DOMAIN h.file = SettingKeys
  BY DEF Structs
<1>3. r.now[key] = new /\ \A k \in SettingKeys : k # key => r.now[k] = h.now[k]
  BY <1>1, <1>2
<1>4. \A k \in SettingKeys : r.now[k] \in ValuesOf(k) /\ StripSlash(k, r.now[k]) = r.now[k]
  BY <1>1, <1>3 DEF SettingsGood
<1>5. \A k \in SettingKeys : k # key => r.file[k] = h.file[k]
  BY <1>1, <1>2
<1>6. r.file[key] = Written(key, value) \/ r.file[key] = h.file[key]
  BY <1>1, <1>2
<1>7. \A k \in SettingKeys : StoredAs(k, r.file[k])
  BY <1>5, <1>6, <1>1, ValuesIn DEF SettingsGood
<1>8. value = h.now[key] => new = h.now[key]
  BY <1>1 DEF SettingsGood
<1>9. r.jukebox = <<>> \/ r.jukebox = Of(DOMAIN JukeboxSettings, r.now)
  <2>1. CASE r.jukebox = h.jukebox /\ (key \in DOMAIN JukeboxSettings => value = h.now[key])
    <3>1. \A k \in DOMAIN JukeboxSettings : r.now[k] = h.now[k]
      BY <1>3, <1>8, <2>1, KeysInTables
    <3>2. Of(DOMAIN JukeboxSettings, r.now) = Of(DOMAIN JukeboxSettings, h.now)
      BY <3>1 DEF Of
    <3> QED
      BY <2>1, <3>2 DEF SettingsGood
  <2> QED
    BY <2>1
<1>10. SettingsGood(r)
  BY <1>4, <1>7, <1>9 DEF SettingsGood
<1>11. SettingsSaved(h) => SettingsSaved(r) \/ (~r.ok /\ fails)
  <2>1. SUFFICES ASSUME SettingsSaved(h), r.file = [h.file EXCEPT ![key] = Written(key, value)]
                 PROVE  SettingsSaved(r)
    OBVIOUS
  <2>2. r.file[key] = Written(key, value) /\ r.now[key] = new
    BY <1>1, <1>2, <1>3, <2>1
  <2> QED
    BY <1>3, <1>5, <2>1, <2>2 DEF SettingsSaved
<1>12. r.connOptionsDue \/ \A k \in ConnectionOptions : r.now[k] = h.now[k]
  BY <1>3, <1>8, KeysInTables
<1>13. r.smartplsTimer = IntervalOf(r) \/ (r.smartplsTimer = h.smartplsTimer /\ IntervalOf(r) = IntervalOf(h))
  <2>1. CASE key = "smartplsInterval"
    <3>1. new = value
      BY <2>1 DEF StripSlash
    <3> QED
      BY <1>3, <2>1, <3>1 DEF IntervalOf
  <2>2. CASE key # "smartplsInterval"
    BY <1>3, <2>2, KeysInTables DEF IntervalOf
  <2> QED
    BY <2>1, <2>2
<1> QED
  BY <1>3, <1>10, <1>11, <1>12, <1>13 DEF SettingsMoved

\* the handlers, case by case: a key belongs to one of them
LEMMA SetKeyCases ==
  ASSUME NEW command, NEW h, NEW key, NEW value, NEW fails
  PROVE  \/ /\ command = "connection" /\ Accepts(ConnectionSettings, key, value)
            /\ SetKey(command, h, key, value, fails) = ConnectionSave(h, key, value, fails)
         \/ /\ command = "settings" /\ Accepts(GlobalSettings, key, value)
            /\ SetKey(command, h, key, value, fails) = GlobalSet(h, key, value, fails)
         \/ /\ command = "partition" /\ Accepts(PartitionSettings, key, value)
            /\ SetKey(command, h, key, value, fails) = PartitionSet(h, key, value, fails)
         \/ /\ command = "playback" /\ Accepts(PlaybackSettings, key, value)
            /\ SetKey(command, h, key, value, fails) = PlaybackSet(h, key, value, fails)
         \/ /\ command = "playback" /\ Accepts(MpdOptions, key, value)
            /\ SetKey(command, h, key, value, fails) = MpdOptionSet(h, key, value, fails)
         \/ /\ command = "view" /\ Accepts(ViewSettings, key, value)
            /\ SetKey(command, h, key, value, fails) = ViewSave(h, key, value, fails)
         \/ /\ command = "playback" /\ PassedOver(key, value)
            /\ SetKey(command, h, key, value, fails) = [h EXCEPT !.ok = ~fails]
         \/ /\ SetKey(command, h, key, value, fails) = [h EXCEPT !.ok = FALSE]
<1>1. ~(Accepts(PlaybackSettings, key, value) /\ Accepts(MpdOptions, key, value))
  BY TablesApart DEF Accepts
<1> QED
  BY <1>1 DEF SetKey

\* nothing that is kept has changed
LEMMA NothingMoved ==
  ASSUME NEW h \in Structs, SettingsGood(h), NEW command, NEW fails, NEW r \in Structs,
         r.now = h.now, r.file = h.file, \A k \in OptionKeys : r.options[k] \in MpdOptions[k].accepted,
         r.jukebox \in {<<>>, h.jukebox}, r.connOptionsDue = h.connOptionsDue,
         r.smartplsTimer = h.smartplsTimer
  PROVE  SettingsMoved(h, r, command, fails)
BY DEF SettingsGood, SettingsMoved, SettingsSaved, IntervalOf

(* What a handler accepts is a value, but for the placeholder.             *)
LEMMA AcceptedValue ==
  ASSUME NEW table, NEW key, NEW value, Accepts(table, key, value),
         AllSettings[key] = table[key], key \notin Passwords \/ value # Unset
  PROVE  value \in ValuesOf(key)
BY DEF Accepts, ValuesOf, Usable

LEMMA PasswordsIn == Passwords \subseteq DOMAIN ConnectionSettings
BY TableKeys DEF Passwords

(* The fields of the structs, and what holding and writing do to them.     *)
LEMMA StructFields == ASSUME NEW h \in Structs
  PROVE  /\ h = [now |-> h.now, file |-> h.file, ok |-> h.ok, options |-> h.options,
                 connOptionsDue |-> h.connOptionsDue, stickersFailed |-> h.stickersFailed,
                 smartplsTimer |-> h.smartplsTimer, jukebox |-> h.jukebox]
         /\ h.now \in [SettingKeys -> SettingValues] /\ h.file \in [SettingKeys -> FileTexts]
         /\ h.ok \in BOOLEAN
         /\ h.options \in [OptionKeys -> SettingValues] /\ h.connOptionsDue \in BOOLEAN
         /\ h.stickersFailed \in BOOLEAN /\ h.smartplsTimer \in SettingValues
         /\ h.jukebox \in {<<>>} \cup [DOMAIN JukeboxSettings -> SettingValues]
BY DEF Structs

LEMMA WriteFields ==
  ASSUME NEW h \in Structs, NEW key \in SettingKeys, NEW value \in ValuesOf(key), NEW fails \in BOOLEAN
  PROVE  LET r == Write(h, key, value, fails)
         IN  /\ r \in Structs
             /\ r.now = h.now /\ r.options = h.options /\ r.jukebox = h.jukebox
             /\ r.connOptionsDue = h.connOptionsDue /\ r.smartplsTimer = h.smartplsTimer
             /\ \/ r.file = [h.file EXCEPT ![key] = Written(key, value)]
                \/ r.file = h.file /\ ~r.ok /\ fails
<1>1. Written(key, value) \in FileTexts
  BY ValuesIn
<1>2. [h.file EXCEPT ![key] = Written(key, value)] \in [SettingKeys -> FileTexts]
  BY <1>1, StructFields
<1> QED
  BY <1>2 DEF Structs, Write

LEMMA HoldFields ==
  ASSUME NEW h \in Structs, NEW key \in SettingKeys, NEW value \in ValuesOf(key)
  PROVE  LET r == Hold(h, key, value)
         IN  /\ r \in Structs
             /\ r.now = [h.now EXCEPT ![key] = StripSlash(key, value)]
             /\ r.options = h.options /\ r.jukebox = h.jukebox /\ r.file = h.file
             /\ r.connOptionsDue = h.connOptionsDue /\ r.smartplsTimer = h.smartplsTimer
<1>1. StripSlash(key, value) \in SettingValues
  BY StrippedValue, ValuesIn
<1>2. [h.now EXCEPT ![key] = StripSlash(key, value)] \in [SettingKeys -> SettingValues]
  BY <1>1, StructFields
<1> QED
  BY <1>2 DEF Structs, Hold

(* Every key of every command moves the settings as it should, also if its *)
(* write fails.                                                            *)
LEMMA KeyMoves ==
  ASSUME NEW h \in Structs, SettingsGood(h), NEW command, NEW key, NEW value, NEW fails \in BOOLEAN
  PROVE  SettingsMoved(h, SetKey(command, h, key, value, fails), command, fails)
<1>0. SUFFICES ASSUME NEW r, r = SetKey(command, h, key, value, fails)
              PROVE  SettingsMoved(h, r, command, fails)
  OBVIOUS
<1>1. CASE command = "connection" /\ Accepts(ConnectionSettings, key, value)
           /\ r = ConnectionSave(h, key, value, fails)
  <2>1. CASE value = Unset
    <3>1. r = h
      BY <1>1, <2>1 DEF ConnectionSave, Unset
    <3> QED
      BY <3>1, NothingMoved DEF SettingsGood
  <2>2. CASE value # Unset
    <3>1. key \in SettingKeys /\ key \in KeysOf(command) /\ value \in ValuesOf(key)
      BY <1>1, <2>2, AcceptedValue, TablesIn DEF KeysOf, Accepts
    <3> DEFINE due  == key \in ConnectionOptions /\ value # h.now[key]
               held == EnableConnOptions(Hold(h, key, value), due)
               reset == [held EXCEPT !.stickersFailed =
                           @ \/ key \in {"stickerdbMpdTimeout", "stickerdbMpdKeepalive"}]
    <3>2. r = Write(reset, key, value, fails)
      BY <1>1, <2>2 DEF ConnectionSave, Unset
    <3>3. /\ reset \in Structs
          /\ reset.now = [h.now EXCEPT ![key] = StripSlash(key, value)]
          /\ reset.options = h.options /\ reset.jukebox = h.jukebox /\ reset.file = h.file
          /\ (h.connOptionsDue \/ due) => reset.connOptionsDue
          /\ reset.smartplsTimer = h.smartplsTimer
      <4>1. PICK g : g = Hold(h, key, value)
        OBVIOUS
      <4>2. /\ g \in Structs
            /\ g.now = [h.now EXCEPT ![key] = StripSlash(key, value)]
            /\ g.options = h.options /\ g.jukebox = h.jukebox /\ g.file = h.file
            /\ g.connOptionsDue = h.connOptionsDue /\ g.smartplsTimer = h.smartplsTimer
        BY <3>1, <4>1, HoldFields
      <4>3. due \in BOOLEAN
        OBVIOUS
      <4> HIDE DEF due
      <4> QED
        BY <4>1, <4>2, <4>3 DEF EnableConnOptions, Structs
    <3> HIDE DEF reset, held
    <3>4. /\ r \in Structs
          /\ r.now = reset.now /\ r.options = reset.options /\ r.jukebox = reset.jukebox
          /\ r.connOptionsDue = reset.connOptionsDue /\ r.smartplsTimer = reset.smartplsTimer
          /\ \/ r.file = [reset.file EXCEPT ![key] = Written(key, value)]
             \/ r.file = reset.file /\ ~r.ok /\ fails
      BY <3>1, <3>2, <3>3, WriteFields
    <3>5. key \notin DOMAIN JukeboxSettings /\ key # "smartplsInterval"
      BY <1>1, TablesApart, KeysInside DEF Accepts
    <3>6. /\ r \in Structs
          /\ r.now = [h.now EXCEPT ![key] = StripSlash(key, value)]
          /\ r.file = [h.file EXCEPT ![key] = Written(key, value)] \/ (r.file = h.file /\ ~r.ok /\ fails)
          /\ r.options = h.options
          /\ \/ r.jukebox = <<>>
             \/ r.jukebox = h.jukebox /\ (key \in DOMAIN JukeboxSettings => value = h.now[key])
          /\ h.connOptionsDue \/ (key \in ConnectionOptions /\ value # h.now[key]) => r.connOptionsDue
          /\ IF key = "smartplsInterval" /\ value # h.now[key] THEN r.smartplsTimer = value
             ELSE r.smartplsTimer = h.smartplsTimer
      BY <3>3, <3>4, <3>5
    <3> QED
      BY <3>1, <3>6, KeyMoved
  <2> QED
    BY <2>1, <2>2
<1>2. CASE command = "settings" /\ Accepts(GlobalSettings, key, value)
           /\ r = GlobalSet(h, key, value, fails)
  <2>1. key \in SettingKeys /\ key \in KeysOf(command) /\ value \in ValuesOf(key)
    BY <1>2, AcceptedValue, TablesIn, PasswordsIn, TablesApart DEF KeysOf, Accepts
  <2> DEFINE timed == IF key = "smartplsInterval" /\ value # h.now[key]
                      THEN [EnableConnOptions(Hold(h, key, value), key = "tagList")
                              EXCEPT !.smartplsTimer = value]
                      ELSE EnableConnOptions(Hold(h, key, value), key = "tagList")
  <2>2. r = Write(timed, key, value, fails)
    BY <1>2 DEF GlobalSet
  <2>3. /\ timed \in Structs
        /\ timed.now = [h.now EXCEPT ![key] = StripSlash(key, value)]
        /\ timed.options = h.options /\ timed.jukebox = h.jukebox /\ timed.file = h.file
        /\ h.connOptionsDue => timed.connOptionsDue
        /\ IF key = "smartplsInterval" /\ value # h.now[key] THEN timed.smartplsTimer = value
           ELSE timed.smartplsTimer = h.smartplsTimer
    <3>1. PICK g : g = Hold(h, key, value)
      OBVIOUS
    <3>2. /\ g \in Structs
          /\ g.now = [h.now EXCEPT ![key] = StripSlash(key, value)]
          /\ g.options = h.options /\ g.jukebox = h.jukebox /\ g.file = h.file
          /\ g.connOptionsDue = h.connOptionsDue /\ g.smartplsTimer = h.smartplsTimer
      BY <2>1, <3>1, HoldFields
    <3>3. value \in SettingValues
      BY <2>1, ValuesIn
    <3> QED
      BY <3>1, <3>2, <3>3 DEF EnableConnOptions, Structs
  <2> HIDE DEF timed
  <2>4. /\ r \in Structs
        /\ r.now = timed.now /\ r.options = timed.options /\ r.jukebox = timed.jukebox
        /\ r.connOptionsDue = timed.connOptionsDue /\ r.smartplsTimer = timed.smartplsTimer
        /\ \/ r.file = [timed.file EXCEPT ![key] = Written(key, value)]
           \/ r.file = timed.file /\ ~r.ok /\ fails
    BY <2>1, <2>2, <2>3, WriteFields
  <2>5. key \notin DOMAIN JukeboxSettings /\ key \notin ConnectionOptions
    BY <1>2, TablesApart, KeysInside DEF Accepts
  <2>6. /\ r \in Structs
        /\ r.now = [h.now EXCEPT ![key] = StripSlash(key, value)]
        /\ r.file = [h.file EXCEPT ![key] = Written(key, value)] \/ (r.file = h.file /\ ~r.ok /\ fails)
        /\ r.options = h.options
        /\ \/ r.jukebox = <<>>
           \/ r.jukebox = h.jukebox /\ (key \in DOMAIN JukeboxSettings => value = h.now[key])
        /\ h.connOptionsDue \/ (key \in ConnectionOptions /\ value # h.now[key]) => r.connOptionsDue
        /\ IF key = "smartplsInterval" /\ value # h.now[key] THEN r.smartplsTimer = value
           ELSE r.smartplsTimer = h.smartplsTimer
    BY <2>3, <2>4, <2>5
  <2> QED
    BY <2>1, <2>6, KeyMoved
<1>3. ASSUME key \in KeysOf(command), key \in SettingKeys, value \in ValuesOf(key),
             key \notin DOMAIN JukeboxSettings, key \notin ConnectionOptions, key # "smartplsInterval",
             r = Write(Hold(h, key, value), key, value, fails)
      PROVE  SettingsMoved(h, r, command, fails)
  <2>1. PICK g : g = Hold(h, key, value)
    OBVIOUS
  <2>2. /\ g \in Structs
        /\ g.now = [h.now EXCEPT ![key] = StripSlash(key, value)]
        /\ g.options = h.options /\ g.jukebox = h.jukebox /\ g.file = h.file
        /\ g.connOptionsDue = h.connOptionsDue /\ g.smartplsTimer = h.smartplsTimer
    BY <1>3, <2>1, HoldFields
  <2>3. /\ r \in Structs
        /\ r.now = g.now /\ r.options = g.options /\ r.jukebox = g.jukebox
        /\ r.connOptionsDue = g.connOptionsDue /\ r.smartplsTimer = g.smartplsTimer
        /\ \/ r.file = [g.file EXCEPT ![key] = Written(key, value)]
           \/ r.file = g.file /\ ~r.ok /\ fails
    BY <1>3, <2>1, <2>2, WriteFields
  <2>4. /\ r \in Structs
        /\ r.now = [h.now EXCEPT ![key] = StripSlash(key, value)]
        /\ r.file = [h.file EXCEPT ![key] = Written(key, value)] \/ (r.file = h.file /\ ~r.ok /\ fails)
        /\ r.options = h.options
        /\ \/ r.jukebox = <<>>
           \/ r.jukebox = h.jukebox /\ (key \in DOMAIN JukeboxSettings => value = h.now[key])
        /\ h.connOptionsDue \/ (key \in ConnectionOptions /\ value # h.now[key]) => r.connOptionsDue
        /\ IF key = "smartplsInterval" /\ value # h.now[key] THEN r.smartplsTimer = value
           ELSE r.smartplsTimer = h.smartplsTimer
    BY <1>3, <2>2, <2>3
  <2> QED
    BY <1>3, <2>4, KeyMoved
<1>4. CASE command = "partition" /\ Accepts(PartitionSettings, key, value)
           /\ r = PartitionSet(h, key, value, fails)
  <2>1. key \in SettingKeys /\ key \in KeysOf(command) /\ value \in ValuesOf(key)
    BY <1>4, AcceptedValue, TablesIn, PasswordsIn, TablesApart DEF KeysOf, Accepts
  <2>2. key \notin DOMAIN JukeboxSettings /\ key \notin ConnectionOptions /\ key # "smartplsInterval"
    BY <1>4, TablesApart, KeysInside DEF Accepts
  <2> QED
    BY <1>3, <1>4, <2>1, <2>2 DEF PartitionSet
<1>5. CASE command = "view" /\ Accepts(ViewSettings, key, value)
           /\ r = ViewSave(h, key, value, fails)
  <2>1. key \in SettingKeys /\ key \in KeysOf(command) /\ value \in ValuesOf(key)
    BY <1>5, AcceptedValue, TablesIn, PasswordsIn, TablesApart DEF KeysOf, Accepts
  <2>2. key \notin DOMAIN JukeboxSettings /\ key \notin ConnectionOptions /\ key # "smartplsInterval"
    BY <1>5, TablesApart, KeysInside DEF Accepts
  <2> QED
    BY <1>3, <1>5, <2>1, <2>2 DEF ViewSave
<1>6. CASE command = "playback" /\ Accepts(PlaybackSettings, key, value)
           /\ r = PlaybackSet(h, key, value, fails)
  <2>1. key \in SettingKeys /\ key \in KeysOf(command) /\ value \in ValuesOf(key)
    BY <1>6, AcceptedValue, TablesIn, PasswordsIn, TablesApart DEF KeysOf, Accepts
  <2> DEFINE cleared == IF key \in DOMAIN JukeboxSettings /\ value # h.now[key]
                        THEN [Hold(h, key, value) EXCEPT !.jukebox = <<>>] ELSE Hold(h, key, value)
  <2>2. r = Write(cleared, key, value, fails)
    BY <1>6 DEF PlaybackSet
  <2>3. /\ cleared \in Structs
        /\ cleared.now = [h.now EXCEPT ![key] = StripSlash(key, value)]
        /\ cleared.options = h.options /\ cleared.file = h.file
        /\ \/ cleared.jukebox = <<>>
           \/ cleared.jukebox = h.jukebox /\ (key \in DOMAIN JukeboxSettings => value = h.now[key])
        /\ cleared.connOptionsDue = h.connOptionsDue
        /\ cleared.smartplsTimer = h.smartplsTimer
    <3>1. PICK g : g = Hold(h, key, value)
      OBVIOUS
    <3>2. /\ g \in Structs
          /\ g.now = [h.now EXCEPT ![key] = StripSlash(key, value)]
          /\ g.options = h.options /\ g.jukebox = h.jukebox /\ g.file = h.file
          /\ g.connOptionsDue = h.connOptionsDue /\ g.smartplsTimer = h.smartplsTimer
      BY <2>1, <3>1, HoldFields
    <3> QED
      BY <3>1, <3>2 DEF Structs
  <2> HIDE DEF cleared
  <2>4. /\ r \in Structs
        /\ r.now = cleared.now /\ r.options = cleared.options /\ r.jukebox = cleared.jukebox
        /\ r.connOptionsDue = cleared.connOptionsDue /\ r.smartplsTimer = cleared.smartplsTimer
        /\ \/ r.file = [cleared.file EXCEPT ![key] = Written(key, value)]
           \/ r.file = cleared.file /\ ~r.ok /\ fails
    BY <2>1, <2>2, <2>3, WriteFields
  <2>5. key \notin ConnectionOptions /\ key # "smartplsInterval"
    BY <1>6, TablesApart, KeysInside DEF Accepts
  <2>6. /\ r \in Structs
        /\ r.now = [h.now EXCEPT ![key] = StripSlash(key, value)]
        /\ r.file = [h.file EXCEPT ![key] = Written(key, value)] \/ (r.file = h.file /\ ~r.ok /\ fails)
        /\ r.options = h.options
        /\ \/ r.jukebox = <<>>
           \/ r.jukebox = h.jukebox /\ (key \in DOMAIN JukeboxSettings => value = h.now[key])
        /\ h.connOptionsDue \/ (key \in ConnectionOptions /\ value # h.now[key]) => r.connOptionsDue
        /\ IF key = "smartplsInterval" /\ value # h.now[key] THEN r.smartplsTimer = value
           ELSE r.smartplsTimer = h.smartplsTimer
    BY <2>3, <2>4, <2>5
  <2> QED
    BY <2>1, <2>6, KeyMoved
<1>7. CASE r = [h EXCEPT !.ok = FALSE]
  <2>1. /\ r \in Structs
        /\ r.now = h.now /\ r.file = h.file /\ r.options = h.options /\ r.jukebox = h.jukebox
        /\ r.connOptionsDue = h.connOptionsDue /\ r.smartplsTimer = h.smartplsTimer
    BY <1>7 DEF Structs
  <2> QED
    BY <2>1, NothingMoved DEF SettingsGood
<1>9. CASE r = [h EXCEPT !.ok = ~fails]
  <2>1. /\ r \in Structs
        /\ r.now = h.now /\ r.file = h.file /\ r.options = h.options /\ r.jukebox = h.jukebox
        /\ r.connOptionsDue = h.connOptionsDue /\ r.smartplsTimer = h.smartplsTimer
    BY <1>9 DEF Structs
  <2> QED
    BY <2>1, NothingMoved DEF SettingsGood
<1>8. CASE command = "playback" /\ Accepts(MpdOptions, key, value)
           /\ r = MpdOptionSet(h, key, value, fails)
  <2>1. CASE fails
    BY <1>7, <1>8, <2>1 DEF MpdOptionSet
  <2>2. CASE ~fails
    <3>1. key \in OptionKeys /\ value \in MpdOptions[key].accepted /\ value \in SettingValues
      BY <1>8 DEF Accepts, OptionKeys, SettingValues
    <3>2. r = [h EXCEPT !.options = [h.options EXCEPT ![key] = value]]
      BY <1>8, <2>2 DEF MpdOptionSet
    <3>3. [h.options EXCEPT ![key] = value] \in [OptionKeys -> SettingValues]
      BY <3>1, StructFields
    <3>4. /\ r \in Structs
          /\ r.now = h.now /\ r.file = h.file /\ r.options = [h.options EXCEPT ![key] = value]
          /\ r.jukebox = h.jukebox
          /\ r.connOptionsDue = h.connOptionsDue /\ r.smartplsTimer = h.smartplsTimer
      BY <3>2, <3>3 DEF Structs
    <3>5. \A k \in OptionKeys : r.options[k] \in MpdOptions[k].accepted
      BY <3>1, <3>4, StructFields DEF SettingsGood
    <3> QED
      BY <3>4, <3>5, NothingMoved
  <2> QED
    BY <2>1, <2>2
<1> QED
  <2>1. \/ command = "connection" /\ Accepts(ConnectionSettings, key, value)
             /\ r = ConnectionSave(h, key, value, fails)
        \/ command = "settings" /\ Accepts(GlobalSettings, key, value)
             /\ r = GlobalSet(h, key, value, fails)
        \/ command = "partition" /\ Accepts(PartitionSettings, key, value)
             /\ r = PartitionSet(h, key, value, fails)
        \/ command = "playback" /\ Accepts(PlaybackSettings, key, value)
             /\ r = PlaybackSet(h, key, value, fails)
        \/ command = "playback" /\ Accepts(MpdOptions, key, value)
             /\ r = MpdOptionSet(h, key, value, fails)
        \/ command = "view" /\ Accepts(ViewSettings, key, value)
             /\ r = ViewSave(h, key, value, fails)
        \/ r = [h EXCEPT !.ok = ~fails]
        \/ r = [h EXCEPT !.ok = FALSE]
    BY <1>0, SetKeyCases
  <2> QED
    BY <1>1, <1>2, <1>4, <1>5, <1>6, <1>7, <1>8, <1>9, <2>1

(* One key after the other.                                                *)
LEMMA MovedOn ==
  ASSUME NEW h \in Structs, NEW s \in Structs, NEW command, NEW wrong \in BOOLEAN, NEW fails,
         SettingsMoved(h, s, command, wrong), s.ok,
         NEW r, SettingsMoved(s, r, command, fails), fails => wrong
  PROVE  SettingsMoved(h, r, command, wrong)
<1>1. r \in Structs /\ SettingsGood(r)
  BY DEF SettingsMoved
<1>2. \A k \in SettingKeys \ KeysOf(command) : r.now[k] = h.now[k]
  BY DEF SettingsMoved
<1>3. SettingsSaved(h) => SettingsSaved(r) \/ (~r.ok /\ wrong)
  BY DEF SettingsMoved
<1>4. r.connOptionsDue \/ \A k \in ConnectionOptions : r.now[k] = h.now[k]
  BY DEF SettingsMoved
<1>5. h.connOptionsDue => r.connOptionsDue
  BY DEF SettingsMoved
<1>6. r.smartplsTimer = IntervalOf(r) \/ (r.smartplsTimer = h.smartplsTimer /\ IntervalOf(r) = IntervalOf(h))
  BY DEF SettingsMoved
<1> QED
  BY <1>1, <1>2, <1>3, <1>4, <1>5, <1>6 DEF SettingsMoved

(* A command leaves values of their kind, the settings of other commands   *)
(* alone, and says so if a write failed.                                   *)
LEMMA CommandMoves ==
  ASSUME NEW h \in Structs, SettingsGood(h), NEW command, NEW P, NEW pairs \in Seq(P), NEW failed
  PROVE  SettingsMoved(h, Iterate(command, h, pairs, failed), command, failed # 0)
<1> DEFINE G == {s \in Structs : SettingsGood(s) /\ SettingsMoved(h, s, command, failed # 0)}
<1>1. h \in G
  BY NothingMoved DEF SettingsGood
<1>2. ASSUME NEW s \in G, NEW i \in DOMAIN pairs, s.ok
      PROVE  SetKey(command, s, pairs[i][1], pairs[i][2], i = failed) \in G
  <2>1. PICK r : r = SetKey(command, s, pairs[i][1], pairs[i][2], i = failed)
    OBVIOUS
  <2>2. i \in Nat \ {0}
    OBVIOUS
  <2>3. SettingsMoved(s, r, command, i = failed)
    BY <2>1, KeyMoves
  <2>4. SettingsMoved(h, r, command, failed # 0)
    <3>1. (i = failed) => (failed # 0)
      BY <2>2
    <3> QED
      BY <1>2, <2>3, <3>1, MovedOn
  <2> QED
    BY <2>1, <2>3, <2>4 DEF SettingsMoved
<1> HIDE DEF G
<1>3. Iterate(command, h, pairs, failed) \in G
  BY <1>1, <1>2, IterationStays
<1> QED
  BY <1>3 DEF G

(* The options of MPD have their defaults.                                 *)
LEMMA MpdOptionsProper == AllProper(MpdOptions)
<1> USE DEF AllProper, All, Setting, Same, ProperSetting, StripSlash, Written, Lost,
         Usable, Passwords, Unset, TagKeys
<1>1. AllProper(All({"random", "repeat"}, Same(Bools, "false")))
  BY DEF Bools
<1>2. AllProper(All({"single", "consume"}, Same(Bools \cup {"oneshot"}, "false")))
  BY DEF Bools
<1>3. AllProper(All({"crossfade", "mixrampDb", "mixrampDelay"}, Same({"zero", "n1", "n2"}, "zero")))
  OBVIOUS
<1>4. AllProper(All({"replaygain"}, Same({"off", "album"}, "off")))
  OBVIOUS
<1> HIDE DEF AllProper, All, Setting, Same
<1> QED
  BY <1>1, <1>2, <1>3, <1>4, JoinedProper DEF MpdOptions

LEMMA OptionDefaults == \A k \in OptionKeys : MpdOptions[k].default \in MpdOptions[k].accepted
BY MpdOptionsProper DEF OptionKeys, AllProper, ProperSetting, Usable

(* A start is good and has what the files say, or has just written them.   *)
LEMMA FreshIsGood ==
  ASSUME NEW file, DOMAIN file = SettingKeys,
         \A k \in SettingKeys : file[k] = "none" \/ StoredAs(k, file[k])
  PROVE  /\ Fresh(file) \in Structs /\ SettingsGood(Fresh(file)) /\ SettingsSaved(Fresh(file))
         /\ Fresh(file).smartplsTimer = "zero"
<1> DEFINE now == Reading(file)
           made == Created(file)
           options == [k \in OptionKeys |-> MpdOptions[k].default]
           h == Fresh(file)
<1>1. h = [now |-> now, file |-> made, ok |-> TRUE, options |-> options,
           connOptionsDue |-> FALSE, stickersFailed |-> FALSE, smartplsTimer |-> "zero",
           jukebox |-> <<>>]
  BY DEF Fresh, OptionKeys
<1>2. /\ now \in [SettingKeys -> UNION {ValuesOf(k) : k \in SettingKeys}]
      /\ \A k \in SettingKeys : now[k] \in ValuesOf(k) /\ StripSlash(k, now[k]) = now[k]
      /\ \A k \in SettingKeys : \A v \in ValuesOf(k) : file[k] = Written(k, v) =>
           Lost(file[k]) \/ now[k] = StripSlash(k, v)
  BY ReadingIsGood
<1>3. made = [k \in SettingKeys |-> IF file[k] = "none" THEN Written(k, now[k]) ELSE file[k]]
  BY DEF Created
<1> HIDE DEF now, made
<1>4. \A k \in SettingKeys : StoredAs(k, made[k])
  BY <1>2, <1>3 DEF StoredAs
<1>5. made \in [SettingKeys -> FileTexts]
  BY <1>3, <1>4, ValuesIn DEF StoredAs
<1>6. now \in [SettingKeys -> SettingValues]
  BY <1>2 DEF SettingValues
<1>7. /\ \A k \in OptionKeys : options[k] \in MpdOptions[k].accepted
      /\ options \in [OptionKeys -> SettingValues]
  BY OptionDefaults DEF SettingValues
<1>8. "zero" \in SettingValues
  BY DEF SettingValues
<1> HIDE DEF options, h
<1>9. h \in Structs
  BY <1>1, <1>5, <1>6, <1>7, <1>8 DEF Structs
<1>10. SettingsGood(h)
  BY <1>1, <1>2, <1>4, <1>7 DEF SettingsGood
<1>11. SettingsSaved(h)
  <2>1. SUFFICES ASSUME NEW k \in SettingKeys
                 PROVE  \/ Lost(made[k])
                        \/ \E v \in ValuesOf(k) : made[k] = Written(k, v) /\ now[k] = StripSlash(k, v)
    BY <1>1 DEF SettingsSaved
  <2>2. CASE file[k] = "none"
    BY <1>2, <1>3, <2>2
  <2>3. CASE file[k] # "none"
    <3>1. made[k] = file[k] /\ StoredAs(k, file[k])
      BY <1>3, <2>3
    <3>2. PICK v \in ValuesOf(k) : file[k] = Written(k, v)
      BY <3>1 DEF StoredAs
    <3> QED
      BY <1>2, <3>1, <3>2
  <2> QED
    BY <2>2, <2>3
<1> QED
  BY <1>1, <1>9, <1>10, <1>11 DEF h

\* what a command may carry
KeyValues == SettingPairs(SettingKeys \cup OptionKeys)
\* a connection is opened with a host and options
LinkShape ==
  \/ setLink = NoLink
  \/ \E host, options : \E has \in TagList :
       setLink = [up |-> TRUE, host |-> host, options |-> options, has |-> has]
\* the tag lists in force
FoundTags == setFound.tags \in [TagKeys -> TagList]
\* the connection, what was found and the webserver have the settings of now
FoundOf(now) == setFound = Detected(now, setLink.has)
WebOf(now) == setWeb = [settings |-> Of(WebKeys, now), dirs |-> Of(DirKeys, now)]
ConnectionInForce ==
  /\ ConnText(setLink.host) = ConnText(setHeld.now)
  /\ setLink.options = Of(ConnectionOptions, setHeld.now) \/ setHeld.connOptionsDue
  /\ FoundOf(setHeld.now) /\ WebOf(setHeld.now)

(* The inductive invariant.  Of the files it says that they have what is   *)
(* in use unless a write failed; of the timer of the smart playlists that  *)
(* only before the first connection it may not have the interval; and the  *)
(* connection is as configured unless a command failed half way.           *)
SettingsInv ==
  /\ setKeys \subseteq SettingKeys \cup OptionKeys
  /\ setHeld \in Structs /\ SettingsGood(setHeld) /\ setFile = setHeld.file
  /\ setPartial \in BOOLEAN /\ setUnsaved \in BOOLEAN
  /\ setUnsaved \/ SettingsSaved(setHeld)
  /\ setPreset \in Seq(KeyValues)
  /\ LinkShape /\ FoundTags
  /\ setHeld.smartplsTimer = IntervalOf(setHeld) \/ (~setLink.up /\ setHeld.smartplsTimer = "zero")
  /\ setLink.up /\ ~setPartial => ConnectionInForce

(* The tags of a list that are allowed: a tag list again, of which all are *)
(* allowed.                                                                *)
LEMMA WithinAgain ==
  ASSUME NEW list \in TagList, NEW allowed \in TagList
  PROVE  Within(list, allowed) \in TagList /\ Within(Within(list, allowed), allowed) = Within(list, allowed)
BY DEF Within, TagList

LEMMA TagValues ==
  ASSUME NEW h, SettingsGood(h) PROVE \A k \in TagKeys : k \in SettingKeys /\ h.now[k] \in TagList
<1>1. SUFFICES ASSUME NEW k \in TagKeys PROVE k \in SettingKeys /\ h.now[k] \in TagList
  OBVIOUS
<1>2. k \in SettingKeys
  BY KeysInTables
<1>3. ProperSetting(k, AllSettings[k])
  BY <1>2, SettingsProper DEF AllProper, SettingKeys
<1>4. k \notin Passwords
  BY DEF TagKeys, Passwords
<1>5. ValuesOf(k) = TagList
  BY <1>3, <1>4 DEF ProperSetting, ValuesOf, Usable
<1> QED
  BY <1>2, <1>5 DEF SettingsGood

LEMMA TagsFound ==
  ASSUME NEW h, SettingsGood(h), NEW has \in TagList
  PROVE  TagsInForce(h.now, has) \in [TagKeys -> TagList]
<1>1. "tagList" \in TagKeys
  BY DEF TagKeys
<1> QED
  BY <1>1, TagValues, WithinAgain DEF TagsInForce

LEMMA DetectionFinds ==
  ASSUME NEW h, SettingsGood(h), NEW has \in TagList, DetectFeatures(h.now, has) PROVE FoundTags'
BY TagsFound DEF DetectFeatures, Detected, FoundTags

(* To set a list to what is in force of it leaves in force what is.        *)
LEMMA TagsStay ==
  ASSUME NEW h, SettingsGood(h), NEW has \in TagList, NEW k \in TagKeys, NEW now,
         now = [h.now EXCEPT ![k] = TagsInForce(h.now, has)[k]], TagKeys \subseteq DOMAIN h.now
  PROVE  TagsInForce(now, has) = TagsInForce(h.now, has)
<1>1. "tagList" \in TagKeys
  BY DEF TagKeys
<1>2. PICK mine : mine = Within(h.now["tagList"], has)
  OBVIOUS
<1>3. mine \in TagList /\ Within(mine, has) = mine
  BY <1>1, <1>2, TagValues, WithinAgain
<1>4. TagsInForce(h.now, has) = [i \in TagKeys |-> IF i = "tagList" THEN mine ELSE Within(h.now[i], mine)]
  BY <1>2 DEF TagsInForce
<1>5. CASE k = "tagList"
  <2>1. now["tagList"] = mine /\ \A i \in TagKeys : i # "tagList" => now[i] = h.now[i]
    BY <1>1, <1>4, <1>5
  <2> QED
    BY <1>3, <1>4, <2>1 DEF TagsInForce
<1>6. CASE k # "tagList"
  <2>1. /\ now["tagList"] = h.now["tagList"] /\ now[k] = Within(h.now[k], mine)
        /\ \A i \in TagKeys : i # k => now[i] = h.now[i]
    BY <1>1, <1>4, <1>6
  <2>2. Within(now[k], mine) = Within(h.now[k], mine)
    BY <1>3, <2>1, TagValues, WithinAgain
  <2> QED
    BY <1>2, <1>4, <2>1, <2>2 DEF TagsInForce
<1> QED
  BY <1>5, <1>6

(* It holds after the start and after every restart.                       *)
LEMMA SettingsStart == SettingsInit => SettingsInv
<1>1. SUFFICES ASSUME SettingsInit PROVE SettingsInv
  OBVIOUS
<1> DEFINE none == [k \in SettingKeys |-> "none"]
<1>2. setHeld = Fresh(none) /\ setFile = setHeld.file
  BY <1>1 DEF SettingsInit, SettingKeys
<1>3. DOMAIN none = SettingKeys /\ \A k \in SettingKeys : none[k] = "none" \/ StoredAs(k, none[k])
  OBVIOUS
<1> HIDE DEF none
<1>4. /\ setHeld \in Structs /\ SettingsGood(setHeld) /\ SettingsSaved(setHeld)
      /\ setHeld.smartplsTimer = "zero"
  BY <1>2, <1>3, FreshIsGood
<1>5. setKeys \subseteq SettingKeys \cup OptionKeys
  BY <1>1, SettingsAssumption DEF SettingsInit, SettingKeys, OptionKeys
<1>6. LinkShape /\ ~setLink.up /\ FoundTags
  BY <1>1 DEF SettingsInit, LinkShape, NoLink, NoDetection, FoundTags, TagList
<1>7. setPreset \in Seq(KeyValues)
  <2>1. setPreset = <<>>
    BY <1>1 DEF SettingsInit
  <2> QED
    BY <2>1
<1>8. setPartial \in BOOLEAN /\ setUnsaved \in BOOLEAN
  BY <1>1 DEF SettingsInit
<1> QED
  BY <1>2, <1>4, <1>5, <1>6, <1>7, <1>8 DEF SettingsInv

LEMMA RestartKeepsSettings == SettingsInv /\ SettingsRestart => SettingsInv'
<1>1. SUFFICES ASSUME SettingsInv, SettingsRestart PROVE SettingsInv'
  OBVIOUS
<1>2. setHeld' = Fresh(setFile) /\ setFile' = setHeld'.file
  BY <1>1 DEF SettingsRestart
<1>3. DOMAIN setFile = SettingKeys /\ \A k \in SettingKeys : setFile[k] = "none" \/ StoredAs(k, setFile[k])
  BY <1>1 DEF SettingsInv, SettingsGood, Structs
<1>4. /\ setHeld' \in Structs /\ SettingsGood(setHeld') /\ SettingsSaved(setHeld')
      /\ setHeld'.smartplsTimer = "zero"
  BY <1>2, <1>3, FreshIsGood
<1>5. setKeys' \subseteq SettingKeys \cup OptionKeys
  BY <1>1 DEF SettingsRestart, SettingsInv
<1>6. LinkShape' /\ ~setLink'.up /\ FoundTags'
  BY <1>1 DEF SettingsRestart, LinkShape, NoLink, NoDetection, FoundTags, TagList
<1>7. setPreset' \in Seq(KeyValues)
  <2>1. setPreset' = <<>>
    BY <1>1 DEF SettingsRestart
  <2> QED
    BY <2>1
<1>8. setPartial' \in BOOLEAN /\ setUnsaved' \in BOOLEAN
  BY <1>1 DEF SettingsRestart
<1> QED
  BY <1>2, <1>4, <1>5, <1>6, <1>7, <1>8 DEF SettingsInv

(* What a command does after its keys leaves the settings alone.           *)
LEMMA MovedToo ==
  ASSUME NEW h, NEW d, NEW command, NEW wrong, SettingsMoved(h, d, command, wrong), NEW r \in Structs,
         r.now = d.now, r.file = d.file, r.ok = d.ok, r.options = d.options,
         r.connOptionsDue = d.connOptionsDue, r.smartplsTimer = d.smartplsTimer,
         r.jukebox \in {<<>>, d.jukebox}
  PROVE  SettingsMoved(h, r, command, wrong)
<1>1. SettingsGood(r)
  BY DEF SettingsMoved, SettingsGood
<1>2. SettingsSaved(r) <=> SettingsSaved(d)
  BY DEF SettingsSaved
<1> QED
  BY <1>1, <1>2 DEF SettingsMoved, IntervalOf

LEMMA DoneMoved ==
  ASSUME SettingsInv, NEW command, NEW pairs \in Seq(KeyValues), NEW failed
  PROVE  SettingsMoved(setHeld, Done(command, pairs, failed), command, failed # 0)
<1>1. PICK h : h = [setHeld EXCEPT !.ok = TRUE]
  OBVIOUS
<1>2. /\ h \in Structs
      /\ h.now = setHeld.now /\ h.file = setHeld.file /\ h.options = setHeld.options
      /\ h.jukebox = setHeld.jukebox /\ h.connOptionsDue = setHeld.connOptionsDue
      /\ h.smartplsTimer = setHeld.smartplsTimer
  BY <1>1 DEF SettingsInv, Structs
<1>3. SettingsGood(h)
  BY <1>2 DEF SettingsInv, SettingsGood
<1>4. PICK d : d = Done(command, pairs, failed)
  OBVIOUS
<1>5. SettingsMoved(h, d, command, failed # 0)
  BY <1>1, <1>2, <1>3, <1>4, CommandMoves DEF Done
<1>6. SettingsSaved(setHeld) <=> SettingsSaved(h)
  BY <1>2 DEF SettingsSaved
<1>7. SettingsMoved(setHeld, d, command, failed # 0)
  BY <1>2, <1>5, <1>6 DEF SettingsMoved, IntervalOf
<1> QED
  BY <1>4, <1>7

\* what every command keeps of the invariant
LEMMA ExecutedKeepsSettings ==
  ASSUME SettingsInv, NEW command, NEW pairs, NEW failed, NEW held,
         SettingsMoved(setHeld, held, command, failed # 0), SettingsExecuted(held, pairs, failed)
  PROVE  /\ setKeys' \subseteq SettingKeys \cup OptionKeys
         /\ setHeld' = held /\ held \in Structs /\ SettingsGood(held) /\ setFile' = held.file
         /\ setPartial' \in BOOLEAN /\ setUnsaved' \in BOOLEAN
         /\ setUnsaved' \/ SettingsSaved(held)
         /\ held.smartplsTimer = IntervalOf(held) \/ (~setLink.up /\ held.smartplsTimer = "zero")
         /\ ~setPartial' => ~setPartial /\ held.ok
<1>1. /\ setHeld' = held /\ setFile' = held.file /\ setKeys' = setKeys
      /\ setPartial' = (setPartial \/ ~held.ok)
      /\ setUnsaved' = (setUnsaved \/ (~held.ok /\ failed # 0))
  BY DEF SettingsExecuted
<1>2. held \in Structs /\ SettingsGood(held)
  BY DEF SettingsMoved
<1>3. setUnsaved' \/ SettingsSaved(held)
  BY <1>1 DEF SettingsInv, SettingsMoved
<1>4. setPartial' \in BOOLEAN /\ setUnsaved' \in BOOLEAN
  BY <1>1, <1>2, StructFields DEF SettingsInv
<1>5. held.smartplsTimer = IntervalOf(held) \/ (~setLink.up /\ held.smartplsTimer = "zero")
  BY DEF SettingsInv, SettingsMoved
<1> QED
  BY <1>1, <1>2, <1>3, <1>4, <1>5 DEF SettingsInv

\* the settings another command has are left alone
LEMMA OtherSettingsKept ==
  ASSUME NEW h, NEW r, NEW command, NEW wrong, SettingsMoved(h, r, command, wrong),
         NEW keys \in SUBSET SettingKeys, keys \cap KeysOf(command) = {}
  PROVE  Of(keys, r.now) = Of(keys, h.now) /\ \A k \in keys : r.now[k] = h.now[k]
BY DEF SettingsMoved, Of

(* What is joined and what is detected of the same settings.               *)
LEMMA HostText ==
  ASSUME NEW now, NEW other, \A k \in HostKeys : now[k] = other[k]
  PROVE  ConnText(now) = ConnText(other)
<1>1. now["mpdHost"] = other["mpdHost"] /\ now["mpdPort"] = other["mpdPort"]
      /\ now["mpdPass"] = other["mpdPass"]
  BY DEF HostKeys
<1> QED
  BY <1>1 DEF ConnText

LEMMA SameDetected ==
  ASSUME NEW now, NEW other, NEW has,
         \A k \in DirKeys \cup HostKeys : now[k] = other[k], \A k \in TagKeys : now[k] = other[k]
  PROVE  Detected(now, has) = Detected(other, has)
<1>1. Of(DirKeys, now) = Of(DirKeys, other)
  BY DEF Of
<1>2. now["tagList"] = other["tagList"]
  BY DEF TagKeys
<1>3. TagsInForce(now, has) = TagsInForce(other, has)
  BY <1>2 DEF TagsInForce
<1> QED
  BY <1>1, <1>3 DEF Detected

LEMMA OptionsComing ==
  ASSUME NEW h, NEW r, NEW command, NEW wrong, SettingsMoved(h, r, command, wrong), NEW options,
         options = Of(ConnectionOptions, h.now) \/ h.connOptionsDue
  PROVE  options = Of(ConnectionOptions, r.now) \/ r.connOptionsDue
BY DEF SettingsMoved, Of

(* The commands.                                                           *)
LEMMA ConnectionKeepsSettings ==
  ASSUME SettingsInv, NEW pairs \in Seq(KeyValues), NEW failed, SaveConnection(pairs, failed)
  PROVE  SettingsInv'
<1> DEFINE moved == ConnText(Done("connection", pairs, failed).now) # ConnText(setHeld.now)
<1>1. PICK done : done = Done("connection", pairs, failed)
  OBVIOUS
<1>2. PICK held : held = IF done.ok /\ StickerText(done.now) # StickerText(setHeld.now)
                         THEN [done EXCEPT !.stickersFailed = FALSE] ELSE done
  OBVIOUS
<1>3. SettingsMoved(setHeld, done, "connection", failed # 0)
  BY <1>1, DoneMoved
<1>4. /\ held \in Structs
      /\ held.now = done.now /\ held.file = done.file /\ held.ok = done.ok
      /\ held.options = done.options /\ held.connOptionsDue = done.connOptionsDue
      /\ held.smartplsTimer = done.smartplsTimer /\ held.jukebox = done.jukebox
  BY <1>2, <1>3 DEF SettingsMoved, Structs
<1>5. SettingsMoved(setHeld, held, "connection", failed # 0)
  BY <1>3, <1>4, MovedToo
<1>6. /\ SettingsExecuted(held, pairs, failed)
      /\ setLink' = IF done.ok /\ moved THEN NoLink ELSE setLink
      /\ IF done.ok /\ ~moved /\ setLink.up THEN DetectFeatures(done.now, setLink.has)
         ELSE setFound' = setFound
      /\ setPreset' = setPreset
  BY <1>1, <1>2 DEF SaveConnection
<1> HIDE DEF moved
<1>7. LinkShape' /\ FoundTags'
  <2>1. LinkShape'
    BY <1>6 DEF SettingsInv, LinkShape
  <2>2. setLink.up => setLink.has \in TagList
    BY DEF SettingsInv, LinkShape, NoLink
  <2>3. SettingsGood(done)
    BY <1>3 DEF SettingsMoved
  <2>4. CASE done.ok /\ ~moved /\ setLink.up
    BY <1>6, <2>1, <2>2, <2>3, <2>4, DetectionFinds
  <2>5. CASE ~(done.ok /\ ~moved /\ setLink.up)
    BY <1>6, <2>1, <2>5 DEF SettingsInv, FoundTags
  <2> QED
    BY <2>1, <2>4, <2>5
<1>8. ~setLink.up => ~setLink'.up
  BY <1>6 DEF NoLink
<1>9. setLink'.up /\ ~setPartial' => ConnectionInForce'
  <2>1. SUFFICES ASSUME setLink'.up, ~setPartial' PROVE ConnectionInForce'
    OBVIOUS
  <2>2. setHeld' = held /\ ~setPartial /\ held.ok
    BY <1>5, <1>6, <2>1, ExecutedKeepsSettings
  <2>3. setLink' = setLink /\ ~moved
    BY <1>4, <1>6, <2>1, <2>2 DEF NoLink
  <2>4. ConnectionInForce
    BY <2>1, <2>2, <2>3 DEF SettingsInv
  <2>5. ConnText(setLink'.host) = ConnText(held.now)
    BY <1>1, <1>4, <2>3, <2>4 DEF moved, ConnectionInForce
  <2>6. setLink'.options = Of(ConnectionOptions, held.now) \/ held.connOptionsDue
    BY <1>5, <2>3, <2>4, OptionsComing DEF ConnectionInForce
  <2>7. DetectFeatures(held.now, setLink'.has)
    BY <1>4, <1>6, <2>1, <2>2, <2>3
  <2> QED
    BY <2>2, <2>5, <2>6, <2>7 DEF ConnectionInForce, DetectFeatures, SettingsToWebserver, FoundOf, WebOf
<1>10. setPreset' \in Seq(KeyValues)
  BY <1>6 DEF SettingsInv
<1> QED
  BY <1>5, <1>6, <1>7, <1>8, <1>9, <1>10, ExecutedKeepsSettings DEF SettingsInv

LEMMA SaveKeepsSettings ==
  ASSUME SettingsInv, NEW command, NEW pairs \in Seq(KeyValues), NEW failed,
         SaveSettings(command, pairs, failed)
  PROVE  SettingsInv'
<1>1. PICK done : done = Done(command, pairs, failed)
  OBVIOUS
<1>2. SettingsMoved(setHeld, done, command, failed # 0)
  BY <1>1, DoneMoved
<1>3. /\ command \in {"settings", "partition"}
      /\ SettingsExecuted(done, pairs, failed)
      /\ done.ok /\ command = "settings" => DetectFeatures(done.now, setLink.has)
      /\ done.ok /\ command = "partition" => SettingsToWebserver(done.now, setFound.dirs)
      /\ ~(done.ok /\ command = "settings") => setFound' = setFound
      /\ setLink' = setLink /\ setPreset' = setPreset
  BY <1>1 DEF SaveSettings
<1>0. setHeld' = done /\ (~setPartial' => ~setPartial /\ done.ok)
  BY <1>2, <1>3, ExecutedKeepsSettings DEF SettingsInv
<1>4. setLink'.up /\ ~setPartial' => ConnectionInForce'
  <2>1. SUFFICES ASSUME setLink'.up, ~setPartial' PROVE ConnectionInForce'
    OBVIOUS
  <2>2. setHeld' = done /\ ~setPartial /\ done.ok
    BY <1>0, <2>1
  <2>3. ConnectionInForce
    BY <1>3, <2>1, <2>2 DEF SettingsInv
  <2>4. \A k \in HostKeys \cup DirKeys : done.now[k] = setHeld.now[k]
    <3>1. HostKeys \cup DirKeys \in SUBSET SettingKeys
      BY KeysInTables
    <3>2. (HostKeys \cup DirKeys) \cap KeysOf(command) = {}
      BY <1>3, KeysInside, TablesApart DEF KeysOf
    <3> QED
      BY <1>2, <3>1, <3>2, OtherSettingsKept
  <2>5. ConnText(setLink'.host) = ConnText(done.now)
    BY <1>3, <2>3, <2>4, HostText DEF ConnectionInForce
  <2>6. setLink'.options = Of(ConnectionOptions, done.now) \/ done.connOptionsDue
    BY <1>2, <1>3, <2>3, OptionsComing DEF ConnectionInForce
  <2>7. CASE command = "settings"
    BY <1>3, <2>2, <2>5, <2>6, <2>7 DEF ConnectionInForce, DetectFeatures, SettingsToWebserver, FoundOf, WebOf
  <2>8. CASE command = "partition"
    <3>1. /\ setFound' = setFound /\ FoundOf(setHeld.now)
          /\ setWeb' = [settings |-> Of(WebKeys, done.now), dirs |-> setFound.dirs]
      BY <1>3, <2>2, <2>3, <2>8 DEF ConnectionInForce, SettingsToWebserver
    <3>2. Detected(done.now, setLink.has) = Detected(setHeld.now, setLink.has)
      <4>1. \A k \in TagKeys : done.now[k] = setHeld.now[k]
        <5>1. TagKeys \in SUBSET SettingKeys
          BY KeysInTables
        <5>2. TagKeys \cap KeysOf(command) = {}
          BY <2>8, KeysInside, TablesApart DEF KeysOf
        <5> QED
          BY <1>2, <5>1, <5>2, OtherSettingsKept
      <4> QED
        BY <2>4, <4>1, SameDetected
    <3>3. setFound.dirs = Of(DirKeys, done.now)
      BY <3>1, <3>2 DEF FoundOf, Detected
    <3>4. FoundOf(done.now)' /\ WebOf(done.now)'
      BY <1>3, <3>1, <3>2, <3>3 DEF FoundOf, WebOf
    <3> QED
      BY <2>2, <2>5, <2>6, <3>4 DEF ConnectionInForce, FoundOf, WebOf
  <2> QED
    BY <1>3, <2>7, <2>8
<1>5. setPreset' \in Seq(KeyValues) /\ LinkShape' /\ FoundTags'
  <2>1. setPreset' \in Seq(KeyValues) /\ LinkShape'
    BY <1>3 DEF SettingsInv, LinkShape
  <2>2. setLink.has \in TagList
    BY DEF SaveSettings, SettingsInv, LinkShape, NoLink
  <2>3. CASE done.ok /\ command = "settings"
    BY <1>2, <1>3, <2>1, <2>2, <2>3, DetectionFinds DEF SettingsMoved
  <2>4. CASE ~(done.ok /\ command = "settings")
    <3>1. setFound' = setFound
      BY <1>3, <2>4 DEF SettingsToWebserver
    <3> QED
      BY <2>1, <3>1 DEF SettingsInv, FoundTags
  <2> QED
    BY <2>1, <2>3, <2>4
<1> QED
  BY <1>2, <1>3, <1>4, <1>5, ExecutedKeepsSettings DEF SettingsInv

\* commands whose settings neither the connection nor the webserver has
LEMMA ElsewhereKeepsSettings ==
  ASSUME SettingsInv, NEW command \in {"view", "playback"}, NEW pairs, NEW failed, NEW held,
         SettingsMoved(setHeld, held, command, failed # 0), SettingsExecuted(held, pairs, failed),
         setPreset' \in Seq(KeyValues), UNCHANGED <<setLink, setFound, setWeb>>
  PROVE  SettingsInv'
<1>0. setHeld' = held /\ (~setPartial' => ~setPartial /\ held.ok)
  BY ExecutedKeepsSettings DEF SettingsInv
<1>1. setLink'.up /\ ~setPartial' => ConnectionInForce'
  <2>1. SUFFICES ASSUME setLink'.up, ~setPartial' PROVE ConnectionInForce'
    OBVIOUS
  <2>2. setHeld' = held /\ ~setPartial /\ held.ok
    BY <1>0, <2>1
  <2>3. ConnectionInForce
    BY <2>1, <2>2 DEF SettingsInv
  <2> DEFINE told == HostKeys \cup WebKeys \cup DirKeys \cup TagKeys
  <2>4. \A k \in told : held.now[k] = setHeld.now[k]
    <3>1. told \in SUBSET SettingKeys
      BY KeysInTables
    <3>2. told \cap KeysOf(command) = {}
      BY KeysInside, TablesApart DEF KeysOf
    <3> QED
      BY <3>1, <3>2, OtherSettingsKept
  <2>5. ConnText(setLink'.host) = ConnText(held.now)
    BY <2>3, <2>4, HostText DEF ConnectionInForce
  <2>6. FoundOf(held.now)' /\ WebOf(held.now)'
    <3>1. Detected(held.now, setLink.has) = Detected(setHeld.now, setLink.has)
      BY <2>4, SameDetected
    <3>2. Of(WebKeys, held.now) = Of(WebKeys, setHeld.now) /\ Of(DirKeys, held.now) = Of(DirKeys, setHeld.now)
      BY <2>4 DEF Of
    <3> QED
      BY <2>3, <3>1, <3>2 DEF ConnectionInForce, FoundOf, WebOf
  <2>7. setLink'.options = Of(ConnectionOptions, held.now) \/ held.connOptionsDue
    BY <2>3, OptionsComing DEF ConnectionInForce
  <2> QED
    BY <2>2, <2>5, <2>6, <2>7 DEF ConnectionInForce, FoundOf, WebOf
<1>2. LinkShape' /\ FoundTags'
  BY DEF SettingsInv, LinkShape, FoundTags
<1> QED
  BY <1>1, <1>2, ExecutedKeepsSettings DEF SettingsInv

LEMMA SaveViewKeepsSettings ==
  ASSUME SettingsInv, NEW pairs \in Seq(KeyValues), NEW failed, SaveView(pairs, failed)
  PROVE  SettingsInv'
<1>1. PICK done : done = Done("view", pairs, failed)
  OBVIOUS
<1>2. SettingsMoved(setHeld, done, "view", failed # 0)
  BY <1>1, DoneMoved
<1>3. setPreset' \in Seq(KeyValues)
  BY DEF SaveView, SettingsInv
<1>4. SettingsExecuted(done, pairs, failed) /\ UNCHANGED <<setLink, setFound, setWeb>>
  BY <1>1 DEF SaveView
<1> QED
  BY <1>2, <1>3, <1>4, ElsewhereKeepsSettings

LEMMA PlayerKeepsSettings ==
  ASSUME SettingsInv, NEW pairs \in Seq(KeyValues), NEW failed, NEW name,
         SetPlayerOptions(pairs, failed, name)
  PROVE  SettingsInv'
<1>1. PICK done : done = Done("playback", pairs, failed)
  OBVIOUS
<1>2. PICK held : held = IF done.ok /\ done.now["jukeboxMode"] = "off"
                         THEN [done EXCEPT !.jukebox = <<>>] ELSE done
  OBVIOUS
<1>3. SettingsMoved(setHeld, done, "playback", failed # 0)
  BY <1>1, DoneMoved
<1>4. /\ held \in Structs
      /\ held.now = done.now /\ held.file = done.file /\ held.ok = done.ok
      /\ held.options = done.options /\ held.connOptionsDue = done.connOptionsDue
      /\ held.smartplsTimer = done.smartplsTimer /\ held.jukebox \in {<<>>, done.jukebox}
  BY <1>2, <1>3 DEF SettingsMoved, Structs
<1>5. SettingsMoved(setHeld, held, "playback", failed # 0)
  BY <1>3, <1>4, MovedToo
<1>6. setPreset' \in Seq(KeyValues)
  BY DEF SetPlayerOptions, SettingsInv
<1>7. SettingsExecuted(held, pairs, failed) /\ UNCHANGED <<setLink, setFound, setWeb>>
  BY <1>1, <1>2 DEF SetPlayerOptions
<1> QED
  BY <1>5, <1>6, <1>7, ElsewhereKeepsSettings

LEMMA PresetKeepsSettings ==
  ASSUME SettingsInv, NEW failed, ApplyPreset(failed)
  PROVE  SettingsInv'
<1>1. PICK done : done = Done("playback", setPreset, failed)
  OBVIOUS
<1>2. SettingsMoved(setHeld, done, "playback", failed # 0)
  BY <1>1, DoneMoved DEF SettingsInv
<1>3. setPreset' \in Seq(KeyValues)
  BY DEF ApplyPreset, SettingsInv
<1>4. SettingsExecuted(done, setPreset, failed) /\ UNCHANGED <<setLink, setFound, setWeb>>
  BY <1>1 DEF ApplyPreset
<1> QED
  BY <1>2, <1>3, <1>4, ElsewhereKeepsSettings

\* a step that keeps the settings, the files and the options
LEMMA QuietKeepsSettings ==
  ASSUME SettingsInv, setHeld' \in Structs,
         setHeld'.now = setHeld.now, setHeld'.file = setHeld.file, setHeld'.options = setHeld.options,
         \/ setHeld'.jukebox = setHeld.jukebox
         \/ setHeld'.jukebox = Of(DOMAIN JukeboxSettings, setHeld.now),
         UNCHANGED <<setFile, setPreset, setKeys, setPartial, setUnsaved>>,
         LinkShape', FoundTags',
         \/ setHeld'.smartplsTimer = IntervalOf(setHeld)
         \/ setHeld'.smartplsTimer = setHeld.smartplsTimer /\ (setLink'.up => setLink.up),
         setLink'.up /\ ~setPartial => ConnectionInForce'
  PROVE  SettingsInv'
<1>1. SettingsGood(setHeld')
  BY DEF SettingsInv, SettingsGood
<1>2. setUnsaved' \/ SettingsSaved(setHeld')
  BY DEF SettingsInv, SettingsSaved
<1>3. setHeld'.smartplsTimer = IntervalOf(setHeld') \/ (~setLink'.up /\ setHeld'.smartplsTimer = "zero")
  BY DEF SettingsInv, IntervalOf
<1> QED
  BY <1>1, <1>2, <1>3 DEF SettingsInv

(* The steps of the connection and of the jukebox.                         *)
LEMMA ConnectKeepsSettings == ASSUME SettingsInv, SettingsConnect PROVE SettingsInv'
<1>1. PICK timer : timer = IF setHeld.now["smartplsInterval"] # "zero" THEN setHeld.now["smartplsInterval"]
                           ELSE setHeld.smartplsTimer
  OBVIOUS
<1>2. /\ setHeld' = [setHeld EXCEPT !.smartplsTimer = timer]
      /\ UNCHANGED <<setFile, setPreset, setKeys, setPartial, setUnsaved>>
  BY <1>1 DEF SettingsConnect
<1>7. PICK has \in TagList : setLink' = LinkOf(setHeld.now, has) /\ DetectFeatures(setHeld.now, has)
  BY DEF SettingsConnect, TagList
<1>3. timer = IntervalOf(setHeld)
  BY <1>1 DEF SettingsInv, IntervalOf
<1>4. timer \in SettingValues
  BY <1>3, KeysInTables, StructFields DEF SettingsInv, IntervalOf
<1>5. /\ setHeld' \in Structs /\ setHeld'.smartplsTimer = timer
      /\ setHeld'.now = setHeld.now /\ setHeld'.file = setHeld.file /\ setHeld'.options = setHeld.options
      /\ setHeld'.jukebox = setHeld.jukebox
  BY <1>2, <1>4 DEF SettingsInv, Structs
<1>6. LinkShape' /\ FoundTags'
  BY <1>7, DetectionFinds DEF LinkShape, LinkOf, SettingsInv
<1>8. setLink'.host = Of(HostKeys, setHeld.now) /\ setLink'.has = has
      /\ setLink'.options = Of(ConnectionOptions, setHeld.now)
  BY <1>7 DEF LinkOf
<1>9. ConnText(Of(HostKeys, setHeld.now)) = ConnText(setHeld.now)
  BY HostText DEF Of
<1>10. ConnectionInForce'
  BY <1>5, <1>7, <1>8, <1>9 DEF ConnectionInForce, DetectFeatures, SettingsToWebserver, FoundOf, WebOf
<1> QED
  BY <1>2, <1>3, <1>5, <1>6, <1>10, QuietKeepsSettings

LEMMA OptionsKeepSettings == ASSUME SettingsInv, SetConnectionOptions PROVE SettingsInv'
<1>1. /\ setLink.up
      /\ setLink' = [setLink EXCEPT !.options = Of(ConnectionOptions, setHeld.now)]
      /\ setHeld' = [setHeld EXCEPT !.connOptionsDue = FALSE]
      /\ UNCHANGED <<setFile, setFound, setWeb, setPreset, setKeys, setPartial, setUnsaved>>
  BY DEF SetConnectionOptions
<1>2. PICK host, options : \E has \in TagList :
        setLink = [up |-> TRUE, host |-> host, options |-> options, has |-> has]
  BY <1>1 DEF SettingsInv, LinkShape, NoLink
<1>7. PICK has \in TagList : setLink = [up |-> TRUE, host |-> host, options |-> options, has |-> has]
  BY <1>2
<1>3. setLink' = [up |-> TRUE, host |-> host, options |-> Of(ConnectionOptions, setHeld.now), has |-> has]
  BY <1>1, <1>7
<1>4. /\ setHeld' \in Structs /\ setHeld'.smartplsTimer = setHeld.smartplsTimer
      /\ setHeld'.now = setHeld.now /\ setHeld'.file = setHeld.file /\ setHeld'.options = setHeld.options
      /\ setHeld'.jukebox = setHeld.jukebox
  BY <1>1 DEF SettingsInv, Structs
<1>5. LinkShape' /\ FoundTags'
  <2>1. FoundTags'
    BY <1>1 DEF FoundTags, SettingsInv
  <2>2. LinkShape'
    BY <1>3 DEF LinkShape
  <2> QED
    BY <2>1, <2>2
<1>6. ~setPartial => ConnectionInForce'
  BY <1>1, <1>7, <1>3, <1>4 DEF SettingsInv, ConnectionInForce, FoundOf, WebOf
<1> QED
  BY <1>1, <1>4, <1>5, <1>6, QuietKeepsSettings

LEMMA DisconnectKeepsSettings == ASSUME SettingsInv, SettingsDisconnected PROVE SettingsInv'
<1>1. /\ setLink' = NoLink
      /\ UNCHANGED <<setHeld, setFile, setFound, setWeb, setPreset, setKeys, setPartial, setUnsaved>>
  BY DEF SettingsDisconnected
<1>2. LinkShape' /\ ~setLink'.up /\ FoundTags'
  BY <1>1 DEF LinkShape, NoLink, FoundTags, SettingsInv
<1> QED
  BY <1>1, <1>2, QuietKeepsSettings DEF SettingsInv

LEMMA FillKeepsSettings == ASSUME SettingsInv, FillJukebox PROVE SettingsInv'
<1>1. /\ setHeld' = [setHeld EXCEPT !.jukebox = Of(DOMAIN JukeboxSettings, setHeld.now)]
      /\ UNCHANGED <<setFile, setLink, setFound, setWeb, setPreset, setKeys, setPartial, setUnsaved>>
  BY DEF FillJukebox
<1>2. PICK songs : songs = Of(DOMAIN JukeboxSettings, setHeld.now)
  OBVIOUS
<1>3. songs \in [DOMAIN JukeboxSettings -> SettingValues]
  BY <1>2, KeysInTables, StructFields DEF SettingsInv, Of
<1>4. /\ setHeld' \in Structs /\ setHeld'.smartplsTimer = setHeld.smartplsTimer
      /\ setHeld'.now = setHeld.now /\ setHeld'.file = setHeld.file /\ setHeld'.options = setHeld.options
      /\ setHeld'.connOptionsDue = setHeld.connOptionsDue
      /\ setHeld'.jukebox = songs
  BY <1>1, <1>2, <1>3 DEF SettingsInv, Structs
<1>5. LinkShape' /\ FoundTags'
  BY <1>1 DEF SettingsInv, LinkShape, FoundTags
<1>6. setLink'.up /\ ~setPartial => ConnectionInForce'
  BY <1>1, <1>4 DEF SettingsInv, ConnectionInForce, FoundOf, WebOf
<1> QED
  BY <1>1, <1>2, <1>4, <1>5, <1>6, QuietKeepsSettings

(* Every step keeps the invariant.                                         *)
LEMMA CommandKeepsSettings == ASSUME SettingsInv, SettingsCommand PROVE SettingsInv'
<1>1. CASE \E failed \in 0..2 : ApplyPreset(failed)
  BY <1>1, PresetKeepsSettings
<1>2. ASSUME NEW first \in SettingPairs(setKeys), NEW second \in SettingPairs(setKeys), NEW failed \in 0..2,
             NEW pairs \in {<<first>>, <<first, second>>}, NEW command,
             \/ SaveConnection(pairs, failed)
             \/ SaveSettings(command, pairs, failed)
             \/ SaveView(pairs, failed)
             \/ \E name \in BOOLEAN : SetPlayerOptions(pairs, failed, name)
      PROVE  SettingsInv'
  <2>1. first \in KeyValues /\ second \in KeyValues
    BY DEF SettingsInv, KeyValues, SettingPairs
  <2>2. <<first>> \in Seq(KeyValues) /\ <<first, second>> \in Seq(KeyValues)
    BY <2>1
  <2>3. pairs \in Seq(KeyValues)
    BY <2>2
  <2> QED
    BY <1>2, <2>3, ConnectionKeepsSettings, SaveKeepsSettings, SaveViewKeepsSettings, PlayerKeepsSettings
<1>3. CASE ~\E failed \in 0..2 : ApplyPreset(failed)
  <2>1. PICK first \in SettingPairs(setKeys), second \in SettingPairs(setKeys), failed \in 0..2 :
          LET pairs == IF first[1] = second[1] THEN <<first>> ELSE <<first, second>>
              command == CommandOf(first[1])
          IN  \/ SaveConnection(pairs, failed)
              \/ SaveSettings(command, pairs, failed)
              \/ SaveView(pairs, failed)
              \/ \E name \in BOOLEAN : SetPlayerOptions(pairs, failed, name)
    BY ZenonT(30), <1>3 DEF SettingsCommand
  <2>2. PICK pairs \in {<<first>>, <<first, second>>} :
          pairs = IF first[1] = second[1] THEN <<first>> ELSE <<first, second>>
    OBVIOUS
  <2> QED
    BY <1>2, <2>1, <2>2
<1> QED
  BY <1>1, <1>3

LEMMA SettingsStep == SettingsInv /\ [SettingsNext]_settingVars => SettingsInv'
<1>1. CASE SettingsNext
  BY <1>1, CommandKeepsSettings, ConnectKeepsSettings, OptionsKeepSettings,
     DisconnectKeepsSettings, FillKeepsSettings, RestartKeepsSettings
     DEF SettingsNext
<1>2. CASE UNCHANGED settingVars
  BY <1>2 DEF settingVars, SettingsInv, ConnectionInForce, LinkShape, FoundOf, WebOf, FoundTags
<1> QED
  BY <1>1, <1>2

(* The invariant has the three parts of SettingsOK.                        *)
LEMMA SettingsAreKept == SettingsInv => SettingsKept
<1>1. SUFFICES ASSUME SettingsInv, ~setUnsaved, NEW k \in SettingKeys
               PROVE  Reading(setFile)[k] = setHeld.now[k] \/ Lost(setFile[k])
  BY DEF SettingsKept, SettingKeys
<1>2. SettingsSaved(setHeld) /\ setFile = setHeld.file /\ \A i \in SettingKeys : StoredAs(i, setFile[i])
  BY <1>1 DEF SettingsInv, SettingsGood
<1>3. CASE ~Lost(setFile[k])
  <2>1. PICK v \in ValuesOf(k) : setFile[k] = Written(k, v) /\ setHeld.now[k] = StripSlash(k, v)
    BY <1>2, <1>3 DEF SettingsSaved
  <2>2. Lost(setFile[k]) \/ Reading(setFile)[k] = StripSlash(k, v)
    BY <1>2, <2>1, ReadingIsGood
  <2> QED
    BY <2>1, <2>2
<1> QED
  BY <1>3

\* a form that leaves a password alone is accepted
LEMMA PlaceholderAccepted == \A k \in Passwords : Unset \in ConnectionSettings[k].accepted
<1>1. ConnectionSettings["mpdPass"] = Setting(Name \cup {"dontsetpassword"}, Name, "")
  BY DEF ConnectionSettings, ++, All
<1>2. ConnectionSettings["stickerdbMpdPass"] = Setting(Name \cup {"dontsetpassword"}, Name, "")
  BY DEF ConnectionSettings, ++, All
<1>3. Unset \in Setting(Name \cup {"dontsetpassword"}, Name, "").accepted
  BY DEF Unset, Setting
<1> QED
  BY <1>1, <1>2, <1>3 DEF Passwords

\* the same settings, options and songs of the jukebox
SameSettings(h, r) == r.ok /\ r.now = h.now /\ r.options = h.options /\ r.jukebox = h.jukebox

\* to set the value a setting has changes nothing
LEMMA SameValueSet ==
  ASSUME NEW h \in Structs, SettingsGood(h), h.ok, NEW k \in SettingKeys
  PROVE  /\ Hold(h, k, h.now[k]) \in Structs /\ SameSettings(h, Hold(h, k, h.now[k]))
         /\ \A g \in Structs : SameSettings(h, g) => SameSettings(h, Write(g, k, h.now[k], FALSE))
<1>1. /\ StripSlash(k, h.now[k]) = h.now[k] /\ h.now \in [SettingKeys -> SettingValues]
      /\ h.now[k] \in ValuesOf(k)
  BY StructFields DEF SettingsGood
<1>2. [h.now EXCEPT ![k] = StripSlash(k, h.now[k])] = h.now
  BY <1>1
<1>3. Hold(h, k, h.now[k]) \in Structs
  BY <1>1, HoldFields
<1>4. SameSettings(h, Hold(h, k, h.now[k]))
  BY <1>2 DEF SameSettings, Hold, Structs
<1>5. \A g \in Structs : SameSettings(h, g) => SameSettings(h, Write(g, k, h.now[k], FALSE))
  BY DEF SameSettings, Write, Structs
<1> QED
  BY <1>3, <1>4, <1>5

(* The value that is shown for a key is one its command accepts, and to    *)
(* set it changes nothing.                                                 *)
LEMMA ShownValueSet ==
  ASSUME NEW h \in Structs, SettingsGood(h), h.ok, NEW k \in (SettingKeys \ TagKeys) \cup OptionKeys,
         k \in DOMAIN SettingsGet(h)
  PROVE  SameSettings(h, SetKey(CommandOf(k), h, k, SettingsGet(h)[k], FALSE))
<1>0. SUFFICES ASSUME NEW value, value = SettingsGet(h)[k],
                      NEW r, r = SetKey(CommandOf(k), h, k, value, FALSE)
               PROVE  SameSettings(h, r)
  OBVIOUS
<1>1. DOMAIN h.now = SettingKeys /\ DOMAIN h.options = OptionKeys
  BY StructFields
<1>14. k \notin TagKeys
  BY KeysInside, TablesApart DEF OptionKeys
<1>2. value = CASE k \in Passwords -> Unset
                [] k \in OptionKeys -> h.options[k]
                [] OTHER -> h.now[k]
  BY <1>0, <1>1, <1>14 DEF SettingsGet, Passwords, Unset
<1>3. SettingKeys \cap OptionKeys = {}
  BY TablesIn, TablesApart DEF OptionKeys
<1>4. ASSUME k \in SettingKeys, k \notin Passwords
      PROVE  value = h.now[k] /\ value \in AllSettings[k].accepted
  BY <1>2, <1>3, <1>4 DEF SettingsGood, ValuesOf, Usable
<1>5. PICK g : g = Hold(h, k, h.now[k])
  OBVIOUS
<1>6. k \in SettingKeys => g \in Structs /\ SameSettings(h, g)
  BY <1>5, SameValueSet
<1>7. CASE k \in Passwords
  <2>0. k \in DOMAIN ConnectionSettings /\ k \in SettingKeys
    BY <1>7, PasswordsIn, TablesIn
  <2>1. k \in DOMAIN ConnectionSettings /\ value = Unset
    BY <1>2, <1>3, <1>7, <2>0
  <2>2. Accepts(ConnectionSettings, k, value) /\ CommandOf(k) = "connection"
    BY <1>7, <2>1, PlaceholderAccepted, TablesApart DEF Accepts, CommandOf
  <2>3. r = ConnectionSave(h, k, value, FALSE)
    BY <1>0, <2>2 DEF SetKey
  <2>4. r = h
    BY <2>1, <2>3 DEF ConnectionSave, Unset
  <2> QED
    BY <2>4 DEF SameSettings
<1>8. CASE k \in DOMAIN ConnectionSettings /\ k \notin Passwords
  <2>1. k \in SettingKeys /\ AllSettings[k] = ConnectionSettings[k]
    BY <1>8, TablesIn
  <2>2. Accepts(ConnectionSettings, k, value) /\ CommandOf(k) = "connection" /\ value = h.now[k]
    BY <1>4, <1>8, <2>1, TablesApart DEF Accepts, CommandOf
  <2>3. r = ConnectionSave(h, k, value, FALSE)
    BY <1>0, <2>2 DEF SetKey
  <2>4. CASE value = Unset
    BY <2>3, <2>4 DEF ConnectionSave, Unset, SameSettings
  <2>5. CASE value # Unset
    <3>1. PICK due \in BOOLEAN : due = (k \in ConnectionOptions /\ value # h.now[k])
      OBVIOUS
    <3>2. PICK e : e = [EnableConnOptions(g, due) EXCEPT
                         !.stickersFailed = @ \/ k \in {"stickerdbMpdTimeout", "stickerdbMpdKeepalive"}]
      OBVIOUS
    <3>3. r = Write(e, k, value, FALSE)
      BY <1>5, <2>2, <2>3, <2>5, <3>1, <3>2 DEF ConnectionSave, Unset
    <3>4. e \in Structs /\ SameSettings(h, e)
      BY <1>6, <2>1, <3>2 DEF EnableConnOptions, Structs, SameSettings
    <3> QED
      BY <2>1, <2>2, <3>3, <3>4, SameValueSet
  <2> QED
    BY <2>4, <2>5
<1>9. CASE k \in DOMAIN GlobalSettings
  <2>1. /\ k \in SettingKeys /\ AllSettings[k] = GlobalSettings[k] /\ k \notin Passwords
        /\ k \notin DOMAIN ConnectionSettings
    BY <1>9, TablesIn, PasswordsIn, TablesApart
  <2>2. Accepts(GlobalSettings, k, value) /\ CommandOf(k) = "settings" /\ value = h.now[k]
    BY <1>4, <1>9, <2>1, TablesApart DEF Accepts, CommandOf
  <2>3. r = GlobalSet(h, k, value, FALSE)
    BY <1>0, <2>2 DEF SetKey
  <2>4. PICK e : e = EnableConnOptions(g, k = "tagList")
    OBVIOUS
  <2>5. r = Write(e, k, value, FALSE)
    BY <1>5, <2>2, <2>3, <2>4 DEF GlobalSet
  <2>6. e \in Structs /\ SameSettings(h, e)
    BY <1>6, <2>1, <2>4 DEF EnableConnOptions, Structs, SameSettings
  <2> QED
    BY <2>1, <2>2, <2>5, <2>6, SameValueSet
<1>10. CASE k \in DOMAIN PartitionSettings
  <2>1. /\ k \in SettingKeys /\ AllSettings[k] = PartitionSettings[k] /\ k \notin Passwords
        /\ k \notin DOMAIN ConnectionSettings /\ k \notin DOMAIN GlobalSettings
    BY <1>10, TablesIn, PasswordsIn, TablesApart
  <2>2. Accepts(PartitionSettings, k, value) /\ CommandOf(k) = "partition" /\ value = h.now[k]
    BY <1>4, <1>10, <2>1, TablesApart DEF Accepts, CommandOf
  <2>3. r = Write(g, k, value, FALSE)
    BY <1>0, <1>5, <2>2 DEF SetKey, PartitionSet
  <2> QED
    BY <1>6, <2>1, <2>2, <2>3, SameValueSet
<1>11. CASE k \in DOMAIN ViewSettings
  <2>1. /\ k \in SettingKeys /\ AllSettings[k] = ViewSettings[k] /\ k \notin Passwords
        /\ k \notin DOMAIN ConnectionSettings /\ k \notin DOMAIN GlobalSettings
        /\ k \notin DOMAIN PartitionSettings
    BY <1>11, TablesIn, PasswordsIn, TablesApart
  <2>2. Accepts(ViewSettings, k, value) /\ CommandOf(k) = "view" /\ value = h.now[k]
    BY <1>4, <1>11, <2>1, TablesApart DEF Accepts, CommandOf
  <2>3. r = Write(g, k, value, FALSE)
    BY <1>0, <1>5, <2>2 DEF SetKey, ViewSave
  <2> QED
    BY <1>6, <2>1, <2>2, <2>3, SameValueSet
<1>12. CASE k \in DOMAIN PlaybackSettings
  <2>1. /\ k \in SettingKeys /\ AllSettings[k] = PlaybackSettings[k] /\ k \notin Passwords
        /\ k \notin DOMAIN ConnectionSettings /\ k \notin DOMAIN GlobalSettings
        /\ k \notin DOMAIN PartitionSettings /\ k \notin DOMAIN ViewSettings
    BY <1>12, TablesIn, PasswordsIn, TablesApart
  <2>2. Accepts(PlaybackSettings, k, value) /\ CommandOf(k) = "playback" /\ value = h.now[k]
    BY <1>4, <1>12, <2>1 DEF Accepts, CommandOf
  <2>5. ~PassedOver(k, value)
    <3>1. ProperSetting(k, AllSettings[k])
      BY <2>1, SettingsProper DEF AllProper, SettingKeys
    <3>2. value \in Usable(k, AllSettings[k])
      BY <2>1, <2>2 DEF Usable, Accepts
    <3> QED
      BY <1>12, <3>1, <3>2 DEF PassedOver, ProperSetting
  <2>6. ~Accepts(MpdOptions, k, value)
    BY <1>12, TablesApart DEF Accepts
  <2>3. r = PlaybackSet(h, k, value, FALSE)
    BY <1>0, <2>2, <2>5, <2>6 DEF SetKey
  <2>4. r = Write(g, k, value, FALSE)
    BY <1>5, <2>2, <2>3 DEF PlaybackSet
  <2> QED
    BY <1>6, <2>1, <2>2, <2>4, SameValueSet
<1>13. CASE k \in OptionKeys
  <2>1. /\ k \notin Passwords
        /\ k \notin DOMAIN ConnectionSettings /\ k \notin DOMAIN GlobalSettings
        /\ k \notin DOMAIN PartitionSettings /\ k \notin DOMAIN ViewSettings
        /\ k \notin DOMAIN PlaybackSettings
    BY <1>13, PasswordsIn, TablesApart DEF OptionKeys
  <2>2. Accepts(MpdOptions, k, value) /\ CommandOf(k) = "playback" /\ value = h.options[k]
    BY <1>2, <1>13, <2>1 DEF Accepts, CommandOf, SettingsGood, OptionKeys
  <2>6. ~PassedOver(k, value)
    <3>1. ProperSetting(k, MpdOptions[k])
      BY <1>13, MpdOptionsProper DEF AllProper, OptionKeys
    <3>2. value \in Usable(k, MpdOptions[k])
      BY <2>1, <2>2 DEF Usable, Accepts
    <3> QED
      BY <1>13, <3>1, <3>2 DEF PassedOver, ProperSetting, OptionKeys
  <2>7. ~Accepts(PlaybackSettings, k, value)
    BY <2>1 DEF Accepts
  <2>3. r = MpdOptionSet(h, k, value, FALSE)
    BY <1>0, <2>2, <2>6, <2>7 DEF SetKey
  <2>4. r = [h EXCEPT !.options = [h.options EXCEPT ![k] = value]]
    BY <2>3 DEF MpdOptionSet
  <2>5. [h.options EXCEPT ![k] = value] = h.options
    BY <1>13, <2>2, StructFields
  <2> QED
    BY <2>4, <2>5 DEF SameSettings, Structs
<1> QED
  BY <1>7, <1>8, <1>9, <1>10, <1>11, <1>12, <1>13, TablesIn

(* And the list that is shown of the tags in force.                        *)
\* the settings, or with one of them set to v
OrWith(h, k, v) ==
  {g \in Structs : /\ SettingsGood(g) /\ g.ok /\ g.options = h.options /\ g.jukebox = h.jukebox
                   /\ g.now \in {h.now, [h.now EXCEPT ![k] = v]}}
LEMMA ShownTagsSet ==
  ASSUME NEW h \in Structs, NEW k \in TagKeys, NEW v \in TagList, NEW g \in OrWith(h, k, v)
  PROVE  SetKey(CommandOf(k), g, k, v, FALSE) \in OrWith(h, k, v)
<1>1. /\ k \in DOMAIN GlobalSettings /\ AllSettings[k] = GlobalSettings[k] /\ k \in SettingKeys
      /\ k \notin Passwords /\ k \notin DOMAIN ConnectionSettings /\ k # "jukeboxMode"
      /\ k \notin {"musicDirectory", "playlistDirectory", "smartplsInterval"}
  <2>1. k \in DOMAIN GlobalSettings
    BY KeysInside
  <2>2. k \notin {"jukeboxMode", "musicDirectory", "playlistDirectory", "smartplsInterval"}
    BY DEF TagKeys
  <2> QED
    BY <2>1, <2>2, TablesIn, PasswordsIn, TablesApart
<1>2. v \in AllSettings[k].accepted
  BY <1>1, SettingsProper DEF AllProper, ProperSetting, SettingKeys
<1>3. v \in ValuesOf(k) /\ CommandOf(k) = "settings" /\ Accepts(GlobalSettings, k, v)
  BY <1>1, <1>2, TablesApart DEF Accepts, CommandOf, ValuesOf, Usable
<1>4. PICK r : r = SetKey(CommandOf(k), g, k, v, FALSE)
  OBVIOUS
<1>5. r = GlobalSet(g, k, v, FALSE)
  BY <1>3, <1>4 DEF SetKey
<1>6. PICK e : e = Hold(g, k, v)
  OBVIOUS
<1>7. g \in Structs /\ SettingsGood(g) /\ g.ok /\ g.options = h.options /\ g.jukebox = h.jukebox
      /\ g.now \in {h.now, [h.now EXCEPT ![k] = v]}
  BY DEF OrWith
<1>8. e \in Structs /\ e.now = [g.now EXCEPT ![k] = v] /\ e.options = g.options /\ e.jukebox = g.jukebox
      /\ e.ok
  <2>1. StripSlash(k, v) = v
    BY <1>1 DEF StripSlash
  <2>2. e.ok = g.ok
    BY <1>6, <1>7 DEF Hold, Structs
  <2> QED
    BY <1>1, <1>3, <1>6, <1>7, <2>1, <2>2, HoldFields
<1>9. PICK t : t = EnableConnOptions(e, k = "tagList")
  OBVIOUS
<1>10. t \in Structs /\ t.now = e.now /\ t.options = e.options /\ t.jukebox = e.jukebox /\ t.ok
  BY <1>8, <1>9 DEF EnableConnOptions, Structs
<1>11. r = Write(t, k, v, FALSE)
  BY <1>1, <1>5, <1>6, <1>9 DEF GlobalSet
<1>12. r.now = t.now /\ r.options = t.options /\ r.jukebox = t.jukebox /\ r.ok
  BY <1>10, <1>11, StructFields DEF Write
<1>13. r \in Structs /\ SettingsGood(r)
  BY <1>4, <1>7, KeyMoves DEF SettingsMoved
<1>14. r.now \in {h.now, [h.now EXCEPT ![k] = v]}
  BY <1>7, <1>8, <1>10, <1>12, StructFields
<1> QED
  BY <1>4, <1>7, <1>8, <1>10, <1>12, <1>13, <1>14 DEF OrWith

(* A form that is saved as it is shown.                                    *)
LEMMA ShownIsKept == SettingsInv => SavingShownKeeps
<1> DEFINE StillShown(h, k, saved) ==
      /\ saved.ok /\ saved.options = h.options /\ saved.jukebox = h.jukebox
      /\ \A other \in DOMAIN h.now : (other = k /\ k \in TagKeys) \/ saved.now[other] = h.now[other]
      /\ setLink.up /\ ~setPartial =>
           TagsInForce(saved.now, setLink.has) = TagsInForce(h.now, setLink.has)
<1>1. SUFFICES ASSUME SettingsInv, NEW k \in setKeys, NEW h, h = [setHeld EXCEPT !.ok = TRUE],
                      NEW saved, saved = Iterate(CommandOf(k), h, << <<k, SettingsGet(h)[k]>> >>, 0),
                      k \in DOMAIN SettingsGet(h)
               PROVE  StillShown(h, k, saved)
  BY DEF SavingShownKeeps
<1>2. /\ h \in Structs /\ h.ok
      /\ h.now = setHeld.now /\ h.file = setHeld.file /\ h.options = setHeld.options
      /\ h.jukebox = setHeld.jukebox
  BY <1>1 DEF SettingsInv, Structs
<1>3. SettingsGood(h)
  BY <1>1, <1>2 DEF SettingsInv, SettingsGood
<1>4. PICK v : v = SettingsGet(h)[k]
  OBVIOUS
<1>5. PICK pairs : pairs = << <<k, v>> >>
  OBVIOUS
<1>6. DOMAIN pairs = {1} /\ pairs[1] = <<k, v>> /\ pairs \in Seq({<<k, v>>})
  BY <1>5
<1>9. saved = Iterate(CommandOf(k), h, pairs, 0)
  BY <1>1, <1>4, <1>5
<1>11. ASSUME NEW G, h \in G, \A g \in G : SetKey(CommandOf(k), g, k, v, FALSE) \in G
       PROVE  saved \in G
  <2>1. ASSUME NEW g \in G, NEW i \in DOMAIN pairs
        PROVE  SetKey(CommandOf(k), g, pairs[i][1], pairs[i][2], i = 0) \in G
    <3>1. i = 1 /\ (i = 0) = FALSE /\ pairs[i][1] = k /\ pairs[i][2] = v
      BY <1>6
    <3> QED
      BY <1>11, <3>1
  <2> QED
    BY <1>6, <1>9, <1>11, <2>1, IterationStays
<1>12. k \in SettingKeys \cup OptionKeys
  BY <1>1 DEF SettingsInv
<1>13. CASE k \notin TagKeys
  <2> DEFINE G == {g \in Structs : SettingsGood(g) /\ SameSettings(h, g)}
  <2>1. h \in G
    BY <1>2, <1>3 DEF SameSettings
  <2>2. ASSUME NEW g \in G PROVE SetKey(CommandOf(k), g, k, v, FALSE) \in G
    <3>1. PICK r : r = SetKey(CommandOf(k), g, k, v, FALSE)
      OBVIOUS
    <3>2. SettingsGet(g) = SettingsGet(h)
      BY DEF SettingsGet, SameSettings
    <3>3. g \in Structs /\ SettingsGood(g) /\ g.ok /\ k \in (SettingKeys \ TagKeys) \cup OptionKeys
      BY <1>12, <1>13 DEF SameSettings
    <3>4. SameSettings(g, r)
      BY <1>1, <1>4, <3>1, <3>2, <3>3, ShownValueSet
    <3>5. r \in Structs /\ SettingsGood(r)
      BY <3>1, <3>3, KeyMoves DEF SettingsMoved
    <3> QED
      BY <3>1, <3>4, <3>5 DEF SameSettings
  <2> HIDE DEF G
  <2>3. saved \in G
    BY <1>11, <2>1, <2>2
  <2> QED
    BY <2>3 DEF G, SameSettings
<1>14. CASE k \in TagKeys
  <2>0. DOMAIN h.now = SettingKeys /\ TagKeys \subseteq SettingKeys
    BY <1>2, StructFields, KeysInTables
  <2>1. setLink.up /\ v = setFound.tags[k] /\ v \in TagList
    <3>1. k \notin OptionKeys /\ k \notin Passwords
      BY <1>14, KeysInside, TablesApart, PasswordsIn DEF OptionKeys
    <3>2. DOMAIN h.options = OptionKeys
      BY <1>2, StructFields
    <3>3. setLink.up
      BY <1>1, <1>14 DEF SettingsGet
    <3>4. k \in DOMAIN h.now \cup DOMAIN h.options
      BY <1>14, <2>0
    <3>5. k \notin {"mpdPass", "stickerdbMpdPass"}
      BY <3>1 DEF Passwords
    <3>8. PICK all : all = DOMAIN h.now \cup DOMAIN h.options
      OBVIOUS
    <3>9. SettingsGet(h) =
            [i \in all |-> CASE i \in {"mpdPass", "stickerdbMpdPass"} -> "dontsetpassword"
                              [] i \in TagKeys -> setFound.tags[i]
                              [] i \in DOMAIN h.options -> h.options[i]
                              [] OTHER -> h.now[i]]
      BY <3>3, <3>8 DEF SettingsGet
    <3>6. SettingsGet(h)[k] = setFound.tags[k]
      BY <1>14, <3>1, <3>2, <3>4, <3>5, <3>8, <3>9
    <3>7. v = setFound.tags[k]
      BY <1>4, <3>6
    <3> QED
      BY <1>1, <1>14, <3>3, <3>7 DEF SettingsInv, FoundTags
  <2>2. h \in OrWith(h, k, v)
    BY <1>2, <1>3 DEF OrWith
  <2>3. \A g \in OrWith(h, k, v) : SetKey(CommandOf(k), g, k, v, FALSE) \in OrWith(h, k, v)
    BY <1>2, <1>14, <2>1, ShownTagsSet
  <2>4. saved \in OrWith(h, k, v)
    BY <1>11, <2>2, <2>3
  <2>5. /\ saved.ok /\ saved.options = h.options /\ saved.jukebox = h.jukebox
        /\ saved.now \in {h.now, [h.now EXCEPT ![k] = v]}
    BY <2>4 DEF OrWith
  <2>6. \A other \in DOMAIN h.now : (other = k /\ k \in TagKeys) \/ saved.now[other] = h.now[other]
    BY <1>14, <2>5
  <2>7. setLink.up /\ ~setPartial =>
          TagsInForce(saved.now, setLink.has) = TagsInForce(h.now, setLink.has)
    <3>1. SUFFICES ASSUME setLink.up, ~setPartial, saved.now = [h.now EXCEPT ![k] = v]
                   PROVE  TagsInForce(saved.now, setLink.has) = TagsInForce(h.now, setLink.has)
      BY <2>5
    <3>2. setLink.has \in TagList
      BY <1>1, <3>1 DEF SettingsInv, LinkShape, NoLink
    <3>3. setFound.tags = TagsInForce(h.now, setLink.has)
      BY <1>1, <1>2, <3>1 DEF SettingsInv, ConnectionInForce, FoundOf, Detected
    <3> QED
      BY <1>3, <1>14, <2>0, <2>1, <3>1, <3>2, <3>3, TagsStay
  <2> QED
    BY <2>5, <2>6, <2>7
<1> QED
  BY <1>13, <1>14

LEMMA SettingsAreInForce == SettingsInv => SettingsInForce
BY DEF SettingsInv, SettingsGood, SettingsInForce, ConnectionInForce, IntervalOf, FoundOf, WebOf

(* The settings in use are those a restart comes back with, showing and    *)
(* saving a form changes none of them, and the connection, the timer, the  *)
(* webserver and the jukebox have them (settings.c, state_files.c), for    *)
(* any keys and values, any number of commands, failures and restarts.     *)
THEOREM SettingsCorrect == SettingsSpec => []SettingsOK
<1>1. SettingsInv => SettingsOK
  BY SettingsAreKept, ShownIsKept, SettingsAreInForce DEF SettingsOK
<1> QED
  BY <1>1, SettingsStart, SettingsStep, PTL DEF SettingsSpec

(* And so in the stores, where the settings are one of the parts.          *)
LEMMA SettingsAmongStores ==
  ASSUME active = "settings" => SettingsInv, [StoresNext]_storesVars
  PROVE  (active = "settings" => SettingsInv)'
<1>1. active' = active
  BY DEF StoresNext, storesVars, OthersRest
<1>2. active = "settings" => [SettingsNext]_settingVars
  BY DEF StoresNext, storesVars
<1> QED
  BY <1>1, <1>2, SettingsStep

(* SettingsSound of the run: what SettingsCorrect says of the settings     *)
(* holds of them in every behaviour of the stores.                         *)
THEOREM SettingsSoundHolds == StoresSpec => []SettingsSound
<1>1. StoresInit => (active = "settings" => SettingsInv)
  BY SettingsStart DEF StoresInit
<1>2. (active = "settings" => SettingsInv) => SettingsSound
  BY SettingsAreKept, ShownIsKept, SettingsAreInForce DEF SettingsSound, SettingsOK
<1> QED
  BY <1>1, <1>2, SettingsAmongStores, PTL DEF StoresSpec

------------------------------------------------------------------------------
(***************************************************************************)
(* The album cache.  Recursion over the values of a tag, the songs of an   *)
(* album and the entries of a page is taken step by step along a function  *)
(* that is fixed under it.  From there what one song does to its album,    *)
(* to the tree and to the songs the tree has, a page, and the steps.       *)
(***************************************************************************)
AlbumRecords ==
  [tags : [AlbumTags -> Seq(AlbumNames \union {UnknownAlbum})], songs : SUBSET (DOMAIN AlbumSongs),
   unknown : BOOLEAN, discs : Nat, count : Nat, time : Nat, modified : Nat, added : Nat]
\* what the key of an album is made of
AlbumParts(tags, conf) == <<tags["AlbumArtist"], NameOf(tags, conf), GroupOf(tags, conf)>>
\* an album that has the key of its own tags, unless it is one of the exceptions; in the
\* advanced mode these are enough to keep it
KeyedAlbum(a, k, conf) ==
  /\ a \in AlbumRecords
  /\ conf.mode # "adv" \/ HasId(a.tags) => AlbumKey(a, conf) = k
  /\ conf.mode = "adv" =>
       /\ k # <<>> /\ a.songs # {} /\ \A s \in a.songs : SongKey(s, conf) = k
       /\ ~HasId(a.tags) => \A s \in a.songs :
            ~HasId(AlbumSongs[s].tags) /\ (KeepKey(a.songs, conf) => AlbumParts(a.tags, conf) = KeyParts(s, conf))
KeyedTree(tree, conf) == \A k \in DOMAIN tree : KeyedAlbum(tree[k], k, conf)

AlbumShape ==
  /\ album = [tree |-> album.tree, mtime |-> album.mtime, building |-> album.building, timer |-> album.timer]
  /\ builder = [at |-> builder.at, host |-> builder.host, force |-> builder.force, start |-> builder.start,
                seen |-> builder.seen, tree |-> builder.tree, lib |-> builder.lib, clean |-> builder.clean]
  /\ albumConf \in AlbumConfigs /\ albumHost \in Hosts
  /\ DOMAIN mpds = Hosts /\ \A h \in Hosts : mpds[h].songs \in AlbumLibraries
\* the trees that are kept, each keyed for the configuration it was built for
KeptTrees ==
  /\ album.tree # NoTree => KeyedTree(album.tree, albumConf)
  /\ \A tree \in writers : KeyedTree(tree, albumConf)
  /\ cacheFile # NoTree => KeyedTree(cacheFile.tree, cacheFile.conf)
GoodResult(r) ==
  /\ r.conf = albumConf
  /\ r.tree # NoTree => KeyedTree(r.tree, albumConf)
  /\ r.tree # NoTree /\ r.clean /\ r.conf.mode = "adv" => Complete(r.tree, r.lib, r.conf)
GoodResults == (\E S : results \in Seq(S)) /\ \A i \in DOMAIN results : GoodResult(results[i])
\* what the worker has so far: the albums of the songs it has counted
ReadSoFar ==
  /\ builder.host \in Hosts /\ builder.start \in Nat /\ builder.seen \in Nat
  /\ KeyedTree(builder.tree, albumConf)
  /\ builder.at # "page" => builder.start = 0 /\ builder.seen = 0 /\ builder.tree = <<>>
  /\ builder.at = "page" =>
       /\ builder.clean => builder.lib = mpds[builder.host].songs
       /\ albumConf.mode = "adv" => builder.seen = builder.start
       /\ albumConf.mode = "adv" /\ builder.clean =>
            LET songs == Listed(builder.lib, albumConf) IN
            builder.start <= Len(songs) /\ CompleteUpto(builder.tree, songs, builder.start, albumConf)

(* The inductive invariant.  Every tree is keyed, wherever it is, and the  *)
(* one of the worker is complete up to the song it has come to: a full     *)
(* page ends where the next one starts.                                    *)
AlbumInv == AlbumShape /\ KeptTrees /\ GoodResults /\ ReadSoFar

(* album_append_tags runs over the values.                                 *)
LEMMA AppendTagsRuns ==
  ASSUME NEW values, NEW more, Len(more) \in Nat
  PROVE  \E f : /\ f[0] = values /\ AppendTags(values, more) = f[Len(more)]
                /\ \A n \in 1..Len(more) : f[n] = AppendTag(f[n - 1], more[n])
<1> DEFINE N == Len(more)
           Body(f, m) == [n \in 0..m |-> IF n = 0 THEN values ELSE AppendTag(f[n - 1], more[n])]
           Ok == {m \in 0..N : \E f : f = Body(f, m)}
           loop == CHOOSE f : f = Body(f, N)
<1> HIDE DEF AppendTag
<1>1. 0 \in Ok
  <2>1. PICK f : f = [n \in 0..0 |-> values]
    OBVIOUS
  <2>2. f = Body(f, 0)
    BY <2>1
  <2> QED
    BY <2>2
<1>2. ASSUME NEW m \in 1..N, m - 1 \in Ok PROVE m \in Ok
  <2>1. PICK f : f = Body(f, m - 1)
    BY <1>2
  <2>2. PICK g : g = [n \in 0..m |-> IF n = m THEN AppendTag(f[m - 1], more[m]) ELSE f[n]]
    OBVIOUS
  <2>3. ASSUME NEW n \in 0..m PROVE g[n] = IF n = 0 THEN values ELSE AppendTag(g[n - 1], more[n])
    <3>1. \A k \in 0..m - 1 : g[k] = f[k]
      BY <2>2
    <3>2. CASE n = m
      BY <2>2, <3>1, <3>2
    <3>3. CASE n # m
      <4>1. n \in 0..m - 1 /\ (n # 0 => n - 1 \in 0..m - 1)
        BY <3>3
      <4>2. f[n] = IF n = 0 THEN values ELSE AppendTag(f[n - 1], more[n])
        BY <2>1, <4>1
      <4> QED
        BY <3>1, <4>1, <4>2
    <3> QED
      BY <3>2, <3>3
  <2>4. g = Body(g, m)
    BY <2>2, <2>3
  <2> QED
    BY <2>4
<1>3. N \in Ok
  <2>1. N \in Nat /\ \A n \in 1..N : n - 1 \in Ok => n \in Ok
    BY <1>2
  <2> HIDE DEF Ok, N
  <2>2. \A n \in 0..N : n \in Ok
    BY <1>1, <2>1, Induct
  <2> QED
    BY <2>1, <2>2
<1>4. loop = Body(loop, N)
  <2>1. \E f : f = Body(f, N)
    BY <1>3
  <2> HIDE DEF Body
  <2> QED
    BY <2>1
<1>5. AppendTags(values, more) = loop[N]
  BY DEF AppendTags
<1> HIDE DEF loop
<1>6. loop[0] = values /\ \A n \in 1..N : loop[n] = AppendTag(loop[n - 1], more[n])
  BY <1>4
<1> QED
  BY <1>5, <1>6

(* A tag keeps its values, in their order, and takes each new one once.     *)
LEMMA AppendTagsIs ==
  ASSUME NEW S, NEW values \in Seq(S), NEW more \in Seq(S)
  PROVE  LET all == AppendTags(values, more) IN
         /\ all \in Seq(S) /\ ToSet(all) = ToSet(values) \union ToSet(more)
         /\ ToSet(more) \subseteq ToSet(values) => all = values
         /\ values # <<>> => all # <<>> /\ Head(all) = Head(values)
         /\ values = <<>> /\ more # <<>> => all # <<>> /\ Head(all) = Head(more)
         /\ values = <<>> /\ IsInjective(more) => all = more
<1> DEFINE N == Len(more)
           Seen(n) == {more[i] : i \in 1..n}
<1>1. N \in Nat /\ DOMAIN more = 1..N /\ \A i \in 1..N : more[i] \in S
  OBVIOUS
<1>2. PICK f : /\ f[0] = values /\ AppendTags(values, more) = f[N]
               /\ \A n \in 1..N : f[n] = AppendTag(f[n - 1], more[n])
  BY <1>1, AppendTagsRuns
<1>3. ASSUME NEW v \in Seq(S), NEW x \in S
      PROVE  /\ AppendTag(v, x) \in Seq(S) /\ ToSet(AppendTag(v, x)) = ToSet(v) \union {x}
             /\ x \in ToSet(v) => AppendTag(v, x) = v
             /\ x \notin ToSet(v) => AppendTag(v, x) = Append(v, x)
  <2>1. x \in ToSet(v) <=> \E i \in DOMAIN v : v[i] = x
    BY DEF ToSet
  <2>2. ToSet(Append(v, x)) = ToSet(v) \union {x}
    <3>1. /\ Len(v) \in Nat /\ DOMAIN v = 1..Len(v) /\ DOMAIN Append(v, x) = 1..Len(v) + 1
          /\ Append(v, x)[Len(v) + 1] = x /\ \A i \in 1..Len(v) : Append(v, x)[i] = v[i]
      OBVIOUS
    <3>2. 1..Len(v) + 1 = 1..Len(v) \union {Len(v) + 1}
      BY <3>1
    <3> QED
      BY <3>1, <3>2 DEF ToSet
  <2> QED
    BY <2>1, <2>2 DEF AppendTag
<1> DEFINE Good(n) ==
             /\ f[n] \in Seq(S) /\ ToSet(f[n]) = ToSet(values) \union Seen(n)
             /\ Seen(n) \subseteq ToSet(values) => f[n] = values
             /\ values # <<>> => f[n] # <<>> /\ Head(f[n]) = Head(values)
             /\ values = <<>> /\ n > 0 => f[n] # <<>> /\ Head(f[n]) = more[1]
             /\ values = <<>> /\ IsInjective(more) =>
                  Len(f[n]) = n /\ \A i \in 1..n : f[n][i] = more[i]
<1>4. Good(0)
  <2>1. Seen(0) = {}
    OBVIOUS
  <2> QED
    BY <1>2, <2>1
<1>5. ASSUME NEW n \in 1..N, Good(n - 1) PROVE Good(n)
  <2>1. n - 1 \in Nat /\ more[n] \in S /\ f[n] = AppendTag(f[n - 1], more[n])
    BY <1>1, <1>2
  <2>2. Seen(n) = Seen(n - 1) \union {more[n]}
    <3>1. 1..n = 1..n - 1 \union {n}
      BY <2>1
    <3> QED
      BY <3>1
  <2> DEFINE v == f[n - 1]
  <2>3. /\ v \in Seq(S) /\ ToSet(v) = ToSet(values) \union Seen(n - 1)
        /\ Seen(n - 1) \subseteq ToSet(values) => v = values
        /\ values # <<>> => v # <<>> /\ Head(v) = Head(values)
        /\ values = <<>> /\ n - 1 > 0 => v # <<>> /\ Head(v) = more[1]
        /\ values = <<>> /\ IsInjective(more) => Len(v) = n - 1 /\ \A i \in 1..n - 1 : v[i] = more[i]
    BY <1>5
  <2>4. f[n] = AppendTag(v, more[n])
    BY <2>1
  <2> HIDE DEF v, Seen
  <2>5. /\ f[n] \in Seq(S) /\ ToSet(f[n]) = ToSet(v) \union {more[n]}
        /\ more[n] \in ToSet(v) => f[n] = v
        /\ more[n] \notin ToSet(v) => f[n] = Append(v, more[n])
    <3> HIDE DEF N
    <3>1. /\ AppendTag(v, more[n]) \in Seq(S) /\ ToSet(AppendTag(v, more[n])) = ToSet(v) \union {more[n]}
          /\ more[n] \in ToSet(v) => AppendTag(v, more[n]) = v
          /\ more[n] \notin ToSet(v) => AppendTag(v, more[n]) = Append(v, more[n])
      BY <1>3, <2>1, <2>3
    <3> QED
      BY <2>4, <3>1
  <2>6. ToSet(f[n]) = ToSet(values) \union Seen(n)
    BY <2>2, <2>3, <2>5
  <2>7. Seen(n) \subseteq ToSet(values) => f[n] = values
    BY <2>2, <2>3, <2>5
  <2>8. v # <<>> => f[n] # <<>> /\ Head(f[n]) = Head(v)
    BY <2>1, <2>3, <2>5
  <2>9. values = <<>> => f[n] # <<>> /\ Head(f[n]) = more[1]
    <3>1. CASE n - 1 > 0
      BY <2>3, <2>8, <3>1
    <3>2. CASE n = 1
      <4>1. Seen(0) = {}
        BY DEF Seen
      <4>2. n - 1 = 0 /\ ToSet(<<>>) = {}
        BY <3>2 DEF ToSet
      <4>3. values = <<>> => v = <<>> /\ more[n] \notin ToSet(v)
        BY <2>3, <4>1, <4>2
      <4> QED
        BY <2>1, <2>3, <2>5, <3>2, <4>3
    <3> QED
      BY <2>1, <3>1, <3>2
  <2>10. ASSUME values = <<>>, IsInjective(more) PROVE Len(f[n]) = n /\ \A i \in 1..n : f[n][i] = more[i]
    <3>1. Len(v) = n - 1 /\ \A i \in 1..n - 1 : v[i] = more[i]
      BY <2>3, <2>10
    <3>2. more[n] \notin ToSet(v)
      <4>1. \A i \in 1..n - 1 : i \in DOMAIN more /\ n \in DOMAIN more /\ i # n
        BY <1>1, <2>1
      <4>2. \A i \in 1..n - 1 : more[i] # more[n]
        BY <2>10, <4>1 DEF IsInjective
      <4>3. DOMAIN v = 1..n - 1
        BY <2>1, <2>3, <3>1
      <4> QED
        BY <3>1, <4>2, <4>3 DEF ToSet
    <3>3. f[n] = Append(v, more[n])
      BY <2>5, <3>2
    <3>4. /\ Len(Append(v, more[n])) = n /\ Append(v, more[n])[n] = more[n]
          /\ \A i \in 1..n - 1 : Append(v, more[n])[i] = v[i]
      BY <2>1, <2>3, <3>1
    <3>5. \A i \in 1..n : i = n \/ i \in 1..n - 1
      BY <2>1
    <3> HIDE DEF N
    <3> QED
      BY <3>1, <3>3, <3>4, <3>5
  <2> QED
    BY <2>3, <2>5, <2>6, <2>7, <2>8, <2>9, <2>10
<1>6. Good(N)
  <2> DEFINE Ok == {n \in 0..N : Good(n)}
  <2>1. 0 \in Ok
    BY <1>1, <1>4
  <2>2. \A n \in 1..N : n - 1 \in Ok => n \in Ok
    <3>1. \A n \in 1..N : n - 1 \in 0..N /\ n \in 0..N
      BY <1>1
    <3>2. \A n \in 1..N : Good(n - 1) => Good(n)
      BY <1>5
    <3> HIDE DEF Good, N
    <3> QED
      BY <3>1, <3>2
  <2>3. N \in Nat
    BY <1>1
  <2>4. N \in Ok
    <3> HIDE DEF Ok, N
    <3>1. \A n \in 0..N : n \in Ok
      BY <2>1, <2>2, <2>3, Induct
    <3> QED
      BY <2>3, <3>1
  <2> HIDE DEF Good
  <2> QED
    BY <2>4
<1>7. Seen(N) = ToSet(more)
  BY <1>1 DEF ToSet
<1>8. more # <<>> => N > 0 /\ Head(more) = more[1]
  BY <1>1
<1>9. f[N] \in Seq(S) /\ Len(f[N]) = N /\ (\A i \in 1..N : f[N][i] = more[i]) => f[N] = more
  BY <1>1
<1> HIDE DEF Seen
<1> QED
  BY <1>2, <1>6, <1>7, <1>8, <1>9

AlbumValues == Seq(AlbumNames \union {UnknownAlbum})

(* What the library says of a song.                                        *)
LEMMA SongTyped ==
  ASSUME NEW s \in DOMAIN AlbumSongs
  PROVE  LET song == AlbumSongs[s] IN
         /\ \A t \in AlbumTags : song.tags[t] \in AlbumValues
         /\ song.disc \in Nat /\ song.time \in Nat /\ song.modified \in Nat /\ song.added \in Nat
<1>1. PICK song : song = AlbumSongs[s]
  OBVIOUS
<1>2. song \in [tags : [AlbumTags -> Seq(AlbumNames)], disc : Nat, time : Nat, modified : Nat, added : Nat]
  BY <1>1, AlbumAssumption DEF AlbumAssumption
<1>3. \A t \in AlbumTags : song.tags[t] \in Seq(AlbumNames)
  BY <1>2
<1>4. \A v \in Seq(AlbumNames) : v \in AlbumValues
  BY DEF AlbumValues
<1> QED
  BY <1>1, <1>2, <1>3, <1>4

(* The configurations of the cache.                                        *)
LEMMA ConfTyped ==
  ASSUME NEW conf \in AlbumConfigs
  PROVE  /\ conf.mode \in {"adv", "simple"} /\ conf.unknown \in BOOLEAN
         /\ conf.group \in {NoTag, "Artist", "AlbumArtist", "Album", "Genre", "Date", "MbId"}
  BY AlbumAssumption DEF AlbumAssumption, AlbumTags, MultiTags

(* Values of a tag that are kept once have the first value of the song.    *)
LEMMA KeptOnce ==
  ASSUME NEW more \in AlbumValues
  PROVE  LET once == AppendTags(<<>>, more) IN
         /\ once \in AlbumValues /\ FirstOf(once) = FirstOf(more) /\ (once = <<>> <=> more = <<>>)
         /\ ToSet(once) = ToSet(more)
         /\ IsInjective(more) => once = more
<1>1. <<>> \in AlbumValues /\ ToSet(<<>>) = {}
  BY DEF AlbumValues, ToSet
<1>2. more = <<>> => ToSet(more) = {}
  BY DEF ToSet
<1> HIDE DEF AlbumValues
<1>3. PICK v : v = <<>>
  OBVIOUS
<1>4. v \in AlbumValues /\ ToSet(v) = {}
  BY <1>1, <1>3
<1>5. LET all == AppendTags(v, more) IN
      /\ all \in AlbumValues /\ ToSet(all) = ToSet(v) \union ToSet(more)
      /\ ToSet(more) \subseteq ToSet(v) => all = v
      /\ v = <<>> /\ more # <<>> => all # <<>> /\ Head(all) = Head(more)
      /\ v = <<>> /\ IsInjective(more) => all = more
  <2>1. PICK S : AlbumValues = Seq(S)
    BY DEF AlbumValues
  <2>2. v \in Seq(S) /\ more \in Seq(S)
    BY <1>4, <2>1
  <2>3. \A values, one \in Seq(S) :
          LET all == AppendTags(values, one) IN
          /\ all \in Seq(S) /\ ToSet(all) = ToSet(values) \union ToSet(one)
          /\ ToSet(one) \subseteq ToSet(values) => all = values
          /\ values = <<>> /\ one # <<>> => all # <<>> /\ Head(all) = Head(one)
          /\ values = <<>> /\ IsInjective(one) => all = one
    BY AppendTagsIs
  <2> QED
    BY <2>1, <2>2, <2>3
<1> QED
  BY <1>2, <1>3, <1>4, <1>5 DEF FirstOf

(* The key of a song without an id, and of an album that is made of the    *)
(* same parts.                                                             *)
LEMMA KeyOfIs ==
  ASSUME NEW tags, NEW conf
  PROVE  KeyOf(tags, conf) = IF conf.mode = "adv" /\ HasId(tags) THEN <<"id", Head(tags["MbId"])>>
                             ELSE IF ArtistsOf(tags) = <<>> \/ NameOf(tags, conf) = NoTag THEN <<>>
                             ELSE <<"hash", KeyText(ArtistsOf(tags), NameOf(tags, conf), GroupOf(tags, conf))>>
  BY DEF KeyOf

LEMMA KeyedIs ==
  ASSUME NEW conf, NEW a, NEW k, KeyedAlbum(a, k, conf)
  PROVE  AlbumKey(a, conf) = k \/ (~HasId(a.tags) /\ ~KeepKey(a.songs, conf))
<1>1. SUFFICES ASSUME conf.mode = "adv", ~HasId(a.tags), KeepKey(a.songs, conf) PROVE AlbumKey(a, conf) = k
  BY DEF KeyedAlbum
<1>2. PICK s \in a.songs : SongKey(s, conf) = k /\ k # <<>> /\ ~HasId(AlbumSongs[s].tags)
                           /\ AlbumParts(a.tags, conf) = KeyParts(s, conf)
  BY <1>1 DEF KeyedAlbum
<1> DEFINE T == AlbumSongs[s].tags
           U == a.tags
<1>3. U["AlbumArtist"] = ArtistsOf(T) /\ NameOf(U, conf) = NameOf(T, conf) /\ GroupOf(U, conf) = GroupOf(T, conf)
  BY <1>2 DEF AlbumParts, KeyParts
<1>4. k = KeyOf(T, conf) /\ AlbumKey(a, conf) = KeyOf(U, conf)
  BY <1>2 DEF SongKey, AlbumKey
<1> HIDE DEF T, U
<1>5. ArtistsOf(T) # <<>>
  BY <1>2, <1>4, KeyOfIs DEF T
<1>6. ArtistsOf(U) = ArtistsOf(T)
  BY <1>3, <1>5 DEF ArtistsOf
<1>7. KeyOf(U, conf) = KeyOf(T, conf)
  <2>1. ~HasId(U) /\ ~HasId(T)
    BY <1>1, <1>2 DEF T, U
  <2> QED
    BY <1>3, <1>6, <2>1, KeyOfIs
<1> QED
  BY <1>4, <1>7

(* The first song of an album gives it its key.                            *)
LEMMA NewAlbumIs ==
  ASSUME NEW s \in DOMAIN AlbumSongs, NEW conf \in AlbumConfigs, conf.mode = "adv", SongKey(s, conf) # <<>>
  PROVE  LET a == NewAlbum(s, conf)
             song == AlbumSongs[s]
         IN /\ KeyedAlbum(a, SongKey(s, conf), conf)
            /\ a.count = 1 /\ a.time = song.time /\ a.modified = song.modified /\ a.added = song.added
            /\ \A t \in {"Artist", "Genre"} : ToSet(a.tags[t]) = ToSet(song.tags[t])
<1> DEFINE song == AlbumSongs[s]
           T == song.tags
           D(t) == AppendTags(<<>>, T[t])
           a == NewAlbum(s, conf)
           U == a.tags
<1>1. /\ \A t \in AlbumTags : T[t] \in AlbumValues
      /\ song.disc \in Nat /\ song.time \in Nat /\ song.modified \in Nat /\ song.added \in Nat
  BY SongTyped
<1>2. \A t \in AlbumTags : /\ D(t) \in AlbumValues /\ FirstOf(D(t)) = FirstOf(T[t])
                           /\ (D(t) = <<>> <=> T[t] = <<>>) /\ ToSet(D(t)) = ToSet(T[t])
                           /\ IsInjective(T[t]) => D(t) = T[t]
  <2>1. SUFFICES ASSUME NEW t \in AlbumTags
                 PROVE  /\ D(t) \in AlbumValues /\ FirstOf(D(t)) = FirstOf(T[t])
                        /\ (D(t) = <<>> <=> T[t] = <<>>) /\ ToSet(D(t)) = ToSet(T[t])
                        /\ IsInjective(T[t]) => D(t) = T[t]
    OBVIOUS
  <2>2. T[t] \in AlbumValues
    BY <1>1
  <2>3. PICK more : more = T[t]
    OBVIOUS
  <2>4. more \in AlbumValues /\ D(t) = AppendTags(<<>>, more)
    BY <2>2, <2>3
  <2> HIDE DEF D, song
  <2> QED
    BY <2>3, <2>4, KeptOnce
<1> DEFINE base == [t \in AlbumTags |-> D(t)]
           named == IF conf.unknown /\ T["Album"] = <<>> THEN [base EXCEPT !["Album"] = <<UnknownAlbum>>] ELSE base
<1>3. a = [tags |-> CopyTags(named), songs |-> {s}, unknown |-> T["Album"] = <<>>, discs |-> 0, count |-> 1,
           time |-> song.time, modified |-> song.modified, added |-> song.added]
  BY DEF NewAlbum
<1>4. AlbumTags = {"Artist", "AlbumArtist", "Genre", "Album", "Date", "MbId"}
  BY DEF AlbumTags, MultiTags
<1> HIDE DEF song, D, a
<1>5. /\ DOMAIN named = AlbumTags
      /\ \A t \in AlbumTags \ {"Album"} : named[t] = D(t)
      /\ named["Album"] = IF conf.unknown /\ T["Album"] = <<>> THEN <<UnknownAlbum>> ELSE D("Album")
      /\ named = [t \in AlbumTags |-> named[t]]
  BY <1>4
<1> HIDE DEF named, base
<1>6. /\ U = [t \in AlbumTags |-> U[t]]
      /\ \A t \in AlbumTags \ {"Album", "AlbumArtist"} : U[t] = D(t)
      /\ U["Album"] = IF conf.unknown /\ T["Album"] = <<>> THEN <<UnknownAlbum>> ELSE D("Album")
      /\ U["AlbumArtist"] = IF D("AlbumArtist") = <<>> THEN D("Artist") ELSE D("AlbumArtist")
  BY <1>3, <1>4, <1>5 DEF CopyTags
<1>7. <<UnknownAlbum>> \in AlbumValues /\ UnknownAlbum # NoTag
  BY DEF AlbumValues, UnknownAlbum, NoTag
<1>8. \A t \in AlbumTags : U[t] \in AlbumValues
  BY <1>2, <1>4, <1>6, <1>7, ZenonT(60)
<1> HIDE DEF T
<1>9. HasId(U) = HasId(T) /\ (HasId(T) => Head(U["MbId"]) = Head(T["MbId"]))
  BY <1>2, <1>4, <1>6 DEF FirstOf, HasId
<1>10. NameOf(U, conf) = NameOf(T, conf)
  BY <1>2, <1>4, <1>6 DEF NameOf, FirstOf
<1>11. KeepsKey(s, conf) => U["AlbumArtist"] = ArtistsOf(T) /\ GroupOf(U, conf) = GroupOf(T, conf)
  <2>1. SUFFICES ASSUME KeepsKey(s, conf)
                 PROVE  U["AlbumArtist"] = ArtistsOf(T) /\ GroupOf(U, conf) = GroupOf(T, conf)
    OBVIOUS
  <2>2. IsInjective(ArtistsOf(T)) /\ (conf.group \in {"Album", "AlbumArtist"} => T[conf.group] # <<>>)
    BY <2>1 DEF KeepsKey, T, song
  <2>3. U["AlbumArtist"] = ArtistsOf(T)
    BY <1>2, <1>4, <1>6, <2>2 DEF ArtistsOf
  <2>4. conf.group # NoTag => conf.group \in AlbumTags
    BY <1>4, ConfTyped
  <2>5. \A t \in AlbumTags : (t \in {"Album", "AlbumArtist"} => T[t] # <<>>) => FirstOf(U[t]) = FirstOf(T[t])
    BY <1>2, <1>4, <1>6
  <2>6. GroupOf(U, conf) = GroupOf(T, conf)
    BY <2>2, <2>4, <2>5 DEF GroupOf
  <2> QED
    BY <2>3, <2>6
<1>12. a.songs = {s} /\ a.tags = U
  BY <1>3 DEF U
<1>13. SongKey(s, conf) = KeyOf(T, conf) /\ AlbumKey(a, conf) = KeyOf(U, conf)
  BY DEF SongKey, AlbumKey, T, U, song
<1>14. HasId(U) => AlbumKey(a, conf) = SongKey(s, conf)
  BY <1>9, <1>13, KeyOfIs
<1>15. KeepKey(a.songs, conf) => AlbumParts(U, conf) = KeyParts(s, conf)
  <2>1. KeepKey(a.songs, conf) => KeepsKey(s, conf)
    BY <1>12 DEF KeepKey
  <2> QED
    BY <1>10, <1>11, <2>1 DEF AlbumParts, KeyParts, T, song
<1>16. ~HasId(U) => ~HasId(AlbumSongs[s].tags)
  BY <1>9 DEF T, song
<1>17. a \in AlbumRecords
  <2>1. U \in [AlbumTags -> AlbumValues]
    BY <1>6, <1>8
  <2>2. a = [tags |-> U, songs |-> {s}, unknown |-> T["Album"] = <<>>, discs |-> 0, count |-> 1,
             time |-> song.time, modified |-> song.modified, added |-> song.added]
    BY <1>3
  <2> HIDE DEF U
  <2>3. 0 \in Nat /\ 1 \in Nat /\ (T["Album"] = <<>>) \in BOOLEAN
    OBVIOUS
  <2> QED
    BY <1>1, <2>1, <2>2, <2>3 DEF AlbumRecords, AlbumValues
<1>18. a.count = 1 /\ a.time = song.time /\ a.modified = song.modified /\ a.added = song.added
  BY <1>3
<1>19. \A t \in {"Artist", "Genre"} : ToSet(U[t]) = ToSet(T[t])
  <2>1. \A t \in {"Artist", "Genre"} : t \in AlbumTags /\ t \in AlbumTags \ {"Album", "AlbumArtist"}
    BY <1>4
  <2>2. \A t \in {"Artist", "Genre"} : U[t] = D(t)
    BY <1>6, <2>1
  <2>3. \A t \in {"Artist", "Genre"} : ToSet(D(t)) = ToSet(T[t])
    BY <1>2, <2>1
  <2> QED
    BY <2>2, <2>3
<1> QED
  <2>1. KeyedAlbum(a, SongKey(s, conf), conf)
    BY <1>12, <1>14, <1>15, <1>16, <1>17 DEF KeyedAlbum
  <2> QED
    BY <1>18, <1>19, <2>1 DEF T, U, song, a

(* A later song of an album leaves it under its key.                       *)
LEMMA AddSongIs ==
  ASSUME NEW s \in DOMAIN AlbumSongs, NEW conf \in AlbumConfigs, conf.mode = "adv",
         NEW a, KeyedAlbum(a, SongKey(s, conf), conf)
  PROVE  LET b == AddSong(a, s)
             song == AlbumSongs[s]
         IN /\ KeyedAlbum(b, SongKey(s, conf), conf)
            /\ b.count = a.count + 1 /\ b.time = a.time + song.time
            /\ b.modified = LastModified(a.modified, song.modified) /\ b.added = Added(a.added, song.added)
            /\ \A t \in {"Artist", "Genre"} : ToSet(b.tags[t]) = ToSet(a.tags[t]) \union ToSet(song.tags[t])
<1> DEFINE song == AlbumSongs[s]
           T == song.tags
           U == a.tags
           b == AddSong(a, s)
           V == b.tags
           k == SongKey(s, conf)
<1>1. /\ \A t \in AlbumTags : T[t] \in AlbumValues
      /\ song.disc \in Nat /\ song.time \in Nat /\ song.modified \in Nat /\ song.added \in Nat
  BY SongTyped
<1>2. /\ a \in AlbumRecords /\ k # <<>> /\ k = KeyOf(T, conf)
      /\ HasId(U) => KeyOf(U, conf) = k
      /\ a.songs # {} /\ \A one \in a.songs : SongKey(one, conf) = k
      /\ ~HasId(U) => \A one \in a.songs :
           ~HasId(AlbumSongs[one].tags) /\ (KeepKey(a.songs, conf) => AlbumParts(U, conf) = KeyParts(one, conf))
  BY DEF KeyedAlbum, AlbumKey, SongKey
<1>3. /\ U \in [AlbumTags -> AlbumValues] /\ a.songs \in SUBSET (DOMAIN AlbumSongs) /\ a.unknown \in BOOLEAN /\ a.discs \in Nat /\ a.count \in Nat
      /\ a.time \in Nat /\ a.modified \in Nat /\ a.added \in Nat
      /\ a = [tags |-> U, songs |-> a.songs, unknown |-> a.unknown, discs |-> a.discs, count |-> a.count,
              time |-> a.time, modified |-> a.modified, added |-> a.added]
  BY <1>2 DEF AlbumRecords, AlbumValues
<1>4. b = [tags |-> AppendMulti(U, T), songs |-> a.songs \union {s}, unknown |-> a.unknown, discs |-> Discs(a.discs, song.disc),
           count |-> a.count + 1, time |-> a.time + song.time,
           modified |-> LastModified(a.modified, song.modified), added |-> Added(a.added, song.added)]
  BY <1>3 DEF AddSong
<1> HIDE DEF song, b, k
<1>5. AlbumTags = {"Artist", "AlbumArtist", "Genre", "Album", "Date", "MbId"}
      /\ MultiTags = {"Artist", "AlbumArtist", "Genre"}
  BY DEF AlbumTags, MultiTags
<1>6. V = [t \in AlbumTags |-> IF t \in MultiTags THEN AppendTags(U[t], T[t]) ELSE U[t]]
  BY <1>4 DEF AppendMulti
<1>7. /\ \A t \in MultiTags : V[t] = AppendTags(U[t], T[t])
      /\ \A t \in AlbumTags \ MultiTags : V[t] = U[t]
  BY <1>5, <1>6
<1> HIDE DEF T, U, V
<1>8. \A t \in AlbumTags : U[t] \in AlbumValues
  BY <1>3
<1>9. \A t \in MultiTags :
        /\ V[t] \in AlbumValues /\ ToSet(V[t]) = ToSet(U[t]) \union ToSet(T[t])
        /\ ToSet(T[t]) \subseteq ToSet(U[t]) => V[t] = U[t]
        /\ U[t] # <<>> => V[t] # <<>> /\ Head(V[t]) = Head(U[t])
  <2>1. SUFFICES ASSUME NEW t \in MultiTags
                 PROVE  /\ V[t] \in AlbumValues /\ ToSet(V[t]) = ToSet(U[t]) \union ToSet(T[t])
                        /\ ToSet(T[t]) \subseteq ToSet(U[t]) => V[t] = U[t]
                        /\ U[t] # <<>> => V[t] # <<>> /\ Head(V[t]) = Head(U[t])
    OBVIOUS
  <2>2. t \in AlbumTags /\ V[t] = AppendTags(U[t], T[t]) /\ U[t] \in AlbumValues /\ T[t] \in AlbumValues
    BY <1>1, <1>5, <1>7, <1>8
  <2> QED
    BY <2>2, AppendTagsIs DEF AlbumValues
<1>10. ToSet(<<>>) = {}
  BY DEF ToSet
<1>11. b \in AlbumRecords
  <2>1. V \in [AlbumTags -> AlbumValues]
    BY <1>5, <1>6, <1>7, <1>8, <1>9
  <2>2. Discs(a.discs, song.disc) \in Nat /\ LastModified(a.modified, song.modified) \in Nat
        /\ Added(a.added, song.added) \in Nat /\ a.count + 1 \in Nat /\ a.time + song.time \in Nat
    BY <1>1, <1>3 DEF Discs, LastModified, Added
  <2>3. b = [tags |-> V, songs |-> a.songs \union {s}, unknown |-> a.unknown, discs |-> Discs(a.discs, song.disc),
             count |-> a.count + 1, time |-> a.time + song.time,
             modified |-> LastModified(a.modified, song.modified), added |-> Added(a.added, song.added)]
    BY <1>4 DEF V
  <2> QED
    BY <1>3, <2>1, <2>2, <2>3 DEF AlbumRecords, AlbumValues
<1>12. V["MbId"] = U["MbId"] /\ V["Album"] = U["Album"] /\ V["Date"] = U["Date"] /\ HasId(V) = HasId(U)
  BY <1>5, <1>7 DEF HasId
<1>13. HasId(V) => KeyOf(V, conf) = k
  BY <1>2, <1>12, KeyOfIs
<1>14. b.songs = a.songs \union {s} /\ b.tags = V
  BY <1>4 DEF V
<1>15. ASSUME ~HasId(U) PROVE ~HasId(T)
  <2>1. PICK one \in a.songs : SongKey(one, conf) = k /\ ~HasId(AlbumSongs[one].tags)
    BY <1>2, <1>15
  <2>2. PICK text : k = <<"hash", text>>
    BY <1>2, <2>1, KeyOfIs DEF SongKey
  <2>3. HasId(T) => k = <<"id", Head(T["MbId"])>>
    BY <1>2, KeyOfIs
  <2>4. \A x, y : <<"hash", x>> # <<"id", y>>
    OBVIOUS
  <2> QED
    BY <2>2, <2>3, <2>4
<1>16. ASSUME ~HasId(U), KeepKey(b.songs, conf), NEW one \in b.songs PROVE AlbumParts(V, conf) = KeyParts(one, conf)
  <2>1. KeepKey(a.songs, conf) /\ KeyParts(one, conf) = KeyParts(s, conf)
        /\ AlbumParts(U, conf) = KeyParts(s, conf)
    <3>1. \A i \in b.songs : \A other \in b.songs : KeyParts(other, conf) = KeyParts(i, conf)
      BY <1>16 DEF KeepKey
    <3>2. KeepKey(a.songs, conf)
      BY <1>14, <1>16 DEF KeepKey
    <3>3. PICK first \in a.songs : AlbumParts(U, conf) = KeyParts(first, conf)
      BY <1>2, <1>16, <3>2
    <3> QED
      BY <1>14, <1>16, <3>1, <3>2, <3>3
  <2>2. ArtistsOf(T) = U["AlbumArtist"] /\ NameOf(T, conf) = NameOf(U, conf) /\ GroupOf(T, conf) = GroupOf(U, conf)
    BY <2>1 DEF AlbumParts, KeyParts, T, song
  <2>3. ~HasId(T)
    BY <1>15, <1>16
  <2>4. U["AlbumArtist"] # <<>>
    BY <1>2, <2>2, <2>3, KeyOfIs
  <2>5. V["AlbumArtist"] = U["AlbumArtist"]
    <3>1. T["AlbumArtist"] = <<>> \/ T["AlbumArtist"] = U["AlbumArtist"]
      BY <2>2 DEF ArtistsOf
    <3>2. ToSet(T["AlbumArtist"]) \subseteq ToSet(U["AlbumArtist"])
      BY <1>10, <3>1
    <3> QED
      BY <1>5, <1>9, <3>2
  <2>6. GroupOf(V, conf) = GroupOf(U, conf)
    <3>1. CASE conf.group \notin MultiTags
      BY <1>5, <1>7, <3>1, ConfTyped DEF GroupOf
    <3>2. CASE conf.group \in MultiTags
      <4>1. conf.group # NoTag /\ conf.group \in AlbumTags
        BY <1>5, <3>2, ConfTyped DEF NoTag
      <4>2. FirstOf(T[conf.group]) = FirstOf(U[conf.group])
        BY <2>2, <4>1 DEF GroupOf
      <4>3. T[conf.group] # <<>> => Head(T[conf.group]) # NoTag
        <5>1. T[conf.group] \in Seq(AlbumNames \union {UnknownAlbum})
          BY <1>1, <4>1 DEF AlbumValues
        <5>2. NoTag \notin AlbumNames \union {UnknownAlbum}
          BY AlbumAssumption DEF AlbumAssumption, NoTag, UnknownAlbum
        <5> QED
          BY <5>1, <5>2
      <4>4. FirstOf(V[conf.group]) = FirstOf(U[conf.group])
        <5>1. CASE U[conf.group] = <<>>
          <6>1. T[conf.group] = <<>>
            BY <4>2, <4>3, <5>1 DEF FirstOf
          <6> QED
            BY <1>9, <1>10, <3>2, <5>1, <6>1
        <5>2. CASE U[conf.group] # <<>>
          BY <1>9, <3>2, <5>2 DEF FirstOf
        <5> QED
          BY <5>1, <5>2
      <4> QED
        BY <4>1, <4>4 DEF GroupOf
    <3> QED
      BY <3>1, <3>2
  <2>7. NameOf(V, conf) = NameOf(U, conf)
    BY <1>12 DEF NameOf
  <2> QED
    BY <2>1, <2>5, <2>6, <2>7 DEF AlbumParts
<1>17. KeyedAlbum(b, k, conf)
  <2>1. \A one \in b.songs : SongKey(one, conf) = k
    BY <1>2, <1>14 DEF k
  <2>2. HasId(b.tags) => AlbumKey(b, conf) = k
    BY <1>13, <1>14 DEF AlbumKey
  <2>3. ASSUME ~HasId(b.tags), NEW one \in b.songs PROVE ~HasId(AlbumSongs[one].tags)
    <3>1. ~HasId(U)
      BY <1>12, <1>14, <2>3
    <3> QED
      BY <1>2, <1>14, <1>15, <2>3, <3>1 DEF T, song
  <2>4. ~HasId(b.tags) => \A one \in b.songs : KeepKey(b.songs, conf) => AlbumParts(b.tags, conf) = KeyParts(one, conf)
    BY <1>12, <1>14, <1>16
  <2> QED
    BY <1>2, <1>11, <1>14, <2>1, <2>2, <2>3, <2>4 DEF KeyedAlbum
<1>18. \A t \in {"Artist", "Genre"} : ToSet(V[t]) = ToSet(U[t]) \union ToSet(T[t])
  BY <1>5, <1>9
<1>19. b.count = a.count + 1 /\ b.time = a.time + song.time
       /\ b.modified = LastModified(a.modified, song.modified) /\ b.added = Added(a.added, song.added)
  BY <1>4
<1> QED
  BY <1>17, <1>18, <1>19 DEF song, T, U, V, b, k

Follows(n, m) == n = m + 1
KeyAt(songs, n, conf) == SongKey(songs[n], conf)
SongAt(songs, n) == AlbumSongs[songs[n]]
WithSong(time, songs, n) == time + SongAt(songs, n).time

(* The length of the songs of an album, song by song.                      *)
TimesOf(songs, k, conf) == [n \in 0..Len(songs) |-> TimeOf(songs, n, k, conf)]
LEMMA TimeOfRuns ==
  ASSUME NEW songs, Len(songs) \in Nat, NEW k, NEW conf
  PROVE  LET f == TimesOf(songs, k, conf) IN
         /\ f[0] = 0 /\ \A n \in 0..Len(songs) : f[n] = TimeOf(songs, n, k, conf)
         /\ \A n \in 1..Len(songs) :
              f[n] = IF KeyAt(songs, n, conf) = k THEN WithSong(f[n - 1], songs, n) ELSE f[n - 1]
<1> DEFINE N == Len(songs)
           With(t, n) == IF SongKey(songs[n], conf) = k THEN t + AlbumSongs[songs[n]].time ELSE t
           Body(f, m) == [i \in 0..m |-> IF i = 0 THEN 0
                                         ELSE IF SongKey(songs[i], conf) = k THEN f[i - 1] + AlbumSongs[songs[i]].time
                                         ELSE f[i - 1]]
           Ok == {m \in 0..N : \E f : f = Body(f, m)}
           loop == CHOOSE f : f = Body(f, N)
<1>1. 0 \in Ok
  <2>1. PICK f : f = [n \in 0..0 |-> 0]
    OBVIOUS
  <2>2. f = Body(f, 0)
    BY <2>1
  <2> QED
    BY <2>2
<1>2. ASSUME NEW m \in 1..N, m - 1 \in Ok PROVE m \in Ok
  <2>1. PICK f : f = Body(f, m - 1)
    BY <1>2
  <2>2. PICK g : g = [n \in 0..m |-> IF n = m THEN With(f[m - 1], m) ELSE f[n]]
    OBVIOUS
  <2>3. ASSUME NEW n \in 0..m PROVE g[n] = IF n = 0 THEN 0 ELSE With(g[n - 1], n)
    <3> HIDE DEF With
    <3>1. \A i \in 0..m - 1 : g[i] = f[i]
      BY <2>2
    <3>2. CASE n = m
      BY <2>2, <3>1, <3>2
    <3>3. CASE n # m
      <4>1. n \in 0..m - 1 /\ (n # 0 => n - 1 \in 0..m - 1)
        BY <3>3
      <4>2. f[n] = IF n = 0 THEN 0 ELSE With(f[n - 1], n)
        BY <2>1, <4>1 DEF With
      <4> QED
        BY <3>1, <4>1, <4>2
    <3> QED
      BY <3>2, <3>3
  <2>4. g = Body(g, m)
    BY <2>2, <2>3
  <2> QED
    BY <2>4
<1>3. N \in Ok
  <2>1. N \in Nat /\ \A n \in 1..N : n - 1 \in Ok => n \in Ok
    BY <1>2
  <2> HIDE DEF Ok, N
  <2>2. \A n \in 0..N : n \in Ok
    BY <1>1, <2>1, Induct
  <2> QED
    BY <2>1, <2>2
<1>4. loop = Body(loop, N)
  <2>1. \E f : f = Body(f, N)
    BY <1>3
  <2> HIDE DEF Body
  <2> QED
    BY <2>1
<1>5. \A n : TimeOf(songs, n, k, conf) = loop[n]
  BY DEF TimeOf
<1> HIDE DEF loop
<1>6. loop[0] = 0 /\ \A n \in 1..N : loop[n] = With(loop[n - 1], n)
  BY <1>4
<1>7. \A n \in 1..N :
        loop[n] = IF KeyAt(songs, n, conf) = k THEN WithSong(loop[n - 1], songs, n) ELSE loop[n - 1]
  BY <1>6 DEF KeyAt, SongAt, WithSong
<1>8. \A n \in 0..N : TimesOf(songs, k, conf)[n] = loop[n]
  BY <1>5 DEF TimesOf
<1>9. \A n \in 1..N : n \in 0..N /\ n - 1 \in 0..N
  OBVIOUS
<1>10. 0 \in 0..N
  OBVIOUS
<1> HIDE DEF N
<1> QED
  BY <1>5, <1>6, <1>7, <1>8, <1>9, <1>10 DEF N

(* An album without songs plays no time.                                   *)
LEMMA NoTime ==
  ASSUME NEW songs, Len(songs) \in Nat, NEW k, NEW conf, NEW n \in 0..Len(songs),
         \A i \in 1..n : KeyAt(songs, i, conf) # k
  PROVE  TimeOf(songs, n, k, conf) = 0
<1> DEFINE f == TimesOf(songs, k, conf)
<1>1. /\ f[0] = 0 /\ \A i \in 0..Len(songs) : f[i] = TimeOf(songs, i, k, conf)
      /\ \A i \in 1..Len(songs) :
           f[i] = IF KeyAt(songs, i, conf) = k THEN WithSong(f[i - 1], songs, i) ELSE f[i - 1]
  BY TimeOfRuns
<1> HIDE DEF f
<1> DEFINE Ok == {m \in 0..n : f[m] = 0}
<1>2. 0 \in Ok
  BY <1>1
<1>3. \A m \in 1..n : m - 1 \in Ok => m \in Ok
  BY <1>1
<1> HIDE DEF Ok
<1>4. n \in Nat /\ n \in 0..n
  OBVIOUS
<1>5. n \in Ok
  BY <1>2, <1>3, <1>4, Induct
<1> QED
  BY <1>1, <1>5 DEF Ok

(* The songs and the length of an album, one song further.                 *)
LEMMA AtItsSong ==
  ASSUME NEW songs, Len(songs) \in Nat, NEW m \in Nat, NEW n \in Nat, Follows(n, m), n <= Len(songs), NEW k, NEW conf
  PROVE  /\ KeyAt(songs, n, conf) = k =>
              /\ OfKey(songs, n, k, conf) = OfKey(songs, m, k, conf) \union {n}
              /\ TimeOf(songs, n, k, conf) = WithSong(TimeOf(songs, m, k, conf), songs, n)
         /\ KeyAt(songs, n, conf) # k =>
              /\ OfKey(songs, n, k, conf) = OfKey(songs, m, k, conf)
              /\ TimeOf(songs, n, k, conf) = TimeOf(songs, m, k, conf)
<1>1. 1..n = 1..m \union {n} /\ n \in 1..Len(songs)
  BY DEF Follows
<1>2. TimeOf(songs, n, k, conf) = IF KeyAt(songs, n, conf) = k
                                  THEN WithSong(TimeOf(songs, m, k, conf), songs, n)
                                  ELSE TimeOf(songs, m, k, conf)
  <2> DEFINE f == TimesOf(songs, k, conf)
  <2>1. /\ \A i \in 0..Len(songs) : f[i] = TimeOf(songs, i, k, conf)
        /\ \A i \in 1..Len(songs) :
             f[i] = IF KeyAt(songs, i, conf) = k THEN WithSong(f[i - 1], songs, i) ELSE f[i - 1]
    BY TimeOfRuns
  <2> HIDE DEF f
  <2>2. n - 1 = m /\ n \in 0..Len(songs) /\ m \in 0..Len(songs)
    BY DEF Follows
  <2>3. f[n] = IF KeyAt(songs, n, conf) = k THEN WithSong(f[m], songs, n) ELSE f[m]
    BY <1>1, <2>1, <2>2
  <2> QED
    BY <2>1, <2>2, <2>3
<1>3. OfKey(songs, n, k, conf) = IF KeyAt(songs, n, conf) = k THEN OfKey(songs, m, k, conf) \union {n}
                                 ELSE OfKey(songs, m, k, conf)
  BY <1>1 DEF OfKey, KeyAt
<1> QED
  BY <1>2, <1>3

(* A song is counted once.                                                 *)
LEMMA OfKeyGrows ==
  ASSUME NEW songs, NEW m \in Nat, NEW n \in Nat, Follows(n, m), NEW k, NEW conf
  PROVE  n \notin OfKey(songs, m, k, conf) /\ IsFiniteSet(OfKey(songs, m, k, conf))
<1> DEFINE of == OfKey(songs, m, k, conf)
<1>1. of \subseteq 1..m /\ IsFiniteSet(1..m) /\ n \notin 1..m
  BY FS_Interval DEF OfKey, Follows
<1>2. IsFiniteSet(of) /\ n \notin of
  <2> HIDE DEF of
  <2> QED
    BY <1>1, FS_Subset
<1> QED
  BY <1>2

(* A song that is not of an album leaves it what it was.                   *)
LEMMA AlbumStays ==
  ASSUME NEW songs, Len(songs) \in Nat, NEW m \in Nat, NEW n \in Nat, Follows(n, m), n <= Len(songs),
         NEW k, NEW conf, KeyAt(songs, n, conf) # k, NEW a, AlbumOf(a, songs, m, k, conf)
  PROVE  AlbumOf(a, songs, n, k, conf)
  BY AtItsSong DEF AlbumOf

(* What the first song makes is its album.                                 *)
LEMMA AlbumStarts ==
  ASSUME NEW songs, Len(songs) \in Nat, NEW m \in Nat, NEW n \in Nat, Follows(n, m), n <= Len(songs), songs[n] \in DOMAIN AlbumSongs, NEW conf,
         NEW k, KeyAt(songs, n, conf) = k, \A i \in 1..m : KeyAt(songs, i, conf) # k,
         NEW a, a.count = 1, a.time = SongAt(songs, n).time, a.modified = SongAt(songs, n).modified,
         a.added = SongAt(songs, n).added,
         \A t \in {"Artist", "Genre"} : ToSet(a.tags[t]) = ToSet(SongAt(songs, n).tags[t])
  PROVE  AlbumOf(a, songs, n, k, conf)
<1> DEFINE of == OfKey(songs, n, k, conf)
<1>1. m \in 0..Len(songs)
  BY DEF Follows
<1>2. of = {n}
  <2>1. OfKey(songs, m, k, conf) = {}
    BY DEF OfKey, KeyAt
  <2>2. OfKey(songs, n, k, conf) = OfKey(songs, m, k, conf) \union {n}
    BY AtItsSong
  <2> QED
    BY <2>1, <2>2
<1>3. TimeOf(songs, n, k, conf) = SongAt(songs, n).time
  <2>1. TimeOf(songs, m, k, conf) = 0
    BY <1>1, NoTime
  <2>2. TimeOf(songs, n, k, conf) = TimeOf(songs, m, k, conf) + SongAt(songs, n).time
    BY AtItsSong DEF WithSong
  <2>3. SongAt(songs, n).time \in Nat
    BY SongTyped DEF SongAt
  <2> QED
    BY <2>1, <2>2, <2>3
<1>4. SongAt(songs, n).modified \in Nat /\ SongAt(songs, n).added \in Nat
  BY SongTyped DEF SongAt
<1> HIDE DEF of
<1>5. Cardinality(of) = 1
  BY <1>2, FS_Singleton
<1>6. \A t \in {"Artist", "Genre"} : ToSet(a.tags[t]) = UNION {ToSet(SongAt(songs, i).tags[t]) : i \in of}
  BY <1>2
<1>7. \A i \in of : a.modified >= SongAt(songs, i).modified /\ a.added <= SongAt(songs, i).added
  BY <1>2, <1>4
<1>8. \E i \in of : a.modified = SongAt(songs, i).modified
  BY <1>2
<1>9. \E i \in of : a.added = SongAt(songs, i).added
  BY <1>2
<1> QED
  BY <1>3, <1>5, <1>6, <1>7, <1>8, <1>9 DEF AlbumOf, of, SongAt

(* What a later song makes of its album is the album with it.              *)
LEMMA AlbumGrows ==
  ASSUME NEW songs, Len(songs) \in Nat, NEW m \in Nat, NEW n \in Nat, Follows(n, m), n <= Len(songs), NEW conf, NEW k, KeyAt(songs, n, conf) = k,
         \A i \in 1..n : songs[i] \in DOMAIN AlbumSongs,
         NEW a, AlbumOf(a, songs, m, k, conf), a.modified \in Nat, a.added \in Nat,
         NEW b, b.count = a.count + 1, b.time = a.time + SongAt(songs, n).time,
         b.modified = LastModified(a.modified, SongAt(songs, n).modified),
         b.added = Added(a.added, SongAt(songs, n).added),
         \A t \in {"Artist", "Genre"} :
           ToSet(b.tags[t]) = ToSet(a.tags[t]) \union ToSet(SongAt(songs, n).tags[t])
  PROVE  AlbumOf(b, songs, n, k, conf)
<1> DEFINE was == OfKey(songs, m, k, conf)
           of == OfKey(songs, n, k, conf)
           Modified(i) == SongAt(songs, i).modified
           Date(i) == SongAt(songs, i).added
           Values(i, t) == ToSet(SongAt(songs, i).tags[t])
<1>2. of = was \union {n}
  BY AtItsSong
<1>3. Cardinality(of) = Cardinality(was) + 1
  <2>1. IsFiniteSet(was) /\ n \notin was
    BY OfKeyGrows
  <2> HIDE DEF was, of
  <2> QED
    BY <1>2, <2>1, FS_AddElement
<1>4. TimeOf(songs, n, k, conf) = TimeOf(songs, m, k, conf) + SongAt(songs, n).time
  BY AtItsSong DEF WithSong
<1>5. \A i \in of : Modified(i) \in Nat /\ Date(i) \in Nat
  <2>1. \A i \in of : songs[i] \in DOMAIN AlbumSongs
    BY DEF OfKey
  <2> HIDE DEF of
  <2> QED
    BY <2>1, SongTyped DEF SongAt
<1>6. /\ a.count = Cardinality(was) /\ a.time = TimeOf(songs, m, k, conf)
      /\ \A i \in was : a.modified >= Modified(i)
      /\ \E i \in was : a.modified = Modified(i)
      /\ (\A i \in was : Date(i) # 0) => (\A i \in was : a.added <= Date(i)) /\ (\E i \in was : a.added = Date(i))
      /\ \A t \in {"Artist", "Genre"} : ToSet(a.tags[t]) = UNION {Values(i, t) : i \in was}
  BY DEF AlbumOf, SongAt
<1>7. /\ b.modified = LastModified(a.modified, Modified(n)) /\ b.added = Added(a.added, Date(n))
      /\ \A t \in {"Artist", "Genre"} : ToSet(b.tags[t]) = ToSet(a.tags[t]) \union Values(n, t)
  OBVIOUS
<1>8. b.count = Cardinality(of) /\ b.time = TimeOf(songs, n, k, conf)
  BY <1>3, <1>4, <1>6
<1> HIDE DEF was, of, Modified, Date, Values
<1>9. (\A i \in of : b.modified >= Modified(i)) /\ \E i \in of : b.modified = Modified(i)
  <2>1. Modified(n) \in Nat /\ \A i \in was : Modified(i) \in Nat
    BY <1>2, <1>5
  <2>2. \A i \in of : i \in was \/ i = n
    BY <1>2
  <2>3. CASE a.modified < Modified(n)
    <3>1. b.modified = Modified(n)
      BY <1>7, <2>3 DEF LastModified
    <3> QED
      BY <1>2, <1>6, <2>1, <2>2, <2>3, <3>1
  <2>4. CASE ~(a.modified < Modified(n))
    <3>1. b.modified = a.modified
      BY <1>7, <2>4 DEF LastModified
    <3> QED
      BY <1>2, <1>6, <2>1, <2>2, <2>4, <3>1
  <2> QED
    BY <2>3, <2>4
<1>10. ASSUME \A i \in of : Date(i) # 0
       PROVE  (\A i \in of : b.added <= Date(i)) /\ \E i \in of : b.added = Date(i)
  <2>1. /\ Date(n) \in Nat /\ \A i \in was : Date(i) \in Nat
        /\ Date(n) # 0 /\ \A i \in was : Date(i) # 0
    BY <1>2, <1>5, <1>10
  <2>2. \A i \in of : i \in was \/ i = n
    BY <1>2
  <2>3. (\A i \in was : a.added <= Date(i)) /\ (\E i \in was : a.added = Date(i)) /\ a.added # 0
    BY <1>6, <2>1
  <2>4. CASE a.added > Date(n)
    <3>1. b.added = Date(n)
      BY <1>7, <2>4 DEF Added
    <3> QED
      BY <1>2, <2>1, <2>2, <2>3, <2>4, <3>1
  <2>5. CASE ~(a.added > Date(n))
    <3>1. b.added = a.added
      BY <1>7, <2>3, <2>5 DEF Added
    <3> QED
      BY <1>2, <2>1, <2>2, <2>3, <2>5, <3>1
  <2> QED
    BY <2>4, <2>5
<1>11. \A t \in {"Artist", "Genre"} : ToSet(b.tags[t]) = UNION {Values(i, t) : i \in of}
  <2>1. SUFFICES ASSUME NEW t \in {"Artist", "Genre"} PROVE ToSet(b.tags[t]) = UNION {Values(i, t) : i \in of}
    OBVIOUS
  <2>2. ToSet(b.tags[t]) = ToSet(a.tags[t]) \union Values(n, t) /\ ToSet(a.tags[t]) = UNION {Values(i, t) : i \in was}
    BY <1>6, <1>7
  <2>3. \A x : x \in UNION {Values(i, t) : i \in of} <=> \E i \in of : x \in Values(i, t)
    OBVIOUS
  <2>4. \A x : x \in UNION {Values(i, t) : i \in was} <=> \E i \in was : x \in Values(i, t)
    OBVIOUS
  <2>5. \A x : x \in ToSet(b.tags[t]) <=> \E i \in of : x \in Values(i, t)
    BY <1>2, <2>2, <2>4
  <2>6. \A x : x \in ToSet(b.tags[t]) <=> x \in UNION {Values(i, t) : i \in of}
    BY <2>3, <2>5
  <2> QED
    BY <2>6
<1> QED
  BY <1>8, <1>9, <1>10, <1>11 DEF AlbumOf, of, Modified, Date, Values, SongAt

(* One song further, the tree is still complete and keyed.                 *)
LEMMA FoldSong ==
  ASSUME NEW songs \in Seq(DOMAIN AlbumSongs), NEW m \in Nat, NEW n \in 1..Len(songs), Follows(n, m), NEW conf \in AlbumConfigs,
         conf.mode = "adv", NEW tree, KeyedTree(tree, conf)
  PROVE  LET next == Fold(tree, songs[n], conf) IN
         /\ KeyedTree(next, conf)
         /\ CompleteUpto(tree, songs, m, conf) => CompleteUpto(next, songs, n, conf)
<1> DEFINE s == songs[n]
           key == SongKey(s, conf)
           next == Fold(tree, s, conf)
           Keys(u) == {SongKey(songs[i], conf) : i \in 1..u}
           Upto == CompleteUpto(tree, songs, m, conf)
<1>1. s \in DOMAIN AlbumSongs /\ Len(songs) \in Nat /\ n \in Nat /\ n <= Len(songs) /\ Follows(n, m)
      /\ \A i \in 1..n : songs[i] \in DOMAIN AlbumSongs
  BY DEF Follows
<1>2. Keys(n) = Keys(m) \union {key}
  <2>1. 1..n = 1..m \union {n}
    BY DEF Follows
  <2> QED
    BY <2>1
<1>3. CASE key = <<>>
  <2>1. next = tree
    BY <1>3 DEF Fold
  <2>2. ASSUME Upto PROVE CompleteUpto(next, songs, n, conf)
    <3>1. DOMAIN tree = Keys(m) \ {<<>>} /\ \A k \in DOMAIN tree : AlbumOf(tree[k], songs, m, k, conf)
      BY <2>2 DEF CompleteUpto
    <3>2. DOMAIN tree = Keys(n) \ {<<>>}
      BY <1>2, <1>3, <3>1
    <3>3. \A k \in DOMAIN tree : KeyAt(songs, n, conf) # k
      BY <1>3, <3>1 DEF KeyAt
    <3>4. \A k \in DOMAIN tree : AlbumOf(tree[k], songs, n, k, conf)
      BY <1>1, <3>1, <3>3, AlbumStays
    <3> HIDE DEF next
    <3> QED
      BY <2>1, <3>2, <3>4 DEF CompleteUpto
  <2> QED
    BY <2>1, <2>2
<1>4. CASE key # <<>>
  <2>1. /\ DOMAIN next = DOMAIN tree \union {key}
        /\ \A k \in DOMAIN tree : k # key => next[k] = tree[k]
        /\ key \in DOMAIN tree => next[key] = AddSong(tree[key], s)
        /\ key \notin DOMAIN tree => next[key] = NewAlbum(s, conf)
    <3> HIDE DEF key
    <3>1. next = [k \in DOMAIN tree \union {key} |->
                    CASE k # key -> tree[k]
                      [] k = key /\ key \in DOMAIN tree -> AddSong(tree[key], s)
                      [] k = key /\ key \notin DOMAIN tree -> NewAlbum(s, conf)]
      BY <1>4 DEF Fold, key
    <3> HIDE DEF next, s
    <3> QED
      BY <3>1
  <2>2. \A k \in DOMAIN tree : KeyedAlbum(tree[k], k, conf)
    BY DEF KeyedTree
  <2> HIDE DEF next, key
  <2>3. KeyedAlbum(next[key], key, conf)
    <3>1. CASE key \in DOMAIN tree
      BY <1>1, <2>1, <2>2, <3>1, AddSongIs DEF key
    <3>2. CASE key \notin DOMAIN tree
      BY <1>1, <1>4, <2>1, <3>2, NewAlbumIs DEF key
    <3> QED
      BY <3>1, <3>2
  <2>4. KeyedTree(next, conf)
    BY <2>1, <2>2, <2>3 DEF KeyedTree
  <2>5. ASSUME Upto PROVE CompleteUpto(next, songs, n, conf)
    <3>1. DOMAIN tree = Keys(m) \ {<<>>} /\ \A k \in DOMAIN tree : AlbumOf(tree[k], songs, m, k, conf)
      BY <2>5 DEF CompleteUpto
    <3>2. DOMAIN next = Keys(n) \ {<<>>}
      <4> HIDE DEF Keys
      <4> QED
        BY <1>2, <1>4, <2>1, <3>1
    <3>3. \A k \in DOMAIN tree : k # key => AlbumOf(next[k], songs, n, k, conf)
      <4>1. SUFFICES ASSUME NEW k \in DOMAIN tree, k # key PROVE AlbumOf(next[k], songs, n, k, conf)
        OBVIOUS
      <4>2. next[k] = tree[k] /\ AlbumOf(tree[k], songs, m, k, conf) /\ KeyAt(songs, n, conf) # k
        BY <2>1, <3>1, <4>1 DEF key, KeyAt
      <4> QED
        BY <1>1, <4>2, AlbumStays
    <3>4. AlbumOf(next[key], songs, n, key, conf)
      <4>1. KeyAt(songs, n, conf) = key /\ s = songs[n] /\ key = SongKey(s, conf) /\ SongAt(songs, n) = AlbumSongs[s]
        BY DEF key, KeyAt, SongAt
      <4>2. CASE key \in DOMAIN tree
        <5> DEFINE a == tree[key]
                   b == next[key]
        <5>1. AlbumOf(a, songs, m, key, conf) /\ KeyedAlbum(a, key, conf) /\ b = AddSong(a, s)
          BY <2>1, <2>2, <3>1, <4>2
        <5>2. a.modified \in Nat /\ a.added \in Nat
          BY <5>1 DEF KeyedAlbum, AlbumRecords
        <5> HIDE DEF a, b
        <5>3. /\ b.count = a.count + 1 /\ b.time = a.time + SongAt(songs, n).time
              /\ b.modified = LastModified(a.modified, SongAt(songs, n).modified)
              /\ b.added = Added(a.added, SongAt(songs, n).added)
              /\ \A t \in {"Artist", "Genre"} :
                   ToSet(b.tags[t]) = ToSet(a.tags[t]) \union ToSet(SongAt(songs, n).tags[t])
          <6> HIDE DEF s
          <6>1. KeyedAlbum(a, SongKey(s, conf), conf)
            BY <4>1, <5>1
          <6>2. LET song == AlbumSongs[s]
                    c == AddSong(a, s)
                IN /\ c.count = a.count + 1 /\ c.time = a.time + song.time
                   /\ c.modified = LastModified(a.modified, song.modified) /\ c.added = Added(a.added, song.added)
                   /\ \A t \in {"Artist", "Genre"} : ToSet(c.tags[t]) = ToSet(a.tags[t]) \union ToSet(song.tags[t])
            BY <1>1, <6>1, AddSongIs
          <6> QED
            BY <4>1, <5>1, <6>2
        <5>4. AlbumOf(b, songs, n, key, conf)
          BY <1>1, <4>1, <5>1, <5>2, <5>3, AlbumGrows
        <5> QED
          BY <5>4 DEF b
      <4>3. CASE key \notin DOMAIN tree
        <5> DEFINE a == next[key]
        <5>1. a = NewAlbum(s, conf)
          BY <2>1, <4>3
        <5> HIDE DEF a
        <5>2. \A i \in 1..m : KeyAt(songs, i, conf) # key
          BY <1>4, <3>1, <4>3 DEF KeyAt
        <5>3. /\ a.count = 1 /\ a.time = SongAt(songs, n).time /\ a.modified = SongAt(songs, n).modified
              /\ a.added = SongAt(songs, n).added
              /\ \A t \in {"Artist", "Genre"} : ToSet(a.tags[t]) = ToSet(SongAt(songs, n).tags[t])
          BY <1>1, <1>4, <4>1, <5>1, NewAlbumIs
        <5>4. AlbumOf(a, songs, n, key, conf)
          BY <1>1, <4>1, <5>2, <5>3, AlbumStarts
        <5> QED
          BY <5>4 DEF a
      <4> QED
        BY <4>2, <4>3
    <3>5. \A k \in DOMAIN next : AlbumOf(next[k], songs, n, k, conf)
      BY <2>1, <3>3, <3>4
    <3> QED
      BY <3>2, <3>5 DEF CompleteUpto
  <2> QED
    BY <2>4, <2>5 DEF next
<1> QED
  BY <1>3, <1>4

(* What MPD lists of its songs, and of its albums.                         *)
LEMMA ListedIs ==
  ASSUME NEW lib \in AlbumLibraries, NEW conf
  PROVE  Listed(lib, conf) \in Seq(DOMAIN AlbumSongs)
<1> DEFINE I == {i \in DOMAIN lib :
                   LET tags == AlbumSongs[lib[i]].tags
                   IN /\ tags["AlbumArtist"] # <<>> \/ tags["Artist"] # <<>>
                      /\ conf.unknown \/ tags["Album"] # <<>>}
<1>1. lib \in Seq(DOMAIN AlbumSongs)
  BY AlbumAssumption DEF AlbumAssumption
<1>2. I \in SUBSET (DOMAIN lib) /\ Listed(lib, conf) = EntriesAt(lib, I)
  BY DEF Listed
<1> HIDE DEF I
<1> QED
  BY <1>1, <1>2, AtPositions

PairRecords == [artist : AlbumNames, name : AlbumNames \union {NoTag}, group : AlbumNames \union {NoTag}]
LEMMA PairsIs ==
  ASSUME NEW lib \in AlbumLibraries, NEW conf \in AlbumConfigs
  PROVE  Pairs(lib, conf) \in Seq(PairRecords)
<1> DEFINE of(s) == ToSet(ArtistsOf(AlbumSongs[s].tags))
           songs == ToSet(lib)
           named(s) == {<<a, s>> : a \in of(s)}
           all == UNION {named(s) : s \in songs}
           S == {Pair(x[1], x[2], conf) : x \in all}
<1>1. lib \in Seq(DOMAIN AlbumSongs)
  BY AlbumAssumption DEF AlbumAssumption
<1>2. \A v : (\E T : v \in Seq(T)) => IsFiniteSet(ToSet(v))
  <2>1. SUFFICES ASSUME NEW v, NEW T, v \in Seq(T) PROVE IsFiniteSet(ToSet(v))
    OBVIOUS
  <2>2. DOMAIN v = 1..Len(v) /\ Len(v) \in Nat
    BY <2>1
  <2>3. IsFiniteSet(DOMAIN v)
    BY <2>2, FS_Interval
  <2>4. IsFiniteSet({v[i] : i \in DOMAIN v})
    BY <2>3, FiniteImage
  <2> QED
    BY <2>4 DEF ToSet
<1>3. IsFiniteSet(songs) /\ songs \subseteq DOMAIN AlbumSongs
  BY <1>1, <1>2 DEF ToSet
<1>4. \A s \in DOMAIN AlbumSongs : IsFiniteSet(of(s)) /\ of(s) \subseteq AlbumNames
  <2>1. SUFFICES ASSUME NEW s \in DOMAIN AlbumSongs PROVE IsFiniteSet(of(s)) /\ of(s) \subseteq AlbumNames
    OBVIOUS
  <2>2. PICK t \in AlbumTags : of(s) = ToSet(AlbumSongs[s].tags[t])
    BY DEF AlbumTags, MultiTags, ArtistsOf
  <2>3. PICK v : v = AlbumSongs[s].tags[t]
    OBVIOUS
  <2>4. v \in AlbumValues
    BY <2>3, SongTyped
  <2>5. IsFiniteSet(ToSet(v))
    BY <1>2, <2>4 DEF AlbumValues
  <2>6. ToSet(v) \subseteq AlbumNames
    BY <2>3 DEF AlbumNames
  <2> HIDE DEF of
  <2> QED
    BY <2>2, <2>3, <2>5, <2>6
<1> HIDE DEF of, songs
<1>5. IsFiniteSet(all)
  <2>1. \A s \in songs : IsFiniteSet(named(s))
    <3>1. SUFFICES ASSUME NEW s \in songs PROVE IsFiniteSet({<<a, s>> : a \in of(s)})
      OBVIOUS
    <3> DEFINE pair == [a \in of(s) |-> <<a, s>>]
    <3>2. {<<a, s>> : a \in of(s)} = {pair[a] : a \in of(s)}
      OBVIOUS
    <3>3. IsFiniteSet(of(s))
      BY <1>3, <1>4
    <3> HIDE DEF pair
    <3> QED
      BY <3>2, <3>3, FiniteImage
  <2> DEFINE pairs == [s \in songs |-> named(s)]
             sets == {pairs[s] : s \in songs}
  <2>2. all = UNION sets
    OBVIOUS
  <2>3. \A T \in sets : IsFiniteSet(T)
    BY <2>1
  <2> HIDE DEF pairs
  <2>4. IsFiniteSet(sets)
    BY <1>3, FiniteImage
  <2> HIDE DEF sets, all
  <2> QED
    BY <2>2, <2>3, <2>4, FS_UNION
<1>6. S \subseteq PairRecords
  <2>1. \A x \in all : x[1] \in AlbumNames /\ x[2] \in DOMAIN AlbumSongs
    <3>1. SUFFICES ASSUME NEW s \in songs, NEW a \in of(s) PROVE a \in AlbumNames /\ s \in DOMAIN AlbumSongs
      OBVIOUS
    <3> QED
      BY <1>3, <1>4
  <2>2. ASSUME NEW a \in AlbumNames, NEW s \in DOMAIN AlbumSongs PROVE Pair(a, s, conf) \in PairRecords
    <3>1. ASSUME NEW t \in AlbumTags PROVE FirstOf(AlbumSongs[s].tags[t]) \in AlbumNames \union {NoTag}
      <4>1. PICK v : v = AlbumSongs[s].tags[t]
        OBVIOUS
      <4>2. v \in AlbumValues /\ ToSet(v) \subseteq AlbumNames
        BY <4>1, SongTyped DEF AlbumNames
      <4>3. v # <<>> => Head(v) \in AlbumNames
        BY <4>2 DEF ToSet, AlbumValues
      <4> QED
        BY <4>1, <4>3 DEF FirstOf
    <3>2. FirstOf(AlbumSongs[s].tags["Album"]) \in AlbumNames \union {NoTag}
      BY <3>1 DEF AlbumTags
    <3>3. conf.group # NoTag => conf.group \in AlbumTags
      BY ConfTyped DEF AlbumTags, MultiTags
    <3>4. GroupOf(AlbumSongs[s].tags, conf) \in AlbumNames \union {NoTag}
      BY <3>1, <3>3 DEF GroupOf
    <3> QED
      BY <3>2, <3>4 DEF Pair, PairRecords
  <2> HIDE DEF all
  <2> QED
    BY <2>1, <2>2
<1>7. IsFiniteSet(S)
  <2> DEFINE pair == [x \in all |-> Pair(x[1], x[2], conf)]
  <2>1. S = {pair[x] : x \in all}
    OBVIOUS
  <2> HIDE DEF pair, all, S
  <2> QED
    BY <1>5, <2>1, FiniteImage
<1>8. Pairs(lib, conf) = SetToSeq(S)
  BY DEF Pairs, of, songs
<1> HIDE DEF S
<1>9. Cardinality(S) \in Nat /\ \E f \in [1..Cardinality(S) -> S] : IsInjective(f)
  <2>1. PICK n \in Nat : ExistsBijection(1..n, S)
    BY <1>7, FS_NatBijection
  <2>2. Cardinality(S) = n
    BY <2>1, FS_CountingElements
  <2> QED
    BY <2>1, <2>2 DEF ExistsBijection, Bijection, Injection
<1>10. SetToSeq(S) \in [1..Cardinality(S) -> S]
  BY <1>9 DEF SetToSeq
<1> QED
  BY <1>6, <1>8, <1>9, <1>10

(* A page of a list: its entries are the next ones, and it is full or the  *)
(* last.                                                                   *)
LEMMA PageIs ==
  ASSUME NEW S, NEW list \in Seq(S), NEW start \in Nat
  PROVE  LET end == start + AlbumPage
             page == SubSeq(list, start + 1, IF end < Len(list) THEN end ELSE Len(list))
         IN /\ Len(page) \in 0..AlbumPage
            /\ \A j \in 1..Len(page) : start + j \in 1..Len(list) /\ page[j] = list[start + j]
            /\ Len(page) = AlbumPage => start + AlbumPage <= Len(list)
            /\ Len(page) < AlbumPage /\ start <= Len(list) => start + Len(page) = Len(list)
<1> DEFINE end == start + AlbumPage
           last == IF end < Len(list) THEN end ELSE Len(list)
           page == SubSeq(list, start + 1, last)
<1>1. AlbumPage \in Nat /\ AlbumPage > 0 /\ Len(list) \in Nat
  BY AlbumAssumption DEF AlbumAssumption
<1>2. last \in Nat /\ last <= Len(list) /\ last <= start + AlbumPage
      /\ (last = Len(list) \/ last = start + AlbumPage)
  BY <1>1
<1> HIDE DEF last
<1>3. CASE start + 1 <= last
  <2>1. Len(page) = last - start /\ \A j \in 1..last - start : page[j] = list[start + j]
    <3>1. /\ Len(page) = last - (start + 1) + 1
          /\ \A j \in 1..last - (start + 1) + 1 : page[j] = list[(start + 1) + j - 1]
      BY <1>1, <1>2, <1>3
    <3> QED
      BY <1>1, <1>2, <3>1
  <2> HIDE DEF page
  <2> QED
    BY <1>1, <1>2, <1>3, <2>1 DEF page, last
<1>4. CASE last < start + 1
  <2>1. page = <<>> /\ Len(page) = 0
    BY <1>1, <1>2, <1>4
  <2> HIDE DEF page
  <2> QED
    BY <1>1, <1>2, <1>4, <2>1 DEF page, last
<1> QED
  BY <1>1, <1>2, <1>3, <1>4

(* A page is folded entry by entry.                                        *)
FoldOne(tree, page, n, once) ==
  IF albumConf.mode = "adv" THEN Fold(tree, page[n], albumConf) ELSE InsertPair(tree, page, n, once, albumConf)
LEMMA FoldedRuns ==
  ASSUME NEW tree, NEW page, NEW once, Len(page) \in Nat
  PROVE  \E f : /\ f[0] = tree /\ Folded(tree, page, once) = f[Len(page)]
                /\ \A n \in 1..Len(page) : f[n] = FoldOne(f[n - 1], page, n, once)
<1> DEFINE N == Len(page)
           Body(f, m) == [n \in 0..m |-> IF n = 0 THEN tree
                                         ELSE IF albumConf.mode = "adv" THEN Fold(f[n - 1], page[n], albumConf)
                                         ELSE InsertPair(f[n - 1], page, n, once, albumConf)]
           Run(f, m) == [n \in 0..m |-> IF n = 0 THEN tree ELSE FoldOne(f[n - 1], page, n, once)]
           Ok == {m \in 0..N : \E f : f = Run(f, m)}
           loop == CHOOSE f : f = Body(f, N)
<1>1. 0 \in Ok
  <2>1. PICK f : f = [n \in 0..0 |-> tree]
    OBVIOUS
  <2>2. f = Run(f, 0)
    BY <2>1
  <2> QED
    BY <2>2
<1>2. ASSUME NEW m \in 1..N, m - 1 \in Ok PROVE m \in Ok
  <2>1. PICK f : f = Run(f, m - 1)
    BY <1>2
  <2>2. PICK g : g = [n \in 0..m |-> IF n = m THEN FoldOne(f[m - 1], page, m, once) ELSE f[n]]
    OBVIOUS
  <2>3. ASSUME NEW n \in 0..m PROVE g[n] = IF n = 0 THEN tree ELSE FoldOne(g[n - 1], page, n, once)
    <3>1. \A k \in 0..m - 1 : g[k] = f[k]
      BY <2>2
    <3>2. CASE n = m
      BY <2>2, <3>1, <3>2
    <3>3. CASE n # m
      <4>1. n \in 0..m - 1 /\ (n # 0 => n - 1 \in 0..m - 1)
        BY <3>3
      <4>2. f[n] = IF n = 0 THEN tree ELSE FoldOne(f[n - 1], page, n, once)
        BY <2>1, <4>1
      <4> QED
        BY <3>1, <4>1, <4>2
    <3> QED
      BY <3>2, <3>3
  <2>4. g = Run(g, m)
    BY <2>2, <2>3
  <2> QED
    BY <2>4
<1>3. N \in Ok
  <2>1. N \in Nat /\ \A n \in 1..N : n - 1 \in Ok => n \in Ok
    BY <1>2
  <2> HIDE DEF Ok, N
  <2>2. \A n \in 0..N : n \in Ok
    BY <1>1, <2>1, Induct
  <2> QED
    BY <2>1, <2>2
<1>4. loop = Body(loop, N)
  <2>1. PICK f : f = Run(f, N)
    BY <1>3
  <2>2. Run(f, N) = Body(f, N)
    BY DEF FoldOne
  <2>3. \E g : g = Body(g, N)
    BY <2>1, <2>2
  <2> HIDE DEF Body
  <2> QED
    BY <2>3
<1>5. Folded(tree, page, once) = loop[N]
  BY DEF Folded
<1> HIDE DEF loop
<1>6. loop[0] = tree /\ \A n \in 1..N : loop[n] = FoldOne(loop[n - 1], page, n, once)
  BY <1>4 DEF FoldOne
<1> QED
  BY <1>5, <1>6

(* An album of the simple mode has the key of its tags.                    *)
LEMMA AlbumInserted ==
  ASSUME NEW conf, conf.mode # "adv", NEW tree, KeyedTree(tree, conf), NEW tags \in [AlbumTags -> AlbumValues]
  PROVE  KeyedTree(InsertAlbum(tree, tags, conf), conf)
<1> DEFINE key == KeyOf(tags, conf)
           entry == [tags |-> tags, songs |-> {}, unknown |-> FALSE, discs |-> 0, count |-> 0,
                     time |-> 0, modified |-> 0, added |-> 0]
           next == InsertAlbum(tree, tags, conf)
<1>1. entry \in AlbumRecords
  BY DEF AlbumRecords, AlbumValues
<1>2. KeyedAlbum(entry, key, conf)
  BY <1>1 DEF KeyedAlbum, AlbumKey
<1> HIDE DEF entry, key
<1>3. CASE key \in DOMAIN tree
  BY <1>3 DEF InsertAlbum, key
<1>4. CASE key \notin DOMAIN tree
  <2>1. next = [k \in DOMAIN tree \union {key} |-> IF k # key THEN tree[k] ELSE entry]
    BY <1>4 DEF InsertAlbum, key, entry
  <2> HIDE DEF next
  <2>2. KeyedTree(next, conf)
    BY <1>2, <2>1 DEF KeyedTree
  <2> QED
    BY <2>2 DEF next
<1> QED
  BY <1>3, <1>4

LEMMA PairInserted ==
  ASSUME NEW conf, conf.mode # "adv", NEW tree, KeyedTree(tree, conf), NEW page, NEW n, NEW once,
         page[n] \in PairRecords
  PROVE  KeyedTree(InsertPair(tree, page, n, once, conf), conf)
<1>1. ASSUME NEW pair \in PairRecords, pair.name # NoTag PROVE PairTags(pair, conf) \in [AlbumTags -> AlbumValues]
  <2> DEFINE tags == [t \in AlbumTags |-> CASE t \in {"Artist", "AlbumArtist"} -> <<pair.artist>>
                                            [] t = "Album" -> <<pair.name>>
                                            [] OTHER -> <<>>]
  <2>1. pair.artist \in AlbumNames /\ pair.name \in AlbumNames /\ (pair.group # NoTag => pair.group \in AlbumNames)
    BY <1>1 DEF PairRecords
  <2>2. <<pair.artist>> \in AlbumValues /\ <<pair.name>> \in AlbumValues /\ <<>> \in AlbumValues
    BY <2>1 DEF AlbumValues
  <2>3. \A t \in AlbumTags : tags[t] \in AlbumValues
    BY <2>2
  <2>4. tags \in [AlbumTags -> AlbumValues]
    BY <2>3
  <2>5. \A v \in AlbumValues, x \in AlbumNames : AppendTag(v, x) \in AlbumValues
    BY DEF AppendTag, AlbumValues
  <2>6. PairTags(pair, conf) = IF pair.group = NoTag THEN tags
                               ELSE [tags EXCEPT ![conf.group] = AppendTag(tags[conf.group], pair.group)]
    BY DEF PairTags
  <2> HIDE DEF tags
  <2>7. conf.group \in AlbumTags /\ pair.group # NoTag => AppendTag(tags[conf.group], pair.group) \in AlbumValues
    BY <2>1, <2>4, <2>5
  <2>8. \A f \in [AlbumTags -> AlbumValues] : \A x, y :
          (x \in AlbumTags => y \in AlbumValues) => [f EXCEPT ![x] = y] \in [AlbumTags -> AlbumValues]
    OBVIOUS
  <2>9. CASE pair.group = NoTag
    BY <2>4, <2>6, <2>9
  <2>10. CASE pair.group # NoTag
    BY <2>4, <2>6, <2>7, <2>8, <2>10
  <2> QED
    BY <2>9, <2>10
<1> QED
  BY <1>1, AlbumInserted DEF InsertPair

(* The lines of a page are counted by a number.                            *)
LEMMA CountedIs ==
  ASSUME NEW page, NEW once, Len(page) \in Nat
  PROVE  Counted(page, once) \in Nat
<1>1. PICK n \in Nat : n = Len(page)
  OBVIOUS
<1>2. IsFiniteSet(1..Len(page))
  BY <1>1, FS_Interval
<1>3. \A S : S \subseteq 1..Len(page) => IsFiniteSet(S)
  BY <1>2, FS_Subset
<1>4. \A S : S \subseteq 1..Len(page) => Cardinality(S) \in Nat
  BY <1>3, FS_CardinalityType
<1> DEFINE fresh == {i \in 1..Len(page) : ~Repeats(page, i, once)}
           grouped == {i \in 1..Len(page) : i \in fresh \/ page[i - 1].group # page[i].group}
<1>5. Cardinality(fresh) \in Nat /\ Cardinality(grouped) \in Nat
  BY <1>4
<1>6. PairLines(page, once, albumConf) = Len(page) + Cardinality(fresh)
                                         + (IF albumConf.group = NoTag THEN 0 ELSE Cardinality(grouped))
  BY DEF PairLines
<1> HIDE DEF fresh, grouped
<1> QED
  BY <1>5, <1>6 DEF Counted

(* A page of songs keeps the tree keyed, and complete up to its end.       *)
LEMMA SongsFolded ==
  ASSUME albumConf \in AlbumConfigs, albumConf.mode = "adv",
         NEW songs \in Seq(DOMAIN AlbumSongs), NEW start \in Nat, NEW page, NEW once, Len(page) \in Nat,
         \A j \in 1..Len(page) : start + j \in 1..Len(songs) /\ page[j] = songs[start + j],
         NEW tree, KeyedTree(tree, albumConf)
  PROVE  /\ KeyedTree(Folded(tree, page, once), albumConf)
         /\ CompleteUpto(tree, songs, start, albumConf) =>
              CompleteUpto(Folded(tree, page, once), songs, start + Len(page), albumConf)
<1> DEFINE N == Len(page)
<1>0. ASSUME NEW was, NEW entries, NEW again, Len(entries) \in Nat
      PROVE  \E f : /\ f[0] = was /\ Folded(was, entries, again) = f[Len(entries)]
                    /\ \A n \in 1..Len(entries) : f[n] = FoldOne(f[n - 1], entries, n, again)
  BY <1>0, FoldedRuns
<1>1. PICK f : /\ f[0] = tree /\ Folded(tree, page, once) = f[N]
               /\ \A n \in 1..N : f[n] = FoldOne(f[n - 1], page, n, once)
  BY <1>0
<1> DEFINE Good(j) == /\ KeyedTree(f[j], albumConf)
                      /\ CompleteUpto(tree, songs, start, albumConf) =>
                           CompleteUpto(f[j], songs, start + j, albumConf)
           Ok == {j \in 0..N : Good(j)}
<1>2. 0 \in Ok
  <2>1. start + 0 = start /\ 0 \in 0..N
    OBVIOUS
  <2> HIDE DEF N
  <2> QED
    BY <1>1, <2>1
<1>3. ASSUME NEW j \in 1..N, Good(j - 1) PROVE Good(j)
  <2> DEFINE m == start + (j - 1)
             n == start + j
             s == songs[n]
  <2>1. n \in 1..Len(songs) /\ page[j] = s /\ m \in Nat /\ j - 1 \in 0..N
    OBVIOUS
  <2>2. Follows(n, m)
    BY DEF Follows
  <2>3. f[j] = FoldOne(f[j - 1], page, j, once)
    BY <1>1
  <2>4. f[j] = Fold(f[j - 1], s, albumConf)
    BY <2>1, <2>3 DEF FoldOne
  <2> DEFINE was == f[j - 1]
  <2>5. KeyedTree(was, albumConf)
        /\ (CompleteUpto(tree, songs, start, albumConf) => CompleteUpto(was, songs, m, albumConf))
    BY <1>3
  <2>6. f[j] = Fold(was, songs[n], albumConf)
    BY <2>4
  <2> HIDE DEF m, n, s, N, was
  <2>7. /\ KeyedTree(Fold(was, songs[n], albumConf), albumConf)
        /\ CompleteUpto(was, songs, m, albumConf) =>
             CompleteUpto(Fold(was, songs[n], albumConf), songs, n, albumConf)
    BY <2>1, <2>2, <2>5, FoldSong
  <2>8. /\ KeyedTree(f[j], albumConf)
        /\ CompleteUpto(tree, songs, start, albumConf) => CompleteUpto(f[j], songs, n, albumConf)
    BY <2>5, <2>6, <2>7
  <2> QED
    BY <2>8 DEF n
<1>4. N \in Ok
  <2>1. N \in Nat /\ \A n \in 1..N : n - 1 \in Ok => n \in Ok
    <3>1. N \in Nat /\ \A n \in 1..N : n - 1 \in 0..N /\ n \in 0..N
      OBVIOUS
    <3>2. \A n \in 1..N : Good(n - 1) => Good(n)
      BY <1>3
    <3> HIDE DEF Good, N
    <3> QED
      BY <3>1, <3>2
  <2> HIDE DEF Ok, N
  <2>2. \A n \in 0..N : n \in Ok
    BY <1>2, <2>1, Induct
  <2> QED
    BY <2>1, <2>2
<1>5. Good(N)
  <2> HIDE DEF Good, N
  <2> QED
    BY <1>4
<1> QED
  BY <1>1, <1>5

(* A page of albums keeps the tree keyed.                                  *)
LEMMA PairsFolded ==
  ASSUME albumConf.mode # "adv", NEW page, NEW once, Len(page) \in Nat,
         \A j \in 1..Len(page) : page[j] \in PairRecords,
         NEW tree, KeyedTree(tree, albumConf)
  PROVE  KeyedTree(Folded(tree, page, once), albumConf)
<1> DEFINE N == Len(page)
<1>1. PICK f : /\ f[0] = tree /\ Folded(tree, page, once) = f[N]
               /\ \A n \in 1..N : f[n] = FoldOne(f[n - 1], page, n, once)
  BY FoldedRuns
<1> DEFINE Ok == {j \in 0..N : KeyedTree(f[j], albumConf)}
<1>2. 0 \in Ok
  BY <1>1
<1>3. \A j \in 1..N : j - 1 \in Ok => j \in Ok
  <2>1. SUFFICES ASSUME NEW j \in 1..N, j - 1 \in Ok PROVE j \in Ok
    OBVIOUS
  <2>2. KeyedTree(f[j - 1], albumConf) /\ page[j] \in PairRecords /\ j \in 0..N
    BY <2>1
  <2>3. f[j] = InsertPair(f[j - 1], page, j, once, albumConf)
    BY <1>1 DEF FoldOne
  <2> DEFINE was == f[j - 1]
  <2> HIDE DEF was, N
  <2>4. KeyedTree(InsertPair(was, page, j, once, albumConf), albumConf)
    BY <2>2, PairInserted DEF was
  <2> QED
    BY <2>2, <2>3, <2>4 DEF was
<1> HIDE DEF Ok
<1>4. N \in Ok
  <2>1. N \in Nat
    OBVIOUS
  <2> HIDE DEF N
  <2>2. \A n \in 0..N : n \in Ok
    BY <1>2, <1>3, <2>1, Induct
  <2> QED
    BY <2>1, <2>2
<1> QED
  BY <1>1, <1>4 DEF Ok

LEMMA AlbumStart == AlbumInit => AlbumInv
<1>1. SUFFICES ASSUME AlbumInit PROVE AlbumInv
  OBVIOUS
<1>2. AlbumShape
  BY <1>1 DEF AlbumInit, AlbumShape, NoBuild, Hosts
<1>3. \A conf : KeyedTree(<<>>, conf)
  BY DEF KeyedTree
<1>4. KeptTrees
  BY <1>1 DEF AlbumInit, KeptTrees
<1>5. GoodResults
  <2>1. results \in Seq({}) /\ DOMAIN results = {}
    BY <1>1 DEF AlbumInit
  <2> QED
    BY <2>1 DEF GoodResults
<1>6. ReadSoFar
  BY <1>1, <1>3 DEF AlbumInit, ReadSoFar, NoBuild, Hosts
<1> QED
  BY <1>2, <1>4, <1>5, <1>6 DEF AlbumInv

(* A worker that has ended reads nothing.                                  *)
LEMMA NothingRead ==
  ASSUME builder' = NoBuild
  PROVE  /\ ReadSoFar'
         /\ builder' = [at |-> builder'.at, host |-> builder'.host, force |-> builder'.force,
                        start |-> builder'.start, seen |-> builder'.seen, tree |-> builder'.tree,
                        lib |-> builder'.lib, clean |-> builder'.clean]
<1>1. \A conf : KeyedTree(<<>>, conf)
  BY DEF KeyedTree
<1> QED
  BY <1>1 DEF ReadSoFar, NoBuild, Hosts

(* A result that a worker puts behind the others.                          *)
LEMMA ResultPut ==
  ASSUME GoodResults, UNCHANGED albumConf, NEW tree, results' = Result(tree),
         tree # NoTree => KeyedTree(tree, albumConf),
         tree # NoTree /\ builder.clean /\ albumConf.mode = "adv" => Complete(tree, builder.lib, albumConf)
  PROVE  GoodResults'
<1> DEFINE r == [tree |-> tree, lib |-> builder.lib, conf |-> albumConf, clean |-> builder.clean]
<1>1. results' = Append(results, r)
  BY DEF Result
<1>2. GoodResult(r)
  BY DEF GoodResult
<1> HIDE DEF r
<1>3. PICK S : results \in Seq(S)
  BY DEF GoodResults
<1>4. \A i \in 1..Len(results) : GoodResult(results[i])
  BY <1>3 DEF GoodResults
<1>5. /\ results' \in Seq(S \union {r}) /\ DOMAIN results' = 1..Len(results) + 1
      /\ results'[Len(results) + 1] = r /\ \A i \in 1..Len(results) : results'[i] = results[i]
      /\ Len(results) \in Nat
  BY <1>1, <1>3
<1>6. \A i \in DOMAIN results' : i \in 1..Len(results) \/ i = Len(results) + 1
  BY <1>5
<1>7. \A i \in DOMAIN results' : GoodResult(results'[i])
  BY <1>2, <1>4, <1>5, <1>6
<1>8. \A x : GoodResult(x) => GoodResult(x)'
  BY DEF GoodResult
<1>9. \A i \in DOMAIN results' : GoodResult(results[i])'
  <2>1. SUFFICES ASSUME NEW i \in DOMAIN results' PROVE GoodResult(results[i])'
    OBVIOUS
  <2>2. GoodResult(results'[i])
    BY <1>7
  <2> QED
    BY <2>2 DEF GoodResult
<1> QED
  BY <1>5, <1>9 DEF GoodResults

(* The steps that do not touch the trees, the results or the worker.       *)
LEMMA DatabaseEventStep == ASSUME AlbumInv, DatabaseEvent PROVE AlbumInv'
<1>1. /\ UNCHANGED <<mpds, albumHost, albumConf, results, builder, writers, cacheFile>>
      /\ album' = [album EXCEPT !.timer = TRUE]
  BY DEF DatabaseEvent
<1>2. AlbumShape' /\ album'.tree = album.tree
  BY <1>1 DEF AlbumInv, AlbumShape
<1>3. KeptTrees'
  BY <1>1, <1>2 DEF AlbumInv, KeptTrees
<1>4. GoodResults'
  BY <1>1 DEF AlbumInv, GoodResults, GoodResult
<1>5. ReadSoFar'
  BY <1>1 DEF AlbumInv, ReadSoFar
<1> QED
  BY <1>2, <1>3, <1>4, <1>5 DEF AlbumInv

LEMMA CreateCacheStep == ASSUME AlbumInv, CreateCache PROVE AlbumInv'
<1>1. UNCHANGED <<mpds, albumHost, albumConf, results, writers, cacheFile>>
  BY DEF CreateCache
<1>2. PICK force : CreateRequest(force)
  BY DEF CreateCache
<1>3. /\ album'.tree = album.tree
      /\ album' = [tree |-> album'.tree, mtime |-> album'.mtime, building |-> album'.building, timer |-> album'.timer]
  BY <1>2 DEF AlbumInv, AlbumShape, CreateRequest
<1>4. /\ builder' = [at |-> builder'.at, host |-> builder'.host, force |-> builder'.force,
                     start |-> builder'.start, seen |-> builder'.seen, tree |-> builder'.tree,
                     lib |-> builder'.lib, clean |-> builder'.clean]
      /\ ReadSoFar'
  <2>1. CASE album.building
    <3>1. builder' = builder
      BY <1>2, <2>1 DEF CreateRequest
    <3> QED
      BY <1>1, <3>1 DEF AlbumInv, AlbumShape, ReadSoFar
  <2>2. CASE ~album.building
    <3>1. builder' = [at |-> "check", host |-> albumHost, force |-> force, start |-> 0, seen |-> 0,
                      tree |-> <<>>, lib |-> <<>>, clean |-> TRUE]
      BY <1>2, <2>2 DEF CreateRequest, NoBuild
    <3>2. \A conf : KeyedTree(<<>>, conf)
      BY DEF KeyedTree
    <3> QED
      BY <1>1, <3>1, <3>2 DEF AlbumInv, AlbumShape, ReadSoFar
  <2> QED
    BY <2>1, <2>2
<1>5. AlbumShape'
  BY <1>1, <1>3, <1>4 DEF AlbumInv, AlbumShape
<1>6. KeptTrees'
  BY <1>1, <1>3 DEF AlbumInv, KeptTrees
<1>7. GoodResults'
  BY <1>1 DEF AlbumInv, GoodResults, GoodResult
<1> QED
  BY <1>4, <1>5, <1>6, <1>7 DEF AlbumInv

LEMMA CacheResultStep == ASSUME AlbumInv, CacheResult PROVE AlbumInv'
<1>1. /\ UNCHANGED <<mpds, albumHost, albumConf, builder, writers, cacheFile>>
      /\ results # <<>> /\ results' = Tail(results)
      /\ album' = IF Head(results).tree = NoTree THEN [album EXCEPT !.building = FALSE]
                  ELSE [album EXCEPT !.building = FALSE, !.tree = Head(results).tree, !.mtime = albumTime]
  BY DEF CacheResult
<1>2. PICK S : results \in Seq(S)
  BY DEF AlbumInv, GoodResults
<1>3. /\ Head(results) = results[1] /\ 1 \in DOMAIN results
      /\ results' \in Seq(S) /\ \A i \in DOMAIN results' : i + 1 \in DOMAIN results /\ results'[i] = results[i + 1]
  BY <1>1, <1>2
<1>4. \A i \in DOMAIN results : GoodResult(results[i])
  BY DEF AlbumInv, GoodResults
<1>5. /\ album'.tree # NoTree => album'.tree \in {album.tree, results[1].tree}
      /\ album' = [tree |-> album'.tree, mtime |-> album'.mtime, building |-> album'.building, timer |-> album'.timer]
  BY <1>1, <1>3 DEF AlbumInv, AlbumShape
<1>6. AlbumShape'
  BY <1>1, <1>5 DEF AlbumInv, AlbumShape
<1>7. album'.tree # NoTree => KeyedTree(album'.tree, albumConf)
  <2>1. results[1].tree # NoTree => KeyedTree(results[1].tree, albumConf)
    BY <1>3, <1>4 DEF GoodResult
  <2>2. album.tree # NoTree => KeyedTree(album.tree, albumConf)
    BY DEF AlbumInv, KeptTrees
  <2> QED
    BY <1>5, <2>1, <2>2
<1>8. KeptTrees'
  BY <1>1, <1>7 DEF AlbumInv, KeptTrees
<1>9. GoodResults'
  <2>1. \A i \in DOMAIN results' : GoodResult(results'[i])
    BY <1>3, <1>4
  <2>2. \A i \in DOMAIN results' : GoodResult(results[i])'
    BY <1>1, <2>1 DEF GoodResult
  <2> QED
    BY <1>3, <2>2 DEF GoodResults
<1>10. ReadSoFar'
  BY <1>1 DEF AlbumInv, ReadSoFar
<1> QED
  BY <1>6, <1>8, <1>9, <1>10 DEF AlbumInv

LEMMA OtherMpdStep == ASSUME AlbumInv, OtherMpd PROVE AlbumInv'
<1>1. /\ UNCHANGED <<mpds, albumConf, results, builder, writers>>
      /\ albumHost' \in Hosts /\ cacheFile' = NoTree /\ album' = Connected(album.mtime)
  BY DEF OtherMpd
<1>2. AlbumShape' /\ album'.tree = album.tree
  BY <1>1 DEF AlbumInv, AlbumShape, Connected
<1>3. KeptTrees'
  BY <1>1, <1>2 DEF AlbumInv, KeptTrees
<1>4. GoodResults'
  BY <1>1 DEF AlbumInv, GoodResults, GoodResult
<1>5. ReadSoFar'
  BY <1>1 DEF AlbumInv, ReadSoFar
<1> QED
  BY <1>2, <1>3, <1>4, <1>5 DEF AlbumInv

LEMMA AlbumRestartStep == ASSUME AlbumInv, AlbumRestart PROVE AlbumInv'
<1> DEFINE read == FileTree(albumConf')
<1>1. /\ UNCHANGED <<mpds, albumHost>> /\ albumConf' \in AlbumConfigs
      /\ results' = <<>> /\ builder' = NoBuild /\ writers' = {}
      /\ album' = [tree |-> read, mtime |-> FileTime, building |-> FALSE,
                   timer |-> mpds[albumHost].mtime > FileTime]
      /\ cacheFile' = IF read = NoTree THEN NoTree ELSE cacheFile
  BY DEF AlbumRestart
<1>2. read # NoTree => KeyedTree(read, albumConf')
  <2>1. SUFFICES ASSUME read # NoTree PROVE KeyedTree(read, albumConf')
    OBVIOUS
  <2> DEFINE conf == albumConf'
             tree == cacheFile.tree
  <2>2. cacheFile # NoTree /\ cacheFile.conf = conf /\ read = [k \in DOMAIN tree |-> Restored(tree[k], conf)]
    BY <2>1 DEF FileTree, SameConfig
  <2>3. KeyedTree(tree, conf)
    BY <2>2 DEF AlbumInv, KeptTrees
  <2> HIDE DEF tree, conf, read
  <2>4. SUFFICES ASSUME NEW k \in DOMAIN tree PROVE KeyedAlbum(Restored(tree[k], conf), k, conf)
    BY <2>2 DEF KeyedTree, conf
  <2> DEFINE a == tree[k]
             b == Restored(a, conf)
  <2>5. KeyedAlbum(a, k, conf)
    BY <2>3 DEF KeyedTree
  <2> HIDE DEF a
  <2>6. a \in AlbumRecords
    BY <2>5 DEF KeyedAlbum
  <2>7. b \in AlbumRecords /\ b.tags = a.tags /\ b.songs = a.songs
    BY <2>6 DEF AlbumRecords, Restored
  <2> HIDE DEF b
  <2>8. KeyedAlbum(b, k, conf)
    BY <2>5, <2>7 DEF KeyedAlbum, AlbumKey
  <2> QED
    BY <2>8 DEF a, b
<1> HIDE DEF read
<1>3. ReadSoFar' /\ builder' = [at |-> builder'.at, host |-> builder'.host, force |-> builder'.force,
                     start |-> builder'.start, seen |-> builder'.seen, tree |-> builder'.tree,
                     lib |-> builder'.lib, clean |-> builder'.clean]
  BY <1>1, NothingRead
<1>4. AlbumShape'
  BY <1>1, <1>3 DEF AlbumInv, AlbumShape
<1>5. KeptTrees'
  <2>1. cacheFile' # NoTree => cacheFile # NoTree /\ cacheFile' = cacheFile
    BY <1>1
  <2>2. cacheFile' # NoTree => KeyedTree(cacheFile'.tree, cacheFile'.conf)
    BY <2>1 DEF AlbumInv, KeptTrees
  <2>3. album'.tree = read /\ writers' = {}
    BY <1>1
  <2> QED
    BY <1>2, <2>2, <2>3 DEF KeptTrees
<1>6. GoodResults'
  <2>1. results' \in Seq({}) /\ DOMAIN results' = {}
    BY <1>1
  <2> QED
    BY <2>1 DEF GoodResults
<1> QED
  BY <1>3, <1>4, <1>5, <1>6 DEF AlbumInv

LEMMA CheckCacheStep == ASSUME AlbumInv, CheckCache PROVE AlbumInv'
<1>1. /\ UNCHANGED <<mpds, albumHost, albumConf, album, writers, cacheFile>>
      /\ builder.at = "check"
  BY DEF CheckCache
<1>2. KeptTrees'
  BY <1>1 DEF AlbumInv, KeptTrees
<1>3. CASE builder' = NoBuild /\ results' = Result(NoTree)
  <2>1. AlbumShape' /\ ReadSoFar'
    BY <1>1, <1>3, NothingRead DEF AlbumInv, AlbumShape
  <2>2. GoodResults'
    BY <1>1, <1>3, ResultPut DEF AlbumInv
  <2> QED
    BY <1>2, <2>1, <2>2 DEF AlbumInv
<1>4. CASE UNCHANGED results /\ builder' = [builder EXCEPT !.at = "page", !.lib = mpds[builder.host].songs]
  <2>1. builder' = [at |-> "page", host |-> builder.host, force |-> builder.force, start |-> builder.start,
                    seen |-> builder.seen, tree |-> builder.tree, lib |-> mpds[builder.host].songs,
                    clean |-> builder.clean]
    BY <1>4 DEF AlbumInv, AlbumShape
  <2>2. builder.host \in Hosts /\ builder.start = 0 /\ builder.seen = 0 /\ builder.tree = <<>>
    BY <1>1 DEF AlbumInv, ReadSoFar
  <2>3. KeyedTree(<<>>, albumConf)
    BY DEF KeyedTree
  <2>4. ASSUME NEW songs \in Seq(DOMAIN AlbumSongs)
        PROVE  0 <= Len(songs) /\ CompleteUpto(<<>>, songs, 0, albumConf)
    <3>1. DOMAIN <<>> = {} /\ 1..0 = {}
      OBVIOUS
    <3> QED
      BY <3>1 DEF CompleteUpto
  <2>5. mpds[builder.host].songs \in AlbumLibraries /\ albumConf \in AlbumConfigs
    BY <2>2 DEF AlbumInv, AlbumShape
  <2>6. Listed(mpds[builder.host].songs, albumConf) \in Seq(DOMAIN AlbumSongs)
    BY <2>5, ListedIs
  <2>7. ReadSoFar'
    BY <1>1, <2>1, <2>2, <2>3, <2>4, <2>6 DEF ReadSoFar
  <2>8. AlbumShape'
    BY <1>1, <2>1 DEF AlbumInv, AlbumShape
  <2>9. GoodResults'
    BY <1>1, <1>4 DEF AlbumInv, GoodResults, GoodResult
  <2> QED
    BY <1>2, <2>7, <2>8, <2>9 DEF AlbumInv
<1> QED
  BY <1>3, <1>4 DEF CheckCache

LEMMA ReadFailsStep == ASSUME AlbumInv, ReadFails PROVE AlbumInv'
<1>1. /\ UNCHANGED <<mpds, albumHost, albumConf, album, writers, cacheFile>>
      /\ builder' = NoBuild /\ results' = Result(NoTree)
  BY DEF ReadFails
<1>2. KeptTrees'
  BY <1>1 DEF AlbumInv, KeptTrees
<1>3. AlbumShape' /\ ReadSoFar'
  BY <1>1, NothingRead DEF AlbumInv, AlbumShape
<1>4. GoodResults'
  BY <1>1, ResultPut DEF AlbumInv
<1> QED
  BY <1>2, <1>3, <1>4 DEF AlbumInv

LEMMA WriteCacheStep == ASSUME AlbumInv, WriteCache PROVE AlbumInv'
<1>1. UNCHANGED <<mpds, albumHost, albumConf, album, results, builder>>
  BY DEF WriteCache
<1>2. PICK tree \in writers :
        /\ writers' = writers \ {tree}
        /\ \/ cacheFile' = [tree |-> tree, conf |-> albumConf, mtime |-> albumTime]
           \/ UNCHANGED cacheFile
  BY DEF WriteCache
<1>3. KeptTrees'
  <2>1. KeyedTree(tree, albumConf) /\ \A other \in writers' : KeyedTree(other, albumConf)
    BY <1>2 DEF AlbumInv, KeptTrees
  <2>2. cacheFile' # NoTree => KeyedTree(cacheFile'.tree, cacheFile'.conf)
    BY <1>2, <2>1 DEF AlbumInv, KeptTrees
  <2> QED
    BY <1>1, <2>1, <2>2 DEF AlbumInv, KeptTrees
<1>4. AlbumShape'
  BY <1>1 DEF AlbumInv, AlbumShape
<1>5. GoodResults'
  BY <1>1 DEF AlbumInv, GoodResults, GoodResult
<1>6. ReadSoFar'
  BY <1>1 DEF AlbumInv, ReadSoFar
<1> QED
  BY <1>3, <1>4, <1>5, <1>6 DEF AlbumInv

LEMMA UpdateDatabaseStep == ASSUME AlbumInv, UpdateDatabase PROVE AlbumInv'
<1>1. /\ UNCHANGED <<albumHost, albumConf, album, results, writers, cacheFile>>
      /\ builder' = [builder EXCEPT !.clean = @ /\ (builder.at # "page" \/ builder.host # albumHost)]
  BY DEF UpdateDatabase
<1>2. PICK lib \in AlbumLibraries : mpds' = [mpds EXCEPT ![albumHost] = [songs |-> lib, mtime |-> albumTime]]
  BY DEF UpdateDatabase
<1>3. builder' = [at |-> builder.at, host |-> builder.host, force |-> builder.force, start |-> builder.start,
                  seen |-> builder.seen, tree |-> builder.tree, lib |-> builder.lib,
                  clean |-> builder.clean /\ (builder.at # "page" \/ builder.host # albumHost)]
  BY <1>1 DEF AlbumInv, AlbumShape
<1>4. albumHost \in Hosts /\ DOMAIN mpds = Hosts /\ \A h \in Hosts : mpds[h].songs \in AlbumLibraries
  BY DEF AlbumInv, AlbumShape
<1>5. DOMAIN mpds' = Hosts /\ \A h \in Hosts : mpds'[h] = IF h = albumHost THEN [songs |-> lib, mtime |-> albumTime] ELSE mpds[h]
  BY <1>2, <1>4
<1>6. AlbumShape'
  BY <1>1, <1>3, <1>4, <1>5 DEF AlbumInv, AlbumShape
<1>7. ReadSoFar'
  <2>1. builder'.clean => builder.clean /\ (builder.at # "page" \/ builder.host # albumHost)
    BY <1>3
  <2>2. /\ builder'.at = builder.at /\ builder'.host = builder.host /\ builder'.start = builder.start
        /\ builder'.seen = builder.seen /\ builder'.tree = builder.tree /\ builder'.lib = builder.lib
    BY <1>3
  <2>3. builder.host \in Hosts
    BY DEF AlbumInv, ReadSoFar
  <2>4. builder.host # albumHost => mpds'[builder.host].songs = mpds[builder.host].songs
    BY <1>5, <2>3
  <2> QED
    BY <1>1, <2>1, <2>2, <2>4 DEF AlbumInv, ReadSoFar
<1>8. KeptTrees'
  BY <1>1 DEF AlbumInv, KeptTrees
<1>9. GoodResults'
  BY <1>1 DEF AlbumInv, GoodResults, GoodResult
<1> QED
  BY <1>6, <1>7, <1>8, <1>9 DEF AlbumInv

LEMMA AlbumStill ==
  ASSUME AlbumInv, UNCHANGED <<mpds, albumHost, albumConf, album, results, builder, writers, cacheFile>>
  PROVE  AlbumInv'
<1>1. AlbumShape' /\ KeptTrees'
  BY DEF AlbumInv, AlbumShape, KeptTrees
<1>2. GoodResults' /\ ReadSoFar'
  BY DEF AlbumInv, GoodResults, GoodResult, ReadSoFar
<1> QED
  BY <1>1, <1>2 DEF AlbumInv

(* What a page does to the worker, its results and its file.               *)
LEMMA ReadPageStep ==
  ASSUME AlbumInv, builder.at = "page",
         UNCHANGED <<mpds, albumHost, albumConf, album, cacheFile>>,
         NEW S, NEW list \in Seq(S), NEW once, ReadPage(list, once),
         albumConf.mode = "adv" => list = Listed(mpds[builder.host].songs, albumConf),
         \A page : Len(page) \in Nat
                   /\ (\A j \in 1..Len(page) : builder.start + j \in 1..Len(list) /\ page[j] = list[builder.start + j])
           => /\ KeyedTree(Folded(builder.tree, page, once), albumConf)
              /\ albumConf.mode = "adv" /\ CompleteUpto(builder.tree, list, builder.start, albumConf) =>
                   CompleteUpto(Folded(builder.tree, page, once), list, builder.start + Len(page), albumConf)
  PROVE  AlbumInv'
<1> DEFINE end == builder.start + AlbumPage
           page == SubSeq(list, builder.start + 1, IF end < Len(list) THEN end ELSE Len(list))
           seen == builder.seen + Counted(page, once)
           start == NextStart(builder.start)
           tree == Folded(builder.tree, page, once)
           adv == albumConf.mode = "adv"
           conf == albumConf
<1>1. /\ builder.start \in Nat /\ builder.seen \in Nat /\ builder.host \in Hosts
      /\ builder.clean => builder.lib = mpds[builder.host].songs
      /\ adv => builder.seen = builder.start
      /\ adv /\ builder.clean =>
           LET songs == Listed(builder.lib, conf) IN
           builder.start <= Len(songs) /\ CompleteUpto(builder.tree, songs, builder.start, conf)
  BY DEF AlbumInv, ReadSoFar
<1>2. AlbumPage \in Nat /\ AlbumPage > 0 /\ Len(list) \in Nat
  BY AlbumAssumption DEF AlbumAssumption
<1>3. /\ Len(page) \in 0..AlbumPage
      /\ \A j \in 1..Len(page) : builder.start + j \in 1..Len(list) /\ page[j] = list[builder.start + j]
      /\ Len(page) = AlbumPage => builder.start + AlbumPage <= Len(list)
      /\ Len(page) < AlbumPage /\ builder.start <= Len(list) => builder.start + Len(page) = Len(list)
  BY <1>1, PageIs
<1>4. \/ /\ seen >= start /\ UNCHANGED <<results, writers>>
         /\ builder' = [builder EXCEPT !.start = start, !.seen = seen, !.tree = tree]
      \/ /\ ~(seen >= start) /\ builder' = NoBuild /\ results' = Result(tree) /\ writers' = writers \union {tree}
  BY DEF ReadPage
<1>5. start = builder.start + AlbumPage
  BY DEF NextStart
<1> HIDE DEF page
<1>6. /\ KeyedTree(tree, conf)
      /\ adv /\ CompleteUpto(builder.tree, list, builder.start, conf) =>
           CompleteUpto(tree, list, builder.start + Len(page), conf)
  BY <1>2, <1>3
<1>7. adv => seen = builder.start + Len(page)
  BY <1>1, <1>2, <1>3 DEF Counted
<1>8. seen \in Nat /\ start \in Nat
  <2>1. Counted(page, once) \in Nat
    BY <1>3, CountedIs
  <2> QED
    BY <1>1, <1>2, <1>5, <2>1
<1>9. adv /\ builder.clean => /\ list = Listed(builder.lib, conf) /\ builder.start <= Len(list)
                              /\ CompleteUpto(tree, list, builder.start + Len(page), conf)
  BY <1>1, <1>6
<1> HIDE DEF seen, start, tree
<1>10. CASE seen >= start /\ builder' = [builder EXCEPT !.start = start, !.seen = seen, !.tree = tree]
            /\ UNCHANGED <<results, writers>>
  <2>1. builder' = [at |-> builder.at, host |-> builder.host, force |-> builder.force, start |-> start,
                    seen |-> seen, tree |-> tree, lib |-> builder.lib, clean |-> builder.clean]
    BY <1>10 DEF AlbumInv, AlbumShape
  <2>2. adv => Len(page) = AlbumPage /\ seen = start /\ start <= Len(list) /\ builder.start + Len(page) = start
    BY <1>1, <1>2, <1>3, <1>5, <1>7, <1>10
  <2>3. adv /\ builder.clean => start <= Len(Listed(builder.lib, conf))
                                /\ CompleteUpto(tree, Listed(builder.lib, conf), start, conf)
    BY <1>9, <2>2
  <2>4. ReadSoFar'
    BY <1>1, <1>6, <1>8, <2>1, <2>2, <2>3 DEF ReadSoFar
  <2>5. AlbumShape' /\ KeptTrees'
    BY <1>10, <2>1 DEF AlbumInv, AlbumShape, KeptTrees
  <2>6. GoodResults'
    BY <1>10 DEF AlbumInv, GoodResults, GoodResult
  <2> QED
    BY <2>4, <2>5, <2>6 DEF AlbumInv
<1>11. CASE ~(seen >= start) /\ builder' = NoBuild /\ results' = Result(tree) /\ writers' = writers \union {tree}
  <2>1. adv => Len(page) < AlbumPage
    BY <1>1, <1>2, <1>3, <1>5, <1>7, <1>11
  <2>2. adv /\ builder.clean => Complete(tree, builder.lib, conf)
    <3>1. adv /\ builder.clean => CompleteUpto(tree, list, Len(list), conf) /\ list = Listed(builder.lib, conf)
      BY <1>3, <1>9, <2>1
    <3> QED
      BY <3>1 DEF Complete
  <2>3. GoodResults'
    BY <1>6, <1>11, <2>2, ResultPut DEF AlbumInv
  <2>4. AlbumShape' /\ ReadSoFar'
    BY <1>11, NothingRead DEF AlbumInv, AlbumShape
  <2>5. KeptTrees'
    BY <1>6, <1>11 DEF AlbumInv, KeptTrees
  <2> QED
    BY <2>3, <2>4, <2>5 DEF AlbumInv
<1> QED
  BY <1>4, <1>10, <1>11

LEMMA ReadAlbumsStep == ASSUME AlbumInv, ReadAlbums PROVE AlbumInv'
<1>1. /\ UNCHANGED <<mpds, albumHost, albumConf, album, cacheFile>> /\ builder.at = "page"
  BY DEF ReadAlbums
<1>2. /\ builder.start \in Nat /\ builder.host \in Hosts /\ KeyedTree(builder.tree, albumConf)
      /\ albumConf \in AlbumConfigs
      /\ mpds[builder.host].songs \in AlbumLibraries
  BY DEF AlbumInv, ReadSoFar, AlbumShape
<1>3. CASE CacheSongs
  <2> DEFINE list == Listed(mpds[builder.host].songs, albumConf)
  <2>1. albumConf.mode = "adv" /\ ReadPage(list, FALSE)
    BY <1>3 DEF CacheSongs
  <2>2. list \in Seq(DOMAIN AlbumSongs)
    BY <1>2, ListedIs
  <2> HIDE DEF list
  <2>3. \A page : Len(page) \in Nat
                  /\ (\A j \in 1..Len(page) : builder.start + j \in 1..Len(list) /\ page[j] = list[builder.start + j])
          => /\ KeyedTree(Folded(builder.tree, page, FALSE), albumConf)
             /\ albumConf.mode = "adv" /\ CompleteUpto(builder.tree, list, builder.start, albumConf) =>
                  CompleteUpto(Folded(builder.tree, page, FALSE), list, builder.start + Len(page), albumConf)
    BY <1>2, <2>1, <2>2, SongsFolded
  <2>4. list = Listed(mpds[builder.host].songs, albumConf)
    BY DEF list
  <2> QED
    BY <1>1, <2>1, <2>2, <2>3, <2>4, ReadPageStep
<1>4. CASE CacheSimple
  <2> DEFINE list == Pairs(mpds[builder.host].songs, albumConf)
  <2>1. PICK once \in BOOLEAN : albumConf.mode # "adv" /\ ReadPage(list, once)
    BY <1>4 DEF CacheSimple
  <2>2. list \in Seq(PairRecords)
    BY <1>2, PairsIs
  <2> HIDE DEF list
  <2>3. \A page : Len(page) \in Nat
                  /\ (\A j \in 1..Len(page) : builder.start + j \in 1..Len(list) /\ page[j] = list[builder.start + j])
          => /\ KeyedTree(Folded(builder.tree, page, once), albumConf)
             /\ albumConf.mode = "adv" /\ CompleteUpto(builder.tree, list, builder.start, albumConf) =>
                  CompleteUpto(Folded(builder.tree, page, once), list, builder.start + Len(page), albumConf)
    <3>1. SUFFICES ASSUME NEW page, Len(page) \in Nat,
                          \A j \in 1..Len(page) : builder.start + j \in 1..Len(list) /\ page[j] = list[builder.start + j]
                   PROVE  KeyedTree(Folded(builder.tree, page, once), albumConf)
      BY <2>1
    <3>2. \A i \in 1..Len(list) : list[i] \in PairRecords
      BY <2>2
    <3>3. \A j \in 1..Len(page) : page[j] \in PairRecords
      BY <3>1, <3>2
    <3> QED
      BY <1>2, <2>1, <3>1, <3>3, PairsFolded
  <2> QED
    BY <1>1, <2>1, <2>2, <2>3, ReadPageStep
<1> QED
  BY <1>3, <1>4 DEF ReadAlbums

LEMMA AlbumStep ==
  ASSUME AlbumInv, [AlbumNext]_albumVars
  PROVE  AlbumInv'
<1>1. ASSUME UNCHANGED albumVars PROVE AlbumInv'
  BY <1>1, AlbumStill DEF albumVars
<1>2. ASSUME Second PROVE AlbumInv'
  BY <1>2, AlbumStill DEF Second
<1> QED
  BY <1>1, <1>2, DatabaseEventStep, CreateCacheStep, CacheResultStep, OtherMpdStep, AlbumRestartStep,
     CheckCacheStep, ReadAlbumsStep, ReadFailsStep, WriteCacheStep, UpdateDatabaseStep DEF AlbumNext

(* The album cache finds an album under the key of the album's own tags,   *)
(* and has every album of a library that did not change while it was read, *)
(* with the number, the length and the dates of its songs and all their    *)
(* artists and genres (album_cache.c, album.c, cache_rax_album.c), for any *)
(* songs, libraries, configurations, page size, updates and restarts.      *)
THEOREM AlbumsCorrect == AlbumSpec => []AlbumsOK
<1>1. AlbumInv => AlbumsOK
  <2>1. AlbumInv => AlbumKeys
    BY KeyedIs DEF AlbumInv, KeptTrees, KeyedTree, AlbumKeys
  <2>2. AlbumInv => AlbumsComplete
    BY DEF AlbumInv, GoodResults, GoodResult, AlbumsComplete
  <2> QED
    BY <2>1, <2>2 DEF AlbumsOK
<1> QED
  BY <1>1, AlbumStart, AlbumStep, PTL DEF AlbumSpec

------------------------------------------------------------------------------
(* A behaviour of the stores is one of each part that rests from one of    *)
(* its initial states: no step of a part touches the state of another.     *)
LEMMA PartsStart ==
  StoresInit => /\ TriggersInit /\ RadiosInit /\ SessionsInit /\ StickersInit
                /\ StateFilesInit /\ ListingInit /\ RandomInit /\ AlbumInit /\ ScriptsInit
BY DEF StoresInit

LEMMA PartsStep ==
  ASSUME [StoresNext]_storesVars
  PROVE  /\ [TriggersNext]_triggerVars /\ [RadiosNext]_radioVars /\ [SessionsNext]_sessionVars
         /\ [StickersNext]_stickerVars /\ [StateFilesNext]_stateFileVars
         /\ [ListingNext]_listingVars /\ [RandomNext]_randomVars /\ [AlbumNext]_albumVars
         /\ [ScriptsNext]_scriptVars
<1>1. [TriggersNext]_triggerVars
  BY DEF StoresNext, storesVars, OthersRest
<1>2. [RadiosNext]_radioVars
  BY DEF StoresNext, storesVars, OthersRest
<1>3. [SessionsNext]_sessionVars
  BY DEF StoresNext, storesVars, OthersRest
<1>4. [StickersNext]_stickerVars
  BY DEF StoresNext, storesVars, OthersRest
<1>5. [StateFilesNext]_stateFileVars
  BY DEF StoresNext, storesVars, OthersRest
<1>6. [ListingNext]_listingVars
  BY DEF StoresNext, storesVars, OthersRest
<1>7. [RandomNext]_randomVars
  BY DEF StoresNext, storesVars, OthersRest
<1>8. [AlbumNext]_albumVars
  BY DEF StoresNext, storesVars, OthersRest
<1>9. [ScriptsNext]_scriptVars
  BY DEF StoresNext, storesVars, OthersRest
<1> QED
  BY <1>1, <1>2, <1>3, <1>4, <1>5, <1>6, <1>7, <1>8, <1>9

(* What is proved of these parts holds in every behaviour of the stores,   *)
(* which are the ones that the run explores: the triggers, the radios, the *)
(* sessions, the stickers, the files, the pages and the random selection,  *)
(* the album cache and the scripts.                                        *)
THEOREM PartsCorrect ==
  StoresSpec => /\ []TriggersOK /\ []RadiosOK /\ SessionsKept /\ []StickersOK
                /\ []FilesWhole /\ []PagesOK /\ []AlbumsOK /\ []ScriptsOK
<1>1. StoresSpec => /\ TriggersSpec /\ RadiosSpec /\ SessionsSpec /\ StickersSpec
                    /\ ListingSpec /\ RandomSpec /\ AlbumSpec /\ ScriptsSpec
  BY PartsStart, PartsStep, PTL DEF StoresSpec, TriggersSpec, RadiosSpec, SessionsSpec, StickersSpec,
       ListingSpec, RandomSpec, AlbumSpec, ScriptsSpec
<1>2. StoresSpec => []FilesWhole
  <2>1. FileInv => FilesWhole
    BY DEF FileInv
  <2> QED
    BY <2>1, PartsStart, PartsStep, FileStart, FileStep, PTL DEF StoresSpec
<1>3. ListingSpec /\ RandomSpec => []PagesOK
  <2>1. PagesComplete /\ SelectionOK => PagesOK
    BY DEF PagesOK
  <2> QED
    BY <2>1, PagesCorrect, SelectionCorrect, PTL
<1> QED
  BY <1>1, <1>2, <1>3, TriggersCorrect, RadiosCorrect, SessionsCorrect, StickersCorrect,
     AlbumsCorrect, ScriptsCorrect, PTL
=================================================================================
