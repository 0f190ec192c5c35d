------------------------------- MODULE Stickers -------------------------------
(***************************************************************************)
(* The connection of the api thread to the sticker database of MPD         *)
(* (mympd_client/stickerdb.c, mympd_api/sticker.c).  It waits in idle mode *)
(* between the commands, is opened on demand, and may be lost, and MPD may *)
(* be another one, at any time.  The features found on this connection are *)
(* sent to the api thread itself, which keeps a second copy of them for    *)
(* the partitions: the lists of songs print stickers if this copy says so. *)
(*                                                                         *)
(* A handler of the thread runs several exchanges with MPD, each of which  *)
(* MPD may refuse, or which ends the connection.  An operator on a         *)
(* connection gives the set of what it may be like afterwards; .ok is the  *)
(* result of the function.                                                 *)
(***************************************************************************)
EXTENDS Naturals, Sequences

CONSTANTS
  MaxPlays,      \* bound: plays
  MaxFeatures,   \* bound: requests with features waiting
  MaxRestarts    \* bound: starts of MPD

ASSUME StickerAssumption == {MaxPlays, MaxFeatures, MaxRestarts} \subseteq Nat

\* what MPD supports; "down" it is not there
Kinds == {"down", "old", "nosticker", "basic", "advanced"}

Features == {"none", "basic", "advanced"}   \* feat.stickers and feat.advsticker

VARIABLES
  link,      \* the stickerdb state of the api thread
  shared,    \* feat of the mpd_state of the partitions
  waiting,   \* features sent to the api thread
  mpd,       \* the MPD with the stickers
  restarts,  \* number of its starts
  basic,     \* MPD was a basic one at some time
  plays,     \* its sticker playCount of the song
  played,    \* its sticker lastPlayed of the song
  acked,     \* plays that were reported as counted
  stickerFault  \* what went wrong: a command in idle mode, or without connection

stickerVars == <<link, shared, waiting, mpd, restarts, basic, plays, played,
                 acked, stickerFault>>

StickersInit ==
  /\ link = [conn |-> "none", state |-> "disconnected", feat |-> "none"]
  /\ shared = "none" /\ waiting = <<>>
  /\ mpd \in Kinds /\ restarts = 0 /\ basic = (mpd = "basic")
  /\ plays = 0 /\ played = 0 /\ acked = 0 /\ stickerFault = "no"

\* a handler starts with this: the connection, the stickers, and what it sends
Handler == [conn |-> link.conn, state |-> link.state, feat |-> link.feat,
            sent |-> <<>>, plays |-> plays, played |-> played, fault |-> "no",
            ok |-> TRUE]

-----------------------------------------------------------------------------
(* One exchange with MPD                                                   *)

Failed(c) == [c EXCEPT !.state = "failure", !.ok = FALSE]
FeatSent(c, f) == [c EXCEPT !.sent = Append(@, f)]

\* stickerdb_disconnect
Disconnected(c) == [c EXCEPT !.conn = "none", !.state = "disconnected"]

\* a command, its response, and stickerdb_check_error_and_recover.  The
\* error of a lost connection is not one to recover from.
StickerExchange(c) ==
  CASE c.conn = "none"  -> {Failed(c)}
    [] c.conn = "idle"  -> {[Failed(c) EXCEPT !.conn = "lost", !.fault = "idle"]}
    [] c.conn = "lost"  -> {Failed(c)}
    [] c.conn = "ready" -> {[c EXCEPT !.ok = TRUE], [c EXCEPT !.ok = FALSE],
                            [Failed(c) EXCEPT !.conn = "lost"]}

\* the outcomes of an exchange in which MPD did what the command says, even if
\* it could not report it any more
Executed(c) == {d \in StickerExchange(c) : c.conn = "ready" /\ (d.ok \/ d.conn = "lost")}
NotOk(c)    == {d \in StickerExchange(c) : ~d.ok}

\* stickerdb_exit_idle: MPD does not answer noidle when it is not in idle
\* mode, the response times out
ExitIdle(c) ==
  CASE c.conn = "none"  -> {[Failed(c) EXCEPT !.fault = "null"]}
    [] c.conn = "idle"  -> {[c EXCEPT !.conn = "ready", !.ok = TRUE],
                            [Failed(c) EXCEPT !.conn = "lost"]}
    [] OTHER            -> {[Failed(c) EXCEPT !.conn = "lost"]}

\* stickerdb_enter_idle: sending on a connection with an error fails, on one
\* that is lost without notice it may succeed
EnterIdle(c) ==
  CASE c.conn = "ready" /\ c.state = "connected" -> {[c EXCEPT !.conn = "idle"]}
    [] c.conn = "lost" /\ c.state = "connected"  -> {c, Disconnected(c)}
    [] OTHER                                     -> {Disconnected(c)}

\* stickerdb_connect_mpd
ConnectMpd(c) ==
  IF mpd = "down" THEN {[Failed(c) EXCEPT !.conn = "none"]}
  ELSE {[c EXCEPT !.conn = "ready", !.state = "connected", !.ok = TRUE],
        [Failed(c) EXCEPT !.conn = "ready"],     \* the password is refused
        [Failed(c) EXCEPT !.conn = "none"]}

\* the rest of stickerdb_connect, with a new connection: the version, the
\* support for stickers, and the types
CheckSupport(c) ==
  IF mpd = "old" THEN {FeatSent([Disconnected(c) EXCEPT !.ok = FALSE], "none")}
  ELSE UNION {IF ~d.ok \/ mpd = "nosticker"
              THEN {FeatSent([Disconnected(d) EXCEPT !.feat = "none", !.ok = FALSE], "none")}
              ELSE LET e == FeatSent([d EXCEPT !.feat = mpd], mpd)
                   IN {[x EXCEPT !.ok = TRUE] :
                         x \in (IF mpd = "advanced" THEN StickerExchange(e) ELSE {e})}
              : d \in StickerExchange(c)}

NewConnection(c) ==
  UNION {IF d.ok THEN CheckSupport(d) ELSE {d} : d \in ConnectMpd(c)}

\* mutant: an open connection is used as it is
ConnectInIdle(c) ==
  IF c.state = "connected" THEN {c}
  ELSE NewConnection(IF c.state = "failure" THEN Disconnected(c) ELSE c)

\* stickerdb_connect, with stickers enabled in the configuration
Connect(c) ==
  IF c.state = "connected"
  THEN UNION {IF d.ok THEN {d} ELSE NewConnection(Disconnected(d)) : d \in ExitIdle(c)}
  ELSE NewConnection(IF c.state = "failure" THEN Disconnected(c) ELSE c)

-----------------------------------------------------------------------------
(* The functions for one command                                           *)

\* body gives, for each outcome of the connect, the outcomes of the exchanges:
\* they are made if the connection is there, and then the idle mode is entered
\* again. The result is the one of the exchanges.
WithConnection(body) ==
  UNION {IF ~c.ok THEN {c} ELSE UNION {EnterIdle(d) : d \in body[c]} : c \in DOMAIN body}

\* get_sticker_value, get_sticker_all and the other reads: the result is there
\* whatever the exchange says
ReadStickers(c) == {[d EXCEPT !.ok = TRUE] : d \in StickerExchange(c)}

\* set_sticker_value, remove_sticker: of a sticker that is not modelled
WriteSticker(c) == StickerExchange(c)

\* set_sticker_int64 of lastPlayed
SetLastPlayed(c, t) == {[d EXCEPT !.played = t] : d \in Executed(c)} \union NotOk(c)

\* inc_sticker: MPD adds; or, before 0.24, the value is read and set, a read
\* that fails gives zero, and another client may count in between
IncBasic(c) ==
  UNION {{[e EXCEPT !.plays = IF e.ok THEN (IF d.ok THEN @ ELSE 0) + 1 ELSE @] : e \in StickerExchange(d)}
         : d \in StickerExchange(c)}

IncSticker(c) ==
  IF c.feat = "advanced"
  THEN {[d EXCEPT !.plays = @ + 1] : d \in Executed(c)} \union NotOk(c)
  ELSE IncBasic(c)

\* mutant: as if the first exchange could not fail
IncSetBoth(c, t) ==
  UNION {{[e EXCEPT !.ok = TRUE] : e \in IncSticker(d)} : d \in SetLastPlayed(c, t)}

\* stickerdb_inc_set
IncSet(c, t) == UNION {IF d.ok THEN IncSticker(d) ELSE {d} : d \in SetLastPlayed(c, t)}

-----------------------------------------------------------------------------
(* The handlers                                                            *)

\* the handler ends with c: a command without connection ends the program
Returns(c) ==
  /\ stickerFault = "no" /\ stickerFault' = c.fault
  /\ link' = [conn |-> c.conn, state |-> c.state, feat |-> c.feat]
  /\ Len(waiting \o c.sent) <= MaxFeatures /\ waiting' = waiting \o c.sent
  /\ plays' = c.plays /\ played' = c.played
  /\ UNCHANGED <<mpd, restarts, basic>>

\* mympd_api_run, and MYMPD_API_CONNECTION_SAVE with new settings
Reconnect ==
  /\ \E c \in UNION {IF d.ok THEN EnterIdle(d) ELSE {d}
                     : d \in NewConnection(Disconnected(Handler))} : Returns(c)
  /\ UNCHANGED <<shared, acked>>

\* MYMPD_API_STICKER_GET, _LIST and _NAMES, and the stickers of one song
StickerGet ==
  /\ link.feat # "none"
  /\ \E c \in WithConnection([d \in Connect(Handler) |-> ReadStickers(d)]) : Returns(c)
  /\ UNCHANGED <<shared, acked>>

\* MYMPD_API_STICKER_SET, _DELETE, _DEC and _INC do not ask for the features
StickerSet ==
  /\ \E c \in WithConnection([d \in Connect(Handler) |-> WriteSticker(d)]) : Returns(c)
  /\ UNCHANGED <<shared, acked>>

\* MYMPD_API_LIKE and _RATING
SetFeedback ==
  /\ link.feat # "none"
  /\ \E c \in WithConnection([d \in Connect(Handler) |-> WriteSticker(d)]) : Returns(c)
  /\ UNCHANGED <<shared, acked>>

\* stickerdb_find_stickers_sorted and _by_name_value: the idle mode is entered
\* only after a success
Find ==
  /\ link.feat # "none"
  /\ \E c \in Connect(Handler) :
       IF ~c.ok THEN Returns(c)
       ELSE \E d \in StickerExchange(c) :
              IF d.ok THEN \E e \in EnterIdle(d) : Returns(e) ELSE Returns(d)
  /\ UNCHANGED <<shared, acked>>

\* MYMPD_API_STICKER_PLAYCOUNT, mympd_client_scrobble
CountPlay ==
  /\ plays < MaxPlays /\ acked < MaxPlays
  /\ \E c \in WithConnection([d \in Connect(Handler) |-> IncSet(d, acked + 1)]) :
       /\ Returns(c)
       /\ acked' = IF c.ok THEN acked + 1 ELSE acked
  /\ UNCHANGED shared

\* a list of songs or albums with stickers: the idle mode is left without a
\* look at the connection; the songs of an album return without entering it
\* again if the list failed
ListSongs ==
  /\ shared # "none"
  /\ \E c \in ExitIdle(Handler) :
       IF c.fault # "no" THEN Returns(c)
       ELSE \E d \in ReadStickers(c) \union {c} :
              \/ \E e \in EnterIdle(d) : Returns(e)
              \/ Returns(d)
  /\ UNCHANGED <<shared, acked>>

\* populate_pfds: the connection is polled from when it is connected until it
\* is closed
Polled == link.state = "connected" \/ link.conn = "lost"

\* handle_socket_pollin
IdleEvent ==
  /\ Polled
  /\ IF link.state = "failure" THEN Returns(Disconnected(Handler))
     ELSE \E c \in ExitIdle(Handler) :
            IF c.ok THEN \E d \in EnterIdle(c) : Returns(d) ELSE Returns(c)
  /\ UNCHANGED <<shared, acked>>

\* handle_socket_error
SocketError ==
  /\ Polled /\ Returns(Disconnected(Handler))
  /\ UNCHANGED <<shared, acked>>

\* INTERNAL_API_STICKER_FEATURES
FeaturesReceived ==
  /\ stickerFault = "no" /\ waiting # <<>>
  /\ shared' = Head(waiting) /\ waiting' = Tail(waiting)
  /\ UNCHANGED <<link, mpd, restarts, basic, plays, played, acked, stickerFault>>

\* mympd_client_mpd_features, when a partition connects
FeaturesDetected ==
  /\ stickerFault = "no" /\ shared' = link.feat
  /\ UNCHANGED <<link, waiting, mpd, restarts, basic, plays, played, acked, stickerFault>>

-----------------------------------------------------------------------------
(* Around it                                                               *)

\* MPD is started again, perhaps another version, or stops
MpdRestarts ==
  /\ restarts < MaxRestarts /\ restarts' = restarts + 1
  /\ mpd' \in Kinds \ {mpd} /\ basic' = (basic \/ mpd' = "basic")
  /\ link' = IF link.conn = "none" THEN link ELSE [link EXCEPT !.conn = "lost"]
  /\ UNCHANGED <<shared, waiting, plays, played, acked, stickerFault>>

\* MPD closes a connection that gives no command for some time
MpdTimeout ==
  /\ link.conn = "ready" /\ link' = [link EXCEPT !.conn = "lost"]
  /\ UNCHANGED <<shared, waiting, mpd, restarts, basic, plays, played, acked, stickerFault>>

\* another client counts a play
OtherPlay ==
  /\ plays < MaxPlays /\ plays' = plays + 1
  /\ UNCHANGED <<link, shared, waiting, mpd, restarts, basic, played, acked, stickerFault>>

StickersNext ==
  \/ Reconnect \/ StickerGet \/ StickerSet \/ SetFeedback \/ Find \/ CountPlay
  \/ ListSongs \/ IdleEvent \/ SocketError \/ FeaturesReceived
  \/ FeaturesDetected \/ MpdRestarts \/ MpdTimeout \/ OtherPlay

StickersSpec == StickersInit /\ [][StickersNext]_stickerVars

-----------------------------------------------------------------------------
(* Properties                                                              *)

\* The counter and the time of a song follow the plays that were reported as
\* counted, whatever command fails and whenever the connection or MPD goes
\* (stickerdb_inc_set); and no command is sent while MPD is in idle mode,
\* which would make it close the connection (stickerdb_connect, the batches).
\* Not for an MPD before 0.24, where a count is read and written back.
StickersOK ==
  /\ ~basic => acked <= plays /\ acked <= played
  /\ stickerFault # "idle"
=============================================================================
