------------------------------ MODULE MympdApi ------------------------------
(***************************************************************************)
(* The loop of the mympd_api thread (mympd_api/mympd_api.c) over the       *)
(* connections to the MPD partitions: poll, the dispatch of the readable   *)
(* descriptors, then mympd_client_idle for each partition                  *)
(* (mympd_client/idle.c).  Connections are made and switched by            *)
(* mympd_client/partitions.c and connection.c, and a failed command ends   *)
(* in mympd_client/errorhandler.c.                                         *)
(*                                                                         *)
(* One action is one call that talks to MPD, so that each call may be the  *)
(* one that finds the connection broken.  Each call either works, or fails *)
(* and is recovered from, or loses the connection.  A use of a NULL        *)
(* connection or of a freed partition ends the behavior.                   *)
(***************************************************************************)
EXTENDS Naturals, Sequences

CONSTANTS
  Order,         \* sequence of the partitions that may exist, default first
  MaxIdle,       \* idle events that run commands, at most this many at once
  SocketErrors,  \* the partitions whose socket poll may report an error of, without POLLIN
  Requests       \* requests that others may push to mympd_api_queue

Partition == {Order[i] : i \in 1..Len(Order)}
Default   == Order[1]
Others    == Partition \ {Default}
Unknown   == "unknown"    \* a request for a partition that never exists

\* mympd: API_MYMPD_ONLY; offline, save: API_MPD_DISCONNECTED; save and rm are
\* MYMPD_API_CONNECTION_SAVE with a new host and MYMPD_API_PARTITION_RM
Class   == {"mpd", "mympd", "offline", "save", "rm"}
Type    == {"default", "script", "discard"}
NoRequest == [for |-> Unknown, class |-> "mpd", type |-> "none"]
Request == [for : Partition, class : Class, type : Type]
             \cup [for : {Unknown}, class : {"mpd"}, type : Type]

ASSUME LoopAssumption ==
  /\ Order # <<>> /\ MaxIdle \in Nat /\ SocketErrors \subseteq Partition
  /\ \A i, j \in 1..Len(Order) : Order[i] = Order[j] => i = j
  /\ Unknown \notin Partition
  /\ Requests \subseteq Request

VARIABLES
  pc,          \* what the thread does next
  cur,         \* the partition it works on
  parts,       \* list of the partitions
  conn,        \* partition -> "null", "open", "idle" (an idle command is sent)
  state,       \* partition -> conn_state
  timer,       \* partitions whose timer_fd_mpd_connect is armed
  events,      \* partition -> waiting_events
  fds,         \* pfds
  repopulate,  \* pfds.repopulate
  freed,       \* partitions freed since pfds was populated
  ready,       \* readable descriptors that are still to be handled
  request,     \* request of this round
  holder,      \* who has it: "loop", "partition", "nobody"
  answers,     \* how often it was answered, forwarded or discarded
  idles,       \* idle events that are still to be handled
  stop,        \* s_signal_received
  faulty,      \* whether connections may still fail
  named,       \* the other partitions MPD has
  abandoned    \* partitions disconnected by a handler that leaves them to MPD

links  == <<parts, conn, state, timer, events, repopulate, freed, named, abandoned>>
round  == <<request, holder, answers>>
vars   == <<pc, cur, links, fds, ready, round, idles, stop, faulty>>

Crashed == {"null_connection", "freed_partition"}
InLoop  == {"poll", "dispatch", "connect", "options", "features", "list", "switch",
            "status", "autostart", "enter_idle", "visit", "early", "noidle", "parse",
            "handle", "reenter", "leave", "jukebox"}

PollFd == {"partition", "jukebox", "connect"} \X Partition

TypeOK ==
  /\ pc \in InLoop \cup Crashed /\ cur \in Partition /\ (pc \in InLoop => cur \in parts)
  /\ parts \subseteq Partition /\ Default \in parts
  /\ conn \in [Partition -> {"null", "open", "idle"}]
  /\ state \in [Partition -> {"disconnected", "connected", "failure"}]
  /\ \A p \in Partition : state[p] = "connected" => conn[p] # "null"
  /\ timer \subseteq parts /\ abandoned \subseteq parts /\ named \subseteq Others
  /\ events \in [Partition -> SUBSET {"partition", "queue", "jukebox"}]
  /\ fds \subseteq PollFd /\ ready \subseteq fds /\ freed \subseteq Others
  /\ repopulate \in BOOLEAN /\ stop \in BOOLEAN /\ faulty \in BOOLEAN
  /\ request \in Request \cup {NoRequest}
  /\ holder \in {"loop", "partition", "nobody"} /\ answers \in Nat
  /\ idles \in [own : 0..MaxIdle, list : BOOLEAN]

Init ==
  /\ pc = "poll" /\ cur = Default /\ parts = {Default}
  /\ conn = [p \in Partition |-> "null"]
  /\ state = [p \in Partition |-> "disconnected"]
  /\ timer = {Default}
  /\ events = [p \in Partition |-> {}]
  /\ fds = {} /\ repopulate = TRUE /\ freed = {} /\ ready = {}
  /\ request = NoRequest /\ holder = "nobody" /\ answers = 0
  /\ idles = [own |-> 0, list |-> FALSE]
  /\ stop = FALSE /\ faulty = TRUE /\ named \in SUBSET Others /\ abandoned = {}

-----------------------------------------------------------------------------
(* partitions are added, freed, lost (mympd_set_mpd_failure) or closed     *)
(* (mympd_client_disconnect, which leaves the connect timer as it is)      *)
\* mutant: freed partitions stay in pfds
PollChangesNotFreed(added, removed, others) == added \cup others
\* what sets pfds.repopulate
PollChanges(added, removed, others) == added \cup removed \cup others

Update(added, removed, lost, closed, left) ==
  LET down == added \cup removed \cup lost \cup closed IN
  /\ parts' = (parts \cup added) \ removed
  /\ conn' = [p \in Partition |-> IF p \in down THEN "null" ELSE conn[p]]
  /\ state' = [p \in Partition |-> IF p \in down THEN "disconnected" ELSE state[p]]
  /\ events' = [p \in Partition |->
                  CASE p \in added \cup removed -> {}
                    [] p \in (lost \cup closed) \ (added \cup removed) -> events[p] \ {"partition"}
                    [] OTHER                    -> events[p]]
  /\ timer' = (timer \cup added \cup lost) \ removed
  /\ repopulate' = (repopulate \/ PollChanges(added, removed, lost \cup closed) # {})
  /\ freed' = freed \cup removed
  /\ abandoned' = (abandoned \ down) \cup left

\* mutant: the connect timer is not set
FailureUnarmed(p) == Update({}, {}, {}, {p}, {}) /\ UNCHANGED named
SetFailure(p) == Update({}, {}, {p}, {}, {}) /\ UNCHANGED named
Disconnect(p) == Update({}, {}, {}, {p}, {}) /\ UNCHANGED named

\* a call with the connection of p, and mympd_check_error_and_recover
Command(p, good, bad) ==
  \/ conn[p] = "null" /\ pc' = "null_connection" /\ UNCHANGED links
  \/ conn[p] # "null" /\ pc' = good /\ UNCHANGED links
  \/ conn[p] # "null" /\ faulty /\ pc' = bad
     /\ (SetFailure(p) \/ UNCHANGED links)

\* idle and noidle only fail together with the connection
Send(p, mode, good, bad) ==
  \/ conn[p] = "null" /\ pc' = "null_connection" /\ UNCHANGED links
  \/ /\ conn[p] # "null" /\ pc' = good
     /\ conn' = [conn EXCEPT ![p] = mode]
     /\ UNCHANGED <<parts, state, timer, events, repopulate, freed, named, abandoned>>
  \/ conn[p] # "null" /\ faulty /\ pc' = bad /\ SetFailure(p)

-----------------------------------------------------------------------------
(* populate_pfds and poll *)

PollFds == {f \in PollFd : f[2] \in parts /\ (f[1] = "connect" \/ conn[f[2]] # "null")}

\* the dispatch goes through pfds, which follows the list of the partitions
Kinds == <<"partition", "jukebox", "connect">>
Before(f, g) ==
  \E i, j \in 1..Len(Order), m, n \in 1..3 :
    /\ f = <<Kinds[m], Order[i]>> /\ g = <<Kinds[n], Order[j]>>
    /\ i < j \/ (i = j /\ m < n)

Poll(F) ==
  /\ pc = "poll" /\ ~stop
  /\ fds' = IF repopulate THEN PollFds ELSE fds
  /\ F \subseteq fds'
  /\ \A f \in F : f[1] = "connect" => f[2] \in timer
  /\ ready' = F
  /\ request' = NoRequest /\ holder' = "nobody" /\ answers' = 0
  /\ repopulate' = FALSE
  /\ freed' = IF repopulate THEN {} ELSE freed
  /\ pc' = "dispatch"
  /\ UNCHANGED <<cur, parts, conn, state, timer, events, idles, stop, faulty, named, abandoned>>

-----------------------------------------------------------------------------
(* handle_socket_pollin and handle_socket_error *)

Handle(f) ==
  /\ pc = "dispatch" /\ f \in ready /\ \A g \in ready : ~Before(g, f)
  /\ ready' = ready \ {f}

PartitionEvent(f) ==
  /\ Handle(f) /\ f[1] \in {"partition", "jukebox"} /\ f[2] \notin freed
  /\ events' = [events EXCEPT ![f[2]] = @ \cup {f[1]}]
  /\ UNCHANGED <<pc, cur, parts, conn, state, timer, repopulate, freed, fds, round, idles,
                 stop, faulty, named, abandoned>>

SocketError(f) ==
  /\ faulty /\ f[2] \in SocketErrors
  /\ Handle(f) /\ f[1] = "partition" /\ f[2] \notin freed
  /\ Update({}, {}, {}, {f[2]}, {f[2]})
  /\ UNCHANGED <<pc, cur, fds, round, idles, stop, faulty, named>>

ConnectEvent(f) ==
  /\ Handle(f) /\ f[1] = "connect" /\ f[2] \notin freed
  /\ cur' = f[2] /\ pc' = "connect"
  /\ UNCHANGED <<links, fds, round, idles, stop, faulty>>

\* pfds.partition_states still points to a partition freed in this round
FreedEvent(f) ==
  /\ Handle(f) /\ f[2] \in freed
  /\ pc' = "freed_partition"
  /\ UNCHANGED <<cur, links, fds, round, idles, stop, faulty>>

\* the queue is the last descriptor, and it may be that nothing is in it; then
\* mympd_client_idle starts with the first partition
QueueEvent ==
  /\ pc = "dispatch" /\ ready = {}
  /\ request' \in Requests \cup {NoRequest}
  /\ holder' = IF request' = NoRequest THEN "nobody" ELSE "loop"
  /\ events' = [p \in Partition |-> IF p \in parts /\ p = request'.for
                                     THEN events[p] \cup {"queue"} ELSE events[p]]
  /\ pc' = "visit" /\ cur' = Default
  /\ UNCHANGED <<parts, conn, state, timer, repopulate, freed, named, abandoned, fds, ready, answers,
                 idles, stop, faulty>>

-----------------------------------------------------------------------------
(* partitions_connect and mympd_client_connect *)

inConnect == <<cur, fds, ready, round, idles>>

SetLink(c, s, again) ==
  /\ conn' = [conn EXCEPT ![cur] = c]
  /\ state' = [state EXCEPT ![cur] = s]
  /\ repopulate' = (repopulate \/ again)
  /\ UNCHANGED <<parts, timer, events, freed, named, abandoned>>

\* mutant: the connect timer is not periodic
ConnectOnce ==
  /\ pc = "connect"
  /\ \/ faulty /\ pc' = "dispatch"
        /\ conn' = [conn EXCEPT ![cur] = "null"]
        /\ state' = [state EXCEPT ![cur] = "failure"]
        /\ timer' = timer \ {cur}
        /\ UNCHANGED <<parts, events, repopulate, freed, named, abandoned>>
     \/ SetLink("open", "connected", TRUE) /\ pc' = "options"
  /\ UNCHANGED <<inConnect, stop, faulty>>

Connect ==
  /\ pc = "connect"
  /\ \/ faulty /\ SetLink("null", "failure", FALSE) /\ pc' = "dispatch"
     \* wrong password: the connection stays and is overwritten next time
     \/ faulty /\ SetLink("open", "failure", FALSE) /\ pc' = "dispatch"
     \/ SetLink("open", "connected", TRUE) /\ pc' = "options"
  /\ UNCHANGED <<inConnect, stop, faulty>>

\* the result of mympd_client_set_connection_options is not used
SetOptions ==
  /\ pc = "options"
  /\ LET next == IF cur = Default THEN "features" ELSE "switch"
     IN  Command(cur, next, next)
  /\ UNCHANGED <<inConnect, stop, faulty>>

Features ==
  /\ pc = "features"
  /\ \/ Command(cur, "list", "list") /\ UNCHANGED stop
     \/ /\ conn[cur] # "null" /\ faulty    \* MPD is too old
        /\ pc' = "dispatch" /\ stop' = TRUE /\ UNCHANGED links
  /\ UNCHANGED <<inConnect, faulty>>

\* partitions_populate: what MPD names is added, and only if MPD answered in
\* full the others are freed
PartitionsPopulate(next) ==
  \/ conn[Default] = "null" /\ pc' = "null_connection" /\ UNCHANGED links
  \/ /\ conn[Default] # "null" /\ pc' = next
     /\ \/ Update(named \ parts, (parts \ named) \ {Default}, {}, {}, {})
        \/ /\ faulty
           /\ \E S \in SUBSET (named \ parts) : \E lost \in SUBSET {Default} :
                Update(S, {}, lost, {}, {})
     /\ UNCHANGED named

ListPartitions ==
  /\ pc = "list" /\ PartitionsPopulate("status")
  /\ UNCHANGED <<inConnect, stop, faulty>>

SwitchPartition ==
  /\ pc = "switch"
  /\ \/ Command(cur, "status", "dispatch") /\ (pc' = "dispatch" => SetFailure(cur))
     \/ /\ conn[cur] # "null" /\ faulty /\ pc' = "dispatch"
        /\ Disconnect(cur)
  /\ UNCHANGED <<inConnect, stop, faulty>>

\* mympd_api_status_get; the connect timer is disarmed whatever it found
Status ==
  /\ pc = "status"
  /\ \/ conn[cur] = "null" /\ pc' = "null_connection" /\ UNCHANGED links
     \/ /\ conn[cur] # "null" /\ pc' = "autostart"
        /\ timer' = timer \ {cur}
        /\ UNCHANGED <<parts, events, freed, named, abandoned>>
        /\ \/ UNCHANGED <<conn, state, repopulate>>
           \/ /\ faulty /\ repopulate' = TRUE
              /\ conn' = [conn EXCEPT ![cur] = "null"]
              /\ state' = [state EXCEPT ![cur] = "disconnected"]
  /\ UNCHANGED <<inConnect, stop, faulty>>

Autostart ==
  /\ pc = "autostart"
  /\ \/ Command(cur, "enter_idle", "enter_idle")
     \/ pc' = "enter_idle" /\ UNCHANGED links
  /\ UNCHANGED <<inConnect, stop, faulty>>

EnterIdle ==
  /\ pc = "enter_idle"
  /\ Send(cur, "idle", "dispatch", "dispatch")
  /\ UNCHANGED <<inConnect, stop, faulty>>

-----------------------------------------------------------------------------
(* mympd_client_idle and mympd_client_idle_partition *)

inIdle == <<cur, fds, ready, stop, faulty>>
Mine   == holder = "loop" /\ "queue" \in events[cur]

\* classes that are handled before the idle mode is left
Early(class) == class = "mympd" \/ (class \in {"offline", "save"} /\ state[cur] # "connected")

Visit ==
  /\ pc = "visit"
  /\ holder' = IF Mine THEN "partition" ELSE holder
  /\ pc' = IF Mine /\ (Early(request.class) \/ state[cur] # "connected") THEN "early"
           ELSE IF events[cur] = {} THEN "leave" ELSE "noidle"
  /\ UNCHANGED <<inIdle, links, request, answers, idles>>

\* without idle events there is the response to noidle to check
Noidle ==
  /\ pc = "noidle"
  /\ IF "partition" \in events[cur]
     THEN idles' \in [own : 0..MaxIdle, list : {cur = Default, FALSE}]
     ELSE idles' = [own |-> 1, list |-> FALSE]
  /\ Send(cur, "open", "parse", "leave")
  /\ holder' = IF pc' = "leave" /\ answers = 0 /\ holder = "partition" THEN "nobody" ELSE holder
  /\ UNCHANGED <<inIdle, request, answers>>

\* mympd_client_parse_idle: each event runs commands, "partition" comes last
IdleEvent ==
  /\ pc = "parse" /\ idles.own > 0
  /\ Command(cur, "parse", "parse")
  /\ idles' = [idles EXCEPT !.own = @ - 1]
  /\ UNCHANGED <<inIdle, round>>

PartitionIdleEvent ==
  /\ pc = "parse" /\ idles.own = 0 /\ idles.list
  /\ PartitionsPopulate("jukebox")
  /\ idles' = [idles EXCEPT !.list = FALSE]
  /\ UNCHANGED <<inIdle, round>>

\* mutant: the request is handled again after the idle events
JukeboxSameRequest ==
  /\ pc = "jukebox" \/ (pc = "parse" /\ idles.own = 0 /\ ~idles.list)
  /\ LET next == IF holder = "partition" THEN "handle" ELSE "reenter" IN
     \/ pc' = next /\ UNCHANGED links
     \/ state[cur] = "connected" /\ Command(cur, next, next)
  /\ UNCHANGED <<inIdle, round, idles>>

\* jukebox_run, and set_conn_options before it
Jukebox ==
  /\ pc = "jukebox" \/ (pc = "parse" /\ idles.own = 0 /\ ~idles.list)
  /\ LET next == IF holder = "partition" /\ answers = 0 THEN "handle" ELSE "reenter" IN
     \/ pc' = next /\ UNCHANGED links
     \/ state[cur] = "connected" /\ Command(cur, next, next)
  /\ UNCHANGED <<inIdle, round, idles>>

\* mympd_api_partition_rm for t, then MPD moves outputs and deletes it
PartitionRm(t, next) ==
  /\ pc' = next
  /\ IF cur # Default \/ t \notin parts \ {Default} \/ state[t] # "connected"
     THEN UNCHANGED links
     ELSE \/ Update({}, {}, {}, {t}, {t}) /\ named' = named \ {t}
          \/ /\ faulty /\ \E lost \in SUBSET {cur} : Update({}, {}, lost, {t}, {t})
             /\ UNCHANGED named
          \/ faulty /\ SetFailure(t)
          \/ /\ faulty /\ conn' = [conn EXCEPT ![t] = "open"]
             /\ abandoned' = abandoned \cup {t}
             /\ UNCHANGED <<parts, state, timer, events, repopulate, freed, named>>

\* MYMPD_API_CONNECTION_SAVE: a new host frees all partitions but the default
ConnectionSave(next) ==
  \/ pc' = next /\ UNCHANGED links
  \/ state[cur] = "connected" /\ Command(cur, next, next)
  \/ /\ Update({}, parts \ {Default}, {Default}, {}, {})
     /\ pc' = IF cur = Default THEN next ELSE "freed_partition"
     /\ UNCHANGED named

\* mympd_api_handler: the request is answered, forwarded or discarded
Handler(next) ==
  /\ answers' = answers + 1
  /\ CASE request.class = "mympd" -> pc' = next /\ UNCHANGED links
       [] request.class = "save"  -> ConnectionSave(next)
       [] request.class = "rm"    -> \E t \in Partition : PartitionRm(t, next)
       [] OTHER -> \/ state[cur] # "connected" /\ pc' = next /\ UNCHANGED links
                   \/ state[cur] = "connected" /\ Command(cur, next, next)

Respond(next) == answers' = answers + 1 /\ pc' = next /\ UNCHANGED links

EarlyRequest ==
  /\ pc = "early"
  /\ LET next == IF events[cur] = {"queue"} THEN "leave" ELSE "noidle" IN
     IF Early(request.class) THEN Handler(next) ELSE Respond(next)
  /\ UNCHANGED <<inIdle, request, holder, idles>>

HandleRequest ==
  /\ pc = "handle"
  /\ IF state[cur] = "connected" THEN Handler("reenter") ELSE Respond("reenter")
  /\ UNCHANGED <<inIdle, request, holder, idles>>

ReenterIdle ==
  /\ pc = "reenter"
  /\ IF state[cur] = "connected" THEN Send(cur, "idle", "leave", "leave")
                                 ELSE pc' = "leave" /\ UNCHANGED links
  /\ UNCHANGED <<inIdle, round, idles>>

After(p) == {i \in 1..Len(Order) : Order[i] \in parts /\ \E j \in 1..(i-1) : Order[j] = p}

\* the next partition, or the end of the round; a script is not answered if
\* its partition is unknown
Leave ==
  /\ pc = "leave"
  /\ events' = [events EXCEPT ![cur] = {}]
  /\ IF After(cur) # {}
     THEN /\ pc' = "visit"
          /\ \E i \in After(cur) : cur' = Order[i] /\ \A j \in After(cur) : i <= j
          /\ UNCHANGED <<holder, answers>>
     ELSE /\ pc' = "poll" /\ cur' = Default
          /\ holder' = "nobody"
          /\ answers' = IF holder = "loop" /\ request.type # "script" THEN answers + 1 ELSE answers
  /\ UNCHANGED <<parts, conn, state, timer, repopulate, freed, named, abandoned, fds, ready, request,
                 idles, stop, faulty>>

-----------------------------------------------------------------------------
\* from here on MPD answers and no connection breaks
Heal ==
  /\ pc = "poll" /\ faulty /\ faulty' = FALSE
  /\ UNCHANGED <<pc, cur, links, fds, ready, round, idles, stop>>

\* other clients of MPD create and delete partitions
MpdChanges ==
  /\ pc = "poll" /\ named' \in SUBSET Others
  /\ UNCHANGED <<pc, cur, parts, conn, state, timer, events, repopulate, freed, abandoned, fds,
                 ready, round, idles, stop, faulty>>

Dispatch ==
  \/ QueueEvent
  \/ \E f \in PollFd : PartitionEvent(f) \/ SocketError(f) \/ ConnectEvent(f) \/ FreedEvent(f)
Connecting == \/ Connect \/ SetOptions \/ Features \/ ListPartitions \/ SwitchPartition
              \/ Status \/ Autostart \/ EnterIdle
Idling == \/ Visit \/ EarlyRequest \/ Noidle \/ IdleEvent \/ PartitionIdleEvent \/ Jukebox
          \/ HandleRequest \/ ReenterIdle \/ Leave

Thread == Dispatch \/ Connecting \/ Idling
Next == Thread \/ Heal \/ MpdChanges \/ \E F \in SUBSET PollFd : Poll(F)

Spec == Init /\ [][Next]_vars

\* the thread runs, and poll reports an armed connect timer sooner or later
FairSpec ==
  /\ Spec /\ WF_vars(Thread)
  /\ \A p \in Partition :
       SF_vars(\E F \in SUBSET PollFd : <<"connect", p>> \in F /\ Poll(F))

-----------------------------------------------------------------------------
(* Whenever the thread sleeps in poll something will wake it up for each   *)
(* partition: its connection is in idle mode and polled, or its connect    *)
(* timer is armed.  Only partition_rm and a socket error give up on one.   *)
Attended ==
  pc = "poll" /\ ~stop =>
    \A p \in parts \ abandoned :
      \/ state[p] = "connected" /\ conn[p] = "idle" /\ p \notin timer
         /\ (repopulate \/ <<"partition", p>> \in fds)
      \/ state[p] # "connected" /\ p \in timer
         /\ (repopulate \/ <<"connect", p>> \in fds)

(* A request taken from mympd_api_queue is answered, forwarded or          *)
(* discarded exactly once in its round, unless the connection broke at     *)
(* noidle or a script named an unknown partition.                          *)
AnsweredOnce ==
  pc = "poll" /\ request # NoRequest =>
    \/ answers = 1
    \/ /\ answers = 0
       /\ IF request.for = Unknown THEN request.type = "script"
                                   ELSE state[request.for] # "connected"

(* pfds has no entry of a freed partition when the thread sleeps in poll.  *)
NoFreedEntry == pc = "poll" /\ ~repopulate => \A f \in fds : f[2] \in parts \ freed

(* After the last failure each partition is connected again, unless it is  *)
(* removed or was given up on.                                             *)
Reconnects ==
  \A p \in Partition :
    (~faulty /\ p \in parts \ abandoned /\ state[p] # "connected")
      ~> (state[p] = "connected" \/ p \notin parts \ abandoned \/ pc \in Crashed \/ stop)

(* struct mympd_pfds: "pointer to partition_state" *)
PartitionUsedIsLive == pc # "freed_partition"
=============================================================================
