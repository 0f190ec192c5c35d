------------------------------ MODULE TimerList ------------------------------
(***************************************************************************)
(* The timers of the api thread: mympd_api/timer.c on the timerfds of      *)
(* lib/timer.c.  The descriptors are polled by the loop of                 *)
(* mympd_api/mympd_api.c from a copy, pfds, that is filled again when      *)
(* repopulate is set; the same round may replace timers, and a closed      *)
(* descriptor's number is given to the next one.                           *)
(*                                                                         *)
(* The order of the list (by name) only decides about the order in pfds    *)
(* and in the timer file, so the list is a set of nodes.                   *)
(***************************************************************************)
EXTENDS Integers, FiniteSets

CONSTANTS
  OtherParts,\* partitions besides the default one
  Replaced,  \* internal timers that are replaced while the program runs
  Fds,       \* numbers of the descriptors
  FirstId,   \* USER_TIMER_ID_START; user timers have greater ids
  MaxId,     \* USER_TIMER_ID_MAX, checked for the ids clients send
  ListMax,   \* LIST_TIMER_MAX
  LastId     \* bound on last_id, which the code does not limit

\* enum timer_ids; the webradiodb timer is like crop
Crop      == 1
SmartPls  == 2
Caches    == 3
StateSave == 5
Internal  == {Crop, SmartPls, Caches, StateSave}

DefaultPart == "default"
NoPart  == "none"
NoFd    == 0
Partitions == {DefaultPart} \cup OtherParts

\* the last conjunct: the process may open a descriptor for every timer
ASSUME TimerAssumption ==
  /\ FirstId \in Nat /\ MaxId \in Nat /\ ListMax \in Nat /\ LastId \in Nat
  /\ StateSave < FirstId /\ FirstId < MaxId
  /\ Fds \subseteq Nat \ {NoFd} /\ IsFiniteSet(Fds)
  /\ Cardinality(Fds) >= ListMax + Cardinality(Internal)
  /\ {DefaultPart, NoPart} \cap OtherParts = {} /\ Replaced \subseteq {SmartPls, Caches}

VARIABLES
  stage,          \* "poll", "connect", "timers"
  nodes,       \* the timer list
  clock,       \* timerfd -> how it is armed
  due,         \* timerfds that are readable
  last_id,
  repopulated, \* pfds.repopulate
  pfds,        \* polled timerfds
  revents,     \* those reported by the last poll and still to be handled
  partList,    \* list of the partitions
  dirs,        \* partitions with a state directory
  mpdParts,    \* the other partitions MPD has
  known,       \* ids that were listed once, so that clients may send them
  unsaved      \* whether a client changed the list since it was saved

tlist == <<nodes, clock, due, repopulated>>
tvars == <<stage, tlist, last_id, pfds, revents, partList, dirs, mpdParts, known, unsaved>>

UserIds   == FirstId + 1 .. LastId
Intervals == {-1, 0, 1}    \* one shot and remove, one shot and disable, repeat

\* part is NoPart for an internal timer, which has no definition
Node == [id : Internal \cup UserIds, interval : Intervals, part : Partitions \cup {NoPart},
         on : BOOLEAN, fd : Fds \cup {NoFd}, runs : 0..2]

IsUser(n) == n.part # NoPart
Open(ns)  == {n.fd : n \in ns} \ {NoFd}
Listed(id) == {n \in nodes : n.id = id}

TimerTypeOK ==
  /\ stage \in {"poll", "connect", "timers"}
  /\ nodes \subseteq Node
  /\ clock \in [Fds -> {"off", "once", "often"}]
  /\ due \subseteq Open(nodes) /\ revents \subseteq pfds /\ pfds \subseteq Fds
  /\ last_id \in FirstId .. LastId
  /\ repopulated \in BOOLEAN /\ unsaved \in BOOLEAN
  /\ DefaultPart \in partList /\ partList \subseteq Partitions
  /\ dirs \subseteq Partitions /\ mpdParts \subseteq OtherParts /\ known \subseteq UserIds
  /\ \A n \in nodes : IsUser(n) <=> n.id \in UserIds
  /\ \A m, n \in nodes : m.fd = n.fd /\ m.fd # NoFd => m = n
-----------------------------------------------------------------------------
(* lib/timer.c *)

\* Mutant: mympd_timer_create is given the interval also for one shot timers
ArmAlways(interval, soon) == "often"
\* it_value of 0 seconds disarms the clock unless there is an interval
Arm(interval, soon) ==
  IF interval > 0 THEN "often" ELSE IF soon THEN "off" ELSE "once"

\* The kernel gives out the smallest number that is not in use
Lowest(S) == CHOOSE f \in S : \A g \in S : f <= g

\* A clock runs out.  After the poll of a round this only matters for a
\* descriptor that is still going to be read; for the others it is the same as
\* before the next poll
FdExpires(f) ==
  /\ f \in Open(nodes) /\ clock[f] # "off"
  /\ stage = "poll" \/ f \in revents
  /\ due' = due \cup {f}
  /\ clock' = IF clock[f] = "once" THEN [clock EXCEPT ![f] = "off"] ELSE clock
  /\ UNCHANGED <<stage, nodes, repopulated, last_id, pfds, revents, partList, dirs, mpdParts, known, unsaved>>
-----------------------------------------------------------------------------
(* The operations of timer.c on a list L; all but the toggle and the one    *)
(* shot disable have pfds filled again                                      *)

List == [nodes |-> nodes, clock |-> clock, due |-> due, repop |-> repopulated]
SetList(L) == nodes' = L.nodes /\ clock' = L.clock /\ due' = L.due /\ repopulated' = L.repop
Changed(ns, cl, du) == [nodes |-> ns, clock |-> cl, due |-> du, repop |-> TRUE]

\* Mutant: pfds is not filled again after a removal
RemoveQuiet(L, gone) ==
  [nodes |-> L.nodes \ gone, clock |-> L.clock, repop |-> L.repop,
   due |-> L.due \cap Open(L.nodes \ gone)]
\* mympd_api_timer_remove and mympd_api_timer_remove_partition
Remove(L, gone) ==
  LET kept == L.nodes \ gone
  IN  Changed(kept, [f \in Fds |-> IF f \in Open(kept) THEN L.clock[f] ELSE "off"],
              L.due \cap Open(kept))

\* A change of the definition, which touches neither clock nor descriptor
UpdateNode(L, n, on, runs) ==
  [nodes |-> (L.nodes \ {n}) \cup {[id |-> n.id, interval |-> n.interval, part |-> n.part,
                                    on |-> on, fd |-> n.fd, runs |-> runs]},
   clock |-> L.clock, due |-> L.due, repop |-> L.repop]

WithId(L, id) == {n \in L.nodes : n.id = id}

\* mympd_api_timer_add: only an enabled timer gets a descriptor; if none can be
\* created nothing is added
Add(L, id, interval, part, on, soon, created) ==
  LET free == Fds \ Open(L.nodes)
      fd   == IF on THEN Lowest(free) ELSE NoFd
  IN  IF on /\ (~created \/ free = {})
      THEN Changed(L.nodes, L.clock, L.due)
      ELSE Changed(L.nodes \cup {[id |-> id, interval |-> interval, part |-> part, on |-> on,
                                  fd |-> fd, runs |-> 0]},
                   [f \in Fds |-> IF f = fd THEN Arm(interval, soon) ELSE L.clock[f]],
                   L.due)

Replace(L, id, interval, part, on, soon, created) ==
  Add(Remove(L, WithId(L, id)), id, interval, part, on, soon, created)

AddInternal(L, id, interval) == Add(L, id, interval, NoPart, TRUE, FALSE, TRUE)
ReplaceInternal(L, id) ==
  AddInternal(Remove(L, WithId(L, id)), id, IF id = Caches THEN -1 ELSE 1)

\* Mutant: mympd_api_timer_add instead of mympd_api_timer_add_uniq
AddAnyway(L, id, interval) == AddInternal(L, id, interval)
\* mympd_api_timer_add_uniq
AddUniq(L, id, interval) == IF WithId(L, id) # {} THEN L ELSE AddInternal(L, id, interval)

RemovePartitions(L, ps) == Remove(L, {n \in L.nodes : n.part \in ps})

\* mympd_api_timer_file_save
Lines(ns) == {[id |-> n.id, interval |-> n.interval, part |-> n.part, on |-> n.on] :
                n \in {m \in ns : IsUser(m)}}
-----------------------------------------------------------------------------
(* mympd_api_timer_file_read and the rest of the start; the first free     *)
(* descriptors go to the enabled timers.  Started(ls, soon) is the list     *)
(* made from the lines ls; the one shot timers of soon have start_in 0.     *)
Rank(ls, x) == 1 + Cardinality({y \in ls : y.on /\ y.id < x.id})

Started(ls, soon) ==
  LET fd(x) == IF x.on THEN CHOOSE f \in Fds : Cardinality({g \in Fds : g <= f}) = Rank(ls, x)
                       ELSE NoFd
      ns == {[id |-> x.id, interval |-> x.interval, part |-> x.part, on |-> x.on,
              fd |-> fd(x), runs |-> 0] : x \in ls}
      cl == [f \in Fds |-> IF \E x \in ls : x.on /\ fd(x) = f
                           THEN LET x == CHOOSE y \in ls : y.on /\ fd(y) = f
                                IN  Arm(x.interval, x \in soon)
                           ELSE "off"]
  IN  AddInternal(Changed(ns, cl, {}), Crop, 1)

Counted(ls)  == {x \in ls : x.part \in dirs}
Readable(ls) == {x \in Counted(ls) : x.id <= MaxId}

\* file_read stops after ListMax + 1 lines, also counting those with a great id
Start(file) ==
  \E read \in SUBSET Counted(file) : \E soon \in SUBSET {x \in Readable(read) : x.on} :
    LET ls == Readable(read)
    IN  /\ read = Counted(file) \/ Cardinality(read) = ListMax + 1
        /\ Cardinality(read) <= ListMax + 1
        /\ SetList(Started(ls, soon))
        /\ last_id' \in {FirstId} \cup {x.id : x \in ls} /\ \A x \in ls : last_id' >= x.id

TimerInit ==
  /\ stage = "poll" /\ last_id = FirstId
  /\ nodes = {[id |-> Crop, interval |-> 1, part |-> NoPart, on |-> TRUE,
               fd |-> Lowest(Fds), runs |-> 0]}
  /\ clock = [f \in Fds |-> IF f = Lowest(Fds) THEN "often" ELSE "off"]
  /\ due = {} /\ repopulated = TRUE /\ pfds = {} /\ revents = {}
  /\ partList = {DefaultPart} /\ dirs = {DefaultPart} /\ mpdParts = OtherParts
  /\ known = {} /\ unsaved = FALSE

\* SIGTERM: the loop ends, mympd_state_save writes the lists; then a new start
Restart ==
  /\ stage = "poll"
  /\ Start(Lines(nodes))
  /\ partList' = {DefaultPart} /\ pfds' = {} /\ revents' = {} /\ unsaved' = FALSE
  /\ UNCHANGED <<stage, dirs, mpdParts, known>>
-----------------------------------------------------------------------------
(* A round of the loop *)

\* populate_pfds and poll; the connect timer of the default partition comes
\* before the timers in pfds
PollTimers ==
  /\ stage = "poll"
  /\ pfds' = IF repopulated THEN Open(nodes) ELSE pfds
  /\ revents' = pfds' \cap due
  /\ stage' \in {"connect", "timers"}
  /\ repopulated' = FALSE
  /\ UNCHANGED <<nodes, clock, due, last_id, partList, dirs, mpdParts, known, unsaved>>

\* partitions_populate: partitions MPD does not have any more are freed
\* with their timers
Populated(L) == RemovePartitions(L, partList \ ({DefaultPart} \cup mpdParts))
Populate ==
  /\ partList' = {DefaultPart} \cup mpdParts
  /\ dirs' = dirs \cup partList'

\* partitions_connect for the default partition: each of the two timers is
\* replaced if its condition holds
Connected(L, older, periodic) ==
  LET L1 == IF older THEN ReplaceInternal(L, Caches) ELSE L
  IN  IF periodic THEN ReplaceInternal(L1, SmartPls) ELSE L1

ConnectParts ==
  /\ stage = "connect" /\ stage' = "timers"
  /\ \E older, periodic, listed \in BOOLEAN :
       LET L == Connected(List, older, periodic)
       IN  /\ (older => Caches \in Replaced) /\ (periodic => SmartPls \in Replaced)
           /\ IF listed THEN SetList(Populated(L)) /\ Populate
                        ELSE SetList(L) /\ UNCHANGED <<partList, dirs>>
  /\ UNCHANGED <<last_id, pfds, revents, mpdParts, known, unsaved>>

\* mympd_timer_read fails if the descriptor was closed or replaced in this round
Stale(f) ==
  /\ stage = "timers" /\ f \in revents \ due
  /\ revents' = revents \ {f}
  /\ UNCHANGED <<stage, tlist, last_id, pfds, partList, dirs, mpdParts, known, unsaved>>

\* mympd_api_timer_check for a disabled timer or on a weekday without it
Skip(f) ==
  /\ stage = "timers" /\ f \in revents \cap due
  /\ \E n \in nodes : n.fd = f /\ IsUser(n)
  /\ revents' = revents \ {f} /\ due' = due \ {f}
  /\ UNCHANGED <<stage, nodes, clock, repopulated, last_id, pfds, partList, dirs, mpdParts, known, unsaved>>

\* mympd_api_timer_check: the callback pushes a request, or saves the state;
\* then a one shot timer is disabled or removed
Run(f) ==
  /\ stage = "timers" /\ f \in revents \cap due
  /\ revents' = revents \ {f}
  /\ \E n \in nodes :
       LET on   == n.on /\ ~(IsUser(n) /\ n.interval = 0)
           runs == IF n.interval <= 0 /\ n.runs < 2 THEN n.runs + 1 ELSE n.runs
           L    == IF n.interval < 0 THEN Remove(List, WithId(List, n.id))
                                     ELSE UpdateNode(List, n, on, runs)
       IN  /\ n.fd = f /\ n.on
           /\ SetList([nodes |-> L.nodes, clock |-> L.clock, due |-> L.due \ {f},
                       repop |-> L.repop])
           /\ unsaved' = (unsaved /\ n.id # StateSave)
  /\ UNCHANGED <<stage, last_id, pfds, partList, dirs, mpdParts, known>>

\* All events are handled; what follows is mympd_client_idle
AtIdle == stage = "timers" /\ revents = {}

\* mympd_client_idle handled nothing
Quiet ==
  /\ AtIdle /\ stage' = "poll"
  /\ UNCHANGED <<tlist, last_id, pfds, revents, partList, dirs, mpdParts, known, unsaved>>

\* Mutant: the timer is only added if the list holds no other than crop
ScheduleAlone(L) == IF Cardinality(L.nodes) = 1 THEN AddUniq(L, StateSave, -1) ELSE L
\* mympd_client_idle returned true
ScheduleSave(L) == AddUniq(L, StateSave, -1)

Idle(L) ==
  /\ AtIdle /\ stage' = "poll"
  /\ SetList(ScheduleSave(L))
  /\ UNCHANGED <<pfds, revents>>
-----------------------------------------------------------------------------
(* What mympd_client_idle may handle *)

\* Mutant: the limit is not checked
TooManyNever == FALSE
TooMany == Cardinality(nodes) > ListMax

\* mympd_api_timer_save: id 0 for a new timer
TimerSave ==
  /\ \E id \in {0} \cup known, interval \in Intervals, part \in partList :
     \E on, soon, created \in BOOLEAN :
       LET timerid == IF id = 0 THEN last_id + 1 ELSE id
           L == Replace(List, timerid, interval, part, on, soon, created)
       IN  \* only an enabled timer needs a descriptor, only a one shot timer starts late
           /\ (created \/ on) /\ (soon => created /\ on /\ interval <= 0)
           /\ IF TooMany THEN Idle(List) /\ UNCHANGED <<last_id, unsaved>>
              ELSE /\ timerid <= LastId
                   /\ Idle(L)
                   /\ last_id' = IF id = 0 /\ WithId(L, timerid) # {} THEN timerid ELSE last_id
                   /\ unsaved' = TRUE
           /\ known' = known \cup {n.id : n \in {m \in nodes' : IsUser(m) /\ m.id <= MaxId}}
  /\ UNCHANGED <<partList, dirs, mpdParts>>

TimerRm ==
  /\ \E id \in FirstId + 1 .. MaxId :
       Idle(Remove(List, Listed(id))) /\ unsaved' = (unsaved \/ Listed(id) # {})
  /\ UNCHANGED <<last_id, partList, dirs, mpdParts, known>>

\* mympd_api_timer_toggle changes the definition, but neither clock nor descriptor
TimerToggle ==
  /\ \E n \in nodes :
       /\ IsUser(n) /\ n.id <= MaxId
       /\ Idle(UpdateNode(List, n, ~n.on, n.runs))
  /\ unsaved' = TRUE
  /\ UNCHANGED <<last_id, partList, dirs, mpdParts, known>>

\* MPD_IDLE_DATABASE, or the setting smartplsInterval
ReplaceTimer ==
  /\ \E id \in Replaced : Idle(ReplaceInternal(List, id))
  /\ UNCHANGED <<last_id, partList, dirs, mpdParts, known, unsaved>>

\* smartplsInterval is set to 0
RemoveSmartPls ==
  /\ Idle(Remove(List, Listed(SmartPls)))
  /\ UNCHANGED <<last_id, partList, dirs, mpdParts, known, unsaved>>

\* MPD_IDLE_PARTITION
PartsEvent ==
  /\ Idle(Populated(List)) /\ Populate
  /\ UNCHANGED <<last_id, mpdParts, known, unsaved>>

\* MYMPD_API_PARTITION_RM removes the directory, the event above the rest
PartsRm ==
  /\ \E p \in partList \ {DefaultPart} : mpdParts' = mpdParts \ {p} /\ dirs' = dirs \ {p}
  /\ Idle(List)
  /\ UNCHANGED <<last_id, partList, known, unsaved>>

\* Any other request or event
OtherWork == Idle(List) /\ UNCHANGED <<last_id, partList, dirs, mpdParts, known, unsaved>>

\* Other clients of MPD create and delete partitions
MpdPartitions ==
  /\ mpdParts' \in SUBSET OtherParts
  /\ UNCHANGED <<stage, tlist, last_id, pfds, revents, partList, dirs, known, unsaved>>

TimerNext ==
  \/ \E f \in Fds : FdExpires(f) \/ Stale(f) \/ Skip(f) \/ Run(f)
  \/ PollTimers \/ ConnectParts \/ Quiet
  \/ TimerSave \/ TimerRm \/ TimerToggle \/ ReplaceTimer \/ RemoveSmartPls
  \/ PartsEvent \/ PartsRm \/ OtherWork \/ MpdPartitions
  \/ Restart

TimerSpec == TimerInit /\ [][TimerNext]_tvars
-----------------------------------------------------------------------------
(* When the thread polls, it polls the descriptors of all listed timers    *)
(* and no other, whatever the round before replaced (populate_pfds,        *)
(* mympd_api.c:126).                                                       *)
PollsListed == stage = "poll" /\ ~repopulated => pfds = Open(nodes)

(* No two timers have the same id (mympd_api_timer_replace, add_uniq and   *)
(* the ids given out by mympd_api_timer_save), so that a removal or an     *)
(* edit by id meets the right one.                                         *)
UniqueIds == \A m, n \in nodes : m.id = n.id => m = n

(* A one shot timer runs at most once until it is saved again, also if it  *)
(* is enabled again after it was disabled (timer.c:93).                    *)
OneShotOnce == \A n \in nodes : n.interval <= 0 => n.runs <= 1

(* A change a client made is written: the list is saved already or the     *)
(* timer TIMER_ID_STATE_SAVE is going to run (mympd_api.c:146).            *)
ChangesScheduled ==
  stage = "poll" /\ unsaved =>
    \E n \in Listed(StateSave) : clock[n.fd] = "once" \/ n.fd \in due

(* timer_ids[LIST_TIMER_MAX] of mympd_api_timer_remove_partition has room  *)
(* for the timers of any partition (timer.c:324).                          *)
FitsArray ==
  \A p \in Partitions : Cardinality({n \in nodes : n.part = p}) <= ListMax
=============================================================================
