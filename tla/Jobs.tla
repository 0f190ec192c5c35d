-------------------------------- MODULE Jobs --------------------------------
(***************************************************************************)
(* The work the api thread gives to detached threads (mympd_worker) and to *)
(* jukebox scripts, and what tells it that work is under way: the flags    *)
(* album_cache.building and jukebox.filling.  The api thread sets them     *)
(* before it starts a worker; requests that come back through              *)
(* mympd_api_queue reset them.  The album cache is shared: workers read it *)
(* under a rwlock, the api thread replaces it.                             *)
(*                                                                         *)
(* The jukebox is the one of the default partition; a second partition     *)
(* matters for the results its workers send, which are discarded when it   *)
(* is gone (mympd_client_idle).                                            *)
(***************************************************************************)
EXTENDS Integers, FiniteSets, Sequences

CONSTANTS
  Workers,          \* memory for threads; without a free one pthread_create fails
  MaxWorkers,       \* MAX_MPD_WORKER_THREADS
  Trees,            \* addresses of album caches
  None,
  FirstMode,        \* of the jukebox
  MaxRequests,      \* bound: requests of browsers and timers, runs of the jukebox
  MaxChanges        \* bound: jukebox modes, features of MPD, partitions

Default == "default"
Partitions == {Default, "other"}

Requests == {"caches", "refill", "refill_add", "refill_add bad", "random"}
Results == {"cache created", "cache error", "cache skipped", "jukebox created", "jukebox error"}
Modes == {"off", "song", "album", "script"}
Stages == {"none", "created", "run", "build", "write", "read", "add", "end"}

ASSUME JobsAssumption ==
  /\ FirstMode \in {"off", "song", "album", "script"} /\ None \notin Trees /\ Trees # {} /\ IsFiniteSet(Workers)
  /\ MaxWorkers \in Nat /\ MaxRequests \in Nat /\ MaxChanges \in Nat

VARIABLES
  queue,            \* mympd_api_queue
  building, filling, mode,
  tags,             \* mpd_state->feat.tags
  parts,            \* partitions that exist
  cache,            \* album_cache.cache
  trees,            \* album caches that are allocated
  extra,            \* of the request the api thread handles while it waits for the lock
  worker,           \* Workers -> stage, command, what it copied, its tree
  readers,          \* workers that hold the read lock
  scripts,          \* jukebox scripts that were triggered and have not ended
  left,             \* what the bounds leave
  lostBuild,        \* history: nothing resets building any more
  lostFill,         \* history: nothing resets filling any more
  released          \* history: building was reset while another build is under way

flags == <<building, filling, mode>>
history == <<lostBuild, lostFill, released>>
vars == <<queue, flags, tags, parts, cache, trees, extra, worker, readers, scripts, left, history>>

Idle == [at |-> "none", cmd |-> "none", part |-> Default, mode |-> "off", tags |-> FALSE,
         tree |-> None]
\* stray is history: the result of a worker for which building was not set
Message(c, p, t, s) == [cmd |-> c, part |-> p, tree |-> t, stray |-> s]

TypeOK ==
  /\ queue \in Seq([cmd : Requests \cup Results, part : Partitions, tree : Trees \cup {None},
                   stray : BOOLEAN])
  /\ building \in BOOLEAN /\ filling \in BOOLEAN /\ mode \in Modes /\ tags \in BOOLEAN
  /\ Default \in parts /\ parts \subseteq Partitions
  /\ cache \in Trees \cup {None} /\ trees \subseteq Trees /\ extra \in Trees \cup {None}
  /\ worker \in [Workers -> [at : Stages, cmd : Requests \cup {"none"}, part : Partitions,
                             mode : Modes, tags : BOOLEAN, tree : Trees \cup {None}]]
  /\ readers = {w \in Workers : worker[w].at = "read"}
  /\ scripts \in Nat
  /\ left \in [requests : 0 .. MaxRequests, changes : 0 .. MaxChanges]
  /\ lostBuild \in BOOLEAN /\ lostFill \in BOOLEAN /\ released \in BOOLEAN

\* The cache of the last run may have been read from its file
Init ==
  /\ queue = <<>> /\ building = FALSE /\ filling = FALSE
  /\ mode = FirstMode /\ tags = TRUE /\ parts = Partitions
  /\ cache \in {CHOOSE t \in Trees : TRUE, None} /\ trees = {cache} \ {None} /\ extra = None
  /\ worker = [w \in Workers |-> Idle] /\ readers = {} /\ scripts = 0
  /\ left = [requests |-> MaxRequests, changes |-> MaxChanges]
  /\ lostBuild = FALSE /\ lostFill = FALSE /\ released = FALSE

-----------------------------------------------------------------------------
Push(c, p, t) == queue' = Append(queue, Message(c, p, t, FALSE))
Spend(f) == left[f] > 0 /\ left' = [left EXCEPT ![f] = @ - 1]

Started == {w \in Workers : worker[w].at \notin {"none", "created"}}
TooMany == Cardinality(Started) > MaxWorkers        \* mympd_worker_threads

\* Workers that build an album cache, or will
Builders == {w \in Workers : /\ worker[w].cmd = "caches" /\ worker[w].tags
                             /\ worker[w].at \in {"created", "run", "build"}}

SetBuilding(b) == building' = b /\ lostBuild' = (b /\ lostBuild)
SetFilling(b) == filling' = b /\ lostFill' = (b /\ lostFill)
LoseFill == lostFill' = filling                    \* nothing else changes filling

\* A request of a browser or a timer.  "random" stands for the commands that have
\* nothing to do with the flags
Request ==
  /\ Spend("requests")
  /\ \E c \in Requests, p \in Partitions :
       /\ p # Default => c = "caches"
       /\ Push(c, p, None)
  /\ UNCHANGED <<flags, tags, parts, cache, trees, extra, worker, readers, scripts, history>>

\* MPD is another one after a reconnect; partitions come and go
Environment ==
  /\ extra = None /\ Spend("changes")
  /\ \/ tags' = ~tags /\ UNCHANGED parts
     \/ parts' \in {{Default}, Partitions} /\ parts' # parts /\ UNCHANGED tags
  /\ UNCHANGED <<queue, flags, cache, trees, extra, worker, readers, scripts, history>>
-----------------------------------------------------------------------------
(* mympd_client/jukebox.c, on the api thread *)

\* jukebox_trigger_script, if there is a script
Trigger ==
  /\ scripts' = scripts + 1 /\ filling' = TRUE /\ lostFill' = (filling /\ lostFill)

\* jukebox_run when MPD's queue is too short
JukeboxRun(m) ==
  \/ UNCHANGED <<queue, filling, scripts, lostFill>>
  \/ /\ ~filling /\ m # "off"
     /\ \/ m = "script" /\ Trigger /\ UNCHANGED queue
        \/ /\ m # "script" /\ SetFilling(TRUE)
           /\ \E c \in {"refill", "refill_add"} : Push(c, Default, None)
           /\ UNCHANGED scripts

\* its timer, the start of a connection, MYMPD_API_JUKEBOX_RESTART
RunJukebox ==
  /\ extra = None /\ Spend("requests") /\ JukeboxRun(mode)
  /\ UNCHANGED <<building, mode, tags, parts, cache, trees, extra, worker, readers,
                 lostBuild, released>>

\* MYMPD_API_PLAYER_OPTIONS_SET
SetMode ==
  /\ extra = None /\ Spend("changes")
  /\ mode' \in Modes \ {mode} /\ JukeboxRun(mode')
  /\ UNCHANGED <<building, tags, parts, cache, trees, extra, worker, readers, lostBuild, released>>
-----------------------------------------------------------------------------
(* mympd_api_handler *)

Handle == extra = None /\ queue # <<>> /\ queue' = Tail(queue)
Req == Head(queue)
Known == Req.part \in parts

\* "Discarding request for unknown partition": free_request frees the extra
Unknown ==
  /\ Handle /\ ~Known
  /\ trees' = trees \ {Req.tree}
  /\ lostBuild' = (lostBuild \/ (building /\ Req.cmd \in Results))
  /\ UNCHANGED <<flags, tags, parts, cache, extra, worker, readers, scripts, left,
                 lostFill, released>>

ToWorker == Handle /\ Known /\ Req.cmd \in Requests
Refill == Req.cmd \in {"refill", "refill_add", "refill_add bad"}

\* Too many threads, a cache that is being built, a jukebox that is off: only an
\* answer.  A refill leaves filling as it is.
Refuse ==
  /\ ToWorker
  /\ \/ TooMany
     \/ Req.cmd = "caches" /\ building
     \/ Refill /\ mode = "off"
  /\ IF Refill THEN LoseFill ELSE UNCHANGED lostFill
  /\ UNCHANGED <<flags, tags, parts, cache, trees, extra, worker, readers, scripts, left,
                 lostBuild, released>>

\* a refill that reaches the handler after the mode was changed to a script
RefillByScript ==
  /\ ToWorker /\ Refill /\ mode = "script" /\ ~TooMany
  /\ \/ Trigger /\ UNCHANGED <<building, mode>>
     \/ LoseFill /\ UNCHANGED <<scripts, flags>>
  /\ UNCHANGED <<tags, parts, cache, trees, extra, worker, readers, left, lostBuild, released>>

\* mutant: two builds at a time
AcceptsAnyway ==
  /\ ToWorker /\ ~TooMany
  /\ Refill => mode \in {"song", "album"}

Accepts ==
  /\ ToWorker /\ ~TooMany
  /\ Req.cmd = "caches" => ~building
  /\ Refill => mode \in {"song", "album"}

\* what mympd_worker_start copies for the worker
Copied == [at |-> "created", cmd |-> Req.cmd, part |-> Req.part, tree |-> None,
           mode |-> IF Refill THEN mode ELSE "off", tags |-> (tags /\ Req.cmd = "caches")]

StartWorker ==
  /\ Accepts
  /\ \E w \in Workers : worker[w].at = "none"
  /\ LET w == CHOOSE v \in Workers : worker[v].at = "none"        \* any free memory
     IN  worker' = [worker EXCEPT ![w] = Copied]
  /\ IF Req.cmd = "caches" THEN building' = tags ELSE UNCHANGED building
  /\ UNCHANGED <<filling, mode, tags, parts, cache, trees, extra, readers, scripts, left, history>>

\* "Error starting worker thread" resets building whatever the command was
StartFails ==
  /\ Accepts /\ SetBuilding(FALSE)
  /\ released' = (released \/ building)
  /\ IF Refill THEN LoseFill ELSE UNCHANGED lostFill
  /\ UNCHANGED <<filling, mode, tags, parts, cache, trees, extra, worker, readers, scripts, left>>

\* The result of a worker that was started without tags may come when another builds
CacheFailed ==
  /\ Handle /\ Known /\ Req.cmd \in {"cache error", "cache skipped"}
  /\ SetBuilding(FALSE)
  /\ released' = (released \/ (building /\ Req.stray))
  /\ UNCHANGED <<filling, mode, tags, parts, cache, trees, extra, worker, readers, scripts, left,
                 lostFill>>

\* the write lock is waited for, or cannot be had
CacheCreated ==
  /\ Handle /\ Known /\ Req.cmd = "cache created" /\ SetBuilding(FALSE)
  /\ \/ extra' = Req.tree /\ UNCHANGED trees
     \/ trees' = trees \ {Req.tree} /\ UNCHANGED extra
  /\ UNCHANGED <<filling, mode, tags, parts, cache, worker, readers, scripts, left,
                 lostFill, released>>

\* mutant: free_request frees the tree that has just become the cache
ReplaceFrees ==
  /\ extra # None /\ readers = {}
  /\ trees' = trees \ {cache, extra} /\ cache' = extra /\ extra' = None
  /\ UNCHANGED <<queue, flags, tags, parts, worker, readers, scripts, left, history>>

\* mutant: the write lock is not taken
ReplaceUnlocked ==
  /\ extra # None
  /\ trees' = trees \ {cache} /\ cache' = extra /\ extra' = None
  /\ UNCHANGED <<queue, flags, tags, parts, worker, readers, scripts, left, history>>

Replace ==
  /\ extra # None /\ readers = {}
  /\ trees' = trees \ {cache} /\ cache' = extra /\ extra' = None
  /\ UNCHANGED <<queue, flags, tags, parts, worker, readers, scripts, left, history>>

JukeboxCreated ==
  /\ Handle /\ Known /\ Req.cmd = "jukebox created" /\ SetFilling(FALSE)
  /\ UNCHANGED <<building, mode, tags, parts, cache, trees, extra, worker, readers, scripts, left,
                 lostBuild, released>>

JukeboxError ==
  /\ Handle /\ Known /\ Req.cmd = "jukebox error" /\ SetFilling(FALSE) /\ mode' = "off"
  /\ UNCHANGED <<building, tags, parts, cache, trees, extra, worker, readers, scripts, left,
                 lostBuild, released>>

Api == \/ Unknown \/ Refuse \/ RefillByScript \/ StartWorker \/ StartFails
       \/ CacheFailed \/ CacheCreated \/ Replace \/ JukeboxCreated \/ JukeboxError
-----------------------------------------------------------------------------
(* mympd_worker_run, on thread w *)

At(w, stage) == worker[w].at = stage
Goto(w, stage) == worker' = [worker EXCEPT ![w].at = stage]
Answer(w, result) ==
  queue' = Append(queue, Message(result, worker[w].part, None,
                                 worker[w].cmd = "caches" /\ ~worker[w].tags))
IsRefill(w) == worker[w].cmd \in {"refill", "refill_add", "refill_add bad"}
api == <<flags, tags, parts, cache, extra, scripts, left, released>>

\* mutant: no request to the api thread when MPD cannot be reached
ConnectFailsQuietly(w) ==
  /\ At(w, "created") /\ Goto(w, "end")
  /\ IF IsRefill(w) THEN LoseFill ELSE UNCHANGED lostFill
  /\ UNCHANGED <<api, queue, trees, readers, lostBuild>>

\* only the failed build of a cache is reported
ConnectFails(w) ==
  /\ At(w, "created") /\ Goto(w, "end")
  /\ IF worker[w].cmd = "caches" THEN Answer(w, "cache error") ELSE UNCHANGED queue
  /\ IF IsRefill(w) THEN LoseFill ELSE UNCHANGED lostFill
  /\ UNCHANGED <<api, trees, readers, lostBuild>>

\* mpd_run_switch_partition: nothing is reported
SwitchFails(w) ==
  /\ At(w, "created") /\ worker[w].part # Default /\ Goto(w, "end")
  /\ lostBuild' = (lostBuild \/ (building /\ worker[w].cmd = "caches"))
  /\ UNCHANGED <<api, queue, trees, readers, lostFill>>

Connect(w) ==
  /\ At(w, "created") /\ Goto(w, "run")
  /\ UNCHANGED <<api, queue, trees, readers, lostBuild, lostFill>>

\* mympd_worker_album_cache_create: the tags are disabled or the cache is up to
\* date; only without tags and without force nothing may be reported
SkipBuild(w) ==
  /\ At(w, "run") /\ worker[w].cmd = "caches" /\ Goto(w, "end")
  /\ \/ Answer(w, "cache skipped")
     \/ ~worker[w].tags /\ UNCHANGED queue
  /\ UNCHANGED <<api, trees, readers, lostBuild, lostFill>>

Build(w) ==
  /\ At(w, "run") /\ worker[w].cmd = "caches" /\ worker[w].tags
  /\ Trees \ trees # {}
  /\ LET t == CHOOSE t \in Trees \ trees : TRUE           \* any free address
     IN  /\ worker' = [worker EXCEPT ![w].at = "build", ![w].tree = t]
         /\ trees' = trees \cup {t}
  /\ UNCHANGED <<api, queue, readers, lostBuild, lostFill>>

\* The worker still reads the tree after the push, to write it to a file
Built(w) ==
  /\ At(w, "build")
  /\ \/ Push("cache created", worker[w].part, worker[w].tree) /\ Goto(w, "write") /\ UNCHANGED trees
     \/ /\ Answer(w, "cache error") /\ trees' = trees \ {worker[w].tree}
        /\ worker' = [worker EXCEPT ![w].at = "end", ![w].tree = None]
  /\ UNCHANGED <<api, readers, lostBuild, lostFill>>

\* cache_get_read_lock waits only while the lock is held for writing, which is one step
ReadLock(w) ==
  /\ At(w, "run")
  /\ worker[w].cmd = "random" \/ (IsRefill(w) /\ worker[w].cmd # "refill_add bad")
  /\ IsRefill(w) => worker[w].mode = "album"
  /\ worker' = [worker EXCEPT ![w].at = "read", ![w].tree = cache]
  /\ readers' = readers \cup {w}
  /\ UNCHANGED <<api, queue, trees, lostBuild, lostFill>>

Fill(w, stage) ==
  IF worker[w].cmd = "refill_add"
  THEN /\ UNCHANGED queue /\ worker' = [worker EXCEPT ![w].at = stage, ![w].tree = None]
  ELSE /\ IF IsRefill(w) THEN Answer(w, "jukebox created") ELSE UNCHANGED queue
       /\ worker' = [worker EXCEPT ![w].at = "end", ![w].tree = None]

\* mutant: the lock is kept when too few albums were found
ReadKeepsLock(w) ==
  /\ At(w, "read")
  /\ \/ readers' = readers \ {w} /\ Fill(w, "add")
     \/ /\ IF IsRefill(w) THEN Answer(w, "jukebox error") ELSE UNCHANGED queue
        /\ worker' = [worker EXCEPT ![w].at = "end", ![w].tree = None] /\ UNCHANGED readers
  /\ UNCHANGED <<api, trees, lostBuild, lostFill>>

\* random_select_albums, the lock is released, there are enough of them or not
Read(w) ==
  /\ At(w, "read") /\ readers' = readers \ {w}
  /\ \/ Fill(w, "add")
     \/ /\ IF IsRefill(w) THEN Answer(w, "jukebox error") ELSE UNCHANGED queue
        /\ worker' = [worker EXCEPT ![w].at = "end", ![w].tree = None]
  /\ UNCHANGED <<api, trees, lostBuild, lostFill>>

\* songs from MPD, or no lock
FillSongs(w) ==
  /\ At(w, "run") /\ worker[w].cmd \in {"refill", "refill_add", "random"}
  /\ \/ (IsRefill(w) => worker[w].mode = "song") /\ Fill(w, "add")
     \/ /\ IF IsRefill(w) THEN Answer(w, "jukebox error") ELSE UNCHANGED queue
        /\ Goto(w, "end")
  /\ UNCHANGED <<api, trees, readers, lostBuild, lostFill>>

\* jukebox_add_to_queue; it looks albums up in the shared cache without the lock
AddToQueue(w) ==
  /\ At(w, "add") /\ Goto(w, "end")
  /\ \/ Answer(w, "jukebox created") \/ Answer(w, "jukebox error")
  /\ UNCHANGED <<api, trees, readers, lostBuild, lostFill>>

\* a missing parameter, the file of the cache
Finish(w) ==
  /\ \/ At(w, "run") /\ worker[w].cmd = "refill_add bad"
     \/ At(w, "write")
  /\ worker' = [worker EXCEPT ![w].at = "end", ![w].tree = None]
  /\ UNCHANGED <<api, queue, trees, readers, lostBuild, lostFill>>

End(w) ==
  /\ At(w, "end") /\ worker' = [worker EXCEPT ![w] = Idle]
  /\ UNCHANGED <<api, queue, trees, readers, lostBuild, lostFill>>

Worker(w) == \/ ConnectFails(w) \/ SwitchFails(w) \/ Connect(w) \/ SkipBuild(w) \/ Build(w)
             \/ Built(w) \/ ReadLock(w) \/ Read(w) \/ FillSongs(w) \/ AddToQueue(w)
             \/ Finish(w) \/ End(w)

\* A script sends a new queue for the jukebox, an error, or ends without either
Script ==
  /\ scripts > 0 /\ scripts' = scripts - 1
  /\ \/ \E c \in {"jukebox created", "jukebox error"} : Push(c, Default, None) /\ UNCHANGED lostFill
     \/ LoseFill /\ UNCHANGED queue
  /\ UNCHANGED <<flags, tags, parts, cache, trees, extra, worker, readers, left, lostBuild, released>>
-----------------------------------------------------------------------------
Next == Request \/ Environment \/ RunJukebox \/ SetMode \/ Api \/ Script \/ \E w \in Workers : Worker(w)

\* The api thread handles its queue and workers end: the calls to MPD time out.
\* Scripts may run for ever.
Spec == Init /\ [][Next]_vars
FairSpec == Spec /\ WF_vars(Api) /\ \A w \in Workers : WF_vars(Worker(w))
-----------------------------------------------------------------------------
Queued(cmds) == \E i \in DOMAIN queue : queue[i].cmd \in cmds
Pending(c) == \E w \in Workers : worker[w].cmd = c /\ worker[w].at \notin {"none", "write", "end"}

(* A flag that is set will be reset: a request, a worker or a script is on  *)
(* its way that resets it.  The ways to lose it are the refusals of a       *)
(* refill, workers that cannot be started or connected, a partition that is *)
(* gone, scripts that do not report; there are no others.                   *)
FlagsCovered ==
  /\ building => \/ lostBuild \/ Pending("caches")
                 \/ Queued({"cache created", "cache error", "cache skipped"})
  /\ filling => \/ lostFill \/ scripts > 0
                \/ Queued({"refill", "refill_add", "jukebox created", "jukebox error"})
                \/ Pending("refill") \/ Pending("refill_add")

(* Two workers do not build the album cache at once, unless building was    *)
(* reset by a thread that could not be started or by the result of a worker *)
(* that was started without tags (mympd_api_handler.c:193, :197).           *)
OneBuild == ~released => Cardinality(Builders) <= 1

\* How often tree t is owned: by the cache, a request or the worker that builds it
Owners(t) ==
  Cardinality({i \in DOMAIN queue : queue[i].tree = t})
    + Cardinality({w \in Workers : At(w, "build") /\ worker[w].tree = t})
    + (IF cache = t THEN 1 ELSE 0) + (IF extra = t THEN 1 ELSE 0)

(* Every album cache has one owner that frees it, and only one: none is     *)
(* leaked, freed twice or freed while it is the cache, on all paths of the  *)
(* request that carries it (request->extra and extra_free).                 *)
TreesOwned == \A t \in Trees : Owners(t) = IF t \in trees THEN 1 ELSE 0

(* A worker that holds the read lock reads an album cache that is not freed. *)
CacheReadLocked == \A w \in readers : worker[w].tree \in trees \cup {None}

(* Flags that are set are reset in time, unless what resets them was lost   *)
(* or a script does not end.                                                *)
FlagsReset ==
  /\ building ~> (~building \/ lostBuild)
  /\ filling ~> (~filling \/ lostFill \/ scripts > 0)

(* The flags tell the truth about the work that is under way.              *)
FlagsTrue == FlagsCovered /\ OneBuild

(* The album cache is used by its owners and readers, and freed by one.    *)
CacheOwned == TreesOwned /\ CacheReadLocked
=============================================================================
