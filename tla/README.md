# myMPD in TLA+

myMPD is a web client for the Music Player Daemon (MPD): a single C process that serves a web
page, forwards its JSON-RPC requests to MPD, keeps timers, triggers, a jukebox and caches of its
own, and runs Lua scripts. This directory holds TLA+ models of the parts of it in which threads,
connections, timers and signals meet, the TLC runs that check them on small instances, and
theorems that TLAPS proves for all instances. Paths below are relative to `src/src/` of the
repository unless they say otherwise. `PROJECT.json` lists components, runs, mutants, findings,
hazards and theorems, and for each definition the lines it stands for.

## 1. The system

### Threads and queues

    browser --> webserver --push--> mympd_api_queue --eventfd--> api thread --> MPD
       ^            |                   ^    ^   ^                 |   |
       |            +--> script_queue --|----|---|-- trigger ------+   +--> worker threads
       |                     |          |    |   +-- results ------------------+ (detached)
       |                     v          |    |
       |               scripts thread --|----|--> script threads (detached)
       |                                |    |        |     ^
       |                                |    +--------+     | script_worker_queue
       +------ webserver_queue <--------+-------------------+

| thread | code | waits in | state it keeps |
| --- | --- | --- | --- |
| main | `main.c` | `pthread_join` | handles of the threads, the queues |
| webserver | `webserver/` | `mg_mgr_poll` (connections, a socket pair for wakeups) | connections, sessions |
| api | `mympd_api/`, `mympd_client/` | `poll` (eventfd, MPD connections, timerfds) | partitions and their connections, timers, triggers, jukebox, caches, settings |
| scripts | `scripts/scripts.c` | `pthread_cond_wait` on `script_queue` | scripts, variables |
| script threads | `scripts/scripts_worker.c` | `pthread_cond_timedwait` on `script_worker_queue` | a Lua state each |
| workers | `mympd_worker/` | MPD | a copy of settings, an MPD connection, a pointer to the album cache |

Signals (`lib/signal.c`) are handled on whichever thread the kernel interrupts.

### Components

For each component: its state, its operations, what makes it hard, what makes it correct.

* **Message queues** (`lib/msg_queue.c`, `lib/event.c`). A singly linked list with head, tail and
  length, a mutex, a condition variable, and for two queues a notification (an eventfd used as a
  semaphore, a wakeup message of mongoose). Push, shift (any entry or one with an id; without,
  with a bounded or an unbounded wait), expiry by age. Hard: signal and notification come after
  the unlock; several consumers wait on one condition for different ids; the wakeup messages may
  be dropped. Correct: a FIFO per id in which nothing is lost, and no consumer sleeps beside its
  entry.
* **API calls of scripts** (`scripts/interface_mympd_api.c`). Request with a random id, then up to
  60 waits of a second for the response with this id. Hard: late and lost responses, wakeups for
  others, expiry of old responses. Correct: a call ends, with its own response or an error.
* **api thread** (`mympd_api/mympd_api.c`, `mympd_client/idle.c`, `partitions.c`, `connection.c`,
  `errorhandler.c`). One connection per partition, in MPD's idle mode while the thread sleeps; an
  array of polled descriptors, `pfds`, that points to the partitions. Hard: every call to MPD may
  find the connection broken; requests and events of one round free partitions that later entries
  of the round point to. Correct: no partition is forgotten, every request is answered once.
* **Commands** (`mympd_api/mympd_api_handler.c`): some 200 methods. Most are a check of parameters
  and one or more MPD commands; a few change the state of the thread itself (connection, timers,
  partitions, jukebox, workers).
* **Timers** (`mympd_api/timer.c`, `lib/timer.c`). Nodes with an id, an interval and a timerfd;
  user timers are stored in a file. Hard: ids come from four sources; the list changes while its
  descriptors are being handled; descriptor numbers are reused.
* **Triggers** (`mympd_api/trigger.c`). A sorted list of events and scripts; ids are positions in
  it. Hard: a listing is old when its ids come back; partitions go in MPD or in myMPD. Correct: an
  id of a fresh listing hits the trigger that was shown, a deleted trigger starts nothing more.
* **Workers** (`mympd_worker/`) and **album cache** (`lib/cache/cache_rax*.c`). Detached threads
  build the cache, fill the jukebox and edit playlists. Hard: flags say that work is under way and
  have to be reset whatever fails; the cache is replaced while others read it.
* **Jukebox** (`mympd_client/jukebox.c`, `mympd_api/jukebox.c`). A queue that is filled by workers
  or scripts and feeds MPD's queue.
* **Life cycle** (`main.c`, `lib/signal.c`, `lib/thread.c`). Creation, end and join of the
  threads, the order in which queues are freed, SIGTERM and SIGHUP.
* **Webserver** (`webserver/`). HTTP and websocket connections, a proxy for covers and streams;
  responses are matched to connections by their id. Hard: browsers send ahead, connections end in
  any order, responses come for connections that are gone or before the api thread is ready.
  Correct: the k-th answer is that to the k-th request, and everybody gets one. **Sessions** end by
  time, logout or because there are too many.
* **Scripts thread** (`scripts/`). The list of scripts mirrors a directory, with compiled code;
  starts scripts up to a limit; variables that stay and values that expire. Correct: what runs is
  what is on disk, each request is answered once.
* **Sticker database** (`mympd_client/stickerdb.c`). A second MPD connection with its own idle mode,
  opened on demand. Correct: a play is counted once, no command in idle mode.
* **Playlists** (`mympd_client/playlists.c`, `mympd_worker/smartpls.c`). Jobs and commands of many
  exchanges with MPD, on two threads. Correct: no song is lost when an exchange fails or a client
  edits at the same time; a smart playlist has what its definition says.
* **Queue** (`mympd_api/queue.c`, `mympd_client/queue.c`). Commands with positions that are right
  only until another client moves a song. Correct: what was asked for arrives as a block, the song
  that plays is the added one, cropping keeps the current one.
* **Search, browsing, random selection**. A dozen loops that page through lists; reservoir drawing
  from pages. Correct: the pages show everything once; what is drawn fits and is unique.
* **Settings** (`mympd_api/settings.c`) and **state files** (`lib/filehandler.c`,
  `lib/config/state_files.c`). Checked, kept, applied and written key by key; lists are written to
  temporary files at times. Correct: in force is what is shown, what was written comes back, a file
  is never half.
* **Lists** (`lib/list/`) and **webradios** (`lib/webradio.c`). Links, tails and lengths by hand; two
  indexed trees behind two locks that two threads read. Correct: the list is a sequence, nobody
  follows a pointer to what was freed.
* **Images, lyrics, JSON, strings, HTTP client**: parsing, formatting, input and output.

What a test hardly reaches in this code is listed under "hazards" in `PROJECT.json`, at the line
where it bites and with the properties that cover it.

## 2. Modules

| module | models | composes or refines |
| --- | --- | --- |
| `Channel` | what a queue promises: tickets, ids, oldest matching entry first | |
| `QueueList` | the linked list of `lib/msg_queue.c` | implements `Channel` (`RefinesChannel`) |
| `MsgQueue`, `MCMsgQueue` | producers, consumers and notifications around a queue; the four queues of `main.c` | `MsgQueue` extends `Channel` |
| `ScriptCall` | `lua_mympd_api` and `script_worker_queue` with time | |
| `Handover` | runs `QueueList` and `ScriptCall` side by side | extends both |
| `MympdApi`, `MCMympdApi` | the loop of the api thread over its partitions; two partitions | |
| `TimerList` | the timers and the poll loop around them | |
| `MCApiThread` | runs `MCMympdApi` and `TimerList` side by side | extends both |
| `Lifecycle` | main, its threads, a detached thread, signals | |
| `Jobs` | workers, jukebox scripts, flags, the shared album cache | |
| `Webserver` | connections, requests, responses, websockets, proxy | |
| `Ordered` | what is left of a list and its sorting by name, by the rank of the entries | |
| `Sessions` | the login sessions | |
| `Triggers` | the list of triggers, partitions, file | |
| `SeqList`, `LinkedList` | what `lib/list` promises; its links, sort and shuffle | `LinkedList` implements `SeqList` (`ListImplements`) |
| `Webradios` | favorites, WebradioDB, index, locks, download | |
| `Stickers` | the connection to the sticker database | |
| `StateFiles` | last played, presets, home icons, a setting, and their files | |
| `Listing` | paging through the lists of the api | |
| `Playlists`, `MCPlaylists` | jobs and commands on stored playlists; two playlists | |
| `PlayQueue` | commands on MPD's queue and the jukebox' additions | |
| `RandomSelect` | drawing songs and albums from pages | |
| `AlbumCache` | building, keeping and reading the album cache | |
| `Settings` | settings, their checks, files and effect | |
| `Scripts` | the list of scripts, runs, variables | |
| `Stores` | runs the twelve modules from `Sessions` to `Scripts` but `Playlists` side by side | extends them |
| `PollProofs` | theorems about `MsgQueue` and `TimerList` | extends both |
| `JobsProofs`, `StoresProofs` | theorems | extend their module |
| `PlaylistJobsProofs`, `PlaylistsProofs` | the invariant and the jobs; the commands and the theorems | `PlaylistsProofs` extends the other |
| `ApiProofs` | theorems about `Handover` and `MympdApi` | extends both |
| `ServerProofs` | theorems about `Lifecycle` and `Webserver` | extends both |
| `OrderedProofs` | lemmas on ranks, positions and sequences | extends `Ordered` |

Definitions whose comment begins with "mutant" are deliberately wrong variants of the definition
that follows them, used to show that a property can fail; no specification uses them.

### Handover, MCApiThread and Stores

The parts of these modules share no state in the models: the list inside a queue and the protocol
of a call in the first, the loop over the partitions and the timers in the second, different stores
in the third. Their product would only
multiply states. A behaviour is therefore one of a single part, named by the variable `seen`,
`part` or `active`, in which the others stay as they started. A property of a part is trivially true in the
behaviours of another and fully checked in its own. Where parts do meet they are in one module:
album cache and its readers (`Jobs`), scripts and their calls (`ScriptCall`), queue and jukebox
(`PlayQueue`).

### Channel, QueueList, MsgQueue

`QueueList` has the pointers: `Push`, `Shift(id)` and the three steps of the loop of
`mympd_queue_expire_age` assign head, tail, next and length as the code does. Push and shift hold
the mutex from start to end and are one step; the expiry is one step per iteration. Nodes are
named by the number of their push, so that `Channel` sees the same tickets.

`MsgQueue` uses `Channel` for what happens under the mutex and adds what happens outside of it:
`Push` (up to the unlock), `Signal`, `NotifyConsumer` for producers; `Shift`, `Rescan` after a
wakeup, `Timeout`, `ReadNotification` and `ShiftNoWait` for consumers; `SpuriousWakeup` for
wakeups by the signal handler and by the system. The constant `Setup` says for each queue how it
is notified, which ids its entries carry and who waits for what, so that one specification covers
all four: the variable `queue` is chosen once.

### ScriptCall

`MakeCall`, `Try` (one `mympd_queue_shift`, which scans, or waits), `Rescan`, `TimedOut`, `GiveUp`
are the call; `Answer` is the response by any thread, possibly after the call gave up or never;
`Expire` is `script_start`'s expiry; `Stop` is SIGTERM. Time passes in `Tick`, only when no
thread is runnable, so that bounds in ticks mean something. Request ids are assumed to be
different from each other and from 0; the code draws them from `[0, UINT_MAX)`.

### MympdApi

`Poll(F)` returns with a set of descriptors; `Dispatch` handles each when all that stand before it
in `pfds` (`Before`) are done (`handle_socket_pollin`, `handle_socket_error`); a connect timer leads
through the steps of `partitions_connect`; afterwards each partition with an event is visited by
`mympd_client_idle_partition`: early requests, noidle, idle events, options, jukebox, request,
idle again. Each step is one call to MPD and may work, fail, or lose the connection
(`mympd_check_error_and_recover`). `faulty` is turned off once by `Heal`; `MpdChanges` adds and
removes partitions in MPD. Requests are a class (does it need MPD, is it allowed when
disconnected, is it `CONNECTION_SAVE` or `PARTITION_RM`), an origin and a partition. Using a NULL
connection or a freed partition ends the behaviour in a crash state.

### TimerList

The list, the armed clocks, `pfds` with its stale copy, and the file. One action per operation of
`timer.c` (with the trailing `repopulate`, save or replacement each performs), `Expire` for the
kernel, `Stale`, `Skip` and `Run` for `mympd_api_timer_check`, `ConnectParts` for the populate of
partitions, `Restart` for a clean end and a start with the file. The order by name is abstracted:
the list is a set. A timer expires when some action may use that, which keeps the interleavings
that differ.

### Lifecycle

`pc` gives each thread's place in its loop and `handler` that of a signal handler that interrupts
it; a thread goes on only when its handler is done. `CreateApi`, `CreateScripts`,
`CreateWebserver` may fail; `Joins` waits for the handles that are set; `FreeQueueLock` and
`FreeQueue` free the queues in the order of `main.c`. The loops are reduced to what decides about
the end: test of the flag, wait, the mutexes of the two queues a handler pushes to. History
variables record a use of a freed queue, a failed creation, a completed announcement and a signal
that hit the scripts thread between its test and its wait.

### Jobs and AlbumCache

In `Jobs` requests that start workers pass the checks of `mympd_api_handler` in `Refuse`,
`RefillByScript`, `StartWorker`, `StartFails`. A worker connects, builds the cache (`Build`,
`Built`), reads it under the lock (`ReadLock`, `Read`), adds to MPD's queue (`AddToQueue`), ends.
Results return through `mympd_api_queue` and are handled by `CacheFailed`, `CacheCreated` and
`Replace` (the wait for the write lock), `JukeboxCreated`, `JukeboxError`, or are discarded by
`Unknown` when their partition is gone. `Script` is a jukebox script that may never report. A tree
is an address; a request owns the one in its `extra`. The history variables `lostBuild` and
`lostFill` mark the exits on which the code forgets a flag, `released` a reset of `building` by
someone else.

`AlbumCache` is what is in the tree: a worker reads a page of songs per step (`ReadAlbums`, with
`ReadFails`) while `UpdateDatabase` may change the library, folds each song into its album
(`AppendTag`, discs, counts, times) and sends the tree; `WriteCache` writes the file,
`AlbumRestart` reads it if it was written under the same configuration, `OtherMpd` is a
`CONNECTION_SAVE` to another server, `CheckCache` the comparison with MPD's update time. A key is
the text that is hashed (`KeyText`): the values of the artist tag joined by commas, the name and the
group, in words, so that one value may read like two others (`AlbumReads`); the hash itself is taken
to be injective. In the simple mode MPD sends lines of artists, groups and albums, an artist with
each of his albums or once (`once`), and the worker clears it with each album it takes
(`ArtistKnown`). `Pairs` assumes an MPD from 0.25 on, which lists albums in windows.

### Webserver and Sessions

`Handle` takes the next request of a connection when `is_resp` is cleared: answered at once,
forwarded to the api or the scripts thread, made a websocket or given to the proxy, or, after an
error that does not end the handler, answered and forwarded (`AfterError`). `AnswerRequest`
is any answer in any order, `Deliver` what `read_queue` does with it, `Triggered` the scripts an
HTTP trigger starts. Front and backend connections are connected, closed and reused by mongoose at
any moment (`FrontClose`, `BackendClose`, `BackendError`). A ticket is the number of a request on
its connection.

`Sessions` is a list sorted by time; a walk removes what ended and stops at what it looks for.

### Triggers, LinkedList, Webradios, StateFiles, Settings, Scripts

Each is a store of one thread: one action per command with its checks, its change of the list, its
file, plus what interferes. `Triggers`: partitions that MPD adds and removes, restarts; the history
variable `dueTriggers` has what a client saved and did not delete, by the trigger it was shown
(`MeantTrigger`), and not by what the code removes.
`LinkedList`: every function of `lib/list/list.c` as an operator on head, tail, links and length, and
`lib/list/sort.c` as its merging of runs, after which one operator relinks the nodes (`Relink`); a
call is one step, which must be a step of `SeqList`.
`Webradios`: the webserver takes the locks one after the other (`LockFavorites`, `LockDatabase`),
looks up (`LookUp`) and prints what it holds, while the api thread saves, renames, deletes and a
download arrives. `StateFiles`: a save is a step per list and per call to open, write, rename, with
faults and crashes in between. `Settings`: a command is a list of keys and values that are applied
until the first that fails; a value is a form that the validators tell apart; the connection is
compared by the joined text of host, port and password (`ConnText`), and what is shown of the tag
lists is what the detection of features found in MPD (`Detected`). `Scripts`: the
entries, files, byte code, runs, and the two kinds of variables with the clock.

### Stickers, Playlists, PlayQueue

A handler is a program of exchanges with MPD. In `Stickers` an operator on a connection gives the set
of connections it may leave behind, and a handler chains them; in `Playlists` and `PlayQueue` the
state has the exchanges that remain, `Exchange` does the next one, and the other thread, another
client (`Foreign`) or an edit comes in between. Each exchange may be refused or lose the connection.

### Listing, RandomSelect

`Listing` has the loops over entries with offset, limit and count, by the kinds that differ: search
and sort by myMPD, by MPD, a tree walked in order, a list. `RandomSelect` reads candidates a page at
a time and draws (`Consider`, `NextPageOf`) until the page, the list or the need ends.

## 3. What is checked

Every property has a mutant of the code's definitions that violates it under the same
configuration. Composed properties (`TriggersOK` and the like) are conjunctions of the named parts
of one module, and have one to four mutants together: not every part has one of its own.

| run | question | bounds |
| --- | --- | --- |
| `queues` | do requests, responses and script calls always wake a thread that takes them? `EventAccounting`, `NoLostWakeup`, `NoStrandedResponse`, `Delivered` | 3 producers, 2 consumers, 4 messages, ids 0 to 2, 2 wakeup messages |
| `handover` | is the list whole and a FIFO per id, does its expiry end and sweep? `ListSound`, `RefinesChannel`, `ExpirySweeps`; does a call end with its own answer? `CallsPrompt`, `ResponsesReach`, `CallEnds` | 4 nodes, 3 ids, 2 time stamps; 2 threads, 3 calls, 2 tries of 2 ticks, age 8 |
| `api_thread` | is each partition attended and each request answered? `Attended`, `AnsweredOnce`, `NoFreedEntry`; do timers keep their ids and run as asked? `PollsListed`, `UniqueIds`, `OneShotOnce`, `ChangesScheduled`, `FitsArray` | 2 partitions, all request classes, 1 idle event; 5 descriptors, user ids 11 and 12, list limit 1 |
| `reconnect` | `Reconnects` | the same, fewer requests, socket errors of one partition |
| `lifecycle` | `JoinedBeforeFree`, `Terminates` | one SIGTERM, one SIGHUP, one outside event, one detached thread, a socket pair of one message |
| `jobs` | `FlagsTrue`, `CacheOwned`, `FlagsReset` | 2 threads, limit 1, 2 requests, 1 change of mode, tags or partitions, 3 trees |
| `web` | `InOrder`, `ProxyOK`, `Served` | 2 browsers, 2 backends, 2 requests on a connection, 2 connections |
| `playlists` | `SongsKept`, `Updated` | 2 playlists, 2 known songs and one that is gone, 1 job, 1 command, 1 edit, 1 fault |
| `stores` | `TriggersOK`, `ListCorrect`, `RadiosOK`, `SessionsKept`, `StickersOK`, `FilesKept`, `PagesOK`, `QueueOK`, `AlbumsOK`, `SettingsSound`, `ScriptsOK` | see below |
| `stale_cache`, `freed_partition`, `trigger_partition` | three statements the code does not keep, see 5 | |

### Why these bounds

* `queues`: a wakeup is lost between two threads and an entry; three producers and two consumers
  give every overlap of push, signal and wait of two with a third in between. Four messages
  overflow a socket pair of two. The theorems of section 4 remove the bounds for the safety
  properties.
* `handover`: head, tail, a middle node and the node behind it are four nodes; two stamps make
  old nodes behind young ones. The code's 60 tries of one second and 120 seconds become 2 tries of
  2 ticks and age 8: a wait is longer than a tick, and the age exceeds the whole call
  (`MaxTries * Second` = 4).
* `api_thread`, the loop: one partition that stays (default) and one that comes and goes. Partitions interact
  through the shared request, `pfds` and the list, each pairwise. `FewRequests` in `reconnect`
  drops requests that do not change connections.
* `api_thread`, the timers: `ListMax` = 1 makes both limits (of the save and of the file, which differ by one)
  reachable; the largest valid id is 11, so 12 is the one too large to be edited; five descriptors
  let a number be reused.
* `lifecycle`: a second SIGTERM can only repeat what the first did. With one SIGHUP a
  self-deadlock is reachable on every thread. A socket pair of one message is full after one.
* `jobs`: two threads against a limit of one, so that the limit, a missing thread and two builds
  are reached with two requests.
* `web`: two browsers share the proxy's backends, a second request is sent ahead of an answer, a
  second connection reuses the place of a closed one.
* `playlists`: what two threads do to the same playlist shows with one job against one command or
  edit; one fault may hit any exchange. Two known songs have an order, a third is refused by MPD.
* `stores`: three list nodes are head, middle and tail with two equal keys for the stability of the
  sort; two names, uris and memories of radios let a favorite take the index entry and the memory of
  another; limits of 1 or 2 (triggers, home icons, sessions, variables, workers) put every counter
  at its limit; six candidates in pages of two have equal tags in and across pages; seven songs make
  albums of different discs, tags, ids and missing values, one of them with an artist that reads
  like two; settings are set in pairs that
  influence each other (`KeyGroups`), with forms of hosts and ports that read the same joined and
  lists of one or two tags of which MPD has some; the queue starts with two or three songs, so that
  cropping is refused or done; three state changes with two faults separate the failure of
  opening, writing and renaming of two lists.

### Fairness

Weak fairness of threads that can run: the kernel schedules them, no code spins for another
thread. Timed waits end. In `reconnect` an armed connect timer is strongly fair: `poll` may return
for other descriptors first, but the timer's descriptor stays readable. In `lifecycle` detached
threads are fair only inside a push, as a script may run for ever; signals and requests are never
fair. In `jobs` workers end since their calls to MPD time out; scripts need not. In `handover` the
expiry goes on, as it holds the mutex and never waits, and threads whose wait ended run. In `web`
(`WebFairSpec`) mongoose handles what it has buffered, the api thread answers, `read_queue` delivers
and a connection marked as closing is closed; nothing is assumed about backends or scripts, which
is why `Served` speaks of the others. In `stores` the save timer fires and a save goes on
(`StateFilesFairness`). Nothing is assumed about browsers, MPD events or other clients.

## 4. What is proved

TLAPS checks these for all values of the constants that satisfy the named assumptions; a proof
module defines its invariants and types itself.

* `PollProofs`, the queues (from `ChannelAssumption`, `QueueAssumption`): `TypeCorrect`,
  `EventAccountingHolds`, `NoLostWakeupHolds`, `NoStrandedResponseHolds`, for any threads, ids,
  messages and capacity. The count of queued tickets changes by one with each enqueue and scan
  (`EnqueueCount`, `ScanCount`), as do the sets of threads (`ProducerCount`, `ConsumerCount`); the
  inductive step adds that tickets above `sent` are unsent (`Fresh`), and that on a queue which is
  not a condition queue nobody waits (`NoWaiters`), that with consumers that take anything only 0
  is wanted (`WantedAny`). Several api threads are allowed, which the code does not have.
* `ApiProofs`, the queues and calls (from `ListAssumption` and `CallAssumption`): `ListIsSound`, `ListRefinesChannel`
  and `ExpiryIsComplete`, for any number of pushes, ids and times. A linked list would ask for an
  induction along its links, which the prover cannot do; here the order of the chain is that of the
  tickets, so the invariant says that the successor of a node is the least ticket above it that is
  still in the list. That the walk of the code (`At`, a recursive function) meets every entry then
  follows from an argument about a least element it would miss. The refinement maps each push, shift
  and expiry to a step of `Channel`, and the walk to a stutter. The expiry is complete as every node
  behind the cursor is young, whichever node was removed under it. Of the calls of scripts
  `CallsPromptHolds` and `ResponsesReachHolds` are proved. `CallInv` bounds how long a call has
  lasted by the tries it has used, and the age of a response by what has passed of the wait in which
  it came; a response that is taken by the expiry is older than any that a call still waits for.
  This is why a wait must not be longer than the age at which responses are dropped (`Second <=
  MaxAge`; the code has 1 second and 120).
* `PollProofs`, the timers (from `TimerAssumption`): `UniqueIdsHolds`, `PollsListedHolds`,
  `OneShotOnceHolds`, `ChangesScheduledHolds` and `FitsArrayHolds`. The first two are not inductive
  alone: a new id is fresh only because `last_id` is at least `FirstId` and internal ids are below,
  hence `IInv` with distinct ids, user ids above `FirstId`, ids clients know above `FirstId`, and
  "`pfds` matches the list or `repopulate` is set" in every state of the round. There is a lemma per
  list operation. The other three rest on `SInv`: a descriptor belongs to one timer, one that is due
  or armed is of a listed timer, a one shot timer that ran is not enabled with an armed descriptor,
  the list is within `ListMax`, and the timer that crops the cache and, while something is unsaved,
  the one that saves are in it. `ChangesScheduled` needs that the kernel has descriptors for a full
  list and the internal timers (`TimerAssumption`); without one the timer would be listed and never
  fire.
* `ServerProofs`, the life cycle (from `LifecycleAssumption`): `JoinedBeforeFreeHolds`, for any detached
  threads, signals and events. The inductive invariant ties main's stage to the threads (`Order`:
  not created yet, ended after the join, a handle is set for each that was created), says that a
  handler has a live host (`HostsRun`) and that queues are freed after the joins (`FreedLast`).
* `ApiProofs`, the api thread (from the assumption on `Order`): `AnsweredAtMostOnce`, `NoFreedEntryHolds`,
  `AlwaysAttended`, that is every safety property of the loop, for any number of partitions.
  `LoopInv` follows links (`Links`: a partition on the way, in the list, in `pfds` or named by a
  request is one that exists) and the request through its round (`Control`: it is taken by at most
  one visit, and a visit that has not come yet is ahead). `WInv` is the invariant of waiting: a
  partition at rest is either connected, idle and polled, or has its timer armed; the one that is
  being worked on (`Current`) is the only exception, and what each step leaves open is written down
  by stage.
* `JobsProofs` (from `JobsAssumption`): `CacheHasOneOwner` and `FlagsTellTheTruth`, for any workers,
  caches and requests. For the first a tree is allocated exactly as long as it has an owner, owners
  exclude each other, only the result of a build carries a tree, and what a reader holds is the
  cache; the counts of `TreesOwned` follow. For the second a build is a token, first a worker and
  then its report, of which there is one unless `released`; `building` has a token, `filling` a
  message, worker or script, unless the history says that it was lost.
* `ServerProofs`, the webserver (from `WebAssumption`): `ProxyIsConsistent` and `ResponsesInOrder`, for any
  connections. The links between front and backend connections are inverse to each other, and
  `connection_count` is the number of connections but for `drift`; the invariant adds where a
  connection stands when its partner goes, and that what was asked is bounded (`AskedBounded`).
  For the order of the responses `OrderInv` says of each connection outside `excess` that there is
  at most one answer on its way, in a queue, a wakeup or a backend, that it is the one for the
  request that was handled last, and that there is none when everything is answered (`Settled`).
* `PlaylistJobsProofs` and `PlaylistsProofs` (from `PlistAssumption`): `PlaylistsKeepSongs` and `PlaylistsUpdated`, that is
  `SongsKept` and `Updated`, for any playlists, songs, jobs, commands and lengths of answers and of
  lists of commands. Neither is inductive: while a job runs, the songs are partly in the stored list,
  partly in the buffer, partly in the list under the temporary name. `PlistInv` therefore says, for
  each job (`ReorderInv`, `DedupInv`, `ValidInv`, `ValidDedupInv`, `UpdateInv`) and each command that
  moves songs (`CopyInv`, `ShiftInv`, `RenameInv`), at which exchange of its program the thread is
  and what the lists and the buffer hold there. For a sort or a shuffle the list is complete under
  the playlist's name, then under the backup's, and the new one with the buffer is the old list in
  another order (`Reordering`); what an error leaves to be cleaned up never removes the only complete
  one (`GivenUp`). For the removal of duplicates and unknown songs the positions that are still to
  be deleted are those of the list as it is now, since they go from the last to the first
  (`RemovalsStep`, `ChecksStep`). A copied playlist is removed only when all its songs are in the
  target (`Gathered`). `PlistShape` adds that the names of a job are its own (`Unused`): without it
  a job could find the temporary playlist of another. An exchange comes to one of a few outcomes
  (`Outcome`: carried out up to a command, refused, or the answer lost), so that there is one lemma
  per kind of exchange and job, and one for what the other thread sees of it (`Told`, `EditFrame`).
  That answers and lists of commands come in parts of any length is an induction along the recursive
  functions that compute them (`MpdRuns`, `MpdAdds`, `JoinedUp`).
* `StoresProofs` has a theorem for each of these stores, from the assumption of its module:
  * `RadiosCorrect`: what the webserver holds between the lookup and the printing is protected
    because the locks it has are those the writers need; each operation keeps the index live by a
    lemma of its own.
  * `StickersCorrect`: `StickerInv` says that a connection that is up has its features determined,
    and that `basic` records that MPD or the connection was ever without the advanced commands;
    every command is a chain of exchanges that each keep it.
  * `SessionsCorrect`, the invariant and the action property of `SessionsKept`: `Booked` says that
    an entry of the list ends `SessionTimeout` after its last use, that it was not revoked, that no
    session has two, and that a session that was not revoked has one unless it ended. That a walk
    that stops in the middle removes only what ended follows by position.
  * `TriggersCorrect`: the list holds the triggers that are due, no two with one key, and the file
    those that were due when it was written; a deletion hits the trigger shown because the listing is
    emptied by whatever moves positions; sorting keeps entries.
  * `ScriptsCorrect`: the entries and their files (`StoreInv`), the requests and the scripts that
    run for them (`RunInv`), the temporary values and the next sweep (`TmpInv`).
  * `FilesStayWhole`: a temporary file holds the first lines of what is being written, and nothing
    is changed in memory while it is open. This is the safety half of `FilesKept`.
  * `SelectionCorrect`: while a list is short, each candidate looked at was appended or is of no use
    (`Exhausted`), and the rest of a page is where the counters of the code say (`OnPage`).
  * `PagesCorrect`: the loop that prints, finds and counts comes to the same page of an order as the
    window of MPD (`PrintLoopIs`, by induction over the entries, and `WindowIs`); with distinct keys
    there is one order (`OneOrder`), so `ListingInv` can say that what was shown is the beginning of
    it up to the offset, and that the client asks on only while the offset is within the list. Each
    handler counts what is wanted or answers -1, but for the two of `OddTotal` (`AnswerRight`).
  * `SettingsCorrect`, and from it `SettingsSoundHolds` for the composition: what a command accepts
    for a key survives a save and a restart or is one of the named losses, row by row of the tables;
    a key that is held and written keeps file, timer, connection options and jukebox in step
    (`KeyMoved`), whichever handler it belongs to (`KeyMoves`); the keys of a command follow by
    induction over their number (`IterationStays`). A tag list that is saved as it is shown has the
    same tags in force as before, since to cut it to the tags of MPD twice is to cut it once.
    `SettingsInv` adds what the files have when no write failed, when the timer may differ from its
    setting, and that what was detected and what the webserver was told are of the settings of now.
  * `AlbumsCorrect`: every tree of albums is keyed, in the api thread, on its way to it, in the
    worker, before it is written and in the file, each for the configuration it was built under
    (`KeyedTree`): an album that took in only songs that keep the key (`KeepKey`) has their artists,
    name and group, and one with a MusicBrainz id has that id. What the worker has read so far is
    complete for the songs up to the one it has come to (`ReadSoFar`), as a full page ends where the
    next one starts. The fold over the songs of a page, over the values of a tag and the sum of the
    lengths are followed by induction along the function that computes them. No assumption restricts
    the library: `AlbumAssumption` only types it.
  * `PartsCorrect`: every behaviour of the composition is, up to stuttering, one of each of these
    parts, so that the theorems above hold in it. `PagesOK` is the conjunction of what
    `PagesCorrect` and `SelectionCorrect` state.

* `OrderedProofs`: the lists of sessions, triggers, scripts and songs are cut and sorted by operators
  that say where an element goes by counting those before it. The lemmas about them (`Ranked`,
  `Positions`, `NamesSorted`) need no induction along the list: a number that no element had as its
  rank would be a least one. Where a function is defined by recursion over the numbers (`Induct`),
  a least number at which the claim fails is what the library's well-founded minimum gives.

`LoopInv` and `WInv` of `MympdApi` were checked by TLC on two partitions first, `ListingInv` on lists
of three entries, `PlistInv` in every state of the run `playlists`. Model-checked only:

* everything temporal (liveness under fairness and `ENABLED` are beyond the prover), so `Delivered`,
  `ExpirySweeps`' termination, `CallEnds`, `Reconnects`, `Terminates`, `FlagsReset`, `Served` and
  the second half of `FilesKept`, that changes are saved in time;
* `ListCorrect` and `QueueOK`: `LinkedList` and `PlayQueue` compute with folds and recursive
  operators over sequences, about which the prover cannot reason by induction. `Playlists` computes
  by position and with recursive functions of numbers instead (`Sorted`, `Removals`, `Unique`, `Valid`), which
  is what made its proof possible.

## 5. What the code does not keep

* `stale_cache`: a database event that arrives while the album cache is being built is refused, and
  nothing asks again when the build ends.
* `freed_partition`: a partition is freed in the round that still uses it, by
  `MYMPD_API_CONNECTION_SAVE` from a browser on another partition or by the populate after a
  reconnect.
* `trigger_partition`: `mympd_api_trigger_delete_partition` stores a count instead of a position
  (`mympd_api/trigger.c:294`) and so removes that many triggers from the head of the list, whosever
  they are.

Further deviations are exempted by name in a property or kept out of it by a stated condition, so
that the run shows there is no other:

* `Attended`, `Reconnects`: partitions given up by `partition_rm` or after a socket error.
* `AnsweredOnce`: a request that needs MPD is dropped if noidle finds the connection closed, and one
  of a script for an unknown partition is freed.
* `Terminates`: the scripts thread may miss SIGTERM between its test of the flag and its wait
  (`scripts/scripts.c:42`); a SIGHUP handler may wait for a mutex of the thread it interrupted
  (`lib/signal.c:75`); after a failed `pthread_create` the threads that run are not woken
  (`main.c:356`). `JoinedBeforeFree` speaks of the threads main joins; detached threads may use a
  freed queue.
* `FlagsTrue`, `FlagsReset`: `filling` stays set when a refill is refused (too many threads, the
  jukebox was turned off meanwhile), its worker cannot be started or connected, or its script does
  not report; `building` stays set when the worker cannot switch to its partition or the partition
  is gone when the result arrives. A thread that cannot be started resets `building` whatever its
  command (`mympd_api_handler.c:193`), and so does the result of a worker started without tags.
* `InOrder`: before the api thread is ready the error is sent and the request is handled
  nevertheless (`webserver/webserver.c:534`), which gives two responses; the same happens to
  `/script-api/` while external scripts are disabled (line 629). Two responses also come for a cover
  of the wrong length and for several scripts for one HTTP event. Never answered are a background
  image without a script, and a request to `/script-api/` when the access list of scripts cannot be
  parsed (line 632). `ProxyOK`: `connection_count` is decremented for backends that were never connected
  (`drift`).
* `TriggersOK`: where a trigger of another partition precedes those of a removed one, only what the
  code leaves is claimed to be due (`DueWithout`; see `trigger_partition`). The id of a listing that
  is out of date hits another trigger. The list may have one trigger more than the array of positions
  has places; the write past its end, when all are of one partition, is outside the model.
* `ListCorrect`: `list_remove_node_by_key` frees user data its comment ignores, and a crop to 0
  ignores the function that frees it; data of nodes is outside the model.
* `RadiosOK`: favorites may share a uri; deleting one removes the index entry of the other.
* `StickersOK`: with MPD before 0.24 a count is read and written back, so another client's is lost.
  After an MPD that cannot be reached at the start only a command or a changed setting connects.
  The lists of songs leave the idle mode of the sticker connection without a look at it
  (`mympd_api/queue.c:792` and others): while a partition still has the feature and the connection
  is closed, `noidle` is sent on a null pointer (`mympd_client/stickerdb.c:164`). The model ends such
  a behaviour with the fault `"null"`, which the property does not forbid.
* `FilesKept`: a failed save is not tried again until the next change, and a file that cannot be
  read is replaced by the empty list. The change of the scrobble timer does not arm the save.
* `PagesOK`: random keys for equal entries, empty tags of MPD 0.25, totals of searches in playlists
  and of last played songs (`Steady`, `OddTotal`).
* `SongsKept`, `Updated`: a copy to one of its own sources and a removal between two steps lose
  songs; a search that finds nothing leaves no playlist; a step whose error the code ignores (`blind`); a failed update removes its definition
  (`smartpls.c:113`); appending between the read and the rename of a job is lost. MPD before 0.24
  makes a read of a playlist at the exact limit repeat for ever.
* `QueueOK`: several albums or uris before the current song arrive in reverse; after a refused entry
  the rest is not added, and the play of the added song may start an old one when another client
  changed the queue since the last status. To append a range of a playlist replaces the queue, as the
  handler compares the id of another command (`mympd_api_handler.c:1227`), where the API says that it
  "Appends the playlist range to the queue" (`apidoc.js:558`). A crop "removes all but playing song"
  (`mympd_api/queue.c:696`), but the last song stays when it follows the current one directly (line
  724 compares with the length less one), and a queue of two is cleared or refused (line 718).
* `AlbumsOK`, `CacheCurrent`: a key is hashed from joined values (`mympd_client/tags.c:434`), so the
  artists "A" and "B" and the artist "A, B" give the same key; their songs fold into one album that
  has the artists of all and computes another key for the front end. So does an album whose songs
  name an artist twice, and one grouped by `Album` or `AlbumArtist` when a song lacks that tag and
  its album gets it. `AlbumKeys` exempts these (`KeepKey`) and no others. In the simple mode an album
  whose artist MPD did not send again is skipped (`mympd_worker/album_cache.c:336`), about which
  `AlbumsComplete`, a property of the advanced mode, says nothing. A new MPD keeps the old cache in
  memory; the disc of the first song and values of a tag twice are counted differently from the later
  ones; an older worker may write its file last. MPD before 0.25 ignores the window of the simple
  mode's list, so that a long list is read for ever; the model leaves these versions out.
* `SettingsSound`: empty values, expressions without parentheses and escapes do not survive a restart
  (`Lost`); a command that fails keeps what it applied before. Host, port and password are compared
  one behind the other without separators (`mympd_api_handler.c:536-541`, `558-560`): 10.0.0.1 with
  port 16600 and 10.0.0.11 with port 6600 are the same, and the connection stays. The tag lists shown
  are those in force (`settings.c:1146`), so that saving the form drops the tags that MPD does not
  have now. Unknown keys of the playback options, and text where they have a number, are passed over
  while MPD is connected (`PassedOver`).
* `ScriptsOK`: a script saved over another one without naming it leaves two entries; a rename whose
  old file is gone leaves the new one unlisted until a reload; the limit of scripts is tested before
  the thread counts itself; a variable longer than a line (8192) stops the reading of the file.
  Expired values are returned until the next sweep. That the limit bounds the scripts is therefore not
  stated, and no property speaks of the variables that stay. In the model every request to execute a
  script is answered; the internal one of triggers has no answer unless it is for HTTP.

Known and in no property: the toggle of a timer neither creates nor arms its descriptor
(`mympd_api/timer.c:351`); a one shot timer that starts at the current second gets a clock of zero,
which disarms it (`lib/timer.c:73`); a wrong password leaks a socket per attempt (`connection.c:58`);
request ids of scripts are random and may be 0 or equal (`interface_mympd_api.c:69`); an error of
the eventfd gives a new one with a wrong count (`mympd_api.c:262`); the branch of `set_wait_time` for
more than a second is never taken (`msg_queue.c:342`); after a restart a new timer may get an id a
client still knows.

## 6. What is not modelled, and the plan

Not modelled: the configuration, which is read before there is a thread; certificates, TLS and
the addresses of access lists; parsing and formatting; images and lyrics beyond who answers; outputs, mounts, volume
and other commands that pass a value on to MPD and keep none of it; MPD itself beyond failing,
changing its partitions, library, queue and playlists. In the modelled parts the options and
arguments of scripts, the expressions of searches (PCRE), the names and deletion of stickers and the
import of scripts are left out.

What would come next:

1. A proof of `QueueOK`, with the loops of `PlayQueue` written as functions of the position.
2. A composition of `Webserver` and `MsgQueue` in which a wakeup that is dropped delays an answer.
3. Two partitions in `Settings`, and a second worker in `Playlists`.
4. The commands on the jukebox' own queue.
