------------------------------ MODULE JobsProofs ------------------------------
(* CacheOwned and FlagsTrue for any workers, addresses and bounds.          *)
EXTENDS Jobs, FiniteSetTheorems, TLAPS

Messages == [cmd : Requests \cup Results, part : Partitions, tree : Trees \cup {None},
             stray : BOOLEAN]
Works    == [at : Stages, cmd : Requests \cup {"none"}, part : Partitions, mode : Modes,
             tags : BOOLEAN, tree : Trees \cup {None}]

Typed ==
  /\ queue \in Seq(Messages) /\ worker \in [Workers -> Works]
  /\ mode \in Modes /\ tags \in BOOLEAN
  /\ cache \in Trees \cup {None} /\ extra \in Trees \cup {None} /\ trees \subseteq Trees

\* Who owns a tree: a message, a worker that builds, the cache, the request
InQueue(t)  == \E i \in DOMAIN queue : queue[i].tree = t
Building(t) == \E w \in Workers : At(w, "build") /\ worker[w].tree = t

\* The inductive invariant: a tree has an owner as long as it is allocated, no
\* two owners have the same, and only the result of a build carries a tree
HasOwner == \A t \in Trees :
  t \in trees <=> InQueue(t) \/ Building(t) \/ cache = t \/ extra = t
OneOwner ==
  /\ \A i, j \in DOMAIN queue : queue[i].tree = queue[j].tree /\ queue[i].tree # None => i = j
  /\ \A v, w \in Workers : At(v, "build") /\ At(w, "build") /\ worker[v].tree = worker[w].tree => v = w
  /\ \A t \in Trees : /\ InQueue(t) => ~Building(t) /\ cache # t /\ extra # t
                      /\ Building(t) => cache # t /\ extra # t
                      /\ cache = t => extra # t
Carries ==
  /\ \A i \in DOMAIN queue : queue[i].tree # None => queue[i].cmd = "cache created"
  /\ \A w \in Workers : At(w, "build") => worker[w].tree \in Trees
\* who reads holds the lock, and reads what is the cache
Reading ==
  /\ readers = {w \in Workers : At(w, "read")}
  /\ \A w \in Workers : At(w, "read") => worker[w].tree = cache

IInv == Typed /\ HasOwner /\ OneOwner /\ Carries /\ Reading

-----------------------------------------------------------------------------
LEMMA NoneIsNoTree == None \notin Trees
BY JobsAssumption

(* The counts of TreesOwned follow.                                         *)
LEMMA Counted == ASSUME IInv PROVE TreesOwned
<1> SUFFICES ASSUME NEW t \in Trees PROVE Owners(t) = IF t \in trees THEN 1 ELSE 0
  BY DEF TreesOwned
<1> DEFINE Q == {i \in DOMAIN queue : queue[i].tree = t}
           B == {w \in Workers : At(w, "build") /\ worker[w].tree = t}
<1>1. Cardinality(Q) = IF InQueue(t) THEN 1 ELSE 0
  <2>1. CASE InQueue(t)
    <3>1. PICK i \in DOMAIN queue : queue[i].tree = t
      BY <2>1 DEF InQueue
    <3>2. Q = {i}
      BY <3>1, NoneIsNoTree DEF IInv, OneOwner
    <3>3. QED
      BY <2>1, <3>2, FS_Singleton
  <2>2. CASE ~InQueue(t)
    <3>1. Q = {}
      BY <2>2 DEF InQueue
    <3>2. QED
      BY <2>2, <3>1, FS_EmptySet
  <2>3. QED
    BY <2>1, <2>2
<1>2. Cardinality(B) = IF Building(t) THEN 1 ELSE 0
  <2>1. CASE Building(t)
    <3>1. PICK w \in Workers : At(w, "build") /\ worker[w].tree = t
      BY <2>1 DEF Building
    <3>2. B = {w}
      BY <3>1 DEF IInv, OneOwner
    <3>3. QED
      BY <2>1, <3>2, FS_Singleton
  <2>2. CASE ~Building(t)
    <3>1. B = {}
      BY <2>2 DEF Building
    <3>2. QED
      BY <2>2, <3>1, FS_EmptySet
  <2>3. QED
    BY <2>1, <2>2
<1>3. Owners(t) = Cardinality(Q) + Cardinality(B) + (IF cache = t THEN 1 ELSE 0)
                    + (IF extra = t THEN 1 ELSE 0)
  BY DEF Owners
<1>4. /\ t \in trees <=> InQueue(t) \/ Building(t) \/ cache = t \/ extra = t
      /\ InQueue(t) => ~Building(t) /\ cache # t /\ extra # t
      /\ Building(t) => cache # t /\ extra # t
      /\ cache = t => extra # t
  BY DEF IInv, HasOwner, OneOwner
<1> HIDE DEF Q, B
<1>5. QED
  BY <1>1, <1>2, <1>3, <1>4

LEMMA Sound == ASSUME IInv PROVE CacheOwned
<1>1. CacheReadLocked
  <2>1. SUFFICES ASSUME NEW w \in readers PROVE worker[w].tree \in trees \cup {None}
    BY DEF CacheReadLocked
  <2>2. worker[w].tree = cache
    BY DEF IInv, Reading
  <2>3. cache \in trees \cup {None}
    BY DEF IInv, Typed, HasOwner
  <2>4. QED
    BY <2>2, <2>3
<1>2. QED
  BY <1>1, Counted DEF CacheOwned

-----------------------------------------------------------------------------
(* What happens to the queue, and to who owns a tree in it.                 *)
LEMMA Pushed ==
  ASSUME Typed, NEW m \in Messages, queue' = Append(queue, m)
  PROVE  /\ queue' \in Seq(Messages)
         /\ DOMAIN queue' = DOMAIN queue \cup {Len(queue) + 1} /\ Len(queue) + 1 \notin DOMAIN queue
         /\ queue'[Len(queue) + 1] = m
         /\ \A i \in DOMAIN queue : queue'[i] = queue[i]
BY DEF Typed

LEMMA Popped ==
  ASSUME Typed, queue # <<>>, queue' = Tail(queue)
  PROVE  /\ queue' \in Seq(Messages) /\ 1 \in DOMAIN queue /\ Head(queue) = queue[1]
         /\ Head(queue) \in Messages
         /\ \A i \in DOMAIN queue' : i + 1 \in DOMAIN queue /\ queue'[i] = queue[i + 1]
         /\ \A i \in DOMAIN queue : i = 1 \/ (i - 1 \in DOMAIN queue' /\ queue'[i - 1] = queue[i])
BY DEF Typed

\* nothing that is pushed or popped carries a tree
PlainQueue ==
  \/ queue' = queue
  \/ \E m \in Messages : m.tree = None /\ queue' = Append(queue, m)
  \/ queue # <<>> /\ Head(queue).tree = None /\ queue' = Tail(queue)

LEMMA PlainKeeps ==
  ASSUME IInv, PlainQueue
  PROVE  /\ queue' \in Seq(Messages)
         /\ \A t \in Trees : InQueue(t)' <=> InQueue(t)
         /\ \A i, j \in DOMAIN queue' : queue'[i].tree = queue'[j].tree /\ queue'[i].tree # None => i = j
         /\ \A i \in DOMAIN queue' : queue'[i].tree # None => queue'[i].cmd = "cache created"
<1> USE NoneIsNoTree
<1>1. Typed /\ OneOwner /\ Carries
  BY DEF IInv
<1>2. CASE queue' = queue
  BY <1>1, <1>2 DEF Typed, OneOwner, Carries, InQueue
<1>3. ASSUME NEW m \in Messages, m.tree = None, queue' = Append(queue, m)
      PROVE  /\ queue' \in Seq(Messages)
             /\ \A t \in Trees : InQueue(t)' <=> InQueue(t)
             /\ \A i, j \in DOMAIN queue' : queue'[i].tree = queue'[j].tree /\ queue'[i].tree # None => i = j
             /\ \A i \in DOMAIN queue' : queue'[i].tree # None => queue'[i].cmd = "cache created"
  <2> DEFINE n == Len(queue) + 1
  <2>1. /\ queue' \in Seq(Messages) /\ DOMAIN queue' = DOMAIN queue \cup {n}
        /\ queue'[n].tree = None /\ \A i \in DOMAIN queue : queue'[i] = queue[i]
    BY <1>1, <1>3, Pushed
  <2> HIDE DEF n
  <2>2. \A t \in Trees : InQueue(t)' <=> InQueue(t)
    BY <2>1 DEF InQueue
  <2>3. \A i, j \in DOMAIN queue' : queue'[i].tree = queue'[j].tree /\ queue'[i].tree # None => i = j
    BY <1>1, <2>1 DEF OneOwner
  <2>4. \A i \in DOMAIN queue' : queue'[i].tree # None => queue'[i].cmd = "cache created"
    BY <1>1, <2>1 DEF Carries
  <2>5. QED
    BY <2>1, <2>2, <2>3, <2>4
<1>4. CASE queue # <<>> /\ Head(queue).tree = None /\ queue' = Tail(queue)
  <2>1. /\ queue' \in Seq(Messages) /\ 1 \in DOMAIN queue /\ queue[1].tree = None
        /\ \A i \in DOMAIN queue' : i + 1 \in DOMAIN queue /\ queue'[i] = queue[i + 1]
        /\ \A i \in DOMAIN queue : i = 1 \/ (i - 1 \in DOMAIN queue' /\ queue'[i - 1] = queue[i])
        /\ DOMAIN queue \subseteq Int /\ DOMAIN queue' \subseteq Int
    BY <1>1, <1>4, Popped DEF Typed
  <2>2. \A t \in Trees : InQueue(t)' <=> InQueue(t)
    BY <2>1 DEF InQueue
  <2>3. \A i, j \in DOMAIN queue' : queue'[i].tree = queue'[j].tree /\ queue'[i].tree # None => i = j
    <3>1. SUFFICES ASSUME NEW i \in DOMAIN queue', NEW j \in DOMAIN queue',
                          queue'[i].tree = queue'[j].tree, queue'[i].tree # None
                   PROVE  i = j
      OBVIOUS
    <3>2. i + 1 = j + 1
      BY <1>1, <2>1, <3>1 DEF OneOwner
    <3>3. QED
      BY <2>1, <3>2
  <2>4. \A i \in DOMAIN queue' : queue'[i].tree # None => queue'[i].cmd = "cache created"
    <3>1. SUFFICES ASSUME NEW i \in DOMAIN queue', queue'[i].tree # None
                   PROVE  queue'[i].cmd = "cache created"
      OBVIOUS
    <3>2. i + 1 \in DOMAIN queue /\ queue'[i] = queue[i + 1]
      BY <2>1
    <3>3. QED
      BY <1>1, <3>1, <3>2 DEF Carries
  <2>5. QED
    BY <2>1, <2>2, <2>3, <2>4
<1>5. QED
  BY <1>2, <1>3, <1>4 DEF PlainQueue

\* a step in which no tree changes its owner
LEMMA PlainStep ==
  ASSUME IInv, PlainQueue, Typed', Reading', UNCHANGED <<cache, extra, trees>>,
         \A v \in Workers : /\ worker'[v].at = "build" <=> worker[v].at = "build"
                            /\ worker[v].at = "build" => worker'[v].tree = worker[v].tree
  PROVE  IInv'
<1>1. \A t \in Trees : (InQueue(t)' <=> InQueue(t)) /\ (Building(t)' <=> Building(t))
  BY PlainKeeps DEF Building, At
<1>2. HasOwner'
  BY <1>1 DEF IInv, HasOwner
<1>3. OneOwner'
  <2>1. \A v, w \in Workers : At(v, "build")' /\ At(w, "build")' /\ worker'[v].tree = worker'[w].tree => v = w
    BY DEF IInv, OneOwner, At
  <2>2. \A t \in Trees : /\ InQueue(t)' => ~Building(t)' /\ cache' # t /\ extra' # t
                         /\ Building(t)' => cache' # t /\ extra' # t
                         /\ cache' = t => extra' # t
    BY <1>1 DEF IInv, OneOwner
  <2>3. QED
    BY <2>1, <2>2, PlainKeeps DEF OneOwner
<1>4. Carries'
  BY PlainKeeps DEF IInv, Carries, At
<1>5. QED
  BY <1>2, <1>3, <1>4 DEF IInv

\* the worker of a step: nobody else changes, and it neither begins nor ends a build
LEMMA WorkerStep ==
  ASSUME IInv, NEW w \in Workers, worker' \in [Workers -> Works],
         \A v \in Workers : v # w => worker'[v] = worker[v],
         ~At(w, "build"), worker'[w].at # "build", PlainQueue,
         UNCHANGED <<cache, extra, trees, mode, tags>>,
         readers' = IF worker'[w].at = "read" THEN readers \cup {w} ELSE readers \ {w},
         worker'[w].at = "read" => worker'[w].tree = cache
  PROVE  IInv'
<1>1. Typed'
  BY PlainKeeps DEF IInv, Typed
<1>2. Reading'
  BY DEF IInv, Reading, At
<1>3. QED
  BY <1>1, <1>2, PlainStep DEF At

LEMMA PlainMessage ==
  ASSUME NEW c \in Requests \cup Results, NEW p \in Partitions, NEW b \in BOOLEAN
  PROVE  Message(c, p, None, b) \in Messages /\ Message(c, p, None, b).tree = None
BY DEF Message, Messages

LEMMA HandledPlain ==
  ASSUME IInv, Handle, Req.cmd # "cache created"
  PROVE  PlainQueue
<1>1. queue # <<>> /\ queue' = Tail(queue)
  BY DEF Handle
<1>2. 1 \in DOMAIN queue /\ Head(queue) = queue[1]
  BY <1>1, Popped DEF IInv
<1>3. Head(queue).tree = None
  BY <1>2 DEF IInv, Carries, Req
<1>4. QED
  BY <1>1, <1>3 DEF PlainQueue

LEMMA RequestInQueue ==
  ASSUME IInv, queue # <<>>
  PROVE  Req \in Messages
BY DEF IInv, Typed, Req

(* Requests, the jukebox, scripts and most commands do not touch a tree.    *)
LEMMA ApiPlain ==
  ASSUME IInv, PlainQueue, mode' \in Modes, tags' \in BOOLEAN,
         UNCHANGED <<cache, extra, trees, worker, readers>>
  PROVE  IInv'
<1>1. Typed' /\ Reading'
  BY PlainKeeps DEF IInv, Typed, Reading, At
<1>2. QED
  BY <1>1, PlainStep

LEMMA JukeboxRunPlain ==
  ASSUME NEW m, JukeboxRun(m)
  PROVE  PlainQueue
<1>1. ASSUME NEW c \in {"refill", "refill_add"}, Push(c, Default, None) PROVE PlainQueue
  BY <1>1, PlainMessage DEF Push, PlainQueue, Requests, Partitions
<1>2. QED
  BY <1>1 DEF JukeboxRun, PlainQueue

LEMMA OutsideKeeps ==
  ASSUME IInv, Request \/ Environment \/ RunJukebox \/ SetMode \/ Script
  PROVE  IInv'
<1>1. mode \in Modes /\ tags \in BOOLEAN
  BY DEF IInv, Typed
<1>2. CASE Request
  <2>1. PICK c \in Requests, p \in Partitions : Push(c, p, None)
    BY <1>2 DEF Request
  <2>2. PlainQueue
    BY <2>1, PlainMessage DEF Push, PlainQueue
  <2>3. QED
    BY <1>1, <1>2, <2>2, ApiPlain DEF Request, flags
<1>3. CASE Environment
  BY <1>1, <1>3, ApiPlain DEF Environment, flags, PlainQueue
<1>4. CASE RunJukebox
  BY <1>1, <1>4, ApiPlain, JukeboxRunPlain DEF RunJukebox
<1>5. CASE SetMode
  BY <1>1, <1>5, ApiPlain, JukeboxRunPlain DEF SetMode
<1>6. CASE Script
  <2>1. queue' = queue \/ \E c \in {"jukebox created", "jukebox error"} : Push(c, Default, None)
    BY <1>6 DEF Script
  <2>2. PlainQueue
    BY <2>1, PlainMessage DEF Push, PlainQueue, Results, Partitions
  <2>3. QED
    BY <1>1, <1>6, <2>2, ApiPlain DEF Script, flags
<1>7. QED
  BY <1>2, <1>3, <1>4, <1>5, <1>6

LEMMA CommandsKeep ==
  ASSUME IInv,
         Refuse \/ RefillByScript \/ StartFails \/ CacheFailed \/ JukeboxCreated \/ JukeboxError
  PROVE  IInv'
<1>1. Handle /\ UNCHANGED <<cache, extra, trees, worker, readers, tags>>
  BY DEF Refuse, RefillByScript, StartFails, CacheFailed, JukeboxCreated, JukeboxError, ToWorker,
         Accepts
<1>2. Req.cmd # "cache created"
  BY DEF Refuse, RefillByScript, StartFails, CacheFailed, JukeboxCreated, JukeboxError, ToWorker,
         Accepts, Requests
<1>3. mode' \in Modes
  BY DEF Refuse, RefillByScript, StartFails, CacheFailed, JukeboxCreated, JukeboxError, flags, Modes,
         IInv, Typed
<1>4. QED
  BY <1>1, <1>2, <1>3, HandledPlain, ApiPlain DEF IInv, Typed

LEMMA FreshWorker ==
  ASSUME Req \in Messages, Req.cmd \in Requests, mode \in Modes, tags \in BOOLEAN
  PROVE  Copied \in Works /\ Copied.at = "created"
<1>1. (tags /\ Req.cmd = "caches") \in BOOLEAN
  OBVIOUS
<1>2. PICK b \in BOOLEAN : b = (tags /\ Req.cmd = "caches")
  BY <1>1
<1>3. Copied = [at |-> "created", cmd |-> Req.cmd, part |-> Req.part, tree |-> None,
                mode |-> IF Refill THEN mode ELSE "off", tags |-> b]
  BY <1>2, Zenon DEF Copied
<1>4. (IF Refill THEN mode ELSE "off") \in Modes /\ Req.part \in Partitions
  BY DEF Modes, Messages
<1>5. QED
  BY <1>3, <1>4 DEF Works, Stages

LEMMA StartWorkerKeeps == ASSUME IInv, StartWorker PROVE IInv'
<1> DEFINE w == CHOOSE v \in Workers : worker[v].at = "none"
<1>1. /\ Handle /\ Req.cmd \in Requests /\ worker' = [worker EXCEPT ![w] = Copied]
      /\ UNCHANGED <<cache, extra, trees, mode, tags, readers>>
      /\ \E v \in Workers : worker[v].at = "none"
  BY DEF StartWorker, Accepts, ToWorker
<1>2. w \in Workers /\ worker[w].at = "none"
  BY <1>1
<1>3. Copied \in Works /\ Copied.at = "created"
  BY <1>1, RequestInQueue, FreshWorker DEF Handle, IInv, Typed
<1>4. PlainQueue
  BY <1>1, HandledPlain DEF Requests
<1> HIDE DEF w
<1>5. readers' = readers \ {w} /\ ~At(w, "build")
  BY <1>1, <1>2 DEF IInv, Reading, At
<1>6. /\ worker' \in [Workers -> Works] /\ worker'[w] = Copied
      /\ \A v \in Workers : v # w => worker'[v] = worker[v]
  BY <1>1, <1>2, <1>3 DEF IInv, Typed
<1>7. QED
  BY <1>1, <1>2, <1>3, <1>4, <1>5, <1>6, WorkerStep

-----------------------------------------------------------------------------
(* The worker threads.                                                      *)
LEMMA Goes ==
  ASSUME IInv, NEW w \in Workers, NEW s \in Stages, Goto(w, s)
  PROVE  /\ worker' \in [Workers -> Works] /\ worker'[w].at = s /\ worker'[w].tree = worker[w].tree
         /\ \A v \in Workers : v # w => worker'[v] = worker[v]
BY DEF IInv, Typed, Goto, Works

LEMMA GoesWith ==
  ASSUME IInv, NEW w \in Workers, NEW s \in Stages, NEW t \in Trees \cup {None},
         worker' = [worker EXCEPT ![w].at = s, ![w].tree = t]
  PROVE  /\ worker' \in [Workers -> Works] /\ worker'[w].at = s /\ worker'[w].tree = t
         /\ \A v \in Workers : v # w => worker'[v] = worker[v]
BY DEF IInv, Typed, Works

LEMMA AnswerPlain ==
  ASSUME IInv, NEW w \in Workers, NEW r \in Results, Answer(w, r)
  PROVE  PlainQueue
<1>1. worker[w].part \in Partitions
  BY DEF IInv, Typed, Works
<1>2. (worker[w].cmd = "caches" /\ ~worker[w].tags) \in BOOLEAN
  OBVIOUS
<1>3. QED
  BY <1>1, <1>2, PlainMessage DEF Answer, PlainQueue

LEMMA FillKeeps ==
  ASSUME IInv, NEW w \in Workers, Fill(w, "add")
  PROVE  /\ PlainQueue /\ worker' \in [Workers -> Works] /\ worker'[w].at \in {"add", "end"}
         /\ \A v \in Workers : v # w => worker'[v] = worker[v]
<1>1. PlainQueue
  BY AnswerPlain DEF Fill, PlainQueue, Results
<1>2. \E s \in {"add", "end"} : worker' = [worker EXCEPT ![w].at = s, ![w].tree = None]
  BY DEF Fill
<1>3. QED
  BY <1>1, <1>2, GoesWith DEF Stages

\* the steps of a worker but those of a build
LEMMA WorkerKeeps ==
  ASSUME IInv, NEW w \in Workers,
         \/ ConnectFails(w) \/ SwitchFails(w) \/ Connect(w) \/ SkipBuild(w) \/ ReadLock(w) \/ Read(w)
         \/ FillSongs(w) \/ AddToQueue(w) \/ Finish(w) \/ End(w)
  PROVE  IInv'
<1> USE DEF api, flags
<1>1. ~At(w, "build") /\ UNCHANGED <<cache, extra, trees, mode, tags>>
  BY DEF ConnectFails, SwitchFails, Connect, SkipBuild, ReadLock, Read, FillSongs, AddToQueue, Finish,
         End, At
<1>2. readers \ {w} = IF At(w, "read") THEN readers \ {w} ELSE readers
  BY DEF IInv, Reading, At
<1>3. CASE ConnectFails(w) \/ SwitchFails(w) \/ Connect(w) \/ SkipBuild(w) \/ AddToQueue(w)
  <2>1. PlainQueue
    BY <1>3, AnswerPlain DEF ConnectFails, SwitchFails, Connect, SkipBuild, AddToQueue, PlainQueue, Results
  <2>2. ~At(w, "read") /\ readers' = readers /\ \E s \in {"end", "run"} : Goto(w, s)
    BY <1>3 DEF ConnectFails, SwitchFails, Connect, SkipBuild, AddToQueue, At
  <2>3. QED
    BY <1>1, <1>2, <2>1, <2>2, Goes, WorkerStep DEF Stages
<1>4. CASE ReadLock(w)
  <2>1. worker' = [worker EXCEPT ![w].at = "read", ![w].tree = cache] /\ readers' = readers \cup {w}
    BY <1>4 DEF ReadLock
  <2>2. PlainQueue
    BY <1>4 DEF ReadLock, PlainQueue
  <2>3. cache \in Trees \cup {None}
    BY DEF IInv, Typed
  <2>4. QED
    BY <1>1, <2>1, <2>2, <2>3, GoesWith, WorkerStep DEF Stages
<1>5. CASE Read(w)
  <2>1. readers' = readers \ {w}
    BY <1>5 DEF Read
  <2>2. CASE Fill(w, "add")
    BY <1>1, <2>1, <2>2, FillKeeps, WorkerStep
  <2>3. CASE ~Fill(w, "add")
    <3>1. PlainQueue
      BY <1>5, <2>3, AnswerPlain DEF Read, PlainQueue, Results
    <3>2. worker' = [worker EXCEPT ![w].at = "end", ![w].tree = None]
      BY <1>5, <2>3 DEF Read
    <3>3. QED
      BY <1>1, <2>1, <3>1, <3>2, GoesWith, WorkerStep DEF Stages
  <2>4. QED
    BY <2>2, <2>3
<1>6. CASE FillSongs(w)
  <2>1. ~At(w, "read") /\ readers' = readers
    BY <1>6 DEF FillSongs, At
  <2>2. CASE Fill(w, "add")
    BY <1>1, <1>2, <2>1, <2>2, FillKeeps, WorkerStep
  <2>3. CASE ~Fill(w, "add")
    <3>1. PlainQueue /\ Goto(w, "end")
      BY <1>6, <2>3, AnswerPlain DEF FillSongs, PlainQueue, Results
    <3>2. QED
      BY <1>1, <1>2, <2>1, <3>1, Goes, WorkerStep DEF Stages
  <2>4. QED
    BY <2>2, <2>3
<1>7. CASE Finish(w)
  <2>1. ~At(w, "read") /\ readers' = readers /\ PlainQueue
    BY <1>7 DEF Finish, At, PlainQueue
  <2>2. worker' = [worker EXCEPT ![w].at = "end", ![w].tree = None]
    BY <1>7 DEF Finish
  <2>3. QED
    BY <1>1, <1>2, <2>1, <2>2, GoesWith, WorkerStep DEF Stages
<1>8. CASE End(w)
  <2>1. ~At(w, "read") /\ readers' = readers /\ PlainQueue /\ worker' = [worker EXCEPT ![w] = Idle]
    BY <1>8 DEF End, At, PlainQueue
  <2>2. Idle \in Works /\ Idle.at = "none"
    BY DEF Idle, Works, Stages, Partitions, Modes
  <2>3. /\ worker' \in [Workers -> Works] /\ worker'[w].at = "none"
        /\ \A v \in Workers : v # w => worker'[v] = worker[v]
    BY <2>1, <2>2 DEF IInv, Typed
  <2>4. QED
    BY <1>1, <1>2, <2>1, <2>3, WorkerStep
<1>9. QED
  BY <1>3, <1>4, <1>5, <1>6, <1>7, <1>8

-----------------------------------------------------------------------------
(* The steps that give a tree to another owner, or free it.                 *)
LEMMA TreePopped ==
  ASSUME IInv, Handle
  PROVE  /\ queue' \in Seq(Messages) /\ Req.tree \in Trees \cup {None}
         /\ Req.tree # None => InQueue(Req.tree)
         /\ \A t \in Trees : InQueue(t)' <=> InQueue(t) /\ t # Req.tree
         /\ \A i, j \in DOMAIN queue' : queue'[i].tree = queue'[j].tree /\ queue'[i].tree # None => i = j
         /\ \A i \in DOMAIN queue' : queue'[i].tree # None => queue'[i].cmd = "cache created"
<1> USE NoneIsNoTree
<1>1. Typed /\ OneOwner /\ Carries
  BY DEF IInv
<1>2. /\ queue' \in Seq(Messages) /\ 1 \in DOMAIN queue /\ Req = queue[1] /\ Req \in Messages
      /\ \A i \in DOMAIN queue' : i + 1 \in DOMAIN queue /\ queue'[i] = queue[i + 1]
      /\ \A i \in DOMAIN queue : i = 1 \/ (i - 1 \in DOMAIN queue' /\ queue'[i - 1] = queue[i])
      /\ DOMAIN queue \subseteq Int /\ DOMAIN queue' \subseteq Nat \ {0}
  BY <1>1, Popped DEF Handle, Req, Typed
<1>3. Req.tree \in Trees \cup {None}
  BY <1>2 DEF Messages
<1>4. \A t \in Trees : InQueue(t)' <=> InQueue(t) /\ t # Req.tree
  <2>1. SUFFICES ASSUME NEW t \in Trees PROVE InQueue(t)' <=> InQueue(t) /\ t # Req.tree
    OBVIOUS
  <2>2. ASSUME NEW i \in DOMAIN queue', queue'[i].tree = t PROVE InQueue(t) /\ t # Req.tree
    <3>1. i + 1 \in DOMAIN queue /\ queue[i + 1].tree = t /\ i + 1 # 1
      BY <1>2, <2>2
    <3>2. t # queue[1].tree
      BY <1>1, <1>2, <3>1 DEF OneOwner
    <3>3. QED
      BY <1>2, <3>1, <3>2 DEF InQueue
  <2>3. ASSUME NEW i \in DOMAIN queue, queue[i].tree = t, t # Req.tree PROVE InQueue(t)'
    <3>1. i # 1
      BY <1>2, <2>3
    <3>2. i - 1 \in DOMAIN queue' /\ queue'[i - 1].tree = t
      BY <1>2, <2>3, <3>1
    <3>3. QED
      BY <3>2 DEF InQueue
  <2>4. QED
    BY <2>2, <2>3 DEF InQueue
<1>5. \A i, j \in DOMAIN queue' : queue'[i].tree = queue'[j].tree /\ queue'[i].tree # None => i = j
  <2>1. SUFFICES ASSUME NEW i \in DOMAIN queue', NEW j \in DOMAIN queue',
                        queue'[i].tree = queue'[j].tree, queue'[i].tree # None
                 PROVE  i = j
    OBVIOUS
  <2>2. i + 1 = j + 1
    BY <1>1, <1>2, <2>1 DEF OneOwner
  <2>3. QED
    BY <1>2, <2>2
<1>6. \A i \in DOMAIN queue' : queue'[i].tree # None => queue'[i].cmd = "cache created"
  <2>1. SUFFICES ASSUME NEW i \in DOMAIN queue', queue'[i].tree # None
                 PROVE  queue'[i].cmd = "cache created"
    OBVIOUS
  <2>2. i + 1 \in DOMAIN queue /\ queue'[i] = queue[i + 1]
    BY <1>2
  <2>3. QED
    BY <1>1, <2>1, <2>2 DEF Carries
<1>7. Req.tree # None => InQueue(Req.tree)
  BY <1>2 DEF InQueue
<1>8. QED
  BY <1>2, <1>3, <1>4, <1>5, <1>6, <1>7

\* the request frees its tree, or keeps it until it has the lock
LEMMA TakenKeeps == ASSUME IInv, Unknown \/ CacheCreated PROVE IInv'
<1> USE NoneIsNoTree
<1>1. Handle /\ UNCHANGED <<cache, worker, readers, mode, tags>>
  BY DEF Unknown, CacheCreated, flags
<1>2. extra = None /\ \/ extra' = extra /\ trees' = trees \ {Req.tree}
                      \/ extra' = Req.tree /\ trees' = trees
  BY DEF Unknown, CacheCreated, Handle
<1>3. /\ queue' \in Seq(Messages) /\ Req.tree \in Trees \cup {None}
      /\ Req.tree # None => InQueue(Req.tree)
      /\ \A t \in Trees : InQueue(t)' <=> InQueue(t) /\ t # Req.tree
      /\ \A i, j \in DOMAIN queue' : queue'[i].tree = queue'[j].tree /\ queue'[i].tree # None => i = j
      /\ \A i \in DOMAIN queue' : queue'[i].tree # None => queue'[i].cmd = "cache created"
  BY <1>1, TreePopped
<1>4. Typed'
  BY <1>1, <1>2, <1>3 DEF IInv, Typed
<1>5. \A t \in Trees : Building(t)' <=> Building(t)
  BY <1>1 DEF Building, At
<1>6. Req.tree # None => ~Building(Req.tree) /\ cache # Req.tree
  BY <1>3 DEF IInv, OneOwner
<1>7. HasOwner'
  <2>1. SUFFICES ASSUME NEW t \in Trees
                 PROVE  t \in trees' <=> InQueue(t)' \/ Building(t)' \/ cache' = t \/ extra' = t
    BY DEF HasOwner
  <2>2. t \in trees <=> InQueue(t) \/ Building(t) \/ cache = t
    BY <1>2 DEF IInv, HasOwner
  <2>3. QED
    BY <1>1, <1>2, <1>3, <1>5, <1>6, <2>2
<1>8. OneOwner'
  <2>1. \A v, w \in Workers : At(v, "build")' /\ At(w, "build")' /\ worker'[v].tree = worker'[w].tree => v = w
    BY <1>1 DEF IInv, OneOwner, At
  <2>2. \A t \in Trees : /\ InQueue(t)' => ~Building(t)' /\ cache' # t /\ extra' # t
                         /\ Building(t)' => cache' # t /\ extra' # t
                         /\ cache' = t => extra' # t
    BY <1>1, <1>2, <1>3, <1>5, <1>6 DEF IInv, OneOwner
  <2>3. QED
    BY <1>3, <2>1, <2>2 DEF OneOwner
<1>9. Carries' /\ Reading'
  BY <1>1, <1>3 DEF IInv, Carries, Reading, At
<1>10. QED
  BY <1>4, <1>7, <1>8, <1>9 DEF IInv

\* nobody reads when the cache is replaced
LEMMA ReplaceKeeps == ASSUME IInv, Replace PROVE IInv'
<1> USE NoneIsNoTree
<1>1. /\ UNCHANGED <<queue, worker, readers, mode, tags>> /\ readers = {} /\ extra # None
      /\ trees' = trees \ {cache} /\ cache' = extra /\ extra' = None
  BY DEF Replace, flags
<1>2. Typed'
  BY <1>1 DEF IInv, Typed
<1>3. \A t \in Trees : (InQueue(t)' <=> InQueue(t)) /\ (Building(t)' <=> Building(t))
  BY <1>1 DEF InQueue, Building, At
<1>4. HasOwner'
  <2>1. SUFFICES ASSUME NEW t \in Trees
                 PROVE  t \in trees' <=> InQueue(t)' \/ Building(t)' \/ cache' = t \/ extra' = t
    BY DEF HasOwner
  <2>2. /\ t \in trees <=> InQueue(t) \/ Building(t) \/ cache = t \/ extra = t
        /\ cache = t => ~InQueue(t) /\ ~Building(t) /\ extra # t
    BY DEF IInv, HasOwner, OneOwner
  <2>3. QED
    BY <1>1, <1>3, <2>2
<1>5. OneOwner'
  <2>1. /\ \A i, j \in DOMAIN queue' : queue'[i].tree = queue'[j].tree /\ queue'[i].tree # None => i = j
        /\ \A v, w \in Workers : At(v, "build")' /\ At(w, "build")' /\ worker'[v].tree = worker'[w].tree => v = w
    BY <1>1 DEF IInv, OneOwner, At
  <2>2. \A t \in Trees : /\ InQueue(t)' => ~Building(t)' /\ cache' # t /\ extra' # t
                         /\ Building(t)' => cache' # t /\ extra' # t
                         /\ cache' = t => extra' # t
    BY <1>1, <1>3 DEF IInv, OneOwner
  <2>3. QED
    BY <2>1, <2>2 DEF OneOwner
<1>6. Carries' /\ Reading'
  BY <1>1 DEF IInv, Carries, Reading, At
<1>7. QED
  BY <1>2, <1>4, <1>5, <1>6 DEF IInv

\* a new address has no owner yet
LEMMA BuildKeeps == ASSUME IInv, NEW w \in Workers, Build(w) PROVE IInv'
<1> USE NoneIsNoTree
<1> DEFINE new == CHOOSE t \in Trees \ trees : TRUE
<1>1. /\ At(w, "run") /\ UNCHANGED <<queue, cache, extra, readers, mode, tags>>
      /\ worker' = [worker EXCEPT ![w].at = "build", ![w].tree = new]
      /\ trees' = trees \cup {new} /\ Trees \ trees # {}
  BY DEF Build, api, flags
<1>2. new \in Trees /\ new \notin trees
  BY <1>1
<1> HIDE DEF new
<1>3. /\ worker' \in [Workers -> Works] /\ worker'[w].at = "build" /\ worker'[w].tree = new
      /\ \A v \in Workers : v # w => worker'[v] = worker[v]
  BY <1>1, <1>2, GoesWith DEF Stages
<1>4. Typed'
  BY <1>1, <1>2, <1>3 DEF IInv, Typed
<1>5. ~InQueue(new) /\ ~Building(new) /\ cache # new /\ extra # new
  BY <1>2 DEF IInv, HasOwner
<1>6. \A t \in Trees : (InQueue(t)' <=> InQueue(t)) /\ (Building(t)' <=> Building(t) \/ t = new)
  BY <1>1, <1>3 DEF InQueue, Building, At
<1>7. HasOwner'
  BY <1>1, <1>5, <1>6 DEF IInv, HasOwner
<1>8. OneOwner'
  <2>1. \A u, v \in Workers : At(u, "build")' /\ At(v, "build")' /\ worker'[u].tree = worker'[v].tree => u = v
    BY <1>3, <1>5 DEF IInv, OneOwner, At, Building
  <2>2. \A t \in Trees : /\ InQueue(t)' => ~Building(t)' /\ cache' # t /\ extra' # t
                         /\ Building(t)' => cache' # t /\ extra' # t
                         /\ cache' = t => extra' # t
    BY <1>1, <1>5, <1>6 DEF IInv, OneOwner
  <2>3. QED
    BY <1>1, <2>1, <2>2 DEF IInv, OneOwner
<1>9. Carries' /\ Reading'
  BY <1>1, <1>2, <1>3 DEF IInv, Carries, Reading, At
<1>10. QED
  BY <1>4, <1>7, <1>8, <1>9 DEF IInv

\* the tree is given to the request, or freed
LEMMA BuiltKeeps == ASSUME IInv, NEW w \in Workers, Built(w) PROVE IInv'
<1> USE NoneIsNoTree
<1> DEFINE t0 == worker[w].tree
<1>1. At(w, "build") /\ UNCHANGED <<cache, extra, readers, mode, tags>>
  BY DEF Built, api, flags
<1>2. t0 \in Trees /\ Building(t0) /\ ~InQueue(t0) /\ cache # t0 /\ extra # t0 /\ t0 \in trees
  <2>1. t0 \in Trees /\ Building(t0)
    BY <1>1 DEF IInv, Carries, Building
  <2>2. QED
    BY <2>1 DEF IInv, OneOwner, HasOwner
<1>3. \/ Push("cache created", worker[w].part, t0) /\ Goto(w, "write") /\ trees' = trees
      \/ Answer(w, "cache error") /\ trees' = trees \ {t0}
         /\ worker' = [worker EXCEPT ![w].at = "end", ![w].tree = None]
  BY DEF Built
<1> HIDE DEF t0
<1>4. /\ worker' \in [Workers -> Works] /\ worker'[w].at \in {"write", "end"}
      /\ \A v \in Workers : v # w => worker'[v] = worker[v]
  BY <1>3, Goes, GoesWith DEF Stages
<1>5. \A t \in Trees : Building(t)' <=> Building(t) /\ t # t0
  BY <1>1, <1>4 DEF Building, At, IInv, OneOwner, t0
<1>6. \A u, v \in Workers : At(u, "build")' /\ At(v, "build")' /\ worker'[u].tree = worker'[v].tree => u = v
  BY <1>4 DEF IInv, OneOwner, At
<1>7. Reading' /\ \A v \in Workers : At(v, "build")' => worker'[v].tree \in Trees
  BY <1>1, <1>4 DEF IInv, Reading, Carries, At
<1>8. CASE Answer(w, "cache error") /\ trees' = trees \ {t0}
  <2>1. PlainQueue
    BY <1>8, AnswerPlain DEF Results
  <2>2. Typed' /\ Carries'
    BY <1>1, <1>4, <1>7, <1>8, <2>1, PlainKeeps DEF IInv, Typed, Carries
  <2>3. HasOwner'
    BY <1>1, <1>2, <1>5, <1>8, <2>1, PlainKeeps DEF IInv, HasOwner
  <2>4. OneOwner'
    <3>1. \A t \in Trees : /\ InQueue(t)' => ~Building(t)' /\ cache' # t /\ extra' # t
                           /\ Building(t)' => cache' # t /\ extra' # t
                           /\ cache' = t => extra' # t
      BY <1>1, <1>5, <2>1, PlainKeeps DEF IInv, OneOwner
    <3>2. QED
      BY <1>6, <2>1, <3>1, PlainKeeps DEF OneOwner
  <2>5. QED
    BY <1>7, <2>2, <2>3, <2>4 DEF IInv
<1>9. CASE Push("cache created", worker[w].part, t0) /\ trees' = trees
  <2> DEFINE m == Message("cache created", worker[w].part, t0, FALSE)
             n == Len(queue) + 1
  <2>1. m \in Messages /\ m.tree = t0 /\ m.cmd = "cache created"
    BY <1>2 DEF Message, Messages, Results, IInv, Typed, Works
  <2>2. queue' = Append(queue, m)
    BY <1>9 DEF Push
  <2> HIDE DEF m
  <2>3. /\ queue' \in Seq(Messages) /\ DOMAIN queue' = DOMAIN queue \cup {n}
        /\ queue'[n] = m /\ \A i \in DOMAIN queue : queue'[i] = queue[i]
    BY <2>1, <2>2, Pushed DEF IInv
  <2> HIDE DEF n
  <2>4. Typed' /\ Carries'
    BY <1>1, <1>4, <1>7, <1>9, <2>1, <2>3 DEF IInv, Typed, Carries
  <2>5. \A t \in Trees : InQueue(t)' <=> InQueue(t) \/ t = t0
    BY <2>1, <2>3 DEF InQueue
  <2>6. HasOwner'
    BY <1>1, <1>2, <1>5, <1>9, <2>5 DEF IInv, HasOwner
  <2>7. \A i, j \in DOMAIN queue' : queue'[i].tree = queue'[j].tree /\ queue'[i].tree # None => i = j
    BY <1>2, <2>1, <2>3 DEF IInv, OneOwner, InQueue
  <2>8. \A t \in Trees : /\ InQueue(t)' => ~Building(t)' /\ cache' # t /\ extra' # t
                         /\ Building(t)' => cache' # t /\ extra' # t
                         /\ cache' = t => extra' # t
    BY <1>1, <1>2, <1>5, <2>5 DEF IInv, OneOwner
  <2>9. OneOwner'
    BY <1>6, <2>7, <2>8 DEF OneOwner
  <2>10. QED
    BY <1>7, <2>4, <2>6, <2>9 DEF IInv
<1>10. QED
  BY <1>3, <1>8, <1>9

-----------------------------------------------------------------------------
LEMMA IInvInit == ASSUME Init PROVE IInv
<1> USE NoneIsNoTree
<1>1. /\ queue = <<>> /\ extra = None /\ cache \in Trees \cup {None} /\ trees = {cache} \ {None}
      /\ mode \in Modes /\ tags \in BOOLEAN /\ readers = {}
      /\ worker = [w \in Workers |-> Idle]
  BY JobsAssumption DEF Init, Modes
<1>2. Idle \in Works /\ Idle.at = "none"
  BY DEF Idle, Works, Stages, Partitions, Modes
<1>3. Typed
  BY <1>1, <1>2 DEF Typed
<1>4. \A t \in Trees : ~InQueue(t) /\ ~Building(t)
  BY <1>1, <1>2 DEF InQueue, Building, At
<1>5. HasOwner /\ OneOwner /\ Carries /\ Reading
  BY <1>1, <1>2, <1>4 DEF HasOwner, OneOwner, Carries, Reading, At
<1>6. QED
  BY <1>3, <1>5 DEF IInv

LEMMA IInvStep == ASSUME IInv, [Next]_vars PROVE IInv'
<1>1. CASE Request \/ Environment \/ RunJukebox \/ SetMode \/ Script
  BY <1>1, OutsideKeeps
<1>2. CASE Api
  BY <1>2, CommandsKeep, TakenKeeps, ReplaceKeeps, StartWorkerKeeps DEF Api
<1>3. ASSUME NEW w \in Workers, Worker(w) PROVE IInv'
  BY <1>3, WorkerKeeps, BuildKeeps, BuiltKeeps DEF Worker
<1>4. CASE UNCHANGED vars
  <2>1. PlainQueue
    BY <1>4 DEF vars, PlainQueue
  <2>2. QED
    BY <1>4, <2>1, ApiPlain DEF vars, flags, IInv, Typed
<1>5. QED
  BY <1>1, <1>2, <1>3, <1>4 DEF Next

(* Every album cache is freed by its only owner, and none is read after     *)
(* that: the worker that builds it, the request that carries it             *)
(* (request->extra and extra_free), the api thread that replaces the cache  *)
(* when nobody holds the read lock.                                         *)
THEOREM CacheHasOneOwner == Spec => []CacheOwned
<1>1. Init => IInv
  BY IInvInit
<1>2. IInv /\ [Next]_vars => IInv'
  BY IInvStep
<1>3. IInv => CacheOwned
  BY Sound
<1>4. QED
  BY <1>1, <1>2, <1>3, PTL DEF Spec

-----------------------------------------------------------------------------
(* The flags.  A build is a token: a worker that builds, or will, and then  *)
(* the result it sends; the results of workers without tags do not count.   *)
CacheResults == {"cache created", "cache error", "cache skipped"}
IsReport(m) == m.cmd \in CacheResults /\ ~m.stray
Reported    == \E i \in DOMAIN queue : IsReport(queue[i])
OneReport   == \A i, j \in DOMAIN queue : IsReport(queue[i]) /\ IsReport(queue[j]) => i = j
Builder(w)  == worker[w].cmd = "caches" /\ worker[w].tags /\ worker[w].at \in {"created", "run", "build"}

\* what resets filling
Refills   == {"refill", "refill_add", "jukebox created", "jukebox error"}
Filler(w) == worker[w].cmd \in {"refill", "refill_add"} /\ worker[w].at \notin {"none", "write", "end"}

\* only caches are built for other partitions than that of the jukebox
GoodMessage(m) == /\ m.part # Default => m.cmd \in {"caches"} \cup CacheResults
                  /\ m.cmd = "cache created" => ~m.stray
GoodWork(x) == /\ x.part # Default => x.cmd = "caches"
               /\ x.at = "build" => x.cmd = "caches" /\ x.tags
               /\ x.at = "add" => x.cmd = "refill_add"

Sane ==
  /\ scripts \in Nat /\ Default \in parts
  /\ \A i \in DOMAIN queue : GoodMessage(queue[i])
  /\ \A w \in Workers : GoodWork(worker[w])
BuildingInv ==
  /\ building => lostBuild \/ Reported \/ \E w \in Workers : Builder(w)
  /\ ~released => /\ \A v, w \in Workers : Builder(v) /\ Builder(w) => v = w
                  /\ OneReport
                  /\ \A w \in Workers : Builder(w) => ~Reported /\ building
                  /\ Reported => building
FillingInv == filling => lostFill \/ scripts > 0 \/ Queued(Refills) \/ \E w \in Workers : Filler(w)

FInv == IInv /\ Sane /\ BuildingInv /\ FillingInv

LEMMA FlagsSound == ASSUME FInv PROVE FlagsTrue
<1>1. building => \/ lostBuild \/ Pending("caches")
                  \/ Queued({"cache created", "cache error", "cache skipped"})
  BY DEF FInv, BuildingInv, Reported, IsReport, Builder, Pending, Queued, CacheResults
<1>2. filling => \/ lostFill \/ scripts > 0
                 \/ Queued({"refill", "refill_add", "jukebox created", "jukebox error"})
                 \/ Pending("refill") \/ Pending("refill_add")
  BY DEF FInv, FillingInv, Refills, Filler, Pending
<1>3. OneBuild
  <2>1. SUFFICES ASSUME ~released PROVE Cardinality(Builders) <= 1
    BY DEF OneBuild
  <2>2. \A v, w \in Workers : v \in Builders /\ w \in Builders => v = w
    BY <2>1 DEF FInv, BuildingInv, Builders, Builder
  <2>3. CASE Builders = {}
    BY <2>3, FS_EmptySet
  <2>4. CASE Builders # {}
    <3>1. PICK w \in Workers : w \in Builders
      BY <2>4 DEF Builders
    <3>2. Builders = {w}
      BY <2>2, <3>1 DEF Builders
    <3>3. Cardinality(Builders) = 1
      BY <3>2, FS_Singleton, Zenon
    <3>4. QED
      BY <3>3
  <2>5. QED
    BY <2>3, <2>4
<1>4. QED
  BY <1>1, <1>2, <1>3 DEF FlagsTrue, FlagsCovered

-----------------------------------------------------------------------------
\* what a message that is pushed or taken changes
LEMMA FlagPush ==
  ASSUME FInv, NEW m \in Messages, GoodMessage(m), queue' = Append(queue, m)
  PROVE  /\ \A i \in DOMAIN queue' : GoodMessage(queue'[i])
         /\ Reported' <=> Reported \/ IsReport(m)
         /\ OneReport /\ ~(Reported /\ IsReport(m)) => OneReport'
         /\ Queued(Refills)' <=> Queued(Refills) \/ m.cmd \in Refills
<1> DEFINE n == Len(queue) + 1
<1>1. /\ DOMAIN queue' = DOMAIN queue \cup {n} /\ n \notin DOMAIN queue
      /\ queue'[n] = m /\ \A i \in DOMAIN queue : queue'[i] = queue[i]
  BY Pushed DEF FInv, IInv
<1> HIDE DEF n
<1>2. \A i \in DOMAIN queue' : GoodMessage(queue'[i])
  BY <1>1 DEF FInv, Sane
<1>3. Reported' <=> Reported \/ IsReport(m)
  BY <1>1 DEF Reported
<1>4. OneReport /\ ~(Reported /\ IsReport(m)) => OneReport'
  BY <1>1 DEF Reported, OneReport
<1>5. Queued(Refills)' <=> Queued(Refills) \/ m.cmd \in Refills
  BY <1>1 DEF Queued, Refills
<1>6. QED
  BY <1>2, <1>3, <1>4, <1>5

LEMMA FlagPop ==
  ASSUME FInv, Handle
  PROVE  /\ Req \in Messages /\ GoodMessage(Req)
         /\ \A i \in DOMAIN queue' : GoodMessage(queue'[i])
         /\ Reported' => Reported
         /\ ~IsReport(Req) => (Reported' <=> Reported)
         /\ IsReport(Req) => Reported
         /\ OneReport => OneReport'
         /\ OneReport /\ IsReport(Req) => ~Reported'
         /\ Req.cmd \notin Refills => (Queued(Refills)' <=> Queued(Refills))
<1>1. /\ 1 \in DOMAIN queue /\ Req = queue[1] /\ Req \in Messages
      /\ \A i \in DOMAIN queue' : i + 1 \in DOMAIN queue /\ queue'[i] = queue[i + 1]
      /\ \A i \in DOMAIN queue : i = 1 \/ (i - 1 \in DOMAIN queue' /\ queue'[i - 1] = queue[i])
      /\ DOMAIN queue \subseteq Int /\ DOMAIN queue' \subseteq Nat \ {0}
  BY Popped DEF FInv, IInv, Handle, Req, Typed
<1>2. GoodMessage(Req) /\ \A i \in DOMAIN queue' : GoodMessage(queue'[i])
  BY <1>1 DEF FInv, Sane
<1>3. Reported' => Reported
  BY <1>1 DEF Reported
<1>4. ~IsReport(Req) => (Reported' <=> Reported)
  BY <1>1 DEF Reported
<1>5. IsReport(Req) => Reported
  BY <1>1 DEF Reported
<1>6. OneReport => OneReport'
  <2>1. SUFFICES ASSUME OneReport, NEW i \in DOMAIN queue', NEW j \in DOMAIN queue',
                        IsReport(queue'[i]), IsReport(queue'[j])
                 PROVE  i = j
    BY DEF OneReport
  <2>2. i + 1 \in DOMAIN queue /\ j + 1 \in DOMAIN queue /\ IsReport(queue[i + 1]) /\ IsReport(queue[j + 1])
    BY <1>1, <2>1
  <2>3. i + 1 = j + 1
    BY <2>1, <2>2 DEF OneReport
  <2>4. QED
    BY <1>1, <2>3
<1>7. OneReport /\ IsReport(Req) => ~Reported'
  <2>1. SUFFICES ASSUME OneReport, IsReport(Req), NEW i \in DOMAIN queue', IsReport(queue'[i])
                 PROVE  FALSE
    BY DEF Reported
  <2>2. i + 1 \in DOMAIN queue /\ IsReport(queue[i + 1]) /\ i + 1 # 1
    BY <1>1, <2>1
  <2>3. i + 1 = 1
    BY <1>1, <2>1, <2>2 DEF OneReport
  <2>4. QED
    BY <2>2, <2>3
<1>8. Req.cmd \notin Refills => (Queued(Refills)' <=> Queued(Refills))
  BY <1>1 DEF Queued
<1>9. QED
  BY <1>1, <1>2, <1>3, <1>4, <1>5, <1>6, <1>7, <1>8

\* a step of the api thread, a browser or a script
LEMMA FlagsOutside ==
  ASSUME FInv, Request \/ Environment \/ RunJukebox \/ SetMode \/ Script
  PROVE  Sane' /\ BuildingInv' /\ FillingInv'
<1> USE DEF flags, history
<1>1. UNCHANGED <<worker, building, lostBuild, released>>
  BY DEF Request, Environment, RunJukebox, SetMode, Script
<1>2. \A w \in Workers : (Builder(w)' <=> Builder(w)) /\ (Filler(w)' <=> Filler(w)) /\ GoodWork(worker'[w])
  BY <1>1 DEF FInv, Sane, Builder, Filler
<1>3. \/ queue' = queue
      \/ \E m \in Messages : /\ m.cmd \notin CacheResults /\ GoodMessage(m) /\ queue' = Append(queue, m)
  <2>1. ASSUME NEW c \in Requests \cup Results, NEW p \in Partitions, c \notin CacheResults,
               p # Default => c = "caches", Push(c, p, None)
        PROVE  \E m \in Messages : /\ m.cmd \notin CacheResults /\ GoodMessage(m) /\ queue' = Append(queue, m)
    <3>1. Message(c, p, None, FALSE) \in Messages
      BY PlainMessage
    <3>2. QED
      BY <2>1, <3>1 DEF Push, Message, GoodMessage
  <2>2. CASE Request
    <3>1. PICK c \in Requests, p \in Partitions : (p # Default => c = "caches") /\ Push(c, p, None)
      BY <2>2 DEF Request
    <3>2. QED
      BY <2>1, <3>1 DEF Requests, CacheResults
  <2>3. CASE Environment
    BY <2>3 DEF Environment
  <2>4. CASE RunJukebox \/ SetMode \/ Script
    <3>1. \/ queue' = queue
          \/ \E c \in {"refill", "refill_add", "jukebox created", "jukebox error"} : Push(c, Default, None)
      BY <2>4 DEF RunJukebox, SetMode, Script, JukeboxRun
    <3>2. QED
      BY <2>1, <3>1 DEF Requests, Results, CacheResults, Partitions
  <2>5. QED
    BY <2>2, <2>3, <2>4
<1>4. /\ \A i \in DOMAIN queue' : GoodMessage(queue'[i])
      /\ Reported' <=> Reported
      /\ OneReport => OneReport'
      /\ Queued(Refills) => Queued(Refills)'
  <2>1. CASE queue' = queue
    BY <2>1 DEF FInv, Sane, Reported, OneReport, Queued
  <2>2. CASE queue' # queue
    BY <1>3, <2>2, FlagPush DEF IsReport
  <2>3. QED
    BY <2>1, <2>2
<1>5. BuildingInv'
  BY <1>1, <1>2, <1>4 DEF FInv, BuildingInv
<1>6. scripts' \in Nat /\ Default \in parts'
  <2>1. scripts' = scripts \/ scripts' = scripts + 1 \/ (scripts > 0 /\ scripts' = scripts - 1)
    <3>1. CASE Request \/ Environment
      BY <3>1 DEF Request, Environment
    <3>2. CASE RunJukebox \/ SetMode
      <4>1. PICK m : JukeboxRun(m)
        BY <3>2 DEF RunJukebox, SetMode
      <4>2. QED
        BY <4>1 DEF JukeboxRun, Trigger
    <3>3. CASE Script
      BY <3>3 DEF Script
    <3>4. QED
      BY <3>1, <3>2, <3>3
  <2>2. parts' \in {parts, {Default}, Partitions}
    BY DEF Request, Environment, RunJukebox, SetMode, Script
  <2>3. QED
    BY <2>1, <2>2 DEF FInv, Sane, Partitions
<1>7. FillingInv'
  <2>1. ASSUME NEW c \in Refills, Push(c, Default, None) PROVE Queued(Refills)'
    <3>1. Message(c, Default, None, FALSE) \in Messages
      BY PlainMessage DEF Refills, Requests, Results, Partitions
    <3>2. GoodMessage(Message(c, Default, None, FALSE)) /\ Message(c, Default, None, FALSE).cmd = c
      BY DEF GoodMessage, Message
    <3>3. QED
      BY <2>1, <3>1, <3>2, FlagPush DEF Push
  <2>2. CASE Request \/ Environment
    <3>1. UNCHANGED <<filling, lostFill, scripts>>
      BY <2>2 DEF Request, Environment
    <3>2. QED
      BY <1>2, <1>4, <3>1 DEF FInv, FillingInv
  <2>3. CASE RunJukebox \/ SetMode
    <3>1. PICK m : JukeboxRun(m)
      BY <2>3 DEF RunJukebox, SetMode
    <3>2. CASE UNCHANGED <<filling, scripts, lostFill>>
      BY <1>2, <1>4, <3>2 DEF FInv, FillingInv
    <3>3. CASE Trigger
      BY <3>3 DEF Trigger, FInv, Sane, FillingInv
    <3>4. CASE \E c \in {"refill", "refill_add"} : Push(c, Default, None)
      BY <2>1, <3>4 DEF FillingInv, Refills
    <3>5. QED
      BY <3>1, <3>2, <3>3, <3>4 DEF JukeboxRun
  <2>4. CASE Script
    <3>1. CASE \E c \in {"jukebox created", "jukebox error"} : Push(c, Default, None)
      BY <2>1, <3>1 DEF FillingInv, Refills
    <3>2. CASE LoseFill
      BY <2>4, <3>2 DEF LoseFill, Script, FillingInv
    <3>3. QED
      BY <2>4, <3>1, <3>2 DEF Script
  <2>5. QED
    BY <2>2, <2>3, <2>4
<1>8. QED
  BY <1>2, <1>4, <1>5, <1>6, <1>7 DEF Sane

LEMMA FlagsHandled ==
  ASSUME FInv,
         \/ Unknown \/ Refuse \/ RefillByScript \/ StartFails \/ CacheFailed \/ CacheCreated
         \/ JukeboxCreated \/ JukeboxError
  PROVE  Sane' /\ BuildingInv' /\ FillingInv'
<1> USE DEF flags
<1>1. Handle /\ UNCHANGED <<worker, parts>>
  BY DEF Unknown, Refuse, RefillByScript, StartFails, CacheFailed, CacheCreated, JukeboxCreated,
         JukeboxError, ToWorker, Accepts
<1>2. \A w \in Workers : (Builder(w)' <=> Builder(w)) /\ (Filler(w)' <=> Filler(w)) /\ GoodWork(worker'[w])
  BY <1>1 DEF FInv, Sane, Builder, Filler
<1>3. /\ Req \in Messages /\ GoodMessage(Req)
      /\ \A i \in DOMAIN queue' : GoodMessage(queue'[i])
      /\ Reported' => Reported
      /\ ~IsReport(Req) => (Reported' <=> Reported)
      /\ IsReport(Req) => Reported
      /\ OneReport => OneReport'
      /\ OneReport /\ IsReport(Req) => ~Reported'
      /\ Req.cmd \notin Refills => (Queued(Refills)' <=> Queued(Refills))
  BY <1>1, FlagPop
<1>4. Sane'
  <2>1. scripts' = scripts \/ scripts' = scripts + 1
    BY DEF Unknown, Refuse, RefillByScript, StartFails, CacheFailed, CacheCreated, JukeboxCreated,
           JukeboxError, Trigger
  <2>2. scripts' \in Nat
    BY <2>1 DEF FInv, Sane
  <2>3. QED
    BY <1>1, <1>2, <1>3, <2>2 DEF FInv, Sane
<1>5. BuildingInv'
  <2>1. CASE Unknown
    <3>1. /\ UNCHANGED <<building, released>>
          /\ lostBuild' = (lostBuild \/ (building /\ Req.cmd \in Results))
      BY <2>1 DEF Unknown
    <3>2. IsReport(Req) /\ building => lostBuild'
      BY <3>1 DEF IsReport, CacheResults, Results
    <3>3. QED
      BY <1>2, <1>3, <3>1, <3>2 DEF FInv, BuildingInv
  <2>2. CASE Refuse \/ RefillByScript \/ JukeboxCreated \/ JukeboxError
    <3>1. UNCHANGED <<building, lostBuild, released>>
      BY <2>2 DEF Refuse, RefillByScript, JukeboxCreated, JukeboxError
    <3>2. ~IsReport(Req)
      BY <2>2 DEF Refuse, RefillByScript, JukeboxCreated, JukeboxError, IsReport, CacheResults, ToWorker,
                  Requests
    <3>3. QED
      BY <1>2, <1>3, <3>1, <3>2 DEF FInv, BuildingInv
  <2>3. CASE StartFails
    <3>1. ~building' /\ released' = (released \/ building)
      BY <2>3 DEF StartFails, SetBuilding
    <3>2. QED
      BY <1>2, <1>3, <3>1 DEF FInv, BuildingInv
  <2>4. CASE CacheFailed
    <3>1. /\ ~building' /\ released' = (released \/ (building /\ Req.stray))
          /\ Req.cmd \in CacheResults
      BY <2>4 DEF CacheFailed, SetBuilding, CacheResults
    <3>2. QED
      BY <1>2, <1>3, <3>1 DEF FInv, BuildingInv, IsReport
  <2>5. CASE CacheCreated
    <3>1. ~building' /\ released' = released /\ Req.cmd = "cache created"
      BY <2>5 DEF CacheCreated, SetBuilding
    <3>2. IsReport(Req)
      BY <1>3, <3>1 DEF IsReport, CacheResults, GoodMessage
    <3>3. QED
      BY <1>2, <1>3, <3>1, <3>2 DEF FInv, BuildingInv
  <2>6. QED
    BY <2>1, <2>2, <2>3, <2>4, <2>5
<1>6. FillingInv'
  <2>1. CASE Unknown \/ CacheFailed \/ CacheCreated
    <3>1. UNCHANGED <<filling, lostFill, scripts>>
      BY <2>1 DEF Unknown, CacheFailed, CacheCreated
    <3>2. Req.cmd \notin Refills
      BY <1>3, <2>1 DEF Unknown, Known, CacheFailed, CacheCreated, FInv, Sane, GoodMessage, Refills,
                        CacheResults
    <3>3. QED
      BY <1>2, <1>3, <3>1, <3>2 DEF FInv, FillingInv
  <2>2. CASE Refuse \/ StartFails
    <3>1. UNCHANGED <<filling, scripts>> /\ (lostFill' = filling \/ (lostFill' = lostFill /\ ~Refill))
      BY <2>2 DEF Refuse, StartFails, LoseFill
    <3>2. ~Refill => Req.cmd \notin Refills
      BY <2>2 DEF Refuse, StartFails, Accepts, ToWorker, Refill, Refills, Requests
    <3>3. QED
      BY <1>2, <1>3, <3>1, <3>2 DEF FInv, FillingInv
  <2>3. CASE RefillByScript
    <3>1. Trigger \/ (LoseFill /\ UNCHANGED filling)
      BY <2>3 DEF RefillByScript
    <3>2. CASE Trigger
      BY <3>2 DEF Trigger, FInv, Sane, FillingInv
    <3>3. CASE LoseFill /\ UNCHANGED filling
      BY <3>3 DEF LoseFill, FillingInv
    <3>4. QED
      BY <3>1, <3>2, <3>3
  <2>4. CASE JukeboxCreated \/ JukeboxError
    BY <2>4 DEF JukeboxCreated, JukeboxError, SetFilling, FillingInv
  <2>5. QED
    BY <2>1, <2>2, <2>3, <2>4
<1>7. QED
  BY <1>4, <1>5, <1>6

LEMMA FlagsStarted == ASSUME FInv, StartWorker PROVE Sane' /\ BuildingInv' /\ FillingInv'
<1> PICK w : w = CHOOSE v \in Workers : worker[v].at = "none"
  OBVIOUS
<1>1. /\ Handle /\ Req.cmd \in Requests /\ worker' = [worker EXCEPT ![w] = Copied]
      /\ UNCHANGED <<parts, filling, scripts, lostBuild, lostFill, released>>
      /\ \E v \in Workers : worker[v].at = "none"
      /\ IF Req.cmd = "caches" THEN building' = tags /\ ~building ELSE building' = building
  BY DEF StartWorker, Accepts, ToWorker, history
<1>2. w \in Workers /\ worker[w].at = "none"
  BY <1>1
<1>3. worker'[w] = Copied /\ \A v \in Workers : v # w => worker'[v] = worker[v]
  BY <1>1, <1>2 DEF FInv, IInv, Typed
<1>4. /\ Req \in Messages /\ GoodMessage(Req)
      /\ \A i \in DOMAIN queue' : GoodMessage(queue'[i])
      /\ ~IsReport(Req) => (Reported' <=> Reported)
      /\ OneReport => OneReport'
      /\ Req.cmd \notin Refills => (Queued(Refills)' <=> Queued(Refills))
  BY <1>1, FlagPop
<1>5. /\ Copied.at = "created" /\ Copied.cmd = Req.cmd /\ Copied.part = Req.part
      /\ Copied.tags <=> tags /\ Req.cmd = "caches"
  BY Zenon DEF Copied
<1>6. ~Builder(w) /\ ~Filler(w)
  BY <1>2 DEF Builder, Filler
<1>7. Builder(w)' <=> tags /\ Req.cmd = "caches"
  BY <1>3, <1>5 DEF Builder
<1>8. Filler(w)' <=> Req.cmd \in {"refill", "refill_add"}
  BY <1>3, <1>5 DEF Filler
<1>9. \A v \in Workers : v # w => (Builder(v)' <=> Builder(v)) /\ (Filler(v)' <=> Filler(v))
  BY <1>3 DEF Builder, Filler
<1>10. GoodWork(Copied)
  BY <1>1, <1>4, <1>5 DEF GoodWork, GoodMessage, Requests, CacheResults
<1>11. Sane'
  BY <1>1, <1>3, <1>4, <1>10 DEF FInv, Sane
<1>12. ~IsReport(Req)
  BY <1>1 DEF IsReport, Requests, CacheResults
<1>13. BuildingInv'
  <2>1. CASE Req.cmd = "caches"
    BY <1>1, <1>2, <1>4, <1>7, <1>9, <1>12, <2>1 DEF FInv, BuildingInv
  <2>2. CASE Req.cmd # "caches"
    BY <1>1, <1>2, <1>4, <1>6, <1>7, <1>9, <1>12, <2>2 DEF FInv, BuildingInv
  <2>3. QED
    BY <2>1, <2>2
<1>14. FillingInv'
  <2>1. CASE Req.cmd \in Refills
    <3>1. Filler(w)'
      BY <1>1, <1>8, <2>1 DEF Refills, Requests
    <3>2. QED
      BY <1>2, <3>1 DEF FillingInv
  <2>2. CASE Req.cmd \notin Refills
    BY <1>1, <1>4, <1>6, <1>9, <2>2 DEF FInv, FillingInv
  <2>3. QED
    BY <2>1, <2>2
<1>15. QED
  BY <1>11, <1>13, <1>14

-----------------------------------------------------------------------------
\* worker w moves on, and may send a message; a build becomes its report
LEMMA FlagsMove ==
  ASSUME FInv, NEW w \in Workers, \A v \in Workers : v # w => worker'[v] = worker[v],
         GoodWork(worker'[w]), UNCHANGED <<building, released, lostBuild, parts, scripts>>,
         \/ queue' = queue /\ (Builder(w)' <=> Builder(w))
         \/ \E m \in Messages : /\ GoodMessage(m) /\ queue' = Append(queue, m)
                                /\ IsReport(m) => Builder(w)
                                /\ Builder(w)' <=> Builder(w) /\ ~IsReport(m)
  PROVE  Sane' /\ BuildingInv'
<1>1. \A v \in Workers : v # w => (Builder(v)' <=> Builder(v))
  BY DEF Builder
<1>2. CASE queue' = queue /\ (Builder(w)' <=> Builder(w))
  <2>1. (Reported' <=> Reported) /\ (OneReport' <=> OneReport) /\ \A i \in DOMAIN queue' : GoodMessage(queue'[i])
    BY <1>2 DEF Reported, OneReport, FInv, Sane
  <2>2. QED
    BY <1>1, <1>2, <2>1 DEF FInv, Sane, BuildingInv
<1>3. ASSUME NEW m \in Messages, GoodMessage(m), queue' = Append(queue, m), IsReport(m) => Builder(w),
             Builder(w)' <=> Builder(w) /\ ~IsReport(m)
      PROVE  Sane' /\ BuildingInv'
  <2>1. /\ \A i \in DOMAIN queue' : GoodMessage(queue'[i])
        /\ Reported' <=> Reported \/ IsReport(m)
        /\ OneReport /\ ~(Reported /\ IsReport(m)) => OneReport'
    BY <1>3, FlagPush
  <2>2. Sane'
    BY <2>1 DEF FInv, Sane
  <2>3. CASE IsReport(m)
    BY <1>1, <1>3, <2>1, <2>2, <2>3 DEF FInv, BuildingInv
  <2>4. CASE ~IsReport(m)
    BY <1>1, <1>3, <2>1, <2>2, <2>4 DEF FInv, BuildingInv
  <2>5. QED
    BY <2>2, <2>3, <2>4
<1>4. QED
  BY <1>2, <1>3

LEMMA FillsMove ==
  ASSUME FInv, NEW w \in Workers, \A v \in Workers : v # w => worker'[v] = worker[v],
         UNCHANGED <<filling, scripts>>, lostFill' \in {lostFill, filling},
         queue' = queue \/ \E m \in Messages : GoodMessage(m) /\ queue' = Append(queue, m),
         Filler(w) => Filler(w)' \/ lostFill' = filling \/ Queued(Refills)'
  PROVE  FillingInv'
<1>1. Queued(Refills) => Queued(Refills)'
  BY FlagPush DEF Queued
<1>2. \A v \in Workers : v # w => (Filler(v)' <=> Filler(v))
  BY DEF Filler
<1>3. QED
  BY <1>1, <1>2 DEF FInv, FillingInv

LEMMA AnswerGood ==
  ASSUME FInv, NEW w \in Workers, NEW r \in Results \ {"cache created"}, Answer(w, r),
         r \in CacheResults <=> worker[w].cmd = "caches"
  PROVE  \E m \in Messages : /\ m.cmd = r /\ GoodMessage(m) /\ queue' = Append(queue, m)
                             /\ m.stray <=> worker[w].cmd = "caches" /\ ~worker[w].tags
<1>1. worker[w].part \in Partitions
  BY DEF FInv, IInv, Typed, Works
<1>2. (worker[w].cmd = "caches" /\ ~worker[w].tags) \in BOOLEAN
  OBVIOUS
<1>3. PICK b \in BOOLEAN : b <=> worker[w].cmd = "caches" /\ ~worker[w].tags
  BY <1>2
<1>4. queue' = Append(queue, Message(r, worker[w].part, None, b))
  BY <1>3, Zenon DEF Answer
<1>5. /\ Message(r, worker[w].part, None, b) \in Messages
      /\ Message(r, worker[w].part, None, b).cmd = r
      /\ Message(r, worker[w].part, None, b).part = worker[w].part
      /\ Message(r, worker[w].part, None, b).stray = b
  BY <1>1, PlainMessage DEF Message
<1>6. GoodMessage(Message(r, worker[w].part, None, b))
  BY <1>5 DEF GoodMessage, FInv, Sane, GoodWork
<1>7. QED
  BY <1>3, <1>4, <1>5, <1>6

LEMMA Stays ==
  ASSUME FInv, NEW w \in Workers, NEW s \in Stages,
         Goto(w, s) \/ \E t \in Trees \cup {None} : worker' = [worker EXCEPT ![w].at = s, ![w].tree = t]
  PROVE  /\ worker'[w].at = s /\ worker'[w].cmd = worker[w].cmd /\ worker'[w].part = worker[w].part
         /\ worker'[w].tags = worker[w].tags
         /\ \A v \in Workers : v # w => worker'[v] = worker[v]
<1>1. worker \in [Workers -> Works]
  BY DEF FInv, IInv, Typed
<1>2. CASE Goto(w, s)
  BY <1>1, <1>2 DEF Goto, Works
<1>3. ASSUME NEW t \in Trees \cup {None}, worker' = [worker EXCEPT ![w].at = s, ![w].tree = t]
      PROVE  /\ worker'[w].at = s /\ worker'[w].cmd = worker[w].cmd /\ worker'[w].part = worker[w].part
             /\ worker'[w].tags = worker[w].tags
             /\ \A v \in Workers : v # w => worker'[v] = worker[v]
  <2>1. \A v \in Workers : v # w => worker'[v] = worker[v]
    BY <1>1, <1>3
  <2>2. worker[w] \in Works
    BY <1>1
  <2>3. worker'[w] = [worker[w] EXCEPT !.at = s, !.tree = t]
    BY <1>1, <1>3
  <2>4. QED
    BY <2>1, <2>2, <2>3 DEF Works
<1>4. QED
  BY <1>2, <1>3

\* w goes to stage s without a message
LEMMA FlagsQuiet ==
  ASSUME FInv, NEW w \in Workers, Connect(w) \/ Build(w) \/ ReadLock(w) \/ Finish(w) \/ End(w)
  PROVE  Sane' /\ BuildingInv' /\ FillingInv'
<1> USE DEF api, flags
<1>1. UNCHANGED <<queue, building, filling, lostBuild, lostFill, released, parts, scripts>>
  BY DEF Connect, Build, ReadLock, Finish, End
<1>2. worker[w] \in Works /\ GoodWork(worker[w]) /\ cache \in Trees \cup {None}
  BY DEF FInv, IInv, Typed, Sane
<1>3. /\ \A v \in Workers : v # w => worker'[v] = worker[v]
      /\ GoodWork(worker'[w]) /\ (Builder(w)' <=> Builder(w)) /\ (Filler(w) => Filler(w)')
  <2>1. CASE Connect(w)
    <3>1. worker[w].at = "created" /\ Goto(w, "run")
      BY <2>1 DEF Connect, At
    <3>2. QED
      BY <1>2, <3>1, Stays DEF Stages, GoodWork, Builder, Filler
  <2>2. CASE Build(w)
    <3>1. worker[w].at = "run" /\ worker[w].cmd = "caches" /\ worker[w].tags
      BY <2>2 DEF Build, At
    <3>2. \E t \in Trees \cup {None} : worker' = [worker EXCEPT ![w].at = "build", ![w].tree = t]
      BY <2>2 DEF Build
    <3>3. QED
      BY <1>2, <3>1, <3>2, Stays DEF Stages, GoodWork, Builder, Filler
  <2>3. CASE ReadLock(w)
    <3>1. worker[w].at = "run" /\ worker[w].cmd # "caches"
      BY <2>3 DEF ReadLock, At, IsRefill
    <3>2. worker' = [worker EXCEPT ![w].at = "read", ![w].tree = cache]
      BY <2>3 DEF ReadLock
    <3>3. QED
      BY <1>2, <3>1, <3>2, Stays DEF Stages, GoodWork, Builder, Filler
  <2>4. CASE Finish(w)
    <3>1. worker[w].at = "write" \/ (worker[w].at = "run" /\ worker[w].cmd = "refill_add bad")
      BY <2>4 DEF Finish, At
    <3>2. worker' = [worker EXCEPT ![w].at = "end", ![w].tree = None]
      BY <2>4 DEF Finish
    <3>3. QED
      BY <1>2, <3>1, <3>2, Stays DEF Stages, GoodWork, Builder, Filler
  <2>5. CASE End(w)
    <3>1. worker[w].at = "end" /\ worker' = [worker EXCEPT ![w] = Idle]
      BY <2>5 DEF End, At
    <3>2. /\ worker'[w].at = "none" /\ worker'[w].part = Default
          /\ \A v \in Workers : v # w => worker'[v] = worker[v]
      BY <3>1 DEF FInv, IInv, Typed, Idle
    <3>3. QED
      BY <3>1, <3>2 DEF GoodWork, Builder, Filler
  <2>6. QED
    BY <2>1, <2>2, <2>3, <2>4, <2>5
<1>4. Sane' /\ BuildingInv'
  BY <1>1, <1>3, FlagsMove
<1>5. FillingInv'
  BY <1>1, <1>3, FillsMove
<1>6. QED
  BY <1>4, <1>5

\* the end of a build, or of a worker that should build
LEMMA FlagsBuilt ==
  ASSUME FInv, NEW w \in Workers, ConnectFails(w) \/ SkipBuild(w) \/ Built(w)
  PROVE  Sane' /\ BuildingInv' /\ FillingInv'
<1> USE DEF api, flags
<1>1. UNCHANGED <<building, filling, lostBuild, released, parts, scripts>>
  BY DEF ConnectFails, SkipBuild, Built
<1>2. worker[w] \in Works /\ GoodWork(worker[w])
  BY DEF FInv, IInv, Typed, Sane
<1>3. PICK s \in {"end", "write"} :
        Goto(w, s) \/ \E t \in Trees \cup {None} : worker' = [worker EXCEPT ![w].at = s, ![w].tree = t]
  BY DEF ConnectFails, SkipBuild, Built
<1>4. /\ worker'[w].at = s /\ worker'[w].cmd = worker[w].cmd /\ worker'[w].part = worker[w].part
      /\ worker'[w].tags = worker[w].tags
      /\ \A v \in Workers : v # w => worker'[v] = worker[v]
  <2>1. s \in Stages
    BY DEF Stages
  <2>2. QED
    BY <1>3, <2>1, Stays, Zenon
<1>5. GoodWork(worker'[w]) /\ ~Builder(w)'
  BY <1>2, <1>4 DEF GoodWork, Builder
<1>6. worker[w].at = "build" => worker[w].cmd = "caches" /\ worker[w].tags
  BY <1>2 DEF GoodWork
<1>7. \/ queue' = queue /\ ~Builder(w)
      \/ \E m \in Messages : /\ GoodMessage(m) /\ queue' = Append(queue, m)
                             /\ IsReport(m) <=> Builder(w)
  <2>1. ASSUME NEW r \in {"cache error", "cache skipped"}, Answer(w, r), worker[w].cmd = "caches",
               worker[w].at \in {"created", "run", "build"}
        PROVE  \E m \in Messages : /\ GoodMessage(m) /\ queue' = Append(queue, m)
                                   /\ IsReport(m) <=> Builder(w)
    <3>1. PICK m \in Messages : /\ m.cmd = r /\ GoodMessage(m) /\ queue' = Append(queue, m)
                                /\ m.stray <=> worker[w].cmd = "caches" /\ ~worker[w].tags
      BY <2>1, AnswerGood DEF Results, CacheResults
    <3>2. m.cmd \in CacheResults
      BY <3>1 DEF CacheResults
    <3>3. IsReport(m) <=> Builder(w)
      BY <2>1, <3>1, <3>2, Zenon DEF IsReport, Builder
    <3>4. GoodMessage(m) /\ queue' = Append(queue, m)
      BY <3>1
    <3>5. QED
      BY <3>3, <3>4, Zenon
  <2>2. CASE ConnectFails(w)
    <3>1. CASE worker[w].cmd = "caches"
      BY <2>1, <2>2, <3>1 DEF ConnectFails, At
    <3>2. CASE worker[w].cmd # "caches"
      BY <2>2, <3>2 DEF ConnectFails, Builder
    <3>3. QED
      BY <3>1, <3>2
  <2>3. CASE SkipBuild(w)
    <3>1. worker[w].cmd = "caches" /\ worker[w].at = "run"
      BY <2>3 DEF SkipBuild, At
    <3>2. Answer(w, "cache skipped") \/ (~worker[w].tags /\ queue' = queue)
      BY <2>3 DEF SkipBuild
    <3>3. QED
      BY <2>1, <3>1, <3>2 DEF Builder
  <2>4. CASE Built(w)
    <3>1. worker[w].cmd = "caches" /\ worker[w].at = "build" /\ Builder(w)
      BY <1>6, <2>4 DEF Built, At, Builder
    <3>2. CASE Answer(w, "cache error")
      BY <2>1, <3>1, <3>2
    <3>3. CASE Push("cache created", worker[w].part, worker[w].tree)
      <4> DEFINE m == Message("cache created", worker[w].part, worker[w].tree, FALSE)
      <4>1. m \in Messages /\ GoodMessage(m) /\ IsReport(m)
        BY <1>2 DEF Message, Messages, Works, Results, GoodMessage, IsReport, CacheResults
      <4>2. queue' = Append(queue, m)
        BY <3>3 DEF Push
      <4>3. QED
        BY <3>1, <4>1, <4>2
    <3>4. QED
      BY <2>4, <3>2, <3>3 DEF Built
  <2>5. QED
    BY <2>2, <2>3, <2>4
<1>8. Sane' /\ BuildingInv'
  BY <1>1, <1>4, <1>5, <1>7, FlagsMove
<1>9. lostFill' \in {lostFill, filling} /\ (Filler(w) => lostFill' = filling)
  BY <1>6 DEF ConnectFails, SkipBuild, Built, LoseFill, IsRefill, Filler, At
<1>10. FillingInv'
  BY <1>1, <1>4, <1>7, <1>9, FillsMove
<1>11. QED
  BY <1>8, <1>10

LEMMA FlagsSwitch == ASSUME FInv, NEW w \in Workers, SwitchFails(w)
                     PROVE  Sane' /\ BuildingInv' /\ FillingInv'
<1>1. /\ UNCHANGED <<queue, building, filling, lostFill, released, parts, scripts>>
      /\ worker[w].part # Default /\ Goto(w, "end")
      /\ lostBuild' = (lostBuild \/ (building /\ worker[w].cmd = "caches"))
  BY DEF SwitchFails, api, flags
<1>2. GoodWork(worker[w]) /\ worker[w].cmd = "caches"
  BY <1>1 DEF FInv, Sane, GoodWork
<1>3. /\ worker'[w].at = "end" /\ worker'[w].cmd = worker[w].cmd
      /\ \A v \in Workers : v # w => worker'[v] = worker[v]
  BY <1>1, Stays DEF Stages
<1>4. GoodWork(worker'[w]) /\ ~Builder(w)' /\ ~Filler(w)
  BY <1>2, <1>3 DEF GoodWork, Builder, Filler
<1>5. \A v \in Workers : v # w => (Builder(v)' <=> Builder(v))
  BY <1>3 DEF Builder
<1>6. (Reported' <=> Reported) /\ (OneReport' <=> OneReport) /\ \A i \in DOMAIN queue' : GoodMessage(queue'[i])
  BY <1>1 DEF Reported, OneReport, FInv, Sane
<1>7. building => lostBuild'
  BY <1>1, <1>2
<1>8. BuildingInv'
  BY <1>1, <1>4, <1>5, <1>6, <1>7 DEF FInv, BuildingInv
<1>9. FillingInv'
  BY <1>1, <1>3, <1>4, FillsMove
<1>10. QED
  BY <1>1, <1>3, <1>4, <1>6, <1>8, <1>9 DEF FInv, Sane

\* the steps of a refill
LEMMA FlagsFilled ==
  ASSUME FInv, NEW w \in Workers, Read(w) \/ FillSongs(w) \/ AddToQueue(w)
  PROVE  Sane' /\ BuildingInv' /\ FillingInv'
<1> USE DEF api, flags
<1>1. UNCHANGED <<building, filling, lostBuild, lostFill, released, parts, scripts>>
  BY DEF Read, FillSongs, AddToQueue
<1>2. worker[w] \in Works /\ GoodWork(worker[w])
  BY DEF FInv, IInv, Typed, Sane
<1>3. ~Builder(w)
  <2>1. worker[w].at \in {"read", "add"} \/ worker[w].cmd # "caches"
    BY DEF Read, FillSongs, AddToQueue, At
  <2>2. QED
    BY <2>1 DEF Builder
<1>4. PICK s \in {"add", "end"} :
        /\ Goto(w, s) \/ worker' = [worker EXCEPT ![w].at = s, ![w].tree = None]
        /\ s = "add" => worker[w].cmd = "refill_add" /\ worker[w].at # "none" /\ queue' = queue
        /\ s = "end" => \/ \E r \in {"jukebox created", "jukebox error"} :
                             Answer(w, r) /\ worker[w].cmd # "caches"
                        \/ queue' = queue /\ ~IsRefill(w)
  <2>1. ASSUME Fill(w, "add"), worker[w].at # "none"
        PROVE  \E s \in {"add", "end"} :
                 /\ worker' = [worker EXCEPT ![w].at = s, ![w].tree = None]
                 /\ s = "add" => worker[w].cmd = "refill_add" /\ worker[w].at # "none" /\ queue' = queue
                 /\ s = "end" => \/ Answer(w, "jukebox created") /\ worker[w].cmd # "caches"
                                 \/ queue' = queue /\ ~IsRefill(w)
    <3>1. CASE worker[w].cmd = "refill_add"
      BY <2>1, <3>1 DEF Fill
    <3>2. CASE worker[w].cmd # "refill_add"
      BY <2>1, <3>2 DEF Fill, IsRefill
    <3>3. QED
      BY <3>1, <3>2
  <2>2. CASE Read(w)
    BY <2>1, <2>2 DEF Read, IsRefill, At
  <2>3. CASE FillSongs(w)
    BY <2>1, <2>3 DEF FillSongs, IsRefill, At
  <2>4. CASE AddToQueue(w)
    BY <1>2, <2>4 DEF AddToQueue, At, GoodWork
  <2>5. QED
    BY <2>2, <2>3, <2>4
<1>5. /\ worker'[w].at = s /\ worker'[w].cmd = worker[w].cmd /\ worker'[w].part = worker[w].part
      /\ \A v \in Workers : v # w => worker'[v] = worker[v]
  <2>1. s \in Stages /\ (Goto(w, s) \/ \E t \in Trees \cup {None} : worker' = [worker EXCEPT ![w].at = s, ![w].tree = t])
    BY <1>4 DEF Stages
  <2>2. QED
    BY <2>1, Stays, Zenon
<1>6. GoodWork(worker'[w]) /\ ~Builder(w)'
  BY <1>2, <1>4, <1>5 DEF GoodWork, Builder
<1>7. \/ queue' = queue /\ (s = "add" \/ ~IsRefill(w))
      \/ \E m \in Messages : /\ GoodMessage(m) /\ queue' = Append(queue, m) /\ ~IsReport(m)
                             /\ m.cmd \in Refills
  <2>1. ASSUME NEW r \in {"jukebox created", "jukebox error"}, Answer(w, r), worker[w].cmd # "caches"
        PROVE  \E m \in Messages : /\ GoodMessage(m) /\ queue' = Append(queue, m) /\ ~IsReport(m)
                                   /\ m.cmd \in Refills
    <3>1. \E m \in Messages : m.cmd = r /\ GoodMessage(m) /\ queue' = Append(queue, m)
      BY <2>1, AnswerGood DEF Results, CacheResults
    <3>2. QED
      BY <3>1 DEF IsReport, CacheResults, Refills
  <2>2. QED
    BY <1>4, <2>1
<1>8. Sane' /\ BuildingInv'
  BY <1>1, <1>3, <1>5, <1>6, <1>7, FlagsMove
<1>9. Filler(w) => Filler(w)' \/ Queued(Refills)'
  <2>1. CASE queue' = queue /\ (s = "add" \/ ~IsRefill(w))
    BY <1>5, <2>1 DEF Filler, IsRefill
  <2>2. CASE \E m \in Messages : GoodMessage(m) /\ queue' = Append(queue, m) /\ m.cmd \in Refills
    BY <2>2, FlagPush
  <2>3. QED
    BY <1>7, <2>1, <2>2
<1>10. FillingInv'
  BY <1>1, <1>5, <1>7, <1>9, FillsMove
<1>11. QED
  BY <1>8, <1>10

-----------------------------------------------------------------------------
LEMMA FInvInit == ASSUME Init PROVE FInv
<1>1. /\ queue = <<>> /\ ~building /\ ~filling /\ ~released /\ scripts = 0 /\ parts = Partitions
      /\ worker = [w \in Workers |-> Idle]
  BY DEF Init
<1>2. Idle.at = "none" /\ Idle.part = Default
  BY DEF Idle
<1>3. Sane
  BY <1>1, <1>2 DEF Sane, Partitions, GoodWork
<1>4. BuildingInv /\ FillingInv
  BY <1>1, <1>2 DEF BuildingInv, FillingInv, Reported, OneReport, Builder
<1>5. QED
  BY <1>3, <1>4, IInvInit DEF FInv

LEMMA FInvStep == ASSUME FInv, [Next]_vars PROVE FInv'
<1>1. IInv'
  BY IInvStep DEF FInv
<1>2. CASE Request \/ Environment \/ RunJukebox \/ SetMode \/ Script
  BY <1>1, <1>2, FlagsOutside DEF FInv
<1>3. CASE Replace \/ UNCHANGED vars
  <2>1. UNCHANGED <<queue, worker, building, filling, lostBuild, lostFill, released, parts, scripts>>
    BY <1>3 DEF Replace, vars, flags, history
  <2>2. Sane'
    BY <2>1 DEF FInv, Sane
  <2>3. BuildingInv'
    BY <2>1 DEF FInv, BuildingInv, Reported, OneReport, Builder
  <2>4. FillingInv'
    BY <2>1 DEF FInv, FillingInv, Queued, Filler
  <2>5. QED
    BY <1>1, <2>2, <2>3, <2>4 DEF FInv
<1>4. CASE Api /\ ~Replace
  BY <1>1, <1>4, FlagsHandled, FlagsStarted DEF FInv, Api
<1>5. ASSUME NEW w \in Workers, Worker(w) PROVE FInv'
  BY <1>1, <1>5, FlagsQuiet, FlagsBuilt, FlagsSwitch, FlagsFilled DEF FInv, Worker
<1>6. QED
  BY <1>2, <1>3, <1>4, <1>5 DEF Next

(* building and filling tell the truth: what is set will be reset by work   *)
(* that is on its way, except after the losses the model names, and no two  *)
(* workers build the cache at once, except after a reset by another one.    *)
THEOREM FlagsTellTheTruth == Spec => []FlagsTrue
<1>1. Init => FInv
  BY FInvInit
<1>2. FInv /\ [Next]_vars => FInv'
  BY FInvStep
<1>3. FInv => FlagsTrue
  BY FlagsSound
<1>4. QED
  BY <1>1, <1>2, <1>3, PTL DEF Spec
=============================================================================
