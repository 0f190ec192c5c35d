---------------------------- MODULE RandomSelect ----------------------------
(***************************************************************************)
(* The random selection for the jukebox and for adding random songs        *)
(* (mympd_client/random_select.c): a list that may have entries already is *)
(* filled up to an expected length with entries drawn from the songs of    *)
(* the database or of a playlist, or from the album cache, which are read  *)
(* once and in pages.  A candidate is drawn only if it meets the           *)
(* constraints and if neither it nor its tag is in the queue, among the    *)
(* last played or already in the list.                                     *)
(***************************************************************************)
EXTENDS Integers, Sequences, FiniteSets, SequencesExt

CONSTANTS
  RandomWorlds,   \* what a selection starts from: records of candidates (sequence of keys),
                  \* fit (keys that meet the constraints), queued (keys), uniq (queued is used), have (list),
                  \* want (expected length), pages (MPD sends pages)
  RandomTag,      \* key -> value of the uniq tag
  RandomPage      \* MPD_RESULTS_MAX

RandomKeys == DOMAIN RandomTag

ASSUME RandomAssumption ==
  /\ RandomPage \in Nat \ {0}
  /\ \A w \in RandomWorlds :
       /\ w.candidates \in Seq(RandomKeys) /\ w.have \in Seq(RandomKeys) /\ w.want \in Nat
       /\ w.uniq \in BOOLEAN /\ w.pages \in BOOLEAN

VARIABLES
  world,          \* the world of this selection
  picked,         \* add_list
  lineno, skipno, \* candidates that fit and that do not, as the code counts them
  pageStart,           \* first candidate of the page that is read ("start")
  nextPage,       \* what is left of that page
  randomAt        \* "idle", "read", "done" or "failed"

randomVars == <<world, picked, lineno, skipno, pageStart, nextPage, randomAt>>

RandomInit ==
  /\ world = [candidates |-> <<>>, fit |-> {}, queued |-> {}, uniq |-> FALSE, have |-> <<>>, want |-> 0,
              pages |-> FALSE]
  /\ picked = <<>> /\ lineno = 1 /\ skipno = 0 /\ pageStart = 0 /\ nextPage = <<>> /\ randomAt = "idle"

\* a window of MPD; without pages it sends everything
Window(w, start) ==
  IF w.pages THEN SubSeq(w.candidates, start + 1,
                         IF start + RandomPage < Len(w.candidates) THEN start + RandomPage ELSE Len(w.candidates))
  ELSE w.candidates

RandomStart ==
  /\ randomAt = "idle"
  /\ \E w \in RandomWorlds :
       /\ world' = w /\ picked' = w.have
       /\ IF Len(w.have) >= w.want THEN randomAt' = "done" /\ nextPage' = <<>>
          ELSE randomAt' = "read" /\ nextPage' = Window(w, 0)
  /\ UNCHANGED <<lineno, skipno, pageStart>>

-----------------------------------------------------------------------------
(* Candidates                                                              *)

\* mutant: only the queue is looked at
UniqueInQueue(key) == ~world.uniq \/ \A k \in world.queued : k # key /\ RandomTag[k] # RandomTag[key]

\* check_uniq_tag; without a list of the queue everything is unique
Unique(key) ==
  ~world.uniq \/ \A k \in world.queued \union ToSet(picked) : k # key /\ RandomTag[k] # RandomTag[key]

Draws == world.want - Len(world.have)

\* mutant: the random position counts from the head of the list
TakenFromHead(key) ==
  \/ lineno > Draws /\ picked' = picked
  \/ Len(picked) < world.want /\ picked' = Append(picked, key)
  \/ Len(picked) >= world.want /\ \E i \in 1..Draws : picked' = [picked EXCEPT ![i] = key]

\* randrange(0, lineno) < add_songs always holds for the first candidates; the
\* list is filled first, then a random one of the new entries is replaced
Taken(key) ==
  \/ lineno > Draws /\ picked' = picked
  \/ Len(picked) < world.want /\ picked' = Append(picked, key)
  \/ Len(picked) >= world.want /\ \E i \in 1..Draws : picked' = [picked EXCEPT ![Len(world.have) + i] = key]

Consider ==
  /\ randomAt = "read" /\ nextPage # <<>> /\ nextPage' = Tail(nextPage)
  /\ LET key == Head(nextPage) IN
     IF key \in world.fit /\ Unique(key)
     THEN Taken(key) /\ lineno' = lineno + 1 /\ UNCHANGED skipno
     ELSE skipno' = skipno + 1 /\ UNCHANGED <<picked, lineno>>
  /\ UNCHANGED <<world, pageStart, randomAt>>

-----------------------------------------------------------------------------
(* Pages                                                                   *)

\* mutant: the candidates that do not fit are not counted
NextPageFitting ==
  /\ randomAt = "read" /\ nextPage = <<>> /\ pageStart' = pageStart + RandomPage
  /\ IF world.pages /\ lineno > pageStart' THEN randomAt' = "read" /\ nextPage' = Window(world, pageStart')
     ELSE randomAt' = "done" /\ UNCHANGED nextPage
  /\ UNCHANGED <<world, picked, lineno, skipno>>

\* there may be another page as long as the last one was full
NextPageOf ==
  /\ randomAt = "read" /\ nextPage = <<>> /\ pageStart' = pageStart + RandomPage
  /\ IF world.pages /\ lineno + skipno > pageStart' THEN randomAt' = "read" /\ nextPage' = Window(world, pageStart')
     ELSE randomAt' = "done" /\ UNCHANGED nextPage
  /\ UNCHANGED <<world, picked, lineno, skipno>>

\* MPD answers with an error after any candidate, what was drawn is kept
PageFailed ==
  /\ randomAt = "read" /\ randomAt' = "failed"
  /\ UNCHANGED <<world, picked, lineno, skipno, pageStart, nextPage>>

\* the caller uses the list or, when it is too short, reports an error
\* (mympd_worker_jukebox_queue_fill, mympd_worker_add_random_to_queue)
RandomUsed == randomAt \in {"done", "failed"} /\ randomAt' = "idle"
              /\ picked' = <<>> /\ lineno' = 1 /\ skipno' = 0 /\ pageStart' = 0 /\ nextPage' = <<>>
              /\ world' = [world EXCEPT !.candidates = <<>>, !.fit = {}, !.queued = {}, !.uniq = FALSE,
                                        !.have = <<>>, !.want = 0, !.pages = FALSE]

RandomNext == RandomStart \/ Consider \/ NextPageOf \/ PageFailed \/ RandomUsed

RandomSpec == RandomInit /\ [][RandomNext]_randomVars

-----------------------------------------------------------------------------
(* Properties                                                              *)

\* Nothing is drawn that does not fit, that is queued or that shares its key or tag
\* with another entry; the entries the list had before stay where they are
\* (check_uniq_tag, "existing entries should not be touched").
SelectionUnique ==
  randomAt # "idle" =>
    LET old == Len(world.have) IN
    /\ SubSeq(picked, 1, old) = world.have
    /\ \A i \in old + 1 .. Len(picked) :
         /\ picked[i] \in world.fit
         /\ world.uniq => /\ \A k \in world.queued : k # picked[i] /\ RandomTag[k] # RandomTag[picked[i]]
                          /\ \A j \in 1 .. i - 1 : RandomTag[picked[j]] # RandomTag[picked[i]]

\* The list is too short, which the callers take for a failure, only when there is
\* no further candidate that could have been drawn (the jukebox would be told that
\* it cannot be filled, mympd_worker/jukebox.c).
SelectionFull ==
  randomAt = "done" /\ Len(picked) < world.want =>
    \A i \in DOMAIN world.candidates :
      LET key == world.candidates[i] IN
      key \in ToSet(picked) \/ key \notin world.fit \/ ~Unique(key)

\* The random selection has what it should have, no more and no less.
SelectionOK == SelectionUnique /\ SelectionFull
=============================================================================
