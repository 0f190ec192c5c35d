-------------------------------- MODULE Sessions --------------------------------
(***************************************************************************)
(* The sessions of the webserver thread, if a pin is set                   *)
(* (webserver/sessions.c, request_handler.c).  A list in the order of the  *)
(* creation, each entry with the time at which it ends.  Entries that      *)
(* ended are removed when a walk through the list meets them: a walk that  *)
(* looks for a session stops at it.                                        *)
(***************************************************************************)
EXTENDS Naturals, Sequences, SequencesExt, FiniteSets, Ordered

CONSTANTS
  MaxSessions,     \* HTTP_SESSIONS_MAX
  SessionTimeout,  \* HTTP_SESSION_TIMEOUT
  SessionLogins,   \* bound: how often a browser logs in
  SessionClock     \* bound of the clock

ASSUME SessionAssumption ==
  /\ MaxSessions \in Nat \ {0} /\ SessionTimeout \in Nat
  /\ SessionLogins \in Nat /\ SessionClock \in Nat

VARIABLES
  sessions,   \* session_list: sequence of [id, ends]
  sessionNow,        \* time(NULL)
  used,       \* history: id -> when it was created or used with success last
  revoked,    \* history: ids that were logged out or discarded
  acceptedWith    \* history: the session the last request was accepted with

sessionVars == <<sessions, sessionNow, used, revoked, acceptedWith>>
NoSession   == 0
\* ids are random strings in the code
FreshSession == Len(used) + 1

SessionsInit ==
  /\ sessions = <<>> /\ sessionNow = 0 /\ used = <<>>
  /\ revoked = {} /\ acceptedWith = NoSession

-----------------------------------------------------------------------------
Ended(entry) == entry.ends < sessionNow

\* webserver_session_validate without a session
Running  == {i \in DOMAIN sessions : ~Ended(sessions[i])}
NotEnded == EntriesAt(sessions, Running)

\* mutant: the session that was created last goes
SessionNewDropLast ==
  LET id  == FreshSession
      all == Append(NotEnded, [id |-> id, ends |-> sessionNow + SessionTimeout]) IN
  /\ Cardinality(DOMAIN used) < SessionLogins
  /\ sessions' = IF Len(all) > MaxSessions THEN Front(all) ELSE all
  /\ revoked' = revoked \union IF Len(all) > MaxSessions THEN {all[1].id} ELSE {}
  /\ used' = Append(used, sessionNow)
  /\ acceptedWith' = NoSession /\ UNCHANGED sessionNow

\* MYMPD_API_SESSION_LOGIN with the right pin: the session that was created
\* first goes, if there are too many then
SessionNew ==
  LET id  == FreshSession
      all == Append(NotEnded, [id |-> id, ends |-> sessionNow + SessionTimeout]) IN
  /\ Cardinality(DOMAIN used) < SessionLogins
  /\ sessions' = IF Len(all) > MaxSessions THEN Tail(all) ELSE all
  /\ revoked' = revoked \union IF Len(all) > MaxSessions THEN {all[1].id} ELSE {}
  /\ used' = Append(used, sessionNow)
  /\ acceptedWith' = NoSession /\ UNCHANGED sessionNow

\* mutant: the id is compared before the time
ValidatedLate(id) ==
  LET found == {i \in DOMAIN sessions : sessions[i].id = id}
      entry == [id |-> id, ends |-> sessionNow + SessionTimeout] IN
  IF found = {} THEN [ok |-> FALSE, list |-> NotEnded]
  ELSE LET at == CHOOSE i \in found : \A j \in found : i <= j IN
       [ok |-> TRUE, list |-> EntriesAt([sessions EXCEPT ![at] = entry],
                                        Running \union {j \in DOMAIN sessions : j >= at})]

\* webserver_session_validate: entries that ended are removed up to the one
\* found, which is extended, or all of them if it is not found
Validated(id) ==
  LET found == {i \in Running : sessions[i].id = id}
      entry == [id |-> id, ends |-> sessionNow + SessionTimeout] IN
  IF found = {} THEN [ok |-> FALSE, list |-> NotEnded]
  ELSE LET at == CHOOSE i \in found : \A j \in found : i <= j IN
       [ok |-> TRUE, list |-> EntriesAt([sessions EXCEPT ![at] = entry],
                                        Running \union {j \in DOMAIN sessions : j >= at})]

SessionAccept(id, ok) ==
  /\ acceptedWith' = IF ok THEN id ELSE NoSession
  /\ used' = IF ok THEN [used EXCEPT ![id] = sessionNow] ELSE used

\* a call of a protected method
SessionUse(id) ==
  /\ sessions' = Validated(id).list
  /\ SessionAccept(id, Validated(id).ok)
  /\ UNCHANGED <<sessionNow, revoked>>

\* MYMPD_API_SESSION_LOGOUT is protected itself, and removes its own session
SessionLogout(id) ==
  /\ LET left == Validated(id).list IN
     sessions' = IF Validated(id).ok THEN EntriesAt(left, {i \in DOMAIN left : left[i].id # id}) ELSE left
  /\ revoked' = IF Validated(id).ok THEN revoked \union {id} ELSE revoked
  /\ acceptedWith' = NoSession /\ UNCHANGED <<sessionNow, used>>

SessionTick == sessionNow < SessionClock /\ sessionNow' = sessionNow + 1 /\ acceptedWith' = NoSession
               /\ UNCHANGED <<sessions, used, revoked>>

SessionsNext ==
  \/ SessionNew \/ SessionTick
  \/ \E id \in DOMAIN used : SessionUse(id) \/ SessionLogout(id)

SessionsSpec == SessionsInit /\ [][SessionsNext]_sessionVars

-----------------------------------------------------------------------------
\* A session is in the list and not ended exactly as long as it should be: from
\* its login until it was not used for the timeout, was logged out, or made
\* room for others, though entries that ended stay in the list for a while.
Alive(id) == id \notin revoked /\ sessionNow <= used[id] + SessionTimeout

SessionsOK ==
  /\ \A id \in DOMAIN used :
       Alive(id) <=> \E i \in DOMAIN sessions : sessions[i].id = id /\ ~Ended(sessions[i])
  /\ Len(sessions) <= MaxSessions

\* A call is accepted with a session that is alive, never with one that ended
\* and is still in the list; and a login discards a session that is alive only
\* while the browsers have all the sessions there may be.
SessionSteps ==
  [][/\ acceptedWith' # NoSession => Alive(acceptedWith')
     /\ Len(used') > Len(used) =>
          \A id \in revoked' : Alive(id) =>
            Cardinality({s \in DOMAIN used : Alive(s)}) = MaxSessions]_sessionVars

\* A session lasts as long as it should, no longer and no shorter.
SessionsKept == []SessionsOK /\ SessionSteps
=============================================================================
