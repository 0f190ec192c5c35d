------------------------------ MODULE Webserver ------------------------------
(***************************************************************************)
(* The webserver thread: HTTP connections of browsers (frontend), their    *)
(* requests and responses, websockets, and the connections the proxy makes *)
(* to other servers (backend).                                             *)
(*                                                                         *)
(* A browser may send a request before the last one is answered; mongoose  *)
(* hands it over only when is_resp is cleared.  Requests are forwarded to  *)
(* the api and the scripts thread under the id of their connection, which  *)
(* may be closed when the response comes.  A ticket is the number of a     *)
(* request on its connection; the browser takes the k-th response for that *)
(* to its k-th request.                                                    *)
(***************************************************************************)
EXTENDS Integers, Sequences, SequencesExt, FiniteSets

CONSTANTS
  Fronts,       \* ids of browsers' connections; mongoose counts them up
  Backs,        \* connections of the proxy
  Null,
  MaxRequests,  \* bound: requests the browsers send in all
  MaxConns      \* HTTP_CONNECTIONS_MAX

ASSUME WebAssumption ==
  /\ Fronts \subseteq Nat /\ IsFiniteSet(Fronts) /\ IsFiniteSet(Backs)
  /\ Null \notin Fronts \union Backs
  /\ MaxRequests \in Nat \ {0} /\ MaxConns \in Nat

Tickets == 1..MaxRequests

VARIABLES
  conn,       \* state of a frontend connection
  busy,       \* is_resp: a response is under way, later requests wait
  close,      \* label 2 is 'C'
  toAsk,      \* requests the browsers may still send
  asked,      \* number of requests received and not yet handled
  handled,    \* number of requests handled
  answers,    \* tickets of the responses written, 0 for one nobody asked for
  backend,    \* frontend_nc_data->backend_nc
  ws,         \* "no", or whether the last ping is "fresh" or "stale"
  back,       \* state of a backend connection
  frontend,   \* backend_nc_data->frontend_nc
  kind,       \* the request a backend connection was made for
  queued,     \* requests in the queues and at work in other threads
  toDeliver,  \* webserver_queue
  started,    \* mympd_api_started
  count,      \* connection_count
  excess,     \* history: connections that got a response too many
  drift,      \* history: backend connections that ended unconnected
  crashed     \* history: a response was sent to the connection NULL

frontVars == <<conn, busy, close, toAsk, asked, handled, answers, ws>>
backVars  == <<backend, back, frontend, kind>>
history   == <<excess, drift, crashed>>
webVars == <<frontVars, backVars, queued, toDeliver, started, count, history>>

Live    == {"open", "draining", "closing"}
\* Who has to answer: the api thread, that thread or the scripts of its
\* triggers, the scripts thread, a first script, a further one, or nobody
ApiRequests == {"api", "image", "bgimage"}
Answering   == ApiRequests \union {"scripts"}
Forward == [front : Fronts, ticket : Tickets,
            to : Answering \union {"script", "second", "nobody"}]

WebTypeOK ==
  /\ conn \in [Fronts -> Live \union {"none", "closed"}]
  /\ back \in [Backs -> {"none", "connecting", "open", "failed", "closing", "closed"}]
  /\ busy \in [Fronts -> BOOLEAN] /\ close \in [Fronts -> BOOLEAN]
  /\ toAsk \in 0..MaxRequests
  /\ asked \in [Fronts -> Nat] /\ handled \in [Fronts -> Nat]
  /\ \A f \in Fronts : handled[f] + asked[f] <= MaxRequests
  /\ answers \in [Fronts -> Seq(0..MaxRequests)]
  /\ backend \in [Fronts -> Backs \union {Null}]
  /\ frontend \in [Backs -> Fronts \union {Null}]
  /\ kind \in [Backs -> [stream : BOOLEAN, ticket : Tickets, told : BOOLEAN] \union {Null}]
  /\ ws \in [Fronts -> {"no", "fresh", "stale"}]
  /\ queued \subseteq Forward /\ toDeliver \subseteq Forward
  /\ started \in BOOLEAN /\ crashed \in BOOLEAN
  /\ count \in Int /\ drift \in Nat /\ excess \subseteq Fronts

WebInit ==
  /\ toAsk = MaxRequests
  /\ conn = [f \in Fronts |-> "none"] /\ back = [b \in Backs |-> "none"]
  /\ busy = [f \in Fronts |-> FALSE] /\ close = [f \in Fronts |-> FALSE]
  /\ asked = [f \in Fronts |-> 0] /\ answers = [f \in Fronts |-> <<>>]
  /\ handled = [f \in Fronts |-> 0] /\ ws = [f \in Fronts |-> "no"]
  /\ backend = [f \in Fronts |-> Null] /\ frontend = [b \in Backs |-> Null]
  /\ kind = [b \in Backs |-> Null]
  /\ queued = {} /\ toDeliver = {} /\ started = FALSE /\ count = 0
  /\ excess = {} /\ drift = 0 /\ crashed = FALSE

-----------------------------------------------------------------------------
(* What the handlers share.                                                *)

\* is_draining: mongoose closes once all is written
Draining(c) == IF c = "closing" THEN c ELSE "draining"

\* webserver_handle_connection_close ends every response
SendKeep(f, tickets, drain) ==
  /\ answers' = IF f \in excess THEN answers ELSE [answers EXCEPT ![f] = @ \o tickets]
  /\ busy' = [busy EXCEPT ![f] = FALSE]
  /\ conn' = [conn EXCEPT ![f] = IF drain THEN Draining(@) ELSE @]

Send(f, tickets, drain) == SendKeep(f, tickets, drain \/ close[f])

\* The next request of f is taken from the buffer: label 2 is set, and the
\* response is under way.
Receive(f) ==
  /\ conn[f] \in {"open", "draining"} /\ ws[f] = "no" /\ ~busy[f]
  /\ asked[f] > 0
  /\ asked' = [asked EXCEPT ![f] = @ - 1] /\ handled' = [handled EXCEPT ![f] = @ + 1]
  /\ UNCHANGED toAsk
  /\ \E last \in BOOLEAN : close' = [close EXCEPT ![f] = last]

Ticket(f) == handled[f] + 1

\* a response to a request that has just been received
Reply(f, tickets, drain) == SendKeep(f, tickets, drain \/ close'[f])

PushRequest(f, to) == queued' = queued \union {[front |-> f, ticket |-> Ticket(f), to |-> to]}

Wait(f) == busy' = [busy EXCEPT ![f] = TRUE] /\ UNCHANGED <<answers, conn>>

-----------------------------------------------------------------------------
(* Connections and requests of browsers.                                   *)

Accept(f) ==
  /\ conn[f] = "none" /\ \A g \in Fronts : g < f => conn[g] # "none"
  /\ count' = count + 1
  /\ IF count' > MaxConns
     THEN Send(f, <<0>>, TRUE) /\ excess' = excess \union {f}
     ELSE conn' = [conn EXCEPT ![f] = "open"] /\ UNCHANGED <<busy, answers, excess>>
  /\ UNCHANGED <<close, toAsk, asked, handled, ws, backVars, queued, toDeliver, started, drift, crashed>>

Ask(f) ==
  /\ conn[f] = "open" /\ ws[f] = "no"
  /\ toAsk > 0
  /\ toAsk' = toAsk - 1
  /\ asked' = [asked EXCEPT ![f] = @ + 1]
  /\ UNCHANGED <<conn, busy, close, handled, answers, ws, backVars, queued, toDeliver, started,
                 count, history>>

\* handled with a response at once
Respond(f, drain) ==
  /\ Receive(f)
  /\ Reply(f, <<Ticket(f)>>, drain)
  /\ UNCHANGED <<ws, backVars, queued, toDeliver, started, count, history>>

\* handed over to the thread to
Hand(f, to) ==
  /\ Receive(f) /\ PushRequest(f, to) /\ Wait(f)
  /\ UNCHANGED <<ws, backVars, toDeliver, started, count, history>>

\* check_request refuses what it cannot handle; another protocol than HTTP/1
\* also closes the connection.
CheckRequest(f, protocol) == Respond(f, protocol)

ServeFile(f) == Respond(f, FALSE)

Extm3u(f, uri) == Respond(f, ~uri)

\* After an error the handler goes on when the error is early, and then
\* answers (done) or pushes the request all the same.
AfterError(f, early, to, drain) ==
  LET errors == (IF early THEN <<Ticket(f)>> ELSE <<>>)
                  \o (IF to = "done" THEN <<Ticket(f)>> ELSE <<>>)
  IN
  /\ Receive(f)
  /\ IF to = "done" THEN UNCHANGED queued ELSE PushRequest(f, to)
  /\ IF errors = <<>> THEN Wait(f) ELSE Reply(f, errors, drain)
  /\ excess' = IF early THEN excess \union {f} ELSE excess
  /\ UNCHANGED <<ws, backVars, toDeliver, started, count, drift, crashed>>

\* mutant: the connection may take the next request at once
ApiUnblocked(f) ==
  /\ Receive(f)
  /\ PushRequest(f, "api")
  /\ UNCHANGED <<answers, busy, conn, excess>>
  /\ UNCHANGED <<ws, backVars, toDeliver, started, count, drift, crashed>>

\* Who answers a command: session commands are answered at once, lyrics when
\* the webserver finds them in the cache, a file or the song.
SessionApi == {"done"}
Lyrics     == {"done", "image"}

\* Before the api thread has started the error is sent, and then the request
\* is handled all the same.  A uri without partition and a request that is
\* refused are answered at once too.
Api(f) ==
  \E to \in SessionApi \union Lyrics \union {"api", "scripts", "script"}, drain \in BOOLEAN :
    /\ drain => to = "done"
    /\ AfterError(f, ~started, to, drain)

\* Scripts sent from outside.  While these are disabled the error is sent, and
\* then the script is started all the same.  external stands for the setting,
\* here free for every request.  An acl that does not parse ends the request
\* with no further response.
ScriptApi(f, external) ==
  \/ \E to \in {"done", "scripts"}, drain \in BOOLEAN :
       (drain => to = "done") /\ AfterError(f, ~external, to, drain)
  \/ IF external THEN Hand(f, "nobody") ELSE Respond(f, FALSE)

Sources == {"query", "cache", "stream", "folder", "embedded", "first", "other"}

\* The image of a song: from the cache, its folder, the file itself, or else
\* from MPD, which knows the first image only.
AlbumartByUri(f, source) ==
  \/ source \in {"query", "cache", "stream", "folder", "embedded"} /\ Respond(f, FALSE)
  \/ source = "first" /\ Hand(f, "image")
  \/ source = "other" /\ Respond(f, FALSE)

AlbumartByAlbumId(f) == Hand(f, "api")

\* Images that the user provides; a script may find others.
Folderart(f, found)   == IF found THEN Respond(f, FALSE) ELSE Hand(f, "image")
Tagart(f, found)      == IF found THEN Respond(f, FALSE) ELSE Hand(f, "image")
Playlistart(f, found) == IF found THEN Respond(f, FALSE) ELSE Hand(f, "image")

ScriptHttp(f, exists) == IF exists THEN Hand(f, "script") ELSE Respond(f, FALSE)

\* Background images come from scripts only.
Bgimage(f) == Hand(f, "bgimage")

Websocket(f, upgraded) ==
  /\ Receive(f)
  /\ IF upgraded
     THEN /\ ws' = [ws EXCEPT ![f] = "fresh"]
          /\ busy' = [busy EXCEPT ![f] = TRUE]
          /\ answers' = [answers EXCEPT ![f] = Append(@, Ticket(f))]
          /\ UNCHANGED conn
     ELSE Reply(f, <<Ticket(f)>>, TRUE) /\ UNCHANGED ws
  /\ UNCHANGED <<backVars, queued, toDeliver, started, count, history>>

\* MG_EV_WS_MSG: an answer that cannot be written closes the connection
Ping(f, written) ==
  /\ ws[f] # "no" /\ conn[f] \in {"open", "draining"}
  /\ IF written THEN ws' = [ws EXCEPT ![f] = "fresh"] /\ UNCHANGED conn
                ELSE conn' = [conn EXCEPT ![f] = "closing"] /\ UNCHANGED ws
  /\ UNCHANGED <<busy, close, toAsk, asked, handled, answers, backVars, queued, toDeliver, started,
                 count, history>>

\* The last ping of f has become older than WS_PING_TIMEOUT.
PingsTimeOut(f) ==
  /\ ws[f] = "fresh" /\ conn[f] \in Live
  /\ ws' = [ws EXCEPT ![f] = "stale"]
  /\ UNCHANGED <<conn, busy, close, toAsk, asked, handled, answers, backVars, queued, toDeliver, started,
                 count, history>>

\* websocket_send_notify closes the stale connections of all partitions
Notify ==
  /\ \E f \in Fronts : ws[f] = "stale" /\ conn[f] \in {"open", "draining"}
  /\ conn' = [f \in Fronts |-> IF ws[f] = "stale" /\ conn[f] \in Live THEN "closing" ELSE conn[f]]
  /\ UNCHANGED <<busy, close, toAsk, asked, handled, answers, ws, backVars, queued, toDeliver, started,
                 count, history>>

-----------------------------------------------------------------------------
(* The proxy.                                                              *)

\* create_backend_connection for a frontend that has none
Connect(f, b, stream) ==
  /\ back[b] = "none"
  /\ back' = [back EXCEPT ![b] = "connecting"]
  /\ frontend' = [frontend EXCEPT ![b] = f]
  /\ kind' = [kind EXCEPT ![b] = [stream |-> stream, ticket |-> Ticket(f), told |-> FALSE]]
  /\ backend' = [backend EXCEPT ![f] = b]

\* Images by /proxy-covercache; the stream of MPD and files of allowed hosts
\* by /stream and /proxy.  With a connection left from an earlier request
\* nothing is sent for the new one.
Proxy(f, stream) ==
  /\ Receive(f)
  /\ \/ backend[f] # Null /\ Wait(f) /\ UNCHANGED backVars
     \/ backend[f] = Null /\ (\E b \in Backs : Connect(f, b, stream)) /\ Wait(f)
     \/ backend[f] = Null /\ Reply(f, <<Ticket(f)>>, TRUE) /\ UNCHANGED backVars
  /\ UNCHANGED <<ws, queued, toDeliver, started, count, history>>

\* mutant: the new connection is not counted
BackendConnectedUncounted(b) ==
  /\ back[b] = "connecting"
  /\ back' = [back EXCEPT ![b] = "open"]
  /\ UNCHANGED <<frontVars, backend, frontend, kind, queued, toDeliver, started, count, history>>

BackendConnected(b) ==
  /\ back[b] = "connecting"
  /\ back' = [back EXCEPT ![b] = "open"]
  /\ count' = count + 1
  /\ UNCHANGED <<frontVars, backend, frontend, kind, queued, toDeliver, started, history>>

\* MG_EV_ERROR; it may also reach a connection whose frontend has just gone
\* and which is not closed yet.  An image that was answered before, with a
\* length that did not match, is answered a second time.
BackendError(b) ==
  /\ back[b] \in {"connecting", "open", "failed", "closing"}
  /\ kind[b].stream => back[b] \in {"connecting", "open"}
  /\ back' = [back EXCEPT ![b] = IF @ = "connecting" THEN "failed" ELSE
                                 IF @ = "open" THEN "closing" ELSE @]
  /\ CASE kind[b].stream -> UNCHANGED <<answers, busy, conn, kind, excess, crashed>>
       [] frontend[b] = Null /\ ~kind[b].stream ->
            crashed' = TRUE /\ UNCHANGED <<answers, busy, conn, kind, excess>>
       [] OTHER ->
            LET f == frontend[b] IN
            /\ Send(f, <<kind[b].ticket>>, FALSE)
            /\ kind' = [kind EXCEPT ![b].told = TRUE]
            /\ excess' = IF kind[b].told THEN excess \union {f} ELSE excess
            /\ UNCHANGED crashed
  /\ UNCHANGED <<close, toAsk, asked, handled, ws, backend, frontend, queued, toDeliver, started,
                 count, drift>>

\* MG_EV_READ of a stream: the data goes to the browser as it is
StreamData(b) ==
  /\ back[b] = "open" /\ kind[b].stream
  /\ LET f == frontend[b] IN
     /\ f # Null /\ ~kind[b].told
     /\ kind' = [kind EXCEPT ![b].told = TRUE]
     /\ answers' = [answers EXCEPT ![f] = Append(@, kind[b].ticket)]
  /\ UNCHANGED <<conn, busy, close, toAsk, asked, handled, ws, backend, back, frontend, queued,
                 toDeliver, started, count, history>>

\* MG_EV_HTTP_MSG with a length that does not match: the placeholder is sent
\* and the connection stays.
CoverMismatch(b) ==
  /\ back[b] = "open" /\ ~kind[b].stream /\ frontend[b] # Null
  /\ ~kind[b].told /\ kind' = [kind EXCEPT ![b].told = TRUE]
  /\ Send(frontend[b], <<kind[b].ticket>>, FALSE)
  /\ UNCHANGED <<close, toAsk, asked, handled, ws, backend, back, frontend, queued, toDeliver, started, count, history>>

\* mutant: the frontend keeps its pointer
BackendCloseKept(b, image) ==
  /\ back[b] \in {"connecting", "open", "failed", "closing"}
  /\ back' = [back EXCEPT ![b] = "closed"] /\ frontend' = [frontend EXCEPT ![b] = Null]
  /\ kind' = [kind EXCEPT ![b] = Null]
  /\ count' = count - 1
  /\ drift' = IF back[b] \in {"connecting", "failed"} THEN drift + 1 ELSE drift
  /\ conn' = IF frontend[b] = Null THEN conn ELSE [conn EXCEPT ![frontend[b]] = Draining(@)]
  /\ UNCHANGED <<answers, busy, close, toAsk, asked, handled, ws, backend, queued, toDeliver,
                 started, excess, crashed>>

\* MG_EV_CLOSE, of an image after its response when image is set
BackendClose(b, image) ==
  /\ back[b] \in {"connecting", "open", "failed", "closing"}
  /\ image => back[b] = "open" /\ ~kind[b].stream /\ ~kind[b].told /\ frontend[b] # Null
  /\ back' = [back EXCEPT ![b] = "closed"] /\ frontend' = [frontend EXCEPT ![b] = Null]
  /\ kind' = [kind EXCEPT ![b] = Null]
  /\ count' = count - 1
  /\ drift' = IF back[b] \in {"connecting", "failed"} THEN drift + 1 ELSE drift
  /\ IF frontend[b] = Null
     THEN UNCHANGED <<answers, busy, conn, backend>>
     ELSE /\ backend' = [backend EXCEPT ![frontend[b]] = Null]
          /\ IF image THEN Send(frontend[b], <<kind[b].ticket>>, TRUE)
             ELSE /\ conn' = [conn EXCEPT ![frontend[b]] = Draining(@)]
                  /\ UNCHANGED <<answers, busy>>
  /\ UNCHANGED <<close, toAsk, asked, handled, ws, queued, toDeliver, started, excess, crashed>>

-----------------------------------------------------------------------------
(* The end of frontend connections, and the other threads.                 *)

\* MG_EV_CLOSE, when the browser has closed the connection, after is_closing,
\* or when a draining connection has written all; its data are freed
FrontClose(f) ==
  /\ conn[f] \in Live
  /\ conn' = [conn EXCEPT ![f] = "closed"]
  /\ count' = count - 1
  /\ LET b == backend[f] IN
     IF b = Null THEN UNCHANGED <<frontend, back>>
     ELSE /\ frontend' = [frontend EXCEPT ![b] = Null]
          /\ back' = [back EXCEPT ![b] = IF @ = "connecting" THEN "failed" ELSE
                                         IF @ = "open" THEN "closing" ELSE @]
  /\ backend' = [backend EXCEPT ![f] = Null]
  /\ asked' = [asked EXCEPT ![f] = 0] /\ handled' = [handled EXCEPT ![f] = 0]
  /\ answers' = [answers EXCEPT ![f] = <<>>] /\ ws' = [ws EXCEPT ![f] = "no"]
  /\ busy' = [busy EXCEPT ![f] = FALSE] /\ close' = [close EXCEPT ![f] = FALSE]
  /\ excess' = excess \ {f}
  /\ UNCHANGED <<toAsk, kind, queued, toDeliver, started, drift, crashed>>

\* INTERNAL_API_WEBSERVER_READY, the first message of the api thread
Start ==
  /\ ~started /\ started' = TRUE
  /\ UNCHANGED <<frontVars, backVars, queued, toDeliver, count, history>>

\* The api thread answers after it has announced itself; a script may.
AnswerRequest(r) ==
  /\ r \in queued /\ r.to \notin {"bgimage", "nobody"}
  /\ r.to \in ApiRequests => started
  /\ queued' = queued \ {r} /\ toDeliver' = toDeliver \union {r}
  /\ UNCHANGED <<frontVars, backVars, started, count, history>>

\* mympd_api_trigger_execute_http starts all scripts for the event of an image
\* or lyrics; each answers the same connection.
Triggered(r, scripts) ==
  /\ r \in queued /\ r.to \in {"image", "bgimage"} /\ started
  /\ scripts = 0 => r.to = "bgimage"
  /\ queued' = (queued \ {r}) \union
       {[r EXCEPT !.to = x] : x \in CASE scripts = 0 -> {"nobody"} [] scripts = 1 -> {"script"}
                                      [] scripts = 2 -> {"script", "second"}}
  /\ excess' = IF scripts = 2 /\ conn[r.front] \in Live THEN excess \union {r.front} ELSE excess
  /\ UNCHANGED <<frontVars, backVars, toDeliver, started, count, drift, crashed>>

Thread(r) == r.to \in Answering /\ (AnswerRequest(r) \/ \E n \in 0..2 : Triggered(r, n))

\* mutant: the connection stays busy
DeliverBusy(r) ==
  /\ r \in toDeliver
  /\ toDeliver' = toDeliver \ {r}
  /\ answers' = IF conn[r.front] \in Live
                THEN [answers EXCEPT ![r.front] = Append(@, r.ticket)] ELSE answers
  /\ UNCHANGED <<conn, busy, close, toAsk, asked, handled, ws, backVars, queued, started, count, history>>

\* read_queue: a response whose connection is not found is dropped
Deliver(r) ==
  /\ r \in toDeliver
  /\ toDeliver' = toDeliver \ {r}
  /\ IF conn[r.front] \in Live
     THEN Send(r.front, <<r.ticket>>, FALSE) ELSE UNCHANGED <<answers, busy, conn>>
  /\ UNCHANGED <<close, toAsk, asked, handled, ws, backVars, queued, started, count, history>>

-----------------------------------------------------------------------------
Handle(f) ==
  \E b \in BOOLEAN :
    \/ CheckRequest(f, b) \/ ServeFile(f) \/ Extm3u(f, b) \/ Api(f) \/ ScriptApi(f, b)
    \/ AlbumartByAlbumId(f) \/ Folderart(f, b) \/ Tagart(f, b) \/ Playlistart(f, b)
    \/ ScriptHttp(f, b) \/ Bgimage(f) \/ Websocket(f, b) \/ Proxy(f, b)
    \/ \E source \in Sources : AlbumartByUri(f, source)

WebNext ==
  /\ ~crashed
  /\ \/ \E f \in Fronts : \/ Accept(f) \/ FrontClose(f) \/ Handle(f) \/ PingsTimeOut(f) \/ Ask(f)
                          \/ \E written \in BOOLEAN : Ping(f, written)
     \/ \E b \in Backs : \/ BackendConnected(b) \/ BackendError(b) \/ StreamData(b)
                         \/ CoverMismatch(b)
                         \/ \E image \in BOOLEAN : BackendClose(b, image)
     \/ Notify \/ Start
     \/ \E r \in Forward : AnswerRequest(r) \/ Deliver(r) \/ \E n \in 0..2 : Triggered(r, n)

WebSpec == WebInit /\ [][WebNext]_webVars

\* What is_closing or is_draining marks is closed.
FrontEnds(f) == conn[f] \in {"draining", "closing"} /\ FrontClose(f)
BackEnds(b)  == back[b] \in {"failed", "closing"} /\ BackendClose(b, FALSE)

\* The webserver, the api and the scripts thread go on; browsers, other servers and scripts
\* need not.
WebFairSpec ==
  /\ WebSpec
  /\ WF_webVars(Start)
  /\ \A f \in Fronts : WF_webVars(Handle(f)) /\ WF_webVars(FrontEnds(f))
  /\ \A b \in Backs : WF_webVars(BackEnds(b))
  /\ \A r \in Forward : WF_webVars(Thread(r)) /\ WF_webVars(Deliver(r))

-----------------------------------------------------------------------------
(* The k-th response a browser reads on a connection is the one to its     *)
(* k-th request, however many it sends ahead and however late the other    *)
(* threads answer.  The exceptions are named: requests before the api      *)
(* thread is ready, scripts from outside while these are disabled, images  *)
(* whose length does not match, several scripts for one event, refused     *)
(* connections.                                                            *)
InOrder ==
  \A f \in Fronts \ excess :
    /\ Len(answers[f]) \in {handled[f], handled[f] - 1}
    /\ \A k \in DOMAIN answers[f] : answers[f][k] = k

(* The pointers between the two connections of a proxy never lead to a     *)
(* connection that mongoose has freed, whichever of them ends first.       *)
BackendLinks ==
  /\ \A f \in Fronts : backend[f] # Null =>
       conn[f] \in Live /\ frontend[backend[f]] = f /\ back[backend[f]] \notin {"none", "closed"}
  /\ \A b \in Backs : frontend[b] # Null => backend[frontend[b]] = b

(* connection_count, on which the limit rests, is the number of            *)
(* connections, less one for each of the proxy that ended before it was    *)
(* established.                                                            *)
CountTracks ==
  count + drift = Cardinality({f \in Fronts : conn[f] \in Live})
                + Cardinality({b \in Backs : back[b] \in {"open", "closing"}})

\* f waits for the webserver, the api or the scripts thread alone
Waiting(f) ==
  /\ conn[f] \in Live /\ busy[f] /\ ws[f] = "no" /\ backend[f] = Null
  /\ \A r \in queued : r.front = f => r.to \in Answering

(* No request is forgotten: a connection that waits for neither another    *)
(* server nor a script gets a response or is closed.                       *)
Served == \A f \in Fronts : (~crashed /\ Waiting(f)) ~> (crashed \/ ~Waiting(f))

(* The connections of the proxy and what is kept about them are consistent, *)
(* in states of the right types.                                            *)
ProxyOK == WebTypeOK /\ BackendLinks /\ CountTracks
=============================================================================
