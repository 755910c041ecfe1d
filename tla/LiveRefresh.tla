---------------------------- MODULE LiveRefresh ----------------------------
(***************************************************************************)
(* Live refresh of the pages of the notes server:                          *)
(*   SSEHub                     (memos/server/router/api/v1/sse_hub.go)    *)
(*   handleSSE                  (memos/server/router/api/v1/sse_handler.go)*)
(*   CreateMemo, UpdateMemo, DeleteMemo, CreateMemoComment                 *)
(*                              (memos/server/router/api/v1/memo_service.go)*)
(*   useLiveMemoRefresh         (memos/web/src/hooks/useLiveMemoRefresh.ts)*)
(*   getRequestToken, authInterceptor        (memos/web/src/connect.ts)    *)
(*   RequireAuth                (internal/handlers/app.go)                 *)
(*   Shutdown                   (memos/server/server.go, main.go)          *)
(*   SyncAll                    (internal/memos/sync.go)                   *)
(*                                                                         *)
(* A write commits, and tells the connected pages in a later step.  A page *)
(* keeps what it has read until it is told.  What is shown is the number   *)
(* of the write it shows.                                                  *)
(***************************************************************************)
EXTENDS Naturals, Sequences

CONSTANTS
    Pages,          \* pages that are open
    Owners,         \* the pages of the user whose memos these are, or of an admin
    Requests,       \* requests that write
    Conns,          \* streams, reused when they are over
    Views,          \* views a page shows
    Kinds,          \* kinds of writes
    Buffer,         \* capacity of a client's channel (32)
    MaxWrite,       \* bound: writes
    MaxLoss,        \* bound: connections that break and sessions that end
    MaxStop         \* bound: shutdowns and crashes

NoConn == "none"
NoKind == "nothing"

ASSUME RefreshAssumption ==
    /\ Owners \subseteq Pages
    /\ Views \subseteq {"list", "detail"}
    /\ Kinds \subseteq {"updated", "hidden", "commentCreated"}
    /\ NoConn \notin Conns
    /\ Buffer \in Nat \ {0}
ASSUME RefreshBounds == {MaxWrite, MaxLoss, MaxStop} \subseteq Nat

VARIABLES
    db,         \* db[v]: the writes view v would show if it were read now
    write,      \* what a request has committed and not told yet
    server,     \* "up"; "closing": the hub is; "closed": the store is; "down"
    closed,     \* SSEHub.closed
    clients,    \* SSEHub.clients
    open,       \* open[c]: the channel of c is not closed
    chan,       \* chan[c]: the events in it, or on the way from it to the page
    stream,     \* where handleSSE is
    broken,     \* a channel was closed twice, or written to after it was closed
    link,       \* link[p]: the stream page p reads
    status,     \* status[p]: "off", "waiting" to connect, "connecting", "connected"
    once,       \* hasConnectedOnceRef
    fetch,      \* fetch[p][v]: "idle", "asked" or "read"
    got,        \* got[p][v]: what the answer under way shows
    shown,      \* shown[p][v]: what is on the screen
    why,        \* history: there was a reason why p was not told, since it read v
    session,    \* session[p]: the page's cookie names a session of the program
    token,      \* token[p]: the page's access token: "none", "valid", "expired"
    losses, stops

hubVars == <<closed, clients, open, chan, broken>>
pageVars == <<link, status, once>>
viewVars == <<fetch, got, shown, why>>
credentials == <<session, token>>
refreshVars == <<db, write, server, hubVars, stream, pageVars, viewVars, credentials,
                 losses, stops>>

-----------------------------------------------------------------------------
\* handleSSEEvent: the queries an event makes stale.  Lists show how many
\* comments a memo has, but are not told of a new one.
Invalidated(k) == IF k = "commentCreated" THEN Views \ {"list"} ELSE Views

\* canReceive: a memo that has just been made private is private to the event.
CanReceive(p, k) == k = "hidden" => p \in Owners

Committed == \E r \in Requests : write[r] # NoKind
Queued(p, v) ==
    /\ link[p] # NoConn
    /\ \E i \in 1..Len(chan[link[p]]) : v \in Invalidated(chan[link[p]][i])
ReadBy(p) == {c \in Conns : link[p] = c}
Reader(c) == {p \in Pages : link[p] = c}

\* RequireAuth lets the page through, and handleSSE takes its token.
Accepted(p) == session[p] = "valid" /\ token[p] = "valid"

RTypeOK ==
    /\ db \in [Views -> 0..MaxWrite]
    /\ write \in [Requests -> Kinds \cup {NoKind}]
    /\ server \in {"up", "closing", "closed", "down"}
    /\ closed \in BOOLEAN /\ broken \in BOOLEAN
    /\ clients \subseteq Conns
    /\ open \in [Conns -> BOOLEAN]
    /\ chan \in [Conns -> Seq(Kinds)] /\ \A c \in Conns : Len(chan[c]) <= Buffer
    /\ stream \in [Conns -> {"unused", "asked", "refused", "flushed", "loop", "ended"}]
    /\ link \in [Pages -> Conns \cup {NoConn}]
    /\ status \in [Pages -> {"off", "waiting", "connecting", "connected"}]
    /\ once \in [Pages -> BOOLEAN]
    /\ fetch \in [Pages -> [Views -> {"idle", "asked", "read"}]]
    /\ got \in [Pages -> [Views -> 0..MaxWrite]]
    /\ shown \in [Pages -> [Views -> 0..MaxWrite]]
    /\ why \in [Pages -> [Views -> {"none", "missed"}]]
    /\ session \in [Pages -> {"valid", "lost"}]
    /\ token \in [Pages -> {"none", "valid", "expired"}]
    /\ losses \in 0..MaxLoss /\ stops \in 0..MaxStop

RInit ==
    /\ db = [v \in Views |-> 0]
    /\ write = [r \in Requests |-> NoKind]
    /\ server = "up" /\ closed = FALSE /\ broken = FALSE
    /\ clients = {} /\ open = [c \in Conns |-> FALSE]
    /\ chan = [c \in Conns |-> <<>>]
    /\ stream = [c \in Conns |-> "unused"]
    /\ link = [p \in Pages |-> NoConn]
    /\ status = [p \in Pages |-> "waiting"]
    /\ once = [p \in Pages |-> FALSE]
    /\ fetch = [p \in Pages |-> [v \in Views |-> "asked"]]
    /\ got = [p \in Pages |-> [v \in Views |-> 0]]
    /\ shown = [p \in Pages |-> [v \in Views |-> 0]]
    /\ why = [p \in Pages |-> [v \in Views |-> "none"]]
    /\ session = [p \in Pages |-> "valid"]
    /\ token \in [Pages -> {"none", "valid"}]
    /\ losses = 0 /\ stops = 0

-----------------------------------------------------------------------------
(* Requests that write. *)

\* The store: it is closed after the hub, while requests are still answered.
Open == server \in {"up", "closing"}

Commit(r, k) ==
    /\ Open /\ write[r] = NoKind
    /\ \A v \in Views : db[v] < MaxWrite
    /\ write' = [write EXCEPT ![r] = k]
    /\ db' = [v \in Views |-> db[v] + 1]
    /\ UNCHANGED <<server, hubVars, stream, pageVars, viewVars, losses, stops, credentials>>

\* Nobody tells page p that the views in S have changed.
Blame(p, S) == [v \in Views |-> IF v \in S THEN "missed" ELSE why[p][v]]

\* What p misses of what k has changed: all of it if the hub does not know a
\* stream of p, if the memo is not for p, or if the channel is full; otherwise
\* what the event leaves out.
Missed(p, k) ==
    IF ReadBy(p) \cap clients = {} \/ ~CanReceive(p, k) \/ Len(chan[link[p]]) = Buffer
    THEN Views
    ELSE Views \ Invalidated(k)

\* Under the read lock, without waiting for a client whose channel is full.
Receives(c, k) == c \in clients /\ Len(chan[c]) < Buffer
                  /\ \A p \in Reader(c) : CanReceive(p, k)

Broadcast(r) ==
    /\ server # "down" /\ write[r] # NoKind
    /\ chan' = [c \in Conns |->
                  IF Receives(c, write[r]) THEN Append(chan[c], write[r])
                  ELSE chan[c]]
    /\ broken' = (broken \/ \E c \in clients : Receives(c, write[r]) /\ ~open[c])
    /\ why' = [p \in Pages |-> Blame(p, Missed(p, write[r]))]
    /\ write' = [write EXCEPT ![r] = NoKind]
    /\ UNCHANGED <<db, server, closed, clients, open, stream, pageVars,
                   fetch, got, shown, losses, stops, credentials>>

\* An error between the commit and the broadcast: the handler returns.
FailAfterCommit(r) ==
    /\ server # "down" /\ write[r] # NoKind
    /\ write' = [write EXCEPT ![r] = NoKind]
    /\ why' = [p \in Pages |-> Blame(p, Views)]
    /\ UNCHANGED <<db, server, hubVars, stream, pageVars, fetch, got, shown,
                   losses, stops, credentials>>

\* SyncAll writes to the store of the notes server, past its handlers.
Sync ==
    /\ Open
    /\ \A v \in Views : db[v] < MaxWrite
    /\ db' = [v \in Views |-> db[v] + 1]
    /\ why' = [p \in Pages |-> Blame(p, Views)]
    /\ UNCHANGED <<write, server, hubVars, stream, pageVars, fetch, got,
                   shown, losses, stops, credentials>>

-----------------------------------------------------------------------------
(* handleSSE. *)

\* Without a session the answer is the login page, which ends at once.
SendToLogin(c) ==
    /\ stream[c] = "asked"
    /\ \E p \in Reader(c) : session[p] = "lost"
    /\ stream' = [stream EXCEPT ![c] = "ended"]
    /\ UNCHANGED <<db, write, server, hubVars, pageVars, viewVars, losses,
                   stops, credentials>>

\* 401: the token is too old.
Refuse(c) ==
    /\ stream[c] = "asked"
    /\ \E p \in Reader(c) : session[p] = "valid" /\ ~Accepted(p)
    /\ stream' = [stream EXCEPT ![c] = "refused"]
    /\ UNCHANGED <<db, write, server, hubVars, pageVars, viewVars, losses,
                   stops, credentials>>

\* The headers go out before the stream is a client of the hub.
Flush(c) ==
    /\ stream[c] = "asked"
    /\ \A p \in Reader(c) : Accepted(p)
    /\ stream' = [stream EXCEPT ![c] = "flushed"]
    /\ UNCHANGED <<db, write, server, hubVars, pageVars, viewVars, losses, stops, credentials>>

Subscribe(c) ==
    /\ stream[c] = "flushed"
    /\ stream' = [stream EXCEPT ![c] = "loop"]
    /\ chan' = [chan EXCEPT ![c] = <<>>]
    /\ open' = [open EXCEPT ![c] = ~closed]
    /\ clients' = IF closed THEN clients ELSE clients \cup {c}
    /\ UNCHANGED <<db, write, server, closed, broken, pageVars, viewVars,
                   losses, stops, credentials>>

\* (mutant) without a look at the map.
Unsubscribe_Always(c) ==
    /\ clients' = clients \ {c}
    /\ open' = [open EXCEPT ![c] = FALSE]
    /\ broken' = (broken \/ ~open[c])
    /\ chan' = [chan EXCEPT ![c] = <<>>]
    /\ UNCHANGED closed

Unsubscribe(c) ==
    /\ clients' = clients \ {c}
    /\ open' = [open EXCEPT ![c] = FALSE]
    /\ broken' = (broken \/ (c \in clients /\ ~open[c]))
    /\ chan' = [chan EXCEPT ![c] = <<>>]
    /\ UNCHANGED closed

\* (mutant) a fetch under way is trusted to be new enough.
Refetch_KeepRunning(p, S) ==
    [v \in Views |-> IF v \in S /\ fetch[p][v] = "idle" THEN "asked"
                     ELSE fetch[p][v]]
\* (mutant) the query is marked, and nothing is asked.
Refetch_MarkOnly(p, S) == fetch[p]
\* invalidateQueries: a fetch under way is given up for a new one.
Refetch(p, S) == [v \in Views |-> IF v \in S THEN "asked" ELSE fetch[p][v]]

\* The page reads the headers first, then event by event.
Deliver(c) ==
    /\ stream[c] = "loop" /\ chan[c] # <<>>
    /\ \A p \in Reader(c) : status[p] = "connected"
    /\ chan' = [chan EXCEPT ![c] = Tail(@)]
    /\ fetch' = [p \in Pages |-> IF p \in Reader(c)
                                 THEN Refetch(p, Invalidated(Head(chan[c])))
                                 ELSE fetch[p]]
    /\ UNCHANGED <<db, write, server, closed, clients, open, broken, stream,
                   pageVars, got, shown, why, losses, stops, credentials>>

\* The channel is closed and empty.
EndOfStream(c) ==
    /\ stream[c] = "loop" /\ chan[c] = <<>> /\ ~open[c]
    /\ Unsubscribe(c)
    /\ stream' = [stream EXCEPT ![c] = IF Reader(c) = {} THEN "unused" ELSE "ended"]
    /\ UNCHANGED <<db, write, server, pageVars, viewVars, losses, stops, credentials>>

\* The page is gone: the context of the request is done, or a write fails.
Notice(c) ==
    /\ stream[c] = "loop" /\ Reader(c) = {}
    /\ Unsubscribe(c)
    /\ stream' = [stream EXCEPT ![c] = "unused"]
    /\ UNCHANGED <<db, write, server, pageVars, viewVars, losses, stops, credentials>>

-----------------------------------------------------------------------------
(* The page. *)

\* Not logged in yet: it returns, and waits for somebody to log in.
ConnectOff(p) ==
    /\ status[p] = "waiting" /\ token[p] = "none"
    /\ status' = [status EXCEPT ![p] = "off"]
    /\ UNCHANGED <<db, write, server, hubVars, stream, link, once, viewVars,
                   losses, stops, credentials>>

\* The token it has is sent, however old.
Connect(p) ==
    /\ status[p] = "waiting" /\ token[p] # "none" /\ server # "down"
    /\ \E c \in Conns :
         /\ stream[c] = "unused"
         /\ stream' = [stream EXCEPT ![c] = "asked"]
         /\ link' = [link EXCEPT ![p] = c]
    /\ status' = [status EXCEPT ![p] = "connecting"]
    /\ UNCHANGED <<db, write, server, hubVars, once, viewVars, losses, stops, credentials>>

\* The headers have arrived: after a reconnect everything is read again.
Connected(p) ==
    /\ status[p] = "connecting"
    /\ stream[link[p]] \in {"flushed", "loop", "ended"}
    /\ status' = [status EXCEPT ![p] = "connected"]
    /\ once' = [once EXCEPT ![p] = TRUE]
    /\ fetch' = [fetch EXCEPT ![p] = IF once[p] THEN Refetch(p, Views) ELSE @]
    /\ UNCHANGED <<db, write, server, hubVars, stream, link, got, shown, why,
                   losses, stops, credentials>>

\* setTimeout(connect, delay): the delays themselves are left out.
Disconnect(p) ==
    /\ link' = [link EXCEPT ![p] = NoConn]
    /\ status' = [status EXCEPT ![p] = "waiting"]
    /\ UNCHANGED once

\* What was in the channel never reaches the page.
LostWith(p) == {v \in Views : Queued(p, v)}

\* (!response.ok)
SeesRefusal(p) ==
    /\ status[p] = "connecting" /\ stream[link[p]] = "refused"
    /\ stream' = [stream EXCEPT ![link[p]] = "unused"]
    /\ Disconnect(p)
    /\ UNCHANGED <<db, write, server, hubVars, viewVars, losses, stops, credentials>>

Lose(p) ==
    /\ losses < MaxLoss /\ losses' = losses + 1
    /\ link[p] # NoConn
    /\ stream' = [stream EXCEPT ![link[p]] = IF @ \in {"ended", "refused"}
                                                THEN "unused" ELSE @]
    /\ why' = [why EXCEPT ![p] = Blame(p, LostWith(p))]
    /\ Disconnect(p)
    /\ UNCHANGED <<db, write, server, hubVars, fetch, got, shown, stops, credentials>>

\* (mutant) only an error makes it connect again.
SeesEnd_Returns(p) ==
    /\ status[p] = "connected" /\ stream[link[p]] = "ended"
    /\ stream' = [stream EXCEPT ![link[p]] = "unused"]
    /\ link' = [link EXCEPT ![p] = NoConn]
    /\ status' = [status EXCEPT ![p] = "stopped"]
    /\ UNCHANGED <<db, write, server, hubVars, once, viewVars, losses, stops, credentials>>

\* reader.read() is done: the same backoff as after an error.
SeesEnd(p) ==
    /\ status[p] = "connected" /\ stream[link[p]] = "ended"
    /\ stream' = [stream EXCEPT ![link[p]] = "unused"]
    /\ Disconnect(p)
    /\ UNCHANGED <<db, write, server, hubVars, viewVars, losses, stops, credentials>>

\* A view that is opened, or a window that is looked at again.
Refocus(p, v) ==
    /\ fetch[p][v] = "idle" /\ token[p] # "none"
    /\ fetch' = [fetch EXCEPT ![p][v] = "asked"]
    /\ UNCHANGED <<db, write, server, hubVars, stream, pageVars, got, shown,
                   why, losses, stops, credentials>>

\* A token that is too old is exchanged first.
Read(p, v) ==
    /\ fetch[p][v] = "asked" /\ Open
    /\ session[p] = "valid" /\ token[p] # "none"
    /\ token' = [token EXCEPT ![p] = "valid"]
    /\ fetch' = [fetch EXCEPT ![p][v] = "read"]
    /\ got' = [got EXCEPT ![p][v] = db[v]]
    /\ why' = [why EXCEPT ![p][v] = "none"]
    /\ UNCHANGED <<db, write, server, hubVars, stream, pageVars, shown,
                   losses, stops, session>>

Show(p, v) ==
    /\ fetch[p][v] = "read"
    /\ fetch' = [fetch EXCEPT ![p][v] = "idle"]
    /\ shown' = [shown EXCEPT ![p][v] = got[p][v]]
    /\ got' = [got EXCEPT ![p][v] = 0]
    /\ UNCHANGED <<db, write, server, hubVars, stream, pageVars, why, losses, stops, credentials>>

\* After its retries a query keeps what it had.  Without a session the answer
\* is the login page; a new token may be refused.
FetchFails(p, v) ==
    /\ fetch[p][v] = "asked" /\ token[p] # "none"
    /\ ~Open \/ session[p] = "lost" \/ token[p] = "expired"
    /\ fetch' = [fetch EXCEPT ![p][v] = "idle"]
    /\ why' = [why EXCEPT ![p][v] = "missed"]
    /\ UNCHANGED <<db, write, server, hubVars, stream, pageVars, got, shown,
                   losses, stops, credentials>>

-----------------------------------------------------------------------------
(* Sessions and tokens. *)

\* initialize: the page has its first token, and the hook runs again.
SignIn(p) ==
    /\ token[p] = "none" /\ session[p] = "valid" /\ Open
    /\ token' = [token EXCEPT ![p] = "valid"]
    /\ status' = [status EXCEPT ![p] = "waiting"]
    /\ UNCHANGED <<db, write, server, hubVars, stream, link, once, viewVars,
                   losses, stops, session>>

TokenExpires(p) ==
    /\ token[p] = "valid"
    /\ token' = [token EXCEPT ![p] = "expired"]
    /\ UNCHANGED <<db, write, server, hubVars, stream, pageVars, viewVars,
                   losses, stops, session>>

\* Another request of the page, or another of its tabs, has a new token.
RenewToken(p) ==
    /\ token[p] = "expired" /\ session[p] = "valid" /\ Open
    /\ token' = [token EXCEPT ![p] = "valid"]
    /\ UNCHANGED <<db, write, server, hubVars, stream, pageVars, viewVars,
                   losses, stops, session>>

\* After eight hours, or by a log out.
SessionEnds(p) ==
    /\ losses < MaxLoss /\ losses' = losses + 1
    /\ session[p] = "valid"
    /\ session' = [session EXCEPT ![p] = "lost"]
    /\ UNCHANGED <<db, write, server, hubVars, stream, pageVars, viewVars,
                   stops, token>>

\* In another tab; a page that shows the login form is another page.
LogIn(p) ==
    /\ session[p] = "lost" /\ server # "down"
    /\ session' = [session EXCEPT ![p] = "valid"]
    /\ UNCHANGED <<db, write, server, hubVars, stream, pageVars, viewVars,
                   losses, stops, token>>

-----------------------------------------------------------------------------
(* The server. *)

\* (mutant) the clients are forgotten, their channels stay open.
CloseHub_KeepOpen ==
    /\ closed' = TRUE /\ clients' = {}
    /\ UNCHANGED <<open, chan, broken>>

\* The hub first; a hub that is closed does nothing.
CloseHub ==
    /\ closed' = TRUE
    /\ broken' = (broken \/ \E c \in clients : ~open[c])
    /\ open' = [c \in Conns |-> c \notin clients /\ open[c]]
    /\ clients' = {}
    /\ UNCHANGED chan

Shutdown ==
    /\ server = "up" /\ stops < MaxStop
    /\ stops' = stops + 1
    /\ server' = "closing"
    /\ CloseHub
    /\ UNCHANGED <<db, write, stream, pageVars, viewVars, losses, credentials>>

\* Start was not called: there is no HTTP server of its own to wait for.
CloseStore ==
    /\ server = "closing"
    /\ server' = "closed"
    /\ UNCHANGED <<db, write, hubVars, stream, pageVars, viewVars, losses, stops, credentials>>

\* The process is gone, with everything it had not told.
Gone ==
    /\ server' = "down"
    /\ why' = [p \in Pages |->
                 Blame(p, {v \in Views : Committed \/ Queued(p, v)})]
    /\ write' = [r \in Requests |-> NoKind]
    /\ clients' = {} /\ open' = [c \in Conns |-> FALSE]
    /\ chan' = [c \in Conns |-> <<>>]
    /\ stream' = [c \in Conns |-> "unused"]
    /\ link' = [p \in Pages |-> NoConn]
    /\ status' = [p \in Pages |->
                    IF link[p] = NoConn THEN status[p] ELSE "waiting"]
    /\ UNCHANGED <<db, closed, broken, once, fetch, got, shown, losses, credentials>>

\* main returns as soon as the listener is closed; it waits for no request.
Exit ==
    /\ server = "closed"
    /\ Gone
    /\ UNCHANGED stops

Crash ==
    /\ server # "down" /\ stops < MaxStop
    /\ stops' = stops + 1
    /\ Gone

\* The sessions were in memory.
Restart ==
    /\ server = "down"
    /\ server' = "up" /\ closed' = FALSE
    /\ session' = [p \in Pages |-> "lost"]
    /\ UNCHANGED <<db, write, clients, open, chan, broken, stream, pageVars,
                   viewVars,
                   losses, stops, token>>

-----------------------------------------------------------------------------
Tell(r) == Broadcast(r) \/ FailAfterCommit(r)
Request == \E r \in Requests : Tell(r) \/ \E k \in Kinds : Commit(r, k)
Answer(c) == SendToLogin(c) \/ Refuse(c) \/ Flush(c)
Handle(c) == Answer(c) \/ Subscribe(c) \/ Deliver(c) \/ EndOfStream(c) \/ Notice(c)
Stream == \E c \in Conns : Handle(c)
Run(p) == ConnectOff(p) \/ Connect(p) \/ Connected(p) \/ SeesRefusal(p) \/ SeesEnd(p)
Page == \E p \in Pages :
    \/ Run(p) \/ Lose(p)
    \/ SignIn(p) \/ TokenExpires(p) \/ RenewToken(p) \/ SessionEnds(p) \/ LogIn(p)
    \/ \E v \in Views : Refocus(p, v) \/ Read(p, v) \/ Show(p, v) \/ FetchFails(p, v)

RNext ==
    \/ Request \/ Sync \/ Stream \/ Page
    \/ Shutdown \/ CloseStore \/ Exit \/ Crash \/ Restart

\* Every goroutine and every page runs on, and a shutdown that has begun; nothing
\* is assumed about writes, connections that break, sessions and tokens, when
\* the server is shut down, when its process ends, and when it is started again.
Fairness ==
    /\ \A r \in Requests : WF_refreshVars(Tell(r))
    /\ \A c \in Conns : WF_refreshVars(Handle(c))
    /\ \A p \in Pages :
         /\ WF_refreshVars(Run(p))
         /\ \A v \in Views : WF_refreshVars(Read(p, v) \/ Show(p, v) \/ FetchFails(p, v))
    /\ WF_refreshVars(CloseStore)

RSpec == RInit /\ [][RNext]_refreshVars /\ Fairness

-----------------------------------------------------------------------------
\* A channel of the hub is open: nobody closes it twice or writes to it
\* afterwards, although streams end, pages leave and the hub is closed in any
\* order (Close and Unsubscribe close what they remove, under one lock).
ChannelsAreSound ==
    /\ RTypeOK
    /\ ~broken
    /\ \A c \in clients : open[c] /\ stream[c] = "loop"
    /\ closed => clients = {}

\* A view that is older than the database has a write that will be told, an
\* event on its way, or a reason; an answer that was asked for before the event
\* does not count (Broadcast after the commit, handleSSEEvent, cancelled fetches).
StaleHasReason ==
    \A p \in Pages, v \in Views :
      LET latest == IF fetch[p][v] = "read" THEN got[p][v] ELSE shown[p][v]
      IN  fetch[p][v] # "asked" /\ latest # db[v] =>
            why[p][v] # "none" \/ Committed \/ Queued(p, v)

\* ... and every such view of a page that is logged in is read again, or has a
\* reason.
Settles ==
    \A p \in Pages, v \in Views :
      (shown[p][v] # db[v] /\ token[p] # "none")
         ~> (shown[p][v] = db[v] \/ why[p][v] # "none")

\* A shutdown ends every stream: those under way, with what is left in their
\* channels, and those that subscribe to a hub that is already closed.
StreamsEnd ==
    \A c \in Conns : (closed /\ stream[c] = "loop") ~> stream[c] # "loop"

\* A page whose stream ended or was refused, whoever ended it, connects again
\* while the server takes its session and its token: nothing renews either for it.
Reconnects == \A p \in Pages :
    []<>(status[p] = "connected" \/ server # "up" \/ ~Accepted(p))
=============================================================================
