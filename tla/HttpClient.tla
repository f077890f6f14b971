---------------------------- MODULE HttpClient ----------------------------
(***************************************************************************)
(* The asynchronous client of Simple-Web-Server (client_http.hpp and       *)
(* client_https.hpp): a pool of connections, requests that take one each,  *)
(* and the handlers that one io_service thread runs.  Application threads  *)
(* call request, stop and the destructor at any time.                      *)
(*                                                                         *)
(* An asynchronous operation is started by a handler and completed by the  *)
(* network or by close(); its completion waits in the io_service's queue   *)
(* (ec # "pending") until its handler runs.  A handler holds a lock of     *)
(* ScopeRunner, so that none runs once the client is destroyed.            *)
(***************************************************************************)
EXTENDS Integers, FiniteSets

CONSTANTS
    Requests,        \* calls of request()
    Connections,     \* connection objects; a destroyed one may be created again
    None,
    Schemes,         \* kinds of client
    Timeout,         \* whether config.timeout is not 0
    TimeoutConnect,  \* whether config.timeout_connect is not 0
    MaxParts,        \* bound: parts of one response before the last
    MaxActive        \* bound: requests in progress at a time

ASSUME ClientAssumption ==
    /\ Connections \subseteq Nat
    /\ None \notin Connections \cup Requests
    /\ Schemes \subseteq {"http", "https", "https_proxy"}
    /\ Timeout \in BOOLEAN /\ TimeoutConnect \in BOOLEAN
    /\ MaxParts \in Nat /\ MaxActive \in Nat

VARIABLES
    scheme,       \* "http", "https", or "https_proxy": with config.proxy_server set
    pool,         \* ClientBase::connections
    connection,   \* the connection objects
    session,      \* the request's session
    io,           \* the request whose callback the io_service thread is in
    destroyed     \* ~ClientBase() has begun

vars == <<scheme, pool, connection, session, io, destroyed>>

ConnectStages == {"resolve", "connect", "tunnel_write", "tunnel_read", "handshake"}
BodyStages == {"content", "until_eof", "chunk_size", "chunk_data", "events"}
Stages == ConnectStages \cup BodyStages \cup {"write", "header"}
Finished == {"idle", "done", "lost", "dropped"}

NewConnection ==
    [in_use |-> FALSE, attempt_reconnect |-> TRUE, socket |-> "new",
     armed |-> FALSE,      \* the timer runs
     expired |-> FALSE,    \* the handler of a timer waits in the queue
     streamed |-> FALSE]   \* history: an event stream was opened on it

\* stage is the operation waited for, ec its error code; in a callback, ec is the
\* code given to it, end is response->content.end and next what comes after it.
\* The others are history: parts delivered, writes started, whether a callback said
\* it was the last, whether the connection was ever shared with another session,
\* whether stop() was called meanwhile.
NewSession ==
    [stage |-> "idle", connection |-> None, ec |-> "pending", end |-> TRUE, next |-> "done",
     parts |-> 0, sends |-> 0, ended |-> FALSE,
     shared |-> FALSE, interrupted |-> FALSE]

Over(stage) == [NewSession EXCEPT !.stage = stage]

Stage(r) == session[r].stage
Conn(r) == session[r].connection
Active(r) == Stage(r) \notin Finished
Unused == {c \in pool : ~connection[c].in_use}
-----------------------------------------------------------------------------
Init ==
    /\ scheme \in Schemes
    /\ pool = {}
    /\ connection = [c \in Connections |-> NewConnection]
    /\ session = [r \in Requests |-> NewSession]
    /\ io = None
    /\ destroyed = FALSE

\* A connection lives while the pool or a session points to it; Unborn(P, R) are
\* the objects to be had when only the pool P and the sessions of R do.
Unborn(P, R) == {c \in Connections : c \notin P /\ \A r \in R : Conn(r) # c}
First(C) == CHOOSE c \in C : \A d \in C : c <= d

\* Objects that nobody points to any more are destroyed, their timers with them.
Collected(f) ==
    [c \in Connections |->
        IF c \in pool' \/ \E r \in Requests : session'[r].connection = c
        THEN f[c] ELSE NewConnection]

\* close(): the socket is shut down and what waits for it is cancelled.  A socket
\* that was never opened has nothing to cancel: a resolver goes on.
Closed(f, C) ==
    [c \in Connections |->
        IF c \in C /\ f[c].socket = "open" THEN [f[c] EXCEPT !.socket = "shut"] ELSE f[c]]

WaitsFor(r, C) ==
    /\ Stage(r) \in Stages \ {"resolve"} /\ session[r].ec = "pending"
    /\ Conn(r) \in C /\ connection[Conn(r)].socket = "open"

Cancelled(C) ==
    [r \in Requests |->
        IF WaitsFor(r, C) THEN [session[r] EXCEPT !.ec = "aborted"] ELSE session[r]]

Waiting(s, stage) == [s EXCEPT !.stage = stage, !.ec = "pending"]

\* connect(), then write() once connected: the session, and the timer of its
\* connection.  connect() of client_https.hpp does not limit the resolver's time.
Connecting(s, f) ==
    IF f[s.connection].socket = "new"
    THEN Waiting(s, "resolve")
    ELSE [Waiting(s, "write") EXCEPT !.sends = @ + 1]

ConnectTimer_Mut(f, c) == [f EXCEPT ![c].armed = scheme = "http" /\ TimeoutConnect]
ConnectTimer(f, c) ==
    [f EXCEPT ![c].armed = IF f[c].socket = "new" THEN scheme = "http" /\ TimeoutConnect
                                                  ELSE Timeout]

\* get_connection(): any connection not in use, or else a new one.
Obtainable_Mut == IF pool # {} THEN pool ELSE {First(Unborn(pool, Requests))}
Obtainable == IF Unused # {} THEN Unused ELSE {First(Unborn(pool, Requests))}

Request(r) ==
    /\ Stage(r) = "idle" /\ ~destroyed
    /\ Cardinality({s \in Requests : Active(s)}) < MaxActive
    /\ Unused = {} => Unborn(pool, Requests) # {}
    /\ \E c \in Obtainable :
        LET taken == [connection EXCEPT ![c].in_use = TRUE, ![c].attempt_reconnect = TRUE]
            holders == {s \in Requests : Conn(s) = c}
            new == [session[r] EXCEPT !.connection = c, !.shared = holders # {}]
        IN  /\ pool' = pool \cup {c}
            /\ session' = [s \in Requests |->
                                IF s = r THEN Connecting(new, taken)
                                         ELSE [session[s] EXCEPT !.shared = @ \/ s \in holders]]
            /\ connection' = ConnectTimer(taken, c)
    /\ UNCHANGED <<scheme, io, destroyed>>
-----------------------------------------------------------------------------
(* Handlers *)

\* The io_service thread takes the completion of r's operation, if it is one of
\* these, and continue_lock() lets it.
Handles(r, stages) ==
    /\ io = None /\ ~destroyed
    /\ Stage(r) \in stages /\ session[r].ec # "pending"

Ok(r) == session[r].ec = "none"

\* session->callback, first half: unless more parts follow, the timer is stopped
\* and the connection given back - before connections_mutex is taken.
Callback(r, code, last, then) ==
    /\ io' = r
    /\ session' = [session EXCEPT ![r].stage = "callback", ![r].ec = code,
                                  ![r].end = last, ![r].next = then]
    /\ connection' = [connection EXCEPT
                        ![Conn(r)].armed = @ /\ ~last,
                        ![Conn(r)].in_use = @ /\ ~last,
                        ![Conn(r)].attempt_reconnect = @ \/ (Stage(r) = "header" /\ Ok(r)),
                        ![Conn(r)].streamed = @ \/ then = "events"]
    /\ UNCHANGED <<scheme, destroyed>>

Finish_Mut(r, code) == Callback(r, code, FALSE, "done")
Finish(r, code) == Callback(r, code, TRUE, "done")

Part(r, then) == session[r].parts < MaxParts /\ Callback(r, "none", FALSE, then)

\* The handler starts the next operation on its connection.
Continue(r, stage) ==
    /\ session' = [session EXCEPT ![r] = Waiting(@, stage)]
    /\ UNCHANGED <<scheme, pool, io, destroyed>>

\* The operations of connect() up to the write, for each kind of client.
Route ==
    CASE scheme = "http" -> <<"resolve", "connect", "write">>
      [] scheme = "https" -> <<"resolve", "connect", "handshake", "write">>
      [] scheme = "https_proxy" ->
            <<"resolve", "connect", "tunnel_write", "tunnel_read", "handshake", "write">>

AfterStage(stage) == Route[1 + CHOOSE i \in DOMAIN Route : Route[i] = stage]

\* The handlers of connect() and handshake(): the timer is cancelled, and the next
\* operation starts under a new one.
Connected(r) ==
    /\ Handles(r, ConnectStages)
    /\ Ok(r)
    /\ LET stage == AfterStage(Stage(r))
       IN  /\ session' = [session EXCEPT ![r] = Waiting(@, stage),
                                         ![r].sends = IF stage = "write" THEN @ + 1 ELSE @]
           /\ connection' = [connection EXCEPT
                                ![Conn(r)].armed = IF stage = "write" THEN Timeout
                                                                      ELSE TimeoutConnect,
                                ![Conn(r)].socket = IF @ = "new" THEN "open" ELSE @]
    /\ UNCHANGED <<scheme, pool, io, destroyed>>

\* A failure to connect, or a proxy that does not let the tunnel through.
ConnectFailed(r) ==
    /\ Handles(r, ConnectStages)
    /\ ~Ok(r) \/ Stage(r) = "tunnel_read"
    /\ Finish(r, IF Ok(r) THEN "error" ELSE session[r].ec)
    /\ UNCHANGED pool

RequestWritten(r) ==
    /\ Handles(r, {"write"})
    /\ Ok(r)
    /\ Continue(r, "header")
    /\ UNCHANGED connection

\* read(): the header has arrived, and says what is to follow.
HeaderRead(r) ==
    /\ Handles(r, {"header"})
    /\ Ok(r)
    /\ \E stage \in {"content", "chunk_size", "until_eof"} : Continue(r, stage)
    /\ connection' = [connection EXCEPT ![Conn(r)].attempt_reconnect = TRUE]

\* ... or that nothing does, or it cannot be parsed.
HeaderEnds(r) ==
    /\ Handles(r, {"header"})
    /\ Ok(r)
    /\ \E code \in {"none", "error"} : Finish(r, code)
    /\ UNCHANGED pool

\* The connection to an event stream is open: the application is told so, with
\* content.end still true, and the session goes on.
EventsOpened(r) ==
    /\ Handles(r, {"header"})
    /\ Ok(r)
    /\ Callback(r, "none", TRUE, "events")
    /\ UNCHANGED pool

\* A Content-Length that std::stoull cannot read: the exception leaves the
\* handler and io_service->run(), and the session ends without a callback.  The
\* application is assumed to catch it and call run() again.
HeaderThrows(r) ==
    /\ Handles(r, {"header"})
    /\ Ok(r)
    /\ session' = [session EXCEPT ![r] = Over("lost")]
    /\ UNCHANGED <<scheme, pool, io, destroyed>>
    /\ connection' = Collected([connection EXCEPT ![Conn(r)].attempt_reconnect = TRUE])

MayReconnect_Always(r) == session[r].ec # "aborted"
MayReconnect_Swapped(r) == connection[Conn(r)].attempt_reconnect /\ session[r].ec = "aborted"
MayReconnect(r) == connection[Conn(r)].attempt_reconnect /\ session[r].ec # "aborted"

\* reconnect(): a new connection in the place of the old one.
Reconnect(r) ==
    /\ Handles(r, {"write", "header"})
    /\ ~Ok(r) /\ MayReconnect(r)
    /\ Conn(r) \in pool
    /\ LET others == pool \ {Conn(r)}
           unborn == Unborn(others, Requests \ {r})
           new == First(unborn)
           created == [connection EXCEPT ![new] = [NewConnection EXCEPT
                                !.in_use = TRUE, !.attempt_reconnect = FALSE]]
       IN  /\ unborn # {}
           /\ pool' = others \cup {new}
           /\ session' = [session EXCEPT
                            ![r] = Connecting([@ EXCEPT !.connection = new], created)]
           /\ connection' = Collected(ConnectTimer(created, new))
    /\ UNCHANGED <<scheme, io, destroyed>>

\* An exchange that may not be tried again, or whose connection left the pool.
ExchangeFailed(r) ==
    /\ Handles(r, {"write", "header"})
    /\ ~Ok(r)
    /\ MayReconnect(r) => Conn(r) \notin pool
    /\ Finish(r, session[r].ec)
    /\ UNCHANGED pool

\* read_content(session, length): done, or the buffer is full before.
ContentRead(r) ==
    /\ Handles(r, {"content"})
    /\ Ok(r)
    /\ Finish(r, "none") \/ Part(r, "content")
    /\ UNCHANGED pool

\* read_content(session): a connection read to its end leaves the pool.  The end
\* (eof) is no error here, any other error is one (BodyFailed); a buffer full
\* before is a part.
EofRead(r) ==
    /\ Handles(r, {"until_eof"})
    /\ session[r].ec # "aborted"
    /\ pool' = pool \ {Conn(r)}
    /\ IF Ok(r) THEN Part(r, "until_eof") ELSE Finish(r, "none")

\* read_chunked_transfer_encoded: the size line.  A chunk that does not fit the
\* buffer makes what is there a part.
ChunkSizeRead(r) ==
    /\ Handles(r, {"chunk_size"})
    /\ Ok(r)
    /\ \/ \E code \in {"none", "error"} : Finish(r, code) /\ UNCHANGED pool
       \/ \E stage \in {"chunk_data", "chunk_size"} :
            \/ Continue(r, stage) /\ UNCHANGED connection
            \/ Part(r, stage) /\ UNCHANGED pool

\* The rest of a chunk and its line end, in one read or in two.
ChunkRead(r) ==
    /\ Handles(r, {"chunk_data"})
    /\ Ok(r)
    /\ \E stage \in {"chunk_data", "chunk_size"} : Continue(r, stage)
    /\ UNCHANGED connection

\* read_server_sent_event
EventRead(r) ==
    /\ Handles(r, {"events"})
    /\ Ok(r)
    /\ Part(r, "events")
    /\ UNCHANGED pool

BodyFailed(r) ==
    /\ Handles(r, BodyStages)
    /\ ~Ok(r)
    /\ Finish(r, session[r].ec)
    /\ UNCHANGED pool

\* What the prune loop leaves of the pool: not the failed connection, and one at
\* most of those not in use.
Pruned_None(r) == {IF session[r].ec # "none" THEN pool \ {Conn(r)} ELSE pool}
Pruned_All(r) ==
    LET kept == IF session[r].ec # "none" THEN pool \ {Conn(r)} ELSE pool
    IN  IF kept = {} THEN {kept} ELSE {{c} : c \in kept}
Pruned(r) ==
    LET kept == IF session[r].ec # "none" THEN pool \ {Conn(r)} ELSE pool
        unused == kept \cap Unused
    IN  IF unused = {} THEN {kept} ELSE {(kept \ unused) \cup {c} : c \in unused}

\* session->callback, second half: prune the pool, call the application - which
\* may close() the response - and go on with a new Response.
EndCallback(r) ==
    /\ io = r
    /\ pool' \in Pruned(r)
    /\ io' = None
    /\ UNCHANGED <<scheme, destroyed>>
    /\ LET s == session[r]
           then == [Waiting(s, s.next) EXCEPT
                        !.end = TRUE, !.next = "done", !.ended = s.end,
                        !.parts = IF s.end THEN @ ELSE @ + 1]
       IN  \/ /\ s.next = "done"
              /\ session' = [session EXCEPT ![r] = Over("done")]
              /\ connection' = Collected(connection)
           \/ /\ s.next # "done"
              /\ \E C \in SUBSET {Conn(r)} :
                    /\ session' = [Cancelled(C) EXCEPT ![r] = then]
                    /\ connection' = Collected(Closed(connection, C))

\* A handler of a destroyed client: continue_lock() is null, and the session goes.
Dropped(r) ==
    /\ destroyed /\ Stage(r) \in Stages /\ session[r].ec # "pending"
    /\ session' = [session EXCEPT ![r] = Over("dropped")]
    /\ UNCHANGED <<scheme, pool, io, destroyed>>
    /\ connection' = Collected(connection)
-----------------------------------------------------------------------------
(* Timers, the network and the application *)

\* The timer's handler is queued; cancelling the timer no longer stops it.
Expire(c) ==
    /\ connection[c].armed
    /\ connection' = [connection EXCEPT ![c].armed = FALSE, ![c].expired = TRUE]
    /\ UNCHANGED <<scheme, pool, session, io, destroyed>>

TimerFires(c) ==
    /\ io = None /\ connection[c].expired
    /\ connection' = Closed([connection EXCEPT ![c].expired = FALSE], {c})
    /\ session' = Cancelled({c})
    /\ UNCHANGED <<scheme, pool, io, destroyed>>

Complete(r, code) ==
    /\ Stage(r) \in Stages /\ session[r].ec = "pending"
    /\ session' = [session EXCEPT ![r].ec = code]
    /\ UNCHANGED <<scheme, pool, connection, io, destroyed>>

\* What arrived before the connection was closed can still be read.  Where success
\* can only mean one more part, the bound on the parts holds it back.
Succeed(r) ==
    /\ Stage(r) \in {"connect", "tunnel_write", "handshake", "write"} =>
        connection[Conn(r)].socket = "open"
    /\ Stage(r) \in {"until_eof", "events"} => session[r].parts < MaxParts
    /\ Complete(r, "none")

\* The peer may not be there, or go; a read up to a delimiter may fill the buffer.
Fail(r) == Complete(r, "error")

\* stop(): close() shuts a socket down before it cancels, so that an operation may
\* end by the one or by the other.
CloseAll ==
    /\ pool' = {}
    /\ \E code \in [Requests -> {"aborted", "error"}] :
        session' = [r \in Requests |->
            [session[r] EXCEPT !.interrupted = Active(r),
                               !.ec = IF WaitsFor(r, pool) THEN code[r] ELSE @]]
    /\ UNCHANGED <<scheme, io>>
    /\ connection' = Collected(Closed(connection, pool))

Stop ==
    /\ ~destroyed /\ pool # {}
    /\ CloseAll
    /\ UNCHANGED destroyed

\* The destructor: handler_runner->stop() waits for the handler in progress.
Destroy ==
    /\ ~destroyed /\ io = None
    /\ destroyed' = TRUE
    /\ CloseAll
-----------------------------------------------------------------------------
Handler(r) ==
    \/ Connected(r) \/ ConnectFailed(r)
    \/ RequestWritten(r) \/ Reconnect(r) \/ ExchangeFailed(r)
    \/ HeaderRead(r) \/ HeaderEnds(r) \/ EventsOpened(r) \/ HeaderThrows(r)
    \/ ContentRead(r) \/ EofRead(r) \/ ChunkSizeRead(r) \/ ChunkRead(r) \/ EventRead(r)
    \/ BodyFailed(r)
    \/ EndCallback(r)
    \/ Dropped(r)

Next ==
    \/ \E r \in Requests : Request(r) \/ Handler(r) \/ Succeed(r) \/ Fail(r)
    \/ \E c \in Connections : Expire(c) \/ TimerFires(c)
    \/ Stop \/ Destroy

Spec == Init /\ [][Next]_vars

\* The io_service's queue is first in, first out: a queued handler runs.  Time
\* passes, resolvers answer, and little is left to read of a closed connection.
Fairness ==
    /\ \A r \in Requests :
        /\ SF_vars(Handler(r))
        /\ WF_vars(Fail(r) /\ Stage(r) = "resolve")
        /\ SF_vars(Fail(r) /\ connection[Conn(r)].socket = "shut")
    /\ \A c \in Connections : WF_vars(Expire(c)) /\ SF_vars(TimerFires(c))

FairSpec == Spec /\ Fairness
-----------------------------------------------------------------------------
\* Two requests in progress never use one connection, but in the two ways the
\* code lets them: a session in its callback has already given its connection
\* back, and an event stream gives its own back when it is opened and reads on,
\* and gives it back again, whoever has taken it, when it ends.
OneOwner ==
    \A r, s \in Requests :
        r # s /\ Active(r) /\ Active(s) /\ Conn(r) = Conn(s) =>
            Stage(r) = "callback" \/ Stage(s) = "callback" \/ connection[Conn(r)].streamed

\* A request is written twice at most, and never again once the application has
\* been given a part of its response.
ResendOnlyUnanswered ==
    [][\A r \in Requests : session'[r].sends > session[r].sends =>
            session[r].sends < 2 /\ session[r].parts = 0 /\ ~session[r].ended]_vars

\* An exchange that breaks is tried once more on a new connection before its error
\* reaches the application (README: the client performs reconnects when needed),
\* unless stop() was called or another session meddled with the connection.
RetriedBeforeError ==
    [][\A r \in Requests :
        /\ Stage(r) \in {"write", "header"} /\ session[r].ec = "error"
        /\ session'[r].stage = "callback"
        /\ ~session[r].shared /\ ~session[r].interrupted
        => session[r].sends = 2]_vars

\* When no request is in progress, at most one connection is kept open.
PoolShrinks ==
    (\A r \in Requests : ~Active(r)) => Cardinality(Unused) <= 1

\* A pooled connection that is in use has a session that will give it back: none
\* is lost to the pool, unless a handler was left by an exception.
NoLeak ==
    \A c \in pool \ Unused :
        \/ \E r \in Requests : Active(r) /\ Conn(r) = c
        \/ \E r \in Requests : Stage(r) = "lost"

\* stop() and the destructor close what the pool holds, which is the connection of
\* every request they should end - but of a body read until the connection ends,
\* and of an event stream, which are out of the pool or can be pruned from it.
StopReachesAll ==
    \A r \in Requests : Active(r) /\ ~session[r].interrupted /\ ~session[r].shared =>
        Conn(r) \in pool \/ Stage(r) \in {"until_eof", "callback", "events"}

\* With both timeouts set every request comes to its last callback, except an event
\* stream, whose timer is stopped, and a session whose handler threw - after which
\* the others go on if the application calls run() again.
Answered ==
    \A r \in Requests :
        Active(r) ~> ~Active(r) \/ Stage(r) = "events" \/ destroyed
=============================================================================
