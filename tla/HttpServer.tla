----------------------------- MODULE HttpServer -----------------------------
(***************************************************************************)
(* The server (server_http.hpp, server_https.hpp): its accept loop, the    *)
(* connections it serves and the set it keeps of them, their timers, and   *)
(* start(), stop() and the destructor.                                     *)
(*                                                                         *)
(* A handler is one step.  A connection has one operation outstanding at   *)
(* most, so that its handlers never meet; what another thread does comes   *)
(* between two of them: a timer, stop(), the release of a Response.  What  *)
(* the scopes of the handlers do for the destructor is in ScopeRunner,     *)
(* what the application sends with a Response in ResponseSend.             *)
(***************************************************************************)
EXTENDS Integers, FiniteSets

CONSTANTS
    Connections,    \* addresses of Connection objects, used again once freed
    Schemes,        \* "http", "https"
    Services,       \* "internal" io_service, or one of the application
    timeout_request, timeout_content,   \* seconds, 0 for none
    MaxStarts       \* bound: calls of start()

ASSUME ServerAssumption ==
    /\ Schemes \subseteq {"http", "https"}
    /\ Services \subseteq {"internal", "external"}
    /\ timeout_request \in Int /\ timeout_content \in Int
    /\ MaxStarts \in Nat

VARIABLES
    scheme, service,
    listening,      \* the acceptor is open
    running,        \* threads are in io_service->run()
    starts,         \* calls of start()
    destroyed,      \* the destructor has run
    set,            \* connections->set, of plain pointers
    conn            \* the Connection objects and their sessions

server == <<scheme, service, listening, running, starts, destroyed>>
vars == <<server, set, conn>>

\* life: a connection nobody holds is taken out of the set, then deleted.
\* op, ec: the operation outstanding, if any, and how it has ended.
\* app: the application holds the Response.  open: close() was not called.
\* timer, fired: the timer is set; a timer's handler is queued, which nothing
\* can cancel, not even a later set_timeout().
\* fate, late: history, see Stop and Upgrade.
NoConnection ==
    [life |-> "none", op |-> "none", ec |-> "none", app |-> FALSE, open |-> FALSE,
     timer |-> FALSE, fired |-> FALSE, fate |-> "none", late |-> FALSE]

Init ==
    /\ scheme \in Schemes /\ service \in Services
    /\ listening = FALSE /\ running = (service = "external")
    /\ starts = 0 /\ destroyed = FALSE
    /\ set = {}
    /\ conn = [c \in Connections |-> NoConnection]
-----------------------------------------------------------------------------
(* Connection and Session *)

\* create_connection, with the accept operation that is started on it at once.  A
\* closed acceptor fails it (bad_descriptor).
Accepting(open) ==
    [NoConnection EXCEPT !.life = "alive", !.op = "accept", !.open = TRUE, !.fate = "tracked",
                         !.ec = IF open THEN "pending" ELSE "error"]

Unused == {c \in Connections : conn[c].life = "none"}

Starts(r, op) == [r EXCEPT !.op = op, !.ec = "pending"]
Ends(r) == [r EXCEPT !.op = "none", !.ec = "none"]

\* set_timeout(): the timer there was is gone, and 0 seconds set no other.
SetTimeout_Mut(r, seconds) == [r EXCEPT !.timer = seconds # 0 /\ ~@]
SetTimeout(r, seconds) == [r EXCEPT !.timer = seconds # 0]
CancelTimeout(r) == [r EXCEPT !.timer = FALSE]

\* close(): an operation that waits is cancelled; one that has ended, or an accept,
\* is not.
Closed(r) ==
    [r EXCEPT !.open = FALSE,
              !.ec = IF @ = "pending" /\ r.op # "accept" THEN "aborted" ELSE @]

\* read(session): the next request, with a new session.
Read(r) == Starts(SetTimeout(r, timeout_request), "header")

Held_Mut(r) == r.op # "none"
Held(r) == r.op # "none" \/ r.app

Set(c, r) == conn' = [conn EXCEPT ![c] = r]

\* The connection's deleter takes it out of the set ...
Without_Mut(c) == set
Without(c) == set \ {c}

Drop(c) ==
    /\ conn[c].life = "alive" /\ ~Held(conn[c])
    /\ set' = Without(c)
    /\ Set(c, [conn[c] EXCEPT !.life = "erased"])
    /\ UNCHANGED server

\* ... before it deletes it.
Free(c) ==
    /\ conn[c].life = "erased"
    /\ Set(c, NoConnection)
    /\ UNCHANGED <<server, set>>
-----------------------------------------------------------------------------
(* The network and the timers *)

Reads == {"handshake", "header", "content", "size", "chunk", "chunk_end"}

\* An accept needs the acceptor, a write the connection; what has been received
\* can still be read from a connection that was shut down.
Succeeds(c) ==
    /\ conn[c].ec = "pending"
    /\ conn[c].op = "write" => conn[c].open
    /\ Set(c, [conn[c] EXCEPT !.ec = "ok"])
    /\ UNCHANGED <<server, set>>

Fails(c) ==
    /\ conn[c].ec = "pending"
    /\ Set(c, [conn[c] EXCEPT !.ec = "error"])
    /\ UNCHANGED <<server, set>>

TimerFires(c) ==
    /\ conn[c].timer /\ running
    /\ Set(c, [conn[c] EXCEPT !.timer = FALSE, !.fired = TRUE])
    /\ UNCHANGED <<server, set>>

\* The timer has a weak pointer to its connection.
TimerHandler(c) ==
    /\ conn[c].fired /\ running
    /\ LET r == [conn[c] EXCEPT !.fired = FALSE]
       IN  Set(c, IF conn[c].life = "alive" /\ Held(r) THEN Closed(r) ELSE r)
    /\ UNCHANGED <<server, set>>
-----------------------------------------------------------------------------
(* Handlers *)

Runs(c, op) == running /\ conn[c].op = op /\ conn[c].ec # "pending"
Ok(c) == conn[c].ec = "ok"

\* continue_lock(): no scope is given once the server is destroyed.
Admits_Mut == TRUE
Admits == ~destroyed

TurnedAway(c, op) ==
    /\ Runs(c, op) /\ ~Admits
    /\ Set(c, Ends(conn[c]))
    /\ UNCHANGED <<server, set>>

AcceptsAgain_Mut(ec) == ec = "ok"
AcceptsAgain(ec) == ec # "aborted"

Accepted(c, d) ==
    /\ Runs(c, "accept") /\ Admits
    /\ AcceptsAgain(conn[c].ec) /\ d \in Unused
    /\ set' = set \cup {d}
    /\ LET r == IF ~Ok(c) THEN Ends(conn[c])
                ELSE IF scheme = "http" THEN Read(conn[c])
                ELSE Starts(SetTimeout(conn[c], timeout_request), "handshake")
       IN  conn' = [conn EXCEPT ![c] = r, ![d] = Accepting(listening)]
    /\ UNCHANGED server

\* The handler of an accept that stop() has aborted.
AcceptEnded(c) ==
    /\ Runs(c, "accept") /\ Admits /\ ~AcceptsAgain(conn[c].ec)
    /\ Set(c, Ends(conn[c]))
    /\ UNCHANGED <<server, set>>

\* cancel_timeout() comes before continue_lock().
Handshaken(c) ==
    /\ Runs(c, "handshake")
    /\ LET r == CancelTimeout(conn[c])
       IN  Set(c, IF Ok(c) /\ Admits THEN Read(r) ELSE Ends(r))
    /\ UNCHANGED <<server, set>>

\* find_resource: the resource's function gets the Response, or no resource
\* matches ...
FindResource(c, r) ==
    /\ \E found \in BOOLEAN : Set(c, [Ends(r) EXCEPT !.app = found])
    /\ UNCHANGED <<server, set>>

\* ... or the application takes the socket over.
Upgrade(c, r) ==
    /\ set' = Without(c)
    /\ Set(c, [Ends(r) EXCEPT !.fate = "upgraded", !.open = FALSE])
    /\ UNCHANGED server

Resource(c, r) == FindResource(c, r) \/ Upgrade(c, r)

Goes(c, r) == Set(c, r) /\ UNCHANGED <<server, set>>

\* The header: its timer is replaced by that of the content before continue_lock().
\* A message that is not understood or too large ends the session, whatever has
\* been written to the Response of status 413: it has no deleter to send it.
HeaderRead(c) ==
    /\ Runs(c, "header")
    /\ LET r == SetTimeout(conn[c], timeout_content)
       IN  \/ Goes(c, Ends(r))
           \/ Ok(c) /\ Admits /\ \E op \in {"content", "size"} : Goes(c, Starts(r, op))
           \/ Ok(c) /\ Admits /\ Resource(c, r)

ContentRead(c) ==
    /\ Runs(c, "content") /\ Admits
    /\ \/ Ok(c) /\ Resource(c, conn[c])
       \/ ~Ok(c) /\ Goes(c, Ends(conn[c]))

\* A chunk's size: not a number or too large, zero, or that of a chunk of which
\* some or only the end is to be read, or nothing.
ChunkSizeRead(c) ==
    /\ Runs(c, "size") /\ Admits
    /\ \/ Goes(c, Ends(conn[c]))
       \/ Ok(c) /\ Resource(c, conn[c])
       \/ Ok(c) /\ \E op \in {"chunk", "chunk_end", "size"} : Goes(c, Starts(conn[c], op))

ChunkRead(c) ==
    /\ Runs(c, "chunk") /\ Admits
    /\ Goes(c, IF Ok(c) THEN Starts(conn[c], "chunk_end") ELSE Ends(conn[c]))

\* A failure calls on_error without asking whether it is set.  Where it is not, the
\* exception ends the session all the same, and leaves run(): the application is
\* assumed to set on_error, or to call run() again.
ChunkEndRead(c) ==
    /\ Runs(c, "chunk_end") /\ Admits
    /\ Goes(c, IF Ok(c) THEN Starts(conn[c], "size") ELSE Ends(conn[c]))

\* The application lets go of the Response, whose deleter sends it.
Release(c) ==
    /\ conn[c].app
    /\ Goes(c, Starts([conn[c] EXCEPT !.app = FALSE], "write"))

\* The connection is kept for another request or not: Connection, the version and
\* close_connection_after_response say so.
Written(c) ==
    /\ Runs(c, "write") /\ Admits
    /\ LET r == CancelTimeout(conn[c])
       IN  Goes(c, Ends(r)) \/ (Ok(c) /\ Goes(c, Read(r)))

Handler(c) ==
    \/ \E op \in {"accept", "content", "size", "chunk", "chunk_end", "write"} : TurnedAway(c, op)
    \/ (\E d \in Connections : Accepted(c, d)) \/ AcceptEnded(c) \/ Handshaken(c)
    \/ HeaderRead(c) \/ ContentRead(c)
    \/ ChunkSizeRead(c) \/ ChunkRead(c) \/ ChunkEndRead(c)
    \/ Written(c)
-----------------------------------------------------------------------------
(* start(), stop() and the destructor *)

\* start() throws when the acceptor is open, and returns when the internal
\* io_service has been stopped.
Start ==
    /\ ~listening /\ ~destroyed /\ starts < MaxStarts
    /\ service = "internal" => ~running
    /\ listening' = TRUE /\ running' = TRUE /\ starts' = starts + 1
    /\ \E d \in Unused :
        /\ set' = set \cup {d}
        /\ Set(d, Accepting(TRUE))
    /\ UNCHANGED <<scheme, service, destroyed>>

\* A connection whose accept has ended and not been handled is late: whether
\* close() reaches its socket depends on when Asio hands it over.
Late(r) == r.op = "accept" /\ r.ec = "ok"

Stopped_Mut(c, reached) ==
    IF c \in set THEN [conn[c] EXCEPT !.fate = "stopped"] ELSE conn[c]

Stopped(c, reached) ==
    LET r == conn[c]
        aborted == IF r.op = "accept" /\ r.ec = "pending" THEN [r EXCEPT !.ec = "aborted"] ELSE r
        closed == IF Late(r) /\ c \notin reached THEN [r EXCEPT !.late = TRUE] ELSE Closed(aborted)
    IN  IF c \in set THEN [closed EXCEPT !.fate = "stopped"] ELSE aborted

\* stop(): the acceptor is closed, then every connection of the set, which is
\* emptied.
StopAll ==
    /\ listening' = FALSE
    /\ \E reached \in SUBSET {c \in set : Late(conn[c])} :
        conn' = [c \in Connections |-> Stopped(c, reached)]
    /\ set' = {}

Stop ==
    /\ starts > 0 /\ ~destroyed
    /\ StopAll
    /\ running' = (service = "external")
    /\ UNCHANGED <<scheme, service, starts, destroyed>>

\* With an internal io_service, start() has returned, and the handlers that are
\* left are destroyed with it.
Destroy ==
    /\ ~destroyed
    /\ service = "internal" => ~running /\ \A c \in Connections : ~conn[c].app
    /\ destroyed' = TRUE
    /\ IF service = "internal"
       THEN /\ listening' = FALSE /\ set' = {}
            /\ conn' = [c \in Connections |-> NoConnection]
       ELSE StopAll
    /\ UNCHANGED <<scheme, service, running, starts>>

Next ==
    \/ Start \/ Stop \/ Destroy
    \/ \E c \in Connections :
        \/ Handler(c)
        \/ Succeeds(c) \/ Fails(c)
        \/ TimerFires(c) \/ TimerHandler(c)
        \/ Release(c)
        \/ Drop(c) \/ Free(c)

Spec == Init /\ [][Next]_vars

\* The threads of the io_service run the handlers that are ready, timers expire, a
\* cancelled or closed operation ends (a shut down socket has finitely many bytes
\* left), objects are deleted.
Fairness ==
    \A c \in Connections :
        /\ WF_vars(Handler(c))
        /\ WF_vars(TimerFires(c)) /\ WF_vars(TimerHandler(c))
        /\ SF_vars(~conn[c].open /\ Fails(c))
        /\ WF_vars(Drop(c)) /\ WF_vars(Free(c))
        /\ WF_vars(destroyed /\ Release(c))

FairSpec == Spec /\ Fairness
-----------------------------------------------------------------------------
Connection ==
    [life : {"none", "alive", "erased"},
     op : Reads \cup {"none", "accept", "write"},
     ec : {"none", "pending", "ok", "error", "aborted"},
     app : BOOLEAN, open : BOOLEAN, timer : BOOLEAN, fired : BOOLEAN,
     fate : {"none", "tracked", "stopped", "upgraded"}, late : BOOLEAN]

TypeOK ==
    /\ scheme \in Schemes /\ service \in Services
    /\ listening \in BOOLEAN /\ running \in BOOLEAN /\ destroyed \in BOOLEAN
    /\ starts \in 0 .. MaxStarts
    /\ set \subseteq Connections
    /\ conn \in [Connections -> Connection]
    /\ \A c \in Connections :
        /\ conn[c].op = "none" <=> conn[c].ec = "none"
        /\ conn[c].app \/ conn[c].op # "none" => conn[c].life = "alive"
        /\ ~(conn[c].app /\ conn[c].op # "none")

\* The set of plain pointers has no pointer to a deleted connection, and every
\* connection that neither stop() nor an upgrade took out of it, so that stop()
\* can close it.
SetIsExact ==
    \A c \in Connections :
        c \in set <=> conn[c].life = "alive" /\ conn[c].fate = "tracked"

\* A server that listens has an accept outstanding, and no more of them than
\* start() has been called: one that stop() found ended is not aborted.
Accepts == {c \in Connections : conn[c].op = "accept" /\ conn[c].ec # "aborted"}
NeverDeaf == listening => Accepts # {} /\ Cardinality(Accepts) <= starts

\* stop() leaves no connection open except those whose accept was done and not
\* handled yet.
Served(c) == conn[c].app \/ conn[c].op \in Reads \cup {"write"}
StopCloses ==
    \A c \in Connections :
        Served(c) /\ conn[c].open =>
            (listening /\ conn[c].fate = "tracked") \/ conn[c].late

\* server_http.hpp:473 says "Stop accepting new requests, and close current
\* connections": a connection that stop() took out of its set is not served on.
StopClosesAll ==
    \A c \in Connections : Served(c) /\ conn[c].fate = "stopped" => ~conn[c].open

\* No peer keeps a connection waiting for ever, however slowly it sends its chunks
\* or takes what is sent to it: the request is read, or given up, and the response
\* is written, or given up, too.  timeout_request is for the handshake and a header,
\* timeout_content for all that follows it; 0 lets the peer take its time.
Timeout(op) == IF op \in {"handshake", "header"} THEN timeout_request ELSE timeout_content
Reading(c) == conn[c].op \in Reads /\ Timeout(conn[c].op) # 0
Writing(c) == conn[c].op = "write" /\ timeout_content # 0
EveryWaitEnds ==
    \A c \in Connections :
        /\ Reading(c) ~> ~Reading(c) \/ ~running
        /\ Writing(c) ~> ~Writing(c) \/ ~running

\* Whatever was going on when the server was destroyed, all connections are
\* deleted in the end, if every wait has a timer: stop() can miss the connection
\* of an accept that was done.
NothingOutlivesTheServer ==
    destroyed /\ timeout_request # 0 /\ timeout_content # 0
        ~> \A c \in Connections : conn[c] = NoConnection
=============================================================================
