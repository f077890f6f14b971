-------------------------- MODULE HttpServerProofs --------------------------
(***************************************************************************)
(* For any number of connections and of calls of start(): the server's set *)
(* of plain pointers is exact, a server that listens has an accept         *)
(* outstanding, and stop() closes what is served.  For texts of any length *)
(* that it exchanges with the client: where a header ends, that its fields *)
(* tell where the content does, and that each side reads the request or    *)
(* the response that the other has written.  For any number of fields of a *)
(* query and any number of attributes of a header: each is read back.      *)
(***************************************************************************)
EXTENDS HttpServer, HttpMessages, SetInductions, FiniteSetTheorems, SequenceTheorems, TLAPS

(* The inductive invariant.                                                *)

\* What TypeOK says of one connection besides its type.
Sound(r) ==
    /\ r.op = "none" <=> r.ec = "none"
    /\ r.app \/ r.op # "none" => r.life = "alive"
    /\ ~(r.app /\ r.op # "none")

\* An accept that waits waits for the acceptor that is open.  A connection that has
\* been accepted is open only if stop() would find it in the set, or was too early.
Tracked(r) == listening /\ r.fate = "tracked"
Taken(r) == r.app \/ r.op \in Reads \cup {"write"} \/ (r.op = "accept" /\ r.ec = "ok")
Legitimate(r) ==
    /\ r.op = "accept" /\ r.ec = "pending" => Tracked(r)
    /\ Taken(r) /\ r.open => Tracked(r) \/ r.late

OpenInv == \A c \in Connections : Legitimate(conn[c])

\* However often the server was stopped in between, each start() has left one accept
\* at most.
AcceptInv ==
    /\ IsFiniteSet(Accepts) /\ Cardinality(Accepts) <= starts
    /\ listening => Accepts # {} /\ ~destroyed

ServerInv == TypeOK /\ SetIsExact /\ OpenInv /\ AcceptInv

-----------------------------------------------------------------------------
(* Operators on one connection *)

\* A connection object that does not exist yet, and one that is to be accepted.
LEMMA NewConnections ==
  ASSUME NEW open \in BOOLEAN
  PROVE  /\ NoConnection \in Connection /\ Sound(NoConnection)
         /\ Accepting(open) \in Connection /\ Sound(Accepting(open))
         /\ Accepting(open).op = "accept" /\ Accepting(open).fate = "tracked"
         /\ Accepting(open).life = "alive" /\ ~Accepting(open).app
         /\ Accepting(open).ec = IF open THEN "pending" ELSE "error"
  BY DEF NoConnection, Accepting, Connection, Sound

\* The fields that matter after an operation is started or has ended.
LEMMA Operations ==
  ASSUME NEW r \in Connection, NEW op \in Reads \cup {"write"}, NEW seconds
  PROVE  /\ Starts(r, op) \in Connection /\ Ends(r) \in Connection
         /\ Starts(r, op) = [r EXCEPT !.op = op, !.ec = "pending"]
         /\ Ends(r) = [r EXCEPT !.op = "none", !.ec = "none"]
         /\ SetTimeout(r, seconds) \in Connection /\ CancelTimeout(r) \in Connection
         /\ Closed(r) \in Connection
  <1>1. Starts(r, op) \in Connection
    BY DEF Starts, Connection, Reads
  <1>2. Ends(r) \in Connection
    BY DEF Ends, Connection
  <1>3. SetTimeout(r, seconds) \in Connection /\ CancelTimeout(r) \in Connection
    BY DEF SetTimeout, CancelTimeout, Connection
  <1>4. Closed(r) \in Connection
    BY DEF Closed, Connection
  <1> QED
    BY <1>1, <1>2, <1>3, <1>4 DEF Starts, Ends

-----------------------------------------------------------------------------
(* Steps of one connection *)

Outstanding(r) == r.op = "accept" /\ r.ec # "aborted"

\* A step that changes one connection keeps the invariant if what becomes of the
\* connection is sound, if the set is kept exact, and if no accept is lost while the
\* server listens, or gained.
LEMMA OneConnection ==
  ASSUME ServerInv, NEW c \in Connections, NEW r \in Connection,
         Set(c, r), UNCHANGED server, Sound(r), Legitimate(r),
         set' \subseteq Connections, set' \ {c} = set \ {c},
         c \in set' <=> r.life = "alive" /\ r.fate = "tracked",
         Outstanding(r) => Outstanding(conn[c]),
         listening /\ Outstanding(conn[c]) => Outstanding(r)
  PROVE  ServerInv'
  <1> USE DEF ServerInv, server, Set
  <1>1. conn \in [Connections -> Connection]
    BY DEF TypeOK
  <1>2. /\ conn' \in [Connections -> Connection]
        /\ conn'[c] = r /\ \A d \in Connections \ {c} : conn'[d] = conn[d]
    BY <1>1
  <1>3. TypeOK'
    <2>1. \A d \in Connections : Sound(conn'[d])
      BY <1>2 DEF TypeOK, Sound
    <2> QED
      BY <1>2, <2>1 DEF TypeOK, Sound
  <1>4. SetIsExact'
    BY <1>2 DEF SetIsExact
  <1>5. OpenInv'
    BY <1>2 DEF OpenInv, Legitimate, Tracked, Taken
  <1>6. AcceptInv'
    <2>1. Accepts = {d \in Connections : Outstanding(conn[d])}
      BY DEF Accepts, Outstanding
    <2>2. Accepts' = {d \in Connections : Outstanding(conn'[d])}
      BY DEF Accepts, Outstanding
    <2>3. Accepts' \subseteq Accepts
      BY <1>2, <2>1, <2>2
    <2>4. listening => Accepts \subseteq Accepts'
      BY <1>2, <2>1, <2>2
    <2>5. IsFiniteSet(Accepts') /\ Cardinality(Accepts') <= Cardinality(Accepts)
      BY <2>3, FS_Subset DEF AcceptInv
    <2>6. /\ Cardinality(Accepts) \in Nat /\ Cardinality(Accepts') \in Nat
          /\ starts \in Nat
      BY <2>5, FS_CardinalityType, ServerAssumption DEF AcceptInv, TypeOK
    <2>7. Cardinality(Accepts') <= starts
      BY <2>5, <2>6 DEF AcceptInv
    <2> QED
      BY <2>4, <2>5, <2>7 DEF AcceptInv
  <1> QED
    BY <1>3, <1>4, <1>5, <1>6

\* In particular a step that leaves the connection what it was, in the set or not,
\* alive and accepted or not.
LEMMA SameConnection ==
  ASSUME ServerInv, NEW c \in Connections, NEW r \in Connection,
         Goes(c, r), Sound(r), Legitimate(r),
         r.life = conn[c].life, r.fate = conn[c].fate,
         Outstanding(r) => Outstanding(conn[c]),
         listening /\ Outstanding(conn[c]) => Outstanding(r)
  PROVE  ServerInv'
  <1>1. Set(c, r) /\ UNCHANGED server /\ set' = set
    BY DEF Goes
  <1>2. set \subseteq Connections /\ (c \in set <=> r.life = "alive" /\ r.fate = "tracked")
    BY DEF ServerInv, TypeOK, SetIsExact
  <1> QED
    BY <1>1, <1>2, OneConnection

\* The connections there are, with what the invariant says of each.
LEMMA Known ==
  ASSUME ServerInv, NEW c \in Connections
  PROVE  conn[c] \in Connection /\ Sound(conn[c]) /\ Legitimate(conn[c])
  BY DEF ServerInv, TypeOK, Sound, OpenInv

\* A connection that has nothing outstanding any more.
LEMMA Ending ==
  ASSUME ServerInv, NEW c \in Connections, NEW r \in Connection, Goes(c, Ends(r)),
         ~r.app, r.life = conn[c].life, r.fate = conn[c].fate,
         listening => ~Outstanding(conn[c])
  PROVE  ServerInv'
  <1>1. /\ Ends(r) \in Connection /\ Ends(r).op = "none" /\ Ends(r).ec = "none"
        /\ Ends(r).app = FALSE
        /\ Ends(r).life = conn[c].life /\ Ends(r).fate = conn[c].fate
    BY DEF Ends, Connection
  <1>2. Sound(Ends(r)) /\ Legitimate(Ends(r)) /\ ~Outstanding(Ends(r))
    BY <1>1 DEF Sound, Legitimate, Taken, Outstanding, Reads
  <1> QED
    BY <1>1, <1>2, SameConnection

\* A connection that goes on to another operation, other than an accept.
LEMMA Continuing ==
  ASSUME ServerInv, NEW c \in Connections, NEW r \in Connection,
         NEW op \in Reads \cup {"write"}, Goes(c, Starts(r, op)),
         Taken(conn[c]), conn[c].op # "accept", ~r.app,
         r.life = conn[c].life, r.fate = conn[c].fate,
         r.open = conn[c].open, r.late = conn[c].late
  PROVE  ServerInv'
  <1>1. Sound(conn[c]) /\ Legitimate(conn[c]) /\ conn[c].life = "alive"
    BY Known DEF Sound, Taken, Reads
  <1>2. /\ Starts(r, op) \in Connection
        /\ Starts(r, op).op = op /\ Starts(r, op).ec = "pending" /\ Starts(r, op).app = FALSE
        /\ Starts(r, op).life = "alive" /\ Starts(r, op).fate = conn[c].fate
        /\ Starts(r, op).open = conn[c].open /\ Starts(r, op).late = conn[c].late
    BY <1>1 DEF Starts, Connection, Reads
  <1>3. op \notin {"none", "accept"}
    BY DEF Reads
  <1>4. Sound(Starts(r, op)) /\ Legitimate(Starts(r, op)) /\ ~Outstanding(Starts(r, op))
    BY <1>1, <1>2, <1>3 DEF Sound, Legitimate, Taken, Tracked, Outstanding
  <1>5. ~Outstanding(conn[c])
    BY DEF Outstanding
  <1> QED
    BY <1>1, <1>2, <1>4, <1>5, SameConnection

\* Timers do not concern the invariant, nor the scopes.
LEMMA Timed ==
  ASSUME NEW r \in Connection, NEW seconds,
         NEW t \in {SetTimeout(r, seconds), CancelTimeout(r)}
  PROVE  /\ t \in Connection
         /\ t.life = r.life /\ t.fate = r.fate /\ t.open = r.open /\ t.late = r.late
         /\ t.app = r.app /\ t.op = r.op /\ t.ec = r.ec
  BY DEF SetTimeout, CancelTimeout, Connection

\* The network: an operation ends.
LEMMA NetworkStep ==
  ASSUME ServerInv, NEW c \in Connections, Succeeds(c) \/ Fails(c)
  PROVE  ServerInv'
  <1>1. conn[c] \in Connection /\ Sound(conn[c]) /\ Legitimate(conn[c])
    BY Known
  <1>2. PICK ec \in {"ok", "error"} : Goes(c, [conn[c] EXCEPT !.ec = ec])
    BY DEF Succeeds, Fails, Goes
  <1> DEFINE r == [conn[c] EXCEPT !.ec = ec]
  <1>3. conn[c].ec = "pending"
    BY DEF Succeeds, Fails
  <1>4. /\ r \in Connection /\ r.ec = ec
        /\ r.life = conn[c].life /\ r.fate = conn[c].fate /\ r.open = conn[c].open
        /\ r.late = conn[c].late /\ r.app = conn[c].app /\ r.op = conn[c].op
    BY <1>1 DEF Connection
  <1> HIDE DEF r
  <1>5. Sound(r) /\ Legitimate(r) /\ (Outstanding(r) <=> Outstanding(conn[c]))
    BY <1>1, <1>3, <1>4 DEF Sound, Legitimate, Taken, Tracked, Outstanding
  <1>6. Goes(c, r)
    BY <1>2 DEF r
  <1> QED
    BY <1>4, <1>5, <1>6, SameConnection

\* The timers: a connection is closed at most, which does not end an accept.
LEMMA TimerStep ==
  ASSUME ServerInv, NEW c \in Connections, TimerFires(c) \/ TimerHandler(c)
  PROVE  ServerInv'
  <1>1. conn[c] \in Connection /\ Sound(conn[c]) /\ Legitimate(conn[c])
    BY Known
  <1>2. PICK r \in Connection :
            /\ Goes(c, r)
            /\ r.life = conn[c].life /\ r.fate = conn[c].fate /\ r.late = conn[c].late
            /\ r.app = conn[c].app /\ r.op = conn[c].op
            /\ r.open => conn[c].open
            /\ r.ec # conn[c].ec => /\ conn[c].ec = "pending" /\ r.ec = "aborted"
                                    /\ conn[c].op # "accept"
    <2>1. CASE TimerFires(c)
      <3> DEFINE r == [conn[c] EXCEPT !.timer = FALSE, !.fired = TRUE]
      <3>1. r \in Connection
        BY <1>1 DEF Connection
      <3>2. Goes(c, r)
        BY <2>1 DEF TimerFires, Goes
      <3>3. /\ r.life = conn[c].life /\ r.fate = conn[c].fate /\ r.late = conn[c].late
            /\ r.app = conn[c].app /\ r.op = conn[c].op /\ r.open = conn[c].open
            /\ r.ec = conn[c].ec
        BY <1>1 DEF Connection
      <3> QED
        BY <3>1, <3>2, <3>3
    <2>2. CASE TimerHandler(c)
      <3> DEFINE q == [conn[c] EXCEPT !.fired = FALSE]
      <3>1. /\ q \in Connection
            /\ q.life = conn[c].life /\ q.fate = conn[c].fate /\ q.late = conn[c].late
            /\ q.app = conn[c].app /\ q.op = conn[c].op /\ q.open = conn[c].open
            /\ q.ec = conn[c].ec
        BY <1>1 DEF Connection
      <3>2. PICK r \in {q, Closed(q)} : Goes(c, r)
        BY <2>2 DEF TimerHandler, Goes
      <3> HIDE DEF q
      <3>3. /\ r \in Connection
            /\ r.life = q.life /\ r.fate = q.fate /\ r.late = q.late
            /\ r.app = q.app /\ r.op = q.op /\ (r.open => q.open)
            /\ r.ec # q.ec => q.ec = "pending" /\ r.ec = "aborted" /\ q.op # "accept"
        BY <3>1 DEF Closed, Connection
      <3> QED
        BY <3>1, <3>2, <3>3
    <2> QED
      BY <2>1, <2>2
  <1>3. Sound(r) /\ Legitimate(r) /\ (Outstanding(r) <=> Outstanding(conn[c]))
    BY <1>1, <1>2 DEF Sound, Legitimate, Taken, Tracked, Outstanding
  <1> QED
    BY <1>2, <1>3, SameConnection

-----------------------------------------------------------------------------
(* Handlers *)

\* What is known of a connection whose handler runs.
LEMMA Running ==
  ASSUME ServerInv, NEW c \in Connections, NEW op \in Reads \cup {"write"}, conn[c].op = op
  PROVE  /\ conn[c] \in Connection /\ conn[c].life = "alive" /\ ~conn[c].app
         /\ Taken(conn[c]) /\ conn[c].op # "accept" /\ ~Outstanding(conn[c])
  BY Known DEF Sound, Taken, Outstanding, Reads

\* The last read of a request: a resource is found, or not, or the socket is taken
\* over.
LEMMA ResourceStep ==
  ASSUME ServerInv, NEW c \in Connections, conn[c].op \in Reads,
         NEW r \in {conn[c], SetTimeout(conn[c], timeout_content)}, Resource(c, r)
  PROVE  ServerInv'
  <1>1. /\ conn[c] \in Connection /\ conn[c].life = "alive" /\ Taken(conn[c])
        /\ Legitimate(conn[c]) /\ ~Outstanding(conn[c])
    BY Running, Known
  <1>2. /\ r \in Connection /\ r.life = "alive" /\ r.fate = conn[c].fate
        /\ r.open = conn[c].open /\ r.late = conn[c].late
    BY <1>1, Timed
  <1>3. CASE FindResource(c, r)
    <2>1. PICK found \in BOOLEAN : Goes(c, [Ends(r) EXCEPT !.app = found])
      BY <1>3 DEF FindResource, Goes
    <2> DEFINE q == [Ends(r) EXCEPT !.app = found]
    <2>2. /\ q \in Connection /\ q.op = "none" /\ q.ec = "none"
          /\ q.life = "alive" /\ q.fate = conn[c].fate
          /\ q.open = conn[c].open /\ q.late = conn[c].late
      BY <1>2 DEF Ends, Connection
    <2> HIDE DEF q
    <2>3. Sound(q) /\ Legitimate(q) /\ ~Outstanding(q)
      BY <1>1, <2>2 DEF Sound, Legitimate, Taken, Tracked, Outstanding
    <2>4. Goes(c, q)
      BY <2>1 DEF q
    <2> QED
      BY <1>1, <2>2, <2>3, <2>4, SameConnection
  <1>4. CASE Upgrade(c, r)
    <2> DEFINE q == [Ends(r) EXCEPT !.fate = "upgraded", !.open = FALSE]
    <2>1. /\ q \in Connection /\ q.op = "none" /\ q.ec = "none"
          /\ q.fate = "upgraded" /\ q.open = FALSE /\ q.app = r.app
          /\ q.life = "alive"
      BY <1>2 DEF Ends, Connection
    <2>2. Set(c, q) /\ UNCHANGED server /\ set' = set \ {c}
      BY <1>4 DEF Upgrade, Without
    <2> HIDE DEF q
    <2>3. Sound(q) /\ Legitimate(q) /\ ~Outstanding(q)
      BY <1>1, <2>1 DEF Sound, Legitimate, Taken, Tracked, Outstanding
    <2>4. set' \subseteq Connections /\ set' \ {c} = set \ {c} /\ c \notin set'
      BY <2>2 DEF ServerInv, TypeOK
    <2> QED
      BY <1>1, <2>1, <2>2, <2>3, <2>4, OneConnection
  <1> QED
    BY <1>3, <1>4 DEF Resource

\* The handlers of the handshake, of what is read and of what is written.
LEMMA SessionStep ==
  ASSUME ServerInv, NEW c \in Connections,
         \/ Handshaken(c) \/ HeaderRead(c) \/ ContentRead(c)
         \/ ChunkSizeRead(c) \/ ChunkRead(c) \/ ChunkEndRead(c) \/ Written(c)
  PROVE  ServerInv'
  <1>1. conn[c].op \in Reads \cup {"write"}
    BY DEF Handshaken, HeaderRead, ContentRead, ChunkSizeRead, ChunkRead, ChunkEndRead,
           Written, Runs, Reads
  <1>2. /\ conn[c] \in Connection /\ conn[c].life = "alive" /\ ~conn[c].app
        /\ Taken(conn[c]) /\ conn[c].op # "accept" /\ ~Outstanding(conn[c])
    BY <1>1, Running
  <1> DEFINE Near == {r \in Connection :
                        /\ r.life = conn[c].life /\ r.fate = conn[c].fate /\ ~r.app
                        /\ r.open = conn[c].open /\ r.late = conn[c].late}
  <1>3. \A r \in Near : /\ SetTimeout(r, timeout_request) \in Near
                  /\ SetTimeout(r, timeout_content) \in Near
                  /\ CancelTimeout(r) \in Near
    BY Timed
  <1>4. conn[c] \in Near
    BY <1>2
  <1>5. ASSUME NEW r \in Near, Goes(c, Ends(r))
        PROVE  ServerInv'
    BY <1>2, <1>5, Ending
  <1>6. ASSUME NEW r \in Near, NEW op \in Reads \cup {"write"}, Goes(c, Starts(r, op))
        PROVE  ServerInv'
    BY <1>2, <1>6, Continuing
  <1>7. ASSUME NEW r \in Near, Goes(c, Read(r))
        PROVE  ServerInv'
    BY <1>3, <1>6, <1>7 DEF Read, Reads
  <1>8. ASSUME conn[c].op \in Reads, NEW r \in {conn[c], SetTimeout(conn[c], timeout_content)}, Resource(c, r)
        PROVE  ServerInv'
    BY <1>8, ResourceStep
  <1> HIDE DEF Near
  <1>a. CASE Handshaken(c)
    BY <1>a, <1>3, <1>4, <1>5, <1>7 DEF Handshaken, Goes
  <1>b. CASE HeaderRead(c)
    BY <1>b, <1>3, <1>4, <1>5, <1>6, <1>8 DEF HeaderRead, Runs, Reads
  <1>c. CASE ContentRead(c)
    BY <1>c, <1>4, <1>5, <1>8 DEF ContentRead, Runs, Reads
  <1>d. CASE ChunkSizeRead(c)
    BY <1>d, <1>4, <1>5, <1>6, <1>8 DEF ChunkSizeRead, Runs, Reads
  <1>e. CASE ChunkRead(c) \/ ChunkEndRead(c)
    BY <1>e, <1>4, <1>5, <1>6 DEF ChunkRead, ChunkEndRead, Reads
  <1>f. CASE Written(c)
    BY <1>f, <1>3, <1>4, <1>5, <1>7 DEF Written
  <1> QED
    BY <1>a, <1>b, <1>c, <1>d, <1>e, <1>f

\* A handler that finds the server destroyed, or its accept aborted.
LEMMA EndingStep ==
  ASSUME ServerInv, NEW c \in Connections,
         \/ \E op \in {"accept", "content", "size", "chunk", "chunk_end", "write"} :
                TurnedAway(c, op)
         \/ AcceptEnded(c)
  PROVE  ServerInv'
  <1>1. Goes(c, Ends(conn[c])) /\ conn[c].op # "none"
    BY DEF TurnedAway, AcceptEnded, Goes, Runs
  <1>2. conn[c] \in Connection /\ ~conn[c].app
    BY <1>1, Known DEF Sound
  <1>3. listening => ~Outstanding(conn[c])
    BY DEF TurnedAway, AcceptEnded, AcceptsAgain, Admits, Outstanding, ServerInv, AcceptInv
  <1> QED
    BY <1>1, <1>2, <1>3, Ending

\* The application's part, and the deleter's.
LEMMA ReleaseStep ==
  ASSUME ServerInv, NEW c \in Connections, Release(c) \/ Drop(c) \/ Free(c)
  PROVE  ServerInv'
  <1>1. conn[c] \in Connection /\ Sound(conn[c]) /\ Legitimate(conn[c])
    BY Known
  <1>2. CASE Release(c)
    <2> DEFINE r == [conn[c] EXCEPT !.app = FALSE]
    <2>1. conn[c].app /\ Goes(c, Starts(r, "write"))
      BY <1>2 DEF Release
    <2>2. /\ r \in Connection /\ ~r.app /\ r.life = conn[c].life /\ r.fate = conn[c].fate
          /\ r.open = conn[c].open /\ r.late = conn[c].late
      BY <1>1 DEF Connection
    <2>3. Taken(conn[c]) /\ conn[c].op # "accept"
      BY <1>1, <2>1 DEF Taken, Sound
    <2> HIDE DEF r
    <2> QED
      BY <2>1, <2>2, <2>3, Continuing
  <1>3. CASE Drop(c)
    <2> DEFINE r == [conn[c] EXCEPT !.life = "erased"]
    <2>1. /\ Set(c, r) /\ UNCHANGED server /\ set' = set \ {c}
          /\ conn[c].op = "none" /\ ~conn[c].app
      BY <1>3 DEF Drop, Without, Held
    <2>2. /\ r \in Connection /\ r.life = "erased" /\ r.op = "none" /\ r.ec = conn[c].ec
          /\ ~r.app
      BY <1>1, <2>1 DEF Connection
    <2> HIDE DEF r
    <2>3. Sound(r) /\ Legitimate(r) /\ ~Outstanding(r) /\ ~Outstanding(conn[c])
      BY <1>1, <2>1, <2>2 DEF Sound, Legitimate, Taken, Outstanding, Reads
    <2>4. set' \subseteq Connections /\ set' \ {c} = set \ {c} /\ c \notin set'
      BY <2>1 DEF ServerInv, TypeOK
    <2> QED
      BY <2>1, <2>2, <2>3, <2>4, OneConnection
  <1>4. CASE Free(c)
    <2>1. /\ Set(c, NoConnection) /\ UNCHANGED server /\ set' = set
          /\ conn[c].life = "erased"
      BY <1>4 DEF Free
    <2>2. /\ NoConnection \in Connection /\ Sound(NoConnection)
          /\ NoConnection.life = "none" /\ NoConnection.op = "none" /\ NoConnection.app = FALSE
      BY NewConnections DEF NoConnection
    <2>3. Legitimate(NoConnection) /\ ~Outstanding(NoConnection)
      BY <2>2 DEF Legitimate, Taken, Outstanding, Reads
    <2>4. ~Outstanding(conn[c])
      BY <1>1, <2>1 DEF Sound, Outstanding
    <2>5. set \subseteq Connections /\ c \notin set
      BY <2>1 DEF ServerInv, TypeOK, SetIsExact
    <2> QED
      BY <2>1, <2>2, <2>3, <2>4, <2>5, OneConnection
  <1> QED
    BY <1>2, <1>3, <1>4

-----------------------------------------------------------------------------
(* The accept loop, start, stop and the destructor *)

\* An accept is added: the loop's next, in the place of the one handled, or a
\* start's.
LEMMA AcceptedStep ==
  ASSUME ServerInv, NEW c \in Connections, NEW d \in Connections, Accepted(c, d)
  PROVE  ServerInv'
  <1> USE DEF server
  <1>1. /\ conn \in [Connections -> Connection] /\ set \subseteq Connections
        /\ conn[c] \in Connection /\ Sound(conn[c]) /\ Legitimate(conn[c])
    BY Known DEF ServerInv, TypeOK
  <1>2. /\ conn[c].op = "accept" /\ conn[c].ec # "pending" /\ Outstanding(conn[c])
        /\ conn[d].life = "none" /\ set' = set \cup {d} /\ UNCHANGED server
    BY DEF Accepted, Runs, AcceptsAgain, Outstanding, Unused
  <1>3. conn[c].life = "alive" /\ ~conn[c].app /\ c # d
    BY <1>1, <1>2 DEF Sound
  <1>4. PICK r \in Connection :
            /\ conn' = [conn EXCEPT ![c] = r, ![d] = Accepting(listening)]
            /\ r.life = "alive" /\ ~r.app /\ r.fate = conn[c].fate
            /\ r.open = conn[c].open /\ r.late = conn[c].late
            /\ \/ r.op = "none" /\ r.ec = "none"
               \/ r.op \in Reads /\ r.ec = "pending" /\ conn[c].ec = "ok"
    <2>1. PICK r \in {Ends(conn[c]), Read(conn[c]),
                      Starts(SetTimeout(conn[c], timeout_request), "handshake")} :
             /\ conn' = [conn EXCEPT ![c] = r, ![d] = Accepting(listening)]
             /\ r # Ends(conn[c]) => conn[c].ec = "ok"
      BY DEF Accepted, Ok
    <2>2. SetTimeout(conn[c], timeout_request) \in Connection
      BY <1>1, Timed
    <2> DEFINE Same(q) == /\ q.life = "alive" /\ q.app = FALSE /\ q.fate = conn[c].fate
                          /\ q.open = conn[c].open /\ q.late = conn[c].late
    <2>3. /\ Ends(conn[c]) \in Connection /\ Same(Ends(conn[c]))
          /\ Ends(conn[c]).op = "none" /\ Ends(conn[c]).ec = "none"
      BY <1>1, <1>3 DEF Ends, Connection
    <2>4. ASSUME NEW op \in {"header", "handshake"}
          PROVE  LET q == Starts(SetTimeout(conn[c], timeout_request), op)
                 IN  q \in Connection /\ Same(q) /\ q.op \in Reads /\ q.ec = "pending"
      <3> DEFINE t == SetTimeout(conn[c], timeout_request)
      <3>1. t \in Connection /\ Same(t)
        BY <1>1, <1>3, Timed
      <3> HIDE DEF t
      <3> QED
        BY <3>1 DEF Starts, Connection, Reads, t
    <2>5. /\ Read(conn[c]) \in Connection /\ Same(Read(conn[c]))
          /\ Read(conn[c]).op \in Reads /\ Read(conn[c]).ec = "pending"
      BY <2>4 DEF Read
    <2> QED
      BY <2>1, <2>3, <2>4, <2>5
  <1> DEFINE new == Accepting(listening)
  <1>5. /\ new \in Connection /\ Sound(new) /\ new.op = "accept" /\ new.ec # "aborted"
        /\ new.fate = "tracked" /\ new.life = "alive" /\ ~new.app
        /\ new.ec = "pending" => listening
        /\ new.ec # "ok"
    BY NewConnections DEF ServerInv, TypeOK
  <1> HIDE DEF new
  <1>6. /\ conn' \in [Connections -> Connection]
        /\ conn'[c] = r /\ conn'[d] = new
        /\ \A e \in Connections \ {c, d} : conn'[e] = conn[e]
    BY <1>1, <1>3, <1>4, <1>5 DEF new
  <1>7. TypeOK'
    <2>1. Sound(r)
      BY <1>4 DEF Sound, Reads
    <2>2. \A e \in Connections : Sound(conn'[e])
      BY <1>5, <1>6, <2>1 DEF ServerInv, TypeOK, Sound
    <2> QED
      BY <1>2, <1>6, <2>2 DEF ServerInv, TypeOK, Sound
  <1>8. SetIsExact'
    BY <1>2, <1>3, <1>4, <1>5, <1>6 DEF ServerInv, SetIsExact
  <1>9. OpenInv'
    <2>1. Legitimate(r)
      BY <1>1, <1>2, <1>4 DEF Legitimate, Taken, Tracked, Reads
    <2>2. Legitimate(new)
      BY <1>5 DEF Legitimate, Taken, Tracked, Reads
    <2>3. \A e \in Connections : Legitimate(conn'[e])
      BY <1>6, <2>1, <2>2 DEF ServerInv, OpenInv
    <2> QED
      BY <1>2, <2>3 DEF OpenInv, Legitimate, Tracked, Taken
  <1>10. AcceptInv'
    <2>1. c \in Accepts /\ d \notin Accepts
      BY <1>1, <1>2, Known DEF Accepts, Sound, Outstanding
    <2>2. Accepts' = (Accepts \ {c}) \cup {d}
      BY <1>3, <1>4, <1>5, <1>6 DEF Accepts, Reads
    <2>3. /\ IsFiniteSet(Accepts \ {c})
          /\ Cardinality(Accepts \ {c}) = Cardinality(Accepts) - 1
      BY <2>1, FS_RemoveElement DEF ServerInv, AcceptInv
    <2>4. /\ IsFiniteSet(Accepts')
          /\ Cardinality(Accepts') = Cardinality(Accepts \ {c}) + 1
      BY <2>1, <2>2, <2>3, FS_AddElement
    <2>5. Cardinality(Accepts) \in Nat
      BY FS_CardinalityType DEF ServerInv, AcceptInv
    <2> QED
      BY <1>2, <2>2, <2>3, <2>4, <2>5 DEF ServerInv, AcceptInv
  <1> QED
    BY <1>7, <1>8, <1>9, <1>10 DEF ServerInv

\* start(): the acceptor opens, and the first accept waits on it.
LEMMA StartStep ==
  ASSUME ServerInv, Start
  PROVE  ServerInv'
  <1>1. PICK d \in Connections :
            conn[d].life = "none" /\ set' = set \cup {d} /\ Set(d, Accepting(TRUE))
    BY DEF Start, Unused
  <1>2. /\ ~listening /\ ~destroyed /\ starts < MaxStarts
        /\ listening' = TRUE /\ running' = TRUE /\ starts' = starts + 1
        /\ UNCHANGED <<scheme, service, destroyed>>
    BY DEF Start
  <1>3. /\ conn \in [Connections -> Connection] /\ set \subseteq Connections
        /\ Sound(conn[d]) /\ starts \in Nat /\ starts' \in 0 .. MaxStarts
    BY <1>2, Known, ServerAssumption DEF ServerInv, TypeOK
  <1> DEFINE new == Accepting(TRUE)
  <1>4. /\ new \in Connection /\ Sound(new) /\ new.op = "accept" /\ new.ec = "pending"
        /\ new.fate = "tracked" /\ new.life = "alive" /\ ~new.app
    BY NewConnections
  <1> HIDE DEF new
  <1>5. /\ conn' \in [Connections -> Connection]
        /\ conn'[d] = new /\ \A e \in Connections \ {d} : conn'[e] = conn[e]
    BY <1>1, <1>3, <1>4 DEF Set, new
  <1>6. TypeOK'
    <2>1. \A e \in Connections : Sound(conn'[e])
      BY <1>4, <1>5 DEF ServerInv, TypeOK, Sound
    <2> QED
      BY <1>1, <1>2, <1>3, <1>5, <2>1 DEF ServerInv, TypeOK, Sound
  <1>7. SetIsExact'
    BY <1>1, <1>4, <1>5 DEF ServerInv, SetIsExact
  <1>8. OpenInv'
    <2>1. \A e \in Connections \ {d} :
             Legitimate(conn[e]) => Legitimate(conn[e])'
      BY <1>2, <1>5 DEF Legitimate, Tracked, Taken
    <2> QED
      BY <1>2, <1>4, <1>5, <2>1
      DEF ServerInv, OpenInv, Legitimate, Tracked, Taken, Reads
  <1>9. AcceptInv'
    <2>1. Accepts' = Accepts \cup {d} /\ d \notin Accepts
      BY <1>1, <1>3, <1>4, <1>5 DEF Accepts, Sound
    <2>2. /\ IsFiniteSet(Accepts')
          /\ Cardinality(Accepts') = Cardinality(Accepts) + 1
      BY <2>1, FS_AddElement DEF ServerInv, AcceptInv
    <2>3. Cardinality(Accepts) \in Nat
      BY FS_CardinalityType DEF ServerInv, AcceptInv
    <2> QED
      BY <1>2, <1>3, <2>1, <2>2, <2>3 DEF ServerInv, AcceptInv
  <1> QED
    BY <1>6, <1>7, <1>8, <1>9 DEF ServerInv

\* What stop() leaves of a connection, reached or not.
LEMMA StoppedConnection ==
  ASSUME ServerInv, NEW reached, NEW c \in Connections
  PROVE  LET r == Stopped(c, reached)
         IN  /\ r \in Connection /\ Sound(r)
             /\ r.life = conn[c].life
             /\ ~(r.life = "alive" /\ r.fate = "tracked")
             /\ r.op = "accept" => r.ec # "pending"
             /\ Taken(r) /\ r.open => r.late
             /\ Outstanding(r) => Outstanding(conn[c])
  <1> DEFINE q == conn[c]
             aborted == IF q.op = "accept" /\ q.ec = "pending"
                        THEN [q EXCEPT !.ec = "aborted"] ELSE q
             closed == IF Late(q) /\ c \notin reached THEN [q EXCEPT !.late = TRUE]
                                                      ELSE Closed(aborted)
  <1>1. q \in Connection /\ Sound(q) /\ Legitimate(q)
    BY Known
  <1>2. c \in set <=> q.life = "alive" /\ q.fate = "tracked"
    BY DEF ServerInv, SetIsExact
  <1> HIDE DEF q
  <1>3. /\ aborted \in Connection
        /\ aborted.life = q.life /\ aborted.fate = q.fate /\ aborted.op = q.op
        /\ aborted.app = q.app /\ aborted.open = q.open /\ aborted.late = q.late
        /\ aborted.ec = IF q.op = "accept" /\ q.ec = "pending" THEN "aborted" ELSE q.ec
    BY <1>1 DEF Connection
  <1> HIDE DEF aborted
  <1>4. /\ closed \in Connection
        /\ closed.life = q.life /\ closed.op = q.op /\ closed.app = q.app
        /\ closed.open /\ Taken(closed) => closed.late
        /\ closed.op = "accept" => closed.ec # "pending"
        /\ Outstanding(closed) => Outstanding(q)
        /\ closed.ec = "none" <=> q.ec = "none"
    <2>1. CASE Late(q) /\ c \notin reached
      <3> DEFINE k == [q EXCEPT !.late = TRUE]
      <3>1. closed = k
        BY <2>1
      <3>2. /\ k \in Connection /\ k.late = TRUE
            /\ k.life = q.life /\ k.op = q.op /\ k.app = q.app /\ k.ec = q.ec
        BY <1>1 DEF Connection
      <3> HIDE DEF k, closed
      <3> QED
        BY <2>1, <3>1, <3>2 DEF Late, Outstanding
    <2>2. CASE ~(Late(q) /\ c \notin reached)
      <3> DEFINE k == Closed(aborted)
      <3>1. closed = k
        BY <2>2
      <3>2. /\ k \in Connection /\ k.open = FALSE
            /\ k.life = q.life /\ k.op = q.op /\ k.app = q.app
            /\ k.ec = IF aborted.ec = "pending" /\ aborted.op # "accept"
                      THEN "aborted" ELSE aborted.ec
        BY <1>3 DEF Closed, Connection
      <3> HIDE DEF k, closed
      <3> QED
        BY <1>3, <3>1, <3>2 DEF Outstanding
    <2> QED
      BY <2>1, <2>2
  <1> HIDE DEF closed
  <1>5. CASE c \in set
    <2> DEFINE r == [closed EXCEPT !.fate = "stopped"]
    <2>1. Stopped(c, reached) = r
      BY <1>5 DEF Stopped, closed, aborted, q
    <2>2. /\ r \in Connection /\ r.fate = "stopped"
          /\ r.life = closed.life /\ r.op = closed.op /\ r.app = closed.app
          /\ r.ec = closed.ec /\ r.open = closed.open /\ r.late = closed.late
      BY <1>4 DEF Connection
    <2> HIDE DEF r
    <2>3. Sound(r)
      BY <1>1, <1>4, <2>2 DEF Sound
    <2> QED
      BY <1>4, <2>1, <2>2, <2>3 DEF Taken, Outstanding, q
  <1>6. CASE c \notin set
    <2>1. Stopped(c, reached) = aborted
      BY <1>6 DEF Stopped, aborted, q
    <2>2. Sound(aborted)
      BY <1>1, <1>3 DEF Sound
    <2>3. Taken(aborted) /\ aborted.open => aborted.late
      <3>1. Taken(aborted) => q.life = "alive" /\ Taken(q)
        BY <1>1, <1>3 DEF Taken, Sound, Reads
      <3> QED
        BY <1>1, <1>2, <1>3, <1>6, <3>1 DEF Legitimate, Tracked
    <2> QED
      BY <1>2, <1>3, <1>6, <2>1, <2>2, <2>3 DEF Outstanding, q
  <1> QED
    BY <1>5, <1>6

\* stop(), and the destructor that calls it.
LEMMA StopStep ==
  ASSUME ServerInv, StopAll, running' \in BOOLEAN, destroyed' \in BOOLEAN,
         UNCHANGED <<scheme, service, starts>>
  PROVE  ServerInv'
  <1>1. PICK reached : conn' = [c \in Connections |-> Stopped(c, reached)]
    BY DEF StopAll
  <1>2. set' = {} /\ listening' = FALSE
    BY DEF StopAll
  <1>3. \A c \in Connections : conn'[c] = Stopped(c, reached)
    BY <1>1
  <1>4. \A c \in Connections :
            /\ conn'[c] \in Connection /\ Sound(conn'[c])
            /\ ~(conn'[c].life = "alive" /\ conn'[c].fate = "tracked")
            /\ conn'[c].op = "accept" => conn'[c].ec # "pending"
            /\ Taken(conn'[c]) /\ conn'[c].open => conn'[c].late
            /\ Outstanding(conn'[c]) => Outstanding(conn[c])
    BY <1>3, StoppedConnection
  <1>5. TypeOK'
    BY <1>1, <1>2, <1>4 DEF ServerInv, TypeOK, Sound
  <1>6. SetIsExact'
    BY <1>2, <1>4 DEF SetIsExact
  <1>7. OpenInv'
    BY <1>4 DEF OpenInv, Legitimate, Tracked, Taken
  <1>8. AcceptInv'
    <2>1. Accepts' \subseteq Accepts
      BY <1>4 DEF Accepts, Outstanding
    <2>2. IsFiniteSet(Accepts') /\ Cardinality(Accepts') <= Cardinality(Accepts)
      BY <2>1, FS_Subset DEF ServerInv, AcceptInv
    <2>3. /\ Cardinality(Accepts) \in Nat /\ Cardinality(Accepts') \in Nat
          /\ starts \in Nat
      BY <2>2, FS_CardinalityType, ServerAssumption DEF ServerInv, AcceptInv, TypeOK
    <2> QED
      BY <1>2, <2>2, <2>3 DEF ServerInv, AcceptInv
  <1> QED
    BY <1>5, <1>6, <1>7, <1>8 DEF ServerInv

\* ~ServerBase(): every connection still open goes.
LEMMA DestroyStep ==
  ASSUME ServerInv, Destroy
  PROVE  ServerInv'
  <1>1. running \in BOOLEAN /\ listening \in BOOLEAN /\ starts \in Nat
    BY ServerAssumption DEF ServerInv, TypeOK
  <1>2. CASE service # "internal"
    BY <1>1, <1>2, StopStep DEF Destroy
  <1>3. CASE service = "internal"
    <2>1. /\ listening' = FALSE /\ set' = {} /\ destroyed' = TRUE
          /\ conn' = [c \in Connections |-> NoConnection]
          /\ UNCHANGED <<scheme, service, running, starts>>
      BY <1>3 DEF Destroy
    <2>2. /\ NoConnection \in Connection /\ Sound(NoConnection)
          /\ NoConnection.life = "none" /\ NoConnection.op = "none" /\ NoConnection.app = FALSE
      BY NewConnections DEF NoConnection
    <2>3. TypeOK'
      BY <2>1, <2>2 DEF ServerInv, TypeOK, Sound
    <2>4. SetIsExact' /\ OpenInv'
      BY <2>1, <2>2 DEF SetIsExact, OpenInv, Legitimate, Taken, Reads
    <2>5. Accepts' = {}
      BY <2>1, <2>2 DEF Accepts
    <2> QED
      BY <1>1, <2>1, <2>3, <2>4, <2>5, FS_EmptySet DEF ServerInv, AcceptInv
  <1> QED
    BY <1>2, <1>3

-----------------------------------------------------------------------------
\* A server that was only constructed has no connection.
LEMMA InitServerInv == ASSUME Init PROVE ServerInv
  <1>1. /\ NoConnection \in Connection /\ Sound(NoConnection)
        /\ NoConnection.life = "none" /\ NoConnection.op = "none" /\ NoConnection.app = FALSE
    BY NewConnections DEF NoConnection
  <1>2. Accepts = {}
    BY <1>1 DEF Init, Accepts
  <1>3. TypeOK
    <2>1. running \in BOOLEAN
      BY Zenon DEF Init
    <2>2. starts \in 0 .. MaxStarts
      BY ServerAssumption DEF Init
    <2>3. conn \in [Connections -> Connection] /\ \A c \in Connections : Sound(conn[c])
      BY <1>1 DEF Init
    <2> QED
      BY <2>1, <2>2, <2>3 DEF Init, TypeOK, Sound
  <1>4. SetIsExact /\ OpenInv
    BY <1>1 DEF Init, SetIsExact, OpenInv, Legitimate, Taken, Reads
  <1> QED
    BY <1>2, <1>3, <1>4, FS_EmptySet DEF Init, ServerInv, AcceptInv

\* Every step of the io_service and of the application preserves the invariant.
LEMMA NextServerInv == ASSUME ServerInv, [Next]_vars PROVE ServerInv'
  <1>1. CASE UNCHANGED vars
    BY <1>1 DEF vars, server, ServerInv, TypeOK, SetIsExact, OpenInv, AcceptInv, Accepts,
                Legitimate, Tracked, Taken
  <1>2. CASE Start
    BY <1>2, StartStep
  <1>3. CASE Stop
    BY <1>3, StopStep DEF Stop, ServerInv, TypeOK
  <1>4. CASE Destroy
    BY <1>4, DestroyStep
  <1>5. ASSUME NEW c \in Connections, Handler(c)
        PROVE  ServerInv'
    BY <1>5, AcceptedStep, EndingStep, SessionStep DEF Handler
  <1>6. ASSUME NEW c \in Connections,
               \/ Succeeds(c) \/ Fails(c) \/ TimerFires(c) \/ TimerHandler(c)
               \/ Release(c) \/ Drop(c) \/ Free(c)
        PROVE  ServerInv'
    BY <1>6, NetworkStep, TimerStep, ReleaseStep
  <1> QED
    BY <1>1, <1>2, <1>3, <1>4, <1>5, <1>6 DEF Next

\* The inductive invariant holds of every run.
THEOREM ServerInvAlways == Spec => []ServerInv
  BY InitServerInv, NextServerInv, PTL DEF Spec

\* The types, and what goes with them: a connection has an operation outstanding
\* or the application holds its Response, never both, and then it is alive.
THEOREM ServerTypes == Spec => []TypeOK
  <1>1. ServerInv => TypeOK
    BY DEF ServerInv
  <1> QED
    BY <1>1, ServerInvAlways, PTL

\* However connections come, go and are taken over (server_http.hpp's connections,
\* ~Connection, on_upgrade, stop), the set has no dangling pointer and stop() finds
\* every connection it should close.
THEOREM SetAlwaysExact == Spec => []SetIsExact
  <1>1. ServerInv => SetIsExact
    BY DEF ServerInv
  <1> QED
    BY <1>1, ServerInvAlways, PTL

\* The accept loop is never broken while the server listens, and never doubled but
\* by another start().
THEOREM AlwaysAccepting == Spec => []NeverDeaf
  <1>1. ServerInv => NeverDeaf
    BY DEF ServerInv, AcceptInv, NeverDeaf
  <1> QED
    BY <1>1, ServerInvAlways, PTL

\* stop() closes every connection that is served, but those it came too early for.
THEOREM StopAlwaysCloses == Spec => []StopCloses
  <1>1. ServerInv => StopCloses
    BY DEF ServerInv, OpenInv, Legitimate, Taken, Tracked, StopCloses, Served
  <1> QED
    BY <1>1, ServerInvAlways, PTL
-----------------------------------------------------------------------------
(* Messages: where the client finds the end of a header.                   *)

\* The greatest of a set of positions that the last of them is in.
LEMMA MaxIs ==
  ASSUME NEW k \in Nat, NEW s, s \subseteq 1..k, k \in s
  PROVE  Max(s) = k
  <1>1. k \in s /\ \A y \in s : k >= y
    OBVIOUS
  <1>2. \A x \in s : (\A y \in s : x >= y) => x = k
    BY <1>1
  <1>3. \E x \in s : \A y \in s : x >= y
    BY <1>1
  <1>4. Max(s) \in s /\ \A y \in s : Max(s) >= y
    BY <1>3 DEF Max
  <1> QED
    BY <1>2, <1>4

\* The function that HeaderEnd computes, from the identity on positions: the match
\* after some of the characters.
Matches(f, t, id, S) ==
    f = [s \in SUBSET S |-> IF s = {} THEN NoMatch ELSE Match(t, f[s \ {Max(s)}], id[Max(s)])]

LEMMA MatchesExist ==
  ASSUME NEW t, NEW id, NEW n \in Nat
  PROVE  \E f : Matches(f, t, id, 1..n)
  <1> DEFINE D == {m \in 0..n : \E f : Matches(f, t, id, 1..m)}
  <1>1. 0 \in D
    <2> DEFINE f == [s \in SUBSET (1..0) |-> NoMatch]
    <2>1. \A s \in SUBSET (1..0) : s = {}
      OBVIOUS
    <2>2. f = [s \in SUBSET (1..0) |-> IF s = {} THEN NoMatch ELSE Match(t, f[s \ {Max(s)}], id[Max(s)])]
      BY <2>1
    <2> HIDE DEF f
    <2>3. Matches(f, t, id, 1..0)
      BY Zenon, <2>2 DEF Matches
    <2> QED
      BY <2>3
  <1>2. ASSUME NEW m \in 0..n - 1, m \in D
        PROVE  m + 1 \in D
    <2>1. PICK f : Matches(f, t, id, 1..m)
      BY <1>2
    <2> DEFINE g == [s \in SUBSET (1..m + 1) |->
                        IF m + 1 \in s THEN Match(t, f[s \ {m + 1}], id[m + 1]) ELSE f[s]]
    <2>2. ASSUME NEW s \in SUBSET (1..m + 1)
          PROVE  g[s] = IF s = {} THEN NoMatch ELSE Match(t, g[s \ {Max(s)}], id[Max(s)])
      <3>1. CASE m + 1 \in s
        <4>1. Max(s) = m + 1
          <5>1. m + 1 \in Nat /\ s \subseteq 1..m + 1
            OBVIOUS
          <5> QED
            BY <3>1, <5>1, MaxIs
        <4>2. g[s \ {m + 1}] = f[s \ {m + 1}]
          OBVIOUS
        <4> QED
          BY <3>1, <4>1, <4>2
      <3>2. CASE m + 1 \notin s
        <4>1. s \in SUBSET (1..m)
          BY <3>2
        <4>2. \A r \in SUBSET s : r \in SUBSET (1..m + 1) /\ m + 1 \notin r
          BY <3>2
        <4>3. \A r \in SUBSET s : g[r] = f[r]
          BY <4>2
        <4> HIDE DEF g
        <4>4. f[s] = IF s = {} THEN NoMatch ELSE Match(t, f[s \ {Max(s)}], id[Max(s)])
          BY Zenon, <2>1, <4>1 DEF Matches
        <4>5. g[s] = f[s] /\ g[s \ {Max(s)}] = f[s \ {Max(s)}]
          <5>1. s \ {Max(s)} \in SUBSET s /\ s \in SUBSET s
            OBVIOUS
          <5> QED
            BY <4>3, <5>1
        <4> QED
          BY <4>4, <4>5
      <3> QED
        BY <3>1, <3>2
    <2>3. Matches(g, t, id, 1..m + 1)
      <3>1. g = [s \in SUBSET (1..m + 1) |-> g[s]]
        OBVIOUS
      <3> HIDE DEF g
      <3> QED
        BY Zenon, <2>2, <3>1 DEF Matches
    <2> HIDE DEF g
    <2> QED
      BY <2>3
  <1> HIDE DEF D
  <1>3. 0..n \subseteq D
    BY <1>1, <1>2, BoundedInduction
  <1> QED
    BY <1>3 DEF D

\* HeaderEnd reads one character after the other.
LEMMA HeaderEndScans ==
  ASSUME NEW S, NEW t \in Seq(S)
  PROVE  \E f : /\ HeaderEnd(t) = f[1..Len(t)].end /\ f[1..0] = NoMatch
                /\ \A m \in 1..Len(t) : f[1..m] = Match(t, f[1..m - 1], m)
  <1> DEFINE n == Len(t)
             id == [i \in DOMAIN t |-> i]
             h == CHOOSE g : Matches(g, t, id, DOMAIN id)
  <1>1. HeaderEnd(t) = h[DOMAIN id].end
    BY Zenon DEF HeaderEnd, FoldLeftDomain, FoldLeft, MapThenFoldSet, Matches
  <1>2. n \in Nat /\ DOMAIN id = 1..n /\ \A m \in 1..n : id[m] = m
    BY LenProperties
  <1> HIDE DEF n, id
  <1>3. Matches(h, t, id, 1..n)
    BY <1>2, MatchesExist
  <1> HIDE DEF h
  <1>4. \A s \in SUBSET (1..n) : h[s] = IF s = {} THEN NoMatch ELSE Match(t, h[s \ {Max(s)}], id[Max(s)])
    BY Zenon, <1>3 DEF Matches
  <1>5. h[1..0] = NoMatch
    <2>1. 1..0 \in SUBSET (1..n) /\ 1..0 = {}
      OBVIOUS
    <2> QED
      BY Zenon, <1>4, <2>1
  <1>6. ASSUME NEW m \in 1..n
        PROVE  h[1..m] = Match(t, h[1..m - 1], m)
    <2>1. m \in Nat /\ 1..m \in SUBSET (1..n) /\ 1..m # {} /\ m \in 1..m /\ 1..m \subseteq 1..m
      <3>1. m \in Nat /\ m \in 1..m /\ \A i \in 1..m : i \in 1..n
        BY <1>2
      <3> QED
        BY <3>1
    <2>2. Max(1..m) = m
      BY <2>1, MaxIs
    <2>3. (1..m) \ {m} = 1..m - 1
      BY <1>2
    <2>4. h[1..m] = Match(t, h[(1..m) \ {Max(1..m)}], id[Max(1..m)])
      BY Zenon, <1>4, <2>1
    <2> QED
      BY Zenon, <1>2, <2>2, <2>3, <2>4
  <1> QED
    BY Zenon, <1>1, <1>2, <1>5, <1>6 DEF n

\* A blank line ends with character i, and the header with the first of them.
EmptyLine(t, i) ==
    \/ i >= 2 /\ t[i - 1] = LF /\ t[i] = LF
    \/ i >= 4 /\ t[i - 3] = CR /\ t[i - 2] = LF /\ t[i - 1] = CR /\ t[i] = LF

LEMMA FourElements ==
  ASSUME NEW S, NEW s \in Seq(S), Len(s) = 4
  PROVE  s = <<s[1], s[2], s[3], s[4]>>
  OBVIOUS

LEMMA MarkIsEmptyLine ==
  ASSUME NEW S, NEW t \in Seq(S), NEW i \in 1..Len(t)
  PROVE  EmptyLine(t, i) <=>
            \/ i >= Len(CRLF \o CRLF) /\ SubSeq(t, i - Len(CRLF \o CRLF) + 1, i) = CRLF \o CRLF
            \/ i >= Len(<<LF, LF>>) /\ SubSeq(t, i - Len(<<LF, LF>>) + 1, i) = <<LF, LF>>
  <1>1. CRLF \o CRLF = <<CR, LF, CR, LF>> /\ Len(<<CR, LF, CR, LF>>) = 4 /\ Len(<<LF, LF>>) = 2
    <2>1. CRLF \in Seq({CR, LF}) /\ Len(CRLF) = 2 /\ CRLF[1] = CR /\ CRLF[2] = LF
      BY DEF CRLF
    <2> DEFINE s == CRLF \o CRLF
    <2>2. /\ s \in Seq({CR, LF}) /\ Len(s) = Len(CRLF) + Len(CRLF)
          /\ \A j \in 1..Len(CRLF) + Len(CRLF) :
                s[j] = IF j <= Len(CRLF) THEN CRLF[j] ELSE CRLF[j - Len(CRLF)]
      BY Zenon, <2>1, ConcatProperties
    <2> HIDE DEF s
    <2>3. Len(s) = 4 /\ s[1] = CR /\ s[2] = LF /\ s[3] = CR /\ s[4] = LF
      BY <2>1, <2>2
    <2>4. s = <<s[1], s[2], s[3], s[4]>>
      BY Zenon, <2>2, <2>3, FourElements
    <2>5. Len(<<CR, LF, CR, LF>>) = 4 /\ Len(<<LF, LF>>) = 2
      OBVIOUS
    <2> QED
      BY <2>3, <2>4, <2>5 DEF s
  <1>2. Len(t) \in Nat /\ i \in Nat /\ \A j \in 1..i : t[j] \in S
    BY LenProperties, ElementOfSeq
  <1>3. i >= 4 => (SubSeq(t, i - 4 + 1, i) = <<CR, LF, CR, LF>> <=>
                      t[i - 3] = CR /\ t[i - 2] = LF /\ t[i - 1] = CR /\ t[i] = LF)
    <2> SUFFICES ASSUME i >= 4
                 PROVE  SubSeq(t, i - 4 + 1, i) = <<CR, LF, CR, LF>> <=>
                          t[i - 3] = CR /\ t[i - 2] = LF /\ t[i - 1] = CR /\ t[i] = LF
      OBVIOUS
    <2> DEFINE s == SubSeq(t, i - 4 + 1, i)
    <2>1. i - 4 + 1 \in Int /\ i \in Int /\ \A j \in i - 4 + 1..i : t[j] \in S
      BY <1>2
    <2>2. /\ s \in Seq(S)
          /\ Len(s) = IF i - 4 + 1 <= i THEN i - (i - 4 + 1) + 1 ELSE 0
          /\ \A j \in 1..i - (i - 4 + 1) + 1 : s[j] = t[(i - 4 + 1) + j - 1]
      BY <2>1, SubSeqProperties
    <2>3. i - 4 + 1 <= i /\ i - (i - 4 + 1) + 1 = 4
      BY <1>2
    <2> HIDE DEF s
    <2>4. /\ Len(s) = 4 /\ s[1] = t[i - 3] /\ s[2] = t[i - 2] /\ s[3] = t[i - 1] /\ s[4] = t[i]
      BY <1>2, <2>2, <2>3
    <2>5. s = <<s[1], s[2], s[3], s[4]>>
      BY Zenon, <2>2, <2>4, FourElements
    <2>6. s = <<CR, LF, CR, LF>> <=> s[1] = CR /\ s[2] = LF /\ s[3] = CR /\ s[4] = LF
      BY <2>5
    <2> QED
      BY Zenon, <2>4, <2>6 DEF s
  <1>4. i >= 2 => (SubSeq(t, i - 2 + 1, i) = <<LF, LF>> <=> t[i - 1] = LF /\ t[i] = LF)
    <2> SUFFICES ASSUME i >= 2
                 PROVE  SubSeq(t, i - 2 + 1, i) = <<LF, LF>> <=> t[i - 1] = LF /\ t[i] = LF
      OBVIOUS
    <2> DEFINE s == SubSeq(t, i - 2 + 1, i)
    <2>1. i - 2 + 1 \in Int /\ i \in Int /\ \A j \in i - 2 + 1..i : t[j] \in S
      BY <1>2
    <2>2. /\ s \in Seq(S)
          /\ Len(s) = IF i - 2 + 1 <= i THEN i - (i - 2 + 1) + 1 ELSE 0
          /\ \A j \in 1..i - (i - 2 + 1) + 1 : s[j] = t[(i - 2 + 1) + j - 1]
      BY <2>1, SubSeqProperties
    <2>3. i - 2 + 1 <= i /\ i - (i - 2 + 1) + 1 = 2
      BY <1>2
    <2> HIDE DEF s
    <2>4. Len(s) = 2 /\ s[1] = t[i - 1] /\ s[2] = t[i]
      BY <1>2, <2>2, <2>3
    <2>5. s = <<s[1], s[2]>>
      BY <2>2, <2>4
    <2>6. s = <<LF, LF>> <=> s[1] = LF /\ s[2] = LF
      BY <2>5
    <2> QED
      BY Zenon, <2>4, <2>6 DEF s
  <1>5. /\ Len(CRLF \o CRLF) = 4
        /\ SubSeq(t, i - Len(CRLF \o CRLF) + 1, i) = SubSeq(t, i - 4 + 1, i)
        /\ SubSeq(t, i - Len(<<LF, LF>>) + 1, i) = SubSeq(t, i - 2 + 1, i)
    BY <1>1
  <1> QED
    BY <1>1, <1>3, <1>4, <1>5 DEF EmptyLine

\* What the match knows after m characters.
Scanned(t, scan, m) ==
    /\ scan \in [crlfcrlf : 0..3, lflf : 0..1, end : Nat]
    /\ scan.end = 0 =>
        /\ \A i \in 1..m : ~EmptyLine(t, i)
        /\ scan.lflf = 1 <=> m >= 1 /\ t[m] = LF
        /\ scan.crlfcrlf = 3 <=> m >= 3 /\ t[m - 2] = CR /\ t[m - 1] = LF /\ t[m] = CR
        /\ scan.crlfcrlf = 2 <=> m >= 2 /\ t[m - 1] = CR /\ t[m] = LF
        /\ scan.crlfcrlf = 0 => ~(m >= 1 /\ t[m] = CR)
        /\ scan.crlfcrlf = 1 => m >= 1 /\ t[m] = CR
    /\ scan.end # 0 =>
        /\ scan.end \in 1..m /\ EmptyLine(t, scan.end)
        /\ \A i \in 1..scan.end - 1 : ~EmptyLine(t, i)

LEMMA MatchCases ==
  ASSUME NEW t, NEW m, NEW a, NEW b, NEW scan, scan = [crlfcrlf |-> a, lflf |-> b, end |-> 0]
  PROVE  /\ t[m] = LF /\ (a = 3 \/ b = 1) => Match(t, scan, m) = [crlfcrlf |-> a, lflf |-> b, end |-> m]
         /\ t[m] = LF /\ ~(a = 3 \/ b = 1) =>
                Match(t, scan, m) = [crlfcrlf |-> AfterLF(a), lflf |-> 1, end |-> 0]
         /\ t[m] = CR => Match(t, scan, m) = [crlfcrlf |-> AfterCR(a), lflf |-> 0, end |-> 0]
         /\ t[m] # LF /\ t[m] # CR => Match(t, scan, m) = [crlfcrlf |-> 0, lflf |-> 0, end |-> 0]
  <1>1. scan.crlfcrlf = a /\ scan.lflf = b /\ scan.end = 0 /\ CR # LF
    BY DEF CR, LF
  <1>2. /\ [scan EXCEPT !.end = m] = [crlfcrlf |-> a, lflf |-> b, end |-> m]
        /\ [scan EXCEPT !.crlfcrlf = AfterLF(@), !.lflf = 1]
             = [crlfcrlf |-> AfterLF(a), lflf |-> 1, end |-> 0]
        /\ [scan EXCEPT !.crlfcrlf = AfterCR(@), !.lflf = 0]
             = [crlfcrlf |-> AfterCR(a), lflf |-> 0, end |-> 0]
        /\ [scan EXCEPT !.crlfcrlf = 0, !.lflf = 0] = [crlfcrlf |-> 0, lflf |-> 0, end |-> 0]
    <2>1. [scan EXCEPT !.end = m] = [crlfcrlf |-> a, lflf |-> b, end |-> m]
      OBVIOUS
    <2>2. ASSUME NEW c, NEW d
          PROVE  [scan EXCEPT !.crlfcrlf = c, !.lflf = d] = [crlfcrlf |-> c, lflf |-> d, end |-> 0]
      <3> DEFINE one == [scan EXCEPT !.crlfcrlf = c]
      <3>1. one = [crlfcrlf |-> c, lflf |-> b, end |-> 0]
        OBVIOUS
      <3> HIDE DEF one
      <3>2. [one EXCEPT !.lflf = d] = [crlfcrlf |-> c, lflf |-> d, end |-> 0]
        BY <3>1
      <3> QED
        BY Zenon, <3>2 DEF one
    <2>3. /\ [scan EXCEPT !.crlfcrlf = AfterLF(@), !.lflf = 1]
               = [scan EXCEPT !.crlfcrlf = AfterLF(a), !.lflf = 1]
          /\ [scan EXCEPT !.crlfcrlf = AfterCR(@), !.lflf = 0]
               = [scan EXCEPT !.crlfcrlf = AfterCR(a), !.lflf = 0]
      BY Zenon, <1>1
    <2> QED
      BY <2>1, <2>2, <2>3
  <1>3. /\ t[m] = LF /\ (a = 3 \/ b = 1) => Match(t, scan, m) = [scan EXCEPT !.end = m]
        /\ t[m] = LF /\ ~(a = 3 \/ b = 1) => Match(t, scan, m) = [scan EXCEPT !.crlfcrlf = AfterLF(@), !.lflf = 1]
        /\ t[m] = CR => Match(t, scan, m) = [scan EXCEPT !.crlfcrlf = AfterCR(@), !.lflf = 0]
        /\ t[m] # LF /\ t[m] # CR => Match(t, scan, m) = [scan EXCEPT !.crlfcrlf = 0, !.lflf = 0]
    BY <1>1 DEF Match
  <1> QED
    BY <1>2, <1>3

LEMMA MatchStep ==
  ASSUME NEW t, NEW m \in Nat \ {0}, NEW scan, Scanned(t, scan, m - 1),
         m > 1 => t[m - 1] # CR \/ t[m] # CR
  PROVE  Scanned(t, Match(t, scan, m), m)
  <1> DEFINE new == Match(t, scan, m)
             a == scan.crlfcrlf
             b == scan.lflf
             e == scan.end
  <1> SUFFICES Scanned(t, new, m)
    OBVIOUS
  <1>1. a \in 0..3 /\ b \in 0..1 /\ e \in Nat /\ scan = [crlfcrlf |-> a, lflf |-> b, end |-> e]
    BY DEF Scanned
  <1>2. \A i \in 1..m : i \in 1..m - 1 \/ i = m
    OBVIOUS
  <1>3. CASE e # 0
    <2>1. new = scan
      BY <1>3 DEF Match
    <2>2. e \in 1..m
      BY <1>3 DEF Scanned
    <2> QED
      BY <1>3, <2>1, <2>2 DEF Scanned
  <1>4. CASE e = 0
    <2>7. scan = [crlfcrlf |-> a, lflf |-> b, end |-> 0]
      BY <1>1, <1>4
    <2>1. /\ \A i \in 1..m - 1 : ~EmptyLine(t, i)
          /\ b = 1 <=> m - 1 >= 1 /\ t[m - 1] = LF
          /\ a = 3 <=> m - 1 >= 3 /\ t[(m - 1) - 2] = CR /\ t[(m - 1) - 1] = LF /\ t[m - 1] = CR
          /\ a = 2 <=> m - 1 >= 2 /\ t[(m - 1) - 1] = CR /\ t[m - 1] = LF
          /\ a = 0 => ~(m - 1 >= 1 /\ t[m - 1] = CR)
          /\ a = 1 => m - 1 >= 1 /\ t[m - 1] = CR
      BY <1>4 DEF Scanned
    <2>2. (m - 1) - 2 = m - 3 /\ (m - 1) - 1 = m - 2
      OBVIOUS
    <2>3. CASE t[m] = LF /\ (a = 3 \/ b = 1)
      <3>1. new = [crlfcrlf |-> a, lflf |-> b, end |-> m]
        BY <2>3, <2>7, MatchCases
      <3>2. EmptyLine(t, m)
        BY <2>1, <2>2, <2>3 DEF EmptyLine
      <3>3. m \in 1..m
        OBVIOUS
      <3> HIDE DEF new
      <3> QED
        BY <1>1, <2>1, <3>1, <3>2, <3>3 DEF Scanned
    <2>4. CASE t[m] = LF /\ ~(a = 3 \/ b = 1)
      <3>1. new = [crlfcrlf |-> AfterLF(a), lflf |-> 1, end |-> 0]
        BY <2>4, <2>7, MatchCases
      <3>2. ~EmptyLine(t, m)
        BY <2>1, <2>2, <2>4 DEF EmptyLine
      <3>3. AfterLF(a) = IF a = 1 THEN 2 ELSE 0
        BY <1>1, <2>4 DEF AfterLF
      <3>4. t[m] # CR /\ (a = 1 <=> m >= 2 /\ t[m - 1] = CR)
        BY <1>1, <2>1, <2>2, <2>4 DEF CR, LF
      <3>5. /\ new.crlfcrlf = IF a = 1 THEN 2 ELSE 0
            /\ new.lflf = 1 /\ new.end = 0 /\ new \in [crlfcrlf : 0..3, lflf : 0..1, end : Nat]
        BY <3>1, <3>3
      <3> HIDE DEF new
      <3>6. \A i \in 1..m : ~EmptyLine(t, i)
        BY <1>2, <2>1, <3>2
      <3>7. m >= 1 /\ new.crlfcrlf # 3 /\ new.crlfcrlf # 1
        BY <3>5
      <3>8. new.crlfcrlf = 2 <=> m >= 2 /\ t[m - 1] = CR
        BY <3>4, <3>5
      <3> QED
        BY <2>4, <3>4, <3>5, <3>6, <3>7, <3>8 DEF Scanned
    <2>5. CASE t[m] = CR
      <3>1. new = [crlfcrlf |-> AfterCR(a), lflf |-> 0, end |-> 0]
        BY <2>5, <2>7, MatchCases
      <3>2. t[m] # LF /\ ~EmptyLine(t, m)
        BY <2>5 DEF EmptyLine, CR, LF
      <3>3. a \in {0, 2} /\ AfterCR(a) = a + 1
        BY <1>1, <2>1, <2>5 DEF AfterCR
      <3>4. a + 1 = 3 <=> m >= 3 /\ t[m - 2] = CR /\ t[m - 1] = LF
        BY <1>1, <2>1, <2>2, <3>3
      <3>5. new.crlfcrlf = a + 1 /\ new.lflf = 0 /\ new.end = 0 /\ new \in [crlfcrlf : 0..3, lflf : 0..1, end : Nat]
        BY <3>1, <3>3
      <3> HIDE DEF new
      <3>6. \A i \in 1..m : ~EmptyLine(t, i)
        BY <1>2, <2>1, <3>2
      <3>7. m >= 1 /\ a + 1 # 2 /\ a + 1 # 0
        BY <3>3
      <3> QED
        BY <2>5, <3>2, <3>4, <3>5, <3>6, <3>7 DEF Scanned
    <2>6. CASE t[m] # LF /\ t[m] # CR
      <3>1. new = [crlfcrlf |-> 0, lflf |-> 0, end |-> 0]
        BY <2>6, <2>7, MatchCases
      <3>2. ~EmptyLine(t, m)
        BY <2>6 DEF EmptyLine
      <3> HIDE DEF new
      <3> QED
        BY <1>2, <2>1, <2>6, <3>1, <3>2 DEF Scanned
    <2> QED
      BY <2>3, <2>4, <2>5, <2>6
  <1> QED
    BY <1>3, <1>4

LEMMA MinIs ==
  ASSUME NEW k \in Int, NEW s \in SUBSET Int, k \in s, \A y \in s : k <= y
  PROVE  Min(s) = k
  <1>1. \A x \in s : (\A y \in s : x <= y) => x = k
    OBVIOUS
  <1>2. \E x \in s : \A y \in s : x <= y
    OBVIOUS
  <1>3. Min(s) \in s /\ \A y \in s : Min(s) <= y
    BY <1>2 DEF Min
  <1> QED
    BY <1>1, <1>3

LEMMA HeaderEndIs ==
  ASSUME NEW S, NEW t \in Seq(S), \A i \in 1..Len(t) - 1 : t[i] # CR \/ t[i + 1] # CR
  PROVE  LET ends == {i \in DOMAIN t : EmptyLine(t, i)}
         IN  HeaderEnd(t) = IF ends = {} THEN 0 ELSE Min(ends)
  <1> DEFINE n == Len(t)
             ends == {i \in DOMAIN t : EmptyLine(t, i)}
  <1>1. PICK f : /\ HeaderEnd(t) = f[1..n].end /\ f[1..0] = NoMatch
                 /\ \A m \in 1..n : f[1..m] = Match(t, f[1..m - 1], m)
    BY HeaderEndScans
  <1>2. n \in Nat /\ DOMAIN t = 1..n
    BY LenProperties
  <1>3. \A i \in 1..n - 1 : t[i] # CR \/ t[i + 1] # CR
    OBVIOUS
  <1> HIDE DEF n
  <1> DEFINE D == {m \in 0..n : Scanned(t, f[1..m], m)}
  <1>4. 0 \in D
    <2>1. Scanned(t, NoMatch, 0)
      BY DEF Scanned, NoMatch
    <2> QED
      BY <1>1, <1>2, <2>1
  <1>5. ASSUME NEW m \in 0..n - 1, m \in D
        PROVE  m + 1 \in D
    <2>1. m + 1 \in 1..n /\ m + 1 \in 0..n /\ (m + 1) - 1 = m /\ m + 1 \in Nat \ {0}
      BY <1>2
    <2>2. Scanned(t, f[1..(m + 1) - 1], (m + 1) - 1)
      BY <1>5, <2>1
    <2>3. m + 1 > 1 => t[(m + 1) - 1] # CR \/ t[m + 1] # CR
      <3>1. m + 1 > 1 => m \in 1..n - 1
        BY <1>2
      <3> QED
        BY <1>3, <2>1, <3>1
    <2>4. Scanned(t, Match(t, f[1..(m + 1) - 1], m + 1), m + 1)
      BY <2>1, <2>2, <2>3, MatchStep
    <2>5. Scanned(t, f[1..m + 1], m + 1)
      BY Zenon, <1>1, <2>1, <2>4
    <2> QED
      BY <2>1, <2>5
  <1> HIDE DEF D
  <1>6. 0..n \subseteq D
    BY <1>2, <1>4, <1>5, BoundedInduction
  <1>7. Scanned(t, f[1..n], n)
    BY <1>2, <1>6 DEF D
  <1> DEFINE e == f[1..n].end
  <1>8. /\ e = 0 => \A i \in 1..n : ~EmptyLine(t, i)
        /\ e # 0 => e \in 1..n /\ EmptyLine(t, e) /\ \A i \in 1..e - 1 : ~EmptyLine(t, i)
    BY <1>7 DEF Scanned
  <1> HIDE DEF e
  <1>9. e = 0 => ends = {}
    BY <1>2, <1>8
  <1>10. e # 0 => ends # {} /\ Min(ends) = e
    <2> SUFFICES ASSUME e # 0
                 PROVE  ends # {} /\ Min(ends) = e
      OBVIOUS
    <2>1. e \in ends /\ e \in Int /\ ends \in SUBSET Int
      BY <1>2, <1>8
    <2>2. \A y \in ends : e <= y
      <3>1. \A y \in 1..n : EmptyLine(t, y) => ~(y \in 1..e - 1)
        BY <1>8
      <3> QED
        BY <1>2, <1>8, <3>1
    <2> QED
      BY <2>1, <2>2, MinIs
  <1> QED
    BY <1>1, <1>9, <1>10 DEF e

\* A text is a sequence of parts of its kind.
TextTyped == kind \in DOMAIN Parts /\ text \in Seq(Parts[kind])

LEMMA AlwaysTyped == MessageSpec => []TextTyped
  <1>1. MessageInit => TextTyped
    BY DEF MessageInit, TextTyped
  <1>2. TextTyped /\ [Grow]_<<kind, text>> => TextTyped'
    <2> SUFFICES ASSUME TextTyped, [Grow]_<<kind, text>>
                 PROVE  TextTyped'
      OBVIOUS
    <2>1. CASE Grow
      <3>1. PICK part \in Parts[kind] : text' = Append(text, part)
        BY <2>1 DEF Grow
      <3>2. text' \in Seq(Parts[kind])
        BY <3>1, AppendProperties DEF TextTyped
      <3> QED
        BY <2>1, <3>2 DEF Grow, TextTyped
    <2>2. CASE UNCHANGED <<kind, text>>
      BY <2>2 DEF TextTyped
    <2> QED
      BY <2>1, <2>2
  <1> QED
    BY <1>1, <1>2, PTL DEF MessageSpec

\* Whatever the text, HeaderEndMatch stops behind its first empty line, unless two CR
\* come together.
THEOREM HeaderAlwaysEndsAtEmptyLine == MessageSpec => []HeaderEndsAtEmptyLine
  <1>1. TextTyped => HeaderEndsAtEmptyLine
    <2> SUFFICES ASSUME TextTyped, \A i \in 1 .. Len(text) - 1 : text[i] # CR \/ text[i + 1] # CR
                 PROVE  LET Marked(i, mark) == i >= Len(mark) /\ SubSeq(text, i - Len(mark) + 1, i) = mark
                            ends == {i \in DOMAIN text : Marked(i, CRLF \o CRLF) \/ Marked(i, <<LF, LF>>)}
                        IN  HeaderEnd(text) = IF ends = {} THEN 0 ELSE Min(ends)
      BY Zenon DEF HeaderEndsAtEmptyLine
    <2> DEFINE Marked(i, mark) == i >= Len(mark) /\ SubSeq(text, i - Len(mark) + 1, i) = mark
               ends == {i \in DOMAIN text : Marked(i, CRLF \o CRLF) \/ Marked(i, <<LF, LF>>)}
               blanks == {i \in DOMAIN text : EmptyLine(text, i)}
    <2>1. text \in Seq(Parts[kind]) /\ DOMAIN text = 1..Len(text)
      BY LenProperties DEF TextTyped
    <2>2. HeaderEnd(text) = IF blanks = {} THEN 0 ELSE Min(blanks)
      BY <2>1, HeaderEndIs
    <2>3. \A i \in DOMAIN text : EmptyLine(text, i) <=> Marked(i, CRLF \o CRLF) \/ Marked(i, <<LF, LF>>)
      BY <2>1, MarkIsEmptyLine
    <2> HIDE DEF Marked
    <2>4. blanks = ends
      BY <2>3
    <2> HIDE DEF blanks, ends
    <2>5. HeaderEnd(text) = IF ends = {} THEN 0 ELSE Min(ends)
      BY <2>2, <2>4
    <2> QED
      BY Zenon, <2>5 DEF ends, Marked
  <1> QED
    BY <1>1, AlwaysTyped, PTL

LEMMA OnlyElement ==
  ASSUME NEW s, IsFiniteSet(s), Cardinality(s) <= 1, NEW x \in s, NEW y \in s
  PROVE  y = x
  <1> SUFFICES ASSUME y # x
               PROVE  FALSE
    OBVIOUS
  <1>1. IsFiniteSet({x}) /\ Cardinality({x}) = 1
    BY FS_Singleton
  <1>2. {x} \in SUBSET s
    OBVIOUS
  <1>3. Cardinality({x}) <= Cardinality(s) /\ (Cardinality(s) = Cardinality({x}) => s = {x})
    BY <1>2, FS_Subset
  <1>4. Cardinality(s) \in Nat
    BY FS_CardinalityType
  <1> QED
    BY <1>1, <1>3, <1>4

\* A response that the server's header leaves open has a length or chunks: the client
\* does not wait for the end of the connection.
THEOREM ContentAlwaysDelimited == MessageSpec => []ContentIsDelimited
  <1>1. TextTyped => ContentIsDelimited
    <2> DEFINE encodings == {i \in DOMAIN text : text[i].name = "transfer-encoding"}
               written == WrittenFields(text, FALSE)
    <2> SUFFICES ASSUME TextTyped, kind = "fields", Cardinality(encodings) <= 1,
                        \A i \in encodings : text[i].value # "Chunked"
                 PROVE  ContentEnd(written) \in {"length", "chunked"}
      BY Zenon DEF ContentIsDelimited
    <2>1. /\ DOMAIN text = 1..Len(text) /\ Len(text) \in Nat
          /\ text \in Seq([name : STRING, value : STRING])
          /\ \A i \in DOMAIN text : text[i] \in [name : STRING, value : STRING]
      <3>1. text \in Seq([name : STRING, value : STRING])
        BY PartsAssumption, SeqMonotonic DEF TextTyped
      <3> QED
        BY <3>1, LenProperties, ElementOfSeq
    <2>2. CASE \E i \in DOMAIN text : Delimits(text[i])
      <3>1. written = text
        BY <2>2 DEF WrittenFields
      <3>2. PICK i \in DOMAIN text : Delimits(text[i])
        BY <2>2
      <3>3. CASE text[i].name = "content-length"
        BY <3>1, <3>3 DEF ContentEnd, Has
      <3>4. CASE text[i].name = "transfer-encoding" /\ Lower(text[i].value) = "chunked"
        <4>1. text[i].value = "chunked"
          BY <3>4 DEF Lower
        <4>2. i \in encodings /\ encodings \subseteq 1..Len(text)
          BY <2>1, <3>4
        <4>3. \A j \in encodings : j = i
          <5>1. IsFiniteSet(1..Len(text))
            BY <2>1, FS_Interval
          <5>2. IsFiniteSet(encodings)
            BY <4>2, <5>1, FS_Subset
          <5> HIDE DEF encodings
          <5> QED
            BY <4>2, <5>2, OnlyElement
        <4>4. \A j \in DOMAIN text : text[j].name = "transfer-encoding" => text[j].value = "chunked"
          BY <4>1, <4>3
        <4> QED
          BY <3>1, <3>4, <4>4 DEF ContentEnd, Has, HasValue
      <3> QED
        BY <3>2, <3>3, <3>4 DEF Delimits
    <2>3. CASE ~\E i \in DOMAIN text : Delimits(text[i])
      <3> DEFINE size == [name |-> "content-length", value |-> "size"]
      <3>1. written = Append(text, size)
        BY <2>3 DEF WrittenFields
      <3>2. size.name = "content-length"
        OBVIOUS
      <3> HIDE DEF size
      <3> DEFINE fields == [name : STRING, value : STRING] \cup {size}
      <3>3. text \in Seq(fields) /\ size \in fields
        BY <2>1, SeqMonotonic, [name : STRING, value : STRING] \subseteq fields
      <3> HIDE DEF fields, written
      <3>4. Len(written) = Len(text) + 1 /\ written[Len(text) + 1] = size /\ written \in Seq(fields)
        BY <3>1, <3>3, AppendProperties
      <3>5. Len(text) + 1 \in DOMAIN written
        BY <2>1, <3>4, LenProperties
      <3>6. Has(written, "content-length")
        BY <3>2, <3>4, <3>5 DEF Has
      <3> QED
        BY <3>6 DEF ContentEnd
    <2> QED
      BY <2>2, <2>3
  <1> QED
    BY <1>1, AlwaysTyped, PTL

-----------------------------------------------------------------------------
(* Messages: what one side writes, the other reads.                        *)

\* The function that Lines computes: what has been read of a text after some characters.
LineScan(f, t, S) ==
    f = [s \in SUBSET S |-> IF s = {} THEN NoLines ELSE GetLine(f[s \ {Max(s)}], t[Max(s)])]

LEMMA ReadsExist ==
  ASSUME NEW t, NEW n \in Nat
  PROVE  \E f : LineScan(f, t, 1..n)
  <1> DEFINE D == {m \in 0..n : \E f : LineScan(f, t, 1..m)}
  <1>1. 0 \in D
    <2> DEFINE f == [s \in SUBSET (1..0) |-> NoLines]
    <2>1. \A s \in SUBSET (1..0) : s = {}
      OBVIOUS
    <2>2. f = [s \in SUBSET (1..0) |-> IF s = {} THEN NoLines ELSE GetLine(f[s \ {Max(s)}], t[Max(s)])]
      BY <2>1
    <2> HIDE DEF f
    <2>3. LineScan(f, t, 1..0)
      BY Zenon, <2>2 DEF LineScan
    <2> QED
      BY <2>3
  <1>2. ASSUME NEW m \in 0..n - 1, m \in D
        PROVE  m + 1 \in D
    <2>1. PICK f : LineScan(f, t, 1..m)
      BY <1>2
    <2> DEFINE g == [s \in SUBSET (1..m + 1) |->
                        IF m + 1 \in s THEN GetLine(f[s \ {m + 1}], t[m + 1]) ELSE f[s]]
    <2>2. ASSUME NEW s \in SUBSET (1..m + 1)
          PROVE  g[s] = IF s = {} THEN NoLines ELSE GetLine(g[s \ {Max(s)}], t[Max(s)])
      <3>1. CASE m + 1 \in s
        <4>1. Max(s) = m + 1
          <5>1. m + 1 \in Nat /\ s \subseteq 1..m + 1
            OBVIOUS
          <5> QED
            BY <3>1, <5>1, MaxIs
        <4>2. g[s \ {m + 1}] = f[s \ {m + 1}]
          OBVIOUS
        <4> QED
          BY <3>1, <4>1, <4>2
      <3>2. CASE m + 1 \notin s
        <4>1. s \in SUBSET (1..m)
          BY <3>2
        <4>2. \A r \in SUBSET s : r \in SUBSET (1..m + 1) /\ m + 1 \notin r
          BY <3>2
        <4>3. \A r \in SUBSET s : g[r] = f[r]
          BY <4>2
        <4> HIDE DEF g
        <4>4. f[s] = IF s = {} THEN NoLines ELSE GetLine(f[s \ {Max(s)}], t[Max(s)])
          BY Zenon, <2>1, <4>1 DEF LineScan
        <4>5. g[s] = f[s] /\ g[s \ {Max(s)}] = f[s \ {Max(s)}]
          <5>1. s \ {Max(s)} \in SUBSET s /\ s \in SUBSET s
            OBVIOUS
          <5> QED
            BY <4>3, <5>1
        <4> QED
          BY <4>4, <4>5
      <3> QED
        BY <3>1, <3>2
    <2>3. LineScan(g, t, 1..m + 1)
      <3>1. g = [s \in SUBSET (1..m + 1) |-> g[s]]
        OBVIOUS
      <3> HIDE DEF g
      <3> QED
        BY Zenon, <2>2, <3>1 DEF LineScan
    <2> HIDE DEF g
    <2> QED
      BY <2>3
  <1> HIDE DEF D
  <1>3. 0..n \subseteq D
    BY <1>1, <1>2, BoundedInduction
  <1> QED
    BY <1>3 DEF D

\* Lines reads one character after the other.
Scans(f, t) ==
    /\ f[1..0] = NoLines
    /\ \A m \in 1..Len(t) : f[1..m] = GetLine(f[1..m - 1], t[m])

LEMMA LinesScan ==
  ASSUME NEW S, NEW t \in Seq(S)
  PROVE  \E f : Lines(t) = AllLines(f[1..Len(t)]) /\ Scans(f, t)
  <1> DEFINE n == Len(t)
             h == CHOOSE g : LineScan(g, t, DOMAIN t)
  <1>1. Lines(t) = AllLines(h[DOMAIN t])
    BY Zenon DEF Lines, FoldLeft, MapThenFoldSet, LineScan
  <1>2. n \in Nat /\ DOMAIN t = 1..n
    BY LenProperties
  <1> HIDE DEF n
  <1>3. LineScan(h, t, 1..n)
    BY <1>2, ReadsExist
  <1> HIDE DEF h
  <1>4. \A s \in SUBSET (1..n) : h[s] = IF s = {} THEN NoLines ELSE GetLine(h[s \ {Max(s)}], t[Max(s)])
    BY Zenon, <1>3 DEF LineScan
  <1>5. h[1..0] = NoLines
    <2>1. 1..0 \in SUBSET (1..n) /\ 1..0 = {}
      OBVIOUS
    <2> QED
      BY Zenon, <1>4, <2>1
  <1>6. ASSUME NEW m \in 1..n
        PROVE  h[1..m] = GetLine(h[1..m - 1], t[m])
    <2>1. m \in Nat /\ 1..m \in SUBSET (1..n) /\ 1..m # {} /\ m \in 1..m /\ 1..m \subseteq 1..m
      <3>1. m \in Nat /\ m \in 1..m /\ \A i \in 1..m : i \in 1..n
        BY <1>2
      <3> QED
        BY <3>1
    <2>2. Max(1..m) = m
      BY <2>1, MaxIs
    <2>3. (1..m) \ {m} = 1..m - 1
      BY <1>2
    <2>4. h[1..m] = GetLine(h[(1..m) \ {Max(1..m)}], t[Max(1..m)])
      BY Zenon, <1>4, <2>1
    <2> QED
      BY Zenon, <2>2, <2>3, <2>4
  <1> QED
    BY Zenon, <1>1, <1>2, <1>5, <1>6 DEF n, Scans

\* What has been read.
SoFar(x, y) == [lines |-> x, line |-> y]

LEMMA LineStep ==
  ASSUME NEW x, NEW y, NEW byte
  PROVE  /\ byte = LF => GetLine(SoFar(x, y), byte) = SoFar(Append(x, y), <<>>)
         /\ byte # LF => GetLine(SoFar(x, y), byte) = SoFar(x, Append(y, byte))
  <1> DEFINE acc == SoFar(x, y)
             more == Append(y, byte)
  <1>1. acc.lines = x /\ acc.line = y
    BY DEF SoFar
  <1> HIDE DEF more
  <1>2. [acc EXCEPT !.line = more] = SoFar(x, more)
    BY DEF SoFar
  <1> HIDE DEF acc
  <1>3. [acc EXCEPT !.line = Append(@, byte)] = [acc EXCEPT !.line = more]
    BY Zenon, <1>1 DEF more
  <1>4. /\ byte = LF => GetLine(acc, byte) = [lines |-> Append(x, y), line |-> <<>>]
        /\ byte # LF => GetLine(acc, byte) = SoFar(x, more)
    BY Zenon, <1>1, <1>2, <1>3 DEF GetLine
  <1>5. [lines |-> Append(x, y), line |-> <<>>] = SoFar(Append(x, y), <<>>)
    BY Zenon DEF SoFar
  <1> QED
    BY Zenon, <1>4, <1>5 DEF acc, more

LEMMA ReadType ==
  ASSUME NEW S, NEW acc
  PROVE  /\ acc \in [lines : Seq(Seq(S)), line : Seq(S)] =>
                acc = SoFar(acc.lines, acc.line) /\ acc.lines \in Seq(Seq(S)) /\ acc.line \in Seq(S)
         /\ \A x \in Seq(Seq(S)), y \in Seq(S) : SoFar(x, y) \in [lines : Seq(Seq(S)), line : Seq(S)]
  BY DEF SoFar

LEMMA AppendBehind ==
  ASSUME NEW S, NEW u \in Seq(S), NEW x \in Seq(S), NEW y \in S
  PROVE  Append(u \o x, y) = u \o Append(x, y) /\ Append(x, y) \in Seq(S)
  <1> DEFINE w == <<y>>
  <1>1. u \o x \in Seq(S) /\ w \in Seq(S)
    BY ConcatProperties
  <1>2. Append(u \o x, y) = (u \o x) \o w /\ Append(x, y) = x \o w
    BY <1>1, AppendIsConcat
  <1> HIDE DEF w
  <1>3. (u \o x) \o w = u \o (x \o w)
    BY <1>1, ConcatAssociative
  <1>4. Append(x, y) \in Seq(S)
    BY AppendProperties
  <1> QED
    BY Zenon, <1>2, <1>3, <1>4

LEMMA Prefix ==
  ASSUME NEW S, NEW a \in Seq(S), NEW m \in 0..Len(a) - 1
  PROVE  Append(SubSeq(a, 1, m), a[m + 1]) = SubSeq(a, 1, m + 1)
  <1> DEFINE p == SubSeq(a, 1, m)
             q == SubSeq(a, 1, m + 1)
  <1>1. Len(a) \in Nat /\ m \in Int /\ m + 1 \in 1..Len(a) /\ \A i \in 1..m + 1 : a[i] \in S
    BY LenProperties, ElementOfSeq
  <1>2. /\ p \in Seq(S) /\ Len(p) = IF 1 <= m THEN m - 1 + 1 ELSE 0
        /\ \A i \in 1..m - 1 + 1 : p[i] = a[1 + i - 1]
    BY <1>1, SubSeqProperties
  <1>3. /\ q \in Seq(S) /\ Len(q) = IF 1 <= m + 1 THEN m + 1 - 1 + 1 ELSE 0
        /\ \A i \in 1..m + 1 - 1 + 1 : q[i] = a[1 + i - 1]
    BY <1>1, SubSeqProperties
  <1> HIDE DEF p, q
  <1>4. Len(p) = m /\ \A i \in 1..m : p[i] = a[i]
    BY <1>1, <1>2
  <1>5. Len(q) = m + 1 /\ \A i \in 1..m + 1 : q[i] = a[i]
    BY <1>1, <1>3
  <1> DEFINE r == Append(p, a[m + 1])
  <1>6. r \in Seq(S) /\ Len(r) = Len(p) + 1 /\ (\A i \in 1..Len(p) : r[i] = p[i]) /\ r[Len(p) + 1] = a[m + 1]
    BY <1>1, <1>2, AppendProperties
  <1> HIDE DEF r
  <1>7. Len(r) = Len(q) /\ \A i \in 1..Len(r) : r[i] = q[i]
    BY <1>1, <1>4, <1>5, <1>6
  <1>8. r = q
    BY <1>3, <1>6, <1>7, SeqEqual
  <1> QED
    BY Zenon, <1>8 DEF p, q, r

\* As long as no LF comes, what is read is the line.
LEMMA WithinLine ==
  ASSUME NEW S, NEW a \in Seq(S), \A i \in 1..Len(a) : a[i] # LF, NEW t, NEW f, Len(t) \in Nat,
         Len(a) <= Len(t), \A i \in 1..Len(a) : t[i] = a[i], Scans(f, t)
  PROVE  f[1..Len(a)] = SoFar(<<>>, a)
  <1> DEFINE n == Len(a)
             D == {m \in 0..n : f[1..m] = SoFar(<<>>, SubSeq(a, 1, m))}
  <1>1. n \in Nat /\ \A i \in 1..n : a[i] \in S
    BY LenProperties, ElementOfSeq
  <1>2. \A m \in 1..n : t[m] = a[m] /\ a[m] # LF /\ f[1..m] = GetLine(f[1..m - 1], t[m])
    BY <1>1 DEF Scans
  <1>3. SubSeq(a, 1, n) = a
    <2> DEFINE s == SubSeq(a, 1, n)
    <2>1. s \in Seq(S) /\ Len(s) = (IF 1 <= n THEN n - 1 + 1 ELSE 0) /\ \A i \in 1..n - 1 + 1 : s[i] = a[1 + i - 1]
      BY <1>1, SubSeqProperties
    <2> HIDE DEF s, n
    <2>2. Len(s) = n /\ \A i \in 1..Len(s) : s[i] = a[i]
      BY <1>1, <2>1
    <2>3. s = a
      BY <2>1, <2>2, SeqEqual DEF n
    <2> QED
      BY Zenon, <2>3 DEF s
  <1>4. \A m \in 0..n - 1 : Append(SubSeq(a, 1, m), a[m + 1]) = SubSeq(a, 1, m + 1)
    BY Prefix
  <1> HIDE DEF n
  <1>5. 0 \in D
    <2>1. SubSeq(a, 1, 0) = <<>>
      BY SubSeqEmpty
    <2>2. f[1..0] = SoFar(<<>>, SubSeq(a, 1, 0))
      BY Zenon, <2>1 DEF Scans, NoLines, SoFar
    <2> QED
      BY <1>1, <2>2
  <1>6. ASSUME NEW m \in 0..n - 1, m \in D
        PROVE  m + 1 \in D
    <2>1. m + 1 \in 1..n /\ m + 1 \in 0..n /\ (m + 1) - 1 = m
      BY <1>1
    <2>2. f[1..m + 1] = GetLine(f[1..m], a[m + 1]) /\ a[m + 1] # LF
      BY Zenon, <1>2, <2>1
    <2>5. f[1..m] = SoFar(<<>>, SubSeq(a, 1, m))
      BY <1>6
    <2>6. a[m + 1] # LF => GetLine(SoFar(<<>>, SubSeq(a, 1, m)), a[m + 1])
                                = SoFar(<<>>, Append(SubSeq(a, 1, m), a[m + 1]))
      BY Zenon, LineStep
    <2>3. f[1..m + 1] = SoFar(<<>>, Append(SubSeq(a, 1, m), a[m + 1]))
      BY Zenon, <2>2, <2>5, <2>6
    <2>4. f[1..m + 1] = SoFar(<<>>, SubSeq(a, 1, m + 1))
      BY Zenon, <1>4, <2>3
    <2> QED
      BY Zenon, <2>1, <2>4
  <1>7. 0..n \subseteq D
    <2> HIDE DEF D
    <2> QED
      BY <1>1, <1>5, <1>6, BoundedInduction
  <1>8. f[1..n] = SoFar(<<>>, SubSeq(a, 1, n))
    BY <1>1, <1>7
  <1> QED
    BY Zenon, <1>3, <1>8 DEF n

\* What has been read of a text are lines, and a line.
LEMMA LinesType ==
  ASSUME NEW S, NEW t \in Seq(S), NEW f, Scans(f, t)
  PROVE  \A m \in 0..Len(t) : f[1..m] \in [lines : Seq(Seq(S)), line : Seq(S)]
  <1> DEFINE n == Len(t)
             T == [lines : Seq(Seq(S)), line : Seq(S)]
             D == {m \in 0..n : f[1..m] \in T}
  <1>1. n \in Nat /\ \A i \in 1..n : t[i] \in S
    BY LenProperties, ElementOfSeq
  <1>2. f[1..0] = NoLines /\ \A m \in 1..n : f[1..m] = GetLine(f[1..m - 1], t[m])
    BY DEF Scans
  <1> HIDE DEF n
  <1>3. <<>> \in Seq(S) /\ <<>> \in Seq(Seq(S))
    BY EmptySeq
  <1>4. NoLines \in T
    BY <1>3 DEF NoLines
  <1>5. ASSUME NEW acc \in T, NEW byte \in S
        PROVE  GetLine(acc, byte) \in T
    <2> DEFINE x == acc.lines
               y == acc.line
    <2>1. acc = SoFar(x, y) /\ x \in Seq(Seq(S)) /\ y \in Seq(S)
      BY Zenon, <1>5, ReadType
    <2> HIDE DEF x, y
    <2>2. Append(x, y) \in Seq(Seq(S)) /\ Append(y, byte) \in Seq(S)
      BY Zenon, <1>5, <2>1, AppendProperties
    <2>3. /\ byte = LF => GetLine(acc, byte) = SoFar(Append(x, y), <<>>)
          /\ byte # LF => GetLine(acc, byte) = SoFar(x, Append(y, byte))
      BY Zenon, <2>1, LineStep
    <2>4. SoFar(Append(x, y), <<>>) \in T /\ SoFar(x, Append(y, byte)) \in T
      BY Zenon, <1>3, <2>1, <2>2, ReadType
    <2> QED
      BY Zenon, <2>3, <2>4
  <1>6. 0 \in D
    BY <1>1, <1>2, <1>4
  <1>7. ASSUME NEW m \in 0..n - 1, m \in D
        PROVE  m + 1 \in D
    <2>1. m + 1 \in 1..n /\ m + 1 \in 0..n /\ (m + 1) - 1 = m
      BY <1>1
    <2>2. f[1..m + 1] = GetLine(f[1..m], t[m + 1])
      BY Zenon, <1>2, <2>1
    <2>3. f[1..m] \in T
      BY <1>7
    <2>4. f[1..m + 1] \in T
      BY Zenon, <1>1, <1>5, <2>1, <2>2, <2>3
    <2> QED
      BY Zenon, <2>1, <2>4
  <1>8. 0..n \subseteq D
    <2> HIDE DEF D
    <2> QED
      BY <1>1, <1>6, <1>7, BoundedInduction
  <1> QED
    BY <1>8 DEF n

\* A text that has an LF is the line before it, and the lines of what follows.
LEMMA FirstLine ==
  ASSUME NEW S, LF \in S, NEW a \in Seq(S), NEW b \in Seq(S), \A i \in 1..Len(a) : a[i] # LF
  PROVE  /\ Lines(a \o (<<LF>> \o b)) = <<a>> \o Lines(b)
         /\ Lines(b) \in Seq(Seq(S))
  <1> DEFINE t == a \o (<<LF>> \o b)
             n == Len(a)
             k == Len(b)
             T == [lines : Seq(Seq(S)), line : Seq(S)]
  <1>1. n \in Nat /\ k \in Nat /\ \A i \in 1..k : b[i] \in S
    BY LenProperties, ElementOfSeq
  <1>2. /\ t \in Seq(S) /\ Len(t) = n + 1 + k
        /\ \A i \in 1..n : t[i] = a[i]
        /\ t[n + 1] = LF
        /\ \A i \in 1..k : t[n + 1 + i] = b[i]
    <2> DEFINE u == <<LF>>
               c == u \o b
    <2>1. u \in Seq(S) /\ Len(u) = 1 /\ u[1] = LF
      OBVIOUS
    <2> HIDE DEF u
    <2>2. /\ c \in Seq(S) /\ Len(c) = Len(u) + Len(b)
          /\ \A i \in 1..Len(u) + Len(b) : c[i] = IF i <= Len(u) THEN u[i] ELSE b[i - Len(u)]
      BY <2>1, ConcatProperties
    <2> HIDE DEF c
    <2>3. Len(c) = 1 + k /\ c[1] = LF /\ \A i \in 1..k : c[1 + i] = b[i]
      BY <1>1, <2>1, <2>2
    <2>4. /\ t \in Seq(S) /\ Len(t) = Len(a) + Len(c)
          /\ \A i \in 1..Len(a) + Len(c) : t[i] = IF i <= Len(a) THEN a[i] ELSE c[i - Len(a)]
      BY Zenon, <2>2, ConcatProperties DEF c, u
    <2> HIDE DEF t
    <2> QED
      BY <1>1, <2>3, <2>4
  <1> HIDE DEF t
  <1>3. PICK f : Lines(t) = AllLines(f[1..Len(t)]) /\ Scans(f, t)
    BY <1>2, LinesScan
  <1>4. PICK g : Lines(b) = AllLines(g[1..k]) /\ Scans(g, b)
    BY LinesScan
  <1>5. f[1..n] = SoFar(<<>>, a)
    <2>1. Len(t) \in Nat /\ Len(a) <= Len(t) /\ \A i \in 1..Len(a) : t[i] = a[i]
      BY <1>1, <1>2
    <2> QED
      BY Zenon, <1>3, <2>1, WithinLine
  <1>6. \A m \in 0..k : g[1..m] \in T
    BY <1>4, LinesType
  <1>7. /\ \A m \in 1..n + 1 + k : f[1..m] = GetLine(f[1..m - 1], t[m])
        /\ g[1..0] = NoLines
        /\ \A m \in 1..k : g[1..m] = GetLine(g[1..m - 1], b[m])
    BY <1>2, <1>3, <1>4 DEF Scans
  <1> DEFINE New(acc) == SoFar(<<a>> \o acc.lines, acc.line)
             D == {m \in 0..k : f[1..n + 1 + m] = New(g[1..m])}
  <1>8. a \in Seq(S) /\ <<a>> \in Seq(Seq(S)) /\ <<>> \in Seq(Seq(S))
    BY EmptySeq
  <1> HIDE DEF n, k
  <1>9. 0 \in D
    <2>1. n + 1 \in 1..n + 1 + k /\ (n + 1) - 1 = n /\ n + 1 + 0 = n + 1 /\ 0 \in 0..k
      BY <1>1
    <2>2. f[1..n + 1] = GetLine(f[1..n], t[n + 1])
      BY Zenon, <1>7, <2>1
    <2>3. f[1..n + 1] = SoFar(Append(<<>>, a), <<>>)
      <3>1. t[n + 1] = LF
        BY <1>2
      <3> QED
        BY Zenon, <1>5, <2>2, <3>1, LineStep
    <2>4. Append(<<>>, a) = <<a>> \o <<>>
      <3>1. Append(<<>>, a) = <<>> \o <<a>>
        BY <1>8, AppendIsConcat
      <3>2. <<>> \o <<a>> = <<a>> /\ <<a>> \o <<>> = <<a>>
        BY <1>8, ConcatEmptySeq
      <3> QED
        BY Zenon, <3>1, <3>2
    <2>5. NoLines.lines = <<>> /\ NoLines.line = <<>>
      BY DEF NoLines
    <2>6. f[1..n + 1 + 0] = New(g[1..0])
      BY Zenon, <1>7, <2>1, <2>3, <2>4, <2>5
    <2> QED
      BY Zenon, <2>1, <2>6
  <1>10. ASSUME NEW m \in 0..k - 1, m \in D
         PROVE  m + 1 \in D
    <2>1. /\ m + 1 \in 1..k /\ m + 1 \in 0..k /\ (m + 1) - 1 = m /\ m \in 0..k
          /\ n + 1 + (m + 1) \in 1..n + 1 + k /\ (n + 1 + (m + 1)) - 1 = n + 1 + m
      BY <1>1
    <2>2. /\ f[1..n + 1 + (m + 1)] = GetLine(f[1..n + 1 + m], b[m + 1])
          /\ g[1..m + 1] = GetLine(g[1..m], b[m + 1])
      BY Zenon, <1>2, <1>7, <2>1
    <2> DEFINE x == g[1..m].lines
               y == g[1..m].line
    <2>3. g[1..m] = SoFar(x, y) /\ x \in Seq(Seq(S)) /\ y \in Seq(S)
      BY Zenon, <1>6, <2>1, ReadType
    <2>4. f[1..n + 1 + m] = SoFar(<<a>> \o x, y)
      BY <1>10
    <2> HIDE DEF x, y
    <2>8. /\ b[m + 1] = LF => /\ GetLine(SoFar(<<a>> \o x, y), b[m + 1]) = SoFar(Append(<<a>> \o x, y), <<>>)
                              /\ GetLine(SoFar(x, y), b[m + 1]) = SoFar(Append(x, y), <<>>)
          /\ b[m + 1] # LF => /\ GetLine(SoFar(<<a>> \o x, y), b[m + 1]) = SoFar(<<a>> \o x, Append(y, b[m + 1]))
                              /\ GetLine(SoFar(x, y), b[m + 1]) = SoFar(x, Append(y, b[m + 1]))
      BY Zenon, LineStep
    <2>5. /\ b[m + 1] = LF => /\ f[1..n + 1 + (m + 1)] = SoFar(Append(<<a>> \o x, y), <<>>)
                              /\ g[1..m + 1] = SoFar(Append(x, y), <<>>)
          /\ b[m + 1] # LF => /\ f[1..n + 1 + (m + 1)] = SoFar(<<a>> \o x, Append(y, b[m + 1]))
                              /\ g[1..m + 1] = SoFar(x, Append(y, b[m + 1]))
      BY Zenon, <2>2, <2>3, <2>4, <2>8
    <2>6. Append(<<a>> \o x, y) = <<a>> \o Append(x, y)
      BY <1>8, <2>3, AppendBehind
    <2>7. f[1..n + 1 + (m + 1)] = New(g[1..m + 1])
      <3> DEFINE L == Append(x, y)
                 M == Append(y, b[m + 1])
      <3> HIDE DEF L, M
      <3>1. CASE b[m + 1] = LF
        <4>1. g[1..m + 1] = SoFar(L, <<>>)
          BY Zenon, <2>5, <3>1 DEF L
        <4>2. g[1..m + 1].lines = L /\ g[1..m + 1].line = <<>>
          BY <4>1 DEF SoFar
        <4>3. f[1..n + 1 + (m + 1)] = SoFar(<<a>> \o L, <<>>)
          BY Zenon, <2>5, <2>6, <3>1 DEF L
        <4> QED
          BY Zenon, <4>2, <4>3
      <3>2. CASE b[m + 1] # LF
        <4>1. g[1..m + 1] = SoFar(x, M)
          BY Zenon, <2>5, <3>2 DEF M
        <4>2. g[1..m + 1].lines = x /\ g[1..m + 1].line = M
          BY <4>1 DEF SoFar
        <4>3. f[1..n + 1 + (m + 1)] = SoFar(<<a>> \o x, M)
          BY Zenon, <2>5, <3>2 DEF M
        <4> QED
          BY Zenon, <4>2, <4>3
      <3> QED
        BY <3>1, <3>2
    <2> QED
      BY Zenon, <2>1, <2>7
  <1>11. 0..k \subseteq D
    <2> HIDE DEF D
    <2> QED
      BY <1>1, <1>9, <1>10, BoundedInduction
  <1> DEFINE x == g[1..k].lines
             y == g[1..k].line
  <1>12. x \in Seq(Seq(S)) /\ y \in Seq(S)
    BY <1>1, <1>6
  <1>13. f[1..Len(t)] = SoFar(<<a>> \o x, y)
    <2>1. k \in D
      <3> HIDE DEF D
      <3> QED
        BY <1>1, <1>11
    <2> QED
      BY <1>2, <2>1
  <1>14. Lines(t) = IF y = <<>> THEN <<a>> \o x ELSE Append(<<a>> \o x, y)
    <2>1. f[1..Len(t)].lines = <<a>> \o x /\ f[1..Len(t)].line = y
      BY <1>13 DEF SoFar
    <2> QED
      BY Zenon, <1>3, <2>1 DEF AllLines
  <1>15. Lines(b) = IF y = <<>> THEN x ELSE Append(x, y)
    BY Zenon, <1>4 DEF AllLines
  <1> HIDE DEF x, y
  <1>16. Append(<<a>> \o x, y) = <<a>> \o Append(x, y) /\ Append(x, y) \in Seq(Seq(S))
    BY <1>8, <1>12, AppendBehind
  <1> QED
    BY Zenon, <1>12, <1>14, <1>15, <1>16 DEF t

\* A text behind another, and a part of a text.
Behind(t, x, y) ==
    /\ Len(t) = Len(x) + Len(y) /\ Len(x) \in Nat /\ Len(y) \in Nat
    /\ \A i \in 1..Len(x) : t[i] = x[i]
    /\ \A i \in 1..Len(y) : t[Len(x) + i] = y[i]

LEMMA Joining ==
  ASSUME NEW S, NEW x \in Seq(S), NEW y \in Seq(S)
  PROVE  x \o y \in Seq(S) /\ Behind(x \o y, x, y)
  <1> DEFINE t == x \o y
  <1>1. /\ t \in Seq(S) /\ Len(t) = Len(x) + Len(y)
        /\ \A i \in 1..Len(x) + Len(y) : t[i] = IF i <= Len(x) THEN x[i] ELSE y[i - Len(x)]
    BY ConcatProperties
  <1>2. Len(x) \in Nat /\ Len(y) \in Nat
    BY LenProperties
  <1> HIDE DEF t
  <1>3. ASSUME NEW i \in 1..Len(y)
        PROVE  t[Len(x) + i] = y[i]
    <2>1. Len(x) + i \in 1..Len(x) + Len(y) /\ ~(Len(x) + i <= Len(x)) /\ (Len(x) + i) - Len(x) = i
      BY <1>2
    <2> QED
      BY <1>1, <2>1
  <1>4. \A i \in 1..Len(x) : t[i] = x[i]
    BY <1>1, <1>2
  <1> QED
    BY Zenon, <1>1, <1>2, <1>3, <1>4 DEF t, Behind

PartAt(t, from, x) == \A i \in 1..Len(x) : t[from + i - 1] = x[i]

LEMMA Part ==
  ASSUME NEW t \in Seq(Nat), NEW x \in Seq(Nat), NEW from \in Nat \ {0}, NEW end,
         end = from + Len(x), end <= Len(t) + 1, PartAt(t, from, x)
  PROVE  Slice(t, from, end) = x
  <1> DEFINE s == SubSeq(t, from, end - 1)
             n == Len(x)
             m == Len(t)
  <1>1. n \in Nat /\ m \in Nat /\ \A i \in 1..m : t[i] \in Nat
    BY LenProperties, ElementOfSeq
  <1>5. end = from + n /\ end <= m + 1 /\ \A i \in 1..n : t[from + i - 1] = x[i]
    BY DEF PartAt
  <1>2. /\ s \in Seq(Nat) /\ Len(s) = (IF from <= end - 1 THEN (end - 1) - from + 1 ELSE 0)
        /\ \A i \in 1..(end - 1) - from + 1 : s[i] = t[from + i - 1]
    <2> HIDE DEF n, m
    <2>1. from \in Int /\ end - 1 \in Int /\ \A i \in from..end - 1 : t[i] \in Nat
      BY <1>1, <1>5
    <2> QED
      BY <2>1, SubSeqProperties
  <1> HIDE DEF s, n, m
  <1>3. Len(s) = n /\ \A i \in 1..n : s[i] = x[i]
    BY <1>1, <1>2, <1>5
  <1>4. s = x
    BY <1>2, <1>3, SeqEqual DEF n
  <1> QED
    BY Zenon, <1>4 DEF Slice, s

\* std::string::find.
NoneIn(t, byte, from, to) == \A i \in from..to : t[i] # byte

LEMMA FindIs ==
  ASSUME NEW t, NEW byte, NEW from \in Nat, NEW k \in from..Len(t), Len(t) \in Nat,
         t[k] = byte, NoneIn(t, byte, from, k - 1)
  PROVE  Find(t, byte, from) = k
  <1> DEFINE places == {i \in from..Len(t) : t[i] = byte}
  <1>1. k \in Int /\ places \in SUBSET Int /\ k \in places /\ places # {}
    OBVIOUS
  <1>2. \A y \in places : k <= y
    BY DEF NoneIn
  <1> HIDE DEF places
  <1>3. Min(places) = k
    BY <1>1, <1>2, MinIs
  <1> QED
    BY Zenon, <1>1, <1>3 DEF Find, places

LEMMA FindNone ==
  ASSUME NEW t, NEW byte, NEW from, \A i \in from..Len(t) : t[i] # byte
  PROVE  Find(t, byte, from) = 0
  <1> DEFINE places == {i \in from..Len(t) : t[i] = byte}
  <1>1. places = {}
    OBVIOUS
  <1> QED
    BY Zenon, <1>1 DEF Find

LEMMA FindFirst ==
  ASSUME NEW t, NEW byte, NEW from \in Nat \ {0}, Len(t) \in Nat
  PROVE  \/ Find(t, byte, from) = 0 /\ \A i \in from..Len(t) : t[i] # byte
         \/ /\ Find(t, byte, from) \in from..Len(t) /\ t[Find(t, byte, from)] = byte
            /\ \A i \in from..Find(t, byte, from) - 1 : t[i] # byte
  <1> DEFINE places == {i \in from..Len(t) : t[i] = byte}
  <1>1. CASE places = {}
    <2>1. \A i \in from..Len(t) : t[i] # byte
      BY <1>1
    <2> QED
      BY <2>1, FindNone
  <1>2. CASE places # {}
    <2>1. places \subseteq Nat
      OBVIOUS
    <2>2. PICK k \in places : \A y \in places : k <= y
      <3> HIDE DEF places
      <3> QED
        BY <1>2, <2>1, LeastElement
    <2>3. k \in from..Len(t) /\ t[k] = byte /\ NoneIn(t, byte, from, k - 1)
      BY <2>2 DEF NoneIn
    <2>4. Find(t, byte, from) = k
      BY <2>3, FindIs
    <2> QED
      BY <2>3, <2>4 DEF NoneIn
  <1> QED
    BY <1>1, <1>2

Associated(x, y, z) == (x \o y) \o z = x \o (y \o z)

LEMMA Assoc ==
  ASSUME NEW S, NEW x \in Seq(S), NEW y \in Seq(S), NEW z \in Seq(S)
  PROVE  Associated(x, y, z)
  BY ConcatAssociative DEF Associated

\* A line ends with its LF; what follows are the lines of the rest.
Regrouped(h, f, c) ==
    /\ ((h \o CRLF) \o f) \o c = (h \o <<CR>>) \o (<<LF>> \o (f \o c))
    /\ (h \o CRLF) \o f = (h \o <<CR>>) \o (<<LF>> \o f)

LEMMA Regroup ==
  ASSUME NEW h \in Seq(Nat), NEW f \in Seq(Nat), NEW c \in Seq(Nat)
  PROVE  Regrouped(h, f, c)
  <1> DEFINE cr == <<CR>>
             lf == <<LF>>
             k == h \o cr
             g == lf \o f
  <1>1. cr \in Seq(Nat) /\ lf \in Seq(Nat) /\ CRLF = cr \o lf
    BY DEF CRLF, CR, LF
  <1> HIDE DEF cr, lf
  <1>2. k \in Seq(Nat) /\ g \in Seq(Nat)
    BY <1>1, ConcatProperties
  <1> HIDE DEF k, g
  <1>3. /\ Associated(h, cr, lf) /\ Associated(lf, f, c) /\ Associated(k, lf, f)
        /\ Associated(k, g, c)
    BY <1>1, <1>2, Assoc
  <1>4. h \o CRLF = k \o lf
    BY Zenon, <1>1, <1>3 DEF Associated, k
  <1>5. (h \o CRLF) \o f = k \o g
    BY Zenon, <1>3, <1>4 DEF Associated, g
  <1>6. (k \o g) \o c = k \o (lf \o (f \o c))
    BY Zenon, <1>3 DEF Associated, g
  <1> QED
    BY Zenon, <1>5, <1>6 DEF Regrouped, k, g, cr, lf

\* FlattenSeq of one and of three.
Flattens(f, s) == f = [i \in 1..Len(s) |-> IF i = 1 THEN s[i] ELSE f[i - 1] \o s[i]]

LEMMA FlattenUnfolds ==
  ASSUME NEW s, Len(s) # 0, NEW g, Flattens(g, s)
  PROVE  \E f : FlattenSeq(s) = f[Len(s)] /\ Flattens(f, s)
  <1> DEFINE f == CHOOSE f : Flattens(f, s)
  <1>1. FlattenSeq(s) = f[Len(s)]
    BY Zenon DEF FlattenSeq, Flattens
  <1>2. Flattens(f, s)
    BY Zenon
  <1> QED
    BY Zenon, <1>1, <1>2

LEMMA FlattenOne ==
  ASSUME NEW s, Len(s) = 1
  PROVE  FlattenSeq(s) = s[1]
  <1> DEFINE g == [i \in 1..1 |-> s[1]]
  <1>1. g = [i \in 1..1 |-> IF i = 1 THEN s[i] ELSE g[i - 1] \o s[i]]
    OBVIOUS
  <1> HIDE DEF g
  <1>2. Flattens(g, s)
    BY Zenon, <1>1 DEF Flattens
  <1>3. PICK f : FlattenSeq(s) = f[Len(s)] /\ Flattens(f, s)
    <2>1. Len(s) # 0
      OBVIOUS
    <2> QED
      BY Zenon, <1>2, <2>1, FlattenUnfolds
  <1>4. f = [i \in 1..1 |-> IF i = 1 THEN s[i] ELSE f[i - 1] \o s[i]]
    BY Zenon, <1>3 DEF Flattens
  <1>5. f[1] = s[1]
    BY <1>4
  <1> QED
    BY <1>3, <1>5

LEMMA FlattenThree ==
  ASSUME NEW s, Len(s) = 3
  PROVE  FlattenSeq(s) = (s[1] \o s[2]) \o s[3]
  <1> DEFINE two == s[1] \o s[2]
             three == two \o s[3]
             g == [i \in 1..3 |-> IF i = 1 THEN s[1] ELSE IF i = 2 THEN two ELSE three]
             h(f) == [i \in 1..3 |-> IF i = 1 THEN s[i] ELSE f[i - 1] \o s[i]]
  <1>1. g = h(g)
    <2>1. \A i \in 1..3 : i = 1 \/ i = 2 \/ i = 3
      OBVIOUS
    <2>2. g[1] = s[1] /\ g[2] = two /\ g[3] = three
      <3> HIDE DEF two, three
      <3> QED
        OBVIOUS
    <2>3. \A i \in 1..3 : g[i] = IF i = 1 THEN s[i] ELSE g[i - 1] \o s[i]
      <3> SUFFICES ASSUME NEW i \in 1..3
                   PROVE  g[i] = IF i = 1 THEN s[i] ELSE g[i - 1] \o s[i]
        OBVIOUS
      <3> HIDE DEF g
      <3>1. i = 2 => i # 1 /\ i - 1 = 1
        OBVIOUS
      <3>2. i = 3 => i # 1 /\ i - 1 = 2
        OBVIOUS
      <3> QED
        BY Zenon, <2>1, <2>2, <3>1, <3>2
    <2>4. g = [i \in 1..3 |-> g[i]]
      <3> HIDE DEF two, three
      <3> QED
        OBVIOUS
    <2> HIDE DEF g
    <2> QED
      BY Zenon, <2>3, <2>4
  <1> HIDE DEF g
  <1>2. Flattens(g, s)
    BY Zenon, <1>1 DEF Flattens
  <1>3. PICK f : FlattenSeq(s) = f[Len(s)] /\ Flattens(f, s)
    <2>1. Len(s) # 0
      OBVIOUS
    <2> QED
      BY Zenon, <1>2, <2>1, FlattenUnfolds
  <1>4. f = h(f)
    BY Zenon, <1>3 DEF Flattens
  <1>5. \A i \in 1..3 : f[i] = IF i = 1 THEN s[i] ELSE f[i - 1] \o s[i]
    <2> DEFINE F == h(f)
    <2>1. \A i \in 1..3 : F[i] = IF i = 1 THEN s[i] ELSE f[i - 1] \o s[i]
      BY Zenon
    <2>2. f = F
      BY Zenon, <1>4
    <2> HIDE DEF F
    <2> QED
      BY Zenon, <2>1, <2>2
  <1>6. 1 \in 1..3 /\ 2 \in 1..3 /\ 3 \in 1..3 /\ 2 - 1 = 1 /\ 3 - 1 = 2 /\ 2 # 1 /\ 3 # 1
    OBVIOUS
  <1>7. f[1] = s[1]
    BY Zenon, <1>5, <1>6
  <1>8. f[2] = f[1] \o s[2]
    BY Zenon, <1>5, <1>6
  <1>9. f[3] = f[2] \o s[3]
    BY Zenon, <1>5, <1>6
  <1> QED
    BY Zenon, <1>3, <1>7, <1>8, <1>9

\* The least of a set of numbers.
LEMMA MinOf ==
  ASSUME NEW s, s \subseteq Nat, s # {}
  PROVE  Min(s) \in s /\ \A y \in s : Min(s) <= y
  <1>1. \E x \in s : \A y \in s : x <= y
    BY LeastElement
  <1> QED
    BY <1>1 DEF Min

\* A line of a header, without its LF; and where its value starts.
FieldBytes(name, value) == ((name \o <<COLON, SP>>) \o value) \o <<CR>>
FirstNonBlank(value) == Min({i \in 1 .. Len(value) + 1 : i > Len(value) \/ value[i] # SP})

LEMMA FirstNonBlankIs ==
  ASSUME NEW v \in Seq(Nat)
  PROVE  LET f == FirstNonBlank(v)
         IN  /\ f \in 1..Len(v) + 1 /\ (f > Len(v) \/ v[f] # SP)
             /\ \A i \in 1..f - 1 : v[i] = SP
  <1> DEFINE n == Len(v)
             s == {i \in 1 .. n + 1 : i > n \/ v[i] # SP}
             f == Min(s)
  <1>1. n \in Nat
    BY LenProperties
  <1> HIDE DEF n
  <1>2. s \subseteq Nat /\ n + 1 \in s
    BY <1>1
  <1>3. f \in s /\ \A y \in s : f <= y
    <2> HIDE DEF s
    <2> QED
      BY <1>2, MinOf
  <1> HIDE DEF f
  <1>4. f \in 1..n + 1 /\ (f > n \/ v[f] # SP)
    BY <1>3
  <1>5. ASSUME NEW i \in 1..f - 1
        PROVE  v[i] = SP
    <2>1. i \notin s
      <3> HIDE DEF s
      <3> QED
        BY <1>1, <1>3, <1>4
    <2> QED
      BY <1>1, <1>4, <2>1
  <1> QED
    BY Zenon, <1>4, <1>5 DEF FirstNonBlank, f, n

\* A value without a leading blank is whole.
LEMMA WholeValue ==
  ASSUME NEW v \in Seq(Nat), Len(v) = 0 \/ v[1] # SP
  PROVE  From(v, FirstNonBlank(v)) = v
  <1> DEFINE f == FirstNonBlank(v)
  <1>1. f \in 1..Len(v) + 1 /\ \A i \in 1..f - 1 : v[i] = SP
    BY Zenon, FirstNonBlankIs
  <1> HIDE DEF f
  <1>2. Len(v) \in Nat
    BY LenProperties
  <1>3. f = 1
    BY <1>1, <1>2
  <1>4. SubSeq(v, 1, Len(v)) = v
    BY SubSeqFull
  <1> QED
    BY Zenon, <1>3, <1>4 DEF From, f

\* The bytes of such a line.
LEMMA FieldBytesAre ==
  ASSUME NEW n \in Seq(Nat), NEW v \in Seq(Nat)
  PROVE  LET t == FieldBytes(n, v)
         IN  /\ t \in Seq(Nat) /\ Len(t) = Len(n) + 3 + Len(v)
             /\ Len(n) \in Nat /\ Len(v) \in Nat
             /\ \A i \in 1..Len(n) : t[i] = n[i]
             /\ t[Len(n) + 1] = COLON /\ t[Len(n) + 2] = SP
             /\ \A i \in 1..Len(v) : t[Len(n) + 2 + i] = v[i]
             /\ t[Len(n) + Len(v) + 3] = CR
  <1> DEFINE c == <<COLON, SP>>
             r == <<CR>>
             x == n \o c
             y == x \o v
             t == y \o r
             p == Len(n)
             q == Len(v)
  <1>1. /\ c \in Seq(Nat) /\ Len(c) = 2 /\ c[1] = COLON /\ c[2] = SP
        /\ r \in Seq(Nat) /\ Len(r) = 1 /\ r[1] = CR
    BY DEF COLON, SP, CR
  <1> HIDE DEF c, r
  <1>2. x \in Seq(Nat) /\ Behind(x, n, c)
    BY <1>1, Joining
  <1> HIDE DEF x
  <1>3. y \in Seq(Nat) /\ Behind(y, x, v)
    BY <1>2, Joining
  <1> HIDE DEF y
  <1>4. t \in Seq(Nat) /\ Behind(t, y, r)
    BY <1>1, <1>3, Joining
  <1> HIDE DEF t, p, q
  <1>5. p \in Nat /\ q \in Nat
    BY Zenon, <1>2, <1>3 DEF Behind, p, q
  <1>6. /\ Len(x) = p + 2 /\ x[p + 1] = COLON /\ x[p + 2] = SP
        /\ \A i \in 1..p : x[i] = n[i]
    <2>1. /\ Len(x) = p + Len(c) /\ (\A i \in 1..p : x[i] = n[i])
          /\ \A i \in 1..Len(c) : x[p + i] = c[i]
      BY Zenon, <1>2 DEF Behind, p
    <2>2. 1 \in 1..Len(c) /\ 2 \in 1..Len(c)
      BY <1>1
    <2> QED
      BY Zenon, <1>1, <2>1, <2>2
  <1>7. /\ Len(y) = p + 2 + q /\ y[p + 1] = COLON /\ y[p + 2] = SP
        /\ \A i \in 1..p : y[i] = n[i]
        /\ \A i \in 1..q : y[p + 2 + i] = v[i]
    <2>1. /\ Len(y) = p + 2 + q /\ (\A i \in 1..p + 2 : y[i] = x[i])
          /\ \A i \in 1..q : y[p + 2 + i] = v[i]
      BY Zenon, <1>3, <1>6 DEF Behind, q
    <2>2. p + 1 \in 1..p + 2 /\ p + 2 \in 1..p + 2 /\ \A i \in 1..p : i \in 1..p + 2
      BY <1>5
    <2> QED
      BY Zenon, <1>6, <2>1, <2>2
  <1>8. /\ Len(t) = p + 3 + q /\ t[p + 1] = COLON /\ t[p + 2] = SP /\ t[p + q + 3] = CR
        /\ \A i \in 1..p : t[i] = n[i]
        /\ \A i \in 1..q : t[p + 2 + i] = v[i]
    <2>1. /\ Len(t) = p + 2 + q + 1 /\ (\A i \in 1..p + 2 + q : t[i] = y[i])
          /\ \A i \in 1..1 : t[p + 2 + q + i] = r[i]
      BY Zenon, <1>1, <1>4, <1>7 DEF Behind
    <2>2. /\ p + 1 \in 1..p + 2 + q /\ p + 2 \in 1..p + 2 + q
          /\ \A i \in 1..p : i \in 1..p + 2 + q
          /\ \A i \in 1..q : p + 2 + i \in 1..p + 2 + q
          /\ 1 \in 1..1 /\ p + 2 + q + 1 = p + q + 3 /\ p + 2 + q + 1 = p + 3 + q
      BY <1>5
    <2> QED
      BY Zenon, <1>1, <1>7, <2>1, <2>2
  <1> QED
    BY Zenon, <1>4, <1>5, <1>8 DEF FieldBytes, t, y, x, c, r, p, q

\* It is read back: the name up to the colon, the value without its leading blanks.
LEMMA FieldIs ==
  ASSUME NEW n \in Seq(Nat), NEW v \in Seq(Nat), \A i \in 1..Len(n) : n[i] # COLON
  PROVE  /\ Find(FieldBytes(n, v), COLON, 1) = Len(n) + 1
         /\ Field(FieldBytes(n, v)) = <<<<n, From(v, FirstNonBlank(v))>>>>
  <1> DEFINE t == FieldBytes(n, v)
             p == Len(n)
             q == Len(v)
             f == FirstNonBlank(v)
  <1>1. /\ t \in Seq(Nat) /\ Len(t) = p + 3 + q /\ p \in Nat /\ q \in Nat
        /\ \A i \in 1..p : t[i] = n[i]
        /\ t[p + 1] = COLON /\ t[p + 2] = SP /\ t[p + q + 3] = CR
        /\ \A i \in 1..q : t[p + 2 + i] = v[i]
    BY Zenon, FieldBytesAre
  <1>2. f \in 1..q + 1 /\ (f > q \/ v[f] # SP) /\ \A i \in 1..f - 1 : v[i] = SP
    BY Zenon, FirstNonBlankIs
  <1>3. \A i \in 1..q : v[i] \in Nat
    BY ElementOfSeq
  <1> HIDE DEF t, f
  <1>4. Find(t, COLON, 1) = p + 1
    <2>1. \A i \in 1..p : n[i] # COLON
      OBVIOUS
    <2> HIDE DEF p, q
    <2>2. p + 1 \in 1..Len(t) /\ Len(t) \in Nat /\ 1 \in Nat /\ (p + 1) - 1 = p
      BY <1>1
    <2>3. NoneIn(t, COLON, 1, (p + 1) - 1)
      BY Zenon, <1>1, <2>1, <2>2 DEF NoneIn
    <2> QED
      BY Zenon, <1>1, <2>2, <2>3, FindIs
  <1>5. ValueStart(t, p + 1) = p + 2 + f
    <2> HIDE DEF p, q
    <2> DEFINE s == {i \in (p + 1) + 1 .. Len(t) + 1 : i >= Len(t) \/ t[i] # SP}
    <2>1. p + 2 + f \in s /\ s \in SUBSET Int /\ p + 2 + f \in Int
      <3>1. p + 2 + f \in (p + 1) + 1 .. Len(t) + 1
        BY <1>1, <1>2
      <3>2. p + 2 + f >= Len(t) \/ t[p + 2 + f] # SP
        BY <1>1, <1>2
      <3> QED
        BY <1>1, <1>2, <3>1, <3>2
    <2>2. ASSUME NEW y \in s
          PROVE  p + 2 + f <= y
      <3> SUFFICES ASSUME y < p + 2 + f
                   PROVE  FALSE
        BY <1>1, <1>2
      <3>1. y \in p + 2..Len(t) + 1 /\ (y >= Len(t) \/ t[y] # SP)
        BY <1>1
      <3>2. CASE y = p + 2
        BY <1>1, <1>2, <3>1, <3>2
      <3>3. CASE y # p + 2
        <4> DEFINE j == y - (p + 2)
        <4>1. j \in 1..f - 1 /\ j \in 1..q /\ y = p + 2 + j
          BY <1>1, <1>2, <3>1, <3>3
        <4> HIDE DEF j
        <4>2. t[y] = SP
          BY <1>1, <1>2, <4>1
        <4> QED
          BY <1>1, <1>2, <3>1, <4>1, <4>2
      <3> QED
        BY <3>2, <3>3
    <2> HIDE DEF s
    <2>3. Min(s) = p + 2 + f
      BY <2>1, <2>2, MinIs
    <2> QED
      BY Zenon, <2>3 DEF ValueStart, s
  <1>6. WithoutCR(t, Len(t) + 1) = Len(t)
    <2> HIDE DEF p, q
    <2>1. Len(t) + 1 > 1 /\ (Len(t) + 1) - 1 = Len(t) /\ t[Len(t)] = CR
      BY <1>1
    <2> QED
      BY Zenon, <2>1 DEF WithoutCR
  <1>7. Slice(t, 1, p + 1) = n
    <2>1. /\ 1 \in Nat \ {0} /\ p + 1 = 1 + Len(n) /\ p + 1 <= Len(t) + 1
          /\ PartAt(t, 1, n)
      <3> HIDE DEF q
      <3>1. \A i \in 1..Len(n) : 1 + i - 1 = i
        BY <1>1
      <3> QED
        BY <1>1, <3>1 DEF PartAt
    <2> QED
      BY Zenon, <1>1, <2>1, Part
  <1>8. Slice(t, p + 2 + f, Len(t)) = From(v, f)
    <2> DEFINE w == SubSeq(v, f, q)
    <2>1. /\ w \in Seq(Nat) /\ Len(w) = (IF f <= q THEN q - f + 1 ELSE 0)
          /\ \A i \in 1..q - f + 1 : w[i] = v[f + i - 1]
      <3> HIDE DEF p, q
      <3>1. f \in Int /\ q \in Int /\ \A i \in f..q : v[i] \in Nat
        BY <1>1, <1>2, <1>3
      <3> QED
        BY <3>1, SubSeqProperties
    <2> HIDE DEF w, p, q
    <2>2. /\ p + 2 + f \in Nat \ {0} /\ Len(t) = p + 2 + f + Len(w) /\ Len(t) <= Len(t) + 1
      BY <1>1, <1>2, <2>1
    <2>3. ASSUME NEW i \in 1..Len(w)
          PROVE  t[p + 2 + f + i - 1] = w[i]
      <3>1. /\ i \in 1..q - f + 1 /\ f + i - 1 \in 1..q
            /\ p + 2 + (f + i - 1) = p + 2 + f + i - 1
        BY <1>1, <1>2, <2>1
      <3>2. t[p + 2 + (f + i - 1)] = v[f + i - 1]
        BY Zenon, <1>1, <3>1
      <3>3. w[i] = v[f + i - 1]
        BY Zenon, <2>1, <3>1
      <3> QED
        BY Zenon, <3>1, <3>2, <3>3
    <2>4. Slice(t, p + 2 + f, Len(t)) = w
      <3>1. PartAt(t, p + 2 + f, w)
        BY Zenon, <2>3 DEF PartAt
      <3> QED
        BY <1>1, <2>1, <2>2, <3>1, Part
    <2> QED
      BY Zenon, <2>4 DEF From, w, q
  <1>9. ~(p + 2 + f >= Len(t) + 1)
    <2> HIDE DEF p, q
    <2> QED
      BY <1>1, <1>2
  <1>10. Field(t) = <<<<n, From(v, f)>>>>
    <2> HIDE DEF p, q
    <2>1. Field(t) = <<<<Slice(t, 1, p + 1), Slice(t, p + 2 + f, Len(t))>>>>
      BY Zenon, <1>4, <1>5, <1>6, <1>9 DEF Field
    <2> QED
      BY Zenon, <1>7, <1>8, <2>1
  <1> QED
    BY Zenon, <1>4, <1>10 DEF t, f, p

\* A line without a colon ends the fields.
LEMMA FieldsUpTo ==
  ASSUME NEW k \in Nat, NEW lines, Len(lines) = k + 1,
         \A i \in 1..k : Find(lines[i], COLON, 1) # 0, Find(lines[k + 1], COLON, 1) = 0,
         NEW fields, fields = SubSeq(lines, 1, k)
  PROVE  ParseFields(lines) = FlattenSeq([i \in DOMAIN fields |-> Field(fields[i])])
  <1> DEFINE s == {i \in 1..Len(lines) : Find(lines[i], COLON, 1) = 0}
  <1>1. s = {k + 1}
    <2>1. \A i \in 1..k + 1 : i = k + 1 \/ i \in 1..k
      OBVIOUS
    <2> QED
      BY <2>1
  <1>2. Min(s) = k + 1 /\ s # {} /\ k + 1 # 0 /\ (k + 1) - 1 = k
    <2>1. k + 1 \in s /\ k + 1 \in Int /\ s \in SUBSET Int /\ \A y \in s : k + 1 <= y
      BY <1>1
    <2> HIDE DEF s
    <2>2. Min(s) = k + 1
      BY <2>1, MinIs
    <2> QED
      BY <2>1, <2>2
  <1>3. SelectInSeq(lines, LAMBDA line : Find(line, COLON, 1) = 0) = k + 1
    BY Zenon, <1>2 DEF SelectInSeq
  <1>4. Slice(lines, 1, k + 1) = fields
    BY Zenon, <1>2 DEF Slice
  <1> QED
    BY Zenon, <1>2, <1>3, <1>4 DEF ParseFields

\* The lines of a text that begins with a field.
ReadsField(n, v, rest) ==
    /\ Lines((((n \o <<COLON, SP>>) \o v) \o CRLF) \o rest) = <<FieldBytes(n, v)>> \o Lines(rest)
    /\ Lines(rest) \in Seq(Seq(Nat))
    /\ FieldBytes(n, v) \in Seq(Nat)
    /\ ((n \o <<COLON, SP>>) \o v) \o CRLF \in Seq(Nat)

LEMMA LinesOfField ==
  ASSUME NEW n \in Seq(Nat), NEW v \in Seq(Nat), NEW rest \in Seq(Nat),
         NoneIn(n, LF, 1, Len(n)), NoneIn(v, LF, 1, Len(v))
  PROVE  ReadsField(n, v, rest)
  <1> DEFINE w == (n \o <<COLON, SP>>) \o v
             t == FieldBytes(n, v)
             p == Len(n)
             q == Len(v)
  <1>1. w \in Seq(Nat) /\ CRLF \in Seq(Nat)
    <2> DEFINE c == <<COLON, SP>>
    <2>1. c \in Seq(Nat)
      BY DEF COLON, SP
    <2> HIDE DEF c
    <2>2. n \o c \in Seq(Nat)
      BY <2>1, ConcatProperties
    <2>3. (n \o c) \o v \in Seq(Nat)
      BY <2>2, ConcatProperties
    <2>4. CRLF \in Seq(Nat)
      BY DEF CRLF, CR, LF
    <2> QED
      BY Zenon, <2>3, <2>4 DEF c
  <1>2. /\ t \in Seq(Nat) /\ Len(t) = p + 3 + q /\ p \in Nat /\ q \in Nat
        /\ \A i \in 1..p : t[i] = n[i]
        /\ t[p + 1] = COLON /\ t[p + 2] = SP /\ t[p + q + 3] = CR
        /\ \A i \in 1..q : t[p + 2 + i] = v[i]
    BY Zenon, FieldBytesAre
  <1>3. w \o <<CR>> = t
    BY Zenon DEF FieldBytes
  <1> HIDE DEF w, t
  <1>4. \A i \in 1..Len(t) : t[i] # LF
    <2>1. (\A i \in 1..p : n[i] # LF) /\ \A i \in 1..q : v[i] # LF
      BY Zenon DEF NoneIn
    <2> HIDE DEF p, q
    <2>2. COLON # LF /\ SP # LF /\ CR # LF
      BY DEF COLON, SP, CR, LF
    <2> TAKE i \in 1..Len(t)
    <2>3. i \in 1..p \/ i = p + 1 \/ i = p + 2 \/ i = p + q + 3 \/ \E j \in 1..q : i = p + 2 + j
      <3>1. i \in p + 3..p + q + 2 => i - (p + 2) \in 1..q /\ i = p + 2 + (i - (p + 2))
        BY <1>2
      <3> QED
        BY <1>2, <3>1
    <2> QED
      BY Zenon, <1>2, <2>1, <2>2, <2>3
  <1>5. (w \o CRLF) \o rest = t \o (<<LF>> \o rest)
    <2>1. Regrouped(w, rest, <<>>)
      <3>1. <<>> \in Seq(Nat)
        BY EmptySeq
      <3> QED
        BY <1>1, <3>1, Regroup
    <2> QED
      BY Zenon, <1>3, <2>1 DEF Regrouped
  <1>6. LF \in Nat
    BY DEF LF
  <1>7. Lines(t \o (<<LF>> \o rest)) = <<t>> \o Lines(rest) /\ Lines(rest) \in Seq(Seq(Nat))
    BY <1>2, <1>4, <1>6, FirstLine
  <1>8. w \o CRLF \in Seq(Nat)
    BY <1>1, ConcatProperties
  <1> QED
    BY Zenon, <1>2, <1>5, <1>7, <1>8 DEF w, t, ReadsField

\* The lines of a text that is over, and of the empty line.
LEMMA LinesOfNothing == Lines(<<>>) = <<>>
  <1>1. <<>> \in Seq(Nat) /\ Len(<<>>) = 0
    BY EmptySeq
  <1>2. PICK f : Lines(<<>>) = AllLines(f[1..Len(<<>>)]) /\ Scans(f, <<>>)
    BY <1>1, LinesScan
  <1>3. f[1..0] = NoLines
    BY Zenon, <1>2 DEF Scans
  <1>4. NoLines.line = <<>> /\ NoLines.lines = <<>>
    BY DEF NoLines
  <1> QED
    BY Zenon, <1>1, <1>2, <1>3, <1>4 DEF AllLines

LEMMA LinesOfEmptyLine == Lines(CRLF) = <<<<CR>>>>
  <1> DEFINE r == <<CR>>
             e == <<>>
  <1>1. /\ r \in Seq(Nat) /\ LF \in Nat /\ CRLF = r \o (<<LF>> \o <<>>)
        /\ \A i \in 1..Len(r) : r[i] # LF
    BY DEF CRLF, CR, LF
  <1>2. e \in Seq(Nat) /\ <<r>> \in Seq(Seq(Nat))
    BY <1>1, EmptySeq
  <1> HIDE DEF r, e
  <1>3. Lines(r \o (<<LF>> \o e)) = <<r>> \o Lines(e)
    BY <1>1, <1>2, FirstLine
  <1>4. <<r>> \o <<>> = <<r>>
    BY <1>2, ConcatEmptySeq
  <1> QED
    BY Zenon, <1>1, <1>3, <1>4, LinesOfNothing DEF r, e

\* The last line of a header has no colon.
LEMMA NoColon == Find(<<CR>>, COLON, 1) = 0
  <1>1. \A i \in 1..Len(<<CR>>) : <<CR>>[i] # COLON
    BY DEF CR, COLON
  <1> QED
    BY Zenon, <1>1, FindNone

\* The line of a response's version and status.
StatusLine(status) == ((((HTTP \o <<SLASH>>) \o V11) \o <<SP>>) \o status) \o <<CR>>

LEMMA Version ==
  LET x == ((HTTP \o <<SLASH>>) \o V11) \o <<SP>>
  IN  /\ x \in Seq(Nat) /\ Len(x) = 9
      /\ x[6] = 49 /\ x[7] = 46 /\ x[8] = 49 /\ x[9] = SP
      /\ \A i \in 1..8 : x[i] # SP
      /\ \A i \in 1..9 : x[i] # CR /\ x[i] # LF
  <1> DEFINE l == <<SLASH>>
             e == <<SP>>
             a == HTTP \o l
             b == a \o V11
             x == b \o e
  <1>1. /\ HTTP \in Seq(Nat) /\ l \in Seq(Nat) /\ V11 \in Seq(Nat) /\ e \in Seq(Nat)
        /\ Len(HTTP) = 4 /\ Len(l) = 1 /\ Len(V11) = 3 /\ Len(e) = 1
        /\ HTTP[1] = 72 /\ HTTP[2] = 84 /\ HTTP[3] = 84 /\ HTTP[4] = 80 /\ l[1] = 47
        /\ V11[1] = 49 /\ V11[2] = 46 /\ V11[3] = 49 /\ e[1] = 32
    BY DEF HTTP, V11, SLASH, SP
  <1> HIDE DEF l, e
  <1>2. a \in Seq(Nat) /\ Behind(a, HTTP, l)
    BY <1>1, Joining
  <1> HIDE DEF a
  <1>6. b \in Seq(Nat) /\ Behind(b, a, V11)
    BY <1>1, <1>2, Joining
  <1> HIDE DEF b
  <1>7. x \in Seq(Nat) /\ Behind(x, b, e)
    BY <1>1, <1>6, Joining
  <1> HIDE DEF x
  <1>8. Len(a) = 5 /\ a[1] = 72 /\ a[2] = 84 /\ a[3] = 84 /\ a[4] = 80 /\ a[5] = 47
    BY <1>1, <1>2 DEF Behind
  <1>9. /\ Len(b) = 8 /\ b[1] = 72 /\ b[2] = 84 /\ b[3] = 84 /\ b[4] = 80 /\ b[5] = 47
        /\ b[6] = 49 /\ b[7] = 46 /\ b[8] = 49
    BY <1>1, <1>6, <1>8 DEF Behind
  <1>10. /\ x \in Seq(Nat) /\ Len(x) = 9 /\ x[1] = 72 /\ x[2] = 84 /\ x[3] = 84 /\ x[4] = 80
         /\ x[5] = 47 /\ x[6] = 49 /\ x[7] = 46 /\ x[8] = 49 /\ x[9] = 32
    BY <1>1, <1>7, <1>9 DEF Behind
  <1>3. \A i \in 1..9 : i \in {1, 2, 3, 4, 5, 6, 7, 8, 9}
    OBVIOUS
  <1>4. \A i \in 1..9 : x[i] # 13 /\ x[i] # 10 /\ (i < 9 => x[i] # 32)
    BY <1>3, <1>10
  <1>5. /\ \A i \in 1..8 : x[i] # 32
        /\ \A i \in 1..9 : x[i] # 13 /\ x[i] # 10
    BY <1>4
  <1> QED
    BY Zenon, <1>5, <1>10 DEF x, b, a, l, e, SP, CR, LF

LEMMA StatusLineIs ==
  ASSUME NEW status \in Seq(Nat)
  PROVE  LET t == StatusLine(status)
         IN  /\ t \in Seq(Nat) /\ Len(t) = 10 + Len(status) /\ Len(status) \in Nat
             /\ t[6] = 49 /\ t[7] = 46 /\ t[8] = 49 /\ t[9] = SP /\ t[10 + Len(status)] = CR
             /\ \A i \in 1..8 : t[i] # SP
             /\ \A i \in 1..9 : t[i] # CR /\ t[i] # LF
             /\ \A i \in 1..Len(status) : t[9 + i] = status[i]
  <1> DEFINE x == ((HTTP \o <<SLASH>>) \o V11) \o <<SP>>
             r == <<CR>>
             y == x \o status
             t == y \o r
             q == Len(status)
  <1>1. /\ x \in Seq(Nat) /\ Len(x) = 9
        /\ x[6] = 49 /\ x[7] = 46 /\ x[8] = 49 /\ x[9] = SP
        /\ \A i \in 1..8 : x[i] # SP
        /\ \A i \in 1..9 : x[i] # CR /\ x[i] # LF
    BY Zenon, Version
  <1> HIDE DEF x
  <1>2. r \in Seq(Nat) /\ Len(r) = 1 /\ r[1] = CR
    BY DEF CR
  <1> HIDE DEF r
  <1>3. y \in Seq(Nat) /\ Behind(y, x, status)
    BY <1>1, Joining
  <1> HIDE DEF y
  <1>4. t \in Seq(Nat) /\ Behind(t, y, r)
    BY <1>2, <1>3, Joining
  <1> HIDE DEF t, q
  <1>5. /\ Len(y) = 9 + q /\ q \in Nat /\ (\A i \in 1..9 : y[i] = x[i])
        /\ \A i \in 1..q : y[9 + i] = status[i]
    BY Zenon, <1>1, <1>3 DEF Behind, q
  <1>6. /\ Len(t) = 9 + q + 1 /\ (\A i \in 1..9 + q : t[i] = y[i])
        /\ \A i \in 1..1 : t[9 + q + i] = r[i]
    BY Zenon, <1>2, <1>4, <1>5 DEF Behind
  <1>7. /\ \A i \in 1..9 : i \in 1..9 + q
        /\ \A i \in 1..8 : i \in 1..9
        /\ \A i \in 1..q : 9 + i \in 1..9 + q
        /\ 6 \in 1..9 /\ 7 \in 1..9 /\ 8 \in 1..9 /\ 9 \in 1..9
        /\ 1 \in 1..1 /\ 9 + q + 1 = 10 + q
    BY <1>5
  <1>8. \A i \in 1..9 : t[i] = x[i]
    BY Zenon, <1>5, <1>6, <1>7
  <1>9. /\ t[10 + q] = CR
        /\ \A i \in 1..q : t[9 + i] = status[i]
    BY Zenon, <1>2, <1>5, <1>6, <1>7
  <1>10. /\ t[6] = 49 /\ t[7] = 46 /\ t[8] = 49 /\ t[9] = SP
         /\ \A i \in 1..8 : t[i] # SP
         /\ \A i \in 1..9 : t[i] # CR /\ t[i] # LF
    <2>1. t[6] = x[6] /\ t[7] = x[7] /\ t[8] = x[8] /\ t[9] = x[9]
      BY Zenon, <1>7, <1>8
    <2>2. \A i \in 1..8 : t[i] = x[i]
      BY Zenon, <1>7, <1>8
    <2>3. t[6] = 49 /\ t[7] = 46 /\ t[8] = 49 /\ t[9] = SP
      BY Zenon, <1>1, <2>1
    <2>4. \A i \in 1..8 : t[i] # SP
      BY Zenon, <1>1, <2>2
    <2>5. \A i \in 1..9 : t[i] # CR /\ t[i] # LF
      BY Zenon, <1>1, <1>8
    <2> QED
      BY Zenon, <2>3, <2>4, <2>5
  <1>11. Len(t) = 10 + q
    BY <1>6, <1>7
  <1> QED
    BY Zenon, <1>4, <1>5, <1>9, <1>10, <1>11 DEF StatusLine, t, y, x, r, q

\* One field, written.
LEMMA OneFieldLine ==
  ASSUME NEW n, NEW v
  PROVE  FieldLines(<<<<n, v>>>>) = ((n \o <<COLON, SP>>) \o v) \o CRLF
  <1> DEFINE fields == <<<<n, v>>>>
             s == [i \in DOMAIN fields |-> fields[i][1] \o <<COLON, SP>> \o fields[i][2] \o CRLF]
  <1>1. DOMAIN fields = 1..1 /\ fields[1] = <<n, v>> /\ fields[1][1] = n /\ fields[1][2] = v
    OBVIOUS
  <1> HIDE DEF fields
  <1>2. s[1] = ((n \o <<COLON, SP>>) \o v) \o CRLF
    <2>1. 1 \in DOMAIN fields
      BY <1>1
    <2> QED
      BY Zenon, <1>1, <2>1
  <1>3. Len(s) = 1
    <2> DEFINE g(i) == fields[i][1] \o <<COLON, SP>> \o fields[i][2] \o CRLF
    <2>1. s = [i \in 1..1 |-> g(i)]
      BY Zenon, <1>1
    <2> HIDE DEF g
    <2>2. Len([i \in 1..1 |-> g(i)]) = 1
      OBVIOUS
    <2> QED
      BY Zenon, <2>1, <2>2
  <1> HIDE DEF s
  <1>4. FlattenSeq(s) = s[1]
    BY <1>3, FlattenOne
  <1> QED
    BY Zenon, <1>2, <1>4 DEF FieldLines, s, fields

\* The same of what the parser makes of them.
LEMMA OneFieldParsed ==
  ASSUME NEW t, NEW f, Field(t) = <<f>>, Find(t, COLON, 1) # 0, NEW r, Find(r, COLON, 1) = 0,
         NEW lines, Len(lines) = 2, lines[1] = t, lines[2] = r, NEW S, lines \in Seq(S)
  PROVE  ParseFields(lines) = <<f>>
  <1> DEFINE fields == SubSeq(lines, 1, 1)
             s == [i \in DOMAIN fields |-> Field(fields[i])]
  <1>1. fields \in Seq(S) /\ Len(fields) = 1 /\ fields[1] = t
    BY ElementOfSeq, SubSeqProperties
  <1>2. DOMAIN fields = 1..1
    BY <1>1, LenProperties
  <1>3. \A i \in 1..1 : Find(lines[i], COLON, 1) # 0
    OBVIOUS
  <1>4. 1 \in Nat /\ Len(lines) = 1 + 1 /\ Find(lines[1 + 1], COLON, 1) = 0
    OBVIOUS
  <1>5. ParseFields(lines) = FlattenSeq(s)
    BY Zenon, <1>3, <1>4, FieldsUpTo
  <1> HIDE DEF fields
  <1>6. s[1] = <<f>>
    <2>1. 1 \in DOMAIN fields
      BY <1>2
    <2> QED
      BY Zenon, <1>1, <2>1
  <1>7. Len(s) = 1
    <2>1. s = [i \in 1..1 |-> Field(fields[i])]
      BY Zenon, <1>2
    <2>2. Len([i \in 1..1 |-> Field(fields[i])]) = 1
      OBVIOUS
    <2> QED
      BY Zenon, <2>1, <2>2
  <1> HIDE DEF s
  <1>8. FlattenSeq(s) = s[1]
    BY <1>7, FlattenOne
  <1> QED
    BY Zenon, <1>5, <1>6, <1>8

Begins(t, x, s) ==
    /\ t # <<>> /\ t[1] = x /\ Tail(t) = s /\ Len(t) = Len(s) + 1
    /\ Len(s) \in Nat /\ \A i \in 1..Len(s) : t[i + 1] = s[i]

LEMMA TailBehind ==
  ASSUME NEW S, NEW x \in S, NEW s \in Seq(S)
  PROVE  <<x>> \o s \in Seq(S) /\ Begins(<<x>> \o s, x, s)
  <1> DEFINE h == <<x>>
             t == h \o s
  <1>1. h \in Seq(S) /\ Len(h) = 1 /\ h[1] = x
    OBVIOUS
  <1> HIDE DEF h
  <1>2. t \in Seq(S) /\ Behind(t, h, s)
    BY <1>1, Joining
  <1> HIDE DEF t
  <1>3. /\ Len(t) = Len(s) + 1 /\ Len(s) \in Nat /\ t[1] = x
        /\ \A i \in 1..Len(s) : t[i + 1] = s[i]
    <2>1. /\ Len(t) = 1 + Len(s) /\ Len(s) \in Nat /\ (\A i \in 1..1 : t[i] = h[i])
          /\ \A i \in 1..Len(s) : t[1 + i] = s[i]
      BY Zenon, <1>1, <1>2 DEF Behind
    <2>2. 1 \in 1..1 /\ (\A i \in 1..Len(s) : 1 + i = i + 1) /\ 1 + Len(s) = Len(s) + 1
      BY <2>1
    <2> QED
      BY Zenon, <1>1, <2>1, <2>2
  <1>4. t # <<>>
    BY <1>3
  <1> DEFINE u == Tail(t)
  <1>5. u \in Seq(S) /\ Len(u) = Len(t) - 1 /\ \A i \in 1..Len(u) : u[i] = t[i + 1]
    BY <1>2, <1>4, HeadTailProperties
  <1> HIDE DEF u
  <1>6. Len(u) = Len(s)
    BY <1>3, <1>5
  <1>7. \A i \in 1..Len(u) : u[i] = s[i]
    BY Zenon, <1>3, <1>5, <1>6
  <1>8. u = s
    BY <1>5, <1>6, <1>7, SeqEqual
  <1> QED
    BY Zenon, <1>2, <1>3, <1>4, <1>8 DEF u, t, h, Begins

\* What the server writes, line by line.
LEMMA ResponseLines ==
  ASSUME NEW status \in Seq(Nat), NEW n \in Seq(Nat), NEW v \in Seq(Nat),
         NoneIn(status, LF, 1, Len(status)), NoneIn(n, LF, 1, Len(n)), NoneIn(v, LF, 1, Len(v))
  PROVE  LET t == ResponseHeader(status, <<<<n, v>>>>)
         IN  /\ t = StatusLine(status) \o (<<LF>> \o (FieldBytes(n, v) \o (<<LF>> \o CRLF)))
             /\ Lines(t) = <<StatusLine(status)>> \o (<<FieldBytes(n, v)>> \o <<<<CR>>>>)
  <1> DEFINE H == ResponseHeader(status, <<<<n, v>>>>)
             x == ((HTTP \o <<SLASH>>) \o V11) \o <<SP>>
             h == x \o status
             w == (n \o <<COLON, SP>>) \o v
             fl == w \o CRLF
             t == StatusLine(status)
             q == Len(status)
  <1>1. FieldLines(<<<<n, v>>>>) = fl
    BY Zenon, OneFieldLine
  <1>2. H = ((h \o CRLF) \o fl) \o CRLF
    BY Zenon, <1>1 DEF ResponseHeader
  <1>3. h \o <<CR>> = t
    BY Zenon DEF StatusLine
  <1>4. w \o <<CR>> = FieldBytes(n, v)
    BY Zenon DEF FieldBytes
  <1>5. x \in Seq(Nat) /\ CRLF \in Seq(Nat)
    <2>1. CRLF \in Seq(Nat)
      BY DEF CRLF, CR, LF
    <2> QED
      BY Zenon, <2>1, Version
  <1> HIDE DEF x
  <1>6. h \in Seq(Nat)
    BY <1>5, ConcatProperties
  <1>7. w \in Seq(Nat)
    <2> DEFINE c == <<COLON, SP>>
    <2>1. c \in Seq(Nat)
      BY DEF COLON, SP
    <2> HIDE DEF c
    <2>2. n \o c \in Seq(Nat)
      BY <2>1, ConcatProperties
    <2>3. (n \o c) \o v \in Seq(Nat)
      BY <2>2, ConcatProperties
    <2> QED
      BY Zenon, <2>3 DEF c
  <1>8. /\ fl \in Seq(Nat) /\ Lines(fl \o CRLF) = <<FieldBytes(n, v)>> \o Lines(CRLF)
    <2>1. ReadsField(n, v, CRLF)
      BY <1>5, LinesOfField
    <2> QED
      BY Zenon, <2>1 DEF ReadsField
  <1>9. t \in Seq(Nat) /\ \A i \in 1..Len(t) : t[i] # LF
    <2>1. /\ t \in Seq(Nat) /\ Len(t) = 10 + q /\ q \in Nat /\ t[10 + q] = CR
          /\ \A i \in 1..9 : t[i] # CR /\ t[i] # LF
          /\ \A i \in 1..q : t[9 + i] = status[i]
      BY Zenon, StatusLineIs
    <2>2. \A i \in 1..q : status[i] # LF
      BY Zenon DEF NoneIn
    <2> HIDE DEF t, q
    <2>3. CR # LF
      BY DEF CR, LF
    <2>4. \A i \in 1..Len(t) : i \in 1..9 \/ i = 10 + q \/ \E j \in 1..q : i = 9 + j
      <3> TAKE i \in 1..Len(t)
      <3>1. q \in Nat /\ Len(t) = 10 + q
        BY Zenon, <2>1
      <3>2. i \in 10..9 + q => i - 9 \in 1..q /\ i = 9 + (i - 9)
        BY <3>1
      <3> QED
        BY <3>1, <3>2
    <2>5. \A i \in 1..9 : t[i] # LF
      BY Zenon, <2>1
    <2>6. t[10 + q] # LF
      BY Zenon, <2>1, <2>3
    <2>7. \A j \in 1..q : t[9 + j] # LF
      BY Zenon, <2>1, <2>2
    <2> QED
      BY Zenon, <2>1, <2>4, <2>5, <2>6, <2>7
  <1> HIDE DEF h, w, t, H
  <1>10. H = t \o (<<LF>> \o (fl \o CRLF))
    <2>1. fl \in Seq(Nat)
      BY <1>8
    <2> HIDE DEF fl
    <2> QED
      <3>1. ((h \o CRLF) \o fl) \o CRLF = (h \o <<CR>>) \o (<<LF>> \o (fl \o CRLF))
        <4>1. Regrouped(h, fl, CRLF)
          BY <1>5, <1>6, <2>1, Regroup
        <4> QED
          BY Zenon, <4>1 DEF Regrouped
      <3> QED
        BY Zenon, <1>2, <1>3, <3>1
  <1>11. fl \o CRLF = FieldBytes(n, v) \o (<<LF>> \o CRLF)
    <2>1. (w \o CRLF) \o CRLF = (w \o <<CR>>) \o (<<LF>> \o CRLF)
      <3>1. Regrouped(w, CRLF, CRLF)
        BY <1>5, <1>7, Regroup
      <3> QED
        BY Zenon, <3>1 DEF Regrouped
    <2> QED
      BY Zenon, <1>4, <2>1
  <1>12. fl \o CRLF \in Seq(Nat)
    BY <1>5, <1>8, ConcatProperties
  <1>13. LF \in Nat
    BY DEF LF
  <1> HIDE DEF fl
  <1>14. Lines(H) = <<t>> \o Lines(fl \o CRLF)
    <2> DEFINE b == fl \o CRLF
    <2>1. b \in Seq(Nat)
      BY <1>12
    <2> HIDE DEF b
    <2>2. Lines(t \o (<<LF>> \o b)) = <<t>> \o Lines(b)
      BY <1>9, <1>13, <2>1, FirstLine
    <2> QED
      BY Zenon, <1>10, <2>2 DEF b
  <1> QED
    BY Zenon, <1>8, <1>10, <1>11, <1>14, LinesOfEmptyLine DEF H, t

\* What the client makes of it.
LEMMA ResponseParsed ==
  ASSUME NEW status \in Seq(Nat), NEW n \in Seq(Nat), NEW v \in Seq(Nat),
         NoneIn(status, LF, 1, Len(status)), NoneIn(n, LF, 1, Len(n)), NoneIn(v, LF, 1, Len(v)),
         NoneIn(n, COLON, 1, Len(n))
  PROVE  ParseResponse(ResponseHeader(status, <<<<n, v>>>>)) =
            [ok |-> TRUE, version |-> V11, status |-> status,
             header |-> <<<<n, From(v, FirstNonBlank(v))>>>>]
  <1> DEFINE H == ResponseHeader(status, <<<<n, v>>>>)
             line == StatusLine(status)
             fb == FieldBytes(n, v)
             cr == <<CR>>
             two == <<fb>> \o <<cr>>
             lines == <<line>> \o two
             q == Len(status)
             f == <<n, From(v, FirstNonBlank(v))>>
  <1>1. Lines(H) = lines
    BY Zenon, ResponseLines
  <1>2. /\ line \in Seq(Nat) /\ Len(line) = 10 + q /\ q \in Nat
        /\ line[6] = 49 /\ line[7] = 46 /\ line[8] = 49 /\ line[9] = SP /\ line[10 + q] = CR
        /\ \A i \in 1..8 : line[i] # SP
        /\ \A i \in 1..q : line[9 + i] = status[i]
    BY Zenon, StatusLineIs
  <1>3. fb \in Seq(Nat)
    BY Zenon, FieldBytesAre
  <1>4. Find(fb, COLON, 1) # 0 /\ Field(fb) = <<f>>
    <2>1. \A i \in 1..Len(n) : n[i] # COLON
      BY Zenon DEF NoneIn
    <2>2. Find(fb, COLON, 1) = Len(n) + 1 /\ Field(fb) = <<f>>
      BY Zenon, <2>1, FieldIs
    <2>3. Len(n) \in Nat
      BY LenProperties
    <2> HIDE DEF fb, f
    <2> QED
      BY <2>2, <2>3
  <1>5. cr \in Seq(Nat) /\ Find(cr, COLON, 1) = 0
    <2>1. cr \in Seq(Nat)
      BY DEF CR
    <2> QED
      BY Zenon, <2>1, NoColon
  <1> HIDE DEF cr, fb, line, f, H
  <1>6. two \in Seq(Seq(Nat)) /\ Len(two) = 2 /\ two[1] = fb /\ two[2] = cr
    BY <1>3, <1>5
  <1> HIDE DEF two
  <1>7. lines[1] = line /\ lines # <<>> /\ Tail(lines) = two
    <2>1. Begins(lines, line, two)
      BY <1>2, <1>6, TailBehind
    <2> QED
      BY Zenon, <2>1 DEF Begins
  <1>8. ParseFields(two) = <<f>>
    BY Zenon, <1>4, <1>5, <1>6, OneFieldParsed
  <1> HIDE DEF lines
  <1> DEFINE r == q + 10
  <1>9. Find(line, SP, 1) = 9
    <2> HIDE DEF q
    <2>1. 9 \in 1..Len(line) /\ Len(line) \in Nat /\ 1 \in Nat
      BY <1>2
    <2>2. line[9] = SP /\ NoneIn(line, SP, 1, 9 - 1)
      BY <1>2 DEF NoneIn
    <2> QED
      BY <2>1, <2>2, FindIs
  <1>10. 9 # 0 /\ ~(Len(line) <= 5) /\ 9 # Len(line) /\ ~(9 < 6) /\ 9 + 1 = 10
    <2> HIDE DEF q
    <2> QED
      BY <1>2
  <1>11. Slice(line, 6, 9) = V11
    <2> HIDE DEF q
    <2>1. V11 \in Seq(Nat) /\ Len(V11) = 3 /\ V11[1] = 49 /\ V11[2] = 46 /\ V11[3] = 49
      BY DEF V11
    <2>2. /\ 6 \in Nat \ {0} /\ 9 = 6 + Len(V11) /\ 9 <= Len(line) + 1
      BY <1>2, <2>1
    <2>3. \A i \in 1..Len(V11) : line[6 + i - 1] = V11[i]
      <3> TAKE i \in 1..Len(V11)
      <3>1. i = 1 \/ i = 2 \/ i = 3
        BY <2>1
      <3>2. 6 + 1 - 1 = 6 /\ 6 + 2 - 1 = 7 /\ 6 + 3 - 1 = 8
        OBVIOUS
      <3> QED
        BY Zenon, <1>2, <2>1, <3>1, <3>2
    <2>4. PartAt(line, 6, V11)
      BY Zenon, <2>3 DEF PartAt
    <2>5. line \in Seq(Nat) /\ V11 \in Seq(Nat)
      BY Zenon, <1>2, <2>1
    <2> QED
      BY Zenon, <2>2, <2>4, <2>5, Part
  <1>12. WithoutCR(line, Len(line) + 1) = Len(line)
    <2> HIDE DEF q
    <2>1. Len(line) + 1 > 1 /\ (Len(line) + 1) - 1 = Len(line) /\ line[Len(line)] = CR
      BY <1>2
    <2> QED
      BY Zenon, <2>1 DEF WithoutCR
  <1>13. Slice(line, 10, Len(line)) = status
    <2>1. /\ 10 \in Nat \ {0} /\ Len(line) = 10 + Len(status) /\ Len(line) <= Len(line) + 1
      BY <1>2
    <2>2. \A i \in 1..Len(status) : line[10 + i - 1] = status[i]
      <3>1. \A i \in 1..q : 10 + i - 1 = 9 + i
        BY <1>2
      <3> QED
        BY Zenon, <1>2, <3>1
    <2>3. PartAt(line, 10, status)
      BY Zenon, <2>2 DEF PartAt
    <2> QED
      BY <1>2, <2>1, <2>3, Part
  <1>14. ParseResponse(H) = [ok |-> TRUE, version |-> V11, status |-> status, header |-> <<f>>]
    BY Zenon, <1>1, <1>7, <1>8, <1>9, <1>10, <1>11, <1>12, <1>13 DEF ParseResponse
  <1> QED
    BY Zenon, <1>14 DEF H, f

\* Where the line ends of a response are, whatever comes behind it.
LineEnds(t, h) ==
    \E x, y \in Nat :
        /\ x >= 10 /\ y >= 3 /\ Len(h) = x + y + 4 /\ Len(t) >= x + y + 4
        /\ \A i \in 1..Len(t) : /\ t[i] = LF <=> i \in {x + 1, x + y + 2, x + y + 4}
                                /\ t[i] = CR <=> i \in {x, x + y + 1, x + y + 3}

LEMMA ResponseLineEnds ==
  ASSUME NEW status \in Seq(Nat), NEW n \in Seq(Nat), NEW v \in Seq(Nat), NEW b \in Seq(Nat),
         NoneIn(status, LF, 1, Len(status)), NoneIn(n, LF, 1, Len(n)), NoneIn(v, LF, 1, Len(v)),
         NoneIn(status, CR, 1, Len(status)), NoneIn(n, CR, 1, Len(n)), NoneIn(v, CR, 1, Len(v)),
         NoneIn(b, LF, 1, Len(b)), NoneIn(b, CR, 1, Len(b)),
         NEW h, h = ResponseHeader(status, <<<<n, v>>>>)
  PROVE  h \o b \in Seq(Nat) /\ LineEnds(h \o b, h)
  <1> DEFINE line == StatusLine(status)
             fb == FieldBytes(n, v)
             l == <<LF>>
             e == l \o CRLF
             f == fb \o e
             g == l \o f
             t == h \o b
             q == Len(status)
             p == Len(n)
             r == Len(v)
             s == Len(b)
  <1>1. h = line \o g
    BY Zenon, ResponseLines
  <1>2. /\ line \in Seq(Nat) /\ Len(line) = 10 + q /\ q \in Nat /\ line[10 + q] = CR
        /\ \A i \in 1..9 : line[i] # CR /\ line[i] # LF
        /\ \A i \in 1..q : line[9 + i] = status[i]
    BY Zenon, StatusLineIs
  <1>3. /\ fb \in Seq(Nat) /\ Len(fb) = p + 3 + r /\ p \in Nat /\ r \in Nat
        /\ \A i \in 1..p : fb[i] = n[i]
        /\ fb[p + 1] = COLON /\ fb[p + 2] = SP /\ fb[p + r + 3] = CR
        /\ \A i \in 1..r : fb[p + 2 + i] = v[i]
    BY Zenon, FieldBytesAre
  <1>4. /\ \A i \in 1..q : status[i] # LF /\ status[i] # CR
        /\ \A i \in 1..p : n[i] # LF /\ n[i] # CR
        /\ \A i \in 1..r : v[i] # LF /\ v[i] # CR
        /\ \A i \in 1..s : b[i] # LF /\ b[i] # CR
    BY Zenon DEF NoneIn
  <1>5. COLON # LF /\ COLON # CR /\ SP # LF /\ SP # CR /\ CR # LF
    BY DEF COLON, SP, CR, LF
  <1> HIDE DEF line, fb, q, p, r, s
  <1> DEFINE x == 10 + q
             y == p + 3 + r
  <1>6. /\ x \in Nat /\ x >= 10 /\ Len(line) = x /\ line[x] = CR
        /\ \A i \in 1..x - 1 : line[i] # LF /\ line[i] # CR
    <2>1. q \in Nat /\ Len(line) = x /\ line[x] = CR
      BY Zenon, <1>2
    <2>2. \A i \in 1..q : line[9 + i] # LF /\ line[9 + i] # CR
      BY Zenon, <1>2, <1>4
    <2>3. \A i \in 1..x - 1 : i \in 1..9 \/ \E j \in 1..q : i = 9 + j
      <3> TAKE i \in 1..x - 1
      <3>1. i \in 10..9 + q => i - 9 \in 1..q /\ i = 9 + (i - 9)
        BY <2>1
      <3> QED
        BY <2>1, <3>1
    <2>4. \A i \in 1..x - 1 : line[i] # LF /\ line[i] # CR
      BY Zenon, <1>2, <2>2, <2>3
    <2>5. x \in Nat /\ x >= 10
      BY <2>1
    <2> QED
      BY Zenon, <2>1, <2>4, <2>5
  <1>7. /\ y \in Nat /\ y >= 3 /\ Len(fb) = y /\ fb[y] = CR
        /\ \A i \in 1..y - 1 : fb[i] # LF /\ fb[i] # CR
    <2>1. p \in Nat /\ r \in Nat /\ Len(fb) = y /\ fb[p + r + 3] = CR
      BY Zenon, <1>3
    <2>2. p + r + 3 = y /\ y \in Nat /\ y >= 3
      BY <2>1
    <2>3. \A i \in 1..r : fb[p + 2 + i] # LF /\ fb[p + 2 + i] # CR
      BY Zenon, <1>3, <1>4
    <2>4. \A i \in 1..p : fb[i] # LF /\ fb[i] # CR
      BY Zenon, <1>3, <1>4
    <2>5. \A i \in 1..y - 1 : i \in 1..p \/ i = p + 1 \/ i = p + 2 \/ \E j \in 1..r : i = p + 2 + j
      <3> TAKE i \in 1..y - 1
      <3>1. i \in p + 3..p + r + 2 => i - (p + 2) \in 1..r /\ i = p + 2 + (i - (p + 2))
        BY <2>1
      <3> QED
        BY <2>1, <3>1
    <2>7. fb[p + 1] # LF /\ fb[p + 1] # CR /\ fb[p + 2] # LF /\ fb[p + 2] # CR
      BY Zenon, <1>3, <1>5
    <2>6. \A i \in 1..y - 1 : fb[i] # LF /\ fb[i] # CR
      BY Zenon, <2>3, <2>4, <2>5, <2>7
    <2> QED
      BY Zenon, <2>1, <2>2, <2>6
  <1> HIDE DEF x, y
  <1>8. /\ l \in Seq(Nat) /\ Len(l) = 1 /\ l[1] = LF
        /\ CRLF \in Seq(Nat) /\ Len(CRLF) = 2 /\ CRLF[1] = CR /\ CRLF[2] = LF
    BY DEF CRLF, CR, LF
  <1> HIDE DEF l
  <1>9. e \in Seq(Nat) /\ Behind(e, l, CRLF)
    BY <1>8, Joining
  <1>10. Len(e) = 3 /\ e[1] = LF /\ e[2] = CR /\ e[3] = LF
    <2> HIDE DEF e
    <2>1. /\ Len(e) = 1 + 2 /\ (\A i \in 1..1 : e[i] = l[i]) /\ \A i \in 1..2 : e[1 + i] = CRLF[i]
      BY Zenon, <1>8, <1>9 DEF Behind
    <2> QED
      BY <1>8, <2>1
  <1> HIDE DEF e
  <1>11. f \in Seq(Nat) /\ Behind(f, fb, e)
    BY <1>3, <1>9, Joining
  <1> HIDE DEF f
  <1>12. /\ Len(f) = y + 3 /\ (\A i \in 1..y : f[i] = fb[i])
         /\ f[y + 1] = LF /\ f[y + 2] = CR /\ f[y + 3] = LF
    <2>1. /\ Len(f) = y + 3 /\ (\A i \in 1..y : f[i] = fb[i]) /\ \A i \in 1..3 : f[y + i] = e[i]
      BY Zenon, <1>7, <1>10, <1>11 DEF Behind
    <2>2. 1 \in 1..3 /\ 2 \in 1..3 /\ 3 \in 1..3
      OBVIOUS
    <2> QED
      BY Zenon, <1>10, <2>1, <2>2
  <1>13. g \in Seq(Nat) /\ Behind(g, l, f)
    BY <1>8, <1>11, Joining
  <1> HIDE DEF g
  <1>14. h \in Seq(Nat) /\ Behind(h, line, g)
    BY <1>1, <1>2, <1>13, Joining
  <1>15. t \in Seq(Nat) /\ Behind(t, h, b)
    BY <1>14, Joining
  <1> HIDE DEF t
  <1>16. Len(g) = y + 4 /\ g[1] = LF /\ \A i \in 1..y + 3 : g[1 + i] = f[i]
    <2>1. /\ Len(g) = 1 + (y + 3) /\ (\A i \in 1..1 : g[i] = l[i]) /\ \A i \in 1..y + 3 : g[1 + i] = f[i]
      BY Zenon, <1>8, <1>12, <1>13 DEF Behind
    <2>2. 1 + (y + 3) = y + 4 /\ 1 \in 1..1
      BY <1>7
    <2> QED
      BY Zenon, <1>8, <2>1, <2>2
  <1>17. /\ Len(h) = x + (y + 4) /\ (\A i \in 1..x : h[i] = line[i])
         /\ \A i \in 1..y + 4 : h[x + i] = g[i]
    BY Zenon, <1>6, <1>14, <1>16 DEF Behind
  <1>18. /\ Len(t) = x + (y + 4) + s /\ s \in Nat /\ (\A i \in 1..x + (y + 4) : t[i] = h[i])
         /\ \A i \in 1..s : t[x + (y + 4) + i] = b[i]
    BY Zenon, <1>15, <1>17 DEF Behind, s
  <1>19. /\ \A i \in 1..x - 1 : h[i] # LF /\ h[i] # CR
         /\ h[x] = CR /\ h[x + 1] = LF
    <2>1. (\A i \in 1..x - 1 : i \in 1..x) /\ x \in 1..x /\ 1 \in 1..y + 4
      BY <1>6, <1>7
    <2> QED
      BY Zenon, <1>6, <1>16, <1>17, <2>1
  <1>20. \A i \in 1..y + 3 : h[x + (1 + i)] = f[i]
    <2>1. \A i \in 1..y + 3 : 1 + i \in 1..y + 4
      BY <1>7
    <2> QED
      BY Zenon, <1>16, <1>17, <2>1
  <1>21. /\ \A i \in 1..y - 1 : h[x + (1 + i)] # LF /\ h[x + (1 + i)] # CR
         /\ h[x + (1 + y)] = CR /\ h[x + (1 + (y + 1))] = LF /\ h[x + (1 + (y + 2))] = CR
         /\ h[x + (1 + (y + 3))] = LF
    <2>1. /\ (\A i \in 1..y - 1 : i \in 1..y /\ i \in 1..y + 3) /\ y \in 1..y /\ y \in 1..y + 3
          /\ y + 1 \in 1..y + 3 /\ y + 2 \in 1..y + 3 /\ y + 3 \in 1..y + 3
      BY <1>7
    <2>2. \A i \in 1..y - 1 : h[x + (1 + i)] = f[i] /\ f[i] = fb[i]
      BY Zenon, <1>12, <1>20, <2>1
    <2>3. \A i \in 1..y - 1 : h[x + (1 + i)] # LF /\ h[x + (1 + i)] # CR
      BY Zenon, <1>7, <2>2
    <2>4. h[x + (1 + y)] = CR
      BY Zenon, <1>7, <1>12, <1>20, <2>1
    <2>5. /\ h[x + (1 + (y + 1))] = LF /\ h[x + (1 + (y + 2))] = CR
          /\ h[x + (1 + (y + 3))] = LF
      BY Zenon, <1>12, <1>20, <2>1
    <2> QED
      BY Zenon, <2>3, <2>4, <2>5
  <1>22. /\ Len(h) = x + y + 4 /\ Len(t) = x + y + 4 + s
         /\ t[x] = CR /\ t[x + 1] = LF /\ t[x + y + 1] = CR /\ t[x + y + 2] = LF
         /\ t[x + y + 3] = CR /\ t[x + y + 4] = LF
    <2>1. /\ x + (1 + y) = x + y + 1 /\ x + (1 + (y + 1)) = x + y + 2
          /\ x + (1 + (y + 2)) = x + y + 3 /\ x + (1 + (y + 3)) = x + y + 4
          /\ x + (y + 4) = x + y + 4 /\ x + (y + 4) + s = x + y + 4 + s
          /\ {x, x + 1, x + y + 1, x + y + 2, x + y + 3, x + y + 4} \subseteq 1..x + (y + 4)
      BY <1>6, <1>7, <1>18
    <2>2. \A i \in {x, x + 1, x + y + 1, x + y + 2, x + y + 3, x + y + 4} : t[i] = h[i]
      BY <1>18, <2>1
    <2>3. /\ h[x + y + 1] = CR /\ h[x + y + 2] = LF /\ h[x + y + 3] = CR /\ h[x + y + 4] = LF
      BY Zenon, <1>21, <2>1
    <2>4. /\ t[x] = h[x] /\ t[x + 1] = h[x + 1] /\ t[x + y + 1] = h[x + y + 1]
          /\ t[x + y + 2] = h[x + y + 2] /\ t[x + y + 3] = h[x + y + 3] /\ t[x + y + 4] = h[x + y + 4]
      BY Zenon, <2>2
    <2>5. Len(h) = x + y + 4 /\ Len(t) = x + y + 4 + s
      BY Zenon, <1>17, <1>18, <2>1
    <2> QED
      BY Zenon, <1>19, <2>3, <2>4, <2>5
  <1>23. ASSUME NEW i \in 1..Len(t),
                i \notin {x, x + 1, x + y + 1, x + y + 2, x + y + 3, x + y + 4}
         PROVE  t[i] # LF /\ t[i] # CR
    <2>1. /\ s \in Nat /\ x \in Nat /\ y \in Nat /\ x >= 10 /\ y >= 3
          /\ Len(t) = x + y + 4 + s
      BY Zenon, <1>6, <1>7, <1>18, <1>22
    <2>2. CASE i \in 1..x - 1
      <3>1. i \in 1..x + (y + 4)
        BY <2>1, <2>2
      <3> QED
        BY Zenon, <1>18, <1>19, <2>2, <3>1
    <2>3. CASE i \in x + 2..x + y
      <3> DEFINE j == i - (x + 1)
      <3>1. j \in 1..y - 1 /\ i = x + (1 + j) /\ i \in 1..x + (y + 4)
        BY <2>1, <2>3
      <3> HIDE DEF j
      <3>2. h[x + (1 + j)] # LF /\ h[x + (1 + j)] # CR
        BY Zenon, <1>21, <3>1
      <3> QED
        BY Zenon, <1>18, <3>1, <3>2
    <2>4. CASE i \in x + y + 5..Len(t)
      <3> DEFINE j == i - (x + (y + 4))
      <3>1. j \in 1..s /\ i = x + (y + 4) + j
        BY <2>1, <2>4
      <3> HIDE DEF j
      <3>2. t[x + (y + 4) + j] = b[j]
        BY Zenon, <1>18, <3>1
      <3> QED
        BY Zenon, <1>4, <3>1, <3>2
    <2>5. i \in 1..x - 1 \/ i \in x + 2..x + y \/ i \in x + y + 5..Len(t)
      BY <1>23, <2>1
    <2> QED
      BY Zenon, <2>2, <2>3, <2>4, <2>5
  <1>24. ASSUME NEW i \in 1..Len(t)
         PROVE  /\ t[i] = LF <=> i \in {x + 1, x + y + 2, x + y + 4}
                /\ t[i] = CR <=> i \in {x, x + y + 1, x + y + 3}
    <2>1. i \in {x, x + 1, x + y + 1, x + y + 2, x + y + 3, x + y + 4} \/ (t[i] # LF /\ t[i] # CR)
      BY Zenon, <1>23
    <2>2. /\ i \in {x + 1, x + y + 2, x + y + 4} => t[i] = LF
          /\ i \in {x, x + y + 1, x + y + 3} => t[i] = CR
      BY <1>22
    <2>3. /\ i \in {x, x + 1, x + y + 1, x + y + 2, x + y + 3, x + y + 4} =>
                i \in {x + 1, x + y + 2, x + y + 4} \/ i \in {x, x + y + 1, x + y + 3}
          /\ i \in {x + 1, x + y + 2, x + y + 4} \/ i \in {x, x + y + 1, x + y + 3} =>
                i \in {x, x + 1, x + y + 1, x + y + 2, x + y + 3, x + y + 4}
      OBVIOUS
    <2> DEFINE U == {x + 1, x + y + 2, x + y + 4}
               V == {x, x + y + 1, x + y + 3}
               W == {x, x + 1, x + y + 1, x + y + 2, x + y + 3, x + y + 4}
    <2> HIDE DEF U, V, W
    <2>4. /\ i \in W \/ (t[i] # LF /\ t[i] # CR)
          /\ i \in U => t[i] = LF
          /\ i \in V => t[i] = CR
          /\ i \in W => i \in U \/ i \in V
      BY Zenon, <2>1, <2>2, <2>3 DEF U, V, W
    <2>5. (t[i] = LF <=> i \in U) /\ (t[i] = CR <=> i \in V)
      BY Zenon, <1>5, <2>4
    <2> QED
      BY Zenon, <2>5 DEF U, V
  <1>25. Len(t) >= x + y + 4
    BY <1>6, <1>7, <1>18, <1>22
  <1>26. h \o b \in Seq(Nat)
    BY Zenon, <1>15 DEF t
  <1>27. /\ x \in Nat /\ y \in Nat /\ x >= 10 /\ y >= 3 /\ Len(h) = x + y + 4
         /\ Len(h \o b) >= x + y + 4
         /\ \A i \in 1..Len(h \o b) : /\ (h \o b)[i] = LF <=> i \in {x + 1, x + y + 2, x + y + 4}
                                      /\ (h \o b)[i] = CR <=> i \in {x, x + y + 1, x + y + 3}
    BY Zenon, <1>6, <1>7, <1>22, <1>24, <1>25 DEF t
  <1> HIDE DEF x, y
  <1> QED
    BY Zenon, <1>26, <1>27 DEF LineEnds

\* HeaderEndMatch stops where the server's header ends.
LEMMA ResponseEnds ==
  ASSUME NEW status \in Seq(Nat), NEW n \in Seq(Nat), NEW v \in Seq(Nat), NEW b \in Seq(Nat),
         NoneIn(status, LF, 1, Len(status)), NoneIn(n, LF, 1, Len(n)), NoneIn(v, LF, 1, Len(v)),
         NoneIn(status, CR, 1, Len(status)), NoneIn(n, CR, 1, Len(n)), NoneIn(v, CR, 1, Len(v)),
         NoneIn(b, LF, 1, Len(b)), NoneIn(b, CR, 1, Len(b)),
         NEW h, h = ResponseHeader(status, <<<<n, v>>>>)
  PROVE  HeaderEnd(h \o b) = Len(h)
  <1> DEFINE t == h \o b
  <1>1. t \in Seq(Nat) /\ LineEnds(t, h)
    BY ResponseLineEnds
  <1> HIDE DEF t
  <1>2. PICK x \in Nat, y \in Nat :
            /\ x >= 10 /\ y >= 3 /\ Len(h) = x + y + 4 /\ Len(t) >= x + y + 4
            /\ \A i \in 1..Len(t) : /\ t[i] = LF <=> i \in {x + 1, x + y + 2, x + y + 4}
                                    /\ t[i] = CR <=> i \in {x, x + y + 1, x + y + 3}
    BY <1>1 DEF LineEnds
  <1> DEFINE k == x + y + 4
             ends == {i \in DOMAIN t : EmptyLine(t, i)}
             LFAt(i) == i \in {x + 1, x + y + 2, x + y + 4}
             CRAt(i) == i \in {x, x + y + 1, x + y + 3}
  <1>3. Len(t) \in Nat /\ DOMAIN t = 1..Len(t)
    BY <1>1, LenProperties
  <1>4. \A i \in 1..Len(t) : (t[i] = LF <=> LFAt(i)) /\ (t[i] = CR <=> CRAt(i))
    BY Zenon, <1>2
  <1>5. \A i \in 1..Len(t) - 1 : t[i] # CR \/ t[i + 1] # CR
    <2> TAKE i \in 1..Len(t) - 1
    <2>1. i \in 1..Len(t) /\ i + 1 \in 1..Len(t)
      BY <1>3
    <2>2. ~(CRAt(i) /\ CRAt(i + 1))
      BY <1>2
    <2> HIDE DEF CRAt, LFAt
    <2> QED
      BY Zenon, <1>4, <2>1, <2>2
  <1>6. k \in 1..Len(t) /\ EmptyLine(t, k)
    <2>1. /\ k \in 1..Len(t) /\ k - 1 \in 1..Len(t) /\ k - 2 \in 1..Len(t) /\ k - 3 \in 1..Len(t)
          /\ k >= 4 /\ CRAt(k - 3) /\ LFAt(k - 2) /\ CRAt(k - 1) /\ LFAt(k)
      BY <1>2, <1>3
    <2> HIDE DEF k, CRAt, LFAt
    <2> QED
      BY Zenon, <1>4, <2>1 DEF EmptyLine
  <1>7. ASSUME NEW i \in 1..Len(t), i < k
        PROVE  ~EmptyLine(t, i)
    <2>1. CASE ~LFAt(i)
      <3> HIDE DEF LFAt, CRAt
      <3> QED
        BY Zenon, <1>4, <2>1 DEF EmptyLine
    <2>2. CASE LFAt(i)
      <3>1. /\ i - 1 \in 1..Len(t) /\ ~LFAt(i - 1) /\ i - 2 \in 1..Len(t) /\ ~LFAt(i - 2)
        BY <1>2, <1>3, <1>7, <2>2
      <3> HIDE DEF LFAt, CRAt
      <3> QED
        BY Zenon, <1>4, <3>1 DEF EmptyLine
    <2> QED
      BY <2>1, <2>2
  <1> HIDE DEF LFAt, CRAt
  <1>8. Min(ends) = k /\ ends # {}
    <2>1. k \in ends /\ k \in Int /\ ends \in SUBSET Int
      BY <1>2, <1>3, <1>6
    <2>2. \A i \in ends : k <= i
      <3> TAKE i \in ends
      <3>1. i \in 1..Len(t) /\ EmptyLine(t, i)
        BY <1>3
      <3>2. ~(i < k)
        BY <1>7, <3>1
      <3> QED
        BY <1>2, <3>1, <3>2
    <2> HIDE DEF ends, k
    <2>3. Min(ends) = k
      BY <2>1, <2>2, MinIs
    <2> QED
      BY <2>1, <2>3
  <1>9. HeaderEnd(t) = IF ends = {} THEN 0 ELSE Min(ends)
    BY <1>1, <1>5, HeaderEndIs
  <1> HIDE DEF ends
  <1> QED
    BY <1>2, <1>8, <1>9 DEF t

\* Whatever its status and its field's value, a response that the server writes is what
\* the client's parser finds, and its header ends where the client finds the end.
THEOREM ClientAlwaysReadsResponse == MessageSpec => []ClientReadsResponse
  <1>1. TextTyped => ClientReadsResponse
    <2> SUFFICES ASSUME TextTyped, kind = "status"
                 PROVE  LET header == ResponseHeader(<<50, SP>> \o text, <<<<FieldName, text>>>>)
                            response == ParseResponse(header)
                            first == Min({i \in 1 .. Len(text) + 1 : i > Len(text) \/ text[i] # SP})
                        IN  /\ response.ok /\ response.version = V11
                            /\ response.status = <<50, SP>> \o text
                            /\ response.header = <<<<FieldName, From(text, first)>>>>
                            /\ HeaderEnd(header \o text) = Len(header)
      BY Zenon DEF ClientReadsResponse
    <2> DEFINE two == <<50, SP>>
               status == two \o text
               header == ResponseHeader(status, <<<<FieldName, text>>>>)
               value == From(text, FirstNonBlank(text))
               fields == <<<<FieldName, value>>>>
    <2>1. text \in Seq(Nat) /\ NoneIn(text, LF, 1, Len(text)) /\ NoneIn(text, CR, 1, Len(text))
      <3>1. Parts["status"] \subseteq 0 .. 255 \ {CR, LF} /\ text \in Seq(Parts["status"])
        BY Zenon, PartsAssumption DEF TextTyped
      <3>2. text \in Seq(0 .. 255 \ {CR, LF})
        BY <3>1, SeqMonotonic
      <3>3. \A i \in 1..Len(text) : text[i] \in 0 .. 255 \ {CR, LF}
        BY <3>2, ElementOfSeq
      <3>4. 0 .. 255 \ {CR, LF} \subseteq Nat
        OBVIOUS
      <3>5. text \in Seq(Nat)
        BY <3>2, <3>4, SeqMonotonic
      <3> QED
        BY <3>3, <3>5 DEF NoneIn
    <2>2. /\ FieldName \in Seq(Nat) /\ NoneIn(FieldName, LF, 1, Len(FieldName))
          /\ NoneIn(FieldName, CR, 1, Len(FieldName)) /\ NoneIn(FieldName, COLON, 1, Len(FieldName))
      BY DEF FieldName, NoneIn, LF, CR, COLON
    <2>3. status \in Seq(Nat) /\ NoneIn(status, LF, 1, Len(status)) /\ NoneIn(status, CR, 1, Len(status))
      <3>1. /\ two \in Seq(Nat) /\ Len(two) = 2
            /\ \A i \in 1..2 : two[i] # LF /\ two[i] # CR
        <4>1. two \in Seq(Nat) /\ Len(two) = 2 /\ two[1] = 50 /\ two[2] = 32
          BY DEF SP
        <4>2. \A i \in 1..2 : i = 1 \/ i = 2
          OBVIOUS
        <4> HIDE DEF two
        <4>3. 50 # LF /\ 50 # CR /\ 32 # LF /\ 32 # CR
          BY DEF LF, CR
        <4>4. two[1] # LF /\ two[1] # CR /\ two[2] # LF /\ two[2] # CR
          BY Zenon, <4>1, <4>3
        <4> QED
          BY Zenon, <4>1, <4>2, <4>4
      <3> HIDE DEF two
      <3>2. status \in Seq(Nat) /\ Behind(status, two, text)
        BY <2>1, <3>1, Joining
      <3> HIDE DEF status
      <3>3. /\ Len(status) = 2 + Len(text) /\ Len(text) \in Nat
            /\ \A i \in 1..2 : status[i] = two[i]
            /\ \A i \in 1..Len(text) : status[2 + i] = text[i]
        BY Zenon, <3>1, <3>2 DEF Behind
      <3>4. \A i \in 1..Len(status) : i \in 1..2 \/ \E j \in 1..Len(text) : i = 2 + j
        <4>0. Len(status) = 2 + Len(text) /\ Len(text) \in Nat
          BY Zenon, <3>3
        <4> TAKE i \in 1..Len(status)
        <4>1. i \in 3..2 + Len(text) => i - 2 \in 1..Len(text) /\ i = 2 + (i - 2)
          BY <4>0
        <4> QED
          BY <4>0, <4>1
      <3>5. \A i \in 1..Len(text) : text[i] # LF /\ text[i] # CR
        BY Zenon, <2>1 DEF NoneIn
      <3>6. /\ \A i \in 1..2 : status[i] # LF /\ status[i] # CR
            /\ \A i \in 1..Len(text) : status[2 + i] # LF /\ status[2 + i] # CR
        BY Zenon, <3>1, <3>3, <3>5
      <3> QED
        BY Zenon, <3>2, <3>4, <3>6 DEF NoneIn
    <2> HIDE DEF status, value
    <2>4. ParseResponse(header) = [ok |-> TRUE, version |-> V11, status |-> status, header |-> fields]
      BY <2>1, <2>2, <2>3, ResponseParsed DEF value
    <2>5. HeaderEnd(header \o text) = Len(header)
      BY <2>1, <2>2, <2>3, ResponseEnds
    <2> HIDE DEF header, fields
    <2>6. LET response == ParseResponse(header)
          IN  response.ok /\ response.version = V11 /\ response.status = status
              /\ response.header = fields
      BY <2>4
    <2> QED
      BY Zenon, <2>5, <2>6 DEF FirstNonBlank, value, fields, header, status, two
  <1> QED
    BY <1>1, AlwaysTyped, PTL

\* A text that has no LF is one line.
LEMMA OneLine ==
  ASSUME NEW a \in Seq(Nat), a # <<>>, NoneIn(a, LF, 1, Len(a))
  PROVE  Lines(a) = Append(<<>>, a)
  <1>1. PICK f : Lines(a) = AllLines(f[1..Len(a)]) /\ Scans(f, a)
    BY LinesScan
  <1>2. Len(a) \in Nat /\ Len(a) <= Len(a) /\ \A i \in 1..Len(a) : a[i] = a[i]
    BY LenProperties
  <1>3. \A i \in 1..Len(a) : a[i] # LF
    BY Zenon DEF NoneIn
  <1>4. f[1..Len(a)] = SoFar(<<>>, a)
    BY <1>1, <1>2, <1>3, WithinLine
  <1>5. SoFar(<<>>, a).lines = <<>> /\ SoFar(<<>>, a).line = a
    BY DEF SoFar
  <1> QED
    BY Zenon, <1>1, <1>4, <1>5 DEF AllLines

\* What is in a text is in a text that begins with it.
Chained(t, x, y) ==
    /\ t \in Seq(Nat) /\ Len(t) = Len(x) + Len(y) /\ Len(x) \in Nat /\ Len(y) \in Nat
    /\ PartAt(t, 1, x) /\ PartAt(t, Len(x) + 1, y)

LEMMA Chain ==
  ASSUME NEW x \in Seq(Nat), NEW y \in Seq(Nat)
  PROVE  Chained(x \o y, x, y)
  <1> DEFINE t == x \o y
  <1>1. t \in Seq(Nat) /\ Behind(t, x, y)
    BY Joining
  <1> HIDE DEF t
  <1>2. /\ Len(t) = Len(x) + Len(y) /\ Len(x) \in Nat /\ Len(y) \in Nat
        /\ \A i \in 1..Len(x) : t[i] = x[i]
        /\ \A i \in 1..Len(y) : t[Len(x) + i] = y[i]
    BY Zenon, <1>1 DEF Behind
  <1>3. /\ \A i \in 1..Len(x) : 1 + i - 1 = i
        /\ \A i \in 1..Len(y) : Len(x) + 1 + i - 1 = Len(x) + i
    BY <1>2
  <1> QED
    BY Zenon, <1>1, <1>2, <1>3 DEF PartAt, Chained, t

LEMMA Lift ==
  ASSUME NEW t, NEW x, NEW y, NEW from \in Nat \ {0}, Len(x) \in Nat, Len(y) \in Nat,
         PartAt(t, 1, x), PartAt(x, from, y), from + Len(y) <= Len(x) + 1
  PROVE  PartAt(t, from, y)
  <1> SUFFICES ASSUME NEW i \in 1..Len(y)
               PROVE  t[from + i - 1] = y[i]
    BY DEF PartAt
  <1> DEFINE j == from + i - 1
  <1>1. j \in 1..Len(x) /\ 1 + j - 1 = j
    OBVIOUS
  <1>2. x[j] = y[i]
    BY DEF PartAt
  <1> HIDE DEF j
  <1>3. t[j] = x[j]
    BY Zenon, <1>1 DEF PartAt
  <1> QED
    BY Zenon, <1>2, <1>3 DEF j

\* A slice of a part.
LEMMA SliceOfPart ==
  ASSUME NEW t \in Seq(Nat), NEW x \in Seq(Nat), NEW from \in Nat \ {0}, PartAt(t, from, x),
         from + Len(x) <= Len(t) + 1, NEW j \in 1..Len(x) + 1, NEW l \in j..Len(x) + 1
  PROVE  Slice(t, from + j - 1, from + l - 1) = Slice(x, j, l)
  <1> DEFINE w == SubSeq(x, j, l - 1)
             n == Len(x)
             m == Len(t)
  <1>1. n \in Nat /\ m \in Nat /\ \A i \in 1..n : x[i] \in Nat
    BY LenProperties, ElementOfSeq
  <1>2. j \in 1..n + 1 /\ l \in j..n + 1 /\ from + n <= m + 1
    OBVIOUS
  <1>3. /\ w \in Seq(Nat) /\ Len(w) = (IF j <= l - 1 THEN (l - 1) - j + 1 ELSE 0)
        /\ \A i \in 1..(l - 1) - j + 1 : w[i] = x[j + i - 1]
    <2> HIDE DEF n, m
    <2>1. j \in Int /\ l - 1 \in Int /\ \A i \in j..l - 1 : x[i] \in Nat
      BY <1>1, <1>2
    <2> QED
      BY <2>1, SubSeqProperties
  <1>4. \A i \in 1..n : t[from + i - 1] = x[i]
    BY Zenon DEF PartAt
  <1> HIDE DEF w, n
  <1>5. Len(w) = l - j
    BY <1>1, <1>2, <1>3
  <1>6. PartAt(t, from + j - 1, w)
    <2> SUFFICES ASSUME NEW i \in 1..Len(w)
                 PROVE  t[from + j - 1 + i - 1] = w[i]
      BY DEF PartAt
    <2> DEFINE k == j + i - 1
    <2>1. k \in 1..n /\ from + k - 1 = from + j - 1 + i - 1 /\ i \in 1..(l - 1) - j + 1
      BY <1>1, <1>2, <1>5
    <2>2. w[i] = x[k]
      BY <1>3, <2>1
    <2> HIDE DEF k
    <2>3. t[from + k - 1] = x[k]
      BY Zenon, <1>4, <2>1
    <2> QED
      BY Zenon, <2>1, <2>2, <2>3
  <1>7. /\ from + j - 1 \in Nat \ {0} /\ from + l - 1 = from + j - 1 + Len(w)
        /\ from + l - 1 <= m + 1
    BY <1>1, <1>2, <1>5
  <1>8. Slice(t, from + j - 1, from + l - 1) = w
    BY <1>3, <1>6, <1>7, Part
  <1> QED
    BY Zenon, <1>8 DEF Slice, w

\* The first line of a request, up to its CR, for a protocol.
RequestStart(target, protocol) ==
    (((((Method \o <<SP>>) \o target) \o <<SP>>) \o protocol) \o <<SLASH>>) \o V11

\* The places of its parts.
RequestParts(t, target, protocol) ==
    /\ t[1] = 71 /\ t[2] = SP /\ PartAt(t, 3, target)
    /\ t[Len(target) + 3] = SP /\ PartAt(t, Len(target) + 4, protocol)
    /\ t[Len(target) + Len(protocol) + 4] = SLASH
    /\ PartAt(t, Len(target) + Len(protocol) + 5, V11)

Requested(t, target, protocol, rest) ==
    /\ t \in Seq(Nat) /\ Len(t) = Len(target) + Len(protocol) + 7 + Len(rest)
    /\ RequestParts(t, target, protocol)
    /\ PartAt(t, Len(target) + Len(protocol) + 8, rest)
    /\ RequestStart(target, protocol) \in Seq(Nat)

LEMMA RequestStartIs ==
  ASSUME NEW target \in Seq(Nat), NEW protocol \in Seq(Nat), NEW rest \in Seq(Nat)
  PROVE  Requested(RequestStart(target, protocol) \o rest, target, protocol, rest)
  <1> DEFINE sp == <<SP>>
             sl == <<SLASH>>
             a == Method \o sp
             b == a \o target
             c == b \o sp
             d == c \o protocol
             e == d \o sl
             f == e \o V11
             m == Len(target)
             p == Len(protocol)
             t == f \o rest
  <1>1. /\ sp \in Seq(Nat) /\ Len(sp) = 1 /\ sp[1] = SP /\ sl \in Seq(Nat) /\ Len(sl) = 1 /\ sl[1] = SLASH
        /\ Method \in Seq(Nat) /\ Len(Method) = 1 /\ Method[1] = 71
        /\ V11 \in Seq(Nat) /\ Len(V11) = 3
    BY DEF SP, SLASH, Method, V11
  <1>2. f = RequestStart(target, protocol)
    BY Zenon DEF RequestStart
  <1> HIDE DEF t
  <1> HIDE DEF sp, sl
  <1>3. a \in Seq(Nat) /\ Len(a) = Len(Method) + Len(sp) /\ PartAt(a, 1, Method) /\ PartAt(a, Len(Method) + 1, sp)
    <2>1. Chained(a, Method, sp)
      BY <1>1, Chain
    <2> QED
      BY Zenon, <1>1, <2>1 DEF Chained, m, p
  <1> HIDE DEF a
  <1>4. b \in Seq(Nat) /\ Len(b) = Len(a) + m /\ m \in Nat /\ PartAt(b, 1, a) /\ PartAt(b, Len(a) + 1, target)
    <2>1. Chained(b, a, target)
      BY <1>3, Chain
    <2> QED
      BY Zenon, <1>1, <2>1 DEF Chained, m, p
  <1> HIDE DEF b
  <1>5. c \in Seq(Nat) /\ Len(c) = Len(b) + Len(sp) /\ PartAt(c, 1, b) /\ PartAt(c, Len(b) + 1, sp)
    <2>1. Chained(c, b, sp)
      BY <1>1, <1>4, Chain
    <2> QED
      BY Zenon, <1>1, <2>1 DEF Chained, m, p
  <1> HIDE DEF c
  <1>6. d \in Seq(Nat) /\ Len(d) = Len(c) + p /\ p \in Nat /\ PartAt(d, 1, c) /\ PartAt(d, Len(c) + 1, protocol)
    <2>1. Chained(d, c, protocol)
      BY <1>5, Chain
    <2> QED
      BY Zenon, <1>1, <2>1 DEF Chained, m, p
  <1> HIDE DEF d
  <1>7. e \in Seq(Nat) /\ Len(e) = Len(d) + Len(sl) /\ PartAt(e, 1, d) /\ PartAt(e, Len(d) + 1, sl)
    <2>1. Chained(e, d, sl)
      BY <1>1, <1>6, Chain
    <2> QED
      BY Zenon, <1>1, <2>1 DEF Chained, m, p
  <1> HIDE DEF e
  <1>8. f \in Seq(Nat) /\ Len(f) = Len(e) + Len(V11) /\ PartAt(f, 1, e) /\ PartAt(f, Len(e) + 1, V11)
    <2>1. Chained(f, e, V11)
      BY <1>1, <1>7, Chain
    <2> QED
      BY Zenon, <1>1, <2>1 DEF Chained, m, p
  <1> HIDE DEF f
  <1>9. t \in Seq(Nat) /\ Len(t) = Len(f) + Len(rest) /\ PartAt(t, 1, f) /\ PartAt(t, Len(f) + 1, rest)
    <2>1. Chained(f \o rest, f, rest)
      BY <1>8, Chain
    <2> QED
      BY Zenon, <2>1 DEF Chained, t
  <1> HIDE DEF m, p
  <1>10. /\ Len(a) = 2 /\ Len(b) = m + 2 /\ Len(c) = m + 3 /\ Len(d) = m + p + 3 /\ Len(e) = m + p + 4
         /\ Len(f) = m + p + 7 /\ Len(t) = m + p + 7 + Len(rest)
         /\ Len(a) \in Nat /\ Len(b) \in Nat /\ Len(c) \in Nat /\ Len(d) \in Nat /\ Len(e) \in Nat
         /\ Len(f) \in Nat
    BY <1>1, <1>3, <1>4, <1>5, <1>6, <1>7, <1>8, <1>9
  <1>11. PartAt(t, 1, e)
    <2>1. 1 \in Nat \ {0} /\ 1 + Len(e) <= Len(f) + 1
      BY <1>4, <1>6, <1>10
    <2> QED
      BY Zenon, <1>8, <1>9, <1>10, <2>1, Lift
  <1>12. PartAt(t, 1, d)
    <2>1. 1 \in Nat \ {0} /\ 1 + Len(d) <= Len(e) + 1
      BY <1>4, <1>6, <1>10
    <2> QED
      BY Zenon, <1>7, <1>10, <1>11, <2>1, Lift
  <1>13. PartAt(t, 1, c)
    <2>1. 1 \in Nat \ {0} /\ 1 + Len(c) <= Len(d) + 1
      BY <1>4, <1>6, <1>10
    <2> QED
      BY Zenon, <1>6, <1>10, <1>12, <2>1, Lift
  <1>14. PartAt(t, 1, b)
    <2>1. 1 \in Nat \ {0} /\ 1 + Len(b) <= Len(c) + 1
      BY <1>4, <1>6, <1>10
    <2> QED
      BY Zenon, <1>5, <1>10, <1>13, <2>1, Lift
  <1>15. PartAt(t, 1, a)
    <2>1. 1 \in Nat \ {0} /\ 1 + Len(a) <= Len(b) + 1
      BY <1>4, <1>6, <1>10
    <2> QED
      BY Zenon, <1>4, <1>10, <1>14, <2>1, Lift
  <1>16. t[1] = 71 /\ t[2] = SP
    <2>1. /\ 1 \in 1..Len(Method) /\ 1 \in 1..Len(sp) /\ 1 + 1 - 1 = 1 /\ Len(Method) + 1 + 1 - 1 = 2
          /\ 1 \in 1..Len(a) /\ 2 \in 1..Len(a) /\ 1 + 2 - 1 = 2
      BY <1>1, <1>10
    <2>2. a[1] = 71 /\ a[2] = SP
      BY Zenon, <1>1, <1>3, <2>1 DEF PartAt
    <2> QED
      <3>1. t[1 + 1 - 1] = a[1]
        BY Zenon, <1>15, <2>1 DEF PartAt
      <3>2. t[1 + 2 - 1] = a[2]
        BY Zenon, <1>15, <2>1 DEF PartAt
      <3> QED
        BY Zenon, <2>1, <2>2, <3>1, <3>2
  <1>17. PartAt(t, 3, target)
    <2>1. PartAt(b, 3, target) /\ 3 \in Nat \ {0} /\ 3 + m <= Len(b) + 1
      <3>1. Len(a) + 1 = 3 /\ 3 + m <= Len(b) + 1
        BY <1>4, <1>10
      <3> QED
        BY <1>4, <3>1
    <2> QED
      BY Zenon, <1>4, <1>10, <1>14, <2>1, Lift DEF m
  <1>18. t[m + 3] = SP
    <2>1. c[m + 3] = SP
      <3>1. c[Len(b) + 1 + 1 - 1] = sp[1]
        BY <1>1, <1>5 DEF PartAt
      <3>2. Len(b) + 1 + 1 - 1 = m + 3
        BY <1>4, <1>10
      <3> QED
        BY Zenon, <1>1, <3>1, <3>2
    <2>2. m + 3 \in 1..Len(c) /\ 1 + (m + 3) - 1 = m + 3
      BY <1>4, <1>10
    <2> QED
      BY Zenon, <1>13, <2>1, <2>2 DEF PartAt
  <1>19. PartAt(t, m + 4, protocol)
    <2>1. m + 4 = Len(c) + 1 /\ m + 4 \in Nat \ {0} /\ m + 4 + p <= Len(d) + 1
      BY <1>4, <1>6, <1>10
    <2>2. PartAt(d, m + 4, protocol)
      BY Zenon, <1>6, <2>1
    <2> QED
      BY Zenon, <1>6, <1>10, <1>12, <2>1, <2>2, Lift DEF p
  <1>20. t[m + p + 4] = SLASH
    <2>1. e[m + p + 4] = SLASH
      <3>1. e[Len(d) + 1 + 1 - 1] = sl[1]
        BY <1>1, <1>7 DEF PartAt
      <3>2. Len(d) + 1 + 1 - 1 = m + p + 4
        BY <1>4, <1>6, <1>10
      <3> QED
        BY Zenon, <1>1, <3>1, <3>2
    <2>2. m + p + 4 \in 1..Len(e) /\ 1 + (m + p + 4) - 1 = m + p + 4
      BY <1>4, <1>6, <1>10
    <2> QED
      BY Zenon, <1>11, <2>1, <2>2 DEF PartAt
  <1>21. PartAt(t, m + p + 5, V11)
    <2>1. m + p + 5 = Len(e) + 1 /\ m + p + 5 \in Nat \ {0} /\ m + p + 5 + Len(V11) <= Len(f) + 1
      BY <1>1, <1>4, <1>6, <1>10
    <2>2. PartAt(f, m + p + 5, V11) /\ Len(V11) \in Nat
      BY <1>1, <1>8, <2>1
    <2> QED
      BY Zenon, <1>9, <1>10, <2>1, <2>2, Lift
  <1>22. PartAt(t, m + p + 8, rest)
    <2>1. Len(f) + 1 = m + p + 8
      BY <1>4, <1>6, <1>10
    <2> QED
      BY Zenon, <1>9, <2>1
  <1>23. RequestParts(t, target, protocol)
    BY Zenon, <1>16, <1>17, <1>18, <1>19, <1>20, <1>21 DEF RequestParts, m, p
  <1> QED
    BY Zenon, <1>2, <1>8, <1>9, <1>10, <1>22, <1>23 DEF m, p, t, Requested

LEMMA NoneInPart ==
  ASSUME NEW t, NEW x, NEW byte, NEW from \in Nat, Len(x) \in Nat,
         PartAt(t, from, x), NoneIn(x, byte, 1, Len(x))
  PROVE  NoneIn(t, byte, from, from + Len(x) - 1)
  <1> SUFFICES ASSUME NEW j \in from..from + Len(x) - 1
               PROVE  t[j] # byte
    BY DEF NoneIn
  <1> DEFINE i == j - from + 1
  <1>1. i \in 1..Len(x) /\ from + i - 1 = j
    OBVIOUS
  <1> HIDE DEF i
  <1> QED
    BY Zenon, <1>1 DEF PartAt, NoneIn

\* Where the parts of a request's first line are found.
Found(t, target, protocol) ==
    /\ Find(t, SP, 1) = 2 /\ Find(t, SP, 3) = Len(target) + 3
    /\ Find(t, SLASH, Len(target) + 4) = Len(target) + Len(protocol) + 4
    /\ Slice(t, 1, 2) = Method /\ Slice(t, 3, Len(target) + 3) = target
    /\ Slice(t, Len(target) + 4, Len(target) + Len(protocol) + 4) = protocol
    /\ Slice(t, Len(target) + Len(protocol) + 5, Len(target) + Len(protocol) + 8) = V11

LEMMA RequestFinds ==
  ASSUME NEW target \in Seq(Nat), NEW protocol \in Seq(Nat), NEW t \in Seq(Nat),
         RequestParts(t, target, protocol), Len(t) >= Len(target) + Len(protocol) + 7,
         NoneIn(target, SP, 1, Len(target)), NoneIn(protocol, SLASH, 1, Len(protocol))
  PROVE  Found(t, target, protocol)
  <1> DEFINE m == Len(target)
             p == Len(protocol)
             n == Len(t)
  <1>1. m \in Nat /\ p \in Nat /\ n \in Nat
    BY LenProperties
  <1>2. n >= m + p + 7
    OBVIOUS
  <1>3. /\ t[1] = 71 /\ t[2] = SP /\ PartAt(t, 3, target)
        /\ t[m + 3] = SP /\ PartAt(t, m + 4, protocol)
        /\ t[m + p + 4] = SLASH
        /\ PartAt(t, m + p + 5, V11)
    BY Zenon DEF RequestParts
  <1>4. NoneIn(t, SP, 3, 3 + m - 1)
    BY <1>1, <1>3, NoneInPart
  <1>5. NoneIn(t, SLASH, m + 4, m + 4 + p - 1)
    BY <1>1, <1>3, NoneInPart
  <1> HIDE DEF m, p, n
  <1>6. Find(t, SP, 1) = 2
    <2>1. NoneIn(t, SP, 1, 2 - 1)
      BY <1>3 DEF NoneIn, SP
    <2>2. 2 \in 1..Len(t) /\ 1 \in Nat /\ Len(t) \in Nat
      BY <1>1, <1>2 DEF n
    <2>3. t[2] = SP
      BY Zenon, <1>3
    <2> QED
      BY Zenon, <2>1, <2>2, <2>3, FindIs
  <1>7. Find(t, SP, 3) = m + 3
    <2>1. 3 + m - 1 = (m + 3) - 1 /\ m + 3 \in 3..Len(t) /\ 3 \in Nat /\ Len(t) \in Nat
      BY <1>1, <1>2 DEF n
    <2>2. NoneIn(t, SP, 3, (m + 3) - 1)
      BY Zenon, <1>4, <2>1
    <2>3. t[m + 3] = SP
      BY Zenon, <1>3
    <2> QED
      BY Zenon, <2>1, <2>2, <2>3, FindIs
  <1>8. Find(t, SLASH, m + 4) = m + p + 4
    <2>1. /\ m + 4 + p - 1 = (m + p + 4) - 1 /\ m + p + 4 \in m + 4..Len(t)
          /\ m + 4 \in Nat /\ Len(t) \in Nat
      BY <1>1, <1>2 DEF n
    <2>2. NoneIn(t, SLASH, m + 4, (m + p + 4) - 1)
      BY Zenon, <1>5, <2>1
    <2>3. t[m + p + 4] = SLASH
      BY Zenon, <1>3
    <2> QED
      BY Zenon, <2>1, <2>2, <2>3, FindIs
  <1>9. Slice(t, 1, 2) = Method
    <2>1. Method \in Seq(Nat) /\ Len(Method) = 1 /\ Method[1] = 71
      BY DEF Method
    <2>2. PartAt(t, 1, Method)
      BY <1>3, <2>1 DEF PartAt
    <2>3. 2 = 1 + Len(Method) /\ 2 <= n + 1 /\ 1 \in Nat \ {0}
      BY <1>1, <1>2, <2>1
    <2> QED
      BY Zenon, <2>1, <2>2, <2>3, Part DEF n
  <1>10. Slice(t, 3, m + 3) = target
    <2>1. m + 3 = 3 + Len(target) /\ m + 3 <= Len(t) + 1 /\ 3 \in Nat \ {0}
      BY <1>1, <1>2 DEF m, n
    <2>2. PartAt(t, 3, target)
      BY Zenon, <1>3
    <2> QED
      BY Zenon, <2>1, <2>2, Part
  <1>11. Slice(t, m + 4, m + p + 4) = protocol
    <2>1. m + p + 4 = (m + 4) + Len(protocol) /\ m + p + 4 <= Len(t) + 1 /\ m + 4 \in Nat \ {0}
      BY <1>1, <1>2 DEF p, n
    <2>2. PartAt(t, m + 4, protocol)
      BY Zenon, <1>3
    <2> QED
      BY Zenon, <2>1, <2>2, Part
  <1>12. Slice(t, m + p + 5, m + p + 8) = V11
    <2>1. V11 \in Seq(Nat) /\ Len(V11) = 3
      BY DEF V11
    <2>2. m + p + 8 = (m + p + 5) + Len(V11) /\ m + p + 8 <= Len(t) + 1 /\ m + p + 5 \in Nat \ {0}
      BY <1>1, <1>2, <2>1 DEF n
    <2>3. PartAt(t, m + p + 5, V11)
      BY Zenon, <1>3
    <2> QED
      BY Zenon, <2>1, <2>2, <2>3, Part
  <1> QED
    BY Zenon, <1>6, <1>7, <1>8, <1>9, <1>10, <1>11, <1>12 DEF Found, m, p

\* The target is split at its first question mark, if it has one.
SplitAt(t, from, end, target, question) ==
    IF question = 0 THEN QueryStart(t, from, end) = 0
    ELSE /\ QueryStart(t, from, end) # 0
         /\ Slice(t, from, QueryStart(t, from, end)) = Slice(target, 1, question)
         /\ Slice(t, QueryStart(t, from, end) + 1, end) = From(target, question + 1)

LEMMA TargetSplit ==
  ASSUME NEW target \in Seq(Nat), NEW t \in Seq(Nat), PartAt(t, 3, target),
         Len(target) + 3 <= Len(t)
  PROVE  SplitAt(t, 3, Len(target) + 3, target, Find(target, QUESTION, 1))
  <1> DEFINE m == Len(target)
             n == Len(t)
             k == Find(target, QUESTION, 1)
             q == Find(t, QUESTION, 3)
  <1>1. m \in Nat /\ n \in Nat /\ m + 3 <= n
    BY LenProperties
  <1>2. \/ k = 0 /\ \A i \in 1..m : target[i] # QUESTION
        \/ k \in 1..m /\ target[k] = QUESTION /\ \A i \in 1..k - 1 : target[i] # QUESTION
    BY FindFirst, 1 \in Nat \ {0}, <1>1
  <1>3. \/ q = 0 /\ \A i \in 3..n : t[i] # QUESTION
        \/ q \in 3..n /\ t[q] = QUESTION /\ \A i \in 3..q - 1 : t[i] # QUESTION
    BY FindFirst, 3 \in Nat \ {0}, <1>1
  <1>4. \A i \in 1..m : t[3 + i - 1] = target[i]
    BY Zenon DEF PartAt, m
  <1>5. QueryStart(t, 3, m + 3) = IF q < m + 3 THEN q ELSE 0
    BY Zenon DEF QueryStart
  <1> HIDE DEF m, n, k, q
  <1>6. CASE k = 0 /\ \A i \in 1..m : target[i] # QUESTION
    <2>1. ~(q \in 3..m + 2 /\ t[q] = QUESTION)
      <3> SUFFICES ASSUME q \in 3..m + 2, t[q] = QUESTION
                   PROVE  FALSE
        OBVIOUS
      <3>1. q - 2 \in 1..m /\ 3 + (q - 2) - 1 = q
        BY <1>1
      <3>2. t[q] = target[q - 2]
        BY Zenon, <1>4, <3>1
      <3> QED
        BY Zenon, <1>6, <3>1, <3>2
    <2>2. QueryStart(t, 3, m + 3) = 0
      BY <1>1, <1>3, <1>5, <2>1
    <2> QED
      BY Zenon, <1>6, <2>2 DEF SplitAt, m, k
  <1>7. CASE k \in 1..m /\ target[k] = QUESTION /\ \A i \in 1..k - 1 : target[i] # QUESTION
    <2>1. 3 + k - 1 = k + 2 /\ k + 2 \in 3..n /\ k + 2 < m + 3 /\ k + 2 # 0 /\ k # 0
      BY <1>1, <1>7
    <2>2. t[k + 2] = QUESTION
      BY Zenon, <1>4, <1>7, <2>1
    <2>3. NoneIn(t, QUESTION, 3, (k + 2) - 1)
      <3> SUFFICES ASSUME NEW i \in 3..(k + 2) - 1
                   PROVE  t[i] # QUESTION
        BY DEF NoneIn
      <3>1. i - 2 \in 1..k - 1 /\ i - 2 \in 1..m /\ 3 + (i - 2) - 1 = i
        BY <1>1, <1>7
      <3>2. t[i] = target[i - 2]
        BY Zenon, <1>4, <3>1
      <3> QED
        BY Zenon, <1>7, <3>1, <3>2
    <2>4. q = k + 2
      BY Zenon, <1>1, <2>1, <2>2, <2>3, FindIs, 3 \in Nat DEF q, n
    <2>5. QueryStart(t, 3, m + 3) = k + 2
      BY <1>5, <2>1, <2>4
    <2>6. Slice(t, 3, k + 2) = Slice(target, 1, k)
      <3>1. /\ 3 \in Nat \ {0} /\ 3 + m <= n + 1 /\ 1 \in 1..m + 1 /\ k \in 1..m + 1
            /\ 3 + 1 - 1 = 3
        BY <1>1, <1>7
      <3>2. Slice(t, 3 + 1 - 1, 3 + k - 1) = Slice(target, 1, k)
        BY Zenon, <3>1, SliceOfPart DEF m, n
      <3> QED
        BY Zenon, <2>1, <3>1, <3>2
    <2>7. Slice(t, (k + 2) + 1, m + 3) = From(target, k + 1)
      <3>1. /\ 3 \in Nat \ {0} /\ 3 + m <= n + 1 /\ k + 1 \in 1..m + 1 /\ m + 1 \in k + 1..m + 1
            /\ 3 + (k + 1) - 1 = (k + 2) + 1 /\ 3 + (m + 1) - 1 = m + 3 /\ (m + 1) - 1 = m
        BY <1>1, <1>7
      <3>2. Slice(t, 3 + (k + 1) - 1, 3 + (m + 1) - 1) = Slice(target, k + 1, m + 1)
        BY Zenon, <3>1, SliceOfPart DEF m, n
      <3>3. Slice(target, k + 1, m + 1) = From(target, k + 1)
        BY Zenon, <3>1 DEF Slice, From, m
      <3> QED
        BY Zenon, <3>1, <3>2, <3>3
    <2> QED
      BY Zenon, <2>1, <2>5, <2>6, <2>7 DEF SplitAt, m, k
  <1> QED
    BY Zenon, <1>2, <1>6, <1>7

\* What the server makes of a text's first line.
RequestIs(target, header) ==
    LET question == Find(target, QUESTION, 1)
    IN  [ok |-> TRUE, method |-> Method,
         path |-> IF question = 0 THEN target ELSE Slice(target, 1, question),
         query |-> IF question = 0 THEN <<>> ELSE From(target, question + 1),
         version |-> V11, header |-> header]

LEMMA RequestRead ==
  ASSUME NEW bytes, NEW t, Lines(bytes) # <<>>, Lines(bytes)[1] = t,
         NEW target \in Seq(Nat), NEW protocol \in Seq(Nat), Found(t, target, protocol),
         SplitAt(t, 3, Len(target) + 3, target, Find(target, QUESTION, 1))
  PROVE  /\ protocol # HTTP => ParseRequest(bytes) = Failed
         /\ protocol = HTTP /\ Len(t) = Len(target) + Len(protocol) + 8 =>
               ParseRequest(bytes) = RequestIs(target, ParseFields(Tail(Lines(bytes))))
  <1> DEFINE m == Len(target)
             p == Len(protocol)
             k == Find(target, QUESTION, 1)
             q == QueryStart(t, 3, m + 3)
             lines == Lines(bytes)
             slash == m + p + 4
             end == m + 3
  <1>1. m \in Nat /\ p \in Nat
    BY LenProperties
  <1>2. /\ Find(t, SP, 1) = 2 /\ Find(t, SP, 3) = end /\ Find(t, SLASH, m + 4) = slash
        /\ Slice(t, 1, 2) = Method /\ Slice(t, 3, end) = target
        /\ Slice(t, m + 4, slash) = protocol
        /\ Slice(t, m + p + 5, m + p + 8) = V11
    BY Zenon DEF Found
  <1>3. IF k = 0 THEN q = 0
        ELSE q # 0 /\ Slice(t, 3, q) = Slice(target, 1, k) /\ Slice(t, q + 1, end) = From(target, k + 1)
    BY Zenon DEF SplitAt
  <1>4. lines # <<>> /\ lines[1] = t
    OBVIOUS
  <1> HIDE DEF m, p, k, lines
  <1>5. end # 0 /\ slash # 0 /\ 2 # 0 /\ 2 + 1 = 3 /\ end + 1 = m + 4 /\ slash + 1 = m + p + 5
    BY <1>1
  <1> HIDE DEF slash, end
  <1>6. /\ Find(lines[1], SP, 1) = 2 /\ Find(lines[1], SP, 2 + 1) = end
        /\ Find(lines[1], SLASH, end + 1) = slash /\ QueryStart(lines[1], 2 + 1, end) = q
        /\ Slice(lines[1], end + 1, slash) = protocol
    BY Zenon, <1>2, <1>4, <1>5 DEF q, end
  <1> HIDE DEF q
  <1>7. ASSUME protocol # HTTP
        PROVE  ParseRequest(bytes) = Failed
    BY Zenon, <1>6, <1>7 DEF ParseRequest, lines
  <1>8. ASSUME protocol = HTTP, Len(t) = m + p + 8
        PROVE  ParseRequest(bytes) = RequestIs(target, ParseFields(Tail(lines)))
    <2>1. ~(\/ lines = <<>> \/ 2 = 0 \/ end = 0 \/ slash = 0 \/ Slice(lines[1], end + 1, slash) # HTTP)
      BY Zenon, <1>4, <1>5, <1>6, <1>8
    <2>2. ParseRequest(bytes) =
            [ok |-> TRUE,
             method |-> Slice(lines[1], 1, 2),
             path |-> Slice(lines[1], 2 + 1, IF q = 0 THEN end ELSE q),
             query |-> IF q = 0 THEN <<>> ELSE Slice(lines[1], q + 1, end),
             version |-> Slice(lines[1], slash + 1, Len(lines[1])),
             header |-> ParseFields(Tail(lines))]
      BY Zenon, <1>6, <2>1 DEF ParseRequest, lines
    <2>3. Slice(lines[1], 1, 2) = Method
      BY Zenon, <1>2, <1>4
    <2>4. Slice(lines[1], 2 + 1, IF q = 0 THEN end ELSE q) = IF k = 0 THEN target ELSE Slice(target, 1, k)
      BY Zenon, <1>2, <1>3, <1>4, <1>5
    <2>5. (IF q = 0 THEN <<>> ELSE Slice(lines[1], q + 1, end))
            = IF k = 0 THEN <<>> ELSE From(target, k + 1)
      BY Zenon, <1>3, <1>4
    <2>6. Slice(lines[1], slash + 1, Len(lines[1])) = V11
      BY Zenon, <1>2, <1>4, <1>5, <1>8
    <2> QED
      BY Zenon, <2>2, <2>3, <2>4, <2>5, <2>6 DEF RequestIs, k
  <1> QED
    BY Zenon, <1>7, <1>8 DEF m, p, lines

\* A field that is read as it was written.
FieldText(n, v) == ((n \o <<COLON, SP>>) \o v) \o CRLF
Readable(n, v) ==
    /\ n \in Seq(Nat) /\ NoneIn(n, LF, 1, Len(n)) /\ NoneIn(n, COLON, 1, Len(n))
    /\ v \in Seq(Nat) /\ NoneIn(v, LF, 1, Len(v)) /\ (Len(v) = 0 \/ v[1] # SP)

LEMMA ReadableField ==
  ASSUME NEW n, NEW v, Readable(n, v)
  PROVE  /\ FieldText(n, v) \in Seq(Nat) /\ FieldBytes(n, v) \in Seq(Nat)
         /\ Field(FieldBytes(n, v)) = <<<<n, v>>>> /\ Find(FieldBytes(n, v), COLON, 1) # 0
         /\ \A rest \in Seq(Nat) :
                /\ Lines(FieldText(n, v) \o rest) = <<FieldBytes(n, v)>> \o Lines(rest)
                /\ Lines(rest) \in Seq(Seq(Nat))
  <1>1. /\ n \in Seq(Nat) /\ NoneIn(n, LF, 1, Len(n)) /\ NoneIn(n, COLON, 1, Len(n))
        /\ v \in Seq(Nat) /\ NoneIn(v, LF, 1, Len(v)) /\ (Len(v) = 0 \/ v[1] # SP)
    BY Zenon DEF Readable
  <1>2. \A i \in 1..Len(n) : n[i] # COLON
    BY Zenon, <1>1 DEF NoneIn
  <1>3. /\ Find(FieldBytes(n, v), COLON, 1) = Len(n) + 1
        /\ Field(FieldBytes(n, v)) = <<<<n, From(v, FirstNonBlank(v))>>>>
    BY Zenon, <1>1, <1>2, FieldIs
  <1>4. From(v, FirstNonBlank(v)) = v
    BY Zenon, <1>1, WholeValue
  <1>5. Len(n) + 1 # 0
    BY <1>1, LenProperties
  <1>6. ASSUME NEW rest \in Seq(Nat)
        PROVE  /\ Lines(FieldText(n, v) \o rest) = <<FieldBytes(n, v)>> \o Lines(rest)
               /\ Lines(rest) \in Seq(Seq(Nat))
               /\ FieldText(n, v) \in Seq(Nat) /\ FieldBytes(n, v) \in Seq(Nat)
    <2>1. ReadsField(n, v, rest)
      BY <1>1, LinesOfField
    <2> QED
      BY Zenon, <2>1 DEF ReadsField, FieldText
  <1>7. <<>> \in Seq(Nat)
    BY EmptySeq
  <1> QED
    BY Zenon, <1>3, <1>4, <1>5, <1>6, <1>7

LEMMA OneAndTwo ==
  ASSUME NEW a, NEW b, NEW c
  PROVE  (<<a>> \o <<b>>) \o <<c>> = <<a, b, c>>
  <1> DEFINE S == {a, b, c}
             x == <<a>>
             y == <<b>>
             z == <<c>>
             t == x \o y
             u == t \o z
             v == <<a, b, c>>
  <1>1. /\ x \in Seq(S) /\ Len(x) = 1 /\ x[1] = a
        /\ y \in Seq(S) /\ Len(y) = 1 /\ y[1] = b
        /\ z \in Seq(S) /\ Len(z) = 1 /\ z[1] = c
    OBVIOUS
  <1>2. v \in Seq(S) /\ Len(v) = 3 /\ v[1] = a /\ v[2] = b /\ v[3] = c
    OBVIOUS
  <1> HIDE DEF x, y, z, S, v
  <1>3. t \in Seq(S) /\ Behind(t, x, y)
    BY <1>1, Joining
  <1> HIDE DEF t
  <1>4. u \in Seq(S) /\ Behind(u, t, z)
    BY <1>1, <1>3, Joining
  <1> HIDE DEF u
  <1>5. /\ Len(t) = 1 + 1 /\ (\A i \in 1..1 : t[i] = x[i]) /\ \A i \in 1..1 : t[1 + i] = y[i]
    BY Zenon, <1>1, <1>3 DEF Behind
  <1>6. Len(t) = 2 /\ t[1] = a /\ t[2] = b
    <2>1. 1 \in 1..1 /\ 1 + 1 = 2
      OBVIOUS
    <2> QED
      BY Zenon, <1>1, <1>5, <2>1
  <1>7. /\ Len(u) = 2 + 1 /\ (\A i \in 1..2 : u[i] = t[i]) /\ \A i \in 1..1 : u[2 + i] = z[i]
    BY Zenon, <1>1, <1>4, <1>6 DEF Behind
  <1>8. Len(u) = 3 /\ u[1] = a /\ u[2] = b /\ u[3] = c
    <2>1. 1 \in 1..1 /\ 1 \in 1..2 /\ 2 \in 1..2 /\ 2 + 1 = 3
      OBVIOUS
    <2> QED
      BY Zenon, <1>1, <1>6, <1>7, <2>1
  <1>9. \A i \in 1..Len(u) : u[i] = v[i]
    <2>1. \A i \in 1..3 : i = 1 \/ i = 2 \/ i = 3
      OBVIOUS
    <2> QED
      BY Zenon, <1>2, <1>8, <2>1
  <1>10. u = v
    BY <1>2, <1>4, <1>8, <1>9, SeqEqual
  <1> QED
    BY Zenon, <1>10 DEF u, t, x, y, z, v

\* Three fields, a with its value x and so on: what is written, and what it is read as.
ThreeLines(a, x, b, y, c, z) ==
    <<FieldBytes(a, x)>> \o (<<FieldBytes(b, y)>> \o (<<FieldBytes(c, z)>> \o <<<<CR>>>>))

ThreeFields(a, x, b, y, c, z) == <<<<a, x>>, <<b, y>>, <<c, z>>>>

LEMMA ThreeFieldLines ==
  ASSUME NEW a, NEW x, NEW b, NEW y, NEW c, NEW z
  PROVE  FieldLines(ThreeFields(a, x, b, y, c, z)) =
            (FieldText(a, x) \o FieldText(b, y)) \o FieldText(c, z)
  <1> DEFINE A == <<a, x>>
             B == <<b, y>>
             C == <<c, z>>
             fields == <<A, B, C>>
             g(f) == f[1] \o <<COLON, SP>> \o f[2] \o CRLF
             s == [i \in DOMAIN fields |-> g(fields[i])]
  <1>1. A[1] = a /\ A[2] = x /\ B[1] = b /\ B[2] = y /\ C[1] = c /\ C[2] = z
    OBVIOUS
  <1>2. g(A) = FieldText(a, x) /\ g(B) = FieldText(b, y) /\ g(C) = FieldText(c, z)
    <2> HIDE DEF A, B, C
    <2> QED
      BY Zenon, <1>1 DEF FieldText
  <1> HIDE DEF A, B, C
  <1>3. DOMAIN fields = 1..3 /\ fields[1] = A /\ fields[2] = B /\ fields[3] = C
    OBVIOUS
  <1>4. FieldLines(fields) = FlattenSeq(s)
    BY Zenon DEF FieldLines
  <1> HIDE DEF fields, g
  <1>5. s = [i \in 1..3 |-> g(fields[i])]
    BY Zenon, <1>3
  <1>6. Len(s) = 3
    <2>1. Len([i \in 1..3 |-> g(fields[i])]) = 3
      OBVIOUS
    <2> QED
      BY Zenon, <1>5, <2>1
  <1>7. s[1] = g(A) /\ s[2] = g(B) /\ s[3] = g(C)
    <2>1. 1 \in DOMAIN fields /\ 2 \in DOMAIN fields /\ 3 \in DOMAIN fields
      BY <1>3
    <2> QED
      BY Zenon, <1>3, <2>1
  <1> HIDE DEF s
  <1>8. FlattenSeq(s) = (s[1] \o s[2]) \o s[3]
    BY Zenon, <1>6, FlattenThree
  <1> QED
    BY Zenon, <1>2, <1>4, <1>7, <1>8 DEF ThreeFields, fields, A, B, C

LEMMA ThreeFieldsRead ==
  ASSUME NEW a, NEW x, NEW b, NEW y, NEW c, NEW z, Readable(a, x), Readable(b, y), Readable(c, z)
  PROVE  /\ Lines(((FieldText(a, x) \o FieldText(b, y)) \o FieldText(c, z)) \o CRLF)
               = ThreeLines(a, x, b, y, c, z)
         /\ (FieldText(a, x) \o FieldText(b, y)) \o FieldText(c, z) \in Seq(Nat)
  <1> DEFINE s == FieldText(a, x)
             t == FieldText(b, y)
             u == FieldText(c, z)
             uc == u \o CRLF
             tuc == t \o uc
             st == s \o t
             stu == st \o u
  <1>1. CRLF \in Seq(Nat)
    BY DEF CRLF, CR, LF
  <1>2. /\ s \in Seq(Nat) /\ t \in Seq(Nat) /\ u \in Seq(Nat)
        /\ \A rest \in Seq(Nat) : Lines(s \o rest) = <<FieldBytes(a, x)>> \o Lines(rest)
        /\ \A rest \in Seq(Nat) : Lines(t \o rest) = <<FieldBytes(b, y)>> \o Lines(rest)
        /\ \A rest \in Seq(Nat) : Lines(u \o rest) = <<FieldBytes(c, z)>> \o Lines(rest)
    BY Zenon, ReadableField
  <1> HIDE DEF s, t, u
  <1>3. uc \in Seq(Nat)
    BY <1>1, <1>2, ConcatProperties
  <1>4. st \in Seq(Nat)
    BY <1>1, <1>2, ConcatProperties
  <1> HIDE DEF uc, st
  <1>5. tuc \in Seq(Nat)
    BY <1>2, <1>3, ConcatProperties
  <1>6. stu \in Seq(Nat)
    BY <1>2, <1>4, ConcatProperties
  <1>7. Associated(st, u, CRLF) /\ Associated(s, t, uc)
    BY <1>1, <1>2, <1>3, <1>4, Assoc
  <1>8. stu \o CRLF = s \o tuc
    BY Zenon, <1>7 DEF Associated, uc, st
  <1> HIDE DEF tuc, stu
  <1>9. Lines(s \o tuc) = <<FieldBytes(a, x)>> \o Lines(tuc)
    BY Zenon, <1>2, <1>5
  <1>10. Lines(tuc) = <<FieldBytes(b, y)>> \o Lines(uc)
    BY Zenon, <1>2, <1>3 DEF tuc
  <1>11. Lines(uc) = <<FieldBytes(c, z)>> \o <<<<CR>>>>
    BY Zenon, <1>1, <1>2, LinesOfEmptyLine DEF uc
  <1> QED
    BY Zenon, <1>6, <1>8, <1>9, <1>10, <1>11 DEF ThreeLines, stu, st, s, t, u

LEMMA ThreeFieldsParsed ==
  ASSUME NEW a, NEW x, NEW b, NEW y, NEW c, NEW z, Readable(a, x), Readable(b, y), Readable(c, z)
  PROVE  /\ ThreeLines(a, x, b, y, c, z) \in Seq(Seq(Nat))
         /\ ParseFields(ThreeLines(a, x, b, y, c, z)) = ThreeFields(a, x, b, y, c, z)
  <1> DEFINE A == <<a, x>>
             B == <<b, y>>
             C == <<c, z>>
             s == FieldBytes(a, x)
             t == FieldBytes(b, y)
             u == FieldBytes(c, z)
             r == <<CR>>
             one == <<r>>
             two == <<u>> \o one
             three == <<t>> \o two
             lines == <<s>> \o three
  <1>1. /\ s \in Seq(Nat) /\ Field(s) = <<A>> /\ Find(s, COLON, 1) # 0
        /\ t \in Seq(Nat) /\ Field(t) = <<B>> /\ Find(t, COLON, 1) # 0
        /\ u \in Seq(Nat) /\ Field(u) = <<C>> /\ Find(u, COLON, 1) # 0
    BY Zenon, ReadableField
  <1>2. r \in Seq(Nat) /\ Find(r, COLON, 1) = 0
    <2>1. r \in Seq(Nat)
      BY DEF CR
    <2> QED
      BY Zenon, <2>1, NoColon
  <1>3. lines = ThreeLines(a, x, b, y, c, z)
    BY Zenon DEF ThreeLines
  <1> HIDE DEF A, B, C, s, t, u, r
  <1>4. one \in Seq(Seq(Nat)) /\ Len(one) = 1 /\ one[1] = r
    BY <1>2
  <1> HIDE DEF one
  <1>5. two \in Seq(Seq(Nat)) /\ Begins(two, u, one)
    BY <1>1, <1>4, TailBehind
  <1> HIDE DEF two
  <1>6. three \in Seq(Seq(Nat)) /\ Begins(three, t, two)
    BY <1>1, <1>5, TailBehind
  <1> HIDE DEF three
  <1>7. lines \in Seq(Seq(Nat)) /\ Begins(lines, s, three)
    BY <1>1, <1>6, TailBehind
  <1> HIDE DEF lines
  <1>8. /\ two[1] = u /\ Len(two) = Len(one) + 1 /\ \A i \in 1..Len(one) : two[i + 1] = one[i]
        /\ three[1] = t /\ Len(three) = Len(two) + 1 /\ \A i \in 1..Len(two) : three[i + 1] = two[i]
        /\ lines[1] = s /\ Len(lines) = Len(three) + 1
        /\ \A i \in 1..Len(three) : lines[i + 1] = three[i]
    BY Zenon, <1>5, <1>6, <1>7 DEF Begins
  <1>9. Len(two) = 2 /\ Len(three) = 3 /\ Len(lines) = 4
    BY <1>4, <1>8
  <1>10. /\ 1 \in 1..1 /\ 1 \in 1..2 /\ 2 \in 1..2 /\ 1 \in 1..3 /\ 2 \in 1..3 /\ 3 \in 1..3
         /\ 1 + 1 = 2 /\ 2 + 1 = 3 /\ 3 + 1 = 4
    OBVIOUS
  <1>11. two[2] = r
    BY Zenon, <1>4, <1>8, <1>10
  <1>12. three[2] = u /\ three[3] = r
    BY Zenon, <1>8, <1>9, <1>10, <1>11
  <1>13. lines[2] = t /\ lines[3] = u /\ lines[4] = r
    BY Zenon, <1>8, <1>9, <1>10, <1>12
  <1> DEFINE fields == SubSeq(lines, 1, 3)
             parsed == [i \in DOMAIN fields |-> Field(fields[i])]
  <1>14. fields \in Seq(Seq(Nat)) /\ Len(fields) = 3 /\ \A i \in 1..3 : fields[i] = lines[i]
    <2>0. \A i \in 1..3 : i = 1 \/ i = 2 \/ i = 3
      OBVIOUS
    <2>1. \A i \in 1..3 : lines[i] \in Seq(Nat)
      BY Zenon, <1>1, <1>8, <1>13, <2>0
    <2> QED
      BY <2>1, SubSeqProperties
  <1>15. DOMAIN fields = 1..3
    BY <1>14, LenProperties
  <1>16. ParseFields(lines) = FlattenSeq(parsed)
    <2>1. \A i \in 1..3 : i = 1 \/ i = 2 \/ i = 3
      OBVIOUS
    <2>2. \A i \in 1..3 : Find(lines[i], COLON, 1) # 0
      BY Zenon, <1>1, <1>8, <1>13, <2>1
    <2>3. Find(lines[3 + 1], COLON, 1) = 0
      BY Zenon, <1>2, <1>10, <1>13
    <2>4. Len(lines) = 3 + 1 /\ 3 \in Nat
      BY <1>9
    <2> QED
      BY Zenon, <2>2, <2>3, <2>4, FieldsUpTo
  <1> HIDE DEF fields
  <1>17. parsed[1] = <<A>> /\ parsed[2] = <<B>> /\ parsed[3] = <<C>>
    <2>1. fields[1] = s /\ fields[2] = t /\ fields[3] = u
      BY Zenon, <1>8, <1>10, <1>13, <1>14
    <2>2. 1 \in DOMAIN fields /\ 2 \in DOMAIN fields /\ 3 \in DOMAIN fields
      BY <1>15
    <2> QED
      BY Zenon, <1>1, <2>1, <2>2
  <1>18. Len(parsed) = 3
    <2> DEFINE g(i) == Field(fields[i])
    <2>1. parsed = [i \in 1..3 |-> g(i)]
      BY Zenon, <1>15
    <2> HIDE DEF g
    <2>2. Len([i \in 1..3 |-> g(i)]) = 3
      OBVIOUS
    <2> QED
      BY Zenon, <2>1, <2>2
  <1> HIDE DEF parsed
  <1>19. FlattenSeq(parsed) = (<<A>> \o <<B>>) \o <<C>>
    BY Zenon, <1>17, <1>18, FlattenThree
  <1>20. (<<A>> \o <<B>>) \o <<C>> = <<A, B, C>>
    BY Zenon, OneAndTwo
  <1> QED
    BY Zenon, <1>3, <1>7, <1>16, <1>19, <1>20 DEF ThreeFields, A, B, C

LEMMA OneBeforeTwo ==
  ASSUME NEW a, NEW b, NEW c
  PROVE  <<a>> \o <<b, c>> = <<a, b, c>>
  <1> DEFINE S == {a, b, c}
             x == <<a>>
             y == <<b, c>>
             t == x \o y
             v == <<a, b, c>>
  <1>1. /\ x \in Seq(S) /\ Len(x) = 1 /\ x[1] = a
        /\ y \in Seq(S) /\ Len(y) = 2 /\ y[1] = b /\ y[2] = c
    OBVIOUS
  <1>2. v \in Seq(S) /\ Len(v) = 3 /\ v[1] = a /\ v[2] = b /\ v[3] = c
    OBVIOUS
  <1> HIDE DEF x, y, S, v
  <1>3. t \in Seq(S) /\ Behind(t, x, y)
    BY <1>1, Joining
  <1> HIDE DEF t
  <1>4. /\ Len(t) = 1 + 2 /\ (\A i \in 1..1 : t[i] = x[i]) /\ \A i \in 1..2 : t[1 + i] = y[i]
    BY Zenon, <1>1, <1>3 DEF Behind
  <1>5. Len(t) = 3 /\ t[1] = a /\ t[2] = b /\ t[3] = c
    <2>1. 1 \in 1..1 /\ 1 \in 1..2 /\ 2 \in 1..2 /\ 1 + 2 = 3 /\ 1 + 1 = 2
      OBVIOUS
    <2> QED
      BY Zenon, <1>1, <1>4, <2>1
  <1>6. \A i \in 1..Len(t) : t[i] = v[i]
    <2>1. \A i \in 1..3 : i = 1 \/ i = 2 \/ i = 3
      OBVIOUS
    <2> QED
      BY Zenon, <1>2, <1>5, <2>1
  <1>7. t = v
    BY <1>2, <1>3, <1>5, <1>6, SeqEqual
  <1> QED
    BY Zenon, <1>7 DEF t, x, y, v

\* The first line of a request has no LF if its parts have none.
LEMMA NoLineEnd ==
  ASSUME NEW target, NEW protocol, NEW rest, NEW t, RequestParts(t, target, protocol),
         Len(target) \in Nat, Len(protocol) \in Nat, Len(rest) \in Nat,
         Len(t) = Len(target) + Len(protocol) + 7 + Len(rest),
         PartAt(t, Len(target) + Len(protocol) + 8, rest),
         NoneIn(target, LF, 1, Len(target)), NoneIn(protocol, LF, 1, Len(protocol)),
         NoneIn(rest, LF, 1, Len(rest))
  PROVE  NoneIn(t, LF, 1, Len(t))
  <1> DEFINE m == Len(target)
             p == Len(protocol)
             q == Len(rest)
             n == Len(t)
  <1>1. m \in Nat /\ p \in Nat /\ q \in Nat /\ n = m + p + 7 + q
    OBVIOUS
  <1>2. /\ t[1] = 71 /\ t[2] = SP /\ PartAt(t, 3, target)
        /\ t[m + 3] = SP /\ PartAt(t, m + 4, protocol)
        /\ t[m + p + 4] = SLASH
        /\ PartAt(t, m + p + 5, V11)
    BY Zenon DEF RequestParts
  <1>3. NoneIn(t, LF, 3, 3 + m - 1)
    BY <1>1, <1>2, NoneInPart
  <1>4. NoneIn(t, LF, m + 4, m + 4 + p - 1)
    BY <1>1, <1>2, NoneInPart
  <1>5. NoneIn(t, LF, m + p + 5, m + p + 5 + Len(V11) - 1) /\ Len(V11) = 3
    <2>1. Len(V11) = 3 /\ NoneIn(V11, LF, 1, Len(V11))
      BY DEF V11, LF, NoneIn
    <2>2. m + p + 5 \in Nat /\ Len(V11) \in Nat
      BY <1>1, <2>1
    <2>3. PartAt(t, m + p + 5, V11)
      BY Zenon, <1>2
    <2> HIDE DEF m, p
    <2> QED
      BY Zenon, <2>1, <2>2, <2>3, NoneInPart
  <1>6. NoneIn(t, LF, m + p + 8, m + p + 8 + q - 1)
    BY <1>1, NoneInPart
  <1> HIDE DEF m, p, q, n
  <1>7. t[1] # LF /\ t[2] # LF /\ t[m + 3] # LF /\ t[m + p + 4] # LF
    <2>1. 71 # LF /\ SP # LF /\ SLASH # LF
      BY DEF SP, LF, SLASH
    <2> QED
      BY Zenon, <1>2, <2>1
  <1>8. ASSUME NEW i \in 1..n
        PROVE  t[i] # LF
    <2>1. \/ i = 1 \/ i = 2 \/ i \in 3..3 + m - 1 \/ i = m + 3 \/ i \in m + 4..m + 4 + p - 1
          \/ i = m + p + 4 \/ i \in m + p + 5..m + p + 5 + 3 - 1
          \/ i \in m + p + 8..m + p + 8 + q - 1
      BY <1>1
    <2> QED
      BY Zenon, <1>3, <1>4, <1>5, <1>6, <1>7, <2>1 DEF NoneIn
  <1> QED
    BY Zenon, <1>8 DEF NoneIn, n

\* What the server makes of a request, and of one for a protocol that is not HTTP.
LEMMA RequestParsed ==
  ASSUME NEW target \in Seq(Nat), NoneIn(target, SP, 1, Len(target)), NoneIn(target, LF, 1, Len(target)),
         NEW fields \in Seq(Nat), NEW lines \in Seq(Seq(Nat)), Lines(fields \o CRLF) = lines
  PROVE  ParseRequest(((RequestStart(target, HTTP) \o CRLF) \o fields) \o CRLF)
            = RequestIs(target, ParseFields(lines))
  <1> DEFINE h == RequestStart(target, HTTP)
             cr == <<CR>>
             t == h \o cr
             rest == fields \o CRLF
             after == <<LF>> \o rest
             bytes == ((h \o CRLF) \o fields) \o CRLF
             m == Len(target)
  <1>1. /\ HTTP \in Seq(Nat) /\ Len(HTTP) = 4 /\ NoneIn(HTTP, SLASH, 1, Len(HTTP))
        /\ NoneIn(HTTP, LF, 1, Len(HTTP))
    BY DEF HTTP, SLASH, LF, NoneIn
  <1>2. cr \in Seq(Nat) /\ Len(cr) = 1 /\ NoneIn(cr, LF, 1, Len(cr)) /\ CRLF \in Seq(Nat) /\ LF \in Nat
    BY DEF CR, LF, CRLF, NoneIn
  <1> HIDE DEF cr
  <1>3. /\ t \in Seq(Nat) /\ Len(t) = m + Len(HTTP) + 7 + Len(cr)
        /\ RequestParts(t, target, HTTP) /\ PartAt(t, m + Len(HTTP) + 8, cr) /\ h \in Seq(Nat)
    <2>1. Requested(t, target, HTTP, cr)
      BY Zenon, <1>1, <1>2, RequestStartIs
    <2> QED
      BY Zenon, <2>1 DEF Requested
  <1> HIDE DEF h, t
  <1>4. m \in Nat /\ Len(HTTP) \in Nat /\ Len(cr) \in Nat
    BY <1>1, <1>2, LenProperties
  <1>5. NoneIn(t, LF, 1, Len(t))
    BY Zenon, <1>1, <1>2, <1>3, <1>4, NoLineEnd
  <1>6. Found(t, target, HTTP)
    <2>1. Len(t) >= m + Len(HTTP) + 7
      BY <1>2, <1>3, <1>4
    <2> QED
      BY Zenon, <1>1, <1>3, <2>1, RequestFinds
  <1>7. SplitAt(t, 3, m + 3, target, Find(target, QUESTION, 1))
    <2>1. m + 3 <= Len(t) /\ PartAt(t, 3, target)
      <3>1. PartAt(t, 3, target)
        BY Zenon, <1>3 DEF RequestParts
      <3> HIDE DEF m
      <3> QED
        BY <1>2, <1>3, <1>4, <3>1
    <2> QED
      BY Zenon, <1>3, <2>1, TargetSplit
  <1>8. rest \in Seq(Nat)
    BY <1>2, ConcatProperties
  <1>9. bytes = t \o after
    <2>1. Regrouped(h, fields, CRLF)
      BY <1>2, <1>3, Regroup
    <2> QED
      BY Zenon, <2>1 DEF Regrouped, t, cr
  <1> HIDE DEF rest, bytes
  <1>10. Lines(bytes) = <<t>> \o lines
    <2>1. \A i \in 1..Len(t) : t[i] # LF
      BY Zenon, <1>5 DEF NoneIn
    <2>2. Lines(t \o (<<LF>> \o rest)) = <<t>> \o Lines(rest)
      BY <1>2, <1>3, <1>8, <2>1, FirstLine
    <2> QED
      BY Zenon, <1>9, <2>2 DEF rest
  <1> HIDE DEF after
  <1>11. Lines(bytes) # <<>> /\ Lines(bytes)[1] = t /\ Tail(Lines(bytes)) = lines
    <2> DEFINE all == <<t>> \o lines
    <2>1. Begins(all, t, lines)
      BY <1>3, TailBehind
    <2> QED
      BY Zenon, <1>10, <2>1 DEF Begins
  <1>12. Len(t) = m + Len(HTTP) + 8
    <2> HIDE DEF m
    <2> QED
      BY <1>2, <1>3, <1>4
  <1>13. ParseRequest(bytes) = RequestIs(target, ParseFields(Tail(Lines(bytes))))
    BY Zenon, <1>1, <1>6, <1>7, <1>11, <1>12, RequestRead DEF m
  <1> QED
    BY Zenon, <1>11, <1>13 DEF bytes, h

LEMMA OtherProtocolRefused ==
  ASSUME NEW target \in Seq(Nat), NoneIn(target, SP, 1, Len(target)), NoneIn(target, LF, 1, Len(target)),
         NEW protocol \in Seq(Nat), NoneIn(protocol, SLASH, 1, Len(protocol)),
         NoneIn(protocol, LF, 1, Len(protocol)), protocol # HTTP
  PROVE  ParseRequest(RequestStart(target, protocol)) = Failed
  <1> DEFINE t == RequestStart(target, protocol)
             none == <<>>
             m == Len(target)
             p == Len(protocol)
  <1>1. none \in Seq(Nat) /\ Len(none) = 0 /\ NoneIn(none, LF, 1, Len(none))
    BY EmptySeq DEF NoneIn
  <1>2. m \in Nat /\ p \in Nat /\ Len(none) \in Nat
    BY <1>1, LenProperties
  <1>3. t \in Seq(Nat)
    <2>1. Requested(t \o none, target, protocol, none)
      BY Zenon, <1>1, RequestStartIs
    <2> QED
      BY Zenon, <2>1 DEF Requested
  <1>4. t \o none = t
    <2> HIDE DEF t
    <2> QED
      BY <1>3, ConcatEmptySeq
  <1> HIDE DEF none
  <1>5. /\ Len(t) = m + p + 7 + Len(none) /\ RequestParts(t, target, protocol)
        /\ PartAt(t, m + p + 8, none)
    <2>1. Requested(t \o none, target, protocol, none)
      BY Zenon, <1>1, RequestStartIs
    <2> QED
      BY Zenon, <1>4, <2>1 DEF Requested
  <1> HIDE DEF t
  <1>6. NoneIn(t, LF, 1, Len(t))
    BY Zenon, <1>1, <1>2, <1>5, NoLineEnd
  <1>7. t # <<>> /\ Len(t) >= m + p + 7
    <2> HIDE DEF m, p
    <2> QED
      BY <1>1, <1>2, <1>3, <1>5, LenProperties, EmptySeq
  <1>8. Found(t, target, protocol)
    BY Zenon, <1>3, <1>5, <1>7, RequestFinds
  <1>9. SplitAt(t, 3, m + 3, target, Find(target, QUESTION, 1))
    <2>1. PartAt(t, 3, target)
      BY Zenon, <1>5 DEF RequestParts
    <2>2. m + 3 <= Len(t)
      <3> HIDE DEF m, p
      <3> QED
        BY <1>1, <1>2, <1>5
    <2> QED
      BY Zenon, <1>3, <2>1, <2>2, TargetSplit
  <1>10. Lines(t) = Append(<<>>, t)
    BY Zenon, <1>3, <1>6, <1>7, OneLine
  <1>11. Lines(t) # <<>> /\ Lines(t)[1] = t
    <2>1. Append(<<>>, t) = <<t>> /\ <<t>> # <<>> /\ <<t>>[1] = t
      OBVIOUS
    <2> QED
      BY Zenon, <1>10, <2>1
  <1> QED
    BY Zenon, <1>8, <1>9, <1>11, RequestRead DEF t

\* Whatever its path and query, the server reads a request as the client wrote it, and
\* refuses one for another protocol.
THEOREM ServerAlwaysReadsRequest == MessageSpec => []ServerReadsRequest
  <1>1. TextTyped => ServerReadsRequest
    <2> DEFINE target == IF text = <<>> THEN <<SLASH>> ELSE text
               question == Find(target, QUESTION, 1)
               value == <<121, COLON>>
               none == <<>>
               fields == <<<<FieldName, value>>, <<FieldName, none>>>>
               all == <<<<Host, HostName>>>> \o fields
               request == ParseRequest(RequestHeader(Method, text, HostName, fields))
               other == ParseRequest(Method \o <<SP>> \o target \o <<SP>> \o Tail(HTTP) \o <<SLASH>> \o V11)
    <2> SUFFICES ASSUME TextTyped, kind = "target"
                 PROVE  /\ request.ok
                        /\ request.method = Method /\ request.version = V11
                        /\ IF question = 0 THEN request.path = target /\ request.query = <<>>
                           ELSE /\ request.path = Slice(target, 1, question)
                                /\ request.query = From(target, question + 1)
                        /\ request.header = all
                        /\ ~other.ok
      BY Zenon DEF ServerReadsRequest
    <2>1. target \in Seq(Nat) /\ NoneIn(target, SP, 1, Len(target)) /\ NoneIn(target, LF, 1, Len(target))
      <3>1. Parts["target"] \subseteq 0 .. 255 \ {SP, CR, LF} /\ text \in Seq(Parts["target"])
        BY Zenon, PartsAssumption DEF TextTyped
      <3>2. <<SLASH>> \in Seq(0 .. 255 \ {SP, CR, LF})
        BY DEF SLASH, SP, CR, LF
      <3>3. text \in Seq(0 .. 255 \ {SP, CR, LF})
        BY <3>1, SeqMonotonic
      <3>4. target \in Seq(0 .. 255 \ {SP, CR, LF})
        BY Zenon, <3>2, <3>3
      <3> HIDE DEF target
      <3>5. \A i \in 1..Len(target) : target[i] \in 0 .. 255 \ {SP, CR, LF}
        BY <3>4, ElementOfSeq
      <3>6. 0 .. 255 \ {SP, CR, LF} \subseteq Nat
        OBVIOUS
      <3>7. target \in Seq(Nat)
        BY <3>4, <3>6, SeqMonotonic
      <3> QED
        BY <3>5, <3>7 DEF NoneIn
    <2> DEFINE text1 == FieldText(Host, HostName)
               text2 == FieldText(FieldName, value)
               text3 == FieldText(FieldName, none)
               written == (text1 \o text2) \o text3
               lines == ThreeLines(Host, HostName, FieldName, value, FieldName, none)
    <2>2. Readable(Host, HostName)
      <3>1. /\ Host \in Seq(Nat) /\ NoneIn(Host, LF, 1, Len(Host)) /\ NoneIn(Host, COLON, 1, Len(Host))
        BY DEF Host, NoneIn, LF, COLON
      <3>2. /\ HostName \in Seq(Nat) /\ NoneIn(HostName, LF, 1, Len(HostName))
            /\ HostName[1] # SP
        BY DEF HostName, NoneIn, LF, COLON, SP
      <3> QED
        BY Zenon, <3>1, <3>2 DEF Readable
    <2>3. /\ FieldName \in Seq(Nat) /\ NoneIn(FieldName, LF, 1, Len(FieldName))
          /\ NoneIn(FieldName, COLON, 1, Len(FieldName))
      BY DEF FieldName, NoneIn, LF, COLON
    <2>4. Readable(FieldName, value)
      <3>1. value \in Seq(Nat) /\ NoneIn(value, LF, 1, Len(value)) /\ value[1] # SP
        BY DEF NoneIn, LF, COLON, SP
      <3> QED
        BY Zenon, <2>3, <3>1 DEF Readable
    <2>5. Readable(FieldName, none)
      <3>1. none \in Seq(Nat) /\ NoneIn(none, LF, 1, Len(none)) /\ Len(none) = 0
        BY EmptySeq DEF NoneIn
      <3> QED
        BY Zenon, <2>3, <3>1 DEF Readable
    <2> HIDE DEF value, none
    <2>6. all = ThreeFields(Host, HostName, FieldName, value, FieldName, none)
      BY Zenon, OneBeforeTwo DEF ThreeFields
    <2> HIDE DEF all
    <2>7. FieldLines(all) = written
      <3>1. FieldLines(ThreeFields(Host, HostName, FieldName, value, FieldName, none)) = written
        <4> HIDE DEF fields, request, other, target, question
        <4> QED
          BY ThreeFieldLines
      <3> QED
        BY Zenon, <2>6, <3>1
    <2>8. Lines(written \o CRLF) = lines /\ written \in Seq(Nat)
      BY Zenon, <2>2, <2>4, <2>5, ThreeFieldsRead
    <2>9. lines \in Seq(Seq(Nat)) /\ ParseFields(lines) = all
      <3>1. /\ lines \in Seq(Seq(Nat))
            /\ ParseFields(lines) = ThreeFields(Host, HostName, FieldName, value, FieldName, none)
        BY Zenon, <2>2, <2>4, <2>5, ThreeFieldsParsed
      <3> QED
        BY Zenon, <2>6, <3>1
    <2>10. RequestHeader(Method, text, HostName, fields)
              = ((RequestStart(target, HTTP) \o CRLF) \o FieldLines(all)) \o CRLF
      BY Zenon DEF RequestHeader, RequestStart, CorrectedPath, all
    <2> HIDE DEF fields
    <2> HIDE DEF target, written, lines
    <2>11. request = RequestIs(target, all)
      <3>1. ParseRequest(((RequestStart(target, HTTP) \o CRLF) \o written) \o CRLF)
              = RequestIs(target, ParseFields(lines))
        BY <2>1, <2>8, <2>9, RequestParsed
      <3> QED
        BY Zenon, <2>7, <2>9, <2>10, <3>1
    <2>12. other = Failed
      <3> DEFINE protocol == Tail(HTTP)
      <3>1. /\ protocol \in Seq(Nat) /\ NoneIn(protocol, SLASH, 1, Len(protocol))
            /\ NoneIn(protocol, LF, 1, Len(protocol)) /\ protocol # HTTP
        <4>1. protocol = <<84, 84, 80>>
          BY DEF HTTP
        <4>2. LET p == <<84, 84, 80>>
              IN  p \in Seq(Nat) /\ NoneIn(p, SLASH, 1, Len(p)) /\ NoneIn(p, LF, 1, Len(p)) /\ p # HTTP
          BY DEF HTTP, NoneIn, SLASH, LF
        <4> QED
          BY Zenon, <4>1, <4>2
      <3>2. other = ParseRequest(RequestStart(target, protocol))
        BY Zenon DEF RequestStart
      <3> HIDE DEF protocol
      <3>3. ParseRequest(RequestStart(target, protocol)) = Failed
        BY Zenon, <2>1, <3>1, OtherProtocolRefused
      <3> QED
        BY Zenon, <3>2, <3>3
    <2>13. ~other.ok
      BY <2>12 DEF Failed
    <2> HIDE DEF request, other
    <2>14. /\ request.ok /\ request.method = Method /\ request.version = V11 /\ request.header = all
           /\ request.path = IF question = 0 THEN target ELSE Slice(target, 1, question)
           /\ request.query = IF question = 0 THEN <<>> ELSE From(target, question + 1)
      BY <2>11 DEF RequestIs
    <2> QED
      BY Zenon, <2>13, <2>14
  <1> QED
    BY <1>1, AlwaysTyped, PTL

-----------------------------------------------------------------------------
(* Messages: what has been encoded is decoded.                            *)

\* The function that Decode computes, from the identity on positions: what has
\* been decoded after some of the characters.
Decodes(f, t, id, S) ==
    f = [s \in SUBSET S |-> IF s = {} THEN NotDecoded ELSE DecodeNext(t, f[s \ {Max(s)}], id[Max(s)])]

\* There is such a function on any interval.
LEMMA DecodingsExist ==
  ASSUME NEW t, NEW id, NEW n \in Nat
  PROVE  \E f : Decodes(f, t, id, 1..n)
  <1> DEFINE D == {m \in 0..n : \E f : Decodes(f, t, id, 1..m)}
  <1>1. 0 \in D
    <2> DEFINE f == [s \in SUBSET (1..0) |-> NotDecoded]
    <2>1. \A s \in SUBSET (1..0) : s = {}
      OBVIOUS
    <2>2. f = [s \in SUBSET (1..0) |-> IF s = {} THEN NotDecoded ELSE DecodeNext(t, f[s \ {Max(s)}], id[Max(s)])]
      BY <2>1
    <2> HIDE DEF f
    <2>3. Decodes(f, t, id, 1..0)
      BY Zenon, <2>2 DEF Decodes
    <2> QED
      BY <2>3
  <1>2. ASSUME NEW m \in 0..n - 1, m \in D
        PROVE  m + 1 \in D
    <2>1. PICK f : Decodes(f, t, id, 1..m)
      BY <1>2
    <2> DEFINE g == [s \in SUBSET (1..m + 1) |->
                        IF m + 1 \in s THEN DecodeNext(t, f[s \ {m + 1}], id[m + 1]) ELSE f[s]]
    <2>2. ASSUME NEW s \in SUBSET (1..m + 1)
          PROVE  g[s] = IF s = {} THEN NotDecoded ELSE DecodeNext(t, g[s \ {Max(s)}], id[Max(s)])
      <3>1. CASE m + 1 \in s
        <4>1. Max(s) = m + 1
          <5>1. m + 1 \in Nat /\ s \subseteq 1..m + 1
            OBVIOUS
          <5> QED
            BY <3>1, <5>1, MaxIs
        <4>2. g[s \ {m + 1}] = f[s \ {m + 1}]
          OBVIOUS
        <4> QED
          BY <3>1, <4>1, <4>2
      <3>2. CASE m + 1 \notin s
        <4>1. s \in SUBSET (1..m)
          BY <3>2
        <4>2. \A r \in SUBSET s : r \in SUBSET (1..m + 1) /\ m + 1 \notin r
          BY <3>2
        <4>3. \A r \in SUBSET s : g[r] = f[r]
          BY <4>2
        <4> HIDE DEF g
        <4>4. f[s] = IF s = {} THEN NotDecoded ELSE DecodeNext(t, f[s \ {Max(s)}], id[Max(s)])
          BY Zenon, <2>1, <4>1 DEF Decodes
        <4>5. g[s] = f[s] /\ g[s \ {Max(s)}] = f[s \ {Max(s)}]
          <5>1. s \ {Max(s)} \in SUBSET s /\ s \in SUBSET s
            OBVIOUS
          <5> QED
            BY <4>3, <5>1
        <4> QED
          BY <4>4, <4>5
      <3> QED
        BY <3>1, <3>2
    <2>3. Decodes(g, t, id, 1..m + 1)
      <3>1. g = [s \in SUBSET (1..m + 1) |-> g[s]]
        OBVIOUS
      <3> HIDE DEF g
      <3> QED
        BY Zenon, <2>2, <3>1 DEF Decodes
    <2> HIDE DEF g
    <2> QED
      BY <2>3
  <1> HIDE DEF D
  <1>3. 0..n \subseteq D
    BY <1>1, <1>2, BoundedInduction
  <1> QED
    BY <1>3 DEF D

\* Decode reads one character after the other.
LEMMA DecodeScans ==
  ASSUME NEW S, NEW t \in Seq(S)
  PROVE  \E f : /\ Decode(t) = f[1..Len(t)].text /\ f[1..0] = NotDecoded
                /\ \A m \in 1..Len(t) : f[1..m] = DecodeNext(t, f[1..m - 1], m)
  <1> DEFINE n == Len(t)
             id == [i \in DOMAIN t |-> i]
             h == CHOOSE g : Decodes(g, t, id, DOMAIN id)
  <1>1. Decode(t) = h[DOMAIN id].text
    BY Zenon DEF Decode, FoldLeftDomain, FoldLeft, MapThenFoldSet, Decodes
  <1>2. n \in Nat /\ DOMAIN id = 1..n /\ \A m \in 1..n : id[m] = m
    BY LenProperties
  <1> HIDE DEF n, id
  <1>3. Decodes(h, t, id, 1..n)
    BY <1>2, DecodingsExist
  <1> HIDE DEF h
  <1>4. \A s \in SUBSET (1..n) : h[s] = IF s = {} THEN NotDecoded ELSE DecodeNext(t, h[s \ {Max(s)}], id[Max(s)])
    BY Zenon, <1>3 DEF Decodes
  <1>5. h[1..0] = NotDecoded
    <2>1. 1..0 \in SUBSET (1..n) /\ 1..0 = {}
      OBVIOUS
    <2> QED
      BY Zenon, <1>4, <2>1
  <1>6. ASSUME NEW m \in 1..n
        PROVE  h[1..m] = DecodeNext(t, h[1..m - 1], m)
    <2>1. m \in Nat /\ 1..m \in SUBSET (1..n) /\ 1..m # {} /\ m \in 1..m /\ 1..m \subseteq 1..m
      <3>1. m \in Nat /\ m \in 1..m /\ \A i \in 1..m : i \in 1..n
        BY <1>2
      <3> QED
        BY <3>1
    <2>2. Max(1..m) = m
      BY <2>1, MaxIs
    <2>3. (1..m) \ {m} = 1..m - 1
      BY <1>2
    <2>4. h[1..m] = DecodeNext(t, h[(1..m) \ {Max(1..m)}], id[Max(1..m)])
      BY Zenon, <1>4, <2>1
    <2> QED
      BY Zenon, <1>2, <2>2, <2>3, <2>4
  <1> QED
    BY Zenon, <1>1, <1>2, <1>5, <1>6 DEF n

\* FlattenSeq puts one sequence behind the other.
Unrolled(f, s, n) == f = [i \in 1..n |-> IF i = 1 THEN s[i] ELSE f[i - 1] \o s[i]]

\* There is such a function for any number of sequences.
LEMMA UnrolledExists ==
  ASSUME NEW s, NEW n \in Nat
  PROVE  \E f : Unrolled(f, s, n)
  <1> DEFINE D == {m \in 0..n : \E f : Unrolled(f, s, m)}
             h(f, m) == [i \in 1..m |-> IF i = 1 THEN s[i] ELSE f[i - 1] \o s[i]]
  <1>1. 0 \in D
    <2> DEFINE f == [i \in 1..0 |-> s[i]]
    <2>1. f = h(f, 0)
      OBVIOUS
    <2> HIDE DEF f
    <2>2. Unrolled(f, s, 0)
      BY Zenon, <2>1 DEF Unrolled
    <2> QED
      BY <2>2
  <1>2. ASSUME NEW m \in 0..n - 1, m \in D
        PROVE  m + 1 \in D
    <2>1. PICK f : Unrolled(f, s, m)
      BY <1>2
    <2> DEFINE last == IF m + 1 = 1 THEN s[m + 1] ELSE f[m] \o s[m + 1]
               g == [i \in 1..m + 1 |-> IF i = m + 1 THEN last ELSE f[i]]
    <2>2. f = h(f, m)
      BY Zenon, <2>1 DEF Unrolled
    <2>3. \A i \in 1..m : f[i] = IF i = 1 THEN s[i] ELSE f[i - 1] \o s[i]
      <3> DEFINE F == h(f, m)
      <3>1. \A i \in 1..m : F[i] = IF i = 1 THEN s[i] ELSE f[i - 1] \o s[i]
        BY Zenon
      <3>2. f = F
        BY Zenon, <2>2
      <3> HIDE DEF F
      <3> QED
        BY Zenon, <3>1, <3>2
    <2> HIDE DEF last
    <2>4. /\ g[m + 1] = last /\ \A i \in 1..m : g[i] = f[i]
      OBVIOUS
    <2> DEFINE G == [i \in 1..m + 1 |-> g[i]]
    <2>5. g = G
      OBVIOUS
    <2> HIDE DEF g
    <2>6. ASSUME NEW i \in 1..m + 1
          PROVE  g[i] = IF i = 1 THEN s[i] ELSE g[i - 1] \o s[i]
      <3>1. CASE i = m + 1
        <4>1. i # 1 => i - 1 = m /\ m \in 1..m /\ m + 1 # 1
          BY <3>1
        <4> QED
          BY Zenon, <2>4, <3>1, <4>1 DEF last
      <3>2. CASE i # m + 1
        <4>1. i \in 1..m /\ (i # 1 => i - 1 \in 1..m)
          BY <3>2
        <4> QED
          BY Zenon, <2>3, <2>4, <4>1
      <3> QED
        BY <3>1, <3>2
    <2>7. Unrolled(g, s, m + 1)
      BY Zenon, <2>5, <2>6 DEF Unrolled
    <2> QED
      BY <2>7
  <1> HIDE DEF D
  <1>3. 0..n \subseteq D
    BY <1>1, <1>2, BoundedInduction
  <1> QED
    BY <1>3 DEF D

\* The beginnings of a flattened sequence.
Beginnings(f, s, n) ==
    /\ f[1] = s[1] /\ \A i \in 1..n - 1 : f[i + 1] = f[i] \o s[i + 1]

\* FlattenSeq is the last of the beginnings.
LEMMA FlattenScan ==
  ASSUME NEW s, NEW n \in Nat \ {0}, Len(s) = n
  PROVE  \E f : FlattenSeq(s) = f[n] /\ Beginnings(f, s, n)
  <1>1. \E g : Flattens(g, s)
    BY Zenon, UnrolledExists, n \in Nat DEF Unrolled, Flattens
  <1>2. PICK f : FlattenSeq(s) = f[Len(s)] /\ Flattens(f, s)
    <2>1. Len(s) # 0
      OBVIOUS
    <2> QED
      BY Zenon, <1>1, <2>1, FlattenUnfolds
  <1> DEFINE F == [i \in 1..n |-> IF i = 1 THEN s[i] ELSE f[i - 1] \o s[i]]
  <1>3. f = F
    BY Zenon, <1>2 DEF Flattens
  <1>4. \A i \in 1..n : F[i] = IF i = 1 THEN s[i] ELSE f[i - 1] \o s[i]
    BY Zenon
  <1> HIDE DEF F
  <1>5. \A i \in 1..n : f[i] = IF i = 1 THEN s[i] ELSE f[i - 1] \o s[i]
    BY Zenon, <1>3, <1>4
  <1>6. 1 \in 1..n /\ \A i \in 1..n - 1 : i + 1 \in 1..n /\ i + 1 # 1 /\ (i + 1) - 1 = i
    OBVIOUS
  <1> QED
    BY Zenon, <1>2, <1>5, <1>6 DEF Beginnings

\* Every part of it is where the parts before it end.
LEMMA FlattenedParts ==
  ASSUME NEW s, NEW n \in Nat \ {0}, Len(s) = n, \A i \in 1..n : s[i] \in Seq(Nat)
  PROVE  \E f : /\ FlattenSeq(s) = f[n] /\ Beginnings(f, s, n) /\ Len(f[n]) \in Nat
                /\ \A i \in 1..n : f[i] \in Seq(Nat) /\ PartAt(f[n], 1, f[i]) /\ Len(f[i]) <= Len(f[n])
  <1>1. PICK f : FlattenSeq(s) = f[n] /\ Beginnings(f, s, n)
    BY Zenon, FlattenScan
  <1>2. f[1] = s[1] /\ \A i \in 1..n - 1 : f[i + 1] = f[i] \o s[i + 1]
    BY Zenon, <1>1 DEF Beginnings
  <1> DEFINE Within(m, k) ==
                f[k] \in Seq(Nat) /\ PartAt(f[m], 1, f[k]) /\ Len(f[k]) <= Len(f[m]) /\ Len(f[m]) \in Nat
             D == {m \in 0..n - 1 : \A k \in 1..m + 1 : Within(m + 1, k)}
  <1>3. 0 \in D
    <2>1. f[1] \in Seq(Nat) /\ 1 \in 1..n
      BY <1>2
    <2>2. PartAt(f[1], 1, f[1]) /\ Len(f[1]) \in Nat
      <3>1. Len(f[1]) \in Nat
        BY <2>1, LenProperties
      <3>2. \A i \in 1..Len(f[1]) : 1 + i - 1 = i
        BY <3>1
      <3> QED
        BY Zenon, <3>1, <3>2 DEF PartAt
    <2>3. Len(f[1]) <= Len(f[1])
      BY <2>2
    <2>0. 0 + 1 = 1
      OBVIOUS
    <2>4. Within(0 + 1, 1)
      BY Zenon, <2>0, <2>1, <2>2, <2>3
    <2> HIDE DEF Within
    <2> QED
      BY <2>4
  <1>4. ASSUME NEW m \in 0..(n - 1) - 1, m \in D
        PROVE  m + 1 \in D
    <2> DEFINE j == m + 1
               x == f[j]
               y == s[j + 1]
               z == f[j + 1]
    <2>1. j \in 1..n - 1 /\ j \in 1..j /\ j + 1 \in 1..n
      OBVIOUS
    <2>2. \A k \in 1..j : Within(j, k)
      BY Zenon, <1>4
    <2>3. x \in Seq(Nat) /\ y \in Seq(Nat) /\ z = x \o y
      BY Zenon, <1>2, <2>1, <2>2
    <2> HIDE DEF x, y, z
    <2>4. Chained(z, x, y)
      BY <2>3, Chain
    <2>5. /\ z \in Seq(Nat) /\ Len(z) = Len(x) + Len(y) /\ Len(x) \in Nat /\ Len(y) \in Nat
          /\ PartAt(z, 1, x)
      BY Zenon, <2>4 DEF Chained
    <2>6. Len(z) \in Nat /\ Len(x) <= Len(z) /\ Len(z) <= Len(z) /\ \A i \in 1..Len(z) : 1 + i - 1 = i
      BY <2>5
    <2>7. Within(j + 1, j + 1)
      BY Zenon, <2>5, <2>6 DEF PartAt, z
    <2>8. ASSUME NEW k \in 1..j
          PROVE  Within(j + 1, k)
      <3> DEFINE w == f[k]
      <3>1. w \in Seq(Nat) /\ PartAt(x, 1, w) /\ Len(w) <= Len(x)
        BY Zenon, <2>2 DEF x
      <3> HIDE DEF w
      <3>2. Len(w) \in Nat /\ 1 + Len(w) <= Len(x) + 1 /\ Len(w) <= Len(z) /\ 1 \in Nat \ {0}
        BY <2>5, <3>1, LenProperties
      <3>3. PartAt(z, 1, w)
        BY Zenon, <2>5, <3>1, <3>2, Lift
      <3> QED
        BY Zenon, <2>6, <3>1, <3>2, <3>3 DEF w, z
    <2> HIDE DEF Within
    <2>9. \A k \in 1..(m + 1) + 1 : k = j + 1 \/ k \in 1..j
      OBVIOUS
    <2>10. \A k \in 1..(m + 1) + 1 : Within((m + 1) + 1, k)
      BY Zenon, <2>7, <2>8, <2>9
    <2>11. m + 1 \in 0..n - 1
      OBVIOUS
    <2> QED
      BY Zenon, <2>10, <2>11
  <1> HIDE DEF D
  <1>5. n - 1 \in Nat /\ n - 1 \in 0..n - 1 /\ (n - 1) + 1 = n /\ 1 \in 1..n
    OBVIOUS
  <1>6. 0..n - 1 \subseteq D
    BY <1>3, <1>4, <1>5, BoundedInduction
  <1>7. \A k \in 1..n : Within(n, k)
    BY Zenon, <1>5, <1>6 DEF D
  <1> QED
    BY Zenon, <1>1, <1>5, <1>7

\* The code of a byte: itself, or three characters that HexByte reads back.
Plain == Unreserved \cup {PERCENT}
IsCode(c, byte) ==
    /\ c \in Seq(Nat)
    /\ \/ Len(c) = 1 /\ c[1] = byte /\ byte \in Unreserved
       \/ /\ Len(c) = 3 /\ c[1] = PERCENT /\ c[2] \in Unreserved /\ c[3] \in Unreserved
          /\ HexByte(c[2], c[3]) = byte

\* A digit of four bits is unreserved, and is read back.
LEMMA HexCharIs ==
  ASSUME NEW n \in 0..15
  PROVE  /\ HexChar(n) \in Nat /\ HexChar(n) \in HexDigits /\ HexChar(n) \in Unreserved
         /\ HexValue(HexChar(n)) = n
  <1>1. CASE n < 10
    <2>1. HexChar(n) = 48 + n /\ 48 + n \in 48..57 /\ (48 + n) - 48 = n
      BY <1>1 DEF HexChar
    <2> QED
      BY <2>1 DEF HexDigits, Digits, Unreserved, HexValue
  <1>2. CASE ~(n < 10)
    <2>1. HexChar(n) = 55 + n /\ 55 + n \in 65..70 /\ 55 + n \notin 48..57 /\ (55 + n) % 32 = n - 9
      BY <1>2 DEF HexChar
    <2>2. 55 + n \in Nat /\ (n - 9) + 9 = n /\ 65..70 \subseteq 65..90
      OBVIOUS
    <2>3. HexChar(n) \in HexDigits /\ HexChar(n) \in Unreserved
      BY <2>1, <2>2 DEF HexDigits, Digits, Unreserved, Letters
    <2>4. HexValue(HexChar(n)) = ((55 + n) % 32) + 9
      BY Zenon, <2>1 DEF HexValue, Digits
    <2> QED
      BY <2>1, <2>2, <2>3, <2>4
  <1> QED
    BY <1>1, <1>2

\* A byte's code is itself, or a percent sign and two digits.
LEMMA CodeIs ==
  ASSUME NEW byte \in 0..255
  PROVE  IsCode(Code(byte), byte)
  <1> DEFINE c == Code(byte)
             q == byte \div 16
             r == byte % 16
             a == HexChar(q)
             b == HexChar(r)
  <1>1. CASE byte \in Unreserved
    <2>1. c = <<byte>>
      BY Zenon, <1>1 DEF Code
    <2> HIDE DEF c
    <2>2. c \in Seq(Nat) /\ Len(c) = 1 /\ c[1] = byte
      BY <2>1
    <2> QED
      BY Zenon, <1>1, <2>2 DEF IsCode, c
  <1>2. CASE byte \notin Unreserved
    <2>1. c = <<PERCENT, a, b>>
      BY Zenon, <1>2 DEF Code
    <2>2. q \in 0..15 /\ r \in 0..15 /\ 16 * q + r = byte
      OBVIOUS
    <2> HIDE DEF q, r
    <2>3. /\ a \in Nat /\ a \in HexDigits /\ a \in Unreserved /\ HexValue(a) = q
          /\ b \in Nat /\ b \in HexDigits /\ b \in Unreserved /\ HexValue(b) = r
      BY Zenon, <2>2, HexCharIs
    <2>4. HexByte(a, b) = 16 * HexValue(a) + HexValue(b)
      <3>1. a \notin Blanks \cup {PLUS} /\ a # MINUS
        BY <2>3 DEF HexDigits, Digits, Blanks, SP, PLUS, MINUS
      <3> HIDE DEF a, b
      <3> QED
        BY Zenon, <2>3, <3>1 DEF HexByte
    <2>5. PERCENT \in Nat
      BY DEF PERCENT
    <2> HIDE DEF c, a, b
    <2>6. c \in Seq(Nat) /\ Len(c) = 3 /\ c[1] = PERCENT /\ c[2] = a /\ c[3] = b
      BY <2>1, <2>3, <2>5
    <2>7. HexByte(a, b) = byte
      BY Zenon, <2>2, <2>3, <2>4
    <2> QED
      BY Zenon, <2>3, <2>6, <2>7 DEF IsCode, c
  <1> QED
    BY <1>1, <1>2

\* What has been decoded between two codes.
Done(x) == [text |-> x, skip |-> 0]

Nexts(t, x, i) ==
    /\ t[i] \in Unreserved => DecodeNext(t, Done(x), i) = Done(Append(x, t[i]))
    /\ t[i] = PERCENT /\ HasCode(t, i) =>
          DecodeNext(t, Done(x), i) = [text |-> Append(x, HexByte(t[i + 1], t[i + 2])), skip |-> 2]
    /\ DecodeNext(t, [text |-> x, skip |-> 2], i) = [text |-> x, skip |-> 1]
    /\ DecodeNext(t, [text |-> x, skip |-> 1], i) = Done(x)

\* What decoding does with each kind of byte.
LEMMA NextIs ==
  ASSUME NEW t, NEW x, NEW i
  PROVE  Nexts(t, x, i)
  <1> DEFINE d == Done(x)
             y == [text |-> x, skip |-> 2]
             z == [text |-> x, skip |-> 1]
  <1>1. d.text = x /\ d.skip = 0 /\ y.text = x /\ y.skip = 2 /\ z.text = x /\ z.skip = 1
    BY DEF Done
  <1>2. /\ \A w : [d EXCEPT !.text = w] = Done(w)
        /\ [y EXCEPT !.skip = 2 - 1] = z /\ [z EXCEPT !.skip = 1 - 1] = d
    BY DEF Done
  <1> HIDE DEF d, y, z
  <1>3. 2 > 0 /\ 1 > 0 /\ ~(0 > 0)
    OBVIOUS
  <1>4. ASSUME t[i] \in Unreserved
        PROVE  DecodeNext(t, d, i) = Done(Append(x, t[i]))
    <2>1. t[i] # PERCENT /\ t[i] # PLUS
      BY <1>4 DEF Unreserved, Digits, Letters, PERCENT, PLUS
    <2>2. DecodeNext(t, d, i) = [d EXCEPT !.text = Append(d.text, IF t[i] = PLUS THEN SP ELSE t[i])]
      BY Zenon, <1>1, <1>3, <2>1 DEF DecodeNext
    <2> QED
      BY Zenon, <1>1, <1>2, <2>1, <2>2
  <1>5. ASSUME t[i] = PERCENT, HasCode(t, i)
        PROVE  DecodeNext(t, d, i) = [text |-> Append(x, HexByte(t[i + 1], t[i + 2])), skip |-> 2]
    BY Zenon, <1>1, <1>3, <1>5 DEF DecodeNext
  <1>6. DecodeNext(t, y, i) = [y EXCEPT !.skip = y.skip - 1]
    BY Zenon, <1>1, <1>3 DEF DecodeNext
  <1>7. DecodeNext(t, z, i) = [z EXCEPT !.skip = z.skip - 1]
    BY Zenon, <1>1, <1>3 DEF DecodeNext
  <1>8. DecodeNext(t, y, i) = z
    BY Zenon, <1>1, <1>2, <1>6
  <1>9. DecodeNext(t, z, i) = d
    BY Zenon, <1>1, <1>2, <1>7
  <1> QED
    BY Zenon, <1>4, <1>5, <1>8, <1>9 DEF d, y, z, Nexts

Decoding(h, e) == \A m \in 1..Len(e) : h[1..m] = DecodeNext(e, h[1..m - 1], m)

Decoded(h, p, x) == h[1..p] = Done(x)

\* One code more.
LEMMA CodeDecodes ==
  ASSUME NEW e, NEW h, Decoding(h, e), Len(e) \in Nat, NEW p \in Nat, NEW c, NEW byte, IsCode(c, byte),
         PartAt(e, p + 1, c), p + Len(c) <= Len(e), NEW x, Decoded(h, p, x)
  PROVE  Decoded(h, p + Len(c), Append(x, byte))
  <1>0. h[1..p] = Done(x)
    BY Zenon DEF Decoded
  <1> SUFFICES h[1..p + Len(c)] = Done(Append(x, byte))
    BY Zenon DEF Decoded
  <1>1. \A i \in 1..Len(c) : e[p + 1 + i - 1] = c[i]
    BY Zenon DEF PartAt
  <1>2. \A m \in 1..Len(e) : h[1..m] = DecodeNext(e, h[1..m - 1], m)
    BY Zenon DEF Decoding
  <1> DEFINE n == Len(e)
  <1>3. n \in Nat /\ p + Len(c) <= n
    OBVIOUS
  <1> HIDE DEF n
  <1>4. CASE Len(c) = 1 /\ c[1] = byte /\ byte \in Unreserved
    <2>1. p + 1 \in 1..n /\ (p + 1) - 1 = p /\ p + 1 + 1 - 1 = p + 1 /\ 1 \in 1..1
      BY <1>3, <1>4
    <2>2. e[p + 1] = byte
      BY Zenon, <1>1, <1>4, <2>1
    <2>3. h[1..p + 1] = DecodeNext(e, Done(x), p + 1)
      BY Zenon, <1>0, <1>2, <2>1 DEF n
    <2>4. DecodeNext(e, Done(x), p + 1) = Done(Append(x, byte))
      <3>1. Nexts(e, x, p + 1)
        BY NextIs
      <3> QED
        BY Zenon, <1>4, <2>2, <3>1 DEF Nexts
    <2> QED
      BY Zenon, <1>4, <2>3, <2>4
  <1>5. CASE /\ Len(c) = 3 /\ c[1] = PERCENT /\ c[2] \in Unreserved /\ c[3] \in Unreserved
             /\ HexByte(c[2], c[3]) = byte
    <2>1. /\ p + 1 \in 1..n /\ p + 2 \in 1..n /\ p + 3 \in 1..n
          /\ (p + 1) - 1 = p /\ (p + 2) - 1 = p + 1 /\ (p + 3) - 1 = p + 2
          /\ p + 1 + 1 - 1 = p + 1 /\ p + 1 + 2 - 1 = p + 2 /\ p + 1 + 3 - 1 = p + 3
          /\ 1 \in 1..3 /\ 2 \in 1..3 /\ 3 \in 1..3
          /\ (p + 1) + 1 = p + 2 /\ (p + 1) + 2 = p + 3 /\ (p + 1) + 2 <= n
      BY <1>3, <1>5
    <2>2. e[p + 1] = PERCENT /\ e[p + 2] = c[2] /\ e[p + 3] = c[3]
      BY Zenon, <1>1, <1>5, <2>1
    <2>3. HasCode(e, p + 1)
      BY Zenon, <2>1 DEF HasCode, n
    <2> DEFINE y == Append(x, byte)
    <2>4. h[1..p + 1] = [text |-> y, skip |-> 2]
      <3>1. h[1..p + 1] = DecodeNext(e, Done(x), p + 1)
        BY Zenon, <1>0, <1>2, <2>1 DEF n
      <3>2. DecodeNext(e, Done(x), p + 1)
              = [text |-> Append(x, HexByte(e[(p + 1) + 1], e[(p + 1) + 2])), skip |-> 2]
        <4>1. Nexts(e, x, p + 1)
          BY NextIs
        <4> QED
          BY Zenon, <2>2, <2>3, <4>1 DEF Nexts
      <3> QED
        BY Zenon, <1>5, <2>1, <2>2, <3>1, <3>2
    <2> HIDE DEF y
    <2>5. h[1..p + 2] = [text |-> y, skip |-> 1]
      <3>1. h[1..p + 2] = DecodeNext(e, h[1..p + 1], p + 2)
        BY Zenon, <1>2, <2>1 DEF n
      <3>2. DecodeNext(e, [text |-> y, skip |-> 2], p + 2) = [text |-> y, skip |-> 1]
        <4>1. Nexts(e, y, p + 2)
          BY NextIs
        <4> QED
          BY Zenon, <4>1 DEF Nexts
      <3> QED
        BY Zenon, <2>4, <3>1, <3>2
    <2>6. h[1..p + 3] = Done(y)
      <3>1. h[1..p + 3] = DecodeNext(e, h[1..p + 2], p + 3)
        BY Zenon, <1>2, <2>1 DEF n
      <3>2. DecodeNext(e, [text |-> y, skip |-> 1], p + 3) = Done(y)
        <4>1. Nexts(e, y, p + 3)
          BY NextIs
        <4> QED
          BY Zenon, <4>1 DEF Nexts
      <3> QED
        BY Zenon, <2>5, <3>1, <3>2
    <2> QED
      BY Zenon, <1>5, <2>6 DEF y
  <1> QED
    BY Zenon, <1>4, <1>5 DEF IsCode

\* What is encoded is made of letters, digits and codes.
LEMMA CodesArePlain ==
  ASSUME NEW c, NEW byte, IsCode(c, byte), NEW i \in 1..Len(c)
  PROVE  c[i] \in Plain
  <1>1. CASE Len(c) = 1 /\ c[1] = byte /\ byte \in Unreserved
    BY <1>1 DEF Plain
  <1>2. CASE Len(c) = 3 /\ c[1] = PERCENT /\ c[2] \in Unreserved /\ c[3] \in Unreserved
    <2>1. i = 1 \/ i = 2 \/ i = 3
      BY <1>2
    <2> QED
      BY Zenon, <1>2, <2>1 DEF Plain
  <1> QED
    BY Zenon, <1>1, <1>2 DEF IsCode

\* What is put together from plain bytes is plain.
LEMMA FlattenPlain ==
  ASSUME NEW s, NEW n \in Nat \ {0}, NEW f, Beginnings(f, s, n),
         \A i \in 1..n : f[i] \in Seq(Nat) /\ s[i] \in Seq(Nat) /\ \A j \in 1..Len(s[i]) : s[i][j] \in Plain
  PROVE  \A j \in 1..Len(f[n]) : f[n][j] \in Plain
  <1> DEFINE P(k) == \A j \in 1..Len(f[k]) : f[k][j] \in Plain
             D == {k \in 0..n - 1 : P(k + 1)}
  <1>1. f[1] = s[1] /\ \A i \in 1..n - 1 : f[i + 1] = f[i] \o s[i + 1]
    BY Zenon DEF Beginnings
  <1>2. 0 \in D
    <2>1. 1 \in 1..n /\ 0 \in 0..n - 1 /\ 0 + 1 = 1
      OBVIOUS
    <2> QED
      BY Zenon, <1>1, <2>1
  <1>3. ASSUME NEW m \in 0..(n - 1) - 1, m \in D
        PROVE  m + 1 \in D
    <2> DEFINE j == m + 1
               x == f[j]
               y == s[j + 1]
               z == f[j + 1]
    <2>1. j \in 1..n - 1 /\ j \in 1..n /\ j + 1 \in 1..n /\ m + 1 \in 0..n - 1
      OBVIOUS
    <2>2. /\ x \in Seq(Nat) /\ y \in Seq(Nat) /\ z = x \o y
          /\ (\A i \in 1..Len(x) : x[i] \in Plain) /\ \A i \in 1..Len(y) : y[i] \in Plain
      BY Zenon, <1>1, <1>3, <2>1
    <2> HIDE DEF x, y, z
    <2>3. Behind(z, x, y)
      BY <2>2, Joining
    <2>4. /\ Len(z) = Len(x) + Len(y) /\ Len(x) \in Nat /\ Len(y) \in Nat
          /\ \A i \in 1..Len(x) : z[i] = x[i]
          /\ \A i \in 1..Len(y) : z[Len(x) + i] = y[i]
      BY Zenon, <2>3 DEF Behind
    <2>5. ASSUME NEW i \in 1..Len(z)
          PROVE  z[i] \in Plain
      <3>1. CASE i \in 1..Len(x)
        BY Zenon, <2>2, <2>4, <3>1
      <3>2. CASE i - Len(x) \in 1..Len(y)
        <4>1. Len(x) + (i - Len(x)) = i
          BY <2>4
        <4> QED
          BY Zenon, <2>2, <2>4, <3>2, <4>1
      <3>3. i \in 1..Len(x) \/ i - Len(x) \in 1..Len(y)
        BY <2>4
      <3> QED
        BY Zenon, <3>1, <3>2, <3>3
    <2>6. P(j + 1)
      BY Zenon, <2>5 DEF z
    <2> QED
      BY Zenon, <2>1, <2>6
  <1> HIDE DEF D
  <1>4. n - 1 \in Nat /\ n - 1 \in 0..n - 1 /\ (n - 1) + 1 = n
    OBVIOUS
  <1>5. 0..n - 1 \subseteq D
    BY <1>2, <1>3, <1>4, BoundedInduction
  <1>6. P(n)
    BY Zenon, <1>4, <1>5 DEF D
  <1> QED
    BY Zenon, <1>6

\* Whatever bytes a value has, and however many: encoding loses nothing.
THEOREM EncodingLosesNothing ==
  ASSUME NEW value \in Seq(0..255)
  PROVE  /\ Decode(Encode(value)) = value /\ Encode(value) \in Seq(Nat)
         /\ \A i \in 1..Len(Encode(value)) : Encode(value)[i] \in Unreserved \cup {PERCENT}
  <1> DEFINE n == Len(value)
             s == [i \in DOMAIN value |-> Code(value[i])]
             e == FlattenSeq(s)
             none == <<>>
  <1>1. n \in Nat /\ DOMAIN value = 1..n /\ \A i \in 1..n : value[i] \in 0..255
    BY LenProperties, ElementOfSeq
  <1>2. Encode(value) = e
    BY Zenon DEF Encode
  <1>3. Len(s) = n /\ (\A i \in 1..n : s[i] = Code(value[i]))
    <2> DEFINE g(i) == Code(value[i])
    <2> HIDE DEF n, g
    <2>1. s = [i \in 1..n |-> g(i)]
      BY Zenon, <1>1 DEF g
    <2>2. Len([i \in 1..n |-> g(i)]) = n
      BY <1>1
    <2> QED
      BY Zenon, <1>1, <2>1, <2>2
  <1>4. \A i \in 1..n : IsCode(s[i], value[i])
    BY Zenon, <1>1, <1>3, CodeIs
  <1>5. none \in Seq(Nat) /\ Len(none) = 0
    BY EmptySeq
  <1> HIDE DEF s, n
  <1>6. CASE n = 0
    <2>1. s = none /\ value = none
      <3>1. DOMAIN s = 1..0 /\ DOMAIN value = 1..0
        BY Zenon, <1>1, <1>6 DEF s
      <3>2. 1..0 = {}
        OBVIOUS
      <3>3. s = [i \in {} |-> i]
        BY <3>1, <3>2 DEF s
      <3>4. value = [i \in {} |-> i] /\ none = [i \in {} |-> i]
        BY <1>6, <3>1, <3>2 DEF n
      <3> QED
        BY Zenon, <3>3, <3>4
    <2>2. e = none
      BY Zenon, <1>3, <1>6, <2>1 DEF FlattenSeq
    <2> HIDE DEF e
    <2>3. PICK h : Decode(none) = h[1..Len(none)].text /\ h[1..0] = NotDecoded
      BY Zenon, <1>5, DecodeScans
    <2>4. NotDecoded.text = none
      BY DEF NotDecoded
    <2>5. Decode(none) = none
      BY Zenon, <1>5, <2>3, <2>4
    <2>6. \A i \in 1..Len(none) : FALSE
      BY <1>5
    <2> QED
      BY Zenon, <1>2, <1>5, <2>1, <2>2, <2>5, <2>6
  <1>7. CASE n # 0
    <2>1. n \in Nat \ {0} /\ \A i \in 1..n : s[i] \in Seq(Nat)
      <3>1. \A i \in 1..n : s[i] \in Seq(Nat)
        BY Zenon, <1>4 DEF IsCode
      <3> QED
        BY <1>1, <1>7, <3>1
    <2>2. PICK f : /\ e = f[n] /\ Beginnings(f, s, n) /\ Len(f[n]) \in Nat
                   /\ \A i \in 1..n : f[i] \in Seq(Nat) /\ PartAt(f[n], 1, f[i]) /\ Len(f[i]) <= Len(f[n])
      BY Zenon, <1>3, <2>1, FlattenedParts
    <2> HIDE DEF e
    <2>3. f[1] = s[1] /\ \A i \in 1..n - 1 : f[i + 1] = f[i] \o s[i + 1]
      BY Zenon, <2>2 DEF Beginnings
    <2>4. n \in 1..n /\ 1 \in 1..n
      BY <2>1
    <2>5. e \in Seq(Nat) /\ Len(e) \in Nat
      BY Zenon, <2>2, <2>4
    <2>6. \A j \in 1..Len(e) : e[j] \in Plain
      <3>1. \A i \in 1..n : \A j \in 1..Len(s[i]) : s[i][j] \in Plain
        BY Zenon, <1>4, CodesArePlain
      <3> QED
        BY Zenon, <2>1, <2>2, <3>1, FlattenPlain
    <2>7. PICK h : Decode(e) = h[1..Len(e)].text /\ h[1..0] = NotDecoded /\ Decoding(h, e)
      <3>1. PICK h : /\ Decode(e) = h[1..Len(e)].text /\ h[1..0] = NotDecoded
                     /\ \A m \in 1..Len(e) : h[1..m] = DecodeNext(e, h[1..m - 1], m)
        BY Zenon, <2>5, DecodeScans
      <3> QED
        BY Zenon, <3>1 DEF Decoding
    <2> DEFINE D == {k \in 0..n - 1 : h[1..Len(f[k + 1])] = Done(SubSeq(value, 1, k + 1))}
    <2>8. 0 \in D
      <3> DEFINE c == f[1]
      <3>1. IsCode(c, value[1]) /\ PartAt(e, 1, c) /\ Len(c) <= Len(e) /\ c \in Seq(Nat)
        BY Zenon, <1>4, <2>2, <2>3, <2>4
      <3> HIDE DEF c
      <3>2. 0 + 1 = 1 /\ 0 + Len(c) = Len(c) /\ 0 + Len(c) <= Len(e) /\ 0 \in Nat /\ 0 \in 0..n - 1
        BY <2>1, <3>1, LenProperties
      <3>3. h[1..0] = Done(none)
        BY Zenon, <2>7 DEF NotDecoded, Done
      <3> HIDE DEF none
      <3>4. PartAt(e, 0 + 1, c)
        BY Zenon, <3>1, <3>2
      <3> DEFINE b == value[1]
      <3>5. IsCode(c, b)
        BY Zenon, <3>1
      <3> HIDE DEF b
      <3>6. Decoding(h, e) /\ Decoded(h, 0, none)
        BY Zenon, <2>7, <3>3 DEF Decoded
      <3>7. Decoded(h, 0 + Len(c), Append(none, b))
        BY <2>5, <3>1, <3>2, <3>4, <3>5, <3>6, CodeDecodes
      <3>8. h[1..0 + Len(c)] = Done(Append(none, value[1]))
        BY Zenon, <3>7 DEF Decoded, b
      <3>9. Append(none, value[1]) = SubSeq(value, 1, 0 + 1)
        <4>1. Append(SubSeq(value, 1, 0), value[0 + 1]) = SubSeq(value, 1, 0 + 1)
          <5>1. 0 \in 0..Len(value) - 1
            BY <2>1 DEF n
          <5> QED
            BY <5>1, Prefix
        <4>2. SubSeq(value, 1, 0) = none
          BY <1>1, SubSeqProperties, EmptySeq DEF none, n
        <4> QED
          BY Zenon, <3>2, <4>1, <4>2
      <3> QED
        BY Zenon, <3>2, <3>8, <3>9 DEF c
    <2>9. ASSUME NEW m \in 0..(n - 1) - 1, m \in D
          PROVE  m + 1 \in D
      <3> DEFINE j == m + 1
                 x == f[j]
                 c == s[j + 1]
                 z == f[j + 1]
                 p == Len(x)
      <3>1. j \in 1..n - 1 /\ j \in 1..n /\ j + 1 \in 1..n /\ j \in 0..n - 1 /\ j \in 0..Len(value) - 1
        BY <1>1 DEF n
      <3>2. /\ x \in Seq(Nat) /\ c \in Seq(Nat) /\ z = x \o c /\ IsCode(c, value[j + 1])
            /\ PartAt(e, 1, z) /\ Len(z) <= Len(e)
        BY Zenon, <1>4, <2>1, <2>2, <2>3, <3>1
      <3>3. h[1..p] = Done(SubSeq(value, 1, j))
        BY Zenon, <2>9
      <3> HIDE DEF x, c, z
      <3>4. Chained(z, x, c)
        BY <3>2, Chain
      <3>5. /\ Len(z) = p + Len(c) /\ p \in Nat /\ Len(c) \in Nat /\ PartAt(z, p + 1, c)
        BY Zenon, <3>4 DEF Chained
      <3> HIDE DEF p
      <3>6. /\ p + 1 \in Nat \ {0} /\ (p + 1) + Len(c) <= Len(z) + 1 /\ Len(z) \in Nat
            /\ p + Len(c) <= Len(e)
        BY <2>5, <3>2, <3>5
      <3>7. PartAt(e, p + 1, c)
        BY Zenon, <3>2, <3>5, <3>6, Lift
      <3> DEFINE b == value[j + 1]
                 v == SubSeq(value, 1, j)
      <3>8. IsCode(c, b) /\ Decoding(h, e) /\ Decoded(h, p, v)
        BY Zenon, <2>7, <3>2, <3>3 DEF Decoded
      <3> HIDE DEF b, v
      <3>9. Decoded(h, p + Len(c), Append(v, b))
        BY <2>5, <3>5, <3>6, <3>7, <3>8, CodeDecodes
      <3>10. h[1..p + Len(c)] = Done(Append(SubSeq(value, 1, j), value[j + 1]))
        BY Zenon, <3>9 DEF Decoded, b, v
      <3>11. Append(SubSeq(value, 1, j), value[j + 1]) = SubSeq(value, 1, j + 1)
        BY <3>1, Prefix
      <3> QED
        BY Zenon, <3>1, <3>5, <3>10, <3>11 DEF z
    <2> HIDE DEF D
    <2>10. n - 1 \in Nat /\ n - 1 \in 0..n - 1 /\ (n - 1) + 1 = n
      BY <2>1
    <2>11. 0..n - 1 \subseteq D
      BY <2>8, <2>9, <2>10, BoundedInduction
    <2>12. h[1..Len(e)] = Done(SubSeq(value, 1, n))
      BY Zenon, <2>2, <2>10, <2>11 DEF D
    <2>13. SubSeq(value, 1, n) = value
      BY SubSeqFull DEF n
    <2>14. Done(value).text = value
      BY DEF Done
    <2>15. Decode(e) = value
      BY Zenon, <2>7, <2>12, <2>13, <2>14
    <2> QED
      BY Zenon, <1>2, <2>5, <2>6, <2>15 DEF Plain
  <1> QED
    BY <1>6, <1>7

-----------------------------------------------------------------------------
(* Messages: a query string is read as its pieces, and as it was created.  *)

\* The function that ParseQuery computes, from the identity on positions: what has
\* been read after some of the characters.
Parses(f, t, id, S) ==
    f = [s \in SUBSET S |-> IF s = {} THEN NoPairs ELSE ParseNext(t, f[s \ {Max(s)}], id[Max(s)])]

\* There is such a function on any interval.
LEMMA ParsesExist ==
  ASSUME NEW t, NEW id, NEW n \in Nat
  PROVE  \E f : Parses(f, t, id, 1..n)
  <1> DEFINE D == {m \in 0..n : \E f : Parses(f, t, id, 1..m)}
  <1>1. 0 \in D
    <2> DEFINE f == [s \in SUBSET (1..0) |-> NoPairs]
    <2>1. \A s \in SUBSET (1..0) : s = {}
      OBVIOUS
    <2>2. f = [s \in SUBSET (1..0) |-> IF s = {} THEN NoPairs ELSE ParseNext(t, f[s \ {Max(s)}], id[Max(s)])]
      BY <2>1
    <2> HIDE DEF f
    <2>3. Parses(f, t, id, 1..0)
      BY Zenon, <2>2 DEF Parses
    <2> QED
      BY <2>3
  <1>2. ASSUME NEW m \in 0..n - 1, m \in D
        PROVE  m + 1 \in D
    <2>1. PICK f : Parses(f, t, id, 1..m)
      BY <1>2
    <2> DEFINE g == [s \in SUBSET (1..m + 1) |->
                        IF m + 1 \in s THEN ParseNext(t, f[s \ {m + 1}], id[m + 1]) ELSE f[s]]
    <2>2. ASSUME NEW s \in SUBSET (1..m + 1)
          PROVE  g[s] = IF s = {} THEN NoPairs ELSE ParseNext(t, g[s \ {Max(s)}], id[Max(s)])
      <3>1. CASE m + 1 \in s
        <4>1. Max(s) = m + 1
          <5>1. m + 1 \in Nat /\ s \subseteq 1..m + 1
            OBVIOUS
          <5> QED
            BY <3>1, <5>1, MaxIs
        <4>2. g[s \ {m + 1}] = f[s \ {m + 1}]
          OBVIOUS
        <4> QED
          BY <3>1, <4>1, <4>2
      <3>2. CASE m + 1 \notin s
        <4>1. s \in SUBSET (1..m)
          BY <3>2
        <4>2. \A r \in SUBSET s : r \in SUBSET (1..m + 1) /\ m + 1 \notin r
          BY <3>2
        <4>3. \A r \in SUBSET s : g[r] = f[r]
          BY <4>2
        <4> HIDE DEF g
        <4>4. f[s] = IF s = {} THEN NoPairs ELSE ParseNext(t, f[s \ {Max(s)}], id[Max(s)])
          BY Zenon, <2>1, <4>1 DEF Parses
        <4>5. g[s] = f[s] /\ g[s \ {Max(s)}] = f[s \ {Max(s)}]
          <5>1. s \ {Max(s)} \in SUBSET s /\ s \in SUBSET s
            OBVIOUS
          <5> QED
            BY <4>3, <5>1
        <4> QED
          BY <4>4, <4>5
      <3> QED
        BY <3>1, <3>2
    <2>3. Parses(g, t, id, 1..m + 1)
      <3>1. g = [s \in SUBSET (1..m + 1) |-> g[s]]
        OBVIOUS
      <3> HIDE DEF g
      <3> QED
        BY Zenon, <2>2, <3>1 DEF Parses
    <2> HIDE DEF g
    <2> QED
      BY <2>3
  <1> HIDE DEF D
  <1>3. 0..n \subseteq D
    BY <1>1, <1>2, BoundedInduction
  <1> QED
    BY <1>3 DEF D

\* ParseQuery reads one character after the other.
LEMMA ParseScans ==
  ASSUME NEW S, NEW t \in Seq(S)
  PROVE  \E f : /\ ParseQuery(t) = PairsWith(t, f[1..Len(t)], Len(t) + 1) /\ f[1..0] = NoPairs
                /\ \A m \in 1..Len(t) : f[1..m] = ParseNext(t, f[1..m - 1], m)
  <1> DEFINE n == Len(t)
             id == [i \in DOMAIN t |-> i]
             h == CHOOSE g : Parses(g, t, id, DOMAIN id)
  <1>1. ParseQuery(t) = PairsWith(t, h[DOMAIN id], Len(t) + 1)
    BY Zenon DEF ParseQuery, FoldLeftDomain, FoldLeft, MapThenFoldSet, Parses
  <1>2. n \in Nat /\ DOMAIN id = 1..n /\ \A m \in 1..n : id[m] = m
    BY LenProperties
  <1> HIDE DEF n, id
  <1>3. Parses(h, t, id, 1..n)
    BY <1>2, ParsesExist
  <1> HIDE DEF h
  <1>4. \A s \in SUBSET (1..n) : h[s] = IF s = {} THEN NoPairs ELSE ParseNext(t, h[s \ {Max(s)}], id[Max(s)])
    BY Zenon, <1>3 DEF Parses
  <1>5. h[1..0] = NoPairs
    <2>1. 1..0 \in SUBSET (1..n) /\ 1..0 = {}
      OBVIOUS
    <2> QED
      BY Zenon, <1>4, <2>1
  <1>6. ASSUME NEW m \in 1..n
        PROVE  h[1..m] = ParseNext(t, h[1..m - 1], m)
    <2>1. m \in Nat /\ 1..m \in SUBSET (1..n) /\ 1..m # {} /\ m \in 1..m /\ 1..m \subseteq 1..m
      <3>1. m \in Nat /\ m \in 1..m /\ \A i \in 1..m : i \in 1..n
        BY <1>2
      <3> QED
        BY <3>1
    <2>2. Max(1..m) = m
      BY <2>1, MaxIs
    <2>3. (1..m) \ {m} = 1..m - 1
      BY <1>2
    <2>4. h[1..m] = ParseNext(t, h[(1..m) \ {Max(1..m)}], id[Max(1..m)])
      BY Zenon, <1>4, <2>1
    <2> QED
      BY Zenon, <1>2, <2>2, <2>3, <2>4
  <1> QED
    BY Zenon, <1>1, <1>2, <1>5, <1>6 DEF n

\* A slice of a text.
LEMMA SliceIs ==
  ASSUME NEW t \in Seq(Nat), NEW a \in Nat \ {0}, NEW end \in a..Len(t) + 1
  PROVE  /\ Slice(t, a, end) \in Seq(Nat) /\ Len(Slice(t, a, end)) = end - a
         /\ PartAt(t, a, Slice(t, a, end))
  <1> DEFINE n == Len(t)
             w == SubSeq(t, a, end - 1)
  <1>1. n \in Nat /\ \A i \in 1..n : t[i] \in Nat
    BY LenProperties, ElementOfSeq
  <1>2. end \in a..n + 1
    OBVIOUS
  <1> HIDE DEF n
  <1>3. a \in Int /\ end - 1 \in Int /\ \A i \in a..end - 1 : t[i] \in Nat
    BY <1>1, <1>2
  <1>4. /\ w \in Seq(Nat) /\ Len(w) = (IF a <= end - 1 THEN (end - 1) - a + 1 ELSE 0)
        /\ \A i \in 1..(end - 1) - a + 1 : w[i] = t[a + i - 1]
    BY <1>3, SubSeqProperties
  <1> HIDE DEF w
  <1>5. Len(w) = end - a /\ (end - 1) - a + 1 = end - a
    BY <1>2, <1>4
  <1>6. PartAt(t, a, w)
    BY <1>4, <1>5 DEF PartAt
  <1> QED
    BY Zenon, <1>4, <1>5, <1>6 DEF w, Slice

\* Nothing is decoded from nothing.
LEMMA DecodeNothing == Decode(<<>>) = <<>>
  <1> DEFINE none == <<>>
  <1>1. none \in Seq(Nat) /\ Len(none) = 0
    BY EmptySeq
  <1>2. NotDecoded.text = none
    BY DEF NotDecoded
  <1> HIDE DEF none
  <1>3. PICK h : Decode(none) = h[1..Len(none)].text /\ h[1..0] = NotDecoded
    BY Zenon, <1>1, DecodeScans
  <1>4. Decode(none) = none
    BY Zenon, <1>1, <1>2, <1>3
  <1> QED
    BY Zenon, <1>4 DEF none

\* The first '=' from a place on, 0 if there is none before the end.
FirstEquals(t, a, end, q) ==
    \/ q = 0 /\ NoneIn(t, EQUALS, a, end - 1)
    \/ q \in a..end - 1 /\ t[q] = EQUALS /\ NoneIn(t, EQUALS, a, q - 1)

State(pairs, a, q) == [pairs |-> pairs, name |-> a, equals |-> q]

\* The pair of a piece.
PairAdded(t, pairs, a, q, end) ==
    \/ /\ NamedPair(Slice(t, a, end)) = <<>>
       /\ PairsWith(t, State(pairs, a, q), end) = pairs
    \/ \E pair : /\ NamedPair(Slice(t, a, end)) = <<pair>>
                 /\ PairsWith(t, State(pairs, a, q), end) = Append(pairs, pair)

\* A piece that ends is its name and value, or nothing if the name is empty.
LEMMA PairIs ==
  ASSUME NEW t \in Seq(Nat), NEW pairs, NEW a \in Nat \ {0}, NEW end \in a..Len(t) + 1, NEW q,
         FirstEquals(t, a, end, q)
  PROVE  PairAdded(t, pairs, a, q, end)
  <1> DEFINE piece == Slice(t, a, end)
             c == State(pairs, a, q)
             n == Len(piece)
  <1>1. piece \in Seq(Nat) /\ n = end - a /\ PartAt(t, a, piece)
    BY Zenon, SliceIs
  <1>2. c.pairs = pairs /\ c.name = a /\ c.equals = q
    BY DEF State
  <1>3. Len(t) \in Nat
    BY LenProperties
  <1> HIDE DEF c, piece
  <1>4. \A i \in 1..n : piece[i] = t[a + i - 1]
    BY Zenon, <1>1 DEF PartAt
  <1> HIDE DEF n
  <1>5. CASE q = 0 /\ NoneIn(t, EQUALS, a, end - 1)
    <2>1. Find(piece, EQUALS, 1) = 0
      <3>1. \A i \in 1..n : piece[i] # EQUALS
        <4>1. \A i \in 1..n : a + i - 1 \in a..end - 1
          BY <1>1, <1>3
        <4> QED
          BY Zenon, <1>4, <1>5, <4>1 DEF NoneIn
      <3> QED
        BY Zenon, <3>1, FindNone DEF n
    <2>2. NamedPair(piece) = IF piece = <<>> THEN <<>> ELSE <<<<piece, <<>>>>>>
      BY Zenon, <2>1 DEF NamedPair
    <2>3. PairsWith(t, c, end) = IF piece = <<>> THEN pairs ELSE Append(pairs, <<piece, <<>>>>)
      BY Zenon, <1>2, <1>5, DecodeNothing DEF PairsWith, piece
    <2> QED
      BY Zenon, <2>2, <2>3 DEF PairAdded, piece, c
  <1>6. CASE q \in a..end - 1 /\ t[q] = EQUALS /\ NoneIn(t, EQUALS, a, q - 1)
    <2> DEFINE j == q - a + 1
    <2>1. /\ j \in 1..n /\ a + j - 1 = q /\ n \in Nat /\ n + 1 \in 1..n + 1 /\ j \in 1..n + 1
          /\ 1 \in 1..n + 1 /\ j + 1 \in 1..n + 1 /\ n + 1 \in j + 1..n + 1
          /\ a + n <= Len(t) + 1 /\ a + 1 - 1 = a /\ a + (j + 1) - 1 = q + 1 /\ a + (n + 1) - 1 = end
          /\ q # 0 /\ (n + 1) - 1 = n /\ 1 \in Nat /\ \A i \in 1..j - 1 : i \in 1..n /\ a + i - 1 \in a..q - 1
      BY <1>1, <1>3, <1>6
    <2> HIDE DEF j
    <2>2. Find(piece, EQUALS, 1) = j
      <3>1. piece[j] = EQUALS
        BY Zenon, <1>4, <1>6, <2>1
      <3>2. NoneIn(piece, EQUALS, 1, j - 1)
        BY Zenon, <1>4, <1>6, <2>1 DEF NoneIn
      <3> QED
        BY <2>1, <3>1, <3>2, FindIs DEF n
    <2>3. Slice(piece, 1, j) = Slice(t, a, q)
      <3>1. Slice(t, a + 1 - 1, a + j - 1) = Slice(piece, 1, j)
        BY <1>1, <2>1, SliceOfPart DEF n
      <3> QED
        BY Zenon, <2>1, <3>1
    <2>4. From(piece, j + 1) = Slice(t, q + 1, end)
      <3>1. Slice(t, a + (j + 1) - 1, a + (n + 1) - 1) = Slice(piece, j + 1, n + 1)
        BY <1>1, <2>1, SliceOfPart DEF n
      <3>2. From(piece, j + 1) = Slice(piece, j + 1, n + 1)
        BY Zenon, <2>1 DEF From, Slice, n
      <3> QED
        BY Zenon, <2>1, <3>1, <3>2
    <2> DEFINE name == Slice(t, a, q)
               value == Decode(Slice(t, q + 1, end))
    <2>5. j # 0
      BY <2>1
    <2>6. NamedPair(piece) = IF name = <<>> THEN <<>> ELSE <<<<name, value>>>>
      BY Zenon, <2>2, <2>3, <2>4, <2>5 DEF NamedPair
    <2>7. PairsWith(t, c, end) = IF name = <<>> THEN pairs ELSE Append(pairs, <<name, value>>)
      BY Zenon, <1>2, <2>1 DEF PairsWith
    <2> HIDE DEF name, value
    <2> QED
      BY Zenon, <2>6, <2>7 DEF PairAdded, piece, c
  <1> QED
    BY Zenon, <1>5, <1>6 DEF FirstEquals

\* What the largest place of a byte before the end says of where a piece starts.
LEMMA PieceStartIs ==
  ASSUME NEW t, NEW end \in Nat, NEW a \in 1..end, a # 1 => t[a - 1] = AMP, NoneIn(t, AMP, a, end - 1)
  PROVE  PieceStart(t, end) = a
  <1> DEFINE s == {0} \cup {i \in 1 .. end - 1 : t[i] = AMP}
  <1>1. a - 1 \in s /\ \A y \in s : a - 1 >= y
    BY DEF NoneIn
  <1>2. s \subseteq Int
    OBVIOUS
  <1> HIDE DEF s
  <1>3. \A x \in s : (\A y \in s : x >= y) => x = a - 1
    BY <1>1, <1>2
  <1>4. Max(s) \in s /\ \A y \in s : Max(s) >= y
    BY <1>1 DEF Max
  <1>5. Max(s) = a - 1
    BY <1>3, <1>4
  <1> QED
    BY <1>5 DEF PieceStart, s

\* What has been read of a query after its first m characters.
ReadSoFar(c, t, m, pairs) ==
    \E a \in 1..m + 1, q \in Nat :
        /\ c = State(pairs, a, q)
        /\ a # 1 => t[a - 1] = AMP
        /\ NoneIn(t, AMP, a, m)
        /\ FirstEquals(t, a, m + 1, q)

NextStates(t, pairs, a, q, i) ==
    /\ t[i] = AMP =>
          ParseNext(t, State(pairs, a, q), i) = State(PairsWith(t, State(pairs, a, q), i), i + 1, 0)
    /\ t[i] # AMP /\ t[i] = EQUALS /\ q = 0 => ParseNext(t, State(pairs, a, q), i) = State(pairs, a, i)
    /\ t[i] # AMP /\ (t[i] # EQUALS \/ q # 0) =>
          ParseNext(t, State(pairs, a, q), i) = State(pairs, a, q)

\* What the scan of a query does with each kind of byte.
LEMMA NextOf ==
  ASSUME NEW t, NEW pairs, NEW a, NEW q, NEW i
  PROVE  NextStates(t, pairs, a, q, i)
  <1> DEFINE c == State(pairs, a, q)
  <1>1. c.equals = q /\ [c EXCEPT !.equals = i] = State(pairs, a, i)
    BY DEF State
  <1>2. \A x : [pairs |-> x, name |-> i + 1, equals |-> 0] = State(x, i + 1, 0)
    BY DEF State
  <1> HIDE DEF c
  <1>3. t[i] = AMP => ParseNext(t, c, i) = State(PairsWith(t, c, i), i + 1, 0)
    BY Zenon, <1>2 DEF ParseNext
  <1>4. t[i] # AMP /\ t[i] = EQUALS /\ q = 0 => ParseNext(t, c, i) = State(pairs, a, i)
    BY Zenon, <1>1 DEF ParseNext, IsEquals
  <1>5. t[i] # AMP /\ (t[i] # EQUALS \/ q # 0) => ParseNext(t, c, i) = c
    BY Zenon, <1>1 DEF ParseNext, IsEquals
  <1> QED
    BY Zenon, <1>3, <1>4, <1>5 DEF c, NextStates

\* One character more, inside of a piece and at its end.
LEMMA ReadInside ==
  ASSUME NEW t, NEW m \in Nat, NEW c, NEW pairs, ReadSoFar(c, t, m, pairs), t[m + 1] # AMP
  PROVE  ReadSoFar(ParseNext(t, c, m + 1), t, m + 1, pairs)
  <1> DEFINE i == m + 1
  <1>1. PICK a \in 1..m + 1, q \in Nat :
            /\ c = State(pairs, a, q)
            /\ a # 1 => t[a - 1] = AMP
            /\ NoneIn(t, AMP, a, m)
            /\ FirstEquals(t, a, i, q)
    BY Zenon DEF ReadSoFar
  <1>2. NoneIn(t, AMP, a, i) /\ a \in 1..i + 1
    BY <1>1 DEF NoneIn
  <1>3. CASE t[i] = EQUALS /\ q = 0
    <2>1. ParseNext(t, c, i) = State(pairs, a, i)
      <3>1. NextStates(t, pairs, a, q, i)
        BY NextOf
      <3> HIDE DEF i
      <3> QED
        BY Zenon, <1>1, <1>3, <3>1 DEF NextStates, i
    <2>2. FirstEquals(t, a, i + 1, i)
      <3>1. NoneIn(t, EQUALS, a, i - 1)
        BY <1>1, <1>3 DEF FirstEquals
      <3>2. i \in a..(i + 1) - 1
        BY <1>1
      <3> QED
        BY Zenon, <1>3, <3>1, <3>2 DEF FirstEquals
    <2>3. i \in Nat
      OBVIOUS
    <2> HIDE DEF i
    <2>4. ReadSoFar(ParseNext(t, c, i), t, i, pairs)
      BY Zenon, <1>1, <1>2, <2>1, <2>2, <2>3 DEF ReadSoFar
    <2> QED
      BY Zenon, <2>4 DEF i
  <1>4. CASE t[i] # EQUALS \/ q # 0
    <2>1. ParseNext(t, c, i) = State(pairs, a, q)
      <3>1. NextStates(t, pairs, a, q, i)
        BY NextOf
      <3> HIDE DEF i
      <3> QED
        BY Zenon, <1>1, <1>4, <3>1 DEF NextStates, i
    <2>2. FirstEquals(t, a, i + 1, q)
      BY <1>1, <1>4 DEF FirstEquals, NoneIn
    <2> HIDE DEF i
    <2>3. ReadSoFar(ParseNext(t, c, i), t, i, pairs)
      BY Zenon, <1>1, <1>2, <2>1, <2>2 DEF ReadSoFar
    <2> QED
      BY Zenon, <2>3 DEF i
  <1> QED
    BY Zenon, <1>3, <1>4

PieceEnds(t, c, pairs, i) ==
    \/ /\ NamedPair(Slice(t, PieceStart(t, i), i)) = <<>>
       /\ PairsWith(t, c, i) = pairs
    \/ \E pair : /\ NamedPair(Slice(t, PieceStart(t, i), i)) = <<pair>>
                 /\ PairsWith(t, c, i) = Append(pairs, pair)

\* What has been read of a piece is right when it ends.
LEMMA ReadEnds ==
  ASSUME NEW t \in Seq(Nat), NEW m \in 0..Len(t), NEW c, NEW pairs, ReadSoFar(c, t, m, pairs)
  PROVE  PieceEnds(t, c, pairs, m + 1)
  <1> DEFINE i == m + 1
  <1>1. PICK a \in 1..m + 1, q \in Nat :
            /\ c = State(pairs, a, q)
            /\ a # 1 => t[a - 1] = AMP
            /\ NoneIn(t, AMP, a, m)
            /\ FirstEquals(t, a, i, q)
    BY Zenon DEF ReadSoFar
  <1>2. i - 1 = m /\ i \in Nat /\ a \in 1..i /\ a \in Nat \ {0} /\ i \in a..Len(t) + 1
    BY LenProperties
  <1> HIDE DEF i
  <1>3. NoneIn(t, AMP, a, i - 1)
    BY Zenon, <1>1, <1>2
  <1>4. PieceStart(t, i) = a
    BY Zenon, <1>1, <1>2, <1>3, PieceStartIs
  <1>5. PairAdded(t, pairs, a, q, i)
    BY Zenon, <1>1, <1>2, PairIs
  <1> QED
    BY Zenon, <1>1, <1>4, <1>5 DEF PairAdded, PieceEnds, i

\* A piece's pair follows those of the pieces before it.
LEMMA PairsFollow ==
  ASSUME NEW U, NEW pairs \in Seq(U), NEW s, NEW new, s \in Seq(U),
         \/ s = <<>> /\ new = pairs
         \/ \E pair : s = <<pair>> /\ new = Append(pairs, pair)
  PROVE  new = pairs \o s
  <1>1. CASE s = <<>> /\ new = pairs
    BY <1>1, ConcatEmptySeq
  <1>2. ASSUME NEW pair, s = <<pair>>, new = Append(pairs, pair)
        PROVE  new = pairs \o s
    <2>1. pair \in U
      <3>1. Len(s) = 1 /\ s[1] = pair
        BY <1>2
      <3>2. 1 \in 1..Len(s)
        BY <3>1
      <3>3. s[1] \in U
        BY <3>2, ElementOfSeq
      <3> QED
        BY Zenon, <3>1, <3>3
    <2>2. Append(pairs, pair) = pairs \o <<pair>>
      BY <2>1, AppendIsConcat
    <2> QED
      BY Zenon, <1>2, <2>2
  <1> QED
    BY Zenon, <1>1, <1>2

\* Whatever the text, and however many pieces it has: the pairs are those of its pieces.
LEMMA ParseQueryIs ==
  ASSUME NEW t \in Seq(Nat)
  PROVE  ParseQuery(t) = FlattenSeq([end \in 1 .. Len(t) + 1 |-> PairsEndingAt(t, end)])
  <1> DEFINE n == Len(t)
             k == n + 1
             s == [end \in 1..k |-> PairsEndingAt(t, end)]
  <1>1. n \in Nat /\ k \in Nat \ {0} /\ k - 1 = n /\ n \in 0..n
    BY LenProperties
  <1>2. Len(s) = k /\ \A i \in 1..k : s[i] = PairsEndingAt(t, i)
    <2> DEFINE g(i) == PairsEndingAt(t, i)
    <2> HIDE DEF k, g
    <2>1. Len([i \in 1..k |-> g(i)]) = k
      BY <1>1
    <2> QED
      BY Zenon, <2>1 DEF g
  <1> HIDE DEF s
  <1>3. PICK f : FlattenSeq(s) = f[k] /\ Beginnings(f, s, k)
    BY Zenon, <1>1, <1>2, FlattenScan
  <1>4. f[1] = s[1] /\ \A i \in 1..k - 1 : f[i + 1] = f[i] \o s[i + 1]
    BY Zenon, <1>3 DEF Beginnings
  <1>5. PICK h : /\ ParseQuery(t) = PairsWith(t, h[1..n], n + 1) /\ h[1..0] = NoPairs
                 /\ \A m \in 1..n : h[1..m] = ParseNext(t, h[1..m - 1], m)
    BY Zenon, ParseScans
  <1> DEFINE none == <<>>
             U == {s[i][1] : i \in 1..k}
             before(m) == IF m = 0 THEN none ELSE f[m]
             ends(m) == NamedPair(Slice(t, PieceStart(t, m + 1), m + 1))
             D == {m \in 0..n : ReadSoFar(h[1..m], t, m, before(m)) /\ before(m) \in Seq(U)}
  <1> HIDE DEF k
  <1>6. \A i \in 1..k : s[i] = none \/ \E pair : s[i] = <<pair>>
    BY Zenon, <1>2 DEF PairsEndingAt, NamedPair
  <1>7. none \in Seq(U)
    BY EmptySeq
  <1> HIDE DEF none
  <1>8. \A i \in 1..k : s[i] \in Seq(U)
    <2> SUFFICES ASSUME NEW i \in 1..k
                 PROVE  s[i] \in Seq(U)
      OBVIOUS
    <2>1. CASE s[i] = none
      BY Zenon, <1>7, <2>1
    <2>2. ASSUME NEW pair, s[i] = <<pair>>
          PROVE  s[i] \in Seq(U)
      <3>1. s[i][1] = pair
        BY <2>2
      <3>2. pair \in U
        BY Zenon, <3>1
      <3> HIDE DEF U
      <3>3. <<pair>> \in Seq(U)
        BY <3>2
      <3> QED
        BY Zenon, <2>2, <3>3
    <2> QED
      BY Zenon, <1>6, <2>1, <2>2
  <1> HIDE DEF U
  <1>9. ASSUME NEW m \in 0..n
        PROVE  m + 1 \in 1..k /\ before(m + 1) = f[m + 1] /\ f[m + 1] = before(m) \o s[m + 1]
    <2>1. m + 1 \in 1..k /\ m + 1 # 0 /\ 0 + 1 = 1 /\ 1 \in 1..k /\ (m = 0 \/ m \in 1..k - 1)
      BY <1>1 DEF k
    <2>2. CASE m = 0
      <3>1. s[1] \in Seq(U)
        BY Zenon, <1>8, <2>1
      <3>2. none \o s[1] = s[1]
        BY <3>1, ConcatEmptySeq DEF none
      <3> QED
        BY Zenon, <1>4, <2>1, <2>2, <3>2
    <2>3. CASE m # 0
      BY Zenon, <1>4, <2>1, <2>3
    <2> QED
      BY Zenon, <2>2, <2>3
  <1>10. ASSUME NEW m \in 0..n, m \in D, s[m + 1] = ends(m)
         PROVE  PairsWith(t, h[1..m], m + 1) = f[m + 1]
    <2> DEFINE old == before(m)
               new == PairsWith(t, h[1..m], m + 1)
               e == s[m + 1]
    <2>1. old \in Seq(U) /\ e \in Seq(U) /\ f[m + 1] = old \o e /\ ReadSoFar(h[1..m], t, m, old)
      BY Zenon, <1>8, <1>9, <1>10
    <2>2. \/ ends(m) = <<>> /\ new = old
          \/ \E pair : ends(m) = <<pair>> /\ new = Append(old, pair)
      <3> DEFINE c == h[1..m]
      <3> HIDE DEF old, c
      <3>1. PieceEnds(t, c, old, m + 1)
        BY <2>1, ReadEnds DEF c
      <3> QED
        BY Zenon, <3>1 DEF PieceEnds, c
    <2>3. \/ e = <<>> /\ new = old
          \/ \E pair : e = <<pair>> /\ new = Append(old, pair)
      BY Zenon, <1>10, <2>2
    <2> HIDE DEF old, new, e
    <2>4. new = old \o e
      BY <2>1, <2>3, PairsFollow
    <2> QED
      BY Zenon, <2>1, <2>4 DEF new, e
  <1>11. 0 \in D
    <2>1. 0 \in 0..n /\ 1 \in 1..0 + 1 /\ 0 \in Nat /\ (0 + 1) - 1 = 0 /\ before(0) = none
      BY <1>1
    <2>2. NoneIn(t, AMP, 1, 0) /\ NoneIn(t, EQUALS, 1, 0)
      BY DEF NoneIn
    <2>3. NoPairs = State(none, 1, 0)
      BY DEF NoPairs, State, none
    <2>4. FirstEquals(t, 1, 0 + 1, 0)
      BY Zenon, <2>1, <2>2 DEF FirstEquals
    <2>5. ReadSoFar(h[1..0], t, 0, none)
      BY Zenon, <1>5, <2>1, <2>2, <2>3, <2>4 DEF ReadSoFar
    <2> QED
      BY Zenon, <1>7, <2>1, <2>5
  <1>12. ASSUME NEW m \in 0..n - 1, m \in D
         PROVE  m + 1 \in D
    <2> DEFINE i == m + 1
               old == before(m)
               c == h[1..m]
               new == h[1..i]
    <2>1. i \in 1..n /\ m \in 0..n /\ m \in 0..Len(t) /\ m \in Nat /\ i - 1 = m /\ i # k /\ i \in 0..n
      BY <1>1 DEF k
    <2>2. new = ParseNext(t, c, i) /\ ReadSoFar(c, t, m, old) /\ old \in Seq(U)
      BY Zenon, <1>5, <1>12, <2>1
    <2>3. /\ i \in 1..k /\ before(i) = f[i] /\ f[i] = old \o s[i]
          /\ s[i] = IF t[i] = AMP THEN ends(m) ELSE none
      <3>1. s[i] = PairsEndingAt(t, i)
        BY Zenon, <1>2, <1>9, <2>1
      <3> QED
        BY Zenon, <1>9, <2>1, <3>1 DEF PairsEndingAt, none, k
    <2>4. before(i) \in Seq(U)
      <3>1. s[i] \in Seq(U)
        BY Zenon, <1>8, <2>3
      <3> DEFINE e == s[i]
      <3> HIDE DEF e, old
      <3>2. old \o e \in Seq(U)
        BY <2>2, <3>1, ConcatProperties DEF e
      <3> QED
        BY Zenon, <2>3, <3>2 DEF e
    <2>5. CASE t[i] # AMP
      <3>1. old \o none = old
        <4> HIDE DEF old
        <4> QED
          BY <2>2, ConcatEmptySeq DEF none
      <3>2. before(i) = old
        BY Zenon, <2>3, <2>5, <3>1
      <3> HIDE DEF old, c
      <3>3. ReadSoFar(ParseNext(t, c, m + 1), t, m + 1, old)
        BY <2>1, <2>2, <2>5, ReadInside
      <3> QED
        BY Zenon, <2>1, <2>2, <2>4, <3>2, <3>3
    <2>6. CASE t[i] = AMP
      <3>1. PairsWith(t, c, i) = f[i]
        BY Zenon, <1>10, <1>12, <2>1, <2>3, <2>6
      <3>2. PICK a, q : c = State(old, a, q)
        BY Zenon, <2>2 DEF ReadSoFar
      <3>3. new = State(f[i], i + 1, 0)
        <4>1. NextStates(t, old, a, q, i)
          BY NextOf
        <4> HIDE DEF old, c, i
        <4> QED
          BY Zenon, <2>2, <2>6, <3>1, <3>2, <4>1 DEF NextStates
      <3>4. /\ i + 1 \in 1..i + 1 /\ 0 \in Nat /\ t[(i + 1) - 1] = AMP
            /\ NoneIn(t, AMP, i + 1, i) /\ NoneIn(t, EQUALS, i + 1, (i + 1) - 1)
        BY <2>6 DEF NoneIn
      <3>5. FirstEquals(t, i + 1, i + 1, 0)
        BY Zenon, <3>4 DEF FirstEquals
      <3> HIDE DEF before
      <3>6. ReadSoFar(new, t, i, f[i])
        BY Zenon, <3>3, <3>4, <3>5 DEF ReadSoFar
      <3> QED
        BY Zenon, <2>1, <2>3, <2>4, <3>6
    <2> QED
      BY Zenon, <2>5, <2>6
  <1> HIDE DEF D
  <1>13. 0..n \subseteq D
    BY <1>1, <1>11, <1>12, BoundedInduction
  <1>14. s[n + 1] = ends(n)
    BY Zenon, <1>1, <1>2, <1>9 DEF PairsEndingAt
  <1>15. PairsWith(t, h[1..n], n + 1) = f[n + 1]
    BY Zenon, <1>1, <1>10, <1>13, <1>14
  <1> QED
    BY Zenon, <1>3, <1>5, <1>15 DEF s, k, n

\* h says what has been read after some of the characters.
Parsing(h, t) == \A m \in 1..Len(t) : h[1..m] = ParseNext(t, h[1..m - 1], m)

\* A piece that is read up to its end.
PairRead(t, h, end, pairs, pair) == PairsWith(t, h[1..end - 1], end) = Append(pairs, pair)

\* A piece without a separator is read as its pair, wherever it stands.
LEMMA PieceRead ==
  ASSUME NEW t \in Seq(Nat), NEW h, Parsing(h, t), NEW pairs, NEW a \in Nat \ {0},
         a # 1 => t[a - 1] = AMP, h[1..a - 1] = State(pairs, a, 0),
         NEW piece \in Seq(Nat), NoneIn(piece, AMP, 1, Len(piece)), PartAt(t, a, piece),
         NEW end, end = a + Len(piece), end <= Len(t) + 1, NEW pair, NamedPair(piece) = <<pair>>
  PROVE  PairRead(t, h, end, pairs, pair)
  <1> DEFINE n == Len(t)
             l == Len(piece)
             D == {m \in 0..l : ReadSoFar(h[1..a - 1 + m], t, a - 1 + m, pairs)}
  <1>1. n \in Nat /\ l \in Nat /\ end = a + l /\ end <= n + 1
    BY LenProperties
  <1>2. \A m \in 1..n : h[1..m] = ParseNext(t, h[1..m - 1], m)
    BY Zenon DEF Parsing
  <1>3. NoneIn(t, AMP, a, end - 1)
    BY <1>1, NoneInPart
  <1> HIDE DEF n, l
  <1>4. 0 \in D
    <2> DEFINE m == a - 1
    <2>1. /\ m + 0 = m /\ 0 \in 0..l /\ a \in 1..m + 1 /\ m + 1 = a /\ 0 \in Nat
          /\ NoneIn(t, AMP, a, m) /\ NoneIn(t, EQUALS, a, a - 1)
      BY <1>1 DEF NoneIn
    <2>2. FirstEquals(t, a, a, 0)
      BY Zenon, <2>1 DEF FirstEquals
    <2>3. h[1..m] = State(pairs, a, 0) /\ (a # 1 => t[a - 1] = AMP)
      OBVIOUS
    <2> HIDE DEF m
    <2>4. ReadSoFar(h[1..m], t, m, pairs)
      BY Zenon, <2>1, <2>2, <2>3 DEF ReadSoFar
    <2>5. ReadSoFar(h[1..m + 0], t, m + 0, pairs)
      BY Zenon, <2>1, <2>4
    <2> QED
      BY Zenon, <2>1, <2>5 DEF m
  <1>5. ASSUME NEW m \in 0..l - 1, m \in D
        PROVE  m + 1 \in D
    <2> DEFINE j == a - 1 + m
    <2>1. /\ j \in Nat /\ j + 1 \in 1..n /\ (j + 1) - 1 = j /\ a - 1 + (m + 1) = j + 1 /\ m + 1 \in 0..l
          /\ j + 1 \in a..end - 1
      BY <1>1
    <2>2. ReadSoFar(h[1..j], t, j, pairs)
      BY Zenon, <1>5
    <2>3. t[j + 1] # AMP
      BY Zenon, <1>3, <2>1 DEF NoneIn
    <2> HIDE DEF j
    <2>4. ReadSoFar(ParseNext(t, h[1..j], j + 1), t, j + 1, pairs)
      BY <2>1, <2>2, <2>3, ReadInside
    <2>5. ReadSoFar(h[1..a - 1 + (m + 1)], t, a - 1 + (m + 1), pairs)
      BY Zenon, <1>2, <2>1, <2>4
    <2> QED
      BY Zenon, <2>1, <2>5
  <1> HIDE DEF D
  <1>6. 0..l \subseteq D
    BY <1>1, <1>4, <1>5, BoundedInduction
  <1> DEFINE k == end - 1
  <1>7. l \in 0..l /\ a - 1 + l = k /\ k \in 0..n /\ k + 1 = end
    <2>1. a \in Nat \ {0} /\ l \in Nat /\ n \in Nat
      BY Zenon, <1>1
    <2>2. end = a + l /\ end <= n + 1
      BY Zenon, <1>1
    <2> DEFINE e == a + l
    <2>3. e = end
      BY Zenon, <2>2
    <2>4. e <= n + 1
      BY Zenon, <2>2, <2>3
    <2>5. l \in 0..l /\ a - 1 + l = e - 1 /\ e - 1 \in 0..n /\ (e - 1) + 1 = e
      BY <2>1, <2>4
    <2> HIDE DEF e
    <2> QED
      BY Zenon, <2>3, <2>5
  <1>8. ReadSoFar(h[1..k], t, k, pairs)
    BY Zenon, <1>6, <1>7 DEF D
  <1> HIDE DEF k
  <1>9. PieceEnds(t, h[1..k], pairs, end)
    BY Zenon, <1>7, <1>8, ReadEnds DEF n
  <1>10. PieceStart(t, end) = a
    <2>1. end \in Nat /\ a \in 1..end
      BY <1>1
    <2> QED
      BY <1>3, <2>1, PieceStartIs
  <1>11. Slice(t, a, end) = piece
    BY <1>1, Part DEF n, l
  <1>12. <<pair>> # <<>> /\ \A x : <<x>> = <<pair>> => x = pair
    <2>1. \A x : <<x>>[1] = x
      OBVIOUS
    <2>2. Len(<<pair>>) = 1 /\ Len(<<>>) = 0
      OBVIOUS
    <2>3. <<pair>> # <<>>
      BY <2>2
    <2> QED
      BY Zenon, <2>1, <2>3
  <1> QED
    BY Zenon, <1>9, <1>10, <1>11, <1>12 DEF PieceEnds, PairRead, k

\* The text of a field, as it is created and as it is read.
QueryField(x, v) == (x \o <<EQUALS>>) \o Encode(v)
QueryName(x) == x \in Seq(Nat) /\ x # <<>> /\ NoneIn(x, AMP, 1, Len(x)) /\ NoneIn(x, EQUALS, 1, Len(x))
ReadsBack(t, x, v) ==
    t \in Seq(Nat) /\ NoneIn(t, AMP, 1, Len(t)) /\ NamedPair(t) = <<<<x, v>>>>

\* A field's text has no separator and is one name and value.
LEMMA QueryFieldIs ==
  ASSUME NEW x, QueryName(x), NEW v \in Seq(0..255)
  PROVE  ReadsBack(QueryField(x, v), x, v)
  <1> DEFINE e == Encode(v)
             eq == <<EQUALS>>
             y == x \o eq
             t == y \o e
             p == Len(x) + 1
  <1>1. /\ x \in Seq(Nat) /\ x # <<>> /\ NoneIn(x, AMP, 1, Len(x)) /\ NoneIn(x, EQUALS, 1, Len(x))
        /\ Len(x) \in Nat
    <2>1. x \in Seq(Nat)
      BY Zenon DEF QueryName
    <2> QED
      BY <2>1, LenProperties DEF QueryName
  <1>2. Decode(e) = v /\ e \in Seq(Nat) /\ \A i \in 1..Len(e) : e[i] \in Unreserved \cup {PERCENT}
    BY Zenon, EncodingLosesNothing
  <1>3. eq \in Seq(Nat) /\ Len(eq) = 1 /\ eq[1] = EQUALS /\ NoneIn(eq, AMP, 1, Len(eq)) /\ 1 \in 1..Len(eq)
    BY DEF EQUALS, AMP, NoneIn
  <1>4. NoneIn(e, AMP, 1, Len(e))
    <2>1. AMP \notin Unreserved \cup {PERCENT}
      BY DEF Unreserved, Digits, Letters, PERCENT, AMP
    <2> QED
      BY Zenon, <1>2, <2>1 DEF NoneIn
  <1> HIDE DEF e, eq
  <1>5. Chained(y, x, eq)
    BY <1>1, <1>3, Chain
  <1>6. /\ y \in Seq(Nat) /\ Len(y) = Len(x) + Len(eq) /\ PartAt(y, 1, x) /\ PartAt(y, Len(x) + 1, eq)
    BY Zenon, <1>5 DEF Chained
  <1> HIDE DEF y
  <1>7. Chained(t, y, e)
    BY <1>2, <1>6, Chain
  <1>8. /\ t \in Seq(Nat) /\ Len(t) = Len(y) + Len(e) /\ PartAt(t, 1, y) /\ PartAt(t, Len(y) + 1, e)
    BY Zenon, <1>7 DEF Chained
  <1> HIDE DEF t
  <1>9. Len(e) \in Nat /\ Len(eq) \in Nat /\ Len(y) \in Nat
    BY <1>2, <1>3, <1>6, LenProperties
  <1>10. Len(y) = p /\ Len(t) = p + Len(e) /\ p \in Nat \ {0}
    BY <1>1, <1>3, <1>6, <1>8, <1>9
  <1>11. PartAt(t, 1, x) /\ PartAt(t, p, eq) /\ PartAt(t, p + 1, e)
    <2>1. 1 + Len(x) <= Len(y) + 1 /\ p + Len(eq) <= Len(y) + 1 /\ 1 \in Nat \ {0}
      BY <1>1, <1>3, <1>10
    <2>2. PartAt(t, 1, x)
      BY Zenon, <1>1, <1>6, <1>8, <1>9, <2>1, Lift
    <2>3. PartAt(t, p, eq)
      BY Zenon, <1>6, <1>8, <1>9, <1>10, <2>1, Lift
    <2> QED
      BY Zenon, <1>8, <1>10, <2>2, <2>3
  <1>12. t[p] = EQUALS
    <2>1. p + 1 - 1 = p
      BY <1>10
    <2> QED
      BY Zenon, <1>3, <1>11, <2>1 DEF PartAt
  <1>13. NoneIn(t, EQUALS, 1, p - 1) /\ NoneIn(t, AMP, 1, p - 1) /\ NoneIn(t, AMP, p + 1, Len(t))
    <2>1. 1 + Len(x) - 1 = p - 1 /\ 1 \in Nat /\ (p + 1) + Len(e) - 1 = Len(t) /\ p + 1 \in Nat
      BY <1>1, <1>9, <1>10
    <2>2. NoneIn(t, EQUALS, 1, 1 + Len(x) - 1) /\ NoneIn(t, AMP, 1, 1 + Len(x) - 1)
      BY Zenon, <1>1, <1>11, <2>1, NoneInPart
    <2>3. NoneIn(t, AMP, p + 1, (p + 1) + Len(e) - 1)
      BY Zenon, <1>4, <1>9, <1>11, <2>1, NoneInPart
    <2> QED
      BY Zenon, <2>1, <2>2, <2>3
  <1>14. NoneIn(t, AMP, 1, Len(t))
    <2>1. EQUALS # AMP
      BY DEF EQUALS, AMP
    <2> HIDE DEF p
    <2>2. \A i \in 1..Len(t) : i \in 1..p - 1 \/ i = p \/ i \in p + 1..Len(t)
      BY <1>9, <1>10
    <2> QED
      BY Zenon, <1>12, <1>13, <2>1, <2>2 DEF NoneIn
  <1> HIDE DEF p
  <1>15. Find(t, EQUALS, 1) = p /\ p # 0
    <2>1. p \in 1..Len(t) /\ 1 \in Nat /\ Len(t) \in Nat /\ p # 0
      BY <1>9, <1>10
    <2> QED
      BY <1>12, <1>13, <2>1, FindIs
  <1>16. Slice(t, 1, p) = x
    <2>1. p = 1 + Len(x) /\ p <= Len(t) + 1 /\ 1 \in Nat \ {0}
      BY <1>1, <1>9, <1>10 DEF p
    <2> QED
      BY <1>1, <1>8, <1>11, <2>1, Part
  <1>17. From(t, p + 1) = e
    <2> DEFINE end == Len(t) + 1
    <2>1. end = (p + 1) + Len(e) /\ end <= Len(t) + 1 /\ p + 1 \in Nat \ {0} /\ end - 1 = Len(t)
      BY <1>9, <1>10
    <2>2. Slice(t, p + 1, end) = e
      BY <1>2, <1>8, <1>11, <2>1, Part
    <2> QED
      BY Zenon, <2>1, <2>2 DEF From, Slice
  <1>18. NamedPair(t) = <<<<x, v>>>>
    BY Zenon, <1>1, <1>2, <1>15, <1>16, <1>17 DEF NamedPair
  <1>19. ReadsBack(t, x, v)
    BY Zenon, <1>8, <1>14, <1>18 DEF ReadsBack
  <1> QED
    BY Zenon, <1>19 DEF QueryField, t, y, eq, e

\* Query strings of any number of fields are read back as they were created: of names
\* that neither '&' nor '=' is in, and of any values.
THEOREM QueriesReadBack ==
  ASSUME NEW fields \in Seq(Seq(Nat) \X Seq(0..255)),
         \A i \in 1..Len(fields) : QueryName(fields[i][1])
  PROVE  ParseQuery(CreateQuery(fields)) = fields
  <1> DEFINE n == Len(fields)
             texts == [i \in DOMAIN fields |-> fields[i][1] \o <<EQUALS>> \o Encode(fields[i][2])]
             s == [i \in DOMAIN texts |-> IF i = 1 THEN texts[i] ELSE <<AMP>> \o texts[i]]
             q == FlattenSeq(s)
             none == <<>>
             amp == <<AMP>>
             X(i) == QueryField(fields[i][1], fields[i][2])
  <1>1. /\ n \in Nat /\ DOMAIN fields = 1..n
        /\ \A i \in 1..n : /\ QueryName(fields[i][1]) /\ fields[i][2] \in Seq(0..255)
                           /\ fields[i] = <<fields[i][1], fields[i][2]>>
    <2>1. n \in Nat /\ DOMAIN fields = 1..n /\ \A i \in 1..n : fields[i] \in Seq(Nat) \X Seq(0..255)
      BY LenProperties, ElementOfSeq
    <2> DEFINE A == Seq(Nat)
               B == Seq(0..255)
    <2> HIDE DEF A, B
    <2>2. \A z \in A \X B : z[2] \in B /\ z = <<z[1], z[2]>>
      OBVIOUS
    <2>3. \A i \in 1..n : fields[i][2] \in B /\ fields[i] = <<fields[i][1], fields[i][2]>>
      BY Zenon, <2>1, <2>2 DEF A, B
    <2> QED
      BY Zenon, <2>1, <2>3 DEF B
  <1>2. CreateQuery(fields) = q
    BY Zenon DEF CreateQuery, Joined
  <1>3. /\ \A i \in 1..n : ReadsBack(X(i), fields[i][1], fields[i][2])
        /\ \A i \in 1..n : X(i) \in Seq(Nat)
    <2>1. \A i \in 1..n : ReadsBack(X(i), fields[i][1], fields[i][2])
      BY Zenon, <1>1, QueryFieldIs
    <2> QED
      BY Zenon, <2>1 DEF ReadsBack
  <1>4. Len(s) = n /\ \A i \in 1..n : s[i] = IF i = 1 THEN X(i) ELSE amp \o X(i)
    <2> DEFINE g(i) == IF i = 1 THEN X(i) ELSE amp \o X(i)
    <2>1. DOMAIN texts = 1..n /\ \A i \in 1..n : texts[i] = X(i)
      BY Zenon, <1>1 DEF QueryField
    <2> HIDE DEF texts, X
    <2>2. \A i \in 1..n : s[i] = g(i)
      BY Zenon, <2>1
    <2>3. s = [i \in 1..n |-> s[i]]
      BY Zenon, <2>1
    <2> HIDE DEF s, n
    <2> DEFINE r(i) == s[i]
    <2> HIDE DEF r
    <2>4. Len([i \in 1..n |-> r(i)]) = n
      BY <1>1
    <2>5. s = [i \in 1..n |-> r(i)]
      BY Zenon, <2>3 DEF r
    <2>6. Len(s) = n
      BY Zenon, <2>4, <2>5
    <2> QED
      BY Zenon, <2>2, <2>6
  <1> HIDE DEF s, texts, n
  <1>5. none \in Seq(Nat) /\ Len(none) = 0 /\ amp \in Seq(Nat) /\ Len(amp) = 1 /\ amp[1] = AMP
    BY DEF AMP
  <1>6. CASE n = 0
    <2>1. s = none /\ fields = none
      <3>1. DOMAIN s = 1..0 /\ DOMAIN fields = 1..0
        BY Zenon, <1>1, <1>6 DEF s, texts
      <3>2. 1..0 = {}
        OBVIOUS
      <3>3. s = [i \in {} |-> i]
        BY <3>1, <3>2 DEF s
      <3>4. fields = [i \in {} |-> i] /\ none = [i \in {} |-> i]
        BY <1>6, <3>1, <3>2 DEF n
      <3> QED
        BY Zenon, <3>3, <3>4
    <2>2. q = none
      BY Zenon, <1>4, <1>6, <2>1 DEF FlattenSeq
    <2> HIDE DEF q, none
    <2>3. PICK h : ParseQuery(none) = PairsWith(none, h[1..Len(none)], Len(none) + 1) /\ h[1..0] = NoPairs
      BY Zenon, <1>5, ParseScans
    <2>4. NoPairs = State(none, 1, 0)
      BY DEF NoPairs, State, none
    <2>5. ReadSoFar(NoPairs, none, 0, none)
      <3>1. /\ 1 \in 1..0 + 1 /\ 0 \in Nat /\ NoneIn(none, AMP, 1, 0)
            /\ NoneIn(none, EQUALS, 1, (0 + 1) - 1) /\ ~(1 # 1)
        BY DEF NoneIn
      <3> QED
        BY Zenon, <2>4, <3>1 DEF ReadSoFar, FirstEquals
    <2>6. State(none, 1, 0).name = 1 /\ State(none, 1, 0).equals = 0 /\ State(none, 1, 0).pairs = none
      BY DEF State
    <2>7. Slice(none, 1, 0 + 1) = none
      BY SubSeqEmpty DEF Slice, none
    <2>8. PairsWith(none, NoPairs, 0 + 1) = none
      BY Zenon, <2>4, <2>6, <2>7 DEF PairsWith, none
    <2> QED
      BY Zenon, <1>2, <1>5, <2>1, <2>2, <2>3, <2>8
  <1>7. CASE n # 0
    <2>1. /\ n \in Nat \ {0} /\ n \in 1..n /\ 1 \in 1..n
      BY <1>1, <1>7
    <2>2. \A i \in 1..n : s[i] \in Seq(Nat)
      <3> SUFFICES ASSUME NEW i \in 1..n
                   PROVE  s[i] \in Seq(Nat)
        OBVIOUS
      <3> DEFINE y == X(i)
      <3>1. y \in Seq(Nat) /\ s[i] = IF i = 1 THEN y ELSE amp \o y
        BY Zenon, <1>3, <1>4
      <3> HIDE DEF y, amp
      <3>2. amp \o y \in Seq(Nat)
        BY <1>5, <3>1, ConcatProperties
      <3> QED
        BY Zenon, <3>1, <3>2
    <2>3. PICK f : /\ q = f[n] /\ Beginnings(f, s, n) /\ Len(f[n]) \in Nat
                   /\ \A i \in 1..n : f[i] \in Seq(Nat) /\ PartAt(f[n], 1, f[i]) /\ Len(f[i]) <= Len(f[n])
      BY Zenon, <1>4, <2>1, <2>2, FlattenedParts
    <2> HIDE DEF q, none, amp
    <2>4. f[1] = s[1] /\ \A i \in 1..n - 1 : f[i + 1] = f[i] \o s[i + 1]
      BY Zenon, <2>3 DEF Beginnings
    <2>5. q \in Seq(Nat) /\ Len(q) \in Nat
      BY Zenon, <2>1, <2>3
    <2>6. PICK h : ParseQuery(q) = PairsWith(q, h[1..Len(q)], Len(q) + 1) /\ h[1..0] = NoPairs /\ Parsing(h, q)
      <3>1. PICK h : /\ ParseQuery(q) = PairsWith(q, h[1..Len(q)], Len(q) + 1) /\ h[1..0] = NoPairs
                     /\ \A m \in 1..Len(q) : h[1..m] = ParseNext(q, h[1..m - 1], m)
        BY Zenon, <2>5, ParseScans
      <3> QED
        BY Zenon, <3>1 DEF Parsing
    <2> DEFINE upTo(k) == SubSeq(fields, 1, k)
               read(l) == PairsWith(q, h[1..l], l + 1)
               D == {k \in 0..n - 1 : read(Len(f[k + 1])) = upTo(k + 1)}
    <2>7. ASSUME NEW k \in 1..n, NEW a \in Nat \ {0}, a # 1 => q[a - 1] = AMP,
                 h[1..a - 1] = State(upTo(k - 1), a, 0), PartAt(q, a, X(k)),
                 NEW end, end = a + Len(X(k)), end <= Len(q) + 1
          PROVE  PairsWith(q, h[1..end - 1], end) = upTo(k)
      <3> DEFINE piece == X(k)
                 pair == fields[k]
                 pairs == upTo(k - 1)
      <3>1. piece \in Seq(Nat) /\ NoneIn(piece, AMP, 1, Len(piece)) /\ NamedPair(piece) = <<pair>>
        BY Zenon, <1>1, <1>3 DEF ReadsBack
      <3>2. h[1..a - 1] = State(pairs, a, 0) /\ PartAt(q, a, piece) /\ end = a + Len(piece)
        BY Zenon, <2>7
      <3>3. Append(pairs, pair) = upTo(k)
        <4>1. k - 1 \in 0..Len(fields) - 1 /\ (k - 1) + 1 = k
          BY <2>1 DEF n
        <4>2. Append(SubSeq(fields, 1, k - 1), fields[(k - 1) + 1]) = SubSeq(fields, 1, (k - 1) + 1)
          BY <4>1, Prefix
        <4> QED
          BY Zenon, <4>1, <4>2
      <3> HIDE DEF piece, pair, pairs, upTo
      <3>4. PairsWith(q, h[1..end - 1], end) = Append(pairs, pair)
        <4>1. /\ q \in Seq(Nat) /\ Parsing(h, q) /\ a \in Nat \ {0} /\ (a # 1 => q[a - 1] = AMP)
              /\ h[1..a - 1] = State(pairs, a, 0) /\ piece \in Seq(Nat) /\ NoneIn(piece, AMP, 1, Len(piece))
              /\ PartAt(q, a, piece) /\ end = a + Len(piece) /\ end <= Len(q) + 1
              /\ NamedPair(piece) = <<pair>>
          BY Zenon, <2>5, <2>6, <2>7, <3>1, <3>2
        <4>2. PairRead(q, h, end, pairs, pair)
          BY Zenon, <4>1, PieceRead
        <4> QED
          BY Zenon, <4>2 DEF PairRead
      <3> QED
        BY Zenon, <3>3, <3>4
    <2> HIDE DEF X
    <2>8. 0 \in D
      <3> DEFINE end == Len(f[1]) + 1
      <3>1. /\ 0 + 1 = 1 /\ 1 - 1 = 0 /\ 1 \in Nat \ {0} /\ ~(1 # 1) /\ 0 \in 0..n - 1
        BY <2>1
      <3>2. f[1] = X(1) /\ f[1] \in Seq(Nat) /\ PartAt(q, 1, f[1]) /\ Len(f[1]) <= Len(q)
        BY Zenon, <1>4, <2>1, <2>3, <2>4
      <3>3. end = 1 + Len(f[1]) /\ end <= Len(q) + 1 /\ end - 1 = Len(f[1])
        BY <2>5, <3>2, LenProperties
      <3>4. upTo(0) = none
        BY SubSeqEmpty DEF none
      <3>5. NoPairs = State(none, 1, 0)
        BY DEF NoPairs, State, none
      <3>6. h[1..1 - 1] = State(upTo(1 - 1), 1, 0)
        BY Zenon, <2>6, <3>1, <3>4, <3>5
      <3> HIDE DEF end, upTo
      <3>7. PairsWith(q, h[1..end - 1], end) = upTo(1)
        BY Zenon, <2>1, <2>7, <3>1, <3>2, <3>3, <3>6
      <3>8. read(Len(f[0 + 1])) = upTo(0 + 1)
        BY Zenon, <3>1, <3>3, <3>7 DEF end
      <3> QED
        BY Zenon, <3>1, <3>8
    <2>9. ASSUME NEW m \in 0..(n - 1) - 1, m \in D
          PROVE  m + 1 \in D
      <3> DEFINE k == m + 1
                 x == f[k]
                 c == s[k + 1]
                 z == f[k + 1]
                 y == X(k + 1)
                 p == Len(x)
                 a == p + 2
                 end == Len(z) + 1
      <3>1. /\ k \in 1..n - 1 /\ k \in 1..n /\ k + 1 \in 1..n /\ k \in 0..n - 1 /\ (k + 1) - 1 = k /\ k + 1 # 1
        BY <2>1
      <3>2. /\ x \in Seq(Nat) /\ c = amp \o y /\ y \in Seq(Nat) /\ c \in Seq(Nat) /\ z = x \o c
            /\ PartAt(q, 1, z) /\ Len(z) <= Len(q)
        BY Zenon, <1>3, <1>4, <2>2, <2>3, <2>4, <3>1
      <3>3. PairsWith(q, h[1..p], p + 1) = upTo(k)
        BY Zenon, <2>9
      <3> HIDE DEF x, c, z, y
      <3>4. Chained(z, x, c) /\ Chained(c, amp, y)
        BY <1>5, <3>2, Chain
      <3>5. /\ Len(z) = p + Len(c) /\ p \in Nat /\ Len(c) \in Nat /\ PartAt(z, p + 1, c)
            /\ Len(c) = 1 + Len(y) /\ Len(y) \in Nat /\ PartAt(c, 1, amp) /\ PartAt(c, 1 + 1, y)
        BY Zenon, <1>5, <3>4 DEF Chained
      <3> HIDE DEF p
      <3>6. /\ p + 1 \in Nat \ {0} /\ (p + 1) + Len(c) <= Len(z) + 1 /\ Len(z) \in Nat
            /\ a \in Nat \ {0} /\ a # 1 /\ a - 1 = p + 1 /\ p + 1 \in 1..Len(q) /\ (p + 1) - 1 = p /\ (p + 1) + 1 = a
            /\ end = a + Len(y) /\ end <= Len(q) + 1 /\ end - 1 = Len(z)
        <4> DEFINE lc == Len(c)
                   ly == Len(y)
                   lz == Len(z)
                   lq == Len(q)
        <4>1. lz = p + lc /\ lc = 1 + ly /\ p \in Nat /\ ly \in Nat /\ lz <= lq /\ lq \in Nat
          BY Zenon, <2>5, <3>2, <3>5
        <4> HIDE DEF lc, ly, lz, lq
        <4>2. lz \in Nat /\ lz = p + 1 + ly
          BY <4>1
        <4>3. /\ p + 1 \in Nat \ {0} /\ (p + 1) + lc <= lz + 1
              /\ a \in Nat \ {0} /\ a # 1 /\ a - 1 = p + 1 /\ p + 1 \in 1..lq /\ (p + 1) - 1 = p /\ (p + 1) + 1 = a
              /\ lz + 1 = a + ly /\ lz + 1 <= lq + 1 /\ (lz + 1) - 1 = lz
          BY <4>1, <4>2
        <4> QED
          BY Zenon, <4>2, <4>3 DEF lc, ly, lz, lq
      <3>7. PartAt(q, p + 1, c)
        BY Zenon, <3>2, <3>5, <3>6, Lift
      <3>8. q[p + 1] = AMP /\ PartAt(q, a, y)
        <4>1. \A i \in 1..Len(c) : q[p + 1 + i - 1] = c[i]
          BY Zenon, <3>7 DEF PartAt
        <4>2. /\ 1 \in 1..Len(c) /\ p + 1 + 1 - 1 = p + 1 /\ 1 \in 1..1 /\ 1 + 1 - 1 = 1
              /\ \A i \in 1..Len(y) : /\ i + 1 \in 1..Len(c) /\ p + 1 + (i + 1) - 1 = a + i - 1
                                      /\ 1 + 1 + i - 1 = i + 1
          BY <3>5, <3>6
        <4>3. c[1] = AMP /\ \A i \in 1..Len(y) : c[i + 1] = y[i]
          BY Zenon, <1>5, <3>5, <4>2 DEF PartAt
        <4>4. \A i \in 1..Len(y) : q[a + i - 1] = y[i]
          BY Zenon, <4>1, <4>2, <4>3
        <4>5. q[p + 1] = AMP
          BY Zenon, <4>1, <4>2, <4>3
        <4> QED
          BY Zenon, <4>4, <4>5 DEF PartAt
      <3>9. h[1..a - 1] = State(upTo((k + 1) - 1), a, 0)
        <4>1. h[1..p + 1] = ParseNext(q, h[1..p], p + 1)
          BY Zenon, <2>6, <3>6 DEF Parsing
        <4>2. ParseNext(q, h[1..p], p + 1) = State(PairsWith(q, h[1..p], p + 1), (p + 1) + 1, 0)
          BY Zenon, <3>8 DEF ParseNext, State
        <4> QED
          BY Zenon, <3>1, <3>3, <3>6, <4>1, <4>2
      <3> HIDE DEF a, end, upTo
      <3>10. PairsWith(q, h[1..end - 1], end) = upTo(k + 1)
        BY Zenon, <2>7, <3>1, <3>6, <3>8, <3>9 DEF y
      <3>11. read(Len(f[k + 1])) = upTo(k + 1)
        BY Zenon, <3>6, <3>10 DEF z, end
      <3> QED
        BY Zenon, <3>1, <3>11
    <2> HIDE DEF D
    <2>10. n - 1 \in Nat /\ n - 1 \in 0..n - 1 /\ (n - 1) + 1 = n
      BY <2>1
    <2>11. 0..n - 1 \subseteq D
      BY <2>8, <2>9, <2>10, BoundedInduction
    <2>12. read(Len(q)) = upTo(n)
      BY Zenon, <2>3, <2>10, <2>11 DEF D
    <2>13. upTo(n) = fields
      BY SubSeqFull DEF n
    <2> QED
      BY Zenon, <1>2, <2>6, <2>12, <2>13
  <1> QED
    BY <1>6, <1>7

\* Whatever a query string is, it is read as its pieces; whatever bytes the values of
\* its fields have, they come back.
THEOREM QueryAlwaysItsPairs == MessageSpec => []QueryIsItsPairs
  <1>1. TextTyped => QueryIsItsPairs
    <2> SUFFICES ASSUME TextTyped
                 PROVE  QueryIsItsPairs
      OBVIOUS
    <2>1. kind \in {"value", "query"} => text \in Seq(0..255) /\ text \in Seq(Nat)
      <3> SUFFICES ASSUME kind \in {"value", "query"}
                   PROVE  text \in Seq(0..255) /\ text \in Seq(Nat)
        OBVIOUS
      <3>1. text \in Seq(Parts[kind]) /\ kind \in DOMAIN Parts
        BY Zenon DEF TextTyped
      <3>2. Parts[kind] \subseteq 0..255
        BY Zenon, <3>1, PartsAssumption
      <3>3. Parts[kind] \subseteq Nat
        BY <3>2
      <3> DEFINE P == Parts[kind]
      <3> HIDE DEF P
      <3> QED
        BY <3>1, <3>2, <3>3, SeqMonotonic DEF P
    <2>2. kind = "query" =>
              ParseQuery(text) = FlattenSeq([end \in 1 .. Len(text) + 1 |-> PairsEndingAt(text, end)])
      BY Zenon, <2>1, ParseQueryIs
    <2>3. ASSUME kind = "value"
          PROVE  LET fields == <<<<<<97>>, text>>, <<<<98>>, Reverse(text)>>>>
                 IN  /\ ParseQuery(CreateQuery(fields)) = fields
                     /\ \A i \in DOMAIN Encode(text) : Encode(text)[i] \in Unreserved \cup {PERCENT}
      <3> DEFINE a == <<97>>
                 b == <<98>>
                 w == Reverse(text)
                 n == Len(text)
                 S == 0..255
                 fields == <<<<a, text>>, <<b, w>>>>
                 e == Encode(text)
      <3>1. text \in Seq(S) /\ n \in Nat /\ \A i \in 1..n : text[i] \in S
        <4>1. text \in Seq(S)
          BY Zenon, <2>1, <2>3
        <4> HIDE DEF S
        <4> QED
          BY <4>1, LenProperties, ElementOfSeq
      <3>2. w \in Seq(S)
        <4> DEFINE g(i) == text[(n - i) + 1]
        <4>1. w = [i \in 1..n |-> g(i)]
          BY Zenon DEF Reverse
        <4> HIDE DEF S, n
        <4>2. \A i \in 1..n : g(i) \in S
          <5>1. \A i \in 1..n : (n - i) + 1 \in 1..n
            BY <3>1
          <5> QED
            BY Zenon, <3>1, <5>1
        <4> HIDE DEF g
        <4>3. [i \in 1..n |-> g(i)] \in Seq(S)
          BY <3>1, <4>2
        <4> QED
          BY Zenon, <4>1, <4>3
      <3>3. QueryName(a) /\ QueryName(b)
        BY DEF QueryName, NoneIn, AMP, EQUALS
      <3>4. a \in Seq(Nat) /\ b \in Seq(Nat)
        OBVIOUS
      <3> HIDE DEF a, b, w, S, n
      <3>5. fields \in Seq(Seq(Nat) \X Seq(S)) /\ Len(fields) = 2 /\ fields[1][1] = a /\ fields[2][1] = b
        BY <3>1, <3>2, <3>4
      <3>6. \A i \in 1..2 : i = 1 \/ i = 2
        OBVIOUS
      <3> HIDE DEF fields
      <3>7. \A i \in 1..Len(fields) : QueryName(fields[i][1])
        BY Zenon, <3>3, <3>5, <3>6
      <3>8. ParseQuery(CreateQuery(fields)) = fields
        BY Zenon, <3>5, <3>7, QueriesReadBack DEF S
      <3>9. e \in Seq(Nat) /\ \A i \in 1..Len(e) : e[i] \in Unreserved \cup {PERCENT}
        BY Zenon, <3>1, EncodingLosesNothing DEF S
      <3> HIDE DEF e
      <3>10. DOMAIN e = 1..Len(e)
        BY <3>9, LenProperties
      <3>11. \A i \in DOMAIN e : e[i] \in Unreserved \cup {PERCENT}
        BY Zenon, <3>9, <3>10
      <3> QED
        BY Zenon, <3>8, <3>11 DEF fields, a, b, w, e
    <2> QED
      BY Zenon, <2>2, <2>3 DEF QueryIsItsPairs
  <1> QED
    BY <1>1, AlwaysTyped, PTL

-----------------------------------------------------------------------------
(* Messages: attributes are read as they were written.                     *)

\* The function that ParseAttributes computes, from the identity on positions: what has
\* been read after some of the characters.
Collects(f, t, id, S) ==
    f = [s \in SUBSET S |-> IF s = {} THEN NoAttributes ELSE AttributeNext(t, f[s \ {Max(s)}], id[Max(s)])]

\* There is such a function on any interval.
LEMMA CollectsExist ==
  ASSUME NEW t, NEW id, NEW n \in Nat
  PROVE  \E f : Collects(f, t, id, 1..n)
  <1> DEFINE D == {m \in 0..n : \E f : Collects(f, t, id, 1..m)}
  <1>1. 0 \in D
    <2> DEFINE f == [s \in SUBSET (1..0) |-> NoAttributes]
    <2>1. \A s \in SUBSET (1..0) : s = {}
      OBVIOUS
    <2>2. f = [s \in SUBSET (1..0) |-> IF s = {} THEN NoAttributes ELSE AttributeNext(t, f[s \ {Max(s)}], id[Max(s)])]
      BY <2>1
    <2> HIDE DEF f
    <2>3. Collects(f, t, id, 1..0)
      BY Zenon, <2>2 DEF Collects
    <2> QED
      BY <2>3
  <1>2. ASSUME NEW m \in 0..n - 1, m \in D
        PROVE  m + 1 \in D
    <2>1. PICK f : Collects(f, t, id, 1..m)
      BY <1>2
    <2> DEFINE g == [s \in SUBSET (1..m + 1) |->
                        IF m + 1 \in s THEN AttributeNext(t, f[s \ {m + 1}], id[m + 1]) ELSE f[s]]
    <2>2. ASSUME NEW s \in SUBSET (1..m + 1)
          PROVE  g[s] = IF s = {} THEN NoAttributes ELSE AttributeNext(t, g[s \ {Max(s)}], id[Max(s)])
      <3>1. CASE m + 1 \in s
        <4>1. Max(s) = m + 1
          <5>1. m + 1 \in Nat /\ s \subseteq 1..m + 1
            OBVIOUS
          <5> QED
            BY <3>1, <5>1, MaxIs
        <4>2. g[s \ {m + 1}] = f[s \ {m + 1}]
          OBVIOUS
        <4> QED
          BY <3>1, <4>1, <4>2
      <3>2. CASE m + 1 \notin s
        <4>1. s \in SUBSET (1..m)
          BY <3>2
        <4>2. \A r \in SUBSET s : r \in SUBSET (1..m + 1) /\ m + 1 \notin r
          BY <3>2
        <4>3. \A r \in SUBSET s : g[r] = f[r]
          BY <4>2
        <4> HIDE DEF g
        <4>4. f[s] = IF s = {} THEN NoAttributes ELSE AttributeNext(t, f[s \ {Max(s)}], id[Max(s)])
          BY Zenon, <2>1, <4>1 DEF Collects
        <4>5. g[s] = f[s] /\ g[s \ {Max(s)}] = f[s \ {Max(s)}]
          <5>1. s \ {Max(s)} \in SUBSET s /\ s \in SUBSET s
            OBVIOUS
          <5> QED
            BY <4>3, <5>1
        <4> QED
          BY <4>4, <4>5
      <3> QED
        BY <3>1, <3>2
    <2>3. Collects(g, t, id, 1..m + 1)
      <3>1. g = [s \in SUBSET (1..m + 1) |-> g[s]]
        OBVIOUS
      <3> HIDE DEF g
      <3> QED
        BY Zenon, <2>2, <3>1 DEF Collects
    <2> HIDE DEF g
    <2> QED
      BY <2>3
  <1> HIDE DEF D
  <1>3. 0..n \subseteq D
    BY <1>1, <1>2, BoundedInduction
  <1> QED
    BY <1>3 DEF D

\* ParseAttributes reads one character after the other.
LEMMA AttributeScans ==
  ASSUME NEW S, NEW t \in Seq(S)
  PROVE  \E f : /\ ParseAttributes(t) = LastAttribute(t, f[1..Len(t)]) /\ f[1..0] = NoAttributes
                /\ \A m \in 1..Len(t) : f[1..m] = AttributeNext(t, f[1..m - 1], m)
  <1> DEFINE n == Len(t)
             id == [i \in DOMAIN t |-> i]
             h == CHOOSE g : Collects(g, t, id, DOMAIN id)
  <1>1. ParseAttributes(t) = LastAttribute(t, h[DOMAIN id])
    BY Zenon DEF ParseAttributes, FoldLeftDomain, FoldLeft, MapThenFoldSet, Collects
  <1>2. n \in Nat /\ DOMAIN id = 1..n /\ \A m \in 1..n : id[m] = m
    BY LenProperties
  <1> HIDE DEF n, id
  <1>3. Collects(h, t, id, 1..n)
    BY <1>2, CollectsExist
  <1> HIDE DEF h
  <1>4. \A s \in SUBSET (1..n) : h[s] = IF s = {} THEN NoAttributes ELSE AttributeNext(t, h[s \ {Max(s)}], id[Max(s)])
    BY Zenon, <1>3 DEF Collects
  <1>5. h[1..0] = NoAttributes
    <2>1. 1..0 \in SUBSET (1..n) /\ 1..0 = {}
      OBVIOUS
    <2> QED
      BY Zenon, <1>4, <2>1
  <1>6. ASSUME NEW m \in 1..n
        PROVE  h[1..m] = AttributeNext(t, h[1..m - 1], m)
    <2>1. m \in Nat /\ 1..m \in SUBSET (1..n) /\ 1..m # {} /\ m \in 1..m /\ 1..m \subseteq 1..m
      <3>1. m \in Nat /\ m \in 1..m /\ \A i \in 1..m : i \in 1..n
        BY <1>2
      <3> QED
        BY <3>1
    <2>2. Max(1..m) = m
      BY <2>1, MaxIs
    <2>3. (1..m) \ {m} = 1..m - 1
      BY <1>2
    <2>4. h[1..m] = AttributeNext(t, h[(1..m) \ {Max(1..m)}], id[Max(1..m)])
      BY Zenon, <1>4, <2>1
    <2> QED
      BY Zenon, <1>2, <2>2, <2>3, <2>4
  <1> QED
    BY Zenon, <1>1, <1>2, <1>5, <1>6 DEF n

\* What has been read of attributes: the pairs, and where the parts of the next start.
At(pairs, x, y, z) == [pairs |-> pairs, at |-> [name |-> x, equals |-> y, value |-> z]]

AttributeSteps(t, pairs, x, y, z, i) ==
    /\ AttributeNext(t, At(pairs, 0, 0, 0), i) =
          IF t[i] \in {SP, SEMICOLON} THEN At(pairs, 0, 0, 0) ELSE At(pairs, i, 0, 0)
    /\ AttributeNext(t, At(pairs, x, 0, 0), i) =
          IF t[i] = SEMICOLON THEN At(Append(pairs, <<Slice(t, x, i), <<>>>>), 0, 0, 0)
          ELSE IF t[i] = EQUALS THEN At(pairs, x, i, 0)
          ELSE At(pairs, x, 0, 0)
    /\ AttributeNext(t, At(pairs, x, y, 0), i) =
          At(pairs, x, y, IF t[i] = QUOTE /\ i < Len(t) THEN i + 1 ELSE i)
    /\ AttributeNext(t, At(pairs, x, y, z), i) =
          IF t[i] \in {QUOTE, SEMICOLON}
          THEN At(Append(pairs, <<Slice(t, x, y), Decode(Slice(t, z, i))>>), 0, 0, 0)
          ELSE At(pairs, x, y, z)
    /\ LastAttribute(t, At(pairs, 0, 0, 0)) = pairs
    /\ LastAttribute(t, At(pairs, x, 0, 0)) = Append(pairs, <<Slice(t, x, Len(t) + 1), <<>>>>)
    /\ LastAttribute(t, At(pairs, x, y, z)) = Append(pairs, <<Slice(t, x, y), Decode(From(t, z))>>)

\* What the scan of attributes does in each of its four states.
LEMMA AttributeNextIs ==
  ASSUME NEW t, NEW pairs, NEW x, x # 0, NEW y, y # 0, NEW z, z # 0, NEW i
  PROVE  AttributeSteps(t, pairs, x, y, z, i)
  <1> DEFINE a == At(pairs, 0, 0, 0)
             b == At(pairs, x, 0, 0)
             c == At(pairs, x, y, 0)
             d == At(pairs, x, y, z)
  <1>1. /\ a.pairs = pairs /\ a.at.name = 0 /\ a.at.equals = 0
        /\ b.pairs = pairs /\ b.at.name = x /\ b.at.equals = 0
        /\ c.pairs = pairs /\ c.at.name = x /\ c.at.equals = y /\ c.at.value = 0
        /\ d.pairs = pairs /\ d.at.name = x /\ d.at.equals = y /\ d.at.value = z
    BY DEF At
  <1>2. \A w : [pairs |-> w, at |-> Between] = At(w, 0, 0, 0)
    BY DEF At, Between
  <1>3. [a EXCEPT !.at.name = i] = At(pairs, i, 0, 0)
    BY DEF At
  <1>4. [b EXCEPT !.at.equals = i] = At(pairs, x, i, 0)
    BY DEF At
  <1>5. \A w : [c EXCEPT !.at.value = w] = At(pairs, x, y, w)
    BY DEF At
  <1> HIDE DEF a, b, c, d
  <1>6. AttributeNext(t, a, i) = IF t[i] \in {SP, SEMICOLON} THEN a ELSE At(pairs, i, 0, 0)
    BY Zenon, <1>1, <1>3 DEF AttributeNext
  <1>7. AttributeNext(t, b, i) =
          IF t[i] = SEMICOLON THEN At(Append(pairs, <<Slice(t, x, i), <<>>>>), 0, 0, 0)
          ELSE IF t[i] = EQUALS THEN At(pairs, x, i, 0)
          ELSE b
    BY Zenon, <1>1, <1>2, <1>4 DEF AttributeNext, FlagWith
  <1>8. AttributeNext(t, c, i) = At(pairs, x, y, IF t[i] = QUOTE /\ i < Len(t) THEN i + 1 ELSE i)
    BY Zenon, <1>1, <1>5 DEF AttributeNext
  <1>9. AttributeNext(t, d, i) =
          IF t[i] \in {QUOTE, SEMICOLON}
          THEN At(Append(pairs, <<Slice(t, x, y), Decode(Slice(t, z, i))>>), 0, 0, 0)
          ELSE d
    BY Zenon, <1>1, <1>2 DEF AttributeNext, AttributeWith, EndsValue
  <1>10. LastAttribute(t, a) = pairs
    BY Zenon, <1>1 DEF LastAttribute
  <1>11. LastAttribute(t, b) = Append(pairs, <<Slice(t, x, Len(t) + 1), <<>>>>)
    BY Zenon, <1>1 DEF LastAttribute, FlagWith
  <1>12. LastAttribute(t, d) = Append(pairs, <<Slice(t, x, y), Decode(From(t, z))>>)
    BY Zenon, <1>1 DEF LastAttribute, AttributeWith
  <1> QED
    BY Zenon, <1>6, <1>7, <1>8, <1>9, <1>10, <1>11, <1>12 DEF AttributeSteps, a, b, c, d

\* h says what has been read of attributes after some of the characters.
Collecting(h, t) == \A m \in 1..Len(t) : h[1..m] = AttributeNext(t, h[1..m - 1], m)
Collected(t) ==
    \E h : ParseAttributes(t) = LastAttribute(t, h[1..Len(t)]) /\ h[1..0] = NoAttributes /\ Collecting(h, t)

\* The attributes of a text are read from left to right.
LEMMA AttributesCollected ==
  ASSUME NEW t \in Seq(Nat)
  PROVE  Collected(t)
  <1>1. PICK h : /\ ParseAttributes(t) = LastAttribute(t, h[1..Len(t)]) /\ h[1..0] = NoAttributes
                 /\ \A m \in 1..Len(t) : h[1..m] = AttributeNext(t, h[1..m - 1], m)
    BY Zenon, AttributeScans
  <1> QED
    BY Zenon, <1>1 DEF Collected, Collecting

\* As long as nothing changes.
Stands(h, k, c) == h[1..k] = c

\* A state that no byte in between changes is still there.
LEMMA StaysSo ==
  ASSUME NEW t, NEW h, Collecting(h, t), Len(t) \in Nat, NEW p \in Nat, NEW k \in p..Len(t), NEW c,
         Stands(h, p, c), \A i \in p + 1..k : AttributeNext(t, c, i) = c
  PROVE  Stands(h, k, c)
  <1> DEFINE l == k - p
             D == {m \in 0..l : h[1..p + m] = c}
  <1>1. l \in Nat /\ l \in 0..l /\ p + l = k
    OBVIOUS
  <1>2. 0 \in D
    <2>1. p + 0 = p /\ 0 \in 0..l
      BY <1>1
    <2> QED
      BY Zenon, <2>1 DEF Stands
  <1>3. ASSUME NEW m \in 0..l - 1, m \in D
        PROVE  m + 1 \in D
    <2> DEFINE i == p + (m + 1)
    <2>1. i \in 1..Len(t) /\ i - 1 = p + m /\ i \in p + 1..k /\ m + 1 \in 0..l
      BY <1>1
    <2> HIDE DEF i
    <2>2. h[1..i] = c
      BY Zenon, <1>3, <2>1 DEF Collecting
    <2> QED
      BY Zenon, <2>1, <2>2 DEF i
  <1> HIDE DEF D, l
  <1>4. 0..l \subseteq D
    BY <1>1, <1>2, <1>3, BoundedInduction
  <1> QED
    BY Zenon, <1>1, <1>4 DEF D, Stands

\* An attribute is complete where the text ends, or a semicolon follows.
Complete(t, h, e, pairs) ==
    /\ e = Len(t) => LastAttribute(t, h[1..e]) = pairs
    /\ e < Len(t) /\ t[e + 1] = SEMICOLON => h[1..e + 1] = At(pairs, 0, 0, 0)

AttributeName(x) ==
    /\ x \in Seq(Nat) /\ Len(x) \in Nat \ {0} /\ x[1] # SP
    /\ NoneIn(x, SEMICOLON, 1, Len(x)) /\ NoneIn(x, EQUALS, 1, Len(x))
AttributeValue(v) ==
    v \in Seq(Nat) /\ Len(v) \in Nat /\ NoneIn(v, SEMICOLON, 1, Len(v)) /\ NoneIn(v, QUOTE, 1, Len(v))

\* A name is scanned from its first byte to its last.
LEMMA NameRead ==
  ASSUME NEW t \in Seq(Nat), NEW h, Collecting(h, t), NEW pairs, NEW a \in Nat \ {0},
         h[1..a - 1] = At(pairs, 0, 0, 0), NEW x, AttributeName(x), PartAt(t, a, x), a + Len(x) <= Len(t) + 1
  PROVE  h[1..a + Len(x) - 1] = At(pairs, a, 0, 0)
  <1> DEFINE n == Len(t)
             l == Len(x)
             k == a + l - 1
             c == At(pairs, a, 0, 0)
  <1>1. /\ n \in Nat /\ l \in Nat \ {0} /\ a + l <= n + 1 /\ x[1] # SP
        /\ NoneIn(x, SEMICOLON, 1, l) /\ NoneIn(x, EQUALS, 1, l)
    BY LenProperties DEF AttributeName
  <1>2. NoneIn(t, SEMICOLON, a, k) /\ NoneIn(t, EQUALS, a, k)
    <2>1. a \in Nat /\ l \in Nat
      BY <1>1
    <2> QED
      BY Zenon, <1>1, <2>1, NoneInPart
  <1> HIDE DEF n, l
  <1>3. /\ a \in 1..n /\ a \in a..k /\ a \in Nat /\ k \in a..n /\ a # 0 /\ a + 1 - 1 = a /\ 1 \in 1..l
        /\ \A i \in a + 1..k : i \in a..k
    BY <1>1
  <1>4. t[a] # SP /\ t[a] # SEMICOLON
    BY Zenon, <1>1, <1>2, <1>3 DEF PartAt, NoneIn, l
  <1> HIDE DEF k
  <1>5. \A i : AttributeSteps(t, pairs, a, a, a, i)
    BY <1>3, AttributeNextIs
  <1>6. h[1..a] = c
    <2>1. h[1..a] = AttributeNext(t, At(pairs, 0, 0, 0), a)
      BY Zenon, <1>3 DEF Collecting, n
    <2>2. AttributeNext(t, At(pairs, 0, 0, 0), a) =
              IF t[a] \in {SP, SEMICOLON} THEN At(pairs, 0, 0, 0) ELSE At(pairs, a, 0, 0)
      BY Zenon, <1>5 DEF AttributeSteps
    <2> QED
      BY Zenon, <1>4, <2>1, <2>2
  <1>7. \A i \in a + 1..k : AttributeNext(t, c, i) = c
    <2> SUFFICES ASSUME NEW i \in a + 1..k
                 PROVE  AttributeNext(t, c, i) = c
      OBVIOUS
    <2>1. t[i] # SEMICOLON /\ t[i] # EQUALS
      BY Zenon, <1>2, <1>3 DEF NoneIn
    <2>2. AttributeSteps(t, pairs, a, a, a, i)
      BY Zenon, <1>5
    <2> QED
      BY Zenon, <2>1, <2>2 DEF AttributeSteps
  <1> HIDE DEF c
  <1>8. h[1..k] = c
    <2>1. Stands(h, a, c)
      BY Zenon, <1>6 DEF Stands
    <2>2. Stands(h, k, c)
      BY <1>1, <1>3, <1>7, <2>1, StaysSo DEF n
    <2> QED
      BY Zenon, <2>2 DEF Stands
  <1> QED
    BY Zenon, <1>8 DEF k, l, c

\* A name that nothing follows is an attribute.
LEMMA FlagRead ==
  ASSUME NEW t \in Seq(Nat), NEW h, Collecting(h, t), NEW pairs, NEW a \in Nat \ {0},
         h[1..a - 1] = At(pairs, 0, 0, 0), NEW x, AttributeName(x), PartAt(t, a, x), a + Len(x) <= Len(t) + 1
  PROVE  Complete(t, h, a + Len(x) - 1, Append(pairs, <<x, <<>>>>))
  <1> DEFINE n == Len(t)
             l == Len(x)
             k == a + l - 1
             all == Append(pairs, <<x, <<>>>>)
  <1>1. n \in Nat /\ l \in Nat \ {0} /\ a + l <= n + 1 /\ x \in Seq(Nat)
    BY LenProperties DEF AttributeName
  <1>2. h[1..k] = At(pairs, a, 0, 0)
    BY NameRead
  <1>3. Slice(t, a, k + 1) = x
    <2>1. k + 1 = a + Len(x) /\ k + 1 <= Len(t) + 1
      BY <1>1
    <2> QED
      BY <1>1, <2>1, Part
  <1> HIDE DEF n, l
  <1>4. k \in Nat /\ a # 0 /\ (k < n => k + 1 \in 1..n /\ (k + 1) - 1 = k)
    BY <1>1
  <1> HIDE DEF k
  <1>5. \A i : AttributeSteps(t, pairs, a, a, a, i)
    BY <1>4, AttributeNextIs
  <1>6. ASSUME k = n
        PROVE  LastAttribute(t, h[1..k]) = all
    BY Zenon, <1>2, <1>3, <1>5, <1>6 DEF AttributeSteps, n
  <1>7. ASSUME k < n, t[k + 1] = SEMICOLON
        PROVE  h[1..k + 1] = At(all, 0, 0, 0)
    <2>1. h[1..k + 1] = AttributeNext(t, At(pairs, a, 0, 0), k + 1)
      BY Zenon, <1>2, <1>4, <1>7 DEF Collecting, n
    <2>2. AttributeSteps(t, pairs, a, a, a, k + 1)
      BY Zenon, <1>5
    <2> QED
      BY Zenon, <1>3, <1>7, <2>1, <2>2 DEF AttributeSteps
  <1> QED
    BY Zenon, <1>6, <1>7 DEF Complete, n, k, l, all

NameEnds(t, h, pairs, a, x) ==
    h[1..a + Len(x)] = At(pairs, a, a + Len(x), 0) /\ Slice(t, a, a + Len(x)) = x

\* The equals sign ends a name.
LEMMA EqualsRead ==
  ASSUME NEW t \in Seq(Nat), NEW h, Collecting(h, t), NEW pairs, NEW a \in Nat \ {0},
         h[1..a - 1] = At(pairs, 0, 0, 0), NEW x, AttributeName(x), PartAt(t, a, x), a + Len(x) <= Len(t),
         t[a + Len(x)] = EQUALS
  PROVE  NameEnds(t, h, pairs, a, x)
  <1> DEFINE n == Len(t)
             l == Len(x)
             k == a + l
  <1>1. n \in Nat /\ l \in Nat \ {0} /\ a + l <= n /\ x \in Seq(Nat)
    BY LenProperties DEF AttributeName
  <1>2. h[1..k - 1] = At(pairs, a, 0, 0)
    <2>1. a + Len(x) <= Len(t) + 1
      BY <1>1
    <2> QED
      BY <2>1, NameRead
  <1>3. Slice(t, a, k) = x
    <2>1. k <= Len(t) + 1
      BY <1>1
    <2> QED
      BY <1>1, <2>1, Part
  <1> HIDE DEF n, l
  <1>4. k \in 1..n /\ a # 0
    BY <1>1
  <1>5. t[k] = EQUALS
    BY Zenon DEF l
  <1> HIDE DEF k
  <1>6. AttributeSteps(t, pairs, a, a, a, k)
    BY <1>4, AttributeNextIs
  <1>7. h[1..k] = AttributeNext(t, At(pairs, a, 0, 0), k)
    BY Zenon, <1>2, <1>4 DEF Collecting, n
  <1>8. SEMICOLON # EQUALS
    BY DEF SEMICOLON, EQUALS
  <1>9. h[1..k] = At(pairs, a, k, 0)
    BY Zenon, <1>5, <1>6, <1>7, <1>8 DEF AttributeSteps
  <1> QED
    BY Zenon, <1>3, <1>9 DEF k, l, NameEnds

\* A value without quotes ends before a semicolon or with the text.
LEMMA PlainRead ==
  ASSUME NEW t \in Seq(Nat), NEW h, Collecting(h, t), NEW pairs, NEW a \in Nat \ {0},
         NEW x, NEW y, y # 0, Slice(t, a, y) = x, NEW b \in Nat \ {0}, h[1..b - 1] = At(pairs, a, y, 0),
         NEW v, AttributeValue(v), v # <<>>, PartAt(t, b, v), b + Len(v) <= Len(t) + 1
  PROVE  Complete(t, h, b + Len(v) - 1, Append(pairs, <<x, Decode(v)>>))
  <1> DEFINE n == Len(t)
             m == Len(v)
             e == b + m - 1
             c == At(pairs, a, y, b)
             all == Append(pairs, <<x, Decode(v)>>)
  <1>1. /\ n \in Nat /\ m \in Nat \ {0} /\ b + m <= n + 1 /\ v \in Seq(Nat)
        /\ NoneIn(v, SEMICOLON, 1, m) /\ NoneIn(v, QUOTE, 1, m)
    BY LenProperties, EmptySeq DEF AttributeValue
  <1>2. NoneIn(t, SEMICOLON, b, e) /\ NoneIn(t, QUOTE, b, e)
    <2>1. b \in Nat /\ m \in Nat
      BY <1>1
    <2> QED
      BY Zenon, <1>1, <2>1, NoneInPart
  <1>3. Slice(t, b, e + 1) = v
    <2>1. e + 1 = b + Len(v) /\ e + 1 <= Len(t) + 1
      BY <1>1
    <2> QED
      BY <1>1, <2>1, Part
  <1> HIDE DEF n, m
  <1>4. /\ b \in 1..n /\ b \in b..e /\ e \in b..n /\ a # 0 /\ b # 0 /\ e \in Nat /\ b \in Nat
        /\ (e + 1) - 1 = e /\ (e < n => e + 1 \in 1..n) /\ \A i \in b + 1..e : i \in b..e
    BY <1>1
  <1> HIDE DEF e
  <1>5. \A i : AttributeSteps(t, pairs, a, y, b, i)
    BY <1>4, AttributeNextIs
  <1>6. h[1..b] = c
    <2>1. h[1..b] = AttributeNext(t, At(pairs, a, y, 0), b)
      BY Zenon, <1>4 DEF Collecting, n
    <2>2. t[b] # QUOTE
      BY Zenon, <1>2, <1>4 DEF NoneIn
    <2>3. AttributeSteps(t, pairs, a, y, b, b)
      BY Zenon, <1>5
    <2> QED
      BY Zenon, <2>1, <2>2, <2>3 DEF AttributeSteps
  <1>7. \A i \in b + 1..e : AttributeNext(t, c, i) = c
    <2> SUFFICES ASSUME NEW i \in b + 1..e
                 PROVE  AttributeNext(t, c, i) = c
      OBVIOUS
    <2>1. t[i] # SEMICOLON /\ t[i] # QUOTE
      BY Zenon, <1>2, <1>4 DEF NoneIn
    <2>2. AttributeSteps(t, pairs, a, y, b, i)
      BY Zenon, <1>5
    <2> QED
      BY Zenon, <2>1, <2>2 DEF AttributeSteps
  <1>8. h[1..e] = c
    <2> HIDE DEF c
    <2>1. Stands(h, b, c)
      BY Zenon, <1>6 DEF Stands
    <2>2. Stands(h, e, c)
      BY <1>1, <1>4, <1>7, <2>1, StaysSo DEF n
    <2> QED
      BY Zenon, <2>2 DEF Stands
  <1>9. ASSUME e = n
        PROVE  LastAttribute(t, h[1..e]) = all
    <2>1. From(t, b) = v
      BY Zenon, <1>3, <1>4, <1>9 DEF From, Slice, n
    <2>2. AttributeSteps(t, pairs, a, y, b, b)
      BY Zenon, <1>5
    <2> QED
      BY Zenon, <1>8, <2>1, <2>2 DEF AttributeSteps
  <1>10. ASSUME e < n, t[e + 1] = SEMICOLON
         PROVE  h[1..e + 1] = At(all, 0, 0, 0)
    <2>1. h[1..e + 1] = AttributeNext(t, c, e + 1)
      BY Zenon, <1>4, <1>8, <1>10 DEF Collecting, n
    <2>2. AttributeSteps(t, pairs, a, y, b, e + 1)
      BY Zenon, <1>5
    <2> QED
      BY Zenon, <1>3, <1>10, <2>1, <2>2 DEF AttributeSteps
  <1> QED
    BY Zenon, <1>9, <1>10 DEF Complete, n, e, m, all

\* A value in quotes ends with its second quote.
LEMMA QuotedRead ==
  ASSUME NEW t \in Seq(Nat), NEW h, Collecting(h, t), NEW pairs, NEW a \in Nat \ {0},
         NEW x, NEW y, y # 0, Slice(t, a, y) = x, NEW b \in Nat \ {0}, h[1..b - 1] = At(pairs, a, y, 0),
         NEW v, AttributeValue(v), t[b] = QUOTE, PartAt(t, b + 1, v), b + 1 + Len(v) <= Len(t),
         t[b + 1 + Len(v)] = QUOTE
  PROVE  Complete(t, h, b + 1 + Len(v), Append(pairs, <<x, Decode(v)>>))
  <1> DEFINE n == Len(t)
             m == Len(v)
             d == b + 1
             e == d + m
             c == At(pairs, a, y, d)
             all == Append(pairs, <<x, Decode(v)>>)
  <1>1. /\ n \in Nat /\ m \in Nat /\ d + m <= n /\ v \in Seq(Nat)
        /\ NoneIn(v, SEMICOLON, 1, m) /\ NoneIn(v, QUOTE, 1, m)
    BY LenProperties DEF AttributeValue
  <1>2. NoneIn(t, SEMICOLON, d, e - 1) /\ NoneIn(t, QUOTE, d, e - 1)
    <2>1. d \in Nat /\ PartAt(t, d, v)
      OBVIOUS
    <2> HIDE DEF d
    <2> QED
      BY <1>1, <2>1, NoneInPart
  <1>3. Slice(t, d, e) = v
    <2>1. e <= Len(t) + 1 /\ d \in Nat \ {0}
      BY <1>1
    <2> QED
      BY <1>1, <2>1, Part
  <1>4. t[e] = QUOTE
    OBVIOUS
  <1> HIDE DEF n, m
  <1>5. /\ b \in 1..n /\ b < n /\ e \in 1..n /\ e - 1 \in b..n /\ a # 0 /\ d # 0 /\ b \in Nat /\ e \in Nat
        /\ (e < n => e + 1 \in 1..n /\ (e + 1) - 1 = e) /\ \A i \in b + 1..e - 1 : i \in d..e - 1
    BY <1>1
  <1>6. \A i : AttributeSteps(t, pairs, a, y, d, i)
    <2> HIDE DEF d
    <2> QED
      BY <1>5, AttributeNextIs
  <1>7. h[1..b] = c
    <2>1. h[1..b] = AttributeNext(t, At(pairs, a, y, 0), b)
      BY Zenon, <1>5 DEF Collecting, n
    <2>2. AttributeSteps(t, pairs, a, y, d, b)
      BY Zenon, <1>6
    <2> QED
      BY Zenon, <1>5, <2>1, <2>2 DEF AttributeSteps, n
  <1> HIDE DEF d
  <1>8. \A i \in b + 1..e - 1 : AttributeNext(t, c, i) = c
    <2> SUFFICES ASSUME NEW i \in b + 1..e - 1
                 PROVE  AttributeNext(t, c, i) = c
      OBVIOUS
    <2>1. t[i] # SEMICOLON /\ t[i] # QUOTE
      BY Zenon, <1>2, <1>5 DEF NoneIn
    <2>2. AttributeSteps(t, pairs, a, y, d, i)
      BY Zenon, <1>6
    <2> QED
      BY Zenon, <2>1, <2>2 DEF AttributeSteps
  <1> HIDE DEF e
  <1>9. h[1..e - 1] = c
    <2> HIDE DEF c
    <2> DEFINE k == e - 1
    <2>1. k \in b..Len(t) /\ \A i \in b + 1..k : AttributeNext(t, c, i) = c
      BY Zenon, <1>5, <1>8 DEF n
    <2> HIDE DEF k
    <2>2. Stands(h, b, c)
      BY Zenon, <1>7 DEF Stands
    <2>3. Stands(h, k, c)
      BY <1>1, <1>5, <2>1, <2>2, StaysSo DEF n
    <2> QED
      BY Zenon, <2>3 DEF Stands, k
  <1>10. h[1..e] = At(all, 0, 0, 0)
    <2>1. h[1..e] = AttributeNext(t, c, e)
      BY Zenon, <1>5, <1>9 DEF Collecting, n
    <2>2. AttributeSteps(t, pairs, a, y, d, e)
      BY Zenon, <1>6
    <2> QED
      BY Zenon, <1>3, <1>4, <2>1, <2>2 DEF AttributeSteps
  <1> HIDE DEF all
  <1>11. \A i : AttributeSteps(t, all, a, y, d, i)
    BY <1>5, AttributeNextIs
  <1>12. LastAttribute(t, h[1..e]) = all
    BY Zenon, <1>10, <1>11 DEF AttributeSteps
  <1>13. ASSUME e < n, t[e + 1] = SEMICOLON
         PROVE  h[1..e + 1] = At(all, 0, 0, 0)
    <2>1. h[1..e + 1] = AttributeNext(t, At(all, 0, 0, 0), e + 1)
      BY Zenon, <1>5, <1>10, <1>13 DEF Collecting, n
    <2>2. AttributeSteps(t, all, a, y, d, e + 1)
      BY Zenon, <1>11
    <2> QED
      BY Zenon, <1>13, <2>1, <2>2 DEF AttributeSteps
  <1> QED
    BY Zenon, <1>12, <1>13 DEF Complete, n, e, m, d, all

\* A part of a part is a part, wherever the part stands.
LEMMA LiftAt ==
  ASSUME NEW t, NEW b \in Nat \ {0}, NEW x, NEW y, NEW from \in Nat \ {0}, Len(x) \in Nat, Len(y) \in Nat,
         PartAt(t, b, x), PartAt(x, from, y), from + Len(y) <= Len(x) + 1
  PROVE  PartAt(t, b + from - 1, y)
  <1> DEFINE c == b + from - 1
  <1> SUFFICES ASSUME NEW i \in 1..Len(y)
               PROVE  t[c + i - 1] = y[i]
    BY Zenon DEF PartAt
  <1> DEFINE j == from + i - 1
  <1>1. j \in 1..Len(x) /\ b + j - 1 = c + i - 1
    OBVIOUS
  <1> HIDE DEF c
  <1>2. x[j] = y[i]
    BY Zenon DEF PartAt
  <1> HIDE DEF j
  <1>3. t[b + j - 1] = x[j]
    BY Zenon, <1>1 DEF PartAt
  <1> QED
    BY Zenon, <1>1, <1>2, <1>3

\* A name and a value have what the scan needs.
LEMMA AttributeTyped ==
  ASSUME NEW r, IsAttribute(r)
  PROVE  AttributeName(r.name) /\ AttributeValue(r.value) /\ (r.form = "plain" => r.value # <<>>)
         /\ r.form \in {"flag", "plain", "quoted"}
  <1> DEFINE S == 0..255
             x == r.name
             v == r.value
  <1>1. /\ x \in Seq(S) /\ v \in Seq(S) /\ r.form \in {"flag", "plain", "quoted"}
        /\ x # <<>> /\ x[1] # SP /\ (r.form = "plain" => v # <<>>)
        /\ \A i \in DOMAIN x : x[i] \notin {SEMICOLON, EQUALS}
        /\ \A i \in DOMAIN v : v[i] \notin {QUOTE, SEMICOLON}
    BY DEF IsAttribute
  <1>2. S \subseteq Nat
    OBVIOUS
  <1> HIDE DEF S, x, v
  <1>3. x \in Seq(Nat) /\ v \in Seq(Nat)
    BY <1>1, <1>2, SeqMonotonic
  <1>4. /\ Len(x) \in Nat \ {0} /\ Len(v) \in Nat /\ DOMAIN x = 1..Len(x) /\ DOMAIN v = 1..Len(v)
    BY <1>1, <1>3, LenProperties, EmptySeq
  <1>5. AttributeName(x)
    BY Zenon, <1>1, <1>3, <1>4 DEF AttributeName, NoneIn
  <1>6. AttributeValue(v)
    BY Zenon, <1>1, <1>3, <1>4 DEF AttributeValue, NoneIn
  <1> QED
    BY Zenon, <1>1, <1>5, <1>6 DEF x, v

\* An attribute's text is a text.
LEMMA AttributeTextTyped ==
  ASSUME NEW r, IsAttribute(r)
  PROVE  AttributeText(r) \in Seq(Nat)
  <1> DEFINE x == r.name
             v == r.value
             eq == <<EQUALS>>
             eqq == <<EQUALS, QUOTE>>
             qu == <<QUOTE>>
             none == <<>>
  <1>1. AttributeName(x) /\ AttributeValue(v) /\ r.form \in {"flag", "plain", "quoted"}
    BY Zenon, AttributeTyped
  <1>2. x \in Seq(Nat) /\ v \in Seq(Nat)
    BY Zenon, <1>1 DEF AttributeName, AttributeValue
  <1>3. eq \in Seq(Nat) /\ eqq \in Seq(Nat) /\ qu \in Seq(Nat) /\ none \in Seq(Nat)
    BY DEF EQUALS, QUOTE
  <1>4. /\ r.form = "flag" => AttributeText(r) = x \o none
        /\ r.form = "plain" => AttributeText(r) = x \o (eq \o v)
        /\ r.form = "quoted" => AttributeText(r) = x \o ((eqq \o v) \o qu)
    BY DEF AttributeText
  <1> HIDE DEF x, v, eq, eqq, qu, none
  <1>5. eq \o v \in Seq(Nat) /\ eqq \o v \in Seq(Nat)
    BY <1>2, <1>3, ConcatProperties
  <1>6. (eqq \o v) \o qu \in Seq(Nat)
    BY <1>3, <1>5, ConcatProperties
  <1>7. x \o none \in Seq(Nat) /\ x \o (eq \o v) \in Seq(Nat) /\ x \o ((eqq \o v) \o qu) \in Seq(Nat)
    BY <1>2, <1>3, <1>5, <1>6, ConcatProperties
  <1> QED
    BY <1>1, <1>4, <1>7

AttributeIn(t, h, a, r, pairs) ==
    PartAt(t, a, AttributeText(r)) /\ a + Len(AttributeText(r)) <= Len(t) + 1
        => Complete(t, h, a + Len(AttributeText(r)) - 1, Append(pairs, AttributePair(r)))

\* An attribute of any form is read where a name may start.
LEMMA AttributeRead ==
  ASSUME NEW t \in Seq(Nat), NEW h, Collecting(h, t), NEW pairs, NEW a \in Nat \ {0},
         h[1..a - 1] = At(pairs, 0, 0, 0), NEW r, IsAttribute(r)
  PROVE  AttributeIn(t, h, a, r, pairs)
  <1> DEFINE n == Len(t)
             x == r.name
             v == r.value
             z == AttributeText(r)
             l == Len(x)
             m == Len(v)
             eq == <<EQUALS>>
             eqq == <<EQUALS, QUOTE>>
             qu == <<QUOTE>>
  <1>1. AttributeName(x) /\ AttributeValue(v) /\ (r.form = "plain" => v # <<>>)
    BY Zenon, AttributeTyped
  <1>2. x \in Seq(Nat) /\ l \in Nat \ {0} /\ v \in Seq(Nat) /\ m \in Nat /\ n \in Nat
    BY <1>1, LenProperties DEF AttributeName, AttributeValue
  <1>3. /\ eq \in Seq(Nat) /\ Len(eq) = 1 /\ eq[1] = EQUALS
        /\ eqq \in Seq(Nat) /\ Len(eqq) = 2 /\ eqq[1] = EQUALS /\ eqq[2] = QUOTE
        /\ qu \in Seq(Nat) /\ Len(qu) = 1 /\ qu[1] = QUOTE
    BY DEF EQUALS, QUOTE
  <1>4. CASE r.form = "flag"
    <2>1. z = x
      <3>1. z = x \o <<>>
        BY <1>4 DEF AttributeText
      <3> HIDE DEF x, z
      <3> QED
        BY <1>2, <3>1, ConcatEmptySeq
    <2>2. AttributePair(r) = <<x, <<>>>>
      BY <1>4 DEF AttributePair
    <2> HIDE DEF x, z
    <2>3. ASSUME PartAt(t, a, x), a + Len(x) <= Len(t) + 1
          PROVE  Complete(t, h, a + Len(x) - 1, Append(pairs, <<x, <<>>>>))
      BY <1>1, <2>3, FlagRead
    <2> QED
      BY Zenon, <1>2, <2>1, <2>2, <2>3 DEF AttributeIn, z
  <1>5. CASE r.form = "plain"
    <2> DEFINE u == eq \o v
               y == a + l
               b == y + 1
    <2>1. z = x \o u
      BY <1>5 DEF AttributeText
    <2>2. AttributePair(r) = <<x, Decode(v)>>
      BY <1>5 DEF AttributePair
    <2> HIDE DEF x, z, v, eq
    <2>3. Chained(u, eq, v)
      BY <1>2, <1>3, Chain
    <2>4. u \in Seq(Nat) /\ Len(u) = 1 + m /\ PartAt(u, 1, eq) /\ PartAt(u, 1 + 1, v)
      BY Zenon, <1>3, <2>3 DEF Chained
    <2> HIDE DEF u
    <2>5. Chained(z, x, u)
      BY <1>2, <2>1, <2>4, Chain
    <2>6. z \in Seq(Nat) /\ Len(z) = l + Len(u) /\ PartAt(z, 1, x) /\ PartAt(z, l + 1, u)
      BY Zenon, <2>5 DEF Chained
    <2>7. ASSUME PartAt(t, a, z), a + Len(z) <= n + 1
          PROVE  Complete(t, h, a + Len(z) - 1, Append(pairs, <<x, Decode(v)>>))
      <3> HIDE DEF n, l, m
      <3>1. /\ Len(z) = l + 1 + m /\ Len(z) \in Nat /\ Len(u) \in Nat /\ a + 1 - 1 = a /\ a + (l + 1) - 1 = y
            /\ 1 + l <= Len(z) + 1 /\ (l + 1) + Len(u) <= Len(z) + 1 /\ 1 + 1 <= Len(u) + 1
            /\ (1 + 1) + m <= Len(u) + 1 /\ 1 \in Nat \ {0} /\ 1 + 1 \in Nat \ {0} /\ l + 1 \in Nat \ {0}
            /\ y \in Nat \ {0} /\ y + 1 - 1 = y /\ y + (1 + 1) - 1 = b /\ y <= n /\ y # 0 /\ b \in Nat \ {0}
            /\ b - 1 = y /\ b + m <= n + 1 /\ b + m - 1 = a + Len(z) - 1 /\ 1 \in 1..1
        BY <1>2, <2>4, <2>6, <2>7
      <3>2. PartAt(t, a, x) /\ PartAt(t, y, u)
        <4>1. PartAt(t, a + 1 - 1, x)
          BY Zenon, <1>2, <2>6, <2>7, <3>1, LiftAt DEF l
        <4>2. PartAt(t, a + (l + 1) - 1, u)
          BY Zenon, <1>2, <2>6, <2>7, <3>1, LiftAt
        <4> QED
          BY Zenon, <3>1, <4>1, <4>2
      <3> HIDE DEF y
      <3>3. t[y] = EQUALS /\ PartAt(t, b, v)
        <4>1. PartAt(t, y + 1 - 1, eq)
          BY Zenon, <1>2, <1>3, <2>4, <3>1, <3>2, LiftAt
        <4>2. PartAt(t, y + (1 + 1) - 1, v)
          BY Zenon, <1>2, <2>4, <3>1, <3>2, LiftAt DEF m
        <4>3. PartAt(t, y, eq) /\ 1 \in 1..Len(eq) /\ y + 1 - 1 = y
          BY Zenon, <1>3, <3>1, <4>1
        <4>4. t[y] = EQUALS
          BY Zenon, <1>3, <4>3 DEF PartAt
        <4>5. PartAt(t, b, v)
          BY Zenon, <3>1, <4>2
        <4> QED
          BY Zenon, <4>4, <4>5
      <3>4. h[1..y] = At(pairs, a, y, 0) /\ Slice(t, a, y) = x
        <4>1. a + Len(x) <= Len(t) /\ t[a + Len(x)] = EQUALS
          BY Zenon, <3>1, <3>3 DEF y, l, n
        <4>2. NameEnds(t, h, pairs, a, x)
          BY <1>1, <3>2, <4>1, EqualsRead
        <4> QED
          BY Zenon, <4>2 DEF y, l, NameEnds
      <3> HIDE DEF b
      <3>5. h[1..b - 1] = At(pairs, a, y, 0) /\ v # <<>> /\ b + Len(v) <= Len(t) + 1
        BY Zenon, <1>1, <1>5, <3>1, <3>4 DEF m, n
      <3>6. Complete(t, h, b + Len(v) - 1, Append(pairs, <<x, Decode(v)>>))
        BY <1>1, <3>1, <3>3, <3>4, <3>5, PlainRead
      <3> QED
        BY Zenon, <3>1, <3>6 DEF m
    <2> QED
      BY Zenon, <2>2, <2>6, <2>7 DEF AttributeIn, z, n
  <1>6. CASE r.form = "quoted"
    <2> DEFINE w == eqq \o v
               u == w \o qu
               y == a + l
               b == y + 1
    <2>1. z = x \o u
      BY <1>6 DEF AttributeText
    <2>2. AttributePair(r) = <<x, Decode(v)>>
      BY <1>6 DEF AttributePair
    <2> HIDE DEF x, z, v, eqq, qu
    <2>3. Chained(w, eqq, v)
      BY <1>2, <1>3, Chain
    <2>4. w \in Seq(Nat) /\ Len(w) = 2 + m /\ PartAt(w, 1, eqq) /\ PartAt(w, 2 + 1, v)
      BY Zenon, <1>3, <2>3 DEF Chained
    <2> HIDE DEF w
    <2>5. Chained(u, w, qu)
      BY <1>3, <2>4, Chain
    <2>6. u \in Seq(Nat) /\ Len(u) = Len(w) + 1 /\ PartAt(u, 1, w) /\ PartAt(u, Len(w) + 1, qu)
      BY Zenon, <1>3, <2>5 DEF Chained
    <2> HIDE DEF u
    <2>7. Chained(z, x, u)
      BY <1>2, <2>1, <2>6, Chain
    <2>8. z \in Seq(Nat) /\ Len(z) = l + Len(u) /\ PartAt(z, 1, x) /\ PartAt(z, l + 1, u)
      BY Zenon, <2>7 DEF Chained
    <2>9. ASSUME PartAt(t, a, z), a + Len(z) <= n + 1
          PROVE  Complete(t, h, a + Len(z) - 1, Append(pairs, <<x, Decode(v)>>))
      <3> HIDE DEF n, l, m
      <3>1. /\ Len(w) = 2 + m /\ Len(w) \in Nat /\ Len(u) = 3 + m /\ Len(u) \in Nat
            /\ Len(z) = l + 3 + m /\ Len(z) \in Nat
        BY <1>2, <2>4, <2>6, <2>8
      <3>2. /\ a + 1 - 1 = a /\ a + (l + 1) - 1 = y
            /\ 1 + l <= Len(z) + 1 /\ (l + 1) + Len(u) <= Len(z) + 1 /\ 1 + Len(w) <= Len(u) + 1
            /\ 1 + 2 <= Len(w) + 1 /\ (2 + 1) + m <= Len(w) + 1 /\ (Len(w) + 1) + 1 <= Len(u) + 1
            /\ 1 \in Nat \ {0} /\ 2 + 1 \in Nat \ {0} /\ l + 1 \in Nat \ {0} /\ Len(w) + 1 \in Nat \ {0}
        BY <1>2, <3>1
      <3>3. /\ y \in Nat \ {0} /\ y + 1 - 1 = y /\ y + (2 + 1) - 1 = b + 1 /\ y + (Len(w) + 1) - 1 = b + 1 + m
            /\ y <= n /\ y # 0 /\ b \in Nat \ {0} /\ y + 2 - 1 = b
            /\ b - 1 = y /\ b + 1 + m <= n /\ b + 1 + m = a + Len(z) - 1 /\ 1 \in 1..2 /\ 2 \in 1..2 /\ 1 \in 1..1
            /\ (b + 1 + m) + 1 - 1 = b + 1 + m
        BY <1>2, <2>9, <3>1
      <3>4. PartAt(t, a, x) /\ PartAt(t, y, u)
        <4>1. PartAt(t, a + 1 - 1, x)
          BY Zenon, <1>2, <2>8, <2>9, <3>1, <3>2, LiftAt DEF l
        <4>2. PartAt(t, a + (l + 1) - 1, u)
          BY Zenon, <1>2, <2>8, <2>9, <3>1, <3>2, LiftAt
        <4> QED
          BY Zenon, <3>2, <4>1, <4>2
      <3> HIDE DEF y
      <3>5. PartAt(t, y, w) /\ PartAt(t, b + 1 + m, qu)
        <4>1. PartAt(t, y + 1 - 1, w)
          BY Zenon, <2>6, <3>1, <3>2, <3>3, <3>4, LiftAt
        <4>2. Len(qu) \in Nat /\ (Len(w) + 1) + Len(qu) <= Len(u) + 1
          BY <1>3, <3>2
        <4>3. PartAt(t, y + (Len(w) + 1) - 1, qu)
          BY Zenon, <2>6, <3>1, <3>2, <3>3, <3>4, <4>2, LiftAt
        <4> QED
          BY Zenon, <3>3, <4>1, <4>3
      <3>6. PartAt(t, y, eqq) /\ PartAt(t, b + 1, v)
        <4>1. Len(eqq) \in Nat /\ 1 + Len(eqq) <= Len(w) + 1
          BY <1>3, <3>2
        <4>2. PartAt(t, y + 1 - 1, eqq)
          BY Zenon, <2>4, <3>1, <3>2, <3>3, <3>5, <4>1, LiftAt
        <4>3. PartAt(t, y + (2 + 1) - 1, v)
          BY Zenon, <1>2, <2>4, <3>1, <3>2, <3>3, <3>5, LiftAt DEF m
        <4> QED
          BY Zenon, <3>3, <4>2, <4>3
      <3>7. t[y] = EQUALS /\ t[b] = QUOTE /\ t[b + 1 + m] = QUOTE
        BY Zenon, <1>3, <3>3, <3>5, <3>6 DEF PartAt
      <3>8. h[1..y] = At(pairs, a, y, 0) /\ Slice(t, a, y) = x
        <4>1. a + Len(x) <= Len(t) /\ t[a + Len(x)] = EQUALS
          BY Zenon, <3>3, <3>7 DEF y, l, n
        <4>2. NameEnds(t, h, pairs, a, x)
          BY <1>1, <3>4, <4>1, EqualsRead
        <4> QED
          BY Zenon, <4>2 DEF y, l, NameEnds
      <3> HIDE DEF b
      <3>9. h[1..b - 1] = At(pairs, a, y, 0) /\ b + 1 + Len(v) <= Len(t) /\ t[b + 1 + Len(v)] = QUOTE
        BY Zenon, <3>3, <3>7, <3>8 DEF m, n
      <3>10. Complete(t, h, b + 1 + Len(v), Append(pairs, <<x, Decode(v)>>))
        BY <1>1, <3>3, <3>6, <3>7, <3>8, <3>9, QuotedRead
      <3> QED
        BY Zenon, <3>3, <3>10 DEF m
    <2> QED
      BY Zenon, <2>2, <2>8, <2>9 DEF AttributeIn, z, n
  <1> QED
    BY Zenon, <1>4, <1>5, <1>6, AttributeTyped

\* An attribute behind what is skipped: the first of a list may have nothing before it,
\* the others have a semicolon.
Led(s, r, first) ==
    \E d \in Nat :
        /\ s \in Seq(Nat) /\ Len(s) = d + Len(AttributeText(r)) /\ PartAt(s, d + 1, AttributeText(r))
        /\ \A j \in 1..d : s[j] \in {SP, SEMICOLON}
        /\ first \/ (d # 0 /\ s[1] = SEMICOLON)

\* What is skipped leaves the scan between two attributes.
LEMMA BlanksRead ==
  ASSUME NEW t \in Seq(Nat), NEW h, Collecting(h, t), NEW pairs, NEW p \in Nat, NEW k \in p..Len(t),
         h[1..p] = At(pairs, 0, 0, 0), \A i \in p + 1..k : t[i] \in {SP, SEMICOLON}
  PROVE  Stands(h, k, At(pairs, 0, 0, 0))
  <1> DEFINE c == At(pairs, 0, 0, 0)
  <1>1. Stands(h, p, c)
    BY Zenon DEF Stands
  <1>2. \A i : AttributeSteps(t, pairs, 1, 1, 1, i)
    BY AttributeNextIs
  <1>3. \A i \in p + 1..k : AttributeNext(t, c, i) = c
    <2> SUFFICES ASSUME NEW i \in p + 1..k
                 PROVE  AttributeNext(t, c, i) = c
      OBVIOUS
    <2>1. AttributeSteps(t, pairs, 1, 1, 1, i) /\ t[i] \in {SP, SEMICOLON}
      BY Zenon, <1>2
    <2> QED
      BY Zenon, <2>1 DEF AttributeSteps
  <1>4. Len(t) \in Nat
    BY LenProperties
  <1> HIDE DEF c
  <1>5. Stands(h, k, c)
    BY <1>1, <1>3, <1>4, StaysSo
  <1> QED
    BY Zenon, <1>5 DEF c

\* An attribute that is led to is read behind the ones before it.
LEMMA PieceComplete ==
  ASSUME NEW t \in Seq(Nat), NEW h, Collecting(h, t), NEW pairs, NEW p \in Nat, NEW s, NEW r, IsAttribute(r),
         NEW first \in BOOLEAN, Led(s, r, first), PartAt(t, p + 1, s), p + Len(s) <= Len(t),
         IF first THEN h[1..p] = At(pairs, 0, 0, 0) ELSE Complete(t, h, p, pairs)
  PROVE  Complete(t, h, p + Len(s), Append(pairs, AttributePair(r)))
  <1> DEFINE z == AttributeText(r)
             n == Len(t)
             m == Len(z)
             l == Len(s)
  <1>1. PICK d \in Nat :
            /\ s \in Seq(Nat) /\ l = d + m /\ PartAt(s, d + 1, z)
            /\ \A j \in 1..d : s[j] \in {SP, SEMICOLON}
            /\ first \/ (d # 0 /\ s[1] = SEMICOLON)
    BY Zenon DEF Led
  <1> DEFINE k == p + d
             a == k + 1
             o == IF first THEN p ELSE p + 1
  <1>2. n \in Nat /\ l \in Nat /\ p + l <= n
    BY <1>1, LenProperties
  <1>3. z \in Seq(Nat) /\ m \in Nat
    <2>1. z \in Seq(Nat)
      BY Zenon, AttributeTextTyped
    <2> HIDE DEF z
    <2> QED
      BY <2>1, LenProperties
  <1>4. \A i \in 1..l : t[p + 1 + i - 1] = s[i]
    BY Zenon DEF PartAt
  <1> HIDE DEF n, m, l, z
  <1>5. /\ a \in Nat \ {0} /\ a - 1 = k /\ k \in Nat /\ a + m <= n + 1 /\ a + m - 1 = p + l
        /\ p + 1 \in Nat \ {0} /\ d + 1 \in Nat \ {0} /\ (d + 1) + m <= l + 1 /\ (p + 1) + (d + 1) - 1 = a
        /\ k \in p..n /\ k \in 0..n
    BY <1>1, <1>2, <1>3
  <1>6. \A i \in p + 1..k : t[i] \in {SP, SEMICOLON}
    <2> SUFFICES ASSUME NEW i \in p + 1..k
                 PROVE  t[i] \in {SP, SEMICOLON}
      OBVIOUS
    <2> DEFINE j == i - p
    <2>1. j \in 1..d /\ j \in 1..l /\ p + 1 + j - 1 = i
      BY <1>1, <1>2, <1>3
    <2> HIDE DEF j
    <2>2. t[p + 1 + j - 1] = s[j] /\ s[j] \in {SP, SEMICOLON}
      BY Zenon, <1>1, <1>4, <2>1
    <2> QED
      BY Zenon, <2>1, <2>2
  <1>7. h[1..o] = At(pairs, 0, 0, 0) /\ o \in Nat /\ k \in o..n
    <2>1. CASE first
      BY <1>5, <2>1
    <2>2. CASE ~first
      <3>1. d # 0 /\ s[1] = SEMICOLON
        BY Zenon, <1>1, <2>2
      <3>2. p < n /\ 1 \in 1..l /\ p + 1 + 1 - 1 = p + 1 /\ k \in p + 1..n /\ p + 1 \in Nat
        <4>1. l = d + m /\ p + l <= n /\ d # 0 /\ m \in Nat /\ n \in Nat
          BY Zenon, <1>1, <1>2, <1>3, <3>1
        <4> QED
          BY <4>1
      <3>3. t[p + 1] = SEMICOLON
        BY Zenon, <1>4, <3>1, <3>2
      <3>4. h[1..p + 1] = At(pairs, 0, 0, 0)
        BY Zenon, <2>2, <3>2, <3>3 DEF Complete, n
      <3> QED
        BY Zenon, <2>2, <3>2, <3>4
    <2> QED
      BY Zenon, <2>1, <2>2
  <1>8. \A i \in o + 1..k : t[i] \in {SP, SEMICOLON}
    <2>1. \A i \in o + 1..k : i \in p + 1..k
      OBVIOUS
    <2> QED
      BY Zenon, <1>6, <2>1
  <1> HIDE DEF o, a, k
  <1>9. h[1..k] = At(pairs, 0, 0, 0)
    <2>1. Stands(h, k, At(pairs, 0, 0, 0))
      BY <1>7, <1>8, BlanksRead DEF n
    <2> QED
      BY Zenon, <2>1 DEF Stands
  <1>10. PartAt(t, a, z)
    <2>1. PartAt(t, (p + 1) + (d + 1) - 1, z)
      BY Zenon, <1>1, <1>2, <1>3, <1>5, LiftAt DEF m, l
    <2> QED
      BY Zenon, <1>5, <2>1
  <1>11. AttributeIn(t, h, a, r, pairs)
    BY Zenon, <1>5, <1>9, AttributeRead
  <1> QED
    BY Zenon, <1>5, <1>10, <1>11 DEF AttributeIn, z, m, n, l

\* A list of attributes, behind d bytes that are skipped.
ReadsAs(t, pairs) == ParseAttributes(t) = pairs
PairsOf(list, n) == [i \in 1..n |-> AttributePair(list[i])]
Attributes(list, n) == n \in Nat /\ Len(list) = n /\ \A i \in 1..n : IsAttribute(list[i])
Skipped(t, d) == \A j \in 1..d : t[j] \in {SP, SEMICOLON}

\* A list, in pieces that are led to, and a text that ends in it.
LedTo(s, list, n) == Len(s) = n /\ \A i \in 1..n : Led(s[i], list[i], i = 1)
EndsIn(t, d, q) == d \in Nat /\ t \in Seq(Nat) /\ Len(t) = d + Len(q) /\ PartAt(t, d + 1, q)

\* Attributes that are led to are all read, by induction on their number.
LEMMA ListRead ==
  ASSUME NEW list, NEW n, n # 0, Attributes(list, n), NEW s, LedTo(s, list, n),
         NEW d, NEW t, EndsIn(t, d, FlattenSeq(s)), Skipped(t, d)
  PROVE  ReadsAs(t, PairsOf(list, n))
  <1> SUFFICES ASSUME n \in Nat \ {0}, Len(list) = n, \A i \in 1..n : IsAttribute(list[i]),
                      Len(s) = n, \A i \in 1..n : Led(s[i], list[i], i = 1), d \in Nat, t \in Seq(Nat),
                      Len(t) = d + Len(FlattenSeq(s)), PartAt(t, d + 1, FlattenSeq(s)),
                      \A j \in 1..d : t[j] \in {SP, SEMICOLON},
                      NEW pairs, pairs = [i \in 1..n |-> AttributePair(list[i])]
               PROVE  ParseAttributes(t) = pairs
    <2>1. n \in Nat \ {0}
      BY DEF Attributes
    <2> QED
      BY Zenon, <2>1 DEF ReadsAs, PairsOf, Attributes, LedTo, EndsIn, Skipped
  <1> DEFINE q == FlattenSeq(s)
             l == Len(t)
             U == {AttributePair(list[i]) : i \in 1..n}
             upTo(k) == SubSeq(pairs, 1, k)
             none == <<>>
  <1>1. pairs \in Seq(U) /\ Len(pairs) = n /\ \A i \in 1..n : pairs[i] = AttributePair(list[i])
    <2> DEFINE g(i) == AttributePair(list[i])
    <2>1. \A i \in 1..n : g(i) \in U
      OBVIOUS
    <2>2. pairs = [i \in 1..n |-> g(i)]
      BY Zenon
    <2> HIDE DEF U, g
    <2>3. pairs \in Seq(U) /\ Len(pairs) = n /\ \A i \in 1..n : pairs[i] = g(i)
      BY <2>1, <2>2
    <2> QED
      BY Zenon, <2>3 DEF g
  <1>2. \A i \in 1..n : s[i] \in Seq(Nat)
    BY Zenon DEF Led
  <1>3. PICK f : /\ q = f[n] /\ Beginnings(f, s, n) /\ Len(f[n]) \in Nat
                 /\ \A i \in 1..n : f[i] \in Seq(Nat) /\ PartAt(f[n], 1, f[i]) /\ Len(f[i]) <= Len(f[n])
    BY Zenon, <1>2, FlattenedParts
  <1> HIDE DEF q, U, none
  <1>4. f[1] = s[1] /\ \A i \in 1..n - 1 : f[i + 1] = f[i] \o s[i + 1]
    BY Zenon, <1>3 DEF Beginnings
  <1>5. l \in Nat /\ l = d + Len(q) /\ Len(q) \in Nat /\ PartAt(t, d + 1, q) /\ d \in 0..l
    <2>1. l = d + Len(q) /\ Len(q) \in Nat /\ PartAt(t, d + 1, q)
      BY Zenon, <1>3 DEF q
    <2> HIDE DEF l
    <2> QED
      BY <2>1
  <1>6. PICK h : ParseAttributes(t) = LastAttribute(t, h[1..l]) /\ h[1..0] = NoAttributes /\ Collecting(h, t)
    <2>1. Collected(t)
      BY Zenon, AttributesCollected
    <2> QED
      BY Zenon, <2>1 DEF Collected
  <1> DEFINE D == {k \in 0..n - 1 : Complete(t, h, d + Len(f[k + 1]), upTo(k + 1))}
  <1>7. ASSUME NEW k \in 1..n, NEW p \in Nat, NEW first \in BOOLEAN, first <=> k = 1,
               PartAt(t, p + 1, s[k]), p + Len(s[k]) <= l,
               IF first THEN h[1..p] = At(upTo(k - 1), 0, 0, 0) ELSE Complete(t, h, p, upTo(k - 1))
        PROVE  Complete(t, h, p + Len(s[k]), upTo(k))
    <2> DEFINE x == s[k]
               r == list[k]
               old == upTo(k - 1)
    <2>1. Led(x, r, first) /\ IsAttribute(r)
      <3>1. (k = 1) = first
        BY <1>7
      <3> QED
        BY Zenon, <3>1
    <2>2. PartAt(t, p + 1, x) /\ p + Len(x) <= Len(t)
          /\ IF first THEN h[1..p] = At(old, 0, 0, 0) ELSE Complete(t, h, p, old)
      BY Zenon, <1>7
    <2>3. Append(old, AttributePair(r)) = upTo(k)
      <3>1. k - 1 \in 0..Len(pairs) - 1 /\ (k - 1) + 1 = k
        BY <1>1
      <3>2. Append(SubSeq(pairs, 1, k - 1), pairs[(k - 1) + 1]) = SubSeq(pairs, 1, (k - 1) + 1)
        BY <1>1, <3>1, Prefix
      <3> QED
        BY Zenon, <1>1, <3>1, <3>2
    <2> HIDE DEF x, r, old, upTo
    <2>4. Complete(t, h, p + Len(x), Append(old, AttributePair(r)))
      BY Zenon, <1>6, <2>1, <2>2, PieceComplete
    <2> QED
      BY Zenon, <2>3, <2>4 DEF x
  <1>8. 0 \in D
    <2>1. 1 \in 1..n /\ 0 + 1 = 1 /\ 1 - 1 = 0 /\ 0 \in 0..n - 1
      OBVIOUS
    <2>2. f[1] \in Seq(Nat) /\ PartAt(q, 1, f[1]) /\ Len(f[1]) <= Len(q)
      BY Zenon, <1>3, <2>1
    <2>3. d + Len(f[1]) <= l /\ Len(f[1]) \in Nat /\ d + 1 \in Nat \ {0} /\ (d + 1) + 1 - 1 = d + 1
          /\ 1 + Len(f[1]) <= Len(q) + 1 /\ 1 \in Nat \ {0} /\ 0 + 1 = 1 /\ 0 \in Nat
      <3> HIDE DEF l
      <3> QED
        BY <1>5, <2>2, LenProperties
    <2>4. PartAt(t, d + 1, f[1])
      <3>1. PartAt(t, (d + 1) + 1 - 1, f[1])
        BY Zenon, <1>5, <2>2, <2>3, LiftAt
      <3> QED
        BY Zenon, <2>3, <3>1
    <2>5. h[1..d] = At(upTo(1 - 1), 0, 0, 0)
      <3>1. upTo(0) = none
        BY SubSeqEmpty DEF none
      <3>2. NoAttributes = At(none, 0, 0, 0)
        BY DEF NoAttributes, Between, At, none
      <3>3. h[1..0] = At(none, 0, 0, 0)
        BY Zenon, <1>6, <3>2
      <3>4. \A i \in 0 + 1..d : t[i] \in {SP, SEMICOLON}
        BY Zenon, <2>3
      <3>5. h[1..d] = At(none, 0, 0, 0)
        <4>1. Stands(h, d, At(none, 0, 0, 0))
          BY Zenon, <1>5, <1>6, <2>3, <3>3, <3>4, BlanksRead
        <4> QED
          BY Zenon, <4>1 DEF Stands
      <3> QED
        BY Zenon, <2>1, <3>1, <3>5
    <2> DEFINE first == TRUE
    <2>6. first \in BOOLEAN /\ (first <=> 1 = 1) /\ first
      OBVIOUS
    <2> HIDE DEF first, upTo
    <2>7. Complete(t, h, d + Len(s[1]), upTo(1))
      BY Zenon, <1>4, <1>7, <2>1, <2>3, <2>4, <2>5, <2>6
    <2> QED
      BY Zenon, <1>4, <2>1, <2>7
  <1>9. ASSUME NEW j \in 0..(n - 1) - 1, j \in D
        PROVE  j + 1 \in D
    <2> DEFINE k == j + 1
               x == f[k]
               c == s[k + 1]
               z == f[k + 1]
               p == d + Len(x)
    <2>1. /\ k \in 1..n - 1 /\ k \in 1..n /\ k + 1 \in 1..n /\ k \in 0..n - 1 /\ (k + 1) - 1 = k /\ k + 1 # 1
      OBVIOUS
    <2>2. /\ x \in Seq(Nat) /\ c \in Seq(Nat) /\ z = x \o c
          /\ PartAt(q, 1, z) /\ Len(z) <= Len(q)
      BY Zenon, <1>2, <1>3, <1>4, <2>1
    <2>3. Complete(t, h, p, upTo(k))
      BY Zenon, <1>9
    <2> HIDE DEF x, c, z
    <2>4. Chained(z, x, c)
      BY <2>2, Chain
    <2>5. Len(z) = Len(x) + Len(c) /\ Len(x) \in Nat /\ Len(c) \in Nat /\ PartAt(z, Len(x) + 1, c)
      BY Zenon, <2>4 DEF Chained
    <2>6. /\ p \in Nat /\ p + Len(c) = d + Len(z) /\ p + Len(c) <= l /\ Len(z) \in Nat
          /\ d + 1 \in Nat \ {0} /\ (d + 1) + 1 - 1 = d + 1 /\ 1 + Len(z) <= Len(q) + 1 /\ 1 \in Nat \ {0}
          /\ Len(x) + 1 \in Nat \ {0} /\ (Len(x) + 1) + Len(c) <= Len(z) + 1
          /\ (d + 1) + (Len(x) + 1) - 1 = p + 1
      <3> HIDE DEF l
      <3> QED
        BY <1>5, <2>2, <2>5
    <2>7. PartAt(t, p + 1, c)
      <3>1. PartAt(t, (d + 1) + 1 - 1, z)
        BY Zenon, <1>5, <2>2, <2>6, LiftAt
      <3>2. PartAt(t, d + 1, z)
        BY Zenon, <2>6, <3>1
      <3>3. PartAt(t, (d + 1) + (Len(x) + 1) - 1, c)
        BY Zenon, <2>5, <2>6, <3>2, LiftAt
      <3> QED
        BY Zenon, <2>6, <3>3
    <2> DEFINE first == FALSE
    <2>8. first \in BOOLEAN /\ (first <=> k + 1 = 1) /\ ~first
      BY <2>1
    <2> HIDE DEF first, upTo, p, k
    <2>9. Complete(t, h, p + Len(c), upTo(k + 1))
      BY Zenon, <1>7, <2>1, <2>3, <2>6, <2>7, <2>8 DEF c
    <2>10. Complete(t, h, d + Len(f[k + 1]), upTo(k + 1))
      BY Zenon, <2>6, <2>9 DEF z
    <2>11. k \in D
      BY Zenon, <2>1, <2>10
    <2> QED
      BY Zenon, <2>11 DEF k
  <1> HIDE DEF D
  <1>10. n - 1 \in Nat /\ n - 1 \in 0..n - 1 /\ (n - 1) + 1 = n
    OBVIOUS
  <1>11. 0..n - 1 \subseteq D
    BY <1>8, <1>9, <1>10, BoundedInduction
  <1>12. Complete(t, h, l, upTo(n))
    BY Zenon, <1>3, <1>5, <1>10, <1>11 DEF D
  <1>13. upTo(n) = pairs
    BY <1>1, SubSeqFull
  <1> QED
    BY Zenon, <1>6, <1>12, <1>13 DEF Complete

\* Whatever is skipped, a list that is joined by semicolons is read.
LEMMA LedBy ==
  ASSUME NEW r, IsAttribute(r), NEW pad \in Seq(Nat), \A j \in 1..Len(pad) : pad[j] \in {SP, SEMICOLON}
  PROVE  /\ Led(pad \o AttributeText(r), r, TRUE)
         /\ \A first \in BOOLEAN : Led(<<SEMICOLON>> \o (pad \o AttributeText(r)), r, first)
  <1> DEFINE z == AttributeText(r)
             d == Len(pad)
             s == pad \o z
             semi == <<SEMICOLON>>
             u == semi \o s
  <1>1. z \in Seq(Nat) /\ semi \in Seq(Nat) /\ Len(semi) = 1 /\ semi[1] = SEMICOLON
    <2>1. z \in Seq(Nat)
      BY Zenon, AttributeTextTyped
    <2> QED
      BY <2>1 DEF SEMICOLON
  <1>2. d \in Nat /\ Len(z) \in Nat
    <2> HIDE DEF z
    <2> QED
      BY <1>1, LenProperties
  <1> HIDE DEF z, semi
  <1>3. Chained(s, pad, z)
    BY <1>1, Chain
  <1>4. s \in Seq(Nat) /\ Len(s) = d + Len(z) /\ PartAt(s, 1, pad) /\ PartAt(s, d + 1, z)
    BY Zenon, <1>3 DEF Chained
  <1> HIDE DEF s
  <1>5. Chained(u, semi, s)
    BY <1>1, <1>4, Chain
  <1>6. u \in Seq(Nat) /\ Len(u) = 1 + Len(s) /\ PartAt(u, 1, semi) /\ PartAt(u, 1 + 1, s)
    BY Zenon, <1>1, <1>5 DEF Chained
  <1> HIDE DEF u
  <1>7. \A j \in 1..d : s[j] \in {SP, SEMICOLON}
    <2>1. \A j \in 1..d : 1 + j - 1 = j
      BY <1>2
    <2> QED
      BY Zenon, <1>4, <2>1 DEF PartAt
  <1>8. Led(s, r, TRUE)
    BY Zenon, <1>2, <1>4, <1>7 DEF Led, z
  <1>9. ASSUME NEW first \in BOOLEAN
        PROVE  Led(u, r, first)
    <2> DEFINE e == d + 1
    <2> HIDE DEF d
    <2>1. /\ e \in Nat /\ Len(u) = e + Len(z) /\ e # 0 /\ 1 + 1 \in Nat \ {0} /\ d + 1 \in Nat \ {0}
          /\ Len(s) \in Nat /\ (d + 1) + Len(z) <= Len(s) + 1 /\ (1 + 1) + (d + 1) - 1 = e + 1
          /\ 1 \in 1..1 /\ 1 + 1 - 1 = 1
      BY <1>2, <1>4, <1>6
    <2>2. PartAt(u, e + 1, z)
      <3>1. PartAt(u, (1 + 1) + (d + 1) - 1, z)
        BY Zenon, <1>2, <1>4, <1>6, <2>1, LiftAt
      <3> QED
        BY Zenon, <2>1, <3>1
    <2>3. u[1] = SEMICOLON
      <3>1. 1 \in 1..Len(semi)
        BY <1>1
      <3>2. u[1 + 1 - 1] = semi[1]
        BY Zenon, <1>6, <3>1 DEF PartAt
      <3> QED
        BY Zenon, <1>1, <2>1, <3>2
    <2>4. ASSUME NEW j \in 1..e
          PROVE  u[j] \in {SP, SEMICOLON}
      <3>1. CASE j = 1
        BY <2>3, <3>1
      <3>2. CASE j # 1
        <4> DEFINE i == j - 1
        <4>1. i \in 1..d /\ i \in 1..Len(s) /\ 1 + 1 + i - 1 = j
          BY <1>2, <1>4, <3>2
        <4> HIDE DEF i
        <4>2. u[1 + 1 + i - 1] = s[i]
          BY Zenon, <1>6, <4>1 DEF PartAt
        <4> QED
          BY Zenon, <1>7, <4>1, <4>2
      <3> QED
        BY <3>1, <3>2
    <2> HIDE DEF e
    <2> QED
      BY Zenon, <1>6, <2>1, <2>2, <2>3, <2>4 DEF Led, z
  <1> QED
    BY Zenon, <1>8, <1>9 DEF s, z, u, semi

PaddedText(list, n, pad) ==
    pad \o Joined([i \in 1..n |-> pad \o AttributeText(list[i])], SEMICOLON)

\* Attributes with the same blanks before each are read.
LEMMA PaddedRead ==
  ASSUME NEW list, NEW n, Attributes(list, n), NEW pad \in Seq(Nat), Skipped(pad, Len(pad))
  PROVE  /\ ReadsAs(PaddedText(list, n, pad), PairsOf(list, n))
         /\ Joined([i \in 1..n |-> pad \o AttributeText(list[i])], SEMICOLON) \in Seq(Nat)
  <1> SUFFICES ASSUME n \in Nat, Len(list) = n, \A i \in 1..n : IsAttribute(list[i]),
                      \A j \in 1..Len(pad) : pad[j] \in {SP, SEMICOLON},
                      NEW texts, texts = [i \in 1..n |-> pad \o AttributeText(list[i])],
                      NEW pairs, pairs = [i \in 1..n |-> AttributePair(list[i])]
               PROVE  ParseAttributes(pad \o Joined(texts, SEMICOLON)) = pairs
                      /\ Joined(texts, SEMICOLON) \in Seq(Nat)
    BY Zenon DEF ReadsAs, PaddedText, PairsOf, Attributes, Skipped
  <1> DEFINE X(i) == pad \o AttributeText(list[i])
             semi == <<SEMICOLON>>
             g(i) == IF i = 1 THEN X(i) ELSE semi \o X(i)
             s == [i \in DOMAIN texts |-> IF i = 1 THEN texts[i] ELSE <<SEMICOLON>> \o texts[i]]
             q == FlattenSeq(s)
             t == pad \o q
             d == Len(pad)
             none == <<>>
  <1>1. Joined(texts, SEMICOLON) = q
    BY Zenon DEF Joined
  <1>2. DOMAIN texts = 1..n /\ \A i \in 1..n : texts[i] = X(i)
    BY Zenon
  <1>3. DOMAIN s = 1..n /\ \A i \in 1..n : s[i] = g(i)
    BY Zenon, <1>2
  <1>4. Len(s) = n
    <2> DEFINE r(i) == s[i]
    <2>1. s = [i \in 1..n |-> r(i)]
      BY Zenon, <1>2
    <2> HIDE DEF r
    <2>2. Len([i \in 1..n |-> r(i)]) = n
      OBVIOUS
    <2> QED
      BY Zenon, <2>1, <2>2
  <1>5. none \in Seq(Nat) /\ d \in Nat
    BY EmptySeq, LenProperties
  <1> HIDE DEF X
  <1>6. CASE n = 0
    <2>1. s = none /\ pairs = none
      <3>1. 1..0 = {}
        OBVIOUS
      <3>2. s = [i \in {} |-> i]
        BY <1>2, <1>6, <3>1 DEF s
      <3>3. pairs = [i \in {} |-> i] /\ none = [i \in {} |-> i]
        BY <1>6, <3>1
      <3> QED
        BY Zenon, <3>2, <3>3
    <2>2. q = none
      BY Zenon, <1>4, <1>6, <2>1 DEF FlattenSeq
    <2>10. q \in Seq(Nat)
      BY Zenon, <1>5, <2>2
    <2> HIDE DEF q
    <2>3. t = pad
      BY <2>2, ConcatEmptySeq
    <2>4. PICK h : /\ ParseAttributes(pad) = LastAttribute(pad, h[1..d])
                   /\ h[1..0] = NoAttributes /\ Collecting(h, pad)
      <3>1. Collected(pad)
        BY Zenon, AttributesCollected
      <3> QED
        BY Zenon, <3>1 DEF Collected
    <2>5. NoAttributes = At(none, 0, 0, 0)
      BY DEF NoAttributes, Between, At
    <2> HIDE DEF none
    <2>6. 0 \in Nat /\ d \in 0..d /\ \A j \in 0 + 1..d : pad[j] \in {SP, SEMICOLON}
      BY <1>5
    <2>7. Stands(h, d, At(none, 0, 0, 0))
      <3>1. h[1..0] = At(none, 0, 0, 0)
        BY Zenon, <2>4, <2>5
      <3> QED
        BY Zenon, <2>4, <2>6, <3>1, BlanksRead
    <2>8. AttributeSteps(pad, none, 1, 1, 1, 1)
      BY AttributeNextIs
    <2>9. ParseAttributes(pad) = none
      BY Zenon, <2>4, <2>7, <2>8 DEF Stands, AttributeSteps
    <2> QED
      BY Zenon, <1>1, <2>1, <2>3, <2>9, <2>10
  <1>7. CASE n # 0
    <2>1. n \in Nat \ {0}
      BY <1>7
    <2>2. \A i \in 1..n : Led(s[i], list[i], i = 1)
      <3> SUFFICES ASSUME NEW i \in 1..n
                   PROVE  Led(s[i], list[i], i = 1)
        OBVIOUS
      <3>1. /\ Led(X(i), list[i], TRUE)
            /\ \A first \in BOOLEAN : Led(semi \o X(i), list[i], first)
        BY Zenon, LedBy DEF X
      <3>2. CASE i = 1
        <4>1. (i = 1) = TRUE
          BY <3>2
        <4> QED
          BY Zenon, <1>3, <3>1, <3>2, <4>1
      <3>3. CASE i # 1
        <4>1. (i = 1) = FALSE
          BY <3>3
        <4> QED
          BY Zenon, <1>3, <3>1, <3>3, <4>1
      <3> QED
        BY Zenon, <3>2, <3>3
    <2> HIDE DEF s
    <2>3. q \in Seq(Nat)
      <3>1. \A i \in 1..n : s[i] \in Seq(Nat)
        BY Zenon, <2>2 DEF Led
      <3>2. PICK f : q = f[n] /\ \A i \in 1..n : f[i] \in Seq(Nat)
        BY Zenon, <1>4, <2>1, <3>1, FlattenedParts
      <3>3. n \in 1..n
        BY <2>1
      <3> QED
        BY Zenon, <3>2, <3>3
    <2> HIDE DEF q
    <2>4. Chained(t, pad, q)
      BY <2>3, Chain
    <2>5. t \in Seq(Nat) /\ Len(t) = d + Len(q) /\ PartAt(t, 1, pad) /\ PartAt(t, d + 1, q)
      BY Zenon, <2>4 DEF Chained
    <2> HIDE DEF t
    <2>6. \A j \in 1..d : t[j] \in {SP, SEMICOLON}
      <3>1. \A j \in 1..d : 1 + j - 1 = j
        BY <1>5
      <3> QED
        BY Zenon, <2>5, <3>1 DEF PartAt
    <2>7. ParseAttributes(t) = pairs
      <3>1. Attributes(list, n) /\ LedTo(s, list, n) /\ Skipped(t, d)
        BY Zenon, <1>4, <2>2, <2>6 DEF Attributes, LedTo, Skipped
      <3>2. EndsIn(t, d, FlattenSeq(s))
        BY Zenon, <1>5, <2>5 DEF EndsIn, q
      <3> HIDE DEF d
      <3>3. ReadsAs(t, PairsOf(list, n))
        BY Zenon, <1>7, <3>1, <3>2, ListRead
      <3> QED
        BY Zenon, <3>3 DEF ReadsAs, PairsOf
    <2> QED
      BY Zenon, <1>1, <2>3, <2>7 DEF t
  <1> QED
    BY Zenon, <1>6, <1>7

\* Attributes are read as they were written, however many there are, and whatever their
\* names and values are: joined by semicolons, and by semicolons and blanks.
THEOREM AttributesReadBack ==
  ASSUME NEW S, NEW list \in Seq(S), \A i \in 1..Len(list) : IsAttribute(list[i])
  PROVE  LET pairs == [i \in DOMAIN list |-> AttributePair(list[i])]
             texts == [i \in DOMAIN list |-> AttributeText(list[i])]
         IN  /\ ParseAttributes(Joined(texts, SEMICOLON)) = pairs
             /\ ParseAttributes(<<SP>> \o Joined([i \in DOMAIN texts |-> <<SP>> \o texts[i]], SEMICOLON))
                  = pairs
  <1> DEFINE n == Len(list)
             pairs == [i \in DOMAIN list |-> AttributePair(list[i])]
             texts == [i \in DOMAIN list |-> AttributeText(list[i])]
             blank == <<SP>>
             padded == [i \in DOMAIN texts |-> blank \o texts[i]]
             none == <<>>
  <1>1. n \in Nat /\ DOMAIN list = 1..n
    BY LenProperties
  <1>2. /\ pairs = [i \in 1..n |-> AttributePair(list[i])]
        /\ padded = [i \in 1..n |-> blank \o AttributeText(list[i])]
    <2>1. DOMAIN texts = 1..n /\ \A i \in 1..n : texts[i] = AttributeText(list[i])
      BY Zenon, <1>1
    <2> QED
      BY Zenon, <1>1, <2>1
  <1>3. texts = [i \in 1..n |-> none \o AttributeText(list[i])]
    <2>1. \A i \in 1..n : none \o AttributeText(list[i]) = AttributeText(list[i])
      <3> SUFFICES ASSUME NEW i \in 1..n
                   PROVE  none \o AttributeText(list[i]) = AttributeText(list[i])
        OBVIOUS
      <3> DEFINE z == AttributeText(list[i])
      <3>1. z \in Seq(Nat)
        BY Zenon, AttributeTextTyped
      <3> HIDE DEF z
      <3>2. none \o z = z
        BY <3>1, ConcatEmptySeq
      <3> QED
        BY Zenon, <3>2 DEF z
    <2> QED
      BY Zenon, <1>1, <2>1
  <1>4. /\ none \in Seq(Nat) /\ (\A j \in 1..Len(none) : none[j] \in {SP, SEMICOLON})
        /\ blank \in Seq(Nat) /\ (\A j \in 1..Len(blank) : blank[j] \in {SP, SEMICOLON})
    BY DEF SP
  <1> HIDE DEF n, pairs, texts, padded, none, blank
  <1>5. Attributes(list, n) /\ Skipped(none, Len(none)) /\ Skipped(blank, Len(blank))
    BY Zenon, <1>1, <1>4 DEF Attributes, Skipped, n
  <1>6. /\ ReadsAs(PaddedText(list, n, none), PairsOf(list, n))
        /\ Joined([i \in 1..n |-> none \o AttributeText(list[i])], SEMICOLON) \in Seq(Nat)
    BY Zenon, <1>4, <1>5, PaddedRead
  <1>7. ReadsAs(PaddedText(list, n, blank), PairsOf(list, n))
    BY Zenon, <1>4, <1>5, PaddedRead
  <1>8. none \o Joined(texts, SEMICOLON) = Joined(texts, SEMICOLON)
    <2> DEFINE j == Joined(texts, SEMICOLON)
    <2>1. j \in Seq(Nat)
      BY Zenon, <1>3, <1>6
    <2> HIDE DEF j
    <2>2. none \o j = j
      BY <2>1, ConcatEmptySeq DEF none
    <2> QED
      BY Zenon, <2>2 DEF j
  <1>9. /\ ParseAttributes(none \o Joined(texts, SEMICOLON)) = pairs
        /\ ParseAttributes(blank \o Joined(padded, SEMICOLON)) = pairs
    BY Zenon, <1>2, <1>3, <1>6, <1>7 DEF ReadsAs, PaddedText, PairsOf
  <1> QED
    BY Zenon, <1>8, <1>9 DEF pairs, texts, padded, blank

\* Whatever its attributes are, a header's value is read as they were written.
THEOREM AttributesAlwaysParsed == MessageSpec => []AttributesAreParsed
  <1>1. TextTyped => AttributesAreParsed
    <2> SUFFICES ASSUME TextTyped, kind = "attributes"
                 PROVE  LET pairs == [i \in DOMAIN text |-> AttributePair(text[i])]
                            texts == [i \in DOMAIN text |-> AttributeText(text[i])]
                        IN  /\ ParseAttributes(Joined(texts, SEMICOLON)) = pairs
                            /\ ParseAttributes(<<SP>> \o Joined([i \in DOMAIN texts |-> <<SP>> \o texts[i]], SEMICOLON))
                                 = pairs
      BY Zenon DEF AttributesAreParsed
    <2> DEFINE S == Parts["attributes"]
    <2>1. text \in Seq(S) /\ \A a \in S : IsAttribute(a)
      BY Zenon, PartsAssumption DEF TextTyped
    <2> HIDE DEF S
    <2>2. \A i \in 1..Len(text) : IsAttribute(text[i])
      BY <2>1, ElementOfSeq
    <2> QED
      BY Zenon, <2>1, <2>2, AttributesReadBack
  <1> QED
    BY <1>1, AlwaysTyped, PTL

==============================================================================
