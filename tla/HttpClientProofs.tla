-------------------------- MODULE HttpClientProofs --------------------------
(***************************************************************************)
(* For any number of requests in progress, any pool and every kind of      *)
(* client: who uses a connection, that none is lost to the pool, what      *)
(* stop() reaches, and when a request is written again.                    *)
(***************************************************************************)
EXTENDS HttpClient, SetInductions, FiniteSetTheorems

(* The inductive invariant.                                                *)

Connection ==
    [in_use : BOOLEAN, attempt_reconnect : BOOLEAN, socket : {"new", "open", "shut"},
     armed : BOOLEAN, expired : BOOLEAN, streamed : BOOLEAN]

Session ==
    [stage : Stages \cup Finished \cup {"callback"}, connection : Connections \cup {None},
     ec : {"pending", "none", "error", "aborted"}, end : BOOLEAN,
     next : BodyStages \cup {"done"}, parts : Nat, sends : Nat,
     ended : BOOLEAN, shared : BOOLEAN, interrupted : BOOLEAN]

TypeOK ==
    /\ scheme \in Schemes /\ pool \subseteq Connections
    /\ connection \in [Connections -> Connection]
    /\ session \in [Requests -> Session]
    /\ io \in Requests \cup {None}
    /\ destroyed \in BOOLEAN

\* A session leaves its connection in the callback that it says is the last; till
\* then it owns it, alone or not.
Leaving(r) == Stage(r) = "callback" /\ session[r].end
Owns(r) == Active(r) /\ ~Leaving(r)
Streams(r) == "events" \in {Stage(r), session[r].next}

\* A request is written once for each attempt, the second on a connection made for
\* it.
Exchanging(r) == Stage(r) \in ConnectStages \cup {"write", "header"}
Sends(r) ==
    (IF Stage(r) \in ConnectStages THEN 0 ELSE 1)
        + (IF connection[Conn(r)].attempt_reconnect THEN 0 ELSE 1)

RouteStages == {Route[i] : i \in DOMAIN Route}

SessionOK(r) ==
    /\ Active(r) <=> Conn(r) # None
    /\ Stage(r) = "callback" <=> io = r
    /\ Stage(r) = "idle" => session[r] = NewSession
    /\ Stage(r) \in ConnectStages => Stage(r) \in RouteStages
    /\ Stage(r) # "callback" => session[r].next = "done"
    /\ Leaving(r) => session[r].next \in {"done", "events"}
    /\ Stage(r) = "callback" /\ ~Leaving(r) => session[r].next # "done"
    /\ Stage(r) = "callback" /\ session[r].next # "done" => session[r].ec = "none"
    /\ Active(r) /\ Streams(r) => connection[Conn(r)].streamed
    /\ Exchanging(r) => /\ session[r].parts = 0 /\ ~session[r].ended
                        /\ session[r].sends = Sends(r)

SessionInv == \A r \in Requests : SessionOK(r)

\* Sessions that share a connection know it, and two own it only if it has carried
\* an event stream.
ExclusiveInv ==
    \A r, s \in Requests : r # s /\ Active(r) /\ Conn(r) = Conn(s) =>
        /\ session[r].shared /\ session[s].shared
        /\ Owns(r) /\ Owns(s) => connection[Conn(r)].streamed

\* What is owned cannot be had from the pool, unless an event stream gave it back.
Held(r) ==
    LET c == connection[Conn(r)]
    IN  /\ /\ Conn(r) \in pool
           /\ ~c.streamed \/ (~session[r].shared /\ ~Streams(r))
           => c.in_use
        /\ Exchanging(r) /\ ~c.attempt_reconnect => ~c.streamed

HeldInv == \A r \in Requests : Owns(r) => Held(r)

Reached(r) ==
    \/ session[r].interrupted \/ session[r].shared
    \/ Conn(r) \in pool
    \/ Leaving(r)
    \/ {Stage(r), session[r].next} \cap {"until_eof", "events"} # {}

ReachedInv == \A r \in Requests : Active(r) => Reached(r)

Lost == \E r \in Requests : Stage(r) = "lost"

LeakInv ==
    \A c \in pool : connection[c].in_use =>
        Lost \/ \E r \in Requests : Owns(r) /\ Conn(r) = c

\* Between a callback's two halves only, two connections of the pool are not used.
PoolInv ==
    /\ io = None => \A c, d \in Unused : c = d
    /\ destroyed => pool = {} /\ io = None
    /\ \A c \in Connections :
            c \notin pool /\ (\A r \in Requests : Conn(r) # c) => connection[c] = NewConnection

ClientInv ==
    /\ TypeOK /\ SessionInv /\ ExclusiveInv /\ HeldInv /\ ReachedInv /\ LeakInv /\ PoolInv

-----------------------------------------------------------------------------
(* Operators *)

\* The object that First picks is one of the set, as the set has a least element.
LEMMA FirstIsIn ==
  ASSUME NEW C, C \subseteq Connections, C # {}
  PROVE  First(C) \in C
  <1>1. C \subseteq Nat
    BY ClientAssumption
  <1>2. \E c \in C : \A d \in C : c <= d
    BY <1>1, LeastElement
  <1> QED
    BY <1>2 DEF First

\* connect() goes along the route of its kind of client, to the write.
LEMMA AlongTheRoute ==
  ASSUME scheme \in Schemes, NEW stage \in ConnectStages \cap RouteStages
  PROVE  AfterStage(stage) \in (ConnectStages \cap RouteStages) \cup {"write"}
  <1>1. PICK i \in DOMAIN Route : Route[i] = stage
    BY DEF RouteStages
  <1>2. CASE scheme = "http"
    <2>1. Route = <<"resolve", "connect", "write">>
      BY <1>2 DEF Route
    <2>2. \A j \in DOMAIN Route : Route[j] = stage => j = i
      BY <1>1, <2>1
    <2>3. AfterStage(stage) = Route[1 + i]
      BY <1>1, <2>2 DEF AfterStage
    <2>4. i \in {1, 2}
      BY <1>1, <2>1 DEF ConnectStages
    <2> QED
      BY <2>1, <2>3, <2>4 DEF ConnectStages, RouteStages
  <1>3. CASE scheme = "https"
    <2>1. Route = <<"resolve", "connect", "handshake", "write">>
      BY <1>3 DEF Route
    <2>2. \A j \in DOMAIN Route : Route[j] = stage => j = i
      BY <1>1, <2>1
    <2>3. AfterStage(stage) = Route[1 + i]
      BY <1>1, <2>2 DEF AfterStage
    <2>4. i \in {1, 2, 3}
      BY <1>1, <2>1 DEF ConnectStages
    <2> QED
      BY <2>1, <2>3, <2>4 DEF ConnectStages, RouteStages
  <1>4. CASE scheme = "https_proxy"
    <2>1. Route = <<"resolve", "connect", "tunnel_write", "tunnel_read", "handshake", "write">>
      BY <1>4 DEF Route
    <2>2. \A j \in DOMAIN Route : Route[j] = stage => j = i
      BY <1>1, <2>1
    <2>3. AfterStage(stage) = Route[1 + i]
      BY <1>1, <2>2 DEF AfterStage
    <2>4. i \in {1, 2, 3, 4, 5}
      BY <1>1, <2>1 DEF ConnectStages
    <2> QED
      BY <2>1, <2>3, <2>4 DEF ConnectStages, RouteStages
  <1> QED
    BY <1>2, <1>3, <1>4, ClientAssumption

\* A new connection, and a session that is over, are well typed.
LEMMA NewObjects ==
  /\ NewConnection \in Connection
  /\ \A stage \in Finished :
        /\ Over(stage) \in Session /\ Over(stage).stage = stage
        /\ Over(stage).connection = None /\ Over(stage).next = "done"
        /\ stage = "idle" => Over(stage) = NewSession
  <1>1. NewConnection \in Connection
    BY DEF NewConnection, Connection
  <1>2. /\ NewSession \in Session /\ NewSession.stage = "idle"
        /\ NewSession.connection = None /\ NewSession.next = "done"
    BY DEF NewSession, Session, BodyStages, Finished
  <1>3. ASSUME NEW stage \in Finished
        PROVE  /\ Over(stage) \in Session /\ Over(stage).stage = stage
               /\ Over(stage).connection = None /\ Over(stage).next = "done"
               /\ stage = "idle" => Over(stage) = NewSession
    <2> DEFINE n == NewSession
    <2>1. n \in Session /\ n.stage = "idle" /\ n.connection = None /\ n.next = "done"
      BY <1>2
    <2>2. Over(stage) = [n EXCEPT !.stage = stage]
      BY DEF Over
    <2> HIDE DEF n
    <2>3. Over(stage) \in Session
      BY <2>1, <2>2 DEF Session
    <2>4. /\ Over(stage).stage = stage
          /\ Over(stage).connection = None /\ Over(stage).next = "done"
      BY <2>1, <2>2 DEF Session
    <2>5. stage = "idle" => Over(stage) = n
      BY <2>1, <2>2 DEF Session
    <2> QED
      BY <2>3, <2>4, <2>5 DEF n
  <1> QED
    BY <1>1, <1>3

-----------------------------------------------------------------------------
(* Steps *)

\* A session that a step leaves alone, but for the end of its operation and for what
\* stop() and other requests make known to it.
Kept(s) ==
    LET o == session[s]
        n == session'[s]
    IN  /\ n.stage = o.stage /\ n.connection = o.connection /\ n.end = o.end
        /\ n.next = o.next /\ n.parts = o.parts /\ n.sends = o.sends /\ n.ended = o.ended
        /\ o.stage = "callback" => n.ec = o.ec
        /\ o.stage = "idle" => n = o
        /\ o.shared => n.shared
        /\ o.stage \notin Finished /\ o.interrupted => n.interrupted

\* A connection that a step leaves alone, but for its socket and its timer.
KeptConnection(c) ==
    LET o == connection[c]
        n == connection'[c]
    IN  /\ n.in_use = o.in_use /\ n.attempt_reconnect = o.attempt_reconnect
        /\ n.streamed = o.streamed

\* A step of one session, on its own connection.  What the session may do to that is
\* to give it back, to allow another attempt and to open an event stream, all three
\* only while it owns it; what it may take from the pool is that connection, and
\* others that are not in use.
LEMMA SessionStep ==
  ASSUME ClientInv, TypeOK', scheme' = scheme, NEW r \in Requests, Active(r),
         \A s \in Requests \ {r} : Kept(s),
         session'[r].connection \in {Conn(r), None},
         io \in {r, None}, io' \in {r, None},
         pool' \subseteq pool,
         \A c \in pool \ pool' : c = Conn(r) \/ (io = r /\ ~connection[c].in_use),
         \A c \in Connections \ {Conn(r)} :
            c \in pool' \/ (\E s \in Requests : Conn(s)' = c) => KeptConnection(c),
         Conn(r) \in pool' \/ (\E s \in Requests : Conn(s)' = Conn(r)) =>
            LET o == connection[Conn(r)]
                n == connection'[Conn(r)]
            IN  /\ n.in_use => o.in_use
                /\ o.attempt_reconnect => n.attempt_reconnect
                /\ o.streamed => n.streamed
                /\ Owns(r) \/ KeptConnection(Conn(r)),
         SessionOK(r)', Owns(r)' => Held(r)', Active(r)' => Reached(r)',
         Active(r)' => (session[r].shared <=> session'[r].shared),
         Owns(r)' => Owns(r) \/ connection'[Conn(r)].streamed,
         Owns(r) => \/ Owns(r)' \/ Lost'
                    \/ Conn(r) \notin pool' \/ ~connection'[Conn(r)].in_use,
         PoolInv'
  PROVE  ClientInv'
  <1> USE DEF ClientInv
  <1>1. /\ Conn(r) \in Connections /\ Conn(r) # None
        /\ Conn(r)' \in {Conn(r), None}
    <2>1. Conn(r) # None
      BY DEF SessionInv, SessionOK
    <2>2. session[r] \in Session
      BY DEF TypeOK
    <2> QED
      BY <2>1, <2>2 DEF Session, Conn
  <1>2. \A s \in Requests \ {r} :
            /\ Stage(s)' = Stage(s) /\ Conn(s)' = Conn(s) /\ session'[s].next = session[s].next
            /\ (Active(s)' <=> Active(s)) /\ (Owns(s)' <=> Owns(s)) /\ (Leaving(s)' <=> Leaving(s))
            /\ (Streams(s)' <=> Streams(s)) /\ (Exchanging(s)' <=> Exchanging(s))
            /\ (session[s].shared => session'[s].shared)
    BY DEF Kept, Stage, Conn, Active, Leaving, Owns, Streams, Exchanging
  <1>3. \A s \in Requests \ {r} :
            Conn(s) # None /\ Conn(s) # Conn(r) => KeptConnection(Conn(s))
    <2>1. \A s \in Requests : Conn(s) \in Connections \cup {None}
      BY DEF TypeOK, Session, Conn
    <2> QED
      BY <1>2, <2>1
  <1>4. \A s \in Requests \ {r} : Conn(s) = Conn(r) =>
            LET o == connection[Conn(r)]
                n == connection'[Conn(r)]
            IN  /\ n.in_use => o.in_use
                /\ o.attempt_reconnect => n.attempt_reconnect
                /\ o.streamed => n.streamed
                /\ Owns(r) \/ KeptConnection(Conn(r))
    BY <1>2
  <1>5. \A s \in Requests : Active(s) <=> Conn(s) # None
    BY DEF SessionInv, SessionOK
  \* Another owner of the same connection: it has carried an event stream, and the
  \* other session is not at its second attempt.
  <1>6. \A s \in Requests \ {r} : Owns(s) /\ Conn(s) = Conn(r) /\ ~KeptConnection(Conn(r)) =>
            /\ session[s].shared /\ connection[Conn(r)].streamed
            /\ Exchanging(s) => connection[Conn(r)].attempt_reconnect
    BY <1>1, <1>4 DEF ExclusiveInv, HeldInv, Held, Owns
  <1>7. SessionInv'
    <2>1. ASSUME NEW s \in Requests \ {r}
          PROVE  SessionOK(s)'
      <3>1. /\ SessionOK(s) /\ Kept(s)
            /\ Stage(s)' = Stage(s) /\ Conn(s)' = Conn(s)
            /\ (Active(s)' <=> Active(s)) /\ (Streams(s)' <=> Streams(s))
            /\ (Leaving(s)' <=> Leaving(s)) /\ (Exchanging(s)' <=> Exchanging(s))
        BY <1>2 DEF SessionInv
      <3>2. io # s /\ io' # s
        BY ClientAssumption
      <3>3. Active(s) /\ Streams(s) => connection'[Conn(s)].streamed
        BY <1>3, <1>4, <1>5, <3>1 DEF SessionOK, KeptConnection
      <3>4. Exchanging(s) =>
                connection'[Conn(s)].attempt_reconnect = connection[Conn(s)].attempt_reconnect
        <4>1. Exchanging(s) => Owns(s) /\ Conn(s) # None
          BY <1>5 DEF Exchanging, Owns, Active, Leaving, Finished, ConnectStages
        <4>2. connection[Conn(r)].attempt_reconnect \in BOOLEAN
              /\ connection'[Conn(r)].attempt_reconnect \in BOOLEAN
          BY <1>1 DEF TypeOK, Connection
        <4> QED
          BY <1>3, <1>4, <1>6, <4>1, <4>2 DEF KeptConnection
      <3>5. Exchanging(s) => Sends(s)' = Sends(s)
        BY <3>1, <3>4 DEF Sends
      <3>6. RouteStages' = RouteStages
        BY DEF RouteStages, Route
      <3>7. /\ (Active(s) <=> Conn(s) # None)'
            /\ (Stage(s) = "callback" <=> io = s)'
            /\ (Stage(s) = "idle" => session[s] = NewSession)'
            /\ (Stage(s) \in ConnectStages => Stage(s) \in RouteStages)'
        <4>1. (Stage(s) = "callback" <=> io = s)'
          BY <3>1, <3>2 DEF SessionOK
        <4> QED
          BY <3>1, <3>6, <4>1 DEF SessionOK, Kept, Stage
      <3>8. /\ (Stage(s) # "callback" => session[s].next = "done")'
            /\ (Leaving(s) => session[s].next \in {"done", "events"})'
            /\ (Stage(s) = "callback" /\ ~Leaving(s) => session[s].next # "done")'
            /\ (Stage(s) = "callback" /\ session[s].next # "done" => session[s].ec = "none")'
        BY <3>1 DEF SessionOK, Kept, Stage
      <3>9. (Active(s) /\ Streams(s) => connection[Conn(s)].streamed)'
        BY <3>1, <3>3
      <3>10. (Exchanging(s) => session[s].parts = 0 /\ ~session[s].ended
                               /\ session[s].sends = Sends(s))'
        BY <3>1, <3>5 DEF SessionOK, Kept
      <3> QED
        BY <3>7, <3>8, <3>9, <3>10 DEF SessionOK
    <2> QED
      BY <2>1 DEF SessionInv
  <1>8. ExclusiveInv'
    <2>1. ASSUME NEW p \in Requests, NEW q \in Requests, p # q,
                 Active(p)', Conn(p)' = Conn(q)'
          PROVE  /\ session'[p].shared /\ session'[q].shared
                 /\ Owns(p)' /\ Owns(q)' => connection'[Conn(p)'].streamed
      <3>1. (Active(p)' <=> Conn(p)' # None) /\ (Active(q)' <=> Conn(q)' # None)
        BY <1>7 DEF SessionInv, SessionOK
      <3>2. Active(q)'
        BY <2>1, <3>1
      <3>3. Conn(p) = Conn(p)' /\ Conn(q) = Conn(q)'
        BY <1>1, <1>2, <2>1, <3>1
      <3>4. Active(p) /\ Active(q) /\ Conn(p) = Conn(q)
        BY <1>2, <2>1, <3>2, <3>3
      <3>5. session[p].shared /\ session[q].shared
        BY <2>1, <3>4 DEF ExclusiveInv
      <3>6. session'[p].shared /\ session'[q].shared
        BY <1>2, <2>1, <3>2, <3>5
      <3>7. ASSUME Owns(p)', Owns(q)'
            PROVE  connection'[Conn(p)].streamed
        <4>1. Conn(p) # None /\ Conn(p) = Conn(q)
          BY <1>5, <3>4
        <4>2. CASE Conn(p) = Conn(r)
          <5>1. connection[Conn(r)].streamed => connection'[Conn(r)].streamed
            BY <1>4, <2>1, <4>1, <4>2
          <5>2. Owns(p) /\ Owns(q) => connection[Conn(r)].streamed
            BY <2>1, <3>4, <4>2 DEF ExclusiveInv
          <5> QED
            BY <1>2, <2>1, <3>7, <4>2, <5>1, <5>2
        <4>3. CASE Conn(p) # Conn(r)
          <5>1. Owns(p) /\ Owns(q) /\ KeptConnection(Conn(p))
            BY <1>2, <1>3, <3>7, <4>1, <4>3
          <5> QED
            BY <2>1, <3>4, <5>1 DEF ExclusiveInv, KeptConnection
        <4> QED
          BY <4>2, <4>3
      <3> QED
        BY <3>3, <3>6, <3>7
    <2> QED
      BY <2>1 DEF ExclusiveInv
  <1>9. HeldInv'
    <2>1. ASSUME NEW s \in Requests \ {r}, Owns(s)'
          PROVE  Held(s)'
      <3>1. /\ Owns(s) /\ Held(s) /\ Conn(s)' = Conn(s) /\ Conn(s) # None
            /\ (Streams(s)' <=> Streams(s)) /\ (Exchanging(s)' <=> Exchanging(s))
            /\ (session[s].shared => session'[s].shared)
        BY <1>2, <1>5, <2>1 DEF HeldInv, Owns
      <3>2. CASE KeptConnection(Conn(s))
        BY <3>1, <3>2 DEF Held, KeptConnection
      <3>3. CASE ~KeptConnection(Conn(s))
        <4>1. Conn(s) = Conn(r)
          BY <1>3, <3>1, <3>3
        <4>2. /\ session[s].shared /\ connection[Conn(r)].streamed
              /\ Exchanging(s) => connection[Conn(r)].attempt_reconnect
          BY <1>6, <3>1, <3>3, <4>1
        <4>3. /\ connection'[Conn(r)].streamed
              /\ Exchanging(s) => connection'[Conn(r)].attempt_reconnect
          BY <1>4, <4>1, <4>2
        <4> QED
          BY <3>1, <4>1, <4>2, <4>3 DEF Held
      <3> QED
        BY <3>2, <3>3
    <2> QED
      BY <2>1 DEF HeldInv
  <1>10. ReachedInv'
    <2>1. ASSUME NEW s \in Requests \ {r}, Active(s)'
          PROVE  Reached(s)'
      <3>1. /\ Active(s) /\ Reached(s) /\ Conn(s)' = Conn(s) /\ Stage(s)' = Stage(s)
            /\ session'[s].next = session[s].next /\ (Leaving(s)' <=> Leaving(s))
            /\ (session[s].shared => session'[s].shared)
            /\ (session[s].interrupted => session'[s].interrupted)
        BY <1>2, <2>1 DEF ReachedInv, Kept, Active, Stage
      <3>2. CASE Conn(s) \notin pool \ pool'
        BY <3>1, <3>2 DEF Reached
      <3>3. CASE Conn(s) = Conn(r)
        BY <3>1, <3>3 DEF ExclusiveInv, Reached
      <3>4. CASE Conn(s) \in pool /\ io = r /\ ~connection[Conn(s)].in_use
        <4>1. Stage(s) # "callback" /\ session[s].next = "done"
          BY <3>4 DEF SessionInv, SessionOK
        <4>2. session[s].shared \/ Streams(s)
          BY <3>1, <3>4, <4>1 DEF HeldInv, Held, Owns, Leaving
        <4> QED
          BY <3>1, <4>1, <4>2 DEF Reached, Streams
      <3> QED
        BY <3>2, <3>3, <3>4
    <2> QED
      BY <2>1 DEF ReachedInv
  <1>11. LeakInv'
    <2>1. ASSUME NEW c \in pool', connection'[c].in_use
          PROVE  Lost' \/ \E s \in Requests : Owns(s)' /\ Conn(s)' = c
      <3>1. c \in pool /\ c \in Connections /\ connection[c].in_use
        <4>1. c \in pool /\ c \in Connections
          BY DEF TypeOK
        <4>2. CASE c = Conn(r)
          BY <2>1, <4>1, <4>2
        <4>3. CASE c # Conn(r)
          BY <2>1, <4>1, <4>3 DEF KeptConnection
        <4> QED
          BY <4>1, <4>2, <4>3
      <3>2. CASE Lost
        <4>1. PICK s \in Requests : Stage(s) = "lost"
          BY <3>2 DEF Lost
        <4>2. s # r
          BY <4>1 DEF Active, Finished
        <4> QED
          BY <1>2, <4>1, <4>2 DEF Lost
      <3>3. CASE \E s \in Requests : Owns(s) /\ Conn(s) = c
        <4>1. PICK s \in Requests : Owns(s) /\ Conn(s) = c
          BY <3>3
        <4>2. CASE s # r
          BY <1>2, <4>1, <4>2
        <4>3. CASE s = r
          <5>1. Owns(r)' \/ Lost'
            BY <2>1, <4>1, <4>3
          <5>2. Owns(r)' => Conn(r)' = Conn(r)
            BY <1>1, <1>7 DEF SessionInv, SessionOK, Owns
          <5> QED
            BY <4>1, <4>3, <5>1, <5>2
        <4> QED
          BY <4>2, <4>3
      <3> QED
        BY <3>1, <3>2, <3>3 DEF LeakInv
    <2> QED
      BY <2>1 DEF LeakInv
  <1> QED
    BY <1>7, <1>8, <1>9, <1>10, <1>11

\* What is known of a session whose handler runs.
LEMMA Working ==
  ASSUME ClientInv, NEW r \in Requests, Stage(r) \in Stages
  PROVE  /\ session[r] \in Session /\ Active(r) /\ Owns(r) /\ ~Leaving(r)
         /\ Stage(r) # "callback" /\ session[r].next = "done" /\ io # r
         /\ Conn(r) \in Connections /\ Conn(r) # None /\ connection[Conn(r)] \in Connection
  <1>1. session[r] \in Session
    BY DEF ClientInv, TypeOK
  <1>2. Stage(r) # "callback" /\ Active(r)
    BY DEF Stages, ConnectStages, BodyStages, Active, Finished
  <1>3. Conn(r) # None /\ session[r].next = "done" /\ io # r
    BY <1>2 DEF ClientInv, SessionInv, SessionOK
  <1>4. Conn(r) \in Connections
    BY <1>1, <1>3 DEF Session, Conn
  <1> QED
    BY <1>1, <1>2, <1>3, <1>4 DEF ClientInv, TypeOK, Owns, Leaving

\* A handler that starts the session's next operation.
LEMMA ContinueStep ==
  ASSUME ClientInv, NEW r \in Requests, Stage(r) \in Stages, io = None,
         NEW t \in Session, session' = [session EXCEPT ![r] = t],
         NEW k \in Connection, connection' = [connection EXCEPT ![Conn(r)] = k],
         UNCHANGED <<scheme, pool, io, destroyed>>,
         t.stage \in Stages \ {"events"}, t.connection = Conn(r), t.end = session[r].end,
         t.next = "done", t.parts = session[r].parts, t.ended = session[r].ended,
         t.shared = session[r].shared, t.interrupted = session[r].interrupted,
         Stage(r) \in {"until_eof", "events"} => t.stage = Stage(r),
         t.stage \in ConnectStages => t.stage \in RouteStages,
         t.stage \in ConnectStages \cup {"write", "header"} =>
            /\ Exchanging(r)
            /\ k.attempt_reconnect = connection[Conn(r)].attempt_reconnect
            /\ t.sends + (IF Stage(r) \in ConnectStages THEN 0 ELSE 1)
                = session[r].sends + (IF t.stage \in ConnectStages THEN 0 ELSE 1),
         k.in_use = connection[Conn(r)].in_use, k.streamed = connection[Conn(r)].streamed,
         connection[Conn(r)].attempt_reconnect => k.attempt_reconnect
  PROVE  ClientInv'
  <1>1. /\ session[r] \in Session /\ Active(r) /\ Owns(r) /\ ~Leaving(r)
        /\ Stage(r) # "callback" /\ session[r].next = "done" /\ io # r
        /\ Conn(r) \in Connections /\ Conn(r) # None /\ connection[Conn(r)] \in Connection
    BY Working
  <1>2. /\ session \in [Requests -> Session] /\ connection \in [Connections -> Connection]
    BY DEF ClientInv, TypeOK
  <1>3. /\ session' \in [Requests -> Session] /\ session'[r] = t
        /\ \A s \in Requests \ {r} : session'[s] = session[s]
    BY <1>2
  <1>4. /\ connection' \in [Connections -> Connection] /\ connection'[Conn(r)] = k
        /\ \A c \in Connections \ {Conn(r)} : connection'[c] = connection[c]
    BY <1>1, <1>2
  <1>5. TypeOK'
    BY <1>3, <1>4 DEF ClientInv, TypeOK
  <1>6. /\ \A s \in Requests \ {r} : Kept(s)
        /\ \A c \in Connections \ {Conn(r)} : KeptConnection(c)
    BY <1>3, <1>4 DEF Kept, KeptConnection
  <1>7. /\ Stage(r)' = t.stage /\ Conn(r)' = Conn(r) /\ Active(r)' /\ Owns(r)'
        /\ Stage(r)' # "callback" /\ ~Leaving(r)'
    <2>1. t.stage \notin Finished \cup {"callback"}
      BY DEF Stages, ConnectStages, BodyStages, Finished
    <2> QED
      BY <1>3, <2>1 DEF Stage, Conn, Active, Owns, Leaving
  <1>8. ~Streams(r)' /\ ~(Stage(r)' = "idle")
    BY <1>3, <1>7 DEF Streams, Stages, ConnectStages, BodyStages
  <1>9. SessionOK(r)'
    <2>1. RouteStages' = RouteStages
      BY DEF RouteStages, Route
    <2>2. Exchanging(r)' =>
            (session[r].parts = 0 /\ ~session[r].ended /\ session[r].sends = Sends(r))'
      <3>1. SUFFICES ASSUME Exchanging(r)'
                     PROVE  (session[r].parts = 0 /\ ~session[r].ended
                             /\ session[r].sends = Sends(r))'
        OBVIOUS
      <3>2. t.stage \in ConnectStages \cup {"write", "header"}
        BY <1>7, <3>1 DEF Exchanging
      <3>3. Exchanging(r) /\ session[r].parts = 0 /\ ~session[r].ended
            /\ session[r].sends = Sends(r)
        BY <3>2 DEF ClientInv, SessionInv, SessionOK
      <3>4. Sends(r)' = (IF t.stage \in ConnectStages THEN 0 ELSE 1)
                        + (IF connection[Conn(r)].attempt_reconnect THEN 0 ELSE 1)
        BY <1>4, <1>7, <3>2 DEF Sends
      <3>5. t.sends \in Nat /\ session[r].sends \in Nat
        BY <1>1 DEF Session
      <3>6. t.sends = Sends(r)'
        BY <3>2, <3>3, <3>4, <3>5 DEF Sends
      <3> QED
        BY <1>3, <3>3, <3>6
    <2> QED
      BY <1>1, <1>3, <1>7, <1>8, <2>1, <2>2 DEF SessionOK
  <1>10. Held(r)'
    <2>1. Held(r)
      BY <1>1 DEF ClientInv, HeldInv
    <2>2. ~Streams(r)' /\ (Exchanging(r)' => Exchanging(r)
                            /\ k.attempt_reconnect = connection[Conn(r)].attempt_reconnect)
      BY <1>7, <1>8 DEF Exchanging
    <2>3. ~Streams(r)
      BY <1>1 DEF Streams
    <2> QED
      BY <1>3, <1>4, <1>7, <2>1, <2>2, <2>3 DEF Held
  <1>11. Reached(r)'
    <2>1. Reached(r)
      BY <1>1 DEF ClientInv, ReachedInv
    <2> QED
      BY <1>1, <1>3, <1>7, <2>1 DEF Reached
  <1>12. PoolInv'
    <2>1. \A c \in Connections : connection'[c].in_use = connection[c].in_use
      BY <1>4
    <2>2. Unused' = Unused
      BY <2>1 DEF Unused, ClientInv, TypeOK
    <2>3. \A c \in Connections :
            (\A s \in Requests : Conn(s)' # c) => (\A s \in Requests : Conn(s) # c) /\ c # Conn(r)
      BY <1>3, <1>7 DEF Conn
    <2> QED
      BY <1>4, <2>2, <2>3 DEF PoolInv, ClientInv
  <1>13. connection[Conn(r)].streamed => connection'[Conn(r)].streamed
    BY <1>4
  <1> QED
    BY <1>1, <1>3, <1>4, <1>5, <1>6, <1>7, <1>9, <1>10, <1>11, <1>12, SessionStep

\* session->callback, first half.
LEMMA CallbackStep ==
  ASSUME ClientInv, NEW r \in Requests, Stage(r) \in Stages, io = None, ~destroyed,
         NEW code \in {"none", "error", "aborted"}, NEW last \in BOOLEAN,
         NEW then \in BodyStages \cup {"done"}, Callback(r, code, last, then),
         pool' \in {pool, pool \ {Conn(r)}},
         then # "done" => code = "none",
         IF last THEN then \in {"done", "events"} ELSE then # "done",
         \/ last \/ then \in {"until_eof", "events"}
         \/ pool' = pool /\ Stage(r) \notin {"until_eof", "events"},
         Streams(r) => last \/ then = "events"
  PROVE  ClientInv'
  <1>1. /\ session[r] \in Session /\ Active(r) /\ Owns(r) /\ ~Leaving(r)
        /\ Stage(r) # "callback" /\ session[r].next = "done" /\ io # r
        /\ Conn(r) \in Connections /\ Conn(r) # None /\ connection[Conn(r)] \in Connection
    BY Working
  <1>2. /\ session \in [Requests -> Session] /\ connection \in [Connections -> Connection]
    BY DEF ClientInv, TypeOK
  <1> DEFINE t == session'[r]
             k == connection'[Conn(r)]
             o == connection[Conn(r)]
  <1>3. /\ session' \in [Requests -> Session]
        /\ t.stage = "callback" /\ t.connection = Conn(r) /\ t.ec = code /\ t.end = last
        /\ t.next = then /\ t.parts = session[r].parts /\ t.ended = session[r].ended
        /\ t.shared = session[r].shared /\ t.interrupted = session[r].interrupted
        /\ t.sends = session[r].sends
        /\ \A s \in Requests \ {r} : session'[s] = session[s]
    <2> DEFINE u == [session[r] EXCEPT !.stage = "callback", !.ec = code, !.end = last,
                                       !.next = then]
    <2>1. session' = [session EXCEPT ![r] = u]
      BY DEF Callback
    <2>2. u \in Session
      BY <1>1 DEF Session
    <2>3. /\ u.stage = "callback" /\ u.connection = Conn(r) /\ u.ec = code /\ u.end = last
          /\ u.next = then /\ u.parts = session[r].parts /\ u.ended = session[r].ended
          /\ u.shared = session[r].shared /\ u.interrupted = session[r].interrupted
          /\ u.sends = session[r].sends
      BY <1>1 DEF Session, Conn
    <2> HIDE DEF u
    <2> QED
      BY <1>2, <2>1, <2>2, <2>3
  <1>4. /\ connection' \in [Connections -> Connection]
        /\ k.in_use = (o.in_use /\ ~last)
        /\ o.attempt_reconnect => k.attempt_reconnect
        /\ k.streamed = (o.streamed \/ then = "events")
        /\ \A c \in Connections \ {Conn(r)} : connection'[c] = connection[c]
    <2> DEFINE u == [o EXCEPT !.armed = @ /\ ~last, !.in_use = @ /\ ~last,
                        !.attempt_reconnect = @ \/ (Stage(r) = "header" /\ Ok(r)),
                        !.streamed = @ \/ then = "events"]
    <2>1. connection' = [connection EXCEPT ![Conn(r)] = u]
      BY <1>1, <1>2 DEF Callback
    <2>2. u \in Connection
      BY <1>1 DEF Connection
    <2>3. /\ u.in_use = (o.in_use /\ ~last)
          /\ o.attempt_reconnect => u.attempt_reconnect
          /\ u.streamed = (o.streamed \/ then = "events")
      BY <1>1 DEF Connection
    <2> HIDE DEF u
    <2> QED
      BY <1>1, <1>2, <2>1, <2>2, <2>3
  <1>5. io' = r /\ UNCHANGED <<scheme, destroyed>>
    BY DEF Callback
  <1>6. TypeOK'
    BY <1>3, <1>4, <1>5 DEF ClientInv, TypeOK
  <1>7. /\ \A s \in Requests \ {r} : Kept(s)
        /\ \A c \in Connections \ {Conn(r)} : KeptConnection(c)
    BY <1>3, <1>4 DEF Kept, KeptConnection
  <1>8. /\ Stage(r)' = "callback" /\ Conn(r)' = Conn(r) /\ Active(r)'
        /\ (Leaving(r)' <=> last) /\ (Owns(r)' <=> ~last) /\ ~Exchanging(r)'
        /\ (Streams(r)' <=> then = "events")
    BY <1>3 DEF Stage, Conn, Active, Leaving, Owns, Finished, Exchanging, ConnectStages, Streams
  <1>9. SessionOK(r)'
    BY <1>1, <1>3, <1>4, <1>5, <1>8 DEF SessionOK, ConnectStages
  <1>10. Owns(r)' => Held(r)'
    <2>1. SUFFICES ASSUME ~last
                   PROVE  Held(r)'
      BY <1>8
    <2>2. Held(r)
      BY <1>1 DEF ClientInv, HeldInv
    <2>3. /\ o.in_use => k.in_use
          /\ ~k.streamed => ~o.streamed
          /\ ~Streams(r)' => ~Streams(r)
      BY <1>4, <1>8, <2>1
    <2>4. Conn(r) \in pool' => Conn(r) \in pool
      OBVIOUS
    <2> HIDE DEF k, o, t
    <2> QED
      BY <1>3, <1>8, <2>2, <2>3, <2>4 DEF Held, k, o, t
  <1>11. Reached(r)'
    <2>1. Reached(r)
      BY <1>1 DEF ClientInv, ReachedInv
    <2> QED
      BY <1>1, <1>3, <1>8, <2>1 DEF Reached
  <1>12. PoolInv'
    <2>1. \A c \in Connections :
            (\A s \in Requests : Conn(s)' # c) => (\A s \in Requests : Conn(s) # c) /\ c # Conn(r)
      BY <1>3, <1>8 DEF Conn
    <2>2. io' # None /\ ~destroyed'
      BY <1>5, ClientAssumption
    <2> QED
      BY <1>4, <2>1, <2>2 DEF PoolInv, ClientInv
  <1>13. /\ io' \in {r, None} /\ pool' \subseteq pool
         /\ \A c \in pool \ pool' : c = Conn(r)
    BY <1>5
  <1>14. /\ k.in_use => o.in_use
         /\ o.streamed => k.streamed
         /\ last => ~k.in_use
    BY <1>1, <1>4
  <1> HIDE DEF k, o, t
  <1> QED
    BY <1>1, <1>3, <1>4, <1>5, <1>6, <1>7, <1>8, <1>9, <1>10, <1>11, <1>12, <1>13, <1>14,
       SessionStep DEF k, o, t

-----------------------------------------------------------------------------
(* Handlers *)

\* Starting the next operation: what becomes of the session.
LEMMA WaitingSession ==
  ASSUME NEW s \in Session, NEW stage \in Stages
  PROVE  LET t == Waiting(s, stage)
         IN  /\ t \in Session /\ t.stage = stage /\ t.connection = s.connection
             /\ t.ec = "pending" /\ t.end = s.end /\ t.next = s.next
             /\ t.parts = s.parts /\ t.sends = s.sends /\ t.ended = s.ended
             /\ t.shared = s.shared /\ t.interrupted = s.interrupted
  BY DEF Waiting, Session

\* The connection is made one operation further, or the request is written.
LEMMA ConnectedStep ==
  ASSUME ClientInv, NEW r \in Requests, Connected(r)
  PROVE  ClientInv'
  <1> DEFINE next == AfterStage(Stage(r))
             w == Waiting(session[r], next)
             t == [w EXCEPT !.sends = IF next = "write" THEN @ + 1 ELSE @]
             o == connection[Conn(r)]
             k == [o EXCEPT !.armed = IF next = "write" THEN Timeout ELSE TimeoutConnect,
                            !.socket = IF @ = "new" THEN "open" ELSE @]
  <1>1. Stage(r) \in ConnectStages /\ Stage(r) \in Stages /\ io = None
    BY DEF Connected, Handles, Stages
  <1>2. /\ session[r] \in Session /\ session[r].next = "done"
        /\ Conn(r) \in Connections /\ o \in Connection
    BY <1>1, Working
  <1>3. /\ session \in [Requests -> Session] /\ connection \in [Connections -> Connection]
        /\ scheme \in Schemes
    BY DEF ClientInv, TypeOK
  <1>4. Stage(r) \in RouteStages
    BY <1>1 DEF ClientInv, SessionInv, SessionOK
  <1>5. next \in (ConnectStages \cap RouteStages) \cup {"write"}
    BY <1>1, <1>3, <1>4, AlongTheRoute
  <1> HIDE DEF next
  <1>6. /\ w \in Session /\ w.stage = next /\ w.connection = Conn(r) /\ w.end = session[r].end
        /\ w.next = "done" /\ w.parts = session[r].parts /\ w.ended = session[r].ended
        /\ w.shared = session[r].shared /\ w.interrupted = session[r].interrupted
        /\ w.sends = session[r].sends
    BY <1>2, <1>5, WaitingSession DEF Stages, Conn
  <1>7. session' = [session EXCEPT ![r] = t]
    <2>1. session' = [session EXCEPT ![r] = w,
                            ![r].sends = IF next = "write" THEN @ + 1 ELSE @]
      BY DEF Connected, next
    <2> HIDE DEF w
    <2> DEFINE begun == [session EXCEPT ![r] = w]
    <2>2. /\ begun \in [Requests -> Session] /\ begun[r] = w
          /\ \A s \in Requests \ {r} : begun[s] = session[s]
      BY <1>3, <1>6
    <2>3. session' = [begun EXCEPT ![r].sends =
                        IF next = "write" THEN session[r].sends + 1 ELSE session[r].sends]
      BY <2>1
    <2> HIDE DEF begun
    <2>4. session' = [begun EXCEPT ![r] = t]
      BY <1>6, <2>2, <2>3
    <2> HIDE DEF t
    <2>5. /\ session' = [s \in Requests |-> IF s = r THEN t ELSE begun[s]]
          /\ [session EXCEPT ![r] = t] = [s \in Requests |-> IF s = r THEN t ELSE session[s]]
      BY <1>3, <2>2, <2>4
    <2> QED
      BY <2>2, <2>5
  <1>8. connection' = [connection EXCEPT ![Conn(r)] = k]
    BY <1>2, <1>3 DEF Connected, next
  <1> HIDE DEF w
  <1>9. /\ t \in Session /\ t.stage = next /\ t.connection = Conn(r) /\ t.end = session[r].end
        /\ t.next = "done" /\ t.parts = session[r].parts /\ t.ended = session[r].ended
        /\ t.shared = session[r].shared /\ t.interrupted = session[r].interrupted
        /\ t.sends = IF next = "write" THEN session[r].sends + 1 ELSE session[r].sends
    BY <1>6 DEF Session
  <1>10. /\ k \in Connection /\ k.in_use = o.in_use /\ k.streamed = o.streamed
         /\ k.attempt_reconnect = o.attempt_reconnect
    BY <1>2, ClientAssumption DEF Connection
  <1>11. UNCHANGED <<scheme, pool, io, destroyed>>
    BY DEF Connected
  <1> HIDE DEF t, k
  <1>12. /\ t.stage \in Stages \ {"events"}
         /\ Stage(r) \in {"until_eof", "events"} => t.stage = Stage(r)
         /\ t.stage \in ConnectStages => t.stage \in RouteStages
    BY <1>1, <1>5, <1>9 DEF Stages, ConnectStages, BodyStages
  <1>13. /\ Exchanging(r)
         /\ t.sends + (IF Stage(r) \in ConnectStages THEN 0 ELSE 1)
                = session[r].sends + (IF t.stage \in ConnectStages THEN 0 ELSE 1)
    <2>1. session[r].sends \in Nat
      BY <1>2 DEF Session
    <2>2. next = "write" <=> next \notin ConnectStages
      BY <1>5 DEF ConnectStages
    <2> QED
      BY <1>1, <1>9, <2>1, <2>2 DEF Exchanging
  <1> QED
    BY <1>1, <1>7, <1>8, <1>9, <1>10, <1>11, <1>12, <1>13, ContinueStep

\* A handler that only goes on to read.
LEMMA ReadOn ==
  ASSUME ClientInv, NEW r \in Requests, Stage(r) \in Stages, io = None,
         NEW stage \in {"header"} \cup (BodyStages \ {"events"}), Continue(r, stage),
         \/ connection' = connection
         \/ connection' = [connection EXCEPT ![Conn(r)].attempt_reconnect = TRUE]
                /\ stage # "header",
         Stage(r) \notin {"until_eof", "events"},
         stage = "header" => Stage(r) = "write"
  PROVE  ClientInv'
  <1> DEFINE t == Waiting(session[r], stage)
             o == connection[Conn(r)]
             k == connection'[Conn(r)]
  <1>1. /\ session[r] \in Session /\ session[r].next = "done"
        /\ Conn(r) \in Connections /\ o \in Connection
    BY Working
  <1>2. /\ session \in [Requests -> Session] /\ connection \in [Connections -> Connection]
    BY DEF ClientInv, TypeOK
  <1>3. stage \in Stages \ {"events"} /\ stage \notin ConnectStages \cup {"write"}
    BY DEF Stages, BodyStages, ConnectStages
  <1>4. /\ t \in Session /\ t.stage = stage /\ t.connection = Conn(r) /\ t.end = session[r].end
        /\ t.next = "done" /\ t.parts = session[r].parts /\ t.ended = session[r].ended
        /\ t.shared = session[r].shared /\ t.interrupted = session[r].interrupted
        /\ t.sends = session[r].sends
    BY <1>1, <1>3, WaitingSession DEF Conn
  <1>5. session' = [session EXCEPT ![r] = t] /\ UNCHANGED <<scheme, pool, io, destroyed>>
    BY DEF Continue
  <1>6. /\ connection' = [connection EXCEPT ![Conn(r)] = k]
        /\ k \in Connection /\ k.in_use = o.in_use /\ k.streamed = o.streamed
        /\ o.attempt_reconnect => k.attempt_reconnect
        /\ stage = "header" => k.attempt_reconnect = o.attempt_reconnect
    <2>1. CASE connection' = connection
      BY <1>1, <1>2, <2>1
    <2>2. CASE connection' = [connection EXCEPT ![Conn(r)].attempt_reconnect = TRUE]
                /\ stage # "header"
      <3> DEFINE u == [o EXCEPT !.attempt_reconnect = TRUE]
      <3>1. connection' = [connection EXCEPT ![Conn(r)] = u]
        BY <2>2
      <3>2. /\ u \in Connection /\ u.in_use = o.in_use /\ u.streamed = o.streamed
            /\ u.attempt_reconnect = TRUE
        BY <1>1 DEF Connection
      <3> HIDE DEF u
      <3> QED
        BY <1>1, <1>2, <2>2, <3>1, <3>2
    <2> QED
      BY <2>1, <2>2
  <1> HIDE DEF t, k
  <1>8. stage = "header" =>
            /\ Exchanging(r)
            /\ t.sends + (IF Stage(r) \in ConnectStages THEN 0 ELSE 1)
                = session[r].sends + (IF t.stage \in ConnectStages THEN 0 ELSE 1)
    BY <1>3, <1>4 DEF Exchanging, ConnectStages
  <1> QED
    BY <1>3, <1>4, <1>5, <1>6, <1>8, ContinueStep

\* The handlers that only read on.
LEMMA ReadingHandlers ==
  ASSUME ClientInv, NEW r \in Requests,
         \/ RequestWritten(r) \/ HeaderRead(r) \/ ChunkRead(r)
         \/ ChunkSizeRead(r) /\ \E stage \in {"chunk_data", "chunk_size"} : Continue(r, stage)
                             /\ UNCHANGED connection
  PROVE  ClientInv'
  <1>1. CASE RequestWritten(r)
    BY <1>1, ReadOn DEF RequestWritten, Handles, Stages
  <1>2. CASE HeaderRead(r)
    BY <1>2, ReadOn DEF HeaderRead, Handles, Stages, BodyStages
  <1>3. CASE ChunkRead(r)
    BY <1>3, ReadOn DEF ChunkRead, Handles, Stages, BodyStages
  <1>4. CASE ChunkSizeRead(r) /\ \E stage \in {"chunk_data", "chunk_size"} :
                Continue(r, stage) /\ UNCHANGED connection
    BY <1>4, ReadOn DEF ChunkSizeRead, Handles, Stages, BodyStages
  <1> QED
    BY <1>1, <1>2, <1>3, <1>4

\* A handler whose session comes to its last callback.
LEMMA FinishStep ==
  ASSUME ClientInv, NEW r \in Requests, Stage(r) \in Stages, io = None, ~destroyed,
         NEW code \in {"none", "error", "aborted"}, Finish(r, code),
         pool' \in {pool, pool \ {Conn(r)}}
  PROVE  ClientInv'
  BY CallbackStep, TRUE \in BOOLEAN DEF Finish

\* A handler that gives the application a part of the body.
LEMMA PartStep ==
  ASSUME ClientInv, NEW r \in Requests, Stage(r) \in Stages, io = None, ~destroyed,
         NEW then \in BodyStages, Part(r, then),
         \/ pool' = pool /\ Stage(r) \notin {"until_eof", "events"}
         \/ pool' \in {pool, pool \ {Conn(r)}} /\ then = Stage(r)
                /\ then \in {"until_eof", "events"}
  PROVE  ClientInv'
  <1>1. Callback(r, "none", FALSE, then)
    BY DEF Part
  <1>2. session[r].next = "done"
    BY Working
  <1>3. Streams(r) => then = "events"
    BY <1>2 DEF Streams
  <1>4. then \in BodyStages \cup {"done"} /\ then # "done" /\ pool' \in {pool, pool \ {Conn(r)}}
    BY DEF BodyStages
  <1>5. \/ FALSE \/ then \in {"until_eof", "events"}
        \/ pool' = pool /\ Stage(r) \notin {"until_eof", "events"}
    OBVIOUS
  <1> QED
    BY <1>1, <1>3, <1>4, <1>5, CallbackStep, FALSE \in BOOLEAN

\* The handlers that end in a callback.
LEMMA CallbackHandlers ==
  ASSUME ClientInv, NEW r \in Requests,
         \/ ConnectFailed(r) \/ ExchangeFailed(r) \/ HeaderEnds(r) \/ EventsOpened(r)
         \/ ContentRead(r) \/ EofRead(r) \/ EventRead(r) \/ BodyFailed(r)
         \/ ChunkSizeRead(r) /\ pool' = pool
                /\ \/ \E code \in {"none", "error"} : Finish(r, code)
                   \/ \E stage \in {"chunk_data", "chunk_size"} : Part(r, stage)
  PROVE  ClientInv'
  <1>1. session[r].ec \in {"pending", "none", "error", "aborted"}
    BY DEF ClientInv, TypeOK, Session
  <1>2. CASE ConnectFailed(r)
    BY <1>1, <1>2, FinishStep DEF ConnectFailed, Handles, Stages, Ok
  <1>3. CASE ExchangeFailed(r)
    BY <1>1, <1>3, FinishStep DEF ExchangeFailed, Handles, Stages
  <1>4. CASE HeaderEnds(r)
    BY <1>4, FinishStep DEF HeaderEnds, Handles, Stages
  <1>5. CASE EventsOpened(r)
    <2>1. /\ Callback(r, "none", TRUE, "events") /\ pool' = pool
          /\ Stage(r) \in Stages /\ io = None /\ ~destroyed
      BY <1>5 DEF EventsOpened, Handles, Stages
    <2>2. "events" \in BodyStages \cup {"done"}
      BY DEF BodyStages
    <2> QED
      BY <2>1, <2>2, CallbackStep, TRUE \in BOOLEAN
  <1>6. CASE ContentRead(r)
    <2>1. /\ Finish(r, "none") \/ Part(r, "content")
          /\ pool' = pool /\ Stage(r) = "content" /\ io = None /\ ~destroyed
      BY <1>6 DEF ContentRead, Handles
    <2>2. "content" \in BodyStages /\ "content" \in Stages
      BY DEF BodyStages, Stages
    <2> QED
      BY <2>1, <2>2, FinishStep, PartStep
  <1>7. CASE EofRead(r)
    <2>1. /\ Finish(r, "none") \/ Part(r, "until_eof")
          /\ pool' = pool \ {Conn(r)} /\ Stage(r) = "until_eof" /\ io = None /\ ~destroyed
      BY <1>7 DEF EofRead, Handles
    <2>2. "until_eof" \in BodyStages /\ "until_eof" \in Stages
      BY DEF BodyStages, Stages
    <2> QED
      BY <2>1, <2>2, FinishStep, PartStep
  <1>8. CASE EventRead(r)
    <2>1. /\ Part(r, "events")
          /\ pool' = pool /\ Stage(r) = "events" /\ io = None /\ ~destroyed
      BY <1>8 DEF EventRead, Handles
    <2>2. "events" \in BodyStages /\ "events" \in Stages
      BY DEF BodyStages, Stages
    <2> QED
      BY <2>1, <2>2, PartStep
  <1>9. CASE BodyFailed(r)
    BY <1>1, <1>9, FinishStep DEF BodyFailed, Handles, Stages
  <1>10. CASE /\ ChunkSizeRead(r) /\ pool' = pool
              /\ \/ \E code \in {"none", "error"} : Finish(r, code)
                 \/ \E stage \in {"chunk_data", "chunk_size"} : Part(r, stage)
    <2>1. Stage(r) = "chunk_size" /\ io = None /\ ~destroyed
      BY <1>10 DEF ChunkSizeRead, Handles
    <2>2. {"chunk_data", "chunk_size"} \subseteq BodyStages /\ "chunk_size" \in Stages
      BY DEF BodyStages, Stages
    <2> QED
      BY <1>10, <2>1, <2>2, FinishStep, PartStep
  <1> QED
    BY <1>2, <1>3, <1>4, <1>5, <1>6, <1>7, <1>8, <1>9, <1>10

-----------------------------------------------------------------------------
(* The network, timers and stop() *)

\* A step in which no session moves on: what leaves the pool is interrupted.
LEMMA QuietStep ==
  ASSUME ClientInv, TypeOK', scheme' = scheme, io' = io, pool' \subseteq pool,
         \A s \in Requests : Kept(s),
         \A c \in Connections :
            c \in pool' \/ (\E s \in Requests : Conn(s) = c) => KeptConnection(c),
         \A s \in Requests : Active(s) /\ Conn(s) \in pool \ pool' => session'[s].interrupted,
         PoolInv'
  PROVE  ClientInv'
  <1> USE DEF ClientInv
  <1>1. \A s \in Requests :
            /\ Stage(s)' = Stage(s) /\ Conn(s)' = Conn(s) /\ session'[s].next = session[s].next
            /\ (Active(s)' <=> Active(s)) /\ (Owns(s)' <=> Owns(s)) /\ (Leaving(s)' <=> Leaving(s))
            /\ (Streams(s)' <=> Streams(s)) /\ (Exchanging(s)' <=> Exchanging(s))
            /\ (session[s].shared => session'[s].shared)
            /\ (Active(s) /\ session[s].interrupted => session'[s].interrupted)
    BY DEF Kept, Stage, Conn, Active, Leaving, Owns, Streams, Exchanging
  <1>2. \A s \in Requests : (Active(s) <=> Conn(s) # None)
    BY DEF SessionInv, SessionOK
  <1>3. \A s \in Requests : Active(s) => KeptConnection(Conn(s))
    <2>1. \A s \in Requests : Conn(s) \in Connections \cup {None}
      BY DEF TypeOK, Session, Conn
    <2> QED
      BY <1>2, <2>1
  <1>4. SessionInv'
    <2>1. ASSUME NEW s \in Requests
          PROVE  SessionOK(s)'
      <3>1. /\ SessionOK(s) /\ Kept(s)
            /\ Stage(s)' = Stage(s) /\ Conn(s)' = Conn(s)
            /\ (Active(s)' <=> Active(s)) /\ (Streams(s)' <=> Streams(s))
            /\ (Leaving(s)' <=> Leaving(s)) /\ (Exchanging(s)' <=> Exchanging(s))
        BY <1>1 DEF SessionInv
      <3>2. Exchanging(s) => Active(s)
        BY DEF Exchanging, Active, Finished, ConnectStages
      <3>3. Exchanging(s) => Sends(s)' = Sends(s)
        BY <1>3, <3>1, <3>2 DEF Sends, KeptConnection
      <3>4. RouteStages' = RouteStages
        BY DEF RouteStages, Route
      <3>5. /\ (Active(s) <=> Conn(s) # None)'
            /\ (Stage(s) = "idle" => session[s] = NewSession)'
            /\ (Stage(s) \in ConnectStages => Stage(s) \in RouteStages)'
        BY <3>1, <3>4 DEF SessionOK, Kept, Stage
      <3>6. (Stage(s) = "callback" <=> io = s)'
        BY <3>1 DEF SessionOK
      <3>7. /\ (Stage(s) # "callback" => session[s].next = "done")'
            /\ (Leaving(s) => session[s].next \in {"done", "events"})'
            /\ (Stage(s) = "callback" /\ ~Leaving(s) => session[s].next # "done")'
            /\ (Stage(s) = "callback" /\ session[s].next # "done" => session[s].ec = "none")'
        BY <3>1 DEF SessionOK, Kept, Stage
      <3>8. (Active(s) /\ Streams(s) => connection[Conn(s)].streamed)'
        BY <1>3, <3>1 DEF SessionOK, KeptConnection
      <3>9. (Exchanging(s) => session[s].parts = 0 /\ ~session[s].ended
                               /\ session[s].sends = Sends(s))'
        BY <3>1, <3>3 DEF SessionOK, Kept
      <3> QED
        BY <3>5, <3>6, <3>7, <3>8, <3>9 DEF SessionOK
    <2> QED
      BY <2>1 DEF SessionInv
  <1>5. ExclusiveInv'
    <2>1. ASSUME NEW p \in Requests, NEW q \in Requests, p # q,
                 Active(p)', Conn(p)' = Conn(q)'
          PROVE  /\ session'[p].shared /\ session'[q].shared
                 /\ Owns(p)' /\ Owns(q)' => connection'[Conn(p)'].streamed
      <3>1. /\ Active(p) /\ Conn(p) = Conn(q) /\ session[p].shared /\ session[q].shared
            /\ Owns(p) /\ Owns(q) => connection[Conn(p)].streamed
        BY <1>1, <2>1 DEF ExclusiveInv
      <3> QED
        BY <1>1, <1>3, <3>1 DEF KeptConnection
    <2> QED
      BY <2>1 DEF ExclusiveInv
  <1>6. HeldInv'
    <2>1. ASSUME NEW s \in Requests, Owns(s)'
          PROVE  Held(s)'
      <3>1. Held(s) /\ KeptConnection(Conn(s))
        BY <1>1, <1>3, <2>1 DEF HeldInv, Owns
      <3> QED
        BY <1>1, <3>1 DEF Held, KeptConnection
    <2> QED
      BY <2>1 DEF HeldInv
  <1>7. ReachedInv'
    BY <1>1 DEF ReachedInv, Reached
  <1>8. LeakInv'
    <2>1. ASSUME NEW c \in pool', connection'[c].in_use
          PROVE  Lost' \/ \E s \in Requests : Owns(s)' /\ Conn(s)' = c
      <3>1. c \in pool /\ connection[c].in_use
        BY <2>1 DEF TypeOK, KeptConnection
      <3> QED
        BY <1>1, <3>1 DEF LeakInv, Lost
    <2> QED
      BY <2>1 DEF LeakInv
  <1> QED
    BY <1>4, <1>5, <1>6, <1>7, <1>8

\* An operation ends: only its error code changes.
LEMMA CompleteStep ==
  ASSUME ClientInv, NEW r \in Requests, NEW code \in {"none", "error"}, Complete(r, code)
  PROVE  ClientInv'
  <1>1. /\ session \in [Requests -> Session] /\ connection \in [Connections -> Connection]
    BY DEF ClientInv, TypeOK
  <1> DEFINE u == [session[r] EXCEPT !.ec = code]
  <1>2. session' = [session EXCEPT ![r] = u] /\ Stage(r) \in Stages
        /\ UNCHANGED <<scheme, pool, connection, io, destroyed>>
    BY DEF Complete
  <1>3. /\ u \in Session /\ u.stage = session[r].stage /\ u.connection = session[r].connection
        /\ u.end = session[r].end /\ u.next = session[r].next /\ u.parts = session[r].parts
        /\ u.sends = session[r].sends /\ u.ended = session[r].ended
        /\ u.shared = session[r].shared /\ u.interrupted = session[r].interrupted
    BY <1>1 DEF Session
  <1> HIDE DEF u
  <1>4. TypeOK'
    BY <1>1, <1>2, <1>3 DEF ClientInv, TypeOK
  <1>5. \A s \in Requests : Kept(s)
    <2>1. session[r].stage # "callback" /\ session[r].stage # "idle"
      BY <1>2 DEF Stage, Stages, ConnectStages, BodyStages
    <2> QED
      BY <1>1, <1>2, <1>3, <2>1 DEF Kept
  <1>6. \A c \in Connections : KeptConnection(c)
    BY <1>2 DEF KeptConnection
  <1>7. PoolInv'
    <2>1. \A s \in Requests : Conn(s)' = Conn(s)
      BY <1>5 DEF Kept, Conn
    <2> QED
      BY <1>2, <2>1 DEF ClientInv, PoolInv, Unused
  <1> QED
    BY <1>2, <1>4, <1>5, <1>6, <1>7, QuietStep

\* What close() and a timer leave of a session: no more than its error code changes.
LEMMA CancelledSessions ==
  ASSUME TypeOK, NEW C
  PROVE  /\ Cancelled(C) \in [Requests -> Session]
         /\ \A s \in Requests :
                LET o == session[s]
                    n == Cancelled(C)[s]
                IN  /\ n.stage = o.stage /\ n.connection = o.connection /\ n.end = o.end
                    /\ n.next = o.next /\ n.parts = o.parts /\ n.sends = o.sends
                    /\ n.ended = o.ended /\ n.shared = o.shared
                    /\ n.interrupted = o.interrupted
                    /\ Stage(s) \notin Stages => n = o
  <1>1. ASSUME NEW s \in Requests
        PROVE  LET o == session[s]
                   n == Cancelled(C)[s]
               IN  /\ n \in Session
                   /\ n.stage = o.stage /\ n.connection = o.connection /\ n.end = o.end
                   /\ n.next = o.next /\ n.parts = o.parts /\ n.sends = o.sends
                   /\ n.ended = o.ended /\ n.shared = o.shared
                   /\ n.interrupted = o.interrupted
                   /\ Stage(s) \notin Stages => n = o
    <2>1. session[s] \in Session
      BY DEF TypeOK
    <2>2. CASE WaitsFor(s, C)
      <3> DEFINE u == [session[s] EXCEPT !.ec = "aborted"]
      <3>1. Cancelled(C)[s] = u /\ Stage(s) \in Stages
        BY <2>2 DEF Cancelled, WaitsFor
      <3>2. /\ u \in Session /\ u.stage = session[s].stage
            /\ u.connection = session[s].connection
            /\ u.end = session[s].end /\ u.next = session[s].next /\ u.parts = session[s].parts
            /\ u.sends = session[s].sends /\ u.ended = session[s].ended
            /\ u.shared = session[s].shared /\ u.interrupted = session[s].interrupted
        BY <2>1 DEF Session
      <3> HIDE DEF u
      <3> QED
        BY <3>1, <3>2
    <2>3. CASE ~WaitsFor(s, C)
      BY <2>1, <2>3 DEF Cancelled
    <2> QED
      BY <2>2, <2>3
  <1>2. \A s \in Requests : Cancelled(C)[s] \in Session
    BY <1>1
  <1>3. Cancelled(C) \in [Requests -> Session]
    BY <1>2 DEF Cancelled
  <1> QED
    BY <1>1, <1>3

\* close() changes nothing of a connection but its socket.
LEMMA ClosedConnections ==
  ASSUME NEW f \in [Connections -> Connection], NEW C
  PROVE  /\ Closed(f, C) \in [Connections -> Connection]
         /\ \A c \in Connections :
                LET o == f[c]
                    n == Closed(f, C)[c]
                IN  /\ n.in_use = o.in_use /\ n.attempt_reconnect = o.attempt_reconnect
                    /\ n.streamed = o.streamed /\ n.armed = o.armed /\ n.expired = o.expired
                    /\ o.socket # "open" => n = o
  <1>1. ASSUME NEW c \in Connections
        PROVE  LET o == f[c]
                   n == Closed(f, C)[c]
               IN  /\ n \in Connection
                   /\ n.in_use = o.in_use /\ n.attempt_reconnect = o.attempt_reconnect
                   /\ n.streamed = o.streamed /\ n.armed = o.armed /\ n.expired = o.expired
                   /\ o.socket # "open" => n = o
    <2>1. f[c] \in Connection
      OBVIOUS
    <2>2. CASE c \in C /\ f[c].socket = "open"
      <3> DEFINE u == [f[c] EXCEPT !.socket = "shut"]
      <3>1. Closed(f, C)[c] = u
        BY <2>2 DEF Closed
      <3>2. /\ u \in Connection /\ u.in_use = f[c].in_use
            /\ u.attempt_reconnect = f[c].attempt_reconnect
            /\ u.streamed = f[c].streamed /\ u.armed = f[c].armed /\ u.expired = f[c].expired
        BY <2>1 DEF Connection
      <3> HIDE DEF u
      <3> QED
        BY <2>2, <3>1, <3>2
    <2>3. CASE ~(c \in C /\ f[c].socket = "open")
      BY <2>1, <2>3 DEF Closed
    <2> QED
      BY <2>2, <2>3
  <1>2. \A c \in Connections : Closed(f, C)[c] \in Connection
    BY <1>1
  <1>3. Closed(f, C) \in [Connections -> Connection]
    BY <1>2 DEF Closed
  <1> QED
    BY <1>1, <1>3

\* What is pointed to lives on, the rest is as new.
LEMMA CollectedConnections ==
  ASSUME NEW f \in [Connections -> Connection], connection' = Collected(f)
  PROVE  /\ connection' \in [Connections -> Connection]
         /\ \A c \in Connections :
                IF c \in pool' \/ \E s \in Requests : Conn(s)' = c
                THEN connection'[c] = f[c] ELSE connection'[c] = NewConnection
  <1>1. \A c \in Connections : f[c] \in Connection /\ NewConnection \in Connection
    BY NewObjects
  <1> QED
    BY <1>1 DEF Collected, Conn

\* A timer runs out: nothing but the timer changes.
LEMMA ExpireStep ==
  ASSUME ClientInv, NEW c \in Connections, Expire(c)
  PROVE  ClientInv'
  <1>1. /\ connection \in [Connections -> Connection]
    BY DEF ClientInv, TypeOK
  <1> DEFINE u == [connection[c] EXCEPT !.armed = FALSE, !.expired = TRUE]
  <1>2. connection' = [connection EXCEPT ![c] = u]
        /\ UNCHANGED <<scheme, pool, session, io, destroyed>>
    BY DEF Expire
  <1>3. /\ u \in Connection /\ u.in_use = connection[c].in_use
        /\ u.attempt_reconnect = connection[c].attempt_reconnect
        /\ u.streamed = connection[c].streamed
    BY <1>1 DEF Connection
  <1>4. connection[c] # NewConnection
    BY DEF Expire, NewConnection
  <1> HIDE DEF u
  <1>5. TypeOK'
    BY <1>1, <1>2, <1>3 DEF ClientInv, TypeOK
  <1>6. \A d \in Connections : KeptConnection(d)
    BY <1>1, <1>2, <1>3 DEF KeptConnection
  <1>7. \A s \in Requests : Kept(s) /\ Conn(s)' = Conn(s)
    BY <1>2 DEF Kept, Conn
  <1>8. PoolInv'
    <2>1. Unused' = Unused
      BY <1>2, <1>6 DEF Unused, KeptConnection, ClientInv, TypeOK
    <2>2. \A d \in Connections : connection[d] = NewConnection => connection'[d] = NewConnection
      BY <1>1, <1>2, <1>4
    <2> QED
      BY <1>2, <1>7, <2>1, <2>2 DEF ClientInv, PoolInv
  <1> QED
    BY <1>2, <1>5, <1>6, <1>7, <1>8, QuietStep

\* The handler of a timer closes its connection, and ends what waits for it.
LEMMA TimerStep ==
  ASSUME ClientInv, NEW c \in Connections, TimerFires(c)
  PROVE  ClientInv'
  <1>1. /\ connection \in [Connections -> Connection] /\ TypeOK
    BY DEF ClientInv, TypeOK
  <1> DEFINE u == [connection[c] EXCEPT !.expired = FALSE]
             f == [connection EXCEPT ![c] = u]
  <1>2. connection' = Closed(f, {c}) /\ session' = Cancelled({c})
        /\ UNCHANGED <<scheme, pool, io, destroyed>>
    BY DEF TimerFires
  <1>3. /\ u \in Connection /\ u.in_use = connection[c].in_use
        /\ u.attempt_reconnect = connection[c].attempt_reconnect
        /\ u.streamed = connection[c].streamed
    BY <1>1 DEF Connection
  <1>4. connection[c] # NewConnection
    BY DEF TimerFires, NewConnection
  <1> HIDE DEF u
  <1>5. f \in [Connections -> Connection] /\ f[c] = u
        /\ \A d \in Connections \ {c} : f[d] = connection[d]
    BY <1>1, <1>3
  <1> HIDE DEF f
  <1>6. TypeOK'
    <2>1. connection' \in [Connections -> Connection]
      BY <1>2, <1>5, ClosedConnections
    <2>2. session' \in [Requests -> Session]
      BY <1>1, <1>2, CancelledSessions
    <2> QED
      BY <1>1, <1>2, <2>1, <2>2 DEF TypeOK
  <1>7. \A d \in Connections : KeptConnection(d)
    BY <1>2, <1>3, <1>5, ClosedConnections DEF KeptConnection
  <1>8. \A s \in Requests : Kept(s) /\ Conn(s)' = Conn(s)
    <2>1. \A s \in Requests : Stage(s) \in {"callback", "idle"} => Stage(s) \notin Stages
      BY DEF Stages, ConnectStages, BodyStages
    <2> QED
      BY <1>1, <1>2, <2>1, CancelledSessions DEF Kept, Conn, Stage
  <1>9. PoolInv'
    <2>1. Unused' = Unused
      BY <1>2, <1>7 DEF Unused, KeptConnection, ClientInv, TypeOK
    <2>2. \A d \in Connections : connection[d] = NewConnection => connection'[d] = NewConnection
      <3>1. ASSUME NEW d \in Connections, connection[d] = NewConnection
            PROVE  connection'[d] = NewConnection
        <4>1. d # c
          BY <1>4, <3>1
        <4>2. f[d] = NewConnection /\ f[d].socket # "open"
          BY <1>5, <3>1, <4>1 DEF NewConnection
        <4> QED
          BY <1>2, <1>5, <4>2, ClosedConnections
      <3> QED
        BY <3>1
    <2> QED
      BY <1>2, <1>8, <2>1, <2>2 DEF ClientInv, PoolInv
  <1> QED
    BY <1>2, <1>6, <1>7, <1>8, <1>9, QuietStep

\* stop() and the destructor.
LEMMA CloseAllStep ==
  ASSUME ClientInv, CloseAll, destroyed' \in BOOLEAN, destroyed' => io = None
  PROVE  ClientInv'
  <1>1. /\ connection \in [Connections -> Connection] /\ TypeOK
        /\ session \in [Requests -> Session]
    BY DEF ClientInv, TypeOK
  <1>2. PICK code \in [Requests -> {"aborted", "error"}] :
            session' = [r \in Requests |->
                [session[r] EXCEPT !.interrupted = Active(r),
                                   !.ec = IF WaitsFor(r, pool) THEN code[r] ELSE @]]
    BY DEF CloseAll
  <1>3. ASSUME NEW s \in Requests
        PROVE  /\ session'[s] \in Session /\ Kept(s) /\ Conn(s)' = Conn(s)
               /\ (session'[s].interrupted <=> Active(s))
    <2> DEFINE ec == IF WaitsFor(s, pool) THEN code[s] ELSE session[s].ec
               n == session'[s]
    <2>1. n = [session[s] EXCEPT !.interrupted = Active(s), !.ec = ec]
      BY <1>2
    <2>2. session[s] \in Session /\ ec \in {"pending", "none", "error", "aborted"}
      BY <1>1 DEF Session
    <2>3. Active(s) \in BOOLEAN
      BY DEF Active
    <2>4. WaitsFor(s, pool) => session[s].stage # "callback" /\ session[s].stage # "idle"
      BY DEF WaitsFor, Stages, ConnectStages, BodyStages, Stage
    <2>5. session[s].stage = "callback" => ec = session[s].ec
      BY <2>4
    <2>6. session[s].stage = "idle" => n = session[s]
      <3>1. SUFFICES ASSUME session[s].stage = "idle"
                     PROVE  n = session[s]
        OBVIOUS
      <3>2. session[s] = NewSession
        BY <3>1 DEF ClientInv, SessionInv, SessionOK, Stage
      <3>3. Active(s) = FALSE
        BY <3>1 DEF Active, Stage, Finished
      <3>4. ec = NewSession.ec
        BY <2>4, <3>1, <3>2
      <3>5. n = [NewSession EXCEPT !.interrupted = FALSE, !.ec = NewSession.ec]
        BY <2>1, <3>2, <3>3, <3>4
      <3> QED
        BY <3>2, <3>5 DEF NewSession
    <2> HIDE DEF ec
    <2>7. /\ n \in Session /\ n.stage = session[s].stage
          /\ n.connection = session[s].connection
          /\ n.end = session[s].end /\ n.next = session[s].next /\ n.parts = session[s].parts
          /\ n.sends = session[s].sends /\ n.ended = session[s].ended
          /\ n.shared = session[s].shared /\ n.ec = ec
      BY <2>1, <2>2, <2>3 DEF Session
    <2>8. n.interrupted = Active(s)
      BY <2>1, <2>2 DEF Session
    <2>9. session[s].stage \notin Finished => n.interrupted
      BY <2>8 DEF Active, Stage
    <2> QED
      BY <2>5, <2>6, <2>7, <2>8, <2>9 DEF Kept, Conn
  <1>4. session' \in [Requests -> Session]
    <2>1. \A s \in Requests : session'[s] \in Session
      BY <1>3
    <2> QED
      BY <1>2, <2>1
  <1> DEFINE f == Closed(connection, pool)
  <1>5. /\ pool' = {} /\ UNCHANGED <<scheme, io>> /\ connection' = Collected(f)
    BY DEF CloseAll
  <1>6. f \in [Connections -> Connection]
    BY <1>1, ClosedConnections
  <1>7. \A c \in Connections : /\ f[c].in_use = connection[c].in_use
                               /\ f[c].attempt_reconnect = connection[c].attempt_reconnect
                               /\ f[c].streamed = connection[c].streamed
    BY <1>1, ClosedConnections
  <1> HIDE DEF f
  <1>8. TypeOK'
    BY <1>1, <1>4, <1>5, <1>6, CollectedConnections DEF TypeOK
  <1>9. \A c \in Connections :
            c \in pool' \/ (\E s \in Requests : Conn(s) = c) => KeptConnection(c)
    BY <1>3, <1>5, <1>6, <1>7, CollectedConnections DEF KeptConnection
  <1>10. PoolInv'
    <2>1. Unused' = {}
      BY <1>5 DEF Unused
    <2>2. \A c \in Connections : (\A s \in Requests : Conn(s)' # c) => connection'[c] = NewConnection
      BY <1>5, <1>6, CollectedConnections
    <2>3. destroyed' => io' = None
      BY <1>5
    <2> QED
      BY <1>5, <2>1, <2>2, <2>3 DEF PoolInv
  <1>11. \A s \in Requests : Kept(s)
    BY <1>3
  <1>12. \A s \in Requests : Active(s) => session'[s].interrupted
    BY <1>3
  <1> QED
    BY <1>5, <1>8, <1>9, <1>10, <1>11, <1>12, QuietStep

-----------------------------------------------------------------------------
(* The end of a session, and of a callback *)

\* A session ends, and its connection goes with it unless something else points to it.
LEMMA OverStep ==
  ASSUME ClientInv, NEW r \in Requests, Active(r), io \in {r, None}, io' = None,
         NEW stage \in {"done", "lost", "dropped"},
         session' = [session EXCEPT ![r] = Over(stage)],
         NEW f \in [Connections -> Connection], connection' = Collected(f),
         \A c \in Connections : /\ f[c].in_use = connection[c].in_use
                                /\ f[c].streamed = connection[c].streamed
                                /\ connection[c].attempt_reconnect => f[c].attempt_reconnect
                                /\ f[c].attempt_reconnect = connection[c].attempt_reconnect
                                        \/ (c = Conn(r) /\ Owns(r)),
         UNCHANGED <<scheme, destroyed>>,
         pool' \subseteq pool,
         \A c \in pool \ pool' : c = Conn(r) \/ (io = r /\ ~connection[c].in_use),
         Owns(r) => stage = "lost" \/ Conn(r) \notin pool',
         \A c, d \in Unused \cap pool' : c = d
  PROVE  ClientInv'
  <1>1. /\ TypeOK /\ session \in [Requests -> Session]
        /\ connection \in [Connections -> Connection]
    BY DEF ClientInv, TypeOK
  <1>2. /\ Over(stage) \in Session /\ Over(stage).stage = stage
        /\ Over(stage).connection = None /\ Over(stage).next = "done"
    BY NewObjects DEF Finished
  <1>3. /\ session' \in [Requests -> Session] /\ session'[r] = Over(stage)
        /\ \A s \in Requests \ {r} : session'[s] = session[s]
    BY <1>1, <1>2
  <1>4. /\ connection' \in [Connections -> Connection]
        /\ \A c \in Connections :
                IF c \in pool' \/ \E s \in Requests : Conn(s)' = c
                THEN connection'[c] = f[c] ELSE connection'[c] = NewConnection
    BY CollectedConnections
  <1>5. TypeOK'
    BY <1>1, <1>3, <1>4 DEF TypeOK
  <1>6. \A s \in Requests \ {r} : Kept(s)
    BY <1>3 DEF Kept
  <1>7. /\ Stage(r)' = stage /\ Conn(r)' = None /\ ~Active(r)' /\ ~Owns(r)'
        /\ ~Streams(r)' /\ ~Exchanging(r)' /\ ~Leaving(r)'
    <2>1. stage \in Finished /\ stage # "callback"
          /\ stage \notin ConnectStages \cup {"write", "header", "events"}
      BY DEF Finished, ConnectStages
    <2> QED
      BY <1>2, <1>3, <2>1
         DEF Stage, Conn, Active, Owns, Streams, Exchanging, Leaving
  <1>8. SessionOK(r)'
    <2>1. io' # r /\ stage # "callback" /\ stage # "idle" /\ stage \notin ConnectStages
      BY ClientAssumption DEF ConnectStages
    <2> QED
      BY <1>2, <1>3, <1>7, <2>1 DEF SessionOK
  <1>9. \A c \in Connections \ {Conn(r)} :
            c \in pool' \/ (\E s \in Requests : Conn(s)' = c) => KeptConnection(c)
    BY <1>4 DEF KeptConnection
  <1>10. Conn(r) \in Connections /\ Conn(r) # None
    <2>1. Conn(r) # None /\ session[r] \in Session
      BY <1>1 DEF ClientInv, SessionInv, SessionOK
    <2> QED
      BY <2>1 DEF Conn, Session
  <1>11. Conn(r) \in pool' \/ (\E s \in Requests : Conn(s)' = Conn(r)) =>
            LET o == connection[Conn(r)]
                n == connection'[Conn(r)]
            IN  /\ n.in_use => o.in_use
                /\ o.attempt_reconnect => n.attempt_reconnect
                /\ o.streamed => n.streamed
                /\ Owns(r) \/ KeptConnection(Conn(r))
    BY <1>4, <1>10 DEF KeptConnection
  <1>12. Owns(r) => Lost' \/ Conn(r) \notin pool'
    BY <1>7 DEF Lost
  <1>13. PoolInv'
    <2>1. Unused' \subseteq Unused \cap pool'
      <3>1. \A c \in pool' : connection'[c].in_use = connection[c].in_use
        BY <1>1, <1>4 DEF TypeOK
      <3> QED
        BY <3>1 DEF Unused
    <2>2. destroyed' => pool' = {} /\ io' = None
      BY DEF ClientInv, PoolInv
    <2> QED
      BY <1>4, <2>1, <2>2 DEF PoolInv
  <1>14. session'[r].connection \in {Conn(r), None} /\ scheme' = scheme
    BY <1>2, <1>3
  <1> QED
    BY <1>5, <1>6, <1>7, <1>8, <1>9, <1>11, <1>12, <1>13, <1>14, SessionStep

\* An exception leaves the handler: the connection stays marked as in use.
LEMMA HeaderThrowsStep ==
  ASSUME ClientInv, NEW r \in Requests, HeaderThrows(r)
  PROVE  ClientInv'
  <1>1. Stage(r) \in Stages /\ io = None
    BY DEF HeaderThrows, Handles, Stages
  <1>2. /\ Active(r) /\ Owns(r) /\ Conn(r) \in Connections /\ connection[Conn(r)] \in Connection
        /\ connection \in [Connections -> Connection]
    BY <1>1, Working DEF ClientInv, TypeOK
  <1> DEFINE u == [connection[Conn(r)] EXCEPT !.attempt_reconnect = TRUE]
             f == [connection EXCEPT ![Conn(r)] = u]
  <1>3. /\ u \in Connection /\ u.in_use = connection[Conn(r)].in_use
        /\ u.streamed = connection[Conn(r)].streamed /\ u.attempt_reconnect = TRUE
    BY <1>2 DEF Connection
  <1>4. /\ session' = [session EXCEPT ![r] = Over("lost")] /\ connection' = Collected(f)
        /\ UNCHANGED <<scheme, pool, io, destroyed>>
    BY DEF HeaderThrows
  <1> HIDE DEF u
  <1>5. /\ f \in [Connections -> Connection]
        /\ \A c \in Connections : /\ f[c].in_use = connection[c].in_use
                                  /\ f[c].streamed = connection[c].streamed
                                  /\ connection[c].attempt_reconnect => f[c].attempt_reconnect
                                  /\ f[c].attempt_reconnect = connection[c].attempt_reconnect
                                        \/ (c = Conn(r) /\ Owns(r))
    BY <1>2, <1>3
  <1>6. \A c, d \in Unused \cap pool' : c = d
    BY <1>1, <1>4 DEF ClientInv, PoolInv
  <1> HIDE DEF f
  <1> QED
    BY <1>1, <1>2, <1>4, <1>5, <1>6, OverStep

\* A handler of a destroyed client: the pool is empty by then.
LEMMA DroppedStep ==
  ASSUME ClientInv, NEW r \in Requests, Dropped(r)
  PROVE  ClientInv'
  <1>1. /\ Stage(r) \in Stages /\ io = None /\ pool = {}
        /\ connection \in [Connections -> Connection]
    BY DEF Dropped, ClientInv, PoolInv, TypeOK
  <1>2. Active(r)
    BY <1>1, Working
  <1>3. /\ session' = [session EXCEPT ![r] = Over("dropped")]
        /\ connection' = Collected(connection)
        /\ UNCHANGED <<scheme, pool, io, destroyed>>
    BY DEF Dropped
  <1> QED
    BY <1>1, <1>2, <1>3, OverStep

\* What the prune loop takes from the pool.
LEMMA PrunedPool ==
  ASSUME NEW r \in Requests, NEW P \in Pruned(r)
  PROVE  /\ P \subseteq pool
         /\ \A c \in pool \ P : ~connection[c].in_use
                                \/ (c = Conn(r) /\ session[r].ec # "none")
         /\ \A c, d \in Unused \cap P : c = d
  <1> DEFINE kept == IF session[r].ec # "none" THEN pool \ {Conn(r)} ELSE pool
             unused == kept \cap Unused
  <1>1. P \in IF unused = {} THEN {kept} ELSE {(kept \ unused) \cup {c} : c \in unused}
    BY DEF Pruned
  <1>2. kept \subseteq pool
        /\ \A c \in pool \ kept : c = Conn(r) /\ session[r].ec # "none"
    OBVIOUS
  <1> HIDE DEF kept
  <1>3. CASE unused = {}
    BY <1>1, <1>2, <1>3
  <1>4. CASE unused # {}
    <2>1. PICK c \in unused : P = (kept \ unused) \cup {c}
      BY <1>1, <1>4
    <2> QED
      BY <1>2, <2>1 DEF Unused
  <1> QED
    BY <1>3, <1>4

\* The second half of a callback prunes the pool, and the session ends or reads on.
LEMMA EndCallbackStep ==
  ASSUME ClientInv, NEW r \in Requests, EndCallback(r)
  PROVE  ClientInv'
  <1> DEFINE s == session[r]
  <1>1. /\ TypeOK /\ session \in [Requests -> Session] /\ s \in Session
        /\ connection \in [Connections -> Connection]
    BY DEF ClientInv, TypeOK
  <1>2. /\ io = r /\ Stage(r) = "callback" /\ Active(r)
        /\ Conn(r) # None /\ Conn(r) \in Connections
    <2>1. io = r /\ Stage(r) = "callback"
      BY DEF EndCallback, ClientInv, SessionInv, SessionOK
    <2>2. Active(r)
      BY <2>1 DEF Active, Finished
    <2>3. Conn(r) # None
      BY <2>2 DEF ClientInv, SessionInv, SessionOK
    <2> QED
      BY <1>1, <2>1, <2>2, <2>3 DEF Session, Conn
  <1>3. /\ pool' \in Pruned(r) /\ io' = None /\ UNCHANGED <<scheme, destroyed>>
    BY DEF EndCallback
  <1>4. /\ pool' \subseteq pool
        /\ \A c \in pool \ pool' : ~connection[c].in_use
                                   \/ (c = Conn(r) /\ session[r].ec # "none")
        /\ \A c, d \in Unused \cap pool' : c = d
    BY <1>3, PrunedPool
  <1>5. \A c \in pool \ pool' : c = Conn(r) \/ (io = r /\ ~connection[c].in_use)
    BY <1>2, <1>4
  <1>6. CASE /\ s.next = "done"
             /\ session' = [session EXCEPT ![r] = Over("done")]
             /\ connection' = Collected(connection)
    <2>1. ~Owns(r)
      BY <1>2, <1>6 DEF ClientInv, SessionInv, SessionOK, Owns
    <2> QED
      BY <1>1, <1>2, <1>3, <1>4, <1>5, <1>6, <2>1, OverStep
  <1>7. CASE s.next # "done"
    <2> DEFINE w == Waiting(s, s.next)
               then == [w EXCEPT !.end = TRUE, !.next = "done", !.ended = s.end,
                                 !.parts = IF s.end THEN @ ELSE @ + 1]
    <2>1. PICK C \in SUBSET {Conn(r)} :
                /\ session' = [Cancelled(C) EXCEPT ![r] = then]
                /\ connection' = Collected(Closed(connection, C))
      BY <1>7 DEF EndCallback
    <2>2. /\ then \in Session /\ then.stage = s.next /\ then.connection = Conn(r)
          /\ then.next = "done" /\ then.shared = s.shared /\ then.interrupted = s.interrupted
      <3>1. s.next \in BodyStages /\ s.next \in Stages
        BY <1>1, <1>7 DEF Session, Stages
      <3>2. /\ w \in Session /\ w.stage = s.next /\ w.connection = Conn(r)
            /\ w.shared = s.shared /\ w.interrupted = s.interrupted
        BY <1>1, <3>1, WaitingSession DEF Conn
      <3>3. s.end \in BOOLEAN
        BY <1>1 DEF Session
      <3>4. w.parts \in Nat
        BY <3>2 DEF Session
      <3> HIDE DEF w
      <3>5. (IF s.end THEN w.parts ELSE w.parts + 1) \in Nat
        BY <3>4
      <3> QED
        BY <3>2, <3>3, <3>5 DEF Session
    <2> HIDE DEF then
    <2>3. /\ session' \in [Requests -> Session] /\ session'[r] = then
          /\ \A q \in Requests \ {r} : session'[q] = Cancelled(C)[q]
      BY <1>1, <2>1, <2>2, CancelledSessions
    <2>4. \A q \in Requests \ {r} : Kept(q)
      <3>1. \A q \in Requests : Stage(q) \in {"callback", "idle"} => Stage(q) \notin Stages
        BY DEF Stages, ConnectStages, BodyStages
      <3> QED
        BY <1>1, <2>3, <3>1, CancelledSessions DEF Kept, Stage
    <2> DEFINE f == Closed(connection, C)
    <2>5. /\ f \in [Connections -> Connection]
          /\ \A c \in Connections : /\ f[c].in_use = connection[c].in_use
                                    /\ f[c].attempt_reconnect = connection[c].attempt_reconnect
                                    /\ f[c].streamed = connection[c].streamed
      BY <1>1, ClosedConnections
    <2>6. connection' = Collected(f)
      BY <2>1
    <2> HIDE DEF f
    <2>7. /\ connection' \in [Connections -> Connection]
          /\ \A c \in Connections :
                IF c \in pool' \/ \E q \in Requests : Conn(q)' = c
                THEN connection'[c] = f[c] ELSE connection'[c] = NewConnection
      BY <2>5, <2>6, CollectedConnections
    <2>8. \A c \in Connections :
                c \in pool' \/ (\E q \in Requests : Conn(q)' = c) => KeptConnection(c)
      BY <2>5, <2>7 DEF KeptConnection
    <2>9. TypeOK'
      BY <1>1, <1>3, <1>4, <2>3, <2>7 DEF TypeOK
    <2>10. /\ Stage(r)' = s.next /\ Conn(r)' = Conn(r) /\ s.next \in BodyStages
           /\ Active(r)' /\ Owns(r)' /\ ~Leaving(r)' /\ ~Exchanging(r)'
           /\ (Streams(r)' <=> s.next = "events") /\ (Streams(r) <=> s.next = "events")
      <3>1. s.next \in BodyStages
        BY <1>1, <1>7 DEF Session
      <3>2. s.next \notin Finished \cup {"callback", "write", "header"} \cup ConnectStages
        BY <3>1 DEF BodyStages, Finished, ConnectStages
      <3> QED
        BY <1>2, <2>2, <2>3, <3>1, <3>2
           DEF Stage, Conn, Active, Owns, Leaving, Exchanging, Streams
    <2>11. KeptConnection(Conn(r))
      BY <1>2, <2>8, <2>10
    <2>12. /\ Leaving(r) => s.next = "events"
           /\ s.next = "events" => connection[Conn(r)].streamed
           /\ s.ec = "none"
      BY <1>2, <1>7, <2>10 DEF ClientInv, SessionInv, SessionOK
    <2>13. SessionOK(r)'
      <3>1. /\ io' # r /\ s.next \notin ConnectStages \cup {"callback", "idle"}
        BY <1>3, <2>10, ClientAssumption DEF BodyStages, ConnectStages
      <3>2. (Active(r) /\ Streams(r) => connection[Conn(r)].streamed)'
        BY <2>10, <2>11, <2>12 DEF KeptConnection
      <3> QED
        BY <1>2, <2>2, <2>3, <2>10, <3>1, <3>2 DEF SessionOK
    <2>14. Owns(r) => Held(r)
      BY DEF ClientInv, HeldInv
    <2>15. Owns(r) \/ (Leaving(r) /\ s.next = "events")
      BY <1>2, <2>12 DEF Owns
    <2>16. Held(r)'
      <3>1. /\ Conn(r) \in pool' => Conn(r) \in pool
            /\ connection'[Conn(r)].in_use = connection[Conn(r)].in_use
            /\ connection'[Conn(r)].streamed = connection[Conn(r)].streamed
            /\ session'[r].shared = session[r].shared
        BY <1>4, <2>2, <2>3, <2>11 DEF KeptConnection
      <3> QED
        BY <2>10, <2>12, <2>14, <2>15, <3>1 DEF Held
    <2>17. Reached(r)'
      <3>1. Reached(r)
        BY <1>2 DEF ClientInv, ReachedInv
      <3>2. Conn(r) \in pool \ pool' => session[r].shared \/ s.next = "events"
        BY <1>4, <2>10, <2>12, <2>14, <2>15 DEF Held
      <3>3. Reached(r)' <=> \/ session[r].interrupted \/ session[r].shared
                            \/ Conn(r) \in pool'
                            \/ s.next \in {"until_eof", "events"}
        BY <2>2, <2>3, <2>10 DEF Reached
      <3> QED
        BY <1>2, <2>12, <3>1, <3>2, <3>3 DEF Reached
    <2>18. PoolInv'
      <3>1. Unused' \subseteq Unused \cap pool'
        BY <1>1, <1>4, <2>8 DEF Unused, KeptConnection, TypeOK
      <3>2. destroyed' => pool' = {} /\ io' = None
        BY <1>3, <1>4 DEF ClientInv, PoolInv
      <3> QED
        BY <1>4, <2>7, <3>1, <3>2 DEF PoolInv
    <2>19. Owns(r)' => Owns(r) \/ connection'[Conn(r)].streamed
      BY <2>11, <2>12, <2>15 DEF KeptConnection
    <2>20. /\ session[r].shared <=> session'[r].shared
           /\ session'[r].connection \in {Conn(r), None}
      BY <2>2, <2>3
    <2>21. LET o == connection[Conn(r)]
               n == connection'[Conn(r)]
           IN  /\ n.in_use => o.in_use
               /\ o.attempt_reconnect => n.attempt_reconnect
               /\ o.streamed => n.streamed
      BY <2>11 DEF KeptConnection
    <2> QED
      BY <1>2, <1>3, <1>4, <1>5, <2>4, <2>8, <2>9, <2>10, <2>11, <2>13, <2>16, <2>17, <2>18,
         <2>19, <2>20, <2>21, SessionStep
  <1> QED
    BY <1>6, <1>7 DEF EndCallback

-----------------------------------------------------------------------------
(* request() and reconnect() *)

\* connect(): the resolver is asked first, unless the socket is open already.
LEMMA ConnectingSession ==
  ASSUME scheme \in Schemes, NEW s \in Session, NEW f
  PROVE  LET t == Connecting(s, f)
         IN  /\ t \in Session /\ t.connection = s.connection /\ t.end = s.end
             /\ t.next = s.next /\ t.parts = s.parts /\ t.ended = s.ended
             /\ t.shared = s.shared /\ t.interrupted = s.interrupted
             /\ \/ t.stage = "resolve" /\ t.sends = s.sends
                \/ /\ f[s.connection].socket # "new"
                   /\ t.stage = "write" /\ t.sends = s.sends + 1
             /\ "resolve" \in ConnectStages \cap RouteStages
  <1>1. "resolve" \in ConnectStages \cap RouteStages
    <2>1. 1 \in DOMAIN Route /\ Route[1] = "resolve"
      BY ClientAssumption DEF Route
    <2> QED
      BY <2>1 DEF RouteStages, ConnectStages
  <1>2. CASE f[s.connection].socket = "new"
    <2>1. Connecting(s, f) = Waiting(s, "resolve") /\ "resolve" \in Stages
      BY <1>1, <1>2 DEF Connecting, Stages
    <2> QED
      BY <1>1, <2>1, WaitingSession
  <1>3. CASE f[s.connection].socket # "new"
    <2> DEFINE w == Waiting(s, "write")
               t == [w EXCEPT !.sends = @ + 1]
    <2>1. Connecting(s, f) = t /\ "write" \in Stages
      BY <1>3 DEF Connecting, Stages
    <2>2. /\ w \in Session /\ w.stage = "write" /\ w.connection = s.connection /\ w.end = s.end
          /\ w.next = s.next /\ w.parts = s.parts /\ w.sends = s.sends /\ w.ended = s.ended
          /\ w.shared = s.shared /\ w.interrupted = s.interrupted
      BY <2>1, WaitingSession
    <2> HIDE DEF w
    <2>3. /\ t \in Session /\ t.stage = "write" /\ t.connection = s.connection /\ t.end = s.end
          /\ t.next = s.next /\ t.parts = s.parts /\ t.sends = s.sends + 1 /\ t.ended = s.ended
          /\ t.shared = s.shared /\ t.interrupted = s.interrupted
      BY <2>2 DEF Session
    <2> HIDE DEF t
    <2> QED
      BY <1>1, <1>3, <2>1, <2>3
  <1> QED
    BY <1>2, <1>3

\* A timer is set on one connection, and changes nothing else.
LEMMA TimerOfConnection ==
  ASSUME NEW f \in [Connections -> Connection], NEW c \in Connections
  PROVE  /\ ConnectTimer(f, c) \in [Connections -> Connection]
         /\ \A d \in Connections :
                LET o == f[d]
                    n == ConnectTimer(f, c)[d]
                IN  /\ n.in_use = o.in_use /\ n.attempt_reconnect = o.attempt_reconnect
                    /\ n.streamed = o.streamed
                    /\ d # c => n = o
  <1> DEFINE a == IF f[c].socket = "new" THEN scheme = "http" /\ TimeoutConnect ELSE Timeout
             u == [f[c] EXCEPT !.armed = a]
  <1>1. ConnectTimer(f, c) = [f EXCEPT ![c] = u]
    BY DEF ConnectTimer
  <1>2. a \in BOOLEAN
    BY ClientAssumption
  <1> HIDE DEF a
  <1>3. /\ u \in Connection /\ u.in_use = f[c].in_use /\ u.streamed = f[c].streamed
        /\ u.attempt_reconnect = f[c].attempt_reconnect
    BY <1>2 DEF Connection
  <1> HIDE DEF u
  <1> QED
    BY <1>1, <1>3

\* The connection a request gets is not in use, or a new one.
LEMMA ObtainedConnection ==
  ASSUME ClientInv, NEW c \in Obtainable, Unused = {} => Unborn(pool, Requests) # {}
  PROVE  /\ c \in Connections
         /\ \/ c \in pool /\ ~connection[c].in_use
            \/ c \notin pool /\ \A s \in Requests : Conn(s) # c
  <1>1. CASE Unused # {}
    BY <1>1 DEF Obtainable, Unused, ClientInv, TypeOK
  <1>2. CASE Unused = {}
    <2>1. c = First(Unborn(pool, Requests)) /\ Unborn(pool, Requests) # {}
      BY <1>2 DEF Obtainable
    <2>2. c \in Unborn(pool, Requests)
      BY <2>1, FirstIsIn DEF Unborn
    <2> QED
      BY <2>2 DEF Unborn
  <1> QED
    BY <1>1, <1>2

\* request(): a connection that nobody has to give back, or a new one.
LEMMA RequestStep ==
  ASSUME ClientInv, NEW r \in Requests, Request(r)
  PROVE  ClientInv'
  <1> USE DEF ClientInv
  <1>1. /\ TypeOK /\ session \in [Requests -> Session]
        /\ connection \in [Connections -> Connection]
        /\ scheme \in Schemes
    BY DEF TypeOK
  <1>2. /\ Stage(r) = "idle" /\ ~destroyed /\ UNCHANGED <<scheme, io, destroyed>>
        /\ ~Active(r) /\ Conn(r) = None /\ session[r] = NewSession /\ io # r
    <2>1. Stage(r) = "idle" /\ ~destroyed /\ UNCHANGED <<scheme, io, destroyed>>
      BY DEF Request
    <2>2. ~Active(r)
      BY <2>1 DEF Active, Finished
    <2> QED
      BY <2>1, <2>2 DEF SessionInv, SessionOK
  <1>3. PICK c \in Obtainable :
            LET taken == [connection EXCEPT ![c].in_use = TRUE, ![c].attempt_reconnect = TRUE]
                holders == {s \in Requests : Conn(s) = c}
                new == [session[r] EXCEPT !.connection = c, !.shared = holders # {}]
            IN  /\ pool' = pool \cup {c}
                /\ session' = [s \in Requests |->
                                    IF s = r THEN Connecting(new, taken)
                                             ELSE [session[s] EXCEPT !.shared = @ \/ s \in holders]]
                /\ connection' = ConnectTimer(taken, c)
    BY DEF Request
  <1>4. /\ c \in Connections /\ c # None
        /\ \/ c \in pool /\ ~connection[c].in_use
           \/ c \notin pool /\ \A s \in Requests : Conn(s) # c
    BY ObtainedConnection, ClientAssumption DEF Request
  <1> DEFINE taken == [connection EXCEPT ![c].in_use = TRUE, ![c].attempt_reconnect = TRUE]
             holders == {s \in Requests : Conn(s) = c}
             new == [session[r] EXCEPT !.connection = c, !.shared = holders # {}]
  <1>5. /\ taken \in [Connections -> Connection]
        /\ taken[c].in_use = TRUE /\ taken[c].attempt_reconnect = TRUE
        /\ taken[c].streamed = connection[c].streamed
        /\ \A d \in Connections \ {c} : taken[d] = connection[d]
    <2> DEFINE u == [connection[c] EXCEPT !.in_use = TRUE]
               v == [u EXCEPT !.attempt_reconnect = TRUE]
               f == [connection EXCEPT ![c] = u]
    <2>1. u \in Connection /\ u.in_use = TRUE /\ u.streamed = connection[c].streamed
      BY <1>1, <1>4 DEF Connection
    <2>2. taken = [f EXCEPT ![c].attempt_reconnect = TRUE]
      OBVIOUS
    <2> HIDE DEF u
    <2>3. /\ f \in [Connections -> Connection] /\ f[c] = u
          /\ \A d \in Connections \ {c} : f[d] = connection[d]
      BY <1>1, <1>4, <2>1
    <2> HIDE DEF f
    <2>4. taken = [f EXCEPT ![c] = v]
      BY <2>2, <2>3
    <2>5. /\ v \in Connection /\ v.in_use = TRUE /\ v.attempt_reconnect = TRUE
          /\ v.streamed = connection[c].streamed
      BY <2>1 DEF Connection
    <2> HIDE DEF v, taken
    <2> QED
      BY <1>4, <2>3, <2>4, <2>5
  <1>6. /\ pool' = pool \cup {c}
        /\ session' = [s \in Requests |->
                            IF s = r THEN Connecting(new, taken)
                                     ELSE [session[s] EXCEPT !.shared = @ \/ s \in holders]]
        /\ connection' = ConnectTimer(taken, c)
    BY <1>3
  <1> HIDE DEF taken
  <1>7. /\ connection' \in [Connections -> Connection]
        /\ connection'[c].in_use = TRUE /\ connection'[c].attempt_reconnect = TRUE
        /\ connection'[c].streamed = connection[c].streamed
        /\ \A d \in Connections \ {c} : connection'[d] = connection[d]
    BY <1>4, <1>5, <1>6, TimerOfConnection
  <1>8. /\ new \in Session /\ new.connection = c /\ new.end = TRUE /\ new.next = "done"
        /\ new.parts = 0 /\ new.sends = 0 /\ new.ended = FALSE
        /\ new.shared = (holders # {}) /\ new.interrupted = FALSE
    <2> DEFINE n == session[r]
    <2>1. /\ n \in Session /\ n.end = TRUE /\ n.next = "done" /\ n.parts = 0 /\ n.sends = 0
          /\ n.ended = FALSE /\ n.interrupted = FALSE
      <3>1. n \in Session /\ n = NewSession
        BY <1>1, <1>2
      <3>2. /\ NewSession.end = TRUE /\ NewSession.next = "done" /\ NewSession.parts = 0
            /\ NewSession.sends = 0 /\ NewSession.ended = FALSE
            /\ NewSession.interrupted = FALSE
        BY DEF NewSession
      <3> QED
        BY <3>1, <3>2
    <2>2. (holders # {}) \in BOOLEAN
      OBVIOUS
    <2> HIDE DEF n, holders
    <2>3. new = [n EXCEPT !.connection = c, !.shared = holders # {}]
      BY DEF n
    <2> QED
      BY <1>4, <2>1, <2>2, <2>3 DEF Session
  <1> HIDE DEF new
  <1>9. /\ session'[r] \in Session /\ Conn(r)' = c
        /\ session'[r].next = "done" /\ session'[r].parts = 0 /\ ~session'[r].ended
        /\ \/ Stage(r)' = "resolve" /\ session'[r].sends = 0
           \/ Stage(r)' = "write" /\ session'[r].sends = 1
        /\ holders # {} => session'[r].shared
        /\ "resolve" \in ConnectStages \cap RouteStages
    <2>1. session'[r] = Connecting(new, taken)
      BY <1>6
    <2> DEFINE t == Connecting(new, taken)
    <2> HIDE DEF holders
    <2>2. /\ t \in Session /\ t.connection = new.connection /\ t.next = new.next
          /\ t.parts = new.parts /\ t.ended = new.ended /\ t.shared = new.shared
          /\ \/ t.stage = "resolve" /\ t.sends = new.sends
             \/ t.stage = "write" /\ t.sends = new.sends + 1
          /\ "resolve" \in ConnectStages \cap RouteStages
      BY <1>1, <1>8, ConnectingSession
    <2> HIDE DEF t
    <2>3. session'[r] = t
      BY <2>1 DEF t
    <2>4. holders # {} => new.shared = TRUE
      BY <1>8
    <2>5. holders # {} => session'[r].shared
      BY <2>2, <2>3, <2>4
    <2>6. /\ new.connection = c /\ new.next = "done" /\ new.parts = 0 /\ new.sends = 0
          /\ new.ended = FALSE
      BY <1>8
    <2> QED
      BY <2>2, <2>3, <2>5, <2>6 DEF Conn, Stage
  <1>10. ASSUME NEW s \in Requests \ {r}
         PROVE  /\ session'[s] \in Session /\ Kept(s) /\ session'[s].ec = session[s].ec
                /\ s \in holders => session'[s].shared
    <2> DEFINE shared == session[s].shared \/ s \in holders
               n == session'[s]
    <2>1. n = [session[s] EXCEPT !.shared = shared]
      BY <1>6
    <2>2. session[s] \in Session /\ shared \in BOOLEAN
      BY <1>1
    <2>3. session[s].stage = "idle" => n = session[s]
      <3>1. SUFFICES ASSUME session[s].stage = "idle"
                     PROVE  n = session[s]
        OBVIOUS
      <3>2. session[s] = NewSession
        BY <3>1 DEF SessionInv, SessionOK, Stage
      <3>3. shared = FALSE
        <4>1. NewSession.connection = None /\ NewSession.shared = FALSE
          BY DEF NewSession
        <4> QED
          BY <1>4, <3>2, <4>1 DEF Conn
      <3>4. n = [NewSession EXCEPT !.shared = FALSE]
        BY <2>1, <3>2, <3>3
      <3> QED
        BY <3>2, <3>4 DEF NewSession
    <2> HIDE DEF shared
    <2>4. /\ n \in Session /\ n.stage = session[s].stage
          /\ n.connection = session[s].connection /\ n.ec = session[s].ec
          /\ n.end = session[s].end /\ n.next = session[s].next /\ n.parts = session[s].parts
          /\ n.sends = session[s].sends /\ n.ended = session[s].ended
          /\ n.interrupted = session[s].interrupted /\ n.shared = shared
      BY <2>1, <2>2 DEF Session
    <2>5. (session[s].shared => shared) /\ (s \in holders => shared)
      BY DEF shared
    <2> QED
      BY <2>3, <2>4, <2>5 DEF Kept
  <1>11. TypeOK'
    <2>1. \A s \in Requests : session'[s] \in Session
      BY <1>9, <1>10
    <2>2. session' \in [Requests -> Session]
      BY <1>6, <2>1
    <2> QED
      BY <1>1, <1>2, <1>4, <1>6, <1>7, <2>2 DEF TypeOK
  <1>12. \A s \in Requests \ {r} :
            /\ Stage(s)' = Stage(s) /\ Conn(s)' = Conn(s) /\ session'[s].next = session[s].next
            /\ (Active(s)' <=> Active(s)) /\ (Owns(s)' <=> Owns(s)) /\ (Leaving(s)' <=> Leaving(s))
            /\ (Streams(s)' <=> Streams(s)) /\ (Exchanging(s)' <=> Exchanging(s))
            /\ (session[s].shared => session'[s].shared)
            /\ (Active(s) /\ session[s].interrupted => session'[s].interrupted)
    BY <1>10 DEF Kept, Stage, Conn, Active, Leaving, Owns, Streams, Exchanging
  <1>13. \A s \in Requests : (Active(s) <=> Conn(s) # None) /\ Conn(s) \in Connections \cup {None}
    BY <1>1 DEF SessionInv, SessionOK, Conn, Session
  \* What was known of a connection that is taken from the pool.
  <1>14. \A s \in Requests \ {r} : Owns(s) /\ Conn(s) = c =>
            /\ connection[c].streamed
            /\ Exchanging(s) => connection[c].attempt_reconnect
    BY <1>4 DEF HeldInv, Held
  <1>15. /\ Stage(r)' \in {"resolve", "write"} /\ Active(r)' /\ Owns(r)' /\ ~Leaving(r)'
         /\ ~Streams(r)' /\ Stage(r)' # "callback"
    <2>1. Stage(r)' \in {"resolve", "write"}
      BY <1>9
    <2>2. Active(r)' /\ Stage(r)' # "callback"
      BY <2>1 DEF Active, Finished
    <2> QED
      BY <1>9, <2>1, <2>2 DEF Owns, Leaving, Streams
  <1>16. SessionInv'
    <2>1. SessionOK(r)'
      <3>1. RouteStages' = RouteStages
        BY <1>2 DEF RouteStages, Route
      <3>2. session'[r].sends = Sends(r)'
        BY <1>7, <1>9 DEF Sends, ConnectStages
      <3> QED
        BY <1>2, <1>4, <1>9, <1>15, <3>1, <3>2 DEF SessionOK, ConnectStages
    <2>2. ASSUME NEW s \in Requests \ {r}
          PROVE  SessionOK(s)'
      <3>1. /\ SessionOK(s) /\ Kept(s)
            /\ Stage(s)' = Stage(s) /\ Conn(s)' = Conn(s)
            /\ (Active(s)' <=> Active(s)) /\ (Streams(s)' <=> Streams(s))
            /\ (Leaving(s)' <=> Leaving(s)) /\ (Exchanging(s)' <=> Exchanging(s))
        BY <1>10, <1>12 DEF SessionInv
      <3>2. Exchanging(s) => Owns(s) /\ Active(s)
        BY DEF Exchanging, Owns, Active, Leaving, Finished, ConnectStages
      <3>3. Exchanging(s) =>
                connection'[Conn(s)].attempt_reconnect = connection[Conn(s)].attempt_reconnect
        <4>1. connection[c].attempt_reconnect => connection[c].attempt_reconnect = TRUE
          BY <1>1, <1>4 DEF Connection
        <4> QED
          BY <1>7, <1>13, <1>14, <3>2, <4>1
      <3>4. Exchanging(s) => Sends(s)' = Sends(s)
        BY <3>1, <3>3 DEF Sends
      <3>5. Active(s) => connection'[Conn(s)].streamed = connection[Conn(s)].streamed
        BY <1>7, <1>13
      <3>6. RouteStages' = RouteStages
        BY <1>2 DEF RouteStages, Route
      <3>7. /\ (Active(s) <=> Conn(s) # None)'
            /\ (Stage(s) = "idle" => session[s] = NewSession)'
            /\ (Stage(s) \in ConnectStages => Stage(s) \in RouteStages)'
        BY <3>1, <3>6 DEF SessionOK, Kept, Stage
      <3>8. (Stage(s) = "callback" <=> io = s)'
        BY <1>2, <3>1 DEF SessionOK
      <3>9. /\ (Stage(s) # "callback" => session[s].next = "done")'
            /\ (Leaving(s) => session[s].next \in {"done", "events"})'
            /\ (Stage(s) = "callback" /\ ~Leaving(s) => session[s].next # "done")'
            /\ (Stage(s) = "callback" /\ session[s].next # "done" => session[s].ec = "none")'
        BY <3>1 DEF SessionOK, Kept, Stage
      <3>10. (Active(s) /\ Streams(s) => connection[Conn(s)].streamed)'
        BY <3>1, <3>5 DEF SessionOK
      <3>11. (Exchanging(s) => session[s].parts = 0 /\ ~session[s].ended
                               /\ session[s].sends = Sends(s))'
        BY <3>1, <3>4 DEF SessionOK, Kept
      <3> QED
        BY <3>7, <3>8, <3>9, <3>10, <3>11 DEF SessionOK
    <2> QED
      BY <2>1, <2>2 DEF SessionInv
  <1>17. ExclusiveInv'
    <2>1. ASSUME NEW p \in Requests, NEW q \in Requests, p # q,
                 Active(p)', Conn(p)' = Conn(q)'
          PROVE  /\ session'[p].shared /\ session'[q].shared
                 /\ Owns(p)' /\ Owns(q)' => connection'[Conn(p)'].streamed
      <3>1. CASE p = r
        <4>1. Conn(q) = c /\ q \in holders /\ Conn(p)' = c
          BY <1>9, <1>12, <2>1, <3>1
        <4>2. session'[p].shared /\ session'[q].shared
          BY <1>9, <1>10, <2>1, <3>1, <4>1
        <4>3. Owns(q)' => connection[c].streamed
          BY <1>12, <1>14, <2>1, <3>1, <4>1
        <4> QED
          BY <1>7, <4>1, <4>2, <4>3
      <3>2. CASE q = r
        <4>1. Conn(p) = c /\ p \in holders /\ Conn(p)' = c
          BY <1>9, <1>12, <2>1, <3>2
        <4>2. session'[p].shared /\ session'[q].shared
          BY <1>9, <1>10, <2>1, <3>2, <4>1
        <4>3. Owns(p)' => connection[c].streamed
          BY <1>12, <1>14, <2>1, <3>2, <4>1
        <4> QED
          BY <1>7, <4>1, <4>2, <4>3
      <3>3. CASE p # r /\ q # r
        <4>1. /\ Active(p) /\ Conn(p) = Conn(q) /\ session[p].shared /\ session[q].shared
              /\ Owns(p) /\ Owns(q) => connection[Conn(p)].streamed
          BY <1>12, <2>1, <3>3 DEF ExclusiveInv
        <4>2. connection'[Conn(p)].streamed = connection[Conn(p)].streamed
          BY <1>7, <1>13, <4>1
        <4> QED
          BY <1>12, <2>1, <3>3, <4>1, <4>2
      <3> QED
        BY <3>1, <3>2, <3>3
    <2> QED
      BY <2>1 DEF ExclusiveInv
  <1>18. HeldInv'
    <2>1. ASSUME NEW s \in Requests, Owns(s)', Conn(s)' = c
          PROVE  Held(s)'
      BY <1>7, <2>1 DEF Held
    <2>2. ASSUME NEW s \in Requests, Owns(s)', Conn(s)' # c
          PROVE  Held(s)'
      <3>1. s # r /\ Held(s) /\ Conn(s) # c /\ Conn(s) \in Connections
        BY <1>9, <1>12, <1>13, <2>2 DEF HeldInv, Owns
      <3>2. connection'[Conn(s)] = connection[Conn(s)]
        BY <1>7, <3>1
      <3>3. Conn(s) \in pool' => Conn(s) \in pool
        BY <1>6, <3>1
      <3> QED
        BY <1>12, <3>1, <3>2, <3>3 DEF Held
    <2> QED
      BY <2>1, <2>2 DEF HeldInv
  <1>19. ReachedInv'
    <2>1. Reached(r)'
      BY <1>6, <1>9 DEF Reached
    <2>2. ASSUME NEW s \in Requests \ {r}, Active(s)'
          PROVE  Reached(s)'
      <3>1. Active(s) /\ Reached(s)
        BY <1>12, <2>2 DEF ReachedInv
      <3> QED
        BY <1>6, <1>12, <3>1 DEF Reached
    <2> QED
      BY <2>1, <2>2 DEF ReachedInv
  <1>20. LeakInv'
    <2>1. ASSUME NEW d \in pool', connection'[d].in_use
          PROVE  Lost' \/ \E s \in Requests : Owns(s)' /\ Conn(s)' = d
      <3>1. CASE d = c
        BY <1>9, <1>15, <3>1
      <3>2. CASE d # c
        <4>1. d \in pool /\ connection[d].in_use
          BY <1>1, <1>6, <1>7, <2>1, <3>2 DEF TypeOK
        <4>2. \A s \in Requests : Stage(s) = "lost" \/ Owns(s) => s # r
          BY <1>2 DEF Owns
        <4> QED
          BY <1>12, <4>1, <4>2 DEF LeakInv, Lost
      <3> QED
        BY <3>1, <3>2
    <2> QED
      BY <2>1 DEF LeakInv
  <1>21. PoolInv'
    <2>1. Unused' \subseteq Unused
      BY <1>1, <1>6, <1>7 DEF Unused, TypeOK
    <2>2. \A d \in Connections :
            d \notin pool' /\ (\A s \in Requests : Conn(s)' # d) => connection'[d] = NewConnection
      <3>1. ASSUME NEW d \in Connections, d \notin pool', \A s \in Requests : Conn(s)' # d
            PROVE  connection'[d] = NewConnection
        <4>1. d # c /\ d # None
          BY <1>6, <3>1, ClientAssumption
        <4>2. d \notin pool /\ \A s \in Requests : Conn(s) # d
          BY <1>2, <1>6, <1>12, <3>1, <4>1
        <4> QED
          BY <1>7, <4>1, <4>2 DEF PoolInv
      <3> QED
        BY <3>1
    <2> QED
      BY <1>2, <2>1, <2>2 DEF PoolInv
  <1> QED
    BY <1>11, <1>16, <1>17, <1>18, <1>19, <1>20, <1>21

\* The second attempt, on a connection made for it: the old one leaves the pool, and
\* lives on if another session points to it.
LEMMA ReconnectStep ==
  ASSUME ClientInv, NEW r \in Requests, Reconnect(r)
  PROVE  ClientInv'
  <1> USE DEF ClientInv
  <1>1. /\ TypeOK /\ session \in [Requests -> Session]
        /\ connection \in [Connections -> Connection]
        /\ scheme \in Schemes
    BY DEF TypeOK
  <1>2. /\ Stage(r) \in {"write", "header"} /\ Stage(r) \in Stages
        /\ io = None /\ ~destroyed /\ Conn(r) \in pool
        /\ connection[Conn(r)].attempt_reconnect
        /\ UNCHANGED <<scheme, io, destroyed>>
    BY DEF Reconnect, Handles, MayReconnect, Stages
  <1>3. /\ session[r] \in Session /\ Active(r) /\ Owns(r) /\ session[r].next = "done"
        /\ Conn(r) \in Connections /\ Conn(r) # None
    BY <1>2, Working
  <1>4. session[r].parts = 0 /\ ~session[r].ended /\ session[r].sends = 1
    <2>1. Exchanging(r) /\ SessionOK(r)
      BY <1>2 DEF Exchanging, SessionInv
    <2>2. Sends(r) = 1
      BY <1>2 DEF Sends, ConnectStages
    <2> QED
      BY <2>1, <2>2 DEF SessionOK
  <1> DEFINE others == pool \ {Conn(r)}
             unborn == Unborn(others, Requests \ {r})
             new == First(unborn)
             made == [NewConnection EXCEPT !.in_use = TRUE, !.attempt_reconnect = FALSE]
             created == [connection EXCEPT ![new] = made]
             moved == [session[r] EXCEPT !.connection = new]
             t == Connecting(moved, created)
             f == ConnectTimer(created, new)
  <1>5. /\ unborn # {} /\ pool' = others \cup {new}
        /\ session' = [session EXCEPT ![r] = t]
        /\ connection' = Collected(f)
    BY DEF Reconnect
  <1>6. /\ new \in Connections /\ new \notin others /\ new # None
        /\ \A s \in Requests \ {r} : Conn(s) # new
    <2>1. new \in unborn
      BY <1>5, FirstIsIn DEF Unborn
    <2> QED
      BY <2>1, ClientAssumption DEF Unborn
  <1> HIDE DEF unborn, new
  <1>7. /\ made \in Connection /\ made.in_use = TRUE /\ made.attempt_reconnect = FALSE
        /\ made.streamed = FALSE /\ made.socket = "new"
    BY DEF NewConnection, Connection
  <1> HIDE DEF made
  <1>8. /\ created \in [Connections -> Connection] /\ created[new] = made
        /\ \A c \in Connections \ {new} : created[c] = connection[c]
    BY <1>1, <1>6, <1>7
  <1> HIDE DEF created
  <1>9. /\ f \in [Connections -> Connection]
        /\ f[new].in_use = TRUE /\ f[new].attempt_reconnect = FALSE /\ f[new].streamed = FALSE
        /\ \A c \in Connections \ {new} : f[c] = connection[c]
    BY <1>6, <1>7, <1>8, TimerOfConnection
  <1> HIDE DEF f
  <1>10. /\ moved \in Session /\ moved.connection = new /\ moved.next = "done"
         /\ moved.parts = 0 /\ ~moved.ended /\ moved.sends = 1
    BY <1>3, <1>4, <1>6 DEF Session
  <1> HIDE DEF moved
  <1>11. /\ t \in Session /\ t.connection = new /\ t.next = "done" /\ t.parts = 0
         /\ ~t.ended /\ t.sends = 1 /\ t.stage = "resolve"
         /\ "resolve" \in ConnectStages \cap RouteStages
    <2>1. /\ t \in Session /\ t.connection = moved.connection /\ t.next = moved.next
          /\ t.parts = moved.parts /\ t.ended = moved.ended
          /\ \/ t.stage = "resolve" /\ t.sends = moved.sends
             \/ /\ created[moved.connection].socket # "new"
                /\ t.stage = "write" /\ t.sends = moved.sends + 1
          /\ "resolve" \in ConnectStages \cap RouteStages
      BY <1>1, <1>10, ConnectingSession
    <2> HIDE DEF t
    <2>2. created[moved.connection].socket = "new"
      BY <1>7, <1>8, <1>10
    <2> QED
      BY <1>10, <2>1, <2>2
  <1> HIDE DEF t
  <1>12. /\ session' \in [Requests -> Session] /\ session'[r] = t
         /\ \A s \in Requests \ {r} : session'[s] = session[s]
    BY <1>1, <1>5, <1>11
  <1>13. /\ connection' \in [Connections -> Connection]
         /\ \A c \in Connections :
                IF c \in pool' \/ \E s \in Requests : Conn(s)' = c
                THEN connection'[c] = f[c] ELSE connection'[c] = NewConnection
    BY <1>5, <1>9, CollectedConnections
  <1>14. /\ Stage(r)' = "resolve" /\ Conn(r)' = new /\ Active(r)' /\ Owns(r)' /\ ~Leaving(r)'
         /\ ~Streams(r)'
    BY <1>11, <1>12 DEF Stage, Conn, Active, Owns, Leaving, Streams, Finished
  <1>15. /\ connection'[new].in_use = TRUE /\ connection'[new].attempt_reconnect = FALSE
         /\ connection'[new].streamed = FALSE
    BY <1>6, <1>9, <1>13, <1>14
  <1>16. \A s \in Requests \ {r} :
            /\ Stage(s)' = Stage(s) /\ Conn(s)' = Conn(s) /\ session'[s] = session[s]
            /\ (Active(s)' <=> Active(s)) /\ (Owns(s)' <=> Owns(s)) /\ (Leaving(s)' <=> Leaving(s))
            /\ (Streams(s)' <=> Streams(s)) /\ (Exchanging(s)' <=> Exchanging(s))
            /\ Conn(s) # new
    BY <1>6, <1>12 DEF Stage, Conn, Active, Leaving, Owns, Streams, Exchanging
  <1>17. \A s \in Requests : (Active(s) <=> Conn(s) # None) /\ Conn(s) \in Connections \cup {None}
    BY <1>1 DEF SessionInv, SessionOK, Conn, Session
  <1>18. \A s \in Requests \ {r} : Active(s) => connection'[Conn(s)] = connection[Conn(s)]
    BY <1>9, <1>13, <1>16, <1>17
  <1>19. TypeOK'
    BY <1>1, <1>2, <1>5, <1>6, <1>12, <1>13 DEF TypeOK
  <1>20. SessionInv'
    <2>1. RouteStages' = RouteStages
      BY <1>2 DEF RouteStages, Route
    <2>2. SessionOK(r)'
      <3>1. session'[r].sends = Sends(r)'
        BY <1>11, <1>12, <1>14, <1>15 DEF Sends
      <3>2. io' # r
        BY <1>2, ClientAssumption
      <3> QED
        BY <1>6, <1>11, <1>12, <1>14, <2>1, <3>1, <3>2 DEF SessionOK
    <2>3. ASSUME NEW s \in Requests \ {r}
          PROVE  SessionOK(s)'
      <3>1. Exchanging(s) => Active(s)
        BY DEF Exchanging, Active, Finished, ConnectStages
      <3>2. Exchanging(s) => Sends(s)' = Sends(s)
        BY <1>16, <1>18, <3>1 DEF Sends
      <3>3. Active(s) /\ Streams(s) => connection'[Conn(s)].streamed
        BY <1>18 DEF SessionInv, SessionOK
      <3> QED
        BY <1>2, <1>16, <2>1, <3>2, <3>3 DEF SessionInv, SessionOK
    <2> QED
      BY <2>2, <2>3 DEF SessionInv
  <1>21. ExclusiveInv'
    <2>1. ASSUME NEW p \in Requests, NEW q \in Requests, p # q,
                 Active(p)', Conn(p)' = Conn(q)'
          PROVE  /\ session'[p].shared /\ session'[q].shared
                 /\ Owns(p)' /\ Owns(q)' => connection'[Conn(p)'].streamed
      <3>1. p # r /\ q # r
        BY <1>14, <1>16, <2>1
      <3>2. /\ Active(p) /\ Conn(p) = Conn(q) /\ session[p].shared /\ session[q].shared
            /\ Owns(p) /\ Owns(q) => connection[Conn(p)].streamed
        BY <1>16, <2>1, <3>1 DEF ExclusiveInv
      <3> QED
        BY <1>16, <1>18, <3>1, <3>2
    <2> QED
      BY <2>1 DEF ExclusiveInv
  <1>22. HeldInv'
    <2>1. Held(r)'
      BY <1>14, <1>15 DEF Held
    <2>2. ASSUME NEW s \in Requests \ {r}, Owns(s)'
          PROVE  Held(s)'
      <3>1. Held(s) /\ Active(s)
        BY <1>16, <2>2 DEF HeldInv, Owns
      <3>2. Conn(s) \in pool' => Conn(s) \in pool
        BY <1>5, <1>16
      <3> QED
        BY <1>16, <1>18, <3>1, <3>2 DEF Held
    <2> QED
      BY <2>1, <2>2 DEF HeldInv
  <1>23. ReachedInv'
    <2>1. Reached(r)'
      BY <1>5, <1>14 DEF Reached
    <2>2. ASSUME NEW s \in Requests \ {r}, Active(s)'
          PROVE  Reached(s)'
      <3>1. Active(s) /\ Reached(s)
        BY <1>16, <2>2 DEF ReachedInv
      <3>2. Conn(s) = Conn(r) => session[s].shared
        BY <3>1 DEF ExclusiveInv
      <3> QED
        BY <1>5, <1>16, <3>1, <3>2 DEF Reached
    <2> QED
      BY <2>1, <2>2 DEF ReachedInv
  <1>24. LeakInv'
    <2>1. ASSUME NEW d \in pool', connection'[d].in_use
          PROVE  Lost' \/ \E s \in Requests : Owns(s)' /\ Conn(s)' = d
      <3>1. CASE d = new
        BY <1>14, <3>1
      <3>2. CASE d # new
        <4>1. d \in pool /\ d # Conn(r) /\ d \in Connections
          BY <1>1, <1>5, <3>2 DEF TypeOK
        <4>2. connection[d].in_use
          BY <1>9, <1>13, <2>1, <3>2, <4>1
        <4>3. Stage(r) # "lost"
          BY <1>2
        <4> QED
          BY <1>16, <4>1, <4>2, <4>3 DEF LeakInv, Lost
      <3> QED
        BY <3>1, <3>2
    <2> QED
      BY <2>1 DEF LeakInv
  <1>25. PoolInv'
    <2>1. Unused' \subseteq Unused
      <3>1. ASSUME NEW d \in Unused'
            PROVE  d \in Unused
        <4>1. d \in pool' /\ ~connection'[d].in_use
          BY <3>1 DEF Unused
        <4>2. d # new
          BY <1>15, <4>1
        <4>3. d \in pool /\ d \in Connections
          BY <1>1, <1>5, <4>1, <4>2 DEF TypeOK
        <4> QED
          BY <1>9, <1>13, <4>1, <4>2, <4>3 DEF Unused
      <3> QED
        BY <3>1
    <2>2. destroyed' = FALSE /\ io = None
      BY <1>2, <1>1 DEF TypeOK
    <2> QED
      BY <1>13, <2>1, <2>2 DEF PoolInv
  <1> QED
    BY <1>19, <1>20, <1>21, <1>22, <1>23, <1>24, <1>25

-----------------------------------------------------------------------------
(* The invariant, and what follows from it *)

\* A new client has no connection and no request.
LEMMA InitClientInv == Init => ClientInv
  <1>1. SUFFICES ASSUME Init PROVE ClientInv
    OBVIOUS
  <1>2. NewConnection \in Connection /\ NewConnection.streamed = FALSE
    BY NewObjects DEF NewConnection
  <1>3. /\ NewSession \in Session /\ NewSession.stage = "idle"
        /\ NewSession.connection = None /\ NewSession.next = "done"
    BY DEF NewSession, Session, Stages, Finished, BodyStages
  <1>4. TypeOK
    BY <1>1, <1>2, <1>3 DEF Init, TypeOK
  <1>5. ASSUME NEW r \in Requests
        PROVE  /\ session[r] = NewSession /\ Stage(r) = "idle" /\ Conn(r) = None /\ ~Active(r)
               /\ ~Owns(r) /\ ~Exchanging(r) /\ ~Leaving(r)
    <2>1. session[r] = NewSession /\ Stage(r) = "idle" /\ Conn(r) = None
      BY <1>1, <1>3 DEF Init, Stage, Conn
    <2> QED
      BY <2>1 DEF Active, Owns, Exchanging, Leaving, Finished, ConnectStages
  <1>6. SessionInv
    <2>1. \A r \in Requests : io # r
      BY <1>1, ClientAssumption DEF Init
    <2> QED
      BY <1>3, <1>5, <2>1 DEF SessionInv, SessionOK, ConnectStages
  <1>7. ExclusiveInv /\ HeldInv /\ ReachedInv
    BY <1>5 DEF ExclusiveInv, HeldInv, ReachedInv
  <1>8. LeakInv /\ PoolInv
    BY <1>1 DEF Init, LeakInv, PoolInv, Unused
  <1> QED
    BY <1>4, <1>6, <1>7, <1>8 DEF ClientInv

\* Every handler, timer and call of the application preserves the invariant.
LEMMA NextClientInv == ClientInv /\ [Next]_vars => ClientInv'
  <1>1. SUFFICES ASSUME ClientInv, [Next]_vars PROVE ClientInv'
    OBVIOUS
  <1>2. ASSUME NEW r \in Requests, Request(r) PROVE ClientInv'
    BY <1>1, <1>2, RequestStep
  <1>3. ASSUME NEW r \in Requests, Handler(r) PROVE ClientInv'
    <2>1. CASE \/ RequestWritten(r) \/ HeaderRead(r) \/ ChunkRead(r)
      BY <1>1, <2>1, ReadingHandlers
    <2>2. CASE \/ ConnectFailed(r) \/ ExchangeFailed(r) \/ HeaderEnds(r) \/ EventsOpened(r)
               \/ ContentRead(r) \/ EofRead(r) \/ EventRead(r) \/ BodyFailed(r)
      BY <1>1, <2>2, CallbackHandlers
    <2>3. CASE ChunkSizeRead(r)
      <3>1. \/ pool' = pool /\ \E code \in {"none", "error"} : Finish(r, code)
            \/ \E stage \in {"chunk_data", "chunk_size"} :
                    Continue(r, stage) /\ UNCHANGED connection
            \/ pool' = pool /\ \E stage \in {"chunk_data", "chunk_size"} : Part(r, stage)
        BY <2>3 DEF ChunkSizeRead
      <3> QED
        BY <1>1, <2>3, <3>1, ReadingHandlers, CallbackHandlers
    <2> QED
      BY <1>1, <1>3, <2>1, <2>2, <2>3, ConnectedStep, ReconnectStep, HeaderThrowsStep,
         EndCallbackStep, DroppedStep DEF Handler
  <1>4. ASSUME NEW r \in Requests, Succeed(r) \/ Fail(r) PROVE ClientInv'
    BY <1>1, <1>4, CompleteStep DEF Succeed, Fail
  <1>5. ASSUME NEW c \in Connections, Expire(c) \/ TimerFires(c) PROVE ClientInv'
    BY <1>1, <1>5, ExpireStep, TimerStep
  <1>6. CASE Stop
    <2>1. CloseAll /\ destroyed' = FALSE
      BY <1>1, <1>6 DEF Stop, ClientInv, TypeOK
    <2> QED
      BY <1>1, <2>1, CloseAllStep
  <1>7. CASE Destroy
    BY <1>1, <1>7, CloseAllStep DEF Destroy
  <1>8. CASE UNCHANGED vars
    <2>1. /\ UNCHANGED <<scheme, pool, connection, session, io, destroyed>>
      BY <1>8 DEF vars
    <2>2. TypeOK'
      BY <1>1, <2>1 DEF ClientInv, TypeOK
    <2>3. PoolInv'
      BY <1>1, <2>1 DEF ClientInv, PoolInv, Unused, Conn
    <2> QED
      BY <1>1, <2>1, <2>2, <2>3, QuietStep DEF Kept, KeptConnection
  <1> QED
    BY <1>1, <1>2, <1>3, <1>4, <1>5, <1>6, <1>7, <1>8 DEF Next

\* The inductive invariant holds of every run.
THEOREM ClientInvAlways == Spec => []ClientInv
  <1>1. Init => ClientInv
    BY InitClientInv
  <1>2. ClientInv /\ [Next]_vars => ClientInv'
    BY NextClientInv
  <1> QED
    BY <1>1, <1>2, PTL DEF Spec

\* Two requests in progress use one connection only where a callback or an event
\* stream has given it back: get_connection() and in_use keep all others apart.
THEOREM OneOwnerAlways == Spec => []OneOwner
  <1>1. ClientInv => OneOwner
    <2>1. SUFFICES ASSUME ClientInv, NEW r \in Requests, NEW s \in Requests, r # s,
                          Active(r), Active(s), Conn(r) = Conn(s)
                   PROVE  Stage(r) = "callback" \/ Stage(s) = "callback"
                            \/ connection[Conn(r)].streamed
      BY DEF OneOwner
    <2> QED
      BY <2>1 DEF ClientInv, ExclusiveInv, Owns, Leaving
  <1> QED
    BY <1>1, ClientInvAlways, PTL

\* The prune loop leaves one connection open at most, however many there were.
THEOREM PoolAlwaysShrinks == Spec => []PoolShrinks
  <1>1. ClientInv => PoolShrinks
    <2>1. SUFFICES ASSUME ClientInv, \A r \in Requests : ~Active(r)
                   PROVE  Cardinality(Unused) <= 1
      BY DEF PoolShrinks
    <2>2. io = None
      <3>1. \A r \in Requests : Stage(r) # "callback"
        BY <2>1 DEF Active, Finished
      <3> QED
        BY <2>1, <3>1 DEF ClientInv, TypeOK, SessionInv, SessionOK
    <2>3. \A c, d \in Unused : c = d
      BY <2>1, <2>2 DEF ClientInv, PoolInv
    <2>4. CASE Unused = {}
      BY <2>4, FS_EmptySet
    <2>5. CASE Unused # {}
      <3>1. PICK c \in Unused : TRUE
        BY <2>5
      <3>2. Unused = {c}
        BY <2>3, <3>1
      <3>3. Cardinality({c}) = 1
        BY FS_Singleton
      <3> QED
        BY <3>2, <3>3
    <2> QED
      BY <2>4, <2>5
  <1> QED
    BY <1>1, ClientInvAlways, PTL

\* Every path through the handlers gives the connection back, unless an exception
\* leaves one.
THEOREM NeverLeaks == Spec => []NoLeak
  <1>1. ClientInv => NoLeak
    <2>1. SUFFICES ASSUME ClientInv, NEW c \in pool \ Unused
                   PROVE  \/ \E r \in Requests : Active(r) /\ Conn(r) = c
                          \/ \E r \in Requests : Stage(r) = "lost"
      BY DEF NoLeak
    <2>2. connection[c].in_use
      BY <2>1 DEF Unused
    <2> QED
      BY <2>1, <2>2 DEF ClientInv, LeakInv, Lost, Owns
  <1> QED
    BY <1>1, ClientInvAlways, PTL

\* stop() finds the connection of every request it has to end in the pool.
THEOREM StopAlwaysReachesAll == Spec => []StopReachesAll
  <1>1. ClientInv => StopReachesAll
    <2>1. SUFFICES ASSUME ClientInv, NEW r \in Requests, Active(r),
                          ~session[r].interrupted, ~session[r].shared
                   PROVE  Conn(r) \in pool \/ Stage(r) \in {"until_eof", "callback", "events"}
      BY DEF StopReachesAll
    <2>2. Reached(r)
      BY <2>1 DEF ClientInv, ReachedInv
    <2>3. Stage(r) # "callback" => session[r].next = "done"
      BY <2>1 DEF ClientInv, SessionInv, SessionOK
    <2> QED
      BY <2>1, <2>2, <2>3 DEF Reached, Leaving
  <1> QED
    BY <1>1, ClientInvAlways, PTL

-----------------------------------------------------------------------------
(* When a request is written again, and when its error is told *)

\* A step of one session leaves the stage of the others, and what they have written.
LEMMA OthersStay ==
  ASSUME ClientInv, NEW r \in Requests, Request(r) \/ Handler(r) \/ Succeed(r) \/ Fail(r),
         NEW s \in Requests, s # r
  PROVE  session'[s].stage = session[s].stage /\ session'[s].sends = session[s].sends
  <1>1. /\ session \in [Requests -> Session] /\ TypeOK
    BY DEF ClientInv, TypeOK
  <1>2. CASE Request(r)
    <2>1. PICK c : session'[s] = [session[s] EXCEPT !.shared = @
                                        \/ s \in {q \in Requests : Conn(q) = c}]
      BY <1>2 DEF Request
    <2> QED
      BY <1>1, <2>1 DEF Session
  <1>3. CASE EndCallback(r)
    <2>1. \/ session'[s] = session[s]
          \/ \E C : session'[s] = Cancelled(C)[s]
      <3>1. \A C : DOMAIN Cancelled(C) = Requests
        BY DEF Cancelled
      <3> QED
        BY <1>1, <1>3, <3>1 DEF EndCallback
    <2> QED
      BY <1>1, <2>1, CancelledSessions
  <1>4. CASE Succeed(r) \/ Fail(r)
    BY <1>1, <1>4 DEF Succeed, Fail, Complete
  <1>5. CASE Connected(r) \/ HeaderThrows(r) \/ Reconnect(r) \/ Dropped(r)
    BY <1>1, <1>5 DEF Connected, HeaderThrows, Reconnect, Dropped
  <1>6. ASSUME NEW stage, Continue(r, stage)
        PROVE  session'[s] = session[s]
    BY <1>1, <1>6 DEF Continue
  <1>7. ASSUME NEW code, NEW last, NEW then, Callback(r, code, last, then)
        PROVE  session'[s] = session[s]
    BY <1>1, <1>7 DEF Callback
  <1>8. CASE RequestWritten(r) \/ HeaderRead(r) \/ ChunkSizeRead(r) \/ ChunkRead(r)
    BY <1>6, <1>7, <1>8
       DEF RequestWritten, HeaderRead, ChunkSizeRead, ChunkRead, Part, Finish
  <1>9. CASE \/ ConnectFailed(r) \/ ExchangeFailed(r) \/ HeaderEnds(r) \/ EventsOpened(r)
             \/ ContentRead(r) \/ EofRead(r) \/ EventRead(r) \/ BodyFailed(r)
    BY <1>7, <1>9 DEF ConnectFailed, ExchangeFailed, HeaderEnds, EventsOpened, ContentRead,
                      EofRead, EventRead, BodyFailed, Part, Finish
  <1> QED
    BY <1>2, <1>3, <1>4, <1>5, <1>8, <1>9 DEF Handler

\* A step of a session that writes nothing.
LEMMA OwnSends ==
  ASSUME ClientInv, NEW r \in Requests, Handler(r) \/ Succeed(r) \/ Fail(r),
         ~Connected(r), ~Reconnect(r)
  PROVE  session'[r].sends \in {0, session[r].sends}
  <1>1. /\ session \in [Requests -> Session] /\ session[r] \in Session /\ TypeOK
    BY DEF ClientInv, TypeOK
  <1>2. ASSUME NEW stage \in Finished, session' = [session EXCEPT ![r] = Over(stage)]
        PROVE  session'[r].sends = 0
    <2>1. Over(stage).sends = 0
      BY DEF Over, NewSession
    <2> QED
      BY <1>1, <1>2, <2>1
  <1>3. ASSUME NEW stage, Continue(r, stage)
        PROVE  session'[r].sends = session[r].sends
    <2>1. session'[r] = Waiting(session[r], stage)
      BY <1>1, <1>3 DEF Continue
    <2> QED
      BY <1>1, <2>1 DEF Waiting, Session
  <1>4. ASSUME NEW code, NEW last, NEW then, Callback(r, code, last, then)
        PROVE  session'[r].sends = session[r].sends
    <2>1. session'[r] = [session[r] EXCEPT !.stage = "callback", !.ec = code, !.end = last,
                                           !.next = then]
      BY <1>1, <1>4 DEF Callback
    <2> QED
      BY <1>1, <2>1 DEF Session
  <1>5. CASE HeaderThrows(r) \/ Dropped(r)
    BY <1>2, <1>5 DEF HeaderThrows, Dropped, Finished
  <1>6. CASE Succeed(r) \/ Fail(r)
    <2>1. PICK code : session'[r] = [session[r] EXCEPT !.ec = code]
      BY <1>1, <1>6 DEF Succeed, Fail, Complete
    <2> QED
      BY <1>1, <2>1 DEF Session
  <1>7. CASE EndCallback(r)
    <2>1. CASE session' = [session EXCEPT ![r] = Over("done")]
      BY <1>2, <2>1 DEF Finished
    <2>2. CASE \E C \in SUBSET {Conn(r)} :
                    session' = [Cancelled(C) EXCEPT
                        ![r] = [Waiting(session[r], session[r].next) EXCEPT
                                    !.end = TRUE, !.next = "done", !.ended = session[r].end,
                                    !.parts = IF session[r].end THEN @ ELSE @ + 1]]
      <3> DEFINE w == Waiting(session[r], session[r].next)
                 t == [w EXCEPT !.end = TRUE, !.next = "done", !.ended = session[r].end,
                                !.parts = IF session[r].end THEN @ ELSE @ + 1]
      <3>1. PICK C \in SUBSET {Conn(r)} : session' = [Cancelled(C) EXCEPT ![r] = t]
        BY <2>2
      <3>2. w.sends = session[r].sends
        BY <1>1 DEF Waiting, Session
      <3>3. t.sends = w.sends
        <4>1. w = [session[r] EXCEPT !.stage = session[r].next, !.ec = "pending"]
          BY DEF Waiting
        <4>2. DOMAIN session[r] = DOMAIN w /\ "sends" \in DOMAIN w
          BY <1>1, <4>1 DEF Session
        <4> HIDE DEF w
        <4> QED
          BY <4>2
      <3> HIDE DEF t
      <3>4. session'[r] = t
        BY <3>1 DEF Cancelled
      <3> QED
        BY <3>2, <3>3, <3>4
    <2> QED
      BY <1>7, <2>1, <2>2 DEF EndCallback
  <1>8. CASE RequestWritten(r) \/ HeaderRead(r) \/ ChunkSizeRead(r) \/ ChunkRead(r)
    BY <1>3, <1>4, <1>8
       DEF RequestWritten, HeaderRead, ChunkSizeRead, ChunkRead, Part, Finish
  <1>9. CASE \/ ConnectFailed(r) \/ ExchangeFailed(r) \/ HeaderEnds(r) \/ EventsOpened(r)
             \/ ContentRead(r) \/ EofRead(r) \/ EventRead(r) \/ BodyFailed(r)
    BY <1>4, <1>9 DEF ConnectFailed, ExchangeFailed, HeaderEnds, EventsOpened, ContentRead,
                      EofRead, EventRead, BodyFailed, Part, Finish
  <1> QED
    BY <1>5, <1>6, <1>7, <1>8, <1>9 DEF Handler

\* Timers and stop() move no session.
LEMMA SessionsStay ==
  ASSUME ClientInv,
         \/ \E c \in Connections : Expire(c) \/ TimerFires(c)
         \/ CloseAll
         \/ UNCHANGED vars,
         NEW s \in Requests
  PROVE  session'[s].stage = session[s].stage /\ session'[s].sends = session[s].sends
  <1>1. TypeOK /\ session[s] \in Session
    BY DEF ClientInv, TypeOK
  <1>2. CASE \E c \in Connections : Expire(c)
    BY <1>2 DEF Expire
  <1>3. CASE \E c \in Connections : TimerFires(c)
    <2>1. PICK c \in Connections : session' = Cancelled({c})
      BY <1>3 DEF TimerFires
    <2> QED
      BY <1>1, <2>1, CancelledSessions
  <1>4. CASE CloseAll
    <2>1. PICK code \in [Requests -> {"aborted", "error"}] :
            session' = [r \in Requests |->
                [session[r] EXCEPT !.interrupted = Active(r),
                                   !.ec = IF WaitsFor(r, pool) THEN code[r] ELSE @]]
      BY <1>4 DEF CloseAll
    <2> DEFINE ec == IF WaitsFor(s, pool) THEN code[s] ELSE session[s].ec
    <2>2. session'[s] = [session[s] EXCEPT !.interrupted = Active(s), !.ec = ec]
      BY <2>1
    <2> HIDE DEF ec
    <2> QED
      BY <1>1, <2>2 DEF Session
  <1>5. CASE UNCHANGED vars
    BY <1>5 DEF vars
  <1> QED
    BY <1>2, <1>3, <1>4, <1>5

\* A request is written twice at most, and only while nothing of a response has
\* reached the application: read() and reconnect() of every kind of client.
THEOREM ResendsOnlyUnanswered == Spec => ResendOnlyUnanswered
  <1>1. ClientInv /\ [Next]_vars =>
            [\A r \in Requests : session'[r].sends > session[r].sends =>
                session[r].sends < 2 /\ session[r].parts = 0 /\ ~session[r].ended]_vars
    <2>1. SUFFICES ASSUME ClientInv, [Next]_vars, NEW s \in Requests,
                          session'[s].sends > session[s].sends
                   PROVE  session[s].sends < 2 /\ session[s].parts = 0 /\ ~session[s].ended
      OBVIOUS
    <2>2. session[s].sends \in Nat
      BY <2>1 DEF ClientInv, TypeOK, Session
    <2>3. CASE Request(s)
      <3>1. session[s] = NewSession
        BY <2>1, <2>3 DEF Request, ClientInv, SessionInv, SessionOK
      <3> QED
        BY <3>1 DEF NewSession
    <2>4. CASE Connected(s) \/ Reconnect(s)
      <3>1. Exchanging(s)
        BY <2>4 DEF Connected, Reconnect, Handles, Exchanging
      <3>2. /\ session[s].parts = 0 /\ ~session[s].ended /\ session[s].sends = Sends(s)
        BY <2>1, <3>1 DEF ClientInv, SessionInv, SessionOK
      <3>3. Sends(s) < 2
        BY <2>4 DEF Sends, Connected, Reconnect, Handles, MayReconnect
      <3> QED
        BY <3>2, <3>3
    <2>5. CASE (Handler(s) \/ Succeed(s) \/ Fail(s)) /\ ~Connected(s) /\ ~Reconnect(s)
      <3>1. session'[s].sends \in {0, session[s].sends}
        BY <2>1, <2>5, OwnSends
      <3> QED
        BY <2>1, <2>2, <3>1
    <2>6. ASSUME NEW r \in Requests, r # s, Request(r) \/ Handler(r) \/ Succeed(r) \/ Fail(r)
          PROVE  FALSE
      BY <2>1, <2>2, <2>6, OthersStay
    <2>7. CASE \/ \E c \in Connections : Expire(c) \/ TimerFires(c)
               \/ Stop \/ Destroy \/ UNCHANGED vars
      BY <2>1, <2>2, <2>7, SessionsStay DEF Stop, Destroy
    <2> QED
      BY <2>1, <2>3, <2>4, <2>5, <2>6, <2>7 DEF Next
  <1> QED
    BY <1>1, ClientInvAlways, PTL DEF Spec, ResendOnlyUnanswered

\* An error of the exchange reaches the application only after a second attempt,
\* unless stop() or another session has interfered.
THEOREM AlwaysRetriedBeforeError == Spec => RetriedBeforeError
  <1>1. ClientInv /\ [Next]_vars =>
            [\A r \in Requests :
                /\ Stage(r) \in {"write", "header"} /\ session[r].ec = "error"
                /\ session'[r].stage = "callback"
                /\ ~session[r].shared /\ ~session[r].interrupted
                => session[r].sends = 2]_vars
    <2>1. SUFFICES ASSUME ClientInv, [Next]_vars, NEW s \in Requests,
                          Stage(s) \in {"write", "header"}, session[s].ec = "error",
                          session'[s].stage = "callback",
                          ~session[s].shared, ~session[s].interrupted
                   PROVE  session[s].sends = 2
      OBVIOUS
    <2>2. /\ Stage(s) \notin ConnectStages \cup BodyStages \cup {"idle", "callback"}
          /\ session[s] \in Session /\ session \in [Requests -> Session]
          /\ connection[Conn(s)].attempt_reconnect \in BOOLEAN
          /\ Stage(s) \in Stages
      <3>1. Stage(s) \notin ConnectStages \cup BodyStages \cup {"idle", "callback"}
            /\ Stage(s) \in Stages
        BY <2>1 DEF ConnectStages, BodyStages, Stages
      <3> QED
        BY <2>1, <3>1, Working DEF ClientInv, TypeOK, Connection
    <2>3. ~Ok(s) /\ Exchanging(s) /\ session[s].ec # "aborted"
      BY <2>1 DEF Ok, Exchanging
    <2>4. ExchangeFailed(s)
      <3>1. ~Request(s)
        BY <2>2 DEF Request
      <3>2. ~Succeed(s) /\ ~Fail(s)
        BY <2>1 DEF Succeed, Fail, Complete
      <3>3. ~EndCallback(s)
        BY <2>1, <2>2 DEF EndCallback, ClientInv, SessionInv, SessionOK
      <3>4. ~Dropped(s)
        <4>1. Over("dropped").stage # "callback"
          BY NewObjects DEF Finished
        <4> QED
          BY <2>1, <2>2, <4>1 DEF Dropped
      <3>5. ~Reconnect(s)
        <4>1. ASSUME Reconnect(s) PROVE FALSE
          <5>1. PICK n, f : session' = [session EXCEPT
                    ![s] = Connecting([session[s] EXCEPT !.connection = n], f)]
            BY <4>1 DEF Reconnect
          <5>2. session'[s] = Connecting([session[s] EXCEPT !.connection = n], f)
            BY <2>2, <5>1
          <5> DEFINE m == [session[s] EXCEPT !.connection = n]
          <5>3. "stage" \in DOMAIN m
            BY <2>2 DEF Session
          <5> HIDE DEF m
          <5>4. Connecting(m, f).stage \in {"resolve", "write"}
            BY <5>3 DEF Connecting, Waiting
          <5> QED
            BY <2>1, <5>2, <5>4 DEF m
        <4> QED
          BY <4>1
      <3>6. ~Connected(s) /\ ~ConnectFailed(s)
        BY <2>2 DEF Connected, ConnectFailed, Handles
      <3>7. /\ ~RequestWritten(s) /\ ~HeaderRead(s) /\ ~HeaderEnds(s) /\ ~EventsOpened(s)
            /\ ~HeaderThrows(s)
        BY <2>3 DEF RequestWritten, HeaderRead, HeaderEnds, EventsOpened, HeaderThrows
      <3>8. /\ ~ContentRead(s) /\ ~EofRead(s) /\ ~ChunkSizeRead(s) /\ ~ChunkRead(s)
            /\ ~EventRead(s) /\ ~BodyFailed(s)
        BY <2>2 DEF ContentRead, EofRead, ChunkSizeRead, ChunkRead, EventRead, BodyFailed,
                    Handles, BodyStages
      <3>9. ASSUME NEW r \in Requests, r # s,
                   Request(r) \/ Handler(r) \/ Succeed(r) \/ Fail(r)
            PROVE  FALSE
        BY <2>1, <2>2, <3>9, OthersStay DEF Stage
      <3>10. ~ \/ \E c \in Connections : Expire(c) \/ TimerFires(c)
               \/ Stop \/ Destroy \/ UNCHANGED vars
        BY <2>1, <2>2, SessionsStay DEF Stop, Destroy, Stage
      <3> QED
        BY <2>1, <3>1, <3>2, <3>3, <3>4, <3>5, <3>6, <3>7, <3>8, <3>9, <3>10
           DEF Next, Handler
    <2>5. Conn(s) \in pool
      <3>1. Active(s) /\ session[s].next = "done" /\ ~Leaving(s)
        BY <2>1, <2>2, Working
      <3>2. Reached(s)
        BY <2>1, <3>1 DEF ClientInv, ReachedInv
      <3> QED
        BY <2>1, <3>1, <3>2 DEF Reached
    <2>6. ~connection[Conn(s)].attempt_reconnect
      BY <2>3, <2>4, <2>5 DEF ExchangeFailed, MayReconnect
    <2>7. session[s].sends = Sends(s) /\ Stage(s) \notin ConnectStages
      BY <2>1, <2>2, <2>3 DEF ClientInv, SessionInv, SessionOK
    <2> QED
      BY <2>6, <2>7 DEF Sends
  <1> QED
    BY <1>1, ClientInvAlways, PTL DEF Spec, RetriedBeforeError

=============================================================================
