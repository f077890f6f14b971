---------------------------- MODULE ResponseSend ----------------------------
(***************************************************************************)
(* One Response of the server (server_http.hpp): the application writes to *)
(* it and sends what it has written, io_service threads run the handlers   *)
(* of its writes to the socket, each in a scope of ScopeRunner, and the    *)
(* server may be destroyed meanwhile.  What is left in the Response when   *)
(* nobody uses it any more is sent by its deleter.                         *)
(*                                                                         *)
(* The application's calls on one Response come one after the other, from  *)
(* any thread: an ostream is not for two threads at once.  What is written *)
(* is a number, the first 1, the next 2.                                   *)
(***************************************************************************)
EXTENDS ScopeRunner, Sequences

CONSTANTS
    IoThreads,     \* threads in io_service->run()
    Destroyer,     \* the thread that destroys the server
    MaxWritten,    \* bound: writes of the application
    MaxSends       \* bound: calls of send()

ASSUME SendAssumption ==
    /\ Threads = IoThreads \cup {Destroyer} /\ Destroyer \notin IoThreads
    /\ MaxWritten \in Nat /\ MaxSends \in Nat

VARIABLES
    held,       \* whether the application still holds the Response
    deleted,    \* whether its deleter has run
    streambuf,  \* what has been written and not sent
    moved,      \* what a call of send() has taken and not yet queued: at most one chunk
    send_queue, \* chunks sent; the first one is being written to the socket
    writes,     \* async_write operations started whose handler has not
    job,        \* the operations that a thread handles: at most one for each
    todo,       \* the callbacks it is to call
    broken,     \* the connection is closed, by its peer, its timer or stop()
    wire,       \* what has been written to the socket
    \* history
    written,    \* numbers written to the Response
    chunks,     \* what each send() sent
    heard       \* callbacks called

sendVars == <<held, deleted, streambuf, moved, send_queue, writes, job, todo,
              broken, wire, written, chunks, heard>>
vars == <<runnerVars, sendVars>>

Init ==
    /\ RunnerInit
    /\ held = TRUE /\ deleted = FALSE
    /\ streambuf = <<>> /\ moved = {} /\ send_queue = <<>>
    /\ writes = {}
    /\ job = [t \in IoThreads |-> {}]
    /\ todo = [t \in IoThreads |-> <<>>]
    /\ broken = FALSE /\ wire = <<>>
    /\ written = 0 /\ chunks = <<>> /\ heard = <<>>

\* async_write of a chunk; the deleter's write has the number 0.
Started(id, data) == [id |-> id, data |-> data, ec |-> "pending"]
-----------------------------------------------------------------------------
(* The application *)

Write ==
    /\ held /\ moved = {} /\ written < MaxWritten
    /\ written' = written + 1
    /\ streambuf' = Append(streambuf, written + 1)
    /\ UNCHANGED <<runnerVars, held, deleted, moved, send_queue, writes, job, todo,
                   broken, wire, chunks, heard>>

\* send(): the stream buffer is taken before send_queue_mutex is ...
SendMove ==
    /\ held /\ moved = {} /\ Len(chunks) < MaxSends
    /\ chunks' = Append(chunks, streambuf)
    /\ moved' = {Len(chunks) + 1}
    /\ streambuf' = <<>>
    /\ UNCHANGED <<runnerVars, held, deleted, send_queue, writes, job, todo,
                   broken, wire, written, heard>>

\* ... under which it is queued, and written at once if nothing else is.
MustStart_Mut == Len(send_queue) <= 1
MustStart == Len(send_queue) = 0

Enqueue(id) ==
    /\ id \in moved
    /\ moved' = {}
    /\ send_queue' = Append(send_queue, id)
    /\ writes' = IF MustStart THEN writes \cup {Started(id, chunks[id])} ELSE writes
    /\ UNCHANGED <<runnerVars, held, deleted, streambuf, job, todo,
                   broken, wire, written, chunks, heard>>

LetGo ==
    /\ held /\ moved = {}
    /\ held' = FALSE
    /\ UNCHANGED <<runnerVars, deleted, streambuf, moved, send_queue, writes, job, todo,
                   broken, wire, written, chunks, heard>>

\* A handler holds the Response (self) until it has returned.
Used_Mut == held \/ \E w \in writes : w.id # 0
Used ==
    \/ held
    \/ \E w \in writes \cup UNION {job[t] : t \in IoThreads} : w.id # 0

\* The deleter that ServerBase::write gives the Response: send_on_delete.
Delete ==
    /\ ~Used /\ ~deleted
    /\ deleted' = TRUE
    /\ writes' = writes \cup {Started(0, streambuf)}
    /\ streambuf' = <<>>
    /\ UNCHANGED <<runnerVars, held, moved, send_queue, job, todo,
                   broken, wire, written, chunks, heard>>
-----------------------------------------------------------------------------
(* The network *)

Completed(w, ec) == (writes \ {w}) \cup {[w EXCEPT !.ec = ec]}

Transmit(w) ==
    /\ w \in writes /\ w.ec = "pending" /\ ~broken
    /\ wire' = wire \o w.data
    /\ writes' = Completed(w, "ok")
    /\ UNCHANGED <<runnerVars, held, deleted, streambuf, moved, send_queue, job, todo,
                   broken, written, chunks, heard>>

\* The connection breaks when some of the data is out, or has broken before.
Fail(w) ==
    /\ w \in writes /\ w.ec = "pending"
    /\ \E n \in 0 .. Len(w.data) :
        /\ broken => n = 0
        /\ wire' = wire \o SubSeq(w.data, 1, n)
    /\ broken' = TRUE
    /\ writes' = Completed(w, "error")
    /\ UNCHANGED <<runnerVars, held, deleted, streambuf, moved, send_queue, job, todo,
                   written, chunks, heard>>

Break ==
    /\ ~broken
    /\ broken' = TRUE
    /\ UNCHANGED <<runnerVars, held, deleted, streambuf, moved, send_queue, writes, job, todo,
                   wire, written, chunks, heard>>
-----------------------------------------------------------------------------
(* Handlers of the writes *)

\* An io_service thread takes a completed write, and asks for a scope.
Dispatch(t, w) ==
    /\ w \in writes /\ w.ec # "pending"
    /\ job[t] = {}
    /\ LoadCount(t)
    /\ writes' = writes \ {w}
    /\ job' = [job EXCEPT ![t] = {w}]
    /\ UNCHANGED <<held, deleted, streambuf, moved, send_queue, todo,
                   broken, wire, written, chunks, heard>>

Enter(t) == (Acquire(t) \/ RetryAcquire(t)) /\ UNCHANGED sendVars

\* if(!lock) return;
TurnedAway(t) ==
    /\ Refuse(t)
    /\ job' = [job EXCEPT ![t] = {}]
    /\ UNCHANGED <<held, deleted, streambuf, moved, send_queue, writes, todo,
                   broken, wire, written, chunks, heard>>

Calls(ids, ec) == [i \in DOMAIN ids |-> [id |-> ids[i], ec |-> ec]]

\* An operation whose handler has run its locked part.
Handled(w) == [w EXCEPT !.ec = "handled"]
Handles(t, w) == w \in job[t] /\ w.ec # "handled" /\ pc[t] = "inside"

Remaining_Mut == send_queue
Remaining == Tail(send_queue)

\* Under send_queue_mutex: the next chunk is started ...
ChunkWritten(t, w) ==
    /\ Handles(t, w) /\ w.id # 0 /\ w.ec = "ok"
    /\ send_queue' = Remaining
    /\ writes' = IF Remaining = <<>> THEN writes
                 ELSE writes \cup {Started(Head(Remaining), chunks[Head(Remaining)])}
    /\ todo' = [todo EXCEPT ![t] = Calls(<<Head(send_queue)>>, "ok")]
    /\ job' = [job EXCEPT ![t] = {Handled(w)}]
    /\ UNCHANGED <<runnerVars, held, deleted, streambuf, moved,
                   broken, wire, written, chunks, heard>>

Dropped_Mut == <<Head(send_queue)>>
Dropped == send_queue

\* ... or all of them are given up.
ChunkFailed(t, w) ==
    /\ Handles(t, w) /\ w.id # 0 /\ w.ec = "error"
    /\ send_queue' = <<>>
    /\ todo' = [todo EXCEPT ![t] = Calls(Dropped, "error")]
    /\ job' = [job EXCEPT ![t] = {Handled(w)}]
    /\ UNCHANGED <<runnerVars, held, deleted, streambuf, moved, writes,
                   broken, wire, written, chunks, heard>>

LastWritten(t, w) ==
    /\ Handles(t, w) /\ w.id = 0
    /\ todo' = [todo EXCEPT ![t] = Calls(<<0>>, w.ec)]
    /\ job' = [job EXCEPT ![t] = {Handled(w)}]
    /\ UNCHANGED <<runnerVars, held, deleted, streambuf, moved, send_queue, writes,
                   broken, wire, written, chunks, heard>>

\* The callbacks are called without the mutex.
CallBack(t) ==
    /\ pc[t] = "inside" /\ todo[t] # <<>>
    /\ heard' = Append(heard, Head(todo[t]))
    /\ todo' = [todo EXCEPT ![t] = Tail(@)]
    /\ UNCHANGED <<runnerVars, held, deleted, streambuf, moved, send_queue, writes, job,
                   broken, wire, written, chunks>>

Leave(t) ==
    /\ \E w \in job[t] : w.ec = "handled"
    /\ todo[t] = <<>>
    /\ Release(t)
    /\ job' = [job EXCEPT ![t] = {}]
    /\ UNCHANGED <<held, deleted, streambuf, moved, send_queue, writes, todo,
                   broken, wire, written, chunks, heard>>

Handler(t) ==
    \/ \E w \in writes : Dispatch(t, w)
    \/ Enter(t) \/ TurnedAway(t)
    \/ \E w \in job[t] : ChunkWritten(t, w) \/ ChunkFailed(t, w) \/ LastWritten(t, w)
    \/ CallBack(t) \/ Leave(t)

\* ~ServerBase(): handler_runner->stop(); its stop() then closes the connection
\* (Break).
Destroy == StopRunner(Destroyer) /\ UNCHANGED sendVars
-----------------------------------------------------------------------------
Application == Write \/ SendMove \/ (\E id \in moved : Enqueue(id)) \/ LetGo

Network == Break \/ \E w \in writes : Transmit(w) \/ Fail(w)

Next ==
    \/ Application
    \/ Delete
    \/ Network
    \/ \E t \in IoThreads : Handler(t)
    \/ Destroy

Spec == Init /\ [][Next]_vars

\* A send() that has begun goes on, a Response that nobody uses is deleted, the
\* timer of the content or the peer ends a write, and each thread runs.  A compare
\* and exchange that is possible again and again succeeds in the end.
Fairness ==
    /\ WF_vars(\E id \in moved : Enqueue(id))
    /\ WF_vars(Delete)
    /\ WF_vars(\E w \in writes : Transmit(w) \/ Fail(w))
    /\ WF_vars(\E t \in IoThreads, w \in writes : Dispatch(t, w))
    /\ \A t \in IoThreads :
        /\ SF_vars(Acquire(t) /\ UNCHANGED sendVars)
        /\ WF_vars(RetryAcquire(t) /\ expected[t] # count /\ UNCHANGED sendVars)
        /\ WF_vars(TurnedAway(t))
        /\ WF_vars(\E w \in job[t] : ChunkWritten(t, w) \/ ChunkFailed(t, w) \/ LastWritten(t, w))
        /\ WF_vars(CallBack(t)) /\ WF_vars(Leave(t))

FairSpec == Spec /\ Fairness
-----------------------------------------------------------------------------
Ids == 0 .. MaxSends
Numbers == 1 .. MaxWritten
Operation == [id : Ids, data : Seq(Numbers), ec : {"pending", "ok", "error", "handled"}]

TypeOK ==
    /\ RunnerTypeOK
    /\ held \in BOOLEAN /\ deleted \in BOOLEAN /\ broken \in BOOLEAN
    /\ streambuf \in Seq(Numbers) /\ wire \in Seq(Numbers)
    /\ moved \subseteq Ids \ {0}
    /\ send_queue \in Seq(Ids \ {0})
    /\ writes \subseteq Operation
    /\ job \in [IoThreads -> SUBSET Operation]
    /\ todo \in [IoThreads -> Seq([id : Ids, ec : {"ok", "error"}])]
    /\ heard \in Seq([id : Ids, ec : {"ok", "error"}])
    /\ written \in 0 .. MaxWritten
    /\ chunks \in Seq(Seq(Numbers)) /\ Len(chunks) <= MaxSends

\* Two async_writes never wait on the socket at once: their data could mix
\* (send_from_queue is called for the first of the queue only, and the deleter
\* runs when no handler holds the Response).
OneWriteAtATime == Cardinality({w \in writes : w.ec = "pending"}) <= 1

\* What goes out is what was written, in order and with nothing left out - unless
\* the server has been destroyed: a handler turned away leaves its queue behind,
\* and the deleter sends what comes after.
WireIsWhatWasWritten ==
    /\ \A i, j \in DOMAIN wire : i < j => wire[i] < wire[j]
    /\ ~Closed => \A i \in DOMAIN wire : wire[i] = i

\* No callback is told of success before all that was sent is out, or hears of its
\* chunk twice.
CallbacksTellTheTruth ==
    \A i \in DOMAIN heard :
        /\ heard[i].ec = "ok" /\ heard[i].id # 0 =>
            \A k \in DOMAIN chunks[heard[i].id] :
                \E j \in DOMAIN wire : wire[j] = chunks[heard[i].id][k]
        /\ \A j \in DOMAIN heard : heard[i].id = heard[j].id => i = j

\* The deleter never overtakes the queue while the server lives.
RestGoesLast == deleted => send_queue = <<>> \/ Closed

\* Every send() is answered by its callback, unless the server is destroyed.
EverySendIsAnswered ==
    \A id \in 1 .. MaxSends :
        Len(chunks) >= id ~> Closed \/ \E i \in DOMAIN heard : heard[i].id = id
-----------------------------------------------------------------------------
(* The inductive invariant of ResponseSendProofs *)

\* What is to be queued, or is queued, has been sent.
SentInv ==
    /\ moved \subseteq DOMAIN chunks
    /\ \A i \in DOMAIN send_queue : send_queue[i] \in DOMAIN chunks

\* A thread has a handler's operation from its dispatch to its end.
JobsInv ==
    \A t \in IoThreads :
        /\ pc[t] \in {"outside", "entering", "inside"}
        /\ job[t] = {} <=> pc[t] = "outside"
        /\ \A v, w \in job[t] : v = w
        /\ \A w \in job[t] : w.ec # "pending" /\ (w.ec = "handled" => pc[t] = "inside")
        /\ expected[t] < 0 => Closed

\* The operation of t whose handler has not run its locked part.
Handling(t) == {w \in job[t] : w.ec # "handled"}

\* One operation at most has been started and not been handled ...
TokenInv ==
    /\ \A v, w \in writes : v = w
    /\ \A w \in writes : w.ec # "handled"
    /\ \A t \in IoThreads : writes = {} \/ Handling(t) = {}
    /\ \A s, t \in IoThreads : s # t => Handling(s) = {} \/ Handling(t) = {}

\* ... which is that of the first in the queue, or the deleter's ...
IsFirst(w) == w.id # 0 => send_queue # <<>> /\ w.id = Head(send_queue)

FirstInv ==
    /\ \A w \in writes : IsFirst(w)
    /\ \A t \in IoThreads : \A w \in Handling(t) : IsFirst(w)

\* ... and there is one as long as there is a queue.
QueueInv ==
    ~Closed /\ send_queue # <<>> =>
        \/ \E w \in writes : w.id # 0
        \/ \E t \in IoThreads : \E w \in Handling(t) : w.id # 0

DeleteInv ==
    /\ ~held => moved = {}
    /\ deleted => ~held
    /\ \A w \in writes : w.id = 0 <=> deleted
    /\ \A t \in IoThreads : \A w \in job[t] : w.id = 0 <=> deleted

\* The queue is the last of what has been queued, in order: send() numbers its chunks,
\* and at most one of them is not queued yet.
Queued == IF moved = {} THEN Len(chunks) ELSE Len(chunks) - 1

OrderInv ==
    /\ moved \subseteq {Len(chunks)}
    /\ \A i \in DOMAIN send_queue : send_queue[i] = Queued - Len(send_queue) + i

\* What has been started and not been handled: TokenInv has one at most.
Tokens == writes \cup UNION {Handling(t) : t \in IoThreads}

\* A callback is due once, or has been called, when its chunk has left the queue.
HasLeft(id) ==
    IF id = 0 THEN deleted /\ Tokens = {} ELSE id \in 1 .. Queued - Len(send_queue)

Once(calls) ==
    /\ \A i \in DOMAIN calls : HasLeft(calls[i].id)
    /\ \A i, j \in DOMAIN calls : calls[i].id = calls[j].id => i = j

Apart(calls, others) ==
    \A i \in DOMAIN calls, j \in DOMAIN others : calls[i].id # others[j].id

OnceInv ==
    /\ Once(heard)
    /\ \A t \in IoThreads : Once(todo[t]) /\ Apart(todo[t], heard)
    /\ \A s, t \in IoThreads : s # t => Apart(todo[s], todo[t])

\* What a successful write has written is on the wire.
IsOut(id) == \A k \in DOMAIN chunks[id] : \E j \in DOMAIN wire : wire[j] = chunks[id][k]

Truthful(calls) == \A i \in DOMAIN calls : calls[i].ec = "ok" /\ calls[i].id # 0 => IsOut(calls[i].id)

TruthInv ==
    /\ \A w \in Tokens : w.id # 0 => w.data = chunks[w.id] /\ (w.ec = "ok" => IsOut(w.id))
    /\ Truthful(heard) /\ \A t \in IoThreads : Truthful(todo[t])

AnswersInv == OrderInv /\ OnceInv /\ TruthInv

\* The numbers after a, up to b.
Piece(a, b) == [i \in 1 .. b - a |-> a + i]

\* The k-th call of send() has cut off what was written up to e[k].
Cut(e, k) == IF k = 0 THEN 0 ELSE e[k]

Cuts(e) ==
    /\ \A k, l \in 0 .. Len(chunks) : k <= l => Cut(e, k) <= Cut(e, l)
    /\ \A k \in DOMAIN chunks : chunks[k] = Piece(Cut(e, k - 1), Cut(e, k))
    /\ ~deleted => streambuf = Piece(Cut(e, Len(chunks)), written)

\* Where the data of an operation starts, and ends.
From(e, w) == Cut(e, IF w.id = 0 THEN Len(chunks) ELSE w.id - 1)
To(e, w) == IF w.id = 0 THEN written ELSE Cut(e, w.id)

\* The wire has nothing beyond b, and everything up to b while the server lives.
Reaches(b) ==
    /\ \A i \in DOMAIN wire : wire[i] <= b
    /\ ~Closed => Len(wire) = b

\* Until the connection breaks it has got as far as the operation that is under way,
\* or the queue.
WireInv ==
    /\ WireIsWhatWasWritten
    /\ \A w \in Tokens : w.ec = "error" => broken
    /\ \E e \in [1 .. Len(chunks) -> 0 .. written] :
        /\ Cuts(e)
        /\ \A w \in Tokens : w.data = Piece(From(e, w), To(e, w))
        /\ ~broken => \A w \in Tokens : Reaches(IF w.ec = "pending" THEN From(e, w) ELSE To(e, w))
        /\ ~broken /\ Tokens = {} /\ ~deleted => Reaches(Cut(e, Queued))

SendInv == TypeOK /\ RunnerInv /\ SentInv /\ JobsInv /\ TokenInv /\ FirstInv /\ QueueInv /\ DeleteInv
=============================================================================
