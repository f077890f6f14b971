------------------------- MODULE ResponseSendProofs -------------------------
(***************************************************************************)
(* For any finite set of threads: the count of ScopeRunner is exact, a     *)
(* stop() that has returned has closed it, and it implements Gate.  Then,  *)
(* for any number of io_service threads, writes and calls of send(): the   *)
(* scopes of the handlers of a Response are a gate, no two writes are on   *)
(* the socket at once, the deleter does not overtake the queue, the socket *)
(* gets what was written, and the callbacks tell the truth about it.       *)
(***************************************************************************)
EXTENDS ResponseSend, FiniteSetTheorems, SequenceTheorems, TLAPS

-----------------------------------------------------------------------------
(* ScopeRunner.                                                            *)

\* The threads inside are finitely many.
LEMMA InsideFinite == IsFiniteSet(Inside)
  <1>1. Inside \subseteq Threads
    BY DEF Inside
  <1> QED
    BY <1>1, ThreadsAssumption, FS_Subset

\* An exact count of zero means that nobody is inside.
LEMMA NobodyInside ==
  ASSUME CountIsExact, count = 0
  PROVE  Inside = {}
  <1>1. Cardinality(Inside) = 0
    BY DEF CountIsExact, Closed
  <1> QED
    BY <1>1, InsideFinite, FS_EmptySet

\* A count of threads is never negative, so that an exact one is no smaller than -1.
LEMMA CountBounds ==
  ASSUME CountIsExact
  PROVE  count \in Nat \cup {-1}
  <1>1. Cardinality(Inside) \in Nat
    BY InsideFinite, FS_CardinalityType
  <1> QED
    BY <1>1 DEF CountIsExact, Closed

\* A step that moves no thread in or out, and keeps the count, keeps it exact.
LEMMA SameInside ==
  ASSUME NEW t \in Threads, NEW place, RunnerTypeOK, CountIsExact,
         pc[t] # "inside", place # "inside",
         pc' = [pc EXCEPT ![t] = place], count' = count
  PROVE  CountIsExact' /\ Inside' = Inside /\ Closed' = Closed
  <1>1. Inside' = Inside
    BY DEF Inside, RunnerTypeOK
  <1> QED
    BY <1>1 DEF CountIsExact, Closed

\* A thread that enters is one more inside, and the gate was and stays open.
LEMMA Entering ==
  ASSUME NEW t \in Threads, RunnerInv, Acquire(t)
  PROVE  /\ Inside' = Inside \cup {t}
         /\ ~Closed /\ Closed' = Closed /\ CountIsExact'
  <1>1. count \in Nat /\ pc[t] = "entering" /\ count' = count + 1
    BY CountBounds DEF RunnerInv, RunnerTypeOK, Acquire, Admits
  <1>2. Inside' = Inside \cup {t} /\ t \notin Inside
    BY <1>1 DEF Inside, Acquire, RunnerInv, RunnerTypeOK
  <1>3. ~Closed /\ ~Closed' /\ Closed' = Closed
    BY <1>1 DEF Closed
  <1>4. count = Cardinality(Inside)
    BY <1>3 DEF CountIsExact, RunnerInv
  <1>5. Cardinality(Inside') = count + 1
    BY <1>2, <1>4, InsideFinite, FS_AddElement
  <1> QED
    BY <1>1, <1>2, <1>3, <1>5 DEF CountIsExact

\* A thread that leaves is one less, and the gate was and stays open.
LEMMA Leaving ==
  ASSUME NEW t \in Threads, RunnerInv, Release(t)
  PROVE  /\ Inside' = Inside \ {t}
         /\ ~Closed /\ Closed' = Closed /\ CountIsExact'
  <1>1. t \in Inside /\ Inside' = Inside \ {t}
    BY DEF Inside, Release, RunnerInv, RunnerTypeOK
  <1>2. ~Closed /\ count = Cardinality(Inside)
    BY <1>1 DEF RunnerInv, CountIsExact
  <1>3. Cardinality(Inside) \in Nat /\ Cardinality(Inside) # 0
    BY <1>1, InsideFinite, FS_CardinalityType, FS_EmptySet
  <1>4. Cardinality(Inside \ {t}) = Cardinality(Inside) - 1
    BY <1>1, InsideFinite, FS_RemoveElement
  <1>5. count' = count - 1
    BY DEF Release
  <1>6. ~Closed' /\ Closed' = Closed
    BY <1>2, <1>3, <1>5 DEF Closed
  <1> QED
    BY <1>1, <1>2, <1>4, <1>5, <1>6 DEF CountIsExact

\* The swap closes an empty gate.
LEMMA Closing ==
  ASSUME NEW t \in Threads, RunnerInv, StopSwap(t)
  PROVE  /\ Inside = {} /\ Inside' = {}
         /\ ~Closed /\ Closed' /\ CountIsExact'
  <1>1. count = 0 /\ count' = -1
    BY DEF StopSwap, Idle
  <1>2. Inside = {}
    BY <1>1, NobodyInside DEF RunnerInv
  <1>3. Inside' = Inside
    BY DEF Inside, StopSwap, RunnerInv, RunnerTypeOK
  <1> QED
    BY <1>1, <1>2, <1>3 DEF CountIsExact, Closed

\* Type correctness, one step at a time.
LEMMA TypeStep ==
  ASSUME RunnerTypeOK, [RunnerNext]_runnerVars
  PROVE  RunnerTypeOK'
  <1>1. CASE UNCHANGED runnerVars
    BY <1>1 DEF RunnerTypeOK, runnerVars
  <1>2. ASSUME NEW t \in Threads, ContinueLock(t) \/ Release(t) \/ StopRunner(t)
        PROVE  RunnerTypeOK'
    BY <1>2 DEF RunnerTypeOK, ContinueLock, StopRunner, LoadCount, Acquire, RetryAcquire,
                Refuse, Release, BeginStop, StopSwap, StopSeen
  <1> QED
    BY <1>1, <1>2 DEF RunnerNext

\* What one step of a thread does to the gate: it enters, leaves, closes the gate,
\* or does nothing to it.
LEMMA GateStep ==
  ASSUME RunnerInv, NEW t \in Threads, ContinueLock(t) \/ Release(t) \/ StopRunner(t)
  PROVE  /\ CountIsExact' /\ StoppedIsClosed'
         /\ G!Enter(t) \/ G!Leave(t) \/ G!Close \/ UNCHANGED <<Inside, Closed>>
  <1>1. CASE LoadCount(t) \/ Refuse(t) \/ BeginStop(t)
    <2>1. PICK place \in {"entering", "outside", "stopping"} :
            pc' = [pc EXCEPT ![t] = place] /\ count' = count /\ pc[t] # "inside"
      BY <1>1 DEF LoadCount, Refuse, BeginStop
    <2>2. CountIsExact' /\ Inside' = Inside /\ Closed' = Closed
      BY <2>1, SameInside DEF RunnerInv
    <2>3. StoppedIsClosed'
      BY <2>1, <2>2 DEF StoppedIsClosed, RunnerInv, RunnerTypeOK
    <2> QED
      BY <2>2, <2>3
  <1>2. CASE RetryAcquire(t)
    BY <1>2 DEF RetryAcquire, RunnerInv, CountIsExact, StoppedIsClosed, Inside, Closed
  <1>3. CASE Acquire(t)
    <2>1. StoppedIsClosed'
      BY <1>3, Entering DEF StoppedIsClosed, RunnerInv, RunnerTypeOK, Acquire
    <2> QED
      BY <1>3, <2>1, Entering DEF G!Enter
  <1>4. CASE Release(t)
    <2>1. StoppedIsClosed'
      BY <1>4, Leaving DEF StoppedIsClosed, RunnerInv, RunnerTypeOK, Release
    <2> QED
      BY <1>4, <2>1, Leaving DEF G!Leave
  <1>5. CASE StopSwap(t)
    <2>1. StoppedIsClosed'
      BY <1>5, Closing DEF StoppedIsClosed
    <2> QED
      BY <1>5, <2>1, Closing DEF G!Close
  <1>6. CASE StopSeen(t)
    <2>1. pc' = [pc EXCEPT ![t] = "stopped"] /\ count' = count /\ pc[t] # "inside"
      BY <1>6 DEF StopSeen
    <2>2. CountIsExact' /\ Inside' = Inside /\ Closed' = Closed
      BY <2>1, SameInside DEF RunnerInv
    <2>3. Closed
      BY <1>6, CountBounds DEF StopSeen, RunnerInv, Closed
    <2>4. StoppedIsClosed'
      BY <2>2, <2>3 DEF StoppedIsClosed
    <2> QED
      BY <2>2, <2>4
  <1> QED
    BY <1>1, <1>2, <1>3, <1>4, <1>5, <1>6 DEF ContinueLock, StopRunner

LEMMA InitInv == RunnerInit => RunnerInv
  <1> SUFFICES ASSUME RunnerInit PROVE RunnerInv
    OBVIOUS
  <1>1. RunnerTypeOK /\ StoppedIsClosed
    BY DEF RunnerInit, RunnerTypeOK, StoppedIsClosed
  <1>2. Inside = {}
    BY DEF RunnerInit, Inside
  <1>3. CountIsExact
    BY <1>2, FS_EmptySet DEF RunnerInit, CountIsExact, Closed
  <1> QED
    BY <1>1, <1>3 DEF RunnerInv

LEMMA StepInv == RunnerInv /\ [RunnerNext]_runnerVars => RunnerInv'
  <1> SUFFICES ASSUME RunnerInv, [RunnerNext]_runnerVars PROVE RunnerInv'
    OBVIOUS
  <1>1. RunnerTypeOK'
    BY TypeStep DEF RunnerInv
  <1>2. CASE UNCHANGED runnerVars
    BY <1>1, <1>2 DEF RunnerInv, runnerVars, CountIsExact, StoppedIsClosed, Inside, Closed
  <1>3. CASE RunnerNext
    <2>1. PICK t \in Threads : ContinueLock(t) \/ Release(t) \/ StopRunner(t)
      BY <1>3 DEF RunnerNext
    <2> QED
      BY <1>1, <2>1, GateStep DEF RunnerInv
  <1> QED
    BY <1>2, <1>3

\* Whatever the threads do, the count is exact - so that a stop() that has
\* returned has found nobody inside.
THEOREM CountIsAlwaysExact == RunnerSpec => [](CountIsExact /\ StoppedIsClosed)
  <1>1. RunnerSpec => []RunnerInv
    BY InitInv, StepInv, PTL DEF RunnerSpec
  <1>2. RunnerInv => CountIsExact /\ StoppedIsClosed
    BY DEF RunnerInv
  <1> QED
    BY <1>1, <1>2, PTL

\* ScopeRunner implements Gate: it closes only when nobody is inside, and nobody
\* enters after.
THEOREM ImplementsGate == RunnerSpec => GateSpec
  <1>1. RunnerInit => G!Init
    BY DEF RunnerInit, G!Init, Inside, Closed
  <1>2. RunnerInv /\ [RunnerNext]_runnerVars => [G!Next]_(G!vars)
    <2> SUFFICES ASSUME RunnerInv, [RunnerNext]_runnerVars PROVE [G!Next]_(G!vars)
      OBVIOUS
    <2>1. CASE UNCHANGED runnerVars
      BY <2>1 DEF runnerVars, G!vars, Inside, Closed
    <2>2. CASE RunnerNext
      <3>1. PICK t \in Threads : ContinueLock(t) \/ Release(t) \/ StopRunner(t)
        BY <2>2 DEF RunnerNext
      <3>2. G!Enter(t) \/ G!Leave(t) \/ G!Close \/ UNCHANGED <<Inside, Closed>>
        BY <3>1, GateStep
      <3> QED
        BY <3>1, <3>2 DEF G!Next, G!vars
    <2> QED
      BY <2>1, <2>2
  <1>3. RunnerSpec => []RunnerInv
    BY InitInv, StepInv, PTL DEF RunnerSpec
  <1> QED
    BY <1>1, <1>2, <1>3, PTL DEF RunnerSpec, GateSpec, G!Spec

-----------------------------------------------------------------------------
(* Response.                                                               *)

\* The io_service threads and the destructor only do what ScopeRunner lets them.
LEMMA RunnerStep == [Next]_vars => [RunnerNext]_runnerVars
  <1> SUFFICES ASSUME [Next]_vars PROVE [RunnerNext]_runnerVars
    OBVIOUS
  <1> USE SendAssumption
  <1>1. CASE UNCHANGED vars
    BY <1>1 DEF vars
  <1>2. CASE Application \/ Delete \/ Network
    BY <1>2 DEF Application, Network, Write, SendMove, Enqueue, LetGo, Delete,
                Break, Transmit, Fail
  <1>3. CASE \E t \in IoThreads : Handler(t)
    <2>1. PICK t \in IoThreads : Handler(t)
      BY <1>3
    <2>2. CASE \E w \in writes : Dispatch(t, w)
      BY <2>2 DEF Dispatch, RunnerNext, ContinueLock
    <2>3. CASE Enter(t) \/ TurnedAway(t) \/ Leave(t)
      BY <2>3 DEF Enter, TurnedAway, Leave, RunnerNext, ContinueLock
    <2>4. CASE CallBack(t) \/ \E w \in job[t] :
                 ChunkWritten(t, w) \/ ChunkFailed(t, w) \/ LastWritten(t, w)
      BY <2>4 DEF CallBack, ChunkWritten, ChunkFailed, LastWritten
    <2> QED
      BY <2>1, <2>2, <2>3, <2>4 DEF Handler
  <1>4. CASE Destroy
    BY <1>4 DEF Destroy, RunnerNext
  <1> QED
    BY <1>1, <1>2, <1>3, <1>4 DEF Next

\* The handlers of a Response have the gate of ScopeRunner.
THEOREM ResponseHasGate == Spec => RunnerSpec /\ GateSpec /\ []CountIsExact
  <1>1. Init => RunnerInit
    BY DEF Init
  <1>2. Spec => RunnerSpec
    BY <1>1, RunnerStep, PTL DEF Spec, RunnerSpec
  <1> QED
    BY <1>2, ImplementsGate, CountIsAlwaysExact, PTL

\* Once closed, the gate stays closed.
LEMMA ClosedStays ==
  ASSUME RunnerInv, Next, Closed
  PROVE  Closed'
  <1>1. CASE UNCHANGED runnerVars
    BY <1>1 DEF runnerVars, Closed
  <1>2. CASE RunnerNext
    <2>1. PICK t \in Threads : ContinueLock(t) \/ Release(t) \/ StopRunner(t)
      BY <1>2 DEF RunnerNext
    <2> QED
      BY <2>1, GateStep DEF G!Enter, G!Leave, G!Close
  <1> QED
    BY <1>1, <1>2, RunnerStep

\* An operation keeps its shape, and its number, when its write ends and when it
\* has been handled.
LEMMA Operations ==
  ASSUME NEW w \in Operation, NEW ec \in {"ok", "error", "handled"}
  PROVE  /\ w.id \in Ids /\ w.data \in Seq(Numbers)
         /\ w.ec \in {"pending", "ok", "error", "handled"}
         /\ [w EXCEPT !.ec = ec] \in Operation
         /\ [w EXCEPT !.ec = ec].id = w.id
         /\ [w EXCEPT !.ec = ec].ec = ec
  BY DEF Operation

\* The calls of the callbacks of some chunks.
LEMMA CallsType ==
  ASSUME NEW ids \in Seq(Ids), NEW ec \in {"ok", "error"}
  PROVE  Calls(ids, ec) \in Seq([id : Ids, ec : {"ok", "error"}])
  <1>1. Len(ids) \in Nat /\ ids \in [1 .. Len(ids) -> Ids] /\ DOMAIN ids = 1 .. Len(ids)
    BY LenProperties
  <1>2. Calls(ids, ec) = [i \in 1 .. Len(ids) |-> [id |-> ids[i], ec |-> ec]]
    BY <1>1 DEF Calls
  <1>3. \A i \in 1 .. Len(ids) : [id |-> ids[i], ec |-> ec] \in [id : Ids, ec : {"ok", "error"}]
    BY <1>1
  <1> QED
    BY <1>1, <1>2, <1>3

\* The operation of a handler that is about to run its locked part: no other is
\* started or handled, and it is the first of the queue, or the deleter's.
LEMMA Current ==
  ASSUME SendInv, NEW t \in IoThreads, NEW w \in job[t], Handles(t, w)
  PROVE  /\ w \in Operation /\ Handled(w) \in Operation
         /\ Handled(w).id = w.id /\ Handled(w).ec = "handled"
         /\ w.ec \in {"ok", "error"}
         /\ job[t] = {w} /\ writes = {}
         /\ \A s \in IoThreads : s # t => Handling(s) = {}
         /\ w.id # 0 => send_queue # <<>> /\ w.id = Head(send_queue)
  <1>1. w \in Operation
    BY DEF SendInv, TypeOK
  <1>2. Handled(w) \in Operation /\ Handled(w).id = w.id /\ Handled(w).ec = "handled"
    BY <1>1, Operations DEF Handled
  <1>6. w.ec \in {"ok", "error"}
    <2>1. w.ec \in {"pending", "ok", "error", "handled"}
      BY <1>1, Operations
    <2> QED
      BY <2>1 DEF Handles, SendInv, JobsInv
  <1>3. job[t] = {w} /\ w \in Handling(t)
    BY DEF SendInv, JobsInv, Handling, Handles
  <1>4. writes = {} /\ \A s \in IoThreads : s # t => Handling(s) = {}
    BY <1>3 DEF SendInv, TokenInv
  <1>5. w.id # 0 => send_queue # <<>> /\ w.id = Head(send_queue)
    BY <1>3 DEF SendInv, FirstInv, IsFirst
  <1> QED
    BY <1>1, <1>2, <1>3, <1>4, <1>5, <1>6

\* Type correctness, one step at a time.
LEMMA SendTypeStep ==
  ASSUME SendInv, Next
  PROVE  TypeOK' /\ SentInv'
  <1> USE SendAssumption
  <1>i. TypeOK /\ RunnerInv /\ SentInv
    BY DEF SendInv
  <1> USE <1>i
  <1>r. RunnerTypeOK'
    BY RunnerStep, TypeStep DEF RunnerInv
  <1>1. CASE Write
    <2>1. streambuf' \in Seq(Numbers) /\ written' \in 0 .. MaxWritten
      BY <1>1 DEF Write, TypeOK, Numbers
    <2> QED
      BY <1>1, <1>r, <2>1 DEF Write, TypeOK, SentInv
  <1>2. CASE SendMove
    <2>1. chunks' \in Seq(Seq(Numbers)) /\ Len(chunks') = Len(chunks) + 1
      BY <1>2 DEF SendMove, TypeOK
    <2>2. moved' \subseteq Ids \ {0} /\ Len(chunks') <= MaxSends
      BY <1>2, <2>1 DEF SendMove, TypeOK, Ids
    <2>3. DOMAIN chunks = 1 .. Len(chunks) /\ DOMAIN chunks' = 1 .. Len(chunks) + 1
      BY <2>1 DEF TypeOK
    <2>4. DOMAIN chunks \subseteq DOMAIN chunks' /\ moved' \subseteq DOMAIN chunks'
      BY <1>2, <2>3 DEF SendMove, TypeOK
    <2>5. SentInv'
      BY <1>2, <2>4 DEF SendMove, SentInv
    <2>6. streambuf' \in Seq(Numbers)
      BY <1>2 DEF SendMove
    <2> QED
      BY <1>2, <1>r, <2>1, <2>2, <2>5, <2>6 DEF SendMove, TypeOK
  <1>3. ASSUME NEW id \in moved, Enqueue(id) PROVE TypeOK' /\ SentInv'
    <2>1. id \in Ids \ {0} /\ id \in DOMAIN chunks /\ chunks[id] \in Seq(Numbers)
      BY DEF TypeOK, SentInv
    <2>2. Started(id, chunks[id]) \in Operation
      BY <2>1 DEF Started, Operation
    <2>3. writes' \subseteq Operation
      BY <1>3, <2>2 DEF Enqueue, TypeOK
    <2>4. send_queue' \in Seq(Ids \ {0}) /\ Len(send_queue') = Len(send_queue) + 1
      BY <1>3, <2>1 DEF Enqueue, TypeOK
    <2>5. \A i \in DOMAIN send_queue' : send_queue'[i] \in DOMAIN chunks
      BY <1>3, <2>1, <2>4, AppendProperties DEF Enqueue, TypeOK, SentInv
    <2>6. SentInv'
      BY <1>3, <2>5 DEF SentInv, Enqueue
    <2> QED
      BY <1>3, <1>r, <2>3, <2>4, <2>6 DEF Enqueue, TypeOK
  <1>4. CASE LetGo \/ Break
    BY <1>4, <1>r DEF LetGo, Break, TypeOK, SentInv
  <1>5. CASE Delete
    <2>1. Started(0, streambuf) \in Operation
      BY DEF Started, Operation, TypeOK, Ids
    <2>2. streambuf' \in Seq(Numbers)
      BY <1>5 DEF Delete
    <2> QED
      BY <1>5, <1>r, <2>1, <2>2 DEF Delete, TypeOK, SentInv
  <1>6. ASSUME NEW w \in writes, Transmit(w) PROVE TypeOK' /\ SentInv'
    <2>1. w \in Operation /\ w.data \in Seq(Numbers)
      BY Operations DEF TypeOK
    <2>2. writes' \subseteq Operation
      <3>1. [w EXCEPT !.ec = "ok"] \in Operation
        BY <2>1, Operations
      <3> QED
        BY <1>6, <3>1 DEF Transmit, Completed, TypeOK
    <2>3. wire' \in Seq(Numbers)
      BY <1>6, <2>1, ConcatProperties DEF Transmit, TypeOK
    <2> QED
      BY <1>6, <1>r, <2>2, <2>3 DEF Transmit, TypeOK, SentInv
  <1>7. ASSUME NEW w \in writes, Fail(w) PROVE TypeOK' /\ SentInv'
    <2>1. w \in Operation /\ w.data \in Seq(Numbers)
      BY Operations DEF TypeOK
    <2>2. PICK n \in 0 .. Len(w.data) : wire' = wire \o SubSeq(w.data, 1, n)
      BY <1>7 DEF Fail
    <2>3. SubSeq(w.data, 1, n) \in Seq(Numbers)
      BY <2>1, <2>2, SubSeqProperties
    <2>4. wire' \in Seq(Numbers)
      BY <2>2, <2>3, ConcatProperties DEF TypeOK
    <2>5. writes' \subseteq Operation
      <3>1. [w EXCEPT !.ec = "error"] \in Operation
        BY <2>1, Operations
      <3> QED
        BY <1>7, <3>1 DEF Fail, Completed, TypeOK
    <2> QED
      BY <1>7, <1>r, <2>4, <2>5 DEF Fail, TypeOK, SentInv
  <1>8. ASSUME NEW t \in IoThreads, Handler(t) PROVE TypeOK' /\ SentInv'
    <2>1. ASSUME NEW w \in writes, Dispatch(t, w) PROVE TypeOK' /\ SentInv'
      <3>1. job' \in [IoThreads -> SUBSET Operation] /\ writes' \subseteq Operation
        BY <2>1 DEF Dispatch, TypeOK
      <3> QED
        BY <2>1, <1>r, <3>1 DEF Dispatch, TypeOK, SentInv
    <2>2. CASE Enter(t)
      BY <2>2, <1>r DEF Enter, sendVars, TypeOK, SentInv
    <2>3. CASE TurnedAway(t) \/ Leave(t)
      <3>1. job' \in [IoThreads -> SUBSET Operation]
        BY <2>3 DEF TurnedAway, Leave, TypeOK
      <3> QED
        BY <2>3, <1>r, <3>1 DEF TurnedAway, Leave, TypeOK, SentInv
    <2>4. ASSUME NEW w \in job[t], ChunkWritten(t, w) \/ ChunkFailed(t, w) \/ LastWritten(t, w)
          PROVE  TypeOK' /\ SentInv'
      <3>1. Handles(t, w)
        BY <2>4 DEF ChunkWritten, ChunkFailed, LastWritten
      <3>2. {Handled(w)} \in SUBSET Operation /\ job' = [job EXCEPT ![t] = {Handled(w)}]
        BY <2>4, <3>1, Current DEF ChunkWritten, ChunkFailed, LastWritten
      <3>3. job' \in [IoThreads -> SUBSET Operation]
        BY <3>2 DEF TypeOK
      <3> DEFINE Call == [id : Ids, ec : {"ok", "error"}]
      <3>4. ASSUME NEW ids \in Seq(Ids), NEW ec \in {"ok", "error"},
                   todo' = [todo EXCEPT ![t] = Calls(ids, ec)]
            PROVE  todo' \in [IoThreads -> Seq(Call)]
        BY <3>4, CallsType DEF TypeOK
      <3>5. send_queue \in Seq(Ids) /\ 0 \in Ids
        BY DEF TypeOK, Ids
      <3>6. CASE ChunkWritten(t, w)
        <4>1. Head(send_queue) \in Ids /\ Remaining \in Seq(Ids \ {0})
              /\ \A i \in DOMAIN Remaining : Remaining[i] \in DOMAIN chunks
          <5>1. send_queue \in Seq(Ids \ {0}) /\ send_queue # <<>>
            BY <3>1, <3>6, Current DEF TypeOK, ChunkWritten
          <5>2. Len(Remaining) = Len(send_queue) - 1 /\ Remaining \in Seq(Ids \ {0})
                /\ \A i \in 1 .. Len(Remaining) : Remaining[i] = send_queue[i + 1]
            BY <5>1, HeadTailProperties DEF Remaining
          <5>3. DOMAIN send_queue = 1 .. Len(send_queue) /\ DOMAIN Remaining = 1 .. Len(Remaining)
                /\ Len(Remaining) \in Nat /\ Head(send_queue) \in Ids
            BY <5>1, <5>2, LenProperties, HeadTailProperties
          <5> QED
            BY <5>2, <5>3 DEF SentInv
        <4>2. todo' \in [IoThreads -> Seq(Call)]
          <5>1. <<Head(send_queue)>> \in Seq(Ids)
            BY <4>1
          <5> QED
            BY <3>4, <3>6, <5>1 DEF ChunkWritten
        <4>3. writes' \subseteq Operation
          <5>1. CASE Remaining = <<>>
            BY <3>6, <5>1 DEF ChunkWritten, TypeOK
          <5>2. CASE Remaining # <<>>
            <6>1. Head(Remaining) \in Ids \ {0} /\ Head(Remaining) = Remaining[1]
                  /\ 1 \in DOMAIN Remaining
              BY <4>1, <5>2, HeadTailProperties
            <6>2. chunks[Head(Remaining)] \in Seq(Numbers)
              BY <4>1, <6>1 DEF TypeOK
            <6>3. Started(Head(Remaining), chunks[Head(Remaining)]) \in Operation
              BY <6>1, <6>2 DEF Started, Operation
            <6> QED
              BY <3>6, <5>2, <6>3 DEF ChunkWritten, TypeOK
          <5> QED
            BY <5>1, <5>2
        <4> QED
          BY <3>6, <1>r, <3>3, <4>1, <4>2, <4>3 DEF ChunkWritten, TypeOK, SentInv
      <3>7. CASE ChunkFailed(t, w)
        <4>1. todo' \in [IoThreads -> Seq(Call)]
          BY <3>7, <3>4, <3>5 DEF ChunkFailed, Dropped
        <4>2. send_queue' \in Seq(Ids \ {0}) /\ DOMAIN send_queue' = {}
          BY <3>7 DEF ChunkFailed
        <4> QED
          BY <3>7, <1>r, <3>3, <4>1, <4>2 DEF ChunkFailed, TypeOK, SentInv
      <3>8. CASE LastWritten(t, w)
        <4>1. <<0>> \in Seq(Ids) /\ w.ec \in {"ok", "error"}
          BY <3>1, <3>5, Current
        <4>2. todo' \in [IoThreads -> Seq(Call)]
          BY <3>8, <3>4, <4>1 DEF LastWritten
        <4> QED
          BY <3>8, <1>r, <3>3, <4>2 DEF LastWritten, TypeOK, SentInv
      <3> QED
        BY <2>4, <3>6, <3>7, <3>8
    <2>5. CASE CallBack(t)
      <3>1. Head(todo[t]) \in [id : Ids, ec : {"ok", "error"}]
            /\ Tail(todo[t]) \in Seq([id : Ids, ec : {"ok", "error"}])
        BY <2>5, HeadTailProperties DEF CallBack, TypeOK
      <3>2. heard' \in Seq([id : Ids, ec : {"ok", "error"}])
        BY <2>5, <3>1, AppendProperties DEF CallBack, TypeOK
      <3>3. todo' \in [IoThreads -> Seq([id : Ids, ec : {"ok", "error"}])]
        BY <2>5, <3>1 DEF CallBack, TypeOK
      <3> QED
        BY <2>5, <1>r, <3>2, <3>3 DEF CallBack, TypeOK, SentInv
    <2> QED
      BY <1>8, <2>1, <2>2, <2>3, <2>4, <2>5 DEF Handler
  <1>9. CASE Destroy
    BY <1>9, <1>r DEF Destroy, sendVars, TypeOK, SentInv
  <1> QED
    BY <1>1, <1>2, <1>3, <1>4, <1>5, <1>6, <1>7, <1>8, <1>9 DEF Next, Application, Network

\* A thread has an operation from the dispatch of its handler to its end.
LEMMA JobsStep ==
  ASSUME SendInv, Next
  PROVE  JobsInv'
  <1> USE SendAssumption
  <1>i. TypeOK /\ RunnerInv /\ JobsInv /\ RunnerTypeOK
    BY DEF SendInv, RunnerInv
  <1> USE <1>i
  <1>c. count < 0 => Closed
    BY CountBounds DEF RunnerInv, Closed
  <1>1. CASE UNCHANGED <<runnerVars, job>>
    BY <1>1 DEF runnerVars, JobsInv, Closed
  <1>2. ASSUME NEW t \in IoThreads, NEW w \in writes, Dispatch(t, w) PROVE JobsInv'
    <2>1. w.ec # "pending" /\ w.ec # "handled"
      BY <1>2 DEF Dispatch, SendInv, TokenInv
    <2> QED
      BY <1>2, <1>c, <2>1 DEF Dispatch, LoadCount, JobsInv, TypeOK, RunnerTypeOK, Closed
  <1>3. ASSUME NEW t \in IoThreads, Enter(t) PROVE JobsInv'
    <2>1. job' = job
      BY <1>3 DEF Enter, sendVars
    <2>2. CASE Acquire(t)
      <3>1. ~Closed
        BY <2>2, Entering
      <3> QED
        BY <2>1, <2>2, <3>1 DEF Acquire, JobsInv, TypeOK, RunnerTypeOK
    <2>3. CASE RetryAcquire(t)
      BY <2>1, <2>3, <1>c DEF RetryAcquire, JobsInv, TypeOK, RunnerTypeOK, Closed
    <2> QED
      BY <1>3, <2>2, <2>3 DEF Enter
  <1>4. ASSUME NEW t \in IoThreads, TurnedAway(t) PROVE JobsInv'
    <2>1. /\ pc[t] = "entering" /\ pc' = [pc EXCEPT ![t] = "outside"]
          /\ job' = [job EXCEPT ![t] = {}] /\ UNCHANGED <<count, expected>>
      BY <1>4 DEF TurnedAway, Refuse
    <2>2. DOMAIN pc = Threads /\ DOMAIN job = IoThreads /\ IoThreads \subseteq Threads
      BY SendAssumption DEF TypeOK, RunnerTypeOK
    <2> QED
      BY <2>1, <2>2 DEF JobsInv, Closed
  <1>5. ASSUME NEW t \in IoThreads, NEW w \in job[t],
               ChunkWritten(t, w) \/ ChunkFailed(t, w) \/ LastWritten(t, w)
        PROVE  JobsInv'
    <2>1. Handles(t, w) /\ job' = [job EXCEPT ![t] = {Handled(w)}] /\ UNCHANGED runnerVars
      BY <1>5 DEF ChunkWritten, ChunkFailed, LastWritten
    <2>2. Handled(w).ec = "handled" /\ pc[t] = "inside"
      BY <2>1, Current DEF Handles
    <2>3. DOMAIN job = IoThreads
      BY DEF TypeOK
    <2> QED
      BY <2>1, <2>2, <2>3 DEF runnerVars, JobsInv, Closed
  <1>6. ASSUME NEW t \in IoThreads, Leave(t) PROVE JobsInv'
    <2>1. ~Closed
      BY <1>6, Leaving DEF Leave
    <2> QED
      BY <1>6, <2>1 DEF Leave, Release, JobsInv, TypeOK, RunnerTypeOK
  <1>7. CASE Destroy
    <2>1. /\ \A t \in IoThreads : pc'[t] = pc[t] /\ expected'[t] = expected[t]
          /\ job' = job
      BY <1>7 DEF Destroy, StopRunner, BeginStop, StopSwap, StopSeen, sendVars, RunnerTypeOK
    <2> QED
      BY <2>1, ClosedStays DEF JobsInv
  <1>8. CASE Application \/ Delete \/ Network
    BY <1>1, <1>8 DEF Application, Network, Write, SendMove, Enqueue, LetGo, Delete,
                Break, Transmit, Fail
  <1>9. ASSUME NEW t \in IoThreads, CallBack(t) PROVE JobsInv'
    BY <1>1, <1>9 DEF CallBack
  <1> QED
    BY <1>2, <1>3, <1>4, <1>5, <1>6, <1>7, <1>8, <1>9 DEF Next, Handler

WritesInv == TokenInv /\ FirstInv /\ QueueInv /\ DeleteInv

\* The application and the deleter start a write only when there is no other.
LEMMA ApplicationStep ==
  ASSUME SendInv, Application \/ Delete
  PROVE  WritesInv'
  <1>i. TypeOK /\ SentInv /\ TokenInv /\ FirstInv /\ QueueInv /\ DeleteInv
    BY DEF SendInv
  <1> USE <1>i
  <1>1. CASE Write \/ SendMove \/ LetGo
    <2>1. UNCHANGED <<writes, job, send_queue, deleted, count>>
      BY <1>1 DEF Write, SendMove, LetGo, runnerVars
    <2>2. TokenInv' /\ FirstInv' /\ QueueInv'
      BY <2>1 DEF TokenInv, FirstInv, QueueInv, Handling, IsFirst, Closed
    <2>3. DeleteInv'
      BY <1>1, <2>1 DEF DeleteInv, Write, SendMove, LetGo
    <2> QED
      BY <2>2, <2>3 DEF WritesInv
  <1>2. ASSUME NEW id \in moved, Enqueue(id) PROVE WritesInv'
    <2>1. UNCHANGED <<job, deleted, held, count>> /\ moved' = {} /\ id # 0
      BY <1>2 DEF Enqueue, runnerVars, TypeOK
    <2>2. ~deleted
      BY DEF DeleteInv
    <2>3. /\ send_queue' # <<>>
          /\ Head(send_queue') = IF send_queue = <<>> THEN id ELSE Head(send_queue)
      BY <1>2 DEF Enqueue, TypeOK
    <2>4. CASE send_queue = <<>>
      <3>1. writes = {} /\ \A t \in IoThreads : Handling(t) = {}
        BY <2>2, <2>4 DEF FirstInv, IsFirst, DeleteInv, Handling
      <3>2. writes' = {Started(id, chunks[id])}
        BY <1>2, <2>4, <3>1 DEF Enqueue, MustStart
      <3>3. Started(id, chunks[id]).id = id /\ Started(id, chunks[id]).ec = "pending"
        BY DEF Started
      <3>4. \A t \in IoThreads : Handling(t)' = {}
        BY <2>1, <3>1 DEF Handling
      <3> QED
        BY <2>1, <2>2, <2>3, <2>4, <3>2, <3>3, <3>4
        DEF WritesInv, TokenInv, FirstInv, IsFirst, QueueInv, DeleteInv
    <2>5. CASE send_queue # <<>>
      <3>1. UNCHANGED writes
        BY <1>2, <2>5 DEF Enqueue, MustStart, TypeOK
      <3> QED
        BY <2>1, <2>3, <2>5, <3>1
        DEF WritesInv, TokenInv, FirstInv, IsFirst, QueueInv, DeleteInv, Handling, Closed
    <2> QED
      BY <2>4, <2>5
  <1>3. CASE Delete
    <2>1. UNCHANGED <<job, held, moved, send_queue, count>> /\ deleted' /\ ~held
          /\ writes' = writes \cup {Started(0, streambuf)}
      BY <1>3 DEF Delete, Used, runnerVars
    <2>2. writes = {} /\ \A t \in IoThreads : job[t] = {}
      BY <1>3 DEF Delete, Used, DeleteInv
    <2>3. Started(0, streambuf).id = 0 /\ Started(0, streambuf).ec = "pending"
      BY DEF Started
    <2>4. \A t \in IoThreads : Handling(t) = {} /\ Handling(t)' = {}
      BY <2>1, <2>2 DEF Handling
    <2>5. writes' = {Started(0, streambuf)}
      BY <2>1, <2>2
    <2>6. ~Closed => send_queue = <<>>
      BY <2>2, <2>4 DEF QueueInv
    <2> QED
      BY <2>1, <2>2, <2>3, <2>4, <2>5, <2>6
      DEF WritesInv, TokenInv, FirstInv, IsFirst, QueueInv, DeleteInv, Closed
  <1> QED
    BY <1>1, <1>2, <1>3 DEF Application

\* The network ends a write.
LEMMA NetworkStep ==
  ASSUME SendInv, Network
  PROVE  WritesInv'
  <1>i. TypeOK /\ TokenInv /\ FirstInv /\ QueueInv /\ DeleteInv
    BY DEF SendInv
  <1> USE <1>i
  <1>1. CASE Break
    BY <1>1 DEF Break, runnerVars, WritesInv, TokenInv, FirstInv, IsFirst, QueueInv,
                DeleteInv, Handling, Closed
  <1>2. ASSUME NEW w \in writes, Transmit(w) \/ Fail(w) PROVE WritesInv'
    <2>1. PICK ec \in {"ok", "error"} : writes' = Completed(w, ec)
      BY <1>2 DEF Transmit, Fail
    <2>2. UNCHANGED <<job, held, moved, deleted, send_queue, count>>
      BY <1>2 DEF Transmit, Fail, runnerVars
    <2>3. w \in Operation /\ writes = {w}
      BY DEF TypeOK, TokenInv
    <2> DEFINE v == [w EXCEPT !.ec = ec]
    <2>4. v.id = w.id /\ v.ec = ec
      BY <2>3, Operations
    <2>5. writes' = {v}
      BY <2>1, <2>3 DEF Completed
    <2> HIDE DEF v
    <2> QED
      BY <2>2, <2>3, <2>4, <2>5
      DEF WritesInv, TokenInv, FirstInv, IsFirst, QueueInv, DeleteInv, Handling, Closed
  <1> QED
    BY <1>1, <1>2 DEF Network

\* A handler has one operation from its start to its end.
LEMMA HandlerStep ==
  ASSUME SendInv, NEW t \in IoThreads, Handler(t)
  PROVE  WritesInv'
  <1>i. TypeOK /\ RunnerInv /\ SentInv /\ JobsInv /\ TokenInv /\ FirstInv /\ QueueInv /\ DeleteInv
    BY DEF SendInv
  <1> USE <1>i
  <1>n. Next
    BY DEF Next
  <1>1. ASSUME NEW w \in writes, Dispatch(t, w) PROVE WritesInv'
    <2>1. UNCHANGED <<held, moved, deleted, send_queue, count>>
          /\ writes' = {} /\ job' = [job EXCEPT ![t] = {w}] /\ job[t] = {}
      BY <1>1 DEF Dispatch, LoadCount, TokenInv
    <2>2. w.ec # "handled" /\ \A s \in IoThreads : Handling(s) = {}
      BY DEF TokenInv
    <2>3. /\ \A s \in IoThreads : s # t => Handling(s)' = {} /\ job'[s] = job[s]
          /\ Handling(t)' = {w} /\ job'[t] = {w}
      BY <2>1, <2>2 DEF Handling, TypeOK
    <2> QED
      BY <2>1, <2>2, <2>3
      DEF WritesInv, TokenInv, FirstInv, IsFirst, QueueInv, DeleteInv, Closed
  <1>2. CASE Enter(t) \/ CallBack(t)
    <2>1. UNCHANGED <<writes, job, held, moved, deleted, send_queue>>
      BY <1>2 DEF Enter, CallBack, sendVars
    <2>2. Closed => Closed'
      BY <1>n, ClosedStays
    <2> QED
      BY <2>1, <2>2
      DEF WritesInv, TokenInv, FirstInv, IsFirst, QueueInv, DeleteInv, Handling
  <1>3. CASE TurnedAway(t) \/ Leave(t)
    <2>1. UNCHANGED <<writes, held, moved, deleted, send_queue>>
          /\ job' = [job EXCEPT ![t] = {}]
      BY <1>3 DEF TurnedAway, Leave
    <2>2. /\ \A s \in IoThreads : s # t => Handling(s)' = Handling(s) /\ job'[s] = job[s]
          /\ Handling(t)' = {} /\ job'[t] = {}
      BY <2>1 DEF Handling, TypeOK
    <2>3. Closed' \/ (Handling(t) = {} /\ ~Closed)
      <3>1. CASE TurnedAway(t)
        <4>1. expected[t] < 0
          <5>1. t \in Threads
            BY SendAssumption
          <5>2. expected[t] \in Int
            BY <5>1 DEF RunnerInv, RunnerTypeOK
          <5> QED
            BY <3>1, <5>2 DEF TurnedAway, Refuse, Admits
        <4> QED
          BY <4>1, <1>n, ClosedStays DEF JobsInv
      <3>2. CASE Leave(t)
        <4>1. ~Closed
          BY <3>2, Leaving, SendAssumption DEF Leave
        <4> QED
          BY <3>2, <4>1 DEF Leave, Handling, JobsInv
      <3> QED
        BY <1>3, <3>1, <3>2
    <2> QED
      BY <2>1, <2>2, <2>3
      DEF WritesInv, TokenInv, FirstInv, IsFirst, QueueInv, DeleteInv
  <1>4. ASSUME NEW w \in job[t],
               ChunkWritten(t, w) \/ ChunkFailed(t, w) \/ LastWritten(t, w)
        PROVE  WritesInv'
    <2>1. Handles(t, w) /\ job' = [job EXCEPT ![t] = {Handled(w)}]
          /\ UNCHANGED <<held, moved, deleted, count>>
      BY <1>4 DEF ChunkWritten, ChunkFailed, LastWritten, runnerVars
    <2>2. /\ Handled(w).id = w.id /\ Handled(w).ec = "handled"
          /\ writes = {} /\ \A s \in IoThreads : s # t => Handling(s) = {}
          /\ w.id # 0 => send_queue # <<>>
      BY <2>1, Current
    <2>3. \A s \in IoThreads : Handling(s)' = {}
      BY <2>1, <2>2 DEF Handling, TypeOK
    <2>4. \A s \in IoThreads : \A v \in job'[s] : v.id = 0 <=> deleted
      BY <2>1, <2>2 DEF DeleteInv, TypeOK
    <2>5. CASE ChunkWritten(t, w)
      <3>1. send_queue' = Remaining /\ w.id # 0 /\ ~deleted
            /\ writes' = IF Remaining = <<>> THEN {}
                        ELSE {Started(Head(Remaining), chunks[Head(Remaining)])}
        BY <2>2, <2>5 DEF ChunkWritten, DeleteInv
      <3>2. Remaining # <<>> => Head(Remaining) # 0
        BY <2>2, <3>1, HeadTailProperties DEF Remaining, TypeOK
      <3>3. \A id, data : Started(id, data).id = id /\ Started(id, data).ec = "pending"
        BY DEF Started
      <3> QED
        BY <2>1, <2>3, <2>4, <3>1, <3>2, <3>3
        DEF WritesInv, TokenInv, FirstInv, IsFirst, QueueInv, DeleteInv
    <2>6. CASE ChunkFailed(t, w)
      BY <2>1, <2>2, <2>3, <2>4, <2>6
      DEF ChunkFailed, WritesInv, TokenInv, FirstInv, QueueInv, DeleteInv
    <2>7. CASE LastWritten(t, w)
      <3>1. send_queue' = send_queue /\ writes' = {} /\ deleted
        BY <2>2, <2>7 DEF LastWritten, DeleteInv
      <3>2. ~Closed => send_queue = <<>>
        BY <2>2, <3>1 DEF QueueInv, DeleteInv, Handling
      <3> QED
        BY <2>1, <2>3, <2>4, <3>1, <3>2
        DEF WritesInv, TokenInv, FirstInv, QueueInv, DeleteInv, Closed
    <2> QED
      BY <1>4, <2>5, <2>6, <2>7
  <1> QED
    BY <1>1, <1>2, <1>3, <1>4 DEF Handler

\* A new Response satisfies the invariant ...
LEMMA SendInvInit == Init => SendInv
  <1> SUFFICES ASSUME Init PROVE SendInv
    OBVIOUS
  <1>1. RunnerInv
    BY InitInv DEF Init
  <1>2. TypeOK
    <2>1. streambuf \in Seq(Numbers) /\ wire \in Seq(Numbers) /\ written \in 0 .. MaxWritten
          /\ chunks \in Seq(Seq(Numbers)) /\ Len(chunks) <= MaxSends
      BY SendAssumption DEF Init
    <2>2. job \in [IoThreads -> SUBSET Operation] /\ writes \subseteq Operation
      BY DEF Init
    <2>3. send_queue \in Seq(Ids \ {0}) /\ moved \subseteq Ids \ {0}
      BY DEF Init
    <2>4. heard \in Seq([id : Ids, ec : {"ok", "error"}])
          /\ todo \in [IoThreads -> Seq([id : Ids, ec : {"ok", "error"}])]
      BY DEF Init
    <2> QED
      BY <1>1, <2>1, <2>2, <2>3, <2>4 DEF Init, TypeOK, RunnerInv
  <1> QED
    BY <1>1, <1>2, SendAssumption
    DEF Init, RunnerInit, SendInv, SentInv, JobsInv, TokenInv, FirstInv, QueueInv, DeleteInv, Handling

\* ... every step of a thread or of the network preserves it ...
LEMMA SendInvStep == SendInv /\ [Next]_vars => SendInv'
  <1> SUFFICES ASSUME SendInv, [Next]_vars PROVE SendInv'
    OBVIOUS
  <1>1. CASE UNCHANGED vars
    <2>1. RunnerInv'
      BY RunnerStep, StepInv DEF SendInv
    <2>2. TypeOK' /\ SentInv'
      BY <1>1, <2>1 DEF vars, sendVars, SendInv, TypeOK, RunnerInv, SentInv
    <2>3. JobsInv'
      BY <1>1 DEF vars, runnerVars, sendVars, SendInv, JobsInv, Closed
    <2>4. WritesInv'
      BY <1>1 DEF vars, runnerVars, sendVars, SendInv, WritesInv, TokenInv, FirstInv, IsFirst,
                  QueueInv, DeleteInv, Handling, Closed
    <2> QED
      BY <2>1, <2>2, <2>3, <2>4 DEF SendInv, WritesInv
  <1>2. CASE Next
    <2>1. TypeOK' /\ SentInv' /\ JobsInv'
      BY <1>2, SendTypeStep, JobsStep
    <2>2. RunnerInv'
      BY RunnerStep, StepInv DEF SendInv
    <2>3. WritesInv'
      <3>1. CASE Destroy
        <4>1. Closed => Closed'
          BY <1>2, ClosedStays DEF SendInv
        <4> QED
          BY <3>1, <4>1 DEF Destroy, sendVars, SendInv, WritesInv, TokenInv, FirstInv, IsFirst,
                            QueueInv, DeleteInv, Handling
      <3> QED
        BY <1>2, <3>1, ApplicationStep, NetworkStep, HandlerStep DEF Next
    <2> QED
      BY <2>1, <2>2, <2>3 DEF SendInv, WritesInv
  <1> QED
    BY <1>1, <1>2

\* ... and it holds of every Response at any time: from it the next three follow.
THEOREM SendInvAlways == Spec => []SendInv
  BY SendInvInit, SendInvStep, PTL DEF Spec

\* Whatever the threads, the application and the network do, every variable has
\* its type ...
THEOREM TypeIsAlwaysOK == Spec => []TypeOK
  <1>1. SendInv => TypeOK
    BY DEF SendInv
  <1> QED
    BY <1>1, SendInvAlways, PTL

\* ... no two writes of the Response are on the socket at once ...
THEOREM WritesAlternate == Spec => []OneWriteAtATime
  <1>1. SendInv => OneWriteAtATime
    <2> SUFFICES ASSUME SendInv PROVE OneWriteAtATime
      OBVIOUS
    <2> DEFINE P == {w \in writes : w.ec = "pending"}
    <2>1. \A v, w \in P : v = w
      BY DEF SendInv, TokenInv
    <2>2. CASE P = {}
      BY <2>2, FS_EmptySet DEF OneWriteAtATime
    <2>3. CASE P # {}
      <3>1. PICK w : P = {w}
        BY <2>1, <2>3
      <3>2. Cardinality({w}) = 1
        BY FS_Singleton
      <3> QED
        BY <3>1, <3>2 DEF OneWriteAtATime
    <2> QED
      BY <2>2, <2>3
  <1> QED
    BY <1>1, SendInvAlways, PTL

\* ... and the deleter sends the rest when the queue has gone out, unless the
\* server has been destroyed.
THEOREM RestAlwaysLast == Spec => []RestGoesLast
  <1>1. SendInv => RestGoesLast
    BY DEF SendInv, QueueInv, DeleteInv, RestGoesLast, Handling
  <1> QED
    BY <1>1, SendInvAlways, PTL
-----------------------------------------------------------------------------
(* What the callbacks are told, and what the wire gets *)

\* What is known of an operation under way.
LEMMA TokenFacts ==
  ASSUME SendInv, OrderInv
  PROVE  /\ Len(chunks) \in Nat /\ Len(send_queue) \in Nat /\ Queued \in Nat
         /\ DOMAIN chunks = 1 .. Len(chunks) /\ DOMAIN send_queue = 1 .. Len(send_queue)
         /\ Queued <= Len(chunks) /\ Len(send_queue) <= Queued
         /\ moved # {} => moved = {Len(chunks)} /\ Queued = Len(chunks) - 1 /\ Queued >= 0
         /\ \A v, w \in Tokens : v = w
         /\ \A w \in Tokens :
              /\ w \in Operation /\ w.ec \in {"pending", "ok", "error"}
              /\ w.id = 0 <=> deleted
              /\ w.id # 0 => /\ send_queue # <<>> /\ w.id = Head(send_queue)
                             /\ w.id = Queued - Len(send_queue) + 1
                             /\ w.id \in DOMAIN chunks
  <1> USE DEF SendInv
  <1>1. /\ Len(chunks) \in Nat /\ Len(send_queue) \in Nat
        /\ DOMAIN chunks = 1 .. Len(chunks) /\ DOMAIN send_queue = 1 .. Len(send_queue)
    BY LenProperties DEF TypeOK
  <1>2. moved # {} => moved = {Len(chunks)} /\ Len(chunks) # 0
    BY <1>1 DEF OrderInv, SentInv
  <1>3. Queued \in Nat /\ Queued <= Len(chunks)
        /\ (moved # {} => Queued = Len(chunks) - 1)
    <2>1. CASE moved = {}
      BY <1>1, <2>1 DEF Queued
    <2>2. CASE moved # {}
      <3>1. Queued = Len(chunks) - 1
        BY <2>2 DEF Queued
      <3> QED
        BY <1>1, <1>2, <2>2, <3>1
    <2> QED
      BY <2>1, <2>2
  <1>4. Len(send_queue) <= Queued
    <2>1. CASE Len(send_queue) = 0
      BY <1>3, <2>1
    <2>2. CASE Len(send_queue) # 0
      <3>1. 1 \in DOMAIN send_queue
        BY <1>1, <2>2
      <3>2. send_queue[1] = Queued - Len(send_queue) + 1 /\ send_queue[1] \in 1 .. Len(chunks)
        BY <1>1, <3>1 DEF OrderInv, SentInv
      <3>3. Queued - Len(send_queue) + 1 \in 1 .. Len(chunks)
        BY <3>2
      <3>4. ASSUME NEW q \in Nat, NEW n \in Nat, NEW m \in Nat, q - n + 1 \in 1 .. m PROVE n <= q
        BY <3>4
      <3> HIDE DEF SendInv
      <3> QED
        BY <1>1, <1>3, <3>3, <3>4
    <2> QED
      BY <2>1, <2>2
  <1>5. \A v, w \in Tokens : v = w
    <2>1. \A t \in IoThreads : \A v, w \in Handling(t) : v = w
      BY DEF JobsInv, Handling
    <2> QED
      BY <2>1 DEF Tokens, TokenInv
  <1>6. ASSUME NEW w \in Tokens
        PROVE  /\ w \in Operation /\ w.ec \in {"pending", "ok", "error"}
               /\ w.id = 0 <=> deleted
               /\ IsFirst(w)
    <2>1. w \in Operation /\ (w.id = 0 <=> deleted) /\ IsFirst(w) /\ w.ec # "handled"
      <3>1. CASE w \in writes
        BY <3>1 DEF TypeOK, DeleteInv, FirstInv, TokenInv
      <3>2. CASE w \notin writes
        <4>1. PICK t \in IoThreads : w \in Handling(t)
          BY <3>2 DEF Tokens
        <4> QED
          BY <4>1 DEF TypeOK, DeleteInv, FirstInv, Handling
      <3> QED
        BY <3>1, <3>2
    <2> QED
      BY <2>1, Operations
  <1>7. ASSUME send_queue # <<>>
        PROVE  /\ Head(send_queue) = Queued - Len(send_queue) + 1
               /\ Head(send_queue) \in DOMAIN chunks
    <2>1. 1 \in DOMAIN send_queue /\ Head(send_queue) = send_queue[1]
      BY <1>1, <1>7, HeadTailProperties, EmptySeq DEF TypeOK
    <2> QED
      BY <1>1, <2>1 DEF OrderInv, SentInv
  <1>8. moved # {} => moved = {Len(chunks)} /\ Queued = Len(chunks) - 1 /\ Queued >= 0
    BY <1>2, <1>3
  <1>9. \A w \in Tokens : w.id # 0 => /\ send_queue # <<>> /\ w.id = Head(send_queue)
                                     /\ w.id = Queued - Len(send_queue) + 1
                                     /\ w.id \in DOMAIN chunks
    BY <1>6, <1>7 DEF IsFirst
  <1> HIDE DEF SendInv
  <1> QED
    BY <1>1, <1>3, <1>4, <1>5, <1>6, <1>8, <1>9

\* An operation under way stays under way unless its handler runs or is turned away.
LEMMA TokensStay ==
  ASSUME SendInv, NEW t \in IoThreads,
         \/ \E w \in writes : Dispatch(t, w)
         \/ Enter(t) \/ CallBack(t) \/ Leave(t) \/ TurnedAway(t)
  PROVE  /\ Tokens' \subseteq Tokens
         /\ TurnedAway(t) \/ Tokens' = Tokens
         /\ UNCHANGED <<held, deleted, streambuf, moved, send_queue, broken, wire, written, chunks>>
  <1> USE DEF SendInv
  <1>1. ASSUME NEW w \in writes, Dispatch(t, w) PROVE Tokens' = Tokens
    <2>1. writes' = writes \ {w} /\ job' = [job EXCEPT ![t] = {w}] /\ job[t] = {}
          /\ job \in [IoThreads -> SUBSET Operation] /\ w.ec # "handled"
      BY <1>1 DEF Dispatch, TypeOK, TokenInv
    <2>2. Handling(t)' = {w} /\ Handling(t) = {}
          /\ \A s \in IoThreads : s # t => Handling(s)' = Handling(s)
      BY <2>1 DEF Handling
    <2> QED
      BY <2>1, <2>2 DEF Tokens
  <1>2. CASE Enter(t) \/ CallBack(t)
    BY <1>2 DEF Enter, CallBack, sendVars, Tokens, Handling
  <1>3. CASE Leave(t) \/ TurnedAway(t)
    <2>1. writes' = writes /\ job' = [job EXCEPT ![t] = {}]
          /\ job \in [IoThreads -> SUBSET Operation]
      BY <1>3 DEF Leave, TurnedAway, TypeOK
    <2>2. Handling(t)' = {} /\ \A s \in IoThreads : s # t => Handling(s)' = Handling(s)
      BY <2>1 DEF Handling
    <2>3. Leave(t) => Handling(t) = {}
      BY DEF Leave, Handling, JobsInv
    <2> QED
      BY <1>3, <2>1, <2>2, <2>3 DEF Tokens, Leave, TurnedAway
  <1> QED
    BY <1>1, <1>2, <1>3 DEF Dispatch, Enter, CallBack, Leave, TurnedAway, sendVars

\* The handler of an operation ends it, and may start the next.
LEMMA TokenPassed ==
  ASSUME SendInv, OrderInv, NEW t \in IoThreads, NEW w \in job[t],
         ChunkWritten(t, w) \/ ChunkFailed(t, w) \/ LastWritten(t, w)
  PROVE  /\ Tokens = {w} /\ Tokens' = writes'
         /\ UNCHANGED <<held, deleted, streambuf, moved, broken, wire, written, chunks, heard>>
         /\ w.id = 0 <=> LastWritten(t, w)
         /\ ~LastWritten(t, w) => (w.ec = "ok" <=> ChunkWritten(t, w))
         /\ ~ChunkWritten(t, w) => writes' = {}
  <1>1. Handles(t, w) /\ job' = [job EXCEPT ![t] = {Handled(w)}]
        /\ UNCHANGED <<held, deleted, streambuf, moved, broken, wire, written, chunks, heard>>
    BY DEF ChunkWritten, ChunkFailed, LastWritten
  <1>2. writes = {} /\ job[t] = {w} /\ Handled(w).ec = "handled" /\ w.ec \in {"ok", "error"}
        /\ \A s \in IoThreads : s # t => Handling(s) = {}
    BY <1>1, Current
  <1>3. w \in Handling(t) /\ w \in Tokens
    BY <1>2 DEF Handling, Tokens
  <1>4. Tokens = {w}
    BY <1>3, TokenFacts
  <1>5. job \in [IoThreads -> SUBSET Operation]
    BY DEF SendInv, TypeOK
  <1>6. \A s \in IoThreads : Handling(s)' = {}
    BY <1>1, <1>2, <1>5 DEF Handling
  <1>7. Tokens' = writes'
    BY <1>6 DEF Tokens
  <1> QED
    BY <1>1, <1>2, <1>4, <1>7 DEF ChunkWritten, ChunkFailed, LastWritten

\* Chunks are queued in the order in which they were sent.
LEMMA OrderStep ==
  ASSUME SendInv, OrderInv, Next
  PROVE  OrderInv'
  <1> DEFINE n == Len(send_queue)
             m == Len(chunks)
  <1>i. /\ n \in Nat /\ m \in Nat /\ Queued \in Nat /\ n <= Queued
        /\ DOMAIN send_queue = 1 .. n
        /\ moved # {} => moved = {m} /\ Queued = m - 1
        /\ send_queue \in Seq(Ids \ {0}) /\ chunks \in Seq(Seq(Numbers))
    BY TokenFacts DEF SendInv, TypeOK
  <1>1. CASE UNCHANGED <<moved, send_queue, chunks>>
    BY <1>1 DEF OrderInv, Queued
  <1>2. CASE SendMove
    <2>1. /\ moved = {} /\ moved' = {m + 1} /\ Len(chunks') = m + 1 /\ send_queue' = send_queue
      BY <1>2, <1>i DEF SendMove, TypeOK
    <2>2. Queued = m /\ Queued' = m
      BY <1>i, <2>1 DEF Queued
    <2> QED
      BY <2>1, <2>2 DEF OrderInv
  <1>3. ASSUME NEW id \in moved, Enqueue(id) PROVE OrderInv'
    <2>1. /\ id = m /\ id \in Ids \ {0} /\ moved' = {} /\ chunks' = chunks
          /\ send_queue' = Append(send_queue, id)
      BY <1>3, <1>i DEF Enqueue, SendInv, TypeOK
    <2>2. Queued' = m /\ Queued = m - 1
      BY <1>i, <2>1 DEF Queued
    <2>3. /\ Len(send_queue') = n + 1 /\ DOMAIN send_queue' = 1 .. n + 1
          /\ \A i \in 1 .. n : send_queue'[i] = send_queue[i]
          /\ send_queue'[n + 1] = m
      BY <1>i, <2>1, AppendProperties
    <2>4. ASSUME NEW i \in 1 .. n + 1 PROVE send_queue'[i] = m - (n + 1) + i
      <3>1. CASE i = n + 1
        BY <1>i, <2>3, <3>1
      <3>2. CASE i # n + 1
        <4>1. i \in 1 .. n
          BY <1>i, <3>2
        <4>2. send_queue[i] = Queued - n + i
          BY <1>i, <4>1 DEF OrderInv
        <4> HIDE DEF n, m
        <4> QED
          BY <1>i, <2>2, <2>3, <4>1, <4>2
      <3> QED
        BY <3>1, <3>2
    <2> QED
      BY <2>1, <2>2, <2>3, <2>4 DEF OrderInv
  <1>4. ASSUME NEW t \in IoThreads, NEW w \in job[t],
               ChunkWritten(t, w) \/ ChunkFailed(t, w) \/ LastWritten(t, w)
        PROVE  OrderInv'
    <2>1. UNCHANGED <<moved, chunks>> /\ Queued' = Queued
      BY <1>4 DEF ChunkWritten, ChunkFailed, LastWritten, Queued
    <2>2. CASE ChunkWritten(t, w)
      <3>1. send_queue # <<>> /\ send_queue' = Tail(send_queue)
        BY <2>2, Current DEF ChunkWritten, Remaining
      <3>2. /\ Len(send_queue') = n - 1 /\ DOMAIN send_queue' = 1 .. n - 1
            /\ \A i \in 1 .. n - 1 : send_queue'[i] = send_queue[i + 1]
        BY <1>i, <3>1, HeadTailProperties
      <3>3. ASSUME NEW i \in 1 .. n - 1 PROVE send_queue'[i] = Queued - (n - 1) + i
        <4>1. i + 1 \in 1 .. n
          BY <1>i
        <4>2. send_queue[i + 1] = Queued - n + (i + 1)
          BY <1>i, <4>1 DEF OrderInv
        <4> HIDE DEF n
        <4> QED
          BY <1>i, <3>2, <4>2
      <3> QED
        BY <2>1, <3>2, <3>3 DEF OrderInv
    <2>3. CASE ChunkFailed(t, w)
      BY <2>1, <2>3 DEF ChunkFailed, OrderInv
    <2>4. CASE LastWritten(t, w)
      BY <1>1, <2>4 DEF LastWritten
    <2> QED
      BY <1>4, <2>2, <2>3, <2>4
  <1>5. ASSUME NEW t \in IoThreads,
               \/ \E w \in writes : Dispatch(t, w)
               \/ Enter(t) \/ CallBack(t) \/ Leave(t) \/ TurnedAway(t)
        PROVE  OrderInv'
    BY <1>1, <1>5, TokensStay
  <1>6. CASE Write \/ LetGo \/ Delete \/ Network \/ Destroy
    BY <1>1, <1>6 DEF Write, LetGo, Delete, Network, Break, Transmit, Fail, Destroy, sendVars
  <1> QED
    BY <1>2, <1>3, <1>4, <1>5, <1>6 DEF Next, Application, Handler

\* What has left the queue does not come back.
LEMMA LeftStays ==
  ASSUME SendInv, OrderInv, Next, NEW id \in Ids, HasLeft(id)
  PROVE  HasLeft(id)'
  <1> DEFINE n == Len(send_queue)
             m == Len(chunks)
  <1>i. /\ n \in Nat /\ m \in Nat /\ Queued \in Nat /\ n <= Queued
        /\ moved # {} => moved = {m} /\ Queued = m - 1
        /\ send_queue \in Seq(Ids \ {0}) /\ chunks \in Seq(Seq(Numbers))
        /\ deleted => ~held /\ moved = {}
        /\ id \in Int
    <2>1. id \in Int
      BY SendAssumption DEF Ids
    <2>2. /\ send_queue \in Seq(Ids \ {0}) /\ chunks \in Seq(Seq(Numbers))
          /\ deleted => ~held /\ moved = {}
      BY DEF SendInv, TypeOK, DeleteInv
    <2> QED
      BY <2>1, <2>2, TokenFacts
  <1> DEFINE More == /\ deleted' = deleted /\ (deleted => Tokens' \subseteq Tokens)
                     /\ Queued - n <= Queued' - Len(send_queue)' /\ (Queued - Len(send_queue))' \in Int
  <1>m. ASSUME More PROVE HasLeft(id)'
    <2>1. CASE id = 0
      BY <1>m, <2>1 DEF HasLeft
    <2>2. CASE id # 0
      BY <1>m, <1>i, <2>2 DEF HasLeft
    <2> QED
      BY <2>1, <2>2
  <1>1. CASE UNCHANGED <<deleted, writes, job, moved, send_queue, chunks>>
    BY <1>1, <1>i, <1>m DEF Queued, Tokens, Handling
  <1>2. CASE SendMove
    <2>1. /\ moved = {} /\ moved' = {m + 1} /\ Len(chunks') = m + 1 /\ send_queue' = send_queue
          /\ deleted' = deleted /\ held
      BY <1>2, <1>i DEF SendMove, TypeOK
    <2>2. Queued = m /\ Queued' = m
      BY <1>i, <2>1 DEF Queued
    <2> QED
      BY <1>i, <1>m, <2>1, <2>2
  <1>3. ASSUME NEW i \in moved, Enqueue(i) PROVE HasLeft(id)'
    <2>1. /\ i \in Ids \ {0} /\ moved' = {} /\ chunks' = chunks
          /\ send_queue' = Append(send_queue, i) /\ deleted' = deleted /\ ~deleted
      BY <1>3, <1>i DEF Enqueue, SendInv, TypeOK
    <2>2. Queued' = Queued + 1
      BY <1>i, <2>1 DEF Queued
    <2>3. Len(send_queue') = n + 1
      BY <1>i, <2>1, AppendProperties
    <2> QED
      BY <1>i, <1>m, <2>1, <2>2, <2>3
  <1>4. ASSUME NEW t \in IoThreads, NEW w \in job[t],
               ChunkWritten(t, w) \/ ChunkFailed(t, w) \/ LastWritten(t, w)
        PROVE  HasLeft(id)'
    <2>1. /\ Queued' = Queued /\ deleted' = deleted
          /\ Tokens = {w} /\ Tokens' = writes'
          /\ w.id = 0 <=> LastWritten(t, w)
          /\ ~ChunkWritten(t, w) => writes' = {}
      BY <1>4, TokenPassed DEF Queued
    <2>2. w.id = 0 <=> deleted
      BY <2>1, TokenFacts
    <2>3. CASE ChunkWritten(t, w)
      <3>1. send_queue # <<>> /\ send_queue' = Tail(send_queue)
        BY <2>3, Current DEF ChunkWritten, Remaining
      <3>2. Len(send_queue') = n - 1
        BY <1>i, <3>1, HeadTailProperties
      <3>3. ~deleted
        BY <2>2, <2>3 DEF ChunkWritten
      <3> QED
        BY <1>i, <1>m, <2>1, <3>2, <3>3
    <2>4. CASE ChunkFailed(t, w)
      <3>1. Len(send_queue') = 0 /\ Tokens' = {}
        BY <2>1, <2>4, <2>2 DEF ChunkFailed, ChunkWritten, LastWritten
      <3> QED
        BY <1>i, <1>m, <2>1, <3>1
    <2>5. CASE LastWritten(t, w)
      <3>1. send_queue' = send_queue /\ Tokens' = {}
        BY <2>1, <2>5, <2>2 DEF LastWritten, ChunkWritten
      <3> QED
        BY <1>i, <1>m, <2>1, <3>1
    <2> QED
      BY <1>4, <2>3, <2>4, <2>5
  <1>5. ASSUME NEW t \in IoThreads,
               \/ \E w \in writes : Dispatch(t, w)
               \/ Enter(t) \/ CallBack(t) \/ Leave(t) \/ TurnedAway(t)
        PROVE  HasLeft(id)'
    <2>1. Tokens' \subseteq Tokens /\ UNCHANGED <<deleted, moved, chunks, send_queue>>
      BY <1>5, TokensStay
    <2> QED
      BY <1>i, <1>m, <2>1 DEF Queued
  <1>6. CASE Write \/ LetGo \/ Break \/ Destroy
    BY <1>1, <1>6 DEF Write, LetGo, Break, Destroy, sendVars
  <1>7. CASE Delete
    <2>1. ~deleted /\ UNCHANGED <<moved, chunks, send_queue>>
      BY <1>7 DEF Delete
    <2> QED
      BY <2>1, <1>i DEF HasLeft, Queued
  <1>8. ASSUME NEW w \in writes, Transmit(w) \/ Fail(w) PROVE HasLeft(id)'
    <2>1. Tokens # {} /\ UNCHANGED <<moved, chunks, send_queue>>
      BY <1>8 DEF Transmit, Fail, Tokens
    <2> QED
      BY <2>1, <1>i DEF HasLeft, Queued
  <1> QED
    BY <1>2, <1>3, <1>4, <1>5, <1>6, <1>7, <1>8 DEF Next, Application, Handler, Network

\* Callbacks are called for chunks that have left the queue, and once for each.
LEMMA OnceStep ==
  ASSUME SendInv, OrderInv, OnceInv, Next
  PROVE  OnceInv'
  <1> DEFINE Call == [id : Ids, ec : {"ok", "error"}]
             n == Len(send_queue)
             Left == {id \in Ids : HasLeft(id)}
             Distinct(calls) == \A i, j \in DOMAIN calls : calls[i].id = calls[j].id => i = j
             AllLeft(calls) == \A i \in DOMAIN calls : calls[i].id \in Left'
  <1>i. /\ heard \in Seq(Call) /\ todo \in [IoThreads -> Seq(Call)]
        /\ send_queue \in Seq(Ids \ {0}) /\ DOMAIN send_queue = 1 .. n
        /\ n \in Nat /\ Queued \in Nat /\ n <= Queued
    BY TokenFacts DEF SendInv, TypeOK
  <1>d. \A id : id \in Left' <=>
          id \in Ids /\ IF id = 0 THEN (deleted /\ Tokens = {})' ELSE id \in 1 .. (Queued - n)'
    BY DEF HasLeft
  <1>l. \A id \in Ids : HasLeft(id) => id \in Left'
    BY LeftStays
  <1>h. /\ AllLeft(heard) /\ Distinct(heard)
        /\ \A t \in IoThreads : AllLeft(todo[t]) /\ Distinct(todo[t])
    <2>0. ASSUME NEW calls \in Seq(Call), NEW i \in DOMAIN calls
          PROVE  calls[i] \in Call /\ calls[i].id \in Ids
      <3>1. calls[i] \in Call
        <4> HIDE DEF Call
        <4> QED
          BY <2>0, ElementOfSeq, LenProperties
      <3> QED
        BY <3>1
    <2>1. \A i \in DOMAIN heard : heard[i].id \in Ids
      BY <1>i, <2>0
    <2>2. ASSUME NEW t \in IoThreads, NEW i \in DOMAIN todo[t] PROVE todo[t][i].id \in Ids
      <3>1. todo[t] \in Seq(Call)
        <4> HIDE DEF Call
        <4> QED
          BY <1>i
      <3> HIDE DEF Call
      <3> QED
        BY <3>1, <2>2, <2>0
    <2> HIDE DEF Left
    <2> QED
      BY <1>l, <2>1, <2>2 DEF OnceInv, Once
  <1>a. /\ \A t \in IoThreads : Apart(todo[t], heard)
        /\ \A s, t \in IoThreads : s # t => Apart(todo[s], todo[t])
    BY DEF OnceInv
  <1>p. ASSUME AllLeft(heard'), Distinct(heard'),
               \A t \in IoThreads : AllLeft(todo'[t]) /\ Distinct(todo'[t]) /\ Apart(todo'[t], heard'),
               \A s, t \in IoThreads : s # t => Apart(todo'[s], todo'[t])
        PROVE  OnceInv'
    <2>1. Once(heard)' /\ \A t \in IoThreads : Once(todo[t])'
      BY <1>p, <1>d DEF Once, HasLeft
    <2> QED
      BY <1>p, <2>1 DEF OnceInv, Apart
  <1> HIDE DEF Left
  <1>1. CASE UNCHANGED <<heard, todo>>
    BY <1>1, <1>h, <1>a, <1>p
  <1>2. ASSUME NEW t \in IoThreads, NEW calls,
               heard' = heard, todo' = [todo EXCEPT ![t] = calls],
               \A i \in DOMAIN calls : calls[i].id \in Ids /\ ~HasLeft(calls[i].id),
               AllLeft(calls), Distinct(calls)
        PROVE  OnceInv'
    <2>1. \A s \in IoThreads : todo'[s] = IF s = t THEN calls ELSE todo[s]
      BY <1>i, <1>2
    <2>2. /\ Apart(calls, heard)
          /\ \A s \in IoThreads : Apart(calls, todo[s]) /\ Apart(todo[s], calls)
      BY <1>2 DEF OnceInv, Once, Apart
    <2> QED
      BY <1>2, <1>h, <1>a, <1>p, <2>1, <2>2
  <1>3. ASSUME NEW t \in IoThreads, NEW w \in job[t],
               ChunkWritten(t, w) \/ ChunkFailed(t, w) \/ LastWritten(t, w)
        PROVE  OnceInv'
    <2>1. /\ Handles(t, w) /\ heard' = heard
          /\ Tokens = {w} /\ Tokens' = writes' /\ deleted' = deleted /\ Queued' = Queued
          /\ ~ChunkWritten(t, w) => writes' = {}
      BY <1>3, TokenPassed DEF ChunkWritten, ChunkFailed, LastWritten, Queued
    <2>2. CASE ChunkWritten(t, w)
      <3> DEFINE q == Head(send_queue)
                 calls == Calls(<<q>>, "ok")
      <3>1. send_queue # <<>> /\ w.id # 0 /\ w.id = q /\ send_queue' = Tail(send_queue)
            /\ todo' = [todo EXCEPT ![t] = calls]
        BY <2>1, <2>2, Current DEF ChunkWritten, Remaining
      <3>2. q = Queued - n + 1 /\ q # 0 /\ q \in Ids
        BY <3>1, <2>1, <1>i, TokenFacts, HeadTailProperties
      <3>3. Len(send_queue') = n - 1
        BY <1>i, <3>1, HeadTailProperties
      <3>4. q \notin 1 .. Queued - n /\ q \in 1 .. Queued - (n - 1)
        <4> HIDE DEF n, q
        <4> QED
          BY <1>i, <3>2
      <3>5. ~HasLeft(q) /\ q \in Left'
        <4> HIDE DEF q
        <4> QED
          BY <1>d, <2>1, <3>2, <3>3, <3>4 DEF HasLeft
      <3>6. DOMAIN calls = {1} /\ calls[1].id = q
        BY DEF Calls
      <3> HIDE DEF calls, q
      <3> QED
        BY <1>2, <2>1, <3>1, <3>2, <3>5, <3>6
    <2>3. CASE ChunkFailed(t, w)
      <3> DEFINE calls == Calls(send_queue, "error")
      <3>1. send_queue' = <<>> /\ todo' = [todo EXCEPT ![t] = calls]
        BY <2>3 DEF ChunkFailed, Dropped
      <3>2. DOMAIN calls = 1 .. n /\ \A i \in 1 .. n : calls[i].id = send_queue[i]
        BY <1>i DEF Calls
      <3>3. ASSUME NEW i \in 1 .. n
            PROVE  /\ calls[i].id = Queued - n + i /\ calls[i].id \in Ids
                   /\ ~HasLeft(calls[i].id) /\ calls[i].id \in Left'
        <4>1. calls[i].id = Queued - n + i /\ calls[i].id \in Ids \ {0}
          <5>1. send_queue[i] \in Ids \ {0}
            BY <1>i, ElementOfSeq
          <5>2. send_queue[i] = Queued - n + i
            BY <1>i DEF OrderInv
          <5> HIDE DEF calls, n
          <5> QED
            BY <3>2, <5>1, <5>2
        <4>2. Len(send_queue') = 0
          BY <3>1
        <4> HIDE DEF calls
        <4>3. Queued - n + i \in 1 .. Queued - 0 /\ Queued - n + i \notin 1 .. Queued - n
          <5> HIDE DEF n
          <5> QED
            BY <1>i
        <4> QED
          BY <1>d, <2>1, <4>1, <4>2, <4>3 DEF HasLeft
      <3>4. \A i, j \in 1 .. n : Queued - n + i = Queued - n + j => i = j
        BY <1>i
      <3> HIDE DEF calls
      <3>5. Distinct(calls)
        BY <3>2, <3>3, <3>4
      <3> QED
        BY <1>2, <2>1, <3>1, <3>2, <3>3, <3>5
    <2>4. CASE LastWritten(t, w)
      <3> DEFINE calls == Calls(<<0>>, w.ec)
      <3>1. todo' = [todo EXCEPT ![t] = calls] /\ writes' = {}
        BY <2>1, <2>4, TokenFacts DEF LastWritten, ChunkWritten
      <3>2. deleted
        BY <2>1, <2>4, TokenFacts DEF LastWritten
      <3>3. 0 \in Ids /\ ~HasLeft(0) /\ 0 \in Left'
        <4>1. 0 \in Ids
          BY SendAssumption DEF Ids
        <4> QED
          BY <4>1, <1>d, <2>1, <3>1, <3>2 DEF HasLeft
      <3>4. DOMAIN calls = {1} /\ calls[1].id = 0
        BY DEF Calls
      <3> HIDE DEF calls
      <3> QED
        BY <1>2, <2>1, <3>1, <3>3, <3>4
    <2> QED
      BY <1>3, <2>2, <2>3, <2>4
  <1>4. ASSUME NEW t \in IoThreads, CallBack(t) PROVE OnceInv'
    <2> DEFINE q == todo[t]
               m == Len(q)
               k == Len(heard)
               r == Tail(q)
    <2>1. /\ q \in Seq(Call) /\ q # <<>> /\ m \in Nat \ {0} /\ DOMAIN q = 1 .. m
          /\ k \in Nat /\ DOMAIN heard = 1 .. k
          /\ heard' = Append(heard, Head(q)) /\ todo' = [todo EXCEPT ![t] = r]
      BY <1>4, <1>i, EmptySeq, LenProperties DEF CallBack
    <2>2. /\ Head(q) = q[1]
          /\ DOMAIN r = 1 .. m - 1 /\ \A i \in 1 .. m - 1 : r[i] = q[i + 1]
      BY <2>1, HeadTailProperties
    <2>3. /\ DOMAIN heard' = 1 .. k + 1 /\ heard'[k + 1] = q[1]
          /\ \A i \in 1 .. k : heard'[i] = heard[i]
      BY <1>i, <2>1, <2>2, AppendProperties
    <2>4. \A s \in IoThreads : todo'[s] = IF s = t THEN r ELSE todo[s]
      BY <1>i, <2>1
    <2>5. /\ 1 \in 1 .. m /\ \A i \in 1 .. m - 1 : i + 1 \in 1 .. m /\ i + 1 # 1
          /\ \A j \in 1 .. k + 1 : j = k + 1 \/ j \in 1 .. k
      BY <2>1
    <2>6. AllLeft(q) /\ Distinct(q) /\ Apart(q, heard)
      BY <1>h, <1>a
    <2>7. \A i, j \in 1 .. m - 1 : i + 1 = j + 1 => i = j
      BY <2>1
    <2> HIDE DEF m, k, r
    <2>8. AllLeft(r) /\ Distinct(r)
      <3> HIDE DEF q
      <3>1. ASSUME NEW i \in 1 .. m - 1 PROVE r[i] = q[i + 1] /\ i + 1 \in DOMAIN q
        BY <2>1, <2>2, <2>5
      <3>2. \A i \in 1 .. m - 1 : r[i].id \in Left'
        BY <2>6, <3>1
      <3>3. \A i, j \in 1 .. m - 1 : r[i].id = r[j].id => i + 1 = j + 1
        BY <2>6, <3>1
      <3> QED
        BY <2>2, <2>7, <3>2, <3>3
    <2>9. AllLeft(heard') /\ Distinct(heard')
      <3> HIDE DEF q
      <3> QED
        BY <1>h, <2>1, <2>3, <2>5, <2>6 DEF Apart
    <2>10. ASSUME NEW s \in IoThreads, s # t
           PROVE  Apart(todo[s], heard') /\ Apart(todo[s], r) /\ Apart(r, todo[s])
      <3>1. Apart(todo[s], heard) /\ Apart(todo[s], q) /\ Apart(q, todo[s])
        BY <1>a, <2>10
      <3> HIDE DEF q
      <3>2. \A i \in 1 .. m - 1 : r[i] = q[i + 1] /\ i + 1 \in DOMAIN q
        BY <2>1, <2>2, <2>5
      <3>3. heard'[k + 1] = q[1] /\ 1 \in DOMAIN q
        BY <2>1, <2>3, <2>5
      <3>4. Apart(todo[s], r) /\ Apart(r, todo[s])
        BY <2>2, <3>1, <3>2 DEF Apart
      <3>5. ASSUME NEW i \in DOMAIN todo[s], NEW j \in 1 .. k + 1 PROVE todo[s][i].id # heard'[j].id
        <4>1. CASE j = k + 1
          BY <3>1, <3>3, <4>1 DEF Apart
        <4>2. CASE j \in 1 .. k
          BY <2>1, <2>3, <3>1, <4>2 DEF Apart
        <4> QED
          BY <2>5, <4>1, <4>2
      <3> QED
        BY <2>3, <3>4, <3>5 DEF Apart
    <2>11. Apart(r, heard')
      <3> HIDE DEF q
      <3>1. ASSUME NEW i \in 1 .. m - 1, NEW j \in 1 .. k + 1 PROVE r[i].id # heard'[j].id
        <4>1. r[i] = q[i + 1] /\ i + 1 \in DOMAIN q /\ i + 1 # 1 /\ 1 \in DOMAIN q
          BY <2>1, <2>2, <2>5
        <4>2. CASE j = k + 1
          <5>1. heard'[j] = q[1]
            BY <2>3, <4>2
          <5>2. r[i].id # q[1].id
            BY <2>6, <4>1
          <5> QED
            BY <5>1, <5>2
        <4>3. CASE j \in 1 .. k
          <5>1. Apart(q, heard)
            BY <2>6
          <5>2. heard'[j] = heard[j] /\ j \in DOMAIN heard
            BY <2>1, <2>3, <4>3
          <5> QED
            BY <4>1, <5>1, <5>2 DEF Apart
        <4> QED
          BY <2>5, <4>2, <4>3
      <3> QED
        BY <2>2, <2>3, <3>1 DEF Apart
    <2> HIDE DEF q
    <2>12. \A s \in IoThreads : AllLeft(todo'[s]) /\ Distinct(todo'[s]) /\ Apart(todo'[s], heard')
      BY <1>h, <2>4, <2>8, <2>10, <2>11
    <2>13. \A s, u \in IoThreads : s # u => Apart(todo'[s], todo'[u])
      BY <1>a, <2>4, <2>10
    <2> QED
      BY <1>p, <2>9, <2>12, <2>13
  <1>5. CASE Application \/ Delete \/ Network \/ Destroy
    BY <1>1, <1>5 DEF Application, Write, SendMove, Enqueue, LetGo, Delete,
                      Network, Break, Transmit, Fail, Destroy, sendVars
  <1>6. ASSUME NEW t \in IoThreads,
               (\E w \in writes : Dispatch(t, w)) \/ Enter(t) \/ TurnedAway(t) \/ Leave(t)
        PROVE  OnceInv'
    BY <1>1, <1>6 DEF Dispatch, Enter, TurnedAway, Leave, sendVars
  <1> QED
    BY <1>3, <1>4, <1>5, <1>6 DEF Next, Handler

\* What is sent, and what has been written to the socket, stays as it is.
LEMMA NothingTakenBack ==
  ASSUME SendInv, Next
  PROVE  /\ \A id \in DOMAIN chunks : id \in DOMAIN chunks' /\ chunks'[id] = chunks[id]
         /\ \A j \in DOMAIN wire : j \in DOMAIN wire' /\ wire'[j] = wire[j]
  <1>i. chunks \in Seq(Seq(Numbers)) /\ wire \in Seq(Numbers) /\ streambuf \in Seq(Numbers)
        /\ DOMAIN chunks = 1 .. Len(chunks) /\ DOMAIN wire = 1 .. Len(wire)
        /\ Len(chunks) \in Nat /\ Len(wire) \in Nat
    BY LenProperties DEF SendInv, TypeOK
  <1>1. CASE SendMove
    <2>1. chunks' = Append(chunks, streambuf) /\ wire' = wire
      BY <1>1 DEF SendMove
    <2>2. DOMAIN chunks' = 1 .. Len(chunks) + 1
          /\ \A id \in 1 .. Len(chunks) : chunks'[id] = chunks[id]
      BY <1>i, <2>1, AppendProperties
    <2> QED
      BY <1>i, <2>1, <2>2
  <1>2. ASSUME NEW w \in writes, Transmit(w) \/ Fail(w)
        PROVE  /\ chunks' = chunks
               /\ \A j \in DOMAIN wire : j \in DOMAIN wire' /\ wire'[j] = wire[j]
    <2>1. w.data \in Seq(Numbers)
      BY Operations DEF SendInv, TypeOK
    <2>2. PICK d \in Seq(Numbers) : wire' = wire \o d
      <3>1. CASE Transmit(w)
        BY <2>1, <3>1 DEF Transmit
      <3>2. CASE Fail(w)
        <4>1. PICK n \in 0 .. Len(w.data) : wire' = wire \o SubSeq(w.data, 1, n)
          BY <3>2 DEF Fail
        <4>2. SubSeq(w.data, 1, n) \in Seq(Numbers)
          BY <2>1, <4>1, SubSeqProperties
        <4> QED
          BY <4>1, <4>2
      <3> QED
        BY <1>2, <3>1, <3>2
    <2>3. /\ DOMAIN wire' = 1 .. Len(wire) + Len(d) /\ Len(d) \in Nat
          /\ \A j \in 1 .. Len(wire) : wire'[j] = wire[j]
      BY <1>i, <2>2, ConcatProperties, LenProperties
    <2> QED
      BY <1>i, <1>2, <2>3 DEF Transmit, Fail
  <1>3. CASE UNCHANGED <<chunks, wire>>
    BY <1>3
  <1>4. CASE Write \/ LetGo \/ Delete \/ Break \/ Destroy \/ \E id \in moved : Enqueue(id)
    BY <1>3, <1>4 DEF Write, LetGo, Delete, Break, Destroy, Enqueue, sendVars
  <1>5. ASSUME NEW t \in IoThreads, Handler(t) PROVE UNCHANGED <<chunks, wire>>
    BY <1>5 DEF Handler, Dispatch, Enter, TurnedAway, ChunkWritten, ChunkFailed, LastWritten,
                CallBack, Leave, sendVars
  <1> QED
    BY <1>1, <1>2, <1>3, <1>4, <1>5 DEF Next, Application, Network

\* An operation that ends well has put its data on the wire.
LEMMA TruthStep ==
  ASSUME SendInv, OrderInv, OnceInv, TruthInv, Next
  PROVE  TruthInv'
  <1> DEFINE Call == [id : Ids, ec : {"ok", "error"}]
             Out == {id \in DOMAIN chunks : IsOut(id)}
             Fair(calls) == \A i \in DOMAIN calls : calls[i].ec = "ok" /\ calls[i].id # 0 => calls[i].id \in Out'
  <1>i. /\ heard \in Seq(Call) /\ todo \in [IoThreads -> Seq(Call)] /\ wire \in Seq(Numbers)
        /\ send_queue \in Seq(Ids \ {0}) /\ DOMAIN wire = 1 .. Len(wire) /\ Len(wire) \in Nat
    BY LenProperties DEF SendInv, TypeOK
  <1>o. \A id : id \in Out' <=>
          /\ id \in DOMAIN chunks'
          /\ \A k \in DOMAIN chunks'[id] : \E j \in DOMAIN wire' : wire'[j] = chunks'[id][k]
    BY DEF IsOut
  <1>s. ASSUME NEW id \in DOMAIN chunks, IsOut(id) PROVE id \in Out'
    <2>1. id \in DOMAIN chunks' /\ chunks'[id] = chunks[id]
          /\ \A j \in DOMAIN wire : j \in DOMAIN wire' /\ wire'[j] = wire[j]
      BY NothingTakenBack
    <2> QED
      BY <1>s, <1>o, <2>1 DEF IsOut
  <1>h. /\ Fair(heard)
        /\ \A t \in IoThreads : Fair(todo[t])
    <2>1. ASSUME NEW id, HasLeft(id), id # 0 PROVE id \in DOMAIN chunks
      BY <2>1, TokenFacts DEF HasLeft
    <2> HIDE DEF Out
    <2> QED
      BY <1>s, <2>1 DEF OnceInv, Once, TruthInv, Truthful
  <1>p. ASSUME Fair(heard'), \A t \in IoThreads : Fair(todo'[t]),
               \A w \in Tokens' : w.id # 0 =>
                  w.id \in DOMAIN chunks' /\ w.data = chunks'[w.id] /\ (w.ec = "ok" => w.id \in Out')
        PROVE  TruthInv'
    BY <1>p, <1>o DEF TruthInv, Truthful, IsOut
  <1> HIDE DEF Out
  <1>t. ASSUME NEW w \in Tokens, w.id # 0
        PROVE  /\ w.id \in DOMAIN chunks /\ w.id \in DOMAIN chunks'
               /\ w.data = chunks[w.id] /\ w.data = chunks'[w.id]
               /\ w.ec = "ok" => w.id \in Out'
    <2>1. w.id \in DOMAIN chunks
      BY <1>t, TokenFacts
    <2> QED
      BY <1>t, <1>s, <2>1, NothingTakenBack DEF TruthInv
  <1>1. ASSUME Tokens' \subseteq Tokens, UNCHANGED <<heard, todo>> PROVE TruthInv'
    BY <1>1, <1>h, <1>t, <1>p
  <1>2. ASSUME NEW t \in IoThreads, NEW w \in job[t],
               ChunkWritten(t, w) \/ ChunkFailed(t, w) \/ LastWritten(t, w)
        PROVE  TruthInv'
    <2>1. /\ Tokens = {w} /\ Tokens' = writes' /\ UNCHANGED <<chunks, wire, heard>>
          /\ ~ChunkWritten(t, w) => writes' = {}
      BY <1>2, TokenPassed
    <2>2. CASE ChunkWritten(t, w)
      <3> DEFINE calls == Calls(<<Head(send_queue)>>, "ok")
                 next == Head(Remaining)
      <3>1. /\ w.id # 0 /\ w.ec = "ok" /\ todo' = [todo EXCEPT ![t] = calls]
            /\ send_queue # <<>>
            /\ send_queue' = Remaining
            /\ writes' = IF Remaining = <<>> THEN writes ELSE writes \cup {Started(next, chunks[next])}
            /\ writes = {} /\ w.id = Head(send_queue)
        BY <2>1, <2>2, TokenFacts, Current DEF ChunkWritten
      <3>2. w.id \in Out'
        BY <2>1, <3>1, <1>t
      <3>3. DOMAIN calls = {1} /\ calls[1].id = w.id
        BY <3>1 DEF Calls
      <3>4. Fair(calls)
        <4> HIDE DEF calls
        <4> QED
          BY <3>2, <3>3
      <3>5. ASSUME Remaining # <<>> PROVE next \in DOMAIN chunks
        <4>1. send_queue' \in Seq(Ids \ {0}) /\ send_queue' # <<>>
              /\ \A i \in DOMAIN send_queue' : send_queue'[i] \in DOMAIN chunks'
          BY <3>1, <3>5, SendTypeStep DEF TypeOK, SentInv
        <4>2. next = send_queue'[1] /\ 1 \in DOMAIN send_queue'
          BY <3>1, <4>1, HeadTailProperties, EmptySeq
        <4> QED
          BY <2>1, <4>1, <4>2
      <3>6. \A v \in writes' : v.ec = "pending" /\ v.id \in DOMAIN chunks /\ v.data = chunks[v.id]
        BY <3>1, <3>5 DEF Started
      <3> HIDE DEF calls, next
      <3>7. \A s \in IoThreads : Fair(todo'[s])
        BY <1>i, <1>h, <3>1, <3>4
      <3>8. Fair(heard')
        BY <1>h, <2>1
      <3> QED
        BY <1>p, <2>1, <3>6, <3>7, <3>8
    <2>3. CASE ChunkFailed(t, w) \/ LastWritten(t, w)
      <3>1. PICK calls : todo' = [todo EXCEPT ![t] = calls] /\ Fair(calls)
        <4>1. CASE ChunkFailed(t, w)
          <5>1. todo' = [todo EXCEPT ![t] = Calls(send_queue, "error")]
            BY <4>1 DEF ChunkFailed, Dropped
          <5>2. Fair(Calls(send_queue, "error"))
            BY DEF Calls
          <5> QED
            BY <5>1, <5>2
        <4>2. CASE LastWritten(t, w)
          <5>1. todo' = [todo EXCEPT ![t] = Calls(<<0>>, w.ec)]
            BY <4>2 DEF LastWritten
          <5>2. \A i \in DOMAIN Calls(<<0>>, w.ec) : Calls(<<0>>, w.ec)[i].id = 0
            BY DEF Calls
          <5>3. Fair(Calls(<<0>>, w.ec))
            BY <5>2
          <5> QED
            BY <5>1, <5>3
        <4> QED
          BY <2>3, <4>1, <4>2
      <3>2. Tokens' = {}
        BY <1>2, <2>1, <2>3, TokenPassed DEF ChunkFailed, ChunkWritten, LastWritten
      <3>3. \A s \in IoThreads : Fair(todo'[s])
        BY <1>i, <1>h, <3>1
      <3> QED
        BY <1>h, <1>p, <2>1, <3>2, <3>3
    <2> QED
      BY <1>2, <2>2, <2>3
  <1>3. ASSUME NEW t \in IoThreads, CallBack(t) PROVE TruthInv'
    <2> DEFINE q == todo[t]
    <2>1. /\ q \in Seq(Call) /\ q # <<>>
          /\ heard' = Append(heard, Head(q)) /\ todo' = [todo EXCEPT ![t] = Tail(q)]
      BY <1>3, <1>i DEF CallBack
    <2>2. Fair(q) /\ Fair(heard)
      BY <1>h
    <2>3. Fair(Tail(q)) /\ (Head(q).ec = "ok" /\ Head(q).id # 0 => Head(q).id \in Out')
      <3> HIDE DEF q
      <3>1. /\ Head(q) = q[1] /\ 1 \in DOMAIN q
            /\ \A i \in DOMAIN Tail(q) : i + 1 \in DOMAIN q /\ Tail(q)[i] = q[i + 1]
        BY <2>1, HeadTailProperties, EmptySeq, LenProperties
      <3> QED
        BY <2>2, <3>1
    <2>4. Fair(heard')
      <3> HIDE DEF q
      <3>1. \A i \in DOMAIN heard' : heard'[i] = Head(q) \/ (i \in DOMAIN heard /\ heard'[i] = heard[i])
        BY <1>i, <2>1, AppendProperties, LenProperties, HeadTailProperties
      <3> QED
        BY <2>2, <2>3, <3>1
    <2>5. \A s \in IoThreads : Fair(todo'[s])
      <3> HIDE DEF q
      <3> QED
        BY <1>i, <1>h, <2>1, <2>3
    <2>6. Tokens' = Tokens
      BY <1>3, TokensStay DEF CallBack, TurnedAway, Refuse
    <2> QED
      BY <1>t, <1>p, <2>4, <2>5, <2>6
  <1>4. ASSUME NEW t \in IoThreads,
               (\E w \in writes : Dispatch(t, w)) \/ Enter(t) \/ TurnedAway(t) \/ Leave(t)
        PROVE  TruthInv'
    <2>1. UNCHANGED <<heard, todo>>
      BY <1>4 DEF Dispatch, Enter, TurnedAway, Leave, sendVars
    <2> QED
      BY <1>1, <1>4, <2>1, TokensStay
  <1>5. CASE Write \/ SendMove \/ LetGo \/ Break \/ Destroy
    <2>1. Tokens' = Tokens /\ UNCHANGED <<heard, todo>>
      BY <1>5 DEF Write, SendMove, LetGo, Break, Destroy, sendVars, Tokens, Handling
    <2> QED
      BY <1>1, <2>1
  <1>6. CASE Delete \/ \E id \in moved : Enqueue(id)
    <2>1. PICK id, data : /\ writes' \subseteq writes \cup {Started(id, data)}
                          /\ id # 0 => id \in DOMAIN chunks /\ data = chunks[id]
      <3>1. CASE Delete
        BY <1>6, <3>1 DEF Delete
      <3>2. CASE \E id \in moved : Enqueue(id)
        BY <1>6, <3>2 DEF Enqueue, SendInv, SentInv
      <3> QED
        BY <1>6, <3>1, <3>2
    <2>2. Tokens' \subseteq Tokens \cup {Started(id, data)} /\ UNCHANGED <<heard, todo, chunks>>
      BY <1>6, <2>1 DEF Delete, Enqueue, Tokens, Handling
    <2>3. Started(id, data).id = id /\ Started(id, data).data = data /\ Started(id, data).ec = "pending"
      BY DEF Started
    <2> QED
      BY <1>h, <1>p, <1>t, <2>1, <2>2, <2>3
  <1>7. ASSUME NEW w \in writes, Transmit(w) \/ Fail(w) PROVE TruthInv'
    <2>1. w \in Tokens /\ w \in Operation /\ Tokens = {w} /\ writes = {w}
      BY TokenFacts DEF Tokens, SendInv, TokenInv
    <2>2. PICK ec \in {"ok", "error"} : writes' = Completed(w, ec) /\ (ec = "ok" => Transmit(w))
      BY <1>7 DEF Transmit, Fail
    <2> DEFINE v == [w EXCEPT !.ec = ec]
    <2>3. v.id = w.id /\ v.data = w.data /\ v.ec = ec
      BY <2>1 DEF Operation
    <2>4. Tokens' = {v} /\ UNCHANGED <<heard, todo, chunks>>
      <3>1. writes' = {v}
        BY <2>1, <2>2 DEF Completed
      <3>2. job' = job /\ \A t \in IoThreads : Handling(t) = {}
        BY <1>7, <2>1 DEF Transmit, Fail, SendInv, TokenInv
      <3> QED
        BY <1>7, <3>1, <3>2 DEF Tokens, Handling, Transmit, Fail
    <2> HIDE DEF v
    <2>5. ASSUME ec = "ok", w.id # 0 PROVE w.id \in Out'
      <3>1. wire' = wire \o w.data /\ w.data \in Seq(Numbers) /\ w.data = chunks'[w.id] /\ w.id \in DOMAIN chunks'
        BY <2>1, <2>2, <2>5, <1>t, Operations DEF Transmit
      <3>2. \A k \in DOMAIN w.data : Len(wire) + k \in DOMAIN wire' /\ wire'[Len(wire) + k] = w.data[k]
        BY <1>i, <3>1, ConcatProperties, LenProperties
      <3>3. \A k \in DOMAIN chunks'[w.id] : \E j \in DOMAIN wire' : wire'[j] = chunks'[w.id][k]
        BY <3>1, <3>2
      <3> QED
        BY <1>o, <3>1, <3>3
    <2>6. w.id # 0 => w.id \in DOMAIN chunks' /\ w.data = chunks'[w.id]
      BY <2>1, <1>t
    <2> QED
      BY <1>h, <1>p, <2>2, <2>3, <2>4, <2>5, <2>6
  <1> QED
    BY <1>2, <1>3, <1>4, <1>5, <1>6, <1>7 DEF Next, Application, Handler, Network

\* Consecutive numbers at the end of the wire leave it in order.
LEMMA WireGrows ==
  ASSUME wire \in Seq(Nat), WireIsWhatWasWritten, count' = count,
         NEW a \in Nat, NEW b \in Nat, a <= b, Reaches(a),
         NEW c \in Seq(Nat), Len(c) <= b - a, \A i \in 1 .. Len(c) : c[i] = a + i,
         wire' = wire \o c
  PROVE  /\ WireIsWhatWasWritten'
         /\ Len(c) = b - a => Reaches(b)'
  <1> DEFINE n == Len(wire)
             m == Len(c)
  <1>1. /\ n \in Nat /\ m \in Nat /\ DOMAIN wire = 1 .. n
        /\ wire' \in Seq(Nat) /\ Len(wire') = n + m /\ DOMAIN wire' = 1 .. n + m
        /\ \A i \in 1 .. n : wire'[i] = wire[i] /\ wire[i] \in Nat
        /\ \A i \in 1 .. n + m : i \notin 1 .. n => i - n \in 1 .. m /\ wire'[i] = c[i - n]
    <2>1. n \in Nat /\ m \in Nat /\ DOMAIN wire = 1 .. n /\ \A i \in 1 .. n : wire[i] \in Nat
      BY LenProperties
    <2>2. /\ wire' \in Seq(Nat) /\ Len(wire') = n + m
          /\ \A i \in 1 .. n + m : wire'[i] = IF i <= n THEN wire[i] ELSE c[i - n]
      BY ConcatProperties
    <2>3. DOMAIN wire' = 1 .. n + m
      BY <2>2, LenProperties
    <2> HIDE DEF n, m
    <2> QED
      BY <2>1, <2>2, <2>3
  <1>2. Closed' = Closed
    BY DEF Closed
  <1> HIDE DEF n, m
  <1>3. \A i \in 1 .. n : wire[i] <= a
    BY <1>1 DEF Reaches
  <1>4. \A i \in 1 .. n + m : i \notin 1 .. n => wire'[i] = a + (i - n)
    BY <1>1 DEF m
  <1>5. ASSUME NEW i \in 1 .. n + m, NEW j \in 1 .. n + m, i < j PROVE wire'[i] < wire'[j]
    <2>1. CASE j \in 1 .. n
      <3>1. i \in 1 .. n
        BY <1>1, <1>5, <2>1
      <3> QED
        BY <1>1, <1>5, <2>1, <3>1 DEF WireIsWhatWasWritten
    <2>2. CASE j \notin 1 .. n
      <3>1. wire'[j] = a + (j - n) /\ j - n > 0
        BY <1>1, <1>4, <2>2
      <3>2. CASE i \in 1 .. n
        <4>1. wire'[i] \in Nat /\ wire'[i] <= a
          BY <1>1, <1>3, <3>2
        <4>2. \A x \in Nat, k \in Int : x <= a /\ k > 0 => x < a + k
          OBVIOUS
        <4>3. j - n \in Int
          BY <1>1
        <4> QED
          BY <3>1, <4>1, <4>2, <4>3
      <3>3. CASE i \notin 1 .. n
        <4>1. wire'[i] = a + (i - n)
          BY <1>4, <3>3
        <4>2. a + (i - n) < a + (j - n)
          BY <1>1, <1>5
        <4> QED
          BY <3>1, <4>1, <4>2
      <3> QED
        BY <3>2, <3>3
    <2> QED
      BY <2>1, <2>2
  <1>6. ASSUME ~Closed PROVE \A i \in 1 .. n + m : wire'[i] = i
    <2>1. n = a /\ \A i \in 1 .. n : wire[i] = i
      BY <1>1, <1>6 DEF Reaches, WireIsWhatWasWritten, n
    <2>2. \A i \in 1 .. n + m : i \notin 1 .. n => a + (i - n) = i
      BY <1>1, <2>1
    <2> QED
      BY <1>1, <1>4, <2>1, <2>2
  <1>7. WireIsWhatWasWritten'
    BY <1>1, <1>2, <1>5, <1>6 DEF WireIsWhatWasWritten
  <1>8. ASSUME m = b - a PROVE Reaches(b)'
    <2>1. ASSUME NEW i \in 1 .. n + m PROVE wire'[i] <= b
      <3>1. CASE i \in 1 .. n
        <4>1. wire'[i] \in Nat /\ wire'[i] <= a
          BY <1>1, <1>3, <3>1
        <4>2. \A x \in Nat : x <= a => x <= b
          OBVIOUS
        <4> QED
          BY <4>1, <4>2
      <3>2. CASE i \notin 1 .. n
        <4>1. wire'[i] = a + (i - n) /\ i - n \in 1 .. b - a
          BY <1>1, <1>4, <1>8, <3>2
        <4>2. \A k \in 1 .. b - a : a + k <= b
          OBVIOUS
        <4> QED
          BY <4>1, <4>2
      <3> QED
        BY <3>1, <3>2
    <2>2. ~Closed => n + m = b
      BY <1>1, <1>8 DEF Reaches, n
    <2> QED
      BY <1>1, <1>2, <2>1, <2>2 DEF Reaches
  <1> QED
    BY <1>7, <1>8 DEF m

\* Pieces are sequences.
LEMMA Pieces ==
  ASSUME NEW a \in Nat, NEW b \in Nat, a <= b
  PROVE  /\ Piece(a, b) \in Seq(Nat) /\ Len(Piece(a, b)) = b - a
         /\ DOMAIN Piece(a, b) = 1 .. b - a
         /\ \A i \in 1 .. b - a : Piece(a, b)[i] = a + i
  <1>1. b - a \in Nat
    OBVIOUS
  <1>2. Piece(a, b) \in [1 .. b - a -> Nat]
    BY DEF Piece
  <1>3. Piece(a, b) \in Seq(Nat)
    BY <1>1, <1>2
  <1>4. DOMAIN Piece(a, b) = 1 .. b - a /\ \A i \in 1 .. b - a : Piece(a, b)[i] = a + i
    BY DEF Piece
  <1>5. Len(Piece(a, b)) = b - a
    BY <1>1, <1>3, <1>4, LenProperties
  <1> QED
    BY <1>3, <1>4, <1>5

LEMMA OnePiece ==
  ASSUME NEW a \in Nat, NEW b \in Nat, a <= b
  PROVE  Append(Piece(a, b), b + 1) = Piece(a, b + 1)
  <1> DEFINE p == Piece(a, b)
             q == Append(p, b + 1)
             r == Piece(a, b + 1)
  <1>1. /\ p \in Seq(Nat) /\ Len(p) = b - a
        /\ \A i \in 1 .. b - a : p[i] = a + i
        /\ r \in Seq(Nat) /\ Len(r) = (b + 1) - a
        /\ \A i \in 1 .. (b + 1) - a : r[i] = a + i
    <2>1. b + 1 \in Nat /\ a <= b + 1
      OBVIOUS
    <2>2. /\ r \in Seq(Nat) /\ Len(r) = (b + 1) - a
          /\ \A i \in 1 .. (b + 1) - a : r[i] = a + i
      BY Zenon, <2>1, Pieces
    <2>3. p \in Seq(Nat) /\ Len(p) = b - a /\ \A i \in 1 .. b - a : p[i] = a + i
      BY Zenon, Pieces
    <2> QED
      BY <2>2, <2>3
  <1> HIDE DEF p, r
  <1>2. /\ q \in Seq(Nat) /\ Len(q) = (b + 1) - a
        /\ \A i \in 1 .. b - a : q[i] = a + i
        /\ q[(b + 1) - a] = b + 1
    BY <1>1, AppendProperties
  <1> HIDE DEF q
  <1>3. \A i \in 1 .. (b + 1) - a : q[i] = r[i]
    <2>1. ASSUME NEW i \in 1 .. (b + 1) - a PROVE q[i] = a + i
      <3>1. CASE i = (b + 1) - a
        BY <1>2, <3>1
      <3>2. CASE i \in 1 .. b - a
        BY <1>2, <3>2
      <3> QED
        BY <3>1, <3>2
    <2> QED
      BY <1>1, <2>1
  <1>4. q = r
    BY <1>1, <1>2, <1>3, SeqEqual
  <1> QED
    BY <1>4 DEF p, q, r

\* Where the data of w starts and ends, and how far it has got, when n calls of send()
\* have cut off pieces at e and x numbers have been written.
Start(e, n, w) == Cut(e, IF w.id = 0 THEN n ELSE w.id - 1)
End(e, x, w) == IF w.id = 0 THEN x ELSE Cut(e, w.id)
Got(e, n, x, w) == IF w.ec = "pending" THEN Start(e, n, w) ELSE End(e, x, w)

\* The invariant holds in the next state, by the cuts e.
LEMMA WireHolds ==
  ASSUME NEW n \in Nat, NEW x \in Nat, NEW q, NEW e \in [1 .. n -> 0 .. x],
         Len(chunks') = n, DOMAIN chunks' = 1 .. n, written' = x, Queued' = q,
         \A k, l \in 0 .. n : k <= l => Cut(e, k) <= Cut(e, l),
         \A k \in 1 .. n : chunks'[k] = Piece(Cut(e, k - 1), Cut(e, k)),
         ~deleted' => streambuf' = Piece(Cut(e, n), x),
         WireIsWhatWasWritten',
         \A w \in Tokens' : w.ec = "error" => broken',
         \A w \in Tokens' : w.data = Piece(Start(e, n, w), End(e, x, w)),
         ~broken' => \A w \in Tokens' : \A b : b = Got(e, n, x, w) => Reaches(b)',
         ~broken' /\ Tokens' = {} /\ ~deleted' => \A b : b = Cut(e, q) => Reaches(b)'
  PROVE  WireInv'
  <1>1. Cuts(e)'
    BY DEF Cuts, Cut, Piece
  <1>2. \A w \in Tokens' : From(e, w)' = Start(e, n, w) /\ To(e, w)' = End(e, x, w)
    BY DEF From, To, Start, End, Cut
  <1>3. \A w \in Tokens' : w.data = Piece(From(e, w), To(e, w))'
    BY <1>2 DEF Piece
  <1>4. ASSUME ~broken', NEW w \in Tokens'
        PROVE  Reaches(IF w.ec = "pending" THEN From(e, w) ELSE To(e, w))'
    <2>1. PICK b : b = Got(e, n, x, w)
      OBVIOUS
    <2>2. (IF w.ec = "pending" THEN From(e, w) ELSE To(e, w))' = b
      BY <1>2, <1>4, <2>1 DEF Got
    <2>3. Reaches(b)'
      BY <1>4, <2>1
    <2> QED
      BY <2>2, <2>3 DEF Reaches
  <1>5. ASSUME ~broken', Tokens' = {}, ~deleted' PROVE Reaches(Cut(e, Queued))'
    <2>1. PICK b : b = Cut(e, q)
      OBVIOUS
    <2>2. Cut(e, Queued)' = b
      BY <2>1 DEF Cut
    <2>3. Reaches(b)'
      BY <1>5, <2>1
    <2> QED
      BY <2>2, <2>3 DEF Reaches
  <1>6. e \in [1 .. Len(chunks') -> 0 .. written']
    OBVIOUS
  <1> QED
    BY <1>1, <1>3, <1>4, <1>5, <1>6 DEF WireInv

\* What the invariant says of this state, by its cuts.
LEMMA WireSays ==
  ASSUME SendInv, OrderInv, WireInv
  PROVE  \E n \in Nat, x \in Nat : \E e \in [1 .. n -> 0 .. x] :
          /\ Len(chunks) = n /\ DOMAIN chunks = 1 .. n /\ written = x
          /\ \A k \in 0 .. n : Cut(e, k) \in Nat /\ Cut(e, k) <= x
          /\ \A k, l \in 0 .. n : k <= l => Cut(e, k) <= Cut(e, l)
          /\ \A k \in 1 .. n : chunks[k] = Piece(Cut(e, k - 1), Cut(e, k))
          /\ ~deleted => streambuf = Piece(Cut(e, n), x)
          /\ WireIsWhatWasWritten
          /\ \A w \in Tokens :
              /\ w.ec = "error" => broken
              /\ w.data = Piece(Start(e, n, w), End(e, x, w))
              /\ Start(e, n, w) \in Nat /\ End(e, x, w) \in Nat /\ Start(e, n, w) <= End(e, x, w)
              /\ ~broken => Reaches(Got(e, n, x, w))
          /\ ~broken /\ Tokens = {} /\ ~deleted => Reaches(Cut(e, Queued))
  <1>1. PICK n \in Nat, x \in Nat : Len(chunks) = n /\ DOMAIN chunks = 1 .. n /\ written = x
    <2>1. Len(chunks) \in Nat /\ DOMAIN chunks = 1 .. Len(chunks)
      BY TokenFacts
    <2>2. written \in Nat
      BY SendAssumption DEF SendInv, TypeOK
    <2> QED
      BY <2>1, <2>2
  <1>2. PICK e \in [1 .. n -> 0 .. x] :
          /\ Cuts(e)
          /\ \A w \in Tokens : w.data = Piece(From(e, w), To(e, w))
          /\ ~broken => \A w \in Tokens : Reaches(IF w.ec = "pending" THEN From(e, w) ELSE To(e, w))
          /\ ~broken /\ Tokens = {} /\ ~deleted => Reaches(Cut(e, Queued))
    BY <1>1 DEF WireInv
  <1>3. /\ \A k, l \in 0 .. n : k <= l => Cut(e, k) <= Cut(e, l)
        /\ \A k \in 1 .. n : chunks[k] = Piece(Cut(e, k - 1), Cut(e, k))
        /\ ~deleted => streambuf = Piece(Cut(e, n), x)
    BY <1>1, <1>2 DEF Cuts
  <1>4. ASSUME NEW k \in 0 .. n PROVE Cut(e, k) \in Nat /\ Cut(e, k) <= x
    <2>1. CASE k = 0
      BY <1>1, <2>1 DEF Cut
    <2>2. CASE k # 0
      <3>1. k \in 1 .. n
        BY <1>1, <2>2
      <3>2. e[k] \in 0 .. x
        BY <1>2, <3>1
      <3> QED
        BY <1>1, <2>2, <3>2 DEF Cut
    <2> QED
      BY <2>1, <2>2
  <1>5. \A w \in Tokens : From(e, w) = Start(e, n, w) /\ To(e, w) = End(e, x, w)
    BY <1>1 DEF From, To, Start, End
  <1>6. ASSUME NEW w \in Tokens
        PROVE  Start(e, n, w) \in Nat /\ End(e, x, w) \in Nat /\ Start(e, n, w) <= End(e, x, w)
    <2>1. CASE w.id = 0
      <3>1. Start(e, n, w) = Cut(e, n) /\ End(e, x, w) = x /\ n \in 0 .. n
        BY <1>1, <2>1 DEF Start, End
      <3> QED
        BY <1>1, <1>4, <3>1
    <2>2. CASE w.id # 0
      <3>1. w.id \in 1 .. n
        BY <1>1, <2>2, TokenFacts
      <3>2. w.id \in 0 .. n /\ w.id - 1 \in 0 .. n /\ w.id - 1 <= w.id
        BY <1>1, <3>1
      <3>3. Start(e, n, w) = Cut(e, w.id - 1) /\ End(e, x, w) = Cut(e, w.id)
        BY <2>2 DEF Start, End
      <3> QED
        BY <1>3, <1>4, <3>2, <3>3
    <2> QED
      BY <2>1, <2>2
  <1>7. \A w \in Tokens : (w.ec = "error" => broken)
                         /\ (~broken => Reaches(Got(e, n, x, w)))
    BY <1>2, <1>5 DEF WireInv, Got
  <1>8. \A w \in Tokens : w.data = Piece(Start(e, n, w), End(e, x, w))
    BY <1>2, <1>5
  <1>9. WireIsWhatWasWritten
    BY DEF WireInv
  <1>10. \A k \in 0 .. n : Cut(e, k) \in Nat /\ Cut(e, k) <= x
    BY <1>4
  <1>11. \A w \in Tokens :
          Start(e, n, w) \in Nat /\ End(e, x, w) \in Nat /\ Start(e, n, w) <= End(e, x, w)
    BY <1>6
  <1> QED
    BY <1>1, <1>2, <1>3, <1>7, <1>8, <1>9, <1>10, <1>11

\* What goes out is what was written, whatever happens.
LEMMA WireStep ==
  ASSUME SendInv, OrderInv, WireInv, Next
  PROVE  WireInv'
  <1>p. PICK n \in Nat, x \in Nat : \E e \in [1 .. n -> 0 .. x] :
          /\ Len(chunks) = n /\ DOMAIN chunks = 1 .. n /\ written = x
          /\ \A k \in 0 .. n : Cut(e, k) \in Nat /\ Cut(e, k) <= x
          /\ \A k, l \in 0 .. n : k <= l => Cut(e, k) <= Cut(e, l)
          /\ \A k \in 1 .. n : chunks[k] = Piece(Cut(e, k - 1), Cut(e, k))
          /\ ~deleted => streambuf = Piece(Cut(e, n), x)
          /\ WireIsWhatWasWritten
          /\ \A w \in Tokens :
              /\ w.ec = "error" => broken
              /\ w.data = Piece(Start(e, n, w), End(e, x, w))
              /\ Start(e, n, w) \in Nat /\ End(e, x, w) \in Nat /\ Start(e, n, w) <= End(e, x, w)
              /\ ~broken => Reaches(Got(e, n, x, w))
          /\ ~broken /\ Tokens = {} /\ ~deleted => Reaches(Cut(e, Queued))
    BY WireSays
  <1>e. PICK e \in [1 .. n -> 0 .. x] :
          /\ Len(chunks) = n /\ DOMAIN chunks = 1 .. n /\ written = x
          /\ \A k \in 0 .. n : Cut(e, k) \in Nat /\ Cut(e, k) <= x
          /\ \A k, l \in 0 .. n : k <= l => Cut(e, k) <= Cut(e, l)
          /\ \A k \in 1 .. n : chunks[k] = Piece(Cut(e, k - 1), Cut(e, k))
          /\ ~deleted => streambuf = Piece(Cut(e, n), x)
          /\ WireIsWhatWasWritten
          /\ \A w \in Tokens :
              /\ w.ec = "error" => broken
              /\ w.data = Piece(Start(e, n, w), End(e, x, w))
              /\ Start(e, n, w) \in Nat /\ End(e, x, w) \in Nat /\ Start(e, n, w) <= End(e, x, w)
              /\ ~broken => Reaches(Got(e, n, x, w))
          /\ ~broken /\ Tokens = {} /\ ~deleted => Reaches(Cut(e, Queued))
    BY <1>p
  <1>q. PICK q \in Nat : Queued = q /\ q <= n /\ q \in 0 .. n
    <2>1. Queued \in Nat /\ Queued <= n
      BY <1>e, TokenFacts
    <2> QED
      BY <2>1, <1>p
  <1>i. /\ wire \in Seq(Nat) /\ streambuf \in Seq(Numbers) /\ chunks \in Seq(Seq(Numbers))
        /\ send_queue \in Seq(Ids \ {0}) /\ job \in [IoThreads -> SUBSET Operation]
        /\ writes \subseteq Tokens
        /\ ~held => moved = {}
        /\ deleted => ~held
        /\ moved # {} => moved = {n} /\ q = n - 1
        /\ \A v, w \in Tokens : v = w
        /\ \A w \in Tokens :
            /\ w \in Operation /\ w.ec \in {"pending", "ok", "error"}
            /\ w.id = 0 <=> deleted
            /\ w.id # 0 => /\ send_queue # <<>> /\ w.id = Head(send_queue)
                           /\ w.id \in 1 .. n /\ w.id <= q
    <2>1. wire \in Seq(Nat)
      <3>1. Numbers \subseteq Nat
        BY DEF Numbers
      <3>2. wire \in Seq(Numbers)
        BY DEF SendInv, TypeOK
      <3> QED
        BY <3>1, <3>2, SeqMonotonic
    <2>2. /\ streambuf \in Seq(Numbers) /\ chunks \in Seq(Seq(Numbers))
          /\ send_queue \in Seq(Ids \ {0}) /\ job \in [IoThreads -> SUBSET Operation]
          /\ writes \subseteq Tokens
          /\ ~held => moved = {}
          /\ deleted => ~held
      BY DEF SendInv, TypeOK, DeleteInv, Tokens
    <2>3. ASSUME NEW w \in Tokens, w.id # 0 PROVE w.id <= q
      <3>1. w.id = q - Len(send_queue) + 1 /\ Len(send_queue) \in Nat /\ send_queue # <<>>
        BY <1>q, <2>3, TokenFacts
      <3>2. Len(send_queue) # 0
        BY <2>2, <3>1, EmptySeq
      <3>3. \A i, l \in Nat : l # 0 => i - l + 1 <= i
        OBVIOUS
      <3> QED
        BY <3>1, <3>2, <3>3
    <2>4. /\ moved # {} => moved = {n} /\ q = n - 1
          /\ \A v, w \in Tokens : v = w
          /\ \A w \in Tokens :
            /\ w \in Operation /\ w.ec \in {"pending", "ok", "error"}
            /\ w.id = 0 <=> deleted
            /\ w.id # 0 => send_queue # <<>> /\ w.id = Head(send_queue) /\ w.id \in 1 .. n
      BY <1>e, <1>q, TokenFacts
    <2> QED
      BY <2>1, <2>2, <2>3, <2>4
  <1>c. Closed => Closed'
    BY ClosedStays DEF SendInv
  \* The wire keeps what it has.
  <1>r. ASSUME wire' = wire, NEW b, Reaches(b) PROVE Reaches(b)'
    BY <1>r, <1>c DEF Reaches
  <1>v. ASSUME wire' = wire PROVE WireIsWhatWasWritten'
    BY <1>v, <1>e, <1>c DEF WireIsWhatWasWritten
  \* The cuts stay as they are.
  <1>h. ASSUME UNCHANGED <<chunks, written>>, NEW r, Queued' = r,
               ~deleted' => ~deleted /\ streambuf' = streambuf,
               WireIsWhatWasWritten',
               \A w \in Tokens' : /\ w.ec = "error" => broken'
                                /\ w.data = Piece(Start(e, n, w), End(e, x, w)),
               ~broken' => \A w \in Tokens' : \A b : b = Got(e, n, x, w) => Reaches(b)',
               ~broken' /\ Tokens' = {} /\ ~deleted' => \A b : b = Cut(e, r) => Reaches(b)'
        PROVE  WireInv'
    <2>1. /\ Len(chunks') = n /\ DOMAIN chunks' = 1 .. n /\ written' = x
          /\ \A k \in 1 .. n : chunks'[k] = Piece(Cut(e, k - 1), Cut(e, k))
          /\ ~deleted' => streambuf' = Piece(Cut(e, n), x)
      BY <1>h, <1>e
    <2>2. \A k, l \in 0 .. n : k <= l => Cut(e, k) <= Cut(e, l)
      BY <1>e
    <2> QED
      BY <1>h, <2>1, <2>2, WireHolds
  \* When the server has been destroyed the wire may stay behind.
  <1>b. ASSUME wire' = wire, Closed', NEW a \in Nat, NEW b \in Nat, a <= b, Reaches(a) PROVE Reaches(b)'
    <2>1. \A i \in DOMAIN wire : wire[i] \in Nat
      BY <1>i, LenProperties
    <2>2. \A i \in Nat : i <= a => i <= b
      BY <1>b
    <2> QED
      BY <1>b, <2>1, <2>2 DEF Reaches
  \* Nothing but who handles the operation has changed, or the gate.
  <1>1. ASSUME UNCHANGED <<streambuf, wire, written, chunks, deleted, moved>>,
               Tokens' = Tokens, broken => broken'
        PROVE  WireInv'
    <2>1. Queued' = q
      BY <1>1, <1>q DEF Queued
    <2>2. ASSUME ~broken', NEW w \in Tokens', NEW b, b = Got(e, n, x, w) PROVE Reaches(b)'
      BY <1>1, <1>e, <1>r, <2>2
    <2>3. ASSUME ~broken', Tokens' = {}, ~deleted', NEW b, b = Cut(e, q) PROVE Reaches(b)'
      BY <1>1, <1>e, <1>q, <1>r, <2>3
    <2>4. \A w \in Tokens' : (w.ec = "error" => broken')
                           /\ w.data = Piece(Start(e, n, w), End(e, x, w))
      BY <1>1, <1>e
    <2> QED
      BY <1>1, <1>h, <1>v, <2>1, <2>2, <2>3, <2>4
  \* The next number waits behind the others.
  <1>2. CASE Write
    <2>1. /\ streambuf' = Append(streambuf, x + 1) /\ written' = x + 1
          /\ ~deleted /\ UNCHANGED <<wire, chunks, deleted, moved, broken>>
          /\ Tokens' = Tokens
      BY <1>2, <1>e, <1>i DEF Write, Tokens, Handling, runnerVars
    <2>2. streambuf' = Piece(Cut(e, n), x + 1)
      <3>1. n \in 0 .. n
        OBVIOUS
      <3> QED
        BY <1>e, <2>1, <3>1, OnePiece
    <2>3. e \in [1 .. n -> 0 .. x + 1] /\ x + 1 \in Nat
      <3>1. 0 .. x \subseteq 0 .. x + 1 /\ x + 1 \in Nat
        OBVIOUS
      <3> QED
        BY <3>1
    <2>4. ASSUME NEW w \in Tokens'
          PROVE  Got(e, n, x + 1, w) = Got(e, n, x, w) /\ End(e, x + 1, w) = End(e, x, w)
      BY <1>i, <2>1 DEF Got, End
    <2>5. /\ Len(chunks') = n /\ DOMAIN chunks' = 1 .. n /\ Queued' = q
          /\ \A k \in 1 .. n : chunks'[k] = Piece(Cut(e, k - 1), Cut(e, k))
      BY <1>e, <1>q, <2>1 DEF Queued
    <2>6. ASSUME ~broken', NEW w \in Tokens', NEW b, b = Got(e, n, x + 1, w) PROVE Reaches(b)'
      BY <1>e, <1>r, <2>1, <2>4, <2>6
    <2>7. ASSUME ~broken', Tokens' = {}, ~deleted', NEW b, b = Cut(e, q) PROVE Reaches(b)'
      BY <1>e, <1>q, <1>r, <2>1, <2>7
    <2>8. \A w \in Tokens' : (w.ec = "error" => broken')
                           /\ w.data = Piece(Start(e, n, w), End(e, x + 1, w))
      BY <1>e, <2>1, <2>4
    <2>9. \A k, l \in 0 .. n : k <= l => Cut(e, k) <= Cut(e, l)
      BY <1>e
    <2>10. WireIsWhatWasWritten'
      BY <1>v, <2>1
    <2>y. PICK y \in Nat : y = x + 1
      BY <2>3
    <2>11. /\ e \in [1 .. n -> 0 .. y]
           /\ written' = y /\ streambuf' = Piece(Cut(e, n), y)
           /\ \A w \in Tokens' : (w.ec = "error" => broken')
                               /\ w.data = Piece(Start(e, n, w), End(e, y, w))
           /\ ~broken' => \A w \in Tokens' : \A b : b = Got(e, n, y, w) => Reaches(b)'
      BY <2>1, <2>2, <2>3, <2>6, <2>8, <2>y
    <2> QED
      BY <2>5, <2>7, <2>9, <2>10, <2>11, WireHolds
  \* A call of send() cuts off what has been written.
  <1>3. CASE SendMove
    <2>1. /\ chunks' = Append(chunks, streambuf) /\ streambuf' = <<>>
          /\ moved = {} /\ moved' = {n + 1}
          /\ ~deleted /\ UNCHANGED <<wire, written, deleted, broken>>
          /\ Tokens' = Tokens
      BY <1>3, <1>e, <1>i DEF SendMove, Tokens, Handling, runnerVars
    <2>2. /\ Len(chunks') = n + 1 /\ DOMAIN chunks' = 1 .. n + 1
          /\ \A k \in 1 .. n : chunks'[k] = chunks[k]
          /\ chunks'[n + 1] = streambuf
      BY <1>i, <1>e, <2>1, AppendProperties
    <2>q. q = n /\ Queued' = q
      BY <1>e, <1>q, <2>1, <2>2 DEF Queued
    <2>f. PICK f : f = [k \in 1 .. n + 1 |-> IF k = n + 1 THEN x ELSE e[k]]
      OBVIOUS
    <2>3. f \in [1 .. n + 1 -> 0 .. x]
      <3>1. \A k \in 1 .. n : e[k] \in 0 .. x
        BY <1>e
      <3>2. \A k \in 1 .. n + 1 : k # n + 1 => k \in 1 .. n
        OBVIOUS
      <3>3. x \in 0 .. x
        OBVIOUS
      <3> QED
        BY <2>f, <3>1, <3>2, <3>3
    <2>4. Cut(f, n + 1) = x /\ \A k \in 0 .. n : Cut(f, k) = Cut(e, k)
      <3>1. \A k \in 0 .. n : k = 0 \/ (k # n + 1 /\ k \in 1 .. n + 1)
        OBVIOUS
      <3>2. n + 1 # 0 /\ n + 1 \in 1 .. n + 1
        OBVIOUS
      <3> QED
        BY <2>f, <3>1, <3>2 DEF Cut
    <2>5. ASSUME NEW k \in 0 .. n + 1, NEW l \in 0 .. n + 1, k <= l
          PROVE  Cut(f, k) <= Cut(f, l)
      <3>1. CASE l = n + 1
        <4>1. k = n + 1 \/ k \in 0 .. n
          OBVIOUS
        <4> QED
          BY <1>e, <2>4, <3>1, <4>1
      <3>2. CASE l # n + 1
        <4>1. l \in 0 .. n /\ k \in 0 .. n
          BY <2>5, <3>2
        <4> QED
          BY <1>e, <2>4, <2>5, <4>1
      <3> QED
        BY <3>1, <3>2
    <2>6. ASSUME NEW k \in 1 .. n + 1 PROVE chunks'[k] = Piece(Cut(f, k - 1), Cut(f, k))
      <3>1. CASE k = n + 1
        <4>1. k - 1 = n /\ n \in 0 .. n
          BY <3>1
        <4> QED
          BY <1>e, <2>1, <2>2, <2>4, <3>1, <4>1
      <3>2. CASE k # n + 1
        <4>1. k \in 1 .. n /\ k \in 0 .. n /\ k - 1 \in 0 .. n
          BY <3>2
        <4> QED
          BY <1>e, <2>2, <2>4, <4>1
      <3> QED
        BY <3>1, <3>2
    <2>7. streambuf' = Piece(Cut(f, n + 1), x)
      <3>1. x <= x /\ x - x = 0
        OBVIOUS
      <3>2. Piece(x, x) \in Seq(Nat) /\ Len(Piece(x, x)) = 0
        BY <3>1, Pieces
      <3>3. Piece(x, x) = <<>>
        BY <3>2, EmptySeq
      <3> QED
        BY <2>1, <2>4, <3>3
    <2>8. ASSUME NEW w \in Tokens'
          PROVE  /\ Start(f, n + 1, w) = Start(e, n, w) /\ End(f, x, w) = End(e, x, w)
                 /\ Got(f, n + 1, x, w) = Got(e, n, x, w)
      <3>1. w.id # 0 /\ w.id \in 1 .. n
        BY <1>i, <2>1
      <3>2. w.id \in 0 .. n /\ w.id - 1 \in 0 .. n
        BY <3>1
      <3> QED
        BY <2>4, <3>1, <3>2 DEF Start, End, Got
    <2>9. ASSUME ~broken', NEW w \in Tokens', NEW b, b = Got(f, n + 1, x, w) PROVE Reaches(b)'
      BY <1>e, <1>r, <2>1, <2>8, <2>9
    <2>10. ASSUME ~broken', Tokens' = {}, ~deleted', NEW b, b = Cut(f, q) PROVE Reaches(b)'
      BY <1>e, <1>q, <1>r, <2>1, <2>4, <2>10
    <2>11. \A w \in Tokens' : (w.ec = "error" => broken')
                            /\ w.data = Piece(Start(f, n + 1, w), End(f, x, w))
      BY <1>e, <2>1, <2>8
    <2>12. n + 1 \in Nat /\ written' = x /\ WireIsWhatWasWritten'
      BY <1>e, <1>v, <2>1
    <2>m. PICK m \in Nat : m = n + 1
      BY <2>12
    <2>13. /\ f \in [1 .. m -> 0 .. x] /\ Len(chunks') = m /\ DOMAIN chunks' = 1 .. m
           /\ \A k, l \in 0 .. m : k <= l => Cut(f, k) <= Cut(f, l)
           /\ \A k \in 1 .. m : chunks'[k] = Piece(Cut(f, k - 1), Cut(f, k))
           /\ streambuf' = Piece(Cut(f, m), x)
           /\ \A w \in Tokens' : (w.ec = "error" => broken')
                               /\ w.data = Piece(Start(f, m, w), End(f, x, w))
           /\ ~broken' => \A w \in Tokens' : \A b : b = Got(f, m, x, w) => Reaches(b)'
      BY <2>2, <2>3, <2>5, <2>6, <2>7, <2>9, <2>11, <2>m
    <2>14. /\ ~broken' /\ Tokens' = {} /\ ~deleted' => \A b : b = Cut(f, q) => Reaches(b)'
           /\ m \in Nat /\ x \in Nat /\ written' = x /\ Queued' = q /\ WireIsWhatWasWritten'
      BY <2>q, <2>10, <2>12
    <2> QED
      BY <2>13, <2>14, WireHolds
  \* What has been cut off is queued, and written at once if nothing else is.
  <1>4. ASSUME NEW id \in moved, Enqueue(id) PROVE WireInv'
    <2>1. /\ id = n /\ q = n - 1 /\ n \in 1 .. n /\ ~deleted /\ moved' = {}
          /\ UNCHANGED <<wire, written, chunks, deleted, streambuf, broken, job>>
      BY <1>4, <1>i DEF Enqueue
    <2>2. Queued' = n
      BY <1>e, <2>1 DEF Queued
    <2>3. CASE send_queue = <<>>
      <3>1. Tokens = {}
        BY <1>i, <2>1, <2>3
      <3>2. Tokens' = {Started(n, chunks[n])}
        <4>1. writes' = writes \cup {Started(n, chunks[n])}
          BY <1>4, <2>1, <2>3, EmptySeq DEF Enqueue, MustStart
        <4> QED
          BY <2>1, <3>1, <4>1 DEF Tokens, Handling
      <3>3. PICK w : w = Started(n, chunks[n])
        OBVIOUS
      <3>4. /\ w.ec = "pending" /\ w.id = n /\ w.id # 0 /\ w.data = chunks[n]
            /\ w.data = Piece(Start(e, n, w), End(e, x, w)) /\ Got(e, n, x, w) = Cut(e, q)
        BY <1>e, <2>1, <3>3 DEF Started, Start, End, Got
      <3>5. ~broken => Reaches(Cut(e, q))
        BY <1>e, <1>q, <2>1, <3>1
      <3>6. ~broken' => \A b : b = Got(e, n, x, w) => Reaches(b)'
        BY <1>r, <2>1, <3>4, <3>5
      <3>7. Tokens' = {w}
        BY <3>2, <3>3
      <3> QED
        BY <1>h, <1>v, <2>1, <2>2, <3>4, <3>6, <3>7
    <2>4. CASE send_queue # <<>>
      <3>1. Tokens' = Tokens
        <4>1. writes' = writes
          BY <1>4, <1>i, <2>4, EmptySeq DEF Enqueue, MustStart
        <4> QED
          BY <2>1, <4>1 DEF Tokens, Handling
      <3>2. ASSUME ~broken', NEW w \in Tokens', NEW b, b = Got(e, n, x, w) PROVE Reaches(b)'
        BY <1>e, <1>r, <2>1, <3>1, <3>2
      <3>3. ASSUME ~broken', Tokens' = {}, NEW b, b = Cut(e, n) PROVE Reaches(b)'
        <4>1. Closed
          BY <2>4, <3>1, <3>3 DEF SendInv, QueueInv, Tokens
        <4>2. Reaches(Cut(e, q)) /\ Cut(e, q) \in Nat /\ b \in Nat /\ Cut(e, q) <= b
          <5>1. q \in 0 .. n /\ n \in 0 .. n /\ q <= n
            BY <1>q
          <5> QED
            BY <1>e, <1>q, <2>1, <3>1, <3>3, <5>1
        <4> QED
          BY <1>b, <1>c, <2>1, <4>1, <4>2
      <3>4. \A w \in Tokens' : /\ w.ec = "error" => broken'
                             /\ w.data = Piece(Start(e, n, w), End(e, x, w))
        BY <1>e, <2>1, <3>1
      <3> QED
        BY <1>h, <1>v, <2>1, <2>2, <3>2, <3>3, <3>4
    <2> QED
      BY <2>3, <2>4
  <1>5. CASE LetGo \/ Break \/ Destroy
    BY <1>1, <1>5 DEF LetGo, Break, Destroy, Tokens, Handling, sendVars
  \* The deleter writes what is left.
  <1>6. CASE Delete
    <2>1. /\ ~deleted /\ ~held /\ moved = {} /\ deleted' = TRUE
          /\ UNCHANGED <<wire, written, chunks, moved, broken, job>>
          /\ writes' = writes \cup {Started(0, streambuf)}
      BY <1>6, <1>i DEF Delete, Used
    <2>2. Tokens = {}
      <3>1. \A w \in Tokens : w.id # 0
        BY <1>i, <2>1
      <3>2. \A w \in Tokens : w \in writes \cup UNION {job[t] : t \in IoThreads}
        BY DEF Tokens, Handling
      <3> QED
        BY <1>6, <3>1, <3>2 DEF Delete, Used
    <2>3. q = n /\ Queued' = n
      BY <1>e, <1>q, <2>1 DEF Queued
    <2>4. PICK w : w = Started(0, streambuf)
      OBVIOUS
    <2>5. Tokens' = {w}
      BY <2>1, <2>2, <2>4 DEF Tokens, Handling
    <2>6. /\ w.ec = "pending" /\ w.data = Piece(Start(e, n, w), End(e, x, w))
          /\ Got(e, n, x, w) = Cut(e, q)
      BY <1>e, <2>1, <2>3, <2>4 DEF Started, Start, End, Got
    <2>7. ~broken' => \A b : b = Got(e, n, x, w) => Reaches(b)'
      BY <1>e, <1>q, <1>r, <2>1, <2>2, <2>6
    <2> QED
      BY <1>h, <1>v, <2>1, <2>3, <2>5, <2>6, <2>7
  \* The data of the operation goes to the wire, all of it ...
  <1>7. ASSUME NEW w \in writes, Transmit(w) PROVE WireInv'
    <2>1. /\ w \in Tokens /\ w.ec = "pending" /\ ~broken
          /\ wire' = wire \o w.data /\ writes' = (writes \ {w}) \cup {[w EXCEPT !.ec = "ok"]}
          /\ UNCHANGED <<written, chunks, deleted, streambuf, moved, broken, job, count>>
      BY <1>7, <1>i DEF Transmit, Completed, runnerVars
    <2>2. PICK v : v = [w EXCEPT !.ec = "ok"]
      OBVIOUS
    <2>3. Tokens' = {v}
      <3>1. writes = {w} /\ \A t \in IoThreads : Handling(t) = {}
        BY <1>7, <1>i DEF SendInv, TokenInv
      <3> QED
        BY <2>1, <2>2, <3>1 DEF Tokens, Handling
    <2>4. v.ec = "ok" /\ v.id = w.id /\ v.data = w.data
      BY <1>i, <2>1, <2>2 DEF Operation
    <2>5. /\ v.data = Piece(Start(e, n, v), End(e, x, v))
          /\ Got(e, n, x, v) = End(e, x, w)
      BY <1>e, <2>1, <2>4 DEF Start, End, Got
    <2>6. Reaches(Start(e, n, w))
      BY <1>e, <2>1 DEF Got
    <2>7. WireIsWhatWasWritten' /\ \A b : b = End(e, x, w) => Reaches(b)'
      <3>1. PICK a \in Nat, b \in Nat : a = Start(e, n, w) /\ b = End(e, x, w) /\ a <= b
        BY <1>e, <2>1
      <3>2. PICK c : c = w.data
        OBVIOUS
      <3>3. c = Piece(a, b)
        BY <1>e, <2>1, <3>1, <3>2
      <3>4. c \in Seq(Nat) /\ Len(c) = b - a /\ \A i \in 1 .. Len(c) : c[i] = a + i
        <4>1. /\ Piece(a, b) \in Seq(Nat) /\ Len(Piece(a, b)) = b - a
              /\ \A i \in 1 .. b - a : Piece(a, b)[i] = a + i
          BY <3>1, Pieces
        <4> QED
          BY <3>3, <4>1
      <3>5. Len(c) <= b - a
        BY <3>4
      <3>6. WireIsWhatWasWritten /\ Reaches(a) /\ wire \in Seq(Nat) /\ count' = count /\ wire' = wire \o c
        BY <1>e, <1>i, <2>1, <2>6, <3>1, <3>2
      <3>7. WireIsWhatWasWritten' /\ Reaches(b)'
        BY <3>1, <3>4, <3>5, <3>6, WireGrows
      <3> QED
        BY <3>1, <3>7
    <2>8. Queued' = q
      BY <1>q, <2>1 DEF Queued
    <2> QED
      BY <1>h, <2>1, <2>3, <2>4, <2>5, <2>7, <2>8
  \* ... or some of it, when the connection breaks.
  <1>8. ASSUME NEW w \in writes, Fail(w) PROVE WireInv'
    <2>1. /\ w \in Tokens /\ w.ec = "pending" /\ broken'
          /\ writes' = (writes \ {w}) \cup {[w EXCEPT !.ec = "error"]}
          /\ UNCHANGED <<written, chunks, deleted, streambuf, moved, job, count>>
      BY <1>8, <1>i DEF Fail, Completed, runnerVars
    <2>2. PICK v : v = [w EXCEPT !.ec = "error"]
      OBVIOUS
    <2>3. Tokens' = {v}
      <3>1. writes = {w} /\ \A t \in IoThreads : Handling(t) = {}
        BY <1>8, <1>i DEF SendInv, TokenInv
      <3> QED
        BY <2>1, <2>2, <3>1 DEF Tokens, Handling
    <2>4. v.id = w.id /\ v.data = w.data
      BY <1>i, <2>1, <2>2 DEF Operation
    <2>5. v.data = Piece(Start(e, n, v), End(e, x, v))
      BY <1>e, <2>1, <2>4 DEF Start, End
    <2>6. WireIsWhatWasWritten'
      <3>1. PICK a \in Nat, b \in Nat : a = Start(e, n, w) /\ b = End(e, x, w) /\ a <= b
        BY <1>e, <2>1
      <3>2. PICK d : d = w.data
        OBVIOUS
      <3>3. d = Piece(a, b)
        BY <1>e, <2>1, <3>1, <3>2
      <3>4. d \in Seq(Nat) /\ Len(d) = b - a /\ \A i \in 1 .. Len(d) : d[i] = a + i
        <4>1. /\ Piece(a, b) \in Seq(Nat) /\ Len(Piece(a, b)) = b - a
              /\ \A i \in 1 .. b - a : Piece(a, b)[i] = a + i
          BY <3>1, Pieces
        <4> QED
          BY <3>3, <4>1
      <3>5. PICK k \in 0 .. Len(d) : (broken => k = 0) /\ wire' = wire \o SubSeq(d, 1, k)
        BY <1>8, <3>2 DEF Fail
      <3>6. PICK c : c = SubSeq(d, 1, k)
        OBVIOUS
      <3>7. /\ c \in Seq(Nat) /\ Len(c) = k /\ k \in Nat /\ k <= b - a
            /\ \A i \in 1 .. Len(c) : c[i] = a + i
        <4>1. 1 \in 1 .. Len(d) + 1 /\ k \in 0 .. Len(d)
          BY <3>1, <3>4
        <4>2. c \in Seq(Nat) /\ Len(c) = k /\ \A i \in 1 .. k : c[i] = d[i]
          BY <3>4, <3>6, <4>1, SubSeqProperties
        <4>3. k \in Nat /\ k <= b - a /\ \A i \in 1 .. k : i \in 1 .. Len(d)
          BY <3>1, <3>4, <4>1
        <4> QED
          BY <3>4, <4>2, <4>3
      <3>8. CASE broken
        <4>1. c = <<>>
          BY <3>5, <3>7, <3>8, EmptySeq
        <4>2. wire' = wire
          BY <1>i, <3>5, <3>6, <4>1, ConcatEmptySeq
        <4> QED
          BY <1>v, <4>2
      <3>9. CASE ~broken
        <4>1. Reaches(a)
          BY <1>e, <2>1, <3>1, <3>9 DEF Got
        <4>2. WireIsWhatWasWritten /\ wire \in Seq(Nat) /\ count' = count /\ wire' = wire \o c
          BY <1>e, <1>i, <2>1, <3>5, <3>6
        <4>3. Len(c) <= b - a
          BY <3>7
        <4> QED
          BY <3>1, <3>7, <4>1, <4>2, <4>3, WireGrows
      <3> QED
        BY <3>8, <3>9
    <2>7. Queued' = q
      BY <1>q, <2>1 DEF Queued
    <2> QED
      BY <1>h, <2>1, <2>3, <2>5, <2>6, <2>7
  <1>9. ASSUME NEW t \in IoThreads,
               (\E w \in writes : Dispatch(t, w)) \/ Enter(t) \/ CallBack(t) \/ Leave(t) \/ TurnedAway(t)
        PROVE  WireInv'
    <2>1. /\ Tokens' \subseteq Tokens /\ (TurnedAway(t) \/ Tokens' = Tokens)
          /\ UNCHANGED <<deleted, streambuf, moved, broken, wire, written, chunks>>
      BY <1>9, TokensStay
    <2>2. CASE Tokens' = Tokens
      BY <1>1, <2>1, <2>2
    \* A handler that is turned away gives up its operation: the server is gone.
    <2>3. CASE TurnedAway(t)
      <3>1. Closed
        <4>1. expected[t] < 0
          BY <2>3, SendAssumption DEF TurnedAway, Refuse, Admits, SendInv, TypeOK, RunnerTypeOK
        <4> QED
          BY <4>1 DEF SendInv, JobsInv
      <3>2. ASSUME ~broken', NEW w \in Tokens', NEW b, b = Got(e, n, x, w) PROVE Reaches(b)'
        BY <1>e, <1>r, <2>1, <3>2
      <3>3. ASSUME ~broken', Tokens' = {}, ~deleted', NEW b, b = Cut(e, q) PROVE Reaches(b)'
        <4>1. CASE Tokens = {}
          BY <1>e, <1>q, <1>r, <2>1, <3>3, <4>1
        <4>2. ASSUME NEW w \in Tokens PROVE Reaches(b)'
          <5>1. w.id # 0 /\ w.id \in 1 .. n /\ w.id <= q
            BY <1>i, <2>1, <3>3
          <5>2. w.id \in 0 .. n
            BY <5>1
          <5>3. /\ Reaches(Got(e, n, x, w)) /\ Got(e, n, x, w) \in Nat
                /\ Got(e, n, x, w) <= Cut(e, w.id)
            BY <1>e, <2>1, <3>3, <5>1 DEF Got, End
          <5>4. Cut(e, w.id) <= b /\ b \in Nat /\ Cut(e, w.id) \in Nat
            BY <1>e, <1>q, <3>3, <5>1, <5>2
          <5>5. Got(e, n, x, w) <= b
            BY <5>3, <5>4
          <5> QED
            BY <1>b, <1>c, <2>1, <3>1, <5>3, <5>4, <5>5
        <4> QED
          BY <4>1, <4>2
      <3>4. \A w \in Tokens' : /\ w.ec = "error" => broken'
                             /\ w.data = Piece(Start(e, n, w), End(e, x, w))
        BY <1>e, <2>1
      <3>5. Queued' = q
        BY <1>q, <2>1 DEF Queued
      <3> QED
        BY <1>h, <1>v, <2>1, <3>2, <3>3, <3>4, <3>5
    <2> QED
      BY <2>1, <2>2, <2>3
  \* The next of the queue begins where the one before it has ended.
  <1>10. ASSUME NEW t \in IoThreads, NEW w \in job[t], ChunkWritten(t, w) PROVE WireInv'
    <2>1. /\ Tokens = {w} /\ Tokens' = writes' /\ w.id # 0 /\ w.ec = "ok"
          /\ UNCHANGED <<deleted, streambuf, moved, broken, wire, written, chunks>>
      BY <1>10, TokenPassed DEF ChunkWritten
    <2>2. /\ ~deleted /\ send_queue # <<>> /\ w.id \in 1 .. n /\ w.id \in 0 .. n
          /\ w.id = q - Len(send_queue) + 1
      <3>1. w \in Tokens
        BY <2>1
      <3>2. ~deleted /\ send_queue # <<>> /\ w.id \in 1 .. n
        BY <1>i, <2>1, <3>1
      <3>3. w.id = q - Len(send_queue) + 1
        BY <1>q, <2>1, <3>1, TokenFacts
      <3> QED
        BY <3>2, <3>3
    <2>3. ~broken => Reaches(Cut(e, w.id))
      BY <1>e, <2>1 DEF Got, End
    <2>4. Queued' = q
      BY <1>q, <2>1 DEF Queued
    <2>5. writes = {}
      <3>1. w \in Handling(t)
        BY <2>1 DEF Handling
      <3> QED
        BY <3>1 DEF SendInv, TokenInv
    <2>6. CASE Remaining = <<>>
      <3>1. Tokens' = {}
        BY <1>10, <2>1, <2>5, <2>6 DEF ChunkWritten
      <3>2. Len(send_queue) = 1
        <4>1. Len(Remaining) = Len(send_queue) - 1 /\ Len(send_queue) \in Nat
          BY <1>i, <2>2, HeadTailProperties, LenProperties DEF Remaining
        <4>2. Len(Remaining) = 0
          BY <2>6, EmptySeq
        <4> QED
          BY <4>1, <4>2
      <3>3. w.id = q
        BY <2>2, <3>2
      <3>4. ASSUME ~broken', NEW b, b = Cut(e, q) PROVE Reaches(b)'
        BY <1>r, <2>1, <2>3, <3>3, <3>4
      <3> QED
        BY <1>h, <1>v, <2>1, <2>4, <3>1, <3>4
    <2>7. CASE Remaining # <<>>
      <3>1. Tokens' = {Started(Head(Remaining), chunks[Head(Remaining)])}
        BY <1>10, <2>1, <2>5, <2>7 DEF ChunkWritten
      <3>2. Head(Remaining) = w.id + 1 /\ w.id + 1 \in 1 .. n
        <4>1. /\ Len(send_queue) \in Nat /\ Len(Remaining) = Len(send_queue) - 1
              /\ Remaining \in Seq(Ids \ {0})
              /\ \A i \in 1 .. Len(Remaining) : Remaining[i] = send_queue[i + 1]
          BY <1>i, <2>2, HeadTailProperties, LenProperties DEF Remaining
        <4>2. Head(Remaining) = Remaining[1] /\ Len(Remaining) # 0 /\ Len(Remaining) \in Nat
          <5>1. Len(Remaining) # 0 /\ Len(Remaining) \in Nat
            BY <2>7, <4>1, EmptySeq, LenProperties
          <5>2. Head(Remaining) = Remaining[1]
            BY <4>1, <5>1
          <5> QED
            BY <5>1, <5>2
        <4>3. Head(Remaining) = send_queue[2] /\ Len(send_queue) >= 2 /\ 2 \in 1 .. Len(send_queue)
          <5>1. 1 \in 1 .. Len(Remaining)
            BY <4>2
          <5> QED
            BY <4>1, <4>2, <5>1
        <4>4. DOMAIN send_queue = 1 .. Len(send_queue)
          BY TokenFacts
        <4>5. send_queue[2] = q - Len(send_queue) + 2
          BY <1>q, <4>3, <4>4 DEF OrderInv
        <4> QED
          BY <1>q, <2>2, <4>1, <4>3, <4>5
      <3>3. PICK v : v = Started(w.id + 1, chunks[w.id + 1])
        OBVIOUS
      <3>4. v.ec = "pending" /\ v.id = w.id + 1 /\ v.id # 0 /\ v.data = chunks[w.id + 1]
        BY <3>2, <3>3 DEF Started
      <3>5. Start(e, n, v) = Cut(e, w.id) /\ End(e, x, v) = Cut(e, w.id + 1)
        <4>1. v.id - 1 = w.id
          BY <2>2, <3>4
        <4> QED
          BY <3>4, <4>1 DEF Start, End
      <3>6. v.data = Piece(Cut(e, w.id), Cut(e, w.id + 1))
        <4>1. (w.id + 1) - 1 = w.id
          BY <2>2
        <4> QED
          BY <1>e, <3>2, <3>4, <4>1
      <3>7. ASSUME ~broken', NEW b, b = Got(e, n, x, v) PROVE Reaches(b)'
        BY <1>r, <2>1, <2>3, <3>4, <3>5, <3>7 DEF Got
      <3>8. Tokens' = {v}
        BY <3>1, <3>2, <3>3
      <3> QED
        BY <1>h, <1>v, <2>1, <2>4, <3>4, <3>5, <3>6, <3>7, <3>8
    <2> QED
      BY <2>6, <2>7
  <1>11. ASSUME NEW t \in IoThreads, NEW w \in job[t], ChunkFailed(t, w) \/ LastWritten(t, w)
         PROVE  WireInv'
    <2>1. /\ Tokens = {w} /\ Tokens' = {}
          /\ UNCHANGED <<deleted, streambuf, moved, broken, wire, written, chunks>>
          /\ broken \/ deleted
      <3>1. /\ Tokens = {w} /\ Tokens' = writes'
            /\ UNCHANGED <<deleted, streambuf, moved, broken, wire, written, chunks>>
            /\ (w.id = 0 <=> LastWritten(t, w))
        BY <1>11, TokenPassed
      <3>2. ~ChunkWritten(t, w)
        BY <1>11 DEF ChunkWritten, ChunkFailed, LastWritten
      <3>3. writes' = {}
        BY <1>11, <3>2, TokenPassed
      <3>4. w.id = 0 => deleted
        BY <1>i, <3>1
      <3>5. ChunkFailed(t, w) => broken
        BY <1>e, <3>1 DEF ChunkFailed
      <3> QED
        BY <1>11, <3>1, <3>3, <3>4, <3>5
    <2>2. Queued' = q
      BY <1>q, <2>1 DEF Queued
    <2> QED
      BY <1>h, <1>v, <2>1, <2>2
  <1> QED
    BY <1>2, <1>3, <1>4, <1>5, <1>6, <1>7, <1>8, <1>9, <1>10, <1>11
    DEF Next, Application, Network, Handler

-----------------------------------------------------------------------------
LEMMA AnswersInit == Init => AnswersInv /\ WireInv
  <1> SUFFICES ASSUME Init PROVE AnswersInv /\ WireInv
    OBVIOUS
  <1>1. /\ chunks = <<>> /\ moved = {} /\ send_queue = <<>> /\ heard = <<>> /\ wire = <<>>
        /\ streambuf = <<>> /\ written = 0 /\ ~deleted
        /\ Len(chunks) = 0 /\ DOMAIN chunks = {} /\ DOMAIN send_queue = {}
        /\ DOMAIN heard = {} /\ DOMAIN wire = {} /\ Len(wire) = 0
    BY DEF Init
  <1>2. \A t \in IoThreads : todo[t] = <<>> /\ job[t] = {} /\ DOMAIN todo[t] = {}
    BY DEF Init
  <1>3. Tokens = {}
    BY <1>2 DEF Init, Tokens, Handling
  <1>4. AnswersInv
    BY <1>1, <1>2, <1>3 DEF AnswersInv, OrderInv, OnceInv, TruthInv, Once, Apart, Truthful
  <1>5. Piece(0, 0) = <<>>
    <2>1. Piece(0, 0) \in Seq(Nat) /\ Len(Piece(0, 0)) = 0
      <3>1. 0 <= 0 /\ 0 - 0 = 0
        OBVIOUS
      <3> QED
        BY <3>1, Pieces
    <2> QED
      BY <2>1, EmptySeq
  <1>6. PICK e : e = [k \in 1 .. 0 |-> 0]
    OBVIOUS
  <1>7. e \in [1 .. Len(chunks) -> 0 .. written]
    BY <1>1, <1>6
  <1>8. \A k \in 0 .. Len(chunks) : k = 0 /\ Cut(e, k) = 0
    BY <1>1 DEF Cut
  <1>9. Cuts(e)
    BY <1>1, <1>5, <1>8 DEF Cuts
  <1>10. Reaches(Cut(e, Queued))
    BY <1>1 DEF Reaches, Queued, Cut
  <1>11. WireIsWhatWasWritten
    BY <1>1 DEF WireIsWhatWasWritten
  <1>12. WireInv
    BY <1>3, <1>7, <1>9, <1>10, <1>11 DEF WireInv
  <1> QED
    BY <1>4, <1>12

LEMMA AnswersStep ==
  SendInv /\ AnswersInv /\ WireInv /\ [Next]_vars => AnswersInv' /\ WireInv'
  <1> SUFFICES ASSUME SendInv, AnswersInv, WireInv, [Next]_vars PROVE AnswersInv' /\ WireInv'
    OBVIOUS
  <1>1. CASE Next
    BY <1>1, OrderStep, OnceStep, TruthStep, WireStep DEF AnswersInv
  <1>2. CASE UNCHANGED vars
    <2>1. /\ UNCHANGED <<count, deleted, streambuf, moved, send_queue, writes, job, todo, broken,
                         wire, written, chunks, heard>>
      BY <1>2 DEF vars, runnerVars, sendVars
    <2>2. OrderInv' /\ Queued' = Queued
      BY <2>1 DEF AnswersInv, OrderInv, Queued
    <2>3. Tokens' = Tokens
      BY <2>1 DEF Tokens, Handling
    <2>4. OnceInv'
      BY <2>1, <2>2, <2>3 DEF AnswersInv, OnceInv, Once, Apart, HasLeft
    <2>5. TruthInv'
      BY <2>1, <2>3 DEF AnswersInv, TruthInv, Truthful, IsOut
    <2>6. PICK e \in [1 .. Len(chunks) -> 0 .. written] :
            /\ Cuts(e)
            /\ \A w \in Tokens : w.data = Piece(From(e, w), To(e, w))
            /\ ~broken => \A w \in Tokens : Reaches(IF w.ec = "pending" THEN From(e, w) ELSE To(e, w))
            /\ ~broken /\ Tokens = {} /\ ~deleted => Reaches(Cut(e, Queued))
      BY DEF WireInv
    <2>7. /\ e \in [1 .. Len(chunks') -> 0 .. written']
          /\ Cuts(e)'
          /\ \A w \in Tokens' : w.data = Piece(From(e, w), To(e, w))'
      BY <2>1, <2>3, <2>6 DEF Cuts, Cut, Piece, From, To
    <2>8. ~broken' => \A w \in Tokens' :
            Reaches(IF w.ec = "pending" THEN From(e, w) ELSE To(e, w))'
      BY <2>1, <2>3, <2>6 DEF From, To, Cut, Reaches, Closed
    <2>9. ~broken' /\ Tokens' = {} /\ ~deleted' => Reaches(Cut(e, Queued))'
      BY <2>1, <2>2, <2>3, <2>6 DEF Cut, Reaches, Closed
    <2>10. WireIsWhatWasWritten' /\ \A w \in Tokens' : w.ec = "error" => broken'
      BY <2>1, <2>3 DEF WireInv, WireIsWhatWasWritten, Closed
    <2>11. WireInv'
      <3>1. \E g \in [1 .. Len(chunks') -> 0 .. written'] :
              /\ Cuts(g)'
              /\ \A w \in Tokens' : w.data = Piece(From(g, w), To(g, w))'
              /\ ~broken' => \A w \in Tokens' :
                    Reaches(IF w.ec = "pending" THEN From(g, w) ELSE To(g, w))'
              /\ ~broken' /\ Tokens' = {} /\ ~deleted' => Reaches(Cut(g, Queued))'
        BY <2>7, <2>8, <2>9
      <3> QED
        BY <2>10, <3>1 DEF WireInv
    <2> QED
      BY <2>2, <2>4, <2>5, <2>11 DEF AnswersInv
  <1> QED
    BY <1>1, <1>2

\* At any time every number of a call of send() is in one place only: with the
\* application, in the queue, or among the callbacks that are due or have been called;
\* and the wire has got just as far as the operation under way, or the queue.
THEOREM AnswersInvAlways == Spec => [](AnswersInv /\ WireInv)
  <1>1. Init => AnswersInv /\ WireInv
    BY AnswersInit
  <1>2. SendInv /\ (AnswersInv /\ WireInv) /\ [Next]_vars => (AnswersInv /\ WireInv)'
    BY AnswersStep
  <1> QED
    BY <1>1, <1>2, SendInvAlways, PTL DEF Spec

\* What the socket has been given is a prefix of what the application has written, in
\* order and with nothing left out, as long as the server lives; after that it still
\* has no number twice or out of order.
THEOREM WireAlwaysWhatWasWritten == Spec => []WireIsWhatWasWritten
  <1>1. AnswersInv /\ WireInv => WireIsWhatWasWritten
    BY DEF WireInv
  <1> QED
    BY <1>1, AnswersInvAlways, PTL

\* Each call of send() hears at most once how it went, and hears that it went well
\* only when all of its data is out.
THEOREM CallbacksAlwaysTrue == Spec => []CallbacksTellTheTruth
  <1>1. AnswersInv /\ WireInv => CallbacksTellTheTruth
    BY DEF AnswersInv, OnceInv, Once, TruthInv, Truthful, IsOut, CallbacksTellTheTruth
  <1> QED
    BY <1>1, AnswersInvAlways, PTL
=============================================================================
