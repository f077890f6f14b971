---------------------------- MODULE ScopeRunner ----------------------------
(***************************************************************************)
(* ScopeRunner (utility.hpp): the counter that delays the destructor of a  *)
(* client or a server until no handler is running, and stops the handlers  *)
(* that come later.  Every access to the atomic count is a step.           *)
(***************************************************************************)
EXTENDS Integers, FiniteSets

CONSTANT Threads    \* threads that run handlers or the destructor

ASSUME ThreadsAssumption == IsFiniteSet(Threads)

VARIABLES
    count,      \* scopes entered, or -1 once they are cancelled
    pc,         \* where each thread is in continue_lock() or stop()
    expected    \* its local variable

runnerVars == <<count, pc, expected>>

Inside == {t \in Threads : pc[t] = "inside"}
Closed == count = -1

RunnerInit ==
    /\ count = 0
    /\ pc = [t \in Threads |-> "outside"]
    /\ expected = [t \in Threads |-> 0]

\* continue_lock(): long expected = count;
LoadCount(t) ==
    /\ pc[t] = "outside"
    /\ pc' = [pc EXCEPT ![t] = "entering"]
    /\ expected' = [expected EXCEPT ![t] = count]
    /\ UNCHANGED count

Admits(t) == expected[t] >= 0

\* The compare and exchange succeeds ...
Acquire(t) ==
    /\ pc[t] = "entering" /\ Admits(t)
    /\ count = expected[t]
    /\ count' = count + 1
    /\ pc' = [pc EXCEPT ![t] = "inside"]
    /\ UNCHANGED expected

\* ... or fails, as the weak one may for no reason, and loads the count again.
RetryAcquire(t) ==
    /\ pc[t] = "entering" /\ Admits(t)
    /\ expected' = [expected EXCEPT ![t] = count]
    /\ UNCHANGED <<count, pc>>

\* return nullptr
Refuse(t) ==
    /\ pc[t] = "entering" /\ ~Admits(t)
    /\ pc' = [pc EXCEPT ![t] = "outside"]
    /\ UNCHANGED <<count, expected>>

\* ~SharedLock()
Release(t) ==
    /\ pc[t] = "inside"
    /\ count' = count - 1
    /\ pc' = [pc EXCEPT ![t] = "outside"]
    /\ UNCHANGED expected

\* stop(): long expected = 0;
BeginStop(t) ==
    /\ pc[t] = "outside"
    /\ pc' = [pc EXCEPT ![t] = "stopping"]
    /\ expected' = [expected EXCEPT ![t] = 0]
    /\ UNCHANGED count

Idle_Mut == count >= 0
Idle == count = 0

\* The compare and exchange succeeds, or finds that another stop() was first.
StopSwap(t) ==
    /\ pc[t] = "stopping"
    /\ Idle
    /\ count' = -1
    /\ pc' = [pc EXCEPT ![t] = "stopped"]
    /\ UNCHANGED expected

StopSeen(t) ==
    /\ pc[t] = "stopping" /\ count < 0
    /\ pc' = [pc EXCEPT ![t] = "stopped"]
    /\ UNCHANGED <<count, expected>>

ContinueLock(t) == LoadCount(t) \/ Acquire(t) \/ RetryAcquire(t) \/ Refuse(t)
StopRunner(t) == BeginStop(t) \/ StopSwap(t) \/ StopSeen(t)

RunnerNext == \E t \in Threads : ContinueLock(t) \/ Release(t) \/ StopRunner(t)

RunnerSpec == RunnerInit /\ [][RunnerNext]_runnerVars
-----------------------------------------------------------------------------
RunnerTypeOK ==
    /\ count \in Int
    /\ pc \in [Threads -> {"outside", "entering", "inside", "stopping", "stopped"}]
    /\ expected \in [Threads -> Int]

\* The count is that of the threads inside, until it says that the gate is closed.
CountIsExact ==
    IF Closed THEN Inside = {} ELSE count = Cardinality(Inside)

\* A stop() that has returned has closed the gate.
StoppedIsClosed == \A t \in Threads : pc[t] = "stopped" => Closed

RunnerInv == RunnerTypeOK /\ CountIsExact /\ StoppedIsClosed

\* ScopeRunner is a gate.
G == INSTANCE Gate WITH inside <- Inside, closed <- Closed

GateSpec == G!Spec
=============================================================================
