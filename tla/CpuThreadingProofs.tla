------------------------- MODULE CpuThreadingProofs -------------------------
(***************************************************************************)
(* Theorems about CpuThreading for any set of threads, any program length  *)
(* and each way of resetting the machine.                                  *)
(***************************************************************************)
EXTENDS CpuThreading, TLAPS

(* Worker w is in the loop of CpuSimulator::runProgram or about to enter   *)
(* it.                                                                     *)
InLoop(w) == wrk[w] \in {"start", "test", "load", "clear", "exec"}

(* How the current run was left is known exactly when its loop is over.    *)
EndingKnown ==
    /\ \A w \in Workers : InLoop(w) => ending = "none"
    /\ \A w \in Workers : wrk[w] = "store" => ending # "none"
    /\ sup \in Waiting /\ isCompleteZ => ending # "none"
    /\ sup = "read" => ending # "none"

(* A published completion means no thread is left in the machine, and none *)
(* is published before the thread it stands for exists.                    *)
CompleteIsQuiet ==
    /\ sup \in Waiting /\ isCompleteZ => \A w \in Workers : ~Running(w)
    /\ sup = "spawn" => ~isCompleteZ

(* sleepUntilComplete remembers every kill it makes in tookTooLong, and    *)
(* makes one only after the limit.                                         *)
KillsAreOverdue ==
    /\ tookTooLong => expired
    /\ sup = "kill" => expired

(* With a reset on either side, an interrupt that the running worker can   *)
(* still see was raised for its own run.                                   *)
InterruptIsOwn ==
    CallerResets \/ DoReset =>
        /\ interruptz =>
            \/ tookTooLong /\ sup \in Waiting
            \/ sup = "read" \/ sup = "idle"
            \/ DoReset /\ sup \in {"ready", "spawn"}
            \/ DoReset /\ \E w \in Workers : wrk[w] = "start"
        /\ \A w \in Workers : wrk[w] = "clear" => tookTooLong
        /\ ending = "cut" => tookTooLong

(* The inductive invariant: the properties of interest are its             *)
(* consequences, none of them is inductive alone.                          *)
IInv ==
    /\ TypeOK
    /\ DisjointAccess
    /\ CompleteIsQuiet
    /\ EndingKnown
    /\ KillsAreOverdue
    /\ InterruptIsOwn

USE DEF SupPc, WrkPc, Waiting, Running, InLoop, AfterReset, IsComplete,
        Overdue, Targets, Answer

-----------------------------------------------------------------------------
LEMMA InitIInv == ASSUME Init PROVE IInv
<1>1. TypeOK
  <2>1. 0 \in 0..ProgLength
    BY ProgLengthAssumption
  <2>2. [w \in Workers |-> "none"] \in [Workers -> WrkPc]
    OBVIOUS
  <2> QED BY <2>1, <2>2 DEF Init, TypeOK
<1>2. \A w \in Workers : ~Running(w)
  BY DEF Init
<1>3. DisjointAccess /\ CompleteIsQuiet
  BY <1>2 DEF Init, DisjointAccess, CompleteIsQuiet
<1>4. EndingKnown /\ KillsAreOverdue /\ InterruptIsOwn
  BY DEF Init, EndingKnown, KillsAreOverdue, InterruptIsOwn
<1> QED BY <1>1, <1>3, <1>4 DEF IInv

(* The supervisor's steps keep the invariant.                              *)
LEMMA SupervisorIInv == ASSUME IInv, Supervisor PROVE IInv'
<1> USE ResetAssumption DEF IInv, TypeOK, DisjointAccess, CompleteIsQuiet,
        EndingKnown, KillsAreOverdue, InterruptIsOwn
<1>1. CASE ApplyInput     BY <1>1 DEF ApplyInput
<1>2. CASE ClearComplete  BY <1>2 DEF ClearComplete
<1>3. CASE Spawn          BY <1>3 DEF Spawn
<1>4. CASE PollComplete   BY <1>4 DEF PollComplete
<1>5. CASE PollPending    BY <1>5 DEF PollPending
<1>6. CASE CheckClock     BY <1>6 DEF CheckClock
<1>7. CASE KillThread     BY <1>7 DEF KillThread
<1>8. CASE ReadResult     BY <1>8 DEF ReadResult
<1> QED BY <1>1, <1>2, <1>3, <1>4, <1>5, <1>6, <1>7, <1>8 DEF Supervisor

(* So do the steps of a worker.                                            *)
LEMMA WorkerIInv == ASSUME IInv, NEW w \in Workers, Worker(w) PROVE IInv'
<1> USE ResetAssumption, ProgLengthAssumption
    DEF IInv, TypeOK, DisjointAccess, CompleteIsQuiet,
        EndingKnown, KillsAreOverdue, InterruptIsOwn, Goto
<1>1. CASE StartRun(w)       BY <1>1 DEF StartRun
<1>2. CASE TestIp(w)         BY <1>2 DEF TestIp
<1>3. CASE LoadInterrupt(w)  BY <1>3 DEF LoadInterrupt
<1>4. CASE ClearInterrupt(w) BY <1>4 DEF ClearInterrupt
<1>5. CASE ExecuteOp(w)      BY <1>5 DEF ExecuteOp
<1>6. CASE StoreComplete(w)  BY <1>6 DEF StoreComplete
<1> QED BY <1>1, <1>2, <1>3, <1>4, <1>5, <1>6 DEF Worker

LEMMA NextIInv == ASSUME IInv, [Next]_vars PROVE IInv'
<1>1. CASE Supervisor
  BY <1>1, SupervisorIInv
<1>2. CASE \E w \in Workers : Worker(w)
  BY <1>2, WorkerIInv
<1>3. CASE Expire
  BY <1>3 DEF Expire, IInv, TypeOK, DisjointAccess, CompleteIsQuiet,
     EndingKnown, KillsAreOverdue, InterruptIsOwn
<1>4. CASE UNCHANGED vars
  BY <1>4 DEF vars, IInv, TypeOK, DisjointAccess, CompleteIsQuiet,
     EndingKnown, KillsAreOverdue, InterruptIsOwn
<1> QED BY <1>1, <1>2, <1>3, <1>4 DEF Next

THEOREM Invariance == Spec => []IInv
BY InitIInv, NextIInv, PTL DEF Spec

(* The type invariant of the watchdog, for any threads and program length. *)
THEOREM TypeCorrect == Spec => []TypeOK
<1>1. IInv => TypeOK BY DEF IInv
<1> QED BY <1>1, Invariance, PTL

(* No lock is needed: the driver and at most one worker never touch the    *)
(* machine's registers, memory, flags and ip at the same time.             *)
THEOREM NoOverlap == Spec => []DisjointAccess
<1>1. IInv => DisjointAccess BY DEF IInv
<1> QED BY <1>1, Invariance, PTL

(* With a reset by the caller or by the worker, sleepUntilComplete returns *)
(* FALSE only for a run that went to its end, ...                          *)
THEOREM InTimeRunsAreWhole ==
    ASSUME CallerResets \/ DoReset PROVE Spec => []InTimeIsFull
<1>1. IInv => InTimeIsFull
  BY DEF IInv, TypeOK, EndingKnown, InterruptIsOwn, InTimeIsFull
<1> QED BY <1>1, Invariance, PTL

(* ... and a run is cut only when its own time limit has passed.           *)
THEOREM CutRunsAreOverdue ==
    ASSUME CallerResets \/ DoReset PROVE Spec => []OnlyOverdueIsCut
<1>1. IInv => OnlyOverdueIsCut
  BY DEF IInv, KillsAreOverdue, InterruptIsOwn, OnlyOverdueIsCut
<1> QED BY <1>1, Invariance, PTL

(* The detailed specification under the genetic algorithm's driver         *)
(* implements TimedRun: the answer is the registers of a whole run, or     *)
(* zeros and then the limit has passed.                                    *)
THEOREM Refinement == ASSUME CallerResets PROVE Spec => PromiseSafety
<1> USE DEF Promise!Init, Promise!Next, Promise!vars, Promise!Submit,
        Promise!Expire, Promise!Answer
<1>1. Init => Promise!Init
  BY DEF Init
<1>2. IInv /\ [Next]_vars => [Promise!Next]_Promise!vars
  <2> SUFFICES ASSUME IInv, [Next]_vars PROVE [Promise!Next]_Promise!vars
    OBVIOUS
  <2>1. CASE ApplyInput    BY <2>1 DEF ApplyInput
  <2>2. CASE ClearComplete BY <2>2 DEF ClearComplete
  <2>3. CASE Spawn         BY <2>3 DEF Spawn
  <2>4. CASE PollComplete  BY <2>4 DEF PollComplete
  <2>5. CASE PollPending   BY <2>5 DEF PollPending
  <2>6. CASE CheckClock    BY <2>6 DEF CheckClock
  <2>7. CASE KillThread    BY <2>7 DEF KillThread
  <2>8. CASE ReadResult
    BY <2>8 DEF ReadResult, IInv, TypeOK, EndingKnown, KillsAreOverdue,
       InterruptIsOwn
  <2>9. CASE Expire        BY <2>9 DEF Expire, IInv, TypeOK
  <2>10. CASE \E w \in Workers : Worker(w)
    <3>1. UNCHANGED <<sup, expired, result>>
      BY <2>10 DEF Worker, StartRun, TestIp, LoadInterrupt, ClearInterrupt,
         ExecuteOp, StoreComplete
    <3> QED BY <3>1
  <2>11. CASE UNCHANGED vars BY <2>11 DEF vars
  <2> QED BY <2>1, <2>2, <2>3, <2>4, <2>5, <2>6, <2>7, <2>8, <2>9, <2>10,
             <2>11 DEF Next, Supervisor
<1> QED BY <1>1, <1>2, Invariance, PTL DEF Spec, PromiseSafety, Promise!Safety
=============================================================================
