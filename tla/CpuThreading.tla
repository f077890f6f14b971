---------------------------- MODULE CpuThreading ----------------------------
(***************************************************************************)
(* The watchdog of src/Cpu/include/CpuThreading.h around the virtual       *)
(* machine of Cpu2.h: a supervisor thread starts one detached worker per   *)
(* run, polls isCompleteZ every 10us and, once the limit has passed, sets  *)
(* the machine's interrupt flag on every further poll until the worker is  *)
(* done.  The supervisor is a driver's loop over inputs, Genetic.h's       *)
(* getResult (CallerResets) or the main of src/Cpu (no reset).             *)
(*                                                                         *)
(* A step is one access to a shared atomic, or a stretch of code whose     *)
(* other accesses DisjointAccess shows to be undisturbed.  What a program  *)
(* computes is left to CpuVM: here an instruction may go to any other.     *)
(* isStarted, isDoneDying and init are written and never read (both reads, *)
(* lines 57 and 98, are commented out) and are left out.                   *)
(***************************************************************************)
EXTENDS Naturals

CONSTANTS
    Workers,       \* the threads runProgram can start
    ProgLength,    \* number of instructions in the program
    CallerResets,  \* the driver calls cpu->reset() before a run and drops
                   \* the registers of a run that took too long (Genetic.h)
    DoReset        \* runProgram's third argument: the worker calls reset()

ASSUME WorkersAssumption == Workers # {}
ASSUME ProgLengthAssumption == ProgLength \in Nat
ASSUME ResetAssumption == CallerResets \in BOOLEAN /\ DoReset \in BOOLEAN

VARIABLES
    isCompleteZ,   \* std::atomic<bool> of CpuRunProgramThread
    interruptz,    \* std::atomic<bool> of CpuSimulator
    ip,            \* CpuSimulator's instruction pointer, a plain member
    sup,           \* where the supervisor thread is
    wrk,           \* where each worker thread is
    tookTooLong,   \* local of sleepUntilComplete
    expired,       \* now >= endTime, of the current sleepUntilComplete
    ending,        \* history: how the current run's loop was left
    result         \* what the driver took from the run

vars == <<isCompleteZ, interruptz, ip, sup, wrk, tookTooLong, expired, ending,
          result>>

SupPc == {"idle", "ready", "spawn", "poll", "clock", "kill", "read"}
WrkPc == {"none", "start", "test", "load", "clear", "exec", "store"}

(* The supervisor is inside sleepUntilComplete.                            *)
Waiting == {"poll", "clock", "kill"}

(* The worker thread exists and has not yet published its completion.      *)
Running(w) == wrk[w] # "none"

TypeOK ==
    /\ isCompleteZ \in BOOLEAN /\ interruptz \in BOOLEAN
    /\ tookTooLong \in BOOLEAN /\ expired \in BOOLEAN
    /\ ip \in 0..ProgLength
    /\ sup \in SupPc
    /\ wrk \in [Workers -> WrkPc]
    /\ ending \in {"none", "full", "cut"}
    /\ result \in {"none", "full", "cut", "zeros"}

Init ==
    /\ isCompleteZ = FALSE /\ interruptz = FALSE
    /\ tookTooLong = FALSE /\ expired = FALSE
    /\ ip = 0
    /\ sup = "idle"
    /\ wrk = [w \in Workers |-> "none"]
    /\ ending = "none"
    /\ result = "none"

-----------------------------------------------------------------------------
(* The decisions of the two threads, and beside each the slip that the     *)
(* properties below would expose (named Of_Slip).                          *)

(* The interrupt flag after CpuSimulator::reset(), if it is called.        *)
AfterReset_ForgetsInterrupt(called) == interruptz
AfterReset(called) == interruptz /\ ~called

IsComplete_AfterKill == isCompleteZ \/ tookTooLong
IsComplete == isCompleteZ

Overdue_KillsOnce == expired /\ ~tookTooLong
Overdue == expired

(* Where an instruction can leave ip; ProgLength stands for every value    *)
(* the loop test ends at.                                                  *)
Targets == 0..ProgLength

(* getResult keeps its zeros when the run took too long; the main of       *)
(* src/Cpu prints register 0 whatever sleepUntilComplete returned.         *)
Answer_Unchecked == ending
Answer == IF CallerResets /\ tookTooLong THEN "zeros" ELSE ending

-----------------------------------------------------------------------------
(* The supervisor thread.                                                  *)

(* The driver prepares the machine: reset() clears the interrupt flag with *)
(* the registers, setMemory writes the input.                              *)
ApplyInput ==
    /\ sup = "idle"
    /\ sup' = "ready"
    /\ interruptz' = AfterReset(CallerResets)
    /\ result' = "none"
    /\ UNCHANGED <<isCompleteZ, ip, wrk, tookTooLong, expired, ending>>

(* runProgram up to the creation of the thread.                            *)
ClearComplete ==
    /\ sup = "ready"
    /\ sup' = "spawn"
    /\ isCompleteZ' = FALSE
    /\ UNCHANGED <<interruptz, ip, wrk, tookTooLong, expired, ending, result>>

(* The thread starts, detached; the driver enters sleepUntilComplete.      *)
Spawn ==
    /\ sup = "spawn"
    /\ sup' = "poll"
    /\ \E w \in Workers : ~Running(w) /\ wrk' = [wrk EXCEPT ![w] = "start"]
    /\ tookTooLong' = FALSE
    /\ expired' = FALSE
    /\ ending' = "none"
    /\ UNCHANGED <<isCompleteZ, interruptz, ip, result>>

PollComplete ==
    /\ sup = "poll" /\ IsComplete
    /\ sup' = "read"
    /\ UNCHANGED <<isCompleteZ, interruptz, ip, wrk, tookTooLong, expired,
                   ending, result>>

PollPending ==
    /\ sup = "poll" /\ ~IsComplete
    /\ sup' = "clock"
    /\ UNCHANGED <<isCompleteZ, interruptz, ip, wrk, tookTooLong, expired,
                   ending, result>>

(* now >= endTime decides between killThread and the 10us sleep.           *)
CheckClock ==
    /\ sup = "clock"
    /\ sup' = IF Overdue THEN "kill" ELSE "poll"
    /\ UNCHANGED <<isCompleteZ, interruptz, ip, wrk, tookTooLong, expired,
                   ending, result>>

KillThread ==
    /\ sup = "kill"
    /\ sup' = "poll"
    /\ interruptz' = TRUE
    /\ tookTooLong' = TRUE
    /\ UNCHANGED <<isCompleteZ, ip, wrk, expired, ending, result>>

ReadResult ==
    /\ sup = "read"
    /\ sup' = "idle"
    /\ result' = Answer
    /\ UNCHANGED <<isCompleteZ, interruptz, ip, wrk, tookTooLong, expired,
                   ending>>

-----------------------------------------------------------------------------
(* A worker thread: subThreadRunThing and, in it, CpuSimulator::runProgram. *)

Goto(w, from, to) == wrk[w] = from /\ wrk' = [wrk EXCEPT ![w] = to]

StartRun(w) ==
    /\ Goto(w, "start", "test")
    /\ interruptz' = AfterReset(DoReset)
    /\ ip' = 0
    /\ UNCHANGED <<isCompleteZ, sup, tookTooLong, expired, ending, result>>

(* ip < progLength                                                         *)
TestIp(w) ==
    /\ Goto(w, "test", IF ip < ProgLength THEN "load" ELSE "store")
    /\ ending' = IF ip < ProgLength THEN ending ELSE "full"
    /\ UNCHANGED <<isCompleteZ, interruptz, ip, sup, tookTooLong, expired,
                   result>>

LoadInterrupt(w) ==
    /\ Goto(w, "load", IF interruptz THEN "clear" ELSE "exec")
    /\ UNCHANGED <<isCompleteZ, interruptz, ip, sup, tookTooLong, expired,
                   ending, result>>

(* interruptz.store(false); break                                          *)
ClearInterrupt(w) ==
    /\ Goto(w, "clear", "store")
    /\ interruptz' = FALSE
    /\ ending' = "cut"
    /\ UNCHANGED <<isCompleteZ, ip, sup, tookTooLong, expired, result>>

(* One instruction and ip += opsize.                                       *)
ExecuteOp(w) ==
    /\ Goto(w, "exec", "test")
    /\ ip' \in Targets
    /\ UNCHANGED <<isCompleteZ, interruptz, sup, tookTooLong, expired, ending,
                   result>>

(* isCompleteZ.store(true), the thread's last access to anything.          *)
StoreComplete(w) ==
    /\ Goto(w, "store", "none")
    /\ isCompleteZ' = TRUE
    /\ UNCHANGED <<interruptz, ip, sup, tookTooLong, expired, ending, result>>

(* high_resolution_clock reaches endTime.                                  *)
Expire ==
    /\ sup \in Waiting /\ ~expired
    /\ expired' = TRUE
    /\ UNCHANGED <<isCompleteZ, interruptz, ip, sup, wrk, tookTooLong, ending,
                   result>>

-----------------------------------------------------------------------------
Supervisor ==
    \/ ApplyInput \/ ClearComplete \/ Spawn
    \/ PollComplete \/ PollPending \/ CheckClock \/ KillThread
    \/ ReadResult

Worker(w) ==
    \/ StartRun(w) \/ TestIp(w) \/ LoadInterrupt(w) \/ ClearInterrupt(w)
    \/ ExecuteOp(w) \/ StoreComplete(w)

Next == Supervisor \/ Expire \/ \E w \in Workers : Worker(w)

(* The operating system runs both threads and the clock advances; nothing  *)
(* is assumed of the program, which may loop for ever.                     *)
Fairness ==
    /\ WF_vars(Supervisor)
    /\ WF_vars(Expire)
    /\ \A w \in Workers : WF_vars(Worker(w))

Spec == Init /\ [][Next]_vars

FairSpec == Spec /\ Fairness

-----------------------------------------------------------------------------
(* Neither the driver's use of the machine (reset, setMemory, getRegister, *)
(* runProgram's own stores) nor another worker's run overlaps a worker     *)
(* still in runProgram or about to publish its completion, although no     *)
(* lock guards registers, memory, flags or ip.                             *)
DisjointAccess ==
    \A w \in Workers : Running(w) =>
        /\ sup \in Waiting
        /\ \A v \in Workers : Running(v) => v = w

(* A run that sleepUntilComplete reports as in time went to its end: no    *)
(* interrupt meant for an earlier run, or raised twice for it, cut it.     *)
InTimeIsFull == sup = "read" /\ ~tookTooLong => ending = "full"

(* "we kill it if it runs for too long" (CpuThreading.h:7): a run is cut   *)
(* only when its own time limit has passed.                                *)
OnlyOverdueIsCut == ending = "cut" => expired

(* sleepUntilComplete returns, also when the program never ends and when   *)
(* a kill is lost to the worker's reset().                                 *)
SleepReturns == sup = "poll" ~> sup = "read"

(* The genetic algorithm's driver implements the promise TimedRun states.  *)
Promise == INSTANCE TimedRun WITH
    phase <- IF sup = "idle" THEN "idle" ELSE "running",
    expired <- expired /\ sup \notin {"ready", "spawn"}
PromiseSafety == Promise!Safety
PromiseSpec == Promise!Spec
=============================================================================
