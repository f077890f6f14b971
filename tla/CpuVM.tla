------------------------------- MODULE CpuVM -------------------------------
(***************************************************************************)
(* CpuSimulator of src/Cpu/include/Cpu2.h: fetching an instruction from    *)
(* the program's bytes, decoding it, executing it, and the reset between   *)
(* two runs of one program that the genetic algorithm makes (Genetic.h,    *)
(* getResult and applyInput).  Programs are sequences of instructions      *)
(* <<opcode, left, right>>; bytes beyond the last are zero, as applyDna    *)
(* leaves them.                                                            *)
(*                                                                         *)
(* An access outside an array, undefined in C++, takes the machine to the  *)
(* status "undefined", from which nothing is claimed.                      *)
(***************************************************************************)
EXTENDS CpuFloats, CpuOps, Sequences

CONSTANTS
    REGISTER_SIZE, MEMORY_SIZE, GRAPHICS_SIZE,
    Programs,       \* the programs to run
    Inputs,         \* the values setMemory(0, _) gives a run
    Garbage,        \* what uninitialised variables may hold
    MaxOps          \* bound: a run is interrupted after so many instructions

FLAGS == 4

ASSUME SizesAssumption ==
    /\ REGISTER_SIZE \in Nat \ {0} /\ MEMORY_SIZE \in Nat \ {0}
    /\ GRAPHICS_SIZE \in Nat \ {0}
    /\ MEMORY_SIZE <= Half /\ GRAPHICS_SIZE <= Half
    /\ Inputs \subseteq Word /\ Garbage \subseteq Word /\ MaxOps \in Nat

Instruction == (0..255) \X Word \X Word

(* Every program buffer of the repository has 0xFFFF bytes (main.cpp:18,   *)
(* Genetic.h:251): far from the 2 ^ 23 up to which float division is exact.*)
ASSUME ProgramsAssumption ==
    \A p \in Programs :
        p \in Seq(Instruction) /\ OpSize * Len(p) <= 2 ^ (FloatBits - 1)

VARIABLES
    prog,                               \* the program, fixed after Init
    noise,                              \* a value of Garbage, fixed likewise
    input,                              \* the sample, fixed likewise
    registers, flags, memory, graphics, \* the arrays
    mp, gp,                             \* memory and graphics pointer
    ip,                                 \* instruction pointer, in bytes
    ops,                                \* instructions executed in this run
    status,                             \* where runProgram is
    first                               \* what the first run left

fixed == <<prog, noise, input>>
cells == <<registers, flags, memory, graphics, mp, gp>>
vars == <<fixed, cells, ip, ops, status, first>>

progLength == OpSize * Len(prog)

TypeOK ==
    /\ registers \in [0..REGISTER_SIZE - 1 -> Word]
    /\ flags \in [0..FLAGS - 1 -> Word]
    /\ memory \in [0..MEMORY_SIZE - 1 -> Word]
    /\ graphics \in [0..GRAPHICS_SIZE - 1 -> Word]
    /\ {mp, gp, ip} \subseteq Word
    /\ ops \in 0..MaxOps
    /\ status \in {"running", "ended", "cut", "undefined"}

-----------------------------------------------------------------------------
(* reset(), then setMemory(0, input).                                      *)
ResetFlags_Forgotten(old) == old
ResetFlags(old) == [i \in 0..FLAGS - 1 |-> 0]

Reset ==
    /\ registers' = [i \in 0..REGISTER_SIZE - 1 |-> 0]
    /\ flags' = ResetFlags(flags)
    /\ memory' = [i \in 0..MEMORY_SIZE - 1 |-> IF i = 0 THEN input ELSE 0]
    /\ UNCHANGED <<graphics, mp, gp>>

(* The machine as applyInput hands it to the first run.                    *)
Init ==
    /\ prog \in Programs /\ noise \in Garbage /\ input \in Inputs
    /\ registers = [i \in 0..REGISTER_SIZE - 1 |-> 0]
    /\ flags = [i \in 0..FLAGS - 1 |-> 0]
    /\ memory = [i \in 0..MEMORY_SIZE - 1 |-> IF i = 0 THEN input ELSE 0]
    /\ graphics = [i \in 0..GRAPHICS_SIZE - 1 |-> noise]
    /\ mp = 0 /\ gp = 0 /\ ip = 0 /\ ops = 0
    /\ status = "running"
    /\ first = <<>>

-----------------------------------------------------------------------------
(* Fetch and decode.                                                       *)

(* Byte a of the program buffer: addToProgram wrote instruction a \div     *)
(* OpSize there, applyDna's fill the zeros behind the last.                *)
CodeByte(a) ==
    IF a >= progLength THEN 0
    ELSE LET instr == prog[a \div OpSize + 1]
             k == a % OpSize
         IN IF k = 0 THEN instr[1]
            ELSE IF k <= WordBytes THEN ByteOf(instr[2], k - 1)
            ELSE ByteOf(instr[3], k - 1 - WordBytes)

(* executeOp(vector): left from code[1..n], right from code[n+1..2n].      *)
Operand_SameBytes(i) ==
    WordOf([k \in 0..WordBytes - 1 |-> CodeByte(ip + 1 + k)], noise)
Operand(i) ==
    WordOf([k \in 0..WordBytes - 1 |-> CodeByte(ip + 1 + i * WordBytes + k)],
           noise)

Fetched == <<CodeByte(ip), Operand(0), Operand(1)>>

(* rangeCheckPointers, and the pointer and array that flags[2] (left) and  *)
(* flags[3] (right) select: GP = 2, everything else is MP.                 *)
Checked_OffByOne(p, size) == Between(p, 0, size)
Checked(p, size) == Between(p, 0, size - 1)

Selected(f) == IF flags[f] = 2 THEN "gp" ELSE "mp"

Pointer(which) ==
    IF which = "gp" THEN Checked(gp, GRAPHICS_SIZE) ELSE Checked(mp, MEMORY_SIZE)

CellIn(which) ==
    IF which = "gp" THEN graphics[Pointer("gp")] ELSE memory[Pointer("mp")]

(* The value of an operand of this kind.                                   *)
Value(kind, index, which) ==
    CASE kind = "number"   -> index
      [] kind = "register" -> registers[index]
      [] kind = "flag"     -> flags[index]
      [] kind = "memory"   -> CellIn(which)
      [] kind = "pointer"  -> Pointer(which)
      [] OTHER             -> 0

(* Is the access to that operand inside its array?                         *)
Inside(kind, index, which) ==
    /\ kind = "register" => index \in DOMAIN registers
    /\ kind = "flag" => index \in DOMAIN flags
    /\ kind = "memory" => IF which = "gp" THEN Pointer("gp") \in DOMAIN graphics
                                          ELSE Pointer("mp") \in DOMAIN memory

-----------------------------------------------------------------------------
(* Executing one instruction.                                              *)

Decoded == Case(Fetched[1])
Name == Decoded[1]
LeftInside == Inside(Decoded[2], Fetched[2], Selected(2))
RightInside == Inside(Decoded[3], Fetched[3], Selected(3))
LeftValue == Value(Decoded[2], Fetched[2], Selected(2))
RightValue == Value(Decoded[3], Fetched[3], Selected(3))

Assigning == {"mov", "add", "sub", "mul", "or", "and", "xor", "not"}
Jumping == {"jmp", "jgt", "jngt", "je", "jne"}

(* shl and shr compute a value and drop it.                                *)
Idle == {"nop", "unknown", "shl", "shr"}

Result(name, a, b) ==
    CASE name = "mov" -> b
      [] name = "add" -> Wrap(a + b)
      [] name = "sub" -> Wrap(a - b)
      [] name = "mul" -> Wrap(a * b)
      [] name = "or"  -> BitOr(a, b)
      [] name = "and" -> BitAnd(a, b)
      [] name = "xor" -> BitXor(a, b)
      [] name = "not" -> -a - 1

(* The loop test and the interrupt test of runProgram let it go on.        *)
Executing == status = "running" /\ ip \in 0..progLength - 1 /\ ops < MaxOps

Goto(target) ==
    /\ ip' = Wrap(target)
    /\ ops' = ops + 1
    /\ UNCHANGED <<fixed, status, first>>

CheckPointers == mp' = Pointer("mp") /\ gp' = Pointer("gp")

Assign ==
    /\ Executing /\ Name \in Assigning /\ LeftInside /\ RightInside
    /\ LET kind == Decoded[2]
           which == Selected(2)
           value == Result(Name, LeftValue, RightValue)
           Put(array, k) == [array EXCEPT ![k] = value]
       IN /\ registers' = IF kind = "register" THEN Put(registers, Fetched[2])
                                               ELSE registers
          /\ flags' = IF kind = "flag" THEN Put(flags, Fetched[2]) ELSE flags
          /\ memory' = IF kind = "memory" /\ which = "mp"
                       THEN Put(memory, Pointer("mp")) ELSE memory
          /\ graphics' = IF kind = "memory" /\ which = "gp"
                         THEN Put(graphics, Pointer("gp")) ELSE graphics
          /\ mp' = IF kind = "pointer" /\ which = "mp" THEN value ELSE Pointer("mp")
          /\ gp' = IF kind = "pointer" /\ which = "gp" THEN value ELSE Pointer("gp")
    /\ Goto(ip + OpSize)

(* flags[0] is assigned before the right operand is read again for         *)
(* flags[1]; with cmp x f0 the second comparison sees the new flags[0].    *)
Compare ==
    /\ Executing /\ Name = "cmp" /\ LeftInside /\ RightInside
    /\ LET greater == IF LeftValue > RightValue THEN 1 ELSE 0
           again == IF Decoded[3] = "flag" /\ Fetched[3] = 0
                    THEN greater ELSE RightValue
       IN flags' = [flags EXCEPT ![0] = greater,
                                 ![1] = IF LeftValue = again THEN 1 ELSE 0]
    /\ CheckPointers
    /\ Goto(ip + OpSize)
    /\ UNCHANGED <<registers, memory, graphics>>

(* jmp_range_check: the quotient times getOpSize() is an int again, and    *)
(* can overflow, close to the least and the greatest int.                  *)
RoundedDown(a) == OpSize * Quotient(a)
Clamped(x) == Least(Greatest(0, x), progLength - 1)

Landing_LastInstruction(a) ==
    Least(Greatest(0, Wrap(RoundedDown(a))), progLength - OpSize)
Landing_NotRounded(a) == Clamped(a)
Landing(a) == Clamped(Wrap(RoundedDown(a)))

(* The "branchless" arithmetic of the conditional jumps, on flags that     *)
(* hold any word.                                                          *)
Not(f) == IF f = 0 THEN 1 ELSE 0
JumpedTo ==
    LET away == Landing(LeftValue) - OpSize
    IN CASE Name = "jmp"  -> away
         [] Name = "jgt"  -> flags[0] * away + Not(flags[0]) * ip
         [] Name = "jngt" -> Not(flags[0]) * away + flags[0] * ip
         [] Name = "je"   -> flags[1] * away + Not(flags[1]) * ip
         [] Name = "jne"  -> Not(flags[1]) * away + flags[1] * ip

Jump ==
    /\ Executing /\ Name \in Jumping /\ LeftInside
    /\ CheckPointers
    /\ Goto(Wrap(JumpedTo) + OpSize)
    /\ UNCHANGED <<registers, flags, memory, graphics>>

NoEffect ==
    /\ Executing /\ Name \in Idle
    /\ CheckPointers
    /\ Goto(ip + OpSize)
    /\ UNCHANGED <<registers, flags, memory, graphics>>

(* A register or flag number, or ip itself, outside its array.             *)
LeaveArrays ==
    /\ status = "running"
    /\ \/ ip < 0
       \/ Executing /\ Name \notin Idle /\ ~(LeftInside /\ RightInside)
    /\ status' = "undefined"
    /\ UNCHANGED <<fixed, cells, ip, ops, first>>

-----------------------------------------------------------------------------
(* The run around it.                                                      *)
EndRun ==
    /\ status = "running" /\ ip >= progLength
    /\ status' = "ended"
    /\ UNCHANGED <<fixed, cells, ip, ops, first>>

(* The watchdog's interrupt, found set before an instruction.              *)
CutRun ==
    /\ status = "running" /\ ip < progLength
    /\ status' = "cut"
    /\ UNCHANGED <<fixed, cells, ip, ops, first>>

(* The same sample again: applyInput resets the machine, runProgram starts *)
(* the same program at 0.  What the first run left is remembered.          *)
NextSample ==
    /\ status \in {"ended", "cut"} /\ first = <<>>
    /\ Reset
    /\ ip' = 0 /\ ops' = 0
    /\ status' = "running"
    /\ first' = <<[status |-> status, registers |-> registers,
                   unmoved |-> mp = 0 /\ gp = 0
                               /\ \A i \in DOMAIN graphics : graphics[i] = noise]>>
    /\ UNCHANGED fixed

Next ==
    \/ Assign \/ Compare \/ Jump \/ NoEffect \/ LeaveArrays
    \/ EndRun \/ CutRun \/ NextSample

Spec == Init /\ [][Next]_vars

-----------------------------------------------------------------------------
(* What a program does, read off its instructions.                         *)

NumberJumps(p) == {i \in DOMAIN p : /\ Case(p[i][1])[1] \in Jumping
                                    /\ Case(p[i][1])[2] = "number"}
RegisterJumps(p) == {i \in DOMAIN p : p[i][1] = 54}

(* Registers and flags that exist, and no write to the two flags that the  *)
(* conditional jumps compute with.                                         *)
WellFormed(p) ==
    \A i \in DOMAIN p :
        LET case == Case(p[i][1])
        IN /\ case[1] # "unknown"
           /\ case[2] = "register" => p[i][2] \in 0..REGISTER_SIZE - 1
           /\ case[2] = "flag" => p[i][2] \in 2..FLAGS - 1
           /\ case[3] = "register" => p[i][3] \in 0..REGISTER_SIZE - 1
           /\ case[3] = "flag" => p[i][3] \in 0..FLAGS - 1

(* The last byte of the program, where a jump past the end lands.          *)
LastByte(p) == ByteOf(p[Len(p)][3], WordBytes - 1)

(* Every jump is to a constant that jmp_range_check rounds without an      *)
(* overflow: with an int of four bytes, to one from -2147483583 to         *)
(* 2147483583.                                                             *)
ConstantJumps(p) ==
    /\ RegisterJumps(p) = {}
    /\ \A i \in NumberJumps(p) : RoundedDown(p[i][2]) \in Word

(* Every jump is to such a constant, and further on; and the last byte,    *)
(* read as an opcode, does not jump back to byte 0.                        *)
ForwardOnly(p) ==
    /\ WellFormed(p) /\ ConstantJumps(p)
    /\ \A i \in NumberJumps(p) : p[i][2] >= i * OpSize
    /\ p # <<>> => Case(LastByte(p))[1] \notin Jumping

(* Every jump is to such a constant, and not behind the program.           *)
JumpsInside(p) ==
    /\ WellFormed(p) /\ ConstantJumps(p)
    /\ \A i \in NumberJumps(p) : p[i][2] < OpSize * Len(p)

(* "the point of this vm is to be very robust so instead of dying when     *)
(* indexing out of bounds, it just doesnt die" (Cpu2.h:546): a well-formed *)
(* program never leaves an array, whatever pointers it computes and        *)
(* wherever its jumps land, in the middle of an instruction included.      *)
WellFormedIsRobust == WellFormed(prog) => status # "undefined"

(* What assembling stored and executeOp fetches are the same instruction,  *)
(* although left and right are read before they are initialised.           *)
FetchIsProgram ==
    status = "running" /\ ip \in 0..progLength - 1 /\ ip % OpSize = 0
        => Fetched = prog[ip \div OpSize + 1]

(* A program that only jumps forward, even past its own end, stops without *)
(* the watchdog: float division never rounds a target back over the jump.  *)
ForwardProgramsEnd == ForwardOnly(prog) => ops <= Len(prog) + 1

(* "always round down" (Cpu2.h:1170): the division in float keeps ip on an *)
(* instruction for every target before the program's end, negative ones    *)
(* included.                                                               *)
JumpsStayAligned ==
    JumpsInside(prog) /\ ip < progLength => ip % OpSize = 0

(* reset() between two samples makes the second run forget the first, as   *)
(* long as the first left mp, gp and graphics as it found them.            *)
ResetForgetsTheRest ==
    status = "ended" /\ first # <<>> /\ first[1].status = "ended"
        /\ first[1].unmoved => registers = first[1].registers

=============================================================================
