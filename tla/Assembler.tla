----------------------------- MODULE Assembler -----------------------------
(***************************************************************************)
(* CpuSimulator::assemble of src/Cpu/include/Cpu2.h: two passes over the   *)
(* same text, the first to find the labels, the second to emit code.       *)
(*                                                                         *)
(* The text is a sequence of lines and a line a sequence of tokens, but    *)
(* the assembler sees tokens only: line ends are white space to it.  A     *)
(* token is a record [kind, val]; kind "word" stands for mnemonics and     *)
(* whatever else is no operand (#define too: its macros are never reached  *)
(* because the first pass rejects the word).  Comments are white space,    *)
(* except one that the end of the text leaves open.                        *)
(***************************************************************************)
EXTENDS CpuWords, CpuOps, SequencesExt

CONSTANT Texts      \* the texts to assemble

Token ==
    [kind : {"word", "label"}, val : STRING]
        \cup [kind : {"number", "register", "memory", "flag", "pointer"}, val : Int]

(* White space is left out, and lines of nothing else with it.             *)
ASSUME TextsAssumption == \A t \in Texts : t \in Seq(Seq(Token) \ {<<>>})

VARIABLES
    lines,          \* the text, fixed after Init
    openComment,    \* it ends in a comment without a newline, fixed likewise
    pos,            \* the next token
    preParse,       \* the first pass
    opI,            \* which part of an instruction the token is
    currentOp,      \* the instruction so far: opcode, left, right
    left, right,    \* the operand types, never reset
    labels,         \* label -> address
    programI,       \* address of the next instruction
    program,        \* the instructions emitted
    outcome         \* "parsing", "done", or why assemble returned 0

fixed == <<lines, openComment>>
vars == <<fixed, pos, preParse, opI, currentOp, left, right, labels, programI,
          program, outcome>>

text == FlattenSeq(lines)
tok == text[pos]

Init ==
    /\ lines \in Texts /\ openComment \in BOOLEAN
    /\ pos = 1 /\ preParse = TRUE /\ opI = 0
    /\ currentOp = <<0, 0, 0>>
    /\ left = "nothing" /\ right = "nothing"
    /\ labels = <<>> /\ programI = 0 /\ program = <<>>
    /\ outcome = "parsing"

-----------------------------------------------------------------------------
(* Reading an operand: a mem, a ptr, a word and a label not yet defined    *)
(* leave the value of the instruction before, the last two its type too.   *)
IsWord == tok.kind = "word"
IsLabel == tok.kind = "label"
Known == IsLabel /\ tok.val \in DOMAIN labels

OperandType(stale) ==
    IF Known THEN "number" ELSE IF IsLabel \/ IsWord THEN stale ELSE tok.kind
OperandValue(stale) ==
    IF Known THEN labels[tok.val]
    ELSE IF tok.kind \in {"number", "register", "flag"} THEN tok.val ELSE stale

(* What atoi makes of the token's text: of "r3" or "end:" a zero.          *)
AtoI == IF Known THEN labels[tok.val]
        ELSE IF tok.kind = "number" THEN tok.val ELSE 0

TooBig(n) == n > Half - 2 \/ -n > Half - 2

IsJump(op) == op \in 48..54

Parsing(part) == outcome = "parsing" /\ pos <= Len(text) /\ opI = part

(* Nothing assemble returns 0 for is the matter with the token.            *)
Rejection ==
    IF tok.kind = "number" /\ TooBig(tok.val) THEN "too big"
    ELSE IF opI = 0
    THEN IF IsLabel THEN IF preParse /\ Known THEN "label exists" ELSE "none"
         ELSE IF IsWord /\ tok.val \in DOMAIN opMap THEN "none"
         ELSE "unknown op"
    ELSE IF IsLabel /\ ~Known /\ ~preParse THEN "no label"
    ELSE IF opI = 2 /\ opOffset(currentOp[1], left, OperandType(right)) = -1
         THEN "invalid offset"
    ELSE "none"

Reject ==
    /\ outcome = "parsing" /\ pos <= Len(text)
    /\ Rejection # "none"
    /\ outcome' = Rejection
    /\ UNCHANGED <<fixed, pos, preParse, opI, currentOp, left, right, labels,
                   programI, program>>

Accept(part) ==
    /\ Parsing(part) /\ Rejection = "none"
    /\ pos' = pos + 1
    /\ UNCHANGED <<fixed, preParse, outcome>>

-----------------------------------------------------------------------------
(* The first token of an instruction, or a label.                          *)
DefineLabel ==
    /\ Accept(0) /\ IsLabel
    /\ labels' = IF ~preParse THEN labels
                 ELSE [name \in DOMAIN labels \cup {tok.val} |->
                         IF name = tok.val THEN programI ELSE labels[name]]
    /\ UNCHANGED <<opI, currentOp, left, right, programI, program>>

BaseOp ==
    /\ Accept(0) /\ IsWord /\ tok.val # "nop"
    /\ currentOp' = [currentOp EXCEPT ![1] = opMap[tok.val]]
    /\ opI' = 1
    /\ UNCHANGED <<left, right, labels, programI, program>>

(* addToProgram, in the second pass only, zeroes the instruction after it  *)
(* has written it.                                                         *)
Emit(instr) ==
    /\ program' = IF preParse THEN program ELSE Append(program, instr)
    /\ currentOp' = IF preParse THEN instr ELSE <<0, 0, 0>>
    /\ programI' = programI + OpSize
    /\ opI' = 0
    /\ UNCHANGED labels

Nop ==
    /\ Accept(0) /\ IsWord /\ tok.val = "nop"
    /\ Emit([currentOp EXCEPT ![1] = opMap["nop"]])
    /\ UNCHANGED <<left, right>>

-----------------------------------------------------------------------------
(* The left operand.  A jump to anything but a number waits for the next   *)
(* token, whatever it is; jmp takes a register as well.                    *)
JumpTarget ==
    /\ Accept(1) /\ IsJump(currentOp[1])
    /\ left' = OperandType(left)
    /\ IF left' = "number" \/ (currentOp[1] = opMap["jmp"] /\ left' = "register")
       THEN Emit(<<IF left' = "register" THEN 54 ELSE currentOp[1], AtoI,
                   currentOp[3]>>)
       ELSE /\ currentOp' = [currentOp EXCEPT ![2] = OperandValue(@)]
            /\ UNCHANGED <<opI, labels, programI, program>>
    /\ UNCHANGED right

NotOffset(type) == MemoryType[type] - 1

NotOperand ==
    /\ Accept(1) /\ currentOp[1] = opMap["not"]
    /\ left' = OperandType(left)
    /\ Emit(<<currentOp[1] + NotOffset(left'), OperandValue(currentOp[2]),
              currentOp[3]>>)
    /\ UNCHANGED right

TwoOperands == ~IsJump(currentOp[1]) /\ currentOp[1] # opMap["not"]

(* The first pass takes a label here for a whole instruction.              *)
LabelOnTheLeft ==
    /\ Accept(1) /\ TwoOperands /\ preParse /\ IsLabel
    /\ left' = OperandType(left)
    /\ currentOp' = [currentOp EXCEPT ![2] = OperandValue(@)]
    /\ programI' = programI + OpSize
    /\ opI' = 0
    /\ UNCHANGED <<right, labels, program>>

LeftOperand ==
    /\ Accept(1) /\ TwoOperands /\ ~(preParse /\ IsLabel)
    /\ left' = OperandType(left)
    /\ currentOp' = [currentOp EXCEPT ![2] = OperandValue(@)]
    /\ opI' = 2
    /\ UNCHANGED <<right, labels, programI, program>>

RightOperand ==
    /\ Accept(2)
    /\ right' = OperandType(right)
    /\ Emit(<<currentOp[1] + opOffset(currentOp[1], left, right'), currentOp[2],
              OperandValue(currentOp[3])>>)
    /\ UNCHANGED left

-----------------------------------------------------------------------------
(* The end of a pass.  An open comment ends assemble after the first.      *)
SecondPassStart == 0

SecondPass ==
    /\ outcome = "parsing" /\ pos > Len(text) /\ preParse /\ ~openComment
    /\ pos' = 1 /\ programI' = SecondPassStart /\ opI' = 0 /\ preParse' = FALSE
    /\ UNCHANGED <<fixed, currentOp, left, right, labels, program, outcome>>

Finish ==
    /\ outcome = "parsing" /\ pos > Len(text) /\ (~preParse \/ openComment)
    /\ outcome' = "done"
    /\ UNCHANGED <<fixed, pos, preParse, opI, currentOp, left, right, labels,
                   programI, program>>

Next ==
    \/ DefineLabel \/ BaseOp \/ Nop
    \/ JumpTarget \/ NotOperand \/ LabelOnTheLeft \/ LeftOperand \/ RightOperand
    \/ Reject \/ SecondPass \/ Finish

Spec == Init /\ [][Next]_vars

-----------------------------------------------------------------------------
(* What a text means, read off its lines.                                  *)

Marks(k) == lines[k][1].kind = "label"

(* How many instructions there are up to line k.                           *)
Number(k) == Cardinality({l \in 1..k : ~Marks(l)})

LineOf(name) == CHOOSE k \in DOMAIN lines : Marks(k) /\ lines[k][1].val = name
Defined == {lines[k][1].val : k \in {l \in DOMAIN lines : Marks(l)}}
Address(name) == OpSize * Number(LineOf(name))

Operand(line, i) ==
    IF i < Len(line) THEN line[i + 1] ELSE [kind |-> "nothing", val |-> 0]
Meant(t) == IF t.kind = "label" THEN [kind |-> "number", val |-> Address(t.val)]
                                ELSE t

(* A line of a mnemonic and operands of the types opArgs lists for it, or  *)
(* the one write to a flag; a label counts as a number.                    *)
Documented(line) ==
    LET args == opArgs[line[1].val]
        Fits(t, types) ==
            IF types = {} THEN t.kind = "nothing" ELSE Meant(t).kind \in types
    IN \/ Fits(Operand(line, 1), args.left) /\ Fits(Operand(line, 2), args.right)
       \/ /\ line[1].val = "mov" /\ Operand(line, 1).kind = "flag"
          /\ Operand(line, 2).kind = "number"

(* A label used before its line can only be sized in the first pass by     *)
(* what the line before left behind.                                       *)
Forward(k) ==
    \E i \in 2..Len(lines[k]) :
        lines[k][i].kind = "label" /\ LineOf(lines[k][i].val) > k
AfterNumberJump(k) ==
    /\ k > 1 /\ Len(lines[k - 1]) = 2
    /\ lines[k - 1][2].kind = "number"

(* Texts assemble handles: every label defined once, documented operands   *)
(* with values that fit, forward labels after a jump to a number.          *)
Regular ==
    /\ \A k, l \in DOMAIN lines :
         Marks(k) /\ Marks(l) /\ lines[k] = lines[l] => k = l
    /\ \A k \in DOMAIN lines :
        /\ Marks(k) => Len(lines[k]) = 1
        /\ \A i \in 2..Len(lines[k]) :
            /\ lines[k][i].kind = "label" => lines[k][i].val \in Defined
            /\ lines[k][i].kind = "number" =>
                 lines[k][i].val \in -(Half - 2)..Half - 2
        /\ ~Marks(k) => /\ lines[k][1].kind = "word" /\ Len(lines[k]) <= 3
                        /\ lines[k][1].val \in DOMAIN opMap
                        /\ Documented(lines[k])
        /\ Forward(k) => Len(lines[k]) = 2 /\ AfterNumberJump(k)

(* Does the machine execute what the line says?                            *)
Performs(instr, line) ==
    LET case == Case(instr[1])
        Is(t, kind, val) ==
            \/ t.kind = "nothing"
            \/ kind = t.kind /\ (t.kind \in {"memory", "pointer"} \/ val = t.val)
    IN /\ case[1] = line[1].val
       /\ Is(Meant(Operand(line, 1)), case[2], instr[2])
       /\ Is(Meant(Operand(line, 2)), case[3], instr[3])

JumpsToRegister(line) == line[1].val = "jmp" /\ line[2].kind = "register"

(* The opcode that the assembler adds up is the case of the switch that    *)
(* does what the line says, on the operands it names and with labels at    *)
(* their addresses.  jmp to a register is the exception: its number is     *)
(* lost.                                                                   *)
CodeDoesWhatTextSays ==
    outcome = "done" /\ Regular /\ ~openComment =>
        /\ Len(program) = Number(Len(lines))
        /\ \A k \in DOMAIN lines :
            \/ Marks(k) \/ JumpsToRegister(lines[k])
            \/ Performs(program[Number(k)], lines[k])

(* A text of documented lines is never rejected (applyDna waits for a key  *)
(* when one is).                                                           *)
RegularTextsAssemble == Regular => outcome \in {"parsing", "done"}

=============================================================================
