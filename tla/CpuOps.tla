------------------------------- MODULE CpuOps -------------------------------
(***************************************************************************)
(* The opcodes, as the two ends of the machine see them: opMap and         *)
(* opOffset with which the assembler builds an opcode, and the case labels *)
(* of executeOp's switch which take it apart.  A MemoryType has the name   *)
(* of its enumerator in lower case.                                        *)
(***************************************************************************)
EXTENDS Integers

MemoryType == [number |-> 0, register |-> 1, memory |-> 2, flag |-> 3,
               pointer |-> 4, nothing |-> 5]

opMap == [mov |-> 0,   nop |-> 55,  add |-> 16,  sub |-> 32,  jmp |-> 48,
          jgt |-> 49,  jngt |-> 50, je |-> 51,   jne |-> 52,  mul |-> 64,
          cmp |-> 80,  or |-> 96,   and |-> 112, xor |-> 128, not |-> 144,
          shl |-> 160, shr |-> 176]

(* The operand types each mnemonic is documented to take.                  *)
opArgs ==
    LET Cells == {"register", "memory", "pointer"}
        Values == {"number", "register", "memory", "flag"}
    IN [op \in DOMAIN opMap |->
          CASE op = "mov" -> [left |-> Cells, right |-> Values \cup {"pointer"}]
            [] op = "nop" -> [left |-> {}, right |-> {}]
            [] op = "not" -> [left |-> Cells, right |-> {}]
            [] op = "jmp" -> [left |-> {"register", "number"}, right |-> {}]
            [] op \in {"jgt", "jngt", "je", "jne"} ->
                             [left |-> {"number"}, right |-> {}]
            [] OTHER      -> [left |-> Cells, right |-> Values]]

(* What the operand types add to the base opcode, -1 if they are invalid;  *)
(* op is the base opcode, and only mov's is below 15.                      *)
InvalidTypes_AnyPointer(op, left, right) ==
    left = "number" \/ right = "pointer"
InvalidTypes(op, left, right) ==
    left = "number" \/ (right = "pointer" /\ op > 14)

Stride_Mov(op) == 5
Stride(op) == IF op <= 14 THEN 5 ELSE 4

opOffset(op, left, right) ==
    IF InvalidTypes(op, left, right) THEN -1
    ELSE MemoryType[right] +
         (CASE left = "memory" -> Stride(op)
            [] left = "pointer" -> 2 * Stride(op)
            [] left = "flag" /\ right = "number" /\ op <= 14 -> 15
            [] OTHER -> 0)

(* The case labels of executeOp's switch: what the opcode does, where its  *)
(* result goes and where its right operand comes from.                     *)
Kinds(i) == <<"register", "memory", "pointer">>[i + 1]
Sources(i) == <<"number", "register", "memory", "flag", "pointer">>[i + 1]
Families == <<"add", "sub", "", "mul", "cmp", "or", "and", "xor", "", "shl",
              "shr">>
Jumps == <<"jmp", "jgt", "jngt", "je", "jne", "jne", "jmp", "nop">>

Case(op) ==
    IF op < 15 THEN <<"mov", Kinds(op \div 5), Sources(op % 5)>>
    ELSE IF op = 15 THEN <<"mov", "flag", "number">>
    ELSE IF op \in 48..55
         THEN <<Jumps[op - 47], IF op = 54 THEN "register" ELSE "number", "">>
    ELSE IF op \in 144..147
         THEN <<"not", <<"register", "memory", "flag", "pointer">>[op - 143], "">>
    ELSE IF op \in 16..187 /\ op % 16 < 12 /\ op \div 16 \notin {3, 9}
         THEN <<Families[op \div 16], Kinds((op % 16) \div 4), Sources(op % 4)>>
    ELSE <<"unknown", "", "">>
=============================================================================
