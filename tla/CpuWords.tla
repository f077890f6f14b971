------------------------------ MODULE CpuWords ------------------------------
(***************************************************************************)
(* The machine words of CpuSimulator<cpu_t> and the bytes of its           *)
(* instructions: cpu_t is a signed integer of WordBytes bytes (int in      *)
(* every use, where signed arithmetic wraps as the build's code does); an  *)
(* instruction is an opcode byte and two words, least significant byte     *)
(* first.                                                                  *)
(***************************************************************************)
EXTENDS Integers

CONSTANT WordBytes      \* sizeof(cpu_t)

ASSUME WordBytesAssumption == WordBytes \in Nat \ {0}

Half == 2 ^ (8 * WordBytes - 1)
Word == -Half .. Half - 1

(* The value a cpu_t holds after an operation whose exact result is x.     *)
Wrap_Unsigned(x) == x % (2 * Half)
Wrap(x) == ((x + Half) % (2 * Half)) - Half

(* getOpSize                                                               *)
OpSize == 2 * WordBytes + 1

(* std::min, std::max and helper.h's between(x, lo, hi).                   *)
Least(a, b) == IF a < b THEN a ELSE b
Greatest(a, b) == IF a < b THEN b ELSE a
Between(x, lo, hi) == Greatest(lo, Least(x, hi))

(* addToProgram's loops: byte k of a word is (word >> 8k) & 255, the shift *)
(* of a negative word being arithmetic.                                    *)
ByteOf(word, k) == (word \div 2 ^ (8 * k)) % 256

(* executeOp(vector): acc = (acc << 8) | code[byte] from the last byte to  *)
(* the first, into a variable that starts with whatever it held.           *)
WordOf(byte, start) ==
    LET acc[n \in 0..WordBytes] ==
            IF n = 0 THEN start
            ELSE Wrap(256 * Wrap(acc[n - 1]) + byte[WordBytes - n])
    IN acc[WordBytes]

(* The bitwise operators, on the two's complement of a word.               *)
Digits == (0..1) \X (0..1)
Bit(x, k) == (x \div 2 ^ k) % 2
Bitwise(f, a, b) ==
    LET sum[k \in 0..8 * WordBytes] ==
            IF k = 0 THEN 0
            ELSE sum[k - 1] + 2 ^ (k - 1) * f[<<Bit(a, k - 1), Bit(b, k - 1)>>]
    IN Wrap(sum[8 * WordBytes])
BitOr(a, b) == Bitwise([d \in Digits |-> Greatest(d[1], d[2])], a, b)
BitAnd(a, b) == Bitwise([d \in Digits |-> Least(d[1], d[2])], a, b)
BitXor(a, b) == Bitwise([d \in Digits |-> (d[1] + d[2]) % 2], a, b)
=============================================================================
