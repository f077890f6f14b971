----------------------------- MODULE CpuFloats -----------------------------
(***************************************************************************)
(* The division of jmp_range_check (Cpu2.h:1176), which is made in float:  *)
(* both numbers and their quotient are rounded to FloatBits binary digits, *)
(* ties to even, before the quotient is truncated to an int.  A float's    *)
(* exponent has room for every word.                                       *)
(***************************************************************************)
EXTENDS CpuWords, FiniteSetsExt

CONSTANT FloatBits      \* the digits of a float's significand, 24 in the build

(* getOpSize() is exact as a float, and a word longer than a significand.  *)
ASSUME FloatBitsAssumption ==
    /\ FloatBits \in Nat /\ OpSize <= 2 ^ FloatBits
    /\ FloatBits + 3 <= 8 * WordBytes

(* The integer nearest to n / d.                                           *)
Nearest(n, d) ==
    LET q == n \div d
        r == n % d
    IN IF 2 * r < d \/ (2 * r = d /\ q % 2 = 0) THEN q ELSE q + 1

Powers(k) == {2 ^ e : e \in 0..k}

(* (int) of the float nearest to n / d, for n >= 0: the digits that the    *)
(* whole part leaves free are binary places, the digits it has too many    *)
(* are zeros.                                                              *)
FloatQuotient(n, d) ==
    IF n < d * 2 ^ FloatBits
    THEN LET s == Max({t \in Powers(FloatBits) : n * t < d * 2 ^ FloatBits})
         IN Nearest(n * s, d) \div s
    ELSE LET u == Min({v \in Powers(8 * WordBytes) : n < d * 2 ^ FloatBits * v})
         IN u * Nearest(n, d * u)

(* (int)((float)a / (float)getOpSize())                                    *)
Quotient(a) ==
    IF a < 0 THEN -FloatQuotient(FloatQuotient(-a, 1), OpSize)
             ELSE FloatQuotient(FloatQuotient(a, 1), OpSize)
=============================================================================
