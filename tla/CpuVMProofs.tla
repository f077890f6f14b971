----------------------------- MODULE CpuVMProofs -----------------------------
(***************************************************************************)
(* Proofs about CpuVM, for every size of the arrays and of a word, every   *)
(* set of programs that fits the memory and every sample.                  *)
(*                                                                         *)
(* First the arithmetic of machine words, then fetching and decoding, then *)
(* the steps of the machine.                                               *)
(***************************************************************************)
EXTENDS CpuVM, SetInductions

-----------------------------------------------------------------------------
(* Words and their bytes.                                                  *)

\* Half of the words are negative, and there are two to the number of their bits.
LEMMA WordSize ==
  /\ Half \in Nat \ {0} /\ 2 * Half = 2 ^ (8 * WordBytes)
  <1>1. 8 * WordBytes - 1 \in Nat /\ 8 * WordBytes = (8 * WordBytes - 1) + 1
    BY WordBytesAssumption
  <1> QED
    BY <1>1, PowerOfTwo, NextPower DEF Half

\* Wrapping gives a word, differs from the exact result by a multiple of the
\* number of words, and leaves a word alone.
LEMMA WrapIsWord ==
  ASSUME NEW x \in Int
  PROVE  /\ Wrap(x) \in Word
         /\ \E m \in Int : Wrap(x) = x - m * (2 * Half)
         /\ x \in Word => Wrap(x) = x
  <1> DEFINE M == 2 * Half
             y == x + Half
  <1>1. M \in Nat \ {0} /\ y \in Int /\ Half \in Nat \ {0}
    BY WordSize
  <1> HIDE DEF M, y
  <1>2. y % M \in 0..M - 1 /\ y \div M \in Int /\ y = M * (y \div M) + (y % M)
    BY <1>1
  <1>3. ASSUME y \in 0..M - 1
        PROVE  y % M = y
    BY <1>1, <1>3
  <1>4. Wrap(x) = (y % M) - Half
    BY DEF Wrap, y, M
  <1>5. Wrap(x) \in Word
    BY <1>1, <1>2, <1>4 DEF Word, M
  <1>6. Wrap(x) = x - (y \div M) * M
    <2>1. M * (y \div M) = (y \div M) * M
      BY <1>1, <1>2
    <2> DEFINE z == M * (y \div M)
    <2> HIDE DEF z
    <2>2. z \in Int
      BY <1>1, <1>2 DEF z
    <2>3. y = z + (y % M)
      BY <1>2 DEF z
    <2>4. Wrap(x) = x - z
      BY <1>1, <1>2, <1>4, <2>2, <2>3 DEF y
    <2> QED
      BY <2>1, <2>4 DEF z
  <1>7. x \in Word => Wrap(x) = x
    BY <1>1, <1>3, <1>4 DEF Word, y, M
  <1> QED
    BY <1>2, <1>5, <1>6, <1>7 DEF M

\* The values of the variable that executeOp shifts the bytes of an operand into.
Accumulates(acc, byte, start) ==
    /\ acc \in [0..WordBytes -> Word]
    /\ acc[0] = start
    /\ \A n \in 1..WordBytes : acc[n] = Wrap(256 * acc[n - 1] + byte[WordBytes - n])
    /\ WordOf(byte, start) = acc[WordBytes]

\* WordOf is what that variable holds in the end.
LEMMA Accumulator ==
  ASSUME NEW byte \in [0..WordBytes - 1 -> Int], NEW start \in Word
  PROVE  \E acc : Accumulates(acc, byte, start)
  <1> DEFINE Read(k, x) == Wrap(256 * Wrap(x) + byte[WordBytes - k])
             step == [p \in (1..WordBytes) \X Word |-> Read(p[1], p[2])]
             IsAcc(f) == f = [k \in 0..WordBytes |-> IF k = 0 THEN start ELSE Read(k, f[k - 1])]
             acc == CHOOSE f : IsAcc(f)
  <1>1. Word \subseteq Int
    BY WordSize DEF Word
  <1>2. \A k \in 1..WordBytes, x \in Word :
            Read(k, x) \in Word /\ Read(k, x) = Wrap(256 * x + byte[WordBytes - k])
    <2>1. ASSUME NEW k \in 1..WordBytes, NEW x \in Word
          PROVE  Read(k, x) \in Word /\ Read(k, x) = Wrap(256 * x + byte[WordBytes - k])
      <3>1. Wrap(x) = x /\ x \in Int
        BY <1>1, WrapIsWord
      <3>2. byte[WordBytes - k] \in Int
        BY WordBytesAssumption
      <3>3. 256 * x + byte[WordBytes - k] \in Int
        BY <3>1, <3>2
      <3> QED
        BY <3>1, <3>3, WrapIsWord
    <2> QED
      BY <2>1
  <1> HIDE DEF Read
  <1>3. step \in [(1..WordBytes) \X Word -> Word]
    BY <1>2
  <1>4. PICK f : Iterates(f, WordBytes, Word, start, step)
    <2>1. WordBytes \in Nat
      BY WordBytesAssumption
    <2> HIDE DEF step
    <2> QED
      BY <1>3, <2>1, Iteration
  <1>5. \A k \in 0..WordBytes : k # 0 => f[k] = Read(k, f[k - 1])
    <2>1. ASSUME NEW k \in 0..WordBytes, k # 0
          PROVE  f[k] = Read(k, f[k - 1])
      <3>1. k \in 1..WordBytes /\ k - 1 \in 0..WordBytes
        BY <2>1, WordBytesAssumption
      <3>2. f[k - 1] \in Word /\ f[k] = step[<<k, f[k - 1]>>]
        BY <1>4, <3>1 DEF Iterates
      <3> QED
        BY <3>1, <3>2
    <2> QED
      BY <2>1
  <1> HIDE DEF step
  <1>6. \A k \in 0..WordBytes : f[k] = IF k = 0 THEN start ELSE Read(k, f[k - 1])
    BY <1>4, <1>5 DEF Iterates
  <1>7. IsAcc(f)
    BY <1>4, <1>6 DEF Iterates
  <1>8. IsAcc(acc)
    BY <1>7
  <1>9. WordOf(byte, start) = acc[WordBytes]
    BY DEF WordOf, Read
  <1> HIDE DEF acc
  <1>10. /\ DOMAIN acc = 0..WordBytes
         /\ \A k \in 0..WordBytes : acc[k] = IF k = 0 THEN start ELSE Read(k, acc[k - 1])
    BY <1>8
  <1> HIDE DEF IsAcc
  <1> DEFINE D == {n \in 0..WordBytes : acc[n] \in Word}
  <1>11. 0..WordBytes \subseteq D
    <2>1. 0 \in D
      BY <1>10, WordBytesAssumption
    <2>2. ASSUME NEW n \in 0..WordBytes - 1, n \in D
          PROVE  n + 1 \in D
      <3>1. n + 1 \in 1..WordBytes /\ n + 1 \in 0..WordBytes /\ n + 1 # 0 /\ (n + 1) - 1 = n
        BY WordBytesAssumption
      <3>2. acc[n + 1] = Read(n + 1, acc[n])
        BY <1>10, <3>1
      <3> QED
        BY <1>2, <2>2, <3>1, <3>2
    <2> HIDE DEF D
    <2> QED
      BY <2>1, <2>2, BoundedInduction, WordBytesAssumption
  <1>12. \A n \in 0..WordBytes : acc[n] \in Word
    BY <1>11
  <1>13. acc \in [0..WordBytes -> Word]
    <2>1. acc = [k \in 0..WordBytes |-> acc[k]]
      BY <1>8 DEF IsAcc
    <2> QED
      BY <1>12, <2>1
  <1>14. \A n \in 1..WordBytes : acc[n] = Wrap(256 * acc[n - 1] + byte[WordBytes - n])
    <2>1. ASSUME NEW n \in 1..WordBytes
          PROVE  acc[n] = Wrap(256 * acc[n - 1] + byte[WordBytes - n])
      <3>1. n \in 0..WordBytes /\ n # 0 /\ n - 1 \in 0..WordBytes
        BY WordBytesAssumption
      <3> QED
        BY <1>2, <1>10, <1>12, <3>1
    <2> QED
      BY <2>1
  <1>15. acc[0] = start
    BY <1>10, WordBytesAssumption
  <1> QED
    BY <1>9, <1>13, <1>14, <1>15 DEF Accumulates

\* What executeOp shifts together is a word, whatever the bytes are.
LEMMA OperandIsWord ==
  ASSUME NEW byte \in [0..WordBytes - 1 -> Int], NEW start \in Word
  PROVE  WordOf(byte, start) \in Word
  <1>1. WordBytes \in 0..WordBytes
    BY WordBytesAssumption
  <1> QED
    BY <1>1, Accumulator DEF Accumulates

\* The bytes that addToProgram made of a word are the word again for executeOp,
\* whatever the variable held that they are shifted into.
LEMMA BytesOfWord ==
  ASSUME NEW word \in Word, NEW start \in Word
  PROVE  WordOf([k \in 0..WordBytes - 1 |-> ByteOf(word, k)], start) = word
  <1> DEFINE byte == [k \in 0..WordBytes - 1 |-> ByteOf(word, k)]
             Rest(n) == word \div 2 ^ (8 * (WordBytes - n))
             M == 2 * Half
  <1>1. /\ WordBytes \in Nat \ {0} /\ Half \in Nat \ {0}
        /\ M = 2 ^ (8 * WordBytes) /\ word \in Int /\ start \in Int
    BY WordBytesAssumption, WordSize DEF Word
  <1>2. \A k \in Nat : 2 ^ (8 * k) \in Nat \ {0}
    <2>1. ASSUME NEW k \in Nat
          PROVE  2 ^ (8 * k) \in Nat \ {0}
      <3>1. 8 * k \in Nat
        OBVIOUS
      <3> QED
        BY <3>1, PowerOfTwo
    <2> QED
      BY <2>1
  <1>3. \A k \in 0..WordBytes - 1 :
            byte[k] = (word \div 2 ^ (8 * k)) % 256 /\ byte[k] \in 0..255
    <2>1. ASSUME NEW k \in 0..WordBytes - 1
          PROVE  byte[k] = (word \div 2 ^ (8 * k)) % 256 /\ byte[k] \in 0..255
      <3>1. byte[k] = (word \div 2 ^ (8 * k)) % 256
        BY DEF ByteOf
      <3>2. 2 ^ (8 * k) \in Nat \ {0}
        BY <1>1, <1>2
      <3> DEFINE p == 2 ^ (8 * k)
      <3> HIDE DEF p, byte
      <3>3. word \div p \in Int
        BY <1>1, <3>2 DEF p
      <3>4. byte[k] \in 0..255
        BY <3>1, <3>3 DEF p
      <3> QED
        BY <3>1, <3>4
    <2> QED
      BY <2>1
  <1>4. byte \in [0..WordBytes - 1 -> Int]
    <2>1. \A k \in 0..WordBytes - 1 : byte[k] \in Int
      BY <1>3
    <2> QED
      BY <2>1
  <1> HIDE DEF byte
  <1>50. PICK acc : Accumulates(acc, byte, start)
    BY <1>4, Accumulator
  <1>5. /\ acc \in [0..WordBytes -> Word]
        /\ acc[0] = start
        /\ \A n \in 1..WordBytes :
                acc[n] = Wrap(256 * acc[n - 1] + byte[WordBytes - n])
        /\ WordOf(byte, start) = acc[WordBytes]
    BY <1>50 DEF Accumulates
  <1>6. \A n \in 0..WordBytes : acc[n] \in Int
    BY <1>1, <1>5 DEF Word
  <1> DEFINE D == {n \in 0..WordBytes : \E q \in Int : acc[n] = Rest(n) + q * 2 ^ (8 * n)}
  <1>7. 0 \in D
    <2>1. Rest(0) = word \div M /\ word \div M \in Int
      BY <1>1
    <2>2. 2 ^ (8 * 0) = 1
      OBVIOUS
    <2> DEFINE r == Rest(0)
               q == start - r
    <2> HIDE DEF Rest, M
    <2>3. r \in Int /\ q \in Int
      BY <1>1, <2>1
    <2>4. acc[0] = Rest(0) + q * 2 ^ (8 * 0)
      BY <1>1, <1>5, <2>2, <2>3
    <2>5. 0 \in 0..WordBytes
      BY <1>1
    <2> HIDE DEF q, r
    <2> QED
      BY <2>3, <2>4, <2>5
  <1>8. ASSUME NEW n \in 0..WordBytes - 1, n \in D
        PROVE  n + 1 \in D
    <2> DEFINE k == WordBytes - (n + 1)
               P == 2 ^ (8 * n)
               N == 2 ^ (8 * (n + 1))
               R == 2 ^ (8 * k)
               d == Rest(n)
               e == Rest(n + 1)
               b == byte[k]
    <2>1. PICK q \in Int : acc[n] = d + q * P
      BY <1>8
    <2>2. /\ n \in Nat /\ k \in Nat /\ k \in 0..WordBytes - 1
          /\ n + 1 \in 1..WordBytes /\ n + 1 \in 0..WordBytes /\ (n + 1) - 1 = n
          /\ WordBytes - n = k + 1
      BY <1>1
    <2>3. P \in Nat \ {0} /\ N \in Nat \ {0} /\ R \in Nat \ {0}
      <3>1. n \in Nat /\ n + 1 \in Nat /\ k \in Nat
        BY <2>2
      <3> HIDE DEF k
      <3> QED
        BY <1>2, <3>1
    <2>4. 2 ^ 8 = 256
      OBVIOUS
    <2>5. N = 256 * P /\ 2 ^ (8 * (k + 1)) = 256 * R /\ M = N * R
      <3>1. /\ 8 * n \in Nat /\ 8 * k \in Nat /\ 8 * (n + 1) = 8 + 8 * n
            /\ 8 * (n + 1) \in Nat
            /\ 8 * (k + 1) = 8 + 8 * k /\ 8 * WordBytes = 8 * (n + 1) + 8 * k
        BY <1>1, <2>2
      <3>2. 2 ^ (8 + 8 * n) = 2 ^ 8 * 2 ^ (8 * n)
        BY <3>1, PowersAdd
      <3>3. 2 ^ (8 + 8 * k) = 2 ^ 8 * 2 ^ (8 * k)
        BY <3>1, PowersAdd
      <3>4. 2 ^ (8 * (n + 1) + 8 * k) = 2 ^ (8 * (n + 1)) * 2 ^ (8 * k)
        BY <3>1, PowersAdd
      <3> QED
        BY <1>1, <2>4, <3>1, <3>2, <3>3, <3>4
    <2>6. e = word \div R /\ b = e % 256 /\ e \in Int
      <3>1. e = word \div R
        OBVIOUS
      <3>2. b = (word \div R) % 256
        BY <1>3, <2>2
      <3> DEFINE x == word \div R
      <3>3. x \in Int
        <4> HIDE DEF R
        <4> QED
          BY <1>1, <2>3
      <3> QED
        BY <3>1, <3>2, <3>3
    <2>7. d = e \div 256
      <3>1. d = word \div (256 * R)
        BY <2>2, <2>5
      <3>2. (word \div R) \div 256 = word \div (256 * R)
        <4> HIDE DEF R
        <4> QED
          BY <1>1, <2>3, DivTwice
      <3> QED
        BY <2>6, <3>1, <3>2
    <2>8. acc[n + 1] = Wrap(256 * acc[n] + b)
      BY <1>5, <2>2
    <2>9. acc[n] \in Int /\ n + 1 \in 0..WordBytes
      <3>1. n \in 0..WordBytes
        BY <1>1
      <3> QED
        BY <1>6, <2>2, <3>1
    <2> HIDE DEF P, N, R, d, e, b, Rest, M, k
    <2>10. 256 * d + b = e /\ d \in Int /\ b \in Int
      BY <2>6, <2>7
    <2>11. 256 * acc[n] + b \in Int
      BY <2>9, <2>10
    <2>12. PICK m \in Int : acc[n + 1] = (256 * acc[n] + b) - m * M
      BY <2>8, <2>11, WrapIsWord DEF M
    <2>13. 256 * acc[n] + b = e + q * N
      <3>1. q * N = 256 * (q * P)
        BY <2>3, <2>5
      <3> DEFINE z == q * P
      <3>2. z \in Int
        BY <2>3
      <3> HIDE DEF z
      <3>3. acc[n] = d + z /\ q * N = 256 * z
        BY <2>1, <3>1 DEF z
      <3> QED
        BY <2>6, <2>10, <3>2, <3>3
    <2>14. m * M = (m * R) * N
      BY <2>3, <2>5
    <2> DEFINE g == m * R
               h == q - g
    <2>15. g \in Int /\ h \in Int
      BY <2>3
    <2>16. h * N = q * N - g * N
      <3> HIDE DEF g
      <3> QED
        BY <2>3, <2>15
    <2>17. acc[n + 1] = e + h * N
      <3> DEFINE u == q * N
                 v == g * N
      <3>1. u \in Int /\ v \in Int /\ h * N = u - v
        BY <2>3, <2>15, <2>16
      <3>2. acc[n + 1] = (e + u) - v
        BY <2>12, <2>13, <2>14
      <3> HIDE DEF u, v, h
      <3> QED
        BY <2>6, <3>1, <3>2
    <2> HIDE DEF h
    <2>18. \E p \in Int : acc[n + 1] = e + p * N
      BY <2>15, <2>17
    <2> QED
      BY <2>9, <2>18 DEF e, N
  <1> HIDE DEF D
  <1>9. WordBytes \in D
    <2>1. 0..WordBytes \subseteq D
      BY <1>1, <1>7, <1>8, BoundedInduction
    <2> QED
      BY <1>1, <2>1
  <1>10. PICK q \in Int : acc[WordBytes] = Rest(WordBytes) + q * 2 ^ (8 * WordBytes)
    BY <1>9 DEF D
  <1>11. Rest(WordBytes) = word
    <2>1. 8 * (WordBytes - WordBytes) = 0 /\ 2 ^ 0 = 1
      BY <1>1
    <2> QED
      BY <1>1, <2>1
  <1> HIDE DEF Rest
  <1>12. acc[WordBytes] = word + q * M /\ acc[WordBytes] \in Word /\ WordBytes \in 0..WordBytes
    BY <1>1, <1>5, <1>10, <1>11
  <1>13. q = 0
    <2> DEFINE z == acc[WordBytes] - word
    <2>1. z \in Int /\ -M < z /\ z < M /\ M \in Nat \ {0}
      BY <1>1, <1>12 DEF Word
    <2>2. z = q * M
      BY <1>1, <1>12
    <2> HIDE DEF z, M
    <2>3. q >= 1 => q * M >= M
      BY <2>1
    <2>4. q <= -1 => q * M <= -M
      BY <2>1
    <2> QED
      BY <2>1, <2>2, <2>3, <2>4
  <1> QED
    BY <1>1, <1>5, <1>12, <1>13 DEF byte

\* The bit by bit operators give words.
LEMMA BitwiseIsWord ==
  ASSUME NEW f \in [Digits -> Int], NEW a \in Word, NEW b \in Word
  PROVE  Bitwise(f, a, b) \in Word
  <1> DEFINE N == 8 * WordBytes
             Add(k, x) == x + 2 ^ (k - 1) * f[<<Bit(a, k - 1), Bit(b, k - 1)>>]
             step == [p \in (1..N) \X Int |-> Add(p[1], p[2])]
             IsSum(g) == g = [k \in 0..N |-> IF k = 0 THEN 0 ELSE Add(k, g[k - 1])]
             sum == CHOOSE g : IsSum(g)
  <1>1. N \in Nat /\ Word \subseteq Int
    BY WordBytesAssumption, WordSize DEF Word
  <1>2. \A x \in Int, k \in Nat : Bit(x, k) \in 0..1
    <2>1. ASSUME NEW x \in Int, NEW k \in Nat
          PROVE  Bit(x, k) \in 0..1
      <3> DEFINE p == 2 ^ k
      <3>1. p \in Nat \ {0} /\ Bit(x, k) = (x \div p) % 2
        BY PowerOfTwo DEF Bit
      <3> HIDE DEF p
      <3> QED
        BY <3>1
    <2> QED
      BY <2>1
  <1>3. \A k \in 1..N, x \in Int : Add(k, x) \in Int
    <2>1. ASSUME NEW k \in 1..N, NEW x \in Int
          PROVE  Add(k, x) \in Int
      <3>1. k - 1 \in Nat /\ a \in Int /\ b \in Int
        BY <1>1
      <3> DEFINE p == 2 ^ (k - 1)
                 v == f[<<Bit(a, k - 1), Bit(b, k - 1)>>]
      <3>2. p \in Int /\ v \in Int
        BY <1>2, <3>1, PowerOfTwo DEF Digits
      <3> HIDE DEF p, v
      <3>3. x + p * v \in Int
        BY <3>2
      <3> QED
        BY <3>3 DEF p, v
    <2> QED
      BY <2>1
  <1> HIDE DEF Add
  <1>4. step \in [(1..N) \X Int -> Int]
    BY <1>3
  <1>5. PICK g : Iterates(g, N, Int, 0, step)
    <2>1. 0 \in Int
      OBVIOUS
    <2> HIDE DEF step, N
    <2> QED
      BY <1>1, <1>4, <2>1, Iteration
  <1>6. \A k \in 0..N : k # 0 => k \in 1..N /\ k - 1 \in 0..N
    BY <1>1
  <1>7. \A k \in 0..N : g[k] = IF k = 0 THEN 0 ELSE Add(k, g[k - 1])
    <2>1. ASSUME NEW k \in 0..N, k # 0
          PROVE  g[k] = Add(k, g[k - 1])
      <3>1. k \in 1..N /\ g[k - 1] \in Int
        BY <1>5, <1>6, <2>1 DEF Iterates
      <3> QED
        BY <1>5, <3>1 DEF Iterates
    <2> QED
      BY <1>5, <2>1 DEF Iterates
  <1> HIDE DEF step
  <1>8. IsSum(g)
    BY <1>5, <1>7 DEF Iterates
  <1>9. IsSum(sum)
    BY <1>8
  <1>10. Bitwise(f, a, b) = Wrap(sum[N])
    BY DEF Bitwise, Add
  <1> HIDE DEF sum
  <1>11. \A k \in 0..N : sum[k] = IF k = 0 THEN 0 ELSE Add(k, sum[k - 1])
    BY <1>9
  <1> HIDE DEF IsSum
  <1> DEFINE D == {k \in 0..N : sum[k] \in Int}
  <1>12. 0 \in D
    BY <1>1, <1>11
  <1>13. ASSUME NEW k \in 0..N - 1, k \in D
         PROVE  k + 1 \in D
    <2>1. k + 1 \in 0..N /\ k + 1 \in 1..N /\ k + 1 # 0 /\ (k + 1) - 1 = k
      BY <1>1
    <2> QED
      BY <1>3, <1>11, <1>13, <2>1
  <1> HIDE DEF D, N
  <1>14. N \in D
    BY <1>1, <1>12, <1>13, BoundedInduction
  <1> QED
    BY <1>10, <1>14, WrapIsWord DEF D

\* The same of the three operators of the instruction set.
LEMMA BitOperatorsGiveWords ==
  ASSUME NEW a \in Word, NEW b \in Word
  PROVE  BitOr(a, b) \in Word /\ BitAnd(a, b) \in Word /\ BitXor(a, b) \in Word
  <1>1. [d \in Digits |-> Greatest(d[1], d[2])] \in [Digits -> Int]
    BY DEF Greatest, Digits
  <1>2. [d \in Digits |-> Least(d[1], d[2])] \in [Digits -> Int]
    BY DEF Least, Digits
  <1>3. [d \in Digits |-> (d[1] + d[2]) % 2] \in [Digits -> Int]
    BY DEF Digits
  <1> QED
    BY <1>1, <1>2, <1>3, BitwiseIsWord DEF BitOr, BitAnd, BitXor

\* A byte of a word is one.
LEMMA ByteIsByte ==
  ASSUME NEW w \in Int, NEW k \in Nat
  PROVE  ByteOf(w, k) \in 0..255
  <1> DEFINE p == 2 ^ (8 * k)
  <1>1. p \in Nat \ {0} /\ ByteOf(w, k) = (w \div p) % 256
    <2>1. 8 * k \in Nat
      OBVIOUS
    <2> QED
      BY <2>1, PowerOfTwo DEF ByteOf
  <1> HIDE DEF p
  <1>2. w \div p \in Int
    BY <1>1
  <1> QED
    BY <1>1, <1>2

\* Quotient and rest are what they are by being so.
LEMMA DivUnique ==
  ASSUME NEW b \in Nat \ {0}, NEW q \in Int, NEW r \in 0..b - 1
  PROVE  (b * q + r) \div b = q /\ (b * q + r) % b = r
  <1> DEFINE a == b * q + r
             s == a \div b
             t == a % b
  <1>1. a \in Int
    OBVIOUS
  <1> HIDE DEF a
  <1>2. s \in Int /\ t \in 0..b - 1 /\ a = b * s + t
    BY <1>1
  <1> HIDE DEF s, t
  <1>3. b * (q - s) = t - r
    BY <1>2 DEF a
  <1> DEFINE d == q - s
  <1>4. d \in Int /\ b * d = t - r
    BY <1>2, <1>3
  <1> HIDE DEF d
  <1>5. d < 1 /\ d > -1
    <2>1. d >= 1 => b * d >= b
      BY <1>4
    <2>2. d <= -1 => b * d <= -b
      BY <1>4
    <2> QED
      BY <1>2, <1>4, <2>1, <2>2
  <1>6. q = s /\ t = r
    BY <1>2, <1>4, <1>5 DEF d
  <1> QED
    BY <1>6 DEF a, s, t

-----------------------------------------------------------------------------
(* Division in float.                                                      *)

\* Rounding to an integer never passes one.
LEMMA NearestBounds ==
  ASSUME NEW n \in Nat, NEW d \in Nat \ {0}
  PROVE  /\ Nearest(n, d) \in Nat
         /\ \A m \in Nat : d * m <= n => m <= Nearest(n, d)
         /\ \A m \in Nat : n <= d * m => Nearest(n, d) <= m
         /\ 2 * (d * Nearest(n, d)) <= 2 * n + d
  <1> DEFINE q == n \div d
             r == n % d
             N == Nearest(n, d)
  <1>1. q \in Int /\ r \in 0..d - 1 /\ n = d * q + r
    OBVIOUS
  <1>2. N = IF 2 * r < d \/ (2 * r = d /\ q % 2 = 0) THEN q ELSE q + 1
    BY DEF Nearest
  <1> HIDE DEF q, r, N
  <1>3. N = q \/ (N = q + 1 /\ d <= 2 * r)
    BY <1>1, <1>2
  <1>4. q >= 0
    <2>1. q <= -1 => d * q <= -d
      BY <1>1
    <2> QED
      BY <1>1, <2>1
  <1>5. N \in Nat
    BY <1>1, <1>3, <1>4
  <1>6. ASSUME NEW m \in Nat, d * m <= n
        PROVE  m <= N
    <2>1. q <= m - 1 => d * q <= d * (m - 1)
      BY <1>1
    <2>2. d * (m - 1) = d * m - d
      OBVIOUS
    <2>3. q >= m
      BY <1>1, <1>6, <2>1, <2>2
    <2> QED
      BY <1>1, <1>3, <2>3
  <1>7. ASSUME NEW m \in Nat, n <= d * m
        PROVE  N <= m
    <2>1. q >= m => d * q >= d * m
      BY <1>1
    <2>2. q >= m + 1 => d * q >= d * (m + 1)
      BY <1>1
    <2>3. d * (m + 1) = d * m + d
      OBVIOUS
    <2> DEFINE a == d * q
               b == d * m
    <2>4. a \in Int /\ b \in Int
      BY <1>1
    <2> HIDE DEF a, b
    <2>5. q <= m
      BY <1>1, <1>7, <2>2, <2>3, <2>4 DEF a, b
    <2>6. q = m => r = 0
      BY <1>1, <1>7, <2>4 DEF a, b
    <2> QED
      BY <1>1, <1>3, <2>5, <2>6
  <1>8. 2 * (d * N) <= 2 * n + d
    <2>1. CASE N = q
      BY <1>1, <2>1
    <2>2. CASE N = q + 1 /\ d <= 2 * r
      <3>1. d * N = d * q + d
        BY <1>1, <2>2
      <3> DEFINE a == d * q
      <3>2. a \in Int
        BY <1>1
      <3> HIDE DEF a
      <3> QED
        BY <1>1, <2>2, <3>1, <3>2 DEF a
    <2> QED
      BY <1>3, <2>1, <2>2
  <1> QED
    BY <1>5, <1>6, <1>7, <1>8 DEF N

\* The sizes of floats and words.
LEMMA FloatSizes ==
  /\ FloatBits \in Nat \ {0} /\ 2 ^ FloatBits \in Nat /\ OpSize \in Nat
  /\ 3 <= OpSize /\ OpSize <= 2 ^ FloatBits /\ 4 * 2 ^ FloatBits <= Half
  /\ Half \in Nat \ {0} /\ 2 ^ (8 * WordBytes) = 2 * Half
  /\ 2 ^ (FloatBits - 1) \in Nat /\ 2 ^ FloatBits = 2 * 2 ^ (FloatBits - 1)
  <1>1. FloatBits \in Nat /\ WordBytes \in Nat \ {0} /\ OpSize \in Nat /\ OpSize >= 3
    BY WordBytesAssumption, FloatBitsAssumption DEF OpSize
  <1>2. FloatBits # 0
    <2>1. ASSUME FloatBits = 0
          PROVE  2 ^ FloatBits = 1
      BY <2>1
    <2> DEFINE E == 2 ^ FloatBits
    <2>2. OpSize <= E
      BY FloatBitsAssumption
    <2> HIDE DEF E
    <2>3. E # 1
      BY <1>1, <2>2
    <2> QED
      BY <2>1, <2>3 DEF E
  <1>3. 2 ^ FloatBits = 2 * 2 ^ (FloatBits - 1) /\ 2 ^ (FloatBits - 1) \in Nat \ {0}
    <2>1. FloatBits - 1 \in Nat /\ (FloatBits - 1) + 1 = FloatBits
      BY <1>1, <1>2
    <2> QED
      BY <2>1, NextPower, PowerOfTwo
  <1>4. 2 ^ (FloatBits + 2) = 4 * 2 ^ FloatBits /\ 2 ^ FloatBits \in Nat \ {0}
    <2>1. 2 ^ (FloatBits + 1) = 2 * 2 ^ FloatBits /\ 2 ^ FloatBits \in Nat \ {0}
      BY <1>1, NextPower, PowerOfTwo
    <2>2. FloatBits + 1 \in Nat /\ (FloatBits + 1) + 1 = FloatBits + 2
      BY <1>1
    <2>3. 2 ^ (FloatBits + 2) = 2 * 2 ^ (FloatBits + 1)
      BY <2>2, NextPower
    <2> QED
      BY <2>1, <2>3
  <1>5. 2 ^ (FloatBits + 2) <= Half /\ Half \in Nat \ {0} /\ 2 ^ (8 * WordBytes) = 2 * Half
    <2> DEFINE a == FloatBits + 2
               b == 8 * WordBytes - 1
    <2>1. a \in Nat /\ b \in Nat /\ b - a \in Nat /\ b = a + (b - a) /\ 8 * WordBytes = b + 1
      BY <1>1, FloatBitsAssumption
    <2>2. Half = 2 ^ b
      BY DEF Half
    <2> HIDE DEF a, b
    <2>3. 2 ^ a \in Nat \ {0} /\ 2 ^ (b - a) \in Nat \ {0} /\ 2 ^ b \in Nat \ {0}
      BY <2>1, PowerOfTwo
    <2>4. 2 ^ b = 2 ^ a * 2 ^ (b - a)
      BY <2>1, PowersAdd
    <2> DEFINE x == 2 ^ a
               y == 2 ^ (b - a)
    <2>5. 2 ^ b = x * y /\ x \in Nat \ {0} /\ y \in Nat \ {0}
      BY <2>3, <2>4
    <2>6. 2 ^ (b + 1) = 2 * 2 ^ b
      BY <2>1, NextPower
    <2> HIDE DEF x, y
    <2>7. x <= x * y
      BY <2>5
    <2> QED
      BY <2>1, <2>2, <2>3, <2>5, <2>6, <2>7 DEF x, a
  <1> QED
    BY <1>1, <1>2, <1>3, <1>4, <1>5, FloatBitsAssumption

\* The powers of two grow.
LEMMA PowersGrow ==
  ASSUME NEW a \in Nat, NEW b \in Nat, a <= b
  PROVE  2 ^ a <= 2 ^ b
  <1> DEFINE x == 2 ^ a
             y == 2 ^ (b - a)
  <1>1. b - a \in Nat /\ b = a + (b - a)
    OBVIOUS
  <1>2. x \in Nat \ {0} /\ y \in Nat \ {0}
    BY <1>1, PowerOfTwo
  <1>3. 2 ^ b = x * y
    BY <1>1, PowersAdd
  <1> HIDE DEF x, y
  <1>4. x <= x * y
    BY <1>2
  <1> QED
    BY <1>3, <1>4 DEF x

\* With free digits left, a quotient has as many binary places as fit, or all.
LEMMA FloatPlaces ==
  ASSUME NEW n \in Nat, NEW d \in Nat \ {0}, n < d * 2 ^ FloatBits
  PROVE  \E s \in Nat \ {0} :
            /\ FloatQuotient(n, d) = Nearest(n * s, d) \div s
            /\ s = 2 ^ FloatBits \/ d * 2 ^ FloatBits <= n * (2 * s)
  <1> DEFINE E == 2 ^ FloatBits
             Fits(e) == n * 2 ^ e < d * E
             S == {t \in Powers(FloatBits) : n * t < d * E}
             T == {k \in Nat : k <= FloatBits /\ Fits(FloatBits - k)}
  <1>1. FloatBits \in Nat /\ E \in Nat
    BY FloatSizes
  <1>2. FloatBits \in T
    <2>1. 2 ^ 0 = 1 /\ FloatBits - FloatBits = 0
      BY <1>1
    <2>2. Fits(0)
      BY <1>1, <2>1
    <2>3. Fits(FloatBits - FloatBits)
      BY <2>1, <2>2
    <2> QED
      BY <1>1, <2>3
  <1>3. PICK k \in T : \A l \in T : k <= l
    <2>1. T \subseteq Nat
      OBVIOUS
    <2> HIDE DEF T
    <2> QED
      BY <1>2, <2>1, LeastElement
  <1> DEFINE m == FloatBits - k
  <1>4. m \in 0..FloatBits /\ Fits(m)
    BY <1>1, <1>3
  <1>5. \A e \in 0..FloatBits : Fits(e) => e <= m
    <2> SUFFICES ASSUME NEW e \in 0..FloatBits, Fits(e)
                 PROVE  e <= m
      OBVIOUS
    <2>1. FloatBits - e \in Nat /\ FloatBits - e <= FloatBits /\ FloatBits - (FloatBits - e) = e
      BY <1>1
    <2>2. FloatBits - e \in T
      BY <2>1
    <2>3. k <= FloatBits - e
      BY <1>3, <2>2
    <2> QED
      BY <1>1, <1>3, <2>3
  <1> HIDE DEF m, Fits
  <1>6. 2 ^ m \in S /\ \A y \in S : 2 ^ m >= y
    <2>1. 2 ^ m \in S
      BY <1>4 DEF Powers, Fits
    <2>2. ASSUME NEW y \in S
          PROVE  2 ^ m >= y
      <3>1. PICK e \in 0..FloatBits : y = 2 ^ e /\ Fits(e)
        BY <2>2 DEF Powers, Fits
      <3>2. e <= m /\ e \in Nat /\ m \in Nat
        BY <1>1, <1>4, <1>5, <3>1
      <3>3. 2 ^ e <= 2 ^ m /\ 2 ^ m \in Nat /\ 2 ^ e \in Nat
        BY <3>2, PowersGrow, PowerOfTwo
      <3> QED
        BY <3>1, <3>3
    <2> QED
      BY <2>1, <2>2
  <1> DEFINE s == Max(S)
  <1>7. s = 2 ^ m
    <2>1. s \in S /\ \A y \in S : s >= y
      <3> HIDE DEF S
      <3> QED
        BY <1>6 DEF Max
    <2>2. PICK e \in 0..FloatBits : s = 2 ^ e
      <3> HIDE DEF s
      <3> QED
        BY <2>1 DEF Powers
    <2>3. s >= 2 ^ m /\ 2 ^ m >= s
      <3> HIDE DEF s, S
      <3> QED
        BY <1>6, <2>1
    <2>4. 2 ^ e \in Nat /\ 2 ^ m \in Nat
      BY <1>1, <1>4, <2>2, PowerOfTwo
    <2> HIDE DEF s
    <2> QED
      BY <2>2, <2>3, <2>4
  <1>8. FloatQuotient(n, d) = Nearest(n * s, d) \div s
    BY DEF FloatQuotient
  <1> HIDE DEF S, s
  <1>9. s \in Nat \ {0}
    BY <1>1, <1>4, <1>7, PowerOfTwo
  <1>10. s = E \/ d * E <= n * (2 * s)
    <2>1. CASE m = FloatBits
      BY <1>7, <2>1
    <2>2. CASE m # FloatBits
      <3>1. m + 1 \in 0..FloatBits /\ ~(m + 1 <= m)
        BY <1>1, <1>4, <2>2
      <3>2. ~Fits(m + 1)
        BY <1>5, <3>1
      <3>3. 2 ^ (m + 1) = 2 * s
        BY <1>1, <1>4, <1>7, NextPower
      <3>4. ~(n * (2 * s) < d * E)
        BY <3>2, <3>3 DEF Fits
      <3> DEFINE x == n * (2 * s)
                 y == d * E
      <3>5. x \in Int /\ y \in Int
        BY <1>1, <1>9
      <3> HIDE DEF x, y
      <3>6. y <= x
        BY <3>4, <3>5 DEF x, y
      <3> QED
        BY <3>6 DEF x, y
    <2> QED
      BY <2>1, <2>2
  <1> QED
    BY <1>8, <1>9, <1>10

\* With too few digits, it is a multiple of the least power of two that they allow.
LEMMA FloatUnit ==
  ASSUME NEW n \in Nat, NEW d \in Nat \ {0},
         d * 2 ^ FloatBits <= n, n <= 2 * Half
  PROVE  \E v \in Nat \ {0} :
            /\ FloatQuotient(n, d) = (2 * v) * Nearest(n, d * (2 * v))
            /\ d * 2 ^ FloatBits * v <= n
  <1> DEFINE E == 2 ^ FloatBits
             c == d * E
             Fits(e) == n < c * 2 ^ e
             S == {t \in Powers(8 * WordBytes) : n < c * t}
             T == {e \in Nat : e <= 8 * WordBytes /\ Fits(e)}
  <1>1. c \in Nat /\ c > 1 /\ 8 * WordBytes \in Nat /\ E \in Nat
    <2>1. E \in Nat /\ E > 1
      BY FloatSizes
    <2> HIDE DEF E
    <2>2. d * E \in Nat /\ d * E >= E
      BY <2>1
    <2> QED
      BY <2>1, <2>2, WordBytesAssumption
  <1>2. 8 * WordBytes \in T
    <2>1. 2 ^ (8 * WordBytes) = 2 * Half /\ Half \in Nat \ {0}
      BY FloatSizes
    <2> HIDE DEF c
    <2>2. c * (2 * Half) > 2 * Half
      BY <1>1, <2>1
    <2>3. c * (2 * Half) \in Int
      BY <1>1, <2>1
    <2>4. n < c * (2 * Half)
      BY <1>1, <2>1, <2>2, <2>3
    <2>5. Fits(8 * WordBytes)
      BY <2>1, <2>4
    <2> QED
      BY <1>1, <2>5
  <1>3. PICK e \in T : \A l \in T : e <= l
    <2>1. T \subseteq Nat
      OBVIOUS
    <2> HIDE DEF T
    <2> QED
      BY <1>2, <2>1, LeastElement
  <1>4. e # 0
    <2>1. 2 ^ 0 = 1
      OBVIOUS
    <2>2. ~(n < c * 1)
      BY <1>1
    <2> QED
      BY <1>3, <2>1, <2>2
  <1> DEFINE v == 2 ^ (e - 1)
  <1>5. v \in Nat \ {0} /\ 2 ^ e = 2 * v
    <2>1. e - 1 \in Nat /\ (e - 1) + 1 = e
      BY <1>3, <1>4
    <2> QED
      BY <2>1, PowerOfTwo, NextPower
  <1>6. ~Fits(e - 1)
    <2>1. e - 1 \in Nat /\ e - 1 <= 8 * WordBytes /\ ~(e <= e - 1)
      BY <1>1, <1>3, <1>4
    <2> QED
      BY <1>3, <2>1
  <1>7. c * v <= n
    <2>1. c * v \in Int
      BY <1>1, <1>5
    <2>2. ~(n < c * v)
      BY <1>6
    <2> HIDE DEF c, v
    <2> QED
      BY <2>1, <2>2
  <1>8. e \in 0..8 * WordBytes /\ Fits(e)
    BY <1>1, <1>3
  <1>9. 2 ^ e \in S /\ \A y \in S : 2 ^ e <= y
    <2>1. 2 ^ e \in S
      BY <1>8 DEF Powers
    <2>2. ASSUME NEW y \in S
          PROVE  2 ^ e <= y
      <3>1. PICK k \in 0..8 * WordBytes : y = 2 ^ k /\ Fits(k)
        BY <2>2 DEF Powers
      <3>2. k \in Nat /\ k <= 8 * WordBytes
        BY <1>1
      <3>3. e <= k
        BY <1>3, <3>1, <3>2
      <3> QED
        BY <1>3, <3>1, <3>2, <3>3, PowersGrow
    <2> QED
      BY <2>1, <2>2
  <1> DEFINE u == Min(S)
  <1>10. u = 2 ^ e
    <2>1. u \in S /\ \A y \in S : u <= y
      <3> HIDE DEF S
      <3> QED
        BY <1>9 DEF Min
    <2>2. PICK k \in 0..8 * WordBytes : u = 2 ^ k
      <3> HIDE DEF u
      <3> QED
        BY <2>1 DEF Powers
    <2>3. u <= 2 ^ e /\ 2 ^ e <= u
      <3> HIDE DEF u, S
      <3> QED
        BY <1>9, <2>1
    <2>4. 2 ^ e \in Nat /\ 2 ^ k \in Nat
      BY <1>1, <1>3, <2>2, PowerOfTwo
    <2> HIDE DEF u
    <2> QED
      BY <2>2, <2>3, <2>4
  <1>11. FloatQuotient(n, d) = u * Nearest(n, d * u)
    <2>1. ~(n < d * E)
      BY <1>1
    <2> QED
      BY <2>1 DEF FloatQuotient
  <1> HIDE DEF u, v, c
  <1>12. d * E * v <= n
    BY <1>7 DEF c
  <1> QED
    BY <1>5, <1>10, <1>11, <1>12

\* What a quotient in float, truncated, can be: it does not fall below an integer
\* that the true one reaches, it is exact as long as there is a digit to spare, and
\* it is too great by less than one, or by a quarter.
LEMMA FloatQuotientBounds ==
  ASSUME NEW n \in Nat, NEW d \in Nat \ {0}, d <= 2 ^ FloatBits, n <= 2 * Half
  PROVE  /\ FloatQuotient(n, d) \in Nat
         /\ \A m \in Nat : d * m <= n /\ m <= 2 ^ FloatBits => m <= FloatQuotient(n, d)
         /\ n <= 2 ^ (FloatBits - 1) => FloatQuotient(n, d) = n \div d
         /\ \/ d * FloatQuotient(n, d) <= n + d
            \/ 4 * (d * FloatQuotient(n, d)) <= 5 * n
  <1> DEFINE E == 2 ^ FloatBits
             H == 2 ^ (FloatBits - 1)
             Q == FloatQuotient(n, d)
             q == n \div d
             r == n % d
  <1>1. E \in Nat /\ H \in Nat /\ E = 2 * H /\ d <= E /\ 4 <= E
    <2>1. E >= 3
      BY FloatSizes
    <2>2. E \in Nat /\ H \in Nat /\ E = 2 * H
      BY FloatSizes
    <2> HIDE DEF E, H
    <2> QED
      BY <2>1, <2>2 DEF E
  <1>2. q \in Int /\ r \in 0..d - 1 /\ n = d * q + r
    OBVIOUS
  <1>3. CASE n < d * E
    <2>1. PICK s \in Nat \ {0} : Q = Nearest(n * s, d) \div s
                              /\ (s = E \/ d * E <= n * (2 * s))
      BY <1>3, FloatPlaces
    <2> DEFINE N == Nearest(n * s, d)
               ns == n * s
    <2>2. ns \in Nat
      BY <2>1
    <2>3. /\ N \in Nat
          /\ \A m \in Nat : d * m <= ns => m <= N
          /\ \A m \in Nat : ns <= d * m => N <= m
          /\ 2 * (d * N) <= 2 * ns + d
      <3> HIDE DEF ns
      <3> QED
        BY <2>2, NearestBounds DEF ns
    <2> HIDE DEF N, ns, Q, q, r, E, H
    <2>4. Q = N \div s
      BY <2>1 DEF N
    <2> DEFINE t == N % s
    <2>5. Q \in Int /\ t \in 0..s - 1 /\ N = s * Q + t
      <3>1. s \in Nat \ {0} /\ N \in Nat
        BY <2>3
      <3>2. N \div s \in Int /\ t \in 0..s - 1 /\ N = s * (N \div s) + t
        BY <3>1
      <3> QED
        BY <2>4, <3>2
    <2> HIDE DEF t
    <2>6. \A m \in Nat : s * m <= N => m <= Q
      <3> SUFFICES ASSUME NEW m \in Nat, s * m <= N, m > Q
                   PROVE  FALSE
        BY <2>5
      <3>1. s * m >= s * (Q + 1)
        BY <2>1, <2>5
      <3>2. s * (Q + 1) = s * Q + s
        BY <2>1, <2>5
      <3> DEFINE x == s * Q
                 y == s * m
      <3>3. x \in Int /\ y \in Int
        BY <2>1, <2>5
      <3> HIDE DEF x, y
      <3> QED
        BY <2>1, <2>3, <2>5, <3>1, <3>2, <3>3 DEF x, y
    <2>7. Q \in Nat
      <3>1. s * 0 <= N
        BY <2>1, <2>3
      <3> QED
        BY <2>5, <2>6, <3>1
    <2>8. \A m \in Nat : d * m <= n => m <= Q
      <3> SUFFICES ASSUME NEW m \in Nat, d * m <= n
                   PROVE  m <= Q
        OBVIOUS
      <3> DEFINE x == d * m
      <3>1. x \in Nat /\ x <= n
        OBVIOUS
      <3> HIDE DEF x
      <3>2. x * s <= n * s
        BY <2>1, <3>1
      <3>3. x * s = d * (s * m)
        BY <2>1 DEF x
      <3>4. s * m \in Nat
        BY <2>1
      <3>5. d * (s * m) <= ns
        BY <3>2, <3>3 DEF ns
      <3>6. s * m <= N
        BY <2>3, <3>4, <3>5
      <3> QED
        BY <2>6, <3>6
    <2>9. d * Q <= n + d
      <3> DEFINE x == s * Q
                 y == d * Q
                 z == n + d
      <3>1. x \in Nat /\ x <= N /\ y \in Nat /\ z \in Nat
        BY <2>1, <2>3, <2>5, <2>7
      <3>2. d * x <= d * N
        BY <2>3, <3>1
      <3>3. d <= d * s /\ d * s \in Nat
        BY <2>1
      <3>4. d * x = s * y
        BY <2>1, <2>7
      <3>5. d * N <= ns + d
        <4> DEFINE p == d * N
        <4>1. p \in Nat
          BY <2>3
        <4> HIDE DEF p
        <4> QED
          BY <2>2, <2>3, <4>1 DEF p
      <3>6. s * z = ns + d * s
        BY <2>1 DEF ns
      <3> DEFINE a == d * x
                 b == d * N
                 c == d * s
      <3>7. a \in Int /\ b \in Int
        BY <2>3, <3>1
      <3> HIDE DEF a, b, c
      <3>8. a <= ns + c
        BY <2>2, <3>2, <3>3, <3>5, <3>7 DEF a, b, c
      <3> HIDE DEF x, y, z
      <3>9. s * y <= s * z
        BY <3>4, <3>6, <3>8 DEF a, c
      <3>10. y <= z
        <4>1. y >= z + 1 => s * y >= s * (z + 1)
          BY <2>1, <3>1
        <4>2. s * (z + 1) = s * z + s
          BY <2>1, <3>1
        <4> DEFINE f == s * y
                   g == s * z
        <4>3. f \in Int /\ g \in Int
          BY <2>1, <3>1
        <4> HIDE DEF f, g
        <4> QED
          BY <2>1, <3>1, <3>9, <4>1, <4>2, <4>3 DEF f, g
      <3> QED
        BY <3>10 DEF y, z
    <2>10. ASSUME n <= H
           PROVE  Q = q
      <3>1. d <= s
        <4>1. CASE s = E
          BY <1>1, <4>1
        <4>2. CASE d * E <= n * (2 * s)
          <5> SUFFICES ASSUME s < d
                       PROVE  FALSE
            BY <2>1
          <5>1. n * (2 * s) = (2 * n) * s
            BY <2>1
          <5>2. (2 * n) * s <= E * s
            BY <1>1, <2>1, <2>10
          <5>3. E * s < E * d
            BY <1>1, <2>1
          <5>4. E * d = d * E
            BY <1>1
          <5> DEFINE a == d * E
                     b == (2 * n) * s
                     c == E * s
          <5>5. a \in Int /\ b \in Int /\ c \in Int
            BY <1>1, <2>1
          <5> HIDE DEF a, b, c
          <5> QED
            BY <4>2, <5>1, <5>2, <5>3, <5>4, <5>5 DEF a, b, c
        <4> QED
          BY <2>1, <4>1, <4>2
      <3>2. q >= 0
        <4>1. q <= -1 => d * q <= -d
          BY <1>2
        <4> QED
          BY <1>2, <4>1
      <3> DEFINE m == s * q + s - 1
                 sq == s * q
      <3>3. sq \in Nat /\ m \in Nat /\ m = sq + s - 1
        BY <1>2, <2>1, <3>2
      <3>4. ns <= d * m
        <4>1. ns = d * sq + r * s
          BY <1>2, <2>1 DEF ns
        <4>2. r * s <= (d - 1) * s
          BY <1>2, <2>1
        <4>3. (d - 1) * s = d * s - s
          BY <2>1
        <4>4. d * m = d * sq + d * s - d
          <5> HIDE DEF sq, m
          <5> QED
            BY <2>1, <3>3
        <4> DEFINE a == d * sq
                   b == r * s
                   c == d * s
        <4>5. a \in Int /\ b \in Int /\ c \in Int
          BY <1>2, <2>1, <3>3
        <4> HIDE DEF a, b, c, sq, m
        <4> QED
          BY <2>1, <2>2, <3>1, <4>1, <4>2, <4>3, <4>4, <4>5 DEF a, b, c
      <3>5. N <= m
        <4> HIDE DEF m
        <4> QED
          BY <2>3, <3>3, <3>4
      <3>6. Q <= q
        <4> SUFFICES ASSUME Q >= q + 1
                     PROVE  FALSE
          BY <1>2, <2>7
        <4>1. s * Q >= s * (q + 1)
          BY <1>2, <2>1, <2>7
        <4>2. s * (q + 1) = sq + s
          BY <1>2, <2>1
        <4> DEFINE x == s * Q
        <4>3. x \in Int
          BY <2>1, <2>7
        <4> HIDE DEF x, sq, m
        <4> QED
          BY <2>1, <2>3, <2>5, <3>3, <3>5, <4>1, <4>2, <4>3 DEF x
      <3>7. d * q <= n /\ q \in Nat
        BY <1>2, <3>2
      <3> QED
        BY <2>7, <2>8, <3>6, <3>7
    <2> QED
      BY <2>7, <2>8, <2>9, <2>10 DEF Q, q, H
  <1>4. CASE ~(n < d * E)
    <2>1. d * E \in Int /\ d * E <= n
      <3> DEFINE x == d * E
      <3>1. x \in Int
        <4> HIDE DEF E
        <4> QED
          BY <1>1
      <3>2. ~(n < x)
        BY <1>4
      <3> HIDE DEF x
      <3>3. x <= n
        BY <3>1, <3>2
      <3> QED
        BY <3>1, <3>3 DEF x
    <2>2. PICK v \in Nat \ {0} : Q = (2 * v) * Nearest(n, d * (2 * v)) /\ d * E * v <= n
      BY <2>1, FloatUnit
    <2> DEFINE c == d * (2 * v)
               N == Nearest(n, c)
    <2>3. c \in Nat \ {0}
      <3>1. d >= 1 /\ 2 * v >= 1 /\ 2 * v \in Nat
        OBVIOUS
      <3> DEFINE w == 2 * v
      <3> HIDE DEF w
      <3>2. d * w \in Nat /\ d * w >= 1
        BY <3>1 DEF w
      <3> QED
        BY <3>2 DEF w
    <2> HIDE DEF E, H
    <2>4. /\ N \in Nat
          /\ \A m \in Nat : c * m <= n => m <= N
          /\ 2 * (c * N) <= 2 * n + c
      <3> HIDE DEF c
      <3> QED
        BY <2>3, NearestBounds
    <2>5. Q = (2 * v) * N
      BY <2>2
    <2> HIDE DEF N, Q, q, r
    <2>6. Q \in Nat
      BY <2>4, <2>5
    <2>7. c * H <= n
      <3>1. c * H = d * E * v
        BY <1>1
      <3> QED
        BY <2>2, <3>1
    <2>8. E <= Q
      <3>1. H <= N
        <4> HIDE DEF c
        <4> QED
          BY <1>1, <2>4, <2>7
      <3>2. 2 * H <= 2 * N
        BY <1>1, <2>4, <3>1
      <3>3. 2 * N <= (2 * v) * N
        BY <2>4
      <3> DEFINE x == (2 * v) * N
      <3>4. x \in Int
        BY <2>4
      <3> HIDE DEF x
      <3>5. E <= x
        BY <1>1, <2>4, <3>2, <3>3, <3>4 DEF x
      <3> QED
        BY <2>5, <3>5 DEF x
    <2>9. d * Q = c * N /\ c * N \in Nat
      BY <2>3, <2>4, <2>5
    <2>10. 2 * c <= n
      <3>1. 2 <= H
        BY <1>1
      <3>2. c * 2 <= c * H
        <4> HIDE DEF c
        <4> QED
          BY <1>1, <2>3, <3>1
      <3> DEFINE x == c * H
      <3>3. x \in Int
        <4> HIDE DEF c
        <4> QED
          BY <1>1, <2>3
      <3> HIDE DEF x, c
      <3> QED
        BY <2>3, <2>7, <3>2, <3>3 DEF x
    <2>11. 4 * (d * Q) <= 5 * n
      <3> DEFINE x == c * N
      <3>1. x \in Nat /\ 2 * x <= 2 * n + c
        BY <2>4, <2>9
      <3> HIDE DEF x, c
      <3>2. 4 * x <= 5 * n
        BY <2>3, <2>10, <3>1
      <3> QED
        BY <2>9, <3>2 DEF x
    <2>12. ~(n <= H)
      <3>1. d * E >= E
        BY <1>1
      <3> DEFINE x == d * E
      <3>2. x \in Int /\ x <= n /\ x >= E
        BY <2>1, <3>1
      <3> HIDE DEF x
      <3> QED
        BY <1>1, <3>2
    <2>13. \A m \in Nat : m <= E => m <= Q
      BY <1>1, <2>6, <2>8
    <2> QED
      BY <2>6, <2>11, <2>12, <2>13 DEF Q, H, E
  <1> QED
    BY <1>3, <1>4

\* Both roundings of jmp_range_check, for a number without its sign.
LEMMA TwiceRounded ==
  ASSUME NEW b \in Nat, b <= Half
  PROVE  LET y == FloatQuotient(FloatQuotient(b, 1), OpSize)
         IN /\ y \in Nat
            /\ 16 * (OpSize * y) <= 25 * Half
            /\ b <= 2 ^ (FloatBits - 1) => y = b \div OpSize
            /\ \A i \in Nat : OpSize * i <= b /\ OpSize * i <= 2 ^ FloatBits => i <= y
  <1> DEFINE E == 2 ^ FloatBits
             H == 2 ^ (FloatBits - 1)
             d == OpSize
             x == FloatQuotient(b, 1)
             y == FloatQuotient(x, d)
  <1>1. /\ E \in Nat /\ H \in Nat /\ E = 2 * H /\ d \in Nat \ {0} /\ 3 <= d /\ d <= E
        /\ Half \in Nat /\ 4 * E <= Half
    BY FloatSizes
  <1> HIDE DEF E, H, d
  <1>2. /\ x \in Nat
        /\ \A m \in Nat : 1 * m <= b /\ m <= E => m <= x
        /\ b <= H => x = b \div 1
        /\ 1 * x <= b + 1 \/ 4 * (1 * x) <= 5 * b
    <2>1. 1 \in Nat \ {0} /\ 1 <= E /\ b <= 2 * Half
      BY <1>1
    <2> QED
      BY <2>1, FloatQuotientBounds DEF E, H
  <1> HIDE DEF x
  <1>3. 4 * x <= 5 * Half /\ x <= 2 * Half
    BY <1>1, <1>2
  <1>4. /\ y \in Nat
        /\ \A m \in Nat : d * m <= x /\ m <= E => m <= y
        /\ x <= H => y = x \div d
        /\ d * y <= x + d \/ 4 * (d * y) <= 5 * x
    BY <1>1, <1>2, <1>3, FloatQuotientBounds DEF E, H
  <1> HIDE DEF y
  <1>5. 16 * (d * y) <= 25 * Half
    <2> DEFINE z == d * y
    <2>1. z \in Nat /\ (z <= x + d \/ 4 * z <= 5 * x)
      BY <1>1, <1>4
    <2> HIDE DEF z
    <2>2. 16 * z <= 25 * Half
      BY <1>1, <1>2, <1>3, <2>1
    <2> QED
      BY <2>2 DEF z
  <1>6. b <= H => y = b \div d
    <2>1. b \div 1 = b
      OBVIOUS
    <2> QED
      BY <1>1, <1>2, <1>4, <2>1
  <1>7. ASSUME NEW i \in Nat, d * i <= b, d * i <= E
        PROVE  i <= y
    <2> DEFINE k == d * i
    <2>1. k \in Nat /\ i <= k
      BY <1>1
    <2> HIDE DEF k
    <2>2. 1 * k <= b /\ k <= E
      BY <1>7, <2>1 DEF k
    <2>3. k <= x
      BY <1>2, <2>1, <2>2
    <2>4. d * i <= x /\ i <= E
      BY <1>1, <1>7, <2>1, <2>2, <2>3 DEF k
    <2> QED
      BY <1>4, <2>4
  <1> QED
    BY <1>4, <1>5, <1>6, <1>7 DEF x, y, d, E, H

\* And with its sign.
LEMMA QuotientBounds ==
  ASSUME NEW a \in Word
  PROVE  /\ Quotient(a) \in Int
         /\ a >= 0 => Quotient(a) >= 0
         /\ a < 0 => Quotient(a) <= 0
         /\ 16 * (OpSize * Quotient(a)) <= 25 * Half
         /\ -25 * Half <= 16 * (OpSize * Quotient(a))
         /\ a >= 0 /\ a <= 2 ^ (FloatBits - 1) => Quotient(a) = a \div OpSize
         /\ \A i \in Nat : OpSize * i <= a /\ OpSize * i <= 2 ^ FloatBits
                             => i <= Quotient(a)
  <1>1. Half \in Nat \ {0} /\ OpSize \in Nat /\ 3 <= OpSize
    BY FloatSizes
  <1>2. a \in Int /\ a <= Half /\ -a <= Half
    BY <1>1 DEF Word
  <1>3. CASE a >= 0
    <2>1. Quotient(a) = FloatQuotient(FloatQuotient(a, 1), OpSize)
      BY <1>2, <1>3 DEF Quotient
    <2>2. a \in Nat /\ a <= Half
      BY <1>2, <1>3
    <2> DEFINE q == Quotient(a)
    <2>3. /\ q \in Nat
          /\ 16 * (OpSize * q) <= 25 * Half
          /\ a <= 2 ^ (FloatBits - 1) => q = a \div OpSize
          /\ \A i \in Nat : OpSize * i <= a /\ OpSize * i <= 2 ^ FloatBits => i <= q
      BY <2>1, <2>2, TwiceRounded
    <2> HIDE DEF q, OpSize
    <2>4. OpSize * q \in Nat
      BY <1>1, <2>3
    <2>5. -25 * Half <= 16 * (OpSize * q)
      BY <1>1, <2>4
    <2> QED
      BY <1>3, <2>2, <2>3, <2>5 DEF q
  <1>4. CASE a < 0
    <2> DEFINE b == -a
               y == FloatQuotient(FloatQuotient(b, 1), OpSize)
    <2>1. Quotient(a) = -y
      BY <1>4 DEF Quotient
    <2>2. b \in Nat /\ b <= Half
      BY <1>2, <1>4
    <2> HIDE DEF b
    <2>3. y \in Nat /\ 16 * (OpSize * y) <= 25 * Half
      BY <2>2, TwiceRounded
    <2> HIDE DEF y, OpSize
    <2>4. OpSize * y \in Nat /\ OpSize * (-y) = -(OpSize * y)
      BY <1>1, <2>3
    <2> DEFINE z == OpSize * y
               w == OpSize * Quotient(a)
    <2>5. w = -z /\ z \in Nat /\ 16 * z <= 25 * Half
      BY <2>1, <2>3, <2>4
    <2>6. \A i \in Nat : OpSize * i \in Nat
      BY <1>1
    <2>7. Quotient(a) \in Int /\ Quotient(a) <= 0
      BY <2>1, <2>3
    <2> HIDE DEF z, w
    <2>8. 16 * w <= 25 * Half /\ -25 * Half <= 16 * w
      BY <1>1, <2>5
    <2>9. \A i \in Nat : ~(OpSize * i <= a)
      BY <1>2, <1>4, <2>6
    <2> QED
      BY <1>2, <1>4, <2>7, <2>8, <2>9 DEF w
  <1> QED
    BY <1>2, <1>3, <1>4

-----------------------------------------------------------------------------
(* Fetching and decoding.                                                  *)

\* What Init chooses and no step changes.
Loaded == prog \in Programs /\ noise \in Garbage /\ input \in Inputs

\* The sizes of the program that runs.
LEMMA ProgramSizes ==
  ASSUME Loaded
  PROVE  /\ prog \in Seq(Instruction) /\ Len(prog) \in Nat
         /\ OpSize \in Nat /\ OpSize >= 3 /\ WordBytes \in Nat \ {0}
         /\ progLength \in Nat /\ progLength = OpSize * Len(prog)
         /\ progLength + OpSize <= Half /\ Half \in Nat \ {0}
         /\ progLength <= 2 ^ (FloatBits - 1)
         /\ noise \in Word /\ input \in Word
  <1>1. OpSize \in Nat /\ OpSize >= 3 /\ WordBytes \in Nat \ {0}
    BY WordBytesAssumption DEF OpSize
  <1>2. /\ prog \in Seq(Instruction) /\ Len(prog) \in Nat
        /\ OpSize * Len(prog) <= 2 ^ (FloatBits - 1)
    BY ProgramsAssumption DEF Loaded
  <1>3. noise \in Word /\ input \in Word
    BY SizesAssumption DEF Loaded
  <1>4. progLength = OpSize * Len(prog) /\ progLength \in Nat
    <2> DEFINE n == Len(prog)
    <2>1. n \in Nat /\ progLength = OpSize * n
      BY <1>2 DEF progLength
    <2> HIDE DEF n, OpSize
    <2>2. progLength \in Nat
      BY <1>1, <2>1
    <2> QED
      BY <2>1, <2>2 DEF n
  <1> HIDE DEF OpSize
  <1>5. progLength + OpSize <= Half /\ Half \in Nat \ {0}
    <2> DEFINE E == 2 ^ FloatBits
               H == 2 ^ (FloatBits - 1)
    <2>1. /\ H \in Nat /\ E = 2 * H /\ OpSize <= E /\ 4 * E <= Half
          /\ Half \in Nat \ {0} /\ progLength <= H
      BY <1>2, <1>4, FloatSizes
    <2> HIDE DEF E, H
    <2> QED
      BY <1>1, <1>4, <2>1
  <1> QED
    BY <1>1, <1>2, <1>3, <1>4, <1>5

\* The fields of an instruction.
LEMMA InstructionFields ==
  ASSUME Loaded, NEW i \in 1..Len(prog)
  PROVE  prog[i][1] \in 0..255 /\ prog[i][2] \in Word /\ prog[i][3] \in Word
         /\ prog[i] = <<prog[i][1], prog[i][2], prog[i][3]>>
  BY ProgramSizes DEF Instruction

\* Where byte r of instruction q + 1 is in the buffer.
LEMMA BytesOfInstruction ==
  ASSUME Loaded, NEW q \in 0..Len(prog) - 1, NEW r \in 0..OpSize - 1
  PROVE  /\ OpSize * q + r \in 0..progLength - 1
         /\ CodeByte(OpSize * q + r) =
              IF r = 0 THEN prog[q + 1][1]
              ELSE IF r <= WordBytes THEN ByteOf(prog[q + 1][2], r - 1)
              ELSE ByteOf(prog[q + 1][3], r - 1 - WordBytes)
  <1> DEFINE n == Len(prog)
             a == OpSize * q + r
  <1>1. n \in Nat /\ OpSize \in Nat \ {0} /\ progLength = OpSize * n
    BY ProgramSizes
  <1> HIDE DEF n, OpSize
  <1>2. a \div OpSize = q /\ a % OpSize = r
    BY <1>1, DivUnique
  <1>3. a \in 0..progLength - 1
    <2>1. OpSize * q + OpSize <= OpSize * n
      <3>1. q + 1 <= n /\ q \in Nat
        BY <1>1 DEF n
      <3>2. OpSize * q + OpSize = OpSize * (q + 1)
        BY <1>1, <3>1
      <3> DEFINE m == q + 1
      <3>3. m \in Nat /\ m <= n
        BY <3>1
      <3> HIDE DEF m
      <3>4. OpSize * m <= OpSize * n
        BY <1>1, <3>3
      <3> QED
        BY <3>2, <3>4 DEF m
    <2>2. OpSize * q \in Nat
      BY <1>1
    <2> QED
      BY <1>1, <2>1, <2>2
  <1> HIDE DEF a
  <1>4. ~(a >= progLength)
    BY <1>1, <1>3
  <1>5. CodeByte(a) =
              IF r = 0 THEN prog[q + 1][1]
              ELSE IF r <= WordBytes THEN ByteOf(prog[q + 1][2], r - 1)
              ELSE ByteOf(prog[q + 1][3], r - 1 - WordBytes)
    BY <1>2, <1>4 DEF CodeByte
  <1> QED
    BY <1>3, <1>5 DEF a

\* An address inside the program is one of an instruction's bytes.
LEMMA AddressOfByte ==
  ASSUME Loaded, NEW a \in 0..progLength - 1
  PROVE  /\ a \div OpSize \in 0..Len(prog) - 1 /\ a % OpSize \in 0..OpSize - 1
         /\ a = OpSize * (a \div OpSize) + (a % OpSize)
  <1> DEFINE n == Len(prog)
             q == a \div OpSize
             r == a % OpSize
  <1>1. n \in Nat /\ OpSize \in Nat \ {0} /\ progLength = OpSize * n
    BY ProgramSizes
  <1> HIDE DEF n, OpSize
  <1>2. q \in Int /\ r \in 0..OpSize - 1 /\ a = OpSize * q + r
    BY <1>1
  <1> HIDE DEF q, r
  <1>3. q >= 0
    <2>1. q <= -1 => OpSize * q <= -OpSize
      BY <1>1, <1>2
    <2> QED
      BY <1>1, <1>2, <2>1
  <1>4. q < n
    <2>1. q >= n => OpSize * q >= OpSize * n
      BY <1>1, <1>2
    <2>2. OpSize * q <= a /\ a < OpSize * n
      BY <1>1, <1>2
    <2>3. OpSize * q \in Int /\ OpSize * n \in Int /\ a \in Int
      BY <1>1, <1>2
    <2> QED
      BY <1>1, <1>2, <2>1, <2>2, <2>3
  <1> QED
    BY <1>1, <1>2, <1>3, <1>4 DEF q, r, n

\* Whatever is fetched is a byte.
LEMMA CodeByteIsByte ==
  ASSUME Loaded, NEW a \in Nat
  PROVE  CodeByte(a) \in 0..255
  <1>1. CASE a >= progLength
    BY <1>1 DEF CodeByte
  <1>2. CASE a < progLength
    <2> DEFINE q == a \div OpSize
               r == a % OpSize
    <2>1. a \in 0..progLength - 1
      BY <1>2, ProgramSizes
    <2>2. q \in 0..Len(prog) - 1 /\ r \in 0..OpSize - 1 /\ a = OpSize * q + r
      BY <2>1, AddressOfByte
    <2> HIDE DEF q, r
    <2>3. CodeByte(a) =
              IF r = 0 THEN prog[q + 1][1]
              ELSE IF r <= WordBytes THEN ByteOf(prog[q + 1][2], r - 1)
              ELSE ByteOf(prog[q + 1][3], r - 1 - WordBytes)
      BY <2>2, BytesOfInstruction
    <2>4. q + 1 \in 1..Len(prog) /\ r \in Nat /\ WordBytes \in Nat
      BY <2>2, ProgramSizes
    <2>5. /\ prog[q + 1][1] \in 0..255
          /\ prog[q + 1][2] \in Int /\ prog[q + 1][3] \in Int
      BY <2>4, InstructionFields, ProgramSizes DEF Word
    <2>6. r # 0 /\ r <= WordBytes => r - 1 \in Nat
      BY <2>4
    <2>7. ~(r <= WordBytes) => r - 1 - WordBytes \in Nat
      BY <2>4
    <2> QED
      BY <2>3, <2>5, <2>6, <2>7, ByteIsByte
  <1>3. progLength \in Nat
    BY ProgramSizes
  <1> QED
    BY <1>1, <1>2, <1>3

\* What is fetched at any address is an opcode and two words.
LEMMA FetchedIsInstruction ==
  ASSUME Loaded, ip \in Nat
  PROVE  /\ Fetched[1] \in 0..255 /\ Fetched[2] \in Word /\ Fetched[3] \in Word
         /\ Fetched[1] = CodeByte(ip)
  <1>1. WordBytes \in Nat \ {0} /\ noise \in Word
    BY ProgramSizes
  <1>2. ASSUME NEW i \in 0..1
        PROVE  Operand(i) \in Word
    <2> DEFINE byte == [k \in 0..WordBytes - 1 |-> CodeByte(ip + 1 + i * WordBytes + k)]
    <2>1. \A k \in 0..WordBytes - 1 : ip + 1 + i * WordBytes + k \in Nat
      BY <1>1
    <2>2. \A k \in 0..WordBytes - 1 : CodeByte(ip + 1 + i * WordBytes + k) \in Int
      BY <2>1, CodeByteIsByte
    <2>3. byte \in [0..WordBytes - 1 -> Int]
      BY <2>2
    <2> HIDE DEF byte
    <2>4. WordOf(byte, noise) \in Word
      BY <1>1, <2>3, OperandIsWord
    <2> QED
      BY <2>4 DEF Operand, byte
  <1>3. CodeByte(ip) \in 0..255
    BY CodeByteIsByte
  <1>4. Operand(0) \in Word /\ Operand(1) \in Word
    BY <1>2
  <1> QED
    BY <1>3, <1>4 DEF Fetched

\* At the start of an instruction, the instruction.
LEMMA FetchedAtStart ==
  ASSUME Loaded, ip \in 0..progLength - 1, ip % OpSize = 0
  PROVE  /\ ip \div OpSize + 1 \in 1..Len(prog)
         /\ ip = OpSize * (ip \div OpSize)
         /\ Fetched = prog[ip \div OpSize + 1]
  <1> DEFINE q == ip \div OpSize
             instr == prog[q + 1]
  <1>1. q \in 0..Len(prog) - 1 /\ ip = OpSize * q + 0
    BY AddressOfByte
  <1>2. /\ OpSize \in Nat /\ OpSize = 2 * WordBytes + 1 /\ WordBytes \in Nat \ {0}
        /\ noise \in Word /\ Len(prog) \in Nat
    BY ProgramSizes DEF OpSize
  <1>3. ip = OpSize * q /\ q + 1 \in 1..Len(prog) /\ OpSize * q \in Int
    BY <1>1, <1>2
  <1>4. instr[1] \in 0..255 /\ instr[2] \in Word /\ instr[3] \in Word
        /\ instr = <<instr[1], instr[2], instr[3]>>
    BY <1>3, InstructionFields
  <1> HIDE DEF OpSize, q
  <1>5. CodeByte(ip) = instr[1]
    <2>1. 0 \in 0..OpSize - 1
      BY <1>2
    <2> QED
      BY <1>1, <2>1, BytesOfInstruction
  <1>6. Operand(0) = instr[2]
    <2>1. ASSUME NEW k \in 0..WordBytes - 1
          PROVE  CodeByte(ip + 1 + 0 * WordBytes + k) = ByteOf(instr[2], k)
      <3>1. 1 + k \in 0..OpSize - 1 /\ 1 + k # 0 /\ 1 + k <= WordBytes /\ (1 + k) - 1 = k
        BY <1>2
      <3>2. CodeByte(OpSize * q + (1 + k)) = ByteOf(instr[2], k)
        BY <1>1, <3>1, BytesOfInstruction
      <3>3. ip + 1 + 0 * WordBytes + k = OpSize * q + (1 + k)
        BY <1>2, <1>3
      <3> QED
        BY <3>2, <3>3
    <2>2. [k \in 0..WordBytes - 1 |-> CodeByte(ip + 1 + 0 * WordBytes + k)]
            = [k \in 0..WordBytes - 1 |-> ByteOf(instr[2], k)]
      BY <2>1
    <2>3. WordOf([k \in 0..WordBytes - 1 |-> ByteOf(instr[2], k)], noise) = instr[2]
      BY <1>2, <1>4, BytesOfWord
    <2> QED
      BY <2>2, <2>3 DEF Operand
  <1>7. Operand(1) = instr[3]
    <2>1. ASSUME NEW k \in 0..WordBytes - 1
          PROVE  CodeByte(ip + 1 + 1 * WordBytes + k) = ByteOf(instr[3], k)
      <3> DEFINE r == 1 + WordBytes + k
      <3>1. r \in 0..OpSize - 1 /\ r # 0 /\ ~(r <= WordBytes) /\ r - 1 - WordBytes = k
        BY <1>2
      <3>2. CodeByte(OpSize * q + r) = ByteOf(instr[3], k)
        BY <1>1, <3>1, BytesOfInstruction
      <3>3. ip + 1 + 1 * WordBytes + k = OpSize * q + r
        BY <1>2, <1>3
      <3> QED
        BY <3>2, <3>3
    <2>2. [k \in 0..WordBytes - 1 |-> CodeByte(ip + 1 + 1 * WordBytes + k)]
            = [k \in 0..WordBytes - 1 |-> ByteOf(instr[3], k)]
      BY <2>1
    <2>3. WordOf([k \in 0..WordBytes - 1 |-> ByteOf(instr[3], k)], noise) = instr[3]
      BY <1>2, <1>4, BytesOfWord
    <2> QED
      BY <2>2, <2>3 DEF Operand
  <1>8. Fetched = instr
    BY <1>4, <1>5, <1>6, <1>7 DEF Fetched
  <1> QED
    BY <1>3, <1>8 DEF q

\* At the last byte, that byte and two zeros.
LEMMA FetchedAtLastByte ==
  ASSUME Loaded, ip = progLength - 1, ip \in Nat
  PROVE  Fetched = <<LastByte(prog), 0, 0>> /\ LastByte(prog) \in 0..255 /\ prog # <<>>
  <1> DEFINE n == Len(prog)
             r == OpSize - 1
             q == n - 1
  <1>1. /\ OpSize \in Nat /\ OpSize = 2 * WordBytes + 1 /\ WordBytes \in Nat \ {0}
        /\ noise \in Word /\ n \in Nat /\ progLength = OpSize * n /\ 0 \in Word
    <2>1. OpSize = 2 * WordBytes + 1
      BY DEF OpSize
    <2>2. 0 \in Word
      BY ProgramSizes DEF Word
    <2> QED
      BY <2>1, <2>2, ProgramSizes
  <1> HIDE DEF OpSize, n
  <1>2. n # 0
    BY <1>1
  <1>3. q \in 0..Len(prog) - 1 /\ q + 1 = n /\ r \in 0..OpSize - 1
        /\ r # 0 /\ ~(r <= WordBytes) /\ r - 1 - WordBytes = WordBytes - 1
    BY <1>1, <1>2 DEF n
  <1>4. OpSize * q + r = ip
    <2>1. OpSize * q + OpSize = OpSize * n
      BY <1>1, <1>2
    <2> DEFINE x == OpSize * q
               y == OpSize * n
    <2>2. x \in Int /\ y \in Int
      BY <1>1
    <2> HIDE DEF x, y
    <2>3. x + OpSize = y /\ ip = y - 1
      BY <1>1, <2>1 DEF x, y
    <2>4. x + (OpSize - 1) = ip
      BY <1>1, <2>2, <2>3
    <2> QED
      BY <2>4 DEF x
  <1>5. CodeByte(ip) = LastByte(prog)
    <2> HIDE DEF q, r
    <2>1. CodeByte(OpSize * q + r) = ByteOf(prog[q + 1][3], r - 1 - WordBytes)
      BY <1>3, BytesOfInstruction
    <2> QED
      BY <1>3, <1>4, <2>1 DEF LastByte, n
  <1>6. \A k \in Nat : ByteOf(0, k) = 0
    <2>1. ASSUME NEW k \in Nat
          PROVE  ByteOf(0, k) = 0
      <3> DEFINE p == 2 ^ (8 * k)
      <3>1. p \in Nat \ {0}
        <4>1. 8 * k \in Nat
          OBVIOUS
        <4> QED
          BY <4>1, PowerOfTwo
      <3>2. ByteOf(0, k) = (0 \div p) % 256
        BY DEF ByteOf
      <3> HIDE DEF p
      <3> QED
        BY <3>1, <3>2
    <2> QED
      BY <2>1
  <1>7. ASSUME NEW i \in 0..1
        PROVE  Operand(i) = 0
    <2>1. ASSUME NEW k \in 0..WordBytes - 1
          PROVE  CodeByte(ip + 1 + i * WordBytes + k) = ByteOf(0, k)
      <3>1. ip + 1 + i * WordBytes + k >= progLength
        BY <1>1
      <3> QED
        BY <1>1, <1>6, <3>1 DEF CodeByte
    <2>2. [k \in 0..WordBytes - 1 |-> CodeByte(ip + 1 + i * WordBytes + k)]
            = [k \in 0..WordBytes - 1 |-> ByteOf(0, k)]
      BY <2>1
    <2>3. WordOf([k \in 0..WordBytes - 1 |-> ByteOf(0, k)], noise) = 0
      BY <1>1, BytesOfWord
    <2> QED
      BY <2>2, <2>3 DEF Operand
  <1>8. Operand(0) = 0 /\ Operand(1) = 0
    BY <1>7
  <1>9. LastByte(prog) \in 0..255
    BY <1>5, CodeByteIsByte
  <1>10. prog # <<>>
    BY <1>2 DEF n
  <1> QED
    BY <1>5, <1>8, <1>9, <1>10 DEF Fetched

Kind == {"number", "register", "memory", "flag", "pointer", ""}

\* What executeOp's switch can make of an opcode: the result goes to a cell, only
\* a jump takes a number on its left, and only opcode 54 jumps to a register.
LEMMA CaseOfOpcode ==
  ASSUME NEW op \in 0..255
  PROVE  /\ Case(op)[1] \in Assigning \cup {"cmp"} \cup Jumping \cup Idle
         /\ Case(op)[2] \in Kind /\ Case(op)[3] \in Kind
         /\ Case(op)[1] \in Jumping =>
              /\ Case(op)[2] = "number" \/ (Case(op)[2] = "register" /\ op = 54)
              /\ Case(op)[3] = ""
  <1> DEFINE NotKinds == <<"register", "memory", "flag", "pointer">>
             Goal(c) ==
                 /\ c[1] \in Assigning \cup {"cmp"} \cup Jumping \cup Idle
                 /\ c[2] \in Kind /\ c[3] \in Kind
                 /\ c[1] \in Jumping =>
                      /\ c[2] = "number" \/ (c[2] = "register" /\ op = 54)
                      /\ c[3] = ""
  <1>1. \A i \in 0..2 : Kinds(i) \in Kind
    <2>1. Kinds(0) \in Kind /\ Kinds(1) \in Kind /\ Kinds(2) \in Kind
      BY DEF Kinds, Kind
    <2>2. \A i \in 0..2 : i = 0 \/ i = 1 \/ i = 2
      OBVIOUS
    <2> QED
      BY <2>1, <2>2
  <1>2. \A i \in 0..4 : Sources(i) \in Kind
    <2>1. /\ Sources(0) \in Kind /\ Sources(1) \in Kind /\ Sources(2) \in Kind
          /\ Sources(3) \in Kind /\ Sources(4) \in Kind
      BY DEF Sources, Kind
    <2>2. \A i \in 0..4 : i = 0 \/ i = 1 \/ i = 2 \/ i = 3 \/ i = 4
      OBVIOUS
    <2> QED
      BY <2>1, <2>2
  <1>3. \A i \in 1..4 : NotKinds[i] \in Kind
    <2>1. /\ NotKinds[1] \in Kind /\ NotKinds[2] \in Kind
          /\ NotKinds[3] \in Kind /\ NotKinds[4] \in Kind
      BY DEF Kind
    <2>2. \A i \in 1..4 : i = 1 \/ i = 2 \/ i = 3 \/ i = 4
      OBVIOUS
    <2> HIDE DEF NotKinds
    <2> QED
      BY <2>1, <2>2
  <1>4. \A i \in 1..8 : Jumps[i] \in Jumping \cup Idle
    <2>1. /\ Jumps[1] \in Jumping /\ Jumps[2] \in Jumping /\ Jumps[3] \in Jumping
          /\ Jumps[4] \in Jumping /\ Jumps[5] \in Jumping /\ Jumps[6] \in Jumping
          /\ Jumps[7] \in Jumping /\ Jumps[8] \in Idle
      BY DEF Jumps, Jumping, Idle
    <2>2. \A i \in 1..8 : \/ i = 1 \/ i = 2 \/ i = 3 \/ i = 4
                         \/ i = 5 \/ i = 6 \/ i = 7 \/ i = 8
      OBVIOUS
    <2> QED
      BY <2>1, <2>2
  <1> DEFINE Plain == (Assigning \cup {"cmp"} \cup Idle) \ Jumping
  <1>5. \A i \in (1..11) \ {3, 9} : Families[i] \in Plain
    <2>1. /\ Families[1] \in Plain /\ Families[2] \in Plain /\ Families[4] \in Plain
          /\ Families[5] \in Plain /\ Families[6] \in Plain /\ Families[7] \in Plain
          /\ Families[8] \in Plain /\ Families[10] \in Plain /\ Families[11] \in Plain
      BY DEF Families, Assigning, Jumping, Idle
    <2>2. \A i \in (1..11) \ {3, 9} :
              \/ i = 1 \/ i = 2 \/ i = 4 \/ i = 5 \/ i = 6 \/ i = 7 \/ i = 8
              \/ i = 10 \/ i = 11
      OBVIOUS
    <2> HIDE DEF Plain
    <2> QED
      BY <2>1, <2>2
  <1>6. /\ "mov" \in Plain /\ "not" \in Plain /\ "unknown" \in Plain
        /\ "flag" \in Kind /\ "number" \in Kind /\ "register" \in Kind /\ "" \in Kind
    BY DEF Assigning, Jumping, Idle, Kind
  <1>7. ASSUME NEW a \in Plain, NEW b \in Kind, NEW c \in Kind, Case(op) = <<a, b, c>>
        PROVE  Goal(Case(op))
    <2>1. Case(op)[1] = a /\ Case(op)[2] = b /\ Case(op)[3] = c
      BY <1>7
    <2>2. a \in Assigning \cup {"cmp"} \cup Jumping \cup Idle /\ a \notin Jumping
      OBVIOUS
    <2> HIDE DEF Plain
    <2> QED
      BY <2>1, <2>2, Zenon
  <1> HIDE DEF Plain, NotKinds
  <1>8. CASE op < 15
    <2>1. Case(op) = <<"mov", Kinds(op \div 5), Sources(op % 5)>>
      BY <1>8, Zenon DEF Case
    <2>2. op \div 5 \in 0..2 /\ op % 5 \in 0..4
      BY <1>8
    <2> QED
      BY <1>1, <1>2, <1>6, <1>7, <2>1, <2>2
  <1>9. CASE op = 15
    <2>1. Case(op) = <<"mov", "flag", "number">>
      BY <1>9 DEF Case
    <2> QED
      BY <1>6, <1>7, <2>1
  <1>10. CASE op \in 48..55
    <2>1. ~(op < 15) /\ op # 15 /\ op - 47 \in 1..8
      BY <1>10
    <2> DEFINE b == IF op = 54 THEN "register" ELSE "number"
    <2>2. Case(op) = <<Jumps[op - 47], b, "">>
      BY <1>10, <2>1, Zenon DEF Case
    <2>3. b \in Kind /\ (b = "number" \/ (b = "register" /\ op = 54))
      BY <1>6
    <2>4. Jumps[op - 47] \in Jumping \cup Idle
      BY <1>4, <2>1
    <2> HIDE DEF b
    <2>5. Case(op)[1] = Jumps[op - 47] /\ Case(op)[2] = b /\ Case(op)[3] = ""
      <3>1. \A a, c, d : Case(op) = <<a, c, d>> =>
                Case(op)[1] = a /\ Case(op)[2] = c /\ Case(op)[3] = d
        OBVIOUS
      <3> QED
        BY <2>2, <3>1, Zenon
    <2> QED
      BY <1>6, <2>3, <2>4, <2>5
  <1>11. CASE op \in 144..147
    <2>1. ~(op < 15) /\ op # 15 /\ op \notin 48..55 /\ op - 143 \in 1..4
      BY <1>11
    <2>2. Case(op) = <<"not", NotKinds[op - 143], "">>
      BY <1>11, <2>1, Zenon DEF Case, NotKinds
    <2> QED
      BY <1>3, <1>6, <1>7, <2>1, <2>2
  <1> DEFINE Family == op \in 16..187 /\ op % 16 < 12 /\ op \div 16 \notin {3, 9}
             grid == <<Families[op \div 16], Kinds((op % 16) \div 4), Sources(op % 4)>>
  <1>12. ASSUME op > 15, op \notin 48..55, op \notin 144..147
         PROVE  Case(op) = IF Family THEN grid ELSE <<"unknown", "", "">>
    <2>1. ~(op < 15) /\ op # 15 /\ ~(op \in 48..55) /\ ~(op \in 144..147)
      BY <1>12
    <2> DEFINE other == IF Family THEN grid ELSE <<"unknown", "", "">>
               mov == <<"mov", Kinds(op \div 5), Sources(op % 5)>>
               jump == <<Jumps[op - 47], IF op = 54 THEN "register" ELSE "number", "">>
               not == <<"not", <<"register", "memory", "flag", "pointer">>[op - 143], "">>
    <2>2. Case(op) = IF op < 15 THEN mov
                     ELSE IF op = 15 THEN <<"mov", "flag", "number">>
                     ELSE IF op \in 48..55 THEN jump
                     ELSE IF op \in 144..147 THEN not
                     ELSE other
      BY DEF Case
    <2> HIDE DEF other, mov, jump, not
    <2>3. Case(op) = other
      BY <2>1, <2>2
    <2> QED
      BY <2>3 DEF other
  <1>13. CASE op > 15 /\ op \notin 48..55 /\ op \notin 144..147 /\ Family
    <2>1. Case(op) = grid
      BY <1>12, <1>13
    <2>2. op \div 16 \in (1..11) \ {3, 9} /\ (op % 16) \div 4 \in 0..2 /\ op % 4 \in 0..4
      BY <1>13
    <2> QED
      BY <1>1, <1>2, <1>5, <1>7, <2>1, <2>2
  <1>15. CASE op > 15 /\ op \notin 48..55 /\ op \notin 144..147 /\ ~Family
    <2> HIDE DEF Family, grid
    <2>1. Case(op) = <<"unknown", "", "">>
      BY <1>12, <1>15, Zenon
    <2> QED
      BY <1>6, <1>7, <2>1
  <1>14. op < 15 \/ op = 15 \/ op > 15
    OBVIOUS
  <1> HIDE DEF Family
  <1> QED
    BY <1>8, <1>9, <1>10, <1>11, <1>13, <1>14, <1>15, Zenon

-----------------------------------------------------------------------------
(* The types.                                                              *)

Typed == Loaded /\ TypeOK

\* What executing finds: an opcode it knows the parts of, and two words.
LEMMA DecodedTypes ==
  ASSUME Loaded, ip \in Nat
  PROVE  /\ Fetched[1] \in 0..255 /\ Fetched[2] \in Word /\ Fetched[3] \in Word
         /\ Name \in Assigning \cup {"cmp"} \cup Jumping \cup Idle
         /\ Decoded[2] \in Kind /\ Decoded[3] \in Kind
         /\ Name \in Jumping => /\ \/ Decoded[2] = "number"
                                   \/ Decoded[2] = "register" /\ Fetched[1] = 54
                                /\ Decoded[3] = ""
  BY FetchedIsInstruction, CaseOfOpcode DEF Decoded, Name

\* A checked pointer is inside its array, and a word.
LEMMA PointersInside ==
  ASSUME TypeOK
  PROVE  /\ Pointer("mp") \in 0..MEMORY_SIZE - 1 /\ Pointer("mp") \in Word
         /\ Pointer("gp") \in 0..GRAPHICS_SIZE - 1 /\ Pointer("gp") \in Word
  <1>1. mp \in Int /\ gp \in Int /\ Half \in Nat \ {0}
    BY WordSize DEF TypeOK, Word
  <1>2. \A p \in Int, n \in Nat \ {0} : Checked(p, n) \in 0..n - 1
    BY DEF Checked, Between, Greatest, Least
  <1>3. Pointer("mp") \in 0..MEMORY_SIZE - 1 /\ Pointer("gp") \in 0..GRAPHICS_SIZE - 1
    BY <1>1, <1>2, SizesAssumption DEF Pointer
  <1>4. 0..MEMORY_SIZE - 1 \subseteq Word /\ 0..GRAPHICS_SIZE - 1 \subseteq Word
    BY <1>1, SizesAssumption DEF Word
  <1> QED
    BY <1>3, <1>4

\* The operands of an access inside the arrays are words.
LEMMA ValuesAreWords ==
  ASSUME TypeOK, NEW kind \in Kind, NEW index \in Word, NEW which \in {"mp", "gp"},
         Inside(kind, index, which)
  PROVE  Value(kind, index, which) \in Word
  <1>1. 0 \in Word
    BY WordSize DEF Word
  <1>2. CASE kind = "number"
    BY <1>2 DEF Value
  <1>3. CASE kind = "register"
    <2>1. registers[index] \in Word
      BY <1>3 DEF Inside, TypeOK
    <2> QED
      BY <1>3, <2>1 DEF Value
  <1>4. CASE kind = "flag"
    <2>1. flags[index] \in Word
      BY <1>4 DEF Inside, TypeOK
    <2> QED
      BY <1>4, <2>1 DEF Value
  <1>5. CASE kind = "memory"
    <2>1. CellIn(which) \in Word
      BY PointersInside DEF CellIn, TypeOK
    <2> QED
      BY <1>5, <2>1 DEF Value
  <1>6. CASE kind = "pointer"
    <2>1. Pointer(which) \in Word
      BY PointersInside
    <2> QED
      BY <1>6, <2>1 DEF Value
  <1>7. CASE kind = ""
    BY <1>1, <1>7 DEF Value
  <1> QED
    BY <1>2, <1>3, <1>4, <1>5, <1>6, <1>7 DEF Kind

\* So is what an assignment computes from them.
LEMMA ResultIsWord ==
  ASSUME NEW name \in Assigning, NEW a \in Word, NEW b \in Word
  PROVE  Result(name, a, b) \in Word
  <1>1. a \in Int /\ b \in Int /\ a * b \in Int
    BY WordSize DEF Word
  <1>2. Wrap(a + b) \in Word /\ Wrap(a - b) \in Word /\ Wrap(a * b) \in Word
    BY <1>1, WrapIsWord
  <1>3. -a - 1 \in Word
    BY WordSize DEF Word
  <1>4. BitOr(a, b) \in Word /\ BitAnd(a, b) \in Word /\ BitXor(a, b) \in Word
    BY BitOperatorsGiveWords
  <1>5. CASE name \in {"mov", "add", "sub", "mul"}
    BY <1>2, <1>5 DEF Result
  <1>6. CASE name \in {"or", "and", "xor", "not"}
    BY <1>3, <1>4, <1>6 DEF Result
  <1> QED
    BY <1>5, <1>6 DEF Assigning

\* The operands of the instruction at ip.
LEMMA OperandsAreWords ==
  ASSUME Typed, ip \in Nat
  PROVE  /\ LeftInside => LeftValue \in Word
         /\ RightInside => RightValue \in Word
         /\ \A f : Selected(f) \in {"mp", "gp"}
  <1>1. \A f : Selected(f) \in {"mp", "gp"}
    BY DEF Selected
  <1>2. /\ Fetched[2] \in Word /\ Fetched[3] \in Word
        /\ Decoded[2] \in Kind /\ Decoded[3] \in Kind
    BY DecodedTypes DEF Typed
  <1> QED
    BY <1>1, <1>2, ValuesAreWords DEF Typed, LeftInside, RightInside, LeftValue, RightValue

\* Where a jump goes is inside the program, at the start of an instruction or at
\* the last byte, also when the multiplication overflows.
LEMMA LandingInside ==
  ASSUME Loaded, NEW a \in Word, progLength > 0
  PROVE  /\ Landing(a) \in 0..progLength - 1
         /\ Landing(a) % OpSize = 0 \/ Landing(a) = progLength - 1
         /\ a >= 0 /\ a < progLength => Landing(a) % OpSize = 0
         /\ a < 0 /\ RoundedDown(a) \in Word => Landing(a) = 0
         /\ \A i \in Nat :
              a >= OpSize * i /\ OpSize * i <= progLength /\ RoundedDown(a) \in Word
                => Landing(a) >= OpSize * i \/ Landing(a) = progLength - 1
  <1> DEFINE q == Quotient(a)
             x == RoundedDown(a)
             y == Wrap(x)
             H == 2 ^ (FloatBits - 1)
  <1>1. /\ OpSize \in Nat \ {0} /\ progLength \in Nat /\ progLength <= H
        /\ H \in Nat /\ Half \in Nat \ {0} /\ 8 * H <= Half
    <2>1. /\ OpSize \in Nat \ {0} /\ progLength \in Nat /\ progLength <= H
      BY ProgramSizes
    <2> DEFINE E == 2 ^ FloatBits
    <2>2. H \in Nat /\ E = 2 * H /\ 4 * E <= Half /\ Half \in Nat \ {0}
      BY FloatSizes
    <2> HIDE DEF E, H
    <2>3. 8 * H <= Half
      BY <2>2
    <2> QED
      BY <2>1, <2>2, <2>3
  <1>2. a \in Int
    BY <1>1 DEF Word
  <1>3. x = OpSize * q
    BY DEF RoundedDown
  <1>4. /\ q \in Int /\ (a >= 0 => q >= 0) /\ (a < 0 => q <= 0)
        /\ 16 * x <= 25 * Half /\ -25 * Half <= 16 * x
        /\ a >= 0 /\ a <= H => q = a \div OpSize
        /\ \A i \in Nat : OpSize * i <= a /\ OpSize * i <= 2 ^ FloatBits => i <= q
    BY <1>3, QuotientBounds
  <1>5. Landing(a) = Least(Greatest(0, y), progLength - 1)
    BY DEF Landing, Clamped
  <1> HIDE DEF OpSize, progLength, x, H, q
  <1>6. x \in Int /\ (q <= 0 => x <= 0) /\ (q >= 0 => x >= 0)
    BY <1>1, <1>3, <1>4
  <1>7. /\ x \in Word => y = x
        /\ \E m \in Int : y = x - m * (2 * Half)
        /\ y \in Word
    BY <1>6, WrapIsWord
  <1> HIDE DEF y
  <1>8. y = x \/ y < 0 \/ y >= progLength
    <2>1. PICK m \in Int : y = x - m * (2 * Half)
      BY <1>7
    <2>2. CASE m = 0
      <3>1. m * (2 * Half) = 0
        BY <1>1, <2>2
      <3> DEFINE z == m * (2 * Half)
      <3> HIDE DEF z
      <3>2. y = x
        BY <1>6, <2>1, <3>1 DEF z
      <3> QED
        BY <3>2
    <2>3. CASE m >= 1
      <3>1. m * (2 * Half) >= 2 * Half /\ m * (2 * Half) \in Int
        BY <1>1, <2>3
      <3> DEFINE z == m * (2 * Half)
      <3> HIDE DEF z
      <3>2. y < 0
        BY <1>1, <1>4, <1>6, <2>1, <3>1 DEF z
      <3> QED
        BY <3>2
    <2>4. CASE m <= -1
      <3>1. m * (2 * Half) <= -(2 * Half) /\ m * (2 * Half) \in Int
        BY <1>1, <2>4
      <3> DEFINE z == m * (2 * Half)
      <3> HIDE DEF z
      <3>2. 16 * y >= 7 * Half /\ y \in Int
        BY <1>1, <1>4, <1>6, <2>1, <3>1 DEF z
      <3>3. y >= progLength
        BY <1>1, <3>2
      <3> QED
        BY <3>3
    <2>5. m = 0 \/ m >= 1 \/ m <= -1
      OBVIOUS
    <2> QED
      BY <2>2, <2>3, <2>4, <2>5
  <1>9. x % OpSize = 0 /\ 0 % OpSize = 0
    <2>1. 0 \in 0..OpSize - 1 /\ OpSize * q = OpSize * q + 0 /\ 0 = OpSize * 0 + 0
      BY <1>1, <1>4
    <2> QED
      BY <1>1, <1>3, <1>4, <2>1, DivUnique
  <1>10. y \in Int
    BY <1>1, <1>7 DEF Word
  <1>11. Landing(a) = IF y <= 0 THEN 0 ELSE IF y < progLength - 1 THEN y ELSE progLength - 1
    BY <1>1, <1>5, <1>10 DEF Least, Greatest
  <1>12. Landing(a) \in 0..progLength - 1
    BY <1>1, <1>10, <1>11
  <1>13. Landing(a) % OpSize = 0 \/ Landing(a) = progLength - 1
    BY <1>1, <1>8, <1>9, <1>10, <1>11
  <1>14. ASSUME a >= 0, a < progLength
         PROVE  Landing(a) % OpSize = 0
    <2>1. q = a \div OpSize
      BY <1>1, <1>2, <1>4, <1>14
    <2>2. a \div OpSize \in Int /\ a % OpSize \in 0..OpSize - 1
            /\ a = OpSize * (a \div OpSize) + (a % OpSize)
      BY <1>1, <1>2
    <2>3. x <= a
      BY <1>1, <1>2, <1>3, <1>6, <2>1, <2>2
    <2>4. x \in Word
      BY <1>1, <1>2, <1>4, <1>6, <1>14, <2>3 DEF Word
    <2> QED
      BY <1>1, <1>2, <1>6, <1>7, <1>9, <1>11, <1>14, <2>3, <2>4
  <1>15. a < 0 /\ x \in Word => Landing(a) = 0
    BY <1>4, <1>6, <1>7, <1>11
  <1>16. ASSUME NEW i \in Nat, a >= OpSize * i, OpSize * i <= progLength, x \in Word
         PROVE  Landing(a) >= OpSize * i \/ Landing(a) = progLength - 1
    <2> DEFINE k == OpSize * i
    <2>1. k \in Nat
      BY <1>1
    <2>2. k <= 2 ^ FloatBits
      <3> DEFINE E == 2 ^ FloatBits
      <3>1. E = 2 * H
        BY FloatSizes DEF H
      <3> HIDE DEF E, k
      <3>2. k <= E
        BY <1>1, <1>16, <2>1, <3>1 DEF k
      <3> QED
        BY <3>2 DEF E
    <2>3. i <= q
      BY <1>4, <1>16, <2>2
    <2>4. OpSize * i <= OpSize * q
      BY <1>1, <1>4, <2>3
    <2> HIDE DEF k
    <2>5. k <= x
      BY <1>3, <2>4 DEF k
    <2>6. y = x
      BY <1>7, <1>16
    <2>7. Landing(a) >= k \/ Landing(a) = progLength - 1
      BY <1>1, <1>6, <1>11, <2>1, <2>5, <2>6
    <2> QED
      BY <2>7 DEF k
  <1> QED
    BY <1>12, <1>13, <1>14, <1>15, <1>16 DEF x

\* The arithmetic of the conditional jumps gives an integer.
LEMMA JumpedToIsInt ==
  ASSUME Typed, Executing, Name \in Jumping, LeftInside
  PROVE  JumpedTo \in Int /\ Landing(LeftValue) \in Int /\ LeftValue \in Word /\ progLength > 0
  <1>1. /\ progLength > 0 /\ ip \in Nat /\ OpSize \in Int
        /\ flags[0] \in Int /\ flags[1] \in Int
    <2>1. Word \subseteq Int /\ 0 \in 0..FLAGS - 1 /\ 1 \in 0..FLAGS - 1
      BY WordSize DEF Word, FLAGS
    <2>2. flags[0] \in Int /\ flags[1] \in Int
      BY <2>1 DEF Typed, TypeOK
    <2> QED
      BY <2>2, ProgramSizes DEF Executing, Typed
  <1>2. LeftValue \in Word
    BY <1>1, OperandsAreWords
  <1>3. Landing(LeftValue) \in Int
    BY <1>1, <1>2, LandingInside DEF Typed
  <1> DEFINE away == Landing(LeftValue) - OpSize
  <1>4. away \in Int
    BY <1>1, <1>3
  <1>5. JumpedTo = CASE Name = "jmp"  -> away
                     [] Name = "jgt"  -> flags[0] * away + Not(flags[0]) * ip
                     [] Name = "jngt" -> Not(flags[0]) * away + flags[0] * ip
                     [] Name = "je"   -> flags[1] * away + Not(flags[1]) * ip
                     [] Name = "jne"  -> Not(flags[1]) * away + flags[1] * ip
    BY DEF JumpedTo
  <1>6. Not(flags[0]) \in Int /\ Not(flags[1]) \in Int
    BY DEF Not
  <1> HIDE DEF away
  <1>7. /\ flags[0] * away + Not(flags[0]) * ip \in Int
        /\ Not(flags[0]) * away + flags[0] * ip \in Int
        /\ flags[1] * away + Not(flags[1]) * ip \in Int
        /\ Not(flags[1]) * away + flags[1] * ip \in Int
    BY <1>1, <1>4, <1>6
  <1>8. JumpedTo \in Int
    BY <1>4, <1>5, <1>7 DEF Jumping
  <1> QED
    BY <1>1, <1>2, <1>3, <1>8

\* Moving on keeps the counters in their types.
LEMMA GotoTypes ==
  ASSUME Typed, ops < MaxOps, NEW target \in Int, Goto(target)
  PROVE  ip' \in Word /\ ops' \in 0..MaxOps /\ status' = status /\ Loaded'
         /\ OpSize \in Int
  BY WrapIsWord, SizesAssumption, ProgramSizes DEF Typed, TypeOK, Goto, fixed, Loaded

\* The machine starts in its types.
LEMMA TypedInit ==
  ASSUME Init
  PROVE  Typed
  <1>1. 0 \in Word /\ input \in Word /\ noise \in Word
    BY SizesAssumption, WordSize DEF Init, Word
  <1>2. TypeOK
    BY <1>1, SizesAssumption DEF Init, TypeOK
  <1> QED
    BY <1>2 DEF Init, Typed, Loaded

\* No step leaves them.
LEMMA TypedNext ==
  ASSUME Typed, [Next]_vars
  PROVE  Typed'
  <1> USE DEF Typed
  <1>1. Executing => ip \in Nat /\ ops < MaxOps
    BY ProgramSizes DEF Executing
  <1>2. OpSize \in Int /\ ip \in Int
    BY ProgramSizes DEF TypeOK, Word
  <1>3. CASE Assign
    <2> DEFINE kind == Decoded[2]
               which == Selected(2)
               value == Result(Name, LeftValue, RightValue)
    <2>1. Executing /\ Name \in Assigning /\ LeftInside /\ RightInside /\ Goto(ip + OpSize)
      BY <1>3 DEF Assign
    <2>2. value \in Word
      BY <1>1, <2>1, OperandsAreWords, ResultIsWord
    <2>3. kind = "register" => Fetched[2] \in 0..REGISTER_SIZE - 1
      BY <2>1 DEF LeftInside, Inside, TypeOK
    <2>4. kind = "flag" => Fetched[2] \in 0..FLAGS - 1
      BY <2>1 DEF LeftInside, Inside, TypeOK
    <2>5. /\ Pointer("mp") \in 0..MEMORY_SIZE - 1 /\ Pointer("mp") \in Word
          /\ Pointer("gp") \in 0..GRAPHICS_SIZE - 1 /\ Pointer("gp") \in Word
      BY PointersInside
    <2> HIDE DEF value, kind, which
    <2>6. registers' = registers
            \/ (kind = "register" /\ registers' = [registers EXCEPT ![Fetched[2]] = value])
      BY <1>3 DEF Assign, value, kind
    <2>7. flags' = flags \/ (kind = "flag" /\ flags' = [flags EXCEPT ![Fetched[2]] = value])
      BY <1>3 DEF Assign, value, kind
    <2>8. memory' = memory \/ memory' = [memory EXCEPT ![Pointer("mp")] = value]
      BY <1>3 DEF Assign, value
    <2>9. graphics' = graphics \/ graphics' = [graphics EXCEPT ![Pointer("gp")] = value]
      BY <1>3 DEF Assign, value
    <2>10. mp' \in {value, Pointer("mp")} /\ gp' \in {value, Pointer("gp")}
      BY <1>3 DEF Assign, value
    <2>11. registers' \in [0..REGISTER_SIZE - 1 -> Word]
      BY <2>2, <2>3, <2>6 DEF TypeOK
    <2>12. flags' \in [0..FLAGS - 1 -> Word]
      BY <2>2, <2>4, <2>7 DEF TypeOK
    <2>13. memory' \in [0..MEMORY_SIZE - 1 -> Word]
      BY <2>2, <2>8 DEF TypeOK
    <2>14. graphics' \in [0..GRAPHICS_SIZE - 1 -> Word]
      BY <2>2, <2>9 DEF TypeOK
    <2>15. mp' \in Word /\ gp' \in Word
      BY <2>2, <2>5, <2>10
    <2>16. ip' \in Word /\ ops' \in 0..MaxOps /\ status' = status /\ Loaded'
      BY <1>1, <1>2, <2>1, GotoTypes
    <2> QED
      BY <2>11, <2>12, <2>13, <2>14, <2>15, <2>16 DEF TypeOK
  <1>4. ASSUME CheckPointers, Executing, UNCHANGED <<registers, memory, graphics>>,
               flags' \in [0..FLAGS - 1 -> Word], NEW target \in Int, Goto(target)
        PROVE  Typed'
    <2>1. mp' \in Word /\ gp' \in Word
      BY <1>4, PointersInside DEF CheckPointers
    <2>2. ip' \in Word /\ ops' \in 0..MaxOps /\ status' = status /\ Loaded'
      BY <1>1, <1>4, GotoTypes
    <2> QED
      BY <1>4, <2>1, <2>2 DEF TypeOK
  <1>5. CASE Compare
    <2>1. 0 \in Word /\ 1 \in Word
      <3>1. Half >= 2
        <4>1. 8 * WordBytes - 2 \in Nat /\ (8 * WordBytes - 2) + 1 = 8 * WordBytes - 1
          BY WordBytesAssumption
        <4>2. Half = 2 * 2 ^ (8 * WordBytes - 2)
          BY <4>1, NextPower DEF Half
        <4> DEFINE p == 2 ^ (8 * WordBytes - 2)
        <4>3. p \in Nat \ {0}
          BY <4>1, PowerOfTwo
        <4> HIDE DEF p
        <4>4. Half = 2 * p
          BY <4>2 DEF p
        <4> QED
          BY <4>3, <4>4
      <3> QED
        BY <3>1, WordSize DEF Word
    <2> DEFINE greater == IF LeftValue > RightValue THEN 1 ELSE 0
               again == IF Decoded[3] = "flag" /\ Fetched[3] = 0 THEN greater ELSE RightValue
               equal == IF LeftValue = again THEN 1 ELSE 0
    <2>2. greater \in Word /\ equal \in Word
      BY <2>1
    <2>3. flags' = [flags EXCEPT ![0] = greater, ![1] = equal]
      BY <1>5 DEF Compare
    <2> HIDE DEF greater, equal
    <2>4. flags' \in [0..FLAGS - 1 -> Word]
      BY <2>2, <2>3 DEF TypeOK
    <2>5. /\ CheckPointers /\ Executing /\ UNCHANGED <<registers, memory, graphics>>
          /\ Goto(ip + OpSize) /\ ip + OpSize \in Int
      BY <1>2, <1>5 DEF Compare
    <2> QED
      BY <1>4, <2>4, <2>5
  <1>6. CASE Jump
    <2>1. /\ CheckPointers /\ Executing /\ UNCHANGED <<registers, memory, graphics, flags>>
          /\ Name \in Jumping /\ LeftInside /\ Goto(Wrap(JumpedTo) + OpSize)
      BY <1>6 DEF Jump
    <2>2. Wrap(JumpedTo) \in Word
      BY <2>1, JumpedToIsInt, WrapIsWord
    <2>3. Wrap(JumpedTo) + OpSize \in Int
      BY <1>2, <2>2, WordSize DEF Word
    <2>4. flags' \in [0..FLAGS - 1 -> Word]
      BY <2>1 DEF TypeOK
    <2> QED
      BY <1>4, <2>1, <2>3, <2>4
  <1>7. CASE NoEffect
    <2>1. /\ CheckPointers /\ Executing /\ UNCHANGED <<registers, memory, graphics, flags>>
          /\ Goto(ip + OpSize) /\ ip + OpSize \in Int
      BY <1>2, <1>7 DEF NoEffect
    <2>2. flags' \in [0..FLAGS - 1 -> Word]
      BY <2>1 DEF TypeOK
    <2> QED
      BY <1>4, <2>1, <2>2
  <1>8. CASE LeaveArrays \/ EndRun \/ CutRun
    BY <1>8 DEF LeaveArrays, EndRun, CutRun, fixed, cells, Loaded, TypeOK
  <1>9. CASE NextSample
    <2>1. 0 \in Word /\ input \in Word
      BY ProgramSizes DEF Word
    <2>2. /\ registers' = [i \in 0..REGISTER_SIZE - 1 |-> 0]
          /\ flags' = [i \in 0..FLAGS - 1 |-> 0]
          /\ memory' = [i \in 0..MEMORY_SIZE - 1 |-> IF i = 0 THEN input ELSE 0]
          /\ UNCHANGED <<graphics, mp, gp, prog, noise, input>>
          /\ ip' = 0 /\ ops' = 0 /\ status' = "running"
      BY <1>9 DEF NextSample, Reset, ResetFlags, fixed
    <2> QED
      BY <2>1, <2>2, SizesAssumption DEF TypeOK, Loaded
  <1>10. CASE UNCHANGED vars
    BY <1>10 DEF vars, fixed, cells, Loaded, TypeOK
  <1> QED
    BY <1>3, <1>5, <1>6, <1>7, <1>8, <1>9, <1>10 DEF Next

\* The machine keeps its types: every register, flag, cell and pointer holds a
\* word after every instruction of any program, the last of a jump's computations
\* included.
THEOREM TypesAlways == Spec => [](Loaded /\ TypeOK)
  <1>1. Init => Typed
    BY TypedInit
  <1>2. Typed /\ [Next]_vars => Typed'
    BY TypedNext
  <1> QED
    BY <1>1, <1>2, PTL DEF Spec, Typed

-----------------------------------------------------------------------------
(* What is fetched.                                                        *)

\* The assembler's store and executeOp's fetch agree at every start of an
\* instruction, for every word size and whatever the operand variables held
\* before the bytes were shifted into them.
THEOREM FetchAlwaysProgram == Spec => []FetchIsProgram
  <1>1. ASSUME Typed
        PROVE  FetchIsProgram
    <2> SUFFICES ASSUME ip \in 0..progLength - 1, ip % OpSize = 0
                 PROVE  Fetched = prog[ip \div OpSize + 1]
      BY DEF FetchIsProgram
    <2> QED
      BY <1>1, FetchedAtStart DEF Typed
  <1>2. Spec => []Typed
    BY TypesAlways DEF Typed
  <1> QED
    BY <1>1, <1>2, PTL

-----------------------------------------------------------------------------
(* Well-formed programs.                                                   *)

\* Where a well-formed program can be: at the start of an instruction, at the last
\* byte, or just behind the program; while it can still jump, the two flags that
\* jumps compute with hold 0 or 1.
Steady ==
    /\ status # "undefined"
    /\ ip \in 0..progLength + OpSize - 1
    /\ ip < progLength =>
         /\ ip % OpSize = 0 \/ ip = progLength - 1
         /\ flags[0] \in {0, 1} /\ flags[1] \in {0, 1}

RobustInv == WellFormed(prog) => Steady

\* Both operands of whatever it executes are inside their arrays, and an
\* instruction that starts there does not write those two flags.
LEMMA WellFormedInside ==
  ASSUME Typed, WellFormed(prog), Steady, ip < progLength
  PROVE  /\ LeftInside /\ RightInside
         /\ ip % OpSize = 0 /\ Decoded[2] = "flag" => Fetched[2] \in 2..FLAGS - 1
  <1>1. ip \in 0..progLength - 1 /\ ip \in Nat
    BY ProgramSizes DEF Steady, Typed
  <1>2. /\ DOMAIN registers = 0..REGISTER_SIZE - 1 /\ DOMAIN flags = 0..FLAGS - 1
        /\ DOMAIN memory = 0..MEMORY_SIZE - 1 /\ DOMAIN graphics = 0..GRAPHICS_SIZE - 1
        /\ 0 \in 0..REGISTER_SIZE - 1 /\ 0 \in 0..FLAGS - 1
    BY SizesAssumption DEF Typed, TypeOK, FLAGS
  <1>3. \A which : IF which = "gp" THEN Pointer("gp") \in DOMAIN graphics
                                   ELSE Pointer("mp") \in DOMAIN memory
    BY <1>2, PointersInside DEF Typed
  <1>4. CASE ip % OpSize = 0
    <2> DEFINE i == ip \div OpSize + 1
    <2>1. i \in 1..Len(prog) /\ Fetched = prog[i]
      BY <1>1, <1>4, FetchedAtStart DEF Typed
    <2> HIDE DEF i
    <2>2. i \in DOMAIN prog /\ Decoded = Case(prog[i][1])
      BY <2>1, ProgramSizes DEF Decoded, Typed
    <2>3. /\ Decoded[2] = "register" => Fetched[2] \in 0..REGISTER_SIZE - 1
          /\ Decoded[2] = "flag" => Fetched[2] \in 2..FLAGS - 1
          /\ Decoded[3] = "register" => Fetched[3] \in 0..REGISTER_SIZE - 1
          /\ Decoded[3] = "flag" => Fetched[3] \in 0..FLAGS - 1
      BY <2>1, <2>2 DEF WellFormed
    <2>4. 2..FLAGS - 1 \subseteq 0..FLAGS - 1
      BY DEF FLAGS
    <2> QED
      BY <1>2, <1>3, <2>3, <2>4 DEF LeftInside, RightInside, Inside
  <1>5. CASE ip = progLength - 1 /\ ~(ip % OpSize = 0)
    <2>1. Fetched[2] = 0 /\ Fetched[3] = 0
      BY <1>1, <1>5, FetchedAtLastByte DEF Typed
    <2> QED
      BY <1>2, <1>3, <1>5, <2>1 DEF LeftInside, RightInside, Inside
  <1> QED
    BY <1>4, <1>5 DEF Steady

\* The next instruction, or the end.
LEMMA NextInstruction ==
  ASSUME Loaded, ip \in 0..progLength - 1, ip % OpSize = 0 \/ ip = progLength - 1
  PROVE  /\ Wrap(ip + OpSize) = ip + OpSize
         /\ ip + OpSize \in 0..progLength + OpSize - 1
         /\ ip + OpSize < progLength => (ip + OpSize) % OpSize = 0
  <1>1. /\ OpSize \in Nat \ {0} /\ progLength \in Nat /\ Half \in Nat
        /\ progLength + OpSize <= Half
    BY ProgramSizes
  <1>2. ip + OpSize \in 0..progLength + OpSize - 1 /\ ip + OpSize \in Word
    BY <1>1 DEF Word
  <1>3. Wrap(ip + OpSize) = ip + OpSize
    BY <1>1, <1>2, WrapIsWord
  <1>4. ASSUME ip + OpSize < progLength
        PROVE  (ip + OpSize) % OpSize = 0
    <2> DEFINE q == ip \div OpSize
    <2>1. ip % OpSize = 0
      BY <1>1, <1>4
    <2>2. ip = OpSize * q /\ q \in Int
      BY <1>1, <2>1
    <2> HIDE DEF q
    <2>3. ip + OpSize = OpSize * (q + 1) + 0 /\ q + 1 \in Int /\ 0 \in 0..OpSize - 1
      BY <1>1, <2>2
    <2> QED
      BY <1>1, <2>3, DivUnique
  <1> QED
    BY <1>2, <1>3, <1>4

\* What a step of such a program does to the instruction pointer: on to the next
\* instruction, or to where its operand's jump lands.
LEMMA WellFormedMoves ==
  ASSUME Typed, WellFormed(prog), Steady, Assign \/ Compare \/ Jump \/ NoEffect
  PROVE  /\ ip \in 0..progLength - 1 /\ ops' = ops + 1 /\ prog' = prog
         /\ \/ ip' = ip + OpSize
            \/ Name \in Jumping /\ LeftInside /\ LeftValue \in Word
                 /\ ip' = Landing(LeftValue)
  <1>1. Executing
    BY DEF Assign, Compare, Jump, NoEffect
  <1>2. /\ OpSize \in Nat \ {0} /\ progLength \in Nat /\ Half \in Nat
        /\ progLength + OpSize <= Half
    BY ProgramSizes DEF Typed
  <1>3. ip \in 0..progLength - 1 /\ ip < progLength /\ progLength > 0
    BY <1>1, <1>2 DEF Executing
  <1>4. ip % OpSize = 0 \/ ip = progLength - 1
    BY <1>3 DEF Steady
  <1>5. ops' = ops + 1 /\ prog' = prog
    BY DEF Assign, Compare, Jump, NoEffect, Goto, fixed
  <1>6. CASE Assign \/ Compare \/ NoEffect
    <2>1. ip' = Wrap(ip + OpSize)
      BY <1>6 DEF Assign, Compare, NoEffect, Goto
    <2> QED
      BY <1>3, <1>4, <1>5, <2>1, NextInstruction DEF Typed
  <1>7. CASE Jump
    <2>1. Name \in Jumping /\ LeftInside /\ ip' = Wrap(Wrap(JumpedTo) + OpSize)
      BY <1>7 DEF Jump, Goto
    <2>2. JumpedTo \in Int /\ Landing(LeftValue) \in Int /\ LeftValue \in Word
      BY <1>1, <2>1, JumpedToIsInt
    <2>3. Landing(LeftValue) \in 0..progLength - 1
      BY <1>3, <2>2, LandingInside DEF Typed
    <2> DEFINE away == Landing(LeftValue) - OpSize
    <2>4. away \in Int /\ away + OpSize = Landing(LeftValue)
      BY <1>2, <2>2
    <2>5. JumpedTo \in {away, ip}
      <3>1. flags[0] \in {0, 1} /\ flags[1] \in {0, 1}
        BY <1>3 DEF Steady
      <3>2. JumpedTo = CASE Name = "jmp"  -> away
                     [] Name = "jgt"  -> flags[0] * away + Not(flags[0]) * ip
                     [] Name = "jngt" -> Not(flags[0]) * away + flags[0] * ip
                     [] Name = "je"   -> flags[1] * away + Not(flags[1]) * ip
                     [] Name = "jne"  -> Not(flags[1]) * away + flags[1] * ip
        BY DEF JumpedTo
      <3> HIDE DEF away
      <3>3. /\ \A f \in {0, 1} : f * away + Not(f) * ip \in {away, ip}
            /\ \A f \in {0, 1} : Not(f) * away + f * ip \in {away, ip}
        BY <1>3, <2>4 DEF Not
      <3> QED
        BY <2>1, <3>1, <3>2, <3>3 DEF Jumping
    <2>6. CASE JumpedTo = away
      <3>1. away \in Word /\ Landing(LeftValue) \in Word
        BY <1>2, <2>3 DEF Word
      <3>2. Wrap(away) = away /\ Wrap(Landing(LeftValue)) = Landing(LeftValue)
        BY <2>2, <2>4, <3>1, WrapIsWord
      <3>3. ip' = Landing(LeftValue)
        BY <2>1, <2>4, <2>6, <3>2
      <3> QED
        BY <1>3, <1>5, <2>1, <2>2, <3>3
    <2>7. CASE JumpedTo = ip
      <3>1. ip \in Word /\ ip \in Int
        BY <1>2, <1>3 DEF Word
      <3>2. Wrap(ip) = ip
        BY <3>1, WrapIsWord
      <3>3. ip' = ip + OpSize
        BY <1>3, <1>4, <2>1, <2>7, <3>2, NextInstruction DEF Typed
      <3> QED
        BY <1>3, <1>5, <3>3
    <2> QED
      BY <2>5, <2>6, <2>7
  <1> QED
    BY <1>6, <1>7

\* It starts so.
LEMMA RobustInit ==
  ASSUME Init
  PROVE  RobustInv
  <1>1. Typed
    BY TypedInit
  <1>2. OpSize \in Nat \ {0} /\ progLength \in Nat
    BY <1>1, ProgramSizes DEF Typed
  <1>3. 0 % OpSize = 0
    BY <1>2
  <1> QED
    BY <1>2, <1>3 DEF Init, RobustInv, Steady, FLAGS

\* Every step leaves it so.
LEMMA RobustNext ==
  ASSUME Typed, RobustInv, [Next]_vars
  PROVE  RobustInv'
  <1> SUFFICES ASSUME WellFormed(prog)'
               PROVE  Steady'
    BY DEF RobustInv
  <1>1. prog' = prog
    BY DEF Next, vars, fixed, Assign, Compare, Jump, NoEffect, Goto, LeaveArrays,
           EndRun, CutRun, NextSample
  <1>2. WellFormed(prog) /\ Steady /\ progLength' = progLength
    BY <1>1 DEF RobustInv, WellFormed, progLength
  <1>3. OpSize \in Nat \ {0} /\ progLength \in Nat /\ 0 % OpSize = 0
    <2>1. OpSize \in Nat \ {0} /\ progLength \in Nat
      BY ProgramSizes DEF Typed
    <2> QED
      BY <2>1
  <1>4. CASE Assign \/ Compare \/ Jump \/ NoEffect
    <2>1. status' # "undefined"
      BY <1>2, <1>4 DEF Assign, Compare, Jump, NoEffect, Goto, Steady
    <2>2. /\ ip \in 0..progLength - 1
          /\ \/ ip' = ip + OpSize
             \/ Name \in Jumping /\ LeftInside /\ LeftValue \in Word
                  /\ ip' = Landing(LeftValue)
      BY <1>2, <1>4, WellFormedMoves
    <2>3. ip % OpSize = 0 \/ ip = progLength - 1
      BY <1>3, <2>2, <1>2 DEF Steady
    <2>4. ip' \in 0..progLength + OpSize - 1
            /\ (ip' < progLength => ip' % OpSize = 0 \/ ip' = progLength - 1)
      <3>1. CASE ip' = ip + OpSize
        BY <1>3, <2>2, <2>3, <3>1, NextInstruction DEF Typed
      <3>2. CASE LeftValue \in Word /\ ip' = Landing(LeftValue)
        BY <1>3, <2>2, <3>2, LandingInside DEF Typed
      <3> QED
        BY <2>2, <3>1, <3>2
    <2>5. ASSUME ip' < progLength
          PROVE  flags'[0] \in {0, 1} /\ flags'[1] \in {0, 1}
      <3>1. flags[0] \in {0, 1} /\ flags[1] \in {0, 1} /\ DOMAIN flags = 0..FLAGS - 1
        BY <1>2, <1>3, <2>2 DEF Steady, Typed, TypeOK
      <3>2. CASE Assign
        <4>1. ip' = ip + OpSize
          BY <2>2, <3>2 DEF Assign, Assigning, Jumping
        <4>2. ip % OpSize = 0
          BY <1>3, <2>2, <2>3, <2>5, <4>1
        <4>3. Decoded[2] = "flag" => Fetched[2] \in 2..FLAGS - 1
          BY <1>2, <1>3, <2>2, <4>2, WellFormedInside
        <4> DEFINE value == Result(Name, LeftValue, RightValue)
        <4>4. flags' = IF Decoded[2] = "flag" THEN [flags EXCEPT ![Fetched[2]] = value]
                       ELSE flags
          BY <3>2 DEF Assign
        <4> HIDE DEF value
        <4> QED
          BY <3>1, <4>3, <4>4 DEF FLAGS
      <3>3. CASE Compare
        <4> DEFINE greater == IF LeftValue > RightValue THEN 1 ELSE 0
                   again == IF Decoded[3] = "flag" /\ Fetched[3] = 0
                            THEN greater ELSE RightValue
                   equal == IF LeftValue = again THEN 1 ELSE 0
        <4>1. flags' = [flags EXCEPT ![0] = greater, ![1] = equal]
          BY <3>3 DEF Compare
        <4>2. greater \in {0, 1} /\ equal \in {0, 1}
          OBVIOUS
        <4> HIDE DEF greater, equal
        <4> QED
          BY <3>1, <4>1, <4>2 DEF FLAGS
      <3>4. CASE Jump \/ NoEffect
        BY <3>1, <3>4 DEF Jump, NoEffect
      <3> QED
        BY <1>4, <3>2, <3>3, <3>4
    <2> QED
      BY <1>1, <1>2, <2>1, <2>4, <2>5 DEF Steady
  <1>5. CASE LeaveArrays
    <2>1. ~(ip < 0)
      BY <1>2, <1>3 DEF Steady
    <2>2. Executing /\ ~(LeftInside /\ RightInside)
      BY <1>5, <2>1 DEF LeaveArrays
    <2>3. ip < progLength
      BY <1>3, <2>2 DEF Executing
    <2> QED
      BY <1>2, <2>2, <2>3, WellFormedInside
  <1>6. CASE EndRun \/ CutRun
    BY <1>1, <1>2, <1>6 DEF EndRun, CutRun, cells, Steady
  <1>7. CASE NextSample
    BY <1>1, <1>2, <1>3, <1>7 DEF NextSample, Reset, ResetFlags, Steady, FLAGS
  <1>8. CASE UNCHANGED vars
    BY <1>1, <1>2, <1>8 DEF vars, cells, Steady
  <1> QED
    BY <1>4, <1>5, <1>6, <1>7, <1>8 DEF Next

\* The claim of Cpu2.h:546, for every well-formed program, sample and size of the
\* arrays: no pointer that is computed, and no jump, the one into the middle of the
\* last instruction included, makes the machine leave an array.
THEOREM WellFormedAlwaysRobust == Spec => []WellFormedIsRobust
  <1>1. Init => Typed /\ RobustInv
    BY TypedInit, RobustInit
  <1>2. Typed /\ RobustInv /\ [Next]_vars => (Typed /\ RobustInv)'
    BY TypedNext, RobustNext
  <1>3. RobustInv => WellFormedIsRobust
    BY DEF RobustInv, Steady, WellFormedIsRobust
  <1> QED
    BY <1>1, <1>2, <1>3, PTL DEF Spec

-----------------------------------------------------------------------------
(* Jumps inside the program, and forward.                                  *)

\* What a program's own jump does, where it is without a jump to a register.
LEMMA OwnJump ==
  ASSUME Typed, RegisterJumps(prog) = {}, ip \in 0..progLength - 1, ip % OpSize = 0,
         Name \in Jumping
  PROVE  /\ ip \div OpSize + 1 \in NumberJumps(prog)
         /\ ip \div OpSize + 1 \in 1..Len(prog)
         /\ LeftValue = prog[ip \div OpSize + 1][2]
  <1> DEFINE i == ip \div OpSize + 1
  <1>1. i \in 1..Len(prog) /\ Fetched = prog[i]
    BY FetchedAtStart DEF Typed
  <1>2. ip \in Nat
    BY ProgramSizes DEF Typed
  <1> HIDE DEF i
  <1>3. i \in DOMAIN prog /\ Decoded = Case(prog[i][1])
    BY <1>1, ProgramSizes DEF Decoded, Typed
  <1>4. Decoded[2] = "number"
    <2>1. Decoded[2] = "number" \/ Fetched[1] = 54
      BY <1>2, DecodedTypes DEF Typed
    <2> QED
      BY <1>1, <1>3, <2>1 DEF RegisterJumps
  <1>5. LeftValue = Fetched[2]
    BY <1>4 DEF LeftValue, Value
  <1>6. i \in NumberJumps(prog)
    BY <1>3, <1>4 DEF NumberJumps, Name
  <1> QED
    BY <1>1, <1>5, <1>6 DEF i

\* A program whose jumps are all to constants inside it is at the start of an
\* instruction whenever it executes one: jmp_range_check rounds every such target
\* down to one.
THEOREM AlwaysAligned == Spec => []JumpsStayAligned
  <1> DEFINE Inv == Typed /\ RobustInv /\ JumpsStayAligned
  <1>1. Init => Inv
    <2> SUFFICES ASSUME Init
                 PROVE  Inv
      OBVIOUS
    <2>1. Typed /\ RobustInv
      BY TypedInit, RobustInit
    <2>2. OpSize \in Nat \ {0}
      BY <2>1, ProgramSizes DEF Typed
    <2>3. ip % OpSize = 0
      BY <2>2 DEF Init
    <2> QED
      BY <2>1, <2>3 DEF JumpsStayAligned
  <1>2. Inv /\ [Next]_vars => Inv'
    <2> SUFFICES ASSUME Inv, [Next]_vars
                 PROVE  Inv'
      OBVIOUS
    <2>1. (Typed /\ RobustInv)'
      BY TypedNext, RobustNext
    <2>2. prog' = prog /\ progLength' = progLength
      BY DEF Next, vars, fixed, Assign, Compare, Jump, NoEffect, Goto, LeaveArrays,
             EndRun, CutRun, NextSample, progLength
    <2> SUFFICES ASSUME JumpsInside(prog), ip' < progLength
                 PROVE  ip' % OpSize = 0
      BY <2>1, <2>2 DEF JumpsStayAligned, JumpsInside, WellFormed, RegisterJumps, NumberJumps
    <2>3. OpSize \in Nat \ {0} /\ progLength \in Nat /\ progLength = OpSize * Len(prog)
      BY ProgramSizes DEF Typed
    <2>4. WellFormed(prog) /\ Steady
      BY DEF JumpsInside, RobustInv
    <2>5. CASE Assign \/ Compare \/ Jump \/ NoEffect
      <3>1. /\ ip \in 0..progLength - 1
            /\ \/ ip' = ip + OpSize
               \/ Name \in Jumping /\ LeftInside /\ LeftValue \in Word
                    /\ ip' = Landing(LeftValue)
        BY <2>4, <2>5, WellFormedMoves
      <3>2. ip % OpSize = 0
        BY <2>3, <3>1 DEF JumpsStayAligned
      <3>3. CASE ip' = ip + OpSize
        BY <3>1, <3>2, <3>3, NextInstruction DEF Typed
      <3>4. CASE Name \in Jumping /\ LeftValue \in Word /\ ip' = Landing(LeftValue)
        <4> DEFINE i == ip \div OpSize + 1
        <4>1. i \in NumberJumps(prog) /\ LeftValue = prog[i][2]
          BY <3>1, <3>2, <3>4, OwnJump DEF JumpsInside, ConstantJumps
        <4> HIDE DEF i
        <4>2. LeftValue < progLength /\ RoundedDown(LeftValue) \in Word
          BY <2>3, <4>1 DEF JumpsInside, ConstantJumps
        <4>3. progLength > 0
          BY <2>3, <3>1
        <4>4. LeftValue >= 0 \/ LeftValue < 0
          BY <3>4, WordSize DEF Word
        <4>5. 0 % OpSize = 0
          BY <2>3
        <4> QED
          BY <3>4, <4>2, <4>3, <4>4, <4>5, LandingInside DEF Typed
      <3> QED
        BY <3>1, <3>3, <3>4
    <2>6. CASE LeaveArrays \/ EndRun \/ CutRun \/ UNCHANGED vars
      BY <2>6 DEF LeaveArrays, EndRun, CutRun, vars, JumpsStayAligned
    <2>7. CASE NextSample
      BY <2>3, <2>7 DEF NextSample
    <2> QED
      BY <2>5, <2>6, <2>7 DEF Next
  <1>3. Inv => JumpsStayAligned
    OBVIOUS
  <1> QED
    BY <1>1, <1>2, <1>3, PTL DEF Spec

\* How far a program that only jumps forward has come: every instruction it
\* executed lies before the one it is at.
Progress ==
    /\ ops <= Len(prog) + 1
    /\ ip < progLength => ops <= Len(prog)
    /\ ip < progLength /\ ip % OpSize = 0 => OpSize * ops <= ip

\* Each step brings it further.
LEMMA ForwardNext ==
  ASSUME Typed, RobustInv, ForwardOnly(prog), Progress,
         Assign \/ Compare \/ Jump \/ NoEffect
  PROVE  Progress'
  <1> DEFINE n == Len(prog)
             i == ip \div OpSize + 1
  <1>1. /\ OpSize \in Nat \ {0} /\ progLength \in Nat /\ progLength = OpSize * n /\ n \in Nat
        /\ ops \in Nat
    BY ProgramSizes, SizesAssumption DEF Typed, TypeOK
  <1>2. WellFormed(prog) /\ Steady /\ RegisterJumps(prog) = {}
    BY DEF ForwardOnly, ConstantJumps, RobustInv
  <1>3. /\ ip \in 0..progLength - 1 /\ ops' = ops + 1 /\ prog' = prog
        /\ \/ ip' = ip + OpSize
           \/ Name \in Jumping /\ LeftInside /\ LeftValue \in Word
                /\ ip' = Landing(LeftValue)
    BY <1>2, WellFormedMoves
  <1>4. progLength' = progLength /\ ip < progLength
    BY <1>1, <1>3 DEF progLength
  <1>5. ops + 1 <= n + 1
    BY <1>1, <1>4 DEF Progress
  <1>6. CASE ip % OpSize = 0
    <2>1. i \in 1..n /\ ip = OpSize * (i - 1)
      <3> DEFINE q == ip \div OpSize
      <3>1. q + 1 \in 1..n /\ ip = OpSize * q
        BY <1>3, <1>6, FetchedAtStart DEF Typed
      <3>2. q \in Int
        BY <1>1, <1>3
      <3> HIDE DEF q, n
      <3>3. (q + 1) - 1 = q
        BY <3>2
      <3> QED
        BY <3>1, <3>3 DEF q
    <2>2. OpSize * ops <= ip
      BY <1>4, <1>6 DEF Progress
    <2> HIDE DEF n, i, OpSize
    <2>3. ops <= i - 1
      <3>1. ops >= i => OpSize * ops >= OpSize * i
        BY <1>1, <2>1
      <3>2. OpSize * i = ip + OpSize
        BY <1>1, <2>1
      <3> QED
        BY <1>1, <1>3, <2>1, <2>2, <3>1, <3>2
    <2>4. ops + 1 <= i /\ ops + 1 <= n
      BY <1>1, <2>1, <2>3
    <2>5. OpSize * (ops + 1) <= OpSize * i /\ OpSize * i = ip + OpSize
      <3>1. \A u, v \in Nat : u <= v => OpSize * u <= OpSize * v
        BY <1>1
      <3>2. OpSize * i = OpSize * (i - 1) + OpSize
        BY <1>1, <2>1
      <3> QED
        BY <1>1, <2>1, <2>4, <3>1, <3>2
    <2>6. ip' < progLength /\ ip' % OpSize = 0 => OpSize * (ops + 1) <= ip'
      <3>1. CASE ip' = ip + OpSize
        BY <2>5, <3>1
      <3>2. CASE Name \in Jumping /\ LeftValue \in Word /\ ip' = Landing(LeftValue)
        <4>1. i \in NumberJumps(prog) /\ LeftValue = prog[i][2]
          BY <1>2, <1>3, <1>6, <3>2, OwnJump DEF i
        <4>2. LeftValue >= i * OpSize /\ RoundedDown(LeftValue) \in Word
          BY <4>1 DEF ForwardOnly, ConstantJumps
        <4>3. /\ i * OpSize = OpSize * i /\ i \in Nat /\ progLength > 0
              /\ OpSize * i <= progLength
          BY <1>1, <1>3, <2>1
        <4>4. Landing(LeftValue) >= OpSize * i \/ Landing(LeftValue) = progLength - 1
          BY <3>2, <4>2, <4>3, LandingInside DEF Typed
        <4>5. CASE ip' >= OpSize * i
          <5> DEFINE u == OpSize * i
                     v == OpSize * (ops + 1)
          <5>1. u \in Int /\ v \in Int /\ ip' \in Int
            BY <1>1, <1>3, <2>1, <3>2, <4>3, LandingInside DEF Typed
          <5>2. v <= u /\ u <= ip'
            BY <2>5, <4>5
          <5> HIDE DEF u, v
          <5>3. v <= ip'
            BY <5>1, <5>2
          <5> QED
            BY <5>3 DEF v
        <4>6. CASE ip' = progLength - 1
          \* The last byte is not the start of an instruction.
          <5>1. OpSize >= 3 /\ OpSize \in Nat
            BY ProgramSizes DEF Typed
          <5>2. OpSize * n = OpSize * (n - 1) + OpSize
            BY <1>1
          <5> DEFINE z == OpSize * (n - 1)
          <5>3. z \in Int
            BY <1>1
          <5> HIDE DEF z
          <5>4. ip' = z + (OpSize - 1)
            BY <1>1, <4>6, <5>1, <5>2, <5>3 DEF z
          <5>5. OpSize - 1 \in 0..OpSize - 1 /\ n - 1 \in Int
            BY <1>1, <5>1
          <5>6. (OpSize * (n - 1) + (OpSize - 1)) % OpSize = OpSize - 1
            BY <1>1, <5>5, DivUnique
          <5>7. ip' % OpSize # 0
            BY <5>1, <5>4, <5>6 DEF z
          <5> QED
            BY <5>7
        <4> QED
          BY <3>2, <4>4, <4>5, <4>6
      <3> QED
        BY <1>3, <3>1, <3>2
    <2> QED
      BY <1>1, <1>3, <1>4, <1>5, <2>4, <2>6 DEF Progress, n
  <1>7. CASE ip = progLength - 1
    <2>1. Fetched[1] = LastByte(prog) /\ prog # <<>>
      BY <1>1, <1>3, <1>7, FetchedAtLastByte DEF Typed
    <2>2. Name \notin Jumping
      BY <2>1 DEF ForwardOnly, Name, Decoded
    <2>3. ip' = ip + OpSize
      BY <1>3, <2>2
    <2>4. ~(ip' < progLength)
      BY <1>1, <1>7, <2>3
    <2> QED
      BY <1>3, <1>4, <1>5, <2>4 DEF Progress
  <1> QED
    BY <1>2, <1>4, <1>6, <1>7 DEF Steady

\* A program that only jumps forward, past its own end included, stops by itself
\* after at most one instruction more than it has, unless the byte it lands on
\* there jumps.
THEOREM ForwardAlwaysEnds == Spec => []ForwardProgramsEnd
  <1> DEFINE ForwardInv == ForwardOnly(prog) => Progress
             Inv == Typed /\ RobustInv /\ ForwardInv
  <1>1. Init => Inv
    <2> SUFFICES ASSUME Init
                 PROVE  Inv
      OBVIOUS
    <2>1. Typed /\ RobustInv
      BY TypedInit, RobustInit
    <2>2. OpSize \in Nat /\ Len(prog) \in Nat /\ OpSize * 0 = 0
      BY <2>1, ProgramSizes DEF Typed
    <2> QED
      BY <2>1, <2>2 DEF Init, Progress
  <1>2. Inv /\ [Next]_vars => Inv'
    <2> SUFFICES ASSUME Inv, [Next]_vars
                 PROVE  Inv'
      OBVIOUS
    <2>1. (Typed /\ RobustInv)'
      BY TypedNext, RobustNext
    <2>2. prog' = prog /\ progLength' = progLength
      BY DEF Next, vars, fixed, Assign, Compare, Jump, NoEffect, Goto, LeaveArrays,
             EndRun, CutRun, NextSample, progLength
    <2>3. ForwardOnly(prog') = ForwardOnly(prog)
      BY <2>2
    <2> SUFFICES ASSUME ForwardOnly(prog)
                 PROVE  Progress'
      BY <2>1, <2>2, <2>3
    <2>4. Progress
      OBVIOUS
    <2>5. CASE Assign \/ Compare \/ Jump \/ NoEffect
      BY <2>4, <2>5, ForwardNext
    <2>6. CASE LeaveArrays \/ EndRun \/ CutRun \/ UNCHANGED vars
      BY <2>2, <2>4, <2>6 DEF LeaveArrays, EndRun, CutRun, vars, Progress
    <2>7. CASE NextSample
      <3>1. OpSize \in Nat /\ Len(prog) \in Nat /\ OpSize * 0 = 0
        BY ProgramSizes DEF Typed
      <3>2. ip' = 0 /\ ops' = 0
        BY <2>7 DEF NextSample
      <3> QED
        BY <2>2, <3>1, <3>2 DEF Progress
    <2> QED
      BY <2>5, <2>6, <2>7 DEF Next
  <1>3. Inv => ForwardProgramsEnd
    BY DEF Progress, ForwardProgramsEnd
  <1> QED
    BY <1>1, <1>2, <1>3, PTL DEF Spec

-----------------------------------------------------------------------------
(* ResetForgetsTheRest compares two runs.  A run is a path of the function *)
(* After from the machine that applyInput hands over; there is one path of *)
(* each length, so that two runs that end have the same last state.        *)

Now == [registers |-> registers, flags |-> flags, memory |-> memory,
        graphics |-> graphics, mp |-> mp, gp |-> gp, ip |-> ip]

Start == [registers |-> [i \in 0..REGISTER_SIZE - 1 |-> 0],
          flags |-> [i \in 0..FLAGS - 1 |-> 0],
          memory |-> [i \in 0..MEMORY_SIZE - 1 |-> IF i = 0 THEN input ELSE 0],
          graphics |-> [i \in 0..GRAPHICS_SIZE - 1 |-> noise],
          mp |-> 0, gp |-> 0, ip |-> 0]

\* What the operators of the machine are in a state s.
OperandAt(a, i) ==
    WordOf([k \in 0..WordBytes - 1 |-> CodeByte(a + 1 + i * WordBytes + k)], noise)
FetchedAt(a) == <<CodeByte(a), OperandAt(a, 0), OperandAt(a, 1)>>
SelectedBy(s, f) == IF s.flags[f] = 2 THEN "gp" ELSE "mp"
PointerOf(s, which) ==
    IF which = "gp" THEN Checked(s.gp, GRAPHICS_SIZE) ELSE Checked(s.mp, MEMORY_SIZE)
CellOf(s, which) ==
    IF which = "gp" THEN s.graphics[PointerOf(s, "gp")] ELSE s.memory[PointerOf(s, "mp")]
ValueOf(s, kind, index, which) ==
    CASE kind = "number"   -> index
      [] kind = "register" -> s.registers[index]
      [] kind = "flag"     -> s.flags[index]
      [] kind = "memory"   -> CellOf(s, which)
      [] kind = "pointer"  -> PointerOf(s, which)
      [] OTHER             -> 0

LeftOf(s) == ValueOf(s, Case(FetchedAt(s.ip)[1])[2], FetchedAt(s.ip)[2], SelectedBy(s, 2))
RightOf(s) == ValueOf(s, Case(FetchedAt(s.ip)[1])[3], FetchedAt(s.ip)[3], SelectedBy(s, 3))

JumpOf(s, name) ==
    LET away == Landing(LeftOf(s)) - OpSize
    IN CASE name = "jmp"  -> away
         [] name = "jgt"  -> s.flags[0] * away + Not(s.flags[0]) * s.ip
         [] name = "jngt" -> Not(s.flags[0]) * away + s.flags[0] * s.ip
         [] name = "je"   -> s.flags[1] * away + Not(s.flags[1]) * s.ip
         [] name = "jne"  -> Not(s.flags[1]) * away + s.flags[1] * s.ip

\* The state after the instruction that s executes.
Assigned(s, code, case) ==
    LET kind == case[2]
        which == SelectedBy(s, 2)
        value == Result(case[1], LeftOf(s), RightOf(s))
        Put(array, k) == [array EXCEPT ![k] = value]
    IN [registers |-> IF kind = "register" THEN Put(s.registers, code[2]) ELSE s.registers,
        flags |-> IF kind = "flag" THEN Put(s.flags, code[2]) ELSE s.flags,
        memory |-> IF kind = "memory" /\ which = "mp"
                   THEN Put(s.memory, PointerOf(s, "mp")) ELSE s.memory,
        graphics |-> IF kind = "memory" /\ which = "gp"
                     THEN Put(s.graphics, PointerOf(s, "gp")) ELSE s.graphics,
        mp |-> IF kind = "pointer" /\ which = "mp" THEN value ELSE PointerOf(s, "mp"),
        gp |-> IF kind = "pointer" /\ which = "gp" THEN value ELSE PointerOf(s, "gp"),
        ip |-> Wrap(s.ip + OpSize)]

Flagged(s, code, case) ==
    LET greater == IF LeftOf(s) > RightOf(s) THEN 1 ELSE 0
        again == IF case[3] = "flag" /\ code[3] = 0 THEN greater ELSE RightOf(s)
    IN [s.flags EXCEPT ![0] = greater, ![1] = IF LeftOf(s) = again THEN 1 ELSE 0]

Moved(s, newFlags, target) ==
    [registers |-> s.registers, flags |-> newFlags, memory |-> s.memory,
     graphics |-> s.graphics, mp |-> PointerOf(s, "mp"), gp |-> PointerOf(s, "gp"),
     ip |-> Wrap(target)]

After(s) ==
    LET code == FetchedAt(s.ip)
        case == Case(code[1])
    IN CASE case[1] \in Assigning -> Assigned(s, code, case)
         [] case[1] = "cmp" -> Moved(s, Flagged(s, code, case), s.ip + OpSize)
         [] case[1] \in Jumping -> Moved(s, s.flags, Wrap(JumpOf(s, case[1])) + OpSize)
         [] case[1] \in Idle -> Moved(s, s.flags, s.ip + OpSize)

\* Every instruction does what After says.
LEMMA OperatorsOfNow ==
  /\ FetchedAt(Now.ip) = Fetched
  /\ \A f : SelectedBy(Now, f) = Selected(f)
  /\ \A which : PointerOf(Now, which) = Pointer(which)
  /\ LeftOf(Now) = LeftValue /\ RightOf(Now) = RightValue
  /\ JumpOf(Now, Name) = JumpedTo
  <1>1. /\ Now.registers = registers /\ Now.flags = flags /\ Now.memory = memory
        /\ Now.graphics = graphics /\ Now.mp = mp /\ Now.gp = gp /\ Now.ip = ip
    BY DEF Now
  <1>2. FetchedAt(ip) = Fetched
    BY DEF FetchedAt, Fetched, OperandAt, Operand
  <1>3. \A f : SelectedBy(Now, f) = Selected(f)
    BY <1>1 DEF SelectedBy, Selected
  <1>4. \A which : PointerOf(Now, which) = Pointer(which)
    BY <1>1 DEF PointerOf, Pointer
  <1>5. \A which : CellOf(Now, which) = CellIn(which)
    BY <1>1, <1>4 DEF CellOf, CellIn
  <1>6. \A kind, index, which : ValueOf(Now, kind, index, which) = Value(kind, index, which)
    BY <1>1, <1>4, <1>5 DEF ValueOf, Value
  <1>7. LeftOf(Now) = LeftValue /\ RightOf(Now) = RightValue
    BY <1>1, <1>2, <1>3, <1>6 DEF LeftOf, RightOf, LeftValue, RightValue, Decoded
  <1>8. JumpOf(Now, Name) = JumpedTo
    BY <1>1, <1>7 DEF JumpOf, JumpedTo
  <1> QED
    BY <1>1, <1>2, <1>3, <1>4, <1>7, <1>8

LEMMA StepIsAfter ==
  ASSUME Assign \/ Compare \/ Jump \/ NoEffect
  PROVE  Now' = After(Now)
  <1>1. /\ Now.registers = registers /\ Now.flags = flags /\ Now.memory = memory
        /\ Now.graphics = graphics /\ Now.mp = mp /\ Now.gp = gp /\ Now.ip = ip
    BY DEF Now
  <1>2. Now' = [registers |-> registers', flags |-> flags', memory |-> memory',
                graphics |-> graphics', mp |-> mp', gp |-> gp', ip |-> ip']
    BY DEF Now
  <1>3. Decoded = Case(FetchedAt(Now.ip)[1]) /\ Name = Decoded[1]
    BY OperatorsOfNow DEF Decoded, Name
  <1>4. /\ "cmp" \notin Assigning \cup Jumping \cup Idle /\ Assigning \cap Jumping = {}
        /\ Assigning \cap Idle = {} /\ Jumping \cap Idle = {}
    BY DEF Assigning, Jumping, Idle
  <1>5. CASE Assign
    <2>1. After(Now) = Assigned(Now, Fetched, Decoded)
      BY <1>3, <1>4, <1>5, OperatorsOfNow DEF After, Assign
    <2> QED
      BY <1>1, <1>2, <1>3, <1>5, <2>1, OperatorsOfNow DEF Assigned, Assign, Goto
  <1>6. CASE Compare
    <2>1. After(Now) = Moved(Now, Flagged(Now, Fetched, Decoded), ip + OpSize)
      BY <1>1, <1>3, <1>4, <1>6, OperatorsOfNow DEF After, Compare
    <2>2. flags' = Flagged(Now, Fetched, Decoded)
      BY <1>1, <1>6, OperatorsOfNow DEF Flagged, Compare
    <2> QED
      BY <1>1, <1>2, <1>6, <2>1, <2>2, OperatorsOfNow DEF Moved, Compare, Goto, CheckPointers
  <1>7. CASE Jump
    <2>1. After(Now) = Moved(Now, flags, Wrap(JumpedTo) + OpSize)
      BY <1>1, <1>3, <1>4, <1>7, OperatorsOfNow DEF After, Jump
    <2> QED
      BY <1>1, <1>2, <1>7, <2>1, OperatorsOfNow DEF Moved, Jump, Goto, CheckPointers
  <1>8. CASE NoEffect
    <2>1. After(Now) = Moved(Now, flags, ip + OpSize)
      BY <1>1, <1>3, <1>4, <1>8, OperatorsOfNow DEF After, NoEffect
    <2> QED
      BY <1>1, <1>2, <1>8, <2>1, OperatorsOfNow DEF Moved, NoEffect, Goto, CheckPointers
  <1> QED
    BY <1>5, <1>6, <1>7, <1>8

\* f holds the first n states of a run.
Path(f, n) ==
    /\ n \in Nat \ {0} /\ DOMAIN f = 1..n /\ f[1] = Start
    /\ \A i \in 1..n - 1 : f[i].ip < progLength /\ f[i + 1] = After(f[i])

\* Two runs of one program on one sample go through the same states.
LEMMA PathsAgree ==
  ASSUME NEW f, NEW n, Path(f, n), NEW g, NEW m, Path(g, m)
  PROVE  \A i \in 1..n : i <= m => f[i] = g[i]
  <1> DEFINE S == {i \in Nat : i + 1 <= n /\ i + 1 <= m => f[i + 1] = g[i + 1]}
  <1>1. n \in Nat /\ m \in Nat
    BY DEF Path
  <1>2. 0 \in S
    BY DEF Path
  <1>3. ASSUME NEW i \in Nat, i \in S
        PROVE  i + 1 \in S
    <2> SUFFICES ASSUME (i + 1) + 1 <= n, (i + 1) + 1 <= m
                 PROVE  f[(i + 1) + 1] = g[(i + 1) + 1]
      OBVIOUS
    <2>1. i + 1 \in 1..n - 1 /\ i + 1 \in 1..m - 1 /\ f[i + 1] = g[i + 1]
      BY <1>1, <1>3
    <2>2. f[(i + 1) + 1] = After(f[i + 1]) /\ g[(i + 1) + 1] = After(g[i + 1])
      BY <2>1 DEF Path
    <2> QED
      BY <2>1, <2>2
  <1> HIDE DEF S
  <1>4. Nat \subseteq S
    BY <1>2, <1>3, SetInduction
  <1>5. ASSUME NEW i \in 1..n, i <= m
        PROVE  f[i] = g[i]
    <2>1. i - 1 \in Nat /\ (i - 1) + 1 = i
      BY <1>1
    <2>2. i - 1 \in S
      BY <1>4, <2>1
    <2> QED
      BY <1>1, <1>5, <2>1, <2>2 DEF S
  <1> QED
    BY <1>5

\* A run that has ended has one length, and one last state.
LEMMA EndsAgree ==
  ASSUME NEW f, NEW n, Path(f, n), f[n].ip >= progLength,
         NEW g, NEW m, Path(g, m), g[m].ip >= progLength, progLength \in Int,
         f[n].ip \in Int, g[m].ip \in Int
  PROVE  f[n] = g[m]
  <1>1. n \in Nat \ {0} /\ m \in Nat \ {0}
    BY DEF Path
  <1>2. CASE n < m
    <2>1. n \in 1..m - 1 /\ f[n] = g[n]
      BY <1>1, <1>2, PathsAgree
    <2> QED
      BY <2>1 DEF Path
  <1>3. CASE m < n
    <2>1. m \in 1..n - 1 /\ f[m] = g[m]
      BY <1>1, <1>3, PathsAgree
    <2> QED
      BY <2>1 DEF Path
  <1>4. CASE n = m
    BY <1>1, <1>4, PathsAgree
  <1> QED
    BY <1>1, <1>2, <1>3, <1>4

\* The runs are of one program, on one sample.
LEMMA PathIsFixed ==
  ASSUME UNCHANGED fixed, NEW f, NEW n
  PROVE  Path(f, n)' <=> Path(f, n)
  <1>1. prog' = prog /\ noise' = noise /\ input' = input
    BY DEF fixed
  <1>2. Start' = Start
    BY <1>1 DEF Start
  <1>3. progLength' = progLength
    BY <1>1 DEF progLength
  <1>4. \A a : CodeByte(a)' = CodeByte(a)
    BY <1>1 DEF CodeByte, progLength
  <1>5. \A a : FetchedAt(a)' = FetchedAt(a)
    BY <1>1, <1>4 DEF FetchedAt, OperandAt
  <1>6. \A a : Landing(a)' = Landing(a)
    BY <1>3 DEF Landing, Clamped
  <1>7. \A s : LeftOf(s)' = LeftOf(s) /\ RightOf(s)' = RightOf(s)
    BY <1>5 DEF LeftOf, RightOf
  <1>8. \A s, name : JumpOf(s, name)' = JumpOf(s, name)
    BY <1>6, <1>7 DEF JumpOf
  <1>9. \A s, code, case : /\ Assigned(s, code, case)' = Assigned(s, code, case)
                           /\ Flagged(s, code, case)' = Flagged(s, code, case)
    BY <1>7 DEF Assigned, Flagged
  <1>10. \A s : After(s)' = After(s)
    BY <1>5, <1>8, <1>9 DEF After
  <1> QED
    BY <1>2, <1>10, <1>3 DEF Path

\* The run under way is a path, unless the one before has left something behind;
\* a first run that ended is remembered by the registers of a path that ended.
PathInv ==
    /\ status = "ended" => ip >= progLength
    /\ first = <<>> \/ (first[1].status = "ended" /\ first[1].unmoved)
         => \E f : Path(f, ops + 1) /\ f[ops + 1] = Now
    /\ first # <<>> /\ first[1].status = "ended"
         => \E g, m : /\ Path(g, m) /\ g[m].ip \in Int /\ g[m].ip >= progLength
                      /\ g[m].registers = first[1].registers

LEMMA PathStarts ==
  Path([i \in 1..1 |-> Start], 1)
  BY DEF Path

LEMMA PathInit ==
  ASSUME Init
  PROVE  PathInv
  <1> DEFINE f == [i \in 1..1 |-> Start]
  <1>1. Now = Start /\ ops + 1 = 1 /\ first = <<>> /\ status # "ended"
    BY DEF Init, Now, Start
  <1>2. Path(f, ops + 1) /\ f[ops + 1] = Now
    BY <1>1, PathStarts
  <1> HIDE DEF f
  <1> QED
    BY <1>1, <1>2 DEF PathInv

LEMMA PathNext ==
  ASSUME Typed, PathInv, [Next]_vars
  PROVE  PathInv'
  <1>1. progLength \in Int /\ ops \in Nat /\ ip \in Int
    <2>1. progLength \in Nat
      BY ProgramSizes DEF Typed, progLength
    <2>2. Word \subseteq Int
      BY WordSize DEF Word
    <2>3. ip \in Word /\ ops \in 0..MaxOps
      BY DEF Typed, TypeOK
    <2>4. ops \in Nat
      BY <2>3
    <2> QED
      BY <2>1, <2>2, <2>3, <2>4
  <1>2. UNCHANGED fixed
    BY DEF Next, vars, Assign, Compare, Jump, NoEffect, Goto, LeaveArrays, EndRun, CutRun,
           NextSample
  <1>3. \A f, n : Path(f, n)' <=> Path(f, n)
    BY <1>2, PathIsFixed
  <1>4. progLength' = progLength
    BY <1>2 DEF fixed, progLength
  <1>5. CASE Assign \/ Compare \/ Jump \/ NoEffect
    <2>1. /\ status' = status /\ status # "ended" /\ first' = first /\ ops' = ops + 1
          /\ ip < progLength
      BY <1>1, <1>5 DEF Assign, Compare, Jump, NoEffect, Goto, Executing
    <2>2. ASSUME NEW f, Path(f, ops + 1), f[ops + 1] = Now
          PROVE  \E g : Path(g, ops' + 1) /\ g[ops' + 1] = Now'
      <3> DEFINE n == ops + 1
                 g == [i \in 1..n + 1 |-> IF i = n + 1 THEN Now' ELSE f[i]]
      <3>1. n \in Nat \ {0} /\ n + 1 = ops' + 1
        BY <1>1, <2>1
      <3>2. DOMAIN g = 1..n + 1 /\ g[n + 1] = Now' /\ \A i \in 1..n : g[i] = f[i]
        BY <3>1
      <3>3. Now' = After(Now) /\ Now.ip = ip
        BY <1>5, StepIsAfter DEF Now
      <3> HIDE DEF g, n
      <3>4. f[n] = Now /\ Path(f, n)
        BY <2>2 DEF n
      <3>5. ASSUME NEW i \in 1..(n + 1) - 1
            PROVE  g[i].ip < progLength /\ g[i + 1] = After(g[i])
        <4>1. CASE i = n
          BY <2>1, <3>1, <3>2, <3>3, <3>4, <4>1
        <4>2. CASE i # n
          <5>1. i \in 1..n - 1 /\ i + 1 \in 1..n /\ i \in 1..n
            BY <3>1, <4>2
          <5> QED
            BY <3>2, <3>4, <5>1 DEF Path
        <4> QED
          BY <4>1, <4>2
      <3>6. g[1] = Start
        BY <3>1, <3>2, <3>4 DEF Path
      <3>7. Path(g, n + 1)
        BY <3>1, <3>2, <3>5, <3>6 DEF Path
      <3> QED
        BY <3>1, <3>2, <3>7
    <2>3. first = <<>> \/ (first[1].status = "ended" /\ first[1].unmoved)
            => \E g : Path(g, ops' + 1) /\ g[ops' + 1] = Now'
      BY <2>2 DEF PathInv
    <2> QED
      BY <1>3, <1>4, <2>1, <2>3 DEF PathInv
  <1>6. CASE LeaveArrays \/ EndRun \/ CutRun \/ UNCHANGED vars
    <2>1. Now' = Now /\ ops' = ops /\ first' = first /\ ip' = ip
      BY <1>6 DEF LeaveArrays, EndRun, CutRun, vars, cells, Now
    <2>2. status' = "ended" => ip >= progLength
      BY <1>6 DEF LeaveArrays, EndRun, CutRun, vars, PathInv
    <2> QED
      BY <1>3, <1>4, <2>1, <2>2 DEF PathInv
  <1>7. CASE NextSample
    <2> DEFINE f == [i \in 1..1 |-> Start]
    <2>1. /\ first = <<>> /\ first' # <<>> /\ ops' = 0 /\ status' = "running"
          /\ first'[1].status = status /\ first'[1].registers = registers
          /\ first'[1].unmoved = (mp = 0 /\ gp = 0 /\ \A i \in DOMAIN graphics : graphics[i] = noise)
      BY <1>7 DEF NextSample
    <2>2. ASSUME first'[1].unmoved
          PROVE  Now' = Start
      <3>1. mp = 0 /\ gp = 0 /\ \A i \in DOMAIN graphics : graphics[i] = noise
        BY <2>1, <2>2
      <3>2. graphics = [i \in 0..GRAPHICS_SIZE - 1 |-> noise]
        BY <3>1 DEF Typed, TypeOK
      <3> QED
        BY <1>7, <3>1, <3>2 DEF NextSample, Reset, ResetFlags, Now, Start
    <2>3. Path(f, ops' + 1) /\ f[ops' + 1] = Start
      BY <2>1, PathStarts
    <2> HIDE DEF f
    <2>4. PICK g : Path(g, ops + 1) /\ g[ops + 1] = Now
      BY <2>1 DEF PathInv
    <2>5. g[ops + 1].registers = registers /\ g[ops + 1].ip = ip
      BY <2>4 DEF Now
    <2>6. status = "ended" => \E h, m : /\ Path(h, m) /\ h[m].ip \in Int /\ h[m].ip >= progLength
                                        /\ h[m].registers = registers
      BY <1>1, <2>4, <2>5 DEF PathInv
    <2> QED
      BY <1>3, <1>4, <2>1, <2>2, <2>3, <2>6 DEF PathInv
  <1> QED
    BY <1>5, <1>6, <1>7 DEF Next

\* What a second run answers is what the first did: reset() makes it forget all that
\* matters, as long as the first left mp, gp and graphics as it found them.
THEOREM ResetAlwaysForgets == Spec => []ResetForgetsTheRest
  <1>1. Init => Typed /\ PathInv
    BY TypedInit, PathInit
  <1>2. Typed /\ PathInv /\ [Next]_vars => (Typed /\ PathInv)'
    BY TypedNext, PathNext
  <1>3. Typed /\ PathInv => ResetForgetsTheRest
    <2> SUFFICES ASSUME Typed, PathInv, status = "ended", first # <<>>,
                        first[1].status = "ended", first[1].unmoved
                 PROVE  registers = first[1].registers
      BY DEF ResetForgetsTheRest
    <2>1. PICK f : Path(f, ops + 1) /\ f[ops + 1] = Now
      BY DEF PathInv
    <2>2. PICK g, m : /\ Path(g, m) /\ g[m].ip \in Int /\ g[m].ip >= progLength
                      /\ g[m].registers = first[1].registers
      BY DEF PathInv
    <2>3. progLength \in Int /\ ip \in Int /\ ip >= progLength
      <3>1. progLength \in Nat
        BY ProgramSizes DEF Typed, progLength
      <3>2. Word \subseteq Int
        BY WordSize DEF Word
      <3>3. ip \in Word /\ ip >= progLength
        BY DEF Typed, TypeOK, PathInv
      <3> QED
        BY <3>1, <3>2, <3>3
    <2>4. f[ops + 1].ip = ip /\ f[ops + 1].registers = registers
      BY <2>1 DEF Now
    <2>5. f[ops + 1] = g[m]
      BY <2>1, <2>2, <2>3, <2>4, EndsAgree
    <2> QED
      BY <2>2, <2>4, <2>5
  <1> QED
    BY <1>1, <1>2, <1>3, PTL DEF Spec
====
