--------------------------- MODULE AssemblerProofs ---------------------------
(***************************************************************************)
(* Proofs about Assembler, for every set of texts of any length and every  *)
(* word size: what is assembled does what the text says.                   *)
(*                                                                         *)
(* First where the tokens of a line are in the text, then what an opcode   *)
(* is made of, then the two passes.                                        *)
(***************************************************************************)
EXTENDS Assembler, SetInductions, SequenceTheorems

-----------------------------------------------------------------------------
(* Tokens and lines.                                                       *)

\* off[k] tokens come before line k; the last of off is the length of the text.
Layout(off, ls, tokens) ==
    /\ off \in [1..Len(ls) + 1 -> Nat]
    /\ off[1] = 0 /\ off[Len(ls) + 1] = Len(tokens)
    /\ \A k \in 1..Len(ls) :
        /\ off[k + 1] = off[k] + Len(ls[k])
        /\ \A j \in 1..Len(ls[k]) : tokens[off[k] + j] = ls[k][j]

\* FlattenSeq puts lines one after the other: the first ones of a text, joined.
Joins(h, ls) ==
    h = [i \in 1..Len(ls) |-> IF i = 1 THEN ls[i] ELSE h[i - 1] \o ls[i]]

LEMMA JoinsExist ==
  ASSUME NEW ls, Len(ls) \in Nat \ {0}
  PROVE  \E h : Joins(h, ls)
  <1> DEFINE n == Len(ls)
             OK(h, m) == h = [i \in 1..m |-> IF i = 1 THEN ls[i] ELSE h[i - 1] \o ls[i]]
             D == {m \in Nat : \E h : OK(h, m + 1)}
  <1> HIDE DEF n
  <1>1. 0 \in D
    <2> DEFINE h == [i \in 1..1 |-> ls[i]]
    <2>1. OK(h, 0 + 1)
      OBVIOUS
    <2> HIDE DEF h, OK
    <2> QED
      BY <2>1
  <1>2. ASSUME NEW m \in Nat, m \in D
        PROVE  m + 1 \in D
    <2>1. PICK h : OK(h, m + 1)
      BY <1>2
    <2> DEFINE last == h[m + 1] \o ls[(m + 1) + 1]
               g == [i \in 1..(m + 1) + 1 |-> IF i = (m + 1) + 1 THEN last ELSE h[i]]
    <2> HIDE DEF last
    <2>2. \A i \in 1..m + 1 : g[i] = h[i]
      OBVIOUS
    <2>3. g[(m + 1) + 1] = last
      OBVIOUS
    <2>4. DOMAIN g = 1..(m + 1) + 1
      OBVIOUS
    <2>5. g = [i \in 1..(m + 1) + 1 |-> g[i]]
      OBVIOUS
    <2> HIDE DEF g
    <2>6. ASSUME NEW i \in 1..(m + 1) + 1
          PROVE  g[i] = IF i = 1 THEN ls[i] ELSE g[i - 1] \o ls[i]
      <3>1. CASE i = (m + 1) + 1
        <4>1. i # 1 /\ i - 1 = m + 1 /\ m + 1 \in 1..m + 1
          BY <3>1
        <4>2. g[i - 1] = h[m + 1]
          BY <2>2, <4>1
        <4> QED
          BY Zenon, <2>3, <3>1, <4>1, <4>2 DEF last
      <3>2. CASE i # (m + 1) + 1
        <4>1. i \in 1..m + 1 /\ (i # 1 => i - 1 \in 1..m + 1)
          BY <3>2
        <4>2. h[i] = IF i = 1 THEN ls[i] ELSE h[i - 1] \o ls[i]
          BY <2>1, <4>1
        <4> QED
          BY <2>2, <4>1, <4>2
      <3> QED
        BY <3>1, <3>2
    <2>7. OK(g, (m + 1) + 1)
      BY <2>4, <2>5, <2>6
    <2> HIDE DEF OK
    <2> QED
      BY <2>7
  <1> HIDE DEF D
  <1>3. Nat \subseteq D
    BY <1>1, <1>2, SetInduction
  <1>4. n - 1 \in Nat /\ (n - 1) + 1 = n
    BY DEF n
  <1>5. PICK h : OK(h, (n - 1) + 1)
    BY <1>3, <1>4 DEF D
  <1> QED
    BY <1>4, <1>5 DEF Joins, n

LEMMA PlaceInside ==
  ASSUME NEW a \in Nat, NEW b \in Nat
  PROVE  (\A i \in 1..a : i \in 1..a + b) /\ (\A j \in 1..b : a + j \in 1..a + b)
  OBVIOUS

LEMMA LayoutExists ==
  ASSUME NEW S, NEW ls \in Seq(Seq(S))
  PROVE  FlattenSeq(ls) \in Seq(S) /\ \E off : Layout(off, ls, FlattenSeq(ls))
  <1>1. CASE Len(ls) = 0
    <2>1. FlattenSeq(ls) = ls /\ ls = <<>>
      BY <1>1 DEF FlattenSeq
    <2> DEFINE off == [k \in 1..1 |-> 0]
    <2>2. Layout(off, ls, ls)
      BY <1>1, <2>1 DEF Layout
    <2>3. ls \in Seq(S)
      BY <2>1
    <2> HIDE DEF off
    <2> QED
      BY <2>1, <2>2, <2>3
  <1>2. CASE Len(ls) # 0
    <2> DEFINE n == Len(ls)
               h == CHOOSE g : Joins(g, ls)
    <2>1. n \in Nat \ {0}
      BY <1>2
    <2>2. Joins(h, ls)
      BY <2>1, JoinsExist
    <2>3. FlattenSeq(ls) = h[n]
      BY Zenon, <1>2 DEF FlattenSeq, Joins
    <2> HIDE DEF n, h
    <2>4. h[1] = ls[1] /\ \A i \in 2..n : h[i] = h[i - 1] \o ls[i]
      <3>1. DOMAIN h = 1..n
        BY <2>1, <2>2 DEF Joins, n
      <3>2. \A i \in 1..n : h[i] = IF i = 1 THEN ls[i] ELSE h[i - 1] \o ls[i]
        BY <2>1, <2>2 DEF Joins, n
      <3>3. 1 \in 1..n /\ \A i \in 2..n : i \in 1..n /\ i # 1
        BY <2>1
      <3> QED
        BY Zenon, <3>2, <3>3
    <2>5. \A i \in 1..n : ls[i] \in Seq(S)
      BY DEF n
    <2> DEFINE off == [k \in 1..n + 1 |-> IF k = 1 THEN 0 ELSE Len(h[k - 1])]
               Placed(i) == /\ h[i] \in Seq(S) /\ Len(h[i]) = off[i] + Len(ls[i])
                            /\ \A k \in 1..i : \A j \in 1..Len(ls[k]) :
                                 off[k] + j \in 1..Len(h[i]) /\ h[i][off[k] + j] = ls[k][j]
               D == {m \in Nat : m < n => Placed(m + 1)}
    <2>6. off[1] = 0 /\ \A i \in 1..n : off[i + 1] = Len(h[i])
      BY <2>1
    <2>10. off \in [1..n + 1 -> Nat] <=> \A i \in 1..n : Len(h[i]) \in Nat
      BY <2>1
    <2> HIDE DEF off
    <2>7. 0 \in D
      BY <2>1, <2>4, <2>5, <2>6
    <2>8. ASSUME NEW m \in Nat, m \in D
          PROVE  m + 1 \in D
      <3> SUFFICES ASSUME m + 1 < n
                   PROVE  Placed((m + 1) + 1)
        OBVIOUS
      <3> DEFINE i == m + 1
      <3>1. i \in 1..n /\ i + 1 \in 2..n /\ i + 1 \in 1..n /\ (i + 1) - 1 = i
        BY <2>1
      <3>2. Placed(i)
        BY <2>1, <2>8
      <3> HIDE DEF i
      <3>3. h[i + 1] = h[i] \o ls[i + 1] /\ ls[i + 1] \in Seq(S) /\ off[i + 1] = Len(h[i])
        BY <2>4, <2>5, <2>6, <3>1
      <3>4. /\ h[i + 1] \in Seq(S) /\ Len(h[i + 1]) = Len(h[i]) + Len(ls[i + 1])
            /\ \A p \in 1..Len(h[i]) : h[i + 1][p] = h[i][p]
            /\ \A j \in 1..Len(ls[i + 1]) : h[i + 1][Len(h[i]) + j] = ls[i + 1][j]
        <4> DEFINE s == h[i]
                   t == ls[i + 1]
        <4>1. s \in Seq(S) /\ t \in Seq(S) /\ h[i + 1] = s \o t
          BY <3>2, <3>3
        <4> HIDE DEF s, t
        <4>2. /\ s \o t \in Seq(S) /\ Len(s \o t) = Len(s) + Len(t)
              /\ \A p \in 1..Len(s) + Len(t) : (s \o t)[p] = IF p <= Len(s) THEN s[p] ELSE t[p - Len(s)]
          BY <4>1, ConcatProperties
        <4>3. Len(s) \in Nat /\ Len(t) \in Nat
          BY <4>1, LenProperties
        <4>4. \A p \in 1..Len(s) : (s \o t)[p] = s[p]
          BY <4>2, <4>3
        <4>5. ASSUME NEW j \in 1..Len(t)
              PROVE  (s \o t)[Len(s) + j] = t[j]
          <5>1. Len(s) + j \in 1..Len(s) + Len(t) /\ ~(Len(s) + j <= Len(s)) /\ (Len(s) + j) - Len(s) = j
            BY <4>3
          <5>2. (s \o t)[Len(s) + j] = t[(Len(s) + j) - Len(s)]
            BY <4>2, <5>1
          <5> QED
            BY <5>1, <5>2
        <4> QED
          BY Zenon, <4>1, <4>2, <4>4, <4>5 DEF s, t
      <3>5. ASSUME NEW k \in 1..i + 1, NEW j \in 1..Len(ls[k])
            PROVE  off[k] + j \in 1..Len(h[i + 1]) /\ h[i + 1][off[k] + j] = ls[k][j]
        <4>1. CASE k = i + 1
          <5>1. Len(h[i]) \in Nat /\ Len(ls[i + 1]) \in Nat
            BY <3>2, <3>3, LenProperties
          <5>2. off[k] = Len(h[i]) /\ j \in 1..Len(ls[i + 1])
            BY <3>3, <4>1
          <5>3. h[i + 1][off[k] + j] = ls[k][j]
            BY <3>4, <4>1, <5>2
          <5>4. Len(h[i + 1]) = Len(h[i]) + Len(ls[i + 1])
            BY <3>4
          <5>5. off[k] + j \in 1..Len(h[i + 1])
            BY Zenon, <5>1, <5>2, <5>4, PlaceInside
          <5> QED
            BY <5>3, <5>5
        <4>2. CASE k # i + 1
          <5>1. k \in 1..i
            BY <3>1, <4>2
          <5>2. off[k] + j \in 1..Len(h[i]) /\ h[i][off[k] + j] = ls[k][j]
            BY <3>2, <5>1
          <5>3. Len(h[i]) \in Nat /\ Len(ls[i + 1]) \in Nat
            BY <3>2, <3>3, LenProperties
          <5>6. Len(h[i + 1]) = Len(h[i]) + Len(ls[i + 1])
            BY <3>4
          <5>4. off[k] + j \in 1..Len(h[i + 1])
            BY Zenon, <5>2, <5>3, <5>6, PlaceInside
          <5>5. h[i + 1][off[k] + j] = h[i][off[k] + j]
            BY <3>4, <5>2
          <5> QED
            BY <5>2, <5>4, <5>5
        <4> QED
          BY <4>1, <4>2
      <3> QED
        BY <3>3, <3>4, <3>5 DEF i
    <2> HIDE DEF D
    <2>9. Nat \subseteq D
      BY <2>7, <2>8, SetInduction
    <2>11. ASSUME NEW i \in 1..n
           PROVE  Placed(i)
      <3>1. i - 1 \in Nat /\ (i - 1) + 1 = i /\ i - 1 < n
        BY <2>1
      <3>2. i - 1 \in D
        BY <2>9, <3>1
      <3> QED
        BY <3>1, <3>2 DEF D
    <2>12. Placed(n)
      BY <2>1, <2>11
    <2> HIDE DEF Placed
    <2>13. \A i \in 1..n : Len(h[i]) \in Nat
      BY <2>11 DEF Placed
    <2>14. \A k \in 1..n : off[k + 1] = off[k] + Len(ls[k])
      BY <2>6, <2>11 DEF Placed
    <2>15. \A k \in 1..n : \A j \in 1..Len(ls[k]) : h[n][off[k] + j] = ls[k][j]
      BY <2>12 DEF Placed
    <2>16. off[n + 1] = Len(h[n])
      BY <2>1, <2>6
    <2>17. Layout(off, ls, h[n])
      BY <2>6, <2>10, <2>13, <2>14, <2>15, <2>16 DEF Layout, n
    <2> QED
      BY <2>3, <2>12, <2>17 DEF Placed
  <1> QED
    BY <1>1, <1>2

-----------------------------------------------------------------------------
(* Opcodes.                                                                *)

Mnemonics == {"mov", "nop", "add", "sub", "jmp", "jgt", "jngt", "je", "jne", "mul", "cmp",
              "or", "and", "xor", "not", "shl", "shr"}
JumpNames == {"jmp", "jgt", "jngt", "je", "jne"}
TwoNames == {"mov", "add", "sub", "mul", "cmp", "or", "and", "xor", "shl", "shr"}

LEMMA OpMapNames ==
  /\ DOMAIN opMap = Mnemonics
  /\ opMap.mov = 0 /\ opMap.nop = 55 /\ opMap.add = 16 /\ opMap.sub = 32 /\ opMap.jmp = 48
  /\ opMap.jgt = 49 /\ opMap.jngt = 50 /\ opMap.je = 51 /\ opMap.jne = 52 /\ opMap.mul = 64
  /\ opMap.cmp = 80 /\ opMap.or = 96 /\ opMap.and = 112 /\ opMap.xor = 128
  /\ opMap.not = 144 /\ opMap.shl = 160 /\ opMap.shr = 176
  BY DEF opMap, Mnemonics

LEMMA Arguments ==
  /\ \A name \in TwoNames : opArgs[name].left = {"register", "memory", "pointer"}
  /\ opArgs["mov"].right = {"number", "register", "memory", "flag", "pointer"}
  /\ \A name \in TwoNames \ {"mov"} : opArgs[name].right = {"number", "register", "memory", "flag"}
  /\ opArgs["not"].left = {"register", "memory", "pointer"}
  /\ opArgs["jmp"].left = {"register", "number"}
  /\ \A name \in JumpNames \ {"jmp"} : opArgs[name].left = {"number"}
  /\ \A name \in JumpNames \cup {"not"} : opArgs[name].right = {}
  /\ opArgs["nop"].left = {} /\ opArgs["nop"].right = {}
  BY OpMapNames DEF opArgs, Mnemonics, TwoNames, JumpNames

\* The number of a type, and what the types add to the opcode.
LEMMA TypeNumbers ==
  /\ MemoryType["number"] = 0 /\ MemoryType["register"] = 1 /\ MemoryType["memory"] = 2
  /\ MemoryType["flag"] = 3 /\ MemoryType["pointer"] = 4
  BY DEF MemoryType

Row(dst) == IF dst = "register" THEN 0 ELSE IF dst = "memory" THEN 1 ELSE 2

LEMMA Offset ==
  ASSUME NEW op \in Nat, NEW dst \in {"register", "memory", "pointer"},
         NEW src \in {"number", "register", "memory", "flag", "pointer"},
         src = "pointer" => op <= 14
  PROVE  /\ opOffset(op, dst, src) = MemoryType[src] + Row(dst) * Stride(op)
         /\ MemoryType[src] \in 0..4
  BY TypeNumbers DEF opOffset, InvalidTypes, Row, Stride

LEMMA MovCase ==
  ASSUME NEW dst \in {"register", "memory", "pointer"},
         NEW src \in {"number", "register", "memory", "flag", "pointer"}
  PROVE  Case(MemoryType[src] + Row(dst) * 5) = <<"mov", dst, src>>
  <1> DEFINE t == MemoryType[src]
             a == Row(dst)
             op == t + a * 5
  <1>1. t \in 0..4 /\ a \in 0..2
    BY TypeNumbers DEF Row
  <1>2. Sources(t) = src /\ Kinds(a) = dst
    BY TypeNumbers DEF Row, Sources, Kinds
  <1> HIDE DEF t, a
  <1>3. op < 15 /\ op \div 5 = a /\ op % 5 = t
    BY <1>1
  <1> HIDE DEF op
  <1>4. Case(op) = <<"mov", Kinds(op \div 5), Sources(op % 5)>>
    BY Zenon, <1>3 DEF Case
  <1> QED
    BY Zenon, <1>2, <1>3, <1>4 DEF op, t, a

\* The families of opcodes, sixteen apart.
Base == [add |-> 1, sub |-> 2, mul |-> 4, cmp |-> 5, or |-> 6, and |-> 7, xor |-> 8,
         shl |-> 10, shr |-> 11]

LEMMA FamilyNames ==
  /\ Base.add = 1 /\ Base.sub = 2 /\ Base.mul = 4 /\ Base.cmp = 5 /\ Base.or = 6 /\ Base.and = 7
  /\ Base.xor = 8 /\ Base.shl = 10 /\ Base.shr = 11
  /\ Families[1] = "add" /\ Families[2] = "sub" /\ Families[4] = "mul" /\ Families[5] = "cmp"
  /\ Families[6] = "or" /\ Families[7] = "and" /\ Families[8] = "xor" /\ Families[10] = "shl"
  /\ Families[11] = "shr"
  BY DEF Base, Families

LEMMA FamilyCase ==
  ASSUME NEW name \in TwoNames \ {"mov"},
         NEW dst \in {"register", "memory", "pointer"},
         NEW src \in {"number", "register", "memory", "flag"}
  PROVE  /\ opMap[name] = 16 * Base[name] /\ opMap[name] > 14
         /\ Case(16 * Base[name] + (MemoryType[src] + Row(dst) * 4)) = <<name, dst, src>>
  <1> DEFINE t == MemoryType[src]
             a == Row(dst)
             b == Base[name]
             op == 16 * b + (t + a * 4)
  <1>1. t \in 0..3 /\ a \in 0..2
    BY TypeNumbers DEF Row
  <1>2. Sources(t) = src /\ Kinds(a) = dst
    BY TypeNumbers DEF Row, Sources, Kinds
  <1>3. b \in {1, 2, 4, 5, 6, 7, 8, 10, 11} /\ Families[b] = name /\ opMap[name] = 16 * b
    BY OpMapNames, FamilyNames DEF TwoNames
  <1> HIDE DEF t, a, b
  <1>4. /\ op \div 16 = b /\ op % 16 = t + a * 4
        /\ (t + a * 4) < 12 /\ (t + a * 4) \div 4 = a /\ (t + a * 4) % 4 = t
    BY <1>1, <1>3
  <1>5. op \in 16..187 /\ op % 4 = t
    BY <1>1, <1>3
  <1>6. b \notin {3, 9} /\ ~(op < 15) /\ op # 15 /\ op \notin 48..55 /\ op \notin 144..147
    BY <1>1, <1>3
  <1>7. Case(op) = <<Families[op \div 16], Kinds((op % 16) \div 4), Sources(op % 4)>>
    BY <1>4, <1>5, <1>6 DEF Case
  <1> QED
    BY <1>1, <1>2, <1>3, <1>4, <1>5, <1>7 DEF t, a, b

\* What the assembler adds up for two operands, the machine takes apart.
LEMMA TwoOperandCase ==
  ASSUME NEW name \in TwoNames, NEW dst, NEW src,
         \/ dst \in opArgs[name].left /\ src \in opArgs[name].right
         \/ name = "mov" /\ dst = "flag" /\ src = "number"
  PROVE  /\ opOffset(opMap[name], dst, src) # -1
         /\ Case(opMap[name] + opOffset(opMap[name], dst, src)) = <<name, dst, src>>
  <1>1. CASE name = "mov" /\ dst = "flag" /\ src = "number"
    <2>1. opOffset(0, dst, src) = 15
      BY <1>1, TypeNumbers DEF opOffset, InvalidTypes
    <2>2. Case(15) = <<"mov", "flag", "number">>
      BY DEF Case
    <2> QED
      BY <1>1, <2>1, <2>2, OpMapNames
  <1>2. CASE dst \in opArgs[name].left /\ src \in opArgs[name].right /\ name = "mov"
    <2>1. /\ dst \in {"register", "memory", "pointer"}
          /\ src \in {"number", "register", "memory", "flag", "pointer"}
      BY <1>2, Arguments
    <2>2. /\ opOffset(0, dst, src) = MemoryType[src] + Row(dst) * 5
          /\ MemoryType[src] \in 0..4 /\ Row(dst) \in 0..2
      BY <2>1, Offset DEF Stride, Row
    <2>3. Case(0 + opOffset(0, dst, src)) = <<"mov", dst, src>>
      BY <2>1, <2>2, MovCase
    <2> QED
      BY <1>2, <2>2, <2>3, OpMapNames
  <1>3. CASE dst \in opArgs[name].left /\ src \in opArgs[name].right /\ name # "mov"
    <2>1. /\ dst \in {"register", "memory", "pointer"}
          /\ src \in {"number", "register", "memory", "flag"}
      BY <1>3, Arguments
    <2>2. /\ opMap[name] = 16 * Base[name] /\ opMap[name] > 14
          /\ Case(16 * Base[name] + (MemoryType[src] + Row(dst) * 4)) = <<name, dst, src>>
      BY <1>3, <2>1, FamilyCase
    <2>3. opMap[name] \in Nat
      BY OpMapNames DEF TwoNames
    <2>4. /\ opOffset(opMap[name], dst, src) = MemoryType[src] + Row(dst) * Stride(opMap[name])
          /\ MemoryType[src] \in 0..4 /\ Row(dst) \in 0..2
      BY <2>1, <2>2, <2>3, Offset DEF Row
    <2>5. Stride(opMap[name]) = 4
      BY <2>2, <2>3 DEF Stride
    <2> QED
      BY <2>2, <2>4, <2>5
  <1> QED
    BY <1>1, <1>2, <1>3

LEMMA OneOperandCase ==
  /\ \A name \in JumpNames : Case(opMap[name]) = <<name, "number", "">>
  /\ \A dst \in {"register", "memory", "pointer"} :
       Case(opMap["not"] + NotOffset(dst)) = <<"not", dst, "">>
  /\ Case(opMap["nop"]) = <<"nop", "number", "">>
  <1>1. ASSUME NEW op \in 48..55
        PROVE  Case(op) = <<Jumps[op - 47], IF op = 54 THEN "register" ELSE "number", "">>
    <2>1. ~(op < 15) /\ op # 15
      OBVIOUS
    <2> QED
      BY Zenon, <2>1 DEF Case
  <1>2. ASSUME NEW op \in 144..147
        PROVE  Case(op) = <<"not", <<"register", "memory", "flag", "pointer">>[op - 143], "">>
    <2>1. ~(op < 15) /\ op # 15 /\ op \notin 48..55
      OBVIOUS
    <2> QED
      BY Zenon, <2>1 DEF Case
  <1>3. ASSUME NEW name \in JumpNames
        PROVE  Case(opMap[name]) = <<name, "number", "">>
    <2>1. opMap[name] \in 48..52 /\ Jumps[opMap[name] - 47] = name
      BY OpMapNames DEF JumpNames, Jumps
    <2>2. opMap[name] \in 48..55 /\ opMap[name] # 54
      BY <2>1
    <2> QED
      BY Zenon, <1>1, <2>1, <2>2
  <1>4. ASSUME NEW dst \in {"register", "memory", "pointer"}
        PROVE  Case(opMap["not"] + NotOffset(dst)) = <<"not", dst, "">>
    <2> DEFINE op == opMap["not"] + NotOffset(dst)
    <2>1. /\ op \in 144..147
          /\ <<"register", "memory", "flag", "pointer">>[op - 143] = dst
      BY TypeNumbers, OpMapNames DEF NotOffset
    <2> HIDE DEF op
    <2>2. Case(op) = <<"not", dst, "">>
      BY Zenon, <1>2, <2>1
    <2> QED
      BY <2>2 DEF op
  <1>5. Case(opMap["nop"]) = <<"nop", "number", "">>
    <2>1. opMap["nop"] = 55 /\ 55 \in 48..55 /\ 55 # 54 /\ Jumps[55 - 47] = "nop"
      BY OpMapNames DEF Jumps
    <2> QED
      BY Zenon, <1>1, <2>1
  <1> QED
    BY <1>3, <1>4, <1>5

-----------------------------------------------------------------------------
(* The text, which is fixed.                                               *)

Loaded == lines \in Seq(Seq(Token) \ {<<>>})

Offsets == CHOOSE off : Layout(off, lines, text)

LEMMA LinesAreTokens ==
  ASSUME Loaded, NEW k \in 1..Len(lines)
  PROVE  /\ Len(lines) \in Nat
         /\ lines[k] \in Seq(Token) /\ Len(lines[k]) \in Nat \ {0}
         /\ \A j \in 1..Len(lines[k]) : lines[k][j] \in Token
  <1>1. lines[k] \in Seq(Token) \ {<<>>} /\ Len(lines) \in Nat
    BY ElementOfSeq, LenProperties DEF Loaded
  <1>2. Len(lines[k]) \in Nat \ {0}
    BY <1>1, EmptySeq
  <1>3. \A j \in 1..Len(lines[k]) : lines[k][j] \in Token
    BY <1>1, ElementOfSeq
  <1> QED
    BY <1>1, <1>2, <1>3

\* The tokens of line k are where Offsets says, before the end of the text.
LEMMA TokensOfLine ==
  ASSUME Loaded
  PROVE  /\ Len(lines) \in Nat /\ Offsets \in [1..Len(lines) + 1 -> Nat]
         /\ Offsets[1] = 0 /\ Offsets[Len(lines) + 1] = Len(text)
         /\ \A k \in 1..Len(lines) :
              /\ Offsets[k + 1] = Offsets[k] + Len(lines[k])
              /\ Offsets[k + 1] <= Len(text)
              /\ \A j \in 1..Len(lines[k]) : text[Offsets[k] + j] = lines[k][j]
  <1> DEFINE n == Len(lines)
             off == Offsets
  <1>1. n \in Nat
    BY LenProperties DEF Loaded
  <1>2. lines \in Seq(Seq(Token))
    <2>1. Seq(Token) \ {<<>>} \subseteq Seq(Token)
      OBVIOUS
    <2> QED
      BY <2>1, SeqMonotonic DEF Loaded
  <1>3. Layout(off, lines, text)
    BY <1>2, LayoutExists DEF Offsets, text
  <1> HIDE DEF off
  <1>4. /\ off \in [1..n + 1 -> Nat] /\ off[1] = 0 /\ off[n + 1] = Len(text)
        /\ \A k \in 1..n : /\ off[k + 1] = off[k] + Len(lines[k])
                           /\ \A j \in 1..Len(lines[k]) : text[off[k] + j] = lines[k][j]
    BY <1>3 DEF Layout
  <1>5. \A k \in 1..n : off[k] <= off[k + 1]
    <2> TAKE k \in 1..n
    <2>1. Len(lines[k]) \in Nat /\ off[k] \in Nat /\ off[k + 1] = off[k] + Len(lines[k])
      BY <1>1, <1>4, LinesAreTokens
    <2> QED
      BY <2>1
  <1> DEFINE D == {m \in Nat : m <= n => off[(n + 1) - m] <= off[n + 1]}
  <1> HIDE DEF n
  <1>6. 0 \in D
    BY <1>1, <1>4
  <1>7. ASSUME NEW m \in Nat, m \in D
        PROVE  m + 1 \in D
    <2> SUFFICES ASSUME m + 1 <= n
                 PROVE  off[(n + 1) - (m + 1)] <= off[n + 1]
      OBVIOUS
    <2> DEFINE k == (n + 1) - (m + 1)
    <2>1. k \in 1..n /\ k + 1 = (n + 1) - m /\ m <= n
      BY <1>1
    <2>2. off[k + 1] <= off[n + 1]
      BY <1>7, <2>1
    <2>3. off[k] <= off[k + 1]
      BY <1>5, <2>1
    <2>4. off[k] \in Nat /\ off[k + 1] \in Nat /\ off[n + 1] \in Nat
      BY <1>1, <1>4, <2>1
    <2> QED
      BY <2>2, <2>3, <2>4
  <1> HIDE DEF D
  <1>8. Nat \subseteq D
    BY <1>6, <1>7, SetInduction
  <1>9. ASSUME NEW k \in 1..n
        PROVE  off[k + 1] <= Len(text)
    <2>1. n - k \in Nat /\ n - k <= n /\ (n + 1) - (n - k) = k + 1
      BY <1>1
    <2> QED
      BY <1>4, <1>8, <2>1 DEF D
  <1> QED
    BY <1>1, <1>4, <1>9 DEF n, off

\* Instructions are counted line by line.
LEMMA CountLines ==
  /\ Number(0) = 0
  /\ \A k \in Nat : Number(k) \in Nat
  /\ \A k \in Nat : Number(k + 1) = IF Marks(k + 1) THEN Number(k) ELSE Number(k) + 1
  /\ \A k, l \in Nat : l <= k => Number(l) <= Number(k)
  <1> DEFINE I(k) == {l \in 1..k : ~Marks(l)}
  <1>1. ASSUME NEW k \in Nat
        PROVE  IsFiniteSet(I(k))
    <2>1. I(k) \subseteq 1..k /\ IsFiniteSet(1..k)
      BY FS_Interval
    <2> HIDE DEF I
    <2> QED
      BY <2>1, FS_Subset
  <1>2. I(0) = {}
    OBVIOUS
  <1>3. \A k \in Nat : I(k + 1) = IF Marks(k + 1) THEN I(k) ELSE I(k) \cup {k + 1}
    OBVIOUS
  <1>4. \A k \in Nat : k + 1 \notin I(k)
    OBVIOUS
  <1>5. \A k, l \in Nat : l <= k => I(l) \subseteq I(k)
    OBVIOUS
  <1>6. \A k : Number(k) = Cardinality(I(k))
    BY DEF Number
  <1> HIDE DEF I
  <1>7. \A k \in Nat : Number(k) \in Nat
    BY <1>1, <1>6, FS_CardinalityType
  <1>8. Number(0) = 0
    BY <1>2, <1>6, FS_EmptySet
  <1>9. ASSUME NEW k \in Nat
        PROVE  Number(k + 1) = IF Marks(k + 1) THEN Number(k) ELSE Number(k) + 1
    <2>1. CASE Marks(k + 1)
      BY <1>3, <1>6, <2>1
    <2>2. CASE ~Marks(k + 1)
      <3>1. Cardinality(I(k) \cup {k + 1}) = Cardinality(I(k)) + 1
        BY <1>1, <1>4, FS_AddElement
      <3> QED
        BY <1>3, <1>6, <2>2, <3>1
    <2> QED
      BY <2>1, <2>2
  <1>10. ASSUME NEW k \in Nat, NEW l \in Nat, l <= k
         PROVE  Number(l) <= Number(k)
    <2>1. Cardinality(I(l)) <= Cardinality(I(k))
      BY <1>1, <1>5, <1>10, FS_Subset
    <2> QED
      BY <1>6, <2>1
  <1> QED
    BY <1>7, <1>8, <1>9, <1>10

-----------------------------------------------------------------------------
(* What a regular text consists of.                                        *)

Cells == {"register", "memory", "pointer"}
Values == {"number", "register", "memory", "flag", "pointer"}

\* The four forms of an instruction, by the kinds its operands are meant as.
NoOperand(line) == line[1].val = "nop" /\ Len(line) = 1
JumpForm(line) ==
    /\ line[1].val \in JumpNames /\ Len(line) = 2
    /\ Meant(line[2]).kind = "number" \/ (line[1].val = "jmp" /\ line[2].kind = "register")
NotForm(line) == line[1].val = "not" /\ Len(line) = 2 /\ line[2].kind \in Cells
TwoForm(line) ==
    /\ line[1].val \in TwoNames /\ Len(line) = 3
    /\ \/ line[2].kind \in opArgs[line[1].val].left /\ Meant(line[3]).kind \in opArgs[line[1].val].right
       \/ line[1].val = "mov" /\ line[2].kind = "flag" /\ line[3].kind = "number"

LEMMA TokenKinds ==
  ASSUME NEW t \in Token
  PROVE  /\ t.kind \in {"word", "label", "number", "register", "memory", "flag", "pointer"}
         /\ t.kind \in {"number", "register", "memory", "flag", "pointer"} => t.val \in Int
         /\ t = [kind |-> t.kind, val |-> t.val]
         /\ t.kind # "label" => Meant(t) = t
         /\ t.kind = "label" => Meant(t) = [kind |-> "number", val |-> Address(t.val)]
         /\ Meant(t).kind = IF t.kind = "label" THEN "number" ELSE t.kind
  BY DEF Token, Meant

LEMMA MeantKind ==
  ASSUME NEW t \in Token, NEW kinds, Meant(t).kind \in kinds, "number" \notin kinds
  PROVE  t.kind \in kinds
  BY TokenKinds

LEMMA Forms ==
  ASSUME NEW line \in Seq(Token), Len(line) \in 1..3, line[1].val \in Mnemonics,
         Documented(line), \A j \in 1..Len(line) : line[j] \in Token
  PROVE  NoOperand(line) \/ JumpForm(line) \/ NotForm(line) \/ TwoForm(line)
  <1> DEFINE name == line[1].val
             args == opArgs[name]
             nothing == [kind |-> "nothing", val |-> 0]
             t == Operand(line, 1)
             u == Operand(line, 2)
             Fits(token, types) ==
                IF types = {} THEN token.kind = "nothing" ELSE Meant(token).kind \in types
  <1>1. /\ Len(line) = 1 => t = nothing /\ u = nothing
        /\ Len(line) = 2 => t = line[2] /\ u = nothing
        /\ Len(line) = 3 => t = line[2] /\ u = line[3]
    BY DEF Operand
  <1>2. \/ Fits(t, args.left) /\ Fits(u, args.right)
        \/ name = "mov" /\ t.kind = "flag" /\ u.kind = "number"
    BY Zenon DEF Documented
  <1>3. nothing.kind = "nothing" /\ Meant(nothing).kind = "nothing"
    BY DEF Meant
  <1> HIDE DEF nothing, t, u
  <1>4. /\ Len(line) >= 2 => t \in Token /\ t.kind # "nothing" /\ Meant(t).kind # "nothing"
        /\ Len(line) = 3 => u \in Token /\ u.kind # "nothing" /\ Meant(u).kind # "nothing"
        /\ Len(line) \in {1, 2, 3}
    BY <1>1, TokenKinds
  <1>5. CASE name = "nop"
    <2>1. t.kind = "nothing"
      BY <1>2, <1>5, Arguments
    <2>2. Len(line) # 2 /\ Len(line) # 3
      <3>1. 2 >= 2 /\ 3 >= 2
        OBVIOUS
      <3> QED
        BY Zenon, <1>4, <2>1, <3>1
    <2>3. Len(line) = 1
      BY <1>4, <2>2
    <2> QED
      BY <1>5, <2>3 DEF NoOperand
  <1>6. CASE name \in JumpNames \cup {"not"}
    <2>1. args.right = {} /\ args.left # {} /\ "nothing" \notin args.left /\ name # "mov"
      BY <1>6, Arguments DEF JumpNames
    <2>2. u.kind = "nothing" /\ Meant(t).kind \in args.left
      BY <1>2, <2>1
    <2>3. Len(line) = 2 /\ t = line[2] /\ t \in Token
      BY <1>1, <1>3, <1>4, <2>1, <2>2
    <2>4. CASE name = "not"
      <3>1. args.left = Cells
        BY <2>4, Arguments DEF Cells
      <3>2. t.kind \in Cells
        BY <2>2, <2>3, <3>1, MeantKind DEF Cells
      <3> QED
        BY <2>3, <2>4, <3>2 DEF NotForm
    <2>5. CASE name = "jmp"
      <3>1. args.left = {"register", "number"}
        BY <2>5, Arguments
      <3>2. Meant(t).kind = "number" \/ t.kind = "register"
        BY <2>2, <2>3, <3>1, TokenKinds
      <3> QED
        BY <1>6, <2>3, <2>5, <3>2 DEF JumpForm, JumpNames
    <2>6. CASE name \in JumpNames \ {"jmp"}
      <3>1. args.left = {"number"}
        BY <2>6, Arguments
      <3> QED
        BY <2>2, <2>3, <2>6, <3>1 DEF JumpForm
    <2> QED
      BY <1>6, <2>4, <2>5, <2>6
  <1>7. CASE name \in TwoNames
    <2>1. /\ args.left = Cells
          /\ args.right \in {Values, Values \ {"pointer"}}
      BY <1>7, Arguments DEF Cells, Values
    <2>2. CASE name = "mov" /\ t.kind = "flag" /\ u.kind = "number"
      <3>1. Len(line) = 3 /\ t = line[2] /\ u = line[3]
        BY <1>1, <1>3, <1>4, <2>2
      <3> QED
        BY <1>7, <2>2, <3>1 DEF TwoForm
    <2>3. CASE Fits(t, args.left) /\ Fits(u, args.right)
      <3>1. Meant(t).kind \in Cells /\ Meant(u).kind \in args.right /\ "nothing" \notin args.right
        <4>0. /\ "number" \in Values /\ "number" \in Values \ {"pointer"} /\ "memory" \in Cells
              /\ "nothing" \notin Values /\ "nothing" \notin Values \ {"pointer"}
          BY DEF Cells, Values
        <4>1. args.left # {} /\ args.right # {} /\ "nothing" \notin args.right
          BY Zenon, <2>1, <4>0
        <4>2. Meant(t).kind \in args.left /\ Meant(u).kind \in args.right
          BY Zenon, <2>3, <4>1
        <4> QED
          BY Zenon, <2>1, <4>1, <4>2
      <3>2. Len(line) = 3 /\ t = line[2] /\ u = line[3] /\ t \in Token
        BY <1>1, <1>3, <1>4, <3>1 DEF Cells
      <3>3. t.kind \in Cells
        BY <3>1, <3>2, MeantKind DEF Cells
      <3> QED
        BY <1>7, <2>1, <3>1, <3>2, <3>3 DEF TwoForm
    <2> QED
      BY <1>2, <2>2, <2>3
  <1> QED
    BY <1>5, <1>6, <1>7 DEF Mnemonics, JumpNames, TwoNames
-----------------------------------------------------------------------------
(* The invariant.                                                          *)

\* The assembler has read the lines before line k and opI tokens of line k.
Reading(k) ==
    /\ k \in 1..Len(lines) + 1
    /\ opI \in 0..2 /\ pos = Offsets[k] + opI + 1
    /\ opI > 0 =>
        /\ k <= Len(lines) /\ ~Marks(k) /\ opI < Len(lines[k])
        /\ currentOp[1] = opMap[lines[k][1].val]
    /\ opI = 2 =>
        /\ TwoForm(lines[k]) /\ left = lines[k][2].kind
        /\ left \in {"register", "flag"} => currentOp[2] = lines[k][2].val
    /\ opI < 2 /\ AfterNumberJump(k) => left = "number"

\* The labels before line k have their addresses.
LabelsRead(k) ==
    /\ DOMAIN labels = {lines[l][1].val : l \in {m \in 1..k - 1 : Marks(m)}}
    /\ \A l \in 1..k - 1 : Marks(l) => labels[lines[l][1].val] = OpSize * Number(l)

\* The program does what the lines before line k say.
Translated(k) ==
    /\ Len(program) = Number(k - 1)
    /\ \A l \in 1..k - 1 :
        \/ Marks(l) \/ JumpsToRegister(lines[l])
        \/ Performs(program[Number(l)], lines[l])

Pass(k) ==
    /\ preParse => LabelsRead(k) /\ programI = OpSize * Number(k - 1) /\ program = <<>>
    /\ ~preParse => LabelsRead(Len(lines) + 1) /\ Translated(k)

Instructions == Int \X Int \X Int
InstrTypes == currentOp \in Instructions /\ program \in Seq(Instructions)

AtLine(k) == Reading(k) /\ Pass(k)

Ended(k) ==
    outcome = "done" => k = Len(lines) + 1 /\ opI = 0 /\ (~preParse \/ openComment)

Inv ==
    /\ Loaded /\ preParse \in BOOLEAN
    /\ Regular => /\ outcome \in {"parsing", "done"}
                  /\ InstrTypes
                  /\ \E k \in 1..Len(lines) + 1 : AtLine(k) /\ Ended(k)

-----------------------------------------------------------------------------
(* Where the assembler is when it reads a token.                           *)

LEMMA AtToken ==
  ASSUME Loaded, NEW k \in 1..Len(lines) + 1, Reading(k)
  PROVE  /\ Len(lines) \in Nat /\ k \in Nat
         /\ pos <= Len(text) <=> k <= Len(lines)
         /\ k <= Len(lines) =>
              /\ k \in 1..Len(lines) /\ tok = lines[k][opI + 1] /\ tok \in Token
              /\ opI + 1 \in 1..Len(lines[k]) /\ pos + 1 = Offsets[k] + (opI + 1) + 1
              /\ opI + 1 = Len(lines[k]) => pos + 1 = Offsets[k + 1] + 1
         /\ k > Len(lines) => k = Len(lines) + 1 /\ opI = 0 /\ pos = Offsets[k] + 1
  <1>1. Len(lines) \in Nat /\ k \in Nat /\ opI \in 0..2 /\ pos = Offsets[k] + opI + 1
    BY TokensOfLine DEF Reading
  <1>2. opI > 0 => k <= Len(lines) /\ opI < Len(lines[k])
    BY DEF Reading
  <1>3. /\ Offsets \in [1..Len(lines) + 1 -> Nat]
        /\ Offsets[Len(lines) + 1] = Len(text)
        /\ k <= Len(lines) =>
             /\ Offsets[k + 1] = Offsets[k] + Len(lines[k])
             /\ Offsets[k + 1] <= Len(text)
             /\ \A j \in 1..Len(lines[k]) : text[Offsets[k] + j] = lines[k][j]
    BY <1>1, TokensOfLine
  <1> DEFINE off == Offsets[k]
  <1>4. off \in Nat
    BY <1>3
  <1> HIDE DEF off
  <1>5. CASE k <= Len(lines)
    <2>1. k \in 1..Len(lines)
      BY <1>1, <1>5
    <2>2. Len(lines[k]) \in Nat \ {0} /\ \A j \in 1..Len(lines[k]) : lines[k][j] \in Token
      BY <2>1, LinesAreTokens
    <2>3. opI + 1 \in 1..Len(lines[k])
      BY <1>1, <1>2, <2>2
    <2>4. Offsets[k + 1] = off + Len(lines[k]) /\ off + Len(lines[k]) <= Len(text)
      BY <1>3, <1>5 DEF off
    <2>5. pos = off + (opI + 1)
      BY <1>1, <1>4 DEF off
    <2>6. tok = lines[k][opI + 1]
      BY <1>3, <1>5, <2>3, <2>5 DEF tok, off
    <2>7. pos <= Len(text)
      <3> DEFINE len == Len(lines[k])
                 size == Len(text)
      <3>1. size \in Int
        BY <1>1, <1>3
      <3>2. len \in Nat /\ off + len <= size /\ opI + 1 <= len
        BY <2>2, <2>3, <2>4
      <3> HIDE DEF len, size
      <3>3. pos <= size
        BY <1>1, <1>4, <2>5, <3>1, <3>2
      <3> QED
        BY <3>3 DEF size
    <2>8. pos + 1 = Offsets[k] + (opI + 1) + 1 /\ (opI + 1 = Len(lines[k]) => pos + 1 = Offsets[k + 1] + 1)
      BY <1>1, <1>4, <2>4, <2>5 DEF off
    <2>9. ~(k > Len(lines))
      BY <1>1, <1>5
    <2>10. tok \in Token
      BY <2>2, <2>3, <2>6
    <2> QED
      BY <1>1, <1>5, <2>1, <2>3, <2>6, <2>7, <2>8, <2>9, <2>10
  <1>6. CASE ~(k <= Len(lines))
    <2>1. k = Len(lines) + 1 /\ ~(opI > 0)
      BY <1>1, <1>2, <1>6
    <2>2. opI = 0 /\ pos = Len(text) + 1 /\ Len(text) \in Nat
      BY <1>1, <1>3, <2>1
    <2>3. pos = Offsets[k] + 1
      BY <1>1, <1>4, <2>2 DEF off
    <2>4. ~(pos <= Len(text))
      BY <2>2
    <2> QED
      BY Zenon, <1>1, <1>6, <2>1, <2>2, <2>3, <2>4
  <1> QED
    BY <1>5, <1>6

\* A line of a regular text.
LEMMA RegularLine ==
  ASSUME Loaded, Regular, NEW k \in 1..Len(lines)
  PROVE  /\ Marks(k) => Len(lines[k]) = 1
         /\ ~Marks(k) => /\ lines[k][1].kind = "word" /\ lines[k][1].val \in Mnemonics
                         /\ Len(lines[k]) \in 1..3
                         /\ \/ NoOperand(lines[k]) \/ JumpForm(lines[k])
                            \/ NotForm(lines[k]) \/ TwoForm(lines[k])
         /\ \A i \in 2..Len(lines[k]) : lines[k][i].kind = "number" => ~TooBig(lines[k][i].val)
         /\ Forward(k) => Len(lines[k]) = 2 /\ AfterNumberJump(k)
  <1>1. k \in DOMAIN lines
    BY DEF Loaded
  <1>2. /\ Marks(k) => Len(lines[k]) = 1
        /\ \A i \in 2..Len(lines[k]) : lines[k][i].kind = "number" => lines[k][i].val \in -(Half - 2)..Half - 2
        /\ ~Marks(k) => /\ lines[k][1].kind = "word" /\ Len(lines[k]) <= 3
                        /\ lines[k][1].val \in DOMAIN opMap
                        /\ Documented(lines[k])
        /\ Forward(k) => Len(lines[k]) = 2 /\ AfterNumberJump(k)
    BY <1>1 DEF Regular
  <1>3. lines[k] \in Seq(Token) /\ Len(lines[k]) \in Nat \ {0} /\ \A j \in 1..Len(lines[k]) : lines[k][j] \in Token
    BY LinesAreTokens
  <1>4. Half \in Int
    <2>1. 8 * WordBytes - 1 \in Nat
      BY WordBytesAssumption
    <2> QED
      BY <2>1, PowerOfTwo DEF Half
  <1>5. ASSUME NEW v \in -(Half - 2)..Half - 2
        PROVE  ~TooBig(v)
    BY <1>4 DEF TooBig
  <1>6. ~Marks(k) => Len(lines[k]) \in 1..3 /\ lines[k][1].val \in Mnemonics
    <2>1. ASSUME NEW m \in Nat \ {0}, m <= 3
          PROVE  m \in 1..3
      BY <2>1
    <2> QED
      BY Zenon, <1>2, <1>3, <2>1, OpMapNames
  <1>7. ~Marks(k) => \/ NoOperand(lines[k]) \/ JumpForm(lines[k])
                     \/ NotForm(lines[k]) \/ TwoForm(lines[k])
    BY <1>2, <1>3, <1>6, Forms
  <1> QED
    BY <1>2, <1>5, <1>6, <1>7

\* A label has one line, and its address is that of the instruction after it.
LEMMA LabelLine ==
  ASSUME Loaded, Regular, NEW l \in 1..Len(lines), Marks(l)
  PROVE  /\ LineOf(lines[l][1].val) = l /\ Address(lines[l][1].val) = OpSize * Number(l)
         /\ \A m \in 1..Len(lines) : Marks(m) /\ lines[m][1].val = lines[l][1].val => m = l
  <1>1. DOMAIN lines = 1..Len(lines)
    BY DEF Loaded
  <1>2. ASSUME NEW m \in 1..Len(lines), Marks(m), lines[m][1].val = lines[l][1].val
        PROVE  m = l
    <2>1. Len(lines[m]) = 1 /\ Len(lines[l]) = 1
      BY <1>2, RegularLine
    <2>2. /\ lines[m] \in Seq(Token) /\ lines[m][1] \in Token
          /\ lines[l] \in Seq(Token) /\ lines[l][1] \in Token
      BY <2>1, LinesAreTokens
    <2>3. lines[m][1] = lines[l][1]
      BY <1>2, <2>2, TokenKinds DEF Marks
    <2>4. lines[m] = lines[l]
      <3> DEFINE s == lines[m]
                 t == lines[l]
      <3>1. s \in Seq(Token) /\ t \in Seq(Token) /\ Len(s) = 1 /\ Len(t) = 1 /\ s[1] = t[1]
        BY <2>1, <2>2, <2>3
      <3> HIDE DEF s, t
      <3>2. s = t
        BY <3>1, SeqEqual
      <3> QED
        BY <3>2 DEF s, t
    <2> QED
      BY <1>1, <1>2, <2>4 DEF Regular
  <1>3. LineOf(lines[l][1].val) = l
    BY <1>1, <1>2 DEF LineOf
  <1> QED
    BY <1>2, <1>3 DEF Address

\* The label a line names is that of another line.
LEMMA NamedLabel ==
  ASSUME Loaded, Regular, NEW k \in 1..Len(lines), NEW i \in 2..Len(lines[k]),
         lines[k][i].kind = "label"
  PROVE  \E l \in 1..Len(lines) :
            /\ Marks(l) /\ lines[l][1].val = lines[k][i].val /\ l # k
            /\ LineOf(lines[k][i].val) = l
  <1>1. lines[k][i].val \in Defined
    <2>1. k \in DOMAIN lines
      BY DEF Loaded
    <2> QED
      BY <2>1 DEF Regular
  <1>2. PICK l \in 1..Len(lines) : Marks(l) /\ lines[l][1].val = lines[k][i].val
    <2>1. DOMAIN lines = 1..Len(lines)
      BY DEF Loaded
    <2> QED
      BY <1>1, <2>1 DEF Defined
  <1>3. l # k
    <2>1. Len(lines[l]) = 1 /\ Len(lines[k]) \in Nat
      BY <1>2, RegularLine, LinesAreTokens
    <2> QED
      BY <2>1
  <1> QED
    BY <1>2, <1>3, LabelLine

\* What an instruction of a regular text has for operands.
LEMMA OperandKinds ==
  ASSUME Loaded, Regular, NEW k \in 1..Len(lines), ~Marks(k), NEW i \in 2..Len(lines[k])
  PROVE  /\ lines[k][i] \in Token /\ lines[k][i].kind \in Values \cup {"label"}
         /\ Meant(lines[k][i]).kind \in Values
  <1> DEFINE line == lines[k]
             t == line[i]
  <1>1. Len(line) \in 1..3 /\ \A j \in 1..Len(line) : line[j] \in Token
    BY RegularLine, LinesAreTokens
  <1>2. i \in {2, 3} /\ (i = 3 => Len(line) = 3) /\ Len(line) # 1 /\ i \in 1..Len(line)
    BY <1>1
  <1>3. t \in Token
    BY <1>1, <1>2
  <1>4. NoOperand(line) \/ JumpForm(line) \/ NotForm(line) \/ TwoForm(line)
    BY RegularLine
  <1>5. t.kind = "label" \/ t.kind # "label"
    OBVIOUS
  <1>6. Meant(t).kind = IF t.kind = "label" THEN "number" ELSE t.kind
    BY <1>3, TokenKinds
  <1> HIDE DEF line
  <1>7. CASE NoOperand(line)
    BY <1>2, <1>7 DEF NoOperand
  <1>8. CASE JumpForm(line)
    <2>1. i = 2
      BY <1>2, <1>8 DEF JumpForm
    <2>2. Meant(t).kind = "number" \/ t.kind = "register"
      BY <1>8, <2>1 DEF JumpForm
    <2> QED
      BY <1>3, <1>6, <2>2 DEF Values, line
  <1>9. CASE NotForm(line)
    <2>1. i = 2
      BY <1>2, <1>9 DEF NotForm
    <2>2. t.kind \in Cells
      BY <1>9, <2>1 DEF NotForm
    <2> QED
      BY <1>3, <1>6, <2>2 DEF Values, Cells, line
  <1>10. CASE TwoForm(line)
    <2>1. line[1].val \in TwoNames
      BY <1>10 DEF TwoForm
    <2>2. opArgs[line[1].val].left \subseteq Values /\ opArgs[line[1].val].right \subseteq Values
      BY <2>1, Arguments DEF Values
    <2>3. line[2].kind \in Values /\ Meant(line[3]).kind \in Values
      <3>1. line[3].kind = "number" => Meant(line[3]).kind = "number"
        BY DEF Meant
      <3> QED
        BY <1>10, <2>2, <3>1 DEF TwoForm, Values
    <2>4. Meant(t).kind \in Values
      BY <1>2, <1>6, <2>3 DEF Values
    <2> QED
      BY <1>3, <1>6, <2>4 DEF Values, line
  <1> QED
    BY <1>4, <1>7, <1>8, <1>9, <1>10

LEMMA SizeType == OpSize \in Nat
  BY WordBytesAssumption DEF OpSize

\* A label is known once its line was read.
LEMMA LabelKnown ==
  ASSUME Loaded, Regular, preParse \in BOOLEAN, NEW k \in 1..Len(lines), Pass(k),
         preParse => ~Forward(k), NEW i \in 2..Len(lines[k]), lines[k][i].kind = "label"
  PROVE  /\ lines[k][i].val \in DOMAIN labels
         /\ labels[lines[k][i].val] = Address(lines[k][i].val)
         /\ Address(lines[k][i].val) \in Int
  <1>1. PICK l \in 1..Len(lines) : /\ Marks(l) /\ lines[l][1].val = lines[k][i].val /\ l # k
                                   /\ LineOf(lines[k][i].val) = l
    BY NamedLabel
  <1>2. Address(lines[k][i].val) = OpSize * Number(l)
    BY <1>1, LabelLine
  <1>3. Number(l) \in Nat /\ OpSize \in Nat
    BY CountLines, SizeType
  <1>4. preParse => l < k
    <2>1. preParse => ~(l > k)
      BY <1>1 DEF Forward
    <2> QED
      BY <1>1, <2>1
  <1>5. PICK m \in 1..Len(lines) + 1 : LabelsRead(m) /\ l \in 1..m - 1
    <2>1. CASE preParse
      <3>1. LabelsRead(k) /\ l \in 1..k - 1 /\ k \in 1..Len(lines) + 1
        BY <1>4, <2>1 DEF Pass
      <3> QED
        BY <3>1
    <2>2. CASE ~preParse
      <3>1. /\ LabelsRead(Len(lines) + 1) /\ l \in 1..(Len(lines) + 1) - 1
            /\ Len(lines) + 1 \in 1..Len(lines) + 1
        BY <2>2 DEF Pass
      <3> QED
        BY <3>1
    <2> QED
      BY <2>1, <2>2
  <1>6. lines[l][1].val \in DOMAIN labels /\ labels[lines[l][1].val] = OpSize * Number(l)
    BY <1>1, <1>5 DEF LabelsRead
  <1> QED
    BY <1>1, <1>2, <1>3, <1>6

\* What the assembler makes of an operand is what the operand means.
LEMMA OperandRead ==
  ASSUME Loaded, Regular, preParse \in BOOLEAN, NEW k \in 1..Len(lines), Pass(k),
         preParse => ~Forward(k), ~Marks(k),
         NEW i \in 2..Len(lines[k]), tok = lines[k][i]
  PROVE  /\ IsLabel => Known
         /\ \A stale : OperandType(stale) = Meant(tok).kind
         /\ \A stale : Meant(tok).kind \in {"number", "register", "flag"} =>
                          OperandValue(stale) = Meant(tok).val
         /\ \A stale \in Int : OperandValue(stale) \in Int
         /\ Meant(tok).kind = "number" => AtoI = Meant(tok).val
         /\ AtoI \in Int
  <1>1. tok \in Token /\ tok.kind \in Values \cup {"label"}
    BY OperandKinds
  <1>2. CASE tok.kind = "label"
    <2>1. tok.val \in DOMAIN labels /\ labels[tok.val] = Address(tok.val) /\ Address(tok.val) \in Int
      BY <1>2, LabelKnown
    <2>2. Known /\ IsLabel
      BY <1>2, <2>1 DEF Known, IsLabel
    <2>3. Meant(tok) = [kind |-> "number", val |-> Address(tok.val)]
      BY <1>2 DEF Meant
    <2>4. Meant(tok).kind = "number" /\ Meant(tok).val = Address(tok.val)
      BY <2>3
    <2> QED
      BY <2>1, <2>2, <2>4 DEF OperandType, OperandValue, AtoI
  <1>3. CASE tok.kind # "label"
    <2>1. tok.kind \in Values /\ tok.val \in Int /\ Meant(tok) = tok
      BY <1>1, <1>3, TokenKinds DEF Values
    <2>2. ~Known /\ ~IsLabel /\ ~IsWord
      BY <1>3, <2>1 DEF Known, IsLabel, IsWord, Values
    <2> QED
      BY <2>1, <2>2 DEF OperandType, OperandValue, AtoI
  <1> QED
    BY <1>2, <1>3

\* The operands of TwoForm: none of them is a label to come, and the machine
\* takes their opcode apart into their types.
LEMMA TwoFormCase ==
  ASSUME Loaded, Regular, NEW k \in 1..Len(lines), ~Marks(k), TwoForm(lines[k])
  PROVE  /\ ~Forward(k)
         /\ lines[k][2].kind \in Cells \cup {"flag"}
         /\ LET name == lines[k][1].val
                add == opOffset(opMap[name], lines[k][2].kind, Meant(lines[k][3]).kind)
            IN  /\ add # -1
                /\ Case(opMap[name] + add) = <<name, lines[k][2].kind, Meant(lines[k][3]).kind>>
  <1> DEFINE line == lines[k]
  <1>1. line[1].val \in TwoNames /\ Len(line) = 3
    BY DEF TwoForm
  <1>2. ~Forward(k)
    BY <1>1, RegularLine
  <1>3. line[3].kind = "number" => Meant(line[3]).kind = "number"
    BY DEF Meant
  <1>4. \/ line[2].kind \in opArgs[line[1].val].left /\ Meant(line[3]).kind \in opArgs[line[1].val].right
        \/ line[1].val = "mov" /\ line[2].kind = "flag" /\ Meant(line[3]).kind = "number"
    BY <1>3 DEF TwoForm
  <1>5. line[2].kind \in Cells \cup {"flag"}
    BY <1>1, <1>4, Arguments DEF Cells
  <1> HIDE DEF line
  <1>6. LET name == line[1].val
            add == opOffset(opMap[name], line[2].kind, Meant(line[3]).kind)
        IN  add # -1 /\ Case(opMap[name] + add) = <<name, line[2].kind, Meant(line[3]).kind>>
    BY <1>1, <1>4, TwoOperandCase
  <1> QED
    BY <1>2, <1>5, <1>6 DEF line

\* A regular text is not rejected.
LEMMA NotRejected ==
  ASSUME Loaded, Regular, preParse \in BOOLEAN, NEW k \in 1..Len(lines), AtLine(k)
  PROVE  Rejection = "none"
  <1>1. Reading(k) /\ Pass(k)
    BY DEF AtLine
  <1>2. tok = lines[k][opI + 1] /\ tok \in Token /\ opI + 1 \in 1..Len(lines[k])
    <2>1. k \in 1..Len(lines) + 1 /\ k <= Len(lines)
      BY LinesAreTokens
    <2> QED
      BY <1>1, <2>1, AtToken
  <1>3. opI \in 0..2 /\ Len(lines[k]) \in Nat
    BY <1>1, LinesAreTokens DEF Reading
  <1>4. CASE opI = 0
    <2>1. tok = lines[k][1]
      BY <1>2, <1>4
    <2>2. CASE Marks(k)
      <3>1. IsLabel /\ tok.kind # "number"
        BY <2>1, <2>2 DEF Marks, IsLabel
      <3>2. ~(preParse /\ Known)
        <4>1. SUFFICES ASSUME preParse, Known PROVE FALSE
          OBVIOUS
        <4>2. LabelsRead(k)
          BY <1>1, <4>1 DEF Pass
        <4>3. PICK l \in 1..k - 1 : Marks(l) /\ lines[l][1].val = tok.val
          BY <4>1, <4>2 DEF LabelsRead, Known
        <4>4. l \in 1..Len(lines) /\ l # k
          BY <4>3, LinesAreTokens
        <4> QED
          BY <2>1, <2>2, <4>3, <4>4, LabelLine
      <3> QED
        BY <1>4, <3>1, <3>2 DEF Rejection
    <2>3. CASE ~Marks(k)
      <3>1. tok.kind = "word" /\ tok.val \in DOMAIN opMap
        BY <2>1, <2>3, RegularLine, OpMapNames
      <3>2. ~IsLabel /\ IsWord /\ tok.kind # "number"
        BY <3>1 DEF IsLabel, IsWord
      <3> QED
        BY <1>4, <3>1, <3>2 DEF Rejection
    <2> QED
      BY <2>2, <2>3
  <1>5. CASE opI # 0
    <2>1. opI > 0 /\ opI + 1 \in 2..Len(lines[k])
      BY <1>2, <1>3, <1>5
    <2>2. ~Marks(k)
      BY <1>1, <2>1 DEF Reading
    <2>3. ~(tok.kind = "number" /\ TooBig(tok.val))
      BY <1>2, <2>1, RegularLine
    <2>4. ~(IsLabel /\ ~Known /\ ~preParse)
      BY <1>1, <1>2, <2>1, <2>2, OperandRead
    <2>5. ~(opI = 2 /\ opOffset(currentOp[1], left, OperandType(right)) = -1)
      <3>1. SUFFICES ASSUME opI = 2
                     PROVE  opOffset(currentOp[1], left, OperandType(right)) # -1
        OBVIOUS
      <3>2. /\ TwoForm(lines[k]) /\ left = lines[k][2].kind
            /\ currentOp[1] = opMap[lines[k][1].val]
        BY <1>1, <3>1 DEF Reading
      <3>3. ~Forward(k)
        BY <2>2, <3>2, TwoFormCase
      <3>4. OperandType(right) = Meant(tok).kind
        BY <1>1, <1>2, <2>1, <2>2, <3>3, OperandRead
      <3>5. tok = lines[k][3]
        BY <1>2, <3>1
      <3> QED
        BY <2>2, <3>2, <3>4, <3>5, TwoFormCase
    <2> QED
      BY <1>5, <2>3, <2>4, <2>5 DEF Rejection
  <1> QED
    BY <1>4, <1>5

-----------------------------------------------------------------------------
(* The text does not change, nor does anything read off it.                *)

OffsetsOf(ls) == CHOOSE off : Layout(off, ls, FlattenSeq(ls))
LineIn(ls, name) ==
    CHOOSE k \in DOMAIN ls : ls[k][1].kind = "label" /\ ls[k][1].val = name

LEMMA Static ==
  ASSUME lines' = lines
  PROVE  /\ Offsets' = Offsets
         /\ \A k : Marks(k)' <=> Marks(k)
         /\ \A k : Number(k)' = Number(k)
         /\ \A k : AfterNumberJump(k)' <=> AfterNumberJump(k)
         /\ \A line : TwoForm(line)' <=> TwoForm(line)
         /\ \A instr, line : Performs(instr, line)' <=> Performs(instr, line)
         /\ Loaded' <=> Loaded
         /\ Regular' <=> Regular
  <1>1. Offsets' = Offsets
    <2>1. Offsets = OffsetsOf(lines) /\ Offsets' = OffsetsOf(lines')
      BY DEF Offsets, OffsetsOf, text
    <2> QED
      BY Zenon, <2>1
  <1>2. \A k : Marks(k)' <=> Marks(k)
    BY DEF Marks
  <1>3. \A k : Number(k)' = Number(k)
    <2> TAKE k
    <2>1. {l \in 1..k : ~Marks(l)}' = {l \in 1..k : ~Marks(l)}
      BY DEF Marks
    <2> QED
      BY Zenon, <2>1 DEF Number
  <1>4. \A k : AfterNumberJump(k)' <=> AfterNumberJump(k)
    BY DEF AfterNumberJump
  <1>5. ASSUME NEW name
        PROVE  LineOf(name)' = LineOf(name) /\ Address(name)' = Address(name)
    <2>1. LineOf(name) = LineIn(lines, name) /\ LineOf(name)' = LineIn(lines', name)
      BY Zenon DEF LineIn, LineOf, Marks
    <2>2. LineOf(name)' = LineOf(name)
      BY Zenon, <2>1
    <2>3. {l \in 1..LineOf(name) : ~Marks(l)}' = {l \in 1..LineOf(name) : ~Marks(l)}
      BY <2>2 DEF Marks
    <2> QED
      BY Zenon, <2>2, <2>3 DEF Address, Number
  <1>6. ASSUME NEW t
        PROVE  Meant(t)' = Meant(t)
    BY <1>5 DEF Meant
  <1>7. \A line : TwoForm(line)' <=> TwoForm(line)
    BY <1>6 DEF TwoForm
  <1>8. \A instr, line : Performs(instr, line)' <=> Performs(instr, line)
    BY <1>6 DEF Performs
  <1>9. Loaded' <=> Loaded
    BY DEF Loaded
  <1>10. Regular' <=> Regular
    <2>1. \A line : Documented(line)' <=> Documented(line)
      BY <1>6 DEF Documented
    <2>2. \A k : Forward(k)' <=> Forward(k)
      BY <1>5 DEF Forward
    <2>3. Defined' = Defined
      BY DEF Defined, Marks
    <2> QED
      BY <1>2, <1>4, <2>1, <2>2, <2>3 DEF Regular
  <1> QED
    BY <1>1, <1>2, <1>3, <1>4, <1>7, <1>8, <1>9, <1>10

-----------------------------------------------------------------------------
(* The steps.                                                              *)

LEMMA LabelsKept ==
  ASSUME lines' = lines, labels' = labels, NEW k \in Nat, LabelsRead(k)
  PROVE  LabelsRead(k)'
  <1>1. (\A l : Marks(l)' <=> Marks(l)) /\ (\A l : Number(l)' = Number(l))
    BY Static
  <1> QED
    BY <1>1 DEF LabelsRead

\* Beyond a line that is no label there are no more labels.
LEMMA LabelsReadOn ==
  ASSUME NEW k \in Nat \ {0}, LabelsRead(k), ~Marks(k)
  PROVE  LabelsRead(k + 1)
  <1>1. \A l \in 1..(k + 1) - 1 : l \in 1..k - 1 \/ l = k
    OBVIOUS
  <1>2. {m \in 1..(k + 1) - 1 : Marks(m)} = {m \in 1..k - 1 : Marks(m)}
    BY <1>1
  <1> QED
    BY <1>1, <1>2 DEF LabelsRead

\* Instructions are numbered from one.
LEMMA NumberOfLine ==
  ASSUME NEW k \in Nat \ {0}, ~Marks(k)
  PROVE  Number(k) = Number(k - 1) + 1 /\ Number(k - 1) \in Nat
  <1>1. k - 1 \in Nat /\ (k - 1) + 1 = k
    OBVIOUS
  <1>2. Number(k - 1) \in Nat
    BY <1>1, CountLines
  <1>3. Number((k - 1) + 1) = Number(k - 1) + 1
    BY <1>1, CountLines
  <1> QED
    BY <1>1, <1>2, <1>3

\* One more instruction, which does what the line says.
LEMMA TranslatedOn ==
  ASSUME NEW k \in Nat \ {0}, ~Marks(k), Translated(k), program \in Seq(Instructions),
         lines' = lines, NEW instr \in Instructions, program' = Append(program, instr),
         JumpsToRegister(lines[k]) \/ Performs(instr, lines[k])
  PROVE  Translated(k + 1)' /\ program' \in Seq(Instructions)
  <1>1. Len(program) = Number(k - 1)
    BY DEF Translated
  <1>2. Number(k) = Len(program) + 1 /\ Len(program) \in Nat
    BY <1>1, NumberOfLine
  <1>3. /\ program' \in Seq(Instructions) /\ Len(program') = Len(program) + 1
        /\ \A i \in 1..Len(program) : program'[i] = program[i]
        /\ program'[Len(program) + 1] = instr
    BY <1>2, AppendProperties
  <1>4. ASSUME NEW l \in 1..k
        PROVE  Marks(l) \/ JumpsToRegister(lines[l]) \/ Performs(program'[Number(l)], lines[l])
    <2>1. CASE l = k
      BY <1>2, <1>3, <2>1
    <2>2. CASE l # k /\ ~Marks(l)
      <3>1. l \in 1..k - 1 /\ l \in Nat \ {0} /\ k - 1 \in Nat /\ l <= k - 1
        BY <2>2
      <3>2. JumpsToRegister(lines[l]) \/ Performs(program[Number(l)], lines[l])
        BY <2>2, <3>1 DEF Translated
      <3>3. Number(l) = Number(l - 1) + 1 /\ Number(l - 1) \in Nat
        BY <2>2, <3>1, NumberOfLine
      <3>4. Number(l) <= Number(k - 1)
        BY <3>1, CountLines
      <3>5. Number(l) \in 1..Len(program)
        BY <1>1, <1>2, <3>3, <3>4
      <3> QED
        BY <1>3, <3>2, <3>5
    <2> QED
      BY <2>1, <2>2
  <1>5. /\ \A l : Marks(l)' <=> Marks(l)
        /\ \A l : Number(l)' = Number(l)
        /\ \A i, line : Performs(i, line)' <=> Performs(i, line)
    BY Static
  <1>6. Len(program') = Number((k + 1) - 1)
    <2>1. (k + 1) - 1 = k
      OBVIOUS
    <2> QED
      BY <1>2, <1>3, <2>1
  <1>7. \A l \in 1..(k + 1) - 1 : l \in 1..k
    OBVIOUS
  <1> QED
    BY <1>3, <1>4, <1>5, <1>6, <1>7 DEF Translated, JumpsToRegister

\* An instruction is complete: the assembler is at the next line.
LEMMA EmitStep ==
  ASSUME Loaded, preParse \in BOOLEAN, InstrTypes, NEW k \in 1..Len(lines), AtLine(k), ~Marks(k),
         lines' = lines, preParse' = preParse, pos' = Offsets[k + 1] + 1,
         NEW instr \in Instructions, Emit(instr),
         ~preParse => JumpsToRegister(lines[k]) \/ Performs(instr, lines[k]),
         AfterNumberJump(k + 1) => left' = "number"
  PROVE  AtLine(k + 1)' /\ InstrTypes'
  <1>1. /\ program' = IF preParse THEN program ELSE Append(program, instr)
        /\ currentOp' = IF preParse THEN instr ELSE <<0, 0, 0>>
        /\ programI' = programI + OpSize /\ opI' = 0 /\ labels' = labels
    BY DEF Emit
  <1>2. /\ Len(lines) \in Nat /\ k \in Nat \ {0} /\ k + 1 \in Nat /\ Len(lines) + 1 \in Nat
        /\ (k + 1) - 1 = k /\ k + 1 \in 1..Len(lines) + 1
    BY TokensOfLine
  <1>3. Offsets' = Offsets /\ (AfterNumberJump(k + 1)' <=> AfterNumberJump(k + 1)) /\ Number(k)' = Number(k)
    BY Static
  <1>4. Reading(k + 1)'
    <2>1. Offsets[k + 1] \in Nat
      BY <1>2, TokensOfLine
    <2>2. pos' = Offsets'[k + 1] + 0 + 1
      BY <1>3, <2>1
    <2> QED
      BY <1>1, <1>2, <1>3, <2>2 DEF Reading
  <1>5. Pass(k) /\ currentOp \in Instructions /\ program \in Seq(Instructions)
    BY DEF AtLine, InstrTypes
  <1>6. CASE preParse
    <2>1. LabelsRead(k + 1)'
      <3>1. LabelsRead(k + 1)
        BY <1>2, <1>5, <1>6, LabelsReadOn DEF Pass
      <3> QED
        BY <1>1, <1>2, <3>1, LabelsKept
    <2>2. programI' = OpSize * Number(k)
      <3>1. Number(k) = Number(k - 1) + 1 /\ Number(k - 1) \in Nat /\ OpSize \in Nat
        BY <1>2, NumberOfLine, SizeType
      <3>2. \A a, b \in Nat : a * (b + 1) = a * b + a
        OBVIOUS
      <3> QED
        BY <1>1, <1>5, <1>6, <3>1, <3>2 DEF Pass
    <2>3. program' = <<>>
      BY <1>1, <1>5, <1>6 DEF Pass
    <2>4. Pass(k + 1)'
      <3>1. programI' = OpSize * Number((k + 1) - 1)'
        BY <1>2, <1>3, <2>2
      <3> QED
        BY <1>6, <2>1, <2>3, <3>1 DEF Pass, OpSize
    <2> QED
      BY <1>1, <1>4, <1>5, <1>6, <2>4 DEF AtLine, InstrTypes
  <1>7. CASE ~preParse
    <2>1. LabelsRead(Len(lines) + 1)'
      <3>1. LabelsRead(Len(lines) + 1)
        BY <1>5, <1>7 DEF Pass
      <3> QED
        BY <1>1, <1>2, <3>1, LabelsKept
    <2>2. Translated(k + 1)' /\ program' \in Seq(Instructions)
      <3>1. Translated(k) /\ program' = Append(program, instr)
        BY <1>1, <1>5, <1>7 DEF Pass
      <3> QED
        BY <1>2, <1>5, <1>7, <3>1, TranslatedOn
    <2>3. Pass(k + 1)'
      BY <1>7, <2>1, <2>2 DEF Pass
    <2>4. currentOp' \in Instructions
      BY <1>1, <1>7 DEF Instructions
    <2> QED
      BY <1>4, <2>2, <2>3, <2>4 DEF AtLine, InstrTypes
  <1> QED
    BY <1>6, <1>7

\* What holds before a step that reads a token of line k.
At(k) ==
    /\ Loaded /\ Regular /\ preParse \in BOOLEAN /\ InstrTypes
    /\ k \in 1..Len(lines) /\ AtLine(k)

LEMMA AcceptStep ==
  ASSUME NEW k, At(k), NEW part \in 0..2, Accept(part)
  PROVE  /\ Len(lines) \in Nat /\ k \in 1..Len(lines) /\ k \in Nat \ {0} /\ k + 1 \in 1..Len(lines) + 1
         /\ opI = part /\ tok = lines[k][part + 1] /\ tok \in Token
         /\ Len(lines[k]) \in Nat /\ part + 1 \in 1..Len(lines[k])
         /\ pos' = Offsets[k] + (part + 1) + 1
         /\ part + 1 = Len(lines[k]) => pos' = Offsets[k + 1] + 1
         /\ lines' = lines /\ preParse' = preParse
         /\ Reading(k) /\ Pass(k) /\ (part > 0 => ~Marks(k))
         /\ currentOp \in Instructions
  <1>1. Len(lines) \in Nat /\ k \in 1..Len(lines) /\ Loaded /\ Reading(k) /\ Pass(k) /\ currentOp \in Instructions
    BY TokensOfLine DEF At, AtLine, InstrTypes
  <1>2. opI = part /\ pos' = pos + 1 /\ lines' = lines /\ preParse' = preParse
    BY DEF Accept, Parsing, fixed
  <1>3. k \in 1..Len(lines) + 1 /\ k <= Len(lines) /\ k + 1 \in 1..Len(lines) + 1 /\ k \in Nat \ {0}
    BY <1>1
  <1>4. /\ tok = lines[k][part + 1] /\ tok \in Token /\ part + 1 \in 1..Len(lines[k])
        /\ pos + 1 = Offsets[k] + (part + 1) + 1
        /\ part + 1 = Len(lines[k]) => pos + 1 = Offsets[k + 1] + 1
    BY <1>1, <1>2, <1>3, AtToken
  <1>5. part > 0 => ~Marks(k)
    BY <1>1, <1>2 DEF Reading
  <1>6. Len(lines[k]) \in Nat
    BY <1>1, LinesAreTokens
  <1> QED
    BY <1>1, <1>2, <1>3, <1>4, <1>5, <1>6

LEMMA Triple ==
  ASSUME NEW t, NEW a, NEW b, NEW c, t = <<a, b, c>>
  PROVE  t[1] = a /\ t[2] = b /\ t[3] = c
  OBVIOUS

LEMMA Parts ==
  ASSUME NEW c \in Instructions
  PROVE  c[1] \in Int /\ c[2] \in Int /\ c[3] \in Int
  BY DEF Instructions

LEMMA Updates ==
  ASSUME NEW c \in Instructions, NEW x \in Int
  PROVE  [c EXCEPT ![1] = x] = <<x, c[2], c[3]>> /\ [c EXCEPT ![2] = x] = <<c[1], x, c[3]>>
  BY DEF Instructions

LEMMA MakesInstruction ==
  ASSUME NEW a \in Int, NEW b \in Int, NEW c \in Int
  PROVE  <<a, b, c>> \in Instructions
  BY DEF Instructions

LEMMA Performing ==
  ASSUME NEW line, NEW a, NEW b, NEW c, Case(a)[1] = line[1].val,
         LET t == Meant(Operand(line, 1))
         IN  t.kind = "nothing" \/ (Case(a)[2] = t.kind /\ (t.kind \in {"memory", "pointer"} \/ b = t.val)),
         LET u == Meant(Operand(line, 2))
         IN  u.kind = "nothing" \/ (Case(a)[3] = u.kind /\ (u.kind \in {"memory", "pointer"} \/ c = u.val))
  PROVE  Performs(<<a, b, c>>, line)
  BY DEF Performs

LEMMA Operands ==
  ASSUME NEW line, Len(line) \in Nat
  PROVE  /\ Len(line) >= 2 => Operand(line, 1) = line[2]
         /\ Len(line) >= 3 => Operand(line, 2) = line[3]
         /\ Len(line) <= 1 => Meant(Operand(line, 1)).kind = "nothing"
         /\ Len(line) <= 2 => Meant(Operand(line, 2)).kind = "nothing"
  BY DEF Operand, Meant

LEMMA DefineStep ==
  ASSUME NEW k, At(k), DefineLabel
  PROVE  k + 1 \in 1..Len(lines) + 1 /\ AtLine(k + 1)' /\ InstrTypes'
  <1>1. Accept(0) /\ IsLabel /\ opI' = opI /\ currentOp' = currentOp /\ program' = program
        /\ programI' = programI
        /\ labels' = IF ~preParse THEN labels
                     ELSE [name \in DOMAIN labels \cup {tok.val} |->
                             IF name = tok.val THEN programI ELSE labels[name]]
    BY DEF DefineLabel
  <1>2. /\ Len(lines) \in Nat /\ k \in 1..Len(lines) /\ k \in Nat \ {0} /\ k + 1 \in 1..Len(lines) + 1
        /\ opI = 0 /\ tok = lines[k][0 + 1]
        /\ 0 + 1 = Len(lines[k]) => pos' = Offsets[k + 1] + 1
        /\ lines' = lines /\ preParse' = preParse /\ Pass(k)
    BY <1>1, AcceptStep
  <1>3. Loaded /\ Regular /\ preParse \in BOOLEAN /\ InstrTypes
    BY DEF At
  <1>4. Marks(k) /\ Len(lines[k]) = 1
    <2>1. Marks(k)
      BY <1>1, <1>2 DEF IsLabel, Marks
    <2> QED
      BY <1>2, <1>3, <2>1, RegularLine
  <1>5. /\ Offsets' = Offsets /\ \A l : Number(l)' = Number(l)
        /\ \A l : Marks(l)' <=> Marks(l)
        /\ \A i, line : Performs(i, line)' <=> Performs(i, line)
    BY <1>2, Static
  <1>6. (k + 1) - 1 = k /\ (k - 1) + 1 = k /\ k - 1 \in Nat /\ Number(k) = Number(k - 1)
    <2>1. (k + 1) - 1 = k /\ (k - 1) + 1 = k /\ k - 1 \in Nat
      BY <1>2
    <2> QED
      BY <1>4, <2>1, CountLines
  <1>7. Reading(k + 1)'
    <2>1. pos' = Offsets[k + 1] + 0 + 1 /\ opI' = 0
      <3>1. Offsets[k + 1] \in Nat
        BY <1>2, <1>3, TokensOfLine
      <3> QED
        BY <1>1, <1>2, <1>4, <3>1
    <2>2. ~AfterNumberJump(k + 1)'
      BY <1>2, <1>4, <1>6 DEF AfterNumberJump
    <2> QED
      BY <1>2, <1>5, <2>1, <2>2 DEF Reading
  <1>8. CASE preParse
    <2>1. LabelsRead(k) /\ programI = OpSize * Number(k - 1) /\ program = <<>>
      BY <1>2, <1>8 DEF Pass
    <2>2. tok.val = lines[k][1].val
      BY <1>2
    <2>3. ASSUME NEW l \in 1..k - 1, Marks(l)
          PROVE  lines[l][1].val # tok.val
      <3>1. l \in 1..Len(lines) /\ l # k
        BY <1>2
      <3> QED
        BY <1>2, <1>3, <1>4, <2>2, <2>3, <3>1, LabelLine
    <2>4. tok.val \notin DOMAIN labels
      BY <2>1, <2>3 DEF LabelsRead
    <2>5. DOMAIN labels' = DOMAIN labels \cup {tok.val}
          /\ (\A x \in DOMAIN labels : labels'[x] = labels[x])
          /\ labels'[tok.val] = programI
      BY <1>1, <1>8, <2>4
    <2>6. LabelsRead(k + 1)'
      <3>1. \A l : l \in 1..k <=> l \in 1..k - 1 \/ l = k
        BY <1>2
      <3>2. DOMAIN labels' = {lines[l][1].val : l \in {m \in 1..k : Marks(m)}}
        BY <1>4, <2>1, <2>2, <2>5, <3>1 DEF LabelsRead
      <3>3. \A l \in 1..k : Marks(l) => labels'[lines[l][1].val] = OpSize * Number(l)
        BY <1>4, <1>6, <2>1, <2>2, <2>5, <3>1 DEF LabelsRead
      <3>4. {m \in 1..k : Marks(m)}' = {m \in 1..k : Marks(m)}
        BY <1>5
      <3> QED
        BY <1>2, <1>5, <1>6, <3>2, <3>3, <3>4 DEF LabelsRead, OpSize
    <2>7. Pass(k + 1)'
      <3>1. programI' = OpSize * Number((k + 1) - 1)' /\ program' = <<>>
        BY <1>1, <1>5, <1>6, <2>1
      <3> QED
        BY <1>2, <1>8, <2>6, <3>1 DEF Pass, OpSize
    <2> QED
      BY <1>1, <1>2, <1>3, <1>7, <2>7 DEF AtLine, InstrTypes
  <1>9. CASE ~preParse
    <2>1. LabelsRead(Len(lines) + 1)'
      <3>1. LabelsRead(Len(lines) + 1) /\ Len(lines) + 1 \in Nat
        BY <1>2, <1>9 DEF Pass
      <3> QED
        BY <1>1, <1>2, <1>9, <3>1, LabelsKept
    <2>2. Translated(k + 1)'
      <3>1. Translated(k)
        BY <1>2, <1>9 DEF Pass
      <3>2. \A l \in 1..k : l \in 1..k - 1 \/ l = k
        BY <1>2
      <3>3. /\ Len(program') = Number(k)
            /\ \A l \in 1..k : Marks(l) \/ JumpsToRegister(lines[l]) \/ Performs(program'[Number(l)], lines[l])
        BY <1>1, <1>4, <1>6, <3>1, <3>2 DEF Translated
      <3> QED
        BY <1>2, <1>5, <1>6, <3>3 DEF Translated, JumpsToRegister
    <2>3. Pass(k + 1)'
      BY <1>2, <1>9, <2>1, <2>2 DEF Pass
    <2> QED
      BY <1>1, <1>2, <1>3, <1>7, <2>3 DEF AtLine, InstrTypes
  <1> QED
    BY <1>3, <1>8, <1>9

\* Reading on in the same line.
LEMMA PassKept ==
  ASSUME lines' = lines, Loaded, preParse' = preParse, labels' = labels, programI' = programI,
         program' = program, NEW k \in 1..Len(lines) + 1, Pass(k)
  PROVE  Pass(k)'
  <1>1. k \in Nat /\ Len(lines) + 1 \in Nat
    BY TokensOfLine
  <1>2. /\ \A l : Number(l)' = Number(l)
        /\ \A l : Marks(l)' <=> Marks(l)
        /\ \A i, line : Performs(i, line)' <=> Performs(i, line)
    BY Static
  <1>3. Translated(k) => Translated(k)'
    BY <1>2 DEF Translated, JumpsToRegister
  <1>4. /\ LabelsRead(k) => LabelsRead(k)'
        /\ LabelsRead(Len(lines) + 1) => LabelsRead(Len(lines) + 1)'
    BY <1>1, LabelsKept
  <1> QED
    BY <1>2, <1>3, <1>4 DEF Pass, OpSize

LEMMA BaseStep ==
  ASSUME NEW k, At(k), BaseOp
  PROVE  k \in 1..Len(lines) + 1 /\ AtLine(k)' /\ InstrTypes'
  <1>1. /\ Accept(0) /\ IsWord /\ tok.val # "nop"
        /\ currentOp' = [currentOp EXCEPT ![1] = opMap[tok.val]]
        /\ opI' = 1 /\ left' = left /\ labels' = labels /\ programI' = programI /\ program' = program
    BY DEF BaseOp
  <1>2. /\ Len(lines) \in Nat /\ k \in 1..Len(lines) /\ k \in Nat \ {0}
        /\ opI = 0 /\ tok = lines[k][0 + 1] /\ Len(lines[k]) \in Nat
        /\ pos' = Offsets[k] + (0 + 1) + 1
        /\ lines' = lines /\ preParse' = preParse /\ Reading(k) /\ Pass(k) /\ currentOp \in Instructions
    <2>1. 0 \in 0..2 /\ ~(0 > 0)
      OBVIOUS
    <2> QED
      BY Zenon, <1>1, <2>1, AcceptStep
  <1>3. Loaded /\ Regular /\ InstrTypes
    BY DEF At
  <1>4. k \in 1..Len(lines) + 1 /\ k <= Len(lines)
    BY <1>2
  <1>5. ~Marks(k)
    BY <1>1, <1>2 DEF IsWord, Marks
  <1>6. lines[k][1].val \in Mnemonics /\ 1 < Len(lines[k])
    <2>1. /\ lines[k][1].val \in Mnemonics /\ Len(lines[k]) \in 1..3
          /\ NoOperand(lines[k]) \/ JumpForm(lines[k]) \/ NotForm(lines[k]) \/ TwoForm(lines[k])
      BY <1>2, <1>3, <1>5, RegularLine
    <2>2. ~NoOperand(lines[k])
      BY <1>1, <1>2 DEF NoOperand
    <2>3. Len(lines[k]) \in {2, 3}
      BY Zenon, <2>1, <2>2 DEF JumpForm, NotForm, TwoForm
    <2> QED
      BY <2>1, <2>3
  <1>7. opMap[tok.val] \in Int /\ tok.val = lines[k][1].val
    <2>1. 0 + 1 = 1
      OBVIOUS
    <2>2. \A name \in Mnemonics : opMap[name] \in Int
      BY OpMapNames DEF Mnemonics
    <2>3. tok.val = lines[k][1].val
      BY Zenon, <1>2, <2>1
    <2> QED
      BY Zenon, <1>6, <2>2, <2>3
  <1>8. currentOp' \in Instructions /\ currentOp'[1] = opMap[lines[k][1].val]
    <2>1. currentOp' = <<opMap[tok.val], currentOp[2], currentOp[3]>> /\ currentOp[2] \in Int /\ currentOp[3] \in Int
      BY <1>1, <1>2, <1>7, Updates, Parts
    <2> QED
      BY <1>7, <2>1, MakesInstruction
  <1>9. Offsets' = Offsets /\ (Marks(k)' <=> Marks(k)) /\ (AfterNumberJump(k)' <=> AfterNumberJump(k))
    BY <1>2, Static
  <1>10. AfterNumberJump(k) => left = "number"
    BY <1>2 DEF Reading
  <1>11. Reading(k)'
    <2>1. pos' = Offsets'[k] + 1 + 1
      BY <1>2, <1>9
    <2> QED
      BY <1>1, <1>2, <1>4, <1>5, <1>6, <1>8, <1>9, <1>10, <2>1 DEF Reading
  <1>12. Pass(k)'
    BY <1>1, <1>2, <1>3, <1>4, PassKept
  <1> QED
    BY <1>1, <1>3, <1>4, <1>8, <1>11, <1>12 DEF AtLine, InstrTypes

LEMMA NopStep ==
  ASSUME NEW k, At(k), Nop
  PROVE  k + 1 \in 1..Len(lines) + 1 /\ AtLine(k + 1)' /\ InstrTypes'
  <1> DEFINE instr == [currentOp EXCEPT ![1] = opMap["nop"]]
  <1>1. Accept(0) /\ IsWord /\ tok.val = "nop" /\ Emit(instr)
    BY DEF Nop
  <1> HIDE DEF instr
  <1>2. /\ Len(lines) \in Nat /\ k \in 1..Len(lines) /\ k \in Nat \ {0} /\ k + 1 \in 1..Len(lines) + 1
        /\ opI = 0 /\ tok = lines[k][0 + 1]
        /\ 0 + 1 = Len(lines[k]) => pos' = Offsets[k + 1] + 1
        /\ lines' = lines /\ preParse' = preParse /\ currentOp \in Instructions
    <2>1. 0 \in 0..2 /\ ~(0 > 0)
      OBVIOUS
    <2> QED
      BY Zenon, <1>1, <2>1, AcceptStep
  <1>3. Loaded /\ Regular /\ preParse \in BOOLEAN /\ InstrTypes /\ AtLine(k)
    BY DEF At
  <1>4. ~Marks(k)
    BY <1>1, <1>2 DEF IsWord, Marks
  <1>5. lines[k][1].val = "nop"
    <2>1. 0 + 1 = 1
      OBVIOUS
    <2> QED
      BY Zenon, <1>1, <1>2, <2>1
  <1>6. Len(lines[k]) = 1
    <2>1. NoOperand(lines[k]) \/ JumpForm(lines[k]) \/ NotForm(lines[k]) \/ TwoForm(lines[k])
      BY <1>2, <1>3, <1>4, RegularLine
    <2>2. ~JumpForm(lines[k]) /\ ~NotForm(lines[k]) /\ ~TwoForm(lines[k])
      BY <1>5 DEF JumpForm, NotForm, TwoForm, JumpNames, TwoNames
    <2> QED
      BY <2>1, <2>2 DEF NoOperand
  <1>7. instr = <<55, currentOp[2], currentOp[3]>> /\ instr \in Instructions
    <2>1. opMap["nop"] = 55 /\ 55 \in Int
      BY OpMapNames
    <2>2. instr = <<55, currentOp[2], currentOp[3]>>
      <3>1. instr = [currentOp EXCEPT ![1] = 55]
        BY <2>1 DEF instr
      <3>2. [currentOp EXCEPT ![1] = 55] = <<55, currentOp[2], currentOp[3]>>
        BY <1>2, <2>1, Updates
      <3> QED
        BY Zenon, <3>1, <3>2
    <2>3. currentOp[2] \in Int /\ currentOp[3] \in Int
      BY <1>2, Parts
    <2> QED
      BY <2>1, <2>2, <2>3, MakesInstruction
  <1>8. Performs(instr, lines[k])
    <2>1. Case(55)[1] = lines[k][1].val
      <3>1. Case(55) = <<"nop", "number", "">>
        BY Zenon, OneOperandCase, OpMapNames
      <3> QED
        BY <1>5, <3>1, Triple
    <2>2. Len(lines[k]) \in Nat /\ Len(lines[k]) <= 1 /\ Len(lines[k]) <= 2
      BY <1>6
    <2> QED
      BY <1>7, <2>1, <2>2, Operands, Performing
  <1>9. ~AfterNumberJump(k + 1)
    <2>1. (k + 1) - 1 = k
      BY <1>2
    <2> QED
      BY <1>6, <2>1 DEF AfterNumberJump
  <1>10. pos' = Offsets[k + 1] + 1
    BY <1>2, <1>6
  <1>11. AtLine(k + 1)' /\ InstrTypes'
    BY <1>1, <1>2, <1>3, <1>4, <1>7, <1>8, <1>9, <1>10, EmitStep
  <1> QED
    BY <1>2, <1>11

\* The opcode tells the form of the line.
LEMMA FormOfOpcode ==
  ASSUME Loaded, Regular, NEW k \in 1..Len(lines), ~Marks(k), Len(lines[k]) # 1,
         NEW op, op = opMap[lines[k][1].val]
  PROVE  /\ IsJump(op) => JumpForm(lines[k])
         /\ op = opMap["not"] => NotForm(lines[k])
         /\ ~IsJump(op) /\ op # opMap["not"] => TwoForm(lines[k])
  <1> DEFINE name == lines[k][1].val
  <1>1. /\ name \in Mnemonics
        /\ NoOperand(lines[k]) \/ JumpForm(lines[k]) \/ NotForm(lines[k]) \/ TwoForm(lines[k])
    BY RegularLine
  <1>2. ~NoOperand(lines[k])
    BY DEF NoOperand
  <1>3. /\ JumpForm(lines[k]) => name \in JumpNames
        /\ NotForm(lines[k]) => name = "not"
        /\ TwoForm(lines[k]) => name \in TwoNames
    BY DEF JumpForm, NotForm, TwoForm
  <1> HIDE DEF name
  <1>4. /\ name \in JumpNames => opMap[name] \in 48..54 /\ opMap[name] # opMap["not"]
        /\ name = "not" => opMap[name] \notin 48..54
        /\ name \in TwoNames => opMap[name] \notin 48..54 /\ opMap[name] # opMap["not"]
    <2> DEFINE jumps == {48, 49, 50, 51, 52}
               twos == {0, 16, 32, 64, 80, 96, 112, 128, 160, 176}
               range == 48..54
    <2>1. name \in JumpNames => opMap[name] \in jumps
      BY OpMapNames DEF JumpNames
    <2>2. name \in TwoNames => opMap[name] \in twos
      BY OpMapNames DEF TwoNames
    <2>3. opMap["not"] = 144
      BY OpMapNames
    <2>4. /\ \A x \in jumps : x \in range /\ x # 144
          /\ \A x \in twos : x \notin range /\ x # 144
          /\ 144 \notin range
      OBVIOUS
    <2> HIDE DEF jumps, twos
    <2>5. /\ name \in JumpNames => opMap[name] \in range /\ opMap[name] # opMap["not"]
          /\ name \in TwoNames => opMap[name] \notin range /\ opMap[name] # opMap["not"]
      BY Zenon, <2>1, <2>2, <2>3, <2>4
    <2>6. name = "not" => opMap[name] \notin range
      BY Zenon, <2>3, <2>4
    <2> QED
      BY Zenon, <2>5, <2>6
  <1> QED
    BY <1>1, <1>2, <1>3, <1>4 DEF IsJump, name

LEMMA NotStep ==
  ASSUME NEW k, At(k), NotOperand
  PROVE  k + 1 \in 1..Len(lines) + 1 /\ AtLine(k + 1)' /\ InstrTypes'
  <1> DEFINE instr == <<currentOp[1] + NotOffset(left'), OperandValue(currentOp[2]), currentOp[3]>>
  <1>1. Accept(1) /\ currentOp[1] = opMap["not"] /\ left' = OperandType(left) /\ Emit(instr)
    BY DEF NotOperand
  <1> HIDE DEF instr
  <1>2. /\ Len(lines) \in Nat /\ k \in 1..Len(lines) /\ k \in Nat \ {0} /\ k + 1 \in 1..Len(lines) + 1
        /\ opI = 1 /\ tok = lines[k][1 + 1] /\ Len(lines[k]) \in Nat /\ 1 + 1 \in 1..Len(lines[k])
        /\ 1 + 1 = Len(lines[k]) => pos' = Offsets[k + 1] + 1
        /\ lines' = lines /\ preParse' = preParse /\ ~Marks(k) /\ Reading(k) /\ Pass(k)
        /\ currentOp \in Instructions
    <2>1. 1 \in 0..2 /\ 1 > 0
      OBVIOUS
    <2> QED
      BY Zenon, <1>1, <2>1, AcceptStep
  <1>3. Loaded /\ Regular /\ preParse \in BOOLEAN /\ InstrTypes /\ AtLine(k)
    BY DEF At
  <1>4. tok = lines[k][2] /\ 2 \in 2..Len(lines[k]) /\ Len(lines[k]) # 1
    BY <1>2
  <1>5. currentOp[1] = opMap[lines[k][1].val]
    BY <1>2 DEF Reading
  <1>6. NotForm(lines[k])
    BY <1>1, <1>2, <1>3, <1>4, <1>5, FormOfOpcode
  <1>7. lines[k][1].val = "not" /\ Len(lines[k]) = 2 /\ tok.kind \in Cells
    BY <1>4, <1>6 DEF NotForm
  <1>8. tok \in Token /\ Meant(tok) = tok /\ tok.kind \in {"register", "memory", "pointer"}
    BY <1>2, <1>3, <1>4, <1>7, OperandKinds, TokenKinds DEF Cells
  <1>9. ~Forward(k)
    <2>1. ASSUME NEW i \in 2..Len(lines[k])
          PROVE  lines[k][i].kind # "label"
      <3>1. i = 2
        BY <1>7
      <3> QED
        BY <1>4, <1>8, <3>1
    <2> QED
      BY <2>1 DEF Forward
  <1>10. /\ left' = tok.kind
         /\ tok.kind = "register" => OperandValue(currentOp[2]) = tok.val
         /\ OperandValue(currentOp[2]) \in Int
    <2>1. currentOp[2] \in Int
      BY <1>2, Parts
    <2>2. /\ \A stale : OperandType(stale) = Meant(tok).kind
          /\ \A stale : Meant(tok).kind \in {"number", "register", "flag"} => OperandValue(stale) = Meant(tok).val
          /\ \A stale \in Int : OperandValue(stale) \in Int
      BY <1>2, <1>3, <1>4, <1>9, OperandRead
    <2> QED
      BY <1>1, <1>8, <2>1, <2>2
  <1> DEFINE op == opMap["not"] + NotOffset(tok.kind)
             value == OperandValue(currentOp[2])
  <1>11. instr = <<op, value, currentOp[3]>>
    BY <1>1, <1>10 DEF instr
  <1>12. op \in Int
    BY <1>8, OpMapNames, TypeNumbers DEF NotOffset
  <1>13. Case(op) = <<"not", tok.kind, "">>
    BY <1>8, OneOperandCase
  <1> HIDE DEF op, value
  <1>14. instr \in Instructions
    <2>1. currentOp[3] \in Int /\ value \in Int
      BY <1>2, <1>10, Parts DEF value
    <2> QED
      BY <1>11, <1>12, <2>1, MakesInstruction
  <1>15. Performs(instr, lines[k])
    <2>1. Operand(lines[k], 1) = tok /\ Meant(Operand(lines[k], 2)).kind = "nothing"
      <3>1. Len(lines[k]) \in Nat /\ Len(lines[k]) >= 2 /\ Len(lines[k]) <= 2
        BY <1>7
      <3> QED
        BY <1>4, <3>1, Operands
    <2>2. tok.kind \in {"memory", "pointer"} \/ value = tok.val
      BY <1>8, <1>10 DEF value
    <2>3. Case(op)[1] = lines[k][1].val /\ Case(op)[2] = tok.kind
      <3> DEFINE kind == tok.kind
      <3>1. Case(op) = <<"not", kind, "">>
        BY Zenon, <1>13
      <3> HIDE DEF kind
      <3>2. Case(op)[1] = "not" /\ Case(op)[2] = kind
        BY <3>1, Triple
      <3> QED
        BY <1>7, <3>2 DEF kind
    <2>4. Performs(<<op, value, currentOp[3]>>, lines[k])
      BY <1>8, <2>1, <2>2, <2>3, Performing
    <2> QED
      BY <1>11, <2>4
  <1>16. ~AfterNumberJump(k + 1)
    <2>1. (k + 1) - 1 = k
      BY <1>2
    <2> QED
      BY <1>4, <1>8, <2>1 DEF AfterNumberJump
  <1>17. pos' = Offsets[k + 1] + 1
    BY <1>2, <1>7
  <1>18. AtLine(k + 1)' /\ InstrTypes'
    BY <1>1, <1>2, <1>3, <1>14, <1>15, <1>16, <1>17, EmitStep
  <1> QED
    BY <1>2, <1>18

\* The jump that waits for a label still to come jumps over it.
LEMMA JumpStep ==
  ASSUME NEW k, At(k), JumpTarget
  PROVE  k + 1 \in 1..Len(lines) + 1 /\ AtLine(k + 1)' /\ InstrTypes'
  <1> DEFINE name == lines[k][1].val
             op == IF left' = "register" THEN 54 ELSE currentOp[1]
             instr == <<op, AtoI, currentOp[3]>>
  <1>1. /\ Accept(1) /\ IsJump(currentOp[1]) /\ left' = OperandType(left)
        /\ left' = "number" \/ (currentOp[1] = opMap["jmp"] /\ left' = "register") => Emit(instr)
    BY DEF JumpTarget
  <1> HIDE DEF instr
  <1>2. /\ Len(lines) \in Nat /\ k \in 1..Len(lines) /\ k \in Nat \ {0} /\ k + 1 \in 1..Len(lines) + 1
        /\ opI = 1 /\ tok = lines[k][1 + 1] /\ Len(lines[k]) \in Nat /\ 1 + 1 \in 1..Len(lines[k])
        /\ 1 + 1 = Len(lines[k]) => pos' = Offsets[k + 1] + 1
        /\ lines' = lines /\ preParse' = preParse /\ ~Marks(k) /\ Reading(k) /\ Pass(k)
        /\ currentOp \in Instructions
    <2>1. 1 \in 0..2 /\ 1 > 0
      OBVIOUS
    <2> QED
      BY Zenon, <1>1, <2>1, AcceptStep
  <1>3. Loaded /\ Regular /\ preParse \in BOOLEAN /\ InstrTypes /\ AtLine(k)
    BY DEF At
  <1>4. tok = lines[k][2] /\ 2 \in 2..Len(lines[k]) /\ Len(lines[k]) # 1
    BY <1>2
  <1>5. currentOp[1] = opMap[name] /\ (AfterNumberJump(k) => left = "number")
    BY <1>2 DEF Reading
  <1>6. JumpForm(lines[k])
    BY <1>1, <1>2, <1>3, <1>4, <1>5, FormOfOpcode
  <1>7. /\ name \in JumpNames /\ Len(lines[k]) = 2
        /\ Meant(tok).kind = "number" \/ (name = "jmp" /\ tok.kind = "register")
    BY <1>4, <1>6 DEF JumpForm
  <1>8. tok \in Token
    BY <1>2, <1>3, <1>4, OperandKinds
  <1> HIDE DEF name
  \* It is the second pass, or the label is known: the operand is what is meant.
  <1>9. CASE preParse => ~Forward(k)
    <2>1. /\ left' = Meant(tok).kind
          /\ Meant(tok).kind = "number" => AtoI = Meant(tok).val
          /\ AtoI \in Int
      BY <1>1, <1>2, <1>3, <1>4, <1>9, OperandRead
    <2>2. CASE Meant(tok).kind = "number"
      <3>1. left' = "number" /\ AtoI = Meant(tok).val
        BY <2>1, <2>2
      <3>2. instr = <<opMap[name], AtoI, currentOp[3]>>
        BY <1>5, <3>1 DEF instr
      <3>3. Case(opMap[name])[1] = name /\ Case(opMap[name])[2] = "number"
        <4>1. Case(opMap[name]) = <<name, "number", "">>
          BY <1>7, OneOperandCase
        <4> QED
          BY <4>1, Triple
      <3>4. Operand(lines[k], 1) = tok /\ Meant(Operand(lines[k], 2)).kind = "nothing"
        <4>1. Len(lines[k]) \in Nat /\ Len(lines[k]) >= 2 /\ Len(lines[k]) <= 2
          BY <1>7
        <4> QED
          BY <1>4, <4>1, Operands
      <3>5. Performs(instr, lines[k])
        <4>1. Performs(<<opMap[name], AtoI, currentOp[3]>>, lines[k])
          BY <2>2, <3>1, <3>3, <3>4, Performing DEF name
        <4> QED
          BY <3>2, <4>1
      <3>6. instr \in Instructions
        <4>1. currentOp[1] \in Int /\ currentOp[3] \in Int
          BY <1>2, Parts
        <4> QED
          BY <1>5, <2>1, <3>2, <4>1, MakesInstruction
      <3> QED
        BY <1>1, <1>2, <1>3, <1>7, <3>1, <3>5, <3>6, EmitStep
    <2>3. CASE name = "jmp" /\ tok.kind = "register"
      <3>1. left' = "register"
        BY <1>8, <2>1, <2>3, TokenKinds
      <3>2. instr = <<54, AtoI, currentOp[3]>>
        BY <3>1 DEF instr
      <3>3. JumpsToRegister(lines[k])
        BY <1>4, <2>3 DEF JumpsToRegister, name
      <3>4. ~AfterNumberJump(k + 1)
        <4>1. (k + 1) - 1 = k
          BY <1>2
        <4> QED
          BY <1>4, <2>3, <4>1 DEF AfterNumberJump
      <3>5. instr \in Instructions
        <4>1. currentOp[3] \in Int /\ 54 \in Int
          BY <1>2, Parts
        <4> QED
          BY <2>1, <3>2, <4>1, MakesInstruction
      <3>6. Emit(instr)
        BY <1>1, <1>5, <2>3, <3>1
      <3> QED
        BY <1>2, <1>3, <1>7, <3>3, <3>4, <3>5, <3>6, EmitStep
    <2> QED
      BY <1>7, <2>2, <2>3
  \* It is the first pass and the label unknown: it counts as a number, because
  \* the jump before was to one.
  <1>10. CASE preParse /\ Forward(k)
    <2>1. AfterNumberJump(k)
      BY <1>2, <1>3, <1>10, RegularLine
    <2>2. left = "number"
      BY <1>5, <2>1
    <2>3. IsLabel
      <3>1. PICK i \in 2..Len(lines[k]) : lines[k][i].kind = "label"
        BY <1>10 DEF Forward
      <3>2. i = 2
        BY <1>7, <3>1
      <3> QED
        BY <1>4, <3>1, <3>2 DEF IsLabel
    <2>4. left' = "number"
      BY <1>1, <2>2, <2>3 DEF OperandType
    <2>5. AtoI \in Int
      <3>1. CASE Known
        <4>1. LabelsRead(k)
          BY <1>2, <1>10 DEF Pass
        <4>2. PICK l \in 1..k - 1 : Marks(l) /\ lines[l][1].val = tok.val
          BY <3>1, <4>1 DEF LabelsRead, Known
        <4>3. labels[tok.val] = OpSize * Number(l)
          BY <4>1, <4>2 DEF LabelsRead
        <4>4. OpSize \in Nat /\ Number(l) \in Nat
          BY <4>2, SizeType, CountLines
        <4> QED
          BY <3>1, <4>3, <4>4 DEF AtoI
      <3>2. CASE ~Known
        BY <2>3, <3>2 DEF AtoI, IsLabel
      <3> QED
        BY <3>1, <3>2
    <2>6. instr = <<currentOp[1], AtoI, currentOp[3]>>
      BY <2>4 DEF instr
    <2>7. instr \in Instructions
      <3>1. currentOp[1] \in Int /\ currentOp[3] \in Int
        BY <1>2, Parts
      <3> QED
        BY <2>5, <2>6, <3>1, MakesInstruction
    <2> QED
      BY <1>1, <1>2, <1>3, <1>7, <1>10, <2>4, <2>7, EmitStep
  <1>11. k + 1 \in 1..Len(lines) + 1
    BY <1>2
  <1> QED
    BY <1>3, <1>9, <1>10, <1>11

\* The left operand of an instruction that has two.
LEMMA LeftStep ==
  ASSUME NEW k, At(k), Accept(1), TwoOperands
  PROVE  /\ ~IsLabel
         /\ LeftOperand => k \in 1..Len(lines) + 1 /\ AtLine(k)' /\ InstrTypes'
  <1>2. /\ Len(lines) \in Nat /\ k \in 1..Len(lines) /\ k \in Nat \ {0}
        /\ opI = 1 /\ tok = lines[k][1 + 1] /\ Len(lines[k]) \in Nat /\ 1 + 1 \in 1..Len(lines[k])
        /\ pos' = Offsets[k] + (1 + 1) + 1
        /\ lines' = lines /\ preParse' = preParse /\ ~Marks(k) /\ Reading(k) /\ Pass(k)
        /\ currentOp \in Instructions
    <2>1. 1 \in 0..2 /\ 1 > 0
      OBVIOUS
    <2> QED
      BY Zenon, <2>1, AcceptStep
  <1>3. Loaded /\ Regular /\ preParse \in BOOLEAN /\ InstrTypes
    BY DEF At
  <1>4. tok = lines[k][2] /\ 2 \in 2..Len(lines[k]) /\ Len(lines[k]) # 1
    BY <1>2
  <1>5. currentOp[1] = opMap[lines[k][1].val]
    BY <1>2 DEF Reading
  <1>6. TwoForm(lines[k])
    BY <1>2, <1>3, <1>4, <1>5, FormOfOpcode DEF TwoOperands
  <1>7. Len(lines[k]) = 3
    BY <1>6 DEF TwoForm
  <1>8. ~Forward(k) /\ tok.kind \in Cells \cup {"flag"}
    BY <1>2, <1>3, <1>4, <1>6, TwoFormCase
  <1>9. tok.kind # "label" /\ tok \in Token /\ Meant(tok) = tok
    BY <1>2, <1>3, <1>4, <1>8, OperandKinds, TokenKinds DEF Cells
  <1>10. ~IsLabel
    BY <1>9 DEF IsLabel
  <1>11. ASSUME LeftOperand
         PROVE  k \in 1..Len(lines) + 1 /\ AtLine(k)' /\ InstrTypes'
    <2>1. /\ left' = OperandType(left) /\ currentOp' = [currentOp EXCEPT ![2] = OperandValue(currentOp[2])]
          /\ opI' = 2 /\ labels' = labels /\ programI' = programI /\ program' = program
      BY <1>11 DEF LeftOperand
    <2>2. /\ left' = tok.kind
          /\ left' \in {"register", "flag"} => OperandValue(currentOp[2]) = tok.val
          /\ OperandValue(currentOp[2]) \in Int
      <3>1. currentOp[2] \in Int
        BY <1>2, Parts
      <3>2. /\ \A stale : OperandType(stale) = Meant(tok).kind
            /\ \A stale : Meant(tok).kind \in {"number", "register", "flag"} => OperandValue(stale) = Meant(tok).val
            /\ \A stale \in Int : OperandValue(stale) \in Int
        BY <1>2, <1>3, <1>4, <1>8, OperandRead
      <3> QED
        BY <1>9, <2>1, <3>1, <3>2
    <2>3. currentOp' = <<currentOp[1], OperandValue(currentOp[2]), currentOp[3]>>
      BY <1>2, <2>1, <2>2, Updates
    <2>4. currentOp[1] \in Int /\ currentOp[3] \in Int
      BY <1>2, Parts
    <2>5. /\ currentOp' \in Instructions
          /\ currentOp'[1] = currentOp[1] /\ currentOp'[2] = OperandValue(currentOp[2])
      BY <2>2, <2>3, <2>4, MakesInstruction, Triple
    <2>6. k \in 1..Len(lines) + 1 /\ k <= Len(lines)
      BY <1>2
    <2>7. Offsets' = Offsets /\ (Marks(k)' <=> Marks(k)) /\ (TwoForm(lines[k])' <=> TwoForm(lines[k]))
      BY <1>2, Static
    <2>8. Reading(k)'
      <3>1. pos' = Offsets'[k] + 2 + 1
        BY <1>2, <2>7
      <3>2. 2 < Len(lines[k])
        BY <1>7
      <3> QED
        BY <1>2, <1>4, <1>5, <1>6, <2>1, <2>2, <2>5, <2>6, <2>7, <3>1, <3>2 DEF Reading
    <2>9. Pass(k)'
      BY <1>2, <1>3, <2>1, <2>6, PassKept
    <2> QED
      BY <1>3, <2>1, <2>5, <2>6, <2>8, <2>9 DEF AtLine, InstrTypes
  <1> QED
    BY <1>10, <1>11

LEMMA OffsetType ==
  ASSUME NEW op, NEW l, NEW r \in Values
  PROVE  opOffset(op, l, r) \in Int
  BY TypeNumbers DEF opOffset, Stride, Values

LEMMA RightStep ==
  ASSUME NEW k, At(k), RightOperand
  PROVE  k + 1 \in 1..Len(lines) + 1 /\ AtLine(k + 1)' /\ InstrTypes'
  <1> DEFINE op == currentOp[1] + opOffset(currentOp[1], left, right')
             value == OperandValue(currentOp[3])
             instr == <<op, currentOp[2], value>>
  <1>1. Accept(2) /\ right' = OperandType(right) /\ left' = left /\ Emit(instr)
    BY DEF RightOperand
  <1> HIDE DEF instr
  <1>2. /\ Len(lines) \in Nat /\ k \in 1..Len(lines) /\ k \in Nat \ {0} /\ k + 1 \in 1..Len(lines) + 1
        /\ opI = 2 /\ tok = lines[k][2 + 1] /\ Len(lines[k]) \in Nat /\ 2 + 1 \in 1..Len(lines[k])
        /\ 2 + 1 = Len(lines[k]) => pos' = Offsets[k + 1] + 1
        /\ lines' = lines /\ preParse' = preParse /\ ~Marks(k) /\ Reading(k) /\ Pass(k)
        /\ currentOp \in Instructions
    <2>1. 2 \in 0..2 /\ 2 > 0
      OBVIOUS
    <2> QED
      BY Zenon, <1>1, <2>1, AcceptStep
  <1>3. Loaded /\ Regular /\ preParse \in BOOLEAN /\ InstrTypes /\ AtLine(k)
    BY DEF At
  <1>4. tok = lines[k][3] /\ 3 \in 2..Len(lines[k]) /\ 2 \in 2..Len(lines[k])
    BY <1>2
  <1> DEFINE t == lines[k][2]
  <1>5. /\ currentOp[1] = opMap[lines[k][1].val] /\ TwoForm(lines[k]) /\ left = t.kind
        /\ left \in {"register", "flag"} => currentOp[2] = t.val
    BY <1>2 DEF Reading
  <1>6. Len(lines[k]) = 3
    BY <1>5 DEF TwoForm
  <1>7. /\ ~Forward(k) /\ t.kind \in Cells \cup {"flag"}
        /\ LET add == opOffset(opMap[lines[k][1].val], t.kind, Meant(lines[k][3]).kind)
           IN  Case(opMap[lines[k][1].val] + add) = <<lines[k][1].val, t.kind, Meant(lines[k][3]).kind>>
    BY <1>2, <1>3, <1>5, TwoFormCase
  <1>8. Meant(t) = t
    BY <1>2, <1>3, <1>4, <1>7, OperandKinds, TokenKinds DEF Cells
  <1>9. Meant(tok).kind \in Values
    BY <1>2, <1>3, <1>4, OperandKinds
  <1>10. /\ right' = Meant(tok).kind
         /\ Meant(tok).kind \in {"number", "register", "flag"} => value = Meant(tok).val
         /\ value \in Int
    <2>1. currentOp[3] \in Int
      BY <1>2, Parts
    <2>2. /\ \A stale : OperandType(stale) = Meant(tok).kind
          /\ \A stale : Meant(tok).kind \in {"number", "register", "flag"} => OperandValue(stale) = Meant(tok).val
          /\ \A stale \in Int : OperandValue(stale) \in Int
      BY <1>2, <1>3, <1>4, <1>7, OperandRead
    <2> QED
      BY <1>1, <2>1, <2>2
  <1>11. Case(op) = <<lines[k][1].val, t.kind, Meant(tok).kind>>
    BY <1>4, <1>5, <1>7, <1>10
  <1>12. op \in Int /\ currentOp[2] \in Int
    <2>1. opOffset(currentOp[1], left, right') \in Int
      BY <1>9, <1>10, OffsetType
    <2>2. currentOp[1] \in Int /\ currentOp[2] \in Int
      BY <1>2, Parts
    <2> QED
      BY <2>1, <2>2
  <1>13. instr = <<op, currentOp[2], value>>
    BY DEF instr
  <1>14. t.kind \in {"memory", "pointer"} \/ currentOp[2] = t.val
    BY <1>5, <1>7 DEF Cells
  <1>15. Meant(tok).kind \in {"memory", "pointer"} \/ value = Meant(tok).val
    BY <1>9, <1>10 DEF Values
  <1> HIDE DEF op, value, t
  <1>16. instr \in Instructions
    BY <1>10, <1>12, <1>13, MakesInstruction
  <1>17. Performs(instr, lines[k])
    <2>1. Operand(lines[k], 1) = t /\ Operand(lines[k], 2) = tok
      <3>1. Len(lines[k]) \in Nat /\ Len(lines[k]) >= 2 /\ Len(lines[k]) >= 3
        BY <1>6
      <3> QED
        BY <1>4, <3>1, Operands DEF t
    <2>2. Case(op)[1] = lines[k][1].val /\ Case(op)[2] = t.kind /\ Case(op)[3] = Meant(tok).kind
      <3> DEFINE a == lines[k][1].val
                 b == t.kind
                 c == Meant(tok).kind
                 x == Case(op)
      <3>1. x = <<a, b, c>>
        BY Zenon, <1>11
      <3> HIDE DEF a, b, c, x
      <3>2. x[1] = a /\ x[2] = b /\ x[3] = c
        BY <3>1, Triple
      <3> QED
        BY <3>2 DEF a, b, c, x
    <2>3. Performs(<<op, currentOp[2], value>>, lines[k])
      BY <1>8, <1>14, <1>15, <2>1, <2>2, Performing
    <2> QED
      BY <1>13, <2>3
  <1>18. ~AfterNumberJump(k + 1)
    <2>1. (k + 1) - 1 = k
      BY <1>2
    <2> QED
      BY <1>6, <2>1 DEF AfterNumberJump
  <1>19. pos' = Offsets[k + 1] + 1
    BY <1>2, <1>6
  <1>20. AtLine(k + 1)' /\ InstrTypes'
    BY <1>1, <1>2, <1>3, <1>16, <1>17, <1>18, <1>19, EmitStep
  <1> QED
    BY <1>2, <1>20

\* The second pass begins at the first line.
LEMMA PassStep ==
  ASSUME Loaded, preParse \in BOOLEAN, InstrTypes, NEW k \in 1..Len(lines) + 1, AtLine(k), SecondPass
  PROVE  1 \in 1..Len(lines) + 1 /\ AtLine(1)' /\ InstrTypes'
  <1>1. /\ pos > Len(text) /\ preParse /\ pos' = 1 /\ opI' = 0 /\ preParse' = FALSE
        /\ lines' = lines /\ currentOp' = currentOp /\ labels' = labels /\ program' = program
    BY DEF SecondPass, fixed
  <1>2. Reading(k) /\ Pass(k) /\ Len(lines) \in Nat /\ Len(lines) + 1 \in Nat /\ 1 \in 1..Len(lines) + 1
    BY TokensOfLine DEF AtLine
  <1>3. k = Len(lines) + 1
    <2>1. pos <= Len(text) <=> k <= Len(lines)
      BY <1>2, AtToken
    <2>2. pos \in Int /\ Len(text) \in Nat
      <3>1. Offsets[k] \in Nat /\ Offsets[Len(lines) + 1] \in Nat /\ Offsets[Len(lines) + 1] = Len(text)
        BY <1>2, TokensOfLine
      <3>2. opI \in Int /\ pos = Offsets[k] + opI + 1
        BY <1>2 DEF Reading
      <3> QED
        BY <3>1, <3>2
    <2>3. ~(pos <= Len(text))
      BY <1>1, <2>2
    <2> QED
      BY <1>2, <2>1, <2>3
  <1>4. LabelsRead(Len(lines) + 1)'
    <2>1. LabelsRead(Len(lines) + 1)
      BY <1>1, <1>2, <1>3 DEF Pass
    <2> QED
      BY <1>1, <1>2, <2>1, LabelsKept
  <1>5. Translated(1)'
    <2>1. program' = <<>> /\ 1 - 1 = 0
      BY <1>1, <1>2 DEF Pass
    <2>2. Number(0)' = 0
      BY <1>1, Static, CountLines
    <2>3. \A l \in 1..0 : FALSE
      OBVIOUS
    <2> QED
      BY <2>1, <2>2, <2>3 DEF Translated
  <1>6. Reading(1)'
    <2>1. Offsets' = Offsets /\ Offsets[1] = 0
      BY <1>1, Static, TokensOfLine
    <2>2. ~AfterNumberJump(1)'
      BY DEF AfterNumberJump
    <2>3. pos' = Offsets'[1] + 0 + 1
      BY <1>1, <2>1
    <2> QED
      BY <1>1, <1>2, <2>2, <2>3 DEF Reading
  <1> QED
    BY <1>1, <1>2, <1>4, <1>5, <1>6 DEF AtLine, Pass, InstrTypes

-----------------------------------------------------------------------------
(* The invariant holds.                                                    *)

LEMMA InitInv == Init => Inv
  <1> SUFFICES ASSUME Init
               PROVE  Inv
    OBVIOUS
  <1>1. Loaded
    BY TextsAssumption DEF Init, Loaded
  <1>2. /\ pos = 1 /\ preParse = TRUE /\ opI = 0 /\ currentOp = <<0, 0, 0>> /\ labels = <<>>
        /\ programI = 0 /\ program = <<>> /\ outcome = "parsing"
    BY DEF Init
  <1>3. Len(lines) \in Nat /\ 1 \in 1..Len(lines) + 1
    BY <1>1, TokensOfLine
  <1>4. Reading(1)
    <2>1. Offsets[1] = 0 /\ ~AfterNumberJump(1)
      BY <1>1, TokensOfLine DEF AfterNumberJump
    <2>2. pos = Offsets[1] + 0 + 1
      BY <1>2, <2>1
    <2> QED
      BY <1>2, <1>3, <2>1, <2>2 DEF Reading
  <1>5. Pass(1)
    <2>1. 1 - 1 = 0 /\ \A l : l \notin 1..0
      OBVIOUS
    <2>2. Number(0) = 0 /\ OpSize \in Nat /\ OpSize * 0 = 0
      BY CountLines, SizeType
    <2>3. DOMAIN labels = {}
      BY <1>2
    <2>4. LabelsRead(1)
      BY <2>1, <2>3 DEF LabelsRead
    <2> QED
      BY <1>2, <2>1, <2>2, <2>4 DEF Pass
  <1>6. InstrTypes
    BY <1>2 DEF InstrTypes, Instructions
  <1> QED
    BY <1>1, <1>2, <1>3, <1>4, <1>5, <1>6 DEF Inv, AtLine, Ended

LEMMA NextInv == Inv /\ [Next]_vars => Inv'
  <1> SUFFICES ASSUME Inv, [Next]_vars
               PROVE  Inv'
    OBVIOUS
  <1>1. lines' = lines /\ openComment' = openComment /\ preParse' \in BOOLEAN
    <2>1. preParse \in BOOLEAN
      BY DEF Inv
    <2>2. CASE UNCHANGED vars
      BY <2>1, <2>2 DEF vars, fixed
    <2>3. CASE Next
      BY <2>1, <2>3 DEF Next, DefineLabel, BaseOp, Nop, JumpTarget, NotOperand, LabelOnTheLeft,
        LeftOperand, RightOperand, Accept, Reject, SecondPass, Finish, fixed
    <2> QED
      BY <2>2, <2>3
  <1>2. Loaded' /\ (Regular' <=> Regular) /\ Len(lines)' = Len(lines)
    BY <1>1, Static DEF Inv
  <1>3. CASE ~Regular
    BY <1>1, <1>2, <1>3 DEF Inv
  <1>4. CASE Regular
    <2>1. /\ Loaded /\ preParse \in BOOLEAN /\ InstrTypes /\ outcome \in {"parsing", "done"}
      BY <1>4 DEF Inv
    <2>2. PICK k \in 1..Len(lines) + 1 : AtLine(k) /\ Ended(k)
      BY <1>4 DEF Inv
    <2>3. Len(lines) \in Nat /\ Reading(k) /\ Pass(k)
      BY <2>1, <2>2, TokensOfLine DEF AtLine
    <2>4. pos <= Len(text) => At(k)
      <3>1. pos <= Len(text) => k <= Len(lines)
        BY <2>1, <2>3, AtToken
      <3>2. k <= Len(lines) => k \in 1..Len(lines)
        BY <2>3
      <3> QED
        BY <1>4, <2>1, <2>2, <3>1, <3>2 DEF At
    <2>5. ASSUME outcome' = "parsing", NEW j \in 1..Len(lines) + 1, AtLine(j)', InstrTypes'
          PROVE  Inv'
      <3>1. Ended(j)'
        BY <2>5 DEF Ended
      <3> QED
        BY <1>1, <1>2, <2>5, <3>1 DEF Inv
    <2>6. ASSUME NEW part \in 0..2, Accept(part)
          PROVE  At(k) /\ outcome' = "parsing"
      BY <2>4, <2>6 DEF Accept, Parsing
    <2>7. CASE DefineLabel
      <3>1. At(k) /\ outcome' = "parsing"
        BY <2>6, <2>7 DEF DefineLabel
      <3> QED
        BY <2>5, <2>7, <3>1, DefineStep
    <2>8. CASE BaseOp
      <3>1. At(k) /\ outcome' = "parsing"
        BY <2>6, <2>8 DEF BaseOp
      <3> QED
        BY <2>5, <2>8, <3>1, BaseStep
    <2>9. CASE Nop
      <3>1. At(k) /\ outcome' = "parsing"
        BY <2>6, <2>9 DEF Nop
      <3> QED
        BY <2>5, <2>9, <3>1, NopStep
    <2>10. CASE JumpTarget
      <3>1. At(k) /\ outcome' = "parsing"
        BY <2>6, <2>10 DEF JumpTarget
      <3> QED
        BY <2>5, <2>10, <3>1, JumpStep
    <2>11. CASE NotOperand
      <3>1. At(k) /\ outcome' = "parsing"
        BY <2>6, <2>11 DEF NotOperand
      <3> QED
        BY <2>5, <2>11, <3>1, NotStep
    <2>12. CASE LabelOnTheLeft
      <3>1. Accept(1) /\ TwoOperands /\ IsLabel
        BY <2>12 DEF LabelOnTheLeft
      <3>2. At(k)
        BY <2>6, <3>1
      <3> QED
        BY <3>1, <3>2, LeftStep
    <2>13. CASE LeftOperand
      <3>1. Accept(1) /\ TwoOperands
        BY <2>13 DEF LeftOperand
      <3>2. At(k) /\ outcome' = "parsing"
        BY <2>6, <3>1
      <3> QED
        BY <2>5, <2>13, <3>1, <3>2, LeftStep
    <2>14. CASE RightOperand
      <3>1. At(k) /\ outcome' = "parsing"
        BY <2>6, <2>14 DEF RightOperand
      <3> QED
        BY <2>5, <2>14, <3>1, RightStep
    <2>15. CASE Reject
      <3>1. pos <= Len(text) /\ Rejection # "none"
        BY <2>15 DEF Reject
      <3>2. At(k)
        BY <2>4, <3>1
      <3> QED
        BY <3>1, <3>2, NotRejected DEF At
    <2>16. CASE SecondPass
      <3>1. outcome' = "parsing"
        BY <2>16 DEF SecondPass
      <3> QED
        BY <2>1, <2>2, <2>5, <2>16, <3>1, PassStep
    <2>17. ASSUME UNCHANGED <<fixed, pos, preParse, opI, currentOp, left, right, labels, programI, program>>
           PROVE  AtLine(k)' /\ InstrTypes'
      <3>1. /\ Offsets' = Offsets /\ (Marks(k)' <=> Marks(k))
            /\ (AfterNumberJump(k)' <=> AfterNumberJump(k))
            /\ (TwoForm(lines[k])' <=> TwoForm(lines[k]))
        BY <1>1, Static
      <3>2. Reading(k)'
        BY <1>1, <2>3, <2>17, <3>1 DEF Reading
      <3>3. Pass(k)'
        BY <1>1, <2>1, <2>3, <2>17, PassKept
      <3> QED
        BY <2>1, <2>17, <3>2, <3>3 DEF AtLine, InstrTypes
    <2>18. CASE Finish
      <3>1. /\ pos > Len(text) /\ (~preParse \/ openComment) /\ outcome' = "done"
            /\ UNCHANGED <<fixed, pos, preParse, opI, currentOp, left, right, labels, programI, program>>
        BY <2>18 DEF Finish
      <3>2. k = Len(lines) + 1 /\ opI = 0
        <4>1. /\ pos <= Len(text) <=> k <= Len(lines)
              /\ k > Len(lines) => k = Len(lines) + 1 /\ opI = 0 /\ pos = Offsets[k] + 1
          BY <2>1, <2>3, AtToken
        <4>2. pos \in Int /\ Len(text) \in Nat
          <5>1. Offsets[k] \in Nat /\ Offsets[Len(lines) + 1] \in Nat /\ Offsets[Len(lines) + 1] = Len(text)
            BY <2>1, <2>3, TokensOfLine
          <5>2. opI \in Int /\ pos = Offsets[k] + opI + 1
            BY <2>3 DEF Reading
          <5> QED
            BY <5>1, <5>2
        <4>3. ~(pos <= Len(text))
          BY <3>1, <4>2
        <4>4. k > Len(lines)
          BY <2>3, <4>1, <4>3
        <4> QED
          BY <4>1, <4>4
      <3>3. AtLine(k)' /\ InstrTypes'
        BY <2>17, <3>1
      <3>4. Ended(k)'
        BY <1>1, <3>1, <3>2 DEF Ended
      <3> QED
        BY <1>1, <1>2, <3>1, <3>3, <3>4 DEF Inv
    <2>19. CASE UNCHANGED vars
      <3>1. AtLine(k)' /\ InstrTypes'
        BY <2>17, <2>19 DEF vars
      <3>2. Ended(k)' /\ outcome' \in {"parsing", "done"}
        BY <1>1, <2>1, <2>2, <2>19 DEF Ended, vars
      <3> QED
        BY <1>1, <1>2, <3>1, <3>2 DEF Inv
    <2> QED
      BY <2>7, <2>8, <2>9, <2>10, <2>11, <2>12, <2>13, <2>14, <2>15, <2>16, <2>18, <2>19 DEF Next
  <1> QED
    BY <1>3, <1>4

LEMMA AlwaysInv == Spec => []Inv
  BY InitInv, NextInv, PTL DEF Spec

\* A program that was assembled from a regular text is one instruction for each
\* line, which the machine executes as the line says.
THEOREM AssembledIsMeant == Spec => []CodeDoesWhatTextSays
  <1>1. Inv => CodeDoesWhatTextSays
    <2> SUFFICES ASSUME Inv, outcome = "done", Regular, ~openComment
                 PROVE  /\ Len(program) = Number(Len(lines))
                        /\ \A k \in DOMAIN lines :
                              \/ Marks(k) \/ JumpsToRegister(lines[k])
                              \/ Performs(program[Number(k)], lines[k])
      BY Zenon DEF CodeDoesWhatTextSays
    <2>1. PICK k \in 1..Len(lines) + 1 : AtLine(k) /\ Ended(k)
      BY DEF Inv
    <2>2. k = Len(lines) + 1 /\ ~preParse /\ preParse \in BOOLEAN
      BY <2>1 DEF Ended, Inv
    <2>3. Len(lines) \in Nat /\ DOMAIN lines = 1..Len(lines) /\ (Len(lines) + 1) - 1 = Len(lines)
      BY TokensOfLine DEF Inv, Loaded
    <2>4. Translated(Len(lines) + 1)
      BY <2>1, <2>2 DEF AtLine, Pass
    <2> QED
      BY <2>3, <2>4 DEF Translated
  <1> QED
    BY <1>1, AlwaysInv, PTL

\* A regular text is never rejected.
THEOREM RegularIsAssembled == Spec => []RegularTextsAssemble
  <1>1. Inv => RegularTextsAssemble
    BY DEF Inv, RegularTextsAssemble
  <1> QED
    BY <1>1, AlwaysInv, PTL

=============================================================================
