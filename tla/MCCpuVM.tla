------------------------------ MODULE MCCpuVM ------------------------------
(***************************************************************************)
(* Programs for TLC to run on CpuVM.  A word has two bytes, so that an     *)
(* instruction has five and the last byte of a small operand is 0 or 255,  *)
(* as it is with the nine bytes of an int; and a float has three quarters  *)
(* of a word's digits, as 24 are of 32.                                    *)
(***************************************************************************)
EXTENDS CpuVM, SequencesExt

(* Instructions over two registers, three memory and two graphics cells.   *)
Arithmetic == {
    <<0, 0, -3>>,       \* mov r0 -3
    <<1, 1, 0>>,        \* mov r1 r0
    <<2, 0, 0>>,        \* mov r0 mem
    <<6, 0, 0>>,        \* mov mem r0
    <<3, 0, 1>>,        \* mov r0 f1
    <<17, 0, 1>>,       \* add r0 r1
    <<38, 0, 0>>,       \* sub mem mem
    <<65, 0, 0>>,       \* mul r0 r0
    <<112, 0, 7>>,      \* and r0 7
    <<144, 1, 0>>}      \* not r1
Pointers == {
    <<10, 0, 9>>,       \* mov ptr 9
    <<25, 0, 0>>,       \* add ptr r0
    <<147, 0, 0>>,      \* not ptr
    <<4, 1, 4>>,        \* mov r1 ptr
    <<15, 2, 2>>,       \* mov f2 2, the left pointer is gp
    <<15, 3, 2>>}       \* mov f3 2, the right pointer is gp
Branches == {
    <<80, 0, 1>>,       \* cmp r0 1
    <<86, 0, 0>>,       \* cmp mem mem
    <<49, 0, 0>>,       \* jgt 0
    <<50, 7, 0>>,       \* jngt 7
    <<52, 15, 0>>,      \* jne 15
    <<51, 0, 0>>,       \* je 0
    <<48, 400, 0>>,     \* jmp 400
    <<54, 0, 0>>,       \* jmp r0
    <<160, 0, 1>>}      \* shl r0 1

(* What no well-formed program has.                                        *)
Odd == {
    <<0, 16, 1>>,       \* mov r16 1
    <<91, 0, 4>>,       \* cmp ptr f4
    <<146, 1, 0>>,      \* not f1
    <<15, 0, 3>>,       \* mov f0 3
    <<60, 0, 0>>}       \* no case of the switch

ShortPrograms ==
    BoundedSeq(Arithmetic \cup Pointers \cup Branches \cup Odd, 2) \ {<<>>}

(* A branch, then two instructions; or two instructions, then a branch.    *)
BranchPrograms ==
    {<<b, i, j>> : b \in Branches, i \in Branches, j \in Arithmetic}
        \cup {<<i, j, b>> : b \in Branches, i \in Arithmetic, j \in Branches}

(* A jump past the end lands on the last byte, here that of 12288: a jmp.  *)
LastBytePrograms == {<<<<48, 400, 0>>, <<0, 0, 12288>>>>}

(* The least target that the division in float rounds up, the greatest     *)
(* whose product with OpSize is still a word, and the least and greatest   *)
(* whose product is not; and the same below zero.                          *)
FarTargets == {4099, 32763, 32764, 32767, -4099, -32763, -32764, -32768}
FarPrograms == {<<<<48, a, 0>>, i>> : a \in FarTargets, i \in Arithmetic}

MCPrograms == FarPrograms \cup ShortPrograms \cup BranchPrograms \cup LastBytePrograms
MCInputs == {0, 200}
MCGarbage == {0, -21846}

=============================================================================
