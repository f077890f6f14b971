----------------------------- MODULE MCGenetic -----------------------------
(* Genetic for TLC: two genes, four species of which two are elite, two    *)
(* samples that want opposite things of a program, and words of one byte   *)
(* in two registers.                                                       *)
EXTENDS Genetic

CONSTANTS a, b

MCGenes == {a, b}
MCRandomDna == {<<a>>, <<b>>, <<a, b>>, <<b, a>>}

MCExpected(x) == IF x = 0 THEN <<1, 0>> ELSE <<-1, 0>>

(* Sample 0 wants a in the first line, sample 1 wants b in the last; each  *)
(* other miss counts more the longer the program, and that of <<b, a>> is  *)
(* 128 away, the least word: it costs -128.                                *)
MCResult(p, x) ==
    IF x = 0 THEN IF p[1] = a THEN <<1, 0>> ELSE <<1, Len(p)>>
    ELSE IF p[Len(p)] = b THEN <<-1, 0>>
    ELSE IF p[1] = b THEN <<127, 0>> ELSE <<0, 1>>
=============================================================================
