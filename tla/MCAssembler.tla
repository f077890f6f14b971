---------------------------- MODULE MCAssembler ----------------------------
(***************************************************************************)
(* Texts for TLC to assemble: every pair of lines the genetic algorithm    *)
(* can generate from a mnemonic and its opArgs, and texts of up to four    *)
(* lines with labels, or with lines that nothing generates.                *)
(***************************************************************************)
EXTENDS Assembler

T(kind, val) == [kind |-> kind, val |-> val]
W(name) == T("word", name)

(* One operand of each type.                                               *)
Sample(type) == T(type, CASE type = "number" -> -3 [] type = "register" -> 5
                              [] type = "flag" -> 3 [] OTHER -> 0)

Generated(op) ==
    LET l == {Sample(t) : t \in opArgs[op].left}
        r == {Sample(t) : t \in opArgs[op].right}
    IN IF l = {} THEN {<<W(op)>>}
       ELSE IF r = {} THEN {<<W(op), x>> : x \in l}
       ELSE {<<W(op), x, y>> : x \in l, y \in r}
GeneratedLines == UNION {Generated(op) : op \in DOMAIN opMap}

(* After and before the lines whose operand types linger.                  *)
Neighbours == UNION {Generated(op) : op \in {"mov", "jmp", "not", "nop", "cmp"}}

LabelLines == {
    <<T("label", "a")>>, <<T("label", "b")>>,
    <<W("jmp"), T("label", "a")>>,
    <<W("jgt"), T("label", "b")>>,
    <<W("mov"), T("register", 1), T("label", "a")>>,
    <<W("add"), T("pointer", 0), T("register", 1)>>,
    <<W("je"), T("number", 7)>>,
    <<W("nop")>>}

OddLines == {
    <<T("label", "a")>>,
    <<W("mov"), T("flag", 2), T("number", 1)>>,
    <<W("mov"), T("register", 0), T("number", Half)>>,
    <<W("mov"), T("label", "a"), T("number", 1)>>,
    <<W("add"), T("register", 0), T("pointer", 0)>>,
    <<W("sub"), T("register", 0), T("number", 1), T("number", 2)>>,
    <<W("jne"), T("register", 2)>>,
    <<W("or"), W("xor"), T("number", 1)>>,
    <<W("#define"), W("five"), T("number", 5)>>}

MCTexts ==
    {<<k, l>> : k \in GeneratedLines, l \in Neighbours}
        \cup {<<k, l>> : k \in Neighbours, l \in GeneratedLines}
        \cup BoundedSeq(LabelLines, 4) \cup BoundedSeq(OddLines, 3)

=============================================================================
