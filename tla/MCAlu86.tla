------------------------------ MODULE MCAlu86 ------------------------------
(***************************************************************************)
(* Programs for Alu86 with nibbles of 2 bits and decimal digits 0 to 2:    *)
(* bytes have 16 values, words 256.  Every value of AX, either carry, and  *)
(* operands that take every value of a byte, or the edges of a word.       *)
(***************************************************************************)
EXTENDS Alu86

MCStarts == [ax : 0 .. 255, dx : {0}, cf : BOOLEAN] \cup [ax : {0, 100, 255}, dx : {1, 127, 255}, cf : {FALSE}]

Bytes == 0 .. 15
EdgeBytes == {0, 1, 7, 8, 15}
EdgeWords == {0, 1, 2, 100, 127, 128, 255}

I(op, reg, src) == [op |-> op, reg |-> reg, src |-> src]

Single(ops) ==
    {<<I(op, "al", s)>> : op \in ops, s \in Bytes}
      \cup {<<I(op, "ax", s)>> : op \in ops, s \in EdgeWords}

Comparisons == Single({"cmp"}) \cup {<<I("cmp", reg, s)>> : reg \in {"ah", "dx"}, s \in EdgeBytes}
Products == Single({"mul", "imul", "div", "idiv"})
Extended ==
    {<<I("cbw", "al", 0), I("idiv", "al", s)>> : s \in Bytes}
      \cup {<<I("cwd", "ax", 0), I("idiv", "ax", s)>> : s \in EdgeWords}

\* The carry from the low byte to the high byte.
Sums ==
    {<<I("add", "al", s), I("dec", "dx", 0), I("adc", "ah", t)>> : s, t \in EdgeBytes}
      \cup {<<I("sub", "al", s), I("inc", "dx", 0), I("sbb", "ah", t)>> : s, t \in EdgeBytes}
      \cup {<<I("neg", "al", 0), I("adc", "ah", 0), I("neg", "ah", 0)>>}

\* Every count up to twice the width.
Shifts ==
    {<<I("shl", "al", 1), I("rcl", "ah", 1)>>,
     <<I("shr", "ah", 1), I("rcr", "al", 1)>>, <<I("sar", "ah", 1), I("rcr", "al", 1)>>}
      \cup {<<I("rol", reg, n), I("ror", reg, n)>> : reg \in {"al", "ah", "ax"}, n \in 0 .. 8}
      \cup {<<I("rcl", reg, n), I("rcr", reg, n)>> : reg \in {"al", "ah", "ax"}, n \in 0 .. 8}

\* Decimal programs: packed operands, then unpacked ones.
Decimals ==
    {<<I(op, "al", s), I("daa", "al", 0)>> : op \in {"add", "adc"}, s \in Bytes}
      \cup {<<I(op, "al", s), I("das", "al", 0)>> : op \in {"sub", "sbb"}, s \in Bytes}
      \cup {<<I("add", "al", s), I("aaa", "al", 0)>> : s \in 0 .. 2}
      \cup {<<I("sub", "al", s), I("aas", "al", 0)>> : s \in 0 .. 2}
      \cup {<<I("mul", "al", s), I("aam", "al", n)>> : s \in 0 .. 2, n \in {0, 3}}
      \cup {<<I("aad", "al", 3), I("div", "al", s)>> : s \in 0 .. 2}

\* The logical operations and NOT, whose values no property is about.
Others ==
    {<<I(op, "al", 5)>> : op \in {"and", "or", "xor", "not"}}

\* Comparisons of words by bytes.
Comparing == {<<I("cmp", "al", s), I("sbb", "ah", t)>> : s, t \in EdgeBytes}

\* Results that are zero or negative in one byte only.
Words == {<<I(op, "ax", s)>> : op \in {"add", "sub", "shl", "sar"}, s \in {0, 1, 2, 16}}

MCCodes == Comparing \cup Words \cup Comparisons \cup Products \cup Extended \cup Sums \cup Shifts \cup Decimals \cup Others
=============================================================================
