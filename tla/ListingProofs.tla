---------------------------- MODULE ListingProofs ----------------------------
(***************************************************************************)
(* The disassembler and the emulator find the same length for all pairs of *)
(* an opcode and a byte after it, but for those that Mislisted names; the  *)
(* search in the symbol table finds the nearest symbol and stays inside    *)
(* the table, for every table and every address; and a trace stays in step *)
(* with the program, and ends none, for every program and every table:     *)
(* what the first two parts say of lengths and of the search, carried      *)
(* along the loop of main().                                               *)
(***************************************************************************)
EXTENDS Listing, TLAPS

-----------------------------------------------------------------------------
(* The lengths of instructions.                                              *)

LEMMA FieldTypes ==
    ASSUME NEW m \in Byte
    PROVE  /\ Mod(m) \in 0 .. 3 /\ Reg(m) \in 0 .. 7 /\ RM(m) \in 0 .. 7
           /\ Displacement(m) \in 0 .. 2
<1>1. Mod(m) \in 0 .. 3 /\ Reg(m) \in 0 .. 7 /\ RM(m) \in 0 .. 7
  BY SMT DEF Byte, Mod, Reg, RM
<1> QED
  BY <1>1 DEF Displacement

\* What outs() fetches for each of the sets of flags.
LEMMA ShownBytes ==
    ASSUME NEW m \in Byte, NEW w \in BOOLEAN
    PROVE  /\ Outs({}, m, w) = 0
           /\ Outs({"IMM"}, m, w) = Size(w)
           /\ Outs({"RDMOD", "OPS2"}, m, w) = Displacement(m)
           /\ Outs({"RDMOD", "RM"}, m, w) = Displacement(m)
           /\ Outs({"RM"}, m, w) = Displacement(m)
           /\ Outs({"OPS2"}, m, w) = Displacement(m)
           /\ Outs({"RDMOD", "IMM", "RM"}, m, w) = Displacement(m) + Size(w)
           /\ Outs({"IMM", "RM"}, m, w) = Displacement(m) + Size(w)
           /\ Outs({"IMM", "RM", "WORD"}, m, w) = Displacement(m) + 2
           /\ Outs({"IMM", "RM", "SBYTE"}, m, w) = Displacement(m) + 1
           /\ Outs({"IMM", "RM", "BYTE"}, m, w) = Displacement(m) + 1
           /\ Outs({"IMM", "BYTE"}, m, w) = 1
           /\ Outs({"JMP", "SBYTE"}, m, w) = 1
           /\ Outs({"JMP", "WORD"}, m, w) = 2
           /\ Outs({"JMP", "DWORD"}, m, w) = 4
           /\ Outs({"MEMWORD"}, m, w) = 2
           /\ Outs({"WORD"}, m, w) = 2
<1>1. Displacement(m) \in Int /\ Size(w) \in Int
  BY FieldTypes DEF Size
<1> QED
  BY <1>1 DEF Outs

\* The two lengths differ where Mislisted says so only, and the disassembler needs more
\* bytes than the emulator for no instruction but a far jump through memory.
Agree(op, m) ==
    /\ ShownLength(op, m) = Length(op, m) <=> ~Mislisted(op, m)
    /\ ShownLength(op, m) <= Length(op, m) \/ FarIndirect(op, m)

\* The disassembler reads a ModRM byte where the emulator does.
SameModRM(op, m) ==
    HasModRM(op) <=> DecodeReadsModRM(op) \/ "RDMOD" \in Flags(op, m)

\* Lengths agree if the ModRM byte and what outs() fetches do.
LEMMA PartsAgree ==
    ASSUME NEW op \in Byte, NEW m \in Byte, SameModRM(op, m), ~Mislisted(op, m),
           Outs(Flags(op, m), ModRMShown(op, m), ShownWide(op))
             = (IF HasModRM(op) THEN Displacement(m) ELSE 0) + Immediate(op, m)
    PROVE  Agree(op, m)
<1>1. Displacement(m) \in Int
  BY FieldTypes
<1>2. Immediate(op, m) \in Int
  BY SMT DEF Immediate, Size
<1> QED
  BY <1>1, <1>2 DEF Agree, SameModRM, Length, ShownLength

\* The opcodes with nothing after them.
Plain ==
    {op \in 0 .. \h3f : op % 8 \in {6, 7}} \cup \h40 .. \h5f \cup \h90 .. \h99 \cup \h9c .. \h9f
      \cup \ha4 .. \ha7 \cup \haa .. \haf \cup \hf8 .. \hfd
      \cup {\hc3, \hcb, \hcf, \hd6, \hd7, \hf2, \hf3, \hf5}

LEMMA LengthsDiffer ==
    ASSUME NEW op \in Byte, NEW m \in Byte, ~Invalid(op, m), ~Trap(op)
    PROVE  Agree(op, m)
<1>1. /\ Mod(m) \in 0 .. 3 /\ Reg(m) \in 0 .. 7 /\ Displacement(m) \in 0 .. 2
      /\ op \in 0 .. 255
  BY FieldTypes DEF Byte
<1>2. Size(Wide(op)) \in Int /\ ShownWide(op) \in BOOLEAN
  <2>1. Size(Wide(op)) \in Int
    BY SMT DEF Size
  <2>2. ShownWide(op) \in BOOLEAN
    BY Zenon DEF ShownWide, Wide
  <2> QED
    BY <2>1, <2>2
<1>3. CASE op < \h40 /\ op % 8 < 4
  <2>1. Flags(op, m) = {"RDMOD", "OPS2"}
    BY <1>1, <1>3 DEF Flags, ShortJumps, NearJumps, FarJumps, FarIndirect, MathFlags
  <2>2. HasModRM(op) /\ Immediate(op, m) = 0
    BY <1>1, <1>3 DEF HasModRM, Immediate, ShortJumps, NearJumps, FarJumps, FarIndirect, MathFlags
  <2>3. SameModRM(op, m) /\ ~Mislisted(op, m) /\ ModRMShown(op, m) = m
    BY <1>1, <1>3, <2>1, <2>2 DEF SameModRM, DecodeReadsModRM, ModRMShown, Mislisted, ShortJumps, NearJumps, FarJumps, FarIndirect, MathFlags
  <2>5. Outs({"RDMOD", "OPS2"}, m, ShownWide(op)) = Displacement(m)
    BY <1>2, ShownBytes, Zenon
  <2>6. Outs(Flags(op, m), ModRMShown(op, m), ShownWide(op))
          = (IF HasModRM(op) THEN Displacement(m) ELSE 0) + Immediate(op, m)
    BY <1>1, <1>2, <2>1, <2>2, <2>3, <2>5
  <2> QED
    BY <2>3, <2>6, PartsAgree, Zenon
<1>4. CASE op < \h40 /\ op % 8 \in {4, 5}
  <2>1. Flags(op, m) = {"IMM"}
    BY <1>1, <1>4 DEF Flags, ShortJumps, NearJumps, FarJumps, FarIndirect, MathFlags
  <2>2. ~HasModRM(op) /\ Immediate(op, m) = Size(Wide(op))
    BY <1>1, <1>4 DEF HasModRM, Immediate, ShortJumps, NearJumps, FarJumps, FarIndirect, MathFlags
  <2>3. SameModRM(op, m) /\ ~Mislisted(op, m) /\ ModRMShown(op, m) = m
    BY <1>1, <1>4, <2>1, <2>2 DEF SameModRM, DecodeReadsModRM, ModRMShown, Mislisted, ShortJumps, NearJumps, FarJumps, FarIndirect, MathFlags
  <2>4. Size(ShownWide(op)) = Size(Wide(op))
    BY <1>1, <1>4 DEF ShownWide, Size, Wide
  <2>5. Outs({"IMM"}, m, ShownWide(op)) = Size(ShownWide(op))
    BY <1>2, ShownBytes, Zenon
  <2>6. Outs(Flags(op, m), ModRMShown(op, m), ShownWide(op))
          = (IF HasModRM(op) THEN Displacement(m) ELSE 0) + Immediate(op, m)
    BY <1>1, <1>2, <2>1, <2>2, <2>3, <2>4, <2>5
  <2> QED
    BY <2>3, <2>6, PartsAgree, Zenon
<1>5. CASE op \in Plain
  <2>1. Flags(op, m) = {}
    BY <1>1, <1>5, SMTT(60) DEF Flags, ShortJumps, NearJumps, FarJumps, FarIndirect, MathFlags, Plain
  <2>2. ~HasModRM(op) /\ Immediate(op, m) = 0
    BY <1>1, <1>5 DEF HasModRM, Immediate, ShortJumps, NearJumps, FarJumps, FarIndirect, MathFlags, Plain
  <2>3. SameModRM(op, m) /\ ~Mislisted(op, m) /\ ModRMShown(op, m) = m
    BY <1>1, <1>5, <2>1, <2>2 DEF SameModRM, DecodeReadsModRM, ModRMShown, Mislisted, ShortJumps, NearJumps, FarJumps, FarIndirect, MathFlags, Plain
  <2>5. Outs({}, m, ShownWide(op)) = 0
    BY <1>2, ShownBytes, Zenon
  <2>6. Outs(Flags(op, m), ModRMShown(op, m), ShownWide(op))
          = (IF HasModRM(op) THEN Displacement(m) ELSE 0) + Immediate(op, m)
    BY <1>1, <1>2, <2>1, <2>2, <2>3, <2>5
  <2> QED
    BY <2>3, <2>6, PartsAgree, Zenon
<1>6. CASE op \in ShortJumps
  <2>1. Flags(op, m) = {"JMP", "SBYTE"}
    BY <1>1, <1>6 DEF Flags, ShortJumps, NearJumps, FarJumps, FarIndirect, MathFlags
  <2>2. ~HasModRM(op) /\ Immediate(op, m) = 1
    BY <1>1, <1>6 DEF HasModRM, Immediate, ShortJumps, NearJumps, FarJumps, FarIndirect, MathFlags
  <2>3. SameModRM(op, m) /\ ~Mislisted(op, m) /\ ModRMShown(op, m) = m
    BY <1>1, <1>6, <2>1, <2>2 DEF SameModRM, DecodeReadsModRM, ModRMShown, Mislisted, ShortJumps, NearJumps, FarJumps, FarIndirect, MathFlags
  <2>5. Outs({"JMP", "SBYTE"}, m, ShownWide(op)) = 1
    BY <1>2, ShownBytes, Zenon
  <2>6. Outs(Flags(op, m), ModRMShown(op, m), ShownWide(op))
          = (IF HasModRM(op) THEN Displacement(m) ELSE 0) + Immediate(op, m)
    BY <1>1, <1>2, <2>1, <2>2, <2>3, <2>5
  <2> QED
    BY <2>3, <2>6, PartsAgree, Zenon
<1>7. CASE op \in \he4 .. \he7
  <2>1. Flags(op, m) = {"IMM", "BYTE"}
    BY <1>1, <1>7 DEF Flags, ShortJumps, NearJumps, FarJumps, FarIndirect, MathFlags
  <2>2. ~HasModRM(op) /\ Immediate(op, m) = 1
    BY <1>1, <1>7 DEF HasModRM, Immediate, ShortJumps, NearJumps, FarJumps, FarIndirect, MathFlags
  <2>3. SameModRM(op, m) /\ ~Mislisted(op, m) /\ ModRMShown(op, m) = m
    BY <1>1, <1>7, <2>1, <2>2 DEF SameModRM, DecodeReadsModRM, ModRMShown, Mislisted, ShortJumps, NearJumps, FarJumps, FarIndirect, MathFlags
  <2>5. Outs({"IMM", "BYTE"}, m, ShownWide(op)) = 1
    BY <1>2, ShownBytes, Zenon
  <2>6. Outs(Flags(op, m), ModRMShown(op, m), ShownWide(op))
          = (IF HasModRM(op) THEN Displacement(m) ELSE 0) + Immediate(op, m)
    BY <1>1, <1>2, <2>1, <2>2, <2>3, <2>5
  <2> QED
    BY <2>3, <2>6, PartsAgree, Zenon
<1>8. CASE op \in {\h80, \h82}
  <2>1. Flags(op, m) = {"IMM", "RM", "BYTE"}
    BY <1>1, <1>8 DEF Flags, ShortJumps, NearJumps, FarJumps, FarIndirect, MathFlags
  <2>2. HasModRM(op) /\ Immediate(op, m) = 1
    BY <1>1, <1>8 DEF HasModRM, Immediate, ShortJumps, NearJumps, FarJumps, FarIndirect, MathFlags
  <2>3. SameModRM(op, m) /\ ~Mislisted(op, m) /\ ModRMShown(op, m) = m
    BY <1>1, <1>8, <2>1, <2>2 DEF SameModRM, DecodeReadsModRM, ModRMShown, Mislisted, ShortJumps, NearJumps, FarJumps, FarIndirect, MathFlags
  <2>5. Outs({"IMM", "RM", "BYTE"}, m, ShownWide(op)) = Displacement(m) + 1
    BY <1>2, ShownBytes, Zenon
  <2>6. Outs(Flags(op, m), ModRMShown(op, m), ShownWide(op))
          = (IF HasModRM(op) THEN Displacement(m) ELSE 0) + Immediate(op, m)
    BY <1>1, <1>2, <2>1, <2>2, <2>3, <2>5
  <2> QED
    BY <2>3, <2>6, PartsAgree, Zenon
<1>9. CASE op = \h81
  <2>1. Flags(op, m) = {"IMM", "RM", "WORD"}
    BY <1>1, <1>9 DEF Flags, ShortJumps, NearJumps, FarJumps, FarIndirect, MathFlags
  <2>2. HasModRM(op) /\ Immediate(op, m) = 2
    BY <1>1, <1>9 DEF HasModRM, Immediate, ShortJumps, NearJumps, FarJumps, FarIndirect, MathFlags
  <2>3. SameModRM(op, m) /\ ~Mislisted(op, m) /\ ModRMShown(op, m) = m
    BY <1>1, <1>9, <2>1, <2>2 DEF SameModRM, DecodeReadsModRM, ModRMShown, Mislisted, ShortJumps, NearJumps, FarJumps, FarIndirect, MathFlags
  <2>5. Outs({"IMM", "RM", "WORD"}, m, ShownWide(op)) = Displacement(m) + 2
    BY <1>2, ShownBytes, Zenon
  <2>6. Outs(Flags(op, m), ModRMShown(op, m), ShownWide(op))
          = (IF HasModRM(op) THEN Displacement(m) ELSE 0) + Immediate(op, m)
    BY <1>1, <1>2, <2>1, <2>2, <2>3, <2>5
  <2> QED
    BY <2>3, <2>6, PartsAgree, Zenon
<1>10. CASE op = \h83
  <2>1. Flags(op, m) = {"IMM", "RM", "SBYTE"}
    BY <1>1, <1>10 DEF Flags, ShortJumps, NearJumps, FarJumps, FarIndirect, MathFlags
  <2>2. HasModRM(op) /\ Immediate(op, m) = 1
    BY <1>1, <1>10 DEF HasModRM, Immediate, ShortJumps, NearJumps, FarJumps, FarIndirect, MathFlags
  <2>3. SameModRM(op, m) /\ ~Mislisted(op, m) /\ ModRMShown(op, m) = m
    BY <1>1, <1>10, <2>1, <2>2 DEF SameModRM, DecodeReadsModRM, ModRMShown, Mislisted, ShortJumps, NearJumps, FarJumps, FarIndirect, MathFlags
  <2>5. Outs({"IMM", "RM", "SBYTE"}, m, ShownWide(op)) = Displacement(m) + 1
    BY <1>2, ShownBytes, Zenon
  <2>6. Outs(Flags(op, m), ModRMShown(op, m), ShownWide(op))
          = (IF HasModRM(op) THEN Displacement(m) ELSE 0) + Immediate(op, m)
    BY <1>1, <1>2, <2>1, <2>2, <2>3, <2>5
  <2> QED
    BY <2>3, <2>6, PartsAgree, Zenon
<1>11. CASE op \in \h84 .. \h8e \cup {\hc4, \hc5}
  <2>1. Flags(op, m) = {"RDMOD", "OPS2"}
    BY <1>1, <1>11 DEF Flags, ShortJumps, NearJumps, FarJumps, FarIndirect, MathFlags
  <2>2. HasModRM(op) /\ Immediate(op, m) = 0
    BY <1>1, <1>11 DEF HasModRM, Immediate, ShortJumps, NearJumps, FarJumps, FarIndirect, MathFlags
  <2>3. SameModRM(op, m) /\ ~Mislisted(op, m) /\ ModRMShown(op, m) = m
    BY <1>1, <1>11, <2>1, <2>2 DEF SameModRM, DecodeReadsModRM, ModRMShown, Mislisted, ShortJumps, NearJumps, FarJumps, FarIndirect, MathFlags
  <2>5. Outs({"RDMOD", "OPS2"}, m, ShownWide(op)) = Displacement(m)
    BY <1>2, ShownBytes, Zenon
  <2>6. Outs(Flags(op, m), ModRMShown(op, m), ShownWide(op))
          = (IF HasModRM(op) THEN Displacement(m) ELSE 0) + Immediate(op, m)
    BY <1>1, <1>2, <2>1, <2>2, <2>3, <2>5
  <2> QED
    BY <2>3, <2>6, PartsAgree, Zenon
<1>12. CASE op = \h8f
  <2>1. Flags(op, m) = {"RDMOD", "RM"}
    BY <1>1, <1>12 DEF Flags, ShortJumps, NearJumps, FarJumps, FarIndirect, MathFlags
  <2>2. HasModRM(op) /\ Immediate(op, m) = 0
    BY <1>1, <1>12 DEF HasModRM, Immediate, ShortJumps, NearJumps, FarJumps, FarIndirect, MathFlags
  <2>3. SameModRM(op, m) /\ ~Mislisted(op, m) /\ ModRMShown(op, m) = m
    BY <1>1, <1>12, <2>1, <2>2 DEF SameModRM, DecodeReadsModRM, ModRMShown, Mislisted, ShortJumps, NearJumps, FarJumps, FarIndirect, MathFlags
  <2>5. Outs({"RDMOD", "RM"}, m, ShownWide(op)) = Displacement(m)
    BY <1>2, ShownBytes, Zenon
  <2>6. Outs(Flags(op, m), ModRMShown(op, m), ShownWide(op))
          = (IF HasModRM(op) THEN Displacement(m) ELSE 0) + Immediate(op, m)
    BY <1>1, <1>2, <2>1, <2>2, <2>3, <2>5
  <2> QED
    BY <2>3, <2>6, PartsAgree, Zenon
<1>13. CASE op \in FarJumps
  <2>1. Flags(op, m) = {"JMP", "DWORD"}
    BY <1>1, <1>13 DEF Flags, ShortJumps, NearJumps, FarJumps, FarIndirect, MathFlags
  <2>2. ~HasModRM(op) /\ Immediate(op, m) = 4
    BY <1>1, <1>13 DEF HasModRM, Immediate, ShortJumps, NearJumps, FarJumps, FarIndirect, MathFlags
  <2>3. SameModRM(op, m) /\ ~Mislisted(op, m) /\ ModRMShown(op, m) = m
    BY <1>1, <1>13, <2>1, <2>2 DEF SameModRM, DecodeReadsModRM, ModRMShown, Mislisted, ShortJumps, NearJumps, FarJumps, FarIndirect, MathFlags
  <2>5. Outs({"JMP", "DWORD"}, m, ShownWide(op)) = 4
    BY <1>2, ShownBytes, Zenon
  <2>6. Outs(Flags(op, m), ModRMShown(op, m), ShownWide(op))
          = (IF HasModRM(op) THEN Displacement(m) ELSE 0) + Immediate(op, m)
    BY <1>1, <1>2, <2>1, <2>2, <2>3, <2>5
  <2> QED
    BY <2>3, <2>6, PartsAgree, Zenon
<1>14. CASE op \in \ha0 .. \ha3
  <2>1. Flags(op, m) = {"MEMWORD"}
    BY <1>1, <1>14 DEF Flags, ShortJumps, NearJumps, FarJumps, FarIndirect, MathFlags
  <2>2. ~HasModRM(op) /\ Immediate(op, m) = 2
    BY <1>1, <1>14 DEF HasModRM, Immediate, ShortJumps, NearJumps, FarJumps, FarIndirect, MathFlags
  <2>3. SameModRM(op, m) /\ ~Mislisted(op, m) /\ ModRMShown(op, m) = m
    BY <1>1, <1>14, <2>1, <2>2 DEF SameModRM, DecodeReadsModRM, ModRMShown, Mislisted, ShortJumps, NearJumps, FarJumps, FarIndirect, MathFlags
  <2>5. Outs({"MEMWORD"}, m, ShownWide(op)) = 2
    BY <1>2, ShownBytes, Zenon
  <2>6. Outs(Flags(op, m), ModRMShown(op, m), ShownWide(op))
          = (IF HasModRM(op) THEN Displacement(m) ELSE 0) + Immediate(op, m)
    BY <1>1, <1>2, <2>1, <2>2, <2>3, <2>5
  <2> QED
    BY <2>3, <2>6, PartsAgree, Zenon
<1>15. CASE op \in {\ha8, \ha9}
  <2>1. Flags(op, m) = {"IMM"}
    BY <1>1, <1>15 DEF Flags, ShortJumps, NearJumps, FarJumps, FarIndirect, MathFlags
  <2>2. ~HasModRM(op) /\ Immediate(op, m) = Size(Wide(op))
    BY <1>1, <1>15 DEF HasModRM, Immediate, ShortJumps, NearJumps, FarJumps, FarIndirect, MathFlags
  <2>3. SameModRM(op, m) /\ ~Mislisted(op, m) /\ ModRMShown(op, m) = m
    BY <1>1, <1>15, <2>1, <2>2 DEF SameModRM, DecodeReadsModRM, ModRMShown, Mislisted, ShortJumps, NearJumps, FarJumps, FarIndirect, MathFlags
  <2>4. Size(ShownWide(op)) = Size(Wide(op))
    BY <1>1, <1>15 DEF ShownWide, Size, Wide
  <2>5. Outs({"IMM"}, m, ShownWide(op)) = Size(ShownWide(op))
    BY <1>2, ShownBytes, Zenon
  <2>6. Outs(Flags(op, m), ModRMShown(op, m), ShownWide(op))
          = (IF HasModRM(op) THEN Displacement(m) ELSE 0) + Immediate(op, m)
    BY <1>1, <1>2, <2>1, <2>2, <2>3, <2>4, <2>5
  <2> QED
    BY <2>3, <2>6, PartsAgree, Zenon
<1>16. CASE op \in \hb0 .. \hb7
  <2>1. Flags(op, m) = {"IMM"}
    BY <1>1, <1>16 DEF Flags, ShortJumps, NearJumps, FarJumps, FarIndirect, MathFlags
  <2>2. ~HasModRM(op) /\ Immediate(op, m) = 1
    BY <1>1, <1>16 DEF HasModRM, Immediate, ShortJumps, NearJumps, FarJumps, FarIndirect, MathFlags
  <2>3. SameModRM(op, m) /\ ~Mislisted(op, m) /\ ModRMShown(op, m) = m
    BY <1>1, <1>16, <2>1, <2>2 DEF SameModRM, DecodeReadsModRM, ModRMShown, Mislisted, ShortJumps, NearJumps, FarJumps, FarIndirect, MathFlags
  <2>4. Size(ShownWide(op)) = 1
    BY <1>1, <1>16 DEF ShownWide, Size, Wide
  <2>5. Outs({"IMM"}, m, ShownWide(op)) = Size(ShownWide(op))
    BY <1>2, ShownBytes, Zenon
  <2>6. Outs(Flags(op, m), ModRMShown(op, m), ShownWide(op))
          = (IF HasModRM(op) THEN Displacement(m) ELSE 0) + Immediate(op, m)
    BY <1>1, <1>2, <2>1, <2>2, <2>3, <2>4, <2>5
  <2> QED
    BY <2>3, <2>6, PartsAgree, Zenon
<1>17. CASE op \in \hb8 .. \hbf
  <2>1. Flags(op, m) = {"IMM"}
    BY <1>1, <1>17 DEF Flags, ShortJumps, NearJumps, FarJumps, FarIndirect, MathFlags
  <2>2. ~HasModRM(op) /\ Immediate(op, m) = 2
    BY <1>1, <1>17 DEF HasModRM, Immediate, ShortJumps, NearJumps, FarJumps, FarIndirect, MathFlags
  <2>3. SameModRM(op, m) /\ ~Mislisted(op, m) /\ ModRMShown(op, m) = m
    BY <1>1, <1>17, <2>1, <2>2 DEF SameModRM, DecodeReadsModRM, ModRMShown, Mislisted, ShortJumps, NearJumps, FarJumps, FarIndirect, MathFlags
  <2>4. Size(ShownWide(op)) = 2
    BY <1>1, <1>17 DEF ShownWide, Size, Wide
  <2>5. Outs({"IMM"}, m, ShownWide(op)) = Size(ShownWide(op))
    BY <1>2, ShownBytes, Zenon
  <2>6. Outs(Flags(op, m), ModRMShown(op, m), ShownWide(op))
          = (IF HasModRM(op) THEN Displacement(m) ELSE 0) + Immediate(op, m)
    BY <1>1, <1>2, <2>1, <2>2, <2>3, <2>4, <2>5
  <2> QED
    BY <2>3, <2>6, PartsAgree, Zenon
<1>18. CASE op = \hcd
  <2>1. Flags(op, m) = {"IMM"}
    BY <1>1, <1>18 DEF Flags, ShortJumps, NearJumps, FarJumps, FarIndirect, MathFlags
  <2>2. ~HasModRM(op) /\ Immediate(op, m) = 1
    BY <1>1, <1>18 DEF HasModRM, Immediate, ShortJumps, NearJumps, FarJumps, FarIndirect, MathFlags
  <2>3. SameModRM(op, m) /\ ~Mislisted(op, m) /\ ModRMShown(op, m) = m
    BY <1>1, <1>18, <2>1, <2>2 DEF SameModRM, DecodeReadsModRM, ModRMShown, Mislisted, ShortJumps, NearJumps, FarJumps, FarIndirect, MathFlags
  <2>4. Size(ShownWide(op)) = 1
    BY <1>1, <1>18 DEF ShownWide, Size, Wide
  <2>5. Outs({"IMM"}, m, ShownWide(op)) = Size(ShownWide(op))
    BY <1>2, ShownBytes, Zenon
  <2>6. Outs(Flags(op, m), ModRMShown(op, m), ShownWide(op))
          = (IF HasModRM(op) THEN Displacement(m) ELSE 0) + Immediate(op, m)
    BY <1>1, <1>2, <2>1, <2>2, <2>3, <2>4, <2>5
  <2> QED
    BY <2>3, <2>6, PartsAgree, Zenon
<1>19. CASE op \in {\hc2, \hca}
  <2>1. Flags(op, m) = {"WORD"}
    BY <1>1, <1>19 DEF Flags, ShortJumps, NearJumps, FarJumps, FarIndirect, MathFlags
  <2>2. ~HasModRM(op) /\ Immediate(op, m) = 2
    BY <1>1, <1>19 DEF HasModRM, Immediate, ShortJumps, NearJumps, FarJumps, FarIndirect, MathFlags
  <2>3. SameModRM(op, m) /\ ~Mislisted(op, m) /\ ModRMShown(op, m) = m
    BY <1>1, <1>19, <2>1, <2>2 DEF SameModRM, DecodeReadsModRM, ModRMShown, Mislisted, ShortJumps, NearJumps, FarJumps, FarIndirect, MathFlags
  <2>5. Outs({"WORD"}, m, ShownWide(op)) = 2
    BY <1>2, ShownBytes, Zenon
  <2>6. Outs(Flags(op, m), ModRMShown(op, m), ShownWide(op))
          = (IF HasModRM(op) THEN Displacement(m) ELSE 0) + Immediate(op, m)
    BY <1>1, <1>2, <2>1, <2>2, <2>3, <2>5
  <2> QED
    BY <2>3, <2>6, PartsAgree, Zenon
<1>20. CASE op \in {\hc6, \hc7}
  <2>1. Flags(op, m) = {"RDMOD", "IMM", "RM"}
    BY <1>1, <1>20 DEF Flags, ShortJumps, NearJumps, FarJumps, FarIndirect, MathFlags
  <2>2. HasModRM(op) /\ Immediate(op, m) = Size(Wide(op))
    BY <1>1, <1>20 DEF HasModRM, Immediate, ShortJumps, NearJumps, FarJumps, FarIndirect, MathFlags
  <2>3. SameModRM(op, m) /\ ~Mislisted(op, m) /\ ModRMShown(op, m) = m
    BY <1>1, <1>20, <2>1, <2>2 DEF SameModRM, DecodeReadsModRM, ModRMShown, Mislisted, ShortJumps, NearJumps, FarJumps, FarIndirect, MathFlags
  <2>4. Size(ShownWide(op)) = Size(Wide(op))
    BY <1>1, <1>20 DEF ShownWide, Size, Wide
  <2>5. Outs({"RDMOD", "IMM", "RM"}, m, ShownWide(op)) = Displacement(m) + Size(ShownWide(op))
    BY <1>2, ShownBytes, Zenon
  <2>6. Outs(Flags(op, m), ModRMShown(op, m), ShownWide(op))
          = (IF HasModRM(op) THEN Displacement(m) ELSE 0) + Immediate(op, m)
    BY <1>1, <1>2, <2>1, <2>2, <2>3, <2>4, <2>5
  <2> QED
    BY <2>3, <2>6, PartsAgree, Zenon
<1>21. CASE op \in \hd0 .. \hd3
  <2>1. Flags(op, m) = {"RM"}
    BY <1>1, <1>21 DEF Flags, ShortJumps, NearJumps, FarJumps, FarIndirect, MathFlags
  <2>2. HasModRM(op) /\ Immediate(op, m) = 0
    BY <1>1, <1>21 DEF HasModRM, Immediate, ShortJumps, NearJumps, FarJumps, FarIndirect, MathFlags
  <2>3. SameModRM(op, m) /\ ~Mislisted(op, m) /\ ModRMShown(op, m) = m
    BY <1>1, <1>21, <2>1, <2>2 DEF SameModRM, DecodeReadsModRM, ModRMShown, Mislisted, ShortJumps, NearJumps, FarJumps, FarIndirect, MathFlags
  <2>5. Outs({"RM"}, m, ShownWide(op)) = Displacement(m)
    BY <1>2, ShownBytes, Zenon
  <2>6. Outs(Flags(op, m), ModRMShown(op, m), ShownWide(op))
          = (IF HasModRM(op) THEN Displacement(m) ELSE 0) + Immediate(op, m)
    BY <1>1, <1>2, <2>1, <2>2, <2>3, <2>5
  <2> QED
    BY <2>3, <2>6, PartsAgree, Zenon
<1>22. CASE op \in {\hf6, \hf7} /\ Reg(m) < 2
  <2>1. Flags(op, m) = {"IMM", "RM"}
    BY <1>1, <1>22 DEF Flags, ShortJumps, NearJumps, FarJumps, FarIndirect, MathFlags
  <2>2. HasModRM(op) /\ Immediate(op, m) = Size(Wide(op))
    BY <1>1, <1>22 DEF HasModRM, Immediate, ShortJumps, NearJumps, FarJumps, FarIndirect, MathFlags
  <2>3. SameModRM(op, m) /\ ~Mislisted(op, m) /\ ModRMShown(op, m) = m
    BY <1>1, <1>22, <2>1, <2>2 DEF SameModRM, DecodeReadsModRM, ModRMShown, Mislisted, ShortJumps, NearJumps, FarJumps, FarIndirect, MathFlags
  <2>4. Size(ShownWide(op)) = Size(Wide(op))
    BY <1>1, <1>22 DEF ShownWide, Size, Wide
  <2>5. Outs({"IMM", "RM"}, m, ShownWide(op)) = Displacement(m) + Size(ShownWide(op))
    BY <1>2, ShownBytes, Zenon
  <2>6. Outs(Flags(op, m), ModRMShown(op, m), ShownWide(op))
          = (IF HasModRM(op) THEN Displacement(m) ELSE 0) + Immediate(op, m)
    BY <1>1, <1>2, <2>1, <2>2, <2>3, <2>4, <2>5
  <2> QED
    BY <2>3, <2>6, PartsAgree, Zenon
<1>23. CASE op \in {\hf6, \hf7} /\ ~(Reg(m) < 2)
  <2>1. Flags(op, m) = {"RM"}
    BY <1>1, <1>23 DEF Flags, ShortJumps, NearJumps, FarJumps, FarIndirect, MathFlags
  <2>2. HasModRM(op) /\ Immediate(op, m) = 0
    BY <1>1, <1>23 DEF HasModRM, Immediate, ShortJumps, NearJumps, FarJumps, FarIndirect, MathFlags
  <2>3. SameModRM(op, m) /\ ~Mislisted(op, m) /\ ModRMShown(op, m) = m
    BY <1>1, <1>23, <2>1, <2>2 DEF SameModRM, DecodeReadsModRM, ModRMShown, Mislisted, ShortJumps, NearJumps, FarJumps, FarIndirect, MathFlags
  <2>5. Outs({"RM"}, m, ShownWide(op)) = Displacement(m)
    BY <1>2, ShownBytes, Zenon
  <2>6. Outs(Flags(op, m), ModRMShown(op, m), ShownWide(op))
          = (IF HasModRM(op) THEN Displacement(m) ELSE 0) + Immediate(op, m)
    BY <1>1, <1>2, <2>1, <2>2, <2>3, <2>5
  <2> QED
    BY <2>3, <2>6, PartsAgree, Zenon
<1>24. CASE op \in NearJumps
  <2>1. Flags(op, m) = {"JMP", "WORD"}
    BY <1>1, <1>24 DEF Flags, ShortJumps, NearJumps, FarJumps, FarIndirect, MathFlags
  <2>2. ~HasModRM(op) /\ Immediate(op, m) = 2
    BY <1>1, <1>24 DEF HasModRM, Immediate, ShortJumps, NearJumps, FarJumps, FarIndirect, MathFlags
  <2>3. SameModRM(op, m) /\ ~Mislisted(op, m) /\ ModRMShown(op, m) = m
    BY <1>1, <1>24, <2>1, <2>2 DEF SameModRM, DecodeReadsModRM, ModRMShown, Mislisted, ShortJumps, NearJumps, FarJumps, FarIndirect, MathFlags
  <2>5. Outs({"JMP", "WORD"}, m, ShownWide(op)) = 2
    BY <1>2, ShownBytes, Zenon
  <2>6. Outs(Flags(op, m), ModRMShown(op, m), ShownWide(op))
          = (IF HasModRM(op) THEN Displacement(m) ELSE 0) + Immediate(op, m)
    BY <1>1, <1>2, <2>1, <2>2, <2>3, <2>5
  <2> QED
    BY <2>3, <2>6, PartsAgree, Zenon
<1>25. CASE op = \hfe \/ (op = \hff /\ Reg(m) \notin {3, 5})
  <2>1. Flags(op, m) = {"RM"}
    BY <1>1, <1>25 DEF Flags, ShortJumps, NearJumps, FarJumps, FarIndirect, MathFlags, Invalid, InvalidOpcodes
  <2>2. HasModRM(op) /\ Immediate(op, m) = 0
    BY <1>1, <1>25 DEF HasModRM, Immediate, ShortJumps, NearJumps, FarJumps, FarIndirect, MathFlags
  <2>3. SameModRM(op, m) /\ ~Mislisted(op, m) /\ ModRMShown(op, m) = m
    BY <1>1, <1>25, <2>1, <2>2 DEF SameModRM, DecodeReadsModRM, ModRMShown, Mislisted, ShortJumps, NearJumps, FarJumps, FarIndirect, MathFlags
  <2>5. Outs({"RM"}, m, ShownWide(op)) = Displacement(m)
    BY <1>2, ShownBytes, Zenon
  <2>6. Outs(Flags(op, m), ModRMShown(op, m), ShownWide(op))
          = (IF HasModRM(op) THEN Displacement(m) ELSE 0) + Immediate(op, m)
    BY <1>1, <1>2, <2>1, <2>2, <2>3, <2>5
  <2> QED
    BY <2>3, <2>6, PartsAgree, Zenon
<1>26. CASE op \in {\hd4, \hd5}
  <2>1. /\ Flags(op, m) = {} /\ ~HasModRM(op) /\ Immediate(op, m) = 1 /\ Mislisted(op, m)
        /\ ~DecodeReadsModRM(op) /\ ModRMShown(op, m) = m
    BY <1>1, <1>26 DEF Flags, HasModRM, Immediate, Mislisted, DecodeReadsModRM, ModRMShown, ShortJumps,
       NearJumps, FarJumps, FarIndirect
  <2> QED
    BY <1>1, <1>2, <2>1, ShownBytes DEF Agree, Length, ShownLength
<1>27. CASE op \in \hec .. \hef
  <2>1. /\ Flags(op, m) = {"OPS2"} /\ ~HasModRM(op) /\ Immediate(op, m) = 0
        /\ ModRMShown(op, m) = \hd0
    BY <1>1, <1>27 DEF Flags, HasModRM, Immediate, ModRMShown, ShortJumps, NearJumps, FarJumps, FarIndirect
  <2>2. SameModRM(op, m) /\ ~Mislisted(op, m)
    BY <1>1, <1>27, <2>1 DEF SameModRM, DecodeReadsModRM, Mislisted, FarIndirect
  <2>3. \hd0 \in Byte /\ Displacement(\hd0) = 0
    BY DEF Displacement, Mod, Byte
  <2>4. Outs({"OPS2"}, \hd0, ShownWide(op)) = 0
    BY <1>2, <2>3, ShownBytes
  <2>5. Outs(Flags(op, m), ModRMShown(op, m), ShownWide(op))
          = (IF HasModRM(op) THEN Displacement(m) ELSE 0) + Immediate(op, m)
    BY <2>1, <2>4
  <2> QED
    BY <2>2, <2>5, PartsAgree, Zenon
<1>28. CASE FarIndirect(op, m)
  <2>1. op = \hff /\ Reg(m) \in {3, 5}
    BY <1>28 DEF FarIndirect
  <2>2. HasModRM(op) /\ DecodeReadsModRM(op)
    BY <2>1 DEF HasModRM, DecodeReadsModRM
  <2>3. Immediate(op, m) = 0 /\ ModRMShown(op, m) = m
    BY <2>1, <1>1 DEF Immediate, ModRMShown
  <2>4. Flags(op, m) = {"JMP", "WORD"}
    BY <1>1, <2>1 DEF Flags, ShortJumps, NearJumps, FarJumps, FarIndirect, MathFlags
  <2>5. Mislisted(op, m) <=> Displacement(m) # 2
    BY <2>1, <1>28 DEF Mislisted
  <2>6. Outs({"JMP", "WORD"}, m, ShownWide(op)) = 2
    BY <1>2, ShownBytes, Zenon
  <2>7. ShownLength(op, m) = 4 /\ Length(op, m) = 2 + Displacement(m)
    BY <1>1, <2>2, <2>3, <2>4, <2>6 DEF Length, ShownLength
  <2> QED
    BY <1>1, <1>28, <2>5, <2>7 DEF Agree
<1> QED
  <2>1. op \notin InvalidOpcodes /\ op \notin {\hcc, \hce}
    BY DEF Invalid, Trap
  <2> QED
    BY <1>1, <2>1, <1>3, <1>4, <1>5, <1>6, <1>7, <1>8, <1>9, <1>10, <1>11, <1>12, <1>13, <1>14, <1>15, <1>16, <1>17, <1>18, <1>19, <1>20, <1>21, <1>22, <1>23, <1>24, <1>25, <1>26, <1>27, <1>28
    DEF InvalidOpcodes, Plain, ShortJumps, NearJumps, FarJumps, FarIndirect

-----------------------------------------------------------------------------
(* The search by itself.                                                     *)

\* No entry before the i-th is of the section.
NoneBefore(i) == \A j \in 1 .. i - 1 : ~Is(section, j)

\* What the loops know of the cursors.  The table's end is not of any section, so that
\* neither loop goes past it; the entry at lastp is at or below the address unless it is
\* the first of its section.
Cursors ==
    /\ lastp \in DOMAIN syms /\ p \in DOMAIN syms
    /\ search = "skip" => syms[lastp].type # "end" /\ NoneBefore(lastp)
    /\ search \in {"scan", "named"} =>
         /\ Is(section, lastp) /\ p = lastp + 1
         /\ syms[lastp].at <= addr \/ NoneBefore(lastp)
    /\ search = "named" => Beyond
    /\ search = "hex" => \A i \in DOMAIN syms : ~Is(section, i)

SearchInv == SymbolsTypeOK /\ Cursors

\* What a table says of its entries.
LEMMA TableFacts ==
    ASSUME Table
    PROVE  /\ Len(syms) \in Nat /\ Len(syms) > 1 /\ DOMAIN syms = 1 .. Len(syms)
           /\ \A i \in 1 .. Len(syms) : syms[i] \in Entry
           /\ \A i \in 1 .. Len(syms) : syms[i].type = "end" <=> i = Len(syms)
           /\ \A i \in 1 .. Len(syms) : syms[i].at \in Int
<1>1. syms \in Seq(Entry) /\ Len(syms) > 1
  BY DEF Table
<1>2. Len(syms) \in Nat /\ DOMAIN syms = 1 .. Len(syms)
  BY <1>1
<1>3. \A i \in 1 .. Len(syms) : syms[i] \in Entry
  BY <1>1, <1>2
<1>4. \A i \in 1 .. Len(syms) : syms[i].type = "end" <=> i = Len(syms)
  BY <1>2, Zenon DEF Table
<1>5. \A e \in Entry : e.at \in 0 .. WordMod - 1
  BY Zenon DEF Entry
<1>6. \A i \in 1 .. Len(syms) : syms[i].at \in Int
  BY <1>3, <1>5, SymbolsAssumption
<1> QED
  BY <1>1, <1>2, <1>3, <1>4, <1>6

\* The first entry is a symbol.
LEMMA FirstEntryFacts ==
    ASSUME Table
    PROVE  1 \in DOMAIN syms /\ syms[1].type # "end"
<1> DEFINE n == Len(syms)
<1>1. /\ n \in Nat /\ n > 1 /\ DOMAIN syms = 1 .. n
      /\ \A i \in 1 .. n : syms[i].type = "end" <=> i = n
  BY TableFacts, Zenon
<1> HIDE DEF n
<1>2. 1 \in 1 .. n /\ 1 # n
  BY <1>1
<1> QED
  BY <1>1, <1>2, Zenon

LEMMA TableKept ==
    ASSUME Table, syms' = syms
    PROVE  Table'
  BY Zenon DEF Table, Is

\* The entry that marks the end is of no section.
LEMMA EndIsNone ==
    ASSUME Table, NEW s \in Sections, NEW i \in DOMAIN syms, Is(s, i)
    PROVE  i # Len(syms) /\ syms[i].type # "end"
<1>1. \A t \in Sections : "end" \notin Types[t]
  BY DEF Sections, Types
<1> QED
  BY <1>1, TableFacts DEF Is

LEMMA InitSearch == SymbolsInit => SearchInv
<1> SUFFICES ASSUME SymbolsInit PROVE SearchInv
  OBVIOUS
<1>1. 0 \in 0 .. WordMod - 1 /\ "text" \in Sections
  BY SymbolsAssumption DEF Sections, Types
<1>2. 1 \in DOMAIN syms
  BY FirstEntryFacts DEF SymbolsInit
<1> QED
  BY <1>1, <1>2 DEF SymbolsInit, SearchInv, SymbolsTypeOK, Cursors

LEMMA LookupSearch ==
    ASSUME SearchInv, NEW a \in 0 .. WordMod - 1, NEW s \in Sections, Lookup(a, s)
    PROVE  SearchInv'
<1>1. Table /\ Table'
  BY TableKept DEF SearchInv, SymbolsTypeOK, Lookup
<1>2. 1 \in DOMAIN syms /\ syms[1].type # "end"
  BY <1>1, FirstEntryFacts
<1>3. SymbolsTypeOK'
  BY <1>1 DEF Lookup, SymbolsTypeOK
<1>4. Cursors'
  BY <1>2 DEF Lookup, Cursors, NoneBefore
<1> QED
  BY <1>3, <1>4 DEF SearchInv

LEMMA SkipEntrySearch ==
    ASSUME SearchInv, SkipEntry
    PROVE  SearchInv'
<1> DEFINE n == Len(syms)
<1>1. /\ Table /\ Table' /\ lastp \in 1 .. n /\ p \in 1 .. n /\ n \in Nat
      /\ section \in Sections
  BY TableFacts, TableKept DEF SearchInv, SymbolsTypeOK, Cursors, SkipEntry
<1>2. lastp # n
  BY <1>1, TableFacts DEF SearchInv, Cursors, SkipEntry
<1>3. lastp' = lastp + 1 /\ lastp' \in 1 .. n /\ syms' = syms /\ section' = section /\ p' = p
  BY <1>1, <1>2 DEF SkipEntry
<1>4. \A j \in 1 .. lastp : ~Is(section, j)
  BY <1>1 DEF SearchInv, Cursors, SkipEntry, NoneBefore
<1>5. search' \in {"skip", "hex"} /\ (search' = "hex" <=> syms[lastp + 1].type = "end")
  BY DEF SkipEntry
<1>6. SymbolsTypeOK'
  BY <1>1, <1>3, <1>5 DEF SymbolsTypeOK, SearchInv, SkipEntry
<1>7. search' = "hex" => \A i \in 1 .. n : ~Is(section, i)
  <2>1. SUFFICES ASSUME search' = "hex" PROVE \A i \in 1 .. n : ~Is(section, i)
    OBVIOUS
  <2>2. lastp + 1 = n
    BY <1>1, <1>3, <1>5, <2>1, TableFacts
  <2>3. ~Is(section, n)
    BY <1>1, <1>3, <2>2, EndIsNone, TableFacts
  <2> QED
    BY <1>1, <1>4, <2>2, <2>3
<1>8. search' = "skip" => syms[lastp'].type # "end" /\ NoneBefore(lastp)
                          /\ \A j \in 1 .. lastp' - 1 : ~Is(section, j)
  BY <1>1, <1>3, <1>4, <1>5 DEF NoneBefore
<1>9. Cursors'
  BY <1>1, <1>3, <1>5, <1>7, <1>8, TableFacts DEF Cursors, NoneBefore, Is
<1> QED
  BY <1>6, <1>9 DEF SearchInv

LEMMA ScanSearch ==
    ASSUME SearchInv, FirstEntry \/ Advance \/ Stop
    PROVE  SearchInv'
<1> DEFINE n == Len(syms)
<1>1. /\ Table /\ Table' /\ lastp \in 1 .. n /\ p \in 1 .. n /\ n \in Nat
      /\ section \in Sections /\ addr \in Int
      /\ syms' = syms /\ section' = section /\ addr' = addr
  <2>1. syms' = syms /\ section' = section /\ addr' = addr
    BY DEF FirstEntry, Advance, Stop
  <2>2. Table /\ Table' /\ section \in Sections /\ lastp \in DOMAIN syms /\ p \in DOMAIN syms
    BY <2>1, TableKept, Zenon DEF SearchInv, SymbolsTypeOK, Cursors
  <2>3. addr \in Int
    BY SymbolsAssumption DEF SearchInv, SymbolsTypeOK
  <2>4. n \in Nat /\ DOMAIN syms = 1 .. n
    BY <2>2, TableFacts, Zenon
  <2> QED
    BY <2>1, <2>2, <2>3, <2>4, Zenon
<1>2. DOMAIN syms = 1 .. n
  BY <1>1, TableFacts
<1>3. CASE FirstEntry
  <2>1. Is(section, lastp) /\ lastp # n /\ NoneBefore(lastp)
    BY <1>1, <1>2, <1>3, EndIsNone DEF FirstEntry, SearchInv, Cursors
  <2>2. p' = lastp + 1 /\ lastp' = lastp /\ search' = "scan" /\ p' \in 1 .. n
    BY <1>1, <1>3, <2>1 DEF FirstEntry
  <2>3. SymbolsTypeOK'
    BY <1>1, <2>2 DEF SymbolsTypeOK, SearchInv
  <2>4. Cursors'
    BY <1>1, <1>2, <2>1, <2>2 DEF Cursors, NoneBefore, Is
  <2> QED
    BY <2>3, <2>4 DEF SearchInv
<1>4. CASE Advance
  <2>1. /\ Is(section, p) /\ ~(addr < syms[p].at)
        /\ lastp' = p /\ p' = p + 1 /\ search' = "scan" /\ search = "scan"
    BY <1>4 DEF Advance, Beyond
  <2>2. p # n /\ syms[p].at <= addr
    <3>1. p # n
      BY <1>1, <1>2, <2>1, EndIsNone, Zenon
    <3>2. syms[p].at \in Int
      BY <1>1, TableFacts, Zenon
    <3> QED
      BY <1>1, <2>1, <3>1, <3>2
  <2>3. p' \in 1 .. n
    BY <1>1, <2>1, <2>2
  <2>4. SymbolsTypeOK'
    BY <1>1, <2>1, <2>3 DEF SymbolsTypeOK, SearchInv
  <2>5. Cursors'
    BY <1>1, <1>2, <2>1, <2>2, <2>3 DEF Cursors, NoneBefore, Is
  <2> QED
    BY <2>4, <2>5 DEF SearchInv
<1>5. CASE Stop
  <2>1. lastp' = lastp /\ p' = p /\ search = "scan" /\ search' = "named" /\ Beyond
    BY <1>5 DEF Stop
  <2>2. SymbolsTypeOK'
    BY <1>1, <2>1 DEF SymbolsTypeOK, SearchInv
  <2>3. Cursors'
    BY <1>1, <2>1 DEF SearchInv, Cursors, NoneBefore, Is, Beyond
  <2> QED
    BY <2>2, <2>3 DEF SearchInv
<1> QED
  BY <1>3, <1>4, <1>5

LEMMA NextSearch ==
    ASSUME SearchInv, [SymbolsNext]_symbolsVars
    PROVE  SearchInv'
<1>1. CASE UNCHANGED symbolsVars
  BY <1>1 DEF symbolsVars, SearchInv, SymbolsTypeOK, Table, Cursors, NoneBefore, Is, Beyond
<1> QED
  BY <1>1, LookupSearch, SkipEntrySearch, ScanSearch DEF SymbolsNext, SearchStep

-----------------------------------------------------------------------------
(* What the invariant says of an answer.                                     *)

LEMMA SearchInTable == SearchInv => StaysInTable
<1> SUFFICES ASSUME SearchInv, search \in {"scan", "named"} PROVE syms[lastp].type # "end"
  BY DEF SearchInv, Cursors, StaysInTable
<1> QED
  BY EndIsNone DEF SearchInv, SymbolsTypeOK, Cursors

\* Where the scan stops, no later entry of the section is at or below the address: the
\* next one is above it, or the section ends before it.
LEMMA SearchNearest == SearchInv => NamedByNearest
<1> SUFFICES ASSUME SearchInv PROVE NamedByNearest
  OBVIOUS
<1>a. search = "hex" => \A i \in DOMAIN syms : ~Is(section, i)
  BY DEF SearchInv, Cursors
<1>b. search = "named" => Is(section, lastp)
  BY DEF SearchInv, Cursors
<1> SUFFICES ASSUME search = "named", NEW i \in DOMAIN syms, Is(section, i)
             PROVE  IF syms[lastp].at <= addr
                      THEN syms[i].at <= addr => i <= lastp
                      ELSE lastp <= i
  BY <1>a, <1>b DEF NamedByNearest
<1> DEFINE n == Len(syms)
<1>1. /\ Table /\ n \in Nat /\ DOMAIN syms = 1 .. n /\ section \in Sections /\ addr \in Int
      /\ \A k \in 1 .. n : syms[k].at \in Int
  <2>1. Table /\ section \in Sections
    BY DEF SearchInv, SymbolsTypeOK
  <2>2. addr \in Int
    BY SymbolsAssumption DEF SearchInv, SymbolsTypeOK
  <2>3. n \in Nat /\ DOMAIN syms = 1 .. n /\ \A k \in 1 .. n : syms[k].at \in Int
    BY <2>1, TableFacts, Zenon
  <2> QED
    BY <2>1, <2>2, <2>3, Zenon
<1>2. /\ lastp \in 1 .. n /\ p \in 1 .. n /\ p = lastp + 1 /\ Is(section, lastp) /\ Beyond
      /\ syms[lastp].at <= addr \/ NoneBefore(lastp)
  BY <1>1 DEF SearchInv, Cursors
<1>3. CASE syms[lastp].at <= addr
  <2>1. SUFFICES ASSUME syms[i].at <= addr, lastp < i PROVE FALSE
    BY <1>1, <1>2, <1>3
  <2>2. p \in lastp .. i
    BY <1>1, <1>2, <2>1
  <2>3. Is(section, p)
    BY <1>1, <1>2, <2>1, <2>2 DEF Table
  <2>4. syms[p].at <= syms[i].at
    BY <1>1, <1>2, <2>1, <2>2, <2>3, SMTT(60) DEF Table
  <2> QED
    BY <1>1, <1>2, <2>1, <2>3, <2>4 DEF Beyond
<1>4. CASE ~(syms[lastp].at <= addr)
  BY <1>1, <1>2, <1>4 DEF NoneBefore
<1> QED
  BY <1>2, <1>3, <1>4

\* A search stays inside the table, whatever the table and the address, and never reads
\* the entry that marks its end as a symbol.
THEOREM SearchStaysInTable == SymbolsSpec => []StaysInTable
<1>1. SearchInv /\ [SymbolsNext]_symbolsVars => SearchInv'
  BY NextSearch
<1> QED
  BY InitSearch, <1>1, SearchInTable, PTL DEF SymbolsSpec

\* The symbol found is the nearest one.
THEOREM SearchFindsNearest == SymbolsSpec => []NamedByNearest
<1>1. SearchInv /\ [SymbolsNext]_symbolsVars => SearchInv'
  BY NextSearch
<1> QED
  BY InitSearch, <1>1, SearchNearest, PTL DEF SymbolsSpec

-----------------------------------------------------------------------------
(* The loop of main().                                                       *)

\* Between a line and the instruction it shows nothing moves: its bytes, its end and its
\* target are still those of the instruction.
LineShown ==
    phase = "execute" =>
        /\ line.op = Op /\ line.m = M
        /\ line.next = ip + ShownLength(Op, M)

TargetShown == phase = "execute" => line.target = ShownTarget(Op, line.next)

\* What TypeOK leaves to the disassembler and the search.
Inv ==
    /\ TypeOK /\ SearchInv
    /\ LineShown /\ TargetShown
    /\ phase = "show" => ~Searching
    /\ LengthsAgree

\* Bytes and words fetched.
LEMMA FetchFacts ==
    ASSUME Code, NEW off \in Int
    PROVE  /\ At(off) \in Byte
           /\ WordAt(off) \in Word
           /\ Signed(At(off)) \in Int
<1>1. \A k \in Int : At(k) \in Byte
  <2>1. SUFFICES ASSUME NEW k \in Int PROVE At(k) \in Byte
    OBVIOUS
  <2>2. Readable(1, k) => ToWord(k) \in DOMAIN text
    <3>1. 0 \in 0 .. 1 - 1 /\ k + 0 = k
      BY <2>1
    <3> QED
      BY <3>1, Zenon DEF Readable
  <2>3. 0 \in Byte
    BY DEF Byte
  <2> QED
    BY <2>2, <2>3, Zenon DEF At, Code
<1>2. WordAt(off) \in Word
  <2>1. At(off) \in Byte /\ At(off + 1) \in Byte
    BY <1>1
  <2>2. At(off) + 256 * At(off + 1) < WordMod
    BY <2>1, ListingAssumption, Zenon
  <2>3. At(off) + 256 * At(off + 1) \in Nat
    <3>1. \A a, b \in Byte : a + 256 * b \in Nat
      BY DEF Byte
    <3> QED
      BY <2>1, <3>1, Zenon
  <2>4. At(off) + 256 * At(off + 1) \in Word
    BY <2>2, <2>3, SymbolsAssumption DEF Word
  <2> QED
    BY <2>4, Zenon DEF WordAt
<1>3. Signed(At(off)) \in Int
  BY <1>1 DEF Signed, Byte
<1> QED
  BY <1>1, <1>2, <1>3

\* Two ends within six bytes of a start are the same Word only if they are the same.
LEMMA SameEnd ==
    ASSUME NEW i \in Word, NEW a \in 1 .. 6, NEW b \in 1 .. 6, ToWord(i + a) = ToWord(i + b)
    PROVE  a = b
<1>1. WordMod \in Nat /\ WordMod > 6
  <2>1. 255 \in Byte /\ 0 \in Byte
    BY DEF Byte
  <2> QED
    BY <2>1, SymbolsAssumption, ListingAssumption
<1>2. ASSUME NEW n \in Int, 0 <= n, n < 2 * WordMod
      PROVE  n % WordMod = (IF n < WordMod THEN n ELSE n - WordMod)
  BY <1>1, <1>2, SMT
<1> QED
  BY <1>1, <1>2 DEF ToWord, Word

\* Numbers that are full turns of a Word apart are the same Word.
LEMMA FullTurns ==
    ASSUME NEW x \in Int, NEW y \in Int, NEW k \in Int, x = y + WordMod * k
    PROVE  ToWord(x) = ToWord(y)
<1> DEFINE w == WordMod
<1>1. w \in Nat /\ w > 0
  BY SymbolsAssumption
<1>2. ASSUME NEW d \in Int, -w < w * d, w * d < w
      PROVE  d = 0
  <2>1. ASSUME d >= 1 PROVE FALSE
    <3>1. w * (d - 1) >= 0 /\ w * (d - 1) = w * d - w
      BY <1>1, <2>1, SMT
    <3> QED
      BY <1>1, <1>2, <3>1
  <2>2. ASSUME d <= -1 PROVE FALSE
    <3>1. w * (-1 - d) >= 0 /\ w * (-1 - d) = -w - w * d
      BY <1>1, <2>2, SMT
    <3> QED
      BY <1>1, <1>2, <3>1
  <2> QED
    BY <2>1, <2>2
<1> DEFINE q == x \div w
           r == x % w
           t == y \div w
           u == y % w
<1>3. /\ x = w * q + r /\ q \in Int /\ r \in 0 .. w - 1
      /\ y = w * t + u /\ t \in Int /\ u \in 0 .. w - 1
  BY <1>1
<1>4. x = y + w * k
  OBVIOUS
<1> HIDE DEF w, q, r, t, u
<1> DEFINE d == q - (t + k)
<1>5. w * d = w * q - (w * t + w * k) /\ d \in Int
  BY <1>1, <1>3
<1>6. w * d = u - r
  <2> DEFINE wd == w * d
             wq == w * q
             wt == w * t
             wk == w * k
  <2>1. /\ x = wq + r /\ y = wt + u /\ x = y + wk /\ wd = wq - (wt + wk)
        /\ wq \in Int /\ wt \in Int /\ wk \in Int
    BY <1>1, <1>3, <1>4, <1>5
  <2> HIDE DEF wd, wq, wt, wk
  <2>2. wd = u - r
    BY <1>3, <2>1
  <2> QED
    BY <2>2 DEF wd
<1>7. d = 0
  <2> HIDE DEF d
  <2>1. -w < u - r /\ u - r < w
    BY <1>1, <1>3
  <2> QED
    BY <1>2, <1>5, <1>6, <2>1
<1>8. r = u
  BY <1>1, <1>3, <1>6, <1>7
<1> QED
  BY <1>8, Zenon DEF ToWord, r, u, w

\* A displacement added past a reduced end comes to the same Word.
LEMMA AddReduced ==
    ASSUME NEW e \in Int, NEW d \in Int
    PROVE  /\ ToWord(ToWord(e) + d) = ToWord(e + d)
           /\ ToWord(e) \in Word
           /\ e \in Word <=> ToWord(e) = e
<1>1. WordMod \in Nat /\ WordMod > 0
  BY SymbolsAssumption
<1> DEFINE r == e % WordMod
<1>2. r \in 0 .. WordMod - 1
  BY <1>1, SMT
<1>3. ToWord(r + d) = ToWord(e + d)
  <2> DEFINE q == e \div WordMod
             y == WordMod * q
  <2>1. e = y + r /\ y \in Int /\ q \in Int
    BY <1>1
  <2>2. y = WordMod * q
    OBVIOUS
  <2> HIDE DEF y, q, r
  <2>3. /\ e + d = (r + d) + y
        /\ e + d \in Int /\ r + d \in Int
    BY <1>1, <1>2, <2>1
  <2> QED
    BY <2>1, <2>2, <2>3, FullTurns
<1>4. e \in Word <=> r = e
  BY <1>1, <1>2, SMT DEF Word
<1> HIDE DEF r
<1>5. r \in Word
  BY <1>2 DEF Word
<1> QED
  BY <1>3, <1>4, <1>5, Zenon DEF ToWord, r

\* No instruction is longer than six bytes, shown or executed.
LEMMA LengthFacts ==
    ASSUME NEW op \in Byte, NEW m \in Byte, ~Invalid(op, m), ~Trap(op)
    PROVE  Length(op, m) \in 1 .. 6
<1>1. Displacement(m) \in 0 .. 2
  BY FieldTypes
<1>2. Immediate(op, m) \in 0 .. 4 /\ (HasModRM(op) => Immediate(op, m) \in 0 .. 2)
  BY SMT DEF Immediate, Size, HasModRM, Byte
<1> QED
  BY <1>1, <1>2 DEF Length

\* The sets of flags that decode() gives.
FlagSets ==
    { {}, {"IMM"}, {"RDMOD", "OPS2"}, {"RDMOD", "RM"}, {"RM"}, {"OPS2"}, {"RDMOD", "IMM", "RM"},
      {"IMM", "RM"}, {"IMM", "RM", "WORD"}, {"IMM", "RM", "SBYTE"}, {"IMM", "RM", "BYTE"},
      {"IMM", "BYTE"}, {"JMP", "SBYTE"}, {"JMP", "WORD"}, {"JMP", "DWORD"}, {"MEMWORD"}, {"WORD"} }

LEMMA ShownFacts ==
    ASSUME NEW op \in Byte, NEW m \in Byte
    PROVE  ShownLength(op, m) \in 1 .. 6
<1>1. Flags(op, m) \in FlagSets
  BY SMT DEF Flags, MathFlags, FlagSets
<1>2. ModRMShown(op, m) \in Byte /\ ShownWide(op) \in BOOLEAN
  <2>1. \hd0 \in Byte
    BY DEF Byte
  <2> QED
    BY <2>1, Zenon DEF ModRMShown, ShownWide, Wide
<1>3. ASSUME NEW fl \in FlagSets, NEW k \in Byte, NEW w \in BOOLEAN
      PROVE  Outs(fl, k, w) \in 0 .. 4
  <2>1. Displacement(k) \in 0 .. 2 /\ Size(w) \in 1 .. 2
    BY FieldTypes DEF Size
  <2>3. /\ 0 \in 0 .. 4 /\ 1 \in 0 .. 4 /\ 2 \in 0 .. 4 /\ 4 \in 0 .. 4
        /\ Size(w) \in 0 .. 4 /\ Displacement(k) \in 0 .. 4
        /\ Displacement(k) + Size(w) \in 0 .. 4
        /\ Displacement(k) + 1 \in 0 .. 4 /\ Displacement(k) + 2 \in 0 .. 4
    BY <2>1
  <2>4. CASE fl = {}
    BY <2>3, <2>4, ShownBytes, Zenon
  <2>5. CASE fl = {"IMM"}
    BY <2>3, <2>5, ShownBytes, Zenon
  <2>6. CASE fl = {"RDMOD", "OPS2"}
    BY <2>3, <2>6, ShownBytes, Zenon
  <2>7. CASE fl = {"RDMOD", "RM"}
    BY <2>3, <2>7, ShownBytes, Zenon
  <2>8. CASE fl = {"RM"}
    BY <2>3, <2>8, ShownBytes, Zenon
  <2>9. CASE fl = {"OPS2"}
    BY <2>3, <2>9, ShownBytes, Zenon
  <2>10. CASE fl = {"RDMOD", "IMM", "RM"}
    BY <2>3, <2>10, ShownBytes, Zenon
  <2>11. CASE fl = {"IMM", "RM"}
    BY <2>3, <2>11, ShownBytes, Zenon
  <2>12. CASE fl = {"IMM", "RM", "WORD"}
    BY <2>3, <2>12, ShownBytes, Zenon
  <2>13. CASE fl = {"IMM", "RM", "SBYTE"}
    BY <2>3, <2>13, ShownBytes, Zenon
  <2>14. CASE fl = {"IMM", "RM", "BYTE"}
    BY <2>3, <2>14, ShownBytes, Zenon
  <2>15. CASE fl = {"IMM", "BYTE"}
    BY <2>3, <2>15, ShownBytes, Zenon
  <2>16. CASE fl = {"JMP", "SBYTE"}
    BY <2>3, <2>16, ShownBytes, Zenon
  <2>17. CASE fl = {"JMP", "WORD"}
    BY <2>3, <2>17, ShownBytes, Zenon
  <2>18. CASE fl = {"JMP", "DWORD"}
    BY <2>3, <2>18, ShownBytes, Zenon
  <2>19. CASE fl = {"MEMWORD"}
    BY <2>3, <2>19, ShownBytes, Zenon
  <2>20. CASE fl = {"WORD"}
    BY <2>3, <2>20, ShownBytes, Zenon
  <2> QED
    BY <1>3, <2>4, <2>5, <2>6, <2>7, <2>8, <2>9, <2>10, <2>11, <2>12, <2>13, <2>14, <2>15, <2>16, <2>17, <2>18, <2>19, <2>20, Zenon DEF FlagSets
<1>4. Outs(Flags(op, m), ModRMShown(op, m), ShownWide(op)) \in 0 .. 4
  BY <1>1, <1>2, <1>3
<1> QED
  BY <1>4 DEF ShownLength

\* The address looked up is a Word.
LEMMA NamedFacts ==
    ASSUME Code, ip \in Word, NEW op \in Byte, NEW m \in Byte, NEW next \in Int,
           Named(op, m, next) # None
    PROVE  Named(op, m, next).at \in 0 .. WordMod - 1
<1>1. /\ ip + 1 \in Int /\ ip + 2 \in Int
      /\ \A n \in Int : ToWord(n) \in Word
  BY SymbolsAssumption, SMT DEF Word, ToWord
<1>2. WordAt(ip + 1) \in Word /\ WordAt(ip + 2) \in Word
  BY <1>1, FetchFacts, Zenon
<1>3. \A w \in Word : w \in Int
  BY SymbolsAssumption DEF Word
<1>4. next + WordAt(ip + 1) \in Int
  BY <1>2, <1>3
<1>5. ToWord(next + WordAt(ip + 1)) \in Word
  BY <1>1, <1>4, Zenon
<1>6. CASE op \in NearJumps
  <2>1. op \notin ShortJumps
    BY <1>6 DEF NearJumps, ShortJumps
  <2>2. ShownTarget(op, next) = [seg |-> cs, at |-> ToWord(next + WordAt(ip + 1))]
    BY <1>6, <2>1 DEF ShownTarget, FarJumps, NearJumps
  <2>3. Flags(op, m) = {"JMP", "WORD"} /\ ~FarIndirect(op, m)
    BY <1>6 DEF FarIndirect, NearJumps, FarJumps, Flags, ShortJumps, MathFlags
  <2>4. Flags(op, m) \cap {"OPS2", "RM"} = {} /\ "MEMWORD" \notin Flags(op, m)
    BY <2>3
  <2>5. Named(op, m, next) = ShownTarget(op, next)
    BY <1>6, <2>3, <2>4 DEF Named
  <2> QED
    BY <1>5, <2>2, <2>5 DEF Word
<1>7. CASE op \in FarJumps
  <2>1. ShownTarget(op, next) = [seg |-> WordAt(ip + 3), at |-> WordAt(ip + 1)]
    BY <1>7 DEF ShownTarget, FarJumps, NearJumps, ShortJumps
  <2>2. Flags(op, m) \cap {"OPS2", "RM", "MEMWORD"} = {} /\ ~FarIndirect(op, m)
    BY <1>7 DEF FarIndirect, NearJumps, FarJumps, Flags, ShortJumps, MathFlags
  <2>3. Named(op, m, next) = ShownTarget(op, next)
    BY <1>7, <2>2 DEF Named
  <2> QED
    BY <1>2, <2>1, <2>3 DEF Word
<1>8. CASE op \notin NearJumps \cup FarJumps
  <2>1. Named(op, m, next).at \in {WordAt(ip + 1), WordAt(ip + 2)}
    BY <1>8 DEF Named
  <2> QED
    BY <1>2, <2>1 DEF Word
<1> QED
  BY <1>6, <1>7, <1>8

LEMMA InitInv == Init => Inv
<1> SUFFICES ASSUME Init PROVE Inv
  OBVIOUS
<1>1. SearchInv
  BY InitSearch DEF Init
<1>2. cs \in Word /\ after \in -1 .. WordMod - 1
  BY SymbolsAssumption, ListingAssumption DEF Init, Word
<1>3. line.op \in Byte /\ line.m \in Byte
  BY DEF Init, Byte
<1>4. TypeOK
  BY <1>1, <1>2, <1>3 DEF Init, TypeOK, SearchInv
<1> QED
  BY <1>1, <1>4 DEF Init, Inv, LineShown, TargetShown, LengthsAgree, SymbolsInit, Searching

\* What stays where code and place do.
LEMMA PlaceKept ==
    ASSUME text' = text, cs' = cs, ip' = ip
    PROVE  /\ Op' = Op /\ M' = M /\ (Code => Code')
           /\ ShownTarget(Op, line.next)' = ShownTarget(Op, line'.next)
<1>1. /\ At(ip)' = At(ip) /\ At(ip + 1)' = At(ip + 1)
      /\ WordAt(ip + 1)' = WordAt(ip + 1) /\ WordAt(ip + 3)' = WordAt(ip + 3)
  BY DEF WordAt, At, Readable, ToWord
<1>2. Op' = Op /\ M' = M
  BY <1>1 DEF Op, M
<1>3. Code => Code'
  BY DEF Code, Word
<1>4. ShownTarget(Op, line.next)' = ShownTarget(Op, line'.next)
  BY <1>1, <1>2 DEF ShownTarget, ToWord
<1> QED
  BY <1>2, <1>3, <1>4

LEMMA OpFacts ==
    ASSUME Inv
    PROVE  /\ Code /\ ip \in Word /\ ip \in Int
           /\ Op \in Byte /\ M \in Byte
           /\ ShownLength(Op, M) \in 1 .. 6
<1>1. Code /\ ip \in Word
  BY DEF Inv, TypeOK
<1>2. ip \in Int /\ ip + 1 \in Int
  BY <1>1, SymbolsAssumption DEF Word
<1>3. Op \in Byte /\ M \in Byte
  BY <1>1, <1>2, FetchFacts, Zenon DEF Op, M
<1> QED
  BY <1>1, <1>2, <1>3, ShownFacts, Zenon

LEMMA ShowInv ==
    ASSUME Inv, Show
    PROVE  Inv'
<1> DEFINE next == ip + ShownLength(Op, M)
           named == Named(Op, M, next)
<1>1. /\ Code /\ ip \in Int /\ ip \in Word /\ Op \in Byte /\ M \in Byte
      /\ ShownLength(Op, M) \in 1 .. 6
  BY OpFacts, Zenon
<1>2. /\ line' = [op |-> Op, m |-> M, next |-> next, target |-> ShownTarget(Op, next)]
      /\ phase' = "execute"
      /\ text' = text /\ cs' = cs /\ ip' = ip /\ after' = after /\ status' = status
  BY Zenon DEF Show
<1>3. Op' = Op /\ M' = M /\ Code'
  BY <1>1, <1>2, PlaceKept, Zenon
<1>4. SearchInv'
  <2>1. CASE named = None
    <3>1. search' = "none" /\ UNCHANGED <<syms, addr, section, lastp, p>>
      BY <2>1 DEF Show
    <3> QED
      BY <3>1, TableKept DEF Inv, SearchInv, SymbolsTypeOK, Cursors
  <2>2. CASE named # None
    <3>1. Lookup(named.at, SectionOf(named.seg))
      BY <2>2, Zenon DEF Show
    <3>2. named.at \in 0 .. WordMod - 1
      <4>1. next \in Int
        BY <1>1
      <4> QED
        BY <1>1, <2>2, <4>1, NamedFacts, Zenon
    <3>3. SectionOf(named.seg) \in Sections
      BY DEF SectionOf, Sections, Types
    <3> HIDE DEF named
    <3>4. SearchInv
      BY DEF Inv
    <3> QED
      BY <3>1, <3>2, <3>3, <3>4, LookupSearch, Zenon
  <2> QED
    BY <2>1, <2>2
<1>5. TypeOK'
  BY <1>1, <1>2, <1>3, <1>4 DEF Inv, TypeOK, SearchInv, Word
<1>6. LineShown'
  BY <1>2, <1>3 DEF LineShown
<1>7. TargetShown'
  <2>1. line'.next = next /\ line'.target = ShownTarget(Op, next)
    <3> HIDE DEF next
    <3> QED
      BY <1>2
  <2> HIDE DEF next
  <2>2. ShownTarget(Op, line.next)' = ShownTarget(Op, line'.next)
    BY <1>2, PlaceKept, Zenon
  <2> QED
    BY <2>1, <2>2, Zenon DEF TargetShown
<1> QED
  BY <1>2, <1>4, <1>5, <1>6, <1>7 DEF Inv, LengthsAgree

LEMMA SearchNameInv ==
    ASSUME Inv, SearchName
    PROVE  Inv'
<1>1. SearchInv'
  <2>1. SearchInv /\ SymbolsNext
    BY DEF Inv, SearchName, SymbolsNext
  <2> QED
    BY <2>1, NextSearch, Zenon
<1>2. /\ text' = text /\ cs' = cs /\ ip' = ip /\ phase' = phase /\ line' = line
      /\ after' = after /\ status' = status
  BY DEF SearchName, runVars
<1>3. Op' = Op /\ M' = M /\ Code'
  BY <1>2, PlaceKept DEF Inv, TypeOK
<1>4. TypeOK'
  BY <1>1, <1>2, <1>3 DEF Inv, TypeOK, SearchInv, Word
<1>5. phase # "show"
  BY DEF Inv, SearchName, SearchStep, SkipEntry, FirstEntry, Advance, Stop, Searching
<1>6. LineShown'
  BY <1>2, <1>3 DEF Inv, LineShown
<1>7. TargetShown'
  BY <1>2, PlaceKept, Zenon DEF Inv, TargetShown
<1> QED
  BY <1>1, <1>2, <1>4, <1>5, <1>6, <1>7 DEF Inv, LengthsAgree

\* After an instruction the line and the emulator are compared.
LEMMA ExecutedInv ==
    ASSUME Inv, Executed, ip' \in Word, cs' \in Word
    PROVE  Inv'
<1>1. /\ Code /\ ip \in Int /\ ip \in Word /\ Op \in Byte /\ M \in Byte
      /\ ShownLength(Op, M) \in 1 .. 6
  BY OpFacts, Zenon
<1>2. /\ text' = text /\ line' = line /\ status' = status /\ after' = NextIP
      /\ phase = "execute" /\ phase' = "show" /\ ~Searching
      /\ ~Invalid(Op, M) /\ ~Trap(Op)
      /\ UNCHANGED symbolsVars
  BY Zenon DEF Executed, Completes
<1>3. Length(Op, M) \in 1 .. 6
  BY <1>1, <1>2, LengthFacts, Zenon
<1>4. after' \in Word
  <2>1. ip + Length(Op, M) \in Int
    BY <1>1, <1>3
  <2> QED
    BY <1>2, <2>1, SymbolsAssumption, SMT DEF NextIP, ToWord, Word
<1>5. SearchInv'
  BY <1>2, NextSearch, Zenon DEF Inv
<1>6. TypeOK'
  BY <1>1, <1>2, <1>4, <1>5 DEF Inv, TypeOK, SearchInv, Word, Code
<1>7. LengthsAgree'
  <2>1. line.op = Op /\ line.m = M /\ line.next = ip + ShownLength(Op, M)
    BY <1>2 DEF Inv, LineShown
  <2>2. ShownLength(Op, M) = Length(Op, M) <=> ~Mislisted(Op, M)
    BY <1>1, <1>2, LengthsDiffer, Zenon DEF Agree
  <2>3. NextIP = ToWord(ip + ShownLength(Op, M)) <=> Length(Op, M) = ShownLength(Op, M)
    BY <1>1, <1>3, SameEnd, Zenon DEF NextIP
  <2>4. ToWord(line.next)' = ToWord(line.next)
    BY <1>2 DEF ToWord
  <2> QED
    BY <1>2, <2>1, <2>2, <2>3, <2>4, Zenon DEF LengthsAgree
<1>8. ~Searching'
  BY <1>2 DEF symbolsVars, Searching
<1> QED
  BY <1>2, <1>5, <1>6, <1>7, <1>8 DEF Inv, LineShown, TargetShown

LEMMA JumpsInv ==
    ASSUME Inv, FallThrough \/ Jump
    PROVE  Inv'
<1>1. /\ Executed
      /\ Code /\ ip \in Int /\ Op \in Byte /\ M \in Byte /\ cs \in Word
      /\ \A n \in Int : ToWord(n) \in Word
  <2>1. cs \in Word
    BY DEF Inv, TypeOK
  <2>2. \A n \in Int : ToWord(n) \in Word
    BY SymbolsAssumption, SMT DEF Word, ToWord
  <2> QED
    BY <2>1, <2>2, OpFacts, Zenon DEF FallThrough, Jump
<1>2. NextIP \in Word /\ NextIP \in Int
  <2>1. Length(Op, M) \in 1 .. 6
    BY <1>1, LengthFacts, Zenon DEF Executed, Completes
  <2>2. ip + Length(Op, M) \in Int
    BY <1>1, <2>1
  <2> QED
    BY <1>1, <2>2, SymbolsAssumption DEF NextIP, Word
<1>3. /\ Signed(At(ip + 1)) \in Int /\ WordAt(ip + 1) \in Word /\ WordAt(ip + 3) \in Word
  <2>1. ip + 1 \in Int /\ ip + 3 \in Int
    BY <1>1
  <2> QED
    BY <1>1, <2>1, FetchFacts, Zenon
<1>4. ToWord(NextIP + Signed(At(ip + 1))) \in Word /\ ToWord(NextIP + WordAt(ip + 1)) \in Word
  <2>1. \A w \in Word : w \in Int
    BY SymbolsAssumption DEF Word
  <2>2. NextIP + Signed(At(ip + 1)) \in Int /\ NextIP + WordAt(ip + 1) \in Int
    <3>1. \A a, b \in Int : a + b \in Int
      OBVIOUS
    <3> QED
      BY <1>2, <1>3, <2>1, <3>1, Zenon
  <2> QED
    BY <1>1, <2>2, Zenon
<1>5. Entries \subseteq Word
  BY ListingAssumption, Zenon DEF Word
<1>6. ip' \in Word /\ cs' \in Word
  BY <1>1, <1>2, <1>3, <1>4, <1>5, Zenon DEF FallThrough, Jump
<1> QED
  BY <1>1, <1>6, ExecutedInv, Zenon

LEMMA RestInv ==
    ASSUME Inv, ShowFails \/ ExecuteFails \/ UNCHANGED vars
    PROVE  Inv'
<1>1. /\ text' = text /\ cs' = cs /\ ip' = ip /\ phase' = phase /\ line' = line
      /\ after' = after /\ status' \in {"running", "runtimeError"} /\ UNCHANGED symbolsVars
  BY DEF ShowFails, ExecuteFails, vars, runVars, Inv, TypeOK
<1>2. SearchInv'
  BY <1>1, NextSearch, Zenon DEF Inv
<1>3. Op' = Op /\ M' = M /\ Code'
  BY <1>1, PlaceKept DEF Inv, TypeOK
<1>4. TypeOK'
  BY <1>1, <1>2, <1>3 DEF Inv, TypeOK, SearchInv, Word
<1>5. LineShown' /\ LengthsAgree' /\ (phase' = "show" => ~Searching')
  BY <1>1, <1>3 DEF Inv, LineShown, LengthsAgree, symbolsVars, Searching, ToWord
<1>6. TargetShown'
  BY <1>1, PlaceKept, Zenon DEF Inv, TargetShown
<1> QED
  BY <1>2, <1>4, <1>5, <1>6 DEF Inv

LEMMA NextInv == Inv /\ [Next]_vars => Inv'
  BY ShowInv, SearchNameInv, JumpsInv, RestInv DEF Next, Exited

LEMMA Invariance == Spec => []Inv
  BY InitInv, NextInv, PTL DEF Spec

-----------------------------------------------------------------------------
(* What follows from the invariant.                                          *)

\* Every state has values of the right types.
THEOREM ListingTypes == Spec => []TypeOK
<1>1. Inv => TypeOK
  BY DEF Inv
<1> QED
  BY <1>1, Invariance, PTL

\* A line ends where the emulator ends the instruction, exactly but for AAM, AAD and far
\* jumps through memory.
THEOREM ListingKeepsStep == Spec => []LengthsAgree
<1>1. Inv => LengthsAgree
  BY DEF Inv
<1> QED
  BY <1>1, Invariance, PTL

\* No instruction overflows its column.
THEOREM ListingFits == Spec => []FitsColumn
<1>1. Inv => FitsColumn
  BY OpFacts DEF Inv, LineShown, FitsColumn
<1> QED
  BY <1>1, Invariance, PTL

\* Addresses are named by the nearest symbol.
THEOREM ListingNames == Spec => [](NamedByNearest /\ StaysInTable)
<1>1. Inv => NamedByNearest /\ StaysInTable
  BY SearchNearest, SearchInTable DEF Inv
<1> QED
  BY <1>1, Invariance, PTL

\* Tracing ends no program that would have gone on, far jumps through memory excepted.
THEOREM TracingIsHarmless == Spec => TraceHarmless
<1>1. Inv /\ [Next]_vars => [ShowFails => ~Completes \/ FarIndirect(Op, M)]_vars
  <2> SUFFICES ASSUME Inv, ShowFails, Completes, ~FarIndirect(Op, M)
               PROVE  FALSE
    OBVIOUS
  <2>1. Op \in Byte /\ M \in Byte /\ ShownLength(Op, M) \in Int
    BY OpFacts
  <2>2. ~Invalid(Op, M) /\ ~Trap(Op) /\ Readable(Length(Op, M), ip)
    BY DEF Completes
  <2>3. ShownLength(Op, M) <= Length(Op, M)
    BY <2>1, <2>2, LengthsDiffer, Zenon DEF Agree
  <2>4. Length(Op, M) \in Int
    BY <2>1, <2>2, LengthFacts
  <2>5. Readable(ShownLength(Op, M), ip)
    BY <2>1, <2>2, <2>3, <2>4 DEF Readable
  <2> QED
    BY <2>5 DEF ShowFails
<1> QED
  BY <1>1, Invariance, PTL DEF Spec, TraceHarmless

\* The jumps with an address in the code are executed and shown with the same length, and
\* none of them is one through a register, the stack or memory.
LEMMA JumpsListed ==
    ASSUME NEW op \in Byte, NEW m \in Byte, op \in ShortJumps \cup NearJumps \cup FarJumps
    PROVE  /\ ~Mislisted(op, m) /\ ~Indirect(op, m)
           /\ op \in ShortJumps => op \notin NearJumps \cup FarJumps
           /\ op \in NearJumps => op \notin FarJumps
  BY SMT DEF Mislisted, Indirect, ShortJumps, NearJumps, FarJumps, FarIndirect

\* A jump arrives where its line says, but for the short one that wraps around.
THEOREM TargetsAreRight == Spec => TargetsAgree
<1>1. ASSUME Inv, Jump, line.target # None
      PROVE  line.target = [seg |-> cs', at |-> ip'] <=> line.target.at \in Word
  <2>1. /\ Code /\ ip \in Int /\ Op \in Byte /\ M \in Byte
        /\ ShownLength(Op, M) \in 1 .. 6
    BY <1>1, OpFacts, Zenon
  <2>2. /\ ~Invalid(Op, M) /\ ~Trap(Op)
        /\ phase = "execute"
    BY <1>1, Zenon DEF Jump, Executed, Completes
  <2>3. line.next = ip + ShownLength(Op, M) /\ line.target = ShownTarget(Op, line.next)
    BY <1>1, <2>2 DEF Inv, LineShown, TargetShown
  <2> DEFINE s == Signed(At(ip + 1))
             w == WordAt(ip + 1)
             e == line.next
  <2>4. e \in Int /\ s \in Int /\ w \in Int /\ w \in Word /\ WordAt(ip + 3) \in Word
    <3>1. ip + 1 \in Int /\ ip + 3 \in Int
      BY <2>1
    <3>2. \A k \in Word : k \in Int
      BY SymbolsAssumption DEF Word
    <3>3. ip + ShownLength(Op, M) \in Int
      BY <2>1
    <3> QED
      BY <2>1, <2>3, <3>1, <3>2, <3>3, FetchFacts, Zenon
  <2>5. Op \in ShortJumps \cup NearJumps \cup FarJumps
    BY <1>1, <2>3, Zenon DEF ShownTarget
  <2>6. /\ ~Mislisted(Op, M) /\ ~Indirect(Op, M)
        /\ Op \in ShortJumps => Op \notin NearJumps \cup FarJumps
        /\ Op \in NearJumps => Op \notin FarJumps
    BY <2>1, <2>5, JumpsListed, Zenon
  <2>7. NextIP = ToWord(e)
    BY <2>1, <2>2, <2>3, <2>6, LengthsDiffer, Zenon DEF Agree, NextIP
  <2>8. CASE Op \in ShortJumps
    <3>1. line.target = [seg |-> cs, at |-> e + s]
      <4>1. ShownTarget(Op, e) = [seg |-> cs, at |-> e + s]
        BY <2>6, <2>8, Zenon DEF ShownTarget
      <4> QED
        BY <2>3, <4>1, Zenon
    <3>2. ip' = ToWord(NextIP + s) /\ cs' = cs
      BY <1>1, <2>6, <2>8, Zenon DEF Jump
    <3>3. e + s \in Int
      BY <2>4
    <3>4. ip' = ToWord(e + s)
      BY <2>4, <2>7, <3>2, AddReduced, Zenon
    <3>5. e + s \in Word <=> ip' = e + s
      BY <3>3, <3>4, AddReduced, Zenon
    <3> HIDE DEF e, s
    <3> QED
      BY <3>1, <3>2, <3>5
  <2>9. CASE Op \in NearJumps
    <3>1. line.target = [seg |-> cs, at |-> ToWord(e + w)]
      BY <2>3, <2>6, <2>9, Zenon DEF ShownTarget
    <3>2. ip' = ToWord(NextIP + w) /\ cs' = cs
      BY <1>1, <2>6, <2>9, Zenon DEF Jump
    <3>3. e + w \in Int
      BY <2>4
    <3>4. ip' = ToWord(e + w) /\ ToWord(e + w) \in Word
      BY <2>4, <2>7, <3>2, <3>3, AddReduced, Zenon
    <3> HIDE DEF e, w
    <3> QED
      BY <3>1, <3>2, <3>4
  <2>10. CASE Op \in FarJumps
    <3>1. line.target = [seg |-> WordAt(ip + 3), at |-> w]
      BY <2>3, <2>6, <2>10, Zenon DEF ShownTarget
    <3>2. ip' = w /\ cs' = WordAt(ip + 3)
      BY <1>1, <2>6, <2>10, Zenon DEF Jump
    <3> HIDE DEF w
    <3> QED
      BY <2>4, <3>1, <3>2
  <2> QED
    BY <2>5, <2>8, <2>9, <2>10
<1>2. Inv /\ [Next]_vars
        => [Jump /\ line.target # None =>
              (line.target = [seg |-> cs', at |-> ip'] <=> line.target.at \in Word)]_vars
  BY <1>1
<1> QED
  BY <1>2, Invariance, PTL DEF Spec, TargetsAgree
=============================================================================
