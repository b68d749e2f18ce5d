------------------------------ MODULE Decode86 ------------------------------
(***************************************************************************)
(* How many bytes an instruction has.  8086.c and disasm.c each decode the *)
(* opcode and the ModRM byte after it on their own: executeInstruction()   *)
(* fetches operands where its cases need them, decode() gives every opcode *)
(* a set of flags from which outs() derives what to fetch.  m is the byte  *)
(* after the opcode, whether or not it is a ModRM byte.                    *)
(***************************************************************************)
EXTENDS Integers

Byte == 0 .. 255

\* The fields of a ModRM byte.
Mod(m) == m \div 64
Reg(m) == (m \div 8) % 8
RM(m)  == m % 8

Wide(op) == op % 2 = 1
Size(wide) == IF wide THEN 2 ELSE 1

-----------------------------------------------------------------------------
(* The emulator.                                                             *)

\* The cases of executeInstruction() that call ea().
HasModRM(op) ==
    \/ op < \h40 /\ op % 8 < 4
    \/ op \in \h80 .. \h8f \cup \hc4 .. \hc7 \cup \hd0 .. \hd3
    \/ op \in {\hf6, \hf7, \hfe, \hff}

\* The bytes ea() fetches after the ModRM byte.
Displacement(m) ==
    CASE Mod(m) = 1 -> 1
      [] Mod(m) = 2 \/ (Mod(m) = 0 /\ RM(m) = 6) -> 2
      [] OTHER -> 0

\* The bytes the cases fetch as immediate operands, direct addresses and jump
\* displacements.
Immediate(op, m) ==
    CASE op \in \h70 .. \h7f \cup \he0 .. \he7 \cup {\hcd, \hd4, \hd5, \heb} -> 1
      [] op \in {\h80, \h82, \h83} \cup \hb0 .. \hb7 -> 1
      [] op \in {\h81, \hc2, \hca, \he8, \he9} \cup \ha0 .. \ha3 \cup \hb8 .. \hbf -> 2
      [] op \in {\h9a, \hea} -> 4
      [] \/ op < \h40 /\ op % 8 \in {4, 5}
         \/ op \in {\ha8, \ha9, \hc6, \hc7}
         \/ op \in {\hf6, \hf7} /\ Reg(m) < 2 -> Size(Wide(op))
      [] OTHER -> 0

Length(op, m) ==
    1 + (IF HasModRM(op) THEN 1 + Displacement(m) ELSE 0) + Immediate(op, m)

\* runtimeError(): not an instruction, or one that needs a memory operand.
InvalidOpcodes ==
    \h60 .. \h6f \cup \hd8 .. \hdf
        \cup {\h0f, \h9b, \hc0, \hc1, \hc8, \hc9, \hf0, \hf1, \hf4}
Invalid(op, m) ==
    \/ op \in InvalidOpcodes
    \/ op = \hfe /\ Reg(m) > 1
    \/ op = \hff /\ Reg(m) = 7
    \/ Mod(m) = 3 /\ (op \in {\h8d, \hc4, \hc5} \/ (op = \hff /\ Reg(m) \in {3, 5}))

\* The traps that handleInterrupt() never returns from: INT 3 and INTO.
Trap(op) == op \in {\hcc, \hce}

\* Where a jump or call goes: by a signed byte, by a word, to a far pointer in the
\* code, or where a register, the stack or memory says.
ShortJumps == \h70 .. \h7f \cup \he0 .. \he3 \cup {\heb}
NearJumps  == {\he8, \he9}
FarJumps   == {\h9a, \hea}
Indirect(op, m) ==
    op \in {\hc2, \hc3, \hca, \hcb, \hcf} \/ (op = \hff /\ Reg(m) \in 2 .. 5)

\* JMP, CALL and RET always jump; Jcond, LOOP and JCXZ may not.
MayFallThrough(op, m) ==
    /\ op \notin NearJumps \cup FarJumps \cup {\heb}
    /\ ~Indirect(op, m)

-----------------------------------------------------------------------------
(* The disassembler.                                                         *)

FarIndirect(op, m) == op = \hff /\ Reg(m) \in {3, 5}

\* Mutant: only the first of the two encodings of TEST has an immediate.
MathFlags_OneTest(m) == IF Reg(m) = 0 THEN {"IMM", "RM"} ELSE {"RM"}

\* TEST, and NOT to IDIV.
MathFlags(m) == IF Reg(m) < 2 THEN {"IMM", "RM"} ELSE {"RM"}

\* The flags decode() gives to outs(), but for those that only choose wording.
Flags(op, m) ==
    CASE (op < \h40 /\ op % 8 < 4) \/ op \in \h84 .. \h8e \cup {\hc4, \hc5} -> {"RDMOD", "OPS2"}
      [] op < \h40 /\ op % 8 \in {4, 5} -> {"IMM"}
      [] op \in ShortJumps -> {"JMP", "SBYTE"}
      [] op = \h81 -> {"IMM", "RM", "WORD"}
      [] op = \h83 -> {"IMM", "RM", "SBYTE"}
      [] op \in {\h80, \h82} -> {"IMM", "RM", "BYTE"}
      [] op = \h8f -> {"RDMOD", "RM"}
      [] op \in FarJumps -> {"JMP", "DWORD"}
      [] op \in \ha0 .. \ha3 -> {"MEMWORD"}
      [] op \in {\ha8, \ha9, \hcd} \cup \hb0 .. \hbf -> {"IMM"}
      [] op \in {\hc2, \hca} -> {"WORD"}
      [] op \in {\hc6, \hc7} -> {"RDMOD", "IMM", "RM"}
      [] op \in {\hf6, \hf7} -> MathFlags(m)
      [] op \in \hd0 .. \hd3 -> {"RM"}
      [] op \in \he4 .. \he7 -> {"IMM", "BYTE"}
      [] op \in NearJumps \/ FarIndirect(op, m) -> {"JMP", "WORD"}
      [] op \in \hec .. \hef -> {"OPS2"}
      [] (op = \hfe /\ Reg(m) < 2) \/ (op = \hff /\ Reg(m) \notin {3, 5, 7}) -> {"RM"}
      [] OTHER -> {}

\* Mutant: the low bit of the opcode decides, as everywhere else.
ShownWide_LowBit(op) == Wide(op)

\* wordSize as decode() leaves it to outs(), where an immediate depends on it.
ShownWide(op) ==
    IF op \in \hb0 .. \hb7 \cup {\hcd} THEN FALSE
    ELSE op \in \hb8 .. \hbf \/ Wide(op)

\* decode() itself reads the ModRM byte of these; for IN and OUT it makes one up.
DecodeReadsModRM(op) == op \in \h80 .. \h83 \cup \hd0 .. \hd3 \cup {\hf6, \hf7, \hfe, \hff}
ModRMShown(op, m) == IF op \in \hec .. \hef THEN \hd0 ELSE m

\* Mutant: the size that a flag gives an immediate does not replace wordSize.
Outs_Twice(flags, m, wide) ==
    LET Bytes(names, n) == IF flags \cap names # {} THEN n ELSE 0
    IN  (IF flags \cap {"OPS2", "RM"} # {} THEN Displacement(m) ELSE 0)
        + Bytes({"IMM"}, Size(wide)) + Bytes({"WORD", "DWORD", "MEMWORD"}, 2)
        + Bytes({"BYTE"}, 1) + Bytes({"SBYTE"}, 1) + Bytes({"DWORD"}, 2)

\* The bytes outs() fetches.
Outs(flags, m, wide) ==
    LET Has(names) == flags \cap names # {}
        Bytes(names, n) == IF Has(names) THEN n ELSE 0
    IN  (IF Has({"OPS2", "RM"}) THEN Displacement(m) ELSE 0)
        + (IF Has({"IMM"}) /\ ~Has({"BYTE", "SBYTE", "WORD"}) THEN Size(wide) ELSE 0)
        + Bytes({"WORD", "DWORD", "MEMWORD"}, 2) + Bytes({"BYTE"}, 1)
        + Bytes({"SBYTE"}, 1) + Bytes({"DWORD"}, 2)

ShownLength(op, m) ==
    1 + (IF DecodeReadsModRM(op) \/ "RDMOD" \in Flags(op, m) THEN 1 ELSE 0)
      + Outs(Flags(op, m), ModRMShown(op, m), ShownWide(op))

-----------------------------------------------------------------------------
\* Where the two differ: AAM and AAD are shown without their operand, and a far
\* jump through memory with a word whatever its ModRM byte says.
Mislisted(op, m) ==
    \/ op \in {\hd4, \hd5}
    \/ FarIndirect(op, m) /\ Displacement(m) # 2
=============================================================================
