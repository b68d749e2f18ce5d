----------------------------- MODULE MCStack86 -----------------------------
(***************************************************************************)
(* Small stacks with bytes of 3 bits: the flags are bit 0 (CF), bit 1, bit *)
(* 2, which an 8086 does not have, bit 3 (OF) and two bits that PUSHF sets.*)
(***************************************************************************)
EXTENDS Stack86Ref

P(ops, regs) == [ops |-> ops, regs |-> regs]
MCPrograms ==
    {P({"CALL", "CALLF", "RET", "RETF", "JMP"}, {}),
     P({"PUSHF", "POPF", "SAHF", "LAHF", "CMC"}, {}),
     P({"PUSHF", "POPF", "SAHF", "PUSH", "POP"}, {"AX"}),
     P({"PUSHF", "CALLF", "IRET", "CMC", "INT"}, {}),
     P({"PUSH", "POP", "CALL", "RET"}, {"AX"}),
     P({"PUSH", "POP", "CALLF", "RETF"}, {"CS", "DS"}),
     P({"PUSH", "POP"}, {"AX", "CS", "ES"}),
     P({"PUSH", "POP", "CALL", "RET"}, {"SP", "SS"}),
     P({"PUSH", "MOV", "RET"}, {"CS"})}

MCLoaded ==
    {[kind |-> "bin", sp |-> 0, stackLow |-> 0, readable |-> TRUE],
     [kind |-> "elks", sp |-> 62, stackLow |-> 58, readable |-> TRUE],
     [kind |-> "dos", sp |-> 62, stackLow |-> 56, readable |-> FALSE]}
=============================================================================
