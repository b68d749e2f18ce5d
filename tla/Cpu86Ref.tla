------------------------------ MODULE Cpu86Ref ------------------------------
(***************************************************************************)
(* The instruction loop implements the instruction set.  A prefix byte and *)
(* a repetition are steps of the loop but not of the instruction set, so   *)
(* the loop carries a history variable: the machine as it was when the     *)
(* instruction now being executed began.  The instruction set sees that    *)
(* machine until the instruction is complete.                              *)
(***************************************************************************)
EXTENDS Cpu86

VARIABLE start

Machine ==
    [ip |-> ip, ac |-> ac, bx |-> bx, cx |-> cx, si |-> si, di |-> di,
     zf |-> zf, df |-> df, ram |-> ram, shadowRam |-> shadowRam]

\* The next call of executeInstruction() continues an instruction.
Midway == Continues

HInit == Init /\ start = Machine
HNext == Next /\ start' = IF Midway' THEN start ELSE Machine'
HSpec == HInit /\ [][HNext]_<<vars, start>>

Arch == INSTANCE Isa86 WITH
    ip <- start.ip, ac <- start.ac, bx <- start.bx, cx <- start.cx, si <- start.si,
    di <- start.di, zf <- start.zf, df <- start.df, ram <- start.ram,
    shadowRam <- start.shadowRam

\* Every instruction the loop completes, prefixed or repeated however, over
\* code that it may itself overwrite, has the effect of one step of the
\* instruction set; and the loop fails only where the instruction faults.
ImplementsIsa == Arch!Spec
=============================================================================
