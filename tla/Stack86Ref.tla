------------------------------ MODULE Stack86Ref ------------------------------
(***************************************************************************)
(* push() and pop() implement the stack of CallStack in the memory of the  *)
(* emulator.  Memory does not say where a stack begins, so a history       *)
(* variable does: base is SP as it was when the stack was set up, when the *)
(* last known word was popped, or when pushes had gone once around the     *)
(* segment.                                                                *)
(***************************************************************************)
EXTENDS Stack86

VARIABLE base

\* The words between SP and base.
Depth == ToWord(base - sp) \div 2

\* What a step that pushes, and one that takes bytes off, leaves known.
Adds        == base' = IF 2 * Depth + ToWord(sp - sp') < WordMod THEN base ELSE sp'
Drop(bytes) == base' = IF bytes % 2 = 0 /\ bytes <= 2 * Depth THEN base ELSE sp'

TakesAndDrops ==
    \/ (PopReg("AX") \/ (\E r \in {"DS", "ES"} : PopSeg(r)) \/ Popf) /\ Drop(2)
    \/ \E drop \in Drops \cup {0} : \/ Ret(drop) /\ Drop(2 + drop)
                                    \/ RetFar(drop) /\ Drop(4 + drop)
    \/ Iret /\ Drop(6)

HInit == Init /\ base = sp
HNext ==
    \/ Pushes /\ sp' \in Stacks /\ Adds
    \/ TakesAndDrops /\ sp' \in Stacks
    \/ Others /\ sp' \in Stacks /\ UNCHANGED base
    \/ Switches /\ sp' \in Stacks /\ base' = sp'
    \/ (Ends \/ Exited) /\ UNCHANGED base
HSpec == HInit /\ [][HNext]_<<stackVars, base>>

WordAt(off) == ram[Address("SS", off)] + ByteMod * ram[Address("SS", off + 1)]

Calls == INSTANCE CallStack WITH
    Capacity <- WordMod \div 2,
    stack <- [i \in 1 .. Depth |-> WordAt(base - 2 * i)],
    regs  <- [AX |-> ax, CS |-> sreg["CS"], DS |-> sreg["DS"], ES |-> sreg["ES"],
              SS |-> sreg["SS"]],
    flags <- flags \cap (Kept \ {AlwaysOne}),
    ended <- status # "running"

\* Every stack instruction, in any program over these, has the effect it has on a
\* sequence of words: nothing that was pushed is lost or comes back in another order
\* (unless pushes go all the way around the segment),
\* returns go where the calls came from, and no bit that is not a flag gets into a word
\* that PUSHF or LAHF makes.
ImplementsCallStack == Calls!Spec
=============================================================================
