------------------------------ MODULE CallStack ------------------------------
(***************************************************************************)
(* What the stack instructions promise: the stack is a sequence of words,  *)
(* its top last, of which a program knows what it has pushed and nothing   *)
(* of what lies below; a call takes one or two words that the matching     *)
(* return gives back; and of the flags there are only those of an 8086,    *)
(* which are passed on complete, in words whose other bits are fixed.      *)
(***************************************************************************)
EXTENDS Sequences, Bits86

CONSTANTS
    WordMod, ByteMod, Kept, Forced,
    Capacity    \* words that a stack holds before the next ones overwrite the first

VARIABLES
    stack,      \* what has been pushed since the stack was last set up
    regs,       \* AX and the segment registers
    sp,         \* of which nothing is promised but that PUSH SP pushes it
    ip, flags, ended

callVars == <<stack, regs, sp, ip, flags, ended>>

Word == 0 .. WordMod - 1
ToWord(n) == n % WordMod
Flags == Kept \ {1}         \* bit 1 is no flag
LowFlags == {b \in Flags : 2 ^ b < ByteMod}
Bits(n) == {b \in Flags : (n \div 2 ^ b) % 2 = 1}

Init == ~ended

\* With the words pushed; when there is no room for them, nothing is known any more.
With(words) ==
    IF Len(stack) + Len(words) < Capacity THEN stack \o words ELSE <<>>

\* The i-th word from the top is x, if it has been pushed.
IsTop(x, i) == i <= Len(stack) => x = stack[Len(stack) + 1 - i]

\* Without n words and then some bytes; what is left of a word is nothing known.
Without(n, bytes) ==
    IF bytes % 2 = 0 /\ n + bytes \div 2 <= Len(stack)
      THEN SubSeq(stack, 1, Len(stack) - n - bytes \div 2)
      ELSE <<>>

Goes(length) == ~ended /\ ~ended' /\ ip' = ToWord(ip + length)

Push ==
    /\ Goes(1)
    /\ \/ \E r \in DOMAIN regs : stack' = With(<<regs[r]>>)
       \/ stack' = With(<<sp>>)
    /\ UNCHANGED <<regs, flags>>

Pop ==
    /\ Goes(1)
    /\ \E r \in DOMAIN regs \ {"CS", "SS"} :
         /\ IsTop(regs'[r], 1)
         /\ regs' = [regs EXCEPT ![r] = regs'[r]]
    /\ stack' = Without(1, 0)
    /\ UNCHANGED flags

\* SP or SS is popped or loaded: another stack.
Switch ==
    /\ \E length \in {1, 2} : Goes(length)
    /\ stack' = <<>>
    /\ regs' = [regs EXCEPT !["SS"] = regs'["SS"]]
    /\ UNCHANGED flags

\* A store can change what is on the stack, two neighbouring words at most.
Store ==
    /\ Goes(3)
    /\ Len(stack') = Len(stack)
    /\ \E i \in 0 .. Len(stack) : \A j \in 1 .. Len(stack) : stack'[j] # stack[j] => j \in {i, i + 1}
    /\ UNCHANGED <<regs, flags>>

CallNear ==
    /\ ~ended /\ ~ended'
    /\ stack' = With(<<ToWord(ip + 3)>>)
    /\ UNCHANGED <<regs, flags>>

CallFar ==
    /\ ~ended /\ ~ended'
    /\ stack' = With(<<regs["CS"], ToWord(ip + 5)>>)
    /\ regs' = [regs EXCEPT !["CS"] = regs'["CS"]]
    /\ UNCHANGED flags

Ret ==
    /\ ~ended /\ ~ended'
    /\ IsTop(ip', 1)
    /\ \E drop \in Word : stack' = Without(1, drop)
    /\ UNCHANGED <<regs, flags>>

RetFar ==
    /\ ~ended /\ ~ended'
    /\ IsTop(ip', 1) /\ IsTop(regs'["CS"], 2)
    /\ \E drop \in Word : stack' = Without(2, drop)
    /\ regs' = [regs EXCEPT !["CS"] = regs'["CS"]]
    /\ UNCHANGED flags

\* A word that IRET or POPF takes its flags from, and the words PUSHF and LAHF make.
Restores(i) == \E w \in {w \in Word : IsTop(w, i)} : flags' = Bits(w)
Image == Number(flags \cup {1} \cup Forced)
LowImage == Number((flags \cap LowFlags) \cup {1})

Iret ==
    /\ ~ended /\ ~ended'
    /\ IsTop(ip', 1) /\ IsTop(regs'["CS"], 2) /\ Restores(3)
    /\ stack' = Without(3, 0)
    /\ regs' = [regs EXCEPT !["CS"] = regs'["CS"]]

Pushf == Goes(1) /\ stack' = With(<<Image>>) /\ UNCHANGED <<regs, flags>>
Popf  == Goes(1) /\ Restores(1) /\ stack' = Without(1, 0) /\ UNCHANGED regs

Sahf ==
    /\ Goes(1)
    /\ flags' = (flags \ LowFlags) \cup (Bits(regs["AX"] \div ByteMod) \cap LowFlags)
    /\ UNCHANGED <<stack, regs>>

Lahf ==
    /\ Goes(1)
    /\ regs' = [regs EXCEPT !["AX"] = (regs["AX"] % ByteMod) + ByteMod * LowImage]
    /\ UNCHANGED <<stack, flags>>

SetFlag ==
    /\ Goes(1)
    /\ \E b \in Flags : flags' = (flags \cup {b}) \ (flags \cap {b})
    /\ UNCHANGED <<stack, regs>>

\* A system call answers in AX and CF, and touches neither the stack nor any flag
\* but that one; a jump goes anywhere.
Syscall ==
    /\ Goes(2)
    /\ regs' = [regs EXCEPT !["AX"] = regs'["AX"]]
    /\ flags' \ {0} = flags \ {0}
    /\ UNCHANGED stack
Jump == ~ended /\ ~ended' /\ UNCHANGED <<stack, regs, flags>>

\* The stack may overflow and an interrupt may end the program, at any time.
End == ~ended /\ ended' /\ UNCHANGED <<stack, regs, sp, ip, flags>>

Next ==
    \/ Push \/ Pop \/ Switch \/ Store
    \/ CallNear \/ CallFar \/ Ret \/ RetFar \/ Iret
    \/ Pushf \/ Popf \/ Sahf \/ Lahf \/ SetFlag
    \/ Syscall \/ Jump \/ End

Spec == Init /\ [][Next]_callVars
=============================================================================
