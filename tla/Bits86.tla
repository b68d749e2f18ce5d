-------------------------------- MODULE Bits86 --------------------------------
(***************************************************************************)
(* A number as the set of its bits that are one, bit 0 the lowest.  No     *)
(* register or operand has more than 16 bits.                              *)
(***************************************************************************)
EXTENDS Integers

Number(S) ==
    LET sum[i \in 0 .. 16] ==
          IF i = 0 THEN 0 ELSE sum[i - 1] + (IF i - 1 \in S THEN 2 ^ (i - 1) ELSE 0)
    IN  sum[16]
===============================================================================
