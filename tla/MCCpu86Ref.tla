----------------------------- MODULE MCCpu86Ref -----------------------------
(***************************************************************************)
(* The machines of MCCpu86 with the history variable of the refinement.    *)
(***************************************************************************)
EXTENDS MCCpu86, Cpu86Ref

MCHInit == MCInit /\ start = Machine

MCHSpec ==
    MCHInit /\ [][HNext]_<<vars, start>> /\ WF_<<vars, start>>(HNext)
=============================================================================
