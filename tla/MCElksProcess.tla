--------------------------- MODULE MCElksProcess ---------------------------
(***************************************************************************)
(* Small programs for ElksProcess: a segment of at most 28 bytes in        *)
(* paragraphs of 4, sizes of up to 255.                                    *)
(***************************************************************************)
EXTENDS ElksProcess

\* Odd and even sections and stacks, no heap, some heap and all the heap there
\* is; segments that just fit and just do not.
MCHeaders ==
    [tseg : {0}, dseg : {3, 4}, bseg : {0, 5}, minstack : {0, 1, 2, 9},
     chmem : {0, 1, 29}]

\* Text that puts the segment at the end of RAM, at address 0 with the text
\* above it, and after a text whose length is negative or wraps to 0.
MCTexts ==
    [tseg : {5, 109, 120, 130, 254}, dseg : {0, 4}, bseg : {0}, minstack : {2, 9},
     chmem : {1}]

\* Sizes whose sum is above 255, or wraps when it is rounded up: a section of
\* nearly 4G whose 16 bits are low or high, two that add up, with some heap and
\* with all there is.
MCWrapping ==
    [tseg : {0, 120}, dseg : {223, 227, 240}, bseg : {0, 16, 48}, minstack : {2, 9, 20},
     chmem : {1, 27, 29}]

MCEnvironments ==
    {[argv |-> <<1>>, envp |-> <<>>], [argv |-> <<2, 1>>, envp |-> <<>>],
     [argv |-> <<1>>, envp |-> <<2>>]}

MCAllHeaders == MCHeaders \cup MCTexts \cup MCWrapping
=============================================================================
