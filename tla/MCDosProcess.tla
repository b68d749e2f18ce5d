---------------------------- MODULE MCDosProcess ----------------------------
(***************************************************************************)
(* Small DOS programs: paragraphs of 4 bytes, segments of 32 in 80 bytes of *)
(* RAM.  The environment is at 8, the PSP at 16, files at 24, and the BIOS  *)
(* has two bytes at the bottom and four below the end of RAM.  The headers  *)
(* of the .exe files have images that end in the middle of a page, stacks   *)
(* in the image, above it and beyond the end of RAM, a header that wraps    *)
(* at 32 bytes, and relocations in the image and, wrapping around, in the   *)
(* PSP.                                                                     *)
(***************************************************************************)
EXTENDS DosProcess

MCBios == {0, 1} \cup 72 .. 75

\* All that is permitted at the top is written, a file of 56 bytes included.
MCBiosFields == {1} \cup 72 .. 75

MCExes ==
    [filesize : {2, 56}, cp : {2, 7}, cblp : {0, 5}, cparhdr : {1, 9},
     cs : {0}, ss : {0, 11, 20}, sp : {0, 5, 30}, relocs : {{}}]
    \cup
    [filesize : {20}, cp : {2}, cblp : {5}, cparhdr : {1},
     cs : {0}, ss : {4}, sp : {18}, relocs : {{}, {<<1, 2>>}, {<<29, 1>>}}]
=============================================================================
