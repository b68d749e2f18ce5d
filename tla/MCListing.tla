----------------------------- MODULE MCListing -----------------------------
(***************************************************************************)
(* Traces of short programs with the widths of the code.  The first family *)
(* has every opcode with 40 ModRM bytes, in one, two, four or eight        *)
(* readable bytes, of which those after the ModRM byte are fixed.  The     *)
(* second has the instructions that name an address, at both ends of the   *)
(* code segment, with addresses below, at, between and above the symbols   *)
(* of every small table.                                                   *)
(***************************************************************************)
EXTENDS Listing

\* Every mode and register once, and every direct address.
ModRMs == {m \in Byte : RM(m) = 0 \/ (Mod(m) = 0 /\ RM(m) = 6)}

\* The offsets that symbols have, and the section types that the tables mix.
Offsets == {30, 256}
Symbol == [type : {"T", "F", "D"}, at : Offsets]

End == [type |-> "end", at |-> 0]
SmallTables == {<<a, End>> : a \in Symbol} \cup {<<a, b, c, End>> : a, b, c \in Symbol}
SomeTable == << [type |-> "T", at |-> 256], [type |-> "D", at |-> 8], End >>

Place(start, bytes) ==
    [o \in {ToWord(start + i - 1) : i \in DOMAIN bytes} |-> bytes[ToWord(o - start) + 1]]

EveryOpcode ==
    /\ \E op \in Byte, m \in ModRMs, n \in {1, 2, 4, 8} :
         text = Place(256, SubSeq(<<op, m, 3, 1, 2, 0, 0, 0>>, 1, n))
    /\ ip = 256
    /\ syms = SomeTable

NamingOpcodes == {\h03, \h74, \h9a, \ha1, \he8, \heb, \hff}

EveryTable ==
    /\ ip \in {0, 65531, 65534}
    /\ \E op \in NamingOpcodes, lo \in {0, 30, 200}, hi \in {0, 1} :
         \E far \in IF op = \h9a THEN {1, 2} ELSE {1} :
           text = Place(ip, IF op \in {\h03, \hff} THEN <<op, 30, lo, hi, 144>>
                            ELSE <<op, lo, hi, far, 2, 144>>)
    /\ syms \in SmallTables

MCInit == (EveryOpcode \/ EveryTable) /\ Init
MCSpec == MCInit /\ [][Next]_vars /\ WF_vars(Next)
=============================================================================
