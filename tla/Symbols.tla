------------------------------- MODULE Symbols -------------------------------
(***************************************************************************)
(* The symbol table of an ELKS program and the search for the symbol of an *)
(* address (syms.c, sym_string()).  The table is an array of entries sorted*)
(* by section and address, with an entry of type 0 at its end and nothing  *)
(* else that says where it ends: the search keeps two cursors, lastp and p,*)
(* and must never take them past that entry.                               *)
(***************************************************************************)
EXTENDS Integers, Sequences

CONSTANT WordMod    \* number of values of a Word; the code has 2^16

ASSUME SymbolsAssumption == WordMod \in Nat \ {0}

VARIABLES
    syms,           \* the table, a sequence of entries
    addr, section,  \* the address and the section it is looked up in
    lastp, p,       \* the cursors
    search          \* which loop is running, or how the search ended

symbolsVars == <<syms, addr, section, lastp, p, search>>

\* type_text(), type_ftext() and type_data().
Types == [text |-> {"T", "t", "W"}, ftext |-> {"F", "f"},
          data |-> {"D", "d", "B", "b", "V"}]
Sections == DOMAIN Types
Type == UNION {Types[s] : s \in Sections}
Entry == [type : Type \cup {"end"}, at : 0 .. WordMod - 1]

Is(s, i) == syms[i].type \in Types[s]

\* What the linker's table looks like: at least one symbol, the end marked once, each
\* section in one piece and in the order of addresses.
Table ==
    /\ syms \in Seq(Entry)
    /\ Len(syms) > 1
    /\ \A i \in DOMAIN syms : syms[i].type = "end" <=> i = Len(syms)
    /\ \A s \in Sections : \A i, j \in DOMAIN syms :
         Is(s, i) /\ Is(s, j) /\ i < j =>
           /\ syms[i].at <= syms[j].at
           /\ \A k \in i .. j : Is(s, k)

SymbolsTypeOK ==
    /\ Table
    /\ addr \in 0 .. WordMod - 1
    /\ section \in Sections
    /\ lastp \in Nat /\ p \in Nat
    /\ search \in {"none", "skip", "scan", "named", "hex"}

Searching == search \in {"skip", "scan"}

\* Mutant: the first loop looks for the end only after it has moved on twice.
SkipEntry_LooksLate ==
    /\ search = "skip"
    /\ ~Is(section, lastp)
    /\ lastp' = lastp + 1
    /\ search' = IF syms[lastp].type = "end" THEN "hex" ELSE "skip"
    /\ UNCHANGED <<syms, addr, section, p>>

\* The first loop: next(lastp) until an entry is of the section.
SkipEntry ==
    /\ search = "skip"
    /\ ~Is(section, lastp)
    /\ lastp' = lastp + 1
    /\ search' = IF syms[lastp + 1].type = "end" THEN "hex" ELSE "skip"
    /\ UNCHANGED <<syms, addr, section, p>>

FirstEntry ==
    /\ search = "skip"
    /\ Is(section, lastp)
    /\ p' = lastp + 1
    /\ search' = "scan"
    /\ UNCHANGED <<syms, addr, section, lastp>>

\* Mutant: a symbol at the address itself is already too far.
Beyond_OrAt == ~Is(section, p) \/ addr <= syms[p].at

\* The second loop leaves the section, or passes the address.
Beyond == ~Is(section, p) \/ addr < syms[p].at

\* Mutant: lastp stays behind, and p always follows it.
Advance_Stuck ==
    /\ search = "scan"
    /\ ~Beyond
    /\ p' = lastp + 1
    /\ UNCHANGED <<syms, addr, section, lastp, search>>

Advance ==
    /\ search = "scan"
    /\ ~Beyond
    /\ lastp' = p /\ p' = p + 1
    /\ UNCHANGED <<syms, addr, section, search>>

Stop ==
    /\ search = "scan"
    /\ Beyond
    /\ search' = "named"
    /\ UNCHANGED <<syms, addr, section, lastp, p>>

\* sym_string() is called.
Lookup(a, s) ==
    /\ ~Searching
    /\ addr' = a /\ section' = s
    /\ lastp' = 1 /\ p' = 1
    /\ search' = "skip"
    /\ UNCHANGED syms

SearchStep == SkipEntry \/ FirstEntry \/ Advance \/ Stop

SymbolsInit ==
    /\ Table
    /\ addr = 0 /\ section = "text"
    /\ lastp = 1 /\ p = 1
    /\ search = "none"

SymbolsNext ==
    \/ \E a \in 0 .. WordMod - 1, s \in Sections : Lookup(a, s)
    \/ SearchStep

\* The loops run until they end.
SymbolsSpec ==
    SymbolsInit /\ [][SymbolsNext]_symbolsVars /\ WF_symbolsVars(SearchStep)

-----------------------------------------------------------------------------
\* The symbol found is the last one of its section at or below the address, or the
\* first of the section if all of them are above it; there is no answer only where
\* the section has no symbol.
NamedByNearest ==
    /\ search = "named" =>
         /\ Is(section, lastp)
         /\ \A i \in DOMAIN syms : Is(section, i) =>
              IF syms[lastp].at <= addr
                THEN syms[i].at <= addr => i <= lastp
                ELSE lastp <= i
    /\ search = "hex" => \A i \in DOMAIN syms : ~Is(section, i)

\* The table has no length: the cursors stay between its first entry and the one that
\* marks the end, and a symbol that is read is never that one.
StaysInTable ==
    /\ lastp \in DOMAIN syms /\ p \in DOMAIN syms
    /\ search \in {"scan", "named"} => syms[lastp].type # "end"

\* A search comes to an end, though nothing counts its steps.
SearchEnds == Searching ~> ~Searching
=============================================================================
