--------------------------- MODULE DosFilesProofs ---------------------------
(***************************************************************************)
(* Strings and data pass unharmed through the buffers of the file and      *)
(* directory calls of DOS, for every size of the buffers, whatever memory, *)
(* files and unwritten buffers hold, and whatever the host does: DosFiles  *)
(* implements DosApi.                                                      *)
(***************************************************************************)
EXTENDS DosFiles, SequenceTheorems, WellFoundedInduction, TLAPS

USE ShadowAssumption, MemoryAssumption

\* What the steps rely on: memory, buffers and file hold bytes.
Inv ==
    /\ MemoryTypeOK
    /\ pathBuffers \in [{0, 1} -> [Word -> Byte]]
    /\ file \in Seq(Byte)
    /\ position \in Nat

-----------------------------------------------------------------------------
(* Where a string ends.                                                      *)

LEMMA LowestExists ==
    ASSUME NEW S \in SUBSET Nat, S # {}
    PROVE  \E h \in S : \A g \in S : h <= g
<1>1. \E h \in S : \A g \in S : <<g, h>> \notin OpToRel(<, Nat)
  BY NatLessThanWellFounded, WFMin, Zenon
<1>2. \A g, h \in Nat : <<g, h>> \notin OpToRel(<, Nat) => h <= g
  BY DEF OpToRel
<1> QED
  BY <1>1, <1>2

LEMMA LeastIs ==
    ASSUME NEW b \in [Word -> Byte], Nulls(b) # {}
    PROVE  /\ Least(Nulls(b)) \in Word
           /\ b[Least(Nulls(b))] = 0
           /\ \A i \in Word : i < Least(Nulls(b)) => b[i] # 0
<1>1. Nulls(b) \in SUBSET Nat
  BY DEF Nulls, Word
<1>2. \E h \in Nulls(b) : \A g \in Nulls(b) : h <= g
  BY <1>1, LowestExists
<1>3. Least(Nulls(b)) \in Nulls(b) /\ \A j \in Nulls(b) : Least(Nulls(b)) <= j
  BY <1>2, Zenon DEF Least
<1>4. Least(Nulls(b)) \in Word /\ b[Least(Nulls(b))] = 0
  BY <1>3 DEF Nulls
<1>5. ASSUME NEW i \in Word, i < Least(Nulls(b)) PROVE b[i] # 0
  <2>1. i \notin Nulls(b)
    BY <1>3, <1>4, <1>5 DEF Word
  <2> QED
    BY <2>1 DEF Nulls
<1> QED
  BY <1>4, <1>5

LEMMA CStringIs ==
    ASSUME NEW b \in [Word -> Byte], NEW n \in Word,
           b[n] = 0, \A i \in Word : i < n => b[i] # 0
    PROVE  CString(b) = [i \in 1 .. n |-> b[i - 1]]
<1>1. Nulls(b) # {}
  BY DEF Nulls
<1>2. Least(Nulls(b)) = n
  <2> DEFINE l == Least(Nulls(b))
  <2>1. l \in Word /\ b[l] = 0 /\ \A i \in Word : i < l => b[i] # 0
    BY <1>1, LeastIs
  <2> HIDE DEF l
  <2>2. l = n
    BY <2>1 DEF Word
  <2> QED
    BY <2>2 DEF l
<1> QED
  BY <1>1, <1>2 DEF CString

\* A buffer whose last byte is a null holds a string that ends before it.
LEMMA StringIn ==
    ASSUME NEW b \in [Word -> Byte], b[WordMod - 1] = 0
    PROVE  \E n \in Word : /\ b[n] = 0
                           /\ \A i \in Word : i < n => b[i] # 0
                           /\ CString(b) = [i \in 1 .. n |-> b[i - 1]]
                           /\ CString(b) \in Seq(Byte)
                           /\ Len(CString(b)) = n
<1>1. WordMod - 1 \in Word
  BY DEF Word
<1>2. Nulls(b) # {}
  BY <1>1 DEF Nulls
<1> DEFINE n == Least(Nulls(b))
<1>3. n \in Word /\ b[n] = 0 /\ \A i \in Word : i < n => b[i] # 0
  BY <1>2, LeastIs
<1> HIDE DEF n
<1> DEFINE f == [i \in 1 .. n |-> b[i - 1]]
<1>4. CString(b) = f
  BY <1>3, CStringIs
<1>5. \A i \in 1 .. n : b[i - 1] \in Byte
  BY <1>3 DEF Word
<1>6. n \in Nat
  BY <1>3 DEF Word
<1>7. f \in Seq(Byte)
  BY <1>5, <1>6, IsASeq
<1>8. Len(f) = n
  BY <1>6, <1>7, LenProperties
<1> QED
  BY <1>3, <1>4, <1>7, <1>8

-----------------------------------------------------------------------------
(* Memory and buffers.                                                       *)

LEMMA AddressType ==
    ASSUME ShadowTypeOK, NEW seg \in Segs, NEW off \in Int
    PROVE  Address(seg, off) \in Nat
<1>1. ToWord(off) \in Nat
  BY DEF ToWord
<1>2. sreg[seg] \in Nat
  BY DEF ShadowTypeOK, Word
<1>3. sreg[seg] * Para \in Nat
  BY <1>2
<1> QED
  BY <1>1, <1>3 DEF Address

LEMMA SourceType ==
    ASSUME MemoryTypeOK, NEW seg \in Segs, NEW off \in Int
    PROVE  /\ Source(seg, off) \in [Word -> Byte]
           /\ \A i \in Word : Address(seg, off + i) < RamSize
                                => Source(seg, off)[i] = ram[Address(seg, off + i)]
<1>1. ASSUME NEW i \in Word PROVE Cell(seg, off + i) \in Byte
  <2>1. off + i \in Int
    BY DEF Word
  <2>2. Address(seg, off + i) \in Nat
    BY <2>1, AddressType DEF MemoryTypeOK
  <2>3. CASE Address(seg, off + i) < RamSize
    <3>1. Address(seg, off + i) \in Ram
      BY <2>2, <2>3 DEF Ram
    <3> QED
      BY <2>3, <3>1 DEF Cell, MemoryTypeOK
  <2>4. CASE ~(Address(seg, off + i) < RamSize)
    BY <2>4 DEF Cell, Byte
  <2> QED
    BY <2>3, <2>4
<1> QED
  BY <1>1 DEF Source, Cell

LEMMA FilledType ==
    ASSUME MemoryTypeOK, NEW seg \in Segs, NEW off \in Int, NEW bytes,
           NEW b \in [Word -> Byte]
    PROVE  /\ Filled(b, seg, off, bytes) \in [Word -> Byte]
           /\ Filled(b, seg, off, bytes)[WordMod - 1] = 0
<1> DEFINE source == Source(seg, off)
<1>1. source \in [Word -> Byte]
  BY SourceType
<1> HIDE DEF source
<1>2. 0 \in Byte /\ WordMod - 1 \in Word
  BY DEF Byte, Word
<1>3. Filled(b, seg, off, bytes) =
        [i \in Word |-> IF i = WordMod - 1 THEN 0
                        ELSE IF i < Transferred(bytes, source) THEN source[i] ELSE b[i]]
  BY DEF Filled, source
<1> QED
  BY <1>1, <1>2, <1>3

\* The string a buffer holds is the program's: what IsString of DosApi asks for.
LEMMA FilledString ==
    ASSUME MemoryTypeOK, NEW seg \in Segs, NEW off \in Int, NEW b \in [Word -> Byte],
           Readable(seg, off, WordMod)
    PROVE  LET s == CString(Filled(b, seg, off, WordMod))
           IN  /\ s \in Seq(Byte) /\ Len(s) \in Word
               /\ CanRead(seg, off, Len(s))
               /\ \A i \in 1 .. Len(s) : s[i] = ram[Address(seg, off + i - 1)] /\ s[i] # 0
               /\ \/ Len(s) = WordMod - 1
                  \/ /\ CanRead(seg, off, Len(s) + 1)
                     /\ ram[Address(seg, off + (Len(s) + 1) - 1)] = 0
<1> DEFINE source == Source(seg, off)
           filled == Filled(b, seg, off, WordMod)
           m == Transferred(WordMod, source)
<1>1. source \in [Word -> Byte]
  BY SourceType
<1>2. filled \in [Word -> Byte] /\ filled[WordMod - 1] = 0
  BY FilledType
<1>3. \A i \in Word : i < m /\ i # WordMod - 1 => filled[i] = source[i]
  BY DEF Filled
<1>4. CanRead(seg, off, m)
  BY DEF Readable
<1>5. \A i \in Word : i < m => source[i] = ram[Address(seg, off + i)]
  <2> TAKE i \in Word
  <2> HAVE i < m
  <2>1. m \in Int
    <3>1. Nulls(source) # {} => Least(Nulls(source)) \in Word
      BY <1>1, LeastIs
    <3> QED
      BY <3>1 DEF Transferred, Word
  <2>2. i \in 0 .. m - 1
    BY <2>1 DEF Word
  <2>3. Address(seg, off + i) < RamSize
    BY <1>4, <2>2 DEF CanRead, Allowed
  <2> QED
    BY <2>3, SourceType
<1>6. \/ m = WordMod /\ \A i \in Word : i < WordMod - 1 => source[i] # 0
      \/ \E l \in Word : /\ m = l + 1 /\ source[l] = 0 /\ l # WordMod - 1
                         /\ \A i \in Word : i < l => source[i] # 0
  <2>1. CASE Nulls(source) = {}
    <3>1. \A i \in Word : source[i] # 0
      BY <1>1, <2>1 DEF Nulls
    <3> QED
      BY <2>1, <3>1 DEF Transferred
  <2>2. CASE Nulls(source) # {}
    <3> DEFINE l == Least(Nulls(source))
    <3>1. l \in Word /\ source[l] = 0 /\ \A i \in Word : i < l => source[i] # 0
      BY <1>1, <2>2, LeastIs
    <3>2. m = l + 1
      BY <2>2 DEF Transferred
    <3> HIDE DEF l, source, m
    <3> QED
      BY <3>1, <3>2
  <2> QED
    BY <2>1, <2>2
<1> HIDE DEF source, m, filled
<1>7. PICK n \in Word : /\ filled[n] = 0
                        /\ \A i \in Word : i < n => filled[i] # 0
                        /\ CString(filled) = [i \in 1 .. n |-> filled[i - 1]]
                        /\ CString(filled) \in Seq(Byte)
                        /\ Len(CString(filled)) = n
  BY <1>2, StringIn
<1>8. \/ n = WordMod - 1 /\ m = WordMod
      \/ n < WordMod - 1 /\ m = n + 1 /\ source[n] = 0
  <2>1. CASE m = WordMod /\ \A i \in Word : i < WordMod - 1 => source[i] # 0
    <3>1. \A i \in Word : i < WordMod - 1 => filled[i] # 0
      BY <1>3, <2>1 DEF Word
    <3> QED
      BY <1>2, <1>7, <2>1, <3>1 DEF Word
  <2>2. ASSUME NEW l \in Word, m = l + 1, source[l] = 0, l # WordMod - 1,
               \A i \in Word : i < l => source[i] # 0
        PROVE  n < WordMod - 1 /\ m = n + 1 /\ source[n] = 0
    <3>1. filled[l] = 0 /\ \A i \in Word : i < l => filled[i] # 0
      BY <1>3, <2>2 DEF Word
    <3>2. n = l
      BY <1>7, <3>1 DEF Word
    <3> QED
      BY <2>2, <3>2 DEF Word
  <2> QED
    BY <1>6, <2>1, <2>2
<1>9. \A i \in 1 .. n : filled[i - 1] = ram[Address(seg, off + (i - 1))] /\ filled[i - 1] # 0
  <2> TAKE i \in 1 .. n
  <2>1. i - 1 \in Word /\ i - 1 < n /\ i - 1 < m /\ i - 1 # WordMod - 1
    BY <1>8 DEF Word
  <2> DEFINE k == i - 1
  <2> HIDE DEF k
  <2>2. filled[k] = ram[Address(seg, off + k)] /\ filled[k] # 0
    BY <1>3, <1>5, <1>7, <2>1 DEF k
  <2> QED
    BY <2>2 DEF k
<1>10. CanRead(seg, off, n) /\ (n # WordMod - 1 => CanRead(seg, off, n + 1))
  <2>1. 0 .. n - 1 \subseteq 0 .. m - 1
    BY <1>8 DEF Word
  <2> QED
    BY <1>4, <1>8, <2>1 DEF CanRead, Allowed
<1>11. n # WordMod - 1 => ram[Address(seg, off + n)] = 0
  BY <1>5, <1>8 DEF Word
<1>12. \A i \in 1 .. n : off + i - 1 = off + (i - 1)
  OBVIOUS
<1>13. off + (n + 1) - 1 = off + n
  BY DEF Word
<1> DEFINE s == CString(filled)
<1>14. s \in Seq(Byte) /\ Len(s) = n /\ s = [i \in 1 .. n |-> filled[i - 1]]
  BY <1>7
<1>15. \A i \in 1 .. n : s[i] = ram[Address(seg, off + i - 1)] /\ s[i] # 0
  BY <1>9, <1>12, <1>14
<1> HIDE DEF s
<1>16. /\ s \in Seq(Byte) /\ Len(s) \in Word
       /\ CanRead(seg, off, Len(s))
       /\ \A i \in 1 .. Len(s) : s[i] = ram[Address(seg, off + i - 1)] /\ s[i] # 0
       /\ \/ Len(s) = WordMod - 1
          \/ /\ CanRead(seg, off, Len(s) + 1)
             /\ ram[Address(seg, off + (Len(s) + 1) - 1)] = 0
  BY <1>10, <1>11, <1>13, <1>14, <1>15
<1> QED
  BY <1>16 DEF s, filled

\* Distinct offsets in a segment are distinct addresses.
LEMMA AddressDistinct ==
    ASSUME ShadowTypeOK, NEW seg \in Segs, NEW off \in Word, NEW i \in Word, NEW j \in Word,
           Address(seg, off + i) = Address(seg, off + j)
    PROVE  i = j
<1> DEFINE low == sreg[seg] * Para
<1>1. low \in Nat
  BY DEF ShadowTypeOK, Word
<1>2. ToWord(off + i) \in Int /\ ToWord(off + j) \in Int
  BY DEF ToWord, Word
<1>3. low + ToWord(off + i) = low + ToWord(off + j)
  BY DEF Address
<1> HIDE DEF low
<1>4. ToWord(off + i) = ToWord(off + j)
  <2>1. \A l, x, y \in Int : l + x = l + y => x = y
    OBVIOUS
  <2>2. low \in Int
    BY <1>1
  <2> QED
    BY <1>2, <1>3, <2>1, <2>2, Zenon
<1>5. \A n \in Nat : n < 2 * WordMod => ToWord(n) = IF n < WordMod THEN n ELSE n - WordMod
  <2>1. ASSUME NEW n \in Nat, n < WordMod PROVE n % WordMod = n
    BY <2>1
  <2>2. ASSUME NEW n \in Nat, n >= WordMod, n < 2 * WordMod PROVE n % WordMod = n - WordMod
    <3>1. n % WordMod = (n - WordMod) % WordMod
      BY <2>2
    <3> QED
      BY <2>1, <2>2, <3>1
  <2> QED
    BY <2>1, <2>2 DEF ToWord
<1>6. /\ off + i \in Nat /\ off + i < 2 * WordMod
      /\ off + j \in Nat /\ off + j < 2 * WordMod
  BY DEF Word
<1> QED
  BY <1>4, <1>5, <1>6 DEF Word

\* What the program finds in its memory when bytes of a buffer have been copied there.
LEMMA CopyOutIs ==
    ASSUME MemoryTypeOK, NEW seg \in Segs, NEW off \in Word, NEW b \in [Word -> Byte], NEW bytes,
           Transferred(bytes, b) \in 0 .. WordMod, CopyOut(b, seg, off, bytes)
    PROVE  LET m == Transferred(bytes, b)
           IN  /\ ram' \in [Ram -> Byte] /\ shadowRam' \in [Ram -> SUBSET Flag]
               /\ \A i \in 0 .. m - 1 : ram'[Address(seg, off + i)] = b[i]
               /\ \A a \in Ram \ Span(seg, off, m) : ram'[a] = ram[a]
               /\ shadowRam' = Granted(seg, off, m)
<1> DEFINE m == Transferred(bytes, b)
           at(a, i) == i \in 0 .. m - 1 /\ a = Address(seg, off + i)
           pick(a) == CHOOSE i \in 0 .. m - 1 : a = Address(seg, off + i)
<1>1. /\ CanWrite(seg, off, m)
      /\ ram' = [a \in Ram |-> IF \E i \in 0 .. m - 1 : a = Address(seg, off + i)
                                 THEN b[pick(a)] ELSE ram[a]]
      /\ shadowRam' = Granted(seg, off, m)
  BY DEF CopyOut
<1>2. m \in 0 .. WordMod
  OBVIOUS
<1>3. 0 .. m - 1 \subseteq Word
  BY <1>2 DEF Word
<1> HIDE DEF m
<1>4. ASSUME NEW a \in Ram, \E i \in 0 .. m - 1 : a = Address(seg, off + i)
      PROVE  pick(a) \in 0 .. m - 1 /\ a = Address(seg, off + pick(a))
  BY <1>4, Zenon
<1>5. ram' \in [Ram -> Byte]
  <2>1. ASSUME NEW a \in Ram, \E i \in 0 .. m - 1 : a = Address(seg, off + i)
        PROVE  b[pick(a)] \in Byte
    <3>1. pick(a) \in Word
      BY <1>3, <1>4, <2>1
    <3> HIDE DEF pick
    <3> QED
      BY <3>1
  <2>2. \A a \in Ram : ram[a] \in Byte
    BY DEF MemoryTypeOK
  <2> HIDE DEF pick
  <2> QED
    BY <1>1, <2>1, <2>2
<1>6. shadowRam' \in [Ram -> SUBSET Flag]
  <2>1. \A a \in Ram : shadowRam[a] \in SUBSET Flag
    BY DEF MemoryTypeOK, ShadowTypeOK
  <2>2. "fRead" \in Flag
    BY DEF Flag
  <2> QED
    BY <1>1, <2>1, <2>2 DEF Granted
<1>7. ASSUME NEW i \in 0 .. m - 1 PROVE ram'[Address(seg, off + i)] = b[i]
  <2> DEFINE a == Address(seg, off + i)
  <2>1. i \in Word
    BY <1>3
  <2>2. a \in Ram
    <3>1. off + i \in Int
      BY <2>1 DEF Word
    <3>2. a \in Nat
      BY <3>1, AddressType DEF MemoryTypeOK
    <3>3. a < RamSize
      BY <1>1 DEF CanWrite, Allowed
    <3> HIDE DEF a
    <3> QED
      BY <3>2, <3>3 DEF Ram
  <2>3. \E j \in 0 .. m - 1 : a = Address(seg, off + j)
    OBVIOUS
  <2>4. pick(a) \in 0 .. m - 1 /\ a = Address(seg, off + pick(a))
    BY <1>4, <2>2, <2>3
  <2> DEFINE j == pick(a)
  <2>5. j \in Word /\ Address(seg, off + i) = Address(seg, off + j)
    BY <1>3, <2>4
  <2> HIDE DEF j
  <2>6. i = j
    BY <2>1, <2>5, AddressDistinct DEF MemoryTypeOK
  <2>7. ram'[a] = b[pick(a)]
    <3> HIDE DEF a, pick
    <3> QED
      BY <1>1, <2>2, <2>3
  <2> QED
    BY <2>6, <2>7 DEF j
<1>8. ASSUME NEW a \in Ram \ Span(seg, off, m) PROVE ram'[a] = ram[a]
  <2>1. ~ \E i \in 0 .. m - 1 : a = Address(seg, off + i)
    BY DEF Span
  <2> HIDE DEF pick
  <2> QED
    BY <1>1, <2>1
<1>9. /\ ram' \in [Ram -> Byte] /\ shadowRam' \in [Ram -> SUBSET Flag]
      /\ \A i \in 0 .. m - 1 : ram'[Address(seg, off + i)] = b[i]
      /\ \A a \in Ram \ Span(seg, off, m) : ram'[a] = ram[a]
      /\ shadowRam' = Granted(seg, off, m)
  BY <1>1, <1>5, <1>6, <1>7, <1>8
<1> QED
  BY <1>9 DEF m

-----------------------------------------------------------------------------
(* The file of the host.                                                     *)

LEMMA ReadAtIs ==
    ASSUME NEW f \in Seq(Byte), NEW pos \in Nat, NEW n \in Nat
    PROVE  LET r == ReadAt(f, pos, n)
           IN  /\ r \in Seq(Byte) /\ Len(r) <= n
               /\ Len(r) = 0 \/ pos + Len(r) <= Len(f)
               /\ \A k \in 0 .. Len(r) : Len(ReadAt(f, pos, k)) = k
               /\ \A i \in 1 .. Len(r) : r[i] = f[pos + i]
<1>1. Len(f) \in Nat /\ \A i \in 1 .. Len(f) : f[i] \in Byte
  BY LenProperties
<1>2. ASSUME NEW k \in Nat
      PROVE  LET r == ReadAt(f, pos, k)
             IN  /\ r \in Seq(Byte) /\ Len(r) <= k
                 /\ Len(r) = IF pos >= Len(f) THEN 0 ELSE IF pos + k < Len(f) THEN k ELSE Len(f) - pos
                 /\ \A i \in 1 .. Len(r) : r[i] = f[pos + i]
  <2> DEFINE h == IF pos + k < Len(f) THEN pos + k ELSE Len(f)
             r == ReadAt(f, pos, k)
  <2>1. h \in Int /\ h <= Len(f) /\ r = SubSeq(f, pos + 1, h)
    BY <1>1 DEF ReadAt
  <2>2. \A i \in pos + 1 .. h : f[i] \in Byte
    BY <1>1
  <2>3. pos + 1 \in Int
    OBVIOUS
  <2> HIDE DEF r
  <2>4. /\ r \in Seq(Byte)
        /\ Len(r) = IF pos + 1 <= h THEN h - (pos + 1) + 1 ELSE 0
        /\ \A i \in 1 .. h - (pos + 1) + 1 : r[i] = f[(pos + 1) + i - 1]
    <3> HIDE DEF h
    <3> QED
      BY <2>1, <2>2, <2>3, SubSeqProperties, SMTT(60)
  <2>5. \A i \in 1 .. h - (pos + 1) + 1 : (pos + 1) + i - 1 = pos + i
    OBVIOUS
  <2>6. Len(r) = IF pos >= Len(f) THEN 0 ELSE IF pos + k < Len(f) THEN k ELSE Len(f) - pos
    BY <1>1, <2>4
  <2>7. \A i \in 1 .. Len(r) : i \in 1 .. h - (pos + 1) + 1
    BY <1>1, <2>4
  <2>8. Len(r) <= k
    BY <1>1, <2>6
  <2>9. \A i \in 1 .. Len(r) : r[i] = f[pos + i]
    BY <2>4, <2>5, <2>7
  <2> QED
    BY <2>4, <2>6, <2>8, <2>9 DEF r
<1> DEFINE r == ReadAt(f, pos, n)
<1>3. r \in Seq(Byte) /\ Len(r) <= n /\ \A i \in 1 .. Len(r) : r[i] = f[pos + i]
  BY <1>2
<1>4. Len(r) = IF pos >= Len(f) THEN 0 ELSE IF pos + n < Len(f) THEN n ELSE Len(f) - pos
  BY <1>2
<1> HIDE DEF r
<1>5. Len(r) = 0 \/ pos + Len(r) <= Len(f)
  BY <1>1, <1>4
<1>6. ASSUME NEW k \in 0 .. Len(r) PROVE Len(ReadAt(f, pos, k)) = k
  <2>1. k \in Nat
    OBVIOUS
  <2>2. Len(ReadAt(f, pos, k)) =
          IF pos >= Len(f) THEN 0 ELSE IF pos + k < Len(f) THEN k ELSE Len(f) - pos
    BY <1>2, <2>1
  <2> QED
    BY <1>1, <1>4, <2>1, <2>2
<1> QED
  BY <1>3, <1>5, <1>6 DEF r

\* A write leaves the file as long as it is, or makes it end where the write ends.
LEMMA WriteAtType ==
    ASSUME NEW f \in Seq(Byte), NEW pos \in Nat, NEW bytes \in Seq(Byte)
    PROVE  /\ WriteAt(f, pos, bytes) \in Seq(Byte)
           /\ Len(WriteAt(f, pos, bytes)) \in {Len(f), pos + Len(bytes)}
<1>1. CASE bytes = <<>>
  BY <1>1 DEF WriteAt
<1>2. CASE bytes # <<>>
  <2> DEFINE end == pos + Len(bytes)
             n == IF end > Len(f) THEN end ELSE Len(f)
             e(i) == IF i \in pos + 1 .. end THEN bytes[i - pos]
                     ELSE IF i <= Len(f) THEN f[i] ELSE 0
  <2>1. /\ Len(f) \in Nat /\ \A i \in 1 .. Len(f) : f[i] \in Byte
        /\ Len(bytes) \in Nat /\ \A i \in 1 .. Len(bytes) : bytes[i] \in Byte
    BY LenProperties
  <2>2. n \in Nat
    BY <2>1
  <2>3. WriteAt(f, pos, bytes) = [i \in 1 .. n |-> e(i)]
    BY <1>2 DEF WriteAt
  <2>4. \A i \in 1 .. n : e(i) \in Byte
    <3>1. 0 \in Byte
      BY DEF Byte
    <3>2. \A i \in pos + 1 .. end : i - pos \in 1 .. Len(bytes)
      BY <2>1
    <3> QED
      BY <2>1, <2>2, <3>1, <3>2
  <2>5. n \in {Len(f), pos + Len(bytes)}
    BY <2>1
  <2> HIDE DEF n, e
  <2>6. WriteAt(f, pos, bytes) \in Seq(Byte) /\ Len(WriteAt(f, pos, bytes)) = n
    BY <2>2, <2>3, <2>4, IsASeq
  <2> QED
    BY <2>5, <2>6
<1> QED
  BY <1>1, <1>2

LEMMA ReceivedIs ==
    ASSUME NEW b \in [Word -> Byte], NEW bytes \in Seq(Byte)
    PROVE  /\ Received(b, bytes) \in [Word -> Byte]
           /\ \A i \in Word : i < Len(bytes) => Received(b, bytes)[i] = bytes[i + 1]
<1>1. Len(bytes) \in Nat /\ \A i \in 1 .. Len(bytes) : bytes[i] \in Byte
  BY LenProperties
<1>2. \A i \in Word : i < Len(bytes) => i + 1 \in 1 .. Len(bytes)
  BY <1>1 DEF Word
<1> QED
  BY <1>1, <1>2 DEF Received

-----------------------------------------------------------------------------
(* Memory, buffers and file hold bytes.                                      *)

\* A buffer filled from the program's memory, with the other one as it was.
LEMMA FillInv ==
    ASSUME Inv, NEW seg \in Segs, NEW off \in Int, NEW bytes, NEW h \in {0, 1}
    PROVE  Filled(pathBuffers[h], seg, off, bytes) \in [Word -> Byte]
  BY FilledType DEF Inv

\* The name of a directory and its null, in a buffer.
LEMMA NamePut ==
    ASSUME NEW b \in [Word -> Byte], NEW dir \in Directories, Len(dir) < CwdSize
    PROVE  LET r == Received(b, Append(dir, 0))
           IN  /\ r \in [Word -> Byte]
               /\ Transferred(WordMod, r) = Len(dir) + 1 /\ Len(dir) + 1 \in 1 .. WordMod
               /\ \A i \in 1 .. Len(dir) + 1 : r[i - 1] = Append(dir, 0)[i]
<1> DEFINE r == Received(b, Append(dir, 0))
           n == Len(dir)
<1>1. dir \in Seq(Byte) /\ n \in Word /\ \A i \in 1 .. n : dir[i] # 0
  <2>1. dir \in Seq(Byte)
    BY FilesAssumption
  <2>2. n \in Nat
    BY <2>1, LenProperties
  <2>3. n \in Word
    BY <2>2, FilesAssumption DEF Word
  <2> QED
    BY <2>1, <2>3, FilesAssumption DEF Contains
<1> DEFINE s == Append(dir, 0)
<1>2. 0 \in Byte
  BY DEF Byte
<1>3. s \in Seq(Byte) /\ Len(s) = n + 1 /\ s[n + 1] = 0 /\ \A i \in 1 .. n : s[i] = dir[i]
  BY <1>1, <1>2
<1> HIDE DEF s
<1>4. r \in [Word -> Byte] /\ \A i \in Word : i < Len(s) => r[i] = s[i + 1]
  <2>1. r = Received(b, s)
    BY DEF s
  <2> HIDE DEF r
  <2> QED
    BY <1>3, <2>1, ReceivedIs
<1> HIDE DEF r, n
<1>5. n \in Nat /\ n < WordMod
  BY <1>1 DEF Word
<1>6. \A i \in 1 .. n + 1 : i - 1 \in Word /\ i - 1 < n + 1 /\ (i - 1) + 1 = i
  BY <1>5 DEF Word
<1>7. \A i \in 1 .. n + 1 : r[i - 1] = s[i]
  BY <1>3, <1>4, <1>6
<1>8. r[n] = 0
  BY <1>1, <1>3, <1>4, <1>5
<1>9. ASSUME NEW i \in Word, i < n PROVE r[i] # 0
  <2>1. i + 1 \in 1 .. n /\ i < n + 1
    BY <1>5, <1>9 DEF Word
  <2> QED
    BY <1>1, <1>3, <1>4, <2>1 DEF n
<1>10. Nulls(r) # {}
  BY <1>1, <1>4, <1>8 DEF Nulls
<1>11. Least(Nulls(r)) = n
  <2> DEFINE l == Least(Nulls(r))
  <2>1. l \in Word /\ r[l] = 0 /\ \A i \in Word : i < l => r[i] # 0
    BY <1>4, <1>10, LeastIs
  <2> HIDE DEF l
  <2>2. l = n
    BY <1>1, <1>8, <1>9, <2>1 DEF Word
  <2> QED
    BY <2>2 DEF l
<1>12. Transferred(WordMod, r) = n + 1
  BY <1>10, <1>11 DEF Transferred
<1> QED
  BY <1>4, <1>5, <1>7, <1>12 DEF r, s, n

\* What is written is the first bytes of the buffer.
LEMMA WrittenType ==
    ASSUME NEW b \in [Word -> Byte], NEW n \in Nat, n <= WordMod
    PROVE  LET bytes == [i \in 1 .. n |-> b[i - 1]]
           IN  bytes \in Seq(Byte) /\ Len(bytes) = n
<1>1. \A i \in 1 .. n : b[i - 1] \in Byte
  BY DEF Word
<1> QED
  BY <1>1, IsASeq

LEMMA InitInv == Init => Inv
<1> SUFFICES ASSUME Init
             PROVE  Inv
  OBVIOUS
<1>1. pathBuffers \in [{0, 1} -> [Word -> Byte]]
  BY FilesAssumption DEF Init
<1>2. file \in Seq(Byte) /\ position \in Nat
  BY FilesAssumption DEF Init
<1> QED
  BY <1>1, <1>2 DEF Init, Inv

\* The data segment is never written but by these.
LEMMA CallsInv ==
    ASSUME Inv, NEW dx \in Offsets,
           \/ \E ah \in PathCalls : PathCall(ah, dx)
           \/ \E di \in Offsets : Rename(dx, di)
           \/ PrintString(dx)
           \/ \E cx \in Counts \cap Word : Read(dx, cx) \/ Write(dx, cx)
           \/ \E dir \in Directories : GetCwd(dx, dir)
           \/ \E b \in Byte : StoreByte(dx, b)
    PROVE  Inv'
<1>1. "DS" \in Segs /\ "ES" \in Segs
  BY DEF Segs
<1>2. dx \in Word /\ dx \in Int
  BY FilesAssumption DEF Word
<1>3. UNCHANGED sreg
  BY DEF PathCall, Rename, PrintString, Read, Write, GetCwd, StoreByte, Makes
<1>4. \A f, g \in [Word -> Byte] : /\ [pathBuffers EXCEPT ![0] = f] \in [{0, 1} -> [Word -> Byte]]
                                   /\ [pathBuffers EXCEPT ![0] = f][0] = f
                                   /\ [pathBuffers EXCEPT ![0] = f, ![1] = g] \in [{0, 1} -> [Word -> Byte]]
  BY DEF Inv
<1>5. \A bytes, off \in Int : Filled(pathBuffers[0], "DS", off, bytes) \in [Word -> Byte]
  BY <1>1, FillInv, Zenon
<1>6. ASSUME NEW ah \in PathCalls, PathCall(ah, dx) PROVE Inv'
  <2>1. pathBuffers' \in [{0, 1} -> [Word -> Byte]]
    <3> DEFINE f == Filled(pathBuffers[0], "DS", dx, WordMod)
    <3>1. f \in [Word -> Byte]
      BY <1>1, <1>2, FillInv
    <3>2. pathBuffers' = [pathBuffers EXCEPT ![0] = f]
      BY <1>6 DEF PathCall
    <3> HIDE DEF f
    <3> QED
      BY <1>4, <3>1, <3>2
  <2> QED
    BY <1>3, <1>6, <2>1 DEF PathCall, Inv, MemoryTypeOK, ShadowTypeOK
<1>7. ASSUME NEW di \in Offsets, Rename(dx, di) PROVE Inv'
  <2>1. pathBuffers' \in [{0, 1} -> [Word -> Byte]]
    <3> DEFINE f == Filled(pathBuffers[0], "DS", dx, WordMod)
               g == Filled(pathBuffers[1], "ES", di, WordMod)
    <3>1. di \in Int
      BY FilesAssumption DEF Word
    <3>2. f \in [Word -> Byte] /\ g \in [Word -> Byte]
      BY <1>1, <1>2, <3>1, FillInv
    <3>3. pathBuffers' = [pathBuffers EXCEPT ![0] = f, ![1] = g]
      BY <1>7 DEF Rename
    <3> HIDE DEF f, g
    <3> QED
      BY <1>4, <3>2, <3>3
  <2> QED
    BY <1>3, <1>7, <2>1 DEF Rename, Inv, MemoryTypeOK, ShadowTypeOK
<1>8. CASE PrintString(dx)
  <2>1. pathBuffers' \in [{0, 1} -> [Word -> Byte]]
    <3> DEFINE f == Filled(pathBuffers[0], "DS", dx, WordMod)
    <3>1. f \in [Word -> Byte]
      BY <1>1, <1>2, FillInv
    <3>2. pathBuffers' = [pathBuffers EXCEPT ![0] = f]
      BY <1>8 DEF PrintString
    <3> HIDE DEF f
    <3> QED
      BY <1>4, <3>1, <3>2
  <2> QED
    BY <1>3, <1>8, <2>1 DEF PrintString, Inv, MemoryTypeOK, ShadowTypeOK
<1>9. ASSUME NEW cx \in Counts \cap Word, Read(dx, cx) PROVE Inv'
  <2> DEFINE r(n) == ReadAt(file, position, n)
             b(n) == Received(pathBuffers[0], r(n))
  <2>1. PICK n \in 0 .. Len(r(cx)) : /\ pathBuffers' = [pathBuffers EXCEPT ![0] = b(n)]
                                     /\ position' = position + n
    BY <1>9 DEF Read
  <2>2. cx \in Nat
    BY DEF Word
  <2>3. r(cx) \in Seq(Byte)
    BY <2>2, ReadAtIs DEF Inv
  <2>4. n \in Nat
    BY <2>3, LenProperties
  <2>5. r(n) \in Seq(Byte)
    BY <2>4, ReadAtIs DEF Inv
  <2> HIDE DEF r
  <2>6. b(n) \in [Word -> Byte]
    BY <2>5, ReceivedIs DEF Inv
  <2> HIDE DEF b
  <2>7. pathBuffers' \in [{0, 1} -> [Word -> Byte]] /\ pathBuffers'[0] = b(n)
    BY <1>4, <2>1, <2>6
  <2>8. CopyOut(b(n), "DS", dx, cx)
    BY <1>9, <2>7 DEF Read
  <2>9. Transferred(cx, b(n)) \in 0 .. WordMod
    BY DEF Transferred, Word
  <2>10. ram' \in [Ram -> Byte] /\ shadowRam' \in [Ram -> SUBSET Flag]
    BY <1>1, <1>2, <2>6, <2>8, <2>9, CopyOutIs DEF Inv
  <2>11. file' = file
    BY <1>9 DEF Read
  <2>12. position' \in Nat
    BY <2>1, <2>4 DEF Inv
  <2> QED
    BY <1>3, <2>7, <2>10, <2>11, <2>12 DEF Inv, MemoryTypeOK, ShadowTypeOK
<1>10. ASSUME NEW cx \in Counts \cap Word, Write(dx, cx) PROVE Inv'
  <2> DEFINE f == Filled(pathBuffers[0], "DS", dx, cx)
             w(n) == [i \in 1 .. n |-> f[i - 1]]
  <2>1. f \in [Word -> Byte]
    BY <1>1, <1>2, FillInv
  <2>2. pathBuffers' = [pathBuffers EXCEPT ![0] = f]
    BY <1>10 DEF Write
  <2>3. pathBuffers' \in [{0, 1} -> [Word -> Byte]] /\ pathBuffers'[0] = f
    <3> HIDE DEF f
    <3> QED
      BY <1>4, <2>1, <2>2
  <2>4. PICK n \in 0 .. cx : file' = WriteAt(file, position, w(n)) /\ position' = position + n
    BY <1>10, <2>3 DEF Write
  <2>5. n \in Nat /\ n <= WordMod
    BY DEF Word
  <2>6. w(n) \in Seq(Byte)
    <3> HIDE DEF f
    <3> QED
      BY <2>1, <2>5, WrittenType
  <2> HIDE DEF w
  <2>7. file' \in Seq(Byte)
    BY <2>4, <2>6, WriteAtType DEF Inv
  <2>8. position' \in Nat
    BY <2>4, <2>5 DEF Inv
  <2>9. UNCHANGED <<ram, shadowRam>>
    BY <1>10 DEF Write
  <2> QED
    BY <1>3, <2>3, <2>7, <2>8, <2>9 DEF Inv, MemoryTypeOK, ShadowTypeOK
<1>11. ASSUME NEW dir \in Directories, GetCwd(dx, dir) PROVE Inv'
  <2> DEFINE b == Received(pathBuffers[0], Append(dir, 0))
  <2>1. Len(dir) < CwdSize /\ pathBuffers' = [pathBuffers EXCEPT ![0] = b]
    BY <1>11 DEF GetCwd
  <2>2. pathBuffers[0] \in [Word -> Byte]
    BY DEF Inv
  <2>3. b \in [Word -> Byte] /\ Transferred(WordMod, b) \in 1 .. WordMod
    BY <2>1, <2>2, NamePut
  <2> HIDE DEF b
  <2>4. pathBuffers' \in [{0, 1} -> [Word -> Byte]] /\ pathBuffers'[0] = b
    BY <1>4, <2>1, <2>3
  <2>5. CopyOut(b, "DS", dx, WordMod)
    BY <1>11, <2>4 DEF GetCwd
  <2>6. Transferred(WordMod, b) \in 0 .. WordMod
    BY <2>3
  <2>7. ram' \in [Ram -> Byte] /\ shadowRam' \in [Ram -> SUBSET Flag]
    BY <1>1, <1>2, <2>3, <2>5, <2>6, CopyOutIs DEF Inv
  <2>8. UNCHANGED <<file, position>>
    BY <1>11 DEF GetCwd
  <2> QED
    BY <1>3, <2>4, <2>7, <2>8 DEF Inv, MemoryTypeOK, ShadowTypeOK
<1>12. ASSUME NEW c \in Byte, StoreByte(dx, c) PROVE Inv'
  <2>1. /\ ram' = [a \in Ram |-> IF a = Address("DS", dx) THEN c ELSE ram[a]]
        /\ shadowRam' = Granted("DS", dx, 1)
    BY <1>12 DEF StoreByte, Store
  <2>2. ram' \in [Ram -> Byte]
    BY <2>1 DEF Inv, MemoryTypeOK
  <2>3. shadowRam' \in [Ram -> SUBSET Flag]
    <3>1. "fRead" \in Flag /\ \A a \in Ram : shadowRam[a] \in SUBSET Flag
      BY DEF Flag, Inv, MemoryTypeOK, ShadowTypeOK
    <3> QED
      BY <2>1, <3>1 DEF Granted
  <2>4. UNCHANGED <<pathBuffers, file, position>>
    BY <1>12 DEF StoreByte
  <2> QED
    BY <1>3, <2>2, <2>3, <2>4 DEF Inv, MemoryTypeOK, ShadowTypeOK
<1> QED
  BY <1>6, <1>7, <1>8, <1>9, <1>10, <1>11, <1>12

LEMMA NextInv == Inv /\ [Next]_filesVars => Inv'
<1> SUFFICES ASSUME Inv, [Next]_filesVars
             PROVE  Inv'
  OBVIOUS
<1>1. ASSUME NEW cxdx \in Counts, NEW al \in 0 .. 2, Seek(cxdx, al) PROVE Inv'
  <2>1. position' \in Nat
    BY <1>1 DEF Seek
  <2> QED
    BY <1>1, <2>1 DEF Seek, Makes, Inv, MemoryTypeOK, ShadowTypeOK
<1>2. ASSUME NEW yes \in BOOLEAN, IsTerminal(yes) PROVE Inv'
  BY <1>2 DEF IsTerminal, Makes, Inv, MemoryTypeOK, ShadowTypeOK
<1>3. CASE GetCwdFails
  BY <1>3 DEF GetCwdFails, Makes, Inv, MemoryTypeOK, ShadowTypeOK
<1>4. CASE End
  BY <1>4 DEF End, memoryVars, Inv, MemoryTypeOK, ShadowTypeOK
<1>5. CASE UNCHANGED filesVars
  BY <1>5 DEF filesVars, memoryVars, Inv, MemoryTypeOK, ShadowTypeOK
<1>6. CASE Next
  BY <1>1, <1>2, <1>3, <1>4, <1>5, <1>6, CallsInv DEF Next, Ended
<1> QED
  BY <1>5, <1>6

LEMMA Invariance == Spec => []Inv
<1>1. Init => Inv
  BY InitInv
<1>2. Inv /\ [Next]_filesVars => Inv'
  BY NextInv
<1> QED
  BY <1>1, <1>2, PTL DEF Spec

-----------------------------------------------------------------------------
(* Strings end before the buffer does.                                       *)

\* What is before the first of some bytes.
LEMMA BeforeIs ==
    ASSUME NEW s \in Seq(Byte), NEW c, Contains(s, c)
    PROVE  \E i \in 1 .. Len(s) : /\ s[i] = c
                                  /\ Before(s, c) = SubSeq(s, 1, i - 1)
                                  /\ Before(s, c) \in Seq(Byte)
                                  /\ Len(Before(s, c)) = i - 1
                                  /\ ~Contains(SubSeq(s, 1, i - 1), c)
<1> DEFINE I == {i \in 1 .. Len(s) : s[i] = c}
           k == Min(I)
<1>1. Len(s) \in Nat /\ \A i \in 1 .. Len(s) : s[i] \in Byte
  BY LenProperties
<1>2. I \in SUBSET Nat /\ I # {}
  BY <1>1 DEF Contains
<1>3. SelectInSeq(s, LAMBDA d : d = c) = IF I # {} THEN Min(I) ELSE 0
  BY DEF SelectInSeq
<1>4. Before(s, c) = SubSeq(s, 1, k - 1)
  BY <1>2, <1>3 DEF Before
<1>5. k \in I /\ \A j \in I : k <= j
  <2> HIDE DEF I
  <2>1. \E i \in I : \A j \in I : i <= j
    BY <1>2, LowestExists
  <2> QED
    BY <2>1, Zenon DEF Min
<1> HIDE DEF k
<1>6. k \in 1 .. Len(s) /\ s[k] = c /\ \A j \in 1 .. Len(s) : s[j] = c => k <= j
  BY <1>5
<1> DEFINE t == SubSeq(s, 1, k - 1)
<1>7. \A i \in 1 .. k - 1 : s[i] \in Byte /\ s[i] # c
  BY <1>1, <1>6
<1>8. /\ t \in Seq(Byte)
      /\ Len(t) = IF 1 <= k - 1 THEN (k - 1) - 1 + 1 ELSE 0
      /\ \A i \in 1 .. (k - 1) - 1 + 1 : t[i] = s[1 + i - 1]
  <2>1. k - 1 \in Int
    BY <1>1, <1>6
  <2> QED
    BY <1>7, <2>1, SubSeqProperties
<1>9. Len(t) = k - 1
  BY <1>1, <1>6, <1>8
<1>10. \A i \in 1 .. k - 1 : t[i] = s[i]
  <2>1. \A i \in 1 .. k - 1 : i \in 1 .. (k - 1) - 1 + 1 /\ 1 + i - 1 = i
    BY <1>1, <1>6
  <2> QED
    BY <1>8, <2>1
<1>11. ~Contains(t, c)
  BY <1>7, <1>9, <1>10 DEF Contains
<1> QED
  BY <1>4, <1>6, <1>8, <1>9, <1>11

\* The string of a filled buffer.
LEMMA FilledLength ==
    ASSUME Inv, NEW seg \in Segs, NEW off \in Int, NEW h \in {0, 1}
    PROVE  LET s == CString(Filled(pathBuffers[h], seg, off, WordMod))
           IN  s \in Seq(Byte) /\ Len(s) \in Word
<1> DEFINE b == Filled(pathBuffers[h], seg, off, WordMod)
<1>1. b \in [Word -> Byte] /\ b[WordMod - 1] = 0
  BY FilledType DEF Inv
<1> HIDE DEF b
<1>2. CString(b) \in Seq(Byte) /\ Len(CString(b)) \in Word
  BY <1>1, StringIn
<1> QED
  BY <1>2 DEF b

\* What the buffers hold after a call that takes a path, or two.
LEMMA BuffersAre ==
    ASSUME Inv, NEW f, NEW g
    PROVE  /\ [pathBuffers EXCEPT ![0] = f][0] = f
           /\ [pathBuffers EXCEPT ![0] = f, ![1] = g][0] = f
           /\ [pathBuffers EXCEPT ![0] = f, ![1] = g][1] = g
  BY DEF Inv

\* What the host is asked for are strings of bytes.
Strings == asked \in Seq(Seq(Byte)) /\ StringsEnd

LEMMA StringsStep ==
    ASSUME Inv, Strings, [Next]_filesVars
    PROVE  Strings'
<1>1. "DS" \in Segs /\ "ES" \in Segs
  BY DEF Segs
<1>2. \A off \in Offsets : off \in Int
  BY FilesAssumption DEF Word
<1>3. \A n \in Word : n < WordMod
  BY DEF Word
<1>4. asked' = <<>> => Strings'
  BY DEF Strings, StringsEnd
<1>5. \A s \in Seq(Byte) : Len(s) \in Word /\ asked' = <<s>> => Strings'
  BY <1>3 DEF Strings, StringsEnd
<1>6. \A s, t \in Seq(Byte) : Len(s) \in Word /\ Len(t) \in Word /\ asked' = <<s, t>> => Strings'
  BY <1>3 DEF Strings, StringsEnd
<1>7. ASSUME NEW ah \in PathCalls, NEW dx \in Offsets, PathCall(ah, dx) PROVE Strings'
  <2> DEFINE f == Filled(pathBuffers[0], "DS", dx, WordMod)
  <2>1. CString(f) \in Seq(Byte) /\ Len(CString(f)) \in Word
    BY <1>1, <1>2, FilledLength
  <2>2. pathBuffers' = [pathBuffers EXCEPT ![0] = f] /\ asked' = <<CString(pathBuffers'[0])>>
    BY <1>7 DEF PathCall
  <2> HIDE DEF f
  <2>3. asked' = <<CString(f)>>
    BY <2>2, BuffersAre
  <2> QED
    BY <1>5, <2>1, <2>3
<1>8. ASSUME NEW dx \in Offsets, NEW di \in Offsets, Rename(dx, di) PROVE Strings'
  <2> DEFINE f == Filled(pathBuffers[0], "DS", dx, WordMod)
             g == Filled(pathBuffers[1], "ES", di, WordMod)
  <2>1. /\ CString(f) \in Seq(Byte) /\ Len(CString(f)) \in Word
        /\ CString(g) \in Seq(Byte) /\ Len(CString(g)) \in Word
    BY <1>1, <1>2, FilledLength
  <2>2. /\ pathBuffers' = [pathBuffers EXCEPT ![0] = f, ![1] = g]
        /\ asked' = <<CString(pathBuffers'[0]), CString(pathBuffers'[1])>>
    BY <1>8 DEF Rename
  <2> HIDE DEF f, g
  <2>3. asked' = <<CString(f), CString(g)>>
    BY <2>2, BuffersAre
  <2> QED
    BY <1>6, <2>1, <2>3
<1>9. ASSUME NEW dx \in Offsets, PrintString(dx) PROVE Strings'
  <2> DEFINE f == Filled(pathBuffers[0], "DS", dx, WordMod)
             s == CString(f)
             shown(string) == IF Contains(string, Dollar) THEN <<Before(string, Dollar)>> ELSE <<>>
  <2>1. s \in Seq(Byte) /\ Len(s) \in Word
    BY <1>1, <1>2, FilledLength
  <2>2. /\ pathBuffers' = [pathBuffers EXCEPT ![0] = f]
        /\ asked' = shown(CString(pathBuffers'[0]))
    BY <1>9 DEF PrintString
  <2> HIDE DEF f, shown
  <2>3. asked' = shown(s)
    BY <2>2, BuffersAre
  <2> HIDE DEF s
  <2> USE DEF shown
  <2>4. CASE Contains(s, Dollar)
    <3> DEFINE t == Before(s, Dollar)
    <3>1. t \in Seq(Byte) /\ Len(t) < WordMod
      <4>1. t \in Seq(Byte) /\ \E i \in 1 .. Len(s) : Len(t) = i - 1
        BY <2>1, <2>4, BeforeIs
      <4> HIDE DEF t
      <4> QED
        BY <2>1, <4>1 DEF Word
    <3>2. asked' = <<t>>
      BY <2>3, <2>4
    <3> HIDE DEF t
    <3> QED
      BY <3>1, <3>2 DEF Strings, StringsEnd
  <2> QED
    BY <1>4, <2>3, <2>4
<1>10. ASSUME NEW dx \in Offsets,
              \/ \E cx \in Counts \cap Word : Read(dx, cx) \/ Write(dx, cx)
              \/ \E dir \in Directories : GetCwd(dx, dir)
              \/ \E b \in Byte : StoreByte(dx, b)
       PROVE  Strings'
  BY <1>4, <1>10 DEF Read, Write, GetCwd, StoreByte
<1>11. ASSUME \/ \E cxdx \in Counts, al \in 0 .. 2 : Seek(cxdx, al)
              \/ \E yes \in BOOLEAN : IsTerminal(yes)
              \/ GetCwdFails
       PROVE  Strings'
  BY <1>4, <1>11 DEF Seek, IsTerminal, GetCwdFails
<1>12. CASE End \/ Ended \/ UNCHANGED filesVars
  BY <1>12 DEF End, Ended, filesVars, Strings, StringsEnd
<1>13. CASE Next
  BY <1>7, <1>8, <1>9, <1>10, <1>11, <1>12, <1>13 DEF Next
<1> QED
  BY <1>12, <1>13

LEMMA StringsInvariance == Spec => []Strings
<1>1. Init => Strings
  BY DEF Init, Strings, StringsEnd
<1>2. Inv /\ Strings /\ [Next]_filesVars => Strings'
  BY StringsStep
<1> QED
  BY <1>1, <1>2, Invariance, PTL DEF Spec

\* A string the host is given ends inside its buffer, of 0x10000 bytes in initString(),
\* whatever the program passes and whatever malloc() and earlier calls left there.
THEOREM StringsEndInBuffer == Spec => []StringsEnd
  BY StringsInvariance, PTL DEF Strings

-----------------------------------------------------------------------------
(* The types of the rest.                                                    *)

\* What the program may find after a call, and the errno a failure goes by.
Answered ==
    /\ answer.cf \in BOOLEAN /\ answer.words \in Seq(Word)
    /\ errno \in {"none", "ENOENT", "ENOTTY", "EIO"}

\* The bounds of the model on the file.
Bounded == Len(file) <= MaxFile /\ position <= MaxPosition

\* The two words of a DWord.
LEMMA DWordWords ==
    ASSUME NEW d \in 0 .. DWordMod - 1
    PROVE  d % WordMod \in Word /\ d \div WordMod \in Word
<1> DEFINE w == WordMod
<1>1. w \in Nat \ {0} /\ d \in Nat /\ d < w * w
  BY DEF DWordMod
<1> HIDE DEF w
<1>2. d % w \in 0 .. w - 1 /\ d \div w \in Nat
  BY <1>1, SMT
<1>3. d \div w < w
  BY <1>1, SMT
<1> QED
  BY <1>2, <1>3 DEF Word, w

\* dosResult() and dosError(), as the calls come to them.
LEMMA HostAnswers ==
    ASSUME Answered
    PROVE  /\ HostDone(<<>>) => Answered'
           /\ \A n \in Word : HostDone(<<n>>) => Answered'
           /\ \A m, n \in Word : HostDone(<<m, n>>) => Answered'
           /\ HostLacks => Answered'
<1>1. <<>> \in Seq(Word) /\ <<2>> \in Seq(Word)
  BY BoundsAssumption
<1>2. \A m, n \in Word : <<m>> \in Seq(Word) /\ <<m, n>> \in Seq(Word)
  OBVIOUS
<1>3. ASSUME NEW words \in Seq(Word), HostDone(words) PROVE Answered'
  BY <1>3 DEF HostDone, Done, Answered
<1>4. ASSUME HostLacks PROVE Answered'
  BY <1>1, <1>4 DEF HostLacks, NotFound, Answered
<1> QED
  BY <1>1, <1>2, <1>3, <1>4, Zenon

\* How far the host has gone in the file, and what it says it has transferred.
LEMMA ReadBounds ==
    ASSUME Inv, Bounded, NEW dx \in Offsets, NEW cx \in Counts \cap Word, Read(dx, cx)
    PROVE  Bounded' /\ \E n \in Word : HostDone(<<n>>)
<1> DEFINE l == Len(ReadAt(file, position, cx))
<1>1. PICK n \in 0 .. l : position' = position + n /\ HostDone(<<n>>)
  BY DEF Read
<1>2. file' = file
  BY DEF Read
<1>3. cx \in Nat /\ cx < WordMod
  BY DEF Word
<1>4. l \in Nat /\ l <= cx /\ (l = 0 \/ position + l <= Len(file))
  <2>1. /\ ReadAt(file, position, cx) \in Seq(Byte) /\ l <= cx
        /\ l = 0 \/ position + l <= Len(file)
    BY <1>3, ReadAtIs DEF Inv
  <2> QED
    BY <2>1, LenProperties
<1> HIDE DEF l
<1>5. Len(file) \in Nat /\ position \in Nat
  BY LenProperties DEF Inv
<1>6. position' <= MaxPosition
  BY <1>1, <1>4, <1>5, BoundsAssumption DEF Bounded
<1>7. n \in Word
  BY <1>1, <1>3, <1>4 DEF Word
<1> QED
  BY <1>1, <1>2, <1>6, <1>7 DEF Bounded

LEMMA WriteBounds ==
    ASSUME Inv, Bounded, NEW dx \in Offsets, NEW cx \in Counts \cap Word, Write(dx, cx)
    PROVE  Bounded' /\ \E n \in Word : HostDone(<<n>>)
<1> DEFINE f == Filled(pathBuffers[0], "DS", dx, cx)
           b == pathBuffers'[0]
           bytes(n) == [i \in 1 .. n |-> b[i - 1]]
<1>1. "DS" \in Segs /\ dx \in Int
  BY FilesAssumption DEF Segs, Word
<1>2. f \in [Word -> Byte] /\ pathBuffers' = [pathBuffers EXCEPT ![0] = f]
  BY <1>1, FillInv DEF Write
<1>3. b \in [Word -> Byte]
  <2> HIDE DEF f
  <2> QED
    BY <1>2, BuffersAre
<1>4. PICK n \in 0 .. cx : /\ file' = WriteAt(file, position, bytes(n))
                           /\ position' = position + n
                           /\ HostDone(<<n>>)
  BY Zenon DEF Write
<1> HIDE DEF b
<1>5. cx \in Nat /\ cx < WordMod /\ position + cx <= MaxFile
  BY DEF Write, Word
<1>6. n \in Nat /\ n <= cx /\ n \in Word
  BY <1>5 DEF Word
<1> DEFINE written == bytes(n)
<1>7. written \in Seq(Byte) /\ Len(written) = n
  BY <1>3, <1>5, <1>6, WrittenType
<1>8. Len(file') \in {Len(file), position + n}
  <2>1. file' = WriteAt(file, position, written)
    BY <1>4
  <2> HIDE DEF written
  <2> QED
    BY <1>7, <2>1, WriteAtType DEF Inv
<1>9. Len(file) \in Nat /\ position \in Nat
  BY LenProperties DEF Inv
<1>10. Len(file') <= MaxFile /\ position' <= MaxPosition
  BY <1>4, <1>5, <1>6, <1>8, <1>9, BoundsAssumption DEF Bounded
<1> QED
  BY <1>4, <1>6, <1>10 DEF Bounded

LEMMA SeekAnswers ==
    ASSUME Answered, NEW cxdx \in Counts, NEW al \in 0 .. 2, Seek(cxdx, al)
    PROVE  Answered'
<1> DEFINE cut == position' % DWordMod
<1>1. IF cut # DWordMod - 1 THEN HostDone(<<cut % WordMod, cut \div WordMod>>)
                            ELSE HostLacks
  BY DEF Seek
<1>2. cut \in 0 .. DWordMod - 1
  <2>1. position' \in Nat /\ DWordMod \in Nat \ {0}
    BY BoundsAssumption DEF Seek, DWordMod
  <2>2. \A p \in Nat, d \in Nat \ {0} : p % d \in 0 .. d - 1
    OBVIOUS
  <2> QED
    BY <2>1, <2>2, Zenon
<1> HIDE DEF cut
<1>3. cut % WordMod \in Word /\ cut \div WordMod \in Word
  BY <1>2, DWordWords
<1> QED
  BY <1>1, <1>3, HostAnswers, Zenon

LEMMA TypesStep ==
    ASSUME Inv, Answered, Bounded, passed.ah \in AH, status \in {"running", "ended"},
           [Next]_filesVars
    PROVE  Answered' /\ Bounded' /\ passed'.ah \in AH /\ status' \in {"running", "ended"}
<1>1. \A ah, dx, di, cx : Makes(ah, dx, di, cx) /\ ah \in AH
        => passed'.ah \in AH /\ status' \in {"running", "ended"}
  BY DEF Makes
<1>2. UNCHANGED <<answer, errno>> => Answered'
  BY DEF Answered
<1>3. UNCHANGED <<file, position>> => Bounded'
  BY DEF Bounded
<1>4. ASSUME NEW ah \in PathCalls, NEW dx \in Offsets, PathCall(ah, dx) PROVE Answered' /\ Bounded'
  <2>1. (HostDone(<<>>) \/ HostLacks) /\ UNCHANGED <<file, position>>
    BY <1>4 DEF PathCall
  <2> QED
    BY <1>3, <2>1, HostAnswers, Zenon
<1>5. ASSUME NEW di \in Offsets, NEW dx \in Offsets, Rename(dx, di) PROVE Answered' /\ Bounded'
  <2>1. (HostDone(<<>>) \/ HostLacks) /\ UNCHANGED <<file, position>>
    BY <1>5 DEF Rename
  <2> QED
    BY <1>3, <2>1, HostAnswers, Zenon
<1>6. ASSUME NEW dx \in Offsets, PrintString(dx) PROVE Answered' /\ Bounded'
  <2>1. errno' \in {errno, "EIO"} /\ UNCHANGED <<answer, file, position>>
    BY <1>6, Zenon DEF PrintString
  <2> QED
    BY <1>3, <2>1 DEF Answered
<1>7. ASSUME NEW dx \in Offsets, NEW cx \in Counts \cap Word, Read(dx, cx) \/ Write(dx, cx)
      PROVE  Answered' /\ Bounded'
  <2>1. Bounded' /\ \E n \in Word : HostDone(<<n>>)
    BY <1>7, ReadBounds, WriteBounds
  <2> QED
    BY <2>1, HostAnswers
<1>8. ASSUME NEW dx \in Offsets, NEW dir \in Directories, GetCwd(dx, dir)
      PROVE  Answered' /\ Bounded'
  <2>1. HostDone(<<>>) /\ UNCHANGED <<file, position>>
    BY <1>8 DEF GetCwd
  <2> QED
    BY <1>3, <2>1, HostAnswers, Zenon
<1>9. ASSUME NEW dx \in Offsets, NEW b \in Byte, StoreByte(dx, b) PROVE Answered' /\ Bounded'
  BY <1>2, <1>3, <1>9 DEF StoreByte
<1>10. ASSUME NEW cxdx \in Counts, NEW al \in 0 .. 2, Seek(cxdx, al) PROVE Answered' /\ Bounded'
  <2>1. position' <= MaxPosition /\ file' = file
    BY <1>10, BoundsAssumption DEF Seek
  <2> QED
    BY <1>10, <2>1, SeekAnswers DEF Bounded
<1>11. ASSUME NEW yes \in BOOLEAN, IsTerminal(yes) PROVE Answered' /\ Bounded'
  <2>1. DeviceBit \in Word /\ 0 \in Word
    BY FilesAssumption DEF Word
  <2>2. answer' = Done(<<IF yes THEN DeviceBit ELSE 0>>) /\ errno' \in {errno, "ENOTTY"}
        /\ UNCHANGED <<file, position>>
    BY <1>11 DEF IsTerminal
  <2> QED
    BY <1>3, <2>1, <2>2 DEF Done, Answered
<1>12. ASSUME GetCwdFails PROVE Answered' /\ Bounded'
  <2>1. HostLacks /\ UNCHANGED <<file, position>>
    BY <1>12 DEF GetCwdFails
  <2> QED
    BY <1>3, <2>1, HostAnswers, Zenon
<1>13. CASE End \/ UNCHANGED filesVars
  BY <1>13 DEF End, filesVars, Answered, Bounded
<1>14. ASSUME Next PROVE Answered' /\ Bounded'
  BY <1>4, <1>5, <1>6, <1>7, <1>8, <1>9, <1>10, <1>11, <1>12, <1>13, <1>14 DEF Next, Ended
<1>15. ASSUME Next PROVE passed'.ah \in AH /\ status' \in {"running", "ended"}
  BY <1>1, <1>13, <1>15
  DEF Next, Ended, PathCall, Rename, PrintString, Read, Write, GetCwd, StoreByte, Seek,
      IsTerminal, GetCwdFails, AH
<1> QED
  BY <1>13, <1>14, <1>15

\* Memory and the buffers hold bytes, the file and the position in it keep to the bounds of
\* the model, the host is asked for strings of bytes, and what a program finds in AX and DX
\* after a call are words, whatever it and the host do (handleSyscallDOS()).
THEOREM TypeCorrect == Spec => []TypeOK
<1> DEFINE Rest == /\ Answered /\ Bounded
                   /\ passed.ah \in AH /\ status \in {"running", "ended"}
<1>1. Init => Rest
  <2> SUFFICES ASSUME Init PROVE Rest
    OBVIOUS
  <2>1. Answered
    BY DEF Init, Done, Answered
  <2>2. Bounded
    BY BoundsAssumption DEF Init, Bounded
  <2> QED
    BY <2>1, <2>2 DEF Init, AH
<1>2. Inv /\ Rest /\ [Next]_filesVars => Rest'
  BY TypesStep
<1>3. Inv /\ Strings /\ Rest => TypeOK
  BY DEF Inv, Strings, Answered, Bounded, TypeOK
<1> QED
  BY <1>1, <1>2, <1>3, Invariance, StringsInvariance, PTL DEF Spec

-----------------------------------------------------------------------------
(* Strings and data reach the host and the program unharmed.                 *)

LEMMA ApiMemory ==
    /\ \A seg, off : Api!Address(seg, off) = Address(seg, off)
    /\ \A seg, off, n : Api!CanRead(seg, off, n) = CanRead(seg, off, n)
    /\ \A seg, off, n : Api!Granted(seg, off, n) = Granted(seg, off, n)
    /\ \A seg, off, n : Api!Span(seg, off, n) = Span(seg, off, n)
    /\ Api!Ram = Ram /\ Api!Byte = Byte
    /\ \A s, c : Api!Contains(s, c) = Contains(s, c)
  BY DEF Api!Address, Address, Api!ToWord, ToWord, Api!CanRead, CanRead, Api!Allowed, Allowed,
         Api!Granted, Granted, Api!Span, Span, Api!Ram, Ram, Api!Byte, Byte,
         Api!Contains, Contains

\* What DosApi calls a string.
LEMMA ApiString ==
    ASSUME NEW s, NEW seg, NEW off,
           CanRead(seg, off, Len(s)),
           \A i \in 1 .. Len(s) : s[i] = ram[Address(seg, off + i - 1)] /\ s[i] # 0,
           \/ Len(s) = WordMod - 1
           \/ /\ CanRead(seg, off, Len(s) + 1)
              /\ ram[Address(seg, off + (Len(s) + 1) - 1)] = 0
    PROVE  Api!IsString(s, seg, off)
<1>1. /\ Api!CanRead(seg, off, Len(s)) = CanRead(seg, off, Len(s))
      /\ Api!CanRead(seg, off, Len(s) + 1) = CanRead(seg, off, Len(s) + 1)
      /\ \A o : Api!Address(seg, o) = Address(seg, o)
  BY ApiMemory, Zenon
<1> QED
  BY <1>1, Zenon DEF Api!IsString

LEMMA ApiCalls ==
    ASSUME NEW ah, NEW d, NEW e, NEW c, Makes(ah, d, e, c)
    PROVE  /\ Api!Calls(ah)
           /\ Api!dx = d /\ Api!di = e /\ Api!cx = c
           /\ UNCHANGED sreg
<1>1. passed' = [ah |-> ah, dx |-> d, di |-> e, cx |-> c] /\ status = "running" /\ UNCHANGED <<status, sreg>>
  BY DEF Makes
<1> QED
  BY <1>1 DEF Api!Calls, Api!dx, Api!di, Api!cx

LEMMA ApiAnswers ==
    /\ \A words : HostDone(words) => Api!Succeeds(words)
    /\ HostLacks => Api!Missing
  BY DEF HostDone, HostLacks, Done, NotFound, Api!Succeeds, Api!Missing, Api!Answers

\* The string of a buffer that has been filled is one of the program's.
LEMMA FilledIsString ==
    ASSUME Inv, NEW seg \in Segs, NEW off \in Int, NEW h \in {0, 1}, Readable(seg, off, WordMod)
    PROVE  LET s == CString(Filled(pathBuffers[h], seg, off, WordMod))
           IN  s \in Seq(Byte) /\ Len(s) \in Word /\ Api!IsString(s, seg, off)
<1> DEFINE s == CString(Filled(pathBuffers[h], seg, off, WordMod))
<1>1. MemoryTypeOK /\ pathBuffers[h] \in [Word -> Byte]
  BY DEF Inv
<1>2. /\ s \in Seq(Byte) /\ Len(s) \in Word
      /\ CanRead(seg, off, Len(s))
      /\ \A i \in 1 .. Len(s) : s[i] = ram[Address(seg, off + i - 1)] /\ s[i] # 0
      /\ \/ Len(s) = WordMod - 1
         \/ /\ CanRead(seg, off, Len(s) + 1)
            /\ ram[Address(seg, off + (Len(s) + 1) - 1)] = 0
  BY <1>1, FilledString
<1> HIDE DEF s
<1>3. Api!IsString(s, seg, off)
  BY <1>2, ApiString
<1> QED
  BY <1>2, <1>3 DEF s

LEMMA PathCallImplements ==
    ASSUME Inv, NEW ah \in PathCalls, NEW dx \in Offsets, PathCall(ah, dx)
    PROVE  Api!PathCall(ah)
<1> DEFINE f == Filled(pathBuffers[0], "DS", dx, WordMod)
           s == CString(f)
<1>1. "DS" \in Segs /\ dx \in Int
  BY FilesAssumption DEF Segs, Word
<1>2. /\ Makes(ah, dx, 0, 0) /\ Readable("DS", dx, WordMod)
      /\ pathBuffers' = [pathBuffers EXCEPT ![0] = f]
      /\ asked' = <<CString(pathBuffers'[0])>>
      /\ HostDone(<<>>) \/ HostLacks
      /\ UNCHANGED <<file, position, ram, shadowRam>>
  BY DEF PathCall
<1>3. Api!IsString(s, "DS", dx)
  BY <1>1, <1>2, FilledIsString
<1> HIDE DEF f
<1>4. asked' = <<s>>
  BY <1>2, BuffersAre
<1> HIDE DEF s
<1>5. Len(asked') = 1 /\ asked'[1] = s
  BY <1>4
<1>6. Api!Calls(ah) /\ Api!dx = dx /\ UNCHANGED sreg
  BY <1>2, ApiCalls
<1>7. Api!IsString(asked'[1], "DS", Api!dx)
  BY <1>3, <1>5, <1>6, Zenon
<1>8. Api!Succeeds(<<>>) \/ Api!Missing
  BY <1>2, ApiAnswers
<1> QED
  BY <1>2, <1>5, <1>6, <1>7, <1>8 DEF Api!PathCall, Api!memoryVars

LEMMA RenameImplements ==
    ASSUME Inv, NEW dx \in Offsets, NEW di \in Offsets, Rename(dx, di)
    PROVE  Api!Rename
<1> DEFINE f == Filled(pathBuffers[0], "DS", dx, WordMod)
           g == Filled(pathBuffers[1], "ES", di, WordMod)
           s == CString(f)
           t == CString(g)
<1>1. "DS" \in Segs /\ "ES" \in Segs /\ dx \in Int /\ di \in Int
  BY FilesAssumption DEF Segs, Word
<1>2. /\ Makes("rename", dx, di, 0)
      /\ Readable("DS", dx, WordMod) /\ Readable("ES", di, WordMod)
      /\ pathBuffers' = [pathBuffers EXCEPT ![0] = f, ![1] = g]
      /\ asked' = <<CString(pathBuffers'[0]), CString(pathBuffers'[1])>>
      /\ HostDone(<<>>) \/ HostLacks
      /\ UNCHANGED <<file, position, ram, shadowRam>>
  BY DEF Rename
<1>3. Api!IsString(s, "DS", dx) /\ Api!IsString(t, "ES", di)
  BY <1>1, <1>2, FilledIsString
<1> HIDE DEF f, g
<1>4. asked' = <<s, t>>
  BY <1>2, BuffersAre
<1> HIDE DEF s, t
<1>5. Len(asked') = 2 /\ asked'[1] = s /\ asked'[2] = t
  BY <1>4
<1>6. Api!Calls("rename") /\ Api!dx = dx /\ Api!di = di /\ UNCHANGED sreg
  BY <1>2, ApiCalls
<1>7. Api!IsString(asked'[1], "DS", Api!dx) /\ Api!IsString(asked'[2], "ES", Api!di)
  BY <1>3, <1>5, <1>6, Zenon
<1>8. Api!Succeeds(<<>>) \/ Api!Missing
  BY <1>2, ApiAnswers
<1> QED
  BY <1>2, <1>5, <1>6, <1>7, <1>8 DEF Api!Rename, Api!memoryVars

LEMMA PrintStringImplements ==
    ASSUME Inv, NEW dx \in Offsets, PrintString(dx)
    PROVE  Api!PrintString
<1> DEFINE f == Filled(pathBuffers[0], "DS", dx, WordMod)
           s == CString(f)
           shown(string) == IF Contains(string, Dollar) THEN <<Before(string, Dollar)>> ELSE <<>>
<1>1. "DS" \in Segs /\ dx \in Int
  BY FilesAssumption DEF Segs, Word
<1>2. /\ Makes("print", dx, 0, 0) /\ Readable("DS", dx, WordMod)
      /\ pathBuffers' = [pathBuffers EXCEPT ![0] = f]
      /\ asked' = shown(CString(pathBuffers'[0]))
      /\ errno' \in {errno, "EIO"}
      /\ UNCHANGED <<answer, file, position, ram, shadowRam>>
  BY DEF PrintString
<1>3. s \in Seq(Byte) /\ Len(s) \in Word /\ Api!IsString(s, "DS", dx)
  BY <1>1, <1>2, FilledIsString
<1> HIDE DEF f, shown
<1>4. asked' = shown(s)
  BY <1>2, BuffersAre
<1> HIDE DEF s
<1>5. Api!Calls("print") /\ Api!dx = dx /\ UNCHANGED sreg
  BY <1>2, ApiCalls
<1> DEFINE n == Len(s)
<1>6. n \in 0 .. WordMod - 1 /\ s \in [1 .. n -> Api!Byte]
  BY <1>3, LenProperties, ApiMemory DEF Word
<1> DEFINE Shown(string) ==
             \/ ~Api!Contains(string, Dollar) /\ asked' = <<>>
             \/ \E i \in 1 .. n : /\ string[i] = Dollar
                                  /\ ~Api!Contains(SubSeq(string, 1, i - 1), Dollar)
                                  /\ asked' = <<SubSeq(string, 1, i - 1)>>
<1>7. Shown(s)
  <2>1. CASE ~Contains(s, Dollar)
    <3>1. asked' = <<>>
      BY <1>4, <2>1 DEF shown
    <3>2. ~Api!Contains(s, Dollar)
      BY <2>1, ApiMemory, Zenon
    <3> QED
      BY <3>1, <3>2
  <2>2. CASE Contains(s, Dollar)
    <3>1. PICK i \in 1 .. n : /\ s[i] = Dollar
                              /\ Before(s, Dollar) = SubSeq(s, 1, i - 1)
                              /\ ~Contains(SubSeq(s, 1, i - 1), Dollar)
      BY <1>3, <2>2, BeforeIs
    <3>2. asked' = <<Before(s, Dollar)>>
      BY <1>4, <2>2 DEF shown
    <3>3. asked' = <<SubSeq(s, 1, i - 1)>>
      BY <3>1, <3>2, Zenon
    <3>4. ~Api!Contains(SubSeq(s, 1, i - 1), Dollar)
      BY <3>1, ApiMemory, Zenon
    <3> QED
      BY <3>1, <3>3, <3>4, Zenon
  <2> QED
    BY <2>1, <2>2
<1>8. Api!IsString(s, "DS", Api!dx)
  BY <1>3, <1>5, Zenon
<1>9. \E k \in 0 .. WordMod - 1 : \E string \in [1 .. k -> Api!Byte] :
         /\ Api!IsString(string, "DS", Api!dx)
         /\ \/ ~Api!Contains(string, Dollar) /\ asked' = <<>>
            \/ \E i \in 1 .. k : /\ string[i] = Dollar
                                 /\ ~Api!Contains(SubSeq(string, 1, i - 1), Dollar)
                                 /\ asked' = <<SubSeq(string, 1, i - 1)>>
  <2> USE <1>6
  <2> HIDE DEF n
  <2> WITNESS n \in 0 .. WordMod - 1
  <2> WITNESS s \in [1 .. n -> Api!Byte]
  <2> QED
    BY <1>7, <1>8, Zenon
<1> HIDE DEF Shown
<1>10. UNCHANGED <<file, position, answer>> /\ UNCHANGED Api!memoryVars
  BY <1>2, <1>5 DEF Api!memoryVars
<1>11. UNCHANGED (errno = "ENOENT") \/ ~(errno = "ENOENT")'
  <2>1. CASE errno' = errno
    BY <2>1
  <2>2. CASE errno' = "EIO"
    BY <2>2
  <2> QED
    BY <1>2, <2>1, <2>2
<1> QED
  BY <1>5, <1>9, <1>10, <1>11, Zenon DEF Api!PrintString

\* Bytes copied out of a buffer change the program's memory there and nowhere else.
LEMMA CopyOutChanges ==
    ASSUME Inv, NEW b \in [Word -> Byte], NEW off \in Word, NEW bytes, NEW m \in 0 .. WordMod,
           Transferred(bytes, b) = m, CopyOut(b, "DS", off, bytes),
           Api!dx = off, UNCHANGED sreg
    PROVE  /\ Api!Changes(m)
           /\ \A i \in 1 .. m : Api!After(off + i - 1) = b[i - 1]
<1>1. MemoryTypeOK /\ "DS" \in Segs
  BY DEF Inv, Segs
<1>2. /\ \A i \in 0 .. m - 1 : ram'[Address("DS", off + i)] = b[i]
      /\ \A a \in Ram \ Span("DS", off, m) : ram'[a] = ram[a]
      /\ shadowRam' = Granted("DS", off, m)
  BY <1>1, CopyOutIs
<1>3. /\ Api!Span("DS", Api!dx, m) = Span("DS", off, m)
      /\ Api!Granted("DS", Api!dx, m) = Granted("DS", off, m)
      /\ Api!Ram = Ram
      /\ \A o : Api!Address("DS", o) = Address("DS", o)
  BY ApiMemory, Zenon
<1>4. Api!Changes(m)
  BY <1>2, <1>3, Zenon DEF Api!Changes
<1>5. ASSUME NEW i \in 1 .. m PROVE Api!After(off + i - 1) = b[i - 1]
  <2>1. i - 1 \in 0 .. m - 1 /\ off + i - 1 = off + (i - 1)
    BY DEF Word
  <2> DEFINE j == i - 1
  <2> HIDE DEF j
  <2>2. ram'[Address("DS", off + j)] = b[j]
    BY <1>2, <2>1, Zenon DEF j
  <2>3. ram'[Address("DS", off + i - 1)] = b[i - 1]
    BY <2>1, <2>2 DEF j
  <2> QED
    BY <1>3, <2>3, Zenon DEF Api!After
<1> QED
  BY <1>4, <1>5

LEMMA ReadImplements ==
    ASSUME Inv, NEW dx \in Offsets, NEW cx \in Counts \cap Word, Read(dx, cx)
    PROVE  Api!Read
<1> DEFINE r(n) == ReadAt(file, position, n)
           b(n) == Received(pathBuffers[0], r(n))
<1>1. /\ Makes("read", dx, 0, cx) /\ asked' = <<>> /\ UNCHANGED file
      /\ CopyOut(pathBuffers'[0], "DS", dx, cx)
  BY DEF Read
<1>2. PICK n \in 0 .. Len(r(cx)) : /\ pathBuffers' = [pathBuffers EXCEPT ![0] = b(n)]
                                   /\ position' = position + n
                                   /\ HostDone(<<n>>)
  BY DEF Read
<1>3. cx \in Nat /\ cx < WordMod /\ cx \in 0 .. WordMod
  BY DEF Word
<1>4. dx \in Word
  BY FilesAssumption
<1>5. /\ r(cx) \in Seq(Byte) /\ Len(r(cx)) <= cx
      /\ Len(r(cx)) = 0 \/ position + Len(r(cx)) <= Len(file)
      /\ Len(r(n)) = n
  BY <1>3, ReadAtIs DEF Inv
<1>6. Len(r(cx)) \in Nat /\ Len(file) \in Nat /\ position \in Nat
  BY <1>5, LenProperties DEF Inv
<1>7. n \in Nat /\ n <= cx /\ (n = 0 \/ position + n <= Len(file))
  <2> DEFINE l == Len(r(cx))
  <2>1. n \in 0 .. l /\ l \in Nat /\ l <= cx /\ (l = 0 \/ position + l <= Len(file))
    BY <1>5, <1>6
  <2> HIDE DEF l
  <2> QED
    BY <1>3, <1>6, <2>1
<1>8. r(n) \in Seq(Byte) /\ \A i \in 1 .. n : r(n)[i] = file[position + i]
  <2>1. r(n) \in Seq(Byte) /\ \A i \in 1 .. Len(r(n)) : r(n)[i] = file[position + i]
    BY <1>7, ReadAtIs DEF Inv
  <2> QED
    BY <1>5, <2>1, Zenon
<1> HIDE DEF r
<1>9. b(n) \in [Word -> Byte] /\ \A i \in Word : i < n => b(n)[i] = r(n)[i + 1]
  BY <1>5, <1>8, ReceivedIs DEF Inv
<1> HIDE DEF b
<1>10. CopyOut(b(n), "DS", dx, cx)
  <2>1. pathBuffers'[0] = b(n)
    BY <1>2, BuffersAre, Zenon
  <2> QED
    BY <1>1, <2>1, Zenon
<1>11. Transferred(cx, b(n)) = cx
  BY <1>3 DEF Transferred
<1>12. Api!Calls("read") /\ Api!dx = dx /\ Api!cx = cx /\ UNCHANGED sreg
  BY <1>1, ApiCalls
<1>13. /\ Api!Changes(cx)
       /\ \A i \in 1 .. cx : Api!After(dx + i - 1) = b(n)[i - 1]
  BY <1>3, <1>4, <1>9, <1>10, <1>11, <1>12, CopyOutChanges
<1>14. ASSUME NEW i \in 1 .. n PROVE Api!After(dx + i - 1) = file[position + i]
  <2>1. i \in 1 .. cx
    BY <1>3, <1>7
  <2>2. b(n)[i - 1] = r(n)[i]
    <3>1. i - 1 \in Word /\ i - 1 < n /\ (i - 1) + 1 = i
      BY <1>3, <1>7 DEF Word
    <3> QED
      BY <1>9, <3>1
  <2> QED
    BY <1>8, <1>13, <2>1, <2>2, Zenon
<1>15. Api!Succeeds(<<n>>)
  BY <1>2, ApiAnswers, Zenon
<1>16. n \in 0 .. Api!cx
  BY <1>7, <1>12
<1>17. n = 0 \/ position' <= Len(file)
  BY <1>2, <1>7
<1>18. \A i \in 1 .. n : Api!After(Api!dx + i - 1) = file[position + i]
  BY <1>12, <1>14, Zenon
<1>19. Api!Changes(Api!cx)
  BY <1>12, <1>13, Zenon
<1> QED
  BY <1>1, <1>2, <1>12, <1>15, <1>16, <1>17, <1>18, <1>19, Zenon DEF Api!Read

LEMMA WriteImplements ==
    ASSUME Inv, NEW dx \in Offsets, NEW cx \in Counts \cap Word, Write(dx, cx)
    PROVE  Api!Write
<1> DEFINE f == Filled(pathBuffers[0], "DS", dx, cx)
           source == Source("DS", dx)
<1>1. /\ Makes("write", dx, 0, cx) /\ Readable("DS", dx, cx) /\ asked' = <<>>
      /\ pathBuffers' = [pathBuffers EXCEPT ![0] = f]
      /\ UNCHANGED <<ram, shadowRam>>
  BY DEF Write
<1>2. cx \in Nat /\ cx < WordMod
  BY DEF Word
<1>3. dx \in Int /\ "DS" \in Segs /\ MemoryTypeOK
  BY FilesAssumption DEF Word, Segs, Inv
<1>4. Transferred(cx, source) = cx
  BY <1>2 DEF Transferred
<1>5. ASSUME NEW i \in 0 .. cx - 1 PROVE f[i] = ram[Address("DS", dx + i)]
  <2>1. i \in Word /\ i < cx /\ i # WordMod - 1
    BY <1>2 DEF Word
  <2>2. f[i] = source[i]
    BY <1>4, <2>1 DEF Filled
  <2>3. CanRead("DS", dx, cx)
    BY <1>1, <1>4 DEF Readable
  <2>4. Address("DS", dx + i) < RamSize
    BY <2>3 DEF CanRead, Allowed
  <2>5. source[i] = ram[Address("DS", dx + i)]
    BY <1>3, <2>1, <2>4, SourceType
  <2> QED
    BY <2>2, <2>5
<1> HIDE DEF f
<1>6. pathBuffers'[0] = f
  BY <1>1, BuffersAre
<1> DEFINE Written(g) == \E n \in 0 .. cx :
                           /\ file' = WriteAt(file, position, [i \in 1 .. n |-> g[i - 1]])
                           /\ position' = position + n
                           /\ HostDone(<<n>>)
<1>7. Written(f)
  <2>1. Written(pathBuffers'[0])
    BY DEF Write
  <2> HIDE DEF Written
  <2> QED
    BY <1>6, <2>1, Zenon
<1>8. PICK n \in 0 .. cx : /\ file' = WriteAt(file, position, [i \in 1 .. n |-> f[i - 1]])
                           /\ position' = position + n
                           /\ HostDone(<<n>>)
  BY <1>7
<1>9. Api!Calls("write") /\ Api!dx = dx /\ Api!cx = cx /\ UNCHANGED sreg
  BY <1>1, ApiCalls
<1>10. ASSUME NEW i \in 1 .. n PROVE f[i - 1] = Api!At(Api!dx + i - 1)
  <2>1. i - 1 \in 0 .. cx - 1 /\ dx + i - 1 = dx + (i - 1)
    BY <1>2, <1>3
  <2> DEFINE j == i - 1
  <2> HIDE DEF j
  <2>2. f[j] = ram[Address("DS", dx + j)]
    BY <1>5, <2>1 DEF j
  <2>3. f[i - 1] = ram[Address("DS", dx + i - 1)]
    BY <2>1, <2>2 DEF j
  <2>4. Api!Address("DS", Api!dx + i - 1) = Address("DS", dx + i - 1)
    BY <1>9, ApiMemory, Zenon
  <2> QED
    BY <2>3, <2>4, Zenon DEF Api!At
<1>11. [i \in 1 .. n |-> f[i - 1]] = [i \in 1 .. n |-> Api!At(Api!dx + i - 1)]
  BY <1>10, Zenon
<1>12. file' = Api!WriteAt(file, position, [i \in 1 .. n |-> Api!At(Api!dx + i - 1)])
  <2>1. \A pos, g, bytes : Api!WriteAt(g, pos, bytes) = WriteAt(g, pos, bytes)
    BY DEF Api!WriteAt, WriteAt
  <2> QED
    BY <1>8, <1>11, <2>1, Zenon
<1>13. Api!Succeeds(<<n>>)
  BY <1>8, ApiAnswers, Zenon
<1>14. n \in 0 .. Api!cx
  BY <1>9
<1>15. UNCHANGED Api!memoryVars
  BY <1>1, <1>9 DEF Api!memoryVars
<1> QED
  BY <1>1, <1>8, <1>9, <1>12, <1>13, <1>14, <1>15, Zenon DEF Api!Write

LEMMA GetCwdImplements ==
    ASSUME Inv, NEW dx \in Offsets, NEW dir \in Directories, GetCwd(dx, dir)
    PROVE  Api!GetCwd
<1> DEFINE b == Received(pathBuffers[0], Append(dir, 0))
           m == Len(dir) + 1
<1>1. /\ Makes("getcwd", dx, 0, 0) /\ Len(dir) < CwdSize /\ HostDone(<<>>)
      /\ pathBuffers' = [pathBuffers EXCEPT ![0] = b]
      /\ CopyOut(pathBuffers'[0], "DS", dx, WordMod)
      /\ asked' = <<>> /\ UNCHANGED <<file, position>>
  BY DEF GetCwd
<1>2. /\ b \in [Word -> Byte] /\ Transferred(WordMod, b) = m /\ m \in 0 .. WordMod
      /\ \A i \in 1 .. m : b[i - 1] = Append(dir, 0)[i]
  <2>1. pathBuffers[0] \in [Word -> Byte]
    BY DEF Inv
  <2>2. /\ b \in [Word -> Byte] /\ Transferred(WordMod, b) = m /\ m \in 1 .. WordMod
        /\ \A i \in 1 .. m : b[i - 1] = Append(dir, 0)[i]
    BY <1>1, <2>1, NamePut
  <2>3. \A n \in 1 .. WordMod : n \in 0 .. WordMod
    OBVIOUS
  <2> HIDE DEF b, m
  <2> QED
    BY <2>2, <2>3, Zenon
<1> HIDE DEF b
<1>3. CopyOut(b, "DS", dx, WordMod)
  <2>1. pathBuffers'[0] = b
    BY <1>1, BuffersAre, Zenon
  <2> QED
    BY <1>1, <2>1, Zenon
<1>4. Api!Calls("getcwd") /\ Api!dx = dx /\ UNCHANGED sreg
  BY <1>1, ApiCalls
<1>5. dx \in Word
  BY FilesAssumption
<1> HIDE DEF m
<1>6. /\ Api!Changes(m)
      /\ \A i \in 1 .. m : Api!After(dx + i - 1) = b[i - 1]
  BY <1>2, <1>3, <1>4, <1>5, CopyOutChanges
<1>7. \A i \in 1 .. m : Api!After(Api!dx + i - 1) = Append(dir, 0)[i]
  BY <1>2, <1>4, <1>6, Zenon
<1>8. Api!Succeeds(<<>>)
  BY <1>1, ApiAnswers, Zenon
<1> QED
  BY <1>1, <1>4, <1>6, <1>7, <1>8, Zenon DEF Api!GetCwd, m

LEMMA StoreByteImplements ==
    ASSUME Inv, NEW dx \in Offsets, NEW c \in Byte, StoreByte(dx, c)
    PROVE  Api!StoreByte
<1>1. /\ Makes("store", dx, 0, c) /\ asked' = <<>>
      /\ ram' = [a \in Ram |-> IF a = Address("DS", dx) THEN c ELSE ram[a]]
      /\ shadowRam' = Granted("DS", dx, 1)
      /\ UNCHANGED <<errno, file, position, answer>>
  BY DEF StoreByte, Store
<1>2. Api!Calls("store") /\ Api!dx = dx /\ UNCHANGED sreg
  BY <1>1, ApiCalls
<1>3. dx + 0 = dx
  BY FilesAssumption DEF Word
<1>4. Address("DS", dx) \in Span("DS", dx, 1)
  <2>1. 0 \in 0 .. 1 - 1
    OBVIOUS
  <2> QED
    BY <1>3, <2>1 DEF Span
<1>5. /\ Api!Span("DS", Api!dx, 1) = Span("DS", dx, 1)
      /\ Api!Granted("DS", Api!dx, 1) = Granted("DS", dx, 1)
      /\ Api!Ram = Ram
  BY <1>2, ApiMemory, Zenon
<1>6. \A a \in Ram \ Span("DS", dx, 1) : ram'[a] = ram[a]
  BY <1>1, <1>4
<1>7. Api!Changes(1)
  BY <1>1, <1>2, <1>5, <1>6, Zenon DEF Api!Changes
<1> QED
  BY <1>1, <1>2, <1>7 DEF Api!StoreByte

LEMMA SeekImplements ==
    ASSUME Inv, NEW cxdx \in Counts, NEW al \in 0 .. 2, Seek(cxdx, al)
    PROVE  Api!Seek
<1> DEFINE cut == position' % DWordMod
<1>1. /\ Makes("seek", 0, al, cxdx) /\ asked' = <<>>
      /\ position' = From(file, position, al) + Signed(cxdx)
      /\ position' \in 0 .. MaxPosition
      /\ IF cut # DWordMod - 1 THEN HostDone(<<cut % WordMod, cut \div WordMod>>)
                               ELSE errno = "ENOENT" /\ HostLacks
      /\ UNCHANGED <<pathBuffers, file, ram, shadowRam>>
  BY DEF Seek
<1>2. Api!Calls("seek") /\ Api!di = al /\ Api!cx = cxdx /\ UNCHANGED sreg
  BY <1>1, ApiCalls
<1>3. /\ Api!DWordMod = DWordMod
      /\ \A n : Api!Signed(n) = Signed(n)
      /\ \A f, pos, whence : Api!From(f, pos, whence) = From(f, pos, whence)
  BY DEF Api!DWordMod, DWordMod, Api!Signed, Signed, Api!From, From
<1>4. position' \in Nat
  BY <1>1
<1>5. position' = Api!From(file, position, Api!di) + Api!Signed(Api!cx)
  BY <1>1, <1>2, <1>3, Zenon
<1> HIDE DEF cut
<1>6. \/ cut # DWordMod - 1 /\ Api!Succeeds(<<cut % WordMod, cut \div WordMod>>)
      \/ cut = DWordMod - 1 /\ errno = "ENOENT" /\ Api!Missing
  <2>1. CASE cut # DWordMod - 1
    BY <1>1, <2>1, ApiAnswers, Zenon
  <2>2. CASE cut = DWordMod - 1
    BY <1>1, <2>2, ApiAnswers, Zenon
  <2> QED
    BY <2>1, <2>2
<1>7. UNCHANGED <<file, Api!memoryVars>>
  BY <1>1, <1>2 DEF Api!memoryVars
<1>8. Api!DWordMod = DWordMod
  BY <1>3
<1> QED
  BY <1>1, <1>2, <1>4, <1>5, <1>6, <1>7, <1>8, Zenon DEF Api!Seek, cut

LEMMA OthersImplement ==
    /\ \A yes \in BOOLEAN : IsTerminal(yes) => Api!IsTerminal
    /\ GetCwdFails => Api!GetCwd
    /\ End => Api!End
<1>1. ASSUME NEW yes \in BOOLEAN, IsTerminal(yes) PROVE Api!IsTerminal
  <2>1. Makes("ioctl", 0, 0, 0)
    BY <1>1 DEF IsTerminal
  <2>2. Api!Calls("ioctl") /\ UNCHANGED sreg
    BY <2>1, ApiCalls
  <2>3. /\ answer' = [cf |-> FALSE, words |-> <<IF yes THEN DeviceBit ELSE 0>>]
        /\ errno' = IF yes THEN errno ELSE "ENOTTY"
        /\ asked' = <<>>
        /\ UNCHANGED <<pathBuffers, file, position, ram, shadowRam>>
    BY <1>1 DEF IsTerminal, Done
  <2> QED
    BY <2>2, <2>3 DEF Api!IsTerminal, Api!Answers, Api!memoryVars
<1>2. ASSUME GetCwdFails PROVE Api!GetCwd
  <2>1. /\ Makes("getcwd", 0, 0, 0) /\ HostLacks /\ asked' = <<>>
        /\ UNCHANGED <<pathBuffers, file, position, ram, shadowRam>>
    BY <1>2 DEF GetCwdFails
  <2>2. Api!Calls("getcwd") /\ UNCHANGED sreg
    BY <2>1, ApiCalls
  <2>3. Api!Missing
    BY <2>1, ApiAnswers
  <2> QED
    BY <2>1, <2>2, <2>3 DEF Api!GetCwd, Api!memoryVars
<1>3. ASSUME End PROVE Api!End
  BY <1>3 DEF End, memoryVars, Api!End, Api!memoryVars
<1> QED
  BY <1>1, <1>2, <1>3

LEMMA StepImplements ==
    ASSUME Inv, [Next]_filesVars
    PROVE  [Api!Next]_(Api!apiVars)
<1>1. CASE UNCHANGED filesVars
  BY <1>1 DEF filesVars, memoryVars, Api!apiVars, Api!memoryVars
<1>2. ASSUME NEW ah \in PathCalls, NEW dx \in Offsets, PathCall(ah, dx) PROVE Api!Next
  <2>1. Api!PathCall(ah)
    BY <1>2, PathCallImplements
  <2> QED
    BY <2>1 DEF Api!Next, PathCalls
<1>3. ASSUME NEW dx \in Offsets, NEW di \in Offsets, Rename(dx, di) PROVE Api!Next
  BY <1>3, RenameImplements DEF Api!Next
<1>4. ASSUME NEW dx \in Offsets, PrintString(dx) PROVE Api!Next
  BY <1>4, PrintStringImplements DEF Api!Next
<1>5. ASSUME NEW dx \in Offsets, NEW cx \in Counts \cap Word, Read(dx, cx) \/ Write(dx, cx)
      PROVE  Api!Next
  BY <1>5, ReadImplements, WriteImplements DEF Api!Next
<1>6. ASSUME NEW dx \in Offsets, NEW dir \in Directories, GetCwd(dx, dir) PROVE Api!Next
  BY <1>6, GetCwdImplements DEF Api!Next
<1>7. ASSUME NEW dx \in Offsets, NEW c \in Byte, StoreByte(dx, c) PROVE Api!Next
  BY <1>7, StoreByteImplements DEF Api!Next
<1>8. ASSUME NEW cxdx \in Counts, NEW al \in 0 .. 2, Seek(cxdx, al) PROVE Api!Next
  BY <1>8, SeekImplements DEF Api!Next
<1>9. ASSUME \/ \E yes \in BOOLEAN : IsTerminal(yes)
             \/ GetCwdFails
             \/ End
      PROVE  Api!Next
  BY <1>9, OthersImplement DEF Api!Next
<1>10. CASE Next
  BY <1>1, <1>2, <1>3, <1>4, <1>5, <1>6, <1>7, <1>8, <1>9, <1>10 DEF Next, Ended
<1> QED
  BY <1>1, <1>10

\* What a program asks of its files, by the calls of handleSyscallDOS(), is what the host
\* is asked for, and what the host gives is what the program gets, whatever is left in the
\* buffers of initString() by earlier calls and whatever errno they have left.
THEOREM ImplementsApi == Spec => ImplementsDosApi
<1>1. Init => Api!Init
  BY DEF Init, Api!Init
<1>2. Inv /\ [Next]_filesVars => [Api!Next]_(Api!apiVars)
  BY StepImplements
<1> QED
  BY <1>1, <1>2, Invariance, PTL DEF Spec, ImplementsDosApi, Api!Spec

=============================================================================
