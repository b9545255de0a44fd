---------------------------- MODULE BinFileProofs ----------------------------
(***************************************************************************)
(* For every file, any word size, and builds with and without overflow      *)
(* checks: parse_wtns answers with a witness or an error, unless the end of *)
(* a section leaves the machine word.  A witness or a key that was written  *)
(* is read back, and what is left of one when writing stops is answered     *)
(* with an error, or with exactly what was written.                         *)
(***************************************************************************)
EXTENDS BinFile, TLAPS, FiniteSetTheorems

LEMMA CellType ==
    ASSUME bytes \in Seq(Nat), NEW p \in Nat, p < Len(bytes)
    PROVE  Cell(p) \in Nat
BY DEF Cell

LEMMA HeaderType ==
    ASSUME TypeOK, NEW readers, AtSection(readers)
    PROVE  id \in Nat /\ slen \in Nat /\ body \in Nat
<1>1. off \in Nat /\ off + 1 \in Nat /\ off + 1 < Len(bytes) /\ off < Len(bytes)
  BY DEF AtSection, Inside, TypeOK
<1> QED
  BY <1>1, CellType DEF id, slen, body, TypeOK

\* Keeping a section keeps the types.
LEMMA WithType ==
    ASSUME TypeOK, NEW readers, AtSection(readers)
    PROVE  With(Section) \in [DOMAIN With(Section) -> [start: Nat, len: Nat]]
<1>1. Section \in [start: Nat, len: Nat]
  BY HeaderType DEF Section
<1>2. \A i \in DOMAIN sections : sections[i] \in [start: Nat, len: Nat]
  BY DEF TypeOK
<1> QED
  BY <1>1, <1>2 DEF With

LEMMA InitTypeOK == Init => TypeOK
BY FilesAssumption DEF Init, TypeOK, KeySections

\* A step that ends the call, with an error, a panic or a value.
LEMMA EndsTypeOK ==
    ASSUME TypeOK, UNCHANGED <<call, left, off, sections, reading>>,
           pc' \in {"read", "coeffs", "ok", "err", "panic"}
    PROVE  TypeOK'
BY DEF TypeOK, call

LEMMA WordType == \A n \in Nat : Wrap(n) \in Nat
BY WordAssumption DEF Wrap

LEMMA NextTypeOK == TypeOK /\ [Next]_vars => TypeOK'
<1> SUFFICES ASSUME TypeOK, [Next]_vars PROVE TypeOK'
  OBVIOUS
<1>1. CASE Open
  <2>1. Cell(1) \in Nat
    BY <1>1, CellType DEF Open, Inside, TypeOK
  <2> QED
    BY <1>1, <2>1 DEF Open, TypeOK, call
<1>2. CASE WalkWitness
  <2>1. AtSection(WitnessReaders)
    BY <1>2 DEF WalkWitness
  <2>2. body + slen \in Nat /\ left \in Nat /\ left > 0
    BY <2>1, HeaderType DEF AtSection, TypeOK
  <2>3. /\ off' = Wrap(body + slen) /\ left' = left - 1 /\ sections' = With(Section)
        /\ UNCHANGED <<call, pc, reading, value>>
    BY <1>2 DEF WalkWitness, Walk
  <2>4. off' \in Nat /\ left' \in Nat
    BY <2>2, <2>3, WordType
  <2>5. sections' \in [DOMAIN sections' -> [start: Nat, len: Nat]]
    BY <2>1, <2>3, WithType
  <2> QED
    BY <2>3, <2>4, <2>5 DEF TypeOK, call
<1>3. CASE WalkKey
  <2>1. AtSection({"read_zkey"}) /\ Seek >= 0
    BY <1>3 DEF WalkKey
  <2>2. Seek \in Nat /\ left \in Nat /\ left > 0
    BY <2>1, HeaderType, WordAssumption DEF AtSection, TypeOK, Seek
  <2>3. /\ off' = Seek /\ left' = left - 1
        /\ sections' = sections \/ sections' = With(Section)
        /\ UNCHANGED <<call, pc, reading, value>>
    BY <1>3 DEF WalkKey, Walk
  <2>4. off' \in Nat /\ left' \in Nat
    BY <2>2, <2>3
  <2>5. sections' \in [DOMAIN sections' -> [start: Nat, len: Nat]]
    BY <2>1, <2>3, WithType DEF TypeOK
  <2> QED
    BY <2>3, <2>4, <2>5 DEF TypeOK, call
<1>4. CASE ReadSection
  <2>1. /\ reading' \in DOMAIN KeySections /\ pc' \in {"read", "coeffs"}
        /\ UNCHANGED <<call, left, off, sections, value>>
    BY <1>4 DEF ReadSection, AtKeySection, TypeOK, KeySections
  <2> QED
    BY <2>1 DEF TypeOK, call
<1>5. CASE OpenFails \/ TruncatedHeader \/ SectionOverflows \/ SectionRejected
           \/ HeaderOutside \/ SeekFails \/ WitnessMalformed \/ WitnessOutside
           \/ ReadWitness \/ KeyWalked \/ MagicNotText \/ SectionMissing
           \/ SectionTruncated \/ CoeffsPanic \/ CoeffsTruncated \/ ReadCoeffs
  <2>1. /\ UNCHANGED <<call, left, off, sections, reading>>
        /\ pc' \in {"read", "coeffs", "ok", "err", "panic"}
    BY <1>5 DEF OpenFails, TruncatedHeader, SectionOverflows, SectionRejected, HeaderOutside,
                SeekFails, WitnessMalformed, WitnessOutside, ReadWitness, KeyWalked,
                MagicNotText, SectionMissing, SectionTruncated, CoeffsPanic, CoeffsTruncated,
                ReadCoeffs, Ends, Returns
  <2> QED
    BY <2>1, EndsTypeOK
<1>6. CASE UNCHANGED vars
  BY <1>6 DEF vars, call, TypeOK
<1> QED
  BY <1>1, <1>2, <1>3, <1>4, <1>5, <1>6 DEF Next

\* Positions and lengths stay natural numbers: no seek leaves the file at its
\* beginning.
THEOREM BinFileTypeCorrect == Spec => []TypeOK
BY InitTypeOK, NextTypeOK, PTL DEF Spec

-----------------------------------------------------------------------------
(* Sections that were kept.                                                *)

\* A word that stays below the word size is not wrapped.
LEMMA NotWrapped == \A n \in Nat : n < WordSize => Wrap(n) = n
BY WordAssumption DEF Wrap

\* What Fits lets through.
LEMMA FitsMeans ==
    ASSUME TypeOK, NEW readers, AtSection(readers), Fits
    PROVE  body + slen <= Len(bytes) \/ body + slen >= WordSize
BY HeaderType, NotWrapped, WordAssumption DEF Fits, Inside, TypeOK

LEMMA InitParseInv == Init => ParseInv
BY DEF Init, ParseInv, SectionsKept, PanicsOnlyOnOverflow

LEMMA CallUnchanged == [Next]_vars => UNCHANGED call
<1>1. \A outcome : Ends(outcome) => UNCHANGED call
  BY DEF Ends
<1>2. OpenFails \/ TruncatedHeader \/ SectionOverflows \/ SectionRejected \/ HeaderOutside
         \/ SeekFails \/ WitnessMalformed \/ WitnessOutside \/ MagicNotText \/ SectionMissing
         \/ SectionTruncated \/ CoeffsPanic \/ CoeffsTruncated
      => UNCHANGED call
  BY <1>1 DEF OpenFails, TruncatedHeader, SectionOverflows, SectionRejected, HeaderOutside,
              SeekFails, WitnessMalformed, WitnessOutside, MagicNotText, SectionMissing,
              SectionTruncated, CoeffsPanic, CoeffsTruncated
<1>3. Open \/ KeyWalked \/ ReadSection => UNCHANGED call
  BY DEF Open, KeyWalked, ReadSection
<1>4. WalkWitness \/ WalkKey => UNCHANGED call
  BY DEF WalkWitness, WalkKey, Walk
<1>5. ReadWitness \/ ReadCoeffs => UNCHANGED call
  BY DEF ReadWitness, ReadCoeffs, Returns
<1>6. UNCHANGED vars => UNCHANGED call
  BY DEF vars, call
<1> QED
  BY <1>2, <1>3, <1>4, <1>5, <1>6 DEF Next

LEMMA NextParseInv == TypeOK /\ ParseInv /\ [Next]_vars => ParseInv'
<1> SUFFICES ASSUME TypeOK, ParseInv, [Next]_vars, reader' = "parse_wtns"
             PROVE  /\ SectionsKept' /\ pc' \notin {"read", "coeffs"}
                    /\ pc' = "panic" => LengthLeavesWord'
  BY DEF ParseInv, PanicsOnlyOnOverflow
<1>0. UNCHANGED call
  BY CallUnchanged
<1>1. reader = "parse_wtns" /\ SectionsKept /\ pc \notin {"read", "coeffs"}
  BY <1>0 DEF call, ParseInv
<1>2. CASE Open
  BY <1>1, <1>2 DEF Open, SectionsKept, call
<1>3. CASE WalkWitness
  <2>1. AtSection(WitnessReaders) /\ Fits /\ pc = "walk"
    BY <1>3 DEF WalkWitness, AtSection
  <2>2. sections' = With(Section) /\ UNCHANGED <<bytes, pc>>
    BY <1>3 DEF WalkWitness, Walk, call
  <2>3. \A i \in DOMAIN sections' : sections'[i] = Section \/ (i \in DOMAIN sections /\ sections'[i] = sections[i])
    BY <2>2 DEF With
  <2>4. Section.start + Section.len <= Len(bytes) \/ Section.start + Section.len >= WordSize
    BY <2>1, FitsMeans DEF Section
  <2>5. SectionsKept'
    BY <1>1, <2>2, <2>3, <2>4 DEF SectionsKept
  <2> QED
    BY <2>1, <2>2, <2>5
<1>4. CASE SectionOverflows
  <2>1. body + slen >= WordSize /\ left > 0
    BY <1>4, HeaderType, WordAssumption DEF SectionOverflows, Overflows, AtSection
  <2>2. UNCHANGED <<bytes, left, off, sections>> /\ pc' = "panic"
    BY <1>4 DEF SectionOverflows, Ends, call
  <2> QED
    BY <1>1, <2>1, <2>2 DEF SectionsKept, LengthLeavesWord, body, slen, Cell
<1>5. CASE HeaderOutside
  <2>1. AtSection(WitnessReaders) /\ Fits /\ slen >= 1 /\ ~Inside(body, 1) /\ left > 0
    BY <1>1, <1>5 DEF HeaderOutside, HasHeader, AtSection
  <2>2. body + slen >= WordSize
    BY <2>1, FitsMeans, HeaderType DEF Inside, TypeOK
  <2>3. UNCHANGED <<bytes, left, off, sections>> /\ pc' = "panic"
    BY <1>5 DEF HeaderOutside, Ends, call
  <2> QED
    BY <1>1, <2>1, <2>2, <2>3 DEF SectionsKept, LengthLeavesWord, body, slen, Cell
<1>6. CASE WitnessOutside
  <2>1. 2 \in DOMAIN sections /\ ~Inside(data.start, data.len) /\ left = 0
    BY <1>6 DEF WitnessOutside, WellFormed, Walked
  <2>2. data.start + data.len >= WordSize
    <3>1. data.start \in Nat /\ data.len \in Nat /\ data = sections[2]
      BY <2>1 DEF TypeOK, data
    <3>2. data.start + data.len > Len(bytes)
      BY <2>1, <3>1 DEF Inside, TypeOK
    <3> QED
      BY <1>1, <2>1, <3>1, <3>2 DEF SectionsKept, TypeOK
  <2>3. UNCHANGED <<bytes, left, sections>> /\ pc' = "panic"
    BY <1>6 DEF WitnessOutside, Ends, call
  <2> QED
    BY <1>1, <2>1, <2>2, <2>3 DEF SectionsKept, LengthLeavesWord, data
<1>7. CASE OpenFails \/ TruncatedHeader \/ SectionRejected \/ WitnessMalformed \/ ReadWitness
  <2>1. UNCHANGED <<bytes, sections>> /\ pc' \in {"err", "ok"}
    BY <1>7 DEF OpenFails, TruncatedHeader, SectionRejected, WitnessMalformed, ReadWitness,
                Ends, Returns, call
  <2> QED
    BY <1>1, <2>1 DEF SectionsKept
<1>8. CASE UNCHANGED vars
  BY <1>1, <1>8 DEF vars, call, ParseInv, SectionsKept, PanicsOnlyOnOverflow,
                    LengthLeavesWord, body, slen, data, Cell
<1>9. ~(SeekFails \/ WalkKey \/ KeyWalked \/ MagicNotText \/ SectionMissing \/ SectionTruncated
        \/ ReadSection \/ CoeffsPanic \/ CoeffsTruncated \/ ReadCoeffs)
  BY <1>1 DEF SeekFails, WalkKey, KeyWalked, MagicNotText, SectionMissing, SectionTruncated,
              ReadSection, CoeffsPanic, CoeffsTruncated, ReadCoeffs, AtSection, Walked,
              AtKeySection
<1> QED
  BY <1>2, <1>3, <1>4, <1>5, <1>6, <1>7, <1>8, <1>9 DEF Next

\* Only a length whose section ends outside the machine word makes parse_wtns
\* panic; every other file it answers.
THEOREM OverflowIsTheOnlyPanic == Spec => []PanicsOnlyOnOverflow
<1>1. Init => TypeOK /\ ParseInv
  BY InitTypeOK, InitParseInv
<1>2. TypeOK /\ ParseInv /\ [Next]_vars => (TypeOK /\ ParseInv)'
  BY NextTypeOK, NextParseInv
<1>3. ParseInv => PanicsOnlyOnOverflow
  BY DEF ParseInv
<1> QED
  BY <1>1, <1>2, <1>3, PTL DEF Spec
-----------------------------------------------------------------------------
(* Prefixes of files that are laid out in sections.                        *)

\* A piece of w cells, from the u-th on.
LEMMA PieceIs ==
    ASSUME NEW q \in Seq(Nat), NEW u \in Nat, NEW w \in Nat, u + w <= Len(q)
    PROVE  /\ SubSeq(q, u + 1, u + w) \in Seq(Nat)
           /\ Len(SubSeq(q, u + 1, u + w)) = w
           /\ SubSeq(q, u + 1, u + w) \in [1..w -> Nat]
           /\ \A p \in 1..w : SubSeq(q, u + 1, u + w)[p] = q[u + p]
<1> DEFINE x == SubSeq(q, u + 1, u + w)
<1>0. Len(q) \in Nat
  OBVIOUS
<1>1. x \in Seq(Nat) /\ Len(x) = w /\ \A p \in 1..w : x[p] = q[u + p]
  <2>1. Len(x) = w
    BY <1>0
  <2>2. ASSUME NEW p \in 1..w PROVE x[p] = q[u + p]
    BY <1>0
  <2>3. x \in Seq(Nat)
    BY <1>0
  <2> QED
    BY <2>1, <2>2, <2>3
<1> HIDE DEF x
<1>2. x \in [1..w -> Nat]
  BY <1>1
<1> QED
  BY <1>1, <1>2 DEF x

LEMMA SequenceIs ==
    ASSUME NEW S, NEW q \in Seq(S)
    PROVE  Len(q) \in Nat /\ DOMAIN q = 1..Len(q) /\ q \in [1..Len(q) -> S]
OBVIOUS

\* What is in a prefix of a file is in the file.
LEMMA PrefixCells ==
    ASSUME bytes \in Seq(Nat), NEW f, f.bytes \in Seq(Nat), IsPrefix(bytes, f.bytes)
    PROVE  /\ Len(bytes) \in Nat /\ Len(f.bytes) \in Nat /\ Len(bytes) <= Len(f.bytes)
           /\ \A p \in 1..Len(bytes) : bytes[p] = f.bytes[p]
           /\ Len(bytes) = Len(f.bytes) => bytes = f.bytes
<1>1. /\ Len(bytes) \in Nat /\ Len(f.bytes) \in Nat /\ Len(bytes) <= Len(f.bytes)
      /\ SubSeq(bytes, 1, Len(bytes)) = SubSeq(f.bytes, 1, Len(bytes))
  BY DEF IsPrefix
<1>2. \A p \in 1..Len(bytes) : /\ SubSeq(bytes, 1, Len(bytes))[p] = bytes[p]
                               /\ SubSeq(f.bytes, 1, Len(bytes))[p] = f.bytes[p]
  BY <1>1
<1>3. \A p \in 1..Len(bytes) : bytes[p] = f.bytes[p]
  BY <1>1, <1>2
<1>4. ASSUME Len(bytes) = Len(f.bytes) PROVE bytes = f.bytes
  <2>1. bytes \in [1..Len(bytes) -> Nat] /\ f.bytes \in [1..Len(bytes) -> Nat]
    BY <1>4
  <2> QED
    BY <1>3, <2>1
<1> QED
  BY <1>1, <1>3, <1>4

\* The k-th section.
LEMMA PartAt ==
    ASSUME NEW f, LaidOut(f), NEW k \in DOMAIN f.parts
    PROVE  /\ k \in 1..Len(f.parts) /\ k \in Nat /\ Len(f.parts) \in Nat /\ Len(f.bytes) \in Nat
           /\ f.parts[k].id \in Nat /\ f.parts[k].start \in Nat /\ f.parts[k].len \in Nat
           /\ EndOf(f, k - 1) \in Nat
           /\ f.parts[k].start = EndOf(f, k - 1) + 2
           /\ f.bytes[f.parts[k].start - 1] = f.parts[k].id
           /\ f.bytes[f.parts[k].start] = f.parts[k].len
           /\ EndOf(f, k) = f.parts[k].start + f.parts[k].len
           /\ EndOf(f, k) <= Len(f.bytes)
<1>1. f.parts \in Seq(Part) /\ k \in 1..Len(f.parts)
  BY DEF LaidOut
<1>2. \A j \in 1..Len(f.parts) : f.parts[j] \in Part
  BY <1>1
<1>3. \A j \in 1..Len(f.parts) : f.parts[j].id \in Nat /\ f.parts[j].start \in Nat /\ f.parts[j].len \in Nat
  BY <1>2 DEF Part
<1>4. EndOf(f, k - 1) \in Nat
  <2>1. CASE k = 1
    BY <2>1 DEF EndOf
  <2>2. CASE k # 1
    <3>1. k - 1 \in 1..Len(f.parts) /\ k - 1 # 0
      BY <1>1, <2>2
    <3> QED
      BY <1>3, <3>1 DEF EndOf
  <2> QED
    BY <2>1, <2>2
<1>5. /\ f.parts[k].start = EndOf(f, k - 1) + 2
      /\ f.bytes[f.parts[k].start - 1] = f.parts[k].id
      /\ f.bytes[f.parts[k].start] = f.parts[k].len
      /\ EndOf(f, k) <= Len(f.bytes)
      /\ f.bytes \in Seq(Nat)
  BY DEF LaidOut
<1>6. EndOf(f, k) = f.parts[k].start + f.parts[k].len
  BY <1>1 DEF EndOf
<1>7. Len(f.bytes) \in Nat /\ Len(f.parts) \in Nat
  BY <1>1, <1>5
<1>8. k \in Nat /\ k \in 1..Len(f.parts)
  BY <1>1, <1>7
<1>9. f.parts[k].id \in Nat /\ f.parts[k].start \in Nat /\ f.parts[k].len \in Nat
  BY <1>3, <1>8
<1> QED
  BY <1>4, <1>5, <1>6, <1>7, <1>8, <1>9, Zenon

\* The section of an id.
LEMMA PartOfId ==
    ASSUME NEW f, LaidOut(f), NEW i \in Ids(f)
    PROVE  \E k \in DOMAIN f.parts : f.parts[k].id = i /\ PartOf(f, i) = f.parts[k]
BY DEF Ids, PartOf

LEMMA BodyCells ==
    ASSUME NEW f, LaidOut(f), NEW i \in Ids(f)
    PROVE  /\ PartOf(f, i).start \in Nat /\ PartOf(f, i).len \in Nat
           /\ PartOf(f, i).start + PartOf(f, i).len <= Len(f.bytes)
           /\ Len(Body(f, i)) = PartOf(f, i).len
           /\ \A p \in 1..PartOf(f, i).len :
                 /\ Body(f, i)[p] = f.bytes[PartOf(f, i).start + p]
                 /\ Body(f, i)[p] \in Nat
           /\ Body(f, i) \in Seq(Nat)
<1>1. PICK k \in DOMAIN f.parts : f.parts[k].id = i /\ PartOf(f, i) = f.parts[k]
  BY PartOfId
<1>2. /\ PartOf(f, i).start \in Nat /\ PartOf(f, i).len \in Nat
      /\ PartOf(f, i).start + PartOf(f, i).len <= Len(f.bytes)
  BY <1>1, PartAt
<1>3. f.bytes \in Seq(Nat)
  BY DEF LaidOut
<1> DEFINE s == PartOf(f, i).start
           n == PartOf(f, i).len
<1>4. s \in Nat /\ n \in Nat /\ s + n <= Len(f.bytes)
  BY <1>2
<1> HIDE DEF s, n
<1>5. /\ Len(SubSeq(f.bytes, s + 1, s + n)) = n
      /\ SubSeq(f.bytes, s + 1, s + n) \in Seq(Nat)
      /\ \A p \in 1..n : SubSeq(f.bytes, s + 1, s + n)[p] = f.bytes[s + p]
  BY <1>3, <1>4
<1>6. \A p \in 1..n : f.bytes[s + p] \in Nat
  BY <1>3, <1>4
<1> QED
  BY <1>2, <1>5, <1>6 DEF s, n, Body

\* The length of a file, and every number in a section's header, is that of no
\* negative word.
LEMMA FileIsShort ==
    ASSUME NEW f, LaidOut(f)
    PROVE  /\ Len(f.bytes) \in Nat /\ WordSize \in Nat /\ WordSize \div 2 \in Nat
           /\ Len(f.bytes) < WordSize \div 2 /\ Len(f.bytes) < WordSize
           /\ Len(f.bytes) >= 2
BY WordAssumption DEF LaidOut

-----------------------------------------------------------------------------
(* The walk over a prefix of a file that was written.                      *)

LEMMA WrittenIsLaidOut ==
    ASSUME NEW f \in Written
    PROVE  /\ LaidOut(f)
           /\ reader = "read_zkey" => IsKey(f)
           /\ reader # "read_zkey" => IsWitness(f)
BY WitnessFilesAssumption, KeyFilesAssumption DEF Written

\* The header at hand is that of the section after those that were kept.
LEMMA AtHeader ==
    ASSUME TypeOK, NEW f, LaidOut(f), IsPrefix(bytes, f.bytes), ReadAsWritten(f),
           pc = "walk", left > 0, NEW n, n = Len(f.parts) - left
    PROVE  /\ n \in Nat /\ n + 1 \in DOMAIN f.parts /\ n + 1 \in 1..Len(f.parts)
           /\ off = EndOf(f, n) /\ off \in Nat
           /\ f.parts[n + 1].start = off + 2
           /\ EndOf(f, n + 1) = off + 2 + f.parts[n + 1].len
           /\ EndOf(f, n + 1) <= Len(f.bytes)
           /\ Inside(off, 2) => /\ id = f.parts[n + 1].id
                                /\ slen = f.parts[n + 1].len
                                /\ body = f.parts[n + 1].start
<1>1. n \in Nat /\ n + 1 \in 1..Len(f.parts) /\ off = EndOf(f, n) /\ off \in Nat
  <2>1. n \in 0..Len(f.parts) /\ off = EndOf(f, n) /\ left \in Nat /\ off \in Nat
    BY DEF ReadAsWritten, TypeOK
  <2>2. Len(f.parts) \in Nat
    BY DEF LaidOut
  <2> QED
    BY <2>1, <2>2
<1>2. n + 1 \in DOMAIN f.parts
  BY <1>1 DEF LaidOut
<1>3. /\ f.parts[n + 1].start = off + 2
      /\ EndOf(f, n + 1) = off + 2 + f.parts[n + 1].len
      /\ EndOf(f, n + 1) <= Len(f.bytes)
      /\ f.bytes[off + 1] = f.parts[n + 1].id
      /\ f.bytes[off + 2] = f.parts[n + 1].len
  <2>1. (n + 1) - 1 = n /\ (off + 2) - 1 = off + 1
    BY <1>1
  <2> QED
    BY <1>1, <1>2, <2>1, PartAt
<1>4. ASSUME Inside(off, 2)
      PROVE  id = f.parts[n + 1].id /\ slen = f.parts[n + 1].len /\ body = f.parts[n + 1].start
  <2>1. f.bytes \in Seq(Nat) /\ bytes \in Seq(Nat)
    BY DEF LaidOut, TypeOK
  <2>2. off + 1 \in 1..Len(bytes) /\ off + 2 \in 1..Len(bytes) /\ (off + 1) + 1 = off + 2
    <3>1. Len(bytes) \in Nat
      BY <2>1, SequenceIs
    <3>2. off + 2 <= Len(bytes)
      BY <1>4 DEF Inside
    <3> QED
      BY <1>1, <3>1, <3>2
  <2>3. bytes[off + 1] = f.bytes[off + 1] /\ bytes[off + 2] = f.bytes[off + 2]
    BY <2>1, <2>2, PrefixCells
  <2> QED
    BY <1>3, <2>2, <2>3 DEF id, slen, body, Cell
<1> QED
  BY <1>1, <1>2, <1>3, <1>4

\* What is kept of the next section.
LEMMA KeptNext ==
    ASSUME TypeOK, NEW f, LaidOut(f), IsPrefix(bytes, f.bytes), ReadAsWritten(f),
           pc = "walk", left > 0, NEW n, n = Len(f.parts) - left, Inside(off, 2),
           sections' = With(Section)
    PROVE  id \notin DOMAIN sections /\ Kept(f, n + 1)'
<1>1. /\ n \in Nat /\ n + 1 \in DOMAIN f.parts /\ n + 1 \in 1..Len(f.parts)
      /\ id = f.parts[n + 1].id /\ slen = f.parts[n + 1].len /\ body = f.parts[n + 1].start
  BY AtHeader
<1>2. Kept(f, n)
  BY DEF ReadAsWritten
<1>3. \A k \in 1..n : k \in DOMAIN f.parts /\ k # n + 1
  BY <1>1 DEF LaidOut
<1>4. \A k \in 1..n : f.parts[k].id # id
  BY <1>1, <1>3 DEF LaidOut
<1>5. id \notin DOMAIN sections
  BY <1>2, <1>4 DEF Kept
<1>6. \A k : k \in 1..(n + 1) <=> k \in 1..n \/ k = n + 1
  BY <1>1
<1>7. DOMAIN sections' = DOMAIN sections \cup {id}
  BY DEF With
<1>8. DOMAIN sections' = {f.parts[k].id : k \in 1..(n + 1)}
  BY <1>1, <1>2, <1>6, <1>7 DEF Kept
<1>9. sections'[id] = [start |-> f.parts[n + 1].start, len |-> f.parts[n + 1].len]
  BY <1>1 DEF With, Section
<1>10. ASSUME NEW k \in 1..n
       PROVE  sections'[f.parts[k].id] = [start |-> f.parts[k].start, len |-> f.parts[k].len]
  <2>1. f.parts[k].id \in DOMAIN sections /\ f.parts[k].id # id
    BY <1>2, <1>4 DEF Kept
  <2>2. sections'[f.parts[k].id] = sections[f.parts[k].id]
    BY <2>1 DEF With
  <2> QED
    BY <1>2, <2>2 DEF Kept
<1>11. \A k \in 1..(n + 1) : sections'[f.parts[k].id] = [start |-> f.parts[k].start, len |-> f.parts[k].len]
  BY <1>1, <1>6, <1>9, <1>10
<1> QED
  BY <1>5, <1>8, <1>11 DEF Kept

\* Of a section that was kept, the beginning and the length are those in the file.
LEMMA KeptSection ==
    ASSUME NEW f, LaidOut(f), Kept(f, Len(f.parts)), NEW i \in Ids(f)
    PROVE  /\ i \in DOMAIN sections
           /\ sections[i].start = PartOf(f, i).start /\ sections[i].len = PartOf(f, i).len
<1>1. PICK k \in DOMAIN f.parts : f.parts[k].id = i /\ PartOf(f, i) = f.parts[k]
  BY PartOfId
<1>2. k \in 1..Len(f.parts)
  BY PartAt
<1>3. /\ f.parts[k].id \in DOMAIN sections
      /\ sections[f.parts[k].id] = [start |-> f.parts[k].start, len |-> f.parts[k].len]
  BY <1>2 DEF Kept
<1>4. sections[i] = [start |-> PartOf(f, i).start, len |-> PartOf(f, i).len]
  BY <1>1, <1>3
<1> QED
  BY <1>1, <1>3, <1>4

-----------------------------------------------------------------------------
(* The elements of a witness.                                              *)

\* The k-th of the pieces of w cells lies within n cells.
LEMMA PieceFits ==
    ASSUME NEW n \in Nat, NEW w \in Nat, w > 0, NEW k \in 1..(n \div w)
    PROVE  (k - 1) * w \in Nat /\ (k - 1) * w + w <= n
<1>1. n \div w \in Nat
  OBVIOUS
<1>2. w * (n \div w) <= n
  OBVIOUS
<1> DEFINE q == n \div w
<1>3. q \in Nat /\ w * q <= n /\ k \in 1..q
  BY <1>1, <1>2
<1> HIDE DEF q
<1>4. k \in Nat /\ k - 1 \in Nat /\ q - k \in Nat
  BY <1>3
<1>5. (k - 1) * w \in Nat /\ w * (q - k) \in Nat
  BY <1>4
<1>6. w * q = w * (q - k) + ((k - 1) * w + w)
  BY <1>3, <1>4
<1> QED
  BY <1>3, <1>5, <1>6

\* A piece of a section that the prefix holds.
LEMMA PieceOfBody ==
    ASSUME NEW f, LaidOut(f), bytes \in Seq(Nat), IsPrefix(bytes, f.bytes),
           NEW i \in Ids(f), PartOf(f, i).start + PartOf(f, i).len <= Len(bytes),
           NEW a \in Nat, NEW w \in Nat, a + w <= PartOf(f, i).len
    PROVE  Cells(PartOf(f, i).start + a, w) = SubSeq(Body(f, i), a + 1, a + w)
<1> DEFINE s == PartOf(f, i).start
           n == PartOf(f, i).len
           b == Body(f, i)
<1>1. s \in Nat /\ n \in Nat /\ b \in Seq(Nat) /\ Len(b) = n /\ \A p \in 1..n : b[p] = f.bytes[s + p]
  BY BodyCells
<1>2. s + n <= Len(bytes) /\ a + w <= n
  OBVIOUS
<1>3. \A p \in 1..Len(bytes) : bytes[p] = f.bytes[p]
  BY PrefixCells DEF LaidOut
<1> HIDE DEF s, n, b
<1>4. \A p \in 1..n : b[p] = bytes[s + p]
  <2>1. \A p \in 1..n : s + p \in 1..Len(bytes)
    BY <1>1, <1>2
  <2> QED
    BY <1>1, <1>3, <2>1
<1> DEFINE x == SubSeq(bytes, s + a + 1, s + a + w)
           y == SubSeq(b, a + 1, a + w)
<1>5. x \in [1..w -> Nat] /\ \A p \in 1..w : x[p] = bytes[s + (a + p)]
  <2>1. s + a \in Nat /\ (s + a) + w <= Len(bytes) /\ \A p \in 1..w : (s + a) + p = s + (a + p)
    BY <1>1, <1>2
  <2>2. x \in [1..w -> Nat] /\ \A p \in 1..w : x[p] = bytes[(s + a) + p]
    BY <2>1, PieceIs
  <2> HIDE DEF x
  <2> QED
    BY <2>1, <2>2
<1>6. y \in [1..w -> Nat] /\ \A p \in 1..w : y[p] = b[a + p]
  BY <1>1, <1>2, PieceIs
<1>7. \A p \in 1..w : a + p \in 1..n
  BY <1>1, <1>2
<1>8. \A p \in 1..w : x[p] = y[p]
  BY <1>4, <1>5, <1>6, <1>7
<1> HIDE DEF x, y
<1>9. x = y
  BY <1>5, <1>6, <1>8
<1> QED
  BY <1>9 DEF s, b, x, y, Cells

\* What a reader finds in the prefix of a witness whose sections it has walked.
LEMMA WitnessWalked ==
    ASSUME TypeOK, NEW f, LaidOut(f), IsWitness(f), IsPrefix(bytes, f.bytes), ReadAsWritten(f),
           Walked(WitnessReaders)
    PROVE  /\ WellFormed
           /\ Inside(data.start, data.len)
           /\ [k \in 1..(data.len \div n8) |-> Element(Cells(data.start + (k - 1) * n8, n8))] = f.of
<1>1. /\ pc = "walk" /\ left = 0 /\ reader \in WitnessReaders
      /\ bytes \in Seq(Nat) /\ f.bytes \in Seq(Nat) /\ Len(f.parts) \in Nat
  BY DEF Walked, TypeOK, LaidOut
<1>2. Kept(f, Len(f.parts)) /\ \A k \in 1..Len(f.parts) : EndOf(f, k) <= Len(bytes)
  BY <1>1 DEF ReadAsWritten
<1> DEFINE width == Body(f, 1)[1]
           elements == Body(f, 2)
<1>3. /\ 1 \in Ids(f) /\ 2 \in Ids(f)
      /\ Len(Body(f, 1)) > 0 /\ width > 0
      /\ f.of \in Seq(0..(FieldOrder - 1))
      /\ Len(elements) % width = 0 /\ Len(f.of) = Len(elements) \div width
      /\ \A k \in DOMAIN f.of :
            f.of[k] = LittleEndian(SubSeq(elements, (k - 1) * width + 1, (k - 1) * width + width))
  BY DEF IsWitness
<1>4. ASSUME NEW i \in Ids(f)
      PROVE  /\ i \in DOMAIN sections
             /\ sections[i].start = PartOf(f, i).start /\ sections[i].len = PartOf(f, i).len
             /\ PartOf(f, i).start + PartOf(f, i).len <= Len(bytes)
             /\ PartOf(f, i).start \in Nat /\ PartOf(f, i).len \in Nat
             /\ Len(Body(f, i)) = PartOf(f, i).len
  <2>1. PICK k \in DOMAIN f.parts : f.parts[k].id = i /\ PartOf(f, i) = f.parts[k]
    BY PartOfId
  <2>2. PartOf(f, i).start + PartOf(f, i).len = EndOf(f, k) /\ EndOf(f, k) <= Len(bytes)
    BY <1>2, <2>1, PartAt
  <2> QED
    BY <1>2, <2>2, KeptSection, BodyCells
<1>5. data.start = PartOf(f, 2).start /\ data.len = PartOf(f, 2).len /\ Inside(data.start, data.len)
  BY <1>3, <1>4 DEF data, Inside
<1>6. n8 = width /\ width \in Nat
  <2>1. 1 \in 1..PartOf(f, 1).len
    BY <1>3, <1>4
  <2>2. width = f.bytes[PartOf(f, 1).start + 1] /\ width \in Nat
    BY <1>3, <2>1, BodyCells
  <2>3. PartOf(f, 1).start + 1 \in 1..Len(bytes)
    BY <1>1, <1>3, <1>4, <2>1
  <2>4. bytes[PartOf(f, 1).start + 1] = f.bytes[PartOf(f, 1).start + 1]
    BY <1>1, <2>3, PrefixCells
  <2> QED
    BY <1>3, <1>4, <2>2, <2>4 DEF n8, Cell
<1>7. WellFormed
  BY <1>3, <1>4, <1>5, <1>6 DEF WellFormed
<1> DEFINE N == data.len \div n8
           read == [k \in 1..N |-> Element(Cells(data.start + (k - 1) * n8, n8))]
<1>8. Len(f.of) = N /\ Len(f.of) \in Nat /\ f.of \in [1..N -> 0..(FieldOrder - 1)]
  <2>1. Len(f.of) = N
    BY <1>3, <1>4, <1>5, <1>6
  <2> HIDE DEF N
  <2>2. f.of \in Seq(0..(FieldOrder - 1))
    BY <1>3
  <2>3. Len(f.of) \in Nat /\ f.of \in [1..Len(f.of) -> 0..(FieldOrder - 1)]
    BY <2>2, SequenceIs
  <2> QED
    BY <2>1, <2>3
<1>9. ASSUME NEW k \in 1..N PROVE Element(Cells(data.start + (k - 1) * n8, n8)) = f.of[k]
  <2>1. k \in 1..(PartOf(f, 2).len \div width) /\ PartOf(f, 2).len \in Nat /\ width > 0
    BY <1>3, <1>4, <1>5, <1>6
  <2>2. (k - 1) * width \in Nat /\ (k - 1) * width + width <= PartOf(f, 2).len
    BY <1>6, <2>1, PieceFits
  <2>3. Cells(PartOf(f, 2).start + (k - 1) * width, width)
           = SubSeq(Body(f, 2), (k - 1) * width + 1, (k - 1) * width + width)
    <3> DEFINE a == (k - 1) * width
    <3>1. a \in Nat /\ a + width <= PartOf(f, 2).len
      BY <2>2
    <3>3. width \in Nat /\ 2 \in Ids(f) /\ PartOf(f, 2).start + PartOf(f, 2).len <= Len(bytes)
      BY <1>3, <1>4, <1>6
    <3> HIDE DEF a, width
    <3>2. Cells(PartOf(f, 2).start + a, width) = SubSeq(Body(f, 2), a + 1, a + width)
      BY <1>1, <3>1, <3>3, PieceOfBody
    <3> QED
      BY <3>2 DEF a
  <2>4. f.of[k] = LittleEndian(Cells(data.start + (k - 1) * n8, n8)) /\ f.of[k] \in 0..(FieldOrder - 1)
    BY <1>3, <1>5, <1>6, <1>8, <2>3
  <2>5. f.of[k] % FieldOrder = f.of[k]
    BY <2>4, FieldAssumption
  <2> QED
    BY <2>4, <2>5 DEF Element
<1>10. read = f.of
  BY <1>8, <1>9
<1> QED
  BY <1>5, <1>7, <1>10

-----------------------------------------------------------------------------
(* The header and the coefficients of a key.                               *)

\* A cell of a section that the prefix holds.
LEMMA CellOfBody ==
    ASSUME TypeOK, NEW f, LaidOut(f), IsPrefix(bytes, f.bytes), NEW i \in Ids(f),
           NEW p \in 1..PartOf(f, i).len, PartOf(f, i).start + p <= Len(bytes)
    PROVE  Cell(PartOf(f, i).start + (p - 1)) = Body(f, i)[p] /\ Body(f, i)[p] \in Nat
<1>1. /\ PartOf(f, i).start \in Nat /\ PartOf(f, i).len \in Nat
      /\ Body(f, i)[p] = f.bytes[PartOf(f, i).start + p] /\ Body(f, i)[p] \in Nat
  BY BodyCells
<1>2. bytes \in Seq(Nat) /\ f.bytes \in Seq(Nat)
  BY DEF TypeOK, LaidOut
<1>3. /\ PartOf(f, i).start + p \in 1..Len(bytes)
      /\ PartOf(f, i).start + (p - 1) + 1 = PartOf(f, i).start + p
  <2>1. Len(bytes) \in Nat /\ p \in Nat /\ p >= 1
    BY <1>1, <1>2, SequenceIs
  <2> QED
    BY <1>1, <2>1
<1>4. bytes[PartOf(f, i).start + p] = f.bytes[PartOf(f, i).start + p]
  BY <1>2, <1>3, PrefixCells
<1> QED
  BY <1>1, <1>3, <1>4 DEF Cell

\* A section that the prefix holds is the file's.
LEMMA WholeBody ==
    ASSUME TypeOK, NEW f, LaidOut(f), IsPrefix(bytes, f.bytes), NEW i \in Ids(f),
           PartOf(f, i).start + PartOf(f, i).len <= Len(bytes)
    PROVE  Cells(PartOf(f, i).start, PartOf(f, i).len) = Body(f, i)
<1> DEFINE s == PartOf(f, i).start
           n == PartOf(f, i).len
           b == Body(f, i)
<1>1. s \in Nat /\ n \in Nat /\ b \in Seq(Nat) /\ Len(b) = n /\ s + n <= Len(bytes)
      /\ \A p \in 1..n : b[p] = f.bytes[s + p]
  BY BodyCells
<1>2. bytes \in Seq(Nat) /\ \A p \in 1..Len(bytes) : bytes[p] = f.bytes[p]
  BY PrefixCells DEF LaidOut, TypeOK
<1> DEFINE x == SubSeq(bytes, s + 1, s + n)
<1> HIDE DEF s, n, b
<1>3. x \in [1..n -> Nat] /\ \A p \in 1..n : x[p] = bytes[s + p]
  BY <1>1, <1>2, PieceIs
<1>4. \A p \in 1..n : s + p \in 1..Len(bytes)
  BY <1>1, <1>2
<1>5. b \in [1..n -> Nat]
  BY <1>1
<1> HIDE DEF x
<1>6. \A p \in 1..n : x[p] = b[p]
  BY <1>1, <1>2, <1>3, <1>4
<1>7. x = b
  <2>1. x = [p \in 1..n |-> x[p]] /\ b = [p \in 1..n |-> b[p]]
    BY <1>3, <1>5
  <2>2. [p \in 1..n |-> x[p]] = [p \in 1..n |-> b[p]]
    BY <1>6, Zenon
  <2> QED
    BY <2>1, <2>2, Zenon
<1> QED
  BY <1>7 DEF x, s, n, b, Cells

\* The numbers in the header of a key, if the prefix holds it.
LEMMA HeaderOfKey ==
    ASSUME TypeOK, NEW f, LaidOut(f), IsKey(f), IsPrefix(bytes, f.bytes), Kept(f, Len(f.parts)),
           Inside(PartOf(f, 2).start, Size(2))
    PROVE  /\ n_public = f.of.num_instance_variables - 1 /\ n_public \in Nat
           /\ n_vars = f.of.num_witness_variables + n_public /\ n_vars \in Nat
           /\ f.of.num_witness_variables \in Nat \ {0}
           /\ domain_size = Len(Body(f, 9)) /\ domain_size \in Nat
           /\ Cell(sections[2].start + 3) = f.of.vk
           /\ n_vars < WordSize /\ domain_size < WordSize
           /\ n_vars < CountSize /\ domain_size < CountSize
<1> DEFINE key == f.of
           public == key.num_instance_variables - 1
           vars_of == key.num_witness_variables + public
<1>1. /\ key.num_instance_variables \in Nat \ {0} /\ key.num_witness_variables \in Nat \ {0}
      /\ Body(f, 2) = <<vars_of, public, Len(key.points[9]), key.vk>>
      /\ key.points = [i \in {3, 5, 6, 7, 8, 9} |-> Body(f, i)]
      /\ Len(Body(f, 5)) = vars_of
      /\ 2..9 \subseteq Ids(f)
  BY DEF IsKey
<1>2. 2 \in Ids(f) /\ 5 \in Ids(f) /\ 9 \in Ids(f)
  BY <1>1
<1>3. key.points[9] = Body(f, 9)
  BY <1>1
<1>4. /\ Len(Body(f, 2)) = 4
      /\ Body(f, 2)[1] = vars_of /\ Body(f, 2)[2] = public
      /\ Body(f, 2)[3] = Len(Body(f, 9)) /\ Body(f, 2)[4] = key.vk
  BY <1>1, <1>3
<1>5. PartOf(f, 2).len = 4 /\ PartOf(f, 2).start \in Nat /\ PartOf(f, 2).start + 4 <= Len(bytes)
  <2>1. Size(2) = 4
    BY DEF Size
  <2>2. PartOf(f, 2).len = Len(Body(f, 2)) /\ PartOf(f, 2).start \in Nat
    BY <1>2, BodyCells
  <2> QED
    BY <1>4, <2>1, <2>2 DEF Inside
<1>6. sections[2].start = PartOf(f, 2).start
  BY <1>2, KeptSection
<1>7. Len(bytes) \in Nat
  BY DEF TypeOK
<1>8. /\ Cell(sections[2].start + (1 - 1)) = Body(f, 2)[1] /\ Cell(sections[2].start + (2 - 1)) = Body(f, 2)[2]
      /\ Cell(sections[2].start + (3 - 1)) = Body(f, 2)[3] /\ Cell(sections[2].start + (4 - 1)) = Body(f, 2)[4]
  <2>1. ASSUME NEW p \in 1..4 PROVE Cell(sections[2].start + (p - 1)) = Body(f, 2)[p]
    <3>1. p \in 1..PartOf(f, 2).len /\ PartOf(f, 2).start + p <= Len(bytes)
      BY <1>5, <1>7
    <3> QED
      BY <1>2, <1>6, <3>1, CellOfBody
  <2> QED
    BY <2>1
<1>9. sections[2].start + (1 - 1) = sections[2].start
  BY <1>5, <1>6
<1>10. n_vars = vars_of /\ n_public = public /\ domain_size = Len(Body(f, 9))
       /\ Cell(sections[2].start + 3) = key.vk
  BY <1>4, <1>8, <1>9 DEF n_vars, n_public, domain_size
<1>11. Len(Body(f, 5)) < WordSize /\ Len(Body(f, 9)) < WordSize /\ Len(Body(f, 9)) \in Nat
  <2>1. ASSUME NEW i \in Ids(f) PROVE Len(Body(f, i)) < WordSize /\ Len(Body(f, i)) \in Nat
    <3>1. /\ PartOf(f, i).start \in Nat /\ PartOf(f, i).len \in Nat
          /\ PartOf(f, i).start + PartOf(f, i).len <= Len(f.bytes)
          /\ Len(Body(f, i)) = PartOf(f, i).len
      BY BodyCells
    <3> QED
      BY <3>1, FileIsShort
  <2> QED
    BY <1>2, <2>1
<1>12. public \in Nat /\ vars_of \in Nat
  BY <1>1
<1>13. vars_of < CountSize /\ Len(Body(f, 9)) < CountSize
  BY <1>3 DEF IsKey
<1> QED
  BY <1>1, <1>10, <1>11, <1>12, <1>13

LEMMA NotTruncated == \A n \in Nat : n < CountSize => AsCount(n) = n
BY WordAssumption DEF AsCount

\* The sections of points are as long as the header says.
LEMMA SizesOfKey ==
    ASSUME TypeOK, NEW f, LaidOut(f), IsKey(f), IsPrefix(bytes, f.bytes), Kept(f, Len(f.parts)),
           Inside(PartOf(f, 2).start, Size(2))
    PROVE  /\ ~Overflows(n_private)
           /\ \A i \in {3, 5, 6, 7, 8, 9} : Size(i) = Len(Body(f, i))
<1>1. /\ n_public = f.of.num_instance_variables - 1 /\ n_public \in Nat
      /\ n_vars = f.of.num_witness_variables + n_public /\ n_vars \in Nat
      /\ f.of.num_witness_variables \in Nat \ {0}
      /\ domain_size = Len(Body(f, 9))
      /\ n_vars < WordSize /\ WordSize \in Nat
      /\ n_vars < CountSize /\ domain_size < CountSize /\ CountSize \in Nat
      /\ domain_size \in Nat
  BY HeaderOfKey, WordAssumption
<1>2. /\ Len(Body(f, 3)) = f.of.num_instance_variables - 1 + 1
      /\ \A i \in {5, 6, 7} :
            Len(Body(f, i)) = f.of.num_witness_variables + (f.of.num_instance_variables - 1)
      /\ Len(Body(f, 8)) = f.of.num_witness_variables - 1
  BY DEF IsKey
<1>3. n_private = f.of.num_witness_variables - 1 /\ n_private \in Nat /\ n_private < WordSize
  <2> DEFINE w == f.of.num_witness_variables
  <2>1. w \in Nat \ {0} /\ n_vars = w + n_public
    BY <1>1
  <2> HIDE DEF w
  <2>2. n_private = w - 1 /\ w - 1 \in Nat /\ w - 1 < WordSize
    <3> DEFINE u == n_vars
               v == n_public
    <3>1. n_private = u - v - 1
      BY DEF n_private
    <3>2. u = w + v /\ v \in Nat /\ u < WordSize /\ WordSize \in Nat /\ w \in Nat \ {0}
      BY <1>1, <2>1
    <3> HIDE DEF u, v
    <3> QED
      BY <3>1, <3>2
  <2> QED
    BY <2>2 DEF w
<1>4. Wrap(n_private) = n_private /\ ~Overflows(n_private)
  BY <1>1, <1>3, NotWrapped DEF Overflows
<1>5. /\ Size(3) = n_public + 1 /\ Size(8) = n_private /\ Size(9) = domain_size
      /\ Size(5) = n_vars /\ Size(6) = n_vars /\ Size(7) = n_vars
  <2>1. /\ Size(3) = AsCount(n_public + 1) /\ Size(8) = AsCount(Wrap(n_private))
        /\ Size(9) = AsCount(domain_size)
        /\ Size(5) = AsCount(n_vars) /\ Size(6) = AsCount(n_vars) /\ Size(7) = AsCount(n_vars)
    BY DEF Size
  <2>2. /\ n_public + 1 \in Nat /\ n_public + 1 < CountSize
        /\ n_private \in Nat /\ n_private < CountSize
    <3> DEFINE w == f.of.num_witness_variables
               u == n_vars
               v == n_public
               p == n_private
    <3>1. w \in Nat \ {0} /\ v \in Nat /\ u = w + v /\ u < CountSize /\ CountSize \in Nat /\ p = w - 1
      BY <1>1, <1>3
    <3> HIDE DEF w, u, v, p
    <3>2. v + 1 \in Nat /\ v + 1 < CountSize /\ p \in Nat /\ p < CountSize
      BY <3>1
    <3> QED
      BY <3>2 DEF v, p
  <2> QED
    BY <1>1, <1>4, <2>1, <2>2, NotTruncated
<1>6. Size(3) = Len(Body(f, 3)) /\ Size(8) = Len(Body(f, 8)) /\ Size(9) = Len(Body(f, 9))
  BY <1>1, <1>2, <1>3, <1>4, <1>5
<1>7. \A i \in {5, 6, 7} : Size(i) = Len(Body(f, i))
  BY <1>1, <1>2, <1>5
<1> QED
  BY <1>4, <1>6, <1>7

\* Of the whole file nothing that is read is missing.
LEMMA WholeKeyRead ==
    ASSUME TypeOK, NEW f, LaidOut(f), IsKey(f), bytes = f.bytes, Kept(f, Len(f.parts)),
           NEW i \in 2..9, i # 2 => Inside(PartOf(f, 2).start, Size(2))
    PROVE  Inside(PartOf(f, i).start, Size(i))
<1>1. i \in Ids(f) /\ 2 \in Ids(f)
  <2>1. 2..9 \subseteq Ids(f)
    BY DEF IsKey
  <2> QED
    BY <2>1
<1>2. /\ PartOf(f, i).start \in Nat /\ PartOf(f, i).len \in Nat
      /\ PartOf(f, i).start + PartOf(f, i).len <= Len(bytes)
      /\ Len(Body(f, i)) = PartOf(f, i).len
      /\ Len(bytes) \in Nat
  BY <1>1, BodyCells, FileIsShort
<1>3. IsPrefix(bytes, f.bytes)
  BY DEF IsPrefix, LaidOut
<1>4. CASE i = 2
  <2>1. Size(i) = 4 /\ Len(Body(f, i)) = 4
    BY <1>4 DEF Size, IsKey
  <2> QED
    BY <1>2, <2>1 DEF Inside
<1>5. CASE i = 4
  <2>1. Size(i) = 1 /\ Len(Body(f, i)) > 0
    BY <1>5 DEF Size, IsKey
  <2> QED
    BY <1>2, <2>1 DEF Inside
<1>6. CASE i \in {3, 5, 6, 7, 8, 9}
  <2>1. Size(i) = Len(Body(f, i))
    BY <1>3, <1>6, SizesOfKey
  <2> QED
    BY <1>2, <2>1 DEF Inside
<1> QED
  BY <1>4, <1>5, <1>6

\* The coefficients in the prefix are the file's.
LEMMA CoefficientsOfKey ==
    ASSUME TypeOK, NEW f, LaidOut(f), IsKey(f), IsPrefix(bytes, f.bytes), Kept(f, Len(f.parts)),
           Inside(PartOf(f, 2).start, Size(2)), Inside(PartOf(f, 4).start, Size(4))
    PROVE  /\ num_coeffs = Body(f, 4)[1] /\ num_coeffs \in Nat
           /\ \A k \in Present : Coeff(k) = Coefficients(Body(f, 4))[k]
           /\ CoeffsMatch
           /\ bytes = f.bytes => Present = 1..num_coeffs
           /\ Cardinality(Present) \in Nat /\ Cardinality(Present) <= num_coeffs
           /\ Cardinality(Present) = num_coeffs <=> Present = 1..num_coeffs
<1> DEFINE C == Coefficients(Body(f, 4))
           s == PartOf(f, 4).start
           n == PartOf(f, 4).len
           N == Body(f, 4)[1]
<1>1. /\ 4 \in Ids(f) /\ n = Len(Body(f, 4)) /\ n > 0 /\ n = 4 * N + 1
      /\ \A k \in DOMAIN C :
            /\ C[k].matrix \in {0, 1}
            /\ C[k].constraint <= f.of.num_constraints + (f.of.num_instance_variables - 1)
      /\ f.of.num_constraints + (f.of.num_instance_variables - 1) < Len(f.of.points[9])
      /\ f.of.num_constraints \in Nat /\ f.of.num_instance_variables \in Nat \ {0}
      /\ f.of.points[9] = Body(f, 9)
  <2>1. /\ 2..9 \subseteq Ids(f)
        /\ Len(Body(f, 4)) > 0 /\ Len(Body(f, 4)) = 4 * Body(f, 4)[1] + 1
        /\ \A k \in DOMAIN C :
              /\ C[k].matrix \in {0, 1}
              /\ C[k].constraint <= f.of.num_constraints + (f.of.num_instance_variables - 1)
        /\ f.of.num_constraints + (f.of.num_instance_variables - 1) < Len(f.of.points[9])
        /\ f.of.num_constraints \in Nat /\ f.of.num_instance_variables \in Nat \ {0}
    BY DEF IsKey
  <2>2. f.of.points[9] = Body(f, 9)
    BY DEF IsKey
  <2>3. 4 \in Ids(f)
    BY <2>1
  <2>4. n = Len(Body(f, 4))
    BY <2>3, BodyCells
  <2> QED
    BY <2>1, <2>2, <2>3, <2>4
<1>2. /\ s \in Nat /\ n \in Nat /\ s + n <= Len(f.bytes) /\ s + 1 <= Len(bytes)
      /\ sections[4].start = s /\ Len(bytes) \in Nat
  <2>1. Size(4) = 1
    BY DEF Size
  <2> QED
    BY <1>1, <2>1, BodyCells, KeptSection, SequenceIs DEF Inside, TypeOK
<1>3. num_coeffs = N /\ N \in Nat
  <2>1. 1 \in 1..n
    BY <1>1, <1>2
  <2>2. Cell(s + (1 - 1)) = N /\ N \in Nat
    BY <1>1, <1>2, <2>1, CellOfBody
  <2>3. s + (1 - 1) = s
    BY <1>2
  <2> QED
    BY <1>2, <2>2, <2>3 DEF num_coeffs, coeffs
<1>a. /\ n \in Nat /\ N \in Nat /\ n = 4 * N + 1 /\ s \in Nat /\ Len(bytes) \in Nat
      /\ s + n <= Len(f.bytes) /\ sections[4].start = s
  BY <1>1, <1>2, <1>3
<1> HIDE DEF s, n, N
<1>4. ASSUME NEW k \in 1..N
      PROVE  /\ Inside(CoeffAt(k), 4) <=> s + 1 + 4 * k <= Len(bytes)
             /\ k \in DOMAIN C
             /\ C[k] = [matrix |-> Body(f, 4)[4 * k - 2], constraint |-> Body(f, 4)[4 * k - 1],
                        signal |-> Body(f, 4)[4 * k], value |-> Body(f, 4)[4 * k + 1]]
  <2>1. k \in Nat /\ k >= 1
    BY <1>a
  <2>2. CoeffAt(k) = s + 1 + 4 * (k - 1)
    BY <1>a DEF CoeffAt, coeffs
  <2>3. Inside(CoeffAt(k), 4) <=> s + 1 + 4 * k <= Len(bytes)
    BY <1>a, <2>1, <2>2 DEF Inside
  <2>4. k \in 1..Body(f, 4)[1]
    BY DEF N
  <2>5. /\ k \in DOMAIN C
        /\ C[k] = [matrix |-> Body(f, 4)[4 * k - 2], constraint |-> Body(f, 4)[4 * k - 1],
                   signal |-> Body(f, 4)[4 * k], value |-> Body(f, 4)[4 * k + 1]]
    BY <2>4 DEF Coefficients
  <2> QED
    BY <2>3, <2>5
<1>5. ASSUME NEW k \in 1..N, Inside(CoeffAt(k), 4)
      PROVE  Coeff(k) = C[k]
  <2>1. s + 1 + 4 * k <= Len(bytes) /\ k \in Nat /\ k >= 1 /\ k <= N
    <3>1. s + 1 + 4 * k <= Len(bytes)
      BY <1>4, <1>5
    <3> QED
      BY <1>a, <3>1
  <2>2. ASSUME NEW p \in {4 * k - 2, 4 * k - 1, 4 * k, 4 * k + 1}
        PROVE  Cell(s + (p - 1)) = Body(f, 4)[p]
    <3>1. p \in 1..n /\ s + p <= Len(bytes)
      BY <1>a, <2>1
    <3> QED
      BY <1>1, <3>1, CellOfBody DEF s, n
  <2>3. /\ CoeffAt(k) = s + ((4 * k - 2) - 1) /\ CoeffAt(k) + 1 = s + ((4 * k - 1) - 1)
        /\ CoeffAt(k) + 2 = s + (4 * k - 1) /\ CoeffAt(k) + 3 = s + ((4 * k + 1) - 1)
    BY <1>a, <2>1 DEF CoeffAt, coeffs
  <2> QED
    BY <1>4, <2>2, <2>3 DEF Coeff
<1>6. Present \subseteq 1..N /\ \A k \in Present : Coeff(k) = C[k] /\ k \in DOMAIN C
  BY <1>3, <1>4, <1>5 DEF Present
<1>7. CoeffsMatch
  <2>1. domain_size = Len(Body(f, 9)) /\ domain_size \in Nat
    BY HeaderOfKey
  <2>2. f.of.points[9] = Body(f, 9)
    BY <1>1
  <2>3. ASSUME NEW k \in Present PROVE Coeff(k).matrix < 2 /\ Coeff(k).constraint < domain_size
    <3>1. k \in 1..N /\ Coeff(k) = C[k] /\ k \in DOMAIN C
      BY <1>6
    <3>2. C[k].constraint \in Nat
      <4>1. 4 * k - 1 \in 1..n
        BY <1>a, <3>1
      <4>2. Body(f, 4)[4 * k - 1] \in Nat
        BY <1>1, <4>1, BodyCells DEF n
      <4> QED
        <5>1. C[k].constraint = Body(f, 4)[4 * k - 1]
          BY <3>1 DEF Coefficients
        <5> QED
          BY <4>2, <5>1
    <3>3. C[k].matrix \in {0, 1} /\ C[k].constraint < Len(Body(f, 9))
      <4> DEFINE rows == f.of.num_constraints + (f.of.num_instance_variables - 1)
      <4>1. /\ C[k].matrix \in {0, 1} /\ C[k].constraint <= rows
            /\ rows < Len(Body(f, 9)) /\ Len(Body(f, 9)) \in Nat
        BY <1>1, <2>1, <2>2, <3>1
      <4>2. rows \in Nat
        <5> DEFINE u == f.of.num_constraints
                   v == f.of.num_instance_variables
        <5>1. u \in Nat /\ v \in Nat \ {0}
          BY <1>1
        <5> HIDE DEF u, v
        <5>2. u + (v - 1) \in Nat
          BY <5>1
        <5> QED
          BY <5>2 DEF u, v
      <4> HIDE DEF rows, C
      <4> QED
        BY <3>2, <4>1, <4>2
    <3> QED
      BY <2>1, <3>1, <3>3
  <2> QED
    BY <2>3 DEF CoeffsMatch
<1>8. bytes = f.bytes => Present = 1..num_coeffs
  <2> SUFFICES ASSUME bytes = f.bytes, NEW k \in 1..N PROVE k \in Present
    BY <1>3, <1>6
  <2>1. s + 1 + 4 * k <= Len(bytes)
    <3>1. k \in Nat /\ k <= N /\ s + (4 * N + 1) <= Len(bytes)
      BY <1>a
    <3> QED
      BY <1>a, <3>1
  <2> QED
    BY <1>3, <1>4, <2>1 DEF Present
<1>9. /\ Cardinality(Present) \in Nat /\ Cardinality(Present) <= num_coeffs
      /\ Cardinality(Present) = num_coeffs <=> Present = 1..num_coeffs
  <2>1. IsFiniteSet(1..N) /\ Cardinality(1..N) = N
    <3>1. N \in Nat /\ 1 \in Int /\ N \in Int
      BY <1>a
    <3>2. IsFiniteSet(1..N) /\ Cardinality(1..N) = IF 1 > N THEN 0 ELSE N - 1 + 1
      BY <3>1, FS_Interval
    <3> QED
      BY <3>1, <3>2
  <2>2. Present \in SUBSET (1..N)
    BY <1>6
  <2>3. IsFiniteSet(Present) /\ Cardinality(Present) <= N /\ (Cardinality(Present) = N => Present = 1..N)
    BY <2>1, <2>2, FS_Subset
  <2>4. Cardinality(Present) \in Nat
    BY <2>3, FS_CardinalityType
  <2> QED
    BY <1>3, <2>1, <2>3, <2>4
<1> QED
  BY <1>3, <1>6, <1>7, <1>8, <1>9 DEF N

\* From all coefficients the reader makes the constraints that were written.
LEMMA ConstraintsOfKey ==
    ASSUME TypeOK, NEW f, LaidOut(f), IsKey(f), IsPrefix(bytes, f.bytes), Kept(f, Len(f.parts)),
           Inside(PartOf(f, 2).start, Size(2)), Inside(PartOf(f, 4).start, Size(4)),
           Present = 1..num_coeffs
    PROVE  /\ num_constraints = f.of.num_constraints
           /\ ~Overflows(num_constraints) /\ Wrap(num_constraints) = num_constraints
           /\ Matrix(0) = f.of.a /\ Matrix(1) = f.of.b
<1> DEFINE C == Coefficients(Body(f, 4))
           nc == f.of.num_constraints
           public == f.of.num_instance_variables - 1
           rows == nc + public
           N == Body(f, 4)[1]
<1>1. /\ \A k \in DOMAIN C : C[k].constraint <= rows
      /\ \E k \in DOMAIN C : C[k].constraint = rows
      /\ rows < Len(f.of.points[9])
      /\ nc \in Nat
      /\ f.of.a = [c \in 1..nc |-> Row(C, 0, c - 1)]
      /\ f.of.b = [c \in 1..nc |-> Row(C, 1, c - 1)]
  BY DEF IsKey
<1>2. f.of.points[9] = Body(f, 9)
  BY DEF IsKey
<1>3. /\ n_public = public /\ public \in Nat
      /\ domain_size = Len(Body(f, 9)) /\ domain_size \in Nat /\ domain_size < WordSize
  BY HeaderOfKey
<1>4. num_coeffs = N /\ \A k \in Present : Coeff(k) = C[k]
  BY CoefficientsOfKey
<1>5. DOMAIN C = Present /\ Present = 1..N
  BY <1>4 DEF Coefficients
<1>6. [i \in 1..num_coeffs |-> Coeff(i)] = C
  <2>1. C = [k \in 1..N |-> C[k]]
    BY DEF Coefficients
  <2>2. [i \in 1..N |-> Coeff(i)] = [k \in 1..N |-> C[k]]
    BY <1>4, <1>5
  <2> QED
    BY <1>4, <2>1, <2>2
<1> HIDE DEF C, nc, public, N
<1>7. rows \in Nat /\ rows < domain_size /\ nc <= rows
  BY <1>1, <1>2, <1>3
<1> DEFINE S == {Coeff(i).constraint : i \in Present} \cup {0}
<1>8. S = {C[k].constraint : k \in DOMAIN C} \cup {0}
  BY <1>4, <1>5
<1>9. rows \in S /\ \A x \in S : x <= rows
  <2>1. rows \in {C[k].constraint : k \in DOMAIN C}
    BY <1>1
  <2>2. ASSUME NEW x \in {C[k].constraint : k \in DOMAIN C} PROVE x <= rows
    BY <1>1
  <2>3. 0 <= rows
    BY <1>7
  <2> QED
    BY <1>8, <2>1, <2>2, <2>3
<1>10. Max(S) = rows
  <2>1. \A x \in S : rows >= x
    BY <1>7, <1>8, <1>9
  <2> HIDE DEF S, rows
  <2>2. PICK m \in S : m = Max(S) /\ \A y \in S : m >= y
    BY <1>9, <2>1 DEF Max
  <2> QED
    BY <1>7, <1>9, <2>2
<1>11. num_constraints = nc
  <2>1. num_constraints = Max(S) - n_public
    BY DEF num_constraints
  <2> QED
    BY <1>1, <1>3, <1>10, <2>1
<1>12. nc < domain_size /\ nc < WordSize /\ nc \in Nat
  BY <1>1, <1>3, <1>7, WordAssumption
<1>13. ~Overflows(num_constraints) /\ Wrap(num_constraints) = nc
  BY <1>11, <1>12, NotWrapped, WordAssumption DEF Overflows
<1>14. Min({nc, domain_size}) = nc
  BY <1>3, <1>12 DEF Min
<1>15. ASSUME NEW m PROVE Matrix(m) = [c \in 1..nc |-> Row(C, m, c - 1)]
  BY <1>6, <1>13, <1>14 DEF Matrix
<1> QED
  BY <1>1, <1>11, <1>13, <1>15 DEF nc, C

-----------------------------------------------------------------------------
(* Every step is read as written.                                          *)

LEMMA InitWrittenInv == Init => WrittenInv
BY DEF Init, WrittenInv, ReadAsWritten

LEMMA EndsAsWritten ==
    ASSUME NEW f, Ends("err"), bytes # f.bytes
    PROVE  ReadAsWritten(f)'
BY DEF ReadAsWritten, Ends, call

LEMMA ReturnsAsWritten ==
    ASSUME NEW f, Returns(f.of)
    PROVE  ReadAsWritten(f)'
BY DEF ReadAsWritten, Returns, call

\* The end of the section at hand, as the witness readers compute it.
LEMMA EndAtHeader ==
    ASSUME TypeOK, NEW f, LaidOut(f), IsPrefix(bytes, f.bytes), ReadAsWritten(f),
           pc = "walk", left > 0, NEW n, n = Len(f.parts) - left, Inside(off, 2)
    PROVE  /\ body + slen = EndOf(f, n + 1) /\ EndOf(f, n + 1) \in Nat
           /\ body \in Nat /\ slen \in Nat
           /\ ~Overflows(body + slen)
           /\ Wrap(body + slen) = EndOf(f, n + 1)
           /\ Fits <=> EndOf(f, n + 1) <= Len(bytes)
           /\ Seek = EndOf(f, n + 1)
<1>1. /\ n \in Nat /\ n + 1 \in DOMAIN f.parts /\ n + 1 \in 1..Len(f.parts)
      /\ slen = f.parts[n + 1].len /\ body = f.parts[n + 1].start
      /\ EndOf(f, n + 1) <= Len(f.bytes)
  BY AtHeader
<1>2. body \in Nat /\ slen \in Nat /\ body + slen = EndOf(f, n + 1)
  BY <1>1, PartAt
<1>3. /\ Len(f.bytes) \in Nat /\ WordSize \in Nat /\ WordSize \div 2 \in Nat
      /\ Len(f.bytes) < WordSize \div 2 /\ Len(f.bytes) < WordSize
  BY FileIsShort
<1>4. /\ EndOf(f, n + 1) \in Nat /\ EndOf(f, n + 1) < WordSize /\ slen < WordSize \div 2
      /\ EndOf(f, n + 1) \in 0..(WordSize - 1)
  <2> DEFINE end == EndOf(f, n + 1)
  <2>1. end = body + slen /\ end <= Len(f.bytes)
    BY <1>1, <1>2
  <2> HIDE DEF end
  <2>2. end \in Nat /\ slen <= end
    BY <1>2, <2>1
  <2>3. end < WordSize /\ slen < WordSize \div 2 /\ end \in 0..(WordSize - 1)
    BY <1>2, <1>3, <2>1, <2>2
  <2> QED
    BY <2>2, <2>3 DEF end
<1>5. ~Overflows(body + slen) /\ Wrap(body + slen) = EndOf(f, n + 1)
  BY <1>2, <1>4, NotWrapped DEF Overflows
<1>6. Fits <=> EndOf(f, n + 1) <= Len(bytes)
  BY <1>4, <1>5 DEF Fits, Inside
<1>7. Seek = EndOf(f, n + 1)
  BY <1>2, <1>4 DEF Seek
<1> QED
  BY <1>2, <1>4, <1>5, <1>6, <1>7

\* A witness's header is not empty.
LEMMA HeaderOfWitness ==
    ASSUME TypeOK, NEW f, LaidOut(f), IsWitness(f), IsPrefix(bytes, f.bytes), ReadAsWritten(f),
           pc = "walk", left > 0, Inside(off, 2), id = 1
    PROVE  slen >= 1
<1> DEFINE n == Len(f.parts) - left
<1>1. n + 1 \in DOMAIN f.parts /\ f.parts[n + 1].id = 1 /\ slen = f.parts[n + 1].len
  BY AtHeader
<1>2. 1 \in Ids(f) /\ Len(Body(f, 1)) > 0
  BY DEF IsWitness
<1>3. PICK k \in DOMAIN f.parts : f.parts[k].id = 1 /\ PartOf(f, 1) = f.parts[k]
  BY <1>2, PartOfId
<1>4. k = n + 1
  BY <1>1, <1>3 DEF LaidOut
<1> QED
  BY <1>1, <1>2, <1>3, <1>4, BodyCells

LEMMA OpenAsWritten ==
    ASSUME TypeOK, NEW f \in Written, IsPrefix(bytes, f.bytes), ReadAsWritten(f),
           OpenFails \/ Open
    PROVE  ReadAsWritten(f)'
<1>1. LaidOut(f) /\ (reader # "read_zkey" => IsWitness(f))
  BY WrittenIsLaidOut
<1>2. /\ Len(bytes) \in Nat /\ Len(f.bytes) \in Nat /\ Len(f.bytes) >= 2
      /\ \A p \in 1..Len(bytes) : bytes[p] = f.bytes[p]
  BY <1>1, PrefixCells, FileIsShort DEF TypeOK, LaidOut
<1>3. Inside(0, 2) => Cell(0) = f.bytes[1] /\ Cell(1) = f.bytes[2] /\ Len(bytes) >= 2
  <2> SUFFICES ASSUME Inside(0, 2) PROVE Cell(0) = f.bytes[1] /\ Cell(1) = f.bytes[2] /\ Len(bytes) >= 2
    OBVIOUS
  <2>1. 1 \in 1..Len(bytes) /\ 2 \in 1..Len(bytes) /\ 0 + 1 = 1 /\ 1 + 1 = 2
    BY <1>2 DEF Inside
  <2> QED
    BY <1>2, <2>1 DEF Cell
<1>4. CASE OpenFails
  <2>1. ~Inside(0, 2)
    BY <1>1, <1>3, <1>4 DEF OpenFails, WitnessReaders, IsWitness
  <2>2. bytes # f.bytes
    BY <1>2, <2>1 DEF Inside
  <2> QED
    BY <1>4, <2>2, EndsAsWritten DEF OpenFails
<1>5. CASE Open
  <2>1. /\ Inside(0, 2) /\ pc = "open" /\ pc' = "walk" /\ left' = Cell(1) /\ off' = 2
        /\ UNCHANGED <<call, sections, reading, value>>
    BY <1>5 DEF Open
  <2>2. left' = Len(f.parts) /\ Len(f.parts) \in Nat /\ sections' = <<>> /\ reading' = 1
    BY <1>1, <1>3, <2>1 DEF LaidOut, ReadAsWritten
  <2>3. Len(f.parts) - left' = 0 /\ 0 \in 0..Len(f.parts) /\ off' = EndOf(f, 0)
    BY <2>1, <2>2 DEF EndOf
  <2>4. 1..0 = {} /\ DOMAIN sections' = {}
    BY <2>2
  <2>5. Kept(f, 0)'
    BY <2>4 DEF Kept
  <2> QED
    BY <1>3, <2>1, <2>2, <2>3, <2>4, <2>5 DEF ReadAsWritten, call
<1> QED
  BY <1>4, <1>5

LEMMA WalkAsWritten ==
    ASSUME TypeOK, NEW f \in Written, IsPrefix(bytes, f.bytes), ReadAsWritten(f),
           WalkWitness \/ WalkKey
    PROVE  ReadAsWritten(f)'
<1>0. PICK n : n = Len(f.parts) - left
  OBVIOUS
<1>1. LaidOut(f)
  BY WrittenIsLaidOut
<1>2. pc = "walk" /\ left > 0 /\ Inside(off, 2)
  BY DEF WalkWitness, WalkKey, AtSection
<1>3. /\ n \in Nat /\ n + 1 \in 1..Len(f.parts) /\ n + 1 \in DOMAIN f.parts
      /\ left \in Nat /\ Len(f.parts) \in Nat
  <2>1. n \in Nat /\ n + 1 \in 1..Len(f.parts) /\ n + 1 \in DOMAIN f.parts
    BY <1>0, <1>1, <1>2, AtHeader
  <2>2. left \in Nat /\ Len(f.parts) \in Nat
    BY <1>1 DEF TypeOK, LaidOut
  <2> QED
    BY <2>1, <2>2
<1>4. Len(f.parts) - (left - 1) = n + 1 /\ n + 1 \in 0..Len(f.parts)
  BY <1>0, <1>3
<1>5. Len(bytes) >= 2 /\ reading = 1
      /\ (reader \in WitnessReaders => \A k \in 1..n : EndOf(f, k) <= Len(bytes))
  BY <1>0, <1>2 DEF ReadAsWritten
<1>6. /\ Wrap(body + slen) = EndOf(f, n + 1) /\ Seek = EndOf(f, n + 1)
      /\ Fits <=> EndOf(f, n + 1) <= Len(bytes)
  BY <1>0, <1>1, <1>2, EndAtHeader
<1>7. /\ off' = EndOf(f, n + 1) /\ left' = left - 1
      /\ UNCHANGED <<reader, bytes, pc, reading, value>>
  BY <1>6 DEF WalkWitness, WalkKey, Walk, call
<1>8. Kept(f, n + 1)'
  <2>1. CASE WalkWitness
    <3>1. sections' = With(Section)
      BY <2>1 DEF WalkWitness, Walk
    <3> QED
      BY <1>0, <1>1, <1>2, <3>1, KeptNext
  <2>2. CASE WalkKey
    <3>1. sections' = IF id \in DOMAIN sections THEN sections ELSE With(Section)
      BY <2>2 DEF WalkKey, Walk
    <3>2. id \notin DOMAIN sections
      <4>1. /\ id = f.parts[n + 1].id /\ Kept(f, n)
        BY <1>0, <1>1, <1>2, AtHeader DEF ReadAsWritten
      <4>2. \A k \in 1..n : k \in DOMAIN f.parts /\ k # n + 1
        BY <1>1, <1>3 DEF LaidOut
      <4> QED
        BY <1>1, <1>3, <4>1, <4>2 DEF Kept, LaidOut
    <3> QED
      BY <1>0, <1>1, <1>2, <3>1, <3>2, KeptNext
  <2> QED
    BY <2>1, <2>2
<1>9. reader \in WitnessReaders => \A k \in 1..(n + 1) : EndOf(f, k) <= Len(bytes)
  <2> SUFFICES ASSUME reader \in WitnessReaders, NEW k \in 1..(n + 1) PROVE EndOf(f, k) <= Len(bytes)
    OBVIOUS
  <2>1. k \in 1..n \/ k = n + 1
    BY <1>3
  <2>2. Fits
    BY DEF WalkWitness, WalkKey, AtSection, WitnessReaders
  <2> QED
    BY <1>5, <1>6, <2>1, <2>2
<1>10. Len(f.parts) - left' = n + 1
  BY <1>4, <1>7
<1> QED
  BY <1>2, <1>4, <1>5, <1>7, <1>8, <1>9, <1>10 DEF ReadAsWritten

\* On a prefix a walk fails only where the rest is missing.
LEMMA WalkFailsAsWritten ==
    ASSUME TypeOK, NEW f \in Written, IsPrefix(bytes, f.bytes), ReadAsWritten(f),
           \/ TruncatedHeader \/ SectionOverflows \/ SectionRejected \/ HeaderOutside \/ SeekFails
    PROVE  ReadAsWritten(f)'
<1>0. PICK n : n = Len(f.parts) - left
  OBVIOUS
<1>1. LaidOut(f) /\ (reader # "read_zkey" => IsWitness(f))
  BY WrittenIsLaidOut
<1>2. pc = "walk" /\ left > 0
  BY DEF TruncatedHeader, SectionOverflows, SectionRejected, HeaderOutside, SeekFails, AtSection
<1>3. /\ n \in Nat /\ off \in Nat /\ EndOf(f, n + 1) = off + 2 + f.parts[n + 1].len
      /\ EndOf(f, n + 1) <= Len(f.bytes) /\ f.parts[n + 1].len \in Nat
      /\ Len(bytes) \in Nat /\ Len(f.bytes) \in Nat
  <2>1. /\ n \in Nat /\ n + 1 \in DOMAIN f.parts /\ off \in Nat
        /\ EndOf(f, n + 1) = off + 2 + f.parts[n + 1].len
        /\ EndOf(f, n + 1) <= Len(f.bytes)
    BY <1>0, <1>1, <1>2, AtHeader
  <2>2. f.parts[n + 1].len \in Nat
    BY <1>1, <2>1, PartAt
  <2>3. Len(bytes) \in Nat /\ Len(f.bytes) \in Nat
    BY <1>1, FileIsShort, SequenceIs DEF TypeOK
  <2> QED
    BY <2>1, <2>2, <2>3
<1>4. Inside(off, 2) => /\ ~Overflows(body + slen) /\ Seek = EndOf(f, n + 1)
                        /\ body + slen = EndOf(f, n + 1) /\ body \in Nat /\ slen \in Nat
                        /\ Fits <=> EndOf(f, n + 1) <= Len(bytes)
  BY <1>0, <1>1, <1>2, EndAtHeader
<1>5. Inside(off, 2) /\ id = 1 /\ reader # "read_zkey" => slen >= 1
  BY <1>1, <1>2, HeaderOfWitness
<1>6. CASE TruncatedHeader
  <2>1. ~Inside(off, 2)
    BY <1>6 DEF TruncatedHeader
  <2>2. bytes # f.bytes
    BY <1>3, <2>1 DEF Inside
  <2> QED
    BY <1>6, <2>2, EndsAsWritten DEF TruncatedHeader
<1>7. CASE SectionRejected
  <2>1. Inside(off, 2) /\ reader # "read_zkey" /\ (~Fits \/ (id = 1 /\ ~HasHeader))
    BY <1>7 DEF SectionRejected, AtSection, WitnessReaders
  <2>2. ~Fits
    BY <1>5, <2>1 DEF HasHeader
  <2>3. bytes # f.bytes
    BY <1>3, <1>4, <2>1, <2>2
  <2> QED
    BY <1>7, <2>3, EndsAsWritten DEF SectionRejected
<1>8. ~SectionOverflows
  BY <1>4 DEF SectionOverflows, AtSection
<1>9. ~HeaderOutside
  <2> SUFFICES ASSUME HeaderOutside PROVE FALSE
    OBVIOUS
  <2>1. /\ Inside(off, 2) /\ reader # "read_zkey" /\ Fits /\ id = 1 /\ ~Inside(body, 1)
    BY DEF HeaderOutside, AtSection, WitnessReaders
  <2>2. body + slen <= Len(bytes) /\ slen >= 1 /\ body \in Nat /\ slen \in Nat
    BY <1>4, <1>5, <2>1
  <2> QED
    BY <1>3, <2>1, <2>2 DEF Inside
<1>10. ~SeekFails
  BY <1>3, <1>4 DEF SeekFails, AtSection
<1> QED
  BY <1>6, <1>7, <1>8, <1>9, <1>10

LEMMA WitnessAsWritten ==
    ASSUME TypeOK, NEW f \in Written, IsPrefix(bytes, f.bytes), ReadAsWritten(f),
           WitnessMalformed \/ WitnessOutside \/ ReadWitness
    PROVE  ReadAsWritten(f)'
<1>1. Walked(WitnessReaders) /\ reader # "read_zkey"
  BY DEF WitnessMalformed, WitnessOutside, ReadWitness, Walked, WitnessReaders
<1>2. LaidOut(f) /\ IsWitness(f)
  BY <1>1, WrittenIsLaidOut
<1>3. /\ WellFormed /\ Inside(data.start, data.len)
      /\ [k \in 1..(data.len \div n8) |-> Element(Cells(data.start + (k - 1) * n8, n8))] = f.of
  BY <1>1, <1>2, WitnessWalked
<1>4. ReadWitness
  BY <1>3 DEF WitnessMalformed, WitnessOutside
<1>5. Returns(f.of)
  BY <1>3, <1>4 DEF ReadWitness
<1> QED
  BY <1>5, ReturnsAsWritten

LEMMA KeyWalkedAsWritten ==
    ASSUME TypeOK, NEW f \in Written, IsPrefix(bytes, f.bytes), ReadAsWritten(f),
           KeyWalked \/ MagicNotText
    PROVE  ReadAsWritten(f)'
<1>1. pc = "walk" /\ left = 0 /\ reader = "read_zkey"
  BY DEF KeyWalked, MagicNotText, Walked
<1>2. LaidOut(f) /\ IsKey(f)
  BY <1>1, WrittenIsLaidOut
<1>3. Len(f.parts) \in Nat /\ Len(f.parts) - 0 = Len(f.parts)
  BY <1>2 DEF LaidOut
<1>4. Len(bytes) >= 2 /\ reading = 1 /\ Kept(f, Len(f.parts))
  BY <1>1, <1>3 DEF ReadAsWritten
<1>5. Cell(0) = f.bytes[1]
  <2>1. 1 \in 1..Len(bytes) /\ 0 + 1 = 1
    BY <1>4, SequenceIs DEF TypeOK
  <2> QED
    BY <1>2, <2>1, PrefixCells DEF Cell, LaidOut, TypeOK
<1>6. Cell(0) \in Text
  BY <1>2, <1>5 DEF IsKey
<1>7. KeyWalked
  BY <1>6 DEF MagicNotText
<1>8. pc' = "read" /\ UNCHANGED <<reader, bytes, sections, reading>>
  BY <1>7 DEF KeyWalked, call
<1>9. Kept(f, Len(f.parts))'
  BY <1>4, <1>8 DEF Kept
<1>10. \A k \in DOMAIN KeySections : ~(k < reading')
  BY <1>4, <1>8 DEF KeySections
<1> QED
  BY <1>1, <1>8, <1>9, <1>10 DEF ReadAsWritten

\* What the steps that read a key's sections find.
LEMMA ReadingKey ==
    ASSUME TypeOK, NEW f \in Written, IsPrefix(bytes, f.bytes), ReadAsWritten(f), pc = "read"
    PROVE  /\ reader = "read_zkey" /\ LaidOut(f) /\ IsKey(f) /\ Kept(f, Len(f.parts))
           /\ current \in 2..9 /\ current \in Ids(f)
           /\ current \in DOMAIN sections /\ sections[current].start = PartOf(f, current).start
           /\ current # 2 => Inside(PartOf(f, 2).start, Size(2))
<1>1. reader = "read_zkey" /\ Kept(f, Len(f.parts))
  BY DEF ReadAsWritten
<1>2. LaidOut(f) /\ IsKey(f)
  BY <1>1, WrittenIsLaidOut
<1>3. reading \in 1..8 /\ current \in 2..9 /\ (current # 2 => 1 < reading)
  <2>1. DOMAIN KeySections = 1..8
    BY DEF KeySections
  <2>2. /\ KeySections[1] = 2 /\ KeySections[2] = 3 /\ KeySections[3] = 5 /\ KeySections[4] = 6
        /\ KeySections[5] = 7 /\ KeySections[6] = 8 /\ KeySections[7] = 9 /\ KeySections[8] = 4
    BY DEF KeySections
  <2>3. /\ reading \in 1..8
        /\ \/ reading = 1 \/ reading = 2 \/ reading = 3 \/ reading = 4
           \/ reading = 5 \/ reading = 6 \/ reading = 7 \/ reading = 8
    BY <2>1 DEF TypeOK
  <2> QED
    BY <2>2, <2>3 DEF current
<1>4. 2..9 \subseteq Ids(f)
  BY <1>2 DEF IsKey
<1>5. current \in Ids(f)
  BY <1>3, <1>4
<1>6. current \in DOMAIN sections /\ sections[current].start = PartOf(f, current).start
  BY <1>1, <1>2, <1>5, KeptSection
<1>7. current # 2 => Inside(PartOf(f, 2).start, Size(2))
  <2>1. 1 \in DOMAIN KeySections /\ KeySections[1] = 2
    BY DEF KeySections
  <2> QED
    BY <1>3, <2>1 DEF ReadAsWritten
<1> QED
  BY <1>1, <1>2, <1>3, <1>5, <1>6, <1>7

LEMMA KeySectionAsWritten ==
    ASSUME TypeOK, NEW f \in Written, IsPrefix(bytes, f.bytes), ReadAsWritten(f),
           SectionMissing \/ SectionTruncated \/ ReadSection
    PROVE  ReadAsWritten(f)'
<1>1. pc = "read"
  BY DEF SectionMissing, SectionTruncated, ReadSection, AtKeySection
<1>2. /\ reader = "read_zkey" /\ LaidOut(f) /\ IsKey(f) /\ Kept(f, Len(f.parts))
      /\ current \in 2..9 /\ current \in DOMAIN sections
      /\ sections[current].start = PartOf(f, current).start
      /\ current # 2 => Inside(PartOf(f, 2).start, Size(2))
  BY <1>1, ReadingKey
<1>3. ~SectionMissing
  BY <1>2, SizesOfKey DEF SectionMissing
<1>4. CASE SectionTruncated
  <2>1. ~Inside(PartOf(f, current).start, Size(current))
    BY <1>2, <1>4 DEF SectionTruncated
  <2>2. bytes # f.bytes
    BY <1>2, <2>1, WholeKeyRead
  <2> QED
    BY <1>4, <2>2, EndsAsWritten DEF SectionTruncated
<1>5. CASE ReadSection
  <2>1. /\ Inside(PartOf(f, current).start, Size(current))
        /\ UNCHANGED <<reader, bytes, sections>>
        /\ \/ reading' = reading + 1 /\ pc' = "read"
           \/ reading = Len(KeySections) /\ pc' = "coeffs" /\ reading' = reading
    BY <1>1, <1>2, <1>5 DEF ReadSection, call
  <2>2. Kept(f, Len(f.parts))'
    BY <1>2, <2>1 DEF Kept
  <2>3. \A i : Size(i)' = Size(i)
    BY <2>1 DEF Size, AsCount, n_vars, n_public, domain_size, n_private, Cell
  <2>4. reading \in Nat /\ DOMAIN KeySections = 1..8 /\ Len(KeySections) = 8
    BY DEF TypeOK, KeySections
  <2>5. ASSUME NEW k \in DOMAIN KeySections, k < reading' \/ pc' = "coeffs"
        PROVE  Inside(PartOf(f, KeySections[k]).start, Size(KeySections[k]))'
    <3>1. k < reading \/ k = reading
      BY <2>1, <2>4, <2>5
    <3>2. Inside(PartOf(f, KeySections[k]).start, Size(KeySections[k]))
      BY <1>1, <2>1, <3>1 DEF ReadAsWritten, current
    <3> QED
      BY <2>1, <2>3, <3>2 DEF Inside
  <2>6. pc' \in {"read", "coeffs"} /\ reader' = "read_zkey"
    BY <1>2, <2>1
  <2> QED
    BY <2>2, <2>5, <2>6 DEF ReadAsWritten
<1> QED
  BY <1>3, <1>4, <1>5

LEMMA CoefficientsAsWritten ==
    ASSUME TypeOK, NEW f \in Written, IsPrefix(bytes, f.bytes), ReadAsWritten(f),
           CoeffsPanic \/ CoeffsTruncated \/ ReadCoeffs
    PROVE  ReadAsWritten(f)'
<1>1. pc = "coeffs"
  BY DEF CoeffsPanic, CoeffsTruncated, ReadCoeffs
<1>2. reader = "read_zkey" /\ Kept(f, Len(f.parts))
  BY <1>1 DEF ReadAsWritten
<1>3. LaidOut(f) /\ IsKey(f)
  BY <1>2, WrittenIsLaidOut
<1>4. \A i \in 2..9 : Inside(PartOf(f, i).start, Size(i))
  <2>1. \A k \in DOMAIN KeySections : Inside(PartOf(f, KeySections[k]).start, Size(KeySections[k]))
    BY <1>1 DEF ReadAsWritten
  <2>2. \A i \in 2..9 : \E k \in DOMAIN KeySections : KeySections[k] = i
    BY DEF KeySections
  <2> QED
    BY <2>1, <2>2
<1>5. Inside(PartOf(f, 2).start, Size(2)) /\ Inside(PartOf(f, 4).start, Size(4))
  BY <1>4
<1>6. /\ CoeffsMatch
      /\ bytes = f.bytes => Present = 1..num_coeffs
      /\ Cardinality(Present) \in Nat /\ num_coeffs \in Nat
      /\ Cardinality(Present) = num_coeffs <=> Present = 1..num_coeffs
  BY <1>2, <1>3, <1>5, CoefficientsOfKey
<1>7. Present = 1..num_coeffs => /\ num_constraints = f.of.num_constraints
                                 /\ ~Overflows(num_constraints)
                                 /\ Wrap(num_constraints) = num_constraints
                                 /\ Matrix(0) = f.of.a /\ Matrix(1) = f.of.b
  BY <1>2, <1>3, <1>5, ConstraintsOfKey
<1>8. ~CoeffsPanic
  BY <1>6, <1>7 DEF CoeffsPanic
<1>9. CASE CoeffsTruncated
  <2>1. Cardinality(Present) < num_coeffs
    BY <1>9 DEF CoeffsTruncated
  <2>2. bytes # f.bytes
    BY <1>6, <2>1
  <2> QED
    BY <1>9, <2>2, EndsAsWritten DEF CoeffsTruncated
<1>10. CASE ReadCoeffs
  <2>1. Present = 1..num_coeffs
    BY <1>6, <1>10 DEF ReadCoeffs
  <2>2. /\ n_public = f.of.num_instance_variables - 1 /\ n_public \in Nat
        /\ n_vars = f.of.num_witness_variables + n_public /\ n_vars \in Nat
        /\ f.of.num_witness_variables \in Nat \ {0}
        /\ Cell(sections[2].start + 3) = f.of.vk
        /\ n_vars < WordSize
    BY <1>2, <1>3, <1>5, HeaderOfKey
  <2>3. f.of.num_instance_variables \in Nat
    BY <1>3 DEF IsKey
  <2>4. n_public + 1 = f.of.num_instance_variables
    BY <2>2, <2>3
  <2>5. n_vars - n_public = f.of.num_witness_variables /\ f.of.num_witness_variables < WordSize
    BY <2>2, WordAssumption
  <2>6. Wrap(n_vars - n_public) = f.of.num_witness_variables
    BY <2>2, <2>5, NotWrapped
  <2>7. [i \in {3, 5, 6, 7, 8, 9} |-> Cells(sections[i].start, Size(i))] = f.of.points
    <3>1. f.of.points = [i \in {3, 5, 6, 7, 8, 9} |-> Body(f, i)]
      BY <1>3 DEF IsKey
    <3>2. ASSUME NEW i \in {3, 5, 6, 7, 8, 9} PROVE Cells(sections[i].start, Size(i)) = Body(f, i)
      <4>1. i \in 2..9 /\ 2..9 \subseteq Ids(f)
        BY <1>3 DEF IsKey
      <4>2. i \in Ids(f)
        BY <4>1
      <4>3. Size(i) = Len(Body(f, i)) /\ Len(Body(f, i)) = PartOf(f, i).len
        BY <1>2, <1>3, <1>5, <4>2, SizesOfKey, BodyCells
      <4>4. sections[i].start = PartOf(f, i).start
        BY <1>2, <1>3, <4>2, KeptSection
      <4>5. PartOf(f, i).start + PartOf(f, i).len <= Len(bytes)
        BY <1>4, <4>1, <4>3 DEF Inside
      <4> QED
        BY <1>3, <4>2, <4>3, <4>4, <4>5, WholeBody
    <3> QED
      BY <3>1, <3>2
  <2>8. f.of = [vk |-> f.of.vk, points |-> f.of.points,
                num_instance_variables |-> f.of.num_instance_variables,
                num_witness_variables |-> f.of.num_witness_variables,
                num_constraints |-> f.of.num_constraints, a |-> f.of.a, b |-> f.of.b]
    BY <1>3 DEF IsKey
  <2>9. Returns([vk |-> f.of.vk, points |-> f.of.points,
                 num_instance_variables |-> f.of.num_instance_variables,
                 num_witness_variables |-> f.of.num_witness_variables,
                 num_constraints |-> f.of.num_constraints, a |-> f.of.a, b |-> f.of.b])
    BY <1>7, <1>10, <2>1, <2>2, <2>4, <2>6, <2>7 DEF ReadCoeffs
  <2>10. Returns(f.of)
    BY <2>8, <2>9
  <2> QED
    BY <2>10, ReturnsAsWritten
<1> QED
  BY <1>8, <1>9, <1>10

LEMMA NextWrittenInv == TypeOK /\ WrittenInv /\ [Next]_vars => WrittenInv'
<1> SUFFICES ASSUME TypeOK, WrittenInv, [Next]_vars, NEW f \in Written', IsPrefix(bytes, f.bytes)'
             PROVE  ReadAsWritten(f)'
  BY DEF WrittenInv
<1>1. UNCHANGED <<reader, bytes>>
  BY CallUnchanged DEF call
<1>2. f \in Written /\ IsPrefix(bytes, f.bytes)
  BY <1>1 DEF Written
<1>3. ReadAsWritten(f)
  BY <1>2 DEF WrittenInv
<1>4. CASE OpenFails \/ Open
  BY <1>2, <1>3, <1>4, OpenAsWritten
<1>5. CASE WalkWitness \/ WalkKey
  BY <1>2, <1>3, <1>5, WalkAsWritten
<1>6. CASE TruncatedHeader \/ SectionOverflows \/ SectionRejected \/ HeaderOutside \/ SeekFails
  BY <1>2, <1>3, <1>6, WalkFailsAsWritten
<1>7. CASE WitnessMalformed \/ WitnessOutside \/ ReadWitness
  BY <1>2, <1>3, <1>7, WitnessAsWritten
<1>8. CASE KeyWalked \/ MagicNotText
  BY <1>2, <1>3, <1>8, KeyWalkedAsWritten
<1>9. CASE SectionMissing \/ SectionTruncated \/ ReadSection
  BY <1>2, <1>3, <1>9, KeySectionAsWritten
<1>10. CASE CoeffsPanic \/ CoeffsTruncated \/ ReadCoeffs
  BY <1>2, <1>3, <1>10, CoefficientsAsWritten
<1>11. CASE UNCHANGED vars
  <2>1. UNCHANGED <<reader, bytes, pc, left, off, sections, reading, value>>
    BY <1>11 DEF vars
  <2>2. \A i : Size(i)' = Size(i)
    BY <2>1 DEF Size, AsCount, n_vars, n_public, domain_size, n_private, Cell
  <2>3. \A n : Kept(f, n)' <=> Kept(f, n)
    BY <2>1 DEF Kept
  <2> QED
    BY <1>3, <2>1, <2>2, <2>3 DEF ReadAsWritten, Inside
<1> QED
  BY <1>4, <1>5, <1>6, <1>7, <1>8, <1>9, <1>10, <1>11 DEF Next

LEMMA SpecWrittenInv == Spec => [](TypeOK /\ WrittenInv)
<1>1. Init => TypeOK /\ WrittenInv
  BY InitTypeOK, InitWrittenInv
<1>2. TypeOK /\ WrittenInv /\ [Next]_vars => (TypeOK /\ WrittenInv)'
  BY NextTypeOK, NextWrittenInv
<1> QED
  BY <1>1, <1>2, PTL DEF Spec

\* A file that was written in part is answered with an error or with exactly what
\* was written, wherever writing stopped.
THEOREM TornFilesAreNotMistaken == Spec => []TornFileNotMistaken
<1>1. WrittenInv => TornFileNotMistaken
  BY DEF WrittenInv, ReadAsWritten, TornFileNotMistaken, Ended
<1> QED
  BY <1>1, SpecWrittenInv, PTL

\* A file that was written as a whole is read back.
THEOREM WrittenFilesAreReadBack == Spec => []WrittenIsReadBack
<1>1. TypeOK /\ WrittenInv => WrittenIsReadBack
  <2> SUFFICES ASSUME TypeOK, WrittenInv, Ended, NEW f \in Written, bytes = f.bytes
               PROVE  pc = "ok" /\ value = f.of
    BY DEF WrittenIsReadBack
  <2>1. IsPrefix(bytes, f.bytes)
    BY DEF IsPrefix, TypeOK
  <2> QED
    BY <2>1 DEF WrittenInv, ReadAsWritten, Ended
<1> QED
  BY <1>1, SpecWrittenInv, PTL

=============================================================================
