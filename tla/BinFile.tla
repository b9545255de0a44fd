------------------------------- MODULE BinFile -------------------------------
(***************************************************************************)
(* Readers of snarkjs binary files: parse_wtns (witness.rs) and the         *)
(* benchmark's parse_wtns_decimal for witnesses, the vendored read_zkey     *)
(* (vendor/zkey.rs) for keys.  A file is a sequence of cells: a magic and   *)
(* the number of sections, then sections of an id, a length and a body of   *)
(* that many cells.  A number, a coordinate pair or a coefficient's value   *)
(* takes one cell where the code reads several bytes; an element of a       *)
(* witness takes as many as the file says.                                  *)
(***************************************************************************)
EXTENDS Integers, SequencesExt

CONSTANTS
    Files,         \* the files read
    Wtns,          \* the magic "wtns"
    Text,          \* the magics that are UTF-8
    WordSize,      \* machine words, of usize and of a length, are below it
    CountSize,     \* 32-bit words, to which a count of points is cast, are below it
    Base,          \* values of a cell that is a digit of an element
    FieldOrder,    \* order of the field of the witness
    WitnessFiles,  \* the files that circom-witnesscalc writes, and what they are of
    KeyFiles       \* those that snarkjs writes

ASSUME FilesAssumption == Files \subseteq Seq(Nat)
ASSUME WordAssumption == {WordSize, CountSize} \subseteq Nat \ {0}
ASSUME FieldAssumption == Base \in Nat /\ FieldOrder \in Nat \ {0}

Readers == {"parse_wtns", "parse_wtns_decimal", "read_zkey"}
WitnessReaders == Readers \ {"read_zkey"}

VARIABLES
    reader,            \* the function that was called
    overflow_checks,   \* the build panics on overflow; without them it wraps
    bytes,             \* the file
    pc,                \* what the call does next, or how it ended
    left,              \* sections not walked yet
    off,               \* position in the file
    sections,          \* per id met: the body's start and length
    reading,           \* key section in work, a position in KeySections
    value              \* what the call returned

vars == <<reader, overflow_checks, bytes, pc, left, off, sections, reading, value>>
call == <<reader, overflow_checks, bytes>>

Init ==
    /\ reader \in Readers
    /\ overflow_checks \in BOOLEAN
    /\ bytes \in Files
    /\ pc = "open"
    /\ left = 0
    /\ off = 0
    /\ sections = <<>>
    /\ reading = 1
    /\ value = <<>>

Cell(position) == bytes[position + 1]
Cells(start, n) == SubSeq(bytes, start + 1, start + n)
Inside(start, n) == start + n <= Len(bytes)

\* Addition and subtraction of machine words.
Wrap(n) == n % WordSize
Overflows(n) == overflow_checks /\ n \notin 0..(WordSize - 1)

Ends(outcome) ==
    /\ pc' = outcome
    /\ UNCHANGED <<call, left, off, sections, reading, value>>

Returns(v) ==
    /\ pc' = "ok"
    /\ value' = v
    /\ UNCHANGED <<call, left, off, sections, reading>>

-----------------------------------------------------------------------------
(* The walk over the sections.                                             *)

OpenFails ==
    /\ pc = "open"
    /\ Inside(0, 2) => reader \in WitnessReaders /\ Cell(0) # Wtns
    /\ Ends("err")

Open ==
    /\ pc = "open"
    /\ Inside(0, 2)
    /\ reader \in WitnessReaders => Cell(0) = Wtns
    /\ pc' = "walk"
    /\ left' = Cell(1)
    /\ off' = 2
    /\ UNCHANGED <<call, sections, reading, value>>

TruncatedHeader ==
    /\ pc = "walk" /\ left > 0
    /\ ~Inside(off, 2)
    /\ Ends("err")

AtSection(readers) == pc = "walk" /\ left > 0 /\ reader \in readers /\ Inside(off, 2)

id == Cell(off)
slen == Cell(off + 1)
body == off + 2

\* Mutant: the length is compared with the whole buffer.
Shorter == ~Overflows(body + slen) /\ slen <= Len(bytes)

\* The section ends within the file, as far as body + slen tells.
Fits == ~Overflows(body + slen) /\ Inside(Wrap(body + slen), 0)

HasHeader == reader = "parse_wtns" => slen >= 1

SectionOverflows ==
    /\ AtSection(WitnessReaders)
    /\ Overflows(body + slen)
    /\ Ends("panic")

SectionRejected ==
    /\ AtSection(WitnessReaders)
    /\ ~Overflows(body + slen)
    /\ ~Fits \/ (id = 1 /\ ~HasHeader)
    /\ Ends("err")

\* n8 is read from outside of the buffer.
HeaderOutside ==
    /\ AtSection(WitnessReaders)
    /\ Fits /\ id = 1 /\ HasHeader
    /\ ~Inside(body, 1)
    /\ Ends("panic")

Walk(end, kept) ==
    /\ sections' = kept
    /\ off' = end
    /\ left' = left - 1
    /\ UNCHANGED <<call, pc, reading, value>>

Section == [start |-> body, len |-> slen]
With(section) == [i \in DOMAIN sections \cup {id} |-> IF i = id THEN section ELSE sections[i]]

\* Of two sections with one id the witness readers keep the last.
WalkWitness ==
    /\ AtSection(WitnessReaders)
    /\ Fits
    /\ id = 1 => HasHeader /\ Inside(body, 1)
    /\ Walk(Wrap(body + slen), With(Section))

\* seek(SeekFrom::Current(len as i64)).
Seek == body + (IF slen < WordSize \div 2 THEN slen ELSE slen - WordSize)

SeekFails ==
    /\ AtSection({"read_zkey"})
    /\ Seek < 0
    /\ Ends("err")

\* Mutant: a position before the file goes unnoticed.
WalkKeyBack ==
    /\ AtSection({"read_zkey"})
    /\ Walk(Seek, IF id \in DOMAIN sections THEN sections ELSE With(Section))

\* The key reader keeps every section, and get_section returns the first.
WalkKey ==
    /\ AtSection({"read_zkey"})
    /\ Seek >= 0
    /\ Walk(Seek, IF id \in DOMAIN sections THEN sections ELSE With(Section))

-----------------------------------------------------------------------------
(* A witness, after the walk.                                              *)

n8 == Cell(sections[1].start)
data == sections[2]

WellFormed ==
    /\ {1, 2} \subseteq DOMAIN sections
    /\ n8 # 0
    /\ data.len % n8 = 0

LittleEndian(cells) == FoldRight(LAMBDA digit, high : digit + Base * high, cells, 0)

\* The benchmark does not reduce what it read.
Element(cells) ==
    IF reader = "parse_wtns" THEN LittleEndian(cells) % FieldOrder ELSE LittleEndian(cells)

Walked(readers) == pc = "walk" /\ left = 0 /\ reader \in readers

WitnessMalformed ==
    /\ Walked(WitnessReaders)
    /\ ~WellFormed
    /\ Ends("err")

WitnessOutside ==
    /\ Walked(WitnessReaders)
    /\ WellFormed
    /\ ~Inside(data.start, data.len)
    /\ Ends("panic")

ReadWitness ==
    /\ Walked(WitnessReaders)
    /\ WellFormed
    /\ Inside(data.start, data.len)
    /\ Returns([k \in 1..(data.len \div n8) |-> Element(Cells(data.start + (k - 1) * n8, n8))])

-----------------------------------------------------------------------------
(* A key, after the walk: the header, the points of the proving key, and    *)
(* the coefficients of the constraints.                                     *)

KeySections == <<2, 3, 5, 6, 7, 8, 9, 4>>
current == KeySections[reading]

n_vars == Cell(sections[2].start)
n_public == Cell(sections[2].start + 1)
domain_size == Cell(sections[2].start + 2)
n_private == n_vars - n_public - 1

\* The number of points that is asked for is cast to 32 bits.
AsCount(n) == n % CountSize

\* Cells that are read of a section; of the coefficients, their number.
Size(i) ==
    CASE i = 2 -> 4
      [] i = 3 -> AsCount(n_public + 1)
      [] i \in {5, 6, 7} -> AsCount(n_vars)
      [] i = 8 -> AsCount(Wrap(n_private))
      [] i = 9 -> AsCount(domain_size)
      [] i = 4 -> 1

KeyWalked ==
    /\ Walked({"read_zkey"})
    /\ Cell(0) \in Text
    /\ pc' = "read"
    /\ UNCHANGED <<call, left, off, sections, reading, value>>

MagicNotText ==
    /\ Walked({"read_zkey"})
    /\ Cell(0) \notin Text
    /\ Ends("panic")

SectionMissing ==
    /\ pc = "read"
    /\ current \notin DOMAIN sections \/ (current = 8 /\ Overflows(n_private))
    /\ Ends("panic")

AtKeySection ==
    /\ pc = "read"
    /\ current \in DOMAIN sections
    /\ current = 8 => ~Overflows(n_private)

SectionTruncated ==
    /\ AtKeySection
    /\ ~Inside(sections[current].start, Size(current))
    /\ Ends("err")

ReadSection ==
    /\ AtKeySection
    /\ Inside(sections[current].start, Size(current))
    /\ \/ reading < Len(KeySections) /\ reading' = reading + 1 /\ UNCHANGED pc
       \/ reading = Len(KeySections) /\ pc' = "coeffs" /\ UNCHANGED reading
    /\ UNCHANGED <<call, left, off, sections, value>>

coeffs == sections[4].start
num_coeffs == Cell(coeffs)
CoeffAt(i) == coeffs + 1 + 4 * (i - 1)
Present == {i \in 1..num_coeffs : Inside(CoeffAt(i), 4)}

Coeff(i) ==
    [matrix |-> Cell(CoeffAt(i)), constraint |-> Cell(CoeffAt(i) + 1),
     signal |-> Cell(CoeffAt(i) + 2), value |-> Cell(CoeffAt(i) + 3)]

\* Mutant: counts the constraints of the public inputs.
all_constraints == Max({Coeff(i).constraint : i \in Present} \cup {0})

\* The last constraint is that of the last public input.
num_constraints == Max({Coeff(i).constraint : i \in Present} \cup {0}) - n_public

CoeffsMatch == \A i \in Present : Coeff(i).matrix < 2 /\ Coeff(i).constraint < domain_size

CoeffsPanic ==
    /\ pc = "coeffs"
    /\ ~CoeffsMatch \/ (Cardinality(Present) = num_coeffs /\ Overflows(num_constraints))
    /\ Ends("panic")

CoeffsTruncated ==
    /\ pc = "coeffs"
    /\ CoeffsMatch
    /\ Cardinality(Present) < num_coeffs
    /\ Ends("err")

Row(coefficients, matrix, constraint) ==
    LET terms == SelectSeq(coefficients,
                           LAMBDA c : c.matrix = matrix /\ c.constraint = constraint)
    IN  [k \in DOMAIN terms |-> <<terms[k].value, terms[k].signal>>]

\* The rows of the public inputs are cut off.
Matrix(m) ==
    [c \in 1..Min({Wrap(num_constraints), domain_size}) |->
        Row([i \in 1..num_coeffs |-> Coeff(i)], m, c - 1)]

ReadCoeffs ==
    /\ pc = "coeffs"
    /\ CoeffsMatch
    /\ Cardinality(Present) = num_coeffs
    /\ ~Overflows(num_constraints)
    /\ Returns([vk |-> Cell(sections[2].start + 3),
                points |-> [i \in {3, 5, 6, 7, 8, 9} |-> Cells(sections[i].start, Size(i))],
                num_instance_variables |-> n_public + 1,
                num_witness_variables |-> Wrap(n_vars - n_public),
                num_constraints |-> Wrap(num_constraints),
                a |-> Matrix(0), b |-> Matrix(1)])

Next ==
    \/ OpenFails \/ Open \/ TruncatedHeader
    \/ SectionOverflows \/ SectionRejected \/ HeaderOutside \/ WalkWitness
    \/ SeekFails \/ WalkKey
    \/ WitnessMalformed \/ WitnessOutside \/ ReadWitness
    \/ KeyWalked \/ MagicNotText \/ SectionMissing \/ SectionTruncated \/ ReadSection
    \/ CoeffsPanic \/ CoeffsTruncated \/ ReadCoeffs

Spec == Init /\ [][Next]_vars

-----------------------------------------------------------------------------
(* The files that are written.  f.bytes has its sections at f.parts, and is *)
(* a file of f.of.                                                          *)

Part == [id: Nat, start: Nat, len: Nat]

\* Where the k-th section ends; the first one follows two cells.
EndOf(f, k) == IF k = 0 THEN 2 ELSE f.parts[k].start + f.parts[k].len

\* Sections one after the other, no two of one id, in a file whose length fits
\* a signed word.
LaidOut(f) ==
    /\ f.bytes \in Seq(Nat) /\ f.parts \in Seq(Part)
    /\ Len(f.bytes) >= 2 /\ Len(f.bytes) < WordSize \div 2
    /\ f.bytes[2] = Len(f.parts)
    /\ \A k \in DOMAIN f.parts :
          /\ f.parts[k].start = EndOf(f, k - 1) + 2
          /\ f.bytes[f.parts[k].start - 1] = f.parts[k].id
          /\ f.bytes[f.parts[k].start] = f.parts[k].len
          /\ EndOf(f, k) <= Len(f.bytes)
    /\ \A j, k \in DOMAIN f.parts : f.parts[j].id = f.parts[k].id => j = k

Ids(f) == {f.parts[k].id : k \in DOMAIN f.parts}
PartOf(f, i) == f.parts[CHOOSE k \in DOMAIN f.parts : f.parts[k].id = i]
Body(f, i) == SubSeq(f.bytes, PartOf(f, i).start + 1, PartOf(f, i).start + PartOf(f, i).len)

\* A witness: f.of is the sequence of its elements.
IsWitness(f) ==
    LET width == Body(f, 1)[1]
        elements == Body(f, 2)
    IN  /\ f.bytes[1] = Wtns
        /\ {1, 2} \subseteq Ids(f)
        /\ Len(Body(f, 1)) > 0 /\ width > 0
        /\ f.of \in Seq(0..(FieldOrder - 1))
        /\ Len(elements) % width = 0 /\ Len(f.of) = Len(elements) \div width
        /\ \A k \in DOMAIN f.of :
              f.of[k] = LittleEndian(SubSeq(elements, (k - 1) * width + 1, (k - 1) * width + width))

Coefficients(cells) ==
    [k \in 1..cells[1] |->
        [matrix |-> cells[4 * k - 2], constraint |-> cells[4 * k - 1],
         signal |-> cells[4 * k], value |-> cells[4 * k + 1]]]

\* A key: f.of is what read_zkey makes of it.  The rows after those of the
\* constraints stand for the public inputs and the constant one.
IsKey(f) ==
    LET key == f.of
        public == key.num_instance_variables - 1
        vars_of == key.num_witness_variables + public
        domain == Len(key.points[9])
        coefficients == Coefficients(Body(f, 4))
        rows == key.num_constraints + public
    IN  /\ f.bytes[1] \in Text
        /\ 2..9 \subseteq Ids(f)
        /\ key = [vk |-> key.vk, points |-> key.points,
                  num_instance_variables |-> key.num_instance_variables,
                  num_witness_variables |-> key.num_witness_variables,
                  num_constraints |-> key.num_constraints, a |-> key.a, b |-> key.b]
        /\ key.num_instance_variables \in Nat \ {0} /\ key.num_witness_variables \in Nat \ {0}
        /\ vars_of < CountSize /\ domain < CountSize
        /\ Body(f, 2) = <<vars_of, public, domain, key.vk>>
        /\ key.points = [i \in {3, 5, 6, 7, 8, 9} |-> Body(f, i)]
        /\ Len(Body(f, 3)) = public + 1
        /\ \A i \in {5, 6, 7} : Len(Body(f, i)) = vars_of
        /\ Len(Body(f, 8)) = key.num_witness_variables - 1
        /\ Len(Body(f, 4)) > 0 /\ Len(Body(f, 4)) = 4 * Body(f, 4)[1] + 1
        /\ \A k \in DOMAIN coefficients :
              /\ coefficients[k].matrix \in {0, 1}
              /\ coefficients[k].constraint <= rows
        /\ \E k \in DOMAIN coefficients : coefficients[k].constraint = rows
        /\ key.num_constraints \in Nat /\ rows < domain
        /\ key.a = [c \in 1..key.num_constraints |-> Row(coefficients, 0, c - 1)]
        /\ key.b = [c \in 1..key.num_constraints |-> Row(coefficients, 1, c - 1)]

ASSUME WitnessFilesAssumption == \A f \in WitnessFiles : LaidOut(f) /\ IsWitness(f)
ASSUME KeyFilesAssumption == \A f \in KeyFiles : LaidOut(f) /\ IsKey(f)

-----------------------------------------------------------------------------
Ended == pc \in {"ok", "err", "panic"}

TypeOK ==
    /\ reader \in Readers /\ overflow_checks \in BOOLEAN /\ bytes \in Seq(Nat)
    /\ pc \in {"open", "walk", "read", "coeffs", "ok", "err", "panic"}
    /\ left \in Nat /\ off \in Nat
    /\ sections \in [DOMAIN sections -> [start: Nat, len: Nat]]
    /\ reading \in DOMAIN KeySections

\* A length, of the section at hand or of the witness, leaves the machine word.
LengthLeavesWord ==
    IF left > 0 THEN body + slen >= WordSize ELSE data.start + data.len >= WordSize

(* Said of the parsers (tests/robustness.rs:1-2): they "must return `Err` on  *)
(* bad input, never panic", with section lengths that overflow guarded       *)
(* (tests/robustness.rs:27-28).                                            *)
ParserNeverPanics == reader = "parse_wtns" => pc # "panic"

(* How far the code is from that (witness.rs:61-90): in either build, and     *)
(* whatever the number of sections, their ids, order and lengths, only a     *)
(* section whose end leaves the machine word makes the parser panic, so an   *)
(* addition that fails on overflow would do.                               *)
PanicsOnlyOnOverflow == reader = "parse_wtns" /\ pc = "panic" => LengthLeavesWord

\* The files of the reader's kind.
Written == IF reader = "read_zkey" THEN KeyFiles ELSE WitnessFiles

(* What circom-witnesscalc and snarkjs write is what their readers return:  *)
(* the elements of a witness in order (witness.rs:49-94, main.rs:213-247),   *)
(* with elements of several cells, sections in either order, and sections   *)
(* of other ids before, after and between; the points of a key and exactly  *)
(* the constraints the circuit was compiled to, without the rows that stand *)
(* for its public inputs (zkey.rs:95-188).                                  *)
WrittenIsReadBack ==
    Ended =>
        \A f \in Written : bytes = f.bytes => pc = "ok" /\ value = f.of

(* Of a file that was written in part (a pull-circuits run that was killed) *)
(* its reader returns an error, or nothing that it reads is missing: it     *)
(* neither panics nor returns something else (witness.rs:61-90,             *)
(* zkey.rs:65-182).                                                         *)
TornFileNotMistaken ==
    Ended =>
        \A f \in Written : IsPrefix(bytes, f.bytes) => pc = "err" \/ (pc = "ok" /\ value = f.of)

-----------------------------------------------------------------------------
(* The inductive strengthening of PanicsOnlyOnOverflow.                     *)

\* The sections that were kept lie in the file or leave the machine word.
SectionsKept ==
    \A i \in DOMAIN sections :
        LET end == sections[i].start + sections[i].len
        IN  end <= Len(bytes) \/ end >= WordSize

ParseInv ==
    /\ reader = "parse_wtns" => SectionsKept /\ pc \notin {"read", "coeffs"}
    /\ PanicsOnlyOnOverflow
-----------------------------------------------------------------------------
(* The inductive strengthening of WrittenIsReadBack and TornFileNotMistaken. *)

\* The first n sections of f were kept.
Kept(f, n) ==
    /\ DOMAIN sections = {f.parts[k].id : k \in 1..n}
    /\ \A k \in 1..n : sections[f.parts[k].id] = [start |-> f.parts[k].start, len |-> f.parts[k].len]

\* The walk over a prefix of f is where one of f's sections ends, and what has been
\* read lies in the prefix: sections that a witness reader walked, those of a key
\* that were read.
ReadAsWritten(f) ==
    /\ pc = "open" => sections = <<>>
    /\ pc \in {"open", "walk"} => reading = 1
    /\ pc = "walk" =>
          LET n == Len(f.parts) - left
          IN  /\ Len(bytes) >= 2 /\ n \in 0..Len(f.parts)
              /\ off = EndOf(f, n)
              /\ Kept(f, n)
              /\ reader \in WitnessReaders => \A k \in 1..n : EndOf(f, k) <= Len(bytes)
    /\ pc \in {"read", "coeffs"} =>
          /\ reader = "read_zkey"
          /\ Kept(f, Len(f.parts))
          /\ \A k \in DOMAIN KeySections :
                k < reading \/ pc = "coeffs"
                    => Inside(PartOf(f, KeySections[k]).start, Size(KeySections[k]))
    /\ pc # "panic"
    /\ pc = "ok" => value = f.of
    /\ pc = "err" => bytes # f.bytes

WrittenInv == \A f \in Written : IsPrefix(bytes, f.bytes) => ReadAsWritten(f)
=============================================================================
