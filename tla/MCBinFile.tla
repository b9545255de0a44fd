------------------------------ MODULE MCBinFile ------------------------------
(***************************************************************************)
(* BinFile on files that snarkjs and circom-witnesscalc write, on what is   *)
(* left of them when writing stops, and on every short sequence of cells.   *)
(***************************************************************************)
EXTENDS BinFile

CONSTANTS
    Zkey,          \* the magic "zkey"
    NotText,       \* a magic that is not UTF-8
    MaxTail        \* bound: cells after the prefix of an arbitrary file

\* The file of some sections, and where they are in it.
File(magic, bodies, of) ==
    LET cells == [k \in DOMAIN bodies |-> <<bodies[k].id, Len(bodies[k].cells)>> \o bodies[k].cells]
        start[k \in DOMAIN bodies] ==
            IF k = 1 THEN 4 ELSE start[k - 1] + Len(cells[k - 1])
    IN  [bytes |-> <<magic, Len(bodies)>> \o FlattenSeq(cells),
         parts |-> [k \in DOMAIN bodies |->
                       [id |-> bodies[k].id, start |-> start[k], len |-> Len(bodies[k].cells)]],
         of |-> of]

Of(i, cells) == [id |-> i, cells |-> cells]

\* A witness of elements of width cells, least significant first.
Digits(width, e) == [k \in 1..width |-> (e \div Base^(k - 1)) % Base]
EncodeWitness(width, w) ==
    LET header == Of(1, <<width>> \o Digits(width, FieldOrder - 1) \o <<Len(w)>>)
        elements == Of(2, FlattenSeq([k \in DOMAIN w |-> Digits(width, w[k])]))
        foreign == Of(3, <<2, 7>>)
    IN  {File(Wtns, bodies, w) : bodies \in {<<header, elements>>, <<elements, header>>,
                                             <<foreign, header, elements>>,
                                             <<header, elements, foreign>>}}

MCWitnessFiles == UNION {EncodeWitness(2, w) : w \in {<<>>, <<1>>, <<6, 0>>, <<1, 5, 4>>}}

\* Constraints of a circuit: the terms of a row are <<value, signal>>.
Systems == {
    [vars |-> 3, public |-> 1, a |-> <<<<<<5, 2>>>>>>, b |-> <<<<<<1, 0>>>>>>],
    [vars |-> 4, public |-> 2, a |-> <<<<<<5, 2>>, <<3, 3>>>>, <<>>>>,
                               b |-> <<<<<<1, 0>>>>, <<<<2, 3>>>>>>]}

Domain(s) == Len(s.a) + s.public + 1
Points(s) ==
    [i \in {3, 5, 6, 7, 8, 9} |->
        [k \in 1..(CASE i = 3 -> s.public + 1
                     [] i \in {5, 6, 7} -> s.vars
                     [] i = 8 -> s.vars - s.public - 1
                     [] i = 9 -> Domain(s)) |-> 10 * i + k]]

Terms(m, rows) ==
    FlattenSeq([r \in DOMAIN rows |->
        [k \in DOMAIN rows[r] |-> <<m, r - 1, rows[r][k][2], rows[r][k][1]>>]])

\* The order in which snarkjs writes the sections, and another.
SnarkjsOrder == <<1, 2, 4, 3, 9, 8, 5, 6, 7, 10>>
Orders == {SnarkjsOrder, <<10, 9, 8, 7, 6, 5, 3, 1, 2, 4>>}

KeyOf(s) ==
    [vk |-> 8,
     points |-> Points(s),
     num_instance_variables |-> s.public + 1,
     num_witness_variables |-> s.vars - s.public,
     num_constraints |-> Len(s.a),
     a |-> s.a, b |-> s.b]

EncodeKey(s, order) ==
    LET public == [k \in 1..(s.public + 1) |-> <<0, Len(s.a) + k - 1, k - 1, 1>>]
        coefficients == Terms(0, s.a) \o Terms(1, s.b) \o public
        cells(i) ==
            CASE i = 1 -> <<1>>
              [] i = 2 -> <<s.vars, s.public, Domain(s), 8>>
              [] i = 4 -> <<Len(coefficients)>> \o FlattenSeq(coefficients)
              [] i = 10 -> <<0, 0>>
              [] OTHER -> Points(s)[i]
    IN  File(Zkey, [k \in DOMAIN order |-> Of(order[k], cells(order[k]))], KeyOf(s))

MCKeyFiles == {EncodeKey(s, order) : s \in Systems, order \in Orders}

Beginnings(files) == UNION {{SubSeq(f.bytes, 1, n) : n \in 0..Len(f.bytes)} : f \in files}

\* Keys whose header does not fit the rest, and files without any section.
OddKeys ==
    {[EncodeKey(s, SnarkjsOrder).bytes EXCEPT ![8] = variables, ![9] = public, ![10] = domain] :
        s \in Systems, variables \in {3, 6}, public \in {1, 3, 4, CountSize - 1}, domain \in {1, 3}}
    \cup {<<Zkey, 0>>, <<NotText, 0>>}

CellValues == {0, 1, 2, WordSize \div 2, WordSize - 2, WordSize - 1}
Arbitrary == {<<Wtns, n>> \o tail : n \in 0..3, tail \in BoundedSeq(CellValues, MaxTail)}

MCFiles == Beginnings(MCWitnessFiles) \cup Beginnings(MCKeyFiles) \cup OddKeys \cup Arbitrary
=============================================================================
