-------------------------- MODULE ProofSystemProofs --------------------------
(***************************************************************************)
(* The verdicts of both verifiers and of the contract, for circuits of any  *)
(* size, however the files of two builds were mixed when they were loaded.  *)
(***************************************************************************)
EXTENDS ProofSystem, TLAPS

LEMMA InitTypeOK == Init => TypeOK
BY TokensAssumption DEF Init, TypeOK, Builds

LEMMA NextTypeOK == TypeOK /\ [Next]_vars => TypeOK'
<1> SUFFICES ASSUME TypeOK, [Next]_vars PROVE TypeOK'
  OBVIOUS
<1> USE TokensAssumption DEF TypeOK, Builds
<1>1. ASSUME NEW kind \in DOMAIN artifacts, NEW content \in Builds \cup {Torn}, Pull(kind, content)
      PROVE  TypeOK'
  BY <1>1 DEF Pull, prover
<1>2. CASE ReadGraph \/ ReadZkey \/ FromDirFails \/ Bundled
  BY <1>2 DEF ReadGraph, ReadZkey, FromDirFails, Bundled, Returns, prover
<1>3. CASE VerifierFromDir \/ VerifierFails
  BY <1>3 DEF VerifierFromDir, VerifierFails, Returns, prover
<1>4. ASSUME NEW statement \in {"valid", "invalid"}, Prove(statement) \/ ProveFails(statement)
      PROVE  TypeOK'
  BY <1>4 DEF Prove, ProveFails, Returns, prover
<1>5. CASE ProverVerifies \/ VerifierVerifies
  BY <1>5 DEF ProverVerifies, VerifierVerifies, Returns, prover
<1>6. ASSUME NEW c \in Circuits, VerifierBundled(c) \/ Submit(c) PROVE TypeOK'
  BY <1>6 DEF VerifierBundled, Submit, Returns, prover
<1>7. CASE UNCHANGED vars
  BY <1>7 DEF vars, prover
<1> QED
  BY <1>1, <1>2, <1>3, <1>4, <1>5, <1>6, <1>7 DEF Next

\* A prover never holds a key of which only a part was read.
THEOREM ProofSystemTypeCorrect == Spec => []TypeOK
BY InitTypeOK, NextTypeOK, PTL DEF Spec

-----------------------------------------------------------------------------
LEMMA SignalCounts == \A c \in Circuits : num_public(c) \in Nat /\ num_public(c) >= 4
<1>1. Len(public_signal_names.withdraw) = 8
  BY DEF public_signal_names
<1>2. Len(public_signal_names.commitment) = 4
  BY DEF public_signal_names
<1> QED
  BY <1>1, <1>2 DEF num_public, Circuits, public_signal_names

\* The number of public signals, and that the variables hold them all.
LEMMA SystemCounts ==
    ASSUME NEW c \in Circuits, NEW build \in Builds
    PROVE  /\ System(c, build).n_public \in Nat
           /\ System(c, build).n_vars \in Nat
           /\ System(c, build).n_public + 1 <= System(c, build).n_vars
BY SignalCounts, PrivatesAssumption DEF System

\* Keys of one setup are of one circuit, and take equally many signals.
LEMMA SetupDetermines ==
    TypeOK =>
        \A c, d \in Circuits, build, other \in Builds :
            Setup(c, build) = Setup(d, other)
                => c = d /\ System(c, build).n_public = System(d, other).n_public
<1> SUFFICES ASSUME TypeOK, NEW c \in Circuits, NEW d \in Circuits, NEW build \in Builds,
                    NEW other \in Builds, Setup(c, build) = Setup(d, other)
             PROVE  c = d /\ System(c, build).n_public = System(d, other).n_public
  OBVIOUS
<1>1. c = d /\ (Changed(build, Changes \ {"nothing"}) <=> Changed(other, Changes \ {"nothing"}))
  BY DEF Setup
<1>2. Changed(build, {"public"}) <=> Changed(other, {"public"})
  BY <1>1 DEF Changed, Changes, TypeOK
<1> QED
  BY <1>1, <1>2 DEF System

\* The first build is the one the contract and this crate were made for.
LEMMA FirstBuild == \A c \in Circuits : System(c, 1).n_public = num_public(c)
BY SignalCounts DEF System, Changed

LEMMA InitVerdictInv == Init => VerdictInv
BY DEF Init, VerdictInv, ProofInv, VerdictsRight, ChainAgrees, entry, Circuits

\* What the calculator returns is a sequence.
LEMMA WitnessIsSequence ==
    ASSUME NEW N \in Nat, NEW rows, NEW statement
    PROVE  [k \in 1..N |-> <<rows, statement, k - 1>>] \in Seq({<<rows, statement, k - 1>> : k \in 1..N})
<1> DEFINE S == {<<rows, statement, k - 1>> : k \in 1..N}
<1>1. \A k \in 1..N : <<rows, statement, k - 1>> \in S
  OBVIOUS
<1> HIDE DEF S
<1>2. [k \in 1..N |-> <<rows, statement, k - 1>>] \in [1..N -> S]
  BY <1>1
<1>3. [1..N -> S] \subseteq Seq(S)
  OBVIOUS
<1> QED
  BY <1>2, <1>3 DEF S

\* What a new proof carries.
LEMMA NewProof ==
    ASSUME TypeOK, NEW statement \in {"valid", "invalid"}, Prove(statement)
    PROVE  ProofInv'
<1> DEFINE assignment == calc_witness(statement)
           n == System(circuit, zkey).n_public
<1>1. /\ circuit \in Circuits /\ zkey \in Builds /\ graph \in Builds
      /\ UNCHANGED <<circuit, change, zkey, graph>>
  BY TokensAssumption DEF Prove, CanProve, TypeOK, Returns, prover
<1>2. n \in Nat /\ num_inputs = n + 1
  BY <1>1, SystemCounts DEF num_inputs, matrices
<1>3. \E S : assignment \in Seq(S)
  <2> DEFINE system == System(circuit, graph)
  <2>1. system.n_vars \in Nat
    BY <1>1, SystemCounts
  <2>2. assignment = [k \in 1..system.n_vars |-> <<system.rows, statement, k - 1>>]
    BY DEF calc_witness
  <2> HIDE DEF system, assignment
  <2> QED
    BY <2>1, <2>2, WitnessIsSequence
<1>4. Len(assignment) = System(circuit, zkey).n_vars
  <2>1. Len(assignment) = n_vars
    BY DEF Prove
  <2>2. n_vars = System(circuit, zkey).n_vars
    BY <1>1, <1>2, SystemCounts DEF n_vars, matrices
  <2> QED
    BY <2>1, <2>2
<1>5. Len(SubSeq(assignment, 2, n + 1)) = n
  <2> HIDE DEF assignment, n
  <2>1. n + 1 <= Len(assignment)
    BY <1>1, <1>4, SystemCounts DEF n
  <2> QED
    <3>1. PICK S : assignment \in Seq(S)
      BY <1>3
    <3> QED
      BY <1>2, <2>1, <3>1
<1>6. proof' = Groth16Proof(statement, assignment)
  BY DEF Prove
<1>7. /\ proof'.satisfied \in BOOLEAN /\ proof'.b = <<"c0", "c1">>
      /\ proof'.setup = Setup(circuit, zkey)
      /\ proof'.binds = SubSeq(assignment, 2, n + 1)
      /\ proof'.public_signals = SubSeq(assignment, 2, n + 1)
  BY <1>2, <1>6 DEF Groth16Proof, public_signals
<1>8. Setup(circuit, zkey)' = Setup(circuit, zkey) /\ System(circuit, zkey)' = System(circuit, zkey)
  BY <1>1 DEF Setup, System, Changed
<1> QED
  BY <1>1, <1>5, <1>7, <1>8 DEF ProofInv, Setup, System, Changed

\* The signals of a proof under a key: the right ones exactly when the key is
\* of the proof's setup.
LEMMA KeyFits ==
    ASSUME TypeOK, ProofInv, proof # None, NEW c \in Circuits, NEW build \in Builds,
           proof.setup = Setup(c, build)
    PROVE  Len(proof.public_signals) = System(c, build).n_public
<1>1. PICK k \in Builds : proof.setup = Setup(circuit, k)
                          /\ Len(proof.binds) = System(circuit, k).n_public
  BY DEF ProofInv
<1>2. System(circuit, k).n_public = System(c, build).n_public
  <2>1. circuit \in Circuits /\ Setup(circuit, k) = Setup(c, build)
    BY <1>1 DEF TypeOK
  <2> QED
    <3>1. \A d \in Circuits, other \in Builds :
             Setup(circuit, k) = Setup(d, other)
                 => System(circuit, k).n_public = System(d, other).n_public
      BY <2>1, SetupDetermines
    <3> QED
      BY <2>1, <3>1
<1> QED
  BY <1>1, <1>2 DEF ProofInv

LEMMA VerdictMeans ==
    ASSUME ProofInv, proof # None, NEW c, NEW build
    PROVE  Verdict(c, build, proof.b, proof.public_signals) = "true" <=> Holds(c, build)
BY DEF Verdict, Holds, ProofInv

LEMMA PvkMeans ==
    ASSUME TypeOK, ProofInv, proof # None, NEW c \in Circuits, NEW build \in Builds
    PROVE  verify_with_pvk(c, build) = "true" <=> Holds(c, build)
BY KeyFits, VerdictMeans DEF verify_with_pvk, Holds

\* A step that leaves the proof alone.
LEMMA ProofKept ==
    ASSUME ProofInv, UNCHANGED <<change, circuit, proof>>
    PROVE  ProofInv'
BY DEF ProofInv, Setup, System, Changed

\* A call that returns no verdict.
LEMMA NoVerdict ==
    ASSUME answer'.call \notin {"Prover::verify", "Verifier::verify", "withdraw_calldata",
                                "ragequit_calldata"}
    PROVE  VerdictsRight' /\ ChainAgrees'
BY DEF VerdictsRight, ChainAgrees, entry, Circuits

LEMMA NextVerdictInv == TypeOK /\ VerdictInv /\ [Next]_vars => VerdictInv'
<1> SUFFICES ASSUME TypeOK, VerdictInv, [Next]_vars PROVE VerdictInv'
  OBVIOUS
<1>1. ProofInv
  BY DEF VerdictInv
<1>2. ASSUME UNCHANGED <<change, circuit, proof>>,
             answer'.call \in {"none", "read_dir_file", "from_dir", "from_vkey_json", "bundled",
                               "prove"}
      PROVE  VerdictInv'
  BY <1>1, <1>2, ProofKept, NoVerdict DEF VerdictInv
<1>3. ASSUME NEW kind \in DOMAIN artifacts, NEW content \in Builds \cup {Torn}, Pull(kind, content)
      PROVE  VerdictInv'
  BY <1>2, <1>3 DEF Pull
<1>4. CASE ReadGraph \/ ReadZkey \/ FromDirFails \/ Bundled \/ VerifierFromDir \/ VerifierFails
  BY <1>2, <1>4 DEF ReadGraph, ReadZkey, FromDirFails, Bundled, VerifierFromDir, VerifierFails,
                    Returns
<1>5. ASSUME NEW statement \in {"valid", "invalid"}, Prove(statement)
      PROVE  VerdictInv'
  <2>1. ProofInv'
    BY <1>5, NewProof
  <2>2. answer'.call = "prove"
    BY <1>5 DEF Prove, Returns
  <2> QED
    BY <2>1, <2>2, NoVerdict DEF VerdictInv
<1>6. ASSUME NEW statement \in {"valid", "invalid"}, ProveFails(statement)
      PROVE  VerdictInv'
  BY <1>2, <1>6 DEF ProveFails, Returns
<1>7. CASE ProverVerifies
  <2>1. /\ answer' = [call |-> "Prover::verify", result |-> verify_with_pvk(circuit, zkey)]
        /\ UNCHANGED <<change, circuit, zkey, proof>>
        /\ proof # None /\ circuit \in Circuits /\ zkey \in Builds
    BY <1>7 DEF ProverVerifies, Returns, CanProve, prover, TypeOK
  <2>2. answer'.result = "true" <=> Holds(circuit, zkey)
    BY <1>1, <2>1, PvkMeans
  <2>3. Holds(circuit, zkey)' <=> Holds(circuit, zkey)
    BY <2>1 DEF Holds, Setup, Changed
  <2> QED
    BY <1>1, <2>1, <2>2, <2>3, ProofKept DEF VerdictInv, VerdictsRight, ChainAgrees, entry, Circuits
<1>8. CASE VerifierVerifies
  <2>1. /\ answer'.call = "Verifier::verify"
        /\ answer'.result = IF Len(proof.public_signals) # System(vkey[1], vkey[2]).n_public
                            THEN "input" ELSE verify_with_pvk(vkey[1], vkey[2])
        /\ UNCHANGED <<change, circuit, vkey, proof>>
        /\ proof # None /\ vkey[1] \in Circuits /\ vkey[2] \in Builds
    BY <1>8 DEF VerifierVerifies, Returns, TypeOK
  <2>2. answer'.result = "true" <=> Holds(vkey[1], vkey[2])
    BY <1>1, <2>1, PvkMeans, KeyFits DEF Holds
  <2>3. Holds(vkey[1], vkey[2])' <=> Holds(vkey[1], vkey[2])
    BY <2>1 DEF Holds, Setup, Changed
  <2> QED
    BY <1>1, <2>1, <2>2, <2>3, ProofKept DEF VerdictInv, VerdictsRight, ChainAgrees, entry, Circuits
<1>9. ASSUME NEW c \in Circuits, VerifierBundled(c)
      PROVE  VerdictInv'
  BY <1>2, <1>9 DEF VerifierBundled, Returns
<1>10. ASSUME NEW c \in Circuits, Submit(c)
       PROVE  VerdictInv'
  <2>1. /\ answer'.call = entry[c]
        /\ answer'.result =
              IF Len(proof.public_signals) # num_public(c) THEN "input"
              ELSE Verdict(c, 1, Swapped(Swapped(proof.b)), proof.public_signals)
        /\ UNCHANGED <<change, circuit, proof>> /\ proof # None
    BY <1>10 DEF Submit, Returns, to_solidity_calldata
  <2>2. Swapped(Swapped(proof.b)) = proof.b
    BY <1>1, <2>1 DEF Swapped, ProofInv
  <2>3. answer'.result = "true" <=> Holds(c, 1)
    <3>1. Holds(c, 1) => Len(proof.public_signals) = num_public(c)
      BY <1>1, <2>1, KeyFits, FirstBuild DEF Holds, Builds
    <3>2. Verdict(c, 1, proof.b, proof.public_signals) = "true" <=> Holds(c, 1)
      BY <1>1, <2>1, VerdictMeans
    <3> QED
      BY <2>1, <2>2, <3>1, <3>2
  <2>4. Holds(c, 1)' <=> Holds(c, 1)
    BY <2>1 DEF Holds, Setup, Changed
  <2>5. \A d \in Circuits : entry[d] = entry[c] => d = c
    BY DEF entry, Circuits
  <2>6. answer'.call \notin {"Prover::verify", "Verifier::verify"}
    BY <2>1 DEF entry, Circuits
  <2> QED
    BY <1>1, <2>1, <2>3, <2>4, <2>5, <2>6, ProofKept DEF VerdictInv, VerdictsRight, ChainAgrees
<1>11. CASE UNCHANGED vars
  BY <1>1, <1>11, ProofKept DEF vars, prover, VerdictInv, VerdictsRight, ChainAgrees, Holds, Setup,
                                Changed
<1> QED
  BY <1>3, <1>4, <1>5, <1>6, <1>7, <1>8, <1>9, <1>10, <1>11 DEF Next

LEMMA VerdictInvHolds == Spec => []VerdictInv
<1>1. Init => TypeOK /\ VerdictInv
  BY InitTypeOK, InitVerdictInv
<1>2. TypeOK /\ VerdictInv /\ [Next]_vars => (TypeOK /\ VerdictInv)'
  BY NextTypeOK, NextVerdictInv
<1> QED
  BY <1>1, <1>2, PTL DEF Spec

\* Both verifiers accept exactly the proofs of valid statements that were made
\* with artifacts of the same constraints, under the keys of their setup.
THEOREM VerdictsAreRight == Spec => []VerdictsRight
<1>1. VerdictInv => VerdictsRight
  BY DEF VerdictInv
<1> QED
  BY <1>1, VerdictInvHolds, PTL

\* The contract's verdict on a proof's calldata is that of a verifier with the
\* deployed key.
THEOREM ChainAgreesWithVerifier == Spec => []ChainAgrees
<1>1. VerdictInv => ChainAgrees
  BY DEF VerdictInv
<1> QED
  BY <1>1, VerdictInvHolds, PTL

-----------------------------------------------------------------------------
(* What prove returns.                                                     *)

\* The prover wants as many values as its key has variables.
LEMMA WantedLength ==
    ASSUME TypeOK, zkey # None
    PROVE  n_vars = System(circuit, zkey).n_vars
<1>1. circuit \in Circuits /\ zkey \in Builds
  BY DEF TypeOK
<1>2. /\ System(circuit, zkey).n_public \in Nat
      /\ System(circuit, zkey).n_vars \in Nat
  BY <1>1, SystemCounts
<1> QED
  BY <1>2 DEF n_vars, num_inputs, matrices

\* The calculator returns a value for each variable of its graph.
LEMMA WitnessLength ==
    ASSUME TypeOK, graph \in Builds, NEW statement
    PROVE  Len(calc_witness(statement)) = System(circuit, graph).n_vars
<1> DEFINE system == System(circuit, graph)
<1>1. system.n_vars \in Nat
  BY SystemCounts DEF TypeOK
<1>2. calc_witness(statement) = [k \in 1..system.n_vars |-> <<system.rows, statement, k - 1>>]
  BY DEF calc_witness
<1> HIDE DEF system
<1> QED
  BY <1>1, <1>2, WitnessIsSequence DEF system

LEMMA NextProvesWhatMatches == TypeOK /\ ProvesWhatMatches /\ [Next]_vars => ProvesWhatMatches'
<1> SUFFICES ASSUME TypeOK, ProvesWhatMatches, [Next]_vars PROVE ProvesWhatMatches'
  OBVIOUS
<1>1. ASSUME answer'.call # "prove" PROVE ProvesWhatMatches'
  BY <1>1 DEF ProvesWhatMatches
<1>2. ASSUME NEW kind \in DOMAIN artifacts, NEW content \in Builds \cup {Torn}, Pull(kind, content)
      PROVE  ProvesWhatMatches'
  BY <1>1, <1>2 DEF Pull
<1>3. CASE ReadGraph \/ ReadZkey \/ FromDirFails \/ Bundled
  BY <1>1, <1>3 DEF ReadGraph, ReadZkey, FromDirFails, Bundled, Returns
<1>4. CASE VerifierFromDir \/ VerifierFails \/ ProverVerifies \/ VerifierVerifies
  BY <1>1, <1>4 DEF VerifierFromDir, VerifierFails, ProverVerifies, VerifierVerifies, Returns
<1>5. ASSUME NEW c \in Circuits, VerifierBundled(c) \/ Submit(c) PROVE ProvesWhatMatches'
  BY <1>1, <1>5 DEF VerifierBundled, Submit, Returns, entry, Circuits
<1>6. ASSUME NEW statement \in {"valid", "invalid"}, Prove(statement) \/ ProveFails(statement)
      PROVE  ProvesWhatMatches'
  <2>1. zkey # None /\ graph # None /\ graph \in Builds \cup {Torn}
        /\ UNCHANGED <<change, circuit, graph, zkey>>
    BY <1>6 DEF Prove, ProveFails, CanProve, TypeOK, Returns, prover
  <2>2. answer'.result = "ok"
            <=> graph # Torn /\ System(circuit, graph).n_vars = System(circuit, zkey).n_vars
    <3>1. CASE graph = Torn
      BY <1>6, <3>1 DEF Prove, ProveFails, Returns
    <3>2. CASE graph # Torn
      <4>1. /\ Len(calc_witness(statement)) = System(circuit, graph).n_vars
            /\ n_vars = System(circuit, zkey).n_vars
        BY <2>1, <3>2, WitnessLength, WantedLength
      <4> QED
        BY <1>6, <3>2, <4>1 DEF Prove, ProveFails, Returns
    <3> QED
      BY <3>1, <3>2
  <2>3. System(circuit, graph)' = System(circuit, graph) /\ System(circuit, zkey)' = System(circuit, zkey)
    BY <2>1 DEF System, Changed
  <2> QED
    BY <2>1, <2>2, <2>3 DEF ProvesWhatMatches
<1>7. CASE UNCHANGED vars
  BY <1>7 DEF vars, prover, ProvesWhatMatches, System, Changed
<1> QED
  BY <1>2, <1>3, <1>4, <1>5, <1>6, <1>7 DEF Next

\* A prover proves exactly when its graph was read whole and has as many
\* variables as its key (prover.rs:62-74), valid statement or not, for circuits
\* of any size.
THEOREM ProverProvesWhatMatches == Spec => []ProvesWhatMatches
<1>1. Init => TypeOK /\ ProvesWhatMatches
  BY InitTypeOK DEF Init, ProvesWhatMatches
<1>2. TypeOK /\ ProvesWhatMatches /\ [Next]_vars => (TypeOK /\ ProvesWhatMatches)'
  BY NextTypeOK, NextProvesWhatMatches
<1> QED
  BY <1>1, <1>2, PTL DEF Spec
=============================================================================
