----------------------------- MODULE ProofSystem -----------------------------
(***************************************************************************)
(* A process that proves and verifies with one of the circuits (lib.rs,     *)
(* prover.rs, verifier.rs, proof.rs, onchain.rs) while pull-circuits        *)
(* replaces its artifacts on disk one file at a time, and a contract that   *)
(* was deployed with the verifying key of one build.  A file's content is   *)
(* the build it comes from.                                                *)
(***************************************************************************)
EXTENDS Integers, Sequences

CONSTANTS
    Privates,      \* private signals of a circuit
    Torn,          \* a file of which only a part was written
    None           \* no graph, key or proof

ASSUME PrivatesAssumption == Privates \in Nat

Circuits == {"withdraw", "commitment"}
Builds == {1, 2}

\* What the upstream commit of build 2 changed: nothing in the circuits, the
\* trusted setup only, or the circuits and with them the setup, with as many
\* signals as before, one more, or one public signal that became private.
Changes == {"nothing", "setup", "rows", "vars", "public"}

ASSUME TokensAssumption == Torn \notin Builds /\ None \notin Builds /\ Torn # None

VARIABLES
    change,        \* what build 2 changed
    circuit,       \* the circuit the process works with
    artifacts,     \* per file of the circuit: the build it comes from
    loading,       \* the graph from_dir has read, before it reads the key
    graph,         \* the prover's graph, not parsed before it is used
    zkey,          \* the prover's proving key
    vkey,          \* the verifier's: circuit and build
    proof,         \* the last proof
    answer         \* what the last call returned

prover == <<graph, zkey>>
vars == <<change, circuit, artifacts, loading, prover, vkey, proof, answer>>

public_signal_names ==
    [withdraw |-> <<"newCommitmentHash", "existingNullifierHash", "withdrawnValue", "stateRoot",
                    "stateTreeDepth", "ASPRoot", "ASPTreeDepth", "context">>,
     commitment |-> <<"commitment", "nullifierHash", "value", "label">>]
num_public(c) == Len(public_signal_names[c])

-----------------------------------------------------------------------------
(* The artifacts of a build.                                               *)

Changed(build, kinds) == build = 2 /\ change \in kinds

\* The constraints a graph or a key was compiled from.
System(c, build) ==
    [circuit |-> c,
     rows |-> IF Changed(build, {"rows", "vars", "public"}) THEN 2 ELSE 1,
     n_public |-> num_public(c) - (IF Changed(build, {"public"}) THEN 1 ELSE 0),
     n_vars |-> 1 + num_public(c) + Privates + (IF Changed(build, {"vars"}) THEN 1 ELSE 0)]

\* The setup a proving key and a verifying key belong to.
Setup(c, build) == [circuit |-> c, round |-> IF Changed(build, Changes \ {"nothing"}) THEN 2 ELSE 1]

\* The constraint matrices read_zkey returns.
matrices(build) ==
    LET system == System(circuit, build)
    IN  [num_instance_variables |-> system.n_public + 1,
         num_witness_variables |-> system.n_vars - system.n_public]

\* circom-witnesscalc: a value for each signal of the graph's circuit, the
\* constant 1 first.  It does not check the circuit's constraints.
calc_witness(statement) ==
    LET system == System(circuit, graph)
    IN  [k \in 1..system.n_vars |-> <<system.rows, statement, k - 1>>]

-----------------------------------------------------------------------------
Init ==
    /\ change \in Changes
    /\ circuit \in Circuits
    /\ artifacts \in [{"graph", "zkey", "vkey"} -> {1, Torn}]
    /\ loading = None
    /\ graph = None
    /\ zkey = None
    /\ vkey = None
    /\ proof = None
    /\ answer = [call |-> "none"]

\* pull-circuits writes a file, or is stopped while it does.
Pull(kind, content) ==
    /\ content # artifacts[kind]
    /\ artifacts' = [artifacts EXCEPT ![kind] = content]
    /\ answer' = [call |-> "none"]
    /\ UNCHANGED <<change, circuit, loading, prover, vkey, proof>>

Returns(call, result) ==
    /\ answer' = [call |-> call, result |-> result]
    /\ UNCHANGED <<change, circuit, artifacts>>

\* from_dir reads the graph, and then the key; either read may fail.
ReadGraph ==
    /\ loading = None
    /\ loading' = artifacts["graph"]
    /\ Returns("read_dir_file", "ok")
    /\ UNCHANGED <<prover, vkey, proof>>

\* Mutant: whatever there is of the key will do.
ReadAnyZkey ==
    /\ loading # None
    /\ graph' = loading
    /\ zkey' = artifacts["zkey"]
    /\ loading' = None
    /\ Returns("from_dir", "ok")
    /\ UNCHANGED <<vkey, proof>>

ReadZkey ==
    /\ loading # None
    /\ artifacts["zkey"] # Torn
    /\ graph' = loading
    /\ zkey' = artifacts["zkey"]
    /\ loading' = None
    /\ Returns("from_dir", "ok")
    /\ UNCHANGED <<vkey, proof>>

FromDirFails ==
    /\ loading' = None
    /\ \/ Returns("from_dir", "io")
       \/ loading # None /\ artifacts["zkey"] = Torn /\ Returns("from_dir", "artifact")
    /\ UNCHANGED <<prover, vkey, proof>>

\* The artifacts that were there when the process was built.
Bundled ==
    /\ loading = None
    /\ graph' = 1
    /\ zkey' = 1
    /\ Returns("bundled", "ok")
    /\ UNCHANGED <<loading, vkey, proof>>

VerifierFromDir ==
    /\ artifacts["vkey"] # Torn
    /\ vkey' = <<circuit, artifacts["vkey"]>>
    /\ Returns("from_vkey_json", "ok")
    /\ UNCHANGED <<loading, prover, proof>>

VerifierBundled(c) ==
    /\ vkey' = <<c, 1>>
    /\ Returns("bundled", "ok")
    /\ UNCHANGED <<loading, prover, proof>>

VerifierFails ==
    /\ \/ Returns("from_vkey_json", "io")
       \/ artifacts["vkey"] = Torn /\ Returns("from_vkey_json", "artifact")
    /\ UNCHANGED <<loading, prover, vkey, proof>>

-----------------------------------------------------------------------------
(* Proving.                                                                *)

CanProve == loading = None /\ zkey # None

num_inputs == matrices(zkey).num_instance_variables

\* Mutant: as if the reader's count of witness variables left out the constant.
n_vars_without_one == num_inputs + matrices(zkey).num_witness_variables

n_vars == num_inputs + matrices(zkey).num_witness_variables - 1

\* Mutant: as if the assignment began with the first signal.
leading_signals(assignment) == SubSeq(assignment, 1, num_inputs - 1)

public_signals(assignment) == SubSeq(assignment, 2, num_inputs)

\* create_proof_with_reduction_and_matrices: a proof comes out whether or not
\* the assignment satisfies the key's constraints.  binds are the public signals
\* it is a proof for.
Groth16Proof(statement, assignment) ==
    [setup |-> Setup(circuit, zkey),
     satisfied |-> statement = "valid" /\ System(circuit, graph) = System(circuit, zkey),
     binds |-> SubSeq(assignment, 2, System(circuit, zkey).n_public + 1),
     b |-> <<"c0", "c1">>,
     public_signals |-> public_signals(assignment)]

Prove(statement) ==
    /\ CanProve
    /\ graph # Torn
    /\ LET assignment == calc_witness(statement)
       IN  /\ Len(assignment) = n_vars
           /\ proof' = Groth16Proof(statement, assignment)
    /\ Returns("prove", "ok")
    /\ UNCHANGED <<loading, prover, vkey>>

\* calc_witness cannot read the graph, or the length is not that of the key.
ProveFails(statement) ==
    /\ CanProve
    /\ graph # Torn => Len(calc_witness(statement)) # n_vars
    /\ Returns("prove", "witness")
    /\ UNCHANGED <<loading, prover, vkey, proof>>

-----------------------------------------------------------------------------
(* Verifying, here and on chain.                                           *)

\* ark_groth16 with the key of a build, b in the order the verifier expects.
Verdict(c, build, b, signals) ==
    IF /\ proof.setup = Setup(c, build) /\ proof.satisfied
       /\ b = <<"c0", "c1">> /\ signals = proof.binds
    THEN "true" ELSE "false"

verify_with_pvk(c, build) ==
    IF Len(proof.public_signals) # System(c, build).n_public
    THEN "prove" ELSE Verdict(c, build, proof.b, proof.public_signals)

ProverVerifies ==
    /\ CanProve /\ proof # None
    /\ Returns("Prover::verify", verify_with_pvk(circuit, zkey))
    /\ UNCHANGED <<loading, prover, vkey, proof>>

VerifierVerifies ==
    /\ vkey # None /\ proof # None
    /\ Returns("Verifier::verify",
               IF Len(proof.public_signals) # System(vkey[1], vkey[2]).n_public
               THEN "input" ELSE verify_with_pvk(vkey[1], vkey[2]))
    /\ UNCHANGED <<loading, prover, vkey, proof>>

Swapped(pair) == <<pair[2], pair[1]>>

\* Mutant: the coordinates as in proof.json.
plain_calldata(p) == [b |-> p.b, public_signals |-> p.public_signals]

to_solidity_calldata(p) == [b |-> Swapped(p.b), public_signals |-> p.public_signals]

entry == [withdraw |-> "withdraw_calldata", commitment |-> "ragequit_calldata"]

\* withdraw_calldata or ragequit_calldata, which take so many signals and no
\* others, and the contract's verifier of that circuit, deployed with the first
\* build; its precompile takes c1 before c0.
Submit(c) ==
    /\ proof # None
    /\ LET calldata == to_solidity_calldata(proof)
       IN  Returns(entry[c],
                   IF Len(calldata.public_signals) # num_public(c) THEN "input"
                   ELSE Verdict(c, 1, Swapped(calldata.b), calldata.public_signals))
    /\ UNCHANGED <<loading, prover, vkey, proof>>

Next ==
    \/ \E kind \in DOMAIN artifacts, content \in Builds \cup {Torn} : Pull(kind, content)
    \/ ReadGraph \/ ReadZkey \/ FromDirFails \/ Bundled
    \/ VerifierFromDir \/ VerifierFails
    \/ \E statement \in {"valid", "invalid"} : Prove(statement) \/ ProveFails(statement)
    \/ ProverVerifies \/ VerifierVerifies
    \/ \E c \in Circuits : VerifierBundled(c) \/ Submit(c)

Spec == Init /\ [][Next]_vars

-----------------------------------------------------------------------------
TypeOK ==
    /\ change \in Changes /\ circuit \in Circuits
    /\ artifacts \in [{"graph", "zkey", "vkey"} -> Builds \cup {Torn}]
    /\ loading \in Builds \cup {Torn, None}
    /\ graph \in Builds \cup {Torn, None}
    /\ zkey \in Builds \cup {None} /\ (zkey = None <=> graph = None)
    /\ vkey \in (Circuits \X Builds) \cup {None}

(* A prover proves whatever its graph computes a witness of the right        *)
(* length for (prover.rs:62-74): artifacts of one build always, those of two *)
(* exactly when neither has a variable more.                               *)
ProvesWhatMatches ==
    answer.call = "prove" =>
        (answer.result = "ok" <=>
            graph # Torn /\ System(circuit, graph).n_vars = System(circuit, zkey).n_vars)

Holds(c, build) == proof.satisfied /\ proof.setup = Setup(c, build)

(* Both verifiers are right about every proof (prover.rs:91-101,             *)
(* verifier.rs:46-64): one made from a valid statement with a graph and a    *)
(* key of the same constraints, of one build or of two, verifies under the  *)
(* keys of its key's setup and no other; one made with a graph and a key of  *)
(* different constraints, which prove may return without an error, verifies *)
(* nowhere.                                                                 *)
VerdictsRight ==
    /\ answer.call = "Prover::verify" => (answer.result = "true" <=> Holds(circuit, zkey))
    /\ answer.call = "Verifier::verify" => (answer.result = "true" <=> Holds(vkey[1], vkey[2]))

(* The calldata of a proof is accepted on chain exactly when a verifier      *)
(* with the deployed key accepts the proof (proof.rs:55-66,                  *)
(* onchain.rs:125-175): through the conversions of signals and coordinates, *)
(* and for either entry of the contract, the wrong one included.            *)
ChainAgrees ==
    \A c \in Circuits :
        answer.call = entry[c] => (answer.result = "true" <=> Holds(c, 1))

-----------------------------------------------------------------------------
(* The inductive strengthening of the verdicts.                             *)

\* A proof carries the signals it binds, as many as the keys of its setup take.
ProofInv ==
    proof # None =>
        /\ proof.satisfied \in BOOLEAN
        /\ proof.b = <<"c0", "c1">>
        /\ proof.public_signals = proof.binds
        /\ \E build \in Builds :
              /\ proof.setup = Setup(circuit, build)
              /\ Len(proof.binds) = System(circuit, build).n_public

VerdictInv == ProofInv /\ VerdictsRight /\ ChainAgrees
=============================================================================
