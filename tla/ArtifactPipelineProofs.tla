------------------------- MODULE ArtifactPipelineProofs -------------------------
(***************************************************************************)
(* Proofs about ArtifactPipeline: for any refs, releases and number of     *)
(* runs, and whatever fails or is killed in between.                       *)
(***************************************************************************)
EXTENDS ArtifactPipeline, TLAPS

USE RefsAssumption, BoundsAssumption, NoFileAssumption

-----------------------------------------------------------------------------
(* The files and their contents.                                           *)

\* There are two circuits.
LEMMA CircuitFacts ==
    /\ Len(CIRCUITS) = 2
    /\ DOMAIN CIRCUITS = 1..2
    /\ CIRCUITS[1] = "commitment" /\ CIRCUITS[2] = "withdraw"
BY DEF CIRCUITS

\* The files of the first circuits, one circuit after the other.
LEMMA FilesFacts ==
    /\ FilesBefore(1) = {}
    /\ FilesBefore(2) = FilesOf(CIRCUITS[1])
    /\ FilesBefore(3) = FilesOf(CIRCUITS[1]) \cup FilesOf(CIRCUITS[2])
    /\ Files = FilesBefore(3)
<1>1. 1..(1 - 1) = {} /\ 1..(2 - 1) = {1} /\ 1..(3 - 1) = {1, 2}
  OBVIOUS
<1>2. FilesBefore(1) = {}
  BY <1>1 DEF FilesBefore
<1>3. FilesBefore(2) = FilesOf(CIRCUITS[1])
  BY <1>1 DEF FilesBefore
<1>4. FilesBefore(3) = FilesOf(CIRCUITS[1]) \cup FilesOf(CIRCUITS[2])
  BY <1>1 DEF FilesBefore
<1>5. Files = FilesBefore(3)
  BY CircuitFacts DEF Files
<1> QED BY <1>2, <1>3, <1>4, <1>5

\* The files of a circuit are new.
LEMMA FileFacts ==
    ASSUME NEW k \in 1..2
    PROVE  /\ FilesBefore(k + 1) = FilesBefore(k) \cup FilesOf(CIRCUITS[k])
           /\ FilesBefore(k + 1) \subseteq Files
           /\ \A kind \in {"graph", "zkey", "vkey"} :
                 <<CIRCUITS[k], kind>> \in FilesOf(CIRCUITS[k]) \ FilesBefore(k)
           /\ \A f \in FilesOf(CIRCUITS[k]) :
                 \E kind \in {"graph", "zkey", "vkey"} : f = <<CIRCUITS[k], kind>>
<1>1. CASE k = 1
  BY <1>1, FilesFacts, CircuitFacts DEF FilesOf
<1>2. CASE k = 2
  BY <1>2, FilesFacts, CircuitFacts DEF FilesOf
<1> QED BY <1>1, <1>2

LEMMA ContentFacts ==
    ASSUME NEW commit \in Commits
    PROVE  /\ Key(commit) \in Contents
           /\ \A version \in Versions : Graph(commit, version) \in Contents
BY DEF Contents, Key, Graph

LEMMA Absent == NoFile \in Contents /\ Torn \in Contents
BY DEF Contents

\* What a process starts with.
LEMMA Reset ==
    /\ 1 \in DOMAIN CIRCUITS
    /\ \E k \in 1..(Len(CIRCUITS) + 1) : NoEntries \in [FilesBefore(k) -> Contents]
<1>1. NoEntries \in [FilesBefore(1) -> Contents]
  BY FilesFacts DEF NoEntries
<1> QED BY <1>1, CircuitFacts

-----------------------------------------------------------------------------
LEMMA InitIInv == Init => IInv
<1> SUFFICES ASSUME Init PROVE IInv
  OBVIOUS
<1> USE DEF Init
<1>1. TypeOK
  <2>1. artifacts \in [Files -> Contents]
    BY Absent
  <2>2. \E k \in 1..(Len(CIRCUITS) + 1) : manifest_circuits \in [FilesBefore(k) -> Contents]
    BY Reset
  <2>3. circuit \in DOMAIN CIRCUITS
    BY Reset
  <2>4. upstream \in [Refs -> 0..MaxPushes] /\ asked \in 0..MaxPushes /\ runs \in 0..MaxRuns
    OBVIOUS
  <2>5. custom \in BOOLEAN /\ silent \in BOOLEAN
    OBVIOUS
  <2> QED BY <2>1, <2>2, <2>3, <2>4, <2>5 DEF TypeOK, Steps
<1>2. ManifestInv
  BY DEF ManifestInv
<1>3. RunInv
  BY DEF RunInv
<1>4. StagedIsFresh
  BY DEF StagedIsFresh
<1> QED BY <1>1, <1>2, <1>3, <1>4 DEF IInv

-----------------------------------------------------------------------------
(* Every step preserves the invariant.                                     *)

\* Steps between runs, and the decision whether to run.
LEMMA OutsideIInv ==
    ASSUME IInv,
           \/ \E version \in Versions : Bump(version)
           \/ \E branch \in Branches : Push(branch)
           \/ \E ref \in Refs : UpToDate(ref) \/ \E force \in BOOLEAN : Begin(force, ref)
           \/ UNCHANGED vars
    PROVE  IInv'
<1> USE DEF IInv
<1>1. ASSUME NEW version \in Versions, Bump(version) PROVE IInv'
  <2> USE <1>1 DEF Bump, disk, control, history
  <2>1. TypeOK'
    BY DEF TypeOK
  <2>2. ManifestInv' /\ RunInv' /\ StagedIsFresh'
    BY DEF ManifestInv, RunInv, StagedIsFresh, manifest_is_current
  <2> QED BY <2>1, <2>2
<1>2. ASSUME NEW branch \in Branches, Push(branch) PROVE IInv'
  <2> USE <1>2 DEF Push, disk, control, history
  <2>1. /\ upstream' \in [Refs -> 0..MaxPushes]
        /\ \A ref \in Refs : upstream[ref] <= upstream'[ref]
    BY DEF TypeOK
  <2>2. TypeOK'
    BY <2>1 DEF TypeOK
  <2>3. ManifestInv' /\ StagedIsFresh'
    BY DEF ManifestInv, StagedIsFresh, manifest_is_current
  <2>4. core_ref \in Refs /\ asked \in Nat /\ upstream[core_ref] \in Nat
        /\ upstream'[core_ref] \in Nat
    BY <2>1 DEF TypeOK
  <2>5. step # "idle" => asked <= upstream'[core_ref]
    BY <2>1, <2>4 DEF RunInv
  <2>6. RunInv'
    BY <2>5 DEF RunInv
  <2> QED BY <2>2, <2>3, <2>6
<1>3. ASSUME NEW ref \in Refs, UpToDate(ref) PROVE IInv'
  <2> USE <1>3 DEF UpToDate, disk, history
  <2>1. TypeOK'
    BY DEF TypeOK
  <2>2. ManifestInv' /\ RunInv' /\ StagedIsFresh'
    BY DEF ManifestInv, RunInv, StagedIsFresh
  <2> QED BY <2>1, <2>2
<1>4. ASSUME NEW ref \in Refs, NEW force \in BOOLEAN, Begin(force, ref) PROVE IInv'
  <2> USE <1>4 DEF Begin, GoTo, disk
  <2>1. runs' \in 0..MaxRuns /\ upstream[ref] \in 0..MaxPushes
    BY DEF TypeOK
  <2>2. TypeOK'
    BY <2>1 DEF TypeOK, Steps
  <2>3. ManifestInv' /\ StagedIsFresh'
    BY DEF ManifestInv, StagedIsFresh
  <2>4. RunInv'
    BY <2>1 DEF RunInv
  <2> QED BY <2>2, <2>3, <2>4
<1>5. ASSUME UNCHANGED vars PROVE IInv'
  <2> USE <1>5 DEF vars, disk, control, history
  <2>1. TypeOK'
    BY DEF TypeOK
  <2>2. ManifestInv' /\ RunInv' /\ StagedIsFresh'
    BY DEF ManifestInv, RunInv, StagedIsFresh, manifest_is_current
  <2> QED BY <2>1, <2>2
<1> QED BY <1>1, <1>2, <1>3, <1>4, <1>5

\* The build tool and the two clones.
LEMMA SourcesIInv ==
    ASSUME IInv,
           \/ \E version \in Versions : UseCustom(version)
           \/ UseCached \/ Install
           \/ ClearClone \/ CloneCore \/ CloneCircomlib
    PROVE  IInv'
<1> USE DEF IInv
<1>1. ASSUME NEW version \in Versions, Toolbox(version),
             tool' \in Versions \cup {NoFile}, custom' \in BOOLEAN
      PROVE  IInv'
  <2> USE <1>1 DEF Toolbox, GoTo
  <2>1. TypeOK'
    BY DEF TypeOK, Steps
  <2>2. ManifestInv'
    BY DEF ManifestInv
  <2>3. RunInv'
    BY DEF RunInv
  <2>4. StagedIsFresh'
    BY DEF RunInv, StagedIsFresh
  <2> QED BY <2>1, <2>2, <2>3, <2>4
<1>2. ASSUME NEW version \in Versions, UseCustom(version) PROVE IInv'
  BY <1>1, <1>2 DEF UseCustom, TypeOK
<1>3. CASE UseCached
  BY <1>1, <1>3 DEF UseCached, TypeOK
<1>4. CASE Install
  BY <1>1, <1>4 DEF Install, TypeOK
<1>5. CASE ClearClone
  <2> USE <1>5 DEF ClearClone, InWork, GoTo
  <2>1. TypeOK'
    BY DEF TypeOK, Steps
  <2>2. ManifestInv' /\ RunInv' /\ StagedIsFresh'
    BY DEF ManifestInv, RunInv, StagedIsFresh
  <2> QED BY <2>1, <2>2
<1>6. CASE CloneCore
  <2> USE <1>6 DEF CloneCore, InWork, GoTo
  <2>1. core_ref \in Refs /\ upstream[core_ref] \in 0..MaxPushes
    BY DEF TypeOK
  <2>2. core_dir' \in Commits /\ core_dir'.ref = core_ref
        /\ core_dir'.at = upstream[core_ref]
    BY <2>1 DEF Commits
  <2>3. TypeOK'
    BY <2>2 DEF TypeOK, Steps
  <2>4. ManifestInv' /\ StagedIsFresh'
    BY DEF ManifestInv, RunInv, StagedIsFresh
  <2>5. RunInv'
    BY <2>2 DEF RunInv
  <2> QED BY <2>3, <2>4, <2>5
<1>7. CASE CloneCircomlib
  <2> USE <1>7 DEF CloneCircomlib, InWork, GoTo
  <2>1. TypeOK'
    BY DEF TypeOK, Steps
  <2>2. ManifestInv' /\ StagedIsFresh'
    BY DEF ManifestInv, RunInv, StagedIsFresh
  <2>3. circuit = 1
    BY DEF RunInv
  <2>4. manifest_circuits \in [FilesBefore(1) -> Contents]
    BY FilesFacts DEF RunInv, NoEntries
  <2>5. 1 - 1 + 1 = 1 /\ FilesBefore(1) = {} /\ 1..(1 - 1) = {}
    BY FilesFacts
  <2>6. RunInv'
    BY <2>3, <2>4, <2>5 DEF RunInv, BuiltFrom
  <2> QED BY <2>1, <2>2, <2>6
<1> QED BY <1>2, <1>3, <1>4, <1>5, <1>6, <1>7

\* What writing one artifact of the circuit in work leaves alone.
LEMMA StageFacts ==
    ASSUME TypeOK,
           NEW kind \in {"graph", "zkey", "vkey"}, NEW content \in Contents,
           Stage(kind, content)
    PROVE  /\ artifacts' \in [Files -> Contents]
           /\ artifacts'[<<CIRCUITS[circuit], kind>>] = content
           /\ \A other \in {"graph", "zkey", "vkey"} \ {kind} :
                 artifacts'[<<CIRCUITS[circuit], other>>]
                    = artifacts[<<CIRCUITS[circuit], other>>]
           /\ \A f \in FilesBefore(circuit) : artifacts'[f] = artifacts[f]
           /\ \A commit, version :
                 BuiltFrom(artifacts, circuit - 1, commit, version) =>
                    BuiltFrom(artifacts', circuit - 1, commit, version)
<1>1. circuit \in 1..2 /\ artifacts \in [Files -> Contents]
  BY CircuitFacts DEF TypeOK
<1>2. \A k \in {"graph", "zkey", "vkey"} :
         <<CIRCUITS[circuit], k>> \in Files \ FilesBefore(circuit)
  BY <1>1, FileFacts
<1>3. FilesBefore(circuit) \subseteq Files
  BY <1>1, FileFacts
<1>4. /\ artifacts' \in [Files -> Contents]
      /\ artifacts'[<<CIRCUITS[circuit], kind>>] = content
      /\ \A f \in Files \ {<<CIRCUITS[circuit], kind>>} : artifacts'[f] = artifacts[f]
  BY <1>1, <1>2 DEF Stage
<1>5. \A other \in {"graph", "zkey", "vkey"} \ {kind} :
         artifacts'[<<CIRCUITS[circuit], other>>] = artifacts[<<CIRCUITS[circuit], other>>]
  BY <1>2, <1>4
<1>6. \A f \in FilesBefore(circuit) : artifacts'[f] = artifacts[f]
  BY <1>2, <1>3, <1>4
<1>7. \A k \in 1..(circuit - 1), other \in {"graph", "zkey", "vkey"} :
         <<CIRCUITS[k], other>> \in FilesBefore(circuit)
  <2> SUFFICES ASSUME NEW k \in 1..(circuit - 1) PROVE circuit = 2 /\ k = 1
    BY FilesFacts, CircuitFacts DEF FilesOf
  <2> QED BY <1>1
<1>8. \A commit, version :
         BuiltFrom(artifacts, circuit - 1, commit, version) =>
            BuiltFrom(artifacts', circuit - 1, commit, version)
  BY <1>6, <1>7 DEF BuiltFrom
<1> QED BY <1>4, <1>5, <1>6, <1>8

\* The artifacts and their manifest.
LEMMA StagingIInv ==
    ASSUME IInv,
           \/ CompileGraph \/ CopyZkey \/ CopyVkey
           \/ WriteManifest \/ Staged \/ Stop
    PROVE  IInv'
<1> USE DEF IInv
<1>1. CASE CompileGraph
  <2> USE <1>1 DEF CompileGraph, InWork, GoTo
  <2>1. circuit \in 1..2 /\ step = "graph" /\ core_dir \in Commits /\ build_circuit \in Versions
    BY CircuitFacts DEF TypeOK, RunInv
  <2>2. /\ artifacts' \in [Files -> Contents]
        /\ \A f \in FilesBefore(circuit) : artifacts'[f] = artifacts[f]
        /\ \A commit, version :
              BuiltFrom(artifacts, circuit - 1, commit, version) =>
                 BuiltFrom(artifacts', circuit - 1, commit, version)
        /\ ~silent' => artifacts'[<<CIRCUITS[circuit], "graph">>] = Graph(core_dir, build_circuit)
    BY <2>1, ContentFacts, StageFacts DEF TypeOK
  <2>3. silent' \in BOOLEAN /\ (silent => silent')
    BY DEF TypeOK
  <2>4. TypeOK'
    BY <2>2, <2>3 DEF TypeOK, Steps
  <2>5. ManifestInv' /\ StagedIsFresh'
    BY <2>3 DEF ManifestInv, RunInv, StagedIsFresh
  <2>6. RunInv'
    BY <2>1, <2>2, <2>3 DEF RunInv
  <2> QED BY <2>4, <2>5, <2>6
<1>2. CASE CopyZkey
  <2> USE <1>2 DEF CopyZkey, InWork, GoTo
  <2>1. circuit \in 1..2 /\ step = "zkey" /\ core_dir \in Commits
    BY CircuitFacts DEF TypeOK, RunInv
  <2>2. /\ artifacts' \in [Files -> Contents]
        /\ \A f \in FilesBefore(circuit) : artifacts'[f] = artifacts[f]
        /\ \A commit, version :
              BuiltFrom(artifacts, circuit - 1, commit, version) =>
                 BuiltFrom(artifacts', circuit - 1, commit, version)
        /\ artifacts'[<<CIRCUITS[circuit], "graph">>] = artifacts[<<CIRCUITS[circuit], "graph">>]
        /\ artifacts'[<<CIRCUITS[circuit], "zkey">>] = Key(core_dir)
    BY <2>1, ContentFacts, StageFacts
  <2>3. TypeOK'
    BY <2>2 DEF TypeOK, Steps
  <2>4. ManifestInv' /\ StagedIsFresh'
    BY DEF ManifestInv, RunInv, StagedIsFresh
  <2>5. RunInv'
    BY <2>1, <2>2 DEF RunInv
  <2> QED BY <2>3, <2>4, <2>5
<1>3. CASE CopyVkey
  <2> USE <1>3 DEF CopyVkey, InWork, GoTo
  <2>1. /\ circuit \in 1..2 /\ step = "vkey" /\ core_dir \in Commits
        /\ manifest_circuits \in [FilesBefore(circuit) -> Contents]
        /\ \A f \in FilesBefore(circuit) : artifacts[f] = manifest_circuits[f]
        /\ artifacts[<<CIRCUITS[circuit], "zkey">>] = Key(core_dir)
        /\ ~silent => /\ BuiltFrom(artifacts, circuit - 1, core_dir, build_circuit)
                      /\ artifacts[<<CIRCUITS[circuit], "graph">>] = Graph(core_dir, build_circuit)
    BY CircuitFacts DEF TypeOK, RunInv
  <2>2. /\ artifacts' \in [Files -> Contents]
        /\ \A f \in FilesBefore(circuit) : artifacts'[f] = artifacts[f]
        /\ \A commit, version :
              BuiltFrom(artifacts, circuit - 1, commit, version) =>
                 BuiltFrom(artifacts', circuit - 1, commit, version)
        /\ artifacts'[<<CIRCUITS[circuit], "graph">>] = artifacts[<<CIRCUITS[circuit], "graph">>]
        /\ artifacts'[<<CIRCUITS[circuit], "zkey">>] = artifacts[<<CIRCUITS[circuit], "zkey">>]
        /\ artifacts'[<<CIRCUITS[circuit], "vkey">>] = Key(core_dir)
    BY <2>1, ContentFacts, StageFacts
  <2>3. FilesBefore(circuit + 1) \subseteq Files
    BY <2>1, FileFacts
  <2>4. /\ manifest_circuits' \in [FilesBefore(circuit + 1) -> Contents]
        /\ \A f \in FilesBefore(circuit + 1) : artifacts'[f] = manifest_circuits'[f]
    BY <2>1, <2>2, <2>3
  <2>5. ~silent => BuiltFrom(artifacts', circuit, core_dir, build_circuit)
    <3> SUFFICES ASSUME ~silent, NEW k \in 1..circuit
                 PROVE  /\ artifacts'[<<CIRCUITS[k], "graph">>] = Graph(core_dir, build_circuit)
                        /\ artifacts'[<<CIRCUITS[k], "zkey">>] = Key(core_dir)
                        /\ artifacts'[<<CIRCUITS[k], "vkey">>] = Key(core_dir)
      BY DEF BuiltFrom
    <3>1. CASE k = circuit
      BY <3>1, <2>1, <2>2
    <3>2. CASE k \in 1..(circuit - 1)
      BY <3>2, <2>1, <2>2 DEF BuiltFrom
    <3> QED BY <3>1, <3>2, <2>1
  <2>6. ManifestInv' /\ StagedIsFresh'
    BY DEF ManifestInv, RunInv, StagedIsFresh
  <2>7. CASE circuit < Len(CIRCUITS) /\ circuit' = circuit + 1 /\ step' = "graph"
    <3>1. circuit' \in 1..2 /\ circuit' - 1 = circuit /\ circuit' - 1 + 1 = circuit + 1
      BY <2>1, <2>7, CircuitFacts
    <3>2. TypeOK'
      BY <2>2, <2>4, <2>7, <3>1, CircuitFacts DEF TypeOK, Steps
    <3>3. RunInv'
      BY <2>1, <2>2, <2>4, <2>5, <2>7, <3>1 DEF RunInv
    <3> QED BY <2>6, <3>2, <3>3
  <2>8. CASE circuit = Len(CIRCUITS) /\ circuit' = circuit /\ step' = "manifest"
    <3>1. circuit = 2
      BY <2>8, CircuitFacts
    <3>2. TypeOK'
      BY <2>2, <2>4, <2>8, <3>1, CircuitFacts DEF TypeOK, Steps
    <3>3. RunInv'
      BY <2>1, <2>2, <2>4, <2>5, <2>8, <3>1, CircuitFacts DEF RunInv
    <3> QED BY <2>6, <3>2, <3>3
  <2> QED BY <2>7, <2>8
<1>4. CASE WriteManifest
  <2> USE <1>4 DEF WriteManifest, InWork, GoTo
  <2>1. /\ step = "manifest" /\ core_dir \in Commits /\ core_dir.ref = core_ref
        /\ manifest_circuits \in [Files -> Contents]
        /\ \A f \in Files : artifacts[f] = manifest_circuits[f]
        /\ ~silent => BuiltFrom(artifacts, 2, core_dir, build_circuit)
    BY CircuitFacts, FilesFacts DEF RunInv
  <2>2. /\ manifest' \in Manifests
        /\ manifest'.git_ref = core_ref /\ manifest'.circuits = manifest_circuits
    BY <2>1 DEF Manifests, TypeOK
  <2>3. TypeOK'
    BY <2>2 DEF TypeOK, Steps
  <2>4. \A k \in 1..2, kind \in {"graph", "zkey", "vkey"} : <<CIRCUITS[k], kind>> \in Files
    BY FileFacts
  <2>5. ~silent => BuiltFrom(manifest_circuits, 2, core_dir, build_circuit)
    BY <2>1, <2>4 DEF BuiltFrom
  <2>6. \E n \in 0..MaxPushes : core_dir = [ref |-> core_ref, at |-> n]
    BY <2>1 DEF Commits
  <2>7. ~silent => \E n \in 0..MaxPushes, version \in Versions :
           BuiltFrom(manifest_circuits, 2, [ref |-> core_ref, at |-> n], version)
    BY <2>5, <2>6 DEF TypeOK
  <2>8. ManifestInv'
    BY <2>2, <2>7, CircuitFacts DEF ManifestInv
  <2>9. StagedIsFresh'
    BY DEF RunInv, StagedIsFresh
  <2>10. RunInv'
    BY <2>2 DEF RunInv
  <2> QED BY <2>3, <2>8, <2>9, <2>10
<1>5. CASE Staged
  <2> USE <1>5 DEF Staged, Exit, InWork, GoTo
  <2>1. /\ core_dir \in Commits /\ core_dir.ref = core_ref /\ asked <= core_dir.at
        /\ manifest \in Manifests
        /\ manifest.git_ref = core_ref /\ manifest.circuits = manifest_circuits
        /\ \A f \in Files : artifacts[f] = manifest_circuits[f]
        /\ ~silent => BuiltFrom(artifacts, 2, core_dir, build_circuit)
    BY CircuitFacts, FilesFacts DEF RunInv
  <2>2. TypeOK'
    BY <2>1, Reset DEF TypeOK, Steps
  <2>3. ManifestInv' /\ RunInv'
    BY DEF ManifestInv, RunInv
  <2>4. manifest_is_current(core_ref)
    BY <2>1 DEF manifest_is_current
  <2>5. ~silent => \E n \in asked..MaxPushes :
           BuiltFrom(artifacts, 2, [ref |-> core_ref, at |-> n], build_circuit)
    <3>1. core_dir.at \in asked..MaxPushes /\ core_dir = [ref |-> core_ref, at |-> core_dir.at]
      BY <2>1 DEF Commits, TypeOK
    <3> QED BY <2>1, <3>1
  <2>6. StagedIsFresh'
    BY <2>4, <2>5, CircuitFacts DEF StagedIsFresh, manifest_is_current, BuiltFrom
  <2> QED BY <2>2, <2>3, <2>6
<1>6. CASE Stop
  <2> USE <1>6 DEF Stop, Exit, InWork, GoTo
  <2>1. artifacts' \in [Files -> Contents]
    BY StageFacts, Absent DEF TypeOK
  <2>2. manifest' \in {manifest, Torn} /\ core_dir' \in {core_dir, Torn}
    BY DEF TornOr
  <2>3. TypeOK'
    BY <2>1, <2>2, Reset DEF TypeOK, Steps
  <2>4. ManifestInv' /\ RunInv' /\ StagedIsFresh'
    BY <2>2 DEF ManifestInv, RunInv, StagedIsFresh
  <2> QED BY <2>3, <2>4
<1> QED BY <1>1, <1>2, <1>3, <1>4, <1>5, <1>6

LEMMA NextIInv == IInv /\ [Next]_vars => IInv'
BY OutsideIInv, SourcesIInv, StagingIInv DEF Next

LEMMA SpecIInv == Spec => []IInv
BY InitIInv, NextIInv, PTL DEF Spec

-----------------------------------------------------------------------------
\* pull-circuits keeps its files and its state well typed, whatever happens.
THEOREM PipelineTypeCorrect == Spec => []TypeOK
<1>1. IInv => TypeOK
  BY DEF IInv
<1> QED BY <1>1, SpecIInv, PTL

\* However many runs failed or were killed, and wherever, the artifacts that
\* pull-circuits calls up to date come from one commit of the ref, and from one
\* build-circuit.
THEOREM UpToDateArtifactsAreOneBuild == Spec => []UpToDateIsOneBuild
<1>1. IInv => UpToDateIsOneBuild
  <2> SUFFICES ASSUME IInv, ~silent, NEW ref \in Refs, manifest_is_current(ref)
               PROVE  \E n \in 0..MaxPushes, version \in Versions :
                         BuiltFrom(artifacts, Len(CIRCUITS), [ref |-> ref, at |-> n], version)
    BY DEF UpToDateIsOneBuild
  <2>1. PICK n \in 0..MaxPushes, version \in Versions :
           BuiltFrom(manifest.circuits, 2, [ref |-> ref, at |-> n], version)
    BY CircuitFacts DEF IInv, ManifestInv, manifest_is_current
  <2>2. \A k \in 1..2, kind \in {"graph", "zkey", "vkey"} : <<CIRCUITS[k], kind>> \in Files
    BY FileFacts
  <2>3. BuiltFrom(artifacts, 2, [ref |-> ref, at |-> n], version)
    BY <2>1, <2>2 DEF BuiltFrom, manifest_is_current
  <2> QED BY <2>3, CircuitFacts
<1> QED BY <1>1, SpecIInv, PTL

\* A run that rebuilds stages one commit of its ref, no older than the run, and
\* leaves nothing to do for the next.
THEOREM StagedArtifactsAreFresh == Spec => []StagedIsFresh
<1>1. IInv => StagedIsFresh
  BY DEF IInv
<1> QED BY <1>1, SpecIInv, PTL
=============================================================================
