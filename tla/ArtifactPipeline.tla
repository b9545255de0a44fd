---------------------------- MODULE ArtifactPipeline ----------------------------
(***************************************************************************)
(* cargo xtask pull-circuits (xtask/src/pull_circuits.rs): runs of the      *)
(* task, one after the other, on the artifacts they leave on disk.  A run  *)
(* may fail or be killed in any step and tear the file it is writing; the  *)
(* upstream branch and the pinned releases change between runs.  A file is *)
(* its provenance, and a sha256 is the content it was computed from.       *)
(***************************************************************************)
EXTENDS Integers, Sequences

CONSTANTS
    Refs,          \* git refs of privacy-pools-core a run may ask for
    Branches,      \* those that are branches, and may move
    Versions,      \* releases of circom-witnesscalc
    MaxPushes,     \* bound: commits pushed to a branch
    MaxRuns,       \* bound: runs that rebuild
    NoFile,        \* no file of that name
    Torn           \* a file of which only a part was written

ASSUME RefsAssumption == Branches \subseteq Refs
ASSUME BoundsAssumption == MaxPushes \in Nat /\ MaxRuns \in Nat

VARIABLES
    WITNESSCALC_TAG,    \* the release the task's source pins
    upstream,           \* per ref: the commit it names
    artifacts,          \* per file of artifacts/: its content
    manifest,           \* artifacts/manifest.json
    tool,               \* the cached build-circuit: its release
    core_dir,           \* the clone in the work directory
    step,               \* what the run does next
    core_ref,           \* the ref the run was asked for
    build_circuit,      \* the release of the build-circuit the run uses
    circuit,            \* the circuit in work, from 1
    manifest_circuits,  \* the manifest's entries so far
    runs,               \* runs that rebuilt so far
    result,             \* what the last run returned
    asked,              \* history: the commit core_ref named when the run began
    custom,             \* history: the run used $BUILD_CIRCUIT
    silent              \* history: a build-circuit claimed a graph it never wrote

disk == <<artifacts, manifest, tool, core_dir>>
control == <<step, core_ref, build_circuit, circuit, manifest_circuits, runs, result>>
history == <<asked, custom, silent>>
vars == <<WITNESSCALC_TAG, upstream, disk, control, history>>

CIRCUITS == <<"commitment", "withdraw">>
FilesOf(name) == {name} \X {"graph", "zkey", "vkey"}
FilesBefore(n) == UNION {FilesOf(CIRCUITS[k]) : k \in 1..(n - 1)}
Files == FilesBefore(Len(CIRCUITS) + 1)

\* The manifest's entries before the first circuit.
NoEntries == [f \in FilesBefore(1) |-> NoFile]

Graph(commit, version) == [commit |-> commit, tool |-> version]
Key(commit) == [commit |-> commit]

Commits == [ref: Refs, at: 0..MaxPushes]
Contents == [commit: Commits, tool: Versions] \cup [commit: Commits] \cup {NoFile, Torn}
Manifests == [git_ref: Refs, witnesscalc_version: Versions, circuits: [Files -> Contents]]

ASSUME NoFileAssumption == NoFile \notin Manifests /\ Torn \notin Manifests

Init ==
    /\ WITNESSCALC_TAG \in Versions
    /\ upstream = [r \in Refs |-> 0]
    /\ artifacts = [f \in Files |-> NoFile]
    /\ manifest = NoFile
    /\ tool = NoFile
    /\ core_dir = NoFile
    /\ step = "idle"
    /\ core_ref \in Refs
    /\ build_circuit \in Versions
    /\ circuit = 1
    /\ manifest_circuits = NoEntries
    /\ runs = 0
    /\ result = "none"
    /\ asked = 0
    /\ custom = FALSE
    /\ silent = FALSE

-----------------------------------------------------------------------------
(* The world between and around the runs.                                  *)

\* Somebody pins another release and runs the task again.
Bump(version) ==
    /\ step = "idle"
    /\ version # WITNESSCALC_TAG
    /\ WITNESSCALC_TAG' = version
    /\ UNCHANGED <<upstream, disk, control, history>>

Push(branch) ==
    /\ upstream[branch] < MaxPushes
    /\ upstream' = [upstream EXCEPT ![branch] = @ + 1]
    /\ UNCHANGED <<WITNESSCALC_TAG, disk, control, history>>

-----------------------------------------------------------------------------
(* A run.                                                                  *)

\* Mutant: only the ref is compared.
manifest_targets(git_ref) ==
    /\ manifest \notin {NoFile, Torn}
    /\ manifest.git_ref = git_ref

\* There is a manifest, it targets the ref, and each file has the content whose
\* hash it records.
manifest_is_current(git_ref) ==
    /\ manifest \notin {NoFile, Torn}
    /\ manifest.git_ref = git_ref
    /\ \A f \in Files : artifacts[f] = manifest.circuits[f]

GoTo(next) == step' = next

UpToDate(ref) ==
    /\ step = "idle"
    /\ manifest_is_current(ref)
    /\ result' = "up_to_date"
    /\ core_ref' = ref
    /\ UNCHANGED <<WITNESSCALC_TAG, upstream, disk, step, build_circuit, circuit,
                   manifest_circuits, runs, history>>

Begin(force, ref) ==
    /\ step = "idle"
    /\ force \/ ~manifest_is_current(ref)
    /\ runs < MaxRuns
    /\ runs' = runs + 1
    /\ core_ref' = ref
    /\ result' = "none"
    /\ asked' = upstream[ref]
    /\ GoTo("tools")
    /\ UNCHANGED <<WITNESSCALC_TAG, upstream, disk, build_circuit, circuit,
                   manifest_circuits, custom, silent>>

Toolbox(version) ==
    /\ step = "tools"
    /\ build_circuit' = version
    /\ GoTo("clear")
    /\ UNCHANGED <<WITNESSCALC_TAG, upstream, artifacts, manifest, core_dir, core_ref,
                   circuit, manifest_circuits, runs, result, asked, silent>>

\* ensure_build_circuit: $BUILD_CIRCUIT if it is set, else the cached binary if
\* there is one, else cargo install of the pinned release, locked or not.
UseCustom(version) == Toolbox(version) /\ custom' = TRUE /\ UNCHANGED tool
UseCached == tool # NoFile /\ Toolbox(tool) /\ custom' = FALSE /\ UNCHANGED tool
Install ==
    /\ tool = NoFile
    /\ Toolbox(WITNESSCALC_TAG)
    /\ tool' = WITNESSCALC_TAG
    /\ custom' = FALSE

InWork(next) ==
    /\ GoTo(next)
    /\ UNCHANGED <<WITNESSCALC_TAG, upstream, tool, core_ref, build_circuit, runs, asked,
                   custom>>

\* Mutant: a clone that an earlier run left is used again.
KeepClone ==
    /\ step = "clear"
    /\ InWork(IF core_dir \in {NoFile, Torn} THEN "core" ELSE "circomlib")
    /\ core_dir' = IF core_dir = Torn THEN NoFile ELSE core_dir
    /\ UNCHANGED <<artifacts, manifest, circuit, manifest_circuits, result, silent>>

ClearClone ==
    /\ step = "clear"
    /\ InWork("core")
    /\ core_dir' = NoFile
    /\ UNCHANGED <<artifacts, manifest, circuit, manifest_circuits, result, silent>>

\* clone_core: the commit the ref names now.
CloneCore ==
    /\ step = "core"
    /\ InWork("circomlib")
    /\ core_dir' = [ref |-> core_ref, at |-> upstream[core_ref]]
    /\ UNCHANGED <<artifacts, manifest, circuit, manifest_circuits, result, silent>>

\* clone_circomlib, a pinned release, into the clone's node_modules.
CloneCircomlib ==
    /\ step = "circomlib"
    /\ InWork("graph")
    /\ UNCHANGED <<artifacts, manifest, core_dir, circuit, manifest_circuits, result, silent>>

Stage(kind, content) ==
    artifacts' = [artifacts EXCEPT ![<<CIRCUITS[circuit], kind>>] = content]

\* The wrapper and compile_graph.  A build-circuit that reports success without
\* writing its output goes unnoticed where a file of that name is there already.
CompileGraph ==
    /\ step = "graph"
    /\ InWork("zkey")
    /\ \/ /\ Stage("graph", Graph(core_dir, build_circuit))
          /\ UNCHANGED silent
       \/ /\ artifacts[<<CIRCUITS[circuit], "graph">>] # NoFile
          /\ silent' = TRUE
          /\ UNCHANGED artifacts
    /\ UNCHANGED <<manifest, core_dir, circuit, manifest_circuits, result>>

CopyZkey ==
    /\ step = "zkey"
    /\ InWork("vkey")
    /\ Stage("zkey", Key(core_dir))
    /\ UNCHANGED <<manifest, core_dir, circuit, manifest_circuits, result, silent>>

\* Mutant: goes on to a circuit after the last.
CopyVkeyPastLast ==
    /\ step = "vkey"
    /\ Stage("vkey", Key(core_dir))
    /\ manifest_circuits' =
          [f \in FilesBefore(circuit + 1) |->
              IF f \in FilesBefore(circuit) THEN manifest_circuits[f] ELSE artifacts'[f]]
    /\ circuit' = circuit + 1
    /\ InWork(IF circuit <= Len(CIRCUITS) THEN "graph" ELSE "manifest")
    /\ UNCHANGED <<manifest, core_dir, result, silent>>

\* The last file of the circuit, and its manifest entry from what is on disk.
CopyVkey ==
    /\ step = "vkey"
    /\ Stage("vkey", Key(core_dir))
    /\ manifest_circuits' =
          [f \in FilesBefore(circuit + 1) |->
              IF f \in FilesBefore(circuit) THEN manifest_circuits[f] ELSE artifacts'[f]]
    /\ \/ circuit < Len(CIRCUITS) /\ circuit' = circuit + 1 /\ InWork("graph")
       \/ circuit = Len(CIRCUITS) /\ UNCHANGED circuit /\ InWork("manifest")
    /\ UNCHANGED <<manifest, core_dir, result, silent>>

WriteManifest ==
    /\ step = "manifest"
    /\ InWork("cleanup")
    /\ manifest' = [git_ref |-> core_ref, witnesscalc_version |-> WITNESSCALC_TAG,
                    circuits |-> manifest_circuits]
    /\ UNCHANGED <<artifacts, core_dir, circuit, manifest_circuits, result, silent>>

\* The process ends, and with it what it held in memory.
Exit(res) ==
    /\ InWork("idle")
    /\ result' = res
    /\ circuit' = 1
    /\ manifest_circuits' = NoEntries

\* The clone stays with --keep-work, and wholly or in part where removing it
\* fails: that error is ignored.
Staged ==
    /\ step = "cleanup"
    /\ Exit("staged")
    /\ core_dir' \in {NoFile, Torn, core_dir}
    /\ UNCHANGED <<artifacts, manifest, silent>>

TornOr(file) == {file, Torn}

\* The step fails, or the run is killed in it: what it was writing may be torn.
Stop ==
    /\ step # "idle"
    /\ Exit("failed")
    /\ core_dir' \in IF step \in {"clear", "core", "circomlib", "cleanup"}
                     THEN TornOr(core_dir) ELSE {core_dir}
    /\ manifest' \in IF step = "manifest" THEN TornOr(manifest) ELSE {manifest}
    /\ \/ UNCHANGED artifacts
       \/ step \in {"graph", "zkey", "vkey"} /\ Stage(step, Torn)
    /\ UNCHANGED silent

Next ==
    \/ \E version \in Versions : Bump(version) \/ UseCustom(version)
    \/ \E branch \in Branches : Push(branch)
    \/ \E ref \in Refs : UpToDate(ref) \/ \E force \in BOOLEAN : Begin(force, ref)
    \/ UseCached \/ Install
    \/ ClearClone \/ CloneCore \/ CloneCircomlib
    \/ CompileGraph \/ CopyZkey \/ CopyVkey \/ WriteManifest
    \/ Staged
    \/ Stop

Spec == Init /\ [][Next]_vars

-----------------------------------------------------------------------------
Steps == {"idle", "tools", "clear", "core", "circomlib", "graph", "zkey", "vkey",
          "manifest", "cleanup"}

TypeOK ==
    /\ WITNESSCALC_TAG \in Versions /\ build_circuit \in Versions
    /\ upstream \in [Refs -> 0..MaxPushes] /\ asked \in 0..MaxPushes
    /\ artifacts \in [Files -> Contents]
    /\ manifest \in Manifests \cup {NoFile, Torn}
    /\ tool \in Versions \cup {NoFile}
    /\ core_dir \in Commits \cup {NoFile, Torn}
    /\ step \in Steps /\ core_ref \in Refs /\ circuit \in DOMAIN CIRCUITS
    /\ \E k \in 1..(Len(CIRCUITS) + 1) : manifest_circuits \in [FilesBefore(k) -> Contents]
    /\ runs \in 0..MaxRuns
    /\ result \in {"none", "up_to_date", "staged", "failed"}
    /\ custom \in BOOLEAN /\ silent \in BOOLEAN

\* The first n circuits' files come from one commit, the graphs from one
\* build-circuit.
BuiltFrom(files, n, commit, version) ==
    \A k \in 1..n :
        /\ files[<<CIRCUITS[k], "graph">>] = Graph(commit, version)
        /\ files[<<CIRCUITS[k], "zkey">>] = Key(commit)
        /\ files[<<CIRCUITS[k], "vkey">>] = Key(commit)

(* "Up to date" is never said of artifacts mixed from several runs           *)
(* (pull_circuits.rs:500-524): whatever runs failed or were killed halfway,  *)
(* and however often the ref moved, the artifacts that a manifest is current *)
(* for come from one commit of its ref, and from one build-circuit.          *)
UpToDateIsOneBuild ==
    ~silent =>
        \A ref \in Refs : manifest_is_current(ref) =>
            \E n \in 0..MaxPushes, version \in Versions :
                BuiltFrom(artifacts, Len(CIRCUITS), [ref |-> ref, at |-> n], version)

(* A run that rebuilds (pull_circuits.rs:221-226) stages what the ref named  *)
(* when it was started or later, never what a clone left over held, and the  *)
(* next run without --force has nothing to do.                               *)
StagedIsFresh ==
    result = "staged" =>
        /\ manifest_is_current(core_ref)
        /\ ~silent => \E n \in asked..MaxPushes :
                          BuiltFrom(artifacts, Len(CIRCUITS),
                                    [ref |-> core_ref, at |-> n], build_circuit)

(* "The circom-witnesscalc release whose `calc_witness` consumes the graphs   *)
(* we build, recorded in the manifest" (pull_circuits.rs:46-47): unless       *)
(* $BUILD_CIRCUIT is set, the staged graphs are of the recorded release.      *)
ManifestNamesItsTool ==
    result = "staged" /\ ~silent /\ ~custom =>
        \A k \in DOMAIN CIRCUITS :
            artifacts[<<CIRCUITS[k], "graph">>].tool = manifest.witnesscalc_version

-----------------------------------------------------------------------------
(* The inductive strengthening of the two properties that hold.            *)

\* A complete manifest records one build of its ref.
ManifestInv ==
    manifest \notin {NoFile, Torn} /\ ~silent =>
        \E n \in 0..MaxPushes, version \in Versions :
            BuiltFrom(manifest.circuits, Len(CIRCUITS), [ref |-> manifest.git_ref, at |-> n],
                      version)

\* The clone is of the ref, no older than the run; the finished circuits are
\* built from it and on disk as recorded, and so are the files of the circuit
\* in work.
RunInv ==
    LET finished == IF step \in {"manifest", "cleanup"} THEN Len(CIRCUITS) ELSE circuit - 1
        done(kind) == <<CIRCUITS[circuit], kind>>
    IN  /\ step \in {"idle", "tools", "clear", "core", "circomlib"} =>
              circuit = 1 /\ manifest_circuits = NoEntries
        /\ step # "idle" => result = "none" /\ asked <= upstream[core_ref]
        /\ step \in {"circomlib", "graph", "zkey", "vkey", "manifest", "cleanup"} =>
              /\ core_dir \in Commits
              /\ core_dir.ref = core_ref /\ asked <= core_dir.at
        /\ step \in {"graph", "zkey", "vkey", "manifest", "cleanup"} =>
              /\ manifest_circuits \in [FilesBefore(finished + 1) -> Contents]
              /\ \A f \in FilesBefore(finished + 1) : artifacts[f] = manifest_circuits[f]
              /\ ~silent => BuiltFrom(artifacts, finished, core_dir, build_circuit)
        /\ step \in {"zkey", "vkey"} /\ ~silent =>
              artifacts[done("graph")] = Graph(core_dir, build_circuit)
        /\ step = "vkey" => artifacts[done("zkey")] = Key(core_dir)
        /\ step = "cleanup" =>
              /\ manifest \in Manifests
              /\ manifest.git_ref = core_ref /\ manifest.circuits = manifest_circuits

IInv == TypeOK /\ ManifestInv /\ RunInv /\ StagedIsFresh
=============================================================================
