------------------------------- MODULE RootCheck -------------------------------
(***************************************************************************)
(* verify_state_root (sync.rs): is a root one of the pool's recent ones?    *)
(* The SDK reads currentRoot() and then the slots of the pool's ring buffer *)
(* one eth_call at a time, while the pool may insert leaves between any two *)
(* of them.                                                                *)
(*                                                                         *)
(* The pool's n-th root is the number n; 0 is the value of a slot that was  *)
(* never written, and of Field::ZERO.                                      *)
(***************************************************************************)
EXTENDS Integers

CONSTANTS
    ROOT_HISTORY_SIZE,    \* slots of the ring buffer
    Targets,              \* the roots that may be asked about
    MaxRoots              \* bound: roots the pool goes through

ASSUME HistoryAssumption == ROOT_HISTORY_SIZE \in Nat \ {0}
ASSUME TargetsAssumption == Targets \subseteq Nat

VARIABLES
    count,       \* roots the pool has had so far; the current root
    head,        \* the slot of the current root
    roots,       \* the ring buffer
    pc,          \* the call: "idle", "current", "walk", "true", "false", "error"
    target,      \* its argument
    i,           \* the slot read next
    countAtCall  \* history: count when the call was made

poolVars == <<count, head, roots>>
callVars == <<pc, target, i, countAtCall>>
vars == <<poolVars, callVars>>

Slots == 0..(ROOT_HISTORY_SIZE - 1)

Init ==
    /\ count = 0
    /\ head = 0
    /\ roots = [s \in Slots |-> 0]
    /\ pc = "idle"
    /\ target \in Targets
    /\ i = 0
    /\ countAtCall = 0

-----------------------------------------------------------------------------
\* Mutant: the ring does not wrap.
NewRootPastEnd ==
    /\ count < MaxRoots
    /\ count' = count + 1
    /\ head' = head + 1
    /\ roots' = [roots EXCEPT ![head'] = count']
    /\ UNCHANGED callVars

\* The pool inserts a leaf: the next slot, round robin, gets the new root.
NewRoot ==
    /\ count < MaxRoots
    /\ count' = count + 1
    /\ head' = IF head = ROOT_HISTORY_SIZE - 1 THEN 0 ELSE head + 1
    /\ roots' = [roots EXCEPT ![head'] = count']
    /\ UNCHANGED callVars

-----------------------------------------------------------------------------
Call ==
    /\ pc = "idle"
    /\ pc' = "current"
    /\ countAtCall' = count
    /\ UNCHANGED <<poolVars, target, i>>

\* Mutant: any root the pool has had is taken for recent.
ReadCurrentOrOlder ==
    /\ pc = "current"
    /\ pc' = IF target \in 1..count THEN "true" ELSE "walk"
    /\ UNCHANGED <<poolVars, target, i, countAtCall>>

\* eth_call currentRoot().
ReadCurrent ==
    /\ pc = "current"
    /\ pc' = IF count = target THEN "true" ELSE "walk"
    /\ UNCHANGED <<poolVars, target, i, countAtCall>>

\* Mutant: the loop reads one slot again and again.
ReadSlotAgain ==
    /\ pc = "walk"
    /\ i < ROOT_HISTORY_SIZE
    /\ pc' = IF roots[i] = target THEN "true" ELSE "walk"
    /\ UNCHANGED <<poolVars, target, i, countAtCall>>

\* eth_call roots(i).
ReadSlot ==
    /\ pc = "walk"
    /\ i < ROOT_HISTORY_SIZE
    /\ IF roots[i] = target
       THEN pc' = "true" /\ i' = i
       ELSE pc' = "walk" /\ i' = i + 1
    /\ UNCHANGED <<poolVars, target, countAtCall>>

\* Mutant: the last slot is not read.
NotFoundEarly ==
    /\ pc = "walk"
    /\ i = ROOT_HISTORY_SIZE - 1
    /\ pc' = "false"
    /\ UNCHANGED <<poolVars, target, i, countAtCall>>

\* Every slot was read.
NotFound ==
    /\ pc = "walk"
    /\ i = ROOT_HISTORY_SIZE
    /\ pc' = "false"
    /\ UNCHANGED <<poolVars, target, i, countAtCall>>

\* Any of the eth_calls may fail; the error is returned.
CallFails ==
    /\ pc = "current" \/ (pc = "walk" /\ i < ROOT_HISTORY_SIZE)
    /\ pc' = "error"
    /\ UNCHANGED <<poolVars, target, i, countAtCall>>

Proceed == Call \/ ReadCurrent \/ ReadSlot \/ NotFound

VerifyStateRoot == Proceed \/ CallFails

Next == NewRoot \/ VerifyStateRoot

\* An async call that is awaited is polled until it returns, and each eth_call
\* is answered or (CallFails) is not; no failure is assumed to come.
Spec == Init /\ [][Next]_vars /\ WF_vars(Proceed)

-----------------------------------------------------------------------------
TypeOK ==
    /\ count \in Nat
    /\ head \in Slots
    /\ roots \in [Slots -> Nat]
    /\ pc \in {"idle", "current", "walk", "true", "false", "error"}
    /\ target \in Targets
    /\ i \in 0..ROOT_HISTORY_SIZE
    /\ countAtCall \in 0..count

\* Root t is among the last ROOT_HISTORY_SIZE when the pool has had n.
Recent(t, n) == 0 < t /\ t <= n /\ n < t + ROOT_HISTORY_SIZE

(* "true" is never stale beyond the call itself (sync.rs:283-305): the root   *)
(* was recent at some moment while the call ran, though the slots were read   *)
(* at different moments.  Zero, which is no root, is taken for one only by a  *)
(* call that was made before every slot of the ring was written.             *)
TrueIsSound ==
    pc = "true" /\ (target # 0 \/ countAtCall >= ROOT_HISTORY_SIZE) =>
        \E n \in countAtCall..count : Recent(target, n)

(* "false" is never said of a root that was recent all through the call:     *)
(* roots that arrive during the walk do not make it skip a slot.             *)
FalseIsSound ==
    pc = "false" => ~(Recent(target, countAtCall) /\ Recent(target, count))

(* The call returns however fast the pool moves on.                          *)
Returns == pc = "current" ~> pc \in {"true", "false", "error"}

-----------------------------------------------------------------------------
(* The inductive strengthenings of the two safety properties.              *)

\* The slot that root t has while it is recent, counted back from slot h of
\* the n-th root.
SlotOf(t, h, n) ==
    IF h - (n - t) >= 0 THEN h - (n - t) ELSE h - (n - t) + ROOT_HISTORY_SIZE

\* The ring holds the recent roots, each in its slot, and nothing else.
RingInv ==
    /\ \A t \in 1..count : Recent(t, count) => roots[SlotOf(t, head, count)] = t
    /\ \A s \in Slots :
          roots[s] = 0 \/ (Recent(roots[s], count) /\ s = SlotOf(roots[s], head, count))

\* A target that has been recent since the call is in a slot not read yet.
WalkInv ==
    /\ pc \in {"idle", "current"} => i = 0
    /\ pc = "walk" /\ Recent(target, countAtCall) /\ Recent(target, count) =>
          i <= SlotOf(target, head, count)
=============================================================================
