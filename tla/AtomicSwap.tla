----------------------------- MODULE AtomicSwap -----------------------------
(***************************************************************************)
(* What zerehctl promises to whoever calls it: the programs of an          *)
(* interface change in single steps, by the calls that were made, and a    *)
(* call reports what it did.  There are no links, pins, descriptors or     *)
(* modes here; XdpLoader is shown to implement this module.                *)
(***************************************************************************)
EXTENDS Naturals

CONSTANTS
  Invocations,   \* the runs of zerehctl, which also name the programs they load
  Slots,         \* the places of an interface where a program can run
  None

VARIABLES
  running,   \* running[s]: the program that handles packets in slot s
  phase,     \* phase[i]: how far the call i is
  unloads,   \* the calls that were asked to unload
  gen        \* counts the re-creations of the interface

avars == <<running, phase, unloads, gen>>

Returned == {"ok", "failed", "crashed"}

Init ==
  /\ running = [s \in Slots |-> None]
  /\ phase = [i \in Invocations |-> "idle"]
  /\ unloads = {}
  /\ gen = 0

Move(i, from, to) == phase[i] \in from /\ phase' = [phase EXCEPT ![i] = to]

(* The only way in which a program stops running without a successor: it   *)
(* belongs to the call that acts, or an unload was asked for.              *)
OnlyRemoves(own) ==
  \A s \in Slots :
    \/ running'[s] = running[s]
    \/ running'[s] = None /\ (running[s] \in own \/ unloads # {})

(* A call is made; it may fail at once. *)
BeginLoad(i) ==
  /\ \E to \in {"loading", "failed"} : Move(i, {"idle"}, to)
  /\ UNCHANGED <<running, unloads, gen>>

BeginUnload(i) ==
  /\ \E to \in {"unloading", "failed"} : Move(i, {"idle"}, to)
  /\ unloads' = unloads \cup {i}
  /\ UNCHANGED <<running, gen>>

(* The program and its maps are complete. *)
Prepare(i) ==
  /\ Move(i, {"loading"}, "ready")
  /\ UNCHANGED <<running, unloads, gen>>

(* The program takes over a slot for good, from one step to the next. *)
Install(i) ==
  /\ Move(i, {"ready"}, "installed")
  /\ \E s \in Slots : running' = [running EXCEPT ![s] = i]
  /\ UNCHANGED <<unloads, gen>>

(* The program is tried in a slot that nobody uses, and then either kept   *)
(* or withdrawn.                                                           *)
Offer(i) ==
  /\ Move(i, {"ready"}, "offered")
  /\ \E s \in Slots : running[s] = None /\ running' = [running EXCEPT ![s] = i]
  /\ UNCHANGED <<unloads, gen>>

Keep(i) ==
  /\ Move(i, {"offered"}, "installed")
  /\ UNCHANGED <<running, unloads, gen>>

Withdraw(i) ==
  /\ \E to \in {"ready", "giving_up"} : Move(i, {"offered"}, to)
  /\ OnlyRemoves({i})
  /\ \A s \in Slots : running'[s] # i
  /\ UNCHANGED <<unloads, gen>>

(* A load gives up; the programs that run are not its concern. *)
GiveUp(i) ==
  /\ Move(i, {"loading", "ready"}, "giving_up")
  /\ OnlyRemoves({})
  /\ UNCHANGED <<unloads, gen>>

(* What an unload removed may be held until some load is done with it. *)
Lapse(i) ==
  /\ phase[i] \in {"ready", "installed", "unloading"}
  /\ OnlyRemoves({})
  /\ UNCHANGED <<phase, unloads, gen>>

(* Success is reported for an installed program; an error only when the    *)
(* program of the call runs nowhere.                                       *)
ReturnLoad(i) ==
  /\ \/ Move(i, {"installed"}, "ok")
     \/ Move(i, {"giving_up"}, "failed") /\ \A s \in Slots : running[s] # i
  /\ UNCHANGED <<running, unloads, gen>>

ReturnUnload(i) ==
  /\ \E to \in {"ok", "failed"} : Move(i, {"unloading"}, to)
  /\ OnlyRemoves({})
  /\ UNCHANGED <<unloads, gen>>

(* A killed call takes an offered program with it, and nothing else. *)
Crash(i) ==
  /\ phase[i] \notin Returned \cup {"idle"}
  /\ phase' = [phase EXCEPT ![i] = "crashed"]
  /\ OnlyRemoves(IF phase[i] = "offered" THEN {i} ELSE {})
  /\ UNCHANGED <<unloads, gen>>

(* The interface is removed and created again. *)
Recreate ==
  /\ gen' = gen + 1
  /\ running' = [s \in Slots |-> None]
  /\ UNCHANGED <<phase, unloads>>

Act(i) ==
  \/ BeginLoad(i) \/ BeginUnload(i) \/ Prepare(i)
  \/ Install(i) \/ Offer(i) \/ Keep(i) \/ Withdraw(i) \/ GiveUp(i) \/ Lapse(i)
  \/ ReturnLoad(i) \/ ReturnUnload(i) \/ Crash(i)

Next == Recreate \/ \E i \in Invocations : Act(i)

Spec == Init /\ [][Next]_avars
=============================================================================
