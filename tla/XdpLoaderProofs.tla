-------------------------- MODULE XdpLoaderProofs --------------------------
(***************************************************************************)
(* What zerehctl guarantees for every number of concurrent invocations,    *)
(* every driver and any number of interface re-creations.                  *)
(*                                                                         *)
(*   TypeInv          the types, with the part of the control state they   *)
(*                    depend on (what was requested, which mode is tried)  *)
(*   SeedInv          what is seeded at each point of load_and_swap_xdp    *)
(*   OwnProgramInv    where the program of an unfinished load can be       *)
(*   CleanInv         what an unload has already emptied                   *)
(*   LinkInv          who keeps a live link alive, and which program it    *)
(*                    has; the refinement of AtomicSwap rests on it        *)
(***************************************************************************)
EXTENDS XdpLoader, TLAPS

(* The obligations are large: a leaf that names no prover has 30 seconds. *)
USE SMTT(30), ZenonT(30)

(* Each mode has its slot. *)
LEMMA ModeSlots == \A m \in Modes : ModeToSlot[m] \in Slots
BY DEF Modes, ModeToSlot, Slots

(* TypeOK alone is not inductive: find_program copies req into mode. *)
TypeInv ==
  /\ TypeOK
  /\ \A i \in Invocations : pc[i] \in LoadPcs => req[i] \in Modes
  /\ \A i \in Invocations : pc[i] \in AttachPcs => mode[i] \in Modes

(* The invariant holds before any invocation starts. *)
LEMMA InitTypeInv == Init => TypeInv
  BY LoaderAssumption
  DEF Init, TypeInv, TypeOK, Slots, Modes, Maps, Pcs, LoadPcs, UnloadPcs, Ended, SeedPcs, AttachPcs

(* Closing descriptors and removing the pin keep the kernel state typed.   *)
LEMMA SetHandlesType ==
  ASSUME TypeOK,
         NEW fds \in [Invocations -> Invocations \cup {None}],
         NEW pinned \in Invocations \cup {None},
         SetHandles(fds, pinned)
  PROVE  /\ slot' \in [Slots -> Invocations \cup {None}]
         /\ linkSlot' \in [Invocations -> Slots \cup {None}]
         /\ pin' \in Invocations \cup {None}
         /\ linkFd' \in [Invocations -> Invocations \cup {None}]
  BY DEF SetHandles, TypeOK

(* No step of the loader leaves the types or the modes it works with. *)
LEMMA StepTypeInv ==
  ASSUME TypeInv, NEW i \in Invocations,
         StartLoad(i) \/ StartUnload(i) \/ Step(i) \/ Crash(i)
  PROVE  TypeInv'
<1> USE DEF TypeInv, TypeOK, Slots, Modes, Maps, Pcs, LoadPcs, UnloadPcs, Ended, SeedPcs,
            AttachPcs, kernel, Goto
<1>1. CASE StartLoad(i)
  BY <1>1 DEF StartLoad, Start
<1>2. CASE StartUnload(i)
  BY <1>2 DEF StartUnload, Start
<1>3. CASE LoadObject(i)
  BY <1>3 DEF LoadObject, Advance
<1>4. CASE SeedMap(i)
  BY <1>4 DEF SeedMap, AfterSeed
<1>5. CASE FindProgram(i)
  BY <1>5 DEF FindProgram, Advance
<1>6. CASE QueryOldProg(i)
  BY <1>6 DEF QueryOldProg, ModeToSlot
<1>7. CASE XdpAttach(i)
  BY <1>7 DEF XdpAttach, TryNextMode, Fallback
<1>8. CASE GetPinnedLink(i)
  BY <1>8 DEF GetPinnedLink, TryNextMode, Fallback
<1>9. CASE UpdateLink(i)
  BY <1>9 DEF UpdateLink
<1>10. CASE AttachLink(i)
  BY <1>10 DEF AttachLink, TryNextMode, Fallback, DefaultSlot
<1>11. CASE PinLink(i)
  BY <1>11 DEF PinLink
<1>12. CASE CloseLink(i)
  <2>1. /\ slot' \in [Slots -> Invocations \cup {None}]
        /\ linkSlot' \in [Invocations -> Slots \cup {None}]
        /\ pin' \in Invocations \cup {None}
        /\ linkFd' \in [Invocations -> Invocations \cup {None}]
    BY <1>12, SetHandlesType DEF CloseLink
  <2>2. pc[i] \in AttachPcs
    BY <1>12 DEF CloseLink
  <2>3. /\ pc' \in [Invocations -> Pcs]
        /\ mode' \in [Invocations -> Modes \cup {"none"}]
        /\ \A j \in Invocations : pc'[j] \in LoadPcs => req[j] \in Modes
        /\ \A j \in Invocations : pc'[j] \in AttachPcs => mode'[j] \in Modes
    <3>1. CASE pc[i] = "close_link"
      BY <1>12, <3>1, <2>2 DEF CloseLink
    <3>2. CASE pc[i] # "close_link"
      BY <1>12, <3>2, <2>2 DEF CloseLink, TryNextMode, Fallback
    <3> QED  BY <3>1, <3>2
  <2> QED
    BY <1>12, <2>1, <2>3 DEF CloseLink
<1>13. CASE CloseObject(i)
  BY <1>13 DEF CloseObject, CloseMaps
<1>14. CASE UnloadGet(i)
  BY <1>14 DEF UnloadGet
<1>15. CASE UnloadClose(i)
  BY <1>15, SetHandlesType DEF UnloadClose
<1>16. CASE Unlink(i)
  BY <1>16, SetHandlesType DEF Unlink
<1>17. CASE Detach(i)
  BY <1>17 DEF Detach, DetachSlot, AfterDetach
<1>18. CASE Crash(i)
  BY <1>18, SetHandlesType DEF Crash, CloseMaps
<1> QED
  BY <1>1, <1>2, <1>3, <1>4, <1>5, <1>6, <1>7, <1>8, <1>9, <1>10, <1>11, <1>12, <1>13, <1>14,
     <1>15, <1>16, <1>17, <1>18 DEF Step

(* Nor does starting, crashing or re-creating the interface. *)
LEMMA NextTypeInv == TypeInv /\ [Next]_vars => TypeInv'
<1> SUFFICES ASSUME TypeInv, [Next]_vars PROVE TypeInv'
  OBVIOUS
<1>1. CASE RecreateInterface
  BY <1>1, LoaderAssumption DEF RecreateInterface, TypeInv, TypeOK
<1>2. CASE UNCHANGED vars
  BY <1>2 DEF vars, TypeInv, TypeOK
<1> QED
  BY <1>1, <1>2, StepTypeInv DEF Next

(* Every variable keeps its type, for any set of invocations. *)
THEOREM TypeCorrect == Spec => []TypeOK
<1>1. TypeInv => TypeOK
  BY DEF TypeInv
<1> QED
  BY <1>1, InitTypeInv, NextTypeInv, PTL DEF Spec

(* TypeInv, for the theorems below to rest on. *)
LEMMA TypeInvariance == Spec => []TypeInv
  BY InitTypeInv, NextTypeInv, PTL DEF Spec

-----------------------------------------------------------------------------
(***************************************************************************)
(* Seeding before attaching.                                               *)
(***************************************************************************)

SeedInv ==
  /\ \A i \in Invocations :
       /\ pc[i] = "pow_bloom" => "ip_blacklist" \in seeded[i]
       /\ pc[i] = "prog_array" => {"ip_blacklist", "pow_bloom"} \subseteq seeded[i]
       /\ pc[i] \in {"find_program", "close_ok"} \cup AttachPcs => seeded[i] = Maps
  /\ ActiveMapsSeeded

(* Closing descriptors and removing the pin can only empty a slot. *)
LEMMA SetHandlesOnlyEmpties ==
  ASSUME NEW fds, NEW pinned, SetHandles(fds, pinned), NEW s \in Slots
  PROVE  slot'[s] \in {slot[s], None}
  BY DEF SetHandles

(* One step changes a slot only by emptying it or by putting a completely  *)
(* seeded program there.                                                   *)
LEMMA StepSwaps ==
  ASSUME TypeInv, SeedInv, NEW i \in Invocations,
         StartLoad(i) \/ StartUnload(i) \/ Step(i) \/ Crash(i),
         NEW s \in Slots
  PROVE  slot'[s] \in {slot[s], None} \/ (slot'[s] = i /\ seeded[i] = Maps)
<1> USE DEF TypeInv, TypeOK, kernel
<1>1. CASE CloseLink(i) \/ UnloadClose(i) \/ Unlink(i) \/ Crash(i)
  BY <1>1, SetHandlesOnlyEmpties DEF CloseLink, UnloadClose, Unlink, Crash
<1>2. CASE XdpAttach(i)
  BY <1>2 DEF XdpAttach, SeedInv, AttachPcs
<1>3. CASE UpdateLink(i)
  BY <1>3 DEF UpdateLink, SeedInv, AttachPcs
<1>4. CASE AttachLink(i)
  BY <1>4 DEF AttachLink, SeedInv, AttachPcs
<1>5. CASE Detach(i)
  BY <1>5 DEF Detach
<1>6. CASE UNCHANGED slot
  BY <1>6
<1> QED
  BY <1>1, <1>2, <1>3, <1>4, <1>5, <1>6
  DEF Step, StartLoad, StartUnload, Start, LoadObject, SeedMap, FindProgram, QueryOldProg,
      GetPinnedLink, PinLink, CloseObject, UnloadGet

(* What one step does to the seeded maps of the invocations. *)
LEMMA StepSeeds ==
  ASSUME TypeInv, SeedInv, NEW i \in Invocations,
         StartLoad(i) \/ StartUnload(i) \/ Step(i) \/ Crash(i)
  PROVE  /\ \A j \in Invocations \ {i} : pc'[j] = pc[j] /\ seeded'[j] = seeded[j]
         /\ seeded[i] \ {"prog_array"} \subseteq seeded'[i]
         /\ pc'[i] = "pow_bloom" => "ip_blacklist" \in seeded'[i]
         /\ pc'[i] = "prog_array" => {"ip_blacklist", "pow_bloom"} \subseteq seeded'[i]
         /\ pc'[i] \in {"find_program", "close_ok"} \cup AttachPcs => seeded'[i] = Maps
<1> USE DEF TypeInv, TypeOK, SeedInv, AttachPcs, SeedPcs, Maps, Goto
<1>1. CASE StartLoad(i) \/ StartUnload(i)
  BY <1>1 DEF StartLoad, StartUnload, Start
<1>2. CASE LoadObject(i)
  BY <1>2 DEF LoadObject, Advance
<1>3. CASE SeedMap(i)
  BY <1>3 DEF SeedMap, AfterSeed
<1>4. CASE FindProgram(i) \/ QueryOldProg(i)
  BY <1>4 DEF FindProgram, QueryOldProg, Advance
<1>5. CASE XdpAttach(i) \/ GetPinnedLink(i) \/ UpdateLink(i)
  BY <1>5 DEF XdpAttach, GetPinnedLink, UpdateLink, TryNextMode
<1>6. CASE AttachLink(i) \/ PinLink(i) \/ CloseLink(i)
  BY <1>6 DEF AttachLink, PinLink, CloseLink, TryNextMode
<1>7. CASE CloseObject(i) \/ Crash(i)
  BY <1>7 DEF CloseObject, Crash, CloseMaps
<1>8. CASE UnloadGet(i) \/ UnloadClose(i) \/ Unlink(i)
  BY <1>8 DEF UnloadGet, UnloadClose, Unlink
<1>9. CASE Detach(i)
  BY <1>9 DEF Detach, AfterDetach, DetachSlot
<1> QED
  BY <1>1, <1>2, <1>3, <1>4, <1>5, <1>6, <1>7, <1>8, <1>9 DEF Step

(* Seeding before attaching, and closing afterwards, keep SeedInv. *)
LEMMA NextSeedInv == TypeInv /\ SeedInv /\ [Next]_vars => SeedInv'
<1> SUFFICES ASSUME TypeInv, SeedInv, [Next]_vars PROVE SeedInv'
  OBVIOUS
<1>1. ASSUME NEW i \in Invocations, StartLoad(i) \/ StartUnload(i) \/ Step(i) \/ Crash(i)
      PROVE  SeedInv'
  <2>1. ActiveMapsSeeded'
    <3> SUFFICES ASSUME NEW s \in Slots, slot'[s] # None
                 PROVE  {"ip_blacklist", "pow_bloom"} \subseteq seeded'[slot'[s]]
      BY DEF ActiveMapsSeeded
    <3>1. CASE slot'[s] = slot[s]
      BY <1>1, <3>1, StepSeeds DEF SeedInv, ActiveMapsSeeded, TypeInv, TypeOK
    <3>2. CASE slot'[s] = i /\ seeded[i] = Maps
      BY <1>1, <3>2, StepSeeds DEF Maps
    <3> QED
      BY <1>1, <3>1, <3>2, StepSwaps
  <2> QED
    BY <1>1, <2>1, StepSeeds DEF SeedInv
<1>2. CASE RecreateInterface
  BY <1>2 DEF RecreateInterface, SeedInv, ActiveMapsSeeded
<1>3. CASE UNCHANGED vars
  BY <1>3 DEF vars, SeedInv, ActiveMapsSeeded
<1> QED
  BY <1>1, <1>2, <1>3 DEF Next

(* SeedInv, for the two theorems below. *)
LEMMA SeedInvariance == Spec => []SeedInv
<1>1. Init => SeedInv
  BY DEF Init, SeedInv, ActiveMapsSeeded, AttachPcs
<1> QED
  BY <1>1, NextSeedInv, TypeInvariance, PTL DEF Spec

(* No attached program ever has a blacklist or a Bloom bitmap that the     *)
(* loader did not finish seeding.                                          *)
THEOREM ActiveProgramsAreSeeded == Spec => []ActiveMapsSeeded
<1>1. SeedInv => ActiveMapsSeeded
  BY DEF SeedInv
<1> QED
  BY <1>1, SeedInvariance, PTL

(* Every step that activates a program activates one whose three maps are  *)
(* complete at that moment: seeding precedes attaching on every path.      *)
THEOREM SwapsAreSeeded == Spec => SwapOnlySeeded
<1>1. TypeInv /\ SeedInv /\ [Next]_vars =>
        [\A s \in Slots : slot'[s] # slot[s] /\ slot'[s] # None => seeded[slot'[s]] = Maps]_vars
  <2> SUFFICES ASSUME TypeInv, SeedInv, Next, NEW s \in Slots,
                      slot'[s] # slot[s], slot'[s] # None
               PROVE  seeded[slot'[s]] = Maps
    OBVIOUS
  <2>1. CASE RecreateInterface
    BY <2>1 DEF RecreateInterface
  <2> QED
    BY <2>1, StepSwaps DEF Next
<1> QED
  BY <1>1, TypeInvariance, SeedInvariance, PTL DEF Spec, SwapOnlySeeded

-----------------------------------------------------------------------------
(***************************************************************************)
(* A failed load leaves nothing attached.                                  *)
(*                                                                         *)
(* The program of a load is in a slot only once the load can no longer     *)
(* fail, or through a link of its own that nobody else can reach: closing  *)
(* that link's descriptor then takes the program away.                     *)
(***************************************************************************)

Settled == {"close_link", "close_ok", "ok", "crashed"}

OwnLink(i, s) ==
  pc[i] \in {"pin", "close_link_failed"} /\ linkFd[i] = i /\ linkSlot[i] = s

OwnProgramInv ==
  /\ \A l \in Invocations : pin = l => pc[l] \in Settled
  /\ \A j, l \in Invocations : linkFd[j] = l /\ j # l => pc[l] \in Settled
  /\ \A i \in Invocations : pc[i] = "pin" => linkFd[i] = i
  /\ \A i \in Invocations, s \in Slots : slot[s] = i => pc[i] \in Settled \/ OwnLink(i, s)

(* A step of i that only gives up handles and slots, and does not move i   *)
(* from a point where it may own a program to one where it may not.        *)
GivesUp(i) ==
  /\ \A j \in Invocations \ {i} : pc'[j] = pc[j] /\ linkFd'[j] = linkFd[j]
  /\ linkFd'[i] \in {linkFd[i], None}
  /\ pin' \in {pin, None}
  /\ \A l \in Invocations : linkFd'[l] = l => linkSlot'[l] = linkSlot[l]
  /\ \A s \in Slots : slot'[s] \in {slot[s], None}
  /\ pc'[i] # "pin"
  /\ \/ pc[i] \notin Settled \cup {"pin", "close_link_failed"}
     \/ pc'[i] \in Settled
     \/ /\ pc[i] = "close_link_failed"
        /\ \A s \in Slots : slot'[s] # i

(* Such a step keeps the invariant. *)
LEMMA GivingUp ==
  ASSUME OwnProgramInv, NEW i \in Invocations, GivesUp(i)
  PROVE  OwnProgramInv'
<1> USE LoaderAssumption DEF GivesUp, Settled
<1>1. (\A l \in Invocations : pin = l => pc[l] \in Settled)'
  BY DEF OwnProgramInv
<1>2. (\A j, l \in Invocations : linkFd[j] = l /\ j # l => pc[l] \in Settled)'
  BY DEF OwnProgramInv
<1>3. (\A j \in Invocations : pc[j] = "pin" => linkFd[j] = j)'
  BY DEF OwnProgramInv
<1>4. (\A j \in Invocations, s \in Slots : slot[s] = j => pc[j] \in Settled \/ OwnLink(j, s))'
  <2> SUFFICES ASSUME NEW j \in Invocations, NEW s \in Slots, slot'[s] = j
               PROVE  (pc[j] \in Settled \/ OwnLink(j, s))'
    OBVIOUS
  <2>1. pc[j] \in Settled \/ OwnLink(j, s)
    BY DEF OwnProgramInv
  <2> QED
    BY <2>1 DEF OwnLink
<1> QED
  BY <1>1, <1>2, <1>3, <1>4 DEF OwnProgramInv

(* A link stays while its own descriptor holds it. *)
LEMMA SetHandlesLinks ==
  ASSUME TypeOK, NEW fds, NEW pinned, SetHandles(fds, pinned), NEW l \in Invocations, fds[l] = l
  PROVE  linkSlot'[l] = linkSlot[l]
  BY DEF SetHandles, TypeOK

(* The order in which a load seeds its maps. *)
LEMMA SeedOrder ==
  /\ AfterSeed["ip_blacklist"] = "pow_bloom"
  /\ AfterSeed["pow_bloom"] = "prog_array"
  /\ AfterSeed["prog_array"] = "find_program"
  BY DEF AfterSeed

(* The order in which an unload visits the slots. *)
LEMMA DetachOrder ==
  /\ DOMAIN DetachSlot = {"detach_drv", "detach_hw", "detach_skb"}
  /\ AfterDetach["detach_drv"] = "detach_hw"
  /\ AfterDetach["detach_hw"] = "detach_skb"
  /\ AfterDetach["detach_skb"] = "ok"
  BY DEF DetachSlot, AfterDetach

(* An invocation that gives up has lost its slot with its link. *)
LEMMA StepOwnProgramInv ==
  ASSUME TypeInv, OwnProgramInv, NEW i \in Invocations,
         StartLoad(i) \/ StartUnload(i) \/ Step(i) \/ Crash(i)
  PROVE  OwnProgramInv'
<1> USE LoaderAssumption DEF Settled, kernel, Goto
<1>0. /\ pc \in [Invocations -> Pcs]
      /\ linkFd \in [Invocations -> Invocations \cup {None}]
      /\ linkSlot \in [Invocations -> Slots \cup {None}]
      /\ slot \in [Slots -> Invocations \cup {None}]
      /\ TypeOK
  BY DEF TypeInv, TypeOK
<1>1. CASE StartLoad(i) \/ StartUnload(i)
  <2>1. GivesUp(i)
    BY <1>0, <1>1 DEF StartLoad, StartUnload, Start, GivesUp
  <2> QED
    BY <2>1, GivingUp
<1>2. CASE LoadObject(i) \/ SeedMap(i) \/ FindProgram(i) \/ QueryOldProg(i)
  <2>1. /\ pc[i] \in {"load_object", "ip_blacklist", "pow_bloom", "prog_array", "find_program", "attach"}
        /\ UNCHANGED <<kernel, linkFd>>
    BY <1>2 DEF LoadObject, SeedMap, SeedPcs, Maps, FindProgram, QueryOldProg
  <2>2. PICK label \in {"ip_blacklist", "pow_bloom", "prog_array", "find_program", "attach",
                        "xdp_attach", "close_failed"} : Goto(i, label)
    BY <1>2, <2>1, SeedOrder DEF LoadObject, SeedMap, SeedPcs, Maps, FindProgram, QueryOldProg, Advance
  <2>3. GivesUp(i)
    BY <1>0, <2>1, <2>2 DEF GivesUp
  <2> QED
    BY <2>3, GivingUp
<1>3. CASE XdpAttach(i)
  <2>1. CASE TryNextMode(i) /\ UNCHANGED slot
    <3>1. pc' \in {[pc EXCEPT ![i] = "attach"], [pc EXCEPT ![i] = "close_failed"]}
      BY <2>1 DEF TryNextMode
    <3>2. GivesUp(i)
      BY <1>0, <1>3, <2>1, <3>1 DEF XdpAttach, GivesUp
    <3> QED
      BY <3>2, GivingUp
  <2>2. CASE /\ pc' = [pc EXCEPT ![i] = "close_ok"]
             /\ \A s \in Slots : slot'[s] \in {slot[s], i}
             /\ UNCHANGED <<pin, linkFd, linkSlot>>
    BY <1>0, <2>2 DEF OwnProgramInv, OwnLink
  <2> QED
    BY <1>0, <1>3, <2>1, <2>2 DEF XdpAttach
<1>4. CASE GetPinnedLink(i)
  BY <1>0, <1>4 DEF GetPinnedLink, TryNextMode, OwnProgramInv, OwnLink
<1>5. CASE UpdateLink(i)
  BY <1>0, <1>5 DEF UpdateLink, OwnProgramInv, OwnLink
<1>6. CASE AttachLink(i)
  BY <1>0, <1>6 DEF AttachLink, TryNextMode, OwnProgramInv, OwnLink
<1>7. CASE PinLink(i)
  BY <1>0, <1>7 DEF PinLink, OwnProgramInv, OwnLink
<1>8. CASE CloseLink(i)
  <2>1. SetHandles([linkFd EXCEPT ![i] = None], pin)
    BY <1>8 DEF CloseLink
  <2>2. /\ \A l \in Invocations : linkFd'[l] = l => linkSlot'[l] = linkSlot[l]
        /\ \A s \in Slots : slot'[s] \in {slot[s], None}
        /\ linkFd' = [linkFd EXCEPT ![i] = None] /\ pin' = pin
    BY <1>0, <2>1, SetHandlesOnlyEmpties, SetHandlesLinks DEF SetHandles
  <2>3. ASSUME pc[i] = "close_link_failed", NEW s \in Slots, slot'[s] = i
        PROVE  FALSE
    <3>1. linkSlot[i] = s
      <4>1. slot[s] = i
        BY <2>2, <2>3
      <4> QED
        BY <2>3, <4>1 DEF OwnProgramInv, OwnLink
    <3>2. pin # i /\ \A j \in Invocations : [linkFd EXCEPT ![i] = None][j] # i
      BY <1>0, <2>3 DEF OwnProgramInv
    <3> QED
      BY <2>1, <2>3, <3>1, <3>2 DEF SetHandles
  <2>4. GivesUp(i)
    BY <1>0, <1>8, <2>2, <2>3 DEF CloseLink, TryNextMode, GivesUp
  <2> QED
    BY <2>4, GivingUp
<1>9. CASE CloseObject(i)
  <2>1. GivesUp(i)
    BY <1>0, <1>9 DEF CloseObject, GivesUp
  <2> QED
    BY <2>1, GivingUp
<1>10. CASE UnloadGet(i)
  BY <1>0, <1>10 DEF UnloadGet, OwnProgramInv, OwnLink
<1>11. CASE UnloadClose(i) \/ Unlink(i) \/ Crash(i)
  <2>1. /\ \A l \in Invocations : linkFd'[l] = l => linkSlot'[l] = linkSlot[l]
        /\ \A s \in Slots : slot'[s] \in {slot[s], None}
        /\ linkFd' \in {linkFd, [linkFd EXCEPT ![i] = None]} /\ pin' \in {pin, None}
    BY <1>0, <1>11, SetHandlesOnlyEmpties, SetHandlesLinks DEF UnloadClose, Unlink, Crash, SetHandles
  <2>2. GivesUp(i)
    BY <1>0, <1>11, <2>1 DEF UnloadClose, Unlink, Crash, GivesUp
  <2> QED
    BY <2>2, GivingUp
<1>12. CASE Detach(i)
  <2>1. pc'[i] \in {"detach_hw", "detach_skb", "ok", "failed"} /\ pc[i] \notin Settled
    BY <1>0, <1>12, DetachOrder DEF Detach
  <2>2. pc[i] \notin {"pin", "close_link_failed"}
    BY <1>12, DetachOrder DEF Detach
  <2>3. \A s \in Slots : slot'[s] \in {slot[s], None}
    BY <1>0, <1>12 DEF Detach
  <2>4. /\ \A j \in Invocations \ {i} : pc'[j] = pc[j]
        /\ UNCHANGED <<linkSlot, pin, linkFd>>
    BY <1>0, <1>12 DEF Detach
  <2>5. GivesUp(i)
    BY <2>1, <2>2, <2>3, <2>4 DEF GivesUp
  <2> QED
    BY <2>5, GivingUp
<1> QED
  BY <1>1, <1>2, <1>3, <1>4, <1>5, <1>6, <1>7, <1>8, <1>9, <1>10, <1>11, <1>12 DEF Step

(* Every step keeps it. *)
LEMMA OwnProgramInvariance == Spec => []OwnProgramInv
<1>1. Init => OwnProgramInv
  BY LoaderAssumption DEF Init, OwnProgramInv
<1>2. TypeInv /\ OwnProgramInv /\ [Next]_vars => OwnProgramInv'
  <2> SUFFICES ASSUME TypeInv, OwnProgramInv, [Next]_vars PROVE OwnProgramInv'
    OBVIOUS
  <2>1. CASE RecreateInterface
    BY <2>1, LoaderAssumption DEF RecreateInterface, OwnProgramInv
  <2>2. CASE UNCHANGED vars
    BY <2>2 DEF vars, OwnProgramInv, OwnLink
  <2> QED
    BY <2>1, <2>2, StepOwnProgramInv DEF Next
<1> QED
  BY <1>1, <1>2, TypeInvariance, PTL DEF Spec

(* A load that returned an error has none of its programs attached, for    *)
(* every interleaving with other loads, unloads, crashes and interface     *)
(* re-creations.                                                           *)
THEOREM FailedLoadsAreInvisible == Spec => []FailedLoadInvisible
<1>1. OwnProgramInv => FailedLoadInvisible
  BY DEF OwnProgramInv, OwnLink, Settled, FailedLoadInvisible
<1> QED
  BY <1>1, OwnProgramInvariance, PTL

-----------------------------------------------------------------------------
(***************************************************************************)
(* A successful unload leaves nothing old attached.                        *)
(***************************************************************************)

CleanInv ==
  /\ \A i \in Invocations : \A j \in before[i] : pc[j] \in Ended
  /\ \A i \in Invocations :
       /\ pc[i] = "detach_hw" => slot["drv"] \notin before[i]
       /\ pc[i] = "detach_skb" => slot["drv"] \notin before[i] /\ slot["hw"] \notin before[i]
       /\ pc[i] = "ok" /\ req[i] = "unload" => \A s \in Slots : slot[s] \notin before[i]

(* A step of i gives a slot to nobody but i, and only while i runs. *)
LEMMA StepSlots ==
  ASSUME TypeInv, NEW i \in Invocations,
         StartLoad(i) \/ StartUnload(i) \/ Step(i) \/ Crash(i),
         NEW s \in Slots
  PROVE  slot'[s] \in {slot[s], None, i}
<1> USE DEF TypeInv, TypeOK, kernel
<1>1. CASE CloseLink(i) \/ UnloadClose(i) \/ Unlink(i) \/ Crash(i)
  BY <1>1, SetHandlesOnlyEmpties DEF CloseLink, UnloadClose, Unlink, Crash
<1>2. CASE XdpAttach(i) \/ UpdateLink(i) \/ AttachLink(i) \/ Detach(i)
  BY <1>2 DEF XdpAttach, UpdateLink, AttachLink, Detach
<1>3. CASE UNCHANGED slot
  BY <1>3
<1> QED
  BY <1>1, <1>2, <1>3
  DEF Step, StartLoad, StartUnload, Start, LoadObject, SeedMap, FindProgram, QueryOldProg,
      GetPinnedLink, PinLink, CloseObject, UnloadGet

(* Control flow of one step, as far as an unload depends on it. *)
LEMMA StepControl ==
  ASSUME TypeInv, NEW i \in Invocations,
         StartLoad(i) \/ StartUnload(i) \/ Step(i) \/ Crash(i)
  PROVE  /\ pc[i] \notin Ended
         /\ \A j \in Invocations \ {i} : pc'[j] = pc[j] /\ req'[j] = req[j] /\ before'[j] = before[j]
         /\ before'[i] = before[i] \/ before'[i] = {j \in Invocations : pc[j] \in Ended}
         /\ pc'[i] = "detach_hw" => pc[i] = "detach_drv" /\ Detach(i)
         /\ pc'[i] = "detach_skb" => pc[i] = "detach_hw" /\ Detach(i)
         /\ pc'[i] = "ok" /\ req'[i] = "unload" => pc[i] = "detach_skb" /\ Detach(i)
<1> USE DEF Ended, Goto, kernel
<1>0. /\ pc \in [Invocations -> Pcs]
      /\ req \in [Invocations -> Modes \cup {"unload", "none"}]
      /\ before \in [Invocations -> SUBSET Invocations]
      /\ pc[i] = "close_ok" => req[i] # "unload"
  BY DEF TypeInv, TypeOK, LoadPcs, AttachPcs, SeedPcs, Modes
<1>1. CASE StartLoad(i) \/ StartUnload(i)
  BY <1>0, <1>1 DEF StartLoad, StartUnload, Start
<1>2. CASE LoadObject(i) \/ FindProgram(i) \/ QueryOldProg(i)
  <2>1. /\ pc[i] \in {"load_object", "find_program", "attach"}
        /\ UNCHANGED <<req, before>>
    BY <1>2 DEF LoadObject, FindProgram, QueryOldProg
  <2>2. \E label \in {"ip_blacklist", "attach", "xdp_attach", "close_failed"} : Goto(i, label)
    BY <1>2 DEF LoadObject, FindProgram, QueryOldProg, Advance
  <2> QED
    BY <1>0, <2>1, <2>2
<1>3. CASE SeedMap(i)
  BY <1>0, <1>3, SeedOrder DEF SeedMap, SeedPcs, Maps
<1>4. CASE XdpAttach(i)
  BY <1>0, <1>4 DEF XdpAttach, TryNextMode
<1>5. CASE GetPinnedLink(i) \/ UpdateLink(i)
  BY <1>0, <1>5 DEF GetPinnedLink, UpdateLink, TryNextMode
<1>6. CASE AttachLink(i) \/ PinLink(i)
  BY <1>0, <1>6 DEF AttachLink, PinLink, TryNextMode
<1>7. CASE CloseLink(i)
  BY <1>0, <1>7 DEF CloseLink, TryNextMode
<1>8. CASE CloseObject(i) \/ Crash(i)
  BY <1>0, <1>8 DEF CloseObject, Crash
<1>9. CASE UnloadGet(i) \/ UnloadClose(i) \/ Unlink(i)
  BY <1>0, <1>9 DEF UnloadGet, UnloadClose, Unlink
<1>10. CASE Detach(i)
  <2>1. pc[i] \in {"detach_drv", "detach_hw", "detach_skb"}
    BY <1>10, DetachOrder DEF Detach
  <2>2. pc' \in {[pc EXCEPT ![i] = AfterDetach[pc[i]]], [pc EXCEPT ![i] = "failed"]}
        /\ UNCHANGED <<req, before>>
    BY <1>10 DEF Detach
  <2> QED
    BY <1>0, <1>10, <2>1, <2>2, DetachOrder
<1> QED
  BY <1>1, <1>2, <1>3, <1>4, <1>5, <1>6, <1>7, <1>8, <1>9, <1>10 DEF Step

(* No step brings back a program of a load that had ended. *)
LEMMA StepCleanInv ==
  ASSUME TypeInv, CleanInv, NEW i \in Invocations,
         StartLoad(i) \/ StartUnload(i) \/ Step(i) \/ Crash(i)
  PROVE  CleanInv'
<1>0. /\ pc \in [Invocations -> Pcs]
      /\ slot \in [Slots -> Invocations \cup {None}]
      /\ before \in [Invocations -> SUBSET Invocations]
      /\ None \notin Invocations
  BY LoaderAssumption DEF TypeInv, TypeOK
<1>1. ASSUME NEW j \in Invocations, j # i
      PROVE  /\ \A k \in before'[j] : pc'[k] \in Ended
             /\ i \notin before'[j]
             /\ \A s \in Slots : slot[s] \notin before[j] => slot'[s] \notin before'[j]
  <2>1. before'[j] = before[j] /\ before[j] \subseteq Invocations
    BY <1>0, <1>1, StepControl
  <2>2. i \notin before[j]
    BY <1>1, StepControl DEF CleanInv
  <2>3. \A k \in before[j] : pc'[k] \in Ended
    BY <1>1, <2>1, <2>2, StepControl DEF CleanInv
  <2> QED
    BY <1>0, <2>1, <2>2, <2>3, StepSlots
<1>2. \A k \in before'[i] : pc'[k] \in Ended
  BY <1>0, StepControl DEF CleanInv
<1>3. ASSUME Detach(i), pc'[i] # "failed"
      PROVE  /\ before'[i] = before[i]
             /\ \A s \in Slots : slot'[s] = IF s = DetachSlot[pc[i]] THEN None ELSE slot[s]
             /\ None \notin before[i]
  BY <1>0, <1>3 DEF Detach, Goto
<1>4. pc'[i] = "detach_hw" => slot'["drv"] \notin before'[i]
  BY <1>3, StepControl DEF DetachSlot, Slots
<1>5. pc'[i] = "detach_skb" => slot'["drv"] \notin before'[i] /\ slot'["hw"] \notin before'[i]
  BY <1>3, StepControl DEF CleanInv, DetachSlot, Slots
<1>6. pc'[i] = "ok" /\ req'[i] = "unload" => \A s \in Slots : slot'[s] \notin before'[i]
  BY <1>3, StepControl DEF CleanInv, DetachSlot, Slots
<1>7. ASSUME NEW j \in Invocations, j # i
      PROVE  /\ pc'[j] = "detach_hw" => slot'["drv"] \notin before'[j]
             /\ pc'[j] = "detach_skb" => slot'["drv"] \notin before'[j] /\ slot'["hw"] \notin before'[j]
             /\ pc'[j] = "ok" /\ req'[j] = "unload" => \A s \in Slots : slot'[s] \notin before'[j]
  <2>1. pc'[j] = pc[j] /\ req'[j] = req[j]
    BY <1>7, StepControl
  <2>2. \A s \in Slots : slot[s] \notin before[j] => slot'[s] \notin before'[j]
    BY <1>1, <1>7
  <2> QED
    BY <2>1, <2>2 DEF CleanInv, Slots
<1> QED
  BY <1>1, <1>2, <1>4, <1>5, <1>6, <1>7 DEF CleanInv

(* The invariant holds throughout. *)
LEMMA CleanInvariance == Spec => []CleanInv
<1>1. Init => CleanInv
  BY DEF Init, CleanInv
<1>2. TypeInv /\ CleanInv /\ [Next]_vars => CleanInv'
  <2> SUFFICES ASSUME TypeInv, CleanInv, [Next]_vars PROVE CleanInv'
    OBVIOUS
  <2>1. CASE RecreateInterface
    BY <2>1, LoaderAssumption DEF RecreateInterface, CleanInv, TypeInv, TypeOK, Slots
  <2>2. CASE UNCHANGED vars
    BY <2>2 DEF vars, CleanInv
  <2> QED
    BY <2>1, <2>2, StepCleanInv DEF Next
<1> QED
  BY <1>1, <1>2, TypeInvariance, PTL DEF Spec

(* When zerehctl unload returns success, no program of a load that ended   *)
(* before the unload began is left in any slot.                            *)
THEOREM UnloadsAreClean == Spec => []CleanUnload
<1>1. CleanInv => CleanUnload
  BY DEF CleanInv, CleanUnload
<1> QED
  BY <1>1, CleanInvariance, PTL

-----------------------------------------------------------------------------
(***************************************************************************)
(* The loader implements AtomicSwap, and a completed load serves.          *)
(*                                                                         *)
(* What has to be shown beyond the invariants above is whose program a     *)
(* slot loses when a descriptor is closed.  LinkInv says it: a live link   *)
(* is pinned, or its creator still holds it and has its own program in it, *)
(* unless some unload has begun.                                           *)
(***************************************************************************)


Unsettled(i) == pc[i] \in {"pin", "close_link_failed"} /\ linkFd[i] = i

ControlInv ==
  /\ \A i \in Invocations : pc[i] = "idle" => req[i] = "none"
  /\ \A i \in Invocations : pc[i] \in UnloadPcs => req[i] = "unload"
  /\ \A i \in Invocations : pc[i] = "link_update" => linkFd[i] \in Invocations \ {i}

LinkInv ==
  /\ \A l \in Invocations : linkSlot[l] # None => slot[linkSlot[l]] # None
  /\ \A l, m \in Invocations : linkSlot[l] = linkSlot[m] /\ linkSlot[l] # None => l = m
  /\ \A i \in Invocations : Unsettled(i) /\ linkSlot[i] # None => slot[linkSlot[i]] = i
  /\ NoUnload => \A l \in Invocations : linkSlot[l] # None => pin = l \/ Unsettled(l)

Acts(i) == StartLoad(i) \/ StartUnload(i) \/ Step(i) \/ Crash(i)

-----------------------------------------------------------------------------
(***************************************************************************)
(* The control state.                                                      *)
(***************************************************************************)

(* What a step of i changes of the control state. *)
LEMMA StepFrame ==
  ASSUME TypeInv, NEW i \in Invocations, Acts(i)
  PROVE  /\ \A j \in Invocations \ {i} : pc'[j] = pc[j] /\ linkFd'[j] = linkFd[j] /\ req'[j] = req[j]
         /\ pc[i] # "idle" => req'[i] = req[i]
         /\ pc' \in [Invocations -> Pcs] /\ linkFd' \in [Invocations -> Invocations \cup {None}]
<1>1. TypeInv'  BY StepTypeInv DEF Acts
<1>2. pc' \in [Invocations -> Pcs] /\ linkFd' \in [Invocations -> Invocations \cup {None}]
  BY <1>1 DEF TypeInv, TypeOK
<1>3. \A j \in Invocations \ {i} : pc'[j] = pc[j] /\ req'[j] = req[j]
  BY StepControl DEF Acts
<1>0. /\ linkFd \in [Invocations -> Invocations \cup {None}]
      /\ req \in [Invocations -> Modes \cup {"unload", "none"}]
  BY DEF TypeInv, TypeOK
<1>4. \A j \in Invocations \ {i} : linkFd'[j] = linkFd[j]
  BY <1>0 DEF Acts, Step, StartLoad, StartUnload, Start, LoadObject, SeedMap, FindProgram, QueryOldProg,
       XdpAttach, GetPinnedLink, UpdateLink, AttachLink, PinLink, CloseLink, CloseObject, UnloadGet,
       UnloadClose, Unlink, Detach, Crash, SetHandles
<1>5. pc[i] # "idle" => req'[i] = req[i]
  BY DEF Acts, Step, StartLoad, StartUnload, Start, LoadObject, SeedMap, FindProgram, QueryOldProg,
       XdpAttach, GetPinnedLink, UpdateLink, AttachLink, PinLink, CloseLink, CloseObject, UnloadGet,
       UnloadClose, Unlink, Detach, Crash
<1>6. QED  BY <1>2, <1>3, <1>4, <1>5

(* Where a step of i leads to. *)
LEMMA StepTargets ==
  ASSUME TypeInv, NEW i \in Invocations, Acts(i)
  PROVE  /\ pc'[i] # "idle"
         /\ pc'[i] = "link_update" => pc[i] = "attach" /\ linkFd'[i] = pin /\ pin # None
         /\ pc'[i] \in UnloadPcs => pc[i] \in UnloadPcs \/ (pc[i] = "idle" /\ req'[i] = "unload")
<1> USE DEF Goto, UnloadPcs
<1>0. /\ pc \in [Invocations -> Pcs]
      /\ linkFd \in [Invocations -> Invocations \cup {None}]
      /\ req \in [Invocations -> Modes \cup {"unload", "none"}]
  BY DEF TypeInv, TypeOK
<1>1. CASE StartLoad(i) \/ StartUnload(i)
  BY <1>0, <1>1 DEF StartLoad, StartUnload, Start
<1>2. CASE LoadObject(i) \/ FindProgram(i) \/ QueryOldProg(i)
  BY <1>0, <1>2 DEF LoadObject, FindProgram, QueryOldProg, Advance
<1>3. CASE SeedMap(i)
  BY <1>0, <1>3, SeedOrder DEF SeedMap, SeedPcs, Maps
<1>4. CASE XdpAttach(i)
  BY <1>0, <1>4 DEF XdpAttach, TryNextMode
<1>5. CASE GetPinnedLink(i) \/ UpdateLink(i)
  BY <1>0, <1>5 DEF GetPinnedLink, UpdateLink, TryNextMode
<1>6. CASE AttachLink(i) \/ PinLink(i)
  BY <1>0, <1>6 DEF AttachLink, PinLink, TryNextMode
<1>7. CASE CloseLink(i)
  BY <1>0, <1>7 DEF CloseLink, TryNextMode
<1>8. CASE CloseObject(i) \/ Crash(i)
  BY <1>0, <1>8 DEF CloseObject, Crash
<1>9. CASE UnloadGet(i) \/ UnloadClose(i) \/ Unlink(i)
  BY <1>0, <1>9 DEF UnloadGet, UnloadClose, Unlink
<1>10. CASE Detach(i)
  <2>1. pc[i] \in {"detach_drv", "detach_hw", "detach_skb"}
    BY <1>10, DetachOrder DEF Detach
  <2>2. pc' \in {[pc EXCEPT ![i] = AfterDetach[pc[i]]], [pc EXCEPT ![i] = "failed"]}
    BY <1>10 DEF Detach
  <2>3. QED  BY <1>0, <2>1, <2>2, DetachOrder
<1>11. QED
  BY <1>1, <1>2, <1>3, <1>4, <1>5, <1>6, <1>7, <1>8, <1>9, <1>10 DEF Acts, Step

(* Every step keeps the control invariant. *)
LEMMA StepControlInv ==
  ASSUME TypeInv, OwnProgramInv, ControlInv, NEW i \in Invocations, Acts(i)
  PROVE  ControlInv'
<1>1. \A j \in Invocations \ {i} : pc'[j] = pc[j] /\ linkFd'[j] = linkFd[j] /\ req'[j] = req[j]
  BY StepFrame
<1>2. pc'[i] \in UnloadPcs => req'[i] = "unload"
  <2>1. "idle" \notin UnloadPcs  BY DEF UnloadPcs
  <2>2. QED  BY <2>1, StepFrame, StepTargets DEF ControlInv
<1>3. pc'[i] = "link_update" => linkFd'[i] \in Invocations \ {i}
  <2>1. pin \in Invocations \cup {None}  BY DEF TypeInv, TypeOK
  <2>2. pc[i] = "attach" => pin # i  BY DEF OwnProgramInv, Settled
  <2>3. QED  BY <2>1, <2>2, StepTargets
<1>4. QED  BY <1>1, <1>2, <1>3, StepTargets DEF ControlInv

-----------------------------------------------------------------------------
(***************************************************************************)
(* The links.                                                              *)
(***************************************************************************)

(* A step that leaves the kernel alone. *)
LEMMA QuietStep ==
  ASSUME LinkInv, NEW i \in Invocations,
         \A j \in Invocations \ {i} : pc'[j] = pc[j] /\ linkFd'[j] = linkFd[j],
         UNCHANGED <<slot, linkSlot, pin>>,
         NoUnload' => NoUnload,
         Unsettled(i)' <=> Unsettled(i)
  PROVE  LinkInv'
<1>1. \A j \in Invocations : Unsettled(j)' <=> Unsettled(j)  BY DEF Unsettled
<1>2. QED  BY <1>1 DEF LinkInv

(* A step of i that gives handles back. *)
LEMMA HandlesStep ==
  ASSUME TypeInv, OwnProgramInv, LinkInv, NEW i \in Invocations,
         NEW fds \in [Invocations -> Invocations \cup {None}], NEW pinned,
         SetHandles(fds, pinned),
         \A j \in Invocations \ {i} : pc'[j] = pc[j] /\ fds[j] = linkFd[j],
         ~Unsettled(i)',
         NoUnload' => NoUnload /\ pinned = pin /\ fds[i] = None
  PROVE  LinkInv'
<1> DEFINE held(l) == pinned = l \/ \E j \in Invocations : fds[j] = l
<1>1. /\ linkFd' = fds /\ pin' = pinned
      /\ \A l \in Invocations : linkSlot'[l] = IF held(l) THEN linkSlot[l] ELSE None
      /\ \A s \in Slots : slot'[s] = IF \E l \in Invocations : linkSlot[l] = s /\ ~held(l)
                                     THEN None ELSE slot[s]
  BY DEF SetHandles
<1> HIDE DEF held
<1>2. linkSlot \in [Invocations -> Slots \cup {None}]  BY DEF TypeInv, TypeOK
<1>3. ASSUME NEW l \in Invocations, linkSlot'[l] # None
      PROVE  held(l) /\ linkSlot'[l] = linkSlot[l] /\ slot'[linkSlot[l]] = slot[linkSlot[l]]
  <2>1. held(l) /\ linkSlot'[l] = linkSlot[l] /\ linkSlot[l] \in Slots  BY <1>1, <1>2, <1>3
  <2>2. ~ \E m \in Invocations : linkSlot[m] = linkSlot[l] /\ ~held(m)
    BY <1>3, <2>1 DEF LinkInv
  <2>3. QED  BY <1>1, <2>1, <2>2
<1>4. \A j \in Invocations : Unsettled(j)' => Unsettled(j) /\ j # i
  BY <1>1 DEF Unsettled
<1>5. ASSUME NoUnload', NEW l \in Invocations, linkSlot'[l] # None
      PROVE  pin' = l \/ Unsettled(l)'
  <2>1. NoUnload /\ pin' = pin /\ fds[i] = None  BY <1>1, <1>5
  <2>2. pin = l \/ Unsettled(l)  BY <1>3, <1>5, <2>1 DEF LinkInv
  <2>3. CASE l # i
    BY <1>1, <2>1, <2>2, <2>3 DEF Unsettled
  <2>4. CASE l = i /\ pin # i
    <3>1. PICK j \in Invocations : fds[j] = i  BY <1>1, <1>3, <1>5, <2>1, <2>4 DEF held
    <3>2. j # i  BY <2>1, <3>1, LoaderAssumption
    <3>3. pc[i] \in Settled  BY <3>1, <3>2 DEF OwnProgramInv
    <3>4. QED  BY <2>2, <2>4, <3>3 DEF Unsettled, Settled
  <2>5. QED  BY <2>1, <2>3, <2>4
<1>6. ASSUME NEW l \in Invocations, linkSlot'[l] # None
      PROVE  slot'[linkSlot'[l]] # None
  <2>1. linkSlot'[l] = linkSlot[l] /\ slot'[linkSlot[l]] = slot[linkSlot[l]]  BY <1>3, <1>6
  <2>2. QED  BY <1>6, <2>1 DEF LinkInv
<1>7. ASSUME NEW l \in Invocations, NEW m \in Invocations,
             linkSlot'[l] = linkSlot'[m], linkSlot'[l] # None
      PROVE  l = m
  <2>1. linkSlot'[l] = linkSlot[l] /\ linkSlot'[m] = linkSlot[m]  BY <1>3, <1>7
  <2>2. linkSlot[l] = linkSlot[m] /\ linkSlot[l] # None  BY <1>7, <2>1, Zenon
  <2>3. QED  BY <2>2, Zenon DEF LinkInv
<1>8. \A j \in Invocations : Unsettled(j)' /\ linkSlot'[j] # None => slot'[linkSlot'[j]] = j
  BY <1>3, <1>4 DEF LinkInv
<1>9. QED  BY <1>5, <1>6, <1>7, <1>8 DEF LinkInv

(* Every step keeps the link invariant. *)
LEMMA StepLinkInv ==
  ASSUME TypeInv, OwnProgramInv, ControlInv, LinkInv, NEW i \in Invocations, Acts(i)
  PROVE  LinkInv'
<1>0. /\ pc \in [Invocations -> Pcs]
      /\ linkFd \in [Invocations -> Invocations \cup {None}]
      /\ linkSlot \in [Invocations -> Slots \cup {None}]
      /\ slot \in [Slots -> Invocations \cup {None}]
      /\ None \notin Invocations /\ None \notin Slots
  BY LoaderAssumption DEF TypeInv, TypeOK, Slots
<1>1. \A j \in Invocations \ {i} : pc'[j] = pc[j] /\ linkFd'[j] = linkFd[j] /\ req'[j] = req[j]
  BY StepFrame
<1>2. NoUnload' => NoUnload
  BY <1>1, StepFrame DEF NoUnload, ControlInv
<1>3. \A j \in Invocations \ {i} : Unsettled(j)' <=> Unsettled(j)
  BY <1>1 DEF Unsettled
<1>4. ASSUME UNCHANGED <<slot, linkSlot, pin>>, Unsettled(i)' <=> Unsettled(i)
      PROVE  LinkInv'
  BY <1>1, <1>2, <1>4, QuietStep
<1>5. CASE \/ StartLoad(i) \/ StartUnload(i) \/ LoadObject(i) \/ FindProgram(i) \/ QueryOldProg(i)
           \/ CloseObject(i) \/ UnloadGet(i)
  <2>1. UNCHANGED <<slot, linkSlot, pin>>
    BY <1>5 DEF StartLoad, StartUnload, Start, LoadObject, FindProgram, QueryOldProg,
                CloseObject, UnloadGet, kernel
  <2>2. ~Unsettled(i) /\ ~Unsettled(i)'
    BY <1>0, <1>5 DEF StartLoad, StartUnload, Start, LoadObject, FindProgram, QueryOldProg,
                CloseObject, UnloadGet, Advance, Goto, Unsettled
  <2>3. QED  BY <1>4, <2>1, <2>2
<1>6. CASE SeedMap(i)
  <2>1. UNCHANGED <<slot, linkSlot, pin>>  BY <1>6 DEF SeedMap, kernel
  <2>2. ~Unsettled(i) /\ ~Unsettled(i)'
    BY <1>0, <1>6, SeedOrder DEF SeedMap, SeedPcs, Maps, Goto, Unsettled
  <2>3. QED  BY <1>4, <2>1, <2>2
<1>7. CASE XdpAttach(i)
  <2>1. ~Unsettled(i) /\ ~Unsettled(i)' /\ UNCHANGED <<linkSlot, pin>>
    BY <1>0, <1>7 DEF XdpAttach, TryNextMode, Goto, Unsettled
  <2>2. CASE UNCHANGED slot  BY <1>4, <2>1, <2>2
  <2>3. CASE slot' # slot
    <3>1. PICK s : ~LinkHolds(s) /\ slot' = [slot EXCEPT ![s] = i]
      BY <1>7, <2>3 DEF XdpAttach, XdpAttachAllowed
    <3>2. \A l \in Invocations : linkSlot[l] # None => slot'[linkSlot[l]] = slot[linkSlot[l]]
      BY <1>0, <3>1 DEF LinkHolds
    <3>3. QED  BY <1>2, <1>3, <2>1, <3>2 DEF LinkInv
  <2>4. QED  BY <2>2, <2>3
<1>8. CASE GetPinnedLink(i)
  <2>1. UNCHANGED <<slot, linkSlot, pin>>  BY <1>8 DEF GetPinnedLink, kernel
  <2>2. ~Unsettled(i) /\ ~Unsettled(i)'
    BY <1>0, <1>8 DEF GetPinnedLink, TryNextMode, Goto, Unsettled
  <2>3. QED  BY <1>4, <2>1, <2>2
<1>9. CASE UpdateLink(i)
  <2> DEFINE L == linkFd[i]
  <2>1. L \in Invocations /\ L # i  BY <1>9 DEF UpdateLink, ControlInv
  <2>2. UNCHANGED <<linkSlot, pin, linkFd>> /\ ~Unsettled(i) /\ ~Unsettled(i)'
    BY <1>0, <1>9, <2>1 DEF UpdateLink, Goto, Unsettled
  <2>3. CASE UNCHANGED slot  BY <1>4, <2>2, <2>3
  <2>4. CASE slot' # slot
    <3>1. linkSlot[L] # None /\ slot' = [slot EXCEPT ![linkSlot[L]] = i]
      BY <1>9, <2>4 DEF UpdateLink
    <3>2. pc[L] \in Settled  BY <2>1 DEF OwnProgramInv
    <3>3. ~Unsettled(L)  BY <3>2 DEF Unsettled, Settled
    <3>4. \A l \in Invocations : linkSlot[l] # None => slot'[linkSlot[l]] # None
      BY <1>0, <3>1 DEF LinkInv
    <3>5. \A l \in Invocations : l # L /\ linkSlot[l] # None => slot'[linkSlot[l]] = slot[linkSlot[l]]
      BY <1>0, <2>1, <3>1 DEF LinkInv
    <3> HIDE DEF L
    <3>6. QED  BY <1>2, <1>3, <2>2, <3>3, <3>4, <3>5 DEF LinkInv
  <2>5. QED  BY <2>3, <2>4
<1>10. CASE AttachLink(i)
  <2>1. ~Unsettled(i)  BY <1>10 DEF AttachLink, Unsettled
  <2>2. CASE UNCHANGED <<slot, linkSlot, linkFd>> /\ TryNextMode(i)
    <3>1. ~Unsettled(i)' /\ UNCHANGED pin
      BY <1>0, <1>10, <2>2 DEF AttachLink, TryNextMode, Goto, Unsettled
    <3>2. QED  BY <1>4, <2>1, <2>2, <3>1
  <2>3. CASE /\ slot[DefaultSlot] = None
             /\ slot' = [slot EXCEPT ![DefaultSlot] = i]
             /\ linkSlot' = [linkSlot EXCEPT ![i] = DefaultSlot]
             /\ linkFd' = [linkFd EXCEPT ![i] = i]
             /\ Goto(i, "pin")
             /\ UNCHANGED pin
    <3>1. DefaultSlot \in Slots  BY DEF DefaultSlot, Slots
    <3>2. \A l \in Invocations : linkSlot[l] # None => linkSlot[l] # DefaultSlot
      BY <2>3 DEF LinkInv
    <3>3. Unsettled(i)' /\ linkSlot'[i] = DefaultSlot /\ slot'[DefaultSlot] = i
      BY <1>0, <2>3, <3>1 DEF Goto, Unsettled
    <3>4. \A l \in Invocations \ {i} : /\ linkSlot'[l] = linkSlot[l]
                                       /\ linkSlot[l] # None => slot'[linkSlot[l]] = slot[linkSlot[l]]
      BY <1>0, <2>3, <3>1, <3>2
    <3>5. QED  BY <1>0, <1>2, <1>3, <2>3, <3>2, <3>3, <3>4 DEF LinkInv
  <2>4. QED  BY <1>10, <2>2, <2>3 DEF AttachLink, LinkAttachAllowed
<1>11. CASE PinLink(i)
  <2>1. UNCHANGED <<slot, linkSlot, linkFd>> /\ Unsettled(i)
    BY <1>11 DEF PinLink, Unsettled, OwnProgramInv
  <2>2. CASE UNCHANGED pin /\ Goto(i, "close_link_failed")
    <3>1. Unsettled(i)'  BY <1>0, <2>1, <2>2 DEF Unsettled, Goto
    <3>2. QED  BY <1>4, <2>1, <2>2, <3>1
  <2>3. CASE pin = None /\ pin' = i /\ Goto(i, "close_link")
    <3>1. ~Unsettled(i)'  BY <1>0, <2>3 DEF Unsettled, Goto
    <3>2. QED  BY <1>0, <1>2, <1>3, <2>1, <2>3, <3>1 DEF LinkInv
  <2>4. QED  BY <1>11, <2>2, <2>3 DEF PinLink
<1>12. CASE CloseLink(i) \/ UnloadClose(i) \/ Crash(i)
  <2> DEFINE fds == [linkFd EXCEPT ![i] = None]
  <2>1. SetHandles(fds, pin)  BY <1>12 DEF CloseLink, UnloadClose, Crash
  <2>2. ~Unsettled(i)'
    <3>1. linkFd'[i] = None  BY <1>0, <2>1 DEF SetHandles
    <3>2. QED  BY <1>0, <3>1 DEF Unsettled
  <2>3. fds \in [Invocations -> Invocations \cup {None}] /\ fds[i] = None
        /\ \A j \in Invocations \ {i} : fds[j] = linkFd[j]
    BY <1>0
  <2> HIDE DEF fds
  <2>4. QED  BY <1>1, <1>2, <2>1, <2>2, <2>3, HandlesStep
<1>13. CASE Unlink(i)
  <2>1. req[i] = "unload" /\ req' = req  BY <1>13 DEF Unlink, ControlInv, UnloadPcs
  <2>2. ~NoUnload' /\ ~Unsettled(i) /\ ~Unsettled(i)'
    BY <1>0, <1>13, <2>1 DEF NoUnload, Unlink, Goto, Unsettled
  <2>3. CASE SetHandles(linkFd, None)
    BY <1>0, <1>1, <2>2, <2>3, HandlesStep
  <2>4. CASE UNCHANGED <<slot, linkSlot, pin>>
    BY <1>4, <2>2, <2>4
  <2>5. QED  BY <1>13, <2>3, <2>4 DEF Unlink
<1>14. CASE Detach(i)
  <2>1. pc[i] \in {"detach_drv", "detach_hw", "detach_skb"} /\ UNCHANGED <<linkSlot, pin, linkFd>>
    BY <1>14, DetachOrder DEF Detach
  <2>2. pc' \in {[pc EXCEPT ![i] = AfterDetach[pc[i]]], [pc EXCEPT ![i] = "failed"]}
    BY <1>14 DEF Detach, Goto
  <2>3. ~Unsettled(i) /\ ~Unsettled(i)'
    BY <1>0, <2>1, <2>2, DetachOrder DEF Unsettled
  <2>4. CASE UNCHANGED slot  BY <1>4, <2>1, <2>3, <2>4
  <2>5. CASE slot' # slot
    <3>1. PICK s : ~LinkHolds(s) /\ slot' = [slot EXCEPT ![s] = None]
      BY <1>14, <2>5 DEF Detach
    <3>2. \A l \in Invocations : linkSlot[l] # None => slot'[linkSlot[l]] = slot[linkSlot[l]]
      BY <1>0, <3>1 DEF LinkHolds
    <3>3. QED  BY <1>2, <1>3, <2>1, <2>3, <3>2 DEF LinkInv
  <2>6. QED  BY <2>4, <2>5
<1>15. QED
  BY <1>5, <1>6, <1>7, <1>8, <1>9, <1>10, <1>11, <1>12, <1>13, <1>14 DEF Acts, Step

(* The two invariants hold throughout. *)
LEMMA LinkInvariance == Spec => [](ControlInv /\ LinkInv)
<1>1. Init => ControlInv /\ LinkInv
  <2>1. Init => ControlInv  BY DEF Init, ControlInv, UnloadPcs
  <2>2. Init => LinkInv  BY DEF Init, LinkInv, Unsettled
  <2>3. QED  BY <2>1, <2>2
<1>2. TypeInv /\ OwnProgramInv /\ ControlInv /\ LinkInv /\ [Next]_vars => (ControlInv /\ LinkInv)'
  <2> SUFFICES ASSUME TypeInv, OwnProgramInv, ControlInv, LinkInv, [Next]_vars
               PROVE  ControlInv' /\ LinkInv'
    OBVIOUS
  <2>1. CASE RecreateInterface
    <3>1. linkSlot' = [l \in Invocations |-> None] /\ UNCHANGED <<pc, req, linkFd>>
      BY <2>1 DEF RecreateInterface
    <3>2. QED  BY <3>1 DEF ControlInv, LinkInv
  <2>2. CASE UNCHANGED vars
    BY <2>2 DEF vars, ControlInv, LinkInv, Unsettled, NoUnload
  <2>3. QED
    BY <2>1, <2>2, StepControlInv, StepLinkInv DEF Next, Acts
<1>3. QED  BY <1>1, <1>2, TypeInvariance, OwnProgramInvariance, PTL DEF Spec

-----------------------------------------------------------------------------
(***************************************************************************)
(* The steps of AtomicSwap.                                                *)
(***************************************************************************)

Phase == [i \in Invocations |-> PhaseOf(i)]
Unloads == {i \in Invocations : req[i] = "unload"}

(* The phase that belongs to each point of the loader. *)
LEMMA Phases ==
  /\ PhaseAt("idle") = "idle"
  /\ \A p \in {"load_object", "ip_blacklist", "pow_bloom", "prog_array"} : PhaseAt(p) = "loading"
  /\ \A p \in {"find_program", "attach", "xdp_attach", "link_update", "link_attach",
                "close_link_failed"} : PhaseAt(p) = "ready"
  /\ PhaseAt("pin") = "offered"
  /\ \A p \in {"close_link", "close_ok"} : PhaseAt(p) = "installed"
  /\ PhaseAt("close_failed") = "giving_up"
  /\ \A p \in UnloadPcs : PhaseAt(p) = "unloading"
  /\ PhaseAt("ok") = "ok" /\ PhaseAt("failed") = "failed" /\ PhaseAt("crashed") = "crashed"
  BY DEF PhaseAt, SeedPcs, Maps, UnloadPcs

(* A step of i moves i from one phase to another, or nothing. *)
LEMMA PhaseStep ==
  ASSUME NEW i \in Invocations,
         \A j \in Invocations \ {i} : pc'[j] = pc[j] /\ linkFd'[j] = linkFd[j]
  PROVE  /\ Phase' = [Phase EXCEPT ![i] = PhaseOf(i)']
         /\ Phase[i] = PhaseOf(i)
         /\ PhaseOf(i)' = PhaseOf(i) => Phase' = Phase
<1>1. \A j \in Invocations \ {i} : PhaseOf(j)' = PhaseOf(j)  BY DEF PhaseOf
<1>2. QED  BY <1>1 DEF Phase

(* Without an unload, closing a descriptor takes away nothing but the      *)
(* program of a load that was not settled.                                 *)
LEMMA ClosingRemoves ==
  ASSUME TypeInv, LinkInv, NEW i \in Invocations,
         SetHandles([linkFd EXCEPT ![i] = None], pin), NEW s \in Slots
  PROVE  \/ slot'[s] = slot[s]
         \/ slot'[s] = None /\ (~NoUnload \/ (Unsettled(i) /\ slot[s] = i))
<1> DEFINE fds == [linkFd EXCEPT ![i] = None]
           held(l) == pin = l \/ \E j \in Invocations : fds[j] = l
<1>1. slot'[s] = IF \E l \in Invocations : linkSlot[l] = s /\ ~held(l) THEN None ELSE slot[s]
  BY DEF SetHandles
<1>2. \A j \in Invocations \ {i} : fds[j] = linkFd[j]  BY DEF TypeInv, TypeOK
<1>3. ASSUME NEW l \in Invocations, linkSlot[l] = s, ~held(l), NoUnload
      PROVE  l = i /\ Unsettled(i) /\ slot[s] = i
  <2>1. s # None  BY LoaderAssumption DEF Slots
  <2>2. Unsettled(l)  BY <1>3, <2>1 DEF LinkInv
  <2>3. l = i  BY <1>2, <1>3, <2>2 DEF Unsettled
  <2>4. QED  BY <1>3, <2>1, <2>2, <2>3 DEF LinkInv
<1>4. QED  BY <1>1, <1>3

(* Nothing that AtomicSwap speaks of changes. *)
Hidden == UNCHANGED <<slot, Phase, Unloads, ifgen>>

(* A load before the attach, and its attempts that fail. *)
LEMMA PreparingSteps ==
  ASSUME TypeInv, ControlInv, NEW i \in Invocations, Acts(i),
         UNCHANGED <<slot, req, ifgen>>,
         PhaseOf(i) \in {"loading", "ready"},
         \/ PhaseOf(i)' = PhaseOf(i)
         \/ PhaseOf(i) = "loading" /\ PhaseOf(i)' = "ready"
         \/ PhaseOf(i)' = "giving_up"
  PROVE  Hidden \/ Atomic!Act(i)
<1>1. \A j \in Invocations \ {i} : pc'[j] = pc[j] /\ linkFd'[j] = linkFd[j]  BY StepFrame
<1>2. /\ Phase' = [Phase EXCEPT ![i] = PhaseOf(i)'] /\ Phase[i] = PhaseOf(i)
      /\ PhaseOf(i)' = PhaseOf(i) => Phase' = Phase
  BY <1>1, PhaseStep
<1>3. Unloads' = Unloads  BY DEF Unloads
<1>4. CASE PhaseOf(i)' = PhaseOf(i)
  BY <1>2, <1>3, <1>4 DEF Hidden
<1>5. CASE PhaseOf(i) = "loading" /\ PhaseOf(i)' = "ready"
  <2>1. Atomic!Move(i, {"loading"}, "ready")  BY <1>2, <1>5 DEF Atomic!Move, Phase
  <2>2. Atomic!Prepare(i)  BY <1>3, <2>1 DEF Atomic!Prepare, Unloads
  <2>3. QED  BY <2>2 DEF Atomic!Act
<1>6. CASE PhaseOf(i)' = "giving_up"
  <2>1. Atomic!Move(i, {"loading", "ready"}, "giving_up")  BY <1>2, <1>6 DEF Atomic!Move, Phase
  <2>2. Atomic!GiveUp(i)  BY <1>3, <2>1 DEF Atomic!GiveUp, Atomic!OnlyRemoves, Unloads
  <2>3. QED  BY <2>2 DEF Atomic!Act
<1>7. QED  BY <1>4, <1>5, <1>6

(* A load that takes a slot. *)
LEMMA InstallingSteps ==
  ASSUME NEW i \in Invocations,
         \A j \in Invocations \ {i} : pc'[j] = pc[j] /\ linkFd'[j] = linkFd[j],
         UNCHANGED <<req, ifgen>>,
         PhaseOf(i) = "ready",
         NEW s \in Slots, slot' = [slot EXCEPT ![s] = i],
         \/ PhaseOf(i)' = "installed"
         \/ PhaseOf(i)' = "offered" /\ slot[s] = None
  PROVE  Atomic!Act(i)
<1>1. Phase' = [Phase EXCEPT ![i] = PhaseOf(i)'] /\ Phase[i] = PhaseOf(i)
  BY PhaseStep
<1>2. Unloads' = Unloads  BY DEF Unloads
<1>3. CASE PhaseOf(i)' = "installed"
  <2>1. Atomic!Move(i, {"ready"}, "installed")  BY <1>1, <1>3 DEF Atomic!Move, Phase
  <2>2. Atomic!Install(i)  BY <1>2, <2>1 DEF Atomic!Install, Unloads
  <2>3. QED  BY <2>2 DEF Atomic!Act
<1>4. CASE PhaseOf(i)' = "offered" /\ slot[s] = None
  <2>1. Atomic!Move(i, {"ready"}, "offered")  BY <1>1, <1>4 DEF Atomic!Move, Phase
  <2>2. Atomic!Offer(i)  BY <1>2, <1>4, <2>1 DEF Atomic!Offer, Unloads
  <2>3. QED  BY <2>2 DEF Atomic!Act
<1>5. QED  BY <1>3, <1>4

(* An unload, which may remove anything. *)
LEMMA UnloadingSteps ==
  ASSUME NEW i \in Invocations, req[i] = "unload",
         \A j \in Invocations \ {i} : pc'[j] = pc[j] /\ linkFd'[j] = linkFd[j],
         UNCHANGED <<req, ifgen>>,
         PhaseOf(i) = "unloading", PhaseOf(i)' \in {"unloading", "ok", "failed"},
         \A s \in Slots : slot'[s] \in {slot[s], None}
  PROVE  Atomic!Act(i)
<1>1. /\ Phase' = [Phase EXCEPT ![i] = PhaseOf(i)'] /\ Phase[i] = PhaseOf(i)
      /\ PhaseOf(i)' = PhaseOf(i) => Phase' = Phase
  BY PhaseStep
<1>2. Unloads' = Unloads /\ Unloads # {}  BY DEF Unloads
<1>3. Atomic!OnlyRemoves({})  BY <1>2 DEF Atomic!OnlyRemoves, Unloads
<1>4. CASE PhaseOf(i)' = "unloading"
  <2>1. Atomic!Lapse(i)  BY <1>1, <1>2, <1>3, <1>4 DEF Atomic!Lapse, Phase, Unloads
  <2>2. QED  BY <2>1 DEF Atomic!Act
<1>5. CASE PhaseOf(i)' \in {"ok", "failed"}
  <2>1. \E to \in {"ok", "failed"} : Atomic!Move(i, {"unloading"}, to)  BY <1>1, <1>5 DEF Atomic!Move, Phase
  <2>2. Atomic!ReturnUnload(i)  BY <1>2, <1>3, <2>1 DEF Atomic!ReturnUnload, Unloads
  <2>3. QED  BY <2>2 DEF Atomic!Act
<1>6. QED  BY <1>4, <1>5

(* Closing a link, after the program was installed or withdrawn or never   *)
(* made it.                                                                *)
LEMMA ClosingStep ==
  ASSUME TypeInv, OwnProgramInv, LinkInv, NEW i \in Invocations, CloseLink(i), OwnProgramInv',
         \A j \in Invocations \ {i} : pc'[j] = pc[j] /\ linkFd'[j] = linkFd[j]
  PROVE  Atomic!Act(i)
<1>0. /\ pc \in [Invocations -> Pcs] /\ slot \in [Slots -> Invocations \cup {None}]
      /\ linkFd \in [Invocations -> Invocations \cup {None}]
  BY DEF TypeInv, TypeOK
<1>1. /\ Phase' = [Phase EXCEPT ![i] = PhaseOf(i)'] /\ Phase[i] = PhaseOf(i)
      /\ PhaseOf(i)' = PhaseOf(i) => Phase' = Phase
  BY PhaseStep
<1>2. Unloads' = Unloads /\ ifgen' = ifgen /\ (~NoUnload => Unloads # {})
  BY DEF CloseLink, Unloads, NoUnload
<1>3. \A s \in Slots :
        \/ slot'[s] = slot[s]
        \/ slot'[s] = None /\ (~NoUnload \/ (Unsettled(i) /\ slot[s] = i))
  BY ClosingRemoves DEF CloseLink
<1>4. CASE pc[i] = "close_link"
  <2>1. ~Unsettled(i) /\ pc'[i] = "close_ok"  BY <1>0, <1>4 DEF Unsettled, CloseLink, Goto
  <2>2. PhaseOf(i) = "installed" /\ PhaseOf(i)' = "installed"  BY <1>4, <2>1, Phases DEF PhaseOf
  <2>3. Atomic!OnlyRemoves({})  BY <1>2, <1>3, <2>1 DEF Atomic!OnlyRemoves, Unloads
  <2>4. Atomic!Lapse(i)  BY <1>1, <1>2, <2>2, <2>3 DEF Atomic!Lapse, Phase, Unloads
  <2>5. QED  BY <2>4 DEF Atomic!Act
<1>5. CASE pc[i] = "close_link_failed"
  <2>1. pc'[i] \in {"attach", "close_failed"}
    BY <1>0, <1>5 DEF CloseLink, TryNextMode, Goto
  <2>2. PhaseOf(i)' \in {"ready", "giving_up"}  BY <2>1, Phases DEF PhaseOf
  <2>3. CASE linkFd[i] = i
    <3>1. PhaseOf(i) = "offered"  BY <1>5, <2>3 DEF PhaseOf
    <3>2. Atomic!OnlyRemoves({i})  BY <1>2, <1>3 DEF Atomic!OnlyRemoves, Unloads
    <3>3. \A s \in Slots : slot'[s] # i
      <4>1. \A s \in Slots : slot'[s] = i => pc'[i] \in Settled \/ OwnLink(i, s)'
        BY Zenon DEF OwnProgramInv
      <4>2. pc'[i] \notin Settled /\ pc'[i] \notin {"pin", "close_link_failed"}  BY <2>1 DEF Settled
      <4>3. QED  BY <4>1, <4>2, Zenon DEF OwnLink
    <3>4. \E to \in {"ready", "giving_up"} : Atomic!Move(i, {"offered"}, to)
      BY <1>1, <2>2, <3>1 DEF Atomic!Move, Phase
    <3>5. Atomic!Withdraw(i)  BY <1>2, <3>2, <3>3, <3>4 DEF Atomic!Withdraw, Unloads
    <3>6. QED  BY <3>5 DEF Atomic!Act
  <2>4. CASE linkFd[i] # i
    <3>1. PhaseOf(i) = "ready" /\ ~Unsettled(i)  BY <1>5, <2>4, Phases DEF PhaseOf, Unsettled
    <3>2. Atomic!OnlyRemoves({})  BY <1>2, <1>3, <3>1 DEF Atomic!OnlyRemoves, Unloads
    <3>3. CASE PhaseOf(i)' = "ready"
      <4>1. Atomic!Lapse(i)  BY <1>1, <1>2, <3>1, <3>2, <3>3 DEF Atomic!Lapse, Phase, Unloads
      <4>2. QED  BY <4>1 DEF Atomic!Act
    <3>4. CASE PhaseOf(i)' = "giving_up"
      <4>1. Atomic!Move(i, {"loading", "ready"}, "giving_up")
        BY <1>1, <3>1, <3>4 DEF Atomic!Move, Phase
      <4>2. Atomic!GiveUp(i)  BY <1>2, <3>2, <4>1 DEF Atomic!GiveUp, Unloads
      <4>3. QED  BY <4>2 DEF Atomic!Act
    <3>5. QED  BY <2>2, <3>3, <3>4
  <2>5. QED  BY <2>3, <2>4
<1>6. QED  BY <1>4, <1>5 DEF CloseLink

(* Dying, at whatever point. *)
LEMMA CrashStep ==
  ASSUME TypeInv, LinkInv, NEW i \in Invocations, Crash(i),
         \A j \in Invocations \ {i} : pc'[j] = pc[j] /\ linkFd'[j] = linkFd[j]
  PROVE  Atomic!Act(i)
<1>0. pc \in [Invocations -> Pcs]  BY DEF TypeInv, TypeOK
<1>1. Phase' = [Phase EXCEPT ![i] = PhaseOf(i)'] /\ Phase[i] = PhaseOf(i)
  BY PhaseStep
<1>2. Unloads' = Unloads /\ ifgen' = ifgen /\ (~NoUnload => Unloads # {})
  BY DEF Crash, Unloads, NoUnload
<1>3. \A s \in Slots :
        \/ slot'[s] = slot[s]
        \/ slot'[s] = None /\ (~NoUnload \/ (Unsettled(i) /\ slot[s] = i))
  BY ClosingRemoves DEF Crash
<1>4. PhaseOf(i)' = "crashed"
  <2>1. pc'[i] = "crashed"  BY <1>0 DEF Crash, Goto
  <2>2. QED  BY <2>1, Phases DEF PhaseOf
<1>5. PhaseOf(i) \notin {"idle", "ok", "failed", "crashed"}
  <2>1. pc[i] \in LoadPcs \cup UnloadPcs  BY <1>0 DEF Crash, Pcs
  <2>2. CASE pc[i] \in LoadPcs
    BY <2>2, Phases DEF LoadPcs, AttachPcs, SeedPcs, Maps, PhaseOf
  <2>3. CASE pc[i] \in UnloadPcs
    <3>1. pc[i] # "close_link_failed"  BY <2>3 DEF UnloadPcs
    <3>2. QED  BY <2>3, <3>1, Phases DEF PhaseOf
  <2>4. QED  BY <2>1, <2>2, <2>3
<1>6. Unsettled(i) => PhaseOf(i) = "offered"  BY Phases DEF Unsettled, PhaseOf
<1>7. Atomic!OnlyRemoves(IF Phase[i] = "offered" THEN {i} ELSE {})
  BY <1>1, <1>2, <1>3, <1>6 DEF Atomic!OnlyRemoves, Unloads
<1>8. Atomic!Crash(i)
  BY <1>1, <1>2, <1>4, <1>5, <1>7 DEF Atomic!Crash, Atomic!Returned, Phase, Unloads
<1>9. QED  BY <1>8 DEF Atomic!Act

(* Every step of an invocation is one of its steps in AtomicSwap, or       *)
(* hidden.                                                                 *)
LEMMA StepSimulation ==
  ASSUME TypeInv, OwnProgramInv, ControlInv, LinkInv, NEW i \in Invocations, Acts(i)
  PROVE  Hidden \/ Atomic!Act(i)
<1>0. /\ pc \in [Invocations -> Pcs]
      /\ linkFd \in [Invocations -> Invocations \cup {None}]
      /\ slot \in [Slots -> Invocations \cup {None}]
      /\ req \in [Invocations -> Modes \cup {"unload", "none"}]
  BY DEF TypeInv, TypeOK
<1>1. \A j \in Invocations \ {i} : pc'[j] = pc[j] /\ linkFd'[j] = linkFd[j] /\ req'[j] = req[j]
  BY StepFrame
<1>2. /\ Phase' = [Phase EXCEPT ![i] = PhaseOf(i)'] /\ Phase[i] = PhaseOf(i)
      /\ PhaseOf(i)' = PhaseOf(i) => Phase' = Phase
  BY <1>1, PhaseStep
<1>3. CASE StartLoad(i)
  <2>1. pc[i] = "idle" /\ pc'[i] \in {"load_object", "failed"} /\ UNCHANGED <<slot, ifgen>>
        /\ req'[i] \in Modes
    BY <1>0, <1>3 DEF StartLoad, Start, Goto, kernel
  <2>2. PhaseOf(i) = "idle" /\ PhaseOf(i)' \in {"loading", "failed"}
    BY <2>1, Phases DEF PhaseOf
  <2>3. Unloads' = Unloads  BY <1>1, <2>1 DEF Unloads, Modes, ControlInv
  <2>4. \E to \in {"loading", "failed"} : Atomic!Move(i, {"idle"}, to)
    BY <1>2, <2>2 DEF Atomic!Move, Phase
  <2>5. Atomic!BeginLoad(i)  BY <2>1, <2>3, <2>4 DEF Atomic!BeginLoad, Unloads
  <2>6. QED  BY <2>5 DEF Atomic!Act
<1>4. CASE StartUnload(i)
  <2>1. pc[i] = "idle" /\ pc'[i] \in {"unload_get", "failed"} /\ UNCHANGED <<slot, ifgen>>
        /\ req'[i] = "unload"
    BY <1>0, <1>4 DEF StartUnload, Start, Goto, kernel
  <2>2. PhaseOf(i) = "idle" /\ PhaseOf(i)' \in {"unloading", "failed"}
    BY <2>1, Phases DEF PhaseOf, UnloadPcs
  <2>3. Unloads' = Unloads \cup {i}  BY <1>1, <2>1 DEF Unloads
  <2>4. \E to \in {"unloading", "failed"} : Atomic!Move(i, {"idle"}, to)
    BY <1>2, <2>2 DEF Atomic!Move, Phase
  <2>5. Atomic!BeginUnload(i)  BY <2>1, <2>3, <2>4 DEF Atomic!BeginUnload, Unloads
  <2>6. QED  BY <2>5 DEF Atomic!Act
<1>5. CASE LoadObject(i) \/ SeedMap(i)
  <2>1. /\ pc[i] \in {"load_object", "ip_blacklist", "pow_bloom", "prog_array"}
        /\ UNCHANGED <<slot, req, ifgen>>
    BY <1>5 DEF LoadObject, SeedMap, SeedPcs, Maps, kernel
  <2>2. pc'[i] \in {"ip_blacklist", "pow_bloom", "prog_array", "find_program", "close_failed"}
    BY <1>0, <1>5, SeedOrder DEF LoadObject, SeedMap, SeedPcs, Maps, Advance, Goto
  <2>3. PhaseOf(i) = "loading" /\ PhaseOf(i)' \in {"loading", "ready", "giving_up"}
    BY <2>1, <2>2, Phases DEF PhaseOf
  <2>4. QED  BY <2>1, <2>3, PreparingSteps
<1>6. CASE FindProgram(i) \/ QueryOldProg(i) \/ GetPinnedLink(i)
  <2>1. /\ pc[i] \in {"find_program", "attach"}
        /\ UNCHANGED <<slot, req, ifgen>>
    BY <1>6 DEF FindProgram, QueryOldProg, GetPinnedLink, kernel
  <2>2. pc'[i] \in {"attach", "xdp_attach", "link_update", "link_attach", "close_failed"}
    <3>1. CASE FindProgram(i)  BY <1>0, <3>1 DEF FindProgram, Advance, Goto
    <3>2. CASE QueryOldProg(i)  BY <1>0, <3>2 DEF QueryOldProg, Advance, TryNextMode, Goto
    <3>3. CASE GetPinnedLink(i)  BY <1>0, <3>3 DEF GetPinnedLink, Advance, TryNextMode, Goto
    <3>4. QED  BY <1>6, <3>1, <3>2, <3>3
  <2>3. PhaseOf(i) = "ready" /\ PhaseOf(i)' \in {"ready", "giving_up"}
    BY <2>1, <2>2, Phases DEF PhaseOf
  <2>4. QED  BY <2>1, <2>3, PreparingSteps
<1>7. CASE XdpAttach(i)
  <2>1. pc[i] = "xdp_attach" /\ UNCHANGED <<req, ifgen>>  BY <1>7 DEF XdpAttach
  <2>2. PhaseOf(i) = "ready"  BY <2>1, Phases DEF PhaseOf
  <2>3. CASE TryNextMode(i) /\ UNCHANGED slot
    <3>1. pc'[i] \in {"attach", "close_failed"}  BY <1>0, <2>3 DEF TryNextMode, Goto
    <3>2. PhaseOf(i)' \in {"ready", "giving_up"}  BY <3>1, Phases DEF PhaseOf
    <3>3. QED  BY <2>1, <2>2, <2>3, <3>2, PreparingSteps
  <2>4. CASE slot' = [slot EXCEPT ![ModeToSlot[mode[i]]] = i] /\ Goto(i, "close_ok")
    <3>1. ModeToSlot[mode[i]] \in Slots
      <4>1. mode[i] \in Modes  BY <2>1 DEF TypeInv, AttachPcs
      <4>2. QED  BY <4>1, ModeSlots, Zenon
    <3>2. pc'[i] = "close_ok"  BY <1>0, <2>4 DEF Goto
    <3>3. PhaseOf(i)' = "installed"  BY <3>2, Phases DEF PhaseOf
    <3>4. QED  BY <1>1, <2>1, <2>2, <2>4, <3>1, <3>3, InstallingSteps
  <2>5. QED  BY <1>7, <2>3, <2>4 DEF XdpAttach
<1>8. CASE UpdateLink(i)
  <2>1. pc[i] = "link_update" /\ UNCHANGED <<req, ifgen, linkFd>>  BY <1>8 DEF UpdateLink
  <2>2. PhaseOf(i) = "ready" /\ linkFd[i] \in Invocations \ {i}
    BY <2>1, Phases DEF PhaseOf, ControlInv
  <2>3. CASE UNCHANGED slot /\ Goto(i, "close_link_failed")
    <3>1. pc'[i] = "close_link_failed" /\ linkFd'[i] # i  BY <1>0, <2>1, <2>2, <2>3 DEF Goto
    <3>2. PhaseOf(i)' = "ready"  BY <3>1, Phases DEF PhaseOf
    <3>3. QED  BY <2>1, <2>2, <2>3, <3>2, PreparingSteps
  <2>4. CASE /\ linkSlot[linkFd[i]] # None
             /\ slot' = [slot EXCEPT ![linkSlot[linkFd[i]]] = i]
             /\ Goto(i, "close_link")
    <3>1. linkSlot[linkFd[i]] \in Slots  BY <2>2, <2>4 DEF TypeInv, TypeOK
    <3>2. pc'[i] = "close_link"  BY <1>0, <2>4 DEF Goto
    <3>3. PhaseOf(i)' = "installed"  BY <3>2, Phases DEF PhaseOf
    <3>4. QED  BY <1>1, <2>1, <2>2, <2>4, <3>1, <3>3, InstallingSteps
  <2>5. QED  BY <1>8, <2>3, <2>4 DEF UpdateLink
<1>9. CASE AttachLink(i)
  <2>1. pc[i] = "link_attach" /\ UNCHANGED <<req, ifgen>>  BY <1>9 DEF AttachLink
  <2>2. PhaseOf(i) = "ready"  BY <2>1, Phases DEF PhaseOf
  <2>3. CASE TryNextMode(i) /\ UNCHANGED slot
    <3>1. pc'[i] \in {"attach", "close_failed"}  BY <1>0, <2>3 DEF TryNextMode, Goto
    <3>2. PhaseOf(i)' \in {"ready", "giving_up"}  BY <3>1, Phases DEF PhaseOf
    <3>3. QED  BY <2>1, <2>2, <2>3, <3>2, PreparingSteps
  <2>4. CASE slot[DefaultSlot] = None /\ slot' = [slot EXCEPT ![DefaultSlot] = i] /\ Goto(i, "pin")
    <3>1. DefaultSlot \in Slots  BY DEF DefaultSlot, Slots
    <3>2. pc'[i] = "pin"  BY <1>0, <2>4 DEF Goto
    <3>3. PhaseOf(i)' = "offered"  BY <3>2, Phases DEF PhaseOf
    <3>4. QED  BY <1>1, <2>1, <2>2, <2>4, <3>1, <3>3, InstallingSteps
  <2>5. QED  BY <1>9, <2>3, <2>4 DEF AttachLink, LinkAttachAllowed
<1>10. CASE PinLink(i)
  <2>1. pc[i] = "pin" /\ UNCHANGED <<slot, req, ifgen, linkFd>>  BY <1>10 DEF PinLink
  <2>2. PhaseOf(i) = "offered" /\ linkFd[i] = i  BY <2>1, Phases DEF PhaseOf, OwnProgramInv
  <2>3. Unloads' = Unloads  BY <2>1 DEF Unloads
  <2>4. CASE Goto(i, "close_link_failed")
    <3>1. PhaseOf(i)' = "offered"  BY <1>0, <2>1, <2>2, <2>4 DEF Goto, PhaseOf
    <3>2. QED  BY <1>2, <2>1, <2>2, <2>3, <3>1 DEF Hidden
  <2>5. CASE Goto(i, "close_link")
    <3>1. pc'[i] = "close_link"  BY <1>0, <2>5 DEF Goto
    <3>2. PhaseOf(i)' = "installed"  BY <3>1, Phases DEF PhaseOf
    <3>3. Atomic!Move(i, {"offered"}, "installed")  BY <1>2, <2>2, <3>2 DEF Atomic!Move, Phase
    <3>4. Atomic!Keep(i)  BY <2>1, <2>3, <3>3 DEF Atomic!Keep, Unloads
    <3>5. QED  BY <3>4 DEF Atomic!Act
  <2>6. QED  BY <1>10, <2>4, <2>5 DEF PinLink
<1>11. CASE CloseLink(i)
  <2>1. OwnProgramInv'  BY StepOwnProgramInv DEF Acts
  <2>2. QED  BY <1>1, <1>11, <2>1, ClosingStep
<1>12. CASE CloseObject(i)
  <2>1. UNCHANGED <<slot, ifgen, req>>  BY <1>12 DEF CloseObject, kernel
  <2>2. Unloads' = Unloads  BY <2>1 DEF Unloads
  <2>3. CASE pc[i] = "close_ok"
    <3>1. pc'[i] = "ok"  BY <1>0, <1>12, <2>3 DEF CloseObject, Goto
    <3>2. PhaseOf(i) = "installed" /\ PhaseOf(i)' = "ok"  BY <2>3, <3>1, Phases DEF PhaseOf
    <3>3. Atomic!Move(i, {"installed"}, "ok")  BY <1>2, <3>2 DEF Atomic!Move, Phase
    <3>4. Atomic!ReturnLoad(i)  BY <2>1, <2>2, <3>3 DEF Atomic!ReturnLoad, Unloads
    <3>5. QED  BY <3>4 DEF Atomic!Act
  <2>4. CASE pc[i] = "close_failed"
    <3>1. pc'[i] = "failed"  BY <1>0, <1>12, <2>4 DEF CloseObject, Goto
    <3>2. PhaseOf(i) = "giving_up" /\ PhaseOf(i)' = "failed"  BY <2>4, <3>1, Phases DEF PhaseOf
    <3>3. \A s \in Slots : slot[s] # i  BY <2>4 DEF OwnProgramInv, OwnLink, Settled
    <3>4. Atomic!Move(i, {"giving_up"}, "failed")  BY <1>2, <3>2 DEF Atomic!Move, Phase
    <3>5. Atomic!ReturnLoad(i)  BY <2>1, <2>2, <3>3, <3>4 DEF Atomic!ReturnLoad, Unloads
    <3>6. QED  BY <3>5 DEF Atomic!Act
  <2>5. QED  BY <1>12, <2>3, <2>4 DEF CloseObject
<1>13. CASE UnloadGet(i) \/ UnloadClose(i) \/ Unlink(i) \/ Detach(i)
  <2>1. pc[i] \in UnloadPcs /\ UNCHANGED <<req, ifgen>>
    BY <1>13, DetachOrder DEF UnloadGet, UnloadClose, Unlink, Detach, UnloadPcs, kernel
  <2>2. pc'[i] \in UnloadPcs \cup {"ok", "failed"}
    <3>1. CASE UnloadGet(i) \/ UnloadClose(i) \/ Unlink(i)
      BY <1>0, <3>1 DEF UnloadGet, UnloadClose, Unlink, Goto, UnloadPcs
    <3>2. CASE Detach(i)
      <4>1. pc[i] \in {"detach_drv", "detach_hw", "detach_skb"}  BY <3>2, DetachOrder DEF Detach
      <4>2. pc'[i] \in {AfterDetach[pc[i]], "failed"}  BY <1>0, <3>2 DEF Detach, Goto
      <4>3. QED  BY <4>1, <4>2, DetachOrder DEF UnloadPcs
    <3>3. QED  BY <1>13, <3>1, <3>2
  <2>3. PhaseOf(i) = "unloading" /\ PhaseOf(i)' \in {"unloading", "ok", "failed"}
    <3>1. "close_link_failed" \notin UnloadPcs  BY DEF UnloadPcs
    <3>2. QED  BY <2>1, <2>2, <3>1, Phases DEF PhaseOf
  <2>4. \A s \in Slots : slot'[s] \in {slot[s], None}
    <3>1. CASE UnloadGet(i) \/ UnloadClose(i) \/ Unlink(i)
      BY <3>1, SetHandlesOnlyEmpties DEF UnloadGet, UnloadClose, Unlink, kernel
    <3>2. CASE Detach(i)  BY <1>0, <3>2 DEF Detach
    <3>3. QED  BY <1>13, <3>1, <3>2
  <2>5. req[i] = "unload"  BY <2>1 DEF ControlInv
  <2>6. QED  BY <1>1, <2>1, <2>3, <2>4, <2>5, UnloadingSteps
<1>14. CASE Crash(i)
  BY <1>1, <1>14, CrashStep
<1>15. QED
  BY <1>3, <1>4, <1>5, <1>6, <1>7, <1>8, <1>9, <1>10, <1>11, <1>12, <1>13, <1>14 DEF Acts, Step

(* The loader implements AtomicSwap: whatever zerehctl processes overlap,  *)
(* fail, fall back or die, callers see programs installed in one step and  *)
(* removed only by their successors, by unloads, with the interface, or    *)
(* with a call that had not settled, and results that tell what happened.  *)
THEOREM LoaderImplementsAtomicSwap == Spec => ImplementsAtomicSwap
<1>1. Init => Atomic!Init
  <2> SUFFICES ASSUME Init PROVE Atomic!Init  OBVIOUS
  <2>1. \A i \in Invocations : PhaseOf(i) = "idle"  BY Phases DEF Init, PhaseOf
  <2>2. {i \in Invocations : req[i] = "unload"} = {}  BY DEF Init
  <2>3. QED  BY <2>1, <2>2 DEF Init, Atomic!Init
<1>2. TypeInv /\ OwnProgramInv /\ ControlInv /\ LinkInv /\ [Next]_vars => [Atomic!Next]_(Atomic!avars)
  <2> SUFFICES ASSUME TypeInv, OwnProgramInv, ControlInv, LinkInv, [Next]_vars
               PROVE  Atomic!Next \/ UNCHANGED Atomic!avars
    OBVIOUS
  <2>1. Hidden => UNCHANGED Atomic!avars  BY DEF Hidden, Atomic!avars, Phase, Unloads
  <2>2. CASE RecreateInterface
    <3>1. /\ ifgen' = ifgen + 1 /\ slot' = [s \in Slots |-> None]
          /\ UNCHANGED <<pc, linkFd, req>>
      BY <2>2 DEF RecreateInterface
    <3>2. \A i \in Invocations : PhaseOf(i)' = PhaseOf(i)  BY <3>1 DEF PhaseOf
    <3>3. Atomic!Recreate  BY <3>1, <3>2 DEF Atomic!Recreate
    <3>4. QED  BY <3>3 DEF Atomic!Next
  <2>3. CASE UNCHANGED vars
    <3>1. UNCHANGED <<slot, ifgen, pc, linkFd, req>>  BY <2>3 DEF vars
    <3>2. \A i \in Invocations : PhaseOf(i)' = PhaseOf(i)  BY <3>1 DEF PhaseOf
    <3>3. QED  BY <3>1, <3>2 DEF Atomic!avars
  <2>4. ASSUME NEW i \in Invocations, Acts(i) PROVE Atomic!Next \/ UNCHANGED Atomic!avars
    BY <2>1, <2>4, StepSimulation DEF Atomic!Next
  <2>5. QED  BY <2>2, <2>3, <2>4 DEF Next, Acts
<1>3. QED
  BY <1>1, <1>2, TypeInvariance, OwnProgramInvariance, LinkInvariance, PTL
  DEF Spec, ImplementsAtomicSwap, Atomic!Spec

-----------------------------------------------------------------------------
(***************************************************************************)
(* A completed load serves.  The property itself is not inductive: before  *)
(* a load returns it must already be known that some slot has a program    *)
(* that is newer than the load's start and that nobody will withdraw.      *)
(***************************************************************************)

Serves(i) == \E s \in Slots : slot[s] \in Invocations \ before[i] /\ pc[slot[s]] \in Settled

ServeInv ==
  NoUnload => \A i \in Invocations : ifindex[i] = ifgen =>
    /\ Unsettled(i) => linkSlot[i] # None
    /\ Loads(i) /\ pc[i] \in {"close_link", "close_ok", "ok"} => Serves(i)

(* A settled program gives way to nothing but another one. *)
LEMMA SettledStays ==
  ASSUME TypeInv, OwnProgramInv, ControlInv, LinkInv, NEW i \in Invocations, Acts(i), NoUnload',
         NEW s \in Slots, slot[s] \in Invocations, pc[slot[s]] \in Settled
  PROVE  slot'[s] \in Invocations /\ slot'[s] \in {slot[s], i} /\ pc'[slot'[s]] \in Settled
<1>0. /\ pc \in [Invocations -> Pcs]
      /\ slot \in [Slots -> Invocations \cup {None}]
      /\ None \notin Invocations
  BY LoaderAssumption DEF TypeInv, TypeOK
<1>1. \A j \in Invocations \ {i} : pc'[j] = pc[j] /\ req'[j] = req[j]  BY StepFrame
<1>2. NoUnload /\ req[i] # "unload"
  BY <1>1, StepFrame DEF NoUnload, ControlInv
<1>3. pc[i] \notin UnloadPcs  BY <1>2 DEF ControlInv
<1>4. pc[i] \in Settled => pc'[i] \in Settled
  <2>1. CASE pc[i] = "close_link"
    BY <1>0, <2>1 DEF Acts, Step, StartLoad, StartUnload, Start, LoadObject, SeedMap, SeedPcs, Maps,
         FindProgram, QueryOldProg, XdpAttach, GetPinnedLink, UpdateLink, AttachLink, PinLink,
         CloseLink, CloseObject, UnloadGet, UnloadClose, Unlink, Detach, DetachSlot, Crash, Goto, Settled
  <2>2. CASE pc[i] = "close_ok"
    BY <1>0, <2>2 DEF Acts, Step, StartLoad, StartUnload, Start, LoadObject, SeedMap, SeedPcs, Maps,
         FindProgram, QueryOldProg, XdpAttach, GetPinnedLink, UpdateLink, AttachLink, PinLink,
         CloseLink, CloseObject, UnloadGet, UnloadClose, Unlink, Detach, DetachSlot, Crash, Goto, Settled
  <2>3. pc[i] \notin {"ok", "crashed"}  BY StepControl DEF Acts, Ended
  <2>4. QED  BY <2>1, <2>2, <2>3 DEF Settled
<1>5. ASSUME slot'[s] = slot[s]
      PROVE  slot'[s] \in Invocations /\ slot'[s] \in {slot[s], i} /\ pc'[slot'[s]] \in Settled
  <2>1. slot[s] # i => pc'[slot[s]] = pc[slot[s]]  BY <1>1, Zenon
  <2>2. pc'[slot[s]] \in Settled  BY <1>4, <2>1, Zenon
  <2>3. QED  BY <1>5, <2>2, Zenon
<1>6. ASSUME slot'[s] = i, pc'[i] \in Settled
      PROVE  slot'[s] \in Invocations /\ slot'[s] \in {slot[s], i} /\ pc'[slot'[s]] \in Settled
  BY <1>6
<1>7. CASE XdpAttach(i) \/ UpdateLink(i)
  <2>1. slot'[s] = slot[s] \/ (slot'[s] = i /\ pc'[i] \in Settled)
    BY <1>0, <1>7 DEF XdpAttach, UpdateLink, Goto, Settled
  <2>2. QED  BY <1>5, <1>6, <2>1
<1>8. CASE AttachLink(i)
  <2>1. slot'[s] = slot[s]
    BY <1>0, <1>8 DEF AttachLink, LinkAttachAllowed
  <2>2. QED  BY <1>5, <2>1
<1>9. CASE CloseLink(i) \/ Crash(i)
  <2>1. SetHandles([linkFd EXCEPT ![i] = None], pin)  BY <1>9 DEF CloseLink, Crash
  <2>2. slot'[s] = slot[s] \/ (Unsettled(i) /\ slot[s] = i)
    BY <1>2, <2>1, ClosingRemoves
  <2>3. ~(Unsettled(i) /\ slot[s] = i)  BY DEF Unsettled, Settled
  <2>4. QED  BY <1>5, <2>2, <2>3
<1>10. CASE UNCHANGED slot
  BY <1>5, <1>10
<1>11. ~(UnloadGet(i) \/ UnloadClose(i) \/ Unlink(i) \/ Detach(i))
  BY <1>3, DetachOrder DEF UnloadGet, UnloadClose, Unlink, Detach, UnloadPcs
<1>12. QED
  BY <1>7, <1>8, <1>9, <1>10, <1>11
  DEF Acts, Step, StartLoad, StartUnload, Start, LoadObject, SeedMap, FindProgram, QueryOldProg,
      GetPinnedLink, PinLink, CloseObject, kernel

(* What a step of i does to what ServeInv depends on. *)
LEMMA ServeFrame ==
  ASSUME TypeInv, NEW i \in Invocations, Acts(i)
  PROVE  /\ ifgen' = ifgen
         /\ \A j \in Invocations \ {i} : ifindex'[j] = ifindex[j] /\ before'[j] = before[j]
         /\ pc[i] # "idle" => ifindex'[i] = ifindex[i] /\ before'[i] = before[i]
<1>0. ifindex \in [Invocations -> 0 .. MaxResets]  BY DEF TypeInv, TypeOK
<1>1. \A j \in Invocations \ {i} : before'[j] = before[j]  BY StepControl DEF Acts
<1>2. QED
  BY <1>0, <1>1 DEF Acts, Step, StartLoad, StartUnload, Start, LoadObject, SeedMap, FindProgram, QueryOldProg,
       XdpAttach, GetPinnedLink, UpdateLink, AttachLink, PinLink, CloseLink, CloseObject, UnloadGet,
       UnloadClose, Unlink, Detach, Crash, SetHandles, kernel

(* Where a load comes from that is about to return success, or that has a  *)
(* link it may lose.                                                       *)
LEMMA ServeSources ==
  ASSUME TypeInv, OwnProgramInv, ControlInv, NEW i \in Invocations, Acts(i)
  PROVE  /\ pc'[i] \in {"close_link", "close_ok", "ok"} /\ req[i] # "unload" =>
              \/ pc[i] \in {"close_link", "close_ok"}
              \/ \E s \in Slots : slot'[s] = i
              \/ Unsettled(i) /\ UNCHANGED slot
         /\ Unsettled(i)' => linkSlot'[i] \in Slots \/ (Unsettled(i) /\ UNCHANGED linkSlot)
         /\ pc[i] # "link_attach" => \A j \in Invocations \ {i} : Unsettled(j) => linkSlot'[j] = linkSlot[j]
<1> USE DEF Goto
<1>0. /\ pc \in [Invocations -> Pcs]
      /\ linkFd \in [Invocations -> Invocations \cup {None}]
      /\ linkSlot \in [Invocations -> Slots \cup {None}]
      /\ slot \in [Slots -> Invocations \cup {None}]
      /\ None \notin Invocations
  BY LoaderAssumption DEF TypeInv, TypeOK
<1>1. CASE \/ StartLoad(i) \/ StartUnload(i) \/ LoadObject(i) \/ FindProgram(i) \/ QueryOldProg(i)
           \/ GetPinnedLink(i) \/ CloseObject(i) \/ UnloadGet(i)
  BY <1>0, <1>1 DEF StartLoad, StartUnload, Start, LoadObject, FindProgram, QueryOldProg,
       GetPinnedLink, CloseObject, UnloadGet, Advance, TryNextMode, kernel, Unsettled
<1>2. CASE SeedMap(i)
  BY <1>0, <1>2, SeedOrder DEF SeedMap, SeedPcs, Maps, kernel, Unsettled
<1>3. CASE XdpAttach(i)
  <2>1. mode[i] \in Modes  BY <1>3 DEF XdpAttach, TypeInv, AttachPcs
  <2>2. ModeToSlot[mode[i]] \in Slots  BY <2>1, ModeSlots, Zenon
  <2>3. UNCHANGED <<linkSlot, linkFd>> /\ pc[i] = "xdp_attach"  BY <1>3 DEF XdpAttach
  <2>4. \/ slot'[ModeToSlot[mode[i]]] = i /\ pc'[i] = "close_ok"
        \/ pc'[i] \in {"attach", "close_failed"}
    BY <1>0, <1>3, <2>2 DEF XdpAttach, TryNextMode
  <2>5. ~Unsettled(i)'  BY <2>4 DEF Unsettled
  <2>6. pc'[i] \in {"close_link", "close_ok", "ok"} => \E s \in Slots : slot'[s] = i
    BY <2>2, <2>4
  <2>7. QED  BY <2>3, <2>5, <2>6
<1>4. CASE UpdateLink(i)
  <2>1. linkFd[i] \in Invocations /\ linkFd[i] # i  BY <1>4 DEF UpdateLink, ControlInv
  <2>2. QED  BY <1>0, <1>4, <2>1 DEF UpdateLink, Unsettled
<1>5. CASE AttachLink(i)
  <2>1. DefaultSlot \in Slots  BY DEF DefaultSlot, Slots
  <2>2. QED  BY <1>0, <1>5, <2>1 DEF AttachLink, TryNextMode, Unsettled
<1>6. CASE PinLink(i)
  BY <1>0, <1>6 DEF PinLink, Unsettled, OwnProgramInv
<1>7. CASE CloseLink(i) \/ UnloadClose(i) \/ Crash(i)
  <2>1. SetHandles([linkFd EXCEPT ![i] = None], pin)  BY <1>7 DEF CloseLink, UnloadClose, Crash
  <2>2. linkFd'[i] = None  BY <1>0, <2>1 DEF SetHandles
  <2>3. ~Unsettled(i)'  BY <1>0, <2>2 DEF Unsettled
  <2>4. \A j \in Invocations \ {i} : Unsettled(j) => linkSlot'[j] = linkSlot[j]
    BY <1>0, <2>1 DEF SetHandles, Unsettled
  <2>5. pc'[i] \in {"close_link", "close_ok", "ok"} => pc[i] \in {"close_link", "close_ok"}
    BY <1>0, <1>7 DEF CloseLink, UnloadClose, Crash, TryNextMode
  <2>6. QED  BY <2>3, <2>4, <2>5
<1>8. CASE Unlink(i)
  <2>1. pc'[i] \in {"detach_drv", "failed"}  BY <1>0, <1>8 DEF Unlink
  <2>2. \A j \in Invocations : Unsettled(j) => linkSlot'[j] = linkSlot[j]
    BY <1>0, <1>8 DEF Unlink, SetHandles, Unsettled
  <2>3. QED  BY <2>1, <2>2 DEF Unsettled
<1>9. CASE Detach(i)
  <2>1. pc[i] \in {"detach_drv", "detach_hw", "detach_skb"} /\ UNCHANGED linkSlot
    BY <1>9, DetachOrder DEF Detach
  <2>2. pc'[i] \in {AfterDetach[pc[i]], "failed"}  BY <1>0, <1>9 DEF Detach
  <2>3. req[i] = "unload"  BY <2>1 DEF ControlInv, UnloadPcs
  <2>4. QED  BY <2>1, <2>2, <2>3, DetachOrder DEF Unsettled
<1>10. QED
  BY <1>1, <1>2, <1>3, <1>4, <1>5, <1>6, <1>7, <1>8, <1>9 DEF Acts, Step

(* Every step keeps the invariant. *)
LEMMA StepServeInv ==
  ASSUME TypeInv, OwnProgramInv, CleanInv, ControlInv, LinkInv, ServeInv,
         NEW i \in Invocations, Acts(i)
  PROVE  ServeInv'
<1> SUFFICES ASSUME NoUnload', NEW m \in Invocations, ifindex'[m] = ifgen'
             PROVE  /\ Unsettled(m)' => linkSlot'[m] # None
                    /\ Loads(m)' /\ pc'[m] \in {"close_link", "close_ok", "ok"} => Serves(m)'
  BY DEF ServeInv
<1>0. None \notin Invocations /\ None \notin Slots /\ slot \in [Slots -> Invocations \cup {None}]
  BY LoaderAssumption DEF TypeInv, TypeOK, Slots
<1>1. \A j \in Invocations \ {i} : pc'[j] = pc[j] /\ linkFd'[j] = linkFd[j] /\ req'[j] = req[j]
  BY StepFrame
<1>2. NoUnload /\ req[i] # "unload"
  <2>1. (pc[i] # "idle" => req'[i] = req[i]) /\ (pc[i] = "idle" => req[i] = "none")
    BY StepFrame DEF ControlInv
  <2> QED
    BY <1>1, <2>1 DEF NoUnload
<1>3. pc[i] \notin Ended /\ \A j \in Invocations : i \notin before[j]
  <2>1. pc[i] \notin Ended  BY StepControl DEF Acts
  <2>2. QED  BY <2>1 DEF CleanInv
<1>4. ASSUME Serves(m), before'[m] = before[m] PROVE Serves(m)'
  <2>1. PICK s \in Slots : slot[s] \in Invocations \ before[m] /\ pc[slot[s]] \in Settled
    BY <1>4 DEF Serves
  <2>2. slot'[s] \in Invocations /\ slot'[s] \in {slot[s], i} /\ pc'[slot'[s]] \in Settled
    BY <2>1, SettledStays
  <2>3. slot'[s] \notin before'[m]  BY <1>3, <1>4, <2>1, <2>2
  <2>4. QED  BY <2>2, <2>3 DEF Serves
<1>5. CASE m # i
  <2>1. ifindex[m] = ifgen /\ before'[m] = before[m]  BY <1>5, ServeFrame
  <2>2. Unsettled(m)' <=> Unsettled(m)  BY <1>1, <1>5 DEF Unsettled
  <2>3. Unsettled(m) => linkSlot'[m] # None
    <3>1. Unsettled(m) => linkSlot[m] # None  BY <1>2, <2>1 DEF ServeInv
    <3>2. CASE pc[i] # "link_attach"  BY <1>5, <3>1, <3>2, ServeSources
    <3>3. CASE pc[i] = "link_attach"
      <4>1. Unsettled(m) => linkSlot'[m] = linkSlot[m]
        <5>1. AttachLink(i) \/ Crash(i)
          BY <3>3, DetachOrder DEF Acts, Step, StartLoad, StartUnload, Start, LoadObject, SeedMap, SeedPcs,
             Maps, FindProgram, QueryOldProg, XdpAttach, GetPinnedLink, UpdateLink, PinLink,
             CloseLink, CloseObject, UnloadGet, UnloadClose, Unlink, Detach
        <5>2. linkSlot \in [Invocations -> Slots \cup {None}]
              /\ linkFd \in [Invocations -> Invocations \cup {None}]
          BY DEF TypeInv, TypeOK
        <5>3. CASE AttachLink(i)  BY <1>5, <5>2, <5>3 DEF AttachLink
        <5>4. CASE Crash(i) /\ Unsettled(m)
          BY <1>5, <5>2, <5>4 DEF Crash, SetHandles, Unsettled
        <5>5. QED  BY <5>1, <5>3, <5>4
      <4>2. QED  BY <3>1, <4>1
    <3>4. QED  BY <3>2, <3>3
  <2>4. Loads(m)' /\ pc'[m] \in {"close_link", "close_ok", "ok"} => Serves(m)
    BY <1>1, <1>2, <1>5, <2>1 DEF ServeInv, Loads
  <2>5. QED  BY <1>4, <2>1, <2>2, <2>3, <2>4
<1>6. CASE m = i
  <2>1. CASE pc[i] = "idle"
    <3>1. pc'[i] \notin {"pin", "close_link_failed", "close_link", "close_ok", "ok"}
      <4>1. StartLoad(i) \/ StartUnload(i)
        BY <2>1, DetachOrder DEF Acts, Step, LoadObject, SeedMap, SeedPcs, Maps, FindProgram,
           QueryOldProg, XdpAttach, GetPinnedLink, UpdateLink, AttachLink, PinLink, CloseLink,
           CloseObject, UnloadGet, UnloadClose, Unlink, Detach, Crash
      <4>2. QED  BY <4>1 DEF StartLoad, StartUnload, Start, Goto, TypeInv, TypeOK
    <3>2. QED  BY <1>6, <3>1 DEF Unsettled
  <2>2. CASE pc[i] # "idle"
    <3>1. ifindex[i] = ifgen /\ before'[i] = before[i] /\ req'[i] = req[i]
      BY <1>6, <2>2, ServeFrame, StepFrame
    <3>2. Unsettled(i) => linkSlot[i] # None  BY <1>2, <3>1 DEF ServeInv
    <3>3. Unsettled(i)' => linkSlot'[i] # None  BY <1>0, <3>2, ServeSources
    <3>4. ASSUME Loads(i)', pc'[i] \in {"close_link", "close_ok", "ok"} PROVE Serves(i)'
      <4>1. CASE pc[i] \in {"close_link", "close_ok"}
        <5>1. Serves(i)  BY <1>2, <3>1, <3>4, <4>1 DEF ServeInv, Loads
        <5>2. QED  BY <1>4, <1>6, <3>1, <5>1
      <4>2. ASSUME NEW s \in Slots, slot'[s] = i PROVE Serves(i)'
        BY <1>3, <3>1, <3>4, <4>2 DEF Serves, Settled
      <4>3. CASE Unsettled(i) /\ UNCHANGED slot
        <5>1. linkSlot[i] \in Slots /\ slot[linkSlot[i]] = i
          BY <3>2, <4>3 DEF LinkInv, TypeInv, TypeOK
        <5>2. QED  BY <4>2, <4>3, <5>1
      <4>4. QED  BY <1>2, <3>4, <4>1, <4>2, <4>3, ServeSources
    <3>5. QED  BY <1>6, <3>3, <3>4
  <2>3. QED  BY <2>1, <2>2
<1>7. QED  BY <1>5, <1>6

(* Generations are numbers. *)
LEMMA GenerationsAreNumbers ==
  ASSUME TypeInv
  PROVE  ifgen \in Nat /\ ifindex \in [Invocations -> Nat]
<1>1. ifgen \in 0 .. MaxResets /\ ifindex \in [Invocations -> 0 .. MaxResets]
  BY DEF TypeInv, TypeOK
<1>2. 0 .. MaxResets \subseteq Nat  BY LoaderAssumption
<1>3. QED  BY <1>1, <1>2

(* An ifindex an invocation has looked up is not newer than the interface. *)
LEMMA IfindexInvariance == Spec => [](\A i \in Invocations : ifindex[i] <= ifgen)
<1> DEFINE Inv == \A i \in Invocations : ifindex[i] <= ifgen
<1>1. Init => Inv
  <2> SUFFICES ASSUME Init, NEW i \in Invocations PROVE ifindex[i] <= ifgen
    OBVIOUS
  <2>1. ifgen = 0 /\ ifindex[i] = 0  BY DEF Init
  <2>2. 0 <= 0  OBVIOUS
  <2>3. QED  BY <2>1, <2>2
<1>2. TypeInv /\ Inv /\ [Next]_vars => Inv'
  <2> SUFFICES ASSUME TypeInv, Inv, [Next]_vars PROVE Inv'
    OBVIOUS
  <2>0. ifgen \in Nat /\ ifindex \in [Invocations -> Nat]
    BY GenerationsAreNumbers
  <2>1. CASE RecreateInterface
    <3>1. ifgen' = ifgen + 1 /\ ifindex' = ifindex  BY <2>1 DEF RecreateInterface
    <3>2. QED  BY <2>0, <3>1
  <2>2. CASE UNCHANGED vars  BY <2>2 DEF vars
  <2>3. ASSUME NEW i \in Invocations, Acts(i) PROVE Inv'
    <3>1. ifgen' = ifgen /\ \A j \in Invocations : ifindex'[j] \in {ifindex[j], ifgen}
      <4>1. CASE StartLoad(i) \/ StartUnload(i)
        BY <2>0, <4>1 DEF StartLoad, StartUnload, Start, kernel
      <4>2. CASE Step(i) \/ Crash(i)
        <5>1. ifgen' = ifgen /\ ifindex' = ifindex
          BY <4>2 DEF Step, LoadObject, SeedMap, FindProgram, QueryOldProg, XdpAttach,
             GetPinnedLink, UpdateLink, AttachLink, PinLink, CloseLink, CloseObject, UnloadGet,
             UnloadClose, Unlink, Detach, Crash, kernel
        <5>2. QED  BY <5>1
      <4>3. QED  BY <2>3, <4>1, <4>2 DEF Acts
    <3>2. QED  BY <2>0, <3>1
  <2>4. QED  BY <2>1, <2>2, <2>3 DEF Next, Acts
<1>3. QED  BY <1>1, <1>2, TypeInvariance, PTL DEF Spec

(* After load_and_swap_xdp has returned success, and until an unload or a  *)
(* re-creation of the interface, a program that is not older than that     *)
(* load is active, whatever overlapping loads do, fail at or die in.       *)
THEOREM CompletedLoadsServe == Spec => []CompletedLoadServes
<1> DEFINE Known == \A i \in Invocations : ifindex[i] <= ifgen
<1>1. Init => ServeInv
  BY DEF Init, ServeInv, Unsettled, Loads
<1>2. TypeInv /\ OwnProgramInv /\ CleanInv /\ ControlInv /\ LinkInv /\ Known /\ ServeInv /\ [Next]_vars
        => ServeInv'
  <2> SUFFICES ASSUME TypeInv, OwnProgramInv, CleanInv, ControlInv, LinkInv, Known, ServeInv, [Next]_vars
               PROVE  ServeInv'
    OBVIOUS
  <2>1. CASE RecreateInterface
    <3>1. ifgen' = ifgen + 1 /\ ifindex' = ifindex  BY <2>1 DEF RecreateInterface
    <3>2. ifgen \in Nat /\ ifindex \in [Invocations -> Nat]
      BY GenerationsAreNumbers
    <3>3. \A i \in Invocations : ifindex'[i] # ifgen'  BY <3>1, <3>2
    <3>4. QED  BY <3>3 DEF ServeInv
  <2>2. CASE UNCHANGED vars
    BY <2>2 DEF vars, ServeInv, Serves, Unsettled, Loads, NoUnload
  <2>3. QED  BY <2>1, <2>2, StepServeInv DEF Next, Acts
<1>3. ServeInv => CompletedLoadServes
  <2> SUFFICES ASSUME ServeInv, NoUnload, NEW i \in Invocations, Loads(i), pc[i] = "ok", ifindex[i] = ifgen
               PROVE  \E s \in Slots : slot[s] \notin before[i] \cup {None}
    BY DEF CompletedLoadServes
  <2>1. Serves(i)  BY DEF ServeInv
  <2>2. QED  BY <2>1, LoaderAssumption DEF Serves
<1>4. QED
  BY <1>1, <1>2, <1>3, TypeInvariance, OwnProgramInvariance, CleanInvariance, LinkInvariance,
     IfindexInvariance, PTL DEF Spec
=============================================================================
