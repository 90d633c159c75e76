----------------------------- MODULE XdpLoader -----------------------------
(***************************************************************************)
(* zerehctl against the kernel's XDP attachment state of one interface     *)
(* (control/loader.c).  Every run of the command is an invocation of its   *)
(* own, and invocations overlap freely: nothing in the loader takes a      *)
(* lock.  A step is one system call that the rest of the system can see,   *)
(* or a block of code that only the invocation itself can see.             *)
(*                                                                         *)
(* An invocation that loads creates one program with maps of its own, so   *)
(* the program, its maps and the link it may create all carry the name of  *)
(* the invocation.  The BPF and XDP system calls are the kernel's; they    *)
(* are described by the operators of the section "The kernel".             *)
(***************************************************************************)
EXTENDS Naturals

CONSTANTS
  Invocations,   \* the runs of zerehctl
  None,          \* no program, no link, no slot
  DrvSupported,  \* the driver implements XDP (ndo_bpf)
  HwSupported,   \* the driver accepts offloaded programs
  MaxResets      \* how often the interface may be removed and created again

ASSUME LoaderAssumption ==
  /\ None \notin Invocations
  /\ None \notin {"drv", "skb", "hw"}
  /\ DrvSupported \in BOOLEAN
  /\ HwSupported \in BOOLEAN
  /\ MaxResets \in Nat

VARIABLES
  slot,      \* slot[s]: the program attached in XDP slot s
  linkSlot,  \* linkSlot[l]: the slot the bpf_link l holds; None: no link or a defunct one
  pin,       \* the link pinned at /sys/fs/bpf/zereh/xdp_link_<ifname>
  ifgen,     \* stands for the interface's ifindex: a new one after each re-creation
  pc,        \* where each invocation is
  req,       \* what it was asked to do: an xdp_mode to load in, or "unload"
  mode,      \* the mode attach_with_fallback is trying
  ifindex,   \* the result of its if_nametoindex
  seeded,    \* which of its maps it has seeded completely
  linkFd,    \* the link it holds a file descriptor of
  oldProg,   \* the program attach_xdp_replace expects to replace
  before     \* history: the invocations that had ended when it started

kernel == <<slot, linkSlot, pin, ifgen>>
vars == <<slot, linkSlot, pin, ifgen, pc, req, mode, ifindex, seeded, linkFd, oldProg, before>>

Slots == {"drv", "skb", "hw"}
Modes == {"native", "skb", "offload"}
ModeToSlot == [native |-> "drv", skb |-> "skb", offload |-> "hw"]
Maps == {"ip_blacklist", "pow_bloom", "prog_array"}

Ended == {"ok", "failed", "crashed"}
SeedPcs == Maps
AttachPcs == {"attach", "xdp_attach", "link_update", "link_attach", "pin",
              "close_link", "close_link_failed"}
LoadPcs == {"load_object", "find_program", "close_ok", "close_failed"} \cup SeedPcs \cup AttachPcs
UnloadPcs == {"unload_get", "unload_close", "unlink"} \cup {"detach_drv", "detach_hw", "detach_skb"}
Pcs == {"idle"} \cup LoadPcs \cup UnloadPcs \cup Ended

TypeOK ==
  /\ slot \in [Slots -> Invocations \cup {None}]
  /\ linkSlot \in [Invocations -> Slots \cup {None}]
  /\ pin \in Invocations \cup {None}
  /\ ifgen \in 0 .. MaxResets
  /\ pc \in [Invocations -> Pcs]
  /\ req \in [Invocations -> Modes \cup {"unload", "none"}]
  /\ mode \in [Invocations -> Modes \cup {"none"}]
  /\ ifindex \in [Invocations -> 0 .. MaxResets]
  /\ seeded \in [Invocations -> SUBSET Maps]
  /\ linkFd \in [Invocations -> Invocations \cup {None}]
  /\ oldProg \in [Invocations -> Invocations \cup {None}]
  /\ before \in [Invocations -> SUBSET Invocations]

Init ==
  /\ slot = [s \in Slots |-> None]
  /\ linkSlot = [l \in Invocations |-> None]
  /\ pin = None
  /\ ifgen = 0
  /\ pc = [i \in Invocations |-> "idle"]
  /\ req = [i \in Invocations |-> "none"]
  /\ mode = [i \in Invocations |-> "none"]
  /\ ifindex = [i \in Invocations |-> 0]
  /\ seeded = [i \in Invocations |-> {}]
  /\ linkFd = [i \in Invocations |-> None]
  /\ oldProg = [i \in Invocations |-> None]
  /\ before = [i \in Invocations |-> {}]

-----------------------------------------------------------------------------
(***************************************************************************)
(* The kernel.                                                             *)
(***************************************************************************)

(* Links are counted references: a link lives while some invocation holds  *)
(* a descriptor of it or it is pinned, and detaches its program when it    *)
(* dies.                                                                   *)
SetHandles(fds, pinned) ==
  LET held(l) == pinned = l \/ \E i \in Invocations : fds[i] = l
  IN  /\ linkFd' = fds
      /\ pin' = pinned
      /\ linkSlot' = [l \in Invocations |-> IF held(l) THEN linkSlot[l] ELSE None]
      /\ slot' = [s \in Slots |->
                    IF \E l \in Invocations : linkSlot[l] = s /\ ~held(l)
                    THEN None ELSE slot[s]]

(* A slot that a link holds cannot be changed through netlink. *)
LinkHolds(s) == \E l \in Invocations : linkSlot[l] = s

(* Native and generic programs exclude each other; offload is independent. *)
OtherModeFree(s) ==
  CASE s = "drv" -> slot["skb"] = None
    [] s = "skb" -> slot["drv"] = None
    [] s = "hw"  -> TRUE

Supported(s) ==
  CASE s = "drv" -> DrvSupported
    [] s = "skb" -> TRUE
    [] s = "hw"  -> HwSupported

(* A link created without a mode flag goes to the driver when the driver   *)
(* implements XDP, and to the generic hook otherwise.                      *)
DefaultSlot == IF DrvSupported THEN "drv" ELSE "skb"

(* Without a mode flag a second attached program makes the request         *)
(* ambiguous.                                                              *)
AtMostOneAttached ==
  \A s, t \in Slots : slot[s] # None /\ slot[t] # None => s = t

(* bpf_xdp_attach: with an expected old program it is a compare-and-swap. *)
XdpAttachAllowed(i, s) ==
  /\ ifindex[i] = ifgen
  /\ Supported(s)
  /\ ~LinkHolds(s)
  /\ oldProg[i] # None => slot[s] = oldProg[i]
  /\ OtherModeFree(s)

LinkAttachAllowed(i) ==
  /\ ifindex[i] = ifgen
  /\ AtMostOneAttached
  /\ slot[DefaultSlot] = None
  /\ OtherModeFree(DefaultSlot)

(* The interface is removed and a new one with the same name appears: its  *)
(* slots are empty, and links of the old one are defunct.  The pin stays.  *)
RecreateInterface ==
  /\ ifgen < MaxResets
  /\ ifgen' = ifgen + 1
  /\ slot' = [s \in Slots |-> None]
  /\ linkSlot' = [l \in Invocations |-> None]
  /\ UNCHANGED <<pin, pc, req, mode, ifindex, seeded, linkFd, oldProg, before>>

-----------------------------------------------------------------------------
(***************************************************************************)
(* Starting, ending and dying.                                             *)
(***************************************************************************)

Goto(i, label) == pc' = [pc EXCEPT ![i] = label]

Start(i, r, label) ==
  /\ pc[i] = "idle"
  /\ req' = [req EXCEPT ![i] = r]
  /\ before' = [before EXCEPT ![i] = {j \in Invocations : pc[j] \in Ended}]
  /\ ifindex' = [ifindex EXCEPT ![i] = ifgen]
  /\ \/ Goto(i, label)
     \/ Goto(i, "failed")    \* no such interface, memlock, or the object cannot be opened
  /\ UNCHANGED <<kernel, mode, seeded, linkFd, oldProg>>

StartLoad(i) == \E m \in Modes : Start(i, m, "load_object")

StartUnload(i) == Start(i, "unload", "unload_get")

(* prog_array forgets its entries when the last user-space descriptor of   *)
(* the map is closed, whether or not a program still uses the map.         *)
CloseMaps(i) == seeded' = [seeded EXCEPT ![i] = @ \ {"prog_array"}]

(* bpf_object__close at the end of load_and_swap_xdp. *)
CloseObject(i) ==
  /\ pc[i] \in {"close_ok", "close_failed"}
  /\ Goto(i, IF pc[i] = "close_ok" THEN "ok" ELSE "failed")
  /\ CloseMaps(i)
  /\ UNCHANGED <<kernel, req, mode, ifindex, linkFd, oldProg, before>>

(* The process is killed; the kernel closes its descriptors. *)
Crash(i) ==
  /\ pc[i] \notin Ended \cup {"idle"}
  /\ Goto(i, "crashed")
  /\ SetHandles([linkFd EXCEPT ![i] = None], pin)
  /\ CloseMaps(i)
  /\ UNCHANGED <<ifgen, req, mode, ifindex, oldProg, before>>

-----------------------------------------------------------------------------
(***************************************************************************)
(* load_and_swap_xdp: load, seed, then attach.                             *)
(***************************************************************************)

(* A failed step before the attach goes to the label out. *)
Advance(i, label) == Goto(i, label) \/ Goto(i, "close_failed")

LoadObject(i) ==
  /\ pc[i] = "load_object"
  /\ Advance(i, "ip_blacklist")
  /\ UNCHANGED <<kernel, req, mode, ifindex, seeded, linkFd, oldProg, before>>

(* Variant: prog_array is forgotten. *)
AfterSeedSkipsTails ==
  [ip_blacklist |-> "pow_bloom", pow_bloom |-> "find_program", prog_array |-> "find_program"]

AfterSeed ==
  [ip_blacklist |-> "pow_bloom", pow_bloom |-> "prog_array", prog_array |-> "find_program"]

(* Variant: the result of the seeding function is not looked at. *)
SeedMapUnchecked(i) ==
  /\ pc[i] \in SeedPcs
  /\ \/ seeded' = [seeded EXCEPT ![i] = @ \cup {pc[i]}]
     \/ UNCHANGED seeded
  /\ Goto(i, AfterSeed[pc[i]])
  /\ UNCHANGED <<kernel, req, mode, ifindex, linkFd, oldProg, before>>

(* seed_blacklist_map, seed_bloom_map and seed_prog_array.  A failed seed  *)
(* leaves its map incomplete.  A map that the object lacks would be        *)
(* skipped, but the template defines all three.                            *)
SeedMap(i) ==
  /\ pc[i] \in SeedPcs
  /\ \/ /\ seeded' = [seeded EXCEPT ![i] = @ \cup {pc[i]}]
        /\ Goto(i, AfterSeed[pc[i]])
     \/ /\ Goto(i, "close_failed")
        /\ UNCHANGED seeded
  /\ UNCHANGED <<kernel, req, mode, ifindex, linkFd, oldProg, before>>

(* Variant: the attach flags are kept where the mode belongs. *)
FindProgramFlags(i) ==
  /\ pc[i] = "find_program"
  /\ mode' = [mode EXCEPT ![i] = ModeToSlot[req[i]]]
  /\ Advance(i, "attach")
  /\ UNCHANGED <<kernel, req, ifindex, seeded, linkFd, oldProg, before>>

(* The program symbol, the pin directory and the pin path. *)
FindProgram(i) ==
  /\ pc[i] = "find_program"
  /\ mode' = [mode EXCEPT ![i] = req[i]]
  /\ Advance(i, "attach")
  /\ UNCHANGED <<kernel, req, ifindex, seeded, linkFd, oldProg, before>>

-----------------------------------------------------------------------------
(***************************************************************************)
(* attach_with_fallback.                                                   *)
(***************************************************************************)

(* Variant: skb falls back to native again. *)
FallbackCycle == [offload |-> "native", native |-> "skb", skb |-> "native"]

Fallback == [offload |-> "native", native |-> "skb"]

(* The attempt in the current mode failed. *)
TryNextMode(i) ==
  IF mode[i] \in DOMAIN Fallback
  THEN /\ mode' = [mode EXCEPT ![i] = Fallback[mode[i]]]
       /\ Goto(i, "attach")
  ELSE /\ UNCHANGED mode
       /\ Goto(i, "close_failed")

(* attach_xdp_replace asks for the program it is about to replace; with no *)
(* program, or no descriptor of it, the attach is unconditional.           *)
QueryOldProg(i) ==
  /\ pc[i] = "attach"
  /\ mode[i] # "native"
  /\ \E p \in {slot[ModeToSlot[mode[i]]], None} : oldProg' = [oldProg EXCEPT ![i] = p]
  /\ Goto(i, "xdp_attach")
  /\ UNCHANGED <<kernel, req, mode, ifindex, seeded, linkFd, before>>

XdpAttach(i) ==
  LET s == ModeToSlot[mode[i]]
  IN  /\ pc[i] = "xdp_attach"
      /\ \/ /\ XdpAttachAllowed(i, s)
            /\ slot' = [slot EXCEPT ![s] = i]
            /\ Goto(i, "close_ok")
            /\ UNCHANGED mode
         \/ /\ TryNextMode(i)
            /\ UNCHANGED slot
      /\ UNCHANGED <<linkSlot, pin, ifgen, req, ifindex, seeded, linkFd, oldProg, before>>

(* bpf_obj_get of the pin path: a link, ENOENT, or another error. *)
GetPinnedLink(i) ==
  /\ pc[i] = "attach"
  /\ mode[i] = "native"
  /\ \/ /\ pin # None
        /\ linkFd' = [linkFd EXCEPT ![i] = pin]
        /\ Goto(i, "link_update")
        /\ UNCHANGED mode
     \/ /\ pin = None
        /\ Goto(i, "link_attach")
        /\ UNCHANGED <<linkFd, mode>>
     \/ /\ TryNextMode(i)
        /\ UNCHANGED linkFd
  /\ UNCHANGED <<kernel, req, ifindex, seeded, oldProg, before>>

(* Variant: an error of the close after the update fails the load. *)
UpdateLinkCloseFails(i) ==
  LET s == linkSlot[linkFd[i]]
  IN  /\ pc[i] = "link_update"
      /\ \/ /\ s # None
            /\ slot' = [slot EXCEPT ![s] = i]
         \/ UNCHANGED slot
      /\ Goto(i, "close_link_failed")
      /\ UNCHANGED <<linkSlot, pin, ifgen, req, mode, ifindex, seeded, linkFd, oldProg, before>>

(* Variant: a pinned link is taken for a live one. *)
UpdateLinkUnchecked(i) ==
  LET s == linkSlot[linkFd[i]]
  IN  /\ pc[i] = "link_update"
      /\ slot' = IF s # None THEN [slot EXCEPT ![s] = i] ELSE slot
      /\ Goto(i, "close_link")
      /\ UNCHANGED <<linkSlot, pin, ifgen, req, mode, ifindex, seeded, linkFd, oldProg, before>>

(* bpf_link_update replaces the program of a link that is not defunct. *)
UpdateLink(i) ==
  LET s == linkSlot[linkFd[i]]
  IN  /\ pc[i] = "link_update"
      /\ \/ /\ s # None
            /\ slot' = [slot EXCEPT ![s] = i]
            /\ Goto(i, "close_link")
         \/ /\ Goto(i, "close_link_failed")
            /\ UNCHANGED slot
      /\ UNCHANGED <<linkSlot, pin, ifgen, req, mode, ifindex, seeded, linkFd, oldProg, before>>

(* bpf_program__attach_xdp creates a link; the loader holds its descriptor. *)
AttachLink(i) ==
  /\ pc[i] = "link_attach"
  /\ \/ /\ LinkAttachAllowed(i)
        /\ slot' = [slot EXCEPT ![DefaultSlot] = i]
        /\ linkSlot' = [linkSlot EXCEPT ![i] = DefaultSlot]
        /\ linkFd' = [linkFd EXCEPT ![i] = i]
        /\ Goto(i, "pin")
        /\ UNCHANGED mode
     \/ /\ TryNextMode(i)
        /\ UNCHANGED <<slot, linkSlot, linkFd>>
  /\ UNCHANGED <<pin, ifgen, req, ifindex, seeded, oldProg, before>>

(* Variant: a link that cannot be pinned is good enough. *)
PinLinkUnchecked(i) ==
  /\ pc[i] = "pin"
  /\ pin' \in (IF pin = None THEN {i, None} ELSE {pin})
  /\ Goto(i, "close_link")
  /\ UNCHANGED <<slot, linkSlot, ifgen, req, mode, ifindex, seeded, linkFd, oldProg, before>>

PinLink(i) ==
  /\ pc[i] = "pin"
  /\ \/ /\ pin = None
        /\ pin' = i
        /\ Goto(i, "close_link")
     \/ /\ Goto(i, "close_link_failed")
        /\ UNCHANGED pin
  /\ UNCHANGED <<slot, linkSlot, ifgen, req, mode, ifindex, seeded, linkFd, oldProg, before>>

(* close of the link's descriptor, and bpf_link__destroy, which closes it. *)
CloseLink(i) ==
  /\ pc[i] \in {"close_link", "close_link_failed"}
  /\ SetHandles([linkFd EXCEPT ![i] = None], pin)
  /\ IF pc[i] = "close_link"
     THEN Goto(i, "close_ok") /\ UNCHANGED mode
     ELSE TryNextMode(i)
  /\ UNCHANGED <<ifgen, req, ifindex, seeded, oldProg, before>>

-----------------------------------------------------------------------------
(***************************************************************************)
(* detach_xdp.                                                             *)
(***************************************************************************)

(* When the pin cannot be opened, for whatever reason, the pin is left     *)
(* alone and the detaches follow at once.                                  *)
UnloadGet(i) ==
  /\ pc[i] = "unload_get"
  /\ \/ /\ pin # None
        /\ linkFd' = [linkFd EXCEPT ![i] = pin]
        /\ Goto(i, "unload_close")
     \/ /\ Goto(i, "detach_drv")
        /\ UNCHANGED linkFd
  /\ UNCHANGED <<kernel, req, mode, ifindex, seeded, oldProg, before>>

UnloadClose(i) ==
  /\ pc[i] = "unload_close"
  /\ SetHandles([linkFd EXCEPT ![i] = None], pin)
  /\ Goto(i, "unlink")
  /\ UNCHANGED <<ifgen, req, mode, ifindex, seeded, oldProg, before>>

(* unlink removes whatever link is pinned by now; ENOENT is tolerated. *)
Unlink(i) ==
  /\ pc[i] = "unlink"
  /\ \/ SetHandles(linkFd, None) /\ Goto(i, "detach_drv")
     \/ Goto(i, "failed") /\ UNCHANGED <<slot, linkSlot, pin, linkFd>>
  /\ UNCHANGED <<ifgen, req, mode, ifindex, seeded, oldProg, before>>

DetachSlot == [detach_drv |-> "drv", detach_hw |-> "hw", detach_skb |-> "skb"]

(* Variant: only the driver slot is detached. *)
AfterDetachDrvOnly == [detach_drv |-> "ok", detach_hw |-> "ok", detach_skb |-> "ok"]

AfterDetach == [detach_drv |-> "detach_hw", detach_hw |-> "detach_skb", detach_skb |-> "ok"]

(* Variant: detach_mode tolerates EBUSY as well. *)
DetachToleratesBusy(i) ==
  /\ pc[i] \in DOMAIN DetachSlot
  /\ \/ /\ ifindex[i] = ifgen
        /\ slot' = IF LinkHolds(DetachSlot[pc[i]]) THEN slot
                   ELSE [slot EXCEPT ![DetachSlot[pc[i]]] = None]
        /\ Goto(i, AfterDetach[pc[i]])
     \/ /\ Goto(i, "failed")
        /\ UNCHANGED slot
  /\ UNCHANGED <<linkSlot, pin, ifgen, req, mode, ifindex, seeded, linkFd, oldProg, before>>

(* detach_mode.  The errors it tolerates are the kernel's answers for a    *)
(* slot that has no program.                                               *)
Detach(i) ==
  /\ pc[i] \in DOMAIN DetachSlot
  /\ \/ /\ ifindex[i] = ifgen
        /\ ~LinkHolds(DetachSlot[pc[i]])
        /\ slot' = [slot EXCEPT ![DetachSlot[pc[i]]] = None]
        /\ Goto(i, AfterDetach[pc[i]])
     \/ /\ Goto(i, "failed")
        /\ UNCHANGED slot
  /\ UNCHANGED <<linkSlot, pin, ifgen, req, mode, ifindex, seeded, linkFd, oldProg, before>>

-----------------------------------------------------------------------------
Step(i) ==
  \/ LoadObject(i) \/ SeedMap(i) \/ FindProgram(i)
  \/ QueryOldProg(i) \/ XdpAttach(i)
  \/ GetPinnedLink(i) \/ UpdateLink(i) \/ AttachLink(i) \/ PinLink(i) \/ CloseLink(i)
  \/ CloseObject(i)
  \/ UnloadGet(i) \/ UnloadClose(i) \/ Unlink(i) \/ Detach(i)

Next ==
  \/ \E i \in Invocations : StartLoad(i) \/ StartUnload(i) \/ Step(i) \/ Crash(i)
  \/ RecreateInterface

Spec == Init /\ [][Next]_vars

(* A started invocation is scheduled until it ends: no step of the loader  *)
(* waits for another process.                                              *)
FairSpec == Spec /\ \A i \in Invocations : WF_vars(Step(i))

-----------------------------------------------------------------------------
(***************************************************************************)
(* Properties.                                                             *)
(***************************************************************************)

Loads(i) == req[i] \in Modes

NoUnload == \A i \in Invocations : req[i] # "unload"

(* A program becomes active only when all three of its maps have been      *)
(* seeded: load_and_swap_xdp seeds ip_blacklist, pow_bloom and prog_array  *)
(* before attach_with_fallback, whatever fails or falls back on the way.   *)
SwapOnlySeeded ==
  [][\A s \in Slots : slot'[s] # slot[s] /\ slot'[s] # None => seeded[slot'[s]] = Maps]_vars

(* As long as a program is attached its blacklist and its Bloom bitmap are *)
(* the complete ones: no invocation ever leaves packets to a program whose *)
(* filters seed_blacklist_map or seed_bloom_map did not finish.            *)
ActiveMapsSeeded ==
  \A s \in Slots : slot[s] # None => {"ip_blacklist", "pow_bloom"} \subseteq seeded[slot[s]]

(* A load that returns an error has left no program of its own attached,   *)
(* neither through a link that could not be pinned nor through an attempt  *)
(* in a mode that attach_with_fallback gave up.                            *)
FailedLoadInvisible ==
  \A i \in Invocations : pc[i] = "failed" => \A s \in Slots : slot[s] # i

(* After a load has returned success the interface runs its program or one *)
(* of a load that did not end before it, through any number of concurrent  *)
(* loads, failures, mode fallbacks and crashes of loads: bpf_link_update   *)
(* and the compare-and-swap of attach_xdp_replace leave no gap and restore *)
(* no older program, also when the pin left from a former interface of the *)
(* same name is defunct.  An unload, or re-creating the interface after    *)
(* the load began, ends the promise.                                       *)
CompletedLoadServes ==
  NoUnload =>
    \A i \in Invocations :
      Loads(i) /\ pc[i] = "ok" /\ ifindex[i] = ifgen =>
        \E s \in Slots : slot[s] \notin before[i] \cup {None}

(* When detach_xdp returns success, no slot holds the program of a load    *)
(* that had ended before the unload started, in whatever mode it was       *)
(* attached and whatever other invocations do meanwhile.                   *)
CleanUnload ==
  \A i \in Invocations :
    req[i] = "unload" /\ pc[i] = "ok" => \A s \in Slots : slot[s] \notin before[i]

(* Every started invocation returns: the fallback chain of                 *)
(* attach_with_fallback is finite and nothing in the loader retries.       *)
EveryInvocationReturns ==
  \A i \in Invocations : pc[i] # "idle" ~> pc[i] \in Ended

(* docs/developers/architecture.md, Route Dispatch: an xdp_prog route is a *)
(* tail call via its prog_array index, so an attached program needs the    *)
(* entries that seed_prog_array wrote.                                     *)
TailCallTableKept ==
  \A s \in Slots : slot[s] # None => "prog_array" \in seeded[slot[s]]

-----------------------------------------------------------------------------
(***************************************************************************)
(* The loader as its callers see it.                                       *)
(***************************************************************************)

(* How far a call is.  A load whose link is not pinned yet, or could not   *)
(* be, is the only one that may take its program back.                     *)
PhaseAt(label) ==
  CASE label \in {"load_object"} \cup SeedPcs -> "loading"
    [] label \in {"find_program", "attach", "xdp_attach", "link_update", "link_attach",
                  "close_link_failed"} -> "ready"
    [] label = "pin" -> "offered"
    [] label \in {"close_link", "close_ok"} -> "installed"
    [] label = "close_failed" -> "giving_up"
    [] label \in UnloadPcs -> "unloading"
    [] OTHER -> label

PhaseOf(i) ==
  IF pc[i] = "close_link_failed" /\ linkFd[i] = i THEN "offered" ELSE PhaseAt(pc[i])

Atomic == INSTANCE AtomicSwap WITH
            running <- slot,
            phase   <- [i \in Invocations |-> PhaseOf(i)],
            unloads <- {i \in Invocations : req[i] = "unload"},
            gen     <- ifgen

(* The system calls of load_and_swap_xdp and detach_xdp, of any number of  *)
(* overlapping invocations, amount to the single steps of AtomicSwap: a    *)
(* program is installed in one step, a running one disappears only for its *)
(* successor, an unload or a re-created interface, one that is offered     *)
(* and not pinned goes with its own call alone, and what a call returns is *)
(* what happened.                                                          *)
ImplementsAtomicSwap == Atomic!Spec
=============================================================================
