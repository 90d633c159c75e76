---------------------------- MODULE XskReceiver ----------------------------
(***************************************************************************)
(* apps/zereh_rx.c: the consumer behind a user_space route.  It shares a   *)
(* pool of frames with the kernel.  A frame travels from the fill ring to  *)
(* the driver, comes back with a packet in the receive ring, and must be   *)
(* put into the fill ring again.                                           *)
(*                                                                         *)
(* A ring is the sequence of its occupied entries.  The entries of a batch *)
(* stay occupied in the receive ring until the whole batch is released.    *)
(***************************************************************************)
EXTENDS Naturals, Sequences, SequencesExt

CONSTANTS
  NumFrames,  \* NUM_FRAMES
  FillSize,   \* entries of the fill ring (also NUM_FRAMES)
  RxSize,     \* entries of the receive ring (2048)
  BatchSize   \* RX_BATCH_SIZE (64)

ASSUME ReceiverAssumption ==
  /\ NumFrames \in Nat /\ FillSize \in Nat /\ RxSize \in Nat
  /\ BatchSize \in Nat \ {0}
  /\ NumFrames <= FillSize

VARIABLES
  pc,      \* where the receiver is
  held,    \* what zereh_xsk_ctx holds: the buffer, the UMEM, the socket
  g_stop,  \* set by the signal handler
  fq,      \* fill ring
  driver,  \* frames the kernel has taken and not yet delivered
  rx,      \* receive ring
  rcvd,    \* size of the current batch
  i        \* how many descriptors of the batch have been handled

rings == <<fq, driver, rx>>
batch == <<rcvd, i>>
vars == <<pc, held, g_stop, fq, driver, rx, rcvd, i>>

(* The frames, by their number in the UMEM. *)
Frames == 0 .. NumFrames - 1

Resources == {"buffer", "umem", "xsk"}
InitPcs == {"alloc", "umem", "socket", "fill"}
LoopPcs == {"loop", "poll", "peek", "recycle", "release"}
CleanupPcs == {"delete_xsk", "delete_umem", "free_buffer"}

TypeOK ==
  /\ pc \in InitPcs \cup LoopPcs \cup CleanupPcs \cup {"exited"}
  /\ held \in SUBSET Resources
  /\ g_stop \in BOOLEAN
  /\ fq \in Seq(Frames) /\ driver \in Seq(Frames) /\ rx \in Seq(Frames)
  /\ Len(fq) <= FillSize /\ Len(rx) <= RxSize
  /\ rcvd \in Nat /\ i \in Nat

Init ==
  /\ pc = "alloc"
  /\ held = {}
  /\ g_stop = FALSE
  /\ fq = <<>> /\ driver = <<>> /\ rx = <<>>
  /\ rcvd = 0 /\ i = 0

-----------------------------------------------------------------------------
(***************************************************************************)
(* init_xsk.  A failure goes to the clean-up.                              *)
(***************************************************************************)

Acquire(from, resource, next) ==
  /\ pc = from
  /\ \/ /\ held' = held \cup {resource}
        /\ pc' = next
     \/ /\ pc' = "delete_xsk"
        /\ UNCHANGED held
  /\ UNCHANGED <<g_stop, rings, batch>>

AllocBuffer == Acquire("alloc", "buffer", "umem")

CreateUmem == Acquire("umem", "umem", "socket")

CreateSocket == Acquire("socket", "xsk", "fill")

(* All frames go into the fill ring at once, or none. *)
FillRing ==
  /\ pc = "fill"
  /\ IF FillSize - Len(fq) >= NumFrames
     THEN fq' = [k \in 1 .. NumFrames |-> k - 1] /\ pc' = "loop"
     ELSE UNCHANGED fq /\ pc' = "delete_xsk"
  /\ UNCHANGED <<held, g_stop, driver, rx, batch>>

-----------------------------------------------------------------------------
(***************************************************************************)
(* main.                                                                   *)
(***************************************************************************)

CheckStop ==
  /\ pc = "loop"
  /\ pc' = IF g_stop THEN "delete_xsk" ELSE "poll"
  /\ UNCHANGED <<held, g_stop, rings, batch>>

(* poll returns after a second at the latest, with or without packets; it *)
(* is interrupted; or it fails, which ends the loop.                       *)
PollReturns == pc = "poll" /\ pc' = "peek" /\ UNCHANGED <<held, g_stop, rings, batch>>

PollInterrupted == pc = "poll" /\ pc' = "loop" /\ UNCHANGED <<held, g_stop, rings, batch>>

PollFails == pc = "poll" /\ pc' = "delete_xsk" /\ UNCHANGED <<held, g_stop, rings, batch>>

(* Variant: the batch is released before its descriptors are read. *)
PeekReleases ==
  /\ pc = "peek"
  /\ rcvd' = IF Len(rx) < BatchSize THEN Len(rx) ELSE BatchSize
  /\ rx' = SubSeq(rx, rcvd' + 1, Len(rx))
  /\ i' = 0
  /\ pc' = IF rx = <<>> THEN "loop" ELSE "recycle"
  /\ UNCHANGED <<held, g_stop, fq, driver>>

Peek ==
  /\ pc = "peek"
  /\ rcvd' = IF Len(rx) < BatchSize THEN Len(rx) ELSE BatchSize
  /\ i' = 0
  /\ pc' = IF rx = <<>> THEN "loop" ELSE "recycle"
  /\ UNCHANGED <<held, g_stop, rings>>

(* Variant: the first descriptor of a batch is passed over. *)
RecycleFromSecond ==
  /\ pc = "recycle"
  /\ Len(fq) < FillSize
  /\ fq' = IF i = 0 /\ rcvd > 1 THEN fq ELSE Append(fq, rx[i + 1])
  /\ i' = i + 1
  /\ pc' = IF i + 1 = rcvd THEN "release" ELSE "recycle"
  /\ UNCHANGED <<held, g_stop, driver, rx, rcvd>>

(* Variant: the receiver waits for two free entries. *)
RecycleNeedsTwo ==
  /\ pc = "recycle"
  /\ Len(fq) + 1 < FillSize
  /\ fq' = Append(fq, rx[i + 1])
  /\ i' = i + 1
  /\ pc' = IF i + 1 = rcvd THEN "release" ELSE "recycle"
  /\ UNCHANGED <<held, g_stop, driver, rx, rcvd>>

(* One descriptor of the batch.  While the fill ring has no free entry the *)
(* code spins here, without looking at g_stop.                             *)
Recycle ==
  /\ pc = "recycle"
  /\ Len(fq) < FillSize
  /\ fq' = Append(fq, rx[i + 1])
  /\ i' = i + 1
  /\ pc' = IF i + 1 = rcvd THEN "release" ELSE "recycle"
  /\ UNCHANGED <<held, g_stop, driver, rx, rcvd>>

(* Variant: one entry too few is released. *)
ReleaseShort ==
  /\ pc = "release"
  /\ rx' = SubSeq(rx, rcvd, Len(rx))
  /\ rcvd' = 0 /\ i' = 0
  /\ pc' = "loop"
  /\ UNCHANGED <<held, g_stop, fq, driver>>

Release ==
  /\ pc = "release"
  /\ rx' = SubSeq(rx, rcvd + 1, Len(rx))
  /\ rcvd' = 0 /\ i' = 0
  /\ pc' = "loop"
  /\ UNCHANGED <<held, g_stop, fq, driver>>

-----------------------------------------------------------------------------
(***************************************************************************)
(* cleanup_xsk: each part only when it exists.                             *)
(***************************************************************************)

(* Variant: the memory goes first. *)
CleanupOfReversed == [delete_xsk |-> "buffer", delete_umem |-> "umem", free_buffer |-> "xsk"]

CleanupOf == [delete_xsk |-> "xsk", delete_umem |-> "umem", free_buffer |-> "buffer"]

AfterCleanup ==
  [delete_xsk |-> "delete_umem", delete_umem |-> "free_buffer", free_buffer |-> "exited"]

Cleanup ==
  /\ pc \in CleanupPcs
  /\ held' = held \ {CleanupOf[pc]}
  /\ pc' = AfterCleanup[pc]
  /\ UNCHANGED <<g_stop, rings, batch>>

-----------------------------------------------------------------------------
(***************************************************************************)
(* The kernel and the user.                                                *)
(***************************************************************************)

KernelActive == "xsk" \in held

TakeFrame ==
  /\ KernelActive
  /\ fq # <<>>
  /\ driver' = Append(driver, Head(fq))
  /\ fq' = Tail(fq)
  /\ UNCHANGED <<pc, held, g_stop, rx, batch>>

(* With a full receive ring the packet is lost and the driver keeps the    *)
(* frame.                                                                  *)
Deliver ==
  /\ KernelActive
  /\ driver # <<>>
  /\ Len(rx) < RxSize
  /\ rx' = Append(rx, Head(driver))
  /\ driver' = Tail(driver)
  /\ UNCHANGED <<pc, held, g_stop, fq, batch>>

(* SIGINT or SIGTERM. *)
Signal ==
  /\ pc # "exited"
  /\ ~g_stop
  /\ g_stop' = TRUE
  /\ UNCHANGED <<pc, held, rings, batch>>

Receiver ==
  \/ AllocBuffer \/ CreateUmem \/ CreateSocket \/ FillRing
  \/ CheckStop \/ PollReturns \/ PollInterrupted \/ PollFails
  \/ Peek \/ Recycle \/ Release
  \/ Cleanup

Next == Receiver \/ TakeFrame \/ Deliver \/ Signal

(* The receiver is scheduled, poll has a timeout, and is not interrupted   *)
(* for ever.  Nothing is assumed of the kernel or of the traffic.          *)
Spec == Init /\ [][Next]_vars /\ WF_vars(Receiver) /\ SF_vars(PollReturns)

-----------------------------------------------------------------------------
(***************************************************************************)
(* Properties.                                                             *)
(***************************************************************************)

(* The descriptors whose frames have not been given back yet. *)
Unhandled == SubSeq(rx, i + 1, Len(rx))

(* In the loop of main every frame is in exactly one place (the fill ring, *)
(* the driver, an unhandled descriptor): none is lost, so the socket never *)
(* starves, and none is shared, so no packet overwrites another.           *)
FramesConserved ==
  pc \in LoopPcs =>
    LET all == fq \o driver \o Unhandled
    IN  Len(all) = NumFrames /\ ToSet(all) = Frames

(* When the receiver hands back a frame the fill ring has a free entry, so *)
(* the loop around xsk_ring_prod__reserve, which no signal can leave, is   *)
(* never repeated.                                                         *)
ReserveNeverSpins == pc = "recycle" => Len(fq) < FillSize

(* The kernel may write into the frames as long as the socket exists, so   *)
(* cleanup_xsk must not release the memory before, whichever step of       *)
(* init_xsk failed.                                                        *)
SocketHasMemory == "xsk" \in held => {"umem", "buffer"} \subseteq held

(* A signal ends the receiver, whatever traffic arrives meanwhile. *)
StopExits == g_stop ~> pc = "exited"

(* A delivered packet is taken from the receive ring, and its frame goes   *)
(* back to the kernel, unless the receiver ends.                           *)
DeliveredIsHandled ==
  \A f \in Frames :
    (pc \in LoopPcs /\ f \in ToSet(Unhandled)) ~> (f \in ToSet(fq) \/ pc \notin LoopPcs)
=============================================================================
