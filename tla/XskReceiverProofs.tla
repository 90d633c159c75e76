------------------------- MODULE XskReceiverProofs -------------------------
(***************************************************************************)
(* Frames are conserved, for any number of frames and any size of the      *)
(* rings and of the batch.                                                 *)
(***************************************************************************)
EXTENDS XskReceiver, TLAPS

(* What the batch counters mean at each point of the loop of main, and     *)
(* that the rings are empty until they are filled.                         *)
BatchInv ==
  /\ i <= rcvd /\ rcvd <= Len(rx)
  /\ pc = "recycle" => i < rcvd
  /\ pc = "release" => i = rcvd
  /\ pc \in {"loop", "poll", "peek"} => i = 0 /\ rcvd = 0
  /\ pc \in InitPcs => fq = <<>> /\ driver = <<>> /\ rx = <<>> /\ i = 0 /\ rcvd = 0

(* The two halves of FramesConserved: the number of frames, and which. *)
CountInv == pc \in LoopPcs => Len(fq) + Len(driver) + Len(rx) = NumFrames + i

PlaceInv ==
  pc \in LoopPcs => ToSet(fq) \cup ToSet(driver) \cup {rx[k] : k \in i + 1 .. Len(rx)} = Frames

(* Memory outlives the socket at each step of the clean-up. *)
MemoryInv ==
  /\ SocketHasMemory
  /\ pc \in InitPcs \ {"alloc"} => "buffer" \in held
  /\ pc \in {"socket", "fill"} => "umem" \in held
  /\ pc \in {"alloc", "umem", "socket", "delete_umem", "free_buffer", "exited"} => "xsk" \notin held

ReceiverInv == TypeOK /\ BatchInv /\ CountInv /\ PlaceInv /\ MemoryInv

(* The entries of a ring after an entry is added. *)
LEMMA AppendSet ==
  ASSUME NEW s \in Seq(Frames), NEW f \in Frames
  PROVE  /\ Append(s, f) \in Seq(Frames) /\ Len(Append(s, f)) = Len(s) + 1
         /\ ToSet(Append(s, f)) = ToSet(s) \cup {f}
<1>1. Append(s, f) \in Seq(Frames) /\ Len(Append(s, f)) = Len(s) + 1  OBVIOUS
<1>2. DOMAIN Append(s, f) = 1 .. Len(s) + 1 /\ DOMAIN s = 1 .. Len(s) /\ Len(s) \in Nat
  OBVIOUS
<1>3. /\ \A k \in 1 .. Len(s) : Append(s, f)[k] = s[k]
      /\ Append(s, f)[Len(s) + 1] = f
  OBVIOUS
<1>4. QED  BY <1>1, <1>2, <1>3 DEF ToSet

(* The entries of a ring before its first one is taken. *)
LEMMA TailSet ==
  ASSUME NEW s \in Seq(Frames), s # <<>>
  PROVE  /\ Tail(s) \in Seq(Frames) /\ Head(s) \in Frames /\ Len(Tail(s)) = Len(s) - 1
         /\ ToSet(s) = ToSet(Tail(s)) \cup {Head(s)}
<1>1. Tail(s) \in Seq(Frames) /\ Head(s) \in Frames /\ Len(Tail(s)) = Len(s) - 1 /\ Len(s) \in Nat
  OBVIOUS
<1>2. DOMAIN s = 1 .. Len(s) /\ DOMAIN Tail(s) = 1 .. Len(s) - 1 /\ Len(s) >= 1
  OBVIOUS
<1>3. /\ \A k \in 1 .. Len(s) - 1 : Tail(s)[k] = s[k + 1]
      /\ Head(s) = s[1]
  OBVIOUS
<1>4. \A k \in 1 .. Len(s) : k = 1 \/ k - 1 \in 1 .. Len(s) - 1  BY <1>1
<1>5. ToSet(s) \subseteq ToSet(Tail(s)) \cup {Head(s)}
  <2> SUFFICES ASSUME NEW k \in 1 .. Len(s), k # 1
               PROVE  s[k] \in ToSet(Tail(s))
    BY <1>2, <1>3 DEF ToSet
  <2>1. k - 1 \in 1 .. Len(s) - 1 /\ (k - 1) + 1 = k  BY <1>1
  <2>2. Tail(s)[k - 1] = s[k]  BY <2>1, <1>3
  <2>3. QED  BY <2>1, <2>2, <1>2 DEF ToSet
<1>6. ToSet(Tail(s)) \cup {Head(s)} \subseteq ToSet(s)
  <2>1. \A k \in 1 .. Len(s) - 1 : k + 1 \in 1 .. Len(s)  BY <1>1
  <2>2. QED  BY <2>1, <1>1, <1>2, <1>3 DEF ToSet
<1>7. QED  BY <1>1, <1>5, <1>6

(* The empty receiver. *)
LEMMA InitReceiver == Init => ReceiverInv
<1> SUFFICES ASSUME Init PROVE ReceiverInv  OBVIOUS
<1>1. TypeOK
  <2>1. <<>> \in Seq(Frames) /\ Len(<<>>) = 0  OBVIOUS
  <2>2. pc \in InitPcs /\ held \in SUBSET Resources /\ g_stop \in BOOLEAN
    BY DEF Init, InitPcs
  <2>3. /\ fq \in Seq(Frames) /\ driver \in Seq(Frames) /\ rx \in Seq(Frames)
        /\ Len(fq) <= FillSize /\ Len(rx) <= RxSize
    BY <2>1, ReceiverAssumption DEF Init
  <2>4. QED  BY <2>2, <2>3 DEF Init, TypeOK
<1>2. BatchInv /\ CountInv /\ PlaceInv
  BY DEF Init, BatchInv, CountInv, PlaceInv, InitPcs, LoopPcs
<1>3. MemoryInv
  BY DEF Init, MemoryInv, SocketHasMemory, InitPcs
<1>4. QED  BY <1>1, <1>2, <1>3 DEF ReceiverInv

(* Types and counters, step by step. *)
LEMMA StepCount == ReceiverInv /\ [Next]_vars => (TypeOK /\ BatchInv /\ CountInv)'
<1> SUFFICES ASSUME ReceiverInv, [Next]_vars PROVE (TypeOK /\ BatchInv /\ CountInv)'
  OBVIOUS
<1> USE DEF ReceiverInv
<1> USE ReceiverAssumption
<1>0. /\ fq \in Seq(Frames) /\ driver \in Seq(Frames) /\ rx \in Seq(Frames)
      /\ Len(fq) \in Nat /\ Len(driver) \in Nat /\ Len(rx) \in Nat
      /\ Len(fq) <= FillSize /\ Len(rx) <= RxSize
      /\ rcvd \in Nat /\ i \in Nat
      /\ held \in SUBSET Resources /\ g_stop \in BOOLEAN
  BY DEF TypeOK
<1>1. ASSUME NEW from \in {"alloc", "umem", "socket"}, NEW r \in Resources,
             NEW next \in InitPcs, Acquire(from, r, next)
      PROVE  (TypeOK /\ BatchInv /\ CountInv)'
  <2>1. /\ pc \in InitPcs /\ pc' \in InitPcs \cup {"delete_xsk"}
        /\ held' \in SUBSET Resources /\ UNCHANGED <<g_stop, fq, driver, rx, rcvd, i>>
    BY <1>1, <1>0 DEF Acquire, InitPcs, rings, batch
  <2>2. TypeOK'  BY <2>1, <1>0 DEF TypeOK, CleanupPcs
  <2>3. BatchInv' /\ CountInv'
    BY <2>1 DEF BatchInv, CountInv, InitPcs, LoopPcs
  <2>4. QED  BY <2>2, <2>3
<1>2. CASE AllocBuffer \/ CreateUmem \/ CreateSocket
  BY <1>1, <1>2 DEF AllocBuffer, CreateUmem, CreateSocket, InitPcs, Resources
<1>3. CASE FillRing
  <2>1. fq = <<>> /\ driver = <<>> /\ rx = <<>> /\ i = 0 /\ rcvd = 0
    BY <1>3 DEF FillRing, BatchInv, InitPcs
  <2>2. /\ pc' = "loop" /\ fq' = [k \in 1 .. NumFrames |-> k - 1]
        /\ UNCHANGED <<held, g_stop, driver, rx, rcvd, i>>
    BY <1>3, <2>1 DEF FillRing, batch
  <2>3. fq' \in Seq(Frames) /\ Len(fq') = NumFrames  BY <2>2 DEF Frames
  <2>4. TypeOK'  BY <2>2, <2>3, <1>0 DEF TypeOK, LoopPcs
  <2>5. BatchInv' /\ CountInv'
    BY <2>1, <2>2, <2>3, <1>0 DEF BatchInv, CountInv, InitPcs, LoopPcs
  <2>6. QED  BY <2>4, <2>5
<1>4. CASE CheckStop \/ PollReturns \/ PollInterrupted \/ PollFails
  <2>1. /\ pc \in {"loop", "poll"} /\ pc' \in {"loop", "poll", "peek", "delete_xsk"}
        /\ UNCHANGED <<held, g_stop, fq, driver, rx, rcvd, i>>
    BY <1>4 DEF CheckStop, PollReturns, PollInterrupted, PollFails, rings, batch
  <2>2. TypeOK'  BY <2>1, <1>0 DEF TypeOK, LoopPcs, CleanupPcs
  <2>3. BatchInv' /\ CountInv'
    BY <2>1, <1>0 DEF BatchInv, CountInv, InitPcs, LoopPcs
  <2>4. QED  BY <2>2, <2>3
<1>5. CASE Peek
  <2>1. /\ pc = "peek" /\ pc' \in {"loop", "recycle"} /\ i' = 0
        /\ rcvd' \in Nat /\ rcvd' <= Len(rx)
        /\ pc' = "recycle" => rcvd' > 0
        /\ pc' = "loop" => rcvd' = 0
        /\ UNCHANGED <<held, g_stop, fq, driver, rx>>
    BY <1>5, <1>0 DEF Peek, rings
  <2>2. i = 0  BY <2>1 DEF BatchInv
  <2>3. TypeOK'  BY <2>1, <1>0 DEF TypeOK, LoopPcs
  <2>4. BatchInv' /\ CountInv'
    BY <2>1, <2>2, <1>0 DEF BatchInv, CountInv, InitPcs, LoopPcs
  <2>5. QED  BY <2>3, <2>4
<1>6. CASE Recycle
  <2>1. i < rcvd /\ rcvd <= Len(rx)  BY <1>6 DEF Recycle, BatchInv
  <2>2. rx[i + 1] \in Frames  BY <2>1, <1>0
  <2>3. /\ pc = "recycle" /\ pc' \in {"recycle", "release"} /\ i' = i + 1
        /\ pc' = "recycle" => i + 1 # rcvd
        /\ pc' = "release" => i + 1 = rcvd
        /\ fq' \in Seq(Frames) /\ Len(fq') = Len(fq) + 1 /\ Len(fq) < FillSize
        /\ UNCHANGED <<held, g_stop, driver, rx, rcvd>>
    BY <1>6, <2>2, <1>0 DEF Recycle
  <2>4. TypeOK'  BY <2>3, <1>0 DEF TypeOK, LoopPcs
  <2>5. BatchInv'
    BY <2>1, <2>3, <1>0 DEF BatchInv, InitPcs
  <2>6. Len(fq) + Len(driver) + Len(rx) = NumFrames + i
    BY <2>3 DEF CountInv, LoopPcs
  <2>7. Len(fq') + Len(driver') + Len(rx') = NumFrames + i'
    <3>1. driver' = driver /\ rx' = rx  BY <2>3
    <3>2. (Len(fq) + 1) + Len(driver) + Len(rx) = NumFrames + (i + 1)  BY <2>6, <1>0
    <3>3. QED  BY <2>3, <3>1, <3>2
  <2>8. CountInv'  BY <2>7 DEF CountInv
  <2>9. QED  BY <2>4, <2>5, <2>8
<1>7. CASE Release
  <2>1. i = rcvd /\ rcvd <= Len(rx)  BY <1>7 DEF Release, BatchInv
  <2>2. /\ pc = "release" /\ pc' = "loop" /\ i' = 0 /\ rcvd' = 0
        /\ rx' \in Seq(Frames) /\ Len(rx') = Len(rx) - rcvd
        /\ UNCHANGED <<held, g_stop, fq, driver>>
    BY <1>7, <2>1, <1>0 DEF Release
  <2>3. TypeOK'  BY <2>2, <1>0 DEF TypeOK, LoopPcs
  <2>4. BatchInv' /\ CountInv'
    BY <2>1, <2>2, <1>0 DEF BatchInv, CountInv, InitPcs, LoopPcs
  <2>5. QED  BY <2>3, <2>4
<1>8. CASE Cleanup
  <2>1. /\ pc' \in {"delete_umem", "free_buffer", "exited"} /\ held' \in SUBSET Resources
        /\ UNCHANGED <<g_stop, fq, driver, rx, rcvd, i>>
    BY <1>8, <1>0 DEF Cleanup, CleanupPcs, AfterCleanup, rings, batch
  <2>2. TypeOK'  BY <2>1, <1>0 DEF TypeOK, CleanupPcs
  <2>3. BatchInv' /\ CountInv'  BY <2>1 DEF BatchInv, CountInv, InitPcs, LoopPcs
  <2>4. QED  BY <2>2, <2>3
<1>9. CASE TakeFrame
  <2>1. /\ driver' \in Seq(Frames) /\ Len(driver') = Len(driver) + 1
        /\ fq' \in Seq(Frames) /\ Len(fq') = Len(fq) - 1 /\ fq # <<>>
        /\ UNCHANGED <<pc, held, g_stop, rx, rcvd, i>>
    BY <1>9, <1>0, TailSet, AppendSet DEF TakeFrame, batch
  <2>2. TypeOK'  BY <2>1, <1>0 DEF TypeOK
  <2>3. pc \notin InitPcs  BY <2>1 DEF BatchInv
  <2>4. BatchInv'  BY <2>1, <2>3, <1>0 DEF BatchInv
  <2>5. Len(fq') + Len(driver') + Len(rx') = Len(fq) + Len(driver) + Len(rx)
    BY <2>1, <1>0
  <2>6. CountInv'  BY <2>1, <2>5 DEF CountInv
  <2>7. QED  BY <2>2, <2>4, <2>6
<1>10. CASE Deliver
  <2>1. /\ driver' \in Seq(Frames) /\ Len(driver') = Len(driver) - 1 /\ driver # <<>>
        /\ rx' \in Seq(Frames) /\ Len(rx') = Len(rx) + 1 /\ Len(rx) < RxSize
        /\ UNCHANGED <<pc, held, g_stop, fq, rcvd, i>>
    BY <1>10, <1>0, TailSet, AppendSet DEF Deliver, batch
  <2>2. TypeOK'  BY <2>1, <1>0 DEF TypeOK
  <2>3. pc \notin InitPcs  BY <2>1 DEF BatchInv
  <2>4. BatchInv'  BY <2>1, <2>3, <1>0 DEF BatchInv
  <2>5. Len(fq') + Len(driver') + Len(rx') = Len(fq) + Len(driver) + Len(rx)
    BY <2>1, <1>0
  <2>6. CountInv'  BY <2>1, <2>5 DEF CountInv
  <2>7. QED  BY <2>2, <2>4, <2>6
<1>11. CASE Signal
  BY <1>11, <1>0 DEF Signal, rings, batch, TypeOK, BatchInv, CountInv
<1>12. CASE UNCHANGED vars
  BY <1>12, <1>0 DEF vars, TypeOK, BatchInv, CountInv
<1>13. QED
  BY <1>2, <1>3, <1>4, <1>5, <1>6, <1>7, <1>8, <1>9, <1>10, <1>11, <1>12 DEF Next, Receiver
(* The entries a prefix is cut from, and the rest of a ring that grows. *)
LEMMA PlacesOfRx ==
  ASSUME NEW s \in Seq(Frames), NEW n \in Nat, n < Len(s)
  PROVE  {s[k] : k \in n + 1 .. Len(s)} = {s[k] : k \in n + 2 .. Len(s)} \cup {s[n + 1]}
<1>1. Len(s) \in Nat  OBVIOUS
<1>2. n + 1 .. Len(s) = (n + 2 .. Len(s)) \cup {n + 1}  BY <1>1
<1>3. QED  BY <1>2

(* Where the frames are after Release. *)
LEMMA PlacesAfterRelease ==
  ASSUME NEW s \in Seq(Frames), NEW n \in Nat, n <= Len(s)
  PROVE  LET t == SubSeq(s, n + 1, Len(s))
         IN  /\ t \in Seq(Frames) /\ Len(t) = Len(s) - n
             /\ {t[k] : k \in 1 .. Len(t)} = {s[k] : k \in n + 1 .. Len(s)}
<1> DEFINE t == SubSeq(s, n + 1, Len(s))
<1>1. Len(s) \in Nat  OBVIOUS
<1>2. t \in Seq(Frames) /\ Len(t) = Len(s) - n  BY <1>1
<1>3. \A k \in 1 .. Len(s) - n : t[k] = s[k + n]  BY <1>1
<1>4. {t[k] : k \in 1 .. Len(t)} \subseteq {s[k] : k \in n + 1 .. Len(s)}
  <2> SUFFICES ASSUME NEW k \in 1 .. Len(s) - n PROVE k + n \in n + 1 .. Len(s)
    BY <1>2, <1>3
  <2>1. QED  BY <1>1
<1>5. {s[k] : k \in n + 1 .. Len(s)} \subseteq {t[k] : k \in 1 .. Len(t)}
  <2> SUFFICES ASSUME NEW k \in n + 1 .. Len(s)
               PROVE  k - n \in 1 .. Len(s) - n /\ t[k - n] = s[k]
    BY <1>2
  <2>1. k - n \in 1 .. Len(s) - n /\ (k - n) + n = k  BY <1>1
  <2>2. QED  BY <2>1, <1>3
<1>6. QED  BY <1>2, <1>4, <1>5

(* Where the frames are, step by step. *)
LEMMA StepPlace == ReceiverInv /\ [Next]_vars => PlaceInv'
<1> SUFFICES ASSUME ReceiverInv, [Next]_vars, pc' \in LoopPcs
             PROVE  (ToSet(fq) \cup ToSet(driver) \cup {rx[k] : k \in i + 1 .. Len(rx)} = Frames)'
  BY DEF PlaceInv
<1>0. /\ fq \in Seq(Frames) /\ driver \in Seq(Frames) /\ rx \in Seq(Frames)
      /\ Len(rx) \in Nat /\ rcvd \in Nat /\ i \in Nat
      /\ i <= rcvd /\ rcvd <= Len(rx)
  BY DEF ReceiverInv, TypeOK, BatchInv
<1>p. pc \in LoopPcs =>
        ToSet(fq) \cup ToSet(driver) \cup {rx[k] : k \in i + 1 .. Len(rx)} = Frames
  BY DEF ReceiverInv, PlaceInv
<1>1. CASE AllocBuffer \/ CreateUmem \/ CreateSocket \/ Cleanup
  BY <1>1 DEF AllocBuffer, CreateUmem, CreateSocket, Acquire, Cleanup, AfterCleanup,
     CleanupPcs, LoopPcs
<1>2. CASE FillRing
  <2>1. fq = <<>> /\ driver = <<>> /\ rx = <<>>
    BY <1>2 DEF FillRing, ReceiverInv, BatchInv, InitPcs
  <2>2. fq' = [k \in 1 .. NumFrames |-> k - 1] /\ driver' = <<>> /\ rx' = <<>> /\ i' = 0
    BY <1>2, <2>1 DEF FillRing, LoopPcs, batch, ReceiverInv, BatchInv, InitPcs
  <2>3. ToSet(fq') = Frames
    <3>1. DOMAIN fq' = 1 .. NumFrames /\ \A k \in 1 .. NumFrames : fq'[k] = k - 1
      BY <2>2
    <3>2. \A f \in Frames : f + 1 \in 1 .. NumFrames /\ (f + 1) - 1 = f
      BY ReceiverAssumption DEF Frames
    <3>3. \A k \in 1 .. NumFrames : k - 1 \in Frames  BY ReceiverAssumption DEF Frames
    <3>4. QED  BY <3>1, <3>2, <3>3 DEF ToSet
  <2>4. ToSet(driver') = {} /\ {rx'[k] : k \in i' + 1 .. Len(rx')} = {}
    BY <2>2 DEF ToSet
  <2>5. QED  BY <2>3, <2>4
<1>3. CASE CheckStop \/ PollReturns \/ PollInterrupted \/ PollFails \/ Signal \/ UNCHANGED vars
  <2>1. UNCHANGED <<fq, driver, rx, i>> /\ pc \in LoopPcs
    BY <1>3 DEF CheckStop, PollReturns, PollInterrupted, PollFails, Signal, vars, rings, batch,
       LoopPcs
  <2>2. QED  BY <2>1, <1>p
<1>4. CASE Peek
  <2>1. UNCHANGED <<fq, driver, rx>> /\ i = 0 /\ i' = 0 /\ pc \in LoopPcs
    BY <1>4 DEF Peek, rings, ReceiverInv, BatchInv, LoopPcs
  <2>2. QED  BY <2>1, <1>p
<1>5. CASE Recycle
  <2>1. i < rcvd /\ i < Len(rx) /\ pc \in LoopPcs
    BY <1>5, <1>0 DEF Recycle, ReceiverInv, BatchInv, LoopPcs
  <2>2. rx[i + 1] \in Frames  BY <2>1, <1>0
  <2>3. fq' = Append(fq, rx[i + 1]) /\ i' = i + 1 /\ driver' = driver /\ rx' = rx
    BY <1>5 DEF Recycle
  <2>4. ToSet(fq') = ToSet(fq) \cup {rx[i + 1]}  BY <2>2, <2>3, <1>0, AppendSet
  <2>5. {rx[k] : k \in i + 1 .. Len(rx)} = {rx[k] : k \in i + 2 .. Len(rx)} \cup {rx[i + 1]}
    BY <2>1, <1>0, PlacesOfRx
  <2>6. (i + 1) + 1 = i + 2  BY <1>0
  <2>7. QED  BY <2>1, <2>3, <2>4, <2>5, <2>6, <1>p
<1>6. CASE Release
  <2>1. i = rcvd /\ pc \in LoopPcs
    BY <1>6 DEF Release, ReceiverInv, BatchInv, LoopPcs
  <2>2. rx' = SubSeq(rx, i + 1, Len(rx)) /\ i' = 0 /\ driver' = driver /\ fq' = fq
    BY <1>6, <2>1 DEF Release
  <2>3. {rx'[k] : k \in 1 .. Len(rx')} = {rx[k] : k \in i + 1 .. Len(rx)}
    <3>1. i <= Len(rx)  BY <1>0
    <3> DEFINE t == SubSeq(rx, i + 1, Len(rx))
    <3>2. {t[k] : k \in 1 .. Len(t)} = {rx[k] : k \in i + 1 .. Len(rx)}
      BY <3>1, <1>0, PlacesAfterRelease
    <3>3. rx' = t  BY <2>2
    <3> HIDE DEF t
    <3>4. QED  BY <3>2, <3>3
  <2>4. 0 + 1 = 1  OBVIOUS
  <2>5. QED  BY <2>1, <2>2, <2>3, <2>4, <1>p
<1>7. CASE TakeFrame
  <2>1. /\ fq # <<>> /\ driver' = Append(driver, Head(fq)) /\ fq' = Tail(fq)
        /\ rx' = rx /\ i' = i /\ pc' = pc
    BY <1>7 DEF TakeFrame, batch
  <2>2. Head(fq) \in Frames /\ ToSet(fq) = ToSet(fq') \cup {Head(fq)}
    BY <2>1, <1>0, TailSet
  <2>3. ToSet(driver') = ToSet(driver) \cup {Head(fq)}  BY <2>1, <2>2, <1>0, AppendSet
  <2>4. QED  BY <2>1, <2>2, <2>3, <1>p
<1>8. CASE Deliver
  <2>1. /\ driver # <<>> /\ rx' = Append(rx, Head(driver)) /\ driver' = Tail(driver)
        /\ fq' = fq /\ i' = i /\ pc' = pc
    BY <1>8 DEF Deliver, batch
  <2>2. Head(driver) \in Frames /\ ToSet(driver) = ToSet(driver') \cup {Head(driver)}
    BY <2>1, <1>0, TailSet
  <2>3. Len(rx') = Len(rx) + 1  BY <2>1, <2>2, <1>0, AppendSet
  <2>4. i + 1 .. Len(rx) + 1 = (i + 1 .. Len(rx)) \cup {Len(rx) + 1}  BY <1>0
  <2>5. /\ \A k \in i + 1 .. Len(rx) : rx'[k] = rx[k]
        /\ rx'[Len(rx) + 1] = Head(driver)
    BY <2>1, <2>2, <1>0
  <2>6. {rx'[k] : k \in i + 1 .. Len(rx')} = {rx[k] : k \in i + 1 .. Len(rx)} \cup {Head(driver)}
    BY <2>3, <2>4, <2>5
  <2>7. QED  BY <2>1, <2>2, <2>6, <1>p
<1>9. QED
  BY <1>1, <1>2, <1>3, <1>4, <1>5, <1>6, <1>7, <1>8 DEF Next, Receiver

(* The socket and its memory, step by step. *)
LEMMA StepMemory == ReceiverInv /\ [Next]_vars => MemoryInv'
<1> SUFFICES ASSUME ReceiverInv, [Next]_vars PROVE MemoryInv'  OBVIOUS
<1> USE DEF MemoryInv, SocketHasMemory, InitPcs
<1>0. MemoryInv  BY DEF ReceiverInv
<1>1. CASE AllocBuffer \/ CreateUmem \/ CreateSocket
  BY <1>0, <1>1 DEF AllocBuffer, CreateUmem, CreateSocket, Acquire
<1>2. CASE Cleanup
  <2>1. CASE pc = "delete_xsk"
    BY <1>0, <1>2, <2>1 DEF Cleanup, CleanupOf, AfterCleanup
  <2>2. CASE pc \in {"delete_umem", "free_buffer"}
    BY <1>0, <1>2, <2>2 DEF Cleanup, CleanupOf, AfterCleanup
  <2>3. QED  BY <1>2, <2>1, <2>2 DEF Cleanup, CleanupPcs
<1>3. CASE FillRing \/ CheckStop \/ PollReturns \/ PollInterrupted \/ PollFails \/ Peek \/ Recycle
             \/ Release \/ TakeFrame \/ Deliver \/ Signal \/ UNCHANGED vars
  <2>1. held' = held /\ (pc' = pc \/ pc' \in LoopPcs \cup {"delete_xsk"})
    BY <1>3 DEF FillRing, CheckStop, PollReturns, PollInterrupted, PollFails, Peek, Recycle, Release,
       TakeFrame, Deliver, Signal, vars, LoopPcs
  <2>2. QED  BY <1>0, <2>1 DEF LoopPcs
<1>4. QED  BY <1>1, <1>2, <1>3 DEF Next, Receiver

-----------------------------------------------------------------------------
(* The receiver keeps its invariant. *)
THEOREM ReceiverInvariant == Spec => []ReceiverInv
<1>1. Init => ReceiverInv  BY InitReceiver
<1>2. ReceiverInv /\ [Next]_vars => ReceiverInv'
  BY StepCount, StepPlace, StepMemory DEF ReceiverInv
<1>3. QED  BY <1>1, <1>2, PTL DEF Spec

(* The entries of two rings one after the other. *)
LEMMA ConcatSet ==
  ASSUME NEW s \in Seq(Frames), NEW u \in Seq(Frames)
  PROVE  /\ s \o u \in Seq(Frames) /\ Len(s \o u) = Len(s) + Len(u)
         /\ ToSet(s \o u) = ToSet(s) \cup ToSet(u)
<1>1. s \o u \in Seq(Frames) /\ Len(s \o u) = Len(s) + Len(u)  OBVIOUS
<1>2. /\ DOMAIN s = 1 .. Len(s) /\ DOMAIN u = 1 .. Len(u)
      /\ DOMAIN (s \o u) = 1 .. Len(s) + Len(u)
      /\ Len(s) \in Nat /\ Len(u) \in Nat
  OBVIOUS
<1>3. /\ \A k \in 1 .. Len(s) : (s \o u)[k] = s[k]
      /\ \A k \in Len(s) + 1 .. Len(s) + Len(u) : (s \o u)[k] = u[k - Len(s)]
  OBVIOUS
<1>4. ToSet(s) \subseteq ToSet(s \o u)
  <2>1. \A k \in 1 .. Len(s) : k \in 1 .. Len(s) + Len(u)  BY <1>2
  <2>2. QED  BY <2>1, <1>2, <1>3 DEF ToSet
<1>5. ToSet(u) \subseteq ToSet(s \o u)
  <2> SUFFICES ASSUME NEW k \in 1 .. Len(u) PROVE u[k] \in ToSet(s \o u)
    BY <1>2 DEF ToSet
  <2>1. /\ Len(s) + k \in Len(s) + 1 .. Len(s) + Len(u)
        /\ Len(s) + k \in 1 .. Len(s) + Len(u) /\ (Len(s) + k) - Len(s) = k
    BY <1>2
  <2>2. (s \o u)[Len(s) + k] = u[k]  BY <2>1, <1>3
  <2>3. QED  BY <2>1, <2>2, <1>2 DEF ToSet
<1>6. ToSet(s \o u) \subseteq ToSet(s) \cup ToSet(u)
  <2> SUFFICES ASSUME NEW k \in 1 .. Len(s) + Len(u)
               PROVE  (s \o u)[k] \in ToSet(s) \cup ToSet(u)
    BY <1>2 DEF ToSet
  <2>1. CASE k \in 1 .. Len(s)  BY <2>1, <1>2, <1>3 DEF ToSet
  <2>2. CASE k \in Len(s) + 1 .. Len(s) + Len(u)
    <3>1. k - Len(s) \in 1 .. Len(u)  BY <2>2, <1>2
    <3>2. (s \o u)[k] = u[k - Len(s)]  BY <2>2, <1>3
    <3>3. QED  BY <3>1, <3>2, <1>2 DEF ToSet
  <2>3. QED  BY <2>1, <2>2, <1>2
<1>7. QED  BY <1>1, <1>4, <1>5, <1>6

(* No frame is lost or shared while main runs, with any pool, rings and    *)
(* batch.                                                                  *)
THEOREM FramesAreConserved == Spec => []FramesConserved
<1>1. ReceiverInv => FramesConserved
  <2> SUFFICES ASSUME ReceiverInv, pc \in LoopPcs
               PROVE  LET all == fq \o driver \o Unhandled
                      IN  Len(all) = NumFrames /\ ToSet(all) = Frames
    BY DEF FramesConserved
  <2>0. /\ fq \in Seq(Frames) /\ driver \in Seq(Frames) /\ rx \in Seq(Frames)
        /\ Len(rx) \in Nat /\ Len(fq) \in Nat /\ Len(driver) \in Nat
        /\ i \in Nat /\ rcvd \in Nat /\ i <= rcvd /\ rcvd <= Len(rx)
    BY DEF ReceiverInv, TypeOK, BatchInv
  <2>1. i <= Len(rx)  BY <2>0
  <2>2. /\ Unhandled \in Seq(Frames) /\ Len(Unhandled) = Len(rx) - i
        /\ {Unhandled[k] : k \in 1 .. Len(Unhandled)} = {rx[k] : k \in i + 1 .. Len(rx)}
    BY <2>0, <2>1, PlacesAfterRelease DEF Unhandled
  <2>3. ToSet(Unhandled) = {rx[k] : k \in i + 1 .. Len(rx)}
    <3>1. DOMAIN Unhandled = 1 .. Len(Unhandled)  BY <2>2
    <3>2. QED  BY <3>1, <2>2 DEF ToSet
  <2> DEFINE two == fq \o driver
  <2>4. two \in Seq(Frames) /\ Len(two) = Len(fq) + Len(driver) /\ ToSet(two) = ToSet(fq) \cup ToSet(driver)
    BY <2>0, ConcatSet
  <2> HIDE DEF two
  <2>5. Len(two \o Unhandled) = Len(two) + Len(Unhandled)
        /\ ToSet(two \o Unhandled) = ToSet(two) \cup ToSet(Unhandled)
    BY <2>4, <2>2, ConcatSet
  <2>6. Len(two \o Unhandled) = NumFrames
    BY <2>0, <2>2, <2>4, <2>5, ReceiverAssumption DEF ReceiverInv, CountInv
  <2>7. ToSet(two \o Unhandled) = Frames
    BY <2>3, <2>4, <2>5 DEF ReceiverInv, PlaceInv
  <2>8. QED  BY <2>6, <2>7 DEF two
<1>2. QED  BY <1>1, ReceiverInvariant, PTL

(* The loop around xsk_ring_prod__reserve is never repeated, whenever the  *)
(* fill ring has an entry for every frame.                                 *)
THEOREM ReservesNeverSpin == Spec => []ReserveNeverSpins
<1>1. ReceiverInv => ReserveNeverSpins
  <2> SUFFICES ASSUME ReceiverInv, pc = "recycle" PROVE Len(fq) < FillSize
    BY DEF ReserveNeverSpins
  <2>1. /\ Len(fq) \in Nat /\ Len(driver) \in Nat /\ Len(rx) \in Nat
        /\ i \in Nat /\ rcvd \in Nat
    BY DEF ReceiverInv, TypeOK
  <2>2. i < rcvd /\ rcvd <= Len(rx) /\ Len(fq) + Len(driver) + Len(rx) = NumFrames + i
    BY DEF ReceiverInv, BatchInv, CountInv, LoopPcs
  <2>3. QED  BY <2>1, <2>2, ReceiverAssumption
<1>2. QED  BY <1>1, ReceiverInvariant, PTL

(* The frames are not released before the socket, wherever init_xsk failed. *)
THEOREM SocketsHaveMemory == Spec => []SocketHasMemory
<1>1. ReceiverInv => SocketHasMemory  BY DEF ReceiverInv, MemoryInv
<1>2. QED  BY <1>1, ReceiverInvariant, PTL
=============================================================================
