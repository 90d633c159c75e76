--------------------------- MODULE ChecksumProofs ---------------------------
(***************************************************************************)
(* The incremental update keeps every verdict on a packet, for words of    *)
(* any size and all packets.                                               *)
(***************************************************************************)
EXTENDS Checksum, TLAPS

(* Equal in one's complement arithmetic. *)
Congruent(a, b) == \E d \in Int : b = a + d * (W - 1)

(* One folding takes off the carries: a multiple of W - 1. *)
LEMMA FoldTakesCarries ==
  ASSUME NEW c \in 0 .. 3 * (W - 1)
  PROVE  /\ Fold(c) \in 0 .. W
         /\ Fold(c) = c \/ Fold(c) = c - (W - 1) \/ Fold(c) = c - 2 * (W - 1)
<1> USE ChecksumAssumption
<1>1. CASE c < W
  <2>1. c % W = c /\ c \div W = 0  BY <1>1
  <2>2. QED  BY <1>1, <2>1 DEF Fold
<1>2. CASE W <= c /\ c < 2 * W
  <2>1. c % W = c - W /\ c \div W = 1  BY <1>2
  <2>2. QED  BY <1>2, <2>1 DEF Fold
<1>3. CASE 2 * W <= c
  <2>1. c % W = c - 2 * W /\ c \div W = 2  BY <1>3
  <2>2. QED  BY <1>3, <2>1 DEF Fold
<1>4. QED  BY <1>1, <1>2, <1>3

(* After two foldings no carry is left. *)
LEMMA TwoFoldsSuffice ==
  ASSUME NEW c \in 0 .. 3 * (W - 1)
  PROVE  /\ Fold(Fold(c)) \in Words
         /\ \E e \in 0 .. 2 : Fold(Fold(c)) = c - e * (W - 1)
<1> USE ChecksumAssumption
<1> DEFINE f == Fold(c)
<1>1. /\ f \in 0 .. W
      /\ f = c \/ f = c - (W - 1) \/ f = c - 2 * (W - 1)
  BY FoldTakesCarries
<1> HIDE DEF f
<1>2. CASE f < W
  <2>1. f % W = f /\ f \div W = 0  BY <1>1, <1>2
  <2>2. Fold(f) = f  BY <1>1, <2>1 DEF Fold
  <2>3. QED  BY <1>1, <1>2, <2>2 DEF Words, f
<1>3. CASE f = W
  <2>1. f % W = 0 /\ f \div W = 1  BY <1>3
  <2>2. Fold(f) = 1  BY <2>1 DEF Fold
  <2>3. f # c - 2 * (W - 1)  BY <1>3
  <2>4. QED  BY <1>1, <1>3, <2>2, <2>3 DEF Words, f
<1>4. QED  BY <1>1, <1>2, <1>3

(* zereh_csum_replace_u16: the new checksum with the new word adds up to   *)
(* what the old checksum with the old word did.                            *)
LEMMA ReplaceKeepsSum ==
  ASSUME NEW check \in Words, NEW oldv \in Words, NEW newv \in Words
  PROVE  LET n == csum_replace_u16(check, oldv, newv)
         IN  n \in Words /\ \E d \in Int : n + newv = check + oldv + d * (W - 1)
<1> USE ChecksumAssumption
<1> DEFINE c == Not(check) + Not(oldv) + newv
           g == Fold(Fold(c))
           n == csum_replace_u16(check, oldv, newv)
<1>1. c = 2 * (W - 1) - check - oldv + newv /\ c \in 0 .. 3 * (W - 1)
  BY DEF Not, Words
<1>2. g \in Words /\ \E e \in 0 .. 2 : g = c - e * (W - 1)
  BY <1>1, TwoFoldsSuffice
<1>3. n = Not(g % W)  BY DEF csum_replace_u16
<1> HIDE DEF c, g, n
<1>4. g % W = g  BY <1>2 DEF Words
<1>5. n = (W - 1) - g  BY <1>3, <1>4 DEF Not
<1>6. PICK e \in 0 .. 2 : g = c - e * (W - 1)  BY <1>2
<1>7. n + newv = check + oldv + (e - 1) * (W - 1)
  <2>1. e = 0 \/ e = 1 \/ e = 2  BY <1>6
  <2>2. QED  BY <1>1, <1>2, <1>5, <1>6, <2>1 DEF Words
<1>8. n \in Words  BY <1>2, <1>5 DEF Words
<1>9. e - 1 \in Int  BY <1>6
<1>10. \E d \in Int : n + newv = check + oldv + d * (W - 1)  BY <1>7, <1>9
<1>11. QED  BY <1>8, <1>10 DEF n

(* The same for the two words of an address, in zereh_csum_replace_u32. *)
LEMMA ReplaceAddressKeepsSum ==
  ASSUME NEW check \in Words, NEW oldv \in Words \X Words, NEW newv \in Words \X Words
  PROVE  LET n == csum_replace_u32(check, oldv, newv)
         IN  /\ n \in Words
             /\ \E d \in Int : n + newv[1] + newv[2] = check + oldv[1] + oldv[2] + d * (W - 1)
<1> USE ChecksumAssumption
<1>0. oldv[1] \in Words /\ oldv[2] \in Words /\ newv[1] \in Words /\ newv[2] \in Words
  OBVIOUS
<1> DEFINE m == csum_replace_u16(check, oldv[1], newv[1])
           n == csum_replace_u16(m, oldv[2], newv[2])
<1>1. m \in Words /\ \E d \in Int : m + newv[1] = check + oldv[1] + d * (W - 1)
  BY <1>0, ReplaceKeepsSum
<1> HIDE DEF m
<1>2. n \in Words /\ \E d \in Int : n + newv[2] = m + oldv[2] + d * (W - 1)
  BY <1>0, <1>1, ReplaceKeepsSum
<1>3. n = csum_replace_u32(check, oldv, newv)  BY DEF csum_replace_u32, m
<1> HIDE DEF n
<1>4. PICK d \in Int : m + newv[1] = check + oldv[1] + d * (W - 1)  BY <1>1
<1>5. PICK e \in Int : n + newv[2] = m + oldv[2] + e * (W - 1)  BY <1>2
<1>6. d * (W - 1) + e * (W - 1) = (d + e) * (W - 1) /\ d * (W - 1) \in Int /\ e * (W - 1) \in Int
  BY <1>4, <1>5
<1>7. n + newv[1] + newv[2] = check + oldv[1] + oldv[2] + (d * (W - 1) + e * (W - 1))
  <2> DEFINE x == d * (W - 1)
             y == e * (W - 1)
  <2>1. x \in Int /\ y \in Int  BY <1>6
  <2>2. m + newv[1] = check + oldv[1] + x /\ n + newv[2] = m + oldv[2] + y  BY <1>4, <1>5
  <2>3. /\ check \in Int /\ m \in Int /\ n \in Int /\ oldv[1] \in Int /\ oldv[2] \in Int
        /\ newv[1] \in Int /\ newv[2] \in Int
    BY <1>0, <1>1, <1>2 DEF Words
  <2> HIDE DEF x, y
  <2>4. n + newv[1] + newv[2] = check + oldv[1] + oldv[2] + (x + y)  BY <2>1, <2>2, <2>3
  <2>5. QED  BY <2>4 DEF x, y
<1>8. d + e \in Int  BY <1>4, <1>5
<1>9. \E x \in Int : n + newv[1] + newv[2] = check + oldv[1] + oldv[2] + x * (W - 1)
  BY <1>6, <1>7, <1>8
<1>10. QED  BY <1>2, <1>3, <1>9

(* Congruent sums get the same verdict. *)
LEMMA CongruentVerdict ==
  ASSUME NEW a \in Nat, NEW b \in Nat, Congruent(a, b)
  PROVE  Verifies(a) <=> Verifies(b)
<1> USE ChecksumAssumption
<1> DEFINE M == W - 1
<1>0. M \in Nat /\ M >= 1  OBVIOUS
<1>1. PICK d \in Int : b = a + d * M  BY DEF Congruent
<1> HIDE DEF M
<1>2. ASSUME NEW x \in Nat, NEW y \in Nat, NEW e \in Int, y = x + e * M, NEW k \in 0 .. x, x = k * M
      PROVE  \E l \in 0 .. y : y = l * M
  <2>1. y = (k + e) * M  BY <1>0, <1>2
  <2>2. k + e \in Int  BY <1>2
  <2>3. k + e >= 0  BY <1>0, <1>2, <2>1, <2>2
  <2>4. k + e <= y  BY <1>0, <1>2, <2>1, <2>2, <2>3
  <2>5. k + e \in 0 .. y  BY <1>2, <2>2, <2>3, <2>4
  <2>6. QED  BY <2>1, <2>5
<1>3. ASSUME Verifies(a) PROVE Verifies(b)
  <2>1. PICK k \in 0 .. a : a = k * M  BY <1>3 DEF Verifies, M
  <2>2. \E l \in 0 .. b : b = l * M  BY <1>1, <1>2, <2>1
  <2>3. QED  BY <2>2 DEF Verifies, M
<1>4. a = b + (0 - d) * M /\ 0 - d \in Int  BY <1>0, <1>1
<1>5. ASSUME Verifies(b) PROVE Verifies(a)
  <2>1. PICK k \in 0 .. b : b = k * M  BY <1>5 DEF Verifies, M
  <2>2. \E l \in 0 .. a : a = l * M  BY <1>4, <1>2, <2>1
  <2>3. QED  BY <2>2 DEF Verifies, M
<1>6. QED  BY <1>3, <1>5

-----------------------------------------------------------------------------
(* The sums of a packet are natural numbers. *)
LEMMA SumsAreNat ==
  ASSUME NEW p \in Packets
  PROVE  IpSum(p) \in Nat /\ UdpSum(p) \in Nat
<1>1. /\ p.ip_rest \in Nat /\ p.udp_rest \in Nat /\ p.daddr[1] \in Nat /\ p.daddr[2] \in Nat
      /\ p.dest \in Nat /\ p.ip_check \in Nat /\ p.udp_check \in Nat
  BY ChecksumAssumption DEF Packets, Words
<1>2. QED  BY <1>1 DEF IpSum, UdpSum

(* Congruence carries over from one rewriting to the next. *)
LEMMA CongruentTransitive ==
  ASSUME NEW a \in Int, NEW b \in Int, NEW c \in Int, Congruent(a, b), Congruent(b, c)
  PROVE  Congruent(a, c)
<1> USE ChecksumAssumption
<1> DEFINE M == W - 1
<1>0. M \in Int  OBVIOUS
<1>1. PICK d \in Int : b = a + d * M  BY DEF Congruent
<1>2. PICK e \in Int : c = b + e * M  BY DEF Congruent
<1> HIDE DEF M
<1>3. d + e \in Int /\ (d + e) * M = d * M + e * M /\ d * M \in Int /\ e * M \in Int
  BY <1>0, <1>1, <1>2
<1>4. c = a + (d + e) * M  BY <1>1, <1>2, <1>3
<1>5. QED  BY <1>3, <1>4 DEF Congruent, M

(* Congruence is reflexive. *)
LEMMA CongruentReflexive ==
  ASSUME NEW a \in Int
  PROVE  Congruent(a, a)
<1>1. a = a + 0 * (W - 1)  BY ChecksumAssumption
<1>2. QED  BY <1>1 DEF Congruent

(* What one rewriting does to both sums of the packet. *)
StepKeepsSums ==
  /\ pkt' \in Packets
  /\ Congruent(IpSum(pkt), IpSum(pkt'))
  /\ pkt.udp_check = 0 => pkt'.udp_check = 0
  /\ pkt.udp_check # 0 => Congruent(UdpSum(pkt), UdpSum(pkt'))

(* The address step: both sums contain the address. *)
LEMMA AddressStep == TypeOK /\ RewriteAddress => StepKeepsSums
<1> SUFFICES ASSUME TypeOK, RewriteAddress PROVE StepKeepsSums  OBVIOUS
<1> USE ChecksumAssumption
<1>0. /\ pkt \in Packets /\ arg.daddr \in Words \X Words
      /\ pkt.daddr \in Words \X Words /\ pkt.ip_check \in Words /\ pkt.udp_check \in Words
  BY DEF TypeOK, Packets
<1>1. CASE pkt' = pkt
  BY <1>0, <1>1, SumsAreNat, CongruentReflexive DEF StepKeepsSums
<1>2. CASE pkt' # pkt
  <2> DEFINE ip == csum_replace_u32(pkt.ip_check, pkt.daddr, arg.daddr)
             udp == csum_replace_u32(pkt.udp_check, pkt.daddr, arg.daddr)
  <2>1. /\ pkt' = [pkt EXCEPT !.ip_check = ip, !.udp_check = UpdateUdpCheck(@, udp),
                              !.daddr = arg.daddr]
    BY <1>2 DEF RewriteAddress
  <2>2. /\ ip \in Words
        /\ \E d \in Int : ip + arg.daddr[1] + arg.daddr[2]
                          = pkt.ip_check + pkt.daddr[1] + pkt.daddr[2] + d * (W - 1)
    BY <1>0, ReplaceAddressKeepsSum, ZenonT(60)
  <2>3. /\ udp \in Words
        /\ \E d \in Int : udp + arg.daddr[1] + arg.daddr[2]
                          = pkt.udp_check + pkt.daddr[1] + pkt.daddr[2] + d * (W - 1)
    BY <1>0, ReplaceAddressKeepsSum, ZenonT(60)
  <2> HIDE DEF ip, udp
  <2>4. /\ pkt'.ip_check = ip /\ pkt'.daddr = arg.daddr /\ pkt'.dest = pkt.dest
        /\ pkt'.udp_check = UpdateUdpCheck(pkt.udp_check, udp)
        /\ pkt'.ip_rest = pkt.ip_rest /\ pkt'.udp_rest = pkt.udp_rest
    BY <1>0, <2>1 DEF Packets
  <2>5. UpdateUdpCheck(pkt.udp_check, udp) \in Words  BY <1>0, <2>3 DEF UpdateUdpCheck
  <2>6. pkt' \in Packets  BY <1>0, <2>1, <2>2, <2>5 DEF Packets
  <2>7. /\ arg.daddr[1] \in Int /\ arg.daddr[2] \in Int
        /\ pkt.daddr[1] \in Int /\ pkt.daddr[2] \in Int /\ pkt.dest \in Int
        /\ pkt.ip_check \in Int /\ pkt.udp_check \in Int
        /\ pkt.ip_rest \in Int /\ pkt.udp_rest \in Int /\ ip \in Int /\ udp \in Int
    BY <1>0, <2>2, <2>3 DEF Packets, Words
  <2>8. Congruent(IpSum(pkt), IpSum(pkt'))
    <3>1. PICK d \in Int : ip + arg.daddr[1] + arg.daddr[2]
                          = pkt.ip_check + pkt.daddr[1] + pkt.daddr[2] + d * (W - 1)
      BY <2>2
    <3> DEFINE x == d * (W - 1)
    <3>2. x \in Int  BY <3>1
    <3>3. ip + arg.daddr[1] + arg.daddr[2] = pkt.ip_check + pkt.daddr[1] + pkt.daddr[2] + x
      BY <3>1
    <3> HIDE DEF x
    <3>4. IpSum(pkt') = IpSum(pkt) + x  BY <2>4, <2>7, <3>2, <3>3 DEF IpSum
    <3>5. QED  BY <3>4 DEF Congruent, x
  <2>9. ASSUME pkt.udp_check # 0 PROVE Congruent(UdpSum(pkt), UdpSum(pkt'))
    <3>1. PICK d \in Int : udp + arg.daddr[1] + arg.daddr[2]
                          = pkt.udp_check + pkt.daddr[1] + pkt.daddr[2] + d * (W - 1)
      BY <2>3
    <3> DEFINE x == d * (W - 1)
    <3>2. x \in Int  BY <3>1
    <3>3. udp + arg.daddr[1] + arg.daddr[2] = pkt.udp_check + pkt.daddr[1] + pkt.daddr[2] + x
      BY <3>1
    <3> HIDE DEF x
    <3>4. pkt'.udp_check = udp  BY <2>4, <2>9 DEF UpdateUdpCheck
    <3>5. UdpSum(pkt') = UdpSum(pkt) + x  BY <2>4, <2>7, <3>2, <3>3, <3>4 DEF UdpSum
    <3>6. QED  BY <3>5 DEF Congruent, x
  <2>10. pkt.udp_check = 0 => pkt'.udp_check = 0  BY <2>4 DEF UpdateUdpCheck
  <2>11. QED  BY <2>6, <2>8, <2>9, <2>10 DEF StepKeepsSums
<1>3. QED  BY <1>1, <1>2

(* The port step: only the UDP sum contains the port. *)
LEMMA PortStep == TypeOK /\ RewritePort => StepKeepsSums
<1> SUFFICES ASSUME TypeOK, RewritePort PROVE StepKeepsSums  OBVIOUS
<1> USE ChecksumAssumption
<1>0. /\ pkt \in Packets /\ arg.dest \in Words
      /\ pkt.dest \in Words /\ pkt.udp_check \in Words
  BY DEF TypeOK, Packets
<1>1. CASE pkt' = pkt
  BY <1>0, <1>1, SumsAreNat, CongruentReflexive DEF StepKeepsSums
<1>2. CASE pkt' # pkt
  <2> DEFINE udp == csum_replace_u16(pkt.udp_check, pkt.dest, arg.dest)
  <2>1. pkt' = [pkt EXCEPT !.udp_check = UpdateUdpCheck(@, udp), !.dest = arg.dest]
    BY <1>2 DEF RewritePort
  <2>2. /\ udp \in Words
        /\ \E d \in Int : udp + arg.dest = pkt.udp_check + pkt.dest + d * (W - 1)
    BY <1>0, ReplaceKeepsSum
  <2> HIDE DEF udp
  <2>3. /\ pkt'.ip_check = pkt.ip_check /\ pkt'.daddr = pkt.daddr /\ pkt'.dest = arg.dest
        /\ pkt'.udp_check = UpdateUdpCheck(pkt.udp_check, udp)
        /\ pkt'.ip_rest = pkt.ip_rest /\ pkt'.udp_rest = pkt.udp_rest
    BY <1>0, <2>1 DEF Packets
  <2>4. UpdateUdpCheck(pkt.udp_check, udp) \in Words  BY <1>0, <2>2 DEF UpdateUdpCheck
  <2>5. pkt' \in Packets  BY <1>0, <2>1, <2>4 DEF Packets
  <2>6. Congruent(IpSum(pkt), IpSum(pkt'))
    <3>1. IpSum(pkt') = IpSum(pkt)  BY <2>3 DEF IpSum
    <3>2. QED  BY <3>1, <1>0, SumsAreNat, CongruentReflexive
  <2>7. ASSUME pkt.udp_check # 0 PROVE Congruent(UdpSum(pkt), UdpSum(pkt'))
    <3>1. PICK d \in Int : udp + arg.dest = pkt.udp_check + pkt.dest + d * (W - 1)  BY <2>2
    <3> DEFINE x == d * (W - 1)
    <3>2. x \in Int  BY <3>1
    <3>3. udp + arg.dest = pkt.udp_check + pkt.dest + x  BY <3>1
    <3> HIDE DEF x
    <3>4. /\ arg.dest \in Int /\ pkt.dest \in Int /\ pkt.udp_check \in Int /\ udp \in Int
          /\ pkt.daddr[1] \in Int /\ pkt.daddr[2] \in Int /\ pkt.udp_rest \in Int
      BY <1>0, <2>2 DEF Packets, Words
    <3>5. pkt'.udp_check = udp  BY <2>3, <2>7 DEF UpdateUdpCheck
    <3>6. UdpSum(pkt') = UdpSum(pkt) + x  BY <2>3, <3>2, <3>3, <3>4, <3>5 DEF UdpSum
    <3>7. QED  BY <3>6 DEF Congruent, x
  <2>8. pkt.udp_check = 0 => pkt'.udp_check = 0  BY <2>3 DEF UpdateUdpCheck
  <2>9. QED  BY <2>5, <2>6, <2>7, <2>8 DEF StepKeepsSums
<1>3. QED  BY <1>1, <1>2

-----------------------------------------------------------------------------
(* The sums are congruent to those of the packet that arrived, and a UDP   *)
(* checksum that has become 0 stays 0.                                     *)
SumInv ==
  /\ TypeOK
  /\ Congruent(IpSum(orig), IpSum(pkt))
  /\ pkt.udp_check # 0 => orig.udp_check # 0 /\ Congruent(UdpSum(orig), UdpSum(pkt))

(* The sums of the packet never leave their class. *)
THEOREM SumInvariant == Spec => []SumInv
<1> USE ChecksumAssumption
<1>1. Init => SumInv
  <2> SUFFICES ASSUME Init PROVE SumInv  OBVIOUS
  <2>1. pkt \in Packets  BY DEF Init, Packets
  <2>2. orig = pkt /\ pc = "daddr"  BY DEF Init
  <2>3. arg \in [daddr : Words \X Words, dest : Words]  BY DEF Init
  <2>4. QED
    BY <2>1, <2>2, <2>3, SumsAreNat, CongruentReflexive DEF SumInv, TypeOK
<1>2. SumInv /\ [Next]_vars => SumInv'
  <2> SUFFICES ASSUME SumInv, [Next]_vars PROVE SumInv'  OBVIOUS
  <2>0. TypeOK /\ pkt \in Packets /\ orig \in Packets  BY DEF SumInv, TypeOK
  <2>1. CASE RewriteAddress \/ RewritePort
    <3>1. StepKeepsSums  BY <2>0, <2>1, AddressStep, PortStep
    <3>2. pc' \in {"dest", "pass"} /\ UNCHANGED <<orig, arg>>
      BY <2>1 DEF RewriteAddress, RewritePort
    <3>3. TypeOK'  BY <3>1, <3>2, <2>0 DEF TypeOK, StepKeepsSums
    <3>4. /\ IpSum(orig) \in Int /\ UdpSum(orig) \in Int /\ IpSum(pkt) \in Int
          /\ UdpSum(pkt) \in Int /\ IpSum(pkt') \in Int /\ UdpSum(pkt') \in Int
      BY <2>0, <3>1, SumsAreNat DEF StepKeepsSums
    <3>5. Congruent(IpSum(orig), IpSum(pkt'))
      BY <3>1, <3>4, CongruentTransitive DEF SumInv, StepKeepsSums
    <3>6. pkt'.udp_check # 0 => orig.udp_check # 0 /\ Congruent(UdpSum(orig), UdpSum(pkt'))
      BY <3>1, <3>4, CongruentTransitive DEF SumInv, StepKeepsSums
    <3>7. QED  BY <3>2, <3>3, <3>5, <3>6 DEF SumInv
  <2>2. CASE UNCHANGED vars  BY <2>2 DEF vars, SumInv, TypeOK
  <2>3. QED  BY <2>1, <2>2 DEF Next
<1>3. QED  BY <1>1, <1>2, PTL DEF Spec

(* No good packet is spoiled by zereh_route_kernel_space. *)
THEOREM GoodPacketsStayGood == Spec => []GoodStaysGood
<1>1. SumInv => GoodStaysGood
  <2> SUFFICES ASSUME SumInv PROVE GoodStaysGood  OBVIOUS
  <2>1. /\ IpSum(orig) \in Nat /\ UdpSum(orig) \in Nat /\ IpSum(pkt) \in Nat /\ UdpSum(pkt) \in Nat
    BY SumsAreNat DEF SumInv, TypeOK
  <2>2. Verifies(IpSum(orig)) <=> Verifies(IpSum(pkt))
    BY <2>1, CongruentVerdict DEF SumInv
  <2>3. pkt.udp_check # 0 => (Verifies(UdpSum(orig)) <=> Verifies(UdpSum(pkt)))
    BY <2>1, CongruentVerdict DEF SumInv
  <2>4. QED  BY <2>2, <2>3 DEF SumInv, GoodStaysGood, UdpAccepted
<1>2. QED  BY <1>1, SumInvariant, PTL

(* No bad packet is repaired, except where its UDP checksum became 0. *)
THEOREM BadPacketsStayBad == Spec => []BadStaysBad
<1>1. SumInv => BadStaysBad
  <2> SUFFICES ASSUME SumInv PROVE BadStaysBad  OBVIOUS
  <2>1. /\ IpSum(orig) \in Nat /\ UdpSum(orig) \in Nat /\ IpSum(pkt) \in Nat /\ UdpSum(pkt) \in Nat
    BY SumsAreNat DEF SumInv, TypeOK
  <2>2. Verifies(IpSum(orig)) <=> Verifies(IpSum(pkt))
    BY <2>1, CongruentVerdict DEF SumInv
  <2>3. pkt.udp_check # 0 => (Verifies(UdpSum(orig)) <=> Verifies(UdpSum(pkt)))
    BY <2>1, CongruentVerdict DEF SumInv
  <2>4. QED  BY <2>2, <2>3 DEF SumInv, BadStaysBad, UdpAccepted
<1>2. QED  BY <1>1, SumInvariant, PTL
=============================================================================
