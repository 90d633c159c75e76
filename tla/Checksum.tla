------------------------------ MODULE Checksum ------------------------------
(***************************************************************************)
(* zereh_route_kernel_space in xdp/xdp_template.c: rewriting the address   *)
(* and the port of a query in place, with incremental checksum updates.    *)
(*                                                                         *)
(* A packet is the words that the function reads or writes, and for each   *)
(* checksum the sum of the other words it covers (never 0: the IP header   *)
(* has its version, the pseudo header its protocol).  The generator always *)
(* passes 0 for new_daddr; the branch for another address is checked too,  *)
(* as part of what the function promises.                                  *)
(***************************************************************************)
EXTENDS Integers

CONSTANTS
  W,          \* number of values of a word: 65536
  Addresses,  \* addresses, as pairs of words
  Ports,      \* destination ports, as words
  Rests       \* sums of the words that stay as they are

Words == 0 .. W - 1

ASSUME ChecksumAssumption ==
  /\ W \in Nat /\ W >= 4
  /\ Addresses \subseteq Words \X Words
  /\ Ports \subseteq Words
  /\ Rests \subseteq Nat \ {0}

VARIABLES
  pc,    \* which field is looked at next
  pkt,   \* the packet
  orig,  \* the packet as it arrived (history)
  arg    \* the new address and port

vars == <<pc, pkt, orig, arg>>

Packets ==
  [daddr : Words \X Words, dest : Words, ip_check : Words, udp_check : Words,
   ip_rest : Nat \ {0}, udp_rest : Nat \ {0}]

TypeOK ==
  /\ pc \in {"daddr", "dest", "pass"}
  /\ pkt \in Packets
  /\ orig \in Packets
  /\ arg \in [daddr : Words \X Words, dest : Words]

-----------------------------------------------------------------------------
(* The complement of a word, and one folding of the carries. *)
Not(w) == (W - 1) - w

Fold(csum) == (csum % W) + (csum \div W)

(* Variant: the carries are folded only once. *)
csum_replace_u16_once(check, oldv, newv) ==
  Not(Fold(Not(check) + Not(oldv) + newv) % W)

(* Variant: the old value is not complemented. *)
csum_replace_u16_adds_old(check, oldv, newv) ==
  Not(Fold(Fold(Not(check) + oldv + newv)) % W)

(* The cast of the result keeps its low word. *)
csum_replace_u16(check, oldv, newv) ==
  Not(Fold(Fold(Not(check) + Not(oldv) + newv)) % W)

csum_replace_u32(check, oldv, newv) ==
  csum_replace_u16(csum_replace_u16(check, oldv[1], newv[1]), oldv[2], newv[2])

(* A UDP checksum of 0 means that there is none. *)
UpdateUdpCheck(check, updated) == IF check # 0 THEN updated ELSE check

RewriteAddress ==
  /\ pc = "daddr"
  /\ pkt' = IF arg.daddr # <<0, 0>> /\ pkt.daddr # arg.daddr
            THEN [pkt EXCEPT
                    !.ip_check  = csum_replace_u32(@, pkt.daddr, arg.daddr),
                    !.udp_check = UpdateUdpCheck(@, csum_replace_u32(@, pkt.daddr, arg.daddr)),
                    !.daddr     = arg.daddr]
            ELSE pkt
  /\ pc' = "dest"
  /\ UNCHANGED <<orig, arg>>

RewritePort ==
  /\ pc = "dest"
  /\ pkt' = IF pkt.dest # arg.dest
            THEN [pkt EXCEPT
                    !.udp_check = UpdateUdpCheck(@, csum_replace_u16(@, pkt.dest, arg.dest)),
                    !.dest      = arg.dest]
            ELSE pkt
  /\ pc' = "pass"
  /\ UNCHANGED <<orig, arg>>

(* Any packet may arrive, with correct checksums or not. *)
Init ==
  /\ pc = "daddr"
  /\ pkt \in [daddr : Addresses, dest : Ports, ip_check : Words, udp_check : Words,
              ip_rest : Rests, udp_rest : Rests]
  /\ orig = pkt
  /\ arg \in [daddr : Addresses, dest : Ports]

Next == RewriteAddress \/ RewritePort

Spec == Init /\ [][Next]_vars

-----------------------------------------------------------------------------
(***************************************************************************)
(* The receiver's test: the words with their checksum add up to zero in    *)
(* one's complement arithmetic.                                            *)
(***************************************************************************)

Verifies(sum) == \E k \in 0 .. sum : sum = k * (W - 1)

IpSum(p) == p.ip_rest + p.daddr[1] + p.daddr[2] + p.ip_check

UdpSum(p) == p.udp_rest + p.daddr[1] + p.daddr[2] + p.dest + p.udp_check

UdpAccepted(p) == p.udp_check = 0 \/ Verifies(UdpSum(p))

(* A packet that was good is good after zereh_route_kernel_space, at every *)
(* carry, when the sender sent no UDP checksum, and when the first of two  *)
(* updates happens to give 0.                                              *)
GoodStaysGood ==
  pc = "pass" =>
    /\ Verifies(IpSum(orig)) => Verifies(IpSum(pkt))
    /\ UdpAccepted(orig) => UdpAccepted(pkt)

(* A packet damaged on the way is not repaired: its checksums still fail,  *)
(* except that an update of the UDP checksum that gives 0 turns the test   *)
(* off (the code does not store 0xffff instead).                           *)
BadStaysBad ==
  pc = "pass" =>
    /\ ~Verifies(IpSum(orig)) => ~Verifies(IpSum(pkt))
    /\ ~UdpAccepted(orig) => ~UdpAccepted(pkt) \/ pkt.udp_check = 0
=============================================================================
