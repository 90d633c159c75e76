----------------------------- MODULE DnsParser -----------------------------
(***************************************************************************)
(* xdp/dns_parser.h: the headers of a frame, and the question of a DNS     *)
(* query, read byte by byte.  Offsets count from the start of the frame.   *)
(* A byte of the frame is chosen when it is read, which happens at most    *)
(* once, so a run of the machine stands for every frame that agrees with   *)
(* the bytes read.  One step is one check with the read that follows it.   *)
(***************************************************************************)
EXTENDS DomainHash

CONSTANTS
  Bytes,       \* the values of a byte
  CharOf(_),   \* the character of a byte
  LabelMax,    \* ZEREH_DNS_MAX_LABEL_LEN (63); larger lengths are pointers or reserved
  EthHdr, MinIhl, IpWord, UdpHdr, DnsHdr,  \* sizes of the headers (14, 5, 4, 8, 12)
  FrameLens,   \* lengths of frames
  Ihls,        \* header lengths an IPv4 header may state, in words
  UdpLens      \* lengths a UDP header may state

ASSUME ParserAssumption ==
  /\ {0} \subseteq Bytes /\ Bytes \subseteq Nat
  /\ LabelMax \in Nat
  /\ {EthHdr, MinIhl, IpWord, UdpHdr, DnsHdr} \subseteq Nat
  /\ FrameLens \subseteq Nat /\ Ihls \subseteq Nat /\ UdpLens \subseteq Nat

VARIABLES
  pc,          \* the check that comes next
  data_end,    \* end of the frame
  udp,         \* offset of the UDP header
  dns_end,     \* end of the DNS message according to the UDP header
  cursor,      \* offset of the next length byte, or of the label being copied
  lbl_len,     \* length of the label being copied
  j,           \* how many of its bytes are copied
  label_depth, \* labels copied; also the counter of the label loop
  qname,       \* the name collected so far
  qname_hash,  \* its FNV-1a hash
  reach,       \* history: end of the furthest byte read
  question     \* history: the bytes of the name, as read

frame == <<data_end, udp, dns_end>>
meta == <<label_depth, qname, qname_hash>>
vars == <<pc, data_end, udp, dns_end, cursor, lbl_len, j, label_depth, qname, qname_hash,
          reach, question>>

(* A collected name has no capitals. *)
Chars == ({CharOf(b) : b \in Bytes} \cup {Dot, "a"}) \ {"A"}

Verdicts == {"accepted", "rejected"}

TypeOK ==
  /\ pc \in {"idle", "eth", "ip", "udp", "dns", "label", "copy", "end"} \cup Verdicts
  /\ {data_end, udp, dns_end, cursor, lbl_len, j, label_depth, reach} \subseteq Nat
  /\ qname \in Seq(Chars)
  /\ question \in Seq(Bytes)

Init ==
  /\ pc = "idle"
  /\ data_end = 0 /\ udp = 0 /\ dns_end = 0
  /\ cursor = 0 /\ lbl_len = 0 /\ j = 0
  /\ label_depth = 0 /\ qname = <<>> /\ qname_hash = HashBasis
  /\ reach = 0 /\ question = <<>>

(* The next frame; nothing is kept from the one before. *)
Receive ==
  /\ pc \in {"idle"} \cup Verdicts
  /\ pc' = "eth"
  /\ data_end' \in FrameLens
  /\ udp' = 0 /\ dns_end' = 0
  /\ cursor' = 0 /\ lbl_len' = 0 /\ j' = 0
  /\ label_depth' = 0 /\ qname' = <<>> /\ qname_hash' = HashBasis
  /\ reach' = 0 /\ question' = <<>>

Reject == pc' = "rejected"

-----------------------------------------------------------------------------
(***************************************************************************)
(* parse_eth_ipv4_udp.                                                     *)
(***************************************************************************)

ParseEth ==
  /\ pc = "eth"
  /\ \/ /\ EthHdr > data_end
        /\ Reject
        /\ UNCHANGED reach
     \/ /\ EthHdr <= data_end
        /\ reach' = EthHdr
        /\ \/ pc' = "ip"
           \/ Reject           \* h_proto is not IPv4
  /\ UNCHANGED <<frame, cursor, lbl_len, j, meta, question>>

ParseIp ==
  /\ pc = "ip"
  /\ \/ /\ EthHdr + MinIhl * IpWord > data_end
        /\ Reject
        /\ UNCHANGED <<reach, udp>>
     \/ /\ EthHdr + MinIhl * IpWord <= data_end
        /\ reach' = EthHdr + MinIhl * IpWord
        /\ \E ihl \in Ihls :
             \/ /\ ihl >= MinIhl
                /\ EthHdr + ihl * IpWord <= data_end
                /\ udp' = EthHdr + ihl * IpWord
                /\ pc' = "udp"
             \/ /\ ihl < MinIhl \/ EthHdr + ihl * IpWord > data_end
                /\ Reject
                /\ UNCHANGED udp
             \/ Reject /\ UNCHANGED udp   \* the protocol is not UDP
  /\ UNCHANGED <<data_end, dns_end, cursor, lbl_len, j, meta, question>>

ParseUdp ==
  /\ pc = "udp"
  /\ IF udp + UdpHdr > data_end
     THEN Reject /\ UNCHANGED reach
     ELSE pc' = "dns" /\ reach' = udp + UdpHdr
  /\ UNCHANGED <<frame, cursor, lbl_len, j, meta, question>>

-----------------------------------------------------------------------------
(***************************************************************************)
(* parse_dns_query.                                                        *)
(***************************************************************************)

(* The offset behind the DNS header, where the question starts. *)
QuestionStart == udp + UdpHdr + DnsHdr

(* Variant: the length in the UDP header is taken as it is. *)
DatagramFitsUnchecked(end) == end >= QuestionStart + 5

(* The shortest question is the root name with its type and class. *)
DatagramFits(end) == end <= data_end /\ end >= QuestionStart + 5

(* The length in the UDP header and the fixed part of the message. *)
ParseDnsHeader ==
  /\ pc = "dns"
  /\ \/ /\ QuestionStart > data_end
        /\ Reject
        /\ UNCHANGED <<dns_end, cursor, reach>>
     \/ /\ QuestionStart <= data_end
        /\ \E len \in UdpLens :
             /\ dns_end' = udp + len
             /\ \/ /\ DatagramFits(udp + len)
                   /\ pc' = "label"
                   /\ cursor' = QuestionStart
                   /\ reach' = QuestionStart
                \/ /\ ~DatagramFits(udp + len)
                   /\ Reject
                   /\ UNCHANGED <<cursor, reach>>
                \/ /\ DatagramFits(udp + len)
                   /\ Reject               \* a response, or no question
                   /\ reach' = QuestionStart
                   /\ UNCHANGED cursor
  /\ UNCHANGED <<data_end, udp, lbl_len, j, meta, question>>

(* Variant: the comparison lets one more character in. *)
QnameFullLate == Len(qname) > QnameLimit

QnameFull == Len(qname) >= QnameLimit

Store(c) ==
  /\ qname' = Append(qname, c)
  /\ qname_hash' = HashStep(qname_hash, c)

(* After the length byte at cursor, len more bytes. *)
LabelFits(len) == cursor + 1 + len <= dns_end

(* Variant: a limit that is one too high. *)
LengthLegalLate(len) == len <= LabelMax + 1

(* Variant: a limit that is one too low. *)
LengthLegalStrict(len) == len < LabelMax

LengthLegal(len) == len <= LabelMax

(* The head of the label loop: one length byte, its checks, and the dot    *)
(* in front of every label but the first.                                  *)
ReadLength ==
  /\ pc = "label"
  /\ label_depth < LabelLimit
  /\ \/ /\ cursor + 1 > dns_end
        /\ Reject
        /\ UNCHANGED <<cursor, lbl_len, j, meta, reach, question>>
     \/ /\ cursor + 1 <= dns_end
        /\ \E len \in Bytes :
             /\ reach' = cursor + 1
             /\ cursor' = cursor + 1
             /\ question' = Append(question, len)
             /\ lbl_len' = len
             /\ j' = 0
             /\ \/ /\ len = 0
                   /\ pc' = "end"
                   /\ UNCHANGED meta
                \/ /\ len # 0
                   /\ ~LengthLegal(len) \/ ~LabelFits(len) \/ (label_depth > 0 /\ QnameFull)
                   /\ Reject
                   /\ UNCHANGED meta
                \/ /\ len # 0
                   /\ LengthLegal(len) /\ LabelFits(len)
                   /\ pc' = "copy"
                   /\ IF label_depth > 0
                      THEN ~QnameFull /\ Store(Dot)
                      ELSE UNCHANGED <<qname, qname_hash>>
                   /\ UNCHANGED label_depth
  /\ UNCHANGED frame

(* The loop ends without the root label. *)
TooManyLabels ==
  /\ pc = "label"
  /\ label_depth >= LabelLimit
  /\ Reject
  /\ UNCHANGED <<frame, cursor, lbl_len, j, meta, reach, question>>

(* One iteration of the copy loop. *)
CopyByte ==
  /\ pc = "copy"
  /\ j < lbl_len /\ j < LabelMax
  /\ \E b \in Bytes :
       /\ reach' = cursor + j + 1
       /\ question' = Append(question, b)
       /\ IF QnameFull
          THEN Reject /\ UNCHANGED <<j, meta>>
          ELSE /\ Store(ToLower(CharOf(b)))
               /\ j' = j + 1
               /\ UNCHANGED <<pc, label_depth>>
  /\ UNCHANGED <<frame, cursor, lbl_len>>

EndLabel ==
  /\ pc = "copy"
  /\ j >= lbl_len \/ j >= LabelMax
  /\ cursor' = cursor + lbl_len
  /\ label_depth' = label_depth + 1
  /\ pc' = "label"
  /\ UNCHANGED <<frame, lbl_len, j, qname, qname_hash, reach, question>>

(* Type and class, and the final NUL of the name. *)
ReadTypeClass ==
  /\ pc = "end"
  /\ IF qname = <<>> \/ cursor + 4 > dns_end
     THEN Reject /\ UNCHANGED reach
     ELSE pc' = "accepted" /\ reach' = cursor + 4
  /\ UNCHANGED <<frame, cursor, lbl_len, j, meta, question>>

Next ==
  \/ Receive
  \/ ParseEth \/ ParseIp \/ ParseUdp
  \/ ParseDnsHeader
  \/ ReadLength \/ TooManyLabels \/ CopyByte \/ EndLabel
  \/ ReadTypeClass

Spec == Init /\ [][Next]_vars

-----------------------------------------------------------------------------
(***************************************************************************)
(* Properties.                                                             *)
(***************************************************************************)

(* Cells of meta->qname written so far, the final NUL included. *)
Stored == Len(qname) + (IF pc = "accepted" THEN 1 ELSE 0)

(* No read of the parser lies behind the frame, and none of the question   *)
(* behind the datagram that the UDP header announces, although the label   *)
(* lengths, the header lengths and the frame's length are independent      *)
(* inputs (the bounds checks of dns_parser.h).                             *)
ReadsInBounds ==
  /\ reach <= data_end
  /\ question # <<>> => reach <= dns_end /\ dns_end <= data_end

(* The name never leaves the ZEREH_DNS_MAX_QNAME + 1 bytes of meta->qname, *)
(* with the dots between labels and the final NUL counted.                 *)
WritesInBounds == Stored <= QnameLimit + 1

(* The encoding of a name: every label behind its length, then the root. *)
Encode(labels) ==
  Join([k \in DOMAIN labels |-> <<Len(labels[k])>> \o labels[k]]) \o <<0>>

NameOf(labels) == [k \in DOMAIN labels |-> [n \in DOMAIN labels[k] |-> CharOf(labels[k][n])]]

(* The lengths of the labels of a name. *)
Shapes == UNION {[1 .. n -> 1 .. LabelMax] : n \in 1 .. LabelLimit - 1}

(* The place of the k-th length byte in the encoding of such a name. *)
LengthAt(shape, k) ==
  LET at[n \in 1 .. Len(shape)] == IF n = 1 THEN 1 ELSE at[n - 1] + 1 + shape[n - 1]
  IN  at[k]

(* For each shape one name, with the bytes of the question where it has    *)
(* any: when some name of that shape is encoded as the question, or as an  *)
(* extension of it, this one is.                                           *)
Names ==
  LET At(x) == IF x <= Len(question) THEN question[x] ELSE 0
  IN  {[k \in DOMAIN shape |-> [n \in 1 .. shape[k] |-> At(LengthAt(shape, k) + n)]] :
        shape \in Shapes}

(* What the rest of the data plane assumes of a name (QnameMatch): the     *)
(* loop meets the root in time and the text fits, within the datagram.     *)
Acceptable(labels) ==
  /\ NameParses(NameOf(labels))
  /\ QuestionStart + Len(Encode(labels)) + 4 <= dns_end

(* An accepted question is the encoding of some list of labels, and the    *)
(* parser has collected exactly that name in lower case with its number of *)
(* labels: the byte loop of parse_dns_query computes Qname of QnameMatch.  *)
AcceptedIsDecoded ==
  pc = "accepted" =>
    \E labels \in Names :
      /\ question = Encode(labels)
      /\ Acceptable(labels)
      /\ qname = Qname(NameOf(labels))
      /\ label_depth = Len(labels)

(* A question is refused only when no acceptable name starts with the      *)
(* bytes that were read: none of the checks of the label loop is a byte    *)
(* too strict.                                                             *)
RefusedIsMalformed ==
  pc = "rejected" /\ question # <<>> =>
    ~\E labels \in Names : StartsWith(Encode(labels), question) /\ Acceptable(labels)

Capitals(name) == [k \in DOMAIN name |-> IF name[k] = "a" THEN "A" ELSE name[k]]

(* The hash that selects the route is the one the code generator put into  *)
(* the switch for any spelling of that name (capitals, a final dot), with  *)
(* either algorithm: the incremental FNV-1a of the parser and the bounded  *)
(* SipHash loop agree with control/hash.c up to the longest name.          *)
RouteHashAgrees ==
  pc = "accepted" =>
    \A domain \in {qname, Append(qname, Dot), Capitals(qname)}, algo \in Algorithms :
      Normalize(domain) = qname => HashDomain(domain, algo) = RouteHash(qname, qname_hash, algo)
=============================================================================
