-------------------------- MODULE DnsParserProofs --------------------------
(***************************************************************************)
(* For every frame, every byte and every value of the limits and header    *)
(* sizes: the memory bounds of the parser, the hash of the name it         *)
(* collects, and that it accepts the encodings of the acceptable names,    *)
(* decodes them to their text, and refuses nothing else.                   *)
(***************************************************************************)
EXTENDS DnsParser, SequenceTheorems, WellFoundedInduction, TLAPS

(* A leaf that names no prover has 30 seconds. *)
USE SMTT(30), ZenonT(30)

InQuestion == {"label", "copy", "end", "accepted"}

(* The cursor stays inside the datagram, and a label that is being copied  *)
(* lies inside it as a whole: the reads of the copy loop have no check of  *)
(* their own.                                                              *)
CursorInv ==
  /\ pc \in InQuestion => cursor <= dns_end /\ dns_end <= data_end /\ reach <= dns_end
  /\ pc = "copy" => cursor + lbl_len <= dns_end
  /\ pc \notin InQuestion \cup Verdicts => question = <<>>

ParseInv == TypeOK /\ CursorInv /\ ReadsInBounds /\ Len(qname) <= QnameLimit

(* A character that is stored is a lower-case one (zereh_ascii_tolower). *)
LEMMA LowerIsChar ==
  ASSUME NEW b \in Bytes
  PROVE  ToLower(CharOf(b)) \in Chars /\ Dot \in Chars
<1>1. Dot \in Chars  BY DEF Chars, Dot
<1>2. CASE CharOf(b) = "A"
  BY <1>1, <1>2 DEF ToLower, Chars
<1>3. CASE CharOf(b) # "A"
  BY <1>1, <1>3 DEF ToLower, Chars
<1>4. QED  BY <1>2, <1>3

(* The sizes that parse_eth_ipv4_udp computes with are natural numbers. *)
LEMMA HeaderSizes ==
  /\ EthHdr \in Nat /\ UdpHdr \in Nat /\ DnsHdr \in Nat
  /\ MinIhl * IpWord \in Nat
  /\ \A ihl \in Ihls : ihl * IpWord \in Nat
<1>1. EthHdr \in Nat /\ UdpHdr \in Nat /\ DnsHdr \in Nat /\ MinIhl \in Nat /\ IpWord \in Nat
  BY ParserAssumption
<1>2. \A m, n \in Nat : m * n \in Nat  OBVIOUS
<1>3. QED  BY <1>1, <1>2, ParserAssumption

(* No frame yet, no bytes read. *)
LEMMA InitParse == Init => ParseInv
<1> SUFFICES ASSUME Init PROVE ParseInv  OBVIOUS
<1>1. TypeOK  BY DEF Init, TypeOK
<1>2. CursorInv  BY DEF Init, CursorInv, InQuestion
<1>3. ReadsInBounds /\ Len(qname) <= QnameLimit
  BY LimitsAssumption DEF Init, ReadsInBounds
<1>4. QED  BY <1>1, <1>2, <1>3 DEF ParseInv

(* Storing a character when the name is not full keeps its type and bound. *)
LEMMA StoreKeepsName ==
  ASSUME qname \in Seq(Chars), ~QnameFull, NEW c \in Chars, Store(c)
  PROVE  qname' \in Seq(Chars) /\ Len(qname') <= QnameLimit
<1>1. qname' \in Seq(Chars) /\ Len(qname') = Len(qname) + 1  BY DEF Store
<1>2. Len(qname) \in Nat /\ QnameLimit \in Nat  BY LimitsAssumption
<1>3. QED  BY <1>1, <1>2 DEF QnameFull

(* Every step of the parser keeps the cursor and the name inside. *)
LEMMA StepParse == ParseInv /\ [Next]_vars => ParseInv'
<1> SUFFICES ASSUME ParseInv, [Next]_vars PROVE ParseInv'  OBVIOUS
<1> USE DEF ParseInv
<1>0. /\ data_end \in Nat /\ udp \in Nat /\ dns_end \in Nat /\ cursor \in Nat
      /\ lbl_len \in Nat /\ j \in Nat /\ label_depth \in Nat /\ reach \in Nat
      /\ qname \in Seq(Chars) /\ question \in Seq(Bytes)
  BY DEF TypeOK
<1>z. QnameLimit \in Nat  BY LimitsAssumption
<1>1. CASE Receive
  <2>1. /\ pc' = "eth" /\ data_end' \in Nat /\ udp' = 0 /\ dns_end' = 0 /\ cursor' = 0
        /\ lbl_len' = 0 /\ j' = 0 /\ label_depth' = 0 /\ reach' = 0
        /\ qname' = <<>> /\ question' = <<>>
    BY <1>1, ParserAssumption DEF Receive
  <2>2. TypeOK'  BY <2>1 DEF TypeOK
  <2>3. CursorInv'  BY <2>1 DEF CursorInv, InQuestion
  <2>4. ReadsInBounds' /\ Len(qname') <= QnameLimit  BY <2>1, <1>z DEF ReadsInBounds
  <2>5. QED  BY <2>2, <2>3, <2>4
<1>2. CASE ParseEth
  BY <1>2, <1>0, HeaderSizes
     DEF ParseEth, Reject, frame, meta, TypeOK, CursorInv, ReadsInBounds, InQuestion, Verdicts
<1>3. CASE ParseIp
  <2>1. /\ pc = "ip" /\ pc' \in {"udp", "rejected"}
        /\ udp' \in Nat
        /\ reach' \in Nat /\ reach' <= data_end
    BY <1>3, <1>0, HeaderSizes DEF ParseIp, Reject, ReadsInBounds
  <2>2. UNCHANGED <<data_end, dns_end, cursor, lbl_len, j, label_depth, qname, question>>
    BY <1>3 DEF ParseIp, meta
  <2>3. question = <<>>  BY <2>1 DEF CursorInv, InQuestion, Verdicts
  <2>4. TypeOK'  BY <2>1, <2>2, <1>0 DEF TypeOK, Verdicts
  <2>5. CursorInv' /\ ReadsInBounds' /\ Len(qname') <= QnameLimit
    BY <2>1, <2>2, <2>3 DEF CursorInv, ReadsInBounds, InQuestion, Verdicts
  <2>6. QED  BY <2>4, <2>5
<1>4. CASE ParseUdp
  BY <1>4, <1>0, HeaderSizes
     DEF ParseUdp, Reject, frame, meta, TypeOK, CursorInv, ReadsInBounds, InQuestion, Verdicts
<1>5. CASE ParseDnsHeader
  BY <1>5, <1>0, HeaderSizes, ParserAssumption
     DEF ParseDnsHeader, DatagramFits, QuestionStart, Reject, frame, meta,
         TypeOK, CursorInv, ReadsInBounds, InQuestion, Verdicts
<1>6. CASE ReadLength
  <2>1. CASE cursor + 1 > dns_end
    BY <1>6, <2>1, <1>0
       DEF ReadLength, Reject, frame, meta, TypeOK, CursorInv, ReadsInBounds, InQuestion, Verdicts
  <2>2. CASE cursor + 1 <= dns_end
    <3>1. PICK len \in Bytes :
            /\ reach' = cursor + 1
            /\ cursor' = cursor + 1
            /\ question' = Append(question, len)
            /\ lbl_len' = len
            /\ j' = 0
            /\ \/ pc' \in {"end", "rejected"} /\ UNCHANGED meta
               \/ /\ pc' = "copy" /\ LabelFits(len)
                  /\ (~QnameFull /\ Store(Dot)) \/ UNCHANGED <<qname, qname_hash>>
                  /\ UNCHANGED label_depth
      BY <1>6, <2>2, <1>0 DEF ReadLength, Reject
    <3>2. UNCHANGED frame /\ len \in Nat /\ pc = "label"
      BY <1>6, ParserAssumption DEF ReadLength
    <3>3. question' \in Seq(Bytes) /\ question' # <<>>  BY <3>1, <1>0
    <3>4. qname' \in Seq(Chars) /\ Len(qname') <= QnameLimit /\ label_depth' = label_depth
      BY <3>1, <1>0, StoreKeepsName, LowerIsChar DEF meta
    <3>5. TypeOK'  BY <3>1, <3>2, <3>3, <3>4, <1>0 DEF TypeOK, frame, Verdicts
    <3>6. CursorInv' /\ ReadsInBounds'
      BY <3>1, <3>2, <3>3, <1>0, <2>2
         DEF CursorInv, ReadsInBounds, InQuestion, Verdicts, frame, LabelFits
    <3>7. QED  BY <3>4, <3>5, <3>6
  <2>3. QED  BY <2>1, <2>2, <1>0
<1>7. CASE TooManyLabels
  BY <1>7, <1>0
     DEF TooManyLabels, Reject, frame, meta, TypeOK, CursorInv, ReadsInBounds, InQuestion, Verdicts
<1>8. CASE CopyByte
  <2>1. PICK b \in Bytes :
          /\ reach' = cursor + j + 1
          /\ question' = Append(question, b)
          /\ \/ pc' = "rejected" /\ UNCHANGED <<j, meta>>
             \/ /\ ~QnameFull /\ Store(ToLower(CharOf(b)))
                /\ j' = j + 1 /\ UNCHANGED <<pc, label_depth>>
    BY <1>8 DEF CopyByte, Reject
  <2>2. UNCHANGED <<frame, cursor, lbl_len>> /\ pc = "copy" /\ j < lbl_len
    BY <1>8 DEF CopyByte
  <2>3. question' \in Seq(Bytes) /\ question' # <<>>  BY <2>1, <1>0
  <2>4. qname' \in Seq(Chars) /\ Len(qname') <= QnameLimit /\ label_depth' = label_depth
    BY <2>1, <1>0, StoreKeepsName, LowerIsChar DEF meta
  <2>5. TypeOK'  BY <2>1, <2>2, <2>3, <2>4, <1>0 DEF TypeOK, frame, Verdicts
  <2>6. CursorInv' /\ ReadsInBounds'
    BY <2>1, <2>2, <2>3, <1>0 DEF CursorInv, ReadsInBounds, InQuestion, Verdicts, frame
  <2>7. QED  BY <2>4, <2>5, <2>6
<1>9. CASE EndLabel
  BY <1>9, <1>0
     DEF EndLabel, frame, TypeOK, CursorInv, ReadsInBounds, InQuestion, Verdicts
<1>10. CASE ReadTypeClass
  BY <1>10, <1>0
     DEF ReadTypeClass, Reject, frame, meta, TypeOK, CursorInv, ReadsInBounds, InQuestion, Verdicts
<1>11. CASE UNCHANGED vars
  BY <1>11, <1>0 DEF vars, TypeOK, CursorInv, ReadsInBounds, InQuestion, Verdicts
<1>12. QED
  BY <1>1, <1>2, <1>3, <1>4, <1>5, <1>6, <1>7, <1>8, <1>9, <1>10, <1>11 DEF Next

(* The inductive invariant holds in every state of every run. *)
THEOREM ParserInvariant == Spec => []ParseInv
<1>1. QED  BY InitParse, StepParse, PTL DEF Spec

(* dns_parser.h reads neither behind the frame nor, in the question,       *)
(* behind the datagram.                                                    *)
THEOREM ReadsAreInBounds == Spec => []ReadsInBounds
<1>1. ParseInv => ReadsInBounds  BY DEF ParseInv
<1>2. QED  BY <1>1, ParserInvariant, PTL

(* dns_parser.h writes no cell behind meta->qname, the final NUL included. *)
THEOREM WritesAreInBounds == Spec => []WritesInBounds
<1>1. ParseInv => WritesInBounds
  <2> SUFFICES ASSUME ParseInv PROVE WritesInBounds  OBVIOUS
  <2>1. Len(qname) \in Nat /\ Len(qname) <= QnameLimit /\ QnameLimit \in Nat
    BY LimitsAssumption DEF ParseInv, TypeOK
  <2>2. QED  BY <2>1 DEF WritesInBounds, Stored
<1>2. QED  BY <1>1, ParserInvariant, PTL

-----------------------------------------------------------------------------
(***************************************************************************)
(* Induction over the natural numbers, with a set in the place of a        *)
(* predicate.                                                              *)
(***************************************************************************)

Less == {pair \in Nat \X Nat : pair[1] < pair[2]}

(* The order of the natural numbers, as a set of pairs, is well founded. *)
LEMMA LessWellFounded == IsWellFoundedOn(Less, Nat)
<1>1. OpToRel(<, Nat) = Less  BY Zenon DEF OpToRel, Less
<1>2. QED  BY <1>1, NatLessThanWellFounded, Zenon

(* A set with 0 and the successors of its members has every number. *)
LEMMA Induction ==
  ASSUME NEW S, 0 \in S, \A n \in Nat : n \in S => n + 1 \in S
  PROVE  \A n \in Nat : n \in S
<1> DEFINE Bad == Nat \ S
<1>1. SUFFICES ASSUME Bad # {} PROVE FALSE  OBVIOUS
<1>2. Bad \in SUBSET Nat  OBVIOUS
<1> HIDE DEF Bad
<1>3. PICK x \in Bad : \A y \in Bad : ~(<<y, x>> \in Less)
  BY <1>1, <1>2, WFMin, LessWellFounded, Zenon
<1> USE DEF Bad
<1>4. x \in Nat /\ x # 0 /\ x - 1 \in Nat /\ x = (x - 1) + 1  OBVIOUS
<1>5. x - 1 \notin S  BY <1>4
<1>6. <<x - 1, x>> \in Less  BY <1>4 DEF Less
<1>7. QED  BY <1>3, <1>4, <1>5, <1>6

-----------------------------------------------------------------------------
(***************************************************************************)
(* Join: the parts so far, and what is known of them.                      *)
(***************************************************************************)

JoinsTo(parts, n, f) == f = [k \in 0 .. n |-> IF k = 0 THEN <<>> ELSE f[k - 1] \o parts[k]]

Joined(parts) == CHOOSE f : JoinsTo(parts, Len(parts), f)

(* The recursion of Join has a solution up to every part. *)
LEMMA JoinsToExists == ASSUME NEW parts PROVE \A n \in Nat : \E f : JoinsTo(parts, n, f)
<1> DEFINE S == {n \in Nat : \E f : JoinsTo(parts, n, f)}
<1>1. 0 \in S
  <2> DEFINE g == [k \in 0 .. 0 |-> <<>>]
  <2>1. JoinsTo(parts, 0, g)
    <3>1. \A k \in 0 .. 0 : k = 0  OBVIOUS
    <3>2. QED  BY <3>1 DEF JoinsTo
  <2> HIDE DEF g
  <2>2. QED  BY <2>1
<1>2. ASSUME NEW n \in Nat, n \in S PROVE n + 1 \in S
  <2>1. PICK f : JoinsTo(parts, n, f)  BY <1>2
  <2> DEFINE g == [k \in 0 .. n + 1 |-> IF k = 0 THEN <<>> ELSE f[k - 1] \o parts[k]]
  <2>2. ASSUME NEW k \in 0 .. n PROVE g[k] = f[k]
    <3>1. g[k] = IF k = 0 THEN <<>> ELSE f[k - 1] \o parts[k]  OBVIOUS
    <3> HIDE DEF g
    <3>2. f[k] = IF k = 0 THEN <<>> ELSE f[k - 1] \o parts[k]  BY <2>1 DEF JoinsTo
    <3>3. QED  BY <3>1, <3>2
  <2>3. ASSUME NEW k \in 0 .. n + 1
        PROVE  (IF k = 0 THEN <<>> ELSE f[k - 1] \o parts[k]) = IF k = 0 THEN <<>> ELSE g[k - 1] \o parts[k]
    <3>1. CASE k = 0  BY <3>1
    <3>2. CASE k # 0
      <4>1. k - 1 \in 0 .. n  BY <3>2
      <4> HIDE DEF g
      <4>2. QED  BY <2>2, <4>1, <3>2, Zenon
    <3>3. QED  BY <3>1, <3>2
  <2>4. g = [k \in 0 .. n + 1 |-> IF k = 0 THEN <<>> ELSE g[k - 1] \o parts[k]]
    BY <2>3, Zenon
  <2> HIDE DEF g
  <2>5. JoinsTo(parts, n + 1, g)  BY <2>4, Zenon DEF JoinsTo
  <2>6. QED  BY <2>5
<1> HIDE DEF S
<1>3. \A n \in Nat : n \in S  BY <1>1, <1>2, Induction
<1>4. QED  BY <1>3 DEF S

(* Such a solution starts empty and grows by one part at a time. *)
LEMMA JoinsToSteps ==
  ASSUME NEW parts, NEW n \in Nat, NEW f, JoinsTo(parts, n, f)
  PROVE  f[0] = <<>> /\ \A k \in 1 .. n : f[k] = f[k - 1] \o parts[k]
<1>1. ASSUME NEW k \in 0 .. n
      PROVE  f[k] = IF k = 0 THEN <<>> ELSE f[k - 1] \o parts[k]
  BY DEF JoinsTo
<1>2. f[0] = <<>>  BY <1>1
<1>3. ASSUME NEW k \in 1 .. n PROVE f[k] = f[k - 1] \o parts[k]
  <2>1. k \in 0 .. n /\ k # 0  OBVIOUS
  <2>2. QED  BY <1>1, <2>1, Zenon
<1>4. QED  BY <1>2, <1>3, Zenon

(* The equations of Join. *)
LEMMA JoinedDef ==
  ASSUME NEW parts, Len(parts) \in Nat
  PROVE  /\ Joined(parts)[0] = <<>>
         /\ \A k \in 1 .. Len(parts) : Joined(parts)[k] = Joined(parts)[k - 1] \o parts[k]
         /\ Join(parts) = Joined(parts)[Len(parts)]
<1>1. JoinsTo(parts, Len(parts), Joined(parts))  BY JoinsToExists, Zenon DEF Joined
<1>2. Join(parts) = Joined(parts)[Len(parts)]  BY Zenon DEF Join, Joined, JoinsTo
<1>3. QED  BY <1>1, <1>2, JoinsToSteps, Zenon

(* The parts joined so far are a sequence, and their lengths add up. *)
LEMMA JoinedType ==
  ASSUME NEW T, NEW parts \in Seq(Seq(T))
  PROVE  /\ \A k \in 0 .. Len(parts) : Joined(parts)[k] \in Seq(T)
         /\ \A k \in 1 .. Len(parts) :
              Len(Joined(parts)[k]) = Len(Joined(parts)[k - 1]) + Len(parts[k])
         /\ Join(parts) \in Seq(T)
<1> DEFINE f == Joined(parts)
           S == {k \in Nat : k <= Len(parts) => f[k] \in Seq(T)}
<1>1. /\ Len(parts) \in Nat
      /\ f[0] = <<>>
      /\ \A k \in 1 .. Len(parts) : f[k] = f[k - 1] \o parts[k] /\ parts[k] \in Seq(T)
      /\ Join(parts) = f[Len(parts)]
  <2>1. Len(parts) \in Nat /\ \A k \in 1 .. Len(parts) : parts[k] \in Seq(T)  OBVIOUS
  <2>2. QED  BY <2>1, JoinedDef, Zenon
<1> HIDE DEF f
<1>2. 0 \in S
  <2>1. f[0] \in Seq(T)  BY <1>1
  <2>2. QED  BY <2>1
<1>3. ASSUME NEW k \in Nat, k \in S PROVE k + 1 \in S
  <2>1. CASE k + 1 <= Len(parts)
    <3>1. k + 1 \in 1 .. Len(parts) /\ (k + 1) - 1 = k  BY <2>1, <1>1
    <3>2. f[k] \in Seq(T)  BY <1>3, <2>1, <1>1
    <3>3. f[k + 1] = f[k] \o parts[k + 1] /\ parts[k + 1] \in Seq(T)  BY <3>1, <1>1, Zenon
    <3>4. f[k + 1] \in Seq(T)  BY <3>2, <3>3
    <3>5. QED  BY <3>4
  <2>2. CASE ~(k + 1 <= Len(parts))  BY <2>2
  <2>3. QED  BY <2>1, <2>2
<1> HIDE DEF S
<1>4. \A k \in Nat : k \in S  BY <1>2, <1>3, Induction
<1>5. ASSUME NEW k \in 0 .. Len(parts) PROVE f[k] \in Seq(T)
  BY <1>1, <1>4 DEF S
<1>6. ASSUME NEW k \in 1 .. Len(parts) PROVE Len(f[k]) = Len(f[k - 1]) + Len(parts[k])
  <2>1. k - 1 \in 0 .. Len(parts)  BY <1>1
  <2>2. f[k - 1] \in Seq(T) /\ parts[k] \in Seq(T) /\ f[k] = f[k - 1] \o parts[k]
    BY <2>1, <1>1, <1>5, Zenon
  <2>3. QED  BY <2>2
<1>7. Join(parts) \in Seq(T)  BY <1>1, <1>5
<1>8. QED  BY <1>5, <1>6, <1>7, Zenon DEF f

(* One more part comes behind the others. *)
LEMMA JoinAppend ==
  ASSUME NEW T, NEW parts \in Seq(Seq(T)), NEW p \in Seq(T)
  PROVE  Join(Append(parts, p)) = Join(parts) \o p
<1> DEFINE more == Append(parts, p)
           f == Joined(parts)
           g == Joined(more)
           S == {k \in Nat : k <= Len(parts) => f[k] = g[k]}
<1>1. /\ Len(parts) \in Nat /\ Len(more) = Len(parts) + 1
      /\ \A k \in 1 .. Len(parts) : more[k] = parts[k]
      /\ more[Len(parts) + 1] = p
  OBVIOUS
<1> HIDE DEF more
<1>2. /\ f[0] = <<>>
      /\ \A k \in 1 .. Len(parts) : f[k] = f[k - 1] \o parts[k]
      /\ Join(parts) = f[Len(parts)]
  BY <1>1, JoinedDef, Zenon
<1>3. /\ g[0] = <<>>
      /\ \A k \in 1 .. Len(parts) + 1 : g[k] = g[k - 1] \o more[k]
      /\ Join(more) = g[Len(parts) + 1]
  <2>1. Len(more) \in Nat  BY <1>1
  <2>2. /\ g[0] = <<>>
        /\ \A k \in 1 .. Len(more) : g[k] = g[k - 1] \o more[k]
        /\ Join(more) = g[Len(more)]
    BY <2>1, JoinedDef, Zenon
  <2>3. QED  BY <2>2, <1>1, Zenon
<1> HIDE DEF f, g
<1>4. 0 \in S  BY <1>2, <1>3
<1>5. ASSUME NEW k \in Nat, k \in S PROVE k + 1 \in S
  <2>1. CASE k + 1 <= Len(parts)
    <3>1. k + 1 \in 1 .. Len(parts) /\ k + 1 \in 1 .. Len(parts) + 1 /\ (k + 1) - 1 = k
      BY <2>1, <1>1
    <3>2. f[k] = g[k]  BY <1>5, <2>1, <1>1
    <3>3. f[k + 1] = f[k] \o parts[k + 1] /\ g[k + 1] = g[k] \o more[k + 1]
      BY <3>1, <1>2, <1>3, Zenon
    <3>4. f[k + 1] = g[k + 1]  BY <3>1, <3>2, <3>3, <1>1, Zenon
    <3>5. QED  BY <3>4
  <2>2. CASE ~(k + 1 <= Len(parts))  BY <2>2
  <2>3. QED  BY <2>1, <2>2
<1> HIDE DEF S
<1>6. \A k \in Nat : k \in S  BY <1>4, <1>5, Induction
<1>7. f[Len(parts)] = g[Len(parts)]  BY <1>1, <1>6 DEF S
<1>8. /\ Len(parts) + 1 \in 1 .. Len(parts) + 1
      /\ (Len(parts) + 1) - 1 = Len(parts)
  BY <1>1
<1>9. g[Len(parts) + 1] = g[Len(parts)] \o p  BY <1>8, <1>3, <1>1, Zenon
<1>10. QED  BY <1>2, <1>3, <1>7, <1>9, Zenon DEF more

(* Where the elements of two sequences are when they are joined. *)
LEMMA ConcatType ==
  ASSUME NEW T, NEW s \in Seq(T), NEW t \in Seq(T)
  PROVE  /\ s \o t \in Seq(T)
         /\ Len(s \o t) = Len(s) + Len(t) /\ Len(s) \in Nat /\ Len(t) \in Nat
OBVIOUS

(* The elements of the first one come first. *)
LEMMA ConcatLeft ==
  ASSUME NEW T, NEW s \in Seq(T), NEW t \in Seq(T), NEW i \in 1 .. Len(s)
  PROVE  (s \o t)[i] = s[i]
OBVIOUS

(* The elements of the second one come behind them. *)
LEMMA ConcatRight ==
  ASSUME NEW T, NEW s \in Seq(T), NEW t \in Seq(T), NEW i \in 1 .. Len(t)
  PROVE  (s \o t)[Len(s) + i] = t[i]
OBVIOUS

(* A sequence that starts with another one has its elements. *)
LEMMA StartsWithAt ==
  ASSUME NEW T, NEW s \in Seq(T), NEW u \in Seq(T), StartsWith(s, u)
  PROVE  /\ Len(u) <= Len(s) /\ Len(u) \in Nat /\ Len(s) \in Nat
         /\ \A i \in 1 .. Len(u) : i \in 1 .. Len(s) /\ s[i] = u[i]
<1>1. Len(u) <= Len(s) /\ Len(u) \in Nat /\ Len(s) \in Nat /\ DOMAIN u = 1 .. Len(u)
  BY DEF StartsWith
<1>2. ASSUME NEW i \in 1 .. Len(u) PROVE i \in 1 .. Len(s)  BY <1>1
<1>3. ASSUME NEW i \in 1 .. Len(u) PROVE s[i] = u[i]  BY <1>1 DEF StartsWith
<1>4. QED  BY <1>1, <1>2, <1>3

(* It still does when more is put behind it. *)
LEMMA StartsWithConcat ==
  ASSUME NEW T, NEW s \in Seq(T), NEW t \in Seq(T), NEW u \in Seq(T), StartsWith(s, u)
  PROVE  StartsWith(s \o t, u)
<1>1. /\ Len(u) <= Len(s) /\ Len(u) \in Nat /\ Len(s) \in Nat
      /\ \A i \in 1 .. Len(u) : i \in 1 .. Len(s) /\ s[i] = u[i]
  BY StartsWithAt
<1>2. /\ Len(s \o t) = Len(s) + Len(t) /\ Len(t) \in Nat
      /\ \A i \in 1 .. Len(s) : (s \o t)[i] = s[i]
  BY ConcatType, ConcatLeft, Zenon
<1>3. Len(u) <= Len(s \o t)  BY <1>1, <1>2
<1>4. DOMAIN u = 1 .. Len(u)  OBVIOUS
<1>5. ASSUME NEW i \in 1 .. Len(u) PROVE (s \o t)[i] = u[i]  BY <1>1, <1>2, Zenon
<1>6. QED  BY <1>3, <1>4, <1>5, Zenon DEF StartsWith

(* What was joined first stays at the start. *)
LEMMA JoinPrefix ==
  ASSUME NEW T, NEW parts \in Seq(Seq(T)), NEW k \in 0 .. Len(parts)
  PROVE  StartsWith(Join(parts), Joined(parts)[k])
<1> DEFINE f == Joined(parts)
           S == {m \in Nat : k <= m /\ m <= Len(parts) => StartsWith(f[m], f[k])}
<1>1. /\ Len(parts) \in Nat
      /\ \A m \in 1 .. Len(parts) : f[m] = f[m - 1] \o parts[m]
      /\ Join(parts) = f[Len(parts)]
  <2>1. Len(parts) \in Nat  OBVIOUS
  <2>2. QED  BY <2>1, JoinedDef, Zenon
<1>2. /\ \A m \in 0 .. Len(parts) : f[m] \in Seq(T)
      /\ \A m \in 1 .. Len(parts) : parts[m] \in Seq(T)
  <2>1. \A m \in 1 .. Len(parts) : parts[m] \in Seq(T)  OBVIOUS
  <2>2. QED  BY <2>1, JoinedType, Zenon
<1> HIDE DEF f
<1>3. StartsWith(f[k], f[k])  BY <1>2 DEF StartsWith
<1>4. 0 \in S
  <2>1. k <= 0 => k = 0  OBVIOUS
  <2>2. QED  BY <2>1, <1>3
<1>5. ASSUME NEW m \in Nat, m \in S PROVE m + 1 \in S
  <2>1. CASE k <= m /\ m + 1 <= Len(parts)
    <3>1. m + 1 \in 1 .. Len(parts) /\ m \in 0 .. Len(parts) /\ (m + 1) - 1 = m
      BY <2>1, <1>1
    <3>2. StartsWith(f[m], f[k])  BY <1>5, <2>1, <3>1
    <3>3. f[m + 1] = f[m] \o parts[m + 1] /\ parts[m + 1] \in Seq(T) /\ f[m] \in Seq(T)
      BY <3>1, <1>1, <1>2, Zenon
    <3>4. f[k] \in Seq(T)  BY <1>2
    <3>5. StartsWith(f[m] \o parts[m + 1], f[k])
      BY <3>2, <3>3, <3>4, StartsWithConcat, Zenon
    <3>6. StartsWith(f[m + 1], f[k])  BY <3>3, <3>5, Zenon
    <3>7. QED  BY <3>6
  <2>2. CASE ~(k <= m)
    <3>1. k <= m + 1 => k = m + 1  BY <2>2
    <3>2. QED  BY <3>1, <1>3
  <2>3. CASE ~(m + 1 <= Len(parts))  BY <2>3
  <2>4. QED  BY <2>1, <2>2, <2>3
<1> HIDE DEF S
<1>6. \A m \in Nat : m \in S  BY <1>4, <1>5, Induction
<1>7. StartsWith(f[Len(parts)], f[k])  BY <1>1, <1>6 DEF S
<1>8. QED  BY <1>1, <1>7 DEF f

(* The elements of a part, at their place behind the parts before it. *)
LEMMA JoinAt ==
  ASSUME NEW T, NEW parts \in Seq(Seq(T)),
         NEW k \in 1 .. Len(parts), NEW i \in 1 .. Len(parts[k])
  PROVE  /\ Len(Joined(parts)[k - 1]) + i \in 1 .. Len(Join(parts))
         /\ Join(parts)[Len(Joined(parts)[k - 1]) + i] = parts[k][i]
<1> DEFINE f == Joined(parts)
<1>1. k \in 0 .. Len(parts) /\ k - 1 \in 0 .. Len(parts) /\ Len(parts) \in Nat  OBVIOUS
<1>2. f[k] \in Seq(T) /\ f[k - 1] \in Seq(T) /\ Join(parts) \in Seq(T)
  BY <1>1, JoinedType, Zenon
<1>3. f[k] = f[k - 1] \o parts[k]  BY <1>1, JoinedDef, Zenon
<1>4. StartsWith(Join(parts), f[k])  BY <1>1, JoinPrefix, Zenon
<1> HIDE DEF f
<1>a. parts[k] \in Seq(T)  OBVIOUS
<1> DEFINE x == Len(f[k - 1]) + i
<1>5. /\ Len(f[k]) = Len(f[k - 1]) + Len(parts[k])
      /\ Len(f[k - 1]) \in Nat /\ Len(parts[k]) \in Nat
      /\ f[k][x] = parts[k][i]
  <2>1. /\ Len(f[k - 1] \o parts[k]) = Len(f[k - 1]) + Len(parts[k])
        /\ Len(f[k - 1]) \in Nat /\ Len(parts[k]) \in Nat
        /\ (f[k - 1] \o parts[k])[x] = parts[k][i]
    <3>1. /\ Len(f[k - 1] \o parts[k]) = Len(f[k - 1]) + Len(parts[k])
          /\ Len(f[k - 1]) \in Nat /\ Len(parts[k]) \in Nat
      BY <1>2, <1>a, ConcatType, Zenon
    <3>2. f[k - 1] \in Seq(T)  BY <1>2, Zenon
    <3>3. (f[k - 1] \o parts[k])[x] = parts[k][i]
      <4> DEFINE s == f[k - 1]
                 t == parts[k]
      <4>1. s \in Seq(T) /\ t \in Seq(T) /\ i \in 1 .. Len(t)  BY <3>2, <1>a, Zenon
      <4> HIDE DEF s, t
      <4>2. (s \o t)[Len(s) + i] = t[i]  BY <4>1, ConcatRight
      <4>3. QED  BY <4>2, Zenon DEF s, t
    <3>4. QED  BY <3>1, <3>3, Zenon
  <2>2. QED  BY <2>1, <1>3, Zenon
<1>6. x \in 1 .. Len(f[k])
  <2>1. \A m, n \in Nat : \A y \in 1 .. n : m + y \in 1 .. m + n  OBVIOUS
  <2>2. QED  BY <2>1, <1>5, Zenon
<1> HIDE DEF x
<1>7. x \in 1 .. Len(Join(parts)) /\ Join(parts)[x] = f[k][x]
  BY <1>6, <1>4, <1>2, StartsWithAt, Zenon
<1>8. QED  BY <1>5, <1>7, Zenon DEF x, f

-----------------------------------------------------------------------------
(***************************************************************************)
(* The hash of the name.                                                   *)
(***************************************************************************)

HashesTo(data, n, f) ==
  f = [k \in 0 .. n |-> IF k = 0 THEN HashBasis ELSE HashStep(f[k - 1], data[k])]

Hashed(data) == CHOOSE f : HashesTo(data, Len(data), f)

(* The recursion of FnvBytes has a solution up to every byte. *)
LEMMA HashesToExists == ASSUME NEW data PROVE \A n \in Nat : \E f : HashesTo(data, n, f)
<1> DEFINE S == {n \in Nat : \E f : HashesTo(data, n, f)}
<1>1. 0 \in S
  <2> DEFINE g == [k \in 0 .. 0 |-> HashBasis]
  <2>1. \A k \in 0 .. 0 : k = 0  OBVIOUS
  <2>2. HashesTo(data, 0, g)  BY <2>1 DEF HashesTo
  <2> HIDE DEF g
  <2>3. QED  BY <2>2
<1>2. ASSUME NEW n \in Nat, n \in S PROVE n + 1 \in S
  <2>1. PICK f : HashesTo(data, n, f)  BY <1>2
  <2> DEFINE Step(h, k) == IF k = 0 THEN HashBasis ELSE HashStep(h[k - 1], data[k])
             g == [k \in 0 .. n + 1 |-> Step(f, k)]
  <2>2. ASSUME NEW k \in 0 .. n PROVE g[k] = f[k]
    <3>1. k \in 0 .. n + 1  OBVIOUS
    <3>2. f[k] = Step(f, k)  BY <2>1, Zenon DEF HashesTo
    <3>3. QED  BY <3>1, <3>2, Zenon
  <2>3. ASSUME NEW k \in 0 .. n + 1 PROVE Step(f, k) = Step(g, k)
    <3>1. k # 0 => k - 1 \in 0 .. n  OBVIOUS
    <3> HIDE DEF g
    <3>2. QED  BY <2>2, <3>1, Zenon
  <2>4. g = [k \in 0 .. n + 1 |-> Step(g, k)]  BY <2>3, Zenon
  <2> HIDE DEF g
  <2>5. HashesTo(data, n + 1, g)  BY <2>4, Zenon DEF HashesTo
  <2>6. QED  BY <2>5
<1> HIDE DEF S
<1>3. \A n \in Nat : n \in S  BY <1>1, <1>2, Induction
<1>4. QED  BY <1>3 DEF S

(* The equations of FnvBytes. *)
LEMMA HashedDef ==
  ASSUME NEW data, Len(data) \in Nat
  PROVE  /\ Hashed(data)[0] = HashBasis
         /\ \A k \in 1 .. Len(data) : Hashed(data)[k] = HashStep(Hashed(data)[k - 1], data[k])
         /\ FnvBytes(data) = Hashed(data)[Len(data)]
<1> DEFINE f == Hashed(data)
<1>1. HashesTo(data, Len(data), f)  BY HashesToExists, Zenon DEF Hashed
<1>2. FnvBytes(data) = f[Len(data)]  BY Zenon DEF FnvBytes, Hashed, HashesTo
<1> HIDE DEF f
<1>3. ASSUME NEW k \in 0 .. Len(data)
      PROVE  f[k] = IF k = 0 THEN HashBasis ELSE HashStep(f[k - 1], data[k])
  BY <1>1, Zenon DEF HashesTo
<1>4. 0 \in 0 .. Len(data) /\ \A k \in 1 .. Len(data) : k \in 0 .. Len(data) /\ k # 0
  OBVIOUS
<1>5. f[0] = HashBasis /\ \A k \in 1 .. Len(data) : f[k] = HashStep(f[k - 1], data[k])
  BY <1>3, <1>4, Zenon
<1>6. QED  BY <1>2, <1>5, Zenon DEF f

(* One more byte is one more step: what the parser relies on when it       *)
(* hashes a character as it stores it.                                     *)
LEMMA FnvAppend ==
  ASSUME NEW T, NEW data \in Seq(T), NEW c \in T
  PROVE  FnvBytes(Append(data, c)) = HashStep(FnvBytes(data), c)
<1> DEFINE more == Append(data, c)
           len == Len(data)
           f == Hashed(data)
           g == Hashed(more)
           S == {k \in Nat : k <= len => f[k] = g[k]}
<1>1. /\ len \in Nat /\ Len(more) = len + 1 /\ len + 1 \in Nat
      /\ \A k \in 1 .. len : more[k] = data[k]
      /\ more[len + 1] = c
  OBVIOUS
<1> HIDE DEF more
<1>2. /\ f[0] = HashBasis
      /\ \A k \in 1 .. len : f[k] = HashStep(f[k - 1], data[k])
      /\ FnvBytes(data) = f[len]
  BY <1>1, HashedDef, Zenon
<1>3. /\ g[0] = HashBasis
      /\ \A k \in 1 .. len + 1 : g[k] = HashStep(g[k - 1], more[k])
      /\ FnvBytes(more) = g[len + 1]
  <2>1. Len(more) \in Nat  BY <1>1, Zenon
  <2>2. /\ g[0] = HashBasis
        /\ \A k \in 1 .. Len(more) : g[k] = HashStep(g[k - 1], more[k])
        /\ FnvBytes(more) = g[Len(more)]
    BY <2>1, HashedDef, Zenon
  <2>3. QED  BY <2>2, <1>1, Zenon
<1> HIDE DEF f, g, len
<1>4. 0 \in S  BY <1>2, <1>3
<1>5. ASSUME NEW k \in Nat, k \in S PROVE k + 1 \in S
  <2>1. CASE k + 1 <= len
    <3>1. k + 1 \in 1 .. len /\ k + 1 \in 1 .. len + 1 /\ (k + 1) - 1 = k
      BY <2>1, <1>1
    <3>2. f[k] = g[k]  BY <1>5, <2>1, <1>1
    <3>3. f[k + 1] = HashStep(f[k], data[k + 1]) /\ g[k + 1] = HashStep(g[k], more[k + 1])
      BY <3>1, <1>2, <1>3
    <3>4. f[k + 1] = g[k + 1]  BY <3>1, <3>2, <3>3, <1>1, Zenon
    <3>5. QED  BY <3>4
  <2>2. CASE ~(k + 1 <= len)  BY <2>2
  <2>3. QED  BY <2>1, <2>2
<1> HIDE DEF S
<1>6. \A k \in Nat : k \in S  BY <1>4, <1>5, Induction
<1>7. f[len] = g[len]  BY <1>1, <1>6 DEF S
<1>8. len + 1 \in 1 .. len + 1 /\ (len + 1) - 1 = len  BY <1>1
<1>9. g[len + 1] = HashStep(g[len], c)  BY <1>8, <1>3, <1>1
<1>10. QED  BY <1>2, <1>3, <1>7, <1>9, Zenon DEF more

(* The bounded block loop of siphash24_qname absorbs every full word of a  *)
(* name that fits into meta->qname.                                        *)
LEMMA SipLoopIsLongEnough ==
  ASSUME NEW T, NEW name \in Seq(T), Len(name) <= QnameLimit
  PROVE  SipQname(name) = SipBytes(name)
<1> DEFINE full == Len(name) \div SipWord
<1>1. /\ Len(name) \in Nat /\ SipWord \in Nat /\ SipWord > 0 /\ SipBlocks \in Nat
      /\ Len(name) < (SipBlocks + 1) * SipWord
  <2>1. Len(name) \in Nat /\ QnameLimit \in Nat  BY LimitsAssumption
  <2>2. SipWord \in Nat /\ SipWord > 0 /\ SipBlocks \in Nat /\ (SipBlocks + 1) * SipWord \in Nat
    BY HashAssumption
  <2>3. QED  BY <2>1, <2>2, HashAssumption
<1>2. full \in Nat /\ full <= SipBlocks
  <2>1. full \in Nat /\ full * SipWord <= Len(name)  BY <1>1
  <2>2. \A x, y, w \in Nat : x >= y => x * w >= y * w  OBVIOUS
  <2>3. QED  BY <2>1, <2>2, <1>1
<1>3. (IF full < SipBlocks THEN full ELSE SipBlocks) = full  BY <1>1, <1>2
<1>4. QED  BY <1>3 DEF SipQname, SipBytes

(* The hash is kept with the name, and an accepted name is not empty. *)
NameInv ==
  /\ qname_hash = FnvBytes(qname)
  /\ pc = "accepted" => qname # <<>>

(* A step leaves name and hash alone, resets both, or stores a character.  *)
LEMMA NameStep ==
  ASSUME ParseInv, [Next]_vars
  PROVE  /\ \/ UNCHANGED <<qname, qname_hash>>
            \/ qname' = <<>> /\ qname_hash' = HashBasis
            \/ \E c \in Chars : Store(c)
         /\ pc' = "accepted" =>
              UNCHANGED qname /\ (pc = "accepted" \/ qname # <<>>)
<1>1. CASE Receive  BY <1>1 DEF Receive
<1>2. CASE ParseEth  BY <1>2 DEF ParseEth, Reject, meta
<1>3. CASE ParseIp  BY <1>3 DEF ParseIp, Reject, meta
<1>4. CASE ParseUdp  BY <1>4 DEF ParseUdp, Reject, meta
<1>5. CASE ParseDnsHeader  BY <1>5 DEF ParseDnsHeader, Reject, meta
<1>6. CASE ReadLength  BY <1>6, LowerIsChar DEF ReadLength, Reject, meta
<1>7. CASE TooManyLabels  BY <1>7 DEF TooManyLabels, Reject, meta
<1>8. CASE CopyByte  BY <1>8, LowerIsChar DEF CopyByte, Reject, meta
<1>9. CASE EndLabel  BY <1>9 DEF EndLabel
<1>10. CASE ReadTypeClass  BY <1>10 DEF ReadTypeClass, Reject, meta
<1>11. CASE UNCHANGED vars  BY <1>11 DEF vars
<1>12. QED
  BY <1>1, <1>2, <1>3, <1>4, <1>5, <1>6, <1>7, <1>8, <1>9, <1>10, <1>11 DEF Next

(* The hash is the one of the name, after every step. *)
LEMMA NameInvHolds == Spec => [](ParseInv /\ NameInv)
<1>0. FnvBytes(<<>>) = HashBasis
  <2>1. Len(<<>>) = 0  OBVIOUS
  <2>2. QED  BY <2>1, HashedDef
<1>1. Init => NameInv  BY <1>0 DEF Init, NameInv
<1>2. ASSUME ParseInv, NameInv, [Next]_vars PROVE NameInv'
  <2>1. qname_hash' = FnvBytes(qname')
    <3>1. CASE UNCHANGED <<qname, qname_hash>>  BY <3>1, <1>2 DEF NameInv
    <3>2. CASE qname' = <<>> /\ qname_hash' = HashBasis  BY <3>2, <1>0
    <3>3. ASSUME NEW c \in Chars, Store(c) PROVE qname_hash' = FnvBytes(qname')
      <4>1. qname \in Seq(Chars)  BY <1>2 DEF ParseInv, TypeOK
      <4>2. FnvBytes(Append(qname, c)) = HashStep(FnvBytes(qname), c)
        BY <4>1, FnvAppend, Zenon
      <4>3. QED  BY <3>3, <4>2, <1>2, Zenon DEF Store, NameInv
    <3>4. QED  BY <1>2, <3>1, <3>2, <3>3, NameStep
  <2>2. pc' = "accepted" => qname' # <<>>  BY <1>2, NameStep DEF NameInv
  <2>3. QED  BY <2>1, <2>2 DEF NameInv
<1>3. QED  BY <1>1, <1>2, InitParse, StepParse, PTL DEF Spec

(* The hash that selects the route is the one control/hash.c computed for  *)
(* any spelling of the accepted name, for every HashStep and both          *)
(* algorithms.                                                             *)
THEOREM RouteHashesAgree == Spec => []RouteHashAgrees
<1>1. ASSUME ParseInv, NameInv PROVE RouteHashAgrees
  <2>1. SUFFICES ASSUME pc = "accepted", NEW domain, NEW algo \in Algorithms,
                        Normalize(domain) = qname
                 PROVE  HashDomain(domain, algo) = RouteHash(qname, qname_hash, algo)
    BY DEF RouteHashAgrees
  <2>2. qname # <<>> /\ qname_hash = FnvBytes(qname)  BY <1>1, <2>1 DEF NameInv
  <2>3. SipQname(qname) = SipBytes(qname)
    <3>1. qname \in Seq(Chars) /\ Len(qname) <= QnameLimit  BY <1>1 DEF ParseInv, TypeOK
    <3>2. QED  BY <3>1, SipLoopIsLongEnough, Zenon
  <2>4. QED  BY <2>1, <2>2, <2>3, Zenon DEF HashDomain, RouteHash
<1>2. QED  BY <1>1, NameInvHolds, PTL

-----------------------------------------------------------------------------
(***************************************************************************)
(* The encoding of a name and its text.                                    *)
(***************************************************************************)

(* The lists of labels that a question may encode, of any number. *)
Labels == {labels \in Seq(Seq(Bytes)) : \A k \in 1 .. Len(labels) : Len(labels[k]) \in 1 .. LabelMax}

Parts(labels) == [k \in DOMAIN labels |-> <<Len(labels[k])>> \o labels[k]]

(* The encoding without the root label. *)
Body(labels) == Join(Parts(labels))

Text(label) == [n \in DOMAIN label |-> ToLower(CharOf(label[n]))]

Texts(labels) == [k \in DOMAIN labels |-> <<Dot>> \o Text(labels[k])]

(* The name with a dot in front of every label, the first included. *)
Dotted(labels) == Join(Texts(labels))

(* A label is a sequence of bytes and of lower-case characters. *)
LEMMA LabelType ==
  ASSUME NEW label \in Seq(Bytes)
  PROVE  /\ Len(label) \in Nat
         /\ <<Len(label)>> \o label \in Seq(Nat)
         /\ Len(<<Len(label)>> \o label) = 1 + Len(label)
         /\ (<<Len(label)>> \o label)[1] = Len(label)
         /\ \A n \in 1 .. Len(label) : (<<Len(label)>> \o label)[n + 1] = label[n]
         /\ Text(label) \in Seq(Chars) /\ Len(Text(label)) = Len(label)
         /\ <<Dot>> \o Text(label) \in Seq(Chars)
         /\ Len(<<Dot>> \o Text(label)) = 1 + Len(label)
<1>1. Len(label) \in Nat /\ Bytes \subseteq Nat  BY ParserAssumption
<1>2. label \in Seq(Nat)  BY <1>1, SeqMonotonic, Zenon
<1>3. <<Len(label)>> \in Seq(Nat) /\ Len(<<Len(label)>>) = 1 /\ <<Len(label)>>[1] = Len(label)
  BY <1>1
<1>4. /\ <<Len(label)>> \o label \in Seq(Nat)
      /\ Len(<<Len(label)>> \o label) = 1 + Len(label)
      /\ (<<Len(label)>> \o label)[1] = Len(label)
      /\ \A n \in 1 .. Len(label) : (<<Len(label)>> \o label)[n + 1] = label[n]
  <2> DEFINE s == <<Len(label)>>
  <2> HIDE DEF s
  <2>1. s \in Seq(Nat) /\ Len(s) = 1 /\ s[1] = Len(label)  BY <1>3 DEF s
  <2>2. /\ s \o label \in Seq(Nat) /\ Len(s \o label) = Len(s) + Len(label)
        /\ \A i \in 1 .. Len(s) : (s \o label)[i] = s[i]
        /\ \A i \in 1 .. Len(label) : (s \o label)[Len(s) + i] = label[i]
    <3>1. s \o label \in Seq(Nat) /\ Len(s \o label) = Len(s) + Len(label)
      BY <2>1, <1>2, ConcatType, Zenon
    <3>2. ASSUME NEW i \in 1 .. Len(s) PROVE (s \o label)[i] = s[i]
      BY <2>1, <1>2, ConcatLeft, Zenon
    <3>3. ASSUME NEW i \in 1 .. Len(label) PROVE (s \o label)[Len(s) + i] = label[i]
      <4>1. s \in Seq(Nat)  BY <2>1
      <4>2. QED  BY <4>1, <1>2, ConcatRight, Zenon
    <3>4. QED  BY <3>1, <3>2, <3>3
  <2>3. 1 \in 1 .. 1 /\ \A n \in 1 .. Len(label) : n + 1 = 1 + n  BY <1>1
  <2>4. QED  BY <2>1, <2>2, <2>3, Zenon DEF s
<1>5. Text(label) \in Seq(Chars) /\ Len(Text(label)) = Len(label)
  <2>1. \A n \in 1 .. Len(label) : label[n] \in Bytes  OBVIOUS
  <2>2. \A n \in 1 .. Len(label) : ToLower(CharOf(label[n])) \in Chars  BY <2>1, LowerIsChar, Zenon
  <2>3. DOMAIN label = 1 .. Len(label)  OBVIOUS
  <2>4. Text(label) = [n \in 1 .. Len(label) |-> ToLower(CharOf(label[n]))]
    BY <2>3, Zenon DEF Text
  <2>5. QED  BY <1>1, <2>2, <2>4
<1>6. /\ <<Dot>> \o Text(label) \in Seq(Chars)
      /\ Len(<<Dot>> \o Text(label)) = 1 + Len(label)
  <2>1. Dot \in Chars  BY DEF Chars, Dot
  <2>2. <<Dot>> \in Seq(Chars) /\ Len(<<Dot>>) = 1  BY <2>1
  <2> DEFINE s == <<Dot>>
             t == Text(label)
  <2> HIDE DEF s, t
  <2>3. s \in Seq(Chars) /\ t \in Seq(Chars) /\ Len(s) = 1 /\ Len(t) = Len(label)
    BY <2>2, <1>5 DEF s, t
  <2>4. s \o t \in Seq(Chars) /\ Len(s \o t) = Len(s) + Len(t)  BY <2>3, ConcatType, Zenon
  <2>5. QED  BY <2>3, <2>4 DEF s, t
<1>7. QED  BY <1>1, <1>4, <1>5, <1>6

(* A function on 1 .. n is a sequence. *)
LEMMA FunctionIsSeq ==
  ASSUME NEW T, NEW n \in Nat, NEW f \in [1 .. n -> T]
  PROVE  f \in Seq(T) /\ Len(f) = n
OBVIOUS

(* A sequence that has one element more than another one extends it. *)
LEMMA AppendByElements ==
  ASSUME NEW T, NEW s \in Seq(T), NEW u \in Seq(T), NEW e \in T, NEW n \in Nat,
         Len(s) = n, Len(u) = n + 1,
         \A k \in 1 .. n : u[k] = s[k], u[n + 1] = e
  PROVE  u = Append(s, e)
<1>1. /\ Append(s, e) \in Seq(T) /\ Len(Append(s, e)) = n + 1
      /\ \A k \in 1 .. n : Append(s, e)[k] = s[k]
      /\ Append(s, e)[n + 1] = e
  OBVIOUS
<1>2. ASSUME NEW k \in 1 .. n + 1 PROVE u[k] = Append(s, e)[k]
  <2>1. k \in 1 .. n \/ k = n + 1  OBVIOUS
  <2>2. QED  BY <1>1, <2>1, Zenon
<1>3. Len(u) = Len(Append(s, e)) /\ \A i \in 1 .. Len(u) : u[i] = Append(s, e)[i]
  BY <1>1, <1>2, Zenon
<1>4. QED  BY <1>1, <1>3, SeqEqual

(* The parts of the encoding and of the text, label by label. *)
LEMMA PartsType ==
  ASSUME NEW labels \in Seq(Seq(Bytes))
  PROVE  /\ Len(labels) \in Nat /\ DOMAIN labels = 1 .. Len(labels)
         /\ Parts(labels) \in Seq(Seq(Nat)) /\ Len(Parts(labels)) = Len(labels)
         /\ Texts(labels) \in Seq(Seq(Chars)) /\ Len(Texts(labels)) = Len(labels)
         /\ \A k \in 1 .. Len(labels) :
              /\ labels[k] \in Seq(Bytes)
              /\ Parts(labels)[k] = <<Len(labels[k])>> \o labels[k]
              /\ Texts(labels)[k] = <<Dot>> \o Text(labels[k])
<1>1. /\ Len(labels) \in Nat /\ DOMAIN labels = 1 .. Len(labels)
      /\ \A k \in 1 .. Len(labels) : labels[k] \in Seq(Bytes)
  OBVIOUS
<1>2. \A k \in 1 .. Len(labels) :
        /\ <<Len(labels[k])>> \o labels[k] \in Seq(Nat)
        /\ <<Dot>> \o Text(labels[k]) \in Seq(Chars)
  BY <1>1, LabelType, Zenon
<1>3. /\ Parts(labels) = [k \in 1 .. Len(labels) |-> <<Len(labels[k])>> \o labels[k]]
      /\ Texts(labels) = [k \in 1 .. Len(labels) |-> <<Dot>> \o Text(labels[k])]
  BY <1>1, Zenon DEF Parts, Texts

<1>5. /\ Parts(labels) \in [1 .. Len(labels) -> Seq(Nat)]
      /\ Texts(labels) \in [1 .. Len(labels) -> Seq(Chars)]
  BY <1>2, <1>3, Zenon
<1>6. \A k \in 1 .. Len(labels) :
        /\ Parts(labels)[k] = <<Len(labels[k])>> \o labels[k]
        /\ Texts(labels)[k] = <<Dot>> \o Text(labels[k])
  BY <1>3, Zenon
<1>7. QED  BY <1>1, FunctionIsSeq, <1>5, <1>6, Zenon

(* The offsets of the labels in the encoding, and the last one. *)
Offset(labels, k) == Len(Joined(Parts(labels))[k])

(* Every label takes one byte more than its length; the encoding and the   *)
(* text with its dots have the same length.                                *)
LEMMA BodyLength ==
  ASSUME NEW labels \in Seq(Seq(Bytes))
  PROVE  /\ Body(labels) \in Seq(Nat) /\ Dotted(labels) \in Seq(Chars)
         /\ Offset(labels, 0) = 0
         /\ \A k \in 0 .. Len(labels) : Offset(labels, k) \in Nat
         /\ \A k \in 1 .. Len(labels) :
              Offset(labels, k) = Offset(labels, k - 1) + 1 + Len(labels[k])
         /\ Len(Body(labels)) = Offset(labels, Len(labels))
         /\ Len(Dotted(labels)) = Len(Body(labels))
<1> DEFINE len == Len(labels)
           f == Joined(Parts(labels))
           g == Joined(Texts(labels))
           S == {k \in Nat : k <= len => Len(f[k]) = Len(g[k])}
<1>1. /\ len \in Nat
      /\ Parts(labels) \in Seq(Seq(Nat)) /\ Len(Parts(labels)) = len
      /\ Texts(labels) \in Seq(Seq(Chars)) /\ Len(Texts(labels)) = len
  BY PartsType, Zenon
<1>2. /\ \A k \in 0 .. len : f[k] \in Seq(Nat)
      /\ \A k \in 1 .. len : Len(f[k]) = Len(f[k - 1]) + Len(Parts(labels)[k])
      /\ Body(labels) \in Seq(Nat)
  BY <1>1, JoinedType, Zenon DEF Body
<1>3. /\ \A k \in 0 .. len : g[k] \in Seq(Chars)
      /\ \A k \in 1 .. len : Len(g[k]) = Len(g[k - 1]) + Len(Texts(labels)[k])
      /\ Dotted(labels) \in Seq(Chars)
  BY <1>1, JoinedType, Zenon DEF Dotted
<1>4. f[0] = <<>> /\ g[0] = <<>> /\ Body(labels) = f[len] /\ Dotted(labels) = g[len]
  BY <1>1, JoinedDef, Zenon DEF Body, Dotted
<1>5. \A k \in 1 .. len : /\ Len(labels[k]) \in Nat
                          /\ Len(Parts(labels)[k]) = 1 + Len(labels[k])
                          /\ Len(Texts(labels)[k]) = 1 + Len(labels[k])
  <2>1. SUFFICES ASSUME NEW k \in 1 .. len
                 PROVE  /\ Len(labels[k]) \in Nat
                        /\ Len(Parts(labels)[k]) = 1 + Len(labels[k])
                        /\ Len(Texts(labels)[k]) = 1 + Len(labels[k])
    OBVIOUS
  <2>2. /\ labels[k] \in Seq(Bytes)
        /\ Parts(labels)[k] = <<Len(labels[k])>> \o labels[k]
        /\ Texts(labels)[k] = <<Dot>> \o Text(labels[k])
    BY PartsType, Zenon
  <2>3. /\ Len(labels[k]) \in Nat
        /\ Len(<<Len(labels[k])>> \o labels[k]) = 1 + Len(labels[k])
        /\ Len(<<Dot>> \o Text(labels[k])) = 1 + Len(labels[k])
    BY <2>2, LabelType, Zenon
  <2>4. QED  BY <2>2, <2>3, Zenon
<1> HIDE DEF len, f, g
<1>6. \A k \in 0 .. len : Len(f[k]) \in Nat  BY <1>2
<1>7. 0 \in S  BY <1>4
<1>8. ASSUME NEW k \in Nat, k \in S PROVE k + 1 \in S
  <2>1. CASE k + 1 <= len
    <3>1. k + 1 \in 1 .. len /\ (k + 1) - 1 = k /\ k <= len  BY <2>1, <1>1
    <3>2. Len(f[k]) = Len(g[k])  BY <1>8, <3>1
    <3>3. Len(f[k + 1]) = Len(f[k]) + Len(Parts(labels)[k + 1])  BY <3>1, <1>2, Zenon
    <3>4. Len(g[k + 1]) = Len(g[k]) + Len(Texts(labels)[k + 1])  BY <3>1, <1>3, Zenon
    <3>5. Len(f[k + 1]) = Len(g[k + 1])  BY <3>1, <3>2, <3>3, <3>4, <1>5, Zenon
    <3>6. QED  BY <3>5
  <2>2. CASE ~(k + 1 <= len)  BY <2>2
  <2>3. QED  BY <2>1, <2>2
<1> HIDE DEF S
<1>9. \A k \in Nat : k \in S  BY <1>7, <1>8, Induction
<1>10. Len(f[len]) = Len(g[len])  BY <1>1, <1>9 DEF S
<1>11. Len(f[0]) = 0  BY <1>4
<1>12. ASSUME NEW k \in 1 .. len PROVE Len(f[k]) = Len(f[k - 1]) + 1 + Len(labels[k])
  <2>1. Len(f[k]) = Len(f[k - 1]) + Len(Parts(labels)[k])  BY <1>2, Zenon
  <2>2. k - 1 \in 0 .. len  BY <1>1
  <2>3. \A x, y \in Nat : x + (1 + y) = x + 1 + y  OBVIOUS
  <2>4. QED  BY <2>1, <2>2, <2>3, <1>5, <1>6, Zenon
<1>13. /\ Len(Body(labels)) = Len(f[len])
       /\ Len(Dotted(labels)) = Len(Body(labels))
  BY <1>4, <1>10, Zenon
<1>14. QED  BY <1>2, <1>3, <1>6, <1>11, <1>12, <1>13, Zenon DEF Offset, f, len

(* One more label, behind the others. *)
LEMMA BodyAppend ==
  ASSUME NEW labels \in Seq(Seq(Bytes)), NEW w \in Seq(Bytes)
  PROVE  /\ Body(Append(labels, w)) = Body(labels) \o (<<Len(w)>> \o w)
         /\ Dotted(Append(labels, w)) = Dotted(labels) \o (<<Dot>> \o Text(w))
<1> DEFINE more == Append(labels, w)
           len == Len(labels)
           p == <<Len(w)>> \o w
           t == <<Dot>> \o Text(w)
<1>1. /\ more \in Seq(Seq(Bytes)) /\ len \in Nat /\ Len(more) = len + 1
      /\ \A k \in 1 .. len : more[k] = labels[k]
      /\ more[len + 1] = w
  OBVIOUS
<1>2. p \in Seq(Nat) /\ t \in Seq(Chars)  BY LabelType, Zenon
<1>3. /\ Parts(labels) \in Seq(Seq(Nat)) /\ Len(Parts(labels)) = len
      /\ Texts(labels) \in Seq(Seq(Chars)) /\ Len(Texts(labels)) = len
      /\ \A k \in 1 .. len : /\ Parts(labels)[k] = <<Len(labels[k])>> \o labels[k]
                             /\ Texts(labels)[k] = <<Dot>> \o Text(labels[k])
  BY PartsType, Zenon
<1> HIDE DEF more, len
<1>4. /\ Parts(more) \in Seq(Seq(Nat)) /\ Len(Parts(more)) = len + 1
      /\ Texts(more) \in Seq(Seq(Chars)) /\ Len(Texts(more)) = len + 1
      /\ \A k \in 1 .. len + 1 : /\ Parts(more)[k] = <<Len(more[k])>> \o more[k]
                                 /\ Texts(more)[k] = <<Dot>> \o Text(more[k])
  <2>1. /\ Parts(more) \in Seq(Seq(Nat)) /\ Len(Parts(more)) = Len(more)
        /\ Texts(more) \in Seq(Seq(Chars)) /\ Len(Texts(more)) = Len(more)
        /\ \A k \in 1 .. Len(more) : /\ Parts(more)[k] = <<Len(more[k])>> \o more[k]
                                     /\ Texts(more)[k] = <<Dot>> \o Text(more[k])
    BY <1>1, PartsType, Zenon
  <2>2. QED  BY <2>1, <1>1, Zenon
<1>5. \A k \in 1 .. len : k \in 1 .. len + 1  BY <1>1
<1>6. len + 1 \in 1 .. len + 1  BY <1>1
<1>7. /\ \A k \in 1 .. len : Parts(more)[k] = Parts(labels)[k] /\ Texts(more)[k] = Texts(labels)[k]
      /\ Parts(more)[len + 1] = p /\ Texts(more)[len + 1] = t
  BY <1>1, <1>3, <1>4, <1>5, <1>6, Zenon
<1> HIDE DEF p, t
<1>8. Parts(more) = Append(Parts(labels), p)
  <2> DEFINE s == Parts(labels)
             u == Parts(more)
  <2>1. /\ s \in Seq(Seq(Nat)) /\ u \in Seq(Seq(Nat)) /\ Len(s) = len /\ Len(u) = len + 1
        /\ \A k \in 1 .. len : u[k] = s[k]
        /\ u[len + 1] = p
    BY <1>3, <1>4, <1>7, Zenon
  <2> HIDE DEF s, u
  <2>2. u = Append(s, p)  BY <2>1, <1>1, <1>2, AppendByElements
  <2>3. QED  BY <2>2, Zenon DEF s, u
<1>9. Texts(more) = Append(Texts(labels), t)
  <2> DEFINE s == Texts(labels)
             u == Texts(more)
  <2>1. /\ s \in Seq(Seq(Chars)) /\ u \in Seq(Seq(Chars)) /\ Len(s) = len /\ Len(u) = len + 1
        /\ \A k \in 1 .. len : u[k] = s[k]
        /\ u[len + 1] = t
    BY <1>3, <1>4, <1>7, Zenon
  <2> HIDE DEF s, u
  <2>2. u = Append(s, t)  BY <2>1, <1>1, <1>2, AppendByElements
  <2>3. QED  BY <2>2, Zenon DEF s, u
<1>10. /\ Join(Append(Parts(labels), p)) = Join(Parts(labels)) \o p
       /\ Join(Append(Texts(labels), t)) = Join(Texts(labels)) \o t
  BY <1>2, <1>3, JoinAppend, Zenon
<1>11. QED  BY <1>8, <1>9, <1>10, Zenon DEF Body, Dotted, more, p, t

(* The encoding is the body and the root label. *)
LEMMA EncodeType ==
  ASSUME NEW labels \in Seq(Seq(Bytes))
  PROVE  /\ Encode(labels) = Body(labels) \o <<0>>
         /\ Encode(labels) \in Seq(Nat)
         /\ Len(Body(labels)) \in Nat
         /\ Len(Encode(labels)) = Len(Body(labels)) + 1
         /\ \A i \in 1 .. Len(Body(labels)) : Encode(labels)[i] = Body(labels)[i]
         /\ Encode(labels)[Len(Body(labels)) + 1] = 0
<1> DEFINE body == Body(labels)
<1>1. Encode(labels) = body \o <<0>>  BY Zenon DEF Encode, Body, Parts
<1>2. body \in Seq(Nat)  BY BodyLength, Zenon
<1> HIDE DEF body
<1>3. <<0>> \in Seq(Nat) /\ Len(<<0>>) = 1 /\ <<0>>[1] = 0 /\ 1 \in 1 .. 1  OBVIOUS
<1>4. /\ body \o <<0>> \in Seq(Nat)
      /\ Len(body) \in Nat
      /\ Len(body \o <<0>>) = Len(body) + 1
  BY <1>2
<1>5. ASSUME NEW i \in 1 .. Len(body) PROVE (body \o <<0>>)[i] = body[i]
  BY <1>2, <1>3, ConcatLeft, Zenon
<1>6. (body \o <<0>>)[Len(body) + 1] = 0  BY <1>2
<1>7. QED  BY <1>1, <1>4, <1>5, <1>6, Zenon DEF body

(* The length byte and the bytes of a label, at its offset. *)
LEMMA BodyAt ==
  ASSUME NEW labels \in Seq(Seq(Bytes)), NEW k \in 1 .. Len(labels)
  PROVE  /\ Offset(labels, k - 1) \in Nat
         /\ Offset(labels, k - 1) + 1 \in 1 .. Len(Body(labels))
         /\ Body(labels)[Offset(labels, k - 1) + 1] = Len(labels[k])
         /\ \A n \in 1 .. Len(labels[k]) :
              /\ Offset(labels, k - 1) + (n + 1) \in 1 .. Len(Body(labels))
              /\ Body(labels)[Offset(labels, k - 1) + (n + 1)] = labels[k][n]
<1> DEFINE parts == Parts(labels)
           label == labels[k]
           off == Offset(labels, k - 1)
<1>1. /\ parts \in Seq(Seq(Nat)) /\ Len(parts) = Len(labels) /\ Len(labels) \in Nat
      /\ label \in Seq(Bytes) /\ parts[k] = <<Len(label)>> \o label
  BY PartsType, Zenon
<1>2. /\ Len(label) \in Nat
      /\ Len(parts[k]) = 1 + Len(label)
      /\ parts[k][1] = Len(label)
      /\ \A n \in 1 .. Len(label) : parts[k][n + 1] = label[n]
  <2>1. /\ Len(label) \in Nat
        /\ Len(<<Len(label)>> \o label) = 1 + Len(label)
        /\ (<<Len(label)>> \o label)[1] = Len(label)
        /\ \A n \in 1 .. Len(label) : (<<Len(label)>> \o label)[n + 1] = label[n]
    BY <1>1, LabelType, Zenon
  <2>2. QED  BY <2>1, <1>1, Zenon
<1>3. off \in Nat
  <2>1. k - 1 \in 0 .. Len(labels)  BY <1>1
  <2>2. QED  BY <2>1, BodyLength, Zenon
<1>4. ASSUME NEW i \in 1 .. Len(parts[k])
      PROVE  /\ off + i \in 1 .. Len(Body(labels))
             /\ Body(labels)[off + i] = parts[k][i]
  <2>1. k \in 1 .. Len(parts)  BY <1>1, Zenon
  <2> HIDE DEF parts
  <2>2. /\ Len(Joined(parts)[k - 1]) + i \in 1 .. Len(Join(parts))
        /\ Join(parts)[Len(Joined(parts)[k - 1]) + i] = parts[k][i]
    BY <1>1, <1>4, <2>1, JoinAt, Zenon
  <2>3. QED  BY <2>2, Zenon DEF Offset, Body, parts
<1> HIDE DEF parts, label, off
<1>5. 1 \in 1 .. Len(parts[k])  BY <1>2
<1>6. \A n \in 1 .. Len(label) : n + 1 \in 1 .. Len(parts[k])  BY <1>2
<1>7. QED  BY <1>2, <1>3, <1>4, <1>5, <1>6, Zenon DEF label, off

(* What the reader of an encoding finds behind k labels: the length of the *)
(* next one, or the root.                                                  *)
LEMMA NextLength ==
  ASSUME NEW labels \in Seq(Seq(Bytes)), NEW k \in 0 .. Len(labels)
  PROVE  Encode(labels)[Offset(labels, k) + 1] =
           IF k = Len(labels) THEN 0 ELSE Len(labels[k + 1])
<1>1. Len(labels) \in Nat  OBVIOUS
<1>2. CASE k = Len(labels)
  <2>1. Offset(labels, k) = Len(Body(labels))  BY <1>2, BodyLength, Zenon
  <2>2. QED  BY <1>2, <2>1, EncodeType, Zenon
<1>3. CASE k # Len(labels)
  <2>1. k + 1 \in 1 .. Len(labels) /\ (k + 1) - 1 = k  BY <1>1, <1>3
  <2>2. /\ Offset(labels, (k + 1) - 1) + 1 \in 1 .. Len(Body(labels))
        /\ Body(labels)[Offset(labels, (k + 1) - 1) + 1] = Len(labels[k + 1])
    BY <2>1, BodyAt, Zenon
  <2>3. /\ Offset(labels, k) + 1 \in 1 .. Len(Body(labels))
        /\ Body(labels)[Offset(labels, k) + 1] = Len(labels[k + 1])
    BY <2>1, <2>2, Zenon
  <2>4. QED  BY <1>3, <2>3, EncodeType, Zenon
<1>4. QED  BY <1>2, <1>3

(* The text of a name, as QnameMatch defines it. *)
LEMMA QnameIsTail ==
  ASSUME NEW labels \in Seq(Seq(Bytes))
  PROVE  /\ Qname(NameOf(labels)) = Tail(Dotted(labels))
         /\ Len(NameOf(labels)) = Len(labels)
<1> DEFINE name == NameOf(labels)
           len == Len(labels)
<1>1. len \in Nat /\ DOMAIN labels = 1 .. len  BY PartsType, Zenon
<1>2. DOMAIN name = 1 .. len  BY <1>1, Zenon DEF NameOf
<1>3. ASSUME NEW k \in 1 .. len PROVE LowerCase(name[k]) = Text(labels[k])
  <2>1. name[k] = [n \in DOMAIN labels[k] |-> CharOf(labels[k][n])]
    BY <1>1, Zenon DEF NameOf
  <2> HIDE DEF name
  <2>2. QED  BY <2>1, Zenon DEF LowerCase, Text
<1> HIDE DEF name
<1>4. [k \in DOMAIN name |-> <<Dot>> \o LowerCase(name[k])] = Texts(labels)
  BY <1>1, <1>2, <1>3, Zenon DEF Texts
<1>5. Qname(name) = Tail(Dotted(labels))  BY <1>4, Zenon DEF Qname, Dotted
<1>6. Len(name) = len
  <2> DEFINE T == {name[k] : k \in 1 .. len}
  <2>1. name = [k \in 1 .. len |-> name[k]]  BY <1>1, Zenon DEF name, NameOf
  <2>2. name \in [1 .. len -> T]  BY <2>1, Zenon
  <2> HIDE DEF T, len
  <2>3. QED  BY <1>1, <2>2, FunctionIsSeq, Zenon
<1>7. QED  BY <1>5, <1>6, Zenon DEF name

(* Without its first dot, the text is as long as the body less one.        *)
LEMMA QnameLength ==
  ASSUME NEW labels \in Seq(Seq(Bytes)), labels # <<>>
  PROVE  /\ Len(Body(labels)) \in Nat \ {0}
         /\ Len(Qname(NameOf(labels))) = Len(Body(labels)) - 1
<1>1. Len(labels) \in Nat /\ Len(labels) # 0  OBVIOUS
<1>2. 1 \in 1 .. Len(labels)  BY <1>1
<1>3. Len(Body(labels)) \in Nat \ {0}
  <2>1. Offset(labels, 1 - 1) + 1 \in 1 .. Len(Body(labels))
    BY <1>2, BodyAt, Zenon
  <2>2. Len(Body(labels)) \in Nat  BY EncodeType, Zenon
  <2>3. QED  BY <2>1, <2>2
<1>4. Dotted(labels) \in Seq(Chars) /\ Len(Dotted(labels)) = Len(Body(labels))
  BY BodyLength, Zenon
<1>5. Dotted(labels) # <<>>  BY <1>3, <1>4
<1>6. Len(Tail(Dotted(labels))) = Len(Dotted(labels)) - 1  BY <1>4, <1>5
<1>7. QED  BY <1>3, <1>4, <1>6, QnameIsTail, Zenon

(* An offset lies inside the body. *)
LEMMA OffsetInBody ==
  ASSUME NEW labels \in Seq(Seq(Bytes)), NEW k \in 0 .. Len(labels)
  PROVE  Offset(labels, k) <= Len(Body(labels))
<1> DEFINE parts == Parts(labels)
<1>1. parts \in Seq(Seq(Nat)) /\ Len(parts) = Len(labels)  BY PartsType, Zenon
<1>2. k \in 0 .. Len(parts)  BY <1>1, Zenon
<1> HIDE DEF parts
<1>3. StartsWith(Join(parts), Joined(parts)[k])  BY <1>1, <1>2, JoinPrefix, Zenon
<1>4. Len(Joined(parts)[k]) <= Len(Join(parts))  BY <1>3, Zenon DEF StartsWith
<1>5. QED  BY <1>4, Zenon DEF parts, Offset, Body

(* The length bytes determine where the labels are: a name whose encoding  *)
(* starts with the body of another one has its labels at the same places,  *)
(* and at least as many.                                                   *)
LEMMA SameOffsets ==
  ASSUME NEW labels \in Labels, NEW other \in Labels, NEW q \in Seq(Nat),
         StartsWith(Encode(other), q), StartsWith(q, Body(labels))
  PROVE  /\ Len(labels) <= Len(other)
         /\ Offset(other, Len(labels)) = Len(Body(labels))
<1> DEFINE S == {k \in Nat : k <= Len(labels) =>
                   k <= Len(other) /\ Offset(other, k) = Offset(labels, k)}
<1>1. /\ labels \in Seq(Seq(Bytes)) /\ other \in Seq(Seq(Bytes))
      /\ \A k \in 1 .. Len(labels) : Len(labels[k]) \in 1 .. LabelMax
  BY Zenon DEF Labels
<1>2. Len(labels) \in Nat /\ Len(other) \in Nat  BY <1>1
<1>3. /\ Encode(other) \in Seq(Nat) /\ Body(labels) \in Seq(Nat)
      /\ Offset(other, 0) = 0 /\ Offset(labels, 0) = 0
      /\ Len(Body(labels)) = Offset(labels, Len(labels))
  BY <1>1, EncodeType, BodyLength, Zenon
<1>4. 0 \in S  BY <1>2, <1>3
<1>5. ASSUME NEW k \in Nat, k \in S, k + 1 <= Len(labels)
      PROVE  k + 1 <= Len(other) /\ Offset(other, k + 1) = Offset(labels, k + 1)
  <2>1. /\ k + 1 \in 1 .. Len(labels) /\ (k + 1) - 1 = k
        /\ k <= Len(other) /\ k \in 0 .. Len(other)
        /\ Offset(other, k) = Offset(labels, k)
    BY <1>2, <1>5
  <2> DEFINE x == Offset(labels, k) + 1
  <2>2. x \in 1 .. Len(Body(labels)) /\ Body(labels)[x] = Len(labels[k + 1])
    <3>1. /\ Offset(labels, (k + 1) - 1) + 1 \in 1 .. Len(Body(labels))
          /\ Body(labels)[Offset(labels, (k + 1) - 1) + 1] = Len(labels[k + 1])
      BY <1>1, <2>1, BodyAt, Zenon
    <3>2. QED  BY <3>1, <2>1, Zenon
  <2>3. Encode(other)[x] = IF k = Len(other) THEN 0 ELSE Len(other[k + 1])
    BY <1>1, <2>1, NextLength, Zenon
  <2> HIDE DEF x
  <2>4. x \in 1 .. Len(q) /\ q[x] = Body(labels)[x]
    BY <1>3, <2>2, StartsWithAt, Zenon
  <2>5. Encode(other)[x] = q[x]
    <3>1. x \in 1 .. Len(q) /\ Encode(other) \in Seq(Nat)  BY <1>3, <2>4, Zenon
    <3>2. QED  BY <3>1, StartsWithAt
  <2>6. Len(labels[k + 1]) = IF k = Len(other) THEN 0 ELSE Len(other[k + 1])
    BY <2>2, <2>3, <2>4, <2>5, Zenon
  <2>7. Len(labels[k + 1]) \in 1 .. LabelMax  BY <1>1, <2>1, Zenon
  <2>8. k # Len(other) /\ Len(labels[k + 1]) = Len(other[k + 1])
    <3>1. Len(labels[k + 1]) # 0  BY <2>7
    <3>2. QED  BY <2>6, <3>1, Zenon
  <2>9. k + 1 \in 1 .. Len(other)  BY <2>1, <2>8, <1>2
  <2>10. /\ Offset(labels, k + 1) = Offset(labels, (k + 1) - 1) + 1 + Len(labels[k + 1])
         /\ Offset(other, k + 1) = Offset(other, (k + 1) - 1) + 1 + Len(other[k + 1])
    BY <1>1, <2>1, <2>9, BodyLength, Zenon
  <2>11. Offset(other, k + 1) = Offset(labels, k + 1)
    BY <2>1, <2>8, <2>10, Zenon
  <2>12. QED  BY <2>9, <2>11, <1>2
<1>6. ASSUME NEW k \in Nat, k \in S PROVE k + 1 \in S
  BY <1>5, <1>6
<1> HIDE DEF S
<1>7. \A k \in Nat : k \in S  BY <1>4, <1>6, Induction
<1>8. Len(labels) \in S /\ Len(labels) <= Len(labels)  BY <1>2, <1>7
<1>9. QED  BY <1>8, <1>3, Zenon DEF S

(* What such an encoding goes on with behind the body. *)
LEMMA NextByte ==
  ASSUME NEW labels \in Labels, NEW other \in Labels, NEW q \in Seq(Nat),
         StartsWith(Encode(other), q), StartsWith(q, Body(labels)),
         Len(Body(labels)) < Len(q)
  PROVE  \/ /\ q[Len(Body(labels)) + 1] = 0
            /\ Len(other) = Len(labels)
            /\ Len(Encode(other)) = Len(Body(labels)) + 1
         \/ /\ q[Len(Body(labels)) + 1] \in 1 .. LabelMax
            /\ Len(Body(other)) >= Len(Body(labels)) + 1 + q[Len(Body(labels)) + 1]
<1> DEFINE d == Len(labels)
           x == Len(Body(labels)) + 1
<1>1. /\ labels \in Seq(Seq(Bytes)) /\ other \in Seq(Seq(Bytes))
      /\ \A k \in 1 .. Len(other) : Len(other[k]) \in 1 .. LabelMax
  BY Zenon DEF Labels
<1>2. d \in Nat /\ Len(other) \in Nat /\ d <= Len(other)
  <2>1. d \in Nat /\ Len(other) \in Nat  BY <1>1
  <2>2. QED  BY <2>1, SameOffsets, Zenon
<1>3. /\ Encode(other) \in Seq(Nat) /\ Body(labels) \in Seq(Nat)
      /\ Len(Body(labels)) \in Nat /\ Len(Body(other)) \in Nat
      /\ Len(Encode(other)) = Len(Body(other)) + 1
  BY <1>1, EncodeType, BodyLength, Zenon
<1>4. Offset(other, d) = Len(Body(labels))  BY SameOffsets, Zenon
<1>5. q[x] = IF d = Len(other) THEN 0 ELSE Len(other[d + 1])
  <2>1. x \in 1 .. Len(q)  BY <1>3
  <2>2. d \in 0 .. Len(other)  BY <1>2
  <2>3. Encode(other)[x] = q[x]
    <3>1. Encode(other) \in Seq(Nat)  BY <1>3, Zenon
    <3> HIDE DEF x
    <3>2. QED  BY <2>1, <3>1, StartsWithAt
  <2>4. Encode(other)[Offset(other, d) + 1] = IF d = Len(other) THEN 0 ELSE Len(other[d + 1])
    BY <2>2, <1>1, NextLength, Zenon
  <2>5. QED  BY <2>3, <2>4, <1>4, Zenon
<1>6. CASE d = Len(other)
  <2>1. Len(Body(other)) = Len(Body(labels))  BY <1>1, <1>4, <1>6, BodyLength, Zenon
  <2>2. QED  BY <2>1, <1>3, <1>5, <1>6, Zenon
<1>7. CASE d # Len(other)
  <2>1. /\ d + 1 \in 1 .. Len(other) /\ d + 1 \in 0 .. Len(other) /\ (d + 1) - 1 = d
    BY <1>2, <1>7
  <2>2. q[x] = Len(other[d + 1]) /\ Len(other[d + 1]) \in 1 .. LabelMax
    BY <1>1, <1>5, <1>7, <2>1, Zenon
  <2>3. Offset(other, d + 1) = Offset(other, (d + 1) - 1) + 1 + Len(other[d + 1])
    BY <1>1, <2>1, BodyLength, Zenon
  <2>4. Offset(other, d + 1) = Len(Body(labels)) + 1 + q[x]
    BY <2>1, <2>2, <2>3, <1>4, Zenon
  <2>5. Offset(other, d + 1) <= Len(Body(other))  BY <1>1, <2>1, OffsetInBody, Zenon
  <2> HIDE DEF d, x
  <2>6. Len(Body(other)) >= Len(Body(labels)) + 1 + q[x]  BY <2>2, <2>4, <2>5, <1>3, Zenon
  <2>7. QED  BY <2>2, <2>6, Zenon DEF x
<1>8. QED  BY <1>6, <1>7

-----------------------------------------------------------------------------
(***************************************************************************)
(* The names that the properties range over.                               *)
(***************************************************************************)

PlacesTo(shape, m, f) == f = [n \in 1 .. m |-> IF n = 1 THEN 1 ELSE f[n - 1] + 1 + shape[n - 1]]

Placed(shape) == CHOOSE f : PlacesTo(shape, Len(shape), f)

(* The recursion of LengthAt has a solution up to every label. *)
LEMMA PlacesToExists == ASSUME NEW shape PROVE \A m \in Nat : \E f : PlacesTo(shape, m, f)
<1> DEFINE S == {m \in Nat : \E f : PlacesTo(shape, m, f)}
<1>1. 0 \in S
  <2> DEFINE g == [n \in 1 .. 0 |-> 1]
  <2>1. \A n \in 1 .. 0 : FALSE  OBVIOUS
  <2>2. g = [n \in 1 .. 0 |-> IF n = 1 THEN 1 ELSE g[n - 1] + 1 + shape[n - 1]]
    BY <2>1, Zenon
  <2> HIDE DEF g
  <2>3. PlacesTo(shape, 0, g)  BY <2>2, Zenon DEF PlacesTo
  <2>4. QED  BY <2>3
<1>2. ASSUME NEW m \in Nat, m \in S PROVE m + 1 \in S
  <2>1. PICK f : PlacesTo(shape, m, f)  BY <1>2
  <2> DEFINE Step(h, n) == IF n = 1 THEN 1 ELSE h[n - 1] + 1 + shape[n - 1]
             g == [n \in 1 .. m + 1 |-> Step(f, n)]
  <2>2. ASSUME NEW n \in 1 .. m PROVE g[n] = f[n]
    <3>1. n \in 1 .. m + 1  OBVIOUS
    <3>2. f[n] = Step(f, n)  BY <2>1, Zenon DEF PlacesTo
    <3>3. QED  BY <3>1, <3>2, Zenon
  <2>3. ASSUME NEW n \in 1 .. m + 1 PROVE Step(f, n) = Step(g, n)
    <3>1. n # 1 => n - 1 \in 1 .. m  OBVIOUS
    <3> HIDE DEF g
    <3>2. QED  BY <2>2, <3>1, Zenon
  <2>4. g = [n \in 1 .. m + 1 |-> Step(g, n)]  BY <2>3, Zenon
  <2> HIDE DEF g
  <2>5. PlacesTo(shape, m + 1, g)  BY <2>4, Zenon DEF PlacesTo
  <2>6. QED  BY <2>5
<1> HIDE DEF S
<1>3. \A m \in Nat : m \in S  BY <1>1, <1>2, Induction
<1>4. QED  BY <1>3 DEF S

(* The equation of LengthAt. *)
LEMMA LengthAtDef ==
  ASSUME NEW shape, Len(shape) \in Nat, NEW k \in 1 .. Len(shape)
  PROVE  LengthAt(shape, k) = IF k = 1 THEN 1 ELSE LengthAt(shape, k - 1) + 1 + shape[k - 1]
<1> DEFINE f == Placed(shape)
<1>1. PlacesTo(shape, Len(shape), f)  BY PlacesToExists, Zenon DEF Placed
<1>2. \A n : LengthAt(shape, n) = f[n]  BY Zenon DEF LengthAt, Placed, PlacesTo
<1> HIDE DEF f
<1>3. f[k] = IF k = 1 THEN 1 ELSE f[k - 1] + 1 + shape[k - 1]
  BY <1>1, Zenon DEF PlacesTo
<1>4. QED  BY <1>2, <1>3, Zenon

(* The places are natural numbers. *)
LEMMA LengthAtType ==
  ASSUME NEW shape \in Seq(Nat)
  PROVE  \A k \in 1 .. Len(shape) : LengthAt(shape, k) \in Nat
<1> DEFINE S == {k \in Nat : k \in 1 .. Len(shape) => LengthAt(shape, k) \in Nat}
<1>1. Len(shape) \in Nat /\ \A k \in 1 .. Len(shape) : shape[k] \in Nat  OBVIOUS
<1>2. 0 \in S  OBVIOUS
<1>3. ASSUME NEW k \in Nat, k \in S PROVE k + 1 \in S
  <2>1. SUFFICES ASSUME k + 1 \in 1 .. Len(shape) PROVE LengthAt(shape, k + 1) \in Nat
    OBVIOUS
  <2>2. LengthAt(shape, k + 1) =
          IF k + 1 = 1 THEN 1 ELSE LengthAt(shape, (k + 1) - 1) + 1 + shape[(k + 1) - 1]
    BY <1>1, <2>1, LengthAtDef, Zenon
  <2>3. (k + 1) - 1 = k /\ (k + 1 # 1 => k \in 1 .. Len(shape))  BY <1>1, <2>1
  <2>4. CASE k + 1 = 1  BY <2>2, <2>4
  <2>5. CASE k + 1 # 1
    <3>1. LengthAt(shape, k) \in Nat /\ shape[k] \in Nat  BY <1>1, <1>3, <2>3, <2>5
    <3>2. LengthAt(shape, k + 1) = LengthAt(shape, k) + 1 + shape[k]
      BY <2>2, <2>3, <2>5, Zenon
    <3>3. QED  BY <3>1, <3>2
  <2>6. QED  BY <2>4, <2>5
<1> HIDE DEF S
<1>4. \A k \in Nat : k \in S  BY <1>2, <1>3, Induction
<1>5. QED  BY <1>1, <1>4 DEF S

(* They are the places of the length bytes in the encoding. *)
LEMMA LengthAtOffset ==
  ASSUME NEW labels \in Seq(Seq(Bytes)), NEW shape \in Seq(Nat), Len(shape) = Len(labels),
         \A k \in 1 .. Len(labels) : shape[k] = Len(labels[k])
  PROVE  \A k \in 1 .. Len(labels) : LengthAt(shape, k) = Offset(labels, k - 1) + 1
<1> DEFINE len == Len(labels)
           S == {k \in Nat : k \in 1 .. len => LengthAt(shape, k) = Offset(labels, k - 1) + 1}
<1>1. len \in Nat /\ Len(shape) = len  OBVIOUS
<1>2. /\ Offset(labels, 0) = 0
      /\ \A k \in 1 .. len : Offset(labels, k) = Offset(labels, k - 1) + 1 + Len(labels[k])
  BY BodyLength, Zenon
<1> HIDE DEF len
<1>3. 0 \in S  OBVIOUS
<1>4. ASSUME NEW k \in Nat, k \in S PROVE k + 1 \in S
  <2>1. SUFFICES ASSUME k + 1 \in 1 .. len
                 PROVE  LengthAt(shape, k + 1) = Offset(labels, (k + 1) - 1) + 1
    OBVIOUS
  <2>2. LengthAt(shape, k + 1) =
          IF k + 1 = 1 THEN 1 ELSE LengthAt(shape, (k + 1) - 1) + 1 + shape[(k + 1) - 1]
    BY <1>1, <2>1, LengthAtDef, Zenon
  <2>3. (k + 1) - 1 = k /\ (k + 1 = 1 => k = 0) /\ (k + 1 # 1 => k \in 1 .. len)
    BY <1>1, <2>1
  <2>4. CASE k + 1 = 1
    <3>1. LengthAt(shape, k + 1) = 1 /\ Offset(labels, (k + 1) - 1) = 0
      BY <2>2, <2>3, <2>4, <1>2, Zenon
    <3>2. QED  BY <3>1
  <2>5. CASE k + 1 # 1
    <3>1. LengthAt(shape, k) = Offset(labels, k - 1) + 1
      <4>1. k \in 1 .. len  BY <2>3, <2>5
      <4>2. QED  BY <4>1, <1>4, Zenon
    <3>2. LengthAt(shape, k + 1) = (Offset(labels, k - 1) + 1) + 1 + Len(labels[k])
      BY <2>2, <2>3, <2>5, <3>1, Zenon DEF len
    <3>3. Offset(labels, k) = Offset(labels, k - 1) + 1 + Len(labels[k])
      BY <2>3, <2>5, <1>2, Zenon
    <3>4. Offset(labels, k - 1) \in Nat /\ Len(labels[k]) \in Nat
      <4>1. k - 1 \in 0 .. Len(labels) /\ k \in 1 .. Len(labels)  BY <1>1, <2>3, <2>5 DEF len
      <4>2. QED  BY <4>1, BodyLength, PartsType, LabelType, Zenon
    <3>5. \A x, y \in Nat : (x + 1) + 1 + y = (x + 1 + y) + 1  OBVIOUS
    <3>6. (Offset(labels, k - 1) + 1) + 1 + Len(labels[k]) =
            (Offset(labels, k - 1) + 1 + Len(labels[k])) + 1
      BY <3>4, <3>5, Zenon
    <3>7. LengthAt(shape, k + 1) = Offset(labels, k) + 1  BY <3>2, <3>3, <3>6, Zenon
    <3>8. QED  BY <2>3, <3>7, Zenon
  <2>6. QED  BY <2>4, <2>5
<1> HIDE DEF S
<1>5. \A k \in Nat : k \in S  BY <1>3, <1>4, Induction
<1>6. \A k \in 1 .. len : k \in Nat  BY <1>1
<1>7. QED  BY <1>5, <1>6, Zenon DEF S, len

(* The byte of the question at a place, 0 behind its end. *)
ByteAt(x) == IF x <= Len(question) THEN question[x] ELSE 0

NameAt(shape) ==
  [k \in DOMAIN shape |-> [n \in 1 .. shape[k] |-> ByteAt(LengthAt(shape, k) + n)]]

(* A shape is a sequence of label lengths, of at least one. *)
LEMMA ShapeType ==
  ASSUME NEW shape \in Shapes
  PROVE  /\ shape \in Seq(Nat) /\ Len(shape) \in Nat \ {0} /\ DOMAIN shape = 1 .. Len(shape)
         /\ \A k \in 1 .. Len(shape) : shape[k] \in 1 .. LabelMax
<1>1. LabelLimit \in Nat /\ LabelMax \in Nat  BY LimitsAssumption, ParserAssumption
<1>2. PICK n \in 1 .. LabelLimit - 1 : shape \in [1 .. n -> 1 .. LabelMax]
  BY Zenon DEF Shapes
<1>3. n \in Nat \ {0} /\ 1 .. LabelMax \subseteq Nat  BY <1>1
<1>4. shape \in [1 .. n -> Nat]  BY <1>2, <1>3
<1>5. shape \in Seq(Nat) /\ Len(shape) = n  BY <1>3, <1>4, FunctionIsSeq
<1>6. QED  BY <1>2, <1>3, <1>5

(* The names the properties range over are lists of labels. *)
LEMMA NamesAreLabels ==
  ASSUME question \in Seq(Bytes), NEW labels \in Names
  PROVE  labels \in Labels /\ labels # <<>>
<1>1. PICK shape \in Shapes : labels = NameAt(shape)  BY Zenon DEF Names, NameAt, ByteAt
<1> DEFINE len == Len(shape)
<1>2. /\ shape \in Seq(Nat) /\ len \in Nat \ {0} /\ DOMAIN shape = 1 .. len
      /\ \A k \in 1 .. len : shape[k] \in 1 .. LabelMax
  BY ShapeType, Zenon
<1>3. ASSUME NEW x \in Nat \ {0} PROVE ByteAt(x) \in Bytes
  <2>1. 0 \in Bytes /\ Len(question) \in Nat  BY ParserAssumption
  <2>2. x <= Len(question) => x \in 1 .. Len(question)  BY <2>1
  <2>3. QED  BY <2>1, <2>2, ElementOfSeq, Zenon DEF ByteAt
<1>4. ASSUME NEW k \in 1 .. len
      PROVE  labels[k] \in Seq(Bytes) /\ Len(labels[k]) = shape[k]
  <2> DEFINE w == [n \in 1 .. shape[k] |-> ByteAt(LengthAt(shape, k) + n)]
             m == shape[k]
             p == LengthAt(shape, k)
  <2>1. labels[k] = w  BY <1>1, <1>2, Zenon DEF NameAt
  <2>2. m \in Nat /\ p \in Nat
    <3>1. m \in Nat  BY <1>2
    <3>2. p \in Nat  BY <1>2, LengthAtType, Zenon
    <3>3. QED  BY <3>1, <3>2
  <2> HIDE DEF m, p
  <2>3. \A n \in 1 .. m : p + n \in Nat \ {0}  BY <2>2
  <2>4. w = [n \in 1 .. m |-> ByteAt(p + n)]  BY Zenon DEF m, p
  <2> HIDE DEF w
  <2>5. w \in [1 .. m -> Bytes]  BY <2>3, <2>4, <1>3, Zenon
  <2>6. w \in Seq(Bytes) /\ Len(w) = m  BY <2>2, <2>5, FunctionIsSeq, Zenon
  <2>7. QED  BY <2>1, <2>6, Zenon DEF m
<1>5. labels \in Seq(Seq(Bytes)) /\ Len(labels) = len
  <2>1. labels = [k \in 1 .. len |-> labels[k]]  BY <1>1, <1>2, Zenon DEF NameAt
  <2>2. labels \in [1 .. len -> Seq(Bytes)]  BY <1>4, <2>1, Zenon
  <2> HIDE DEF len
  <2>3. len \in Nat  BY <1>2
  <2>4. QED  BY <2>2, <2>3, FunctionIsSeq, Zenon
<1> HIDE DEF len
<1>6. \A k \in 1 .. Len(labels) : Len(labels[k]) \in 1 .. LabelMax
  BY <1>2, <1>4, <1>5, Zenon
<1>7. labels # <<>>  BY <1>2, <1>5
<1>8. QED  BY <1>5, <1>6, <1>7, Zenon DEF Labels

(* Conversely, the labels that a question encodes are one of them. *)
LEMMA EncodedIsName ==
  ASSUME NEW labels \in Labels, labels # <<>>, Len(labels) < LabelLimit,
         question = Encode(labels)
  PROVE  labels \in Names
<1> DEFINE len == Len(labels)
           shape == [k \in 1 .. len |-> Len(labels[k])]
<1>1. labels \in Seq(Seq(Bytes)) /\ \A k \in 1 .. len : Len(labels[k]) \in 1 .. LabelMax
  BY Zenon DEF Labels
<1>2. len \in Nat \ {0} /\ LabelLimit \in Nat /\ LabelMax \in Nat
  BY <1>1, LimitsAssumption, ParserAssumption
<1>3. \A k \in 1 .. len : shape[k] = Len(labels[k])  OBVIOUS
<1>4. shape \in [1 .. len -> 1 .. LabelMax] /\ DOMAIN shape = 1 .. len
  BY <1>1, Zenon
<1> HIDE DEF shape, len
<1>5. len \in 1 .. LabelLimit - 1  BY <1>2 DEF len
<1>6. shape \in Shapes  BY <1>4, <1>5, Zenon DEF Shapes
<1>7. shape \in Seq(Nat) /\ Len(shape) = len
  <2>1. shape \in [1 .. len -> Nat]  BY <1>2, <1>4
  <2>2. QED  BY <2>1, <1>2, FunctionIsSeq
<1>8. \A k \in 1 .. len : LengthAt(shape, k) = Offset(labels, k - 1) + 1
  BY <1>1, <1>3, <1>7, LengthAtOffset, Zenon DEF len
<1>9. ASSUME NEW k \in 1 .. len
      PROVE  labels[k] = [n \in 1 .. shape[k] |-> ByteAt(LengthAt(shape, k) + n)]
  <2> DEFINE off == Offset(labels, k - 1)
             body == Body(labels)
  <2>1. /\ off \in Nat
        /\ \A n \in 1 .. Len(labels[k]) :
             off + (n + 1) \in 1 .. Len(body) /\ body[off + (n + 1)] = labels[k][n]
    BY <1>1, BodyAt, Zenon DEF len
  <2>2. /\ Len(body) \in Nat /\ Len(question) = Len(body) + 1
        /\ \A i \in 1 .. Len(body) : question[i] = body[i]
    BY <1>1, EncodeType, Zenon
  <2> HIDE DEF off, body
  <2>3. ASSUME NEW n \in 1 .. Len(labels[k]) PROVE labels[k][n] = ByteAt(LengthAt(shape, k) + n)
    <3>1. Len(labels[k]) \in Nat  BY <1>1 DEF len
    <3>2. LengthAt(shape, k) + n = off + (n + 1)
      <4>1. LengthAt(shape, k) = off + 1  BY <1>8, Zenon DEF off
      <4>2. QED  BY <4>1, <2>1, <3>1
    <3>3. off + (n + 1) \in 1 .. Len(body) /\ body[off + (n + 1)] = labels[k][n]
      BY <2>1, Zenon
    <3>4. off + (n + 1) <= Len(question)  BY <3>3, <2>2
    <3>5. ByteAt(off + (n + 1)) = question[off + (n + 1)]  BY <3>4, Zenon DEF ByteAt
    <3>6. question[off + (n + 1)] = body[off + (n + 1)]  BY <3>3, <2>2, Zenon
    <3>7. QED  BY <3>2, <3>3, <3>5, <3>6, Zenon
  <2>4. labels[k] = [n \in 1 .. Len(labels[k]) |-> labels[k][n]]
    <3>1. labels[k] \in Seq(Bytes)  BY <1>1, PartsType, Zenon DEF len
    <3>2. QED  BY <3>1
  <2>5. labels[k] = [n \in 1 .. Len(labels[k]) |-> ByteAt(LengthAt(shape, k) + n)]
    BY <2>3, <2>4, Zenon
  <2>6. QED  BY <2>5, <1>3, Zenon
<1>10. labels = [k \in 1 .. len |-> labels[k]]  BY <1>1 DEF len
<1>11. labels = NameAt(shape)  BY <1>4, <1>9, <1>10, Zenon DEF NameAt
<1>12. QED  BY <1>6, <1>11, Zenon DEF Names, NameAt, ByteAt

-----------------------------------------------------------------------------
(***************************************************************************)
(* What the label loop has decoded, and why it refuses a question.         *)
(***************************************************************************)

(* The collected name has no dot in front of the first label. *)
Collects(name, text) == IF text = <<>> THEN name = <<>> ELSE <<Dot>> \o name = text

(* At the head of the loop the question is a list of whole labels. *)
AtLabel(labels) ==
  /\ question = Body(labels)
  /\ label_depth = Len(labels)
  /\ cursor = QuestionStart + Len(question)
  /\ Collects(qname, Dotted(labels))

(* In the copy loop, j bytes w of the next label follow its length. *)
InLabel(labels, w) ==
  /\ question = Body(labels) \o (<<lbl_len>> \o w)
  /\ lbl_len \in 1 .. LabelMax /\ Len(w) = j /\ j <= lbl_len
  /\ label_depth = Len(labels) /\ Len(labels) < LabelLimit
  /\ cursor + j = QuestionStart + Len(question)
  /\ <<Dot>> \o qname = Dotted(labels) \o (<<Dot>> \o Text(w))

(* Behind the loop the root label has been read. *)
AtEnd(labels) ==
  /\ question = Encode(labels)
  /\ label_depth = Len(labels) /\ Len(labels) < LabelLimit
  /\ cursor = QuestionStart + Len(question)
  /\ Collects(qname, Dotted(labels))

(* The reasons for which a question is refused: no room for a length byte, *)
(* or an iteration too many; a length that is not one, that leads out of   *)
(* the datagram, or a name that is full before its dot; a name that is     *)
(* full inside a label; the root name, or no room for type and class.      *)
Refused ==
  \E labels \in Labels :
    \/ /\ question = Body(labels)
       /\ Len(labels) >= LabelLimit \/ QuestionStart + Len(question) + 1 > dns_end
    \/ \E len \in Nat \ {0} :
         /\ question = Body(labels) \o <<len>>
         /\ \/ len > LabelMax
            \/ QuestionStart + Len(question) + len > dns_end
            \/ Len(Body(labels)) > QnameLimit
    \/ \E len \in 1 .. LabelMax, w \in Seq(Bytes) :
         /\ question = Body(labels) \o (<<len>> \o w)
         /\ Len(w) <= len
         /\ Len(Body(labels)) + Len(w) > QnameLimit
    \/ /\ question = Encode(labels)
       /\ labels = <<>> \/ QuestionStart + Len(question) + 4 > dns_end

DecodeInv ==
  /\ pc \in {"idle", "eth", "ip", "udp", "dns"} => label_depth = 0 /\ qname = <<>>
  /\ pc = "label" => \E labels \in Labels : AtLabel(labels)
  /\ pc = "copy" => \E labels \in Labels, w \in Seq(Bytes) : InLabel(labels, w)
  /\ pc \in {"end", "accepted"} => \E labels \in Labels : AtEnd(labels)
  /\ pc = "accepted" => qname # <<>> /\ cursor + 4 <= dns_end
  /\ pc = "rejected" /\ question # <<>> => Refused

(* No label: no byte, no character. *)
LEMMA NoLabel == <<>> \in Labels /\ Body(<<>>) = <<>> /\ Dotted(<<>>) = <<>>
<1>1. <<>> \in Seq(Seq(Bytes)) /\ Len(<<>>) = 0 /\ \A k \in 1 .. 0 : FALSE  OBVIOUS
<1>2. <<>> \in Labels  BY <1>1 DEF Labels
<1>3. Body(<<>>) \in Seq(Nat) /\ Len(Body(<<>>)) = 0
  <2>1. Body(<<>>) \in Seq(Nat) /\ Len(Body(<<>>)) = Offset(<<>>, Len(<<>>)) /\ Offset(<<>>, 0) = 0
    BY <1>1, BodyLength, Zenon
  <2>2. QED  BY <2>1, <1>1, Zenon
<1>4. Dotted(<<>>) \in Seq(Chars) /\ Len(Dotted(<<>>)) = Len(Body(<<>>))
  BY <1>1, BodyLength, Zenon
<1>5. ASSUME NEW T, NEW s \in Seq(T), Len(s) = 0 PROVE s = <<>>  BY <1>5
<1>6. QED  BY <1>2, <1>3, <1>4, <1>5, Zenon

(* One label: at least two bytes. *)
LEMMA SomeLabel ==
  ASSUME NEW labels \in Labels, labels # <<>>
  PROVE  Len(Body(labels)) \in Nat /\ Len(Body(labels)) >= 2
<1>1. labels \in Seq(Seq(Bytes)) /\ \A k \in 1 .. Len(labels) : Len(labels[k]) \in 1 .. LabelMax
  BY Zenon DEF Labels
<1>2. Len(labels) \in Nat /\ Len(labels) # 0  BY <1>1
<1>3. 1 \in 1 .. Len(labels)  BY <1>2
<1>4. 1 \in 1 .. Len(labels[1])
  <2>1. Len(labels[1]) \in 1 .. LabelMax  BY <1>1, <1>3, Zenon
  <2>2. QED  BY <2>1
<1>5. /\ Offset(labels, 1 - 1) \in Nat
      /\ Offset(labels, 1 - 1) + (1 + 1) \in 1 .. Len(Body(labels))
  BY <1>1, <1>3, <1>4, BodyAt, Zenon
<1>6. Len(Body(labels)) \in Nat  BY <1>1, EncodeType, Zenon
<1>7. QED  BY <1>5, <1>6

(* How long a collected name is. *)
LEMMA CollectedLength ==
  ASSUME NEW labels \in Labels, NEW name \in Seq(Chars), Collects(name, Dotted(labels))
  PROVE  /\ labels = <<>> => name = <<>>
         /\ labels # <<>> =>
              /\ name # <<>>
              /\ <<Dot>> \o name = Dotted(labels)
              /\ Len(name) + 1 = Len(Body(labels))
<1>1. labels = <<>> => name = <<>>  BY NoLabel, Zenon DEF Collects
<1>2. ASSUME labels # <<>>
      PROVE  /\ name # <<>>
             /\ <<Dot>> \o name = Dotted(labels)
             /\ Len(name) + 1 = Len(Body(labels))
  <2>1. labels \in Seq(Seq(Bytes))  BY Zenon DEF Labels
  <2>2. /\ Len(Body(labels)) \in Nat /\ Len(Body(labels)) >= 2
        /\ Dotted(labels) \in Seq(Chars) /\ Len(Dotted(labels)) = Len(Body(labels))
    BY <1>2, <2>1, SomeLabel, BodyLength, Zenon
  <2>3. Dotted(labels) # <<>>  BY <2>2
  <2>4. <<Dot>> \o name = Dotted(labels)  BY <2>3, Zenon DEF Collects
  <2>5. <<Dot>> \in Seq(Chars) /\ Len(<<Dot>>) = 1  BY DEF Chars, Dot
  <2>6. Len(<<Dot>> \o name) = Len(<<Dot>>) + Len(name) /\ Len(name) \in Nat
    BY <2>5, ConcatType, Zenon
  <2>7. Len(Body(labels)) = 1 + Len(name)  BY <2>2, <2>4, <2>5, <2>6, Zenon
  <2>8. Len(name) # 0  BY <2>2, <2>6, <2>7
  <2>9. QED  BY <2>4, <2>6, <2>7, <2>8
<1>3. QED  BY <1>1, <1>2

(* An element that is appended comes behind the others. *)
LEMMA AppendLast ==
  ASSUME NEW T, NEW s \in Seq(T), NEW e \in T
  PROVE  Append(s, e) = s \o <<e>>
OBVIOUS

AppendsToSecond(s, t, e) == Append(s \o t, e) = s \o Append(t, e)

(* An element that is appended to two sequences is appended to the second. *)
LEMMA AppendConcat ==
  ASSUME NEW T, NEW s \in Seq(T), NEW t \in Seq(T), NEW e \in T
  PROVE  AppendsToSecond(s, t, e)
BY DEF AppendsToSecond

(* What an acceptable name is, in terms of its encoding. *)
LEMMA AcceptableLength ==
  ASSUME NEW labels \in Labels, labels # <<>>, Acceptable(labels)
  PROVE  /\ Len(labels) < LabelLimit
         /\ Len(Body(labels)) \in Nat /\ Len(Body(labels)) - 1 <= QnameLimit
         /\ Len(Encode(labels)) = Len(Body(labels)) + 1
         /\ QuestionStart + Len(Encode(labels)) + 4 <= dns_end
<1>1. labels \in Seq(Seq(Bytes))  BY Zenon DEF Labels
<1>2. /\ Len(NameOf(labels)) = Len(labels)
      /\ Len(Qname(NameOf(labels))) = Len(Body(labels)) - 1
      /\ Len(Body(labels)) \in Nat
      /\ Len(Encode(labels)) = Len(Body(labels)) + 1
  BY <1>1, QnameIsTail, QnameLength, EncodeType, Zenon
<1>3. /\ Len(NameOf(labels)) < LabelLimit
      /\ Len(Qname(NameOf(labels))) \in 1 .. QnameLimit
      /\ QuestionStart + Len(Encode(labels)) + 4 <= dns_end
  BY Zenon DEF Acceptable, NameParses
<1>4. Len(labels) < LabelLimit  BY <1>2, <1>3, Zenon
<1>5. Len(Body(labels)) - 1 \in 1 .. QnameLimit  BY <1>2, <1>3, Zenon
<1>6. QnameLimit \in Nat  BY LimitsAssumption
<1>7. QED  BY <1>2, <1>3, <1>4, <1>5, <1>6

(* No acceptable name starts with a question that is refused. *)
LEMMA RefusedHasNoName ==
  ASSUME ParseInv, Refused
  PROVE  ~\E labels \in Names : StartsWith(Encode(labels), question) /\ Acceptable(labels)
<1>1. SUFFICES ASSUME NEW other \in Names,
                      StartsWith(Encode(other), question), Acceptable(other)
               PROVE  FALSE
  OBVIOUS
<1>2. question \in Seq(Bytes) /\ udp \in Nat /\ dns_end \in Nat  BY DEF ParseInv, TypeOK
<1>3. question \in Seq(Nat) /\ Len(question) \in Nat
  <2>1. Bytes \subseteq Nat  BY ParserAssumption
  <2>2. question \in Seq(Nat)  BY <1>2, <2>1, SeqMonotonic, Zenon
  <2>3. QED  BY <2>2
<1>4. QuestionStart \in Nat  BY <1>2, HeaderSizes DEF QuestionStart
<1>5. other \in Labels /\ other # <<>>  BY <1>2, NamesAreLabels, Zenon
<1>6. /\ Len(other) < LabelLimit
      /\ Len(Body(other)) \in Nat /\ Len(Body(other)) - 1 <= QnameLimit
      /\ Len(Encode(other)) = Len(Body(other)) + 1
      /\ QuestionStart + Len(Encode(other)) + 4 <= dns_end
  BY <1>1, <1>5, AcceptableLength, Zenon
<1>7. Len(question) <= Len(Encode(other))  BY <1>1, Zenon DEF StartsWith
<1>8. QnameLimit \in Nat /\ LabelLimit \in Nat /\ LabelMax \in Nat
  BY LimitsAssumption, ParserAssumption
<1>9. PICK labels \in Labels :
        \/ /\ question = Body(labels)
           /\ Len(labels) >= LabelLimit \/ QuestionStart + Len(question) + 1 > dns_end
        \/ \E len \in Nat \ {0} :
             /\ question = Body(labels) \o <<len>>
             /\ \/ len > LabelMax
                \/ QuestionStart + Len(question) + len > dns_end
                \/ Len(Body(labels)) > QnameLimit
        \/ \E len \in 1 .. LabelMax, w \in Seq(Bytes) :
             /\ question = Body(labels) \o (<<len>> \o w)
             /\ Len(w) <= len
             /\ Len(Body(labels)) + Len(w) > QnameLimit
        \/ /\ question = Encode(labels)
           /\ labels = <<>> \/ QuestionStart + Len(question) + 4 > dns_end
  BY Zenon DEF Refused
<1> DEFINE body == Body(labels)
<1>10. body \in Seq(Nat) /\ Len(body) \in Nat /\ Len(labels) \in Nat /\ Len(other) \in Nat
  <2>1. labels \in Seq(Seq(Bytes)) /\ other \in Seq(Seq(Bytes))  BY <1>5, Zenon DEF Labels
  <2>2. Len(labels) \in Nat /\ Len(other) \in Nat  BY <2>1
  <2>3. QED  BY <2>1, <2>2, BodyLength, EncodeType, Zenon
<1>11. ASSUME NEW rest \in Seq(Nat), question = body \o rest
       PROVE  StartsWith(question, body)
  <2>1. StartsWith(body, body)  BY <1>10 DEF StartsWith
  <2>2. QED  BY <2>1, <1>10, <1>11, StartsWithConcat, Zenon
<1>12. ASSUME NEW len \in Nat, NEW w \in Seq(Nat), question = body \o (<<len>> \o w)
       PROVE  /\ Len(question) = Len(body) + 1 + Len(w)
              /\ \/ len = 0 /\ Len(other) = Len(labels) /\ Len(Encode(other)) = Len(body) + 1
                 \/ len \in 1 .. LabelMax /\ Len(Body(other)) >= Len(body) + 1 + len
  <2> DEFINE rest == <<len>> \o w
  <2>1. rest \in Seq(Nat) /\ Len(rest) = 1 + Len(w) /\ rest[1] = len /\ Len(w) \in Nat  OBVIOUS
  <2> HIDE DEF rest, body
  <2>2. question = body \o rest  BY <1>12 DEF rest
  <2>3. Len(question) = Len(body) + Len(rest) /\ question[Len(body) + 1] = rest[1]
    <3>1. 1 \in 1 .. Len(rest)  BY <2>1
    <3>2. Len(body \o rest) = Len(body) + Len(rest)  BY <2>1, <1>10, ConcatType, Zenon
    <3>3. (body \o rest)[Len(body) + 1] = rest[1]  BY <2>1, <3>1, <1>10, ConcatRight
    <3>4. QED  BY <2>2, <3>2, <3>3, Zenon
  <2>4. Len(question) = Len(body) + 1 + Len(w) /\ Len(body) < Len(question)
    BY <2>1, <2>3, <1>10
  <2>5. question[Len(body) + 1] = len  BY <2>1, <2>3, Zenon
  <2>6. StartsWith(question, body)  BY <2>1, <2>2, <1>11, Zenon
  <2>7. \/ /\ question[Len(body) + 1] = 0
           /\ Len(other) = Len(labels)
           /\ Len(Encode(other)) = Len(body) + 1
        \/ /\ question[Len(body) + 1] \in 1 .. LabelMax
           /\ Len(Body(other)) >= Len(body) + 1 + question[Len(body) + 1]
    BY <1>1, <1>3, <1>5, <2>4, <2>6, NextByte DEF body
  <2>8. QED  BY <2>4, <2>5, <2>7, Zenon
<1>13. CASE /\ question = body
            /\ Len(labels) >= LabelLimit \/ QuestionStart + Len(question) + 1 > dns_end
  <2>1. StartsWith(question, body)  BY <1>13, <1>10 DEF StartsWith
  <2>2. Len(labels) <= Len(other)  BY <1>1, <1>3, <1>5, <2>1, SameOffsets
  <2>3. QED  BY <1>13, <2>2, <1>3, <1>4, <1>6, <1>7, <1>8, <1>2, <1>10
<1>14. ASSUME NEW len \in Nat \ {0}, question = body \o <<len>>,
              \/ len > LabelMax
              \/ QuestionStart + Len(question) + len > dns_end
              \/ Len(body) > QnameLimit
       PROVE  FALSE
  <2>1. <<>> \in Seq(Nat) /\ Len(<<>>) = 0 /\ <<len>> = <<len>> \o <<>>  OBVIOUS
  <2>2. question = body \o (<<len>> \o <<>>)  BY <2>1, <1>14, Zenon
  <2> HIDE DEF body
  <2>3. /\ Len(question) = Len(body) + 1 + 0
        /\ len \in 1 .. LabelMax /\ Len(Body(other)) >= Len(body) + 1 + len
    <3>1. /\ Len(question) = Len(body) + 1 + Len(<<>>)
          /\ \/ len = 0
             \/ len \in 1 .. LabelMax /\ Len(Body(other)) >= Len(body) + 1 + len
      BY <2>1, <2>2, <1>12, Zenon
    <3>2. QED  BY <3>1, <2>1
  <2>4. QED  BY <2>3, <1>14, <1>2, <1>3, <1>4, <1>6, <1>8, <1>10
<1>15. ASSUME NEW len \in 1 .. LabelMax, NEW w \in Seq(Bytes),
              question = body \o (<<len>> \o w), Len(w) <= len, Len(body) + Len(w) > QnameLimit
       PROVE  FALSE
  <2>1. w \in Seq(Nat) /\ len \in Nat \ {0} /\ Len(w) \in Nat
    <3>1. Bytes \subseteq Nat /\ len \in Nat \ {0} /\ Len(w) \in Nat  BY <1>8, ParserAssumption
    <3>2. QED  BY <3>1, SeqMonotonic, Zenon
  <2> HIDE DEF body
  <2>2. \/ len = 0
        \/ len \in 1 .. LabelMax /\ Len(Body(other)) >= Len(body) + 1 + len
    BY <2>1, <1>12, <1>15, Zenon
  <2>3. QED  BY <2>1, <2>2, <1>15, <1>6, <1>8, <1>10
<1>16. CASE /\ question = Encode(labels)
            /\ labels = <<>> \/ QuestionStart + Len(question) + 4 > dns_end
  <2>1. question = body \o (<<0>> \o <<>>)
    <3>1. <<0>> \o <<>> = <<0>>  OBVIOUS
    <3>2. labels \in Seq(Seq(Bytes))  BY Zenon DEF Labels
    <3>3. Encode(labels) = body \o <<0>>  BY <3>2, EncodeType, Zenon
    <3>4. QED  BY <1>16, <3>1, <3>3, Zenon
  <2>2. Len(other) = Len(labels) /\ Len(Encode(other)) = Len(body) + 1
        /\ Len(question) = Len(body) + 1 + 0
    <3>1. <<>> \in Seq(Nat) /\ Len(<<>>) = 0 /\ 0 \in Nat /\ ~(0 \in 1 .. LabelMax)  BY <1>8
    <3> HIDE DEF body
    <3>2. /\ Len(question) = Len(body) + 1 + Len(<<>>)
          /\ Len(other) = Len(labels) /\ Len(Encode(other)) = Len(body) + 1
      BY <3>1, <2>1, <1>12, Zenon
    <3>3. QED  BY <3>1, <3>2, Zenon
  <2>3. labels # <<>>
    <3>1. other \in Seq(Seq(Bytes))  BY <1>5, Zenon DEF Labels
    <3>2. Len(other) # 0  BY <1>5, <3>1
    <3>3. QED  BY <2>2, <3>2
  <2> HIDE DEF body
  <2>4. QED  BY <1>16, <2>2, <2>3, <1>2, <1>3, <1>4, <1>6, <1>10
<1>17. QED  BY <1>9, <1>13, <1>14, <1>15, <1>16, Zenon

(* An accepted question encodes the name that was collected. *)
LEMMA AcceptedHasName ==
  ASSUME ParseInv, DecodeInv
  PROVE  AcceptedIsDecoded
<1>1. SUFFICES ASSUME pc = "accepted"
               PROVE  \E labels \in Names :
                        /\ question = Encode(labels)
                        /\ Acceptable(labels)
                        /\ qname = Qname(NameOf(labels))
                        /\ label_depth = Len(labels)
  BY Zenon DEF AcceptedIsDecoded
<1>2. PICK labels \in Labels : AtEnd(labels)  BY <1>1, Zenon DEF DecodeInv
<1>3. qname # <<>> /\ cursor + 4 <= dns_end  BY <1>1, Zenon DEF DecodeInv
<1>4. qname \in Seq(Chars) /\ Len(qname) <= QnameLimit /\ QnameLimit \in Nat
  BY LimitsAssumption DEF ParseInv, TypeOK
<1>5. labels \in Seq(Seq(Bytes))  BY Zenon DEF Labels
<1>6. /\ labels # <<>>
      /\ <<Dot>> \o qname = Dotted(labels)
      /\ Len(qname) + 1 = Len(Body(labels))
  BY <1>2, <1>3, <1>4, CollectedLength, Zenon DEF AtEnd
<1>7. labels \in Names  BY <1>2, <1>6, EncodedIsName, Zenon DEF AtEnd
<1>8. qname = Qname(NameOf(labels)) /\ Len(NameOf(labels)) = Len(labels)
  <2>1. Tail(<<Dot>> \o qname) = qname
    <3>1. <<Dot>> \in Seq(Chars)  BY DEF Chars, Dot
    <3>2. QED  BY <3>1, <1>4
  <2>2. QED  BY <2>1, <1>5, <1>6, QnameIsTail, Zenon
<1>9. NameParses(NameOf(labels))
  <2>1. Len(qname) \in 1 .. QnameLimit  BY <1>3, <1>4
  <2>2. Len(NameOf(labels)) < LabelLimit  BY <1>2, <1>8, Zenon DEF AtEnd
  <2>3. NameOf(labels) # <<>>
    <3>1. Len(labels) # 0 /\ Len(<<>>) = 0  BY <1>5, <1>6
    <3>2. QED  BY <3>1, <1>8, Zenon
  <2>4. Len(Qname(NameOf(labels))) \in 1 .. QnameLimit  BY <2>1, <1>8, Zenon
  <2>5. QED  BY <2>2, <2>3, <2>4, Zenon DEF NameParses
<1>10. Acceptable(labels)  BY <1>2, <1>3, <1>9, Zenon DEF AtEnd, Acceptable
<1>11. QED  BY <1>2, <1>7, <1>8, <1>10, Zenon DEF AtEnd

(* The headers leave the name empty; behind them the question starts. *)
LEMMA HeaderDecode ==
  ASSUME ParseInv, DecodeInv,
         Receive \/ ParseEth \/ ParseIp \/ ParseUdp \/ ParseDnsHeader
  PROVE  DecodeInv'
<1>1. CASE Receive  BY <1>1 DEF Receive, DecodeInv
<1>2. CASE ParseEth \/ ParseIp \/ ParseUdp \/ ParseDnsHeader
  <2>1. /\ pc \in {"eth", "ip", "udp", "dns"}
        /\ UNCHANGED <<label_depth, qname, question>>
    BY <1>2, Zenon DEF ParseEth, ParseIp, ParseUdp, ParseDnsHeader, meta
  <2>2. question = <<>>  BY <2>1 DEF ParseInv, CursorInv, InQuestion, Verdicts
  <2>3. label_depth = 0 /\ qname = <<>>  BY <2>1 DEF DecodeInv
  <2>4. CASE pc' = "label"
    <3>1. cursor' = QuestionStart /\ udp' = udp
      BY <1>2, <2>4, Zenon DEF ParseEth, ParseIp, ParseUdp, ParseDnsHeader, Reject
    <3>2. /\ question' = <<>> /\ label_depth' = 0 /\ qname' = <<>>
          /\ cursor' = QuestionStart' + 0
      <4>1. udp \in Nat  BY DEF ParseInv, TypeOK
      <4>2. QED  BY <2>1, <2>2, <2>3, <3>1, <4>1, HeaderSizes DEF QuestionStart
    <3>3. Len(<<>>) = 0  OBVIOUS
    <3>4. AtLabel(<<>>)'  BY <3>2, <3>3, NoLabel, Zenon DEF AtLabel, Collects
    <3>5. (\E labels \in Labels : AtLabel(labels))'  BY <3>4, NoLabel, Zenon
    <3>6. QED  BY <2>4, <3>5 DEF DecodeInv
  <2>5. CASE pc' # "label"
    <3>1. pc' \in {"ip", "udp", "dns", "rejected"}
      BY <1>2, <2>5, Zenon DEF ParseEth, ParseIp, ParseUdp, ParseDnsHeader, Reject
    <3>2. QED  BY <3>1, <2>1, <2>2, <2>3 DEF DecodeInv
  <2>6. QED  BY <2>4, <2>5
<1>3. QED  BY <1>1, <1>2

(* The numbers and sequences of a state, and where the question starts. *)
LEMMA QuestionState ==
  ASSUME ParseInv
  PROVE  /\ udp \in Nat /\ dns_end \in Nat /\ cursor \in Nat /\ label_depth \in Nat /\ j \in Nat
         /\ QuestionStart \in Nat /\ Len(question) \in Nat /\ Len(qname) \in Nat
         /\ qname \in Seq(Chars) /\ question \in Seq(Bytes) /\ question \in Seq(Nat)
         /\ LabelLimit \in Nat /\ LabelMax \in Nat /\ QnameLimit \in Nat
<1>1. /\ udp \in Nat /\ dns_end \in Nat /\ cursor \in Nat /\ label_depth \in Nat /\ j \in Nat
      /\ qname \in Seq(Chars) /\ question \in Seq(Bytes)
  BY DEF ParseInv, TypeOK
<1>2. Bytes \subseteq Nat /\ LabelMax \in Nat  BY ParserAssumption
<1>3. question \in Seq(Nat)  BY <1>1, <1>2, SeqMonotonic, Zenon
<1>4. QuestionStart \in Nat  BY <1>1, HeaderSizes DEF QuestionStart
<1>5. QED  BY <1>1, <1>2, <1>3, <1>4, LimitsAssumption

(* One label too many is a reason. *)
LEMMA TooManyDecode == ASSUME ParseInv, DecodeInv, TooManyLabels PROVE DecodeInv'
<1>1. /\ pc = "label" /\ label_depth >= LabelLimit /\ pc' = "rejected"
      /\ UNCHANGED <<question, udp, dns_end>>
  BY DEF TooManyLabels, Reject, frame
<1>2. PICK labels \in Labels : AtLabel(labels)  BY <1>1 DEF DecodeInv
<1>3. question' = Body(labels) /\ Len(labels) >= LabelLimit
  BY <1>1, <1>2, Zenon DEF AtLabel
<1>4. Refused'  BY <1>3, Zenon DEF Refused
<1>5. QED  BY <1>1, <1>4 DEF DecodeInv

(* A length byte that ends the name, starts a label or is refused. *)
LEMMA LengthDecode == ASSUME ParseInv, DecodeInv, ReadLength PROVE DecodeInv'
<1>1. pc = "label" /\ label_depth < LabelLimit /\ UNCHANGED <<udp, dns_end>>
  BY DEF ReadLength, frame
<1>2. PICK labels \in Labels : AtLabel(labels)  BY <1>1 DEF DecodeInv
<1> DEFINE body == Body(labels)
           qs == QuestionStart
<1>3. /\ question = body /\ label_depth = Len(labels) /\ cursor = qs + Len(question)
      /\ Collects(qname, Dotted(labels))
  BY <1>2, Zenon DEF AtLabel
<1>4. /\ dns_end \in Nat /\ cursor \in Nat /\ qs \in Nat
      /\ Len(question) \in Nat /\ Len(qname) \in Nat
      /\ qname \in Seq(Chars) /\ question \in Seq(Nat)
      /\ LabelLimit \in Nat /\ LabelMax \in Nat /\ QnameLimit \in Nat
  BY QuestionState, Zenon
<1>5. QuestionStart' = qs  BY <1>1 DEF QuestionStart
<1>6. labels \in Seq(Seq(Bytes)) /\ Len(labels) \in Nat
  <2>1. labels \in Seq(Seq(Bytes))  BY Zenon DEF Labels
  <2>2. QED  BY <2>1
<1> HIDE DEF qs
<1>7. CASE cursor + 1 > dns_end
  <2>1. pc' = "rejected" /\ question' = question
    BY <1>4, <1>7 DEF ReadLength, Reject
  <2>2. QuestionStart' + Len(question') + 1 > dns_end'
    BY <2>1, <1>1, <1>3, <1>5, <1>7
  <2>3. question' = Body(labels)  BY <2>1, <1>3, Zenon
  <2>4. Refused'  BY <2>2, <2>3, Zenon DEF Refused
  <2>5. QED  BY <2>1, <2>4 DEF DecodeInv
<1>8. CASE cursor + 1 <= dns_end
  <2>1. PICK len \in Bytes :
          /\ cursor' = cursor + 1
          /\ question' = Append(question, len)
          /\ lbl_len' = len
          /\ j' = 0
          /\ \/ len = 0 /\ pc' = "end" /\ UNCHANGED meta
             \/ /\ len # 0
                /\ ~LengthLegal(len) \/ ~LabelFits(len) \/ (label_depth > 0 /\ QnameFull)
                /\ pc' = "rejected"
             \/ /\ len # 0 /\ LengthLegal(len) /\ pc' = "copy"
                /\ IF label_depth > 0 THEN Store(Dot) ELSE UNCHANGED qname
                /\ UNCHANGED label_depth
    BY <1>4, <1>8 DEF ReadLength, Reject
  <2>2. len \in Nat  BY ParserAssumption
  <2>3. question' = body \o <<len>> /\ Len(question') = Len(question) + 1
    <3>1. Append(question, len) = question \o <<len>> /\ Len(Append(question, len)) = Len(question) + 1
      BY <1>4, <2>2
    <3>2. QED  BY <3>1, <2>1, <1>3, Zenon
  <2>4. cursor' = QuestionStart' + Len(question')  BY <2>1, <2>3, <1>3, <1>4, <1>5
  <2>5. CASE len = 0 /\ pc' = "end" /\ UNCHANGED meta
    <3>1. question' = Encode(labels)  BY <2>3, <2>5, <1>6, EncodeType, Zenon
    <3>2. label_depth' = label_depth /\ qname' = qname  BY <2>5 DEF meta
    <3>3. Len(labels) < LabelLimit  BY <1>1, <1>3
    <3>4. AtEnd(labels)'  BY <3>1, <3>2, <3>3, <2>4, <1>3, Zenon DEF AtEnd
    <3>5. (\E l \in Labels : AtEnd(l))'  BY <3>4, Zenon
    <3>6. QED  BY <2>5, <3>5 DEF DecodeInv
  <2>6. CASE /\ len # 0
             /\ ~LengthLegal(len) \/ ~LabelFits(len) \/ (label_depth > 0 /\ QnameFull)
             /\ pc' = "rejected"
    <3>1. \/ len > LabelMax
          \/ QuestionStart' + Len(question') + len > dns_end'
          \/ Len(body) > QnameLimit
      <4>1. CASE ~LengthLegal(len)  BY <4>1, <1>4, <2>2 DEF LengthLegal
      <4>2. CASE ~LabelFits(len)
        <5>1. cursor + 1 + len > dns_end  BY <4>2, <1>4, <2>2 DEF LabelFits
        <5>2. QED  BY <5>1, <2>1, <2>2, <2>4, <1>1, <1>4
      <4>3. CASE label_depth > 0 /\ QnameFull
        <5>1. labels # <<>>  BY <4>3, <1>3
        <5>2. Len(qname) + 1 = Len(body)  BY <5>1, <1>3, <1>4, CollectedLength, Zenon
        <5>3. Len(qname) >= QnameLimit  BY <4>3 DEF QnameFull
        <5> HIDE DEF body
        <5>4. QED  BY <5>2, <5>3, <1>4
      <4>4. QED  BY <2>6, <4>1, <4>2, <4>3
    <3>2. len \in Nat \ {0}  BY <2>2, <2>6
    <3>3. Refused'  BY <2>3, <3>1, <3>2, Zenon DEF Refused
    <3>4. QED  BY <2>6, <3>3 DEF DecodeInv
  <2>7. CASE /\ len # 0 /\ LengthLegal(len) /\ pc' = "copy"
             /\ IF label_depth > 0 THEN Store(Dot) ELSE UNCHANGED qname
             /\ UNCHANGED label_depth
    <3>1. /\ <<>> \in Seq(Bytes) /\ Len(<<>>) = 0 /\ <<len>> = <<len>> \o <<>>
          /\ <<Dot>> \in Seq(Chars) /\ <<Dot>> \o <<>> = <<Dot>>
      BY DEF Chars, Dot
    <3>2. Text(<<>>) = <<>>
      <4>1. Text(<<>>) \in Seq(Chars) /\ Len(Text(<<>>)) = 0  BY <3>1, LabelType, Zenon
      <4>2. QED  BY <4>1
    <3>3. question' = body \o (<<len>> \o <<>>)  BY <2>3, <3>1, Zenon
    <3>4. len \in 1 .. LabelMax /\ Len(labels) < LabelLimit /\ 0 <= len
      BY <2>2, <2>7, <1>1, <1>3, <1>4 DEF LengthLegal
    <3>5. cursor' + 0 = QuestionStart' + Len(question')  BY <2>1, <2>4, <1>4
    <3>6. <<Dot>> \o qname' = Dotted(labels) \o <<Dot>>
      <4>1. CASE label_depth > 0
        <5>1. labels # <<>>  BY <4>1, <1>3
        <5>2. <<Dot>> \o qname = Dotted(labels)  BY <5>1, <1>3, <1>4, CollectedLength, Zenon
        <5>3. qname' = Append(qname, Dot)  BY <4>1, <2>7 DEF Store
        <5>4. Dot \in Chars  BY DEF Chars, Dot
        <5>5. Append(<<Dot>> \o qname, Dot) = <<Dot>> \o Append(qname, Dot)
          <6> DEFINE s == <<Dot>>
          <6>1. s \in Seq(Chars) /\ qname \in Seq(Chars)  BY <3>1, <1>4, Zenon
          <6> HIDE DEF s
          <6>2. AppendsToSecond(s, qname, Dot)  BY <5>4, <6>1, AppendConcat, Zenon
          <6>3. QED  BY <6>2, Zenon DEF s, AppendsToSecond
        <5>6. Dotted(labels) \in Seq(Chars)  BY <1>6, BodyLength, Zenon
        <5>7. Append(Dotted(labels), Dot) = Dotted(labels) \o <<Dot>>
          BY <5>4, <5>6, AppendLast, Zenon
        <5>8. QED  BY <5>2, <5>3, <5>5, <5>7, Zenon
      <4>2. CASE ~(label_depth > 0)
        <5>1. labels = <<>>  BY <4>2, <1>3, <1>6
        <5>2. qname' = <<>> /\ Dotted(labels) = <<>>
          BY <5>1, <4>2, <2>7, <1>3, NoLabel, Zenon DEF Collects
        <5>3. <<>> \o <<Dot>> = <<Dot>>  BY <3>1
        <5>4. QED  BY <5>2, <5>3, <3>1, Zenon
      <4>3. QED  BY <4>1, <4>2
    <3>7. <<Dot>> \o qname' = Dotted(labels) \o (<<Dot>> \o Text(<<>>))
      BY <3>1, <3>2, <3>6, Zenon
    <3>8. lbl_len' = len /\ j' = 0 /\ label_depth' = Len(labels)  BY <2>1, <2>7, <1>3
    <3>9. InLabel(labels, <<>>)'
      BY <3>1, <3>3, <3>4, <3>5, <3>7, <3>8, Zenon DEF InLabel
    <3>10. (\E l \in Labels, w \in Seq(Bytes) : InLabel(l, w))'  BY <3>1, <3>9, Zenon
    <3>11. QED  BY <2>7, <3>10 DEF DecodeInv
  <2>8. QED  BY <2>1, <2>5, <2>6, <2>7, Zenon
<1>9. QED  BY <1>4, <1>7, <1>8

(* A byte of a label that is stored, or finds the name full. *)
LEMMA CopyDecode == ASSUME ParseInv, DecodeInv, CopyByte PROVE DecodeInv'
<1>1. PICK b \in Bytes :
        /\ question' = Append(question, b)
        /\ \/ QnameFull /\ pc' = "rejected"
           \/ Store(ToLower(CharOf(b))) /\ j' = j + 1 /\ UNCHANGED <<pc, label_depth>>
  BY DEF CopyByte, Reject
<1>2. pc = "copy" /\ j < lbl_len /\ UNCHANGED <<udp, dns_end, cursor, lbl_len>>
  BY DEF CopyByte, frame
<1>3. PICK labels \in Labels, w \in Seq(Bytes) : InLabel(labels, w)  BY <1>2 DEF DecodeInv
<1> DEFINE body == Body(labels)
           text == Dotted(labels)
           more == Append(w, b)
           c == ToLower(CharOf(b))
<1>4. /\ question = body \o (<<lbl_len>> \o w)
      /\ lbl_len \in 1 .. LabelMax /\ Len(w) = j
      /\ label_depth = Len(labels) /\ Len(labels) < LabelLimit
      /\ cursor + j = QuestionStart + Len(question)
      /\ <<Dot>> \o qname = text \o (<<Dot>> \o Text(w))
  BY <1>3, Zenon DEF InLabel
<1>5. /\ cursor \in Nat /\ j \in Nat /\ QuestionStart \in Nat
      /\ Len(question) \in Nat /\ Len(qname) \in Nat
      /\ qname \in Seq(Chars) /\ question \in Seq(Nat)
      /\ LabelMax \in Nat /\ QnameLimit \in Nat
  BY QuestionState, Zenon
<1>6. QuestionStart' = QuestionStart  BY <1>2 DEF QuestionStart
<1>7. /\ body \in Seq(Nat) /\ text \in Seq(Chars) /\ Len(text) = Len(body) /\ Len(body) \in Nat
  <2>1. labels \in Seq(Seq(Bytes))  BY Zenon DEF Labels
  <2>2. QED  BY <2>1, BodyLength, EncodeType, Zenon
<1>8. b \in Nat /\ w \in Seq(Nat) /\ lbl_len \in Nat /\ <<lbl_len>> \in Seq(Nat) /\ j + 1 <= lbl_len
  <2>1. Bytes \subseteq Nat  BY ParserAssumption
  <2>2. b \in Nat /\ lbl_len \in Nat  BY <2>1, <1>4, <1>5
  <2>3. w \in Seq(Nat)  BY <2>1, SeqMonotonic, Zenon
  <2>4. <<lbl_len>> \in Seq(Nat) /\ j + 1 <= lbl_len  BY <2>2, <1>2, <1>5
  <2>5. QED  BY <2>2, <2>3, <2>4
<1>9. more \in Seq(Bytes) /\ Len(more) = j + 1  BY <1>4
<1> HIDE DEF body, text
<1>10. question' = body \o (<<lbl_len>> \o more) /\ Len(question') = Len(question) + 1
  <2> DEFINE s == <<lbl_len>>
  <2> HIDE DEF s
  <2>0. \A u, v \in Seq(Nat), e \in Nat : Append(u \o v, e) = u \o Append(v, e)
    <3>1. \A u, v \in Seq(Nat), e \in Nat : AppendsToSecond(u, v, e)  BY AppendConcat, Zenon
    <3>2. QED  BY <3>1, Zenon DEF AppendsToSecond
  <2>1. s \in Seq(Nat)  BY <1>8 DEF s
  <2>2. s \o w \in Seq(Nat)  BY <2>1, <1>8, ConcatType, Zenon
  <2>3. Append(s \o w, b) = s \o Append(w, b)  BY <2>0, <2>1, <1>8, Zenon
  <2>4. Append(body \o (s \o w), b) = body \o Append(s \o w, b)
    BY <2>0, <2>2, <1>7, <1>8, Zenon
  <2>5. question' = Append(body \o (s \o w), b)  BY <1>1, <1>4, Zenon DEF s
  <2>6. question' = body \o (s \o more)  BY <2>3, <2>4, <2>5, Zenon
  <2>7. Len(question') = Len(question) + 1  BY <1>1, <1>5, <1>8
  <2>8. QED  BY <2>6, <2>7, Zenon DEF s
<1>11. CASE QnameFull /\ pc' = "rejected"
  <2>1. Len(qname) + 1 = Len(body) + (1 + j)
    <3>1. /\ <<Dot>> \o Text(w) \in Seq(Chars) /\ Len(<<Dot>> \o Text(w)) = 1 + Len(w)
      BY LabelType, Zenon
    <3>2. <<Dot>> \in Seq(Chars) /\ Len(<<Dot>>) = 1  BY DEF Chars, Dot
    <3>3. Len(<<Dot>> \o qname) = 1 + Len(qname)
      <4>1. Len(<<Dot>> \o qname) = Len(<<Dot>>) + Len(qname)  BY <3>2, <1>5, ConcatType, Zenon
      <4>2. QED  BY <4>1, <3>2, Zenon
    <3>4. Len(text \o (<<Dot>> \o Text(w))) = Len(text) + Len(<<Dot>> \o Text(w))
      BY <3>1, <1>7, ConcatType, Zenon
    <3>5. 1 + Len(qname) = Len(body) + (1 + j)  BY <3>1, <3>3, <3>4, <1>4, <1>7, Zenon
    <3>6. QED  BY <3>5, <1>5
  <2>2. Len(qname) >= QnameLimit  BY <1>11 DEF QnameFull
  <2>3. Len(body) + Len(more) > QnameLimit /\ Len(more) <= lbl_len
    <3> HIDE DEF more
    <3>1. QED  BY <2>1, <2>2, <1>5, <1>7, <1>8, <1>9
  <2>4. Refused'
    BY <2>3, <1>4, <1>9, <1>10, Zenon DEF Refused, body
  <2>5. QED  BY <1>11, <2>4 DEF DecodeInv
<1>12. CASE Store(c) /\ j' = j + 1 /\ UNCHANGED <<pc, label_depth>>
  <2>1. c \in Chars  BY LowerIsChar, Zenon
  <2>2. Text(more) = Append(Text(w), c)
    <3>1. Text(w) \in Seq(Chars) /\ Len(Text(w)) = j /\ Text(more) \in Seq(Chars) /\ Len(Text(more)) = j + 1
      BY <1>4, <1>9, LabelType, Zenon
    <3>2. /\ DOMAIN w = 1 .. j /\ DOMAIN more = 1 .. j + 1
          /\ \A n \in 1 .. j : more[n] = w[n] /\ n \in 1 .. j + 1
          /\ more[j + 1] = b /\ j + 1 \in 1 .. j + 1
      BY <1>4, <1>5
    <3> HIDE DEF more
    <3>3. /\ \A n \in 1 .. j : Text(more)[n] = Text(w)[n]
          /\ Text(more)[j + 1] = c
      BY <3>2, Zenon DEF Text
    <3> DEFINE s == Text(w)
               u == Text(more)
    <3>4. /\ s \in Seq(Chars) /\ u \in Seq(Chars) /\ j \in Nat
          /\ Len(s) = j /\ Len(u) = j + 1
          /\ \A n \in 1 .. j : u[n] = s[n]
          /\ u[j + 1] = c
      BY <3>1, <3>3, <1>5, Zenon
    <3> HIDE DEF s, u, c
    <3>5. u = Append(s, c)  BY <3>4, <2>1, AppendByElements
    <3>6. QED  BY <3>5, Zenon DEF s, u
  <2>3. qname' = Append(qname, c)  BY <1>12 DEF Store
  <2> HIDE DEF c, more
  <2>4. <<Dot>> \o qname' = text \o (<<Dot>> \o Text(more))
    <3> DEFINE s == <<Dot>>
    <3>0. \A u, v \in Seq(Chars), e \in Chars : Append(u \o v, e) = u \o Append(v, e)
      <4>1. \A u, v \in Seq(Chars), e \in Chars : AppendsToSecond(u, v, e)
        BY AppendConcat, Zenon
      <4>2. QED  BY <4>1, Zenon DEF AppendsToSecond
    <3>1. s \in Seq(Chars)  BY DEF Chars, Dot
    <3>2. Text(w) \in Seq(Chars)  BY LabelType, Zenon
    <3> HIDE DEF s
    <3>3. s \o Text(w) \in Seq(Chars)  BY <3>1, <3>2, ConcatType, Zenon
    <3>4. Append(s \o qname, c) = s \o Append(qname, c)  BY <3>0, <3>1, <2>1, <1>5, Zenon
    <3>5. Append(s \o Text(w), c) = s \o Append(Text(w), c)  BY <3>0, <3>1, <3>2, <2>1, Zenon
    <3>6. Append(text \o (s \o Text(w)), c) = text \o Append(s \o Text(w), c)
      BY <3>0, <3>3, <2>1, <1>7, Zenon
    <3>7. s \o qname = text \o (s \o Text(w))  BY <1>4, Zenon DEF s
    <3>8. s \o qname' = text \o (s \o Text(more))
      BY <2>2, <2>3, <3>4, <3>5, <3>6, <3>7, Zenon
    <3>9. QED  BY <3>8, Zenon DEF s
  <2>5. cursor' + j' = QuestionStart' + Len(question')
    <3>1. /\ cursor' = cursor /\ j' = j + 1 /\ QuestionStart' = QuestionStart
          /\ Len(question') = Len(question) + 1
      BY <1>2, <1>6, <1>10, <1>12, Zenon
    <3>2. (cursor + j) + 1 = (QuestionStart + Len(question)) + 1  BY <1>4, Zenon
    <3>3. QED  BY <3>1, <3>2, <1>5
  <2>6. lbl_len' = lbl_len /\ j' = j + 1 /\ label_depth' = label_depth /\ pc' = "copy"
    BY <1>2, <1>12
  <2>7. InLabel(labels, more)'
    BY <2>4, <2>5, <2>6, <1>4, <1>8, <1>9, <1>10, Zenon DEF InLabel, body, text
  <2>8. (\E l \in Labels, u \in Seq(Bytes) : InLabel(l, u))'  BY <1>9, <2>7, Zenon
  <2>9. QED  BY <2>6, <2>8 DEF DecodeInv
<1>13. QED  BY <1>1, <1>11, <1>12

(* A label that is copied joins the others. *)
LEMMA EndLabelDecode == ASSUME ParseInv, DecodeInv, EndLabel PROVE DecodeInv'
<1>1. /\ pc = "copy" /\ pc' = "label"
      /\ j >= lbl_len \/ j >= LabelMax
      /\ cursor' = cursor + lbl_len /\ label_depth' = label_depth + 1
      /\ UNCHANGED <<udp, qname, question>>
  BY DEF EndLabel, frame
<1>2. PICK labels \in Labels, w \in Seq(Bytes) : InLabel(labels, w)  BY <1>1 DEF DecodeInv
<1> DEFINE more == Append(labels, w)
<1>3. /\ question = Body(labels) \o (<<lbl_len>> \o w)
      /\ lbl_len \in 1 .. LabelMax /\ Len(w) = j /\ j <= lbl_len
      /\ label_depth = Len(labels)
      /\ cursor + j = QuestionStart + Len(question)
      /\ <<Dot>> \o qname = Dotted(labels) \o (<<Dot>> \o Text(w))
  BY <1>2, Zenon DEF InLabel
<1>4. j \in Nat /\ LabelMax \in Nat /\ qname \in Seq(Chars)  BY QuestionState, Zenon
<1>5. j = lbl_len /\ Len(w) = lbl_len  BY <1>1, <1>3, <1>4
<1>6. labels \in Seq(Seq(Bytes)) /\ \A k \in 1 .. Len(labels) : Len(labels[k]) \in 1 .. LabelMax
  BY Zenon DEF Labels
<1>7. more \in Labels /\ Len(more) = Len(labels) + 1
  <2>1. /\ more \in Seq(Seq(Bytes)) /\ Len(more) = Len(labels) + 1 /\ Len(labels) \in Nat
        /\ \A k \in 1 .. Len(labels) : more[k] = labels[k]
        /\ more[Len(labels) + 1] = w
    BY <1>6
  <2> HIDE DEF more
  <2>2. ASSUME NEW k \in 1 .. Len(more) PROVE Len(more[k]) \in 1 .. LabelMax
    <3>1. k \in 1 .. Len(labels) \/ k = Len(labels) + 1  BY <2>1
    <3>2. QED  BY <3>1, <2>1, <1>3, <1>5, <1>6, Zenon
  <2>3. QED  BY <2>1, <2>2, Zenon DEF Labels
<1>8. /\ Body(more) = Body(labels) \o (<<Len(w)>> \o w)
      /\ Dotted(more) = Dotted(labels) \o (<<Dot>> \o Text(w))
  BY <1>6, BodyAppend, Zenon
<1> HIDE DEF more
<1>9. question' = Body(more)  BY <1>1, <1>3, <1>5, <1>8, Zenon
<1>10. <<Dot>> \o qname' = Dotted(more)  BY <1>1, <1>3, <1>8, Zenon
<1>11. Dotted(more) # <<>>
  <2>1. <<Dot>> \in Seq(Chars)  BY DEF Chars, Dot
  <2>2. <<Dot>> \o qname # <<>>  BY <2>1, <1>4
  <2>3. QED  BY <2>2, <1>3, <1>8, Zenon
<1>12. cursor' = QuestionStart' + Len(question')
  <2>1. QuestionStart' = QuestionStart  BY <1>1 DEF QuestionStart
  <2>2. QED  BY <2>1, <1>1, <1>3, <1>5, Zenon
<1>13. label_depth' = Len(more)  BY <1>1, <1>3, <1>7, Zenon
<1>14. AtLabel(more)'  BY <1>9, <1>10, <1>11, <1>12, <1>13, Zenon DEF AtLabel, Collects
<1>15. (\E l \in Labels : AtLabel(l))'  BY <1>7, <1>14, Zenon
<1>16. QED  BY <1>1, <1>15 DEF DecodeInv

(* Behind the root label the question is accepted or refused. *)
LEMMA EndDecode == ASSUME ParseInv, DecodeInv, ReadTypeClass PROVE DecodeInv'
<1>1. /\ pc = "end"
      /\ \/ (qname = <<>> \/ cursor + 4 > dns_end) /\ pc' = "rejected"
         \/ qname # <<>> /\ ~(cursor + 4 > dns_end) /\ pc' = "accepted"
      /\ UNCHANGED <<udp, dns_end, cursor, label_depth, qname, question>>
  BY DEF ReadTypeClass, Reject, frame, meta
<1>2. PICK labels \in Labels : AtEnd(labels)  BY <1>1 DEF DecodeInv
<1>3. /\ question = Encode(labels) /\ cursor = QuestionStart + Len(question)
      /\ Collects(qname, Dotted(labels))
  BY <1>2, Zenon DEF AtEnd
<1>4. qname \in Seq(Chars) /\ dns_end \in Nat /\ cursor \in Nat  BY QuestionState, Zenon
<1>5. QuestionStart' = QuestionStart  BY <1>1 DEF QuestionStart
<1>6. CASE (qname = <<>> \/ cursor + 4 > dns_end) /\ pc' = "rejected"
  <2>1. question' = Encode(labels)  BY <1>1, <1>3, Zenon
  <2>2. labels = <<>> \/ QuestionStart' + Len(question') + 4 > dns_end'
    <3>1. CASE qname = <<>>  BY <3>1, <1>3, <1>4, CollectedLength, Zenon
    <3>2. CASE cursor + 4 > dns_end  BY <3>2, <1>1, <1>3, <1>5, Zenon
    <3>3. QED  BY <1>6, <3>1, <3>2
  <2>3. Refused'  BY <2>1, <2>2, Zenon DEF Refused
  <2>4. QED  BY <1>6, <2>3 DEF DecodeInv
<1>7. CASE qname # <<>> /\ ~(cursor + 4 > dns_end) /\ pc' = "accepted"
  <2>1. AtEnd(labels)'  BY <1>1, <1>2, <1>5, Zenon DEF AtEnd
  <2>2. (\E l \in Labels : AtEnd(l))'  BY <2>1, Zenon
  <2>3. qname' # <<>> /\ cursor' + 4 <= dns_end'  BY <1>1, <1>4, <1>7
  <2>4. QED  BY <1>7, <2>2, <2>3 DEF DecodeInv
<1>8. QED  BY <1>1, <1>6, <1>7

(* Every step keeps what the parser has decoded. *)
LEMMA StepDecode == ParseInv /\ DecodeInv /\ [Next]_vars => DecodeInv'
<1> SUFFICES ASSUME ParseInv, DecodeInv, [Next]_vars PROVE DecodeInv'  OBVIOUS
<1>1. CASE UNCHANGED vars
  <2>1. UNCHANGED <<pc, dns_end, cursor, lbl_len, j, label_depth, qname, question, QuestionStart>>
    BY <1>1 DEF vars, QuestionStart
  <2>2. \A l \in Labels : AtLabel(l) => AtLabel(l)'  BY <2>1, Zenon DEF AtLabel
  <2>3. \A l \in Labels, w \in Seq(Bytes) : InLabel(l, w) => InLabel(l, w)'
    BY <2>1, Zenon DEF InLabel
  <2>4. \A l \in Labels : AtEnd(l) => AtEnd(l)'  BY <2>1, Zenon DEF AtEnd
  <2>5. Refused => Refused'
    <3>1. QuestionStart' = QuestionStart /\ question' = question /\ dns_end' = dns_end
      BY <2>1
    <3>2. QED  BY <3>1 DEF Refused
  <2>6. QED  BY <2>1, <2>2, <2>3, <2>4, <2>5 DEF DecodeInv
<1>2. QED
  BY <1>1, HeaderDecode, LengthDecode, TooManyDecode, CopyDecode, EndLabelDecode, EndDecode
     DEF Next

(* The decoding invariant holds in every state of every run. *)
LEMMA DecodeInvHolds == Spec => [](ParseInv /\ DecodeInv)
<1>1. Init => DecodeInv  BY DEF Init, DecodeInv
<1>2. QED  BY <1>1, InitParse, StepParse, StepDecode, PTL DEF Spec

(* An accepted question is the encoding of a list of labels, and the byte  *)
(* loop of parse_dns_query has collected exactly its name, for questions,  *)
(* labels and names of every length.                                       *)
THEOREM AcceptedQuestionsAreDecoded == Spec => []AcceptedIsDecoded
<1>1. ParseInv /\ DecodeInv => AcceptedIsDecoded  BY AcceptedHasName
<1>2. QED  BY <1>1, DecodeInvHolds, PTL

(* parse_dns_query refuses a question only when no acceptable name starts  *)
(* with the bytes it has read: none of its checks is too strict.           *)
THEOREM RefusedQuestionsAreMalformed == Spec => []RefusedIsMalformed
<1>1. ParseInv /\ DecodeInv => RefusedIsMalformed
  BY RefusedHasNoName, Zenon DEF DecodeInv, RefusedIsMalformed
<1>2. QED  BY <1>1, DecodeInvHolds, PTL
=============================================================================
