----------------------------- MODULE DomainHash -----------------------------
(***************************************************************************)
(* The hash of a name, computed twice: control/hash.c hashes a configured  *)
(* domain into a case label of the generated switch, and the data plane    *)
(* hashes the name of a query to find that label.  The two planes have     *)
(* separate code for either algorithm.                                     *)
(*                                                                         *)
(* The mixing arithmetic is the same text on both sides and is left        *)
(* abstract: an FNV-1a step is an operator, and a SipHash value is what    *)
(* was absorbed to get it (the full words in order, the rest, the length). *)
(***************************************************************************)
EXTENDS QnameMatch

CONSTANTS
  HashStep(_, _),  \* one step of FNV-1a: hash and character to hash
  HashBasis,       \* the FNV offset basis
  SipWord,         \* bytes absorbed at a time (8 in the code)
  SipBlocks        \* iterations of the data plane's block loop (31)

(* The block loop is long enough for the longest name (255 < 32 * 8). *)
ASSUME HashAssumption ==
  /\ SipWord \in Nat \ {0} /\ SipBlocks \in Nat
  /\ QnameLimit < (SipBlocks + 1) * SipWord

Algorithms == {"fnv1a", "siphash"}

(* fnv1a64_bytes. *)
FnvBytes(data) ==
  LET hash[k \in 0 .. Len(data)] == IF k = 0 THEN HashBasis ELSE HashStep(hash[k - 1], data[k])
  IN  hash[Len(data)]

SipWords(data, n) == [k \in 1 .. n |-> SubSeq(data, (k - 1) * SipWord + 1, k * SipWord)]

SipRest(data) == SubSeq(data, (Len(data) \div SipWord) * SipWord + 1, Len(data))

(* siphash24_bytes: every full word, then the rest with the length. *)
SipBytes(data) ==
  [words |-> SipWords(data, Len(data) \div SipWord), rest |-> SipRest(data), len |-> Len(data)]

(* siphash24_qname: the same with a bounded loop, for the verifier. *)
SipQname(qname) ==
  LET full == Len(qname) \div SipWord
  IN  [words |-> SipWords(qname, IF full < SipBlocks THEN full ELSE SipBlocks),
       rest |-> SipRest(qname), len |-> Len(qname)]

(* Variant: the domain is hashed as it is written. *)
HashDomainRaw(domain, algo) ==
  IF algo = "siphash" THEN SipBytes(domain) ELSE FnvBytes(domain)

(* hash_domain; an empty name has the hash 0. *)
HashDomain(domain, algo) ==
  LET name == Normalize(domain)
  IN  IF name = <<>> THEN 0
      ELSE IF algo = "siphash" THEN SipBytes(name) ELSE FnvBytes(name)

(* route_hash: SipHash is computed from the collected name, FNV-1a has     *)
(* been computed by the parser on the way.                                 *)
RouteHash(qname, qnameHash, algo) ==
  IF algo = "siphash" THEN SipQname(qname) ELSE qnameHash
=============================================================================
