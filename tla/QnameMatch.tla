----------------------------- MODULE QnameMatch -----------------------------
(***************************************************************************)
(* Domain names, and what the two planes make of them.  control/hash.c     *)
(* normalises a configured domain before it hashes it; xdp/dns_parser.h    *)
(* turns the labels of a question into a lower-case query name; the        *)
(* compare loops of xdp/xdp_template.c match query names against the byte  *)
(* strings that control/codegen.c copies from the configuration as they    *)
(* are.                                                                    *)
(*                                                                         *)
(* A name is a sequence of characters.  "A" stands for the upper-case      *)
(* letters and "a" for its lower case.                                     *)
(***************************************************************************)
EXTENDS Naturals, Sequences

CONSTANTS
  PatternLimit,  \* iterations of the compare loops (128 in the code)
  LabelLimit,    \* iterations of the label loop, the root included (32)
  QnameLimit     \* ZEREH_DNS_MAX_QNAME (255)

ASSUME LimitsAssumption == {PatternLimit, LabelLimit, QnameLimit} \subseteq Nat

Dot == "."

ToLower(c) == IF c = "A" THEN "a" ELSE c

LowerCase(name) == [k \in DOMAIN name |-> ToLower(name[k])]

(* normalize_domain: lower case, without one final dot. *)
Normalize(domain) ==
  LET len == Len(domain)
  IN  LowerCase(IF domain # <<>> /\ domain[len] = Dot THEN SubSeq(domain, 1, len - 1) ELSE domain)

(* The parts one behind the other, as the label loop stores them. *)
Join(parts) ==
  LET joined[k \in 0 .. Len(parts)] == IF k = 0 THEN <<>> ELSE joined[k - 1] \o parts[k]
  IN  joined[Len(parts)]

(* The name parse_dns_query collects from the labels of the question. *)
Qname(labels) == Tail(Join([k \in DOMAIN labels |-> <<Dot>> \o LowerCase(labels[k])]))

(* The loop must meet the root label, and a name with no character is      *)
(* refused.                                                                *)
NameParses(labels) ==
  /\ labels # <<>>
  /\ Len(labels) < LabelLimit
  /\ Len(Qname(labels)) \in 1 .. QnameLimit

StartsWith(name, pattern) ==
  Len(pattern) <= Len(name) /\ \A k \in DOMAIN pattern : name[k] = pattern[k]

EndsWith(name, pattern) ==
  /\ Len(pattern) <= Len(name)
  /\ \A k \in DOMAIN pattern : name[Len(name) - Len(pattern) + k] = pattern[k]

(* The compare loops answer TRUE only when they see the end of the pattern *)
(* within their iterations.                                                *)
MatchPrefix(qname, pattern) ==
  pattern = <<>> \/ (Len(pattern) < PatternLimit /\ StartsWith(qname, pattern))

(* Variant: one iteration fewer. *)
MatchSuffixShort(qname, pattern) ==
  pattern = <<>> \/ (Len(pattern) < PatternLimit - 1 /\ EndsWith(qname, pattern))

MatchSuffix(qname, pattern) ==
  pattern = <<>> \/ (Len(pattern) < PatternLimit /\ EndsWith(qname, pattern))

(* What DNS calls a subdomain: at least one more label in front. *)
IsSubdomain(name, domain) == EndsWith(name, <<Dot>> \o domain)
=============================================================================
