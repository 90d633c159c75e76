---------------------------- MODULE MCDnsParser ----------------------------
(* Bytes that are lengths, letters and a dot at once, as in a real frame;  *)
(* headers of one byte.                                                    *)
EXTENDS DnsParser

MCCharOf(b) == <<"0", "a", ".", "A", "b">>[b + 1]

MCHashStep(h, c) ==
  (h * 7 + (CHOOSE k \in 1 .. 5 : <<"0", "a", ".", "A", "b">>[k] = c)) % 1009
=============================================================================
