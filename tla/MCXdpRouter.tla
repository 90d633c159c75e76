---------------------------- MODULE MCXdpRouter ----------------------------
(* Small instances of XdpRouter. *)
EXTENDS XdpRouter, SequencesExt, TLC

Symmetry == Permutations(Cpus)

(* An injective hash of names over "a", "b", "c", "." and "A"; 0 only for no name. *)
Digit == [x \in {"a", "b", "c", ".", "A"} |->
            CASE x = "a" -> 1 [] x = "b" -> 2 [] x = "c" -> 3 [] x = "." -> 4 [] x = "A" -> 5]

MCRouteHash(name) ==
  LET h[n \in 0 .. Len(name)] == IF n = 0 THEN 0 ELSE 6 * h[n - 1] + Digit[name[n]]
  IN  h[Len(name)]

MCMix(hash, k, b) == 7 * (hash % 1000) + 13 * k * k + 31 * b

(* The DNS id of a packet is the bucket for which it is a proof of work. *)
MCLeadingZeros(hash, id, b) == IF id = b THEN 2 ELSE 0

AnyRoute(domain, target, index) ==
  [domain |-> domain, prefix |-> <<>>, suffix |-> <<>>, minLabels |-> 1, maxLabels |-> 127,
   minLen |-> 1, maxLen |-> 255, types |-> {"A"}, qps |-> 0, difficulty |-> 0, powWindow |-> 0,
   bloom |-> FALSE, bloomSize |-> 0, bloomHashes |-> 0, bloomWindow |-> 0, seeds |-> {},
   target |-> target, index |-> index]

Config(default, routes) ==
  [maxSize |-> 1, blacklist |-> {"bad"}, opcodes |-> {0}, dropTruncated |-> TRUE,
   default |-> default, routes |-> routes]

Query(labels) ==
  [udp |-> TRUE, port |-> 53, query |-> TRUE, src |-> "good", size |-> 1, opcode |-> 0,
   tc |-> FALSE, id |-> 0, qtype |-> "A", labels |-> labels]

a == <<"a">>
b == <<"b">>
c == <<"c">>

(* Rate limiting across a swap to a smaller budget. *)
RateLoaded ==
  << Config("DROP", << [AnyRoute(a, "user_space", 3) EXCEPT !.qps = 2] >>),
     Config("PASS", << [AnyRoute(a, "xdp_prog", 1) EXCEPT !.qps = 1] >>) >>

RatePackets == { Query(<<a>>) }

(* Names of up to four labels, and every reason to refuse a packet early. *)
NameLoaded ==
  << Config("PASS", << [AnyRoute(b, "kernel_space", 1) EXCEPT
                          !.prefix = a, !.suffix = <<"a", ".", "b">>, !.qps = 1],
                       AnyRoute(<<"a", ".", "b">>, "kernel_space", 2),
                       [AnyRoute(<<"b", ".", "a">>, "kernel_space", 3) EXCEPT
                          !.prefix = a, !.maxLabels = 2],
                       AnyRoute(<<"a", ".", "b", ".", "a">>, "kernel_space", 4) >>) >>

Ab == <<"A", "b">>

NamePackets ==
  {Query(labels) : labels \in SeqOf({a, b}, 2) \cup {<<x, y, b>> : x, y \in {a, b}}
     \cup {<<Ab>>, <<Ab, a, b>>, <<b, Ab>>, <<a, b, a>>, <<b, b, a>>, <<a, a, a, b>>}}
    \cup {[Query(<<a, a, b>>) EXCEPT !.qtype = "MX"], [Query(<<a, b>>) EXCEPT !.src = "bad"],
          [Query(<<a, b>>) EXCEPT !.size = 2], [Query(<<a, b>>) EXCEPT !.opcode = 4],
          [Query(<<a, b>>) EXCEPT !.tc = TRUE], [Query(<<a, b>>) EXCEPT !.port = 99]}

(* Tokens and Bloom seeds, beside the routes and packets above; one seed   *)
(* is written with a capital and a final dot.                              *)
BloomRoute(domain, window, seeds) ==
  [AnyRoute(domain, "kernel_space", 1) EXCEPT
     !.bloom = TRUE, !.bloomSize = 64, !.bloomHashes = 2, !.bloomWindow = window, !.seeds = seeds]

QueryLoaded ==
  << [NameLoaded[1] EXCEPT !.routes = @ \o
        << [BloomRoute(c, 0, {c, <<".">>}) EXCEPT !.difficulty = 2, !.powWindow = 2],
           BloomRoute(<<"c", ".", "a">>, 0, {<<"c", ".", "A", ".">>, <<"b", ".", "c", ".", "a">>}) >>] >>

QueryPackets ==
  NamePackets \cup {[Query(<<c>>) EXCEPT !.id = n] : n \in 0 .. 2}
    \cup {Query(<<c, a>>), Query(<<b, c, a>>), Query(<<a, c, a>>)}

(* A filter whose seeds expire. *)
WindowLoaded == << Config("DROP", << BloomRoute(a, 2, {a}) >>) >>
=============================================================================
