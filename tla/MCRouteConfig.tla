--------------------------- MODULE MCRouteConfig ---------------------------
(***************************************************************************)
(* Documents in which related keys appear in all combinations, with values *)
(* on both sides of each limit.                                            *)
(***************************************************************************)
EXTENDS RouteConfig, TLC, SequencesExt

MCLimit == [f \in {"domain", "prog_name", "prefix", "suffix", "cidr", "interface", "path"} |-> 2]

MCAppName(x) == <<"app", ToString(x)>>

MCAppDefault == <<"app", "default">>

MCPrograms == {<<"app", "1">>, <<"app", "geo">>, MCAppDefault}

(* The mappings that extend "base" by some of the keys. *)
Extended(base, choices) ==
  FoldLeft(LAMBDA nodes, c : nodes \cup {node @@ (c[1] :> v) : node \in nodes, v \in c[2]},
           {base}, choices)

Plain == [domain |-> <<"d">>, target_type |-> "user_space"]

Tail1 == [domain |-> <<"t">>, target |-> "xdp_prog"]

LabelRoutes ==
  Extended(Plain, << <<"min_labels", {0, 3, 128}>>, <<"max_labels", {3, 127}>>,
                     <<"qname_rules.min_labels", {1, 4, 256}>>,
                     <<"qname_rules.max_labels", {0, 4, 128}>> >>)

LengthRoutes ==
  Extended(Plain, << <<"qname_min_len", {0, 5}>>, <<"min_length", {4, 65536}>>,
                     <<"max_length", {5, 256}>>, <<"qname_max_len", {255}>>,
                     <<"qname_rules.min_length", {6}>>, <<"qname_rules.max_length", {5, 9}>> >>)

PowRoutes ==
  Extended(Plain, << <<"pow_difficulty", {63, 64}>>, <<"pow.enabled", {"on", "no", "maybe"}>>,
                     <<"pow.difficulty", {0, 64, 256}>>, <<"pow.time_window", {60, 65536}>>,
                     <<"rate_limit.qps", {0, -1}>> >>)

TypeRoutes ==
  Extended(Plain, << <<"allow_types", {{"A"}, {}}>>, <<"dns_types", {0}>>,
                     <<"dns_types.allow", {{"TXT", "ANY"}, {"MX"}}>>,
                     <<"dns_types.deny", {{"A"}, {"ANY"}, {"TXT", "ANY"}}>>, <<"filters", {0}>> >>)

BloomRoutes ==
  Extended(Plain, << <<"bloom_filter.enabled", {"true", "off"}>>,
                     <<"bloom_filter.size", {0, 63, 64, 65536, 65537}>>,
                     <<"bloom_filter.hash_functions", {0, 8, 9}>>,
                     <<"bloom_filter.allow_qnames", {<<>>, <<<<"q">>>>, <<<<"q">>, <<>>>>}>>,
                     <<"bloom_filter.seeds", {<<<<"q">>, <<"a", "b", "c">>, <<"r">>>>}>> >>)

NameRoutes ==
  Extended([domain |-> <<"a", "b", "c">>], << <<"target", {"kernel_space", "nowhere"}>>,
             <<"target_type", {"xdp_prog"}>>, <<"forward_port", {53}>>, <<"kernel_port", {70000}>>,
             <<"xsk_map_index", {1}>>, <<"xsk_queue", {-1}>>, <<"prefix", {<<"p">>}>>,
             <<"qname_rules.prefix_match", {<<"q", "r", "s">>}>> >>)

(* The name of a tail program and its alternative, hidden even when the    *)
(* name is empty.                                                          *)
AliasRoutes ==
  Extended(Tail1, << <<"prog_name", {<<>>, <<"app", "geo">>}>>,
                     <<"xdp_prog_name", {<<"app", "1">>, <<"app", "lost">>}>>,
                     <<"prog_index", {1, 2}>> >>)

(* One route of any of these kinds. *)
OneRoute ==
  [root : {<<>>}, routes : {<<r>> : r \in LabelRoutes \cup LengthRoutes \cup PowRoutes \cup
                                           TypeRoutes \cup BloomRoutes \cup NameRoutes \cup
                                           AliasRoutes}]

(* Several tail calls, which may share an index. *)
TailRoute ==
  Extended(Tail1, << <<"prog_array_index", {1, 3, 4}>>,
                     <<"prog_name", {<<"app", "geo">>, <<"app", "lost">>}>> >>)

TailDocuments ==
  [root : {<<>>}, routes : UNION {[1 .. m -> TailRoute \cup {Plain}] : m \in 2 .. 3}]

(* Options of the configuration, with too many routes and with none. *)
Root1 ==
  Extended(<<>>, << <<"global.interface", {<<"eth1", "x", "y">>}>>, <<"interface", {<<"eth2">>}>>,
                   <<"global.xdp_mode", {"hw", "fast"}>>, <<"xdp_mode", {"generic"}>>,
                   <<"codegen_options.hash_algorithm", {"siphash-2-4", "fnv-1a", "md5"}>>,
                   <<"default_kernel_port", {5353, 65536}>> >>)

Root2 ==
  Extended(<<>>, << <<"global_filters.ip_blacklist", {<<<<"c">>>>, <<<<"c">>, <<>>>>}>>,
                   <<"blacklist", {<<>>, <<<<"c">>, <<"d">>, <<"e">>>>}>>,
                   <<"global_filters.allowed_opcodes", {{}, {16}}>>, <<"allowed_opcodes", {{4, 5}}>>,
                   <<"max_packet_size", {512}>>, <<"drop_truncated", {"yes"}>>,
                   <<"default_action", {"drop", "reject"}>>, <<"template_path", {<<"t">>}>> >>)

RootDocuments ==
  [root : Root1, routes : {<<Plain, Tail1>>, [x \in 1 .. 4 |-> Plain]}]
    \cup [root : Root2, routes : {<<Plain>>, <<>>}]

MCDocuments == OneRoute \cup TailDocuments \cup RootDocuments
=============================================================================
