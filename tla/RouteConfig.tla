---------------------------- MODULE RouteConfig ----------------------------
(***************************************************************************)
(* control/yaml_parser.c and config.c: from a YAML document to struct      *)
(* zereh_config; and zereh_seed_prog_array of control/loader.c, which      *)
(* turns the routes of a configuration into the tail call table.           *)
(*                                                                         *)
(* A mapping of the document is a function from the keys it has, written   *)
(* as paths below the route or the root, to their values.  A number is what*)
(* strtoul makes of the text, or -1 where zereh_parse_u32 refuses it; a    *)
(* list of record types or opcodes is a set; a text is a sequence of       *)
(* pieces, cut where snprintf cuts it; names of enumerations are in lower  *)
(* case.  A section or text that has the wrong kind of node is ignored by  *)
(* the code and so is like an absent one, with two exceptions: "filters"   *)
(* and "dns_types" are keys only when their node is no mapping, and a      *)
(* "prog_name" that is no scalar is an empty text, for it is ignored and   *)
(* yet hides its alternative "xdp_prog_name".                              *)
(***************************************************************************)
EXTENDS Integers, Sequences, FiniteSetsExt

CONSTANTS
  Documents,     \* the documents: a root mapping and a sequence of routes
  Programs,      \* the programs of the loaded object
  AppName(_),    \* "zereh_app_%u"
  AppDefault,    \* "zereh_app_default"
  Limit,         \* Limit[f]: the longest text the field f can hold
  MaxU32,        \* 0xffffffff
  MaxRoutes, MaxBlacklist, MaxSeeds, ProgArrayMax

(* The limits that are written as numbers in zereh_parse_route, and of the *)
(* types of the fields.                                                    *)
MaxU8 == 255
MaxU16 == 65535
MaxLabels == 127
MaxQname == 255
MaxPow == 63
MinBloom == 64
MaxBloom == 65536

ASSUME ConfigAssumption ==
  /\ MaxU32 \in Nat /\ MaxU32 > MaxBloom
  /\ MaxRoutes \in Nat /\ MaxSeeds \in Nat \ {0} /\ MaxBlacklist \in Nat
  /\ ProgArrayMax \in 1 .. MaxU32
  /\ Limit \in [{"domain", "prog_name", "prefix", "suffix", "cidr", "interface", "path"}
                  -> Nat \ {0}]

(* A document is a list of routes that gives a text, if anything, for what *)
(* a route copies; a program of the object has a name.                     *)
RouteTexts ==
  {"domain", "prog_name", "xdp_prog_name", "prefix", "suffix",
   "qname_rules.prefix_match", "qname_rules.suffix_match"}

ASSUME DocumentAssumption ==
  /\ \A d \in Documents :
       /\ Len(d.routes) \in Nat /\ DOMAIN d.routes = 1 .. Len(d.routes)
       /\ \A x \in 1 .. Len(d.routes) : \A key \in RouteTexts \cap DOMAIN d.routes[x] :
            d.routes[x][key] \in Seq(STRING)
  /\ <<>> \notin Programs

VARIABLES
  doc,         \* the document
  pc,          \* which part of it is being read
  k,           \* the row of ConfigKeys that is read next
  j,           \* the row of RouteKeys that is read next
  cfg,         \* struct zereh_config
  route,       \* the route that is being filled
  given,       \* the fields of it that the document gives (has_min_labels...)
  n,           \* the route that is parsed, or seeded
  prog_array   \* the tail call table; the empty text is an empty entry

vars == <<doc, pc, k, j, cfg, route, given, n, prog_array>>

-----------------------------------------------------------------------------
(***************************************************************************)
(* Values.                                                                 *)
(***************************************************************************)

Text == Seq(STRING)

(* Variant: a text may fill the room of its terminator. *)
CutLate(text, size) == SubSeq(text, 1, IF Len(text) < size + 1 THEN Len(text) ELSE size + 1)

Cut(text, size) == SubSeq(text, 1, IF Len(text) < size THEN Len(text) ELSE size)

RrTypes == {"A", "AAAA", "TXT", "ANY"}
Targets == {"user_space", "kernel_space", "xdp_prog"}
Truthy == {"true", "yes", "on", "1"}
Falsy == {"false", "no", "off", "0"}
XdpModes == [native |-> "native", drv |-> "native", skb |-> "skb", generic |-> "skb",
             offload |-> "offload", hw |-> "offload"]
Actions == [pass |-> "PASS", xdp_pass |-> "PASS", drop |-> "DROP", xdp_drop |-> "DROP"]
Fnv1aNames == {"fnv-1a", "fnv1a"}
SiphashNames == {"siphash", "siphash24", "siphash-2-4"}
HashAlgorithms ==
  [s \in Fnv1aNames \cup SiphashNames |-> IF s \in Fnv1aNames THEN "fnv1a" ELSE "siphash"]

U8Fields == {"min_labels", "max_labels", "pow_difficulty", "bloom_hash_functions"}
U16Fields == {"kernel_port", "qname_min_len", "qname_max_len", "pow_time_window",
              "bloom_time_window", "default_kernel_port"}
U32Fields == {"xsk_queue", "prog_index", "rate_limit_qps", "bloom_size", "max_packet_size"}
BoolFields == {"pow_enabled", "bloom_enabled", "drop_truncated", "optimize_jump_tables",
               "inline_checksums"}
TextFields == {"prog_name", "prefix", "suffix", "interface"}
PathFields == {"template_path", "generated_source", "generated_object", "xdp_section"}

(* Which values of a field the parsers accept. *)
Legal(f, v) ==
  CASE f \in U8Fields -> v \in 0 .. MaxU8
    [] f \in U16Fields -> v \in 0 .. MaxU16
    [] f \in U32Fields -> v \in 0 .. MaxU32
    [] f \in BoolFields -> v \in Truthy \cup Falsy
    [] f = "target" -> v \in Targets
    [] f = "xdp_mode" -> v \in DOMAIN XdpModes
    [] f = "default_action" -> v \in DOMAIN Actions
    [] f = "hash_algo" -> v \in DOMAIN HashAlgorithms
    [] f \in {"rrtype_mask", "deny"} -> v # {} /\ v \subseteq RrTypes
    [] f = "allowed_opcode_mask" -> v \subseteq 0 .. 15
    [] f = "blacklist" -> v \in Seq(Text \ {<<>>}) /\ Len(v) <= MaxBlacklist
    [] f = "bloom_seeds" -> v \in Seq(Text \ {<<>>}) /\ Len(v) <= MaxSeeds
    [] f \in TextFields \cup PathFields -> TRUE
    [] OTHER -> FALSE

(* What is stored. *)
Value(f, v) ==
  CASE f \in BoolFields -> v \in Truthy
    [] f = "xdp_mode" -> XdpModes[v]
    [] f = "default_action" -> Actions[v]
    [] f = "hash_algo" -> HashAlgorithms[v]
    [] f = "allowed_opcode_mask" -> IF v = {} THEN {0} ELSE v
    [] f = "blacklist" -> [e \in DOMAIN v |-> Cut(v[e], Limit["cidr"])]
    [] f = "bloom_seeds" -> [e \in DOMAIN v |-> Cut(v[e], Limit["domain"])]
    [] f \in TextFields -> Cut(v, Limit[f])
    [] f \in PathFields -> Cut(v, Limit["path"])
    [] OTHER -> v

-----------------------------------------------------------------------------
(***************************************************************************)
(* The keys, in the order in which the code reads them.  A row names the   *)
(* alternatives for a key, of which the first that is present counts.      *)
(***************************************************************************)

GlobalKeys ==
  << [keys |-> <<"global.interface">>, field |-> "interface"],
     [keys |-> <<"global.xdp_mode">>, field |-> "xdp_mode"],
     [keys |-> <<"global.default_action">>, field |-> "default_action"],
     [keys |-> <<"interface">>, field |-> "interface"],
     [keys |-> <<"xdp_mode">>, field |-> "xdp_mode"],
     [keys |-> <<"default_action">>, field |-> "default_action"],
     [keys |-> <<"global_filters.ip_blacklist">>, field |-> "blacklist"],
     [keys |-> <<"global_filters.max_packet_size">>, field |-> "max_packet_size"],
     [keys |-> <<"global_filters.allowed_opcodes">>, field |-> "allowed_opcode_mask"],
     [keys |-> <<"global_filters.drop_truncated">>, field |-> "drop_truncated"],
     [keys |-> <<"blacklist">>, field |-> "blacklist"],
     [keys |-> <<"max_packet_size">>, field |-> "max_packet_size"],
     [keys |-> <<"allowed_opcodes">>, field |-> "allowed_opcode_mask"],
     [keys |-> <<"drop_truncated">>, field |-> "drop_truncated"],
     [keys |-> <<"template_path">>, field |-> "template_path"],
     [keys |-> <<"generated_source">>, field |-> "generated_source"],
     [keys |-> <<"generated_object">>, field |-> "generated_object"],
     [keys |-> <<"xdp_section">>, field |-> "xdp_section"],
     [keys |-> <<"default_kernel_port">>, field |-> "default_kernel_port"] >>

CodegenKeys ==
  << [keys |-> <<"codegen_options.hash_algorithm">>, field |-> "hash_algo"],
     [keys |-> <<"codegen_options.optimize_jump_tables">>, field |-> "optimize_jump_tables"],
     [keys |-> <<"codegen_options.inline_checksums">>, field |-> "inline_checksums"] >>

RoutesKey == [keys |-> <<"routes">>, field |-> "routes"]

(* Variant: the routes are parsed before the options. *)
ConfigKeysRoutesFirst == GlobalKeys \o <<RoutesKey>> \o CodegenKeys

ConfigKeys == GlobalKeys \o CodegenKeys \o <<RoutesKey>>

(* The keys of a route, and those below its "filters". *)
FlatKeys ==
  << [keys |-> <<"target_type", "target">>, field |-> "target"],
     [keys |-> <<"xsk_map_index", "xsk_queue">>, field |-> "xsk_queue"],
     [keys |-> <<"forward_port", "kernel_port">>, field |-> "kernel_port"],
     [keys |-> <<"prog_array_index", "prog_index">>, field |-> "prog_index"],
     [keys |-> <<"prog_name", "xdp_prog_name">>, field |-> "prog_name"],
     [keys |-> <<"prefix">>, field |-> "prefix"],
     [keys |-> <<"suffix">>, field |-> "suffix"],
     [keys |-> <<"min_labels">>, field |-> "min_labels"],
     [keys |-> <<"max_labels">>, field |-> "max_labels"],
     [keys |-> <<"qname_min_len", "min_length">>, field |-> "qname_min_len"],
     [keys |-> <<"qname_max_len", "max_length">>, field |-> "qname_max_len"],
     [keys |-> <<"pow_difficulty">>, field |-> "pow_difficulty"],
     [keys |-> <<"allow_types">>, field |-> "rrtype_mask"] >>

FilterKeys ==
  << [keys |-> <<"filters">>, field |-> "no_mapping"],
     [keys |-> <<"pow.enabled">>, field |-> "pow_enabled"],
     [keys |-> <<"pow.difficulty">>, field |-> "pow_difficulty"],
     [keys |-> <<"pow.time_window">>, field |-> "pow_time_window"],
     [keys |-> <<"qname_rules.prefix_match">>, field |-> "prefix"],
     [keys |-> <<"qname_rules.suffix_match">>, field |-> "suffix"],
     [keys |-> <<"qname_rules.min_labels">>, field |-> "min_labels"],
     [keys |-> <<"qname_rules.max_labels">>, field |-> "max_labels"],
     [keys |-> <<"qname_rules.min_length">>, field |-> "qname_min_len"],
     [keys |-> <<"qname_rules.max_length">>, field |-> "qname_max_len"],
     [keys |-> <<"rate_limit.qps">>, field |-> "rate_limit_qps"],
     [keys |-> <<"dns_types">>, field |-> "no_mapping"],
     [keys |-> <<"dns_types.allow">>, field |-> "rrtype_mask"],
     [keys |-> <<"dns_types.deny">>, field |-> "deny"],
     [keys |-> <<"bloom_filter.enabled">>, field |-> "bloom_enabled"],
     [keys |-> <<"bloom_filter.size">>, field |-> "bloom_size"],
     [keys |-> <<"bloom_filter.hash_functions">>, field |-> "bloom_hash_functions"],
     [keys |-> <<"bloom_filter.time_window">>, field |-> "bloom_time_window"],
     [keys |-> <<"bloom_filter.allow_qnames", "bloom_filter.seed_qnames", "bloom_filter.seeds">>,
      field |-> "bloom_seeds"] >>

(* Variant: the keys of the route are read last, and win. *)
RouteKeysFlatLast == FilterKeys \o FlatKeys

RouteKeys == FlatKeys \o FilterKeys

Present(node, row) == {a \in DOMAIN row.keys : row.keys[a] \in DOMAIN node}

(* zereh_map_get for the key and its alternatives. *)
Found(node, row) == node[row.keys[Min(Present(node, row))]]

(* Only the target of a route has no default. *)
Refused(node, row) ==
  IF Present(node, row) = {} THEN row.field = "target"
  ELSE ~Legal(row.field, Found(node, row))

Stored(record, node, row) ==
  IF Present(node, row) = {} THEN record
  ELSE [record EXCEPT ![row.field] = Value(row.field, Found(node, row))]

-----------------------------------------------------------------------------
(***************************************************************************)
(* Defaults.                                                               *)
(***************************************************************************)

(* zereh_config_init_defaults. *)
ConfigDefaults ==
  [interface |-> <<"eth0">>, xdp_mode |-> "native", default_action |-> "PASS",
   blacklist |-> <<>>, max_packet_size |-> 1400, allowed_opcode_mask |-> {0},
   drop_truncated |-> FALSE,
   template_path |-> <<"xdp_template.c">>, generated_source |-> <<"router_generated.c">>,
   generated_object |-> <<"router_generated.o">>, xdp_section |-> <<"xdp_router">>,
   default_kernel_port |-> 5302, hash_algo |-> "fnv1a",
   optimize_jump_tables |-> TRUE, inline_checksums |-> TRUE, routes |-> <<>>]

(* The hash of a domain is written as the pair it is computed from. *)
RouteDefaults(domain, c) ==
  [domain |-> domain, hash |-> <<domain, c.hash_algo>>, target |-> "user_space",
   xsk_queue |-> 0, kernel_port |-> c.default_kernel_port, prog_index |-> 0, prog_name |-> <<>>,
   prefix |-> <<>>, suffix |-> <<>>, min_labels |-> 0, max_labels |-> 0,
   qname_min_len |-> 0, qname_max_len |-> 0, rrtype_mask |-> {"A", "AAAA", "TXT"},
   pow_enabled |-> TRUE, pow_difficulty |-> 0, pow_time_window |-> 0,
   bloom_enabled |-> FALSE, bloom_size |-> 1024, bloom_hash_functions |-> 3,
   bloom_time_window |-> 0, bloom_seeds |-> <<>>, rate_limit_qps |-> 0]

Init ==
  /\ doc \in Documents
  /\ pc = "config"
  /\ k = 1 /\ j = 1
  /\ cfg = ConfigDefaults
  /\ route = RouteDefaults(<<>>, ConfigDefaults)
  /\ given = {}
  /\ n = 1
  /\ prog_array = [x \in 0 .. ProgArrayMax - 1 |-> <<>>]

-----------------------------------------------------------------------------
(***************************************************************************)
(* zereh_parse_config_yaml.                                                *)
(***************************************************************************)

Fail ==
  /\ pc' = "refused"
  /\ UNCHANGED <<doc, k, j, cfg, route, given, n, prog_array>>

ReadConfigKey ==
  /\ pc = "config" /\ k <= Len(ConfigKeys) /\ ConfigKeys[k].field # "routes"
  /\ IF Refused(doc.root, ConfigKeys[k]) THEN Fail
     ELSE /\ cfg' = Stored(cfg, doc.root, ConfigKeys[k])
          /\ k' = k + 1
          /\ UNCHANGED <<doc, pc, j, route, given, n, prog_array>>

(* zereh_parse_routes.  An absent list is an empty one here: both are      *)
(* refused.                                                                *)
StartRoutes ==
  /\ pc = "config" /\ k <= Len(ConfigKeys) /\ ConfigKeys[k].field = "routes"
  /\ pc' = "routes"
  /\ cfg' = [cfg EXCEPT !.routes = <<>>]
  /\ n' = 1
  /\ UNCHANGED <<doc, k, j, route, given, prog_array>>

(* parse_route up to the domain. *)
StartRoute ==
  /\ pc = "routes" /\ n <= Len(doc.routes)
  /\ LET node == doc.routes[n]
     IN  IF \/ Len(cfg.routes) >= MaxRoutes
            \/ "domain" \notin DOMAIN node
            \/ node["domain"] = <<>>
         THEN Fail
         ELSE /\ route' = RouteDefaults(Cut(node["domain"], Limit["domain"]), cfg)
              /\ given' = {}
              /\ j' = 1
              /\ pc' = "route"
              /\ UNCHANGED <<doc, k, cfg, n, prog_array>>

ReadRouteKey ==
  /\ pc = "route" /\ j <= Len(RouteKeys) /\ RouteKeys[j].field # "deny"
  /\ LET node == doc.routes[n]
     IN  IF Refused(node, RouteKeys[j]) THEN Fail
         ELSE /\ route' = Stored(route, node, RouteKeys[j])
              /\ given' = IF Present(node, RouteKeys[j]) = {} THEN given
                          ELSE given \cup {RouteKeys[j].field}
              /\ j' = j + 1
              /\ UNCHANGED <<doc, pc, k, cfg, n, prog_array>>

(* The end of zereh_parse_route_dns_types. *)
DenyTypes ==
  /\ pc = "route" /\ j <= Len(RouteKeys) /\ RouteKeys[j].field = "deny"
  /\ LET node == doc.routes[n]
         denied == IF Present(node, RouteKeys[j]) = {} THEN {} ELSE Found(node, RouteKeys[j])
     IN  IF Refused(node, RouteKeys[j]) \/ route.rrtype_mask \ denied = {} THEN Fail
         ELSE /\ route' = [route EXCEPT !.rrtype_mask = @ \ denied]
              /\ j' = j + 1
              /\ UNCHANGED <<doc, pc, k, cfg, given, n, prog_array>>

(* A bound that is missing is set to the other one. *)
Pair(lo, hi, deflt, r, g) ==
  IF lo \notin g /\ hi \notin g THEN deflt
  ELSE IF hi \notin g THEN <<r[lo], r[lo]>>
  ELSE IF lo \notin g THEN <<r[hi], r[hi]>>
  ELSE <<r[lo], r[hi]>>

Paired(r, g) ==
  LET labels == Pair("min_labels", "max_labels", <<1, MaxLabels>>, r, g)
      length == Pair("qname_min_len", "qname_max_len", <<1, MaxQname>>, r, g)
  IN  [r EXCEPT !.min_labels = labels[1], !.max_labels = labels[2],
                !.qname_min_len = length[1], !.qname_max_len = length[2]]

(* Settings of a feature that is off are cleared, missing ones filled in. *)
PowSettled(r) ==
  IF r.pow_enabled THEN r ELSE [r EXCEPT !.pow_difficulty = 0, !.pow_time_window = 0]

BloomSettled(r) ==
  IF r.bloom_enabled
  THEN [r EXCEPT !.bloom_size = IF @ = 0 THEN 1024 ELSE @,
                 !.bloom_hash_functions = IF @ = 0 THEN 3 ELSE @,
                 !.bloom_seeds = IF @ = <<>> THEN <<r.domain>> ELSE @]
  ELSE [r EXCEPT !.bloom_size = 0, !.bloom_hash_functions = 0, !.bloom_time_window = 0,
                 !.bloom_seeds = <<>>]

Settled(r, g) == BloomSettled(PowSettled(Paired(r, g)))

(* Variant: the order of the two lengths is not checked. *)
InRangeUnordered(r) ==
  /\ 1 <= r.min_labels /\ r.min_labels <= r.max_labels /\ r.max_labels <= MaxLabels
  /\ 1 <= r.qname_min_len /\ r.qname_max_len <= MaxQname
  /\ r.pow_difficulty <= MaxPow
  /\ r.bloom_enabled => r.bloom_size \in MinBloom .. MaxBloom /\ r.bloom_hash_functions <= 8

(* Variant: the largest number of labels is refused. *)
InRangeStrict(r) ==
  /\ 1 <= r.min_labels /\ r.min_labels <= r.max_labels /\ r.max_labels < MaxLabels
  /\ 1 <= r.qname_min_len /\ r.qname_min_len <= r.qname_max_len /\ r.qname_max_len <= MaxQname
  /\ r.pow_difficulty <= MaxPow
  /\ r.bloom_enabled => r.bloom_size \in MinBloom .. MaxBloom /\ r.bloom_hash_functions <= 8

(* The range checks at the end of zereh_parse_route. *)
InRange(r) ==
  /\ 1 <= r.min_labels /\ r.min_labels <= r.max_labels /\ r.max_labels <= MaxLabels
  /\ 1 <= r.qname_min_len /\ r.qname_min_len <= r.qname_max_len /\ r.qname_max_len <= MaxQname
  /\ r.pow_difficulty <= MaxPow
  /\ r.bloom_enabled => r.bloom_size \in MinBloom .. MaxBloom /\ r.bloom_hash_functions <= 8

FinishRoute ==
  /\ pc = "route" /\ j > Len(RouteKeys)
  /\ IF ~InRange(Settled(route, given)) THEN Fail
     ELSE /\ cfg' = [cfg EXCEPT !.routes = Append(@, Settled(route, given))]
          /\ n' = n + 1
          /\ pc' = "routes"
          /\ UNCHANGED <<doc, k, j, route, given, prog_array>>

FinishRoutes ==
  /\ pc = "routes" /\ n > Len(doc.routes)
  /\ pc' = "config"
  /\ k' = k + 1
  /\ UNCHANGED <<doc, j, cfg, route, given, n, prog_array>>

FinishConfig ==
  /\ pc = "config" /\ k > Len(ConfigKeys)
  /\ IF cfg.routes = <<>> THEN Fail
     ELSE /\ pc' = "seed"
          /\ n' = 1
          /\ UNCHANGED <<doc, k, j, cfg, route, given, prog_array>>

-----------------------------------------------------------------------------
(***************************************************************************)
(* zereh_seed_prog_array.                                                  *)
(***************************************************************************)

(* Variant: a program that is missing is replaced by the default. *)
ResolveTailLenient(r) ==
  IF r.prog_name \in Programs THEN r.prog_name
  ELSE IF AppName(r.prog_index) \in Programs THEN AppName(r.prog_index)
  ELSE IF AppDefault \in Programs THEN AppDefault
  ELSE <<>>

(* zereh_resolve_tail_program; the empty text is NULL. *)
ResolveTail(r) ==
  IF r.prog_name # <<>> THEN (IF r.prog_name \in Programs THEN r.prog_name ELSE <<>>)
  ELSE IF AppName(r.prog_index) \in Programs THEN AppName(r.prog_index)
  ELSE IF AppDefault \in Programs THEN AppDefault
  ELSE <<>>

(* One route of the loop; the kernel may refuse any update of the map. *)
SeedTail ==
  /\ pc = "seed" /\ n <= Len(cfg.routes)
  /\ LET r == cfg.routes[n]
     IN  \/ /\ r.target # "xdp_prog"
            /\ n' = n + 1
            /\ UNCHANGED <<doc, pc, k, j, cfg, route, given, prog_array>>
         \/ /\ r.target = "xdp_prog"
            /\ r.prog_index < ProgArrayMax
            /\ ResolveTail(r) # <<>>
            /\ prog_array' = [prog_array EXCEPT ![r.prog_index] = ResolveTail(r)]
            /\ n' = n + 1
            /\ UNCHANGED <<doc, pc, k, j, cfg, route, given>>
         \/ /\ r.target = "xdp_prog"
            /\ IF r.prog_index >= ProgArrayMax \/ ResolveTail(r) = <<>>
               THEN pc' = "not_seeded"
               ELSE pc' = "update_failed"
            /\ UNCHANGED <<doc, k, j, cfg, route, given, n, prog_array>>

(* zereh_seed_prog_array returns 0.  The load goes on; what becomes of the *)
(* table when the object is closed is the subject of XdpLoader.            *)
FinishSeed ==
  /\ pc = "seed" /\ n > Len(cfg.routes)
  /\ pc' = "seeded"
  /\ UNCHANGED <<doc, k, j, cfg, route, given, n, prog_array>>

Next ==
  \/ ReadConfigKey \/ StartRoutes \/ StartRoute \/ ReadRouteKey \/ DenyTypes
  \/ FinishRoute \/ FinishRoutes \/ FinishConfig
  \/ SeedTail \/ FinishSeed

Spec == Init /\ [][Next]_vars

-----------------------------------------------------------------------------
(***************************************************************************)
(* Properties.                                                             *)
(***************************************************************************)

Texts(f) == {t \in Text : Len(t) <= Limit[f]}

RouteType ==
  [domain : Texts("domain"), hash : Texts("domain") \X {"fnv1a", "siphash"}, target : Targets,
   xsk_queue : 0 .. MaxU32, kernel_port : 0 .. MaxU16, prog_index : 0 .. MaxU32,
   prog_name : Texts("prog_name"), prefix : Texts("prefix"), suffix : Texts("suffix"),
   min_labels : 0 .. MaxU8, max_labels : 0 .. MaxU8,
   qname_min_len : 0 .. MaxU16, qname_max_len : 0 .. MaxU16, rrtype_mask : SUBSET RrTypes,
   pow_enabled : BOOLEAN, pow_difficulty : 0 .. MaxU8, pow_time_window : 0 .. MaxU16,
   bloom_enabled : BOOLEAN, bloom_size : 0 .. MaxU32, bloom_hash_functions : 0 .. MaxU8,
   bloom_time_window : 0 .. MaxU16, bloom_seeds : Seq(Texts("domain")),
   rate_limit_qps : 0 .. MaxU32]

TypeOK ==
  /\ pc \in {"config", "routes", "route", "refused", "seed", "seeded", "not_seeded", "update_failed"}
  /\ k \in 1 .. Len(ConfigKeys) + 1
  /\ j \in 1 .. Len(RouteKeys) + 1
  /\ route \in RouteType
  /\ cfg.routes \in Seq(RouteType)
  /\ cfg.hash_algo \in {"fnv1a", "siphash"}
  /\ cfg.default_kernel_port \in 0 .. MaxU16
  /\ n \in Nat \ {0}

(* Whatever the document says, an accepted route is one that the generated *)
(* program can work with: its ranges of labels and lengths are not empty,  *)
(* some query type is allowed, and a Bloom filter has a size, a number of  *)
(* functions and a seed.                                                   *)
RoutesAreUsable ==
  \A x \in DOMAIN cfg.routes :
    LET r == cfg.routes[x]
    IN  /\ r.domain # <<>>
        /\ r.min_labels \in 1 .. r.max_labels /\ r.max_labels <= MaxLabels
        /\ r.qname_min_len \in 1 .. r.qname_max_len /\ r.qname_max_len <= MaxQname
        /\ r.rrtype_mask # {}
        /\ r.pow_difficulty <= MaxPow
        /\ IF r.bloom_enabled
           THEN r.bloom_size \in MinBloom .. MaxBloom /\ r.bloom_hash_functions \in 1 .. 8
                /\ Len(r.bloom_seeds) \in 1 .. MaxSeeds
           ELSE r.bloom_size = 0 /\ r.bloom_seeds = <<>>

Accepted == pc \in {"seed", "seeded", "not_seeded", "update_failed"}

(* Options count for every route, wherever they stand in the document: the *)
(* case label of a route is computed with the hash that the data plane     *)
(* will use.                                                               *)
OptionsApplyToRoutes ==
  Accepted => \A x \in DOMAIN cfg.routes : cfg.routes[x].hash = <<cfg.routes[x].domain, cfg.hash_algo>>

(* The keys that decide a field, the strongest first. *)
Strength ==
  [min_labels |-> <<"qname_rules.min_labels", "min_labels">>,
   max_labels |-> <<"qname_rules.max_labels", "max_labels">>,
   qname_min_len |-> <<"qname_rules.min_length", "qname_min_len", "min_length">>,
   qname_max_len |-> <<"qname_rules.max_length", "qname_max_len", "max_length">>,
   kernel_port |-> <<"forward_port", "kernel_port">>,
   prog_index |-> <<"prog_array_index", "prog_index">>,
   pow_enabled |-> <<"pow.enabled">>,
   pow_difficulty |-> <<"pow.difficulty", "pow_difficulty">>,
   types |-> <<"dns_types.allow", "allow_types">>,
   deny |-> <<"dns_types.deny">>,
   bloom_enabled |-> <<"bloom_filter.enabled">>,
   bloom_size |-> <<"bloom_filter.size">>,
   bloom_hash_functions |-> <<"bloom_filter.hash_functions">>]

(* What the document says about a field: nothing, or one value. *)
Says(node, f) ==
  LET present == {a \in DOMAIN Strength[f] : Strength[f][a] \in DOMAIN node}
  IN  IF present = {} THEN {} ELSE {node[Strength[f][Min(present)]]}

Otherwise(said, deflt) == IF said = {} THEN deflt ELSE CHOOSE v \in said : TRUE

Bounds(node, lo, hi, deflt) ==
  IF Says(node, lo) \cup Says(node, hi) = {} THEN deflt ELSE Says(node, lo) \cup Says(node, hi)

(* An accepted route means what its document says: the strongest key wins, *)
(* a single bound is both, a disabled proof of work needs none, and denied *)
(* types are taken from the allowed ones.                                  *)
RoutesAsWritten ==
  Accepted =>
    \A x \in DOMAIN cfg.routes :
      LET r == cfg.routes[x]
          node == doc.routes[x]
          labels == Bounds(node, "min_labels", "max_labels", {1, MaxLabels})
          length == Bounds(node, "qname_min_len", "qname_max_len", {1, MaxQname})
          pow == Otherwise(Says(node, "pow_enabled"), "yes") \in Truthy
      IN  /\ r.min_labels = Min(labels) /\ r.max_labels = Max(labels)
          /\ r.qname_min_len = Min(length) /\ r.qname_max_len = Max(length)
          /\ r.kernel_port = Otherwise(Says(node, "kernel_port"), cfg.default_kernel_port)
          /\ r.prog_index = Otherwise(Says(node, "prog_index"), 0)
          /\ r.pow_difficulty = IF pow THEN Otherwise(Says(node, "pow_difficulty"), 0) ELSE 0
          /\ r.rrtype_mask = Otherwise(Says(node, "types"), {"A", "AAAA", "TXT"})
                               \ Otherwise(Says(node, "deny"), {})

(* Both bounds are there and exclude each other, or one is out of reach. *)
BadBounds(node, lo, hi, max) ==
  \/ \E b \in Says(node, lo) \cup Says(node, hi) : b \notin 1 .. max
  \/ \E a \in Says(node, lo), b \in Says(node, hi) : a > b

Faulty(node) ==
  \/ "domain" \notin DOMAIN node \/ node["domain"] = <<>>
  \/ \E row \in DOMAIN RouteKeys : Refused(node, RouteKeys[row])
  \/ BadBounds(node, "min_labels", "max_labels", MaxLabels)
  \/ BadBounds(node, "qname_min_len", "qname_max_len", MaxQname)
  \/ Otherwise(Says(node, "types"), {"A", "AAAA", "TXT"}) \subseteq Otherwise(Says(node, "deny"), {})
  \/ /\ Otherwise(Says(node, "pow_enabled"), "yes") \in Truthy
     /\ \E d \in Says(node, "pow_difficulty") : d > MaxPow
  \/ /\ Otherwise(Says(node, "bloom_enabled"), "no") \in Truthy
     /\ \/ \E b \in Says(node, "bloom_size") : b \notin {0} \cup MinBloom .. MaxBloom
        \/ \E b \in Says(node, "bloom_hash_functions") : b > 8

(* A document is refused only for a value the parsers do not know, bounds  *)
(* that are out of range or exclude each other, or a missing or oversized  *)
(* list: all values up to and including each limit are accepted.           *)
RefusedForCause ==
  pc = "refused" =>
    \/ \E row \in 1 .. Len(ConfigKeys) - 1 : Refused(doc.root, ConfigKeys[row])
    \/ Len(doc.routes) \notin 1 .. MaxRoutes
    \/ \E x \in DOMAIN doc.routes : Faulty(doc.routes[x])

TailRoutes == {x \in DOMAIN cfg.routes : cfg.routes[x].target = "xdp_prog"}

UsersOf(i) == {x \in TailRoutes : cfg.routes[x].prog_index = i}

(* The program that a route asks for: the named one, else the one of its   *)
(* index, else the default one.                                            *)
Serves(p, r) ==
  /\ p \in Programs
  /\ r.prog_name # <<>> => p = r.prog_name
  /\ r.prog_name = <<>> =>
       \/ p = AppName(r.prog_index)
       \/ p = AppDefault /\ AppName(r.prog_index) \notin Programs

(* When zereh_seed_prog_array succeeds, the table is exactly what the      *)
(* configuration asks for: an index that no route uses is empty, so that a *)
(* tail call to it falls through; every index that routes use is inside    *)
(* the table and holds the program that the last of them asks for, also    *)
(* when an earlier one asks for another program.  And it fails, if not for *)
(* the kernel, only for an index beyond the table or a program that does   *)
(* not exist.                                                              *)
TailTableAsConfigured ==
  /\ pc = "seeded" =>
       /\ \A x \in TailRoutes : cfg.routes[x].prog_index \in DOMAIN prog_array
       /\ \A i \in DOMAIN prog_array :
            \/ UsersOf(i) = {} /\ prog_array[i] = <<>>
            \/ \E x \in UsersOf(i) : /\ \A y \in UsersOf(i) : y <= x
                                     /\ Serves(prog_array[i], cfg.routes[x])
  /\ pc = "not_seeded" =>
       \E x \in TailRoutes :
         LET r == cfg.routes[x]
         IN  \/ r.prog_index >= ProgArrayMax
             \/ r.prog_name \notin Programs \cup {<<>>}
             \/ AppDefault \notin Programs
=============================================================================
