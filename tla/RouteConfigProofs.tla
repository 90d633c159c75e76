------------------------- MODULE RouteConfigProofs -------------------------
(***************************************************************************)
(* What zereh_parse_config_yaml and zereh_seed_prog_array do, for every    *)
(* document:                                                               *)
(*                                                                         *)
(*   - accepted routes are usable, and were hashed with the algorithm that *)
(*     is generated into the program (ConfigInv);                          *)
(*   - all values fit their fields (TypeOK, with CountInv);                *)
(*   - each field of the route that is being read holds what the last row  *)
(*     of RouteKeys about it says among the rows read so far (ReadInv).    *)
(***************************************************************************)
EXTENDS RouteConfig, TLAPS

(* The obligations are large: a leaf that names no prover has 30 seconds. *)
USE SMTT(30), ZenonT(30)

(* The numbers of a route; its port has a default that is one, too. *)
NumberFields ==
  U8Fields \cup (U16Fields \ {"default_kernel_port", "kernel_port"})
    \cup (U32Fields \ {"max_packet_size"})

OtherFields == {"target", "kernel_port", "prog_name", "prefix", "suffix", "rrtype_mask",
                "pow_enabled", "bloom_enabled", "bloom_seeds"}

(* The fields of struct zereh_route that keys of the document fill. *)
KeyFields == NumberFields \cup OtherFields

RouteFields == KeyFields \cup {"domain", "hash"}

(* Every row of the table is about such a field, a refused kind of node,   *)
(* or the denied types.                                                    *)
LEMMA RowFields ==
  \A a \in 1 .. Len(RouteKeys) : RouteKeys[a].field \in KeyFields \cup {"no_mapping", "deny"}
<1> DEFINE S == KeyFields \cup {"no_mapping", "deny"}
<1>1. \A a \in 1 .. Len(FlatKeys) : FlatKeys[a].field \in S
  BY SMTT(40) DEF FlatKeys, KeyFields, NumberFields, OtherFields, U8Fields, U16Fields, U32Fields
<1>2. \A a \in 1 .. Len(FilterKeys) : FilterKeys[a].field \in S
  BY SMTT(40) DEF FilterKeys, KeyFields, NumberFields, OtherFields, U8Fields, U16Fields, U32Fields
<1>3. Len(RouteKeys) = Len(FlatKeys) + Len(FilterKeys)
  BY DEF RouteKeys, FlatKeys, FilterKeys
<1>4. QED  BY <1>1, <1>2, <1>3 DEF RouteKeys

(* The routes are the last thing that is read. *)
LEMMA RoutesComeLast ==
  /\ Len(ConfigKeys) = 23
  /\ \A a \in 1 .. 23 : ConfigKeys[a].field = "routes" <=> a = 23
<1>1. Len(ConfigKeys) = 23  BY DEF ConfigKeys, GlobalKeys, CodegenKeys, RoutesKey
<1>2. \A a \in 1 .. 23 : ConfigKeys[a].field = "routes" <=> a = 23
  BY DEF ConfigKeys, GlobalKeys, CodegenKeys, RoutesKey
<1>3. QED  BY <1>1, <1>2

-----------------------------------------------------------------------------
(***************************************************************************)
(* The invariant: what holds of a route while its keys are read, and of    *)
(* the finished ones.                                                      *)
(***************************************************************************)

Raw(r, algo) ==
  /\ DOMAIN r = RouteFields
  /\ r.domain # <<>> /\ r.hash = <<r.domain, algo>>
  /\ r.rrtype_mask # {}
  /\ \A f \in NumberFields : r[f] \in Nat
  /\ r.bloom_seeds \in Seq(Text) /\ Len(r.bloom_seeds) <= MaxSeeds

Usable(r) ==
  /\ r.domain # <<>>
  /\ r.min_labels \in 1 .. r.max_labels /\ r.max_labels <= MaxLabels
  /\ r.qname_min_len \in 1 .. r.qname_max_len /\ r.qname_max_len <= MaxQname
  /\ r.rrtype_mask # {}
  /\ r.pow_difficulty <= MaxPow
  /\ IF r.bloom_enabled
     THEN r.bloom_size \in MinBloom .. MaxBloom /\ r.bloom_hash_functions \in 1 .. 8
          /\ Len(r.bloom_seeds) \in 1 .. MaxSeeds
     ELSE r.bloom_size = 0 /\ r.bloom_seeds = <<>>

ConfigFields == DOMAIN ConfigDefaults

RoutesOK(c) ==
  /\ DOMAIN c = ConfigFields
  /\ \E S : c.routes \in Seq(S)
  /\ \A x \in DOMAIN c.routes :
       Usable(c.routes[x]) /\ c.routes[x].hash = <<c.routes[x].domain, c.hash_algo>>

ConfigInv ==
  /\ doc \in Documents
  /\ pc \in {"config", "routes", "route", "refused", "seed", "seeded", "not_seeded",
           "update_failed"}
  /\ k \in Nat \ {0} /\ j \in Nat \ {0} /\ n \in Nat \ {0}
  /\ RoutesOK(cfg)
  /\ pc = "config" /\ k <= Len(ConfigKeys) => cfg.routes = <<>>
  /\ pc \in {"routes", "route"} => k = Len(ConfigKeys)
  /\ pc = "route" => Raw(route, cfg.hash_algo)

(* The fields of struct zereh_config that the steps below update. *)
LEMMA ConfigHas ==
  /\ {"routes", "hash_algo", "default_kernel_port"} \subseteq ConfigFields
  /\ ConfigDefaults.routes = <<>>
  BY DEF ConfigFields, ConfigDefaults

(* Reading a legal value keeps a route in shape. *)
LEMMA StoringKeepsRaw ==
  ASSUME NEW r, NEW algo, Raw(r, algo), NEW f \in KeyFields, NEW v, Legal(f, v)
  PROVE  Raw([r EXCEPT ![f] = Value(f, v)], algo)
<1> DEFINE w == Value(f, v)
           q == [r EXCEPT ![f] = w]
<1>1. ASSUME f \in NumberFields PROVE w \in Nat
  <2>1. /\ f \notin BoolFields \cup TextFields \cup PathFields
        /\ f \notin {"xdp_mode", "default_action", "hash_algo", "allowed_opcode_mask",
                     "blacklist", "bloom_seeds"}
    BY <1>1 DEF NumberFields, U8Fields, U16Fields, U32Fields, BoolFields, TextFields, PathFields
  <2> w = v  BY <2>1 DEF Value
  <2>2. CASE f \in U8Fields
    <3>1. v \in 0 .. MaxU8
      BY <2>2 DEF Legal, U8Fields, U16Fields, U32Fields, BoolFields, TextFields, PathFields
    <3>2. QED  BY <3>1
  <2>3. CASE f \in U16Fields
    <3>1. f \notin U8Fields  BY <2>3 DEF U8Fields, U16Fields
    <3>2. v \in 0 .. MaxU16
      BY <2>3, <3>1 DEF Legal, U8Fields, U16Fields, U32Fields, BoolFields, TextFields, PathFields
    <3>3. QED  BY <3>2
  <2>4. CASE f \in U32Fields
    <3>1. f \notin U8Fields \cup U16Fields  BY <2>4 DEF U8Fields, U16Fields, U32Fields
    <3>2. v \in 0 .. MaxU32
      BY <2>4, <3>1 DEF Legal, U8Fields, U16Fields, U32Fields, BoolFields, TextFields, PathFields
    <3>3. QED  BY <3>2
  <2>5. QED  BY <1>1, <2>2, <2>3, <2>4 DEF NumberFields
<1>2. ASSUME f = "rrtype_mask" PROVE w # {}
  BY <1>2 DEF Value, Legal, U8Fields, U16Fields, U32Fields, BoolFields, TextFields, PathFields
<1>3. ASSUME f = "bloom_seeds" PROVE w \in Seq(Text) /\ Len(w) <= MaxSeeds
  <2>1. v \in Seq(Text \ {<<>>}) /\ Len(v) <= MaxSeeds
    BY <1>3 DEF Legal, U8Fields, U16Fields, U32Fields, BoolFields, TextFields, PathFields
  <2>2. w = [e \in DOMAIN v |-> Cut(v[e], Limit["domain"])]
    BY <1>3 DEF Value, BoolFields, TextFields, PathFields
  <2>3. ASSUME NEW t \in Text PROVE Cut(t, Limit["domain"]) \in Text
    BY ConfigAssumption DEF Cut, Text
  <2>4. DOMAIN v = 1 .. Len(v) /\ Len(v) \in Nat /\ \A e \in 1 .. Len(v) : v[e] \in Text
    BY <2>1
  <2>5. w \in [1 .. Len(v) -> Text]  BY <2>2, <2>3, <2>4
  <2>6. w \in Seq(Text) /\ Len(w) = Len(v)  BY <2>4, <2>5
  <2>7. QED  BY <2>1, <2>6
<1> HIDE DEF w
<1>4. DOMAIN q = RouteFields /\ f \in RouteFields  BY DEF Raw, RouteFields
<1>5. q[f] = w /\ \A g \in RouteFields : g # f => q[g] = r[g]  BY <1>4 DEF Raw
<1> HIDE DEF q
<1>6. q.domain = r.domain /\ q.hash = r.hash
  BY <1>5 DEF RouteFields, KeyFields, NumberFields, OtherFields, U8Fields, U16Fields, U32Fields
<1>7. \A g \in NumberFields : q[g] \in Nat
  BY <1>1, <1>5 DEF Raw, RouteFields, KeyFields
<1>8. q.rrtype_mask # {}
  BY <1>2, <1>5 DEF Raw, RouteFields, KeyFields, OtherFields
<1>9. q.bloom_seeds \in Seq(Text) /\ Len(q.bloom_seeds) <= MaxSeeds
  BY <1>3, <1>5 DEF Raw, RouteFields, KeyFields, OtherFields
<1>10. Raw(q, algo)  BY <1>4, <1>6, <1>7, <1>8, <1>9 DEF Raw
<1>11. QED  BY <1>10 DEF q, w

(* A route that passes the checks at the end is usable. *)
LEMMA SettledIsUsable ==
  ASSUME NEW r, NEW algo, Raw(r, algo), NEW g, InRange(Settled(r, g))
  PROVE  LET s == Settled(r, g) IN Usable(s) /\ s.hash = <<s.domain, algo>>
<1> DEFINE p == Paired(r, g)
           q == PowSettled(p)
           s == BloomSettled(q)
           Limits == {"min_labels", "max_labels", "qname_min_len", "qname_max_len"}
           Names == Limits \cup {"domain", "hash", "rrtype_mask", "pow_difficulty",
                     "pow_time_window", "bloom_enabled", "bloom_size", "bloom_hash_functions",
                     "bloom_time_window", "bloom_seeds"}
<1>1. Names \subseteq DOMAIN r
  BY DEF Raw, RouteFields, KeyFields, NumberFields, OtherFields, U8Fields, U16Fields, U32Fields
<1>2. \A f \in Limits \cup {"bloom_hash_functions"} : r[f] \in Nat
  BY DEF Raw, NumberFields, U8Fields, U16Fields
<1>3. /\ DOMAIN p = DOMAIN r
      /\ \A f \in Names \ Limits : p[f] = r[f]
  BY <1>1, Zenon DEF Paired
<1>4. \A f \in Limits : p[f] \in Nat
  <2> DEFINE labels == Pair("min_labels", "max_labels", <<1, MaxLabels>>, r, g)
             length == Pair("qname_min_len", "qname_max_len", <<1, MaxQname>>, r, g)
  <2>1. labels[1] \in Nat /\ labels[2] \in Nat  BY <1>2 DEF Pair, MaxLabels, MaxQname
  <2>2. length[1] \in Nat /\ length[2] \in Nat  BY <1>2 DEF Pair, MaxLabels, MaxQname
  <2>3. p = [r EXCEPT !.min_labels = labels[1], !.max_labels = labels[2],
                      !.qname_min_len = length[1], !.qname_max_len = length[2]]
    BY DEF Paired
  <2> HIDE DEF labels, length, p
  <2>4. /\ p.min_labels = labels[1] /\ p.max_labels = labels[2]
        /\ p.qname_min_len = length[1] /\ p.qname_max_len = length[2]
    BY <1>1, <2>3
  <2>5. QED  BY <2>1, <2>2, <2>4
<1> HIDE DEF p
<1>5. /\ DOMAIN q = DOMAIN r
      /\ \A f \in Names \ {"pow_difficulty", "pow_time_window"} : q[f] = p[f]
  BY <1>1, <1>3, Zenon DEF PowSettled
<1> HIDE DEF q
<1>6. \A f \in Names \ {"pow_difficulty", "pow_time_window", "bloom_size", "bloom_hash_functions",
                        "bloom_time_window", "bloom_seeds"} : s[f] = q[f]
  BY <1>1, <1>5, Zenon DEF BloomSettled
<1>7. s = Settled(r, g)  BY DEF Settled, p, q
<1>8. /\ s.domain = r.domain /\ s.hash = r.hash /\ s.rrtype_mask = r.rrtype_mask
      /\ s.bloom_enabled = r.bloom_enabled
  BY <1>3, <1>5, <1>6
<1>9. /\ s.min_labels \in Nat /\ s.max_labels \in Nat
      /\ s.qname_min_len \in Nat /\ s.qname_max_len \in Nat
  BY <1>4, <1>5, <1>6
<1>10. /\ q.bloom_hash_functions = r.bloom_hash_functions /\ q.bloom_seeds = r.bloom_seeds
       /\ q.bloom_enabled = r.bloom_enabled /\ q.domain = r.domain
  BY <1>3, <1>5
<1>11. ASSUME r.bloom_enabled
       PROVE  s.bloom_hash_functions \in Nat \ {0} /\ Len(s.bloom_seeds) \in 1 .. MaxSeeds
  <2>1. /\ s.bloom_hash_functions = IF r.bloom_hash_functions = 0 THEN 3 ELSE r.bloom_hash_functions
        /\ s.bloom_seeds = IF r.bloom_seeds = <<>> THEN <<r.domain>> ELSE r.bloom_seeds
    BY <1>1, <1>5, <1>10, <1>11 DEF BloomSettled
  <2>2. r.bloom_hash_functions \in Nat  BY <1>2
  <2>3. r.bloom_seeds \in Seq(Text) /\ Len(r.bloom_seeds) <= MaxSeeds  BY DEF Raw
  <2>4. r.bloom_seeds # <<>> => Len(r.bloom_seeds) \in 1 .. MaxSeeds
    BY <2>3, ConfigAssumption
  <2>5. Len(<<r.domain>>) = 1 /\ 1 \in 1 .. MaxSeeds  BY ConfigAssumption
  <2> HIDE DEF s
  <2>6. QED  BY <2>1, <2>2, <2>4, <2>5
<1>12. ASSUME ~r.bloom_enabled PROVE s.bloom_size = 0 /\ s.bloom_seeds = <<>>
  BY <1>1, <1>5, <1>10, <1>12 DEF BloomSettled
<1> HIDE DEF s
<1>13. InRange(s)  BY <1>7
<1>14. /\ s.min_labels \in 1 .. s.max_labels /\ s.max_labels <= MaxLabels
       /\ s.qname_min_len \in 1 .. s.qname_max_len /\ s.qname_max_len <= MaxQname
       /\ s.pow_difficulty <= MaxPow
  BY <1>9, <1>13 DEF InRange
<1>15. ASSUME r.bloom_enabled
       PROVE  s.bloom_size \in MinBloom .. MaxBloom /\ s.bloom_hash_functions \in 1 .. 8
  BY <1>8, <1>11, <1>13, <1>15 DEF InRange
<1>16. s.domain # <<>> /\ s.rrtype_mask # {} /\ s.hash = <<s.domain, algo>>
  BY <1>8 DEF Raw
<1>17. Usable(s)
  BY <1>8, <1>11, <1>12, <1>14, <1>15, <1>16 DEF Usable
<1>18. QED  BY <1>7, <1>16, <1>17

-----------------------------------------------------------------------------
(***************************************************************************)
(* The steps.                                                              *)
(***************************************************************************)

(* config_defaults establishes the invariant. *)
LEMMA InitConfig == Init => ConfigInv
<1> SUFFICES ASSUME Init PROVE ConfigInv  OBVIOUS
<1>1. cfg = ConfigDefaults /\ pc = "config" /\ k = 1 /\ j = 1  BY DEF Init
<1>2. cfg.routes = <<>>  BY <1>1 DEF ConfigDefaults
<1>3. cfg.routes \in Seq({})  BY <1>2
<1>4. DOMAIN cfg.routes = {}  BY <1>2
<1>5. RoutesOK(cfg)  BY <1>1, <1>3, <1>4 DEF RoutesOK, ConfigFields
<1>6. doc \in Documents /\ n = 1  BY DEF Init
<1>7. QED  BY <1>1, <1>2, <1>5, <1>6 DEF ConfigInv

(* A refused document leaves everything as it is. *)
LEMMA FailStep == ConfigInv /\ Fail => ConfigInv'
BY DEF ConfigInv, Fail

(* The options are read while there are no routes. *)
LEMMA ConfigKeyStep == ConfigInv /\ ReadConfigKey => ConfigInv'
<1> SUFFICES ASSUME ConfigInv, ReadConfigKey PROVE ConfigInv'  OBVIOUS
<1> DEFINE row == ConfigKeys[k]
<1>1. CASE Refused(doc.root, row)
  BY <1>1, FailStep DEF ReadConfigKey
<1>2. CASE ~Refused(doc.root, row)
  <2>1. /\ pc = "config" /\ pc' = pc /\ k <= Len(ConfigKeys) /\ row.field # "routes"
        /\ cfg' = Stored(cfg, doc.root, row) /\ k' = k + 1
        /\ UNCHANGED <<doc, j, n>>
    BY <1>2 DEF ReadConfigKey
  <2>2. cfg.routes = <<>> /\ DOMAIN cfg = ConfigFields /\ "routes" \in ConfigFields
    BY <2>1, ConfigHas DEF ConfigInv, RoutesOK
  <2>3. cfg'.routes = <<>> /\ DOMAIN cfg' = ConfigFields
    BY <2>1, <2>2 DEF Stored
  <2>4. cfg'.routes \in Seq({}) /\ DOMAIN cfg'.routes = {}  BY <2>3
  <2>5. RoutesOK(cfg')  BY <2>3, <2>4 DEF RoutesOK
  <2>6. QED  BY <2>1, <2>3, <2>5 DEF ConfigInv
<1>3. QED  BY <1>1, <1>2

(* Entering parse_routes keeps it. *)
LEMMA StartRoutesStep == ConfigInv /\ StartRoutes => ConfigInv'
<1> SUFFICES ASSUME ConfigInv, StartRoutes PROVE ConfigInv'  OBVIOUS
<1>1. /\ pc' = "routes" /\ k \in 1 .. Len(ConfigKeys) /\ ConfigKeys[k].field = "routes"
      /\ UNCHANGED <<doc, k, j>> /\ n' = 1 /\ cfg' = [cfg EXCEPT !.routes = <<>>]
  BY DEF StartRoutes, ConfigInv
<1>2. k = Len(ConfigKeys)  BY <1>1, RoutesComeLast
<1>3. cfg'.routes = <<>> /\ DOMAIN cfg' = ConfigFields
  BY <1>1, ConfigHas DEF ConfigInv, RoutesOK
<1>4. cfg'.routes \in Seq({}) /\ DOMAIN cfg'.routes = {}  BY <1>3
<1>5. RoutesOK(cfg')  BY <1>3, <1>4 DEF RoutesOK
<1>6. QED  BY <1>1, <1>2, <1>5 DEF ConfigInv

(* A route starts with the algorithm that has been read. *)
LEMMA StartRouteStep == ConfigInv /\ StartRoute => ConfigInv'
<1> SUFFICES ASSUME ConfigInv, StartRoute PROVE ConfigInv'  OBVIOUS
<1> DEFINE node == doc.routes[n]
           name == Cut(node["domain"], Limit["domain"])
<1>1. CASE \/ Len(cfg.routes) >= MaxRoutes
           \/ "domain" \notin DOMAIN node
           \/ node["domain"] = <<>>
  <2>1. Fail  BY <1>1 DEF StartRoute
  <2>2. QED  BY <2>1, FailStep
<1>2. CASE ~(\/ Len(cfg.routes) >= MaxRoutes
             \/ "domain" \notin DOMAIN node
             \/ node["domain"] = <<>>)
  <2>1. /\ pc = "routes" /\ n <= Len(doc.routes)
        /\ pc' = "route" /\ j' = 1 /\ UNCHANGED <<doc, k, cfg, n>>
        /\ route' = RouteDefaults(name, cfg)
        /\ node["domain"] # <<>>
    BY <1>2 DEF StartRoute
  <2>2. name # <<>>
    <3> DEFINE text == node["domain"]
    <3>1. doc \in Documents /\ n \in 1 .. Len(doc.routes)  BY <2>1 DEF ConfigInv
    <3>2. text \in Seq(STRING)  BY <1>2, <3>1, DocumentAssumption DEF RouteTexts
    <3>3. Limit["domain"] \in Nat \ {0}  BY ConfigAssumption
    <3> HIDE DEF text
    <3>4. Len(text) >= 1  BY <2>1, <3>2 DEF text
    <3>5. Len(Cut(text, Limit["domain"])) >= 1  BY <3>2, <3>3, <3>4 DEF Cut
    <3>6. QED  BY <3>5 DEF text
  <2>3. Raw(route', cfg.hash_algo)
    <3> HIDE DEF name
    <3>1. DOMAIN route' = RouteFields
      BY <2>1 DEF RouteDefaults, RouteFields, KeyFields, NumberFields, OtherFields,
                  U8Fields, U16Fields, U32Fields
    <3>2. \A f \in NumberFields : route'[f] \in Nat
      BY <2>1 DEF RouteDefaults, NumberFields, U8Fields, U16Fields, U32Fields
    <3>3. /\ route'.domain = name /\ route'.hash = <<name, cfg.hash_algo>>
          /\ route'.rrtype_mask = {"A", "AAAA", "TXT"} /\ route'.bloom_seeds = <<>>
      BY <2>1 DEF RouteDefaults
    <3>4. <<>> \in Seq(Text) /\ Len(<<>>) <= MaxSeeds  BY ConfigAssumption
    <3>5. QED  BY <2>2, <3>1, <3>2, <3>3, <3>4 DEF Raw
  <2>4. QED  BY <2>1, <2>3 DEF ConfigInv
<1>3. QED  BY <1>1, <1>2

(* Reading a key of a route keeps it. *)
LEMMA RouteKeyStep == ConfigInv /\ ReadRouteKey => ConfigInv'
<1> SUFFICES ASSUME ConfigInv, ReadRouteKey PROVE ConfigInv'  OBVIOUS
<1> DEFINE node == doc.routes[n]
           row == RouteKeys[j]
<1>1. CASE Refused(node, row)
  <2>1. Fail  BY <1>1 DEF ReadRouteKey
  <2>2. QED  BY <2>1, FailStep
<1>2. CASE ~Refused(node, row)
  <2>1. /\ pc = "route" /\ j' = j + 1 /\ UNCHANGED <<doc, pc, k, cfg, n>>
        /\ j <= Len(RouteKeys) /\ row.field # "deny"
        /\ route' = Stored(route, node, row)
    BY <1>2 DEF ReadRouteKey
  <2>2. Raw(route, cfg.hash_algo)  BY <2>1 DEF ConfigInv
  <2>3. row.field \in KeyFields \cup {"no_mapping"}
    BY <2>1, RowFields DEF ConfigInv
  <2>4. Raw(route', cfg.hash_algo)
    <3>1. CASE Present(node, row) = {}
      BY <2>1, <2>2, <3>1 DEF Stored
    <3>2. CASE Present(node, row) # {}
      <4>1. Legal(row.field, Found(node, row))  BY <1>2, <3>2 DEF Refused
      <4>2. row.field # "no_mapping"
        BY <4>1 DEF Legal, U8Fields, U16Fields, U32Fields, BoolFields, TextFields, PathFields
      <4>3. Raw([route EXCEPT ![row.field] = Value(row.field, Found(node, row))], cfg.hash_algo)
        BY <2>2, <2>3, <4>1, <4>2, StoringKeepsRaw
      <4>4. QED  BY <2>1, <3>2, <4>3 DEF Stored
    <3>3. QED  BY <3>1, <3>2
  <2>5. QED  BY <2>1, <2>4 DEF ConfigInv
<1>3. QED  BY <1>1, <1>2

(* Denying types never leaves a route without one. *)
LEMMA DenyTypesStep == ConfigInv /\ DenyTypes => ConfigInv'
<1> SUFFICES ASSUME ConfigInv, DenyTypes PROVE ConfigInv'  OBVIOUS
<1> DEFINE node == doc.routes[n]
           row == RouteKeys[j]
           denied == IF Present(node, row) = {} THEN {} ELSE Found(node, row)
<1>1. CASE Refused(node, row) \/ route.rrtype_mask \ denied = {}
  <2>1. Fail  BY <1>1 DEF DenyTypes
  <2>2. QED  BY <2>1, FailStep
<1>2. CASE ~(Refused(node, row) \/ route.rrtype_mask \ denied = {})
  <2>1. /\ pc = "route" /\ j' = j + 1 /\ UNCHANGED <<doc, pc, k, cfg, n>>
        /\ route' = [route EXCEPT !.rrtype_mask = @ \ denied]
        /\ route.rrtype_mask \ denied # {}
    BY <1>2 DEF DenyTypes
  <2>2. Raw(route, cfg.hash_algo)  BY <2>1 DEF ConfigInv
  <2> HIDE DEF denied
  <2>3. /\ DOMAIN route' = RouteFields /\ "rrtype_mask" \in RouteFields
        /\ \A f \in RouteFields \ {"rrtype_mask"} : route'[f] = route[f]
        /\ route'.rrtype_mask = route.rrtype_mask \ denied
    BY <2>1, <2>2 DEF Raw, RouteFields, KeyFields, OtherFields
  <2>4. \A f \in NumberFields : route'[f] = route[f]
    BY <2>3 DEF RouteFields, KeyFields, NumberFields, U8Fields, U16Fields, U32Fields
  <2>5. /\ route'.domain = route.domain /\ route'.hash = route.hash
        /\ route'.bloom_seeds = route.bloom_seeds
    BY <2>3 DEF RouteFields, KeyFields, OtherFields
  <2>6. Raw(route', cfg.hash_algo)
    BY <2>1, <2>2, <2>3, <2>4, <2>5, Zenon DEF Raw
  <2>7. QED  BY <2>1, <2>6 DEF ConfigInv
<1>3. QED  BY <1>1, <1>2

(* The checks at the end of parse_route keep it. *)
LEMMA FinishRouteStep == ConfigInv /\ FinishRoute => ConfigInv'
<1> SUFFICES ASSUME ConfigInv, FinishRoute PROVE ConfigInv'  OBVIOUS
<1> DEFINE s == Settled(route, given)
<1>1. CASE ~InRange(s)
  <2>1. Fail  BY <1>1 DEF FinishRoute
  <2>2. QED  BY <2>1, FailStep
<1>2. CASE InRange(s)
  <2>1. /\ pc = "route" /\ pc' = "routes" /\ n' = n + 1 /\ UNCHANGED <<doc, k, j>>
        /\ cfg' = [cfg EXCEPT !.routes = Append(@, s)]
    BY <1>2 DEF FinishRoute
  <2>2. Raw(route, cfg.hash_algo) /\ RoutesOK(cfg)  BY <2>1 DEF ConfigInv
  <2>3. Usable(s) /\ s.hash = <<s.domain, cfg.hash_algo>>
    BY <1>2, <2>2, SettledIsUsable
  <2> HIDE DEF s
  <2>4. {"routes", "hash_algo"} \subseteq ConfigFields  BY ConfigHas
  <2>5. /\ DOMAIN cfg' = ConfigFields /\ cfg'.routes = Append(cfg.routes, s)
        /\ cfg'.hash_algo = cfg.hash_algo
    BY <2>1, <2>2, <2>4 DEF RoutesOK
  <2>6. PICK S : cfg.routes \in Seq(S)  BY <2>2 DEF RoutesOK
  <2>7. cfg.routes \in Seq(S \cup {s}) /\ s \in S \cup {s}  BY <2>6
  <2>8. cfg'.routes \in Seq(S \cup {s})  BY <2>5, <2>7
  <2>9. ASSUME NEW x \in DOMAIN cfg'.routes
        PROVE  Usable(cfg'.routes[x])
               /\ cfg'.routes[x].hash = <<cfg'.routes[x].domain, cfg.hash_algo>>
    <3>1. \/ x \in DOMAIN cfg.routes /\ cfg'.routes[x] = cfg.routes[x]
          \/ cfg'.routes[x] = s
      BY <2>5, <2>7
    <3>2. QED  BY <2>2, <2>3, <3>1 DEF RoutesOK
  <2>10. RoutesOK(cfg')  BY <2>5, <2>8, <2>9 DEF RoutesOK
  <2>11. QED  BY <2>1, <2>10 DEF ConfigInv
<1>3. QED  BY <1>1, <1>2

(* After the routes nothing is left to read. *)
LEMMA FinishRoutesStep == ConfigInv /\ FinishRoutes => ConfigInv'
<1> SUFFICES ASSUME ConfigInv, FinishRoutes PROVE ConfigInv'  OBVIOUS
<1>1. /\ pc = "routes" /\ pc' = "config" /\ k' = k + 1 /\ UNCHANGED <<doc, j, cfg, n>>
  BY DEF FinishRoutes
<1>2. k = 23 /\ Len(ConfigKeys) = 23  BY <1>1, RoutesComeLast DEF ConfigInv
<1>3. QED  BY <1>1, <1>2 DEF ConfigInv

(* Ending the parse and seeding prog_array keep it. *)
LEMMA OtherSteps == ConfigInv /\ (FinishConfig \/ SeedTail \/ FinishSeed) => ConfigInv'
<1> SUFFICES ASSUME ConfigInv PROVE FinishConfig \/ SeedTail \/ FinishSeed => ConfigInv'
  OBVIOUS
<1>1. ASSUME FinishConfig PROVE ConfigInv'
  <2>1. CASE cfg.routes = <<>>
    <3>1. Fail  BY <1>1, <2>1 DEF FinishConfig
    <3>2. QED  BY <3>1, FailStep
  <2>2. CASE cfg.routes # <<>>
    <3>1. pc' = "seed" /\ n' = 1 /\ UNCHANGED <<doc, k, j, cfg>>
      BY <1>1, <2>2 DEF FinishConfig
    <3>2. QED  BY <3>1 DEF ConfigInv
  <2>3. QED  BY <2>1, <2>2
<1>2. ASSUME SeedTail PROVE ConfigInv'
  <2>1. pc = "seed" /\ UNCHANGED <<doc, k, j, cfg>>  BY <1>2 DEF SeedTail
  <2>2. \/ pc' = "seed" /\ n' = n + 1
        \/ pc' \in {"not_seeded", "update_failed"} /\ n' = n
    BY <1>2 DEF SeedTail
  <2>3. QED  BY <2>1, <2>2 DEF ConfigInv
<1>3. ASSUME FinishSeed PROVE ConfigInv'
  BY <1>3 DEF FinishSeed, ConfigInv
<1>4. QED  BY <1>1, <1>2, <1>3

-----------------------------------------------------------------------------
(***************************************************************************)
(* The theorems.                                                           *)
(***************************************************************************)

(* The invariant holds in every state of parsing and seeding. *)
THEOREM ConfigInvariant == Spec => []ConfigInv
<1>1. ConfigInv /\ [Next]_vars => ConfigInv'
  <2>1. ConfigInv /\ UNCHANGED vars => ConfigInv'  BY DEF ConfigInv, vars
  <2>2. QED
    BY <2>1, ConfigKeyStep, StartRoutesStep, StartRouteStep, RouteKeyStep, DenyTypesStep,
       FinishRouteStep, FinishRoutesStep, OtherSteps DEF Next
<1>2. QED  BY InitConfig, <1>1, PTL DEF Spec

(* Every route that zereh_parse_route accepts, of any document, has ranges *)
(* that are not empty and within the limits, a type that may be asked for, *)
(* and a Bloom filter with a size and seeds or none at all.                *)
THEOREM AcceptedRoutesAreUsable == Spec => []RoutesAreUsable
<1>1. ConfigInv => RoutesAreUsable
  BY DEF ConfigInv, RoutesOK, RoutesAreUsable, Usable
<1>2. QED  BY ConfigInvariant, <1>1, PTL

(* Every accepted route was hashed with the algorithm that the generator   *)
(* puts into the program, wherever the document has its options.           *)
THEOREM OptionsReachRoutes == Spec => []OptionsApplyToRoutes
<1>1. ConfigInv => OptionsApplyToRoutes
  BY DEF ConfigInv, RoutesOK, OptionsApplyToRoutes
<1>2. QED  BY ConfigInvariant, <1>1, PTL

(* The values of a field of struct zereh_route. *)
FieldType(f) ==
  CASE f = "domain" -> Texts("domain")
    [] f = "hash" -> Texts("domain") \X {"fnv1a", "siphash"}
    [] f = "target" -> Targets
    [] f \in U8Fields -> 0 .. MaxU8
    [] f \in U16Fields -> 0 .. MaxU16
    [] f \in U32Fields -> 0 .. MaxU32
    [] f \in {"pow_enabled", "bloom_enabled"} -> BOOLEAN
    [] f \in {"prog_name", "prefix", "suffix"} -> Texts(f)
    [] f = "rrtype_mask" -> SUBSET RrTypes
    [] f = "bloom_seeds" -> Seq(Texts("domain"))

(* The values of each field. *)
LEMMA FieldTypes ==
  /\ FieldType("domain") = Texts("domain") /\ FieldType("target") = Targets
  /\ FieldType("hash") = Texts("domain") \X {"fnv1a", "siphash"}
  /\ FieldType("rrtype_mask") = SUBSET RrTypes
  /\ FieldType("bloom_seeds") = Seq(Texts("domain"))
  /\ \A f \in {"prog_name", "prefix", "suffix"} : FieldType(f) = Texts(f)
  /\ \A f \in {"pow_enabled", "bloom_enabled"} : FieldType(f) = BOOLEAN
  /\ \A f \in U8Fields : FieldType(f) = 0 .. MaxU8
  /\ \A f \in U16Fields : FieldType(f) = 0 .. MaxU16
  /\ \A f \in U32Fields : FieldType(f) = 0 .. MaxU32
<1>1. /\ FieldType("domain") = Texts("domain") /\ FieldType("target") = Targets
      /\ FieldType("hash") = Texts("domain") \X {"fnv1a", "siphash"}
      /\ FieldType("rrtype_mask") = SUBSET RrTypes
      /\ FieldType("bloom_seeds") = Seq(Texts("domain"))
      /\ \A f \in {"prog_name", "prefix", "suffix"} : FieldType(f) = Texts(f)
      /\ \A f \in {"pow_enabled", "bloom_enabled"} : FieldType(f) = BOOLEAN
  BY DEF FieldType, U8Fields, U16Fields, U32Fields
<1>2. /\ \A f \in U8Fields : FieldType(f) = 0 .. MaxU8
      /\ \A f \in U16Fields : FieldType(f) = 0 .. MaxU16
      /\ \A f \in U32Fields : FieldType(f) = 0 .. MaxU32
  BY DEF FieldType, U8Fields, U16Fields, U32Fields
<1> QED
  BY <1>1, <1>2

(* Which values zereh_parse_route accepts for a field. *)
LEMMA LegalValues ==
  ASSUME NEW v
  PROVE  /\ \A f \in U8Fields : Legal(f, v) => v \in 0 .. MaxU8
         /\ \A f \in U16Fields : Legal(f, v) => v \in 0 .. MaxU16
         /\ \A f \in U32Fields : Legal(f, v) => v \in 0 .. MaxU32
         /\ \A f \in BoolFields : Legal(f, v) => v \in Truthy \cup Falsy
         /\ Legal("target", v) => v \in Targets
         /\ \A f \in {"rrtype_mask", "deny"} : Legal(f, v) => v # {} /\ v \subseteq RrTypes
         /\ Legal("bloom_seeds", v) => v \in Seq(Text \ {<<>>}) /\ Len(v) <= MaxSeeds
         /\ Legal("hash_algo", v) => v \in DOMAIN HashAlgorithms
         /\ ~Legal("no_mapping", v)
<1> USE DEF Legal, U8Fields, U16Fields, U32Fields, BoolFields, TextFields, PathFields
<1>1. \A f \in U8Fields : Legal(f, v) => v \in 0 .. MaxU8
  OBVIOUS
<1>2. \A f \in U16Fields : Legal(f, v) => v \in 0 .. MaxU16
  OBVIOUS
<1>3. \A f \in U32Fields : Legal(f, v) => v \in 0 .. MaxU32
  OBVIOUS
<1>4. \A f \in BoolFields : Legal(f, v) => v \in Truthy \cup Falsy
  OBVIOUS
<1>5. /\ Legal("target", v) => v \in Targets
      /\ \A f \in {"rrtype_mask", "deny"} : Legal(f, v) => v # {} /\ v \subseteq RrTypes
  OBVIOUS
<1>6. Legal("bloom_seeds", v) => v \in Seq(Text \ {<<>>}) /\ Len(v) <= MaxSeeds
  OBVIOUS
<1>7. Legal("hash_algo", v) => v \in DOMAIN HashAlgorithms
  OBVIOUS
<1>8. ~Legal("no_mapping", v)
  OBVIOUS
<1> HIDE DEF Legal, U8Fields, U16Fields, U32Fields, BoolFields, TextFields, PathFields
<1> QED
  BY <1>1, <1>2, <1>3, <1>4, <1>5, <1>6, <1>7, <1>8

(* What is stored for it. *)
LEMMA StoredValues ==
  ASSUME NEW v
  PROVE  /\ \A f \in U8Fields \cup U16Fields \cup U32Fields \cup {"target", "rrtype_mask", "deny"} :
              Value(f, v) = v
         /\ \A f \in BoolFields : Value(f, v) = (v \in Truthy)
         /\ \A f \in TextFields : Value(f, v) = Cut(v, Limit[f])
         /\ Value("bloom_seeds", v) = [e \in DOMAIN v |-> Cut(v[e], Limit["domain"])]
         /\ Value("hash_algo", v) = HashAlgorithms[v]
<1> USE DEF Value, U8Fields, U16Fields, U32Fields, BoolFields, TextFields, PathFields
<1>1. \A f \in U8Fields \cup U16Fields \cup U32Fields \cup {"target", "rrtype_mask", "deny"} :
        Value(f, v) = v
  OBVIOUS
<1>2. \A f \in BoolFields : Value(f, v) = (v \in Truthy)
  OBVIOUS
<1>3. \A f \in TextFields : Value(f, v) = Cut(v, Limit[f])
  OBVIOUS
<1>4. Value("bloom_seeds", v) = [e \in DOMAIN v |-> Cut(v[e], Limit["domain"])]
  OBVIOUS
<1>5. Value("hash_algo", v) = HashAlgorithms[v]
  OBVIOUS
<1> HIDE DEF Value, U8Fields, U16Fields, U32Fields, BoolFields, TextFields, PathFields
<1> QED
  BY <1>1, <1>2, <1>3, <1>4, <1>5

(* A route is typed when every one of its fields is. *)
LEMMA RouteFieldwise ==
  ASSUME NEW r
  PROVE  r \in RouteType <=> /\ r = [f \in RouteFields |-> r[f]]
                             /\ \A f \in RouteFields : r[f] \in FieldType(f)
<1>1. RouteFields = {"domain", "hash", "target", "xsk_queue", "kernel_port", "prog_index",
        "prog_name", "prefix", "suffix", "min_labels", "max_labels", "qname_min_len",
        "qname_max_len", "rrtype_mask", "pow_enabled", "pow_difficulty", "pow_time_window",
        "bloom_enabled", "bloom_size", "bloom_hash_functions", "bloom_time_window",
        "bloom_seeds", "rate_limit_qps"}
  BY DEF RouteFields, KeyFields, NumberFields, OtherFields, U8Fields, U16Fields, U32Fields
<1>2. (\A f \in RouteFields : r[f] \in FieldType(f)) <=>
        /\ r.domain \in Texts("domain") /\ r.hash \in Texts("domain") \X {"fnv1a", "siphash"}
        /\ r.target \in Targets /\ r.xsk_queue \in 0 .. MaxU32 /\ r.kernel_port \in 0 .. MaxU16
        /\ r.prog_index \in 0 .. MaxU32 /\ r.prog_name \in Texts("prog_name")
        /\ r.prefix \in Texts("prefix") /\ r.suffix \in Texts("suffix")
        /\ r.min_labels \in 0 .. MaxU8 /\ r.max_labels \in 0 .. MaxU8
        /\ r.qname_min_len \in 0 .. MaxU16 /\ r.qname_max_len \in 0 .. MaxU16
        /\ r.rrtype_mask \in SUBSET RrTypes /\ r.pow_enabled \in BOOLEAN
        /\ r.pow_difficulty \in 0 .. MaxU8 /\ r.pow_time_window \in 0 .. MaxU16
        /\ r.bloom_enabled \in BOOLEAN /\ r.bloom_size \in 0 .. MaxU32
        /\ r.bloom_hash_functions \in 0 .. MaxU8 /\ r.bloom_time_window \in 0 .. MaxU16
        /\ r.bloom_seeds \in Seq(Texts("domain")) /\ r.rate_limit_qps \in 0 .. MaxU32
  BY <1>1, FieldTypes, ZenonT(40) DEF U8Fields, U16Fields, U32Fields
<1> QED
  BY <1>1, <1>2, Zenon DEF RouteType

(* The smallest of up to three positions. *)
LEMMA FirstOf ==
  ASSUME NEW S \in SUBSET (1 .. 3), S # {}
  PROVE  Min(S) \in S /\ \A y \in S : Min(S) <= y
<1>1. \E x \in S : \A y \in S : x <= y
  <2>1. CASE 1 \in S
    BY <2>1
  <2>2. CASE 1 \notin S /\ 2 \in S
    BY <2>2
  <2>3. CASE 1 \notin S /\ 2 \notin S
    <3>1. \A y \in S : y = 3
      BY <2>3
    <3>2. 3 \in S
      BY <3>1, Zenon
    <3> QED
      BY <3>1, <3>2
  <2> QED
    BY <2>1, <2>2, <2>3
<1> QED
  BY <1>1, Zenon DEF Min

(* Every row has up to three keys; the ones of a copied text are texts. *)
LEMMA RowShape ==
  \A a \in 1 .. Len(RouteKeys) :
    /\ DOMAIN RouteKeys[a].keys \subseteq 1 .. 3
    /\ RouteKeys[a].field \in TextFields =>
         \A i \in DOMAIN RouteKeys[a].keys : RouteKeys[a].keys[i] \in RouteTexts
<1> DEFINE P(row) == /\ DOMAIN row.keys \subseteq 1 .. 3
                     /\ row.field \in TextFields =>
                          \A i \in DOMAIN row.keys : row.keys[i] \in RouteTexts
<1>1. \A a \in 1 .. Len(FlatKeys) : P(FlatKeys[a])
  BY SMTT(40) DEF FlatKeys, TextFields, RouteTexts
<1>2. \A a \in 1 .. Len(FilterKeys) : P(FilterKeys[a])
  BY SMTT(40) DEF FilterKeys, TextFields, RouteTexts
<1>3. Len(RouteKeys) = Len(FlatKeys) + Len(FilterKeys)
  BY DEF RouteKeys, FlatKeys, FilterKeys
<1>4. \A a \in 1 .. Len(RouteKeys) : P(RouteKeys[a])
  <2> HIDE DEF P
  <2> QED
    BY <1>1, <1>2, <1>3 DEF RouteKeys
<1> QED
  BY <1>4

(* What is found stands below one of the keys of the row. *)
LEMMA FoundBelow ==
  ASSUME NEW node, NEW a \in 1 .. Len(RouteKeys), Present(node, RouteKeys[a]) # {}
  PROVE  \E i \in DOMAIN RouteKeys[a].keys :
           /\ RouteKeys[a].keys[i] \in DOMAIN node
           /\ Found(node, RouteKeys[a]) = node[RouteKeys[a].keys[i]]
<1>1. Present(node, RouteKeys[a]) \in SUBSET (1 .. 3)
  BY RowShape DEF Present
<1>2. Min(Present(node, RouteKeys[a])) \in Present(node, RouteKeys[a])
  BY <1>1, FirstOf
<1> QED
  BY <1>2, Zenon DEF Present, Found

(* A cut text fits its field. *)
LEMMA CutFits ==
  ASSUME NEW t \in Text, NEW f \in DOMAIN Limit
  PROVE  Cut(t, Limit[f]) \in Texts(f)
<1>1. Limit[f] \in Nat
  BY ConfigAssumption
<1> QED
  BY <1>1 DEF Cut, Texts, Text

(* Setting one field to one of its values keeps the type of a route. *)
LEMMA UpdateKeepsType ==
  ASSUME NEW r \in RouteType, NEW f \in RouteFields, NEW v \in FieldType(f)
  PROVE  [r EXCEPT ![f] = v] \in RouteType
<1> DEFINE q == [r EXCEPT ![f] = v]
<1>1. r = [g \in RouteFields |-> r[g]] /\ \A g \in RouteFields : r[g] \in FieldType(g)
  BY RouteFieldwise
<1>2. q = [g \in RouteFields |-> q[g]]
  BY <1>1
<1>3. \A g \in RouteFields : q[g] \in FieldType(g)
  BY <1>1
<1> QED
  BY <1>2, <1>3, RouteFieldwise

(* Reading a legal value keeps the type of a route. *)
LEMMA StoringKeepsType ==
  ASSUME NEW r \in RouteType, NEW f \in KeyFields, NEW v, Legal(f, v),
         f \in TextFields => v \in Text
  PROVE  [r EXCEPT ![f] = Value(f, v)] \in RouteType
<1>1. CASE f \in NumberFields \cup {"kernel_port", "target", "rrtype_mask"}
  <2>1. f \in U8Fields \cup U16Fields \cup U32Fields \cup {"target", "rrtype_mask"}
    BY <1>1 DEF NumberFields, U16Fields
  <2>2. Value(f, v) \in FieldType(f)
    <3>1. Value(f, v) = v
      BY <2>1, StoredValues, Zenon
    <3>2. v \in FieldType(f)
      <4>1. CASE f \in U8Fields
        BY <4>1, LegalValues, FieldTypes, Zenon
      <4>2. CASE f \in U16Fields
        BY <4>2, LegalValues, FieldTypes, Zenon
      <4>3. CASE f \in U32Fields
        BY <4>3, LegalValues, FieldTypes, Zenon
      <4>4. CASE f \in {"target", "rrtype_mask"}
        BY <4>4, LegalValues, FieldTypes
      <4> QED
        BY <2>1, <4>1, <4>2, <4>3, <4>4, Zenon
    <3> QED
      BY <3>1, <3>2
  <2> QED
    BY <2>2, UpdateKeepsType DEF RouteFields
<1>2. CASE f \in {"pow_enabled", "bloom_enabled"}
  <2>1. Value(f, v) = (v \in Truthy) /\ FieldType(f) = BOOLEAN
    BY <1>2, StoredValues, FieldTypes DEF BoolFields
  <2>2. Value(f, v) \in FieldType(f)
    <3>1. CASE v \in Truthy
      BY <2>1, <3>1
    <3>2. CASE v \notin Truthy
      BY <2>1, <3>2
    <3> QED
      BY <3>1, <3>2
  <2> QED
    BY <2>2, UpdateKeepsType DEF RouteFields
<1>3. CASE f \in {"prog_name", "prefix", "suffix"}
  <2>1. f \in TextFields /\ f \in DOMAIN Limit
    BY <1>3, ConfigAssumption DEF TextFields
  <2>2. Value(f, v) = Cut(v, Limit[f]) /\ FieldType(f) = Texts(f)
    BY <1>3, <2>1, StoredValues, FieldTypes, Zenon
  <2> QED
    BY <2>1, <2>2, CutFits, UpdateKeepsType DEF RouteFields
<1>4. CASE f = "bloom_seeds"
  <2>1. v \in Seq(Text \ {<<>>})
    BY <1>4, LegalValues
  <2>2. "domain" \in DOMAIN Limit
    BY ConfigAssumption
  <2>3. \A e \in 1 .. Len(v) : Cut(v[e], Limit["domain"]) \in Texts("domain")
    BY <2>1, <2>2, CutFits
  <2>4. Value(f, v) = [e \in DOMAIN v |-> Cut(v[e], Limit["domain"])]
    BY <1>4, StoredValues
  <2>5. Value(f, v) \in Seq(Texts("domain"))
    BY <2>1, <2>3, <2>4
  <2>6. Value(f, v) \in FieldType(f)
    <3>1. FieldType(f) = Seq(Texts("domain"))
      BY <1>4, FieldTypes
    <3> QED
      BY <2>5, <3>1, Zenon
  <2> QED
    BY <2>6, UpdateKeepsType DEF RouteFields
<1> QED
  BY <1>1, <1>2, <1>3, <1>4 DEF KeyFields, OtherFields

(* The settings that zereh_parse_route fills in or clears at the end. *)
LEMMA SettledIsTyped ==
  ASSUME NEW r \in RouteType, NEW g
  PROVE  Settled(r, g) \in RouteType
<1>1. /\ {"min_labels", "max_labels", "pow_difficulty", "bloom_hash_functions"}
           \subseteq RouteFields
      /\ {"qname_min_len", "qname_max_len", "pow_time_window", "bloom_time_window"}
           \subseteq RouteFields
      /\ {"bloom_size", "bloom_seeds"} \subseteq RouteFields
  BY DEF RouteFields, KeyFields, NumberFields, OtherFields, U8Fields, U16Fields, U32Fields
<1>2. /\ \A f \in {"min_labels", "max_labels", "pow_difficulty", "bloom_hash_functions"} :
           FieldType(f) = 0 .. MaxU8
      /\ \A f \in {"qname_min_len", "qname_max_len", "pow_time_window", "bloom_time_window"} :
           FieldType(f) = 0 .. MaxU16
      /\ FieldType("bloom_size") = 0 .. MaxU32 /\ FieldType("bloom_seeds") = Seq(Texts("domain"))
  BY FieldTypes, Zenon DEF U8Fields, U16Fields, U32Fields
<1>0. 0 \in 0 .. MaxU8 /\ 0 \in 0 .. MaxU16 /\ 0 \in 0 .. MaxU32
  BY ConfigAssumption DEF MaxU8, MaxU16
<1>3. Paired(r, g) \in RouteType
  <2> DEFINE labels == Pair("min_labels", "max_labels", <<1, MaxLabels>>, r, g)
             length == Pair("qname_min_len", "qname_max_len", <<1, MaxQname>>, r, g)
  <2>1. /\ r.min_labels \in 0 .. MaxU8 /\ r.max_labels \in 0 .. MaxU8
        /\ r.qname_min_len \in 0 .. MaxU16 /\ r.qname_max_len \in 0 .. MaxU16
    BY DEF RouteType
  <2>2. labels[1] \in 0 .. MaxU8 /\ labels[2] \in 0 .. MaxU8
    <3>1. 1 \in 0 .. MaxU8 /\ MaxLabels \in 0 .. MaxU8
      BY DEF MaxU8, MaxLabels
    <3> QED
      BY <2>1, <3>1 DEF Pair
  <2>3. length[1] \in 0 .. MaxU16 /\ length[2] \in 0 .. MaxU16
    <3>1. 1 \in 0 .. MaxU16 /\ MaxQname \in 0 .. MaxU16
      BY DEF MaxU16, MaxQname
    <3> QED
      BY <2>1, <3>1 DEF Pair
  <2> DEFINE p1 == [r EXCEPT !["min_labels"] = labels[1]]
             p2 == [p1 EXCEPT !["max_labels"] = labels[2]]
             p3 == [p2 EXCEPT !["qname_min_len"] = length[1]]
             p4 == [p3 EXCEPT !["qname_max_len"] = length[2]]
  <2>4. Paired(r, g) = p4
    BY Zenon DEF Paired
  <2> HIDE DEF labels, length
  <2>5. p1 \in RouteType
    BY <1>1, <1>2, <2>2, UpdateKeepsType, Zenon
  <2> HIDE DEF p1
  <2>6. p2 \in RouteType
    BY <1>1, <1>2, <2>2, <2>5, UpdateKeepsType, Zenon
  <2> HIDE DEF p2
  <2>7. p3 \in RouteType
    BY <1>1, <1>2, <2>3, <2>6, UpdateKeepsType, Zenon
  <2> HIDE DEF p3
  <2>8. p4 \in RouteType
    BY <1>1, <1>2, <2>3, <2>7, UpdateKeepsType, Zenon
  <2> QED
    BY <2>4, <2>8
<1>4. ASSUME NEW p \in RouteType PROVE PowSettled(p) \in RouteType
  <2> DEFINE p1 == [p EXCEPT !["pow_difficulty"] = 0]
             p2 == [p1 EXCEPT !["pow_time_window"] = 0]
  <2>1. PowSettled(p) \in {p, p2}
    BY Zenon DEF PowSettled
  <2>2. p1 \in RouteType
    BY <1>1, <1>2, <1>0, UpdateKeepsType, Zenon
  <2> HIDE DEF p1
  <2>3. p2 \in RouteType
    BY <1>1, <1>2, <1>0, <2>2, UpdateKeepsType, Zenon
  <2> QED
    BY <2>1, <2>3
<1>5. ASSUME NEW p \in RouteType PROVE BloomSettled(p) \in RouteType
  <2>1. CASE p.bloom_enabled
    <3> DEFINE size == IF p.bloom_size = 0 THEN 1024 ELSE p.bloom_size
               functions == IF p.bloom_hash_functions = 0 THEN 3 ELSE p.bloom_hash_functions
               seeds == IF p.bloom_seeds = <<>> THEN <<p.domain>> ELSE p.bloom_seeds
               p1 == [p EXCEPT !["bloom_size"] = size]
               p2 == [p1 EXCEPT !["bloom_hash_functions"] = functions]
               p3 == [p2 EXCEPT !["bloom_seeds"] = seeds]
    <3>1. BloomSettled(p) = p3
      BY <2>1, Zenon DEF BloomSettled
    <3>2. size \in 0 .. MaxU32
      BY ConfigAssumption DEF RouteType, MaxBloom
    <3>3. functions \in 0 .. MaxU8
      BY DEF RouteType, MaxU8
    <3>4. seeds \in Seq(Texts("domain"))
      <4>1. p.bloom_seeds \in Seq(Texts("domain")) /\ p.domain \in Texts("domain")
        BY DEF RouteType
      <4> QED
        BY <4>1
    <3> HIDE DEF size, functions, seeds
    <3>5. p1 \in RouteType
      BY <1>1, <1>2, <3>2, UpdateKeepsType, Zenon
    <3> HIDE DEF p1
    <3>6. p2 \in RouteType
      BY <1>1, <1>2, <3>3, <3>5, UpdateKeepsType, Zenon
    <3> HIDE DEF p2
    <3>7. p3 \in RouteType
      BY <1>1, <1>2, <3>4, <3>6, UpdateKeepsType
    <3> QED
      BY <3>1, <3>7
  <2>2. CASE ~p.bloom_enabled
    <3> DEFINE p1 == [p EXCEPT !["bloom_size"] = 0]
               p2 == [p1 EXCEPT !["bloom_hash_functions"] = 0]
               p3 == [p2 EXCEPT !["bloom_time_window"] = 0]
               p4 == [p3 EXCEPT !["bloom_seeds"] = <<>>]
    <3>1. BloomSettled(p) = p4
      BY <2>2, Zenon DEF BloomSettled
    <3>2. p1 \in RouteType
      BY <1>0, <1>1, <1>2, UpdateKeepsType, Zenon
    <3> HIDE DEF p1
    <3>3. p2 \in RouteType
      BY <1>0, <1>1, <1>2, <3>2, UpdateKeepsType, Zenon
    <3> HIDE DEF p2
    <3>4. p3 \in RouteType
      BY <1>0, <1>1, <1>2, <3>3, UpdateKeepsType, Zenon
    <3> HIDE DEF p3
    <3>5. <<>> \in FieldType("bloom_seeds")
      <4>1. <<>> \in Seq(Texts("domain"))
        OBVIOUS
      <4> QED
        BY <1>2, <4>1, Zenon
    <3>6. p4 \in RouteType
      BY <1>1, <3>4, <3>5, UpdateKeepsType
    <3> QED
      BY <3>1, <3>6
  <2> QED
    BY <2>1, <2>2
<1> QED
  BY <1>3, <1>4, <1>5 DEF Settled

-----------------------------------------------------------------------------
(* Each route of the document has given one of the configuration. *)
CountInv ==
  /\ pc = "route" => n <= Len(doc.routes)
  /\ pc \in {"routes", "route"} => Len(cfg.routes) = n - 1 /\ n <= Len(doc.routes) + 1
  /\ pc = "config" /\ k > Len(ConfigKeys) => Len(cfg.routes) = Len(doc.routes)
  /\ Accepted => Len(cfg.routes) = Len(doc.routes)

(* The tables have these lengths. *)
LEMMA TableLengths == Len(ConfigKeys) = 23 /\ Len(RouteKeys) = 32
BY RoutesComeLast DEF RouteKeys, FlatKeys, FilterKeys

(* Every step keeps the count. *)
LEMMA CountStep == ConfigInv /\ CountInv /\ [Next]_vars => CountInv'
<1> SUFFICES ASSUME ConfigInv, CountInv, [Next]_vars PROVE CountInv'
  OBVIOUS
<1>1. /\ Len(doc.routes) \in Nat /\ n \in Nat \ {0} /\ k \in Nat \ {0} /\ Len(ConfigKeys) = 23
      /\ DOMAIN cfg = ConfigFields /\ "routes" \in ConfigFields
  BY DocumentAssumption, TableLengths, ConfigHas DEF ConfigInv, RoutesOK
<1>2. CASE Fail
  BY <1>2 DEF Fail, CountInv, Accepted
<1>3. CASE ReadConfigKey /\ ~Fail
  <2>1. /\ pc = "config" /\ pc' = pc /\ k <= Len(ConfigKeys) /\ ConfigKeys[k].field # "routes"
        /\ k' = k + 1
    BY <1>3 DEF ReadConfigKey
  <2>2. k' <= Len(ConfigKeys)
    BY <1>1, <2>1, RoutesComeLast
  <2> QED
    BY <1>1, <2>1, <2>2 DEF CountInv, Accepted
<1>4. CASE StartRoutes
  <2>1. pc' = "routes" /\ n' = 1 /\ cfg' = [cfg EXCEPT !.routes = <<>>] /\ UNCHANGED doc
    BY <1>4 DEF StartRoutes
  <2>2. cfg'.routes = <<>>
    BY <1>1, <2>1
  <2> QED
    BY <1>1, <2>1, <2>2 DEF CountInv, Accepted
<1>5. CASE StartRoute /\ ~Fail
  BY <1>1, <1>5 DEF StartRoute, CountInv, Accepted
<1>6. CASE (ReadRouteKey \/ DenyTypes) /\ ~Fail
  BY <1>1, <1>6 DEF ReadRouteKey, DenyTypes, CountInv, Accepted
<1>7. CASE FinishRoute /\ ~Fail
  <2>1. /\ pc = "route" /\ pc' = "routes" /\ n' = n + 1 /\ UNCHANGED doc
        /\ cfg' = [cfg EXCEPT !.routes = Append(@, Settled(route, given))]
    BY <1>7 DEF FinishRoute
  <2>2. PICK S : cfg.routes \in Seq(S)
    BY DEF ConfigInv, RoutesOK
  <2>3. Len(cfg'.routes) = Len(cfg.routes) + 1
    BY <1>1, <2>1, <2>2
  <2> QED
    BY <1>1, <2>1, <2>3 DEF CountInv, Accepted
<1>8. CASE FinishRoutes \/ (FinishConfig /\ ~Fail) \/ SeedTail \/ FinishSeed
  BY <1>1, <1>8 DEF FinishRoutes, FinishConfig, SeedTail, FinishSeed, CountInv, Accepted
<1>9. CASE UNCHANGED vars
  BY <1>9 DEF vars, CountInv, Accepted
<1> QED
  BY <1>2, <1>3, <1>4, <1>5, <1>6, <1>7, <1>8, <1>9 DEF Next

(* Everything that is read stays within the types of its fields. *)
TypeInv == ConfigInv /\ CountInv /\ TypeOK

(* Options keep theirs. *)
LEMMA ConfigKeyTypes ==
  ASSUME TypeInv, ReadConfigKey
  PROVE  TypeOK'
<1> DEFINE row == ConfigKeys[k]
<1>1. CASE Refused(doc.root, row)
  BY <1>1 DEF ReadConfigKey, Fail, TypeInv, TypeOK
<1>2. CASE ~Refused(doc.root, row)
  <2>1. /\ pc = "config" /\ pc' = pc /\ k <= Len(ConfigKeys) /\ row.field # "routes"
        /\ cfg' = Stored(cfg, doc.root, row) /\ k' = k + 1
        /\ UNCHANGED <<j, n, route>>
    BY <1>2 DEF ReadConfigKey
  <2>2. /\ DOMAIN cfg = ConfigFields
        /\ {"routes", "hash_algo", "default_kernel_port"} \subseteq ConfigFields
    BY ConfigHas DEF TypeInv, ConfigInv, RoutesOK
  <2>3. Present(doc.root, row) # {} => Legal(row.field, Found(doc.root, row))
    BY <1>2 DEF Refused
  <2> DEFINE f == row.field
             v == Found(doc.root, row)
  <2>4. cfg' = cfg \/ (Legal(f, v) /\ cfg' = [cfg EXCEPT ![f] = Value(f, v)])
    BY <2>1, <2>3 DEF Stored
  <2> HIDE DEF f, v
  <2>5. f # "routes"
    BY <2>1 DEF f
  <2>6. cfg'.routes = cfg.routes
    BY <2>2, <2>4, <2>5
  <2>7. f = "hash_algo" /\ Legal(f, v) => Value(f, v) \in {"fnv1a", "siphash"}
    BY LegalValues, StoredValues DEF HashAlgorithms
  <2>8. cfg'.hash_algo \in {"fnv1a", "siphash"}
    BY <2>2, <2>4, <2>7 DEF TypeInv, TypeOK
  <2>9. f = "default_kernel_port" /\ Legal(f, v) => Value(f, v) \in 0 .. MaxU16
    <3>1. "default_kernel_port" \in U16Fields
      BY DEF U16Fields
    <3>2. f = "default_kernel_port" => Value(f, v) = v
      BY <3>1, StoredValues, Zenon
    <3>3. f = "default_kernel_port" /\ Legal(f, v) => v \in 0 .. MaxU16
      BY <3>1, LegalValues, Zenon
    <3> QED
      BY <3>2, <3>3, Zenon
  <2>10. cfg'.default_kernel_port \in 0 .. MaxU16
    BY <2>2, <2>4, <2>9 DEF TypeInv, TypeOK
  <2>11. k' \in 1 .. Len(ConfigKeys) + 1
    BY <2>1, TableLengths DEF TypeInv, TypeOK
  <2> QED
    BY <2>1, <2>6, <2>8, <2>10, <2>11 DEF TypeInv, TypeOK
<1> QED
  BY <1>1, <1>2

(* The numbers among the defaults fit their fields. *)
LEMMA SmallNumbers ==
  /\ 0 \in 0 .. MaxU8 /\ 3 \in 0 .. MaxU8 /\ 0 \in 0 .. MaxU16
  /\ 0 \in 0 .. MaxU32 /\ 1024 \in 0 .. MaxU32
<1>1. 0 \in 0 .. MaxU8 /\ 3 \in 0 .. MaxU8 /\ 0 \in 0 .. MaxU16
  BY DEF MaxU8, MaxU16
<1>2. MaxU32 \in Nat /\ MaxU32 > 65536
  BY ConfigAssumption DEF MaxBloom
<1>3. 0 \in 0 .. MaxU32 /\ 1024 \in 0 .. MaxU32
  BY <1>2
<1> QED
  BY <1>1, <1>3

(* A route starts with defaults that fit. *)
LEMMA DefaultsAreTyped ==
  ASSUME NEW name \in Texts("domain"), NEW c, c.hash_algo \in {"fnv1a", "siphash"},
         c.default_kernel_port \in 0 .. MaxU16
  PROVE  RouteDefaults(name, c) \in RouteType
<1>1. \A f \in {"prog_name", "prefix", "suffix"} : <<>> \in Texts(f)
  BY ConfigAssumption DEF Texts, Text
<1>2. "user_space" \in Targets /\ {"A", "AAAA", "TXT"} \in SUBSET RrTypes
  BY DEF Targets, RrTypes
<1>3. <<>> \in Seq(Texts("domain"))
  OBVIOUS
<1> QED
  BY <1>1, <1>2, <1>3, SmallNumbers, SMTT(30) DEF RouteDefaults, RouteType

(* A route that starts. *)
LEMMA StartRouteTypes ==
  ASSUME TypeInv, StartRoute
  PROVE  TypeOK'
<1> DEFINE node == doc.routes[n]
           name == Cut(node["domain"], Limit["domain"])
<1>1. CASE \/ Len(cfg.routes) >= MaxRoutes
           \/ "domain" \notin DOMAIN node
           \/ node["domain"] = <<>>
  BY <1>1 DEF StartRoute, Fail, TypeInv, TypeOK
<1>2. CASE ~(\/ Len(cfg.routes) >= MaxRoutes
             \/ "domain" \notin DOMAIN node
             \/ node["domain"] = <<>>)
  <2>1. /\ pc = "routes" /\ n <= Len(doc.routes)
        /\ pc' = "route" /\ j' = 1 /\ UNCHANGED <<k, cfg, n>>
        /\ route' = RouteDefaults(name, cfg)
    BY <1>2 DEF StartRoute
  <2>2. doc \in Documents /\ n \in 1 .. Len(doc.routes)
    BY <2>1, DocumentAssumption DEF TypeInv, ConfigInv
  <2>3. node["domain"] \in Text
    BY <1>2, <2>2, DocumentAssumption DEF RouteTexts, Text
  <2>4. name \in Texts("domain")
    BY <2>3, CutFits, ConfigAssumption
  <2>5. route' \in RouteType
    BY <2>1, <2>4, DefaultsAreTyped DEF TypeInv, TypeOK
  <2> QED
    BY <2>1, <2>5, TableLengths DEF TypeInv, TypeOK
<1> QED
  BY <1>1, <1>2

(* The keys of a route. *)
LEMMA RouteKeyTypes ==
  ASSUME TypeInv, ReadRouteKey
  PROVE  TypeOK'
<1> DEFINE node == doc.routes[n]
           row == RouteKeys[j]
<1>1. CASE Refused(node, row)
  BY <1>1 DEF ReadRouteKey, Fail, TypeInv, TypeOK
<1>2. CASE ~Refused(node, row)
  <2>1. /\ pc = "route" /\ j' = j + 1 /\ UNCHANGED <<pc, k, cfg, n>>
        /\ j <= Len(RouteKeys) /\ row.field # "deny"
        /\ route' = Stored(route, node, row)
    BY <1>2 DEF ReadRouteKey
  <2>2. j \in 1 .. Len(RouteKeys) /\ route \in RouteType
    BY <2>1, TableLengths DEF TypeInv, TypeOK
  <2>3. route' \in RouteType
    <3>1. CASE Present(node, row) = {}
      BY <2>1, <2>2, <3>1 DEF Stored
    <3>2. CASE Present(node, row) # {}
      <4>1. Legal(row.field, Found(node, row))
        BY <1>2, <3>2 DEF Refused
      <4>2. row.field \in KeyFields
        BY <2>1, <2>2, <4>1, RowFields, LegalValues
      <4>3. ASSUME row.field \in TextFields PROVE Found(node, row) \in Text
        <5>1. PICK i \in DOMAIN row.keys : /\ row.keys[i] \in DOMAIN node
                                           /\ Found(node, row) = node[row.keys[i]]
          BY <2>2, <3>2, FoundBelow, Zenon
        <5>2. row.keys[i] \in RouteTexts
          BY <2>2, <4>3, RowShape
        <5>3. n \in 1 .. Len(doc.routes) /\ doc \in Documents
          BY <2>1 DEF TypeInv, ConfigInv, CountInv
        <5> QED
          BY <5>1, <5>2, <5>3, DocumentAssumption DEF Text
      <4>4. [route EXCEPT ![row.field] = Value(row.field, Found(node, row))] \in RouteType
        BY <2>2, <4>1, <4>2, <4>3, StoringKeepsType
      <4> QED
        BY <2>1, <3>2, <4>4 DEF Stored
    <3> QED
      BY <3>1, <3>2
  <2>4. j' \in 1 .. Len(RouteKeys) + 1
    BY <2>1, <2>2, TableLengths
  <2> QED
    BY <2>1, <2>3, <2>4 DEF TypeInv, TypeOK
<1> QED
  BY <1>1, <1>2

(* Denied types are taken from a set of types. *)
LEMMA DenyTypesTypes ==
  ASSUME TypeInv, DenyTypes
  PROVE  TypeOK'
<1> DEFINE node == doc.routes[n]
           row == RouteKeys[j]
           denied == IF Present(node, row) = {} THEN {} ELSE Found(node, row)
<1>1. CASE Refused(node, row) \/ route.rrtype_mask \ denied = {}
  BY <1>1 DEF DenyTypes, Fail, TypeInv, TypeOK
<1>2. CASE ~(Refused(node, row) \/ route.rrtype_mask \ denied = {})
  <2>1. /\ pc = "route" /\ j <= Len(RouteKeys) /\ j' = j + 1 /\ UNCHANGED <<pc, k, cfg, n>>
        /\ route' = [route EXCEPT !.rrtype_mask = @ \ denied]
    BY <1>2 DEF DenyTypes
  <2> HIDE DEF denied
  <2>2. route.rrtype_mask \ denied \in SUBSET RrTypes
    BY DEF TypeInv, TypeOK, RouteType
  <2>3. route' \in RouteType
    BY <2>1, <2>2, FieldTypes, UpdateKeepsType, Zenon
       DEF TypeInv, TypeOK, RouteFields, KeyFields, OtherFields
  <2>4. j' \in 1 .. Len(RouteKeys) + 1
    <3>1. j \in 1 .. Len(RouteKeys) + 1
      BY DEF TypeInv, TypeOK
    <3> QED
      BY <2>1, <3>1, TableLengths
  <2> QED
    BY <2>1, <2>3, <2>4 DEF TypeInv, TypeOK
<1> QED
  BY <1>1, <1>2

(* A finished route. *)
LEMMA FinishRouteTypes ==
  ASSUME TypeInv, FinishRoute
  PROVE  TypeOK'
<1> DEFINE s == Settled(route, given)
<1>1. CASE ~InRange(s)
  BY <1>1 DEF FinishRoute, Fail, TypeInv, TypeOK
<1>2. CASE InRange(s)
  <2>1. /\ pc = "route" /\ pc' = "routes" /\ n' = n + 1 /\ UNCHANGED <<k, j, route>>
        /\ cfg' = [cfg EXCEPT !.routes = Append(@, s)]
    BY <1>2 DEF FinishRoute
  <2>2. s \in RouteType
    BY SettledIsTyped DEF TypeInv, TypeOK
  <2> HIDE DEF s
  <2>3. /\ DOMAIN cfg = ConfigFields
        /\ {"routes", "hash_algo", "default_kernel_port"} \subseteq ConfigFields
    BY ConfigHas DEF TypeInv, ConfigInv, RoutesOK
  <2>4. /\ cfg'.routes = Append(cfg.routes, s) /\ cfg'.hash_algo = cfg.hash_algo
        /\ cfg'.default_kernel_port = cfg.default_kernel_port
    BY <2>1, <2>3
  <2>5. cfg'.routes \in Seq(RouteType)
    BY <2>2, <2>4 DEF TypeInv, TypeOK
  <2> QED
    BY <2>1, <2>4, <2>5 DEF TypeInv, TypeOK
<1> QED
  BY <1>1, <1>2

(* The other steps. *)
LEMMA OtherTypes ==
  ASSUME TypeInv, StartRoutes \/ FinishRoutes \/ FinishConfig \/ SeedTail \/ FinishSeed
  PROVE  TypeOK'
<1>1. CASE StartRoutes
  <2>1. pc' = "routes" /\ n' = 1 /\ cfg' = [cfg EXCEPT !.routes = <<>>] /\ UNCHANGED <<k, j, route>>
    BY <1>1 DEF StartRoutes
  <2>2. /\ DOMAIN cfg = ConfigFields
        /\ {"routes", "hash_algo", "default_kernel_port"} \subseteq ConfigFields
    BY ConfigHas DEF TypeInv, ConfigInv, RoutesOK
  <2>3. /\ cfg'.routes = <<>> /\ cfg'.hash_algo = cfg.hash_algo
        /\ cfg'.default_kernel_port = cfg.default_kernel_port
    BY <2>1, <2>2
  <2>4. cfg'.routes \in Seq(RouteType)
    BY <2>3
  <2> QED
    BY <2>1, <2>3, <2>4 DEF TypeInv, TypeOK
<1>2. CASE FinishRoutes
  <2>1. pc = "routes" /\ pc' = "config" /\ k' = k + 1 /\ UNCHANGED <<j, cfg, route, n>>
    BY <1>2 DEF FinishRoutes
  <2>2. k' \in 1 .. Len(ConfigKeys) + 1
    BY <2>1, TableLengths DEF TypeInv, ConfigInv
  <2> QED
    BY <2>1, <2>2 DEF TypeInv, TypeOK
<1>3. CASE FinishConfig
  BY <1>3 DEF FinishConfig, Fail, TypeInv, TypeOK
<1>4. CASE SeedTail \/ FinishSeed
  <2>1. /\ UNCHANGED <<k, j, cfg, route>> /\ n' \in {n, n + 1}
        /\ pc' \in {"seed", "seeded", "not_seeded", "update_failed"}
    BY <1>4 DEF SeedTail, FinishSeed
  <2> QED
    BY <2>1 DEF TypeInv, TypeOK
<1> QED
  BY <1>1, <1>2, <1>3, <1>4

(* What is read into struct zereh_config and struct zereh_route fits the   *)
(* fields, and no row of a table is read beyond its end, in every state    *)
(* and for every document.                                                 *)
THEOREM TypeCorrect == Spec => []TypeOK
<1>1. Init => CountInv
  BY TableLengths DEF Init, CountInv, Accepted
<1>2. Init => TypeOK
  <2> SUFFICES ASSUME Init PROVE TypeOK
    OBVIOUS
  <2>1. /\ pc = "config" /\ k = 1 /\ j = 1 /\ n = 1 /\ cfg = ConfigDefaults
        /\ route = RouteDefaults(<<>>, ConfigDefaults)
    BY DEF Init
  <2>2. /\ ConfigDefaults.hash_algo = "fnv1a" /\ ConfigDefaults.default_kernel_port = 5302
        /\ ConfigDefaults.routes = <<>>
    BY DEF ConfigDefaults
  <2>3. 5302 \in 0 .. MaxU16
    BY DEF MaxU16
  <2>4. <<>> \in Texts("domain")
    BY ConfigAssumption DEF Texts, Text
  <2>5. route \in RouteType
    BY <2>1, <2>2, <2>3, <2>4, DefaultsAreTyped
  <2>6. cfg.routes \in Seq(RouteType)
    BY <2>1, <2>2
  <2> QED
    BY <2>1, <2>2, <2>3, <2>5, <2>6, TableLengths DEF TypeOK
<1>3. ConfigInv /\ CountInv /\ TypeOK /\ [Next]_vars => TypeOK'
  <2> SUFFICES ASSUME TypeInv, [Next]_vars PROVE TypeOK'
    BY DEF TypeInv
  <2>1. CASE UNCHANGED vars
    BY <2>1 DEF vars, TypeInv, TypeOK
  <2> QED
    BY <2>1, ConfigKeyTypes, StartRouteTypes, RouteKeyTypes, DenyTypesTypes, FinishRouteTypes,
       OtherTypes DEF Next
<1> QED
  BY <1>1, <1>2, <1>3, ConfigInvariant, CountStep, PTL DEF Spec

-----------------------------------------------------------------------------
(***************************************************************************)
(* What the keys of a route have set when the rows before m are read.      *)
(***************************************************************************)

(* No such row has said anything about f. *)
Silent(node, f, m) ==
  \A b \in 1 .. m - 1 : RouteKeys[b].field = f => Present(node, RouteKeys[b]) = {}

(* Row a is the last of them that has. *)
Decides(node, f, a, m) ==
  /\ RouteKeys[a].field = f /\ Present(node, RouteKeys[a]) # {}
  /\ \A b \in a + 1 .. m - 1 : RouteKeys[b].field = f => Present(node, RouteKeys[b]) = {}

(* v is the default of f, or what the last row about f has stored. *)
Holds(v, node, c, f, m) ==
  \/ Silent(node, f, m) /\ v = RouteDefaults(<<>>, c)[f]
  \/ \E a \in 1 .. m - 1 : /\ Decides(node, f, a, m)
                           /\ v = Value(f, Found(node, RouteKeys[a]))

(* The row of the denied types comes after those of the allowed ones. *)
DenyRow == 27

Denied(node, m) ==
  IF m > DenyRow /\ Present(node, RouteKeys[DenyRow]) # {} THEN Found(node, RouteKeys[DenyRow])
  ELSE {}

ReadSoFar(node, c, r, g, m) ==
  /\ \A a \in 1 .. m - 1 : ~Refused(node, RouteKeys[a])
  /\ \A f \in KeyFields \ {"rrtype_mask"} : Holds(r[f], node, c, f, m)
  /\ \A f \in KeyFields : f \in g <=> ~Silent(node, f, m)
  /\ \E mask : /\ Holds(mask, node, c, "rrtype_mask", m)
               /\ r.rrtype_mask = mask \ Denied(node, m)

ReadInv == pc = "route" => ReadSoFar(doc.routes[n], cfg, route, given, j)

(* A row that says nothing about f changes nothing for it. *)
LEMMA RowPassesBy ==
  ASSUME NEW node, NEW c, NEW f, NEW v, NEW m \in 1 .. 32,
         RouteKeys[m].field = f => Present(node, RouteKeys[m]) = {}
  PROVE  /\ Silent(node, f, m + 1) <=> Silent(node, f, m)
         /\ Holds(v, node, c, f, m) => Holds(v, node, c, f, m + 1)
<1>1. Silent(node, f, m + 1) <=> Silent(node, f, m)
  BY DEF Silent
<1>2. ASSUME NEW a \in 1 .. m - 1, Decides(node, f, a, m) PROVE Decides(node, f, a, m + 1)
  BY <1>2 DEF Decides
<1>3. \A a \in 1 .. m - 1 : a \in 1 .. (m + 1) - 1
  OBVIOUS
<1> QED
  BY <1>1, <1>2, <1>3 DEF Holds

(* A row that says something decides. *)
LEMMA RowDecides ==
  ASSUME NEW node, NEW c, NEW m \in 1 .. 32, Present(node, RouteKeys[m]) # {}
  PROVE  LET f == RouteKeys[m].field
         IN  /\ ~Silent(node, f, m + 1)
             /\ Holds(Value(f, Found(node, RouteKeys[m])), node, c, f, m + 1)
<1> DEFINE f == RouteKeys[m].field
<1>1. m \in 1 .. (m + 1) - 1
  OBVIOUS
<1>2. ~Silent(node, f, m + 1)
  BY <1>1 DEF Silent
<1>3. Decides(node, f, m, m + 1)
  BY DEF Decides
<1> QED
  BY <1>1, <1>2, <1>3 DEF Holds

(* Where the rows about the types stand. *)
LEMMA TypeRows ==
  /\ \A a \in 1 .. 32 : RouteKeys[a].field = "deny" <=> a = DenyRow
  /\ \A a \in 1 .. 32 : RouteKeys[a].field = "rrtype_mask" => a < DenyRow
<1>1. Len(FlatKeys) = 13 /\ \A a \in 1 .. 13 : RouteKeys[a] = FlatKeys[a]
  BY DEF RouteKeys, FlatKeys, FilterKeys
<1>2. \A a \in 14 .. 32 : RouteKeys[a] = FilterKeys[a - 13]
  BY DEF RouteKeys, FlatKeys, FilterKeys
<1>3. \A a \in 1 .. 13 : FlatKeys[a].field # "deny"
  BY DEF FlatKeys
<1>4. \A a \in 1 .. 19 : /\ FilterKeys[a].field = "deny" <=> a = 14
                         /\ FilterKeys[a].field = "rrtype_mask" => a < 14
  BY DEF FilterKeys
<1>5. \A a \in 14 .. 32 : a - 13 \in 1 .. 19
  OBVIOUS
<1> QED
  BY <1>1, <1>2, <1>3, <1>4, <1>5 DEF DenyRow

(* Reading a key. *)
LEMMA RouteKeyReads ==
  ASSUME TypeInv, ReadInv, ReadRouteKey
  PROVE  ReadInv'
<1> DEFINE node == doc.routes[n]
           row == RouteKeys[j]
           f0 == row.field
           v0 == Value(f0, Found(node, row))
<1>1. CASE Refused(node, row)
  BY <1>1 DEF ReadRouteKey, Fail, ReadInv
<1>2. CASE ~Refused(node, row)
  <2>1. /\ pc = "route" /\ j' = j + 1 /\ UNCHANGED <<doc, pc, cfg, n>>
        /\ j <= Len(RouteKeys) /\ f0 # "deny"
        /\ route' = Stored(route, node, row)
        /\ given' = IF Present(node, row) = {} THEN given ELSE given \cup {f0}
    BY <1>2 DEF ReadRouteKey
  <2>2. j \in 1 .. 32
    <3>1. j \in 1 .. Len(RouteKeys) + 1
      BY DEF TypeInv, TypeOK
    <3> QED
      BY <2>1, <3>1, TableLengths
  <2>3. ReadSoFar(node, cfg, route, given, j)
    BY <2>1 DEF ReadInv
  <2>4. DOMAIN route = RouteFields /\ KeyFields \subseteq RouteFields
    BY <2>1 DEF TypeInv, ConfigInv, Raw, RouteFields
  <2>5. \A a \in 1 .. (j + 1) - 1 : ~Refused(node, RouteKeys[a])
    <3>1. \A a \in 1 .. j - 1 : ~Refused(node, RouteKeys[a])
      BY <2>3, Zenon DEF ReadSoFar
    <3>2. \A a \in 1 .. (j + 1) - 1 : a \in 1 .. j - 1 \/ a = j
      BY <2>2
    <3> QED
      BY <1>2, <3>1, <3>2, Zenon
  <2>6. Denied(node, j + 1) = Denied(node, j)
    <3>1. j # DenyRow
      BY <2>1, <2>2, TypeRows, Zenon
    <3>2. j + 1 > DenyRow <=> j > DenyRow
      BY <2>2, <3>1 DEF DenyRow
    <3> QED
      BY <3>2, Zenon DEF Denied
  <2>7. CASE Present(node, row) = {}
    <3>1. route' = route /\ given' = given
      BY <2>1, <2>7 DEF Stored
    <3>2. \A f : \A v : /\ Silent(node, f, j + 1) <=> Silent(node, f, j)
                        /\ Holds(v, node, cfg, f, j) => Holds(v, node, cfg, f, j + 1)
      BY <2>2, <2>7, RowPassesBy
    <3> HIDE DEF node, row, f0, v0
    <3>3. ReadSoFar(node, cfg, route, given, j + 1)
      BY <2>3, <2>5, <2>6, <3>2, Zenon DEF ReadSoFar
    <3> QED
      BY <2>1, <3>1, <3>3, Zenon DEF ReadInv, node
  <2>8. CASE Present(node, row) # {}
    <3>1. route' = [route EXCEPT ![f0] = v0] /\ given' = given \cup {f0}
      BY <2>1, <2>8 DEF Stored
    <3>2. f0 \in KeyFields
      <4>1. Legal(f0, Found(node, row))
        BY <1>2, <2>8 DEF Refused
      <4> QED
        BY <2>1, <2>2, <4>1, RowFields, LegalValues, TableLengths, Zenon
    <3>3. ~Silent(node, f0, j + 1) /\ Holds(v0, node, cfg, f0, j + 1)
      BY <2>2, <2>8, RowDecides, Zenon
    <3>4. \A f : f # f0 =>
            \A v : /\ Silent(node, f, j + 1) <=> Silent(node, f, j)
                   /\ Holds(v, node, cfg, f, j) => Holds(v, node, cfg, f, j + 1)
      BY <2>2, RowPassesBy
    <3> HIDE DEF node, row, f0, v0
    <3>5. route'[f0] = v0 /\ \A f \in KeyFields : f # f0 => route'[f] = route[f]
      BY <2>4, <3>1, <3>2
    <3>6. \A f \in KeyFields \ {"rrtype_mask"} : Holds(route'[f], node, cfg, f, j + 1)
      BY <2>3, <3>3, <3>4, <3>5 DEF ReadSoFar
    <3>7. \A f \in KeyFields : f \in given' <=> ~Silent(node, f, j + 1)
      BY <2>3, <3>1, <3>3, <3>4 DEF ReadSoFar
    <3>8. \E mask : /\ Holds(mask, node, cfg, "rrtype_mask", j + 1)
                    /\ route'.rrtype_mask = mask \ Denied(node, j + 1)
      <4>1. "rrtype_mask" \in KeyFields
        BY DEF KeyFields, OtherFields
      <4>2. CASE f0 = "rrtype_mask"
        <5>1. Denied(node, j + 1) = {}
          BY <2>2, <2>6, <4>2, TypeRows DEF Denied, DenyRow, f0, row
        <5> QED
          BY <3>3, <3>5, <4>2, <5>1
      <4>3. CASE f0 # "rrtype_mask"
        <5>1. route'.rrtype_mask = route.rrtype_mask
          BY <3>5, <4>1, <4>3
        <5>2. PICK mask : /\ Holds(mask, node, cfg, "rrtype_mask", j)
                          /\ route.rrtype_mask = mask \ Denied(node, j)
          BY <2>3 DEF ReadSoFar
        <5>3. Holds(mask, node, cfg, "rrtype_mask", j + 1)
          BY <3>4, <4>3, <5>2
        <5> QED
          BY <2>6, <5>1, <5>2, <5>3
      <4> QED
        BY <4>2, <4>3
    <3>9. ReadSoFar(node, cfg, route', given', j + 1)
      BY <2>5, <3>6, <3>7, <3>8 DEF ReadSoFar
    <3> QED
      BY <2>1, <3>9 DEF ReadInv, node
  <2> QED
    BY <2>7, <2>8
<1> QED
  BY <1>1, <1>2

(* Denying types. *)
LEMMA DenyTypesReads ==
  ASSUME TypeInv, ReadInv, DenyTypes
  PROVE  ReadInv'
<1> DEFINE node == doc.routes[n]
           row == RouteKeys[j]
           denied == IF Present(node, row) = {} THEN {} ELSE Found(node, row)
<1>1. CASE Refused(node, row) \/ route.rrtype_mask \ denied = {}
  BY <1>1 DEF DenyTypes, Fail, ReadInv
<1>2. CASE ~(Refused(node, row) \/ route.rrtype_mask \ denied = {})
  <2>1. /\ pc = "route" /\ j <= Len(RouteKeys) /\ row.field = "deny" /\ j' = j + 1
        /\ UNCHANGED <<doc, pc, cfg, given, n>>
        /\ route' = [route EXCEPT !.rrtype_mask = @ \ denied]
    BY <1>2 DEF DenyTypes
  <2>2. j \in 1 .. 32
    <3>1. j \in 1 .. Len(RouteKeys) + 1
      BY DEF TypeInv, TypeOK
    <3> QED
      BY <2>1, <3>1, TableLengths
  <2>3. j = DenyRow
    BY <2>1, <2>2, TypeRows, Zenon
  <2>4. ReadSoFar(node, cfg, route, given, j)
    BY <2>1 DEF ReadInv
  <2>5. \A a \in 1 .. (j + 1) - 1 : ~Refused(node, RouteKeys[a])
    <3>1. \A a \in 1 .. j - 1 : ~Refused(node, RouteKeys[a])
      BY <2>4, Zenon DEF ReadSoFar
    <3>2. \A a \in 1 .. (j + 1) - 1 : a \in 1 .. j - 1 \/ a = j
      BY <2>2
    <3> QED
      BY <1>2, <3>1, <3>2, Zenon
  <2>6. Denied(node, j) = {} /\ Denied(node, j + 1) = denied
    BY <2>3 DEF Denied, DenyRow
  <2>7. \A f \in KeyFields : f # "deny"
    BY DEF KeyFields, NumberFields, OtherFields, U8Fields, U16Fields, U32Fields
  <2>8. \A f \in KeyFields :
          \A v : /\ Silent(node, f, j + 1) <=> Silent(node, f, j)
                 /\ Holds(v, node, cfg, f, j) => Holds(v, node, cfg, f, j + 1)
    BY <2>1, <2>2, <2>7, RowPassesBy, Zenon
  <2>9. "rrtype_mask" \in KeyFields /\ DOMAIN route = RouteFields /\ KeyFields \subseteq RouteFields
    BY <2>1 DEF TypeInv, ConfigInv, Raw, RouteFields, KeyFields, OtherFields
  <2> HIDE DEF node, row, denied
  <2>10. /\ route'.rrtype_mask = route.rrtype_mask \ denied
         /\ \A f \in KeyFields \ {"rrtype_mask"} : route'[f] = route[f]
    BY <2>1, <2>9
  <2>11. \A f \in KeyFields \ {"rrtype_mask"} : Holds(route'[f], node, cfg, f, j + 1)
    BY <2>4, <2>8, <2>10 DEF ReadSoFar
  <2>12. \A f \in KeyFields : f \in given <=> ~Silent(node, f, j + 1)
    BY <2>4, <2>8 DEF ReadSoFar
  <2>13. PICK mask : Holds(mask, node, cfg, "rrtype_mask", j) /\ route.rrtype_mask = mask
    BY <2>4, <2>6 DEF ReadSoFar
  <2>14. Holds(mask, node, cfg, "rrtype_mask", j + 1) /\ route'.rrtype_mask = mask \ denied
    BY <2>8, <2>9, <2>10, <2>13
  <2>15. ReadSoFar(node, cfg, route', given, j + 1)
    BY <2>5, <2>6, <2>11, <2>12, <2>14 DEF ReadSoFar
  <2> QED
    BY <2>1, <2>15 DEF ReadInv, node
<1> QED
  BY <1>1, <1>2

(* The defaults do not depend on the domain. *)
LEMMA DefaultsAgree ==
  ASSUME NEW name, NEW c, NEW f \in KeyFields
  PROVE  RouteDefaults(name, c)[f] = RouteDefaults(<<>>, c)[f]
<1> DEFINE p == RouteDefaults(name, c)
           q == RouteDefaults(<<>>, c)
<1>1. /\ p.target = q.target /\ p.xsk_queue = q.xsk_queue /\ p.kernel_port = q.kernel_port
      /\ p.prog_index = q.prog_index /\ p.prog_name = q.prog_name /\ p.prefix = q.prefix
      /\ p.suffix = q.suffix
  BY ZenonT(40) DEF RouteDefaults
<1>2. /\ p.min_labels = q.min_labels /\ p.max_labels = q.max_labels
      /\ p.qname_min_len = q.qname_min_len /\ p.qname_max_len = q.qname_max_len
      /\ p.rrtype_mask = q.rrtype_mask /\ p.pow_enabled = q.pow_enabled
      /\ p.pow_difficulty = q.pow_difficulty
  BY ZenonT(40) DEF RouteDefaults
<1>3. /\ p.pow_time_window = q.pow_time_window /\ p.bloom_enabled = q.bloom_enabled
      /\ p.bloom_size = q.bloom_size /\ p.bloom_hash_functions = q.bloom_hash_functions
      /\ p.bloom_time_window = q.bloom_time_window /\ p.bloom_seeds = q.bloom_seeds
      /\ p.rate_limit_qps = q.rate_limit_qps
  BY ZenonT(40) DEF RouteDefaults
<1> HIDE DEF p, q
<1>4. f \in {"target", "xsk_queue", "kernel_port", "prog_index", "prog_name", "prefix", "suffix",
            "min_labels", "max_labels", "qname_min_len", "qname_max_len", "rrtype_mask",
            "pow_enabled", "pow_difficulty", "pow_time_window", "bloom_enabled", "bloom_size",
            "bloom_hash_functions", "bloom_time_window", "bloom_seeds", "rate_limit_qps"}
  BY DEF KeyFields, NumberFields, OtherFields, U8Fields, U16Fields, U32Fields
<1>5. p[f] = q[f]
  BY <1>1, <1>2, <1>3, <1>4, Zenon
<1> QED
  BY <1>5 DEF p, q

(* A route starts with the defaults. *)
LEMMA StartRouteReads ==
  ASSUME TypeInv, StartRoute
  PROVE  ReadInv'
<1> DEFINE node == doc.routes[n]
           name == Cut(node["domain"], Limit["domain"])
<1>1. CASE Fail
  BY <1>1 DEF Fail, ReadInv
<1>2. CASE ~Fail
  <2>1. /\ pc' = "route" /\ j' = 1 /\ given' = {} /\ UNCHANGED <<doc, cfg, n>>
        /\ route' = RouteDefaults(name, cfg)
    BY <1>2 DEF StartRoute
  <2>2. \A f \in KeyFields : route'[f] = RouteDefaults(<<>>, cfg)[f]
    BY <2>1, DefaultsAgree
  <2>3. \A f : Silent(node, f, 1)
    BY DEF Silent
  <2>4. \A f \in KeyFields : Holds(route'[f], node, cfg, f, 1)
    BY <2>2, <2>3 DEF Holds
  <2>5. Denied(node, 1) = {} /\ "rrtype_mask" \in KeyFields
    BY DEF Denied, DenyRow, KeyFields, OtherFields
  <2>6. \E mask : /\ Holds(mask, node, cfg, "rrtype_mask", 1)
                  /\ route'.rrtype_mask = mask \ Denied(node, 1)
    <3>1. Holds(route'.rrtype_mask, node, cfg, "rrtype_mask", 1)
      BY <2>4, <2>5
    <3> QED
      BY <2>5, <3>1
  <2>7. ReadSoFar(node, cfg, route', {}, 1)
    <3>1. \A a \in 1 .. 1 - 1 : FALSE
      OBVIOUS
    <3> QED
      BY <2>3, <2>4, <2>6, <3>1, Zenon DEF ReadSoFar
  <2> QED
    BY <2>1, <2>7 DEF ReadInv
<1> QED
  BY <1>1, <1>2

(* Every step keeps it. *)
LEMMA ReadStep == TypeInv /\ ReadInv /\ [Next]_vars => ReadInv'
<1> SUFFICES ASSUME TypeInv, ReadInv, [Next]_vars PROVE ReadInv'
  OBVIOUS
<1>1. ASSUME \/ ReadConfigKey \/ StartRoutes \/ FinishRoute \/ FinishRoutes \/ FinishConfig
             \/ SeedTail \/ FinishSeed
      PROVE  pc' # "route"
  BY <1>1 DEF ReadConfigKey, StartRoutes, FinishRoute, FinishRoutes, FinishConfig, SeedTail,
              FinishSeed, Fail
<1>2. CASE UNCHANGED vars
  BY <1>2 DEF vars, ReadInv
<1> QED
  BY <1>1, <1>2, StartRouteReads, RouteKeyReads, DenyTypesReads DEF Next, ReadInv
=============================================================================
