----------------------------- MODULE XdpRouter -----------------------------
(***************************************************************************)
(* The data plane: xdp/xdp_template.c with the switch cases and fallback   *)
(* rules that control/codegen.c writes into it, on several CPUs, while the *)
(* loader swaps one generation of the program for the next.                *)
(*                                                                         *)
(* A generation is one loaded object: a configuration compiled into a      *)
(* program, with maps of its own.  A packet runs through one generation on *)
(* one CPU.  Its run is split where the code reads the clock or a map that *)
(* another party writes; the code between two such points is one step.     *)
(***************************************************************************)
EXTENDS QnameMatch, FiniteSets, FiniteSetsExt

CONSTANTS
  Cpus,                    \* the CPUs that receive packets
  Loaded,                  \* the configurations, in the order of their loading
  Packets,                 \* the packets that may arrive
  RouteHash(_),            \* FNV-1a or SipHash of a normalised, nonempty name
  Mix(_, _, _),            \* mix64 of a hash, a hash function's number and a bucket
  LeadingZeros(_, _, _),   \* of mix64 of a hash, a DNS id and a bucket
  BootEpoch,               \* the wall-clock second at which the monotonic clock was 0
  MaxSec                   \* the model's clock stops here

Gens == 1 .. Len(Loaded)
Routes(g) == Loaded[g].routes
RouteIds == UNION {DOMAIN Routes(g) : g \in Gens}

ASSUME RouterAssumption ==
  /\ MaxSec \in Nat /\ BootEpoch \in Nat
  /\ Len(Loaded) \in Nat
  /\ Packets # {}
  /\ \A g \in Gens :
       /\ Loaded[g].default \in {"PASS", "DROP"}
       /\ DOMAIN Routes(g) \subseteq Nat \ {0}
       /\ \A r \in DOMAIN Routes(g) :
            /\ Routes(g)[r].domain \in Seq(STRING)
            /\ {Routes(g)[r].qps, Routes(g)[r].powWindow} \subseteq Nat
            /\ Routes(g)[r].target \in {"user_space", "kernel_space", "xdp_prog"}

(* zereh_parse_route accepts no other Bloom sizes and hash counts. *)
ASSUME BloomAssumption ==
  \A g \in Gens : \A r \in DOMAIN Routes(g) :
    Routes(g)[r].bloom => /\ Routes(g)[r].bloomSize \in 64 .. 65536
                          /\ Routes(g)[r].bloomHashes \in 1 .. 8

(* zereh_hash_domain: a name that is empty once normalised hashes to 0. *)
HashDomain(domain) == IF Normalize(domain) = <<>> THEN 0 ELSE RouteHash(Normalize(domain))

(* clang refuses a switch with two equal labels, so no such program exists. *)
ASSUME DistinctCases ==
  \A g \in Gens : \A q, r \in DOMAIN Routes(g) :
    HashDomain(Routes(g)[q].domain) = HashDomain(Routes(g)[r].domain) => q = r

VARIABLES
  now,       \* bpf_ktime_get_ns, in seconds
  ready,     \* the newest generation whose maps are seeded
  active,    \* the generation attached to the interface; 0: none yet
  rate,      \* rate[<<g, c, r>>]: CPU c's route_rate_state[r] of generation g
  bloom,     \* bloom[g]: the bits set in pow_bloom of generation g
  loadedAt,  \* history: the second in which pow_bloom of g was seeded
  xsk,       \* xsk[g]: the entries of xsk_map of g that hold a socket
  tails,     \* tails[g]: whether prog_array of g has its entries
  work,      \* work[c]: the packet CPU c is processing, or processed last
  admitted   \* history: packets rate_limit_allow let through this second

vars == <<now, ready, active, rate, bloom, loadedAt, xsk, tails, work, admitted>>
control == <<ready, active, bloom, loadedAt, xsk, tails>>

Stages == {"idle", "rate", "pow", "bloom", "target", "done"}
Verdicts == {"none", "PASS", "DROP", "ABORTED", "REDIRECT", "REWRITE", "TAIL"}
Checks == {"none", "parse", "global", "default", "filter", "rate", "pow", "bloom", "target"}
Entries == Gens \X Cpus \X RouteIds
Queues == 0 .. 63   \* the entries of xsk_map

PacketWork ==
  [stage : Stages, gen : 0 .. Len(Loaded), pkt : Packets, route : RouteIds \cup {0},
   verdict : Verdicts, by : Checks, at : 0 .. MaxSec]

TypeOK ==
  /\ now \in 0 .. MaxSec
  /\ ready \in 0 .. Len(Loaded)
  /\ active \in 0 .. ready
  /\ rate \in [Entries -> [window : 0 .. MaxSec, count : Nat]]
  /\ DOMAIN bloom = Gens
  /\ loadedAt \in [Gens -> 0 .. MaxSec]
  /\ xsk \in [Gens -> SUBSET Queues]
  /\ tails \in [Gens -> BOOLEAN]
  /\ work \in [Cpus -> PacketWork]
  /\ admitted \in [Entries -> Nat]

Init ==
  /\ now = 0
  /\ ready = 0
  /\ active = 0
  /\ rate = [e \in Entries |-> [window |-> 0, count |-> 0]]
  /\ bloom = [g \in Gens |-> {}]
  /\ loadedAt = [g \in Gens |-> 0]
  /\ xsk = [g \in Gens |-> {}]
  /\ tails = [g \in Gens |-> FALSE]
  /\ work = [c \in Cpus |-> [stage |-> "idle", gen |-> 0, pkt |-> CHOOSE p \in Packets : TRUE,
                             route |-> 0, verdict |-> "none", by |-> "none", at |-> 0]]
  /\ admitted = [e \in Entries |-> 0]

-----------------------------------------------------------------------------
(***************************************************************************)
(* Decisions that depend only on the packet and the generated program.     *)
(***************************************************************************)

(* parse_eth_ipv4_udp, the port test and parse_dns_query. *)
ParsesAsQuery(p) ==
  /\ p.udp /\ p.port = 53
  /\ p.query           \* header complete, QR clear, a question
  /\ NameParses(p.labels)

GlobalPreRoute(g, p) ==
  /\ p.size <= Loaded[g].maxSize
  /\ p.src \notin Loaded[g].blacklist
  /\ p.opcode \in Loaded[g].opcodes
  /\ ~(Loaded[g].dropTruncated /\ p.tc)

ExactRoutes(g, qname) == {r \in DOMAIN Routes(g) : HashDomain(Routes(g)[r].domain) = RouteHash(qname)}

(* The fallback rules test the domain as it is written in the YAML file. *)
FallbackRoutes(g, qname) == {r \in DOMAIN Routes(g) : MatchSuffix(qname, Routes(g)[r].domain)}

(* Variant: the fallback rules come before the switch. *)
SelectRouteFallbackFirst(g, qname) ==
  IF FallbackRoutes(g, qname) # {} THEN Min(FallbackRoutes(g, qname))
  ELSE IF ExactRoutes(g, qname) # {} THEN Min(ExactRoutes(g, qname))
  ELSE 0

(* The switch, then the fallback rules in the order of the routes. *)
SelectRoute(g, qname) ==
  IF ExactRoutes(g, qname) # {} THEN Min(ExactRoutes(g, qname))
  ELSE IF FallbackRoutes(g, qname) # {} THEN Min(FallbackRoutes(g, qname))
  ELSE 0

(* Variant: the suffix of the route is not compared. *)
StaticFiltersNoSuffix(route, p) ==
  LET qname == Qname(p.labels)
  IN  /\ Len(p.labels) \in route.minLabels .. route.maxLabels
      /\ Len(qname) \in route.minLen .. route.maxLen
      /\ p.qtype \in route.types
      /\ MatchPrefix(qname, route.prefix)

(* The part of apply_app_filters before the rate limiter. *)
StaticFilters(route, p) ==
  LET qname == Qname(p.labels)
  IN  /\ Len(p.labels) \in route.minLabels .. route.maxLabels
      /\ Len(qname) \in route.minLen .. route.maxLen
      /\ p.qtype \in route.types
      /\ MatchPrefix(qname, route.prefix)
      /\ MatchSuffix(qname, route.suffix)

-----------------------------------------------------------------------------
(***************************************************************************)
(* The life of a packet on CPU c.                                          *)
(***************************************************************************)

MyRoute(c) == Routes(work[c].gen)[work[c].route]
MyEntry(c) == <<work[c].gen, c, work[c].route>>
MyHash(c) == RouteHash(Qname(work[c].pkt.labels))

Decided(w, verdict, check) ==
  [w EXCEPT !.stage = "done", !.verdict = verdict, !.by = check, !.at = now]

Decide(c, verdict, check) == work' = [work EXCEPT ![c] = Decided(@, verdict, check)]

Proceed(c, stage) == work' = [work EXCEPT ![c].stage = stage]

(* xdp_router up to the rate limiter of the route it selects, in program g. *)
Classify(g, p) ==
  LET r == SelectRoute(g, Qname(p.labels))
      w == [stage |-> "rate", gen |-> g, pkt |-> p, route |-> 0,
            verdict |-> "none", by |-> "none", at |-> now]
      routed == [w EXCEPT !.route = r]
  IN  IF ~ParsesAsQuery(p) THEN Decided(w, "PASS", "parse")
      ELSE IF ~GlobalPreRoute(g, p) THEN Decided(w, "DROP", "global")
      ELSE IF r = 0 THEN Decided(w, Loaded[g].default, "default")
      ELSE IF ~StaticFilters(Routes(g)[r], p) THEN Decided(routed, "DROP", "filter")
      ELSE routed

Receive(c, p) ==
  /\ work[c].stage \in {"idle", "done"}
  /\ active # 0
  /\ work' = [work EXCEPT ![c] = Classify(active, p)]
  /\ UNCHANGED <<now, rate, admitted, control>>

(* Variant: one packet too many. *)
BudgetSpentOffByOne(state, qps) == state.window = now /\ state.count > qps

(* Variant: the count of an earlier second counts. *)
BudgetSpentStale(state, qps) == state.count >= qps

BudgetSpent(state, qps) == state.window = now /\ state.count >= qps

(* rate_limit_allow.  Only this CPU touches its entry, so reading and      *)
(* writing it is one step.                                                 *)
RateLimit(c) ==
  LET e == MyEntry(c)
      qps == MyRoute(c).qps
  IN  /\ work[c].stage = "rate"
      /\ \/ /\ qps = 0
            /\ Proceed(c, "pow")
            /\ UNCHANGED <<rate, admitted>>
         \/ /\ qps # 0
            /\ ~BudgetSpent(rate[e], qps)
            /\ rate' = [rate EXCEPT ![e] =
                 [window |-> now, count |-> IF @.window = now THEN @.count + 1 ELSE 1]]
            /\ admitted' = [admitted EXCEPT ![e] = @ + 1]
            /\ Proceed(c, "pow")
         \/ /\ qps # 0
            /\ BudgetSpent(rate[e], qps)
            /\ Decide(c, "DROP", "rate")
            /\ UNCHANGED <<rate, admitted>>
      /\ UNCHANGED <<now, control>>

(* Variant: only the current bucket counts. *)
BucketsCurrentOnly(t, window) == IF window = 0 THEN {0} ELSE {t \div window}

(* Variant: one bucket too many. *)
BucketsThree(t, window) ==
  IF window = 0 THEN {0}
  ELSE {b \in 0 .. (t \div window) : b + 2 >= t \div window}

(* The buckets of a clock at t that pow_allow and bloom_allow accept and   *)
(* seed_bloom_map fills: the current one and, if there is one, the last.   *)
Buckets(t, window) ==
  IF window = 0 THEN {0}
  ELSE {b \in 0 .. (t \div window) : b + 1 >= t \div window}

PowAllow(c) ==
  \/ MyRoute(c).difficulty = 0
  \/ \E b \in Buckets(now, MyRoute(c).powWindow) :
       LeadingZeros(MyHash(c), work[c].pkt.id, b) >= MyRoute(c).difficulty

PowCheck(c) ==
  /\ work[c].stage = "pow"
  /\ IF PowAllow(c) THEN Proceed(c, "bloom") ELSE Decide(c, "DROP", "pow")
  /\ UNCHANGED <<now, rate, admitted, control>>

(* The bits of one name in one bucket. *)
BloomBits(hash, route, b) == {Mix(hash, k, b) % route.bloomSize : k \in 1 .. route.bloomHashes}

(* The seeder of the loader and the test of the data plane use the hash of *)
(* a whole name: the seed's there, the query's here.                       *)
BloomAllow(c) ==
  \/ ~MyRoute(c).bloom
  \/ \E b \in Buckets(now, MyRoute(c).bloomWindow) :
       BloomBits(MyHash(c), MyRoute(c), b) \subseteq bloom[work[c].gen]

BloomCheck(c) ==
  /\ work[c].stage = "bloom"
  /\ IF BloomAllow(c) THEN Proceed(c, "target") ELSE Decide(c, "DROP", "bloom")
  /\ UNCHANGED <<now, rate, admitted, control>>

(* The action of the switch case or fallback rule.  bpf_redirect_map with  *)
(* flags 0 answers XDP_ABORTED for an empty entry; a failed tail call      *)
(* falls through to XDP_DROP.                                              *)
TargetVerdict(g, route) ==
  CASE route.target = "user_space"   -> IF route.index \in xsk[g] THEN "REDIRECT" ELSE "ABORTED"
    [] route.target = "kernel_space" -> "REWRITE"
    [] route.target = "xdp_prog"     -> IF tails[g] THEN "TAIL" ELSE "DROP"

Target(c) ==
  /\ work[c].stage = "target"
  /\ Decide(c, TargetVerdict(work[c].gen, MyRoute(c)), "target")
  /\ UNCHANGED <<now, rate, admitted, control>>

-----------------------------------------------------------------------------
(***************************************************************************)
(* The loader, the consumers and the clock.                                *)
(***************************************************************************)

(* Variant: the seed is hashed as it is written. *)
RouteBitsRaw(route, t) ==
  UNION {BloomBits(RouteHash(seed), route, b) :
           seed \in route.seeds, b \in Buckets(t, route.bloomWindow)}

(* seed_bloom_map for one route, with the wall clock at t. *)
RouteBits(route, t) ==
  UNION {BloomBits(HashDomain(seed), route, b) :
           seed \in {s \in route.seeds : HashDomain(s) # 0},
           b \in Buckets(t, route.bloomWindow)}

SeededBits(g, t) ==
  UNION {RouteBits(Routes(g)[r], t) : r \in {q \in DOMAIN Routes(g) : Routes(g)[q].bloom}}

SeedMaps ==
  LET g == ready + 1
  IN  /\ ready = active
      /\ g \in Gens
      /\ ready' = g
      /\ bloom' = [bloom EXCEPT ![g] = SeededBits(g, BootEpoch + now)]
      /\ loadedAt' = [loadedAt EXCEPT ![g] = now]
      /\ tails' = [tails EXCEPT ![g] = TRUE]
      /\ UNCHANGED <<now, active, rate, xsk, work, admitted>>

(* Variant: the program is attached before its maps are seeded. *)
SwapUnseeded ==
  /\ active < Len(Loaded)
  /\ active' = active + 1
  /\ UNCHANGED <<now, ready, rate, bloom, loadedAt, xsk, tails, work, admitted>>

Swap ==
  /\ active < ready
  /\ active' = ready
  /\ UNCHANGED <<now, ready, rate, bloom, loadedAt, xsk, tails, work, admitted>>

(* The loader closes its object: the kernel clears prog_array. *)
CloseObject(g) ==
  /\ g <= active /\ tails[g]
  /\ tails' = [tails EXCEPT ![g] = FALSE]
  /\ UNCHANGED <<now, ready, active, rate, bloom, loadedAt, xsk, work, admitted>>

UserSpaceQueues(g) ==
  {Routes(g)[r].index : r \in {q \in DOMAIN Routes(g) : Routes(g)[q].target = "user_space"}}

(* A consumer puts its socket into xsk_map of the attached program. *)
BindSocket(q) ==
  /\ active # 0
  /\ q \in UserSpaceQueues(active) \ xsk[active]
  /\ xsk' = [xsk EXCEPT ![active] = @ \cup {q}]
  /\ UNCHANGED <<now, ready, active, rate, bloom, loadedAt, tails, work, admitted>>

Tick ==
  /\ now < MaxSec
  /\ now' = now + 1
  /\ admitted' = [e \in Entries |-> 0]
  /\ UNCHANGED <<rate, work, control>>

PacketStep(c) == RateLimit(c) \/ PowCheck(c) \/ BloomCheck(c) \/ Target(c)

Next ==
  \/ \E c \in Cpus : PacketStep(c) \/ \E p \in Packets : Receive(c, p)
  \/ SeedMaps \/ Swap \/ Tick
  \/ \E g \in Gens : CloseObject(g)
  \/ \E q \in Queues : BindSocket(q)

Spec == Init /\ [][Next]_vars

-----------------------------------------------------------------------------
(***************************************************************************)
(* Properties.                                                             *)
(***************************************************************************)

Limited(e) == e[3] \in DOMAIN Routes(e[1]) /\ Routes(e[1])[e[3]].qps # 0

(* In one second a CPU lets at most qps packets of a route through: the    *)
(* window and the counter of rate_limit_allow never grant a budget twice,  *)
(* whenever the second changes between two packets.                        *)
RateBound == \A e \in Entries : Limited(e) => admitted[e] <= Routes(e[1])[e[3]].qps

(* rate_limit_allow turns a packet away only when the CPU has let qps      *)
(* packets of the route through in the same second: no count of an earlier *)
(* second is held against a packet.                                        *)
NoEarlyRateDrop ==
  \A c \in Cpus :
    work[c].by = "rate" /\ work[c].at = now => admitted[MyEntry(c)] = MyRoute(c).qps

(* A packet spends rate budget only when nothing that comes before the     *)
(* limiter in xdp_router refuses it: neither the program's limit of the    *)
(* size, its blacklist, its opcodes and its test of the TC bit, nor the    *)
(* route's bounds of the labels and of the length, its types, its prefix   *)
(* and its suffix, also when the route was found by its domain's suffix.   *)
BudgetOnlyForEligible ==
  [][\A c \in Cpus : \A r \in RouteIds :
       LET e == <<work[c].gen, c, r>>
           p == work[c].pkt
           qname == Qname(p.labels)
       IN  e \in Entries /\ rate'[e] # rate[e] =>
             /\ r = work[c].route
             /\ p.size <= Loaded[e[1]].maxSize /\ p.src \notin Loaded[e[1]].blacklist
             /\ p.opcode \in Loaded[e[1]].opcodes /\ (Loaded[e[1]].dropTruncated => ~p.tc)
             /\ Len(p.labels) \in MyRoute(c).minLabels .. MyRoute(c).maxLabels
             /\ Len(qname) \in MyRoute(c).minLen .. MyRoute(c).maxLen
             /\ p.qtype \in MyRoute(c).types
             /\ StartsWith(qname, MyRoute(c).prefix)
             /\ EndsWith(qname, MyRoute(c).suffix)]_vars

(* A query for exactly the domain of a route is never given to another     *)
(* route, whatever fallback rules of earlier routes match it as well: the  *)
(* switch comes first and a failed filter of a case does not fall through. *)
ExactBeatsFallback ==
  \A c \in Cpus : work[c].route # 0 =>
    \A r \in DOMAIN Routes(work[c].gen) :
      Normalize(Routes(work[c].gen)[r].domain) = Qname(work[c].pkt.labels) => work[c].route = r

(* A subdomain of a route's domain never gets the default action, if the   *)
(* domain is written in lower case and without a final dot and is shorter  *)
(* than the compare loop of match_suffix.                                  *)
SubdomainsRouted ==
  \A c \in Cpus : work[c].by = "default" =>
    \A r \in DOMAIN Routes(work[c].gen) :
      LET domain == Routes(work[c].gen)[r].domain
      IN  domain = Normalize(domain) /\ Len(domain) < PatternLimit =>
            ~IsSubdomain(Qname(work[c].pkt.labels), domain)

SolvedAt(c, sec) ==
  LeadingZeros(MyHash(c), work[c].pkt.id, sec \div MyRoute(c).powWindow) >= MyRoute(c).difficulty

(* A proof of work made for the current second, or for one at most         *)
(* pow_time_window seconds ago, is never refused by pow_allow, also across *)
(* a change of bucket.                                                     *)
PowTokenHonoured ==
  \A c \in Cpus : work[c].by = "pow" /\ MyRoute(c).powWindow # 0 =>
    \A sec \in 0 .. work[c].at :
      sec + MyRoute(c).powWindow >= work[c].at => ~SolvedAt(c, sec)

(* Conversely, a proof of work gets a packet past pow_allow only when it   *)
(* is one that is made for the current second or for one at most           *)
(* pow_time_window seconds ago.  All seconds of a bucket have the same     *)
(* proofs, so the one a client found in the first second of a bucket still *)
(* counts until the next bucket ends, 2 * pow_time_window - 1 seconds      *)
(* later; config.yaml:66 says "PoW tokens valid for 60 seconds" of a       *)
(* window of 60.                                                           *)
PowTokenExpires ==
  [][\A c \in Cpus :
       /\ work[c].stage = "pow" /\ work'[c].stage = "bloom"
       /\ MyRoute(c).difficulty # 0 /\ MyRoute(c).powWindow # 0
       => \E sec \in 0 .. now : sec + MyRoute(c).powWindow >= now /\ SolvedAt(c, sec)]_vars

SeededFor(c) == \E seed \in MyRoute(c).seeds : Normalize(seed) = Qname(work[c].pkt.labels)

(* A name that is a Bloom seed of its route, in whatever case and with or  *)
(* without a final dot it was configured, is never refused by bloom_allow  *)
(* when the filter has no time window: the seeder and the data plane       *)
(* compute the same bits, and seeds of other routes only add bits.         *)
SeededNamesPass ==
  \A c \in Cpus : work[c].by = "bloom" /\ MyRoute(c).bloomWindow = 0 => ~SeededFor(c)

(* config.yaml: a Bloom time_window of 60 means "Bloom filter entries      *)
(* valid for 60 seconds".  A seeded name is not refused within the window  *)
(* that starts when the loader seeds the filter.                           *)
BloomSeedsValid ==
  \A c \in Cpus : work[c].by = "bloom" /\ SeededFor(c) =>
    work[c].at >= loadedAt[work[c].gen] + MyRoute(c).bloomWindow
=============================================================================
