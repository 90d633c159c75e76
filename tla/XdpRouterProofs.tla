-------------------------- MODULE XdpRouterProofs --------------------------
(***************************************************************************)
(* What the data plane does with every packet, for every number of CPUs,   *)
(* routes and generations, every budget, window and hash function: the     *)
(* rate limiter is exact, a packet gets the route that dispatch selects,   *)
(* tokens are honoured and expire, and seeded names pass.                  *)
(*                                                                         *)
(*   WorkInv   where the packet in progress on a CPU is routed             *)
(*   RateInv   a route_rate_state entry whose window is the current second *)
(*             counts what was let through in it; any other entry belongs  *)
(*             to a second in which nothing has been let through yet       *)
(*   RouteInv  what is known of a packet that has a route, or none         *)
(*   TokenInv  why pow_allow refused a packet                              *)
(*   BloomInv  why bloom_allow refused one, and whose bits are in a bitmap *)
(***************************************************************************)
EXTENDS XdpRouter, SequenceTheorems, WellFoundedInduction, TLAPS

(* The obligations are large: a leaf that names no prover has 30 seconds. *)
USE SMTT(30), ZenonT(30)

WorkInv ==
  \A c \in Cpus :
    /\ work[c].stage \in {"rate", "pow", "bloom", "target"} \/ work[c].by = "rate" =>
         work[c].gen \in Gens /\ work[c].route \in DOMAIN Routes(work[c].gen)
    /\ work[c].stage # "done" => work[c].by = "none"
    /\ work[c].at <= now

RateInv ==
  \A e \in Entries :
    /\ rate[e].window <= now
    /\ admitted[e] = IF rate[e].window = now THEN rate[e].count ELSE 0

-----------------------------------------------------------------------------
LessThan == {pair \in Nat \X Nat : pair[1] < pair[2]}

(* The order of the natural numbers, as a set of pairs, is well founded. *)
LEMMA LessThanWellFounded == IsWellFoundedOn(LessThan, Nat)
<1>1. OpToRel(<, Nat) = LessThan
  BY Zenon DEF OpToRel, LessThan
<1> QED
  BY <1>1, NatLessThanWellFounded, Zenon

(* The first of a nonempty set of routes is one of them. *)
LEMMA MinInSet ==
  ASSUME NEW S \in SUBSET Nat, S # {}
  PROVE  Min(S) \in S
<1>1. PICK x \in S : \A y \in S : ~(<<y, x>> \in LessThan)
  BY WFMin, LessThanWellFounded
<1>2. ASSUME NEW y \in S, y < x
      PROVE  <<y, x>> \in LessThan
  BY <1>2 DEF LessThan
<1>3. ASSUME NEW y \in S
      PROVE  x =< y
  <2>1. ~(y < x)
    BY <1>1, <1>2
  <2> QED
    BY <2>1, x \in Nat, y \in Nat
<1> QED
  BY <1>3 DEF Min

(* dispatch selects a route of the program, or none. *)
LEMMA SelectRouteType ==
  ASSUME NEW g \in Gens, NEW qname
  PROVE  SelectRoute(g, qname) \in DOMAIN Routes(g) \cup {0}
<1>1. DOMAIN Routes(g) \subseteq Nat
  BY RouterAssumption
<1>2. ExactRoutes(g, qname) \in SUBSET DOMAIN Routes(g)
  BY DEF ExactRoutes
<1>3. FallbackRoutes(g, qname) \in SUBSET DOMAIN Routes(g)
  BY DEF FallbackRoutes
<1>4. CASE ExactRoutes(g, qname) # {}
  <2>1. Min(ExactRoutes(g, qname)) \in ExactRoutes(g, qname)
    BY <1>1, <1>2, <1>4, MinInSet
  <2> QED
    BY <2>1, <1>2, <1>4 DEF SelectRoute
<1>5. CASE ExactRoutes(g, qname) = {} /\ FallbackRoutes(g, qname) # {}
  <2>1. Min(FallbackRoutes(g, qname)) \in FallbackRoutes(g, qname)
    BY <1>1, <1>3, <1>5, MinInSet
  <2> QED
    BY <2>1, <1>3, <1>5 DEF SelectRoute
<1>6. CASE ExactRoutes(g, qname) = {} /\ FallbackRoutes(g, qname) = {}
  BY <1>6 DEF SelectRoute
<1> QED
  BY <1>4, <1>5, <1>6

(* Every route of a program is numbered in RouteIds. *)
LEMMA RoutesNumbered ==
  ASSUME NEW g \in Gens, NEW r \in DOMAIN Routes(g)
  PROVE  r \in RouteIds
BY DEF RouteIds

(* Deciding a packet keeps its record well formed. *)
LEMMA DecidedType ==
  ASSUME TypeOK, NEW w \in PacketWork, NEW v \in Verdicts, NEW check \in Checks
  PROVE  /\ Decided(w, v, check) \in PacketWork
         /\ Decided(w, v, check).stage = "done"
         /\ Decided(w, v, check).by = check
         /\ Decided(w, v, check).at = now
         /\ Decided(w, v, check).gen = w.gen
         /\ Decided(w, v, check).route = w.route
BY DEF TypeOK, Decided, PacketWork, Stages

(* xdp_router either decides a packet before the rate limiter or hands it  *)
(* over with a route of its own program.                                   *)
LEMMA ClassifyType ==
  ASSUME TypeOK, NEW g \in Gens, NEW p \in Packets
  PROVE  LET w == Classify(g, p)
         IN  /\ w \in PacketWork
             /\ w.at = now
             /\ \/ w.stage = "done" /\ w.by # "rate"
                \/ /\ w.stage = "rate" /\ w.by = "none"
                   /\ w.gen = g /\ w.route \in DOMAIN Routes(g)
<1> DEFINE r == SelectRoute(g, Qname(p.labels))
           w0 == [stage |-> "rate", gen |-> g, pkt |-> p, route |-> 0,
                  verdict |-> "none", by |-> "none", at |-> now]
           w1 == [w0 EXCEPT !.route = r]
<1>1. r \in DOMAIN Routes(g) \cup {0}
  BY SelectRouteType
<1>2. r \in RouteIds \cup {0}
  BY <1>1, RoutesNumbered
<1>3. w0 \in PacketWork
  BY RouterAssumption DEF TypeOK, PacketWork, Stages, Verdicts, Checks, Gens
<1>4. w1 \in PacketWork /\ w1.stage = "rate" /\ w1.by = "none" /\ w1.gen = g /\ w1.route = r /\ w1.at = now
  BY <1>2, <1>3 DEF PacketWork
<1>5. /\ {"PASS", "DROP", Loaded[g].default} \subseteq Verdicts
      /\ {"parse", "global", "default", "filter"} \subseteq Checks
  BY RouterAssumption DEF Verdicts, Checks
<1>6. \/ Classify(g, p) \in {Decided(w0, "PASS", "parse"), Decided(w0, "DROP", "global"),
                             Decided(w0, Loaded[g].default, "default"), Decided(w1, "DROP", "filter")}
      \/ Classify(g, p) = w1 /\ r # 0
  BY DEF Classify
<1> HIDE DEF r, w0, w1
<1>7. ASSUME NEW v \in Verdicts, NEW check \in {"parse", "global", "default", "filter"},
             NEW w \in {w0, w1}
      PROVE  /\ Decided(w, v, check) \in PacketWork
             /\ Decided(w, v, check).at = now
             /\ Decided(w, v, check).stage = "done"
             /\ Decided(w, v, check).by # "rate"
  <2>1. w \in PacketWork /\ check \in Checks
    BY <1>3, <1>4, <1>5
  <2> QED
    BY <2>1, DecidedType
<1>8. CASE Classify(g, p) = w1 /\ r # 0
  BY <1>1, <1>4, <1>8
<1>9. CASE Classify(g, p) \in {Decided(w0, "PASS", "parse"), Decided(w0, "DROP", "global"),
                               Decided(w0, Loaded[g].default, "default"), Decided(w1, "DROP", "filter")}
  BY <1>5, <1>7, <1>9
<1> QED
  BY <1>6, <1>8, <1>9

-----------------------------------------------------------------------------
(* Types, and where packets in progress are routed. *)

TypeInv == TypeOK /\ WorkInv

(* The numbers of the state. *)
LEMMA StateNumbers ==
  ASSUME TypeInv
  PROVE  /\ now \in Nat /\ ready \in Nat /\ active \in 0 .. ready /\ DOMAIN bloom = Gens
         /\ active # 0 => active \in Gens
         /\ \A c \in Cpus : work[c].gen \in Nat /\ work[c].at \in Nat
         /\ \A g \in Gens : g \in Nat \ {0} /\ (g <= ready => g \in 1 .. ready)
<1>1. now \in Nat /\ ready \in Nat /\ active \in 0 .. ready /\ DOMAIN bloom = Gens
  BY RouterAssumption DEF TypeInv, TypeOK
<1>2. ASSUME NEW c \in Cpus PROVE work[c].gen \in Nat /\ work[c].at \in Nat
  BY RouterAssumption DEF TypeInv, TypeOK, PacketWork
<1>3. ASSUME NEW g \in Gens PROVE g \in Nat \ {0} /\ (g <= ready => g \in 1 .. ready)
  BY <1>1, RouterAssumption DEF Gens
<1>4. active # 0 => active \in Gens
  BY RouterAssumption DEF TypeInv, TypeOK, Gens
<1> QED
  BY <1>1, <1>2, <1>3, <1>4

(* The invariant holds before the first program is loaded. *)
LEMMA InitTypeInv == Init => TypeInv
<1> SUFFICES ASSUME Init PROVE TypeInv
  OBVIOUS
<1>1. (CHOOSE p \in Packets : TRUE) \in Packets
  BY RouterAssumption
<1>2. work \in [Cpus -> PacketWork]
  BY <1>1, RouterAssumption DEF Init, PacketWork, Stages, Verdicts, Checks
<1>3. TypeOK
  BY <1>2, RouterAssumption DEF Init, TypeOK
<1>4. WorkInv
  BY DEF Init, WorkInv
<1> QED
  BY <1>3, <1>4 DEF TypeInv

(* Replacing the record of one CPU keeps TypeInv when the new record is    *)
(* well formed and nothing else changes that TypeInv depends on.           *)
LEMMA WorkStep ==
  ASSUME TypeInv, NEW c \in Cpus, NEW w \in PacketWork,
         work' = [work EXCEPT ![c] = w],
         w.stage \in {"rate", "pow", "bloom", "target"} \/ w.by = "rate" =>
           w.gen \in Gens /\ w.route \in DOMAIN Routes(w.gen),
         w.stage # "done" => w.by = "none",
         w.at <= now,
         rate' \in [Entries -> [window : 0 .. MaxSec, count : Nat]],
         admitted' \in [Entries -> Nat],
         UNCHANGED <<now, control>>
  PROVE  TypeInv'
<1>1. TypeOK'
  BY DEF TypeInv, TypeOK, control
<1>2. WorkInv'
  BY DEF TypeInv, TypeOK, WorkInv, control
<1> QED
  BY <1>1, <1>2 DEF TypeInv

(* A new packet starts with a well-formed record. *)
LEMMA ReceiveTypeInv ==
  ASSUME TypeInv, NEW c \in Cpus, NEW p \in Packets, Receive(c, p)
  PROVE  TypeInv'
<1> DEFINE w == Classify(active, p)
<1>1. active \in Gens
  BY RouterAssumption DEF TypeInv, TypeOK, Receive, Gens
<1>2. /\ w \in PacketWork
      /\ w.at = now
      /\ \/ w.stage = "done" /\ w.by # "rate"
         \/ /\ w.stage = "rate" /\ w.by = "none"
            /\ w.gen = active /\ w.route \in DOMAIN Routes(active)
  BY <1>1, ClassifyType DEF TypeInv
<1>3. work' = [work EXCEPT ![c] = w] /\ UNCHANGED <<now, rate, admitted, control>>
  BY DEF Receive
<1> HIDE DEF w
<1>4. now \in Nat
  BY RouterAssumption DEF TypeInv, TypeOK
<1>5. /\ rate' \in [Entries -> [window : 0 .. MaxSec, count : Nat]]
      /\ admitted' \in [Entries -> Nat]
  BY <1>3 DEF TypeInv, TypeOK
<1>6. /\ w.stage \in {"rate", "pow", "bloom", "target"} \/ w.by = "rate" =>
           w.gen \in Gens /\ w.route \in DOMAIN Routes(w.gen)
      /\ w.stage # "done" => w.by = "none"
  BY <1>1, <1>2
<1>7. w.at <= now
  BY <1>2, <1>4
<1> QED
  BY <1>2, <1>3, <1>5, <1>6, <1>7, WorkStep

(* A step of the packet on CPU c moves it on or decides it; its program    *)
(* and its route stay.                                                     *)
LEMMA PacketStepMoves ==
  ASSUME TypeInv, NEW c \in Cpus, PacketStep(c)
  PROVE  /\ work[c].stage \in {"rate", "pow", "bloom", "target"}
         /\ work[c].gen \in Gens /\ work[c].route \in DOMAIN Routes(work[c].gen)
         /\ UNCHANGED <<now, control>>
         /\ \E w \in PacketWork :
              /\ work' = [work EXCEPT ![c] = w]
              /\ w.gen = work[c].gen /\ w.route = work[c].route
              /\ w.at <= now
              /\ \/ w.stage \in {"pow", "bloom", "target"} /\ w.by = "none"
                 \/ w.stage = "done"
<1>1. work[c].stage \in {"rate", "pow", "bloom", "target"}
  BY DEF PacketStep, RateLimit, PowCheck, BloomCheck, Target
<1>2. work[c].gen \in Gens /\ work[c].route \in DOMAIN Routes(work[c].gen)
  BY <1>1 DEF TypeInv, WorkInv
<1>3. UNCHANGED <<now, control>>
  BY DEF PacketStep, RateLimit, PowCheck, BloomCheck, Target
<1>4. work[c] \in PacketWork /\ now \in Nat /\ work[c].at <= now /\ work[c].by = "none"
  BY <1>1, RouterAssumption DEF TypeInv, TypeOK, WorkInv
<1>5. ASSUME NEW stage \in {"pow", "bloom", "target"}, Proceed(c, stage)
      PROVE  \E w \in PacketWork :
               /\ work' = [work EXCEPT ![c] = w]
               /\ w.gen = work[c].gen /\ w.route = work[c].route
               /\ w.at <= now
               /\ w.stage \in {"pow", "bloom", "target"} /\ w.by = "none"
  <2> DEFINE w == [work[c] EXCEPT !.stage = stage]
  <2>1. w \in PacketWork /\ w.gen = work[c].gen /\ w.route = work[c].route
        /\ w.at = work[c].at /\ w.stage = stage /\ w.by = work[c].by
    BY <1>4 DEF PacketWork, Stages
  <2>2. work' = [work EXCEPT ![c] = w]
    BY <1>5 DEF Proceed, TypeInv, TypeOK
  <2> HIDE DEF w
  <2> QED
    BY <2>1, <2>2, <1>4
<1>6. ASSUME NEW v \in Verdicts, NEW check \in Checks, Decide(c, v, check)
      PROVE  \E w \in PacketWork :
               /\ work' = [work EXCEPT ![c] = w]
               /\ w.gen = work[c].gen /\ w.route = work[c].route
               /\ w.at <= now
               /\ w.stage = "done"
  <2> DEFINE w == Decided(work[c], v, check)
  <2>1. w \in PacketWork /\ w.gen = work[c].gen /\ w.route = work[c].route
        /\ w.at = now /\ w.stage = "done"
    BY <1>4, DecidedType DEF TypeInv
  <2>2. work' = [work EXCEPT ![c] = w]
    BY <1>6 DEF Decide
  <2>3. w.at <= now
    BY <2>1, <1>4
  <2> HIDE DEF w
  <2> QED
    BY <2>1, <2>2, <2>3
<1>7. {"rate", "pow", "bloom", "target"} \subseteq Checks /\ "DROP" \in Verdicts
  BY DEF Checks, Verdicts
<1>8. TargetVerdict(work[c].gen, MyRoute(c)) \in Verdicts
  BY <1>2, RouterAssumption DEF TargetVerdict, MyRoute, Verdicts
<1>9. \/ \E stage \in {"pow", "bloom", "target"} : Proceed(c, stage)
      \/ \E v \in Verdicts, check \in Checks : Decide(c, v, check)
  BY <1>7, <1>8 DEF PacketStep, RateLimit, PowCheck, BloomCheck, Target
<1> QED
  BY <1>1, <1>2, <1>3, <1>5, <1>6, <1>9

(* rate_limit_allow counts a packet only in the entry of its own program,  *)
(* CPU and route, and only when the budget is not spent.                   *)
LEMMA RateChange ==
  ASSUME TypeInv, NEW c \in Cpus, PacketStep(c)
  PROVE  \/ UNCHANGED <<rate, admitted>>
         \/ LET e == MyEntry(c)
            IN  /\ e \in Entries
                /\ MyRoute(c).qps \in Nat \ {0}
                /\ MyRoute(c) = Routes(e[1])[e[3]]
                /\ ~BudgetSpent(rate[e], MyRoute(c).qps)
                /\ rate' = [rate EXCEPT ![e] =
                     [window |-> now,
                      count |-> IF rate[e].window = now THEN rate[e].count + 1 ELSE 1]]
                /\ admitted' = [admitted EXCEPT ![e] = admitted[e] + 1]
<1>1. /\ work[c].gen \in Gens
      /\ work[c].route \in DOMAIN Routes(work[c].gen)
  BY PacketStepMoves
<1>2. work[c].route \in RouteIds
  BY <1>1, RoutesNumbered
<1>3. MyEntry(c) \in Entries
  BY <1>1, <1>2 DEF MyEntry, Entries
<1>4. MyRoute(c).qps \in Nat
  BY <1>1, RouterAssumption DEF MyRoute
<1>5. MyRoute(c) = Routes(MyEntry(c)[1])[MyEntry(c)[3]]
  BY DEF MyEntry, MyRoute
<1>6. CASE RateLimit(c)
  BY <1>3, <1>4, <1>5, <1>6 DEF RateLimit, TypeInv, TypeOK
<1>7. CASE PowCheck(c) \/ BloomCheck(c) \/ Target(c)
  BY <1>7 DEF PowCheck, BloomCheck, Target
<1> QED
  BY <1>6, <1>7 DEF PacketStep

(* The checks and the target of a route keep TypeInv. *)
LEMMA PacketStepTypeInv ==
  ASSUME TypeInv, NEW c \in Cpus, PacketStep(c)
  PROVE  TypeInv'
<1>1. /\ rate' \in [Entries -> [window : 0 .. MaxSec, count : Nat]]
      /\ admitted' \in [Entries -> Nat]
  <2>1. CASE UNCHANGED <<rate, admitted>>
    BY <2>1 DEF TypeInv, TypeOK
  <2>2. ASSUME NEW e \in Entries,
               rate' = [rate EXCEPT ![e] =
                 [window |-> now,
                  count |-> IF rate[e].window = now THEN rate[e].count + 1 ELSE 1]],
               admitted' = [admitted EXCEPT ![e] = admitted[e] + 1]
        PROVE  <1>1!:
    BY <2>2 DEF TypeInv, TypeOK
  <2> QED
    BY <2>1, <2>2, RateChange
<1>2. /\ work[c].gen \in Gens /\ work[c].route \in DOMAIN Routes(work[c].gen)
      /\ UNCHANGED <<now, control>>
  BY PacketStepMoves
<1>3. PICK w \in PacketWork :
        /\ work' = [work EXCEPT ![c] = w]
        /\ w.gen = work[c].gen /\ w.route = work[c].route
        /\ w.at <= now
        /\ \/ w.stage \in {"pow", "bloom", "target"} /\ w.by = "none"
           \/ w.stage = "done"
  BY PacketStepMoves
<1>4. /\ w.stage \in {"rate", "pow", "bloom", "target"} \/ w.by = "rate" =>
           w.gen \in Gens /\ w.route \in DOMAIN Routes(w.gen)
      /\ w.stage # "done" => w.by = "none"
  BY <1>2, <1>3
<1> QED
  BY <1>1, <1>2, <1>3, <1>4, WorkStep

(* The loader, the consumers and the clock keep TypeInv. *)
LEMMA OtherTypeInv ==
  ASSUME TypeInv,
         \/ SeedMaps \/ Swap \/ Tick
         \/ \E g \in Gens : CloseObject(g)
         \/ \E q \in Queues : BindSocket(q)
  PROVE  TypeInv'
<1> USE RouterAssumption DEF TypeInv
<1>1. CASE SeedMaps
  <2>1. ready' \in 0 .. Len(Loaded) /\ active' \in 0 .. ready'
    BY <1>1 DEF SeedMaps, TypeOK, Gens
  <2>2. /\ DOMAIN bloom' = Gens
        /\ loadedAt' \in [Gens -> 0 .. MaxSec]
        /\ tails' \in [Gens -> BOOLEAN]
    BY <1>1 DEF SeedMaps, TypeOK
  <2>3. UNCHANGED <<now, rate, xsk, work, admitted>>
    BY <1>1 DEF SeedMaps
  <2> QED
    BY <2>1, <2>2, <2>3 DEF TypeOK, WorkInv
<1>2. CASE Swap
  <2>1. TypeOK'
    BY <1>2 DEF Swap, TypeOK
  <2>2. WorkInv'
    BY <1>2 DEF Swap, WorkInv
  <2> QED
    BY <2>1, <2>2
<1>3. CASE Tick
  <2>1. TypeOK'
    <3>1. now' \in 0 .. MaxSec
      BY <1>3 DEF Tick, TypeOK
    <3>2. admitted' \in [Entries -> Nat]
      BY <1>3 DEF Tick
    <3>3. UNCHANGED <<ready, active, rate, bloom, loadedAt, xsk, tails, work>>
      BY <1>3 DEF Tick, control
    <3> QED
      BY <3>1, <3>2, <3>3 DEF TypeOK
  <2>2. ASSUME NEW c \in Cpus PROVE work[c].at <= now + 1
    <3>1. work[c] \in PacketWork
      BY DEF TypeOK
    <3>2. work[c].at \in Nat /\ now \in Nat
      BY <3>1 DEF TypeOK, PacketWork
    <3> QED
      BY <3>2 DEF WorkInv
  <2>3. WorkInv'
    BY <1>3, <2>2 DEF Tick, WorkInv
  <2> QED
    BY <2>1, <2>3
<1>4. CASE \E g \in Gens : CloseObject(g)
  <2>1. TypeOK'
    BY <1>4 DEF CloseObject, TypeOK
  <2>2. WorkInv'
    BY <1>4 DEF CloseObject, WorkInv
  <2> QED
    BY <2>1, <2>2
<1>5. CASE \E q \in Queues : BindSocket(q)
  <2>1. TypeOK'
    <3>1. PICK q \in Queues : BindSocket(q)
      BY <1>5
    <3>2. active \in Gens
      BY <3>1 DEF BindSocket, TypeOK, Gens
    <3>3. xsk' \in [Gens -> SUBSET Queues]
      BY <3>1, <3>2 DEF BindSocket, TypeOK
    <3> QED
      BY <3>1, <3>3 DEF BindSocket, TypeOK
  <2>2. WorkInv'
    BY <1>5 DEF BindSocket, WorkInv
  <2> QED
    BY <2>1, <2>2
<1> QED
  BY <1>1, <1>2, <1>3, <1>4, <1>5

(* TypeInv, for the theorems below to rest on. *)
LEMMA TypeInvariance == Spec => []TypeInv
<1>1. TypeInv /\ [Next]_vars => TypeInv'
  <2> SUFFICES ASSUME TypeInv, [Next]_vars PROVE TypeInv'
    OBVIOUS
  <2>1. CASE UNCHANGED vars
    BY <2>1 DEF vars, TypeInv, TypeOK, WorkInv
  <2>2. ASSUME NEW c \in Cpus, PacketStep(c) PROVE TypeInv'
    BY <2>2, PacketStepTypeInv
  <2>3. ASSUME NEW c \in Cpus, NEW p \in Packets, Receive(c, p) PROVE TypeInv'
    BY <2>3, ReceiveTypeInv
  <2> QED
    BY <2>1, <2>2, <2>3, OtherTypeInv DEF Next
<1> QED
  BY InitTypeInv, <1>1, PTL DEF Spec

(* The maps, the clock and the packets in progress always have their       *)
(* types; in particular no program is attached before its maps are seeded. *)
THEOREM TypeCorrect == Spec => []TypeOK
  BY TypeInvariance, PTL DEF TypeInv

-----------------------------------------------------------------------------
(* The rate limiter. *)

(* The maps of a program start zeroed. *)
LEMMA InitRateInv == Init => RateInv
  BY DEF Init, RateInv

(* Counting one packet keeps the entry in step with the history. *)
LEMMA CountRateInv ==
  ASSUME TypeInv, RateInv, NEW c \in Cpus, PacketStep(c)
  PROVE  RateInv'
<1>1. UNCHANGED now
  BY PacketStepMoves
<1>2. CASE UNCHANGED <<rate, admitted>>
  BY <1>1, <1>2 DEF RateInv
<1>3. ASSUME NEW e \in Entries,
             rate' = [rate EXCEPT ![e] =
               [window |-> now,
                count |-> IF rate[e].window = now THEN rate[e].count + 1 ELSE 1]],
             admitted' = [admitted EXCEPT ![e] = admitted[e] + 1]
      PROVE  RateInv'
  <2> SUFFICES ASSUME NEW f \in Entries
               PROVE  /\ rate'[f].window <= now
                      /\ admitted'[f] = IF rate'[f].window = now THEN rate'[f].count ELSE 0
    BY <1>1 DEF RateInv
  <2>1. rate \in [Entries -> [window : 0 .. MaxSec, count : Nat]]
        /\ admitted \in [Entries -> Nat] /\ now \in Nat
    BY RouterAssumption DEF TypeInv, TypeOK
  <2>2. CASE f = e
    BY <1>3, <2>1, <2>2 DEF RateInv
  <2>3. CASE f # e
    BY <1>3, <2>1, <2>3 DEF RateInv
  <2> QED
    BY <2>2, <2>3
<1> QED
  BY <1>2, <1>3, RateChange

(* The counter of the current second is the number of packets let through. *)
LEMMA NextRateInv == TypeInv /\ RateInv /\ [Next]_vars => RateInv'
<1> SUFFICES ASSUME TypeInv, RateInv, [Next]_vars PROVE RateInv'
  OBVIOUS
<1>1. ASSUME NEW c \in Cpus, PacketStep(c) PROVE RateInv'
  BY <1>1, CountRateInv
<1>2. CASE Tick
  <2> SUFFICES ASSUME NEW e \in Entries
               PROVE  /\ rate[e].window <= now + 1
                      /\ 0 = IF rate[e].window = now + 1 THEN rate[e].count ELSE 0
    BY <1>2 DEF Tick, RateInv
  <2>1. rate[e].window \in Nat /\ now \in Nat /\ rate[e].window <= now
    BY RouterAssumption DEF TypeInv, TypeOK, RateInv
  <2> QED
    BY <2>1
<1>3. CASE UNCHANGED <<now, rate, admitted>>
  BY <1>3 DEF RateInv
<1>4. (\E c \in Cpus : PacketStep(c)) \/ Tick \/ UNCHANGED <<now, rate, admitted>>
  BY DEF Next, vars, Receive, SeedMaps, Swap, CloseObject, BindSocket
<1> QED
  BY <1>1, <1>2, <1>3, <1>4

(* One more packet never exceeds the budget: when the window is this       *)
(* second, the counter that is compared with qps is the number of packets  *)
(* let through; when it is not, none has been.                             *)
LEMMA NextRateBound == TypeInv /\ RateInv /\ RateBound /\ [Next]_vars => RateBound'
<1> SUFFICES ASSUME TypeInv, RateInv, RateBound, [Next]_vars PROVE RateBound'
  OBVIOUS
<1>1. ASSUME NEW c \in Cpus, PacketStep(c) PROVE RateBound'
  <2>1. CASE UNCHANGED <<rate, admitted>>
    BY <2>1 DEF RateBound, Limited
  <2>2. ASSUME NEW e \in Entries, NEW qps \in Nat \ {0},
               qps = Routes(e[1])[e[3]].qps,
               ~BudgetSpent(rate[e], qps),
               admitted' = [admitted EXCEPT ![e] = admitted[e] + 1]
        PROVE  RateBound'
    <3>1. admitted \in [Entries -> Nat] /\ rate[e].count \in Nat
      BY DEF TypeInv, TypeOK
    <3>2. admitted[e] < qps
      BY <2>2, <3>1 DEF BudgetSpent, RateInv
    <3> QED
      BY <2>2, <3>1, <3>2 DEF RateBound, Limited
  <2> QED
    BY <1>1, <2>1, <2>2, RateChange
<1>2. CASE Tick
  <2>1. ASSUME NEW e \in Entries, Limited(e) PROVE 0 <= Routes(e[1])[e[3]].qps
    <3>1. e[1] \in Gens
      BY DEF Entries
    <3> QED
      BY <2>1, <3>1, RouterAssumption DEF Limited
  <2> QED
    BY <1>2, <2>1 DEF Tick, RateBound, Limited
<1>3. CASE UNCHANGED admitted
  BY <1>3 DEF RateBound, Limited
<1>4. (\E c \in Cpus : PacketStep(c)) \/ Tick \/ UNCHANGED admitted
  BY DEF Next, vars, Receive, SeedMaps, Swap, CloseObject, BindSocket
<1> QED
  BY <1>1, <1>2, <1>3, <1>4

(* Nothing has been let through at the start. *)
LEMMA InitRateBound == Init => RateBound
<1> SUFFICES ASSUME Init, NEW e \in Entries, Limited(e)
             PROVE  admitted[e] <= Routes(e[1])[e[3]].qps
  BY DEF RateBound
<1>1. e[1] \in Gens /\ admitted[e] = 0
  BY DEF Init, Entries
<1> QED
  BY <1>1, RouterAssumption DEF Limited

(* No CPU lets more than qps packets of a route through in one second.     *)
THEOREM RateIsBounded == Spec => []RateBound
<1>1. TypeInv /\ TypeInv' /\ RateInv /\ RateBound /\ [Next]_vars => (RateInv /\ RateBound)'
  BY NextRateInv, NextRateBound
<1> QED
  BY InitRateInv, InitRateBound, TypeInvariance, <1>1, PTL DEF Spec

(* A packet that the limiter refuses finds its entry in the current second *)
(* and full.                                                               *)
LEMMA DropMeansSpent ==
  ASSUME TypeInv, RateInv, RateBound, NEW c \in Cpus, PacketStep(c), work'[c].by = "rate"
  PROVE  /\ admitted[MyEntry(c)] = MyRoute(c).qps
         /\ UNCHANGED <<rate, admitted>>
         /\ work'[c].gen = work[c].gen /\ work'[c].route = work[c].route
<1>1. /\ work[c].gen \in Gens
      /\ work[c].route \in DOMAIN Routes(work[c].gen)
      /\ work'[c].gen = work[c].gen /\ work'[c].route = work[c].route
  BY PacketStepMoves DEF TypeInv, TypeOK
<1>2. work[c] \in PacketWork /\ work[c].by = "none"
  BY PacketStepMoves DEF TypeInv, TypeOK, WorkInv
<1>3. ASSUME NEW stage, Proceed(c, stage) PROVE FALSE
  BY <1>2, <1>3 DEF Proceed, PacketWork, TypeInv, TypeOK
<1>4. ASSUME NEW v, NEW check \in {"pow", "bloom", "target"}, Decide(c, v, check) PROVE FALSE
  BY <1>2, <1>4 DEF Decide, Decided, PacketWork, TypeInv, TypeOK
<1>5. RateLimit(c)
  BY <1>3, <1>4 DEF PacketStep, PowCheck, BloomCheck, Target
<1>6. /\ MyRoute(c).qps # 0
      /\ BudgetSpent(rate[MyEntry(c)], MyRoute(c).qps)
      /\ UNCHANGED <<rate, admitted>>
  BY <1>3, <1>5 DEF RateLimit
<1>7. work[c].route \in RouteIds
  BY <1>1, RoutesNumbered
<1>8. MyEntry(c) \in Entries /\ Limited(MyEntry(c))
  BY <1>1, <1>6, <1>7 DEF MyEntry, Entries, Limited, MyRoute
<1>9. admitted[MyEntry(c)] <= MyRoute(c).qps
  BY <1>8 DEF RateBound, MyEntry, MyRoute
<1>10. admitted[MyEntry(c)] >= MyRoute(c).qps
  BY <1>6, <1>8 DEF BudgetSpent, RateInv
<1>11. admitted[MyEntry(c)] \in Nat /\ MyRoute(c).qps \in Nat
  BY <1>1, <1>8, RouterAssumption DEF TypeInv, TypeOK, MyRoute
<1> QED
  BY <1>1, <1>6, <1>9, <1>10, <1>11

(* A decision of the limiter stays justified for the rest of its second. *)
LEMMA NextNoEarlyRateDrop ==
  TypeInv /\ RateInv /\ RateBound /\ NoEarlyRateDrop /\ [Next]_vars => NoEarlyRateDrop'
<1> SUFFICES ASSUME TypeInv, RateInv, RateBound, NoEarlyRateDrop, [Next]_vars,
                    NEW c \in Cpus, work'[c].by = "rate", work'[c].at = now'
             PROVE  admitted'[MyEntry(c)'] = MyRoute(c)'.qps
  BY DEF NoEarlyRateDrop
<1>1. CASE PacketStep(c)
  BY <1>1, DropMeansSpent DEF MyEntry, MyRoute
<1>2. ASSUME NEW d \in Cpus \ {c}, PacketStep(d)
      PROVE  admitted'[MyEntry(c)'] = MyRoute(c)'.qps
  <2>1. work'[c] = work[c] /\ now' = now
    BY <1>2, PacketStepMoves DEF TypeInv, TypeOK
  <2>2. admitted[MyEntry(c)] = MyRoute(c).qps
    BY <2>1 DEF NoEarlyRateDrop
  <2>3. MyEntry(c) # MyEntry(d)
    BY DEF MyEntry
  <2>4. MyEntry(c) \in Entries
    <3>1. work[c].gen \in Gens /\ work[c].route \in DOMAIN Routes(work[c].gen)
      BY <2>1 DEF TypeInv, WorkInv
    <3>2. work[c].route \in RouteIds
      BY <3>1, RoutesNumbered
    <3> QED
      BY <3>1, <3>2 DEF MyEntry, Entries
  <2>5. admitted'[MyEntry(c)] = admitted[MyEntry(c)]
    BY <1>2, <2>3, <2>4, RateChange DEF TypeInv, TypeOK
  <2> QED
    BY <2>1, <2>2, <2>5 DEF MyEntry, MyRoute
<1>3. ASSUME NEW d \in Cpus, NEW p \in Packets, Receive(d, p)
      PROVE  admitted'[MyEntry(c)'] = MyRoute(c)'.qps
  <2>1. active \in Gens
    BY <1>3, RouterAssumption DEF TypeInv, TypeOK, Receive, Gens
  <2>2. Classify(active, p).by # "rate"
    BY <2>1, ClassifyType DEF TypeInv
  <2>3. work'[c] = work[c] /\ UNCHANGED <<now, admitted>>
    BY <1>3, <2>2 DEF Receive, TypeInv, TypeOK
  <2> QED
    BY <2>3 DEF NoEarlyRateDrop, MyEntry, MyRoute
<1>4. CASE Tick
  <2>1. work[c].at <= now /\ work[c] \in PacketWork /\ now \in Nat
    <3>1. work[c].at <= now
      BY Zenon DEF TypeInv, WorkInv
    <3>2. work[c] \in PacketWork
      BY DEF TypeInv, TypeOK
    <3> QED
      BY <3>1, <3>2, StateNumbers, Zenon
  <2>2. work[c].at \in 0 .. MaxSec
    BY <2>1 DEF PacketWork
  <2> QED
    BY <1>4, <2>1, <2>2 DEF Tick
<1>5. CASE UNCHANGED <<now, work, admitted>>
  BY <1>5 DEF NoEarlyRateDrop, MyEntry, MyRoute
<1>6. \/ \E d \in Cpus : PacketStep(d) \/ \E p \in Packets : Receive(d, p)
      \/ Tick
      \/ UNCHANGED <<now, work, admitted>>
  BY DEF Next, vars, SeedMaps, Swap, CloseObject, BindSocket
<1> QED
  BY <1>1, <1>2, <1>3, <1>4, <1>5, <1>6

(* The limiter refuses a packet only in a second in which its CPU has let  *)
(* exactly qps packets of the route through: with RateIsBounded, the       *)
(* limiter is exact on every CPU.                                          *)
THEOREM RateDropsAreDue == Spec => []NoEarlyRateDrop
<1>1. Init => NoEarlyRateDrop
  BY DEF Init, NoEarlyRateDrop
<1>2. TypeInv /\ RateInv /\ RateBound /\ NoEarlyRateDrop /\ [Next]_vars =>
        (RateInv /\ NoEarlyRateDrop)'
  BY NextRateInv, NextNoEarlyRateDrop
<1> QED
  BY InitRateInv, TypeInvariance, RateIsBounded, <1>1, <1>2, PTL DEF Spec

-----------------------------------------------------------------------------
(* Which route a packet gets. *)

(* What xdp_router has found out about the packet with record w: a routed  *)
(* packet parsed as a query and its route is the one that dispatch         *)
(* selects; only without a route it gets the default action; and while it  *)
(* is in progress no test before the limiter refuses it.                   *)
Routed(w) ==
  /\ w.route # 0 \/ w.by = "default" =>
       w.gen \in Gens /\ ParsesAsQuery(w.pkt) /\ w.route = SelectRoute(w.gen, Qname(w.pkt.labels))
  /\ w.by = "default" => w.route = 0
  /\ w.stage \in {"rate", "pow", "bloom", "target"} =>
       GlobalPreRoute(w.gen, w.pkt) /\ StaticFilters(Routes(w.gen)[w.route], w.pkt)

RouteInv == \A c \in Cpus : Routed(work[c])

(* A step of the packet on CPU c leaves the other CPUs alone and changes   *)
(* neither the packet nor its program nor its route; what a check refuses  *)
(* it has tested in this second.                                           *)
LEMMA PacketStepKeeps ==
  ASSUME TypeInv, NEW c \in Cpus, PacketStep(c)
  PROVE  /\ \A d \in Cpus \ {c} : work'[d] = work[d]
         /\ work'[c].gen = work[c].gen
         /\ work'[c].pkt = work[c].pkt
         /\ work'[c].route = work[c].route
         /\ \/ work'[c].stage \in {"pow", "bloom", "target"} /\ work'[c].by = "none"
            \/ /\ work'[c].stage = "done"
               /\ work'[c].by \in {"rate", "pow", "bloom", "target"}
               /\ work'[c].at = now
         /\ work'[c].by = "pow" => ~PowAllow(c)
         /\ work'[c].by = "bloom" => ~BloomAllow(c)
         /\ work[c].stage = "pow" /\ work'[c].stage = "bloom" => PowAllow(c)
<1>1. work[c] \in PacketWork /\ work[c].by = "none" /\ work \in [Cpus -> PacketWork]
  BY PacketStepMoves DEF TypeInv, TypeOK, WorkInv
<1>2. ASSUME NEW stage \in {"pow", "bloom", "target"}, Proceed(c, stage)
      PROVE  /\ \A d \in Cpus \ {c} : work'[d] = work[d]
             /\ work'[c].gen = work[c].gen
             /\ work'[c].pkt = work[c].pkt
             /\ work'[c].route = work[c].route
             /\ work'[c].stage = stage /\ work'[c].by = "none"
  BY <1>1, <1>2 DEF Proceed, PacketWork
<1>3. ASSUME NEW v, NEW check, Decide(c, v, check)
      PROVE  /\ \A d \in Cpus \ {c} : work'[d] = work[d]
             /\ work'[c].gen = work[c].gen
             /\ work'[c].pkt = work[c].pkt
             /\ work'[c].route = work[c].route
             /\ work'[c].stage = "done" /\ work'[c].by = check /\ work'[c].at = now
  BY <1>1, <1>3 DEF Decide, Decided, PacketWork
<1>4. CASE RateLimit(c)
  <2>1. work[c].stage = "rate" /\ (Proceed(c, "pow") \/ Decide(c, "DROP", "rate"))
    BY <1>4 DEF RateLimit
  <2> QED
    BY <2>1, <1>2, <1>3
<1>5. CASE PowCheck(c)
  <2>1. CASE PowAllow(c) /\ Proceed(c, "bloom")
    BY <2>1, <1>2
  <2>2. CASE ~PowAllow(c) /\ Decide(c, "DROP", "pow")
    <3>1. /\ \A d \in Cpus \ {c} : work'[d] = work[d]
          /\ work'[c].gen = work[c].gen
          /\ work'[c].pkt = work[c].pkt
          /\ work'[c].route = work[c].route
          /\ work'[c].stage = "done" /\ work'[c].by = "pow" /\ work'[c].at = now
      BY <2>2, <1>3, Zenon
    <3> QED
      BY <2>2, <3>1
  <2> QED
    BY <1>5, <2>1, <2>2 DEF PowCheck
<1>6. CASE BloomCheck(c)
  <2>1. work[c].stage = "bloom"
        /\ IF BloomAllow(c) THEN Proceed(c, "target") ELSE Decide(c, "DROP", "bloom")
    BY <1>6 DEF BloomCheck
  <2> QED
    BY <2>1, <1>2, <1>3
<1>7. CASE Target(c)
  BY <1>7, <1>3 DEF Target
<1> QED
  BY <1>4, <1>5, <1>6, <1>7 DEF PacketStep

(* What xdp_router decides about a new packet before the limiter. *)
LEMMA ClassifyRoutes ==
  ASSUME NEW g \in Gens, NEW p \in Packets
  PROVE  /\ Routed(Classify(g, p))
         /\ Classify(g, p).gen = g
         /\ Classify(g, p).by \in {"none", "parse", "global", "default", "filter"}
<1> DEFINE r == SelectRoute(g, Qname(p.labels))
           w == [stage |-> "rate", gen |-> g, pkt |-> p, route |-> 0,
                 verdict |-> "none", by |-> "none", at |-> now]
           routed == [w EXCEPT !.route = r]
<1>1. CASE ~ParsesAsQuery(p)
  <2>1. Classify(g, p) = Decided(w, "PASS", "parse")
    BY <1>1 DEF Classify
  <2> QED
    BY <2>1 DEF Decided, Routed
<1>2. CASE ParsesAsQuery(p) /\ ~GlobalPreRoute(g, p)
  <2>1. Classify(g, p) = Decided(w, "DROP", "global")
    BY <1>2 DEF Classify
  <2> QED
    BY <2>1 DEF Decided, Routed
<1>3. CASE ParsesAsQuery(p) /\ GlobalPreRoute(g, p) /\ r = 0
  <2>1. Classify(g, p) = Decided(w, Loaded[g].default, "default")
    BY <1>3 DEF Classify
  <2> QED
    BY <1>3, <2>1 DEF Decided, Routed
<1>4. CASE ParsesAsQuery(p) /\ GlobalPreRoute(g, p) /\ r # 0 /\ ~StaticFilters(Routes(g)[r], p)
  <2>1. Classify(g, p) = Decided(routed, "DROP", "filter")
    BY <1>4 DEF Classify
  <2> HIDE DEF r
  <2>2. Routed(Decided(routed, "DROP", "filter"))
    BY <1>4 DEF Decided, Routed, r
  <2> QED
    BY <2>1, <2>2 DEF Decided
<1>5. CASE ParsesAsQuery(p) /\ GlobalPreRoute(g, p) /\ r # 0 /\ StaticFilters(Routes(g)[r], p)
  <2>1. Classify(g, p) = routed
    BY <1>5 DEF Classify
  <2> HIDE DEF r
  <2>2. Routed(routed)
    BY <1>5 DEF Routed, r
  <2> QED
    BY <2>1, <2>2
<1> QED
  BY <1>1, <1>2, <1>3, <1>4, <1>5

(* Only packet steps and new packets change a packet's record. *)
LEMMA OtherSteps ==
  ASSUME [Next]_vars
  PROVE  \/ \E c \in Cpus : PacketStep(c) \/ \E p \in Packets : Receive(c, p)
         \/ UNCHANGED work
BY DEF Next, vars, SeedMaps, Swap, Tick, CloseObject, BindSocket

(* A new packet changes the record of its CPU only. *)
LEMMA ReceiveRecords ==
  ASSUME TypeInv, NEW c \in Cpus, NEW p \in Packets, Receive(c, p)
  PROVE  /\ active \in Gens
         /\ work'[c] = Classify(active, p)
         /\ \A d \in Cpus \ {c} : work'[d] = work[d]
<1>1. active \in 0 .. ready /\ ready \in 0 .. Len(Loaded) /\ work \in [Cpus -> PacketWork]
  BY DEF TypeInv, TypeOK
<1>2. active # 0 /\ work' = [work EXCEPT ![c] = Classify(active, p)]
  BY DEF Receive
<1>3. active \in Gens
  BY <1>2, StateNumbers, Zenon
<1> QED
  BY <1>1, <1>2, <1>3

(* Every step keeps RouteInv. *)
LEMMA RouteInvStep == TypeInv /\ RouteInv /\ [Next]_vars => RouteInv'
<1> SUFFICES ASSUME TypeInv, RouteInv, [Next]_vars, NEW d \in Cpus PROVE Routed(work'[d])
  BY DEF RouteInv
<1>1. ASSUME NEW c \in Cpus, PacketStep(c) PROVE Routed(work'[d])
  <2>1. /\ \A e \in Cpus \ {c} : work'[e] = work[e]
        /\ work'[c].gen = work[c].gen
        /\ work'[c].pkt = work[c].pkt
        /\ work'[c].route = work[c].route
        /\ work'[c].by # "default"
        /\ work[c].stage \in {"rate", "pow", "bloom", "target"}
    BY <1>1, PacketStepKeeps, PacketStepMoves
  <2>2. Routed(work'[c])
    BY <2>1 DEF RouteInv, Routed
  <2> QED
    BY <2>1, <2>2 DEF RouteInv
<1>2. ASSUME NEW c \in Cpus, NEW p \in Packets, Receive(c, p) PROVE Routed(work'[d])
  BY <1>2, ReceiveRecords, ClassifyRoutes DEF RouteInv
<1>3. CASE UNCHANGED work
  BY <1>3 DEF RouteInv
<1> QED
  BY <1>1, <1>2, <1>3, OtherSteps

(* RouteInv, for the theorems below to rest on. *)
LEMMA RouteInvariance == Spec => [](TypeInv /\ RouteInv)
<1>1. Init => RouteInv
  BY DEF Init, RouteInv, Routed
<1> QED
  BY <1>1, RouteInvStep, TypeInvariance, PTL DEF Spec

-----------------------------------------------------------------------------
(* Names and patterns. *)

(* A subdomain ends in the domain, as match_suffix compares it. *)
LEMMA SuffixOfSubdomain ==
  ASSUME NEW domain \in Seq(STRING), NEW name, Len(name) \in Nat, IsSubdomain(name, domain)
  PROVE  EndsWith(name, domain)
<1> DEFINE longer == <<Dot>> \o domain
           Chars == STRING \cup {Dot}
<1>1. domain \in Seq(Chars) /\ DOMAIN domain = 1 .. Len(domain) /\ Len(domain) \in Nat
  OBVIOUS
<1>2. /\ Len(longer) = Len(domain) + 1 /\ DOMAIN longer = 1 .. Len(domain) + 1
      /\ \A k \in 1 .. Len(domain) : longer[k + 1] = domain[k]
  <2>1. Dot \in Chars
    OBVIOUS
  <2> HIDE DEF Chars
  <2>2. <<Dot>> \in Seq(Chars) /\ Len(<<Dot>>) = 1
    BY <2>1
  <2> QED
    BY <1>1, <2>2
<1> HIDE DEF longer
<1>3. /\ Len(longer) <= Len(name)
      /\ \A k \in DOMAIN longer : name[Len(name) - Len(longer) + k] = longer[k]
  BY DEF IsSubdomain, EndsWith, longer
<1>4. ASSUME NEW k \in 1 .. Len(domain)
      PROVE  name[Len(name) - Len(domain) + k] = domain[k]
  <2>1. name[Len(name) - Len(longer) + (k + 1)] = longer[k + 1]
    BY <1>1, <1>2, <1>3
  <2>2. Len(name) - Len(longer) + (k + 1) = Len(name) - Len(domain) + k
    BY <1>1, <1>2
  <2> QED
    BY <1>2, <2>1, <2>2
<1> QED
  BY <1>1, <1>2, <1>3, <1>4 DEF EndsWith

(* Everything begins and ends with nothing. *)
LEMMA NoPattern ==
  ASSUME NEW t, Len(t) \in Nat
  PROVE  StartsWith(t, <<>>) /\ EndsWith(t, <<>>)
<1>1. Len(<<>>) = 0 /\ DOMAIN <<>> = {}
  OBVIOUS
<1> QED
  BY <1>1 DEF StartsWith, EndsWith

(* A name that parse_dns_query accepts has a character. *)
LEMMA AcceptedName ==
  ASSUME NEW labels, NameParses(labels)
  PROVE  Len(Qname(labels)) \in Nat \ {0} /\ Qname(labels) # <<>>
<1>1. Len(Qname(labels)) \in Nat \ {0}
  BY LimitsAssumption DEF NameParses
<1> QED
  BY <1>1, Len(<<>>) = 0

(* The seeder and the generator hash a configured name as the data plane   *)
(* hashes a query for it.                                                  *)
LEMMA SameHash ==
  ASSUME NEW domain, NEW labels, NameParses(labels), Normalize(domain) = Qname(labels)
  PROVE  HashDomain(domain) = RouteHash(Qname(labels))
BY AcceptedName DEF HashDomain

(* dispatch gives a query for a route's domain to that route. *)
LEMMA ExactSelected ==
  ASSUME NEW g \in Gens, NEW r \in DOMAIN Routes(g), NEW qname,
         HashDomain(Routes(g)[r].domain) = RouteHash(qname)
  PROVE  SelectRoute(g, qname) = r
<1>1. ExactRoutes(g, qname) \in SUBSET Nat /\ r \in ExactRoutes(g, qname)
  BY RouterAssumption DEF ExactRoutes
<1>2. Min(ExactRoutes(g, qname)) \in ExactRoutes(g, qname)
  BY <1>1, MinInSet
<1>3. \A q \in ExactRoutes(g, qname) : q = r
  BY DistinctCases DEF ExactRoutes
<1> QED
  BY <1>1, <1>2, <1>3 DEF SelectRoute

(* A query for the domain of a route is given to no other route. *)
THEOREM ExactDomainsWin == Spec => []ExactBeatsFallback
<1>1. TypeInv /\ RouteInv => ExactBeatsFallback
  <2> SUFFICES ASSUME RouteInv, NEW c \in Cpus, work[c].route # 0,
                      NEW r \in DOMAIN Routes(work[c].gen),
                      Normalize(Routes(work[c].gen)[r].domain) = Qname(work[c].pkt.labels)
               PROVE  work[c].route = r
    BY DEF ExactBeatsFallback
  <2>1. /\ work[c].gen \in Gens
        /\ NameParses(work[c].pkt.labels)
        /\ work[c].route = SelectRoute(work[c].gen, Qname(work[c].pkt.labels))
    BY DEF RouteInv, Routed, ParsesAsQuery
  <2>2. HashDomain(Routes(work[c].gen)[r].domain) = RouteHash(Qname(work[c].pkt.labels))
    BY <2>1, SameHash, Zenon
  <2> QED
    BY <2>1, <2>2, ExactSelected, Zenon
<1> QED
  BY <1>1, RouteInvariance, PTL

(* A name that ends in a route's domain is given to some route. *)
LEMMA FallbackSelected ==
  ASSUME NEW g \in Gens, NEW r \in DOMAIN Routes(g), NEW qname,
         MatchSuffix(qname, Routes(g)[r].domain)
  PROVE  SelectRoute(g, qname) # 0
<1>1. ExactRoutes(g, qname) \in SUBSET (Nat \ {0}) /\ FallbackRoutes(g, qname) \in SUBSET (Nat \ {0})
  BY RouterAssumption DEF ExactRoutes, FallbackRoutes
<1>2. FallbackRoutes(g, qname) # {}
  BY DEF FallbackRoutes
<1>3. \A S \in SUBSET (Nat \ {0}) : S # {} => Min(S) \in S
  BY MinInSet
<1> QED
  BY <1>1, <1>2, <1>3 DEF SelectRoute

(* No subdomain of a route's domain gets the default action. *)
THEOREM SubdomainsAreRouted == Spec => []SubdomainsRouted
<1>1. TypeInv /\ RouteInv => SubdomainsRouted
  <2> SUFFICES ASSUME TypeInv, RouteInv, NEW c \in Cpus, work[c].by = "default",
                      NEW r \in DOMAIN Routes(work[c].gen),
                      Len(Routes(work[c].gen)[r].domain) < PatternLimit,
                      IsSubdomain(Qname(work[c].pkt.labels), Routes(work[c].gen)[r].domain)
               PROVE  FALSE
    BY DEF SubdomainsRouted
  <2> DEFINE g == work[c].gen
             qname == Qname(work[c].pkt.labels)
  <2>1. g \in Gens /\ NameParses(work[c].pkt.labels) /\ work[c].route = SelectRoute(g, qname)
    BY DEF RouteInv, Routed, ParsesAsQuery
  <2>2. Routes(g)[r].domain \in Seq(STRING) /\ Len(qname) \in Nat
    BY <2>1, AcceptedName, RouterAssumption
  <2>3. EndsWith(qname, Routes(g)[r].domain)
    BY <2>2, SuffixOfSubdomain
  <2>4. SelectRoute(g, qname) # 0
    BY <2>1, <2>3, FallbackSelected DEF MatchSuffix
  <2>5. work[c].route = 0
    BY DEF RouteInv, Routed
  <2> QED
    BY <2>1, <2>4, <2>5
<1> QED
  BY <1>1, RouteInvariance, PTL

-----------------------------------------------------------------------------
(* Proofs of work. *)

(* The second a is in bucket a \div w, and only there. *)
LEMMA BucketOfSecond ==
  ASSUME NEW a \in Nat, NEW w \in Nat \ {0}
  PROVE  /\ a \div w \in Nat
         /\ (a \div w) * w <= a
         /\ a < (a \div w) * w + w
OBVIOUS

(* The bucket after bucket p starts w seconds later. *)
LEMMA BucketsInOrder ==
  ASSUME NEW w \in Nat \ {0}, NEW p \in Nat, NEW q \in Nat, p < q
  PROVE  p * w + w <= q * w
OBVIOUS

(* pow_allow accepts the bucket of every second at most one window ago. *)
LEMMA RecentSecondsCovered ==
  ASSUME NEW t \in Nat, NEW w \in Nat \ {0}, NEW sec \in 0 .. t, sec + w >= t
  PROVE  sec \div w \in Buckets(t, w)
<1> DEFINE p == sec \div w
           q == t \div w
<1>1. sec \in Nat
  OBVIOUS
<1>2. p \in Nat /\ p * w <= sec /\ sec < p * w + w
  BY <1>1, BucketOfSecond
<1>3. q \in Nat /\ q * w <= t /\ t < q * w + w
  BY BucketOfSecond
<1> HIDE DEF p, q
<1>4. p <= q
  <2>1. CASE q < p
    <3>1. q * w + w <= p * w
      BY <2>1, <1>2, <1>3, BucketsInOrder
    <3>2. q * w \in Nat /\ p * w \in Nat
      BY <1>2, <1>3
    <3> QED
      BY <1>1, <1>2, <1>3, <3>1, <3>2
  <2> QED
    BY <2>1, <1>2, <1>3
<1>5. q <= p + 1
  <2>1. CASE p + 1 < q
    <3>1. (p + 1) * w + w <= q * w
      BY <2>1, <1>2, <1>3, BucketsInOrder
    <3>2. (p + 1) * w = p * w + w
      BY <1>2
    <3>3. q * w \in Nat /\ p * w \in Nat
      BY <1>2, <1>3
    <3> QED
      BY <1>1, <1>2, <1>3, <3>1, <3>2, <3>3
  <2> QED
    BY <2>1, <1>2, <1>3
<1> QED
  BY <1>2, <1>3, <1>4, <1>5 DEF Buckets, p, q

(* The last second of bucket b. *)
LEMMA LastOfBucket ==
  ASSUME NEW w \in Nat \ {0}, NEW b \in Nat
  PROVE  (b * w + (w - 1)) \div w = b
<1> DEFINE m == b * w
           a == m + (w - 1)
           q == a \div w
<1>1. m \in Nat
  OBVIOUS
<1>2. a \in Nat
  BY <1>1
<1>3. q \in Nat /\ q * w <= a /\ a < q * w + w
  BY <1>2, BucketOfSecond
<1> HIDE DEF q
<1>4. q * w \in Nat
  BY <1>3
<1>5. ~(q < b)
  <2> SUFFICES ASSUME q < b PROVE FALSE
    OBVIOUS
  <2>1. q * w + w <= m
    BY <1>3, BucketsInOrder
  <2> HIDE DEF m
  <2> QED
    BY <1>1, <1>3, <1>4, <2>1
<1>6. ~(b < q)
  <2> SUFFICES ASSUME b < q PROVE FALSE
    OBVIOUS
  <2>1. m + w <= q * w
    BY <1>3, BucketsInOrder
  <2> HIDE DEF m
  <2> QED
    BY <1>1, <1>3, <1>4, <2>1
<1> QED
  BY <1>3, <1>5, <1>6 DEF q

(* A bucket that pow_allow accepts has a second at most one window ago. *)
LEMMA AcceptedBucketsRecent ==
  ASSUME NEW t \in Nat, NEW w \in Nat \ {0}, NEW b \in Buckets(t, w)
  PROVE  \E sec \in 0 .. t : sec + w >= t /\ sec \div w = b
<1> DEFINE q == t \div w
<1>1. q \in Nat /\ q * w <= t /\ t < q * w + w
  BY BucketOfSecond
<1>2. b \in 0 .. q /\ b + 1 >= q
  BY DEF Buckets
<1> HIDE DEF q
<1>3. b \in Nat /\ (b = q \/ b + 1 = q) /\ b * w \in Nat
  BY <1>1, <1>2
<1>4. CASE b = q
  <2>1. t \in 0 .. t /\ t + w >= t
    OBVIOUS
  <2> QED
    BY <1>4, <2>1 DEF q
<1>5. CASE b + 1 = q
  <2> DEFINE last == b * w + (w - 1)
  <2>1. q * w = b * w + w
    BY <1>1, <1>3, <1>5
  <2>2. last \in 0 .. t /\ last + w >= t
    BY <1>1, <1>3, <2>1
  <2>3. last \div w = b
    BY <1>3, LastOfBucket
  <2> HIDE DEF last
  <2> QED
    BY <2>2, <2>3
<1> QED
  BY <1>3, <1>4, <1>5

(* A packet that pow_allow refused had no token for a bucket that was      *)
(* accepted in the second of the refusal.                                  *)
RefusedToken(w) ==
  w.by = "pow" =>
    /\ w.gen \in Gens /\ w.route \in DOMAIN Routes(w.gen)
    /\ \A b \in Buckets(w.at, Routes(w.gen)[w.route].powWindow) :
         ~(LeadingZeros(RouteHash(Qname(w.pkt.labels)), w.pkt.id, b)
             >= Routes(w.gen)[w.route].difficulty)

TokenInv == \A c \in Cpus : RefusedToken(work[c])

(* Every step keeps TokenInv. *)
LEMMA TokenInvStep == TypeInv /\ TokenInv /\ [Next]_vars => TokenInv'
<1> SUFFICES ASSUME TypeInv, TokenInv, [Next]_vars, NEW d \in Cpus
             PROVE  RefusedToken(work'[d])
  BY DEF TokenInv
<1>1. ASSUME NEW c \in Cpus, PacketStep(c) PROVE RefusedToken(work'[d])
  <2>1. /\ \A e \in Cpus \ {c} : work'[e] = work[e]
        /\ work'[c].gen = work[c].gen
        /\ work'[c].pkt = work[c].pkt
        /\ work'[c].route = work[c].route
        /\ work'[c].by = "pow" => work'[c].at = now /\ ~PowAllow(c)
        /\ work[c].gen \in Gens /\ work[c].route \in DOMAIN Routes(work[c].gen)
    BY <1>1, PacketStepKeeps, PacketStepMoves
  <2>2. RefusedToken(work'[c])
    BY <2>1 DEF RefusedToken, PowAllow, MyRoute, MyHash
  <2> QED
    BY <2>1, <2>2 DEF TokenInv
<1>2. ASSUME NEW c \in Cpus, NEW p \in Packets, Receive(c, p) PROVE RefusedToken(work'[d])
  <2>1. work'[c].by # "pow" /\ \A e \in Cpus \ {c} : work'[e] = work[e]
    BY <1>2, ReceiveRecords, ClassifyRoutes
  <2> QED
    BY <2>1 DEF TokenInv, RefusedToken
<1>3. CASE UNCHANGED work
  BY <1>3 DEF TokenInv
<1> QED
  BY <1>1, <1>2, <1>3, OtherSteps

(* A proof of work for one of the last pow_time_window seconds is never    *)
(* refused, across any change of bucket.                                   *)
THEOREM TokensAreHonoured == Spec => []PowTokenHonoured
<1>1. Init => TokenInv
  <2>1. Init => \A c \in Cpus : work[c].by # "pow"
    BY DEF Init
  <2> QED
    BY <2>1, Zenon DEF TokenInv, RefusedToken
<1>2. TypeInv /\ TokenInv => PowTokenHonoured
  <2> SUFFICES ASSUME TypeInv, TokenInv, NEW c \in Cpus, work[c].by = "pow",
                      MyRoute(c).powWindow # 0, NEW sec \in 0 .. work[c].at,
                      sec + MyRoute(c).powWindow >= work[c].at
               PROVE  ~SolvedAt(c, sec)
    BY DEF PowTokenHonoured
  <2>1. /\ work[c].gen \in Gens /\ work[c].route \in DOMAIN Routes(work[c].gen)
        /\ \A b \in Buckets(work[c].at, MyRoute(c).powWindow) :
             ~(LeadingZeros(MyHash(c), work[c].pkt.id, b) >= MyRoute(c).difficulty)
    BY DEF TokenInv, RefusedToken, MyRoute, MyHash
  <2>2. MyRoute(c).powWindow \in Nat \ {0}
    BY <2>1, RouterAssumption DEF MyRoute
  <2>3. work[c].at \in Nat
    BY StateNumbers, Zenon
  <2>4. sec \div MyRoute(c).powWindow \in Buckets(work[c].at, MyRoute(c).powWindow)
    BY <2>2, <2>3, RecentSecondsCovered
  <2> QED
    BY <2>1, <2>4 DEF SolvedAt
<1> QED
  BY <1>1, <1>2, TokenInvStep, TypeInvariance, PTL DEF Spec

(* A token gets a packet past pow_allow only when it is one that is made   *)
(* for the current second or for one at most one window ago.               *)
THEOREM TokensExpire == Spec => PowTokenExpires
<1> DEFINE Expires ==
      \A c \in Cpus :
        /\ work[c].stage = "pow" /\ work'[c].stage = "bloom"
        /\ MyRoute(c).difficulty # 0 /\ MyRoute(c).powWindow # 0
        => \E sec \in 0 .. now : sec + MyRoute(c).powWindow >= now /\ SolvedAt(c, sec)
<1>1. TypeInv /\ [Next]_vars => Expires
  <2> SUFFICES ASSUME TypeInv, [Next]_vars, NEW c \in Cpus,
                      work[c].stage = "pow", work'[c].stage = "bloom",
                      MyRoute(c).difficulty # 0, MyRoute(c).powWindow # 0
               PROVE  \E sec \in 0 .. now :
                        sec + MyRoute(c).powWindow >= now /\ SolvedAt(c, sec)
    OBVIOUS
  <2>1. PacketStep(c)
    <3>1. ASSUME NEW d \in Cpus, NEW p \in Packets, Receive(d, p) PROVE FALSE
      BY <3>1, ReceiveRecords DEF Receive
    <3>2. ASSUME NEW d \in Cpus \ {c}, PacketStep(d) PROVE FALSE
      BY <3>2, PacketStepKeeps
    <3> QED
      BY <3>1, <3>2, OtherSteps
  <2>2. PowAllow(c) /\ work[c].gen \in Gens /\ work[c].route \in DOMAIN Routes(work[c].gen)
    BY <2>1, PacketStepKeeps, PacketStepMoves
  <2>3. PICK b \in Buckets(now, MyRoute(c).powWindow) :
          LeadingZeros(MyHash(c), work[c].pkt.id, b) >= MyRoute(c).difficulty
    BY <2>2 DEF PowAllow
  <2>4. MyRoute(c).powWindow \in Nat \ {0} /\ now \in Nat
    <3>1. now \in Nat
      BY StateNumbers, Zenon
    <3>2. MyRoute(c).powWindow \in Nat
      BY <2>2, RouterAssumption DEF MyRoute
    <3> QED
      BY <3>1, <3>2
  <2>5. PICK sec \in 0 .. now : /\ sec + MyRoute(c).powWindow >= now
                                /\ sec \div MyRoute(c).powWindow = b
    BY <2>4, AcceptedBucketsRecent
  <2>6. SolvedAt(c, sec)
    BY <2>3, <2>5 DEF SolvedAt
  <2> QED
    BY <2>5, <2>6
<1>2. Spec => [][Expires]_vars
  BY <1>1, TypeInvariance, PTL DEF Spec
<1> QED
  BY <1>2 DEF PowTokenExpires

-----------------------------------------------------------------------------
(* The order of the checks. *)

(* rate_limit_allow is reached only by packets that every test of the      *)
(* program and every static filter of their route let through.             *)
THEOREM BudgetIsForEligible == Spec => BudgetOnlyForEligible
<1> DEFINE Eligible ==
      \A c \in Cpus : \A r \in RouteIds :
        LET e == <<work[c].gen, c, r>>
            p == work[c].pkt
            qname == Qname(p.labels)
        IN  e \in Entries /\ rate'[e] # rate[e] =>
              /\ r = work[c].route
              /\ p.size <= Loaded[e[1]].maxSize /\ p.src \notin Loaded[e[1]].blacklist
              /\ p.opcode \in Loaded[e[1]].opcodes /\ (Loaded[e[1]].dropTruncated => ~p.tc)
              /\ Len(p.labels) \in MyRoute(c).minLabels .. MyRoute(c).maxLabels
              /\ Len(qname) \in MyRoute(c).minLen .. MyRoute(c).maxLen
              /\ p.qtype \in MyRoute(c).types
              /\ StartsWith(qname, MyRoute(c).prefix)
              /\ EndsWith(qname, MyRoute(c).suffix)
<1>1. TypeInv /\ RouteInv /\ [Next]_vars => Eligible
  <2> SUFFICES ASSUME TypeInv, RouteInv, [Next]_vars, NEW c \in Cpus, NEW r \in RouteIds,
                      <<work[c].gen, c, r>> \in Entries,
                      rate'[<<work[c].gen, c, r>>] # rate[<<work[c].gen, c, r>>]
               PROVE  /\ r = work[c].route
                      /\ GlobalPreRoute(work[c].gen, work[c].pkt)
                      /\ StaticFilters(MyRoute(c), work[c].pkt)
                      /\ StartsWith(Qname(work[c].pkt.labels), MyRoute(c).prefix)
                      /\ EndsWith(Qname(work[c].pkt.labels), MyRoute(c).suffix)
    BY DEF Eligible, GlobalPreRoute, StaticFilters
  <2> DEFINE qname == Qname(work[c].pkt.labels)
  <2>1. PICK d \in Cpus : PacketStep(d)
    BY DEF Next, vars, Receive, SeedMaps, Swap, Tick, CloseObject, BindSocket
  <2>2. MyEntry(d) = <<work[c].gen, c, r>>
    <3>1. rate \in [Entries -> [window : 0 .. MaxSec, count : Nat]]
      BY DEF TypeInv, TypeOK
    <3> QED
      BY <2>1, <3>1, RateChange
  <2>3. d = c /\ r = work[c].route
    BY <2>2 DEF MyEntry
  <2>4. /\ work[c].stage \in {"rate", "pow", "bloom", "target"}
        /\ work[c].gen \in Gens /\ work[c].route \in DOMAIN Routes(work[c].gen)
    BY <2>1, <2>3, PacketStepMoves
  <2>5. work[c].route # 0
    BY <2>4, RouterAssumption
  <2>6. /\ GlobalPreRoute(work[c].gen, work[c].pkt)
        /\ StaticFilters(MyRoute(c), work[c].pkt)
        /\ NameParses(work[c].pkt.labels)
    BY <2>4, <2>5 DEF RouteInv, Routed, MyRoute, ParsesAsQuery
  <2>7. /\ MatchPrefix(qname, MyRoute(c).prefix)
        /\ MatchSuffix(qname, MyRoute(c).suffix)
        /\ Len(qname) \in Nat
    BY <2>6, AcceptedName DEF StaticFilters
  <2>8. StartsWith(qname, MyRoute(c).prefix) /\ EndsWith(qname, MyRoute(c).suffix)
    BY <2>7, NoPattern DEF MatchPrefix, MatchSuffix
  <2> QED
    BY <2>3, <2>6, <2>8
<1>2. Spec => [][Eligible]_vars
  BY <1>1, RouteInvariance, PTL DEF Spec
<1> QED
  BY <1>2 DEF BudgetOnlyForEligible

-----------------------------------------------------------------------------
(* pow_bloom. *)

(* A packet that bloom_allow refused needs a bit, in every bucket that was *)
(* accepted in the second of the refusal, that is not among these bits.    *)
RefusedName(w, bits) ==
  w.by = "bloom" =>
    /\ w.gen \in Gens /\ w.route \in DOMAIN Routes(w.gen)
    /\ Routes(w.gen)[w.route].bloom
    /\ \A b \in Buckets(w.at, Routes(w.gen)[w.route].bloomWindow) :
         ~(BloomBits(RouteHash(Qname(w.pkt.labels)), Routes(w.gen)[w.route], b) \subseteq bits)

(* A program's bitmap is what the seeder made of its routes, and no packet *)
(* runs in a program whose bitmap is still to be seeded.                   *)
BloomInv ==
  /\ \A g \in 1 .. ready : \E t : bloom[g] = SeededBits(g, t)
  /\ \A c \in Cpus : work[c].gen <= ready /\ RefusedName(work[c], bloom[work[c].gen])

(* Every step keeps BloomInv: a bitmap is written before its program runs  *)
(* and never again.                                                        *)
LEMMA BloomInvStep == TypeInv /\ BloomInv /\ [Next]_vars => BloomInv'
<1> SUFFICES ASSUME TypeInv, BloomInv, [Next]_vars PROVE BloomInv'
  OBVIOUS
<1>1. ready \in Nat /\ active \in 0 .. ready /\ DOMAIN bloom = Gens
      /\ \A c \in Cpus : work[c].gen \in Nat
  BY StateNumbers, Zenon
<1>2. ASSUME NEW c \in Cpus, PacketStep(c) PROVE BloomInv'
  <2>1. /\ \A e \in Cpus \ {c} : work'[e] = work[e]
        /\ work'[c].gen = work[c].gen
        /\ work'[c].pkt = work[c].pkt
        /\ work'[c].route = work[c].route
        /\ work'[c].by = "bloom" => work'[c].at = now /\ ~BloomAllow(c)
        /\ work[c].gen \in Gens /\ work[c].route \in DOMAIN Routes(work[c].gen)
        /\ bloom' = bloom /\ ready' = ready
    BY <1>2, PacketStepKeeps, PacketStepMoves DEF control
  <2>2. RefusedName(work'[c], bloom[work'[c].gen])
    BY <2>1 DEF RefusedName, BloomAllow, MyRoute, MyHash
  <2> QED
    BY <2>1, <2>2 DEF BloomInv
<1>3. ASSUME NEW c \in Cpus, NEW p \in Packets, Receive(c, p) PROVE BloomInv'
  <2>1. /\ work'[c].by # "bloom" /\ work'[c].gen = active
        /\ \A e \in Cpus \ {c} : work'[e] = work[e]
        /\ bloom' = bloom /\ ready' = ready
    <3>1. bloom' = bloom /\ ready' = ready
      BY <1>3 DEF Receive, control
    <3> QED
      BY <1>3, <3>1, ReceiveRecords, ClassifyRoutes
  <2>2. work'[c].gen <= ready
    BY <1>1, <2>1
  <2>3. RefusedName(work'[c], bloom[work'[c].gen])
    BY <2>1 DEF RefusedName
  <2> QED
    BY <2>1, <2>2, <2>3 DEF BloomInv
<1>4. CASE SeedMaps
  <2> DEFINE g == ready + 1
  <2>1. /\ g \in Gens /\ ready' = g /\ work' = work
        /\ bloom' = [bloom EXCEPT ![g] = SeededBits(g, BootEpoch + now)]
    BY <1>4 DEF SeedMaps
  <2>2. ASSUME NEW h \in 1 .. g PROVE \E t : bloom'[h] = SeededBits(h, t)
    <3>1. CASE h = g
      BY <1>1, <2>1, <3>1
    <3>2. CASE h # g
      <4>1. h \in 1 .. ready
        BY <1>1, <3>2
      <4>2. bloom'[h] = bloom[h]
        BY <1>1, <2>1, <3>2
      <4> QED
        BY <4>1, <4>2 DEF BloomInv
    <3> QED
      BY <3>1, <3>2
  <2>3. ASSUME NEW c \in Cpus
        PROVE  work[c].gen <= g /\ RefusedName(work[c], bloom'[work[c].gen])
    <3>1. work[c].gen <= ready /\ work[c].gen # g
      BY <1>1 DEF BloomInv
    <3>2. bloom'[work[c].gen] = bloom[work[c].gen] \/ work[c].gen \notin Gens
      BY <1>1, <2>1, <3>1
    <3>3. RefusedName(work[c], bloom[work[c].gen])
      BY DEF BloomInv
    <3>4. RefusedName(work[c], bloom'[work[c].gen])
      BY <3>2, <3>3 DEF RefusedName
    <3>5. work[c].gen <= g
      BY <1>1, <3>1
    <3> QED
      BY <3>4, <3>5
  <2> QED
    BY <2>1, <2>2, <2>3 DEF BloomInv
<1>5. CASE UNCHANGED <<work, bloom, ready>>
  BY <1>5 DEF BloomInv
<1>6. \/ \E c \in Cpus : PacketStep(c) \/ \E p \in Packets : Receive(c, p)
      \/ SeedMaps
      \/ UNCHANGED <<work, bloom, ready>>
  BY DEF Next, vars, Swap, Tick, CloseObject, BindSocket, control
<1> QED
  BY <1>2, <1>3, <1>4, <1>5, <1>6

(* seed_bloom_map skips a seed whose hash is 0, which is meant for the     *)
(* empty name; no other seed has that hash.                                *)
SeedsHaveHashes ==
  \A g \in Gens : \A r \in DOMAIN Routes(g) : \A seed \in Routes(g)[r].seeds :
    Normalize(seed) # <<>> => HashDomain(seed) # 0

(* A seeded name is never refused when the filter has no time window,      *)
(* unless its hash is 0: the seeder leaves such a name out.                *)
THEOREM SeededNamesAreAdmitted == SeedsHaveHashes /\ Spec => []SeededNamesPass
<1> SUFFICES ASSUME SeedsHaveHashes PROVE Spec => []SeededNamesPass
  OBVIOUS
<1>1. Init => BloomInv
  <2> SUFFICES ASSUME Init PROVE BloomInv
    OBVIOUS
  <2>1. ready = 0 /\ \A c \in Cpus : work[c].gen = 0 /\ work[c].by = "none"
    BY DEF Init
  <2>2. ASSUME NEW c \in Cpus
        PROVE  work[c].gen <= ready /\ RefusedName(work[c], bloom[work[c].gen])
    <3>1. work[c].gen <= ready /\ work[c].by # "bloom"
      BY <2>1
    <3> QED
      BY <3>1, Zenon DEF RefusedName
  <2>3. 1 .. ready = {}
    BY <2>1
  <2> QED
    BY <2>2, <2>3 DEF BloomInv
<1>2. TypeInv /\ RouteInv /\ BloomInv => SeededNamesPass
  <2> SUFFICES ASSUME TypeInv, RouteInv, BloomInv, NEW c \in Cpus, work[c].by = "bloom",
                      MyRoute(c).bloomWindow = 0, NEW seed \in MyRoute(c).seeds,
                      Normalize(seed) = Qname(work[c].pkt.labels)
               PROVE  FALSE
    BY DEF SeededNamesPass, SeededFor
  <2> DEFINE g == work[c].gen
             r == work[c].route
  <2>1. /\ g \in Gens /\ r \in DOMAIN Routes(g) /\ MyRoute(c).bloom /\ g <= ready
        /\ \A b \in Buckets(work[c].at, MyRoute(c).bloomWindow) :
             ~(BloomBits(MyHash(c), MyRoute(c), b) \subseteq bloom[g])
    <3>1. g <= ready /\ RefusedName(work[c], bloom[g])
      BY DEF BloomInv
    <3> QED
      BY <3>1, Zenon DEF RefusedName, MyRoute, MyHash
  <2>2. r # 0 /\ g \in 1 .. ready
    <3>1. r # 0
      BY <2>1, RouterAssumption
    <3> QED
      BY <2>1, <3>1, StateNumbers, Zenon
  <2>3. NameParses(work[c].pkt.labels)
    BY <2>2 DEF RouteInv, Routed, ParsesAsQuery
  <2>4. HashDomain(seed) = MyHash(c) /\ HashDomain(seed) # 0
    BY <2>1, <2>3, SameHash, AcceptedName DEF MyHash, MyRoute, SeedsHaveHashes
  <2>5. PICK t : bloom[g] = SeededBits(g, t)
    BY <2>2 DEF BloomInv
  <2>6. BloomBits(MyHash(c), MyRoute(c), 0) \subseteq RouteBits(MyRoute(c), t)
    BY <2>4 DEF RouteBits, Buckets
  <2>7. RouteBits(MyRoute(c), t) \subseteq SeededBits(g, t)
    BY <2>1 DEF SeededBits, MyRoute
  <2>8. ~(BloomBits(MyHash(c), MyRoute(c), 0) \subseteq bloom[g])
    BY <2>1 DEF Buckets
  <2> QED
    BY <2>5, <2>6, <2>7, <2>8
<1> QED
  BY <1>1, <1>2, BloomInvStep, RouteInvariance, PTL DEF Spec
=============================================================================
