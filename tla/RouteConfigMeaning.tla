------------------------ MODULE RouteConfigMeaning -------------------------
(***************************************************************************)
(* What an accepted document means, and why another one is refused.        *)
(*                                                                         *)
(*   - A route means what its mapping says, and a document is refused only *)
(*     for a fault of its own.  ReadInv relates each field to the rows of  *)
(*     RouteKeys that are read so far; after the last row WordRows turns   *)
(*     this into what the strongest key says, and WrittenInv keeps it for  *)
(*     the finished routes.                                                *)
(*   - The tail call table holds at each index the program of the last     *)
(*     route that uses it, and nothing elsewhere (SeedInv).                *)
(***************************************************************************)
EXTENDS RouteConfigProofs

(* The obligations are large: a leaf that names no prover has 30 seconds. *)
USE SMTT(30), ZenonT(30)

-----------------------------------------------------------------------------
(***************************************************************************)
(* What has been read against what the document says.                      *)
(***************************************************************************)

(* v is what the document says about f, stored in g; or the default. *)
Word(v, node, c, f, g) ==
  \/ Says(node, f) = {} /\ Silent(node, g, 33) /\ v = RouteDefaults(<<>>, c)[g]
  \/ \E w : Says(node, f) = {w} /\ ~Silent(node, g, 33) /\ Legal(g, w) /\ v = Value(g, w)

(* Every row is legal. *)
AllLegal(node) == \A a \in 1 .. 32 : ~Refused(node, RouteKeys[a])

(* The only row about a field, and the keys that decide it. *)
RowAbout(f, g, p) ==
  /\ p \in 1 .. 32 /\ Strength[f] = RouteKeys[p].keys
  /\ \A a \in 1 .. 32 : RouteKeys[a].field = g <=> a = p

(* A field that one row is about. *)
LEMMA OneRow ==
  ASSUME NEW node, NEW c, NEW v, NEW f, NEW g, NEW p,
         RowAbout(f, g, p),
         AllLegal(node),
         Holds(v, node, c, g, 33)
  PROVE  Word(v, node, c, f, g)
<1>1. Says(node, f) = IF Present(node, RouteKeys[p]) = {} THEN {} ELSE {Found(node, RouteKeys[p])}
  BY DEF RowAbout, Says, Present, Found
<1>2. Silent(node, g, 33) <=> Present(node, RouteKeys[p]) = {}
  <2>1. 33 - 1 = 32
    OBVIOUS
  <2> QED
    BY <2>1, Zenon DEF RowAbout, Silent
<1>3. ASSUME NEW a \in 1 .. 32, Decides(node, g, a, 33)
      PROVE  a = p /\ Present(node, RouteKeys[p]) # {} /\ Legal(g, Found(node, RouteKeys[p]))
  BY <1>3, Zenon DEF RowAbout, Decides, AllLegal, Refused
<1>4. CASE Silent(node, g, 33) /\ v = RouteDefaults(<<>>, c)[g]
  BY <1>1, <1>2, <1>4 DEF Word
<1>5. CASE \E a \in 1 .. 32 : Decides(node, g, a, 33) /\ v = Value(g, Found(node, RouteKeys[a]))
  BY <1>1, <1>2, <1>3, <1>5, Zenon DEF Word
<1> QED
  BY <1>4, <1>5 DEF Holds

(* Where a list has members of D. *)
Hits(s, D) == {a \in DOMAIN s : s[a] \in D}

(* s is t with one key more in front. *)
Extends(s, t, m) ==
  /\ m \in 1 .. 2 /\ DOMAIN t = 1 .. m /\ DOMAIN s = 1 .. m + 1
  /\ \A i \in 1 .. m : s[i + 1] = t[i]

(* The first key present of such a list. *)
LEMMA FirstKey ==
  ASSUME NEW D, NEW s, NEW t, NEW m, Extends(s, t, m)
  PROVE  /\ s[1] \in D => Hits(s, D) # {} /\ s[Min(Hits(s, D))] = s[1]
         /\ s[1] \notin D /\ Hits(t, D) # {} =>
              Hits(s, D) # {} /\ s[Min(Hits(s, D))] = t[Min(Hits(t, D))]
         /\ s[1] \notin D /\ Hits(t, D) = {} => Hits(s, D) = {}
<1> DEFINE S == Hits(s, D)
           T == Hits(t, D)
<1>0. m \in 1 .. 2 /\ \A i \in 1 .. m : s[i + 1] = t[i]
  BY DEF Extends
<1>1. \A a : a \in S <=> a \in 1 .. m + 1 /\ s[a] \in D
  BY DEF Hits, Extends
<1>2. \A a : a \in T <=> a \in 1 .. m /\ s[a + 1] \in D
  BY DEF Hits, Extends
<1> HIDE DEF S, T
<1>3. S \in SUBSET (1 .. 3) /\ T \in SUBSET (1 .. 3)
  <2>1. 1 .. m \subseteq 1 .. 3 /\ 1 .. m + 1 \subseteq 1 .. 3
    BY <1>0
  <2> QED
    BY <1>1, <1>2, <2>1, Zenon
<1>4. ASSUME s[1] \in D PROVE S # {} /\ s[Min(S)] = s[1]
  <2>1. 1 \in S
    BY <1>0, <1>1, <1>4
  <2>2. Min(S) \in S /\ Min(S) <= 1
    BY <1>3, <2>1, FirstOf
  <2>3. Min(S) \in 1 .. 3
    BY <1>3, <2>2, Zenon
  <2>4. Min(S) = 1
    BY <2>2, <2>3
  <2> QED
    BY <2>1, <2>4
<1>5. ASSUME s[1] \notin D, T # {} PROVE S # {} /\ s[Min(S)] = t[Min(T)]
  <2>1. Min(T) \in T /\ \A y \in T : Min(T) <= y
    BY <1>3, <1>5, FirstOf
  <2>2. Min(T) \in 1 .. m
    BY <1>2, <2>1
  <2>3. Min(T) + 1 \in S
    BY <1>0, <1>1, <1>2, <2>1, <2>2
  <2>4. Min(S) \in S /\ Min(S) <= Min(T) + 1
    BY <1>3, <2>3, FirstOf, Zenon
  <2>5. Min(S) \in 1 .. m + 1 /\ Min(S) # 1
    BY <1>0, <1>1, <1>5, <2>4
  <2> DEFINE x == Min(S) - 1
  <2>6. x \in 1 .. m /\ x + 1 = Min(S)
    BY <1>0, <2>5
  <2> HIDE DEF x
  <2>7. x \in T
    BY <1>1, <1>2, <2>4, <2>6
  <2>8. Min(T) <= x
    BY <2>1, <2>7
  <2>9. Min(S) = Min(T) + 1
    BY <1>0, <2>2, <2>4, <2>5, <2>6, <2>8
  <2> QED
    BY <1>0, <2>2, <2>3, <2>9
<1>6. ASSUME s[1] \notin D, T = {} PROVE S = {}
  <2> SUFFICES ASSUME NEW a \in S PROVE FALSE
    OBVIOUS
  <2>1. a \in 2 .. m + 1 /\ s[a] \in D
    BY <1>0, <1>1, <1>6
  <2> DEFINE x == a - 1
  <2>2. x \in 1 .. m /\ x + 1 = a
    BY <1>0, <2>1
  <2> HIDE DEF x
  <2>3. x \in T
    BY <1>2, <2>1, <2>2
  <2> QED
    BY <1>6, <2>3
<1> QED
  BY <1>4, <1>5, <1>6 DEF S, T

(* The two rows about a field, and the keys that decide it. *)
RowsAbout(f, g, p, q, m) ==
  /\ p \in 1 .. 32 /\ q \in 1 .. 32 /\ p < q
  /\ \A a \in 1 .. 32 : RouteKeys[a].field = g <=> a \in {p, q}
  /\ DOMAIN RouteKeys[q].keys = 1 .. 1 /\ RouteKeys[q].keys[1] = Strength[f][1]
  /\ Extends(Strength[f], RouteKeys[p].keys, m)

(* A field that a key of the route and then one of its filters is about. *)
LEMMA TwoRows ==
  ASSUME NEW node, NEW c, NEW v, NEW f, NEW g, NEW p, NEW q, NEW m,
         RowsAbout(f, g, p, q, m),
         AllLegal(node),
         Holds(v, node, c, g, 33)
  PROVE  Word(v, node, c, f, g)
<1> DEFINE P == Present(node, RouteKeys[p])
           Q == Present(node, RouteKeys[q])
<1>1. Says(node, f) = IF Q # {} THEN {Found(node, RouteKeys[q])}
                      ELSE IF P # {} THEN {Found(node, RouteKeys[p])} ELSE {}
  <2> DEFINE s == Strength[f]
             rp == RouteKeys[p]
             rq == RouteKeys[q]
             tp == rp.keys
             tq == rq.keys
             D == DOMAIN node
  <2>1. DOMAIN tq = 1 .. 1 /\ tq[1] = s[1] /\ Extends(s, tp, m)
    BY DEF RowsAbout
  <2>2. P = Hits(tp, D) /\ Q = Hits(tq, D)
    BY Zenon DEF Present, Hits
  <2>3. Says(node, f) = IF Hits(s, D) = {} THEN {} ELSE {node[s[Min(Hits(s, D))]]}
    BY Zenon DEF Says, Hits
  <2>4. Found(node, rp) = node[tp[Min(P)]] /\ Found(node, rq) = node[tq[Min(Q)]]
    BY Zenon DEF Found
  <2> HIDE DEF s, rp, rq, tp, tq, D, P, Q
  <2>5. /\ s[1] \in D => Hits(s, D) # {} /\ s[Min(Hits(s, D))] = s[1]
        /\ s[1] \notin D /\ P # {} => Hits(s, D) # {} /\ s[Min(Hits(s, D))] = tp[Min(P)]
        /\ s[1] \notin D /\ P = {} => Hits(s, D) = {}
    <3>1. /\ s[1] \in D => Hits(s, D) # {} /\ s[Min(Hits(s, D))] = s[1]
          /\ s[1] \notin D /\ Hits(tp, D) # {} =>
               Hits(s, D) # {} /\ s[Min(Hits(s, D))] = tp[Min(Hits(tp, D))]
          /\ s[1] \notin D /\ Hits(tp, D) = {} => Hits(s, D) = {}
      BY <2>1, FirstKey, Zenon
    <3> QED
      BY <2>2, <3>1
  <2>6. \A a : a \in Q <=> a = 1 /\ s[1] \in D
    <3>1. \A a : a \in Q <=> a \in 1 .. 1 /\ tq[a] \in D
      BY <2>1, <2>2, Zenon DEF Hits
    <3> QED
      BY <2>1, <3>1
  <2>7. Q # {} <=> s[1] \in D
    BY <2>6
  <2>8. Q # {} => Min(Q) = 1
    <3>1. Q \in SUBSET (1 .. 3)
      BY <2>6
    <3>2. Q # {} => Min(Q) \in Q
      BY <3>1, FirstOf
    <3> QED
      BY <2>6, <3>2
  <2>9. Q # {} => Found(node, rq) = node[s[1]]
    BY <2>1, <2>4, <2>8, Zenon
  <2>10. Says(node, f) = IF Q # {} THEN {Found(node, rq)}
                         ELSE IF P # {} THEN {Found(node, rp)} ELSE {}
    BY <2>3, <2>4, <2>5, <2>7, <2>9, Zenon
  <2> QED
    BY <2>10 DEF rp, rq
<1>2. /\ p \in 1 .. 32 /\ q \in 1 .. 32 /\ p < q
      /\ \A a \in 1 .. 32 : RouteKeys[a].field = g <=> a \in {p, q}
  BY DEF RowsAbout
<1>3. Silent(node, g, 33) <=> P = {} /\ Q = {}
  <2>1. 33 - 1 = 32
    OBVIOUS
  <2> QED
    BY <1>2, <2>1, Zenon DEF Silent
<1>4. ASSUME NEW a \in 1 .. 32, Decides(node, g, a, 33)
      PROVE  /\ Says(node, f) = {Found(node, RouteKeys[a])} /\ ~Silent(node, g, 33)
             /\ Legal(g, Found(node, RouteKeys[a]))
  <2>1. /\ RouteKeys[a].field = g /\ Present(node, RouteKeys[a]) # {}
        /\ \A b \in a + 1 .. 32 : RouteKeys[b].field = g => Present(node, RouteKeys[b]) = {}
    BY <1>4 DEF Decides
  <2>2. a \in {p, q} /\ Legal(g, Found(node, RouteKeys[a]))
    BY <1>2, <2>1, Zenon DEF AllLegal, Refused
  <2>3. a = p => Q = {}
    <3>1. a = p => q \in a + 1 .. 32
      BY <1>2
    <3> QED
      BY <1>2, <2>1, <3>1, Zenon
  <2>4. (a = q /\ Q # {}) \/ (a = p /\ P # {} /\ Q = {})
    BY <2>1, <2>2, <2>3
  <2> HIDE DEF P, Q
  <2> QED
    BY <1>1, <1>3, <2>2, <2>4
<1> HIDE DEF P, Q
<1>5. CASE Silent(node, g, 33) /\ v = RouteDefaults(<<>>, c)[g]
  BY <1>1, <1>3, <1>5 DEF Word
<1>6. CASE \E a \in 1 .. 32 : Decides(node, g, a, 33) /\ v = Value(g, Found(node, RouteKeys[a]))
  BY <1>4, <1>6, Zenon DEF Word
<1> QED
  BY <1>5, <1>6 DEF Holds

(* Which rows are about a field, in the two parts of the table. *)
LEMMA FieldRows ==
  \A a \in 1 .. 32 :
    /\ RouteKeys[a].field = "min_labels" <=> a \in {8, 20}
    /\ RouteKeys[a].field = "max_labels" <=> a \in {9, 21}
    /\ RouteKeys[a].field = "qname_min_len" <=> a \in {10, 22}
    /\ RouteKeys[a].field = "qname_max_len" <=> a \in {11, 23}
    /\ RouteKeys[a].field = "pow_difficulty" <=> a \in {12, 16}
    /\ RouteKeys[a].field = "rrtype_mask" <=> a \in {13, 26}
    /\ RouteKeys[a].field = "kernel_port" <=> a = 3
    /\ RouteKeys[a].field = "prog_index" <=> a = 4
    /\ RouteKeys[a].field = "pow_enabled" <=> a = 15
    /\ RouteKeys[a].field = "deny" <=> a = 27
    /\ RouteKeys[a].field = "bloom_enabled" <=> a = 28
    /\ RouteKeys[a].field = "bloom_size" <=> a = 29
    /\ RouteKeys[a].field = "bloom_hash_functions" <=> a = 30
<1> SUFFICES ASSUME NEW a \in 1 .. 32
             PROVE  /\ RouteKeys[a].field = "min_labels" <=> a \in {8, 20}
                    /\ RouteKeys[a].field = "max_labels" <=> a \in {9, 21}
                    /\ RouteKeys[a].field = "qname_min_len" <=> a \in {10, 22}
                    /\ RouteKeys[a].field = "qname_max_len" <=> a \in {11, 23}
                    /\ RouteKeys[a].field = "pow_difficulty" <=> a \in {12, 16}
                    /\ RouteKeys[a].field = "rrtype_mask" <=> a \in {13, 26}
                    /\ RouteKeys[a].field = "kernel_port" <=> a = 3
                    /\ RouteKeys[a].field = "prog_index" <=> a = 4
                    /\ RouteKeys[a].field = "pow_enabled" <=> a = 15
                    /\ RouteKeys[a].field = "deny" <=> a = 27
                    /\ RouteKeys[a].field = "bloom_enabled" <=> a = 28
                    /\ RouteKeys[a].field = "bloom_size" <=> a = 29
                    /\ RouteKeys[a].field = "bloom_hash_functions" <=> a = 30
  OBVIOUS
<1>1. CASE a \in 1 .. 13
  <2> DEFINE x == FlatKeys[a].field
  <2>1. RouteKeys[a].field = x
    BY <1>1 DEF RouteKeys, FlatKeys, FilterKeys
  <2>2. /\ x = "min_labels" <=> a = 8
        /\ x = "max_labels" <=> a = 9
        /\ x = "qname_min_len" <=> a = 10
        /\ x = "qname_max_len" <=> a = 11
        /\ x = "pow_difficulty" <=> a = 12
        /\ x = "rrtype_mask" <=> a = 13
        /\ x = "kernel_port" <=> a = 3
        /\ x = "prog_index" <=> a = 4
        /\ x # "pow_enabled"
        /\ x # "deny"
        /\ x # "bloom_enabled"
        /\ x # "bloom_size"
        /\ x # "bloom_hash_functions"
    BY <1>1, SMTT(40) DEF FlatKeys
  <2> HIDE DEF x
  <2>3. /\ x = "min_labels" <=> a \in {8, 20}
        /\ x = "max_labels" <=> a \in {9, 21}
        /\ x = "qname_min_len" <=> a \in {10, 22}
        /\ x = "qname_max_len" <=> a \in {11, 23}
        /\ x = "pow_difficulty" <=> a \in {12, 16}
        /\ x = "rrtype_mask" <=> a \in {13, 26}
        /\ x = "kernel_port" <=> a = 3
        /\ x = "prog_index" <=> a = 4
        /\ x = "pow_enabled" <=> a = 15
        /\ x = "deny" <=> a = 27
        /\ x = "bloom_enabled" <=> a = 28
        /\ x = "bloom_size" <=> a = 29
        /\ x = "bloom_hash_functions" <=> a = 30
    BY <1>1, <2>2
  <2> QED
    BY <2>1, <2>3, Zenon
<1>2. CASE a \in 14 .. 32
  <2> DEFINE b == a - 13
             x == FilterKeys[b].field
  <2>1. RouteKeys[a].field = x
    BY <1>2 DEF RouteKeys, FlatKeys, FilterKeys
  <2>2. b \in 1 .. 19 /\ a = b + 13
    BY <1>2
  <2> HIDE DEF b
  <2>3. /\ x = "min_labels" <=> b = 7
        /\ x = "max_labels" <=> b = 8
        /\ x = "qname_min_len" <=> b = 9
        /\ x = "qname_max_len" <=> b = 10
        /\ x = "pow_difficulty" <=> b = 3
        /\ x = "rrtype_mask" <=> b = 13
        /\ x = "pow_enabled" <=> b = 2
        /\ x = "deny" <=> b = 14
        /\ x = "bloom_enabled" <=> b = 15
        /\ x = "bloom_size" <=> b = 16
        /\ x = "bloom_hash_functions" <=> b = 17
        /\ x # "kernel_port"
        /\ x # "prog_index"
    BY <2>2, SMTT(40) DEF FilterKeys
  <2> HIDE DEF x
  <2>4. /\ x = "min_labels" <=> a \in {8, 20}
        /\ x = "max_labels" <=> a \in {9, 21}
        /\ x = "qname_min_len" <=> a \in {10, 22}
        /\ x = "qname_max_len" <=> a \in {11, 23}
        /\ x = "pow_difficulty" <=> a \in {12, 16}
        /\ x = "rrtype_mask" <=> a \in {13, 26}
        /\ x = "kernel_port" <=> a = 3
        /\ x = "prog_index" <=> a = 4
        /\ x = "pow_enabled" <=> a = 15
        /\ x = "deny" <=> a = 27
        /\ x = "bloom_enabled" <=> a = 28
        /\ x = "bloom_size" <=> a = 29
        /\ x = "bloom_hash_functions" <=> a = 30
    BY <2>2, <2>3
  <2> QED
    BY <2>1, <2>4, Zenon
<1> QED
  BY <1>1, <1>2

(* Their keys. *)
LEMMA RowKeys ==
  /\ RouteKeys[3].keys = <<"forward_port", "kernel_port">>
  /\ RouteKeys[4].keys = <<"prog_array_index", "prog_index">>
  /\ RouteKeys[8].keys = <<"min_labels">>
  /\ RouteKeys[9].keys = <<"max_labels">>
  /\ RouteKeys[10].keys = <<"qname_min_len", "min_length">>
  /\ RouteKeys[11].keys = <<"qname_max_len", "max_length">>
  /\ RouteKeys[12].keys = <<"pow_difficulty">>
  /\ RouteKeys[13].keys = <<"allow_types">>
  /\ RouteKeys[15].keys = <<"pow.enabled">>
  /\ RouteKeys[16].keys = <<"pow.difficulty">>
  /\ RouteKeys[20].keys = <<"qname_rules.min_labels">>
  /\ RouteKeys[21].keys = <<"qname_rules.max_labels">>
  /\ RouteKeys[22].keys = <<"qname_rules.min_length">>
  /\ RouteKeys[23].keys = <<"qname_rules.max_length">>
  /\ RouteKeys[26].keys = <<"dns_types.allow">>
  /\ RouteKeys[27].keys = <<"dns_types.deny">>
  /\ RouteKeys[28].keys = <<"bloom_filter.enabled">>
  /\ RouteKeys[29].keys = <<"bloom_filter.size">>
  /\ RouteKeys[30].keys = <<"bloom_filter.hash_functions">>
<1>1. /\ RouteKeys[3] = FlatKeys[3]
      /\ RouteKeys[4] = FlatKeys[4]
      /\ RouteKeys[8] = FlatKeys[8]
      /\ RouteKeys[9] = FlatKeys[9]
      /\ RouteKeys[10] = FlatKeys[10]
      /\ RouteKeys[11] = FlatKeys[11]
      /\ RouteKeys[12] = FlatKeys[12]
      /\ RouteKeys[13] = FlatKeys[13]
  BY DEF RouteKeys, FlatKeys, FilterKeys
<1>2. /\ RouteKeys[15] = FilterKeys[2]
      /\ RouteKeys[16] = FilterKeys[3]
      /\ RouteKeys[20] = FilterKeys[7]
      /\ RouteKeys[21] = FilterKeys[8]
      /\ RouteKeys[22] = FilterKeys[9]
      /\ RouteKeys[23] = FilterKeys[10]
      /\ RouteKeys[26] = FilterKeys[13]
      /\ RouteKeys[27] = FilterKeys[14]
      /\ RouteKeys[28] = FilterKeys[15]
      /\ RouteKeys[29] = FilterKeys[16]
      /\ RouteKeys[30] = FilterKeys[17]
  BY DEF RouteKeys, FlatKeys, FilterKeys
<1>3. /\ FlatKeys[3].keys = <<"forward_port", "kernel_port">>
      /\ FlatKeys[4].keys = <<"prog_array_index", "prog_index">>
      /\ FlatKeys[8].keys = <<"min_labels">>
      /\ FlatKeys[9].keys = <<"max_labels">>
      /\ FlatKeys[10].keys = <<"qname_min_len", "min_length">>
      /\ FlatKeys[11].keys = <<"qname_max_len", "max_length">>
      /\ FlatKeys[12].keys = <<"pow_difficulty">>
      /\ FlatKeys[13].keys = <<"allow_types">>
  BY DEF FlatKeys
<1>4. /\ FilterKeys[2].keys = <<"pow.enabled">>
      /\ FilterKeys[3].keys = <<"pow.difficulty">>
      /\ FilterKeys[7].keys = <<"qname_rules.min_labels">>
      /\ FilterKeys[8].keys = <<"qname_rules.max_labels">>
      /\ FilterKeys[9].keys = <<"qname_rules.min_length">>
      /\ FilterKeys[10].keys = <<"qname_rules.max_length">>
      /\ FilterKeys[13].keys = <<"dns_types.allow">>
      /\ FilterKeys[14].keys = <<"dns_types.deny">>
      /\ FilterKeys[15].keys = <<"bloom_filter.enabled">>
      /\ FilterKeys[16].keys = <<"bloom_filter.size">>
      /\ FilterKeys[17].keys = <<"bloom_filter.hash_functions">>
  BY DEF FilterKeys
<1> QED
  BY <1>1, <1>2, <1>3, <1>4, Zenon

(* A list of two or three keys extends the rest of it. *)
LEMMA ListExtends ==
  ASSUME NEW s, NEW t, NEW a, NEW b, NEW c
  PROVE  /\ s = <<a, b>> /\ t = <<b>> => Extends(s, t, 1)
         /\ s = <<a, b, c>> /\ t = <<b, c>> => Extends(s, t, 2)
BY DEF Extends

(* The rows of a field, and the keys that decide it, agree. *)
LEMMA WordRows ==
  /\ RowsAbout("min_labels", "min_labels", 8, 20, 1)
  /\ RowsAbout("max_labels", "max_labels", 9, 21, 1)
  /\ RowsAbout("qname_min_len", "qname_min_len", 10, 22, 2)
  /\ RowsAbout("qname_max_len", "qname_max_len", 11, 23, 2)
  /\ RowsAbout("pow_difficulty", "pow_difficulty", 12, 16, 1)
  /\ RowsAbout("types", "rrtype_mask", 13, 26, 1)
  /\ RowAbout("kernel_port", "kernel_port", 3)
  /\ RowAbout("prog_index", "prog_index", 4)
  /\ RowAbout("pow_enabled", "pow_enabled", 15)
  /\ RowAbout("deny", "deny", 27)
  /\ RowAbout("bloom_enabled", "bloom_enabled", 28)
  /\ RowAbout("bloom_size", "bloom_size", 29)
  /\ RowAbout("bloom_hash_functions", "bloom_hash_functions", 30)
<1>0. /\ {8, 9, 10, 11, 12, 13, 16, 20, 21, 22, 23, 26, 3, 4, 15, 27, 28, 29, 30} \subseteq 1 .. 32
      /\ 8 < 20 /\ 9 < 21 /\ 10 < 22 /\ 11 < 23 /\ 12 < 16 /\ 13 < 26
  OBVIOUS
<1>1. /\ Strength["min_labels"] = <<"qname_rules.min_labels", "min_labels">>
      /\ Strength["max_labels"] = <<"qname_rules.max_labels", "max_labels">>
      /\ Strength["qname_min_len"] = <<"qname_rules.min_length", "qname_min_len", "min_length">>
      /\ Strength["qname_max_len"] = <<"qname_rules.max_length", "qname_max_len", "max_length">>
      /\ Strength["pow_difficulty"] = <<"pow.difficulty", "pow_difficulty">>
      /\ Strength["types"] = <<"dns_types.allow", "allow_types">>
  BY DEF Strength
<1>2. /\ Strength["kernel_port"] = <<"forward_port", "kernel_port">>
      /\ Strength["prog_index"] = <<"prog_array_index", "prog_index">>
      /\ Strength["pow_enabled"] = <<"pow.enabled">>
      /\ Strength["deny"] = <<"dns_types.deny">>
      /\ Strength["bloom_enabled"] = <<"bloom_filter.enabled">>
      /\ Strength["bloom_size"] = <<"bloom_filter.size">>
      /\ Strength["bloom_hash_functions"] = <<"bloom_filter.hash_functions">>
  BY DEF Strength
<1>3. /\ Extends(Strength["min_labels"], RouteKeys[8].keys, 1)
      /\ Extends(Strength["max_labels"], RouteKeys[9].keys, 1)
      /\ Extends(Strength["qname_min_len"], RouteKeys[10].keys, 2)
      /\ Extends(Strength["qname_max_len"], RouteKeys[11].keys, 2)
      /\ Extends(Strength["pow_difficulty"], RouteKeys[12].keys, 1)
      /\ Extends(Strength["types"], RouteKeys[13].keys, 1)
  <2>1. Extends(Strength["min_labels"], RouteKeys[8].keys, 1)
    BY <1>1, RowKeys, ListExtends, Zenon
  <2>2. Extends(Strength["max_labels"], RouteKeys[9].keys, 1)
    BY <1>1, RowKeys, ListExtends, Zenon
  <2>3. Extends(Strength["qname_min_len"], RouteKeys[10].keys, 2)
    BY <1>1, RowKeys, ListExtends, Zenon
  <2>4. Extends(Strength["qname_max_len"], RouteKeys[11].keys, 2)
    BY <1>1, RowKeys, ListExtends, Zenon
  <2>5. Extends(Strength["pow_difficulty"], RouteKeys[12].keys, 1)
    BY <1>1, RowKeys, ListExtends, Zenon
  <2>6. Extends(Strength["types"], RouteKeys[13].keys, 1)
    BY <1>1, RowKeys, ListExtends, Zenon
  <2> QED
    BY <2>1, <2>2, <2>3, <2>4, <2>5, <2>6
<1>4. /\ RouteKeys[20].keys[1] = Strength["min_labels"][1] /\ DOMAIN RouteKeys[20].keys = 1 .. 1
      /\ RouteKeys[21].keys[1] = Strength["max_labels"][1] /\ DOMAIN RouteKeys[21].keys = 1 .. 1
      /\ RouteKeys[22].keys[1] = Strength["qname_min_len"][1] /\ DOMAIN RouteKeys[22].keys = 1 .. 1
      /\ RouteKeys[23].keys[1] = Strength["qname_max_len"][1] /\ DOMAIN RouteKeys[23].keys = 1 .. 1
      /\ RouteKeys[16].keys[1] = Strength["pow_difficulty"][1] /\ DOMAIN RouteKeys[16].keys = 1 .. 1
      /\ RouteKeys[26].keys[1] = Strength["types"][1] /\ DOMAIN RouteKeys[26].keys = 1 .. 1
  BY <1>1, RowKeys
<1>5. /\ Strength["kernel_port"] = RouteKeys[3].keys
      /\ Strength["prog_index"] = RouteKeys[4].keys
      /\ Strength["pow_enabled"] = RouteKeys[15].keys
      /\ Strength["deny"] = RouteKeys[27].keys
      /\ Strength["bloom_enabled"] = RouteKeys[28].keys
      /\ Strength["bloom_size"] = RouteKeys[29].keys
      /\ Strength["bloom_hash_functions"] = RouteKeys[30].keys
  BY <1>2, RowKeys, Zenon
<1>6. RowsAbout("min_labels", "min_labels", 8, 20, 1)
  BY <1>0, <1>3, <1>4, FieldRows, Zenon DEF RowsAbout
<1>7. RowsAbout("max_labels", "max_labels", 9, 21, 1)
  BY <1>0, <1>3, <1>4, FieldRows, Zenon DEF RowsAbout
<1>8. RowsAbout("qname_min_len", "qname_min_len", 10, 22, 2)
  BY <1>0, <1>3, <1>4, FieldRows, Zenon DEF RowsAbout
<1>9. RowsAbout("qname_max_len", "qname_max_len", 11, 23, 2)
  BY <1>0, <1>3, <1>4, FieldRows, Zenon DEF RowsAbout
<1>10. RowsAbout("pow_difficulty", "pow_difficulty", 12, 16, 1)
  BY <1>0, <1>3, <1>4, FieldRows, Zenon DEF RowsAbout
<1>11. RowsAbout("types", "rrtype_mask", 13, 26, 1)
  BY <1>0, <1>3, <1>4, FieldRows, Zenon DEF RowsAbout
<1>12. RowAbout("kernel_port", "kernel_port", 3)
  BY <1>0, <1>5, FieldRows, Zenon DEF RowAbout
<1>13. RowAbout("prog_index", "prog_index", 4)
  BY <1>0, <1>5, FieldRows, Zenon DEF RowAbout
<1>14. RowAbout("pow_enabled", "pow_enabled", 15)
  BY <1>0, <1>5, FieldRows, Zenon DEF RowAbout
<1>15. RowAbout("deny", "deny", 27)
  BY <1>0, <1>5, FieldRows, Zenon DEF RowAbout
<1>16. RowAbout("bloom_enabled", "bloom_enabled", 28)
  BY <1>0, <1>5, FieldRows, Zenon DEF RowAbout
<1>17. RowAbout("bloom_size", "bloom_size", 29)
  BY <1>0, <1>5, FieldRows, Zenon DEF RowAbout
<1>18. RowAbout("bloom_hash_functions", "bloom_hash_functions", 30)
  BY <1>0, <1>5, FieldRows, Zenon DEF RowAbout
<1> QED
  BY <1>6, <1>7, <1>8, <1>9, <1>10, <1>11, <1>12, <1>13, <1>14, <1>15, <1>16, <1>17, <1>18

-----------------------------------------------------------------------------
(***************************************************************************)
(* A route whose keys are all read.                                        *)
(***************************************************************************)

BoundFields == {"min_labels", "max_labels", "qname_min_len", "qname_max_len"}

(* v is the number that is said, or else d. *)
Said(v, said, d) == (said = {} /\ v = d) \/ said = {v}

AsSaid(node, c, r, g) ==
  /\ \A f \in BoundFields : IF f \in g THEN Says(node, f) = {r[f]} ELSE Says(node, f) = {}
  /\ Said(r.kernel_port, Says(node, "kernel_port"), c.default_kernel_port)
  /\ Said(r.prog_index, Says(node, "prog_index"), 0)
  /\ Said(r.pow_difficulty, Says(node, "pow_difficulty"), 0)
  /\ Said(r.bloom_size, Says(node, "bloom_size"), 1024)
  /\ Said(r.bloom_hash_functions, Says(node, "bloom_hash_functions"), 3)
  /\ r.pow_enabled <=> Otherwise(Says(node, "pow_enabled"), "yes") \in Truthy
  /\ r.bloom_enabled <=> Otherwise(Says(node, "bloom_enabled"), "no") \in Truthy
  /\ r.rrtype_mask = Otherwise(Says(node, "types"), {"A", "AAAA", "TXT"})
                       \ Otherwise(Says(node, "deny"), {})

(* What is said once. *)
LEMMA OtherwiseOne == \A d : Otherwise({}, d) = d /\ \A w : Otherwise({w}, d) = w
BY DEF Otherwise

(* A word about a number. *)
LEMMA NumberWord ==
  ASSUME NEW v, NEW node, NEW c, NEW f, NEW g \in U8Fields \cup U16Fields \cup U32Fields,
         NEW d, RouteDefaults(<<>>, c)[g] = d,
         Word(v, node, c, f, g)
  PROVE  /\ Said(v, Says(node, f), d)
         /\ Silent(node, g, 33) <=> Says(node, f) = {}
<1>1. \A w : Value(g, w) = w
  BY StoredValues, Zenon
<1> QED
  BY <1>1 DEF Word, Said

(* A word about a switch. *)
LEMMA SwitchWord ==
  ASSUME NEW v, NEW node, NEW c, NEW f, NEW g \in BoolFields, NEW d,
         RouteDefaults(<<>>, c)[g] <=> d \in Truthy,
         Word(v, node, c, f, g)
  PROVE  v <=> Otherwise(Says(node, f), d) \in Truthy
<1>1. \A w : Value(g, w) = (w \in Truthy)
  BY StoredValues, Zenon
<1>2. CASE Says(node, f) = {} /\ v = RouteDefaults(<<>>, c)[g]
  BY <1>2, OtherwiseOne, Zenon
<1>3. CASE \E w : Says(node, f) = {w} /\ v = Value(g, w)
  BY <1>1, <1>3, OtherwiseOne, Zenon
<1> QED
  BY <1>2, <1>3, Zenon DEF Word

(* A word about types. *)
LEMMA TypesWord ==
  ASSUME NEW v, NEW node, NEW c, Word(v, node, c, "types", "rrtype_mask")
  PROVE  v = Otherwise(Says(node, "types"), {"A", "AAAA", "TXT"})
<1>1. \A w : Value("rrtype_mask", w) = w
  BY StoredValues, Zenon
<1> DEFINE deflt == {"A", "AAAA", "TXT"}
<1>2. RouteDefaults(<<>>, c)["rrtype_mask"] = deflt
  BY DEF RouteDefaults
<1> HIDE DEF deflt
<1>3. ASSUME Says(node, "types") = {} /\ v = RouteDefaults(<<>>, c)["rrtype_mask"]
      PROVE  v = Otherwise(Says(node, "types"), deflt)
  BY <1>2, <1>3 DEF Otherwise
<1>4. ASSUME \E w : Says(node, "types") = {w} /\ v = Value("rrtype_mask", w)
      PROVE  v = Otherwise(Says(node, "types"), deflt)
  <2>1. PICK w : Says(node, "types") = {w} /\ v = Value("rrtype_mask", w)
    BY <1>4
  <2>2. v = w
    BY <1>1, <2>1
  <2> QED
    BY <2>1, <2>2, OtherwiseOne, Zenon
<1>5. v = Otherwise(Says(node, "types"), deflt)
  BY <1>3, <1>4 DEF Word
<1> QED
  BY <1>5 DEF deflt

(* What was read is what is said. *)
LEMMA ReadAsSaid ==
  ASSUME NEW node, NEW c, NEW r, NEW g, ReadSoFar(node, c, r, g, 33)
  PROVE  AsSaid(node, c, r, g)
<1>1. AllLegal(node)
  <2>1. 33 - 1 = 32
    OBVIOUS
  <2> QED
    BY <2>1, Zenon DEF ReadSoFar, AllLegal
<1> DEFINE Fields == BoundFields \cup {"kernel_port", "prog_index", "pow_enabled",
             "pow_difficulty", "bloom_enabled", "bloom_size", "bloom_hash_functions"}
<1>2. \A f \in Fields : f \in KeyFields \ {"rrtype_mask"}
  BY DEF BoundFields, KeyFields, NumberFields, OtherFields, U8Fields, U16Fields, U32Fields
<1>3. \A f \in Fields : Holds(r[f], node, c, f, 33)
  BY <1>2, Zenon DEF ReadSoFar
<1>4. \A f \in BoundFields : f \in g <=> ~Silent(node, f, 33)
  BY <1>2, Zenon DEF ReadSoFar
<1>5. /\ Word(r.min_labels, node, c, "min_labels", "min_labels")
      /\ Word(r.max_labels, node, c, "max_labels", "max_labels")
      /\ Word(r.qname_min_len, node, c, "qname_min_len", "qname_min_len")
      /\ Word(r.qname_max_len, node, c, "qname_max_len", "qname_max_len")
      /\ Word(r.pow_difficulty, node, c, "pow_difficulty", "pow_difficulty")
  BY <1>1, <1>3, WordRows, TwoRows, Zenon DEF BoundFields
<1>6. /\ Word(r.kernel_port, node, c, "kernel_port", "kernel_port")
      /\ Word(r.prog_index, node, c, "prog_index", "prog_index")
      /\ Word(r.pow_enabled, node, c, "pow_enabled", "pow_enabled")
      /\ Word(r.bloom_enabled, node, c, "bloom_enabled", "bloom_enabled")
      /\ Word(r.bloom_size, node, c, "bloom_size", "bloom_size")
      /\ Word(r.bloom_hash_functions, node, c, "bloom_hash_functions", "bloom_hash_functions")
  BY <1>1, <1>3, WordRows, OneRow, Zenon
<1>7. PICK mask : Holds(mask, node, c, "rrtype_mask", 33) /\ r.rrtype_mask = mask \ Denied(node, 33)
  BY DEF ReadSoFar
<1>8. mask = Otherwise(Says(node, "types"), {"A", "AAAA", "TXT"})
  <2>1. Word(mask, node, c, "types", "rrtype_mask")
    BY <1>1, <1>7, WordRows, TwoRows, Zenon
  <2> QED
    BY <2>1, TypesWord
<1>9. Denied(node, 33) = Otherwise(Says(node, "deny"), {})
  <2>1. Strength["deny"] = RouteKeys[DenyRow].keys
    BY WordRows DEF RowAbout, DenyRow
  <2>2. Says(node, "deny") = IF Present(node, RouteKeys[DenyRow]) = {} THEN {}
                             ELSE {Found(node, RouteKeys[DenyRow])}
    BY <2>1 DEF Says, Present, Found
  <2>3. 33 > DenyRow
    BY DEF DenyRow
  <2> QED
    BY <2>2, <2>3, OtherwiseOne, Zenon DEF Denied
<1>10. /\ \A f \in BoundFields : f \in U8Fields \cup U16Fields \cup U32Fields
       /\ {"kernel_port", "prog_index", "pow_difficulty", "bloom_size", "bloom_hash_functions"}
            \subseteq U8Fields \cup U16Fields \cup U32Fields
       /\ {"pow_enabled", "bloom_enabled"} \subseteq BoolFields
  BY DEF BoundFields, U8Fields, U16Fields, U32Fields, BoolFields
<1>11. /\ RouteDefaults(<<>>, c)["kernel_port"] = c.default_kernel_port
       /\ RouteDefaults(<<>>, c)["prog_index"] = 0 /\ RouteDefaults(<<>>, c)["pow_difficulty"] = 0
       /\ RouteDefaults(<<>>, c)["bloom_size"] = 1024
       /\ RouteDefaults(<<>>, c)["bloom_hash_functions"] = 3
  BY Zenon DEF RouteDefaults
<1>12. /\ RouteDefaults(<<>>, c)["pow_enabled"] <=> "yes" \in Truthy
       /\ RouteDefaults(<<>>, c)["bloom_enabled"] <=> "no" \in Truthy
  BY DEF RouteDefaults, Truthy
<1>13. /\ Said(r.kernel_port, Says(node, "kernel_port"), c.default_kernel_port)
       /\ Said(r.prog_index, Says(node, "prog_index"), 0)
       /\ Said(r.pow_difficulty, Says(node, "pow_difficulty"), 0)
       /\ Said(r.bloom_size, Says(node, "bloom_size"), 1024)
       /\ Said(r.bloom_hash_functions, Says(node, "bloom_hash_functions"), 3)
  <2>1. \A v, f, d, x : /\ x \in U8Fields \cup U16Fields \cup U32Fields
                         /\ RouteDefaults(<<>>, c)[x] = d /\ Word(v, node, c, f, x)
                         => Said(v, Says(node, f), d)
    BY NumberWord, Zenon
  <2>2. Said(r.kernel_port, Says(node, "kernel_port"), c.default_kernel_port)
    <3>1. /\ "kernel_port" \in U8Fields \cup U16Fields \cup U32Fields
          /\ RouteDefaults(<<>>, c)["kernel_port"] = c.default_kernel_port
          /\ Word(r.kernel_port, node, c, "kernel_port", "kernel_port")
      BY <1>6, <1>10, <1>11, Zenon
    <3> QED
      BY <2>1, <3>1, Zenon
  <2>3. Said(r.prog_index, Says(node, "prog_index"), 0)
    <3>1. /\ "prog_index" \in U8Fields \cup U16Fields \cup U32Fields
          /\ RouteDefaults(<<>>, c)["prog_index"] = 0
          /\ Word(r.prog_index, node, c, "prog_index", "prog_index")
      BY <1>6, <1>10, <1>11, Zenon
    <3> QED
      BY <2>1, <3>1, Zenon
  <2>4. Said(r.pow_difficulty, Says(node, "pow_difficulty"), 0)
    <3>1. /\ "pow_difficulty" \in U8Fields \cup U16Fields \cup U32Fields
          /\ RouteDefaults(<<>>, c)["pow_difficulty"] = 0
          /\ Word(r.pow_difficulty, node, c, "pow_difficulty", "pow_difficulty")
      BY <1>5, <1>10, <1>11, Zenon
    <3> QED
      BY <2>1, <3>1, Zenon
  <2>5. Said(r.bloom_size, Says(node, "bloom_size"), 1024)
    <3>1. /\ "bloom_size" \in U8Fields \cup U16Fields \cup U32Fields
          /\ RouteDefaults(<<>>, c)["bloom_size"] = 1024
          /\ Word(r.bloom_size, node, c, "bloom_size", "bloom_size")
      BY <1>6, <1>10, <1>11, ZenonT(30)
    <3> QED
      BY <2>1, <3>1
  <2>6. Said(r.bloom_hash_functions, Says(node, "bloom_hash_functions"), 3)
    <3>1. /\ "bloom_hash_functions" \in U8Fields \cup U16Fields \cup U32Fields
          /\ RouteDefaults(<<>>, c)["bloom_hash_functions"] = 3
          /\ Word(r.bloom_hash_functions, node, c, "bloom_hash_functions", "bloom_hash_functions")
      BY <1>6, <1>10, <1>11, Zenon
    <3> QED
      BY <2>1, <3>1, Zenon
  <2> QED
    BY <2>2, <2>3, <2>4, <2>5, <2>6, Zenon
<1>14. /\ r.pow_enabled <=> Otherwise(Says(node, "pow_enabled"), "yes") \in Truthy
       /\ r.bloom_enabled <=> Otherwise(Says(node, "bloom_enabled"), "no") \in Truthy
  <2>1. "pow_enabled" \in BoolFields /\ "bloom_enabled" \in BoolFields
    BY <1>10
  <2>2. r.pow_enabled <=> Otherwise(Says(node, "pow_enabled"), "yes") \in Truthy
    BY <1>6, <1>12, <2>1, SwitchWord
  <2>3. r.bloom_enabled <=> Otherwise(Says(node, "bloom_enabled"), "no") \in Truthy
    BY <1>6, <1>12, <2>1, SwitchWord
  <2> QED
    BY <2>2, <2>3
<1>15. \A f \in BoundFields : Word(r[f], node, c, f, f)
  BY <1>5, Zenon DEF BoundFields
<1>16. \A f \in BoundFields : IF f \in g THEN Says(node, f) = {r[f]} ELSE Says(node, f) = {}
  <2> SUFFICES ASSUME NEW f \in BoundFields
               PROVE  IF f \in g THEN Says(node, f) = {r[f]} ELSE Says(node, f) = {}
    OBVIOUS
  <2>1. /\ Said(r[f], Says(node, f), RouteDefaults(<<>>, c)[f])
        /\ Silent(node, f, 33) <=> Says(node, f) = {}
    BY <1>10, <1>15, NumberWord
  <2> QED
    BY <1>4, <2>1 DEF Said
<1> QED
  BY <1>7, <1>8, <1>9, <1>13, <1>14, <1>16, Zenon DEF AsSaid

(* The pairs of bounds that zereh_parse_route completes. *)
LabelPair(r, g) == Pair("min_labels", "max_labels", <<1, MaxLabels>>, r, g)
LengthPair(r, g) == Pair("qname_min_len", "qname_max_len", <<1, MaxQname>>, r, g)

(* What the end of zereh_parse_route leaves in a field. *)
LEMMA SettledFields ==
  ASSUME NEW r \in RouteType, NEW g
  PROVE  LET s == Settled(r, g)
         IN  /\ s.min_labels = LabelPair(r, g)[1] /\ s.max_labels = LabelPair(r, g)[2]
             /\ s.qname_min_len = LengthPair(r, g)[1] /\ s.qname_max_len = LengthPair(r, g)[2]
             /\ s.kernel_port = r.kernel_port /\ s.prog_index = r.prog_index
             /\ s.rrtype_mask = r.rrtype_mask
             /\ s.pow_difficulty = IF r.pow_enabled THEN r.pow_difficulty ELSE 0
             /\ s.bloom_enabled = r.bloom_enabled
             /\ r.bloom_enabled =>
                  /\ s.bloom_size = IF r.bloom_size = 0 THEN 1024 ELSE r.bloom_size
                  /\ s.bloom_hash_functions =
                       IF r.bloom_hash_functions = 0 THEN 3 ELSE r.bloom_hash_functions
<1> DEFINE p == Paired(r, g)
           q == PowSettled(p)
           s == BloomSettled(q)
           Ends == {"kernel_port", "prog_index", "rrtype_mask"}
           Pow == {"pow_enabled", "pow_difficulty", "pow_time_window"}
           Bloom == {"bloom_enabled", "bloom_size", "bloom_hash_functions", "bloom_time_window",
                     "bloom_seeds"}
<1>1. DOMAIN r = RouteFields /\ BoundFields \cup Ends \cup Pow \cup Bloom \subseteq RouteFields
  <2>1. DOMAIN r = RouteFields
    BY RouteFieldwise
  <2> QED
    BY <2>1 DEF BoundFields, RouteFields, KeyFields, NumberFields, OtherFields, U8Fields, U16Fields,
                U32Fields
<1>2. /\ DOMAIN p = RouteFields /\ \A f \in Ends \cup Pow \cup Bloom : p[f] = r[f]
      /\ p.min_labels = LabelPair(r, g)[1] /\ p.max_labels = LabelPair(r, g)[2]
      /\ p.qname_min_len = LengthPair(r, g)[1] /\ p.qname_max_len = LengthPair(r, g)[2]
  <2> DEFINE a == LabelPair(r, g)[1]
             b == LabelPair(r, g)[2]
             c == LengthPair(r, g)[1]
             d == LengthPair(r, g)[2]
  <2>1. p = [r EXCEPT !.min_labels = a, !.max_labels = b, !.qname_min_len = c, !.qname_max_len = d]
    BY DEF Paired, LabelPair, LengthPair
  <2> HIDE DEF p, a, b, c, d
  <2>2. DOMAIN p = RouteFields /\ \A f \in Ends \cup Pow \cup Bloom : p[f] = r[f]
    BY <1>1, <2>1
  <2>3. p.min_labels = a /\ p.max_labels = b /\ p.qname_min_len = c /\ p.qname_max_len = d
    BY <1>1, <2>1 DEF BoundFields
  <2> QED
    BY <2>2, <2>3 DEF a, b, c, d
<1> HIDE DEF p
<1>3. /\ DOMAIN q = RouteFields /\ \A f \in BoundFields \cup Ends \cup Bloom : q[f] = p[f]
      /\ q.pow_difficulty = IF r.pow_enabled THEN r.pow_difficulty ELSE 0
  <2>1. p.pow_enabled = r.pow_enabled /\ p.pow_difficulty = r.pow_difficulty
    BY <1>2
  <2>2. DOMAIN q = RouteFields /\ \A f \in BoundFields \cup Ends \cup Bloom : q[f] = p[f]
    BY <1>1, <1>2 DEF PowSettled, BoundFields
  <2>3. q.pow_difficulty = IF r.pow_enabled THEN r.pow_difficulty ELSE 0
    BY <1>1, <1>2, <2>1 DEF PowSettled
  <2> QED
    BY <2>2, <2>3
<1> HIDE DEF q
<1>4. /\ \A f \in BoundFields \cup Ends \cup {"pow_difficulty", "bloom_enabled"} : s[f] = q[f]
      /\ q.bloom_enabled => /\ s.bloom_size = IF q.bloom_size = 0 THEN 1024 ELSE q.bloom_size
                            /\ s.bloom_hash_functions =
                                 IF q.bloom_hash_functions = 0 THEN 3 ELSE q.bloom_hash_functions
  <2>1. CASE q.bloom_enabled
    BY <1>1, <1>3, <2>1, Zenon DEF BloomSettled, BoundFields
  <2>2. CASE ~q.bloom_enabled
    BY <1>1, <1>3, <2>2 DEF BloomSettled, BoundFields
  <2> QED
    BY <2>1, <2>2
<1>5. s = Settled(r, g)
  BY DEF Settled, p, q
<1> HIDE DEF s
<1>6. /\ q.bloom_enabled = r.bloom_enabled /\ q.bloom_size = r.bloom_size
      /\ q.bloom_hash_functions = r.bloom_hash_functions
  BY <1>2, <1>3
<1>7. /\ s.min_labels = LabelPair(r, g)[1] /\ s.max_labels = LabelPair(r, g)[2]
      /\ s.qname_min_len = LengthPair(r, g)[1] /\ s.qname_max_len = LengthPair(r, g)[2]
  BY <1>2, <1>3, <1>4 DEF BoundFields
<1>8. /\ s.kernel_port = r.kernel_port /\ s.prog_index = r.prog_index
      /\ s.rrtype_mask = r.rrtype_mask /\ s.bloom_enabled = r.bloom_enabled
  BY <1>2, <1>3, <1>4
<1> QED
  BY <1>3, <1>4, <1>5, <1>6, <1>7, <1>8

(* The ends of a pair. *)
LEMMA PairEnds ==
  ASSUME NEW a \in Nat, NEW b \in Nat, a <= b
  PROVE  Min({a, b}) = a /\ Max({a, b}) = b
<1>1. \E x \in {a, b} : \A y \in {a, b} : x <= y
  OBVIOUS
<1>2. \E x \in {a, b} : \A y \in {a, b} : x >= y
  OBVIOUS
<1>3. Min({a, b}) \in {a, b} /\ \A y \in {a, b} : Min({a, b}) <= y
  BY <1>1 DEF Min
<1>4. Max({a, b}) \in {a, b} /\ \A y \in {a, b} : Max({a, b}) >= y
  BY <1>2 DEF Max
<1> QED
  BY <1>3, <1>4

(* A field that was read if the document says so. *)
BoundSaid(node, r, g, f) == IF f \in g THEN Says(node, f) = {r[f]} ELSE Says(node, f) = {}

(* A pair in range means what the document says, another is its fault. *)
PairOf(q, node, lo, hi, max) ==
  IF 1 <= q[1] /\ q[1] <= q[2] /\ q[2] <= max
  THEN q[1] = Min(Bounds(node, lo, hi, {1, max})) /\ q[2] = Max(Bounds(node, lo, hi, {1, max}))
  ELSE BadBounds(node, lo, hi, max)

(* A completed pair of bounds is what the document says, or is refused     *)
(* because the document says what cannot be.                               *)
LEMMA PairAsSaid ==
  ASSUME NEW r, NEW g, NEW node, NEW lo, NEW hi, NEW max \in Nat \ {0},
         r[lo] \in Nat, r[hi] \in Nat,
         BoundSaid(node, r, g, lo), BoundSaid(node, r, g, hi)
  PROVE  PairOf(Pair(lo, hi, <<1, max>>, r, g), node, lo, hi, max)
<1> DEFINE q == Pair(lo, hi, <<1, max>>, r, g)
           bounds == Bounds(node, lo, hi, {1, max})
           a == r[lo]
           b == r[hi]
<1>1. CASE lo \notin g /\ hi \notin g
  <2>1. q[1] = 1 /\ q[2] = max
    BY <1>1 DEF Pair
  <2>2. bounds = {1, max}
    BY <1>1 DEF Bounds, BoundSaid
  <2> HIDE DEF q, bounds
  <2>3. Min({1, max}) = 1 /\ Max({1, max}) = max
    BY PairEnds
  <2> QED
    BY <2>1, <2>2, <2>3 DEF PairOf, q, bounds
<1>2. CASE lo \in g /\ hi \notin g
  <2>1. q[1] = a /\ q[2] = a
    BY <1>2 DEF Pair
  <2>2. Says(node, lo) = {a} /\ Says(node, hi) = {}
    BY <1>2 DEF BoundSaid
  <2>3. bounds = {a, a}
    BY <2>2 DEF Bounds
  <2>4. ASSUME ~(1 <= a /\ a <= max) PROVE BadBounds(node, lo, hi, max)
    BY <2>2, <2>4 DEF BadBounds
  <2> HIDE DEF q, bounds
  <2>5. Min({a, a}) = a /\ Max({a, a}) = a
    BY PairEnds
  <2> QED
    BY <2>1, <2>3, <2>4, <2>5 DEF PairOf, q, bounds
<1>3. CASE lo \notin g /\ hi \in g
  <2>1. q[1] = b /\ q[2] = b
    BY <1>3 DEF Pair
  <2>2. Says(node, lo) = {} /\ Says(node, hi) = {b}
    BY <1>3 DEF BoundSaid
  <2>3. bounds = {b, b}
    BY <2>2 DEF Bounds
  <2>4. ASSUME ~(1 <= b /\ b <= max) PROVE BadBounds(node, lo, hi, max)
    BY <2>2, <2>4 DEF BadBounds
  <2> HIDE DEF q, bounds
  <2>5. Min({b, b}) = b /\ Max({b, b}) = b
    BY PairEnds
  <2> QED
    BY <2>1, <2>3, <2>4, <2>5 DEF PairOf, q, bounds
<1>4. CASE lo \in g /\ hi \in g
  <2>1. q[1] = a /\ q[2] = b
    BY <1>4 DEF Pair
  <2>2. Says(node, lo) = {a} /\ Says(node, hi) = {b}
    BY <1>4 DEF BoundSaid
  <2>3. bounds = {a, b}
    BY <2>2 DEF Bounds
  <2>4. ASSUME ~(1 <= a /\ a <= b /\ b <= max) PROVE BadBounds(node, lo, hi, max)
    BY <2>2, <2>4 DEF BadBounds
  <2> HIDE DEF q, bounds
  <2>5. a <= b => Min({a, b}) = a /\ Max({a, b}) = b
    BY PairEnds
  <2> QED
    BY <2>1, <2>3, <2>4, <2>5 DEF PairOf, q, bounds
<1> QED
  BY <1>1, <1>2, <1>3, <1>4

(* The route that is appended means what its mapping says. *)
Written(r, node, port) ==
  LET labels == Bounds(node, "min_labels", "max_labels", {1, MaxLabels})
      length == Bounds(node, "qname_min_len", "qname_max_len", {1, MaxQname})
      pow == Otherwise(Says(node, "pow_enabled"), "yes") \in Truthy
  IN  /\ r.min_labels = Min(labels) /\ r.max_labels = Max(labels)
      /\ r.qname_min_len = Min(length) /\ r.qname_max_len = Max(length)
      /\ r.kernel_port = Otherwise(Says(node, "kernel_port"), port)
      /\ r.prog_index = Otherwise(Says(node, "prog_index"), 0)
      /\ r.pow_difficulty = IF pow THEN Otherwise(Says(node, "pow_difficulty"), 0) ELSE 0
      /\ r.rrtype_mask = Otherwise(Says(node, "types"), {"A", "AAAA", "TXT"})
                           \ Otherwise(Says(node, "deny"), {})

(* Both pairs of a route. *)
LEMMA PairsAsSaid ==
  ASSUME NEW node, NEW c, NEW r \in RouteType, NEW g, AsSaid(node, c, r, g)
  PROVE  /\ PairOf(LabelPair(r, g), node, "min_labels", "max_labels", MaxLabels)
         /\ PairOf(LengthPair(r, g), node, "qname_min_len", "qname_max_len", MaxQname)
<1>1. /\ r["min_labels"] \in Nat /\ r["max_labels"] \in Nat
      /\ r["qname_min_len"] \in Nat /\ r["qname_max_len"] \in Nat
  <2>1. /\ r.min_labels \in 0 .. MaxU8 /\ r.max_labels \in 0 .. MaxU8
        /\ r.qname_min_len \in 0 .. MaxU16 /\ r.qname_max_len \in 0 .. MaxU16
    BY DEF RouteType
  <2> QED
    BY <2>1
<1>2. \A f \in BoundFields : BoundSaid(node, r, g, f)
  BY DEF AsSaid, BoundSaid
<1>3. MaxLabels \in Nat \ {0} /\ MaxQname \in Nat \ {0}
  BY DEF MaxLabels, MaxQname
<1>4. /\ BoundSaid(node, r, g, "min_labels") /\ BoundSaid(node, r, g, "max_labels")
      /\ BoundSaid(node, r, g, "qname_min_len") /\ BoundSaid(node, r, g, "qname_max_len")
  BY <1>2, Zenon DEF BoundFields
<1>5. PairOf(LabelPair(r, g), node, "min_labels", "max_labels", MaxLabels)
  BY <1>1, <1>3, <1>4, PairAsSaid DEF LabelPair
<1>6. PairOf(LengthPair(r, g), node, "qname_min_len", "qname_max_len", MaxQname)
  BY <1>1, <1>3, <1>4, PairAsSaid DEF LengthPair
<1> QED
  BY <1>5, <1>6

(* A number, as the document says it. *)
LEMMA SaidIsOtherwise ==
  ASSUME NEW v, NEW said, NEW d, Said(v, said, d)
  PROVE  v = Otherwise(said, d)
<1>1. CASE said = {} /\ v = d
  BY <1>1 DEF Otherwise
<1>2. CASE said = {v}
  BY <1>2, OtherwiseOne, Zenon
<1> QED
  BY <1>1, <1>2 DEF Said

(* A route that passes the checks means what the document says. *)
LEMMA SettledIsWritten ==
  ASSUME NEW node, NEW c, NEW r \in RouteType, NEW g, AsSaid(node, c, r, g),
         InRange(Settled(r, g))
  PROVE  Written(Settled(r, g), node, c.default_kernel_port)
<1> DEFINE s == Settled(r, g)
           p == LabelPair(r, g)
           t == LengthPair(r, g)
<1>1. /\ s.min_labels = p[1] /\ s.max_labels = p[2]
      /\ s.qname_min_len = t[1] /\ s.qname_max_len = t[2]
      /\ s.kernel_port = r.kernel_port /\ s.prog_index = r.prog_index
      /\ s.rrtype_mask = r.rrtype_mask
      /\ s.pow_difficulty = IF r.pow_enabled THEN r.pow_difficulty ELSE 0
  BY SettledFields, Zenon
<1>2. PairOf(p, node, "min_labels", "max_labels", MaxLabels)
  BY PairsAsSaid
<1>3. PairOf(t, node, "qname_min_len", "qname_max_len", MaxQname)
  BY PairsAsSaid
<1> HIDE DEF s, p, t
<1>4. InRange(s)
  BY DEF s
<1>5. /\ s.min_labels = Min(Bounds(node, "min_labels", "max_labels", {1, MaxLabels}))
      /\ s.max_labels = Max(Bounds(node, "min_labels", "max_labels", {1, MaxLabels}))
  BY <1>1, <1>2, <1>4, Zenon DEF InRange, PairOf
<1>6. /\ s.qname_min_len = Min(Bounds(node, "qname_min_len", "qname_max_len", {1, MaxQname}))
      /\ s.qname_max_len = Max(Bounds(node, "qname_min_len", "qname_max_len", {1, MaxQname}))
  BY <1>1, <1>3, <1>4, Zenon DEF InRange, PairOf
<1>7. /\ s.kernel_port = Otherwise(Says(node, "kernel_port"), c.default_kernel_port)
      /\ s.prog_index = Otherwise(Says(node, "prog_index"), 0)
      /\ r.pow_difficulty = Otherwise(Says(node, "pow_difficulty"), 0)
  <2>1. /\ Said(r.kernel_port, Says(node, "kernel_port"), c.default_kernel_port)
        /\ Said(r.prog_index, Says(node, "prog_index"), 0)
        /\ Said(r.pow_difficulty, Says(node, "pow_difficulty"), 0)
    BY DEF AsSaid
  <2>2. r.kernel_port = Otherwise(Says(node, "kernel_port"), c.default_kernel_port)
    BY <2>1, SaidIsOtherwise
  <2>3. r.prog_index = Otherwise(Says(node, "prog_index"), 0)
    BY <2>1, SaidIsOtherwise
  <2>4. r.pow_difficulty = Otherwise(Says(node, "pow_difficulty"), 0)
    BY <2>1, SaidIsOtherwise
  <2> QED
    BY <1>1, <2>2, <2>3, <2>4
<1>8. /\ r.pow_enabled <=> Otherwise(Says(node, "pow_enabled"), "yes") \in Truthy
      /\ s.rrtype_mask = Otherwise(Says(node, "types"), {"A", "AAAA", "TXT"})
                           \ Otherwise(Says(node, "deny"), {})
  BY <1>1, ZenonT(30) DEF AsSaid
<1>9. s.pow_difficulty = IF Otherwise(Says(node, "pow_enabled"), "yes") \in Truthy
                         THEN Otherwise(Says(node, "pow_difficulty"), 0) ELSE 0
  BY <1>1, <1>7, <1>8
<1>10. Written(s, node, c.default_kernel_port)
  BY <1>5, <1>6, <1>7, <1>8, <1>9, Zenon DEF Written
<1> QED
  BY <1>10 DEF s

(* A route that does not pass them says what it must not. *)
LEMMA RefusedIsFaulty ==
  ASSUME NEW node, NEW c, NEW r \in RouteType, NEW g, AsSaid(node, c, r, g),
         ~InRange(Settled(r, g))
  PROVE  Faulty(node)
<1> DEFINE s == Settled(r, g)
           p == LabelPair(r, g)
           t == LengthPair(r, g)
<1>1. /\ s.min_labels = p[1] /\ s.max_labels = p[2]
      /\ s.qname_min_len = t[1] /\ s.qname_max_len = t[2]
      /\ s.pow_difficulty = IF r.pow_enabled THEN r.pow_difficulty ELSE 0
      /\ s.bloom_enabled = r.bloom_enabled
      /\ r.bloom_enabled =>
           /\ s.bloom_size = IF r.bloom_size = 0 THEN 1024 ELSE r.bloom_size
           /\ s.bloom_hash_functions =
                IF r.bloom_hash_functions = 0 THEN 3 ELSE r.bloom_hash_functions
  BY SettledFields, Zenon
<1>2. PairOf(p, node, "min_labels", "max_labels", MaxLabels)
  BY PairsAsSaid
<1>3. PairOf(t, node, "qname_min_len", "qname_max_len", MaxQname)
  BY PairsAsSaid
<1> HIDE DEF s, p, t
<1>4. ~InRange(s)
  BY DEF s
<1>5. CASE ~(1 <= s.min_labels /\ s.min_labels <= s.max_labels /\ s.max_labels <= MaxLabels)
  <2>1. BadBounds(node, "min_labels", "max_labels", MaxLabels)
    BY <1>1, <1>2, <1>5, Zenon DEF PairOf
  <2> QED
    BY <2>1, Zenon DEF Faulty
<1>6. CASE ~(/\ 1 <= s.qname_min_len /\ s.qname_min_len <= s.qname_max_len
             /\ s.qname_max_len <= MaxQname)
  <2>1. BadBounds(node, "qname_min_len", "qname_max_len", MaxQname)
    BY <1>1, <1>3, <1>6, Zenon DEF PairOf
  <2> QED
    BY <2>1, Zenon DEF Faulty
<1>7. CASE ~(s.pow_difficulty <= MaxPow)
  <2>1. r.pow_enabled /\ r.pow_difficulty > MaxPow
    <3>1. r.pow_difficulty \in 0 .. MaxU8
      BY DEF RouteType
    <3> QED
      BY <1>1, <1>7, <3>1 DEF MaxPow
  <2>2. Said(r.pow_difficulty, Says(node, "pow_difficulty"), 0)
    BY DEF AsSaid
  <2>3. r.pow_difficulty \in Says(node, "pow_difficulty")
    BY <2>1, <2>2 DEF Said, MaxPow
  <2>4. Otherwise(Says(node, "pow_enabled"), "yes") \in Truthy
    BY <2>1, Zenon DEF AsSaid
  <2> QED
    BY <2>1, <2>3, <2>4, Zenon DEF Faulty
<1>8. CASE ~(s.bloom_enabled =>
               s.bloom_size \in MinBloom .. MaxBloom /\ s.bloom_hash_functions <= 8)
  <2>1. r.bloom_enabled
    BY <1>1, <1>8
  <2>2. Otherwise(Says(node, "bloom_enabled"), "no") \in Truthy
    BY <2>1, Zenon DEF AsSaid
  <2>3. CASE s.bloom_size \notin MinBloom .. MaxBloom
    <3>0. 1024 \in MinBloom .. MaxBloom
      BY DEF MinBloom, MaxBloom
    <3>1. r.bloom_size \notin {0} \cup MinBloom .. MaxBloom /\ r.bloom_size # 1024
      <4>1. r.bloom_size = 0 => s.bloom_size = 1024
        BY <1>1, <2>1
      <4>2. r.bloom_size # 0 => s.bloom_size = r.bloom_size
        BY <1>1, <2>1
      <4> DEFINE R == MinBloom .. MaxBloom
      <4> HIDE DEF R
      <4>3. 1024 \in R /\ s.bloom_size \notin R
        BY <2>3, <3>0 DEF R
      <4>4. r.bloom_size # 0 /\ r.bloom_size \notin R /\ r.bloom_size # 1024
        BY <4>1, <4>2, <4>3
      <4> QED
        BY <4>4 DEF R
    <3>2. Said(r.bloom_size, Says(node, "bloom_size"), 1024)
      BY DEF AsSaid
    <3>3. r.bloom_size \in Says(node, "bloom_size")
      BY <3>1, <3>2 DEF Said
    <3> QED
      BY <2>2, <3>1, <3>3, ZenonT(40) DEF Faulty
  <2>4. CASE ~(s.bloom_hash_functions <= 8)
    <3>1. r.bloom_hash_functions \in 0 .. MaxU8
      BY DEF RouteType
    <3>2. r.bloom_hash_functions > 8
      BY <1>1, <2>1, <2>4, <3>1
    <3>3. Said(r.bloom_hash_functions, Says(node, "bloom_hash_functions"), 3)
      BY DEF AsSaid
    <3>4. r.bloom_hash_functions \in Says(node, "bloom_hash_functions")
      BY <3>2, <3>3 DEF Said
    <3> QED
      BY <2>2, <3>2, <3>4, Zenon DEF Faulty
  <2> QED
    BY <1>8, <2>3, <2>4
<1> QED
  BY <1>4, <1>5, <1>6, <1>7, <1>8, Zenon DEF InRange

-----------------------------------------------------------------------------
(***************************************************************************)
(* What is accepted, and why something is refused.                         *)
(***************************************************************************)

WrittenInv ==
  \A x \in DOMAIN cfg.routes : Written(cfg.routes[x], doc.routes[x], cfg.default_kernel_port)

(* The end of a route. *)
LEMMA FinishRouteWrites ==
  ASSUME TypeInv, ReadInv, WrittenInv, FinishRoute
  PROVE  WrittenInv'
<1> DEFINE s == Settled(route, given)
<1>1. CASE ~InRange(s)
  BY <1>1 DEF FinishRoute, Fail, WrittenInv
<1>2. CASE InRange(s)
  <2>1. /\ pc = "route" /\ j > Len(RouteKeys) /\ UNCHANGED doc
        /\ cfg' = [cfg EXCEPT !.routes = Append(@, s)]
    BY <1>2 DEF FinishRoute
  <2>2. j = 33
    <3>1. j \in 1 .. Len(RouteKeys) + 1
      BY DEF TypeInv, TypeOK
    <3>2. j > Len(RouteKeys)
      BY <2>1
    <3> HIDE DEF s
    <3> QED
      BY <3>1, <3>2, TableLengths
  <2>3. AsSaid(doc.routes[n], cfg, route, given)
    BY <2>1, <2>2, ReadAsSaid DEF ReadInv
  <2>4. Written(s, doc.routes[n], cfg.default_kernel_port)
    BY <1>2, <2>3, SettledIsWritten DEF TypeInv, TypeOK
  <2> HIDE DEF s
  <2>5. DOMAIN cfg = ConfigFields /\ {"routes", "default_kernel_port"} \subseteq ConfigFields
    BY ConfigHas DEF TypeInv, ConfigInv, RoutesOK
  <2>6. /\ cfg'.routes = Append(cfg.routes, s)
        /\ cfg'.default_kernel_port = cfg.default_kernel_port
    BY <2>1, <2>5
  <2>7. cfg.routes \in Seq(RouteType) /\ Len(cfg.routes) = n - 1 /\ n \in Nat \ {0}
    BY <2>1 DEF TypeInv, TypeOK, CountInv
  <2>8. /\ DOMAIN cfg'.routes = 1 .. n /\ cfg'.routes[n] = s
        /\ \A x \in 1 .. n : x # n => x \in DOMAIN cfg.routes /\ cfg'.routes[x] = cfg.routes[x]
    <3>1. DOMAIN cfg.routes = 1 .. n - 1
      BY <2>7
    <3>2. /\ DOMAIN Append(cfg.routes, s) = 1 .. Len(cfg.routes) + 1
          /\ Append(cfg.routes, s)[Len(cfg.routes) + 1] = s
          /\ \A x \in 1 .. Len(cfg.routes) : Append(cfg.routes, s)[x] = cfg.routes[x]
      BY <2>7
    <3>3. Len(cfg.routes) + 1 = n
      BY <2>7
    <3> QED
      BY <2>6, <2>7, <3>1, <3>2, <3>3
  <2> QED
    BY <2>1, <2>4, <2>6, <2>8, Zenon DEF WrittenInv
<1> QED
  BY <1>1, <1>2

(* Every step keeps what was written. *)
LEMMA WrittenStep == TypeInv /\ ReadInv /\ WrittenInv /\ [Next]_vars => WrittenInv'
<1> SUFFICES ASSUME TypeInv, ReadInv, WrittenInv, [Next]_vars PROVE WrittenInv'
  OBVIOUS
<1>1. CASE ReadConfigKey
  <2>1. CASE Fail
    BY <2>1 DEF Fail, WrittenInv
  <2>2. CASE ~Fail
    <3>1. /\ pc = "config" /\ k <= Len(ConfigKeys) /\ ConfigKeys[k].field # "routes"
          /\ cfg' = Stored(cfg, doc.root, ConfigKeys[k])
      BY <1>1, <2>2 DEF ReadConfigKey
    <3>2. cfg.routes = <<>> /\ DOMAIN cfg = ConfigFields /\ "routes" \in ConfigFields
      <4>1. cfg.routes = <<>> /\ DOMAIN cfg = ConfigFields
        BY <3>1, Zenon DEF TypeInv, ConfigInv, RoutesOK
      <4>2. "routes" \in ConfigFields
        BY ConfigHas
      <4> QED
        BY <4>1, <4>2
    <3>3. cfg'.routes = <<>>
      BY <3>1, <3>2 DEF Stored
    <3> QED
      BY <3>3 DEF WrittenInv
  <2> QED
    BY <2>1, <2>2
<1>2. CASE StartRoutes
  <2>1. cfg' = [cfg EXCEPT !.routes = <<>>]
    BY <1>2 DEF StartRoutes
  <2>2. DOMAIN cfg = ConfigFields /\ "routes" \in ConfigFields
    BY ConfigHas DEF TypeInv, ConfigInv, RoutesOK
  <2>3. cfg'.routes = <<>>
    BY <2>1, <2>2
  <2> QED
    BY <2>3 DEF WrittenInv
<1>3. CASE \/ StartRoute \/ ReadRouteKey \/ DenyTypes \/ FinishRoutes \/ FinishConfig
           \/ SeedTail \/ FinishSeed \/ UNCHANGED vars
  <2>1. UNCHANGED <<doc, cfg>>
    BY <1>3 DEF StartRoute, ReadRouteKey, DenyTypes, FinishRoutes, FinishConfig, SeedTail,
                FinishSeed, Fail, vars
  <2> QED
    BY <2>1 DEF WrittenInv
<1> QED
  BY <1>1, <1>2, <1>3, FinishRouteWrites DEF Next

(* The rows after the denied types say nothing about the allowed ones. *)
LEMMA MaskIsRead ==
  ASSUME NEW v, NEW node, NEW c, Holds(v, node, c, "rrtype_mask", DenyRow)
  PROVE  Holds(v, node, c, "rrtype_mask", 33)
<1>1. /\ \A b \in 1 .. 33 - 1 : RouteKeys[b].field = "rrtype_mask" => b \in 1 .. DenyRow - 1
      /\ \A a \in 1 .. DenyRow - 1 : a \in 1 .. 33 - 1
  BY TypeRows DEF DenyRow
<1>2. Silent(node, "rrtype_mask", DenyRow) => Silent(node, "rrtype_mask", 33)
  BY <1>1, Zenon DEF Silent
<1>3. ASSUME NEW a \in 1 .. DenyRow - 1, Decides(node, "rrtype_mask", a, DenyRow)
      PROVE  Decides(node, "rrtype_mask", a, 33)
  <2>1. \A b \in a + 1 .. 33 - 1 :
          RouteKeys[b].field = "rrtype_mask" => b \in a + 1 .. DenyRow - 1
    BY <1>1 DEF DenyRow
  <2> QED
    BY <1>3, <2>1, Zenon DEF Decides
<1> QED
  BY <1>1, <1>2, <1>3, Zenon DEF Holds

(* Types that are all denied are the document's fault. *)
LEMMA DenyAllIsFaulty ==
  ASSUME NEW node, NEW c, NEW r, NEW g, ReadSoFar(node, c, r, g, DenyRow),
         LET row == RouteKeys[DenyRow]
         IN  r.rrtype_mask \ (IF Present(node, row) = {} THEN {} ELSE Found(node, row)) = {}
  PROVE  Faulty(node)
<1>1. CASE ~AllLegal(node)
  <2>1. PICK a \in 1 .. 32 : Refused(node, RouteKeys[a])
    BY <1>1 DEF AllLegal
  <2>2. a \in DOMAIN RouteKeys
    BY TableLengths DEF RouteKeys, FlatKeys, FilterKeys
  <2> QED
    BY <2>1, <2>2, Zenon DEF Faulty
<1>2. CASE AllLegal(node)
  <2>1. PICK mask : /\ Holds(mask, node, c, "rrtype_mask", DenyRow)
                    /\ r.rrtype_mask = mask \ Denied(node, DenyRow)
    BY DEF ReadSoFar
  <2>2. Denied(node, DenyRow) = {}
    BY DEF Denied, DenyRow
  <2>3. Word(mask, node, c, "types", "rrtype_mask")
    BY <1>2, <2>1, MaskIsRead, WordRows, TwoRows, Zenon
  <2>4. mask = Otherwise(Says(node, "types"), {"A", "AAAA", "TXT"})
    BY <2>3, TypesWord
  <2>5. Strength["deny"] = RouteKeys[DenyRow].keys
    BY WordRows DEF RowAbout, DenyRow
  <2>6. Says(node, "deny") = IF Present(node, RouteKeys[DenyRow]) = {} THEN {}
                             ELSE {Found(node, RouteKeys[DenyRow])}
    BY <2>5, Zenon DEF Says, Present, Found
  <2>7. Otherwise(Says(node, "deny"), {}) =
          IF Present(node, RouteKeys[DenyRow]) = {} THEN {} ELSE Found(node, RouteKeys[DenyRow])
    BY <2>6, OtherwiseOne, Zenon
  <2>8. mask \subseteq Otherwise(Says(node, "deny"), {})
    BY <2>1, <2>2, <2>7
  <2> QED
    BY <2>4, <2>8, Zenon DEF Faulty
<1> QED
  BY <1>1, <1>2

(* A failure has a cause. *)
LEMMA FailureHasCause ==
  ASSUME TypeInv, ReadInv, Next, pc' = "refused"
  PROVE  RefusedForCause'
<1>1. doc' = doc /\ doc \in Documents
  BY DEF Next, ReadConfigKey, StartRoutes, StartRoute, ReadRouteKey, DenyTypes, FinishRoute,
         FinishRoutes, FinishConfig, SeedTail, FinishSeed, Fail, TypeInv, ConfigInv
<1>2. Len(doc.routes) \in Nat /\ DOMAIN doc.routes = 1 .. Len(doc.routes) /\ MaxRoutes \in Nat
  BY <1>1, DocumentAssumption, ConfigAssumption
<1>3. SUFFICES \/ \E row \in 1 .. Len(ConfigKeys) - 1 : Refused(doc.root, ConfigKeys[row])
               \/ Len(doc.routes) \notin 1 .. MaxRoutes
               \/ \E x \in DOMAIN doc.routes : Faulty(doc.routes[x])
  BY <1>1 DEF RefusedForCause
<1>4. /\ j \in 1 .. Len(RouteKeys) + 1 /\ k \in 1 .. Len(ConfigKeys) + 1 /\ n \in Nat \ {0}
      /\ route \in RouteType
  BY DEF TypeInv, TypeOK
<1>5. pc = "route" => n \in DOMAIN doc.routes
  BY <1>2, <1>4 DEF TypeInv, CountInv
<1>6. CASE ReadConfigKey
  <2>1. k <= Len(ConfigKeys) /\ ConfigKeys[k].field # "routes" /\ Refused(doc.root, ConfigKeys[k])
    BY <1>6 DEF ReadConfigKey, Fail
  <2>2. k \in 1 .. Len(ConfigKeys) - 1
    BY <1>4, <2>1, RoutesComeLast, SMTT(20)
  <2> QED
    BY <2>1, <2>2
<1>7. CASE StartRoute
  <2>1. /\ pc = "routes" /\ n <= Len(doc.routes)
        /\ \/ Len(cfg.routes) >= MaxRoutes
           \/ "domain" \notin DOMAIN doc.routes[n] \/ doc.routes[n]["domain"] = <<>>
    BY <1>7 DEF StartRoute, Fail
  <2>2. n \in DOMAIN doc.routes /\ Len(cfg.routes) = n - 1
    BY <1>2, <1>4, <2>1 DEF TypeInv, CountInv
  <2>3. CASE Len(cfg.routes) >= MaxRoutes
    BY <1>2, <1>4, <2>1, <2>2, <2>3
  <2>4. CASE "domain" \notin DOMAIN doc.routes[n] \/ doc.routes[n]["domain"] = <<>>
    <3>1. Faulty(doc.routes[n])
      BY <2>4, Zenon DEF Faulty
    <3> QED
      BY <2>2, <3>1
  <2> QED
    BY <2>1, <2>3, <2>4
<1>8. ASSUME pc = "route", j <= Len(RouteKeys), Refused(doc.routes[n], RouteKeys[j])
      PROVE  \E x \in DOMAIN doc.routes : Faulty(doc.routes[x])
  <2>1. j \in DOMAIN RouteKeys
    BY <1>4, <1>8, TableLengths DEF RouteKeys, FlatKeys, FilterKeys
  <2>2. Faulty(doc.routes[n])
    BY <1>8, <2>1, Zenon DEF Faulty
  <2> QED
    BY <1>5, <1>8, <2>2
<1>9. CASE ReadRouteKey
  <2>1. pc = "route" /\ j <= Len(RouteKeys) /\ Refused(doc.routes[n], RouteKeys[j])
    BY <1>9 DEF ReadRouteKey, Fail
  <2> QED
    BY <1>8, <2>1
<1>10. CASE DenyTypes
  <2> DEFINE row == RouteKeys[j]
             denied == IF Present(doc.routes[n], row) = {} THEN {} ELSE Found(doc.routes[n], row)
  <2>1. /\ pc = "route" /\ j <= Len(RouteKeys) /\ row.field = "deny"
        /\ Refused(doc.routes[n], row) \/ route.rrtype_mask \ denied = {}
    BY <1>10 DEF DenyTypes, Fail
  <2>2. j = DenyRow
    BY <1>4, <2>1, TypeRows, TableLengths, SMTT(20)
  <2>3. CASE route.rrtype_mask \ denied = {}
    <3>1. ReadSoFar(doc.routes[n], cfg, route, given, DenyRow)
      BY <2>1, <2>2 DEF ReadInv
    <3>2. Faulty(doc.routes[n])
      BY <2>2, <2>3, <3>1, DenyAllIsFaulty, Zenon
    <3> QED
      BY <1>5, <2>1, <3>2
  <2> QED
    BY <1>8, <2>1, <2>3, Zenon
<1>11. CASE FinishRoute
  <2>1. pc = "route" /\ j > Len(RouteKeys) /\ ~InRange(Settled(route, given))
    BY <1>11 DEF FinishRoute, Fail
  <2>2. j = 33
    BY <1>4, <2>1, TableLengths
  <2>3. AsSaid(doc.routes[n], cfg, route, given)
    BY <2>1, <2>2, ReadAsSaid DEF ReadInv
  <2>4. Faulty(doc.routes[n])
    BY <1>4, <2>1, <2>3, RefusedIsFaulty
  <2> QED
    BY <1>5, <2>1, <2>4
<1>12. CASE FinishConfig
  <2>1. pc = "config" /\ k > Len(ConfigKeys) /\ cfg.routes = <<>>
    BY <1>12 DEF FinishConfig, Fail
  <2>2. Len(doc.routes) = 0
    BY <2>1 DEF TypeInv, CountInv
  <2> QED
    BY <1>2, <2>2
<1>13. ~StartRoutes /\ ~FinishRoutes /\ ~SeedTail /\ ~FinishSeed
  BY DEF StartRoutes, FinishRoutes, SeedTail, FinishSeed
<1> QED
  BY <1>6, <1>7, <1>9, <1>10, <1>11, <1>12, <1>13 DEF Next

(* A refused document stays refused, and so does the reason. *)
LEMMA CauseStep == TypeInv /\ ReadInv /\ RefusedForCause /\ [Next]_vars => RefusedForCause'
<1> SUFFICES ASSUME TypeInv, ReadInv, RefusedForCause, [Next]_vars, pc' = "refused"
             PROVE  RefusedForCause'
  BY DEF RefusedForCause
<1>1. CASE UNCHANGED vars
  BY <1>1 DEF vars, RefusedForCause
<1> QED
  BY <1>1, FailureHasCause

-----------------------------------------------------------------------------
(***************************************************************************)
(* The tail call table.                                                    *)
(***************************************************************************)

(* The table entry i after the routes before m: it holds what the last of  *)
(* those with this index asks for, or nothing where there is none.         *)
Entry(i, m) ==
  \/ /\ prog_array[i] = <<>>
     /\ \A y \in TailRoutes : y < m => cfg.routes[y].prog_index # i
  \/ \E x \in TailRoutes :
       /\ x < m /\ cfg.routes[x].prog_index = i
       /\ prog_array[i] = ResolveTail(cfg.routes[x]) /\ prog_array[i] # <<>>
       /\ \A y \in TailRoutes : y < m /\ cfg.routes[y].prog_index = i => y <= x

(* The loader gives up for a reason. *)
NotSeededForCause ==
  pc = "not_seeded" =>
    \E x \in TailRoutes :
      LET r == cfg.routes[x]
      IN  r.prog_index >= ProgArrayMax \/ ResolveTail(r) = <<>>

SeedInv ==
  /\ DOMAIN prog_array = 0 .. ProgArrayMax - 1
  /\ pc \in {"config", "routes", "route"} => \A i \in 0 .. ProgArrayMax - 1 : prog_array[i] = <<>>
  /\ pc = "seeded" => n > Len(cfg.routes)
  /\ pc \in {"seed", "seeded"} =>
       /\ \A x \in TailRoutes : x < n => cfg.routes[x].prog_index < ProgArrayMax
       /\ \A i \in 0 .. ProgArrayMax - 1 : Entry(i, n)
  /\ NotSeededForCause

(* Routes are numbered, and an index is a number. *)
LEMMA TailNumbers ==
  TypeInv => \A x \in TailRoutes : x \in Nat /\ cfg.routes[x].prog_index \in Nat
<1> SUFFICES ASSUME TypeInv, NEW x \in TailRoutes
             PROVE  x \in Nat /\ cfg.routes[x].prog_index \in Nat
  OBVIOUS
<1>1. cfg.routes \in Seq(RouteType) /\ x \in DOMAIN cfg.routes
  BY DEF TypeInv, TypeOK, TailRoutes
<1>2. cfg.routes[x] \in RouteType /\ x \in Nat
  BY <1>1
<1>3. cfg.routes[x].prog_index \in 0 .. MaxU32
  BY <1>2 DEF RouteType
<1> QED
  BY <1>2, <1>3, ConfigAssumption

(* A route that is skipped leaves every entry as it is. *)
LEMMA EntrySkipped ==
  ASSUME TypeInv, n \in Nat, n \notin TailRoutes, NEW i, Entry(i, n)
  PROVE  Entry(i, n + 1)
<1>1. \A y \in TailRoutes : y < n + 1 <=> y < n
  BY TailNumbers
<1> QED
  BY <1>1, Zenon DEF Entry

(* One route of zereh_seed_prog_array. *)
LEMMA SeedTailStep ==
  ASSUME TypeInv, SeedInv, SeedTail
  PROVE  SeedInv'
<1> DEFINE r == cfg.routes[n]
<1>1. pc = "seed" /\ n <= Len(cfg.routes) /\ UNCHANGED cfg
  BY DEF SeedTail
<1>2. cfg.routes \in Seq(RouteType) /\ n \in Nat \ {0} /\ ProgArrayMax \in Nat
  BY ConfigAssumption DEF TypeInv, TypeOK
<1>3. n \in DOMAIN cfg.routes
  BY <1>1, <1>2
<1>4. TailRoutes' = TailRoutes
  BY <1>1 DEF TailRoutes
<1>5. /\ DOMAIN prog_array = 0 .. ProgArrayMax - 1
      /\ \A x \in TailRoutes : x < n => cfg.routes[x].prog_index < ProgArrayMax
      /\ \A i \in 0 .. ProgArrayMax - 1 : Entry(i, n)
  BY <1>1 DEF SeedInv
<1>6. CASE r.target # "xdp_prog"
  <2>1. n' = n + 1 /\ UNCHANGED <<pc, prog_array>>
    BY <1>6 DEF SeedTail
  <2>2. n \notin TailRoutes
    BY <1>6 DEF TailRoutes
  <2>3. \A x \in TailRoutes : x < n + 1 => cfg.routes[x].prog_index < ProgArrayMax
    BY <1>2, <1>5, <2>2, TailNumbers
  <2>4. \A i \in 0 .. ProgArrayMax - 1 : Entry(i, n + 1)
    BY <1>2, <1>5, <2>2, EntrySkipped
  <2>5. ASSUME NEW i \in 0 .. ProgArrayMax - 1 PROVE Entry(i, n)'
    <3>1. Entry(i, n')
      BY <2>1, <2>4
    <3> QED
      BY <1>1, <1>4, <2>1, <3>1, Zenon DEF Entry, ResolveTail
  <2> QED
    BY <1>1, <1>4, <1>5, <2>1, <2>3, <2>5 DEF SeedInv, NotSeededForCause
<1>7. CASE /\ r.target = "xdp_prog" /\ r.prog_index < ProgArrayMax /\ ResolveTail(r) # <<>>
           /\ prog_array' = [prog_array EXCEPT ![r.prog_index] = ResolveTail(r)]
           /\ n' = n + 1 /\ UNCHANGED pc
  <2>1. n \in TailRoutes
    BY <1>3, <1>7 DEF TailRoutes
  <2>2. r.prog_index \in 0 .. ProgArrayMax - 1
    BY <1>2, <1>7, <2>1, TailNumbers
  <2>3. /\ DOMAIN prog_array' = 0 .. ProgArrayMax - 1 /\ prog_array'[r.prog_index] = ResolveTail(r)
        /\ \A i \in 0 .. ProgArrayMax - 1 : i # r.prog_index => prog_array'[i] = prog_array[i]
    BY <1>5, <1>7, <2>2
  <2>4. /\ \A y \in TailRoutes : y < n + 1 <=> y < n \/ y = n
        /\ \A y \in TailRoutes : y < n + 1 => y <= n
    BY <1>2, TailNumbers
  <2>5. n < n + 1
    BY <1>2
  <2>6. \A x \in TailRoutes : x < n + 1 => cfg.routes[x].prog_index < ProgArrayMax
    BY <1>5, <1>7, <2>4
  <2>7. ASSUME NEW i \in 0 .. ProgArrayMax - 1 PROVE Entry(i, n)'
    <3>1. CASE i = r.prog_index
      <4>1. /\ n < n' /\ cfg'.routes[n].prog_index = i
            /\ prog_array'[i] = ResolveTail(cfg.routes[n]) /\ prog_array'[i] # <<>>
            /\ \A y \in TailRoutes : y < n' => y <= n
        BY <1>1, <1>7, <2>3, <2>4, <2>5, <3>1
      <4> QED
        BY <1>1, <1>4, <2>1, <4>1, Zenon DEF Entry, ResolveTail
    <3>2. CASE i # r.prog_index
      <4>1. prog_array'[i] = prog_array[i] /\ Entry(i, n)
        BY <1>5, <2>3, <3>2
      <4>2. \A y \in TailRoutes : cfg.routes[y].prog_index = i => (y < n + 1 <=> y < n)
        BY <2>4, <3>2
      <4> QED
        BY <1>1, <1>4, <1>7, <4>1, <4>2, Zenon DEF Entry, ResolveTail
    <3> QED
      BY <3>1, <3>2
  <2> QED
    BY <1>1, <1>4, <1>7, <2>3, <2>6, <2>7 DEF SeedInv, NotSeededForCause
<1>8. CASE /\ r.target = "xdp_prog" /\ UNCHANGED <<n, prog_array>>
           /\ IF r.prog_index >= ProgArrayMax \/ ResolveTail(r) = <<>>
              THEN pc' = "not_seeded" ELSE pc' = "update_failed"
  <2>1. n \in TailRoutes
    BY <1>3, <1>8 DEF TailRoutes
  <2>2. pc' \in {"not_seeded", "update_failed"}
    BY <1>8
  <2>3. NotSeededForCause'
    BY <1>1, <1>4, <1>8, <2>1, <2>2 DEF NotSeededForCause, ResolveTail
  <2> QED
    BY <1>5, <1>8, <2>2, <2>3 DEF SeedInv
<1> QED
  BY <1>6, <1>7, <1>8 DEF SeedTail

(* Every step keeps the table. *)
LEMMA SeedStep == TypeInv /\ SeedInv /\ [Next]_vars => SeedInv'
<1> SUFFICES ASSUME TypeInv, SeedInv, [Next]_vars PROVE SeedInv'
  OBVIOUS
<1>1. CASE \/ ReadConfigKey \/ StartRoutes \/ StartRoute \/ ReadRouteKey \/ DenyTypes
           \/ FinishRoute \/ FinishRoutes
  <2>1. /\ UNCHANGED prog_array /\ pc \in {"config", "routes", "route"}
        /\ pc' \in {"config", "routes", "route", "refused"}
    BY <1>1 DEF ReadConfigKey, StartRoutes, StartRoute, ReadRouteKey, DenyTypes, FinishRoute,
                FinishRoutes, Fail
  <2> QED
    BY <2>1 DEF SeedInv, NotSeededForCause
<1>2. CASE FinishConfig
  <2>1. CASE Fail
    BY <2>1 DEF Fail, SeedInv, NotSeededForCause
  <2>2. CASE ~Fail
    <3>1. pc = "config" /\ pc' = "seed" /\ n' = 1 /\ UNCHANGED <<cfg, prog_array>>
      BY <1>2, <2>2 DEF FinishConfig
    <3>2. cfg.routes \in Seq(RouteType)
      BY DEF TypeInv, TypeOK
    <3>3. \A x \in TailRoutes' : ~(x < n')
      BY <3>1, <3>2 DEF TailRoutes
    <3>4. \A i \in 0 .. ProgArrayMax - 1 : prog_array'[i] = <<>>
      BY <3>1 DEF SeedInv
    <3>5. \A i \in 0 .. ProgArrayMax - 1 : Entry(i, n)'
      BY <3>3, <3>4, Zenon DEF Entry
    <3> QED
      BY <3>1, <3>3, <3>5 DEF SeedInv, NotSeededForCause
  <2> QED
    BY <2>1, <2>2
<1>3. CASE FinishSeed
  <2>1. pc = "seed" /\ n > Len(cfg.routes) /\ pc' = "seeded" /\ UNCHANGED <<cfg, n, prog_array>>
    BY <1>3 DEF FinishSeed
  <2>2. UNCHANGED TailRoutes /\ \A i : Entry(i, n) <=> Entry(i, n)'
    BY <2>1, Zenon DEF Entry, TailRoutes, ResolveTail
  <2> QED
    BY <2>1, <2>2 DEF SeedInv, NotSeededForCause
<1>4. CASE UNCHANGED vars
  <2>1. UNCHANGED <<pc, cfg, n, prog_array>>
    BY <1>4 DEF vars
  <2>2. UNCHANGED TailRoutes /\ \A i : Entry(i, n) <=> Entry(i, n)'
    BY <2>1, Zenon DEF Entry, TailRoutes, ResolveTail
  <2>3. NotSeededForCause'
    BY <2>1, <2>2 DEF SeedInv, NotSeededForCause, ResolveTail
  <2> QED
    BY <2>1, <2>2, <2>3 DEF SeedInv
<1> QED
  BY <1>1, <1>2, <1>3, <1>4, SeedTailStep DEF Next

(* What is resolved for a route serves it. *)
LEMMA ResolvedServes ==
  ASSUME NEW r, ResolveTail(r) # <<>>
  PROVE  Serves(ResolveTail(r), r)
BY DEF ResolveTail, Serves

(* What the table and a failure mean for the routes. *)
LEMMA SeededTable == TypeInv /\ SeedInv => TailTableAsConfigured
<1> SUFFICES ASSUME TypeInv, SeedInv PROVE TailTableAsConfigured
  OBVIOUS
<1>1. ASSUME pc = "seeded"
      PROVE  /\ \A x \in TailRoutes : cfg.routes[x].prog_index \in DOMAIN prog_array
             /\ \A i \in DOMAIN prog_array :
                  \/ UsersOf(i) = {} /\ prog_array[i] = <<>>
                  \/ \E x \in UsersOf(i) : /\ \A y \in UsersOf(i) : y <= x
                                           /\ Serves(prog_array[i], cfg.routes[x])
  <2>1. cfg.routes \in Seq(RouteType) /\ n \in Nat /\ n > Len(cfg.routes) /\ ProgArrayMax \in Nat
    BY <1>1, ConfigAssumption DEF TypeInv, TypeOK, SeedInv
  <2>2. \A x \in TailRoutes : x < n
    BY <2>1 DEF TailRoutes
  <2>3. DOMAIN prog_array = 0 .. ProgArrayMax - 1
    BY DEF SeedInv
  <2>4. ASSUME NEW x \in TailRoutes PROVE cfg.routes[x].prog_index \in DOMAIN prog_array
    <3>1. cfg.routes[x].prog_index < ProgArrayMax
      BY <1>1, <2>2 DEF SeedInv
    <3> QED
      BY <2>1, <2>3, <3>1, TailNumbers
  <2>5. ASSUME NEW i \in DOMAIN prog_array
        PROVE  \/ UsersOf(i) = {} /\ prog_array[i] = <<>>
               \/ \E x \in UsersOf(i) : /\ \A y \in UsersOf(i) : y <= x
                                        /\ Serves(prog_array[i], cfg.routes[x])
    <3>1. Entry(i, n)
      BY <1>1, <2>3, <2>5 DEF SeedInv
    <3>2. \A x : x \in UsersOf(i) <=> x \in TailRoutes /\ cfg.routes[x].prog_index = i
      BY Zenon DEF UsersOf
    <3>3. CASE prog_array[i] = <<>> /\ \A y \in TailRoutes : y < n => cfg.routes[y].prog_index # i
      BY <2>2, <3>2, <3>3
    <3>4. ASSUME NEW x \in TailRoutes, cfg.routes[x].prog_index = i,
                 prog_array[i] = ResolveTail(cfg.routes[x]), prog_array[i] # <<>>,
                 \A y \in TailRoutes : y < n /\ cfg.routes[y].prog_index = i => y <= x
          PROVE  /\ x \in UsersOf(i) /\ \A y \in UsersOf(i) : y <= x
                 /\ Serves(prog_array[i], cfg.routes[x])
      BY <2>2, <3>2, <3>4, ResolvedServes, Zenon
    <3> QED
      BY <3>1, <3>3, <3>4, Zenon DEF Entry
  <2> QED
    BY <2>4, <2>5
<1>2. ASSUME pc = "not_seeded"
      PROVE  \E x \in TailRoutes :
               LET r == cfg.routes[x]
               IN  \/ r.prog_index >= ProgArrayMax
                   \/ r.prog_name \notin Programs \cup {<<>>}
                   \/ AppDefault \notin Programs
  <2>1. PICK x \in TailRoutes :
          cfg.routes[x].prog_index >= ProgArrayMax \/ ResolveTail(cfg.routes[x]) = <<>>
    BY <1>2 DEF SeedInv, NotSeededForCause
  <2>2. ASSUME ResolveTail(cfg.routes[x]) = <<>>
        PROVE  cfg.routes[x].prog_name \notin Programs \cup {<<>>} \/ AppDefault \notin Programs
    BY <2>2, DocumentAssumption DEF ResolveTail
  <2> QED
    BY <2>1, <2>2
<1> QED
  BY <1>1, <1>2, Zenon DEF TailTableAsConfigured

(* The strengthened invariants together. *)
LEMMA ReadingInvariant == Spec => [](TypeInv /\ ReadInv)
<1>1. Init => CountInv /\ ReadInv
  BY TableLengths DEF Init, CountInv, Accepted, ReadInv
<1> QED
  BY <1>1, ConfigInvariant, CountStep, TypeCorrect, ReadStep, PTL DEF Spec, TypeInv

(* zereh_parse_config_yaml never accepts a route that means something else *)
(* than its mapping says, whatever keys it has, in whatever combination:   *)
(* the strongest key wins, a single bound counts for both, a disabled      *)
(* proof of work asks for none, denied types are taken away.               *)
THEOREM AcceptedRoutesAreAsWritten == Spec => []RoutesAsWritten
<1>1. Init => WrittenInv
  <2>1. Init => cfg.routes = <<>>
    BY ConfigHas, Zenon DEF Init
  <2>2. \A x : x \notin DOMAIN <<>>
    OBVIOUS
  <2> QED
    BY <2>1, <2>2, Zenon DEF WrittenInv
<1>2. WrittenInv => RoutesAsWritten
  BY Zenon DEF WrittenInv, RoutesAsWritten, Written
<1> QED
  BY <1>1, <1>2, ReadingInvariant, WrittenStep, PTL DEF Spec

(* zereh_parse_config_yaml refuses a document only for a value that no     *)
(* parser accepts, bounds out of range or in the wrong order, types that   *)
(* are all denied, a missing domain, or a list that is empty or too long.  *)
THEOREM RefusalsHaveACause == Spec => []RefusedForCause
<1>1. Init => RefusedForCause
  BY DEF Init, RefusedForCause
<1> QED
  BY <1>1, ReadingInvariant, CauseStep, PTL DEF Spec

(* When zereh_seed_prog_array succeeds, whatever the configuration, the    *)
(* table holds for every index exactly what the last route with this index *)
(* asks for, and nothing for an index without routes; and it gives up only *)
(* for an index beyond the table or a program that does not exist.         *)
THEOREM TailTableIsSeeded == Spec => []TailTableAsConfigured
<1>1. Init => SeedInv
  BY DEF Init, SeedInv, NotSeededForCause
<1> QED
  BY <1>1, ReadingInvariant, SeedStep, SeededTable, PTL DEF Spec
=============================================================================
