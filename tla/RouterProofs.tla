---------------------------- MODULE RouterProofs ----------------------------
(***************************************************************************)
(* Proofs about Router, for every set of paths, patterns and methods,      *)
(* whatever the text of a pattern matches, and any number of routes.       *)
(*                                                                         *)
(* RoutesToFirst speaks of the registrations; the inductive invariant says *)
(* how the four tables hold them.  Static: a table of static routes has    *)
(* for every key the first registration of that key.  Dynamic: a table of  *)
(* dynamic routes has the registrations of its kind, in their order.       *)
(*                                                                         *)
(* ParamsFillPattern speaks of one registration and its regular expression *)
(* only: what the expression matches is known by induction over the        *)
(* segments of its pattern.                                                *)
(***************************************************************************)
EXTENDS Router, FiniteSetTheorems, SequenceTheorems, WellFoundedInduction, NaturalsInduction, TLAPS

Kinds == {"handler", "callback", "regex_handler", "regex_callback"}

Routes == [kind : Kinds, method : Methods, path : Patterns]

Entries == [method : Methods, regex : {ConvertToRegex(p) : p \in Patterns}, target : Nat]

Key(route) == <<route.method, route.path>>

(* table holds the routes of this kind in the registrations l.             *)
Static(table, l, kind) ==
  /\ \A k \in DOMAIN table :
       /\ table[k] \in 1 .. Len(l) /\ l[table[k]].kind = kind /\ Key(l[table[k]]) = k
       /\ \A i \in 1 .. Len(l) : l[i].kind = kind /\ Key(l[i]) = k => table[k] <= i
  /\ \A i \in 1 .. Len(l) : l[i].kind = kind => Key(l[i]) \in DOMAIN table

Dynamic(table, l, kind) ==
  /\ table \in Seq(Entries)
  /\ \A a \in 1 .. Len(table) :
       /\ table[a].target \in 1 .. Len(l) /\ l[table[a].target].kind = kind
       /\ table[a].method = l[table[a].target].method
       /\ table[a].regex = ConvertToRegex(l[table[a].target].path)
  /\ \A a, b \in 1 .. Len(table) : a < b => table[a].target < table[b].target
  /\ \A i \in 1 .. Len(l) : l[i].kind = kind =>
       \E a \in 1 .. Len(table) : table[a].target = i

IInv ==
  /\ log \in Seq(Routes)
  /\ Static(handlers_, log, "handler") /\ Static(callbacks_, log, "callback")
  /\ Dynamic(regex_handlers_, log, "regex_handler")
  /\ Dynamic(regex_callbacks_, log, "regex_callback")

-----------------------------------------------------------------------------
LEMMA InitIInv == Init => IInv
<1> SUFFICES ASSUME Init PROVE IInv  OBVIOUS
<1>1. /\ log = <<>> /\ Len(log) = 0 /\ log \in Seq(Routes)
      /\ DOMAIN handlers_ = {} /\ DOMAIN callbacks_ = {}
      /\ regex_handlers_ = <<>> /\ regex_callbacks_ = <<>>
  BY DEF Init
<1>2. <<>> \in Seq(Entries) /\ Len(<<>>) = 0
  OBVIOUS
<1> QED  BY <1>1, <1>2 DEF IInv, Static, Dynamic

(* What a registration of route makes of the registrations.                *)
LEMMA AppendRoute ==
  ASSUME NEW l \in Seq(Routes), NEW route \in Routes
  PROVE  /\ Append(l, route) \in Seq(Routes)
         /\ Len(l) \in Nat /\ Len(Append(l, route)) = Len(l) + 1
         /\ 1 .. Len(Append(l, route)) = 1 .. Len(l) \cup {Len(l) + 1}
         /\ \A i \in 1 .. Len(l) : Append(l, route)[i] = l[i] /\ l[i] \in Routes
         /\ Append(l, route)[Len(l) + 1] = route
OBVIOUS

(* A table of another kind holds what it held.                             *)
LEMMA OtherTables ==
  ASSUME NEW l \in Seq(Routes), NEW route \in Routes, NEW table, NEW kind, kind # route.kind
  PROVE  /\ Static(table, l, kind) => Static(table, Append(l, route), kind)
         /\ Dynamic(table, l, kind) => Dynamic(table, Append(l, route), kind)
<1> DEFINE m == Append(l, route)
<1>1. /\ Len(m) = Len(l) + 1 /\ Len(l) \in Nat
      /\ 1 .. Len(m) = 1 .. Len(l) \cup {Len(l) + 1}
      /\ \A i \in 1 .. Len(l) : m[i] = l[i]
      /\ m[Len(l) + 1].kind # kind
  BY AppendRoute
<1> HIDE DEF m
<1>2. Static(table, l, kind) => Static(table, m, kind)
  BY <1>1 DEF Static
<1>3. Dynamic(table, l, kind) => Dynamic(table, m, kind)
  BY <1>1 DEF Dynamic
<1> QED  BY <1>2, <1>3 DEF m

(* emplace keeps the first registration of a key.                          *)
LEMMA EmplaceStatic ==
  ASSUME NEW l \in Seq(Routes), NEW route \in Routes, NEW table, Static(table, l, route.kind),
         NEW new, DOMAIN new = DOMAIN table \cup {Key(route)},
         \A k \in DOMAIN new : new[k] = IF k \in DOMAIN table THEN table[k] ELSE Len(l) + 1
  PROVE  Static(new, Append(l, route), route.kind)
<1> DEFINE m == Append(l, route)
<1>1. /\ Len(m) = Len(l) + 1 /\ Len(l) \in Nat
      /\ 1 .. Len(m) = 1 .. Len(l) \cup {Len(l) + 1}
      /\ \A i \in 1 .. Len(l) : m[i] = l[i]
      /\ m[Len(l) + 1] = route
  BY AppendRoute
<1> HIDE DEF m
<1>2. ASSUME NEW k \in DOMAIN new
      PROVE  /\ new[k] \in 1 .. Len(m) /\ m[new[k]].kind = route.kind /\ Key(m[new[k]]) = k
             /\ \A i \in 1 .. Len(m) : m[i].kind = route.kind /\ Key(m[i]) = k => new[k] <= i
  <2>1. CASE k \in DOMAIN table
    <3>1. /\ new[k] = table[k] /\ table[k] \in 1 .. Len(l)
          /\ l[table[k]].kind = route.kind /\ Key(l[table[k]]) = k
          /\ \A i \in 1 .. Len(l) : l[i].kind = route.kind /\ Key(l[i]) = k => table[k] <= i
      BY <1>2, <2>1 DEF Static
    <3> QED  BY <1>1, <3>1
  <2>2. CASE k \notin DOMAIN table
    <3>1. new[k] = Len(l) + 1 /\ k = Key(route)
      BY <1>2, <2>2
    <3>2. \A i \in 1 .. Len(l) : ~ (l[i].kind = route.kind /\ Key(l[i]) = k)
      BY <2>2 DEF Static
    <3> QED  BY <1>1, <3>1, <3>2
  <2> QED  BY <2>1, <2>2
<1>3. \A i \in 1 .. Len(m) : m[i].kind = route.kind => Key(m[i]) \in DOMAIN new
  BY <1>1 DEF Static
<1>4. Static(new, m, route.kind)
  BY <1>2, <1>3 DEF Static
<1> QED  BY <1>4 DEF m

(* emplace_back puts the registration behind those of its kind.            *)
LEMMA EmplaceBackDynamic ==
  ASSUME NEW l \in Seq(Routes), NEW route \in Routes, NEW table, Dynamic(table, l, route.kind)
  PROVE  Dynamic(Append(table, [method |-> route.method, regex |-> ConvertToRegex(route.path),
                                target |-> Len(l) + 1]),
                 Append(l, route), route.kind)
<1> DEFINE m == Append(l, route)
           e == [method |-> route.method, regex |-> ConvertToRegex(route.path),
                 target |-> Len(l) + 1]
           new == Append(table, e)
<1>1. /\ Len(m) = Len(l) + 1 /\ Len(l) \in Nat
      /\ 1 .. Len(m) = 1 .. Len(l) \cup {Len(l) + 1}
      /\ \A i \in 1 .. Len(l) : m[i] = l[i]
      /\ m[Len(l) + 1] = route
  BY AppendRoute
<1>2. e \in Entries /\ table \in Seq(Entries)
  BY <1>1 DEF Entries, Routes, Dynamic
<1>3. /\ e.method = route.method /\ e.regex = ConvertToRegex(route.path)
      /\ e.target = Len(l) + 1
  OBVIOUS
<1> HIDE DEF m, e
<1>4. /\ new \in Seq(Entries) /\ Len(new) = Len(table) + 1 /\ Len(table) \in Nat
      /\ 1 .. Len(new) = 1 .. Len(table) \cup {Len(table) + 1}
      /\ \A a \in 1 .. Len(table) : new[a] = table[a]
      /\ new[Len(table) + 1] = e
  BY <1>2
<1> HIDE DEF new
<1>5. ASSUME NEW a \in 1 .. Len(new)
      PROVE  /\ new[a].target \in 1 .. Len(m) /\ m[new[a].target].kind = route.kind
             /\ new[a].method = m[new[a].target].method
             /\ new[a].regex = ConvertToRegex(m[new[a].target].path)
  <2>1. CASE a \in 1 .. Len(table)
    BY <1>1, <1>4, <2>1 DEF Dynamic
  <2>2. CASE a = Len(table) + 1
    BY <1>1, <1>3, <1>4, <2>2
  <2> QED  BY <1>4, <2>1, <2>2
<1>6. ASSUME NEW a \in 1 .. Len(new), NEW b \in 1 .. Len(new), a < b
      PROVE  new[a].target < new[b].target
  <2>1. a \in 1 .. Len(table) /\ new[a] = table[a]
    BY <1>4, <1>6
  <2>2. CASE b \in 1 .. Len(table)
    BY <1>4, <1>6, <2>1, <2>2 DEF Dynamic
  <2>3. CASE b = Len(table) + 1
    <3>1. table[a].target \in 1 .. Len(l)
      BY <2>1 DEF Dynamic
    <3> QED  BY <1>1, <1>3, <1>4, <2>1, <2>3, <3>1
  <2> QED  BY <1>4, <2>2, <2>3
<1>7. ASSUME NEW i \in 1 .. Len(m), m[i].kind = route.kind
      PROVE  \E a \in 1 .. Len(new) : new[a].target = i
  <2>1. CASE i \in 1 .. Len(l)
    BY <1>1, <1>4, <1>7, <2>1 DEF Dynamic
  <2>2. CASE i = Len(l) + 1
    BY <1>3, <1>4, <2>2
  <2> QED  BY <1>1, <2>1, <2>2
<1>8. Dynamic(new, m, route.kind)
  BY <1>4, <1>5, <1>6, <1>7 DEF Dynamic
<1> QED  BY <1>8 DEF new, m, e

-----------------------------------------------------------------------------
LEMMA RegisterIInv ==
  ASSUME IInv, NEW method \in Methods, NEW path \in Patterns,
         \/ RegisterHandler(method, path) \/ RegisterCallback(method, path)
         \/ RegisterRegexHandler(method, path) \/ RegisterRegexCallback(method, path)
  PROVE  IInv'
<1> DEFINE route(kind) == [kind |-> kind, method |-> method, path |-> path]
<1>1. \A kind \in Kinds : /\ route(kind) \in Routes /\ route(kind).kind = kind
                          /\ Key(route(kind)) = <<method, path>>
                          /\ route(kind).method = method /\ route(kind).path = path
  BY DEF Routes, Key
<1>2. ASSUME NEW kind \in Kinds, Register(kind, method, path)
      PROVE  /\ log' = Append(log, route(kind)) /\ log' \in Seq(Routes)
             /\ \A table, other : other # kind =>
                  /\ Static(table, log, other) => Static(table, log', other)
                  /\ Dynamic(table, log, other) => Dynamic(table, log', other)
  <2>1. log' = Append(log, route(kind)) /\ log \in Seq(Routes)
    BY <1>2 DEF Register, IInv
  <2> HIDE DEF route
  <2> QED  BY <1>1, <2>1, AppendRoute, OtherTables
<1> HIDE DEF route
<1>3. CASE RegisterHandler(method, path)
  <2>1. /\ Register("handler", method, path) /\ handlers_' = Emplace(handlers_, <<method, path>>)
        /\ UNCHANGED <<callbacks_, regex_handlers_, regex_callbacks_>>
    BY <1>3 DEF RegisterHandler
  <2>2. /\ DOMAIN handlers_' = DOMAIN handlers_ \cup {<<method, path>>}
        /\ \A k \in DOMAIN handlers_' :
             handlers_'[k] = IF k \in DOMAIN handlers_ THEN handlers_[k] ELSE Len(log) + 1
    BY <2>1 DEF Emplace
  <2>3. Static(handlers_', log', "handler")
    BY <1>1, <1>2, <2>1, <2>2, EmplaceStatic DEF IInv, Kinds
  <2> QED  BY <1>2, <2>1, <2>3 DEF IInv, Kinds
<1>4. CASE RegisterCallback(method, path)
  <2>1. /\ Register("callback", method, path)
        /\ callbacks_' = Emplace(callbacks_, <<method, path>>)
        /\ UNCHANGED <<handlers_, regex_handlers_, regex_callbacks_>>
    BY <1>4 DEF RegisterCallback
  <2>2. /\ DOMAIN callbacks_' = DOMAIN callbacks_ \cup {<<method, path>>}
        /\ \A k \in DOMAIN callbacks_' :
             callbacks_'[k] = IF k \in DOMAIN callbacks_ THEN callbacks_[k] ELSE Len(log) + 1
    BY <2>1 DEF Emplace
  <2>3. Static(callbacks_', log', "callback")
    BY <1>1, <1>2, <2>1, <2>2, EmplaceStatic DEF IInv, Kinds
  <2> QED  BY <1>2, <2>1, <2>3 DEF IInv, Kinds
<1>5. CASE RegisterRegexHandler(method, path)
  <2>1. /\ Register("regex_handler", method, path)
        /\ regex_handlers_' = EmplaceBack(regex_handlers_, method, path)
        /\ UNCHANGED <<handlers_, callbacks_, regex_callbacks_>>
    BY <1>5 DEF RegisterRegexHandler
  <2>2. Dynamic(regex_handlers_', log', "regex_handler")
    BY <1>1, <1>2, <2>1, EmplaceBackDynamic DEF IInv, Kinds, EmplaceBack
  <2> QED  BY <1>2, <2>1, <2>2 DEF IInv, Kinds
<1>6. CASE RegisterRegexCallback(method, path)
  <2>1. /\ Register("regex_callback", method, path)
        /\ regex_callbacks_' = EmplaceBack(regex_callbacks_, method, path)
        /\ UNCHANGED <<handlers_, callbacks_, regex_handlers_>>
    BY <1>6 DEF RegisterRegexCallback
  <2>2. Dynamic(regex_callbacks_', log', "regex_callback")
    BY <1>1, <1>2, <2>1, EmplaceBackDynamic DEF IInv, Kinds, EmplaceBack
  <2> QED  BY <1>2, <2>1, <2>2 DEF IInv, Kinds
<1> QED  BY <1>3, <1>4, <1>5, <1>6

LEMMA NextIInv == IInv /\ [Next]_vars => IInv'
<1>1. ASSUME IInv, Next PROVE IInv'
  BY <1>1, RegisterIInv DEF Next
<1>2. ASSUME IInv, UNCHANGED vars PROVE IInv'
  BY <1>2 DEF IInv, vars
<1> QED  BY <1>1, <1>2

LEMMA AlwaysIInv == Spec => []IInv
BY InitIInv, NextIInv, PTL DEF Spec

-----------------------------------------------------------------------------
(* The registrations of a kind that take a request, and the first of them. *)
Takers(l, kind, request) ==
  {i \in 1 .. Len(l) : l[i].kind = kind /\ Takes(l[i], request)}

First(l, kind, request, target) ==
  /\ target \in Takers(l, kind, request)
  /\ \A i \in Takers(l, kind, request) : target <= i

LEMMA Ranks ==
  /\ Rank["handler"] = 1 /\ Rank["callback"] = 2
  /\ Rank["regex_handler"] = 3 /\ Rank["regex_callback"] = 4
BY DEF Rank

(* A nonempty set of positions has a first one.                            *)
LEMMA EarliestIsFirst ==
  ASSUME NEW found \in SUBSET Nat, found # {}
  PROVE  Earliest(found) \in found /\ \A j \in found : Earliest(found) <= j
<1>1. PICK i \in found : \A j \in found : ~ <<j, i>> \in OpToRel(<, Nat)
  BY WFMin, NatLessThanWellFounded
<1>2. ASSUME NEW j \in found, j < i PROVE FALSE
  <2>1. <<j, i>> \in OpToRel(<, Nat)
    BY <1>2, Zenon DEF OpToRel
  <2> QED  BY <1>1, <2>1
<1>3. \A j \in found : i <= j
  BY <1>2
<1> QED  BY <1>3 DEF Earliest

(* unordered_map::find finds the first registration that takes a request.  *)
LEMMA FindStatic ==
  ASSUME NEW l \in Seq(Routes), NEW kind \in {"handler", "callback"}, NEW table,
         Static(table, l, kind), NEW request \in Requests
  PROVE  LET key == <<request.method, request.path>> IN
         /\ key \notin DOMAIN table => Takers(l, kind, request) = {}
         /\ key \in DOMAIN table => First(l, kind, request, table[key])
<1> DEFINE key == <<request.method, request.path>>
<1>1. ASSUME NEW i \in 1 .. Len(l), l[i].kind = kind
      PROVE  Takes(l[i], request) <=> Key(l[i]) = key
  <2>1. Rank[l[i].kind] <= 2
    <3>1. kind = "handler" \/ kind = "callback"
      OBVIOUS
    <3>2. Rank[kind] = 1 \/ Rank[kind] = 2
      BY <3>1, Ranks
    <3>3. Rank[l[i].kind] = Rank[kind]
      BY <1>1
    <3> QED  BY <3>2, <3>3
  <2>2. Takes(l[i], request) <=> /\ l[i].method = request.method /\ l[i].path = request.path
    BY <2>1 DEF Takes
  <2>3. Key(l[i]) = key <=> /\ l[i].method = request.method /\ l[i].path = request.path
    BY DEF Key
  <2> QED  BY <2>2, <2>3
<1>2. Takers(l, kind, request) = {i \in 1 .. Len(l) : l[i].kind = kind /\ Key(l[i]) = key}
  BY <1>1 DEF Takers
<1>3. ASSUME key \notin DOMAIN table PROVE Takers(l, kind, request) = {}
  BY <1>2, <1>3 DEF Static
<1>4. ASSUME key \in DOMAIN table PROVE First(l, kind, request, table[key])
  BY <1>2, <1>4 DEF Static, First
<1> QED  BY <1>3, <1>4

(* The linear search finds the first registration that takes a request.    *)
LEMMA SearchDynamic ==
  ASSUME NEW l \in Seq(Routes), NEW kind \in {"regex_handler", "regex_callback"}, NEW table,
         Dynamic(table, l, kind), NEW request \in Requests
  PROVE  \/ Takers(l, kind, request) = {} /\ Search(table, request) = NotFound
         \/ First(l, kind, request, Search(table, request).target)
<1> DEFINE found == {a \in DOMAIN table :
                       /\ table[a].method = request.method
                       /\ RegexMatches(request.path, table[a].regex) # {}}
           first == Earliest(found)
<1> HIDE DEF found, first
<1>1. DOMAIN table = 1 .. Len(table) /\ Len(table) \in Nat
  <2>1. table \in Seq(Entries)
    BY DEF Dynamic
  <2> QED  BY <2>1
<1>2. ASSUME NEW i \in 1 .. Len(l), l[i].kind = kind
      PROVE  Takes(l[i], request) <=>
               /\ l[i].method = request.method
               /\ \E m \in ConvertToRegex(l[i].path) : m.path = request.path
  <2>1. kind = "regex_handler" \/ kind = "regex_callback"
    OBVIOUS
  <2>2. Rank[kind] = 3 \/ Rank[kind] = 4
    BY <2>1, Ranks
  <2>3. Rank[l[i].kind] = Rank[kind]
    BY <1>2
  <2>4. ~ (Rank[l[i].kind] <= 2)
    BY <2>2, <2>3
  <2> QED  BY <2>4 DEF Takes
<1>3. \A a \in 1 .. Len(table) : a \in found <=> table[a].target \in Takers(l, kind, request)
  <2> TAKE a \in 1 .. Len(table)
  <2>1. /\ table[a].target \in 1 .. Len(l) /\ l[table[a].target].kind = kind
        /\ table[a].method = l[table[a].target].method
        /\ table[a].regex = ConvertToRegex(l[table[a].target].path)
    BY DEF Dynamic
  <2>2. a \in found <=> /\ table[a].method = request.method
                        /\ \E m \in table[a].regex : m.path = request.path
    BY <1>1 DEF found, RegexMatches
  <2> QED  BY <1>2, <2>1, <2>2 DEF Takers
<1>4. \A i \in Takers(l, kind, request) : \E a \in found : table[a].target = i
  BY <1>1, <1>3 DEF Dynamic, Takers
<1>5. CASE found = {}
  <2>1. Search(table, request) = NotFound
    BY <1>5 DEF Search, found
  <2> QED  BY <1>4, <1>5, <2>1
<1>6. CASE found # {}
  <2>1. Search(table, request).target = table[first].target
    BY <1>6 DEF Search, found, first
  <2>2. found \in SUBSET Nat
    BY <1>1 DEF found
  <2>3. first \in found /\ \A a \in found : first <= a
    BY <1>6, <2>2, EarliestIsFirst DEF first
  <2>4. first \in 1 .. Len(table) /\ \A a \in found : a \in 1 .. Len(table)
    BY <1>1, <2>3 DEF found
  <2>5. \A a \in found : table[first].target <= table[a].target
    <3> TAKE a \in found
    <3>1. first = a \/ first < a
      BY <2>3, <2>4
    <3>2. table[first].target \in Nat /\ table[a].target \in Nat
      BY <2>4 DEF Dynamic
    <3> QED  BY <2>4, <3>1, <3>2 DEF Dynamic
  <2>6. First(l, kind, request, table[first].target)
    BY <1>3, <1>4, <2>3, <2>4, <2>5 DEF First
  <2> QED  BY <2>1, <2>6
<1> QED  BY <1>5, <1>6

(* The target of a request, in the order in which Route looks.             *)
Winner(l, request, target) ==
  LET None(kind) == Takers(l, kind, request) = {} IN
  \/ First(l, "handler", request, target)
  \/ None("handler") /\ First(l, "callback", request, target)
  \/ None("handler") /\ None("callback") /\ First(l, "regex_handler", request, target)
  \/ /\ None("handler") /\ None("callback") /\ None("regex_handler")
     /\ First(l, "regex_callback", request, target)
  \/ /\ None("handler") /\ None("callback") /\ None("regex_handler") /\ None("regex_callback")
     /\ target = 0

Wins == \A request \in Requests : Winner(log, request, Route(request).target)

LEMMA RouteWins == IInv => Wins
<1> SUFFICES ASSUME IInv, NEW request \in Requests
             PROVE  Winner(log, request, Route(request).target)
  BY DEF Wins
<1> DEFINE key == <<request.method, request.path>>
           target == Route(request).target
<1>1. /\ key \notin DOMAIN handlers_ => Takers(log, "handler", request) = {}
      /\ key \in DOMAIN handlers_ => First(log, "handler", request, handlers_[key])
  BY FindStatic DEF IInv
<1>2. /\ key \notin DOMAIN callbacks_ => Takers(log, "callback", request) = {}
      /\ key \in DOMAIN callbacks_ => First(log, "callback", request, callbacks_[key])
  BY FindStatic DEF IInv
<1>3. \/ Takers(log, "regex_handler", request) = {} /\ Search(regex_handlers_, request) = NotFound
      \/ First(log, "regex_handler", request, Search(regex_handlers_, request).target)
  BY SearchDynamic DEF IInv
<1>4. \/ Takers(log, "regex_callback", request) = {} /\ Search(regex_callbacks_, request) = NotFound
      \/ First(log, "regex_callback", request, Search(regex_callbacks_, request).target)
  BY SearchDynamic DEF IInv
<1>5. NotFound.target = 0
  BY DEF NotFound
<1>6. CASE key \in DOMAIN handlers_
  <2>1. target = handlers_[key]
    BY <1>6 DEF Route
  <2> QED  BY <1>1, <1>6, <2>1 DEF Winner
<1>7. CASE key \notin DOMAIN handlers_ /\ key \in DOMAIN callbacks_
  <2>1. target = callbacks_[key]
    BY <1>7 DEF Route
  <2> QED  BY <1>1, <1>2, <1>7, <2>1 DEF Winner
<1>8. CASE key \notin DOMAIN handlers_ /\ key \notin DOMAIN callbacks_
  <2>1. Route(request) = IF Search(regex_handlers_, request) # NotFound
                         THEN Search(regex_handlers_, request)
                         ELSE Search(regex_callbacks_, request)
    BY <1>8 DEF Route
  <2>2. Takers(log, "handler", request) = {} /\ Takers(log, "callback", request) = {}
    BY <1>1, <1>2, <1>8
  <2>3. CASE Search(regex_handlers_, request) # NotFound
    <3>1. target = Search(regex_handlers_, request).target
      BY <2>1, <2>3
    <3> QED  BY <1>3, <2>2, <2>3, <3>1 DEF Winner
  <2>4. CASE Search(regex_handlers_, request) = NotFound
    <3>1. target = Search(regex_callbacks_, request).target
      BY <2>1, <2>4
    <3>2. ~ First(log, "regex_handler", request, 0)
      BY DEF First, Takers
    <3>3. Takers(log, "regex_handler", request) = {}
      BY <1>3, <1>5, <2>4, <3>2
    <3> QED  BY <1>4, <1>5, <2>2, <3>1, <3>3 DEF Winner
  <2> QED  BY <2>3, <2>4
<1> QED  BY <1>6, <1>7, <1>8

(* A winner is preferred to every other registration that takes the request.*)
LEMMA WinnerIsPreferred ==
  ASSUME NEW l \in Seq(Routes), NEW request, NEW target, Winner(l, request, target)
  PROVE  \/ /\ target = 0
            /\ \A i \in 1 .. Len(l) : ~ Takes(l[i], request)
         \/ /\ target \in 1 .. Len(l) /\ Takes(l[target], request)
            /\ \A i \in 1 .. Len(l) : Takes(l[i], request) /\ i # target =>
                 \/ Rank[l[target].kind] < Rank[l[i].kind]
                 \/ l[target].kind = l[i].kind /\ target < i
<1>1. ASSUME NEW i \in 1 .. Len(l), Takes(l[i], request)
      PROVE  /\ l[i].kind \in Kinds
             /\ i \in Takers(l, l[i].kind, request)
  <2>1. l[i] \in Routes
    OBVIOUS
  <2>2. l[i].kind \in Kinds
    BY <2>1 DEF Routes
  <2> QED  BY <1>1, <2>2 DEF Takers
<1>2. ASSUME NEW kind \in Kinds, First(l, kind, request, target)
      PROVE  /\ target \in 1 .. Len(l) /\ Takes(l[target], request) /\ l[target].kind = kind
             /\ \A i \in Takers(l, kind, request) : target <= i
  BY <1>2 DEF First, Takers
<1>3. ASSUME NEW i \in 1 .. Len(l), Takes(l[i], request), i # target,
             NEW kind \in Kinds, First(l, kind, request, target), l[i].kind = kind
      PROVE  target < i
  <2>1. target \in 1 .. Len(l) /\ target <= i
    BY <1>1, <1>2, <1>3
  <2> QED  BY <1>3, <2>1
<1>4. CASE First(l, "handler", request, target)
  BY <1>1, <1>2, <1>3, <1>4, Ranks DEF Kinds
<1>5. CASE Takers(l, "handler", request) = {} /\ First(l, "callback", request, target)
  BY <1>1, <1>2, <1>3, <1>5, Ranks DEF Kinds
<1>6. CASE /\ Takers(l, "handler", request) = {} /\ Takers(l, "callback", request) = {}
           /\ First(l, "regex_handler", request, target)
  BY <1>1, <1>2, <1>3, <1>6, Ranks DEF Kinds
<1>7. CASE /\ Takers(l, "handler", request) = {} /\ Takers(l, "callback", request) = {}
           /\ Takers(l, "regex_handler", request) = {}
           /\ First(l, "regex_callback", request, target)
  BY <1>1, <1>2, <1>3, <1>7, Ranks DEF Kinds
<1>8. CASE /\ \A kind \in Kinds : Takers(l, kind, request) = {}
           /\ target = 0
  BY <1>1, <1>8
<1> QED  BY <1>4, <1>5, <1>6, <1>7, <1>8 DEF Winner, Kinds

-----------------------------------------------------------------------------
(* ConvertToRegex is a recursive function; what it computes is shown by    *)
(* induction over the segments of the pattern, in the form "a set of       *)
(* numbers without a least element is empty" (EarliestIsFirst).            *)

Empty == [path |-> <<>>, params |-> <<>>]

(* g is the function that ConvertToRegex defines, up to segment n.         *)
Builds(g, pattern, n) ==
  g = [k \in 0 .. n |-> IF k = 0 THEN {Empty} ELSE Extend(g[k - 1], pattern[k])]

LEMMA SomethingBuilds ==
  ASSUME NEW pattern, NEW n \in Nat
  PROVE  \E g : Builds(g, pattern, n)
<1> DEFINE without == {k \in Nat : ~ \E g : Builds(g, pattern, k)}
           first   == Earliest(without)
<1> SUFFICES ASSUME without # {} PROVE FALSE
  OBVIOUS
<1>1. first \in Nat /\ ~ (\E g : Builds(g, pattern, first))
      /\ \A k \in Nat : k < first => \E g : Builds(g, pattern, k)
  <2>1. first \in without /\ \A k \in without : first <= k
    BY EarliestIsFirst
  <2>2. without \subseteq Nat
    OBVIOUS
  <2> HIDE DEF first
  <2> QED  BY <2>1, <2>2
<1> HIDE DEF first
<1>2. CASE first = 0
  <2>1. Builds([k \in 0 .. 0 |-> {Empty}], pattern, 0)
    BY DEF Builds
  <2> QED  BY <1>1, <1>2, <2>1
<1>3. CASE first > 0
  <2>1. PICK g : Builds(g, pattern, first - 1)
    BY <1>1, <1>3
  <2> DEFINE longer == [k \in 0 .. first |->
                          IF k = first THEN Extend(g[first - 1], pattern[first]) ELSE g[k]]
  <2>2. ASSUME NEW k \in 0 .. first
        PROVE  longer[k] = IF k = 0 THEN {Empty} ELSE Extend(longer[k - 1], pattern[k])
    <3>1. CASE k = first
      <4>1. k - 1 \in 0 .. first /\ k - 1 # first /\ k # 0
        BY <1>1, <1>3, <3>1
      <4>2. longer[k - 1] = g[first - 1]
        BY <3>1, <4>1
      <4> QED  BY <3>1, <4>1, <4>2
    <3>2. CASE k # first
      <4>1. /\ k \in 0 .. first - 1
            /\ k # 0 => k - 1 \in 0 .. first /\ k - 1 # first
        BY <1>1, <1>3, <3>2
      <4>2. longer[k] = g[k] /\ (k # 0 => longer[k - 1] = g[k - 1])
        BY <3>2, <4>1
      <4>3. g[k] = IF k = 0 THEN {Empty} ELSE Extend(g[k - 1], pattern[k])
        BY <2>1, <4>1 DEF Builds
      <4> QED  BY <4>2, <4>3
    <3> QED  BY <3>1, <3>2
  <2>3. Builds(longer, pattern, first)
    BY <2>2 DEF Builds
  <2> QED  BY <1>1, <2>3
<1> QED  BY <1>1, <1>2, <1>3

LEMMA RegexIsBuilt ==
  ASSUME NEW pattern, Len(pattern) \in Nat
  PROVE  \E g : Builds(g, pattern, Len(pattern)) /\ ConvertToRegex(pattern) = g[Len(pattern)]
<1> DEFINE n == Len(pattern)
           g == CHOOSE f : Builds(f, pattern, n)
<1>1. Builds(g, pattern, n)
  BY SomethingBuilds
<1>2. ConvertToRegex(pattern) = g[n]
  BY DEF ConvertToRegex, Builds, Empty
<1> QED  BY <1>1, <1>2

(* The groups of one segment more.                                         *)
LEMMA GroupSteps ==
  ASSUME NEW pattern, NEW k \in Nat, IsFiniteSet(GroupsUpTo(pattern, k)),
         GroupsOf(pattern[k + 1]) \in Nat
  PROVE  /\ IsFiniteSet(GroupsUpTo(pattern, k + 1)) /\ Group(pattern, k) \in Nat
         /\ Group(pattern, k + 1) = Group(pattern, k) + GroupsOf(pattern[k + 1])
<1> DEFINE n == GroupsOf(pattern[k + 1])
           more == {k + 1} \X (1 .. n)
<1>1. GroupsUpTo(pattern, k + 1) = GroupsUpTo(pattern, k) \cup more
  <2>1. 1 .. k + 1 = 1 .. k \cup {k + 1}
    OBVIOUS
  <2> QED  BY <2>1 DEF GroupsUpTo
<1>2. GroupsUpTo(pattern, k) \cap more = {}
  BY DEF GroupsUpTo
<1>3. IsFiniteSet(more) /\ Cardinality(more) = n
  <2>1. IsFiniteSet({k + 1}) /\ Cardinality({k + 1}) = 1
    BY FS_Singleton
  <2>2. IsFiniteSet(1 .. n) /\ Cardinality(1 .. n) = n
    BY FS_Interval
  <2> HIDE DEF n
  <2>3. IsFiniteSet(more) /\ Cardinality(more) = 1 * Cardinality(1 .. n)
    BY <2>1, <2>2, FS_Product
  <2> QED  BY <2>2, <2>3 DEF n
<1>4. Cardinality(GroupsUpTo(pattern, k)) \in Nat /\ Cardinality({}) = 0
  BY FS_CardinalityType, FS_EmptySet
<1>5. /\ IsFiniteSet(GroupsUpTo(pattern, k) \cup more)
      /\ Cardinality(GroupsUpTo(pattern, k) \cup more)
           = Cardinality(GroupsUpTo(pattern, k)) + Cardinality(more) - Cardinality({})
  <2> HIDE DEF more
  <2> QED  BY <1>2, <1>3, FS_Union
<1> HIDE DEF more, n
<1>6. Group(pattern, k) = Cardinality(GroupsUpTo(pattern, k))
  BY DEF Group
<1>7. Group(pattern, k + 1) = Cardinality(GroupsUpTo(pattern, k) \cup more)
  BY <1>1 DEF Group
<1>8. n \in Nat
  BY DEF n
<1>9. Group(pattern, k + 1) = Group(pattern, k) + n
  BY <1>3, <1>4, <1>5, <1>6, <1>7, <1>8
<1> QED  BY <1>1, <1>4, <1>5, <1>6, <1>9 DEF n

(* The group of a named segment is one of those counted behind it.         *)
LEMMA GroupIsCounted ==
  ASSUME NEW pattern, NEW k \in Nat, NEW i \in 1 .. k, pattern[i] \in Names,
         IsFiniteSet(GroupsUpTo(pattern, k))
  PROVE  Group(pattern, i) \in 1 .. Group(pattern, k)
<1>1. GroupsUpTo(pattern, i) \in SUBSET GroupsUpTo(pattern, k)
  BY DEF GroupsUpTo
<1>2. {<<i, 1>>} \in SUBSET GroupsUpTo(pattern, i)
  <2>1. i \in 1 .. i /\ 1 \in 1 .. GroupsOf(pattern[i])
    BY DEF GroupsOf
  <2> QED  BY <2>1 DEF GroupsUpTo
<1>3. /\ IsFiniteSet(GroupsUpTo(pattern, i))
      /\ Cardinality(GroupsUpTo(pattern, i)) <= Cardinality(GroupsUpTo(pattern, k))
  BY <1>1, FS_Subset
<1>4. Cardinality({<<i, 1>>}) = 1 /\ Cardinality({<<i, 1>>}) <= Cardinality(GroupsUpTo(pattern, i))
  BY <1>2, <1>3, FS_Subset, FS_Singleton
<1>5. /\ Cardinality(GroupsUpTo(pattern, i)) \in Nat
      /\ Cardinality(GroupsUpTo(pattern, k)) \in Nat
  BY <1>3, FS_CardinalityType
<1> QED  BY <1>3, <1>4, <1>5 DEF Group

(* What paths and captures of matches consist of.                          *)
Texts ==
  Segments \cup UNION {UNION {ToSet(m.path) \cup ToSet(m.params) : m \in Literal[s]} :
                         s \in DOMAIN Literal}

(* A match of the first k segments of a plain pattern takes one segment of *)
(* the path for each, and the group of a named one captures its segment.   *)
FitsAt(m, pattern, i) ==
  IF pattern[i] \in Names
  THEN m.path[i] = m.params[Group(pattern, i)]
  ELSE \E l \in Literal[pattern[i]] : l.path = <<m.path[i]>>

Fits(m, pattern, k) ==
  /\ m.path \in Seq(Texts) /\ Len(m.path) = k
  /\ IsFiniteSet(GroupsUpTo(pattern, k))
  /\ m.params \in Seq(Texts) /\ Len(m.params) = Group(pattern, k)
  /\ \A i \in 1 .. k : FitsAt(m, pattern, i)

LEMMA EmptyFits ==
  ASSUME NEW pattern
  PROVE  Fits(Empty, pattern, 0)
<1>1. GroupsUpTo(pattern, 0) = {}
  BY DEF GroupsUpTo
<1>2. IsFiniteSet(GroupsUpTo(pattern, 0)) /\ Group(pattern, 0) = 0
  BY <1>1, FS_EmptySet DEF Group
<1> QED  BY <1>2, EmptySeq DEF Fits, Empty

LEMMA LanguageOfPlain ==
  ASSUME NEW pattern \in Patterns, Plain(pattern), NEW k \in 1 .. Len(pattern),
         NEW b \in Language(pattern[k])
  PROVE  /\ GroupsOf(pattern[k]) \in Nat
         /\ b.path \in Seq(Texts) /\ Len(b.path) = 1
         /\ b.params \in Seq(Texts) /\ Len(b.params) = GroupsOf(pattern[k])
         /\ IF pattern[k] \in Names THEN b.path[1] = b.params[1]
            ELSE \E l \in Literal[pattern[k]] : l.path = <<b.path[1]>>
<1>1. pattern \in Seq(Names \cup DOMAIN Literal)
  BY RouterAssumption
<1>2. pattern[k] \in Names \cup DOMAIN Literal /\ k \in DOMAIN pattern
  BY <1>1
<1>3. CASE pattern[k] \in Names
  <2>1. PICK s \in Segments : b = [path |-> <<s>>, params |-> <<s>>]
    BY <1>3 DEF Language
  <2>2. s \in Texts
    BY DEF Texts
  <2> QED  BY <1>3, <2>1, <2>2 DEF GroupsOf
<1>4. CASE pattern[k] \notin Names
  <2>1. b \in Literal[pattern[k]] /\ pattern[k] \in DOMAIN Literal /\ Len(b.path) = 1
    BY <1>2, <1>4 DEF Language, Plain
  <2>2. /\ b.path \in Seq(ToSet(b.path)) /\ b.params \in Seq(ToSet(b.params))
        /\ Len(b.params) = Groups[pattern[k]] /\ Groups[pattern[k]] \in Nat
    BY <2>1, RouterAssumption
  <2>3. ToSet(b.path) \in SUBSET Texts /\ ToSet(b.params) \in SUBSET Texts
    BY <2>1 DEF Texts
  <2> HIDE DEF Texts
  <2>4. b.path \in Seq(Texts) /\ b.params \in Seq(Texts)
    BY <2>2, <2>3
  <2>5. b.path = <<b.path[1]>>
    BY <2>1, <2>4
  <2> QED  BY <1>4, <2>1, <2>2, <2>4, <2>5 DEF GroupsOf
<1> QED  BY <1>3, <1>4

(* Behind a sequence of p texts, one of q texts begins with its first.      *)
Sized(s, p) == s \in Seq(Texts) /\ Len(s) = p /\ p \in Nat

Joins(r, s, p, t, q) ==
  /\ r \in Seq(Texts) /\ Len(r) = p + q
  /\ \A j \in 1 .. p : r[j] = s[j]
  /\ q > 0 => r[p + 1] = t[1]

LEMMA ConcatJoins == \A s, p, t, q : Sized(s, p) /\ Sized(t, q) => Joins(s \o t, s, p, t, q)
<1> HIDE DEF Texts
<1> QED  BY DEF Sized, Joins

LEMMA ExtendFits ==
  ASSUME NEW pattern \in Patterns, Plain(pattern), NEW k \in Nat, k + 1 \in 1 .. Len(pattern),
         NEW a, Fits(a, pattern, k), NEW b \in Language(pattern[k + 1])
  PROVE  Fits([path |-> a.path \o b.path, params |-> a.params \o b.params], pattern, k + 1)
<1> DEFINE m == [path |-> a.path \o b.path, params |-> a.params \o b.params]
           g == Group(pattern, k)
           n == GroupsOf(pattern[k + 1])
<1>1. /\ n \in Nat
      /\ b.path \in Seq(Texts) /\ Len(b.path) = 1
      /\ b.params \in Seq(Texts) /\ Len(b.params) = n
      /\ IF pattern[k + 1] \in Names THEN b.path[1] = b.params[1]
         ELSE \E l \in Literal[pattern[k + 1]] : l.path = <<b.path[1]>>
  BY LanguageOfPlain
<1>2. /\ a.path \in Seq(Texts) /\ Len(a.path) = k
      /\ IsFiniteSet(GroupsUpTo(pattern, k))
      /\ a.params \in Seq(Texts) /\ Len(a.params) = g
      /\ \A i \in 1 .. k : FitsAt(a, pattern, i)
  BY DEF Fits
<1>3. /\ IsFiniteSet(GroupsUpTo(pattern, k + 1)) /\ g \in Nat
      /\ Group(pattern, k + 1) = g + n
  BY <1>1, <1>2, GroupSteps
<1>4. /\ m.path \in Seq(Texts) /\ Len(m.path) = k + 1 /\ m.path[k + 1] = b.path[1]
      /\ \A i \in 1 .. k : m.path[i] = a.path[i]
  <2>1. Sized(a.path, k) /\ Sized(b.path, 1)
    BY <1>1, <1>2 DEF Sized
  <2>2. Joins(a.path \o b.path, a.path, k, b.path, 1)
    BY <2>1, ConcatJoins, Zenon
  <2>3. m.path = a.path \o b.path
    OBVIOUS
  <2>4. 1 > 0
    OBVIOUS
  <2> HIDE DEF m
  <2> QED  BY <2>2, <2>3, <2>4, Zenon DEF Joins
<1> HIDE DEF n
<1>5. /\ m.params \in Seq(Texts) /\ Len(m.params) = g + n
      /\ \A j \in 1 .. g : m.params[j] = a.params[j]
      /\ n > 0 => m.params[g + 1] = b.params[1]
  <2> HIDE DEF g
  <2>1. Sized(a.params, g) /\ Sized(b.params, n)
    BY <1>1, <1>2, <1>3 DEF Sized
  <2>2. Joins(a.params \o b.params, a.params, g, b.params, n)
    BY <2>1, ConcatJoins, Zenon
  <2>3. m.params = a.params \o b.params
    OBVIOUS
  <2> HIDE DEF m
  <2> QED  BY <2>2, <2>3, Zenon DEF Joins
<1> HIDE DEF m
<1>6. ASSUME NEW i \in 1 .. k PROVE FitsAt(m, pattern, i)
  <2>1. FitsAt(a, pattern, i) /\ m.path[i] = a.path[i]
    BY <1>2, <1>4
  <2>2. pattern[i] \in Names => Group(pattern, i) \in 1 .. g
    BY <1>2, GroupIsCounted
  <2>3. pattern[i] \in Names => m.params[Group(pattern, i)] = a.params[Group(pattern, i)]
    BY <1>5, <2>2
  <2> QED  BY <2>1, <2>3 DEF FitsAt
<1>7. FitsAt(m, pattern, k + 1)
  <2>1. CASE pattern[k + 1] \in Names
    <3>1. n = 1
      BY <2>1 DEF n, GroupsOf
    <3> QED  BY <1>1, <1>3, <1>4, <1>5, <2>1, <3>1 DEF FitsAt
  <2>2. CASE pattern[k + 1] \notin Names
    BY <1>1, <1>4, <2>2 DEF FitsAt
  <2> QED  BY <2>1, <2>2
<1>8. \A i \in 1 .. k + 1 : i \in 1 .. k \/ i = k + 1
  OBVIOUS
<1>9. Fits(m, pattern, k + 1)
  BY <1>3, <1>4, <1>5, <1>6, <1>7, <1>8 DEF Fits
<1> QED  BY <1>9 DEF m

(* What a set of matches becomes is what its members become.               *)
LEMMA AllExtendFit ==
  ASSUME NEW pattern \in Patterns, Plain(pattern), NEW k \in Nat, k + 1 \in 1 .. Len(pattern),
         NEW prefixes, \A a \in prefixes : Fits(a, pattern, k)
  PROVE  \A m \in Extend(prefixes, pattern[k + 1]) : Fits(m, pattern, k + 1)
<1> SUFFICES ASSUME NEW a \in prefixes, NEW b \in Language(pattern[k + 1])
             PROVE  Fits([path |-> a.path \o b.path, params |-> a.params \o b.params],
                         pattern, k + 1)
  BY DEF Extend
<1> QED  BY ExtendFits

(* Every match of the regular expression of a plain pattern fits it.       *)
LEMMA MatchFits ==
  ASSUME NEW pattern \in Patterns, Plain(pattern), NEW m \in ConvertToRegex(pattern)
  PROVE  Fits(m, pattern, Len(pattern))
<1> DEFINE n == Len(pattern)
<1>1. n \in Nat
  <2>1. pattern \in Seq(Names \cup DOMAIN Literal)
    BY RouterAssumption
  <2> QED  BY <2>1
<1>2. PICK g : Builds(g, pattern, n) /\ ConvertToRegex(pattern) = g[n]
  BY <1>1, RegexIsBuilt
<1> DEFINE wrong == {k \in 0 .. n : \E a \in g[k] : ~ Fits(a, pattern, k)}
           first == Earliest(wrong)
<1>3. wrong = {}
  <2> SUFFICES ASSUME wrong # {} PROVE FALSE
    OBVIOUS
  <2>1. first \in wrong /\ \A k \in wrong : first <= k
    <3>1. wrong \in SUBSET Nat
      BY <1>1
    <3> HIDE DEF wrong
    <3> QED  BY <3>1, EarliestIsFirst
  <2>2. PICK a \in g[first] : ~ Fits(a, pattern, first)
    BY <2>1
  <2>3. first \in 0 .. n
    BY <2>1
  <2>4. ASSUME first > 0 PROVE \A c \in g[first - 1] : Fits(c, pattern, first - 1)
    <3> HIDE DEF first
    <3>1. first - 1 \in 0 .. n /\ ~ (first <= first - 1)
      BY <1>1, <2>3, <2>4
    <3>2. first - 1 \notin wrong
      BY <2>1, <3>1, Zenon
    <3> QED  BY <3>1, <3>2
  <2> HIDE DEF first, wrong
  <2>5. g[first] = IF first = 0 THEN {Empty} ELSE Extend(g[first - 1], pattern[first])
    BY <1>2, <2>3 DEF Builds
  <2>6. CASE first = 0
    BY <2>2, <2>5, <2>6, EmptyFits
  <2>7. CASE first > 0
    <3>1. g[first] = Extend(g[first - 1], pattern[first])
      BY <2>3, <2>5, <2>7
    <3>2. first - 1 \in Nat /\ (first - 1) + 1 = first /\ first \in 1 .. n
      BY <1>1, <2>3, <2>7
    <3>3. \A c \in g[first - 1] : Fits(c, pattern, first - 1)
      BY <2>4, <2>7
    <3>4. \A c \in Extend(g[first - 1], pattern[first]) : Fits(c, pattern, first)
      BY <3>2, <3>3, AllExtendFit
    <3> QED  BY <2>2, <3>1, <3>4
  <2> QED  BY <1>1, <2>3, <2>6, <2>7
<1> QED  BY <1>1, <1>2, <1>3

(* The parameters that the linear search returns are those of a match of   *)
(* the request's path by the route it returns.                             *)
LEMMA SearchCaptures ==
  ASSUME NEW l, NEW kind, NEW table, Dynamic(table, l, kind),
         NEW request, Search(table, request) # NotFound
  PROVE  LET found == Search(table, request) IN
         \E m \in ConvertToRegex(l[found.target].path) :
           m.path = request.path /\ m.params = found.params
<1> DEFINE found == {a \in DOMAIN table :
                       /\ table[a].method = request.method
                       /\ RegexMatches(request.path, table[a].regex) # {}}
           first == Earliest(found)
           matches == RegexMatches(request.path, table[first].regex)
           match == CHOOSE m \in matches : TRUE
<1>1. DOMAIN table = 1 .. Len(table) /\ Len(table) \in Nat
  <2>1. table \in Seq(Entries)
    BY DEF Dynamic
  <2> QED  BY <2>1
<1>2. found # {}
  BY DEF Search
<1>3. found \in SUBSET Nat
  BY <1>1
<1>4. first \in found
  <2> HIDE DEF found
  <2> QED  BY <1>2, <1>3, EarliestIsFirst
<1>5. first \in 1 .. Len(table) /\ matches # {}
  BY <1>1, <1>4
<1>6. Search(table, request) = [target |-> table[first].target, params |-> match.params]
  BY <1>2 DEF Search
<1> HIDE DEF found, first
<1>7. match \in matches
  BY <1>5
<1>8. table[first].regex = ConvertToRegex(l[table[first].target].path)
  BY <1>5 DEF Dynamic
<1>9. match \in table[first].regex /\ match.path = request.path
  BY <1>7 DEF RegexMatches
<1> HIDE DEF match
<1> QED  BY <1>6, <1>8, <1>9

(* What Route finds in a dynamic table.                                    *)
LEMMA RouteCaptures ==
  ASSUME IInv, NEW request \in Requests, Route(request).target # 0,
         Rank[log[Route(request).target].kind] > 2
  PROVE  \E m \in ConvertToRegex(log[Route(request).target].path) :
           m.path = request.path /\ m.params = Route(request).params
<1> DEFINE key == <<request.method, request.path>>
           Found(table) == table \in {regex_handlers_, regex_callbacks_}
                           /\ Route(request) = Search(table, request)
<1>1. ASSUME NEW table, NEW kind \in {"handler", "callback"}, Static(table, log, kind),
             key \in DOMAIN table
      PROVE  ~ (Rank[log[table[key]].kind] > 2)
  <2>1. log[table[key]].kind = kind
    BY <1>1 DEF Static
  <2>2. Rank[kind] \in {1, 2}
    BY Ranks
  <2> QED  BY <2>1, <2>2
<1>2. key \notin DOMAIN handlers_
  <2> SUFFICES ASSUME key \in DOMAIN handlers_ PROVE FALSE
    OBVIOUS
  <2>1. Route(request).target = handlers_[key]
    BY DEF Route
  <2> QED  BY <1>1, <2>1 DEF IInv
<1>3. key \notin DOMAIN callbacks_
  <2> SUFFICES ASSUME key \in DOMAIN callbacks_ PROVE FALSE
    OBVIOUS
  <2>1. Route(request).target = callbacks_[key]
    BY <1>2 DEF Route
  <2> QED  BY <1>1, <2>1 DEF IInv
<1>4. Route(request) = IF Search(regex_handlers_, request) # NotFound
                       THEN Search(regex_handlers_, request)
                       ELSE Search(regex_callbacks_, request)
  BY <1>2, <1>3 DEF Route
<1>5. Route(request) # NotFound
  BY DEF NotFound
<1>6. CASE Search(regex_handlers_, request) # NotFound
  BY <1>4, <1>6, SearchCaptures DEF IInv
<1>7. CASE Search(regex_handlers_, request) = NotFound
  <2>1. Route(request) = Search(regex_callbacks_, request)
    BY <1>4, <1>7
  <2> QED  BY <1>5, <2>1, SearchCaptures DEF IInv
<1> QED  BY <1>6, <1>7

-----------------------------------------------------------------------------
(* Every target in a table is a registration that was made.                *)
THEOREM TypeCorrect == Spec => []TypeOK
<1>1. ASSUME NEW t, NEW kind, Static(t, log, kind)
      PROVE  \A k \in DOMAIN t : t[k] \in 1 .. Len(log)
  BY <1>1 DEF Static
<1>2. ASSUME NEW t, NEW kind, Dynamic(t, log, kind), log \in Seq(Routes)
      PROVE  \A i \in DOMAIN t : t[i].method \in Methods /\ t[i].target \in 1 .. Len(log)
  <2>1. DOMAIN t = 1 .. Len(t)
    BY <1>2 DEF Dynamic
  <2>2. \A i \in 1 .. Len(log) : log[i].method \in Methods
    <3>1. \A i \in 1 .. Len(log) : log[i] \in Routes
      BY <1>2
    <3> QED  BY <3>1 DEF Routes
  <2> QED  BY <1>2, <2>1, <2>2 DEF Dynamic
<1>3. IInv => TypeOK
  BY <1>1, <1>2 DEF IInv, TypeOK
<1> QED  BY <1>3, AlwaysIInv, PTL

(* router.cpp:5-60: whatever the order of registration, the registration   *)
(* of the highest precedence that takes a request, and of those the first, *)
(* is the one that is called.                                              *)
THEOREM HighestAndFirstWins == Spec => []RoutesToFirst
<1>1. IInv => RoutesToFirst
  <2> SUFFICES ASSUME IInv, NEW request \in Requests
               PROVE  LET takers == {i \in DOMAIN log : Takes(log[i], request)}
                          target == Route(request).target
                      IN  IF takers = {} THEN target = 0
                          ELSE target \in takers /\ \A i \in takers : i = target \/ Before(target, i)
    BY DEF RoutesToFirst
  <2>1. log \in Seq(Routes) /\ DOMAIN log = 1 .. Len(log)
    BY DEF IInv
  <2>2. Winner(log, request, Route(request).target)
    BY RouteWins DEF Wins
  <2>3. \A target : Winner(log, request, target) =>
          \/ /\ target = 0
             /\ \A i \in 1 .. Len(log) : ~ Takes(log[i], request)
          \/ /\ target \in 1 .. Len(log) /\ Takes(log[target], request)
             /\ \A i \in 1 .. Len(log) : Takes(log[i], request) /\ i # target =>
                  \/ Rank[log[target].kind] < Rank[log[i].kind]
                  \/ log[target].kind = log[i].kind /\ target < i
    BY <2>1, WinnerIsPreferred
  <2> QED  BY <2>1, <2>2, <2>3 DEF Before
<1> QED  BY <1>1, AlwaysIInv, PTL

(* router.cpp:62-75: the parameter numbered by the group that a name has   *)
(* become is the segment of the request's path in its place, for patterns  *)
(* of any length with any number of names and groups of their own.         *)
THEOREM ParametersAreSegments == Spec => []ParamsFillPattern
<1>1. IInv => ParamsFillPattern
  <2> DEFINE found(request) == Route(request)
             route(request) == log[found(request).target]
  <2> SUFFICES ASSUME IInv, NEW request \in Requests, found(request).target # 0,
                      Rank[route(request).kind] > 2, Plain(route(request).path)
               PROVE  LET pattern == route(request).path IN
                      /\ Len(request.path) = Len(pattern)
                      /\ \A i \in DOMAIN pattern :
                           IF pattern[i] \in Names
                           THEN request.path[i] = found(request).params[Group(pattern, i)]
                           ELSE \E m \in Literal[pattern[i]] : m.path = <<request.path[i]>>
    BY DEF ParamsFillPattern
  <2> DEFINE pattern == route(request).path
             n == Len(pattern)
  <2>1. pattern \in Patterns
    <3>1. Winner(log, request, Route(request).target) /\ log \in Seq(Routes)
      BY RouteWins DEF Wins, IInv
    <3>2. Route(request).target \in 1 .. Len(log)
      BY <3>1, WinnerIsPreferred
    <3>3. route(request) \in Routes
      BY <3>1, <3>2
    <3> QED  BY <3>3 DEF Routes
  <2>2. DOMAIN pattern = 1 .. n
    <3>1. pattern \in Seq(Names \cup DOMAIN Literal)
      BY <2>1, RouterAssumption
    <3> HIDE DEF pattern
    <3> QED  BY <3>1
  <2>3. PICK m \in ConvertToRegex(pattern) :
          m.path = request.path /\ m.params = found(request).params
    BY RouteCaptures
  <2>4. Fits(m, pattern, n)
    <3>1. Plain(pattern) /\ m \in ConvertToRegex(pattern)
      OBVIOUS
    <3> HIDE DEF pattern
    <3> QED  BY <2>1, <3>1, MatchFits
  <2>5. /\ Len(m.path) = n
        /\ \A i \in 1 .. n : FitsAt(m, pattern, i)
    BY <2>4 DEF Fits
  <2> HIDE DEF pattern, found
  <2>6. /\ Len(request.path) = n
        /\ \A i \in 1 .. n :
             IF pattern[i] \in Names
             THEN request.path[i] = found(request).params[Group(pattern, i)]
             ELSE \E l \in Literal[pattern[i]] : l.path = <<request.path[i]>>
    BY <2>3, <2>5 DEF FitsAt
  <2> QED  BY <2>2, <2>6 DEF pattern
<1> QED  BY <1>1, AlwaysIInv, PTL

=============================================================================
