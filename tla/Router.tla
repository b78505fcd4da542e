------------------------------- MODULE Router -------------------------------
(***************************************************************************)
(* Router: four tables of routes, filled by HttpServer::Get, Post and      *)
(* AddRoute, and the lookup of Router::Route.                              *)
(*                                                                         *)
(* A path is the sequence of its segments.  ConvertToRegex turns a segment *)
(* ":name" into "([^/]+)" and copies every other one into the regular      *)
(* expression as it is, with the meaning its characters have there: what   *)
(* the copied text matches and captures is the constant Literal (the '.'   *)
(* of "a.b" also matches 'x', and the '/' between two segments; "(a|b)" is *)
(* a group of the pattern's own, counted with those of the names).         *)
(***************************************************************************)
EXTENDS Integers, Sequences, SequencesExt

CONSTANTS
  Methods,      \* HttpRequestMethod
  Paths,        \* paths of requests
  Patterns,     \* paths that routes are registered with
  Names,        \* the segments ":name"
  Literal,      \* other segments of patterns |-> the matches of their text
  Groups,       \* other segments of patterns |-> the groups in their text
  MaxRoutes     \* bound on the number of registrations

ASSUME RouterAssumption ==
  /\ Patterns \subseteq Seq(Names \cup DOMAIN Literal)
  /\ Groups \in [DOMAIN Literal -> Nat]
  /\ \A s \in DOMAIN Literal : \A m \in Literal[s] :
       /\ m.path \in Seq(ToSet(m.path)) /\ m.params \in Seq(ToSet(m.params))
       /\ Len(m.params) = Groups[s]
  /\ MaxRoutes \in Nat

VARIABLES
  handlers_, callbacks_,              \* static routes: RouteKey |-> target
  regex_handlers_, regex_callbacks_,  \* dynamic routes, in order
  log                                 \* history: every registration, in order

vars == <<handlers_, callbacks_, regex_handlers_, regex_callbacks_, log>>

Requests == [method : Methods, path : Paths]

Init ==
  /\ handlers_ = <<>> /\ callbacks_ = <<>>
  /\ regex_handlers_ = <<>> /\ regex_callbacks_ = <<>>
  /\ log = <<>>

-----------------------------------------------------------------------------
(* ConvertToRegex and std::regex_match: a regular expression is the set of *)
(* the paths it matches, each with what its groups capture.                *)

Segments == UNION {ToSet(p) : p \in Paths}

Language(segment) ==
  IF segment \in Names
  THEN {[path |-> <<s>>, params |-> <<s>>] : s \in Segments}
  ELSE Literal[segment]

(* Mutant: the groups are read from the last to the first.                 *)
ExtendBackwards(prefixes, segment) ==
  UNION {{[path |-> a.path \o b.path, params |-> b.params \o a.params] :
            b \in Language(segment)} : a \in prefixes}

Extend(prefixes, segment) ==
  UNION {{[path |-> a.path \o b.path, params |-> a.params \o b.params] :
            b \in Language(segment)} : a \in prefixes}

ConvertToRegex(pattern) ==
  LET prefix[n \in 0 .. Len(pattern)] ==
        IF n = 0 THEN {[path |-> <<>>, params |-> <<>>]}
        ELSE Extend(prefix[n - 1], pattern[n])
  IN  prefix[Len(pattern)]

RegexMatches(path, regex) == {m \in regex : m.path = path}

-----------------------------------------------------------------------------
(* Registration.  The target of a route is the number of its registration. *)

Register(kind, method, path) ==
  /\ Len(log) < MaxRoutes
  /\ log' = Append(log, [kind |-> kind, method |-> method, path |-> path])

(* Mutant: operator[] for emplace, the last route of a key wins.           *)
EmplaceLast(table, key) ==
  [k \in DOMAIN table \cup {key} |-> IF k = key THEN Len(log) + 1 ELSE table[k]]

(* unordered_map::emplace: the first route of a key stays.                 *)
Emplace(table, key) ==
  [k \in DOMAIN table \cup {key} |->
     IF k \in DOMAIN table THEN table[k] ELSE Len(log) + 1]

(* Mutant: the target is one too high.                                     *)
EmplaceBackNext(table, method, path) ==
  Append(table, [method |-> method, regex |-> ConvertToRegex(path), target |-> Len(log) + 2])

EmplaceBack(table, method, path) ==
  Append(table, [method |-> method, regex |-> ConvertToRegex(path), target |-> Len(log) + 1])

RegisterHandler(method, path) ==
  /\ Register("handler", method, path)
  /\ handlers_' = Emplace(handlers_, <<method, path>>)
  /\ UNCHANGED <<callbacks_, regex_handlers_, regex_callbacks_>>

RegisterCallback(method, path) ==
  /\ Register("callback", method, path)
  /\ callbacks_' = Emplace(callbacks_, <<method, path>>)
  /\ UNCHANGED <<handlers_, regex_handlers_, regex_callbacks_>>

RegisterRegexHandler(method, path) ==
  /\ Register("regex_handler", method, path)
  /\ regex_handlers_' = EmplaceBack(regex_handlers_, method, path)
  /\ UNCHANGED <<handlers_, callbacks_, regex_callbacks_>>

RegisterRegexCallback(method, path) ==
  /\ Register("regex_callback", method, path)
  /\ regex_callbacks_' = EmplaceBack(regex_callbacks_, method, path)
  /\ UNCHANGED <<handlers_, callbacks_, regex_handlers_>>

(* HttpServer's interface to the router.                                   *)
Next ==
  \E path \in Patterns :
    \/ \E method \in {"GET", "POST"} \cap Methods :   \* Get, Post
         RegisterHandler(method, path) \/ RegisterCallback(method, path)
    \/ \E method \in Methods :                       \* AddRoute
         RegisterRegexHandler(method, path) \/ RegisterRegexCallback(method, path)

Spec == Init /\ [][Next]_vars

-----------------------------------------------------------------------------
(* Router::Route: the target that is called and the path parameters it is  *)
(* given; target 0 is the return of false.                                 *)

NotFound == [target |-> 0, params |-> <<>>]

Earliest(found) == CHOOSE i \in found : \A j \in found : i <= j

(* The linear search through one table of dynamic routes.                  *)
Search(table, request) ==
  LET found == {i \in DOMAIN table :
                  /\ table[i].method = request.method
                  /\ RegexMatches(request.path, table[i].regex) # {}}
      first == Earliest(found)
      match == CHOOSE m \in RegexMatches(request.path, table[first].regex) : TRUE
  IN  IF found = {} THEN NotFound
      ELSE [target |-> table[first].target, params |-> match.params]

Route(request) ==
  LET key == <<request.method, request.path>> IN
  CASE key \in DOMAIN handlers_  -> [target |-> handlers_[key], params |-> <<>>]
    [] key \in DOMAIN callbacks_ /\ key \notin DOMAIN handlers_ ->
         [target |-> callbacks_[key], params |-> <<>>]
    [] OTHER -> IF Search(regex_handlers_, request) # NotFound
                THEN Search(regex_handlers_, request)
                ELSE Search(regex_callbacks_, request)

-----------------------------------------------------------------------------
(* Properties.                                                             *)

TypeOK ==
  /\ \A t \in {handlers_, callbacks_} : \A k \in DOMAIN t : t[k] \in 1 .. Len(log)
  /\ \A t \in {regex_handlers_, regex_callbacks_} :
       \A i \in DOMAIN t : t[i].method \in Methods /\ t[i].target \in 1 .. Len(log)

Rank ==
  [kind \in {"handler", "callback", "regex_handler", "regex_callback"} |->
     CASE kind = "handler"        -> 1
       [] kind = "callback"       -> 2
       [] kind = "regex_handler"  -> 3
       [] kind = "regex_callback" -> 4]

(* A static route takes exactly its path; a dynamic one every path that its*)
(* expression matches.                                                     *)
Takes(route, request) ==
  /\ route.method = request.method
  /\ IF Rank[route.kind] <= 2 THEN route.path = request.path
     ELSE \E m \in ConvertToRegex(route.path) : m.path = request.path

Before(i, j) ==
  \/ Rank[log[i].kind] < Rank[log[j].kind]
  \/ log[i].kind = log[j].kind /\ i < j

(* router.cpp:5-60: whatever the order of registration, a request goes to  *)
(* the registration that takes it with the highest precedence (static      *)
(* before dynamic, handler before callback) and was made first; it is not  *)
(* found only if no registration takes it.                                 *)
RoutesToFirst ==
  \A request \in Requests :
    LET takers == {i \in DOMAIN log : Takes(log[i], request)}
        target == Route(request).target
    IN  IF takers = {} THEN target = 0
        ELSE target \in takers /\ \A i \in takers : i = target \/ Before(target, i)

(* The groups of the first i segments, and how many they are.              *)
GroupsOf(segment) == IF segment \in Names THEN 1 ELSE Groups[segment]

GroupsUpTo(pattern, i) == UNION {{j} \X (1 .. GroupsOf(pattern[j])) : j \in 1 .. i}

Group(pattern, i) == Cardinality(GroupsUpTo(pattern, i))

(* Every segment of the pattern stands for one segment of the path.        *)
Plain(pattern) ==
  \A i \in DOMAIN pattern :
    pattern[i] \in Names \/ \A m \in Literal[pattern[i]] : Len(m.path) = 1

(* router.cpp:62-75: a handler reads a named segment of the request's path *)
(* as the parameter numbered by the group that the name became, groups of  *)
(* the pattern's own included; the other segments are as the pattern says. *)
ParamsFillPattern ==
  \A request \in Requests :
    LET found   == Route(request)
        route   == log[found.target]
        pattern == route.path
    IN  found.target # 0 /\ Rank[route.kind] > 2 /\ Plain(pattern) =>
          /\ Len(request.path) = Len(pattern)
          /\ \A i \in DOMAIN pattern :
               IF pattern[i] \in Names
               THEN request.path[i] = found.params[Group(pattern, i)]
               ELSE \E m \in Literal[pattern[i]] : m.path = <<request.path[i]>>

=============================================================================
