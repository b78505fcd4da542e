------------------------------ MODULE MCRouter ------------------------------
(***************************************************************************)
(* Every order of up to three registrations over six patterns: a literal,  *)
(* one and two parameters, overlapping ones, one with a '.' and one with a *)
(* group of its own in front of its parameter.                             *)
(***************************************************************************)
EXTENDS Router

MCPaths ==
  {<<"user", "7">>, <<"user", "me">>, <<"user", "7", "me">>, <<"a.b">>, <<"axb">>,
   <<"a", "b">>, <<"user", ":id">>}

MCPatterns ==
  {<<"user", "me">>, <<"user", ":id">>, <<":kind", ":id">>, <<":kind", "7", ":id">>, <<"a.b">>,
   <<"(user|a)", ":id">>}

Match(path, params) == [path |-> path, params |-> params]

MCLiteral ==
  [s \in {"user", "me", "7", "a.b", "(user|a)"} |->
     CASE s = "a.b" -> {Match(p, <<>>) : p \in {<<"a.b">>, <<"axb">>, <<"a", "b">>}}
       [] s = "(user|a)" -> {Match(<<t>>, <<t>>) : t \in {"user", "a"}}
       [] OTHER -> {Match(<<s>>, <<>>)}]

MCGroups == [s \in DOMAIN MCLiteral |-> IF s = "(user|a)" THEN 1 ELSE 0]

=============================================================================
