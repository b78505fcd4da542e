------------------------- MODULE MCRequestPipeline --------------------------
(***************************************************************************)
(* Every chain of CORS and one middleware of the application, with no,     *)
(* one, two or any origin allowed; the application sets bodies with and    *)
(* without a Nul, and throws an answer that keeps the connection and has   *)
(* no length, or one with a header of CORS.                                *)
(***************************************************************************)
EXTENDS RequestPipeline

MCConfigs == {<<>>, <<"site">>, <<"*">>, <<"site", "other">>}

MCBodies == {<<"h">>, <<"h", Nul>>}

Unauthorized(headers, body, close) ==
  [status |-> 401, headers |-> headers, body |-> body, close |-> close]

MCResponses == {
  Unauthorized(<<>>, <<>>, FALSE),
  Unauthorized([k \in {Length, Allow} |-> IF k = Length THEN 1 ELSE "other"], <<"h">>, TRUE)}

=============================================================================
