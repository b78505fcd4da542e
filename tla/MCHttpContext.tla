--------------------------- MODULE MCHttpContext ----------------------------
(***************************************************************************)
(* HttpContext on every stream of up to MaxLen units over a small alphabet *)
(* and every way to cut it into calls.                                     *)
(***************************************************************************)
EXTENDS HttpContext

Request == [kind |-> "request", method |-> "GET", version |-> "HTTP/1.1"]
Length(v) == [kind |-> "header", key |-> "Content-Length", value |-> v]
Data    == [kind |-> "data"]

MCAlphabet == {CRLF, Request, Length("1"), Length("-1"), Length("x"), Data}

(* std::stoul reads "-1" as the largest number there is: 1000 is out of    *)
(* reach of these streams just as well.                                    *)
MCStoul == [v \in {"", "1", "-1", "x"} |->
              CASE v = "1" -> 1 [] v = "-1" -> 1000 [] OTHER -> -1]

=============================================================================
