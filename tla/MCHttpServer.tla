---------------------------- MODULE MCHttpServer ----------------------------
(***************************************************************************)
(* HttpServer on small streams: the headers that decide about keeping the  *)
(* connection, and (MCBodies) requests with bodies.                        *)
(***************************************************************************)
EXTENDS HttpServer

Request(v)   == [kind |-> "request", method |-> "GET", version |-> v]
Header(k, v) == [kind |-> "header", key |-> k, value |-> v]
(* GET /a:b HTTP/1.1, which the parser of header lines accepts as well.    *)
Colon        == [kind |-> "both", method |-> "GET", version |-> "HTTP/1.1",
                 key |-> "GET /a", value |-> ""]
Data         == [kind |-> "data"]

MCAlphabet ==
  {CRLF, Request("HTTP/1.1"), Request("HTTP/1.0"),
   Header("Connection", "close"), Header("Connection", "Keep-Alive"), Colon}

MCBodies ==
  {CRLF, Request("HTTP/1.1"), Header("Connection", "close"),
   Header("Content-Length", "1"), Header("Content-Length", "x"), Data}

MCStoul ==
  [v \in {"", "1", "x", "close", "Keep-Alive"} |-> IF v = "1" THEN 1 ELSE -1]

=============================================================================
