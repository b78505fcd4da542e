---------------------------- MODULE HttpResponse ----------------------------
(***************************************************************************)
(* HttpResponse: its setters as operators from a response to a response,   *)
(* what AppendToBuffer puts on the wire, and how a peer frames it.         *)
(*                                                                         *)
(* A body is a sequence of characters, one of which may be Nul; header     *)
(* values are kept as what they stand for (a length is a number).  Version *)
(* and status message are text that nothing reads and are left out.        *)
(***************************************************************************)
EXTENDS Integers, Sequences

CONSTANT Nul     \* the character '\0'

(* HttpStatusCode, as far as the server sets it.                           *)
Statuses == {0, 200, 204, 401, 403, 404, 500}

(* The constructor.                                                        *)
NewResponse(close) == [status |-> 0, headers |-> <<>>, body |-> <<>>, close |-> close]

SetStatusCode(r, code) == [r EXCEPT !.status = code]

SetCloseConnection(r, close) == [r EXCEPT !.close = close]

(* unordered_map::operator[] = value                                       *)
SetHeader(r, key, value) ==
  [r EXCEPT !.headers = [k \in DOMAIN r.headers \cup {key} |->
                           IF k = key THEN value ELSE r.headers[k]]]

(* unordered_map::emplace: a header that is there stays.                   *)
AddHeader(r, key, value) ==
  IF key \in DOMAIN r.headers THEN r ELSE SetHeader(r, key, value)

(* Mutants: emplace for operator[]; a line break is not counted.           *)
SetContentLengthOnce(r, length) == AddHeader(r, "Content-Length", length)
SetContentLengthLess(r, length) == SetHeader(r, "Content-Length", length - 2)

SetContentLength(r, length) == SetHeader(r, "Content-Length", length)

SetResponseBody(r, body) == [SetContentLength(r, Len(body)) EXCEPT !.body = body]

-----------------------------------------------------------------------------
(* The text of GetResponse is handed to Buffer::Append as a C string, so   *)
(* that it ends at the first Nul (values of headers have none).            *)
NulsIn(r) == {i \in DOMAIN r.body : r.body[i] = Nul}

AppendToBuffer(r) ==
  SubSeq(r.body, 1, CHOOSE n \in 0 .. Len(r.body) :
                      /\ \A i \in 1 .. n : r.body[i] # Nul
                      /\ n < Len(r.body) => r.body[n + 1] = Nul)

HasLength(r) == "Content-Length" \in DOMAIN r.headers

(* The peer finds the end of the body it is sent: by the length announced, *)
(* or, without one, by the end of the connection.                          *)
Framed(r) ==
  IF HasLength(r) THEN r.headers["Content-Length"] = Len(AppendToBuffer(r))
  ELSE r.close

=============================================================================
