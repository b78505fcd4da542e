----------------------------- MODULE HttpServer -----------------------------
(***************************************************************************)
(* One plain-text connection of HttpServer: the TcpConnection, the         *)
(* HttpContext attached to it, and the callbacks OnConnection, OnMessage   *)
(* and OnRequest that its event loop runs one after the other.             *)
(*                                                                         *)
(* A read event hands OnMessage everything that has arrived.  OnMessage is *)
(* the steps OnMessage (the call of ParseRequest), the iterations of       *)
(* ParseRequest, and one of OnParsed, OnRejected, OnThrow, OnCallbackThrow.*)
(* The loop runs a callback to its end before the next event, so nothing   *)
(* of this connection happens in between.                                  *)
(*                                                                         *)
(* TcpConnection is cutemuduo's.  Send queues output while the connection  *)
(* is connected and drops it otherwise; Shutdown closes the sending side   *)
(* only, after the queued output: bytes of the peer still arrive, until    *)
(* the connection goes down.                                               *)
(***************************************************************************)
EXTENDS Integers, Sequences

CONSTANTS
  Alphabet, CRLF, Stoul, MaxLen,
  CallbackOutcomes,      \* what http_callback_ may do: see CloseFlag
  StopAndWait    \* the peer sends a request whole, then waits for the answer

ASSUME ServerAssumption ==
  /\ CallbackOutcomes \subseteq {"kept", "closing", "keeping", "throws"}
  /\ StopAndWait \in BOOLEAN

VARIABLES
  stream, rd, state_, request_, ret, start, messages, bad,   \* the HttpContext
  conn,       \* state of the TcpConnection
  fresh,      \* bytes have arrived that no read event has reported
  out,        \* the answers sent, in order
  reads       \* history: the read events so far

context == <<stream, rd, state_, request_, ret, start, messages, bad>>
vars    == <<context, conn, fresh, out, reads>>

Ctx == INSTANCE HttpContext

ASSUME ContextAssumption == Ctx!WellFormed /\ MaxLen \in Nat

(* The fixed 400 answer; about is where the request it answers started, -1 *)
(* when there is none because the parser gave up.                          *)
BadRequest(about) == [status |-> "400", id |-> about, close |-> TRUE]

Idle == ret = "none"

Init ==
  /\ Ctx!Init
  /\ conn = "connecting" /\ fresh = FALSE /\ out = <<>> /\ reads = 0

-----------------------------------------------------------------------------
(* TcpConnection (cutemuduo).                                              *)

Send(answers) == out' = IF conn = "connected" THEN out \o answers ELSE out

(* Mutant: the connection stays open.                                      *)
NoShutdown == conn' = conn

Shutdown == conn' = IF conn = "connected" THEN "disconnecting" ELSE conn

(* The request the peer is sending has arrived completely, or what arrived *)
(* cannot become one.                                                      *)
Settled ==
  \/ Ctx!Framing!Complete(stream, Ctx!LastTaken)
  \/ Ctx!Framing!Malformed(stream, Ctx!LastTaken)

Arrive(u) ==
  /\ Idle /\ conn \in {"connected", "disconnecting"}
  /\ StopAndWait => ~ Settled
  /\ Ctx!Receive(u)
  /\ fresh' = TRUE
  /\ UNCHANGED <<conn, out, reads>>

-----------------------------------------------------------------------------
(* OnConnection: the context is attached when the connection comes up.     *)

OnConnectionUp ==
  /\ conn = "connecting" /\ conn' = "connected"
  /\ state_' = "REQUEST_LINE" /\ request_' = Ctx!NewRequest
  /\ UNCHANGED <<stream, rd, ret, start, messages, bad, fresh, out, reads>>

OnConnectionDown ==
  /\ Idle /\ conn \in {"connected", "disconnecting"}
  /\ conn' = "down"
  /\ UNCHANGED <<context, fresh, out, reads>>

-----------------------------------------------------------------------------
(* OnMessage.                                                              *)

OnMessage ==
  /\ Idle /\ conn \in {"connected", "disconnecting"} /\ fresh
  /\ StopAndWait => Settled
  /\ Ctx!ParseRequest
  /\ fresh' = FALSE /\ reads' = reads + 1
  /\ UNCHANGED <<conn, out>>

ParseStep == Ctx!Iteration /\ UNCHANGED <<conn, fresh, out, reads>>

(* Mutant: nothing is sent and nothing is closed.                          *)
RejectSilently(about) == ret' = "none" /\ UNCHANGED <<conn, out>>

(* conn->Send(400); conn->Shutdown()                                       *)
Reject(about) ==
  /\ Send(<<BadRequest(about)>>)
  /\ Shutdown
  /\ ret' = "none"

(* ParseRequest returned false.                                            *)
OnRejected ==
  /\ ret = "false"
  /\ Reject(-1)
  /\ UNCHANGED <<stream, rd, state_, request_, start, messages, bad, fresh, reads>>

(* An exception left ParseRequest: the catch clause.                       *)
OnThrow ==
  /\ ret = "throw"
  /\ Reject(-1)
  /\ UNCHANGED <<stream, rd, state_, request_, start, messages, bad, fresh, reads>>

(* OnRequest: the flag the response starts with.                           *)
WantsClose(r) ==
  LET connection_field == Ctx!GetHeader(r.headers, "Connection") IN
  \/ connection_field = "close"
  \/ r.version = "HTTP/1.0" /\ connection_field # "Keep-Alive"

(* close_connection_ after http_callback_: a handler that does not touch   *)
(* it, one that sets it (HandleRequest does on 404), one that clears it.   *)
CloseFlag(outcome, close) ==
  CASE outcome = "kept"    -> close
    [] outcome = "closing" -> TRUE
    [] outcome = "keeping" -> FALSE

OnRequest(outcome) ==
  LET close == CloseFlag(outcome, WantsClose(request_)) IN
  /\ Send(<<[status |-> "answer", id |-> start, close |-> close]>>)
  /\ IF close THEN Shutdown ELSE UNCHANGED conn

(* ParseRequest returned true: the request is served, the context reset.   *)
OnParsed(outcome) ==
  /\ ret = "true" /\ outcome # "throws"
  /\ Ctx!GetRequest
  /\ OnRequest(outcome)
  /\ Ctx!Reset
  /\ ret' = "none"
  /\ UNCHANGED <<stream, rd, start, bad, fresh, reads>>

(* http_callback_ lets an exception out (HandleRequest never does, another *)
(* callback may): the catch clause runs and Reset does not.                *)
OnCallbackThrow ==
  /\ ret = "true" /\ "throws" \in CallbackOutcomes
  /\ Ctx!GetRequest
  /\ Reject(start)
  /\ UNCHANGED <<stream, rd, state_, request_, start, bad, fresh, reads>>

Loop ==
  \/ OnMessage \/ ParseStep
  \/ OnRejected \/ OnThrow \/ OnCallbackThrow
  \/ \E o \in CallbackOutcomes : OnParsed(o)

Next ==
  \/ \E u \in Alphabet : Arrive(u)
  \/ OnConnectionUp \/ OnConnectionDown
  \/ Loop

(* EventLoop::Loop reports every readable connection and runs its callback *)
(* to the end.  The peer owes nothing.                                     *)
Spec == Init /\ [][Next]_vars /\ WF_vars(Loop)

-----------------------------------------------------------------------------
(* Properties.                                                             *)

Answers == [status : {"400", "answer"}, id : Nat \cup {-1}, close : BOOLEAN]

TypeOK ==
  /\ Ctx!TypeOK
  /\ conn \in {"connecting", "connected", "disconnecting", "down"}
  /\ fresh \in BOOLEAN
  /\ out \in Seq(Answers) /\ reads \in Nat

(* http_server.cpp:138-141, 149-160: the k-th answer on the connection is  *)
(* the answer to the k-th request handed to the callback; while the        *)
(* connection is up no request stays without its answer, and a 400 is the  *)
(* last thing sent.                                                        *)
AnswersMatchRequests ==
  /\ \A i \in 1 .. Len(out) :
       IF out[i] = BadRequest(-1) THEN i = Len(out)
       ELSE i <= Len(messages) /\ out[i].id = messages[i].from
  /\ conn = "connected" => Len(out) = Len(messages)

(* http_server.cpp:134-135, 162-164: the server closes exactly after an    *)
(* answer that says so, and that is the last answer.                       *)
CloseIsLast ==
  /\ \A i \in 1 .. Len(out) : out[i].close => i = Len(out) /\ conn # "connected"
  /\ conn = "disconnecting" => out # <<>> /\ out[Len(out)].close

(* http_server.cpp:138-146: a request reaches the callback a second time   *)
(* only when its callback threw the first time (Reset was skipped).  The   *)
(* peer has been sent a closing 400 for it, unless an earlier answer had   *)
(* closed already, and it is never sent an answer of the second call.      *)
RedispatchUnanswered ==
  \A i, j \in 1 .. Len(messages) :
    i < j /\ messages[j].from < messages[i].to =>
      /\ messages[j].from = messages[i].from /\ messages[j].to = messages[i].to
      /\ Len(out) <= i
      /\ Len(out) = i => out[i].status = "400"

(* http_server.cpp:131-141: OnMessage parses one request for a read event: *)
(* while the connection stays up, each read event is answered once.  Of n  *)
(* requests that arrive in one read n - 1 stay in the buffer until the     *)
(* peer sends more.                                                        *)
OneAnswerPerRead == conn = "connected" /\ Idle => Len(out) = reads

(* http_server.cpp:131-135 ("if an error occurs while parsing the HTTP     *)
(* message"): the parser's failure is answered with 400 only if the stream *)
(* has a malformed message.                                                *)
RejectOnlyMalformed ==
  \A i \in 1 .. Len(out) : out[i] = BadRequest(-1) => bad

(* http_request.hpp:74-83, http_context.cpp:63-75: a request that          *)
(* announced no body is handed out with an empty one, or, since Reset      *)
(* leaves the body in the context (which NoStaleBody shows), with the last *)
(* one that was announced on this connection: never with other bytes.      *)
NoForeignBody ==
  \A i \in 1 .. Len(messages) :
    LET body == messages[i].request.body
        Announced(j) == Ctx!HasBody(messages[j].request)
    IN  ~ Announced(i) /\ body # <<>> =>
          \E j \in 1 .. i - 1 :
            /\ Announced(j) /\ messages[j].request.body = body
            /\ \A k \in j + 1 .. i - 1 : ~ Announced(k)

(* http_server.cpp:101-141: the event loop never waits on a request.  When *)
(* it is idle and the connection open, then whatever a waiting peer has    *)
(* sent completely, or what cannot become a request any more, still has a  *)
(* read event to come: OnMessage leaves nothing of it in the buffer.       *)
SettledIsReported == conn = "connected" /\ Idle /\ Settled => fresh

(* http_server.cpp:101-165: with a peer that sends one whole request at a  *)
(* time, each request is answered (and the peer free to send the next) or  *)
(* the connection is closed, whatever the callback does.                   *)
Responsive ==
  (conn = "connected" /\ Settled) ~> (~ Settled \/ conn # "connected")

(* http_server.cpp:101-165: seen from the peer, the connection does what   *)
(* HttpServing allows: the answers are those of the messages the stream    *)
(* means, in order, however it was cut into reads, whatever the callback   *)
(* does, and whatever has arrived behind the last answer.                  *)
Served == {i \in 1 .. Len(out) : out[i].id # -1}

Serving ==
  INSTANCE HttpServing WITH
    answers <- [i \in Served |-> [message |-> Ctx!Map(messages[i]), close |-> out[i].close]],
    open    <- conn \in {"connecting", "connected"}

ImplementsServing == Serving!Spec

=============================================================================
