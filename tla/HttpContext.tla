---------------------------- MODULE HttpContext -----------------------------
(***************************************************************************)
(* HttpContext: the incremental parser of one connection.  Bytes arrive in *)
(* the connection's Buffer in chunks of any size; ParseRequest is called   *)
(* on what is there, keeps its state between calls, and returns true when  *)
(* a request is complete, false otherwise, or throws (std::stoul).         *)
(*                                                                         *)
(* ParseRequest is a while (true) around a switch on state_.  A call is    *)
(* the step ParseRequest (ret becomes "running") followed by one step per  *)
(* iteration of the loop, until an iteration returns or throws.  The owner *)
(* of the context then takes the request and resets the context.           *)
(*                                                                         *)
(* Buffer (cutemuduo) is a growing sequence with a reader index: the       *)
(* readable bytes are stream[rd + 1 .. Len(stream)].                       *)
(***************************************************************************)
EXTENDS HttpText

CONSTANT MaxLen      \* bound on the length of the stream

ASSUME MaxLenAssumption == MaxLen \in Nat

VARIABLES
  stream,     \* units appended to the Buffer so far
  rd,         \* how many of them have been retrieved
  state_,     \* HttpContext::state_
  request_,   \* HttpContext::request_
  ret,        \* the call of ParseRequest: "none", "running", or its outcome
  start,      \* history: where the request being parsed started
  messages,   \* history: the requests taken from the context, in order
  bad         \* history: ParseRequest met a malformed message

parser == <<rd, state_, request_, start>>
vars   == <<stream, rd, state_, request_, ret, start, messages, bad>>

States   == {"REQUEST_LINE", "HEADERS", "BODY", "FINISH"}
Outcomes == {"none", "running", "true", "false", "throw"}

Init ==
  /\ stream = <<>> /\ rd = 0
  /\ state_ = "REQUEST_LINE" /\ request_ = NewRequest
  /\ ret = "none"
  /\ start = 0 /\ messages = <<>> /\ bad = FALSE

-----------------------------------------------------------------------------
(* Buffer.                                                                 *)

ReadableBytes == Len(stream) - rd

Breaks == {i \in rd + 1 .. Len(stream) : stream[i] = CRLF}

FindCRLF == CHOOSE i \in Breaks : \A j \in Breaks : i <= j

line == SubSeq(stream, rd + 1, FindCRLF - 1)

(* Mutant: one unit more than the line is retrieved.                       *)
RetrieveTooMuch == rd' = FindCRLF + 1

RetrieveLine == rd' = FindCRLF

(* Buffer::Append of a unit; the answer of an earlier call is forgotten.   *)
Receive(u) ==
  /\ ret # "running"
  /\ Len(stream) < MaxLen
  /\ MayFollow(stream, u)
  /\ stream' = Append(stream, u)
  /\ ret' = "none"
  /\ UNCHANGED <<rd, state_, request_, start, messages, bad>>

-----------------------------------------------------------------------------
(* ParseRequest.                                                           *)

Running(s) == ret = "running" /\ state_ = s

ParseRequest ==
  /\ ret # "running"
  /\ ret' = "running"
  /\ UNCHANGED <<stream, rd, state_, request_, start, messages, bad>>

Return(r) == ret' = r /\ UNCHANGED <<stream, messages>>

Continue == UNCHANGED <<stream, ret, messages, bad>>

(* No line break in the buffer: more data is needed.                       *)
NeedLine ==
  /\ Running("REQUEST_LINE") \/ Running("HEADERS")
  /\ Breaks = {}
  /\ Return("false")
  /\ UNCHANGED <<rd, state_, request_, start, bad>>

(* The line is retrieved even when it is rejected; state_ stays.           *)
RejectLine ==
  /\ Breaks # {}
  /\ \/ Running("REQUEST_LINE") /\ ~ ParseRequestLine(line)
     \/ Running("HEADERS") /\ line # <<>> /\ ~ ParseHeaderLine(line)
  /\ RetrieveLine
  /\ Return("false") /\ bad' = TRUE
  /\ UNCHANGED <<state_, request_, start>>

RequestLine ==
  /\ Running("REQUEST_LINE")
  /\ Breaks # {} /\ ParseRequestLine(line)
  /\ RetrieveLine
  /\ request_' = [request_ EXCEPT !.method = MethodOf(line), !.version = VersionOf(line)]
  /\ state_' = "HEADERS"
  /\ start' = rd
  /\ Continue

(* Mutant: the header line is left in the buffer.                          *)
HeaderLineKept ==
  /\ Running("HEADERS")
  /\ Breaks # {} /\ ParseHeaderLine(line)
  /\ request_' = [request_ EXCEPT !.headers = AddHeader(@, KeyOf(line), ValueOf(line))]
  /\ UNCHANGED <<rd, state_, start>>
  /\ Continue

HeaderLine ==
  /\ Running("HEADERS")
  /\ Breaks # {} /\ ParseHeaderLine(line)
  /\ RetrieveLine
  /\ request_' = [request_ EXCEPT !.headers = AddHeader(@, KeyOf(line), ValueOf(line))]
  /\ UNCHANGED <<state_, start>>
  /\ Continue

AtEmptyLine == Running("HEADERS") /\ Breaks # {} /\ line = <<>>

content_length == GetHeader(request_.headers, "Content-Length")

(* Mutant: without a length, what is left in the buffer is the body, and   *)
(* is taken before the empty line is retrieved.                            *)
EndTakesRest ==
  /\ AtEmptyLine /\ content_length = ""
  /\ RetrieveLine
  /\ request_' = [request_ EXCEPT !.body = SubSeq(stream, rd + 1, Len(stream))]
  /\ state_' = "FINISH"
  /\ Return("true") /\ UNCHANGED <<start, bad>>

EndWithoutBody ==
  /\ AtEmptyLine /\ content_length = ""
  /\ RetrieveLine
  /\ state_' = "FINISH"
  /\ Return("true") /\ UNCHANGED <<request_, start, bad>>

EndWithBody ==
  /\ AtEmptyLine /\ content_length # "" /\ Stoul[content_length] # -1
  /\ RetrieveLine
  /\ request_' = [request_ EXCEPT !.body_length = Stoul[content_length]]
  /\ state_' = "BODY"
  /\ UNCHANGED start
  /\ Continue

(* std::stoul throws: the empty line is gone, state_ is still HEADERS.     *)
EndThrows ==
  /\ AtEmptyLine /\ content_length # "" /\ Stoul[content_length] = -1
  /\ RetrieveLine
  /\ Return("throw") /\ bad' = TRUE
  /\ UNCHANGED <<state_, request_, start>>

(* Mutant: the body is copied but stays in the buffer.                     *)
BodyKept ==
  /\ Running("BODY") /\ ReadableBytes >= request_.body_length
  /\ request_' = [request_ EXCEPT !.body = SubSeq(stream, rd + 1, rd + request_.body_length)]
  /\ state_' = "FINISH"
  /\ Return("true") /\ UNCHANGED <<rd, start, bad>>

Body ==
  /\ Running("BODY") /\ ReadableBytes >= request_.body_length
  /\ request_' = [request_ EXCEPT !.body = SubSeq(stream, rd + 1, rd + request_.body_length)]
  /\ rd' = rd + request_.body_length
  /\ state_' = "FINISH"
  /\ Return("true") /\ UNCHANGED <<start, bad>>

(* Mutant: <= for <.                                                       *)
NeedBodyAndMore ==
  /\ Running("BODY") /\ ReadableBytes <= request_.body_length
  /\ Return("false") /\ UNCHANGED <<rd, state_, request_, start, bad>>

NeedBody ==
  /\ Running("BODY") /\ ReadableBytes < request_.body_length
  /\ Return("false") /\ UNCHANGED <<rd, state_, request_, start, bad>>

AlreadyFinished ==
  /\ Running("FINISH")
  /\ Return("true") /\ UNCHANGED <<rd, state_, request_, start, bad>>

Iteration ==
  \/ NeedLine \/ RejectLine \/ RequestLine \/ HeaderLine
  \/ EndWithoutBody \/ EndWithBody \/ EndThrows
  \/ Body \/ NeedBody \/ AlreadyFinished

-----------------------------------------------------------------------------
(* The owner of the context.                                               *)

GotAll == state_ = "FINISH"

(* GetRequest copies request_ out of the context.                          *)
GetRequest ==
  messages' = Append(messages, [from |-> start, to |-> rd, clean |-> ~ bad, request |-> request_])

(* HttpRequest::Swap leaves out request_body_ and body_length_, so Reset   *)
(* leaves them in the context.                                             *)
Swapped(r) == [NewRequest EXCEPT !.body = r.body, !.body_length = r.body_length]

(* Mutant: state_ stays FINISH.                                            *)
ResetRequestOnly ==
  /\ request_' = Swapped(request_)
  /\ UNCHANGED state_

Reset ==
  /\ state_' = "REQUEST_LINE"
  /\ request_' = Swapped(request_)

TakeRequest ==
  /\ ret = "true" /\ GotAll
  /\ GetRequest
  /\ Reset
  /\ ret' = "none"
  /\ UNCHANGED <<stream, rd, start, bad>>

Next ==
  \/ \E u \in Alphabet : Receive(u)
  \/ ParseRequest
  \/ Iteration
  \/ TakeRequest

(* The loop of ParseRequest runs on: no step of it waits.                  *)
Spec == Init /\ [][Next]_vars /\ WF_vars(Iteration)

-----------------------------------------------------------------------------
(* Properties.                                                             *)

HasBody(r) == GetHeader(r.headers, "Content-Length") # ""

(* Types of the parser's state, with what each state of the loop already   *)
(* knows: in BODY the length has been set by this request's own header, so *)
(* the uninitialized body_length_ is never read.                           *)
TypeOK ==
  /\ stream \in Seq(Alphabet) /\ Len(stream) <= MaxLen
  /\ rd \in 0 .. Len(stream) /\ start \in 0 .. rd
  /\ state_ \in States /\ ret \in Outcomes /\ bad \in BOOLEAN
  /\ request_ \in Requests
  /\ state_ = "BODY" =>
       request_.body_length = Stoul[content_length] /\ request_.body_length # Unset
  /\ messages \in Seq([from : Nat, to : Nat, clean : BOOLEAN, request : Requests])

(* http_context.cpp:27,43,68: every byte belongs to one request at most.   *)
(* The requests handed out occupy disjoint, nonempty, increasing stretches *)
(* of what has been retrieved, however the calls cut the stream.           *)
EachByteOnce ==
  /\ \A i \in 1 .. Len(messages) :
       messages[i].from < messages[i].to /\ messages[i].to <= rd
  /\ \A i, j \in 1 .. Len(messages) :
       i < j => messages[i].to <= messages[j].from

(* http_context.cpp:65-72: a request that announced a body carries exactly *)
(* the units that stand before its end in the stream, as many as announced.*)
BodyIsSlice ==
  \A i \in 1 .. Len(messages) :
    LET m == messages[i]
        n == m.request.body_length
    IN  HasBody(m.request) =>
          /\ n = Stoul[GetHeader(m.request.headers, "Content-Length")]
          /\ m.from + n < m.to
          /\ m.request.body = SubSeq(stream, m.to - n + 1, m.to)

(* http_context.cpp:34,59,75: when ParseRequest returns false on a stream  *)
(* without a malformed line, the message is really incomplete: nothing the *)
(* buffer already holds was overlooked.                                    *)
LastTaken == IF messages = <<>> THEN 0 ELSE messages[Len(messages)].to

Map(m) ==
  [from |-> m.from, to |-> m.to, method |-> m.request.method,
   version |-> m.request.version, headers |-> m.request.headers,
   body |-> IF HasBody(m.request) THEN m.request.body ELSE <<>>]

CleanMessages ==
  LET clean == {i \in 1 .. Len(messages) : messages[i].clean}
  IN  [i \in clean |-> Map(messages[i])]

Framing == INSTANCE HttpFraming WITH taken <- CleanMessages, rejected <- bad

FalseMeansIncomplete ==
  ret = "false" /\ ~ bad =>
    ~ Framing!Complete(stream, LastTaken) /\ ~ Framing!Malformed(stream, LastTaken)

(* The requests a context hands out before the first malformed message are *)
(* those the stream means, whatever the reads were: the parser implements  *)
(* HttpFraming (the stale body is left to NoStaleBody).                    *)
ImplementsFraming == Framing!Spec

(* http_context.cpp:15-75: nothing retrieved is read again, and the loop   *)
(* runs on only after it has retrieved something from a buffer that does   *)
(* not grow meanwhile: a call takes at most one iteration more than there  *)
(* are units to read.                                                      *)
ParseAdvances ==
  [][/\ rd <= rd'
     /\ ret = "running" /\ ret' = "running" => rd < rd' /\ stream' = stream]_vars

(* http_context.cpp:15: the while (true) of ParseRequest always ends.      *)
ParseReturns == (ret = "running") ~> (ret # "running")

(* http_context.cpp:50 ("no Content-Length means that there is no body"):  *)
(* a request handed out without a Content-Length has an empty body.        *)
NoStaleBody ==
  \A i \in 1 .. Len(messages) :
    ~ HasBody(messages[i].request) => messages[i].request.body = <<>>

=============================================================================
