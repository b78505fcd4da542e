---------------------------- MODULE ServingProofs ---------------------------
(***************************************************************************)
(* HttpServer implements HttpServing: seen from the peer, the answers are  *)
(* those of the messages that the stream means, in their order.  And a     *)
(* peer that sends one whole request at a time is told that the parser     *)
(* failed only after a malformed message, and is never left waiting with a *)
(* whole request in the buffer and no read event to come.                  *)
(*                                                                         *)
(* While the connection is open its context is the one of FramingProofs:   *)
(* Parser!FInv holds of it.  A parser that met a malformed message has     *)
(* returned false or thrown, and OnMessage then closes the connection.     *)
(***************************************************************************)
EXTENDS HttpServerProofs

-----------------------------------------------------------------------------
(* The instances of HttpFraming say the same.                              *)

LEMMA SameFraming ==
  \A s, p : /\ Ctx!Framing!Complete(s, p) <=> Parser!Framing!Complete(s, p)
            /\ Ctx!Framing!Malformed(s, p) <=> Parser!Framing!Malformed(s, p)
            /\ Ctx!Framing!Message(s, p) = Parser!Framing!Message(s, p)
<1>1. \A S : Ctx!Framing!Least(S) = Parser!Framing!Least(S)
  BY DEF Ctx!Framing!Least, Parser!Framing!Least
<1>2. \A s, p : Ctx!Framing!Breaks(s, p) = Parser!Framing!Breaks(s, p)
  BY DEF Ctx!Framing!Breaks, Parser!Framing!Breaks
<1>3. \A s, p, i : Ctx!Framing!LineAt(s, p, i) = Parser!Framing!LineAt(s, p, i)
  BY DEF Ctx!Framing!LineAt, Parser!Framing!LineAt, Ctx!Framing!LineStart, Parser!Framing!LineStart
<1>4. \A s, p : Ctx!Framing!EmptyLines(s, p) = Parser!Framing!EmptyLines(s, p)
  BY <1>2 DEF Ctx!Framing!EmptyLines, Parser!Framing!EmptyLines
<1>5. \A s, p : /\ Ctx!Framing!HasHead(s, p) <=> Parser!Framing!HasHead(s, p)
                /\ Ctx!Framing!EndOfHead(s, p) = Parser!Framing!EndOfHead(s, p)
  BY <1>1, <1>4 DEF Ctx!Framing!HasHead, Parser!Framing!HasHead, Ctx!Framing!EndOfHead, Parser!Framing!EndOfHead
<1>6. \A s, p : Ctx!Framing!HeaderBreaks(s, p) = Parser!Framing!HeaderBreaks(s, p)
  BY <1>1, <1>2, <1>5 DEF Ctx!Framing!HeaderBreaks, Parser!Framing!HeaderBreaks
<1>7. \A l, h, k :
        /\ Ctx!Framing!ParseRequestLine(l) <=> Parser!Framing!ParseRequestLine(l)
        /\ Ctx!Framing!ParseHeaderLine(l) <=> Parser!Framing!ParseHeaderLine(l)
        /\ Ctx!Framing!MethodOf(l) = Parser!Framing!MethodOf(l) /\ Ctx!Framing!VersionOf(l) = Parser!Framing!VersionOf(l)
        /\ Ctx!Framing!KeyOf(l) = Parser!Framing!KeyOf(l) /\ Ctx!Framing!ValueOf(l) = Parser!Framing!ValueOf(l)
        /\ Ctx!Framing!GetHeader(h, k) = Parser!Framing!GetHeader(h, k)
  BY DEF Ctx!Framing!ParseRequestLine, Parser!Framing!ParseRequestLine, Ctx!Framing!ParseHeaderLine,
     Parser!Framing!ParseHeaderLine, Ctx!Framing!MethodOf, Parser!Framing!MethodOf, Ctx!Framing!SetMethod,
     Parser!Framing!SetMethod, Ctx!Framing!VersionOf, Parser!Framing!VersionOf, Ctx!Framing!KeyOf,
     Parser!Framing!KeyOf, Ctx!Framing!ValueOf, Parser!Framing!ValueOf, Ctx!Framing!GetHeader, Parser!Framing!GetHeader
<1>8. \A s, p : Ctx!Framing!Headers(s, p) = Parser!Framing!Headers(s, p)
  BY <1>1, <1>3, <1>6, <1>7 DEF Ctx!Framing!Headers, Parser!Framing!Headers
<1>9. \A s, p : Ctx!Framing!BodyLength(s, p) = Parser!Framing!BodyLength(s, p)
  BY <1>7, <1>8 DEF Ctx!Framing!BodyLength, Parser!Framing!BodyLength, Ctx!Framing!ContentLength,
     Parser!Framing!ContentLength
<1>10. \A s, p : Ctx!Framing!Malformed(s, p) <=> Parser!Framing!Malformed(s, p)
  BY <1>1, <1>2, <1>3, <1>5, <1>6, <1>7, <1>9 DEF Ctx!Framing!Malformed, Parser!Framing!Malformed
<1>11. \A s, p : Ctx!Framing!Complete(s, p) <=> Parser!Framing!Complete(s, p)
  BY <1>5, <1>9, <1>10 DEF Ctx!Framing!Complete, Parser!Framing!Complete
<1>12. \A s, p : Ctx!Framing!Message(s, p) = Parser!Framing!Message(s, p)
  BY <1>1, <1>2, <1>3, <1>5, <1>7, <1>8, <1>9 DEF Ctx!Framing!Message, Parser!Framing!Message
<1> QED  BY <1>10, <1>11, <1>12

LEMMA SameServing ==
  \A s, p : /\ Serving!Framing!Complete(s, p) <=> Parser!Framing!Complete(s, p)
            /\ Serving!Framing!Malformed(s, p) <=> Parser!Framing!Malformed(s, p)
            /\ Serving!Framing!Message(s, p) = Parser!Framing!Message(s, p)
<1>1. \A S : Serving!Framing!Least(S) = Parser!Framing!Least(S)
  BY DEF Serving!Framing!Least, Parser!Framing!Least
<1>2. \A s, p : Serving!Framing!Breaks(s, p) = Parser!Framing!Breaks(s, p)
  BY DEF Serving!Framing!Breaks, Parser!Framing!Breaks
<1>3. \A s, p, i : Serving!Framing!LineAt(s, p, i) = Parser!Framing!LineAt(s, p, i)
  BY DEF Serving!Framing!LineAt, Parser!Framing!LineAt, Serving!Framing!LineStart, Parser!Framing!LineStart
<1>4. \A s, p : Serving!Framing!EmptyLines(s, p) = Parser!Framing!EmptyLines(s, p)
  BY <1>2 DEF Serving!Framing!EmptyLines, Parser!Framing!EmptyLines
<1>5. \A s, p : /\ Serving!Framing!HasHead(s, p) <=> Parser!Framing!HasHead(s, p)
                /\ Serving!Framing!EndOfHead(s, p) = Parser!Framing!EndOfHead(s, p)
  BY <1>1, <1>4 DEF Serving!Framing!HasHead, Parser!Framing!HasHead, Serving!Framing!EndOfHead, Parser!Framing!EndOfHead
<1>6. \A s, p : Serving!Framing!HeaderBreaks(s, p) = Parser!Framing!HeaderBreaks(s, p)
  BY <1>1, <1>2, <1>5 DEF Serving!Framing!HeaderBreaks, Parser!Framing!HeaderBreaks
<1>7. \A l, h, k :
        /\ Serving!Framing!ParseRequestLine(l) <=> Parser!Framing!ParseRequestLine(l)
        /\ Serving!Framing!ParseHeaderLine(l) <=> Parser!Framing!ParseHeaderLine(l)
        /\ Serving!Framing!MethodOf(l) = Parser!Framing!MethodOf(l) /\ Serving!Framing!VersionOf(l) = Parser!Framing!VersionOf(l)
        /\ Serving!Framing!KeyOf(l) = Parser!Framing!KeyOf(l) /\ Serving!Framing!ValueOf(l) = Parser!Framing!ValueOf(l)
        /\ Serving!Framing!GetHeader(h, k) = Parser!Framing!GetHeader(h, k)
  BY DEF Serving!Framing!ParseRequestLine, Parser!Framing!ParseRequestLine, Serving!Framing!ParseHeaderLine,
     Parser!Framing!ParseHeaderLine, Serving!Framing!MethodOf, Parser!Framing!MethodOf, Serving!Framing!SetMethod,
     Parser!Framing!SetMethod, Serving!Framing!VersionOf, Parser!Framing!VersionOf, Serving!Framing!KeyOf,
     Parser!Framing!KeyOf, Serving!Framing!ValueOf, Parser!Framing!ValueOf, Serving!Framing!GetHeader, Parser!Framing!GetHeader
<1>8. \A s, p : Serving!Framing!Headers(s, p) = Parser!Framing!Headers(s, p)
  BY <1>1, <1>3, <1>6, <1>7 DEF Serving!Framing!Headers, Parser!Framing!Headers
<1>9. \A s, p : Serving!Framing!BodyLength(s, p) = Parser!Framing!BodyLength(s, p)
  BY <1>7, <1>8 DEF Serving!Framing!BodyLength, Parser!Framing!BodyLength, Serving!Framing!ContentLength,
     Parser!Framing!ContentLength
<1>10. \A s, p : Serving!Framing!Malformed(s, p) <=> Parser!Framing!Malformed(s, p)
  BY <1>1, <1>2, <1>3, <1>5, <1>6, <1>7, <1>9 DEF Serving!Framing!Malformed, Parser!Framing!Malformed
<1>11. \A s, p : Serving!Framing!Complete(s, p) <=> Parser!Framing!Complete(s, p)
  BY <1>5, <1>9, <1>10 DEF Serving!Framing!Complete, Parser!Framing!Complete
<1>12. \A s, p : Serving!Framing!Message(s, p) = Parser!Framing!Message(s, p)
  BY <1>1, <1>2, <1>3, <1>5, <1>7, <1>8, <1>9 DEF Serving!Framing!Message, Parser!Framing!Message
<1> QED  BY <1>10, <1>11, <1>12

-----------------------------------------------------------------------------
(* The invariant.  Trusted: the context of an open connection.  Untouched: *)
(* the one of a connection that is not up yet.  Asked: a peer that waits   *)
(* for its answers has a request parsed only when it is whole.             *)

Open == conn \in {"connecting", "connected"}

Trusted ==
  Open => /\ Parser!FInv
          /\ bad => ret \in {"false", "throw"}

Untouched == conn = "connecting" => rd = 0 /\ ~ bad

Thrown == ret = "throw" => bad

Asked == StopAndWait /\ conn = "connected" /\ ~ Idle => Settled

SInv ==
  /\ IInv /\ Trusted /\ Untouched /\ Thrown /\ Asked
  /\ StopAndWait => RejectOnlyMalformed

(* Whatever is sent, the earlier answers stay.                             *)
LEMMA OneMore ==
  ASSUME TypeOK, NEW a, Send(<<a>>), NEW i \in 1 .. Len(out')
  PROVE  \/ i \in 1 .. Len(out) /\ out[i] = out'[i]
         \/ out'[i] = a /\ conn = "connected"
<1>1. out \in Seq(Answers) /\ Len(out) \in Nat
  BY StateFacts
<1>2. CASE conn = "connected"
  <2>1. out \in Seq(Answers \cup {a}) /\ <<a>> \in Seq(Answers \cup {a})
    BY <1>1
  <2>2. /\ Len(out') = Len(out) + 1
        /\ \A j \in 1 .. Len(out) : out'[j] = out[j]
        /\ out'[Len(out) + 1] = a
    BY <1>1, <1>2, <2>1 DEF Send
  <2> QED  BY <1>1, <1>2, <2>2
<1>3. CASE conn # "connected"
  <2>1. out' = out
    BY <1>3, Zenon DEF Send
  <2> QED  BY <2>1, Zenon
<1> QED  BY <1>2, <1>3

(* A step that leaves the connection open is one of the parser's.          *)
LEMMA ParserStep ==
  ASSUME IInv, \/ \E u \in Alphabet : Arrive(u)
               \/ OnMessage \/ ParseStep
               \/ \E o \in CallbackOutcomes : OnParsed(o)
  PROVE  Parser!Next
<1>1. CASE \E u \in Alphabet : Arrive(u)
  BY <1>1 DEF Arrive, Ctx!Receive, Parser!Receive, Ctx!MayFollow, Parser!MayFollow, Parser!Next
<1>2. CASE OnMessage
  BY <1>2 DEF OnMessage, Ctx!ParseRequest, Parser!ParseRequest, Parser!Next
<1>3. CASE ParseStep
  BY <1>3, SameIteration DEF ParseStep, Parser!Next
<1>4. CASE \E o \in CallbackOutcomes : OnParsed(o)
  <2>1. PICK o \in CallbackOutcomes : OnParsed(o)
    BY <1>4
  <2>2. state_ = "FINISH"
    BY <2>1 DEF IInv, Finished, OnParsed
  <2>3. Parser!TakeRequest
    BY <2>1, <2>2 DEF OnParsed, Ctx!GetRequest, Parser!GetRequest, Ctx!Reset, Parser!Reset,
       Ctx!Swapped, Parser!Swapped, Ctx!NewRequest, Parser!NewRequest, Ctx!Unset, Parser!Unset,
       Parser!TakeRequest, Parser!GotAll
  <2> QED  BY <2>3 DEF Parser!Next
<1> QED  BY <1>1, <1>2, <1>3, <1>4

LEMMA ParserFInv ==
  ASSUME Parser!FInv, Parser!Next
  PROVE  Parser!FInv'
BY Parser!NextFInv, ParserAssumptions DEF Parser!WellFormed

LEMMA SettledKept ==
  ASSUME UNCHANGED <<stream, messages>>
  PROVE  Settled' = Settled
BY DEF Settled, Ctx!LastTaken, Ctx!Framing!Complete, Ctx!Framing!Malformed,
   Ctx!Framing!HasHead, Ctx!Framing!EmptyLines, Ctx!Framing!Breaks, Ctx!Framing!EndOfHead,
   Ctx!Framing!Least, Ctx!Framing!BodyLength, Ctx!Framing!ContentLength, Ctx!Framing!Headers,
   Ctx!Framing!HeaderBreaks, Ctx!Framing!LineAt, Ctx!Framing!LineStart

LEMMA InitSInv == Init => SInv
<1> SUFFICES ASSUME Init PROVE SInv
  OBVIOUS
<1>1. IInv
  BY InitIInv
<1>2. Parser!Init /\ rd = 0 /\ ~ bad /\ ret = "none" /\ out = <<>> /\ Len(out) = 0
  BY DEF Init, Ctx!Init, Parser!Init, Ctx!NewRequest, Parser!NewRequest, Ctx!Unset, Parser!Unset
<1>3. Parser!FInv
  BY <1>2, Parser!InitFInv, ParserAssumptions DEF Parser!WellFormed
<1> QED
  BY <1>1, <1>2, <1>3 DEF SInv, Trusted, Untouched, Thrown, Asked, Idle, RejectOnlyMalformed

(* The parser marks the stream bad exactly when it returns or throws.      *)
LEMMA IterationBad ==
  ASSUME Ctx!Iteration
  PROVE  /\ ret = "running" /\ (bad => bad')
         /\ bad' => bad \/ ret' \in {"false", "throw"}
         /\ ret' = "throw" => bad'
<1>1. CASE Ctx!RejectLine \/ Ctx!EndThrows
  BY <1>1 DEF Ctx!RejectLine, Ctx!EndThrows, Ctx!AtEmptyLine, Ctx!Running, Ctx!Return
<1>2. CASE ~ (Ctx!RejectLine \/ Ctx!EndThrows)
  <2>1. ret = "running" /\ bad' = bad /\ ret' # "throw"
    BY <1>2 DEF Ctx!Iteration, Ctx!NeedLine, Ctx!RequestLine, Ctx!HeaderLine,
       Ctx!EndWithoutBody, Ctx!EndWithBody, Ctx!AtEmptyLine, Ctx!Body,
       Ctx!NeedBody, Ctx!AlreadyFinished, Ctx!Running, Ctx!Return, Ctx!Continue
  <2> QED  BY <2>1
<1> QED  BY <1>1, <1>2

LEMMA ArriveSInv ==
  ASSUME SInv, NEW u \in Alphabet, Arrive(u)
  PROVE  SInv'
<1>1. IInv'
  BY ArriveIInv DEF SInv
<1>2. /\ ret = "none" /\ ret' = "none" /\ UNCHANGED <<conn, bad, rd, out>>
      /\ conn # "connecting"
  BY DEF Arrive, Idle, Ctx!Receive
<1>3. Open => Parser!FInv'
  BY ParserStep, ParserFInv DEF SInv, Trusted
<1> QED
  BY <1>1, <1>2, <1>3 DEF SInv, Trusted, Untouched, Thrown, Asked, Idle, Open,
     RejectOnlyMalformed, BadRequest

LEMMA OnConnectionUpSInv ==
  ASSUME SInv, OnConnectionUp
  PROVE  SInv'
<1>1. IInv' /\ Parser!TypeOK'
  <2>1. IInv'
    BY OnConnectionUpIInv DEF SInv
  <2>2. Ctx!TypeOK' <=> Parser!TypeOK'
    BY SameTypeOK, PTL
  <2> QED  BY <2>1, <2>2 DEF IInv, TypeOK
<1>2. /\ state_' = "REQUEST_LINE" /\ request_' = Ctx!NewRequest /\ conn' = "connected"
      /\ UNCHANGED <<out, bad>>
      /\ ret' = "none" /\ messages' = <<>> /\ Len(messages') = 0 /\ rd' = 0 /\ ~ bad'
  BY DEF OnConnectionUp, SInv, IInv, Connecting, Untouched, Idle
<1>3. DOMAIN request_'.headers = {}
  BY <1>2 DEF Ctx!NewRequest
<1>4. Parser!Reading' /\ Parser!Starving'
  BY <1>2, <1>3 DEF Parser!Reading, Parser!Lines, Parser!Starving
<1>5. Parser!Position'
  BY <1>2 DEF Parser!Position, Parser!LastTaken
<1> QED
  BY <1>1, <1>2, <1>4, <1>5 DEF SInv, Trusted, Untouched, Thrown, Asked, Idle, Parser!FInv,
     RejectOnlyMalformed, BadRequest

LEMMA OnConnectionDownSInv ==
  ASSUME SInv, OnConnectionDown
  PROVE  SInv'
<1>1. IInv'
  BY OnConnectionDownIInv DEF SInv
<1>2. conn' = "down" /\ UNCHANGED <<ret, bad, out>>
  BY DEF OnConnectionDown, context
<1> QED
  BY <1>1, <1>2 DEF SInv, Trusted, Untouched, Thrown, Asked, Open, RejectOnlyMalformed, BadRequest

LEMMA OnMessageSInv ==
  ASSUME SInv, OnMessage
  PROVE  SInv'
<1>1. IInv'
  BY OnMessageIInv DEF SInv
<1>2. /\ ret = "none" /\ ret' = "running" /\ UNCHANGED <<stream, messages, conn, bad, out>>
      /\ conn # "connecting" /\ (StopAndWait => Settled)
  BY DEF OnMessage, Idle, Ctx!ParseRequest
<1>3. Open => Parser!FInv'
  BY ParserStep, ParserFInv DEF SInv, Trusted
<1>4. Settled' = Settled
  BY <1>2, SettledKept
<1> QED
  BY <1>1, <1>2, <1>3, <1>4 DEF SInv, Trusted, Untouched, Thrown, Asked, Idle, Open,
     RejectOnlyMalformed, BadRequest

LEMMA ParseStepSInv ==
  ASSUME SInv, ParseStep
  PROVE  SInv'
<1>1. IInv'
  BY ParseStepIInv DEF SInv
<1>2. UNCHANGED <<stream, messages, conn, out>>
  BY IterationFacts DEF ParseStep, SInv, IInv, TypeOK
<1>3. Open => Parser!FInv'
  BY ParserStep, ParserFInv DEF SInv, Trusted
<1>4. Settled' = Settled
  BY <1>2, SettledKept
<1>5. /\ ret = "running" /\ (bad => bad')
      /\ bad' => bad \/ ret' \in {"false", "throw"}
      /\ ret' = "throw" => bad'
  BY IterationBad DEF ParseStep
<1>6. conn # "connecting"
  BY <1>5 DEF SInv, IInv, Connecting, Idle
<1>7. Trusted'
  BY <1>2, <1>3, <1>5 DEF SInv, Trusted, Open
<1>8. StopAndWait => RejectOnlyMalformed'
  BY <1>2, <1>5 DEF SInv, RejectOnlyMalformed, BadRequest
<1> QED
  BY <1>1, <1>2, <1>4, <1>5, <1>6, <1>7, <1>8 DEF SInv, Untouched, Thrown, Asked, Idle

LEMMA OnParsedSInv ==
  ASSUME SInv, NEW o \in CallbackOutcomes, OnParsed(o)
  PROVE  SInv'
<1> DEFINE a == [status |-> "answer", id |-> start, close |-> CloseFlag(o, WantsClose(request_))]
<1>1. IInv'
  BY OnParsedIInv DEF SInv
<1>2. /\ ret = "true" /\ ret' = "none" /\ bad' = bad /\ Send(<<a>>)
      /\ conn' \in {conn, "disconnecting"}
  BY DEF OnParsed, OnRequest, Shutdown
<1>3. a.status = "answer"
  OBVIOUS
<1> HIDE DEF a
<1>4. conn # "connecting"
  BY <1>2 DEF SInv, IInv, Connecting, Idle
<1>5. Trusted'
  <2>1. Open => Parser!FInv'
    BY ParserStep, ParserFInv DEF SInv, Trusted
  <2> QED  BY <1>2, <2>1 DEF SInv, Trusted, Open
<1>6. StopAndWait => RejectOnlyMalformed'
  <2> SUFFICES ASSUME StopAndWait, NEW i \in 1 .. Len(out'), out'[i] = BadRequest(-1) PROVE bad
    BY <1>2 DEF RejectOnlyMalformed, BadRequest
  <2>1. i \in 1 .. Len(out) /\ out[i] = out'[i]
    BY <1>2, <1>3, OneMore DEF SInv, IInv, BadRequest
  <2> QED  BY <2>1 DEF SInv, RejectOnlyMalformed
<1> QED
  BY <1>1, <1>2, <1>4, <1>5, <1>6 DEF SInv, Untouched, Thrown, Asked, Idle

(* The three ways out of OnMessage that reject.                            *)
LEMMA RejectSInv ==
  ASSUME SInv, IInv', ret # "none", NEW about, Reject(about), bad' = bad,
         about = -1 /\ StopAndWait /\ conn = "connected" => bad
  PROVE  SInv'
<1> DEFINE a == BadRequest(about)
<1>1. Send(<<a>>) /\ ret' = "none" /\ conn # "connecting" /\ conn' \notin {"connecting", "connected"}
  BY DEF Reject, Shutdown, SInv, IInv, Connecting, Idle
<1>2. a.id = about /\ BadRequest(-1).id = -1
  BY DEF BadRequest
<1> HIDE DEF a
<1>3. StopAndWait => RejectOnlyMalformed'
  <2> SUFFICES ASSUME StopAndWait, NEW i \in 1 .. Len(out'), out'[i] = BadRequest(-1) PROVE bad
    BY DEF RejectOnlyMalformed, BadRequest
  <2>1. CASE i \in 1 .. Len(out) /\ out[i] = out'[i]
    BY <2>1 DEF SInv, RejectOnlyMalformed
  <2>2. CASE out'[i] = a /\ conn = "connected"
    BY <1>2, <2>2
  <2> QED  BY <1>1, <2>1, <2>2, OneMore DEF SInv, IInv
<1> QED
  BY <1>1, <1>3 DEF SInv, Trusted, Untouched, Thrown, Asked, Idle, Open

(* false is returned to a waiting peer only when what it sent is whole, so *)
(* it is malformed.                                                        *)
LEMMA RejectedIsBad ==
  ASSUME SInv, ret = "false", StopAndWait, conn = "connected"
  PROVE  bad
<1>1. Settled /\ Parser!FInv
  BY DEF SInv, Asked, Trusted, Idle, Open
<1>2. Parser!FalseMeansIncomplete
  BY <1>1, Parser!StarvesIncomplete, ParserAssumptions DEF Parser!WellFormed
<1>3. Ctx!LastTaken = Parser!LastTaken
  BY DEF Ctx!LastTaken, Parser!LastTaken
<1> QED
  BY <1>1, <1>2, <1>3, SameFraming DEF Settled, Parser!FalseMeansIncomplete

LEMMA NextSInv == SInv /\ [Next]_vars => SInv'
<1> SUFFICES ASSUME SInv, [Next]_vars PROVE SInv'
  OBVIOUS
<1>1. IInv'
  BY NextIInv DEF SInv
<1>2. ASSUME NEW u \in Alphabet, Arrive(u) PROVE SInv'
  BY <1>2, ArriveSInv
<1>3. CASE OnConnectionUp \/ OnConnectionDown
  BY <1>3, OnConnectionUpSInv, OnConnectionDownSInv
<1>4. CASE OnMessage \/ ParseStep
  BY <1>4, OnMessageSInv, ParseStepSInv
<1>5. CASE OnRejected \/ OnThrow
  <2>1. ret # "none" /\ Reject(-1) /\ bad' = bad
    BY <1>5 DEF OnRejected, OnThrow
  <2>2. StopAndWait /\ conn = "connected" => bad
    BY <1>5, RejectedIsBad DEF OnRejected, OnThrow, SInv, Thrown
  <2> QED  BY <1>1, <2>1, <2>2, RejectSInv
<1>6. CASE OnCallbackThrow
  <2>1. ret # "none" /\ Reject(start) /\ bad' = bad /\ start # -1
    BY <1>6, StateFacts DEF OnCallbackThrow, SInv, IInv
  <2> QED  BY <1>1, <2>1, RejectSInv
<1>7. ASSUME NEW o \in CallbackOutcomes, OnParsed(o) PROVE SInv'
  BY <1>7, OnParsedSInv
<1>8. CASE UNCHANGED vars
  <2>1. /\ UNCHANGED <<stream, rd, state_, request_, ret, start, messages, bad>>
        /\ UNCHANGED <<conn, out>>
    BY <1>8 DEF vars, context
  <2>2. Parser!FInv => Parser!FInv'
    BY <2>1, Parser!NextFInv, ParserAssumptions DEF Parser!WellFormed, Parser!vars
  <2>3. Settled' = Settled
    BY <2>1, SettledKept
  <2> QED
    BY <1>1, <2>1, <2>2, <2>3 DEF SInv, Trusted, Untouched, Thrown, Asked, Idle, Open,
       RejectOnlyMalformed, BadRequest
<1> QED  BY <1>2, <1>3, <1>4, <1>5, <1>6, <1>7, <1>8 DEF Next, Loop

LEMMA AlwaysSInv == Spec => []SInv
BY InitSInv, NextSInv, PTL DEF Spec

(* A peer that sends a whole request and waits for its answer is told that *)
(* the parser failed only after a malformed message                        *)
(* (http_server.cpp:131-135).                                              *)
THEOREM WaitingPeerIsParsed == Spec => [](StopAndWait => RejectOnlyMalformed)
<1>1. SInv => (StopAndWait => RejectOnlyMalformed)
  BY DEF SInv
<1> QED  BY <1>1, AlwaysSInv, PTL

-----------------------------------------------------------------------------
(* Nothing is left behind.  SettledIsReported is inductive only with what  *)
(* a waiting peer has sent: Exact, a request of its is completed by the    *)
(* last unit that arrived, so that serving it leaves the buffer empty; and *)
(* Silent, nothing arrives before the connection is up.                    *)

Exact ==
  StopAndWait /\ conn = "connected" /\ Parser!Framing!Complete(stream, Parser!LastTaken) =>
    Parser!Framing!Message(stream, Parser!LastTaken).to = Len(stream)

Silent == conn = "connecting" => stream = <<>>

WInv == SInv /\ Exact /\ Silent /\ (StopAndWait => SettledIsReported)

LEMMA SettledIs ==
  Settled <=> \/ Parser!Framing!Complete(stream, Parser!LastTaken)
              \/ Parser!Framing!Malformed(stream, Parser!LastTaken)
BY SameFraming DEF Settled, Ctx!LastTaken, Parser!LastTaken

LEMMA MeaningNext ==
  /\ Settled' <=> \/ Parser!Framing!Complete(stream', Parser!LastTaken')
                  \/ Parser!Framing!Malformed(stream', Parser!LastTaken')
  /\ Exact' <=>
       (StopAndWait /\ conn' = "connected"
          /\ Parser!Framing!Complete(stream', Parser!LastTaken') =>
        Parser!Framing!Message(stream', Parser!LastTaken').to = Len(stream'))
<1>1. Settled' <=> (\/ Parser!Framing!Complete(stream, Parser!LastTaken)
                    \/ Parser!Framing!Malformed(stream, Parser!LastTaken))'
  BY SettledIs, PTL
<1> QED  BY <1>1 DEF Exact

LEMMA LastTakenType ==
  ASSUME TypeOK
  PROVE  Parser!LastTaken \in Nat /\ stream \in Seq(Alphabet)
<1>1. stream \in Seq(Alphabet)
  BY DEF TypeOK, Ctx!TypeOK
<1>2. CASE messages = <<>>
  BY <1>1, <1>2 DEF Parser!LastTaken
<1>3. CASE messages # <<>>
  <2>1. Len(messages) \in 1 .. Len(messages)
    BY <1>3, StateFacts, EmptySeq
  <2> QED  BY <1>1, <1>3, <2>1, StateFacts DEF Parser!LastTaken
<1> QED  BY <1>2, <1>3

(* A buffer that has been taken to its end asks for nothing.               *)
LEMMA TakenToTheEnd ==
  ASSUME stream' \in Seq(Alphabet), Parser!LastTaken' = Len(stream')
  PROVE  ~ Settled' /\ Exact'
<1>1. /\ ~ Parser!Framing!Complete(stream', Len(stream'))
      /\ ~ Parser!Framing!Malformed(stream', Len(stream'))
  BY Parser!NothingBehind, ParserAssumptions DEF Parser!WellFormed
<1> QED  BY <1>1, MeaningNext

(* What a waiting peer sends next completes its request or leaves it open. *)
LEMMA ArriveExact ==
  ASSUME WInv, NEW u \in Alphabet, Arrive(u)
  PROVE  Exact'
<1> SUFFICES ASSUME StopAndWait, Parser!Framing!Complete(stream', Parser!LastTaken')
             PROVE  Parser!Framing!Message(stream', Parser!LastTaken').to = Len(stream')
  BY MeaningNext
<1>1. /\ stream' = Append(stream, u) /\ messages' = messages /\ ~ Settled
  BY DEF Arrive, Ctx!Receive
<1>2. Parser!LastTaken' = Parser!LastTaken
  BY <1>1 DEF Parser!LastTaken
<1>3. Parser!LastTaken \in Nat /\ stream \in Seq(Alphabet)
  BY LastTakenType DEF WInv, SInv, IInv
<1>4. /\ ~ Parser!Framing!Complete(stream, Parser!LastTaken)
      /\ ~ Parser!Framing!Malformed(stream, Parser!LastTaken)
  BY <1>1, SettledIs
<1> QED
  BY <1>1, <1>2, <1>3, <1>4, Parser!CompletedByLast, ParserAssumptions DEF Parser!WellFormed

(* OnMessage on a connection it leaves open: the whole buffer is taken.    *)
LEMMA ServedToTheEnd ==
  ASSUME WInv, StopAndWait, NEW o \in CallbackOutcomes, OnParsed(o), conn' = "connected"
  PROVE  stream' \in Seq(Alphabet) /\ Parser!LastTaken' = Len(stream')
<1> DEFINE m == [from |-> start, to |-> rd, clean |-> ~ bad, request |-> request_]
<1>1. /\ ret = "true" /\ Ctx!GetRequest /\ stream' = stream
  BY DEF OnParsed
<1>2. conn = "connected"
  <2>1. conn' \in {conn, "disconnecting"}
    BY DEF OnParsed, OnRequest, Shutdown
  <2> QED  BY <2>1
<1>3. IInv /\ TypeOK /\ state_ = "FINISH"
  BY <1>1 DEF WInv, SInv, IInv, Finished
<1>4. Parser!FInv /\ ~ bad
  BY <1>1, <1>2 DEF WInv, SInv, Trusted, Open
<1>5. Parser!TypeOK /\ Parser!Lines /\ Parser!LastTaken = start
  BY <1>3, <1>4 DEF Parser!FInv, Parser!Reading, Parser!Position
<1>6. /\ Parser!Framing!Complete(stream, start)
      /\ Parser!Framing!Message(stream, start) = Parser!Map(m)
  BY <1>3, <1>5, Parser!MeaningOfFinished, ParserAssumptions DEF Parser!WellFormed
<1>7. Len(stream) = rd
  <2>1. Parser!Framing!Message(stream, start).to = Len(stream)
    BY <1>2, <1>5, <1>6 DEF WInv, Exact
  <2>2. Parser!Map(m).to = rd
    BY DEF Parser!Map
  <2> QED  BY <1>6, <2>1, <2>2
<1>8. /\ messages' \in Seq(Message) /\ Len(messages') = Len(messages) + 1
      /\ messages'[Len(messages) + 1].to = rd
  BY <1>1, <1>3, HandsOut
<1>9. Len(messages) \in Nat /\ messages' # <<>>
  BY <1>3, <1>8, StateFacts, EmptySeq
<1>10. Parser!LastTaken' = rd
  BY <1>8, <1>9 DEF Parser!LastTaken
<1> QED  BY <1>1, <1>3, <1>7, <1>10, LastTakenType

LEMMA NextWInv == WInv /\ [Next]_vars => WInv'
<1> SUFFICES ASSUME WInv, [Next]_vars PROVE WInv'
  OBVIOUS
<1>1. SInv /\ SInv' /\ IInv /\ TypeOK
  BY NextSInv DEF WInv, SInv, IInv
<1>2. ASSUME conn' \notin {"connecting", "connected"} PROVE WInv'
  BY <1>1, <1>2, MeaningNext DEF WInv, Silent, SettledIsReported
<1>3. ASSUME UNCHANGED <<stream, messages, conn>>, ~ Idle' \/ UNCHANGED <<fresh, ret>>
      PROVE  WInv'
  <2>1. Settled' = Settled /\ Parser!LastTaken' = Parser!LastTaken
    BY <1>3, SettledKept DEF Parser!LastTaken
  <2>2. Exact'
    BY <1>3, <2>1, MeaningNext DEF WInv, Exact
  <2>3. StopAndWait => SettledIsReported'
    BY <1>3, <2>1 DEF WInv, SettledIsReported, Idle
  <2> QED  BY <1>1, <1>3, <2>2, <2>3 DEF WInv, Silent
<1>4. ASSUME NEW u \in Alphabet, Arrive(u) PROVE WInv'
  <2>1. fresh' = TRUE /\ conn' # "connecting"
    BY <1>4 DEF Arrive
  <2> QED  BY <1>1, <1>4, <2>1, ArriveExact DEF WInv, Silent, SettledIsReported
<1>5. CASE OnConnectionUp
  <2>1. stream' = <<>> /\ messages' = <<>> /\ conn' = "connected"
    BY <1>1, <1>5 DEF OnConnectionUp, WInv, Silent, IInv, Connecting
  <2>2. ~ Settled' /\ Exact'
    BY <2>1, TakenToTheEnd DEF Parser!LastTaken
  <2> QED  BY <1>1, <2>1, <2>2 DEF WInv, Silent, SettledIsReported
<1>6. CASE OnConnectionDown
  BY <1>2, <1>6 DEF OnConnectionDown
<1>7. CASE OnMessage
  BY <1>3, <1>7 DEF OnMessage, Ctx!ParseRequest, Idle
<1>8. CASE ParseStep
  BY <1>1, <1>3, <1>8, IterationFacts DEF ParseStep, TypeOK, Idle
<1>9. ASSUME ret # "none", Shutdown PROVE WInv'
  <2>1. conn # "connecting"
    BY <1>1, <1>9 DEF IInv, Connecting, Idle
  <2> QED  BY <1>2, <1>9, <2>1 DEF Shutdown
<1>10. CASE OnRejected \/ OnThrow \/ OnCallbackThrow
  BY <1>9, <1>10 DEF OnRejected, OnThrow, OnCallbackThrow, Reject
<1>11. ASSUME NEW o \in CallbackOutcomes, OnParsed(o) PROVE WInv'
  <2>1. ret # "none" /\ (Shutdown \/ conn' = conn)
    BY <1>11 DEF OnParsed, OnRequest
  <2>2. conn # "connecting"
    BY <1>1, <2>1 DEF IInv, Connecting, Idle
  <2>3. CASE conn' # "connected"
    BY <1>2, <1>9, <2>1, <2>2, <2>3
  <2>4. CASE conn' = "connected"
    <3>1. StopAndWait => ~ Settled' /\ Exact'
      BY <1>11, <2>4, ServedToTheEnd, TakenToTheEnd
    <3>2. Exact'
      BY <3>1, MeaningNext
    <3> QED  BY <1>1, <2>4, <3>1, <3>2 DEF WInv, Silent, SettledIsReported
  <2> QED  BY <2>3, <2>4
<1>12. CASE UNCHANGED vars
  BY <1>3, <1>12 DEF vars, context
<1> QED
  BY <1>4, <1>5, <1>6, <1>7, <1>8, <1>10, <1>11, <1>12 DEF Next, Loop

(* A peer that sends one whole request at a time is never waited for while *)
(* it waits: on an open, idle connection everything it has completed still *)
(* has a read event to come (http_server.cpp:101-141): the part of         *)
(* Responsive that does not rest on fairness.                              *)
THEOREM NothingIsLeftBehind == Spec => [](StopAndWait => SettledIsReported)
<1>1. Init => WInv
  <2> SUFFICES ASSUME Init PROVE WInv  OBVIOUS
  <2>1. stream = <<>> /\ conn = "connecting"
    BY DEF Init, Ctx!Init
  <2> QED  BY <2>1, InitSInv DEF WInv, Exact, Silent, SettledIsReported
<1>2. WInv => (StopAndWait => SettledIsReported)
  BY DEF WInv
<1> QED  BY <1>1, <1>2, NextWInv, PTL DEF Spec

-----------------------------------------------------------------------------
(* The refinement.                                                         *)

Answered == [i \in Served |-> [message |-> Ctx!Map(messages[i]), close |-> out[i].close]]

(* An answer is about a request that was handed out.                       *)
LEMMA ServedFacts ==
  ASSUME IInv
  PROVE  /\ \A i \in Served : i \in 1 .. Len(out) /\ i \in 1 .. Len(messages)
         /\ Open => Served = 1 .. Len(out) /\ Len(out) = Len(messages)
<1>1. ASSUME NEW i \in Served PROVE i \in 1 .. Len(out) /\ i \in 1 .. Len(messages)
  <2>1. i \in 1 .. Len(out) /\ out[i] # BadRequest(-1)
    BY DEF Served, BadRequest
  <2> QED  BY <2>1, StateFacts DEF IInv, AnswersMatchRequests
<1>2. CASE conn = "connecting"
  <2>1. Len(out) = 0 /\ Len(messages) = 0
    BY <1>2 DEF IInv, Connecting
  <2> QED  BY <1>1, <2>1 DEF Served
<1>3. CASE conn = "connected"
  <2>1. Len(out) = Len(messages) /\ \A i \in 1 .. Len(out) : out[i].id # -1
    BY <1>3, NoneCloses, StateFacts DEF IInv
  <2> QED  BY <1>1, <2>1 DEF Served
<1> QED  BY <1>1, <1>2, <1>3 DEF Open

(* Requests handed out and answers that are about none do not show.        *)
LEMMA AnsweredKept ==
  ASSUME IInv,
         \A i \in 1 .. Len(messages) : messages'[i] = messages[i],
         \A i \in 1 .. Len(out') : \/ i \in 1 .. Len(out) /\ out'[i] = out[i]
                                   \/ out'[i].id = -1 /\ i \notin 1 .. Len(out),
         \A i \in 1 .. Len(out) : i \in 1 .. Len(out') /\ out'[i] = out[i]
  PROVE  Answered' = Answered
<1>1. Served' = Served
  BY DEF Served
<1>2. ASSUME NEW i \in Served
      PROVE  Ctx!Map(messages[i])' = Ctx!Map(messages[i]) /\ out'[i] = out[i]
  <2>1. i \in 1 .. Len(out) /\ i \in 1 .. Len(messages)
    BY ServedFacts
  <2> QED  BY <2>1 DEF Ctx!Map, Ctx!HasBody
<1> QED  BY <1>1, <1>2 DEF Answered

ServingVars == <<stream, Answered, Open>>

LEMMA ServingIs ==
  /\ Serving!vars = ServingVars
  /\ (Serving!Receive <=> /\ \E u \in Alphabet : stream' = Append(stream, u)
                          /\ UNCHANGED <<Answered, Open>>)
  /\ (Serving!GiveUp <=> Open' = FALSE /\ UNCHANGED <<stream, Answered>>)
BY DEF Serving!vars, ServingVars, Serving!Receive, Serving!GiveUp, Answered, Open

(* What the peer's side of the connection has been told.                   *)
LEMMA AllServed ==
  ASSUME IInv, conn = "connected"
  PROVE  /\ Answered = [i \in 1 .. Len(messages) |->
                          [message |-> Ctx!Map(messages[i]), close |-> out[i].close]]
         /\ Answered \in Seq({Answered[i] : i \in 1 .. Len(messages)})
         /\ Len(Answered) = Len(messages)
         /\ Serving!Framing!Taken = Parser!LastTaken
<1> DEFINE n == Len(messages)
           S == {Answered[i] : i \in 1 .. n}
<1>1. n \in Nat /\ messages \in Seq(Message)
  BY StateFacts DEF IInv
<1>2. Answered = [i \in 1 .. n |-> [message |-> Ctx!Map(messages[i]), close |-> out[i].close]]
  <2>1. Served = 1 .. n
    BY ServedFacts DEF Open
  <2> QED  BY <2>1 DEF Answered
<1>3. Answered \in [1 .. n -> S]
  BY <1>2
<1>4. Answered \in Seq(S)
  BY <1>1, <1>3, SeqDef
<1>5. Len(Answered) = n
  BY <1>1, <1>3, <1>4, LenProperties
<1> DEFINE taken == [i \in DOMAIN Answered |-> Answered[i].message]
<1>6. taken = [i \in 1 .. n |-> Ctx!Map(messages[i])]
  BY <1>2
<1>7. Serving!Framing!Taken = IF taken = <<>> THEN 0 ELSE taken[Len(taken)].to
  BY DEF Serving!Framing!Taken, Answered
<1>8. taken \in Seq({taken[i] : i \in 1 .. n}) /\ Len(taken) = n
  <2>1. taken \in [1 .. n -> {taken[i] : i \in 1 .. n}]
    BY <1>6
  <2>2. taken \in Seq({taken[i] : i \in 1 .. n})
    BY <1>1, <2>1, SeqDef
  <2> HIDE DEF taken
  <2> QED  BY <1>1, <2>1, <2>2, LenProperties
<1>9. Serving!Framing!Taken = Parser!LastTaken
  <2> HIDE DEF taken
  <2>1. CASE n = 0
    BY <1>1, <1>7, <1>8, <2>1, EmptySeq DEF Parser!LastTaken
  <2>2. CASE n # 0
    <3>1. n \in 1 .. n /\ messages # <<>> /\ taken # <<>>
      BY <1>1, <1>8, <2>2, EmptySeq
    <3>2. taken[n].to = messages[n].to
      BY <1>6, <3>1 DEF Ctx!Map
    <3> QED  BY <1>7, <1>8, <3>1, <3>2 DEF Parser!LastTaken
  <2> QED  BY <2>1, <2>2
<1> QED  BY <1>2, <1>4, <1>5, <1>9

(* A request that is handed out on an open connection is the next message  *)
(* of the stream, and what is sent is the answer to it.                    *)
LEMMA HandOutAnswers ==
  ASSUME SInv, IInv', conn = "connected", ret = "true", Ctx!GetRequest, UNCHANGED stream,
         NEW a \in Answers, a.id = start, Send(<<a>>),
         Open' = ~ a.close
  PROVE  Serving!Answer
<1> DEFINE n == Len(messages)
           m == [from |-> start, to |-> rd, clean |-> ~ bad, request |-> request_]
           e == [message |-> Ctx!Map(m), close |-> a.close]
<1>1. IInv /\ TypeOK /\ start \in Nat /\ n \in Nat /\ start # -1 /\ state_ = "FINISH"
  BY StateFacts DEF SInv, IInv, Finished
<1>2. messages' = Append(messages, m) /\ m \in Message
  BY <1>1, StateFacts DEF Ctx!GetRequest, TypeOK, Ctx!TypeOK, Message
<1>3. /\ Len(messages') = n + 1
      /\ \A i \in 1 .. n : messages'[i] = messages[i]
      /\ messages'[n + 1] = m
  BY <1>1, <1>2, StateFacts, AppendProperties
<1>4. /\ Len(out) = n /\ Len(out') = n + 1 /\ out'[n + 1] = a
      /\ \A i \in 1 .. n : out'[i] = out[i]
  BY <1>1, SendAppends, NoneCloses
<1>5. Parser!FInv /\ ~ bad
  BY DEF SInv, Trusted, Open
<1>6. /\ Parser!TypeOK /\ Parser!Lines /\ Parser!LastTaken = start
  BY <1>1, <1>5 DEF Parser!FInv, Parser!Reading, Parser!Position
<1>7. /\ Parser!Framing!Complete(stream, start)
      /\ Parser!Framing!Message(stream, start) = Parser!Map(m)
  BY <1>1, <1>6, Parser!MeaningOfFinished, ParserAssumptions DEF Parser!WellFormed
<1>8. Parser!Map(m) = Ctx!Map(m)
  BY DEF Parser!Map, Ctx!Map, Parser!HasBody, Ctx!HasBody, Parser!GetHeader, Ctx!GetHeader
<1>9. /\ Answered = [i \in 1 .. n |-> [message |-> Ctx!Map(messages[i]), close |-> out[i].close]]
      /\ Answered \in Seq({Answered[i] : i \in 1 .. n})
      /\ Len(Answered) = n
      /\ Serving!Framing!Taken = start
  BY <1>1, <1>6, AllServed
<1>10. Served' = 1 .. n + 1
  <2>1. ASSUME NEW i \in 1 .. n PROVE out'[i].id # -1
    BY <1>1, <1>4, <2>1, NoneCloses, StateFacts
  <2>2. ASSUME NEW i \in 1 .. n + 1 PROVE out'[i].id # -1
    BY <1>1, <1>4, <2>1
  <2> QED  BY <1>4, <2>2 DEF Served
<1>11. Answered' =
         [i \in 1 .. n + 1 |-> [message |-> Ctx!Map(messages'[i]), close |-> out'[i].close]]
  BY <1>10 DEF Answered, Ctx!Map, Ctx!HasBody
<1>12. Answered' = Append(Answered, e)
  <2> DEFINE S == {Answered[i] : i \in 1 .. n} \cup {e}
             longer == Append(Answered, e)
             At(i) == [message |-> Ctx!Map(messages'[i]), close |-> out'[i].close]
  <2>1. Answered \in Seq(S) /\ e \in S
    BY <1>1, <1>9, SeqDef
  <2> HIDE DEF S, e
  <2>2. /\ longer \in Seq(S) /\ Len(longer) = n + 1
        /\ \A i \in 1 .. n : longer[i] = Answered[i]
        /\ longer[n + 1] = e
    BY <1>9, <2>1, AppendProperties
  <2>3. longer = [i \in 1 .. n + 1 |-> longer[i]]
    BY <2>2, LenProperties
  <2>4. ASSUME NEW i \in 1 .. n + 1 PROVE longer[i] = At(i)
    <3>1. CASE i \in 1 .. n
      <4>1. longer[i] = Answered[i] /\ messages'[i] = messages[i] /\ out'[i] = out[i]
        BY <1>3, <1>4, <2>2, <3>1
      <4> HIDE DEF m, longer
      <4> QED  BY <1>9, <3>1, <4>1
    <3>2. CASE i = n + 1
      <4>1. longer[i] = e /\ messages'[i] = m /\ out'[i] = a
        BY <1>3, <1>4, <2>2, <3>2
      <4> HIDE DEF m, longer
      <4> QED  BY <4>1 DEF e
    <3>3. i \in 1 .. n \/ i = n + 1
      BY <1>1
    <3> HIDE DEF longer, At
    <3> QED  BY <3>1, <3>2, <3>3
  <2> QED  BY <1>11, <2>3, <2>4
<1>13. Serving!Framing!Complete(stream, Serving!Framing!Taken)
       /\ e.message = Serving!Framing!Message(stream, Serving!Framing!Taken)
  BY <1>7, <1>8, <1>9, SameServing
<1>14. Open /\ a.close \in BOOLEAN
  BY DEF Open, Answers
<1> HIDE DEF m
<1>15. e = [message |-> Serving!Framing!Message(stream, Serving!Framing!Taken),
            close |-> a.close]
  BY <1>13
<1> QED
  BY <1>12, <1>13, <1>14, <1>15, Zenon DEF Serving!Answer, Answered, Open

(* The messages handed out stay, whatever is appended to them.             *)
LEMMA HandOutKeeps ==
  ASSUME IInv, ret = "true", Ctx!GetRequest
  PROVE  \A i \in 1 .. Len(messages) : messages'[i] = messages[i]
BY HandsOut

(* Nothing sent on a connection that is not open shows.                    *)
LEMMA ClosedKeeps ==
  ASSUME SInv, conn \notin {"connecting", "connected"}, UNCHANGED <<stream, conn, out>>,
         \A i \in 1 .. Len(messages) : messages'[i] = messages[i]
  PROVE  UNCHANGED ServingVars
<1>1. Answered' = Answered
  BY AnsweredKept DEF SInv
<1> QED  BY <1>1 DEF ServingVars, Open

LEMMA StepIsServingStep ==
  SInv /\ SInv' /\ [Next]_vars => [Serving!Next]_ServingVars
<1> SUFFICES ASSUME SInv, SInv', [Next]_vars
             PROVE  Serving!Next \/ UNCHANGED ServingVars
  OBVIOUS
<1>1. IInv /\ IInv' /\ TypeOK
  BY DEF SInv, IInv
<1>2. CASE \E u \in Alphabet : Arrive(u)
  <2>1. PICK u \in Alphabet : Arrive(u)
    BY <1>2
  <2>2. stream' = Append(stream, u) /\ UNCHANGED <<conn, messages, out>>
    BY <2>1 DEF Arrive, Ctx!Receive
  <2>3. Answered' = Answered /\ Open' = Open
    BY <1>1, <2>2, AnsweredKept DEF Open
  <2> QED  BY <2>2, <2>3, ServingIs DEF Serving!Next
<1>3. CASE OnConnectionUp \/ OnMessage \/ ParseStep \/ UNCHANGED vars
  <2>1. UNCHANGED <<stream, messages, out>>
    <3>1. CASE ParseStep
      BY <1>1, <3>1, IterationFacts DEF ParseStep, TypeOK
    <3>2. CASE ~ ParseStep
      BY <1>3, <3>2 DEF OnConnectionUp, OnMessage, Ctx!ParseRequest, vars, context
    <3> QED  BY <3>1, <3>2
  <2>2. Open' = Open
    <3>1. CASE OnConnectionUp
      BY <3>1 DEF OnConnectionUp, Open
    <3>2. CASE OnMessage \/ ParseStep \/ UNCHANGED vars
      BY <3>2 DEF OnMessage, ParseStep, vars, Open
    <3> QED  BY <1>3, <3>1, <3>2
  <2>3. Answered' = Answered
    BY <1>1, <2>1, AnsweredKept
  <2> QED  BY <2>1, <2>2, <2>3 DEF ServingVars
<1>4. CASE OnConnectionDown
  <2>1. UNCHANGED <<stream, messages, out>> /\ conn' = "down"
    BY <1>4 DEF OnConnectionDown, context
  <2>2. Answered' = Answered /\ Open' = FALSE
    BY <1>1, <2>1, AnsweredKept DEF Open
  <2> QED  BY <2>1, <2>2, ServingIs DEF Serving!Next
<1>5. CASE OnRejected \/ OnThrow
  <2>1. /\ UNCHANGED <<stream, messages>> /\ Reject(-1) /\ ret # "none"
        /\ Send(<<BadRequest(-1)>>) /\ Shutdown
    BY <1>5 DEF OnRejected, OnThrow, Reject
  <2>2. CASE conn = "connected"
    <3>1. BadRequest(-1) \in Answers /\ BadRequest(-1).id = -1
      BY DEF BadRequest, Answers
    <3>2. /\ Len(out') = Len(out) + 1 /\ out'[Len(out) + 1].id = -1
          /\ \A i \in 1 .. Len(out) : out'[i] = out[i]
      BY <1>1, <2>1, <2>2, <3>1, SendAppends
    <3>3. Answered' = Answered
      BY <1>1, <2>1, <3>2, AnsweredKept, StateFacts
    <3>4. Open' = FALSE
      BY <2>1, <2>2 DEF Shutdown, Open
    <3> QED  BY <2>1, <3>3, <3>4, ServingIs DEF Serving!Next
  <2>3. CASE conn # "connected"
    <3>1. conn # "connecting"
      BY <1>1, <2>1 DEF IInv, Connecting, Idle
    <3>2. UNCHANGED <<conn, out>>
      BY <2>1, <2>3 DEF Send, Shutdown
    <3> QED  BY <2>1, <2>3, <3>1, <3>2, ClosedKeeps
  <2> QED  BY <2>2, <2>3
<1>6. ASSUME NEW o \in CallbackOutcomes, OnParsed(o)
      PROVE  Serving!Next \/ UNCHANGED ServingVars
  <2> DEFINE close == CloseFlag(o, WantsClose(request_))
             a == [status |-> "answer", id |-> start, close |-> close]
  <2>1. close \in BOOLEAN
    <3>1. WantsClose(request_) \in BOOLEAN
      BY Zenon DEF WantsClose
    <3>2. o \in {"kept", "closing", "keeping"}
      BY <1>6, ServerAssumption DEF OnParsed
    <3> QED  BY <3>1, <3>2 DEF CloseFlag
  <2>2. /\ ret = "true" /\ Ctx!GetRequest /\ UNCHANGED stream /\ Send(<<a>>)
        /\ IF close THEN Shutdown ELSE UNCHANGED conn
    BY <1>6 DEF OnParsed, OnRequest
  <2> HIDE DEF close
  <2>3. a \in Answers /\ a.id = start /\ a.close = close
    BY <1>1, <2>1, StateFacts DEF Answers
  <2> HIDE DEF a
  <2>4. CASE conn = "connected"
    <3>1. Open' = ~ a.close
      <4>1. CASE close
        BY <2>1, <2>2, <2>3, <2>4, <4>1 DEF Shutdown, Open
      <4>2. CASE ~ close
        BY <2>1, <2>2, <2>3, <2>4, <4>2 DEF Open
      <4> QED  BY <4>1, <4>2
    <3>2. Serving!Answer
      BY <1>1, <2>2, <2>3, <2>4, <3>1, HandOutAnswers
    <3> QED  BY <3>2 DEF Serving!Next
  <2>5. CASE conn # "connected"
    <3>1. conn # "connecting"
      BY <1>1, <2>2 DEF IInv, Connecting, Idle
    <3>2. UNCHANGED <<conn, out>>
      BY <2>2, <2>5 DEF Send, Shutdown
    <3> QED  BY <1>1, <2>2, <2>5, <3>1, <3>2, HandOutKeeps, ClosedKeeps
  <2> QED  BY <2>4, <2>5
<1>7. CASE OnCallbackThrow
  <2> DEFINE a == BadRequest(start)
  <2>1. ret = "true" /\ Ctx!GetRequest /\ UNCHANGED stream /\ Send(<<a>>) /\ Shutdown
    BY <1>7 DEF OnCallbackThrow, Reject
  <2>2. a \in Answers /\ a.id = start /\ a.close = TRUE
    BY <1>1, StateFacts DEF Answers, BadRequest
  <2> HIDE DEF a
  <2>3. CASE conn = "connected"
    <3>1. Open' = ~ a.close
      BY <2>1, <2>2, <2>3 DEF Shutdown, Open
    <3>2. Serving!Answer
      BY <1>1, <2>1, <2>2, <2>3, <3>1, HandOutAnswers
    <3> QED  BY <3>2 DEF Serving!Next
  <2>4. CASE conn # "connected"
    <3>1. conn # "connecting"
      BY <1>1, <2>1 DEF IInv, Connecting, Idle
    <3>2. UNCHANGED <<conn, out>>
      BY <2>1, <2>4 DEF Send, Shutdown
    <3> QED  BY <1>1, <2>1, <2>4, <3>1, <3>2, HandOutKeeps, ClosedKeeps
  <2> QED  BY <2>3, <2>4
<1> QED  BY <1>2, <1>3, <1>4, <1>5, <1>6, <1>7 DEF Next, Loop

(* Seen from the peer the connection does what HttpServing allows: the     *)
(* messages that the stream means are answered in their order, one answer  *)
(* each, none before it is complete, and nothing behind a close            *)
(* (http_server.cpp:101-165).                                              *)
THEOREM ServerImplementsServing == Spec => ImplementsServing
<1>1. Init => Serving!Init
  <2> SUFFICES ASSUME Init PROVE stream = <<>> /\ Answered = <<>> /\ Open = TRUE
    BY DEF Serving!Init, Answered, Open
  <2>1. stream = <<>> /\ conn = "connecting" /\ Len(out) = 0
    BY DEF Init, Ctx!Init
  <2>2. Served = {}
    BY <2>1 DEF Served
  <2>3. Answered = <<>>
    BY <2>2 DEF Answered
  <2> QED  BY <2>1, <2>3 DEF Open
<1>2. SInv /\ SInv' /\ [Next]_vars => [Serving!Next]_(Serving!vars)
  BY StepIsServingStep DEF Serving!vars, ServingVars, Answered, Open
<1> QED  BY <1>1, <1>2, AlwaysSInv, PTL DEF Spec, ImplementsServing, Serving!Spec

=============================================================================
