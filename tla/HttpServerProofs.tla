-------------------------- MODULE HttpServerProofs --------------------------
(***************************************************************************)
(* Proofs about HttpServer, for every alphabet, every std::stoul, every    *)
(* set of callback outcomes and every bound on the stream.  What the       *)
(* parser does in a step is taken from the proofs about HttpContext.       *)
(*                                                                         *)
(* The answers match the requests because they are counted together while  *)
(* the connection is up (OneToOne).  Behind bounds the answers once it is  *)
(* not: the last may be a 400 that belongs to no request.  Unreset is the  *)
(* state a callback leaves that threw: its request is still in the context *)
(* and will be handed out again, but its answer, a closing 400, was the    *)
(* last.                                                                   *)
(***************************************************************************)
EXTENDS HttpServer, SequenceTheorems, TLAPS

Parser == INSTANCE FramingProofs

Taken(m, n) == m.from < m.to /\ m.to <= n

Unreset(i) ==
  /\ state_ = "FINISH" /\ conn # "connected"
  /\ messages[i].from = start /\ messages[i].to = rd
  /\ Len(out) <= i
  /\ Len(out) = i => out[i].status = "400"

Ahead ==
  /\ state_ # "REQUEST_LINE" => start < rd
  /\ \A i \in 1 .. Len(messages) :
       \/ Taken(messages[i], IF state_ = "REQUEST_LINE" THEN rd ELSE start)
       \/ Unreset(i)

Connecting == conn = "connecting" => Idle /\ messages = <<>> /\ out = <<>> /\ reads = 0

Finished == ret = "true" => state_ = "FINISH"

OneToOne ==
  conn = "connected" => Len(out) = reads - IF Idle THEN 0 ELSE 1

Behind ==
  /\ Len(out) <= Len(messages) + 1
  /\ Len(out) = Len(messages) + 1 => out[Len(out)].status = "400"

IInv ==
  /\ TypeOK /\ Connecting /\ Finished /\ OneToOne /\ Behind /\ Ahead
  /\ AnswersMatchRequests /\ CloseIsLast /\ RedispatchUnanswered

-----------------------------------------------------------------------------
(* The context of the server is the one those proofs are about.            *)

LEMMA SameRequests == Ctx!Requests = Parser!Requests
BY DEF Ctx!Requests, Parser!Requests, Ctx!Methods, Parser!Methods, Ctx!Versions,
   Parser!Versions, Ctx!Values, Parser!Values, Ctx!Keys, Parser!Keys, Ctx!Texts, Parser!Texts,
   Ctx!SetMethod, Parser!SetMethod, Ctx!Unset, Parser!Unset

LEMMA SameTypeOK == Ctx!TypeOK <=> Parser!TypeOK
<1>1. Ctx!content_length = Parser!content_length
  BY DEF Ctx!content_length, Parser!content_length, Ctx!GetHeader, Parser!GetHeader
<1>2. Ctx!States = Parser!States /\ Ctx!Outcomes = Parser!Outcomes /\ Ctx!Unset = Parser!Unset
  BY DEF Ctx!States, Parser!States, Ctx!Outcomes, Parser!Outcomes, Ctx!Unset, Parser!Unset
<1> QED  BY <1>1, <1>2, SameRequests DEF Ctx!TypeOK, Parser!TypeOK

LEMMA ParserAssumptions ==
  /\ MaxLen \in Nat /\ Parser!WellFormed
BY ContextAssumption DEF Ctx!WellFormed, Parser!WellFormed, Ctx!Kinds, Parser!Kinds

LEMMA SameLine ==
  /\ Ctx!Breaks = Parser!Breaks /\ Ctx!FindCRLF = Parser!FindCRLF /\ Ctx!line = Parser!line
  /\ \A l : /\ Ctx!ParseRequestLine(l) <=> Parser!ParseRequestLine(l)
            /\ Ctx!ParseHeaderLine(l) <=> Parser!ParseHeaderLine(l)
            /\ Ctx!MethodOf(l) = Parser!MethodOf(l) /\ Ctx!VersionOf(l) = Parser!VersionOf(l)
            /\ Ctx!KeyOf(l) = Parser!KeyOf(l) /\ Ctx!ValueOf(l) = Parser!ValueOf(l)
<1>1. Ctx!Breaks = Parser!Breaks
  BY DEF Ctx!Breaks, Parser!Breaks
<1>2. Ctx!FindCRLF = Parser!FindCRLF
  BY <1>1 DEF Ctx!FindCRLF, Parser!FindCRLF
<1>3. Ctx!line = Parser!line
  BY <1>2 DEF Ctx!line, Parser!line
<1> QED
  BY <1>1, <1>2, <1>3 DEF Ctx!ParseRequestLine, Parser!ParseRequestLine, Ctx!ParseHeaderLine,
     Parser!ParseHeaderLine, Ctx!MethodOf, Parser!MethodOf, Ctx!VersionOf, Parser!VersionOf,
     Ctx!KeyOf, Parser!KeyOf, Ctx!ValueOf, Parser!ValueOf, Ctx!SetMethod, Parser!SetMethod

LEMMA SameIteration == Ctx!Iteration => Parser!Iteration
<1> USE SameLine DEF Ctx!Running, Parser!Running, Ctx!RetrieveLine, Parser!RetrieveLine,
    Ctx!Return, Parser!Return, Ctx!Continue, Parser!Continue,
    Ctx!AtEmptyLine, Parser!AtEmptyLine, Ctx!ReadableBytes, Parser!ReadableBytes
<1>1. Ctx!NeedLine => Parser!NeedLine
  BY DEF Ctx!NeedLine, Parser!NeedLine
<1>2. Ctx!RejectLine => Parser!RejectLine
  BY DEF Ctx!RejectLine, Parser!RejectLine
<1>3. Ctx!RequestLine => Parser!RequestLine
  BY DEF Ctx!RequestLine, Parser!RequestLine
<1>4. Ctx!HeaderLine => Parser!HeaderLine
  BY DEF Ctx!HeaderLine, Parser!HeaderLine, Ctx!AddHeader, Parser!AddHeader
<1>5. Ctx!content_length = Parser!content_length
  BY DEF Ctx!content_length, Parser!content_length, Ctx!GetHeader, Parser!GetHeader
<1>6. Ctx!EndWithoutBody => Parser!EndWithoutBody
  BY <1>5 DEF Ctx!EndWithoutBody, Parser!EndWithoutBody
<1>7. Ctx!EndWithBody => Parser!EndWithBody
  BY <1>5 DEF Ctx!EndWithBody, Parser!EndWithBody
<1>8. Ctx!EndThrows => Parser!EndThrows
  BY <1>5 DEF Ctx!EndThrows, Parser!EndThrows
<1>9. Ctx!Body => Parser!Body
  BY DEF Ctx!Body, Parser!Body
<1>10. Ctx!NeedBody => Parser!NeedBody
  BY DEF Ctx!NeedBody, Parser!NeedBody
<1>11. Ctx!AlreadyFinished => Parser!AlreadyFinished
  BY DEF Ctx!AlreadyFinished, Parser!AlreadyFinished
<1> QED
  BY <1>1, <1>2, <1>3, <1>4, <1>6, <1>7, <1>8, <1>9, <1>10, <1>11, Zenon
     DEF Ctx!Iteration, Parser!Iteration

LEMMA IterationFacts ==
  ASSUME Ctx!TypeOK, Ctx!Iteration
  PROVE  /\ Ctx!TypeOK'
         /\ UNCHANGED <<stream, messages>>
         /\ ret = "running" /\ ret' # "none"
         /\ ret' = "true" => state_' = "FINISH"
         /\ rd <= rd'
         /\ state_ = "FINISH" => UNCHANGED <<rd, start, state_>>
         /\ \/ start' = start /\ (state_ = "REQUEST_LINE" <=> state_' = "REQUEST_LINE")
            \/ state_ = "REQUEST_LINE" /\ state_' = "HEADERS" /\ start' = rd /\ rd < rd'
<1>1. Parser!TypeOK /\ Parser!Iteration
  BY SameTypeOK, SameIteration
<1>2. Ctx!TypeOK' <=> Parser!TypeOK'
  BY SameTypeOK, PTL
<1> QED  BY <1>1, <1>2, ParserAssumptions, Parser!IterationFacts DEF Parser!WellFormed

-----------------------------------------------------------------------------
(* Facts about the state.                                                  *)

Message == [from : Nat, to : Nat, clean : BOOLEAN, request : Ctx!Requests]

LEMMA StateFacts ==
  ASSUME TypeOK
  PROVE  /\ rd \in Nat /\ start \in Nat /\ start <= rd /\ reads \in Nat
         /\ messages \in Seq(Message) /\ Len(messages) \in Nat
         /\ \A i \in 1 .. Len(messages) : messages[i].from \in Nat /\ messages[i].to \in Nat
         /\ out \in Seq(Answers) /\ Len(out) \in Nat
         /\ \A i \in 1 .. Len(out) : out[i] \in Answers
<1>1. rd \in Nat /\ start \in Nat /\ start <= rd
  BY DEF TypeOK, Ctx!TypeOK
<1>2. messages \in Seq(Message)
  BY DEF TypeOK, Ctx!TypeOK, Message
<1>3. \A i \in 1 .. Len(messages) : messages[i] \in Message
  BY <1>2
<1> QED  BY <1>1, <1>2, <1>3 DEF TypeOK, Message

LEMMA NewRequestType == Ctx!NewRequest \in Ctx!Requests
<1>1. Parser!NewRequest \in Parser!Requests
  BY Parser!NewRequestType, ParserAssumptions DEF Parser!WellFormed
<1>2. Ctx!NewRequest = Parser!NewRequest
  BY DEF Ctx!NewRequest, Parser!NewRequest, Ctx!Unset, Parser!Unset
<1> QED  BY <1>1, <1>2, SameRequests

LEMMA ResetType ==
  ASSUME NEW r \in Ctx!Requests
  PROVE  Ctx!Swapped(r) \in Ctx!Requests
<1>1. Ctx!NewRequest \in Ctx!Requests
  BY NewRequestType
<1> HIDE DEF Ctx!NewRequest
<1> QED  BY <1>1 DEF Ctx!Swapped, Ctx!Requests

LEMMA InitIInv == Init => IInv
<1> SUFFICES ASSUME Init PROVE IInv  OBVIOUS
<1>1. Parser!Init
  BY DEF Init, Ctx!Init, Parser!Init, Ctx!NewRequest, Parser!NewRequest, Ctx!Unset, Parser!Unset
<1>2. Parser!TypeOK
  BY <1>1, Parser!InitIInv, ParserAssumptions DEF Parser!WellFormed, Parser!IInv
<1>3. TypeOK
  <2>1. out \in Seq(Answers) /\ reads \in Nat
    BY DEF Init
  <2>2. fresh \in BOOLEAN /\ conn \in {"connecting", "connected", "disconnecting", "down"}
    BY Zenon DEF Init
  <2> QED  BY <1>2, <2>1, <2>2, SameTypeOK DEF TypeOK
<1>4. /\ out = <<>> /\ messages = <<>> /\ Len(out) = 0 /\ Len(messages) = 0
      /\ conn = "connecting" /\ ret = "none" /\ reads = 0 /\ state_ = "REQUEST_LINE"
  BY DEF Init, Ctx!Init
<1>5. Connecting /\ Finished /\ OneToOne /\ Behind /\ Ahead
  BY <1>4 DEF Connecting, Finished, OneToOne, Behind, Ahead, Idle
<1>6. AnswersMatchRequests /\ CloseIsLast /\ RedispatchUnanswered
  BY <1>4 DEF AnswersMatchRequests, CloseIsLast, RedispatchUnanswered
<1> QED  BY <1>3, <1>5, <1>6 DEF IInv

-----------------------------------------------------------------------------
(* Steps that neither answer nor hand out.                                 *)

LEMMA ArriveIInv ==
  ASSUME IInv, NEW u \in Alphabet, Arrive(u)
  PROVE  IInv'
<1>1. /\ ret = "none" /\ ret' = "none" /\ stream' = Append(stream, u) /\ Len(stream) < MaxLen
      /\ UNCHANGED <<rd, state_, request_, start, messages, bad, conn, out, reads>>
      /\ fresh' = TRUE
  BY DEF Arrive, Idle, Ctx!Receive
<1>2. Ctx!TypeOK'
  <2>1. Parser!TypeOK /\ Parser!Receive(u)
    BY SameTypeOK DEF IInv, TypeOK, Arrive, Ctx!Receive, Parser!Receive, Ctx!MayFollow, Parser!MayFollow
  <2>2. Parser!Next
    BY <2>1 DEF Parser!Next
  <2>3. Parser!TypeOK'
    BY <2>1, <2>2, Parser!NextTypeOK, ParserAssumptions DEF Parser!WellFormed
  <2>4. Ctx!TypeOK' <=> Parser!TypeOK'
    BY SameTypeOK, PTL
  <2> QED  BY <2>3, <2>4
<1>3. TypeOK'
  BY <1>1, <1>2 DEF IInv, TypeOK, Answers
<1> QED
  BY <1>1, <1>3 DEF IInv, Connecting, Finished, OneToOne, Behind, Ahead, Taken, Unreset, Idle,
     AnswersMatchRequests, CloseIsLast, RedispatchUnanswered, BadRequest

LEMMA OnConnectionUpIInv ==
  ASSUME IInv, OnConnectionUp
  PROVE  IInv'
<1>1. /\ conn = "connecting" /\ conn' = "connected" /\ state_' = "REQUEST_LINE"
      /\ request_' = Ctx!NewRequest
      /\ UNCHANGED <<stream, rd, ret, start, messages, bad, fresh, out, reads>>
  BY DEF OnConnectionUp
<1>2. ret = "none" /\ messages = <<>> /\ out = <<>> /\ reads = 0
  BY <1>1 DEF IInv, Connecting, Idle
<1>3. TypeOK'
  <2>1. Ctx!TypeOK'
    BY <1>1, NewRequestType DEF IInv, TypeOK, Ctx!TypeOK, Ctx!States, Ctx!Outcomes, Ctx!Requests
  <2> QED  BY <1>1, <2>1 DEF IInv, TypeOK, Answers
<1>4. Len(out') = 0 /\ Len(messages') = 0 /\ ret' = "none" /\ reads' = 0
  BY <1>1, <1>2
<1>5. Connecting' /\ Finished' /\ OneToOne' /\ Behind' /\ Ahead'
  BY <1>1, <1>4 DEF Connecting, Finished, OneToOne, Behind, Ahead, Idle
<1>6. AnswersMatchRequests' /\ CloseIsLast' /\ RedispatchUnanswered'
  BY <1>1, <1>4 DEF AnswersMatchRequests, CloseIsLast, RedispatchUnanswered
<1> QED  BY <1>3, <1>5, <1>6 DEF IInv

LEMMA OnConnectionDownIInv ==
  ASSUME IInv, OnConnectionDown
  PROVE  IInv'
<1>1. conn' = "down" /\ ret = "none" /\ UNCHANGED <<context, fresh, out, reads>>
  BY DEF OnConnectionDown, Idle
<1>2. TypeOK'
  BY <1>1 DEF IInv, TypeOK, Answers, context, Ctx!TypeOK, Ctx!content_length, Ctx!Requests
<1> QED
  BY <1>1, <1>2 DEF IInv, Connecting, Finished, OneToOne, Behind, Ahead, Taken, Unreset, Idle,
     AnswersMatchRequests, CloseIsLast, RedispatchUnanswered, BadRequest, context

LEMMA OnMessageIInv ==
  ASSUME IInv, OnMessage
  PROVE  IInv'
<1>1. /\ conn \in {"connected", "disconnecting"} /\ ret = "none" /\ ret' = "running"
      /\ UNCHANGED <<stream, rd, state_, request_, start, messages, bad, conn, out>>
      /\ fresh' = FALSE /\ reads' = reads + 1
  BY DEF OnMessage, Idle, Ctx!ParseRequest
<1>2. TypeOK'
  <2>1. Ctx!TypeOK'
    BY <1>1 DEF IInv, TypeOK, Ctx!TypeOK, Ctx!Outcomes, Ctx!content_length, Ctx!Requests
  <2>2. reads' \in Nat
    BY <1>1, StateFacts DEF IInv
  <2>3. fresh' \in BOOLEAN
    BY <1>1, Zenon
  <2> QED  BY <1>1, <2>1, <2>2, <2>3 DEF IInv, TypeOK, Answers
<1>3. OneToOne'
  BY <1>1, StateFacts DEF IInv, OneToOne, Idle
<1> QED
  BY <1>1, <1>2, <1>3 DEF IInv, Connecting, Finished, Behind, Ahead, Taken, Unreset, Idle,
     AnswersMatchRequests, CloseIsLast, RedispatchUnanswered, BadRequest

LEMMA ParseStepIInv ==
  ASSUME IInv, ParseStep
  PROVE  IInv'
<1>1. UNCHANGED <<conn, fresh, out, reads>> /\ Ctx!Iteration
  BY DEF ParseStep
<1>2. /\ Ctx!TypeOK' /\ UNCHANGED <<stream, messages>> /\ ret = "running" /\ ret' # "none"
      /\ ret' = "true" => state_' = "FINISH"
      /\ rd <= rd'
      /\ state_ = "FINISH" => UNCHANGED <<rd, start, state_>>
      /\ \/ start' = start /\ (state_ = "REQUEST_LINE" <=> state_' = "REQUEST_LINE")
         \/ state_ = "REQUEST_LINE" /\ state_' = "HEADERS" /\ start' = rd /\ rd < rd'
  BY <1>1, IterationFacts DEF IInv, TypeOK
<1>3. TypeOK'
  BY <1>1, <1>2 DEF IInv, TypeOK, Answers
<1>4. rd \in Nat /\ start \in Nat /\ rd' \in Nat
      /\ \A i \in 1 .. Len(messages) : messages[i].from \in Nat /\ messages[i].to \in Nat
  <2>1. rd' \in Nat
    BY <1>2 DEF Ctx!TypeOK
  <2> QED  BY <2>1, StateFacts DEF IInv
<1>5. Ahead'
  <2>1. state_' # "REQUEST_LINE" => start' < rd'
    BY <1>2, <1>4 DEF IInv, Ahead
  <2>2. ASSUME NEW i \in 1 .. Len(messages), Unreset(i) PROVE Unreset(i)'
    BY <1>1, <1>2, <2>2 DEF Unreset
  <2>3. ASSUME NEW i \in 1 .. Len(messages),
               Taken(messages[i], IF state_ = "REQUEST_LINE" THEN rd ELSE start)
        PROVE  Taken(messages[i], IF state_' = "REQUEST_LINE" THEN rd' ELSE start')
    BY <1>2, <1>4, <2>3 DEF Taken
  <2> QED  BY <1>2, <2>1, <2>2, <2>3 DEF IInv, Ahead, Taken
<1> QED
  BY <1>1, <1>2, <1>3, <1>5 DEF IInv, Connecting, Finished, OneToOne, Behind, Idle,
     AnswersMatchRequests, CloseIsLast, RedispatchUnanswered, BadRequest

-----------------------------------------------------------------------------
(* Steps that answer.                                                      *)

(* An answer sent while the connection is up goes to the end of out.       *)
LEMMA SendAppends ==
  ASSUME TypeOK, NEW a \in Answers, Send(<<a>>)
  PROVE  /\ out' \in Seq(Answers)
         /\ conn = "connected" =>
              /\ Len(out') = Len(out) + 1 /\ out'[Len(out) + 1] = a
              /\ \A i \in 1 .. Len(out) : out'[i] = out[i]
         /\ conn # "connected" => out' = out
<1>1. out \in Seq(Answers) /\ Len(out) \in Nat
  BY StateFacts
<1>2. CASE conn = "connected"
  <2>1. out' = Append(out, a)
    BY <1>1, <1>2 DEF Send
  <2> QED  BY <1>1, <1>2, <2>1
<1>3. CASE conn # "connected"
  BY <1>1, <1>3 DEF Send
<1> QED  BY <1>2, <1>3

(* While the connection is up nothing sent so far closes it.               *)
LEMMA NoneCloses ==
  ASSUME IInv, conn = "connected"
  PROVE  /\ \A i \in 1 .. Len(out) : ~ out[i].close /\ out[i] # BadRequest(-1)
         /\ Len(out) = Len(messages)
         /\ \A i \in 1 .. Len(messages) :
              /\ out[i].id = messages[i].from
              /\ Taken(messages[i], IF state_ = "REQUEST_LINE" THEN rd ELSE start)
         /\ \A i, j \in 1 .. Len(messages) : i < j => ~ messages[j].from < messages[i].to
<1>1. \A i \in 1 .. Len(out) : ~ out[i].close
  BY DEF IInv, CloseIsLast
<1>2. \A i \in 1 .. Len(out) : out[i] # BadRequest(-1)
  BY <1>1 DEF BadRequest
<1>3. Len(out) = Len(messages)
  BY DEF IInv, AnswersMatchRequests
<1>4. \A i \in 1 .. Len(messages) : out[i].id = messages[i].from
  BY <1>2, <1>3 DEF IInv, AnswersMatchRequests
<1>5. \A i \in 1 .. Len(messages) :
         Taken(messages[i], IF state_ = "REQUEST_LINE" THEN rd ELSE start)
  BY DEF IInv, Ahead, Unreset
<1>6. \A i, j \in 1 .. Len(messages) : i < j => ~ messages[j].from < messages[i].to
  BY <1>3, StateFacts DEF IInv, RedispatchUnanswered
<1> QED  BY <1>1, <1>2, <1>3, <1>4, <1>5, <1>6

(* The parser gave up: a 400 that answers no request.                      *)
LEMMA RejectIInv ==
  ASSUME IInv, Reject(-1), ret # "none",
         UNCHANGED <<stream, rd, state_, request_, start, messages, bad, fresh, reads>>
  PROVE  IInv'
<1> DEFINE a == BadRequest(-1)
<1>1. a \in Answers /\ a.status = "400" /\ a.close = TRUE
  BY DEF BadRequest, Answers
<1>2. Send(<<a>>) /\ Shutdown /\ ret' = "none"
  BY DEF Reject
<1>3. TypeOK'
  <2>1. Ctx!TypeOK'
    BY <1>2 DEF IInv, TypeOK, Ctx!TypeOK, Ctx!Outcomes, Ctx!content_length, Ctx!Requests
  <2>2. out' \in Seq(Answers)
    BY <1>1, <1>2, SendAppends DEF IInv
  <2>3. conn' \in {"connecting", "connected", "disconnecting", "down"}
    BY <1>2 DEF IInv, TypeOK, Shutdown
  <2> QED  BY <2>1, <2>2, <2>3 DEF IInv, TypeOK, Answers
<1> HIDE DEF a
<1>4. CASE conn = "connected"
  <2>1. /\ Len(out') = Len(out) + 1 /\ out'[Len(out) + 1] = a
        /\ \A i \in 1 .. Len(out) : out'[i] = out[i]
        /\ conn' = "disconnecting" /\ Len(out) = Len(messages) /\ Len(out) \in Nat
        /\ 1 .. Len(out') = 1 .. Len(out) \cup {Len(out) + 1}
    BY <1>1, <1>2, <1>4, SendAppends, NoneCloses, StateFacts DEF IInv, Shutdown
  <2>2. Connecting' /\ Finished' /\ OneToOne' /\ Behind'
    BY <1>1, <1>2, <2>1 DEF Connecting, Finished, OneToOne, Behind
  <2>3. Ahead'
    BY <1>4, NoneCloses DEF IInv, Ahead, Taken
  <2>4. AnswersMatchRequests'
    BY <1>4, <2>1, NoneCloses DEF AnswersMatchRequests, BadRequest, a
  <2>5. CloseIsLast'
    <3>1. out' # <<>> /\ out'[Len(out')].close
      BY <1>1, <1>3, <2>1 DEF TypeOK
    <3> QED  BY <1>4, <2>1, <3>1, NoneCloses DEF CloseIsLast
  <2>6. RedispatchUnanswered'
    BY <1>4, NoneCloses DEF RedispatchUnanswered
  <2> QED  BY <1>3, <2>2, <2>3, <2>4, <2>5, <2>6 DEF IInv
<1>5. CASE conn # "connected"
  <2>1. out' = out /\ conn' = conn
    BY <1>1, <1>2, <1>5, SendAppends DEF IInv, Shutdown
  <2> QED
    BY <1>2, <1>3, <1>5, <2>1 DEF IInv, Connecting, Finished, OneToOne, Behind, Ahead, Taken,
       Unreset, Idle, AnswersMatchRequests, CloseIsLast, RedispatchUnanswered, BadRequest
<1> QED  BY <1>4, <1>5

(* GetRequest hands out the request that is between start and rd.          *)
LEMMA HandsOut ==
  ASSUME IInv, ret = "true", Ctx!GetRequest
  PROVE  /\ messages' \in Seq(Message) /\ Len(messages') = Len(messages) + 1
         /\ 1 .. Len(messages') = 1 .. Len(messages) \cup {Len(messages) + 1}
         /\ \A i \in 1 .. Len(messages) : messages'[i] = messages[i]
         /\ messages'[Len(messages) + 1].from = start
         /\ messages'[Len(messages) + 1].to = rd
         /\ state_ = "FINISH" /\ start < rd
         /\ \A i \in 1 .. Len(messages) : Taken(messages[i], start) \/ Unreset(i)
<1> DEFINE m == [from |-> start, to |-> rd, clean |-> ~ bad, request |-> request_]
<1>1. m \in Message
  BY StateFacts DEF IInv, TypeOK, Ctx!TypeOK, Message
<1>2. messages' = Append(messages, m)
  BY DEF Ctx!GetRequest
<1>3. m.from = start /\ m.to = rd
  OBVIOUS
<1>4. state_ = "FINISH"
  BY DEF IInv, Finished
<1>5. /\ start < rd
      /\ \A i \in 1 .. Len(messages) : Taken(messages[i], start) \/ Unreset(i)
  BY <1>4 DEF IInv, Ahead
<1> HIDE DEF m
<1> QED  BY <1>1, <1>2, <1>3, <1>4, <1>5, StateFacts DEF IInv

(* Two hand-outs that overlap are the same request, and Unreset says what  *)
(* the peer was sent about it.                                             *)
LEMMA HandOutRedispatch ==
  ASSUME IInv, ret = "true", Ctx!GetRequest,
         conn # "connected" => out' = out
  PROVE  RedispatchUnanswered'
<1> DEFINE n == Len(messages) + 1
<1>1. ASSUME NEW i \in 1 .. Len(messages'), NEW j \in 1 .. Len(messages'),
             i < j, messages'[j].from < messages'[i].to
      PROVE  /\ messages'[j].from = messages'[i].from /\ messages'[j].to = messages'[i].to
             /\ Len(out') <= i
             /\ Len(out') = i => out'[i].status = "400"
  <2>1. i \in 1 .. Len(messages) /\ messages'[i] = messages[i]
    BY <1>1, HandsOut, StateFacts DEF IInv
  <2>2. CASE j = n
    <3>1. messages'[j].from = start /\ messages'[j].to = rd
      BY <2>2, HandsOut
    <3>2. ~ Taken(messages[i], start)
      BY <1>1, <2>1, <3>1, StateFacts DEF IInv, Taken
    <3>3. Unreset(i) /\ out' = out
      BY <2>1, <3>2, HandsOut DEF Unreset
    <3> QED  BY <2>1, <3>1, <3>3 DEF Unreset
  <2>3. CASE j \in 1 .. Len(messages)
    <3>1. messages'[j] = messages[j]
      BY <2>3, HandsOut
    <3>2. /\ messages[j].from = messages[i].from /\ messages[j].to = messages[i].to
          /\ Len(out) <= i
          /\ Len(out) = i => out[i].status = "400"
      BY <1>1, <2>1, <2>3, <3>1 DEF IInv, RedispatchUnanswered
    <3>3. conn # "connected"
      BY <1>1, <2>1, <2>3, <3>1, NoneCloses
    <3> QED  BY <2>1, <3>1, <3>2, <3>3
  <2> QED  BY <1>1, <2>2, <2>3, HandsOut
<1> QED  BY <1>1 DEF RedispatchUnanswered

(* The types after a request was handed out, the context reset or not.     *)
LEMMA HandOutTypes ==
  ASSUME IInv, ret = "true", Ctx!GetRequest, ret' = "none",
         NEW a \in Answers, Send(<<a>>), Shutdown \/ UNCHANGED conn,
         Ctx!Reset \/ UNCHANGED <<state_, request_>>,
         UNCHANGED <<stream, rd, start, bad, fresh, reads>>
  PROVE  TypeOK'
<1>1. messages' \in Seq([from : Nat, to : Nat, clean : BOOLEAN, request : Ctx!Requests])
  BY HandsOut DEF Message
<1>2. request_' \in Ctx!Requests /\ state_' \in Ctx!States /\ state_' # "BODY"
  <2>1. state_ = "FINISH" /\ request_ \in Ctx!Requests
    BY HandsOut DEF IInv, TypeOK, Ctx!TypeOK
  <2>2. CASE Ctx!Reset
    BY <2>1, <2>2, ResetType DEF Ctx!Reset, Ctx!States
  <2>3. CASE UNCHANGED <<state_, request_>>
    BY <2>1, <2>3 DEF Ctx!States
  <2> QED  BY <2>2, <2>3
<1>3. Ctx!TypeOK'
  BY <1>1, <1>2 DEF IInv, TypeOK, Ctx!TypeOK, Ctx!Outcomes, Ctx!Requests, Ctx!States
<1>4. conn' \in {"connecting", "connected", "disconnecting", "down"}
  BY DEF IInv, TypeOK, Shutdown
<1>5. out' \in Seq(Answers)
  BY SendAppends DEF IInv
<1> QED  BY <1>3, <1>4, <1>5 DEF IInv, TypeOK, Answers

LEMMA OnParsedIInv ==
  ASSUME IInv, NEW outcome \in CallbackOutcomes, OnParsed(outcome)
  PROVE  IInv'
<1> DEFINE close == CloseFlag(outcome, WantsClose(request_))
           a == [status |-> "answer", id |-> start, close |-> close]
           n == Len(messages) + 1
<1>1. close \in BOOLEAN
  <2>1. WantsClose(request_) \in BOOLEAN
    BY Zenon DEF WantsClose
  <2>2. outcome \in {"kept", "closing", "keeping"}
    BY ServerAssumption DEF OnParsed
  <2> QED  BY <2>1, <2>2 DEF CloseFlag
<1>2. /\ a \in Answers /\ a.id = start /\ a.close = close /\ a.status = "answer"
      /\ a # BadRequest(-1)
  BY <1>1, StateFacts DEF IInv, Answers, BadRequest
<1>3. /\ ret = "true" /\ ret' = "none" /\ Ctx!GetRequest /\ Ctx!Reset
      /\ state_' = "REQUEST_LINE"
      /\ UNCHANGED <<stream, rd, start, bad, fresh, reads>>
      /\ Send(<<a>>) /\ IF close THEN Shutdown ELSE UNCHANGED conn
  BY DEF OnParsed, OnRequest, Ctx!Reset
<1> HIDE DEF a, close
<1>4. TypeOK'
  BY <1>2, <1>3, HandOutTypes
<1>5. RedispatchUnanswered'
  BY <1>2, <1>3, HandOutRedispatch, SendAppends DEF IInv
<1>6. Ahead'
  <2>1. ASSUME NEW i \in 1 .. Len(messages) PROVE Taken(messages[i], rd)
    BY <1>3, HandsOut, StateFacts DEF IInv, Taken, Unreset
  <2>2. ASSUME NEW i \in 1 .. Len(messages') PROVE Taken(messages'[i], rd)
    <3>1. CASE i \in 1 .. Len(messages)
      BY <1>3, <2>1, <3>1, HandsOut
    <3>2. CASE i = Len(messages) + 1
      BY <1>3, <3>2, HandsOut, StateFacts DEF IInv, Taken
    <3> QED  BY <1>3, <3>1, <3>2, HandsOut
  <2> QED  BY <1>3, <2>2 DEF Ahead, Taken
<1>7. conn # "connecting"
  BY <1>3 DEF IInv, Connecting, Idle
<1>8. Connecting' /\ Finished'
  BY <1>3, <1>7 DEF Connecting, Finished, Shutdown
<1>9. CASE conn = "connected"
  <2>1. /\ Len(out') = n /\ out'[n] = a /\ \A i \in 1 .. Len(out) : out'[i] = out[i]
        /\ Len(out) = Len(messages) /\ Len(messages') = n /\ n \in Nat
        /\ 1 .. n = 1 .. Len(messages) \cup {n} /\ messages'[n].from = start
        /\ \A i \in 1 .. Len(messages) : messages'[i] = messages[i]
        /\ conn' = IF close THEN "disconnecting" ELSE "connected"
    BY <1>2, <1>3, <1>9, SendAppends, NoneCloses, HandsOut, StateFacts DEF IInv, Shutdown
  <2>2. OneToOne'
    BY <1>3, <1>9, <2>1, StateFacts DEF IInv, OneToOne, Idle
  <2>3. Behind'
    BY <2>1 DEF Behind
  <2>4. AnswersMatchRequests'
    <3>1. \A i \in 1 .. n : out'[i] # BadRequest(-1) /\ out'[i].id = messages'[i].from
      BY <1>2, <1>9, <2>1, NoneCloses
    <3> QED  BY <2>1, <3>1 DEF AnswersMatchRequests, BadRequest
  <2>5. CloseIsLast'
    <3>1. \A i \in 1 .. Len(messages) : ~ out'[i].close
      BY <1>9, <2>1, NoneCloses
    <3>2. out'[n].close = close
      BY <1>2, <2>1
    <3>3. \A i \in 1 .. n : out'[i].close => i = n /\ conn' # "connected"
      BY <2>1, <3>1, <3>2
    <3>4. conn' = "disconnecting" => out' # <<>> /\ out'[n].close
      BY <1>1, <1>4, <2>1, <3>2 DEF TypeOK
    <3> QED  BY <2>1, <3>3, <3>4 DEF CloseIsLast
  <2> QED  BY <1>4, <1>5, <1>6, <1>8, <2>2, <2>3, <2>4, <2>5 DEF IInv
<1>10. CASE conn # "connected"
  <2>1. out' = out /\ conn' = conn
    BY <1>2, <1>3, <1>10, SendAppends DEF IInv, Shutdown
  <2>2. OneToOne' /\ CloseIsLast'
    BY <1>10, <2>1 DEF IInv, OneToOne, CloseIsLast
  <2>3. Behind'
    BY <2>1, <1>3, HandsOut, StateFacts DEF IInv, Behind
  <2>4. AnswersMatchRequests'
    BY <1>3, <1>10, <2>1, HandsOut, StateFacts DEF IInv, AnswersMatchRequests, BadRequest
  <2> QED  BY <1>4, <1>5, <1>6, <1>8, <2>2, <2>3, <2>4 DEF IInv
<1> QED  BY <1>9, <1>10

LEMMA OnCallbackThrowIInv ==
  ASSUME IInv, OnCallbackThrow
  PROVE  IInv'
<1> DEFINE a == BadRequest(start)
<1>0. PICK n \in Nat : n = Len(messages) + 1
  BY StateFacts DEF IInv
<1>1. /\ a \in Answers /\ a.id = start /\ a.close = TRUE /\ a.status = "400"
      /\ a # BadRequest(-1)
  BY StateFacts DEF IInv, Answers, BadRequest
<1>2. /\ ret = "true" /\ ret' = "none" /\ Ctx!GetRequest /\ Send(<<a>>) /\ Shutdown
      /\ UNCHANGED <<stream, rd, state_, request_, start, bad, fresh, reads>>
  BY DEF OnCallbackThrow, Reject
<1> HIDE DEF a
<1>3. TypeOK'
  BY <1>1, <1>2, HandOutTypes
<1>4. RedispatchUnanswered'
  BY <1>1, <1>2, HandOutRedispatch, SendAppends DEF IInv
<1>5. conn # "connecting" /\ conn' # "connected" /\ state_' = "FINISH"
  BY <1>2, HandsOut DEF IInv, Connecting, Idle, Shutdown
<1>6. Connecting' /\ Finished' /\ OneToOne'
  BY <1>2, <1>5 DEF Connecting, Finished, OneToOne, Shutdown
<1>7. CASE conn = "connected"
  <2>1. /\ Len(out') = n /\ out'[n] = a /\ \A i \in 1 .. Len(out) : out'[i] = out[i]
        /\ Len(out) = Len(messages) /\ Len(messages') = n /\ n \in Nat
        /\ 1 .. n = 1 .. Len(messages) \cup {n}
        /\ messages'[n].from = start /\ messages'[n].to = rd
        /\ \A i \in 1 .. Len(messages) : messages'[i] = messages[i]
        /\ conn' = "disconnecting"
    BY <1>0, <1>1, <1>2, <1>7, SendAppends, NoneCloses, HandsOut, StateFacts DEF IInv, Shutdown
  <2>2. Behind'
    BY <2>1 DEF Behind
  <2>3. AnswersMatchRequests'
    <3>1. \A i \in 1 .. n : out'[i] # BadRequest(-1) /\ out'[i].id = messages'[i].from
      BY <1>1, <1>7, <2>1, NoneCloses
    <3> QED  BY <1>5, <2>1, <3>1 DEF AnswersMatchRequests, BadRequest
  <2>4. CloseIsLast'
    <3>1. \A i \in 1 .. Len(messages) : ~ out'[i].close
      BY <1>7, <2>1, NoneCloses
    <3>2. out'[n].close /\ out' # <<>>
      BY <1>1, <1>3, <2>1 DEF TypeOK
    <3> QED  BY <1>5, <2>1, <3>1, <3>2 DEF CloseIsLast
  <2>5. Ahead'
    <3>1. Unreset(n)'
      BY <1>1, <1>2, <1>5, <2>1 DEF Unreset
    <3>2. ASSUME NEW i \in 1 .. Len(messages) PROVE Taken(messages'[i], start)
      BY <1>7, <2>1, HandsOut, <1>2 DEF Unreset
    <3> QED  BY <1>0, <1>2, <1>5, <2>1, <3>1, <3>2, HandsOut DEF Ahead, Taken
  <2> QED  BY <1>3, <1>4, <1>6, <2>2, <2>3, <2>4, <2>5 DEF IInv
<1>8. CASE conn # "connected"
  <2>1. out' = out /\ conn' = conn
    BY <1>1, <1>2, <1>8, SendAppends DEF IInv, Shutdown
  <2>2. CloseIsLast'
    BY <1>8, <2>1 DEF IInv, CloseIsLast
  <2>3. Behind'
    BY <2>1, <1>2, HandsOut, StateFacts DEF IInv, Behind
  <2>4. AnswersMatchRequests'
    <3>1. ASSUME NEW i \in 1 .. Len(out), out[i] # BadRequest(-1)
          PROVE  i <= Len(messages') /\ out[i].id = messages'[i].from
      <4>1. i \in 1 .. Len(messages) /\ out[i].id = messages[i].from
        BY <3>1, StateFacts DEF IInv, AnswersMatchRequests
      <4> QED  BY <1>2, <4>1, HandsOut
    <3>2. \A i \in 1 .. Len(out) : out[i] = BadRequest(-1) => i = Len(out)
      BY DEF IInv, AnswersMatchRequests
    <3> QED  BY <1>8, <2>1, <3>1, <3>2 DEF AnswersMatchRequests, BadRequest
  <2>5. Ahead'
    <3>1. Unreset(n)'
      <4>1. messages'[n].from = start /\ messages'[n].to = rd
        BY <1>0, <1>2, HandsOut
      <4>2. Len(out) <= n /\ (Len(out) = n => out[n].status = "400")
        BY <1>0 DEF IInv, Behind
      <4> QED  BY <1>2, <1>5, <2>1, <4>1, <4>2 DEF Unreset
    <3>2. ASSUME NEW i \in 1 .. Len(messages)
          PROVE  Taken(messages'[i], start) \/ Unreset(i)'
      BY <1>2, <1>5, <1>8, <2>1, HandsOut DEF Unreset
    <3> QED  BY <1>0, <1>2, <1>5, <3>1, <3>2, HandsOut DEF Ahead, Taken
  <2> QED  BY <1>3, <1>4, <1>6, <2>2, <2>3, <2>4, <2>5 DEF IInv
<1> QED  BY <1>7, <1>8

-----------------------------------------------------------------------------
LEMMA StutterIInv ==
  ASSUME IInv, UNCHANGED vars
  PROVE  IInv'
BY DEF vars, context, IInv, TypeOK, Ctx!TypeOK, Ctx!content_length, Ctx!Requests, Answers,
   Connecting, Finished, OneToOne, Behind, Ahead, Taken, Unreset, Idle,
   AnswersMatchRequests, CloseIsLast, RedispatchUnanswered, BadRequest

LEMMA NextIInv == IInv /\ [Next]_vars => IInv'
<1> SUFFICES ASSUME IInv, [Next]_vars PROVE IInv'  OBVIOUS
<1>1. ASSUME NEW u \in Alphabet, Arrive(u) PROVE IInv'
  BY <1>1, ArriveIInv
<1>2. CASE OnConnectionUp \/ OnConnectionDown
  BY <1>2, OnConnectionUpIInv, OnConnectionDownIInv
<1>3. CASE OnMessage \/ ParseStep
  BY <1>3, OnMessageIInv, ParseStepIInv
<1>4. CASE OnRejected
  BY <1>4, RejectIInv DEF OnRejected
<1>5. CASE OnThrow
  BY <1>5, RejectIInv DEF OnThrow
<1>6. CASE OnCallbackThrow
  BY <1>6, OnCallbackThrowIInv
<1>7. ASSUME NEW o \in CallbackOutcomes, OnParsed(o) PROVE IInv'
  BY <1>7, OnParsedIInv
<1>8. CASE UNCHANGED vars
  BY <1>8, StutterIInv
<1> QED  BY <1>1, <1>2, <1>3, <1>4, <1>5, <1>6, <1>7, <1>8 DEF Next, Loop

LEMMA AlwaysIInv == Spec => []IInv
BY InitIInv, NextIInv, PTL DEF Spec

(* Connection, context and answers keep their types.                       *)
THEOREM TypeCorrect == Spec => []TypeOK
<1>1. IInv => TypeOK  BY DEF IInv
<1> QED  BY <1>1, AlwaysIInv, PTL

(* However the requests are cut into reads and whatever the callback does, *)
(* the k-th answer is the answer to the k-th request                       *)
(* (http_server.cpp:138-141, 149-160).                                     *)
THEOREM AnswersInOrder == Spec => []AnswersMatchRequests
<1>1. IInv => AnswersMatchRequests  BY DEF IInv
<1> QED  BY <1>1, AlwaysIInv, PTL

(* Nothing follows an answer that closes (http_server.cpp:134-135,162-164).*)
THEOREM NothingBehindClose == Spec => []CloseIsLast
<1>1. IInv => CloseIsLast  BY DEF IInv
<1> QED  BY <1>1, AlwaysIInv, PTL

(* A request whose callback threw may be dispatched again, any number of   *)
(* times, but is not answered again (http_server.cpp:138-146).             *)
THEOREM NoSecondAnswer == Spec => []RedispatchUnanswered
<1>1. IInv => RedispatchUnanswered  BY DEF IInv
<1> QED  BY <1>1, AlwaysIInv, PTL

(* A read event is answered once (http_server.cpp:131-141).                *)
THEOREM ReadIsAnsweredOnce == Spec => []OneAnswerPerRead
<1>1. IInv => OneAnswerPerRead
  BY StateFacts DEF IInv, OneToOne, OneAnswerPerRead
<1> QED  BY <1>1, AlwaysIInv, PTL

-----------------------------------------------------------------------------
(* The body that Reset leaves in the context.  NoForeignBody is not        *)
(* inductive: it needs Carried, what the context holds between two         *)
(* requests, and Sized, that only a request that announces a body gets to  *)
(* the state in which one is copied.  BodyIsLast is what this code does.   *)

LastBody(i) == IF i = 0 THEN <<>> ELSE messages[i].request.body

BodyIsLast ==
  \A i \in 1 .. Len(messages) :
    ~ Ctx!HasBody(messages[i].request) => messages[i].request.body = LastBody(i - 1)

Sized == state_ = "BODY" => Ctx!HasBody(request_)

Carried ==
  ~ (state_ = "FINISH" /\ Ctx!HasBody(request_)) => request_.body = LastBody(Len(messages))

BInv == IInv /\ Sized /\ Carried /\ BodyIsLast /\ NoForeignBody

LEMMA IterationBody ==
  ASSUME Ctx!TypeOK, Ctx!Iteration, Sized
  PROVE  /\ Sized'
         /\ \/ UNCHANGED <<state_, request_>>
            \/ state_ # "FINISH" /\ request_'.body = request_.body
            \/ state_ # "FINISH" /\ state_' = "FINISH" /\ Ctx!HasBody(request_')
<1>1. request_ \in Ctx!Requests
  BY DEF Ctx!TypeOK
<1>2. CASE Ctx!NeedLine \/ Ctx!RejectLine \/ Ctx!EndThrows \/ Ctx!NeedBody \/ Ctx!AlreadyFinished
  <2>1. UNCHANGED <<state_, request_>>
    BY <1>2, Zenon DEF Ctx!NeedLine, Ctx!RejectLine, Ctx!EndThrows, Ctx!NeedBody, Ctx!AlreadyFinished
  <2> QED  BY <2>1 DEF Sized
<1>3. CASE Ctx!RequestLine
  <2>1. /\ state_ = "REQUEST_LINE" /\ state_' = "HEADERS"
        /\ request_' = [request_ EXCEPT !.method = Ctx!MethodOf(Ctx!line),
                                        !.version = Ctx!VersionOf(Ctx!line)]
    BY <1>3 DEF Ctx!RequestLine, Ctx!Running
  <2> QED  BY <1>1, <2>1 DEF Sized, Ctx!Requests
<1>4. CASE Ctx!HeaderLine
  <2>1. /\ state_ = "HEADERS" /\ state_' = "HEADERS"
        /\ request_' = [request_ EXCEPT !.headers =
                          Ctx!AddHeader(@, Ctx!KeyOf(Ctx!line), Ctx!ValueOf(Ctx!line))]
    BY <1>4 DEF Ctx!HeaderLine, Ctx!Running
  <2> QED  BY <1>1, <2>1 DEF Sized, Ctx!Requests
<1>5. CASE Ctx!EndWithoutBody
  <2>1. state_ = "HEADERS" /\ state_' = "FINISH" /\ request_' = request_
    BY <1>5, Zenon DEF Ctx!EndWithoutBody, Ctx!AtEmptyLine, Ctx!Running
  <2> QED  BY <2>1 DEF Sized
<1>6. CASE Ctx!EndWithBody
  <2>1. /\ state_ = "HEADERS" /\ Ctx!HasBody(request_)
        /\ request_' = [request_ EXCEPT !.body_length = Stoul[Ctx!content_length]]
    BY <1>6 DEF Ctx!EndWithBody, Ctx!AtEmptyLine, Ctx!Running, Ctx!HasBody, Ctx!content_length
  <2>2. request_'.body = request_.body /\ request_'.headers = request_.headers
    BY <1>1, <2>1 DEF Ctx!Requests
  <2> QED  BY <2>1, <2>2 DEF Sized, Ctx!HasBody
<1>7. CASE Ctx!Body
  <2>1. /\ state_ = "BODY" /\ state_' = "FINISH"
        /\ request_' = [request_ EXCEPT !.body =
                          SubSeq(stream, rd + 1, rd + request_.body_length)]
    BY <1>7 DEF Ctx!Body, Ctx!Running
  <2>2. request_'.headers = request_.headers
    BY <1>1, <2>1 DEF Ctx!Requests
  <2> QED  BY <2>1, <2>2 DEF Sized, Ctx!HasBody
<1> QED
  BY <1>2, <1>3, <1>4, <1>5, <1>6, <1>7 DEF Ctx!Iteration

(* The request handed out leaves its body in the context.                  *)
LEMMA HandOutBody ==
  ASSUME BInv, ret = "true", Ctx!GetRequest,
         request_'.body = request_.body, state_' # "BODY"
  PROVE  Sized' /\ Carried' /\ BodyIsLast' /\ NoForeignBody'
<1>0. PICK n \in Nat : n = Len(messages)
  BY StateFacts DEF BInv, IInv
<1>1. /\ Len(messages') = n + 1
      /\ 1 .. n + 1 = 1 .. n \cup {n + 1}
      /\ \A i \in 1 .. n : messages'[i] = messages[i]
  BY <1>0, HandsOut DEF BInv
<1>2. messages'[n + 1].request = request_
  <2> DEFINE m == [from |-> start, to |-> rd, clean |-> ~ bad, request |-> request_]
  <2>1. m \in Message /\ messages \in Seq(Message) /\ messages' = Append(messages, m)
    BY StateFacts DEF BInv, IInv, TypeOK, Ctx!TypeOK, Message, Ctx!GetRequest
  <2>2. m.request = request_
    OBVIOUS
  <2> HIDE DEF m
  <2> QED  BY <1>0, <2>1, <2>2, AppendProperties
<1>3. \A i \in 0 .. n : LastBody(i)' = LastBody(i)
  BY <1>1 DEF LastBody
<1>4. LastBody(n + 1)' = request_.body
  BY <1>1, <1>2 DEF LastBody
<1>5. Carried'
  BY <1>1, <1>4 DEF Carried, LastBody
<1>6. ASSUME NEW i \in 1 .. n + 1, ~ Ctx!HasBody(messages'[i].request)
      PROVE  messages'[i].request.body = LastBody(i - 1)'
  <2>1. CASE i \in 1 .. n
    <3>1. messages'[i] = messages[i] /\ i - 1 \in 0 .. n
      BY <1>1, <2>1
    <3> QED  BY <1>0, <1>3, <1>6, <2>1, <3>1 DEF BInv, BodyIsLast
  <2>2. CASE i = n + 1
    <3>1. request_.body = LastBody(n)
      BY <1>0, <1>2, <1>6, <2>2 DEF BInv, Carried
    <3>2. i - 1 = n /\ n \in 0 .. n
      BY <1>1, <2>2
    <3> QED  BY <1>2, <1>3, <2>2, <3>1, <3>2
  <2> QED  BY <1>1, <2>1, <2>2
<1>7. BodyIsLast'
  BY <1>1, <1>6 DEF BodyIsLast, Ctx!HasBody, Ctx!GetHeader, LastBody
<1> DEFINE From(i, j) == /\ Ctx!HasBody(messages[j].request)
                         /\ messages[j].request.body = messages[i].request.body
                         /\ \A k \in j + 1 .. i - 1 : ~ Ctx!HasBody(messages[k].request)
<1>8. \A i \in 1 .. n :
        ~ Ctx!HasBody(messages[i].request) /\ messages[i].request.body # <<>> =>
          \E j \in 1 .. i - 1 : From(i, j)
  BY <1>0 DEF BInv, NoForeignBody
<1>9. ASSUME NEW i \in 1 .. n + 1, ~ Ctx!HasBody(messages'[i].request),
             messages'[i].request.body # <<>>
      PROVE  \E j \in 1 .. i - 1 : From(i, j)'
  <2>1. CASE i \in 1 .. n
    <3>1. PICK j \in 1 .. i - 1 : From(i, j)
      BY <1>1, <1>8, <1>9, <2>1
    <3>2. j \in 1 .. n /\ \A k \in j + 1 .. i - 1 : k \in 1 .. n
      BY <2>1
    <3>3. From(i, j)'
      BY <1>1, <2>1, <3>1, <3>2 DEF Ctx!HasBody, Ctx!GetHeader
    <3> QED  BY <3>3
  <2>2. CASE i = n + 1
    <3>1. messages'[i].request.body = LastBody(n)
      BY <1>0, <1>2, <1>9, <2>2 DEF BInv, Carried
    <3>2. n \in 1 .. n /\ messages[n].request.body = messages'[i].request.body
      BY <1>9, <3>1 DEF LastBody
    <3>3. CASE Ctx!HasBody(messages[n].request)
      <4>1. i - 1 = n /\ messages'[n] = messages[n] /\ n + 1 .. i - 1 = {}
        BY <1>1, <2>2, <3>2
      <4>2. Ctx!HasBody(messages[n].request)' /\ messages'[n].request.body = messages'[i].request.body
        BY <3>2, <3>3, <4>1 DEF Ctx!HasBody, Ctx!GetHeader
      <4> QED  BY <3>2, <4>1, <4>2
    <3>4. CASE ~ Ctx!HasBody(messages[n].request)
      <4>1. PICK j \in 1 .. n - 1 : From(n, j)
        BY <1>8, <1>9, <3>2, <3>4
      <4>2. \A k \in j + 1 .. n : k = n \/ k \in j + 1 .. n - 1
        BY <4>1
      <4>3. j \in 1 .. n /\ \A k \in j + 1 .. n : k \in 1 .. n
        BY <4>1
      <4>4. /\ \A k \in j + 1 .. n : ~ Ctx!HasBody(messages[k].request)
            /\ Ctx!HasBody(messages[j].request)
            /\ messages[j].request.body = messages'[i].request.body
        BY <3>2, <3>4, <4>1, <4>2
      <4>5. /\ i - 1 = n /\ messages'[j] = messages[j]
            /\ \A k \in j + 1 .. i - 1 : messages'[k] = messages[k]
        BY <1>1, <2>2, <4>3
      <4>6. /\ Ctx!HasBody(messages[j].request)' /\ messages'[j].request.body = messages'[i].request.body
            /\ \A k \in j + 1 .. i - 1 : ~ Ctx!HasBody(messages[k].request)'
        BY <4>4, <4>5 DEF Ctx!HasBody, Ctx!GetHeader
      <4>7. j \in 1 .. i - 1
        BY <2>2, <4>3
      <4> QED  BY <4>6, <4>7
    <3> QED  BY <3>3, <3>4
  <2> QED  BY <1>1, <2>1, <2>2
<1>10. NoForeignBody'
  BY <1>1, <1>9 DEF NoForeignBody, Ctx!HasBody, Ctx!GetHeader
<1> QED  BY <1>5, <1>7, <1>10 DEF Sized

LEMMA SameBodies ==
  ASSUME UNCHANGED messages
  PROVE  /\ LastBody(Len(messages))' = LastBody(Len(messages))
         /\ BodyIsLast => BodyIsLast'
         /\ NoForeignBody => NoForeignBody'
BY DEF LastBody, BodyIsLast, NoForeignBody, Ctx!HasBody, Ctx!GetHeader

LEMMA NextBInv == BInv /\ [Next]_vars => BInv'
<1> SUFFICES ASSUME BInv, [Next]_vars PROVE BInv'  OBVIOUS
<1>1. IInv /\ IInv' /\ request_ \in Ctx!Requests
  BY NextIInv DEF BInv, IInv, TypeOK, Ctx!TypeOK
<1>2. CASE UNCHANGED <<state_, request_, messages>>
  BY <1>1, <1>2, SameBodies DEF BInv, Sized, Carried
<1>3. CASE OnConnectionUp
  <2>1. /\ state_' = "REQUEST_LINE" /\ request_' = Ctx!NewRequest
        /\ messages' = messages /\ Len(messages) = 0
    BY <1>1, <1>3 DEF OnConnectionUp, IInv, Connecting
  <2>2. request_'.body = <<>> /\ LastBody(Len(messages)) = <<>>
    BY <2>1 DEF Ctx!NewRequest, LastBody
  <2> QED  BY <1>1, <2>1, <2>2, SameBodies DEF BInv, Sized, Carried
<1>4. CASE ParseStep
  <2>1. Ctx!TypeOK /\ Ctx!Iteration
    BY <1>1, <1>4 DEF ParseStep, IInv, TypeOK
  <2>2. UNCHANGED messages
    BY <2>1, IterationFacts
  <2>3. /\ Sized'
        /\ \/ UNCHANGED <<state_, request_>>
           \/ state_ # "FINISH" /\ request_'.body = request_.body
           \/ state_ # "FINISH" /\ state_' = "FINISH" /\ Ctx!HasBody(request_')
    BY <2>1, IterationBody DEF BInv
  <2>4. Carried'
    BY <2>2, <2>3, SameBodies DEF BInv, Carried, Ctx!HasBody, Ctx!GetHeader
  <2> QED  BY <1>1, <2>2, <2>3, <2>4, SameBodies DEF BInv
<1>5. CASE OnCallbackThrow
  <2>1. ret = "true" /\ Ctx!GetRequest /\ UNCHANGED <<state_, request_>>
    BY <1>5 DEF OnCallbackThrow
  <2>2. state_ = "FINISH"
    BY <1>1, <2>1 DEF IInv, Finished
  <2> QED  BY <1>1, <2>1, <2>2, HandOutBody DEF BInv
<1>6. ASSUME NEW o \in CallbackOutcomes, OnParsed(o) PROVE BInv'
  <2>1. /\ ret = "true" /\ Ctx!GetRequest /\ state_' = "REQUEST_LINE"
        /\ request_' = Ctx!Swapped(request_)
    BY <1>6 DEF OnParsed, Ctx!Reset
  <2>2. request_'.body = request_.body
    BY <2>1 DEF Ctx!Swapped, Ctx!NewRequest
  <2> QED  BY <1>1, <2>1, <2>2, HandOutBody DEF BInv
<1>7. CASE \E u \in Alphabet : Arrive(u)
  BY <1>2, <1>7 DEF Arrive, Ctx!Receive
<1>8. CASE OnConnectionDown \/ OnMessage \/ OnRejected \/ OnThrow \/ UNCHANGED vars
  BY <1>2, <1>8 DEF OnConnectionDown, OnMessage, Ctx!ParseRequest, OnRejected, OnThrow, vars, context
<1> QED  BY <1>3, <1>4, <1>5, <1>6, <1>7, <1>8 DEF Next, Loop

(* A request without a Content-Length is handed out with no body or with   *)
(* the last announced one, however the reads fell and whatever the         *)
(* callback did (http_request.hpp:74-83, http_context.cpp:63-75).          *)
THEOREM OnlyAnnouncedBytes == Spec => []NoForeignBody
<1>1. Init => BInv
  <2> SUFFICES ASSUME Init PROVE BInv  OBVIOUS
  <2>1. /\ Len(messages) = 0 /\ state_ = "REQUEST_LINE" /\ request_ = Ctx!NewRequest
    BY DEF Init, Ctx!Init
  <2>2. request_.body = <<>> /\ LastBody(Len(messages)) = <<>>
    BY <2>1 DEF Ctx!NewRequest, LastBody
  <2> QED  BY <2>1, <2>2, InitIInv DEF BInv, Sized, Carried, BodyIsLast, NoForeignBody
<1>2. BInv => NoForeignBody  BY DEF BInv
<1> QED  BY <1>1, <1>2, NextBInv, PTL DEF Spec

=============================================================================
