------------------------- MODULE HttpContextProofs -------------------------
(***************************************************************************)
(* HttpContext, for every alphabet, every value of std::stoul and every    *)
(* bound on the stream: the types are kept, the requests handed out occupy *)
(* disjoint stretches of the stream, a request with a body carries the     *)
(* slice of the stream that its Content-Length announced, and an iteration *)
(* that does not end the call has retrieved something.                     *)
(***************************************************************************)
EXTENDS HttpContext, SequenceTheorems, WellFoundedInduction, TLAPS

-----------------------------------------------------------------------------
(* The line in front of the first break.                                   *)

(* FindCRLF is the first break of the readable units.                      *)
LEMMA FirstBreak ==
  ASSUME stream \in Seq(Alphabet), rd \in Nat, Breaks # {}
  PROVE  /\ FindCRLF \in rd + 1 .. Len(stream)
         /\ stream[FindCRLF] = CRLF
         /\ \A i \in rd + 1 .. FindCRLF - 1 : stream[i] # CRLF
  <1>1. Breaks \subseteq Nat /\ Breaks \subseteq rd + 1 .. Len(stream)
    BY DEF Breaks
  <1>2. PICK m \in Breaks : \A y \in Breaks : ~ (<<y, m>> \in OpToRel(<, Nat))
    BY <1>1, NatLessThanWellFounded, WFMin
  <1>3. \A y \in Breaks : m <= y
    <2>1. SUFFICES ASSUME NEW y \in Breaks, y < m
                   PROVE  FALSE
      BY <1>1
    <2>2. y \in Nat /\ m \in Nat
      BY <1>1
    <2>3. <<y, m>> \in OpToRel(<, Nat)
      BY <2>1, <2>2, Zenon DEF OpToRel
    <2>4. QED
      BY <1>2, <2>3
  <1>4. FindCRLF \in Breaks /\ \A y \in Breaks : FindCRLF <= y
    BY <1>3 DEF FindCRLF
  <1>5. FindCRLF \in rd + 1 .. Len(stream) /\ stream[FindCRLF] = CRLF
    BY <1>4 DEF Breaks
  <1>6. ASSUME NEW i \in rd + 1 .. FindCRLF - 1, stream[i] = CRLF
        PROVE  FALSE
    <2>1. i \in Breaks
      BY <1>5, <1>6 DEF Breaks
    <2>2. QED
      BY <1>4, <1>5, <1>6, <2>1
  <1>7. QED
    BY <1>5, <1>6

(* The line is a sequence of texts: it holds no break.                     *)
LEMMA LineOfTexts ==
  ASSUME stream \in Seq(Alphabet), rd \in Nat, Breaks # {}
  PROVE  line \in Seq(Alphabet \ {CRLF})
  <1>1. \A i \in rd + 1 .. FindCRLF - 1 : stream[i] \in Alphabet \ {CRLF}
    BY FirstBreak
  <1>2. rd + 1 \in Int /\ FindCRLF - 1 \in Int
    BY FirstBreak
  <1>3. SubSeq(stream, rd + 1, FindCRLF - 1) \in Seq(Alphabet \ {CRLF})
    BY <1>1, <1>2, SubSeqProperties
  <1>4. QED
    BY <1>3 DEF line

-----------------------------------------------------------------------------
(* What the line parsers extract has the types of a request.               *)

LEMMA RequestLineType ==
  ASSUME NEW l \in Seq(Alphabet \ {CRLF}), ParseRequestLine(l)
  PROVE  MethodOf(l) \in Methods /\ VersionOf(l) \in Versions
  <1>1. Len(l) \in Nat \ {0} /\ l[1] \in Alphabet \ {CRLF} /\ l[Len(l)] \in Alphabet \ {CRLF}
    BY DEF ParseRequestLine
  <1>2. l[Len(l)].kind \in {"request", "both"}
    BY DEF ParseRequestLine
  <1>3. MethodOf(l) \in Methods
    BY <1>1, <1>2 DEF MethodOf, Methods, Texts
  <1>4. VersionOf(l) \in Versions
    BY <1>1, <1>2 DEF VersionOf, Versions, Texts
  <1>5. QED
    BY <1>3, <1>4

LEMMA HeaderLineType ==
  ASSUME NEW l \in Seq(Alphabet \ {CRLF}), ParseHeaderLine(l)
  PROVE  KeyOf(l) \in Keys /\ ValueOf(l) \in Values
  <1>1. Len(l) \in Nat \ {0} /\ l[1] \in Alphabet \ {CRLF} /\ l[Len(l)] \in Alphabet \ {CRLF}
    BY DEF ParseHeaderLine
  <1>2. l[Len(l)].kind \in {"header", "both"}
    BY DEF ParseHeaderLine
  <1>3. KeyOf(l) \in Keys
    BY <1>1, <1>2 DEF KeyOf, Keys, Texts
  <1>4. ValueOf(l) \in Values
    BY <1>1, <1>2, AlphabetAssumption DEF WellFormed, ValueOf, Values
  <1>5. QED
    BY <1>3, <1>4

(* The headers of a request: partial functions from Keys to Values.        *)
HeaderMaps == UNION {[ks -> Values] : ks \in SUBSET Keys}

LEMMA AddHeaderType ==
  ASSUME NEW h \in HeaderMaps, NEW k \in Keys, NEW v \in Values
  PROVE  AddHeader(h, k, v) \in HeaderMaps
  <1>1. PICK ks \in SUBSET Keys : h \in [ks -> Values]
    BY DEF HeaderMaps
  <1>2. AddHeader(h, k, v) \in [ks \cup {k} -> Values]
    BY <1>1 DEF AddHeader
  <1>3. ks \cup {k} \in SUBSET Keys
    OBVIOUS
  <1>4. QED
    BY <1>2, <1>3 DEF HeaderMaps

(* A header that is missing reads as "", which std::stoul throws on or not.*)
LEMMA GetHeaderType ==
  ASSUME NEW h \in HeaderMaps, NEW k
  PROVE  /\ GetHeader(h, k) \in Values
         /\ Stoul[GetHeader(h, k)] \in Nat \cup {-1}
  <1>1. PICK ks \in SUBSET Keys : h \in [ks -> Values]
    BY DEF HeaderMaps
  <1>2. GetHeader(h, k) \in Values
    BY <1>1, AlphabetAssumption DEF WellFormed, GetHeader, Values
  <1>3. QED
    BY <1>2, AlphabetAssumption DEF WellFormed, Values

-----------------------------------------------------------------------------
(* The inductive invariant.  EachByteOnce is not inductive: that a request *)
(* handed out next begins after the last one needs to know that its first  *)
(* line was retrieved after that one was handed out, and that this line    *)
(* was not empty of units.  BodyIsSlice needs what the parser knows once   *)
(* the body has been copied and before the request is taken.               *)

Taken(m, n) == m.from < m.to /\ m.to <= n

Ahead ==
  /\ state_ # "REQUEST_LINE" => start < rd
  /\ \A i \in 1 .. Len(messages) :
       Taken(messages[i], IF state_ = "REQUEST_LINE" THEN rd ELSE start)

Slice(r, from, to) ==
  HasBody(r) =>
    /\ r.body_length = Stoul[GetHeader(r.headers, "Content-Length")]
    /\ from + r.body_length < to
    /\ r.body = SubSeq(stream, to - r.body_length + 1, to)

Copied == state_ = "FINISH" => Slice(request_, start, rd)

IInv == TypeOK /\ EachByteOnce /\ Ahead /\ BodyIsSlice /\ Copied

-----------------------------------------------------------------------------
(* Type correctness.                                                       *)

Message == [from : Nat, to : Nat, clean : BOOLEAN, request : Requests]

LEMMA RequestsHeaders ==
  Requests = [method : Methods, version : Versions, headers : HeaderMaps,
              body : Seq(Alphabet), body_length : Nat \cup {Unset}]
  BY DEF Requests, HeaderMaps

LEMMA ContentLengthType ==
  ASSUME request_ \in Requests
  PROVE  content_length \in Values /\ Stoul[content_length] \in Nat \cup {-1}
  <1>1. request_.headers \in HeaderMaps
    BY RequestsHeaders
  <1>2. QED
    BY <1>1, GetHeaderType DEF content_length

LEMMA NewRequestType == NewRequest \in Requests
  <1>1. <<>> \in HeaderMaps
    <2>1. <<>> \in [{} -> Values]
      OBVIOUS
    <2>2. {} \in SUBSET Keys
      OBVIOUS
    <2>3. QED
      BY <2>1, <2>2 DEF HeaderMaps
  <1>2. "kInvalid" \in Methods /\ "Unknown" \in Versions
    BY DEF Methods, Versions
  <1>3. <<>> \in Seq(Alphabet)
    OBVIOUS
  <1>4. QED
    BY <1>1, <1>2, <1>3, RequestsHeaders DEF NewRequest, Unset

(* The initial state.                                                      *)
LEMMA InitIInv == Init => IInv
  <1>1. SUFFICES ASSUME Init PROVE IInv
    OBVIOUS
  <1>2. TypeOK
    <2>1. stream \in Seq(Alphabet) /\ Len(stream) = 0 /\ rd = 0 /\ start = 0
      BY <1>1 DEF Init
    <2>2. state_ = "REQUEST_LINE" /\ ret = "none" /\ bad = FALSE
      BY <1>1 DEF Init
    <2>3. request_ \in Requests
      BY <1>1, NewRequestType DEF Init
    <2>4. messages \in Seq(Message)
      BY <1>1 DEF Init
    <2>5. Len(stream) <= MaxLen /\ rd \in 0 .. Len(stream) /\ start \in 0 .. rd
      BY <2>1, MaxLenAssumption
    <2>6. QED
      BY <2>1, <2>2, <2>3, <2>4, <2>5 DEF TypeOK, States, Outcomes, Message
  <1>3. QED
    BY <1>1, <1>2 DEF Init, IInv, EachByteOnce, Ahead, BodyIsSlice, Copied

(* A step keeps the types: one step per action.                            *)
LEMMA NextTypeOK == TypeOK /\ [Next]_vars => TypeOK'
  <1>1. SUFFICES ASSUME TypeOK, [Next]_vars PROVE TypeOK'
    OBVIOUS
  <1> USE <1>1 DEF TypeOK
  <1>2. CASE \E u \in Alphabet : Receive(u)
    <2>1. PICK u \in Alphabet : Receive(u)
      BY <1>2
    <2>2. stream' \in Seq(Alphabet) /\ Len(stream') = Len(stream) + 1
      BY <2>1, AppendProperties DEF Receive
    <2>3. QED
      BY <2>1, <2>2, MaxLenAssumption DEF Receive, Outcomes, content_length
  <1>3. CASE ParseRequest
    BY <1>3 DEF ParseRequest, Outcomes, content_length
  <1>4. CASE NeedLine
    BY <1>4 DEF NeedLine, Return, Outcomes, content_length, Running
  <1>5. CASE RejectLine
    <2>1. FindCRLF \in rd + 1 .. Len(stream)
      BY <1>5, FirstBreak DEF RejectLine
    <2>2. QED
      BY <1>5, <2>1 DEF RejectLine, RetrieveLine, Return, Outcomes, content_length
  <1>6. CASE RequestLine
    <2>1. FindCRLF \in rd + 1 .. Len(stream)
      BY <1>6, FirstBreak DEF RequestLine
    <2>2. MethodOf(line) \in Methods /\ VersionOf(line) \in Versions
      BY <1>6, LineOfTexts, RequestLineType DEF RequestLine
    <2>3. request_' \in Requests
      BY <1>6, <2>2 DEF RequestLine, Requests
    <2>4. QED
      BY <1>6, <2>1, <2>3 DEF RequestLine, RetrieveLine, Continue, States
  <1>7. CASE HeaderLine
    <2>1. FindCRLF \in rd + 1 .. Len(stream)
      BY <1>7, FirstBreak DEF HeaderLine
    <2>2. KeyOf(line) \in Keys /\ ValueOf(line) \in Values
      BY <1>7, LineOfTexts, HeaderLineType DEF HeaderLine
    <2>3. AddHeader(request_.headers, KeyOf(line), ValueOf(line)) \in HeaderMaps
      BY <2>2, AddHeaderType, RequestsHeaders
    <2>4. request_' \in Requests
      BY <1>7, <2>3, RequestsHeaders DEF HeaderLine
    <2>5. QED
      BY <1>7, <2>1, <2>4 DEF HeaderLine, RetrieveLine, Continue, Running
  <1>8. CASE EndWithoutBody
    <2>1. FindCRLF \in rd + 1 .. Len(stream)
      <3>1. Breaks # {}
        BY <1>8, Zenon DEF EndWithoutBody, AtEmptyLine
      <3>2. QED
        BY <3>1, FirstBreak
    <2>2. /\ rd' = FindCRLF /\ state_' = "FINISH" /\ ret' = "true"
          /\ UNCHANGED <<stream, messages, request_, start, bad>>
      BY <1>8, Zenon DEF EndWithoutBody, RetrieveLine, Return
    <2>3. QED
      BY <2>1, <2>2 DEF Outcomes, States
  <1>9. CASE EndWithBody
    <2>1. FindCRLF \in rd + 1 .. Len(stream)
      <3>1. Breaks # {}
        BY <1>9, Zenon DEF EndWithBody, AtEmptyLine
      <3>2. QED
        BY <3>1, FirstBreak
    <2>2. Stoul[content_length] \in Nat
      BY <1>9, ContentLengthType DEF EndWithBody
    <2>3. request_' \in Requests
      BY <1>9, <2>2 DEF EndWithBody, Requests
    <2>4. content_length' = content_length /\ request_'.body_length = Stoul[content_length]
      BY <1>9, <2>2 DEF EndWithBody, content_length, Requests
    <2>5. /\ rd' = FindCRLF /\ state_' = "BODY"
          /\ UNCHANGED <<stream, ret, messages, start, bad>>
      BY <1>9, Zenon DEF EndWithBody, RetrieveLine, Continue
    <2>6. QED
      BY <2>1, <2>2, <2>3, <2>4, <2>5 DEF States, Unset
  <1>10. CASE EndThrows
    <2>1. FindCRLF \in rd + 1 .. Len(stream)
      <3>1. Breaks # {}
        BY <1>10, Zenon DEF EndThrows, AtEmptyLine
      <3>2. QED
        BY <3>1, FirstBreak
    <2>2. /\ rd' = FindCRLF /\ state_ = "HEADERS" /\ ret' = "throw" /\ bad' = TRUE
          /\ UNCHANGED <<stream, messages, state_, request_, start>>
      BY <1>10, Zenon DEF EndThrows, AtEmptyLine, Running, RetrieveLine, Return
    <2>3. QED
      BY <2>1, <2>2 DEF Outcomes
  <1>11. CASE Body
    <2>1. request_.body_length \in Nat /\ rd + request_.body_length <= Len(stream)
      BY <1>11 DEF Body, Running, ReadableBytes, Requests, Unset
    <2>2. SubSeq(stream, rd + 1, rd + request_.body_length) \in Seq(Alphabet)
      BY <2>1, SubSeqProperties
    <2>3. request_' \in Requests
      BY <1>11, <2>2 DEF Body, Requests
    <2>4. QED
      BY <1>11, <2>1, <2>3 DEF Body, Return, Outcomes, States
  <1>12. CASE NeedBody
    BY <1>12 DEF NeedBody, Return, Outcomes, content_length
  <1>13. CASE AlreadyFinished
    BY <1>13 DEF AlreadyFinished, Return, Outcomes, content_length
  <1>14. CASE TakeRequest
    <2>1. [from |-> start, to |-> rd, clean |-> ~ bad, request |-> request_] \in Message
      BY DEF Message
    <2>2. messages' \in Seq(Message)
      BY <1>14, <2>1, AppendProperties DEF TakeRequest, GetRequest, Message
    <2>3. Swapped(request_) \in Requests
      BY NewRequestType DEF Swapped, Requests
    <2>4. QED
      BY <1>14, <2>2, <2>3 DEF TakeRequest, Reset, Outcomes, States, Message
  <1>15. CASE UNCHANGED vars
    BY <1>15 DEF vars, content_length
  <1>16. QED
    BY <1>2, <1>3, <1>4, <1>5, <1>6, <1>7, <1>8, <1>9, <1>10, <1>11, <1>12,
       <1>13, <1>14, <1>15
    DEF Next, Iteration

(* The parser and the requests it hands out keep their types; a body is    *)
(* only ever read with the length of its own request, never with the value *)
(* the constructor left uninitialized (http_request.cpp:5).                *)
THEOREM TypeCorrect == Spec => []TypeOK
  <1>1. Init => TypeOK
    BY InitIInv DEF IInv
  <1>2. QED
    BY <1>1, NextTypeOK, PTL DEF Spec

-----------------------------------------------------------------------------
(* The requests handed out.                                                *)

LEMMA MessagesType ==
  ASSUME TypeOK
  PROVE  messages \in Seq(Message) /\ \A i \in 1 .. Len(messages) : messages[i] \in Message
  <1>1. messages \in Seq(Message)
    BY DEF TypeOK, Message
  <1>2. QED
    BY <1>1

(* What a step that retrieves at most does: nothing is handed out, and     *)
(* reading goes on from where the request started.                         *)
Retrieves ==
  /\ UNCHANGED <<messages, start>>
  /\ rd <= rd'
  /\ state_ = "REQUEST_LINE" <=> state_' = "REQUEST_LINE"

LEMMA RetrievesAhead ==
  ASSUME TypeOK, TypeOK', EachByteOnce, Ahead, Retrieves
  PROVE  EachByteOnce' /\ Ahead'
  <1>1. \A i \in 1 .. Len(messages) : messages[i] \in Message
    BY MessagesType
  <1>2. rd \in Nat /\ rd' \in Nat /\ start \in Nat
    BY DEF TypeOK
  <1>3. EachByteOnce'
    BY <1>1, <1>2 DEF EachByteOnce, Retrieves, Message
  <1>4. Ahead'
    BY <1>1, <1>2 DEF Ahead, Retrieves, Message, Taken
  <1>5. QED
    BY <1>3, <1>4

(* The step of every action but two retrieves at most.                     *)
LEMMA MostRetrieve ==
  ASSUME TypeOK, [Next]_vars
  PROVE  Retrieves \/ RequestLine \/ TakeRequest
  <1>1. rd \in Nat /\ rd <= rd
    BY DEF TypeOK
  <1>2. CASE \E u \in Alphabet : Receive(u)
    BY <1>1, <1>2 DEF Receive, Retrieves
  <1>3. CASE ParseRequest
    BY <1>1, <1>3 DEF ParseRequest, Retrieves
  <1>4. CASE NeedLine \/ NeedBody \/ AlreadyFinished
    BY <1>1, <1>4 DEF NeedLine, NeedBody, AlreadyFinished, Return, Retrieves
  <1>5. CASE RejectLine
    <2>1. rd <= FindCRLF
      BY <1>1, <1>5, FirstBreak DEF RejectLine, TypeOK
    <2>2. QED
      BY <1>5, <2>1 DEF RejectLine, RetrieveLine, Return, Retrieves
  <1>6. CASE HeaderLine
    <2>1. rd <= FindCRLF
      BY <1>1, <1>6, FirstBreak DEF HeaderLine, TypeOK
    <2>2. QED
      BY <1>6, <2>1 DEF HeaderLine, RetrieveLine, Continue, Retrieves
  <1>7. CASE EndWithoutBody \/ EndWithBody \/ EndThrows
    <2>1. Breaks # {} /\ state_ = "HEADERS"
      BY <1>7, Zenon DEF EndWithoutBody, EndWithBody, EndThrows, AtEmptyLine, Running
    <2>2. rd <= FindCRLF
      BY <1>1, <2>1, FirstBreak DEF TypeOK
    <2>3. /\ UNCHANGED <<messages, start>> /\ rd' = FindCRLF
          /\ state_' \in {"HEADERS", "BODY", "FINISH"}
      BY <1>7, <2>1
      DEF EndWithoutBody, EndWithBody, EndThrows, RetrieveLine, Return, Continue
    <2>4. QED
      BY <2>1, <2>2, <2>3 DEF Retrieves
  <1>8. CASE Body
    <2>1. request_.body_length \in Nat /\ state_ = "BODY"
      BY <1>8 DEF Body, Running, TypeOK, Requests, Unset
    <2>2. QED
      BY <1>1, <1>8, <2>1 DEF Body, Return, Retrieves
  <1>9. CASE UNCHANGED vars
    BY <1>1, <1>9 DEF vars, Retrieves
  <1>10. QED
    BY <1>2, <1>3, <1>4, <1>5, <1>6, <1>7, <1>8, <1>9 DEF Next, Iteration

(* What one iteration of ParseRequest does to the bytes: the context hands *)
(* nothing out, and a request that is complete stays as it is.             *)
LEMMA IterationFacts ==
  ASSUME TypeOK, Iteration
  PROVE  /\ TypeOK'
         /\ UNCHANGED <<stream, messages>>
         /\ ret = "running" /\ ret' # "none"
         /\ ret' = "true" => state_' = "FINISH"
         /\ rd <= rd'
         /\ state_ = "FINISH" => UNCHANGED <<rd, start, state_>>
         /\ \/ start' = start /\ (state_ = "REQUEST_LINE" <=> state_' = "REQUEST_LINE")
            \/ state_ = "REQUEST_LINE" /\ state_' = "HEADERS" /\ start' = rd /\ rd < rd'
  <1>1. TypeOK'
    BY NextTypeOK DEF Next
  <1>2. Retrieves \/ RequestLine \/ TakeRequest
    BY MostRetrieve DEF Next
  <1>3. ret = "running"
    BY Zenon DEF Iteration, NeedLine, RejectLine, RequestLine, HeaderLine, EndWithoutBody,
       EndWithBody, EndThrows, AtEmptyLine, Body, NeedBody, AlreadyFinished, Running
  <1>4. ~ TakeRequest
    BY <1>3 DEF TakeRequest
  <1>5. CASE RequestLine
    <2>1. rd < FindCRLF
      BY <1>5, FirstBreak DEF RequestLine, TypeOK
    <2>2. QED
      BY <1>1, <1>3, <1>5, <2>1 DEF RequestLine, RetrieveLine, Continue, Running, TypeOK
  <1>6. CASE Retrieves
    <2>1. UNCHANGED stream /\ ret' # "none"
      BY <1>3 DEF Iteration, NeedLine, RejectLine, RequestLine, HeaderLine, EndWithoutBody,
         EndWithBody, EndThrows, Body, NeedBody, AlreadyFinished, Return, Continue
    <2>2. ret' = "true" => state_' = "FINISH"
      BY <1>3 DEF Iteration, NeedLine, RejectLine, RequestLine, HeaderLine, EndWithoutBody,
         EndWithBody, EndThrows, Body, NeedBody, AlreadyFinished, Return, Continue, Running
    <2>3. state_ = "FINISH" => AlreadyFinished
      BY Zenon DEF Iteration, NeedLine, RejectLine, RequestLine, HeaderLine, EndWithoutBody,
         EndWithBody, EndThrows, AtEmptyLine, Body, NeedBody, Running
    <2>4. QED
      BY <1>1, <1>3, <1>6, <2>1, <2>2, <2>3 DEF Retrieves, AlreadyFinished
  <1>7. QED
    BY <1>2, <1>4, <1>5, <1>6

LEMMA NextAhead ==
  ASSUME TypeOK, TypeOK', EachByteOnce, Ahead, [Next]_vars
  PROVE  EachByteOnce' /\ Ahead'
  <1>1. \A i \in 1 .. Len(messages) : messages[i] \in Message
    BY MessagesType
  <1>2. rd \in Nat /\ start \in Nat
    BY DEF TypeOK
  <1>3. CASE Retrieves
    BY <1>3, RetrievesAhead
  <1>4. CASE RequestLine
    <2>1. rd < FindCRLF /\ FindCRLF \in Nat
      BY <1>2, <1>4, FirstBreak DEF RequestLine, TypeOK
    <2>2. /\ UNCHANGED messages /\ start' = rd /\ rd' = FindCRLF
          /\ state_ = "REQUEST_LINE" /\ state_' = "HEADERS"
      BY <1>4 DEF RequestLine, RetrieveLine, Continue, Running
    <2>3. EachByteOnce'
      BY <1>1, <1>2, <2>1, <2>2 DEF EachByteOnce, Message
    <2>4. Ahead'
      BY <1>1, <1>2, <2>1, <2>2 DEF Ahead, Taken, Message
    <2>5. QED
      BY <2>3, <2>4
  <1>5. CASE TakeRequest
    <2> DEFINE m == [from |-> start, to |-> rd, clean |-> ~ bad, request |-> request_]
    <2>1. m \in Message /\ messages \in Seq(Message)
      BY DEF TypeOK, Message
    <2>2. /\ messages' = Append(messages, m) /\ rd' = rd
          /\ state_ = "FINISH" /\ state_' = "REQUEST_LINE"
      BY <1>5 DEF TakeRequest, GetRequest, GotAll, Reset
    <2>3. /\ Len(messages') = Len(messages) + 1
          /\ \A i \in 1 .. Len(messages) : messages'[i] = messages[i]
          /\ messages'[Len(messages) + 1] = m
      BY <2>1, <2>2, AppendProperties
    <2>4. /\ start < rd
          /\ \A i \in 1 .. Len(messages) : Taken(messages[i], start)
      BY <2>2 DEF Ahead
    <2>5. \A i \in 1 .. Len(messages') : Taken(messages'[i], rd)
      <3>1. \A i \in 1 .. Len(messages) : Taken(messages'[i], rd)
        BY <1>1, <1>2, <2>3, <2>4 DEF Taken, Message
      <3>2. Taken(messages'[Len(messages) + 1], rd)
        BY <1>2, <2>3, <2>4 DEF Taken
      <3>3. QED
        BY <2>1, <2>3, <3>1, <3>2
    <2>6. \A i, j \in 1 .. Len(messages') : i < j => messages'[i].to <= messages'[j].from
      <3>1. SUFFICES ASSUME NEW i \in 1 .. Len(messages'), NEW j \in 1 .. Len(messages'), i < j
                     PROVE  messages'[i].to <= messages'[j].from
        OBVIOUS
      <3>2. i \in 1 .. Len(messages) /\ messages'[i] = messages[i]
        BY <2>1, <2>3, <3>1
      <3>3. CASE j = Len(messages) + 1
        BY <2>3, <2>4, <3>2, <3>3 DEF Taken
      <3>4. CASE j \in 1 .. Len(messages)
        BY <2>3, <3>1, <3>2, <3>4 DEF EachByteOnce
      <3>5. QED
        BY <2>1, <2>3, <3>1, <3>3, <3>4
    <2>7. QED
      BY <2>2, <2>5, <2>6 DEF EachByteOnce, Ahead, Taken
  <1>6. QED
    BY <1>3, <1>4, <1>5, MostRetrieve

-----------------------------------------------------------------------------
(* The bodies.                                                             *)

(* A slice of the stream stays what it is when the stream grows.           *)
LEMMA SliceOfAppend ==
  ASSUME NEW s \in Seq(Alphabet), NEW u \in Alphabet,
         NEW a \in Nat \ {0}, NEW b \in 0 .. Len(s)
  PROVE  SubSeq(Append(s, u), a, b) = SubSeq(s, a, b)
  <1>1. CASE b < a
    BY <1>1, SubSeqEmpty
  <1>2. CASE a <= b
    <2>1. Append(s, u) = s \o <<u>> /\ <<u>> \in Seq(Alphabet)
      BY AppendIsConcat
    <2>2. a \in 1 .. Len(s) /\ b \in 1 .. Len(s)
      BY <1>2
    <2>3. QED
      BY <2>1, <2>2, SubSeqOfConcat1
  <1>3. QED
    BY <1>1, <1>2

LEMMA SliceReceived ==
  ASSUME stream \in Seq(Alphabet), NEW u \in Alphabet, stream' = Append(stream, u),
         NEW r \in Requests, NEW from \in Nat, NEW to \in 0 .. Len(stream),
         Slice(r, from, to), HasBody(r)
  PROVE  r.body = SubSeq(stream', to - r.body_length + 1, to)
  <1>1. /\ r.body_length = Stoul[GetHeader(r.headers, "Content-Length")]
        /\ from + r.body_length < to
        /\ r.body = SubSeq(stream, to - r.body_length + 1, to)
    BY DEF Slice
  <1>2. r.body_length \in Int /\ to - r.body_length + 1 \in Nat \ {0}
    BY <1>1 DEF Requests, Unset
  <1>3. QED
    BY <1>1, <1>2, SliceOfAppend

(* The slices of the requests handed out, while nothing is handed out.     *)
LEMMA BodiesKept ==
  ASSUME TypeOK, EachByteOnce, BodyIsSlice, [Next]_vars, messages' = messages
  PROVE  BodyIsSlice'
  <1>1. CASE stream' = stream
    BY <1>1 DEF BodyIsSlice
  <1>2. CASE \E u \in Alphabet : Receive(u)
    <2>1. PICK u \in Alphabet : stream' = Append(stream, u)
      BY <1>2 DEF Receive
    <2>2. \A i \in 1 .. Len(messages) :
            messages[i].request \in Requests /\ messages[i].from \in Nat
              /\ messages[i].to \in 0 .. Len(stream)
      BY MessagesType DEF TypeOK, EachByteOnce, Message
    <2>3. \A i \in 1 .. Len(messages) :
            Slice(messages[i].request, messages[i].from, messages[i].to)
      BY DEF BodyIsSlice, Slice
    <2>4. SUFFICES ASSUME NEW i \in 1 .. Len(messages), HasBody(messages[i].request)
                   PROVE  messages[i].request.body =
                            SubSeq(stream', messages[i].to - messages[i].request.body_length + 1,
                                   messages[i].to)
      BY DEF BodyIsSlice
    <2>5. stream \in Seq(Alphabet)
      BY DEF TypeOK
    <2>6. QED
      BY <2>1, <2>2, <2>3, <2>4, <2>5, SliceReceived
  <1>3. stream' = stream \/ \E u \in Alphabet : Receive(u)
    BY DEF Next, ParseRequest, Iteration, NeedLine, RejectLine, RequestLine, HeaderLine,
           EndWithoutBody, EndWithBody, EndThrows, Body, NeedBody, AlreadyFinished,
           TakeRequest, Return, Continue, vars
  <1>4. QED
    BY <1>1, <1>2, <1>3

(* The request handed out takes the slice that the parser copied.          *)
LEMMA BodyTaken ==
  ASSUME TypeOK, BodyIsSlice, Copied, TakeRequest
  PROVE  BodyIsSlice'
  <1> DEFINE m == [from |-> start, to |-> rd, clean |-> ~ bad, request |-> request_]
  <1>1. m \in Message /\ messages \in Seq(Message)
    BY DEF TypeOK, Message
  <1>2. /\ Len(messages') = Len(messages) + 1
        /\ \A i \in 1 .. Len(messages) : messages'[i] = messages[i]
        /\ messages'[Len(messages) + 1] = m
    BY <1>1, AppendProperties DEF TakeRequest, GetRequest
  <1>3. stream' = stream
    BY DEF TakeRequest
  <1>4. Slice(m.request, m.from, m.to)
    BY DEF Copied, TakeRequest, GotAll
  <1>5. SUFFICES ASSUME NEW i \in 1 .. Len(messages')
                 PROVE  Slice(messages'[i].request, messages'[i].from, messages'[i].to)
    BY <1>3 DEF BodyIsSlice, Slice
  <1>6. CASE i \in 1 .. Len(messages)
    BY <1>2, <1>6 DEF BodyIsSlice, Slice
  <1>7. CASE i = Len(messages) + 1
    BY <1>2, <1>4, <1>7
  <1>8. QED
    BY <1>1, <1>2, <1>5, <1>6, <1>7

(* Between the copy of the body and the taking of the request.             *)
LEMMA NextCopied ==
  ASSUME TypeOK, Ahead, Copied, [Next]_vars
  PROVE  Copied'
  <1>1. /\ stream \in Seq(Alphabet) /\ rd \in 0 .. Len(stream) /\ start \in Nat
        /\ request_ \in Requests
    BY DEF TypeOK
  <1>2. SUFFICES ASSUME state_' = "FINISH" PROVE Slice(request_, start, rd)'
    BY DEF Copied, Slice
  <1>3. CASE \E u \in Alphabet : Receive(u)
    <2>1. PICK u \in Alphabet : stream' = Append(stream, u)
      BY <1>3 DEF Receive
    <2>2. /\ UNCHANGED <<request_, start, rd>> /\ Slice(request_, start, rd)
      BY <1>2, <1>3 DEF Receive, Copied
    <2>3. QED
      BY <1>1, <2>1, <2>2, SliceReceived DEF Slice
  <1>4. CASE UNCHANGED <<stream, rd, state_, request_, start>>
    BY <1>2, <1>4 DEF Copied, Slice
  <1>5. CASE EndWithoutBody
    BY <1>5 DEF EndWithoutBody, content_length, Slice, HasBody
  <1>6. CASE Body
    <2> DEFINE n == request_.body_length
    <2>1. n \in Nat /\ n = Stoul[content_length] /\ start < rd
      BY <1>6 DEF Body, Running, TypeOK, Ahead, Requests, Unset
    <2>2. /\ stream' = stream /\ start' = start /\ rd' = rd + n
          /\ request_' = [request_ EXCEPT !.body = SubSeq(stream, rd + 1, rd + n)]
      BY <1>6 DEF Body, Return
    <2>3. /\ request_'.headers = request_.headers /\ request_'.body_length = n
          /\ request_'.body = SubSeq(stream, rd + 1, rd + n)
      BY <1>1, <2>2 DEF Requests
    <2>4. rd' - n + 1 = rd + 1 /\ start + n < rd'
      BY <1>1, <2>1, <2>2
    <2>5. QED
      BY <2>1, <2>2, <2>3, <2>4 DEF Slice, content_length
  <1>7. CASE UNCHANGED <<stream, rd, state_, request_, start>> \/ state_' # "FINISH"
    BY <1>2, <1>4, <1>7
  <1>8. \/ \E u \in Alphabet : Receive(u)
        \/ EndWithoutBody \/ Body
        \/ UNCHANGED <<stream, rd, state_, request_, start>> \/ state_' # "FINISH"
    BY DEF Next, ParseRequest, Iteration, NeedLine, RejectLine, RequestLine, HeaderLine,
           EndWithBody, EndThrows, NeedBody, AlreadyFinished, TakeRequest, Reset,
           Return, Continue, Running, AtEmptyLine, vars
  <1>9. QED
    BY <1>3, <1>5, <1>6, <1>7, <1>8

-----------------------------------------------------------------------------
(* The theorems.                                                           *)

LEMMA NextIInv == IInv /\ [Next]_vars => IInv'
  <1>1. SUFFICES ASSUME IInv, [Next]_vars PROVE IInv'
    OBVIOUS
  <1>2. TypeOK /\ EachByteOnce /\ Ahead /\ BodyIsSlice /\ Copied
    BY <1>1 DEF IInv
  <1>3. TypeOK'
    BY <1>1, <1>2, NextTypeOK
  <1>4. EachByteOnce' /\ Ahead'
    BY <1>1, <1>2, <1>3, NextAhead
  <1>5. Copied'
    BY <1>1, <1>2, NextCopied
  <1>6. BodyIsSlice'
    <2>1. TakeRequest \/ messages' = messages
      BY <1>1, <1>2, MostRetrieve DEF Retrieves, RequestLine, Continue
    <2>2. QED
      BY <1>1, <1>2, <2>1, BodiesKept, BodyTaken
  <1>7. QED
    BY <1>3, <1>4, <1>5, <1>6 DEF IInv

LEMMA Invariance == Spec => []IInv
  BY InitIInv, NextIInv, PTL DEF Spec

(* http_context.cpp:27,43,68: the requests a context hands out occupy      *)
(* disjoint, nonempty, increasing stretches of the retrieved stream.       *)
THEOREM EachByteParsedOnce == Spec => []EachByteOnce
  <1>1. IInv => EachByteOnce
    BY DEF IInv
  <1>2. QED
    BY <1>1, Invariance, PTL

(* http_context.cpp:65-72: a request that announces a body carries the     *)
(* units in front of its end, as many as its Content-Length says, and they *)
(* come after its own first line.                                          *)
THEOREM BodyIsAnnouncedSlice == Spec => []BodyIsSlice
  <1>1. IInv => BodyIsSlice
    BY DEF IInv
  <1>2. QED
    BY <1>1, Invariance, PTL

(* What a step does to the reader index.  The loop of ParseRequest runs on *)
(* only behind a line break it has found, so the index moves.              *)
LEMMA StepAdvances ==
  ASSUME TypeOK, [Next]_vars
  PROVE  /\ rd <= rd'
         /\ ret = "running" /\ ret' = "running" =>
              (rd < rd' /\ stream' = stream) \/ UNCHANGED vars
  <1>1. rd \in Nat /\ stream \in Seq(Alphabet)
    BY DEF TypeOK
  <1>2. rd <= rd'
    <2>1. CASE Retrieves
      BY <2>1 DEF Retrieves
    <2>2. CASE RequestLine
      BY <1>1, <2>2, FirstBreak DEF RequestLine, RetrieveLine
    <2>3. CASE TakeRequest
      BY <1>1, <2>3 DEF TakeRequest
    <2>4. QED
      BY <2>1, <2>2, <2>3, MostRetrieve
  <1>3. ASSUME ret = "running", ret' = "running", ~ UNCHANGED vars
        PROVE  rd < rd' /\ stream' = stream
    <2>1. Iteration
      BY <1>3 DEF Next, Receive, ParseRequest, TakeRequest
    <2>2. RequestLine \/ HeaderLine \/ EndWithBody
      BY <1>3, <2>1 DEF Iteration, NeedLine, RejectLine, EndWithoutBody, EndThrows,
         Body, NeedBody, AlreadyFinished, Return
    <2>3. Breaks # {}
      BY <2>2, Zenon DEF RequestLine, HeaderLine, EndWithBody, AtEmptyLine
    <2>4. rd' = FindCRLF /\ stream' = stream
      BY <2>2, Zenon DEF RequestLine, HeaderLine, EndWithBody, RetrieveLine, Continue
    <2>5. QED
      BY <1>1, <2>3, <2>4, FirstBreak
  <1>4. QED
    BY <1>2, <1>3

(* http_context.cpp:15-75: nothing that was retrieved is read again, and   *)
(* an iteration of ParseRequest that does not end the call has retrieved   *)
(* something.  With a stream of MaxLen units at most this bounds the       *)
(* iterations of every call: the safety half of ParseReturns.              *)
THEOREM ParseMovesOn == Spec => ParseAdvances
  <1>1. TypeOK /\ [Next]_vars =>
          [/\ rd <= rd'
           /\ ret = "running" /\ ret' = "running" => rd < rd' /\ stream' = stream]_vars
    BY StepAdvances
  <1>2. QED
    BY <1>1, TypeCorrect, PTL DEF Spec, ParseAdvances

=============================================================================
