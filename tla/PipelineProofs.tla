--------------------------- MODULE PipelineProofs ---------------------------
(***************************************************************************)
(* Proofs about RequestPipeline, for every chain of middlewares, every     *)
(* configuration of CORS, and handlers and middlewares of the application  *)
(* that call any number of setters with any bodies, change the request and *)
(* throw any responses.                                                    *)
(***************************************************************************)
EXTENDS RequestPipeline, TLAPS

Fields == {"status", "headers", "body", "close"}

(* r is a response of these fields.                                        *)
Is(r, status, headers, body, close) ==
  /\ DOMAIN r = Fields
  /\ r.status = status /\ r.headers = headers /\ r.body = body /\ r.close = close

With(headers, key, value) ==
  [k \in DOMAIN headers \cup {key} |-> IF k = key THEN value ELSE headers[k]]

Events == {<<"route">>} \cup ({"request", "response"} \X Middlewares)

-----------------------------------------------------------------------------
(* What the setters do.                                                    *)

LEMMA NewResponseIs ==
  ASSUME NEW close
  PROVE  /\ Is(NewResponse(close), 0, <<>>, <<>>, close)
         /\ DOMAIN NewResponse(close).headers = {}
BY DEF NewResponse, Is, Fields

LEMMA SetterFacts ==
  ASSUME NEW r, NEW status, NEW headers, NEW body, NEW close, Is(r, status, headers, body, close)
  PROVE  /\ \A s : Is(SetStatusCode(r, s), s, headers, body, close)
         /\ \A c : Is(SetCloseConnection(r, c), status, headers, body, c)
         /\ \A k, v : Is(SetHeader(r, k, v), status, With(headers, k, v), body, close)
         /\ \A k, v : Is(AddHeader(r, k, v), status,
                         IF k \in DOMAIN headers THEN headers ELSE With(headers, k, v), body, close)
         /\ \A b : Is(SetResponseBody(r, b), status, With(headers, "Content-Length", Len(b)), b, close)
<1>1. \A s : Is(SetStatusCode(r, s), s, headers, body, close)
  BY DEF Is, Fields, SetStatusCode
<1>2. \A c : Is(SetCloseConnection(r, c), status, headers, body, c)
  BY DEF Is, Fields, SetCloseConnection
<1>3. \A k, v : Is(SetHeader(r, k, v), status, With(headers, k, v), body, close)
  BY DEF Is, Fields, SetHeader, With
<1>4. \A k, v : Is(AddHeader(r, k, v), status,
                   IF k \in DOMAIN headers THEN headers ELSE With(headers, k, v), body, close)
  BY <1>3 DEF Is, AddHeader
<1>5. ASSUME NEW b
      PROVE  Is(SetResponseBody(r, b), status, With(headers, "Content-Length", Len(b)), b, close)
  <2>1. Is(SetContentLength(r, Len(b)), status, With(headers, "Content-Length", Len(b)), body, close)
    BY <1>3 DEF SetContentLength
  <2> QED  BY <2>1 DEF Is, Fields, SetResponseBody
<1> QED  BY <1>1, <1>2, <1>3, <1>4, <1>5

(* A body without a Nul is sent whole.                                     *)
LEMMA SentWhole ==
  ASSUME NEW r, NEW S, r.body \in Seq(S), NulsIn(r) = {}
  PROVE  Len(AppendToBuffer(r)) = Len(r.body)
<1> DEFINE cut(n) == /\ \A i \in 1 .. n : r.body[i] # Nul
                     /\ n < Len(r.body) => r.body[n + 1] = Nul
           n == CHOOSE n \in 0 .. Len(r.body) : cut(n)
<1>1. Len(r.body) \in Nat /\ DOMAIN r.body = 1 .. Len(r.body)
  OBVIOUS
<1>2. \A i \in 1 .. Len(r.body) : r.body[i] # Nul
  BY <1>1 DEF NulsIn
<1>3. Len(r.body) \in 0 .. Len(r.body) /\ cut(Len(r.body))
  BY <1>1, <1>2
<1>4. n \in 0 .. Len(r.body) /\ cut(n)
  BY <1>3
<1>5. AppendToBuffer(r) = SubSeq(r.body, 1, n)
  BY DEF AppendToBuffer
<1> HIDE DEF n
<1>6. n = Len(r.body)
  BY <1>1, <1>2, <1>4
<1> QED  BY <1>1, <1>5, <1>6

-----------------------------------------------------------------------------
(* A response r at the place p of HandleRequest, of which o says what is   *)
(* the application's (as own does), all of it apart: its header is the     *)
(* length of its body unless the application has set one, a Nul is in a    *)
(* body of the application only, and without a handler a peer can find its *)
(* end.                                                                    *)

Headers(headers) ==
  /\ Length \in DOMAIN headers => headers[Length] \in Nat
  /\ Allow \in DOMAIN headers => headers[Allow] \in Origins \cup {NoOrigin, "*"}
  /\ Secret \in DOMAIN headers => headers[Secret] \in {"true", "false"}

Tags == {"handler", "body", "length", "cors", "thrown"}

Sound(r, o, p) ==
  /\ DOMAIN r = Fields
  /\ r.status \in Statuses /\ r.body \in Bodies /\ r.close \in BOOLEAN
  /\ Headers(r.headers)
  /\ o \subseteq Tags
  /\ "thrown" \notin o =>
       /\ HasLength(r) /\ "length" \notin o => r.headers[Length] = Len(r.body)
       /\ "body" \notin o => NulsIn(r) = {}
       /\ "handler" \notin o => /\ p = "response" => HasLength(r)
                                /\ p = "done" => HasLength(r) \/ r.close

Chars == {"h", "n", "f", "w", Nul}

(* The headers of CORS in r and s are the same.                            *)
SameCors(r, s) ==
  \A k \in {Allow, Secret} :
    /\ k \in DOMAIN s.headers <=> k \in DOMAIN r.headers
    /\ k \in DOMAIN r.headers => s.headers[k] = r.headers[k]

LEMMA Keys == Length # Allow /\ Length # Secret /\ Allow # Secret
BY DEF Length, Allow, Secret

LEMMA BodiesAreTexts ==
  /\ Bodies \subseteq Seq(Chars)
  /\ \A b \in Bodies : Len(b) \in Nat
  /\ \A b \in {<<>>, NotFoundText, What} : b \in Bodies /\ \A i \in DOMAIN b : b[i] # Nul
<1>1. Seq({"h", Nul}) \subseteq Seq(Chars)
  BY DEF Chars
<1>2. <<>> \in Seq(Chars) /\ NotFoundText \in Seq(Chars) /\ What \in Seq(Chars)
  BY DEF Chars, NotFoundText, What
<1>3. Bodies \subseteq Seq(Chars)
  BY <1>1, <1>2, PipelineAssumption DEF Bodies
<1>4. \A b \in {<<>>, NotFoundText, What} : b \in Bodies
  BY DEF Bodies
<1>5. \A b \in {<<>>, NotFoundText, What} : \A i \in DOMAIN b : b[i] # Nul
  BY PipelineAssumption DEF NotFoundText, What
<1> QED  BY <1>3, <1>4, <1>5

LEMMA HeadersWith ==
  ASSUME NEW headers, Headers(headers)
  PROVE  /\ \A l \in Nat : Headers(With(headers, Length, l))
         /\ \A v \in Origins \cup {NoOrigin, "*"} : Headers(With(headers, Allow, v))
         /\ \A v \in {"true", "false"} : Headers(With(headers, Secret, v))
BY Keys DEF With, Headers

(* A new response, before the router is called or for a preflight.         *)
LEMMA SoundNew ==
  ASSUME NEW close \in BOOLEAN, NEW p, p # "response", p = "done" => close
  PROVE  Sound(NewResponse(close), {}, p)
BY NewResponseIs, BodiesAreTexts DEF Sound, Is, Statuses, HasLength, NulsIn, Headers, Length, Allow, Secret

(* A body is set, by the server or by the application.                     *)
LEMMA SoundBody ==
  ASSUME NEW r, NEW o, NEW p, Sound(r, o, p), NEW b \in Bodies, NEW q, NEW t,
         t \subseteq Tags, "thrown" \notin t,
         "body" \notin t => \A i \in DOMAIN b : b[i] # Nul
  PROVE  Sound(SetResponseBody(r, b), t, q) /\ SameCors(r, SetResponseBody(r, b))
<1> DEFINE s == SetResponseBody(r, b)
<1>1. Is(r, r.status, r.headers, r.body, r.close)
  BY DEF Sound, Is
<1>2. Is(s, r.status, With(r.headers, Length, Len(b)), b, r.close)
  BY <1>1, SetterFacts DEF Length
<1> HIDE DEF s
<1>3. Len(b) \in Nat
  BY BodiesAreTexts
<1>4. s.headers = With(r.headers, Length, Len(b)) /\ s.body = b /\ Headers(r.headers)
  BY <1>2 DEF Is, Sound
<1>5. Headers(s.headers)
  BY <1>3, <1>4, HeadersWith
<1>6. Length \in DOMAIN s.headers /\ s.headers[Length] = Len(b)
  BY <1>4 DEF With
<1>7. HasLength(s)
  BY <1>6 DEF HasLength, Length
<1>8. "body" \notin t => NulsIn(s) = {}
  BY <1>4 DEF NulsIn
<1>9. Sound(s, t, q)
  BY <1>2, <1>4, <1>5, <1>6, <1>7, <1>8 DEF Sound, Is
<1>10. SameCors(r, s)
  BY <1>4, Keys DEF SameCors, With
<1> QED  BY <1>9, <1>10 DEF s

LEMMA SoundStatus ==
  ASSUME NEW r, NEW o, NEW p, Sound(r, o, p), NEW status \in Statuses
  PROVE  Sound(SetStatusCode(r, status), o, p) /\ SameCors(r, SetStatusCode(r, status))
<1>1. Is(r, r.status, r.headers, r.body, r.close)
  BY DEF Sound, Is
<1>2. Is(SetStatusCode(r, status), status, r.headers, r.body, r.close)
  BY <1>1, SetterFacts
<1> QED  BY <1>2 DEF Sound, Is, HasLength, NulsIn, SameCors

LEMMA SoundClose ==
  ASSUME NEW r, NEW o, NEW p, Sound(r, o, p), NEW close \in BOOLEAN, p = "done" => close
  PROVE  Sound(SetCloseConnection(r, close), o, p) /\ SameCors(r, SetCloseConnection(r, close))
<1>1. Is(r, r.status, r.headers, r.body, r.close)
  BY DEF Sound, Is
<1>2. Is(SetCloseConnection(r, close), r.status, r.headers, r.body, close)
  BY <1>1, SetterFacts
<1> QED  BY <1>2 DEF Sound, Is, HasLength, NulsIn, SameCors

(* The application announces a length.                                     *)
LEMMA SoundLength ==
  ASSUME NEW r, NEW o, NEW p, Sound(r, o, p)
  PROVE  /\ Sound(SetContentLength(r, 2), o \cup {"length"}, p)
         /\ SameCors(r, SetContentLength(r, 2))
         /\ Length \notin DOMAIN r.headers =>
              /\ Sound(AddHeader(r, Length, 2), o \cup {"length"}, p)
              /\ SameCors(r, AddHeader(r, Length, 2))
<1>1. Is(r, r.status, r.headers, r.body, r.close)
  BY DEF Sound, Is
<1>2. ASSUME NEW s, Is(s, r.status, With(r.headers, Length, 2), r.body, r.close)
      PROVE  Sound(s, o \cup {"length"}, p) /\ SameCors(r, s)
  <2>1. Headers(With(r.headers, Length, 2)) /\ s.headers = With(r.headers, Length, 2)
    BY <1>2, HeadersWith DEF Sound, Is
  <2>2. Length \in DOMAIN s.headers
    BY <2>1 DEF With
  <2>3. HasLength(s) /\ (NulsIn(r) = {} => NulsIn(s) = {})
    BY <1>2, <2>2 DEF HasLength, Length, NulsIn, Is
  <2>4. o \cup {"length"} \subseteq Tags
    BY DEF Sound, Tags
  <2>5. SameCors(r, s)
    BY <2>1, Keys DEF SameCors, With
  <2> QED  BY <1>2, <2>1, <2>3, <2>4, <2>5 DEF Sound, Is
<1>3. Is(SetContentLength(r, 2), r.status, With(r.headers, Length, 2), r.body, r.close)
  BY <1>1, SetterFacts DEF SetContentLength, Length
<1>4. Length \notin DOMAIN r.headers =>
        Is(AddHeader(r, Length, 2), r.status, With(r.headers, Length, 2), r.body, r.close)
  BY <1>1, SetterFacts
<1> QED  BY <1>2, <1>3, <1>4

(* A header of CORS is added, by the server or by the application.         *)
Fits(k, v) ==
  \/ k = Allow /\ v \in Origins \cup {NoOrigin, "*"}
  \/ k = Secret /\ v \in {"true", "false"}

Adds(s, r, k, v) ==
  /\ DOMAIN s.headers = DOMAIN r.headers \cup {k}
  /\ \A j \in DOMAIN r.headers : s.headers[j] = r.headers[j]
  /\ k \notin DOMAIN r.headers => s.headers[k] = v

LEMMA SoundHeader ==
  ASSUME NEW r, NEW o, NEW p, Sound(r, o, p), NEW k, NEW v, Fits(k, v)
  PROVE  Sound(AddHeader(r, k, v), o, p) /\ Adds(AddHeader(r, k, v), r, k, v)
<1> DEFINE s == AddHeader(r, k, v)
<1>1. Is(r, r.status, r.headers, r.body, r.close)
  BY DEF Sound, Is
<1>2. Is(s, r.status, IF k \in DOMAIN r.headers THEN r.headers ELSE With(r.headers, k, v),
         r.body, r.close)
  BY <1>1, SetterFacts
<1> HIDE DEF s
<1>3. /\ DOMAIN s.headers = DOMAIN r.headers \cup {k}
      /\ \A j \in DOMAIN r.headers : s.headers[j] = r.headers[j]
      /\ k \notin DOMAIN r.headers => s.headers[k] = v
  <2>1. CASE k \in DOMAIN r.headers
    <3>1. s.headers = r.headers
      BY <1>2, <2>1 DEF Is
    <3> QED  BY <2>1, <3>1
  <2>2. CASE k \notin DOMAIN r.headers
    <3>1. s.headers = With(r.headers, k, v)
      BY <1>2, <2>2 DEF Is
    <3> QED  BY <2>2, <3>1 DEF With
  <2> QED  BY <2>1, <2>2
<1>4. Headers(s.headers)
  BY <1>3, Keys DEF Sound, Headers, Fits
<1>5. /\ HasLength(s) <=> HasLength(r)
      /\ HasLength(r) => s.headers[Length] = r.headers[Length]
      /\ NulsIn(s) = NulsIn(r)
  BY <1>2, <1>3, Keys DEF HasLength, Length, NulsIn, Is, Fits
<1>6. Sound(s, o, p)
  BY <1>2, <1>4, <1>5 DEF Sound, Is
<1> QED  BY <1>3, <1>6 DEF s, Adds

(* The CORS middleware adds its headers.                                   *)
LEMMA SoundCors ==
  ASSUME NEW r, NEW o, NEW p, Sound(r, o, p), NEW origin \in Origins \cup {NoOrigin, "*"}
  PROVE  /\ Sound(AddCorsHeaders(r, origin), o, p)
         /\ Allow \in DOMAIN AddCorsHeaders(r, origin).headers
         /\ AddCorsHeaders(r, origin).headers[Allow] =
              IF Allow \in DOMAIN r.headers THEN r.headers[Allow] ELSE origin
         /\ Secret \in DOMAIN AddCorsHeaders(r, origin).headers <=>
              Secret \in DOMAIN r.headers \/ allow_credentials
         /\ Secret \in DOMAIN AddCorsHeaders(r, origin).headers =>
              AddCorsHeaders(r, origin).headers[Secret] =
                IF Secret \in DOMAIN r.headers THEN r.headers[Secret] ELSE "true"
<1>1. PICK named : named = AddHeader(r, Allow, origin)
  OBVIOUS
<1>0. Fits(Allow, origin) /\ Fits(Secret, "true")
  BY DEF Fits
<1>2. Sound(named, o, p) /\ Adds(named, r, Allow, origin)
  BY <1>0, <1>1, SoundHeader, Zenon
<1>3. AddCorsHeaders(r, origin) = IF allow_credentials THEN AddHeader(named, Secret, "true") ELSE named
  BY <1>1 DEF AddCorsHeaders
<1>4. CASE allow_credentials
  <2>1. PICK s : s = AddHeader(named, Secret, "true")
    OBVIOUS
  <2>2. Sound(s, o, p) /\ Adds(s, named, Secret, "true")
    BY <1>0, <1>2, <2>1, SoundHeader, Zenon
  <2>3. AddCorsHeaders(r, origin) = s
    BY <1>3, <1>4, <2>1
  <2> QED  BY <1>2, <1>4, <2>2, <2>3, Keys DEF Adds
<1>5. CASE ~ allow_credentials
  <2>1. AddCorsHeaders(r, origin) = named
    BY <1>3, <1>5
  <2> QED  BY <1>2, <1>5, <2>1, Keys DEF Adds
<1> QED  BY <1>4, <1>5

-----------------------------------------------------------------------------
(* The invariant.  Placed: the calls made are the first of the onion and   *)
(* the calls left are the next ones; Early: a preflight has not passed the *)
(* CORS middleware; Given: unless the application has set headers of CORS, *)
(* they are a matter of the configuration alone, and behind the router of  *)
(* nothing else.                                                           *)

n == Len(middlewares_)

OnionAt(i) ==
  IF i <= n THEN <<"request", middlewares_[i]>>
  ELSE IF i = n + 1 THEN <<"route">>
  ELSE <<"response", middlewares_[2 * n + 2 - i]>>

Asked == [method : Methods \cup {"none"}, origin : Origins \cup {NoOrigin}]

Typed ==
  /\ middlewares_ \in Seq(Middlewares) /\ Len(middlewares_) <= MaxMiddlewares
  /\ allowed_origins \in Configs /\ allow_credentials \in BOOLEAN
  /\ pc \in {"setup", "request", "handler", "response", "done", "terminated"}
  /\ left \in Seq(Middlewares) /\ trace \in Seq(Events)
  /\ sent \in Asked /\ request \in Asked
  /\ calls \in 0 .. MaxCalls /\ changed \in BOOLEAN
  /\ thrown \in {"none", "std", "response", "other"}
  /\ granted \subseteq Origins \X BOOLEAN

Answer == Sound(response, own, pc)

Waiting ==
  /\ pc = "setup" => sent = NoRequest /\ trace = <<>>
  /\ pc = "request" => own = {} /\ \E close \in BOOLEAN : response = NewResponse(close)
  /\ pc = "handler" => "handler" \in own
  /\ BeingServed => thrown = "none" /\ "thrown" \notin own
  /\ pc = "request" /\ ~ changed => request.method = sent.method

Placed ==
  /\ Len(trace) <= 2 * n + 1 /\ \A i \in 1 .. Len(trace) : trace[i] = OnionAt(i)
  /\ pc = "request" =>
       /\ Len(trace) + Len(left) = n
       /\ \A i \in 1 .. Len(left) : left[i] = middlewares_[Len(trace) + i]
  /\ pc = "handler" => Len(trace) = n + 1
  /\ pc = "response" =>
       /\ n < Len(trace) /\ Len(trace) + Len(left) = 2 * n + 1
       /\ \A i \in 1 .. Len(left) : left[i] = middlewares_[2 * n + 2 - (Len(trace) + i)]
  /\ pc = "done" /\ thrown = "none" => Len(trace) = 2 * n + 1

Early ==
  sent.method = "OPTIONS" /\ ~ changed /\ (\E i \in 1 .. n : middlewares_[i] = "cors") =>
    /\ pc \notin {"handler", "response"} /\ Len(trace) <= n
    /\ pc = "request" => \A i \in 1 .. Len(trace) : middlewares_[i] # "cors"

Named == IF "*" \in ToSet(allowed_origins) THEN "*" ELSE allowed_origins[1]

AnsweredByCors == \E i \in 1 .. Len(trace) : trace[i] = <<"response", "cors">>

(* A grant is one of the configuration.                                    *)
Allowed(g) == g[1] # NoOrigin /\ IsOriginAllowed(g[1]) /\ (g[2] => allow_credentials)

Configured(r) ==
  /\ Allow \in DOMAIN r.headers => IsOriginAllowed(r.headers[Allow])
  /\ Secret \in DOMAIN r.headers => r.headers[Secret] = "true" /\ allow_credentials

Complete(r) ==
  /\ Allow \in DOMAIN r.headers /\ r.headers[Allow] = Named
  /\ allow_credentials => Secret \in DOMAIN r.headers

Given ==
  /\ \A g \in granted : Allowed(g)
  /\ ServersCors =>
       /\ Configured(response)
       /\ pc \in {"handler", "response"} /\ Allow \in DOMAIN response.headers =>
            response.headers[Allow] = Named
       /\ AnsweredByCors /\ allowed_origins # <<>> => Complete(response)

IInv == Typed /\ Answer /\ Waiting /\ Placed /\ Early /\ Given

-----------------------------------------------------------------------------
(* Nothing is asked or answered yet, in the sense of CORS.                 *)
LEMMA NewIsGiven ==
  ASSUME NEW close
  PROVE  /\ Allow \notin DOMAIN NewResponse(close).headers
         /\ Secret \notin DOMAIN NewResponse(close).headers
         /\ Configured(NewResponse(close))
BY NewResponseIs DEF Configured

LEMMA InitIInv == Init => IInv
<1> SUFFICES ASSUME Init PROVE IInv  OBVIOUS
<1>1. /\ middlewares_ = <<>> /\ allowed_origins \in Configs /\ allow_credentials \in BOOLEAN
      /\ pc = "setup" /\ left = <<>> /\ sent = NoRequest /\ request = NoRequest
      /\ response = NewResponse(TRUE) /\ trace = <<>> /\ calls = 0 /\ own = {}
      /\ changed = FALSE /\ thrown = "none" /\ granted = {}
  BY DEF Init
<1>2. /\ <<>> \in Seq(Middlewares) /\ <<>> \in Seq(Events) /\ Len(<<>>) = 0
      /\ MaxMiddlewares \in Nat /\ MaxCalls \in Nat
  BY PipelineAssumption
<1>3. sent \in Asked /\ request \in Asked
  BY <1>1 DEF NoRequest, Asked
<1>4. Typed
  <2>1. /\ middlewares_ \in Seq(Middlewares) /\ Len(middlewares_) <= MaxMiddlewares
        /\ left \in Seq(Middlewares) /\ trace \in Seq(Events) /\ calls \in 0 .. MaxCalls
    BY <1>1, <1>2
  <2>2. /\ pc \in {"setup", "request", "handler", "response", "done", "terminated"}
        /\ thrown \in {"none", "std", "response", "other"} /\ changed \in BOOLEAN
        /\ allowed_origins \in Configs /\ granted \subseteq Origins \X BOOLEAN
    BY <1>1
  <2> QED  BY <1>1, <1>3, <2>1, <2>2, Zenon DEF Typed
<1>5. Answer
  <2>1. "setup" # "response" /\ "setup" # "done"
    OBVIOUS
  <2>2. Sound(NewResponse(TRUE), {}, "setup")
    BY <2>1, SoundNew, Zenon
  <2> QED  BY <1>1, <2>2 DEF Answer
<1>6. Waiting
  BY <1>1 DEF Waiting, BeingServed
<1>7. Len(trace) = 0 /\ n = 0 /\ 1 .. Len(trace) = {}
  BY <1>1 DEF n
<1>8. Placed
  BY <1>1, <1>7 DEF Placed
<1>9. Early
  BY <1>1 DEF Early, NoRequest
<1>10. Given
  BY <1>1, <1>7, NewIsGiven DEF Given, AnsweredByCors
<1> QED  BY <1>4, <1>5, <1>6, <1>8, <1>9, <1>10 DEF IInv

(* A place that asks for less.                                             *)
LEMMA SoundAnyway ==
  ASSUME NEW r, NEW o, NEW p, Sound(r, o, p), NEW q,
         \/ q \notin {"response", "done"} \/ q = p
         \/ p = "response" /\ q = "done"
         \/ "handler" \in o
  PROVE  Sound(r, o, q)
BY DEF Sound

(* What a throw leaves behind.                                             *)
LEMMA ThrowFacts ==
  ASSUME IInv, BeingServed, Throws
  PROVE  /\ pc' \in {"done", "terminated"} /\ thrown' \in {"std", "response", "other"}
         /\ calls' = calls /\ left' \in Seq(Middlewares)
         /\ Sound(response', own', pc')
         /\ ServersCors' => ServersCors /\ SameCors(response, response')
<1>1. Sound(response, own, pc) /\ left \in Seq(Middlewares) /\ "thrown" \notin own
  BY DEF IInv, Answer, Typed, Waiting
<1>2. <<>> \in Seq(Middlewares)
  OBVIOUS
<1>3. CASE CatchException
  <2>1. /\ response' = SetResponseBody(SetStatusCode(response, 500), What)
        /\ thrown' = "std" /\ own' = own \cap {"cors"} /\ calls' = calls
        /\ pc' = "done" /\ left' = <<>>
    BY <1>3 DEF CatchException, Goto
  <2>2. PICK r : r = SetStatusCode(response, 500)
    OBVIOUS
  <2>3. Sound(r, own, pc) /\ SameCors(response, r)
    BY <1>1, <2>2, SoundStatus DEF Statuses
  <2>4. own' \subseteq Tags /\ "thrown" \notin own' /\ "body" \notin own'
    BY <2>1 DEF Tags
  <2>5. What \in Bodies /\ \A i \in DOMAIN What : What[i] # Nul
    BY BodiesAreTexts
  <2>6. Sound(SetResponseBody(r, What), own', "done") /\ SameCors(r, SetResponseBody(r, What))
    BY <2>3, <2>4, <2>5, SoundBody, Zenon
  <2>7. Sound(response', own', pc') /\ SameCors(response, response')
    BY <2>1, <2>2, <2>3, <2>6 DEF SameCors
  <2>8. ServersCors' => ServersCors
    BY <1>1, <2>1 DEF ServersCors
  <2> QED  BY <1>2, <2>1, <2>7, <2>8
<1>4. CASE ThrowsResponse
  <2>1. PICK r \in AppResponses : CatchResponse(r, {"thrown"})
    BY <1>4 DEF ThrowsResponse
  <2>2. /\ response' = r /\ thrown' = "response" /\ own' = {"thrown"}
        /\ calls' = calls /\ pc' = "done" /\ left' = <<>>
    BY <2>1 DEF CatchResponse, Goto
  <2>3. Sound(response', own', pc')
    BY <2>2, ThrownAssumption DEF IsResponse, Sound, Fields, Headers, Tags
  <2>4. ~ ServersCors'
    BY <2>2 DEF ServersCors
  <2> QED  BY <1>2, <2>2, <2>3, <2>4
<1>5. CASE Terminate
  <2>1. /\ pc' = "terminated" /\ thrown' = "other"
        /\ left' = left /\ response' = response /\ calls' = calls /\ own' = own
    BY <1>5 DEF Terminate, local
  <2>2. Sound(response', own', pc')
    BY <1>1, <2>1, SoundAnyway
  <2> QED  BY <1>1, <2>1, <2>2 DEF ServersCors, SameCors
<1> QED  BY <1>3, <1>4, <1>5 DEF Throws

LEMMA TailFacts ==
  ASSUME NEW S, NEW l \in Seq(S), l # <<>>
  PROVE  /\ Head(l) = l[1] /\ Head(l) \in S /\ Tail(l) \in Seq(S)
         /\ Len(l) \in Nat \ {0} /\ Len(Tail(l)) = Len(l) - 1
         /\ \A i \in 1 .. Len(Tail(l)) : i + 1 \in 1 .. Len(l) /\ Tail(l)[i] = l[i + 1]
OBVIOUS

LEMMA ReverseFacts ==
  ASSUME Typed
  PROVE  /\ LastToFirst \in Seq(Middlewares) /\ Len(LastToFirst) = n /\ n \in Nat
         /\ \A i \in 1 .. n : LastToFirst[i] = middlewares_[n + 1 - i]
<1>0. middlewares_ \in Seq(Middlewares)
  BY DEF Typed
<1>1. middlewares_ \in Seq(Middlewares) /\ n \in Nat
  BY <1>0 DEF n
<1>2. LastToFirst = [i \in 1 .. n |-> middlewares_[(n - i) + 1]]
  BY DEF LastToFirst, Reverse, n
<1>3. \A i \in 1 .. n : /\ (n - i) + 1 = n + 1 - i /\ n + 1 - i \in 1 .. n
                        /\ middlewares_[n + 1 - i] \in Middlewares
  BY <1>1 DEF n
<1> QED  BY <1>1, <1>2, <1>3

(* The calls left are the next ones of the onion.                          *)
LEMMA Counts ==
  ASSUME IInv
  PROVE  /\ Len(trace) \in Nat /\ n \in Nat /\ Len(left) \in Nat
         /\ left = <<>> => Len(left) = 0
         /\ left # <<>> => /\ Head(left) = left[1] /\ Head(left) \in Middlewares
                           /\ Tail(left) \in Seq(Middlewares)
                           /\ Len(left) # 0 /\ Len(Tail(left)) = Len(left) - 1
                           /\ \A i \in 1 .. Len(Tail(left)) : /\ i + 1 \in 1 .. Len(left)
                                                              /\ Tail(left)[i] = left[i + 1]
<1>1. /\ left \in Seq(Middlewares) /\ trace \in Seq(Events) /\ middlewares_ \in Seq(Middlewares)
  BY DEF IInv, Typed
<1>2. Len(trace) \in Nat /\ n \in Nat /\ Len(left) \in Nat
  BY <1>1 DEF n
<1>3. left # <<>> => /\ Head(left) = left[1] /\ Head(left) \in Middlewares
                     /\ Tail(left) \in Seq(Middlewares)
                     /\ Len(left) # 0 /\ Len(Tail(left)) = Len(left) - 1
                     /\ \A i \in 1 .. Len(Tail(left)) : /\ i + 1 \in 1 .. Len(left)
                                                        /\ Tail(left)[i] = left[i + 1]
  BY <1>1, TailFacts
<1> QED  BY <1>2, <1>3

LEMMA NextRoute ==
  ASSUME IInv, pc = "request", left = <<>>
  PROVE  Len(trace) = n /\ OnionAt(Len(trace) + 1) = <<"route">>
<1>1. Len(trace) + Len(left) = n
  BY DEF IInv, Placed
<1> QED  BY <1>1, Counts DEF OnionAt

LEMMA NextRequest ==
  ASSUME IInv, pc = "request", left # <<>>
  PROVE  /\ Len(trace) < n /\ Head(left) = middlewares_[Len(trace) + 1]
         /\ OnionAt(Len(trace) + 1) = <<"request", Head(left)>>
         /\ (Len(trace) + 1) + Len(Tail(left)) = n
         /\ \A i \in 1 .. Len(Tail(left)) : Tail(left)[i] = middlewares_[(Len(trace) + 1) + i]
<1>1. /\ Len(trace) + Len(left) = n
      /\ \A i \in 1 .. Len(left) : left[i] = middlewares_[Len(trace) + i]
  BY DEF IInv, Placed
<1>2. /\ Head(left) = middlewares_[Len(trace) + 1] /\ Len(trace) < n
      /\ (Len(trace) + 1) + Len(Tail(left)) = n
  BY <1>1, Counts
<1>3. ASSUME NEW i \in 1 .. Len(Tail(left))
      PROVE  Tail(left)[i] = middlewares_[(Len(trace) + 1) + i]
  <2>1. Len(trace) + (i + 1) = (Len(trace) + 1) + i
    BY Counts
  <2> QED  BY <1>1, <2>1, Counts
<1>4. OnionAt(Len(trace) + 1) = <<"request", Head(left)>>
  BY <1>2, Counts DEF OnionAt
<1> QED  BY <1>2, <1>3, <1>4

LEMMA NextResponse ==
  ASSUME IInv, pc = "response", left # <<>>
  PROVE  /\ n < Len(trace) /\ Len(trace) < 2 * n + 1
         /\ OnionAt(Len(trace) + 1) = <<"response", Head(left)>>
         /\ (Len(trace) + 1) + Len(Tail(left)) = 2 * n + 1
         /\ \A i \in 1 .. Len(Tail(left)) :
              Tail(left)[i] = middlewares_[2 * n + 2 - ((Len(trace) + 1) + i)]
<1>1. /\ n < Len(trace) /\ Len(trace) + Len(left) = 2 * n + 1
      /\ \A i \in 1 .. Len(left) : left[i] = middlewares_[2 * n + 2 - (Len(trace) + i)]
  BY DEF IInv, Placed
<1>2. /\ Head(left) = middlewares_[2 * n + 2 - (Len(trace) + 1)]
      /\ n < Len(trace) /\ Len(trace) < 2 * n + 1
      /\ (Len(trace) + 1) + Len(Tail(left)) = 2 * n + 1
  BY <1>1, Counts
<1>3. ASSUME NEW i \in 1 .. Len(Tail(left))
      PROVE  Tail(left)[i] = middlewares_[2 * n + 2 - ((Len(trace) + 1) + i)]
  <2>1. Len(trace) + (i + 1) = (Len(trace) + 1) + i
    BY Counts
  <2> QED  BY <1>1, <2>1, Counts
<1>4. OnionAt(Len(trace) + 1) = <<"response", Head(left)>>
  BY <1>2, Counts DEF OnionAt
<1> QED  BY <1>2, <1>3, <1>4

(* Before the router no call belongs to the response phase.                *)
LEMMA RequestsOnly ==
  ASSUME IInv, Len(trace) <= n
  PROVE  \A i \in 1 .. Len(trace) : /\ trace[i] # <<"response", "cors">>
                                   /\ trace[i] # <<"route">>
<1>1. ASSUME NEW i \in 1 .. Len(trace)
      PROVE  trace[i] = <<"request", middlewares_[i]>>
  <2>1. trace[i] = OnionAt(i)
    BY DEF IInv, Placed
  <2>2. i <= n
    BY Counts
  <2> QED  BY <2>1, <2>2 DEF OnionAt
<1>2. \A m : <<"request", m>> # <<"response", "cors">> /\ <<"request", m>> # <<"route">>
  OBVIOUS
<1> QED  BY <1>1, <1>2

(* The call of the next event.                                             *)
LEMMA CallFacts ==
  ASSUME IInv, NEW event \in Events, Calls(event), event = OnionAt(Len(trace) + 1),
         Len(trace) < 2 * n + 1
  PROVE  /\ UNCHANGED <<middlewares_, allowed_origins, allow_credentials, sent>> /\ n' = n
         /\ trace' \in Seq(Events) /\ Len(trace') = Len(trace) + 1
         /\ Len(trace') <= 2 * n' + 1
         /\ \A i \in 1 .. Len(trace) : trace'[i] = trace[i]
         /\ trace'[Len(trace) + 1] = event
         /\ \A i \in 1 .. Len(trace') : trace'[i] = OnionAt(i)'
<1>1. /\ UNCHANGED <<middlewares_, allowed_origins, allow_credentials, sent>>
      /\ trace' = Append(trace, event)
  BY DEF Calls, config
<1>2. trace \in Seq(Events) /\ Len(trace) \in Nat /\ n \in Nat
  BY Counts DEF IInv, Typed
<1>3. n' = n /\ \A i : OnionAt(i)' = OnionAt(i)
  BY <1>1 DEF n, OnionAt
<1>4. /\ trace' \in Seq(Events) /\ Len(trace') = Len(trace) + 1
      /\ 1 .. Len(trace') = 1 .. Len(trace) \cup {Len(trace) + 1}
      /\ \A i \in 1 .. Len(trace) : trace'[i] = trace[i]
      /\ trace'[Len(trace) + 1] = event
  BY <1>1, <1>2
<1>5. \A i \in 1 .. Len(trace) : trace[i] = OnionAt(i)
  BY DEF IInv, Placed
<1>6. Len(trace') <= 2 * n + 1
  BY <1>2, <1>4
<1> QED  BY <1>1, <1>3, <1>4, <1>5, <1>6

-----------------------------------------------------------------------------
(* One lemma for each action.                                              *)

(* What the server says of CORS stays when its headers do.                 *)
LEMMA GivenStays ==
  ASSUME IInv, \A g \in granted' : Allowed(g),
         UNCHANGED <<allowed_origins, allow_credentials>>,
         ServersCors' => ServersCors /\ SameCors(response, response'),
         AnsweredByCors' => AnsweredByCors,
         pc' \in {"handler", "response"} => pc \in {"handler", "response"}
                                          \/ Allow \notin DOMAIN response.headers
  PROVE  Given'
<1>1. /\ \A g : Allowed(g)' <=> Allowed(g)
      /\ \A o : IsOriginAllowed(o)' <=> IsOriginAllowed(o)
      /\ Named' = Named
  BY DEF Allowed, IsOriginAllowed, Named
<1>2. \A g \in granted' : Allowed(g)'
  BY <1>1
<1>3. ASSUME ServersCors'
      PROVE  /\ Configured(response)'
             /\ pc' \in {"handler", "response"} /\ Allow \in DOMAIN response'.headers =>
                  response'.headers[Allow] = Named'
             /\ AnsweredByCors' /\ allowed_origins' # <<>> => Complete(response)'
  <2>1. SameCors(response, response')
    BY <1>3
  <2>2. /\ Configured(response)
        /\ pc \in {"handler", "response"} /\ Allow \in DOMAIN response.headers =>
             response.headers[Allow] = Named
        /\ AnsweredByCors /\ allowed_origins # <<>> => Complete(response)
    BY <1>3 DEF IInv, Given
  <2>3. Configured(response)'
    BY <1>1, <2>1, <2>2 DEF Configured, SameCors
  <2>4. Complete(response) => Complete(response)'
    BY <1>1, <2>1 DEF Complete, SameCors
  <2>5. /\ Allow \in DOMAIN response'.headers <=> Allow \in DOMAIN response.headers
        /\ Allow \in DOMAIN response.headers => response'.headers[Allow] = response.headers[Allow]
    BY <2>1 DEF SameCors
  <2> QED  BY <1>1, <2>2, <2>3, <2>4, <2>5
<1> QED  BY <1>2, <1>3 DEF Given

LEMMA SameResponse ==
  ASSUME UNCHANGED <<response, own>>
  PROVE  ServersCors' => ServersCors /\ SameCors(response, response')
BY DEF ServersCors, SameCors

LEMMA AddMiddlewareIInv ==
  ASSUME IInv, NEW m \in Middlewares, AddMiddleware(m)
  PROVE  IInv'
<1>1. /\ pc = "setup" /\ Len(middlewares_) < MaxMiddlewares
      /\ middlewares_' = Append(middlewares_, m)
      /\ UNCHANGED <<allowed_origins, allow_credentials, pc, left, sent, request, response>>
      /\ UNCHANGED <<trace, calls, own, changed, thrown, granted>>
  BY DEF AddMiddleware, local
<1>2. middlewares_ \in Seq(Middlewares) /\ sent = NoRequest /\ trace = <<>> /\ MaxMiddlewares \in Nat
  BY <1>1, PipelineAssumption DEF IInv, Typed, Waiting
<1>3. middlewares_' \in Seq(Middlewares) /\ Len(middlewares_') <= MaxMiddlewares
  BY <1>1, <1>2
<1>4. Typed'
  BY <1>1, <1>3 DEF IInv, Typed
<1>5. Answer'
  BY <1>1 DEF IInv, Answer
<1>6. Waiting'
  BY <1>1 DEF IInv, Waiting, BeingServed
<1>7. Placed'
  <2>1. Len(trace') = 0 /\ 1 .. Len(trace') = {} /\ pc' = "setup"
    BY <1>1, <1>2
  <2>2. Len(middlewares_') \in Nat
    BY <1>3
  <2>3. Len(trace') <= 2 * n' + 1
    BY <2>1, <2>2 DEF n
  <2> QED  BY <2>1, <2>3 DEF Placed
<1>8. Early'
  BY <1>1, <1>2 DEF Early, NoRequest
<1>9. Given'
  BY <1>1, SameResponse, GivenStays DEF IInv, Given, AnsweredByCors
<1> QED  BY <1>4, <1>5, <1>6, <1>7, <1>8, <1>9 DEF IInv

LEMMA OnRequestIInv ==
  ASSUME IInv, NEW method, NEW origin, method \in Methods, origin \in Origins \cup {NoOrigin},
         NEW close \in BOOLEAN,
         OnRequest(method, origin, close)
  PROVE  IInv'
<1>0. /\ sent' = [method |-> method, origin |-> origin]
      /\ request' = [method |-> method, origin |-> origin]
      /\ response' = NewResponse(close) /\ changed' = FALSE
  BY DEF OnRequest
<1>1. /\ pc' = "request" /\ left' = middlewares_
      /\ trace' = <<>> /\ calls' = 0 /\ own' = {} /\ thrown' = "none"
      /\ UNCHANGED <<middlewares_, allowed_origins, allow_credentials, granted>>
  BY DEF OnRequest, config
<1>2. /\ middlewares_ \in Seq(Middlewares) /\ MaxCalls \in Nat
      /\ n \in Nat /\ n' = n /\ n = Len(middlewares_)
  <2>1. middlewares_ \in Seq(Middlewares)
    BY DEF IInv, Typed
  <2> QED  BY <1>1, <2>1, PipelineAssumption DEF n
<1>3. Len(trace') = 0 /\ 1 .. Len(trace') = {} /\ trace' \in Seq(Events)
  BY <1>1
<1>4. Typed'
  <2>1. sent' \in Asked /\ request' \in Asked
    BY <1>0 DEF Asked
  <2>2. calls' \in 0 .. MaxCalls /\ left' \in Seq(Middlewares)
    BY <1>1, <1>2
  <2> QED  BY <1>0, <1>1, <1>3, <2>1, <2>2 DEF IInv, Typed
<1>5. Answer'
  <2>1. "request" # "response" /\ "request" # "done"
    OBVIOUS
  <2>2. Sound(NewResponse(close), {}, "request")
    BY <2>1, SoundNew, Zenon
  <2> QED  BY <1>0, <1>1, <2>2 DEF Answer
<1>6. Waiting'
  <2>1. \E c \in BOOLEAN : response' = NewResponse(c)
    BY <1>0
  <2> QED  BY <1>0, <1>1, <2>1 DEF Waiting
<1>7. Placed'
  <2>1. /\ Len(trace') <= 2 * n' + 1 /\ Len(trace') + Len(left') = n'
        /\ \A i \in 1 .. Len(left') : left'[i] = middlewares_'[Len(trace') + i]
    BY <1>1, <1>2, <1>3
  <2> QED  BY <1>1, <1>3, <2>1 DEF Placed
<1>8. Early'
  <2>1. Len(trace') <= n' /\ \A i \in 1 .. Len(trace') : middlewares_'[i] # "cors"
    BY <1>2, <1>3
  <2> QED  BY <1>1, <2>1 DEF Early
<1>9. Given'
  <2>1. /\ \A g : Allowed(g)' <=> Allowed(g)
        /\ \A o : IsOriginAllowed(o)' <=> IsOriginAllowed(o)
    BY <1>1 DEF Allowed, IsOriginAllowed
  <2>2. \A g \in granted' : Allowed(g)'
    BY <1>1, <2>1 DEF IInv, Given
  <2>3. ~ AnsweredByCors' /\ pc' \notin {"handler", "response"}
    BY <1>1, <1>3 DEF AnsweredByCors
  <2>4. Configured(response)'
    <3>1. Allow \notin DOMAIN response'.headers /\ Secret \notin DOMAIN response'.headers
      BY <1>0, NewIsGiven
    <3> QED  BY <3>1 DEF Configured
  <2> QED  BY <2>2, <2>3, <2>4 DEF Given
<1> QED  BY <1>4, <1>5, <1>6, <1>7, <1>8, <1>9 DEF IInv

(* A call in the request phase that goes on to the next middleware.        *)
LEMMA RequestGoesOn ==
  ASSUME IInv, pc = "request", left # <<>>, Calls(<<"request", Head(left)>>),
         GoOn("request", Tail(left)), UNCHANGED granted,
         request' \in Asked, changed' \in BOOLEAN,
         ~ changed' => ~ changed /\ request'.method = request.method,
         Head(left) = "cors" => request.method # "OPTIONS"
  PROVE  IInv'
<1>1. /\ pc' = "request" /\ left' = Tail(left)
      /\ UNCHANGED <<response, calls, own, thrown, granted>>
  BY DEF GoOn, Goto, local
<1>2. /\ Len(trace) \in Nat /\ n \in Nat
      /\ Head(left) \in Middlewares /\ Tail(left) \in Seq(Middlewares)
      /\ Len(trace) < n /\ Head(left) = middlewares_[Len(trace) + 1]
      /\ OnionAt(Len(trace) + 1) = <<"request", Head(left)>>
      /\ (Len(trace) + 1) + Len(Tail(left)) = n
      /\ \A i \in 1 .. Len(Tail(left)) : Tail(left)[i] = middlewares_[(Len(trace) + 1) + i]
  BY NextRequest, Counts
<1>3. <<"request", Head(left)>> \in Events /\ Len(trace) < 2 * n + 1
  BY <1>2 DEF Events
<1>4. /\ UNCHANGED <<middlewares_, allowed_origins, allow_credentials, sent>> /\ n' = n
      /\ trace' \in Seq(Events) /\ Len(trace') = Len(trace) + 1
      /\ Len(trace') <= 2 * n' + 1
      /\ \A i \in 1 .. Len(trace) : trace'[i] = trace[i]
      /\ trace'[Len(trace) + 1] = <<"request", Head(left)>>
      /\ \A i \in 1 .. Len(trace') : trace'[i] = OnionAt(i)'
  BY <1>2, <1>3, CallFacts
<1>5. Typed'
  BY <1>1, <1>2, <1>4 DEF IInv, Typed
<1>6. Answer'
  BY <1>1 DEF IInv, Answer
<1>7. Waiting'
  BY <1>1, <1>4 DEF IInv, Waiting, BeingServed
<1>8. Placed'
  <2>1. /\ Len(trace') + Len(left') = n'
        /\ \A i \in 1 .. Len(left') : left'[i] = middlewares_'[Len(trace') + i]
    BY <1>1, <1>2, <1>4
  <2> QED  BY <1>1, <1>4, <2>1 DEF Placed
<1>9. Early'
  <2> SUFFICES ASSUME sent.method = "OPTIONS", ~ changed',
                      \E i \in 1 .. n : middlewares_[i] = "cors"
               PROVE  /\ Len(trace') <= n
                      /\ \A i \in 1 .. Len(trace') : middlewares_[i] # "cors"
    BY <1>1, <1>4 DEF Early
  <2>1. \A i \in 1 .. Len(trace) : middlewares_[i] # "cors"
    BY DEF IInv, Early
  <2>2. request.method = "OPTIONS"
    BY DEF IInv, Waiting
  <2>3. middlewares_[Len(trace) + 1] # "cors"
    BY <1>2, <2>2
  <2> QED  BY <1>2, <1>4, <2>1, <2>3
<1>10. Given'
  <2>1. AnsweredByCors' => AnsweredByCors
    <3>1. <<"request", Head(left)>> # <<"response", "cors">>
      OBVIOUS
    <3>2. \A i \in 1 .. Len(trace') : i \in 1 .. Len(trace) \/ i = Len(trace) + 1
      BY <1>2, <1>4
    <3> QED  BY <1>4, <3>1, <3>2 DEF AnsweredByCors
  <2>2. \A g \in granted' : Allowed(g)
    BY <1>1 DEF IInv, Given
  <2> QED  BY <1>1, <1>4, <2>1, <2>2, SameResponse, GivenStays
<1> QED  BY <1>5, <1>6, <1>7, <1>8, <1>9, <1>10 DEF IInv

(* Something is thrown.                                                    *)
LEMMA ThrowIInv ==
  ASSUME IInv, BeingServed,
         pc' \in {"done", "terminated"}, thrown' \in {"std", "response", "other"},
         calls' = calls, left' \in Seq(Middlewares), Sound(response', own', pc'),
         granted' \subseteq Origins \X BOOLEAN, Given',
         UNCHANGED <<middlewares_, allowed_origins, allow_credentials, sent, request, changed>>,
         n' = n, trace' \in Seq(Events), Len(trace') <= 2 * n' + 1,
         \A i \in 1 .. Len(trace') : trace'[i] = OnionAt(i)',
         pc = "request" => Len(trace') <= n
  PROVE  IInv'
<1>1. Typed'
  BY DEF IInv, Typed
<1>2. Answer'
  BY DEF Answer
<1>3. Waiting'
  BY DEF IInv, Waiting, BeingServed
<1>4. Placed'
  BY DEF Placed
<1>5. Early'
  BY DEF IInv, Early, BeingServed
<1> QED  BY <1>1, <1>2, <1>3, <1>4, <1>5 DEF IInv

(* What is thrown in a call of a middleware.                               *)
LEMMA CallThrows ==
  ASSUME IInv, pc \in {"request", "response"}, left # <<>>,
         pc = "response" => Head(left) # "cors", Calls(<<pc, Head(left)>>)
  PROVE  /\ UNCHANGED <<middlewares_, allowed_origins, allow_credentials, sent>> /\ n' = n
         /\ trace' \in Seq(Events) /\ Len(trace') <= 2 * n' + 1
         /\ \A i \in 1 .. Len(trace') : trace'[i] = OnionAt(i)'
         /\ pc = "request" => Len(trace') <= n /\ ~ AnsweredByCors'
         /\ AnsweredByCors' => AnsweredByCors
<1>1. <<pc, Head(left)>> \in Events
  BY Counts DEF Events
<1>2. OnionAt(Len(trace) + 1) = <<pc, Head(left)>> /\ Len(trace) < 2 * n + 1
  BY NextRequest, NextResponse, Counts
<1>3. /\ UNCHANGED <<middlewares_, allowed_origins, allow_credentials, sent>> /\ n' = n
      /\ trace' \in Seq(Events) /\ Len(trace') = Len(trace) + 1
      /\ Len(trace') <= 2 * n' + 1
      /\ \A i \in 1 .. Len(trace) : trace'[i] = trace[i]
      /\ trace'[Len(trace) + 1] = <<pc, Head(left)>>
      /\ \A i \in 1 .. Len(trace') : trace'[i] = OnionAt(i)'
  BY <1>1, <1>2, CallFacts
<1>4. pc = "request" => Len(trace) < n /\ Len(trace') <= n
  BY <1>3, NextRequest, Counts
<1>5. <<pc, Head(left)>> # <<"response", "cors">>
  OBVIOUS
<1>6. \A i \in 1 .. Len(trace') : i \in 1 .. Len(trace) \/ i = Len(trace) + 1
  BY <1>3, Counts
<1>7. AnsweredByCors' => AnsweredByCors
  BY <1>3, <1>5, <1>6 DEF AnsweredByCors
<1>8. Len(trace) < n => ~ AnsweredByCors
  BY RequestsOnly, Counts DEF AnsweredByCors
<1> QED  BY <1>3, <1>4, <1>7, <1>8

LEMMA CorsRequestIInv ==
  ASSUME IInv, CorsRequest
  PROVE  IInv'
<1>1. /\ pc = "request" /\ left # <<>> /\ Head(left) = "cors" /\ UNCHANGED <<request, changed>>
      /\ Calls(<<pc, Head(left)>>) /\ Calls(<<"request", Head(left)>>)
  BY DEF CorsRequest
<1>2. CASE ~ IsPreflight /\ GoOn("request", Tail(left)) /\ UNCHANGED granted
  <2>1. request' \in Asked /\ changed' \in BOOLEAN
    BY <1>1 DEF IInv, Typed
  <2> QED  BY <1>1, <1>2, <2>1, RequestGoesOn DEF IsPreflight
<1>3. CASE /\ IsPreflight
           /\ CatchResponse(HandlePreflightRequest(request.origin), {})
           /\ granted' = granted \cup {<<sent.origin, c>> :
                            c \in {c \in BOOLEAN : Readable(response', sent.origin, c)}}
  <2>1. /\ response' = HandlePreflightRequest(request.origin)
        /\ thrown' = "response" /\ own' = {} /\ calls' = calls /\ pc' = "done" /\ left' = <<>>
    BY <1>3 DEF CatchResponse, Goto
  <2>2. request.origin \in Origins \cup {NoOrigin, "*"}
    BY DEF IInv, Typed, Asked
  <2>3. PICK r : r = NewResponse(TRUE)
    OBVIOUS
  <2>4. Sound(r, {}, "done") /\ Allow \notin DOMAIN r.headers /\ Secret \notin DOMAIN r.headers
    <3>1. Sound(NewResponse(TRUE), {}, "done")
      BY SoundNew, Zenon
    <3> QED  BY <2>3, <3>1, NewIsGiven, Zenon
  <2>5. ASSUME IsOriginAllowed(request.origin)
        PROVE  Sound(response', {}, "done") /\ Configured(response')
    <3>1. PICK q : q = AddCorsHeaders(r, request.origin)
      OBVIOUS
    <3>2. /\ Sound(q, {}, "done") /\ q.headers[Allow] = request.origin
          /\ Secret \in DOMAIN q.headers => q.headers[Secret] = "true" /\ allow_credentials
      BY <2>2, <2>4, <3>1, SoundCors
    <3>3. response' = SetStatusCode(q, 204)
      BY <2>1, <2>3, <2>5, <3>1 DEF HandlePreflightRequest
    <3>4. Sound(response', {}, "done") /\ SameCors(q, response')
      BY <3>2, <3>3, SoundStatus DEF Statuses
    <3> QED  BY <2>5, <3>2, <3>4 DEF SameCors, Configured
  <2>6. ASSUME ~ IsOriginAllowed(request.origin)
        PROVE  Sound(response', {}, "done") /\ Configured(response')
    <3>1. response' = SetStatusCode(r, 403)
      BY <2>1, <2>3, <2>6 DEF HandlePreflightRequest
    <3>2. Sound(response', {}, "done") /\ SameCors(r, response')
      BY <2>4, <3>1, SoundStatus DEF Statuses
    <3> QED  BY <2>4, <3>2 DEF SameCors, Configured
  <2>7. Sound(response', {}, "done") /\ Configured(response')
    BY <2>5, <2>6
  <2>8. ASSUME NEW c \in BOOLEAN, Readable(response', sent.origin, c)
        PROVE  <<sent.origin, c>> \in Origins \X BOOLEAN /\ Allowed(<<sent.origin, c>>)
    <3>1. sent.origin \in Origins /\ sent.origin # NoOrigin
      BY <2>8 DEF IInv, Typed, Asked, Readable
    <3>2. IsOriginAllowed(sent.origin) /\ (c => allow_credentials)
      <4>1. /\ IsOriginAllowed(response'.headers[Allow])
            /\ response'.headers[Allow] \in {sent.origin, "*"}
            /\ c => allow_credentials
        BY <2>7, <2>8 DEF Configured, Readable
      <4> QED  BY <4>1 DEF IsOriginAllowed
    <3> QED  BY <3>1, <3>2 DEF Allowed
  <2>9. granted' \subseteq Origins \X BOOLEAN /\ \A g \in granted' : Allowed(g)
    BY <1>3, <2>8 DEF IInv, Typed, Given
  <2>10. left' \in Seq(Middlewares) /\ Sound(response', own', pc')
    BY <2>1, <2>7
  <2>11. Given'
    <3>1. UNCHANGED <<allowed_origins, allow_credentials>> /\ ~ AnsweredByCors'
      BY <1>1, CallThrows
    <3>2. /\ \A g : Allowed(g)' <=> Allowed(g)
          /\ Configured(response)' <=> Configured(response')
      BY <3>1 DEF Allowed, IsOriginAllowed, Configured
    <3>3. \A g \in granted' : Allowed(g)'
      BY <2>9, <3>2
    <3> QED  BY <2>1, <2>7, <3>1, <3>2, <3>3 DEF Given
  <2>12. BeingServed
    BY <1>1 DEF BeingServed
  <2> QED  BY <1>1, <2>1, <2>9, <2>10, <2>11, <2>12, CallThrows, ThrowIInv
<1> QED  BY <1>2, <1>3 DEF CorsRequest

(* The application's code throws, in a call of a middleware or a handler.  *)
LEMMA AppThrows ==
  ASSUME IInv, BeingServed, Throws, UNCHANGED <<request, changed, granted>>,
         UNCHANGED <<middlewares_, allowed_origins, allow_credentials, sent>>, n' = n,
         trace' \in Seq(Events), Len(trace') <= 2 * n' + 1,
         \A i \in 1 .. Len(trace') : trace'[i] = OnionAt(i)',
         pc = "request" => Len(trace') <= n, AnsweredByCors' => AnsweredByCors
  PROVE  IInv'
<1>1. /\ pc' \in {"done", "terminated"} /\ thrown' \in {"std", "response", "other"}
      /\ calls' = calls /\ left' \in Seq(Middlewares)
      /\ Sound(response', own', pc')
      /\ ServersCors' => ServersCors /\ SameCors(response, response')
  BY ThrowFacts
<1>2. granted' \subseteq Origins \X BOOLEAN /\ \A g \in granted' : Allowed(g)
  BY DEF IInv, Typed, Given
<1>3. Given'
  BY <1>1, <1>2, GivenStays
<1> QED  BY <1>1, <1>2, <1>3, ThrowIInv

LEMMA AppRequestIInv ==
  ASSUME IInv, AppRequest
  PROVE  IInv'
<1>1. /\ pc = "request" /\ left # <<>> /\ Head(left) # "cors" /\ UNCHANGED granted
      /\ Calls(<<pc, Head(left)>>) /\ Calls(<<"request", Head(left)>>)
  BY DEF AppRequest
<1>2. CASE GoOn("request", Tail(left)) /\ ChangeRequest
  <2>1. PICK method \in Methods, origin \in Origins \cup {NoOrigin} :
          /\ request' = [method |-> method, origin |-> origin]
          /\ changed' = (changed \/ method # request.method)
    BY <1>2 DEF ChangeRequest
  <2>2. request \in Asked /\ changed \in BOOLEAN
    BY DEF IInv, Typed
  <2>3. request' \in Asked /\ request'.method = method
    BY <2>1, <2>2 DEF Asked
  <2>4. changed' \in BOOLEAN /\ (~ changed' => ~ changed /\ request'.method = request.method)
    BY <2>1, <2>2, <2>3
  <2> QED  BY <1>1, <1>2, <2>3, <2>4, RequestGoesOn
<1>3. CASE Throws /\ UNCHANGED <<request, changed>>
  <2>1. BeingServed
    BY <1>1 DEF BeingServed
  <2> QED  BY <1>1, <1>3, <2>1, CallThrows, AppThrows
<1> QED  BY <1>2, <1>3 DEF AppRequest

(* The router is called; no preflight comes so far.                        *)
LEMMA RouteCalled ==
  ASSUME IInv, pc = "request", left = <<>>, Calls(<<"route">>), UNCHANGED changed
  PROVE  /\ UNCHANGED <<middlewares_, allowed_origins, allow_credentials, sent>> /\ n' = n
         /\ n \in Nat
         /\ trace' \in Seq(Events) /\ Len(trace') = n' + 1 /\ Len(trace') <= 2 * n' + 1
         /\ \A i \in 1 .. Len(trace') : trace'[i] = OnionAt(i)'
         /\ ~ AnsweredByCors' /\ Early'
<1>1. /\ Len(trace) = n /\ OnionAt(Len(trace) + 1) = <<"route">> /\ <<"route">> \in Events
      /\ Len(trace) \in Nat /\ n \in Nat /\ Len(trace) < 2 * n + 1
  BY NextRoute, Counts DEF Events
<1>2. /\ UNCHANGED <<middlewares_, allowed_origins, allow_credentials, sent>> /\ n' = n
      /\ trace' \in Seq(Events) /\ Len(trace') = Len(trace) + 1
      /\ Len(trace') <= 2 * n' + 1
      /\ \A i \in 1 .. Len(trace) : trace'[i] = trace[i]
      /\ trace'[Len(trace) + 1] = <<"route">>
      /\ \A i \in 1 .. Len(trace') : trace'[i] = OnionAt(i)'
  BY <1>1, CallFacts
<1>3. ASSUME NEW i \in 1 .. Len(trace') PROVE trace'[i] # <<"response", "cors">>
  <2>1. <<"route">> # <<"response", "cors">>
    OBVIOUS
  <2>2. i \in 1 .. Len(trace) \/ i = Len(trace) + 1
    BY <1>1, <1>2
  <2> QED  BY <1>1, <1>2, <2>1, <2>2, RequestsOnly
<1>4. Early'
  <2>1. ASSUME sent.method = "OPTIONS", ~ changed, NEW i \in 1 .. n, middlewares_[i] = "cors"
        PROVE  FALSE
    BY <1>1, <2>1 DEF IInv, Early
  <2> QED  BY <1>2, <2>1 DEF Early
<1> QED  BY <1>1, <1>2, <1>3, <1>4 DEF AnsweredByCors

LEMMA NoRequestAsked == NoRequest \in Asked
BY DEF NoRequest, Asked

LEMMA RouteFoundIInv ==
  ASSUME IInv, RouteFound
  PROVE  IInv'
<1>1. /\ pc = "request" /\ left = <<>> /\ Calls(<<"route">>)
      /\ pc' = "handler" /\ left' = <<>> /\ own' = {"handler"}
      /\ request' = NoRequest /\ UNCHANGED <<response, calls, changed, thrown, granted>>
  BY DEF RouteFound, Goto
<1>2. Typed'
  <2>1. left' \in Seq(Middlewares)
    BY <1>1
  <2> QED  BY <1>1, <2>1, NoRequestAsked, RouteCalled DEF IInv, Typed
<1>3. Answer'
  <2>1. Sound(response, own, "request") /\ own = {}
    BY <1>1 DEF IInv, Answer, Waiting
  <2>2. Sound(response, {"handler"}, "handler")
    BY <2>1 DEF Sound, Tags
  <2> QED  BY <1>1, <2>2 DEF Answer
<1>4. Waiting'
  BY <1>1, RouteCalled DEF IInv, Waiting, BeingServed
<1>5. Placed'
  BY <1>1, RouteCalled DEF Placed
<1>6. Given'
  <2>1. Allow \notin DOMAIN response.headers /\ own = {}
    BY <1>1, NewIsGiven DEF IInv, Waiting
  <2>2. \A g \in granted' : Allowed(g)
    BY <1>1 DEF IInv, Given
  <2>3. ServersCors /\ SameCors(response, response')
    BY <1>1, <2>1 DEF ServersCors, SameCors
  <2> QED  BY <1>1, <2>1, <2>2, <2>3, RouteCalled, GivenStays
<1> QED  BY <1>1, <1>2, <1>3, <1>4, <1>5, <1>6, RouteCalled DEF IInv

(* The response phase begins behind the call of the router.                *)
LEMMA PhaseBegins ==
  ASSUME IInv, pc' = "response", left' = LastToFirst, UNCHANGED middlewares_, n' = n,
         Len(trace') = n + 1, \A i \in 1 .. Len(trace') : trace'[i] = OnionAt(i)'
  PROVE  left' \in Seq(Middlewares) /\ Placed'
<1>1. /\ LastToFirst \in Seq(Middlewares) /\ Len(LastToFirst) = n /\ n \in Nat
      /\ \A i \in 1 .. n : LastToFirst[i] = middlewares_[n + 1 - i]
  BY ReverseFacts DEF IInv
<1>2. ASSUME NEW i \in 1 .. n PROVE left'[i] = middlewares_[2 * n + 2 - (Len(trace') + i)]
  <2>1. 2 * n + 2 - (Len(trace') + i) = n + 1 - i
    BY <1>1
  <2> QED  BY <1>1, <2>1
<1>3. n < Len(trace') /\ Len(trace') + Len(left') = 2 * n + 1 /\ Len(trace') <= 2 * n + 1
  BY <1>1
<1> QED  BY <1>1, <1>2, <1>3 DEF Placed

LEMMA RouteNotFoundIInv ==
  ASSUME IInv, RouteNotFound
  PROVE  IInv'
<1>1. /\ pc = "request" /\ left = <<>> /\ Calls(<<"route">>)
      /\ response' = SetCloseConnection(
           SetResponseBody(SetStatusCode(response, 404), NotFoundText), TRUE)
      /\ pc' = "response" /\ left' = LastToFirst
      /\ request' = NoRequest /\ UNCHANGED <<calls, own, changed, thrown, granted>>
  BY DEF RouteNotFound, Goto, local
<1>2. /\ Sound(response, {}, "request") /\ own = {}
      /\ Allow \notin DOMAIN response.headers
  BY <1>1, NewIsGiven DEF IInv, Answer, Waiting
<1>3. left' \in Seq(Middlewares) /\ Placed'
  BY <1>1, RouteCalled, PhaseBegins
<1>4. Typed'
  BY <1>1, <1>3, NoRequestAsked, RouteCalled DEF IInv, Typed
<1>5. PICK r : r = SetStatusCode(response, 404)
  OBVIOUS
<1>6. Sound(r, {}, "request") /\ SameCors(response, r)
  BY <1>2, <1>5, SoundStatus DEF Statuses
<1>7. PICK q : q = SetResponseBody(r, NotFoundText)
  OBVIOUS
<1>8. Sound(q, {}, "response") /\ SameCors(r, q)
  <2>1. NotFoundText \in Bodies /\ \A i \in DOMAIN NotFoundText : NotFoundText[i] # Nul
    BY BodiesAreTexts
  <2>2. PICK b : b = NotFoundText
    OBVIOUS
  <2>3. PICK t : t = {}
    OBVIOUS
  <2>4. /\ b \in Bodies /\ t \subseteq Tags /\ "thrown" \notin t
        /\ "body" \notin t => \A i \in DOMAIN b : b[i] # Nul
    BY <2>1, <2>2, <2>3
  <2>5. Sound(SetResponseBody(r, b), t, "response") /\ SameCors(r, SetResponseBody(r, b))
    BY <1>6, <2>4, SoundBody, Zenon
  <2> QED  BY <1>7, <2>2, <2>3, <2>5
<1>9. PICK s : s = SetCloseConnection(q, TRUE)
  OBVIOUS
<1>10. Sound(response', {}, "response") /\ SameCors(response, response')
  <2>1. response' = s
    BY <1>1, <1>5, <1>7, <1>9
  <2>2. Sound(s, {}, "response") /\ SameCors(q, s)
    BY <1>8, <1>9, SoundClose
  <2> QED  BY <1>6, <1>8, <2>1, <2>2 DEF SameCors
<1>11. Answer'
  BY <1>1, <1>2, <1>10 DEF Answer
<1>12. Waiting'
  BY <1>1, RouteCalled DEF IInv, Waiting, BeingServed
<1>13. Given'
  <2>1. \A g \in granted' : Allowed(g)
    BY <1>1 DEF IInv, Given
  <2>2. ServersCors
    BY <1>2 DEF ServersCors
  <2> QED  BY <1>1, <1>2, <1>10, <2>1, <2>2, RouteCalled, GivenStays
<1> QED  BY <1>1, <1>3, <1>4, <1>11, <1>12, <1>13, RouteCalled DEF IInv

(* What a setter called by the application leaves.                         *)
Set ==
  /\ Sound(response', own', pc) /\ own \ {"length"} \subseteq own'
  /\ "thrown" \notin own'
  /\ ServersCors' => ServersCors /\ SameCors(response, response')

LEMMA SetsFacts ==
  ASSUME IInv, AppSets
  PROVE  Set
<1>1. Sound(response, own, pc) /\ pc \in {"handler", "response"} /\ "thrown" \notin own
  BY DEF IInv, Answer, Waiting, BeingServed, AppSets, InAppCode
<1>2. own \subseteq Tags /\ pc # "done"
  BY <1>1 DEF Sound
<1>3. CASE own' = own /\ response' = SetStatusCode(response, 200)
  <2>1. Sound(response', own, pc) /\ SameCors(response, response')
    BY <1>1, <1>3, SoundStatus DEF Statuses
  <2> QED  BY <1>1, <1>3, <2>1 DEF ServersCors, Set
<1>4. ASSUME own' = own, NEW close \in BOOLEAN, response' = SetCloseConnection(response, close)
      PROVE  Set
  <2>1. Sound(response', own, pc) /\ SameCors(response, response')
    BY <1>1, <1>2, <1>4, SoundClose, Zenon
  <2> QED  BY <1>1, <1>4, <2>1 DEF ServersCors, Set
<1>5. ASSUME own' = (own \ {"length"}) \cup {"body"}, NEW b \in AppBodies,
             response' = SetResponseBody(response, b)
      PROVE  Set
  <2>1. b \in Bodies /\ own' \subseteq Tags /\ "thrown" \notin own' /\ "body" \in own'
    BY <1>1, <1>2, <1>5 DEF Bodies, Tags
  <2>2. Sound(response', own', pc) /\ SameCors(response, response')
    BY <1>1, <1>5, <2>1, SoundBody, Zenon
  <2> QED  BY <1>5, <2>1, <2>2 DEF ServersCors, Set
<1>6. CASE own' = own \cup {"length"} /\ response' = SetContentLength(response, 2)
  <2>1. Sound(response', own', pc) /\ SameCors(response, response')
    BY <1>1, <1>6, SoundLength, Zenon
  <2> QED  BY <1>1, <1>6, <2>1 DEF ServersCors, Set
<1>7. ASSUME NEW h \in AppHeaders, response' = AddHeader(response, h[1], h[2]),
             own' = IF h[1] \in DOMAIN response.headers THEN own ELSE own \cup {Tag(h[1])}
      PROVE  Set
  <2>1. CASE h[1] \in DOMAIN response.headers
    <3>1. response' = response /\ own' = own
      BY <1>7, <2>1 DEF AddHeader
    <3> QED  BY <1>1, <3>1, SameResponse DEF Set
  <2>2. CASE h[1] \notin DOMAIN response.headers /\ h = <<Length, 2>>
    <3>1. own' = own \cup {"length"} /\ response' = AddHeader(response, Length, 2)
      BY <1>7, <2>2 DEF Tag
    <3>2. Length \notin DOMAIN response.headers
      BY <2>2
    <3>3. Sound(response', own', pc) /\ SameCors(response, response')
      BY <1>1, <3>1, <3>2, SoundLength, Zenon
    <3> QED  BY <1>1, <3>1, <3>3 DEF ServersCors, Set
  <2>3. CASE h[1] \notin DOMAIN response.headers /\ h # <<Length, 2>>
    <3>1. Fits(h[1], h[2])
      BY <2>3 DEF AppHeaders, Fits
    <3>2. own' = own \cup {"cors"}
      BY <1>7, <2>3, <3>1, Keys DEF Tag, Fits
    <3>3. Sound(response', own, pc)
      BY <1>1, <1>7, <3>1, SoundHeader, Zenon
    <3>4. Sound(response', own', pc) /\ ~ ServersCors'
      BY <1>1, <3>2, <3>3 DEF Sound, Tags, ServersCors
    <3> QED  BY <1>1, <3>2, <3>4 DEF Set
  <2> QED  BY <2>1, <2>2, <2>3
<1> QED  BY <1>3, <1>4, <1>5, <1>6, <1>7 DEF AppSets

LEMMA AppSetsIInv ==
  ASSUME IInv, AppSets
  PROVE  IInv'
<1>1. /\ pc \in {"handler", "response"} /\ calls < MaxCalls /\ calls' = calls + 1
      /\ UNCHANGED <<middlewares_, allowed_origins, allow_credentials, pc, left, sent, request>>
      /\ UNCHANGED <<trace, changed, thrown, granted>>
  BY DEF AppSets, InAppCode, config
<1>2. n' = n /\ \A i : OnionAt(i)' = OnionAt(i)
  BY <1>1 DEF n, OnionAt
<1>3. Typed'
  <2>1. calls' \in 0 .. MaxCalls
    <3>1. calls \in 0 .. MaxCalls
      BY DEF IInv, Typed
    <3> QED  BY <1>1, <3>1, PipelineAssumption
  <2> QED  BY <1>1, <2>1 DEF IInv, Typed
<1>4. Answer'
  BY <1>1, SetsFacts DEF Set, Answer
<1>5. Waiting'
  <2>1. "handler" \in own => "handler" \in own'
    BY SetsFacts DEF Set
  <2> QED  BY <1>1, <2>1, SetsFacts DEF Set, IInv, Waiting, BeingServed
<1>6. Placed' /\ Early'
  BY <1>1, <1>2 DEF IInv, Placed, Early
<1>7. Given'
  <2>1. (\A g \in granted' : Allowed(g)) /\ (AnsweredByCors' => AnsweredByCors)
    BY <1>1 DEF IInv, Given, AnsweredByCors
  <2> QED  BY <1>1, <2>1, SetsFacts, GivenStays DEF Set
<1> QED  BY <1>3, <1>4, <1>5, <1>6, <1>7 DEF IInv

LEMMA HandlerReturnsIInv ==
  ASSUME IInv, HandlerReturns
  PROVE  IInv'
<1>1. /\ pc = "handler" /\ pc' = "response" /\ left' = LastToFirst
      /\ UNCHANGED <<middlewares_, allowed_origins, allow_credentials, sent, request, response>>
      /\ UNCHANGED <<trace, calls, own, changed, thrown, granted>>
  BY DEF HandlerReturns, GoOn, Goto, local, config
<1>2. n' = n /\ \A i : OnionAt(i)' = OnionAt(i)
  BY <1>1 DEF n, OnionAt
<1>3. left' \in Seq(Middlewares) /\ Placed'
  <2>1. Len(trace') = n + 1 /\ \A i \in 1 .. Len(trace') : trace'[i] = OnionAt(i)'
    BY <1>1, <1>2 DEF IInv, Placed
  <2> QED  BY <1>1, <1>2, <2>1, PhaseBegins
<1>4. Typed'
  BY <1>1, <1>3 DEF IInv, Typed
<1>5. Answer'
  <2>1. Sound(response, own, pc) /\ "handler" \in own
    BY <1>1 DEF IInv, Answer, Waiting
  <2>2. Sound(response, own, "response")
    BY <2>1, SoundAnyway
  <2> QED  BY <1>1, <2>2 DEF Answer
<1>6. Waiting' /\ Early'
  BY <1>1, <1>2 DEF IInv, Waiting, Early, BeingServed
<1>7. Given'
  <2>1. (\A g \in granted' : Allowed(g)) /\ (AnsweredByCors' => AnsweredByCors)
    BY <1>1 DEF IInv, Given, AnsweredByCors
  <2> QED  BY <1>1, <2>1, SameResponse, GivenStays
<1> QED  BY <1>3, <1>4, <1>5, <1>6, <1>7 DEF IInv

LEMMA HandlerThrowsIInv ==
  ASSUME IInv, HandlerThrows
  PROVE  IInv'
<1>1. /\ pc = "handler" /\ Throws /\ UNCHANGED <<request, trace, changed, granted>>
      /\ UNCHANGED <<middlewares_, allowed_origins, allow_credentials, sent>>
  BY DEF HandlerThrows, config
<1>2. n' = n /\ \A i : OnionAt(i)' = OnionAt(i)
  BY <1>1 DEF n, OnionAt
<1>3. /\ trace' \in Seq(Events) /\ Len(trace') <= 2 * n' + 1
      /\ \A i \in 1 .. Len(trace') : trace'[i] = OnionAt(i)'
      /\ AnsweredByCors' => AnsweredByCors
  BY <1>1, <1>2 DEF IInv, Typed, Placed, AnsweredByCors
<1>4. BeingServed
  BY <1>1 DEF BeingServed
<1> QED  BY <1>1, <1>2, <1>3, <1>4, AppThrows

(* A call in the response phase that goes on to the next middleware.       *)
LEMMA ResponseGoesOn ==
  ASSUME IInv, pc = "response", left # <<>>, Calls(<<"response", Head(left)>>),
         pc' = "response", left' = Tail(left),
         UNCHANGED <<request, calls, own, changed, thrown, granted>>
  PROVE  /\ UNCHANGED <<middlewares_, allowed_origins, allow_credentials, sent>>
         /\ Head(left) # "cors" => (AnsweredByCors' => AnsweredByCors)
         /\ Typed' /\ Waiting' /\ Placed' /\ Early'
<1>1. /\ n < Len(trace) /\ Len(trace) < 2 * n + 1
      /\ OnionAt(Len(trace) + 1) = <<"response", Head(left)>>
      /\ (Len(trace) + 1) + Len(Tail(left)) = 2 * n + 1
      /\ \A i \in 1 .. Len(Tail(left)) :
           Tail(left)[i] = middlewares_[2 * n + 2 - ((Len(trace) + 1) + i)]
  BY NextResponse
<1>2. <<"response", Head(left)>> \in Events /\ Len(trace) \in Nat /\ n \in Nat
  BY Counts DEF Events
<1>3. /\ UNCHANGED <<middlewares_, allowed_origins, allow_credentials, sent>> /\ n' = n
      /\ trace' \in Seq(Events) /\ Len(trace') = Len(trace) + 1
      /\ Len(trace') <= 2 * n' + 1
      /\ \A i \in 1 .. Len(trace) : trace'[i] = trace[i]
      /\ trace'[Len(trace) + 1] = <<"response", Head(left)>>
      /\ \A i \in 1 .. Len(trace') : trace'[i] = OnionAt(i)'
  BY <1>1, <1>2, CallFacts
<1>4. Typed'
  BY <1>3, Counts DEF IInv, Typed
<1>5. Waiting'
  BY <1>3 DEF IInv, Waiting, BeingServed
<1>6. Placed'
  <2>1. /\ n' < Len(trace') /\ Len(trace') + Len(left') = 2 * n' + 1
        /\ \A i \in 1 .. Len(left') : left'[i] = middlewares_'[2 * n' + 2 - (Len(trace') + i)]
    <3>1. n < Len(trace) + 1
      BY <1>1, <1>2
    <3> QED  BY <1>1, <1>3, <3>1
  <2> QED  BY <1>3, <2>1 DEF Placed
<1>7. Early'
  BY <1>3 DEF IInv, Early
<1>8. ASSUME Head(left) # "cors" PROVE AnsweredByCors' => AnsweredByCors
  <2>1. <<"response", Head(left)>> # <<"response", "cors">>
    BY <1>8
  <2>2. \A i \in 1 .. Len(trace') : i \in 1 .. Len(trace) \/ i = Len(trace) + 1
    BY <1>2, <1>3
  <2> QED  BY <1>3, <2>1, <2>2 DEF AnsweredByCors
<1> QED  BY <1>3, <1>4, <1>5, <1>6, <1>7, <1>8

LEMMA NamedFacts ==
  ASSUME IInv, allowed_origins # <<>>
  PROVE  Named \in Origins \cup {"*"} /\ IsOriginAllowed(Named)
<1>1. allowed_origins \in Seq(Origins \cup {"*"})
  BY PipelineAssumption DEF IInv, Typed
<1>2. allowed_origins[1] \in Origins \cup {"*"} /\ allowed_origins[1] \in ToSet(allowed_origins)
  BY <1>1 DEF ToSet
<1> QED  BY <1>2 DEF Named, IsOriginAllowed

LEMMA CorsResponseIInv ==
  ASSUME IInv, CorsResponse
  PROVE  IInv'
<1>1. /\ pc = "response" /\ left # <<>> /\ Calls(<<"response", Head(left)>>)
      /\ pc' = "response" /\ left' = Tail(left)
      /\ UNCHANGED <<request, calls, own, changed, thrown, granted>>
      /\ response' = CorsHandleResponse(response)
  BY DEF CorsResponse, Goto, local
<1>2. /\ UNCHANGED <<middlewares_, allowed_origins, allow_credentials, sent>>
      /\ Typed' /\ Waiting' /\ Placed' /\ Early'
  BY <1>1, ResponseGoesOn
<1>3. Sound(response, own, "response")
  BY <1>1 DEF IInv, Answer
<1>4. /\ \A g \in granted : Allowed(g)
      /\ ServersCors =>
           /\ Configured(response)
           /\ Allow \in DOMAIN response.headers => response.headers[Allow] = Named
  BY <1>1 DEF IInv, Given
<1>5. /\ \A g : Allowed(g)' <=> Allowed(g)
      /\ \A o : IsOriginAllowed(o)' <=> IsOriginAllowed(o)
      /\ Named' = Named /\ (ServersCors' <=> ServersCors)
  BY <1>1, <1>2 DEF Allowed, IsOriginAllowed, Named, ServersCors
<1>6. CASE allowed_origins = <<>>
  <2>1. "*" \notin ToSet(allowed_origins)
    BY <1>6 DEF ToSet
  <2>2. response' = response
    BY <1>1, <1>6, <2>1 DEF CorsHandleResponse
  <2>3. Configured(response)' <=> Configured(response)
    BY <1>2, <1>5, <2>2 DEF Configured
  <2>4. Given'
    BY <1>1, <1>2, <1>4, <1>5, <1>6, <2>2, <2>3 DEF Given
  <2>5. Answer'
    BY <1>1, <1>3, <2>2 DEF Answer
  <2> QED  BY <1>2, <2>4, <2>5 DEF IInv
<1>7. CASE allowed_origins # <<>>
  <2>1. Named \in Origins \cup {NoOrigin, "*"} /\ IsOriginAllowed(Named)
    BY <1>7, NamedFacts
  <2>2. response' = AddCorsHeaders(response, Named)
    BY <1>1, <1>7 DEF CorsHandleResponse, Named
  <2>3. /\ Sound(response', own, "response") /\ Allow \in DOMAIN response'.headers
        /\ response'.headers[Allow] =
             IF Allow \in DOMAIN response.headers THEN response.headers[Allow] ELSE Named
        /\ Secret \in DOMAIN response'.headers <=>
             Secret \in DOMAIN response.headers \/ allow_credentials
        /\ Secret \in DOMAIN response'.headers =>
             response'.headers[Secret] =
               IF Secret \in DOMAIN response.headers THEN response.headers[Secret] ELSE "true"
    BY <1>3, <2>1, <2>2, SoundCors
  <2>4. ASSUME ServersCors
        PROVE  Configured(response)' /\ Complete(response)'
    <3>1. response'.headers[Allow] = Named
      BY <1>4, <2>3, <2>4
    <3>2. Secret \in DOMAIN response'.headers =>
            response'.headers[Secret] = "true" /\ allow_credentials
      BY <1>4, <2>3, <2>4 DEF Configured
    <3> QED  BY <1>2, <1>5, <2>1, <2>3, <3>1, <3>2 DEF Configured, Complete
  <2>5. Given'
    BY <1>1, <1>4, <1>5, <2>4 DEF Given, Complete
  <2>6. Answer'
    BY <1>1, <2>3 DEF Answer
  <2> QED  BY <1>2, <2>5, <2>6 DEF IInv
<1> QED  BY <1>6, <1>7

LEMMA AppHandleResponseIInv ==
  ASSUME IInv, AppHandleResponse
  PROVE  IInv'
<1>1. /\ pc = "response" /\ left # <<>> /\ Head(left) # "cors"
      /\ UNCHANGED <<request, changed, granted>>
      /\ Calls(<<"response", Head(left)>>) /\ Calls(<<pc, Head(left)>>)
  BY DEF AppHandleResponse
<1>2. granted' \subseteq Origins \X BOOLEAN /\ \A g \in granted' : Allowed(g)
  BY <1>1 DEF IInv, Typed, Given
<1>3. CASE GoOn("response", Tail(left))
  <2>1. pc' = "response" /\ left' = Tail(left) /\ UNCHANGED <<response, calls, own, thrown>>
    BY <1>3 DEF GoOn, Goto, local
  <2>2. Answer'
    BY <1>1, <2>1 DEF IInv, Answer
  <2>3. /\ UNCHANGED <<allowed_origins, allow_credentials>>
        /\ AnsweredByCors' => AnsweredByCors
        /\ Typed' /\ Waiting' /\ Placed' /\ Early'
    BY <1>1, <2>1, ResponseGoesOn
  <2>4. Given'
    BY <1>1, <1>2, <2>1, <2>3, SameResponse, GivenStays
  <2> QED  BY <2>2, <2>3, <2>4 DEF IInv
<1>4. BeingServed
  BY <1>1 DEF BeingServed
<1>5. CASE Goto("done", <<>>) /\ thrown' = "std" /\ UNCHANGED <<response, local>>
  <2>1. pc' = "done" /\ left' = <<>> /\ thrown' = "std" /\ UNCHANGED <<response, calls, own>>
    BY <1>5 DEF Goto, local
  <2>2. left' \in Seq(Middlewares)
    BY <2>1
  <2>3. Sound(response', own', pc')
    <3>1. Sound(response, own, "response")
      BY <1>1 DEF IInv, Answer
    <3>2. Sound(response, own, "done")
      BY <3>1, SoundAnyway
    <3> QED  BY <2>1, <3>2
  <2>4. Given'
    BY <1>1, <1>2, <2>1, CallThrows, SameResponse, GivenStays
  <2> QED  BY <1>1, <1>2, <1>4, <2>1, <2>2, <2>3, <2>4, CallThrows, ThrowIInv
<1>6. CASE ThrowsResponse \/ Terminate
  <2>1. Throws
    BY <1>6 DEF Throws
  <2> QED  BY <1>1, <1>4, <2>1, CallThrows, AppThrows
<1> QED  BY <1>3, <1>5, <1>6 DEF AppHandleResponse

LEMMA ReturnIInv ==
  ASSUME IInv, Return
  PROVE  IInv'
<1>1. /\ pc = "response" /\ left = <<>> /\ pc' = "done" /\ left' = <<>>
      /\ UNCHANGED <<middlewares_, allowed_origins, allow_credentials, sent, request, response>>
      /\ UNCHANGED <<trace, calls, own, changed, thrown, granted>>
  BY DEF Return, GoOn, Goto, local, config
<1>2. n' = n /\ \A i : OnionAt(i)' = OnionAt(i)
  BY <1>1 DEF n, OnionAt
<1>3. Typed'
  BY <1>1 DEF IInv, Typed
<1>4. Answer'
  <2>1. Sound(response, own, "response")
    BY <1>1 DEF IInv, Answer
  <2>2. Sound(response, own, "done")
    BY <2>1, SoundAnyway
  <2> QED  BY <1>1, <2>2 DEF Answer
<1>5. Placed'
  <2>1. Len(trace) + Len(left) = 2 * n + 1
    BY <1>1 DEF IInv, Placed
  <2>2. Len(trace) = 2 * n + 1
    BY <1>1, <2>1, Counts
  <2> QED  BY <1>1, <1>2, <2>2 DEF IInv, Placed
<1>6. Early'
  BY <1>1, <1>2 DEF IInv, Early
<1>7. Given'
  <2>1. (\A g \in granted' : Allowed(g)) /\ (AnsweredByCors' => AnsweredByCors)
    BY <1>1 DEF IInv, Given, AnsweredByCors
  <2> QED  BY <1>1, <2>1, SameResponse, GivenStays
<1>8. Waiting'
  BY <1>1 DEF IInv, Waiting, BeingServed
<1> QED  BY <1>3, <1>4, <1>5, <1>6, <1>7, <1>8 DEF IInv

LEMMA NextIInv == IInv /\ [Next]_vars => IInv'
<1>1. ASSUME IInv, HandleRequest PROVE IInv'
  BY <1>1, CorsRequestIInv, AppRequestIInv, RouteFoundIInv, RouteNotFoundIInv, AppSetsIInv,
     HandlerReturnsIInv, HandlerThrowsIInv, CorsResponseIInv, AppHandleResponseIInv, ReturnIInv
  DEF HandleRequest
<1>2. ASSUME IInv, Next PROVE IInv'
  BY <1>1, <1>2, AddMiddlewareIInv, OnRequestIInv DEF Next
<1>3. ASSUME IInv, UNCHANGED vars PROVE IInv'
  <2>1. /\ UNCHANGED <<middlewares_, allowed_origins, allow_credentials, pc, left, sent, request>>
        /\ UNCHANGED <<response, trace, calls, own, changed, thrown, granted>>
    BY <1>3 DEF vars, config, local
  <2>2. n' = n /\ \A i : OnionAt(i)' = OnionAt(i)
    BY <2>1 DEF n, OnionAt
  <2>3. Typed' /\ Answer' /\ Waiting'
    BY <1>3, <2>1 DEF IInv, Typed, Answer, Waiting, BeingServed
  <2>4. Placed' /\ Early'
    BY <1>3, <2>1, <2>2 DEF IInv, Placed, Early
  <2>5. Given'
    <3>1. (\A g \in granted' : Allowed(g)) /\ (AnsweredByCors' => AnsweredByCors)
      BY <1>3, <2>1 DEF IInv, Given, AnsweredByCors
    <3> QED  BY <1>3, <2>1, <3>1, SameResponse, GivenStays
  <2> QED  BY <2>3, <2>4, <2>5 DEF IInv
<1> QED  BY <1>2, <1>3

LEMMA AlwaysIInv == Spec => []IInv
BY InitIInv, NextIInv, PTL DEF Spec


-----------------------------------------------------------------------------
(* Every field of the response and of the server's state has its type: the *)
(* length header is a number, those of CORS have values a browser reads.   *)
THEOREM TypeCorrect == Spec => []TypeOK
<1>1. IInv => TypeOK
  <2> SUFFICES ASSUME IInv PROVE TypeOK  OBVIOUS
  <2>1. IsResponse(response) /\ own \subseteq Tags
    BY DEF IInv, Answer, Sound, Headers, Fields, IsResponse
  <2>2. {sent, request} \subseteq [method : Methods \cup {"none"}, origin : Origins \cup {NoOrigin}]
    BY DEF IInv, Typed, Asked
  <2> QED  BY <2>1, <2>2 DEF IInv, Typed, TypeOK, Tags
<1> QED  BY <1>1, AlwaysIInv, PTL

LEMMA Concatenation ==
  ASSUME NEW S, NEW a \in Seq(S), NEW b \in Seq(S)
  PROVE  /\ a \o b \in Seq(S) /\ Len(a \o b) = Len(a) + Len(b)
         /\ Len(a) \in Nat /\ Len(b) \in Nat
         /\ \A i \in 1 .. Len(a) : (a \o b)[i] = a[i]
         /\ \A i \in 1 .. Len(b) : (a \o b)[Len(a) + i] = b[i]
OBVIOUS

LEMMA OnionIs ==
  ASSUME IInv
  PROVE  /\ DOMAIN Onion = 1 .. 2 * n + 1 /\ Len(Onion) = 2 * n + 1
         /\ Onion \in Seq(Events)
         /\ \A i \in 1 .. 2 * n + 1 : Onion[i] = OnionAt(i)
<1>1. /\ middlewares_ \in Seq(Middlewares) /\ n \in Nat /\ n = Len(middlewares_)
      /\ LastToFirst = Reverse(middlewares_)
      /\ LastToFirst \in Seq(Middlewares) /\ Len(LastToFirst) = n
      /\ \A i \in 1 .. n : LastToFirst[i] = middlewares_[n + 1 - i]
  BY ReverseFacts DEF IInv, Typed, n, LastToFirst
<1> DEFINE first == Phase("request", middlewares_)
           last == Phase("response", LastToFirst)
           route == << <<"route">> >>
<1>2. /\ first \in Seq(Events) /\ Len(first) = n
      /\ \A i \in 1 .. n : first[i] = <<"request", middlewares_[i]>>
  BY <1>1 DEF Phase, Events
<1>3. /\ last \in Seq(Events) /\ Len(last) = n
      /\ \A i \in 1 .. n : last[i] = <<"response", middlewares_[n + 1 - i]>>
  BY <1>1 DEF Phase, Events
<1>4. route \in Seq(Events) /\ Len(route) = 1 /\ route[1] = <<"route">>
  BY DEF Events
<1>5. Onion = (first \o route) \o last
  BY <1>1 DEF Onion
<1> HIDE DEF first, last, route
<1> DEFINE before == first \o route
<1>6. /\ before \in Seq(Events) /\ Len(before) = n + 1
      /\ \A i \in 1 .. n : before[i] = first[i]
      /\ before[n + 1] = <<"route">>
  <2>1. /\ before \in Seq(Events) /\ Len(before) = Len(first) + Len(route)
        /\ \A i \in 1 .. Len(first) : before[i] = first[i]
        /\ \A i \in 1 .. Len(route) : before[Len(first) + i] = route[i]
    <3>1. first \in Seq(Events) /\ route \in Seq(Events)
      BY <1>2, <1>4
    <3> QED  BY <3>1, Concatenation
  <2> HIDE DEF before
  <2>2. before[n + 1] = route[1]
    BY <1>1, <1>2, <1>4, <2>1
  <2> QED  BY <1>1, <1>2, <1>4, <2>1, <2>2
<1> HIDE DEF before
<1>7. /\ Onion \in Seq(Events) /\ Len(Onion) = (n + 1) + n
      /\ \A i \in 1 .. n + 1 : Onion[i] = before[i]
      /\ \A i \in 1 .. n : Onion[(n + 1) + i] = last[i]
  <2>1. Onion = before \o last
    BY <1>5 DEF before
  <2>2. /\ before \o last \in Seq(Events) /\ Len(before \o last) = Len(before) + Len(last)
        /\ \A i \in 1 .. Len(before) : (before \o last)[i] = before[i]
        /\ \A i \in 1 .. Len(last) : (before \o last)[Len(before) + i] = last[i]
    <3>1. before \in Seq(Events) /\ last \in Seq(Events)
      BY <1>3, <1>6
    <3> QED  BY <3>1, Concatenation
  <2> QED  BY <1>1, <1>3, <1>6, <2>1, <2>2
<1>8. ASSUME NEW i \in 1 .. 2 * n + 1 PROVE Onion[i] = OnionAt(i)
  <2>1. CASE i <= n
    <3>1. i \in 1 .. n /\ i \in 1 .. n + 1
      BY <1>1, <2>1
    <3>2. Onion[i] = <<"request", middlewares_[i]>>
      BY <1>2, <1>6, <1>7, <3>1
    <3> QED  BY <2>1, <3>2 DEF OnionAt
  <2>2. CASE i = n + 1
    <3>1. i \in 1 .. n + 1 /\ ~ (i <= n)
      BY <1>1, <2>2
    <3>2. Onion[i] = <<"route">>
      BY <1>6, <1>7, <2>2, <3>1
    <3> QED  BY <2>2, <3>1, <3>2 DEF OnionAt
  <2>3. CASE i > n + 1
    <3>1. PICK j \in 1 .. n : i = (n + 1) + j
      <4>1. i - (n + 1) \in 1 .. n /\ i = (n + 1) + (i - (n + 1))
        BY <1>1, <2>3
      <4> QED  BY <4>1
    <3>2. Onion[i] = last[j] /\ last[j] = <<"response", middlewares_[n + 1 - j]>>
      BY <1>3, <1>7, <3>1
    <3>3. n + 1 - j = 2 * n + 2 - i /\ ~ (i <= n) /\ i # n + 1
      BY <1>1, <2>3, <3>1
    <3> QED  BY <3>2, <3>3 DEF OnionAt
  <2> QED  BY <1>1, <2>1, <2>2, <2>3
<1> QED  BY <1>1, <1>7, <1>8

(* middleware_chain.cpp:13-28: the calls made are a beginning of the       *)
(* onion, and all of it unless something threw.                            *)
THEOREM CallsAreAnOnion == Spec => []OnionOrder
<1>1. IInv => OnionOrder
  <2> SUFFICES ASSUME IInv PROVE OnionOrder  OBVIOUS
  <2>1. /\ trace \in Seq(Events) /\ Len(trace) \in Nat /\ n \in Nat
        /\ Len(trace) <= 2 * n + 1 /\ \A i \in 1 .. Len(trace) : trace[i] = OnionAt(i)
        /\ pc = "done" /\ thrown = "none" => Len(trace) = 2 * n + 1
    BY Counts DEF IInv, Typed, Placed
  <2>2. /\ Onion \in Seq(Events) /\ Len(Onion) = 2 * n + 1
        /\ \A i \in 1 .. 2 * n + 1 : Onion[i] = OnionAt(i)
    BY OnionIs
  <2>3. IsPrefix(trace, Onion)
    BY <2>1, <2>2 DEF IsPrefix
  <2>4. ASSUME pc = "done", thrown = "none" PROVE trace = Onion
    BY <2>1, <2>2, <2>4
  <2> QED  BY <2>3, <2>4 DEF OnionOrder
<1> QED  BY <1>1, AlwaysIInv, PTL

(* cors_middleware.cpp:17-22: with a CorsMiddleware in the chain, however  *)
(* long, an OPTIONS request never reaches the router, unless a middleware  *)
(* has changed its method.                                                 *)
THEOREM PreflightStopsEarly == Spec => []PreflightNotRouted
<1>1. IInv => PreflightNotRouted
  <2> SUFFICES ASSUME IInv, sent.method = "OPTIONS", Contains(middlewares_, "cors"), ~ changed
               PROVE  ~ Contains(trace, <<"route">>)
    BY DEF PreflightNotRouted
  <2>1. \E i \in 1 .. n : middlewares_[i] = "cors"
    BY DEF Contains, n, IInv, Typed
  <2>2. Len(trace) <= n
    BY <2>1 DEF IInv, Early
  <2> QED  BY <2>2, RequestsOnly DEF Contains, IInv, Typed
<1> QED  BY <1>1, AlwaysIInv, PTL

(* http_response.cpp:31-55, http_server.cpp:173-188: the peer finds the    *)
(* end of every answer, whatever was announced before something threw: the *)
(* exceptions are the lengths, the bodies with a Nul, the missing bodies   *)
(* and the thrown responses of the application's own code.                 *)
THEOREM AnswersAreDelimited == Spec => []Delimited
<1>1. IInv => Delimited
  <2> SUFFICES ASSUME IInv, pc = "done", ~ Framed(response), "length" \notin own, "thrown" \notin own
               PROVE  \/ "body" \in own /\ NulsIn(response) # {}
                      \/ "handler" \in own /\ ~ HasLength(response)
    BY DEF Delimited
  <2>1. Sound(response, own, "done")
    BY DEF IInv, Answer
  <2>2. response.body \in Seq(Chars)
    BY <2>1, BodiesAreTexts DEF Sound
  <2>3. CASE HasLength(response)
    <3>1. NulsIn(response) # {}
      BY <2>1, <2>2, <2>3, SentWhole DEF Sound, Framed, Length
    <3> QED  BY <2>1, <3>1 DEF Sound
  <2>4. CASE ~ HasLength(response)
    <3>1. ~ response.close
      BY <2>4 DEF Framed
    <3> QED  BY <2>1, <2>4, <3>1 DEF Sound
  <2> QED  BY <2>3, <2>4
<1> QED  BY <1>1, AlwaysIInv, PTL

(* cors_middleware.cpp:25-38,47-59: what a preflight has promised is kept  *)
(* by the answer to the real request that comes out of the CORS middleware *)
(* (its exceptions: "*" for a script that sent credentials, and a list     *)
(* whose first origin is another one), for every configuration.            *)
THEOREM PromiseKept == Spec => []PreflightPromiseKept
<1>1. ASSUME IInv, NEW c \in BOOLEAN, pc = "done", ServersCors,
             Contains(trace, <<"response", "cors">>), <<sent.origin, c>> \in granted,
             ~ (c /\ "*" \in ToSet(allowed_origins)),
             "*" \in ToSet(allowed_origins) \/ allowed_origins[1] = sent.origin
      PROVE  Readable(response, sent.origin, c)
  <2>1. Allowed(<<sent.origin, c>>) /\ sent.origin \in Origins
    BY <1>1 DEF IInv, Given, Typed
  <2>2. IsOriginAllowed(sent.origin) /\ (c => allow_credentials)
    BY <2>1 DEF Allowed
  <2>3. allowed_origins # <<>>
    BY <2>2 DEF IsOriginAllowed, ToSet
  <2>4. AnsweredByCors
    BY <1>1 DEF Contains, AnsweredByCors, IInv, Typed
  <2>5. Complete(response) /\ Configured(response)
    BY <1>1, <2>3, <2>4 DEF IInv, Given
  <2>6. /\ Allow \in DOMAIN response.headers
        /\ response.headers[Allow] = IF "*" \in ToSet(allowed_origins) THEN "*" ELSE sent.origin
    BY <1>1, <2>5 DEF Complete, Named
  <2>7. c => Secret \in DOMAIN response.headers /\ response.headers[Secret] = "true"
    BY <2>2, <2>5 DEF Complete, Configured
  <2>8. sent.origin # NoOrigin
    BY <2>1 DEF Allowed
  <2> QED  BY <1>1, <2>6, <2>7, <2>8 DEF Readable
<1>2. IInv => PreflightPromiseKept
  BY <1>1 DEF PreflightPromiseKept
<1> QED  BY <1>2, AlwaysIInv, PTL

(* cors_middleware.cpp:25-59, http_server.cpp:167-190: whichever way a     *)
(* request takes, the answer lets no origin read it that the configuration *)
(* does not allow, with or without credentials.                            *)
THEOREM NobodyElseReads == Spec => []OnlyAllowedRead
<1>1. ASSUME IInv, ServersCors, NEW origin \in Origins, NEW c \in BOOLEAN,
             Readable(response, origin, c)
      PROVE  IsOriginAllowed(origin) /\ (c => allow_credentials)
  <2>1. Configured(response)
    BY <1>1 DEF IInv, Given
  <2>2. /\ Allow \in DOMAIN response.headers /\ response.headers[Allow] \in {origin, "*"}
        /\ c => Secret \in DOMAIN response.headers
    BY <1>1 DEF Readable
  <2> QED  BY <2>1, <2>2 DEF Configured, IsOriginAllowed
<1>2. IInv => OnlyAllowedRead
  BY <1>1 DEF OnlyAllowedRead
<1> QED  BY <1>2, AlwaysIInv, PTL

-----------------------------------------------------------------------------
(* The end of HandleRequest.                                               *)

LEMMA StepShrinks ==
  ASSUME IInv, IInv', Next, BeingServed
  PROVE  CallsToMake' < CallsToMake
<1>1. /\ Len(left) \in Nat /\ n \in Nat /\ MaxCalls \in Nat /\ calls \in 0 .. MaxCalls
      /\ left = <<>> => Len(left) = 0
      /\ left # <<>> => Len(Tail(left)) = Len(left) - 1
  BY Counts, PipelineAssumption DEF IInv, Typed
<1>2. CallsToMake =
        CASE pc = "request"  -> Len(left) + MaxCalls + n + 4
          [] pc = "handler"  -> MaxCalls - calls + n + 3
          [] pc = "response" -> MaxCalls - calls + Len(left) + 1
          [] OTHER           -> 0
  BY DEF CallsToMake, n
<1>3. HandleRequest
  BY DEF Next, BeingServed, AddMiddleware, OnRequest
<1>4. n' = n
  BY <1>3 DEF HandleRequest, CorsRequest, AppRequest, RouteFound, RouteNotFound, AppSets,
     HandlerReturns, HandlerThrows, CorsResponse, AppHandleResponse, Return, Calls, config, n
<1>5. CallsToMake' =
        CASE pc' = "request"  -> Len(left') + MaxCalls + n + 4
          [] pc' = "handler"  -> MaxCalls - calls' + n + 3
          [] pc' = "response" -> MaxCalls - calls' + Len(left') + 1
          [] OTHER            -> 0
  BY <1>4 DEF CallsToMake, n
<1>6. ASSUME pc' \in {"done", "terminated"} PROVE CallsToMake' < CallsToMake
  <2>1. CallsToMake' = 0
    BY <1>5, <1>6
  <2> QED  BY <1>1, <1>2, <2>1 DEF BeingServed
<1>7. ASSUME pc \in {"request", "response"}, left # <<>>, pc' = pc, left' = Tail(left), calls' = calls
      PROVE  CallsToMake' < CallsToMake
  BY <1>1, <1>2, <1>5, <1>7
<1>8. ASSUME pc \in {"request", "handler"}, pc' = "response", left' = LastToFirst,
             calls' = calls
      PROVE  CallsToMake' < CallsToMake
  <2>1. Len(left') = n
    BY <1>8, ReverseFacts DEF IInv
  <2> QED  BY <1>1, <1>2, <1>5, <1>8, <2>1
<1>9. ASSUME Throws PROVE CallsToMake' < CallsToMake
  BY <1>6, <1>9, ThrowFacts
<1>10. CASE CorsRequest
  <2>1. /\ pc = "request" /\ left # <<>>
        /\ pc' = "done" \/ (pc' = "request" /\ left' = Tail(left) /\ calls' = calls)
    BY <1>10 DEF CorsRequest, CatchResponse, GoOn, Goto, local
  <2> QED  BY <1>6, <1>7, <2>1
<1>11. CASE AppRequest
  <2>1. pc = "request" /\ left # <<>> /\ (Throws \/ (pc' = "request" /\ left' = Tail(left) /\ calls' = calls))
    BY <1>11 DEF AppRequest, GoOn, Goto, local
  <2> QED  BY <1>7, <1>9, <2>1
<1>12. CASE RouteFound
  <2>1. pc = "request" /\ pc' = "handler" /\ calls' = calls
    BY <1>12 DEF RouteFound, Goto
  <2> QED  BY <1>1, <1>2, <1>5, <2>1
<1>13. CASE RouteNotFound
  BY <1>8, <1>13 DEF RouteNotFound, Goto, local
<1>14. CASE AppSets
  <2>1. pc \in {"handler", "response"} /\ pc' = pc /\ left' = left /\ calls' = calls + 1
    BY <1>14 DEF AppSets, InAppCode
  <2> QED  BY <1>1, <1>2, <1>5, <2>1
<1>15. CASE HandlerReturns
  BY <1>8, <1>15 DEF HandlerReturns, GoOn, Goto, local
<1>16. CASE HandlerThrows
  BY <1>9, <1>16 DEF HandlerThrows
<1>17. CASE CorsResponse
  BY <1>7, <1>17 DEF CorsResponse, Goto, local
<1>18. CASE AppHandleResponse
  <2>1. /\ pc = "response" /\ left # <<>>
        /\ pc' \in {"done", "terminated"} \/ (pc' = "response" /\ left' = Tail(left) /\ calls' = calls)
    BY <1>18 DEF AppHandleResponse, GoOn, Goto, ThrowsResponse, CatchResponse, Terminate, local
  <2> QED  BY <1>6, <1>7, <2>1
<1>19. CASE Return
  BY <1>6, <1>19 DEF Return, GoOn, Goto
<1> QED
  BY <1>3, <1>10, <1>11, <1>12, <1>13, <1>14, <1>15, <1>16, <1>17, <1>18, <1>19 DEF HandleRequest

(* http_server.cpp:167-190, middleware_chain.cpp:13-28: every step of      *)
(* HandleRequest comes closer to its end, for every chain, whatever is     *)
(* thrown: none sends the request back to an earlier call.                 *)
THEOREM ServingMovesOn == Spec => NeverSentBack
<1>1. IInv /\ IInv' /\ [Next]_vars => [BeingServed => CallsToMake' < CallsToMake]_vars
  BY StepShrinks
<1> QED  BY <1>1, AlwaysIInv, PTL DEF Spec, NeverSentBack

=============================================================================
