-------------------------- MODULE RequestPipeline ---------------------------
(***************************************************************************)
(* HttpServer::HandleRequest, the default http_callback_: one request goes *)
(* through the request phase of the middleware chain, the router, and the  *)
(* response phase in reverse order.  Exceptions leave it early: an         *)
(* HttpResponse thrown (the CORS preflight) replaces the response, a       *)
(* std::exception becomes a 500, anything else ends the process; in the    *)
(* response phase the chain itself catches a std::exception and skips its  *)
(* remaining middlewares.                                                  *)
(*                                                                         *)
(* The middlewares are CorsMiddleware and middlewares of the application.  *)
(* What Router::Route finds is a choice here (module Router has the        *)
(* lookup).  The application's code may do what the interfaces let it: a   *)
(* middleware changes the copy of the request it is handed, handlers and   *)
(* middlewares call setters of the response in any order, and all of them  *)
(* return or throw at any time, an HttpResponse of their own included.     *)
(***************************************************************************)
EXTENDS HttpResponse, SequencesExt

CONSTANTS
  AppMiddlewares,   \* the application's own middlewares
  Origins,          \* values of the Origin header
  Configs,          \* possible values of CorsConfig::allowed_origins
  AppBodies,        \* bodies that the application's code sets
  AppResponses,     \* HttpResponses that the application's code throws
  MaxCalls,         \* bound on the setters called for one request
  MaxMiddlewares    \* bound on the length of the chain

DefaultConfig == <<"*">>      \* CorsConfig::DefaultConfig().allowed_origins

ASSUME PipelineAssumption ==
  /\ "cors" \notin AppMiddlewares /\ DefaultConfig \in Configs
  /\ MaxMiddlewares \in Nat /\ MaxCalls \in Nat
  /\ Nul \notin {"n", "f", "w"}
  /\ \A b \in AppBodies : b \in Seq({"h", Nul})
  /\ \A c \in Configs : c \in Seq(Origins \cup {"*"})

VARIABLES
  middlewares_,       \* MiddlewareChain::middlewares_
  allowed_origins,    \* of the CorsConfig
  allow_credentials,
  pc,                 \* where the server is
  left,               \* middlewares the current phase still has to call
  sent,               \* what the pipeline reads of the request it was given
  request,            \* mutable_request, the copy that middlewares may change
  response,           \* the HttpResponse
  calls,              \* the setters the application has called for it
  trace,              \* history: the calls made for this request
  own,                \* history: what of the response is the application's
  changed,            \* history: a middleware has changed the method
  thrown,             \* history: the last exception thrown for this request
  granted             \* history: <<origin, with credentials>> that a preflight
                      \* has allowed

(* Members of own: "handler", a handler answered; "body" and "length", the *)
(* body, the length header without a body; "cors", a header of CORS;       *)
(* "thrown", all of it.                                                    *)

config == <<middlewares_, allowed_origins, allow_credentials>>
local  == <<calls, own>>
vars   == <<config, pc, left, sent, request, response, trace, local, changed, thrown, granted>>

Middlewares == AppMiddlewares \cup {"cors"}

Methods == {"GET", "OPTIONS"}

NoOrigin == ""      \* what GetHeader returns for a missing header

Length == "Content-Length"
Allow  == "Access-Control-Allow-Origin"
Secret == "Access-Control-Allow-Credentials"

(* Texts without a Nul: of the 404 and of an exception's what(), a C       *)
(* string.                                                                 *)
NotFoundText == <<"n", "f">>
What         == <<"w">>

Bodies == AppBodies \cup {<<>>, NotFoundText, What}

IsResponse(r) ==
  /\ DOMAIN r = {"status", "headers", "body", "close"}
  /\ r.status \in Statuses /\ r.body \in Bodies /\ r.close \in BOOLEAN
  /\ Length \in DOMAIN r.headers => r.headers[Length] \in Nat
  /\ Allow \in DOMAIN r.headers => r.headers[Allow] \in Origins \cup {NoOrigin, "*"}
  /\ Secret \in DOMAIN r.headers => r.headers[Secret] \in {"true", "false"}

ASSUME ThrownAssumption == \A r \in AppResponses : IsResponse(r)

-----------------------------------------------------------------------------
(* CorsMiddleware.                                                         *)

AddCorsHeaders(r, origin) ==
  LET named == AddHeader(r, Allow, origin)
  IN  IF allow_credentials THEN AddHeader(named, Secret, "true") ELSE named

IsOriginAllowed(origin) == ToSet(allowed_origins) \cap {"*", origin} # {}

(* Mutant: the first branch does not return.                               *)
PreflightGoesOn(origin) ==
  SetStatusCode(AddCorsHeaders(NewResponse(TRUE), origin), 204)

HandlePreflightRequest(origin) ==
  IF IsOriginAllowed(origin)
  THEN SetStatusCode(AddCorsHeaders(NewResponse(TRUE), origin), 204)
  ELSE SetStatusCode(NewResponse(TRUE), 403)

(* Mutant: the else branch is missing.                                     *)
CorsHandleAnyOnly(r) ==
  IF "*" \in ToSet(allowed_origins) THEN AddCorsHeaders(r, "*") ELSE r

CorsHandleResponse(r) ==
  CASE allowed_origins = <<>>         -> r
    [] "*" \in ToSet(allowed_origins) -> AddCorsHeaders(r, "*")
    [] OTHER                          -> AddCorsHeaders(r, allowed_origins[1])

-----------------------------------------------------------------------------

NoRequest == [method |-> "none", origin |-> NoOrigin]

Init ==
  /\ middlewares_ = <<>> /\ allowed_origins \in Configs /\ allow_credentials \in BOOLEAN
  /\ pc = "setup" /\ left = <<>>
  /\ sent = NoRequest /\ request = NoRequest /\ response = NewResponse(TRUE)
  /\ trace = <<>> /\ calls = 0 /\ own = {} /\ changed = FALSE
  /\ thrown = "none" /\ granted = {}

AddMiddleware(m) ==
  /\ pc = "setup" /\ Len(middlewares_) < MaxMiddlewares
  /\ middlewares_' = Append(middlewares_, m)
  /\ UNCHANGED <<allowed_origins, allow_credentials, pc, left, sent, request, response>>
  /\ UNCHANGED <<trace, local, changed, thrown, granted>>

(* OnRequest calls http_callback_ with a response of its close flag.       *)
OnRequest(method, origin, close) ==
  /\ pc \in {"setup", "done"}
  /\ pc' = "request" /\ left' = middlewares_
  /\ sent' = [method |-> method, origin |-> origin] /\ request' = sent'
  /\ response' = NewResponse(close)
  /\ trace' = <<>> /\ calls' = 0 /\ own' = {} /\ changed' = FALSE /\ thrown' = "none"
  /\ UNCHANGED <<config, granted>>

-----------------------------------------------------------------------------
(* HandleRequest.                                                          *)

Goto(place, todo) == pc' = place /\ left' = todo

Calls(event) ==
  /\ trace' = Append(trace, event)
  /\ UNCHANGED <<config, sent>>

(* catch (HttpResponse const& resp)                                        *)
CatchResponse(resp, whose) ==
  /\ response' = resp /\ thrown' = "response"
  /\ own' = whose /\ UNCHANGED calls
  /\ Goto("done", <<>>)

(* catch (std::exception const& e): what the handler set stays, the status *)
(* and the body excepted.                                                  *)
CatchException ==
  /\ response' = SetResponseBody(SetStatusCode(response, 500), What)
  /\ thrown' = "std"
  /\ own' = own \cap {"cors"} /\ UNCHANGED calls
  /\ Goto("done", <<>>)

(* No clause of HandleRequest or OnMessage catches it.                     *)
Terminate ==
  /\ pc' = "terminated" /\ thrown' = "other"
  /\ UNCHANGED <<left, response, local>>

(* The application's code throws an HttpResponse, or anything else.        *)
ThrowsResponse == \E r \in AppResponses : CatchResponse(r, {"thrown"})

Throws == CatchException \/ ThrowsResponse \/ Terminate

(* Mutant: the iterator over the middlewares does not move.                *)
StayAt(place, todo) ==
  pc' = place /\ UNCHANGED <<left, response, local, thrown>>

(* The loops over the middlewares go on, and end with the try block.       *)
GoOn(place, todo) ==
  Goto(place, todo) /\ UNCHANGED <<response, local, thrown>>

(* Mutant: no request is taken for a preflight.                            *)
NeverPreflight == FALSE

IsPreflight == request.method = "OPTIONS"

(* A browser lets a script of this origin read r.  A request without an    *)
(* Origin header comes from no script.                                     *)
Readable(r, origin, credentials) ==
  /\ origin # NoOrigin /\ Allow \in DOMAIN r.headers
  /\ IF credentials
     THEN /\ r.headers[Allow] = origin
          /\ Secret \in DOMAIN r.headers /\ r.headers[Secret] = "true"
     ELSE r.headers[Allow] \in {origin, "*"}

CorsRequest ==
  /\ pc = "request" /\ left # <<>> /\ Head(left) = "cors"
  /\ Calls(<<"request", "cors">>)
  /\ \/ /\ IsPreflight
        /\ CatchResponse(HandlePreflightRequest(request.origin), {})
        /\ granted' = granted \cup {<<sent.origin, c>> :
                         c \in {c \in BOOLEAN : Readable(response', sent.origin, c)}}
     \/ /\ ~ IsPreflight
        /\ GoOn("request", Tail(left)) /\ UNCHANGED granted
  /\ UNCHANGED <<request, changed>>

(* The middleware sets the method, or swaps in another request.            *)
ChangeRequest ==
  \E method \in Methods, origin \in Origins \cup {NoOrigin} :
    /\ request' = [method |-> method, origin |-> origin]
    /\ changed' = (changed \/ method # request.method)

AppRequest ==
  /\ pc = "request" /\ left # <<>> /\ Head(left) # "cors"
  /\ Calls(<<"request", Head(left)>>)
  /\ \/ GoOn("request", Tail(left)) /\ ChangeRequest
     \/ Throws /\ UNCHANGED <<request, changed>>
  /\ UNCHANGED granted

(* Router::Route takes the request, which nothing behind it reads, finds a *)
(* handler and calls it.                                                   *)
RouteFound ==
  /\ pc = "request" /\ left = <<>>
  /\ Calls(<<"route">>)
  /\ Goto("handler", <<>>)
  /\ request' = NoRequest /\ own' = {"handler"}
  /\ UNCHANGED <<response, calls, changed, thrown, granted>>

(* Mutant: begin() for rbegin().                                           *)
FirstToLast == middlewares_

LastToFirst == Reverse(middlewares_)

RouteNotFound ==
  /\ pc = "request" /\ left = <<>>
  /\ Calls(<<"route">>)
  /\ response' = SetCloseConnection(
       SetResponseBody(SetStatusCode(response, 404), NotFoundText), TRUE)
  /\ Goto("response", LastToFirst)
  /\ request' = NoRequest
  /\ UNCHANGED <<local, changed, thrown, granted>>

(* A handler, or a middleware of the application in the response phase,    *)
(* has the response in hand.                                               *)
InAppCode ==
  \/ pc = "handler"
  \/ pc = "response" /\ left # <<>> /\ Head(left) # "cors"

AppHeaders ==
  {<<Length, 2>>} \cup ({Allow} \X (Origins \cup {"*"})) \cup ({Secret} \X {"true", "false"})

Tag(key) == IF key = Length THEN "length" ELSE "cors"

AppSets ==
  /\ InAppCode /\ calls < MaxCalls
  /\ calls' = calls + 1
  /\ \/ /\ response' = SetStatusCode(response, 200)
        /\ UNCHANGED own
     \/ /\ \E close \in BOOLEAN : response' = SetCloseConnection(response, close)
        /\ UNCHANGED own
     \/ /\ \E b \in AppBodies : response' = SetResponseBody(response, b)
        /\ own' = (own \ {"length"}) \cup {"body"}
     \/ /\ response' = SetContentLength(response, 2)
        /\ own' = own \cup {"length"}
     \/ \E h \in AppHeaders :
          /\ response' = AddHeader(response, h[1], h[2])
          /\ own' = IF h[1] \in DOMAIN response.headers THEN own ELSE own \cup {Tag(h[1])}
  /\ UNCHANGED <<config, pc, left, sent, request, trace, changed, thrown, granted>>

HandlerReturns ==
  /\ pc = "handler"
  /\ GoOn("response", LastToFirst)
  /\ UNCHANGED <<config, sent, request, trace, changed, granted>>

HandlerThrows ==
  /\ pc = "handler"
  /\ Throws
  /\ UNCHANGED <<config, sent, request, trace, changed, granted>>

CorsResponse ==
  /\ pc = "response" /\ left # <<>> /\ Head(left) = "cors"
  /\ Calls(<<"response", "cors">>)
  /\ response' = CorsHandleResponse(response)
  /\ Goto("response", Tail(left))
  /\ UNCHANGED <<request, local, changed, thrown, granted>>

(* The middleware returns or throws, with what AppSets made of the         *)
(* response; ProcessResponse catches a std::exception and leaves its loop. *)
AppHandleResponse ==
  /\ pc = "response" /\ left # <<>> /\ Head(left) # "cors"
  /\ Calls(<<"response", Head(left)>>)
  /\ \/ GoOn("response", Tail(left))
     \/ Goto("done", <<>>) /\ thrown' = "std" /\ UNCHANGED <<response, local>>
     \/ ThrowsResponse
     \/ Terminate
  /\ UNCHANGED <<request, changed, granted>>

Return ==
  /\ pc = "response" /\ left = <<>>
  /\ GoOn("done", <<>>)
  /\ UNCHANGED <<config, sent, request, trace, changed, granted>>

HandleRequest ==
  \/ CorsRequest \/ AppRequest
  \/ RouteFound \/ RouteNotFound
  \/ AppSets \/ HandlerReturns \/ HandlerThrows
  \/ CorsResponse \/ AppHandleResponse
  \/ Return

Next ==
  \/ \E m \in Middlewares : AddMiddleware(m)
  \/ \E method \in Methods, origin \in Origins \cup {NoOrigin}, close \in BOOLEAN :
       OnRequest(method, origin, close)
  \/ HandleRequest

Spec == Init /\ [][Next]_vars

-----------------------------------------------------------------------------
(* Properties.                                                             *)

(* What the variables hold: the length is a number, the headers of CORS    *)
(* have values a browser can read.                                         *)
TypeOK ==
  /\ middlewares_ \in Seq(Middlewares) /\ Len(middlewares_) <= MaxMiddlewares
  /\ allowed_origins \in Configs /\ allow_credentials \in BOOLEAN
  /\ pc \in {"setup", "request", "handler", "response", "done", "terminated"}
  /\ left \in Seq(Middlewares)
  /\ {sent, request} \subseteq [method : Methods \cup {"none"}, origin : Origins \cup {NoOrigin}]
  /\ IsResponse(response)
  /\ calls \in 0 .. MaxCalls /\ changed \in BOOLEAN
  /\ own \subseteq {"handler", "body", "length", "cors", "thrown"}
  /\ thrown \in {"none", "std", "response", "other"}
  /\ granted \subseteq Origins \X BOOLEAN

Phase(name, ms) == [i \in 1 .. Len(ms) |-> <<name, ms[i]>>]

Onion ==
  Phase("request", middlewares_) \o << <<"route">> >>
    \o Phase("response", Reverse(middlewares_))

(* middleware_chain.cpp:13-28, http_server.cpp:171-179: the calls made for *)
(* a request are a beginning of: every middleware in order, the router,    *)
(* every middleware in reverse; all of them unless something threw.        *)
OnionOrder ==
  /\ IsPrefix(trace, Onion)
  /\ pc = "done" /\ thrown = "none" => trace = Onion

(* cors_middleware.cpp:17-22, http_server.cpp:169-171: with a              *)
(* CorsMiddleware anywhere in the chain an OPTIONS request never reaches   *)
(* the router, unless a middleware in front of it made it another request. *)
PreflightNotRouted ==
  sent.method = "OPTIONS" /\ Contains(middlewares_, "cors") /\ ~ changed =>
    ~ Contains(trace, <<"route">>)

(* http_response.cpp:31-55, http_server.cpp:173-188: the peer finds the    *)
(* end of every answer that the server makes, the 404, the 500 and the one *)
(* to a preflight, whatever the handler had announced before it threw and  *)
(* whatever the middlewares did before.  What the application's code has   *)
(* to do for it: throw only responses that have an end, announce no length *)
(* but by setting a body, set one in the handler unless the connection is  *)
(* to close, and no Nul in it, behind which nothing is sent.               *)
Delimited ==
  pc = "done" /\ ~ Framed(response) =>
    \/ own \cap {"length", "thrown"} # {}
    \/ "body" \in own /\ NulsIn(response) # {}
    \/ "handler" \in own /\ ~ HasLength(response)

(* The answer is the server's as far as CORS goes.                         *)
ServersCors == own \cap {"cors", "thrown"} = {}

(* cors_middleware.cpp:25-38,47-59: what a preflight has allowed an origin *)
(* is kept when the answer to the real request comes out of the CORS       *)
(* middleware and the application did not put headers of CORS there first: *)
(* the origin can read it.  Two configurations break the promise: with "*" *)
(* among the origins the answer says "*", which no script may read that    *)
(* sent credentials, though the preflight named its origin; with several   *)
(* and no "*" the first one is named to all (line 34).                     *)
PreflightPromiseKept ==
  \A credentials \in BOOLEAN :
    /\ pc = "done" /\ Contains(trace, <<"response", "cors">>) /\ ServersCors
    /\ <<sent.origin, credentials>> \in granted
    => \/ Readable(response, sent.origin, credentials)
       \/ credentials /\ "*" \in ToSet(allowed_origins)
       \/ "*" \notin ToSet(allowed_origins) /\ allowed_origins[1] # sent.origin

(* cors_middleware.cpp:25-59, http_server.cpp:167-190: no way through the  *)
(* pipeline, the answer to a preflight and the one left by an exception    *)
(* included, lets a script of an origin read that is not allowed, or one   *)
(* that sent credentials when the configuration does not allow them.       *)
OnlyAllowedRead ==
  pc = "done" /\ ServersCors =>
    \A origin \in Origins, credentials \in BOOLEAN :
      Readable(response, origin, credentials) =>
        IsOriginAllowed(origin) /\ (credentials => allow_credentials)

(* http_server.cpp:167-190, middleware_chain.cpp:13-28: a request that is  *)
(* being served is never sent back: whatever a middleware or a handler     *)
(* does, and however the exceptions fall, every step leaves fewer calls to *)
(* make, of a number fixed by the chain (and the bound on setter calls).   *)
CallsToMake ==
  CASE pc = "request"  -> Len(left) + MaxCalls + Len(middlewares_) + 4
    [] pc = "handler"  -> MaxCalls - calls + Len(middlewares_) + 3
    [] pc = "response" -> MaxCalls - calls + Len(left) + 1
    [] OTHER           -> 0

BeingServed == pc \in {"request", "handler", "response"}

NeverSentBack == [][BeingServed => CallsToMake' < CallsToMake]_vars

=============================================================================
