# CuteHttpServer in TLA+

CuteHttpServer is an HTTP/1.x server library in C++ on top of the event loop
library cutemuduo. This directory holds TLA+ models of it, the TLC
configurations that check them, and machine-checked proofs of their main
properties for every value of the constants. Paths below are relative to
`src/CuteHttpServer/src/` and `src/CuteHttpServer/include/cutehttpserver/`.

## 1. The system

| Part | State | Operations | Talks to |
| --- | --- | --- | --- |
| HttpContext (`http/http_context.cpp`) | `state_`, `request_` | ParseRequest, GotAll, GetRequest, Reset | reads the connection's Buffer, called by OnMessage |
| HttpRequest (`http/http_request.cpp`) | method, path, headers, body, `body_length_` | setters, AddHeader, Swap | filled by HttpContext, read by everything behind it |
| HttpServer (`http/http_server.cpp`) | one HttpContext per connection, `http_callback_` | OnConnection, OnMessage, OnRequest, HandleRequest | callbacks of cutemuduo; TcpConnection Send and Shutdown |
| HttpResponse (`http/http_response.cpp`) | status, version, headers, body, close flag | setters, AddHeader, AppendToBuffer | filled by HandleRequest, handlers, middlewares |
| Router (`router/router.cpp`) | two hash tables, two vectors of patterns | four Register operations, Route | called by HandleRequest, calls handlers |
| MiddlewareChain, CorsMiddleware (`middleware/`) | list of middlewares, CorsConfig | ProcessRequest, ProcessResponse | called by HandleRequest, may throw an HttpResponse |
| SessionManager, Session, MemorySessionStorage (`session/`) | map from id to session; expiry and manager of a session | GetSession, AddSession, UpdateSession, DestroySession, Refresh, SetValue | called by handlers; writes Set-Cookie |
| SslConfig, SslContext, SslConnection (`ssl/`) | configuration, SSL_CTX, connection map in HttpServer | SetSslConfig, Init; SslConnection is declared only | OnConnection and OnMessage under `use_ssl_` |
| cutemuduo | buffers, sockets, threads | (submodule, not in the tree) | external |

A read event of cutemuduo calls OnMessage with the connection's Buffer.
OnMessage lets the connection's HttpContext parse one request; when one is
complete it is given to OnRequest, which calls `http_callback_` (by default
HandleRequest: middlewares, router, middlewares in reverse), sends the response
and shuts the connection down if the response says so. Handlers reach the
sessions through the SessionManager.

What is hard about it:

- a message is spread over reads at arbitrary places, and parser state, cursor
  and request must agree over the calls (HttpContext);
- one boolean result means "malformed" and "incomplete" (OnMessage);
- objects are reused over requests (`Reset`, `Swap`);
- exceptions carry control: `std::stoul` out of the parser, a thrown
  HttpResponse for a preflight, a callback's exception past `Reset`;
- the sending side is closed while the peer still sends;
- sessions expire, are destroyed, are held by handlers over requests, and are
  written back by SetValue;
- static and dynamic routes overlap;
- with SetThreadNum > 0 maps are shared by threads without a lock.

Parts of the repository do not build as they stand: `HttpResponse::GetHeaders`
(cors_middleware.cpp:90), `RouterHandler::Handle` and all members of
SslConnection are used or declared but not defined. The models take the code
around them as it is written (the first is an argument of a log line).

What makes each part correct, as the modules state it:

- HttpContext: every byte in one request at most, bodies as announced, "false"
  only for an incomplete or malformed message, the loop ends.
- HttpServer: answers in order and one for one, nothing behind a closing
  answer, no second answer to a request whose callback threw, every request of
  a patient peer answered.
- HandleRequest, middlewares: onion order, preflights not routed, the peer finds
  the end of every answer the server makes, an allowed origin can read its
  answer and another one cannot.
- Router: of the registrations that match, the one of the first table in Route's
  order wins, and within a table the earliest; parameters are those of the path.
- Sessions: live as long as they should, stay under their id, belong to the
  client that has the cookie; of the storage only a holder, a DestroySession and
  a Load of an expired entry change what it has.
- SSL: `use_ssl_` and the connection map agree however the server is
  reconfigured, but for connections under which `use_ssl_` was changed; a
  process that lives has a certificate with its key.

## 2. Modules

| Module | Models | Extends / instantiates |
| --- | --- | --- |
| `HttpText` | units of a stream, the two line parsers, HttpRequest | |
| `HttpFraming` | abstract specification: the messages a stream means | HttpText |
| `HttpContext` | ParseRequest, Reset, GetRequest | HttpText; `Framing == INSTANCE HttpFraming` |
| `HttpServing` | abstract specification: the answers a connection may give | `Framing == INSTANCE HttpFraming` |
| `HttpServer` | one connection: OnConnection, OnMessage, OnRequest | `Ctx == INSTANCE HttpContext`; `Serving == INSTANCE HttpServing` |
| `HttpResponse` | the setters of HttpResponse, AppendToBuffer, a peer's framing | |
| `RequestPipeline` | HandleRequest, MiddlewareChain, CorsMiddleware | HttpResponse |
| `Router` | registration and lookup | |
| `SessionStore` | abstract specification: which sessions live, and until when | |
| `SessionManager` | SessionManager, Session, MemorySessionStorage | `Store == INSTANCE SessionStore` |
| `Ssl` | SslConfig, EnableSsl, SetSslConfig, SslContext::Init, the branches under `use_ssl_` | |
| `HttpContextProofs` | theorems about HttpContext | HttpContext, TLAPS |
| `FramingProofs` | HttpContext implements HttpFraming | HttpContextProofs |
| `HttpServerProofs` | theorems about HttpServer | HttpServer; `Parser == INSTANCE FramingProofs` |
| `ServingProofs` | HttpServer implements HttpServing | HttpServerProofs |
| `PipelineProofs`, `RouterProofs`, `SessionProofs`, `SslProofs` | theorems about RequestPipeline, Router, SessionManager, Ssl | that module, TLAPS |
| `MC...` | constants for TLC | the module of that name |

**HttpText, HttpContext.** A stream is a sequence of units: a line break, or a
text of which only what the line parsers can tell is kept (a request line, a
header line, text that parses as both, such as "GET /a:b HTTP/1.1", data). Each
unit counts one byte of Content-Length, so a body may swallow line breaks and
lines, and data may end up glued in front of a line, as in the code. `stream`,
`rd` are the Buffer; `state_`, `request_` the context; `ret` tells whether a
call of ParseRequest runs and how the last one ended. One iteration of the
`while (true)` is one action, named for what it does: NeedLine, RejectLine,
RequestLine, HeaderLine, EndWithoutBody, EndWithBody, EndThrows, Body, NeedBody,
AlreadyFinished. As in the code, a rejected line and the empty line before a
failing `stoul` have already been retrieved when the call ends, and Reset leaves
body and length (`Swapped`). FindCRLF is taken to return the first CRLF in the
readable bytes or null. A Content-Length that `stoul` reads as nearly 2^64
("-1") is a length no stream of the model reaches. `start`, `messages`, `bad`
are history variables.

**HttpFraming** knows nothing of calls or parser states: it says from the whole
stream where a message ends, what its headers are, and whether it is malformed.
HttpContext implements it under the mapping that keeps the messages handed out
before the first malformed one and hides the stale body (that is
`NoStaleBody`'s subject).

**HttpServer** adds the TcpConnection (`conn`), the read events (`fresh`, and
their number `reads`, which is history) and the answers sent (`out`). The event
loop runs one callback at a time, so no byte arrives during a call. Send drops
output unless the connection is connected, Shutdown leaves the receiving side
open; both are external. What `http_callback_` does to the close flag, or that
it throws, is `CallbackOutcomes`. With `StopAndWait` the peer sends one whole
request and waits, and a read event sees all of it; without it anything goes.

**HttpServing** has no reads, no parser and no callback: the messages the
received stream means are answered in order, one answer each, none before its
message is complete, and after a closing answer (or when the server gives up)
there is none. HttpServer implements it when `answers` is the answers of `out`
that are about a request, each with the message it was made from, and `open`
means that the server has not shut its side down. The 400 of a parser that
failed is a GiveUp there; a request dispatched a second time is nothing.

**HttpResponse, RequestPipeline.** A response is a record, a setter an operator
from a response to a response. A body is a sequence of characters, one of which
is NUL: AppendToBuffer passes a C string, so that what is sent ends there,
whereas Content-Length counts all of it. `Framed` is how the peer finds the end
of the body. RequestPipeline runs HandleRequest step by step, one step for each
call of a middleware, of the router, and of each setter that the application's
code calls. That code is what the interfaces allow: a middleware changes the
copy of the request it is handed (`ChangeRequest`; `sent` is what the copy was
made of); a handler, and behind it a middleware in its HandleResponse, sets
status, body, a length of its own, the close flag and headers of CORS in any
order, up to `MaxCalls` setters for a request (`AppSets`); each may return or
throw after any of them, a std::exception, anything else, or an HttpResponse of
`AppResponses`, which need not be complete. CORS keeps the two headers that
decide who can read an answer, Allow-Origin and Allow-Credentials; `Readable` is
what a browser makes of them. `own` is history: what of the response is the
application's; `granted` the origins that a preflight has told it may come, with
or without credentials; `changed` that a middleware has changed the method.

**Router.** A path is a sequence of segments. A pattern is turned into the set
of paths its regular expression matches with what the groups capture; the text
between the named segments means what it means in a regular expression, given by
the constants `Literal` (what it matches and captures) and `Groups` (how many
groups of its own it has: they are counted with those of the names, so that the
first name of "/(user|a)/:id" is "param2"). Targets are numbers of
registrations; `log` is history.

**SessionManager.** `heap` holds the Session objects in the order of their
construction, `sessions_` the storage, `held` the shared_ptrs application code
holds, `jar` the clients' cookies, `response` the Set-Cookie of the running
request. The constructor's expiration time is arbitrary (`Indeterminate`). The
call through a null pointer in GetSession is a choice: the process dies, or the
condition is taken as false. The ids drawn are distinct.

**SessionStore** has no objects, requests or cookies: only the time, the ids
that are stored with the time they expire, and which ids and times are held and
issued. An expired entry stays stored until a request asks for its id. That can
be noticed, and the specification says how: AddSession is an emplace, so that a
fresh session is not stored while an expired entry of its id is there (`Add`),
and a holder's Refresh brings an expired session back if it is still stored.
SessionManager implements it with `stored` the expiration times of the objects
in `sessions_`.

**Ssl.** The application's SslConfig is a record that its setters (`Set`) change
one field at a time. `ssl_context_` is the number of the context the server
owns, 0 for null; an SslConnection keeps the number of the context it was made
with, so that a pointer to one that was replaced can be told from the current
one. `context` is what the current one was made of: the certificate it shows,
the key that fits it, the versions enabled. A SetSslConfig is one step:
SSL_CTX_new may fail, the files of the configuration may be unreadable or not
fit, the cipher list may match nothing, and any failure ends in std::terminate.
Files are named by the certificate they hold or are the key of. A chain file is
loaded after the key was compared, and its first certificate replaces the one
loaded before. SslConnection is declared but not defined; what OnRead does to
its handshake state and its decrypted buffer is a choice. `parsed` records which
buffers a connection's parser was given; what happens to them is HttpServer's
subject. EnableSsl, the setters and SetSslConfig have no guard in the code and
none in the model: a handler that has the server may call them while connections
are up. `switched` is history: the connections during whose life EnableSsl has
changed `use_ssl_`. Those may keep an entry of `ssl_connections_` for ever or
have their raw bytes parsed, and a SetSslConfig leaves the SslConnections made
before it with a context that is gone; the model reaches these states, and as no
text of the repository says what should happen then, the properties name them as
exceptions or do not speak of them.

## 3. Runs

| Run | Checks | Bounds | Distinct states |
| --- | --- | --- | --- |
| http_context | TypeOK, EachByteOnce, BodyIsSlice, FalseMeansIncomplete, ImplementsFraming, ParseAdvances, ParseReturns | streams of up to 8 units over {break, request line, lengths 1, "-1" and unreadable, data} | 343 000 |
| http_server | TypeOK, AnswersMatchRequests, CloseIsLast, RedispatchUnanswered, OneAnswerPerRead, ImplementsServing | streams of up to 8 units, two versions, two Connection headers, a line that parses as both; every callback outcome | 1 707 000 |
| http_server_live | RejectOnlyMalformed, SettledIsReported, NoForeignBody, Responsive | streams of up to 9 units with bodies, a peer that waits, callbacks that return or throw | 17 000 |
| session | TypeOK, StoredUnderOwnId, LivesItsAge, CookieIsOwn, BackOnlyIfHeld, ImplementsStore | 2 clients (symmetric), 2 sessions, clock 0..3, age 1 | 1 448 000 |
| pipeline | TypeOK, OnionOrder, PreflightNotRouted, Delimited, PreflightPromiseKept, OnlyAllowedRead, NeverSentBack | chains of up to 3 of CORS and a middleware of the application, 2 origins, 4 lists of origins with and without credentials, 2 bodies, 2 thrown responses, 2 setter calls | 2 185 000 |
| router | TypeOK, RoutesToFirst, ParamsFillPattern | 3 registrations over 6 patterns and 2 methods, 7 paths | 113 000 |
| ssl | TypeOK, EntryPerConnection, NoRawBytesWithSsl, RunsWithOwnKey | 2 connections (symmetric), 2 contexts, 36 configurations reached by setters in any order, at any time | 1 376 000 |

Why the bounds are enough. The smallest request is three units, with a length
and a body six. Eight units hold two requests, or one with a body and the
beginning of the next, so every transition between messages occurs, with every
cut between any two units (nine, in http_server_live and stale_body, hold a
request behind one with a body); a bad length, a rejected line and a stream that
goes on behind them occur as well. Body lengths are 0 (no header), 1, one beyond
every stream and an unreadable one; that the length is a general number is what
the proofs cover. The server's behaviour depends on the last answer only, two
requests are enough to see one answer overtake or follow another, or to be
dispatched twice. Two sessions and an age of 1 within a clock of 3 let a session
expire, be erased, be refreshed and be destroyed while another lives. The
middlewares of the application are interchangeable; a chain of three leaves one
before and one behind CORS. Two setter calls are a body and a length in either
order, one by the handler and one behind it, or one before something throws. A
list of origins is empty, names the asking one, another one first, or any; of
the two responses that are thrown one has no end and one a header of CORS. Three
registrations give every pair an intruder between them. Two contexts are one
replacement; a connection's SSL state depends on no other connection's, two show
it.

Bounds are constants: `MaxLen`, `MaxTime`, `MaxSessions`, `MaxMiddlewares`,
`MaxCalls`, `MaxRoutes`, `MaxContexts`, `MaxDecrypted`. Where a bound stops the
system, deadlock is not checked; the http_context run checks it, because there
ParseRequest can always be called again.

**Violations.** Five runs show that the code does not do what a comment of it
says; each checks one property and TLC finds a short behaviour.

| Run | Property | What happens |
| --- | --- | --- |
| stale_body | NoStaleBody | http_context.cpp:50: no Content-Length, no body. A request after a POST on the same connection carries the POST's body (`Swap` omits it). |
| split_request | RejectOnlyMalformed | http_server.cpp:133: the 400 is for parse errors. A request in two reads gets it too. |
| session_reuse | SessionReused | session_manager.cpp:16: a live session is returned. A new one is, always. |
| session_null | NeverCrashes | session_manager.cpp:25: an unknown or expired id gets a new session. A null pointer is used first. |
| ssl_version | SpeaksConfiguredVersion | ssl_context.cpp:88: the protocol version is set. The option set is the one that switches it off. |

RejectOnlyMalformed holds in http_server_live and fails in split_request: the
difference is the peer, whole requests in one read event or not.

**Fairness.** HttpContext: weak fairness of the loop's iterations, since a
running while loop runs on. HttpServer: weak fairness of the callback's steps
and of the read event for bytes that have arrived, which is what
EventLoop::Loop (poll, then call back) gives; nothing is assumed of the peer,
who may fall silent. RequestPipeline, SessionManager, Router and Ssl have no
fairness and no liveness property.

Every property of a passing run has a mutant: a definition whose name says what
it breaks (`RetrieveTooMuch`, `RejectSilently`, `EmplaceLast`, ...), next to the
definition it replaces; with the replacement TLC finds the property violated.

## 4. Proofs

Every theorem holds for all values of the constants that satisfy the named
assumptions of its module; those only say that constants have their type, that
names which stand for different things differ, (HttpText) that each unit has the
fields of its kind, and (RequestPipeline) that the responses the application
throws have the fields of a response. Each invariant below was checked with TLC
before it was proved, and each proof has one lemma per action (`...IInv`), put
together in `NextIInv`.

| Module | Theorem | Property |
| --- | --- | --- |
| HttpContextProofs | TypeCorrect, EachByteParsedOnce, BodyIsAnnouncedSlice, ParseMovesOn | TypeOK, EachByteOnce, BodyIsSlice, ParseAdvances |
| FramingProofs | FalseIsIncomplete, ParserImplementsFraming, MessagesStay | FalseMeansIncomplete, ImplementsFraming; MessagesStay is about HttpFraming itself |
| ServingProofs | WaitingPeerIsParsed, NothingIsLeftBehind, ServerImplementsServing | RejectOnlyMalformed and SettledIsReported (of a peer that waits), ImplementsServing |
| HttpServerProofs | TypeCorrect, AnswersInOrder, NothingBehindClose, NoSecondAnswer, ReadIsAnsweredOnce, OnlyAnnouncedBytes | TypeOK, AnswersMatchRequests, CloseIsLast, RedispatchUnanswered, OneAnswerPerRead, NoForeignBody |
| PipelineProofs | TypeCorrect, CallsAreAnOnion, PreflightStopsEarly, AnswersAreDelimited, PromiseKept, NobodyElseReads, ServingMovesOn | TypeOK, OnionOrder, PreflightNotRouted, Delimited, PreflightPromiseKept, OnlyAllowedRead, NeverSentBack |
| RouterProofs | TypeCorrect, HighestAndFirstWins, ParametersAreSegments | TypeOK, RoutesToFirst, ParamsFillPattern |
| SessionProofs | TypeCorrect, OneObjectPerId, SessionsLiveTheirAge, CookiesAreOwn, OnlyHoldersBringBack, StoreRefinement | TypeOK, StoredUnderOwnId, LivesItsAge, CookieIsOwn, BackOnlyIfHeld, ImplementsStore |
| SslProofs | TypeCorrect, OneEntryPerConnection, OnlyDecryptedBytes, KeyFits | TypeOK, EntryPerConnection, NoRawBytesWithSsl, RunsWithOwnKey |

**HttpContext.** `FirstBreak` shows that FindCRLF is the first break behind the
cursor (least elements by well-foundedness of < on Nat), `LineOfTexts` that a
line therefore holds no break, and the type lemmas that what the parsers
extract from it are fields of a request. EachByteOnce and BodyIsSlice are not
inductive: nothing in them speaks of the request being parsed. The invariant is

    IInv == TypeOK /\ EachByteOnce /\ Ahead /\ BodyIsSlice /\ Copied

`Ahead` places the request in progress: it started behind the last one handed
out, and once its request line is read the cursor is beyond its start. `Copied`
says that in state FINISH a request with a body already holds the slice in front
of the cursor. TypeOK says besides types that the cursor stays inside the buffer
and that in state BODY the length is the request's own, so the uninitialized
member is never read. `ParseAdvances` needs no more than TypeOK: `StepAdvances`
finds in every iteration that goes on the line, or the body, that it retrieved.

**HttpContext implements HttpFraming.** The parser reads a message line by line
and forgets the lines; HttpFraming speaks of the whole stream. What joins them
is `Read(s, p, n, r)`: request r holds what the lines of the message at p say up
to the break n (method and version of the first, for every name the value of
the first header line that has it), all of them are lines the parser accepts and
none is empty. Every fact in it is about units up to n, so that it survives what
arrives later (`ReadKept`); a header line takes it from one break to the next
(`ReadHeaderLine`), which is why no induction over lines is needed. The
invariant is

    FInv == TypeOK /\ Reading /\ Position /\ Starving

`Reading` says, before the first malformed line, what of the message has been
read in each state of the parser; `Position` that this message starts where the
last one taken ended; `Starving` that a returned false left no complete line or
too short a body. The three `Meaning...` lemmas evaluate HttpFraming on what has
been read: an incomplete message is neither complete nor malformed, a refused
line makes it malformed, and a whole head gives the headers, the length and,
with the body, the message itself. `MessagesStay` is a fact about HttpFraming
that its use rests on: a message that is whole stays whole, and stays the same,
when more arrives (`HeadFacts` says where its head ends, `HeadKept` that the end
stays there). In `StepIsFramingStep` Receive, TakeRequest and the rejecting
iterations map to Receive, Take and Reject, all other steps stutter.

**HttpServer.** The parser's steps are those of the proofs about HttpContext
(`SameIteration`, through `Parser == INSTANCE FramingProofs`), so that what an
iteration does to types and cursor is not proved again. The answers match the
requests because answers and read events are counted together while the
connection is up (`OneToOne`); behind the close the answers no longer grow, and
the last may be a 400 that belongs to no request (`Behind`). `Ahead` says that
what has been handed out ends in front of the request in progress; the one
exception is `Unreset`, the state that a callback leaves which threw: its
request is still in the context and will be handed out again, but a closing 400
has been the last answer. NoForeignBody bounds what a request that announced no
body can bring: nothing, or (the case that NoStaleBody's run reports) the body
left from the last announced one, never bytes that nobody announced; it needs
`Sized` (only a request that announces a body gets into state BODY) and
`Carried` (the body in the context is the last one handed out, except in a
finished request that has its own). EachByteOnce is false of a connection whose
callback throws, which is why the two modules have different invariants.

**HttpServer implements HttpServing.** While the connection is open, its context
satisfies `Parser!FInv` and has met a malformed line only if the running
OnMessage is about to close (`Trusted`); a callback that throws leaves a context
that does not, but closes too. A request handed out is then the message of the
stream behind the last answered one (`HandOutAnswers`, from
`MeaningOfFinished`), so OnParsed and OnCallbackThrow are steps Answer. The
parser's 400 and a connection that goes down are GiveUp; what happens behind
that changes no answer (`AnsweredKept`) and stutters. For WaitingPeerIsParsed,
`Asked` keeps that what a waiting peer sent is whole from the read event until
the parser returns, so that a false cannot mean incomplete (FalseIsIncomplete);
without that assumption split_request shows the property false.
SettledIsReported is not inductive: that OnMessage, which parses one request,
leaves nothing behind rests on `Exact` (the last unit that a waiting peer sent
completes its request, so that serving it empties the buffer; `CompletedByLast`,
`NothingBehind`) and on `Silent` (nothing arrives before the connection is up).

**RequestPipeline.** `Placed` says that the calls made are the first of the
onion and the calls left the next ones, by position (`OnionAt`); `Waiting` that
the response is a new one until the router is called; `Early` that a preflight
has not passed the CORS middleware; `Answer` that every response is `Sound`:
what is not the application's (as `own` says) has a length that fits its body
and no NUL (one lemma per setter, for the server's calls and the application's
alike); `Given` that headers of CORS which the application has not written are
those of the configuration (`Configured`), that behind the router the origin
named depends on nothing else (`Named`), and that the CORS middleware leaves
them `Complete`. What a throw leaves behind is one lemma, `ThrowFacts`.
PreflightPromiseKept needs all of `Given`, OnlyAllowedRead `Configured` alone.
For Delimited, `SentWhole` shows that a body without NUL is sent whole.
`CallsToMake` is the variant of NeverSentBack: calls of middlewares, setters and
phases left. It is bounded because the application's setter calls are
(`MaxCalls`, any number); that application code returns is an assumption of the
model, not a result.

**Router.** The properties speak of the registrations in their order, the code
of four tables. The invariant says how the tables hold the registrations: a
static table has the first one for every key, a dynamic one all of its kind in
their order. `RouteWins` derives from it which registration Route finds.
ParamsFillPattern is about the words that a pattern's expression matches, built
segment by segment. The library's induction over Nat takes an operator as a
parameter and cannot be used, so it is done over a set: the prefixes that match
something which does not fill them form a set of numbers, and a set without a
least element is empty (well-foundedness of < on Nat); `Extend` takes what one
prefix matches to the next, and adds the groups of the segment to those before
it.

**SessionManager.** `IdsOwn` (an id that GetSession drew belongs to one object),
`Aged` (the expiration time of an issued session lies between its age from its
birth and its age from now; while young it is in the storage), `Cookies` (a
session id on its way from the response into the jar), `DestroyedKnown` (no id
is destroyed before it is drawn). `StoreRefinement` maps every action to a step
of SessionStore or a stutter: a Load is a step Ask, or part of Issue, that takes
out what has expired, and an AddSession over an entry, expired or not, is an Add
that changes nothing but what is held.

**Ssl.** The invariant is TypeOK, the three properties and `Fresh` (a connection
that has not come up has had nothing parsed). EnableSsl keeps EntryPerConnection
because it puts every connection that is up into `switched`, and with none up
the map has no entry outside of it.

Only model-checked: the liveness properties ParseReturns and Responsive
(fairness and ENABLED are out of the prover's reach). What each of them needs
besides fairness is a theorem: ParseAdvances (the loop cannot spin) and
SettledIsReported (no request without a read event to come).
The violations of section 3 are counterexamples, there is nothing to prove.

## 5. Not modelled

- Several I/O threads. With SetThreadNum the callbacks of different connections
  run on different threads and share the session map, the random generator and
  `ssl_connections_` without a lock. A race on them is undefined behaviour and
  can leave any state; the repository promises nothing of such a server. The
  models have one loop, the default of a server whose SetThreadNum is not called.
- SSL: SslConnection has no implementation to model; answers go out with the
  plain Send also on an SSL connection (http_server.cpp:160). Client
  verification settings are kept in SslConfig and never used.
- The text of responses (the status line of a 404, a 500 or a preflight answer
  has no version, as `http_version_` is only set by handlers; a Connection header
  set by a handler appears next to the one GetResponse writes), query parameters,
  receive times, log output, the keys and values of sessions, how the cookie text
  is searched for "sessionid=".
- Session ids that collide; `random_generator_` is taken to draw distinct ones.
- Pipelining as a promise: OnMessage parses one request for each read event,
  so a second request that came with the first waits for more bytes.
  OneAnswerPerRead says so; Responsive is stated for a peer that waits.
- HEAD: SetMethod does not know it, so that such a request has the method kInvalid
  and no route registered for kHead is reached. HttpText has the effect; there is
  nothing in the repository to compare it with.
- CORS headers on error answers: a handler that throws skips the response phase,
  and no text says that the 500 must be readable.
- Headers of CORS that the application writes itself: they win over those of the
  CORS middleware when they come first (AddHeader is an emplace). The model has
  them; PreflightPromiseKept and OnlyAllowedRead speak of the answers without.
- cutemuduo: a submodule that is not in the tree. Buffer, TcpConnection and the
  event loop are modelled from their use. Its C++ lifetime questions (the server
  passes `&main_loop_` to TcpServer before that member is constructed) cannot be
  judged without it.
- Build files.

## 6. Plan

Done: all modules of section 2, abstract specifications of the parser
(HttpFraming), of a connection (HttpServing) and of the sessions (SessionStore),
and the theorems of section 4: every safety and every action property of the
passing runs.

What is left: SslConnection and several threads, once the repository defines
them.
