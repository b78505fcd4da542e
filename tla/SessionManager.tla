--------------------------- MODULE SessionManager ---------------------------
(***************************************************************************)
(* SessionManager, Session and MemorySessionStorage: the sessions of one   *)
(* server process.  A request handler calls GetSession (which may set the  *)
(* cookie of its response), works on the sessions it holds, adds sessions  *)
(* it constructed itself, and destroys sessions by id.  It may keep the    *)
(* shared_ptr of a session over the end of its request.                    *)
(*                                                                         *)
(* Requests are handled one at a time, on the one loop of a server whose   *)
(* thread count was not raised: no class here takes a lock.                *)
(*                                                                         *)
(* Session objects are numbered in the order of their construction.  The   *)
(* ids that GenerateSessionId draws (32 random hex digits) are taken to be *)
(* distinct: object o, if GetSession made it, has id o.                    *)
(***************************************************************************)
EXTENDS Integers, Sequences

CONSTANTS
  Clients,       \* who sends requests
  NoId,          \* no cookie: the empty session id
  OldId,         \* an id this process never made: a cookie of an earlier one
  AppIds,        \* ids of the sessions the application constructs itself
  MaxAge,        \* max_age_, in ticks of the clock
  MaxTime,       \* bound on the clock
  MaxSessions    \* bound on the sessions constructed

ASSUME SessionAssumption ==
  /\ MaxAge \in Nat /\ MaxTime \in Nat /\ MaxSessions \in Nat
  /\ NoId \notin AppIds \cup 1 .. MaxSessions
  /\ OldId \notin AppIds \cup 1 .. MaxSessions \cup {NoId}
  /\ AppIds \cap 1 .. MaxSessions = {}

VARIABLES
  now,        \* system_clock::now()
  crashed,    \* the process has died
  heap,       \* the Session objects constructed, in order
  sessions_,  \* MemorySessionStorage::sessions_: id |-> object
  request,    \* the request being handled: its client and its cookie
  response,   \* the session id in its response's Set-Cookie header
  held,       \* objects whose shared_ptr application code holds
  jar,        \* the cookie each client presents
  destroyed   \* history: ids passed to DestroySession

vars == <<now, crashed, heap, sessions_, request, response, held, jar, destroyed>>

NoRequest == [client |-> NoId, cookie |-> NoId]

Objects == DOMAIN heap
Ids     == 1 .. MaxSessions \cup AppIds \cup {OldId}

Init ==
  /\ now = 0 /\ crashed = FALSE
  /\ heap = <<>> /\ sessions_ = <<>>
  /\ request = NoRequest /\ response = NoId
  /\ held = {} /\ destroyed = {}
  /\ jar \in [Clients -> {NoId, OldId}]

Handling == ~ crashed /\ request # NoRequest

-----------------------------------------------------------------------------
(* Session.                                                                *)

IsExpired(o) == now > heap[o].expires

Expiry == now + MaxAge        \* what Refresh sets

(* The constructor computes expiration_time_ from max_age_, a member that  *)
(* is initialized after it: any time may come out.                         *)
Indeterminate == {-1, MaxTime + 1}

(* by, born, first: history, the client and time of the request and whether*)
(* no Set-Cookie had been added to its response.                           *)
Session(id, expires) ==
  [id |-> id, expires |-> expires, managed |-> TRUE,
   by |-> request.client, born |-> now, first |-> response = NoId]

-----------------------------------------------------------------------------
(* MemorySessionStorage.                                                   *)

Without(id) == [i \in DOMAIN sessions_ \ {id} |-> sessions_[i]]

With(stored, id, o) == [i \in DOMAIN stored \cup {id} |-> IF i = id THEN o ELSE stored[i]]

(* Mutant: operator[] for emplace.                                         *)
SaveOver(stored, id, o) == With(stored, id, o)

(* emplace: a session that is stored under this id stays.                  *)
Save(stored, id, o) == IF id \in DOMAIN stored THEN stored ELSE With(stored, id, o)

(* Mutant: the session is stored as if it were the last one constructed.   *)
UpdateLast(id, o) == With(sessions_, id, Len(heap))

Update(id, o) == With(sessions_, id, o)

(* Mutant: a session is taken for expired at its expiration time.          *)
LoadsEarly(id) == id \in DOMAIN sessions_ /\ now < heap[sessions_[id]].expires

Loads(id) == id \in DOMAIN sessions_ /\ ~ IsExpired(sessions_[id])

(* The storage after a Load: an expired session is erased.                 *)
AfterLoad(id) == IF Loads(id) THEN sessions_ ELSE Without(id)

-----------------------------------------------------------------------------
(* SessionManager::GetSession.                                             *)

(* Mutant: operator[] for emplace, the last Set-Cookie wins.               *)
SetLastCookie(id) == response' = id

(* HttpResponse::AddHeader is an emplace: the first Set-Cookie stays.      *)
SetSessionCookie(id) == response' = IF response = NoId THEN id ELSE response

(* Mutant: the id of the cookie is taken over by the new session.          *)
SameId == IF request.cookie = NoId THEN Len(heap) + 1 ELSE request.cookie

GenerateSessionId == Len(heap) + 1

(* The second half of GetSession; stored is the storage after the Load.    *)
NewSession(stored) ==
  LET new_session_id == GenerateSessionId
      o              == Len(heap) + 1
  IN
  /\ o <= MaxSessions
  /\ heap' = Append(heap, Session(new_session_id, Expiry))
  /\ SetSessionCookie(new_session_id)
  /\ sessions_' = Save(stored, new_session_id, o)
  /\ held' = held \cup {o}
  /\ UNCHANGED <<now, crashed, request, jar, destroyed>>

GetSessionNoCookie ==
  /\ Handling /\ request.cookie = NoId
  /\ NewSession(sessions_)

(* "!session_ptr && ..." is false for the session that was found.          *)
GetSessionFound ==
  /\ Handling /\ request.cookie # NoId /\ Loads(request.cookie)
  /\ NewSession(sessions_)

(* No session: "!session_ptr && !session_ptr->IsExpired()" calls through a *)
(* null pointer.  The call faults, or the compiler has assumed that the    *)
(* condition cannot be true.                                               *)
NotFound == Handling /\ request.cookie # NoId /\ ~ Loads(request.cookie)

GetSessionFaults ==
  /\ NotFound
  /\ crashed' = TRUE
  /\ sessions_' = AfterLoad(request.cookie)
  /\ UNCHANGED <<now, heap, request, response, held, jar, destroyed>>

GetSessionNotFound ==
  /\ NotFound
  /\ NewSession(AfterLoad(request.cookie))

-----------------------------------------------------------------------------
(* The other calls of a handler.                                           *)

Kept == UNCHANGED <<now, crashed, request, response, held, jar, destroyed>>

(* SetValue writes the session's data and updates the storage if there is  *)
(* a manager.  (The data, and so Remove and Clear, are left out: every     *)
(* holder and the storage have the same object.)                           *)
SetValue(o) ==
  /\ Handling /\ o \in held
  /\ heap[o].managed
  /\ sessions_' = Update(heap[o].id, o)
  /\ Kept /\ UNCHANGED heap

Refresh(o) ==
  /\ Handling /\ o \in held
  /\ heap' = [heap EXCEPT ![o].expires = Expiry]
  /\ Kept /\ UNCHANGED sessions_

(* SetManager(nullptr) and SetManager(manager).                            *)
SetManager(o, managed) ==
  /\ Handling /\ o \in held
  /\ heap' = [heap EXCEPT ![o].managed = managed]
  /\ Kept /\ UNCHANGED sessions_

(* The application constructs a session and passes it to AddSession.       *)
AddSession(id) ==
  LET o == Len(heap) + 1 IN
  /\ Handling /\ o <= MaxSessions
  /\ \E e \in Indeterminate : heap' = Append(heap, Session(id, e))
  /\ sessions_' = Save(sessions_, id, o)
  /\ held' = held \cup {o}
  /\ UNCHANGED <<now, crashed, request, response, jar, destroyed>>

DestroySession(id) ==
  /\ Handling /\ id \in DOMAIN sessions_
  /\ sessions_' = Without(id)
  /\ destroyed' = destroyed \cup {id}
  /\ UNCHANGED <<now, crashed, heap, request, response, held, jar>>

-----------------------------------------------------------------------------
(* Requests and the clock.                                                 *)

Request(c) ==
  /\ ~ crashed /\ request = NoRequest
  /\ request' = [client |-> c, cookie |-> jar[c]]
  /\ response' = NoId
  /\ UNCHANGED <<now, crashed, heap, sessions_, held, jar, destroyed>>

(* The handler returns, keeping the sessions it holds or not; the client   *)
(* takes the cookie of the response.                                       *)
Respond ==
  /\ Handling
  /\ jar' = IF response = NoId THEN jar ELSE [jar EXCEPT ![request.client] = response]
  /\ request' = NoRequest /\ response' = NoId
  /\ held' \in {held, {}}
  /\ UNCHANGED <<now, crashed, heap, sessions_, destroyed>>

Tick ==
  /\ ~ crashed /\ now < MaxTime
  /\ now' = now + 1
  /\ UNCHANGED <<crashed, heap, sessions_, request, response, held, jar, destroyed>>

GetSession ==
  GetSessionNoCookie \/ GetSessionFound \/ GetSessionFaults \/ GetSessionNotFound

Next ==
  \/ GetSession
  \/ \E o \in held :
       \/ SetValue(o)
       \/ Refresh(o)
       \/ \E managed \in BOOLEAN : SetManager(o, managed)
  \/ \E id \in AppIds : AddSession(id)
  \/ \E id \in Ids : DestroySession(id)
  \/ \E c \in Clients : Request(c)
  \/ Respond
  \/ Tick

Spec == Init /\ [][Next]_vars

-----------------------------------------------------------------------------
(* Properties.                                                             *)

Sessions ==
  [id : 1 .. MaxSessions \cup AppIds, expires : -1 .. MaxTime + MaxAge + 1,
   managed : BOOLEAN,
   by : Clients, born : 0 .. MaxTime, first : BOOLEAN]

TypeOK ==
  /\ now \in 0 .. MaxTime /\ crashed \in BOOLEAN
  /\ heap \in Seq(Sessions) /\ Len(heap) <= MaxSessions
  /\ DOMAIN sessions_ \subseteq Ids /\ \A i \in DOMAIN sessions_ : sessions_[i] \in Objects
  /\ request \in [client : Clients, cookie : Ids \cup {NoId}] \cup {NoRequest}
  /\ response \in Ids \cup {NoId}
  /\ held \subseteq Objects
  /\ jar \in [Clients -> Ids \cup {NoId}]
  /\ destroyed \subseteq Ids

ByGetSession(o) == heap[o].id = o

(* memory_session_storage.cpp:8-14: what is stored under an id is a        *)
(* session with that id, and for an id that GetSession made it is the very *)
(* object GetSession returned: what a holder writes is what is stored.     *)
StoredUnderOwnId ==
  \A i \in DOMAIN sessions_ :
    /\ heap[sessions_[i]].id = i
    /\ i \in 1 .. MaxSessions => sessions_[i] = i

(* session_manager.cpp:26-33: a session that GetSession made is loadable   *)
(* for max_age_ seconds from then on unless it is destroyed: the arbitrary *)
(* expiration time of the constructor has been overwritten, and nothing    *)
(* that happens to other sessions takes it out of the storage.             *)
LivesItsAge ==
  \A o \in Objects :
    ByGetSession(o) /\ o \notin destroyed /\ now <= heap[o].born + MaxAge => Loads(o)

(* session_manager.cpp:29, http_response.cpp:23-25: the cookie a client    *)
(* holds is of a session made during one of its own requests, and of the   *)
(* first one when a handler called GetSession more than once.              *)
CookieIsOwn ==
  \A c \in Clients :
    jar[c] \in Objects =>
      /\ ByGetSession(jar[c])
      /\ heap[jar[c]].by = c /\ heap[jar[c]].first

(* session.cpp:23-30: a destroyed session is back in the storage only when *)
(* application code still held it (its SetValue updates the storage); no   *)
(* request brings it back by its cookie.                                   *)
BackOnlyIfHeld ==
  [][\A i \in destroyed \cap 1 .. MaxSessions :
        i \notin DOMAIN sessions_ /\ i \in DOMAIN sessions_' =>
          \E o \in held : heap[o].id = i]_vars

(* memory_session_storage.cpp:8-37, session_manager.cpp:15-38: the storage *)
(* does what SessionStore allows: a session that is alive is forgotten by  *)
(* DestroySession alone, an expired one when it is asked for, and its time *)
(* changes only in the hands of a holder; an AddSession under an id whose  *)
(* entry has expired and is still there has no effect.                     *)
Store ==
  INSTANCE SessionStore WITH
    IssuedIds <- 1 .. MaxSessions,
    Times     <- -1 .. MaxTime + MaxAge + 1,
    stored    <- [i \in DOMAIN sessions_ |-> heap[sessions_[i]].expires],
    held      <- {<<heap[o].id, heap[o].expires>> : o \in held},
    issued    <- {o \in Objects : ByGetSession(o)}

ImplementsStore == Store!Spec

(* session_manager.cpp:16 ("the request has a session_id, the session_id   *)
(* has a session and the session has not expired"): such a request is      *)
(* given that session.                                                     *)
SessionReused ==
  [][GetSession /\ Loads(request.cookie) =>
       heap' = [heap EXCEPT ![sessions_[request.cookie]].expires = Expiry]]_vars

(* session_manager.cpp:25 ("the session_id has no session or has expired"):*)
(* such a request is given a new session, and the process lives on.        *)
NeverCrashes == ~ crashed

=============================================================================
