--------------------------- MODULE SessionProofs ----------------------------
(***************************************************************************)
(* Proofs about SessionManager, for every set of clients and application   *)
(* ids, every MaxAge and every bound.                                      *)
(*                                                                         *)
(* The properties are not inductive as they stand.  IdsOwn says that an id *)
(* GetSession drew is that of one object only, the fact behind             *)
(* StoredUnderOwnId when SetValue puts a session back.  Aged is the        *)
(* induction behind LivesItsAge: a time in the future is never taken back, *)
(* so Load cannot have erased a young session.  Cookies follows a session  *)
(* id on its way from the response into the jar.  DestroyedKnown says that *)
(* an id was not destroyed before it was drawn.                            *)
(***************************************************************************)
EXTENDS SessionManager, TLAPS

IdsOwn ==
  \A o \in Objects : heap[o].id \in 1 .. MaxSessions => ByGetSession(o)

Aged ==
  \A o \in Objects : ByGetSession(o) =>
    /\ heap[o].born <= now
    /\ heap[o].born + MaxAge <= heap[o].expires
    /\ heap[o].expires <= now + MaxAge
    /\ o \notin destroyed /\ now <= heap[o].born + MaxAge => o \in DOMAIN sessions_

CookieOf(id, c) ==
  id \in Objects /\ ByGetSession(id) /\ heap[id].by = c /\ heap[id].first

Cookies ==
  /\ response # NoId => request # NoRequest /\ CookieOf(response, request.client)
  /\ \A c \in Clients : jar[c] \notin {NoId, OldId} => CookieOf(jar[c], c)

DestroyedKnown == destroyed \cap 1 .. MaxSessions \subseteq Objects

IInv ==
  TypeOK /\ StoredUnderOwnId /\ IdsOwn /\ Aged /\ Cookies /\ DestroyedKnown

-----------------------------------------------------------------------------
LEMMA AppendToHeap ==
  ASSUME heap \in Seq(Sessions), NEW s \in Sessions
  PROVE  /\ Append(heap, s) \in Seq(Sessions)
         /\ Len(heap) \in Nat /\ Len(Append(heap, s)) = Len(heap) + 1
         /\ DOMAIN Append(heap, s) = 1 .. Len(heap) + 1
         /\ Objects = 1 .. Len(heap)
         /\ \A o \in Objects : Append(heap, s)[o] = heap[o]
         /\ Append(heap, s)[Len(heap) + 1] = s
BY DEF Objects

LEMMA HeapFacts ==
  ASSUME TypeOK
  PROVE  /\ Len(heap) \in Nat /\ Objects = 1 .. Len(heap) /\ Objects \subseteq 1 .. MaxSessions
         /\ \A o \in Objects : heap[o] \in Sessions
BY SessionAssumption DEF TypeOK, Objects

LEMMA InitIInv == Init => IInv
<1> SUFFICES ASSUME Init PROVE IInv  OBVIOUS
<1> USE SessionAssumption DEF Init
<1>1. DOMAIN heap = {} /\ DOMAIN sessions_ = {} /\ Len(heap) = 0
  OBVIOUS
<1>2. TypeOK
  <2>1. heap \in Seq(Sessions)  OBVIOUS
  <2>2. crashed \in BOOLEAN  BY Zenon
  <2>3. jar \in [Clients -> Ids \cup {NoId}]  BY DEF Ids
  <2>4. now \in 0 .. MaxTime  OBVIOUS
  <2>5. request \in {NoRequest} /\ response \in {NoId} /\ held = {} /\ destroyed = {}  OBVIOUS
  <2> QED  BY <1>1, <2>1, <2>2, <2>3, <2>4, <2>5 DEF TypeOK
<1>3. StoredUnderOwnId /\ IdsOwn /\ Aged
  BY <1>1 DEF StoredUnderOwnId, IdsOwn, Aged, Objects
<1>4. Cookies /\ DestroyedKnown
  BY DEF Cookies, DestroyedKnown
<1> QED  BY <1>2, <1>3, <1>4 DEF IInv

-----------------------------------------------------------------------------
(* The storage.                                                            *)

(* A Load takes out nothing that GetSession made and that is still young.  *)
LEMMA AfterLoadKeeps ==
  ASSUME IInv, NEW id
  PROVE  /\ DOMAIN AfterLoad(id) \subseteq DOMAIN sessions_
         /\ \A i \in DOMAIN AfterLoad(id) : AfterLoad(id)[i] = sessions_[i]
         /\ \A o \in Objects : ByGetSession(o) /\ o \in DOMAIN sessions_
                                 /\ now <= heap[o].born + MaxAge
                                   => o \in DOMAIN AfterLoad(id)
<1>1. /\ DOMAIN AfterLoad(id) \subseteq DOMAIN sessions_
      /\ \A i \in DOMAIN AfterLoad(id) : AfterLoad(id)[i] = sessions_[i]
  BY DEF AfterLoad, Without
<1>2. ASSUME NEW o \in Objects, ByGetSession(o), o \in DOMAIN sessions_,
             now <= heap[o].born + MaxAge, o \notin DOMAIN AfterLoad(id)
      PROVE  FALSE
  <2>1. id = o /\ ~ Loads(o)
    BY <1>2 DEF AfterLoad, Without
  <2>2. sessions_[o] = o
    BY <1>2, HeapFacts DEF IInv, StoredUnderOwnId
  <2>3. now > heap[o].expires
    BY <1>2, <2>1, <2>2 DEF Loads, IsExpired
  <2>4. heap[o].born + MaxAge <= heap[o].expires
    BY <1>2 DEF IInv, Aged
  <2>5. /\ now \in Int /\ MaxAge \in Int
        /\ heap[o].born \in Int /\ heap[o].expires \in Int
    BY HeapFacts, SessionAssumption DEF IInv, TypeOK, Sessions
  <2> QED  BY <1>2, <2>3, <2>4, <2>5
<1> QED  BY <1>1, <1>2

(* What is stored is an object under its own id.                           *)
Well(stored) ==
  /\ DOMAIN stored \subseteq Ids
  /\ \A i \in DOMAIN stored :
       /\ stored[i] \in Objects
       /\ heap[stored[i]].id = i
       /\ i \in 1 .. MaxSessions => stored[i] = i

LEMMA StorageIsWell ==
  ASSUME IInv
  PROVE  Well(sessions_) /\ \A id : Well(AfterLoad(id)) /\ Well(Without(id))
<1>1. Well(sessions_)
  BY DEF IInv, TypeOK, StoredUnderOwnId, Well
<1>2. ASSUME NEW id PROVE Well(Without(id))
  BY <1>1 DEF Well, Without
<1>3. ASSUME NEW id PROVE Well(AfterLoad(id))
  BY <1>1, <1>2 DEF AfterLoad
<1> QED  BY <1>1, <1>2, <1>3

(* A new object is stored under its id.                                    *)
LEMMA SaveNew ==
  ASSUME TypeOK, NEW stored, Well(stored), NEW s \in Sessions, NEW id, NEW o,
         o = Len(heap) + 1, heap' = Append(heap, s), s.id = id, id \in Ids,
         id \in 1 .. MaxSessions => id = o,
         sessions_' = Save(stored, id, o)
  PROVE  Well(sessions_)'
<1> DEFINE After == Save(stored, id, o)
<1>1. /\ DOMAIN After = DOMAIN stored \cup {id}
      /\ \A i \in DOMAIN stored : After[i] = stored[i]
      /\ id \notin DOMAIN stored => After[id] = o
  BY DEF Save, With
<1>2. /\ Objects' = Objects \cup {o} /\ o \notin Objects
      /\ \A p \in Objects : heap'[p] = heap[p]
      /\ heap'[o] = s
  BY AppendToHeap DEF TypeOK, Objects
<1>3. Ids' = Ids
  BY DEF Ids
<1>4. DOMAIN After \subseteq Ids
  BY <1>1 DEF Well
<1>5. ASSUME NEW i \in DOMAIN After
      PROVE  /\ After[i] \in Objects' /\ heap'[After[i]].id = i
             /\ i \in 1 .. MaxSessions => After[i] = i
  <2> HIDE DEF After
  <2>1. CASE i \in DOMAIN stored
    BY <1>1, <1>2, <2>1 DEF Well
  <2>2. CASE i \notin DOMAIN stored
    BY <1>1, <1>2, <1>5, <2>2
  <2> QED  BY <2>1, <2>2
<1>6. sessions_' = After
  OBVIOUS
<1> HIDE DEF After
<1> QED  BY <1>3, <1>4, <1>5, <1>6 DEF Well

-----------------------------------------------------------------------------
(* Steps that construct a session: GetSession and AddSession.              *)

LEMMA NewObjectIInv ==
  ASSUME IInv, Handling, NEW stored, Well(stored),
         \A o \in Objects : ByGetSession(o) /\ o \in DOMAIN sessions_
                              /\ now <= heap[o].born + MaxAge => o \in DOMAIN stored,
         NEW s \in Sessions, NEW n, n = Len(heap) + 1, n <= MaxSessions,
         heap' = Append(heap, s), s.born = now,
         s.id = n \/ s.id \in AppIds,
         s.id = n => s.expires = now + MaxAge,
         sessions_' = Save(stored, s.id, n), held' = held \cup {n},
         UNCHANGED <<now, crashed, request, jar, destroyed>>,
         \/ response' = response
         \/ response' = n /\ s.id = n /\ s.by = request.client /\ s.first
  PROVE  IInv'
<1> USE SessionAssumption DEF IInv
<1>1. /\ Objects' = Objects \cup {n} /\ n \notin Objects /\ n \in 1 .. MaxSessions
      /\ \A p \in Objects : heap'[p] = heap[p]
      /\ heap'[n] = s
      /\ heap' \in Seq(Sessions) /\ Len(heap') = n
  BY AppendToHeap, HeapFacts DEF TypeOK, Objects
<1>2. Ids' = Ids /\ n \in Ids /\ s.id \in Ids /\ (s.id \in 1 .. MaxSessions => s.id = n)
  BY <1>1 DEF Ids
<1>3. Well(sessions_)'
  BY <1>2, SaveNew
<1>4. TypeOK'
  <2>1. response' \in Ids \cup {NoId}
    BY <1>2 DEF TypeOK
  <2>2. held' \subseteq Objects'
    BY <1>1 DEF TypeOK
  <2>3. DOMAIN sessions_' \subseteq Ids' /\ \A i \in DOMAIN sessions_' : sessions_'[i] \in Objects'
    BY <1>3 DEF Well
  <2>4. heap' \in Seq(Sessions) /\ Len(heap') <= MaxSessions
    BY <1>1
  <2>5. now' \in 0 .. MaxTime /\ crashed' \in BOOLEAN
    BY DEF TypeOK
  <2>6. /\ request' \in [client : Clients, cookie : Ids' \cup {NoId}] \cup {NoRequest}
        /\ jar' \in [Clients -> Ids' \cup {NoId}]
        /\ destroyed' \subseteq Ids'
    BY <1>2 DEF TypeOK
  <2> QED  BY <1>2, <2>1, <2>2, <2>3, <2>4, <2>5, <2>6 DEF TypeOK, NoRequest, Sessions
<1>5. StoredUnderOwnId'
  BY <1>3 DEF Well, StoredUnderOwnId
<1>6. IdsOwn'
  BY <1>1, <1>2 DEF IdsOwn, ByGetSession
<1>7. Aged'
  <2>1. DOMAIN sessions_' = DOMAIN stored \cup {s.id}
    BY DEF Save, With
  <2>2. ASSUME NEW o \in Objects, ByGetSession(o)'
        PROVE  /\ heap'[o].born <= now' /\ heap'[o].born + MaxAge <= heap'[o].expires
               /\ heap'[o].expires <= now' + MaxAge
               /\ o \notin destroyed' /\ now' <= heap'[o].born + MaxAge => o \in DOMAIN sessions_'
    BY <1>1, <2>1, <2>2 DEF Aged, ByGetSession
  <2>3. ASSUME ByGetSession(n)'
        PROVE  /\ heap'[n].born <= now' /\ heap'[n].born + MaxAge <= heap'[n].expires
               /\ heap'[n].expires <= now' + MaxAge
               /\ n \in DOMAIN sessions_'
    BY <1>1, <2>1, <2>3 DEF ByGetSession, TypeOK
  <2> QED  BY <1>1, <2>2, <2>3 DEF Aged
<1>8. Cookies'
  <2>1. ASSUME NEW id, NEW c, CookieOf(id, c) PROVE CookieOf(id, c)'
    BY <1>1, <2>1 DEF CookieOf, ByGetSession
  <2>2. ASSUME response' = n, s.id = n, s.by = request.client, s.first
        PROVE  CookieOf(response, request.client)'
    BY <1>1, <2>2 DEF CookieOf, ByGetSession
  <2>3. response' # NoId => request' # NoRequest /\ CookieOf(response, request.client)'
    <3>1. CASE response' = response
      BY <2>1, <3>1 DEF Cookies, Handling
    <3>2. CASE response' = n /\ s.id = n /\ s.by = request.client /\ s.first
      BY <2>2, <3>2 DEF Handling
    <3> QED  BY <3>1, <3>2
  <2>4. ASSUME NEW c \in Clients, jar'[c] \notin {NoId, OldId} PROVE CookieOf(jar[c], c)'
    BY <2>1, <2>4 DEF Cookies
  <2> QED  BY <2>3, <2>4 DEF Cookies, NoRequest
<1>9. DestroyedKnown'
  BY <1>1 DEF DestroyedKnown
<1> QED  BY <1>4, <1>5, <1>6, <1>7, <1>8, <1>9

LEMMA NewSessionIInv ==
  ASSUME IInv, Handling, NEW stored, Well(stored),
         \A o \in Objects : ByGetSession(o) /\ o \in DOMAIN sessions_
                              /\ now <= heap[o].born + MaxAge => o \in DOMAIN stored,
         NewSession(stored)
  PROVE  IInv'
<1> DEFINE n == Len(heap) + 1
           s == Session(n, Expiry)
<1>1. n \in 1 .. MaxSessions
  BY HeapFacts, SessionAssumption DEF IInv, NewSession
<1>2. s \in Sessions
  <2>1. request.client \in Clients
    BY DEF IInv, TypeOK, Handling
  <2>2. Expiry \in -1 .. MaxTime + MaxAge + 1
    BY SessionAssumption DEF IInv, TypeOK, Expiry
  <2>3. now \in 0 .. MaxTime
    BY DEF IInv, TypeOK
  <2> QED  BY <1>1, <2>1, <2>2, <2>3 DEF Session, Sessions
<1>3. /\ s.id = n /\ s.born = now /\ s.expires = now + MaxAge
      /\ s.by = request.client /\ s.first = (response = NoId)
  BY DEF Session, Expiry
<1>4. /\ heap' = Append(heap, s) /\ n <= MaxSessions
      /\ sessions_' = Save(stored, s.id, n) /\ held' = held \cup {n}
      /\ UNCHANGED <<now, crashed, request, jar, destroyed>>
      /\ response' = IF response = NoId THEN n ELSE response
  BY <1>3 DEF NewSession, GenerateSessionId, SetSessionCookie
<1> HIDE DEF s
<1> QED  BY <1>2, <1>3, <1>4, NewObjectIInv

LEMMA GetSessionIInv ==
  ASSUME IInv, GetSession
  PROVE  IInv'
<1>1. CASE GetSessionNoCookie
  BY <1>1, StorageIsWell, NewSessionIInv DEF GetSessionNoCookie
<1>2. CASE GetSessionFound
  BY <1>2, StorageIsWell, NewSessionIInv DEF GetSessionFound
<1>3. CASE GetSessionNotFound
  BY <1>3, StorageIsWell, AfterLoadKeeps, NewSessionIInv DEF GetSessionNotFound, NotFound
<1>4. CASE GetSessionFaults
  <2> DEFINE After == AfterLoad(request.cookie)
  <2>1. Well(After) /\ sessions_' = After /\ crashed' = TRUE
        /\ UNCHANGED <<now, heap, request, response, held, jar, destroyed>>
    BY <1>4, StorageIsWell DEF GetSessionFaults
  <2>2. \A o \in Objects : ByGetSession(o) /\ o \in DOMAIN sessions_
                                 /\ now <= heap[o].born + MaxAge => o \in DOMAIN After
    BY AfterLoadKeeps
  <2> HIDE DEF After
  <2>3. TypeOK'
    BY <2>1 DEF IInv, TypeOK, Well, Objects, Ids
  <2>4. StoredUnderOwnId'
    BY <2>1 DEF Well, StoredUnderOwnId
  <2>5. Aged'
    BY <2>1, <2>2 DEF IInv, Aged, ByGetSession, Objects
  <2>6. IdsOwn' /\ Cookies' /\ DestroyedKnown'
    BY <2>1 DEF IInv, IdsOwn, Cookies, CookieOf, DestroyedKnown, ByGetSession, Objects
  <2> QED  BY <2>3, <2>4, <2>5, <2>6 DEF IInv
<1> QED  BY <1>1, <1>2, <1>3, <1>4 DEF GetSession

LEMMA AddSessionIInv ==
  ASSUME IInv, NEW id \in AppIds, AddSession(id)
  PROVE  IInv'
<1> DEFINE n == Len(heap) + 1
<1>1. PICK e \in Indeterminate : heap' = Append(heap, Session(id, e))
  BY DEF AddSession
<1> DEFINE s == Session(id, e)
<1>2. s \in Sessions
  <2>1. request.client \in Clients
    BY DEF IInv, TypeOK, Handling, AddSession
  <2>2. e \in -1 .. MaxTime + MaxAge + 1
    BY SessionAssumption DEF Indeterminate
  <2>3. now \in 0 .. MaxTime
    BY DEF IInv, TypeOK
  <2> QED  BY <2>1, <2>2, <2>3 DEF Session, Sessions
<1>3. s.id = id /\ s.born = now
  BY DEF Session
<1>4. n \in 1 .. MaxSessions /\ s.id # n
  BY <1>3, HeapFacts, SessionAssumption DEF IInv, AddSession
<1>5. /\ heap' = Append(heap, s) /\ sessions_' = Save(sessions_, s.id, n)
      /\ held' = held \cup {n} /\ Handling
      /\ UNCHANGED <<now, crashed, request, response, jar, destroyed>>
  BY <1>1, <1>3 DEF AddSession
<1>6. Well(sessions_)
  BY StorageIsWell
<1> HIDE DEF s
<1> QED  BY <1>2, <1>3, <1>4, <1>5, <1>6, NewObjectIInv

-----------------------------------------------------------------------------
(* Steps that leave every object under its id.                             *)

SameObjects ==
  /\ DOMAIN heap' = DOMAIN heap
  /\ \A o \in Objects :
       /\ heap'[o].id = heap[o].id /\ heap'[o].by = heap[o].by
       /\ heap'[o].born = heap[o].born /\ heap'[o].first = heap[o].first

LEMMA SameObjectsKeep ==
  ASSUME IInv, SameObjects
  PROVE  /\ IdsOwn' /\ Objects' = Objects
         /\ \A o \in Objects : ByGetSession(o)' <=> ByGetSession(o)
         /\ \A id, c : CookieOf(id, c) => CookieOf(id, c)'
         /\ UNCHANGED <<request, response, jar>> => Cookies'
         /\ destroyed' = destroyed => DestroyedKnown'
<1>1. Objects' = Objects
  BY DEF SameObjects, Objects
<1>2. \A o \in Objects : ByGetSession(o)' <=> ByGetSession(o)
  BY DEF SameObjects, ByGetSession
<1>3. IdsOwn'
  BY <1>1, <1>2 DEF IInv, IdsOwn, SameObjects
<1>4. ASSUME NEW id, NEW c, CookieOf(id, c) PROVE CookieOf(id, c)'
  <2>1. id \in Objects /\ ByGetSession(id)'
    BY <1>2, <1>4 DEF CookieOf
  <2>2. heap'[id].by = c /\ heap'[id].first
    BY <1>4 DEF CookieOf, SameObjects
  <2> QED  BY <1>1, <2>1, <2>2 DEF CookieOf
<1>5. UNCHANGED <<request, response, jar>> => Cookies'
  BY <1>4 DEF IInv, Cookies, NoRequest
<1>6. destroyed' = destroyed => DestroyedKnown'
  BY <1>1 DEF IInv, DestroyedKnown
<1> QED  BY <1>1, <1>2, <1>3, <1>4, <1>5, <1>6

LEMMA SetValueIInv ==
  ASSUME IInv, NEW o \in held, SetValue(o)
  PROVE  IInv'
<1> DEFINE id == heap[o].id
<1>1. o \in Objects /\ heap[o] \in Sessions /\ heap' = heap
  BY HeapFacts DEF IInv, TypeOK, SetValue
<1>2. id \in Ids /\ (id \in 1 .. MaxSessions => id = o)
  BY <1>1 DEF IInv, IdsOwn, ByGetSession, Sessions, Ids
<1>3. /\ DOMAIN sessions_' = DOMAIN sessions_ \cup {id}
      /\ \A i \in DOMAIN sessions_' : sessions_'[i] = IF i = id THEN o ELSE sessions_[i]
      /\ UNCHANGED <<now, crashed, request, response, held, jar, destroyed>>
  BY DEF SetValue, Update, With, Kept
<1>4. SameObjects
  BY <1>1 DEF SameObjects
<1>5. Well(sessions_)'
  BY <1>1, <1>2, <1>3, StorageIsWell, SameObjectsKeep, <1>4 DEF Well, Ids
<1> HIDE DEF id
<1>6. TypeOK'
  BY <1>1, <1>3, <1>5, SameObjectsKeep, <1>4 DEF IInv, TypeOK, Well, Ids
<1>7. StoredUnderOwnId'
  BY <1>5 DEF Well, StoredUnderOwnId
<1>8. Aged'
  BY <1>1, <1>3, SameObjectsKeep, <1>4 DEF IInv, Aged
<1> QED  BY <1>3, <1>4, <1>6, <1>7, <1>8, SameObjectsKeep DEF IInv

(* Refresh only moves an expiration time away.                             *)
LEMMA RefreshIInv ==
  ASSUME IInv, NEW o \in held, Refresh(o)
  PROVE  IInv'
<1>1. o \in Objects /\ heap \in Seq(Sessions) /\ heap[o] \in Sessions
  BY HeapFacts DEF IInv, TypeOK
<1>2. /\ heap' = [heap EXCEPT ![o].expires = Expiry] /\ sessions_' = sessions_
      /\ UNCHANGED <<now, crashed, request, response, held, jar, destroyed>>
  BY DEF Refresh, Kept
<1>3. Expiry \in -1 .. MaxTime + MaxAge + 1 /\ Expiry = now + MaxAge /\ now \in Int
  BY SessionAssumption DEF IInv, TypeOK, Expiry
<1>4. [heap[o] EXCEPT !.expires = Expiry] \in Sessions
  BY <1>1, <1>3 DEF Sessions
<1>5. heap' = [heap EXCEPT ![o] = [heap[o] EXCEPT !.expires = Expiry]]
  BY <1>2
<1>6. heap' \in Seq(Sessions) /\ Len(heap') = Len(heap)
  BY <1>1, <1>4, <1>5 DEF Objects
<1>7. SameObjects
  BY <1>1, <1>5, HeapFacts DEF IInv, SameObjects, Sessions, Objects
<1>8. TypeOK'
  BY <1>2, <1>6, SameObjectsKeep, <1>7 DEF IInv, TypeOK, Ids
<1>9. StoredUnderOwnId'
  BY <1>2, <1>7 DEF IInv, TypeOK, StoredUnderOwnId, SameObjects
<1>10. Aged'
  <2>1. \A p \in Objects : heap'[p].expires = IF p = o THEN Expiry ELSE heap[p].expires
    BY <1>1, <1>5, HeapFacts DEF IInv, Sessions, Objects
  <2>2. heap[o].born \in Int /\ MaxAge \in Int
    BY <1>1, SessionAssumption DEF Sessions
  <2> QED  BY <1>2, <1>3, <2>1, <2>2, SameObjectsKeep, <1>7 DEF IInv, Aged, SameObjects
<1> QED  BY <1>2, <1>7, <1>8, <1>9, <1>10, SameObjectsKeep DEF IInv

LEMMA SetManagerIInv ==
  ASSUME IInv, NEW o \in held, NEW managed \in BOOLEAN, SetManager(o, managed)
  PROVE  IInv'
<1>1. o \in Objects /\ heap \in Seq(Sessions) /\ heap[o] \in Sessions
  BY HeapFacts DEF IInv, TypeOK
<1>2. /\ heap' = [heap EXCEPT ![o].managed = managed] /\ sessions_' = sessions_
      /\ UNCHANGED <<now, crashed, request, response, held, jar, destroyed>>
  BY DEF SetManager, Kept
<1>3. [heap[o] EXCEPT !.managed = managed] \in Sessions
  BY <1>1 DEF Sessions
<1>4. heap' = [heap EXCEPT ![o] = [heap[o] EXCEPT !.managed = managed]]
  BY <1>2
<1>5. heap' \in Seq(Sessions) /\ Len(heap') = Len(heap)
  BY <1>1, <1>3, <1>4 DEF Objects
<1>6. SameObjects
  BY <1>1, <1>4, HeapFacts DEF IInv, SameObjects, Sessions, Objects
<1>7. TypeOK'
  BY <1>2, <1>5, SameObjectsKeep, <1>6 DEF IInv, TypeOK, Ids
<1>8. StoredUnderOwnId'
  BY <1>2, <1>6 DEF IInv, TypeOK, StoredUnderOwnId, SameObjects
<1>9. Aged'
  <2>1. \A p \in Objects : heap'[p].expires = heap[p].expires
    BY <1>1, <1>4, HeapFacts DEF IInv, Sessions, Objects
  <2> QED  BY <1>2, <2>1, SameObjectsKeep, <1>6 DEF IInv, Aged, SameObjects
<1> QED  BY <1>2, <1>6, <1>7, <1>8, <1>9, SameObjectsKeep DEF IInv

LEMMA DestroySessionIInv ==
  ASSUME IInv, NEW id \in Ids, DestroySession(id)
  PROVE  IInv'
<1>1. /\ id \in DOMAIN sessions_ /\ sessions_' = Without(id)
      /\ destroyed' = destroyed \cup {id}
      /\ UNCHANGED <<now, crashed, heap, request, response, held, jar>>
  BY DEF DestroySession
<1>2. SameObjects
  BY <1>1 DEF SameObjects
<1>3. Well(sessions_)'
  BY <1>1, StorageIsWell, SameObjectsKeep, <1>2 DEF Well, Ids
<1>4. TypeOK'
  BY <1>1, <1>3, SameObjectsKeep, <1>2 DEF IInv, TypeOK, Well, Ids
<1>5. StoredUnderOwnId'
  BY <1>3 DEF Well, StoredUnderOwnId
<1>6. Aged'
  BY <1>1, SameObjectsKeep, <1>2 DEF IInv, Aged, Without
<1>7. DestroyedKnown'
  <2>1. id \in 1 .. MaxSessions => id \in Objects
    BY <1>1 DEF IInv, TypeOK, StoredUnderOwnId
  <2> QED  BY <1>1, <2>1, SameObjectsKeep, <1>2 DEF IInv, DestroyedKnown
<1> QED  BY <1>1, <1>2, <1>4, <1>5, <1>6, <1>7, SameObjectsKeep DEF IInv

LEMMA RequestIInv ==
  ASSUME IInv, NEW c \in Clients, Request(c)
  PROVE  IInv'
<1>1. /\ request' = [client |-> c, cookie |-> jar[c]] /\ response' = NoId
      /\ UNCHANGED <<now, crashed, heap, sessions_, held, jar, destroyed>>
  BY DEF Request
<1>2. SameObjects
  BY <1>1 DEF SameObjects
<1>3. request' \in [client : Clients, cookie : Ids \cup {NoId}]
  BY <1>1 DEF IInv, TypeOK
<1>4. TypeOK'
  BY <1>1, <1>3, SameObjectsKeep, <1>2 DEF IInv, TypeOK, Ids
<1>5. StoredUnderOwnId' /\ Aged'
  BY <1>1, SameObjectsKeep, <1>2 DEF IInv, StoredUnderOwnId, Aged
<1>6. Cookies'
  BY <1>1, SameObjectsKeep, <1>2 DEF IInv, Cookies
<1> QED  BY <1>1, <1>2, <1>4, <1>5, <1>6, SameObjectsKeep DEF IInv

LEMMA RespondIInv ==
  ASSUME IInv, Respond
  PROVE  IInv'
<1>1. /\ request # NoRequest
      /\ jar' = IF response = NoId THEN jar ELSE [jar EXCEPT ![request.client] = response]
      /\ request' = NoRequest /\ response' = NoId /\ held' \in {held, {}}
      /\ UNCHANGED <<now, crashed, heap, sessions_, destroyed>>
  BY DEF Respond, Handling
<1>2. SameObjects
  BY <1>1 DEF SameObjects
<1>3. request.client \in Clients
  BY <1>1 DEF IInv, TypeOK
<1>4. jar' \in [Clients -> Ids \cup {NoId}]
  BY <1>1, <1>3 DEF IInv, TypeOK
<1>5. TypeOK'
  BY <1>1, <1>4, SameObjectsKeep, <1>2 DEF IInv, TypeOK, Ids, NoRequest
<1>6. StoredUnderOwnId' /\ Aged'
  BY <1>1, SameObjectsKeep, <1>2 DEF IInv, StoredUnderOwnId, Aged
<1>7. ASSUME NEW c \in Clients, jar'[c] \notin {NoId, OldId}
      PROVE  CookieOf(jar[c], c)'
  <2>1. CASE response # NoId /\ c = request.client
    BY <1>1, <1>3, <2>1, SameObjectsKeep, <1>2 DEF IInv, TypeOK, Cookies
  <2>2. CASE response = NoId \/ c # request.client
    BY <1>1, <1>3, <1>7, <2>2, SameObjectsKeep, <1>2 DEF IInv, TypeOK, Cookies
  <2> QED  BY <2>1, <2>2
<1>8. Cookies'
  BY <1>1, <1>7 DEF Cookies
<1> QED  BY <1>1, <1>2, <1>5, <1>6, <1>8, SameObjectsKeep DEF IInv

LEMMA TickIInv ==
  ASSUME IInv, Tick
  PROVE  IInv'
<1>1. /\ now' = now + 1 /\ now < MaxTime
      /\ UNCHANGED <<crashed, heap, sessions_, request, response, held, jar, destroyed>>
  BY DEF Tick
<1>2. SameObjects
  BY <1>1 DEF SameObjects
<1>3. TypeOK'
  <2>1. now' \in 0 .. MaxTime
    BY <1>1, SessionAssumption DEF IInv, TypeOK
  <2> QED  BY <1>1, <2>1, SameObjectsKeep, <1>2 DEF IInv, TypeOK, Ids
<1>4. StoredUnderOwnId'
  BY <1>1, SameObjectsKeep, <1>2 DEF IInv, StoredUnderOwnId
<1>5. Aged'
  <2>1. \A o \in Objects : heap[o].born \in Int /\ heap[o].expires \in Int
    BY HeapFacts DEF IInv, Sessions
  <2>2. now \in Int /\ MaxAge \in Int
    BY SessionAssumption DEF IInv, TypeOK
  <2> QED  BY <1>1, <2>1, <2>2, SameObjectsKeep, <1>2 DEF IInv, Aged
<1> QED  BY <1>1, <1>2, <1>3, <1>4, <1>5, SameObjectsKeep DEF IInv

LEMMA StutterIInv ==
  ASSUME IInv, UNCHANGED vars
  PROVE  IInv'
<1>1. SameObjects
  BY DEF vars, SameObjects
<1> QED
  BY <1>1, SameObjectsKeep DEF vars, IInv, TypeOK, Ids, StoredUnderOwnId, Aged

LEMMA NextIInv == IInv /\ [Next]_vars => IInv'
<1> SUFFICES ASSUME IInv, [Next]_vars PROVE IInv'  OBVIOUS
<1>1. ASSUME NEW o \in held, SetValue(o) PROVE IInv'
  BY <1>1, SetValueIInv
<1>2. ASSUME NEW o \in held, Refresh(o) PROVE IInv'
  BY <1>2, RefreshIInv
<1>3. ASSUME NEW o \in held, NEW managed \in BOOLEAN, SetManager(o, managed) PROVE IInv'
  BY <1>3, SetManagerIInv
<1>4. ASSUME NEW id \in AppIds, AddSession(id) PROVE IInv'
  BY <1>4, AddSessionIInv
<1>5. ASSUME NEW id \in Ids, DestroySession(id) PROVE IInv'
  BY <1>5, DestroySessionIInv
<1>6. ASSUME NEW c \in Clients, Request(c) PROVE IInv'
  BY <1>6, RequestIInv
<1>7. GetSession \/ Respond \/ Tick \/ UNCHANGED vars => IInv'
  BY GetSessionIInv, RespondIInv, TickIInv, StutterIInv
<1> QED  BY <1>1, <1>2, <1>3, <1>4, <1>5, <1>6, <1>7 DEF Next

LEMMA AlwaysIInv == Spec => []IInv
BY InitIInv, NextIInv, PTL DEF Spec

(* Sessions, storage, cookies and clock keep their types.                  *)
THEOREM TypeCorrect == Spec => []TypeOK
<1>1. IInv => TypeOK  BY DEF IInv
<1> QED  BY <1>1, AlwaysIInv, PTL

(* Whatever is updated, destroyed and added again, an id leads to the one  *)
(* object that has it (memory_session_storage.cpp:8-14).                   *)
THEOREM OneObjectPerId == Spec => []StoredUnderOwnId
<1>1. IInv => StoredUnderOwnId  BY DEF IInv
<1> QED  BY <1>1, AlwaysIInv, PTL

(* A session of GetSession is loadable for max_age_ unless destroyed       *)
(* (session_manager.cpp:26-33).                                            *)
THEOREM SessionsLiveTheirAge == Spec => []LivesItsAge
<1>1. ASSUME IInv, NEW o \in Objects, ByGetSession(o), o \notin destroyed,
             now <= heap[o].born + MaxAge
      PROVE  Loads(o)
  <2>1. o \in DOMAIN sessions_ /\ heap[o].born + MaxAge <= heap[o].expires
    BY <1>1 DEF IInv, Aged
  <2>2. sessions_[o] = o
    BY <1>1, <2>1, HeapFacts DEF IInv, StoredUnderOwnId
  <2>3. now \in Int /\ MaxAge \in Int /\ heap[o].born \in Int /\ heap[o].expires \in Int
    BY <1>1, HeapFacts, SessionAssumption DEF IInv, TypeOK, Sessions
  <2> QED  BY <1>1, <2>1, <2>2, <2>3 DEF Loads, IsExpired
<1>2. IInv => LivesItsAge  BY <1>1 DEF LivesItsAge
<1> QED  BY <1>2, AlwaysIInv, PTL

(* The cookie of a client is of a session made for one of its own requests,*)
(* and the first of that request (session_manager.cpp:29).                 *)
THEOREM CookiesAreOwn == Spec => []CookieIsOwn
<1>1. ASSUME IInv, NEW c \in Clients, jar[c] \in Objects
      PROVE  CookieOf(jar[c], c)
  <2>1. jar[c] \notin {NoId, OldId}
    BY <1>1, HeapFacts, SessionAssumption DEF IInv
  <2> QED  BY <1>1, <2>1 DEF IInv, Cookies
<1>2. IInv => CookieIsOwn  BY <1>1 DEF CookieIsOwn, CookieOf
<1> QED  BY <1>2, AlwaysIInv, PTL

(* A destroyed session comes back only through code that still holds it    *)
(* (session.cpp:23-30).                                                    *)
THEOREM OnlyHoldersBringBack == Spec => BackOnlyIfHeld
<1>1. ASSUME IInv, [Next]_vars, NEW i \in destroyed \cap 1 .. MaxSessions,
             i \notin DOMAIN sessions_, i \in DOMAIN sessions_'
      PROVE  \E o \in held : heap[o].id = i
  <2>1. i \in Objects
    BY <1>1 DEF IInv, DestroyedKnown
  <2>2. i # Len(heap) + 1
    BY <1>1, <2>1, HeapFacts DEF IInv
  <2>3. \A id : DOMAIN AfterLoad(id) \subseteq DOMAIN sessions_
    BY <1>1, AfterLoadKeeps
  <2>4. ASSUME NEW stored, DOMAIN stored \subseteq DOMAIN sessions_, NewSession(stored)
        PROVE  FALSE
    BY <1>1, <2>2, <2>4 DEF NewSession, GenerateSessionId, Save, With
  <2>5. CASE GetSession
    BY <1>1, <2>3, <2>4, <2>5
       DEF GetSession, GetSessionNoCookie, GetSessionFound, GetSessionNotFound, GetSessionFaults
  <2>6. ASSUME NEW o \in held, SetValue(o) PROVE heap[o].id = i
    BY <1>1, <2>6 DEF SetValue, Update, With
  <2>7. ASSUME NEW id \in AppIds, AddSession(id) PROVE FALSE
    BY <1>1, <2>7, SessionAssumption DEF AddSession, Save, With
  <2>8. CASE UNCHANGED sessions_
    BY <1>1, <2>8
  <2>9. ASSUME NEW id \in Ids, DestroySession(id) PROVE FALSE
    BY <1>1, <2>9 DEF DestroySession, Without
  <2> QED  BY <1>1, <2>5, <2>6, <2>7, <2>8, <2>9
           DEF Next, Refresh, SetManager, Request, Respond, Tick, vars
<1>2. IInv /\ [Next]_vars =>
        \A i \in destroyed \cap 1 .. MaxSessions :
          i \notin DOMAIN sessions_ /\ i \in DOMAIN sessions_' => \E o \in held : heap[o].id = i
  BY <1>1
<1> QED  BY <1>2, AlwaysIInv, PTL DEF BackOnlyIfHeld, Spec

-----------------------------------------------------------------------------
(* SessionManager implements SessionStore.                                 *)

(* The substitutions of Store.                                             *)
Stored == [i \in DOMAIN sessions_ |-> heap[sessions_[i]].expires]
Held   == {<<heap[o].id, heap[o].expires>> : o \in held}
Issued == {o \in Objects : ByGetSession(o)}

LEMMA StorageFacts ==
  ASSUME IInv
  PROVE  /\ \A i \in DOMAIN sessions_ : sessions_[i] \in Objects /\ heap[sessions_[i]].id = i
         /\ \A i : Loads(i) <=> i \in DOMAIN sessions_ /\ now <= heap[sessions_[i]].expires
         /\ DOMAIN Stored = DOMAIN sessions_ /\ held \subseteq Objects
         /\ now \in 0 .. MaxTime /\ MaxAge \in Nat /\ MaxTime \in Nat
         /\ \A o \in Objects : /\ heap[o].expires \in -1 .. MaxTime + MaxAge + 1
                               /\ heap[o].id \in 1 .. MaxSessions \cup AppIds
<1>1. /\ now \in 0 .. MaxTime /\ MaxAge \in Nat /\ MaxTime \in Nat
      /\ \A o \in Objects : /\ heap[o].expires \in -1 .. MaxTime + MaxAge + 1
                            /\ heap[o].id \in 1 .. MaxSessions \cup AppIds
  BY HeapFacts, SessionAssumption DEF IInv, TypeOK, Sessions
<1>2. /\ \A i \in DOMAIN sessions_ : sessions_[i] \in Objects /\ heap[sessions_[i]].id = i
      /\ held \subseteq Objects
  BY DEF IInv, TypeOK, StoredUnderOwnId
<1>3. DOMAIN Stored = DOMAIN sessions_
  BY DEF Stored
<1> QED  BY <1>1, <1>2, <1>3 DEF Loads, IsExpired

(* An expired entry that a Load erases is what Store!Asked forgets.        *)
LEMMA AfterLoadIsAsked ==
  ASSUME IInv, NEW id
  PROVE  [i \in DOMAIN AfterLoad(id) |-> heap[AfterLoad(id)[i]].expires] \in Store!Asked
<1>1. CASE Loads(id) \/ id \notin DOMAIN sessions_
  <2>1. /\ DOMAIN AfterLoad(id) = DOMAIN sessions_
        /\ \A i \in DOMAIN sessions_ : AfterLoad(id)[i] = sessions_[i]
    BY <1>1 DEF AfterLoad, Without
  <2>2. [i \in DOMAIN AfterLoad(id) |-> heap[AfterLoad(id)[i]].expires] = Stored
    BY <2>1 DEF Stored
  <2> QED  BY <2>2 DEF Store!Asked, Stored
<1>2. CASE ~ Loads(id) /\ id \in DOMAIN sessions_
  <2>1. AfterLoad(id) = Without(id)
    BY <1>2 DEF AfterLoad
  <2>2. [i \in DOMAIN AfterLoad(id) |-> heap[AfterLoad(id)[i]].expires] = Store!Without(Stored, id)
    BY <2>1 DEF Without, Store!Without, Stored
  <2>3. id \in DOMAIN Stored /\ ~ Store!Alive(id)
    BY <1>2, StorageFacts DEF Store!Alive, Stored
  <2> QED  BY <2>2, <2>3 DEF Store!Asked, Stored
<1> QED  BY <1>1, <1>2

LEMMA InitStore == Init => Store!Init
<1> SUFFICES ASSUME Init PROVE Store!Init  OBVIOUS
<1>1. DOMAIN sessions_ = {} /\ DOMAIN heap = {} /\ now = 0 /\ held = {}
  BY DEF Init
<1>2. Stored = <<>>
  BY <1>1 DEF Stored
<1>3. Held = {} /\ Issued = {}
  BY <1>1 DEF Held, Issued, Objects
<1> QED  BY <1>1, <1>2, <1>3 DEF Store!Init, Stored, Held, Issued

(* A new object, stored where nothing is stored, adds its time and nothing *)
(* else.                                                                   *)
LEMMA NewObjectStore ==
  ASSUME IInv, NEW n, n \notin Objects, NEW id, NEW e,
         DOMAIN heap' = Objects \cup {n}, \A o \in Objects : heap'[o] = heap[o],
         heap'[n].id = id, heap'[n].expires = e, held' = held \cup {n}
  PROVE  /\ Held' = Held \cup {<<id, e>>}
         /\ Issued' = IF id = n THEN Issued \cup {n} ELSE Issued
<1>1. held \subseteq Objects
  BY StorageFacts
<1>2. Held' = Held \cup {<<id, e>>}
  <2>1. \A o \in held : <<heap'[o].id, heap'[o].expires>> = <<heap[o].id, heap[o].expires>>
    BY <1>1
  <2>2. Held' = {<<heap'[o].id, heap'[o].expires>> : o \in held \cup {n}}
    BY DEF Held
  <2> QED  BY <2>1, <2>2 DEF Held
<1>3. Issued' = IF id = n THEN Issued \cup {n} ELSE Issued
  BY DEF Issued, ByGetSession, Objects
<1> QED  BY <1>2, <1>3

(* GetSession with a new session is Issue.                                 *)
LEMMA NewSessionStore ==
  ASSUME IInv, Handling, NEW stored, DOMAIN stored \subseteq DOMAIN sessions_,
         \A i \in DOMAIN stored : stored[i] = sessions_[i],
         [i \in DOMAIN stored |-> heap[stored[i]].expires] \in Store!Asked,
         NewSession(stored)
  PROVE  Store!Next
<1>0. PICK n \in 1 .. MaxSessions : n = Len(heap) + 1
  BY HeapFacts, SessionAssumption DEF IInv, NewSession
<1>1. /\ n \in 1 .. MaxSessions /\ n \notin Objects
      /\ heap' = Append(heap, Session(n, Expiry))
      /\ sessions_' = Save(stored, n, n) /\ held' = held \cup {n} /\ now' = now
  BY <1>0, HeapFacts DEF IInv, NewSession, GenerateSessionId
<1>2. /\ DOMAIN heap' = Objects \cup {n} /\ \A o \in Objects : heap'[o] = heap[o]
      /\ heap'[n].id = n /\ heap'[n].expires = now + MaxAge
  BY <1>0, <1>1, HeapFacts DEF IInv, TypeOK, Session, Expiry, Objects
<1>3. n \notin DOMAIN sessions_
  BY <1>1 DEF IInv, TypeOK, StoredUnderOwnId
<1> DEFINE s == [i \in DOMAIN stored |-> heap[stored[i]].expires]
<1>4. /\ DOMAIN sessions_' = DOMAIN stored \cup {n} /\ sessions_'[n] = n
      /\ \A i \in DOMAIN stored : sessions_'[i] = sessions_[i]
  BY <1>1, <1>3 DEF Save, With
<1>5. \A i \in DOMAIN stored \cup {n} :
        heap'[sessions_'[i]].expires = IF i = n THEN now + MaxAge ELSE s[i]
  BY <1>1, <1>2, <1>3, <1>4, StorageFacts
<1>6. Stored' = Store!Put(s, n, now + MaxAge)
  BY <1>4, <1>5 DEF Stored, Store!Put
<1>7. n \notin Issued /\ Issued' = Issued \cup {n}
  BY <1>1, <1>2, NewObjectStore DEF Issued
<1>8. Held' = Held \cup {<<n, now + MaxAge>>}
  BY <1>1, <1>2, NewObjectStore
<1>9. Store!Issue(n)
  BY <1>1, <1>6, <1>7, <1>8 DEF Store!Issue, Stored, Held, Issued
<1> QED  BY <1>1, <1>9 DEF Store!Next

(* Nothing that SessionStore sees has changed.                             *)
StoreSame == Stored' = Stored /\ Held' = Held /\ Issued' = Issued /\ now' = now

LEMMA GetSessionStore ==
  ASSUME IInv, GetSession
  PROVE  Store!Next
<1>1. \A id : /\ DOMAIN AfterLoad(id) \subseteq DOMAIN sessions_
              /\ \A i \in DOMAIN AfterLoad(id) : AfterLoad(id)[i] = sessions_[i]
              /\ [i \in DOMAIN AfterLoad(id) |-> heap[AfterLoad(id)[i]].expires] \in Store!Asked
  BY AfterLoadKeeps, AfterLoadIsAsked DEF AfterLoad, Without
<1>2. [i \in DOMAIN sessions_ |-> heap[sessions_[i]].expires] \in Store!Asked
  BY DEF Store!Asked, Stored
<1>3. CASE GetSessionNoCookie
  BY <1>2, <1>3, NewSessionStore DEF GetSessionNoCookie
<1>4. CASE GetSessionFound
  BY <1>2, <1>4, NewSessionStore DEF GetSessionFound
<1>5. CASE GetSessionNotFound
  BY <1>1, <1>5, NewSessionStore DEF GetSessionNotFound, NotFound
<1>6. CASE GetSessionFaults
  <2>1. sessions_' = AfterLoad(request.cookie) /\ UNCHANGED <<now, heap, held>>
    BY <1>6 DEF GetSessionFaults
  <2>2. Stored' \in Store!Asked
    <3>1. Stored' = [i \in DOMAIN sessions_' |-> heap'[sessions_'[i]].expires]
      BY DEF Stored
    <3> QED  BY <1>1, <2>1, <3>1
  <2>3. Held' = Held /\ Issued' = Issued
    BY <2>1 DEF Held, Issued, Objects, ByGetSession
  <2>4. Store!Ask
    BY <2>1, <2>2, <2>3 DEF Store!Ask, Stored, Held, Issued
  <2> QED  BY <2>4 DEF Store!Next
<1> QED  BY <1>3, <1>4, <1>5, <1>6 DEF GetSession

(* AddSession is Add, of the time that the constructor left.               *)
LEMMA AddSessionStore ==
  ASSUME IInv, NEW id \in AppIds, AddSession(id)
  PROVE  Store!Next
<1> DEFINE n == Len(heap) + 1
<1>1. PICK e \in Indeterminate : heap' = Append(heap, Session(id, e))
  BY DEF AddSession
<1>2. /\ n \notin Objects /\ n # id
      /\ sessions_' = Save(sessions_, id, n) /\ held' = held \cup {n} /\ now' = now
  BY HeapFacts, SessionAssumption DEF IInv, AddSession
<1>3. /\ DOMAIN heap' = Objects \cup {n} /\ \A o \in Objects : heap'[o] = heap[o]
      /\ heap'[n].id = id /\ heap'[n].expires = e
  BY <1>1, HeapFacts DEF IInv, TypeOK, Session, Objects
<1> HIDE DEF n
<1>4. e \in -1 .. MaxTime + MaxAge + 1
  BY SessionAssumption DEF Indeterminate
<1>5. Held' = Held \cup {<<id, e>>} /\ Issued' = Issued
  BY <1>2, <1>3, NewObjectStore
<1>6. Stored' = IF id \in DOMAIN Stored THEN Stored ELSE Store!Put(Stored, id, e)
  <2>1. CASE id \in DOMAIN sessions_
    <3>1. sessions_' = sessions_
      BY <1>2, <2>1 DEF Save
    <3>2. \A i \in DOMAIN sessions_ : heap'[sessions_[i]].expires = heap[sessions_[i]].expires
      BY <1>3, StorageFacts
    <3> QED  BY <2>1, <3>1, <3>2 DEF Stored
  <2>2. CASE id \notin DOMAIN sessions_
    <3>1. /\ DOMAIN sessions_' = DOMAIN sessions_ \cup {id} /\ sessions_'[id] = n
          /\ \A i \in DOMAIN sessions_ : sessions_'[i] = sessions_[i]
      BY <1>2, <2>2 DEF Save, With
    <3>2. \A i \in DOMAIN sessions_ \cup {id} :
            heap'[sessions_'[i]].expires = IF i = id THEN e ELSE Stored[i]
      BY <1>3, <2>2, <3>1, StorageFacts DEF Stored
    <3> QED  BY <2>2, <3>1, <3>2, StorageFacts DEF Stored, Store!Put
  <2> QED  BY <2>1, <2>2
<1>7. Store!Add(id, e)
  BY <1>2, <1>5, <1>6 DEF Store!Add, Stored, Held, Issued
<1> QED  BY <1>4, <1>7 DEF Store!Next

LEMMA SetValueStore ==
  ASSUME IInv, NEW o \in held, SetValue(o)
  PROVE  Store!Next
<1>1. o \in Objects /\ UNCHANGED <<heap, held, now>>
  BY StorageFacts DEF SetValue, Kept
<1>2. PICK id \in 1 .. MaxSessions \cup AppIds : id = heap[o].id
  BY <1>1, StorageFacts
<1>3. PICK e \in -1 .. MaxTime + MaxAge + 1 : e = heap[o].expires
  BY <1>1, StorageFacts
<1>4. /\ DOMAIN sessions_' = DOMAIN sessions_ \cup {id}
      /\ \A i \in DOMAIN sessions_' : sessions_'[i] = IF i = id THEN o ELSE sessions_[i]
  BY <1>2 DEF SetValue, Update, With
<1>5. Stored' = Store!Put(Stored, id, e)
  <2>1. \A i \in DOMAIN sessions_ \cup {id} :
          heap'[sessions_'[i]].expires = IF i = id THEN e ELSE Stored[i]
    BY <1>1, <1>3, <1>4 DEF Stored
  <2> QED  BY <1>4, <2>1, StorageFacts DEF Stored, Store!Put
<1>6. <<id, e>> \in Held /\ Held' = Held /\ Issued' = Issued
  BY <1>1, <1>2, <1>3 DEF Held, Issued, ByGetSession, Objects
<1>7. Store!Store(id, e)
  BY <1>1, <1>5, <1>6 DEF Store!Store, Stored, Held, Issued
<1> QED  BY <1>7 DEF Store!Next

(* Refresh of the object that is stored gives the entry its new time; any  *)
(* other object is not stored, and an issued id has no other.              *)
LEMMA RefreshStore ==
  ASSUME IInv, NEW o \in held, Refresh(o)
  PROVE  Store!Next
<1>1. o \in Objects /\ heap \in Seq(Sessions) /\ heap[o] \in Sessions
  BY HeapFacts DEF IInv, TypeOK
<1>2. /\ heap' = [heap EXCEPT ![o] = [heap[o] EXCEPT !.expires = Expiry]]
      /\ UNCHANGED <<sessions_, held, now>>
  BY DEF Refresh, Kept
<1>3. PICK id \in 1 .. MaxSessions \cup AppIds : id = heap[o].id
  BY <1>1, StorageFacts
<1>4. PICK e \in -1 .. MaxTime + MaxAge + 1 : e = heap[o].expires
  BY <1>1, StorageFacts
<1>5. PICK f \in Int : f = now + MaxAge
  BY StorageFacts
<1>6. /\ DOMAIN heap' = DOMAIN heap
      /\ \A p \in Objects : heap'[p].id = heap[p].id
      /\ \A p \in Objects : heap'[p].expires = IF p = o THEN f ELSE heap[p].expires
  BY <1>1, <1>2, <1>5, HeapFacts DEF IInv, Sessions, Objects, Expiry
<1>7. Issued' = Issued /\ <<id, e>> \in Held
  BY <1>3, <1>4, <1>6 DEF Held, Issued, ByGetSession, Objects
<1>8. \E others \in {Held, Held \ {<<id, e>>}} : Held' = others \cup {<<id, f>>}
  <2> DEFINE Pair(p) == <<heap[p].id, heap[p].expires>>
  <2>1. Held' = {<<heap'[p].id, heap'[p].expires>> : p \in held}
    BY <1>2 DEF Held
  <2>2. \A p \in held : <<heap'[p].id, heap'[p].expires>> = IF p = o THEN <<id, f>> ELSE Pair(p)
    BY <1>3, <1>6, StorageFacts
  <2>3. Held' = {Pair(p) : p \in held \ {o}} \cup {<<id, f>>}
    BY <2>1, <2>2
  <2>4. Held = {Pair(p) : p \in held \ {o}} \cup {<<id, e>>}
    BY <1>3, <1>4 DEF Held
  <2>5. {Pair(p) : p \in held \ {o}} \in {Held, Held \ {<<id, e>>}}
    BY <2>4
  <2> QED  BY <2>3, <2>5
<1>9. CASE id \in DOMAIN sessions_ /\ sessions_[id] = o
  <2>1. \A i \in DOMAIN sessions_ :
          heap'[sessions_'[i]].expires = IF i = id THEN f ELSE Stored[i]
    BY <1>2, <1>3, <1>6, <1>9, StorageFacts DEF Stored
  <2>2. Stored' = Store!Put(Stored, id, f) /\ id \in DOMAIN Stored /\ Stored[id] = e
    <3>1. DOMAIN Stored \cup {id} = DOMAIN sessions_
      BY <1>9, StorageFacts
    <3> QED  BY <1>2, <1>4, <1>9, <2>1, <3>1 DEF Stored, Store!Put
  <2>3. Store!Refresh(id, e)
    BY <1>2, <1>5, <1>7, <1>8, <2>2 DEF Store!Refresh, Stored, Held, Issued
  <2> QED  BY <2>3 DEF Store!Next
<1>10. CASE ~ (id \in DOMAIN sessions_ /\ sessions_[id] = o)
  <2>1. \A i \in DOMAIN sessions_ : sessions_[i] # o
    BY <1>3, <1>10, StorageFacts
  <2>2. Stored' = Stored
    BY <1>2, <1>6, <2>1, StorageFacts DEF Stored
  <2>3. id \in Issued => id \notin DOMAIN Stored
    <3> SUFFICES ASSUME id \in Issued, id \in DOMAIN sessions_ PROVE FALSE
      BY StorageFacts
    <3>1. id \in 1 .. MaxSessions
      BY HeapFacts DEF Issued, IInv
    <3> QED  BY <1>1, <1>3, <1>10, <3>1 DEF IInv, IdsOwn, ByGetSession, StoredUnderOwnId
  <2>4. Store!Refresh(id, e)
    BY <1>2, <1>5, <1>7, <1>8, <2>2, <2>3 DEF Store!Refresh, Stored, Held, Issued
  <2> QED  BY <2>4 DEF Store!Next
<1> QED  BY <1>9, <1>10

LEMMA SetManagerStore ==
  ASSUME IInv, NEW o \in held, NEW managed \in BOOLEAN, SetManager(o, managed)
  PROVE  StoreSame
<1>1. o \in Objects /\ heap[o] \in Sessions
  BY HeapFacts DEF IInv, TypeOK
<1>2. /\ heap' = [heap EXCEPT ![o] = [heap[o] EXCEPT !.managed = managed]]
      /\ UNCHANGED <<sessions_, held, now>>
  BY DEF SetManager, Kept
<1>3. /\ DOMAIN heap' = DOMAIN heap
      /\ \A p \in Objects : heap'[p].id = heap[p].id /\ heap'[p].expires = heap[p].expires
  BY <1>1, <1>2, HeapFacts DEF IInv, Sessions, Objects
<1>4. Held' = Held /\ Issued' = Issued
  BY <1>2, <1>3, StorageFacts DEF Held, Issued, ByGetSession, Objects
<1>5. Stored' = Stored
  BY <1>2, <1>3, StorageFacts DEF Stored
<1> QED  BY <1>2, <1>4, <1>5 DEF StoreSame

LEMMA DestroySessionStore ==
  ASSUME IInv, NEW id \in Ids, DestroySession(id)
  PROVE  Store!Next
<1>1. id \in DOMAIN sessions_ /\ sessions_' = Without(id) /\ UNCHANGED <<heap, held, now>>
  BY DEF DestroySession
<1>2. id \in 1 .. MaxSessions \cup AppIds
  BY <1>1, StorageFacts
<1>3. Stored' = Store!Without(Stored, id)
  BY <1>1 DEF Stored, Without, Store!Without
<1>4. Held' = Held /\ Issued' = Issued
  BY <1>1 DEF Held, Issued, ByGetSession, Objects
<1>5. Store!Destroy(id)
  BY <1>1, <1>3, <1>4 DEF Store!Destroy, Stored, Held, Issued
<1> QED  BY <1>2, <1>5 DEF Store!Next

LEMMA RespondStore ==
  ASSUME IInv, Respond
  PROVE  Store!Next
<1>1. held' \in {held, {}} /\ UNCHANGED <<now, heap, sessions_>>
  BY DEF Respond
<1>2. Held' \in {Held, {}}
  BY <1>1 DEF Held
<1>3. Stored' = Stored /\ Issued' = Issued
  BY <1>1 DEF Stored, Issued, ByGetSession, Objects
<1>4. Store!Drop
  BY <1>1, <1>2, <1>3 DEF Store!Drop, Stored, Held, Issued
<1> QED  BY <1>4 DEF Store!Next

LEMMA NextStore == IInv /\ [Next]_vars => [Store!Next]_Store!vars
<1> SUFFICES ASSUME IInv, [Next]_vars PROVE Store!Next \/ UNCHANGED Store!vars  OBVIOUS
<1>1. StoreSame => UNCHANGED Store!vars
  BY DEF StoreSame, Store!vars, Stored, Held, Issued
<1>2. CASE GetSession
  BY <1>2, GetSessionStore
<1>3. ASSUME NEW o \in held, SetValue(o) PROVE Store!Next
  BY <1>3, SetValueStore
<1>4. ASSUME NEW o \in held, Refresh(o) PROVE Store!Next
  BY <1>4, RefreshStore
<1>5. ASSUME NEW o \in held, NEW managed \in BOOLEAN, SetManager(o, managed) PROVE StoreSame
  BY <1>5, SetManagerStore
<1>6. ASSUME NEW id \in AppIds, AddSession(id) PROVE Store!Next
  BY <1>6, AddSessionStore
<1>7. ASSUME NEW id \in Ids, DestroySession(id) PROVE Store!Next
  BY <1>7, DestroySessionStore
<1>8. CASE Respond
  BY <1>8, RespondStore
<1>9. ASSUME UNCHANGED <<heap, sessions_, held>>
      PROVE  Stored' = Stored /\ Held' = Held /\ Issued' = Issued
  BY <1>9 DEF Stored, Held, Issued, ByGetSession, Objects
<1>10. CASE Tick
  <2>1. Store!Tick
    BY <1>9, <1>10 DEF Tick, Store!Tick, Stored, Held, Issued
  <2> QED  BY <2>1 DEF Store!Next
<1>11. ASSUME NEW c \in Clients, Request(c) PROVE StoreSame
  BY <1>9, <1>11 DEF Request, StoreSame
<1>12. CASE UNCHANGED vars
  BY <1>1, <1>9, <1>12 DEF vars, StoreSame
<1> QED  BY <1>1, <1>2, <1>3, <1>4, <1>5, <1>6, <1>7, <1>8, <1>10, <1>11, <1>12 DEF Next

(* What a server does with its sessions is what SessionStore allows        *)
(* (memory_session_storage.cpp:8-37, session_manager.cpp:15-38): an entry  *)
(* that is alive is forgotten by DestroySession alone, its time is changed *)
(* by holders alone, and a session added behind an expired entry of its id *)
(* is not stored.                                                          *)
THEOREM StoreRefinement == Spec => ImplementsStore
BY InitStore, NextStore, AlwaysIInv, PTL DEF Spec, ImplementsStore, Store!Spec

=============================================================================
