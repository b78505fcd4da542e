---------------------------- MODULE SessionStore ----------------------------
(***************************************************************************)
(* What the sessions of a server promise, without objects, requests or     *)
(* cookies.  A session is stored under its id with its expiration time,    *)
(* and is alive while that time has not passed.  An id is drawn once; only *)
(* who holds a session can change its time or bring it back; what happens  *)
(* to one session leaves the others alone; and of a session that is alive  *)
(* nothing is forgotten but by Destroy.                                    *)
(*                                                                         *)
(* When a session's time is over it stays stored until a request asks for  *)
(* it.  Two operations can tell: Add has no effect while an expired entry  *)
(* of its id is stored, however long the new session should live, and      *)
(* Refresh brings an expired session back if it is still stored.           *)
(***************************************************************************)
EXTENDS Integers

CONSTANTS
  IssuedIds,     \* ids the server may draw
  AppIds,        \* ids of the application's own sessions
  MaxAge,        \* the age a session is given
  Times          \* expiration times that a session may have

VARIABLES
  now,       \* the time
  stored,    \* the sessions stored: id |-> expiration time
  held,      \* the sessions the application holds: id and expiration time
  issued     \* ids drawn so far

vars == <<now, stored, held, issued>>

Init == now = 0 /\ stored = <<>> /\ held = {} /\ issued = {}

Without(s, id) == [i \in DOMAIN s \ {id} |-> s[i]]

Put(s, id, e) == [i \in DOMAIN s \cup {id} |-> IF i = id THEN e ELSE s[i]]

Alive(id) == id \in DOMAIN stored /\ now <= stored[id]

(* What is stored once some id has been asked for.                         *)
Asked == {stored} \cup {Without(stored, id) : id \in {i \in DOMAIN stored : ~ Alive(i)}}

(* A request asks for the id of its cookie and is given a new session.     *)
Issue(id) ==
  /\ id \notin issued
  /\ issued' = issued \cup {id}
  /\ held' = held \cup {<<id, now + MaxAge>>}
  /\ \E s \in Asked : stored' = Put(s, id, now + MaxAge)
  /\ UNCHANGED now

(* A request that is given none.                                           *)
Ask ==
  /\ stored' \in Asked
  /\ UNCHANGED <<now, held, issued>>

(* A new session of the application's; one that is stored stays.           *)
Add(id, e) ==
  /\ held' = held \cup {<<id, e>>}
  /\ stored' = IF id \in DOMAIN stored THEN stored ELSE Put(stored, id, e)
  /\ UNCHANGED <<now, issued>>

(* A holder stores its session.                                            *)
Store(id, e) ==
  /\ <<id, e>> \in held
  /\ stored' = Put(stored, id, e)
  /\ UNCHANGED <<now, held, issued>>

(* A holder refreshes its session: the one stored, or, for an id of the    *)
(* application's, another one of that id.                                  *)
Refresh(id, e) ==
  /\ <<id, e>> \in held
  /\ \E others \in {held, held \ {<<id, e>>}} : held' = others \cup {<<id, now + MaxAge>>}
  /\ \/ /\ id \in DOMAIN stored /\ stored[id] = e
        /\ stored' = Put(stored, id, now + MaxAge)
     \/ /\ id \in issued => id \notin DOMAIN stored
        /\ UNCHANGED stored
  /\ UNCHANGED <<now, issued>>

Drop ==
  /\ held' \in {held, {}}
  /\ UNCHANGED <<now, stored, issued>>

Destroy(id) ==
  /\ stored' = Without(stored, id)
  /\ UNCHANGED <<now, held, issued>>

Tick ==
  /\ now' = now + 1
  /\ UNCHANGED <<stored, held, issued>>

Next ==
  \/ \E id \in IssuedIds : Issue(id)
  \/ Ask
  \/ \E id \in AppIds, e \in Times : Add(id, e)
  \/ \E id \in IssuedIds \cup AppIds :
       \/ Destroy(id)
       \/ \E e \in Times : Store(id, e) \/ Refresh(id, e)
  \/ Drop
  \/ Tick

Spec == Init /\ [][Next]_vars

=============================================================================
