----------------------------- MODULE SslProofs ------------------------------
(***************************************************************************)
(* Proofs about Ssl, for every set of connections, every set of values the *)
(* setters may be called with, and every bound.                            *)
(*                                                                         *)
(* NoRawBytesWithSsl needs EntryPerConnection, and Fresh: the parser of a  *)
(* connection that is to come has been given nothing.                      *)
(***************************************************************************)
EXTENDS Ssl, TLAPS

Fresh == \A c \in Connections : conn[c] = "new" => parsed[c] = {}

IInv == TypeOK /\ Fresh /\ EntryPerConnection /\ NoRawBytesWithSsl /\ RunsWithOwnKey

-----------------------------------------------------------------------------
(* What OnRead leaves behind is an SslConnection of the same context.      *)
LEMMA OnReadType ==
  ASSUME NEW s \in [context : 0 .. MaxContexts, state : SslStates, decrypted : 0 .. MaxDecrypted],
         NEW t \in OnRead(s)
  PROVE  /\ t \in [context : 0 .. MaxContexts, state : SslStates, decrypted : 0 .. MaxDecrypted]
         /\ t.context = s.context
<1>1. StatesAfter(s.state) \subseteq SslStates
  BY DEF StatesAfter, SslStates
<1>2. s.decrypted .. MaxDecrypted \subseteq 0 .. MaxDecrypted
  BY SslAssumption
<1> QED  BY <1>1, <1>2 DEF OnRead

(* A context that Init accepted shows a certificate that was loaded, with  *)
(* the key that fits, unless a chain file replaced that certificate.       *)
LEMMA InitMakesComplete ==
  ASSUME NEW c, NEW created \in BOOLEAN, ContextInit(c, created)
  PROVE  /\ Loads(SslContext(c).certificate)
         /\ SslContext(c).key # SslContext(c).certificate =>
              /\ SslContext(c).key = NoFile
              /\ SslContext(c).certificate = SslContext(c).chain
<1>1. Loads(c.certificate_file) /\ c.private_key_file = c.certificate_file
  BY DEF ContextInit, LoadCertificates, CheckPrivateKey
<1>2. c.certificate_chain_file # NoFile => Loads(c.certificate_chain_file)
  BY DEF ContextInit, LoadCertificates
<1>3. /\ SslContext(c).certificate = Shown(c)
      /\ SslContext(c).chain = c.certificate_chain_file
      /\ SslContext(c).key = IF c.private_key_file = Shown(c) THEN Shown(c) ELSE NoFile
  BY DEF SslContext
<1>4. CASE c.certificate_chain_file = NoFile
  BY <1>1, <1>3, <1>4 DEF Shown
<1>5. CASE c.certificate_chain_file # NoFile
  BY <1>2, <1>3, <1>5 DEF Shown
<1> QED  BY <1>4, <1>5

LEMMA InitIInv == Init => IInv
<1> SUFFICES ASSUME Init PROVE IInv  OBVIOUS
<1> USE SslAssumption DEF Init
<1>1. TypeOK
  <2>1. context.loaded <=> (ssl_context_ # 0)
    BY DEF NoContext
  <2>2. \A f \in DOMAIN config :
          config[f] \in {SslConfig[f]} \cup IF f \in DOMAIN Settings THEN Settings[f] ELSE {}
    OBVIOUS
  <2>3. DOMAIN ssl_connections_ = {}
    OBVIOUS
  <2>4. /\ conn \in [Connections -> {"new", "up", "down"}]
        /\ parsed \in [Connections -> SUBSET {"raw", "decrypted"}]
    OBVIOUS
  <2>5. DOMAIN config = DOMAIN SslConfig
    BY Zenon
  <2>6. ssl_context_ \in 0 .. MaxContexts
    OBVIOUS
  <2>7. started \in BOOLEAN /\ terminated \in BOOLEAN /\ use_ssl_ \in BOOLEAN
    BY Zenon
  <2>8. switched \subseteq Connections
    OBVIOUS
  <2> QED  BY <2>1, <2>2, <2>3, <2>4, <2>5, <2>6, <2>7, <2>8, Zenon DEF TypeOK
<1>2. Fresh /\ RunsWithOwnKey
  BY DEF Fresh, RunsWithOwnKey, NoContext
<1>3. EntryPerConnection /\ NoRawBytesWithSsl
  BY DEF EntryPerConnection, NoRawBytesWithSsl, Up
<1> QED  BY <1>1, <1>2, <1>3 DEF IInv

-----------------------------------------------------------------------------
(* Steps of the configuration.                                             *)

(* Steps that leave use_ssl_ and the connections alone.                    *)
LEMMA SameConnections ==
  ASSUME IInv, UNCHANGED <<use_ssl_, network, switched>>
  PROVE  Fresh' /\ EntryPerConnection' /\ NoRawBytesWithSsl'
BY DEF IInv, Fresh, EntryPerConnection, NoRawBytesWithSsl, Up, network

LEMMA SetIInv ==
  ASSUME IInv, NEW field \in DOMAIN Settings, NEW value \in Settings[field], Set(field, value)
  PROVE  IInv'
<1>1. TypeOK'
  BY SslAssumption DEF IInv, TypeOK, Set, server, network
<1>2. RunsWithOwnKey'
  BY DEF IInv, RunsWithOwnKey, Set, server
<1>3. UNCHANGED <<use_ssl_, network, switched>>
  BY DEF Set, server
<1> QED  BY <1>1, <1>2, <1>3, SameConnections DEF IInv

(* A connection that is up is switched with use_ssl_; one that is not has  *)
(* no entry, whatever use_ssl_ is.                                         *)
LEMMA EnableSslIInv ==
  ASSUME IInv, NEW enable \in BOOLEAN, EnableSsl(enable)
  PROVE  IInv'
<1> USE DEF IInv, EnableSsl, network
<1>1. TypeOK'
  BY DEF TypeOK, Up
<1>2. Fresh' /\ RunsWithOwnKey'
  BY DEF Fresh, RunsWithOwnKey
<1>3. CASE enable = use_ssl_
  BY <1>1, <1>2, <1>3, SameConnections
<1>4. CASE enable # use_ssl_
  <2>1. Up' = Up /\ Up \subseteq switched' /\ switched \subseteq switched'
    BY <1>4 DEF Up
  <2>2. EntryPerConnection' /\ NoRawBytesWithSsl'
    BY <2>1 DEF EntryPerConnection, NoRawBytesWithSsl
  <2> QED  BY <1>1, <1>2, <2>2
<1> QED  BY <1>3, <1>4

LEMMA SetSslConfigIInv ==
  ASSUME IInv, SetSslConfig
  PROVE  IInv'
<1>1. SslContext(config).loaded = TRUE
  BY DEF SslContext
<1>2. TypeOK'
  BY <1>1, SslAssumption DEF IInv, TypeOK, SetSslConfig, MakeContext, network
<1>3. PICK created \in BOOLEAN : terminated' = ~ ContextInit(config, created)
  BY DEF SetSslConfig
<1>4. RunsWithOwnKey'
  <2>1. CASE terminated'
    BY <2>1 DEF RunsWithOwnKey
  <2>2. CASE ~ terminated'
    <3>1. ContextInit(config, created)
      BY <1>3, <2>2
    <3> QED  BY <3>1, InitMakesComplete DEF RunsWithOwnKey, SetSslConfig, MakeContext
  <2> QED  BY <2>1, <2>2
<1>5. UNCHANGED <<use_ssl_, network, switched>>
  BY DEF SetSslConfig
<1> QED  BY <1>2, <1>4, <1>5, SameConnections DEF IInv

LEMMA StartIInv ==
  ASSUME IInv, Start
  PROVE  IInv'
<1>1. TypeOK' /\ RunsWithOwnKey'
  BY DEF IInv, TypeOK, RunsWithOwnKey, Start, server, network
<1>2. UNCHANGED <<use_ssl_, network, switched>>
  BY DEF Start, server
<1> QED  BY <1>1, <1>2, SameConnections DEF IInv

-----------------------------------------------------------------------------
(* Steps of the network.                                                   *)

LEMMA OnConnectionUpIInv ==
  ASSUME IInv, NEW c \in Connections, OnConnectionUp(c)
  PROVE  IInv'
<1> USE DEF IInv, OnConnectionUp, settings, server
<1>1. SslConnection \in [context : 0 .. MaxContexts, state : SslStates, decrypted : 0 .. MaxDecrypted]
  BY SslAssumption DEF TypeOK, SslConnection, SslStates
<1>2. /\ DOMAIN Attach(c) = DOMAIN ssl_connections_ \cup {c}
      /\ \A d \in DOMAIN Attach(c) :
           Attach(c)[d] = IF d = c THEN SslConnection ELSE ssl_connections_[d]
  BY DEF Attach, Insert
<1>3. TypeOK' /\ RunsWithOwnKey'
  BY <1>1, <1>2 DEF TypeOK, RunsWithOwnKey
<1>4. Up' = Up \cup {c} /\ c \notin Up
  BY DEF TypeOK, Up
<1>5. EntryPerConnection'
  BY <1>2, <1>4 DEF EntryPerConnection, TypeOK
<1>6. Fresh' /\ NoRawBytesWithSsl'
  BY <1>4 DEF Fresh, NoRawBytesWithSsl, TypeOK
<1> QED  BY <1>3, <1>5, <1>6

LEMMA OnConnectionDownIInv ==
  ASSUME IInv, NEW c \in Connections, OnConnectionDown(c)
  PROVE  IInv'
<1> USE DEF IInv, OnConnectionDown, settings, server
<1>1. /\ DOMAIN Erase(c) = DOMAIN ssl_connections_ \ {c}
      /\ \A d \in DOMAIN Erase(c) : Erase(c)[d] = ssl_connections_[d]
  BY DEF Erase
<1>2. TypeOK' /\ RunsWithOwnKey'
  BY <1>1 DEF TypeOK, RunsWithOwnKey
<1>3. Up' = Up \ {c} /\ c \in Up
  BY DEF TypeOK, Up
<1>4. EntryPerConnection'
  BY <1>1, <1>3 DEF EntryPerConnection, TypeOK
<1>5. Fresh' /\ NoRawBytesWithSsl'
  BY <1>3 DEF Fresh, NoRawBytesWithSsl, TypeOK
<1> QED  BY <1>2, <1>4, <1>5

(* A connection that was not switched has its SslConnection when use_ssl_  *)
(* is true: the plain branch serves it only without SSL.                   *)
LEMMA OnMessagePlainIInv ==
  ASSUME IInv, NEW c \in Connections, OnMessagePlain(c)
  PROVE  IInv'
<1> USE DEF IInv, OnMessagePlain, Parsed, settings, server
<1>1. c \notin switched => ~ use_ssl_
  BY DEF EntryPerConnection, Up
<1>2. TypeOK' /\ RunsWithOwnKey'
  BY DEF TypeOK, RunsWithOwnKey
<1>3. EntryPerConnection'
  BY DEF EntryPerConnection, Up
<1>4. Fresh' /\ NoRawBytesWithSsl'
  BY <1>1 DEF Fresh, NoRawBytesWithSsl, Up, TypeOK
<1> QED  BY <1>2, <1>3, <1>4

(* What both other branches of OnMessage do to the map.                    *)
LEMMA SslConnectionChanged ==
  ASSUME IInv, UNCHANGED <<settings, conn, switched>>,
         NEW c \in DOMAIN ssl_connections_, NEW t,
         t \in [context : 0 .. MaxContexts, state : SslStates, decrypted : 0 .. MaxDecrypted],
         ssl_connections_' = [ssl_connections_ EXCEPT ![c] = t],
         parsed' \in [Connections -> SUBSET {"raw", "decrypted"}],
         \A d \in Connections : "raw" \in parsed'[d] => "raw" \in parsed[d],
         \A d \in Connections : conn[d] = "new" => parsed'[d] = parsed[d]
  PROVE  IInv'
<1> USE DEF IInv, settings, server
<1>1. TypeOK' /\ RunsWithOwnKey'
  BY DEF TypeOK, RunsWithOwnKey
<1>2. EntryPerConnection' /\ NoRawBytesWithSsl'
  BY DEF EntryPerConnection, NoRawBytesWithSsl, Up
<1>3. Fresh'
  BY DEF Fresh
<1> QED  BY <1>1, <1>2, <1>3

LEMMA OnMessageReturnsIInv ==
  ASSUME IInv, NEW c \in Connections, OnMessageReturns(c)
  PROVE  IInv'
<1>1. c \in DOMAIN ssl_connections_
  BY DEF OnMessageReturns
<1>2. PICK s \in OnRead(ssl_connections_[c]) :
        ssl_connections_' = [ssl_connections_ EXCEPT ![c] = s]
  BY DEF OnMessageReturns
<1>3. s \in [context : 0 .. MaxContexts, state : SslStates, decrypted : 0 .. MaxDecrypted]
  BY <1>1, OnReadType DEF IInv, TypeOK
<1> QED  BY <1>1, <1>2, <1>3, SslConnectionChanged DEF IInv, TypeOK, OnMessageReturns

LEMMA OnMessageDecryptedIInv ==
  ASSUME IInv, NEW c \in Connections, OnMessageDecrypted(c)
  PROVE  IInv'
<1>1. c \in DOMAIN ssl_connections_
  BY DEF OnMessageDecrypted
<1>2. PICK s \in OnRead(ssl_connections_[c]) :
        \E n \in 0 .. s.decrypted :
          ssl_connections_' = [ssl_connections_ EXCEPT ![c] = [s EXCEPT !.decrypted = n]]
  BY DEF OnMessageDecrypted
<1>3. s \in [context : 0 .. MaxContexts, state : SslStates, decrypted : 0 .. MaxDecrypted]
  BY <1>1, OnReadType DEF IInv, TypeOK
<1>4. PICK n \in 0 .. s.decrypted :
        ssl_connections_' = [ssl_connections_ EXCEPT ![c] = [s EXCEPT !.decrypted = n]]
  BY <1>2
<1>5. n \in 0 .. MaxDecrypted
  BY <1>3, SslAssumption
<1>6. [s EXCEPT !.decrypted = n] \in
        [context : 0 .. MaxContexts, state : SslStates, decrypted : 0 .. MaxDecrypted]
  BY <1>3, <1>5
<1>7. /\ parsed' \in [Connections -> SUBSET {"raw", "decrypted"}]
      /\ \A d \in Connections : "raw" \in parsed'[d] => "raw" \in parsed[d]
      /\ \A d \in Connections : conn[d] = "new" => parsed'[d] = parsed[d]
  BY DEF IInv, TypeOK, OnMessageDecrypted, Parsed
<1> QED  BY <1>1, <1>4, <1>6, <1>7, SslConnectionChanged DEF OnMessageDecrypted

-----------------------------------------------------------------------------

LEMMA NextIInv == IInv /\ [Next]_vars => IInv'
<1> SUFFICES ASSUME IInv, [Next]_vars PROVE IInv'  OBVIOUS
<1>1. CASE \E enable \in BOOLEAN : EnableSsl(enable)
  BY <1>1, EnableSslIInv
<1>2. CASE \E field \in DOMAIN Settings : \E value \in Settings[field] : Set(field, value)
  BY <1>2, SetIInv
<1>3. CASE SetSslConfig
  BY <1>3, SetSslConfigIInv
<1>4. CASE Start
  BY <1>4, StartIInv
<1>5. CASE \E c \in Connections : OnConnectionUp(c) \/ OnConnectionDown(c)
  BY <1>5, OnConnectionUpIInv, OnConnectionDownIInv
<1>6. CASE \E c \in Connections : OnMessagePlain(c) \/ OnMessageReturns(c) \/ OnMessageDecrypted(c)
  BY <1>6, OnMessagePlainIInv, OnMessageReturnsIInv, OnMessageDecryptedIInv
<1>7. CASE UNCHANGED vars
  <2> USE <1>7 DEF vars, settings, server, network
  <2>1. TypeOK' /\ RunsWithOwnKey'
    BY DEF IInv, TypeOK, RunsWithOwnKey
  <2>2. Fresh' /\ EntryPerConnection' /\ NoRawBytesWithSsl'
    BY SameConnections
  <2> QED  BY <2>1, <2>2 DEF IInv
<1> QED  BY <1>1, <1>2, <1>3, <1>4, <1>5, <1>6, <1>7 DEF Next

LEMMA AlwaysIInv == Spec => []IInv
BY InitIInv, NextIInv, PTL DEF Spec

(* The SSL state keeps its types; a context is owned exactly when one was  *)
(* built (http_server.cpp:68-78).                                          *)
THEOREM TypeCorrect == Spec => []TypeOK
<1>1. IInv => TypeOK  BY DEF IInv
<1> QED  BY <1>1, AlwaysIInv, PTL

(* Whatever the order of configuration calls, connections and read events, *)
(* also when the server is reconfigured while connections are up, a        *)
(* connection has its entry while it is up on a server with SSL, unless    *)
(* use_ssl_ was changed during its own life (http_server.cpp:68, 83-97).   *)
THEOREM OneEntryPerConnection == Spec => []EntryPerConnection
<1>1. IInv => EntryPerConnection  BY DEF IInv
<1> QED  BY <1>1, AlwaysIInv, PTL

(* A server with SSL never parses bytes as they came from the network, but *)
(* for a connection under which use_ssl_ was changed                       *)
(* (http_server.cpp:103-130).                                              *)
THEOREM OnlyDecryptedBytes == Spec => []NoRawBytesWithSsl
<1>1. IInv => NoRawBytesWithSsl  BY DEF IInv
<1> QED  BY <1>1, AlwaysIInv, PTL

(* A process that lives shows a loaded certificate with the key that fits  *)
(* it, but for the chain file, whatever contexts it had before             *)
(* (ssl_context.cpp:55-85).                                                *)
THEOREM KeyFits == Spec => []RunsWithOwnKey
<1>1. IInv => RunsWithOwnKey  BY DEF IInv
<1> QED  BY <1>1, AlwaysIInv, PTL

=============================================================================
