-------------------------------- MODULE Ssl ---------------------------------
(***************************************************************************)
(* The SSL side of HttpServer: SslConfig and its setters, EnableSsl,       *)
(* SetSslConfig, SslContext::Init, and the branches under use_ssl_ of      *)
(* OnConnection and OnMessage.                                             *)
(*                                                                         *)
(* The server may be configured before Start and, by a handler that has    *)
(* the server, while connections are up: nothing in EnableSsl and          *)
(* SetSslConfig asks.  SslConnection is only declared in the repository;   *)
(* its OnRead is external: it moves the handshake and fills the decrypted  *)
(* buffer.  What OnMessage does behind the choice of the buffer is in      *)
(* module HttpServer, here it is a mark that the parser was given bytes.   *)
(***************************************************************************)
EXTENDS Integers

CONSTANTS
  Connections,    \* TcpConnections
  Settings,       \* field of SslConfig |-> values its setter is called with
  Unreadable,     \* what a certificate or key file that does not load has
  NoFile,         \* an empty file name
  NoMatch,        \* a cipher list that OpenSSL refuses
  MaxContexts,    \* bound on the contexts built
  MaxDecrypted    \* bound on the bytes in a decrypted buffer

VersionsOfTLS == {"TLS_1_0", "TLS_1_1", "TLS_1_2", "TLS_1_3"}

(* The constructor of SslConfig.  Files are named by the certificate in    *)
(* them, or that they are the key of.                                      *)
SslConfig ==
  [certificate_file |-> NoFile, private_key_file |-> NoFile,
   certificate_chain_file |-> NoFile,
   version |-> "TLS_1_2", cipher_list |-> "HIGH:!aNULL:!MD5",
   verify_client |-> FALSE, verify_depth |-> 1,
   session_timeout |-> 300, session_cache_size |-> 1024 * 1024]

ASSUME SslAssumption ==
  /\ MaxContexts \in Nat /\ MaxDecrypted \in Nat
  /\ DOMAIN Settings \subseteq DOMAIN SslConfig
  /\ "version" \in DOMAIN Settings => Settings["version"] \subseteq VersionsOfTLS
  /\ NoFile # Unreadable

VARIABLES
  started,            \* Start has been called
  terminated,         \* std::terminate has been called
  config,             \* the application's SslConfig
  use_ssl_,
  ssl_context_,       \* the context it owns: its number, 0 for nullptr
  context,            \* what that context was made of
  conn,               \* the state of each TcpConnection
  ssl_connections_,   \* connection |-> its SslConnection
  parsed,             \* history: the buffers given to a connection's parser
  switched            \* history: the connections during whose life EnableSsl
                      \* has changed use_ssl_

server   == <<use_ssl_, ssl_context_, context>>
settings == <<started, terminated, config, server>>
network  == <<conn, ssl_connections_, parsed>>
vars     == <<settings, network, switched>>

NoContext == [loaded |-> FALSE]

Init ==
  /\ started = FALSE /\ terminated = FALSE
  /\ config = SslConfig
  /\ use_ssl_ \in BOOLEAN
  /\ ssl_context_ = 0 /\ context = NoContext
  /\ conn = [c \in Connections |-> "new"]
  /\ ssl_connections_ = <<>>
  /\ parsed = [c \in Connections |-> {}]
  /\ switched = {}

-----------------------------------------------------------------------------
(* SslContext.                                                             *)

Loads(file) == file \notin {NoFile, Unreadable}

(* Mutant: the key is not compared with the certificate.                   *)
AnyKey(c) == TRUE

CheckPrivateKey(c) == c.private_key_file = c.certificate_file

LoadCertificates(c) ==
  /\ Loads(c.certificate_file) /\ Loads(c.private_key_file)
  /\ CheckPrivateKey(c)
  /\ c.certificate_chain_file # NoFile => Loads(c.certificate_chain_file)

(* SSL_OP_NO_TLSv1_x of the configured version.                            *)
EnabledVersions(c) == VersionsOfTLS \ {c.version}

(* An empty cipher list is not set.                                        *)
SetupProtocol(c) == c.cipher_list # NoMatch

(* created: whether SSL_CTX_new succeeds.                                  *)
ContextInit(c, created) == created /\ LoadCertificates(c) /\ SetupProtocol(c)

(* The first certificate of a chain file replaces the one loaded before,   *)
(* and OpenSSL drops a key that does not fit the new one.                  *)
Shown(c) ==
  IF c.certificate_chain_file = NoFile THEN c.certificate_file ELSE c.certificate_chain_file

SetupSessionCache(c) == [size |-> c.session_cache_size, timeout |-> c.session_timeout]

SslContext(c) ==
  [loaded |-> TRUE, certificate |-> Shown(c),
   key |-> IF c.private_key_file = Shown(c) THEN Shown(c) ELSE NoFile,
   chain |-> c.certificate_chain_file, version |-> c.version,
   enabled |-> EnabledVersions(c),
   cache |-> SetupSessionCache(c)]

-----------------------------------------------------------------------------
(* Configuration: the setters of SslConfig, EnableSsl, SetSslConfig.       *)

Up == {c \in Connections : conn[c] = "up"}

Set(field, value) ==
  /\ ~ terminated
  /\ config' = [config EXCEPT ![field] = value]
  /\ UNCHANGED <<started, terminated, server, network, switched>>

EnableSsl(enable) ==
  /\ ~ terminated
  /\ use_ssl_' = enable
  /\ switched' = IF enable = use_ssl_ THEN switched ELSE switched \cup Up
  /\ UNCHANGED <<started, terminated, config, ssl_context_, context, network>>

(* Mutant: the old context stays.                                          *)
ContextOnce(c) ==
  /\ ssl_context_' = ssl_context_ + 1
  /\ context' = IF ssl_context_ = 0 THEN SslContext(c) ELSE NoContext

MakeContext(c) ==
  /\ ssl_context_' = ssl_context_ + 1
  /\ context' = SslContext(c)

(* Without use_ssl_ the call does nothing; when Init fails the process     *)
(* terminates.                                                             *)
SetSslConfig ==
  /\ ~ terminated /\ use_ssl_ /\ ssl_context_ < MaxContexts
  /\ MakeContext(config)
  /\ \E created \in BOOLEAN : terminated' = ~ ContextInit(config, created)
  /\ UNCHANGED <<started, config, use_ssl_, network, switched>>

Start ==
  /\ ~ terminated /\ ~ started
  /\ started' = TRUE
  /\ UNCHANGED <<terminated, config, server, network, switched>>

-----------------------------------------------------------------------------
(* OnConnection.                                                           *)

SslConnection == [context |-> ssl_context_, state |-> "HANDSHAKE", decrypted |-> 0]

Insert(c) ==
  [d \in DOMAIN ssl_connections_ \cup {c} |->
     IF d = c THEN SslConnection ELSE ssl_connections_[d]]

(* Mutants: nothing is erased; no SslConnection without a context.         *)
EraseNothing(c) == ssl_connections_
InsertChecked(c) == IF ssl_context_ = 0 THEN ssl_connections_ ELSE Insert(c)

Erase(c) == [d \in DOMAIN ssl_connections_ \ {c} |-> ssl_connections_[d]]

Attach(c) == Insert(c)

OnConnectionUp(c) ==
  /\ started /\ ~ terminated /\ conn[c] = "new"
  /\ conn' = [conn EXCEPT ![c] = "up"]
  /\ ssl_connections_' = IF use_ssl_ THEN Attach(c) ELSE ssl_connections_
  /\ UNCHANGED <<settings, parsed, switched>>

OnConnectionDown(c) ==
  /\ ~ terminated /\ conn[c] = "up"
  /\ conn' = [conn EXCEPT ![c] = "down"]
  /\ ssl_connections_' = IF use_ssl_ THEN Erase(c) ELSE ssl_connections_
  /\ UNCHANGED <<settings, parsed, switched>>

-----------------------------------------------------------------------------
(* OnMessage.                                                              *)

SslStates == {"HANDSHAKE", "ESTABLISHED", "SHUTDOWN", "ERROR"}

(* SslConnection::OnRead: the states a connection may be in afterwards.    *)
StatesAfter(state) ==
  CASE state = "HANDSHAKE"   -> {"HANDSHAKE", "ESTABLISHED", "ERROR"}
    [] state = "ESTABLISHED" -> {"ESTABLISHED", "SHUTDOWN", "ERROR"}
    [] OTHER                 -> {state}

OnRead(s) ==
  [context : {s.context}, state : StatesAfter(s.state),
   decrypted : s.decrypted .. MaxDecrypted]

IsHandshakeCompleted(s) == s.state = "ESTABLISHED"

Parsed(c, buffer) == parsed' = [parsed EXCEPT ![c] = @ \cup {buffer}]

OnMessagePlain(c) ==
  /\ ~ terminated /\ conn[c] = "up"
  /\ ~ (use_ssl_ /\ c \in DOMAIN ssl_connections_)
  /\ Parsed(c, "raw")
  /\ UNCHANGED <<settings, conn, ssl_connections_, switched>>

(* The handshake is not completed, or nothing has been decrypted.          *)
OnMessageReturns(c) ==
  /\ ~ terminated /\ conn[c] = "up" /\ use_ssl_ /\ c \in DOMAIN ssl_connections_
  /\ \E s \in OnRead(ssl_connections_[c]) :
       /\ ~ IsHandshakeCompleted(s) \/ s.decrypted = 0
       /\ ssl_connections_' = [ssl_connections_ EXCEPT ![c] = s]
  /\ UNCHANGED <<settings, conn, parsed, switched>>

(* The parser takes what it wants of the decrypted bytes.                  *)
OnMessageDecrypted(c) ==
  /\ ~ terminated /\ conn[c] = "up" /\ use_ssl_ /\ c \in DOMAIN ssl_connections_
  /\ \E s \in OnRead(ssl_connections_[c]) :
       /\ IsHandshakeCompleted(s) /\ s.decrypted > 0
       /\ \E n \in 0 .. s.decrypted :
            ssl_connections_' = [ssl_connections_ EXCEPT ![c] = [s EXCEPT !.decrypted = n]]
  /\ Parsed(c, "decrypted")
  /\ UNCHANGED <<settings, conn, switched>>

Next ==
  \/ \E enable \in BOOLEAN : EnableSsl(enable)
  \/ \E field \in DOMAIN Settings : \E value \in Settings[field] : Set(field, value)
  \/ SetSslConfig
  \/ Start
  \/ \E c \in Connections :
       \/ OnConnectionUp(c) \/ OnConnectionDown(c)
       \/ OnMessagePlain(c) \/ OnMessageReturns(c) \/ OnMessageDecrypted(c)

Spec == Init /\ [][Next]_vars

-----------------------------------------------------------------------------
(* Properties.                                                             *)

TypeOK ==
  /\ started \in BOOLEAN /\ terminated \in BOOLEAN /\ use_ssl_ \in BOOLEAN
  /\ DOMAIN config = DOMAIN SslConfig
  /\ \A f \in DOMAIN config :
       config[f] \in {SslConfig[f]} \cup IF f \in DOMAIN Settings THEN Settings[f] ELSE {}
  /\ ssl_context_ \in 0 .. MaxContexts
  /\ context.loaded <=> (ssl_context_ # 0)
  /\ conn \in [Connections -> {"new", "up", "down"}]
  /\ DOMAIN ssl_connections_ \subseteq Connections
  /\ \A c \in DOMAIN ssl_connections_ :
       ssl_connections_[c] \in
         [context : 0 .. MaxContexts, state : SslStates, decrypted : 0 .. MaxDecrypted]
  /\ parsed \in [Connections -> SUBSET {"raw", "decrypted"}]
  /\ switched \subseteq Connections

(* http_server.cpp:68, 83-97: use_ssl_ is read anew when a connection      *)
(* comes up and when it goes down.  However the server is reconfigured,    *)
(* only EnableSsl during a connection's own life can separate it from its  *)
(* SslConnection (an entry that is never erased, or none where one is      *)
(* looked for); what was switched for other connections cannot.            *)
EntryPerConnection ==
  /\ \A c \in Connections \ switched :
       c \in DOMAIN ssl_connections_ <=> c \in Up /\ use_ssl_
  /\ \A c \in Connections : conn[c] = "new" => c \notin DOMAIN ssl_connections_

(* http_server.cpp:103-130: a connection of a server with SSL has its      *)
(* bytes decrypted: the parser is given none as they came from the network *)
(* unless use_ssl_ was changed under that connection.                      *)
NoRawBytesWithSsl ==
  \A c \in Up \ switched : "raw" \in parsed[c] => ~ use_ssl_

(* ssl_context.cpp:37-44, 55-85, http_server.cpp:73-76: a process that     *)
(* lives has no half-made context, also after it has replaced one: it      *)
(* shows a certificate that was loaded, with the key that fits it.  The    *)
(* key is compared before the chain file is loaded: only a chain that      *)
(* begins with another certificate slips in.                               *)
RunsWithOwnKey ==
  ~ terminated /\ context.loaded =>
    /\ Loads(context.certificate)
    /\ context.key # context.certificate =>
         context.key = NoFile /\ context.certificate = context.chain

(* ssl_context.cpp:88 ("set the SSL/TLS protocol version"): a running      *)
(* server accepts the protocol version it was configured with.             *)
SpeaksConfiguredVersion ==
  started /\ ~ terminated /\ context.loaded => context.version \in context.enabled

=============================================================================
