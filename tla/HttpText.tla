------------------------------ MODULE HttpText ------------------------------
(***************************************************************************)
(* What travels on a connection, and what the line parsers of HttpContext  *)
(* make of one line of it.                                                 *)
(*                                                                         *)
(* A byte stream is a sequence of UNITS.  A unit is a line break (CRLF) or *)
(* a piece of text without one, and every unit counts for one byte of      *)
(* Content-Length.  The text of a unit is abstracted to what the two line  *)
(* parsers can tell about it:                                              *)
(*                                                                         *)
(*   "request"  three words, no colon      GET /path HTTP/1.1              *)
(*   "header"   a colon, under three words Content-Length: 1               *)
(*   "both"     a colon and three words    GET /a:b HTTP/1.1, or           *)
(*                                         Cookie: a=1; sessionid=2        *)
(*   "data"     anything else: a byte of a body, or junk                   *)
(*                                                                         *)
(* A line is the units between two breaks.  Data may stand in front of the *)
(* text of a line (a body that no Content-Length announced runs into the   *)
(* next request line); nothing follows a text unit but a break.  A text of *)
(* three words has a method and a version (its first and third word), one  *)
(* with a colon a key and a value, a text of both kinds all four.          *)
(***************************************************************************)
EXTENDS Integers, Sequences

CONSTANTS
  Alphabet,   \* the units peers put on the wire
  CRLF,       \* the line break
  Stoul       \* header value |-> the number std::stoul reads, -1 if it throws

Kinds == {"request", "header", "both", "data"}

(* The texts have the fields of their kind, and std::stoul an outcome for  *)
(* every header value.                                                     *)
WellFormed ==
  /\ CRLF \in Alphabet
  /\ \A u \in Alphabet \ {CRLF} :
       /\ u.kind \in Kinds
       /\ u.kind \in {"header", "both"} => u.value \in DOMAIN Stoul
  /\ "" \in DOMAIN Stoul
  /\ \A v \in DOMAIN Stoul : Stoul[v] \in Nat \cup {-1}

ASSUME AlphabetAssumption == WellFormed

(* A unit that a peer may send after the units of s.                       *)
MayFollow(s, u) ==
  s # <<>> /\ s[Len(s)] # CRLF /\ s[Len(s)].kind # "data" => u = CRLF

-----------------------------------------------------------------------------
(* The two line parsers: whether they accept, and what they extract.  Text *)
(* that data is glued to has lost its first word (method, header name).    *)

ParseRequestLine(line) ==
  line # <<>> /\ line[Len(line)].kind \in {"request", "both"}

ParseHeaderLine(line) ==
  line # <<>> /\ line[Len(line)].kind \in {"header", "both"}

(* HttpRequest::SetMethod: a word it does not know is kInvalid ("HEAD" is  *)
(* such a word, although HttpRequestMethod has a kHead).                   *)
SetMethod(word) ==
  IF word \in {"GET", "POST", "PUT", "DELETE", "OPTIONS"}
  THEN word ELSE "kInvalid"

MethodOf(line) ==
  IF Len(line) = 1 THEN SetMethod(line[1].method) ELSE "kInvalid"

VersionOf(line) == line[Len(line)].version

KeyOf(line)   == IF Len(line) = 1 THEN line[1].key ELSE "other"
ValueOf(line) == line[Len(line)].value

-----------------------------------------------------------------------------
(* HttpRequest, as far as parsing and OnRequest read it.  The constructor  *)
(* leaves body_length_ uninitialized: Unset stands for the indeterminate   *)
(* value, which no step may read.                                          *)

Unset == -1

NewRequest ==
  [method |-> "kInvalid", version |-> "Unknown", headers |-> <<>>,
   body |-> <<>>, body_length |-> Unset]

Texts(kinds) == {u \in Alphabet \ {CRLF} : u.kind \in kinds}

Methods  == {SetMethod(u.method) : u \in Texts({"request", "both"})} \cup {"kInvalid"}
Versions == {u.version : u \in Texts({"request", "both"})} \cup {"Unknown"}
Keys     == {u.key : u \in Texts({"header", "both"})} \cup {"other"}
Values   == DOMAIN Stoul

Requests ==
  [method : Methods, version : Versions,
   headers : UNION {[ks -> Values] : ks \in SUBSET Keys},
   body : Seq(Alphabet), body_length : Nat \cup {Unset}]

(* Mutant: operator[] instead of emplace, the last header of a name wins.  *)
AddHeaderLastWins(headers, key, value) ==
  [k \in DOMAIN headers \cup {key} |-> IF k = key THEN value ELSE headers[k]]

(* unordered_map::emplace: the first header of a name stays.               *)
AddHeader(headers, key, value) ==
  [k \in DOMAIN headers \cup {key} |->
     IF k \in DOMAIN headers THEN headers[k] ELSE value]

GetHeader(headers, key) == IF key \in DOMAIN headers THEN headers[key] ELSE ""

=============================================================================
