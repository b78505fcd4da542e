---------------------------- MODULE FramingProofs ---------------------------
(***************************************************************************)
(* HttpContext implements HttpFraming: the requests a context hands out    *)
(* before the first malformed message are those the stream means, and      *)
(* ParseRequest returns false only when the message is incomplete.         *)
(*                                                                         *)
(* The parser reads the lines of a message one by one, HttpFraming all at  *)
(* once.  Read(s, p, n, r) says that request r holds what the lines of the *)
(* message at p up to the break n say; every fact in it is about units up  *)
(* to n, so that it survives what arrives later.                           *)
(***************************************************************************)
EXTENDS HttpContextProofs

First(s, p) == Framing!Least(Framing!Breaks(s, p))

(* The breaks that end a line behind the request line, up to n.            *)
Behind(s, p, n) == {i \in Framing!Breaks(s, p) : i # First(s, p) /\ i <= n}

Naming(s, p, n, k) == {i \in Behind(s, p, n) : KeyOf(Framing!LineAt(s, p, i)) = k}

HeadersUpTo(s, p, n, headers) ==
  /\ \A k : k \in DOMAIN headers <=> Naming(s, p, n, k) # {}
  /\ \A k \in DOMAIN headers :
       headers[k] = ValueOf(Framing!LineAt(s, p, Framing!Least(Naming(s, p, n, k))))

Read(s, p, n, r) ==
  /\ n \in Framing!Breaks(s, p)
  /\ ParseRequestLine(Framing!LineAt(s, p, First(s, p)))
  /\ r.method = MethodOf(Framing!LineAt(s, p, First(s, p)))
  /\ r.version = VersionOf(Framing!LineAt(s, p, First(s, p)))
  /\ \A i \in Behind(s, p, n) :
       i - 1 \notin Framing!Breaks(s, p) /\ ParseHeaderLine(Framing!LineAt(s, p, i))
  /\ HeadersUpTo(s, p, n, r.headers)

(* r holds the whole head of the message at p, whose empty line ends at h. *)
HeadRead(s, p, h, r) ==
  h - 1 \in Framing!Breaks(s, p) /\ h \in Framing!Breaks(s, p) /\ Read(s, p, h - 1, r)

BodyLengthOf(r) ==
  IF HasBody(r) THEN Stoul[GetHeader(r.headers, "Content-Length")] ELSE 0

-----------------------------------------------------------------------------
(* The first of a set of positions.                                        *)

LEMMA LeastIsFirst ==
  ASSUME NEW S \in SUBSET Nat, S # {}
  PROVE  Framing!Least(S) \in S /\ \A j \in S : Framing!Least(S) <= j
<1>1. PICK m \in S : \A y \in S : ~ (<<y, m>> \in OpToRel(<, Nat))
  BY NatLessThanWellFounded, WFMin
<1>2. ASSUME NEW y \in S PROVE m <= y
  <2>1. SUFFICES ASSUME y < m PROVE FALSE
    OBVIOUS
  <2>2. y \in Nat /\ m \in Nat  OBVIOUS
  <2>3. <<y, m>> \in OpToRel(<, Nat)
    BY <2>1, <2>2, Zenon DEF OpToRel
  <2> QED  BY <1>1, <2>3
<1> QED  BY <1>2 DEF Framing!Least

LEMMA LeastIs ==
  ASSUME NEW S \in SUBSET Nat, NEW i \in S, \A j \in S : i <= j
  PROVE  Framing!Least(S) = i
<1> DEFINE m == Framing!Least(S)
<1>1. m \in S /\ m <= i
  BY LeastIsFirst
<1>2. m \in Nat /\ i \in Nat /\ i <= m
  BY <1>1
<1>3. \A a, b \in Nat : a <= b /\ b <= a => a = b
  OBVIOUS
<1> QED  BY <1>1, <1>2, <1>3

LEMMA BreakFacts ==
  ASSUME NEW s \in Seq(Alphabet), NEW p \in Nat
  PROVE  /\ Framing!Breaks(s, p) \in SUBSET Nat
         /\ \A i : i \in Framing!Breaks(s, p) <=> i \in p + 1 .. Len(s) /\ s[i] = CRLF
         /\ Framing!Breaks(s, p) # {} =>
              /\ First(s, p) \in Framing!Breaks(s, p)
              /\ \A i \in Framing!Breaks(s, p) : First(s, p) <= i
<1>1. /\ Framing!Breaks(s, p) \in SUBSET Nat
      /\ \A i : i \in Framing!Breaks(s, p) <=> i \in p + 1 .. Len(s) /\ s[i] = CRLF
  BY DEF Framing!Breaks
<1> QED  BY <1>1, LeastIsFirst DEF First

-----------------------------------------------------------------------------
(* The lines of a message.                                                 *)

Starts(s, p, i, q) ==
  /\ q \in p .. i - 1
  /\ q = p \/ s[q] = CRLF
  /\ \A j \in q + 1 .. i - 1 : s[j] # CRLF

LEMMA LineStartIs ==
  ASSUME NEW s \in Seq(Alphabet), NEW p \in Nat, NEW i \in Nat, NEW q, Starts(s, p, i, q)
  PROVE  /\ Framing!LineStart(s, p, i) = q
         /\ Framing!LineAt(s, p, i) = SubSeq(s, q + 1, i - 1)
<1> DEFINE start0 == Framing!LineStart(s, p, i)
<1>1. Starts(s, p, i, start0)
  <2>1. \E x \in p .. i - 1 : /\ x = p \/ s[x] = CRLF
                              /\ \A j \in x + 1 .. i - 1 : s[j] # CRLF
    BY DEF Starts
  <2> QED  BY <2>1 DEF Starts, Framing!LineStart
<1>2. start0 = q
  BY <1>1 DEF Starts
<1> QED  BY <1>2 DEF Framing!LineAt

LEMMA LineHasStart ==
  ASSUME NEW s \in Seq(Alphabet), NEW p \in Nat, NEW i \in Nat, p < i
  PROVE  \E q : Starts(s, p, i, q)
<1> DEFINE back == {d \in 1 .. i - p : i - d = p \/ s[i - d] = CRLF}
<1>1. i - p \in back /\ back \in SUBSET Nat
  OBVIOUS
<1> DEFINE d0 == Framing!Least(back)
<1>2. d0 \in back /\ \A d \in back : d0 <= d
  BY <1>1, LeastIsFirst
<1>3. ASSUME NEW j \in i - d0 + 1 .. i - 1, s[j] = CRLF PROVE FALSE
  <2>1. d0 \in 1 .. i - p  BY <1>2
  <2>2. i - j \in 1 .. i - p /\ i - (i - j) = j /\ i - j < d0
    BY <2>1
  <2>3. i - j \in back
    BY <1>3, <2>2
  <2> HIDE DEF d0
  <2> QED  BY <1>2, <2>1, <2>2, <2>3
<1>4. Starts(s, p, i, i - d0)
  BY <1>2, <1>3 DEF Starts
<1> QED  BY <1>4

(* What arrives later changes no line that has ended.                      *)
LEMMA LineKept ==
  ASSUME NEW s \in Seq(Alphabet), NEW u \in Alphabet, NEW p \in Nat,
         NEW i \in p + 1 .. Len(s)
  PROVE  Framing!LineAt(Append(s, u), p, i) = Framing!LineAt(s, p, i)
<1> DEFINE t == Append(s, u)
<1>1. /\ t \in Seq(Alphabet) /\ Len(t) = Len(s) + 1
      /\ \A j \in 1 .. Len(s) : t[j] = s[j]
  BY AppendProperties
<1>2. PICK q : Starts(s, p, i, q)
  BY LineHasStart
<1>3. Starts(t, p, i, q)
  BY <1>1, <1>2 DEF Starts
<1>4. /\ Framing!LineAt(s, p, i) = SubSeq(s, q + 1, i - 1)
      /\ Framing!LineAt(t, p, i) = SubSeq(t, q + 1, i - 1)
  <2>1. i \in Nat /\ t \in Seq(Alphabet)
    BY <1>1
  <2> HIDE DEF t
  <2> QED  BY <1>2, <1>3, <2>1, LineStartIs
<1>5. q + 1 \in Nat \ {0} /\ i - 1 \in 0 .. Len(s)
  BY <1>2 DEF Starts
<1> QED  BY <1>4, <1>5, SliceOfAppend

LEMMA BreaksGrow ==
  ASSUME NEW s \in Seq(Alphabet), NEW u \in Alphabet, NEW p \in Nat
  PROVE  /\ \A i \in 1 .. Len(s) :
              i \in Framing!Breaks(Append(s, u), p) <=> i \in Framing!Breaks(s, p)
         /\ \A i \in Framing!Breaks(Append(s, u), p) : i \in 1 .. Len(s) \/ i = Len(s) + 1
         /\ Framing!Breaks(s, p) # {} => First(Append(s, u), p) = First(s, p)
<1> DEFINE t == Append(s, u)
<1>1. /\ t \in Seq(Alphabet) /\ Len(t) = Len(s) + 1
      /\ \A j \in 1 .. Len(s) : t[j] = s[j]
  BY AppendProperties
<1>2. \A i \in 1 .. Len(s) : i \in Framing!Breaks(t, p) <=> i \in Framing!Breaks(s, p)
  BY <1>1 DEF Framing!Breaks
<1>3. \A i \in Framing!Breaks(t, p) : i \in 1 .. Len(s) \/ i = Len(s) + 1
  BY <1>1 DEF Framing!Breaks
<1>4. ASSUME Framing!Breaks(s, p) # {} PROVE First(t, p) = First(s, p)
  <2>1. /\ First(s, p) \in Framing!Breaks(s, p) /\ First(s, p) \in 1 .. Len(s)
        /\ \A i \in Framing!Breaks(s, p) : First(s, p) <= i
    BY <1>4, BreakFacts
  <2>2. First(s, p) \in Framing!Breaks(t, p) /\ Framing!Breaks(t, p) \in SUBSET Nat
    BY <1>1, <1>2, <2>1, BreakFacts
  <2>3. \A i \in Framing!Breaks(t, p) : First(s, p) <= i
    BY <1>2, <1>3, <2>1
  <2> QED  BY <2>2, <2>3, LeastIs DEF First
<1> QED  BY <1>2, <1>3, <1>4

LEMMA ReadKept ==
  ASSUME NEW s \in Seq(Alphabet), NEW u \in Alphabet, NEW p \in Nat, NEW n, NEW r,
         Read(s, p, n, r)
  PROVE  Read(Append(s, u), p, n, r)
<1> DEFINE t == Append(s, u)
<1>1. n \in Framing!Breaks(s, p) /\ n \in 1 .. Len(s) /\ t \in Seq(Alphabet)
  BY BreakFacts, AppendProperties DEF Read
<1>2. n \in Framing!Breaks(t, p) /\ First(t, p) = First(s, p) /\ First(s, p) \in p + 1 .. Len(s)
  BY <1>1, BreaksGrow, BreakFacts
<1>3. \A i : i \in Behind(t, p, n) <=> i \in Behind(s, p, n)
  <2>1. \A i : i \in Behind(t, p, n) => i \in 1 .. Len(s)
    BY <1>1, BreaksGrow, BreakFacts DEF Behind
  <2>2. \A i : i \in Behind(s, p, n) => i \in 1 .. Len(s)
    BY BreakFacts DEF Behind
  <2> QED  BY <1>2, <2>1, <2>2, BreaksGrow DEF Behind
<1>4. \A i \in Behind(s, p, n) : i \in p + 1 .. Len(s)
  BY BreakFacts DEF Behind
<1>5. \A i \in p + 1 .. Len(s) : Framing!LineAt(t, p, i) = Framing!LineAt(s, p, i)
  BY LineKept
<1>6. \A k : Naming(t, p, n, k) = Naming(s, p, n, k)
  BY <1>3, <1>4, <1>5 DEF Naming
<1>7. \A k : Naming(s, p, n, k) # {} => Framing!Least(Naming(s, p, n, k)) \in p + 1 .. Len(s)
  BY <1>4, LeastIsFirst DEF Naming
<1>8. HeadersUpTo(t, p, n, r.headers)
  BY <1>5, <1>6, <1>7 DEF Read, HeadersUpTo
<1>9. \A i \in Behind(t, p, n) :
        i - 1 \notin Framing!Breaks(t, p) /\ ParseHeaderLine(Framing!LineAt(t, p, i))
  <2> SUFFICES ASSUME NEW i \in Behind(t, p, n)
               PROVE  i - 1 \notin Framing!Breaks(t, p) /\ ParseHeaderLine(Framing!LineAt(t, p, i))
    OBVIOUS
  <2>1. i \in Behind(s, p, n) /\ i \in p + 1 .. Len(s)
    BY <1>3, <1>4
  <2>2. i - 1 \in 1 .. Len(s) \/ i - 1 \notin Framing!Breaks(t, p)
    <3>1. i - 1 \in Framing!Breaks(t, p) => i - 1 \in p + 1 .. Len(t)
      BY <1>1, BreakFacts
    <3> QED  BY <2>1, <3>1
  <2> QED  BY <1>5, <2>1, <2>2, BreaksGrow DEF Read
<1> QED  BY <1>2, <1>5, <1>8, <1>9 DEF Read

-----------------------------------------------------------------------------
(* One more line.                                                          *)

LEMMA NextBreak ==
  ASSUME TypeOK, Breaks # {}, NEW p \in Nat, p = rd \/ rd \in Framing!Breaks(stream, p)
  PROVE  /\ FindCRLF \in Framing!Breaks(stream, p) /\ rd < FindCRLF
         /\ Framing!LineAt(stream, p, FindCRLF) = line
         /\ \A i \in Framing!Breaks(stream, p) : i <= rd \/ FindCRLF <= i
<1>1. stream \in Seq(Alphabet) /\ rd \in Nat /\ p <= rd
  BY BreakFacts DEF TypeOK
<1>2. /\ FindCRLF \in rd + 1 .. Len(stream) /\ stream[FindCRLF] = CRLF
      /\ \A i \in rd + 1 .. FindCRLF - 1 : stream[i] # CRLF
  BY <1>1, FirstBreak
<1>3. FindCRLF \in Framing!Breaks(stream, p)
  BY <1>1, <1>2, BreakFacts
<1>4. rd = p \/ stream[rd] = CRLF
  BY <1>1, BreakFacts
<1>5. Starts(stream, p, FindCRLF, rd)
  BY <1>1, <1>2, <1>4 DEF Starts
<1>6. Framing!LineAt(stream, p, FindCRLF) = line
  BY <1>1, <1>2, <1>5, LineStartIs DEF line
<1>7. ASSUME NEW i \in Framing!Breaks(stream, p), rd < i, i < FindCRLF PROVE FALSE
  <2>1. i \in p + 1 .. Len(stream) /\ stream[i] = CRLF
    BY <1>1, <1>7, BreakFacts
  <2> QED  BY <1>1, <1>2, <1>7, <2>1
<1>8. \A i \in Framing!Breaks(stream, p) : i \in Nat
  BY <1>1, BreakFacts
<1> QED  BY <1>1, <1>2, <1>3, <1>6, <1>7, <1>8

LEMMA ReadRequestLine ==
  ASSUME TypeOK, RequestLine, DOMAIN request_.headers = {}
  PROVE  Read(stream', start', rd', request_')
<1> DEFINE f == FindCRLF
<1>1. /\ stream' = stream /\ start' = rd /\ rd' = f
      /\ Breaks # {} /\ ParseRequestLine(line)
      /\ request_' = [request_ EXCEPT !.method = MethodOf(line), !.version = VersionOf(line)]
  BY DEF RequestLine, RetrieveLine, Continue
<1>2. stream \in Seq(Alphabet) /\ rd \in Nat /\ request_ \in Requests
  BY DEF TypeOK
<1>3. /\ f \in Framing!Breaks(stream, rd) /\ Framing!LineAt(stream, rd, f) = line /\ rd < f
      /\ \A i \in Framing!Breaks(stream, rd) : i <= rd \/ f <= i
  BY <1>1, <1>2, NextBreak
<1>4. \A i \in Framing!Breaks(stream, rd) : i \in Nat /\ rd < i /\ f <= i
  BY <1>2, <1>3, BreakFacts
<1>5. First(stream, rd) = f
  <2>1. Framing!Breaks(stream, rd) \in SUBSET Nat
    BY <1>4
  <2> QED  BY <1>3, <1>4, <2>1, LeastIs DEF First
<1>6. Behind(stream, rd, f) = {}
  BY <1>3, <1>4, <1>5 DEF Behind
<1>7. \A k : Naming(stream, rd, f, k) = {}
  BY <1>6 DEF Naming
<1>8. /\ request_'.method = MethodOf(line) /\ request_'.version = VersionOf(line)
      /\ request_'.headers = request_.headers
  BY <1>1, <1>2 DEF Requests
<1>9. HeadersUpTo(stream, rd, f, request_'.headers)
  BY <1>7, <1>8 DEF HeadersUpTo
<1> QED  BY <1>1, <1>3, <1>5, <1>6, <1>8, <1>9 DEF Read

LEMMA ReadHeaderLine ==
  ASSUME TypeOK, HeaderLine, Read(stream, start, rd, request_)
  PROVE  Read(stream', start', rd', request_')
<1> DEFINE f == FindCRLF
           r == request_
           key == KeyOf(line)
           NamedUpTo(n, k) == Naming(stream, start, n, k)
<1>1. /\ stream' = stream /\ start' = start /\ rd' = f
      /\ Breaks # {} /\ ParseHeaderLine(line)
      /\ r' = [r EXCEPT !.headers = AddHeader(@, key, ValueOf(line))]
  BY DEF HeaderLine, RetrieveLine, Continue
<1>2. /\ stream \in Seq(Alphabet) /\ start \in Nat /\ r \in Requests
      /\ rd \in Framing!Breaks(stream, start) /\ rd \in Nat
  BY DEF TypeOK, Read
<1>3. /\ f \in Framing!Breaks(stream, start) /\ rd < f /\ f \in Nat
      /\ Framing!LineAt(stream, start, f) = line
      /\ \A i \in Framing!Breaks(stream, start) : i \in Nat /\ (i <= rd \/ f <= i)
  BY <1>1, <1>2, NextBreak, BreakFacts
<1>4. First(stream, start) <= rd /\ First(stream, start) \in Nat
  BY <1>2, BreakFacts
<1>5. \A i : i \in Behind(stream, start, f) <=> i \in Behind(stream, start, rd) \/ i = f
  <2>1. First(stream, start) # f
    BY <1>2, <1>3, <1>4
  <2>2. \A i \in Framing!Breaks(stream, start) : i <= f <=> i <= rd \/ i = f
    <3> HIDE DEF f
    <3> QED  BY <1>2, <1>3
  <2> QED  BY <1>3, <2>1, <2>2 DEF Behind
<1>6. \A k : NamedUpTo(f, k) = NamedUpTo(rd, k) \cup (IF k = key THEN {f} ELSE {})
  BY <1>3, <1>5 DEF Naming
<1>7. \A k : NamedUpTo(rd, k) \in SUBSET Nat /\ \A i \in NamedUpTo(rd, k) : i <= rd
  BY <1>3 DEF Naming, Behind
<1>8. \A k : NamedUpTo(rd, k) # {} =>
        Framing!Least(NamedUpTo(f, k)) = Framing!Least(NamedUpTo(rd, k))
  <2> SUFFICES ASSUME NEW k, NamedUpTo(rd, k) # {}
               PROVE  Framing!Least(NamedUpTo(f, k)) = Framing!Least(NamedUpTo(rd, k))
    OBVIOUS
  <2> DEFINE m == Framing!Least(NamedUpTo(rd, k))
  <2>1. m \in NamedUpTo(rd, k) /\ \A i \in NamedUpTo(rd, k) : m <= i
    BY <1>7, LeastIsFirst
  <2>2. m \in Nat /\ m <= rd  BY <1>7, <2>1
  <2>3. m \in NamedUpTo(f, k) /\ \A i \in NamedUpTo(f, k) : m <= i
    BY <1>2, <1>3, <1>6, <2>1, <2>2
  <2>4. NamedUpTo(f, k) \in SUBSET Nat
    BY <1>3, <1>6, <1>7
  <2> HIDE DEF NamedUpTo, m
  <2> QED  BY <2>3, <2>4, LeastIs DEF m
<1>9. NamedUpTo(rd, key) = {} => Framing!Least(NamedUpTo(f, key)) = f
  <2>1. SUFFICES ASSUME NamedUpTo(rd, key) = {} PROVE Framing!Least({f}) = f
    BY <1>6
  <2> QED  BY <1>3, LeastIs
<1>10. HeadersUpTo(stream, start, f, r'.headers)
  <2>1. r'.headers = AddHeader(r.headers, key, ValueOf(line))
    BY <1>1, <1>2 DEF Requests
  <2>2. DOMAIN r'.headers = DOMAIN r.headers \cup {key}
    BY <2>1 DEF AddHeader
  <2>3. \A k \in DOMAIN r'.headers :
          r'.headers[k] = IF k \in DOMAIN r.headers THEN r.headers[k] ELSE ValueOf(line)
    BY <2>1 DEF AddHeader
  <2>4. /\ \A k : k \in DOMAIN r.headers <=> NamedUpTo(rd, k) # {}
        /\ \A k \in DOMAIN r.headers :
             r.headers[k] = ValueOf(Framing!LineAt(stream, start, Framing!Least(NamedUpTo(rd, k))))
    BY DEF Read, HeadersUpTo
  <2>5. \A k : k \in DOMAIN r'.headers <=> NamedUpTo(f, k) # {}
    BY <1>6, <2>2, <2>4
  <2>6. \A k \in DOMAIN r'.headers :
          r'.headers[k] = ValueOf(Framing!LineAt(stream, start, Framing!Least(NamedUpTo(f, k))))
    <3> SUFFICES ASSUME NEW k \in DOMAIN r'.headers
                 PROVE  r'.headers[k] =
                          ValueOf(Framing!LineAt(stream, start, Framing!Least(NamedUpTo(f, k))))
      OBVIOUS
    <3>1. CASE k \in DOMAIN r.headers
      BY <1>8, <2>3, <2>4, <3>1
    <3>2. CASE k \notin DOMAIN r.headers
      BY <1>3, <1>9, <2>2, <2>3, <2>4, <3>2
    <3> QED  BY <3>1, <3>2
  <2> QED  BY <2>5, <2>6 DEF HeadersUpTo
<1>11. f - 1 \notin Framing!Breaks(stream, start)
  <2>1. Len(line) # 0
    BY <1>1 DEF ParseHeaderLine
  <2>2. Len(line) = f - 1 - rd
    BY <1>2, <1>3, SubSeqProperties DEF line
  <2> QED  BY <1>2, <1>3, <2>1, <2>2
<1>12. /\ r'.method = r.method /\ r'.version = r.version
  BY <1>1, <1>2 DEF Requests
<1> QED  BY <1>1, <1>3, <1>5, <1>10, <1>11, <1>12 DEF Read

LEMMA HeadEnds ==
  ASSUME TypeOK, AtEmptyLine, Read(stream, start, rd, request_)
  PROVE  FindCRLF = rd + 1 /\ HeadRead(stream, start, FindCRLF, request_)
<1>1. Breaks # {} /\ line = <<>>
  BY Zenon DEF AtEmptyLine
<1>2. rd \in Framing!Breaks(stream, start) /\ rd \in Nat /\ start \in Nat
  BY DEF TypeOK, Read
<1>3. FindCRLF \in Framing!Breaks(stream, start) /\ rd < FindCRLF /\ FindCRLF \in Nat
  BY <1>1, <1>2, NextBreak, BreakFacts DEF TypeOK
<1>4. Len(line) = FindCRLF - 1 - rd
  BY <1>2, <1>3, SubSeqProperties DEF line, TypeOK
<1>5. FindCRLF - 1 = rd
  BY <1>1, <1>2, <1>3, <1>4
<1> QED  BY <1>2, <1>3, <1>5 DEF HeadRead

-----------------------------------------------------------------------------
(* What HttpFraming says of a message that has been read so far.           *)

LEMMA SameText ==
  \A l, h, k :
    /\ Framing!ParseRequestLine(l) = ParseRequestLine(l)
    /\ Framing!ParseHeaderLine(l) = ParseHeaderLine(l)
    /\ Framing!MethodOf(l) = MethodOf(l) /\ Framing!VersionOf(l) = VersionOf(l)
    /\ Framing!KeyOf(l) = KeyOf(l) /\ Framing!ValueOf(l) = ValueOf(l)
    /\ Framing!GetHeader(h, k) = GetHeader(h, k)
BY DEF Framing!ParseRequestLine, ParseRequestLine, Framing!ParseHeaderLine, ParseHeaderLine,
   Framing!MethodOf, MethodOf, Framing!SetMethod, SetMethod, Framing!VersionOf, VersionOf,
   Framing!KeyOf, KeyOf, Framing!ValueOf, ValueOf, Framing!GetHeader, GetHeader

LEMMA Headless ==
  ASSUME NEW s \in Seq(Alphabet), NEW p \in Nat, NEW n, NEW r, Read(s, p, n, r)
  PROVE  \A i \in Framing!Breaks(s, p) : i <= n => i \notin Framing!EmptyLines(s, p)
<1>1. /\ \A i \in Framing!Breaks(s, p) : i \in Nat /\ First(s, p) <= i
      /\ First(s, p) \in Framing!Breaks(s, p)
  BY BreakFacts DEF Read
<1>2. First(s, p) - 1 \notin Framing!Breaks(s, p)
  BY <1>1
<1> QED  BY <1>1, <1>2 DEF Read, Behind, Framing!EmptyLines

(* No line is complete but those read: there is no end in sight.           *)
LEMMA MeaningSoFar ==
  ASSUME NEW s \in Seq(Alphabet), NEW p \in Nat, NEW n, NEW r, Read(s, p, n, r),
         \A i \in Framing!Breaks(s, p) : i <= n
  PROVE  ~ Framing!Complete(s, p) /\ ~ Framing!Malformed(s, p)
<1>1. Framing!EmptyLines(s, p) = {}
  BY Headless DEF Framing!EmptyLines
<1>2. ~ Framing!HasHead(s, p)
  BY <1>1 DEF Framing!HasHead
<1>3. \A i \in Framing!HeaderBreaks(s, p) : i \in Behind(s, p, n)
  BY DEF Framing!HeaderBreaks, Behind, First
<1>4. ~ Framing!Malformed(s, p)
  BY <1>2, <1>3, SameText DEF Framing!Malformed, Read, First
<1> QED  BY <1>2, <1>4 DEF Framing!Complete

(* The next line is neither empty nor a header line.                       *)
LEMMA MeaningOfJunk ==
  ASSUME TypeOK, Read(stream, start, rd, request_),
         Breaks # {}, line # <<>>, ~ ParseHeaderLine(line)
  PROVE  Framing!Malformed(stream, start)
<1> DEFINE f == FindCRLF
<1>1. /\ stream \in Seq(Alphabet) /\ start \in Nat /\ rd \in Nat
      /\ rd \in Framing!Breaks(stream, start)
  BY DEF TypeOK, Read
<1>2. /\ f \in Framing!Breaks(stream, start) /\ rd < f /\ f \in Nat
      /\ Framing!LineAt(stream, start, f) = line
      /\ \A i \in Framing!Breaks(stream, start) : i \in Nat /\ (i <= rd \/ f <= i)
  BY <1>1, NextBreak, BreakFacts
<1>3. f # First(stream, start)
  <2>1. First(stream, start) <= rd /\ First(stream, start) \in Nat
    BY <1>1, <1>2, BreakFacts
  <2> HIDE DEF f
  <2> QED  BY <1>1, <1>2, <2>1
<1>4. f - 1 # rd
  <2>1. Len(line) = f - 1 - rd /\ line \in Seq(Alphabet \ {CRLF})
    BY <1>1, <1>2, SubSeqProperties, LineOfTexts DEF line
  <2> QED  BY <2>1, <1>1, <1>2, EmptySeq
<1>5. f \notin Framing!EmptyLines(stream, start)
  <2>1. ASSUME f - 1 \in Framing!Breaks(stream, start) PROVE FALSE
    <3> HIDE DEF f
    <3> QED  BY <1>1, <1>2, <1>4, <2>1
  <2> QED  BY <2>1 DEF Framing!EmptyLines
<1>6. Framing!HasHead(stream, start) => f < Framing!EndOfHead(stream, start)
  <2> DEFINE e == Framing!EndOfHead(stream, start)
  <2>1. SUFFICES ASSUME Framing!EmptyLines(stream, start) # {} PROVE f < e
    BY DEF Framing!HasHead
  <2>2. Framing!EmptyLines(stream, start) \in SUBSET Nat
    BY <1>2 DEF Framing!EmptyLines
  <2>3. e \in Framing!EmptyLines(stream, start)
    BY <2>1, <2>2, LeastIsFirst DEF Framing!EndOfHead
  <2>4. e \in Framing!Breaks(stream, start) /\ ~ e <= rd /\ e # f
    BY <1>1, <1>5, <2>3, Headless DEF Framing!EmptyLines
  <2> HIDE DEF e, f
  <2> QED  BY <1>1, <1>2, <2>4
<1>7. f \in Framing!HeaderBreaks(stream, start)
  BY <1>2, <1>3, <1>6 DEF Framing!HeaderBreaks, First
<1>8. ~ Framing!ParseHeaderLine(Framing!LineAt(stream, start, f))
  BY <1>2, SameText
<1> QED  BY <1>7, <1>8 DEF Framing!Malformed

(* The whole head has been read.                                           *)
LEMMA MeaningOfHead ==
  ASSUME NEW s \in Seq(Alphabet), NEW p \in Nat, NEW h, NEW r \in Requests, HeadRead(s, p, h, r)
  PROVE  /\ Framing!HasHead(s, p) /\ Framing!EndOfHead(s, p) = h
         /\ Framing!Headers(s, p) = r.headers
         /\ Framing!BodyLength(s, p) = BodyLengthOf(r)
         /\ Framing!Malformed(s, p) <=> BodyLengthOf(r) = -1
<1>1. /\ h \in Framing!Breaks(s, p) /\ h - 1 \in Framing!Breaks(s, p)
      /\ Framing!Breaks(s, p) \in SUBSET Nat /\ Read(s, p, h - 1, r)
      /\ First(s, p) \in Framing!Breaks(s, p) /\ First(s, p) <= h - 1
  BY BreakFacts DEF HeadRead
<1>2. h \in Framing!EmptyLines(s, p)
  BY <1>1 DEF Framing!EmptyLines
<1>3. \A i \in Framing!EmptyLines(s, p) : h <= i
  <2> SUFFICES ASSUME NEW i \in Framing!EmptyLines(s, p) PROVE h <= i
    OBVIOUS
  <2>1. i \in Framing!Breaks(s, p) /\ ~ i <= h - 1
    BY <1>1, Headless DEF Framing!EmptyLines
  <2> QED  BY <1>1, <2>1
<1>4. Framing!EmptyLines(s, p) \in SUBSET Nat
  BY <1>1 DEF Framing!EmptyLines
<1>5. Framing!HasHead(s, p) /\ Framing!EndOfHead(s, p) = h
  BY <1>2, <1>3, <1>4, LeastIs DEF Framing!HasHead, Framing!EndOfHead
<1>6. Framing!HeaderBreaks(s, p) = Behind(s, p, h - 1)
  BY <1>1, <1>5 DEF Framing!HeaderBreaks, Behind, First
<1>7. Framing!Headers(s, p) = r.headers
  <2> DEFINE B == Behind(s, p, h - 1)
             names == {KeyOf(Framing!LineAt(s, p, i)) : i \in B}
             value(k) == ValueOf(Framing!LineAt(s, p, Framing!Least(Naming(s, p, h - 1, k))))
  <2>1. Framing!Headers(s, p) = [k \in names |-> value(k)]
    BY <1>6, SameText DEF Framing!Headers, Naming
  <2>2. \A k : k \in names <=> Naming(s, p, h - 1, k) # {}
    BY DEF Naming
  <2>3. DOMAIN r.headers = names /\ \A k \in names : r.headers[k] = value(k)
    BY <1>1, <2>2 DEF Read, HeadersUpTo
  <2>4. r.headers = [k \in DOMAIN r.headers |-> r.headers[k]]
    BY RequestsHeaders DEF HeaderMaps
  <2> HIDE DEF names, value
  <2> QED  BY <2>1, <2>3, <2>4
<1>8. Framing!BodyLength(s, p) = BodyLengthOf(r)
  BY <1>7, SameText DEF Framing!BodyLength, Framing!ContentLength, BodyLengthOf, HasBody
<1>9. Framing!Malformed(s, p) <=> BodyLengthOf(r) = -1
  BY <1>1, <1>5, <1>6, <1>8, SameText DEF Framing!Malformed, Read, First
<1> QED  BY <1>5, <1>7, <1>8, <1>9

-----------------------------------------------------------------------------
(* The invariant.  Reading: what the context holds of the message it is    *)
(* parsing.  Position: that message is the one behind the last taken.      *)
(* Starving: ParseRequest returned false for want of bytes.                *)

Lines ==
  /\ state_ = "REQUEST_LINE" => DOMAIN request_.headers = {}
  /\ state_ = "HEADERS" => Read(stream, start, rd, request_)
  /\ state_ = "BODY" => HasBody(request_) /\ HeadRead(stream, start, rd, request_)
  /\ state_ = "FINISH" =>
       /\ BodyLengthOf(request_) \in Nat
       /\ HeadRead(stream, start, rd - BodyLengthOf(request_), request_)
       /\ HasBody(request_) =>
            request_.body = SubSeq(stream, rd - BodyLengthOf(request_) + 1, rd)

Reading == ~ bad => Lines

Position ==
  ~ bad =>
    /\ \A i \in 1 .. Len(messages) : messages[i].clean
    /\ LastTaken = IF state_ = "REQUEST_LINE" THEN rd ELSE start

Starving ==
  ret = "false" /\ ~ bad =>
    \/ state_ \in {"REQUEST_LINE", "HEADERS"} /\ Breaks = {}
    \/ state_ = "BODY" /\ ReadableBytes < request_.body_length

LEMMA HeadReadKept ==
  ASSUME NEW s \in Seq(Alphabet), NEW u \in Alphabet, NEW p \in Nat, NEW h, NEW r,
         HeadRead(s, p, h, r)
  PROVE  HeadRead(Append(s, u), p, h, r)
<1>1. /\ h - 1 \in Framing!Breaks(s, p) /\ h \in Framing!Breaks(s, p)
      /\ h - 1 \in 1 .. Len(s) /\ h \in 1 .. Len(s)
  BY BreakFacts DEF HeadRead
<1> QED  BY <1>1, BreaksGrow, ReadKept DEF HeadRead

LEMMA ReadSame ==
  ASSUME NEW s, NEW p, NEW n, NEW r, NEW t,
         t.method = r.method, t.version = r.version, t.headers = r.headers
  PROVE  /\ Read(s, p, n, r) => Read(s, p, n, t)
         /\ HeadRead(s, p, n, r) => HeadRead(s, p, n, t)
         /\ HasBody(t) = HasBody(r) /\ BodyLengthOf(t) = BodyLengthOf(r)
BY DEF Read, HeadRead, HasBody, BodyLengthOf

LEMMA ReceiveReading ==
  ASSUME TypeOK, Reading, NEW u \in Alphabet, Receive(u)
  PROVE  Reading'
<1>1. /\ stream' = Append(stream, u)
      /\ UNCHANGED <<rd, state_, request_, start, bad>>
      /\ stream \in Seq(Alphabet) /\ start \in Nat /\ rd \in 0 .. Len(stream)
      /\ request_ \in Requests
  BY DEF Receive, TypeOK
<1> SUFFICES ASSUME ~ bad PROVE Lines'
  BY <1>1 DEF Reading
<1>2. state_ = "HEADERS" => Read(stream', start, rd, request_)
  BY <1>1, ReadKept DEF Reading, Lines
<1>3. state_ = "BODY" => HeadRead(stream', start, rd, request_)
  BY <1>1, HeadReadKept DEF Reading, Lines
<1>4. ASSUME state_ = "FINISH"
      PROVE  /\ HeadRead(stream', start, rd - BodyLengthOf(request_), request_)
             /\ HasBody(request_) =>
                  request_.body = SubSeq(stream', rd - BodyLengthOf(request_) + 1, rd)
  <2> DEFINE n == BodyLengthOf(request_)
  <2>1. n \in Nat /\ HeadRead(stream, start, rd - n, request_)
    BY <1>4 DEF Reading, Lines
  <2>2. rd - n \in Nat \ {0}
    BY <1>1, <2>1, BreakFacts DEF HeadRead
  <2>3. rd - n + 1 \in Nat \ {0}
    BY <2>2
  <2>4. SubSeq(stream', rd - n + 1, rd) = SubSeq(stream, rd - n + 1, rd)
    BY <1>1, <2>3, SliceOfAppend
  <2> QED  BY <1>1, <1>4, <2>1, <2>4, HeadReadKept DEF Reading, Lines
<1>5. /\ HasBody(request_)' = HasBody(request_)
      /\ BodyLengthOf(request_)' = BodyLengthOf(request_)
  BY <1>1 DEF HasBody, BodyLengthOf
<1> QED  BY <1>1, <1>2, <1>3, <1>4, <1>5 DEF Reading, Lines

LEMMA IterationReading ==
  ASSUME TypeOK, Reading, Iteration
  PROVE  Reading'
<1>1. stream \in Seq(Alphabet) /\ rd \in Nat /\ request_ \in Requests
  BY DEF TypeOK
<1>2. CASE NeedLine \/ NeedBody \/ AlreadyFinished
  BY <1>2 DEF NeedLine, NeedBody, AlreadyFinished, Return, Reading, Lines, Read, HeadRead,
              HasBody, BodyLengthOf
<1>3. CASE RejectLine \/ EndThrows
  BY <1>3 DEF RejectLine, EndThrows, Return, Reading
<1>4. CASE RequestLine
  <2>1. state_ = "REQUEST_LINE" /\ state_' = "HEADERS" /\ bad' = bad
    BY <1>4 DEF RequestLine, Running, Continue
  <2> QED  BY <1>4, <2>1, ReadRequestLine DEF Reading, Lines
<1>5. CASE HeaderLine
  <2>1. state_ = "HEADERS" /\ state_' = "HEADERS" /\ bad' = bad
    BY <1>5 DEF HeaderLine, Running, Continue
  <2> QED  BY <1>5, <2>1, ReadHeaderLine DEF Reading, Lines
<1>6. CASE EndWithoutBody
  <2>1. /\ state_ = "HEADERS" /\ state_' = "FINISH" /\ bad' = bad
        /\ rd' = FindCRLF /\ UNCHANGED <<stream, start, request_>>
        /\ AtEmptyLine /\ ~ HasBody(request_)
    BY <1>6, Zenon DEF EndWithoutBody, AtEmptyLine, Running, Return, RetrieveLine, HasBody,
                       content_length
  <2> SUFFICES ASSUME ~ bad PROVE Lines'
    BY <2>1 DEF Reading
  <2>2. FindCRLF = rd + 1 /\ HeadRead(stream, start, FindCRLF, request_)
    BY <2>1, HeadEnds DEF Reading, Lines
  <2>3. ~ HasBody(request_)' /\ BodyLengthOf(request_)' = 0
    BY <2>1 DEF HasBody, BodyLengthOf
  <2>4. rd' = rd + 1 /\ rd' - 0 = rd' /\ 0 \in Nat
    BY <1>1, <2>1, <2>2
  <2> QED  BY <2>1, <2>2, <2>3, <2>4 DEF Lines
<1>7. CASE EndWithBody
  <2>1. /\ state_ = "HEADERS" /\ state_' = "BODY" /\ bad' = bad
        /\ rd' = FindCRLF /\ UNCHANGED <<stream, start>>
        /\ AtEmptyLine /\ HasBody(request_)
        /\ request_' = [request_ EXCEPT !.body_length = Stoul[content_length]]
    BY <1>7, Zenon DEF EndWithBody, AtEmptyLine, Running, Continue, RetrieveLine, HasBody,
                       content_length
  <2> SUFFICES ASSUME ~ bad PROVE Lines'
    BY <2>1 DEF Reading
  <2>2. HeadRead(stream, start, FindCRLF, request_)
    BY <2>1, HeadEnds DEF Reading, Lines
  <2>3. /\ request_'.method = request_.method /\ request_'.version = request_.version
        /\ request_'.headers = request_.headers
    BY <1>1, <2>1 DEF Requests
  <2>4. HeadRead(stream, start, FindCRLF, request_') /\ HasBody(request_')
    BY <2>1, <2>2, <2>3, ReadSame
  <2> QED  BY <2>1, <2>4 DEF Lines
<1>8. CASE Body
  <2> DEFINE n == request_.body_length
  <2>1. /\ state_ = "BODY" /\ state_' = "FINISH" /\ bad' = bad
        /\ rd' = rd + n /\ UNCHANGED <<stream, start>>
        /\ request_' = [request_ EXCEPT !.body = SubSeq(stream, rd + 1, rd + n)]
    BY <1>8 DEF Body, Running, Return
  <2> SUFFICES ASSUME ~ bad PROVE Lines'
    BY <2>1 DEF Reading
  <2>2. HasBody(request_) /\ HeadRead(stream, start, rd, request_)
    BY <2>1 DEF Reading, Lines
  <2>3. n \in Nat /\ BodyLengthOf(request_) = n
    BY <2>1, <2>2 DEF TypeOK, Requests, Unset, BodyLengthOf, content_length
  <2>4. /\ request_'.method = request_.method /\ request_'.version = request_.version
        /\ request_'.headers = request_.headers
        /\ request_'.body = SubSeq(stream, rd + 1, rd + n)
    BY <1>1, <2>1 DEF Requests
  <2>5. /\ HeadRead(stream, start, rd, request_') /\ HasBody(request_')
        /\ BodyLengthOf(request_') = n
    BY <2>2, <2>3, <2>4, ReadSame
  <2>6. rd' - n = rd
    BY <1>1, <2>1, <2>3
  <2> QED  BY <2>1, <2>3, <2>4, <2>5, <2>6 DEF Lines
<1> QED
  BY <1>2, <1>3, <1>4, <1>5, <1>6, <1>7, <1>8 DEF Iteration

LEMMA IterationStarving ==
  ASSUME TypeOK, Iteration
  PROVE  Starving'
<1> SUFFICES ASSUME ret' = "false", ~ bad' PROVE NeedLine \/ NeedBody
  BY DEF Starving, NeedLine, NeedBody, Running, Return, Breaks, ReadableBytes
<1> QED
  BY DEF Iteration, NeedLine, RejectLine, RequestLine, HeaderLine, EndWithoutBody, EndWithBody,
         EndThrows, AtEmptyLine, Body, NeedBody, AlreadyFinished, Running, Return, Continue

(* A request that the context has completed is the message of the stream.  *)
LEMMA MeaningOfFinished ==
  ASSUME TypeOK, Lines, state_ = "FINISH", NEW c
  PROVE  /\ Framing!Complete(stream, start)
         /\ Framing!Message(stream, start) =
              Map([from |-> start, to |-> rd, clean |-> c, request |-> request_])
<1> DEFINE n == BodyLengthOf(request_)
           h == rd - n
           s == stream
           p == start
<1>1. /\ s \in Seq(Alphabet) /\ p \in Nat /\ request_ \in Requests /\ rd \in 0 .. Len(s)
      /\ n \in Nat /\ HeadRead(s, p, h, request_)
      /\ HasBody(request_) => request_.body = SubSeq(s, h + 1, rd)
  BY DEF TypeOK, Lines
<1>2. /\ Framing!HasHead(s, p) /\ Framing!EndOfHead(s, p) = h
      /\ Framing!Headers(s, p) = request_.headers
      /\ Framing!BodyLength(s, p) = n
      /\ Framing!Malformed(s, p) <=> n = -1
  BY <1>1, MeaningOfHead
<1>3. h + n = rd /\ n # -1 /\ Len(s) >= rd
  BY <1>1
<1>4. Framing!Complete(s, p)
  BY <1>2, <1>3 DEF Framing!Complete
<1>5. ~ HasBody(request_) => SubSeq(s, h + 1, rd) = <<>>
  <2> SUFFICES ASSUME n = 0 PROVE SubSeq(s, h + 1, rd) = <<>>
    BY DEF BodyLengthOf
  <2>1. h + 1 \in Int /\ rd \in Int /\ h + 1 > rd
    BY <1>1
  <2> QED  BY <1>1, <2>1, SubSeqEmpty
<1>6. /\ request_.method = MethodOf(Framing!LineAt(s, p, Framing!Least(Framing!Breaks(s, p))))
      /\ request_.version = VersionOf(Framing!LineAt(s, p, Framing!Least(Framing!Breaks(s, p))))
  BY <1>1 DEF HeadRead, Read, First
<1> HIDE DEF n, h, s, p
<1>7. Framing!Message(s, p) =
        [from |-> p, to |-> rd, method |-> request_.method, version |-> request_.version,
         headers |-> request_.headers, body |-> SubSeq(s, h + 1, rd)]
  BY <1>2, <1>3, <1>6, SameText DEF Framing!Message
<1>8. SubSeq(s, h + 1, rd) = IF HasBody(request_) THEN request_.body ELSE <<>>
  BY <1>1, <1>5
<1>9. Map([from |-> p, to |-> rd, clean |-> c, request |-> request_]) =
        [from |-> p, to |-> rd, method |-> request_.method, version |-> request_.version,
         headers |-> request_.headers,
         body |-> IF HasBody(request_) THEN request_.body ELSE <<>>]
  BY DEF Map
<1> QED  BY <1>4, <1>7, <1>8, <1>9 DEF s, p

-----------------------------------------------------------------------------
FInv == TypeOK /\ Reading /\ Position /\ Starving

LEMMA InitFInv == Init => FInv
<1> SUFFICES ASSUME Init PROVE FInv
  OBVIOUS
<1>1. TypeOK
  BY InitIInv DEF IInv
<1>2. state_ = "REQUEST_LINE" /\ DOMAIN request_.headers = {} /\ ret = "none"
  BY DEF Init, NewRequest
<1>3. messages = <<>> /\ rd = 0 /\ Len(messages) = 0
  BY DEF Init
<1> QED  BY <1>1, <1>2, <1>3 DEF FInv, Reading, Lines, Position, LastTaken, Starving

(* A step that takes nothing and rejects nothing leaves the message where  *)
(* it is.                                                                  *)
LEMMA IterationPosition ==
  ASSUME TypeOK, Position, Iteration
  PROVE  Position'
<1> SUFFICES ASSUME ~ bad' PROVE Position'
  BY DEF Position
<1>1. ~ bad
  BY DEF Iteration, NeedLine, RejectLine, RequestLine, HeaderLine, EndWithoutBody, EndWithBody,
         EndThrows, Body, NeedBody, AlreadyFinished, Return, Continue
<1>2. messages' = messages /\ LastTaken' = LastTaken
  BY IterationFacts DEF LastTaken
<1>3. CASE RequestLine
  BY <1>1, <1>2, <1>3 DEF RequestLine, Running, Position
<1>4. CASE ~ RequestLine
  <2>1. UNCHANGED <<start, rd, state_>> \/ (state_ # "REQUEST_LINE" /\ state_' # "REQUEST_LINE")
    BY <1>4 DEF Iteration, NeedLine, RejectLine, HeaderLine, EndWithoutBody, EndWithBody,
       EndThrows, AtEmptyLine, Body, NeedBody, AlreadyFinished, Running, Return, Continue
  <2>2. start' = start
    BY <1>4 DEF Iteration, NeedLine, RejectLine, HeaderLine, EndWithoutBody, EndWithBody,
       EndThrows, Body, NeedBody, AlreadyFinished, Return, Continue
  <2> QED  BY <1>1, <1>2, <2>1, <2>2 DEF Position
<1> QED  BY <1>3, <1>4

LEMMA CleanOf ==
  ASSUME NEW m, NEW f, NEW t, NEW b, NEW r,
         m = [from |-> f, to |-> t, clean |-> ~ b, request |-> r]
  PROVE  m.clean <=> ~ b
BY Zenon

LEMMA TakeRequestAppends ==
  ASSUME TypeOK, TakeRequest
  PROVE  /\ Len(messages') = Len(messages) + 1
         /\ \A i \in 1 .. Len(messages) : messages'[i] = messages[i]
         /\ messages'[Len(messages) + 1] =
              [from |-> start, to |-> rd, clean |-> ~ bad, request |-> request_]
         /\ messages' # <<>>
         /\ UNCHANGED <<stream, rd, start, bad>> /\ state_ = "FINISH"
         /\ state_' = "REQUEST_LINE" /\ ret' = "none" /\ DOMAIN request_'.headers = {}
<1>1. /\ messages' = Append(messages, [from |-> start, to |-> rd, clean |-> ~ bad,
                                       request |-> request_])
      /\ UNCHANGED <<stream, rd, start, bad>> /\ state_ = "FINISH"
      /\ state_' = "REQUEST_LINE" /\ ret' = "none" /\ request_' = Swapped(request_)
  BY DEF TakeRequest, GetRequest, Reset, GotAll
<1>2. [from |-> start, to |-> rd, clean |-> ~ bad, request |-> request_] \in Message
      /\ messages \in Seq(Message)
  BY DEF TypeOK, Message
<1>3. DOMAIN request_'.headers = {}
  BY <1>1 DEF Swapped, NewRequest
<1>4. /\ Len(messages') = Len(messages) + 1
      /\ \A i \in 1 .. Len(messages) : messages'[i] = messages[i]
      /\ messages'[Len(messages) + 1] =
           [from |-> start, to |-> rd, clean |-> ~ bad, request |-> request_]
  BY <1>1, <1>2, AppendProperties
<1>5. messages' # <<>>
  BY <1>1, <1>2, AppendProperties
<1> QED  BY <1>1, <1>3, <1>4, <1>5

LEMMA NextFInv == FInv /\ [Next]_vars => FInv'
<1> SUFFICES ASSUME FInv, [Next]_vars PROVE FInv'
  OBVIOUS
<1>1. TypeOK /\ Reading /\ Position /\ Starving /\ TypeOK'
  BY NextTypeOK DEF FInv
<1>2. CASE \E u \in Alphabet : Receive(u)
  <2>1. PICK u \in Alphabet : Receive(u)
    BY <1>2
  <2>2. Position'
    BY <1>1, <2>1 DEF Receive, Position, LastTaken
  <2>3. Starving'
    BY <2>1 DEF Receive, Starving
  <2> QED  BY <1>1, <2>1, <2>2, <2>3, ReceiveReading DEF FInv
<1>3. CASE ParseRequest
  <2>1. Reading' /\ Position'
    BY <1>1, <1>3 DEF ParseRequest, Reading, Lines, Read, HeadRead, HasBody, BodyLengthOf,
                      Position, LastTaken
  <2>2. Starving'
    BY <1>3 DEF ParseRequest, Starving
  <2> QED  BY <1>1, <2>1, <2>2 DEF FInv
<1>4. CASE Iteration
  BY <1>1, <1>4, IterationReading, IterationPosition, IterationStarving DEF FInv
<1>5. CASE TakeRequest
  <2>1. Reading' /\ Starving'
    BY <1>1, <1>5, TakeRequestAppends DEF Reading, Lines, Starving
  <2>2. LastTaken' = rd'
    BY <1>1, <1>5, TakeRequestAppends DEF LastTaken
  <2>3. Position'
    <3> SUFFICES ASSUME ~ bad, NEW i \in 1 .. Len(messages') PROVE messages'[i].clean
      BY <1>1, <1>5, <2>2, TakeRequestAppends DEF Position
    <3>1. Len(messages) \in Nat /\ Len(messages') = Len(messages) + 1
      BY <1>1, <1>5, TakeRequestAppends DEF TypeOK
    <3>2. CASE i \in 1 .. Len(messages)
      <4>1. messages'[i] = messages[i]
        BY <1>1, <1>5, <3>2, TakeRequestAppends
      <4> QED  BY <1>1, <3>2, <4>1 DEF Position
    <3>3. CASE i = Len(messages) + 1
      <4>1. messages'[i] = [from |-> start, to |-> rd, clean |-> ~ bad, request |-> request_]
        BY <1>1, <1>5, <3>3, TakeRequestAppends
      <4> QED  BY <4>1, CleanOf, Zenon
    <3> QED  BY <3>1, <3>2, <3>3
  <2> QED  BY <1>1, <2>1, <2>3 DEF FInv
<1>6. CASE UNCHANGED vars
  BY <1>1, <1>6 DEF vars, FInv, Reading, Lines, Read, HeadRead, HasBody, BodyLengthOf,
                    Position, LastTaken, Starving, Breaks, ReadableBytes
<1> QED  BY <1>2, <1>3, <1>4, <1>5, <1>6 DEF Next

LEMMA AlwaysFInv == Spec => []FInv
BY InitFInv, NextFInv, PTL DEF Spec

LEMMA StarvesIncomplete == FInv => FalseMeansIncomplete
<1> SUFFICES ASSUME FInv, ret = "false", ~ bad
             PROVE  ~ Framing!Complete(stream, LastTaken) /\ ~ Framing!Malformed(stream, LastTaken)
  BY DEF FalseMeansIncomplete
<1>1. TypeOK /\ Lines /\ LastTaken = IF state_ = "REQUEST_LINE" THEN rd ELSE start
  BY DEF FInv, Reading, Position
<1>2. stream \in Seq(Alphabet) /\ start \in Nat /\ rd \in Nat /\ request_ \in Requests
  BY <1>1 DEF TypeOK
<1>3. CASE state_ = "REQUEST_LINE" /\ Breaks = {}
  <2>1. LastTaken = rd /\ Framing!Breaks(stream, rd) = {}
    BY <1>1, <1>3 DEF Breaks, Framing!Breaks
  <2> QED
    BY <2>1 DEF Framing!Complete, Framing!Malformed, Framing!HasHead, Framing!EmptyLines,
                Framing!HeaderBreaks
<1>4. CASE state_ = "HEADERS" /\ Breaks = {}
  <2>1. LastTaken = start /\ Read(stream, start, rd, request_)
    BY <1>1, <1>4 DEF Lines
  <2>2. \A i \in Framing!Breaks(stream, start) : i <= rd
    BY <1>2, <1>4 DEF Breaks, Framing!Breaks
  <2> QED  BY <1>2, <2>1, <2>2, MeaningSoFar
<1>5. CASE state_ = "BODY" /\ ReadableBytes < request_.body_length
  <2>1. /\ LastTaken = start /\ HeadRead(stream, start, rd, request_)
        /\ HasBody(request_) /\ BodyLengthOf(request_) = request_.body_length
        /\ request_.body_length \in Nat
    BY <1>1, <1>5 DEF Lines, TypeOK, Requests, Unset, BodyLengthOf, content_length
  <2>2. /\ Framing!EndOfHead(stream, start) = rd
        /\ Framing!BodyLength(stream, start) = request_.body_length
        /\ ~ Framing!Malformed(stream, start)
    BY <1>2, <2>1, MeaningOfHead
  <2>3. ~ Len(stream) >= rd + request_.body_length
    BY <1>2, <1>5, <2>1 DEF ReadableBytes
  <2> QED  BY <2>1, <2>2, <2>3 DEF Framing!Complete
<1> QED  BY <1>3, <1>4, <1>5 DEF FInv, Starving

(* http_context.cpp:34,59,75: false is the answer only to a message that   *)
(* the stream has not completed yet, when no line was malformed.           *)
THEOREM FalseIsIncomplete == Spec => []FalseMeansIncomplete
BY StarvesIncomplete, AlwaysFInv, PTL

-----------------------------------------------------------------------------
(* The refinement: the abstract messages are those taken before the first  *)
(* malformed one.                                                          *)

LEMMA CleanKept ==
  ASSUME UNCHANGED messages
  PROVE  CleanMessages' = CleanMessages /\ LastTaken' = LastTaken
BY DEF CleanMessages, Map, HasBody, LastTaken

LEMMA AllClean ==
  ASSUME TypeOK, \A i \in 1 .. Len(messages) : messages[i].clean
  PROVE  /\ CleanMessages = [i \in 1 .. Len(messages) |-> Map(messages[i])]
         /\ CleanMessages \in Seq({Map(messages[i]) : i \in 1 .. Len(messages)})
         /\ Len(CleanMessages) = Len(messages)
         /\ Framing!Taken = LastTaken
<1> DEFINE n == Len(messages)
           Maps == {Map(messages[i]) : i \in 1 .. n}
<1>1. n \in Nat /\ messages \in Seq(Message)
  BY DEF TypeOK, Message
<1>2. CleanMessages = [i \in 1 .. n |-> Map(messages[i])]
  <2>1. {i \in 1 .. n : messages[i].clean} = 1 .. n
    OBVIOUS
  <2> QED  BY <2>1, Zenon DEF CleanMessages
<1>3. CleanMessages \in [1 .. n -> Maps]
  BY <1>2
<1>4. CleanMessages \in Seq(Maps)
  BY <1>1, <1>3, SeqDef
<1>5. Len(CleanMessages) = n
  BY <1>1, <1>3, <1>4, LenProperties
<1>6. Framing!Taken = LastTaken
  <2>1. CASE n = 0
    BY <1>1, <1>4, <1>5, <2>1, EmptySeq DEF Framing!Taken, LastTaken
  <2>2. CASE n # 0
    <3>1. n \in 1 .. n /\ messages # <<>> /\ CleanMessages # <<>>
      BY <1>1, <1>4, <1>5, <2>2, EmptySeq
    <3>2. CleanMessages[n].to = messages[n].to
      BY <1>2, <3>1 DEF Map
    <3> QED  BY <1>5, <3>1, <3>2 DEF Framing!Taken, LastTaken
  <2> QED  BY <2>1, <2>2
<1> QED  BY <1>2, <1>4, <1>5, <1>6

LEMMA TakeIsTake ==
  ASSUME FInv, FInv', TakeRequest, ~ bad
  PROVE  Framing!Take
<1> DEFINE n == Len(messages)
           m == [from |-> start, to |-> rd, clean |-> ~ bad, request |-> request_]
<1>1. /\ TypeOK /\ Lines /\ state_ = "FINISH" /\ LastTaken = start
      /\ \A i \in 1 .. n : messages[i].clean
      /\ n \in Nat
  BY TakeRequestAppends DEF FInv, Reading, Position, TypeOK
<1>2. /\ TypeOK' /\ \A i \in 1 .. Len(messages') : messages'[i].clean
      /\ Len(messages') = n + 1 /\ UNCHANGED <<stream, bad>>
      /\ \A i \in 1 .. n : messages'[i] = messages[i]
      /\ messages'[n + 1] = m
  BY <1>1, TakeRequestAppends DEF FInv, Position
<1>3. /\ CleanMessages = [i \in 1 .. n |-> Map(messages[i])]
      /\ CleanMessages \in Seq({Map(messages[i]) : i \in 1 .. n})
      /\ Len(CleanMessages) = n
      /\ Framing!Taken = start
  BY <1>1, AllClean
<1>4. CleanMessages' = [i \in 1 .. n + 1 |-> Map(messages'[i])]
  <2>1. \A i \in 1 .. n + 1 : messages'[i].clean
    BY <1>2
  <2>2. {i \in 1 .. n + 1 : messages'[i].clean} = 1 .. n + 1
    BY <2>1
  <2>3. CleanMessages' = [i \in {j \in 1 .. n + 1 : messages'[j].clean} |-> Map(messages'[i])]
    BY <1>2 DEF CleanMessages, Map, HasBody
  <2> QED  BY <2>2, <2>3
<1>5. CleanMessages' = Append(CleanMessages, Map(m))
  <2> DEFINE Maps == {Map(messages[i]) : i \in 1 .. n} \cup {Map(m)}
             longer == Append(CleanMessages, Map(m))
  <2>1. CleanMessages \in Seq(Maps) /\ Map(m) \in Maps
    BY <1>3, <1>1, SeqDef
  <2>2. /\ longer \in Seq(Maps) /\ Len(longer) = n + 1
        /\ \A i \in 1 .. n : longer[i] = CleanMessages[i]
        /\ longer[n + 1] = Map(m)
    BY <1>3, <2>1, AppendProperties
  <2>3. longer = [i \in 1 .. n + 1 |-> longer[i]]
    BY <2>2, LenProperties
  <2>4. \A i \in 1 .. n + 1 : longer[i] = Map(messages'[i])
    BY <1>1, <1>2, <1>3, <2>2
  <2> QED  BY <1>4, <2>3, <2>4
<1>6. Framing!Complete(stream, start) /\ Framing!Message(stream, start) = Map(m)
  BY <1>1, MeaningOfFinished
<1> QED  BY <1>2, <1>3, <1>5, <1>6 DEF Framing!Take

LEMMA TakeUncleanStutters ==
  ASSUME TypeOK, TakeRequest, bad
  PROVE  CleanMessages' = CleanMessages
<1>1. /\ Len(messages') = Len(messages) + 1 /\ Len(messages) \in Nat
      /\ \A i \in 1 .. Len(messages) : messages'[i] = messages[i]
      /\ messages'[Len(messages) + 1] =
           [from |-> start, to |-> rd, clean |-> ~ bad, request |-> request_]
  <2>1. Len(messages) \in Nat
    BY DEF TypeOK
  <2> QED  BY <2>1, TakeRequestAppends, Zenon
<1>2. ~ messages'[Len(messages) + 1].clean
  BY <1>1, CleanOf, Zenon
<1>3. {i \in 1 .. Len(messages') : messages'[i].clean} =
        {i \in 1 .. Len(messages) : messages[i].clean}
  BY <1>1, <1>2
<1>4. CleanMessages' =
        [i \in {j \in 1 .. Len(messages') : messages'[j].clean} |-> Map(messages'[i])]
  BY DEF CleanMessages, Map, HasBody
<1>5. \A i \in {j \in 1 .. Len(messages) : messages[j].clean} : messages'[i] = messages[i]
  BY <1>1
<1> QED  BY <1>3, <1>4, <1>5 DEF CleanMessages

LEMMA RejectIsReject ==
  ASSUME FInv, RejectLine \/ EndThrows, ~ bad
  PROVE  Framing!Reject
<1>1. /\ TypeOK /\ Lines /\ \A i \in 1 .. Len(messages) : messages[i].clean
      /\ LastTaken = IF state_ = "REQUEST_LINE" THEN rd ELSE start
      /\ stream \in Seq(Alphabet) /\ rd \in Nat /\ start \in Nat /\ request_ \in Requests
  BY DEF FInv, Reading, Position, TypeOK
<1>2. UNCHANGED <<stream, messages>> /\ bad' = TRUE /\ Breaks # {}
  BY DEF RejectLine, EndThrows, AtEmptyLine, Return
<1>3. Framing!Taken = LastTaken /\ CleanMessages' = CleanMessages
  BY <1>1, <1>2, AllClean, CleanKept
<1>4. CASE state_ = "REQUEST_LINE" /\ ~ ParseRequestLine(line)
  <2>1. /\ FindCRLF \in Framing!Breaks(stream, rd)
        /\ Framing!LineAt(stream, rd, FindCRLF) = line
        /\ Framing!Breaks(stream, rd) \in SUBSET Nat
        /\ \A i \in Framing!Breaks(stream, rd) : rd < i
        /\ \A i \in Framing!Breaks(stream, rd) : i <= rd \/ FindCRLF <= i
    BY <1>1, <1>2, NextBreak, BreakFacts
  <2>2. \A i \in Framing!Breaks(stream, rd) : FindCRLF <= i
    BY <1>1, <2>1
  <2>3. Framing!Least(Framing!Breaks(stream, rd)) = FindCRLF
    BY <2>1, <2>2, LeastIs
  <2>4. Framing!Malformed(stream, rd)
    BY <1>4, <2>1, <2>3, SameText DEF Framing!Malformed
  <2> QED  BY <1>1, <1>2, <1>3, <1>4, <2>4 DEF Framing!Reject
<1>5. CASE state_ = "HEADERS" /\ line # <<>> /\ ~ ParseHeaderLine(line)
  <2>1. Framing!Malformed(stream, start)
    BY <1>1, <1>2, <1>5, MeaningOfJunk DEF Lines
  <2> QED  BY <1>1, <1>2, <1>3, <1>5, <2>1 DEF Framing!Reject
<1>6. CASE EndThrows
  <2>1. /\ state_ = "HEADERS" /\ AtEmptyLine /\ BodyLengthOf(request_) = -1
    BY <1>6, Zenon DEF EndThrows, AtEmptyLine, Running, BodyLengthOf, HasBody, content_length
  <2>2. HeadRead(stream, start, FindCRLF, request_)
    BY <1>1, <2>1, HeadEnds DEF Lines
  <2>3. Framing!Malformed(stream, start)
    BY <1>1, <2>1, <2>2, MeaningOfHead
  <2> QED  BY <1>1, <1>2, <1>3, <2>1, <2>3 DEF Framing!Reject
<1> QED  BY <1>4, <1>5, <1>6 DEF RejectLine, Running

LEMMA StepIsFramingStep ==
  FInv /\ FInv' /\ [Next]_vars => [Framing!Next]_<<stream, CleanMessages, bad>>
<1> SUFFICES ASSUME FInv, FInv', [Next]_vars
             PROVE  Framing!Next \/ UNCHANGED <<stream, CleanMessages, bad>>
  OBVIOUS
<1>1. TypeOK
  BY DEF FInv
<1>2. CASE \E u \in Alphabet : Receive(u)
  <2>1. PICK u \in Alphabet : Receive(u)
    BY <1>2
  <2>2. stream' = Append(stream, u) /\ UNCHANGED <<bad, messages>>
    BY <2>1 DEF Receive
  <2>3. CleanMessages' = CleanMessages
    BY <2>2, CleanKept
  <2> QED  BY <2>2, <2>3 DEF Framing!Next, Framing!Receive
<1>3. CASE ParseRequest \/ UNCHANGED vars
  <2>1. UNCHANGED <<stream, messages, bad>>
    BY <1>3 DEF ParseRequest, vars
  <2> QED  BY <2>1, CleanKept
<1>4. CASE TakeRequest
  <2>1. CASE ~ bad
    BY <1>4, <2>1, TakeIsTake DEF Framing!Next
  <2>2. CASE bad
    BY <1>1, <1>4, <2>2, TakeUncleanStutters, TakeRequestAppends
  <2> QED  BY <2>1, <2>2
<1>5. CASE Iteration
  <2>1. UNCHANGED <<stream, messages>>
    BY <1>1, <1>5, IterationFacts
  <2>2. CleanMessages' = CleanMessages
    BY <2>1, CleanKept
  <2>3. CASE (RejectLine \/ EndThrows) /\ ~ bad
    BY <2>3, RejectIsReject DEF Framing!Next
  <2>4. CASE (RejectLine \/ EndThrows) /\ bad
    <3>1. bad' = TRUE /\ bad \in BOOLEAN
      BY <1>1, <2>4 DEF RejectLine, EndThrows, TypeOK
    <3> QED  BY <2>1, <2>2, <2>4, <3>1
  <2>5. CASE ~ (RejectLine \/ EndThrows)
    <3>1. bad' = bad
      BY <1>5, <2>5 DEF Iteration, NeedLine, RequestLine, HeaderLine, EndWithoutBody,
                        EndWithBody, Body, NeedBody, AlreadyFinished, Continue
    <3> QED  BY <2>1, <2>2, <3>1
  <2> QED  BY <2>3, <2>4, <2>5
<1> QED  BY <1>2, <1>3, <1>4, <1>5 DEF Next

(* http_context.cpp:6-80: the requests that the context hands out before   *)
(* the first malformed message are those the stream means, and a message   *)
(* is rejected only when it is malformed, for every cut of the stream into *)
(* reads, every alphabet of lines and every bound on the stream.           *)
THEOREM ParserImplementsFraming == Spec => ImplementsFraming
<1>1. Init => Framing!Init
  <2> SUFFICES ASSUME Init PROVE CleanMessages = <<>>
    BY DEF Init, Framing!Init
  <2>1. messages = <<>> /\ {i \in 1 .. Len(messages) : messages[i].clean} = {}
    BY DEF Init
  <2>2. CleanMessages = [i \in {} |-> Map(messages[i])]
    BY <2>1 DEF CleanMessages
  <2> QED  BY <2>2
<1>2. FInv /\ FInv' /\ [Next]_vars => [Framing!Next]_(Framing!vars)
  BY StepIsFramingStep DEF Framing!vars
<1> QED  BY <1>1, <1>2, AlwaysFInv, PTL DEF Spec, ImplementsFraming, Framing!Spec

-----------------------------------------------------------------------------
(* A message is completed by its last unit, and by no later one.           *)

LEMMA LineAtTexts ==
  ASSUME NEW s \in Seq(Alphabet), NEW p \in Nat, NEW i \in p + 1 .. Len(s)
  PROVE  Framing!LineAt(s, p, i) \in Seq(Alphabet \ {CRLF})
<1>1. PICK q : Starts(s, p, i, q)
  BY LineHasStart
<1>2. Framing!LineAt(s, p, i) = SubSeq(s, q + 1, i - 1)
  BY <1>1, LineStartIs
<1>3. /\ q + 1 \in Int /\ i - 1 \in Int
      /\ \A j \in q + 1 .. i - 1 : s[j] \in Alphabet \ {CRLF}
  BY <1>1 DEF Starts
<1> QED  BY <1>2, <1>3, SubSeqProperties

LEMMA HeadFacts ==
  ASSUME NEW s \in Seq(Alphabet), NEW p \in Nat, Framing!HasHead(s, p)
  PROVE  /\ Framing!EndOfHead(s, p) \in Framing!EmptyLines(s, p)
         /\ Framing!EndOfHead(s, p) \in p + 1 .. Len(s)
         /\ \A i \in Framing!EmptyLines(s, p) : Framing!EndOfHead(s, p) <= i
<1>1. Framing!EmptyLines(s, p) \in SUBSET Nat /\ Framing!EmptyLines(s, p) # {}
  BY BreakFacts DEF Framing!EmptyLines, Framing!HasHead
<1>2. /\ Framing!EndOfHead(s, p) \in Framing!EmptyLines(s, p)
      /\ \A i \in Framing!EmptyLines(s, p) : Framing!EndOfHead(s, p) <= i
  BY <1>1, LeastIsFirst DEF Framing!EndOfHead
<1> QED  BY <1>2, BreakFacts DEF Framing!EmptyLines

(* A message with a head that is not malformed has a length.               *)
LEMMA BodyLengthType ==
  ASSUME NEW s \in Seq(Alphabet), NEW p \in Nat,
         Framing!HasHead(s, p), ~ Framing!Malformed(s, p)
  PROVE  Framing!BodyLength(s, p) \in Nat
<1> DEFINE key == "Content-Length"
           named == {i \in Framing!HeaderBreaks(s, p) : KeyOf(Framing!LineAt(s, p, i)) = key}
<1>1. Framing!HeaderBreaks(s, p) \in SUBSET Nat
      /\ \A i \in Framing!HeaderBreaks(s, p) : i \in p + 1 .. Len(s)
  BY BreakFacts DEF Framing!HeaderBreaks
<1>2. ASSUME NEW i \in Framing!HeaderBreaks(s, p)
      PROVE  ValueOf(Framing!LineAt(s, p, i)) \in Values
  <2>1. ParseHeaderLine(Framing!LineAt(s, p, i))
    BY SameText DEF Framing!Malformed
  <2> QED  BY <1>1, <2>1, LineAtTexts, HeaderLineType
<1>3. key \in DOMAIN Framing!Headers(s, p) =>
        named # {} /\ Framing!Headers(s, p)[key] = ValueOf(Framing!LineAt(s, p, Framing!Least(named)))
  BY SameText DEF Framing!Headers
<1>4. named # {} => Framing!Least(named) \in Framing!HeaderBreaks(s, p)
  BY <1>1, LeastIsFirst
<1>5. Framing!ContentLength(s, p) \in Values \cup {""}
  <2>1. Framing!ContentLength(s, p) = GetHeader(Framing!Headers(s, p), key)
    BY SameText DEF Framing!ContentLength
  <2>2. CASE key \in DOMAIN Framing!Headers(s, p)
    BY <1>2, <1>3, <1>4, <2>1, <2>2 DEF GetHeader
  <2>3. CASE key \notin DOMAIN Framing!Headers(s, p)
    BY <2>1, <2>3 DEF GetHeader
  <2> QED  BY <2>2, <2>3
<1>6. Framing!BodyLength(s, p) # -1
  BY DEF Framing!Malformed
<1> QED  BY <1>5, <1>6, AlphabetAssumption DEF WellFormed, Values, Framing!BodyLength

(* What arrives behind a head changes nothing of it.                       *)
LEMMA HeadKept ==
  ASSUME NEW s \in Seq(Alphabet), NEW u \in Alphabet, NEW p \in Nat,
         Framing!HasHead(Append(s, u), p), Framing!EndOfHead(Append(s, u), p) \in 1 .. Len(s)
  PROVE  /\ Framing!HasHead(s, p)
         /\ Framing!EndOfHead(s, p) = Framing!EndOfHead(Append(s, u), p)
         /\ Framing!BodyLength(s, p) = Framing!BodyLength(Append(s, u), p)
         /\ First(s, p) = First(Append(s, u), p)
         /\ Framing!Headers(s, p) = Framing!Headers(Append(s, u), p)
         /\ Framing!Malformed(s, p) <=> Framing!Malformed(Append(s, u), p)
<1> DEFINE t == Append(s, u)
           e == Framing!EndOfHead(t, p)
<1>1. t \in Seq(Alphabet) /\ e \in Nat /\ Len(s) \in Nat
  BY AppendProperties
<1>2. /\ e \in Framing!EmptyLines(t, p) /\ e \in 1 .. Len(s)
      /\ \A i \in Framing!EmptyLines(t, p) : e <= i
  BY <1>1, HeadFacts
<1>3. /\ \A i \in 1 .. Len(s) : i \in Framing!Breaks(t, p) <=> i \in Framing!Breaks(s, p)
      /\ \A i \in Framing!Breaks(s, p) : i \in p + 1 .. Len(s)
      /\ \A i \in Framing!Breaks(t, p) : i \in Nat /\ p + 1 <= i
  <2>1. \A i \in 1 .. Len(s) : i \in Framing!Breaks(t, p) <=> i \in Framing!Breaks(s, p)
    BY BreaksGrow
  <2>2. \A i \in Framing!Breaks(s, p) : i \in p + 1 .. Len(s)
    BY BreakFacts
  <2>3. \A i \in Framing!Breaks(t, p) : i \in p + 1 .. Len(t)
    BY <1>1, BreakFacts
  <2> HIDE DEF t
  <2> QED  BY <2>1, <2>2, <2>3
<1> HIDE DEF t, e
<1>4. ASSUME NEW i \in 1 .. Len(s)
      PROVE  i \in Framing!EmptyLines(t, p) <=> i \in Framing!EmptyLines(s, p)
  <2>1. i - 1 \in Framing!Breaks(t, p) <=> i - 1 \in Framing!Breaks(s, p)
    BY <1>3
  <2> QED  BY <1>3, <2>1 DEF Framing!EmptyLines
<1>5. \A i \in Framing!EmptyLines(s, p) : i \in 1 .. Len(s)
  BY <1>3 DEF Framing!EmptyLines
<1>6. Framing!HasHead(s, p) /\ Framing!EndOfHead(s, p) = e
  <2>1. e \in Framing!EmptyLines(s, p)
    BY <1>2, <1>4
  <2>2. \A i \in Framing!EmptyLines(s, p) : i \in Nat /\ e <= i
    BY <1>2, <1>4, <1>5
  <2>3. Framing!EmptyLines(s, p) \in SUBSET Nat
    BY <2>2
  <2> QED  BY <2>1, <2>2, <2>3, LeastIs DEF Framing!HasHead, Framing!EndOfHead
<1>7. First(t, p) = First(s, p)
  BY <1>2, <1>3, BreaksGrow DEF t, Framing!EmptyLines
<1>8. Framing!HeaderBreaks(t, p) = Framing!HeaderBreaks(s, p)
  <2>1. Framing!HeaderBreaks(t, p) = {i \in Framing!Breaks(t, p) : i # First(t, p) /\ i < e}
    BY DEF Framing!HeaderBreaks, First, e, t
  <2>2. Framing!HeaderBreaks(s, p) = {i \in Framing!Breaks(s, p) : i # First(s, p) /\ i < e}
    BY <1>6 DEF Framing!HeaderBreaks, First
  <2>3. \A i \in Framing!Breaks(t, p) : i < e => i \in 1 .. Len(s)
    BY <1>1, <1>2, <1>3
  <2>4. \A i \in Framing!Breaks(s, p) : i \in 1 .. Len(s)
    BY <1>3
  <2> QED  BY <1>3, <1>7, <2>1, <2>2, <2>3, <2>4
<1>9. \A i \in Framing!HeaderBreaks(s, p) : Framing!LineAt(t, p, i) = Framing!LineAt(s, p, i)
  BY <1>3, LineKept DEF Framing!HeaderBreaks, t
<1>10. Framing!Headers(t, p) = Framing!Headers(s, p)
  <2> DEFINE named(x, k) == {i \in Framing!HeaderBreaks(s, p) : KeyOf(Framing!LineAt(x, p, i)) = k}
             names(x) == {KeyOf(Framing!LineAt(x, p, i)) : i \in Framing!HeaderBreaks(s, p)}
             value(x, k) == ValueOf(Framing!LineAt(x, p, Framing!Least(named(x, k))))
  <2>1. Framing!Headers(t, p) = [k \in names(t) |-> value(t, k)]
    BY <1>8, SameText DEF Framing!Headers
  <2>2. Framing!Headers(s, p) = [k \in names(s) |-> value(s, k)]
    BY SameText DEF Framing!Headers
  <2>3. names(t) = names(s)
    BY <1>9
  <2>4. ASSUME NEW k \in names(s) PROVE value(t, k) = value(s, k)
    <3>1. named(t, k) = named(s, k)
      BY <1>9
    <3>2. named(s, k) # {} /\ named(s, k) \in SUBSET Nat
      BY <1>3 DEF Framing!HeaderBreaks
    <3>3. Framing!Least(named(s, k)) \in Framing!HeaderBreaks(s, p)
      BY <3>2, LeastIsFirst
    <3> QED  BY <1>9, <3>1, <3>3
  <2> HIDE DEF names, value
  <2> QED  BY <2>1, <2>2, <2>3, <2>4
<1>11. Framing!BodyLength(s, p) = Framing!BodyLength(t, p)
  BY <1>10, Zenon DEF Framing!BodyLength, Framing!ContentLength
<1>12. Framing!Malformed(s, p) <=> Framing!Malformed(t, p)
  <2>1. /\ Framing!Breaks(s, p) # {} /\ Framing!Breaks(t, p) # {}
        /\ First(s, p) \in p + 1 .. Len(s)
    BY <1>2, <1>3, <1>6, BreakFacts DEF Framing!EmptyLines, Framing!HasHead
  <2>2. Framing!LineAt(t, p, First(t, p)) = Framing!LineAt(s, p, First(s, p))
    BY <1>7, <2>1, LineKept DEF t
  <2>3. Framing!HasHead(t, p)
    BY DEF t
  <2> QED
    BY <1>6, <1>8, <1>9, <1>11, <2>1, <2>2, <2>3, Zenon DEF Framing!Malformed, First
<1> QED
  BY <1>6, <1>7, <1>10, <1>11, <1>12, Zenon DEF e, t

(* A complete message is what it is whatever is sent behind it: a peer may *)
(* pipeline and the reads may cut the stream anywhere, what HttpFraming    *)
(* takes does not depend on when it takes it (http_context.cpp:15-72).     *)
THEOREM MessagesStay ==
  ASSUME NEW s \in Seq(Alphabet), NEW u \in Alphabet, NEW p \in Nat,
         Framing!Complete(s, p)
  PROVE  /\ Framing!Complete(Append(s, u), p)
         /\ Framing!Message(Append(s, u), p) = Framing!Message(s, p)
<1> DEFINE t == Append(s, u)
           e == Framing!EndOfHead(s, p)
           b == Framing!BodyLength(s, p)
<1>1. t \in Seq(Alphabet) /\ Len(t) = Len(s) + 1 /\ Len(s) \in Nat
  BY AppendProperties
<1>2. Framing!HasHead(s, p) /\ ~ Framing!Malformed(s, p) /\ e + b <= Len(s)
  BY <1>1 DEF Framing!Complete
<1>3. /\ b \in Nat /\ e \in p + 1 .. Len(s) /\ e \in Framing!EmptyLines(s, p)
      /\ \A i \in Framing!EmptyLines(s, p) : e <= i
  BY <1>2, BodyLengthType, HeadFacts
<1>4. Framing!HasHead(t, p) /\ Framing!EndOfHead(t, p) = e
  <2>1. ASSUME NEW i \in Framing!EmptyLines(t, p) PROVE i \in Nat /\ e <= i
    <3>1. i \in p + 1 .. Len(t) /\ i - 1 \in p + 1 .. Len(t)
      BY <1>1, BreakFacts DEF Framing!EmptyLines
    <3>2. CASE i \in 1 .. Len(s)
      <4>1. i - 1 \in 1 .. Len(s)
        BY <3>1, <3>2
      <4>2. i \in Framing!EmptyLines(s, p)
        BY <3>2, <4>1, BreaksGrow DEF Framing!EmptyLines
      <4> QED  BY <1>3, <3>1, <4>2
    <3>3. CASE i \notin 1 .. Len(s)
      <4> HIDE DEF t, e, b
      <4> QED  BY <1>1, <1>3, <3>1, <3>3
    <3> QED  BY <3>2, <3>3
  <2>2. e \in Framing!EmptyLines(t, p)
    <3>1. /\ e \in Framing!Breaks(s, p) /\ e - 1 \in Framing!Breaks(s, p)
          /\ e \in 1 .. Len(s) /\ e - 1 \in 1 .. Len(s)
      BY <1>3, BreakFacts DEF Framing!EmptyLines
    <3> QED  BY <3>1, BreaksGrow DEF Framing!EmptyLines
  <2>3. Framing!EmptyLines(t, p) \in SUBSET Nat
    BY <2>1
  <2> HIDE DEF t, e
  <2> QED  BY <2>1, <2>2, <2>3, LeastIs DEF Framing!HasHead, Framing!EndOfHead
<1>5. e \in 1 .. Len(s)
  BY <1>3
<1>6. /\ Framing!BodyLength(t, p) = b /\ First(t, p) = First(s, p)
      /\ Framing!Headers(t, p) = Framing!Headers(s, p)
      /\ ~ Framing!Malformed(t, p)
  BY <1>2, <1>4, <1>5, HeadKept
<1>7. Framing!Complete(t, p)
  <2>1. Len(t) >= e + b
    <3> HIDE DEF t, e, b
    <3> QED  BY <1>1, <1>2, <1>3
  <2> QED  BY <1>4, <1>6, <2>1 DEF Framing!Complete
<1>8. Framing!LineAt(t, p, First(t, p)) = Framing!LineAt(s, p, First(s, p))
  <2>1. Framing!Breaks(s, p) # {}
    BY <1>3 DEF Framing!EmptyLines
  <2>2. First(s, p) \in p + 1 .. Len(s)
    BY <2>1, BreakFacts
  <2> QED  BY <1>6, <2>2, LineKept
<1>9. SubSeq(t, e + 1, e + b) = SubSeq(s, e + 1, e + b)
  <2>1. e + 1 \in Nat \ {0} /\ e + b \in 0 .. Len(s)
    <3> HIDE DEF e, b
    <3> QED  BY <1>1, <1>2, <1>3
  <2> QED  BY <2>1, SliceOfAppend
<1> HIDE DEF t, e, b
<1>10. Framing!Message(t, p) =
         [from |-> p, to |-> e + b, method |-> MethodOf(Framing!LineAt(t, p, First(t, p))),
          version |-> VersionOf(Framing!LineAt(t, p, First(t, p))),
          headers |-> Framing!Headers(t, p), body |-> SubSeq(t, e + 1, e + b)]
  BY <1>4, <1>6, SameText DEF Framing!Message, First
<1>11. Framing!Message(s, p) =
         [from |-> p, to |-> e + b, method |-> MethodOf(Framing!LineAt(s, p, First(s, p))),
          version |-> VersionOf(Framing!LineAt(s, p, First(s, p))),
          headers |-> Framing!Headers(s, p), body |-> SubSeq(s, e + 1, e + b)]
  BY SameText DEF Framing!Message, First, e, b
<1> QED  BY <1>6, <1>7, <1>8, <1>9, <1>10, <1>11 DEF t

(* http_context.cpp:47-72: a message that a unit completes ends with it.   *)
LEMMA CompletedByLast ==
  ASSUME NEW s \in Seq(Alphabet), NEW u \in Alphabet, NEW p \in Nat,
         ~ Framing!Complete(s, p), ~ Framing!Malformed(s, p),
         Framing!Complete(Append(s, u), p)
  PROVE  Framing!Message(Append(s, u), p).to = Len(Append(s, u))
<1> DEFINE t == Append(s, u)
           e == Framing!EndOfHead(t, p)
           b == Framing!BodyLength(t, p)
<1>1. t \in Seq(Alphabet) /\ Len(t) = Len(s) + 1 /\ Len(s) \in Nat
  BY AppendProperties
<1>2. Framing!HasHead(t, p) /\ ~ Framing!Malformed(t, p) /\ e + b <= Len(t)
  BY <1>1 DEF Framing!Complete
<1>3. b \in Nat /\ e \in p + 1 .. Len(t)
  BY <1>1, <1>2, BodyLengthType, HeadFacts
<1>4. Framing!Message(t, p).to = e + b
  BY DEF Framing!Message
<1>5. CASE e \in 1 .. Len(s)
  <2>1. /\ Framing!HasHead(s, p) /\ Framing!EndOfHead(s, p) = e
        /\ Framing!BodyLength(s, p) = b
    BY <1>2, <1>5, HeadKept
  <2>2. ~ Len(s) >= e + b
    BY <2>1 DEF Framing!Complete
  <2> HIDE DEF t, e, b
  <2> QED  BY <1>1, <1>2, <1>3, <1>4, <2>2 DEF t
<1>6. CASE e = Len(s) + 1
  <2> HIDE DEF t, e, b
  <2> QED  BY <1>1, <1>2, <1>3, <1>4, <1>6 DEF t
<1>7. e \in 1 .. Len(s) \/ e = Len(s) + 1
  <2> HIDE DEF t, e, b
  <2> QED  BY <1>1, <1>3
<1> QED  BY <1>5, <1>6, <1>7

(* Behind the last unit nothing is complete and nothing malformed.         *)
LEMMA NothingBehind ==
  ASSUME NEW s \in Seq(Alphabet)
  PROVE  ~ Framing!Complete(s, Len(s)) /\ ~ Framing!Malformed(s, Len(s))
<1>1. Framing!Breaks(s, Len(s)) = {}
  BY DEF Framing!Breaks
<1>2. Framing!HeaderBreaks(s, Len(s)) = {} /\ ~ Framing!HasHead(s, Len(s))
  BY <1>1 DEF Framing!HeaderBreaks, Framing!HasHead, Framing!EmptyLines
<1> QED  BY <1>1, <1>2 DEF Framing!Complete, Framing!Malformed

=============================================================================
