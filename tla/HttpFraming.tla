---------------------------- MODULE HttpFraming -----------------------------
(***************************************************************************)
(* What a connection's byte stream MEANS, independently of how it was cut  *)
(* into reads: the stream is a sequence of messages, each one a request    *)
(* line, header lines, an empty line and as many body units as the first   *)
(* Content-Length header announces.  Messages are taken in order, each as  *)
(* soon as it is complete or later, until a message that is malformed is   *)
(* rejected.  HttpContext implements this specification.                   *)
(*                                                                         *)
(* Positions are counts of units: a message "at p" starts with unit p + 1. *)
(***************************************************************************)
EXTENDS HttpText

VARIABLES
  stream,     \* every unit received so far
  taken,      \* the messages taken, in order
  rejected    \* a malformed message has been met

vars == <<stream, taken, rejected>>

Least(S) == CHOOSE i \in S : \A j \in S : i <= j

Breaks(s, p) == {i \in p + 1 .. Len(s) : s[i] = CRLF}

(* The unit after which the line containing break i starts, from p on.     *)
LineStart(s, p, i) ==
  CHOOSE q \in p .. i - 1 :
    /\ q = p \/ s[q] = CRLF
    /\ \A j \in q + 1 .. i - 1 : s[j] # CRLF

LineAt(s, p, i) == SubSeq(s, LineStart(s, p, i) + 1, i - 1)

(* The breaks that end an empty line after the request line of p.          *)
EmptyLines(s, p) ==
  {i \in Breaks(s, p) : i - 1 \in Breaks(s, p)}

HasHead(s, p)  == EmptyLines(s, p) # {}
EndOfHead(s, p) == Least(EmptyLines(s, p))

(* The breaks that end a header line of the message at p.                  *)
HeaderBreaks(s, p) ==
  {i \in Breaks(s, p) : /\ i # Least(Breaks(s, p))
                        /\ HasHead(s, p) => i < EndOfHead(s, p)}

Headers(s, p) ==
  LET lines(k) == {i \in HeaderBreaks(s, p) : KeyOf(LineAt(s, p, i)) = k}
      names    == {KeyOf(LineAt(s, p, i)) : i \in HeaderBreaks(s, p)}
  IN  [k \in names |-> ValueOf(LineAt(s, p, Least(lines(k))))]

ContentLength(s, p) == GetHeader(Headers(s, p), "Content-Length")

BodyLength(s, p) ==
  IF ContentLength(s, p) = "" THEN 0 ELSE Stoul[ContentLength(s, p)]

Malformed(s, p) ==
  \/ /\ Breaks(s, p) # {}
     /\ ~ ParseRequestLine(LineAt(s, p, Least(Breaks(s, p))))
  \/ \E i \in HeaderBreaks(s, p) : ~ ParseHeaderLine(LineAt(s, p, i))
  \/ HasHead(s, p) /\ BodyLength(s, p) = -1

Complete(s, p) ==
  /\ ~ Malformed(s, p)
  /\ HasHead(s, p)
  /\ Len(s) >= EndOfHead(s, p) + BodyLength(s, p)

Message(s, p) ==
  LET line == LineAt(s, p, Least(Breaks(s, p)))
      head == EndOfHead(s, p)
      end  == head + BodyLength(s, p)
  IN  [from |-> p, to |-> end,
       method |-> MethodOf(line), version |-> VersionOf(line),
       headers |-> Headers(s, p), body |-> SubSeq(s, head + 1, end)]

Taken == IF taken = <<>> THEN 0 ELSE taken[Len(taken)].to

-----------------------------------------------------------------------------

Init == stream = <<>> /\ taken = <<>> /\ rejected = FALSE

Receive ==
  /\ \E u \in Alphabet : stream' = Append(stream, u)
  /\ UNCHANGED <<taken, rejected>>

Take ==
  /\ ~ rejected /\ Complete(stream, Taken)
  /\ taken' = Append(taken, Message(stream, Taken))
  /\ UNCHANGED <<stream, rejected>>

Reject ==
  /\ ~ rejected /\ Malformed(stream, Taken)
  /\ rejected' = TRUE
  /\ UNCHANGED <<stream, taken>>

Next == Receive \/ Take \/ Reject

Spec == Init /\ [][Next]_vars

=============================================================================
