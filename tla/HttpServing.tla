---------------------------- MODULE HttpServing -----------------------------
(***************************************************************************)
(* What a connection of the server promises its peer, independently of     *)
(* reads, parser states, callbacks and exceptions: the messages that the   *)
(* received stream MEANS (HttpFraming) are answered in their order, one    *)
(* answer each, none before its message is complete; an answer may close   *)
(* the connection, and the server may give it up at any time, but nothing  *)
(* is answered behind that.  HttpServer implements this specification.     *)
(***************************************************************************)
EXTENDS Sequences

CONSTANTS Alphabet, CRLF, Stoul

VARIABLES
  stream,     \* every unit received so far
  answers,    \* the answers sent: the message each is about, whether it closes
  open        \* further messages may be answered

vars == <<stream, answers, open>>

Framing ==
  INSTANCE HttpFraming WITH
    taken    <- [i \in DOMAIN answers |-> answers[i].message],
    rejected <- ~ open

Init == stream = <<>> /\ answers = <<>> /\ open = TRUE

Receive ==
  /\ \E u \in Alphabet : stream' = Append(stream, u)
  /\ UNCHANGED <<answers, open>>

Answer ==
  /\ open /\ Framing!Complete(stream, Framing!Taken)
  /\ \E close \in BOOLEAN :
       /\ answers' = Append(answers,
            [message |-> Framing!Message(stream, Framing!Taken), close |-> close])
       /\ open' = ~ close
  /\ UNCHANGED stream

GiveUp ==
  /\ open' = FALSE
  /\ UNCHANGED <<stream, answers>>

Next == Receive \/ Answer \/ GiveUp

Spec == Init /\ [][Next]_vars

=============================================================================
