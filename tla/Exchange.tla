------------------------------ MODULE Exchange ------------------------------
(***************************************************************************)
(* What a connection promises to the programs at its ends, without bytes:  *)
(* the server handles the requests in their order, each of them as it was  *)
(* sent or refused, and answers each once; the client hears the answer to  *)
(* a request once, and before it sends the next.                           *)
(*                                                                         *)
(* A connection may end at any time, which is no step of this module.  A   *)
(* client that is lost among the bytes, as one without assertions may be,  *)
(* hears anything.                                                         *)
(***************************************************************************)
EXTENDS Sequences, Integers

CONSTANT Nothing   \* what a handler is given of a body it refuses

VARIABLES
  sent,      \* requests, each with the message of its body
  handled,   \* what the handlers were given of them
  answer,    \* the last one
  heard,     \* answers
  lost       \* whether the client has lost its place

connection == <<sent, handled, answer, heard, lost>>

Init ==
  /\ sent = <<>> /\ handled = <<>> /\ heard = <<>>
  /\ answer = Nothing /\ lost = FALSE

IsAppended(s, t) == \E x \in {t[Len(t)]} : t = Append(s, x)

Send ==
  /\ lost \/ Len(heard) = Len(sent)
  /\ IsAppended(sent, sent')
  /\ UNCHANGED <<handled, answer, heard, lost>>

Handle ==
  /\ Len(handled) < Len(sent)
  /\ LET x == sent[Len(handled) + 1]
     IN  /\ \E message \in {Nothing, [proto |-> x.req.proto, body |-> x.body]} :
              handled' = Append(handled, message)
         /\ answer'.id = x.req.id
  /\ UNCHANGED <<sent, heard, lost>>

IsAnswered == Len(heard) < Len(sent) /\ Len(handled) = Len(sent)

Hear ==
  /\ ~lost /\ IsAnswered
  /\ heard' = Append(heard, answer)
  /\ UNCHANGED <<sent, handled, answer, lost>>

Mishear ==
  /\ lost \/ IsAnswered
  /\ lost' /\ IsAppended(heard, heard')
  /\ UNCHANGED <<sent, handled, answer>>

Next == Send \/ Handle \/ Hear \/ Mishear

Spec == Init /\ [][Next]_connection
=============================================================================
