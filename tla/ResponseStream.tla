---------------------------- MODULE ResponseStream ----------------------------
(***************************************************************************)
(* What a server connection promises to its peer, with no buffers, sockets *)
(* or threads: the user answers the requests in any order, and the bytes   *)
(* that leave are those of the answers in the order of the requests.       *)
(***************************************************************************)
EXTENDS Naturals, Sequences

CONSTANT Units  \* bytes of an answer

VARIABLES
    asked,     \* requests received
    answered,  \* requests the user has answered
    stream     \* bytes sent, each named by the request it answers

vars == <<asked, answered, stream>>

Init == asked = 0 /\ answered = {} /\ stream = <<>>

\* The stream may grow, and holds the answers from the first, only given ones:
\* what it held before is then a prefix of it.
Grows(given) ==
    /\ Len(stream) <= Len(stream')
    /\ \A i \in 1 .. Len(stream') :
          stream'[i] = (i - 1) \div Units /\ stream'[i] \in given

Ask ==
    /\ asked' = asked + 1
    /\ UNCHANGED <<answered, stream>>

\* An answer is given, and bytes may leave: of this answer and of answers given
\* before that waited for it.
Answer(k) ==
    /\ answered' = answered \cup {k}
    /\ Grows(answered')
    /\ UNCHANGED asked

\* Bytes of answers given before leave.
Emit ==
    /\ Grows(answered)
    /\ UNCHANGED <<asked, answered>>

Next == Ask \/ (\E k \in 0 .. asked - 1 : Answer(k)) \/ Emit

Spec == Init /\ [][Next]_vars
=============================================================================
