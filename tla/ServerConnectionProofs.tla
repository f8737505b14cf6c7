------------------------ MODULE ServerConnectionProofs ------------------------
(***************************************************************************)
(* Proofs about ServerConnection, for every number of requests and every   *)
(* size of a response: types, then the order and the number of the bytes,  *)
(* then the implementation of ResponseStream.                              *)
(*                                                                         *)
(* The order rests on one fact about the bytes of the wire followed by     *)
(* those of the list: byte i belongs to response (i - 1) \div Units        *)
(* ("in place").  Serial numbers are assumed not to wrap.                  *)
(***************************************************************************)
EXTENDS ServerConnection, SequenceTheorems, TLAPS

\* The quotient and the remainder bounds of the integer division that numbers the bytes.
LEMMA DivBounds ==
    ASSUME NEW u \in Nat \ {0}, NEW x \in Nat
    PROVE  /\ x \div u \in Nat
           /\ (x \div u) * u <= x
           /\ x < (x \div u) * u + u
  OBVIOUS

\* Multiplying by a size keeps the order.
LEMMA ProductMonotone ==
    ASSUME NEW u \in Nat, NEW a \in Nat, NEW b \in Nat, a <= b
    PROVE  a * u <= b * u
  OBVIOUS

\* The bounds determine the quotient: how a byte is found to be of response q.
LEMMA DivUnique ==
    ASSUME NEW u \in Nat \ {0}, NEW x \in Nat, NEW q \in Nat,
           q * u <= x, x < q * u + u
    PROVE  x \div u = q
<1> DEFINE d == x \div u
<1>1. d \in Nat /\ d * u <= x /\ x < d * u + u
  BY DivBounds
<1> HIDE DEF d
<1>2. ~(d < q)
  <2> SUFFICES ASSUME d < q PROVE FALSE
    OBVIOUS
  <2>1. (d + 1) * u <= q * u
    BY <1>1, ProductMonotone
  <2>2. (d + 1) * u = d * u + u
    BY <1>1
  <2> QED
    BY <1>1, <2>1, <2>2
<1>3. ~(q < d)
  <2> SUFFICES ASSUME q < d PROVE FALSE
    OBVIOUS
  <2>1. (q + 1) * u <= d * u
    BY <1>1, ProductMonotone
  <2>2. (q + 1) * u = q * u + u
    OBVIOUS
  <2> QED
    BY <1>1, <2>1, <2>2
<1> QED
  BY <1>1, <1>2, <1>3 DEF d

-----------------------------------------------------------------------------
(* The bytes of a batch of responses and what a write loop leaves of them.  *)

\* The encoding of a sequence of responses: its length, and the response of each byte.
LEMMA BytesProperties ==
    ASSUME NEW S, NEW rs \in Seq(S)
    PROVE  /\ Bytes(rs) \in Seq(S)
           /\ Len(Bytes(rs)) = Len(rs) * Units
           /\ \A i \in 1 .. Len(rs) * Units :
                 /\ (i - 1) \div Units \in 0 .. Len(rs) - 1
                 /\ Bytes(rs)[i] = rs[((i - 1) \div Units) + 1]
<1> USE ConnectionAssumption
<1>1. Len(rs) \in Nat /\ Len(rs) * Units \in Nat
  OBVIOUS
<1>2. ASSUME NEW i \in 1 .. Len(rs) * Units
      PROVE  (i - 1) \div Units \in 0 .. Len(rs) - 1
  <2> DEFINE q == (i - 1) \div Units
  <2>1. i - 1 \in Nat
    BY <1>1
  <2>2. q \in Nat /\ q * Units <= i - 1
    BY <2>1, DivBounds
  <2> HIDE DEF q
  <2>3. ~(Len(rs) <= q)
    <3> SUFFICES ASSUME Len(rs) <= q PROVE FALSE
      OBVIOUS
    <3>1. Len(rs) * Units <= q * Units
      BY <1>1, <2>2, ProductMonotone
    <3> QED
      BY <1>1, <2>2, <3>1
  <2> QED
    BY <1>1, <2>2, <2>3 DEF q
<1>3. \A i \in 1 .. Len(rs) * Units : rs[((i - 1) \div Units) + 1] \in S
  <2> TAKE i \in 1 .. Len(rs) * Units
  <2> DEFINE q == (i - 1) \div Units
  <2>1. q \in 0 .. Len(rs) - 1
    BY <1>2
  <2> HIDE DEF q
  <2>2. rs[q + 1] \in S
    BY <1>1, <2>1, ElementOfSeq
  <2> QED
    BY <2>2 DEF q
<1>4. Bytes(rs) \in [1 .. Len(rs) * Units -> S]
  BY <1>3 DEF Bytes
<1>5. Bytes(rs) \in Seq(S) /\ Len(Bytes(rs)) = Len(rs) * Units
  BY <1>1, <1>4
<1> QED
  BY <1>2, <1>5 DEF Bytes

\* The responses one Reply sends are requests, numbered on from its own.
LEMMA BatchType ==
    ASSUME TypeOK, NEW k \in Requests, NEW r \in Following
    PROVE  /\ Batch(k, r) \in Seq(Requests)
           /\ Len(Batch(k, r)) = r + 1
           /\ r \in Nat
<1> USE ConnectionAssumption
<1>1. r \in 0 .. MaxRequests /\ CanFollow(r)
  BY DEF Following
<1>2. ASSUME NEW i \in 1 .. r + 1, i # 1
      PROVE  held[sendNo + i - 1] \in Requests
  <2>1. sendNo + (i - 1) \in DOMAIN held
    BY <1>1, <1>2 DEF CanFollow
  <2>2. sendNo + (i - 1) = sendNo + i - 1
    BY <1>1 DEF TypeOK
  <2> QED
    BY <2>1, <2>2 DEF TypeOK
<1>3. Batch(k, r) \in [1 .. r + 1 -> Requests]
  BY <1>1, <1>2 DEF Batch
<1> QED
  BY <1>1, <1>3

\* What an outcome of a write loop is made of.
LEMMA OutcomesType ==
    ASSUME NEW S, NEW bytes \in Seq(S), NEW o \in Outcomes(bytes)
    PROVE  /\ o.out \in 0 .. Len(bytes)
           /\ o.err \in {"none", "again", "error"}
           /\ o.err = "none" <=> o.out = Len(bytes)
           /\ sock = "rst" => o.err = "error" /\ o.out = 0
  BY DEF Outcomes

\* A write loop keeps the types of the wire and the socket.
LEMMA WrittenType ==
    ASSUME TypeOK, NEW bytes \in Seq(Requests), NEW o \in Outcomes(bytes),
           Written(bytes, o)
    PROVE  /\ wire' \in Seq(Requests)
           /\ writable' \in BOOLEAN
           /\ sock' \in {"open", "fin", "rst", "closed"}
           /\ ready' \in BOOLEAN
<1>1. o.out \in 0 .. Len(bytes) /\ Len(bytes) \in Nat
  BY OutcomesType
<1>2. SubSeq(bytes, 1, o.out) \in Seq(Requests)
  <2>1. \A i \in 1 .. o.out : bytes[i] \in Requests
    BY <1>1, ElementOfSeq
  <2> QED
    BY <1>1, <2>1, SubSeqProperties
<1>3. wire' \in Seq(Requests)
  BY <1>2, ConcatProperties DEF Written, TypeOK
<1>4. writable' \in BOOLEAN
  BY DEF Written
<1>5. ready' \in BOOLEAN
  BY DEF Written
<1>6. sock' \in {"open", "fin", "rst", "closed"}
  BY DEF Written, TypeOK
<1> QED
  BY <1>3, <1>4, <1>5, <1>6

\* What is left of bytes of which the first "out" are gone.
LEMMA RestProperties ==
    ASSUME NEW S, NEW bytes \in Seq(S), NEW out \in 0 .. Len(bytes)
    PROVE  /\ SubSeq(bytes, out + 1, Len(bytes)) \in Seq(S)
           /\ Len(SubSeq(bytes, out + 1, Len(bytes))) = Len(bytes) - out
           /\ \A i \in 1 .. Len(bytes) - out :
                 SubSeq(bytes, out + 1, Len(bytes))[i] = bytes[out + i]
<1>1. Len(bytes) \in Nat /\ out \in Nat
  OBVIOUS
<1>2. \A i \in out + 1 .. Len(bytes) : bytes[i] \in S
  BY <1>1, ElementOfSeq
<1>3. /\ SubSeq(bytes, out + 1, Len(bytes)) \in Seq(S)
      /\ Len(SubSeq(bytes, out + 1, Len(bytes))) =
            IF out + 1 <= Len(bytes) THEN Len(bytes) - (out + 1) + 1 ELSE 0
      /\ \A i \in 1 .. Len(bytes) - (out + 1) + 1 :
            SubSeq(bytes, out + 1, Len(bytes))[i] = bytes[out + 1 + i - 1]
  BY <1>1, <1>2, SubSeqProperties
<1>4. \A i \in 1 .. Len(bytes) - out : out + 1 + i - 1 = out + i
  BY <1>1
<1> QED
  BY <1>1, <1>3, <1>4

\* Taking serials out of the held responses keeps their type.
LEMMA WithoutType ==
    ASSUME TypeOK, NEW serials
    PROVE  /\ DOMAIN Without(serials) \subseteq Nat
           /\ Without(serials) \in [DOMAIN Without(serials) -> Requests]
  BY DEF Without, TypeOK

-----------------------------------------------------------------------------
(* Type correctness.                                                       *)

\* Process always finds a packet to give to the user.
TypeInv ==
    /\ TypeOK
    /\ pc = "process" => packets # <<>>

\* Reply keeps the types, whichever of its ways it takes (HttpServerHandler::Reply).
LEMMA ReplyType ==
    ASSUME TypeInv, NEW k \in Requests, Reply(k)
    PROVE  TypeInv'
<1> USE ConnectionAssumption DEF TypeInv
<1>1. /\ offered' \subseteq Requests
      /\ closeAfterSend' \in BOOLEAN
      /\ UNCHANGED <<state, keepAlive, recvNo, alive, pc, pe, packets, timers, inbuf>>
  BY DEF Reply, loop, TypeOK
<1> DEFINE Typed == /\ sendNo' \in Nat
                    /\ DOMAIN held' \subseteq Nat
                    /\ held' \in [DOMAIN held' -> Requests]
                    /\ blobs' \in Seq(Requests)
                    /\ wire' \in Seq(Requests)
                    /\ writable' \in BOOLEAN
                    /\ sock' \in {"open", "fin", "rst", "closed"}
                    /\ ready' \in BOOLEAN
<1>2. Typed
  <2>1. CASE Hold(k)
    <3>1. k \in Nat /\ Serial(k) \in Nat
      BY DEF Serial, Requests
    <3> QED
      BY <2>1, <3>1 DEF Hold, TypeOK
  <2>2. CASE Refuse(k)
    BY <2>2 DEF Refuse, TypeOK
  <2>3. ASSUME NEW r \in Following, Queue(k, r)
        PROVE  Typed
    <3>1. Batch(k, r) \in Seq(Requests) /\ r \in Nat
      BY BatchType
    <3>2. Bytes(Batch(k, r)) \in Seq(Requests)
      BY <3>1, BytesProperties
    <3>3. blobs' \in Seq(Requests)
      BY <2>3, <3>2, ConcatProperties DEF Queue, TypeOK
    <3>4. DOMAIN held' \subseteq Nat /\ held' \in [DOMAIN held' -> Requests]
      BY <2>3, WithoutType DEF Queue
    <3>5. sendNo' \in Nat
      BY <2>3, <3>1 DEF Queue, TypeOK
    <3>6. UNCHANGED <<wire, sock, writable, ready>>
      BY <2>3 DEF Queue
    <3> QED
      BY <3>3, <3>4, <3>5, <3>6 DEF TypeOK
  <2>4. ASSUME NEW r \in Following, Send(k, r)
        PROVE  Typed
    <3>1. Batch(k, r) \in Seq(Requests) /\ r \in Nat /\ Len(Batch(k, r)) = r + 1
      BY BatchType
    <3>2. Bytes(Batch(k, r)) \in Seq(Requests) /\ Len(Bytes(Batch(k, r))) = (r + 1) * Units
      BY <3>1, BytesProperties
    <3>3. PICK o \in Outcomes(Bytes(Batch(k, r))) :
            /\ Written(Bytes(Batch(k, r)), o)
            /\ blobs' = SubSeq(Bytes(Batch(k, r)), o.out + 1, (r + 1) * Units)
      BY <2>4 DEF Send
    <3>4. o.out \in 0 .. Len(Bytes(Batch(k, r)))
      BY <3>2, OutcomesType
    <3>5. blobs' \in Seq(Requests)
      BY <3>2, <3>3, <3>4, RestProperties
    <3>6. DOMAIN held' \subseteq Nat /\ held' \in [DOMAIN held' -> Requests]
      BY <2>4, WithoutType DEF Send
    <3>7. sendNo' \in Nat
      <4>1. sendNo' = sendNo + r + 1
        BY <2>4 DEF Send
      <4>2. sendNo \in Nat
        BY DEF TypeOK
      <4> QED
        BY <3>1, <4>1, <4>2
    <3> QED
      BY <3>2, <3>3, <3>5, <3>6, <3>7, WrittenType
  <2>5. ASSUME NEW r \in Following, SendFails(k, r)
        PROVE  Typed
    <3>1. Batch(k, r) \in Seq(Requests)
      BY BatchType
    <3>2. Bytes(Batch(k, r)) \in Seq(Requests)
      BY <3>1, BytesProperties
    <3>3. PICK o \in Outcomes(Bytes(Batch(k, r))) :
            /\ Written(Bytes(Batch(k, r)), o)
            /\ sendNo' = sendNo + (o.out \div Units)
            /\ held' = Without(sendNo + 1 .. sendNo + (o.out \div Units))
      BY <2>5 DEF SendFails
    <3>4. o.out \in Nat
      BY <3>2, OutcomesType
    <3>5. o.out \div Units \in Nat
      BY <3>4, DivBounds
    <3>6. sendNo' \in Nat
      BY <3>3, <3>5 DEF TypeOK
    <3>7. DOMAIN held' \subseteq Nat /\ held' \in [DOMAIN held' -> Requests]
      BY <3>3, WithoutType
    <3>8. blobs' \in Seq(Requests)
      BY <2>5 DEF SendFails, TypeOK
    <3> QED
      BY <3>2, <3>3, <3>6, <3>7, <3>8, WrittenType
  <2> QED
    BY <2>1, <2>2, <2>3, <2>4, <2>5 DEF Reply
<1> QED
  BY <1>1, <1>2 DEF TypeOK

\* DoWrite keeps the types (BaseIoHandler::DoWrite).
LEMMA WriteBlobsType ==
    ASSUME TypeInv, WriteBlobs
    PROVE  TypeInv'
<1> USE DEF TypeInv
<1>1. PICK o \in Outcomes(blobs) :
        /\ Written(blobs, o)
        /\ blobs' = SubSeq(blobs, o.out + 1, Len(blobs))
        /\ pe' = CASE o.err = "error" -> "PE_WRITE_FAILED"
                   [] o.err = "none" /\ closeAfterSend -> "PE_DECODE_FAILED"
                   [] OTHER -> "PE_NONE"
  BY DEF WriteBlobs
<1>2. blobs \in Seq(Requests) /\ o.out \in 0 .. Len(blobs)
  BY OutcomesType DEF TypeOK
<1>3. blobs' \in Seq(Requests)
  BY <1>1, <1>2, RestProperties
<1>4. pe' \in Errors
  BY <1>1 DEF Errors
<1>5. /\ wire' \in Seq(Requests)
      /\ writable' \in BOOLEAN
      /\ sock' \in {"open", "fin", "rst", "closed"}
      /\ ready' \in BOOLEAN
  BY <1>1, <1>2, WrittenType
<1>6. pc' \in Places /\ pc' # "process"
  BY DEF WriteBlobs, Places
<1> QED
  BY <1>3, <1>4, <1>5, <1>6 DEF WriteBlobs, TypeOK, http

\* The read step of DoRead keeps the types (BaseIoHandler::DoRead).
LEMMA ReadType ==
    ASSUME TypeInv, NEW n \in 1 .. Len(inbuf), ReadPackets(n) \/ ReadGarbage(n)
    PROVE  TypeInv'
<1> USE DEF TypeInv
<1>1. inbuf \in Seq(Messages) /\ Len(inbuf) \in Nat /\ n \in 0 .. Len(inbuf)
  BY DEF TypeOK
<1>2. /\ SubSeq(inbuf, n + 1, Len(inbuf)) \in Seq(Messages)
      /\ SubSeq(inbuf, 1, n) \in Seq(Messages)
      /\ Len(SubSeq(inbuf, 1, n)) = n
  <2>1. \A i \in 1 .. n : inbuf[i] \in Messages
    BY <1>1, ElementOfSeq
  <2> QED
    BY <1>1, <2>1, RestProperties, SubSeqProperties
<1>3. CASE ReadPackets(n)
  <2>1. packets' # <<>>
    BY <1>1, <1>2, <1>3 DEF ReadPackets
  <2> QED
    BY <1>2, <1>3, <2>1 DEF ReadPackets, TypeOK, conn, http, Places
<1>4. CASE ReadGarbage(n)
  BY <1>2, <1>4 DEF ReadGarbage, TypeOK, conn, http, Places, Errors
<1> QED
  BY <1>3, <1>4

\* Every step keeps the types and what the types need of the numbering.
LEMMA TypeInvStep == TypeInv /\ [Next]_vars => TypeInv'
<1> SUFFICES ASSUME TypeInv, [Next]_vars PROVE TypeInv'
  OBVIOUS
<1> USE DEF TypeInv, TypeOK, conn, http, loop, kernel
<1>1. CASE EpollWait
  BY <1>1 DEF EpollWait, Places
<1>2. CASE ReadNothing
  BY <1>2 DEF ReadNothing, Places
<1>3. ASSUME NEW n \in 1 .. Len(inbuf), ReadPackets(n) \/ ReadGarbage(n)
      PROVE  TypeInv'
  BY <1>3, ReadType
<1>4. CASE ReadEnds
  BY <1>4 DEF ReadEnds, Places, Errors
<1>5. CASE Process
  <2>1. Tail(packets) \in Seq(Messages)
    BY <1>5, HeadTailProperties DEF Process
  <2> QED
    BY <1>5, <2>1 DEF Process, Places
<1>6. CASE UserAccepts
  BY <1>6 DEF UserAccepts, Places
<1>7. CASE UserBreaks
  BY <1>7 DEF UserBreaks, CloseSocket, Places, States
<1>8. CASE NextPacket
  BY <1>8 DEF NextPacket, Places
<1>9. CASE WriteNothing
  BY <1>9 DEF WriteNothing, Places
<1>10. CASE WriteBlobs
  BY <1>10, WriteBlobsType
<1>11. CASE Report
  BY <1>11 DEF Report, Places, States
<1>12. CASE ProcessError
  BY <1>12 DEF ProcessError, Places
<1>13. CASE UserIsTold
  <2>1. /\ pc' \in {"close", "expire"}
        /\ UNCHANGED <<closeAfterSend, blobs, keepAlive, recvNo, sendNo, held, pe,
                       packets, timers, offered, wire, inbuf, writable>>
    BY <1>13 DEF UserIsTold
  <2>2. /\ state' \in States /\ sock' \in {"open", "fin", "rst", "closed"}
        /\ ready' \in BOOLEAN /\ alive' \in BOOLEAN
    <3>1. CASE CloseSocket /\ alive' = FALSE
      BY <3>1 DEF CloseSocket, States
    <3>2. CASE UNCHANGED <<state, sock, ready, alive>>
      BY <3>2
    <3> QED
      BY <1>13, <3>1, <3>2 DEF UserIsTold
  <2> QED
    BY <2>1, <2>2 DEF Places
<1>14. CASE CloseAfterError
  BY <1>14 DEF CloseAfterError, CloseSocket, Places, States, Errors
<1>15. ASSUME NEW t \in timers, TimerFires(t)
       PROVE  TypeInv'
  BY <1>15 DEF TimerFires, Places, Errors
<1>16. ASSUME NEW m \in Messages, SendMessage(m)
       PROVE  TypeInv'
  BY <1>16, AppendProperties DEF SendMessage
<1>17. CASE PeerCloses
  BY <1>17 DEF PeerCloses
<1>18. CASE PeerResets
  BY <1>18 DEF PeerResets
<1>19. CASE SpaceFreed
  BY <1>19 DEF SpaceFreed
<1>20. ASSUME NEW k \in Requests, Reply(k)
       PROVE  TypeInv'
  BY <1>20, ReplyType
<1>21. CASE Close
  BY <1>21 DEF Close, CloseSocket, States
<1>22. CASE AddIdleTimeout
  BY <1>22 DEF AddIdleTimeout
<1>23. CASE UNCHANGED vars
  BY <1>23 DEF vars
<1> QED
  BY <1>1, <1>2, <1>3, <1>4, <1>5, <1>6, <1>7, <1>8, <1>9, <1>10, <1>11, <1>12,
     <1>13, <1>14, <1>15, <1>16, <1>17, <1>18, <1>19, <1>20, <1>21, <1>22, <1>23
     DEF Next, Loop, Environment, User

\* A new connection satisfies the type invariant.
LEMMA TypeInvInit == Init => TypeInv
<1> SUFFICES ASSUME Init PROVE TypeInv
  OBVIOUS
<1>1. DOMAIN held = {} /\ held \in [DOMAIN held -> Requests]
  BY DEF Init
<1>2. \A S : <<>> \in Seq(S)
  BY EmptySeq
<1>3. blobs \in Seq(Requests) /\ wire \in Seq(Requests)
  BY <1>2 DEF Init
<1>4. packets \in Seq(Messages) /\ inbuf \in Seq(Messages)
  BY <1>2 DEF Init
<1> QED
  BY <1>1, <1>3, <1>4 DEF Init, TypeInv, TypeOK, States, Places, Errors

\* The variables keep their types, and DoRead never calls Process without a packet
\* (BaseIoHandler::DoRead, http_server_handler.cc:118-121).
THEOREM TypeCorrect == Spec => []TypeOK
<1>1. TypeInv => TypeOK
  BY DEF TypeInv
<1> QED
  BY <1>1, TypeInvInit, TypeInvStep, PTL DEF Spec

-----------------------------------------------------------------------------
(* The order of the responses, while the serial numbers do not wrap.       *)

\* The bytes s stand in the stream from place "from" on, and belong to given
\* responses.
InPlace(s, from, given) ==
    \A i \in 1 .. Len(s) : s[i] = (from + i - 1) \div Units /\ s[i] \in given

\* The inductive invariant.  While the socket works, what is written and what is
\* queued are together exactly the responses before _SendNo; a broken or closed
\* socket takes no more bytes, so the order on the wire is kept for ever.
OrderInv ==
    /\ TypeInv
    /\ ConnectedHasSocket
    /\ \A s \in DOMAIN held : held[s] = s /\ s \in offered
    /\ NoByteLost
    /\ sock \in {"open", "fin"} => InPlace(blobs, Len(wire), offered)
    /\ InPlace(wire, 0, offered)

\* Bytes in place after bytes in place are in place.
LEMMA InPlaceConcat ==
    ASSUME NEW s \in Seq(Requests), NEW t \in Seq(Requests), NEW from \in Nat, NEW given,
           InPlace(s, from, given), InPlace(t, from + Len(s), given)
    PROVE  InPlace(s \o t, from, given)
<1>1. Len(s) \in Nat /\ Len(t) \in Nat
  OBVIOUS
<1>2. /\ Len(s \o t) = Len(s) + Len(t)
      /\ \A i \in 1 .. Len(s) + Len(t) :
            (s \o t)[i] = IF i <= Len(s) THEN s[i] ELSE t[i - Len(s)]
  BY ConcatProperties
<1>3. SUFFICES ASSUME NEW i \in 1 .. Len(s) + Len(t)
               PROVE  (s \o t)[i] = (from + i - 1) \div Units /\ (s \o t)[i] \in given
  BY <1>2 DEF InPlace
<1>4. CASE i <= Len(s)
  BY <1>1, <1>2, <1>4 DEF InPlace
<1>5. CASE Len(s) < i
  <2>1. i - Len(s) \in 1 .. Len(t) /\ from + Len(s) + (i - Len(s)) - 1 = from + i - 1
    BY <1>1, <1>5
  <2>2. (s \o t)[i] = t[i - Len(s)]
    BY <1>1, <1>2, <1>5
  <2> QED
    BY <2>1, <2>2 DEF InPlace
<1> QED
  BY <1>1, <1>4, <1>5

\* Both parts of bytes in place are in place.
LEMMA InPlaceSplit ==
    ASSUME NEW s \in Seq(Requests), NEW from \in Nat, NEW given,
           InPlace(s, from, given), NEW out \in 0 .. Len(s)
    PROVE  /\ SubSeq(s, 1, out) \in Seq(Requests)
           /\ Len(SubSeq(s, 1, out)) = out
           /\ InPlace(SubSeq(s, 1, out), from, given)
           /\ InPlace(SubSeq(s, out + 1, Len(s)), from + out, given)
<1>1. Len(s) \in Nat /\ out \in Nat
  OBVIOUS
<1>2. /\ SubSeq(s, 1, out) \in Seq(Requests)
      /\ Len(SubSeq(s, 1, out)) = out
      /\ \A i \in 1 .. out : SubSeq(s, 1, out)[i] = s[i]
  <2>1. \A i \in 1 .. out : s[i] \in Requests
    BY <1>1, ElementOfSeq
  <2>2. /\ SubSeq(s, 1, out) \in Seq(Requests)
        /\ Len(SubSeq(s, 1, out)) = IF 1 <= out THEN out - 1 + 1 ELSE 0
        /\ \A i \in 1 .. out - 1 + 1 : SubSeq(s, 1, out)[i] = s[1 + i - 1]
    BY <1>1, <2>1, SubSeqProperties
  <2>3. \A i \in 1 .. out : 1 + i - 1 = i
    OBVIOUS
  <2> QED
    BY <1>1, <2>2, <2>3
<1>3. InPlace(SubSeq(s, 1, out), from, given)
  BY <1>1, <1>2 DEF InPlace
<1>4. InPlace(SubSeq(s, out + 1, Len(s)), from + out, given)
  <2>1. /\ Len(SubSeq(s, out + 1, Len(s))) = Len(s) - out
        /\ \A i \in 1 .. Len(s) - out : SubSeq(s, out + 1, Len(s))[i] = s[out + i]
    BY RestProperties
  <2>2. \A i \in 1 .. Len(s) - out :
            out + i \in 1 .. Len(s) /\ from + (out + i) - 1 = from + out + i - 1
    BY <1>1
  <2> QED
    BY <2>1, <2>2 DEF InPlace
<1> QED
  BY <1>2, <1>3, <1>4

\* The responses sent by one Reply follow those sent before.
LEMMA BatchInPlace ==
    ASSUME MaxRequests <= SerialMod, OrderInv,
           NEW k \in Requests, Serial(k) = sendNo, NEW r \in Following
    PROVE  /\ Bytes(Batch(k, r)) \in Seq(Requests)
           /\ Len(Bytes(Batch(k, r))) = (r + 1) * Units
           /\ InPlace(Bytes(Batch(k, r)), sendNo * Units, offered \cup {k})
<1> USE ConnectionAssumption
<1> DEFINE b == Batch(k, r)
<1>1. TypeOK /\ sendNo \in Nat
  BY DEF OrderInv, TypeInv, TypeOK
<1>2. b \in Seq(Requests) /\ Len(b) = r + 1 /\ r \in Nat
  BY <1>1, BatchType
<1>3. /\ Bytes(b) \in Seq(Requests)
      /\ Len(Bytes(b)) = (r + 1) * Units
      /\ \A i \in 1 .. (r + 1) * Units :
            (i - 1) \div Units \in 0 .. r /\ Bytes(b)[i] = b[((i - 1) \div Units) + 1]
  <2>1. /\ Bytes(b) \in Seq(Requests)
        /\ Len(Bytes(b)) = Len(b) * Units
        /\ \A i \in 1 .. Len(b) * Units :
              /\ (i - 1) \div Units \in 0 .. Len(b) - 1
              /\ Bytes(b)[i] = b[((i - 1) \div Units) + 1]
    BY <1>2, BytesProperties
  <2>2. Len(b) - 1 = r
    BY <1>2
  <2> HIDE DEF b
  <2> QED
    BY <1>2, <2>1, <2>2
<1>4. k = sendNo
  BY DEF Serial, Requests
<1>5. \A q \in 0 .. r : b[q + 1] = sendNo + q /\ b[q + 1] \in offered \cup {k}
  <2> TAKE q \in 0 .. r
  <2>1. CASE q = 0
    <3>1. b[1] = k
      BY <1>2 DEF Batch
    <3>2. q + 1 = 1 /\ sendNo + q = k
      BY <1>1, <1>4, <2>1
    <3> HIDE DEF b
    <3> QED
      BY <3>1, <3>2
  <2>2. CASE q # 0
    <3>1. b[q + 1] = held[sendNo + (q + 1) - 1]
      BY <1>2, <2>2 DEF Batch
    <3>2. sendNo + (q + 1) - 1 = sendNo + q
      BY <1>1
    <3>3. sendNo + q \in DOMAIN held
      BY <1>2, <2>2 DEF Following, CanFollow
    <3> QED
      BY <3>1, <3>2, <3>3 DEF OrderInv
  <2> QED
    BY <2>1, <2>2
<1> HIDE DEF b
<1>6. ASSUME NEW i \in 1 .. (r + 1) * Units
      PROVE  /\ Bytes(b)[i] = (sendNo * Units + i - 1) \div Units
             /\ Bytes(b)[i] \in offered \cup {k}
  <2> DEFINE q == (i - 1) \div Units
  <2>1. i - 1 \in Nat
    BY <1>2
  <2>2. q \in Nat /\ q * Units <= i - 1 /\ i - 1 < q * Units + Units
    BY <2>1, DivBounds
  <2>3. q \in 0 .. r /\ Bytes(b)[i] = b[q + 1]
    BY <1>3
  <2> HIDE DEF q
  <2>4. (sendNo + q) * Units = sendNo * Units + q * Units
    BY <1>1, <2>2
  <2>5. sendNo * Units \in Nat /\ q * Units \in Nat /\ sendNo + q \in Nat
    BY <1>1, <2>2
  <2>6. sendNo * Units + i - 1 \in Nat
    BY <2>1, <2>5
  <2>7. (sendNo * Units + i - 1) \div Units = sendNo + q
    <3>1. (sendNo + q) * Units <= sendNo * Units + i - 1
      BY <2>1, <2>2, <2>4, <2>5
    <3>2. sendNo * Units + i - 1 < (sendNo + q) * Units + Units
      BY <2>1, <2>2, <2>4, <2>5
    <3> QED
      BY <2>5, <2>6, <3>1, <3>2, DivUnique
  <2> QED
    BY <1>5, <2>3, <2>7
<1>7. InPlace(Bytes(b), sendNo * Units, offered \cup {k})
  BY <1>3, <1>6 DEF InPlace
<1> QED
  BY <1>3, <1>7 DEF b

\* A write loop puts bytes that are in place on the wire, and leaves the rest in place.
LEMMA WireStep ==
    ASSUME TypeOK, NEW given, InPlace(wire, 0, given), sock # "closed",
           NEW bytes \in Seq(Requests), NEW o \in Outcomes(bytes), Written(bytes, o),
           sock \in {"open", "fin"} => InPlace(bytes, Len(wire), given)
    PROVE  /\ InPlace(wire', 0, given)
           /\ Len(wire') = Len(wire) + o.out
           /\ sock' # "closed"
           /\ sock' \in {"open", "fin"} =>
                 /\ sock \in {"open", "fin"}
                 /\ InPlace(SubSeq(bytes, o.out + 1, Len(bytes)), Len(wire'), given)
<1>1. wire \in Seq(Requests) /\ Len(wire) \in Nat
  BY DEF TypeOK
<1>2. o.out \in 0 .. Len(bytes) /\ Len(bytes) \in Nat
  BY OutcomesType
<1>3. /\ wire' = wire \o SubSeq(bytes, 1, o.out)
      /\ sock' = IF o.err = "error" THEN "rst" ELSE sock
  BY DEF Written
<1>4. CASE sock \in {"open", "fin"}
  <2>1. /\ SubSeq(bytes, 1, o.out) \in Seq(Requests)
        /\ Len(SubSeq(bytes, 1, o.out)) = o.out
        /\ InPlace(SubSeq(bytes, 1, o.out), Len(wire), given)
        /\ InPlace(SubSeq(bytes, o.out + 1, Len(bytes)), Len(wire) + o.out, given)
    BY <1>1, <1>2, <1>4, InPlaceSplit
  <2>2. InPlace(SubSeq(bytes, 1, o.out), 0 + Len(wire), given)
    BY <1>1, <2>1
  <2>3. InPlace(wire', 0, given)
    BY <1>1, <1>3, <2>1, <2>2, InPlaceConcat
  <2>4. Len(wire') = Len(wire) + o.out
    BY <1>1, <1>3, <2>1, ConcatProperties
  <2> QED
    BY <1>3, <1>4, <2>1, <2>3, <2>4
<1>5. CASE sock = "rst"
  <2>1. o.out = 0 /\ o.err = "error"
    BY <1>5, OutcomesType
  <2>2. SubSeq(bytes, 1, 0) = <<>>
    BY SubSeqEmpty
  <2>3. wire' = wire
    BY <1>1, <1>3, <2>1, <2>2, ConcatEmptySeq
  <2>4. sock' = "rst"
    BY <1>3, <2>1
  <2>5. InPlace(wire', 0, given)
    BY <2>3
  <2> QED
    BY <1>1, <2>1, <2>3, <2>4, <2>5
<1> QED
  BY <1>4, <1>5 DEF TypeOK

\* Bytes in place below a bound are in place below a larger one.
LEMMA InPlaceMonotone ==
    ASSUME NEW s, NEW from, NEW given, NEW more, given \subseteq more,
           InPlace(s, from, given)
    PROVE  InPlace(s, from, more)
  BY DEF InPlace

\* What Reply keeps besides the types, stated for its changed variables.
LEMMA ReplyOrder ==
    ASSUME MaxRequests <= SerialMod, OrderInv, NEW k \in Requests, Reply(k)
    PROVE  OrderInv'
<1> USE ConnectionAssumption
<1>1. TypeInv' /\ TypeInv /\ TypeOK
  BY ReplyType DEF OrderInv, TypeInv
<1>2. /\ offered' = offered \cup {k}
      /\ UNCHANGED state
      /\ k \in Nat /\ sendNo \in Nat /\ wire \in Seq(Requests) /\ blobs \in Seq(Requests)
  BY <1>1 DEF Reply, Requests, TypeOK
<1>3. InPlace(wire, 0, offered')
  BY <1>2, InPlaceMonotone DEF OrderInv
<1>4. sock \in {"open", "fin"} => InPlace(blobs, Len(wire), offered')
  BY <1>2, InPlaceMonotone DEF OrderInv
<1> DEFINE HeldOk == \A s \in DOMAIN held' : held'[s] = s /\ s \in offered'
           StreamOk == /\ state = "CS_CONNECTED" => sock' # "closed"
                       /\ sock' \in {"open", "fin"} => Len(wire') + Len(blobs') = sendNo' * Units
                       /\ sock' \in {"open", "fin"} => InPlace(blobs', Len(wire'), offered')
                       /\ InPlace(wire', 0, offered')
<1>5. \A serials : \A s \in DOMAIN Without(serials) :
          Without(serials)[s] = s /\ s \in offered'
  BY <1>2 DEF Without, OrderInv
<1>6. HeldOk /\ StreamOk
  <2>1. CASE Hold(k)
    <3>1. Serial(k) = k
      BY DEF Serial, Requests
    <3>2. HeldOk
      BY <1>2, <2>1, <3>1 DEF Hold, OrderInv
    <3>3. UNCHANGED <<blobs, sendNo, wire, sock>>
      BY <2>1 DEF Hold
    <3>4. StreamOk
      BY <1>3, <1>4, <3>3 DEF OrderInv, ConnectedHasSocket, NoByteLost
    <3> QED
      BY <3>2, <3>4
  <2>2. CASE Refuse(k)
    <3>1. UNCHANGED <<blobs, sendNo, held, wire, sock>>
      BY <2>2 DEF Refuse
    <3>2. HeldOk
      BY <1>2, <3>1 DEF OrderInv
    <3>3. StreamOk
      BY <1>3, <1>4, <3>1 DEF OrderInv, ConnectedHasSocket, NoByteLost
    <3> QED
      BY <3>2, <3>3
  <2>3. ASSUME Serial(k) = sendNo, NEW r \in Following,
               Queue(k, r) \/ Send(k, r) \/ SendFails(k, r)
        PROVE  HeldOk /\ StreamOk
    <3> DEFINE bytes == Bytes(Batch(k, r))
    <3>1. /\ bytes \in Seq(Requests)
          /\ Len(bytes) = (r + 1) * Units
          /\ InPlace(bytes, sendNo * Units, offered')
      BY <1>2, <2>3, BatchInPlace
    <3>2. r \in Nat
      BY <1>1, BatchType
    <3>3. HeldOk
      BY <1>5, <2>3 DEF Queue, Send, SendFails
    <3>4. /\ Len(wire) \in Nat /\ Len(blobs) \in Nat
          /\ (sendNo + r + 1) * Units = sendNo * Units + (r + 1) * Units
          /\ sendNo * Units \in Nat /\ (r + 1) * Units \in Nat
      BY <1>2, <3>2
    <3> HIDE DEF bytes
    <3>5. CASE Queue(k, r)
      <4>1. /\ blobs' = blobs \o bytes
            /\ sendNo' = sendNo + r + 1
            /\ UNCHANGED <<wire, sock>>
        BY <3>5 DEF Queue, bytes
      <4>2. Len(blobs') = Len(blobs) + (r + 1) * Units
        BY <1>2, <3>1, <4>1, ConcatProperties
      <4>3. ASSUME sock \in {"open", "fin"}
            PROVE  /\ Len(wire) + Len(blobs) = sendNo * Units
                   /\ InPlace(blobs', Len(wire), offered')
        <5>1. Len(wire) + Len(blobs) = sendNo * Units
          BY <4>3 DEF OrderInv, NoByteLost
        <5>2. InPlace(bytes, Len(wire) + Len(blobs), offered')
          BY <3>1, <5>1
        <5>3. InPlace(blobs \o bytes, Len(wire), offered')
          BY <1>2, <1>4, <3>1, <3>4, <4>3, <5>2, InPlaceConcat
        <5> QED
          BY <4>1, <5>1, <5>3
      <4>4. sock \in {"open", "fin"} => Len(wire) + Len(blobs') = (sendNo + r + 1) * Units
        BY <3>4, <4>2, <4>3
      <4>5. state = "CS_CONNECTED" => sock # "closed"
        BY DEF OrderInv, ConnectedHasSocket
      <4>6. StreamOk
        BY <1>3, <4>1, <4>3, <4>4, <4>5
      <4> QED
        BY <3>3, <4>6
    <3>6. ASSUME Send(k, r) \/ SendFails(k, r)
          PROVE  StreamOk
      <4>1. blobs = <<>> /\ Len(blobs) = 0 /\ sock # "closed"
        BY <3>6 DEF Send, SendFails, OrderInv, ConnectedHasSocket
      <4>2. sock \in {"open", "fin"} => Len(wire) = sendNo * Units
        BY <3>4, <4>1 DEF OrderInv, NoByteLost
      <4>3. sock \in {"open", "fin"} => InPlace(bytes, Len(wire), offered')
        BY <3>1, <4>2
      <4>4. PICK o \in Outcomes(bytes) :
              /\ Written(bytes, o)
              /\ o.err = "error" \/
                    /\ blobs' = SubSeq(bytes, o.out + 1, (r + 1) * Units)
                    /\ sendNo' = sendNo + r + 1
        BY <3>6 DEF Send, SendFails, bytes
      <4>5. /\ InPlace(wire', 0, offered')
            /\ Len(wire') = Len(wire) + o.out
            /\ sock' # "closed"
            /\ sock' \in {"open", "fin"} =>
                  /\ sock \in {"open", "fin"}
                  /\ InPlace(SubSeq(bytes, o.out + 1, Len(bytes)), Len(wire'), offered')
        BY <1>1, <1>3, <3>1, <4>1, <4>3, <4>4, WireStep
      <4>6. o.out \in 0 .. Len(bytes)
        BY <3>1, OutcomesType
      <4>7. CASE o.err = "error"
        <5>1. sock' = "rst"
          BY <4>4, <4>7 DEF Written
        <5> QED
          BY <4>5, <5>1
      <4>8. CASE o.err # "error"
        <5>1. blobs' = SubSeq(bytes, o.out + 1, Len(bytes)) /\ sendNo' = sendNo + r + 1
          BY <3>1, <4>4, <4>8
        <5>2. Len(blobs') = Len(bytes) - o.out
          BY <3>1, <4>6, <5>1, RestProperties
        <5>3. sock' \in {"open", "fin"} => Len(wire') + Len(blobs') = (sendNo + r + 1) * Units
          BY <3>1, <3>4, <4>2, <4>5, <4>6, <5>2
        <5> QED
          BY <4>5, <5>1, <5>3
      <4> QED
        BY <4>7, <4>8
    <3> QED
      BY <2>3, <3>3, <3>5, <3>6
  <2> QED
    BY <2>1, <2>2, <2>3 DEF Reply
<1> QED
  BY <1>1, <1>2, <1>6 DEF OrderInv, ConnectedHasSocket, NoByteLost

\* DoWrite keeps the order: what it sends and what it keeps were in the list.
LEMMA WriteBlobsOrder ==
    ASSUME OrderInv, WriteBlobs
    PROVE  OrderInv'
<1>1. TypeInv' /\ TypeOK
  BY WriteBlobsType DEF OrderInv, TypeInv
<1>2. PICK o \in Outcomes(blobs) :
        Written(blobs, o) /\ blobs' = SubSeq(blobs, o.out + 1, Len(blobs))
  BY DEF WriteBlobs
<1>3. sock # "closed" /\ UNCHANGED <<state, sendNo, held, offered>>
  BY DEF WriteBlobs, OrderInv, ConnectedHasSocket, http
<1>4. blobs \in Seq(Requests) /\ wire \in Seq(Requests) /\ sendNo \in Nat
  BY <1>1 DEF TypeOK
<1>5. /\ InPlace(wire', 0, offered)
      /\ Len(wire') = Len(wire) + o.out
      /\ sock' # "closed"
      /\ sock' \in {"open", "fin"} =>
            sock \in {"open", "fin"} /\ InPlace(blobs', Len(wire'), offered)
  BY <1>1, <1>2, <1>3, <1>4, WireStep DEF OrderInv
<1>6. o.out \in 0 .. Len(blobs) /\ Len(blobs') = Len(blobs) - o.out
  BY <1>2, <1>4, OutcomesType, RestProperties
<1>7. sock' \in {"open", "fin"} => Len(wire') + Len(blobs') = sendNo * Units
  BY <1>4, <1>5, <1>6, ConnectionAssumption DEF OrderInv, NoByteLost
<1> QED
  BY <1>1, <1>3, <1>5, <1>7 DEF OrderInv, ConnectedHasSocket, NoByteLost

\* The other steps leave the bytes alone, or close the connection.
LEMMA OtherOrder ==
    ASSUME OrderInv, TypeInv', UNCHANGED <<blobs, sendNo, held, offered, wire>>,
           \/ UNCHANGED <<state, sock>>
           \/ state' # "CS_CONNECTED" /\ sock' = sock
           \/ state' # "CS_CONNECTED" /\ sock' = "closed"
           \/ state' = state /\ sock \in {"open", "fin"} /\ sock' \in {"fin", "rst"}
    PROVE  OrderInv'
<1>1. sock' \in {"open", "fin"} => sock \in {"open", "fin"}
  BY DEF OrderInv, TypeInv, TypeOK
<1>2. InPlace(wire', 0, offered')
  BY DEF OrderInv
<1>3. sock' \in {"open", "fin"} => InPlace(blobs', Len(wire'), offered')
  BY <1>1 DEF OrderInv
<1>4. NoByteLost'
  BY <1>1 DEF OrderInv, NoByteLost
<1>5. ConnectedHasSocket'
  BY DEF OrderInv, ConnectedHasSocket
<1> QED
  BY <1>2, <1>3, <1>4, <1>5 DEF OrderInv

\* Closing keeps the order: the bytes stay, and a closed connection owes none.
LEMMA CloseSocketOrder ==
    ASSUME OrderInv, TypeInv', UNCHANGED <<blobs, sendNo, held, offered, wire>>, CloseSocket
    PROVE  OrderInv'
<1>1. state' # "CS_CONNECTED" /\ (sock' = sock \/ sock' = "closed")
  BY DEF CloseSocket
<1> QED
  BY <1>1, OtherOrder

\* Every step keeps the invariant of the order.
LEMMA OrderInvStep ==
    ASSUME MaxRequests <= SerialMod, OrderInv, [Next]_vars
    PROVE  OrderInv'
<1>1. TypeInv'
  BY TypeInvStep DEF OrderInv
<1> USE <1>1 DEF conn, http, loop, kernel
<1>2. CASE EpollWait \/ ReadNothing \/ ReadEnds \/ Process \/ UserAccepts \/ NextPacket
  BY <1>2, OtherOrder DEF EpollWait, ReadNothing, ReadEnds, Process, UserAccepts, NextPacket
<1>3. ASSUME NEW n \in 1 .. Len(inbuf), ReadPackets(n) \/ ReadGarbage(n)
      PROVE  OrderInv'
  BY <1>3, OtherOrder DEF ReadPackets, ReadGarbage
<1>4. CASE UserBreaks
  BY <1>4, CloseSocketOrder DEF UserBreaks
<1>5. CASE WriteNothing \/ ProcessError
  BY <1>5, OtherOrder DEF WriteNothing, ProcessError
<1>6. CASE WriteBlobs
  BY <1>6, WriteBlobsOrder
<1>7. CASE Report
  <2>1. state' # "CS_CONNECTED" /\ sock' = sock
    BY <1>7 DEF Report
  <2> QED
    BY <1>7, <2>1, OtherOrder DEF Report
<1>8. CASE UserIsTold
  <2>1. CASE CloseSocket
    BY <1>8, <2>1, CloseSocketOrder DEF UserIsTold
  <2>2. CASE UNCHANGED <<state, sock, ready, alive>>
    BY <1>8, <2>2, OtherOrder DEF UserIsTold
  <2> QED
    BY <1>8, <2>1, <2>2 DEF UserIsTold
<1>9. CASE CloseAfterError
  BY <1>9, CloseSocketOrder DEF CloseAfterError
<1>10. ASSUME NEW t \in timers, TimerFires(t)
       PROVE  OrderInv'
  BY <1>10, OtherOrder DEF TimerFires
<1>11. ASSUME NEW m \in Messages, SendMessage(m)
       PROVE  OrderInv'
  BY <1>11, OtherOrder DEF SendMessage
<1>12. CASE PeerCloses \/ PeerResets \/ SpaceFreed
  BY <1>12, OtherOrder DEF PeerCloses, PeerResets, SpaceFreed
<1>13. ASSUME NEW k \in Requests, Reply(k)
       PROVE  OrderInv'
  BY <1>13, ReplyOrder
<1>14. CASE Close
  BY <1>14, CloseSocketOrder DEF Close
<1>15. CASE AddIdleTimeout
  BY <1>15, OtherOrder DEF AddIdleTimeout
<1>16. CASE UNCHANGED vars
  BY <1>16, OtherOrder DEF vars
<1> QED
  BY <1>2, <1>3, <1>4, <1>5, <1>6, <1>7, <1>8, <1>9, <1>10, <1>11, <1>12, <1>13,
     <1>14, <1>15, <1>16 DEF Next, Loop, Environment, User

\* A new connection has sent nothing, in order.
LEMMA OrderInvInit == Init => OrderInv
<1> SUFFICES ASSUME Init PROVE OrderInv
  OBVIOUS
<1>1. TypeInv
  BY TypeInvInit
<1>2. DOMAIN held = {} /\ Len(wire) = 0 /\ Len(blobs) = 0
  BY DEF Init
<1>3. NoByteLost
  <2>1. 0 * Units = 0
    BY ConnectionAssumption
  <2> QED
    BY <1>2, <2>1 DEF Init, NoByteLost
<1> QED
  BY <1>1, <1>2, <1>3 DEF Init, OrderInv, ConnectedHasSocket, InPlace

\* The invariant gives the three properties of the connection.
LEMMA OrderInvImplies == OrderInv => ResponsesInOrder /\ NoByteLost /\ ConnectedHasSocket
<1> SUFFICES ASSUME OrderInv PROVE ResponsesInOrder
  BY DEF OrderInv
<1>1. Len(wire) \in Nat
  BY DEF OrderInv, TypeInv, TypeOK
<1>2. \A i \in 1 .. Len(wire) : 0 + i - 1 = i - 1
  BY <1>1
<1> QED
  BY <1>1, <1>2 DEF OrderInv, InPlace, ResponsesInOrder

\* Whatever the number of requests and the order of the calls of Reply, the
\* responses leave whole and in the order of the requests, as long as the 32-bit
\* serial number does not wrap (HttpServerHandler::Reply, BaseIoHandler::DoWrite).
THEOREM Order ==
    ASSUME MaxRequests <= SerialMod
    PROVE  Spec => []ResponsesInOrder
<1>1. OrderInv /\ [Next]_vars => OrderInv'
  BY OrderInvStep
<1> QED
  BY <1>1, OrderInvInit, OrderInvImplies, PTL DEF Spec

\* On a working socket the written and the queued bytes are together exactly the
\* responses taken for sending (SendPacketWithoutLock, DoWrite).
THEOREM ByteConservation ==
    ASSUME MaxRequests <= SerialMod
    PROVE  Spec => []NoByteLost
<1>1. OrderInv /\ [Next]_vars => OrderInv'
  BY OrderInvStep
<1> QED
  BY <1>1, OrderInvInit, OrderInvImplies, PTL DEF Spec

\* A connection in CS_CONNECTED has its socket, also when a user thread calls Close
\* between DoRead and ReportErrorAndClose.
THEOREM ConnectedSocket ==
    ASSUME MaxRequests <= SerialMod
    PROVE  Spec => []ConnectedHasSocket
<1>1. OrderInv /\ [Next]_vars => OrderInv'
  BY OrderInvStep
<1> QED
  BY <1>1, OrderInvInit, OrderInvImplies, PTL DEF Spec

-----------------------------------------------------------------------------
(* The connection implements the abstract stream of responses.             *)

\* A write loop adds to the wire.
LEMMA WireGrows ==
    ASSUME TypeOK, NEW bytes \in Seq(Requests), NEW o \in Outcomes(bytes), Written(bytes, o)
    PROVE  Len(wire) <= Len(wire')
<1>1. wire \in Seq(Requests) /\ o.out \in 0 .. Len(bytes) /\ Len(bytes) \in Nat
  BY OutcomesType DEF TypeOK
<1>2. \A i \in 1 .. o.out : bytes[i] \in Requests
  BY <1>1, ElementOfSeq
<1>3. SubSeq(bytes, 1, o.out) \in Seq(Requests)
  BY <1>1, <1>2, SubSeqProperties
<1>4. Len(wire') = Len(wire) + Len(SubSeq(bytes, 1, o.out))
  BY <1>1, <1>3, ConcatProperties DEF Written
<1> QED
  BY <1>1, <1>3, <1>4

\* Reply adds to the wire, and to the answers its own request only.
LEMMA ReplyGrows ==
    ASSUME TypeOK, NEW k \in Requests, Reply(k)
    PROVE  Len(wire) <= Len(wire')
<1>1. Len(wire) \in Nat
  BY DEF TypeOK
<1>2. CASE UNCHANGED wire
  BY <1>1, <1>2
<1>3. ASSUME NEW r \in Following, Send(k, r) \/ SendFails(k, r)
      PROVE  Len(wire) <= Len(wire')
  <2>1. Bytes(Batch(k, r)) \in Seq(Requests)
    BY BatchType, BytesProperties
  <2>2. \E o \in Outcomes(Bytes(Batch(k, r))) : Written(Bytes(Batch(k, r)), o)
    BY <1>3 DEF Send, SendFails
  <2> QED
    BY <2>1, <2>2, WireGrows
<1> QED
  BY <1>2, <1>3 DEF Reply, Hold, Refuse, Queue

\* A wire in order is what the abstract stream may hold.
LEMMA InPlaceGrows ==
    ASSUME OrderInv', Len(wire) <= Len(wire')
    PROVE  Stream!Grows(offered')
<1>1. Len(wire') \in Nat
  BY DEF OrderInv, TypeInv, TypeOK
<1>2. \A i \in 1 .. Len(wire') : 0 + i - 1 = i - 1
  BY <1>1
<1> QED
  BY <1>1, <1>2 DEF OrderInv, InPlace, Stream!Grows

\* Every step of the connection is a step of the abstract stream, or none.
LEMMA StreamStep ==
    ASSUME OrderInv, OrderInv', [Next]_vars
    PROVE  [Stream!Next]_(Stream!vars)
<1>1. TypeOK
  BY DEF OrderInv, TypeInv
<1>2. ASSUME NEW k \in Requests, Reply(k)
      PROVE  Stream!Next
  <2>1. Stream!Grows(offered')
    BY <1>1, <1>2, ReplyGrows, InPlaceGrows
  <2>2. offered' = offered \cup {k} /\ UNCHANGED recvNo /\ k \in 0 .. recvNo - 1
    BY <1>1, <1>2 DEF Reply, Requests, TypeOK
  <2>3. Stream!Answer(k)
    BY <2>1, <2>2 DEF Stream!Answer
  <2> QED
    BY <2>2, <2>3 DEF Stream!Next
<1>3. CASE WriteBlobs
  <2>1. Len(wire) <= Len(wire')
    BY <1>1, <1>3, WireGrows DEF WriteBlobs, TypeOK
  <2>2. UNCHANGED <<recvNo, offered>>
    BY <1>3 DEF WriteBlobs, http
  <2>3. Stream!Emit
    BY <2>1, <2>2, InPlaceGrows DEF Stream!Emit
  <2> QED
    BY <2>3 DEF Stream!Next
<1>4. CASE Process
  BY <1>4 DEF Process, kernel, Stream!Ask, Stream!Next
<1>5. CASE ~Process /\ ~WriteBlobs /\ ~(\E k \in Requests : Reply(k))
  <2>1. UNCHANGED <<recvNo, offered, wire>>
    BY <1>5 DEF Next, Loop, Environment, User, vars, conn, http, loop, kernel,
       EpollWait, ReadNothing, ReadPackets, ReadGarbage, ReadEnds, UserAccepts, UserBreaks,
       NextPacket, WriteNothing, Report, ProcessError, UserIsTold, CloseAfterError,
       TimerFires, SendMessage, PeerCloses, PeerResets, SpaceFreed, Close, AddIdleTimeout
  <2> QED
    BY <2>1 DEF Stream!vars
<1> QED
  BY <1>2, <1>3, <1>4, <1>5

\* The connection, with its list, map and partial writes, is an implementation of
\* ResponseStream: every byte that leaves answers a request, in order, and only
\* after the user has given that answer.
THEOREM ImplementsStream ==
    ASSUME MaxRequests <= SerialMod
    PROVE  Spec => StreamSpec
<1>1. OrderInv /\ [Next]_vars => OrderInv'
  BY OrderInvStep
<1>2. Init => Stream!Init
  BY DEF Init, Stream!Init
<1>3. OrderInv /\ OrderInv' /\ [Next]_vars => [Stream!Next]_(Stream!vars)
  BY StreamStep
<1> QED
  BY <1>1, <1>2, <1>3, OrderInvInit, PTL DEF Spec, StreamSpec, Stream!Spec

-----------------------------------------------------------------------------
(* Held responses.                                                         *)

\* The inductive invariant: all before _SendNo have been given to Reply, so that a
\* response that comes anew is the next one or a later one; and a connection that
\* refuses a response because it is closed has no socket.
PlaceInv ==
    /\ OrderInv
    /\ EveryReplyHasItsPlace
    /\ \A j \in Nat : j < sendNo => j \in offered
    /\ state = "CS_CLOSED" => sock = "closed"

\* The r-th response that can follow is held and given; the one after the last is not
\* held, or is refused by Encode and erased.
LEMMA FollowingHeld ==
    ASSUME PlaceInv, NEW r \in Following
    PROVE  /\ r \in Nat
           /\ \A i \in 1 .. r : sendNo + i \in DOMAIN held /\ sendNo + i \in offered
           /\ sendNo + r + 1 \in DOMAIN held => sendNo + r + 1 \in RefusedNext(r)
<1>1. /\ r \in 0 .. MaxRequests /\ CanFollow(r) /\ ~CanFollow(r + 1)
      /\ sendNo \in Nat /\ MaxRequests \in Nat
  BY ConnectionAssumption DEF Following, PlaceInv, OrderInv, TypeInv, TypeOK
<1>2. \A s \in DOMAIN held : s > sendNo /\ s \in offered
  BY DEF PlaceInv, OrderInv, EveryReplyHasItsPlace, HeldWaitsForEarlier
<1>3. \A i \in 1 .. r : sendNo + i \in DOMAIN held /\ held[sendNo + i] \notin Unencodable
  BY <1>1 DEF CanFollow
<1>4. ASSUME sendNo + r + 1 \in DOMAIN held
      PROVE  sendNo + r + 1 \in RefusedNext(r)
  <2>1. sendNo + r + 1 = sendNo + (r + 1)
    BY <1>1
  <2>2. held[sendNo + (r + 1)] \in Unencodable
    <3> SUFFICES ASSUME held[sendNo + (r + 1)] \notin Unencodable
                 PROVE  CanFollow(r + 1)
      BY <1>1
    <3>1. ASSUME NEW i \in 1 .. r + 1
          PROVE  sendNo + i \in DOMAIN held /\ held[sendNo + i] \notin Unencodable
      <4>1. i \in 1 .. r \/ i = r + 1
        BY <1>1
      <4> QED
        BY <1>3, <1>4, <2>1, <4>1
    <3> QED
      BY <1>2, <3>1 DEF CanFollow
  <2> QED
    BY <1>2, <1>4, <2>1, <2>2 DEF RefusedNext
<1> QED
  BY <1>1, <1>2, <1>3, <1>4

\* A step that leaves the responses alone, and mends no socket, keeps their places.
LEMMA OtherPlace ==
    ASSUME PlaceInv, OrderInv', UNCHANGED <<held, sendNo, offered>>,
           sock' \in {"open", "fin"} => sock \in {"open", "fin"},
           state' = "CS_CLOSED" => sock' = "closed"
    PROVE  PlaceInv'
  BY DEF PlaceInv, EveryReplyHasItsPlace, HeldWaitsForEarlier, NoReplyLost

\* Closing, too.
LEMMA CloseSocketPlace ==
    ASSUME PlaceInv, OrderInv', UNCHANGED <<held, sendNo, offered>>, CloseSocket
    PROVE  PlaceInv'
<1>1. sock' = "closed"
  BY DEF CloseSocket, PlaceInv
<1> QED
  BY <1>1, OtherPlace

\* Reply gives the response its place: its turn, or the map (Reply).
LEMMA ReplyPlace ==
    ASSUME MaxRequests <= SerialMod, ~Duplicates, PlaceInv, OrderInv',
           NEW k \in Requests, Reply(k)
    PROVE  PlaceInv'
<1>1. /\ k \notin offered /\ offered' = offered \cup {k} /\ UNCHANGED state
      /\ k \in Nat /\ Serial(k) = k /\ sendNo \in Nat
      /\ DOMAIN held \subseteq Nat
  <2>1. k \notin offered /\ offered' = offered \cup {k} /\ UNCHANGED state
    BY DEF Reply
  <2>2. k \in Nat /\ Serial(k) = k
    BY ConnectionAssumption DEF Serial, Requests
  <2>3. sendNo \in Nat /\ DOMAIN held \subseteq Nat
    BY DEF PlaceInv, OrderInv, TypeInv, TypeOK
  <2> QED
    BY <2>1, <2>2, <2>3
<1>2. /\ \A s \in DOMAIN held : s > sendNo /\ held[s] = s
      /\ sock \in {"open", "fin"} =>
            \A j \in offered \ Unencodable : j < sendNo \/ \E s \in DOMAIN held : held[s] = j
      /\ \A j \in Nat : j < sendNo => j \in offered
      /\ state = "CS_CLOSED" => sock = "closed"
  BY DEF PlaceInv, OrderInv, EveryReplyHasItsPlace, HeldWaitsForEarlier, NoReplyLost
<1> DEFINE Later == \A s \in DOMAIN held' : s > sendNo'
           Kept == sock' \in {"open", "fin"} =>
                      \A j \in offered' \ Unencodable :
                         j < sendNo' \/ \E s \in DOMAIN held' : held'[s] = j
           Given == \A j \in Nat : j < sendNo' => j \in offered'
           Closed == state' = "CS_CLOSED" => sock' = "closed"
<1>3. SUFFICES Later /\ Kept /\ Given /\ Closed
  BY DEF PlaceInv, EveryReplyHasItsPlace, HeldWaitsForEarlier, NoReplyLost
<1>4. CASE Hold(k)
  <2>1. /\ k # sendNo /\ UNCHANGED <<sendNo, sock>>
        /\ held' = [s \in DOMAIN held \cup {k} |-> IF s = k THEN k ELSE held[s]]
    BY <1>1, <1>4 DEF Hold
  <2>2. k > sendNo
    BY <1>1, <1>2, <2>1
  <2>3. /\ DOMAIN held' = DOMAIN held \cup {k} /\ held'[k] = k
        /\ \A s \in DOMAIN held : held'[s] = s
    BY <1>2, <2>1
  <2>4. ASSUME sock \in {"open", "fin"}, NEW j \in offered' \ Unencodable
        PROVE  j < sendNo \/ \E s \in DOMAIN held' : held'[s] = j
    BY <1>1, <1>2, <2>3, <2>4
  <2> QED
    BY <1>1, <1>2, <2>1, <2>2, <2>3, <2>4
<1>5. CASE Refuse(k)
  <2>1. /\ UNCHANGED <<sendNo, held, sock>>
        /\ k \in Unencodable \/ state = "CS_CLOSED"
    BY <1>5 DEF Refuse
  <2> QED
    BY <1>1, <1>2, <2>1
<1>6. ASSUME NEW r \in Following, Serial(k) = sendNo, state # "CS_CLOSED",
             Queue(k, r) \/ Send(k, r) \/ SendFails(k, r)
      PROVE  Later /\ Kept /\ Given /\ Closed
  <2>1. /\ r \in Nat
        /\ \A i \in 1 .. r : sendNo + i \in DOMAIN held /\ sendNo + i \in offered
        /\ sendNo + r + 1 \in DOMAIN held => sendNo + r + 1 \in RefusedNext(r)
    BY FollowingHeld
  <2>2. k = sendNo /\ Closed
    BY <1>1, <1>6
  <2>3. ASSUME NEW n \in 0 .. r + 1, sendNo' = sendNo + n
        PROVE  Given
    <3> SUFFICES ASSUME NEW j \in Nat, j < sendNo + n
                 PROVE  j \in offered'
      BY <2>3
    <3>1. CASE j < sendNo
      BY <1>1, <1>2, <3>1
    <3>2. CASE j = sendNo
      BY <1>1, <2>2, <3>2
    <3>3. CASE j > sendNo
      <4>1. j - sendNo \in 1 .. r /\ j = sendNo + (j - sendNo)
        BY <1>1, <2>1, <3>3
      <4> QED
        BY <1>1, <2>1, <4>1
    <3> QED
      BY <1>1, <3>1, <3>2, <3>3
  <2>4. CASE Queue(k, r) \/ Send(k, r)
    <3>1. /\ sendNo' = sendNo + (r + 1)
          /\ held' = Without(sendNo + 1 .. sendNo + r \cup RefusedNext(r))
      BY <1>1, <2>1, <2>4 DEF Queue, Send
    <3>2. ASSUME NEW s \in DOMAIN held, s \notin DOMAIN held'
          PROVE  s < sendNo' \/ s \in Unencodable
      <4>1. s \in sendNo + 1 .. sendNo + r \/ s \in RefusedNext(r)
        BY <3>1, <3>2 DEF Without
      <4>2. s \in RefusedNext(r) => s \in Unencodable
        BY <1>2 DEF RefusedNext
      <4> QED
        BY <1>1, <2>1, <3>1, <4>1, <4>2
    <3>3. \A s \in DOMAIN held' :
            /\ s \in DOMAIN held /\ held'[s] = held[s]
            /\ s \notin sendNo + 1 .. sendNo + r /\ s \notin RefusedNext(r)
      BY <3>1 DEF Without
    <3>4. Later
      <4> SUFFICES ASSUME NEW s \in DOMAIN held'
                   PROVE  s > sendNo + (r + 1)
        BY <3>1
      <4>1. s \in Nat /\ s > sendNo /\ s \notin sendNo + 1 .. sendNo + r
        BY <1>1, <1>2, <3>3
      <4>2. s # sendNo + r + 1
        BY <2>1, <3>3
      <4> QED
        BY <1>1, <2>1, <4>1, <4>2
    <3>5. Kept
      <4> SUFFICES ASSUME sock' \in {"open", "fin"}, NEW j \in offered' \ Unencodable,
                          ~(j < sendNo')
                   PROVE  \E s \in DOMAIN held' : held'[s] = j
        OBVIOUS
      <4>1. sock \in {"open", "fin"}
        <5>1. CASE Queue(k, r)
          BY <5>1 DEF Queue
        <5>2. CASE Send(k, r)
          BY <5>2 DEF Send, Written
        <5> QED
          BY <2>4, <5>1, <5>2
      <4>2. j # k /\ ~(j < sendNo)
        <5>1. offered \subseteq Requests
          BY DEF PlaceInv, OrderInv, TypeInv, TypeOK
        <5>2. j \in Nat
          BY <1>1, <5>1 DEF Requests
        <5> QED
          BY <1>1, <2>1, <2>2, <3>1, <5>2
      <4>3. PICK s \in DOMAIN held : held[s] = j
        BY <1>1, <1>2, <4>1, <4>2
      <4>4. s = j /\ s \in DOMAIN held'
        BY <1>2, <3>2, <4>3
      <4> QED
        BY <3>3, <4>3, <4>4
    <3>6. Given
      BY <2>1, <2>3, <3>1
    <3> QED
      BY <2>2, <3>4, <3>5, <3>6
  <2>5. CASE SendFails(k, r)
    <3>1. PICK o \in Outcomes(Bytes(Batch(k, r))) :
            /\ o.err = "error" /\ Written(Bytes(Batch(k, r)), o)
            /\ sendNo' = sendNo + (o.out \div Units)
            /\ held' = Without(sendNo + 1 .. sendNo + (o.out \div Units))
      BY <2>5 DEF SendFails
    <3> DEFINE n == o.out \div Units
    <3>2. n \in 0 .. r
      <4>1. /\ Bytes(Batch(k, r)) \in Seq(Requests)
            /\ Len(Bytes(Batch(k, r))) = (r + 1) * Units
        BY <1>6, BatchInPlace DEF PlaceInv
      <4>2. o.out \in Nat /\ o.out < (r + 1) * Units
        <5>1. o.out \in 0 .. (r + 1) * Units /\ o.out # (r + 1) * Units
          BY <3>1, <4>1, OutcomesType
        <5>2. (r + 1) * Units \in Nat
          BY <2>1, ConnectionAssumption
        <5> QED
          BY <5>1, <5>2
      <4>3. n \in Nat /\ n * Units <= o.out
        BY <4>2, DivBounds, ConnectionAssumption
      <4> HIDE DEF n
      <4>4. ~(r + 1 <= n)
        <5> SUFFICES ASSUME r + 1 <= n PROVE FALSE
          OBVIOUS
        <5>1. (r + 1) * Units <= n * Units
          BY <2>1, <4>3, ProductMonotone, ConnectionAssumption
        <5>2. n * Units \in Nat /\ (r + 1) * Units \in Nat
          BY <2>1, <4>3, ConnectionAssumption
        <5> QED
          BY <4>2, <4>3, <5>1, <5>2
      <4> QED
        BY <2>1, <4>3, <4>4
    <3>3. sendNo' = sendNo + n /\ held' = Without(sendNo + 1 .. sendNo + n) /\ sock' = "rst"
      BY <3>1 DEF Written
    <3> HIDE DEF n
    <3>4. Later
      <4> SUFFICES ASSUME NEW s \in DOMAIN held'
                   PROVE  s > sendNo + n
        BY <3>3
      <4>1. s \in DOMAIN held /\ s \notin sendNo + 1 .. sendNo + n
        BY <3>3 DEF Without
      <4> QED
        BY <1>1, <1>2, <3>2, <4>1
    <3>5. Given
      BY <2>1, <2>3, <3>2, <3>3
    <3> QED
      BY <2>2, <3>3, <3>4, <3>5
  <2> QED
    BY <1>6, <2>4, <2>5
<1> QED
  BY <1>4, <1>5, <1>6 DEF Reply

\* Every step keeps the invariant of the places.
LEMMA PlaceInvStep ==
    ASSUME MaxRequests <= SerialMod, ~Duplicates, PlaceInv, [Next]_vars
    PROVE  PlaceInv'
<1>1. OrderInv'
  BY OrderInvStep DEF PlaceInv
<1> USE <1>1 DEF conn, http, loop, kernel
<1>2. ConnectedHasSocket /\ (state = "CS_CLOSED" => sock = "closed")
  BY DEF PlaceInv, OrderInv
<1>3. CASE EpollWait \/ ReadNothing \/ ReadEnds \/ Process \/ UserAccepts \/ NextPacket
           \/ WriteNothing \/ ProcessError
  BY <1>2, <1>3, OtherPlace DEF EpollWait, ReadNothing, ReadEnds, Process, UserAccepts,
                                NextPacket, WriteNothing, ProcessError
<1>4. ASSUME NEW n \in 1 .. Len(inbuf), ReadPackets(n) \/ ReadGarbage(n)
      PROVE  PlaceInv'
  BY <1>2, <1>4, OtherPlace DEF ReadPackets, ReadGarbage
<1>5. CASE UserBreaks \/ CloseAfterError \/ Close
  BY <1>5, CloseSocketPlace DEF UserBreaks, CloseAfterError, Close
<1>6. CASE WriteBlobs
  <2>1. state = "CS_CONNECTED" /\ UNCHANGED <<state, held, sendNo, offered>>
    BY <1>6 DEF WriteBlobs
  <2>2. sock' = sock \/ sock' = "rst"
    BY <1>6 DEF WriteBlobs, Written
  <2> QED
    BY <1>2, <2>1, <2>2, OtherPlace
<1>7. CASE Report
  <2>1. state' # "CS_CLOSED" /\ UNCHANGED <<sock, held, sendNo, offered>>
    BY <1>7 DEF Report
  <2> QED
    BY <2>1, OtherPlace
<1>8. CASE UserIsTold
  <2>1. CASE CloseSocket
    BY <1>8, <2>1, CloseSocketPlace DEF UserIsTold
  <2>2. CASE UNCHANGED <<state, sock, ready, alive>>
    BY <1>2, <1>8, <2>2, OtherPlace DEF UserIsTold
  <2> QED
    BY <1>8, <2>1, <2>2 DEF UserIsTold
<1>9. ASSUME NEW t \in timers, TimerFires(t)
      PROVE  PlaceInv'
  BY <1>2, <1>9, OtherPlace DEF TimerFires
<1>10. CASE AddIdleTimeout \/ SpaceFreed \/ (\E m \in Messages : SendMessage(m))
  BY <1>2, <1>10, OtherPlace DEF AddIdleTimeout, SpaceFreed, SendMessage
<1>11. CASE PeerCloses \/ PeerResets
  <2>1. /\ sock \in {"open", "fin"} /\ sock' \in {"fin", "rst"}
        /\ UNCHANGED <<state, held, sendNo, offered>>
    BY <1>11 DEF PeerCloses, PeerResets
  <2> QED
    BY <1>2, <2>1, OtherPlace
<1>12. ASSUME NEW k \in Requests, Reply(k)
       PROVE  PlaceInv'
  BY <1>12, ReplyPlace
<1>13. CASE UNCHANGED vars
  BY <1>2, <1>13, OtherPlace DEF vars
<1> QED
  BY <1>3, <1>4, <1>5, <1>6, <1>7, <1>8, <1>9, <1>10, <1>11, <1>12, <1>13
     DEF Next, Loop, Environment, User

\* To a user who answers each request once, no response is lost while the connection
\* lasts and none is left behind in the map, for any number of requests and any order of
\* the calls of Reply: its turn comes after it is given, also when a write fails midway.
THEOREM RepliesHaveTheirPlaces ==
    ASSUME MaxRequests <= SerialMod, ~Duplicates
    PROVE  Spec => []EveryReplyHasItsPlace
<1>1. Init => PlaceInv
  BY OrderInvInit DEF Init, PlaceInv, EveryReplyHasItsPlace, HeldWaitsForEarlier, NoReplyLost
<1>2. PlaceInv /\ [Next]_vars => PlaceInv'
  BY PlaceInvStep
<1>3. PlaceInv => EveryReplyHasItsPlace
  BY DEF PlaceInv
<1> QED
  BY <1>1, <1>2, <1>3, PTL DEF Spec

-----------------------------------------------------------------------------
(* The keep-alive timer.                                                   *)

\* While the user's handler has a request or an error, and on a connection that does not
\* ask to be kept, no keep-alive timer is pending (HttpServerHandler::Process), whatever
\* other threads do meanwhile.
THEOREM KeepAliveIsBetweenCalls == Spec => []KeepAliveBetweenCalls
<1>1. Init => KeepAliveBetweenCalls
  BY DEF Init, KeepAliveBetweenCalls
<1>2. KeepAliveBetweenCalls /\ [Next]_vars => KeepAliveBetweenCalls'
  <2> SUFFICES ASSUME KeepAliveBetweenCalls, [Next]_vars
               PROVE  KeepAliveBetweenCalls'
    OBVIOUS
  <2> USE DEF KeepAliveBetweenCalls, conn, http, loop, kernel
  <2>1. CASE Process \/ ProcessError
    BY <2>1 DEF Process, ProcessError
  <2>2. CASE UserAccepts
    BY <2>2 DEF UserAccepts
  <2>3. CASE \/ EpollWait \/ ReadNothing \/ ReadEnds \/ NextPacket \/ WriteNothing
             \/ WriteBlobs \/ Report \/ (\E t \in timers : TimerFires(t))
             \/ \E n \in 1 .. Len(inbuf) : ReadPackets(n) \/ ReadGarbage(n)
    BY <2>3 DEF EpollWait, ReadNothing, ReadEnds, NextPacket, WriteNothing, WriteBlobs,
                Report, TimerFires, ReadPackets, ReadGarbage
  <2>4. CASE UserBreaks \/ UserIsTold \/ CloseAfterError
    BY <2>4 DEF UserBreaks, UserIsTold, CloseAfterError
  <2>5. CASE Close \/ AddIdleTimeout \/ (\E k \in Requests : Reply(k))
    BY <2>5 DEF Close, AddIdleTimeout, Reply
  <2>6. CASE PeerCloses \/ PeerResets \/ SpaceFreed \/ (\E m \in Messages : SendMessage(m))
    BY <2>6 DEF PeerCloses, PeerResets, SpaceFreed, SendMessage
  <2>7. CASE UNCHANGED vars
    BY <2>7 DEF vars
  <2> QED
    BY <2>1, <2>2, <2>3, <2>4, <2>5, <2>6, <2>7 DEF Next, Loop, Environment, User
<1> QED
  BY <1>1, <1>2, PTL DEF Spec

=============================================================================
