------------------------ MODULE ClientConnectionProofs ------------------------
(***************************************************************************)
(* Proofs about ClientConnection, for any number of requests, timed or not, *)
(* with and without a time-out of Connect.                                 *)
(***************************************************************************)
EXTENDS ClientConnection, SequenceTheorems, TLAPS

(* Types, and where the packets are.                                       *)

\* Connect has not decided yet, or the packets of one Read are being processed.
ClientTypes ==
    /\ TypeOK
    /\ creator # "done" => state = "CS_NONE"
    /\ pc = "process" => packets # <<>>
    /\ packets # <<>> => pc \in {"process", "user", "packet"}

\* The first n and the others of a sequence.
LEMMA Cut ==
    ASSUME NEW S, NEW s \in Seq(S), NEW n \in 1 .. Len(s)
    PROVE  /\ SubSeq(s, 1, n) \in Seq(S) /\ SubSeq(s, n + 1, Len(s)) \in Seq(S)
           /\ Len(SubSeq(s, 1, n)) = n /\ Len(SubSeq(s, n + 1, Len(s))) = Len(s) - n
           /\ \A i \in 1 .. n : SubSeq(s, 1, n)[i] = s[i]
           /\ \A i \in 1 .. Len(s) - n : SubSeq(s, n + 1, Len(s))[i] = s[n + i]
           /\ SubSeq(s, 1, n) \o SubSeq(s, n + 1, Len(s)) = s
<1>1. Len(s) \in Nat /\ \A i \in 1 .. Len(s) : s[i] \in S
  OBVIOUS
<1>2. /\ SubSeq(s, 1, n) \in Seq(S) /\ Len(SubSeq(s, 1, n)) = n
      /\ \A i \in 1 .. n : SubSeq(s, 1, n)[i] = s[i]
  BY <1>1, SubSeqProperties
<1>3. /\ SubSeq(s, n + 1, Len(s)) \in Seq(S)
      /\ Len(SubSeq(s, n + 1, Len(s))) = Len(s) - n
      /\ \A i \in 1 .. Len(s) - n : SubSeq(s, n + 1, Len(s))[i] = s[n + i]
  BY <1>1, SubSeqProperties
<1>4. SubSeq(s, 1, n) \o SubSeq(s, n + 1, Len(s)) = s
  BY <1>1, ConcatAdjacentSubSeq, SubSeqFull
<1> QED
  BY <1>2, <1>3, <1>4

\* The first and the others of a sequence.
LEMMA FirstAndRest ==
    ASSUME NEW S, NEW s \in Seq(S), s # <<>>
    PROVE  /\ Head(s) \in S /\ Head(s) = s[1] /\ Tail(s) \in Seq(S)
           /\ Len(s) \in Nat \ {0} /\ Len(Tail(s)) = Len(s) - 1
           /\ \A i \in 1 .. Len(s) - 1 : Tail(s)[i] = s[i + 1]
  BY HeadTailProperties, EmptySeq

\* Every step keeps the types.
LEMMA ClientTypesStep ==
    ASSUME ClientTypes, [Next]_vars
    PROVE  ClientTypes'
<1> USE DEF ClientTypes, TypeOK, conn, client, loop, user, kernel
<1>0. /\ Requests \subseteq Answers /\ Untold \in Answers /\ Failed \in Answers
      /\ ConnectTimeout \in BOOLEAN
  BY ClientAssumption DEF Requests, Answers, Untold, Failed
<1>1. CASE Connect
  <2>1. CASE AddIOEvent
    BY <2>1 DEF AddIOEvent
  <2>2. CASE ConnectFails
    BY <2>2 DEF ConnectFails, Sockets
  <2>3. CASE ConnectsAtOnce
    BY <2>3 DEF ConnectsAtOnce, Sockets
  <2>4. CASE ConnectStarts
    BY <1>0, <2>4 DEF ConnectStarts, Sockets
  <2> QED
    BY <1>1, <2>1, <2>2, <2>3, <2>4 DEF Connect
<1>2. CASE PeerAccepts \/ PeerEnds
  <2>1. sock' \in Sockets /\ ready' \in BOOLEAN
    BY <1>2 DEF PeerAccepts, PeerEnds, Sockets
  <2>2. UNCHANGED <<creator, conn, client, locked, user, loop, wire, inbuf, responded>>
    BY <1>2 DEF PeerAccepts, PeerEnds
  <2> QED
    BY <2>1, <2>2
<1>3. CASE PeerResponds
  <2>1. responded' \in Requests /\ responded' \in 0 .. MaxRequests
    BY <1>3, ClientAssumption DEF PeerResponds, Requests
  <2>2. inbuf' \in Seq(Requests)
    BY <1>3, <2>1, AppendProperties DEF PeerResponds
  <2> QED
    BY SMTT(20), <1>3, <2>1, <2>2 DEF PeerResponds
<1>4. CASE EpollWait \/ Connected \/ ConnectRefused \/ ReadNothing \/ ReadEnds
  BY <1>4, EmptySeq DEF EpollWait, Connected, ConnectRefused, ReadNothing, ReadEnds, Free
<1>5. ASSUME NEW n \in 1 .. Len(inbuf), ReadPackets(n)
      PROVE  ClientTypes'
  <2>1. /\ packets' \in Seq(Requests) /\ Len(packets') = n
        /\ inbuf' \in Seq(Requests)
    BY <1>5, Cut DEF ReadPackets
  <2>2. packets' # <<>>
    BY <2>1, EmptySeq
  <2> QED
    BY <1>5, <2>1, <2>2 DEF ReadPackets
<1>6. CASE Process
  <2>1. /\ packets' \in Seq(Requests) /\ Head(packets) \in Requests
        /\ requests' \in Seq(Requests)
    BY <1>6, FirstAndRest DEF Process
  <2>2. told' \in [Requests -> Answers]
    BY <1>0, <1>6, <2>1 DEF Process
  <2> QED
    BY <1>6, <2>1, <2>2 DEF Process
<1>7. CASE ProcessUnasked \/ UserAccepts \/ UserBreaks \/ NextPacket
  <2>1. CASE ProcessUnasked
    BY <2>1, EmptySeq DEF ProcessUnasked, CloseSocket, Free, Sockets
  <2>2. CASE UserBreaks
    BY <2>2, EmptySeq DEF UserBreaks, CloseSocket, Free, Sockets
  <2>3. CASE UserAccepts \/ NextPacket
    BY <2>3 DEF UserAccepts, NextPacket
  <2> QED
    BY <1>7, <2>1, <2>2, <2>3
<1>8. CASE WriteNothing \/ WriteFails
  BY <1>8 DEF WriteNothing, WriteFails
<1>9. CASE WriteBlobs
  <2>1. PICK n \in 1 .. Len(blobs) :
              /\ wire' = wire \o SubSeq(blobs, 1, n)
              /\ blobs' = SubSeq(blobs, n + 1, Len(blobs))
              /\ ready' = (ready \/ n < Len(blobs))
    BY <1>9 DEF WriteBlobs
  <2>2. wire' \in Seq(Requests) /\ blobs' \in Seq(Requests) /\ ready' \in BOOLEAN
    BY <2>1, Cut, ConcatProperties
  <2> QED
    BY <1>9, <2>2 DEF WriteBlobs
<1>10. CASE Report \/ HandlerReturns \/ ErrorDrained \/ TimeOutDrained \/ CloseAfterError
  BY <1>10, EmptySeq DEF Report, HandlerReturns, ErrorDrained, TimeOutDrained,
                         CloseAfterError, CloseSocket, Free, Sockets
<1>11. CASE DrainRequest
  <2>1. requests' \in Seq(Requests)
    BY <1>11, FirstAndRest DEF DrainRequest
  <2>2. told' \in [Requests -> Answers]
    BY <1>0, <1>11 DEF DrainRequest
  <2> QED
    BY <1>11, <2>1, <2>2 DEF DrainRequest
<1>12. CASE (\E k \in reqTimers : RequestTimerFires(k)) \/ ConnectTimerFires
  BY <1>12 DEF RequestTimerFires, ConnectTimerFires
<1>13. ASSUME NEW k \in Requests, CallRequest(k) \/ RequestFails(k)
       PROVE  ClientTypes'
  BY <1>13 DEF CallRequest, RequestFails
<1>14. ASSUME NEW k \in Requests, RequestSent(k) \/ RequestQueued(k)
       PROVE  ClientTypes'
  <2>1. \A s \in Seq(Requests) : Append(s, k) \in Seq(Requests)
    BY AppendProperties
  <2>2. CASE RequestSent(k)
    BY <2>1, <2>2 DEF RequestSent, Wait
  <2>3. CASE RequestQueued(k)
    BY <2>1, <2>3 DEF RequestQueued, Wait
  <2> QED
    BY <1>14, <2>2, <2>3
<1>15. CASE Close
  <2>1. creator = "done" /\ state' = "CS_CLOSED"
    BY <1>15 DEF Close, CloseSocket, Free
  <2>2. sock' \in Sockets /\ ready' \in BOOLEAN /\ connTimer' \in BOOLEAN
    BY <1>15 DEF Close, CloseSocket, Sockets
  <2> QED
    BY <1>15, <2>1, <2>2 DEF Close
<1>16. CASE UNCHANGED vars
  BY <1>16 DEF vars
<1> QED
  BY <1>1, <1>2, <1>3, <1>4, <1>5, <1>6, <1>7, <1>8, <1>9, <1>10, <1>11, <1>12, <1>13,
     <1>14, <1>15, <1>16 DEF Next, Peer, Loop, User, RequestReturns

\* A new connection satisfies them.
LEMMA ClientTypesInit == Init => ClientTypes
<1>1. <<>> \in Seq(Requests) /\ 0 \in 0 .. MaxRequests /\ Untold \in Answers
  BY ClientAssumption, EmptySeq DEF Untold, Answers
<1> QED
  BY <1>1 DEF Init, ClientTypes, TypeOK, Sockets

-----------------------------------------------------------------------------
(* Timers.                                                                 *)

\* A request leaves the list with its timer, and the timer of the connection goes with
\* its state (Process, OnTimeOut, CheckConnectingState, CloseWithoutLock).
LEMMA TimersStep ==
    ASSUME ClientTypes, TimersOfPending, ConnectTimerWhileConnecting, [Next]_vars
    PROVE  TimersOfPending' /\ ConnectTimerWhileConnecting'
<1> USE DEF conn, client, loop, user, kernel
<1>1. requests \in Seq(Requests) /\ (creator # "done" => state = "CS_NONE")
  BY DEF ClientTypes, TypeOK
<1>2. ASSUME requests' = Tail(requests), requests # <<>>,
             reqTimers' = reqTimers \ {Head(requests)}
      PROVE  TimersOfPending'
  <2>1. /\ Head(requests) = requests[1] /\ requests' \in Seq(Requests)
        /\ Len(requests) \in Nat \ {0} /\ Len(requests') = Len(requests) - 1
        /\ \A i \in 1 .. Len(requests) - 1 : requests'[i] = requests[i + 1]
    BY <1>1, <1>2, FirstAndRest
  <2>2. ASSUME NEW k \in reqTimers'
        PROVE  k \in Pending'
    <3>1. PICK i \in 1 .. Len(requests) : requests[i] = k
      BY <1>1, <1>2, <2>2 DEF TimersOfPending, Pending
    <3>2. i # 1
      BY <1>2, <2>1, <2>2, <3>1
    <3>3. i - 1 \in 1 .. Len(requests') /\ requests'[i - 1] = k
      BY <1>1, <2>1, <3>1, <3>2
    <3> QED
      BY <2>1, <3>3 DEF Pending
  <2> QED
    BY <2>2 DEF TimersOfPending
<1>3. ASSUME UNCHANGED requests, reqTimers' \subseteq reqTimers
      PROVE  TimersOfPending'
  BY <1>3 DEF TimersOfPending, Pending
<1>4. ASSUME NEW k \in Requests, requests' = Append(requests, k),
             reqTimers' = reqTimers \cup ({k} \cap Timed)
      PROVE  TimersOfPending'
  <2>1. /\ requests' \in Seq(Requests) /\ Len(requests') = Len(requests) + 1
        /\ Len(requests) \in Nat /\ requests'[Len(requests) + 1] = k
        /\ \A i \in 1 .. Len(requests) : requests'[i] = requests[i]
    BY <1>1, <1>4, AppendProperties
  <2>2. Pending \subseteq Pending' /\ k \in Pending'
    <3>1. \A i \in 1 .. Len(requests) : i \in 1 .. Len(requests')
      BY <2>1
    <3>2. Len(requests) + 1 \in 1 .. Len(requests')
      BY <2>1
    <3> QED
      BY <1>1, <2>1, <3>1, <3>2 DEF Pending
  <2> QED
    BY <1>4, <2>2 DEF TimersOfPending
<1>5. ASSUME UNCHANGED <<connTimer, state>>
      PROVE  ConnectTimerWhileConnecting'
  BY <1>5 DEF ConnectTimerWhileConnecting
<1>6. CASE Connect
  <2>1. TimersOfPending'
    BY <1>3, <1>6 DEF Connect, AddIOEvent, ConnectFails, ConnectsAtOnce, ConnectStarts
  <2>2. ConnectTimerWhileConnecting'
    BY <1>1, <1>6 DEF ConnectTimerWhileConnecting, Connect, AddIOEvent, ConnectFails,
                      ConnectsAtOnce, ConnectStarts
  <2> QED
    BY <2>1, <2>2
<1>7. CASE Peer
  BY <1>3, <1>5, <1>7 DEF Peer, PeerAccepts, PeerResponds, PeerEnds
<1>8. CASE EpollWait \/ ConnectRefused \/ ReadNothing \/ ReadEnds \/ UserAccepts
           \/ NextPacket \/ WriteNothing \/ WriteBlobs \/ WriteFails \/ HandlerReturns
           \/ ErrorDrained \/ TimeOutDrained
  BY <1>3, <1>5, <1>8 DEF EpollWait, ConnectRefused, ReadNothing, ReadEnds, UserAccepts,
       NextPacket, WriteNothing, WriteBlobs, WriteFails, HandlerReturns, ErrorDrained,
       TimeOutDrained
<1>9. ASSUME NEW n \in 1 .. Len(inbuf), ReadPackets(n)
      PROVE  TimersOfPending' /\ ConnectTimerWhileConnecting'
  BY <1>3, <1>5, <1>9 DEF ReadPackets
<1>10. CASE Process \/ DrainRequest
  BY <1>2, <1>5, <1>10 DEF Process, DrainRequest
<1>11. CASE Connected \/ ProcessUnasked \/ UserBreaks \/ Report \/ CloseAfterError
            \/ ConnectTimerFires \/ Close
  <2>1. TimersOfPending'
    BY <1>3, <1>11 DEF Connected, ProcessUnasked, UserBreaks, Report, CloseAfterError,
                       ConnectTimerFires, Close
  <2>2. ConnectTimerWhileConnecting'
    BY <1>11 DEF ConnectTimerWhileConnecting, Connected, ProcessUnasked, UserBreaks,
                 Report, CloseAfterError, ConnectTimerFires, Close, CloseSocket
  <2> QED
    BY <2>1, <2>2
<1>12. ASSUME NEW k \in reqTimers, RequestTimerFires(k)
       PROVE  TimersOfPending' /\ ConnectTimerWhileConnecting'
  BY <1>3, <1>5, <1>12 DEF RequestTimerFires
<1>13. ASSUME NEW k \in Requests, CallRequest(k) \/ RequestFails(k)
       PROVE  TimersOfPending' /\ ConnectTimerWhileConnecting'
  BY <1>3, <1>5, <1>13 DEF CallRequest, RequestFails
<1>14. ASSUME NEW k \in Requests, RequestSent(k) \/ RequestQueued(k)
       PROVE  TimersOfPending' /\ ConnectTimerWhileConnecting'
  BY <1>4, <1>5, <1>14 DEF RequestSent, RequestQueued, Wait
<1>15. CASE UNCHANGED vars
  BY <1>3, <1>5, <1>15 DEF vars
<1> QED
  BY <1>6, <1>7, <1>8, <1>9, <1>10, <1>11, <1>12, <1>13, <1>14, <1>15
     DEF Next, Loop, User, RequestReturns

\* No timer outlives what it was set for, for any number of requests: the time-out of a
\* request that is done would fail the others, that of Connect a live connection.
THEOREM TimersAlwaysAgree == Spec => []TimersAgree
<1>1. Init => TimersOfPending /\ ConnectTimerWhileConnecting
  BY DEF Init, TimersOfPending, ConnectTimerWhileConnecting
<1>2. ClientTypes => TypeOK
  BY DEF ClientTypes
<1> QED
  BY <1>1, <1>2, ClientTypesInit, ClientTypesStep, TimersStep, PTL DEF Spec, TimersAgree

-----------------------------------------------------------------------------
(* Responses.                                                              *)

\* The requests, in the order in which the peer reads them.
Stream == wire \o blobs

\* How many of them have left the list of those that wait.
Done == Len(Stream) - Len(requests)

\* The list of those that wait is the end of the stream, and the responses that are
\* processed, received or still to be sent continue the numbers of those that left it.
Matched ==
    /\ Len(requests) <= Len(Stream)
    /\ \A i \in 1 .. Len(requests) : requests[i] = Stream[Done + i]
    /\ \A i \in 1 .. Len(packets) : packets[i] = Done + i
    /\ \A i \in 1 .. Len(inbuf) : inbuf[i] = Done + Len(packets) + i
    /\ responded = Done + Len(packets) + Len(inbuf)

\* The loop processes a response, or can still come to process one.
Live ==
    \/ pc \in {"process", "user", "packet"}
    \/ pc \in {"epoll", "read", "write"} /\ state # "CS_CLOSED" /\ ~locked

\* A sequence after two that make one.
LEMMA Regroup ==
    ASSUME NEW S, NEW r \in Seq(S), NEW s \in Seq(S), NEW a \in Seq(S), NEW b \in Seq(S),
           a \o b = s
    PROVE  (r \o a) \o b = r \o s
<1> DEFINE ra == r \o a
           left == ra \o b
           right == r \o s
<1>1. /\ ra \in Seq(S) /\ Len(ra) = Len(r) + Len(a)
      /\ \A i \in 1 .. Len(r) + Len(a) : ra[i] = IF i <= Len(r) THEN r[i] ELSE a[i - Len(r)]
  BY ConcatProperties
<1> HIDE DEF ra
<1>2. /\ left \in Seq(S) /\ Len(left) = Len(ra) + Len(b)
      /\ \A i \in 1 .. Len(ra) + Len(b) :
            left[i] = IF i <= Len(ra) THEN ra[i] ELSE b[i - Len(ra)]
  BY <1>1, ConcatProperties
<1>3. /\ right \in Seq(S) /\ Len(right) = Len(r) + Len(s)
      /\ \A i \in 1 .. Len(r) + Len(s) : right[i] = IF i <= Len(r) THEN r[i] ELSE s[i - Len(r)]
  BY ConcatProperties
<1>4. /\ Len(s) = Len(a) + Len(b)
      /\ \A i \in 1 .. Len(a) + Len(b) : s[i] = IF i <= Len(a) THEN a[i] ELSE b[i - Len(a)]
  BY ConcatProperties
<1>5. Len(r) \in Nat /\ Len(a) \in Nat /\ Len(b) \in Nat
  OBVIOUS
<1> HIDE DEF left, right
<1>6. Len(left) = Len(right)
  BY <1>1, <1>2, <1>3, <1>4, <1>5
<1>7. ASSUME NEW i \in 1 .. Len(left)
      PROVE  left[i] = right[i]
  <2>1. CASE i <= Len(r)
    <3>1. i \in 1 .. Len(r) + Len(a) /\ i \in 1 .. Len(r) + Len(s) /\ i <= Len(ra)
      BY <1>1, <1>2, <1>4, <1>5, <2>1
    <3>2. i \in 1 .. Len(ra) + Len(b)
      BY <1>2
    <3> QED
      BY <1>1, <1>2, <1>3, <2>1, <3>1, <3>2
  <2>2. CASE i > Len(r)
    <3>1. i - Len(r) \in 1 .. Len(a) + Len(b) /\ right[i] = s[i - Len(r)]
      BY <1>1, <1>2, <1>3, <1>4, <1>5, <2>2
    <3>2. s[i - Len(r)] = IF i - Len(r) <= Len(a) THEN a[i - Len(r)]
                          ELSE b[(i - Len(r)) - Len(a)]
      BY <1>4, <3>1
    <3>3. (i - Len(r)) - Len(a) = i - Len(ra)
      BY <1>1, <1>2, <1>5
    <3>4. CASE i - Len(r) <= Len(a)
      <4>1. i <= Len(ra) /\ i \in 1 .. Len(r) + Len(a)
        BY <1>1, <1>2, <1>5, <3>4
      <4> QED
        BY <1>1, <1>2, <2>2, <3>1, <3>2, <3>4, <4>1
    <3>5. CASE ~(i - Len(r) <= Len(a))
      <4>1. ~(i <= Len(ra)) /\ i \in 1 .. Len(ra) + Len(b)
        BY <1>1, <1>2, <1>5, <3>5
      <4> QED
        BY <1>2, <3>1, <3>2, <3>3, <3>5, <4>1
    <3> QED
      BY <3>4, <3>5
  <2> QED
    BY <1>1, <1>2, <1>5, <2>1, <2>2
<1>8. left = right
  BY <1>2, <1>3, <1>6, <1>7, SeqEqual
<1> QED
  BY <1>8 DEF left, right, ra

\* The first n of a sequence moved to the end of another.
LEMMA MoveAlong ==
    ASSUME NEW S, NEW r \in Seq(S), NEW s \in Seq(S), NEW n \in 1 .. Len(s)
    PROVE  (r \o SubSeq(s, 1, n)) \o SubSeq(s, n + 1, Len(s)) = r \o s
<1> DEFINE a == SubSeq(s, 1, n)
           b == SubSeq(s, n + 1, Len(s))
<1>1. a \in Seq(S) /\ b \in Seq(S) /\ a \o b = s
  BY Cut
<1>2. \A u, v \in Seq(S) : u \o v = s => (r \o u) \o v = r \o s
  BY Zenon, Regroup
<1> HIDE DEF a, b
<1>3. (r \o a) \o b = r \o s
  BY Zenon, <1>1, <1>2
<1> QED
  BY <1>3 DEF a, b

\* DoWrite moves requests along the stream (WriteBlobs).
LEMMA StreamWritten ==
    ASSUME ClientTypes, WriteBlobs
    PROVE  Stream' = Stream
<1>1. wire \in Seq(Requests) /\ blobs \in Seq(Requests)
  BY DEF ClientTypes, TypeOK
<1>2. PICK n \in 1 .. Len(blobs) :
            /\ wire' = wire \o SubSeq(blobs, 1, n)
            /\ blobs' = SubSeq(blobs, n + 1, Len(blobs))
  BY DEF WriteBlobs
<1>3. (wire \o SubSeq(blobs, 1, n)) \o SubSeq(blobs, n + 1, Len(blobs)) = wire \o blobs
  BY <1>1, MoveAlong
<1> QED
  BY <1>2, <1>3 DEF Stream

\* RequestAsync puts the request at the end of the stream (SendPacketWithoutLock).
LEMMA StreamAsked ==
    ASSUME ClientTypes, NEW k \in Requests, RequestSent(k) \/ RequestQueued(k)
    PROVE  Stream' = Append(Stream, k)
<1> USE DEF conn, client, loop, user, kernel
<1>1. wire \in Seq(Requests) /\ blobs \in Seq(Requests) /\ Stream \in Seq(Requests)
  BY ConcatProperties DEF ClientTypes, TypeOK, Stream
<1>2. \A s \in Seq(Requests) :
        Append(s, k) = s \o <<k>> /\ Append(s, k) \in Seq(Requests) /\ s \o <<>> = s
  BY AppendIsConcat, AppendProperties, ConcatEmptySeq
<1>3. CASE RequestSent(k)
  <2>1. wire' = Append(wire, k) /\ blobs = <<>> /\ blobs' = <<>>
    BY <1>3 DEF RequestSent
  <2> QED
    BY <1>1, <1>2, <2>1 DEF Stream
<1>4. CASE RequestQueued(k)
  <2>1. Stream' = wire \o (blobs \o <<k>>)
    BY <1>1, <1>2, <1>4 DEF RequestQueued, Stream
  <2>2. <<k>> \in Seq(Requests)
    OBVIOUS
  <2>3. Stream' = (wire \o blobs) \o <<k>>
    BY <1>1, <2>1, <2>2, ConcatAssociative
  <2> QED
    BY <1>1, <1>2, <2>3 DEF Stream
<1> QED
  BY <1>3, <1>4

\* Nothing else changes the stream.
LEMMA StreamKept ==
    ASSUME [Next]_vars
    PROVE  \/ UNCHANGED <<wire, blobs>>
           \/ WriteBlobs
           \/ \E k \in Requests : RequestSent(k) \/ RequestQueued(k)
<1> USE DEF conn, client, loop, user, kernel
<1>1. CASE Connect \/ Peer
  BY <1>1 DEF Connect, AddIOEvent, ConnectFails, ConnectsAtOnce, ConnectStarts,
              Peer, PeerAccepts, PeerResponds, PeerEnds
<1>2. CASE Loop
  BY <1>2 DEF Loop, EpollWait, Connected, ConnectRefused, ReadNothing, ReadEnds, ReadPackets,
       Process, ProcessUnasked, UserAccepts, UserBreaks, NextPacket, WriteNothing,
       WriteFails, Report, DrainRequest, HandlerReturns, ErrorDrained, TimeOutDrained,
       CloseAfterError, RequestTimerFires, ConnectTimerFires
<1>3. CASE User
  BY <1>3 DEF User, RequestReturns, CallRequest, RequestFails, Close
<1>4. CASE UNCHANGED vars
  BY <1>4 DEF vars
<1> QED
  BY <1>1, <1>2, <1>3, <1>4 DEF Next

\* What leaves the list is answered by the next response, what joins it by a later one.
LEMMA MatchedStep ==
    ASSUME ClientTypes, Live => Matched, [Next]_vars
    PROVE  (Live => Matched)'
<1> USE DEF conn, client, loop, user, kernel
<1>1. /\ requests \in Seq(Requests) /\ packets \in Seq(Requests) /\ inbuf \in Seq(Requests)
      /\ Stream \in Seq(Requests) /\ responded \in Nat
      /\ (creator # "done" => state = "CS_NONE")
      /\ (packets # <<>> => pc \in {"process", "user", "packet"})
  BY ConcatProperties, ClientAssumption DEF ClientTypes, TypeOK, Stream
<1>2. /\ Len(requests) \in Nat /\ Len(packets) \in Nat /\ Len(inbuf) \in Nat
      /\ Len(Stream) \in Nat
  BY <1>1
<1>5. CASE Connect
  <2>1. Stream' = Stream /\ (Live' => Live)
    <3>1. /\ UNCHANGED <<wire, blobs, pc, locked>>
          /\ creator # "done"
      BY <1>5 DEF Connect, AddIOEvent, ConnectFails, ConnectsAtOnce, ConnectStarts
    <3>2. state = "CS_NONE"
      BY <1>1, <3>1
    <3> QED
      BY <3>1, <3>2 DEF Stream, Live
  <2> QED
    BY <1>5, <2>1 DEF Connect, AddIOEvent, ConnectFails, ConnectsAtOnce, ConnectStarts,
                      Matched, Done
<1>6. CASE PeerResponds
  <2>1. /\ inbuf' = Append(inbuf, responded + 1) /\ responded' = responded + 1
        /\ UNCHANGED <<requests, packets>> /\ Stream' = Stream /\ (Live' => Live)
    BY <1>6 DEF PeerResponds, Stream, Live
  <2>2. /\ Len(inbuf') = Len(inbuf) + 1 /\ inbuf'[Len(inbuf) + 1] = responded + 1
        /\ \A i \in 1 .. Len(inbuf) : inbuf'[i] = inbuf[i]
    <3>1. responded + 1 \in Requests
      BY <1>1, <1>6, ClientAssumption DEF PeerResponds, Requests
    <3> QED
      BY <1>1, <2>1, <3>1, AppendProperties
  <2>3. Done' = Done
    BY <2>1 DEF Done
  <2>4. ASSUME Matched
        PROVE  Matched'
    <3>1. Done \in Int
      BY <1>2 DEF Done
    <3>2. ASSUME NEW i \in 1 .. Len(inbuf')
          PROVE  inbuf'[i] = Done' + Len(packets') + i
      <4>1. /\ \A j \in 1 .. Len(inbuf) : inbuf[j] = Done + Len(packets) + j
            /\ responded = Done + Len(packets) + Len(inbuf)
        BY <2>4 DEF Matched
      <4>2. packets' = packets /\ Len(inbuf') = Len(inbuf) + 1
        BY <2>1, <2>2
      <4>3. CASE i \in 1 .. Len(inbuf)
        BY <2>2, <2>3, <4>1, <4>2, <4>3
      <4>4. CASE i = Len(inbuf) + 1
        BY <1>2, <2>2, <2>3, <3>1, <4>1, <4>2, <4>4
      <4> QED
        BY <1>2, <3>2, <4>2, <4>3, <4>4
    <3>3. responded' = Done' + Len(packets') + Len(inbuf')
      BY <1>2, <2>1, <2>2, <2>3, <2>4, <3>1 DEF Matched
    <3> QED
      BY <2>1, <2>3, <2>4, <3>2, <3>3 DEF Matched
  <2> QED
    BY <2>1, <2>4
<1>7. CASE PeerAccepts \/ PeerEnds
  <2>1. Stream' = Stream /\ (Live' => Live)
    BY <1>7 DEF PeerAccepts, PeerEnds, Stream, Live
  <2> QED
    BY <1>7, <2>1 DEF PeerAccepts, PeerEnds, Matched, Done
<1>8. CASE EpollWait \/ Connected \/ ReadNothing \/ UserAccepts \/ NextPacket
           \/ WriteNothing
  <2>1. Stream' = Stream /\ (Live' => Live)
    BY <1>8 DEF EpollWait, Connected, ReadNothing, UserAccepts, NextPacket, WriteNothing,
                Stream, Live, Free
  <2> QED
    BY <1>8, <2>1 DEF EpollWait, Connected, ReadNothing, UserAccepts, NextPacket,
                      WriteNothing, Matched, Done
<1>9. CASE ConnectRefused \/ ReadEnds \/ Report \/ DrainRequest \/ HandlerReturns
           \/ ErrorDrained \/ TimeOutDrained \/ ConnectTimerFires
           \/ (\E k \in reqTimers : RequestTimerFires(k)) \/ ProcessUnasked \/ UserBreaks
           \/ CloseAfterError
  BY <1>9 DEF ConnectRefused, ReadEnds, Report, DrainRequest, HandlerReturns, ErrorDrained,
              TimeOutDrained, ConnectTimerFires, RequestTimerFires, ProcessUnasked,
              UserBreaks, CloseAfterError, CloseSocket, Live
<1>10. ASSUME NEW n \in 1 .. Len(inbuf), ReadPackets(n)
       PROVE  (Live => Matched)'
  <2>1. /\ packets' = SubSeq(inbuf, 1, n) /\ inbuf' = SubSeq(inbuf, n + 1, Len(inbuf))
        /\ UNCHANGED <<requests, responded>> /\ Stream' = Stream /\ Live
    BY <1>10 DEF ReadPackets, Stream, Live, Free
  <2>2. packets = <<>> /\ Len(packets) = 0
    BY <1>1, <1>10 DEF ReadPackets
  <2>3. /\ Len(packets') = n /\ Len(inbuf') = Len(inbuf) - n
        /\ \A i \in 1 .. n : packets'[i] = inbuf[i]
        /\ \A i \in 1 .. Len(inbuf) - n : inbuf'[i] = inbuf[n + i]
    BY <1>1, <2>1, Cut
  <2>4. Done' = Done
    BY <2>1 DEF Done
  <2>5. Done \in Nat
    BY <1>2, <2>1 DEF Matched, Done
  <2>6. Matched
    BY <2>1
  <2>7. ASSUME NEW i \in 1 .. Len(packets')
        PROVE  packets'[i] = Done' + i
    <3>1. i \in 1 .. Len(inbuf) /\ packets'[i] = inbuf[i]
      BY <1>2, <2>3, <2>7
    <3>2. inbuf[i] = Done + Len(packets) + i
      BY <2>6, <3>1 DEF Matched
    <3> QED
      BY <2>2, <2>4, <2>5, <3>1, <3>2
  <2>8. ASSUME NEW i \in 1 .. Len(inbuf')
        PROVE  inbuf'[i] = Done' + Len(packets') + i
    <3>1. n + i \in 1 .. Len(inbuf) /\ inbuf'[i] = inbuf[n + i]
      BY <1>2, <2>3, <2>8
    <3>2. inbuf[n + i] = Done + Len(packets) + (n + i)
      BY <2>6, <3>1 DEF Matched
    <3> QED
      BY <1>2, <2>2, <2>3, <2>4, <2>5, <3>1, <3>2
  <2>9. responded' = Done' + Len(packets') + Len(inbuf')
    <3>1. responded = Done + Len(packets) + Len(inbuf)
      BY <2>6 DEF Matched
    <3>2. Len(packets') = n /\ Len(inbuf') = Len(inbuf) - n /\ Len(packets) = 0
      BY <2>2, <2>3
    <3>3. responded' = responded /\ Done' = Done /\ Len(inbuf) \in Nat /\ n \in Nat
      BY <1>2, <2>1, <2>4
    <3> QED
      BY <2>5, <3>1, <3>2, <3>3
  <2> QED
    BY <2>1, <2>4, <2>6, <2>7, <2>8, <2>9 DEF Matched
<1>11. CASE Process
  <2>1. /\ requests # <<>> /\ packets # <<>> /\ requests' = Tail(requests)
        /\ packets' = Tail(packets) /\ UNCHANGED <<inbuf, responded>>
        /\ Stream' = Stream /\ Matched
    BY <1>11 DEF Process, Stream, Live, ClientTypes
  <2>2. /\ Len(requests) \in Nat \ {0} /\ Len(requests') = Len(requests) - 1
        /\ \A i \in 1 .. Len(requests) - 1 : requests'[i] = requests[i + 1]
    BY <1>1, <2>1, FirstAndRest
  <2>3. /\ Len(packets) \in Nat \ {0} /\ Len(packets') = Len(packets) - 1
        /\ \A i \in 1 .. Len(packets) - 1 : packets'[i] = packets[i + 1]
    BY <1>1, <2>1, FirstAndRest
  <2>4. Done' = Done + 1 /\ Done \in Nat
    BY <1>2, <2>1, <2>2 DEF Matched, Done
  <2> QED
    BY <1>2, <2>1, <2>2, <2>3, <2>4 DEF Matched
<1>12. CASE WriteBlobs \/ WriteFails
  <2>1. /\ UNCHANGED <<requests, packets, inbuf, responded>>
        /\ Live
    BY <1>12 DEF WriteBlobs, WriteFails, Live, Free
  <2>2. Stream' = Stream
    <3>1. CASE WriteBlobs
      BY <3>1, StreamWritten
    <3>2. CASE WriteFails
      BY <3>2 DEF WriteFails, Stream
    <3> QED
      BY <1>12, <3>1, <3>2
  <2> QED
    BY <2>1, <2>2 DEF Matched, Done
<1>13. ASSUME NEW k \in Requests, CallRequest(k) \/ RequestFails(k)
       PROVE  (Live => Matched)'
  BY <1>13 DEF CallRequest, RequestFails, Stream, Live, Matched, Done
<1>14. CASE Close
  <2>1. Stream' = Stream /\ (Live' => Live)
    BY <1>14 DEF Close, CloseSocket, Stream, Live
  <2> QED
    BY <1>14, <2>1 DEF Close, Matched, Done
<1>15. CASE UNCHANGED vars
  BY <1>15 DEF vars, Stream, Live, Matched, Done
<1>16. ASSUME NEW k \in Requests, RequestSent(k) \/ RequestQueued(k)
       PROVE  (Live => Matched)'
  <2>1. /\ Stream' = Append(Stream, k) /\ requests' = Append(requests, k)
        /\ UNCHANGED <<pc, packets, inbuf, responded, state, locked>>
    BY <1>16, StreamAsked DEF RequestSent, RequestQueued, Wait
  <2>2. /\ Len(Stream') = Len(Stream) + 1 /\ Stream'[Len(Stream) + 1] = k
        /\ \A i \in 1 .. Len(Stream) : Stream'[i] = Stream[i]
    BY <1>1, <2>1, AppendProperties
  <2>3. /\ Len(requests') = Len(requests) + 1 /\ requests'[Len(requests) + 1] = k
        /\ \A i \in 1 .. Len(requests) : requests'[i] = requests[i]
    BY <1>1, <2>1, AppendProperties
  <2>4. Done' = Done /\ (Live' => Live)
    BY <1>2, <2>1, <2>2, <2>3 DEF Done, Live
  <2>5. ASSUME Matched
        PROVE  Matched'
    <3>1. ASSUME NEW i \in 1 .. Len(requests')
          PROVE  requests'[i] = Stream'[Done' + i]
      <4>1. CASE i \in 1 .. Len(requests)
        <5>1. requests'[i] = requests[i]
          BY <2>3, <4>1
        <5>2. requests[i] = Stream[Done + i] /\ Done + i \in 1 .. Len(Stream)
          BY <1>2, <2>5, <4>1 DEF Matched, Done
        <5>3. Stream'[Done + i] = Stream[Done + i]
          BY <2>2, <5>2
        <5> QED
          BY <2>4, <5>1, <5>2, <5>3
      <4>2. CASE i = Len(requests) + 1
        BY <1>2, <2>2, <2>3, <2>4, <2>5, <4>2 DEF Done
      <4> QED
        BY <1>2, <2>3, <3>1, <4>1, <4>2
    <3>2. Len(requests') <= Len(Stream')
      BY <1>2, <2>2, <2>3, <2>5 DEF Matched
    <3> QED
      BY <2>1, <2>4, <2>5, <3>1, <3>2 DEF Matched
  <2> QED
    BY <2>4, <2>5
<1> QED
  BY <1>5, <1>6, <1>7, <1>8, <1>9, <1>10, <1>11, <1>12, <1>13, <1>14, <1>15, <1>16
     DEF Next, Peer, Loop, User, RequestReturns

\* Who is told something: nobody, or the request that has waited longest.
LEMMA ToldStep ==
    ASSUME [Next]_vars
    PROVE  UNCHANGED told \/ Process \/ DrainRequest
<1> USE DEF conn, client, loop, user, kernel
<1>1. CASE Connect \/ Peer
  BY <1>1 DEF Connect, AddIOEvent, ConnectFails, ConnectsAtOnce, ConnectStarts,
              Peer, PeerAccepts, PeerResponds, PeerEnds
<1>2. CASE Loop
  BY <1>2 DEF Loop, EpollWait, Connected, ConnectRefused, ReadNothing, ReadEnds, ReadPackets,
       ProcessUnasked, UserAccepts, UserBreaks, NextPacket, WriteNothing, WriteBlobs,
       WriteFails, Report, HandlerReturns, ErrorDrained, TimeOutDrained, CloseAfterError,
       RequestTimerFires, ConnectTimerFires
<1>3. CASE User
  BY <1>3 DEF User, RequestReturns, CallRequest, RequestSent, RequestQueued, Wait,
              RequestFails, Close
<1>4. CASE UNCHANGED vars
  BY <1>4 DEF vars
<1> QED
  BY <1>1, <1>2, <1>3, <1>4 DEF Next

\* The response that is processed has the number of the request it is given to.
LEMMA OwnResponseStep ==
    ASSUME ClientTypes, Live => Matched, OwnResponse, [Next]_vars
    PROVE  OwnResponse'
<1>1. /\ requests \in Seq(Requests) /\ packets \in Seq(Requests) /\ Stream \in Seq(Requests)
      /\ told \in [Requests -> Answers] /\ Len(Stream) \in Nat
  BY ConcatProperties DEF ClientTypes, TypeOK, Stream
<1>2. \A k \in Requests : told[k] \in Requests => told[k] <= Len(Stream) /\ Stream[told[k]] = k
  BY DEF OwnResponse, Stream
<1>3. /\ Len(Stream') \in Nat /\ Len(Stream) <= Len(Stream')
      /\ \A i \in 1 .. Len(Stream) : Stream'[i] = Stream[i]
  <2>1. CASE UNCHANGED <<wire, blobs>> \/ WriteBlobs
    <3>1. Stream' = Stream
      BY <2>1, StreamWritten DEF Stream
    <3> QED
      BY <1>1, <3>1
  <2>2. ASSUME NEW k \in Requests, RequestSent(k) \/ RequestQueued(k)
        PROVE  /\ Len(Stream') \in Nat /\ Len(Stream) <= Len(Stream')
               /\ \A i \in 1 .. Len(Stream) : Stream'[i] = Stream[i]
    <3>1. Stream' = Append(Stream, k)
      BY <2>2, StreamAsked
    <3>2. /\ Len(Append(Stream, k)) = Len(Stream) + 1
          /\ \A i \in 1 .. Len(Stream) : Append(Stream, k)[i] = Stream[i]
      BY <1>1, AppendProperties
    <3> QED
      BY <1>1, <3>1, <3>2
  <2> QED
    BY <2>1, <2>2, StreamKept
<1>4. ASSUME NEW k \in Requests, told'[k] = told[k], told'[k] \in Requests
      PROVE  told'[k] <= Len(Stream') /\ Stream'[told'[k]] = k
  <2>1. told[k] \in 1 .. Len(Stream) /\ Stream[told[k]] = k
    BY <1>1, <1>2, <1>4, ClientAssumption DEF Requests
  <2> QED
    BY <1>1, <1>3, <1>4, <2>1, ClientAssumption DEF Requests
<1>5. ASSUME NEW k \in Requests, told'[k] \in Requests
      PROVE  told'[k] <= Len(Stream') /\ Stream'[told'[k]] = k
  <2>1. CASE UNCHANGED told
    BY <1>4, <1>5, <2>1
  <2>2. CASE DrainRequest
    <3>1. Failed \notin Requests
      BY ClientAssumption DEF Failed, Requests
    <3>2. told'[k] = told[k]
      BY <1>1, <1>5, <2>2, <3>1 DEF DrainRequest
    <3> QED
      BY <1>4, <1>5, <3>2
  <2>3. CASE Process
    <3>1. /\ requests # <<>> /\ packets # <<>> /\ Matched /\ Stream' = Stream
          /\ told' = [told EXCEPT ![Head(requests)] = Head(packets)]
      BY <2>3 DEF Process, ClientTypes, Live, Stream, conn, kernel
    <3>2. /\ Head(requests) = requests[1] /\ Head(packets) = packets[1]
          /\ Len(requests) \in Nat \ {0} /\ Len(packets) \in Nat \ {0}
      BY <1>1, <3>1, FirstAndRest
    <3>3. Head(requests) = Stream[Done + 1] /\ Head(packets) = Done + 1
      BY <3>1, <3>2 DEF Matched
    <3>4. Done + 1 <= Len(Stream)
      BY <1>1, <3>2 DEF Done
    <3>5. CASE k = Head(requests)
      BY <1>1, <3>1, <3>3, <3>4, <3>5
    <3>6. CASE k # Head(requests)
      BY <1>1, <1>4, <1>5, <3>1, <3>6
    <3> QED
      BY <3>5, <3>6
  <2> QED
    BY <2>1, <2>2, <2>3, ToldStep
<1> QED
  BY <1>5 DEF OwnResponse, Stream

\* The handler of each request is given the response to that request, for any number of
\* requests and any responses of the peer: both lists keep the order of the stream.
THEOREM ResponsesAreOwn == Spec => []OwnResponse
<1> DEFINE Inv == ClientTypes /\ (Live => Matched) /\ OwnResponse
<1>1. Init => Inv
  <2> SUFFICES ASSUME Init
               PROVE  (Live => Matched) /\ OwnResponse
    BY ClientTypesInit
  <2>1. /\ wire = <<>> /\ blobs = <<>> /\ requests = <<>> /\ packets = <<>> /\ inbuf = <<>>
        /\ responded = 0 /\ told = [k \in Requests |-> Untold]
    BY DEF Init
  <2>2. Stream = <<>> /\ Len(Stream) = 0
    BY <2>1, ConcatEmptySeq, EmptySeq DEF Stream
  <2>3. Matched
    BY <2>1, <2>2, EmptySeq DEF Matched, Done
  <2>4. Untold \notin Requests
    BY DEF Untold, Requests
  <2> QED
    BY <2>1, <2>3, <2>4 DEF OwnResponse
<1>2. Inv /\ [Next]_vars => Inv'
  BY ClientTypesStep, MatchedStep, OwnResponseStep
<1> QED
  BY <1>1, <1>2, PTL DEF Spec

-----------------------------------------------------------------------------
(* Each handler once.                                                      *)

\* A request waits in the list at most once, when its call has returned, and untold;
\* and nothing is told to one whose call has not returned.
Once ==
    /\ \A i, j \in 1 .. Len(requests) : requests[i] = requests[j] => i = j
    /\ \A i \in 1 .. Len(requests) :
          requests[i] \in asked \ calls /\ told[requests[i]] = Untold
    /\ calls \subseteq asked
    /\ \A k \in Requests : told[k] # Untold => k \in asked \ calls

\* A request leaves the list when its handler is called, and joins it once.
LEMMA OnceStep ==
    ASSUME ClientTypes, Once, [Next]_vars
    PROVE  /\ Once'
           /\ \A k \in Requests : told[k] # Untold => told'[k] = told[k]
<1> USE DEF conn, client, loop, user, kernel
<1>1. /\ requests \in Seq(Requests) /\ told \in [Requests -> Answers]
      /\ calls \subseteq Requests /\ asked \subseteq Requests /\ Len(requests) \in Nat
      /\ \A i \in 1 .. Len(requests) : requests[i] \in Requests
  BY DEF ClientTypes, TypeOK
<1>2. ASSUME UNCHANGED <<requests, told>>, asked \ calls \subseteq asked' \ calls',
             calls' \subseteq asked'
      PROVE  Once' /\ told' = told
  BY <1>2 DEF Once
<1>3. ASSUME NEW r, requests # <<>>, requests' = Tail(requests),
             told' = [told EXCEPT ![Head(requests)] = r], UNCHANGED <<asked, calls>>
      PROVE  Once' /\ \A k \in Requests : told[k] # Untold => told'[k] = told[k]
  <2>1. /\ Head(requests) = requests[1] /\ Head(requests) \in Requests
        /\ Len(requests) \in Nat \ {0} /\ Len(requests') = Len(requests) - 1
        /\ \A i \in 1 .. Len(requests) - 1 : requests'[i] = requests[i + 1]
    BY <1>1, <1>3, FirstAndRest
  <2>2. told[Head(requests)] = Untold /\ Head(requests) \in asked \ calls
    BY <2>1 DEF Once
  <2>3. \A i \in 1 .. Len(requests') :
          /\ i + 1 \in 1 .. Len(requests) /\ i + 1 # 1 /\ requests'[i] = requests[i + 1]
    BY <2>1
  <2>4. ASSUME NEW i \in 1 .. Len(requests')
        PROVE  requests'[i] \in asked \ calls /\ told'[requests'[i]] = Untold
    <3>1. requests'[i] \in Requests /\ requests'[i] # Head(requests)
      <4>1. i + 1 \in 1 .. Len(requests) /\ i + 1 # 1 /\ requests'[i] = requests[i + 1]
        BY <2>3
      <4>2. 1 \in 1 .. Len(requests)
        BY <2>1
      <4>3. requests[i + 1] # requests[1]
        BY <4>1, <4>2 DEF Once
      <4> QED
        BY <1>1, <2>1, <4>1, <4>3
    <3> QED
      BY <1>1, <1>3, <2>3, <3>1 DEF Once
  <2>5. ASSUME NEW i \in 1 .. Len(requests'), NEW j \in 1 .. Len(requests'),
               requests'[i] = requests'[j]
        PROVE  i = j
    <3>1. i + 1 = j + 1
      BY <2>3, <2>5 DEF Once
    <3> QED
      BY <2>1, <3>1
  <2>6. ASSUME NEW k \in Requests, told'[k] # Untold
        PROVE  k \in asked \ calls
    BY <1>1, <1>3, <2>1, <2>2, <2>6 DEF Once
  <2>7. calls' \subseteq asked'
    BY <1>3 DEF Once
  <2>8. Once'
    BY <1>3, <2>4, <2>5, <2>6, <2>7 DEF Once
  <2> QED
    BY <1>1, <1>3, <2>1, <2>2, <2>8
<1>4. CASE Process
  BY <1>3, <1>4 DEF Process
<1>5. CASE DrainRequest
  BY <1>3, <1>5 DEF DrainRequest
<1>6. ASSUME NEW k \in Requests, RequestSent(k) \/ RequestQueued(k)
      PROVE  Once' /\ told' = told
  <2>1. /\ requests' = Append(requests, k) /\ calls' = calls \ {k} /\ k \in calls
        /\ UNCHANGED <<asked, told>>
    BY <1>6 DEF RequestSent, RequestQueued, Wait
  <2>2. /\ Len(requests') = Len(requests) + 1 /\ requests'[Len(requests) + 1] = k
        /\ \A i \in 1 .. Len(requests) : requests'[i] = requests[i]
    BY <1>1, <2>1, AppendProperties
  <2>3. \A i \in 1 .. Len(requests') : i \in 1 .. Len(requests) \/ i = Len(requests) + 1
    BY <1>1, <2>2
  <2>4. \A i \in 1 .. Len(requests) : requests[i] # k
    BY <2>1 DEF Once
  <2>5. told[k] = Untold /\ k \in asked \ calls'
    BY <2>1 DEF Once
  <2>6. \A i, j \in 1 .. Len(requests') : requests'[i] = requests'[j] => i = j
    BY <2>2, <2>3, <2>4 DEF Once
  <2>7. \A i \in 1 .. Len(requests') :
          requests'[i] \in asked' \ calls' /\ told'[requests'[i]] = Untold
    BY <2>1, <2>2, <2>3, <2>5 DEF Once
  <2>8. calls' \subseteq asked' /\ \A j \in Requests : told'[j] # Untold => j \in asked' \ calls'
    BY <2>1 DEF Once
  <2> QED
    BY <2>1, <2>6, <2>7, <2>8 DEF Once
<1>7. ASSUME NEW k \in Requests, CallRequest(k)
      PROVE  Once' /\ told' = told
  <2>1. /\ k \notin asked /\ asked' = asked \cup {k} /\ calls' = calls \cup {k}
        /\ UNCHANGED <<requests, told>>
    BY <1>7 DEF CallRequest
  <2>2. asked \ calls \subseteq asked' \ calls' /\ calls' \subseteq asked'
    BY <2>1 DEF Once
  <2> QED
    BY <1>2, <2>1, <2>2
<1>8. ASSUME NEW k \in Requests, RequestFails(k)
      PROVE  Once' /\ told' = told
  <2>1. /\ calls' = calls \ {k} /\ UNCHANGED <<requests, told, asked>>
    BY <1>8 DEF RequestFails
  <2>2. asked \ calls \subseteq asked' \ calls' /\ calls' \subseteq asked'
    BY <2>1 DEF Once
  <2> QED
    BY <1>2, <2>1, <2>2
<1>9. ASSUME UNCHANGED <<requests, told, asked, calls>>
      PROVE  Once' /\ told' = told
  BY <1>2, <1>9 DEF Once
<1>10. CASE Connect \/ Peer
  BY <1>9, <1>10 DEF Connect, AddIOEvent, ConnectFails, ConnectsAtOnce, ConnectStarts,
                     Peer, PeerAccepts, PeerResponds, PeerEnds
<1>11. CASE Loop /\ ~Process /\ ~DrainRequest
  <2>1. UNCHANGED <<requests, told, asked, calls>>
    BY <1>11 DEF Loop, EpollWait, Connected, ConnectRefused, ReadNothing, ReadEnds,
         ReadPackets, ProcessUnasked, UserAccepts, UserBreaks, NextPacket, WriteNothing,
         WriteBlobs, WriteFails, Report, HandlerReturns, ErrorDrained, TimeOutDrained,
         CloseAfterError, RequestTimerFires, ConnectTimerFires
  <2> QED
    BY <1>9, <2>1
<1>12. CASE Close \/ UNCHANGED vars
  BY <1>9, <1>12 DEF Close, vars
<1> QED
  BY <1>4, <1>5, <1>6, <1>7, <1>8, <1>10, <1>11, <1>12 DEF Next, User, RequestReturns

\* The handler of each request is called at most once, whichever of the response, the
\* time-out of it or of another request, and an error of the connection comes first.
THEOREM HandlersAreToldOnce == Spec => ToldOnce
<1>1. Init => Once
  <2>1. \A k \in Requests : [j \in Requests |-> Untold][k] = Untold
    OBVIOUS
  <2> QED
    BY <2>1, EmptySeq DEF Init, Once
<1>2. ClientTypes /\ Once /\ [Next]_vars
        => [\A k \in Requests : told[k] # Untold => told'[k] = told[k]]_vars
  BY OnceStep
<1> QED
  BY <1>1, <1>2, ClientTypesInit, ClientTypesStep, OnceStep, PTL DEF Spec, ToldOnce
=============================================================================
