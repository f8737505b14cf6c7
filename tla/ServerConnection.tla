--------------------------- MODULE ServerConnection ---------------------------
(***************************************************************************)
(* One accepted HTTP connection: a BaseIoHandler with the                  *)
(* HttpServerHandler installed in it by AcceptorHandler::DoRead.           *)
(*                                                                         *)
(* Three kinds of actor work on it.  The event-loop thread runs DoRead,    *)
(* DoWrite and the connection's timers, and calls the user's handler with  *)
(* the connection's mutex released.  User threads call Reply and Close at  *)
(* any time, under the mutex.  The peer and the kernel move the socket.    *)
(* An action is what one thread does between two releases of the mutex;    *)
(* "pc" is the place of the event-loop thread between two actions.         *)
(*                                                                         *)
(* Requests are numbered 0, 1, ... in the order they are received; an      *)
(* encoded response is Units copies of its request's number, so the bytes  *)
(* of the connection are a sequence of request numbers.                    *)
(***************************************************************************)
EXTENDS Naturals, Sequences, FiniteSets

CONSTANTS
    MaxRequests,  \* bound: requests the peer sends on the connection
    Units,        \* bytes of an encoded response
    SerialMod,    \* 2^32: HttpPacket::_SerialNumber is a uint32_t
    Timers,       \* timers in use: AcceptorConfig::_KeepAliveTimeout, AddIdleTimeout
    Unencodable,  \* requests the user answers with a response Encode refuses
    Duplicates,   \* the user may call Reply again for the same request
    Destroys      \* the user's handler may call Destroy when it is told an error

ASSUME ConnectionAssumption ==
    /\ MaxRequests \in Nat \ {0}
    /\ Units \in Nat \ {0}
    /\ SerialMod \in Nat \ {0}
    /\ Timers \subseteq {"keepalive", "idle"}
    /\ Unencodable \subseteq Nat
    /\ Duplicates \in BOOLEAN
    /\ Destroys \in BOOLEAN

VARIABLES
    state,           \* BaseIoHandler::_State
    closeAfterSend,  \* BaseIoHandler::_DoCloseAfterSend
    blobs,           \* BaseIoHandler::_DataBlobPtrList, its unsent bytes in order
    packets,         \* HttpParser::_PacketList, and the packet being processed
    keepAlive,       \* HttpHandler::_KeepAlive
    recvNo,          \* HttpHandler::_RecvNo
    sendNo,          \* HttpHandler::_SendNo
    held,            \* HttpServerHandler::_ResponsePacketPtrMap, serial |-> request
    alive,           \* the HttpServerHandler has not been deleted
    timers,          \* the timers of the handler that are in the Timer's map
    pc,              \* where the event-loop thread is
    pe,              \* the PROCESS_ERROR it is reporting
    offered,         \* requests the user has called Reply for
    wire,            \* every byte written to the socket, in order
    inbuf,           \* messages in the socket's receive buffer
    sock,            \* the socket: open, fin / rst received, closed (_Fd = -1)
    writable,        \* the send buffer has room: a write does not return EAGAIN
    ready            \* epoll holds an event for the connection

conn   == <<state, closeAfterSend, blobs>>
http   == <<keepAlive, recvNo, sendNo, held, alive>>
loop   == <<pc, pe, packets, timers>>
kernel == <<wire, inbuf, sock, writable, ready>>
vars   == <<conn, http, loop, offered, kernel>>

Requests == 0 .. MaxRequests - 1

\* What the peer may send: a request that asks to keep the connection, one that
\* does not, or bytes HttpParser::Decode refuses (also a message cut by a FIN).
Messages == {"keepalive", "close", "bad"}

\* The states of an accepted connection (CS_NONE and CS_CLOSING never occur).
States == {"CS_CONNECTING", "CS_CONNECTED", "CS_CLOSED"}

Errors == {"PE_NONE", "PE_CONNECT_CLOSE", "PE_READ_FAILED", "PE_WRITE_FAILED",
           "PE_DECODE_FAILED", "PE_TIMER"}

Places == {"epoll",    \* EpollWait, or between two turns of EventLoop::Run
           "read",     \* DoRead, at the head of its read loop
           "process",  \* DoRead gave a packet to HttpServerHandler::Process
           "user",     \* the user's handler has the packet
           "packet",   \* DoRead, back from Process, takes the next packet
           "write",    \* DoRead returned true: DoWrite is next
           "report",   \* ReportErrorAndClose is called
           "notify",   \* it has set _State and calls Process with the error
           "told",     \* the user's handler has the error, from Process
           "close",    \* ReportErrorAndClose calls Close
           "timeout",  \* the user's handler has a timeout, from the timer
           "expire"}   \* OnKeepAliveTimeout or OnIdleTimeout calls Close

TypeOK ==
    /\ state \in States
    /\ closeAfterSend \in BOOLEAN
    /\ blobs \in Seq(Requests)
    /\ packets \in Seq(Messages)
    /\ keepAlive \in BOOLEAN
    /\ recvNo \in Nat
    /\ sendNo \in Nat
    /\ DOMAIN held \subseteq Nat
    /\ held \in [DOMAIN held -> Requests]
    /\ alive \in BOOLEAN
    /\ timers \subseteq Timers
    /\ pc \in Places
    /\ pe \in Errors
    /\ offered \subseteq Requests
    /\ wire \in Seq(Requests)
    /\ inbuf \in Seq(Messages)
    /\ sock \in {"open", "fin", "rst", "closed"}
    /\ writable \in BOOLEAN
    /\ ready \in BOOLEAN

\* AcceptorHandler::DoRead builds the pair, marks it connected and adds it to a loop.
Init ==
    /\ state = "CS_CONNECTED"
    /\ closeAfterSend = FALSE
    /\ blobs = <<>>
    /\ packets = <<>>
    /\ keepAlive = FALSE
    /\ recvNo = 0
    /\ sendNo = 0
    /\ held = <<>>
    /\ alive = TRUE
    /\ timers = {}
    /\ pc = "epoll"
    /\ pe = "PE_NONE"
    /\ offered = {}
    /\ wire = <<>>
    /\ inbuf = <<>>
    /\ sock = "open"
    /\ writable = TRUE
    /\ ready = TRUE

-----------------------------------------------------------------------------
(* Socket::Write and BaseIoHandler::Close, shared by several actions.      *)

\* The response to request k, and the responses rs one after the other, encoded.
Bytes(rs) == [i \in 1 .. Len(rs) * Units |-> rs[((i - 1) \div Units) + 1]]

\* How a loop of Socket::Write calls over the bytes may end: all is written, or
\* EAGAIN or an error follows the first "out" bytes.  A full buffer and a reset
\* connection take nothing.
Outcomes(bytes) ==
    {o \in [out : 0 .. Len(bytes), err : {"none", "again", "error"}] :
        /\ o.err = "none" <=> o.out = Len(bytes)
        /\ ~writable => o.err # "none" /\ o.out = 0
        /\ sock = "rst" => o.err = "error" /\ o.out = 0
        /\ o.err = "again" /\ writable => o.out > 0}

\* What the write loop does to the socket.
Written(bytes, o) ==
    /\ wire' = wire \o SubSeq(bytes, 1, o.out)
    /\ writable' \in IF o.err = "none" THEN BOOLEAN ELSE {FALSE}
    /\ sock' = IF o.err = "error" THEN "rst" ELSE sock
    /\ ready' = (ready \/ o.err = "error")

\* Mutant: the connection stays in CS_CLOSING.
CloseSocketMutant ==
    /\ state' = "CS_CLOSING"
    /\ sock' = IF state = "CS_CLOSED" THEN sock ELSE "closed"
    /\ ready' = IF state = "CS_CLOSED" THEN ready ELSE FALSE

\* CloseWithoutLock; the connection timer of an accepted connection is never set.
CloseSocket ==
    /\ state' = "CS_CLOSED"
    /\ sock' = IF state = "CS_CLOSED" THEN sock ELSE "closed"
    /\ ready' = IF state = "CS_CLOSED" THEN ready ELSE FALSE

-----------------------------------------------------------------------------
(* The peer and the kernel.                                                *)

SendMessage(m) ==
    /\ sock = "open"
    /\ recvNo + Len(packets) + Len(inbuf) < MaxRequests
    /\ inbuf' = Append(inbuf, m)
    /\ ready' = TRUE
    /\ UNCHANGED <<conn, http, loop, offered, wire, sock, writable>>

PeerCloses ==
    /\ sock = "open"
    /\ sock' = "fin"
    /\ ready' = TRUE
    /\ UNCHANGED <<conn, http, loop, offered, wire, inbuf, writable>>

PeerResets ==
    /\ sock \in {"open", "fin"}
    /\ sock' = "rst"
    /\ ready' = TRUE
    /\ UNCHANGED <<conn, http, loop, offered, wire, inbuf, writable>>

SpaceFreed ==
    /\ sock \in {"open", "fin"}
    /\ ~writable
    /\ writable' = TRUE
    /\ ready' = TRUE
    /\ UNCHANGED <<conn, http, loop, offered, wire, inbuf, sock>>

-----------------------------------------------------------------------------
(* The event-loop thread: DoRead, with HttpServerHandler::Process.         *)

\* EPOLLET: an event is reported once.
EpollWait ==
    /\ pc = "epoll"
    /\ ready
    /\ pc' = "read"
    /\ ready' = FALSE
    /\ UNCHANGED <<conn, http, pe, packets, timers, offered, wire, inbuf, sock, writable>>

\* The connection is not connected any more, or Read returns EAGAIN.
ReadNothing ==
    /\ pc = "read"
    /\ \/ state # "CS_CONNECTED"
       \/ inbuf = <<>> /\ sock = "open"
    /\ pc' = "write"
    /\ UNCHANGED <<conn, http, pe, packets, timers, offered, kernel>>

\* Decode refuses what follows a request that does not keep the connection (the
\* parser is dead then), however the bytes are read.
Refused(n) ==
    \/ recvNo > 0 /\ ~keepAlive
    \/ \E i \in 1 .. n : inbuf[i] = "bad" \/ (inbuf[i] = "close" /\ i < n)

\* Read returns the first n messages and Decode accepts them.
ReadPackets(n) ==
    /\ pc = "read"
    /\ state = "CS_CONNECTED"
    /\ ~Refused(n)
    /\ packets' = SubSeq(inbuf, 1, n)
    /\ inbuf' = SubSeq(inbuf, n + 1, Len(inbuf))
    /\ pc' = "process"
    /\ UNCHANGED <<conn, http, pe, timers, offered, wire, sock, writable, ready>>

\* Decode refuses them: the packets it had completed are never delivered.
ReadGarbage(n) ==
    /\ pc = "read"
    /\ state = "CS_CONNECTED"
    /\ Refused(n)
    /\ inbuf' = SubSeq(inbuf, n + 1, Len(inbuf))
    /\ pe' = "PE_DECODE_FAILED"
    /\ pc' = "report"
    /\ UNCHANGED <<conn, http, packets, timers, offered, wire, sock, writable, ready>>

\* Mutant: DoRead takes the end of the stream for an empty read.
ReadEndsMutant ==
    /\ pc = "read"
    /\ state = "CS_CONNECTED"
    /\ \/ sock = "fin" /\ inbuf = <<>> /\ pe' = pe /\ pc' = "write"
       \/ sock = "rst" /\ pe' = "PE_READ_FAILED" /\ pc' = "report"
    /\ UNCHANGED <<conn, http, packets, timers, offered, kernel>>

\* Read returns 0, or fails.
ReadEnds ==
    /\ pc = "read"
    /\ state = "CS_CONNECTED"
    /\ \/ sock = "fin" /\ inbuf = <<>> /\ pe' = "PE_CONNECT_CLOSE"
       \/ sock = "rst" /\ pe' = "PE_READ_FAILED"
    /\ pc' = "report"
    /\ UNCHANGED <<conn, http, packets, timers, offered, kernel>>

\* Mutant: Process deletes the idle timer only.
ProcessMutant ==
    /\ pc = "process"
    /\ timers' = timers \ {"idle"}
    /\ recvNo' = recvNo + 1
    /\ keepAlive' = (Head(packets) = "keepalive")
    /\ packets' = Tail(packets)
    /\ pc' = "user"
    /\ UNCHANGED <<conn, sendNo, held, alive, pe, offered, kernel>>

\* Process, up to the call of the user's handler.
Process ==
    /\ pc = "process"
    /\ timers' = {}
    /\ recvNo' = recvNo + 1
    /\ keepAlive' = (Head(packets) = "keepalive")
    /\ packets' = Tail(packets)
    /\ pc' = "user"
    /\ UNCHANGED <<conn, sendNo, held, alive, pe, offered, kernel>>

\* The user's handler returns true, and Process rearms the keep-alive timer.
UserAccepts ==
    /\ pc = "user"
    /\ timers' = timers \cup (IF keepAlive THEN {"keepalive"} \cap Timers ELSE {})
    /\ pc' = "packet"
    /\ UNCHANGED <<conn, http, pe, packets, offered, kernel>>

\* It returns false: DoRead closes the connection and reports nothing.
UserBreaks ==
    /\ pc = "user"
    /\ CloseSocket
    /\ pc' = "epoll"
    /\ UNCHANGED <<closeAfterSend, blobs, http, pe, packets, timers, offered, wire, inbuf, writable>>

\* DoRead takes the next packet without looking at _State.
NextPacket ==
    /\ pc = "packet"
    /\ pc' = IF packets # <<>> THEN "process" ELSE "read"
    /\ UNCHANGED <<conn, http, pe, packets, timers, offered, kernel>>

-----------------------------------------------------------------------------
(* The event-loop thread: DoWrite, ReportErrorAndClose and the timers.     *)

WriteNothing ==
    /\ pc = "write"
    /\ state # "CS_CONNECTED" \/ blobs = <<>>
    /\ pc' = "epoll"
    /\ UNCHANGED <<conn, http, pe, packets, timers, offered, kernel>>

\* Mutant: after EAGAIN the list still starts with bytes that are gone.
WriteBlobsMutant ==
    /\ pc = "write"
    /\ state = "CS_CONNECTED"
    /\ blobs # <<>>
    /\ \E o \in Outcomes(blobs) :
        /\ Written(blobs, o)
        /\ blobs' = IF o.err = "none" THEN <<>> ELSE blobs
        /\ pe' = CASE o.err = "error" -> "PE_WRITE_FAILED"
                   [] o.err = "none" /\ closeAfterSend -> "PE_DECODE_FAILED"
                   [] OTHER -> "PE_NONE"
    /\ pc' = IF pe' = "PE_NONE" THEN "epoll" ELSE "report"
    /\ UNCHANGED <<state, closeAfterSend, http, packets, timers, offered, inbuf>>

\* DoWrite reports the end of a flush as PE_DECODE_FAILED, to close the connection.
WriteBlobs ==
    /\ pc = "write"
    /\ state = "CS_CONNECTED"
    /\ blobs # <<>>
    /\ \E o \in Outcomes(blobs) :
        /\ Written(blobs, o)
        /\ blobs' = SubSeq(blobs, o.out + 1, Len(blobs))
        /\ pe' = CASE o.err = "error" -> "PE_WRITE_FAILED"
                   [] o.err = "none" /\ closeAfterSend -> "PE_DECODE_FAILED"
                   [] OTHER -> "PE_NONE"
    /\ pc' = IF pe' = "PE_NONE" THEN "epoll" ELSE "report"
    /\ UNCHANGED <<state, closeAfterSend, http, packets, timers, offered, inbuf>>

\* Mutant: the connection is taken for connected until it is closed.
ReportMutant ==
    /\ pc = "report"
    /\ state' = "CS_CONNECTED"
    /\ pc' = "notify"
    /\ UNCHANGED <<closeAfterSend, blobs, http, pe, packets, timers, offered, kernel>>

\* ReportErrorAndClose: _State becomes CS_CONNECTING, whatever it was.
Report ==
    /\ pc = "report"
    /\ state' = "CS_CONNECTING"
    /\ pc' = "notify"
    /\ UNCHANGED <<closeAfterSend, blobs, http, pe, packets, timers, offered, kernel>>

\* Process with an error, up to the call of the user's handler.
ProcessError ==
    /\ pc = "notify"
    /\ timers' = {}
    /\ pc' = "told"
    /\ UNCHANGED <<conn, http, pe, packets, offered, kernel>>

\* TimeItem::Process of a timer that Timer::Process has taken out of its map.
TimerFires(t) ==
    /\ pc = "epoll"
    /\ t \in timers
    /\ timers' = timers \ {t}
    /\ pe' = "PE_TIMER"
    /\ pc' = "timeout"
    /\ UNCHANGED <<conn, http, packets, offered, kernel>>

\* The user's handler, told an error or a timeout, may destroy its handler.
UserIsTold ==
    /\ pc \in {"told", "timeout"}
    /\ pc' = IF pc = "told" THEN "close" ELSE "expire"
    /\ \/ Destroys /\ CloseSocket /\ alive' = FALSE
       \/ UNCHANGED <<state, sock, ready, alive>>
    /\ UNCHANGED <<closeAfterSend, blobs, keepAlive, recvNo, sendNo, held, pe,
                   packets, timers, offered, wire, inbuf, writable>>

\* ReportErrorAndClose, OnKeepAliveTimeout and OnIdleTimeout end with Close.
CloseAfterError ==
    /\ pc \in {"close", "expire"}
    /\ CloseSocket
    /\ pe' = "PE_NONE"
    /\ pc' = "epoll"
    /\ UNCHANGED <<closeAfterSend, blobs, http, packets, timers, offered, wire, inbuf, writable>>

-----------------------------------------------------------------------------
(* HttpServerHandler::Reply, by any thread that has the packet of request k *)

\* _SerialNumber keeps the low 32 bits of _RecvNo.
Serial(k) == k % SerialMod

\* Responses held under the serials after _SendNo, from the first, can be sent:
\* the loop looks at begin() only, so a serial it has passed stops it.
CanFollow(r) ==
    \A i \in 1 .. r :
        /\ sendNo + i \in DOMAIN held
        /\ held[sendNo + i] \notin Unencodable
        /\ \A s \in DOMAIN held : s > sendNo

\* How many responses follow the one for which Reply is called.
Following == {r \in 0 .. MaxRequests : CanFollow(r) /\ ~CanFollow(r + 1)}

Without(serials) == [s \in DOMAIN held \ serials |-> held[s]]

\* The loop erases a response before it tries to encode it.
RefusedNext(r) ==
    {s \in DOMAIN held \cap {sendNo + r + 1} :
        held[s] \in Unencodable /\ \A u \in DOMAIN held : u > sendNo}

Batch(k, r) == [i \in 1 .. r + 1 |-> IF i = 1 THEN k ELSE held[sendNo + i - 1]]

\* Mutant: one response is held, the last.
HoldMutant(k) ==
    /\ Serial(k) # sendNo
    /\ held' = [s \in {Serial(k)} |-> k]
    /\ UNCHANGED <<blobs, sendNo, wire, sock, writable, ready>>

\* It is not the turn of this response.
Hold(k) ==
    /\ Serial(k) # sendNo
    /\ held' = [s \in DOMAIN held \cup {Serial(k)} |-> IF s = Serial(k) THEN k ELSE held[s]]
    /\ UNCHANGED <<blobs, sendNo, wire, sock, writable, ready>>

\* SendPacketWithoutLock returns false before it writes.
Refuse(k) ==
    /\ Serial(k) = sendNo
    /\ state = "CS_CLOSED" \/ k \in Unencodable
    /\ UNCHANGED <<blobs, sendNo, held, wire, sock, writable, ready>>

\* The response and those that follow it go to the end of the list.
Queue(k, r) ==
    /\ state = "CS_CONNECTING" \/ blobs # <<>>
    /\ blobs' = blobs \o Bytes(Batch(k, r))
    /\ sendNo' = sendNo + r + 1
    /\ held' = Without(sendNo + 1 .. sendNo + r \cup RefusedNext(r))
    /\ UNCHANGED <<wire, sock, writable, ready>>

\* Mutant: what the socket does not take is dropped.
SendDrops(k, r) ==
    /\ state = "CS_CONNECTED" /\ blobs = <<>>
    /\ \E o \in Outcomes(Bytes(Batch(k, r))) :
        /\ o.err # "error"
        /\ Written(Bytes(Batch(k, r)), o)
        /\ blobs' = <<>>
    /\ sendNo' = sendNo + r + 1
    /\ held' = Without(sendNo + 1 .. sendNo + r \cup RefusedNext(r))

\* Mutant: a response is written although others wait in the list.
SendMutant(k, r) ==
    /\ state = "CS_CONNECTED"
    /\ \E o \in Outcomes(Bytes(Batch(k, r))) :
        /\ o.err # "error"
        /\ Written(Bytes(Batch(k, r)), o)
        /\ blobs' = blobs \o SubSeq(Bytes(Batch(k, r)), o.out + 1, (r + 1) * Units)
    /\ sendNo' = sendNo + r + 1
    /\ held' = Without(sendNo + 1 .. sendNo + r \cup RefusedNext(r))

\* They are written, and what the socket does not take goes to the list.
Send(k, r) ==
    /\ state = "CS_CONNECTED" /\ blobs = <<>>
    /\ \E o \in Outcomes(Bytes(Batch(k, r))) :
        /\ o.err # "error"
        /\ Written(Bytes(Batch(k, r)), o)
        /\ blobs' = SubSeq(Bytes(Batch(k, r)), o.out + 1, (r + 1) * Units)
    /\ sendNo' = sendNo + r + 1
    /\ held' = Without(sendNo + 1 .. sendNo + r \cup RefusedNext(r))

\* A write fails: the response it belongs to is dropped, and Reply returns false.
SendFails(k, r) ==
    /\ state = "CS_CONNECTED" /\ blobs = <<>>
    /\ \E o \in Outcomes(Bytes(Batch(k, r))) :
        /\ o.err = "error"
        /\ Written(Bytes(Batch(k, r)), o)
        /\ sendNo' = sendNo + (o.out \div Units)
        /\ held' = Without(sendNo + 1 .. sendNo + (o.out \div Units))
    /\ UNCHANGED blobs

Reply(k) ==
    /\ alive
    /\ k < recvNo
    /\ k \notin offered \/ Duplicates
    /\ offered' = offered \cup {k}
    /\ closeAfterSend' = (closeAfterSend \/ ~keepAlive)
    /\ \/ Hold(k)
       \/ Refuse(k)
       \/ /\ Serial(k) = sendNo /\ state # "CS_CLOSED" /\ k \notin Unencodable
          /\ \E r \in Following : Queue(k, r) \/ Send(k, r) \/ SendFails(k, r)
    /\ UNCHANGED <<state, keepAlive, recvNo, alive, loop, inbuf>>

-----------------------------------------------------------------------------
(* The other calls of the user's threads, and the specification.           *)

\* HttpHandler::Close.
Close ==
    /\ alive
    /\ recvNo > 0
    /\ CloseSocket
    /\ UNCHANGED <<closeAfterSend, blobs, http, loop, offered, wire, inbuf, writable>>

AddIdleTimeout ==
    /\ alive
    /\ recvNo > 0
    /\ "idle" \in Timers \ timers
    /\ timers' = timers \cup {"idle"}
    /\ UNCHANGED <<conn, http, pc, pe, packets, offered, kernel>>

Loop ==
    \/ EpollWait
    \/ ReadNothing
    \/ \E n \in 1 .. Len(inbuf) : ReadPackets(n) \/ ReadGarbage(n)
    \/ ReadEnds
    \/ Process \/ UserAccepts \/ UserBreaks \/ NextPacket
    \/ WriteNothing \/ WriteBlobs
    \/ Report \/ ProcessError \/ UserIsTold \/ CloseAfterError
    \/ \E t \in timers : TimerFires(t)

Environment ==
    \/ \E m \in Messages : SendMessage(m)
    \/ PeerCloses \/ PeerResets \/ SpaceFreed

User ==
    \/ \E k \in Requests : Reply(k)
    \/ Close
    \/ AddIdleTimeout

Next == Loop \/ Environment \/ User

Spec == Init /\ [][Next]_vars

\* The loop thread runs, the user's handler returns and the peer reads its data.
FairSpec == Spec /\ WF_vars(Loop) /\ WF_vars(SpaceFreed)

-----------------------------------------------------------------------------
(* Properties.                                                             *)

\* The bytes on the wire are the responses to request 0, 1, ... in the order of
\* the requests, each whole before the next one starts, whatever the order in
\* which threads call Reply (http_server_handler.h:69-72).
ResponsesInOrder == \A i \in 1 .. Len(wire) : wire[i] = (i - 1) \div Units

\* A held response waits for an earlier one: none is left behind once its turn
\* has come (Reply, http_server_handler.cc:58-77).
HeldWaitsForEarlier == \A s \in DOMAIN held : s > sendNo

\* While the connection lasts no response given to Reply is lost, unless Encode refuses
\* it: it has been taken for sending or it is held (Reply, SendPacketWithoutLock).
NoReplyLost ==
    sock \in {"open", "fin"} =>
        \A k \in offered \ Unencodable : k < sendNo \/ \E s \in DOMAIN held : held[s] = k

\* Every response that was given has one place, and leaves it in its turn.
EveryReplyHasItsPlace == HeldWaitsForEarlier /\ NoReplyLost

\* What has been taken for sending is on the wire or in the list, to the byte:
\* partial writes and EAGAIN drop and repeat nothing (SendPacketWithoutLock, DoWrite).
NoByteLost ==
    sock \in {"open", "fin"} => Len(wire) + Len(blobs) = sendNo * Units

\* Nothing is written after Close: a connected connection has its socket, also
\* when Close comes between DoRead and ReportErrorAndClose (base_io_handler.cc:206-209).
ConnectedHasSocket == state = "CS_CONNECTED" => sock # "closed"

\* The keep-alive timer is pending only between two calls of the user's handler on a
\* connection that asks to be kept (Process, lines 87-128): never while the handler has a
\* request or an error, and a handler destroyed when it is told an error leaves none
\* behind.  Of the responses it says nothing: Process arms the timer when the user's
\* handler returns, and another thread may owe the response then (KeepAliveWhenAnswered).
KeepAliveBetweenCalls ==
    "keepalive" \in timers => keepAlive /\ pc \notin {"user", "told", "close"}

\* The connection implements the abstract stream of responses: every byte that
\* leaves belongs to a response the user has given, in the order of the requests.
Stream == INSTANCE ResponseStream WITH asked <- recvNo, answered <- offered, stream <- wire
StreamSpec == Stream!Spec

\* Once the responses up to request k have been given to Reply, the one to k
\* reaches the wire or the connection is closed, for whatever reason; unless Encode
\* refuses one of them, which stops the connection (Reply, http_server_handler.cc:66-74).
AnsweredIsSent ==
    \A k \in {j \in Requests : Unencodable \cap 0 .. j = {}} :
        (0 .. k \subseteq offered) ~> (Len(wire) >= (k + 1) * Units \/ sock = "closed")

\* What the peer sent is read, although epoll reports an edge once (EPOLLET).
RequestsAreRead == (inbuf # <<>>) ~> (inbuf = <<>> \/ sock = "closed")

\* A connection the peer has closed or reset is closed by the server too.
HangUpCloses == (sock \in {"fin", "rst"}) ~> (sock = "closed")

\* A connection that is kept, and sends no more requests, is closed in the end: the
\* keep-alive timer is armed anew after each request (http_server_handler.h:14-15, 64-65).
IdleIsClosed ==
    "keepalive" \in Timers => ((recvNo > 0 /\ keepAlive) ~> (sock = "closed" \/ ~keepAlive))

\* With epoll's edges and a fair loop the connection goes on to its end: what is
\* asked is read, what is answered is sent, what is over or idle is closed.
ConnectionServes == AnsweredIsSent /\ RequestsAreRead /\ HangUpCloses /\ IdleIsClosed

-----------------------------------------------------------------------------
(* What comments of the code say and the code does not do.                 *)

\* http_server_handler.h:14-15: after the keep-alive timeout the connection is closed
\* (by a handler that exists; README and server_demo.cc:53-58 have it destroyed first).
ExpiresAlive == pc = "expire" => alive

\* What one may wish and no comment says: the timer does not run while a response is owed.
\* It does, from the return of the user's handler on, and closes a connection whose
\* response another thread is still preparing.
KeepAliveWhenAnswered == "keepalive" \in timers => 0 .. recvNo - 1 \subseteq offered

\* http_server_handler.h:69-72: responses prepared in any order are all kept and
\* sent one after the other; closing by itself, the server has sent them all.
ClosesOnlyWhenAnswered ==
    [][(pc = "write" /\ pc' = "report" /\ pe' = "PE_DECODE_FAILED") => sendNo = recvNo]_vars
=============================================================================
