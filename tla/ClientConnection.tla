--------------------------- MODULE ClientConnection ---------------------------
(***************************************************************************)
(* One outgoing connection: a BaseIoHandler that connects, with the        *)
(* HttpClientHandler that matches responses to requests by their position. *)
(*                                                                         *)
(* The thread that creates the connection runs Connect; the event-loop     *)
(* thread runs DoRead, DoWrite and the timers; any thread, the loop's own  *)
(* too, calls RequestAsync or Close.  An action is what one thread does    *)
(* between taking and releasing the mutex of the BaseIoHandler.  The       *)
(* encoder and the parser are those of a client (SetPacketEncoder,         *)
(* SetPacketParser): MyNet's factories make the server's.                  *)
(*                                                                         *)
(* A request is one unit of the stream; the peer's responses are numbered  *)
(* as it sends them, and the r-th answers the r-th request that it reads.  *)
(***************************************************************************)
EXTENDS Naturals, Sequences, FiniteSets

CONSTANTS
    MaxRequests,    \* bound: requests made, and responses sent by the peer
    Timed,          \* requests with timeout > 0
    ConnectTimeout  \* Connect is given a timeout

ASSUME ClientAssumption ==
    /\ MaxRequests \in Nat \ {0}
    /\ Timed \subseteq 1 .. MaxRequests
    /\ ConnectTimeout \in BOOLEAN

VARIABLES
    creator,    \* the thread in CreateConnection
    state,      \* BaseIoHandler::_State
    blobs,      \* BaseIoHandler::_DataBlobPtrList
    connTimer,  \* _ConnectionTimerPtr is in the Timer's map
    requests,   \* HttpClientHandler::_RequestLists
    reqTimers,  \* the requests whose timer is in the Timer's map
    locked,     \* a thread has returned without unlocking the mutex
    calls,      \* callers of RequestAsync that wait for the mutex
    asked,      \* requests that have been made
    told,       \* what the handler of each request was told
    pc,         \* where the event-loop thread is
    pe,         \* the PROCESS_ERROR it is reporting
    packets,    \* HttpParser::_PacketList, and the packet being processed
    wire,       \* the requests written to the socket
    inbuf,      \* responses in the receive buffer
    responded,  \* responses the peer has sent
    sock,       \* the socket
    ready       \* epoll holds an event for the connection

conn   == <<state, blobs, connTimer>>
client == <<requests, reqTimers>>
loop   == <<pc, pe, packets>>
user   == <<calls, asked, told>>
kernel == <<wire, inbuf, responded, sock, ready>>
vars   == <<creator, conn, client, locked, user, loop, kernel>>

Requests == 1 .. MaxRequests

\* What a handler may be told: nothing yet, response r, or an error.
Untold == 0
Failed == MaxRequests + 1
Answers == 0 .. MaxRequests + 1

\* What follows the responses in the stream: nothing yet, its end, a reset, or
\* bytes that HttpParser::Decode refuses; before, the socket is fresh or connecting.
Sockets == {"fresh", "syn", "refused", "open", "fin", "rst", "bad", "closed"}

TypeOK ==
    /\ creator \in {"new", "connecting", "done", "failed"}
    /\ state \in {"CS_NONE", "CS_CONNECTING", "CS_CONNECTED", "CS_CLOSED"}
    /\ blobs \in Seq(Requests)
    /\ connTimer \in BOOLEAN
    /\ requests \in Seq(Requests)
    /\ reqTimers \subseteq Requests
    /\ locked \in BOOLEAN
    /\ calls \subseteq Requests
    /\ asked \subseteq Requests
    /\ told \in [Requests -> Answers]
    /\ pc \in {"epoll", "read", "process", "user", "packet", "write", "report",
               "drain", "told", "close"}
    /\ pe \in {"PE_NONE", "PE_CONNECT_FAILED", "PE_CONNECT_CLOSE", "PE_READ_FAILED",
               "PE_WRITE_FAILED", "PE_DECODE_FAILED", "PE_CONNECT_TIMEOUT",
               "PE_PACKET_TIMEOUT"}
    /\ packets \in Seq(Requests)
    /\ wire \in Seq(Requests)
    /\ inbuf \in Seq(Requests)
    /\ responded \in 0 .. MaxRequests
    /\ sock \in Sockets
    /\ ready \in BOOLEAN

Init ==
    /\ creator = "new"
    /\ state = "CS_NONE"
    /\ blobs = <<>>
    /\ connTimer = FALSE
    /\ requests = <<>>
    /\ reqTimers = {}
    /\ locked = FALSE
    /\ calls = {}
    /\ asked = {}
    /\ told = [k \in Requests |-> Untold]
    /\ pc = "epoll"
    /\ pe = "PE_NONE"
    /\ packets = <<>>
    /\ wire = <<>>
    /\ inbuf = <<>>
    /\ responded = 0
    /\ sock = "fresh"
    /\ ready = FALSE

\* A thread can take the mutex, which Connect holds from before AddIOEvent on.
Free == creator = "done" /\ ~locked

\* CloseWithoutLock.
CloseSocket ==
    /\ state' = "CS_CLOSED"
    /\ IF state = "CS_CLOSED"
         THEN UNCHANGED <<sock, ready, connTimer>>
         ELSE sock' = "closed" /\ ready' = FALSE /\ connTimer' = FALSE

-----------------------------------------------------------------------------
(* Connect, in the thread that creates the connection.                     *)

\* AddIOEvent, before the socket connects: epoll reports a hang-up at once.
AddIOEvent ==
    /\ creator = "new"
    /\ creator' = "connecting"
    /\ ready' = TRUE
    /\ UNCHANGED <<conn, client, locked, user, loop, wire, inbuf, responded, sock>>

\* TSCT_ERROR: the socket is closed, and CreateConnection deletes the handler.
ConnectFails ==
    /\ creator = "connecting"
    /\ creator' = "failed"
    /\ sock' = "closed"
    /\ ready' = FALSE
    /\ UNCHANGED <<conn, client, locked, user, loop, wire, inbuf, responded>>

\* TSCT_CONNECTED.
ConnectsAtOnce ==
    /\ creator = "connecting"
    /\ creator' = "done"
    /\ state' = "CS_CONNECTED"
    /\ sock' = "open"
    /\ ready' = TRUE
    /\ UNCHANGED <<blobs, connTimer, client, locked, user, loop, wire, inbuf, responded>>

\* TSCT_CONNECTING: epoll has no event any more, unless the loop has taken it.
ConnectStarts ==
    /\ creator = "connecting"
    /\ creator' = "done"
    /\ state' = "CS_CONNECTING"
    /\ connTimer' = ConnectTimeout
    /\ sock' = "syn"
    /\ ready' = FALSE
    /\ UNCHANGED <<blobs, client, locked, user, loop, wire, inbuf, responded>>

-----------------------------------------------------------------------------
(* The peer and the kernel.                                                *)

PeerAccepts ==
    /\ sock = "syn"
    /\ sock' \in {"open", "refused"}
    /\ ready' = TRUE
    /\ UNCHANGED <<creator, conn, client, locked, user, loop, wire, inbuf, responded>>

\* The peer may send one response that no request has asked for yet.
PeerResponds ==
    /\ sock = "open"
    /\ responded < MaxRequests
    /\ responded <= Len(wire)
    /\ responded' = responded + 1
    /\ inbuf' = Append(inbuf, responded')
    /\ ready' = TRUE
    /\ UNCHANGED <<creator, conn, client, locked, user, loop, wire, sock>>

PeerEnds ==
    /\ sock = "open"
    /\ sock' \in {"fin", "rst", "bad"}
    /\ ready' = TRUE
    /\ UNCHANGED <<creator, conn, client, locked, user, loop, wire, inbuf, responded>>

-----------------------------------------------------------------------------
(* The event-loop thread: DoRead, with HttpClientHandler::Process.         *)

EpollWait ==
    /\ pc = "epoll"
    /\ ready
    /\ ready' = FALSE
    /\ pc' = "read"
    /\ UNCHANGED <<creator, conn, client, locked, user, pe, packets, wire, inbuf, responded, sock>>

\* getsockopt(SO_ERROR) fails, or tells an error.
SoError == sock \in {"refused", "rst", "closed"}

\* CheckConnectingState finds no error: the connection counts as established, and
\* DoRead goes on to read under the same lock.
Connected ==
    /\ pc = "read" /\ Free
    /\ state = "CS_CONNECTING" /\ ~SoError
    /\ state' = "CS_CONNECTED"
    /\ connTimer' = FALSE
    /\ UNCHANGED <<creator, blobs, client, locked, user, loop, kernel>>

\* It finds one.
ConnectRefused ==
    /\ pc = "read" /\ Free
    /\ state = "CS_CONNECTING" /\ SoError
    /\ pe' = "PE_CONNECT_FAILED"
    /\ pc' = "report"
    /\ UNCHANGED <<creator, conn, client, locked, user, packets, kernel>>

\* Mutant: the end of the stream is taken for EAGAIN.
ReadNothingMutant ==
    /\ pc = "read" /\ Free
    /\ \/ state = "CS_CLOSED"
       \/ state = "CS_CONNECTED" /\ inbuf = <<>> /\ sock \in {"syn", "open", "fin"}
    /\ pc' = "write"
    /\ UNCHANGED <<creator, conn, client, locked, user, pe, packets, kernel>>

\* Read returns EAGAIN, or the connection is closed.
ReadNothing ==
    /\ pc = "read" /\ Free
    /\ \/ state = "CS_CLOSED"
       \/ state = "CS_CONNECTED" /\ inbuf = <<>> /\ sock \in {"syn", "open"}
    /\ pc' = "write"
    /\ UNCHANGED <<creator, conn, client, locked, user, pe, packets, kernel>>

\* Read returns the first n responses.
ReadPackets(n) ==
    /\ pc = "read" /\ Free
    /\ state = "CS_CONNECTED"
    /\ packets' = SubSeq(inbuf, 1, n)
    /\ inbuf' = SubSeq(inbuf, n + 1, Len(inbuf))
    /\ pc' = "process"
    /\ UNCHANGED <<creator, conn, client, locked, user, pe, wire, responded, sock, ready>>

\* Read returns 0 or fails, or Decode refuses all that it returns.
ReadEnds ==
    /\ pc = "read" /\ Free
    /\ state = "CS_CONNECTED"
    /\ \/ sock = "fin" /\ inbuf = <<>> /\ pe' = "PE_CONNECT_CLOSE"
       \/ sock \in {"rst", "refused"} /\ pe' = "PE_READ_FAILED"
       \/ sock = "bad" /\ pe' = "PE_DECODE_FAILED"
    /\ inbuf' = <<>>
    /\ pc' = "report"
    /\ UNCHANGED <<creator, conn, client, locked, user, packets, wire, responded, sock, ready>>

\* Mutant: the request stays at the front of the list.
ProcessMutant ==
    /\ pc = "process" /\ Free
    /\ requests # <<>>
    /\ UNCHANGED requests
    /\ reqTimers' = reqTimers \ {Head(requests)}
    /\ told' = [told EXCEPT ![Head(requests)] = Head(packets)]
    /\ pc' = "user"
    /\ packets' = Tail(packets)
    /\ UNCHANGED <<creator, conn, locked, calls, asked, pe, kernel>>

\* Mutant: the timer of the request is left in the Timer's map.
ProcessTimerMutant ==
    /\ pc = "process" /\ Free
    /\ requests # <<>>
    /\ requests' = Tail(requests)
    /\ UNCHANGED reqTimers
    /\ told' = [told EXCEPT ![Head(requests)] = Head(packets)]
    /\ pc' = "user"
    /\ packets' = Tail(packets)
    /\ UNCHANGED <<creator, conn, locked, calls, asked, pe, kernel>>

\* Process gives the response to the request that has waited longest.
Process ==
    /\ pc = "process" /\ Free
    /\ requests # <<>>
    /\ requests' = Tail(requests)
    /\ reqTimers' = reqTimers \ {Head(requests)}
    /\ told' = [told EXCEPT ![Head(requests)] = Head(packets)]
    /\ pc' = "user"
    /\ packets' = Tail(packets)
    /\ UNCHANGED <<creator, conn, locked, calls, asked, pe, kernel>>

\* A response that no request waits for closes the connection.
ProcessUnasked ==
    /\ pc = "process" /\ Free
    /\ requests = <<>>
    /\ CloseSocket
    /\ packets' = <<>>
    /\ pc' = "epoll"
    /\ UNCHANGED <<creator, blobs, client, locked, user, pe, wire, inbuf, responded>>

\* The handler returns true.
UserAccepts ==
    /\ pc = "user"
    /\ pc' = "packet"
    /\ UNCHANGED <<creator, conn, client, locked, user, pe, packets, kernel>>

\* It returns false: DoRead closes the connection and tells the others nothing. The
\* packets left in the parser are never looked at again.
UserBreaks ==
    /\ pc = "user" /\ Free
    /\ CloseSocket
    /\ packets' = <<>>
    /\ pc' = "epoll"
    /\ UNCHANGED <<creator, blobs, client, locked, user, pe, wire, inbuf, responded>>

\* DoRead takes the next packet, or reads on.
NextPacket ==
    /\ pc = "packet" /\ Free
    /\ pc' = IF packets # <<>> THEN "process" ELSE "read"
    /\ UNCHANGED <<creator, conn, client, locked, user, pe, packets, kernel>>

-----------------------------------------------------------------------------
(* The event-loop thread: DoWrite, ReportErrorAndClose and the timers.     *)

WriteNothing ==
    /\ pc = "write" /\ Free
    /\ state # "CS_CONNECTED" \/ blobs = <<>>
    /\ pc' = "epoll"
    /\ UNCHANGED <<creator, conn, client, locked, user, pe, packets, kernel>>

\* The socket takes requests. A full one stops with EAGAIN, and epoll reports room
\* later; one that is still connecting stops with EAGAIN too.
CanWrite == sock \in {"open", "fin", "bad"}

WriteBlobs ==
    /\ pc = "write" /\ Free
    /\ state = "CS_CONNECTED" /\ blobs # <<>>
    /\ CanWrite
    /\ \E n \in 1 .. Len(blobs) :
        /\ wire' = wire \o SubSeq(blobs, 1, n)
        /\ blobs' = SubSeq(blobs, n + 1, Len(blobs))
        /\ ready' = (ready \/ n < Len(blobs))
    /\ pc' = "epoll"
    /\ UNCHANGED <<creator, state, connTimer, client, locked, user, pe, packets,
                   inbuf, responded, sock>>

\* The first write fails, or the socket is still connecting.
WriteFails ==
    /\ pc = "write" /\ Free
    /\ state = "CS_CONNECTED" /\ blobs # <<>>
    /\ ~CanWrite
    /\ IF sock = "syn"
         THEN pe' = pe /\ pc' = "epoll"
         ELSE pe' = "PE_WRITE_FAILED" /\ pc' = "report"
    /\ UNCHANGED <<creator, conn, client, locked, user, packets, kernel>>

\* ReportErrorAndClose: _State becomes CS_CONNECTING, whatever it was.
Report ==
    /\ pc = "report" /\ Free
    /\ state' = "CS_CONNECTING"
    /\ pc' = "drain"
    /\ UNCHANGED <<creator, blobs, connTimer, client, locked, user, pe, packets, kernel>>

\* Process with an error, and OnTimeOut: the next request of the list is told it,
\* also one that came while its handlers were called.
DrainRequest ==
    /\ pc = "drain" /\ Free
    /\ requests # <<>>
    /\ requests' = Tail(requests)
    /\ reqTimers' = reqTimers \ {Head(requests)}
    /\ told' = [told EXCEPT ![Head(requests)] = Failed]
    /\ pc' = "told"
    /\ UNCHANGED <<creator, conn, locked, calls, asked, pe, packets, kernel>>

\* What its handler returns is ignored.
HandlerReturns ==
    /\ pc = "told"
    /\ pc' = "drain"
    /\ UNCHANGED <<creator, conn, client, locked, user, pe, packets, kernel>>

\* The list is empty: Process returns, and ReportErrorAndClose is to close.
ErrorDrained ==
    /\ pc = "drain" /\ Free
    /\ requests = <<>> /\ pe # "PE_PACKET_TIMEOUT"
    /\ pc' = "close"
    /\ UNCHANGED <<creator, conn, client, locked, user, pe, packets, kernel>>

\* OnTimeOut returns after its last mutex.lock().
TimeOutDrained ==
    /\ pc = "drain" /\ Free
    /\ requests = <<>> /\ pe = "PE_PACKET_TIMEOUT"
    /\ locked' = TRUE
    /\ pe' = "PE_NONE"
    /\ pc' = "epoll"
    /\ UNCHANGED <<creator, conn, client, user, packets, kernel>>

CloseAfterError ==
    /\ pc = "close" /\ Free
    /\ CloseSocket
    /\ packets' = <<>>
    /\ pe' = "PE_NONE"
    /\ pc' = "epoll"
    /\ UNCHANGED <<creator, blobs, client, locked, user, wire, inbuf, responded>>

\* Timer::Process takes the timer of a request, and OnTimeOut is called.
RequestTimerFires(k) ==
    /\ pc = "epoll"
    /\ k \in reqTimers
    /\ reqTimers' = reqTimers \ {k}
    /\ pe' = "PE_PACKET_TIMEOUT"
    /\ pc' = "drain"
    /\ UNCHANGED <<creator, conn, requests, locked, user, packets, kernel>>

\* The timer of the connection: TimeOutProcess.
ConnectTimerFires ==
    /\ pc = "epoll"
    /\ connTimer
    /\ connTimer' = FALSE
    /\ pe' = "PE_CONNECT_TIMEOUT"
    /\ pc' = "report"
    /\ UNCHANGED <<creator, state, blobs, client, locked, user, packets, kernel>>

-----------------------------------------------------------------------------
(* The user's threads, and handlers in the loop's.                         *)

\* A thread calls RequestAsync for request k.
CallRequest(k) ==
    /\ creator = "done"
    /\ k \notin asked
    /\ \A j \in Requests : j < k => j \in asked
    /\ asked' = asked \cup {k}
    /\ calls' = calls \cup {k}
    /\ UNCHANGED <<creator, conn, client, locked, told, loop, kernel>>

\* The request goes to the end of the list of those that wait.
Wait(k) ==
    /\ requests' = Append(requests, k)
    /\ reqTimers' = reqTimers \cup ({k} \cap Timed)
    /\ calls' = calls \ {k}

\* Mutant: the request overtakes those that wait in the list of blobs.
RequestSentMutant(k) ==
    /\ k \in calls /\ Free
    /\ state = "CS_CONNECTED" /\ CanWrite
    /\ wire' = Append(wire, k)
    /\ Wait(k)
    /\ UNCHANGED <<creator, conn, locked, asked, told, loop, inbuf, responded, sock, ready>>

\* SendPacketWithoutLock writes it.
RequestSent(k) ==
    /\ k \in calls /\ Free
    /\ state = "CS_CONNECTED" /\ blobs = <<>> /\ CanWrite
    /\ wire' = Append(wire, k)
    /\ Wait(k)
    /\ UNCHANGED <<creator, conn, locked, asked, told, loop, inbuf, responded, sock, ready>>

\* It puts it into its list: not connected yet, others before it, or EAGAIN.
RequestQueued(k) ==
    /\ k \in calls /\ Free
    /\ \/ state = "CS_CONNECTING"
       \/ state = "CS_CONNECTED" /\ (blobs # <<>> \/ CanWrite \/ sock = "syn")
    /\ blobs' = Append(blobs, k)
    /\ ready' = (ready \/ (state = "CS_CONNECTED" /\ blobs = <<>> /\ CanWrite))
    /\ Wait(k)
    /\ UNCHANGED <<creator, state, connTimer, locked, asked, told, loop, wire, inbuf,
                   responded, sock>>

\* It returns false: the connection is closed, Encode refuses, or the write fails;
\* the timer, just added, is deleted.
RequestFails(k) ==
    /\ k \in calls /\ Free
    /\ calls' = calls \ {k}
    /\ UNCHANGED <<creator, conn, client, locked, asked, told, loop, kernel>>

\* HttpHandler::Close.
Close ==
    /\ Free
    /\ CloseSocket
    /\ UNCHANGED <<creator, blobs, client, locked, user, loop, wire, inbuf, responded>>

Loop ==
    \/ EpollWait
    \/ Connected \/ ConnectRefused
    \/ ReadNothing \/ (\E n \in 1 .. Len(inbuf) : ReadPackets(n)) \/ ReadEnds
    \/ Process \/ ProcessUnasked \/ UserAccepts \/ UserBreaks \/ NextPacket
    \/ WriteNothing \/ WriteBlobs \/ WriteFails
    \/ Report \/ DrainRequest \/ HandlerReturns \/ ErrorDrained \/ TimeOutDrained
    \/ CloseAfterError
    \/ \E k \in reqTimers : RequestTimerFires(k)
    \/ ConnectTimerFires

Connect == AddIOEvent \/ ConnectFails \/ ConnectsAtOnce \/ ConnectStarts

Peer == PeerAccepts \/ PeerResponds \/ PeerEnds

RequestReturns(k) == RequestSent(k) \/ RequestQueued(k) \/ RequestFails(k)

User ==
    \/ \E k \in Requests : CallRequest(k) \/ RequestReturns(k)
    \/ Close

Next == Connect \/ Peer \/ Loop \/ User

Spec == Init /\ [][Next]_vars

\* Connect returns, the loop runs and fires its timers, and a caller that finds the
\* mutex free takes it.
FairSpec ==
    /\ Spec
    /\ WF_vars(Connect) /\ WF_vars(Loop)
    /\ \A k \in Requests : WF_vars(RequestReturns(k))

-----------------------------------------------------------------------------
(* Properties.                                                             *)

Pending == {requests[i] : i \in DOMAIN requests}

\* The handler of a request is given the response to that request, though the two
\* are matched by their position alone (RequestAsync, Process): the r-th response
\* goes to the r-th request of the stream, written or still to be written.
OwnResponse ==
    \A k \in Requests : told[k] \in Requests =>
        LET stream == wire \o blobs
        IN  told[k] <= Len(stream) /\ stream[told[k]] = k

\* The handler of a request is called once, with a response or with an error,
\* whichever of response, time-out and error comes first (Process, OnTimeOut).
ToldOnce == [][\A k \in Requests : told[k] # Untold => told'[k] = told[k]]_vars

\* Only a request that waits has a timer: the time-out of one that is done would
\* fail all the others (http_client_handler.cc:82-84 and 103-105, OnTimeOut).
TimersOfPending == reqTimers \subseteq Pending

\* The timer of the connection is armed only until it is established or closed
\* (CheckConnectingState, CloseWithoutLock): later it would end a live connection.
ConnectTimerWhileConnecting == connTimer => state = "CS_CONNECTING"

\* No timer is left behind by what it was set for.
TimersAgree == TypeOK /\ TimersOfPending /\ ConnectTimerWhileConnecting

\* A request that was accepted with a time-out gets an answer or an error, whatever
\* the peer, the connection and the user's threads do.
TimedIsTold ==
    \A k \in Timed : (k \in Pending) ~> (told[k] # Untold)

\* A connection that was refused, ended, reset or sent garbage is closed, unless the
\* loop is stuck in its mutex.
HangUpCloses ==
    (sock \in {"refused", "fin", "rst", "bad"}) ~> (sock = "closed" \/ locked)

\* The user of the connection hears of its end, and of that of a timed request.
UserIsTold == TimedIsTold /\ HangUpCloses

-----------------------------------------------------------------------------
(* What comments of the code say and the code does not do.                 *)

\* http_client_handler.h:40-41: RequestAsync returns at once.
AsyncReturns == \A k \in Requests : (k \in calls) ~> (k \notin calls)

\* base_io_handler.h:39: CS_CONNECTED is an established connection.
ConnectedIsEstablished == state = "CS_CONNECTED" => sock # "syn"
=============================================================================
