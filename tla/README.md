# Verification of net_frame

net_frame is a C++ HTTP framework on epoll, with a demonstration server that ships a
page driven by JavaScript: a show of slides with sidebars, popups, sliders and sounds.
This directory holds TLA+ models of the framework's concurrent core and of the page's
event-driven one, the TLC configurations that check them, and proofs for TLAPS. The
reference is always the code; paths below are relative to the repository (`src/...` is
the framework's own `src` directory, `resource/js/slides.js` the page's code, "slides.js"
for short).

## 1. The system

### Components

| component | state | operations | who calls them |
|---|---|---|---|
| `MyNet` (`src/my_net`) | `_Running`, the loops, `_EventLoopIndex`, a `ThreadPool` | `Init`, `Start`, `Stop`, `GetOneEventLoop`, `CreateConnection`, `StartServer` | the user's threads |
| `ThreadPool` (`src/thread`) | `_Running`, `_Pool`, `_TaskQueue`, one mutex, one condition variable | `Start`, `AddTask`, `Stop`, `Runner` | `MyNet`; `Runner` is each thread |
| `EventLoop` (`src/io_loop`) | `_Inited`, `_Stoped`, an `Epoll`, a `Timer` | `Run`, `Stop`, `AddIOEvent`, `AddTimeEvent`, `DeleteTimeEvent` | `Run` is a task of the pool, the rest any thread |
| `Timer` | map from expiry to list of items, `_NetExpireTime`, a mutex; `_Time` of each item | `AddTimeItem`, `DeleteTimeItem`, `GetNetExpireTime`, `Process` | `Process` by the loop, the rest any thread |
| `Epoll`, `IOHandler` | epoll descriptor; a reference count in each handler | `AddEvent`, `ModifyEvent`, `EpollWait`, `CopyPtr`, `Release` | the loop, the acceptor, connections |
| `AcceptorHandler` (`src/handler`) | `_Stop`, `_NextIndex`, the listening socket, a mutex | `Start`, `Stop`, `DoRead` | one loop; `Start` and `Stop` the user |
| `BaseIoHandler` | `_State`, `_DataBlobPtrList`, `_DoCloseAfterSend`, a mutex | `Connect`, `DoRead`, `DoWrite`, `SendPacket`, `Close`, `ReportErrorAndClose`, time-outs | its loop; user threads |
| `HttpServerHandler` | `_RecvNo`, `_SendNo`, held responses, `_KeepAlive`, two timer items; all under the mutex of its `BaseIoHandler` | `Process`, `Reply`, `OnKeepAliveTimeout`, `OnIdleTimeout`, `Close`, `Destroy` | `Process` and the time-outs by the loop, `Reply` and `Close` by user threads |
| `HttpClientHandler` | list of requests that wait for a response | `Request`, `RequestAsync`, `Process`, `OnTimeOut` | user threads; the loop |
| `HttpParser` (`src/packet`) | header under assembly, list of complete packets | `Decode`, `GetPacket`, callbacks of the vendored parser | `BaseIoHandler::DoRead` |
| `HttpEncoder` | none | `EncodeRequest`, `EncodeResponse` | `SendPacketWithoutLock` |
| `AddrParser`, `DataBlob`, `Socket` | a string, a buffer, a descriptor | small functions, system calls | all of the above |
| slide manager (slides.js 18-471, 496-871, 1002-1189) | `window.stage`, `inAction`, `blockScroll`, `collectScrolls`, `loaded`; classes of the slides and dots; the address | `showSlide`, `changeSlide`, `updateHash`, `updateNavigation`, `updateScroll`, `runTheCode` | keys, buttons, wheel, swipes, links, history, load, timeouts |
| overlays (1209-1417, 1755-1834) | `sidebarShown`, `popupShown`, `dropdownShown`, `allowSlide`; classes | `showSidebar`, `hideSidebar`, `showPopup`, `hidePopup`, `showDropdown`, `hideDropdown` | clicks, esc, `showSlide`, timeouts, transitions |
| sliders (1536-1715) | classes of the items of a slider and its controller, an interval | next, previous, an item | clicks, autoplay |
| dialogs (1923-2009) | what is displayed, jQuery's queue, cookies | `showDialog`, close, hide | clicks, delays |
| sounds (2075-2105) | the audio element, a button's class, jQuery's queue | play, pause | clicks |

### How they interact

`MyNet::Start` gives each `EventLoop` to the `ThreadPool` as a task that is
meant to run until the net stops. A loop turns for ever: it waits in epoll,
calls `DoRead` and, if that returns true, `DoWrite` of every handler with an
event, then `Timer::Process`. The acceptor's `DoRead` builds a `BaseIoHandler`
with an `HttpServerHandler` for every accepted socket and registers it with the
next loop. `BaseIoHandler::DoRead` parses what it reads and calls
`HttpServerHandler::Process` with the mutex released; that calls the user's
handler, which answers with `Reply`, there and then or later from any thread.
`Reply` takes the connection's mutex, holds a response back until its turn, and
writes. Errors go the same way: `ReportErrorAndClose` calls `Process` with the
error, and then closes.

The page has one thread, and is a set of handlers over shared globals and classes. What
one handler begins it often ends in a callback of `setTimeout` 100 to 1500 ms later, or
at the end of a transition, while other handlers run in between. `changeSlide` locks
with `inAction`, and unlocks in a timeout that is set in a timeout; links, history and
`runTheCode` call `showSlide` without it. `showSlide` also hides the overlays; they in
turn write `allowSlide`, which the wheel and swipes obey.

### What is hard

* Responses become ready in any order, in any thread, and must leave in the
  order of the requests, across partial writes and a full socket buffer.
* The mutex of a connection is released around every callback, and between
  `DoRead` and `ReportErrorAndClose`. The user may close, reply or destroy there.
* Epoll is edge-triggered: a loop that stops reading or writing too early
  leaves a connection silent for ever.
* `Timer::Process` releases its mutex around the item it fires, while other
  threads add and delete items.
* The pool's stop meets waiting threads, running tasks and new tasks; the tasks
  `MyNet` gives it never end.
* In the page a callback acts on what its handler has captured, or reads a global again,
  when other handlers have changed both: a slide selected again before the timeout that
  takes its classes, a sidebar reopened before the one that hides it, a popup closed twice.
* What holds input back (`inAction`, `blockScroll`, `allowSlide`) is released elsewhere
  than it is set.

`PROJECT.json` lists these hazards one by one at their lines, with the properties
that would show each of them going wrong.

### What makes each component correct

* Connection and server handler: responses in order, to the byte; no response
  lost or left behind; requests read; a hung-up connection closed; no use of a
  handler that the user has destroyed; timers only where they belong.
* Thread pool: each task runs once; tasks of a running pool run, also through a
  stop; no lost wake-up; `Stop` returns when the tasks do.
* Timer: no item early, twice, or after its deletion; every due item fires;
  `GetTime() > 0` means pending.
* Net: each loop on one thread, all loops turn until `Stop` is called, loops handed out
  in turn, `Stop` ends.
* Client: every handler told once, with its own response or an error; a timer only
  for what waits; a lost connection closed.
* Parser and encoder: a packet is made of its own message, however it is read; what
  was encoded is decoded to what it was (but for header lines without a value, section 4).
* Slide manager: stage, slide, dot and address come to agree; a change ends and the next
  is accepted; no lock stays; the selected slide is shown and no other. When scrolling,
  the slide in the middle of the window is the selected one.
* Overlays: what is open is what the page takes to be, and the other way round (for
  dropdowns and popups if the user waits for them to go); sliding is not left locked.
* Widgets: slider and controller in step; a dialog closed for good stays closed, but for
  the two ways the code brings it back (section 4); no sound plays with its button off.
* Components without a module: sections 6 and 7.

## 2. Modules

| module | models |
|---|---|
| `ServerConnection` | one accepted connection: `BaseIoHandler` with `HttpServerHandler`, its loop thread, user threads, the peer |
| `ResponseStream` | what such a connection promises to its peer |
| `ServerConnectionProofs` | theorems about `ServerConnection` |
| `ThreadPool` | `ThreadPool` |
| `ThreadPoolProofs` | theorems about `ThreadPool` |
| `Timer`, `MCTimer` | `Timer` and the threads that use it; its time-outs for TLC |
| `MyNet` | `MyNet` over an instance of `ThreadPool`, and `EventLoop::Run` and `Stop` |
| `EventLoopProofs` | theorems about `Timer` and about `MyNet` |
| `ClientConnection` | one outgoing connection: `BaseIoHandler` with `HttpClientHandler`, the thread that connects it, its loop thread, user threads, the peer |
| `ClientConnectionProofs` | theorems about `ClientConnection` |
| `HttpEncoder` | `HttpEncoder::Encode`, as operators from packets to messages |
| `HttpParser`, `MCHttpParser` | `HttpParser` on the messages of `HttpEncoder` and of other peers; its messages and packets for TLC |
| `HttpParserProofs` | theorems about `HttpParser` and `HttpEncoder` |
| `SlideShow`, `MCSlideShow` | the slide manager in slide mode; its dots for TLC |
| `SlideShowProofs` | theorems about `SlideShow` |
| `ScrollMode`, `MCScrollMode` | the slide manager in scroll mode and in simplified mobile mode; its heights for TLC |
| `Overlays`, `MCOverlays` | sidebars, popups, dropdowns and `allowSlide`; their symmetry for TLC |
| `OverlaysProofs` | theorems about `Overlays` |
| `Slider`, `Dialog`, `Sound` | one slider with its controller, the dialogs, one sound |
| `Widgets` | the three of them on one page, as instances |
| `PageProofs` | theorems about `Widgets` and about `ScrollMode` |

In those of the framework an action is what one thread does between taking and releasing a
mutex, or between two points where the code calls out with the mutex released.

### ServerConnection

`state`, `closeAfterSend`, `blobs` are `_State`, `_DoCloseAfterSend` and the unsent
bytes of `_DataBlobPtrList`; `keepAlive`, `recvNo`, `sendNo`, `held` are the fields of
the HTTP handler; `packets` is the parser's list; `timers` the handler's items that
are pending. `pc` is the place of the loop thread and `pe` the error it reports.
`wire`, `inbuf`, `sock`, `writable`, `ready` are the socket and epoll, `offered` and
`alive` record what the user has done. Requests are numbered; a response is `Units`
copies of its request's number, so bytes can be told apart exactly as far as the
order of responses needs. What a whole loop of `Socket::Write` calls does is one
outcome: everything, or a part and then `EAGAIN` or an error.

| action | code |
|---|---|
| `EpollWait` | `Epoll::EpollWait`; `ready` is the edge epoll has to report |
| `ReadNothing`, `ReadPackets`, `ReadGarbage`, `ReadEnds` | one turn of the read loop of `BaseIoHandler::DoRead` |
| `Process`, `UserAccepts`, `UserBreaks`, `NextPacket` | `HttpServerHandler::Process` before and after the user's handler, and the packet loop of `DoRead` |
| `WriteNothing`, `WriteBlobs` | `DoWrite` |
| `Report`, `ProcessError`, `UserIsTold`, `CloseAfterError` | `ReportErrorAndClose`, the error branch of `Process`, the user's handler, `Close` |
| `TimerFires`, then `UserIsTold`, `CloseAfterError` | `OnKeepAliveTimeout`, `OnIdleTimeout` |
| `Reply`: `Hold`, `Refuse`, or `Queue`, `Send`, `SendFails` | `HttpServerHandler::Reply` with `SendPacketWithoutLock` for the response and for those it lets go |
| `Close`, `AddIdleTimeout` | the user's other calls |
| `SendMessage`, `PeerCloses`, `PeerResets`, `SpaceFreed` | the peer and the kernel |

`Reply` is one action because it holds the mutex from its first to its last line.
`Following` is how far its drain loop gets; the loop looks at the first element of
the map only, and erases a response before it tries to encode it (`RefusedNext`).

### ThreadPool

`running`, `queue` are `_Running` and `_TaskQueue`, `worker[w]` the place of a
thread in `Runner`, `task[w]` what it runs. `waiting` is the condition variable's
wait set; `NotifyOne` moves any one thread out of it, and `Wake` is a spurious
wake-up. `Wait`, `TakeTask`, `Leave` are the ways through the first critical
section, `DrainTask` and `Exit` through the second. `added`, `owed` and `done`
record the tasks. Each task is added once, by any caller, in any state of the pool.
A second thread in `Stop` returns at once (thread_pool.cc:78) and changes nothing.

### Timer

`map`, `next` and `time` are `_TimeMap`, `_NetExpireTime` and each item's `_Time`.
`AddTimeItem` and `DeleteTimeItem` are two steps each, what they do to the item
before the lock and what they do under it; `calls` holds the calls between the
two. `Process` and `Continue` run the loop of `Timer::Process` up to where it
unlocks (`TakeExpired`), `Fire` is `SetTime(0)` and the start of the item's
`Process`; from there until `Continue` the item's code may add and delete items. The
clock is `now`. `seen` is the time `Process` read once, at its start.

### MyNet

The state of an instance of `ThreadPool`, whose threads and tasks are both
`Loops`, with `_Running`, each loop's `_Inited` and `_Stoped`, where each loop is in
`Run`, and where the calling thread is in `Start` or `Stop`. `Join` is the join loop of
`ThreadPool::Stop`: it does nothing while a thread runs. `Pick` and `Advance` are the
two statements of `GetOneEventLoop`, each atomic as `_EventLoopIndex` is, and other threads
may come between them (`picked` is who is there). `overlaps` counts the calls that came
while another one was there. `index` starts anywhere because the constructor does not set it. `NetInit`, `NetNext` and `NetSpec` are the module's own, as
those of `Timer` keep the plain names in `EventLoopProofs`.

### ClientConnection

`state`, `blobs`, `connTimer` are those of `BaseIoHandler`; `requests` is `_RequestLists`,
`reqTimers` the requests whose timer is pending. `told` is what each request's handler
has been given: nothing, the r-th response, or an error. `locked` says that a thread
has returned with the mutex locked. `Connect` (`AddIOEvent` and its three ends) holds the
mutex throughout, so that the loop, which may have an event already, waits for it.

| action | code |
|---|---|
| `AddIOEvent`, `ConnectFails`, `ConnectsAtOnce`, `ConnectStarts` | `ConnectWithoutLock` |
| `EpollWait`, `Connected`, `ConnectRefused`, `ReadNothing`, `ReadPackets`, `ReadEnds` | `DoRead` with `CheckConnectingState` |
| `Process`, `ProcessUnasked`, `UserAccepts`, `UserBreaks`, `NextPacket` | `HttpClientHandler::Process` with a response, and the packet loop of `DoRead` |
| `WriteNothing`, `WriteBlobs`, `WriteFails` | `DoWrite` |
| `Report`, `DrainRequest`, `HandlerReturns`, `ErrorDrained`, `CloseAfterError` | `ReportErrorAndClose`, the error loop of `Process`, `Close` |
| `RequestTimerFires`, then `DrainRequest`, `HandlerReturns`, `TimeOutDrained` | `OnTimeOut` |
| `ConnectTimerFires` | `TimeOutProcess` |
| `CallRequest`, then `RequestSent`, `RequestQueued` or `RequestFails` | `RequestAsync`, before and after it has the mutex |
| `Close`, `PeerAccepts`, `PeerResponds`, `PeerEnds` | the user, the peer |

A request is one unit of the stream, because what the order of bytes needs is shown by
`ServerConnection`, whose code this is. The peer answers in order, and may send one
response too many.

### HttpEncoder and HttpParser

A text is a sequence of units; a unit has no inside. `Encode` gives the header lines
in the order of the map, the framing and the chunks of a packet. `HttpParser` has one
action for each callback, which gets the next `n` units of the text at hand: if that is
not all of it, a read ends there, and the rest comes with the next `Decode`. `calls` is
what the vendored parser calls for the message, `at` the next of these callbacks, `given` how
much of its text the reads before have had. `head`, `current` and `list` are
`_HeadInfo`, `_CurrentPacket` and `_PacketList`. `due` pairs each packet of the list with its
message. `DecodedByContent` compares the two by a definition of the header map that
looks at the message as a whole, and says that what is refused depends on the message
and not on the cuts. For every message that map is `StoredMap`: the lines that have a value
and the last one, each under its name (`Names`), which begins with the names of the lines without a
value before it. If no line but the last is without a value (`OnlyLastIsEmpty`), it is
`HeaderMap`: each name with its last value.

`Alphabet` is the names a user may give to headers, in the order of `std::map`; they are in
lower case, as `AddHeader` makes them. `Units` is what texts are made of: it has what
`Encode` writes by itself (`OwnTexts`) and the lower case of what it has. `WellFormed` is what
the vendored parser takes for a message: header lines have names, a request has a target,
and the body is as long as the header lines say. `WellMade` is what a user may make of a packet
for `Encode`: anything but a `Content-Length` or a `Transfer-Encoding` of his own, which
`Encode` writes as they are, true or not (http_encoder.cc:126 and 218).

### SlideShow

`stage`, `inAction`, `blockScroll`, `collectScrolls` and `loaded` are the globals,
`selected`, `active`, `animate` the classes of the slides, `dot` the selected dot, `hash`
the slide the address names. `timeouts` is what `setTimeout` holds: a kind for each of
the eight callbacks, what the callback has captured, and the ticks that are left. A tick
passes when no timeout is due, so the order of the code's delays is kept, and of those
due together any goes first, except where one sets the other's rival (`Due`). `ShowSlide`
and `ChangeSlide` are the two functions; `Step`, `Choose`, `ToEnd`, `Follow`,
`Navigate`, `Wheel` and `Zoom` are the handlers; `UpdateNavigation` to `ShowFirst` are the
callbacks. `Ready` and `Load` come in either order, on a page that waits for its images
or does not. `jumps` fixes whether the user follows links and history; `SelectedIsShown`
is about one who does not.

### ScrollMode

`scrollTop` moves on its own, and the scroll event that tells of it comes later.
`content` is the heights of the slides, `documentHeight` the copy the page took when it was last
resized. `UpdateScroll` is the loop of `updateScroll` as a whole: of the slides it finds
in the middle (`Found`) the last one orders the others, and `Announced` counts the
calls of `updateNavigation`. Callbacks come at any time, a superset of what the clock
allows.

### Overlays

`sidebarShown`, `popupShown` (a sequence), `dropdownShown`, `allowSlide` are the globals,
`html` the classes of the page, the rest those of the elements. A timeout has the element
its closure has and, for `hidePopup`, what its jQuery selector has found; for a sidebar
`found` says that `removeAnimationTimeout` still names it, so that `RemovalCleared` is
`clearTimeout`. Each trigger is an action, `SlideShown` the part `showSlide` has here.
`careful` fixes whether the user waits for a popup to close before the next, and for a
dropdown to go before one is shown: only then does the code keep its stack and the visible
popups together, and only then is a dropdown shown whenever `dropdownShown` says so
(section 4).

### Slider, Dialog, Sound, Widgets

The classes of the items, with `ending` for the transitions whose callback is to come;
the queue of `slideUp` and `slideDown` of each dialog with the cookies, which outlive
`Reload`; the queue of volume fades. `dismissed` is the dialogs the user has closed for good,
from the click on; their cookies are written 500 ms later, at the end of the slide, and
`interrupted` is those for which a load of the page came in between. `Widgets` instantiates
all three. They share no
state, so that a behaviour uses one of them.

## 3. Runs

| run | checks | shows |
|---|---|---|
| `Conn` | `TypeOK`, `ResponsesInOrder`, `EveryReplyHasItsPlace`, `NoByteLost`, `ConnectedHasSocket`, `KeepAliveBetweenCalls`, `StreamSpec`, `ConnectionServes` | safety of a connection, that it implements `ResponseStream`, and that nothing hangs, although epoll reports an edge once; a connection that is kept and idle is closed |
| `Pool` | `TypeOK`, `RunsOnce`, `StopDrains`, `NoLostWakeup`, `StopTerminates`, `OwedIsDone` | the pool loses no task and no wake-up, and `Stop` returns |
| `Timer` | `PlacesAgree`, `FiresInItsTurn`, `PendingFires` | the timer is right in spite of its unlocked windows |
| `Net` | `ThreadsAgree`, `SpreadEvenly`, `EveryLoopTurns` | every loop has its thread and turns until `Stop` is called; users get the loops in turn, but for what each call that overlaps another takes from one loop and gives to another |
| `NetStop` | `StopEnds`, violated | section 4 |
| `Client` | `OwnResponse`, `TimersAgree`, `ToldOnce`, `UserIsTold` | responses reach the requests they answer, once, in spite of time-outs and errors |
| `ClientTimeout` | `AsyncReturns`, violated | section 4 |
| `Parser` | `DecodedByContent`, `DecodesEncoded` | reads may be cut anywhere; bodies and the word on the connection always come back, the headers unless one without a value stands before another |
| `SlideShow` | `TypeOK`, `PartsAgree`, `LocksAreReleased`, `OnlySelectedStays`, `SelectedIsShown`, `ChangesEnd` | however input and timeouts meet, the parts of the page come to agree, and a change ends |
| `Overlays` | `PanelsAreKnown`, `PopupsAgree`, `SlidingReleased` | what is open is known to be, and a sidebar that is known is open, whatever was being hidden; dropdowns and the stack of popups too for a careful user |
| `ScrollMode` | `MiddleIsSelected`, `DotFollows` | at every position the slide in the middle is selected, and the dot follows |
| `Widgets` | `InStep`, `StaysDismissed`, `NothingPlaysOn` | sliders and sounds stay in step with themselves; a dialog closed for good comes back in no other way than the two of section 4 |

Invariants that belong together are conjunctions of named parts, and fold in the type
invariant where a module has no run property of that name.

### Bounds

`Conn` has four requests of two bytes: three are the least for which two held
responses follow a third, two bytes the least for a write that ends inside a
response, and the fourth response is one the encoder refuses while others are held.
`SerialMod` is 8, above every serial number: the code's is 2^32, and what happens at
the wrap is left out (section 6). Both timers are in use. A user who destroys the
handler from a time-out of one of them leaves the other pending. The violated runs have
the least number of requests that shows the violation.

`Pool` has three threads and three tasks: a thread that waits, one that runs a task
and one at the mutex, with a task queued, taken and left. `Timer` has two items,
time-outs of -2, 1 and 2 ticks, and three ticks: two items of one list, two lists, and
a deletion while either is in hand. `Net` has two
loops, two threads that create connections, so that one is between the statements of
`GetOneEventLoop` while the other calls it, an index modulo 4, and at most three connections
for each loop: with one call that overlaps, a loop may have three while the other has none.

`Client` has three requests, of which two have a time-out: one that times out, one behind
it that fails with it, and one without a timer. `Parser` has two messages in a row, so
that something can be left over from the first; names of two units, as a name must be
cut once; two header lines, with one name in two cases; limits of two and three units
with texts below, at and above them; packets with no, one and two headers of the user's,
with a value and without; and bodies of no, half a, one and a half, and two chunks.

`SlideShow` has three slides, the least with one before, one after and one beside the
selected one; each kind of name; up to three timeouts pending when the user acts, one
more than a change has; and delays in the order of the code's (100 ms and the shortest
are one tick, 1000 ms three, the zoom two). `EffectSpeed` equals `SlideSpeed`, as in the
default of the code and with the class `slow`. `Overlays` has two of each, a popup that is animated and
one that is not, three pending timeouts and a stack of two: a close under way while another opens, of the
same or another element. Its sidebars, which are all animated, are alike, and so are
its dropdowns: TLC permutes them, which is sound as the run checks invariants only.
`ScrollMode` has three slides in a window of height 2, one
of height 2 or 3, so that the middle of the window falls on an edge, inside, and on a
slide higher than the window. It moves by one at a time, which reaches the same states as
longer steps would. `Widgets` has three items (next and previous differ), a
dialog with a cookie that hides after a delay and one that is revealed after one, queues
of three slides and four fades.

Deadlock is checked in `Pool`, `Net`, `NetStop` and the four runs of the page. The connections stop when they are closed, the
timer when its clock is at the bound, the parser when it has refused a message.

### Fairness

* `Conn`: weak fairness of the loop thread as a whole (`EventLoop::Run` never
  ends, every loop has a thread of its own, and the user's handler returns) and of
  `SpaceFreed` (the peer reads). No fairness of the user or of what the peer sends.
* `Pool`: weak fairness of each thread's own steps, of the join, and of the end of
  each task; none of spurious wake-ups or of the callers.
* `Timer`: the clock ticks, calls return, and the loop comes back to `Process`
  and goes on in it: strongly fair, because the loop thread is now and then in
  another call, which the code makes finitely often in one turn.
* `Client`: `Connect` returns, the loop thread as a whole runs and fires its timers, and
  a caller that finds the mutex free takes it. No fairness of the peer.
* `SlideShow`: the code at ready runs, the page loads, due timeouts run and the clock
  ticks, as the browser has it; none of the user.
* `Net`: the caller goes on with a call it has begun, and each thread is fair.

## 4. Where the code does not do what it says

Two disagreements have a run:

* `ClientTimeout`: `OnTimeOut` returns with the mutex locked; every later `RequestAsync`,
  and the loop, wait for ever (http_client_handler.cc:183).
* `NetStop`: `EventLoop::Stop` clears `_Inited` and `Run` tests `_Stoped`: `MyNet::Stop`, and
  the destructor, wait for ever (event_loop.cc:30-36).

Nine more are stated by a definition that TLC refutes when a configuration lists it:

* `MyNet!RoundRobin` (`Net.cfg`): my_net.h:67 has the loops handed out in turn, but
  `GetOneEventLoop` reads the index in one statement and advances it in the next, without a
  lock: two threads may get the same loop while the next one is skipped
  (my_net.cc:124-125). `SpreadEvenly` says how far apart this takes the loops.
* `HttpParser!EveryFieldStored` (`Parser.cfg` with one message): http_parser.h:80 has every name
  stored with its value, but a header line without a value is lost when another follows,
  whose name is put behind its own (http_parser.cc:260). `DecodedByContent` says what is
  stored.
* `ServerConnection!ClosesOnlyWhenAnswered` (two requests of two bytes, no timers): when
  its list is empty after `DoWrite` the connection closes, also when responses are held or
  still to come (base_io_handler.cc:268-271).
* `ServerConnection!ExpiresAlive` (`Timers = {"keepalive"}`, `Destroys = TRUE`): the
  demonstration's way of handling an error, `Destroy`, leaves `OnKeepAliveTimeout` with a
  handler that is gone (http_server_handler.cc:87).
* `ClientConnection!ConnectedIsEstablished` (one request, `ConnectTimeout = TRUE`): the
  socket is in epoll before `connect()` is called, and an event of that time makes
  `CheckConnectingState` take it for connected (base_io_handler.cc:119); the time-out of
  the connecting is deleted with that.
* `SlideShow!SelectedIsShown` (`SlideShow.cfg` with the delays of the class `fast` in
  units of 100 ms: `EffectSpeed` 8, `SlideSpeed` 7, `EffectOffset` 4, `Soon` 1,
  `WheelPause` 2, `LoadPause` 5, `ZoomPause` 6): a change ends before its effect (slides.js
  71-73), and who goes back in between loses the classes of the slide that is shown.
* `ServerConnection!KeepAliveWhenAnswered` (`Conn.cfg` with two requests): the keep-alive timer
  is armed when the user's handler returns, also when another thread still owes the response,
  and closes the connection under it (http_server_handler.cc:127). What holds is
  `KeepAliveBetweenCalls`.
* `Overlays!DropdownsAreThere` (`Overlays.cfg`): a click on the trigger of an open dropdown
  hides it and shows it again, and the end of the hiding then takes it away: `dropdownShown`
  stays TRUE with nothing shown and without the page's class (slides.js 1815-1818).
* `Dialog!ClosedStaysClosed` (the dialogs alone, with the constants of `Widgets.cfg`): a delayed
  dialog is revealed whatever its cookie says (slides.js 1984), and a page left in the 500 ms after a
  close has no cookie (1957). `StaysDismissed` names both.

Other defects met on the way, without a run of their own:

* A response that leaves at the first write does not close a connection that is to be
  closed after it; the lines are commented out (base_io_handler.cc:82-85).
* `_NetExpireTime` may stay at a time that is over until the next turn of `Process`
  (timer.cc:73 and 125); it is never late, as `PlacesAgree` shows.
* The synchronous `Request` hands over a null handler: `RequestPacketHandler` derives from
  the shared pointer `MyNetUserHandlerPtr` and not from the handler
  (http_client_handler.cc:26).
* `CreateConnection` takes the encoder and the parser of the server's factories
  (my_net.cc:81-82), and deletes a handler that may be registered (line 183).
* A request accepted after the drain of an error and before `Close`, or pending when a
  handler returns false, is told nothing unless it has a time-out.
* `_HeadMaxLen` limits nothing. A chunked response has more than 1 MB by default, and the
  parser refuses a body of more than 1 MB.
* A response whose body ends with the connection is never complete: `DoRead` does not
  tell the parser that the stream has ended.
* `HttpHandler::Destroy` deletes an object that a shared pointer owns (http_handler.cc:32).

In the page (slides.js), each reflected in a model by what the code does:

* Links and history change the slide in the middle of a change, and the timeout of an
  earlier effect then takes the classes of the slide that is selected again (line 342):
  `SelectedIsShown` holds for who does neither.
* A slide left before the load event stays active for good (line 336); the variable
  `early` records it.
* `toFirstSlide` and `toLastSlide` clear the address also when the change is refused
  (lines 423, 434).
* `showSlide` writes the address of a slide with an id, which `updateHash` does not
  know (line 132): back and forward skip it.
* In scroll mode `changeSlide` sets the stage before the page moves, so that the slide's
  arrival is not announced and the dot stays behind, and a `toSlide-N` beyond the last
  slide leaves a stage there is not (lines 387-389). `DotFollows` is about who only scrolls.
* A slide that grows makes the copy of the document's height wrong, and the last slide may
  not be selected at the end of the page (line 669).
* A popup closed twice, or shown while it closes, leaves the stack and the visible popups
  apart, as each timeout takes out the first entry of its id, the comment says the last
  (lines 1382-1391). `PopupsAgree` has `careful` for it.
* `$this` is the button in line 1709: `hide` is removed from it, and stays on the
  controller's item. `sliderID` is not defined in line 1645.
* The panels' "show on top" tests what no line sets, and the contact form keeps "Done!" when
  it is sent again within four seconds (lines 2035-2055).

## 5. Proofs

TLAPS checks the following for every value of the constants that satisfies the
modules' named assumptions.

| theorem | says | further assumption |
|---|---|---|
| `TypeCorrect` | `Spec => []TypeOK` (connection) | |
| `Order` | `Spec => []ResponsesInOrder` | `MaxRequests <= SerialMod` |
| `ByteConservation` | `Spec => []NoByteLost` | `MaxRequests <= SerialMod` |
| `ConnectedSocket` | `Spec => []ConnectedHasSocket` | `MaxRequests <= SerialMod` |
| `ImplementsStream` | `Spec => StreamSpec` | `MaxRequests <= SerialMod` |
| `RepliesHaveTheirPlaces` | `Spec => []EveryReplyHasItsPlace` | `MaxRequests <= SerialMod`, `~Duplicates` |
| `KeepAliveIsBetweenCalls` | `Spec => []KeepAliveBetweenCalls` | |
| `PoolTypeCorrect` | `Spec => []TypeOK` (pool) | |
| `NoWakeupIsLost` | `Spec => []NoLostWakeup` | |
| `StopLeavesNothing` | `Spec => []StopDrains` | |
| `EveryTaskRunsOnce` | `Spec => []RunsOnce` | |
| `TimerPlacesAgree` | `Spec => []PlacesAgree` (timer) | |
| `TimerFiresInItsTurn` | `Spec => FiresInItsTurn` | |
| `OneThreadRunsALoop` | `NetSpec => []ThreadsAgree` (net) | |
| `NetImplementsPool` | `NetSpec => Pool!Spec` | |
| `LoopsAreAwaited` | `NetSpec => []Pool!NoLostWakeup` | |
| `StopNeverReturns` | `NetSpec => [][caller = "joining" => caller' = "joining"]_netVars` | |
| `LoopsAreSpread` | `NetSpec => []SpreadEvenly` | `IndexMod % ThreadNum = 0` |
| `TimersAlwaysAgree` | `Spec => []TimersAgree` (client) | |
| `ResponsesAreOwn` | `Spec => []OwnResponse` | |
| `HandlersAreToldOnce` | `Spec => ToldOnce` | |
| `PacketsAreTheirMessages` | `Spec => []DecodedByContent` (parser) | |
| `DecodedIsEncoded` | `Spec => []DecodesEncoded` | |
| `SlideShowProofs!TypeCorrect` | `Spec => []TypeOK` (slide manager) | |
| `PagePartsAgree` | `Spec => []PartsAgree` | |
| `NoLockStays` | `Spec => []LocksAreReleased` | |
| `LeftSlidesGo` | `Spec => []OnlySelectedStays` | |
| `SelectedSlideShows` | `Spec => []SelectedIsShown` | `EffectSpeed <= SlideSpeed` |
| `MiddleIsShown` | `Spec => []MiddleIsSelected` (scroll mode) | |
| `DotsFollow` | `Spec => []DotFollows` | |
| `SlidingIsReleased` | `Spec => []SlidingReleased` (overlays) | |
| `PanelsStayKnown` | `Spec => []PanelsAreKnown` | |
| `PopupsAlwaysAgree` | `Spec => []PopupsAgree` | |
| `SliderInStep` | `WidgetsSpec => []InStep` | |
| `DismissedStays` | `WidgetsSpec => []StaysDismissed` | |
| `SoundStops` | `WidgetsSpec => []NothingPlaysOn` | |

The order of the responses is not inductive as it stands: the bytes that are
still in the list will follow those on the wire. `OrderInv` says that wire and
list together are in place (byte i belongs to response `(i - 1) \div Units`) and,
while the socket lasts, that there are exactly `sendNo * Units` of them; that held
responses sit under their own serial; and that a connected connection has its
socket. A `Reply` for serial `sendNo` then appends the next `Units` bytes, and the
responses it lets go the ones after (`BatchInPlace`); a write moves a prefix of the
list to the wire (`WireStep`). That serials do not wrap is needed for the held
responses to be those of their serials. The refinement maps each step to a step of
`ResponseStream` or to none: what the wire gains is in place, and belongs to
responses already given.

`RepliesHaveTheirPlaces` adds to that (`PlaceInv`) that each response before `sendNo` has
been given. The second hypothesis is then what keeps a response from coming again when its
turn is over: a `Reply` is for `sendNo` or for a later one, and a later one stays in the map
until those before it have come. For `KeepAliveIsBetweenCalls` the property is inductive; it is about the calls of the
user's handler, and not about the responses, of which section 4 tells.

For the pool, `PoolInv` ties the place of each thread to `_Running` and to its task.
`NoLostWakeup` counts: every task pushed while a thread waits takes one from `waiting`
to `lock`, and a thread leaves `lock` for `run` with a task, or for `waiting` when the queue
is empty. For `StopDrains`, a task that is owed is queued, with a thread, or done, and
while the queue is not empty some thread has not yet left. `RunsOnce` needs `PoolInv`
only: a task is taken from the queue by the thread that holds the mutex.

For the timer, `TimerInv` says of each item where it can be: in the list of the time it has,
once (`Listed`); with a call that will put it into the map, and then nowhere else (`Added`);
or taken by `Process`, and then due (`Taken`). `CallsApart` is what the module takes of the
users, that calls for one item follow one another. What makes the theorems hold is that
`AddTimeItem` has set the time, and `DeleteTimeItem` has read it, before they have the mutex,
and that neither can be at odds with the map when it gets there.

For the net, `NetInv` joins the places of the loops and of the caller to the state of the
pool: a loop is in `Run` only on the thread that runs its task. `NetImplementsPool` takes the
pool as its abstract specification: `Loop` and the calls of `MyNet` take steps of the pool or
none, so that what is proved of every pool holds of this one: `LoopsAreAwaited` is
`NoWakeupIsLost` for it. `StopNeverReturns` is the safety half of the finding of `NetStop`: the join
waits for threads whose loops never leave `Run`. `LoopsAreSpread` compares the loads with those of loops handed
out in turn, which differ from them by one connection for each call that overlapped another
(`Near`). Of these the order is needed, not only the sizes (`InTurn`): they differ by one at most,
and a loop whose turn comes sooner (`Sooner`, counted from `Cursor`) has no more connections than
one whose turn comes later, so that the next connection cannot go to a loop that is ahead.
`Cursor` is the index plus the number of users between the two statements, as the index will
be there when they are through; a user who finds nobody there gets the loop at `Cursor`
(`PickInTurn`), and one who leaves does not move it (`AdvanceInTurn`). The index wraps from
`IndexMod - 1` to 0, and the next loop is the next in turn only because the number of loops
divides `IndexMod` (`WrapInTurn`); with 2^64 that is so for 2, 4 or 8 loops, and for 3 TLC finds
the step that gives one loop two connections in a row.

For the client, `Once` says that a request waits in the list at most once, untold, and after its
call has returned; a handler is told when its request leaves the list. `Matched` is what
matching by position comes to while the loop can still process a response (`Live`): the
list is the end of the stream of requests, and the responses under way continue the
numbers of those that left it. It does not survive an error or a time-out, which empty the
list; the proof is that nothing is matched after that.

For the parser the messages, their header lines, the chunks of a body and the cuts are any, and
`ParseInv` says how far the message is. `Place` says where the next callback stands among
those of the message (`LaidOut`: the first line, two for each header line, the end of the
headers, the pieces of the body, two for each trailer, the end). `Heads` says what `_HeadInfo`
has by then: the part of the first line that was given, the name at hand with what the lines
before left there (`Before`), and the map of the lines with a value taken so far (`Valued`, `IsMap`), a line
being stored only when the next name begins. With the last line the map is `StoredMap`
(`MapIsStored`). None of this asks anything of the header lines; that
`OnlyLastIsEmpty` makes `StoredMap` the `HeaderMap` is a lemma about messages (`StoredIsAll`). `Bodies` says that the body is the join
of the pieces so far and of the part given (`BodyAt`), `Limits` that neither has passed its
limit, and `Delivered` that list and `due` pair up. The header lines and the body are folds
(`FlattenSeq`): a function of the number of elements taken (`Growth`) has the same steps, its
value is the fold's by induction (`SetInduction`), and the invariant speaks of that function.
`DecodedIsEncoded` needs of `Encode` only what it writes: a message the parser takes, with the whole
body in its chunks (`EncodeIsWellFormed`), each header of the packet under a name of its
own (`HeadersAreKept`), and a word on the connection that means what the packet says
(`WordIsKept`). It holds for `ChunkedSize` 0, which stands for no chunks, and for any other.

For the slide manager all theorems rest on `Typed`, the type invariant with the timeouts
typed by kind, and `Started`, that no timeout is set before the page's code has run.
`LocksAreReleased` needs `HeldUntilRun`: before the page has run `inAction` stands without
a change. The argument is that each step keeps the timeouts of the other kinds: the
change's own step (`Change`) swaps its timeout for the one that ends it, and a refused
change sets none. For `SlidingReleased` the stack is a sequence whose entries leave only
with `PopupOff`, which sets `allowSlide`. `PanelsAreKnown` needs `NoneGoesOff`: while a
sidebar is shown no timeout that would take its classes is set, as showing an animated one
clears the only one there can be; that there is only one is `removeAnimationTimeout`
naming every one that is set. For the dropdowns of a careful user it
needs that while `dropdownShown` is set none is ending, and that else all that are shown are
(`DropdownsKept`). For the dialogs, one closed for good is delayed, or interrupted, or
`Gone`: it keeps its cookie or a closing in its queue, and no show is to come after that; for the sound, the last fade asked for is the one
the button shows (`LastFadeShown`).

In scroll mode positions are sums of heights, a recursive function. What the proofs use of them
(`Tops`: each slide begins where the one before it ends, and none begins before an earlier one) is
proved by induction over the number of slides; the library's induction theorem cannot be used, but a
set of numbers with 0 and with each successor is `Nat` (`SetInduction`), from the
well-foundedness of `<`, and it can. A slide is as high as the window at least: in these modes
its container is a table of height 100vh (slides.css:1372-1378, 4581-4601; slides of class
`autoHeight`, 4603-4606, are left out). So half of the
window lies in a slide exactly if its middle does, and in one slide only (`FoundIsMiddle`);
the two tests of `updateScroll` for the ends of the page never exclude that slide when the height
the page knows is right (`MiddleIsFound`). For the dot, each change of the stage is announced
unless the slide was the stage before (`UpdateFinds`). The type invariant has the stage as any
number above 0: `changeSlide` goes one back also from a stage there is not.

`SelectedSlideShows` rests on the order of the delays. For a user without links and history
`InTurn` says that each effect that will take the classes of a slide belongs to the change
to the selected slide, and is over when the timeout is due that ends that change. A next
change finds none, so that no slide that is selected can lose its classes. The default and
the class `slow`, where an effect lasts as long as a change, satisfy the hypothesis; the class
`fast` does not, and TLC finds `SelectedIsShown` violated with its delays (section 4).

`PopupsAlwaysAgree` needs `Kept`, that the timeouts are finitely many, as the model numbers
those that are alike, and `PopupsHeld`: a popup that is being hidden has the timeout that
found it, and for a user who lets popups close each closing timeout has found exactly its
own popup. The stack is then injective, and `UnstackInjective` says that taking out the first
entry of an id takes out the id.

Every invariant and every action property of the runs has a theorem. What is left to TLC is
liveness, which is out of the prover's reach: `ConnectionServes`, `StopTerminates`,
`OwedIsDone`, `PendingFires`, `EveryLoopTurns`, `UserIsTold`, `ChangesEnd`; and the two
properties that the code violates.

## 6. What the models leave out

* In the connections the contents of messages: the parser and the encoder are a choice
  between success and refusal, and reads are cut at message boundaries, as a partial
  message changes the parser only. `HttpParser` has the contents and the cuts.
* In `HttpParser` packets whose user sets the length or the encoding of the body himself, and
  what the vendored parser does to the bytes: upgrades, responses without
  a body by their code (1xx, 204, 304), bodies that end with the connection.
* In `ClientConnection` the synchronous `Request` (section 4), a request's timer that fires
  in the instant between `AddTimeEvent` and a failing send, and what follows a failed
  `Connect`, after which the handler is deleted.
* Memory: `alive` stands for the deleted `HttpServerHandler`; the `BaseIoHandler`, which
  is never freed, and the reference counts are not modelled.
* The wrap of the 32-bit serial number after 2^32 requests of one connection: no
  response is sent from then on.
* `AddIdleTimeout` from a thread that does not hold the connection's mutex, against the
  loop that deletes the item.
* SIGPIPE, failures of memory allocation, and the calls whose result the code ignores.
* What follows a descriptor shortage in `accept`, and the width of the epoll time-out
  (event_loop.cc:38, 20 ms or 200 ms by the bits of the clock).
* Memory of handlers in epoll: `Release` reads the count again after it decrements, and
  `CreateConnection` deletes a handler that epoll still has. A use of freed memory has no
  next state.
* The page's oversized content, which scrolls inside a slide and sets `allowSlide` by its
  position; parallax and element animations; the equalizer, the panels, the share
  buttons, the contact form and the detection of devices: layout, text or a class set once.
* In scroll mode the slides of class `autoHeight`, which may be lower than the window; the
  served page has none.
* Which DOM elements a jQuery selector finds, where the page has one of each id.
* Logging, vendored code (http_parser, jQuery and its plugins), static files, build files.

## 7. Plan

Done, in this order: `ServerConnection`, `ResponseStream`, `ThreadPool`, `Timer`, `MyNet`,
`ClientConnection`, `HttpEncoder`, `HttpParser`; then the page: `SlideShow`, `ScrollMode`,
`Overlays`, and the widgets. What would be next:

1. `Acceptor`: `AcceptorHandler` with `Epoll` and the reference count of `IOHandler`:
   `Stop` against `DoRead`, edges and failing `accept`, counts never below the holders;
   composed with `MyNet`, whose `StartServer` creates it.
2. Operators, checked over bounded inputs against a reference: the tokens of
   `AddrParser`, the epoll time-out of `EventLoop::Run` at its width.
3. A FIFO abstraction of `ThreadPool`, an abstract timer, and an abstract client that
   matches responses to requests, each with the refinement.
4. Theorems: a bound on what `held` and the list of a connection may hold, and the
   refinements of 3.
