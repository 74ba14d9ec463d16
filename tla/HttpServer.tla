----------------------------- MODULE HttpServer -----------------------------
(***************************************************************************)
(* node_http.c with websocket.c under the main loop of a compiled program.  *)
(* listen stores the server in a global, g_server, and starts an accept     *)
(* thread; the thread accepts on whatever server the global names, reads    *)
(* one request with blocking calls, and queues it.  The main thread drains  *)
(* the queue: the handler runs, and its result is sent, streamed while      *)
(* timers are pending, or makes the connection a WebSocket.                 *)
(***************************************************************************)
EXTENDS WebSocket

CONSTANTS Servers,  \* servers, and the accept threads their listen() started
          NoServer, \* NULL
          MaxTimers \* bound: calls of setTimeout

(* "one":      one server listens (whichever)
   "fresh":    a handler upgrades with an object that has no connection
   "timeouts": the program starts no interval
   "untimed":  nor a timeout
   "keyed":    a request that is upgraded has a Sec-WebSocket-Key
   "whole":    frames arrive whole
   "mute":     clients send no frames
   "alone":    there is one client
   "contained": handlers and callbacks catch what they throw, and the promise a
               handler returns is not rejected *)
ASSUME HttpServerAssumption ==
  /\ Programs \subseteq SUBSET {"one", "fresh", "timeouts", "untimed", "keyed", "whole", "mute", "alone",
                             "contained"}
  /\ NoConn \notin Clients /\ NoServer \notin Servers
  /\ MaxFrames \in Nat /\ MaxTimers \in Nat

VARIABLES
  g_server,  \* the server that listened last
  backlog,   \* connections the kernel has for a server
  thread,    \* where an accept thread is
  on,        \* the server it accepts on
  reading,   \* the connection it reads from
  requested, \* clients that sent their request
  keyed,     \* those whose request has the key (rigid)
  pending,   \* g_pending
  pc, ret,   \* where the main thread is, and where a callback returns to
  cur,       \* the connection whose request is handled
  left,      \* objects the poll has yet to visit
  timeouts,  \* timeouts pending
  timersSet, \* calls of setTimeout so far
  interval,  \* an interval is pending
  connected, \* the order in which clients connected (history)
  handled    \* and in which their requests were handled (history)

acceptVars == <<g_server, backlog, thread, on, reading, requested, pending, connected>>
timerVars == <<timeouts, timersSet, interval>>
mainVars == <<pc, ret, cur, left, handled>>
vars == <<rules, keyed, socketVars, acceptVars, timerVars, mainVars>>

Stages == {"drain", "poll", "poll2"}

TypeOK ==
  /\ rules \in Programs /\ SocketTypeOK
  /\ g_server \in Servers \cup {NoServer}
  /\ backlog \in [Servers -> Seq(Clients)]
  /\ thread \in [Servers -> {"none", "top", "accept", "read"}]
  /\ on \in [Servers -> Servers \cup {NoServer}]
  /\ reading \in [Servers -> Clients \cup {NoConn}]
  /\ requested \subseteq Clients /\ keyed \subseteq Clients
  /\ pending \in Seq(Clients)
  /\ pc \in Stages \cup {"entry", "handler", "stream", "waitKey", "callback"}
  /\ ret \in Stages \cup {"handler", "stream"}
  /\ cur \in Clients \cup {NoConn}
  /\ left \subseteq Sockets
  /\ timeouts \in 0..timersSet /\ timersSet \in 0..MaxTimers /\ interval \in BOOLEAN
  /\ connected \in Seq(Clients) /\ handled \in Seq(Clients)

Init ==
  /\ rules \in Programs /\ SocketInit
  /\ g_server = NoServer
  /\ backlog = [s \in Servers |-> <<>>]
  /\ thread = [s \in Servers |-> "none"]
  /\ on = [s \in Servers |-> NoServer] /\ reading = [s \in Servers |-> NoConn]
  /\ requested = {} /\ keyed \in SUBSET Clients
  /\ "keyed" \in rules => keyed = Clients
  /\ pending = <<>>
  /\ pc = "entry" /\ ret = "drain" /\ cur = NoConn /\ left = {}
  /\ timeouts = 0 /\ timersSet = 0 /\ interval = FALSE
  /\ connected = <<>> /\ handled = <<>>

-----------------------------------------------------------------------------
(* Clients *)

Connect(c, s) ==
  /\ where[c] = "new" /\ thread[s] # "none"
  /\ "alone" \in rules => connected = <<>>
  /\ where' = [where EXCEPT ![c] = "backlog"]
  /\ backlog' = [backlog EXCEPT ![s] = Append(@, c)]
  /\ connected' = Append(connected, c)
  /\ UNCHANGED <<rules, keyed, closes, fd, inbox, sent, halves, gone, log,
                 g_server, thread, on, reading, requested, pending, timerVars, mainVars>>

SendRequest(c) ==
  /\ where[c] # "new" /\ c \notin requested \cup gone
  /\ requested' = requested \cup {c}
  /\ UNCHANGED <<rules, keyed, socketVars, g_server, backlog, thread, on, reading,
                 pending, connected, timerVars, mainVars>>

OfSocket(A) == A /\ UNCHANGED <<rules, keyed, acceptVars, timerVars, mainVars>>
ClientStep(c) ==
  \/ \E s \in Servers : Connect(c, s)
  \/ SendRequest(c)
  \/ OfSocket(\E part \in Parts : SendFrame(c, part))
  \/ OfSocket(SendRest(c))
  \/ OfSocket(Leave(c))

-----------------------------------------------------------------------------
(* http_accept_thread, started by the listen() of s *)

\* reads g_server
Choose(s) ==
  /\ thread[s] = "top"
  /\ on' = [on EXCEPT ![s] = g_server]
  /\ thread' = [thread EXCEPT ![s] = "accept"]
  /\ UNCHANGED <<rules, keyed, socketVars, g_server, backlog, reading, requested,
                 pending, connected, timerVars, mainVars>>

Accept(s) ==
  /\ thread[s] = "accept" /\ backlog[on[s]] # <<>>
  /\ LET c == Head(backlog[on[s]])
     IN /\ reading' = [reading EXCEPT ![s] = c]
        /\ where' = [where EXCEPT ![c] = "reading"]
  /\ backlog' = [backlog EXCEPT ![on[s]] = Tail(@)]
  /\ thread' = [thread EXCEPT ![s] = "read"]
  /\ on' = [on EXCEPT ![s] = NoServer]
  /\ UNCHANGED <<rules, keyed, closes, fd, inbox, sent, halves, gone, log,
                 g_server, requested, pending, connected, timerVars, mainVars>>

\* faulty: pq_push puts the request first
EnqueueFirst(c) == pending' = <<c>> \o pending
Enqueue(c) == pending' = Append(pending, c)

\* recv returns the request, http_parse_request and pq_push follow
ReadRequest(s) ==
  /\ thread[s] = "read" /\ reading[s] \in requested
  /\ Enqueue(reading[s])
  /\ where' = [where EXCEPT ![reading[s]] = "pending"]
  /\ reading' = [reading EXCEPT ![s] = NoConn]
  /\ thread' = [thread EXCEPT ![s] = "top"]
  /\ UNCHANGED <<rules, keyed, closes, fd, inbox, sent, halves, gone, log,
                 g_server, backlog, on, requested, connected, timerVars, mainVars>>

\* faulty: waits for a request that does not come
ReadNothingRetries(s) ==
  /\ thread[s] = "read" /\ reading[s] \in gone \ requested
  /\ UNCHANGED vars
\* the client closed before it sent anything
ReadNothing(s) ==
  /\ thread[s] = "read" /\ reading[s] \in gone \ requested
  /\ CloseConnection(reading[s])
  /\ reading' = [reading EXCEPT ![s] = NoConn]
  /\ thread' = [thread EXCEPT ![s] = "top"]
  /\ UNCHANGED <<rules, keyed, fd, inbox, sent, halves, gone, log, g_server, backlog,
                 on, requested, pending, connected, timerVars, mainVars>>

ThreadStep(s) == Choose(s) \/ Accept(s) \/ ReadRequest(s) \/ ReadNothing(s)

-----------------------------------------------------------------------------
(* Code of the program: the entry function, handlers and callbacks *)

InCode == pc \in {"entry", "handler", "callback"}

\* node_http_server_listen
Listen(s) ==
  /\ InCode
  /\ thread[s] = "none"
  /\ "one" \in rules => s = CHOOSE r \in Servers : TRUE
  /\ g_server' = s
  /\ thread' = [thread EXCEPT ![s] = "top"]
  /\ UNCHANGED <<rules, keyed, socketVars, backlog, on, reading, requested, pending,
                 connected, timerVars, mainVars>>

SetTimers ==
  /\ InCode /\ "untimed" \notin rules
  /\ \/ /\ timersSet < MaxTimers
        /\ timersSet' = timersSet + 1 /\ timeouts' = timeouts + 1
        /\ UNCHANGED interval
     \/ /\ "timeouts" \notin rules /\ ~interval
        /\ interval' = TRUE
        /\ UNCHANGED <<timersSet, timeouts>>
  /\ UNCHANGED <<rules, keyed, socketVars, acceptVars, mainVars>>

Close(w) == InCode /\ OfSocket(CloseSocket(w))

-----------------------------------------------------------------------------
(* The main thread *)

Goto(stage) == pc' = stage
\* user code is called, and control comes back to stage
CallBack(stage) == pc' = "callback" /\ ret' = stage

\* objects the poll of a stage will visit
Visits(stage) == IF stage \in {"poll", "poll2"} THEN Bound ELSE {}
Enter(stage) == Goto(stage) /\ left' = Visits(stage)

\* a timer that is due: its callback is called
FireThen(stage) ==
  /\ \/ timeouts > 0 /\ timeouts' = timeouts - 1
     \/ interval /\ UNCHANGED timeouts
  /\ UNCHANGED <<timersSet, interval>>
  /\ CallBack(stage) /\ left' = Visits(stage)

\* ts_timers_poll, and what comes after it
TimersThen(stage) ==
  \/ FireThen(stage)
  \/ Enter(stage) /\ UNCHANGED <<timerVars, ret>>

EndEntry ==
  /\ pc = "entry"
  /\ Enter("poll2")
  /\ UNCHANGED <<rules, keyed, socketVars, acceptVars, timerVars, ret, cur, handled>>

EndCallback ==
  /\ pc = "callback"
  /\ Goto(ret) /\ ret' = "drain"
  /\ UNCHANGED <<rules, keyed, socketVars, acceptVars, timerVars, cur, left, handled>>

\* pq_pop and the call of the handler
Handle ==
  /\ pc = "drain" /\ pending # <<>>
  /\ cur' = Head(pending)
  /\ pending' = Tail(pending)
  /\ where' = [where EXCEPT ![Head(pending)] = "current"]
  /\ handled' = Append(handled, Head(pending))
  /\ Goto("handler")
  /\ UNCHANGED <<rules, keyed, closes, fd, inbox, sent, halves, gone, log, g_server,
                 backlog, thread, on, reading, requested, connected, timerVars, ret, left>>

\* the response was sent: CLOSE_SOCKET
Finish ==
  /\ CloseConnection(cur)
  /\ cur' = NoConn
  /\ Goto("drain")
  /\ UNCHANGED <<rules, keyed, fd, inbox, sent, halves, gone, log, acceptVars, timerVars,
                 ret, left, handled>>

Respond == pc = "handler" /\ Finish

\* what longjmp unwinds when it leaves the call of a handler, or of a timer's
\* callback polled by its ts_await or while its response is streamed
InHandler == pc = "handler" \/ (pc = "callback" /\ ret \in {"handler", "stream"})

\* the handler throws, or ts_await does for the rejected promise it returned: the
\* jump leaves node_http_server_poll with the request taken and the descriptor
\* nowhere, to the TS_TRY of main(), whose catch clause the loop follows
HandlerThrows ==
  /\ InHandler /\ "contained" \notin rules
  /\ where' = [where EXCEPT ![cur] = "lost"]
  /\ cur' = NoConn
  /\ Goto("entry") /\ ret' = "drain"
  /\ UNCHANGED <<rules, keyed, closes, fd, inbox, sent, halves, gone, log, acceptVars,
                 timerVars, left, handled>>

\* the handler returned a stream, whose chunks timers add
Stream ==
  /\ pc = "handler"
  /\ Goto("stream")
  /\ UNCHANGED <<rules, keyed, socketVars, acceptVars, timerVars, ret, cur, left, handled>>

TimersPending == timeouts > 0 \/ interval

EndStream == pc = "stream" /\ ~TimersPending /\ Finish

\* faulty: the response to an upgrade is followed by CLOSE_SOCKET as any other
UpgradeCloses(w) ==
  /\ pc = "handler" /\ cur \in keyed
  /\ "fresh" \in rules => fd[w] = NoConn
  /\ fd' = [fd EXCEPT ![w] = cur]
  /\ Event(cur, "open", 0)
  /\ CloseConnection(cur)
  /\ CallBack("drain")
  /\ cur' = NoConn
  /\ UNCHANGED <<rules, keyed, inbox, sent, halves, gone, acceptVars, timerVars, left, handled>>
\* the handler returned a Response with a WebSocketServer, and the request has
\* the key (the main thread may have to read on for it)
Upgrade(w) ==
  /\ pc = "handler" /\ cur \in keyed
  /\ "fresh" \in rules => fd[w] = NoConn
  /\ Bind(w, cur)
  /\ CallBack("drain")
  /\ cur' = NoConn
  /\ UNCHANGED <<rules, keyed, acceptVars, timerVars, left, handled>>

\* it has none: the main thread reads from the client, with blocking calls
UpgradeUnkeyed ==
  /\ pc = "handler" /\ cur \notin keyed
  /\ Goto("waitKey")
  /\ UNCHANGED <<rules, keyed, socketVars, acceptVars, timerVars, ret, cur, left, handled>>

\* recv returns 0 until the attempts are used up: 400 Bad Request
Refuse == pc = "waitKey" /\ cur \in gone /\ Finish

\* the rest of node_http_server_poll is ts_timers_poll and ts_websocket_poll; it
\* returns at once if there is no server, and main() polls the timers, too
Drained ==
  /\ pc = "drain" /\ pending = <<>>
  /\ TimersThen(IF g_server = NoServer THEN "poll2" ELSE "poll")
  /\ UNCHANGED <<rules, keyed, socketVars, acceptVars, cur, handled>>

\* timers polled by a ts_await of the handler, and while a response is streamed
FireWhileHandling ==
  /\ pc \in {"handler", "stream"}
  /\ FireThen(pc)
  /\ UNCHANGED <<rules, keyed, socketVars, acceptVars, cur, handled>>

\* ts_websocket_poll visits an object
Visit(w) ==
  /\ pc \in {"poll", "poll2"} /\ w \in left
  /\ left' = left \ {w}
  /\ \/ /\ Readable(w) /\ ReadFrame(w)
        /\ IF log' # log THEN CallBack(pc) ELSE UNCHANGED <<pc, ret>>
     \/ AtEnd(w) /\ ReadEnd(w) /\ CallBack(pc)
     \/ /\ ~Readable(w) /\ ~AtEnd(w)
        /\ UNCHANGED <<socketVars, pc, ret>>
  /\ UNCHANGED <<rules, keyed, acceptVars, timerVars, cur, handled>>

\* the poll of the server is followed by the timers, a sleep and the poll main()
\* makes, and that one by the poll of the server
PollEnds ==
  /\ pc \in {"poll", "poll2"} /\ left = {}
  /\ IF pc = "poll" THEN TimersThen("poll2")
                    ELSE Enter("drain") /\ UNCHANGED <<timerVars, ret>>
  /\ UNCHANGED <<rules, keyed, socketVars, acceptVars, cur, handled>>

MainStep ==
  \/ EndEntry \/ EndCallback \/ Handle \/ Respond \/ Stream \/ EndStream
  \/ \E w \in Sockets : Upgrade(w) \/ Visit(w)
  \/ UpgradeUnkeyed \/ Refuse \/ Drained \/ FireWhileHandling \/ PollEnds

Code ==
  \/ \E s \in Servers : Listen(s)
  \/ SetTimers
  \/ \E w \in Sockets : Close(w)
  \/ HandlerThrows

Next ==
  \/ \E c \in Clients : ClientStep(c)
  \/ \E s \in Servers : ThreadStep(s)
  \/ Code
  \/ MainStep

(* The threads are scheduled, code of the program comes to its end, and a client
   that connected sends its request or leaves. *)
Fairness ==
  /\ WF_vars(MainStep)
  /\ \A s \in Servers : WF_vars(ThreadStep(s))
  /\ \A c \in Clients : WF_vars(SendRequest(c))

Spec == Init /\ [][Next]_vars /\ Fairness

-----------------------------------------------------------------------------
(* Properties *)

\* the holders of a connection
HoldersOf(c) ==
  {<<"backlog", s>> : s \in {s \in Servers : c \in Range(backlog[s])}}
  \cup {<<"thread", s>> : s \in {s \in Servers : reading[s] = c}}
  \cup {<<"queue", i>> : i \in {i \in DOMAIN pending : pending[i] = c}}
  \cup (IF cur = c THEN {<<"main", c>>} ELSE {})
  \cup {<<"socket", w>> : w \in {w \in Sockets : fd[w] = c}}

(* From the kernel over an accept thread, the queue and the main thread to a
   WebSocket, a connection has one holder at any time, and is closed once, by
   its last; with "fresh" and "contained" none is lost.  (An upgrade through an
   object that has a connection overwrites its descriptor, and a throw out of a
   handler drops that of the request: nobody reads or closes it again.) *)
OneHolder ==
  \A c \in Clients :
    /\ closes[c] = IF where[c] = "closed" THEN 1 ELSE 0
    /\ Cardinality(HoldersOf(c)) <= 1
    /\ where[c] \in {"new", "closed", "lost"} => HoldersOf(c) = {}
    /\ {"fresh", "contained"} \subseteq rules =>
         where[c] \in {"new", "closed"} \/ HoldersOf(c) # {}

(* The handlers of a connection see onopen, then its messages, then onclose, once
   each, with the descriptor closed when onclose is called; that holds with polls,
   closes from callbacks and reused objects in between. *)
EventsOfConnection ==
  \A c \in Clients :
    LET n == Len(log[c])
    IN \A i \in 1..n :
         /\ log[c][i][1] = "open" <=> i = 1
         /\ log[c][i][1] = "close" <=> i = n /\ where[c] = "closed"

(* If frames arrive whole, onmessage gets every frame that was read, in the order
   sent (the i-th call is that of frame i - 1, after onopen), and the others are
   still to be read.  (The first part of a frame that arrives alone is passed on
   with bytes nobody sent.) *)
FramesInOrder ==
  "whole" \in rules =>
    \A c \in Clients :
      LET messages == {i \in DOMAIN log[c] : log[c][i][1] = "message"}
      IN /\ \A i \in messages : log[c][i][2] = i - 1
         /\ \A i \in DOMAIN inbox[c] : inbox[c][i].frame = Cardinality(messages) + i
         /\ sent[c] = Cardinality(messages) + Len(inbox[c])

(* A connection on its way through node_http.c and websocket.c: who holds it, and
   what its handlers have seen. *)
ServerInv == TypeOK /\ OneHolder /\ EventsOfConnection /\ FramesInOrder

\* Why: a connection is where it is named, and is named once;
At(place) == {c \in Clients : where[c] = place}
BacklogNames ==
  /\ \A s \in Servers : IsInjective(backlog[s])
  /\ \A s, t \in Servers : s # t => Range(backlog[s]) \cap Range(backlog[t]) = {}
  /\ At("backlog") = UNION {Range(backlog[s]) : s \in Servers}
ThreadNames ==
  /\ \A s \in Servers : reading[s] # NoConn => thread[s] = "read"
  /\ \A s, t \in Servers : reading[s] = reading[t] /\ reading[s] # NoConn => s = t
  /\ At("reading") = Range(reading) \ {NoConn}
QueueNames == IsInjective(pending) /\ At("pending") = Range(pending)
MainNames == At("current") = {cur} \ {NoConn}
SocketNames ==
  /\ \A v, w \in Sockets : fd[v] = fd[w] /\ fd[v] # NoConn => v = w
  /\ Range(fd) \ {NoConn} \subseteq At("ws")
  /\ "fresh" \in rules => At("ws") \subseteq Range(fd)
NoneLost == "contained" \in rules => At("lost") = {}
Names == BacklogNames /\ ThreadNames /\ QueueNames /\ MainNames /\ SocketNames /\ NoneLost
Handling ==
  \/ pc \in {"handler", "stream", "waitKey"}
  \/ pc = "callback" /\ ret \in {"handler", "stream"}
Busy == cur # NoConn <=> Handling
\* it is closed when it goes, and has events once it is a WebSocket,
Accounted ==
  \A c \in Clients :
    /\ closes[c] = IF where[c] = "closed" THEN 1 ELSE 0
    /\ where[c] \notin {"ws", "closed"} => log[c] = <<>>
    /\ where[c] = "ws" => log[c] # <<>>
\* one for each frame that is no longer in the socket.
Heard(c) == IF log[c] = <<>> THEN 0 ELSE Len(log[c]) - (IF where[c] = "closed" THEN 2 ELSE 1)
WholeFrames ==
  "whole" \in rules =>
    /\ halves = {}
    /\ \A c \in Clients :
         /\ \A i \in 1..Len(log[c]) : log[c][i][1] = "message" => log[c][i][2] = i - 1
         /\ \A i \in 1..Len(inbox[c]) : inbox[c][i] = [frame |-> Heard(c) + i, part |-> "whole"]
         /\ sent[c] = Heard(c) + Len(inbox[c])
ServerIInv == TypeOK /\ Names /\ Busy /\ Accounted /\ EventsOfConnection /\ WholeFrames

(* With one server, requests are handled in the order in which the clients
   connected, each once: its accept thread reads one connection at a time.  A
   second listen() starts a second thread, and both accept on the second server. *)
HandledInOrder ==
  "one" \in rules =>
    \A i, j \in DOMAIN handled :
      i < j => \E k, l \in DOMAIN connected :
                 k < l /\ connected[k] = handled[i] /\ connected[l] = handled[j]

\* Why: one thread takes connections from one backlog, and holds one at a time;
OneThread ==
  "one" \in rules =>
    \A s \in Servers :
      /\ thread[s] # "none" => s = (CHOOSE r \in Servers : TRUE) /\ g_server = s
      /\ thread[s] = "none" => backlog[s] = <<>>
      /\ thread[s] = "accept" => on[s] = s
      /\ reading[s] # NoConn => thread[s] = "read"
\* and who was handled, who is queued, who is read from and who waits stand in line.
Before(list, c, d) == \E k, l \in DOMAIN list : k < l /\ list[k] = c /\ list[l] = d
Ordered(list, part) == \A i, j \in DOMAIN part : i < j => Before(list, part[i], part[j])
Ahead(list, front, back) == \A c \in front, d \in back : Before(list, c, d)
Read(s) == {reading[s]} \ {NoConn}
InLine ==
  "one" \in rules =>
    LET served == Range(handled) \cup Range(pending)
    IN /\ Ordered(connected, handled) /\ Ordered(connected, pending)
       /\ Ahead(connected, Range(handled), Range(pending))
       /\ served \subseteq Range(connected)
       /\ \A s \in Servers :
            /\ Ordered(connected, backlog[s])
            /\ Ahead(connected, served, Read(s) \cup Range(backlog[s]))
            /\ Ahead(connected, Read(s), Range(backlog[s]))
            /\ Read(s) \cup Range(backlog[s]) \subseteq Range(connected)
LineIInv == OneThread /\ InLine

(* A client that sent its request gets an answer, or is connected as a WebSocket.
   It does not with a second server (the backlog of the first is never accepted),
   an interval (a streamed response ends when no timer is pending), an upgrade
   without a key (the main thread reads from that client until it leaves), or a
   handler that throws or whose promise is rejected (nobody answers or closes). *)
EveryRequestAnswered ==
  \A c \in Clients :
    {"one", "timeouts", "keyed", "contained"} \subseteq rules /\ c \in requested
      ~> where[c] \in {"ws", "closed"}

(* What a WebSocket client sends is read, and its leaving noticed, while the main
   thread also serves requests and runs callbacks.  (A throw out of a callback of
   the poll leaves g_ws_polling set, and nothing is read any more: Exceptions.) *)
SocketsAreRead ==
  \A c \in Clients :
    ( /\ {"fresh", "timeouts", "keyed", "contained"} \subseteq rules
      /\ where[c] = "ws" /\ (inbox[c] # <<>> \/ c \in gone) )
    ~> ((inbox[c] = <<>> /\ c \notin gone) \/ where[c] = "closed")
=============================================================================
