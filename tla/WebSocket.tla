----------------------------- MODULE WebSocket -----------------------------
(***************************************************************************)
(* The server side of websocket.c: a WebSocketServer object holds at most   *)
(* one descriptor, that of the connection it was upgraded with, and a poll  *)
(* of the main loop reads one frame from each.  Of a client and the network *)
(* there is what the descriptor can show: frames in order, of which the     *)
(* first part may arrive alone, and the end of the stream (a close frame is *)
(* read after everything before it, and treated alike).                     *)
(*                                                                          *)
(* HttpServer composes this module with the HTTP server, whose connections  *)
(* these are, and with the main thread that runs both.                      *)
(***************************************************************************)
EXTENDS Naturals, Sequences, FiniteSets, FiniteSetsExt, SequencesExt

CONSTANTS Programs, \* kinds of program: sets of rules
          Clients,  \* connections, each named for its client
          Sockets,  \* WebSocketServer objects
          NoConn,   \* no connection: descriptor -1
          MaxFrames \* bound: frames the clients send, together

VARIABLES
  rules,  \* what program and clients keep to (rigid)
  where,  \* who has the connection (nobody any more, if it is lost)
  closes, \* how often it was closed by the server
  fd,     \* connection of an object: ws->fd, with readyState OPEN
  inbox,  \* frames that arrived
  sent,   \* frames the client began to send
  halves, \* clients with the rest of a frame to send
  gone,   \* clients that closed
  log     \* onopen, onmessage and onclose calls about a connection (history)

socketVars == <<where, closes, fd, inbox, sent, halves, gone, log>>

Parts == {"whole", "first", "rest"}
Junk == 0 \* what onmessage gets of a frame that was not read in one piece

SocketTypeOK ==
  /\ where \in [Clients -> {"new", "backlog", "reading", "pending", "current", "ws",
                       "closed", "lost"}]
  /\ closes \in [Clients -> Nat]
  /\ fd \in [Sockets -> Clients \cup {NoConn}]
  /\ inbox \in [Clients -> Seq([frame : Nat, part : Parts])]
  /\ sent \in [Clients -> Nat]
  /\ halves \subseteq Clients /\ gone \subseteq Clients
  /\ log \in [Clients -> Seq({"open", "message", "close"} \X Nat)]

SocketInit ==
  /\ where = [c \in Clients |-> "new"]
  /\ closes = [c \in Clients |-> 0]
  /\ fd = [w \in Sockets |-> NoConn]
  /\ inbox = [c \in Clients |-> <<>>] /\ sent = [c \in Clients |-> 0]
  /\ halves = {} /\ gone = {}
  /\ log = [c \in Clients |-> <<>>]

-----------------------------------------------------------------------------
(* The client, once it has the 101 *)

Arrives(c, frame, part) ==
  inbox' = [inbox EXCEPT ![c] = Append(@, [frame |-> frame, part |-> part])]

SendFrame(c, part) ==
  /\ where[c] = "ws" /\ c \notin gone \cup halves
  /\ "mute" \notin rules
  /\ MapThenSumSet(LAMBDA d : sent[d], Clients) < MaxFrames
  /\ part \in (IF "whole" \in rules THEN {"whole"} ELSE {"whole", "first"})
  /\ sent' = [sent EXCEPT ![c] = @ + 1]
  /\ Arrives(c, sent[c] + 1, part)
  /\ halves' = IF part = "first" THEN halves \cup {c} ELSE halves
  /\ UNCHANGED <<where, closes, fd, gone, log>>

\* the rest joins the first part, unless that was read before
SendRest(c) ==
  /\ where[c] = "ws" /\ c \in halves \ gone
  /\ halves' = halves \ {c}
  /\ IF inbox[c] # <<>> /\ Last(inbox[c]).part = "first"
       THEN inbox' = [inbox EXCEPT ![c][Len(inbox[c])].part = "whole"]
       ELSE Arrives(c, sent[c], "rest")
  /\ UNCHANGED <<where, closes, fd, sent, gone, log>>

\* the client ends the connection
Leave(c) ==
  /\ where[c] \notin {"new", "closed"} /\ c \notin gone
  /\ gone' = gone \cup {c}
  /\ UNCHANGED <<where, closes, fd, inbox, sent, halves, log>>

-----------------------------------------------------------------------------
(* The object *)

Event(c, name, frame) == log' = [log EXCEPT ![c] = Append(@, <<name, frame>>)]

CloseConnection(c) ==
  /\ where' = [where EXCEPT ![c] = "closed"]
  /\ closes' = [closes EXCEPT ![c] = @ + 1]

\* faulty: another object is bound
BindAnother(w, c) ==
  /\ fd' = [fd EXCEPT ![CHOOSE v \in Sockets : TRUE] = c]
  /\ where' = [where EXCEPT ![c] = "ws"]
  /\ Event(c, "open", 0)
  /\ UNCHANGED <<closes, inbox, sent, halves, gone>>
\* ts_websocket_http_upgrade, when the request has a key: the object's earlier
\* descriptor, if it has one, is overwritten
Bind(w, c) ==
  /\ fd' = [fd EXCEPT ![w] = c]
  /\ where' = [where EXCEPT ![c] = "ws"]
  /\ Event(c, "open", 0)
  /\ UNCHANGED <<closes, inbox, sent, halves, gone>>

\* the descriptor is closed, and onclose called
Drop(w) ==
  /\ CloseConnection(fd[w])
  /\ Event(fd[w], "close", 0)
  /\ fd' = [fd EXCEPT ![w] = NoConn]

\* ts_websocket_close
CloseSocket(w) ==
  /\ fd[w] # NoConn
  /\ Drop(w)
  /\ UNCHANGED <<inbox, sent, halves, gone>>

\* ws_recv_frames with something to read: the first part of a frame is dropped, or
\* passed on as if it were all of it (or found to be the last), and the rest is
\* then taken for a frame, of any kind
ReadFrame(w) ==
  LET c == fd[w]
      f == Head(inbox[c])
  IN /\ inbox' = [inbox EXCEPT ![c] = Tail(@)]
     /\ UNCHANGED <<sent, halves, gone>>
     /\ \/ /\ Event(c, "message", IF f.part = "whole" THEN f.frame ELSE Junk)
           /\ UNCHANGED <<where, closes, fd>>
        \/ f.part # "whole" /\ UNCHANGED <<where, closes, fd, log>>
        \/ /\ \/ f.part = "rest"
              \/ f.part = "first" /\ c \in gone
           /\ Drop(w)

Readable(w) == fd[w] # NoConn /\ inbox[fd[w]] # <<>>
AtEnd(w) == fd[w] # NoConn /\ inbox[fd[w]] = <<>> /\ fd[w] \in gone

\* ws_recv_frames at the end of the stream
ReadEnd(w) ==
  /\ Drop(w)
  /\ UNCHANGED <<inbox, sent, halves, gone>>

\* objects with a live connection: those ts_websocket_pending finds
Bound == {w \in Sockets : fd[w] # NoConn}
=============================================================================
