------------------------- MODULE HttpServer_proofs -------------------------
(* Proofs about HttpServer, for any clients, servers, sockets and programs. *)
EXTENDS HttpServer, SequenceTheorems, FiniteSetTheorems, TLAPS

-----------------------------------------------------------------------------
(* Lists of clients *)

(* A connection is put at the end of a list, *)
LEMMA AppendFacts ==
  ASSUME NEW S, NEW s \in Seq(S), NEW x \in S
  PROVE  /\ Append(s, x) \in Seq(S) /\ Range(Append(s, x)) = Range(s) \cup {x}
         /\ DOMAIN s = 1..Len(s) /\ Len(s) \in Nat /\ DOMAIN Append(s, x) = 1..(Len(s) + 1)
         /\ \A i \in 1..Len(s) : Append(s, x)[i] = s[i]
         /\ Append(s, x)[Len(s) + 1] = x
<1> DEFINE w == Append(s, x)
<1>1. /\ w \in Seq(S) /\ DOMAIN s = 1..Len(s) /\ Len(s) \in Nat /\ Len(w) = Len(s) + 1
      /\ \A i \in 1..Len(s) : w[i] = s[i]
      /\ w[Len(s) + 1] = x
  OBVIOUS
<1>2. DOMAIN w = 1..(Len(s) + 1)
  BY <1>1
<1> HIDE DEF w
<1>3. Range(w) = Range(s) \cup {x}
  <2>1. \A i \in 1..(Len(s) + 1) : i = Len(s) + 1 \/ i \in 1..Len(s)
    BY <1>1
  <2>2. Len(s) + 1 \in 1..(Len(s) + 1) /\ \A i \in 1..Len(s) : i \in 1..(Len(s) + 1)
    BY <1>1
  <2> QED BY <1>1, <1>2, <2>1, <2>2 DEF Range
<1> QED BY <1>1, <1>2, <1>3 DEF w

(* or taken from its front, *)
LEMMA TailFacts ==
  ASSUME NEW S, NEW s \in Seq(S), s # <<>>
  PROVE  /\ Head(s) \in S /\ Head(s) \in Range(s)
         /\ Tail(s) \in Seq(S) /\ Range(Tail(s)) \subseteq Range(s)
         /\ DOMAIN s = 1..Len(s) /\ Len(s) \in Nat /\ 1 \in DOMAIN s /\ Head(s) = s[1]
         /\ \A i \in DOMAIN Tail(s) : i >= 1 /\ i \in Nat /\ i + 1 \in DOMAIN s /\ Tail(s)[i] = s[i + 1]
<1> DEFINE t == Tail(s)
<1>1. /\ Head(s) = s[1] /\ s[1] \in S /\ DOMAIN s = 1..Len(s) /\ Len(s) \in Nat /\ 1 \in 1..Len(s)
      /\ t \in Seq(S) /\ Len(t) = Len(s) - 1
      /\ \A i \in 1..(Len(s) - 1) : t[i] = s[i + 1]
  OBVIOUS
<1>2. DOMAIN t = 1..(Len(s) - 1)
  BY <1>1
<1> HIDE DEF t
<1>3. \A i \in DOMAIN t : i >= 1 /\ i \in Nat /\ i + 1 \in DOMAIN s /\ t[i] = s[i + 1]
  BY <1>1, <1>2
<1>4. Range(t) \subseteq Range(s)
  BY <1>3 DEF Range
<1>5. Head(s) \in Range(s)
  BY <1>1 DEF Range
<1> QED BY <1>1, <1>3, <1>4, <1>5 DEF t

(* The order does not change when others come. *)
LEMMA LineGrows ==
  ASSUME NEW list \in Seq(Clients), NEW x \in Clients
  PROVE  /\ \A c, d : Before(list, c, d) => Before(Append(list, x), c, d)
         /\ \A c \in Range(list) : Before(Append(list, x), c, x)
         /\ \A part : Ordered(list, part) => Ordered(Append(list, x), part)
         /\ \A front, back : Ahead(list, front, back) => Ahead(Append(list, x), front, back)
<1> DEFINE w == Append(list, x)
<1>1. /\ DOMAIN list = 1..Len(list) /\ Len(list) \in Nat /\ DOMAIN w = 1..(Len(list) + 1)
      /\ \A i \in 1..Len(list) : w[i] = list[i]
      /\ w[Len(list) + 1] = x
  BY AppendFacts
<1> HIDE DEF w
<1>2. \A c, d : Before(list, c, d) => Before(w, c, d)
  <2>1. \A i \in 1..Len(list) : i \in DOMAIN w
    BY <1>1
  <2> QED BY <1>1, <2>1 DEF Before
<1>3. ASSUME NEW c \in Range(list) PROVE Before(w, c, x)
  <2>1. PICK i \in 1..Len(list) : list[i] = c
    BY <1>1 DEF Range
  <2>2. i \in DOMAIN w /\ Len(list) + 1 \in DOMAIN w /\ i < Len(list) + 1
    BY <1>1
  <2> QED BY <1>1, <2>1, <2>2 DEF Before
<1> QED BY <1>2, <1>3 DEF Ordered, Ahead, w

(* One more at the end, and one less at the front. *)
LEMMA OrderedAppend ==
  ASSUME NEW list, NEW part \in Seq(Clients), NEW x \in Clients,
         Ordered(list, part), Ahead(list, Range(part), {x})
  PROVE  Ordered(list, Append(part, x))
<1> DEFINE w == Append(part, x)
<1>1. /\ DOMAIN part = 1..Len(part) /\ Len(part) \in Nat /\ DOMAIN w = 1..(Len(part) + 1)
      /\ \A i \in 1..Len(part) : w[i] = part[i]
      /\ w[Len(part) + 1] = x
  BY AppendFacts
<1> HIDE DEF w
<1>2. ASSUME NEW i \in DOMAIN w, NEW j \in DOMAIN w, i < j PROVE Before(list, w[i], w[j])
  <2>1. i \in 1..Len(part) /\ (j = Len(part) + 1 \/ j \in 1..Len(part))
    BY <1>1, <1>2
  <2>2. part[i] \in Range(part)
    BY <1>1, <2>1 DEF Range
  <2> QED BY <1>1, <1>2, <2>1, <2>2 DEF Ordered, Ahead
<1> QED BY <1>2 DEF Ordered, w

(* and then the rest is behind it. *)
LEMMA OrderedTail ==
  ASSUME NEW list, NEW part \in Seq(Clients), part # <<>>, Ordered(list, part)
  PROVE  Ordered(list, Tail(part)) /\ Ahead(list, {Head(part)}, Range(Tail(part)))
<1> DEFINE t == Tail(part)
<1>1. /\ 1 \in DOMAIN part /\ Head(part) = part[1]
      /\ \A i \in DOMAIN t : i >= 1 /\ i \in Nat /\ i + 1 \in DOMAIN part /\ t[i] = part[i + 1]
  BY TailFacts
<1> HIDE DEF t
<1>2. \A i \in DOMAIN t : 1 < i + 1
  BY <1>1
<1>3. \A i, j \in DOMAIN t : i < j => i + 1 < j + 1
  BY <1>1
<1>4. Ordered(list, t)
  BY <1>1, <1>3 DEF Ordered
<1>5. Ahead(list, {Head(part)}, Range(t))
  BY <1>1, <1>2 DEF Ordered, Ahead, Range
<1> QED BY <1>4, <1>5 DEF t

-----------------------------------------------------------------------------
(* The line of the clients *)

LineTypes ==
  /\ connected \in Seq(Clients) /\ handled \in Seq(Clients) /\ pending \in Seq(Clients)
  /\ backlog \in [Servers -> Seq(Clients)] /\ requested \subseteq Clients
  /\ thread \in [Servers -> {"none", "top", "accept", "read"}]
  /\ on \in [Servers -> Servers \cup {NoServer}]
  /\ reading \in [Servers -> Clients \cup {NoConn}]
  /\ \A s \in Servers : thread[s] # "none" => g_server \in Servers
  /\ \A s \in Servers : thread[s] = "accept" => on[s] \in Servers

LineInv == LineTypes /\ LineIInv

lineVars == <<rules, g_server, connected, handled, pending, backlog, requested, thread, on, reading>>

TheServer == CHOOSE r \in Servers : TRUE

(* Nobody stands in line before the first client, *)
LEMMA InitLine == Init => LineInv
<1> SUFFICES ASSUME Init PROVE LineInv
  OBVIOUS
<1> USE DEF Init
<1>1. LineTypes
  BY DEF LineTypes
<1>2. OneThread
  BY DEF OneThread
<1>3. DOMAIN handled = {} /\ DOMAIN pending = {} /\ \A s \in Servers : DOMAIN backlog[s] = {} /\ Read(s) = {}
  <2>1. \A s \in Servers : backlog[s] = handled
    OBVIOUS
  <2>2. DOMAIN handled = {} /\ DOMAIN pending = {}
    OBVIOUS
  <2> QED BY <2>1, <2>2 DEF Read
<1>4. InLine
  BY <1>3 DEF InLine, Ordered, Ahead, Range
<1> QED BY <1>1, <1>2, <1>4 DEF LineInv, LineIInv

(* a step elsewhere keeps the line, *)
LEMMA QuietLine == ASSUME LineInv, UNCHANGED lineVars PROVE LineInv'
<1>1. LineTypes'
  BY DEF LineInv, LineTypes, lineVars
<1>2. OneThread'
  BY DEF LineInv, LineIInv, OneThread, lineVars
<1>3. InLine'
  BY DEF LineInv, LineIInv, InLine, Read, lineVars
<1> QED BY <1>1, <1>2, <1>3 DEF LineInv, LineIInv

(* A client connects: it is the last in line. *)
LEMMA ConnectStep ==
  ASSUME LineInv, NEW c \in Clients, NEW s \in Servers, Connect(c, s) PROVE LineInv'
<1> USE DEF LineInv, LineIInv
<1>1. /\ thread[s] # "none" /\ backlog' = [backlog EXCEPT ![s] = Append(backlog[s], c)]
      /\ connected' = Append(connected, c)
      /\ UNCHANGED <<rules, g_server, handled, pending, requested, thread, on, reading>>
  BY DEF Connect, mainVars
<1>2. /\ connected \in Seq(Clients) /\ backlog[s] \in Seq(Clients)
      /\ Append(connected, c) \in Seq(Clients) /\ Append(backlog[s], c) \in Seq(Clients)
  BY AppendFacts DEF LineTypes
<1>3. /\ backlog'[s] = Append(backlog[s], c)
      /\ \A t \in Servers : t # s => backlog'[t] = backlog[t]
      /\ backlog' \in [Servers -> Seq(Clients)]
  BY <1>1, <1>2 DEF LineTypes
<1>4. LineTypes'
  BY <1>1, <1>2, <1>3 DEF LineTypes
<1>5. OneThread'
  BY <1>1, <1>3 DEF OneThread
<1>6. InLine'
  <2> SUFFICES ASSUME "one" \in rules PROVE InLine'
    BY <1>1 DEF InLine
  <2> DEFINE served == Range(handled) \cup Range(pending)
             line == Append(connected, c)
  <2>1. /\ \A a, b : Before(connected, a, b) => Before(line, a, b)
        /\ \A a \in Range(connected) : Before(line, a, c)
        /\ \A part : Ordered(connected, part) => Ordered(line, part)
        /\ \A front, back : Ahead(connected, front, back) => Ahead(line, front, back)
    BY <1>2, LineGrows
  <2>2. Range(line) = Range(connected) \cup {c}
        /\ Range(Append(backlog[s], c)) = Range(backlog[s]) \cup {c}
    BY <1>2, AppendFacts
  <2>3. /\ Ordered(connected, handled) /\ Ordered(connected, pending)
        /\ Ahead(connected, Range(handled), Range(pending))
        /\ served \subseteq Range(connected)
    BY DEF InLine
  <2>4. \A t \in Servers : /\ Ordered(connected, backlog[t])
                           /\ Ahead(connected, served, Read(t) \cup Range(backlog[t]))
                           /\ Ahead(connected, Read(t), Range(backlog[t]))
                           /\ Read(t) \cup Range(backlog[t]) \subseteq Range(connected)
    BY DEF InLine
  <2>5. \A t \in Servers : Read(t)' = Read(t)
    BY <1>1 DEF Read
  <2> HIDE DEF served, line
  <2>6. /\ Ordered(line, backlog'[s])
        /\ Ahead(line, served, Read(s) \cup Range(backlog'[s]))
        /\ Ahead(line, Read(s), Range(backlog'[s]))
        /\ Read(s) \cup Range(backlog'[s]) \subseteq Range(line)
    <3>1. Ordered(line, backlog[s]) /\ Ahead(line, Range(backlog[s]), {c})
      BY <2>1, <2>4 DEF Ahead
    <3>2. Ordered(line, backlog'[s])
      BY <1>2, <1>3, <3>1, OrderedAppend
    <3>3. Ahead(line, served, Read(s) \cup Range(backlog[s])) /\ Ahead(line, Read(s), Range(backlog[s]))
      BY <2>1, <2>4
    <3>4. Ahead(line, served, {c}) /\ Ahead(line, Read(s), {c})
      BY <2>1, <2>3, <2>4 DEF Ahead
    <3> QED BY <1>3, <2>2, <2>4, <3>2, <3>3, <3>4 DEF Ahead
  <2>7. ASSUME NEW t \in Servers
        PROVE  /\ Ordered(line, backlog'[t])
               /\ Ahead(line, served, Read(t) \cup Range(backlog'[t]))
               /\ Ahead(line, Read(t), Range(backlog'[t]))
               /\ Read(t) \cup Range(backlog'[t]) \subseteq Range(line)
    <3>1. CASE t = s
      BY <2>6, <3>1
    <3>2. CASE t # s
      BY <1>3, <2>1, <2>2, <2>4, <3>2
    <3> QED BY <3>1, <3>2
  <2>8. /\ Ordered(line, handled) /\ Ordered(line, pending)
        /\ Ahead(line, Range(handled), Range(pending))
        /\ served \subseteq Range(line)
    BY <2>1, <2>2, <2>3
  <2> QED BY <1>1, <2>5, <2>7, <2>8 DEF InLine, served, line
<1> QED BY <1>4, <1>5, <1>6

(* listen(): the thread of the one server. *)
LEMMA ListenStep == ASSUME LineInv, NEW s \in Servers, Listen(s) PROVE LineInv'
<1> USE DEF LineInv, LineIInv
<1>1. /\ thread[s] = "none" /\ ("one" \in rules => s = TheServer)
      /\ g_server' = s /\ thread' = [thread EXCEPT ![s] = "top"]
      /\ UNCHANGED <<rules, connected, handled, pending, backlog, requested, on, reading>>
  BY DEF Listen, mainVars, TheServer
<1>2. /\ thread'[s] = "top" /\ \A t \in Servers : t # s => thread'[t] = thread[t]
      /\ thread' \in [Servers -> {"none", "top", "accept", "read"}]
  BY <1>1 DEF LineTypes
<1>3. LineTypes'
  BY <1>1, <1>2 DEF LineTypes
<1>4. OneThread'
  <2> SUFFICES ASSUME "one" \in rules, NEW t \in Servers
               PROVE  /\ thread'[t] # "none" => t = TheServer /\ g_server' = t
                      /\ thread'[t] = "none" => backlog[t] = <<>>
                      /\ thread'[t] = "accept" => on[t] = t
                      /\ reading[t] # NoConn => thread'[t] = "read"
    BY <1>1 DEF OneThread, TheServer
  <2>1. /\ thread[t] # "none" => t = TheServer
        /\ thread[t] = "none" => backlog[t] = <<>>
        /\ thread[t] = "accept" => on[t] = t
        /\ reading[t] # NoConn => thread[t] = "read"
    BY DEF OneThread, TheServer
  <2> QED BY <1>1, <1>2, <2>1
<1>5. InLine'
  BY <1>1 DEF InLine, Read
<1> QED BY <1>3, <1>4, <1>5

(* The accept thread reads g_server. *)
LEMMA ChooseStep == ASSUME LineInv, NEW s \in Servers, Choose(s) PROVE LineInv'
<1> USE DEF LineInv, LineIInv
<1>1. /\ thread[s] = "top" /\ on' = [on EXCEPT ![s] = g_server]
      /\ thread' = [thread EXCEPT ![s] = "accept"]
      /\ UNCHANGED <<rules, g_server, connected, handled, pending, backlog, requested, reading>>
  BY DEF Choose, mainVars
<1>2. /\ thread'[s] = "accept" /\ on'[s] = g_server
      /\ \A t \in Servers : t # s => thread'[t] = thread[t] /\ on'[t] = on[t]
      /\ thread' \in [Servers -> {"none", "top", "accept", "read"}]
      /\ g_server \in Servers /\ on' \in [Servers -> Servers \cup {NoServer}]
  BY <1>1 DEF LineTypes
<1>3. LineTypes'
  BY <1>1, <1>2 DEF LineTypes
<1>4. OneThread'
  <2> SUFFICES ASSUME "one" \in rules, NEW t \in Servers
               PROVE  /\ thread'[t] # "none" => t = TheServer /\ g_server = t
                      /\ thread'[t] = "none" => backlog[t] = <<>>
                      /\ thread'[t] = "accept" => on'[t] = t
                      /\ reading[t] # NoConn => thread'[t] = "read"
    BY <1>1 DEF OneThread, TheServer
  <2>1. /\ thread[t] # "none" => t = TheServer /\ g_server = t
        /\ thread[t] = "none" => backlog[t] = <<>>
        /\ thread[t] = "accept" => on[t] = t
        /\ reading[t] # NoConn => thread[t] = "read"
    BY DEF OneThread, TheServer
  <2> QED BY <1>1, <1>2, <2>1
<1>5. InLine'
  BY <1>1 DEF InLine, Read
<1> QED BY <1>3, <1>4, <1>5

(* It takes the first connection of the backlog. *)
LEMMA AcceptStep == ASSUME LineInv, NEW s \in Servers, Accept(s) PROVE LineInv'
<1> USE DEF LineInv, LineIInv
<1> DEFINE p == on[s]
           c == Head(backlog[p])
<1>1. /\ thread[s] = "accept" /\ backlog[p] # <<>>
      /\ reading' = [reading EXCEPT ![s] = c]
      /\ backlog' = [backlog EXCEPT ![p] = Tail(backlog[p])]
      /\ thread' = [thread EXCEPT ![s] = "read"] /\ on' = [on EXCEPT ![s] = NoServer]
      /\ UNCHANGED <<rules, g_server, connected, handled, pending, requested>>
  BY DEF Accept, mainVars
<1>2. p \in Servers /\ backlog[p] \in Seq(Clients)
  BY <1>1 DEF LineTypes
<1>3. c \in Clients /\ c \in Range(backlog[p]) /\ c # NoConn
      /\ Tail(backlog[p]) \in Seq(Clients) /\ Range(Tail(backlog[p])) \subseteq Range(backlog[p])
  BY <1>1, <1>2, TailFacts, HttpServerAssumption
<1> HIDE DEF p, c
<1>4. /\ thread'[s] = "read" /\ reading'[s] = c /\ backlog'[p] = Tail(backlog[p])
      /\ \A t \in Servers : t # s => thread'[t] = thread[t] /\ on'[t] = on[t] /\ reading'[t] = reading[t]
      /\ \A t \in Servers : t # p => backlog'[t] = backlog[t]
      /\ thread' \in [Servers -> {"none", "top", "accept", "read"}]
      /\ on' \in [Servers -> Servers \cup {NoServer}]
      /\ backlog' \in [Servers -> Seq(Clients)]
      /\ reading' \in [Servers -> Clients \cup {NoConn}]
  BY <1>1, <1>2, <1>3 DEF LineTypes
<1>5. LineTypes'
  BY <1>1, <1>4 DEF LineTypes
<1>6. "one" \in rules => s = TheServer /\ p = s /\ reading[s] = NoConn
  BY <1>1 DEF OneThread, TheServer, p
<1>7. OneThread'
  <2> SUFFICES ASSUME "one" \in rules, NEW t \in Servers
               PROVE  /\ thread'[t] # "none" => t = TheServer /\ g_server = t
                      /\ thread'[t] = "none" => backlog'[t] = <<>>
                      /\ thread'[t] = "accept" => on'[t] = t
                      /\ reading'[t] # NoConn => thread'[t] = "read"
    BY <1>1 DEF OneThread, TheServer
  <2>1. /\ thread[t] # "none" => t = TheServer /\ g_server = t
        /\ thread[t] = "none" => backlog[t] = <<>>
        /\ thread[t] = "accept" => on[t] = t
        /\ reading[t] # NoConn => thread[t] = "read"
    BY DEF OneThread, TheServer
  <2>2. g_server = s
    BY <1>1 DEF OneThread
  <2> QED BY <1>4, <1>6, <2>1, <2>2
<1>8. InLine'
  <2> SUFFICES ASSUME "one" \in rules PROVE InLine'
    BY <1>1 DEF InLine
  <2> DEFINE served == Range(handled) \cup Range(pending)
  <2>1. /\ Ordered(connected, handled) /\ Ordered(connected, pending)
        /\ Ahead(connected, Range(handled), Range(pending))
        /\ served \subseteq Range(connected)
    BY DEF InLine
  <2>2. \A t \in Servers : /\ Ordered(connected, backlog[t])
                           /\ Ahead(connected, served, Read(t) \cup Range(backlog[t]))
                           /\ Ahead(connected, Read(t), Range(backlog[t]))
                           /\ Read(t) \cup Range(backlog[t]) \subseteq Range(connected)
    BY DEF InLine
  <2> HIDE DEF served
  <2>3. Read(s)' = {c} /\ \A t \in Servers : t # s => Read(t)' = Read(t)
    BY <1>3, <1>4 DEF Read
  <2>4. /\ Ordered(connected, backlog'[s]) /\ Ahead(connected, {c}, Range(backlog'[s]))
        /\ Range(backlog'[s]) \subseteq Range(backlog[s]) /\ c \in Range(backlog[s])
    BY <1>1, <1>2, <1>3, <1>4, <1>6, <2>2, OrderedTail DEF c
  <2>5. ASSUME NEW t \in Servers
        PROVE  /\ Ordered(connected, backlog'[t])
               /\ Ahead(connected, served, Read(t)' \cup Range(backlog'[t]))
               /\ Ahead(connected, Read(t)', Range(backlog'[t]))
               /\ Read(t)' \cup Range(backlog'[t]) \subseteq Range(connected)
    <3>1. CASE t = s
      BY <2>2, <2>3, <2>4, <3>1 DEF Ahead
    <3>2. CASE t # s
      BY <1>4, <1>6, <2>2, <2>3, <3>2
    <3> QED BY <3>1, <3>2
  <2> QED BY <1>1, <2>1, <2>5 DEF InLine, served
<1> QED BY <1>5, <1>7, <1>8

(* pq_push: whom the thread read from comes behind those queued and before those
   waiting. *)
LEMMA ReadRequestStep == ASSUME LineInv, NEW s \in Servers, ReadRequest(s) PROVE LineInv'
<1> USE DEF LineInv, LineIInv
<1> DEFINE c == reading[s]
<1>1. /\ thread[s] = "read" /\ c \in requested /\ pending' = Append(pending, c)
      /\ reading' = [reading EXCEPT ![s] = NoConn]
      /\ thread' = [thread EXCEPT ![s] = "top"]
      /\ UNCHANGED <<rules, g_server, connected, handled, backlog, requested, on>>
  BY DEF ReadRequest, Enqueue, mainVars
<1>2. c \in Clients /\ c # NoConn /\ pending \in Seq(Clients)
  BY <1>1, HttpServerAssumption DEF LineTypes
<1>3. Read(s) = {c}
  BY <1>2 DEF Read
<1> HIDE DEF c
<1>4. /\ thread'[s] = "top" /\ reading'[s] = NoConn
      /\ \A t \in Servers : t # s => thread'[t] = thread[t] /\ reading'[t] = reading[t]
      /\ thread' \in [Servers -> {"none", "top", "accept", "read"}]
      /\ reading' \in [Servers -> Clients \cup {NoConn}]
  BY <1>1 DEF LineTypes
<1>5. pending' \in Seq(Clients) /\ Range(pending') = Range(pending) \cup {c}
  BY <1>1, <1>2, AppendFacts
<1>6. LineTypes'
  BY <1>1, <1>4, <1>5 DEF LineTypes
<1>7. OneThread'
  <2> SUFFICES ASSUME "one" \in rules, NEW t \in Servers
               PROVE  /\ thread'[t] # "none" => t = TheServer /\ g_server = t
                      /\ thread'[t] = "none" => backlog[t] = <<>>
                      /\ thread'[t] = "accept" => on[t] = t
                      /\ reading'[t] # NoConn => thread'[t] = "read"
    BY <1>1 DEF OneThread, TheServer
  <2>1. /\ thread[t] # "none" => t = TheServer /\ g_server = t
        /\ thread[t] = "none" => backlog[t] = <<>>
        /\ thread[t] = "accept" => on[t] = t
        /\ reading[t] # NoConn => thread[t] = "read"
    BY DEF OneThread, TheServer
  <2> QED BY <1>1, <1>4, <2>1
<1>8. InLine'
  <2> SUFFICES ASSUME "one" \in rules PROVE InLine'
    BY <1>1 DEF InLine
  <2> DEFINE served == Range(handled) \cup Range(pending)
  <2>1. /\ Ordered(connected, handled) /\ Ordered(connected, pending)
        /\ Ahead(connected, Range(handled), Range(pending))
        /\ served \subseteq Range(connected)
    BY DEF InLine
  <2>2. \A t \in Servers : /\ Ordered(connected, backlog[t])
                           /\ Ahead(connected, served, Read(t) \cup Range(backlog[t]))
                           /\ Ahead(connected, Read(t), Range(backlog[t]))
                           /\ Read(t) \cup Range(backlog[t]) \subseteq Range(connected)
    BY DEF InLine
  <2>3. Read(s)' = {} /\ \A t \in Servers : t # s => Read(t)' = Read(t)
    BY <1>4 DEF Read
  <2>4. /\ Ahead(connected, Range(handled), {c}) /\ Ahead(connected, Range(pending), {c})
        /\ c \in Range(connected)
    BY <1>3, <2>2 DEF Ahead
  <2>5. Ordered(connected, pending')
    BY <1>1, <1>2, <2>1, <2>4, OrderedAppend
  <2>6. Ahead(connected, Range(handled), Range(pending'))
    BY <1>5, <2>1, <2>4 DEF Ahead
  <2> DEFINE later == Range(handled) \cup Range(pending')
  <2>7. later = served \cup {c}
    BY <1>5
  <2> HIDE DEF served, later
  <2>8. ASSUME NEW t \in Servers
        PROVE  /\ Ordered(connected, backlog[t])
               /\ Ahead(connected, later, Read(t)' \cup Range(backlog[t]))
               /\ Ahead(connected, Read(t)', Range(backlog[t]))
               /\ Read(t)' \cup Range(backlog[t]) \subseteq Range(connected)
    <3>1. CASE t = s
      <4>1. Ahead(connected, {c}, Range(backlog[s]))
        BY <1>3, <2>2
      <4> QED BY <2>2, <2>3, <2>7, <3>1, <4>1 DEF Ahead
    <3>2. CASE t # s
      <4>1. thread[t] = "none" /\ reading[t] = NoConn /\ backlog[t] = <<>>
        BY <1>1, <3>2 DEF OneThread, LineTypes
      <4>2. Read(t)' = {} /\ Range(backlog[t]) = {}
        BY <2>3, <3>2, <4>1 DEF Read, Range
      <4> QED BY <2>2, <4>2 DEF Ahead
    <3> QED BY <3>1, <3>2
  <2>9. later \subseteq Range(connected)
    BY <2>1, <2>4, <2>7
  <2> QED BY <1>1, <2>1, <2>5, <2>6, <2>8, <2>9 DEF InLine, later
<1> QED BY <1>6, <1>7, <1>8

(* The client left before it sent anything. *)
LEMMA ReadNothingStep == ASSUME LineInv, NEW s \in Servers, ReadNothing(s) PROVE LineInv'
<1> USE DEF LineInv, LineIInv
<1>1. /\ thread[s] = "read"
      /\ reading' = [reading EXCEPT ![s] = NoConn]
      /\ thread' = [thread EXCEPT ![s] = "top"]
      /\ UNCHANGED <<rules, g_server, connected, handled, pending, backlog, requested, on>>
  BY DEF ReadNothing, mainVars
<1>2. /\ thread'[s] = "top" /\ reading'[s] = NoConn
      /\ \A t \in Servers : t # s => thread'[t] = thread[t] /\ reading'[t] = reading[t]
      /\ thread' \in [Servers -> {"none", "top", "accept", "read"}]
      /\ reading' \in [Servers -> Clients \cup {NoConn}]
  BY <1>1 DEF LineTypes
<1>3. LineTypes'
  BY <1>1, <1>2 DEF LineTypes
<1>4. OneThread'
  <2> SUFFICES ASSUME "one" \in rules, NEW t \in Servers
               PROVE  /\ thread'[t] # "none" => t = TheServer /\ g_server = t
                      /\ thread'[t] = "none" => backlog[t] = <<>>
                      /\ thread'[t] = "accept" => on[t] = t
                      /\ reading'[t] # NoConn => thread'[t] = "read"
    BY <1>1 DEF OneThread, TheServer
  <2>1. /\ thread[t] # "none" => t = TheServer /\ g_server = t
        /\ thread[t] = "none" => backlog[t] = <<>>
        /\ thread[t] = "accept" => on[t] = t
        /\ reading[t] # NoConn => thread[t] = "read"
    BY DEF OneThread, TheServer
  <2> QED BY <1>1, <1>2, <2>1
<1>5. InLine'
  <2>1. \A t \in Servers : Read(t)' \subseteq Read(t)
    BY <1>2 DEF Read
  <2> SUFFICES ASSUME "one" \in rules PROVE InLine'
    BY <1>1 DEF InLine
  <2> DEFINE served == Range(handled) \cup Range(pending)
  <2>2. /\ Ordered(connected, handled) /\ Ordered(connected, pending)
        /\ Ahead(connected, Range(handled), Range(pending))
        /\ served \subseteq Range(connected)
    BY DEF InLine
  <2>3. \A t \in Servers : /\ Ordered(connected, backlog[t])
                           /\ Ahead(connected, served, Read(t) \cup Range(backlog[t]))
                           /\ Ahead(connected, Read(t), Range(backlog[t]))
                           /\ Read(t) \cup Range(backlog[t]) \subseteq Range(connected)
    BY DEF InLine
  <2> HIDE DEF served
  <2>4. \A t \in Servers : /\ Ordered(connected, backlog[t])
                           /\ Ahead(connected, served, Read(t)' \cup Range(backlog[t]))
                           /\ Ahead(connected, Read(t)', Range(backlog[t]))
                           /\ Read(t)' \cup Range(backlog[t]) \subseteq Range(connected)
    BY <2>1, <2>3 DEF Ahead
  <2> QED BY <1>1, <2>2, <2>4 DEF InLine, served
<1> QED BY <1>3, <1>4, <1>5

(* pq_pop: the first of the queue is handled. *)
LEMMA HandleStep == ASSUME LineInv, Handle PROVE LineInv'
<1> USE DEF LineInv, LineIInv
<1> DEFINE c == Head(pending)
<1>1. /\ pending # <<>> /\ pending' = Tail(pending) /\ handled' = Append(handled, c)
      /\ UNCHANGED <<rules, g_server, connected, backlog, requested, thread, on, reading>>
  BY DEF Handle
<1>2. pending \in Seq(Clients) /\ handled \in Seq(Clients)
  BY DEF LineTypes
<1>3. /\ c \in Clients /\ c \in Range(pending) /\ pending' \in Seq(Clients)
      /\ Range(pending') \subseteq Range(pending)
  BY <1>1, <1>2, TailFacts
<1>4. handled' \in Seq(Clients) /\ Range(handled') = Range(handled) \cup {c}
  BY <1>1, <1>2, <1>3, AppendFacts
<1>5. LineTypes'
  BY <1>1, <1>3, <1>4 DEF LineTypes
<1>6. OneThread'
  BY <1>1 DEF OneThread
<1>7. InLine'
  <2> SUFFICES ASSUME "one" \in rules PROVE InLine'
    BY <1>1 DEF InLine
  <2>1. /\ Ordered(connected, handled) /\ Ordered(connected, pending)
        /\ Ahead(connected, Range(handled), Range(pending))
    BY DEF InLine
  <2>2. Ordered(connected, pending') /\ Ahead(connected, {c}, Range(pending'))
    BY <1>1, <1>2, <2>1, OrderedTail
  <2> HIDE DEF c
  <2>3. Ordered(connected, handled')
    <3>1. Ahead(connected, Range(handled), {c})
      BY <1>3, <2>1 DEF Ahead
    <3> QED BY <1>1, <1>2, <1>3, <2>1, <3>1, OrderedAppend
  <2>4. Ahead(connected, Range(handled'), Range(pending'))
    BY <1>3, <1>4, <2>1, <2>2 DEF Ahead
  <2>5. Range(handled') \cup Range(pending') \subseteq Range(handled) \cup Range(pending)
    BY <1>3, <1>4
  <2>6. \A t \in Servers :
          /\ Ordered(connected, backlog[t])
          /\ Ahead(connected, Range(handled) \cup Range(pending), Read(t) \cup Range(backlog[t]))
          /\ Ahead(connected, Read(t), Range(backlog[t]))
          /\ Read(t) \cup Range(backlog[t]) \subseteq Range(connected)
    BY DEF InLine
  <2>7. \A t \in Servers :
          Ahead(connected, Range(handled') \cup Range(pending'), Read(t) \cup Range(backlog[t]))
    BY <2>5, <2>6 DEF Ahead
  <2>8. Range(handled') \cup Range(pending') \subseteq Range(connected)
    BY <2>5 DEF InLine
  <2>9. \A t \in Servers : Read(t)' = Read(t)
    BY <1>1 DEF Read
  <2> QED BY <1>1, <2>2, <2>3, <2>4, <2>6, <2>7, <2>8, <2>9 DEF InLine
<1> QED BY <1>5, <1>6, <1>7

(* A client sends its request. *)
LEMMA SendRequestStep == ASSUME LineInv, NEW c \in Clients, SendRequest(c) PROVE LineInv'
<1> USE DEF LineInv, LineIInv
<1>1. /\ requested' = requested \cup {c}
      /\ UNCHANGED <<rules, g_server, connected, handled, pending, backlog, thread, on, reading>>
  BY DEF SendRequest, mainVars
<1>2. LineTypes'
  BY <1>1 DEF LineTypes
<1>3. OneThread'
  BY <1>1 DEF OneThread
<1>4. InLine'
  BY <1>1 DEF InLine, Read
<1> QED BY <1>2, <1>3, <1>4

-----------------------------------------------------------------------------
(* The theorem *)

(* and so does every step. *)
LEMMA LineStep == LineInv /\ [Next]_vars => LineInv'
<1> SUFFICES ASSUME LineInv, [Next]_vars PROVE LineInv'
  OBVIOUS
<1> DEFINE Still == UNCHANGED lineVars
<1>1. CASE UNCHANGED vars
  <2>1. Still
    BY <1>1 DEF vars, lineVars, acceptVars, mainVars
  <2> QED BY <2>1, QuietLine
<1>2. ASSUME NEW c \in Clients, ClientStep(c) PROVE LineInv'
  <2>1. ASSUME NEW A, OfSocket(A) PROVE Still
    BY <2>1 DEF OfSocket, lineVars, acceptVars, mainVars
  <2>2. CASE Still
    BY <2>2, QuietLine
  <2> QED BY <1>2, <2>1, <2>2, ConnectStep, SendRequestStep DEF ClientStep
<1>3. ASSUME NEW s \in Servers, ThreadStep(s) PROVE LineInv'
  BY <1>3, ChooseStep, AcceptStep, ReadRequestStep, ReadNothingStep DEF ThreadStep
<1>4. CASE Code
  <2>1. ASSUME NEW s \in Servers, Listen(s) PROVE LineInv'
    BY <2>1, ListenStep
  <2>2. CASE SetTimers
    <3>1. Still
      BY <2>2 DEF SetTimers, lineVars, acceptVars, mainVars
    <3> QED BY <3>1, QuietLine
  <2>3. ASSUME NEW w \in Sockets, Close(w) PROVE LineInv'
    <3>1. Still
      BY <2>3 DEF Close, OfSocket, lineVars, acceptVars, mainVars
    <3> QED BY <3>1, QuietLine
  <2>4. CASE HandlerThrows
    <3>1. Still
      BY <2>4 DEF HandlerThrows, lineVars, acceptVars
    <3> QED BY <3>1, QuietLine
  <2> QED BY <1>4, <2>1, <2>2, <2>3, <2>4 DEF Code
<1>5. CASE MainStep
  <2> USE DEF lineVars, acceptVars
  <2>1. CASE Handle
    BY <2>1, HandleStep
  <2>2. CASE EndEntry \/ EndCallback \/ Stream \/ UpgradeUnkeyed
    <3>1. Still
      BY <2>2 DEF EndEntry, EndCallback, Stream, UpgradeUnkeyed
    <3> QED BY <3>1, QuietLine
  <2>3. CASE Respond \/ EndStream \/ Refuse
    <3>1. Still
      BY <2>3 DEF Respond, EndStream, Refuse, Finish
    <3> QED BY <3>1, QuietLine
  <2>4. ASSUME NEW w \in Sockets, Upgrade(w) \/ Visit(w) PROVE LineInv'
    <3>1. Still
      BY <2>4 DEF Upgrade, Visit
    <3> QED BY <3>1, QuietLine
  <2>5. CASE Drained \/ FireWhileHandling \/ PollEnds
    <3>1. Still
      BY <2>5 DEF Drained, FireWhileHandling, PollEnds
    <3> QED BY <3>1, QuietLine
  <2> QED BY <1>5, <2>1, <2>2, <2>3, <2>4, <2>5 DEF MainStep
<1> QED BY <1>1, <1>2, <1>3, <1>4, <1>5 DEF Next

(* With one server, requests are handled in the order in which the clients
   connected, for any number of clients. *)
THEOREM RequestsInOrder == Spec => []HandledInOrder
<1>1. LineInv => HandledInOrder
  BY DEF LineInv, LineIInv, InLine, HandledInOrder, Ordered, Before
<1> QED BY <1>1, InitLine, LineStep, PTL DEF Spec

-----------------------------------------------------------------------------
(* The events of one connection *)

Entries == {"open", "message", "close"} \X Nat
Frame == [frame : Nat, part : Parts]

\* EventsOfConnection for a connection that is at wh and had the events l
Story(wh, l) ==
  \A i \in 1..Len(l) : /\ l[i][1] = "open" <=> i = 1
                       /\ l[i][1] = "close" <=> i = Len(l) /\ wh = "closed"
\* WholeFrames for it, with the frames q to read and n sent
Count(wh, l) == IF l = <<>> THEN 0 ELSE Len(l) - (IF wh = "closed" THEN 2 ELSE 1)
Frames(wh, l, q, n) ==
  /\ \A i \in 1..Len(l) : l[i][1] = "message" => l[i][2] = i - 1
  /\ \A i \in 1..Len(q) : q[i] = [frame |-> Count(wh, l) + i, part |-> "whole"]
  /\ n = Count(wh, l) + Len(q)

(* A list with one entry more. *)
LEMMA OneMore ==
  ASSUME NEW S, NEW l \in Seq(S), NEW e \in S
  PROVE  /\ Append(l, e) \in Seq(S) /\ Append(l, e) # <<>> /\ Len(Append(l, e)) = Len(l) + 1
         /\ Len(l) \in Nat /\ Append(l, e)[Len(l) + 1] = e
         /\ \A i \in 1..Len(l) : Append(l, e)[i] = l[i]
         /\ \A i \in 1..Len(l) + 1 : i \in 1..Len(l) \/ i = Len(l) + 1
  OBVIOUS

(* A first event, if it is onopen; *)
LEMMA StoryOpens ==
  ASSUME NEW q \in Seq(Frame), NEW n \in Nat, NEW wh, wh # "closed"
  PROVE  /\ Append(<<>>, <<"open", 0>>) \in Seq(Entries) /\ Append(<<>>, <<"open", 0>>) # <<>>
         /\ Story("ws", Append(<<>>, <<"open", 0>>))
         /\ Frames(wh, <<>>, q, n) => Frames("ws", Append(<<>>, <<"open", 0>>), q, n)
<1> DEFINE e == <<"open", 0>>
           l == Append(<<>>, e)
<1>1. e \in Entries /\ e[1] = "open"
  BY DEF Entries
<1>2. <<>> \in Seq(Entries) /\ Len(<<>>) = 0
  OBVIOUS
<1> HIDE DEF e
<1>3. l \in Seq(Entries) /\ l # <<>> /\ Len(l) = 1 /\ l[1] = e /\ \A i \in 1..1 : i = 1
  BY <1>1, <1>2, OneMore
<1> HIDE DEF l
<1>4. Story("ws", l)
  BY <1>1, <1>3 DEF Story
<1>5. Count("ws", l) = 0 /\ Count(wh, <<>>) = 0
  BY <1>3 DEF Count
<1>6. Frames(wh, <<>>, q, n) => Frames("ws", l, q, n)
  BY <1>1, <1>3, <1>5 DEF Frames
<1> QED BY <1>3, <1>4, <1>6 DEF l, e

(* one that follows, if it is onmessage with the frame that is read; *)
LEMMA StoryGoesOn ==
  ASSUME NEW l \in Seq(Entries), l # <<>>, NEW n \in Nat, Story("ws", l)
  PROVE  /\ Append(l, <<"message", n>>) \in Seq(Entries) /\ Append(l, <<"message", n>>) # <<>>
         /\ Story("ws", Append(l, <<"message", n>>))
<1> DEFINE e == <<"message", n>>
           w == Append(l, e)
<1>1. e \in Entries /\ e[1] = "message"
  BY DEF Entries
<1> HIDE DEF e
<1>2. /\ w \in Seq(Entries) /\ w # <<>> /\ Len(w) = Len(l) + 1 /\ Len(l) \in Nat /\ w[Len(l) + 1] = e
      /\ \A i \in 1..Len(l) : w[i] = l[i]
      /\ \A i \in 1..Len(l) + 1 : i \in 1..Len(l) \/ i = Len(l) + 1
  BY <1>1, OneMore
<1>3. Len(l) >= 1
  OBVIOUS
<1> HIDE DEF w
<1>4. ASSUME NEW i \in 1..Len(w)
      PROVE  (w[i][1] = "open" <=> i = 1) /\ w[i][1] # "close"
  <2>1. CASE i = Len(l) + 1
    BY <1>1, <1>2, <1>3, <2>1
  <2>2. CASE i \in 1..Len(l)
    BY <1>2, <2>2 DEF Story
  <2> QED BY <1>2, <2>1, <2>2
<1>5. Story("ws", w)
  BY <1>4 DEF Story
<1> QED BY <1>2, <1>5 DEF w, e

(* The frame read next is the next one the client sent, and heard as such. *)
LEMMA FrameRead ==
  ASSUME NEW l \in Seq(Entries), l # <<>>, NEW q \in Seq(Frame), q # <<>>, NEW n \in Nat,
         Frames("ws", l, q, n)
  PROVE  /\ Head(q).part = "whole"
         /\ Frames("ws", Append(l, <<"message", Head(q).frame>>), Tail(q), n)
<1> DEFINE f == Head(q)
           e == <<"message", f.frame>>
           w == Append(l, e)
           t == Tail(q)
           k == Len(l)
           m == Len(t)
<1>1. /\ f \in Frame /\ f = q[1] /\ t \in Seq(Frame) /\ m \in Nat /\ Len(q) = m + 1
      /\ \A i \in 1..m : t[i] = q[i + 1]
  OBVIOUS
<1>2. k \in Nat /\ k >= 1 /\ Count("ws", l) = k - 1
  BY DEF Count
<1>3. f = [frame |-> k, part |-> "whole"]
  <2> HIDE DEF f, t, k, m
  <2>1. 1 \in 1..Len(q)
    BY <1>1
  <2>2. q[1] = [frame |-> k - 1 + 1, part |-> "whole"]
    BY <1>2, <2>1 DEF Frames
  <2> QED BY <1>1, <1>2, <2>2
<1>4. f.frame = k /\ f.part = "whole"
  <2> HIDE DEF f, k
  <2> QED BY <1>3
<1>5. e \in Entries /\ e[1] = "message" /\ e[2] = k
  <2> HIDE DEF f, k
  <2> QED BY <1>2, <1>4 DEF Entries
<1> HIDE DEF e
<1>6. /\ w \in Seq(Entries) /\ w # <<>> /\ Len(w) = k + 1 /\ w[k + 1] = e
      /\ \A i \in 1..k : w[i] = l[i]
      /\ \A i \in 1..k + 1 : i \in 1..k \/ i = k + 1
  BY <1>5, OneMore
<1> HIDE DEF w, f, t, m
<1>7. Count("ws", w) = k
  BY <1>2, <1>6 DEF Count
<1>8. \A i \in 1..Len(w) : w[i][1] = "message" => w[i][2] = i - 1
  <2>1. \A i \in 1..k : l[i][1] = "message" => l[i][2] = i - 1
    BY DEF Frames
  <2> HIDE DEF k
  <2> QED BY <1>2, <1>5, <1>6, <2>1
<1>9. \A i \in 1..m : t[i] = [frame |-> k + i, part |-> "whole"]
  <2>1. \A i \in 1..Len(q) : q[i] = [frame |-> k - 1 + i, part |-> "whole"]
    BY <1>2 DEF Frames
  <2> HIDE DEF k
  <2>2. ASSUME NEW i \in 1..m PROVE t[i] = [frame |-> k + i, part |-> "whole"]
    <3>1. i + 1 \in 1..Len(q) /\ k - 1 + (i + 1) = k + i
      BY <1>1, <1>2
    <3> QED BY <1>1, <2>1, <3>1
  <2> QED BY <2>2
<1>10. n = k + m
  <2>1. n = k - 1 + Len(q)
    BY <1>2 DEF Frames
  <2> HIDE DEF k
  <2> QED BY <1>1, <1>2, <2>1
<1> HIDE DEF k
<1>11. Frames("ws", w, t, n)
  BY <1>7, <1>8, <1>9, <1>10 DEF Frames, m
<1> QED BY <1>4, <1>11 DEF w, e, f, t

(* and a last one, if it is onclose. *)
LEMMA StoryEnds ==
  ASSUME NEW l \in Seq(Entries), l # <<>>, NEW q \in Seq(Frame), NEW n \in Nat, Story("ws", l)
  PROVE  /\ Append(l, <<"close", 0>>) \in Seq(Entries) /\ Append(l, <<"close", 0>>) # <<>>
         /\ Story("closed", Append(l, <<"close", 0>>))
         /\ Frames("ws", l, q, n) => Frames("closed", Append(l, <<"close", 0>>), q, n)
<1> DEFINE e == <<"close", 0>>
           w == Append(l, e)
           k == Len(l)
<1>1. e \in Entries /\ e[1] = "close"
  BY DEF Entries
<1> HIDE DEF e
<1>2. /\ w \in Seq(Entries) /\ w # <<>> /\ Len(w) = k + 1 /\ k \in Nat /\ w[k + 1] = e
      /\ \A i \in 1..k : w[i] = l[i]
      /\ \A i \in 1..k + 1 : i \in 1..k \/ i = k + 1
  BY <1>1, OneMore
<1>3. k >= 1
  OBVIOUS
<1> HIDE DEF w
<1>4. Story("closed", w)
  <2>1. ASSUME NEW i \in 1..Len(w)
        PROVE  (w[i][1] = "open" <=> i = 1) /\ (w[i][1] = "close" <=> i = Len(w))
    <3>1. CASE i = k + 1
      BY <1>1, <1>2, <1>3, <3>1
    <3>2. CASE i \in 1..k
      <4>1. i # Len(w)
        BY <1>2, <3>2
      <4>2. (l[i][1] = "open" <=> i = 1) /\ l[i][1] # "close"
        BY <3>2 DEF Story
      <4> QED BY <1>2, <3>2, <4>1, <4>2
    <3> QED BY <1>2, <3>1, <3>2
  <2> QED BY <2>1 DEF Story
<1>5. Count("closed", w) = k - 1 /\ Count("ws", l) = k - 1
  BY <1>2, <1>3 DEF Count
<1>6. ASSUME Frames("ws", l, q, n) PROVE Frames("closed", w, q, n)
  <2>1. \A i \in 1..k : l[i][1] = "message" => l[i][2] = i - 1
    BY <1>6 DEF Frames
  <2> HIDE DEF k
  <2>2. \A i \in 1..Len(w) : w[i][1] = "message" => w[i][2] = i - 1
    BY <1>1, <1>2, <2>1
  <2> QED BY <1>5, <1>6, <2>2 DEF Frames
<1> QED BY <1>2, <1>4, <1>6 DEF w, e

(* A frame arrives. *)
LEMMA FrameArrives ==
  ASSUME NEW wh, NEW l \in Seq(Entries), NEW q \in Seq(Frame), NEW n \in Nat,
         Frames(wh, l, q, n)
  PROVE  Frames(wh, l, Append(q, [frame |-> n + 1, part |-> "whole"]), n + 1)
<1> DEFINE f == [frame |-> n + 1, part |-> "whole"]
           w == Append(q, f)
           k == Count(wh, l)
           m == Len(q)
<1>1. f \in Frame
  BY DEF Frame, Parts
<1> HIDE DEF f
<1>2. /\ w \in Seq(Frame) /\ Len(w) = m + 1 /\ m \in Nat /\ w[m + 1] = f
      /\ \A i \in 1..m : w[i] = q[i]
      /\ \A i \in 1..m + 1 : i \in 1..m \/ i = m + 1
  BY <1>1, OneMore
<1>3. k \in Int
  BY DEF Count
<1>4. /\ \A i \in 1..m : q[i] = [frame |-> k + i, part |-> "whole"]
      /\ n = k + m
  BY DEF Frames
<1>5. \A i \in 1..Len(l) : l[i][1] = "message" => l[i][2] = i - 1
  BY DEF Frames
<1> HIDE DEF w, k, m
<1>6. f = [frame |-> k + (m + 1), part |-> "whole"]
  BY <1>2, <1>3, <1>4 DEF f
<1>7. n + 1 = k + Len(w)
  BY <1>2, <1>3, <1>4
<1>8. \A i \in 1..Len(w) : w[i] = [frame |-> k + i, part |-> "whole"]
  BY <1>2, <1>4, <1>6
<1>9. Frames(wh, l, w, n + 1)
  BY <1>5, <1>7, <1>8 DEF Frames, k
<1> QED BY <1>9 DEF w, f

-----------------------------------------------------------------------------
(* What a step does to the connections *)

Early == {"new", "backlog", "reading", "pending", "current", "lost"}

Moves(c, place) ==
  where' = [where EXCEPT ![c] = place] /\ UNCHANGED <<closes, fd, inbox, sent, halves, gone, log>>
Ends(c) == CloseConnection(c) /\ UNCHANGED <<fd, inbox, sent, halves, gone, log>>
Drops(w) == Drop(w) /\ UNCHANGED <<sent, halves, gone>>

SocketKind ==
  \/ UNCHANGED socketVars
  \/ \E c \in Clients, place \in Early : where[c] \in Early /\ Moves(c, place)
  \/ \E c \in Clients : where[c] \in Early /\ Ends(c)
  \/ \E c \in Clients, w \in Sockets : where[c] = "current" /\ Bind(w, c)
  \/ \E c \in Clients, part \in Parts : SendFrame(c, part)
  \/ \E c \in Clients : SendRest(c) \/ Leave(c)
  \/ \E w \in Sockets : CloseSocket(w) \/ (AtEnd(w) /\ ReadEnd(w)) \/ (Readable(w) /\ ReadFrame(w))

\* who names a connection has it
Named ==
  /\ \A s \in Servers : Range(backlog[s]) \subseteq At("backlog")
  /\ \A s \in Servers : reading[s] # NoConn => where[reading[s]] = "reading"
  /\ Range(pending) \subseteq At("pending")
  /\ cur # NoConn => where[cur] = "current"
  /\ \A w \in Sockets : fd[w] # NoConn => fd[w] \in Clients /\ where[fd[w]] = "ws"

(* A connection in a list, with a thread or an object is where where[c] says. *)
LEMMA NamesNamed == ASSUME TypeOK, Names PROVE Named
<1>1. \A s \in Servers : Range(backlog[s]) \subseteq At("backlog")
  BY DEF Names, BacklogNames
<1>2. ASSUME NEW s \in Servers, reading[s] # NoConn PROVE where[reading[s]] = "reading"
  <2>1. reading[s] \in Range(reading)
    BY DEF TypeOK, Range
  <2> QED BY <1>2, <2>1 DEF Names, ThreadNames, At
<1>3. cur # NoConn => where[cur] = "current"
  BY DEF Names, MainNames, At
<1>4. ASSUME NEW w \in Sockets, fd[w] # NoConn PROVE fd[w] \in Clients /\ where[fd[w]] = "ws"
  <2>1. fd[w] \in Range(fd)
    BY DEF TypeOK, SocketTypeOK, Range
  <2> QED BY <1>4, <2>1 DEF Names, SocketNames, At
<1> QED BY <1>1, <1>2, <1>3, <1>4 DEF Named, Names, QueueNames

(* The main thread closes the connection of the request it handled. *)
LEMMA FinishKind == ASSUME TypeOK, Named, Busy, Handling, Finish
                    PROVE  cur \in Clients /\ where[cur] = "current" /\ Ends(cur)
<1>1. cur # NoConn
  BY DEF Busy
<1> QED BY <1>1 DEF Named, TypeOK, Finish, Ends, acceptVars, timerVars

(* A throw out of a handler leaves the connection of the request to nobody. *)
LEMMA ThrowKind == ASSUME TypeOK, Named, Busy, HandlerThrows
                   PROVE  cur \in Clients /\ where[cur] = "current" /\ Moves(cur, "lost")
<1>1. cur # NoConn
  BY DEF Busy, Handling, HandlerThrows, InHandler
<1> QED BY <1>1 DEF Named, TypeOK, HandlerThrows, Moves

(* What a step of the server does to the story of the connections. *)
LEMMA KindOfStep ==
  ASSUME TypeOK, LineTypes, Named, Busy, Next
  PROVE  SocketKind /\ UNCHANGED <<rules, keyed>>
<1>1. ASSUME NEW c \in Clients, ClientStep(c) PROVE SocketKind /\ UNCHANGED <<rules, keyed>>
  <2>1. ASSUME NEW s \in Servers, Connect(c, s) PROVE SocketKind /\ UNCHANGED <<rules, keyed>>
    <3>1. where[c] \in Early /\ Moves(c, "backlog") /\ "backlog" \in Early
      BY <2>1 DEF Connect, Moves, Early
    <3> QED BY <2>1, <3>1 DEF SocketKind, Connect
  <2>2. CASE SendRequest(c)
    BY <2>2 DEF SendRequest, SocketKind
  <2>3. CASE OfSocket(\E part \in Parts : SendFrame(c, part))
    BY <2>3 DEF OfSocket, SocketKind
  <2>4. CASE OfSocket(SendRest(c)) \/ OfSocket(Leave(c))
    BY <2>4 DEF OfSocket, SocketKind
  <2> QED BY <1>1, <2>1, <2>2, <2>3, <2>4 DEF ClientStep
<1>2. ASSUME NEW s \in Servers, ThreadStep(s) PROVE SocketKind /\ UNCHANGED <<rules, keyed>>
  <2>1. CASE Choose(s)
    BY <2>1 DEF Choose, SocketKind
  <2>2. CASE Accept(s)
    <3> DEFINE c == Head(backlog[on[s]])
    <3>1. on[s] \in Servers /\ backlog[on[s]] \in Seq(Clients) /\ backlog[on[s]] # <<>>
      BY <2>2 DEF Accept, LineTypes
    <3>2. c \in Clients /\ c \in Range(backlog[on[s]])
      BY <3>1, TailFacts
    <3>3. where[c] \in Early /\ "reading" \in Early
      BY <3>1, <3>2 DEF Named, At, Early
    <3>4. Moves(c, "reading")
      BY <2>2 DEF Accept, Moves
    <3> HIDE DEF c
    <3> QED BY <2>2, <3>2, <3>3, <3>4 DEF SocketKind, Accept
  <2>3. CASE ReadRequest(s)
    <3>1. reading[s] \in Clients /\ where[reading[s]] \in Early /\ "pending" \in Early
      BY <2>3, HttpServerAssumption DEF ReadRequest, LineTypes, Named, Early
    <3>2. Moves(reading[s], "pending")
      BY <2>3 DEF ReadRequest, Moves
    <3> QED BY <2>3, <3>1, <3>2 DEF SocketKind, ReadRequest
  <2>4. CASE ReadNothing(s)
    <3>1. reading[s] \in Clients /\ where[reading[s]] \in Early
      BY <2>4, HttpServerAssumption DEF ReadNothing, TypeOK, SocketTypeOK, Named, Early
    <3>2. Ends(reading[s])
      BY <2>4 DEF ReadNothing, Ends
    <3> QED BY <2>4, <3>1, <3>2 DEF SocketKind, ReadNothing
  <2> QED BY <1>2, <2>1, <2>2, <2>3, <2>4 DEF ThreadStep
<1>3. CASE Code
  <2>1. ASSUME NEW s \in Servers, Listen(s) PROVE SocketKind /\ UNCHANGED <<rules, keyed>>
    BY <2>1 DEF Listen, SocketKind
  <2>2. CASE SetTimers
    BY <2>2 DEF SetTimers, SocketKind
  <2>3. ASSUME NEW w \in Sockets, Close(w) PROVE SocketKind /\ UNCHANGED <<rules, keyed>>
    BY <2>3 DEF Close, OfSocket, SocketKind
  <2>4. CASE HandlerThrows
    <3>1. cur \in Clients /\ where[cur] \in Early /\ "lost" \in Early /\ Moves(cur, "lost")
      BY <2>4, ThrowKind DEF Early
    <3> QED BY <2>4, <3>1 DEF SocketKind, HandlerThrows
  <2> QED BY <1>3, <2>1, <2>2, <2>3, <2>4 DEF Code
<1>4. CASE MainStep
  <2>1. CASE Handle
    <3> DEFINE c == Head(pending)
    <3>1. c \in Clients /\ c \in Range(pending)
      BY <2>1, TailFacts DEF Handle, LineTypes
    <3>2. where[c] \in Early /\ "current" \in Early
      BY <3>1 DEF Named, At, Early
    <3>3. Moves(c, "current")
      BY <2>1 DEF Handle, Moves
    <3> HIDE DEF c
    <3> QED BY <2>1, <3>1, <3>2, <3>3 DEF SocketKind, Handle
  <2>2. CASE EndEntry \/ EndCallback \/ Stream \/ UpgradeUnkeyed
    BY <2>2 DEF EndEntry, EndCallback, Stream, UpgradeUnkeyed, SocketKind
  <2>3. CASE Respond \/ EndStream \/ Refuse
    <3>1. Handling /\ Finish
      BY <2>3 DEF Respond, EndStream, Refuse, Handling
    <3>2. cur \in Clients /\ where[cur] \in Early /\ Ends(cur)
      BY <3>1, FinishKind DEF Early
    <3> QED BY <3>1, <3>2 DEF SocketKind, Finish
  <2>4. ASSUME NEW w \in Sockets, Upgrade(w) PROVE SocketKind /\ UNCHANGED <<rules, keyed>>
    <3>1. cur \in Clients /\ where[cur] = "current"
      BY <2>4 DEF Upgrade, Named, Busy, Handling, TypeOK
    <3> QED BY <2>4, <3>1 DEF SocketKind, Upgrade
  <2>5. ASSUME NEW w \in Sockets, Visit(w) PROVE SocketKind /\ UNCHANGED <<rules, keyed>>
    BY <2>5 DEF SocketKind, Visit
  <2>6. CASE Drained \/ FireWhileHandling \/ PollEnds
    BY <2>6 DEF Drained, FireWhileHandling, PollEnds, SocketKind
  <2> QED BY <1>4, <2>1, <2>2, <2>3, <2>4, <2>5, <2>6 DEF MainStep
<1> QED BY <1>1, <1>2, <1>3, <1>4 DEF Next

Good(whole, wh, cl, l, q, n) ==
  /\ cl = IF wh = "closed" THEN 1 ELSE 0
  /\ wh \in Early => l = <<>>
  /\ wh = "ws" => l # <<>>
  /\ Story(wh, l)
  /\ whole => Frames(wh, l, q, n)
GoodAt(c) == Good("whole" \in rules, where[c], closes[c], log[c], inbox[c], sent[c])
Stories == (\A c \in Clients : GoodAt(c)) /\ ("whole" \in rules => halves = {})

(* The story of each connection, and the invariants it stands for. *)
LEMMA StoriesMean ==
  ASSUME SocketTypeOK PROVE Stories <=> Accounted /\ EventsOfConnection /\ WholeFrames
<1>1. \A c \in Clients : where[c] \in Early <=> where[c] \notin {"ws", "closed"}
  BY DEF SocketTypeOK, Early
<1>2. \A c \in Clients : Heard(c) = Count(where[c], log[c])
  BY DEF Heard, Count
<1>3. ASSUME Stories PROVE Accounted /\ EventsOfConnection /\ WholeFrames
  <2>1. Accounted
    BY <1>1, <1>3 DEF Stories, GoodAt, Good, Accounted
  <2>2. EventsOfConnection
    BY <1>3 DEF Stories, GoodAt, Good, EventsOfConnection, Story
  <2>3. WholeFrames
    BY <1>2, <1>3 DEF Stories, GoodAt, Good, WholeFrames, Frames
  <2> QED BY <2>1, <2>2, <2>3
<1>4. ASSUME Accounted, EventsOfConnection, WholeFrames PROVE Stories
  <2>1. ASSUME NEW c \in Clients PROVE Story(where[c], log[c])
    BY <1>4 DEF EventsOfConnection, Story
  <2>2. ASSUME NEW c \in Clients, "whole" \in rules
        PROVE  Frames(where[c], log[c], inbox[c], sent[c])
    BY <1>2, <1>4, <2>2 DEF WholeFrames, Frames
  <2>3. \A c \in Clients : /\ closes[c] = IF where[c] = "closed" THEN 1 ELSE 0
                           /\ where[c] \in Early => log[c] = <<>>
                           /\ where[c] = "ws" => log[c] # <<>>
    BY <1>1, <1>4 DEF Accounted
  <2>4. "whole" \in rules => halves = {}
    BY <1>4 DEF WholeFrames
  <2> QED BY <2>1, <2>2, <2>3, <2>4 DEF Stories, GoodAt, Good
<1> QED BY <1>3, <1>4

(* On its way to the main thread a connection has no events, whether it goes on or
   is closed; *)
LEMMA EarlyMoves ==
  ASSUME NEW whole \in BOOLEAN, NEW wh \in Early, NEW cl, NEW l, NEW q, NEW n, Good(whole, wh, cl, l, q, n)
  PROVE  /\ \A place \in Early : Good(whole, place, cl, l, q, n)
         /\ Good(whole, "closed", cl + 1, l, q, n)
<1>1. l = <<>> /\ cl = 0 /\ Len(l) = 0
  BY DEF Good, Early
<1>2. \A place : Story(place, l)
  BY <1>1 DEF Story
<1>3. \A place : Count(place, l) = Count(wh, l)
  BY <1>1 DEF Count
<1>4. \A place : Frames(wh, l, q, n) => Frames(place, l, q, n)
  BY <1>3 DEF Frames
<1> QED BY <1>1, <1>2, <1>4 DEF Good, Early

(* then onopen is called, *)
LEMMA GoodOpens ==
  ASSUME NEW whole \in BOOLEAN, NEW cl, NEW l, NEW q \in Seq(Frame), NEW n \in Nat,
         Good(whole, "current", cl, l, q, n)
  PROVE  Good(whole, "ws", cl, Append(l, <<"open", 0>>), q, n) /\ Append(l, <<"open", 0>>) \in Seq(Entries)
<1>1. l = <<>> /\ cl = 0
  BY DEF Good, Early
<1>2. whole => Frames("current", l, q, n)
  BY DEF Good
<1> DEFINE w == Append(l, <<"open", 0>>)
<1>3. /\ w \in Seq(Entries) /\ w # <<>> /\ Story("ws", w)
      /\ Frames("current", l, q, n) => Frames("ws", w, q, n)
  BY <1>1, StoryOpens
<1> HIDE DEF w
<1>4. Good(whole, "ws", cl, w, q, n)
  BY <1>1, <1>2, <1>3 DEF Good, Early
<1> QED BY <1>3, <1>4 DEF w

(* onmessage, with a frame that leaves the socket or, if it came in parts, junk, *)
LEMMA GoodHears ==
  ASSUME NEW whole \in BOOLEAN, NEW cl, NEW l \in Seq(Entries), NEW q \in Seq(Frame), q # <<>>,
         NEW n \in Nat, Good(whole, "ws", cl, l, q, n)
  PROVE  /\ whole => Head(q).part = "whole"
         /\ \A m \in Nat : (whole => m = Head(q).frame)
                           => /\ Good(whole, "ws", cl, Append(l, <<"message", m>>), Tail(q), n)
                              /\ Append(l, <<"message", m>>) \in Seq(Entries)
<1>1. l # <<>> /\ cl = 0 /\ Story("ws", l) /\ (whole => Frames("ws", l, q, n))
  BY DEF Good
<1>2. ASSUME whole
      PROVE  Head(q).part = "whole" /\ Frames("ws", Append(l, <<"message", Head(q).frame>>), Tail(q), n)
  BY <1>1, <1>2, FrameRead
<1>3. ASSUME NEW m \in Nat, whole => m = Head(q).frame
      PROVE  /\ Good(whole, "ws", cl, Append(l, <<"message", m>>), Tail(q), n)
             /\ Append(l, <<"message", m>>) \in Seq(Entries)
  <2> DEFINE w == Append(l, <<"message", m>>)
             t == Tail(q)
  <2>1. w \in Seq(Entries) /\ w # <<>> /\ Story("ws", w)
    BY <1>1, StoryGoesOn
  <2>2. whole => Frames("ws", w, t, n)
    BY <1>2, <1>3
  <2> HIDE DEF w, t
  <2>3. Good(whole, "ws", cl, w, t, n)
    BY <1>1, <2>1, <2>2 DEF Good, Early
  <2> QED BY <2>1, <2>3 DEF w, t
<1> QED BY <1>2, <1>3

(* and onclose. *)
LEMMA GoodEnds ==
  ASSUME NEW whole \in BOOLEAN, NEW cl, NEW l \in Seq(Entries), NEW q \in Seq(Frame), NEW n \in Nat,
         Good(whole, "ws", cl, l, q, n)
  PROVE  /\ Good(whole, "closed", cl + 1, Append(l, <<"close", 0>>), q, n)
         /\ Append(l, <<"close", 0>>) \in Seq(Entries)
<1>1. l # <<>> /\ cl = 0 /\ Story("ws", l) /\ (whole => Frames("ws", l, q, n))
  BY DEF Good
<1> DEFINE w == Append(l, <<"close", 0>>)
<1>2. /\ w \in Seq(Entries) /\ w # <<>> /\ Story("closed", w)
      /\ Frames("ws", l, q, n) => Frames("closed", w, q, n)
  BY <1>1, StoryEnds
<1> HIDE DEF w
<1>3. Good(whole, "closed", cl + 1, w, q, n)
  BY <1>1, <1>2 DEF Good, Early
<1> QED BY <1>2, <1>3 DEF w

(* A step tells the story of one connection, the others stay. *)
LEMMA OneChanges ==
  ASSUME Stories, NEW c \in Clients, UNCHANGED rules,
         \A d \in Clients : d # c => /\ where'[d] = where[d] /\ closes'[d] = closes[d]
                                     /\ log'[d] = log[d] /\ inbox'[d] = inbox[d] /\ sent'[d] = sent[d],
         GoodAt(c)', "whole" \in rules => halves' = {}
  PROVE  Stories'
<1>1. ASSUME NEW d \in Clients, d # c PROVE GoodAt(d)'
  BY <1>1 DEF Stories, GoodAt
<1> QED BY <1>1 DEF Stories

(* A connection moves on before it is a WebSocket. *)
LEMMA MovesStep ==
  ASSUME SocketTypeOK, Stories, UNCHANGED rules, NEW c \in Clients, where[c] \in Early,
         NEW place \in Early, Moves(c, place)
  PROVE  SocketTypeOK' /\ Stories'
<1>1. /\ where'[c] = place /\ \A d \in Clients : d # c => where'[d] = where[d]
      /\ UNCHANGED <<closes, fd, inbox, sent, halves, gone, log>>
  BY DEF SocketTypeOK, Moves
<1>2. SocketTypeOK'
  BY DEF SocketTypeOK, Moves, Early
<1>3. GoodAt(c)'
  <2> DEFINE whole == "whole" \in rules
  <2>1. whole \in BOOLEAN /\ Good(whole, where[c], closes[c], log[c], inbox[c], sent[c])
    BY DEF Stories, GoodAt
  <2> HIDE DEF whole
  <2>2. Good(whole, place, closes[c], log[c], inbox[c], sent[c])
    BY <2>1, EarlyMoves
  <2> QED BY <1>1, <2>2 DEF GoodAt, whole
<1>4. "whole" \in rules => halves' = {}
  BY <1>1 DEF Stories
<1> QED BY <1>1, <1>2, <1>3, <1>4, OneChanges

Place == Early \cup {"ws", "closed"}

(* The descriptor is closed once more, *)
LEMMA CloseFacts ==
  ASSUME SocketTypeOK, NEW c \in Clients, CloseConnection(c)
  PROVE  /\ where' \in [Clients -> Place] /\ closes' \in [Clients -> Nat]
         /\ where'[c] = "closed" /\ closes'[c] = closes[c] + 1
         /\ \A d \in Clients : d # c => where'[d] = where[d] /\ closes'[d] = closes[d]
<1>1. where \in [Clients -> Place] /\ closes \in [Clients -> Nat]
  BY DEF SocketTypeOK, Place, Early
<1>2. where' = [where EXCEPT ![c] = "closed"] /\ closes' = [closes EXCEPT ![c] = closes[c] + 1]
  BY DEF CloseConnection
<1>3. closes[c] + 1 \in Nat
  BY <1>1
<1>4. "closed" \in Place
  BY DEF Place
<1> QED BY <1>1, <1>2, <1>3, <1>4

(* for a connection that never was a WebSocket. *)
LEMMA EndsStep ==
  ASSUME SocketTypeOK, Stories, UNCHANGED rules, NEW c \in Clients, where[c] \in Early, Ends(c)
  PROVE  SocketTypeOK' /\ Stories'
<1>1. /\ where' \in [Clients -> Place] /\ closes' \in [Clients -> Nat]
      /\ where'[c] = "closed" /\ closes'[c] = closes[c] + 1
      /\ \A d \in Clients : d # c => where'[d] = where[d] /\ closes'[d] = closes[d]
      /\ UNCHANGED <<fd, inbox, sent, halves, gone, log>>
  BY CloseFacts DEF Ends
<1>2. SocketTypeOK'
  BY <1>1 DEF SocketTypeOK, Place, Early
<1>3. GoodAt(c)'
  <2> DEFINE whole == "whole" \in rules
  <2>1. whole \in BOOLEAN /\ Good(whole, where[c], closes[c], log[c], inbox[c], sent[c])
    BY DEF Stories, GoodAt
  <2> HIDE DEF whole
  <2>2. Good(whole, "closed", closes[c] + 1, log[c], inbox[c], sent[c])
    BY <2>1, EarlyMoves
  <2> QED BY <1>1, <2>2 DEF GoodAt, whole
<1>4. "whole" \in rules => halves' = {}
  BY <1>1 DEF Stories
<1> QED BY <1>1, <1>2, <1>3, <1>4, OneChanges

\* one connection's log gets an entry
(* An event is one entry more in the log of its connection. *)
LEMMA EventFacts ==
  ASSUME SocketTypeOK, NEW c \in Clients, NEW name, NEW m, Event(c, name, m),
         Append(log[c], <<name, m>>) \in Seq(Entries)
  PROVE  /\ log' \in [Clients -> Seq({"open", "message", "close"} \X Nat)]
         /\ log'[c] = Append(log[c], <<name, m>>) /\ \A d \in Clients : d # c => log'[d] = log[d]
<1> DEFINE w == Append(log[c], <<name, m>>)
<1>1. log' = [log EXCEPT ![c] = w] /\ w \in Seq({"open", "message", "close"} \X Nat)
  BY DEF Event, Entries
<1>2. log \in [Clients -> Seq({"open", "message", "close"} \X Nat)]
  BY DEF SocketTypeOK
<1> HIDE DEF w
<1>3. log' \in [Clients -> Seq({"open", "message", "close"} \X Nat)] /\ log'[c] = w /\ \A d \in Clients : d # c => log'[d] = log[d]
  BY <1>1, <1>2
<1> QED BY <1>3 DEF w

(* The log, the frames in the socket and the number of those sent. *)
LEMMA TypesOf ==
  ASSUME SocketTypeOK, NEW c \in Clients
  PROVE  log[c] \in Seq(Entries) /\ inbox[c] \in Seq(Frame) /\ sent[c] \in Nat
  BY DEF SocketTypeOK, Entries, Frame

(* The upgrade binds the connection to an object: "open" is heard. *)
LEMMA BindStep ==
  ASSUME SocketTypeOK, Stories, UNCHANGED rules, NEW c \in Clients, NEW w \in Sockets,
         where[c] = "current", Bind(w, c)
  PROVE  SocketTypeOK' /\ Stories'
<1> DEFINE whole == "whole" \in rules
           l == Append(log[c], <<"open", 0>>)
<1>1. /\ where'[c] = "ws" /\ \A d \in Clients : d # c => where'[d] = where[d]
      /\ UNCHANGED <<closes, inbox, sent, halves, gone>>
  BY DEF SocketTypeOK, Bind
<1>2. whole \in BOOLEAN /\ Good(whole, "current", closes[c], log[c], inbox[c], sent[c])
  BY DEF Stories, GoodAt
<1> HIDE DEF whole
<1>3. Good(whole, "ws", closes[c], l, inbox[c], sent[c]) /\ l \in Seq(Entries)
  BY <1>2, TypesOf, GoodOpens
<1>4. /\ log' \in [Clients -> Seq({"open", "message", "close"} \X Nat)]
      /\ log'[c] = l /\ \A d \in Clients : d # c => log'[d] = log[d]
  BY <1>3, EventFacts DEF Bind
<1> HIDE DEF l
<1>5. SocketTypeOK'
  BY <1>4 DEF SocketTypeOK, Bind
<1>6. GoodAt(c)'
  BY <1>1, <1>3, <1>4 DEF GoodAt, whole
<1>7. "whole" \in rules => halves' = {}
  BY <1>1 DEF Stories
<1> QED BY <1>1, <1>4, <1>5, <1>6, <1>7, OneChanges

(* The socket is lost or closed: "close" is heard, and the descriptor closed. *)
LEMMA DropStep ==
  ASSUME SocketTypeOK, Stories, UNCHANGED rules, NEW w \in Sockets, NEW c \in Clients,
         fd[w] = c, where[c] = "ws", Drop(w), UNCHANGED <<sent, halves, gone>>,
         inbox' \in [Clients -> Seq(Frame)], "whole" \in rules => UNCHANGED inbox,
         \A d \in Clients : d # c => inbox'[d] = inbox[d]
  PROVE  SocketTypeOK' /\ Stories'
<1> DEFINE whole == "whole" \in rules
           l == Append(log[c], <<"close", 0>>)
<1>1. /\ where' \in [Clients -> Place] /\ closes' \in [Clients -> Nat]
      /\ where'[c] = "closed" /\ closes'[c] = closes[c] + 1
      /\ \A d \in Clients : d # c => where'[d] = where[d] /\ closes'[d] = closes[d]
  BY CloseFacts DEF Drop
<1>2. fd' \in [Sockets -> Clients \cup {NoConn}]
  BY DEF SocketTypeOK, Drop
<1>3. whole \in BOOLEAN /\ Good(whole, "ws", closes[c], log[c], inbox[c], sent[c])
  BY DEF Stories, GoodAt
<1>4. Event(c, "close", 0) /\ (whole => inbox' = inbox)
  BY DEF Drop
<1> HIDE DEF whole
<1>5. inbox'[c] \in Seq(Frame) /\ sent'[c] = sent[c] /\ sent[c] \in Nat
  BY TypesOf
<1>6. Good(whole, "ws", closes[c], log[c], inbox'[c], sent[c])
  BY <1>3, <1>4 DEF Good
<1>7. Good(whole, "closed", closes[c] + 1, l, inbox'[c], sent[c]) /\ l \in Seq(Entries)
  BY <1>3, <1>5, <1>6, TypesOf, GoodEnds
<1>8. /\ log' \in [Clients -> Seq({"open", "message", "close"} \X Nat)]
      /\ log'[c] = l /\ \A d \in Clients : d # c => log'[d] = log[d]
  BY <1>4, <1>7, EventFacts
<1> HIDE DEF l
<1>9. SocketTypeOK'
  BY <1>1, <1>2, <1>8 DEF SocketTypeOK, Frame, Place, Early
<1>10. GoodAt(c)'
  BY <1>1, <1>5, <1>7, <1>8 DEF GoodAt, whole
<1>11. "whole" \in rules => halves' = {}
  BY DEF Stories
<1> QED BY <1>1, <1>8, <1>9, <1>10, <1>11, OneChanges

(* A frame is read: "message" is heard, or nothing for a part of one. *)
LEMMA HearStep ==
  ASSUME SocketTypeOK, Stories, UNCHANGED rules, NEW w \in Sockets, NEW c \in Clients,
         fd[w] = c, where[c] = "ws", inbox[c] # <<>>, ReadFrame(w)
  PROVE  SocketTypeOK' /\ Stories'
<1> DEFINE whole == "whole" \in rules
           q == inbox[c]
           f == Head(q)
<1>1. whole \in BOOLEAN /\ Good(whole, "ws", closes[c], log[c], q, sent[c])
  BY DEF Stories, GoodAt
<1>2. /\ log[c] \in Seq(Entries) /\ q \in Seq(Frame) /\ q # <<>> /\ sent[c] \in Nat
      /\ f \in Frame /\ Tail(q) \in Seq(Frame)
  BY TypesOf
<1>3. inbox' = [inbox EXCEPT ![c] = Tail(q)] /\ UNCHANGED <<sent, halves, gone>>
  BY DEF ReadFrame
<1>4. inbox \in [Clients -> Seq(Frame)]
  BY DEF SocketTypeOK, Frame
<1>5. /\ inbox' \in [Clients -> Seq(Frame)] /\ inbox'[c] = Tail(q)
      /\ \A d \in Clients : d # c => inbox'[d] = inbox[d]
  BY <1>2, <1>3, <1>4
<1>6. "whole" \in rules => halves' = {}
  BY <1>3 DEF Stories
<1> HIDE DEF whole, q
<1>7. /\ whole => f.part = "whole"
      /\ \A m \in Nat : (whole => m = f.frame)
                        => /\ Good(whole, "ws", closes[c], Append(log[c], <<"message", m>>), Tail(q), sent[c])
                           /\ Append(log[c], <<"message", m>>) \in Seq(Entries)
  BY <1>1, <1>2, GoodHears
<1>8. \/ /\ Event(c, "message", IF f.part = "whole" THEN f.frame ELSE Junk)
         /\ UNCHANGED <<where, closes, fd>>
      \/ f.part # "whole" /\ UNCHANGED <<where, closes, fd, log>>
      \/ f.part # "whole" /\ Drop(w)
  BY DEF ReadFrame, q
<1> HIDE DEF f
<1>9. ASSUME Event(c, "message", IF f.part = "whole" THEN f.frame ELSE Junk),
             UNCHANGED <<where, closes, fd>>
      PROVE  SocketTypeOK' /\ Stories'
  <2> DEFINE m == IF f.part = "whole" THEN f.frame ELSE Junk
             l == Append(log[c], <<"message", m>>)
  <2>1. m \in Nat /\ (whole => m = f.frame)
    BY <1>2, <1>7 DEF Frame, Junk
  <2>2. Event(c, "message", m)
    BY <1>9
  <2> HIDE DEF m
  <2>3. Good(whole, "ws", closes[c], l, Tail(q), sent[c]) /\ l \in Seq(Entries)
    BY <1>7, <2>1
  <2>4. /\ log' \in [Clients -> Seq({"open", "message", "close"} \X Nat)]
        /\ log'[c] = l /\ \A d \in Clients : d # c => log'[d] = log[d]
    BY <2>2, <2>3, EventFacts
  <2> HIDE DEF l
  <2>5. SocketTypeOK'
    BY <1>3, <1>5, <1>9, <2>4 DEF SocketTypeOK, Frame
  <2>6. GoodAt(c)'
    BY <1>3, <1>5, <1>9, <2>3, <2>4 DEF GoodAt, whole
  <2> QED BY <1>3, <1>5, <1>6, <1>9, <2>4, <2>5, <2>6, OneChanges
<1>10. ASSUME f.part # "whole", UNCHANGED <<where, closes, fd, log>>
       PROVE  SocketTypeOK' /\ Stories'
  <2>1. Good(whole, "ws", closes[c], log[c], Tail(q), sent[c])
    BY <1>1, <1>7, <1>10 DEF Good
  <2>2. SocketTypeOK'
    BY <1>3, <1>5, <1>10 DEF SocketTypeOK, Frame
  <2>3. GoodAt(c)'
    BY <1>3, <1>5, <1>10, <2>1 DEF GoodAt, whole
  <2> QED BY <1>3, <1>5, <1>6, <1>10, <2>2, <2>3, OneChanges
<1>11. ASSUME f.part # "whole", Drop(w) PROVE SocketTypeOK' /\ Stories'
  <2>1. "whole" \in rules => UNCHANGED inbox
    BY <1>7, <1>11 DEF whole
  <2> QED BY <1>3, <1>5, <1>11, <2>1, DropStep
<1> QED BY <1>8, <1>9, <1>10, <1>11

(* The client sends a frame, or its first part, *)
LEMMA SendStep ==
  ASSUME SocketTypeOK, Stories, UNCHANGED rules, NEW c \in Clients, NEW part \in Parts,
         SendFrame(c, part)
  PROVE  SocketTypeOK' /\ Stories'
<1> DEFINE whole == "whole" \in rules
           f == [frame |-> sent[c] + 1, part |-> part]
           q == Append(inbox[c], f)
<1>1. whole \in BOOLEAN /\ Good(whole, where[c], closes[c], log[c], inbox[c], sent[c])
  BY DEF Stories, GoodAt
<1>2. log[c] \in Seq(Entries) /\ inbox[c] \in Seq(Frame) /\ sent[c] \in Nat
  BY TypesOf
<1>3. f \in Frame /\ q \in Seq(Frame)
  <2>1. f \in Frame
    BY <1>2 DEF Frame
  <2> HIDE DEF f
  <2> QED BY <1>2, <2>1
<1>4. /\ sent' = [sent EXCEPT ![c] = sent[c] + 1] /\ inbox' = [inbox EXCEPT ![c] = q]
      /\ UNCHANGED <<where, closes, fd, gone, log>>
      /\ whole => part = "whole"
      /\ halves' = IF part = "first" THEN halves \cup {c} ELSE halves
  BY DEF SendFrame, Arrives
<1>5. inbox \in [Clients -> Seq(Frame)] /\ sent \in [Clients -> Nat] /\ halves \subseteq Clients
  BY DEF SocketTypeOK, Frame
<1>6. whole => Good(whole, where[c], closes[c], log[c], q, sent[c] + 1)
  BY <1>1, <1>2, <1>4, FrameArrives DEF Good
<1>7. Good(whole, where[c], closes[c], log[c], q, sent[c] + 1)
  BY <1>1, <1>6 DEF Good
<1> HIDE DEF whole, f, q
<1>8. /\ inbox' \in [Clients -> Seq(Frame)] /\ sent' \in [Clients -> Nat]
      /\ inbox'[c] = q /\ sent'[c] = sent[c] + 1
      /\ \A d \in Clients : d # c => inbox'[d] = inbox[d] /\ sent'[d] = sent[d]
  BY <1>2, <1>3, <1>4, <1>5
<1>9. halves' \subseteq Clients
  BY <1>4, <1>5
<1>10. SocketTypeOK'
  BY <1>4, <1>8, <1>9 DEF SocketTypeOK, Frame
<1>11. GoodAt(c)'
  BY <1>4, <1>7, <1>8 DEF GoodAt, whole
<1>12. "whole" \in rules => halves' = {}
  BY <1>4 DEF Stories, whole
<1> QED BY <1>4, <1>8, <1>10, <1>11, <1>12, OneChanges

(* or the rest of it. *)
LEMMA SendRestStep ==
  ASSUME SocketTypeOK, Stories, UNCHANGED rules, NEW c \in Clients, SendRest(c)
  PROVE  SocketTypeOK' /\ Stories'
<1>1. /\ c \in halves /\ halves' = halves \ {c} /\ UNCHANGED <<where, closes, fd, sent, gone, log>>
      /\ IF inbox[c] # <<>> /\ Last(inbox[c]).part = "first"
           THEN inbox' = [inbox EXCEPT ![c][Len(inbox[c])].part = "whole"]
           ELSE Arrives(c, sent[c], "rest")
  BY DEF SendRest
<1>2. "whole" \notin rules
  BY <1>1 DEF Stories
<1>3. inbox[c] \in Seq(Frame) /\ sent[c] \in Nat /\ inbox \in [Clients -> Seq(Frame)]
  BY DEF SocketTypeOK, Frame
<1>4. inbox' \in [Clients -> Seq(Frame)] /\ \A d \in Clients : d # c => inbox'[d] = inbox[d]
  <2> DEFINE q == inbox[c]
             k == Len(q)
  <2>1. CASE q # <<>> /\ Last(q).part = "first"
    <3> DEFINE f == [q[k] EXCEPT !.part = "whole"]
               r == [q EXCEPT ![k] = f]
    <3>1. q \in Seq(Frame) /\ k \in 1..Len(q) /\ q[k] \in Frame
      BY <1>3, <2>1
    <3>2. f \in Frame
      BY <3>1 DEF Frame, Parts
    <3> HIDE DEF f, q, k
    <3>3. r \in Seq(Frame)
      BY <3>1, <3>2, ExceptSeq
    <3>4. inbox' = [inbox EXCEPT ![c] = r]
      BY <1>1, <2>1 DEF q, k, f
    <3> HIDE DEF r
    <3> QED BY <1>3, <3>3, <3>4
  <2>2. CASE ~(q # <<>> /\ Last(q).part = "first")
    <3> DEFINE f == [frame |-> sent[c], part |-> "rest"]
               r == Append(q, f)
    <3>1. f \in Frame
      BY <1>3 DEF Frame, Parts
    <3>2. inbox' = [inbox EXCEPT ![c] = r]
      BY <1>1, <2>2 DEF Arrives
    <3> HIDE DEF f
    <3>3. r \in Seq(Frame)
      BY <1>3, <3>1
    <3> HIDE DEF r
    <3> QED BY <1>3, <3>2, <3>3
  <2> QED BY <2>1, <2>2
<1>5. SocketTypeOK'
  BY <1>1, <1>4 DEF SocketTypeOK, Frame
<1>6. GoodAt(c)'
  BY <1>1, <1>2 DEF Stories, GoodAt, Good
<1> QED BY <1>1, <1>2, <1>4, <1>5, <1>6, OneChanges

(* Every kind of step keeps the stories. *)
LEMMA StoryStep ==
  ASSUME SocketTypeOK, Stories, Named, UNCHANGED rules, SocketKind
  PROVE  SocketTypeOK' /\ Stories'
<1>1. CASE UNCHANGED socketVars
  <2>1. SocketTypeOK'
    BY <1>1 DEF SocketTypeOK, socketVars
  <2>2. Stories'
    BY <1>1 DEF Stories, GoodAt, socketVars
  <2> QED BY <2>1, <2>2
<1>2. ASSUME NEW c \in Clients, Leave(c) PROVE SocketTypeOK' /\ Stories'
  <2>1. UNCHANGED <<where, closes, fd, inbox, sent, halves, log>> /\ gone' = gone \cup {c}
    BY <1>2 DEF Leave
  <2>2. SocketTypeOK'
    BY <2>1 DEF SocketTypeOK
  <2>3. Stories'
    BY <2>1 DEF Stories, GoodAt
  <2> QED BY <2>2, <2>3
<1>3. ASSUME NEW w \in Sockets, CloseSocket(w) \/ (AtEnd(w) /\ ReadEnd(w))
      PROVE  SocketTypeOK' /\ Stories'
  <2>1. fd[w] # NoConn /\ Drop(w) /\ UNCHANGED <<inbox, sent, halves, gone>>
    BY <1>3 DEF CloseSocket, AtEnd, ReadEnd
  <2>2. PICK c \in Clients : fd[w] = c /\ where[c] = "ws"
    BY <2>1 DEF Named
  <2>3. inbox' \in [Clients -> Seq(Frame)] /\ \A d \in Clients : inbox'[d] = inbox[d]
    BY <2>1 DEF SocketTypeOK, Frame
  <2> QED BY <2>1, <2>2, <2>3, DropStep
<1>4. ASSUME NEW w \in Sockets, Readable(w), ReadFrame(w) PROVE SocketTypeOK' /\ Stories'
  <2>1. PICK c \in Clients : fd[w] = c /\ where[c] = "ws"
    BY <1>4 DEF Named, Readable
  <2>2. inbox[c] # <<>>
    BY <1>4, <2>1 DEF Readable
  <2> QED BY <1>4, <2>1, <2>2, HearStep
<1> QED BY <1>1, <1>2, <1>3, <1>4, MovesStep, EndsStep, BindStep, SendStep, SendRestStep DEF SocketKind

-----------------------------------------------------------------------------
(* Names *)

(* A connection leaves the place it was in and is in another. *)
LEMMA AtMoves ==
  ASSUME SocketTypeOK, NEW c \in Clients, NEW place, where' = [where EXCEPT ![c] = place]
  PROVE  At(place)' = At(place) \cup {c} /\ \A x : x # place => At(x)' = At(x) \ {c}
<1>1. where'[c] = place /\ \A d \in Clients : d # c => where'[d] = where[d]
  BY DEF SocketTypeOK
<1> QED BY <1>1 DEF At

(* A list without repetitions keeps so with a new connection, *)
LEMMA AppendOnce ==
  ASSUME NEW S, NEW s \in Seq(S), NEW x \in S, IsInjective(s), x \notin Range(s)
  PROVE  IsInjective(Append(s, x))
<1> DEFINE w == Append(s, x)
<1>1. /\ DOMAIN s = 1..Len(s) /\ Len(s) \in Nat /\ DOMAIN w = 1..(Len(s) + 1)
      /\ \A i \in 1..Len(s) : w[i] = s[i]
      /\ w[Len(s) + 1] = x
  BY AppendFacts
<1> HIDE DEF w
<1>2. \A i \in 1..Len(s) : w[i] # x
  BY <1>1 DEF Range
<1>3. \A i \in DOMAIN w : i \in 1..Len(s) \/ i = Len(s) + 1
  BY <1>1
<1>4. \A i, j \in 1..Len(s) : s[i] = s[j] => i = j
  BY <1>1 DEF IsInjective
<1>5. ASSUME NEW i \in DOMAIN w, NEW j \in DOMAIN w, w[i] = w[j] PROVE i = j
  BY <1>1, <1>2, <1>3, <1>4, <1>5
<1> QED BY <1>5 DEF IsInjective, w

(* and without its first. *)
LEMMA TailOnce ==
  ASSUME NEW S, NEW s \in Seq(S), s # <<>>, IsInjective(s)
  PROVE  IsInjective(Tail(s)) /\ Range(Tail(s)) = Range(s) \ {Head(s)}
<1> DEFINE t == Tail(s)
<1>1. /\ Head(s) = s[1] /\ DOMAIN s = 1..Len(s) /\ Len(s) \in Nat /\ 1 \in 1..Len(s)
      /\ t \in Seq(S) /\ Len(t) = Len(s) - 1
      /\ \A i \in 1..(Len(s) - 1) : t[i] = s[i + 1]
  OBVIOUS
<1>2. DOMAIN t = 1..(Len(s) - 1)
  BY <1>1
<1> HIDE DEF t
<1>3. \A i \in DOMAIN t : i + 1 \in DOMAIN s /\ i + 1 # 1 /\ t[i] = s[i + 1] /\ i \in Nat
  BY <1>1, <1>2
<1>4. \A i \in DOMAIN s : i = 1 \/ (i - 1 \in DOMAIN t /\ t[i - 1] = s[i])
  <2>1. \A i \in DOMAIN s : i = 1 \/ (i - 1 \in DOMAIN t /\ (i - 1) + 1 = i)
    BY <1>1, <1>2
  <2> QED BY <1>3, <2>1
<1>5. IsInjective(t)
  <2>1. \A i, j \in DOMAIN t : i + 1 = j + 1 => i = j
    BY <1>3
  <2> QED BY <1>3, <2>1 DEF IsInjective
<1>6. Range(t) = Range(s) \ {s[1]}
  <2>1. ASSUME NEW i \in DOMAIN t PROVE t[i] \in Range(s) \ {s[1]}
    BY <1>1, <1>3 DEF IsInjective, Range
  <2>2. ASSUME NEW i \in DOMAIN s, s[i] # s[1] PROVE s[i] \in Range(t)
    BY <1>4, <2>2 DEF Range
  <2> QED BY <2>1, <2>2 DEF Range
<1> QED BY <1>1, <1>5, <1>6 DEF t

(* The names of a place, as a connection comes and goes: in the backlog, *)
LEMMA BacklogGains ==
  ASSUME LineTypes, BacklogNames, NEW c \in Clients, NEW s \in Servers, where[c] # "backlog",
         backlog' = [backlog EXCEPT ![s] = Append(backlog[s], c)],
         At("backlog")' = At("backlog") \cup {c}
  PROVE  BacklogNames'
<1>1. backlog[s] \in Seq(Clients) /\ \A t \in Servers : c \notin Range(backlog[t])
  BY DEF LineTypes, BacklogNames, At
<1>2. /\ backlog'[s] = Append(backlog[s], c)
      /\ \A t \in Servers : t # s => backlog'[t] = backlog[t]
  BY DEF LineTypes
<1>3. IsInjective(backlog'[s]) /\ Range(backlog'[s]) = Range(backlog[s]) \cup {c}
  BY <1>1, <1>2, AppendOnce, AppendFacts DEF BacklogNames
<1>4. \A t \in Servers : IsInjective(backlog'[t])
  BY <1>2, <1>3 DEF BacklogNames
<1>5. ASSUME NEW t \in Servers, NEW u \in Servers, t # u
      PROVE  Range(backlog'[t]) \cap Range(backlog'[u]) = {}
  <2>1. Range(backlog[t]) \cap Range(backlog[u]) = {}
    BY <1>5 DEF BacklogNames
  <2>2. c \notin Range(backlog[t]) /\ c \notin Range(backlog[u])
    BY <1>1
  <2>3. CASE t = s
    BY <1>2, <1>3, <1>5, <2>1, <2>2, <2>3
  <2>4. CASE u = s
    BY <1>2, <1>3, <1>5, <2>1, <2>2, <2>4
  <2> QED BY <1>2, <2>1, <2>3, <2>4
<1>6. At("backlog")' = UNION {Range(backlog'[t]) : t \in Servers}
  BY <1>2, <1>3 DEF BacklogNames
<1> QED BY <1>4, <1>5, <1>6 DEF BacklogNames

(* from which it is taken; *)
LEMMA BacklogLoses ==
  ASSUME LineTypes, BacklogNames, NEW s \in Servers, NEW c \in Clients,
         backlog[s] # <<>>, c = Head(backlog[s]),
         backlog' = [backlog EXCEPT ![s] = Tail(backlog[s])],
         At("backlog")' = At("backlog") \ {c}
  PROVE  BacklogNames'
<1>1. backlog[s] \in Seq(Clients) /\ c \in Range(backlog[s])
  BY TailFacts DEF LineTypes
<1>2. /\ backlog'[s] = Tail(backlog[s])
      /\ \A t \in Servers : t # s => backlog'[t] = backlog[t]
  BY DEF LineTypes
<1>3. IsInjective(backlog'[s]) /\ Range(backlog'[s]) = Range(backlog[s]) \ {c}
  BY <1>1, <1>2, TailOnce DEF BacklogNames
<1>4. \A t \in Servers : IsInjective(backlog'[t])
  BY <1>2, <1>3 DEF BacklogNames
<1>5. \A t, u \in Servers : t # u => Range(backlog'[t]) \cap Range(backlog'[u]) = {}
  BY <1>1, <1>2, <1>3 DEF BacklogNames
<1>6. \A t \in Servers : t # s => c \notin Range(backlog[t])
  BY <1>1 DEF BacklogNames
<1>7. At("backlog")' = UNION {Range(backlog'[t]) : t \in Servers}
  BY <1>2, <1>3, <1>6 DEF BacklogNames
<1> QED BY <1>4, <1>5, <1>7 DEF BacklogNames

(* with a thread that reads it, *)
LEMMA ThreadGains ==
  ASSUME LineTypes, ThreadNames, NEW s \in Servers, NEW c \in Clients, where[c] # "reading",
         thread[s] # "read", thread' = [thread EXCEPT ![s] = "read"],
         reading' = [reading EXCEPT ![s] = c], At("reading")' = At("reading") \cup {c}
  PROVE  ThreadNames'
<1>1. /\ c # NoConn /\ reading[s] = NoConn
      /\ Range(reading) = {reading[t] : t \in Servers} /\ c \notin Range(reading)
  BY HttpServerAssumption DEF LineTypes, ThreadNames, Range, At
<1>2. /\ reading'[s] = c /\ thread'[s] = "read"
      /\ \A t \in Servers : t # s => reading'[t] = reading[t] /\ thread'[t] = thread[t]
      /\ Range(reading') = {reading'[t] : t \in Servers}
  BY DEF LineTypes, Range
<1>3. Range(reading') \ {NoConn} = (Range(reading) \ {NoConn}) \cup {c}
  <2>1. ASSUME NEW t \in Servers PROVE reading'[t] \in Range(reading) \cup {c}
    BY <1>1, <1>2
  <2>2. c \in Range(reading')
    BY <1>2
  <2>3. ASSUME NEW t \in Servers, reading[t] # NoConn PROVE reading[t] \in Range(reading')
    <3>1. t # s
      BY <1>1, <2>3
    <3> QED BY <1>2, <3>1
  <2>4. \A d \in Range(reading') : d \in Range(reading) \cup {c}
    BY <1>2, <2>1
  <2>5. \A d \in Range(reading) : d # NoConn => d \in Range(reading')
    BY <1>1, <2>3
  <2> QED BY <1>1, <2>2, <2>4, <2>5
<1>4. \A t \in Servers : reading'[t] # NoConn => thread'[t] = "read"
  BY <1>2 DEF ThreadNames
<1>5. \A t, u \in Servers : reading'[t] = reading'[u] /\ reading'[t] # NoConn => t = u
  BY <1>1, <1>2 DEF ThreadNames
<1> QED BY <1>3, <1>4, <1>5 DEF ThreadNames

(* until the thread is done, *)
LEMMA ThreadLoses ==
  ASSUME LineTypes, ThreadNames, NEW s \in Servers, NEW c \in Clients, reading[s] = c,
         thread' = [thread EXCEPT ![s] = "top"],
         reading' = [reading EXCEPT ![s] = NoConn], At("reading")' = At("reading") \ {c}
  PROVE  ThreadNames'
<1>1. c # NoConn /\ Range(reading) = {reading[t] : t \in Servers}
  BY HttpServerAssumption DEF LineTypes, Range
<1>2. /\ reading'[s] = NoConn
      /\ \A t \in Servers : t # s => reading'[t] = reading[t] /\ thread'[t] = thread[t]
      /\ Range(reading') = {reading'[t] : t \in Servers}
  BY DEF LineTypes, Range
<1>3. \A t \in Servers : t # s => reading[t] # c
  BY <1>1 DEF ThreadNames
<1>4. Range(reading') \ {NoConn} = (Range(reading) \ {NoConn}) \ {c}
  BY <1>1, <1>2, <1>3
<1>5. \A t \in Servers : reading'[t] # NoConn => thread'[t] = "read"
  BY <1>2 DEF ThreadNames
<1>6. \A t, u \in Servers : reading'[t] = reading'[u] /\ reading'[t] # NoConn => t = u
  BY <1>2 DEF ThreadNames
<1> QED BY <1>4, <1>5, <1>6 DEF ThreadNames

\* a thread goes on with no connection in hand
(* and a thread that does something else; *)
LEMMA ThreadStays ==
  ASSUME LineTypes, ThreadNames, NEW s \in Servers, NEW x, thread[s] # "read",
         thread' = [thread EXCEPT ![s] = x], UNCHANGED reading, At("reading")' = At("reading")
  PROVE  ThreadNames'
<1>1. reading[s] = NoConn /\ \A t \in Servers : t # s => thread'[t] = thread[t]
  BY DEF ThreadNames, LineTypes
<1>2. \A t \in Servers : reading'[t] # NoConn => thread'[t] = "read"
  BY <1>1 DEF ThreadNames
<1> QED BY <1>2 DEF ThreadNames

(* in the queue of requests, *)
LEMMA QueueGains ==
  ASSUME LineTypes, QueueNames, NEW c \in Clients, where[c] # "pending",
         pending' = Append(pending, c), At("pending")' = At("pending") \cup {c}
  PROVE  QueueNames'
<1>1. pending \in Seq(Clients) /\ c \notin Range(pending)
  BY DEF LineTypes, QueueNames, At
<1>2. IsInjective(pending')
  BY <1>1, AppendOnce DEF QueueNames
<1>3. Range(pending') = Range(pending) \cup {c}
  BY <1>1, AppendFacts
<1> QED BY <1>2, <1>3 DEF QueueNames

(* from which the main thread takes it; *)
LEMMA QueueLoses ==
  ASSUME LineTypes, QueueNames, NEW c, pending # <<>>, c = Head(pending),
         pending' = Tail(pending), At("pending")' = At("pending") \ {c}
  PROVE  QueueNames'
<1>1. pending \in Seq(Clients)
  BY DEF LineTypes
<1> QED BY <1>1, TailOnce DEF QueueNames

(* with a WebSocket object, *)
LEMMA SocketGains ==
  ASSUME SocketTypeOK, SocketNames, NEW w \in Sockets, NEW c \in Clients, where[c] # "ws",
         UNCHANGED rules, "fresh" \in rules => fd[w] = NoConn,
         fd' = [fd EXCEPT ![w] = c], At("ws")' = At("ws") \cup {c}
  PROVE  SocketNames'
<1>1. c # NoConn /\ Range(fd) = {fd[v] : v \in Sockets} /\ c \notin Range(fd)
  BY HttpServerAssumption DEF SocketTypeOK, SocketNames, Range, At
<1>2. /\ fd'[w] = c /\ \A v \in Sockets : v # w => fd'[v] = fd[v]
      /\ Range(fd') = {fd'[v] : v \in Sockets}
  BY DEF SocketTypeOK, Range
<1>3. \A u, v \in Sockets : fd'[u] = fd'[v] /\ fd'[u] # NoConn => u = v
  BY <1>1, <1>2 DEF SocketNames
<1>4. ASSUME NEW v \in Sockets, fd'[v] # NoConn PROVE fd'[v] \in At("ws")'
  <2>1. CASE v = w
    BY <1>2, <2>1
  <2>2. CASE v # w
    <3>1. fd[v] \in Range(fd) \ {NoConn}
      BY <1>1, <1>2, <1>4, <2>2
    <3>2. fd[v] \in At("ws")
      BY <3>1 DEF SocketNames
    <3> QED BY <1>2, <2>2, <3>2
  <2> QED BY <2>1, <2>2
<1>5. ASSUME "fresh" \in rules, NEW d \in At("ws")' PROVE d \in Range(fd')
  <2>1. CASE d = c
    BY <1>2, <2>1
  <2>2. CASE d # c
    <3>1. d \in At("ws") /\ d # NoConn
      BY <2>2, HttpServerAssumption DEF At
    <3>2. PICK v \in Sockets : fd[v] = d
      BY <1>1, <1>5, <3>1 DEF SocketNames
    <3>3. v # w
      BY <1>5, <3>1, <3>2
    <3> QED BY <1>2, <3>2, <3>3
  <2> QED BY <2>1, <2>2
<1>6. \A d \in Range(fd') : d = NoConn \/ d \in At("ws")'
  BY <1>2, <1>4
<1> QED BY <1>3, <1>5, <1>6 DEF SocketNames

(* until the object drops it. *)
LEMMA SocketLoses ==
  ASSUME SocketTypeOK, SocketNames, NEW w \in Sockets, NEW c \in Clients, fd[w] = c,
         UNCHANGED rules, fd' = [fd EXCEPT ![w] = NoConn], At("ws")' = At("ws") \ {c}
  PROVE  SocketNames'
<1>1. c # NoConn /\ Range(fd) = {fd[v] : v \in Sockets}
  BY HttpServerAssumption DEF SocketTypeOK, Range
<1>2. /\ fd'[w] = NoConn /\ \A v \in Sockets : v # w => fd'[v] = fd[v]
      /\ Range(fd') = {fd'[v] : v \in Sockets}
  BY DEF SocketTypeOK, Range
<1>3. \A v \in Sockets : v # w => fd[v] # c
  BY <1>1 DEF SocketNames
<1>4. \A u, v \in Sockets : fd'[u] = fd'[v] /\ fd'[u] # NoConn => u = v
  BY <1>2 DEF SocketNames
<1>5. ASSUME NEW v \in Sockets, fd'[v] # NoConn PROVE fd'[v] \in At("ws")'
  <2>1. v # w /\ fd'[v] = fd[v]
    BY <1>2, <1>5
  <2>2. fd[v] \in Range(fd) \ {NoConn}
    BY <1>1, <1>5, <2>1
  <2>3. fd[v] \in At("ws")
    BY <2>2 DEF SocketNames
  <2> QED BY <1>3, <2>1, <2>3
<1>6. ASSUME "fresh" \in rules, NEW d \in At("ws")' PROVE d \in Range(fd')
  <2>1. d \in At("ws") /\ d # c
    OBVIOUS
  <2>2. PICK v \in Sockets : fd[v] = d
    BY <1>1, <1>6, <2>1 DEF SocketNames
  <2>3. v # w
    BY <2>1, <2>2
  <2> QED BY <1>2, <2>2, <2>3
<1>7. Range(fd') \ {NoConn} \subseteq At("ws")'
  BY <1>2, <1>5
<1> QED BY <1>4, <1>6, <1>7 DEF SocketNames

nameVars == <<rules, where, backlog, thread, reading, pending, cur, fd>>

(* A connection that goes from one place to another is in no third. *)
LEMMA Goes ==
  ASSUME SocketTypeOK, NEW c \in Clients, NEW from, NEW place, where[c] = from, from # place,
         where' = [where EXCEPT ![c] = place]
  PROVE  /\ At(place)' = At(place) \cup {c} /\ At(from)' = At(from) \ {c}
         /\ \A x : x \notin {place, from} => At(x)' = At(x)
<1>1. At(place)' = At(place) \cup {c} /\ \A x : x # place => At(x)' = At(x) \ {c}
  BY AtMoves
<1>2. \A x : x # from => c \notin At(x)
  BY DEF At
<1> QED BY <1>1, <1>2

(* No connection moves. *)
LEMMA StillNamed == ASSUME Names, UNCHANGED nameVars PROVE Names'
<1> USE DEF nameVars
<1>1. \A x : At(x)' = At(x)
  BY DEF At
<1>2. BacklogNames'
  BY <1>1 DEF Names, BacklogNames
<1>3. ThreadNames'
  BY <1>1 DEF Names, ThreadNames
<1>4. QueueNames' /\ MainNames'
  BY <1>1 DEF Names, QueueNames, MainNames
<1>5. SocketNames' /\ NoneLost'
  BY <1>1 DEF Names, SocketNames, NoneLost
<1> QED BY <1>2, <1>3, <1>4, <1>5 DEF Names

\* The parts of Names that a step leaves alone.
(* A place where nothing changes keeps its names. *)
LEMMA Untouched ==
  /\ BacklogNames /\ UNCHANGED backlog /\ At("backlog")' = At("backlog") => BacklogNames'
  /\ ThreadNames /\ UNCHANGED <<thread, reading>> /\ At("reading")' = At("reading") => ThreadNames'
  /\ QueueNames /\ UNCHANGED pending /\ At("pending")' = At("pending") => QueueNames'
  /\ MainNames /\ UNCHANGED cur /\ At("current")' = At("current") => MainNames'
  /\ SocketNames /\ UNCHANGED <<rules, fd>> /\ At("ws")' = At("ws") => SocketNames'
  /\ NoneLost /\ UNCHANGED rules /\ At("lost")' = At("lost") => NoneLost'
<1>1. BacklogNames /\ UNCHANGED backlog /\ At("backlog")' = At("backlog") => BacklogNames'
  BY DEF BacklogNames
<1>2. ThreadNames /\ UNCHANGED <<thread, reading>> /\ At("reading")' = At("reading") => ThreadNames'
  BY DEF ThreadNames
<1>3. QueueNames /\ UNCHANGED pending /\ At("pending")' = At("pending") => QueueNames'
  BY DEF QueueNames
<1>4. MainNames /\ UNCHANGED cur /\ At("current")' = At("current") => MainNames'
  BY DEF MainNames
<1>5. SocketNames /\ UNCHANGED <<rules, fd>> /\ At("ws")' = At("ws") => SocketNames'
  BY DEF SocketNames
<1>6. NoneLost /\ UNCHANGED rules /\ At("lost")' = At("lost") => NoneLost'
  BY DEF NoneLost
<1> QED BY <1>1, <1>2, <1>3, <1>4, <1>5, <1>6

ConnectionTypes == SocketTypeOK /\ LineTypes

(* Names, as a client connects, *)
LEMMA ConnectNames ==
  ASSUME ConnectionTypes, Names, NEW c \in Clients, NEW s \in Servers, Connect(c, s) PROVE Names'
<1> USE DEF ConnectionTypes, Names
<1>1. /\ where[c] = "new" /\ where' = [where EXCEPT ![c] = "backlog"]
      /\ backlog' = [backlog EXCEPT ![s] = Append(backlog[s], c)]
      /\ UNCHANGED <<rules, thread, reading, pending, cur, fd>>
  BY DEF Connect, mainVars
<1>2. /\ At("backlog")' = At("backlog") \cup {c}
      /\ \A x : x \notin {"new", "backlog"} => At(x)' = At(x)
  BY <1>1, Goes
<1>3. BacklogNames'
  BY <1>1, <1>2, BacklogGains
<1> QED BY <1>1, <1>2, <1>3, Untouched

(* is accepted, *)
LEMMA AcceptNames ==
  ASSUME ConnectionTypes, Names, Named, NEW s \in Servers, Accept(s) PROVE Names'
<1> USE DEF ConnectionTypes, Names
<1>1. on[s] \in Servers /\ backlog[on[s]] \in Seq(Clients) /\ backlog[on[s]] # <<>>
  BY DEF Accept, LineTypes
<1>2. PICK p \in Servers : p = on[s]
  BY <1>1
<1>3. PICK c \in Clients : c = Head(backlog[p])
  BY <1>1, <1>2
<1>4. /\ thread[s] = "accept" /\ thread' = [thread EXCEPT ![s] = "read"]
      /\ reading' = [reading EXCEPT ![s] = c] /\ where' = [where EXCEPT ![c] = "reading"]
      /\ backlog' = [backlog EXCEPT ![p] = Tail(backlog[p])]
      /\ UNCHANGED <<rules, pending, cur, fd>>
  BY <1>2, <1>3 DEF Accept, mainVars
<1>5. where[c] = "backlog"
  <2>1. c \in Range(backlog[p])
    BY <1>1, <1>2, <1>3, TailFacts
  <2> QED BY <2>1 DEF Named, At
<1>6. /\ At("reading")' = At("reading") \cup {c} /\ At("backlog")' = At("backlog") \ {c}
      /\ \A x : x \notin {"reading", "backlog"} => At(x)' = At(x)
  BY <1>4, <1>5, Goes
<1>7. BacklogNames'
  BY <1>1, <1>2, <1>3, <1>4, <1>6, BacklogLoses
<1>8. ThreadNames'
  BY <1>4, <1>5, <1>6, ThreadGains
<1> QED BY <1>4, <1>6, <1>7, <1>8, Untouched

(* its request read and queued, *)
LEMMA ReadRequestNames ==
  ASSUME ConnectionTypes, Names, Named, NEW s \in Servers, ReadRequest(s) PROVE Names'
<1> USE DEF ConnectionTypes, Names
<1>1. PICK c \in Clients : c = reading[s]
  BY DEF ReadRequest, LineTypes
<1>2. /\ reading[s] = c /\ pending' = Append(pending, c)
      /\ where' = [where EXCEPT ![c] = "pending"] /\ reading' = [reading EXCEPT ![s] = NoConn]
      /\ thread' = [thread EXCEPT ![s] = "top"]
      /\ UNCHANGED <<rules, backlog, cur, fd>>
  BY <1>1 DEF ReadRequest, Enqueue, mainVars
<1>3. where[c] = "reading"
  BY <1>2, HttpServerAssumption DEF Named
<1>4. /\ At("pending")' = At("pending") \cup {c} /\ At("reading")' = At("reading") \ {c}
      /\ \A x : x \notin {"pending", "reading"} => At(x)' = At(x)
  BY <1>2, <1>3, Goes
<1>5. ThreadNames'
  BY <1>2, <1>4, ThreadLoses
<1>6. QueueNames'
  BY <1>2, <1>3, <1>4, QueueGains
<1> QED BY <1>2, <1>4, <1>5, <1>6, Untouched

(* or nothing read and the connection closed, *)
LEMMA ReadNothingNames ==
  ASSUME ConnectionTypes, Names, Named, NEW s \in Servers, ReadNothing(s) PROVE Names'
<1> USE DEF ConnectionTypes, Names
<1>1. PICK c \in Clients : c = reading[s]
  BY DEF ReadNothing, SocketTypeOK
<1>2. /\ reading[s] = c /\ where' = [where EXCEPT ![c] = "closed"]
      /\ reading' = [reading EXCEPT ![s] = NoConn] /\ thread' = [thread EXCEPT ![s] = "top"]
      /\ UNCHANGED <<rules, backlog, pending, cur, fd>>
  BY <1>1 DEF ReadNothing, CloseConnection, mainVars
<1>3. where[c] = "reading"
  BY <1>2, HttpServerAssumption DEF Named
<1>4. /\ At("reading")' = At("reading") \ {c}
      /\ \A x : x \notin {"closed", "reading"} => At(x)' = At(x)
  BY <1>2, <1>3, Goes
<1>5. ThreadNames'
  BY <1>2, <1>4, ThreadLoses
<1> QED BY <1>2, <1>4, <1>5, Untouched

(* its request handled, *)
LEMMA HandleNames ==
  ASSUME ConnectionTypes, Names, Named, Busy, Handle PROVE Names'
<1> USE DEF ConnectionTypes, Names
<1>1. pending \in Seq(Clients) /\ pending # <<>>
  BY DEF Handle, LineTypes
<1>2. PICK c \in Clients : c = Head(pending)
  BY <1>1
<1>3. /\ pc = "drain" /\ cur' = c /\ pending' = Tail(pending)
      /\ where' = [where EXCEPT ![c] = "current"]
      /\ UNCHANGED <<rules, backlog, thread, reading, fd>>
  BY <1>2 DEF Handle
<1>4. where[c] = "pending"
  BY <1>1, <1>2, TailFacts DEF Named, At
<1>5. /\ At("current")' = At("current") \cup {c} /\ At("pending")' = At("pending") \ {c}
      /\ \A x : x \notin {"current", "pending"} => At(x)' = At(x)
  BY <1>3, <1>4, Goes
<1>6. QueueNames'
  BY <1>1, <1>2, <1>3, <1>5, QueueLoses
<1>7. MainNames'
  BY <1>3, <1>5, HttpServerAssumption DEF MainNames, Busy, Handling
<1> QED BY <1>3, <1>5, <1>6, <1>7, Untouched

(* answered and closed, *)
LEMMA FinishNames ==
  ASSUME TypeOK, ConnectionTypes, Names, Named, Busy, Handling, Finish PROVE Names'
<1> USE DEF ConnectionTypes, Names
<1>1. PICK c \in Clients : c = cur /\ where[c] = "current"
  BY FinishKind
<1>2. /\ where' = [where EXCEPT ![c] = "closed"] /\ cur' = NoConn
      /\ UNCHANGED <<rules, backlog, thread, reading, pending, fd>>
  BY <1>1 DEF Finish, CloseConnection, acceptVars
<1>3. /\ At("current")' = At("current") \ {c}
      /\ \A x : x \notin {"closed", "current"} => At(x)' = At(x)
  BY <1>1, <1>2, Goes
<1>4. MainNames'
  BY <1>1, <1>2, <1>3 DEF MainNames
<1> QED BY <1>2, <1>3, <1>4, Untouched

(* lost to a throw, *)
LEMMA ThrowNames ==
  ASSUME TypeOK, ConnectionTypes, Names, Named, Busy, HandlerThrows PROVE Names'
<1> USE DEF ConnectionTypes, Names
<1>1. PICK c \in Clients : c = cur /\ where[c] = "current"
  BY ThrowKind
<1>2. /\ where' = [where EXCEPT ![c] = "lost"] /\ cur' = NoConn /\ "contained" \notin rules
      /\ UNCHANGED <<rules, backlog, thread, reading, pending, fd>>
  BY <1>1 DEF HandlerThrows, acceptVars
<1>3. /\ At("current")' = At("current") \ {c}
      /\ \A x : x \notin {"lost", "current"} => At(x)' = At(x)
  BY <1>1, <1>2, Goes
<1>4. MainNames' /\ NoneLost'
  BY <1>1, <1>2, <1>3 DEF MainNames, NoneLost
<1> QED BY <1>2, <1>3, <1>4, Untouched

(* upgraded, *)
LEMMA UpgradeNames ==
  ASSUME ConnectionTypes, Names, Named, Busy, NEW w \in Sockets, Upgrade(w), cur \in Clients
  PROVE  Names'
<1> USE DEF ConnectionTypes, Names
<1>1. PICK c \in Clients : c = cur /\ where[c] = "current"
  BY HttpServerAssumption DEF Named
<1>2. /\ "fresh" \in rules => fd[w] = NoConn
      /\ fd' = [fd EXCEPT ![w] = c] /\ where' = [where EXCEPT ![c] = "ws"] /\ cur' = NoConn
      /\ UNCHANGED <<rules, backlog, thread, reading, pending>>
  BY <1>1 DEF Upgrade, Bind, acceptVars
<1>3. /\ At("ws")' = At("ws") \cup {c} /\ At("current")' = At("current") \ {c}
      /\ \A x : x \notin {"ws", "current"} => At(x)' = At(x)
  BY <1>1, <1>2, Goes
<1>4. MainNames'
  BY <1>1, <1>2, <1>3 DEF MainNames
<1>5. SocketNames'
  BY <1>1, <1>2, <1>3, SocketGains
<1> QED BY <1>2, <1>3, <1>4, <1>5, Untouched

(* and dropped. *)
LEMMA DropNames ==
  ASSUME ConnectionTypes, Names, Named, NEW w \in Sockets, fd[w] # NoConn, Drop(w),
         UNCHANGED <<rules, backlog, thread, reading, pending, cur>>
  PROVE  Names'
<1> USE DEF ConnectionTypes, Names
<1>1. PICK c \in Clients : c = fd[w] /\ where[c] = "ws"
  BY DEF Named
<1>2. fd' = [fd EXCEPT ![w] = NoConn] /\ where' = [where EXCEPT ![c] = "closed"]
  BY <1>1 DEF Drop, CloseConnection
<1>3. /\ At("ws")' = At("ws") \ {c}
      /\ \A x : x \notin {"closed", "ws"} => At(x)' = At(x)
  BY <1>1, <1>2, Goes
<1>4. SocketNames'
  BY <1>1, <1>2, <1>3, SocketLoses
<1> QED BY <1>3, <1>4, Untouched

(* Every step keeps the names. *)
LEMMA NamesStep ==
  ASSUME TypeOK, LineTypes, Names, Busy, Next PROVE Names'
<1> DEFINE Still == UNCHANGED nameVars
<1>1. ConnectionTypes /\ Named
  BY NamesNamed DEF ConnectionTypes, TypeOK
<1>2. ASSUME NEW c \in Clients, ClientStep(c) PROVE Names'
  <2>1. ASSUME NEW s \in Servers, Connect(c, s) PROVE Names'
    BY <1>1, <2>1, ConnectNames
  <2>2. CASE SendRequest(c)
    <3>1. Still
      BY <2>2 DEF SendRequest, nameVars, mainVars, socketVars
    <3> QED BY <3>1, StillNamed
  <2>3. ASSUME NEW part \in Parts, OfSocket(SendFrame(c, part)) PROVE Names'
    <3>1. Still
      BY <2>3 DEF OfSocket, SendFrame, nameVars, acceptVars, mainVars
    <3> QED BY <3>1, StillNamed
  <2>4. CASE OfSocket(SendRest(c)) \/ OfSocket(Leave(c))
    <3>1. Still
      BY <2>4 DEF OfSocket, SendRest, Leave, nameVars, acceptVars, mainVars
    <3> QED BY <3>1, StillNamed
  <2> QED BY <1>2, <2>1, <2>2, <2>3, <2>4 DEF ClientStep, OfSocket
<1>3. ASSUME NEW s \in Servers, ThreadStep(s) PROVE Names'
  <2>1. CASE Choose(s)
    <3>1. /\ thread[s] = "top" /\ thread' = [thread EXCEPT ![s] = "accept"]
          /\ UNCHANGED <<rules, where, backlog, reading, pending, cur, fd>>
      BY <2>1 DEF Choose, mainVars, socketVars
    <3>2. \A x : At(x)' = At(x)
      BY <3>1 DEF At
    <3>3. ThreadNames'
      BY <1>1, <3>1, <3>2, ThreadStays DEF Names
    <3> QED BY <3>1, <3>2, <3>3, Untouched DEF Names
  <2> QED BY <1>1, <1>3, <2>1, AcceptNames, ReadRequestNames, ReadNothingNames DEF ThreadStep
<1>4. CASE Code
  <2>1. ASSUME NEW s \in Servers, Listen(s) PROVE Names'
    <3>1. /\ thread[s] = "none" /\ thread' = [thread EXCEPT ![s] = "top"]
          /\ UNCHANGED <<rules, where, backlog, reading, pending, cur, fd>>
      BY <2>1 DEF Listen, mainVars, socketVars
    <3>2. \A x : At(x)' = At(x)
      BY <3>1 DEF At
    <3>3. ThreadNames'
      BY <1>1, <3>1, <3>2, ThreadStays DEF Names
    <3> QED BY <3>1, <3>2, <3>3, Untouched DEF Names
  <2>2. CASE SetTimers
    <3>1. Still
      BY <2>2 DEF SetTimers, nameVars, acceptVars, mainVars, socketVars
    <3> QED BY <3>1, StillNamed
  <2>3. ASSUME NEW w \in Sockets, Close(w) PROVE Names'
    <3>1. /\ fd[w] # NoConn /\ Drop(w)
          /\ UNCHANGED <<rules, backlog, thread, reading, pending, cur>>
      BY <2>3 DEF Close, OfSocket, CloseSocket, acceptVars, mainVars
    <3> QED BY <1>1, <3>1, DropNames
  <2>4. CASE HandlerThrows
    BY <1>1, <2>4, ThrowNames
  <2> QED BY <1>4, <2>1, <2>2, <2>3, <2>4 DEF Code
<1>5. CASE MainStep
  <2>1. CASE Handle
    BY <1>1, <2>1, HandleNames
  <2>2. CASE EndEntry \/ EndCallback \/ Stream \/ UpgradeUnkeyed
    <3>1. Still
      BY <2>2 DEF EndEntry, EndCallback, Stream, UpgradeUnkeyed, nameVars, acceptVars, socketVars
    <3> QED BY <3>1, StillNamed
  <2>3. CASE Respond \/ EndStream \/ Refuse
    <3>1. Handling /\ Finish
      BY <2>3 DEF Respond, EndStream, Refuse, Handling
    <3> QED BY <1>1, <3>1, FinishNames
  <2>4. ASSUME NEW w \in Sockets, Upgrade(w) PROVE Names'
    <3>1. cur \in Clients
      BY <2>4 DEF Upgrade, TypeOK
    <3> QED BY <1>1, <2>4, <3>1, UpgradeNames
  <2>5. ASSUME NEW w \in Sockets, Visit(w) PROVE Names'
    <3>1. UNCHANGED <<rules, backlog, thread, reading, pending, cur>>
      BY <2>5 DEF Visit, acceptVars
    <3>2. \/ UNCHANGED <<where, fd>>
          \/ fd[w] # NoConn /\ Drop(w)
      BY <2>5 DEF Visit, Readable, AtEnd, ReadFrame, ReadEnd, socketVars
    <3>3. CASE UNCHANGED <<where, fd>>
      <4>1. Still
        BY <3>1, <3>3 DEF nameVars
      <4> QED BY <4>1, StillNamed
    <3> QED BY <1>1, <3>1, <3>2, <3>3, DropNames
  <2>6. CASE Drained \/ FireWhileHandling \/ PollEnds
    <3>1. Still
      BY <2>6 DEF Drained, FireWhileHandling, PollEnds, nameVars, acceptVars, socketVars
    <3> QED BY <3>1, StillNamed
  <2> QED BY <1>5, <2>1, <2>2, <2>3, <2>4, <2>5, <2>6 DEF MainStep
<1> QED BY <1>2, <1>3, <1>4, <1>5 DEF Next

-----------------------------------------------------------------------------
(* The main thread *)

MainTypes ==
  /\ g_server \in Servers \cup {NoServer}
  /\ pc \in Stages \cup {"entry", "handler", "stream", "waitKey", "callback"}
  /\ ret \in Stages \cup {"handler", "stream"}
  /\ cur \in Clients \cup {NoConn}
  /\ left \subseteq Sockets
  /\ timeouts \in 0..timersSet /\ timersSet \in 0..MaxTimers /\ interval \in BOOLEAN
Running == MainTypes /\ Busy

controlVars == <<g_server, pc, ret, cur, left, timeouts, timersSet, interval>>

(* The main thread does nothing. *)
LEMMA StillRunning == ASSUME Running, UNCHANGED controlVars PROVE Running'
<1>1. MainTypes'
  BY DEF Running, MainTypes, controlVars
<1>2. Busy'
  BY DEF Running, Busy, Handling, controlVars
<1> QED BY <1>1, <1>2 DEF Running

\* a timer that fires is one less, or an interval
(* A callback is called, and the stage to go on with is kept; *)
LEMMA FireFacts ==
  ASSUME MainTypes, NEW stage, FireThen(stage)
  PROVE  /\ pc' = "callback" /\ ret' = stage /\ left' \subseteq Sockets
         /\ timeouts' \in 0..timersSet' /\ timersSet' \in 0..MaxTimers /\ interval' \in BOOLEAN
<1>1. pc' = "callback" /\ ret' = stage /\ UNCHANGED <<timersSet, interval>>
  BY DEF FireThen, CallBack
<1>2. left' \subseteq Sockets
  BY DEF FireThen, Visits, Bound
<1>3. (timeouts > 0 /\ timeouts' = timeouts - 1) \/ timeouts' = timeouts
  BY DEF FireThen
<1>4. timeouts' \in 0..timersSet
  BY <1>3, HttpServerAssumption DEF MainTypes
<1> QED BY <1>1, <1>2, <1>4 DEF MainTypes

(* or none is, and the stage follows. *)
LEMMA TimersFacts ==
  ASSUME MainTypes, NEW stage, TimersThen(stage)
  PROVE  /\ (pc' = "callback" /\ ret' = stage) \/ (pc' = stage /\ ret' = ret)
         /\ left' \subseteq Sockets
         /\ timeouts' \in 0..timersSet' /\ timersSet' \in 0..MaxTimers /\ interval' \in BOOLEAN
<1>1. CASE FireThen(stage)
  BY <1>1, FireFacts
<1>2. CASE Enter(stage) /\ UNCHANGED <<timerVars, ret>>
  <2>1. pc' = stage /\ ret' = ret /\ UNCHANGED <<timeouts, timersSet, interval>>
    BY <1>2 DEF Enter, Goto, timerVars
  <2>2. left' \subseteq Sockets
    BY <1>2 DEF Enter, Visits, Bound
  <2> QED BY <2>1, <2>2 DEF MainTypes
<1> QED BY <1>1, <1>2 DEF TimersThen

(* Every step keeps what is known of the main thread. *)
LEMMA RunStep ==
  ASSUME TypeOK, Running, [Next]_vars PROVE Running'
<1> DEFINE Still == UNCHANGED controlVars
<1>1. CASE UNCHANGED vars
  <2>1. Still
    BY <1>1 DEF vars, controlVars, acceptVars, timerVars, mainVars
  <2> QED BY <2>1, StillRunning
<1>2. ASSUME NEW c \in Clients, ClientStep(c) PROVE Running'
  <2>1. Still
    BY <1>2 DEF ClientStep, Connect, SendRequest, OfSocket, controlVars, acceptVars, timerVars, mainVars
  <2> QED BY <2>1, StillRunning
<1>3. ASSUME NEW s \in Servers, ThreadStep(s) PROVE Running'
  <2>1. Still
    BY <1>3 DEF ThreadStep, Choose, Accept, ReadRequest, ReadNothing, controlVars, timerVars, mainVars
  <2> QED BY <2>1, StillRunning
<1>4. CASE Code
  <2>1. ASSUME NEW s \in Servers, Listen(s) PROVE Running'
    <3>1. g_server' = s /\ UNCHANGED <<pc, ret, cur, left, timeouts, timersSet, interval>>
      BY <2>1 DEF Listen, timerVars, mainVars
    <3>2. MainTypes'
      BY <3>1 DEF Running, MainTypes
    <3>3. Busy'
      BY <3>1 DEF Running, Busy, Handling
    <3> QED BY <3>2, <3>3 DEF Running
  <2>2. CASE SetTimers
    <3>1. UNCHANGED <<g_server, pc, ret, cur, left>>
      BY <2>2 DEF SetTimers, acceptVars, mainVars
    <3>2. \/ timersSet < MaxTimers /\ timersSet' = timersSet + 1 /\ timeouts' = timeouts + 1 /\ UNCHANGED interval
          \/ interval' = TRUE /\ UNCHANGED <<timersSet, timeouts>>
      BY <2>2 DEF SetTimers
    <3>3. timeouts' \in 0..timersSet' /\ timersSet' \in 0..MaxTimers
      BY <3>2, HttpServerAssumption DEF Running, MainTypes
    <3>4. interval' \in BOOLEAN
      BY <3>2 DEF Running, MainTypes
    <3>5. MainTypes'
      BY <3>1, <3>3, <3>4 DEF Running, MainTypes
    <3>6. Busy'
      BY <3>1 DEF Running, Busy, Handling
    <3> QED BY <3>5, <3>6 DEF Running
  <2>3. ASSUME NEW w \in Sockets, Close(w) PROVE Running'
    <3>1. Still
      BY <2>3 DEF Close, OfSocket, controlVars, acceptVars, timerVars, mainVars
    <3> QED BY <3>1, StillRunning
  <2>4. CASE HandlerThrows
    <3>1. /\ pc' = "entry" /\ ret' = "drain" /\ cur' = NoConn
          /\ UNCHANGED <<g_server, left, timeouts, timersSet, interval>>
      BY <2>4 DEF HandlerThrows, Goto, acceptVars, timerVars
    <3>2. MainTypes'
      BY <3>1 DEF Running, MainTypes, Stages
    <3>3. Busy'
      BY <3>1 DEF Busy, Handling
    <3> QED BY <3>2, <3>3 DEF Running
  <2> QED BY <1>4, <2>1, <2>2, <2>3, <2>4 DEF Code
<1>5. CASE MainStep
  <2> DEFINE Timers == timeouts' \in 0..timersSet' /\ timersSet' \in 0..MaxTimers /\ interval' \in BOOLEAN
  <2>0. UNCHANGED timerVars => Timers
    BY DEF Running, MainTypes, timerVars
  <2> HIDE DEF Timers
  <2>1. ASSUME UNCHANGED g_server, pc' \in Stages, ret' \in Stages \cup {"handler", "stream"}, cur' = NoConn,
               left' \subseteq Sockets, Timers
        PROVE  Running'
    BY <2>1 DEF Running, MainTypes, Busy, Handling, Stages, Timers
  <2>2. ASSUME UNCHANGED g_server, pc' = "callback", ret' \in Stages, cur' = NoConn, left' \subseteq Sockets, Timers
        PROVE  Running'
    BY <2>2 DEF Running, MainTypes, Busy, Handling, Stages, Timers
  <2>3. ASSUME UNCHANGED g_server, pc' \in {"handler", "stream", "waitKey"}, ret' \in Stages \cup {"handler", "stream"},
               cur' \in Clients, left' \subseteq Sockets, Timers
        PROVE  Running'
    BY <2>3, HttpServerAssumption DEF Running, MainTypes, Busy, Handling, Timers
  <2>4. ASSUME UNCHANGED g_server, pc' = "callback", ret' \in {"handler", "stream"},
               cur' \in Clients, left' \subseteq Sockets, Timers
        PROVE  Running'
    BY <2>4, HttpServerAssumption DEF Running, MainTypes, Busy, Handling, Timers
  <2>5. /\ pc \in Stages \cup {"entry"} => cur = NoConn
        /\ pc \in {"handler", "stream", "waitKey"} => cur \in Clients
        /\ left \subseteq Sockets /\ ret \in Stages \cup {"handler", "stream"}
    BY DEF Running, MainTypes, Busy, Handling, Stages
  <2>6. CASE EndEntry
    <3>1. pc' = "poll2" /\ left' \subseteq Sockets /\ UNCHANGED <<g_server, timerVars, ret, cur>>
      BY <2>6 DEF EndEntry, Enter, Goto, Visits, Bound, acceptVars
    <3> QED BY <2>0, <2>1, <2>5, <2>6, <3>1 DEF EndEntry, Stages
  <2>7. CASE EndCallback
    <3>1. pc = "callback" /\ pc' = ret /\ ret' = "drain" /\ UNCHANGED <<g_server, timerVars, cur, left>>
      BY <2>7 DEF EndCallback, Goto, acceptVars
    <3>2. CASE ret \in Stages
      <4>1. cur = NoConn
        BY <3>1, <3>2 DEF Running, Busy, Handling, Stages
      <4> QED BY <2>0, <2>1, <2>5, <3>1, <3>2, <4>1 DEF Stages
    <3>3. CASE ret \in {"handler", "stream"}
      <4>1. cur \in Clients
        BY <3>1, <3>3 DEF Running, MainTypes, Busy, Handling
      <4> QED BY <2>0, <2>3, <2>5, <3>1, <3>3, <4>1 DEF Stages
    <3> QED BY <2>5, <3>2, <3>3
  <2>8. CASE Handle
    <3>1. /\ pc' = "handler" /\ cur' = Head(pending) /\ pending # <<>>
          /\ UNCHANGED <<g_server, timerVars, ret, left>>
      BY <2>8 DEF Handle, Goto
    <3>2. cur' \in Clients
      BY <3>1, TailFacts DEF TypeOK
    <3> QED BY <2>0, <2>3, <2>5, <3>1, <3>2
  <2>9. CASE Respond \/ EndStream \/ Refuse
    <3>1. pc' = "drain" /\ cur' = NoConn /\ UNCHANGED <<g_server, timerVars, ret, left>>
      BY <2>9 DEF Respond, EndStream, Refuse, Finish, Goto, acceptVars
    <3> QED BY <2>0, <2>1, <2>5, <3>1 DEF Stages
  <2>10. CASE Stream \/ UpgradeUnkeyed
    <3>1. /\ pc = "handler" /\ pc' \in {"stream", "waitKey"}
          /\ UNCHANGED <<g_server, timerVars, ret, cur, left>>
      BY <2>10 DEF Stream, UpgradeUnkeyed, Goto, acceptVars
    <3> QED BY <2>0, <2>3, <2>5, <3>1
  <2>11. ASSUME NEW w \in Sockets, Upgrade(w) PROVE Running'
    <3>1. pc' = "callback" /\ ret' = "drain" /\ cur' = NoConn /\ UNCHANGED <<g_server, timerVars, left>>
      BY <2>11 DEF Upgrade, CallBack, acceptVars
    <3> QED BY <2>0, <2>2, <2>5, <3>1 DEF Stages
  <2>12. ASSUME NEW w \in Sockets, Visit(w) PROVE Running'
    <3>1. /\ pc \in {"poll", "poll2"} /\ left' = left \ {w}
          /\ UNCHANGED <<g_server, timerVars, cur>>
          /\ (pc' = "callback" /\ ret' = pc) \/ (pc' = pc /\ ret' = ret)
      BY <2>12 DEF Visit, CallBack, acceptVars
    <3> QED BY <2>0, <2>1, <2>2, <2>5, <3>1 DEF Stages
  <2>13. CASE Drained
    <3>1. /\ pc = "drain" /\ UNCHANGED <<g_server, cur>>
          /\ \E stage \in {"poll", "poll2"} : TimersThen(stage)
      BY <2>13 DEF Drained, acceptVars
    <3>2. PICK stage \in {"poll", "poll2"} : TimersThen(stage)
      BY <3>1
    <3>3. /\ (pc' = "callback" /\ ret' = stage) \/ (pc' = stage /\ ret' = ret)
          /\ left' \subseteq Sockets /\ Timers
      BY <3>2, TimersFacts DEF Running, Timers
    <3> QED BY <2>1, <2>2, <2>5, <3>1, <3>3 DEF Stages
  <2>14. CASE FireWhileHandling
    <3>1. PICK stage \in {"handler", "stream"} : pc = stage /\ FireThen(stage) /\ UNCHANGED <<g_server, cur>>
      BY <2>14 DEF FireWhileHandling, acceptVars
    <3>2. pc' = "callback" /\ ret' = stage /\ left' \subseteq Sockets /\ Timers
      BY <3>1, FireFacts DEF Running, Timers
    <3> QED BY <2>4, <2>5, <3>1, <3>2
  <2>15. CASE PollEnds
    <3>1. /\ pc \in {"poll", "poll2"} /\ UNCHANGED <<g_server, cur>>
          /\ TimersThen("poll2") \/ (Enter("drain") /\ UNCHANGED <<timerVars, ret>>)
      BY <2>15 DEF PollEnds, acceptVars
    <3>2. CASE TimersThen("poll2")
      <4>1. /\ (pc' = "callback" /\ ret' = "poll2") \/ (pc' = "poll2" /\ ret' = ret)
            /\ left' \subseteq Sockets /\ Timers
        BY <3>2, TimersFacts DEF Running, Timers
      <4> QED BY <2>1, <2>2, <2>5, <3>1, <4>1 DEF Stages
    <3>3. CASE Enter("drain") /\ UNCHANGED <<timerVars, ret>>
      <4>1. pc' = "drain" /\ left' \subseteq Sockets
        BY <3>3 DEF Enter, Goto, Visits, Bound
      <4> QED BY <2>0, <2>1, <2>5, <3>1, <3>3, <4>1 DEF Stages
    <3> QED BY <3>1, <3>2, <3>3
  <2> QED BY <1>5, <2>6, <2>7, <2>8, <2>9, <2>10, <2>11, <2>12, <2>13, <2>14, <2>15 DEF MainStep
<1> QED BY <1>1, <1>2, <1>3, <1>4, <1>5 DEF Next

-----------------------------------------------------------------------------
(* What the invariant says of each connection *)

(* A connection is named at most once: by whom it is, or by nobody. *)
LEMMA OneHolderHolds == ASSUME TypeOK, Names, Accounted PROVE OneHolder
<1> SUFFICES ASSUME NEW c \in Clients
             PROVE  /\ closes[c] = IF where[c] = "closed" THEN 1 ELSE 0
                    /\ Cardinality(HoldersOf(c)) <= 1
                    /\ where[c] \in {"new", "closed", "lost"} => HoldersOf(c) = {}
                    /\ {"fresh", "contained"} \subseteq rules =>
                         where[c] \in {"new", "closed"} \/ HoldersOf(c) # {}
  BY DEF OneHolder
<1> DEFINE H == HoldersOf(c)
<1>1. /\ \A s \in Servers : c \in Range(backlog[s]) => where[c] = "backlog"
      /\ \A s \in Servers : reading[s] = c => where[c] = "reading"
      /\ \A i \in DOMAIN pending : pending[i] = c => where[c] = "pending"
      /\ cur = c => where[c] = "current"
      /\ \A w \in Sockets : fd[w] = c => where[c] = "ws"
  <2>1. Named /\ c # NoConn
    BY NamesNamed, HttpServerAssumption
  <2> QED BY <2>1 DEF Named, At, Range
<1>2. \A x \in H :
        \/ \E s \in Servers : x = <<"backlog", s>> /\ c \in Range(backlog[s])
        \/ \E s \in Servers : x = <<"thread", s>> /\ reading[s] = c
        \/ \E i \in DOMAIN pending : x = <<"queue", i>> /\ pending[i] = c
        \/ x = <<"main", c>> /\ cur = c
        \/ \E w \in Sockets : x = <<"socket", w>> /\ fd[w] = c
  BY DEF HoldersOf
<1> HIDE DEF H
<1>3. ASSUME NEW x \in H, NEW y \in H PROVE x = y
  <2>1. CASE where[c] = "backlog"
    <3>1. PICK s \in Servers : x = <<"backlog", s>> /\ c \in Range(backlog[s])
      BY <1>1, <1>2, <2>1
    <3>2. PICK t \in Servers : y = <<"backlog", t>> /\ c \in Range(backlog[t])
      BY <1>1, <1>2, <2>1
    <3>3. s = t
      BY <3>1, <3>2 DEF Names, BacklogNames
    <3> QED BY <3>1, <3>2, <3>3
  <2>2. CASE where[c] = "reading"
    <3>1. PICK s \in Servers : x = <<"thread", s>> /\ reading[s] = c
      BY <1>1, <1>2, <2>2
    <3>2. PICK t \in Servers : y = <<"thread", t>> /\ reading[t] = c
      BY <1>1, <1>2, <2>2
    <3>3. s = t
      BY <3>1, <3>2, HttpServerAssumption DEF Names, ThreadNames
    <3> QED BY <3>1, <3>2, <3>3
  <2>3. CASE where[c] = "pending"
    <3>1. PICK i \in DOMAIN pending : x = <<"queue", i>> /\ pending[i] = c
      BY <1>1, <1>2, <2>3
    <3>2. PICK j \in DOMAIN pending : y = <<"queue", j>> /\ pending[j] = c
      BY <1>1, <1>2, <2>3
    <3>3. i = j
      BY <3>1, <3>2 DEF Names, QueueNames, IsInjective
    <3> QED BY <3>1, <3>2, <3>3
  <2>4. CASE where[c] = "ws"
    <3>1. PICK v \in Sockets : x = <<"socket", v>> /\ fd[v] = c
      BY <1>1, <1>2, <2>4
    <3>2. PICK w \in Sockets : y = <<"socket", w>> /\ fd[w] = c
      BY <1>1, <1>2, <2>4
    <3>3. v = w
      BY <3>1, <3>2, HttpServerAssumption DEF Names, SocketNames
    <3> QED BY <3>1, <3>2, <3>3
  <2>5. CASE where[c] \notin {"backlog", "reading", "pending", "ws"}
    BY <1>1, <1>2, <2>5
  <2> QED BY <2>1, <2>2, <2>3, <2>4, <2>5
<1>4. Cardinality(H) <= 1
  <2>1. CASE H = {}
    BY <2>1, FS_EmptySet
  <2>2. CASE H # {}
    <3>1. PICK x \in H : H = {x}
      BY <1>3, <2>2
    <3>2. Cardinality({x}) = 1
      BY FS_Singleton
    <3> QED BY <3>1, <3>2
  <2> QED BY <2>1, <2>2
<1>5. where[c] \in {"new", "closed", "lost"} => H = {}
  BY <1>1, <1>2
<1>6. ASSUME {"fresh", "contained"} \subseteq rules, where[c] \notin {"new", "closed"}
      PROVE  H # {}
  <2>1. CASE where[c] = "backlog"
    <3>1. PICK s \in Servers : c \in Range(backlog[s])
      BY <2>1 DEF Names, BacklogNames, At
    <3> QED BY <3>1 DEF H, HoldersOf
  <2>2. CASE where[c] = "reading"
    <3>1. c \in Range(reading) /\ DOMAIN reading = Servers
      BY <2>2 DEF Names, ThreadNames, At, TypeOK
    <3>2. PICK s \in Servers : reading[s] = c
      BY <3>1 DEF Range
    <3> QED BY <3>2 DEF H, HoldersOf
  <2>3. CASE where[c] = "pending"
    <3>1. PICK i \in DOMAIN pending : pending[i] = c
      BY <2>3 DEF Names, QueueNames, At, Range
    <3> QED BY <3>1 DEF H, HoldersOf
  <2>4. CASE where[c] = "current"
    <3>1. cur = c
      BY <2>4 DEF Names, MainNames, At
    <3> QED BY <3>1 DEF H, HoldersOf
  <2>5. CASE where[c] = "ws"
    <3>1. c \in Range(fd) /\ DOMAIN fd = Sockets
      BY <1>6, <2>5 DEF Names, SocketNames, At, TypeOK, SocketTypeOK
    <3>2. PICK w \in Sockets : fd[w] = c
      BY <3>1 DEF Range
    <3> QED BY <3>2 DEF H, HoldersOf
  <2>6. where[c] # "lost"
    BY <1>6 DEF Names, NoneLost, At
  <2> QED BY <1>6, <2>1, <2>2, <2>3, <2>4, <2>5, <2>6 DEF TypeOK, SocketTypeOK
<1> QED BY <1>4, <1>5, <1>6 DEF Accounted, H

(* After onopen come the messages, and what they are is in WholeFrames. *)
LEMMA FramesInOrderHolds ==
  ASSUME SocketTypeOK, EventsOfConnection, WholeFrames PROVE FramesInOrder
<1> SUFFICES ASSUME "whole" \in rules, NEW c \in Clients
             PROVE  LET messages == {i \in DOMAIN log[c] : log[c][i][1] = "message"}
                    IN /\ \A i \in messages : log[c][i][2] = i - 1
                       /\ \A i \in DOMAIN inbox[c] : inbox[c][i].frame = Cardinality(messages) + i
                       /\ sent[c] = Cardinality(messages) + Len(inbox[c])
  BY DEF FramesInOrder
<1> DEFINE l == log[c]
           q == inbox[c]
           messages == {i \in DOMAIN l : l[i][1] = "message"}
           n == Len(l)
           h == Heard(c)
<1>1. /\ l \in Seq(Entries) /\ n \in Nat /\ DOMAIN l = 1..n /\ (l = <<>> <=> n = 0)
      /\ \A i \in 1..n : l[i] \in Entries
      /\ q \in Seq(Frame) /\ DOMAIN q = 1..Len(q) /\ Len(q) \in Nat
  BY TypesOf
<1>2. \A i \in 1..n : l[i][1] \in {"open", "message", "close"}
  BY <1>1 DEF Entries
<1>3. \A i \in 1..n : /\ l[i][1] = "open" <=> i = 1
                      /\ l[i][1] = "close" <=> i = n /\ where[c] = "closed"
  BY DEF EventsOfConnection
<1>4. /\ \A i \in 1..n : l[i][1] = "message" => l[i][2] = i - 1
      /\ \A i \in 1..Len(q) : q[i] = [frame |-> h + i, part |-> "whole"]
      /\ sent[c] = h + Len(q)
  BY DEF WholeFrames
<1>5. h = IF n = 0 THEN 0 ELSE n - (IF where[c] = "closed" THEN 2 ELSE 1)
  BY <1>1 DEF Heard
<1> HIDE DEF l, q, n, h
<1>6. h \in Nat /\ (n # 0 /\ where[c] = "closed" => n >= 2)
  <2>1. n = 1 => where[c] # "closed"
    BY <1>3
  <2> QED BY <1>1, <1>5, <2>1
<1>7. messages = 2..h + 1
  <2>1. \A i \in 1..n : l[i][1] = "message" <=> i # 1 /\ ~(i = n /\ where[c] = "closed")
    BY <1>2, <1>3
  <2>2. \A i \in 1..n : (i # 1 /\ ~(i = n /\ where[c] = "closed")) <=> i \in 2..h + 1
    BY <1>1, <1>5, <1>6
  <2>3. 2..h + 1 \subseteq 1..n
    BY <1>1, <1>5, <1>6
  <2> QED BY <1>1, <2>1, <2>2, <2>3
<1>8. Cardinality(messages) = h
  <2>1. Cardinality(2..h + 1) = IF 2 <= h + 1 THEN h + 1 - 2 + 1 ELSE 0
    BY <1>6, FS_Interval
  <2>2. (IF 2 <= h + 1 THEN h + 1 - 2 + 1 ELSE 0) = h
    BY <1>6
  <2> HIDE DEF messages
  <2> QED BY <1>7, <2>1, <2>2
<1>9. \A i \in messages : l[i][2] = i - 1
  BY <1>1, <1>4
<1> HIDE DEF messages
<1>10. \A i \in DOMAIN q : q[i].frame = Cardinality(messages) + i
  BY <1>1, <1>4, <1>8
<1>11. sent[c] = Cardinality(messages) + Len(q)
  BY <1>4, <1>8
<1> QED BY <1>9, <1>10, <1>11 DEF l, q, messages

-----------------------------------------------------------------------------
(* Connections *)

ServerProofInv == LineInv /\ TypeOK /\ Names /\ Busy /\ Stories

(* The invariant holds before the first client, *)
LEMMA InitServer == Init => ServerProofInv
<1> SUFFICES ASSUME Init PROVE ServerProofInv
  OBVIOUS
<1>1. LineInv
  BY InitLine
<1>2. TypeOK
  <2>1. SocketTypeOK
    <3>1. \A S : <<>> \in Seq(S)
      OBVIOUS
    <3> QED BY <3>1 DEF Init, SocketInit, SocketTypeOK
  <2>2. timeouts \in 0..timersSet /\ timersSet \in 0..MaxTimers
    BY HttpServerAssumption DEF Init
  <2> QED BY <1>1, <2>1, <2>2 DEF LineInv, LineTypes, Init, TypeOK, Stages
<1>3. DOMAIN pending = {} /\ \A s \in Servers : DOMAIN backlog[s] = {}
  BY DEF Init
<1>4. \A x : x # "new" => At(x) = {}
  BY DEF Init, SocketInit, At
<1>5. BacklogNames
  BY <1>3, <1>4 DEF BacklogNames, IsInjective, Range
<1>6. ThreadNames
  BY <1>4 DEF Init, ThreadNames, Range
<1>7. QueueNames /\ MainNames
  BY <1>3, <1>4 DEF Init, QueueNames, MainNames, IsInjective, Range
<1>8. SocketNames /\ NoneLost
  BY <1>4 DEF Init, SocketInit, SocketNames, NoneLost, Range
<1>9. Busy
  BY DEF Init, Busy, Handling
<1>10. Stories
  <2> SUFFICES ASSUME NEW c \in Clients PROVE GoodAt(c)
    BY DEF Stories, Init, SocketInit
  <2>1. where[c] = "new" /\ closes[c] = 0 /\ log[c] = <<>> /\ inbox[c] = <<>> /\ sent[c] = 0
    BY DEF Init, SocketInit
  <2>2. Len(<<>>) = 0
    OBVIOUS
  <2>3. Story("new", <<>>) /\ Frames("new", <<>>, <<>>, 0)
    BY <2>2 DEF Story, Frames, Count
  <2> QED BY <2>1, <2>3 DEF GoodAt, Good
<1> QED BY <1>1, <1>2, <1>5, <1>6, <1>7, <1>8, <1>9, <1>10 DEF ServerProofInv, Names

(* and every step keeps it. *)
LEMMA ServerStep == ServerProofInv /\ [Next]_vars => ServerProofInv'
<1> SUFFICES ASSUME ServerProofInv, [Next]_vars PROVE ServerProofInv'
  OBVIOUS
<1> USE DEF ServerProofInv
<1>1. LineInv'
  BY LineStep
<1>2. Running /\ SocketTypeOK /\ LineTypes /\ Named
  BY NamesNamed DEF Running, MainTypes, TypeOK, LineInv
<1>3. Running'
  BY <1>2, RunStep
<1>4. UNCHANGED <<rules, keyed>> /\ SocketKind
  <2>1. CASE UNCHANGED vars
    BY <2>1 DEF vars, SocketKind
  <2>2. CASE Next
    BY <1>2, <2>2, KindOfStep
  <2> QED BY <2>1, <2>2
<1>5. SocketTypeOK' /\ Stories'
  BY <1>2, <1>4, StoryStep
<1>6. Names'
  <2>1. CASE UNCHANGED vars
    BY <2>1, StillNamed DEF vars, nameVars, socketVars, acceptVars, mainVars
  <2>2. CASE Next
    BY <1>2, <2>2, NamesStep
  <2> QED BY <2>1, <2>2
<1>7. TypeOK'
  <2>1. rules' \in Programs /\ keyed' \subseteq Clients
    BY <1>4 DEF TypeOK
  <2> QED BY <1>1, <1>3, <1>5, <2>1 DEF TypeOK, Running, MainTypes, LineInv, LineTypes
<1> QED BY <1>1, <1>3, <1>5, <1>6, <1>7 DEF Running

(* Whatever program and clients do, a connection has at most one holder from the
   kernel to its close and is closed once, its handlers see onopen, messages and
   onclose in that order, and frames that arrive whole are delivered once, in order.
   It always has a holder if upgrades use fresh objects and handlers do not throw. *)
THEOREM ConnectionsSafe == Spec => []ServerInv
<1>1. ServerProofInv => ServerInv
  <2> SUFFICES ASSUME ServerProofInv PROVE ServerInv
    OBVIOUS
  <2>1. Accounted /\ EventsOfConnection /\ WholeFrames
    BY StoriesMean DEF ServerProofInv, TypeOK
  <2>2. OneHolder /\ FramesInOrder
    BY <2>1, OneHolderHolds, FramesInOrderHolds DEF ServerProofInv, TypeOK
  <2> QED BY <2>1, <2>2 DEF ServerInv, ServerProofInv
<1> QED BY <1>1, InitServer, ServerStep, PTL DEF Spec

=============================================================================
