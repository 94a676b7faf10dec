---------------------------- MODULE ExchangeProofs ----------------------------
(***************************************************************************)
(* The conversation of a call with its handler, for any number of nodes    *)
(* and calls, any faults and any number of crashes: nobody waits for an    *)
(* answer that cannot come, and texts are delivered as TextDelivery says.  *)
(***************************************************************************)
EXTENDS DeviceProofs

\* The handler has not received anything; it is about to leave or has left.
Before == {"none", "register", "trust", "first"}
After == {"exit", "done", "killed"}

\* An accept loop finishes one handshake before it takes up the next.
OneHandshake ==
    \A c \in Call : link[c] \in {"handshake", "finished"} =>
        /\ acceptor[at[c]] = "busy"
        /\ \A d \in Call : at[d] = at[c] /\ link[d] \in {"handshake", "finished"} => d = c

\* An accept loop is busy with a handshake.
Occupied ==
    \A n \in Node : acceptor[n] = "busy" =>
        \E c \in Call : at[c] = n /\ link[c] \in {"handshake", "finished"}

\* The client of a handshake is still at it, unless an end has closed.
Shaking ==
    \A c \in Call : link[c] \in {"queued", "handshake"} =>
        clientPC[c] = "tls" \/ open[c] # Ends

\* A call that has shaken hands has a handler, unless the accept loop is still to
\* start it or has lost the connection.
Handshaken ==
    \A c \in Call :
        clientPC[c] \in {"connected", "await"} /\ handlerPC[c] = "none"
        => link[c] = "finished" \/ "server" \notin open[c]

\* The first message of a call, and the answer to it.
Opening(c) == IF kind[c] = "pair" THEN "PAIR" ELSE "HELLO"

\* Where the two ends of a conversation may be together, and what is under way
\* then.  Nobody has said anything yet;
Silent(c) ==
    /\ toServer[c] = <<>> /\ toClient[c] = <<>>
    /\ handlerPC[c] \in Before \cup After
    /\ open[c] = Ends => handlerPC[c] \in Before

\* the caller waits for the answer to its first message;
Opened(c) ==
    /\ toServer[c] \in {<<>>, <<Opening(c)>>}
    /\ toClient[c] \in {<<>>, <<Opening(c)>>}
    /\ toServer[c] # <<>> => toClient[c] = <<>> /\ handlerPC[c] \in Before \cup After
    /\ toClient[c] # <<>> => handlerPC[c] \in {"loop"} \cup After
    /\ kind[c] = "pair" => handlerPC[c] \notin {"hello", "loop"}
    /\ open[c] = Ends =>
        \/ toClient[c] # <<>> /\ (kind[c] = "pair" \/ handlerPC[c] = "loop")
        \/ toServer[c] # <<>> /\ handlerPC[c] \in Before
        \/ toClient[c] = <<>> /\ handlerPC[c] \in {"decide", "store", "reply", "hello", "exit"}

\* the answer has been read, and the handler waits for more;
Greeted(c) ==
    /\ kind[c] # "pair"
    /\ toServer[c] = <<>> /\ toClient[c] = <<>>
    /\ handlerPC[c] \in {"loop"} \cup After
    /\ open[c] = Ends => handlerPC[c] = "loop"

\* or a ping is to be answered.
Pinging(c) ==
    /\ kind[c] = "session"
    /\ toServer[c] \in {<<>>, <<"PING">>}
    /\ toClient[c] \in {<<>>, <<"PONG">>}
    /\ toServer[c] = <<>> \/ toClient[c] = <<>>
    /\ handlerPC[c] \in {"loop"} \cup After
    /\ open[c] = Ends => handlerPC[c] = "loop" /\ (toServer[c] # <<>> \/ toClient[c] # <<>>)

Talk(c) ==
    /\ clientPC[c] \in {"idle", "dial", "tls", "connected"} => Silent(c)
    /\ clientPC[c] = "await" => Opened(c)
    /\ clientPC[c] \in {"text", "held"} => Greeted(c)
    /\ clientPC[c] = "pinged" => Pinging(c)
    /\ clientPC[c] = "text" => kind[c] = "send"
    /\ clientPC[c] = "held" => kind[c] = "session"

Dialogue == \A c \in Call : Talk(c)

\* A text is under way or received only once SendText has said so, and once.
Post(c) ==
    /\ clientPC[c] \in {"unwind", "done"} => toServer[c] \in {<<>>, <<"HELLO">>, <<"MESSAGE">>}
    /\ toServer[c] = <<"MESSAGE">> => outcome[c] = "ok" /\ inbox[c] = "none"
    /\ inbox[c] # "none" => outcome[c] = "ok"

Posted == \A c \in SendCall : Post(c)

\* A call holds its end until it is done with it, so that the handler is in its loop
\* when the text is written; from then on it is the handler that must act.
Wait(c) ==
    /\ clientPC[c] \in {"tls", "connected", "await", "text"} => "client" \in open[c]
    /\ outcome[c] = "ok" /\ inbox[c] = "none" /\ "server" \in open[c]
          => /\ toServer[c] = <<"MESSAGE">> /\ toClient[c] = <<>>
             /\ handlerPC[c] = "loop"

Waited == \A c \in SendCall : Wait(c)

\* What holds of every reachable state.
ExchangeInv ==
    /\ IInv
    /\ OneHandshake /\ Occupied /\ Shaking /\ Handshaken
    /\ Dialogue /\ Posted /\ Waited

-----------------------------------------------------------------------------
(* What a step leaves alone, and what closing a connection does *)

\* Nothing of the connection of call d changes.
Kept(d) ==
    /\ clientPC'[d] = clientPC[d] /\ outcome'[d] = outcome[d]
    /\ handlerPC'[d] = handlerPC[d] /\ inbox'[d] = inbox[d]
    /\ open'[d] = open[d] /\ toServer'[d] = toServer[d] /\ toClient'[d] = toClient[d]
    /\ link'[d] = link[d]

\* An end of the connection closes.  What was sent to the server stays unless that
\* end is closed too or the client has left something unread.
Severed(d) ==
    /\ open'[d] # Ends /\ open'[d] \subseteq open[d]
    /\ toServer'[d] \in {<<>>, toServer[d]}
    /\ toClient'[d] \in {<<>>, toClient[d]}
    /\ "server" \in open'[d] /\ toClient[d] = <<>>
          => toServer'[d] = toServer[d] /\ toClient'[d] = <<>>

\* Then no goroutine goes on as if its end had not closed.
Cut(d) ==
    /\ Severed(d)
    /\ \/ handlerPC'[d] = handlerPC[d]
       \/ /\ handlerPC[d] # "none" /\ handlerPC'[d] \in After
          /\ "server" \notin open'[d]
    /\ clientPC'[d] \in {clientPC[d], "unwind", "done"}
    /\ "client" \in open[d] \ open'[d] => clientPC'[d] \in {"unwind", "done"}
    /\ outcome'[d] = "ok" <=> outcome[d] = "ok"
    /\ inbox'[d] = inbox[d]

\* Closing ends cuts the connections they belong to,
LEMMA DisconnectCuts ==
    ASSUME NEW C, NEW S, NEW d \in Call, d \in C \/ d \in S, Disconnect(C, S)
    PROVE  /\ Severed(d)
           /\ d \notin C => "client" \notin open[d] \ open'[d]
           /\ d \in S => "server" \notin open'[d]
  BY DEF Disconnect, Ends, Severed

\* and no others.
LEMMA DisconnectKeeps ==
    ASSUME NEW C, NEW S, NEW d \in Call, d \notin C, d \notin S, Disconnect(C, S)
    PROVE  open'[d] = open[d] /\ toServer'[d] = toServer[d] /\ toClient'[d] = toClient[d]
  BY DEF Disconnect

\* A message written to a connection leaves the other connections alone.
LEMMA SendKeeps ==
    ASSUME NEW c \in Call, NEW d \in Call, NEW m, d # c, Shape
    PROVE  /\ SendToServer(c, m) => toServer'[d] = toServer[d]
           /\ SendToClient(c, m) => toClient'[d] = toClient[d]
  BY DEF SendToServer, SendToClient, Shape

\* A step of a call leaves the other calls alone.
LEMMA CallKeeps ==
    ASSUME Shape, NEW c \in Call, CallStep(c), NEW d \in Call, d # c
    PROVE  Kept(d)
  <1> USE DEF Kept, netVars, nodeVars, callVars, handlerVars, trustVars,
              ClientGoto, ClientFail, ClientDone
  <1>1. CASE PairBegin(c) \/ SendTextBegin(c) \/ Dial(c) \/ VerifyServer(c)
    BY <1>1 DEF PairBegin, SendTextBegin, Dial, VerifyServer, TcpConnect, Shape
  <1>2. CASE ConnectFails(c) \/ Unwind(c)
    <2>1. Disconnect({c}, {})
      BY <1>2 DEF ConnectFails, Unwind
    <2>2. open'[d] = open[d] /\ toServer'[d] = toServer[d] /\ toClient'[d] = toClient[d]
      BY <2>1, DisconnectKeeps
    <2> QED
      BY <1>2, <2>2 DEF ConnectFails, Unwind, Shape
  <1>3. CASE SendIdentity(c) \/ SendHello(c) \/ SendText(c) \/ SessionPing(c)
    BY <1>3, SendKeeps
    DEF SendIdentity, SendHello, SendText, SessionPing, ClientSend, Shape
  <1>4. CASE ExchangeReceive(c) \/ ExpectHello(c) \/ SessionPong(c)
    BY <1>4 DEF ExchangeReceive, ExpectHello, SessionPong, ClientReads, Shape
  <1>5. CASE AwaitFails(c) \/ Approve(c) \/ Confirm(c) \/ SessionEOF(c) \/ SessionHangUp(c)
    BY <1>5 DEF AwaitFails, Approve, Confirm, SessionEOF, SessionHangUp, Shape
  <1> QED
    BY <1>1, <1>2, <1>3, <1>4, <1>5 DEF CallStep, ClientStep

\* A step of a handler leaves the other calls alone.
LEMMA HandlerKeeps ==
    ASSUME Shape, NEW c \in Call, HandlerStep(c), NEW d \in Call, d # c
    PROVE  Kept(d)
  <1> USE DEF Kept, netVars, nodeVars, callVars, handlerVars, trustVars,
              HandlerGoto
  <1>1. CASE Register(c) \/ ReadTrust(c) \/ ReceiveFails(c) \/ DecidePair(c) \/ StorePair(c)
    BY <1>1 DEF Register, ReadTrust, ReceiveFails, DecidePair, StorePair, Shape
  <1>2. CASE ReceiveFirst(c) \/ LoopMessage(c)
    BY <1>2 DEF ReceiveFirst, LoopMessage, ServerReads, Shape
  <1>3. CASE ReplyHello(c) \/ LoopPing(c) \/ ReplyPair(c)
    BY <1>3, SendKeeps DEF ReplyHello, LoopPing, ReplyPair, ServerReads, Shape
  <1>4. CASE HandlerExit(c)
    <2>1. Disconnect({}, {c})
      BY <1>4 DEF HandlerExit
    <2>2. open'[d] = open[d] /\ toServer'[d] = toServer[d] /\ toClient'[d] = toClient[d]
      BY <2>1, DisconnectKeeps
    <2> QED
      BY <1>4, <2>2 DEF HandlerExit, Shape
  <1> QED
    BY <1>1, <1>2, <1>3, <1>4 DEF HandlerStep

\* A step of a node leaves a call alone or cuts its connection, unless it takes the
\* connection up.
LEMMA NodeKeeps ==
    ASSUME Shape, NEW n \in Node, NodeStep(n), NEW d \in Call
    PROVE  Kept(d) \/ Cut(d) \/ AcceptRaw(n, d) \/ AcceptDone(n, d)
  <1> USE DEF Kept, Cut, netVars, nodeVars, callVars, handlerVars, trustVars
  <1>1. CASE Start(n) \/ CloseStore(n) \/ AcceptClosed(n)
             \/ \E h \in Callback : InstallHandler(n, h)
    BY <1>1 DEF Start, CloseStore, AcceptClosed, InstallHandler, Shape
  <1>2. CASE CloseListener(n)
    <2> DEFINE queued == {c \in Call : at[c] = n /\ link[c] = "queued"}
    <2>1. Disconnect({}, queued)
      BY <1>2 DEF CloseListener
    <2>2. CASE d \in queued
      <3>1. Severed(d) /\ "client" \notin open[d] \ open'[d]
        BY <2>1, <2>2, DisconnectCuts
      <3> QED
        BY <1>2, <3>1 DEF CloseListener, Shape
    <2>3. CASE d \notin queued
      <3>1. open'[d] = open[d] /\ toServer'[d] = toServer[d] /\ toClient'[d] = toClient[d]
        BY <2>1, <2>3, DisconnectKeeps
      <3> QED
        BY <1>2, <2>3, <3>1 DEF CloseListener, Shape
    <2> QED
      BY <2>2, <2>3
  <1>3. CASE CloseConns(n)
    <2>1. Disconnect({}, conns[n])
      BY <1>3 DEF CloseConns
    <2>2. CASE d \in conns[n]
      <3>1. Severed(d) /\ "client" \notin open[d] \ open'[d]
        BY <2>1, <2>2, DisconnectCuts
      <3> QED
        BY <1>3, <3>1 DEF CloseConns, Shape
    <2>3. CASE d \notin conns[n]
      <3>1. open'[d] = open[d] /\ toServer'[d] = toServer[d] /\ toClient'[d] = toClient[d]
        BY <2>1, <2>3, DisconnectKeeps
      <3> QED
        BY <1>3, <2>3, <3>1 DEF CloseConns, Shape
    <2> QED
      BY <2>2, <2>3
  <1>4. ASSUME NEW c \in Call, AcceptRaw(n, c) \/ AcceptDone(n, c), c # d PROVE Kept(d)
    BY <1>4 DEF AcceptRaw, AcceptDone, Shape
  <1>5. ASSUME NEW c \in Call, AcceptFails(n, c) PROVE Kept(d) \/ Cut(d)
    <2>1. Disconnect({}, {c})
      BY <1>5 DEF AcceptFails
    <2>2. CASE d = c
      <3>1. Severed(d) /\ "client" \notin open[d] \ open'[d]
        BY <2>1, <2>2, DisconnectCuts
      <3> QED
        BY <1>5, <3>1 DEF AcceptFails, Shape
    <2>3. CASE d # c
      <3>1. open'[d] = open[d] /\ toServer'[d] = toServer[d] /\ toClient'[d] = toClient[d]
        BY <2>1, <2>3, DisconnectKeeps
      <3> QED
        BY <1>5, <2>3, <3>1 DEF AcceptFails, Shape
    <2> QED
      BY <2>2, <2>3
  <1> QED
    BY <1>1, <1>2, <1>3, <1>4, <1>5 DEF NodeStep, CloseStep, AcceptStep

\* A crash leaves a call alone or cuts its connection.
LEMMA CrashKeeps ==
    ASSUME Shape, NEW n \in Node, Crash(n), NEW d \in Call
    PROVE  Kept(d) \/ Cut(d)
  <1> DEFINE mine   == {c \in Call : from[c] = n /\ clientPC[c] \notin {"idle", "done"}}
             served == {c \in Call : at[c] = n}
  <1>1. Disconnect(mine, served)
    BY DEF Crash
  <1>2. CASE d \in mine \/ d \in served
    <2>1. /\ Severed(d)
          /\ d \notin mine => "client" \notin open[d] \ open'[d]
          /\ d \in served => "server" \notin open'[d]
      BY <1>1, <1>2, DisconnectCuts
    <2>2. /\ \/ handlerPC'[d] = handlerPC[d]
             \/ handlerPC[d] # "none" /\ handlerPC'[d] = "killed" /\ d \in served
          /\ clientPC'[d] = IF d \in mine THEN "done" ELSE clientPC[d]
          /\ outcome'[d] = "ok" <=> outcome[d] = "ok"
          /\ inbox'[d] = inbox[d]
      BY DEF Crash
    <2> QED
      BY <2>1, <2>2 DEF Cut, After
  <1>3. CASE d \notin mine /\ d \notin served
    <2>1. open'[d] = open[d] /\ toServer'[d] = toServer[d] /\ toClient'[d] = toClient[d]
      BY <1>1, <1>3, DisconnectKeeps
    <2> QED
      BY <1>3, <2>1 DEF Crash, Kept
  <1> QED
    BY <1>2, <1>3

-----------------------------------------------------------------------------
(* The conversation stays in order *)

\* A conversation that nothing happens to stays in order,
LEMMA KeptTalk ==
    ASSUME NEW d \in Call, Talk(d), Kept(d)
    PROVE  Talk(d)'
  BY DEF Talk, Kept, Silent, Opened, Opening, Greeted, Pinging

\* and so does one that is cut off, wherever it is.
LEMMA CutTalk ==
    ASSUME NEW d \in Call, Talk(d), Cut(d)
    PROVE  Talk(d)'
  <1> USE DEF Cut, Severed, Before, After
  <1>1. CASE clientPC'[d] \in {"unwind", "done"}
    BY <1>1 DEF Talk
  <1>2. CASE clientPC'[d] = clientPC[d]
    <2>1. Silent(d) => Silent(d)'
      BY DEF Silent
    <2>2. Opened(d) => Opened(d)'
      BY DEF Opened, Opening
    <2>3. Greeted(d) => Greeted(d)'
      BY DEF Greeted
    <2>4. Pinging(d) => Pinging(d)'
      BY DEF Pinging
    <2> QED
      BY <1>2, <2>1, <2>2, <2>3, <2>4 DEF Talk
  <1> QED
    BY <1>1, <1>2

\* What a queue holds after the first message has been written to it.
LEMMA FirstToServer ==
    ASSUME Shape, NEW c \in Call, NEW m, toServer[c] = <<>>, SendToServer(c, m)
    PROVE  toServer'[c] = IF "server" \in open[c] THEN <<m>> ELSE <<>>
  <1>1. Append(<<>>, m) = <<m>>
    OBVIOUS
  <1>2. toServer'[c] = IF "server" \in open[c] THEN Append(toServer[c], m) ELSE toServer[c]
    BY DEF SendToServer, Shape
  <1> QED
    BY <1>1, <1>2, Zenon

\* The same towards the client.
LEMMA FirstToClient ==
    ASSUME Shape, NEW c \in Call, NEW m, toClient[c] = <<>>, SendToClient(c, m)
    PROVE  toClient'[c] = IF "client" \in open[c] THEN <<m>> ELSE <<>>
  <1>1. Append(<<>>, m) = <<m>>
    OBVIOUS
  <1>2. toClient'[c] = IF "client" \in open[c] THEN Append(toClient[c], m) ELSE toClient[c]
    BY DEF SendToClient, Shape
  <1> QED
    BY <1>1, <1>2, Zenon

\* The one message there was has been read by the handler.
LEMMA LastToServer ==
    ASSUME Shape, NEW c \in Call, NEW m, NEW e, toServer[c] = <<>> \/ toServer[c] = <<e>>,
           ServerReads(c, m)
    PROVE  m = e /\ toServer[c] = <<m>> /\ toServer'[c] = <<>>
  <1>1. Head(<<e>>) = e /\ Tail(<<e>>) = <<>>
    OBVIOUS
  <1>2. toServer[c] # <<>> /\ Head(toServer[c]) = m /\ toServer'[c] = Tail(toServer[c])
    BY DEF ServerReads, Shape
  <1> QED
    BY <1>1, <1>2, Zenon

\* The same on the caller's side.
LEMMA LastToClient ==
    ASSUME Shape, NEW c \in Call, NEW m, NEW e, toClient[c] = <<>> \/ toClient[c] = <<e>>,
           ClientReads(c, m)
    PROVE  m = e /\ toClient[c] = <<m>> /\ toClient'[c] = <<>>
  <1>1. Head(<<e>>) = e /\ Tail(<<e>>) = <<>>
    OBVIOUS
  <1>2. toClient[c] # <<>> /\ Head(toClient[c]) = m /\ toClient'[c] = Tail(toClient[c])
    BY DEF ClientReads, Shape
  <1> QED
    BY <1>1, <1>2, Zenon

\* A step of a call keeps its own conversation in order,
LEMMA CallTalk ==
    ASSUME Shape, Fresh, NEW c \in Call, Talk(c), CallStep(c)
    PROVE  Talk(c)'
  <1> USE DEF netVars, nodeVars, callVars, handlerVars, trustVars,
              ClientGoto, ClientFail, ClientDone
  <1>1. CASE PairBegin(c) \/ SendTextBegin(c)
    <2>1. clientPC[c] = "idle" /\ clientPC'[c] = "dial"
      BY <1>1 DEF PairBegin, SendTextBegin, Shape
    <2>2. Silent(c)'
      BY <1>1, <2>1 DEF PairBegin, SendTextBegin, Talk, Silent
    <2> QED
      BY <2>1, <2>2 DEF Talk
  <1>2. CASE Dial(c)
    <2>1. clientPC[c] = "dial" /\ handlerPC[c] = "none" /\ Silent(c)
      BY <1>2 DEF Dial, Fresh, Talk
    <2>2. clientPC'[c] \in {"tls", "unwind"}
      BY <1>2 DEF Dial, Shape
    <2>3. Silent(c)'
      BY <1>2, <2>1 DEF Dial, TcpConnect, Silent, Before
    <2> QED
      BY <2>2, <2>3 DEF Talk
  <1>3. CASE VerifyServer(c)
    <2>1. clientPC[c] = "tls" /\ clientPC'[c] = "connected"
      BY <1>3 DEF VerifyServer, Shape
    <2>2. Silent(c)'
      BY <1>3, <2>1 DEF VerifyServer, Talk, Silent
    <2> QED
      BY <2>1, <2>2 DEF Talk
  <1>4. CASE SendIdentity(c) \/ SendHello(c)
    <2>1. clientPC[c] = "connected" /\ clientPC'[c] \in {"await", "unwind"}
      BY <1>4 DEF SendIdentity, SendHello, ClientSend, Shape
    <2>2. Silent(c) /\ UNCHANGED <<open, toClient, handlerPC>>
      BY <1>4, <2>1 DEF SendIdentity, SendHello, ClientSend, Talk
    <2>3. SendToServer(c, Opening(c))
      BY <1>4 DEF SendIdentity, SendHello, ClientSend, Opening
    <2>4. toServer'[c] = IF "server" \in open[c] THEN <<Opening(c)>> ELSE <<>>
      BY <2>2, <2>3, FirstToServer DEF Silent
    <2>5. open[c] = Ends => toServer'[c] # <<>>
      BY <2>4 DEF Ends
    <2>6. Opened(c)'
      BY <2>2, <2>4, <2>5 DEF Silent, Opened, Opening, Before, After
    <2> QED
      BY <2>1, <2>6 DEF Talk
  <1>5. CASE ExpectHello(c)
    <2>1. /\ clientPC[c] = "await" /\ kind[c] # "pair"
          /\ clientPC'[c] = IF kind[c] = "send" THEN "text" ELSE "held"
      BY <1>5 DEF ExpectHello, Shape
    <2>2. Opened(c) /\ UNCHANGED <<open, toServer, handlerPC>> /\ ClientReads(c, "HELLO")
      BY <1>5, <2>1 DEF ExpectHello, ClientReads, Talk
    <2>3. toClient[c] # <<>> /\ toClient'[c] = <<>>
      <3>1. toClient[c] \in {<<>>, <<Opening(c)>>} /\ toClient[c] # <<>>
        BY <2>2 DEF Opened, ClientReads
      <3> QED
        BY <2>2, <3>1, LastToClient, Zenon
    <2>4. Greeted(c)'
      BY <2>1, <2>2, <2>3 DEF Opened, Greeted, After
    <2>5. kind[c] \in {"send", "session"}
      BY <2>1, TransportAssumption DEF Kind
    <2> QED
      BY <2>1, <2>4, <2>5 DEF Talk
  <1>6. CASE SessionPing(c)
    <2>1. clientPC[c] = "held" /\ clientPC'[c] \in {"pinged", "unwind"}
      BY <1>6 DEF SessionPing, ClientSend, Shape
    <2>2. /\ Greeted(c) /\ kind[c] = "session"
          /\ UNCHANGED <<open, toClient, handlerPC>> /\ SendToServer(c, "PING")
      BY <1>6, <2>1 DEF SessionPing, ClientSend, Talk
    <2>3. toServer'[c] = IF "server" \in open[c] THEN <<"PING">> ELSE <<>>
      BY <2>2, FirstToServer DEF Greeted
    <2>4. open[c] = Ends => toServer'[c] # <<>>
      BY <2>3 DEF Ends
    <2>5. Pinging(c)'
      BY <2>2, <2>3, <2>4 DEF Greeted, Pinging
    <2> QED
      BY <2>1, <2>5 DEF Talk
  <1>7. CASE SessionPong(c)
    <2>1. clientPC[c] = "pinged" /\ clientPC'[c] = "held"
      BY <1>7 DEF SessionPong, Shape
    <2>2. Pinging(c) /\ UNCHANGED <<open, toServer, handlerPC>> /\ ClientReads(c, "PONG")
      BY <1>7, <2>1 DEF SessionPong, ClientReads, Talk
    <2>3. toClient[c] # <<>> /\ toClient'[c] = <<>>
      <3>1. toClient[c] \in {<<>>, <<"PONG">>} /\ toClient[c] # <<>>
        BY <2>2 DEF Pinging, ClientReads
      <3> QED
        BY <2>2, <3>1, LastToClient, Zenon
    <2>4. Greeted(c)' /\ kind[c] = "session"
      BY <2>2, <2>3 DEF Pinging, Greeted
    <2> QED
      BY <2>1, <2>4 DEF Talk
  <1>8. CASE \/ ConnectFails(c) \/ ExchangeReceive(c) \/ AwaitFails(c) \/ Approve(c)
             \/ Confirm(c) \/ SendText(c) \/ Unwind(c) \/ SessionEOF(c)
             \/ SessionHangUp(c)
    <2>1. clientPC'[c] \in {"approve", "confirm", "unwind", "done"}
      BY <1>8
      DEF ConnectFails, ExchangeReceive, AwaitFails, Approve, Confirm, SendText,
          Unwind, SessionEOF, SessionHangUp, ClientSend, Shape
    <2> QED
      BY <2>1 DEF Talk
  <1> QED
    BY <1>1, <1>2, <1>3, <1>4, <1>5, <1>6, <1>7, <1>8 DEF CallStep, ClientStep

\* and so does a step of its handler.
LEMMA HandlerTalk ==
    ASSUME Shape, Asked, NEW c \in Call, Talk(c), HandlerStep(c)
    PROVE  Talk(c)'
  <1>1. UNCHANGED <<clientPC, link>>
    BY HandlerFrame DEF callVars
  <1> USE DEF netVars, nodeVars, callVars, handlerVars, trustVars, HandlerGoto,
              Before, After
  <1>2. CASE Register(c) \/ ReadTrust(c)
    <2>1. /\ UNCHANGED <<open, toServer, toClient>>
          /\ handlerPC[c] \in {"register", "trust"} /\ handlerPC'[c] \in {"trust", "first"}
      BY <1>2 DEF Register, ReadTrust, Shape
    <2> QED
      BY <1>1, <2>1 DEF Talk, Silent, Opened, Opening, Greeted, Pinging
  <1>3. CASE ReceiveFirst(c)
    <2>1. PICK m \in MessageType : ServerReads(c, m) /\ HandlerGoto(c, Dispatch(c, m))
      BY <1>3 DEF ReceiveFirst
    <2>2. handlerPC[c] = "first" /\ UNCHANGED <<open, toClient>> /\ toServer[c] # <<>>
      BY <1>3, <2>1 DEF ReceiveFirst, ServerReads
    <2>3. handlerPC'[c] = Dispatch(c, m)
      BY <2>1 DEF Shape
    <2>4. CASE Opened(c) /\ clientPC[c] = "await"
      <3>1. toServer[c] \in {<<>>, <<Opening(c)>>}
        BY <2>4 DEF Opened
      <3>2. m = Opening(c) /\ toServer'[c] = <<>>
        BY <2>1, <3>1, LastToServer, Zenon
      <3>3. /\ handlerPC'[c] \in {"decide", "hello", "exit"}
            /\ kind[c] = "pair" => handlerPC'[c] = "decide"
        BY <2>3, <3>2 DEF Dispatch, Opening
      <3>4. Opened(c)'
        BY <2>2, <2>4, <3>2, <3>3 DEF Opened, Opening
      <3> QED
        BY <1>1, <2>4, <3>4 DEF Talk
    <2>5. CASE clientPC[c] \in {"approve", "confirm", "unwind", "done"}
      BY <1>1, <2>5 DEF Talk
    <2> QED
      BY <2>2, <2>4, <2>5 DEF Talk, Silent, Greeted, Pinging, Shape, ClientPC
  <1>4. CASE ReceiveFails(c)
    <2>1. /\ UNCHANGED <<open, toServer, toClient>>
          /\ open[c] # Ends /\ handlerPC'[c] = "exit"
      BY <1>4 DEF ReceiveFails, ServerEOF, Shape
    <2> QED
      BY <1>1, <2>1 DEF Talk, Silent, Opened, Opening, Greeted, Pinging
  <1>5. CASE ReplyHello(c) \/ ReplyPair(c)
    <2>1. /\ UNCHANGED <<open, toServer>>
          /\ handlerPC[c] \in {"hello", "reply"} /\ handlerPC'[c] \in {"loop", "exit"}
          /\ handlerPC[c] = "reply" => handlerPC'[c] = "exit"
          /\ handlerPC[c] = "hello" /\ open[c] = Ends
                => "client" \in open[c] /\ handlerPC'[c] \in {"loop"}
      BY <1>5 DEF ReplyHello, ReplyPair, Shape, Ends
    <2>2. CASE Opened(c) /\ clientPC[c] = "await"
      <3>1. SendToClient(c, Opening(c))
        BY <1>5, <2>2 DEF ReplyHello, ReplyPair, Opened, Opening, Asked
      <3>2. toClient[c] = <<>> /\ toServer[c] = <<>>
        BY <2>1, <2>2 DEF Opened
      <3>3. toClient'[c] = IF "client" \in open[c] THEN <<Opening(c)>> ELSE <<>>
        BY <3>1, <3>2, FirstToClient
      <3>4. open[c] = Ends => toClient'[c] # <<>>
        BY <3>3 DEF Ends
      <3>5. /\ handlerPC[c] = "reply" => kind[c] = "pair"
            /\ handlerPC[c] = "hello" => kind[c] # "pair"
        BY <2>2 DEF Asked, Opened
      <3>6. Opened(c)'
        BY <2>1, <2>2, <3>2, <3>3, <3>4, <3>5 DEF Opened, Opening
      <3> QED
        BY <1>1, <2>2, <3>6 DEF Talk
    <2>3. CASE clientPC[c] \in {"approve", "confirm", "unwind", "done"}
      BY <1>1, <2>3 DEF Talk
    <2> QED
      BY <2>1, <2>2, <2>3 DEF Talk, Silent, Greeted, Pinging, Shape, ClientPC
  <1>6. CASE LoopMessage(c) \/ LoopPing(c)
    <2>1. /\ handlerPC[c] = "loop" /\ UNCHANGED <<open, handlerPC>>
          /\ toServer[c] # <<>>
          /\ \/ ServerReads(c, "MESSAGE")
             \/ ServerReads(c, "PING") /\ SendToClient(c, "PONG")
      BY <1>6 DEF LoopMessage, LoopPing, ServerReads
    <2>2. CASE Pinging(c) /\ clientPC[c] = "pinged"
      <3>1. toServer[c] \in {<<>>, <<"PING">>}
        BY <2>2 DEF Pinging
      <3>2. SendToClient(c, "PONG") /\ toServer'[c] = <<>>
        <4>1. "MESSAGE" # "PING"
          OBVIOUS
        <4> QED
          BY <2>1, <3>1, <4>1, LastToServer, Zenon
      <3>3. toClient'[c] = IF "client" \in open[c] THEN <<"PONG">> ELSE <<>>
        BY <2>1, <2>2, <3>2, FirstToClient DEF Pinging
      <3>4. open[c] = Ends => toClient'[c] # <<>>
        BY <3>3 DEF Ends
      <3>5. Pinging(c)'
        BY <2>1, <2>2, <3>2, <3>3, <3>4 DEF Pinging
      <3> QED
        BY <1>1, <2>2, <3>5 DEF Talk
    <2>3. CASE clientPC[c] \in {"approve", "confirm", "unwind", "done"}
      BY <1>1, <2>3 DEF Talk
    <2> QED
      BY <2>1, <2>2, <2>3 DEF Talk, Silent, Opened, Greeted, Shape, ClientPC
  <1>7. CASE DecidePair(c) \/ StorePair(c)
    <2>1. /\ UNCHANGED <<open, toServer, toClient>>
          /\ handlerPC[c] \in {"decide", "store"}
          /\ handlerPC'[c] \in {"store", "reply", "exit"}
      BY <1>7 DEF DecidePair, StorePair, Shape
    <2> QED
      BY <1>1, <2>1 DEF Talk, Silent, Opened, Opening, Greeted, Pinging
  <1>8. CASE HandlerExit(c)
    <2>1. Disconnect({}, {c})
      BY <1>8 DEF HandlerExit
    <2>2. /\ Severed(c)
          /\ "client" \notin open[c] \ open'[c] /\ "server" \notin open'[c]
      BY <2>1, DisconnectCuts
    <2>3. Cut(c)
      BY <1>8, <2>2 DEF HandlerExit, Cut, Shape
    <2> QED
      BY <2>3, CutTalk
  <1> QED
    BY <1>2, <1>3, <1>4, <1>5, <1>6, <1>7, <1>8 DEF HandlerStep

\* Every conversation stays in order.
LEMMA NextDialogue ==
    Shape /\ Fresh /\ Asked /\ Dialogue /\ [Next]_vars => Dialogue'
  <1> SUFFICES ASSUME Shape, Fresh, Asked, Dialogue, [Next]_vars, NEW d \in Call
               PROVE  Talk(d)'
    BY DEF Dialogue
  <1>1. Talk(d)
    BY DEF Dialogue
  <1>2. ASSUME NEW c \in Call, CallStep(c) \/ HandlerStep(c) PROVE Talk(d)'
    BY <1>1, <1>2, CallKeeps, HandlerKeeps, KeptTalk, CallTalk, HandlerTalk
  <1>3. ASSUME NEW n \in Node, NodeStep(n) PROVE Talk(d)'
    <2>1. CASE Kept(d) \/ Cut(d)
      BY <1>1, <2>1, KeptTalk, CutTalk
    <2>2. CASE AcceptRaw(n, d)
      <3>1. UNCHANGED <<clientPC, handlerPC, open, toServer, toClient>>
        BY <2>2 DEF AcceptRaw, callVars, handlerVars
      <3> QED
        BY <1>1, <3>1 DEF Talk, Silent, Opened, Opening, Greeted, Pinging
    <2>3. CASE AcceptDone(n, d)
      <3>1. /\ UNCHANGED <<clientPC, open, toServer, toClient>>
            /\ handlerPC[d] = "none" /\ handlerPC'[d] = "register"
        BY <2>3 DEF AcceptDone, callVars, Fresh, Shape
      <3> QED
        BY <1>1, <3>1
        DEF Talk, Silent, Opened, Opening, Greeted, Pinging, Before, After
    <2> QED
      BY <1>3, <2>1, <2>2, <2>3, NodeKeeps
  <1>4. ASSUME NEW n \in Node, Crash(n) PROVE Talk(d)'
    BY <1>1, <1>4, CrashKeeps, KeptTalk, CutTalk
  <1>5. CASE UNCHANGED vars
    BY <1>1, <1>5
    DEF vars, netVars, callVars, handlerVars, Talk, Silent, Opened, Opening, Greeted,
        Pinging
  <1> QED
    BY <1>2, <1>3, <1>4, <1>5, NextCases

-----------------------------------------------------------------------------
(* Handshakes *)

\* The accept loop is busy with at most one handshake, and with no other.
LEMMA NextOneHandshake ==
    Shape /\ Phases /\ OneHandshake /\ [Next]_vars => OneHandshake'
  <1> SUFFICES ASSUME Shape, Phases, OneHandshake, [Next]_vars PROVE OneHandshake'
    OBVIOUS
  <1> DEFINE Underway == {"handshake", "finished"}
  <1>1. ASSUME acceptor' = acceptor,
               \A d \in Call : link'[d] \in Underway => link[d] \in Underway
        PROVE  OneHandshake'
    BY <1>1 DEF OneHandshake
  <1>2. ASSUME NEW c \in Call, CallStep(c) PROVE OneHandshake'
    <2>1. acceptor' = acceptor
      BY <1>2, CallFrame DEF nodeVars
    <2>2. \A d \in Call : d # c => link'[d] = link[d]
      BY <1>2, CallKeeps DEF Kept
    <2>3. link'[c] \in Underway => link[c] \in Underway
      <3>1. CASE Dial(c)
        BY <3>1 DEF Dial, TcpConnect, Shape, netVars
      <3>2. CASE VerifyServer(c)
        BY <3>2 DEF VerifyServer
      <3>3. CASE ~Dial(c) /\ ~VerifyServer(c)
        BY <1>2, <3>3
        DEF CallStep, ClientStep, PairBegin, SendTextBegin, ConnectFails, SendIdentity,
            SendHello, ExchangeReceive, ExpectHello, AwaitFails, Approve, Confirm,
            SendText, Unwind, SessionPing, SessionPong, SessionEOF, SessionHangUp,
            ClientSend, ClientReads, netVars
      <3> QED
        BY <3>1, <3>2, <3>3
    <2> QED
      BY <1>1, <2>1, <2>2, <2>3
  <1>3. ASSUME NEW c \in Call, HandlerStep(c) PROVE OneHandshake'
    BY <1>1, <1>3, HandlerFrame
  <1>4. ASSUME NEW n \in Node, NodeStep(n) PROVE OneHandshake'
    <2>1. CASE Start(n)
      <3>1. acceptor[n] = "off" /\ UNCHANGED link
        BY <2>1 DEF Start, Phases
      <3>2. \A m \in Node : m # n => acceptor'[m] = acceptor[m]
        BY <2>1 DEF Start, Shape
      <3> QED
        BY <3>1, <3>2, CallNodes DEF OneHandshake
    <2>2. CASE \/ CloseListener(n) \/ CloseConns(n) \/ CloseStore(n)
               \/ \E h \in Callback : InstallHandler(n, h)
      <3>1. acceptor' = acceptor
        BY <2>2 DEF CloseListener, CloseConns, CloseStore, InstallHandler
      <3>2. \A d \in Call : link'[d] \in Underway => link[d] \in Underway
        BY <2>2 DEF CloseListener, CloseConns, CloseStore, InstallHandler, netVars
      <3> QED
        BY <1>1, <3>1, <3>2
    <2>3. ASSUME NEW c \in Call, AcceptRaw(n, c) PROVE OneHandshake'
      <3>1. \A d \in Call : at[d] = n => link[d] \notin Underway
        BY <2>3 DEF AcceptRaw, OneHandshake
      <3>2. /\ at[c] = n /\ acceptor'[n] = "busy"
            /\ \A d \in Call : d # c => link'[d] = link[d]
            /\ \A m \in Node : m # n => acceptor'[m] = acceptor[m]
        BY <2>3 DEF AcceptRaw, Shape
      <3> QED
        BY <3>1, <3>2, CallNodes DEF OneHandshake
    <2>4. ASSUME NEW c \in Call, AcceptDone(n, c) \/ AcceptFails(n, c)
          PROVE  OneHandshake'
      <3>1. at[c] = n /\ \A d \in Call : at[d] = n /\ link[d] \in Underway => d = c
        BY <2>4 DEF AcceptDone, AcceptFails, OneHandshake
      <3>2. /\ link'[c] \notin Underway
            /\ \A d \in Call : d # c => link'[d] = link[d]
            /\ \A m \in Node : m # n => acceptor'[m] = acceptor[m]
        BY <2>4 DEF AcceptDone, AcceptFails, Shape
      <3> QED
        BY <3>1, <3>2, CallNodes DEF OneHandshake
    <2>5. CASE AcceptClosed(n)
      <3>1. acceptor[n] = "accepting" /\ UNCHANGED link
        BY <2>5 DEF AcceptClosed, netVars
      <3>2. \A m \in Node : m # n => acceptor'[m] = acceptor[m]
        BY <2>5 DEF AcceptClosed, Shape
      <3> QED
        BY <3>1, <3>2, CallNodes DEF OneHandshake
    <2> QED
      BY <1>4, <2>1, <2>2, <2>3, <2>4, <2>5 DEF NodeStep, CloseStep, AcceptStep
  <1>5. ASSUME NEW n \in Node, Crash(n) PROVE OneHandshake'
    <2>1. \A d \in Call : link'[d] \in Underway => link[d] \in Underway /\ at[d] # n
      BY <1>5 DEF Crash, Shape
    <2>2. \A m \in Node : m # n => acceptor'[m] = acceptor[m]
      BY <1>5 DEF Crash, Shape
    <2> QED
      BY <2>1, <2>2, CallNodes DEF OneHandshake
  <1>6. CASE UNCHANGED vars
    BY <1>1, <1>6 DEF vars, netVars, nodeVars
  <1> QED
    BY <1>2, <1>3, <1>4, <1>5, <1>6, NextCases

\* An accept loop leaves a handshake only as it ends.
LEMMA NextOccupied ==
    Shape /\ Fresh /\ Occupied /\ [Next]_vars => Occupied'
  <1> SUFFICES ASSUME Shape, Fresh, Occupied, [Next]_vars PROVE Occupied'
    OBVIOUS
  <1> DEFINE Underway == {"handshake", "finished"}
  <1>1. ASSUME \A n \in Node : acceptor'[n] = "busy" => acceptor[n] = "busy",
               \A d \in Call : link[d] \in Underway /\ acceptor'[at[d]] = "busy"
                                => link'[d] \in Underway
        PROVE  Occupied'
    BY <1>1 DEF Occupied
  <1>2. ASSUME NEW c \in Call, CallStep(c) PROVE Occupied'
    <2>1. acceptor' = acceptor
      BY <1>2, CallFrame DEF nodeVars
    <2>2. \A d \in Call : d # c => link'[d] = link[d]
      BY <1>2, CallKeeps DEF Kept
    <2>3. link[c] \in Underway => link'[c] \in Underway
      <3>1. CASE Dial(c)
        BY <3>1 DEF Dial, Fresh
      <3>2. CASE VerifyServer(c)
        BY <3>2 DEF VerifyServer, Shape
      <3>3. CASE ~Dial(c) /\ ~VerifyServer(c)
        BY <1>2, <3>3
        DEF CallStep, ClientStep, PairBegin, SendTextBegin, ConnectFails, SendIdentity,
            SendHello, ExchangeReceive, ExpectHello, AwaitFails, Approve, Confirm,
            SendText, Unwind, SessionPing, SessionPong, SessionEOF, SessionHangUp,
            ClientSend, ClientReads, netVars
      <3> QED
        BY <3>1, <3>2, <3>3
    <2> QED
      BY <1>1, <2>1, <2>2, <2>3
  <1>3. ASSUME NEW c \in Call, HandlerStep(c) PROVE Occupied'
    BY <1>1, <1>3, HandlerFrame
  <1>4. ASSUME NEW n \in Node, NodeStep(n) PROVE Occupied'
    <2>1. CASE \/ CloseListener(n) \/ CloseConns(n) \/ CloseStore(n)
               \/ \E h \in Callback : InstallHandler(n, h)
      <3>1. acceptor' = acceptor
        BY <2>1 DEF CloseListener, CloseConns, CloseStore, InstallHandler
      <3>2. \A d \in Call : link[d] \in Underway => link'[d] \in Underway
        BY <2>1 DEF CloseListener, CloseConns, CloseStore, InstallHandler, netVars
      <3> QED
        BY <1>1, <3>1, <3>2
    <2>2. ASSUME NEW c \in Call, AcceptRaw(n, c) PROVE Occupied'
      <3>1. at[c] = n /\ link'[c] = "handshake"
        BY <2>2 DEF AcceptRaw, Shape
      <3>2. \A d \in Call : link[d] \in Underway => link'[d] = link[d]
        BY <2>2 DEF AcceptRaw, Shape
      <3>3. \A m \in Node : m # n => acceptor'[m] = acceptor[m]
        BY <2>2 DEF AcceptRaw, Shape
      <3> QED
        BY <3>1, <3>2, <3>3 DEF Occupied
    <2>3. CASE Start(n) \/ AcceptClosed(n)
      <3>1. /\ acceptor'[n] # "busy" /\ UNCHANGED link
            /\ \A m \in Node : m # n => acceptor'[m] = acceptor[m]
        BY <2>3 DEF Start, AcceptClosed, netVars, Shape
      <3> QED
        BY <1>1, <3>1
    <2>4. ASSUME NEW c \in Call, AcceptDone(n, c) \/ AcceptFails(n, c)
          PROVE  Occupied'
      <3>1. /\ acceptor'[n] # "busy" /\ at[c] = n
            /\ \A d \in Call : d # c => link'[d] = link[d]
            /\ \A m \in Node : m # n => acceptor'[m] = acceptor[m]
        BY <2>4 DEF AcceptDone, AcceptFails, Shape
      <3> QED
        BY <1>1, <3>1
    <2> QED
      BY <1>4, <2>1, <2>2, <2>3, <2>4 DEF NodeStep, CloseStep, AcceptStep
  <1>5. ASSUME NEW n \in Node, Crash(n) PROVE Occupied'
    <2>1. /\ acceptor'[n] # "busy"
          /\ \A m \in Node : m # n => acceptor'[m] = acceptor[m]
          /\ \A d \in Call : at[d] # n => link'[d] = link[d]
      BY <1>5 DEF Crash, Shape
    <2> QED
      BY <1>1, <2>1
  <1>6. CASE UNCHANGED vars
    BY <1>1, <1>6 DEF vars, netVars, nodeVars
  <1> QED
    BY <1>2, <1>3, <1>4, <1>5, <1>6, NextCases

\* A client leaves its handshake by finishing it or by closing its end.
LEMMA NextShaking ==
    Shape /\ Fresh /\ Shaking /\ [Next]_vars => Shaking'
  <1> DEFINE Good(c) == link[c] \in {"queued", "handshake"} =>
                            clientPC[c] = "tls" \/ open[c] # Ends
  <1> SUFFICES ASSUME Shape, Fresh, Shaking, [Next]_vars, NEW d \in Call
               PROVE  Good(d)'
    BY DEF Shaking
  <1>1. Good(d)
    BY DEF Shaking
  <1>2. CASE Kept(d)
    BY <1>1, <1>2 DEF Kept
  <1>3. CASE Cut(d)
    BY <1>3 DEF Cut, Severed
  <1>4. ASSUME CallStep(d) PROVE Good(d)'
    <2> USE DEF ClientGoto, ClientFail, netVars
    <2>1. CASE Dial(d)
      <3>1. CASE clientPC'[d] = "tls"
        BY <3>1
      <3>2. CASE clientPC'[d] # "tls"
        <4>1. link[d] = "none" /\ UNCHANGED netVars
          BY <2>1, <3>2 DEF Dial, Fresh, Shape
        <4> QED
          BY <4>1
      <3> QED
        BY <3>1, <3>2
    <2>2. CASE VerifyServer(d)
      BY <2>2 DEF VerifyServer, Shape
    <2>3. CASE ConnectFails(d)
      BY <2>3, DisconnectCuts DEF ConnectFails, Severed
    <2>4. CASE PairBegin(d) \/ SendTextBegin(d)
      BY <2>4 DEF PairBegin, SendTextBegin, Fresh
    <2>5. CASE Unwind(d)
      BY <2>5, DisconnectCuts DEF Unwind, Severed
    <2>6. CASE ~(\/ Dial(d) \/ VerifyServer(d) \/ ConnectFails(d) \/ PairBegin(d)
                 \/ SendTextBegin(d) \/ Unwind(d))
      <3>1. UNCHANGED <<link, open>> /\ clientPC[d] # "tls"
        BY <1>4, <2>6
        DEF CallStep, ClientStep, SendIdentity, SendHello, ExchangeReceive, ExpectHello,
            AwaitFails, Approve, Confirm, SendText, SessionPing, SessionPong,
            SessionEOF, SessionHangUp, ClientSend, ClientReads
      <3> QED
        BY <1>1, <3>1
    <2> QED
      BY <1>4, <2>1, <2>2, <2>3, <2>4, <2>5, <2>6
  <1>5. ASSUME HandlerStep(d) PROVE Good(d)'
    <2>1. handlerPC[d] # "none" /\ UNCHANGED link
      BY <1>5, HandlerFrame
      DEF HandlerStep, Register, ReadTrust, ReceiveFirst, ReceiveFails, ReplyHello,
          LoopMessage, LoopPing, DecidePair, StorePair, ReplyPair, HandlerExit
    <2> QED
      BY <2>1 DEF Fresh
  <1>6. ASSUME NEW n \in Node, NodeStep(n) PROVE Good(d)'
    <2>1. CASE AcceptRaw(n, d) \/ AcceptDone(n, d)
      <3>1. UNCHANGED <<clientPC, open>> /\ (link[d] = "queued" \/ link'[d] = "up")
        BY <2>1 DEF AcceptRaw, AcceptDone, callVars, Shape
      <3> QED
        BY <1>1, <3>1
    <2> QED
      BY <1>2, <1>3, <1>6, <2>1, NodeKeeps
  <1>7. ASSUME NEW n \in Node, Crash(n) PROVE Good(d)'
    BY <1>2, <1>3, <1>7, CrashKeeps
  <1>8. CASE UNCHANGED vars
    BY <1>1, <1>8 DEF vars, netVars, callVars
  <1> QED
    BY <1>2, <1>4, <1>5, <1>6, <1>7, <1>8, CallKeeps, HandlerKeeps, NextCases

\* A handshake that the client has finished gives the connection a handler or ends it.
LEMMA NextHandshaken ==
    Shape /\ Fresh /\ Handshaken /\ [Next]_vars => Handshaken'
  <1> DEFINE Good(c) == clientPC[c] \in {"connected", "await"} /\ handlerPC[c] = "none"
                        => link[c] = "finished" \/ "server" \notin open[c]
  <1> SUFFICES ASSUME Shape, Fresh, Handshaken, [Next]_vars, NEW d \in Call
               PROVE  Good(d)'
    BY DEF Handshaken
  <1>1. Good(d)
    BY DEF Handshaken
  <1>2. CASE Kept(d)
    BY <1>1, <1>2 DEF Kept
  <1>3. ASSUME CallStep(d) PROVE Good(d)'
    <2>1. CASE VerifyServer(d)
      BY <2>1 DEF VerifyServer, Shape
    <2>2. CASE SendIdentity(d) \/ SendHello(d)
      <3>1. clientPC[d] = "connected" /\ UNCHANGED <<handlerPC, link, open>>
        BY <2>2 DEF SendIdentity, SendHello, ClientSend, handlerVars
      <3> QED
        BY <1>1, <3>1
    <2>3. CASE ~VerifyServer(d) /\ ~SendIdentity(d) /\ ~SendHello(d)
      <3>1. clientPC'[d] \notin {"connected", "await"}
        BY <1>3, <2>3
        DEF CallStep, ClientStep, PairBegin, SendTextBegin, Dial, ConnectFails,
            ExchangeReceive, ExpectHello, AwaitFails, Approve, Confirm, SendText,
            Unwind, SessionPing, SessionPong, SessionEOF, SessionHangUp,
            ClientSend, ClientGoto, ClientFail, ClientDone, Shape
      <3> QED
        BY <3>1
    <2> QED
      BY <2>1, <2>2, <2>3
  <1>4. ASSUME HandlerStep(d) PROVE Good(d)'
    <2>1. handlerPC'[d] # "none"
      BY <1>4
      DEF HandlerStep, Register, ReadTrust, ReceiveFirst, ReceiveFails, ReplyHello,
          LoopMessage, LoopPing, DecidePair, StorePair, ReplyPair, HandlerExit,
          HandlerGoto, Dispatch, handlerVars, Shape
    <2> QED
      BY <2>1
  <1>5. ASSUME NEW n \in Node, NodeStep(n) PROVE Good(d)'
    <2>1. UNCHANGED clientPC
      BY <1>5, NodeFrame DEF callVars
    <2>2. CASE Start(n) \/ CloseStore(n) \/ AcceptClosed(n)
               \/ \E h \in Callback : InstallHandler(n, h)
      BY <1>1, <2>2
      DEF Start, CloseStore, AcceptClosed, InstallHandler, netVars, callVars, handlerVars
    <2>3. CASE CloseListener(n)
      <3>1. link[d] = "finished" => link'[d] = "finished"
        BY <2>3 DEF CloseListener
      <3>2. open'[d] \subseteq open[d]
        BY <2>3 DEF CloseListener, Disconnect
      <3> QED
        BY <1>1, <2>1, <2>3, <3>1, <3>2 DEF CloseListener, handlerVars
    <2>4. CASE CloseConns(n)
      <3>1. open'[d] \subseteq open[d]
        BY <2>4 DEF CloseConns, Disconnect
      <3> QED
        BY <1>1, <2>1, <2>4, <3>1 DEF CloseConns, handlerVars
    <2>5. CASE AcceptRaw(n, d)
      BY <1>1, <2>5 DEF AcceptRaw, callVars, handlerVars
    <2>6. CASE AcceptDone(n, d)
      BY <2>6 DEF AcceptDone, Shape
    <2>7. CASE AcceptFails(n, d)
      BY <2>7 DEF AcceptFails, Disconnect
    <2>8. ASSUME NEW c \in Call, c # d,
                 AcceptRaw(n, c) \/ AcceptDone(n, c) \/ AcceptFails(n, c)
          PROVE  Good(d)'
      <3>1. link'[d] = link[d] /\ handlerPC'[d] = handlerPC[d]
        BY <2>8 DEF AcceptRaw, AcceptDone, AcceptFails, handlerVars, Shape
      <3>2. open'[d] \subseteq open[d]
        BY <2>8 DEF AcceptRaw, AcceptDone, AcceptFails, Disconnect
      <3> QED
        BY <1>1, <2>1, <3>1, <3>2
    <2> QED
      BY <1>5, <2>2, <2>3, <2>4, <2>5, <2>6, <2>7, <2>8
      DEF NodeStep, CloseStep, AcceptStep
  <1>6. ASSUME NEW n \in Node, Crash(n) PROVE Good(d)'
    <2>1. /\ clientPC'[d] \in {clientPC[d], "done"}
          /\ handlerPC'[d] = "none" => handlerPC[d] = "none"
          /\ at[d] # n => link'[d] = link[d]
      BY <1>6 DEF Crash
    <2>2. /\ at[d] = n => "server" \notin open'[d]
          /\ open'[d] \subseteq open[d]
      BY <1>6 DEF Crash, Disconnect
    <2> QED
      BY <1>1, <2>1, <2>2
  <1>7. CASE UNCHANGED vars
    BY <1>1, <1>7 DEF vars, netVars, callVars, handlerVars
  <1> QED
    BY <1>2, <1>3, <1>4, <1>5, <1>6, <1>7, CallKeeps, HandlerKeeps, NextCases

-----------------------------------------------------------------------------
(* Texts *)

\* One message at most is on its way to the handler of a SendText, and none that
\* only another device would send.
LEMMA SendQueue ==
    ASSUME Shape, Concluded, Decided, NEW d \in SendCall, Talk(d), Post(d)
    PROVE  /\ toServer[d] \in {<<>>, <<"HELLO">>, <<"MESSAGE">>}
           /\ clientPC[d] \notin {"unwind", "done"}
              => toServer[d] \in {<<>>, <<"HELLO">>} /\ inbox[d] = "none"
  <1>1. d \in Call /\ kind[d] = "send"
    BY DEF SendCall
  <1>2. clientPC[d] \notin {"unwind", "done"} => toServer[d] \in {<<>>, <<"HELLO">>}
    BY <1>1
    DEF Talk, Silent, Opened, Opening, Greeted, Pinging, Concluded, Shape, ClientPC
  <1>3. clientPC[d] \notin {"unwind", "done"} => inbox[d] = "none"
    BY <1>1 DEF Post, Decided
  <1> QED
    BY <1>2, <1>3 DEF Post

\* A call puts its text under way only as it reports success.
LEMMA CallPost ==
    ASSUME Shape, Concluded, Decided, NEW d \in SendCall, Talk(d), Post(d), CallStep(d)
    PROVE  Post(d)'
  <1>1. d \in Call /\ kind[d] = "send" /\ inbox' = inbox
    BY CallFrame DEF SendCall, handlerVars
  <1>2. "HELLO" # "MESSAGE"
    OBVIOUS
  <1>3. ASSUME inbox[d] = "none", toServer'[d] \in {<<>>, <<"HELLO">>} PROVE Post(d)'
    BY <1>1, <1>2, <1>3 DEF Post
  <1> USE DEF netVars, callVars, ClientGoto, ClientFail, ClientDone
  <1>4. CASE \/ SendTextBegin(d) \/ Dial(d) \/ VerifyServer(d) \/ ExpectHello(d)
             \/ AwaitFails(d)
    <2>1. toServer' = toServer /\ clientPC[d] \notin {"unwind", "done"}
      BY <1>4
      DEF SendTextBegin, Dial, TcpConnect, VerifyServer, ExpectHello, ClientReads,
          AwaitFails
    <2> QED
      BY <1>3, <2>1, SendQueue
  <1>5. CASE ConnectFails(d)
    <2>1. Disconnect({d}, {}) /\ clientPC[d] = "tls"
      BY <1>5 DEF ConnectFails
    <2>2. toServer'[d] \in {<<>>, toServer[d]}
      BY <1>1, <2>1, DisconnectCuts DEF Severed
    <2> QED
      BY <1>3, <2>1, <2>2, SendQueue
  <1>6. CASE SendHello(d)
    <2>1. clientPC[d] = "connected" /\ SendToServer(d, "HELLO")
      BY <1>6 DEF SendHello, ClientSend
    <2>2. toServer[d] = <<>>
      BY <2>1 DEF Talk, Silent
    <2>3. toServer'[d] = IF "server" \in open[d] THEN <<"HELLO">> ELSE <<>>
      BY <1>1, <2>1, <2>2, FirstToServer
    <2> QED
      BY <1>3, <2>1, <2>3, SendQueue
  <1>7. CASE SendText(d)
    <2>1. /\ clientPC[d] = "text" /\ SendToServer(d, "MESSAGE")
          /\ \/ clientPC'[d] = "unwind" /\ outcome'[d] = "ok"
             \/ "server" \notin open[d]
      BY <1>1, <1>7 DEF SendText, ClientSend, Shape
    <2>2. toServer[d] = <<>> /\ inbox[d] = "none"
      BY <2>1, SendQueue DEF Talk, Greeted
    <2>3. toServer'[d] = IF "server" \in open[d] THEN <<"MESSAGE">> ELSE <<>>
      BY <1>1, <2>1, <2>2, FirstToServer
    <2>4. CASE "server" \in open[d]
      BY <1>1, <2>1, <2>2, <2>3, <2>4 DEF Post
    <2>5. CASE "server" \notin open[d]
      BY <1>3, <2>2, <2>3, <2>5
    <2> QED
      BY <2>4, <2>5
  <1>8. CASE Unwind(d)
    <2>1. Disconnect({d}, {}) /\ clientPC[d] = "unwind" /\ UNCHANGED outcome
      BY <1>8 DEF Unwind
    <2>2. toServer'[d] \in {<<>>, toServer[d]}
      BY <1>1, <2>1, DisconnectCuts DEF Severed
    <2> QED
      BY <1>1, <2>1, <2>2 DEF Post
  <1>9. ~(\/ PairBegin(d) \/ SendIdentity(d) \/ ExchangeReceive(d) \/ Approve(d)
          \/ Confirm(d) \/ SessionPing(d) \/ SessionPong(d) \/ SessionEOF(d)
          \/ SessionHangUp(d))
    BY <1>1
    DEF PairBegin, SendIdentity, ExchangeReceive, Approve, Confirm, SessionPing,
        SessionPong, SessionEOF, SessionHangUp, Concluded, Talk, Pinging
  <1> QED
    BY <1>4, <1>5, <1>6, <1>7, <1>8, <1>9 DEF CallStep, ClientStep

\* A handler takes a text off the queue as it receives it.
LEMMA HandlerPost ==
    ASSUME Shape, Concluded, Decided, NEW d \in SendCall, Talk(d), Post(d), HandlerStep(d)
    PROVE  Post(d)'
  <1>1. d \in Call /\ UNCHANGED <<clientPC, outcome>>
    BY HandlerFrame DEF SendCall, callVars
  <1>2. ASSUME inbox' = inbox, toServer'[d] \in {<<>>, toServer[d]} PROVE Post(d)'
    BY <1>1, <1>2 DEF Post
  <1>3. ASSUME NEW m, ServerReads(d, m)
        PROVE  toServer[d] = <<m>> /\ toServer'[d] = <<>>
    <2>1. \/ toServer[d] = <<>> \/ toServer[d] = <<"HELLO">>
          \/ toServer[d] = <<"MESSAGE">>
      BY SendQueue
    <2> QED
      BY <1>1, <1>3, <2>1, LastToServer, Zenon
  <1>4. CASE LoopMessage(d)
    <2>1. ServerReads(d, "MESSAGE")
      BY <1>4 DEF LoopMessage
    <2>2. toServer[d] = <<"MESSAGE">> /\ toServer'[d] = <<>>
      BY <1>3, <2>1
    <2>3. outcome[d] = "ok"
      BY <2>2 DEF Post
    <2> QED
      BY <1>1, <2>2, <2>3 DEF Post
  <1>5. CASE ReceiveFirst(d) \/ LoopPing(d)
    <2>1. (\E m : ServerReads(d, m)) /\ inbox' = inbox
      BY <1>5 DEF ReceiveFirst, LoopPing, handlerVars
    <2> QED
      BY <1>2, <1>3, <2>1
  <1>6. CASE HandlerExit(d)
    <2>1. Disconnect({}, {d}) /\ inbox' = inbox
      BY <1>6 DEF HandlerExit
    <2>2. toServer'[d] \in {<<>>, toServer[d]}
      BY <1>1, <2>1, DisconnectCuts DEF Severed
    <2> QED
      BY <1>2, <2>1, <2>2
  <1>7. CASE \/ Register(d) \/ ReadTrust(d) \/ ReceiveFails(d) \/ ReplyHello(d)
             \/ DecidePair(d) \/ StorePair(d) \/ ReplyPair(d)
    <2>1. inbox' = inbox /\ toServer' = toServer
      BY <1>7
      DEF Register, ReadTrust, ReceiveFails, ReplyHello, DecidePair, StorePair,
          ReplyPair, netVars
    <2> QED
      BY <1>2, <2>1
  <1> QED
    BY <1>4, <1>5, <1>6, <1>7 DEF HandlerStep

\* No step breaks the rule.
LEMMA NextPosted ==
    Shape /\ Concluded /\ Decided /\ Dialogue /\ Posted /\ [Next]_vars => Posted'
  <1> SUFFICES ASSUME Shape, Concluded, Decided, Dialogue, Posted, [Next]_vars,
                      NEW d \in SendCall
               PROVE  Post(d)'
    BY DEF Posted
  <1>1. d \in Call /\ Talk(d) /\ Post(d)
    BY DEF Dialogue, Posted, SendCall
  <1>2. CASE Kept(d)
    BY <1>1, <1>2 DEF Kept, Post
  <1>3. CASE Cut(d)
    BY <1>1, <1>3, SendQueue DEF Cut, Severed, Post
  <1>4. ASSUME NEW c \in Call, CallStep(c) \/ HandlerStep(c) PROVE Post(d)'
    BY <1>1, <1>2, <1>4, CallKeeps, HandlerKeeps, CallPost, HandlerPost
  <1>5. ASSUME NEW n \in Node, NodeStep(n) PROVE Post(d)'
    <2>1. CASE AcceptRaw(n, d) \/ AcceptDone(n, d)
      <3>1. UNCHANGED <<clientPC, outcome, toServer, inbox>>
        BY <2>1 DEF AcceptRaw, AcceptDone, callVars, handlerVars
      <3> QED
        BY <1>1, <3>1 DEF Post
    <2> QED
      BY <1>1, <1>2, <1>3, <1>5, <2>1, NodeKeeps
  <1>6. ASSUME NEW n \in Node, Crash(n) PROVE Post(d)'
    BY <1>1, <1>2, <1>3, <1>6, CrashKeeps
  <1>7. CASE UNCHANGED vars
    BY <1>1, <1>7 DEF vars, netVars, callVars, handlerVars, Post
  <1> QED
    BY <1>4, <1>5, <1>6, <1>7, NextCases

-----------------------------------------------------------------------------
(* A text that has been sent waits to be read *)

\* A call writes its text to a handler that is in its loop, and leaves nothing
\* unread when it closes its end.
LEMMA CallWait ==
    ASSUME Shape, Concluded, Decided, NEW d \in SendCall, Talk(d), Post(d), Wait(d),
           CallStep(d)
    PROVE  Wait(d)'
  <1> USE DEF netVars, nodeVars, callVars, handlerVars, trustVars,
              ClientGoto, ClientFail, ClientDone
  <1>1. d \in Call /\ kind[d] = "send"
    BY DEF SendCall
  <1>2. ASSUME clientPC'[d] = "unwind", outcome'[d] = "error" PROVE Wait(d)'
    BY <1>2 DEF Wait
  <1>3. ASSUME clientPC[d] \notin {"unwind", "done"}, UNCHANGED outcome,
               clientPC'[d] \in {"tls", "connected", "await", "text"} =>
                  "client" \in open'[d]
        PROVE  Wait(d)'
    <2>1. outcome[d] = "none"
      BY <1>1, <1>3 DEF Decided
    <2> QED
      BY <1>3, <2>1 DEF Wait
  <1>4. CASE ConnectFails(d) \/ AwaitFails(d)
    BY <1>1, <1>2, <1>4 DEF ConnectFails, AwaitFails, Shape
  <1>5. CASE Dial(d)
    <2>1. CASE TcpConnect(d)
      <3>1. open'[d] = Ends
        BY <1>1, <2>1 DEF TcpConnect, Shape
      <3> QED
        BY <1>1, <1>2, <1>3, <1>5, <3>1 DEF Dial, Ends, Shape
    <2>2. CASE ~TcpConnect(d)
      BY <1>1, <1>2, <1>5, <2>2 DEF Dial, Shape
    <2> QED
      BY <2>1, <2>2
  <1>6. CASE SendTextBegin(d) \/ VerifyServer(d) \/ SendHello(d) \/ ExpectHello(d)
    <2>1. open' = open /\ clientPC[d] \in {"idle", "tls", "connected", "await"}
      BY <1>6
      DEF SendTextBegin, VerifyServer, SendHello, ExpectHello, ClientSend, ClientReads
    <2>2. \/ clientPC'[d] = "unwind" /\ outcome'[d] = "error"
          \/ UNCHANGED outcome /\ (clientPC[d] = "idle" => clientPC'[d] = "dial")
      BY <1>1, <1>6
      DEF SendTextBegin, VerifyServer, SendHello, ExpectHello, ClientSend, Shape
    <2> QED
      BY <1>2, <1>3, <2>1, <2>2 DEF Wait
  <1>7. CASE SendText(d)
    <2>1. /\ clientPC[d] = "text" /\ clientPC'[d] = "unwind"
          /\ SendToServer(d, "MESSAGE")
          /\ UNCHANGED <<open, toClient, handlerPC>>
      BY <1>1, <1>7 DEF SendText, ClientSend, Shape
    <2>2. /\ toServer[d] = <<>> /\ toClient[d] = <<>>
          /\ open[d] = Ends => handlerPC[d] = "loop"
      BY <2>1 DEF Talk, Greeted
    <2>3. toServer'[d] = IF "server" \in open[d] THEN <<"MESSAGE">> ELSE <<>>
      BY <1>1, <2>1, <2>2, FirstToServer
    <2>4. "server" \in open[d] => open[d] = Ends
      BY <1>1, <2>1 DEF Wait, Shape, Ends
    <2> QED
      BY <2>1, <2>2, <2>3, <2>4 DEF Wait
  <1>8. CASE Unwind(d)
    <2>1. /\ Disconnect({d}, {}) /\ clientPC'[d] = "done"
          /\ UNCHANGED <<outcome, inbox, handlerPC>>
      BY <1>1, <1>8 DEF Unwind, Shape
    <2>2. Severed(d)
      BY <1>1, <2>1, DisconnectCuts
    <2> QED
      BY <2>1, <2>2 DEF Severed, Wait
  <1>9. ~(\/ PairBegin(d) \/ SendIdentity(d) \/ ExchangeReceive(d) \/ Approve(d)
          \/ Confirm(d) \/ SessionPing(d) \/ SessionPong(d) \/ SessionEOF(d)
          \/ SessionHangUp(d))
    BY <1>1
    DEF PairBegin, SendIdentity, ExchangeReceive, Approve, Confirm, SessionPing,
        SessionPong, SessionEOF, SessionHangUp, Concluded, Talk, Pinging
  <1> QED
    BY <1>4, <1>5, <1>6, <1>7, <1>8, <1>9 DEF CallStep, ClientStep

\* A handler that finds a text waiting can only receive it.
LEMMA HandlerWait ==
    ASSUME Shape, NEW d \in SendCall, Wait(d), HandlerStep(d)
    PROVE  Wait(d)'
  <1>1. d \in Call /\ UNCHANGED <<clientPC, outcome>>
    BY HandlerFrame DEF SendCall, callVars
  <1>2. CASE outcome[d] = "ok" /\ inbox[d] = "none" /\ "server" \in open[d]
    <2>1. handlerPC[d] = "loop" /\ toServer[d] = <<"MESSAGE">>
      BY <1>2 DEF Wait
    <2>2. LoopMessage(d)
      BY <2>1
      DEF HandlerStep, Register, ReadTrust, ReceiveFirst, ReceiveFails, ReplyHello,
          LoopPing, DecidePair, StorePair, ReplyPair, HandlerExit, ServerReads,
          ServerEOF
    <2>3. open' = open /\ inbox'[d] # "none"
      BY <1>1, <2>2 DEF LoopMessage, Shape
    <2> QED
      BY <1>1, <2>3 DEF Wait
  <1>3. CASE ~(outcome[d] = "ok" /\ inbox[d] = "none" /\ "server" \in open[d])
    <2>1. inbox'[d] = "none" => inbox[d] = "none"
      BY <1>1
      DEF HandlerStep, Register, ReadTrust, ReceiveFirst, ReceiveFails, ReplyHello,
          LoopPing, LoopMessage, DecidePair, StorePair, ReplyPair, HandlerExit,
          handlerVars, Shape
    <2>2. CASE HandlerExit(d)
      <3>1. Disconnect({}, {d})
        BY <2>2 DEF HandlerExit
      <3>2. "client" \notin open[d] \ open'[d] /\ "server" \notin open'[d]
        BY <1>1, <3>1, DisconnectCuts
      <3> QED
        BY <1>1, <3>2 DEF Wait
    <2>3. CASE ~HandlerExit(d)
      <3>1. open' = open
        BY <2>3
        DEF HandlerStep, Register, ReadTrust, ReceiveFirst, ReceiveFails, ReplyHello,
            LoopPing, LoopMessage, DecidePair, StorePair, ReplyPair, netVars
      <3> QED
        BY <1>1, <1>3, <2>1, <3>1 DEF Wait
    <2> QED
      BY <2>2, <2>3
  <1> QED
    BY <1>2, <1>3

\* No step loses it while the receiving end is open.
LEMMA NextWaited ==
    Shape /\ Concluded /\ Decided /\ Fresh /\ Dialogue /\ Posted /\ Waited /\ [Next]_vars
        => Waited'
  <1> SUFFICES ASSUME Shape, Concluded, Decided, Fresh, Dialogue, Posted, Waited,
                      [Next]_vars, NEW d \in SendCall
               PROVE  Wait(d)'
    BY DEF Waited
  <1>1. d \in Call /\ Talk(d) /\ Post(d) /\ Wait(d)
    BY DEF Dialogue, Posted, Waited, SendCall
  <1>2. CASE Kept(d)
    BY <1>1, <1>2 DEF Kept, Wait
  <1>3. CASE Cut(d)
    BY <1>1, <1>3 DEF Cut, Severed, After, Wait
  <1>4. ASSUME NEW c \in Call, CallStep(c) \/ HandlerStep(c) PROVE Wait(d)'
    BY <1>1, <1>2, <1>4, CallKeeps, HandlerKeeps, CallWait, HandlerWait
  <1>5. ASSUME NEW n \in Node, NodeStep(n) PROVE Wait(d)'
    <2>1. CASE AcceptRaw(n, d) \/ AcceptDone(n, d)
      <3>1. /\ UNCHANGED <<clientPC, outcome, open, toServer, toClient, inbox>>
            /\ handlerPC[d] = "none"
        BY <2>1, <1>1 DEF AcceptRaw, AcceptDone, callVars, handlerVars, Fresh
      <3> QED
        BY <1>1, <3>1 DEF Wait
    <2> QED
      BY <1>1, <1>2, <1>3, <1>5, <2>1, NodeKeeps
  <1>6. ASSUME NEW n \in Node, Crash(n) PROVE Wait(d)'
    BY <1>1, <1>2, <1>3, <1>6, CrashKeeps
  <1>7. CASE UNCHANGED vars
    BY <1>1, <1>7 DEF vars, netVars, callVars, handlerVars, Wait
  <1> QED
    BY <1>4, <1>5, <1>6, <1>7, NextCases

-----------------------------------------------------------------------------
(* The invariant, and that no call waits in vain *)

\* All of it holds before anything has started.
LEMMA InitExchange == Init => ExchangeInv
  <1> SUFFICES ASSUME Init PROVE ExchangeInv
    OBVIOUS
  <1>1. IInv
    BY InitIInv
  <1>2. OneHandshake /\ Occupied /\ Shaking /\ Handshaken
    BY DEF Init, NetInit, OneHandshake, Occupied, Shaking, Handshaken
  <1>3. Dialogue
    BY DEF Init, NetInit, Dialogue, Talk, Silent, Before, Ends
  <1>4. Posted
    BY DEF Init, NetInit, Posted, Post, SendCall
  <1>5. Waited
    BY DEF Init, NetInit, Waited, Wait, SendCall
  <1> QED
    BY <1>1, <1>2, <1>3, <1>4, <1>5 DEF ExchangeInv

\* Every step keeps it: the lemmas above, one per conjunct.
LEMMA NextExchange == ExchangeInv /\ [Next]_vars => ExchangeInv'
  BY NextIInv, NextOneHandshake, NextOccupied, NextShaking, NextHandshaken,
     NextDialogue, NextPosted, NextWaited
  DEF ExchangeInv, IInv

\* The conversations of all calls are in order, always.
THEOREM ExchangeInvariance == Spec => []ExchangeInv
  BY InitExchange, NextExchange, PTL DEF Spec

\* A call that waits for an answer has been answered, or has somebody at work for it,
\* or its connection has ended, so that Receive returns although it has no deadline
\* (device.go:206-212, conn.go:57).
THEOREM AnswersAreComing == Spec => []AwaitedIsComing
  <1>1. ExchangeInv => AwaitedIsComing
    <2> SUFFICES ASSUME ExchangeInv, NEW c \in Call, clientPC[c] \in {"await", "pinged"}
                 PROVE  \/ toClient[c] # <<>> /\ Head(toClient[c]) = Answer(c)
                        \/ /\ toClient[c] = <<>>
                           /\ \/ open[c] # Ends
                              \/ link[c] = "finished" /\ acceptor[at[c]] = "busy"
                              \/ AtWork(c)
      BY DEF AwaitedIsComing
    <2>1. Talk(c)
      BY DEF ExchangeInv, Dialogue
    <2>2. CASE toClient[c] # <<>>
      <3>1. toClient[c] = <<Answer(c)>>
        BY <2>1, <2>2 DEF Talk, Opened, Opening, Pinging, Answer
      <3> QED
        BY <3>1
    <2>3. CASE toClient[c] = <<>> /\ open[c] = Ends /\ handlerPC[c] = "none"
      <3>1. clientPC[c] = "await"
        BY <2>1, <2>3 DEF Talk, Pinging
      <3>2. link[c] = "finished"
        BY <2>3, <3>1 DEF ExchangeInv, Handshaken, Ends
      <3> QED
        BY <2>3, <3>2 DEF ExchangeInv, OneHandshake
    <2>4. CASE toClient[c] = <<>> /\ open[c] = Ends /\ handlerPC[c] # "none"
      BY <2>1, <2>4 DEF Talk, Opened, Pinging, AtWork, Live, Before
    <2> QED
      BY <2>2, <2>3, <2>4
  <1> QED
    BY <1>1, ExchangeInvariance, PTL

\* A text reported as sent lies in front of a handler that is about to receive it, as
\* long as the receiving end is open: whatever the sender does next, and even if it
\* crashes (device.go:203, 213-217, 267-287).
THEOREM SentTextsWait == Spec => []SentTextWaits
  <1>1. ExchangeInv => SentTextWaits
    BY DEF ExchangeInv, Waited, Wait, SentTextWaits
  <1> QED
    BY <1>1, ExchangeInvariance, PTL

\* While Close waits for its counter, somebody counted can go on, or a handler has
\* registered too late for Close to end its connection (device.go:154-160).
THEOREM CloseWaits == Spec => []CloseWaitsForSomebody
  <1>1. ExchangeInv => CloseWaitsForSomebody
    <2> SUFFICES ASSUME ExchangeInv, NEW n \in Node, life[n] = "waiting", wg[n] # 0,
                        acceptor[n] # "accepting"
                 PROVE  \E c \in Call : at[c] = n /\
                          \/ /\ acceptor[n] = "busy"
                             /\ \/ link[c] = "finished"
                                \/ /\ link[c] = "handshake"
                                   /\ clientPC[c] = "tls" \/ open[c] # Ends
                          \/ AtWork(c)
                          \/ Live(c) /\ (open[c] # Ends \/ c \in conns[n])
      BY DEF CloseWaitsForSomebody
    <2>1. CASE acceptor[n] = "busy"
      BY <2>1 DEF ExchangeInv, Occupied, Shaking
    <2>2. CASE acceptor[n] # "busy"
      <3>1. Handling(n) # {}
        BY <2>2, FS_EmptySet DEF ExchangeInv, IInv, WgCounts, AcceptLoops
      <3>2. PICK c \in Call : at[c] = n /\ Live(c)
        BY <3>1 DEF Handling
      <3>3. CASE handlerPC[c] \in {"first", "loop"}
        BY <3>2, <3>3 DEF ExchangeInv, IInv, CloseReachesHandlers, Ends
      <3>4. CASE handlerPC[c] \notin {"first", "loop"}
        BY <3>2, <3>4 DEF AtWork
      <3> QED
        BY <3>2, <3>3, <3>4
    <2> QED
      BY <2>1, <2>2
  <1> QED
    BY <1>1, ExchangeInvariance, PTL

-----------------------------------------------------------------------------
(* Device implements TextDelivery *)

Sent == [c \in SendCall |-> CallResult(c)]

Believed == {c \in SendCall : from[c] \in trust[at[c]]}

Received == [c \in SendCall |-> inbox[c]]

\* Before any call is made, every text is idle.
LEMMA DeliveryInit == Init => Delivery!Init
  BY DEF Init, Delivery!Init, SendCall, CallResult

\* Recording a device makes texts believed, and harms none.
LEMMA GrowingIsTrust ==
    ASSUME Shape, NEW n \in Node, NEW key \in Node, AddPeer(n, key) \/ UNCHANGED trust,
           Sent' = Sent, Received' = Received
    PROVE  Delivery!Trust
  <1>1. Believed \subseteq Believed'
    <2>1. \A m \in Node : trust[m] \subseteq trust'[m]
      BY AddPeerGrows
    <2> QED
      BY <2>1, CallNodes DEF Believed, SendCall
  <1>2. Believed' \in SUBSET SendCall /\ Believed' = Believed \cup Believed'
    BY <1>1 DEF Believed
  <1>3. \E T \in SUBSET SendCall : Believed' = Believed \cup T
    BY <1>2
  <1> QED
    BY <1>3 DEF Delivery!Trust, Believed, Sent, Received

\* What a step of its caller may do to a text that is being sent.
LEMMA SendSteps ==
    ASSUME Shape, Decided, Concluded, Dialogue, NEW c \in SendCall, CallStep(c)
    PROVE  /\ UNCHANGED trust
           /\ \/ CallResult(c)' = CallResult(c)
              \/ CallResult(c) = "idle" /\ CallResult(c)' = "open"
              \/ CallResult(c) = "open" /\ CallResult(c)' = "error"
              \/ clientPC[c] = "text" /\ CallResult(c) = "open" /\ CallResult(c)' = "ok"
  <1>1. c \in Call /\ kind[c] = "send" /\ Talk(c)
    BY DEF SendCall, Dialogue
  <1> USE DEF netVars, callVars, trustVars, ClientGoto, ClientFail, ClientDone
  <1>2. CASE SendTextBegin(c)
    BY <1>1, <1>2 DEF SendTextBegin, CallResult, Shape, Decided
  <1>3. CASE \/ Dial(c) \/ VerifyServer(c) \/ ConnectFails(c) \/ SendHello(c)
             \/ ExpectHello(c) \/ AwaitFails(c)
    <2>1. /\ clientPC[c] \notin {"idle", "unwind", "done"} /\ clientPC'[c] # "idle"
          /\ outcome'[c] \in {outcome[c], "error"} /\ UNCHANGED trust
      BY <1>1, <1>3
      DEF Dial, VerifyServer, ConnectFails, SendHello, ExpectHello, AwaitFails,
          ClientSend, Shape
    <2> QED
      BY <1>1, <2>1 DEF CallResult, Decided
  <1>4. CASE SendText(c)
    <2>1. /\ clientPC[c] = "text" /\ clientPC'[c] = "unwind"
          /\ outcome'[c] \in {"ok", "error"} /\ UNCHANGED trust
      BY <1>1, <1>4 DEF SendText, ClientSend, Shape
    <2> QED
      BY <1>1, <2>1 DEF CallResult, Decided
  <1>5. CASE Unwind(c)
    BY <1>1, <1>5 DEF Unwind, CallResult, Shape
  <1>6. ~(\/ PairBegin(c) \/ SendIdentity(c) \/ ExchangeReceive(c) \/ Approve(c)
          \/ Confirm(c) \/ SessionPing(c) \/ SessionPong(c) \/ SessionEOF(c)
          \/ SessionHangUp(c))
    BY <1>1
    DEF PairBegin, SendIdentity, ExchangeReceive, Approve, Confirm, SessionPing,
        SessionPong, SessionEOF, SessionHangUp, Concluded, Talk, Pinging
  <1> QED
    BY <1>2, <1>3, <1>4, <1>5, <1>6 DEF CallStep, ClientStep

\* Every step is a step of TextDelivery, or changes nothing of it.
LEMMA DeliveryStep == ExchangeInv /\ [Next]_vars => [Delivery!Next]_(Delivery!vars)
  <1> SUFFICES ASSUME ExchangeInv, [Next]_vars
               PROVE  Delivery!Next \/ UNCHANGED <<Believed, Sent, Received>>
    BY DEF Delivery!vars, Believed, Sent, Received
  <1>1. Shape /\ Vetted /\ Concluded /\ Asked /\ Decided /\ Dialogue /\ Posted
    BY DEF ExchangeInv, IInv
  <1>2. ASSUME NEW c \in Call, CallStep(c)
        PROVE  Delivery!Next \/ UNCHANGED <<Believed, Sent, Received>>
    <2>1. Received' = Received
      BY <1>2, CallFrame DEF handlerVars, Received
    <2>2. \A d \in Call : d # c => CallResult(d)' = CallResult(d)
      BY <1>1, <1>2, CallKeeps DEF Kept, CallResult
    <2>3. CASE c \notin SendCall
      <3>1. Sent' = Sent
        BY <2>2, <2>3 DEF Sent, SendCall
      <3>2. AddPeer(from[c], at[c]) \/ UNCHANGED trust
        BY <1>2
        DEF CallStep, ClientStep, PairBegin, SendTextBegin, Dial, VerifyServer,
            ConnectFails, SendIdentity, SendHello, ExchangeReceive, ExpectHello,
            AwaitFails, Approve, Confirm, AddPeerFails, SendText, Unwind, SessionPing,
            SessionPong, SessionEOF, SessionHangUp, ClientSend, ClientReads, trustVars
      <3>3. Delivery!Trust
        BY <1>1, <2>1, <3>1, <3>2, CallNodes, GrowingIsTrust
      <3> QED
        BY <3>3 DEF Delivery!Next
    <2>4. CASE c \in SendCall
      <3>1. Believed' = Believed
        BY <1>1, <1>2, <2>4, SendSteps DEF Believed
      <3>2. Sent' = [Sent EXCEPT ![c] = CallResult(c)'] /\ Sent[c] = CallResult(c)
        BY <2>2, <2>4 DEF Sent, SendCall
      <3>3. CASE CallResult(c)' = CallResult(c)
        BY <2>1, <3>1, <3>2, <3>3 DEF Sent
      <3>4. CASE CallResult(c) = "idle" /\ CallResult(c)' = "open"
        <4>1. Delivery!Begin(c)
          BY <2>1, <3>1, <3>2, <3>4 DEF Delivery!Begin, Believed, Sent, Received
        <4> QED
          BY <2>4, <4>1 DEF Delivery!Next
      <3>5. CASE CallResult(c) = "open" /\ CallResult(c)' = "error"
        <4>1. Sent' = [t \in SendCall |-> IF t \in {c} THEN "error" ELSE Sent[t]]
          BY <2>4, <3>2, <3>5 DEF Sent
        <4>2. Delivery!Fail({c})
          BY <2>1, <3>1, <3>2, <3>5, <4>1 DEF Delivery!Fail, Believed, Sent, Received
        <4> QED
          BY <2>4, <4>2 DEF Delivery!Next
      <3>6. CASE clientPC[c] = "text" /\ CallResult(c) = "open" /\ CallResult(c)' = "ok"
        <4>1. c \in Believed
          BY <1>1, <2>4, <3>6 DEF Vetted, Evidence, Believed, SendCall
        <4>2. Delivery!Succeed(c)
          BY <2>1, <3>1, <3>2, <3>6, <4>1 DEF Delivery!Succeed, Believed, Sent, Received
        <4> QED
          BY <2>4, <4>2 DEF Delivery!Next
      <3> QED
        BY <1>1, <1>2, <2>4, <3>3, <3>4, <3>5, <3>6, SendSteps
    <2> QED
      BY <2>3, <2>4
  <1>3. ASSUME NEW c \in Call, HandlerStep(c)
        PROVE  Delivery!Next \/ UNCHANGED <<Believed, Sent, Received>>
    <2>1. Sent' = Sent
      BY <1>3, HandlerFrame DEF callVars, Sent, CallResult
    <2>2. CASE LoopMessage(c)
      <3>1. Believed' = Believed
        BY <2>2 DEF LoopMessage, trustVars, Believed
      <3>2. PICK r \in {"handled", "ignored"} : inbox' = [inbox EXCEPT ![c] = r]
        BY <2>2 DEF LoopMessage
      <3>3. CASE c \notin SendCall
        BY <1>1, <2>1, <3>1, <3>2, <3>3 DEF Received, SendCall, Shape
      <3>4. CASE c \in SendCall
        <4>1. Talk(c) /\ Post(c)
          BY <1>1, <3>4 DEF Dialogue, Posted
        <4>2. ServerReads(c, "MESSAGE")
          BY <2>2 DEF LoopMessage
        <4>3. \/ toServer[c] = <<>> \/ toServer[c] = <<"HELLO">>
              \/ toServer[c] = <<"MESSAGE">>
          BY <1>1, <3>4, <4>1, SendQueue
        <4>4. toServer[c] = <<"MESSAGE">>
          BY <1>1, <4>2, <4>3, LastToServer, Zenon
        <4>5. outcome[c] = "ok" /\ inbox[c] = "none" /\ clientPC[c] # "idle"
          BY <1>1, <4>1, <4>4 DEF Post, Decided
        <4>6. /\ Sent[c] = "ok" /\ Received[c] = "none"
              /\ Received' = [Received EXCEPT ![c] = r]
          BY <1>1, <3>2, <3>4, <4>5 DEF Sent, Received, CallResult, SendCall, Shape
        <4>7. Delivery!Receive(c)
          BY <2>1, <3>1, <4>6 DEF Delivery!Receive, Believed, Sent, Received
        <4> QED
          BY <3>4, <4>7 DEF Delivery!Next
      <3> QED
        BY <3>3, <3>4
    <2>3. CASE ~LoopMessage(c)
      <3>1. inbox' = inbox
        BY <1>3, <2>3
        DEF HandlerStep, Register, ReadTrust, ReceiveFirst, ReceiveFails, ReplyHello,
            LoopPing, DecidePair, StorePair, ReplyPair, HandlerExit, handlerVars
      <3>2. AddPeer(at[c], from[c]) \/ UNCHANGED trust
        BY <1>3
        DEF HandlerStep, Register, ReadTrust, ReceiveFirst, ReceiveFails, ReplyHello,
            LoopMessage, LoopPing, DecidePair, StorePair, AddPeerFails, ReplyPair,
            HandlerExit, trustVars
      <3>3. Delivery!Trust
        BY <1>1, <2>1, <3>1, <3>2, CallNodes, GrowingIsTrust DEF Received
      <3> QED
        BY <3>3 DEF Delivery!Next
    <2> QED
      BY <2>2, <2>3
  <1>4. ASSUME NEW n \in Node, NodeStep(n)
        PROVE  Delivery!Next \/ UNCHANGED <<Believed, Sent, Received>>
    BY <1>4, NodeFrame DEF trustVars, callVars, Believed, Sent, Received, CallResult
  <1>5. ASSUME NEW n \in Node, Crash(n)
        PROVE  Delivery!Next \/ UNCHANGED <<Believed, Sent, Received>>
    <2> DEFINE T == {t \in SendCall : from[t] = n /\ Sent[t] = "open"}
    <2>1. Sent' = [t \in SendCall |-> IF t \in T THEN "error" ELSE Sent[t]]
      BY <1>1, <1>5 DEF Crash, Sent, SendCall, CallResult, Shape, Decided
    <2>2. T \in SUBSET SendCall /\ UNCHANGED <<trust, inbox>>
      BY <1>5 DEF Crash
    <2>3. Delivery!Fail(T)
      BY <2>1, <2>2 DEF Delivery!Fail, Sent
    <2> QED
      BY <2>2, <2>3 DEF Delivery!Next
  <1>6. CASE UNCHANGED vars
    BY <1>6
    DEF vars, callVars, trustVars, handlerVars, Believed, Sent, Received, CallResult
  <1> QED
    BY <1>2, <1>3, <1>4, <1>5, <1>6, NextCases

\* Sending a text keeps the promises of TextDelivery: an error means that nothing was
\* delivered, success that the text comes at most once and that the receiver trusts
\* its sender (device.go:197-217, 267-287).
THEOREM TextsImplementDelivery == Spec => DeliverySpec
  BY DeliveryInit, DeliveryStep, ExchangeInvariance, PTL
  DEF Spec, DeliverySpec, Delivery!Spec

=============================================================================
