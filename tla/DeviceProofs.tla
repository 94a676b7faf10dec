----------------------------- MODULE DeviceProofs -----------------------------
(***************************************************************************)
(* Theorems about Device, for any number of nodes and calls, any trust at  *)
(* the start, any faults and any number of crashes.                        *)
(***************************************************************************)
EXTENDS Device, FiniteSetTheorems, TLAPS

\* Everything TypeOK says except that wg counts up from zero, which is not a
\* matter of types: a decrement too many would take it below.
Shape ==
    /\ listening \in [Node -> BOOLEAN]
    /\ link \in [Call -> LinkState]
    /\ open \in [Call -> SUBSET Ends]
    /\ toServer \in [Call -> Seq(MessageType)]
    /\ toClient \in [Call -> Seq(MessageType)]
    /\ life \in [Node -> Life]
    /\ handlers \in [Node -> SUBSET Callback]
    /\ acceptor \in [Node -> AcceptorState]
    /\ wg \in [Node -> Int]
    /\ conns \in [Node -> SUBSET Call]
    /\ pending \in [Node -> SUBSET Node]
    /\ trust \in [Node -> SUBSET Node]
    /\ clientPC \in [Call -> ClientPC]
    /\ outcome \in [Call -> {"none", "ok", "error"}]
    /\ handlerPC \in [Call -> HandlerPC]
    /\ vouched \in [Call -> BOOLEAN]
    /\ inbox \in [Call -> {"none", "handled", "ignored"}]
    /\ crashes \in 0..MaxCrashes

\* What shows that the node that answers call c has recorded the caller: the
\* answer itself, and everything that comes after it on either side.
Evidence(c) ==
    \/ vouched[c]
    \/ handlerPC[c] \in {"hello", "loop", "reply"}
    \/ toClient[c] # <<>>
    \/ clientPC[c] \in {"approve", "confirm", "text", "held", "pinged"}
    \/ inbox[c] # "none"
    \/ outcome[c] = "ok"

Vetted == \A c \in Call : Evidence(c) => from[c] \in trust[at[c]]

\* Pair calls, and no others, record the node that answers, and they succeed
\* only then.
Concluded ==
    \A c \in Call :
        /\ clientPC[c] \in {"text", "held", "pinged"} => kind[c] # "pair"
        /\ clientPC[c] \in {"approve", "confirm"} => kind[c] = "pair"
        /\ kind[c] = "pair" /\ outcome[c] = "ok" => at[c] \in trust[from[c]]

\* Only a Pair call asks to be recorded.
Asked ==
    \A c \in Call : kind[c] # "pair" =>
        /\ toServer[c] \in Seq(MessageType \ {"PAIR"})
        /\ handlerPC[c] \notin {"decide", "store", "reply"}

\* A call has a result exactly from the step on that decides it.
Decided ==
    \A c \in Call : outcome[c] = "none" <=> clientPC[c] \notin {"unwind", "done"}

\* wg counts the goroutines Close has to wait for: the accept loop and the
\* handlers.
Handling(n) == {c \in Call : at[c] = n /\ Live(c)}

AcceptLoops(n) == IF acceptor[n] \in {"accepting", "busy"} THEN 1 ELSE 0

WgCounts == \A n \in Node : wg[n] = Cardinality(Handling(n)) + AcceptLoops(n)

\* A node has no goroutines before Start, and listens only until Close.
Phases ==
    \A n \in Node :
        /\ life[n] = "new" => acceptor[n] = "off" /\ Handling(n) = {}
        /\ listening[n] => life[n] = "running"

\* A connection is made once, and handled only once it is up.
Fresh ==
    \A c \in Call :
        /\ clientPC[c] \in {"idle", "dial"} => link[c] = "none"
        /\ link[c] \in {"none", "queued", "handshake", "finished"}
              => handlerPC[c] = "none"

IInv ==
    /\ Shape
    /\ Vetted /\ Concluded /\ Asked /\ Decided
    /\ WgCounts /\ Phases /\ Fresh
    /\ PinsHaveOwner /\ QuietAfterClose /\ CloseReachesHandlers

\* Closing ends of connections keeps the types of what it changes, and a queue
\* is only ever emptied by it.
LEMMA DisconnectShape ==
    ASSUME NEW C, NEW S, Shape, Disconnect(C, S)
    PROVE  /\ open' \in [Call -> SUBSET Ends]
           /\ toServer' \in [Call -> Seq(MessageType)]
           /\ toClient' \in [Call -> Seq(MessageType)]
           /\ \A c \in Call : /\ toServer'[c] \in {<<>>, toServer[c]}
                              /\ toClient'[c] \in {<<>>, toClient[c]}
  BY DEF Disconnect, Shape

\* A call is made by a node, for a node, and reaches a node.
LEMMA CallNodes ==
    ASSUME NEW c \in Call
    PROVE  from[c] \in Node /\ to[c] \in Node /\ at[c] \in Node
  BY TransportAssumption

\* One message more in a queue of messages, or the first one less.
LEMMA AppendShape ==
    ASSUME NEW c \in Call, NEW m \in MessageType, Shape
    PROVE  /\ Append(toServer[c], m) \in Seq(MessageType)
           /\ Append(toClient[c], m) \in Seq(MessageType)
  BY DEF Shape

\* Taking a message leaves a queue of messages.
LEMMA TailShape ==
    ASSUME NEW c \in Call, Shape
    PROVE  /\ toServer[c] # <<>> => Tail(toServer[c]) \in Seq(MessageType)
           /\ toClient[c] # <<>> => Tail(toClient[c]) \in Seq(MessageType)
  BY DEF Shape

\* The initial state has this shape.
LEMMA InitShape == Init => Shape
  BY DeviceAssumption, TransportAssumption
  DEF Init, NetInit, Shape, Life, AcceptorState, ClientPC, HandlerPC, LinkState

\* What a step may be: of a call, of a handler, of a node, or a crash.
CallStep(c) ==
    \/ ClientStep(c)
    \/ PairBegin(c) \/ SendTextBegin(c) \/ SessionPing(c) \/ SessionHangUp(c)

NodeStep(n) ==
    \/ Start(n) \/ CloseListener(n) \/ CloseStep(n) \/ AcceptStep(n)
    \/ \E h \in Callback : InstallHandler(n, h)

\* Every step is a step of one call, of one handler or of one node, or a crash.
LEMMA NextCases ==
    Next => \/ \E c \in Call : CallStep(c) \/ HandlerStep(c)
            \/ \E n \in Node : NodeStep(n) \/ Crash(n)
  BY DEF Next, UserStep, CallStep, NodeStep

\* What the steps of each kind leave alone.
LEMMA CallFrame ==
    ASSUME NEW c \in Call, CallStep(c)
    PROVE  UNCHANGED <<listening, nodeVars, handlerVars>>
  BY DEF CallStep, ClientStep, PairBegin, SendTextBegin, Dial, VerifyServer,
         ConnectFails, SendIdentity, SendHello, ExchangeReceive, ExpectHello,
         AwaitFails, Approve, Confirm, SendText, Unwind, SessionPing, SessionPong,
         SessionEOF, SessionHangUp, ClientSend, ClientReads, TcpConnect, netVars

\* A step of a handler leaves the caller's side and most of the node alone.
LEMMA HandlerFrame ==
    ASSUME NEW c \in Call, HandlerStep(c)
    PROVE  UNCHANGED <<listening, link, life, handlers, acceptor, crashes, pending,
                       callVars>>
  BY DEF HandlerStep, Register, ReadTrust, ReceiveFirst, ReceiveFails,
         ReplyHello,
         LoopMessage, LoopPing, DecidePair, StorePair, ReplyPair, HandlerExit,
         netVars, nodeVars, trustVars

\* A step of a node leaves every call and every store alone.
LEMMA NodeFrame ==
    ASSUME NEW n \in Node, NodeStep(n)
    PROVE  UNCHANGED <<trustVars, callVars, vouched, inbox>>
  BY DEF NodeStep, Start, CloseListener, CloseStep, CloseConns, CloseStore,
         AcceptStep, AcceptRaw, AcceptDone, AcceptFails, AcceptClosed,
         InstallHandler, handlerVars

\* No step changes it.
LEMMA NextShape == Shape /\ [Next]_vars => Shape'
  <1> SUFFICES ASSUME Shape, [Next]_vars PROVE Shape'
    OBVIOUS
  <1> USE DEF Shape, netVars, nodeVars, callVars, handlerVars, trustVars,
              ClientGoto, ClientFail, ClientDone, HandlerGoto
  <1>1. ASSUME NEW c \in Call, CallStep(c) PROVE Shape'
    <2>1. CASE PairBegin(c)
      BY <2>1, CallNodes DEF PairBegin, ClientPC
    <2>2. CASE SendTextBegin(c)
      BY <2>2 DEF SendTextBegin, ClientPC
    <2>3. CASE Dial(c)
      <3>1. CASE TcpConnect(c) /\ ClientGoto(c, "tls")
        BY <2>3, <3>1 DEF Dial, TcpConnect, ClientPC, LinkState, Ends
      <3>2. CASE ClientFail(c) /\ UNCHANGED netVars
        BY <2>3, <3>2 DEF Dial, ClientPC
      <3> QED
        BY <2>3, <3>1, <3>2 DEF Dial
    <2>4. CASE VerifyServer(c)
      BY <2>4 DEF VerifyServer, ClientPC, LinkState
    <2>5. CASE ConnectFails(c)
      BY <2>5, DisconnectShape DEF ConnectFails, ClientPC
    <2>6. CASE SendIdentity(c)
      <3>1. toServer' \in [Call -> Seq(MessageType)]
        BY <2>6, AppendShape
        DEF SendIdentity, ClientSend, SendToServer, MessageType
      <3>2. CASE ClientGoto(c, "await")
        BY <2>6, <3>1, <3>2 DEF SendIdentity, ClientSend, ClientPC
      <3>3. CASE ClientFail(c)
        BY <2>6, <3>1, <3>3 DEF SendIdentity, ClientSend, ClientPC
      <3> QED
        BY <2>6, <3>2, <3>3 DEF SendIdentity, ClientSend
    <2>7. CASE SendHello(c)
      <3>1. toServer' \in [Call -> Seq(MessageType)]
        BY <2>7, AppendShape
        DEF SendHello, ClientSend, SendToServer, MessageType
      <3>2. CASE ClientGoto(c, "await")
        BY <2>7, <3>1, <3>2 DEF SendHello, ClientSend, ClientPC
      <3>3. CASE ClientFail(c)
        BY <2>7, <3>1, <3>3 DEF SendHello, ClientSend, ClientPC
      <3> QED
        BY <2>7, <3>2, <3>3 DEF SendHello, ClientSend
    <2>8. CASE ExchangeReceive(c)
      BY <2>8, TailShape DEF ExchangeReceive, ClientReads, ClientPC
    <2>9. CASE ExpectHello(c)
      BY <2>9, TailShape DEF ExpectHello, ClientReads, ClientPC
    <2>10. CASE AwaitFails(c)
      BY <2>10 DEF AwaitFails, ClientPC
    <2>11. CASE Approve(c)
      BY <2>11 DEF Approve, ClientPC
    <2>12. CASE Confirm(c)
      <3>1. CASE AddPeer(from[c], at[c]) /\ ClientDone(c)
        BY <2>12, <3>1, CallNodes DEF Confirm, AddPeer, ClientPC
      <3>2. CASE AddPeerFails(from[c]) /\ ClientFail(c)
        BY <2>12, <3>2 DEF Confirm, AddPeerFails, ClientPC
      <3> QED
        BY <2>12, <3>1, <3>2 DEF Confirm
    <2>13. CASE SendText(c)
      <3>1. toServer' \in [Call -> Seq(MessageType)]
        BY <2>13, AppendShape
        DEF SendText, ClientSend, SendToServer, MessageType
      <3>2. CASE ClientDone(c)
        BY <2>13, <3>1, <3>2 DEF SendText, ClientSend, ClientPC
      <3>3. CASE ClientFail(c)
        BY <2>13, <3>1, <3>3 DEF SendText, ClientSend, ClientPC
      <3> QED
        BY <2>13, <3>2, <3>3 DEF SendText, ClientSend
    <2>14. CASE Unwind(c)
      BY <2>14, DisconnectShape DEF Unwind, ClientPC
    <2>15. CASE SessionPing(c)
      <3>1. toServer' \in [Call -> Seq(MessageType)]
        BY <2>15, AppendShape
        DEF SessionPing, ClientSend, SendToServer, MessageType
      <3>2. CASE ClientGoto(c, "pinged")
        BY <2>15, <3>1, <3>2 DEF SessionPing, ClientSend, ClientPC
      <3>3. CASE ClientFail(c)
        BY <2>15, <3>1, <3>3 DEF SessionPing, ClientSend, ClientPC
      <3> QED
        BY <2>15, <3>2, <3>3 DEF SessionPing, ClientSend
    <2>16. CASE SessionPong(c)
      BY <2>16, TailShape DEF SessionPong, ClientReads, ClientPC
    <2>17. CASE SessionEOF(c)
      BY <2>17 DEF SessionEOF, ClientPC
    <2>18. CASE SessionHangUp(c)
      BY <2>18 DEF SessionHangUp, ClientPC
    <2> QED
      BY <1>1, <2>1, <2>2, <2>3, <2>4, <2>5, <2>6, <2>7, <2>8, <2>9, <2>10,
         <2>11, <2>12, <2>13, <2>14, <2>15, <2>16, <2>17, <2>18
      DEF CallStep, ClientStep
  <1>2. ASSUME NEW c \in Call, HandlerStep(c) PROVE Shape'
    <2>1. CASE Register(c)
      BY <2>1 DEF Register, HandlerPC
    <2>2. CASE ReadTrust(c)
      BY <2>2 DEF ReadTrust, StoreTrusted, HandlerPC
    <2>3. CASE ReceiveFirst(c)
      BY <2>3, TailShape DEF ReceiveFirst, ServerReads, Dispatch, HandlerPC
    <2>4. CASE ReceiveFails(c)
      BY <2>4 DEF ReceiveFails, HandlerPC
    <2>5. CASE ReplyHello(c)
      BY <2>5, AppendShape DEF ReplyHello, SendToClient, MessageType, HandlerPC
    <2>6. CASE LoopMessage(c)
      BY <2>6, TailShape DEF LoopMessage, ServerReads
    <2>7. CASE LoopPing(c)
      BY <2>7, AppendShape, TailShape
      DEF LoopPing, SendToClient, ServerReads, MessageType
    <2>8. CASE DecidePair(c)
      <3>1. PICK pc \in HandlerPC : HandlerGoto(c, pc)
        BY <2>8 DEF DecidePair, HandlerPC
      <3> QED
        BY <2>8, <3>1 DEF DecidePair
    <2>9. CASE StorePair(c)
      <3>1. CASE AddPeer(at[c], from[c]) /\ HandlerGoto(c, "reply")
        BY <2>9, <3>1, CallNodes DEF StorePair, AddPeer, HandlerPC
      <3>2. CASE AddPeerFails(at[c]) /\ HandlerGoto(c, "exit")
        BY <2>9, <3>2 DEF StorePair, AddPeerFails, HandlerPC
      <3> QED
        BY <2>9, <3>1, <3>2 DEF StorePair
    <2>10. CASE ReplyPair(c)
      BY <2>10, AppendShape DEF ReplyPair, SendToClient, MessageType, HandlerPC
    <2>11. CASE HandlerExit(c)
      <3>1. wg' \in [Node -> Int] /\ conns' \in [Node -> SUBSET Call]
        BY <2>11, CallNodes DEF HandlerExit
      <3> QED
        BY <2>11, <3>1, DisconnectShape DEF HandlerExit, HandlerPC
    <2> QED
      BY <1>2, <2>1, <2>2, <2>3, <2>4, <2>5, <2>6, <2>7, <2>8, <2>9, <2>10,
         <2>11
      DEF HandlerStep
  <1>3. ASSUME NEW n \in Node, NodeStep(n) PROVE Shape'
    <2>1. CASE Start(n)
      BY <2>1 DEF Start, Life, AcceptorState
    <2>2. CASE CloseListener(n)
      BY <2>2, DisconnectShape DEF CloseListener, Life, LinkState
    <2>3. CASE CloseConns(n)
      BY <2>3, DisconnectShape DEF CloseConns, Life
    <2>4. CASE CloseStore(n)
      BY <2>4 DEF CloseStore, Life
    <2>5. ASSUME NEW c \in Call, AcceptRaw(n, c) PROVE Shape'
      BY <2>5 DEF AcceptRaw, AcceptorState, LinkState
    <2>6. ASSUME NEW c \in Call, AcceptDone(n, c) PROVE Shape'
      BY <2>6 DEF AcceptDone, AcceptorState, LinkState, HandlerPC
    <2>7. ASSUME NEW c \in Call, AcceptFails(n, c) PROVE Shape'
      <3>1. wg' \in [Node -> Int] /\ acceptor' \in [Node -> AcceptorState]
        BY <2>7 DEF AcceptFails, AcceptorState
      <3>2. link' \in [Call -> LinkState]
        BY <2>7 DEF AcceptFails, LinkState
      <3>3. Disconnect({}, {c})
        BY <2>7 DEF AcceptFails
      <3> QED
        BY <2>7, <3>1, <3>2, <3>3, DisconnectShape DEF AcceptFails
    <2>8. CASE AcceptClosed(n)
      BY <2>8 DEF AcceptClosed, AcceptorState
    <2>9. ASSUME NEW h \in Callback, InstallHandler(n, h) PROVE Shape'
      BY <2>9 DEF InstallHandler
    <2> QED
      BY <1>3, <2>1, <2>2, <2>3, <2>4, <2>5, <2>6, <2>7, <2>8, <2>9
      DEF NodeStep, AcceptStep, CloseStep
  <1>4. ASSUME NEW n \in Node, Crash(n) PROVE Shape'
    <2>1. /\ life' \in [Node -> Life]
          /\ acceptor' \in [Node -> AcceptorState]
          /\ link' \in [Call -> LinkState]
          /\ clientPC' \in [Call -> ClientPC]
          /\ outcome' \in [Call -> {"none", "ok", "error"}]
          /\ handlerPC' \in [Call -> HandlerPC]
      BY <1>4 DEF Crash, Life, AcceptorState, LinkState, ClientPC, HandlerPC
    <2>2. /\ open' \in [Call -> SUBSET Ends]
          /\ toServer' \in [Call -> Seq(MessageType)]
          /\ toClient' \in [Call -> Seq(MessageType)]
      BY <1>4, DisconnectShape DEF Crash
    <2>3. /\ handlers' \in [Node -> SUBSET Callback]
          /\ conns' \in [Node -> SUBSET Call]
          /\ pending' \in [Node -> SUBSET Node]
          /\ wg' \in [Node -> Int]
          /\ listening' \in [Node -> BOOLEAN]
          /\ crashes' \in 0..MaxCrashes
      BY <1>4, DeviceAssumption DEF Crash
    <2> QED
      BY <1>4, <2>1, <2>2, <2>3 DEF Crash
  <1>5. CASE UNCHANGED vars
    BY <1>5 DEF vars
  <1> QED
    BY <1>1, <1>2, <1>3, <1>4, <1>5, NextCases

\* AddPeer adds one key to one node's store.
LEMMA AddPeerGrows ==
    ASSUME Shape, NEW n \in Node, NEW key \in Node, AddPeer(n, key)
    PROVE  /\ key \in trust'[n]
           /\ \A m \in Node : trust[m] \subseteq trust'[m]
  BY DEF Shape, AddPeer

\* Evidence appears only where the caller is trusted, and trust never shrinks.
LEMMA NextVetted == Shape /\ Vetted /\ [Next]_vars => Vetted'
  <1> SUFFICES ASSUME Shape, Vetted, [Next]_vars, NEW d \in Call, Evidence(d)'
               PROVE  from[d] \in trust'[at[d]]
    BY DEF Vetted
  <1> USE DEF Shape, Evidence, netVars, nodeVars, callVars, handlerVars,
              trustVars, ClientGoto, ClientFail, ClientDone, HandlerGoto
  <1>1. ASSUME NEW c \in Call, CallStep(c) PROVE from[d] \in trust'[at[d]]
    <2>1. CASE PairBegin(c)
      BY <2>1 DEF Vetted, PairBegin
    <2>2. CASE SendTextBegin(c)
      BY <2>2 DEF Vetted, SendTextBegin
    <2>3. CASE Dial(c)
      <3>1. UNCHANGED toClient
        BY <2>3 DEF Dial, TcpConnect, netVars
      <3>2. CASE ClientGoto(c, "tls")
        BY <2>3, <3>1, <3>2 DEF Vetted, Dial
      <3>3. CASE ClientFail(c)
        BY <2>3, <3>1, <3>3 DEF Vetted, Dial
      <3> QED
        BY <2>3, <3>2, <3>3 DEF Dial
    <2>4. CASE VerifyServer(c)
      BY <2>4 DEF Vetted, VerifyServer
    <2>5. CASE ConnectFails(c)
      BY <2>5, DisconnectShape DEF Vetted, ConnectFails
    <2>6. CASE SendIdentity(c)
      BY <2>6 DEF Vetted, SendIdentity, ClientSend
    <2>7. CASE SendHello(c)
      BY <2>7 DEF Vetted, SendHello, ClientSend
    <2>8. CASE ExchangeReceive(c)
      BY <2>8 DEF Vetted, ExchangeReceive, ClientReads
    <2>9. CASE ExpectHello(c)
      BY <2>9 DEF Vetted, ExpectHello, ClientReads
    <2>10. CASE AwaitFails(c)
      BY <2>10 DEF Vetted, AwaitFails, ClientEOF
    <2>11. CASE Approve(c)
      BY <2>11 DEF Vetted, Approve
    <2>12. CASE Confirm(c)
      <3>1. trust[at[d]] \subseteq trust'[at[d]]
        <4>1. AddPeer(from[c], at[c]) \/ UNCHANGED trust
          BY <2>12 DEF Confirm, AddPeerFails
        <4> QED
          BY <4>1, CallNodes, AddPeerGrows
      <3>2. UNCHANGED <<toClient, handlerVars>>
        BY <2>12 DEF Confirm, netVars
      <3>3. CASE d = c
        BY <2>12, <3>1, <3>3 DEF Vetted, Confirm
      <3>4. CASE d # c
        BY <2>12, <3>1, <3>2, <3>4 DEF Vetted, Confirm
      <3> QED
        BY <3>3, <3>4
    <2>13. CASE SendText(c)
      BY <2>13 DEF Vetted, SendText, ClientSend
    <2>14. CASE Unwind(c)
      BY <2>14, DisconnectShape DEF Vetted, Unwind
    <2>15. CASE SessionPing(c)
      BY <2>15 DEF Vetted, SessionPing, ClientSend
    <2>16. CASE SessionPong(c)
      BY <2>16 DEF Vetted, SessionPong, ClientReads
    <2>17. CASE SessionEOF(c)
      BY <2>17 DEF Vetted, SessionEOF, ClientEOF
    <2>18. CASE SessionHangUp(c)
      BY <2>18 DEF Vetted, SessionHangUp
    <2> QED
      BY <1>1, <2>1, <2>2, <2>3, <2>4, <2>5, <2>6, <2>7, <2>8, <2>9, <2>10,
         <2>11, <2>12, <2>13, <2>14, <2>15, <2>16, <2>17, <2>18
      DEF CallStep, ClientStep
  <1>2. ASSUME NEW c \in Call, HandlerStep(c) PROVE from[d] \in trust'[at[d]]
    <2>1. CASE Register(c)
      BY <2>1 DEF Vetted, Register
    <2>2. CASE ReadTrust(c)
      BY <2>2 DEF Vetted, ReadTrust, StoreTrusted
    <2>3. CASE ReceiveFirst(c)
      BY <2>3 DEF Vetted, ReceiveFirst, ServerReads, Dispatch
    <2>4. CASE ReceiveFails(c)
      BY <2>4 DEF Vetted, ReceiveFails, ServerEOF
    <2>5. CASE ReplyHello(c)
      BY <2>5 DEF Vetted, ReplyHello, SendToClient
    <2>6. CASE LoopMessage(c)
      BY <2>6 DEF Vetted, LoopMessage, ServerReads
    <2>7. CASE LoopPing(c)
      BY <2>7 DEF Vetted, LoopPing, ServerReads, SendToClient
    <2>8. CASE DecidePair(c)
      BY <2>8 DEF Vetted, DecidePair
    <2>9. CASE StorePair(c)
      <3>1. CASE AddPeer(at[c], from[c]) /\ HandlerGoto(c, "reply")
        <4>1. trust[at[d]] \subseteq trust'[at[d]] /\ from[c] \in trust'[at[c]]
          BY <3>1, CallNodes, AddPeerGrows
        <4>2. d # c => Evidence(d)
          BY <2>9, <3>1 DEF StorePair, netVars
        <4> QED
          BY <4>1, <4>2 DEF Vetted
      <3>2. CASE AddPeerFails(at[c]) /\ HandlerGoto(c, "exit")
        BY <2>9, <3>2 DEF Vetted, StorePair, AddPeerFails, netVars
      <3> QED
        BY <2>9, <3>1, <3>2 DEF StorePair
    <2>10. CASE ReplyPair(c)
      BY <2>10 DEF Vetted, ReplyPair, SendToClient
    <2>11. CASE HandlerExit(c)
      BY <2>11, DisconnectShape DEF Vetted, HandlerExit
    <2> QED
      BY <1>2, <2>1, <2>2, <2>3, <2>4, <2>5, <2>6, <2>7, <2>8, <2>9, <2>10,
         <2>11
      DEF HandlerStep
  <1>3. ASSUME NEW n \in Node, NodeStep(n) PROVE from[d] \in trust'[at[d]]
    <2>1. CASE Start(n)
      BY <2>1 DEF Vetted, Start
    <2>2. CASE CloseListener(n)
      BY <2>2, DisconnectShape DEF Vetted, CloseListener
    <2>3. CASE CloseConns(n)
      BY <2>3, DisconnectShape DEF Vetted, CloseConns
    <2>4. CASE CloseStore(n)
      BY <2>4 DEF Vetted, CloseStore
    <2>5. ASSUME NEW c \in Call, AcceptRaw(n, c)
         PROVE  from[d] \in trust'[at[d]]
      BY <2>5 DEF Vetted, AcceptRaw
    <2>6. ASSUME NEW c \in Call, AcceptDone(n, c)
         PROVE  from[d] \in trust'[at[d]]
      BY <2>6 DEF Vetted, AcceptDone
    <2>7. ASSUME NEW c \in Call, AcceptFails(n, c)
         PROVE  from[d] \in trust'[at[d]]
      BY <2>7, DisconnectShape DEF Vetted, AcceptFails
    <2>8. CASE AcceptClosed(n)
      BY <2>8 DEF Vetted, AcceptClosed
    <2>9. ASSUME NEW h \in Callback, InstallHandler(n, h)
         PROVE  from[d] \in trust'[at[d]]
      BY <2>9 DEF Vetted, InstallHandler
    <2> QED
      BY <1>3, <2>1, <2>2, <2>3, <2>4, <2>5, <2>6, <2>7, <2>8, <2>9
      DEF NodeStep, AcceptStep, CloseStep
  <1>4. ASSUME NEW n \in Node, Crash(n) PROVE from[d] \in trust'[at[d]]
    BY <1>4, DisconnectShape DEF Vetted, Crash
  <1>5. CASE UNCHANGED vars
    BY <1>5 DEF Vetted, vars
  <1> QED
    BY <1>1, <1>2, <1>3, <1>4, <1>5, NextCases

\* Only Confirm makes a Pair call successful, and it records the other node.
LEMMA NextConcluded == Shape /\ Concluded /\ [Next]_vars => Concluded'
  <1> SUFFICES ASSUME Shape, Concluded, [Next]_vars PROVE Concluded'
    OBVIOUS
  <1> USE DEF Shape, Concluded, netVars, nodeVars, callVars, handlerVars,
              trustVars, ClientGoto, ClientFail, ClientDone, HandlerGoto
  <1>1. ASSUME NEW c \in Call, CallStep(c) PROVE Concluded'
    <2>1. CASE PairBegin(c)
      BY <2>1 DEF PairBegin
    <2>2. CASE SendTextBegin(c)
      BY <2>2 DEF SendTextBegin
    <2>3. CASE Dial(c)
      BY <2>3 DEF Dial, TcpConnect
    <2>4. CASE VerifyServer(c)
      BY <2>4 DEF VerifyServer
    <2>5. CASE ConnectFails(c)
      BY <2>5 DEF ConnectFails
    <2>6. CASE SendIdentity(c)
      BY <2>6 DEF SendIdentity, ClientSend
    <2>7. CASE SendHello(c)
      BY <2>7 DEF SendHello, ClientSend
    <2>8. CASE ExchangeReceive(c)
      BY <2>8 DEF ExchangeReceive, ClientReads
    <2>9. CASE ExpectHello(c)
      BY <2>9 DEF ExpectHello, ClientReads
    <2>10. CASE AwaitFails(c)
      BY <2>10 DEF AwaitFails
    <2>11. CASE Approve(c)
      BY <2>11 DEF Approve
    <2>12. CASE Confirm(c)
      <3>1. CASE AddPeer(from[c], at[c]) /\ ClientDone(c)
        <4>1. at[c] \in trust'[from[c]] /\ \A m \in Node : trust[m] \subseteq trust'[m]
          BY <3>1, CallNodes, AddPeerGrows
        <4> QED
          BY <2>12, <3>1, <4>1, CallNodes DEF Confirm
      <3>2. CASE AddPeerFails(from[c]) /\ ClientFail(c)
        BY <2>12, <3>2 DEF Confirm, AddPeerFails
      <3> QED
        BY <2>12, <3>1, <3>2 DEF Confirm
    <2>13. CASE SendText(c)
      BY <2>13 DEF SendText, ClientSend
    <2>14. CASE Unwind(c)
      BY <2>14 DEF Unwind
    <2>15. CASE SessionPing(c)
      BY <2>15 DEF SessionPing, ClientSend
    <2>16. CASE SessionPong(c)
      BY <2>16 DEF SessionPong, ClientReads
    <2>17. CASE SessionEOF(c)
      BY <2>17 DEF SessionEOF
    <2>18. CASE SessionHangUp(c)
      BY <2>18 DEF SessionHangUp
    <2> QED
      BY <1>1, <2>1, <2>2, <2>3, <2>4, <2>5, <2>6, <2>7, <2>8, <2>9, <2>10,
         <2>11, <2>12, <2>13, <2>14, <2>15, <2>16, <2>17, <2>18
      DEF CallStep, ClientStep
  <1>2. ASSUME NEW c \in Call, HandlerStep(c) PROVE Concluded'
    <2>1. CASE Register(c)
      BY <2>1 DEF Register
    <2>2. CASE ReadTrust(c)
      BY <2>2 DEF ReadTrust
    <2>3. CASE ReceiveFirst(c)
      BY <2>3 DEF ReceiveFirst, ServerReads
    <2>4. CASE ReceiveFails(c)
      BY <2>4 DEF ReceiveFails
    <2>5. CASE ReplyHello(c)
      BY <2>5 DEF ReplyHello
    <2>6. CASE LoopMessage(c)
      BY <2>6 DEF LoopMessage, ServerReads
    <2>7. CASE LoopPing(c)
      BY <2>7 DEF LoopPing, ServerReads
    <2>8. CASE DecidePair(c)
      BY <2>8 DEF DecidePair
    <2>9. CASE StorePair(c)
      <3>1. AddPeer(at[c], from[c]) \/ UNCHANGED trust
        BY <2>9 DEF StorePair, AddPeerFails
      <3>2. \A m \in Node : trust[m] \subseteq trust'[m]
        BY <3>1, CallNodes, AddPeerGrows
      <3> QED
        BY <2>9, <3>2, CallNodes DEF StorePair
    <2>10. CASE ReplyPair(c)
      BY <2>10 DEF ReplyPair
    <2>11. CASE HandlerExit(c)
      BY <2>11 DEF HandlerExit
    <2> QED
      BY <1>2, <2>1, <2>2, <2>3, <2>4, <2>5, <2>6, <2>7, <2>8, <2>9, <2>10,
         <2>11
      DEF HandlerStep
  <1>3. ASSUME NEW n \in Node, NodeStep(n) PROVE Concluded'
    BY <1>3, NodeFrame
  <1>4. ASSUME NEW n \in Node, Crash(n) PROVE Concluded'
    BY <1>4 DEF Crash
  <1>5. CASE UNCHANGED vars
    BY <1>5 DEF vars
  <1> QED
    BY <1>1, <1>2, <1>3, <1>4, <1>5, NextCases

\* A result and the step to "unwind" go together.
LEMMA NextDecided == Shape /\ Decided /\ [Next]_vars => Decided'
  <1> SUFFICES ASSUME Shape, Decided, [Next]_vars PROVE Decided'
    OBVIOUS
  <1> USE DEF Shape, Decided, netVars, nodeVars, callVars, handlerVars,
              trustVars, ClientGoto, ClientFail, ClientDone, HandlerGoto
  <1>1. ASSUME NEW c \in Call, CallStep(c) PROVE Decided'
    <2>1. CASE PairBegin(c)
      BY <2>1 DEF PairBegin
    <2>2. CASE SendTextBegin(c)
      BY <2>2 DEF SendTextBegin
    <2>3. CASE Dial(c)
      BY <2>3 DEF Dial
    <2>4. CASE VerifyServer(c)
      BY <2>4 DEF VerifyServer
    <2>5. CASE ConnectFails(c)
      BY <2>5 DEF ConnectFails
    <2>6. CASE SendIdentity(c)
      BY <2>6 DEF SendIdentity, ClientSend
    <2>7. CASE SendHello(c)
      BY <2>7 DEF SendHello, ClientSend
    <2>8. CASE ExchangeReceive(c)
      BY <2>8 DEF ExchangeReceive, ClientReads
    <2>9. CASE ExpectHello(c)
      BY <2>9 DEF ExpectHello, ClientReads
    <2>10. CASE AwaitFails(c)
      BY <2>10 DEF AwaitFails
    <2>11. CASE Approve(c)
      BY <2>11 DEF Approve
    <2>12. CASE Confirm(c)
      BY <2>12 DEF Confirm
    <2>13. CASE SendText(c)
      BY <2>13 DEF SendText, ClientSend
    <2>14. CASE Unwind(c)
      BY <2>14 DEF Unwind
    <2>15. CASE SessionPing(c)
      BY <2>15 DEF SessionPing, ClientSend
    <2>16. CASE SessionPong(c)
      BY <2>16 DEF SessionPong, ClientReads
    <2>17. CASE SessionEOF(c)
      BY <2>17 DEF SessionEOF
    <2>18. CASE SessionHangUp(c)
      BY <2>18 DEF SessionHangUp
    <2> QED
      BY <1>1, <2>1, <2>2, <2>3, <2>4, <2>5, <2>6, <2>7, <2>8, <2>9, <2>10,
         <2>11, <2>12, <2>13, <2>14, <2>15, <2>16, <2>17, <2>18
      DEF CallStep, ClientStep
  <1>2. ASSUME NEW c \in Call, HandlerStep(c) PROVE Decided'
    BY <1>2, HandlerFrame
  <1>3. ASSUME NEW n \in Node, NodeStep(n) PROVE Decided'
    BY <1>3, NodeFrame
  <1>4. ASSUME NEW n \in Node, Crash(n) PROVE Decided'
    BY <1>4 DEF Crash
  <1>5. CASE UNCHANGED vars
    BY <1>5 DEF vars
  <1> QED
    BY <1>1, <1>2, <1>3, <1>4, <1>5, NextCases

\* A connection goes through its states once.
LEMMA NextFresh == Shape /\ Fresh /\ [Next]_vars => Fresh'
  <1> SUFFICES ASSUME Shape, Fresh, [Next]_vars PROVE Fresh'
    OBVIOUS
  <1> USE DEF Shape, Fresh, netVars, nodeVars, callVars, handlerVars,
              trustVars, ClientGoto, ClientFail, ClientDone, HandlerGoto
  <1>1. ASSUME NEW c \in Call, CallStep(c) PROVE Fresh'
    <2>1. CASE PairBegin(c)
      BY <2>1 DEF PairBegin
    <2>2. CASE SendTextBegin(c)
      BY <2>2 DEF SendTextBegin
    <2>3. CASE Dial(c)
      BY <2>3 DEF Dial, TcpConnect
    <2>4. CASE VerifyServer(c)
      BY <2>4 DEF VerifyServer
    <2>5. CASE ConnectFails(c)
      BY <2>5 DEF ConnectFails
    <2>6. CASE SendIdentity(c)
      BY <2>6 DEF SendIdentity, ClientSend
    <2>7. CASE SendHello(c)
      BY <2>7 DEF SendHello, ClientSend
    <2>8. CASE ExchangeReceive(c)
      BY <2>8 DEF ExchangeReceive, ClientReads
    <2>9. CASE ExpectHello(c)
      BY <2>9 DEF ExpectHello, ClientReads
    <2>10. CASE AwaitFails(c)
      BY <2>10 DEF AwaitFails
    <2>11. CASE Approve(c)
      BY <2>11 DEF Approve
    <2>12. CASE Confirm(c)
      BY <2>12 DEF Confirm
    <2>13. CASE SendText(c)
      BY <2>13 DEF SendText, ClientSend
    <2>14. CASE Unwind(c)
      BY <2>14 DEF Unwind
    <2>15. CASE SessionPing(c)
      BY <2>15 DEF SessionPing, ClientSend
    <2>16. CASE SessionPong(c)
      BY <2>16 DEF SessionPong, ClientReads
    <2>17. CASE SessionEOF(c)
      BY <2>17 DEF SessionEOF
    <2>18. CASE SessionHangUp(c)
      BY <2>18 DEF SessionHangUp
    <2> QED
      BY <1>1, <2>1, <2>2, <2>3, <2>4, <2>5, <2>6, <2>7, <2>8, <2>9, <2>10,
         <2>11, <2>12, <2>13, <2>14, <2>15, <2>16, <2>17, <2>18
      DEF CallStep, ClientStep
  <1>2. ASSUME NEW c \in Call, HandlerStep(c) PROVE Fresh'
    <2>1. CASE Register(c)
      BY <2>1 DEF Register
    <2>2. CASE ReadTrust(c)
      BY <2>2 DEF ReadTrust
    <2>3. CASE ReceiveFirst(c)
      BY <2>3 DEF ReceiveFirst, ServerReads
    <2>4. CASE ReceiveFails(c)
      BY <2>4 DEF ReceiveFails
    <2>5. CASE ReplyHello(c)
      BY <2>5 DEF ReplyHello
    <2>6. CASE LoopMessage(c)
      BY <2>6 DEF LoopMessage, ServerReads
    <2>7. CASE LoopPing(c)
      BY <2>7 DEF LoopPing, ServerReads
    <2>8. CASE DecidePair(c)
      BY <2>8 DEF DecidePair
    <2>9. CASE StorePair(c)
      BY <2>9 DEF StorePair
    <2>10. CASE ReplyPair(c)
      BY <2>10 DEF ReplyPair
    <2>11. CASE HandlerExit(c)
      BY <2>11 DEF HandlerExit
    <2> QED
      BY <1>2, <2>1, <2>2, <2>3, <2>4, <2>5, <2>6, <2>7, <2>8, <2>9, <2>10,
         <2>11
      DEF HandlerStep
  <1>3. ASSUME NEW n \in Node, NodeStep(n) PROVE Fresh'
    <2>1. CASE Start(n)
      BY <2>1 DEF Start
    <2>2. CASE CloseListener(n)
      BY <2>2 DEF CloseListener
    <2>3. CASE CloseConns(n)
      BY <2>3 DEF CloseConns
    <2>4. CASE CloseStore(n)
      BY <2>4 DEF CloseStore
    <2>5. ASSUME NEW c \in Call, AcceptRaw(n, c) PROVE Fresh'
      BY <2>5 DEF AcceptRaw
    <2>6. ASSUME NEW c \in Call, AcceptDone(n, c) PROVE Fresh'
      BY <2>6 DEF AcceptDone
    <2>7. ASSUME NEW c \in Call, AcceptFails(n, c) PROVE Fresh'
      BY <2>7 DEF AcceptFails
    <2>8. CASE AcceptClosed(n)
      BY <2>8 DEF AcceptClosed
    <2>9. ASSUME NEW h \in Callback, InstallHandler(n, h) PROVE Fresh'
      BY <2>9 DEF InstallHandler
    <2> QED
      BY <1>3, <2>1, <2>2, <2>3, <2>4, <2>5, <2>6, <2>7, <2>8, <2>9
      DEF NodeStep, AcceptStep, CloseStep
  <1>4. ASSUME NEW n \in Node, Crash(n) PROVE Fresh'
    BY <1>4 DEF Crash
  <1>5. CASE UNCHANGED vars
    BY <1>5 DEF vars
  <1> QED
    BY <1>1, <1>2, <1>3, <1>4, <1>5, NextCases

\* A pin and the call that owns it disappear together.
LEMMA NextPins == Shape /\ PinsHaveOwner /\ [Next]_vars => PinsHaveOwner'
  <1> SUFFICES ASSUME Shape, PinsHaveOwner, [Next]_vars PROVE PinsHaveOwner'
    OBVIOUS
  <1> USE DEF Shape, netVars, nodeVars, callVars, handlerVars, trustVars,
              ClientGoto, ClientFail, ClientDone, HandlerGoto
  <1>1. ASSUME NEW c \in Call, CallStep(c) PROVE PinsHaveOwner'
    <2>1. CASE PairBegin(c)
      BY <2>1 DEF PinsHaveOwner, PairBegin
    <2>2. CASE SendTextBegin(c)
      BY <2>2 DEF PinsHaveOwner, SendTextBegin
    <2>3. CASE Dial(c)
      <3>1. PICK pc \in {"tls", "unwind"} : clientPC' = [clientPC EXCEPT ![c] = pc]
        BY <2>3 DEF Dial
      <3> QED
        BY <2>3, <3>1 DEF PinsHaveOwner, Dial
    <2>4. CASE VerifyServer(c)
      BY <2>4 DEF PinsHaveOwner, VerifyServer
    <2>5. CASE ConnectFails(c)
      BY <2>5 DEF PinsHaveOwner, ConnectFails
    <2>6. CASE SendIdentity(c)
      <3>1. PICK pc \in {"await", "unwind"} : clientPC' = [clientPC EXCEPT ![c] = pc]
        BY <2>6 DEF SendIdentity, ClientSend
      <3> QED
        BY <2>6, <3>1 DEF PinsHaveOwner, SendIdentity
    <2>7. CASE SendHello(c)
      <3>1. PICK pc \in {"await", "unwind"} : clientPC' = [clientPC EXCEPT ![c] = pc]
        BY <2>7 DEF SendHello, ClientSend
      <3> QED
        BY <2>7, <3>1 DEF PinsHaveOwner, SendHello
    <2>8. CASE ExchangeReceive(c)
      BY <2>8 DEF PinsHaveOwner, ExchangeReceive, ClientReads
    <2>9. CASE ExpectHello(c)
      BY <2>9 DEF PinsHaveOwner, ExpectHello, ClientReads
    <2>10. CASE AwaitFails(c)
      BY <2>10 DEF PinsHaveOwner, AwaitFails
    <2>11. CASE Approve(c)
      <3>1. PICK pc \in {"confirm", "unwind"} : clientPC' = [clientPC EXCEPT ![c] = pc]
        BY <2>11 DEF Approve
      <3> QED
        BY <2>11, <3>1 DEF PinsHaveOwner, Approve
    <2>12. CASE Confirm(c)
      <3>1. PICK pc \in {"unwind"} : clientPC' = [clientPC EXCEPT ![c] = pc]
        BY <2>12 DEF Confirm
      <3> QED
        BY <2>12, <3>1 DEF PinsHaveOwner, Confirm
    <2>13. CASE SendText(c)
      <3>1. PICK pc \in {"unwind"} : clientPC' = [clientPC EXCEPT ![c] = pc]
        BY <2>13 DEF SendText, ClientSend
      <3> QED
        BY <2>13, <3>1 DEF PinsHaveOwner, SendText
    <2>14. CASE Unwind(c)
      <3> SUFFICES ASSUME NEW n \in Node, NEW k \in pending'[n]
                   PROVE  \E o \in Call : /\ kind[o] = "pair" /\ from[o] = n /\ to[o] = k
                                          /\ clientPC'[o] \notin {"idle", "done"}
        BY DEF PinsHaveOwner
      <3>1. k \in pending[n] /\ ~(kind[c] = "pair" /\ from[c] = n /\ to[c] = k)
        BY <2>14 DEF Unwind
      <3>2. PICK o \in Call : /\ kind[o] = "pair" /\ from[o] = n /\ to[o] = k
                              /\ clientPC[o] \notin {"idle", "done"}
        BY <3>1 DEF PinsHaveOwner
      <3> QED
        BY <2>14, <3>1, <3>2 DEF Unwind
    <2>15. CASE SessionPing(c)
      <3>1. PICK pc \in {"pinged", "unwind"} : clientPC' = [clientPC EXCEPT ![c] = pc]
        BY <2>15 DEF SessionPing, ClientSend
      <3> QED
        BY <2>15, <3>1 DEF PinsHaveOwner, SessionPing
    <2>16. CASE SessionPong(c)
      BY <2>16 DEF PinsHaveOwner, SessionPong, ClientReads
    <2>17. CASE SessionEOF(c)
      BY <2>17 DEF PinsHaveOwner, SessionEOF
    <2>18. CASE SessionHangUp(c)
      BY <2>18 DEF PinsHaveOwner, SessionHangUp
    <2> QED
      BY <1>1, <2>1, <2>2, <2>3, <2>4, <2>5, <2>6, <2>7, <2>8, <2>9, <2>10,
         <2>11, <2>12, <2>13, <2>14, <2>15, <2>16, <2>17, <2>18
      DEF CallStep, ClientStep
  <1>2. ASSUME NEW c \in Call, HandlerStep(c) PROVE PinsHaveOwner'
    BY <1>2, HandlerFrame DEF PinsHaveOwner
  <1>3. ASSUME NEW n \in Node, NodeStep(n) PROVE PinsHaveOwner'
    BY <1>3, NodeFrame DEF PinsHaveOwner
  <1>4. ASSUME NEW n \in Node, Crash(n) PROVE PinsHaveOwner'
    <2> SUFFICES ASSUME NEW m \in Node, NEW k \in pending'[m]
                 PROVE  \E o \in Call : /\ kind[o] = "pair" /\ from[o] = m /\ to[o] = k
                                        /\ clientPC'[o] \notin {"idle", "done"}
      BY DEF PinsHaveOwner
    <2>1. m # n /\ k \in pending[m]
      BY <1>4 DEF Crash
    <2>2. PICK o \in Call : /\ kind[o] = "pair" /\ from[o] = m /\ to[o] = k
                            /\ clientPC[o] \notin {"idle", "done"}
      BY <2>1 DEF PinsHaveOwner
    <2>3. clientPC'[o] = clientPC[o]
      BY <1>4, <2>1, <2>2 DEF Crash
    <2> QED
      BY <2>2, <2>3
  <1>5. CASE UNCHANGED vars
    BY <1>5 DEF PinsHaveOwner, vars
  <1> QED
    BY <1>1, <1>2, <1>3, <1>4, <1>5, NextCases

\* A node has goroutines only after Start, and a crash ends them all.
LEMMA NextPhases == Shape /\ Phases /\ [Next]_vars => Phases'
  <1> SUFFICES ASSUME Shape, Phases, [Next]_vars PROVE Phases'
    OBVIOUS
  <1> USE DEF Shape, Phases, Handling, Live, netVars, nodeVars, callVars,
              handlerVars, trustVars, ClientGoto, ClientFail, ClientDone,
              HandlerGoto
  <1>1. ASSUME NEW c \in Call, CallStep(c) PROVE Phases'
    BY <1>1, CallFrame
  <1>2. ASSUME NEW c \in Call, HandlerStep(c) PROVE Phases'
    <2>1. CASE Register(c)
      BY <2>1 DEF Register
    <2>2. CASE ReadTrust(c)
      BY <2>2 DEF ReadTrust
    <2>3. CASE ReceiveFirst(c)
      BY <2>3 DEF ReceiveFirst, ServerReads
    <2>4. CASE ReceiveFails(c)
      BY <2>4 DEF ReceiveFails
    <2>5. CASE ReplyHello(c)
      BY <2>5 DEF ReplyHello
    <2>6. CASE LoopMessage(c)
      BY <2>6 DEF LoopMessage, ServerReads
    <2>7. CASE LoopPing(c)
      BY <2>7 DEF LoopPing, ServerReads
    <2>8. CASE DecidePair(c)
      BY <2>8 DEF DecidePair
    <2>9. CASE StorePair(c)
      BY <2>9 DEF StorePair
    <2>10. CASE ReplyPair(c)
      BY <2>10 DEF ReplyPair
    <2>11. CASE HandlerExit(c)
      BY <2>11 DEF HandlerExit
    <2> QED
      BY <1>2, <2>1, <2>2, <2>3, <2>4, <2>5, <2>6, <2>7, <2>8, <2>9, <2>10,
         <2>11
      DEF HandlerStep
  <1>3. ASSUME NEW n \in Node, NodeStep(n) PROVE Phases'
    <2>1. CASE Start(n)
      BY <2>1 DEF Start
    <2>2. CASE CloseListener(n)
      BY <2>2 DEF CloseListener
    <2>3. CASE CloseConns(n)
      BY <2>3 DEF CloseConns
    <2>4. CASE CloseStore(n)
      BY <2>4 DEF CloseStore
    <2>5. ASSUME NEW c \in Call, AcceptRaw(n, c) PROVE Phases'
      BY <2>5 DEF AcceptRaw
    <2>6. ASSUME NEW c \in Call, AcceptDone(n, c) PROVE Phases'
      BY <2>6 DEF AcceptDone
    <2>7. ASSUME NEW c \in Call, AcceptFails(n, c) PROVE Phases'
      BY <2>7 DEF AcceptFails
    <2>8. CASE AcceptClosed(n)
      BY <2>8 DEF AcceptClosed
    <2>9. ASSUME NEW h \in Callback, InstallHandler(n, h) PROVE Phases'
      BY <2>9 DEF InstallHandler
    <2> QED
      BY <1>3, <2>1, <2>2, <2>3, <2>4, <2>5, <2>6, <2>7, <2>8, <2>9
      DEF NodeStep, AcceptStep, CloseStep
  <1>4. ASSUME NEW n \in Node, Crash(n) PROVE Phases'
    BY <1>4 DEF Crash
  <1>5. CASE UNCHANGED vars
    BY <1>5 DEF vars
  <1> QED
    BY <1>1, <1>2, <1>3, <1>4, <1>5, NextCases

\* Closing opens nothing,
LEMMA DisconnectShrinks ==
    ASSUME NEW C, NEW S, NEW d \in Call, Disconnect(C, S)
    PROVE  open'[d] \subseteq open[d]
  BY DEF Disconnect

\* and no call opens a connection that has a handler.
LEMMA CallShrinks ==
    ASSUME Shape, Fresh, NEW c \in Call, CallStep(c), NEW d \in Call, Live(d)
    PROVE  open'[d] \subseteq open[d]
  <1> USE DEF netVars
  <1>1. CASE Dial(c)
    <2>1. c # d
      BY <1>1 DEF Dial, Fresh, Live
    <2> QED
      BY <1>1, <2>1 DEF Dial, TcpConnect, Shape
  <1>2. CASE ConnectFails(c) \/ Unwind(c)
    <2>1. Disconnect({c}, {})
      BY <1>2 DEF ConnectFails, Unwind
    <2> QED
      BY <2>1, DisconnectShrinks
  <1>3. CASE ~(Dial(c) \/ ConnectFails(c) \/ Unwind(c))
    <2>1. open' = open
      BY <1>3
      DEF CallStep, ClientStep, PairBegin, SendTextBegin, VerifyServer, SendIdentity,
          ExchangeReceive, Approve, Confirm, SendHello, ExpectHello, SendText,
          AwaitFails, SessionPing, SessionPong, SessionEOF, SessionHangUp,
          ClientSend, ClientReads
    <2> QED
      BY <2>1
  <1> QED
    BY <1>1, <1>2, <1>3

\* A handler is in conns from Register until it exits or Close closes its connection.
LEMMA NextReached ==
    Shape /\ Fresh /\ Phases /\ CloseReachesHandlers /\ QuietAfterClose' /\ [Next]_vars
        => CloseReachesHandlers'
  <1> SUFFICES ASSUME Shape, Fresh, Phases, CloseReachesHandlers, QuietAfterClose',
                      [Next]_vars, NEW d \in Call, Live(d)', handlerPC'[d] # "register"
               PROVE  \/ d \in conns'[at[d]]
                      \/ life'[at[d]] = "waiting" /\ "server" \notin open'[d]
    BY DEF CloseReachesHandlers
  <1> DEFINE Goal == \/ d \in conns'[at[d]]
                     \/ life'[at[d]] = "waiting" /\ "server" \notin open'[d]
  <1> USE DEF nodeVars, handlerVars
  <1>1. ASSUME Live(d), handlerPC[d] # "register", open'[d] \subseteq open[d],
               life'[at[d]] = life[at[d]], d \in conns[at[d]] => d \in conns'[at[d]]
        PROVE  Goal
    BY <1>1 DEF CloseReachesHandlers
  <1>2. ASSUME NEW c \in Call, CallStep(c) PROVE Goal
    <2>1. UNCHANGED <<life, conns, handlerPC>>
      BY <1>2, CallFrame
    <2> QED
      BY <1>1, <1>2, <2>1, CallShrinks DEF Live
  <1>3. ASSUME NEW c \in Call, HandlerStep(c) PROVE Goal
    <2>1. CASE Register(c)
      <3>1. CASE d = c
        BY <2>1, <3>1, CallNodes DEF Register, Shape
      <3>2. CASE d # c
        BY <1>1, <2>1, <3>2, CallNodes DEF Register, HandlerGoto, netVars, Live, Shape
      <3> QED
        BY <3>1, <3>2
    <2>2. CASE HandlerExit(c)
      <3>1. Disconnect({}, {c}) /\ UNCHANGED life
        BY <2>2 DEF HandlerExit
      <3>2. d # c /\ handlerPC'[d] = handlerPC[d]
        BY <2>2 DEF HandlerExit, HandlerGoto, Live, Shape
      <3>3. d \in conns[at[d]] => d \in conns'[at[d]]
        BY <2>2, <3>2, CallNodes DEF HandlerExit, Shape
      <3> QED
        BY <1>1, <3>1, <3>2, <3>3, DisconnectShrinks DEF Live
    <2>3. CASE ~(Register(c) \/ HandlerExit(c))
      <3>1. UNCHANGED <<open, life, conns>>
        BY <1>3, <2>3
        DEF HandlerStep, ReadTrust, ReceiveFirst, ReceiveFails, ReplyHello, LoopMessage,
            LoopPing, DecidePair, StorePair, ReplyPair, netVars
      <3>2. Live(d) /\ handlerPC[d] # "register"
        BY <1>3, <2>3
        DEF HandlerStep, ReadTrust, ReceiveFirst, ReceiveFails, ReplyHello, LoopMessage,
            LoopPing, DecidePair, StorePair, ReplyPair, HandlerGoto, Live, Shape
      <3> QED
        BY <1>1, <3>1, <3>2
    <2> QED
      BY <2>1, <2>2, <2>3
  <1>4. ASSUME NEW n \in Node, NodeStep(n) PROVE Goal
    <2>1. Live(d) /\ handlerPC[d] # "register"
      <3>1. ASSUME NEW c \in Call, AcceptDone(n, c)
            PROVE  handlerPC'[d] \in {handlerPC[d], "register"}
        BY <3>1 DEF AcceptDone, Shape
      <3>2. ASSUME \A c \in Call : ~AcceptDone(n, c) PROVE UNCHANGED handlerPC
        BY <1>4, <3>2
        DEF NodeStep, AcceptStep, CloseStep, Start, CloseListener, CloseConns,
            CloseStore, AcceptRaw, AcceptFails, AcceptClosed, InstallHandler
      <3> QED
        BY <3>1, <3>2 DEF Live
    <2>2. CASE Start(n)
      <3>1. at[d] # n
        BY <2>1, <2>2 DEF Start, Phases, Handling
      <3> QED
        BY <1>1, <2>1, <2>2, <3>1 DEF Start, Shape
    <2>3. CASE CloseListener(n)
      <3>1. Disconnect({}, {c \in Call : at[c] = n /\ link[c] = "queued"})
            /\ conns' = conns
        BY <2>3 DEF CloseListener
      <3>2. open'[d] \subseteq open[d]
        BY <3>1, DisconnectShrinks
      <3>3. at[d] = n => life[at[d]] = "running"
        BY <2>3 DEF CloseListener
      <3>4. at[d] # n => life'[at[d]] = life[at[d]]
        BY <2>3, CallNodes DEF CloseListener, Shape
      <3> QED
        BY <1>1, <2>1, <3>1, <3>2, <3>3, <3>4 DEF CloseReachesHandlers
    <2>4. CASE CloseConns(n)
      <3>1. Disconnect({}, conns[n])
        BY <2>4 DEF CloseConns
      <3>2. CASE at[d] = n
        <4>1. d \in conns[n] /\ life'[n] = "waiting"
          BY <2>1, <2>4, <3>2 DEF CloseConns, CloseReachesHandlers, Shape
        <4> QED
          BY <3>1, <3>2, <4>1 DEF Disconnect
      <3>3. CASE at[d] # n
        BY <1>1, <2>1, <2>4, <3>1, <3>3, DisconnectShrinks, CallNodes
        DEF CloseConns, Shape
      <3> QED
        BY <3>2, <3>3
    <2>5. CASE CloseStore(n)
      <3>1. at[d] # n
        BY <2>5 DEF CloseStore, QuietAfterClose, Shape
      <3> QED
        BY <1>1, <2>1, <2>5, <3>1, CallNodes DEF CloseStore, netVars, Shape
    <2>6. ASSUME NEW c \in Call, AcceptFails(n, c) PROVE Goal
      <3>1. Disconnect({}, {c}) /\ UNCHANGED <<life, conns>>
        BY <2>6 DEF AcceptFails
      <3> QED
        BY <1>1, <2>1, <3>1, DisconnectShrinks
    <2>7. CASE \/ \E c \in Call : AcceptRaw(n, c) \/ AcceptDone(n, c)
               \/ AcceptClosed(n)
               \/ \E h \in Callback : InstallHandler(n, h)
      BY <1>1, <2>1, <2>7 DEF AcceptRaw, AcceptDone, AcceptClosed, InstallHandler, netVars
    <2> QED
      BY <1>4, <2>2, <2>3, <2>4, <2>5, <2>6, <2>7 DEF NodeStep, AcceptStep, CloseStep
  <1>5. ASSUME NEW n \in Node, Crash(n) PROVE Goal
    <2>1. /\ Disconnect({c \in Call : from[c] = n /\ clientPC[c] \notin {"idle", "done"}},
                        {c \in Call : at[c] = n})
          /\ at[d] # n /\ handlerPC'[d] = handlerPC[d]
      BY <1>5 DEF Crash, Live
    <2>2. open'[d] \subseteq open[d]
      BY <2>1, DisconnectShrinks
    <2> QED
      BY <1>1, <1>5, <2>1, <2>2, CallNodes DEF Crash, Live, Shape
  <1>6. CASE UNCHANGED vars
    BY <1>1, <1>6 DEF vars, netVars, Live
  <1> QED
    BY <1>2, <1>3, <1>4, <1>5, <1>6, NextCases

\* A node handles finitely many connections at a time.
LEMMA HandlingFinite ==
    ASSUME NEW n \in Node
    PROVE  /\ IsFiniteSet(Handling(n)) /\ Cardinality(Handling(n)) \in Nat
           /\ AcceptLoops(n) \in {0, 1} /\ AcceptLoops(n)' \in {0, 1}
  <1>1. Handling(n) \subseteq Call
    BY DEF Handling
  <1> QED
    BY <1>1, TransportAssumption, FS_Subset, FS_CardinalityType DEF AcceptLoops

\* Close gets to the store only when wg is zero, and nothing starts after it.
LEMMA NextQuiet ==
    Shape /\ Phases /\ WgCounts /\ QuietAfterClose /\ [Next]_vars => QuietAfterClose'
  <1> SUFFICES ASSUME Shape, Phases, WgCounts, QuietAfterClose, [Next]_vars
               PROVE  QuietAfterClose'
    OBVIOUS
  <1> USE DEF Shape, netVars, nodeVars, callVars, handlerVars, trustVars,
              ClientGoto, ClientFail, ClientDone, HandlerGoto
  <1>1. ASSUME NEW c \in Call, CallStep(c) PROVE QuietAfterClose'
    BY <1>1, CallFrame DEF QuietAfterClose, Live
  <1>2. ASSUME NEW c \in Call, HandlerStep(c) PROVE QuietAfterClose'
    <2>1. CASE Register(c)
      BY <2>1 DEF QuietAfterClose, Live, Register
    <2>2. CASE ReadTrust(c)
      BY <2>2 DEF QuietAfterClose, Live, ReadTrust
    <2>3. CASE ReceiveFirst(c)
      BY <2>3 DEF QuietAfterClose, Live, ReceiveFirst, ServerReads
    <2>4. CASE ReceiveFails(c)
      BY <2>4 DEF QuietAfterClose, Live, ReceiveFails
    <2>5. CASE ReplyHello(c)
      <3>1. PICK pc \in {"loop", "exit"} : HandlerGoto(c, pc)
        BY <2>5 DEF ReplyHello
      <3>2. Live(c)
        BY <2>5 DEF ReplyHello, Live
      <3> QED
        BY <2>5, <3>1, <3>2 DEF QuietAfterClose, Live, ReplyHello
    <2>6. CASE LoopMessage(c)
      BY <2>6 DEF QuietAfterClose, Live, LoopMessage, ServerReads
    <2>7. CASE LoopPing(c)
      BY <2>7 DEF QuietAfterClose, Live, LoopPing, ServerReads
    <2>8. CASE DecidePair(c)
      <3>1. PICK pc \in {"store", "exit"} : HandlerGoto(c, pc)
        BY <2>8 DEF DecidePair
      <3>2. Live(c)
        BY <2>8 DEF DecidePair, Live
      <3> QED
        BY <2>8, <3>1, <3>2 DEF QuietAfterClose, Live, DecidePair
    <2>9. CASE StorePair(c)
      <3>1. PICK pc \in {"reply", "exit"} : HandlerGoto(c, pc)
        BY <2>9 DEF StorePair
      <3>2. Live(c)
        BY <2>9 DEF StorePair, Live
      <3> QED
        BY <2>9, <3>1, <3>2 DEF QuietAfterClose, Live, StorePair
    <2>10. CASE ReplyPair(c)
      BY <2>10 DEF QuietAfterClose, Live, ReplyPair
    <2>11. CASE HandlerExit(c)
      BY <2>11
      DEF QuietAfterClose, Live, HandlerExit
    <2> QED
      BY <1>2, <2>1, <2>2, <2>3, <2>4, <2>5, <2>6, <2>7, <2>8, <2>9, <2>10,
         <2>11
      DEF HandlerStep
  <1>3. ASSUME NEW n \in Node, NodeStep(n) PROVE QuietAfterClose'
    <2>1. CASE Start(n)
      BY <2>1 DEF QuietAfterClose, Live, Start
    <2>2. CASE CloseListener(n)
      BY <2>2
      DEF QuietAfterClose, Live, CloseListener
    <2>3. CASE CloseConns(n)
      BY <2>3 DEF QuietAfterClose, Live, CloseConns
    <2>4. CASE CloseStore(n)
      <3>1. Cardinality(Handling(n)) = 0 /\ AcceptLoops(n) = 0
        BY <2>4, HandlingFinite DEF CloseStore, WgCounts, AcceptLoops
      <3>2. Handling(n) = {}
        BY <3>1, HandlingFinite, FS_EmptySet
      <3>3. acceptor[n] \in {"off", "stopped"}
        BY <3>1 DEF AcceptLoops, AcceptorState
      <3>4. ~listening[n]
        BY <2>4 DEF CloseStore, Phases
      <3> QED
        BY <2>4, <3>2, <3>3, <3>4
        DEF QuietAfterClose, Live, Handling, CloseStore
    <2>5. ASSUME NEW c \in Call, AcceptRaw(n, c) PROVE QuietAfterClose'
      BY <2>5 DEF QuietAfterClose, Live, AcceptRaw
    <2>6. ASSUME NEW c \in Call, AcceptDone(n, c) PROVE QuietAfterClose'
      BY <2>6 DEF QuietAfterClose, Live, AcceptDone
    <2>7. ASSUME NEW c \in Call, AcceptFails(n, c) PROVE QuietAfterClose'
      BY <2>7 DEF QuietAfterClose, Live, AcceptFails
    <2>8. CASE AcceptClosed(n)
      BY <2>8 DEF QuietAfterClose, Live, AcceptClosed
    <2>9. ASSUME NEW h \in Callback, InstallHandler(n, h)
         PROVE  QuietAfterClose'
      BY <2>9 DEF QuietAfterClose, Live, InstallHandler
    <2> QED
      BY <1>3, <2>1, <2>2, <2>3, <2>4, <2>5, <2>6, <2>7, <2>8, <2>9
      DEF NodeStep, AcceptStep, CloseStep
  <1>4. ASSUME NEW n \in Node, Crash(n) PROVE QuietAfterClose'
    BY <1>4 DEF QuietAfterClose, Live, Crash
  <1>5. CASE UNCHANGED vars
    BY <1>5 DEF QuietAfterClose, Live, vars
  <1> QED
    BY <1>1, <1>2, <1>3, <1>4, <1>5, NextCases

\* The three ways in which a step may change what wg counts.
LEMMA CountKept ==
    ASSUME NEW m \in Node, Shape, Shape', WgCounts,
           Handling(m)' = Handling(m),
           wg'[m] - AcceptLoops(m)' = wg[m] - AcceptLoops(m)
    PROVE  wg'[m] = Cardinality(Handling(m)') + AcceptLoops(m)'
  <1>1. wg[m] \in Int /\ wg'[m] \in Int
    BY DEF Shape
  <1> QED
    BY <1>1, HandlingFinite DEF WgCounts

\* A goroutine starts together with its wg.Add.
LEMMA CountUp ==
    ASSUME NEW m \in Node, NEW c, WgCounts,
           c \notin Handling(m), Handling(m)' = Handling(m) \cup {c},
           wg'[m] = wg[m] + 1, AcceptLoops(m)' = AcceptLoops(m)
    PROVE  wg'[m] = Cardinality(Handling(m)') + AcceptLoops(m)'
  <1>1. Cardinality(Handling(m) \cup {c}) = Cardinality(Handling(m)) + 1
    BY HandlingFinite, FS_AddElement
  <1> QED
    BY <1>1, HandlingFinite DEF WgCounts

\* A goroutine ends together with its wg.Done.
LEMMA CountDown ==
    ASSUME NEW m \in Node, NEW c, WgCounts,
           c \in Handling(m), Handling(m)' = Handling(m) \ {c},
           wg'[m] = wg[m] - 1, AcceptLoops(m)' = AcceptLoops(m)
    PROVE  wg'[m] = Cardinality(Handling(m)') + AcceptLoops(m)'
  <1>1. Cardinality(Handling(m) \ {c}) = Cardinality(Handling(m)) - 1
    BY HandlingFinite, FS_RemoveElement
  <1> QED
    BY <1>1, HandlingFinite DEF WgCounts

\* Every wg.Add has its goroutine, and every wg.Done ends one.
LEMMA NextWgCounts ==
    Shape /\ Phases /\ Fresh /\ WgCounts /\ [Next]_vars => WgCounts'
  <1> SUFFICES ASSUME Shape, Phases, Fresh, WgCounts, [Next]_vars, NEW m \in Node
               PROVE  wg'[m] = Cardinality(Handling(m)') + AcceptLoops(m)'
    BY DEF WgCounts
  <1> USE DEF Shape, AcceptLoops, Handling, Live, netVars, nodeVars, callVars,
              handlerVars, trustVars, ClientGoto, ClientFail, ClientDone,
              HandlerGoto
  <1>1. ASSUME NEW c \in Call, CallStep(c)
       PROVE  wg'[m] = Cardinality(Handling(m)') + AcceptLoops(m)'
    BY <1>1, CallFrame DEF WgCounts
  <1>2. ASSUME NEW c \in Call, HandlerStep(c)
       PROVE  wg'[m] = Cardinality(Handling(m)') + AcceptLoops(m)'
    <2>1. CASE Register(c)
      BY <2>1 DEF WgCounts, Register
    <2>2. CASE ReadTrust(c)
      BY <2>2 DEF WgCounts, ReadTrust
    <2>3. CASE ReceiveFirst(c)
      <3>1. PICK msg \in MessageType : HandlerGoto(c, Dispatch(c, msg))
        BY <2>3 DEF ReceiveFirst
      <3>2. Handling(m)' = Handling(m)
        BY <2>3, <3>1 DEF ReceiveFirst, Dispatch
      <3> QED
        BY <2>3, <3>2 DEF WgCounts, ReceiveFirst
    <2>4. CASE ReceiveFails(c)
      BY <2>4 DEF WgCounts, ReceiveFails
    <2>5. CASE ReplyHello(c)
      BY <2>5 DEF WgCounts, ReplyHello
    <2>6. CASE LoopMessage(c)
      BY <2>6 DEF WgCounts, LoopMessage, ServerReads
    <2>7. CASE LoopPing(c)
      BY <2>7 DEF WgCounts, LoopPing, ServerReads
    <2>8. CASE DecidePair(c)
      BY <2>8 DEF WgCounts, DecidePair
    <2>9. CASE StorePair(c)
      BY <2>9 DEF WgCounts, StorePair
    <2>10. CASE ReplyPair(c)
      BY <2>10 DEF WgCounts, ReplyPair
    <2>11. CASE HandlerExit(c)
      <3>1. CASE m = at[c]
        <4>1. c \in Handling(m) /\ Handling(m)' = Handling(m) \ {c}
          BY <2>11, <3>1 DEF HandlerExit
        <4>2. wg'[m] = wg[m] - 1 /\ AcceptLoops(m)' = AcceptLoops(m)
          BY <2>11, <3>1 DEF HandlerExit
        <4> HIDE DEF Handling, AcceptLoops, Shape
        <4> QED
          BY <4>1, <4>2, CountDown
      <3>2. CASE m # at[c]
        <4>1. Handling(m)' = Handling(m)
          BY <2>11, <3>2 DEF HandlerExit
        <4> QED
          BY <2>11, <3>2, <4>1 DEF WgCounts, HandlerExit
      <3> QED
        BY <3>1, <3>2
    <2> QED
      BY <1>2, <2>1, <2>2, <2>3, <2>4, <2>5, <2>6, <2>7, <2>8, <2>9, <2>10,
         <2>11
      DEF HandlerStep
  <1>3. ASSUME NEW n \in Node, NodeStep(n)
       PROVE  wg'[m] = Cardinality(Handling(m)') + AcceptLoops(m)'
    <2>1. CASE Start(n)
      <3>1. Handling(m)' = Handling(m)
        BY <2>1 DEF Start
      <3>2. wg'[m] - AcceptLoops(m)' = wg[m] - AcceptLoops(m)
        BY <2>1 DEF Start, Phases
      <3> HIDE DEF Handling, AcceptLoops, Shape
      <3> QED
        BY <3>1, <3>2, CountKept, NextShape
    <2>2. CASE CloseListener(n)
      BY <2>2 DEF WgCounts, CloseListener
    <2>3. CASE CloseConns(n)
      BY <2>3 DEF WgCounts, CloseConns
    <2>4. CASE CloseStore(n)
      BY <2>4 DEF WgCounts, CloseStore
    <2>5. ASSUME NEW c \in Call, AcceptRaw(n, c)
         PROVE  wg'[m] = Cardinality(Handling(m)') + AcceptLoops(m)'
      BY <2>5 DEF WgCounts, AcceptRaw
    <2>6. ASSUME NEW c \in Call, AcceptDone(n, c)
         PROVE  wg'[m] = Cardinality(Handling(m)') + AcceptLoops(m)'
      <3>1. CASE m = n
        <4>1. c \notin Handling(m) /\ Handling(m)' = Handling(m) \cup {c}
          BY <2>6, <3>1 DEF AcceptDone, Fresh
        <4>2. wg'[m] = wg[m] + 1 /\ AcceptLoops(m)' = AcceptLoops(m)
          BY <2>6, <3>1 DEF AcceptDone
        <4> HIDE DEF Handling, AcceptLoops, Shape
        <4> QED
          BY <4>1, <4>2, CountUp
      <3>2. CASE m # n
        <4>1. Handling(m)' = Handling(m)
          BY <2>6, <3>2 DEF AcceptDone
        <4> QED
          BY <2>6, <3>2, <4>1 DEF WgCounts, AcceptDone
      <3> QED
        BY <3>1, <3>2
    <2>7. ASSUME NEW c \in Call, AcceptFails(n, c)
         PROVE  wg'[m] = Cardinality(Handling(m)') + AcceptLoops(m)'
      <3>1. Handling(m)' = Handling(m)
        BY <2>7 DEF AcceptFails
      <3>2. wg'[m] - AcceptLoops(m)' = wg[m] - AcceptLoops(m)
        BY <2>7 DEF AcceptFails
      <3> HIDE DEF Handling, AcceptLoops, Shape
      <3> QED
        BY <3>1, <3>2, CountKept, NextShape
    <2>8. CASE AcceptClosed(n)
      <3>1. Handling(m)' = Handling(m)
        BY <2>8 DEF AcceptClosed
      <3>2. wg'[m] - AcceptLoops(m)' = wg[m] - AcceptLoops(m)
        BY <2>8 DEF AcceptClosed
      <3> HIDE DEF Handling, AcceptLoops, Shape
      <3> QED
        BY <3>1, <3>2, CountKept, NextShape
    <2>9. ASSUME NEW h \in Callback, InstallHandler(n, h)
         PROVE  wg'[m] = Cardinality(Handling(m)') + AcceptLoops(m)'
      BY <2>9 DEF WgCounts, InstallHandler
    <2> QED
      BY <1>3, <2>1, <2>2, <2>3, <2>4, <2>5, <2>6, <2>7, <2>8, <2>9
      DEF NodeStep, AcceptStep, CloseStep
  <1>4. ASSUME NEW n \in Node, Crash(n)
       PROVE  wg'[m] = Cardinality(Handling(m)') + AcceptLoops(m)'
    <2>1. CASE m = n
      <3>1. Handling(m)' = {}
        BY <1>4, <2>1 DEF Crash
      <3>2. wg'[m] = 0 /\ AcceptLoops(m)' = 0
        BY <1>4, <2>1 DEF Crash
      <3> HIDE DEF Handling, AcceptLoops
      <3> QED
        BY <3>1, <3>2, FS_EmptySet
    <2>2. CASE m # n
      <3>1. Handling(m)' = Handling(m)
        BY <1>4, <2>2 DEF Crash
      <3> QED
        BY <1>4, <2>2, <3>1 DEF WgCounts, Crash
    <2> QED
      BY <2>1, <2>2
  <1>5. CASE UNCHANGED vars
    BY <1>5 DEF WgCounts, vars
  <1> QED
    BY <1>1, <1>2, <1>3, <1>4, <1>5, NextCases

\* Neither closing an end nor sending something else asks for anything.
LEMMA DisconnectAsked ==
    ASSUME Shape, Asked, NEW C, NEW S, Disconnect(C, S)
    PROVE  \A c \in Call : kind[c] # "pair" =>
               toServer'[c] \in Seq(MessageType \ {"PAIR"})
  <1>1. \A c \in Call : toServer'[c] = <<>> \/ toServer'[c] = toServer[c]
    BY DisconnectShape
  <1>2. <<>> \in Seq(MessageType \ {"PAIR"})
    OBVIOUS
  <1> QED
    BY <1>1, <1>2 DEF Asked

\* A message other than PAIR asks for nothing.
LEMMA SendAsked ==
    ASSUME Shape, Asked, NEW c \in Call, NEW m \in MessageType \ {"PAIR"},
           SendToServer(c, m)
    PROVE  \A d \in Call : kind[d] # "pair" =>
               toServer'[d] \in Seq(MessageType \ {"PAIR"})
  <1>1. kind[c] # "pair" => Append(toServer[c], m) \in Seq(MessageType \ {"PAIR"})
    BY DEF Asked
  <1> QED
    BY <1>1 DEF SendToServer, Shape, Asked

\* PAIR comes from Pair calls, and only PAIR leads to the store.
LEMMA NextAsked == Shape /\ Asked /\ [Next]_vars => Asked'
  <1> SUFFICES ASSUME Shape, Asked, [Next]_vars PROVE Asked'
    OBVIOUS
  <1> USE DEF Shape, Asked, netVars, nodeVars, callVars, handlerVars,
              trustVars, ClientGoto, ClientFail, ClientDone, HandlerGoto
  <1>1. ASSUME NEW c \in Call, CallStep(c) PROVE Asked'
    <2>1. CASE PairBegin(c)
      BY <2>1 DEF PairBegin
    <2>2. CASE SendTextBegin(c)
      BY <2>2 DEF SendTextBegin
    <2>3. CASE Dial(c)
      BY <2>3 DEF Dial, TcpConnect
    <2>4. CASE VerifyServer(c)
      BY <2>4 DEF VerifyServer
    <2>5. CASE ConnectFails(c)
      <3>1. Disconnect({c}, {})
        BY <2>5 DEF ConnectFails
      <3>2. \A d \in Call : kind[d] # "pair" => toServer'[d] \in Seq(MessageType \ {"PAIR"})
        BY <3>1, DisconnectAsked
      <3> QED
        BY <2>5, <3>2 DEF ConnectFails
    <2>6. CASE SendIdentity(c)
      BY <2>6 DEF SendIdentity, ClientSend, SendToServer
    <2>7. CASE SendHello(c)
      <3>1. SendToServer(c, "HELLO")
        BY <2>7 DEF SendHello, ClientSend
      <3>2. \A d \in Call : kind[d] # "pair" => toServer'[d] \in Seq(MessageType \ {"PAIR"})
        BY <3>1, SendAsked DEF MessageType
      <3> QED
        BY <2>7, <3>2 DEF SendHello
    <2>8. CASE ExchangeReceive(c)
      BY <2>8 DEF ExchangeReceive, ClientReads
    <2>9. CASE ExpectHello(c)
      BY <2>9 DEF ExpectHello, ClientReads
    <2>10. CASE AwaitFails(c)
      BY <2>10 DEF AwaitFails
    <2>11. CASE Approve(c)
      BY <2>11 DEF Approve
    <2>12. CASE Confirm(c)
      BY <2>12 DEF Confirm
    <2>13. CASE SendText(c)
      <3>1. SendToServer(c, "MESSAGE")
        BY <2>13 DEF SendText, ClientSend
      <3>2. \A d \in Call : kind[d] # "pair" => toServer'[d] \in Seq(MessageType \ {"PAIR"})
        BY <3>1, SendAsked DEF MessageType
      <3> QED
        BY <2>13, <3>2 DEF SendText
    <2>14. CASE Unwind(c)
      <3>1. Disconnect({c}, {})
        BY <2>14 DEF Unwind
      <3>2. \A d \in Call : kind[d] # "pair" => toServer'[d] \in Seq(MessageType \ {"PAIR"})
        BY <3>1, DisconnectAsked
      <3> QED
        BY <2>14, <3>2 DEF Unwind
    <2>15. CASE SessionPing(c)
      <3>1. SendToServer(c, "PING")
        BY <2>15 DEF SessionPing, ClientSend
      <3>2. \A d \in Call : kind[d] # "pair" => toServer'[d] \in Seq(MessageType \ {"PAIR"})
        BY <3>1, SendAsked DEF MessageType
      <3> QED
        BY <2>15, <3>2 DEF SessionPing
    <2>16. CASE SessionPong(c)
      BY <2>16 DEF SessionPong, ClientReads
    <2>17. CASE SessionEOF(c)
      BY <2>17 DEF SessionEOF
    <2>18. CASE SessionHangUp(c)
      BY <2>18 DEF SessionHangUp
    <2> QED
      BY <1>1, <2>1, <2>2, <2>3, <2>4, <2>5, <2>6, <2>7, <2>8, <2>9, <2>10,
         <2>11, <2>12, <2>13, <2>14, <2>15, <2>16, <2>17, <2>18
      DEF CallStep, ClientStep
  <1>2. ASSUME NEW c \in Call, HandlerStep(c) PROVE Asked'
    <2>1. CASE Register(c)
      BY <2>1 DEF Register
    <2>2. CASE ReadTrust(c)
      BY <2>2 DEF ReadTrust
    <2>3. CASE ReceiveFirst(c)
      BY <2>3 DEF ReceiveFirst, ServerReads, Dispatch
    <2>4. CASE ReceiveFails(c)
      BY <2>4 DEF ReceiveFails
    <2>5. CASE ReplyHello(c)
      BY <2>5 DEF ReplyHello
    <2>6. CASE LoopMessage(c)
      BY <2>6 DEF LoopMessage, ServerReads
    <2>7. CASE LoopPing(c)
      BY <2>7 DEF LoopPing, ServerReads
    <2>8. CASE DecidePair(c)
      BY <2>8 DEF DecidePair
    <2>9. CASE StorePair(c)
      BY <2>9 DEF StorePair
    <2>10. CASE ReplyPair(c)
      BY <2>10 DEF ReplyPair
    <2>11. CASE HandlerExit(c)
      <3>1. Disconnect({}, {c})
        BY <2>11 DEF HandlerExit
      <3>2. \A d \in Call : kind[d] # "pair" => toServer'[d] \in Seq(MessageType \ {"PAIR"})
        BY <3>1, DisconnectAsked
      <3> QED
        BY <2>11, <3>2 DEF HandlerExit
    <2> QED
      BY <1>2, <2>1, <2>2, <2>3, <2>4, <2>5, <2>6, <2>7, <2>8, <2>9, <2>10,
         <2>11
      DEF HandlerStep
  <1>3. ASSUME NEW n \in Node, NodeStep(n) PROVE Asked'
    <2>1. CASE Start(n)
      BY <2>1 DEF Start
    <2>2. CASE CloseListener(n)
      <3>1. \E C, S : Disconnect(C, S)
        BY <2>2 DEF CloseListener
      <3>2. \A d \in Call : kind[d] # "pair" => toServer'[d] \in Seq(MessageType \ {"PAIR"})
        BY <3>1, DisconnectAsked
      <3> QED
        BY <2>2, <3>2 DEF CloseListener
    <2>3. CASE CloseConns(n)
      <3>1. Disconnect({}, conns[n])
        BY <2>3 DEF CloseConns
      <3>2. \A d \in Call : kind[d] # "pair" => toServer'[d] \in Seq(MessageType \ {"PAIR"})
        BY <3>1, DisconnectAsked
      <3> QED
        BY <2>3, <3>2 DEF CloseConns
    <2>4. CASE CloseStore(n)
      BY <2>4 DEF CloseStore
    <2>5. ASSUME NEW c \in Call, AcceptRaw(n, c) PROVE Asked'
      BY <2>5 DEF AcceptRaw
    <2>6. ASSUME NEW c \in Call, AcceptDone(n, c) PROVE Asked'
      BY <2>6 DEF AcceptDone
    <2>7. ASSUME NEW c \in Call, AcceptFails(n, c) PROVE Asked'
      <3>1. Disconnect({}, {c})
        BY <2>7 DEF AcceptFails
      <3>2. \A d \in Call : kind[d] # "pair" => toServer'[d] \in Seq(MessageType \ {"PAIR"})
        BY <3>1, DisconnectAsked
      <3> QED
        BY <2>7, <3>2 DEF AcceptFails
    <2>8. CASE AcceptClosed(n)
      BY <2>8 DEF AcceptClosed
    <2>9. ASSUME NEW h \in Callback, InstallHandler(n, h) PROVE Asked'
      BY <2>9 DEF InstallHandler
    <2> QED
      BY <1>3, <2>1, <2>2, <2>3, <2>4, <2>5, <2>6, <2>7, <2>8, <2>9
      DEF NodeStep, AcceptStep, CloseStep
  <1>4. ASSUME NEW n \in Node, Crash(n) PROVE Asked'
    <2>1. \E C, S : Disconnect(C, S)
      BY <1>4 DEF Crash
    <2>2. \A d \in Call : kind[d] # "pair" => toServer'[d] \in Seq(MessageType \ {"PAIR"})
      BY <2>1, DisconnectAsked
    <2> QED
      BY <1>4, <2>2 DEF Crash
  <1>5. CASE UNCHANGED vars
    BY <1>5 DEF vars
  <1> QED
    BY <1>1, <1>2, <1>3, <1>4, <1>5, NextCases

-----------------------------------------------------------------------------
(* The invariant, and the safety properties that follow from it *)

\* The invariant holds before anything has started.
LEMMA InitIInv == Init => IInv
  <1> SUFFICES ASSUME Init PROVE IInv
    OBVIOUS
  <1>1. Shape
    BY InitShape
  <1>2. Vetted /\ Concluded /\ Asked /\ Decided
    BY DEF Init, NetInit, Vetted, Evidence, Concluded, Asked, Decided
  <1>3. Phases /\ Fresh
    BY DEF Init, NetInit, Phases, Fresh, Handling, Live
  <1>4. WgCounts
    <2>1. \A n \in Node : Handling(n) = {} /\ AcceptLoops(n) = 0 /\ wg[n] = 0
      BY DEF Init, Handling, Live, AcceptLoops
    <2> QED
      BY <2>1, FS_EmptySet DEF WgCounts
  <1>5. PinsHaveOwner /\ QuietAfterClose /\ CloseReachesHandlers
    BY DEF Init, PinsHaveOwner, QuietAfterClose, CloseReachesHandlers, Live
  <1> QED
    BY <1>1, <1>2, <1>3, <1>4, <1>5 DEF IInv

\* Every step keeps the invariant: the lemmas above, one per conjunct.
LEMMA NextIInv == IInv /\ [Next]_vars => IInv'
  BY NextShape, NextVetted, NextConcluded, NextAsked, NextDecided, NextFresh,
     NextPins, NextPhases, NextReached, NextQuiet, NextWgCounts
  DEF IInv

\* The invariant always holds.
THEOREM Invariance == Spec => []IInv
  BY InitIInv, NextIInv, PTL DEF Spec

\* Every variable keeps its type; above all, no wg.Done comes without its
\* wg.Add, which would panic (device.go:136, 220, 226, 232).
THEOREM TypeCorrect == Spec => []TypeOK
  <1>1. IInv => TypeOK
    <2> SUFFICES ASSUME IInv PROVE TypeOK
      OBVIOUS
    <2>1. wg \in [Node -> Nat]
      <3>1. \A n \in Node : wg[n] \in Nat
        BY HandlingFinite DEF IInv, WgCounts
      <3> QED
        BY <3>1 DEF IInv, Shape
    <2> QED
      BY <2>1 DEF IInv, Shape, TypeOK, NetTypeOK
  <1> QED
    BY <1>1, Invariance, PTL

\* No text of a device that is not trusted gets into a messageLoop
\* (device.go:245-262).
THEOREM TextsAreTrusted == Spec => []TextOnlyFromTrusted
  <1>1. IInv => TextOnlyFromTrusted
    BY DEF IInv, Vetted, Evidence, TextOnlyFromTrusted
  <1> QED
    BY <1>1, Invariance, PTL

\* SendText succeeds only towards a node that trusts the sender
\* (device.go:198-217).
THEOREM SendOkIsTrusted == Spec => []SendOkMeansTrusted
  <1>1. IInv => SendOkMeansTrusted
    BY DEF IInv, Vetted, Evidence, SendOkMeansTrusted
  <1> QED
    BY <1>1, Invariance, PTL

\* Pair succeeds only when both nodes have recorded each other, whatever
\* crashes and whatever the stores report (device.go:167-192, 290-321).
THEOREM PairingIsMutual == Spec => []PairOkIsMutual
  <1>1. IInv => PairOkIsMutual
    BY DEF IInv, Vetted, Evidence, Concluded, PairOkIsMutual
  <1> QED
    BY <1>1, Invariance, PTL

\* No pinned key outlives the Pair calls that pinned it (device.go:168-175).
THEOREM NoStrayPin == Spec => []PinsHaveOwner
  <1>1. IInv => PinsHaveOwner
    BY DEF IInv
  <1> QED
    BY <1>1, Invariance, PTL

\* Nothing of a node runs on after Close (device.go:150-162).
THEOREM CloseIsFinal == Spec => []QuietAfterClose
  <1>1. IInv => QuietAfterClose
    BY DEF IInv
  <1> QED
    BY <1>1, Invariance, PTL

\* Close sees every handler that has registered, or has closed its connection
\* (device.go:154-158, 234-242).
THEOREM CloseSeesHandlers == Spec => []CloseReachesHandlers
  <1>1. IInv => CloseReachesHandlers
    BY DEF IInv
  <1> QED
    BY <1>1, Invariance, PTL

-----------------------------------------------------------------------------
(* Device implements TrustAgreement *)

Result == [c \in PairCall |-> CallResult(c)]

\* Before any call is made, every attempt is idle and trust is what was on disk.
LEMMA AgreementInit == Init => Agreement!Init
  BY DEF Init, Agreement!Init, PairCall, CallResult

\* A step of a call that is under way and stays so leaves its result alone.
LEMMA MoveKeepsResult ==
    ASSUME NEW c \in Call, NEW pc, Shape, clientPC[c] # "idle", pc # "idle",
           ClientGoto(c, pc)
    PROVE  Result' = Result
  BY DEF ClientGoto, Result, PairCall, CallResult, Shape

\* A call that fails is an attempt that fails, or no attempt at all.
LEMMA FailureIsFail ==
    ASSUME NEW c \in Call, Shape, Decided,
           clientPC[c] \notin {"idle", "unwind", "done"},
           ClientFail(c), UNCHANGED trust
    PROVE  Agreement!Next \/ UNCHANGED <<trust, Result>>
  <1>1. CASE c \in PairCall
    <2>1. Result[c] = "open"
      BY <1>1 DEF Result, CallResult, Decided
    <2>2. Result' = [Result EXCEPT ![c] = "error"]
      BY <1>1 DEF ClientFail, Result, PairCall, CallResult, Shape
    <2>3. Agreement!Fail(c)
      BY <2>1, <2>2 DEF Agreement!Fail, Result
    <2> QED
      BY <1>1, <2>3 DEF Agreement!Next
  <1>2. CASE c \notin PairCall
    BY <1>2 DEF ClientFail, Result, PairCall, CallResult, Shape
  <1> QED
    BY <1>1, <1>2

\* The success of another kind of call does not concern pairing.
LEMMA OtherSuccess ==
    ASSUME NEW c \in Call, Shape, kind[c] # "pair", ClientDone(c)
    PROVE  Result' = Result
  BY DEF ClientDone, Result, PairCall, CallResult, Shape

\* Every step is a step of TrustAgreement, or changes nothing of it.
LEMMA AgreementStep == IInv /\ [Next]_vars => [Agreement!Next]_(Agreement!vars)
  <1> SUFFICES ASSUME Shape, Vetted, Concluded, Asked, Decided, Fresh, [Next]_vars
               PROVE  Agreement!Next \/ UNCHANGED <<trust, Result>>
    BY DEF IInv, Agreement!vars, Result
  <1>1. ASSUME NEW c \in Call, CallStep(c)
       PROVE  Agreement!Next \/ UNCHANGED <<trust, Result>>
    <2>1. CASE PairBegin(c)
      <3>1. c \in PairCall /\ Result[c] = "idle"
        BY <2>1 DEF PairBegin, Result, PairCall, CallResult
      <3>2. Result' = [Result EXCEPT ![c] = "open"]
        BY <2>1
        DEF PairBegin, ClientGoto, Result, PairCall, CallResult, Shape, Decided
      <3>3. Agreement!Begin(c)
        BY <2>1, <3>1, <3>2 DEF PairBegin, Agreement!Begin, Result
      <3> QED
        BY <3>1, <3>3 DEF Agreement!Next
    <2>2. CASE SendTextBegin(c)
      BY <2>2
      DEF SendTextBegin, ClientGoto, trustVars, Result, PairCall, CallResult,
          Shape
    <2>3. CASE Dial(c)
      <3>1. CASE ClientGoto(c, "tls")
        BY <2>3, <3>1, MoveKeepsResult DEF Dial, trustVars
      <3>2. CASE ClientFail(c)
        BY <2>3, <3>2, FailureIsFail DEF Dial, trustVars
      <3> QED
        BY <2>3, <3>1, <3>2 DEF Dial
    <2>4. CASE VerifyServer(c)
      BY <2>4, MoveKeepsResult DEF VerifyServer, trustVars
    <2>5. CASE ConnectFails(c)
      BY <2>5, FailureIsFail DEF ConnectFails, trustVars
    <2>6. CASE SendIdentity(c)
      <3>1. CASE ClientGoto(c, "await")
        BY <2>6, <3>1, MoveKeepsResult DEF SendIdentity, trustVars
      <3>2. CASE ClientFail(c)
        BY <2>6, <3>2, FailureIsFail DEF SendIdentity, trustVars
      <3> QED
        BY <2>6, <3>1, <3>2 DEF SendIdentity, ClientSend
    <2>7. CASE SendHello(c)
      <3>1. CASE ClientGoto(c, "await")
        BY <2>7, <3>1, MoveKeepsResult DEF SendHello, trustVars
      <3>2. CASE ClientFail(c)
        BY <2>7, <3>2, FailureIsFail DEF SendHello, trustVars
      <3> QED
        BY <2>7, <3>1, <3>2 DEF SendHello, ClientSend
    <2>8. CASE ExchangeReceive(c)
      BY <2>8, MoveKeepsResult DEF ExchangeReceive, ClientReads, trustVars
    <2>9. CASE ExpectHello(c)
      BY <2>9, MoveKeepsResult DEF ExpectHello, ClientReads, trustVars
    <2>10. CASE AwaitFails(c)
      BY <2>10, FailureIsFail DEF AwaitFails, trustVars
    <2>11. CASE Approve(c)
      <3>1. CASE ClientGoto(c, "confirm")
        BY <2>11, <3>1, MoveKeepsResult DEF Approve, trustVars
      <3>2. CASE ClientFail(c)
        BY <2>11, <3>2, FailureIsFail DEF Approve, trustVars
      <3> QED
        BY <2>11, <3>1, <3>2 DEF Approve
    <2>12. CASE Confirm(c)
      <3>1. CASE AddPeer(from[c], at[c]) /\ ClientDone(c)
        <4>1. c \in PairCall /\ Result[c] = "open" /\ from[c] \in trust[at[c]]
          BY <2>12
          DEF Confirm, Result, PairCall, CallResult, Decided, Concluded,
              Vetted, Evidence
        <4>2. Result' = [Result EXCEPT ![c] = "ok"]
          BY <3>1, <4>1 DEF ClientDone, Result, PairCall, CallResult, Shape
        <4>3. Agreement!Conclude(c)
          BY <3>1, <4>1, <4>2 DEF AddPeer, Agreement!Conclude, Result
        <4> QED
          BY <4>1, <4>3 DEF Agreement!Next
      <3>2. CASE AddPeerFails(from[c]) /\ ClientFail(c)
        BY <2>12, <3>2, FailureIsFail DEF Confirm, AddPeerFails
      <3> QED
        BY <2>12, <3>1, <3>2 DEF Confirm
    <2>13. CASE SendText(c)
      <3>1. CASE ClientDone(c)
        <4>1. kind[c] # "pair"
          BY <2>13 DEF SendText, Concluded
        <4> QED
          BY <2>13, <3>1, <4>1, OtherSuccess DEF SendText, trustVars
      <3>2. CASE ClientFail(c)
        BY <2>13, <3>2, FailureIsFail DEF SendText, trustVars
      <3> QED
        BY <2>13, <3>1, <3>2 DEF SendText, ClientSend
    <2>14. CASE Unwind(c)
      BY <2>14, MoveKeepsResult DEF Unwind
    <2>15. CASE SessionPing(c)
      <3>1. CASE ClientGoto(c, "pinged")
        BY <2>15, <3>1, MoveKeepsResult DEF SessionPing, trustVars
      <3>2. CASE ClientFail(c)
        BY <2>15, <3>2, FailureIsFail DEF SessionPing, trustVars
      <3> QED
        BY <2>15, <3>1, <3>2 DEF SessionPing, ClientSend
    <2>16. CASE SessionPong(c)
      BY <2>16, MoveKeepsResult DEF SessionPong, ClientReads, trustVars
    <2>17. CASE SessionEOF(c)
      BY <2>17, OtherSuccess DEF SessionEOF, trustVars, Concluded
    <2>18. CASE SessionHangUp(c)
      BY <2>18, OtherSuccess DEF SessionHangUp, trustVars, Concluded
    <2> QED
      BY <1>1, <2>1, <2>2, <2>3, <2>4, <2>5, <2>6, <2>7, <2>8, <2>9, <2>10,
         <2>11, <2>12, <2>13, <2>14, <2>15, <2>16, <2>17, <2>18
      DEF CallStep, ClientStep
  <1>2. ASSUME NEW c \in Call, HandlerStep(c)
       PROVE  Agreement!Next \/ UNCHANGED <<trust, Result>>
    <2>1. CASE Register(c)
      BY <2>1 DEF Register, callVars, trustVars, Result, CallResult
    <2>2. CASE ReadTrust(c)
      BY <2>2 DEF ReadTrust, callVars, trustVars, Result, CallResult
    <2>3. CASE ReceiveFirst(c)
      BY <2>3 DEF ReceiveFirst, callVars, trustVars, Result, CallResult
    <2>4. CASE ReceiveFails(c)
      BY <2>4 DEF ReceiveFails, callVars, trustVars, Result, CallResult
    <2>5. CASE ReplyHello(c)
      BY <2>5 DEF ReplyHello, callVars, trustVars, Result, CallResult
    <2>6. CASE LoopMessage(c)
      BY <2>6 DEF LoopMessage, callVars, trustVars, Result, CallResult
    <2>7. CASE LoopPing(c)
      BY <2>7 DEF LoopPing, callVars, trustVars, Result, CallResult
    <2>8. CASE DecidePair(c)
      BY <2>8 DEF DecidePair, callVars, trustVars, Result, CallResult
    <2>9. CASE StorePair(c)
      <3>1. Result' = Result
        BY <2>9 DEF StorePair, callVars, Result, CallResult
      <3>2. CASE AddPeer(at[c], from[c])
        <4>1. c \in PairCall /\ Result[c] # "idle"
          <5>1. kind[c] = "pair"
            BY <2>9 DEF StorePair, Asked
          <5>2. clientPC[c] # "idle"
            BY <2>9 DEF StorePair, Fresh
          <5>3. outcome[c] # "idle"
            BY DEF Shape
          <5> QED
            BY <5>1, <5>2, <5>3 DEF Result, PairCall, CallResult
        <4>2. Agreement!Grant(c)
          BY <3>1, <3>2, <4>1 DEF AddPeer, Agreement!Grant, Result
        <4> QED
          BY <4>1, <4>2 DEF Agreement!Next
      <3>3. CASE AddPeerFails(at[c])
        BY <3>1, <3>3 DEF AddPeerFails
      <3> QED
        BY <2>9, <3>2, <3>3 DEF StorePair
    <2>10. CASE ReplyPair(c)
      BY <2>10 DEF ReplyPair, callVars, trustVars, Result, CallResult
    <2>11. CASE HandlerExit(c)
      BY <2>11 DEF HandlerExit, callVars, trustVars, Result, CallResult
    <2> QED
      BY <1>2, <2>1, <2>2, <2>3, <2>4, <2>5, <2>6, <2>7, <2>8, <2>9, <2>10,
         <2>11
      DEF HandlerStep
  <1>3. ASSUME NEW n \in Node, NodeStep(n)
       PROVE  Agreement!Next \/ UNCHANGED <<trust, Result>>
    BY <1>3, NodeFrame DEF callVars, trustVars, Result, CallResult
  <1>4. ASSUME NEW n \in Node, Crash(n)
       PROVE  Agreement!Next \/ UNCHANGED <<trust, Result>>
    <2>1. Result' = [c \in PairCall |-> IF from[c] = n /\ Result[c] = "open"
                                         THEN "error" ELSE Result[c]]
      BY <1>4 DEF Crash, Result, PairCall, CallResult, Shape, Decided
    <2>2. Agreement!FailAll(n)
      BY <1>4, <2>1 DEF Crash, Agreement!FailAll, Result
    <2> QED
      BY <2>2 DEF Agreement!Next
  <1>5. CASE UNCHANGED vars
    BY <1>5 DEF vars, callVars, trustVars, Result, CallResult
  <1> QED
    BY <1>1, <1>2, <1>3, <1>4, <1>5, NextCases DEF Result, Agreement!vars

\* Pairing keeps the promises of TrustAgreement (device.go:167-192, 290-321).
THEOREM Refinement == Spec => AgreementSpec
  BY AgreementInit, AgreementStep, Invariance, PTL
  DEF Spec, AgreementSpec, Agreement!Spec

=============================================================================
