-------------------------------- MODULE Device --------------------------------
(***************************************************************************)
(* internal/device: nodes that pair with one another and exchange texts.   *)
(*                                                                         *)
(* Each node runs these goroutines concurrently: the callers of Pair and   *)
(* SendText (clientPC), the accept loop (acceptor), one handler for every  *)
(* connection accepted (handlerPC), and the caller of Close (life).        *)
(* An action is one step of one goroutine between two points where         *)
(* another can be observed: a lock region, a query of the trust store, a   *)
(* message written or read, a callback, or the end of a connection.        *)
(***************************************************************************)
EXTENDS Transport

CONSTANTS
    Paired,     \* trust already on disk at the start: pairs <<n, m>>, n trusts m
    MaxCrashes  \* how often a node may crash, over a whole behaviour

ASSUME DeviceAssumption ==
    /\ Paired \subseteq Node \X Node
    /\ MaxCrashes \in Nat

VARIABLES
    life,       \* life[n]: where node n is between New and the end of Close
    handlers,   \* handlers[n]: the callbacks installed so far
    acceptor,   \* acceptor[n]: the accept loop
    wg,         \* wg[n]: counter of the node's sync.WaitGroup
    conns,      \* conns[n]: the connections Close will close
    pending,    \* pending[n]: keys pinned by Pair calls under way
    trust,      \* trust[n]: keys in the peers table, which survives a crash
    clientPC,   \* clientPC[c]: the caller of Pair or SendText
    outcome,    \* outcome[c]: what the call returns
    handlerPC,  \* handlerPC[c]: the goroutine that handles the connection
    vouched,    \* vouched[c]: trusted, as handle read it before receiving
    inbox,      \* inbox[c]: what became of the text
    crashes

nodeVars == <<life, handlers, acceptor, wg, conns, crashes>>
callVars == <<clientPC, outcome>>
handlerVars == <<handlerPC, vouched, inbox>>
trustVars == <<pending, trust>>
vars == <<netVars, nodeVars, trustVars, callVars, handlerVars>>

Life == {"new", "running", "closeConns", "waiting", "closed"}
Callback == {"pair", "message"}
AcceptorState == {"off", "accepting", "busy", "stopped"}
ClientPC == {"idle", "dial", "tls", "connected", "await", "approve", "confirm",
             "text", "held", "pinged", "unwind", "done"}
HandlerPC == {"none", "register", "trust", "first", "hello", "loop", "decide",
              "store", "reply", "exit", "done", "killed"}

TypeOK ==
    /\ NetTypeOK
    /\ life \in [Node -> Life]
    /\ handlers \in [Node -> SUBSET Callback]
    /\ acceptor \in [Node -> AcceptorState]
    /\ wg \in [Node -> Nat]
    /\ conns \in [Node -> SUBSET Call]
    /\ pending \in [Node -> SUBSET Node]
    /\ trust \in [Node -> SUBSET Node]
    /\ clientPC \in [Call -> ClientPC]
    /\ outcome \in [Call -> {"none", "ok", "error"}]
    /\ handlerPC \in [Call -> HandlerPC]
    /\ vouched \in [Call -> BOOLEAN]
    /\ inbox \in [Call -> {"none", "handled", "ignored"}]
    /\ crashes \in 0..MaxCrashes

Init ==
    /\ NetInit
    /\ life = [n \in Node |-> "new"]
    /\ handlers = [n \in Node |-> {}]
    /\ acceptor = [n \in Node |-> "off"]
    /\ wg = [n \in Node |-> 0]
    /\ conns = [n \in Node |-> {}]
    /\ pending = [n \in Node |-> {}]
    /\ trust = [n \in Node |-> {m \in Node : <<n, m>> \in Paired}]
    /\ clientPC = [c \in Call |-> "idle"]
    /\ outcome = [c \in Call |-> "none"]
    /\ handlerPC = [c \in Call |-> "none"]
    /\ vouched = [c \in Call |-> FALSE]
    /\ inbox = [c \in Call |-> "none"]
    /\ crashes = 0

-----------------------------------------------------------------------------
(* The trust store and the node's life cycle *)

\* Node.Trusted, the TrustStore of dialTr: any trusted key will do, and so will
\* the key of any pairing under way.  The device the call is for is not looked at.
Trusted(n, key) ==
    \/ key \in trust[n] /\ life[n] # "closed"
    \/ key \in pending[n]

\* Store.Trusted: a query that fails counts as "not trusted".
StoreTrusted(n, key) ==
    {key \in trust[n]} \cup (IF "store" \in Faults THEN {FALSE} ELSE {})

\* Store.AddPeer succeeds (an upsert).
AddPeer(n, key) == trust' = [trust EXCEPT ![n] = @ \cup {key}]

\* Store.AddPeer fails: the database is closed, or it reports an error.
AddPeerFails(n) ==
    /\ life[n] = "closed" \/ "store" \in Faults
    /\ UNCHANGED trust

\* Node.Start: listen and run the accept loop.
Start(n) ==
    /\ life[n] = "new"
    /\ life' = [life EXCEPT ![n] = "running"]
    /\ listening' = [listening EXCEPT ![n] = TRUE]
    /\ acceptor' = [acceptor EXCEPT ![n] = "accepting"]
    /\ wg' = [wg EXCEPT ![n] = @ + 1]
    /\ UNCHANGED <<link, open, toServer, toClient, handlers, conns, crashes,
                   trustVars, callVars, handlerVars>>

\* The program assigns PairHandler, then MessageHandler.  cmd/mac assigns both
\* after Start; the tests assign one before and one after.
InstallHandler(n, h) ==
    /\ life[n] \in {"new", "running"}
    /\ h \notin handlers[n]
    /\ h = "message" => "pair" \in handlers[n]
    /\ handlers' = [handlers EXCEPT ![n] = @ \cup {h}]
    /\ UNCHANGED <<netVars, life, acceptor, wg, conns, crashes,
                   trustVars, callVars, handlerVars>>

\* Node.Close, first the listener.  Connections still queued are reset.
CloseListener(n) ==
    /\ life[n] = "running"
    /\ life' = [life EXCEPT ![n] = "closeConns"]
    /\ listening' = [listening EXCEPT ![n] = FALSE]
    /\ LET queued == {c \in Call : at[c] = n /\ link[c] = "queued"}
       IN  /\ link' = [c \in Call |-> IF c \in queued THEN "dead" ELSE link[c]]
           /\ Disconnect({}, queued)
    /\ UNCHANGED <<handlers, acceptor, wg, conns, crashes,
                   trustVars, callVars, handlerVars>>

\* Then, holding mu, every connection that has registered itself ...
CloseConns(n) ==
    /\ life[n] = "closeConns"
    /\ life' = [life EXCEPT ![n] = "waiting"]
    /\ Disconnect({}, conns[n])
    /\ conns' = [conns EXCEPT ![n] = {}]
    /\ UNCHANGED <<listening, link, handlers, acceptor, wg, crashes,
                   trustVars, callVars, handlerVars>>

\* Mutant of CloseStore: Close does not wait for the goroutines.
CloseStoreAtOnce(n) ==
    /\ life[n] = "waiting"
    /\ life' = [life EXCEPT ![n] = "closed"]
    /\ UNCHANGED <<netVars, handlers, acceptor, wg, conns, crashes,
                   trustVars, callVars, handlerVars>>

\* ... and when the accept loop and all handlers are done, the store.
CloseStore(n) ==
    /\ life[n] = "waiting"
    /\ wg[n] = 0
    /\ life' = [life EXCEPT ![n] = "closed"]
    /\ UNCHANGED <<netVars, handlers, acceptor, wg, conns, crashes,
                   trustVars, callVars, handlerVars>>

\* The process dies and its sockets with it; New runs again on the same data
\* directory.  Only the peers table is left.
Crash(n) ==
    LET mine   == {c \in Call : from[c] = n /\ clientPC[c] \notin {"idle", "done"}}
        served == {c \in Call : at[c] = n}
    IN  /\ life[n] \in {"running", "closeConns", "waiting"}
        /\ crashes < MaxCrashes
        /\ crashes' = crashes + 1
        /\ life' = [life EXCEPT ![n] = "new"]
        /\ handlers' = [handlers EXCEPT ![n] = {}]
        /\ acceptor' = [acceptor EXCEPT ![n] = "off"]
        /\ wg' = [wg EXCEPT ![n] = 0]
        /\ conns' = [conns EXCEPT ![n] = {}]
        /\ pending' = [pending EXCEPT ![n] = {}]
        /\ listening' = [listening EXCEPT ![n] = FALSE]
        /\ link' = [c \in Call |-> IF c \in served /\ link[c] # "none"
                                   THEN "dead" ELSE link[c]]
        /\ Disconnect(mine, served)
        /\ clientPC' = [c \in Call |-> IF c \in mine THEN "done" ELSE clientPC[c]]
        /\ outcome' = [c \in Call |-> IF c \in mine /\ outcome[c] = "none"
                                      THEN "error" ELSE outcome[c]]
        /\ handlerPC' = [c \in Call |->
               IF c \in served /\ handlerPC[c] \notin {"none", "done"}
               THEN "killed" ELSE handlerPC[c]]
        /\ UNCHANGED <<trust, vouched, inbox>>

-----------------------------------------------------------------------------
(* The caller of Pair or SendText *)

ClientGoto(c, pc) ==
    /\ clientPC' = [clientPC EXCEPT ![c] = pc]
    /\ UNCHANGED outcome

ClientFail(c) ==
    /\ clientPC' = [clientPC EXCEPT ![c] = "unwind"]
    /\ outcome' = [outcome EXCEPT ![c] = "error"]

ClientDone(c) ==
    /\ clientPC' = [clientPC EXCEPT ![c] = "unwind"]
    /\ outcome' = [outcome EXCEPT ![c] = "ok"]

\* Send one message to the handler.  When that end has closed, the write may
\* fail, or succeed although nobody will read it.
ClientSend(c, m, next) ==
    /\ SendToServer(c, m)
    /\ UNCHANGED <<listening, link, open, toClient>>
    /\ \/ next
       \/ "server" \notin open[c] /\ ClientFail(c)

\* Take the next message for the client.
ClientReads(c, m) ==
    /\ toClient[c] # <<>>
    /\ Head(toClient[c]) = m
    /\ toClient' = [toClient EXCEPT ![c] = Tail(@)]
    /\ UNCHANGED <<listening, link, open, toServer>>

\* Node.Pair: pin the peer's key for the duration of the call.
PairBegin(c) ==
    /\ kind[c] = "pair"
    /\ clientPC[c] = "idle"
    /\ life[from[c]] = "running"
    /\ pending' = [pending EXCEPT ![from[c]] = @ \cup {to[c]}]
    /\ ClientGoto(c, "dial")
    /\ UNCHANGED <<netVars, nodeVars, trust, handlerVars>>

SendTextBegin(c) ==
    /\ kind[c] # "pair"
    /\ clientPC[c] = "idle"
    /\ life[from[c]] = "running"
    /\ ClientGoto(c, "dial")
    /\ UNCHANGED <<netVars, nodeVars, trustVars, handlerVars>>

\* Transport.Connect, first half: the TCP connection.
Dial(c) ==
    /\ clientPC[c] = "dial"
    /\ \/ TcpConnect(c) /\ ClientGoto(c, "tls")
       \/ /\ ~listening[at[c]] \/ "timeout" \in Faults
          /\ ClientFail(c)
          /\ UNCHANGED netVars
    /\ UNCHANGED <<nodeVars, trustVars, handlerVars>>

\* Second half: verifyPeer accepts the server's key and Connect returns.
VerifyServer(c) ==
    /\ clientPC[c] = "tls"
    /\ link[c] = "handshake"
    /\ Trusted(from[c], at[c])
    /\ link' = [link EXCEPT ![c] = "finished"]
    /\ ClientGoto(c, "connected")
    /\ UNCHANGED <<listening, open, toServer, toClient,
                   nodeVars, trustVars, handlerVars>>

\* The handshake fails on the client's side: verifyPeer rejects the key, the
\* store cannot tell, the server hangs up, or the deadline passes.
ConnectFails(c) ==
    /\ clientPC[c] = "tls"
    /\ \/ link[c] = "handshake" /\ ~Trusted(from[c], at[c])
       \/ link[c] = "handshake" /\ "store" \in Faults /\ at[c] \notin pending[from[c]]
       \/ "server" \notin open[c]
       \/ "timeout" \in Faults
    /\ ClientFail(c)
    /\ Disconnect({c}, {})
    /\ UNCHANGED <<listening, link, nodeVars, trustVars, handlerVars>>

\* pairing.Session.Exchange, sending our identity.
SendIdentity(c) ==
    /\ kind[c] = "pair"
    /\ clientPC[c] = "connected"
    /\ ClientSend(c, "PAIR", ClientGoto(c, "await"))
    /\ UNCHANGED <<nodeVars, trustVars, handlerVars>>

\* Mutant of SendHello: SendText does not wait for the HELLO in return.
SendHelloOnly(c) ==
    /\ kind[c] # "pair"
    /\ clientPC[c] = "connected"
    /\ ClientSend(c, "HELLO", ClientGoto(c, "text"))
    /\ UNCHANGED <<nodeVars, trustVars, handlerVars>>

SendHello(c) ==
    /\ kind[c] # "pair"
    /\ clientPC[c] = "connected"
    /\ ClientSend(c, "HELLO", ClientGoto(c, "await"))
    /\ UNCHANGED <<nodeVars, trustVars, handlerVars>>

\* Exchange, receiving the peer's identity, which verifyIdentity finds
\* consistent: an honest peer sends its own.
ExchangeReceive(c) ==
    /\ kind[c] = "pair"
    /\ clientPC[c] = "await"
    /\ ClientReads(c, "PAIR")
    /\ ClientGoto(c, "approve")
    /\ UNCHANGED <<nodeVars, trustVars, handlerVars>>

\* SendText gets the HELLO it expects.
ExpectHello(c) ==
    /\ kind[c] # "pair"
    /\ clientPC[c] = "await"
    /\ ClientReads(c, "HELLO")
    /\ ClientGoto(c, IF kind[c] = "send" THEN "text" ELSE "held")
    /\ UNCHANGED <<nodeVars, trustVars, handlerVars>>

\* Mutant of AwaitFails: Exchange forgets to return Receive's error.
AwaitFailsUnnoticed(c) ==
    /\ clientPC[c] = "await"
    /\ ClientEOF(c)
    /\ IF kind[c] = "pair" THEN ClientGoto(c, "approve") ELSE ClientFail(c)
    /\ UNCHANGED <<netVars, nodeVars, trustVars, handlerVars>>

\* The connection ends where the call waits for an answer.
AwaitFails(c) ==
    /\ clientPC[c] = "await"
    /\ ClientEOF(c)
    /\ ClientFail(c)
    /\ UNCHANGED <<netVars, nodeVars, trustVars, handlerVars>>

\* The initiator asks its PairHandler; without one it accepts.
Approve(c) ==
    /\ clientPC[c] = "approve"
    /\ \/ ClientGoto(c, "confirm")
       \/ "pair" \in handlers[from[c]] /\ ClientFail(c)
    /\ UNCHANGED <<netVars, nodeVars, trustVars, handlerVars>>

\* pairing.Session.Confirm.
Confirm(c) ==
    /\ clientPC[c] = "confirm"
    /\ \/ life[from[c]] # "closed" /\ AddPeer(from[c], at[c]) /\ ClientDone(c)
       \/ AddPeerFails(from[c]) /\ ClientFail(c)
    /\ UNCHANGED <<netVars, nodeVars, pending, handlerVars>>

\* Mutant of SendText: an error is returned though the text has been written.
SendTextUnsure(c) ==
    /\ clientPC[c] = "text"
    /\ ClientSend(c, "MESSAGE", ClientDone(c) \/ ClientFail(c))
    /\ UNCHANGED <<nodeVars, trustVars, handlerVars>>

\* SendText writes the text and is done: no acknowledgement is awaited.
SendText(c) ==
    /\ clientPC[c] = "text"
    /\ ClientSend(c, "MESSAGE", ClientDone(c))
    /\ UNCHANGED <<nodeVars, trustVars, handlerVars>>

\* Mutant of Unwind: Pair forgets to drop its pin when the call fails.
UnwindKeepsPin(c) ==
    /\ clientPC[c] = "unwind"
    /\ ClientGoto(c, "done")
    /\ Disconnect({c}, {})
    /\ pending' = IF kind[c] = "pair" /\ outcome[c] = "ok"
                  THEN [pending EXCEPT ![from[c]] = @ \ {to[c]}] ELSE pending
    /\ UNCHANGED <<listening, link, nodeVars, trust, handlerVars>>

\* The deferred calls: close the connection; Pair drops its pin.
Unwind(c) ==
    /\ clientPC[c] = "unwind"
    /\ ClientGoto(c, "done")
    /\ Disconnect({c}, {})
    /\ pending' = IF kind[c] = "pair"
                  THEN [pending EXCEPT ![from[c]] = @ \ {to[c]}] ELSE pending
    /\ UNCHANGED <<listening, link, nodeVars, trust, handlerVars>>

\* A device outside this repository that keeps its connection: it may ping,
\* reads the answer, and leaves when it likes or when the other end has closed.
SessionPing(c) ==
    /\ clientPC[c] = "held"
    /\ ClientSend(c, "PING", ClientGoto(c, "pinged"))
    /\ UNCHANGED <<nodeVars, trustVars, handlerVars>>

SessionPong(c) ==
    /\ clientPC[c] = "pinged"
    /\ ClientReads(c, "PONG")
    /\ ClientGoto(c, "held")
    /\ UNCHANGED <<nodeVars, trustVars, handlerVars>>

SessionEOF(c) ==
    /\ clientPC[c] \in {"held", "pinged"}
    /\ ClientEOF(c)
    /\ ClientDone(c)
    /\ UNCHANGED <<netVars, nodeVars, trustVars, handlerVars>>

SessionHangUp(c) ==
    /\ clientPC[c] = "held"
    /\ ClientDone(c)
    /\ UNCHANGED <<netVars, nodeVars, trustVars, handlerVars>>

-----------------------------------------------------------------------------
(* The accept loop: one handshake at a time *)

\* listener.Accept takes a queued connection and starts the handshake.
AcceptRaw(n, c) ==
    /\ acceptor[n] = "accepting"
    /\ at[c] = n
    /\ link[c] = "queued"
    /\ acceptor' = [acceptor EXCEPT ![n] = "busy"]
    /\ link' = [link EXCEPT ![c] = "handshake"]
    /\ UNCHANGED <<listening, open, toServer, toClient, life, handlers, wg, conns,
                   crashes, trustVars, callVars, handlerVars>>

\* Mutant of AcceptDone: no wg.Add for the handler.
AcceptDoneUncounted(n, c) ==
    /\ acceptor[n] = "busy"
    /\ at[c] = n
    /\ link[c] = "finished"
    /\ acceptor' = [acceptor EXCEPT ![n] = "accepting"]
    /\ link' = [link EXCEPT ![c] = "up"]
    /\ handlerPC' = [handlerPC EXCEPT ![c] = "register"]
    /\ UNCHANGED <<listening, open, toServer, toClient, life, handlers, wg, conns,
                   crashes, trustVars, callVars, vouched, inbox>>

\* The handshake completes (listenTr accepts any self-signed certificate);
\* acceptLoop starts a handler and goes on.
AcceptDone(n, c) ==
    /\ acceptor[n] = "busy"
    /\ at[c] = n
    /\ link[c] = "finished"
    /\ acceptor' = [acceptor EXCEPT ![n] = "accepting"]
    /\ link' = [link EXCEPT ![c] = "up"]
    /\ wg' = [wg EXCEPT ![n] = @ + 1]
    /\ handlerPC' = [handlerPC EXCEPT ![c] = "register"]
    /\ UNCHANGED <<listening, open, toServer, toClient, life, handlers, conns,
                   crashes, trustVars, callVars, vouched, inbox>>

\* The handshake fails: the client has hung up or the deadline passes.  Accept
\* returns the error and acceptLoop returns on any error.
AcceptFails(n, c) ==
    /\ acceptor[n] = "busy"
    /\ at[c] = n
    /\ link[c] \in {"handshake", "finished"}
    /\ "client" \notin open[c] \/ "timeout" \in Faults
    /\ acceptor' = [acceptor EXCEPT ![n] = "stopped"]
    /\ link' = [link EXCEPT ![c] = "dead"]
    /\ Disconnect({}, {c})
    /\ wg' = [wg EXCEPT ![n] = @ - 1]
    /\ UNCHANGED <<listening, life, handlers, conns, crashes,
                   trustVars, callVars, handlerVars>>

\* Mutant of AcceptClosed: acceptLoop returns without wg.Done.
AcceptClosedUncounted(n) ==
    /\ acceptor[n] = "accepting"
    /\ ~listening[n]
    /\ acceptor' = [acceptor EXCEPT ![n] = "stopped"]
    /\ UNCHANGED <<netVars, life, handlers, wg, conns, crashes,
                   trustVars, callVars, handlerVars>>

\* Accept fails because Close has closed the listener.
AcceptClosed(n) ==
    /\ acceptor[n] = "accepting"
    /\ ~listening[n]
    /\ acceptor' = [acceptor EXCEPT ![n] = "stopped"]
    /\ wg' = [wg EXCEPT ![n] = @ - 1]
    /\ UNCHANGED <<netVars, life, handlers, conns, crashes,
                   trustVars, callVars, handlerVars>>

-----------------------------------------------------------------------------
(* Node.handle, on the listening side of a connection *)

HandlerGoto(c, pc) ==
    /\ handlerPC' = [handlerPC EXCEPT ![c] = pc]
    /\ UNCHANGED vouched

ServerReads(c, m) ==
    /\ toServer[c] # <<>>
    /\ Head(toServer[c]) = m
    /\ toServer' = [toServer EXCEPT ![c] = Tail(@)]

\* Mutant of Register: handle does not enter its connection in conns.
RegisterNot(c) ==
    /\ handlerPC[c] = "register"
    /\ HandlerGoto(c, "trust")
    /\ UNCHANGED <<netVars, nodeVars, trustVars, callVars, inbox>>

Register(c) ==
    /\ handlerPC[c] = "register"
    /\ conns' = [conns EXCEPT ![at[c]] = @ \cup {c}]
    /\ HandlerGoto(c, "trust")
    /\ UNCHANGED <<netVars, life, handlers, acceptor, wg, crashes,
                   trustVars, callVars, inbox>>

\* Whether the peer is trusted is read here, before anything is received.
ReadTrust(c) ==
    /\ handlerPC[c] = "trust"
    /\ \E t \in StoreTrusted(at[c], from[c]) : vouched' = [vouched EXCEPT ![c] = t]
    /\ handlerPC' = [handlerPC EXCEPT ![c] = "first"]
    /\ UNCHANGED <<netVars, nodeVars, trustVars, callVars, inbox>>

\* Mutant of Dispatch: HELLO is answered whoever it comes from.
DispatchUnvouched(c, m) ==
    CASE m = "PAIR"  -> "decide"
      [] m = "HELLO" -> "hello"
      [] OTHER       -> "exit"

\* What handle does with the first message: a peer that is not vouched for may
\* only pair, and only HELLO and PAIR open a conversation.
Dispatch(c, m) ==
    CASE m = "PAIR"                -> "decide"
      [] m = "HELLO" /\ vouched[c] -> "hello"
      [] OTHER                     -> "exit"

ReceiveFirst(c) ==
    /\ handlerPC[c] = "first"
    /\ \E m \in MessageType : ServerReads(c, m) /\ HandlerGoto(c, Dispatch(c, m))
    /\ UNCHANGED <<listening, link, open, toClient, nodeVars, trustVars, callVars,
                   inbox>>

\* Mutant of ReplyHello: handle returns where it should enter messageLoop.
ReplyHelloOnly(c) ==
    /\ handlerPC[c] = "hello"
    /\ SendToClient(c, "HELLO")
    /\ HandlerGoto(c, "exit")
    /\ UNCHANGED <<listening, link, open, toServer, nodeVars, trustVars, callVars,
                   inbox>>

ReplyHello(c) ==
    /\ handlerPC[c] = "hello"
    /\ SendToClient(c, "HELLO")
    /\ \/ "server" \in open[c] /\ HandlerGoto(c, "loop")
       \/ open[c] # Ends /\ HandlerGoto(c, "exit")
    /\ UNCHANGED <<listening, link, open, toServer, nodeVars, trustVars, callVars,
                   inbox>>

\* messageLoop: a text goes to the MessageHandler, if there is one; a ping is
\* answered, and nobody looks whether the answer could be sent.
LoopMessage(c) ==
    /\ handlerPC[c] = "loop"
    /\ ServerReads(c, "MESSAGE")
    /\ inbox' = [inbox EXCEPT ![c] =
                   IF "message" \in handlers[at[c]] THEN "handled" ELSE "ignored"]
    /\ UNCHANGED <<listening, link, open, toClient, nodeVars, trustVars, callVars,
                   handlerPC, vouched>>

LoopPing(c) ==
    /\ handlerPC[c] = "loop"
    /\ ServerReads(c, "PING")
    /\ SendToClient(c, "PONG")
    /\ UNCHANGED <<listening, link, open, nodeVars, trustVars, callVars, handlerVars>>

\* Receive fails, as the first message or in the loop: the handler returns.
ReceiveFails(c) ==
    /\ handlerPC[c] \in {"first", "loop"}
    /\ ServerEOF(c)
    /\ HandlerGoto(c, "exit")
    /\ UNCHANGED <<netVars, nodeVars, trustVars, callVars, inbox>>

\* handlePair: the responder asks its PairHandler; without one it declines.
DecidePair(c) ==
    /\ handlerPC[c] = "decide"
    /\ \/ "pair" \in handlers[at[c]] /\ HandlerGoto(c, "store")
       \/ HandlerGoto(c, "exit")
    /\ UNCHANGED <<netVars, nodeVars, trustVars, callVars, inbox>>

\* Mutant of StorePair: AddPeer's error is ignored.
StorePairUnchecked(c) ==
    /\ handlerPC[c] = "store"
    /\ AddPeer(at[c], from[c]) \/ AddPeerFails(at[c])
    /\ HandlerGoto(c, "reply")
    /\ UNCHANGED <<netVars, nodeVars, pending, callVars, inbox>>

\* It persists the initiator's key before it answers.
StorePair(c) ==
    /\ handlerPC[c] = "store"
    /\ \/ life[at[c]] # "closed" /\ AddPeer(at[c], from[c]) /\ HandlerGoto(c, "reply")
       \/ AddPeerFails(at[c]) /\ HandlerGoto(c, "exit")
    /\ UNCHANGED <<netVars, nodeVars, pending, callVars, inbox>>

ReplyPair(c) ==
    /\ handlerPC[c] = "reply"
    /\ SendToClient(c, "PAIR")
    /\ HandlerGoto(c, "exit")
    /\ UNCHANGED <<listening, link, open, toServer, nodeVars, trustVars, callVars,
                   inbox>>

\* Mutant of HandlerExit: the connection is not closed.
HandlerExitOpen(c) ==
    /\ handlerPC[c] = "exit"
    /\ conns' = [conns EXCEPT ![at[c]] = @ \ {c}]
    /\ wg' = [wg EXCEPT ![at[c]] = @ - 1]
    /\ HandlerGoto(c, "done")
    /\ UNCHANGED <<netVars, life, handlers, acceptor, crashes,
                   trustVars, callVars, inbox>>

\* The deferred calls of handle.
HandlerExit(c) ==
    /\ handlerPC[c] = "exit"
    /\ Disconnect({}, {c})
    /\ conns' = [conns EXCEPT ![at[c]] = @ \ {c}]
    /\ wg' = [wg EXCEPT ![at[c]] = @ - 1]
    /\ HandlerGoto(c, "done")
    /\ UNCHANGED <<listening, link, life, handlers, acceptor, crashes,
                   trustVars, callVars, inbox>>

-----------------------------------------------------------------------------
(* The specification *)

\* Steps the goroutines of a call take by themselves.
ClientStep(c) ==
    \/ Dial(c) \/ VerifyServer(c) \/ ConnectFails(c)
    \/ SendIdentity(c) \/ ExchangeReceive(c) \/ Approve(c) \/ Confirm(c)
    \/ SendHello(c) \/ ExpectHello(c) \/ SendText(c)
    \/ AwaitFails(c) \/ Unwind(c)
    \/ SessionPong(c) \/ SessionEOF(c)

HandlerStep(c) ==
    \/ Register(c) \/ ReadTrust(c) \/ ReceiveFirst(c) \/ ReceiveFails(c)
    \/ ReplyHello(c) \/ LoopMessage(c) \/ LoopPing(c)
    \/ DecidePair(c) \/ StorePair(c) \/ ReplyPair(c)
    \/ HandlerExit(c)

AcceptStep(n) ==
    \/ \E c \in Call : AcceptRaw(n, c) \/ AcceptDone(n, c) \/ AcceptFails(n, c)
    \/ AcceptClosed(n)

CloseStep(n) == CloseConns(n) \/ CloseStore(n)

\* Steps somebody outside chooses to take.
UserStep ==
    \/ \E c \in Call : PairBegin(c) \/ SendTextBegin(c) \/ SessionPing(c)
                       \/ SessionHangUp(c)
    \/ \E n \in Node : Start(n) \/ CloseListener(n) \/ Crash(n)
    \/ \E n \in Node, h \in Callback : InstallHandler(n, h)

Next ==
    \/ UserStep
    \/ \E c \in Call : ClientStep(c) \/ HandlerStep(c)
    \/ \E n \in Node : AcceptStep(n) \/ CloseStep(n)

Spec == Init /\ [][Next]_vars

\* The Go scheduler runs every goroutine that can go on, deadlines fire, and
\* the callbacks return.  Nobody has to make a call, to start or close a node.
Fairness ==
    /\ \A c \in Call : WF_vars(ClientStep(c)) /\ WF_vars(HandlerStep(c))
    /\ \A n \in Node : WF_vars(AcceptStep(n)) /\ WF_vars(CloseStep(n))

FairSpec == Spec /\ Fairness

-----------------------------------------------------------------------------
(* Properties *)

\* Pairing as TrustAgreement promises it.  A call that has begun and not yet
\* decided what to return is open.
PairCall == {c \in Call : kind[c] = "pair"}

CallResult(c) ==
    IF clientPC[c] = "idle" THEN "idle"
    ELSE IF outcome[c] = "none" THEN "open" ELSE outcome[c]

Agreement ==
    INSTANCE TrustAgreement
    WITH Device <- Node, Attempt <- PairCall, from <- from, at <- at,
         Initial <- [n \in Node |-> {m \in Node : <<n, m>> \in Paired}],
         result <- [c \in PairCall |-> CallResult(c)]

\* Whatever connections, crashes and the store do, pairing changes trust only
\* as TrustAgreement allows: responder first, initiator on success, in the step
\* that decides the result of the call (device.go:167-192, 290-321).
AgreementSpec == Agreement!Spec

\* Sending a text as TextDelivery promises it.
SendCall == {c \in Call : kind[c] = "send"}

Delivery ==
    INSTANCE TextDelivery
    WITH Text <- SendCall,
         trusted <- {c \in SendCall : from[c] \in trust[at[c]]},
         result <- [c \in SendCall |-> CallResult(c)],
         received <- [c \in SendCall |-> inbox[c]]

\* Whatever connections, crashes and the store do, a SendText that returns an
\* error has delivered nothing, and one that succeeds delivers its text at most
\* once and to a device that trusts the caller (device.go:197-217, 267-287).
DeliverySpec == Delivery!Spec

Live(c) == handlerPC[c] \notin {"none", "done", "killed"}

\* A text gets into the messageLoop of a node only from a device the node
\* trusts (device.go:251), though trust is read once, before the first message.
TextOnlyFromTrusted ==
    \A c \in Call : inbox[c] # "none" => from[c] \in trust[at[c]]

\* SendText reports success only if the receiving node trusted the sender: the
\* HELLO it waits for comes after that check (device.go:206-216, 252-261).
SendOkMeansTrusted ==
    \A c \in Call : kind[c] = "send" /\ outcome[c] = "ok" => from[c] \in trust[at[c]]

\* A text reported as sent, and not yet received, is not lost as long as the
\* receiving end is open: closing the sender's end right after the write resets
\* nothing, for the HELLO in return has been read, and the handler has yet to read
\* (device.go:203, 213-217, 267-287).
SentTextWaits ==
    \A c \in SendCall :
        outcome[c] = "ok" /\ inbox[c] = "none" /\ "server" \in open[c]
            => toServer[c] = <<"MESSAGE">> /\ handlerPC[c] = "loop"

\* When Pair returns nil, both stores hold the other device, whatever crashed
\* or failed on the way (device.go:183-191, 299-320).
PairOkIsMutual ==
    \A c \in Call : kind[c] = "pair" /\ outcome[c] = "ok" =>
        at[c] \in trust[from[c]] /\ from[c] \in trust[at[c]]

\* A key is pinned only while a Pair call for it is under way; no error path
\* leaves one behind (device.go:168-175).
PinsHaveOwner ==
    \A n \in Node : \A k \in pending[n] :
        \E c \in Call : /\ kind[c] = "pair" /\ from[c] = n /\ to[c] = k
                        /\ clientPC[c] \notin {"idle", "done"}

\* The answer a call waits for, and the handler that may yet give it: at work, and
\* not itself waiting for a message.
Answer(c) ==
    IF clientPC[c] = "pinged" THEN "PONG" ELSE IF kind[c] = "pair" THEN "PAIR" ELSE "HELLO"

AtWork(c) == Live(c) /\ ~(handlerPC[c] \in {"first", "loop"} /\ toServer[c] = <<>>)

\* Receive has no deadline (conn.go:57): a call that waits for an answer waits for
\* ever unless the connection ends or somebody else can act.  Either the answer is
\* there, and it is the one expected, or an end has closed, or the accept loop is
\* about to finish this handshake, or the handler is at work.
AwaitedIsComing ==
    \A c \in Call : clientPC[c] \in {"await", "pinged"} =>
        \/ toClient[c] # <<>> /\ Head(toClient[c]) = Answer(c)
        \/ /\ toClient[c] = <<>>
           /\ \/ open[c] # Ends
              \/ link[c] = "finished" /\ acceptor[at[c]] = "busy"
              \/ AtWork(c)

\* Close waits without a deadline (device.go:160).  As long as its counter is not
\* zero, somebody it counts can go on: the accept loop, which finds the listener
\* closed or has a handshake whose other side acts or has left, or a handler that is
\* at work or whose connection has ended; or else a handler has registered too late.
CloseWaitsForSomebody ==
    \A n \in Node : life[n] = "waiting" /\ wg[n] # 0 =>
        \/ acceptor[n] = "accepting"
        \/ \E c \in Call : at[c] = n /\
              \/ /\ acceptor[n] = "busy"
                 /\ \/ link[c] = "finished"
                    \/ link[c] = "handshake" /\ (clientPC[c] = "tls" \/ open[c] # Ends)
              \/ AtWork(c)
              \/ Live(c) /\ (open[c] # Ends \/ c \in conns[n])

\* "A key is accepted if it is a trusted peer or pending pairing"
\* (device.go:113-114): as long as a Pair call is dialling, the key it is
\* pairing with is.
PendingIsAccepted ==
    \A c \in Call : kind[c] = "pair" /\ clientPC[c] \in {"dial", "tls"} =>
        Trusted(from[c], to[c])

\* Once Close has returned, nothing of the node is left that could use its
\* store: no listener, accept loop or handler (device.go:150-162).
QuietAfterClose ==
    \A n \in Node : life[n] = "closed" =>
        /\ ~listening[n]
        /\ acceptor[n] \in {"off", "stopped"}
        /\ \A c \in Call : at[c] = n => ~Live(c)

\* Close can reach every handler that has got past its registration, or has closed
\* the connection under it (device.go:234-236, 154-158); one that registers too late
\* is in conns again, where nobody looks any more.
CloseReachesHandlers ==
    \A c \in Call : Live(c) /\ handlerPC[c] # "register" =>
        \/ c \in conns[at[c]]
        \/ life[at[c]] = "waiting" /\ "server" \notin open[c]

\* Start "begins accepting encrypted connections" and Close "stops the
\* listener" (device.go:129, 149): in between, the accept loop runs.
AcceptsUntilClosed ==
    \A n \in Node : life[n] = "running" => acceptor[n] # "stopped"

\* Every Pair and every SendText returns.
CallReturns ==
    \A c \in Call : kind[c] # "session" =>
        (clientPC[c] = "dial" ~> clientPC[c] = "done")

\* Close returns (device.go:149-162).
CloseReturns ==
    \A n \in Node : life[n] = "closeConns" ~> life[n] \in {"closed", "new"}

\* A text that SendText reports as sent gets to the messageLoop of the node
\* dialled, unless that node is being closed.
SentTextArrives ==
    \A c \in Call : kind[c] = "send" =>
        (outcome[c] = "ok" ~> \/ inbox[c] # "none"
                              \/ life[at[c]] # "running")

=============================================================================
