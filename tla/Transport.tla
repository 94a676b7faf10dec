------------------------------ MODULE Transport ------------------------------
(***************************************************************************)
(* Connections between nodes, as internal/transport/tcp provides them: a   *)
(* TCP listener with its accept queue, a TLS 1.3 handshake that the two    *)
(* sides finish at different moments, and one ordered stream of control    *)
(* messages in each direction that either end may close.                   *)
(*                                                                         *)
(* Every Pair and every SendText dials exactly one connection, so a        *)
(* connection is named by the call c that dials it:                        *)
(*   kind[c]  "pair" (Node.Pair), "send" (Node.SendText) or "session" (a   *)
(*            device outside this repository that stays connected),        *)
(*   from[c]  the node that makes the call,                                *)
(*   to[c]    the device whose ID the caller passes,                       *)
(*   at[c]    the node that answers at the address the caller passes.      *)
(* Identities are public keys and device IDs are their hashes, so a node   *)
(* stands for its key and for its device ID.  Bytes, frames and JSON are   *)
(* abstracted to the type of each message; a PAIR or HELLO carries the     *)
(* identity of the end that wrote it.                                      *)
(***************************************************************************)
EXTENDS Naturals, Sequences, FiniteSets

CONSTANTS
    Node,       \* devices that run this program
    Call,       \* the calls that may be made, each at most once
    kind, from, to, at,
    Faults      \* faults the environment may inject, a subset of FaultKind

FaultKind == {"timeout", "store"}

Kind == {"pair", "send", "session"}

ASSUME TransportAssumption ==
    /\ IsFiniteSet(Call)
    /\ kind \in [Call -> Kind]
    /\ from \in [Call -> Node]
    /\ to \in [Call -> Node]
    /\ at \in [Call -> Node]
    /\ \A c \in Call : from[c] # at[c]
    /\ Faults \subseteq FaultKind

VARIABLES
    listening,  \* listening[n]: the listener of node n is open
    link,       \* link[c]: how far the TLS connection of call c has come
    open,       \* open[c]: the ends of the connection that are not closed
    toServer,   \* toServer[c]: messages on their way to the listening side
    toClient    \* toClient[c]: messages on their way to the dialling side

netVars == <<listening, link, open, toServer, toClient>>

Ends == {"client", "server"}

MessageType == {"HELLO", "PAIR", "MESSAGE", "PING", "PONG"}

\* "queued": connected, waiting in the accept queue; "handshake": the server
\* runs tls.Conn.Handshake; "finished": the client has checked the server and
\* is done; "up": both are; "dead": refused, reset or failed.
LinkState == {"none", "queued", "handshake", "finished", "up", "dead"}

NetTypeOK ==
    /\ listening \in [Node -> BOOLEAN]
    /\ link \in [Call -> LinkState]
    /\ open \in [Call -> SUBSET Ends]
    /\ toServer \in [Call -> Seq(MessageType)]
    /\ toClient \in [Call -> Seq(MessageType)]

NetInit ==
    /\ listening = [n \in Node |-> FALSE]
    /\ link = [c \in Call |-> "none"]
    /\ open = [c \in Call |-> {}]
    /\ toServer = [c \in Call |-> <<>>]
    /\ toClient = [c \in Call |-> <<>>]

\* net.Dial: the kernel completes the connection and queues it for Accept,
\* whether or not anybody will ever call Accept.
TcpConnect(c) ==
    /\ listening[at[c]]
    /\ link' = [link EXCEPT ![c] = "queued"]
    /\ open' = [open EXCEPT ![c] = Ends]
    /\ UNCHANGED <<listening, toServer, toClient>>

\* The client ends of the calls in C and the server ends of those in S close.
\* An end reads nothing after it has closed.  The other end still reads what
\* was sent to it before, unless the closing end leaves input unread: TCP then
\* resets the connection, which may discard it.
Disconnect(C, S) ==
    /\ open' = [c \in Call |->
                   {e \in open[c] : ~ \/ e = "client" /\ c \in C
                                      \/ e = "server" /\ c \in S}]
    /\ \E reset \in SUBSET {c \in C \cup S : \/ c \in C /\ toClient[c] # <<>>
                                             \/ c \in S /\ toServer[c] # <<>>} :
          /\ toServer' = [c \in Call |->
                             IF c \in S \cup reset THEN <<>> ELSE toServer[c]]
          /\ toClient' = [c \in Call |->
                             IF c \in C \cup reset THEN <<>> ELSE toClient[c]]

\* ControlChannel.Send by one end: the message is queued for the other end, or
\* lost when that end has closed.
SendToServer(c, m) ==
    toServer' = IF "server" \in open[c]
                THEN [toServer EXCEPT ![c] = Append(@, m)] ELSE toServer

SendToClient(c, m) ==
    toClient' = IF "client" \in open[c]
                THEN [toClient EXCEPT ![c] = Append(@, m)] ELSE toClient

\* ControlChannel.Receive fails: nothing left to read, and one end has closed.
ServerEOF(c) == toServer[c] = <<>> /\ open[c] # Ends
ClientEOF(c) == toClient[c] = <<>> /\ open[c] # Ends

=============================================================================
