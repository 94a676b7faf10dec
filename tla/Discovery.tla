------------------------------ MODULE Discovery ------------------------------
(***************************************************************************)
(* internal/transport/mdns and the table of devices of cmd/mac.  In every  *)
(* process a goroutine of Discoverer.Run takes the entries zeroconf finds, *)
(* drops devices it has seen, and hands the others to a goroutine of main, *)
(* which enters them in the table.  Commands read the table, and pair-with *)
(* writes to it, under one mutex.                                          *)
(***************************************************************************)
EXTENDS Processes

CONSTANT Addr

VARIABLES
    seen,       \* seen[p]: the device IDs Run has come across
    hand,       \* hand[p]: the peer Run is about to send to main, or None
    table       \* table[p][k]: the address listed for k, or None

discoveryVars == <<seen, hand, table>>

Peer == [key : Key, addr : Addr]

DiscoveryTypeOK ==
    /\ seen \in [Process -> SUBSET Key]
    /\ hand \in [Process -> Peer \cup {None}]
    /\ table \in [Process -> [Key -> Addr \cup {None}]]

DiscoveryInit ==
    /\ seen = [p \in Process |-> {}]
    /\ hand = [p \in Process |-> None]
    /\ table = [p \in Process |-> [k \in Key |-> None]]

\* Mutant of Hear: a peer that cannot be sent at once is dropped.
HearDropping(p, e) ==
    /\ hand[p] = None
    /\ e.key \notin seen[p]
    /\ seen' = [seen EXCEPT ![p] = @ \cup {e.key}]
    /\ hand' \in {hand, [hand EXCEPT ![p] = e]}
    /\ UNCHANGED table

\* Run gets entry e.  Entries without an address or an ID, and those of devices
\* seen before, change nothing; the others it offers to main.
Hear(p, e) ==
    /\ hand[p] = None
    /\ e.key \notin seen[p]
    /\ seen' = [seen EXCEPT ![p] = @ \cup {e.key}]
    /\ hand' = [hand EXCEPT ![p] = e]
    /\ UNCHANGED table

Enter(p, e) == table' = [table EXCEPT ![p][e.key] = e.addr]

\* Mutant of List: a process lists itself.
ListAll(p, self) ==
    /\ hand[p] # None
    /\ hand' = [hand EXCEPT ![p] = None]
    /\ Enter(p, hand[p])
    /\ UNCHANGED seen

\* main receives the peer and lists it, unless it is itself.
List(p, self) ==
    /\ hand[p] # None
    /\ hand' = [hand EXCEPT ![p] = None]
    /\ IF hand[p].key = self THEN UNCHANGED table ELSE Enter(p, hand[p])
    /\ UNCHANGED seen

\* What a process knows goes with it.
Forget(P) ==
    /\ seen' = [p \in Process |-> IF p \in P THEN {} ELSE seen[p]]
    /\ hand' = [p \in Process |-> IF p \in P THEN None ELSE hand[p]]
    /\ table' = [p \in Process |-> [k \in Key |-> IF p \in P THEN None ELSE table[p][k]]]

=============================================================================
