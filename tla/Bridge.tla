------------------------------- MODULE Bridge -------------------------------
(***************************************************************************)
(* cmd/mac: whole processes.  main loads the identity, starts the node,    *)
(* announces it, discovers others, and then runs one command at a time.    *)
(* Processes die and are launched again, each time at an address of its    *)
(* own.  Connections are those of Device with their steps taken together:  *)
(* the responder's store, the initiator's store, a text that arrives.      *)
(***************************************************************************)
EXTENDS Identity, Discovery

CONSTANTS
    Befriended,  \* pairs <<d, e>> of settled directories: d trusts e
    Client,      \* bound: the processes whose browsing and commands are
                 \* followed; the others are found, dialled and restarted
    MaxLaunches  \* bound: how often process p is launched is MaxLaunches[p]

ASSUME BridgeAssumption ==
    /\ Befriended \subseteq Dir \X Dir
    /\ None \notin Addr /\ None \notin Peer
    /\ Client \subseteq Process
    /\ MaxLaunches \in [Process -> Nat]

VARIABLES
    address,    \* address[p]: where p listens, or None
    order,      \* order[p]: the table entry its command is about
    met,        \* met[p]: the key that has answered Pair, or got the text
    trust,      \* trust[d]: the keys in the peers table of d
    paired,     \* <<j, k>> once a Pair of identity j with k has succeeded
    launches

commandVars == <<order, met>>
vars == <<identityVars, discoveryVars, address, commandVars, trust, paired, launches>>

Up == {"up", "pair", "confirm", "send", "sent"}
Serving == Up \cup {"listening"}
Running == Serving \cup {"loaded"}

TypeOK ==
    /\ pc \in [Process -> Running \cup {"off", "load", "generate", "open", "write", "cert"}]
    /\ id \in [Process -> Key \cup {None}]
    /\ keyFile \in [Dir -> Key \cup {None, Torn}]
    /\ unflushed \subseteq Dir /\ upset \subseteq Dir
    /\ used \in [Dir -> SUBSET Key]
    /\ DiscoveryTypeOK
    /\ \A p \in Process : id[p] \in Key => table[p][id[p]] = None
    /\ address \in [Process -> Addr \cup {None}]
    /\ order \in [Process -> Peer \cup {None}]
    /\ met \in [Process -> Key \cup {None}]
    /\ trust \in [Dir -> SUBSET Key]
    /\ paired \subseteq Key \X Key
    /\ launches \in [Process -> Nat]

Init ==
    /\ IdentityInit /\ DiscoveryInit
    /\ address = [p \in Process |-> None]
    /\ order = [p \in Process |-> None]
    /\ met = [p \in Process |-> None]
    /\ trust = [d \in Dir |-> {Settled[e] : e \in {f \in Dir : <<d, f>> \in Befriended}}
                              \cap Key]
    /\ paired = {}
    /\ launches = [p \in Process |-> 0]

-----------------------------------------------------------------------------
(* main *)

Launch(p) ==
    /\ pc[p] = "off"
    /\ launches[p] < MaxLaunches[p]
    /\ launches' = [launches EXCEPT ![p] = @ + 1]
    /\ Goto(p, "load")
    /\ UNCHANGED <<id, filesVars, used, upset, discoveryVars, address, commandVars,
                   trust, paired>>

\* device.New, as far as it can be observed.
LoadIdentity(p) ==
    /\ IdentityStep(p)
    /\ UNCHANGED <<discoveryVars, address, commandVars, trust, paired, launches>>

\* Node.Start, at a port the system picks, and NewAnnouncer: others hear of p.
Start(p) ==
    /\ pc[p] = "loaded"
    /\ Goto(p, "listening")
    /\ \E ad \in Addr :
          /\ \A q \in Process : address[q] # ad
          /\ address' = [address EXCEPT ![p] = ad]
    /\ UNCHANGED <<id, filesVars, used, upset, discoveryVars, commandVars,
                   trust, paired, launches>>

\* main begins to browse, installs the handlers and reads commands.
Install(p) ==
    /\ pc[p] = "listening"
    /\ Goto(p, "up")
    /\ UNCHANGED <<id, filesVars, used, upset, discoveryVars, address, commandVars,
                   trust, paired, launches>>

\* The processes in P are gone, with all they had in memory.
Vanish(P) ==
    /\ Forget(P)
    /\ address' = [p \in Process |-> IF p \in P THEN None ELSE address[p]]
    /\ order' = [p \in Process |-> IF p \in P THEN None ELSE order[p]]
    /\ met' = [p \in Process |-> IF p \in P THEN None ELSE met[p]]
    /\ UNCHANGED <<trust, paired, launches>>

\* The user quits, something is fatal, or the process is killed.
Die(p) ==
    /\ pc[p] # "off"
    /\ Ends(p)
    /\ Vanish({p})
    /\ UNCHANGED <<filesVars, upset>>

LosePower(d) == PowerLoss(d) /\ Vanish({p \in Process : dir[p] = d})

Sync(d) ==
    /\ Flush(d)
    /\ UNCHANGED <<discoveryVars, address, commandVars, trust, paired, launches>>

-----------------------------------------------------------------------------
(* Discovery *)

Record(q) == [key |-> id[q], addr |-> address[q]]

\* An announcement of q reaches p, which may be q itself.
HearOf(p, q) ==
    /\ p \in Client /\ pc[p] \in Up /\ pc[q] \in Serving
    /\ Hear(p, Record(q))
    /\ UNCHANGED <<identityVars, address, commandVars, trust, paired, launches>>

ListPeer(p) ==
    /\ List(p, id[p])
    /\ UNCHANGED <<identityVars, address, commandVars, trust, paired, launches>>

-----------------------------------------------------------------------------
(* Commands *)

Command(p, what, e) ==
    /\ p \in Client /\ pc[p] = "up"
    /\ Goto(p, what)
    /\ order' = [order EXCEPT ![p] = e]
    /\ UNCHANGED met

\* The command is over; it leaves nothing in main.
Finished(p) ==
    /\ Goto(p, "up")
    /\ order' = [order EXCEPT ![p] = None]
    /\ met' = [met EXCEPT ![p] = None]

\* What lookup may find: it takes the first entry that matches the query, in
\* whatever order the map is walked.
Listed(p) == {e \in Peer : table[p][e.key] = e.addr}

\* pair and send.
UseTable(p) ==
    /\ \E e \in Listed(p), what \in {"pair", "send"} : Command(p, what, e)
    /\ UNCHANGED <<id, filesVars, used, upset, discoveryVars, address,
                   trust, paired, launches>>

\* pair-with, with what q has printed about itself; nobody pairs with himself.
PairWith(p, q) ==
    /\ pc[q] \in Up /\ id[q] # id[p]
    /\ Command(p, "pair", Record(q))
    /\ Enter(p, Record(q))
    /\ UNCHANGED <<id, filesVars, used, upset, seen, hand, address,
                   trust, paired, launches>>

\* Mutant of Accepts: any self-signed certificate will do.
AcceptsAny(p, key) == TRUE

\* Node.Trusted: what a dialling process accepts; Pair pins the key it is given.
Accepts(p, key) ==
    \/ key \in trust[dir[p]]
    \/ pc[p] = "pair" /\ key = order[p].key

\* Whoever is at the address now answers, with the handlers installed.
Grant(p) ==
    /\ pc[p] = "pair"
    /\ \E x \in Process :
          /\ pc[x] \in Up
          /\ address[x] = order[p].addr
          /\ Accepts(p, id[x])
          /\ trust' = [trust EXCEPT ![dir[x]] = @ \cup {id[p]}]
          /\ met' = [met EXCEPT ![p] = id[x]]
    /\ Goto(p, "confirm")
    /\ UNCHANGED <<id, filesVars, used, upset, discoveryVars, address, order,
                   paired, launches>>

\* Mutant of Conclude: AddPeer's error is ignored.
ConcludeUnchecked(p) ==
    /\ pc[p] = "confirm"
    /\ trust' \in {trust, [trust EXCEPT ![dir[p]] = @ \cup {met[p]}]}
    /\ paired' = paired \cup {<<id[p], met[p]>>}
    /\ Finished(p)
    /\ UNCHANGED <<id, filesVars, used, upset, discoveryVars, address, launches>>

\* Pair stores the peer and returns nil.
Conclude(p) ==
    /\ pc[p] = "confirm"
    /\ trust' = [trust EXCEPT ![dir[p]] = @ \cup {met[p]}]
    /\ paired' = paired \cup {<<id[p], met[p]>>}
    /\ Finished(p)
    /\ UNCHANGED <<id, filesVars, used, upset, discoveryVars, address, launches>>

\* A text arrives at whoever is at the address, if the two trust each other.
Deliver(p) ==
    /\ pc[p] = "send"
    /\ \E x \in Process :
          /\ pc[x] \in Serving
          /\ address[x] = order[p].addr
          /\ Accepts(p, id[x]) /\ id[p] \in trust[dir[x]]
          /\ met' = [met EXCEPT ![p] = id[x]]
    /\ Goto(p, "sent")
    /\ UNCHANGED <<id, filesVars, used, upset, discoveryVars, address, order,
                   trust, paired, launches>>

\* SendText returns; or a step of the command fails.
CommandEnds(p) ==
    /\ pc[p] \in {"pair", "confirm", "send", "sent"}
    /\ Finished(p)
    /\ UNCHANGED <<id, filesVars, used, upset, discoveryVars, address,
                   trust, paired, launches>>

-----------------------------------------------------------------------------
(* The specification *)

Next ==
    \/ \E p \in Process :
          \/ Launch(p) \/ LoadIdentity(p) \/ Start(p) \/ Install(p) \/ Die(p)
          \/ ListPeer(p)
          \/ UseTable(p) \/ Grant(p) \/ Conclude(p) \/ Deliver(p) \/ CommandEnds(p)
          \/ \E q \in Process : HearOf(p, q) \/ PairWith(p, q)
    \/ \E d \in Dir : LosePower(d) \/ Sync(d)

Spec == Init /\ [][Next]_vars

\* Goroutines go on, and zeroconf, which asks again and again, gets to hear of
\* every node that stays.
FairSpec ==
    /\ Spec
    /\ \A p \in Client : WF_vars(ListPeer(p)) /\ \A q \in Process : WF_vars(HearOf(p, q))

-----------------------------------------------------------------------------
(* Properties *)

\* However often processes die, and wherever in Save, LoadOrCreate returns one
\* identity for a directory, unless something of the kind in upset has happened
\* there (store.go:66-78).
IdentityKept == \A d \in Dir \ upset : Cardinality(used[d]) <= 1

\* Devices that have paired know each other whenever they run again: their stores
\* hold the identities they run with (device.go:60-102, 164-192).
PairedKnown ==
    \A p, q \in Process :
        /\ pc[p] \in Running /\ pc[q] \in Running
        /\ dir[p] \notin upset /\ dir[q] \notin upset
        /\ paired \cap (used[dir[p]] \X used[dir[q]]) # {}
        => id[q] \in trust[dir[p]] /\ id[p] \in trust[dir[q]]

\* A Pair that succeeds records no device but the one whose key it was given,
\* whoever answers at the address by then (device.go:164-166).
NoStrangerPaired ==
    [][\A p \in Process : pc[p] = "confirm" /\ pc'[p] = "up" =>
          trust'[dir[p]] \subseteq trust[dir[p]] \cup {order[p].key}]_vars

\* A node that is announced gets listed by every process that browses, as long as
\* both stay, though a device is emitted once (mdns.go:85-121, main.go:76-86).
AnnouncedIsListed ==
    \A p \in Client : \A q \in Process \ {p} :
        pc[p] \in Up /\ pc[q] \in Serving
        ~> pc[p] \notin Up \/ pc[q] \notin Serving \/ id[q] = id[p] \/ table[p][id[q]] # None

\* "SendText sends a text message to a trusted peer (identified by device ID)"
\* (device.go:194): no other device gets it.
TextReachesAddressee ==
    \A p \in Process : pc[p] = "sent" => met[p] = order[p].key

\* "DeviceID is a stable, transport-independent identifier for a device"
\* (identity.go:12).
DeviceIDIsStable == \A d \in Dir : Cardinality(used[d]) <= 1

=============================================================================
