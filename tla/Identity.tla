------------------------------ MODULE Identity ------------------------------
(***************************************************************************)
(* internal/identity: LoadOrCreate, run by processes of which several may  *)
(* use one data directory, and which may die between any two operations on *)
(* its files.  A key stands for the identity made of it: public key,       *)
(* device ID and certificate are functions of it.  The certificate file is *)
(* written and never read, so only the step that writes it is here.        *)
(***************************************************************************)
EXTENDS Processes, Naturals, FiniteSets

CONSTANTS
    Dir,
    dir,        \* dir[p]: the data directory of process p
    Settled,    \* Settled[d]: the key saved in d long ago, or None
    Torn,       \* a key file that is empty or cut short; None: there is none
    Faults      \* what may go wrong outside, a subset of FaultKind

FaultKind == {"read", "write", "power"}

ASSUME IdentityAssumption ==
    /\ dir \in [Process -> Dir]
    /\ Settled \in [Dir -> Key \cup {None}]
    /\ \A d, e \in Dir : Settled[d] = Settled[e] => d = e \/ Settled[d] = None
    /\ Torn \notin Key \cup {None}
    /\ Faults \subseteq FaultKind

VARIABLES
    pc,         \* pc[p]: the main goroutine; "off" when there is no process
    id,         \* id[p]: the identity in its hands
    keyFile,    \* keyFile[d]: identity.key
    unflushed,  \* directories whose key file has not reached the disk
    used,       \* used[d]: the identities LoadOrCreate has returned for d
    upset       \* directories where a key could not be read, two processes
                \* created one at once, or power was lost before the flush

identityVars == <<pc, id, keyFile, unflushed, used, upset>>
filesVars == <<keyFile, unflushed>>

Creating(p) == pc[p] \in {"generate", "open", "write", "cert"}

IdentityInit ==
    /\ pc = [p \in Process |-> "off"]
    /\ id = [p \in Process |-> None]
    /\ keyFile = Settled
    /\ unflushed = {}
    /\ used = [d \in Dir |-> {Settled[d]} \cap Key]
    /\ upset = {}

Goto(p, next) == pc' = [pc EXCEPT ![p] = next]

\* The process ends: it dies, or LoadOrCreate reports an error and main gives up.
Ends(p) ==
    /\ Goto(p, "off")
    /\ id' = [id EXCEPT ![p] = None]
    /\ UNCHANGED used

Returns(p, k) ==
    /\ Goto(p, "loaded")
    /\ id' = [id EXCEPT ![p] = k]
    /\ used' = [used EXCEPT ![dir[p]] = @ \cup {k}]

\* Load.  Any error, whatever it is, leads to a new identity.
Load(p) ==
    /\ pc[p] = "load"
    /\ UNCHANGED filesVars
    /\ LET d == dir[p]
           whole == keyFile[d] \in Key
       IN  \/ whole /\ Returns(p, keyFile[d]) /\ UNCHANGED upset
           \/ /\ ~whole \/ "read" \in Faults
              /\ Goto(p, "generate")
              /\ upset' = IF whole \/ \E q \in Process \ {p} : dir[q] = d /\ Creating(q)
                          THEN upset \cup {d} ELSE upset
              /\ UNCHANGED <<id, used>>

\* Generate: a key nobody has.
Generate(p) ==
    /\ pc[p] = "generate"
    /\ \E k \in Key :
          /\ \A d \in Dir : k # keyFile[d] /\ k \notin used[d]
          /\ \A q \in Process : k # id[q]
          /\ id' = [id EXCEPT ![p] = k]
    /\ Goto(p, "open")
    /\ UNCHANGED <<filesVars, used, upset>>

\* Save.  WriteFile first empties the file ...
OpenKey(p) ==
    /\ pc[p] = "open"
    /\ \/ /\ keyFile' = [keyFile EXCEPT ![dir[p]] = Torn]
          /\ Goto(p, "write")
          /\ UNCHANGED <<id, used>>
       \/ "write" \in Faults /\ Ends(p) /\ UNCHANGED keyFile
    /\ UNCHANGED <<unflushed, upset>>

\* Mutant of WriteKey: Save does not look at the error of WriteFile.
WriteKeyUnchecked(p) ==
    /\ pc[p] = "write"
    /\ \/ keyFile' = [keyFile EXCEPT ![dir[p]] = id[p]]
       \/ "write" \in Faults /\ UNCHANGED keyFile
    /\ Goto(p, "cert")
    /\ unflushed' = unflushed \cup {dir[p]}
    /\ UNCHANGED <<id, used, upset>>

\* ... and then writes it, which may fail halfway.  Nothing syncs it.
WriteKey(p) ==
    /\ pc[p] = "write"
    /\ \/ /\ keyFile' = [keyFile EXCEPT ![dir[p]] = id[p]]
          /\ unflushed' = unflushed \cup {dir[p]}
          /\ Goto(p, "cert")
          /\ UNCHANGED <<id, used>>
       \/ "write" \in Faults /\ Ends(p) /\ UNCHANGED filesVars
    /\ UNCHANGED upset

\* The certificate; when that fails, LoadOrCreate fails but the key stays.
WriteCert(p) ==
    /\ pc[p] = "cert"
    /\ \/ Returns(p, id[p])
       \/ "write" \in Faults /\ Ends(p)
    /\ UNCHANGED <<filesVars, upset>>

IdentityStep(p) == Load(p) \/ Generate(p) \/ OpenKey(p) \/ WriteKey(p) \/ WriteCert(p)

\* The operating system writes the file to the disk.
Flush(d) ==
    /\ d \in unflushed
    /\ unflushed' = unflushed \ {d}
    /\ UNCHANGED <<pc, id, keyFile, used, upset>>

\* The machine loses power: its processes end, and what has not reached the
\* disk may be gone.
PowerLoss(d) ==
    /\ "power" \in Faults
    /\ pc' = [p \in Process |-> IF dir[p] = d THEN "off" ELSE pc[p]]
    /\ id' = [p \in Process |-> IF dir[p] = d THEN None ELSE id[p]]
    /\ \/ UNCHANGED <<keyFile, upset>>
       \/ /\ d \in unflushed
          /\ keyFile' = [keyFile EXCEPT ![d] = Torn]
          /\ upset' = upset \cup {d}
    /\ unflushed' = unflushed \ {d}
    /\ UNCHANGED used

=============================================================================
