----------------------------- MODULE FileDelivery -----------------------------
(***************************************************************************)
(* What a file transfer promises, without messages, chunks or streams.     *)
(*                                                                         *)
(* Each side has at most one transfer open and ends it with one result.    *)
(* The receiver opens a transfer that has been offered; only then are      *)
(* bytes of the file sent.  It never has more of the file than was sent,   *)
(* nothing is written once it has its result, and it says "ok" only when   *)
(* it has the size that was offered and the sender, who has been through   *)
(* the whole file, has said "ok" before.                                   *)
(***************************************************************************)
EXTENDS Naturals

CONSTANTS Transfer, Size, Lengths

VARIABLES
    length,     \* length[t]: bytes in the file of transfer t, once it is offered
    sent,       \* sent[t]: how many of them the sender has sent
    written,    \* written[t]: how many of them the receiver has written, in order
    sender, receiver  \* what has become of transfer t on each side

vars == <<length, sent, written, sender, receiver>>

Init ==
    /\ length = [t \in Transfer |-> 0]
    /\ sent = [t \in Transfer |-> 0]
    /\ written = [t \in Transfer |-> 0]
    /\ sender = [t \in Transfer |-> "idle"]
    /\ receiver = [t \in Transfer |-> "idle"]

\* The offer may fail at once.
Offer(t) ==
    /\ sender[t] = "idle"
    /\ \A u \in Transfer : sender[u] # "open"
    /\ \E n \in Lengths[t] : length' = [length EXCEPT ![t] = n]
    /\ \E s \in {"open", "error"} : sender' = [sender EXCEPT ![t] = s]
    /\ UNCHANGED <<sent, written, receiver>>

Accept(t) ==
    /\ sender[t] # "idle"
    /\ receiver[t] = "idle"
    /\ \A u \in Transfer : receiver[u] # "open"
    /\ receiver' = [receiver EXCEPT ![t] = "open"]
    /\ UNCHANGED <<length, sent, written, sender>>

Send(t) ==
    /\ sender[t] = "open"
    /\ receiver[t] # "idle"
    /\ \E n \in sent[t]..length[t] : sent' = [sent EXCEPT ![t] = n]
    /\ UNCHANGED <<length, written, sender, receiver>>

\* The write that fails may leave some of its bytes behind.
Write(t) ==
    /\ receiver[t] = "open"
    /\ \E n \in written[t]..sent[t] : written' = [written EXCEPT ![t] = n]
    /\ \E r \in {"open", "error"} : receiver' = [receiver EXCEPT ![t] = r]
    /\ UNCHANGED <<length, sent, sender>>

SendEnds(t) ==
    /\ sender[t] = "open"
    /\ \/ sender' = [sender EXCEPT ![t] = "error"]
       \/ /\ receiver[t] # "idle"
          /\ sent[t] = length[t]
          /\ sender' = [sender EXCEPT ![t] = "ok"]
    /\ UNCHANGED <<length, sent, written, receiver>>

ReceiveEnds(t) ==
    /\ receiver[t] = "open"
    /\ \/ receiver' = [receiver EXCEPT ![t] = "error"]
       \/ /\ sender[t] = "ok"
          /\ written[t] >= Size[t]
          /\ receiver' = [receiver EXCEPT ![t] = "ok"]
    /\ UNCHANGED <<length, sent, written, sender>>

Next ==
    \E t \in Transfer : Offer(t) \/ Accept(t) \/ Send(t) \/ Write(t)
                        \/ SendEnds(t) \/ ReceiveEnds(t)

Spec == Init /\ [][Next]_vars
=============================================================================
