----------------------------- MODULE TextDelivery -----------------------------
(***************************************************************************)
(* What sending a text promises, without connections, messages or crashes. *)
(*                                                                         *)
(* A text whose sending fails is never received: it may be sent again.     *)
(* One that is reported as sent comes from a device that the receiver      *)
(* trusts, and it is received once or, at worst, never.                    *)
(***************************************************************************)
CONSTANTS Text  \* texts somebody may send, each once

VARIABLES
    trusted,    \* the texts whose sender the receiving device trusts
    result,     \* result[t]: what the sender has been told of text t
    received    \* received[t]: what has become of it on the other device

vars == <<trusted, result, received>>

Init ==
    /\ trusted \in SUBSET Text
    /\ result = [t \in Text |-> "idle"]
    /\ received = [t \in Text |-> "none"]

\* Devices get to know each other, and never cease to.
Trust ==
    /\ \E T \in SUBSET Text : trusted' = trusted \cup T
    /\ UNCHANGED <<result, received>>

Begin(t) ==
    /\ result[t] = "idle"
    /\ result' = [result EXCEPT ![t] = "open"]
    /\ UNCHANGED <<trusted, received>>

Succeed(t) ==
    /\ result[t] = "open"
    /\ t \in trusted
    /\ result' = [result EXCEPT ![t] = "ok"]
    /\ UNCHANGED <<trusted, received>>

\* One text alone, or all that a device was sending when it crashed.
Fail(T) ==
    /\ \A t \in T : result[t] = "open"
    /\ result' = [t \in Text |-> IF t \in T THEN "error" ELSE result[t]]
    /\ UNCHANGED <<trusted, received>>

Receive(t) ==
    /\ result[t] = "ok"
    /\ received[t] = "none"
    /\ \E r \in {"handled", "ignored"} : received' = [received EXCEPT ![t] = r]
    /\ UNCHANGED <<trusted, result>>

Next ==
    \/ Trust
    \/ \E t \in Text : Begin(t) \/ Succeed(t) \/ Receive(t)
    \/ \E T \in SUBSET Text : Fail(T)

Spec == Init /\ [][Next]_vars
=============================================================================
