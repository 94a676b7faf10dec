---------------------------- MODULE TrustAgreement ----------------------------
(***************************************************************************)
(* What pairing promises, without connections, goroutines or crashes.      *)
(*                                                                         *)
(* An attempt p is made by from[p] and answered by at[p].  The answering     *)
(* device records the other first; only then may the attempt succeed, in   *)
(* the very step that records the answering device at the initiator.  An   *)
(* attempt may fail at any time, and one that fails may leave the          *)
(* answering device trusting the initiator, never the other way round.     *)
(* Trust is never taken back and never given outside of an attempt.        *)
(***************************************************************************)
CONSTANTS
    Device,     \* devices
    Attempt,    \* pairing attempts
    from, at,   \* the device that makes an attempt, and the one that answers
    Initial     \* trust at the start, a function from Device to sets of them

VARIABLES
    trust,      \* trust[d]: the devices d trusts
    result      \* result[p]: what became of attempt p

vars == <<trust, result>>

Init ==
    /\ trust = Initial
    /\ result = [p \in Attempt |-> "idle"]

Begin(p) ==
    /\ result[p] = "idle"
    /\ result' = [result EXCEPT ![p] = "open"]
    /\ UNCHANGED trust

\* The answering device may learn of the initiator's failure late or never, so
\* it may record it even then.
Grant(p) ==
    /\ result[p] # "idle"
    /\ trust' = [trust EXCEPT ![at[p]] = @ \cup {from[p]}]
    /\ UNCHANGED result

Conclude(p) ==
    /\ result[p] = "open"
    /\ from[p] \in trust[at[p]]
    /\ trust' = [trust EXCEPT ![from[p]] = @ \cup {at[p]}]
    /\ result' = [result EXCEPT ![p] = "ok"]

Fail(p) ==
    /\ result[p] = "open"
    /\ result' = [result EXCEPT ![p] = "error"]
    /\ UNCHANGED trust

\* A crash of the initiator ends all of its attempts at once.
FailAll(d) ==
    /\ result' = [p \in Attempt |->
                     IF from[p] = d /\ result[p] = "open" THEN "error" ELSE result[p]]
    /\ UNCHANGED trust

Next ==
    \/ \E p \in Attempt : Begin(p) \/ Grant(p) \/ Conclude(p) \/ Fail(p)
    \/ \E d \in Device : FailAll(d)

Spec == Init /\ [][Next]_vars
=============================================================================
