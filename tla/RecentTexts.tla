----------------------------- MODULE RecentTexts -----------------------------
(***************************************************************************)
(* What a clipboard history promises: the latest texts, at most Max of     *)
(* them, oldest first.  A text is recorded in one step, which drops the    *)
(* oldest when there are too many.  Nothing is dropped otherwise, unless   *)
(* somebody asks for it, and then an older text may take the free place.   *)
(***************************************************************************)
EXTENDS Naturals, Sequences

CONSTANTS Text, Max

VARIABLES
    recent,     \* the texts shown
    requests    \* how often others have called: to record a text or to delete one

Limit(s) == IF Max > 0 /\ Len(s) > Max THEN SubSeq(s, Len(s) - Max + 1, Len(s)) ELSE s

Init == recent = <<>> /\ requests = 0

Record(t) ==
    /\ recent' = Limit(Append(recent, t))
    /\ UNCHANGED requests

Request ==
    /\ requests' = requests + 1
    /\ UNCHANGED recent

Drop(i) ==
    /\ requests' = requests + 1
    /\ \E older \in {<<>>} \cup {<<t>> : t \in Text} :
          /\ older # <<>> => Len(recent) = Max
          /\ recent' = older \o SubSeq(recent, 1, i - 1) \o SubSeq(recent, i + 1, Len(recent))

Next ==
    \/ \E t \in Text : Record(t)
    \/ Request
    \/ \E i \in 1..Len(recent) : Drop(i)

Spec == Init /\ [][Next]_<<recent, requests>>
=============================================================================
