------------------------------- MODULE MCDevice -------------------------------
(***************************************************************************)
(* Instances of Device for TLC.  Two devices; the calls are the   *)
(* model values below, of which each run allows a few.                     *)
(***************************************************************************)
EXTENDS Device

CONSTANTS a, b,          \* devices
          pair, pair2, pairBack,
          text, session  \* calls

\* a pairs with b, perhaps twice; b pairs with a; a sends b a text; a stays
\* connected to b.
Kinds == [c \in Call |->
    CASE c \in {pair, pair2, pairBack} -> "pair"
      [] c = text -> "send"
      [] OTHER -> "session"]
Callers == [c \in Call |-> IF c = pairBack THEN b ELSE a]
Addressees == [c \in Call |-> IF c = pairBack THEN a ELSE b]

Mutual == {<<a, b>>, <<b, a>>}

\* Node a only dials: it serves nobody, so it needs no callbacks, and it is not
\* closed.  The steps cut are steps nobody has to take.
OnlyDials == handlers[a] = {} /\ life[a] \in {"new", "running"}

\* No text is sent, so no MessageHandler is needed.
NoTexts == \A n \in Node : handlers[n] \subseteq {"pair"}
=============================================================================
