------------------------------- MODULE Capture -------------------------------
(***************************************************************************)
(* Clipboard capture: a Watcher whose receiver adds every text it gets to  *)
(* the clipboard history, while others add and delete entries of their     *)
(* own.  Nothing in src/ connects the two packages yet; the receiver is    *)
(* the obvious loop, for text := range Changes(ctx) { store.Add(text) }.   *)
(***************************************************************************)
EXTENDS Watcher, History

CONSTANTS
    Receiver,   \* the adder that receives from the watcher
    MaxCalls,   \* bound: how often the others call Add or delete an entry
    MaxCrashes  \* bound: how often the process is restarted

ASSUME CaptureAssumption ==
    /\ Content \subseteq Text
    /\ Receiver \in Adder
    /\ MaxCalls \in Nat
    /\ MaxCrashes \in Nat

VARIABLES
    gone,           \* the receiver has stopped receiving
    calls, crashes

vars == <<watcherVars, historyVars, gone, calls, crashes>>

TypeOK ==
    /\ WatcherTypeOK
    /\ HistoryTypeOK
    /\ gone \in BOOLEAN
    /\ calls \in 0..MaxCalls
    /\ crashes \in 0..MaxCrashes

Init ==
    /\ WatcherInit
    /\ HistoryInit
    /\ gone = FALSE
    /\ calls = 0 /\ crashes = 0

Copy ==
    /\ \E t \in Content : WriteText(t)
    /\ UNCHANGED <<historyVars, gone, calls, crashes>>

Cancel == CancelWatch /\ UNCHANGED <<historyVars, gone, calls, crashes>>

Watch == WatcherStep /\ UNCHANGED <<historyVars, gone, calls, crashes>>

\* The receiver takes the text offered and calls Add.
Receive ==
    /\ ~gone
    /\ \E t \in Content : Offer(t) /\ Call(Receiver, t)
    /\ UNCHANGED <<gone, calls, crashes>>

\* It leaves its loop; after that nobody receives.
Leave ==
    /\ ~gone
    /\ gone' = TRUE
    /\ UNCHANGED <<watcherVars, historyVars, calls, crashes>>

\* Somebody else calls Add, or deletes an entry.
OtherCall ==
    /\ calls < MaxCalls
    /\ calls' = calls + 1
    /\ \/ \E a \in Adder \ {Receiver}, t \in Text : Call(a, t)
       \/ \E i \in 1..Len(table) : Delete(i)
    /\ UNCHANGED <<watcherVars, gone, crashes>>

Add(a) == AddStep(a) /\ UNCHANGED <<watcherVars, gone, calls, crashes>>

Crash ==
    /\ crashes < MaxCrashes
    /\ crashes' = crashes + 1
    /\ WatcherRestart
    /\ HistoryRestart
    /\ gone' = FALSE
    /\ UNCHANGED calls

Next ==
    \/ Copy \/ Cancel \/ Watch \/ Receive \/ Leave \/ OtherCall \/ Crash
    \/ \E a \in Adder : Add(a)

Spec == Init /\ [][Next]_vars

\* Goroutines that can go on do, and ticks come.  A read or a statement that
\* fails now and then is tried again by nobody but the next tick.
FairSpec ==
    /\ Spec
    /\ WF_vars(Watch) /\ WF_vars(Receive)
    /\ \A a \in Adder : WF_vars(Add(a))

-----------------------------------------------------------------------------
(* Properties *)

\* What List(Max) shows, whatever Adds are under way or have failed to trim,
\* is a list of recent texts (history.go:31-57).
Shown == INSTANCE RecentTexts
         WITH requests <- calls,
              recent <- IF Max > 0 THEN [i \in 1..Len(Newest(Max, table)) |->
                                                 Newest(Max, table)[i].text]
                             ELSE [i \in 1..Len(table) |-> table[i].text]

ShowsRecentTexts == Shown!Spec

\* The table outgrows Max only by the entries of Adds that have not trimmed: those
\* between insert and trim, and those whose trim failed or never came, until the
\* next trim (history.go:41-46).
Bounded ==
    Max > 0 => Len(table) <= Max + Cardinality({a \in Adder : aPC[a] = "trim"}) + owed

\* A new entry repeats the one before it only if another Add or a Delete came
\* between the look at the newest entry and the insert (history.go:34-41).
RepeatsOnlyWhenRaced ==
    [][lastID' # lastID =>
          \/ table = <<>>
          \/ table'[Len(table')].text # table[Len(table)].text
          \/ \E a \in Adder : aPC[a] = "insert" /\ aPC'[a] # "insert" /\ raced[a]]_vars

\* An ID names one entry for ever: whoever has it from List, and uses it in Get or
\* Delete when its entry may be gone, never gets at another one (storage.go:56,
\* storage/history.go:45-64).
IDsNameOneEntry == \A r, s \in inserted : r.id = s.id => r = s

\* The watcher puts a text on offer.
PutsOnOffer == wPC # "send" /\ wPC' = "send"

\* It does so only when one has been copied, in this watch, since it last noted what
\* is on the clipboard: it repeats nothing, and emits nothing that was there at the
\* start (watcher.go:27-29).  The one exception is the first text after a first
\* read that failed (watcher.go:38-40).
OffersAreNews == [][PutsOnOffer => fresh \/ blind]_vars

\* "It does not emit the value present at startup" (watcher.go:28-29), also when the
\* first read fails.
StartupIsNotOffered == [][PutsOnOffer => fresh]_vars

\* A text that stays on the clipboard becomes the newest entry, unless its Add
\* fails, the watch is cancelled, the receiver leaves or the process dies.
CopiesAreCaptured ==
    \A t \in Content :
        (wPC = "wait" /\ clip = t /\ last # t)
        ~> \/ IsNewest(t) \/ result[Receiver] = "error"
           \/ clip # t \/ cancelled \/ gone \/ wPC = "start"

\* "The channel closes when ctx is canceled" (watcher.go:29), also when a text is
\* on offer that nobody will ever receive.
CancelCloses == cancelled ~> wPC = "closed" \/ ~cancelled

=============================================================================
