------------------------------- MODULE Watcher -------------------------------
(***************************************************************************)
(* internal/clipboard: Watcher.Changes, a goroutine that polls a clipboard *)
(* others write to, and offers each change on an unbuffered channel until  *)
(* its context is cancelled.  Who receives is left to the module that      *)
(* composes this one: Offer(t) is the rendezvous.                          *)
(***************************************************************************)
EXTENDS Naturals

CONSTANTS
    Content,    \* clipboard contents; "" is the empty clipboard
    Misreads,   \* ReadText may fail
    MaxCopies   \* bound: how often the clipboard is written to

ASSUME WatcherAssumption ==
    /\ "" \in Content
    /\ Misreads \in BOOLEAN
    /\ MaxCopies \in Nat

VARIABLES
    clip,       \* the text on the clipboard
    wPC,        \* the goroutine: "closed" once it has closed its channel
    last,       \* the text observed last
    cancelled,  \* the context is cancelled
    copies,     \* how often a text has been copied
    \* History variables, of the watch under way:
    fresh,      \* a text has been copied since last was set
    blind       \* the first read failed, and last has not been set since

watcherVars == <<clip, wPC, last, cancelled, copies, fresh, blind>>

WatcherTypeOK ==
    /\ clip \in Content
    /\ wPC \in {"start", "wait", "send", "closed"}
    /\ last \in Content
    /\ cancelled \in BOOLEAN
    /\ copies \in 0..MaxCopies
    /\ fresh \in BOOLEAN
    /\ blind \in BOOLEAN

WatcherInit ==
    /\ clip \in Content
    /\ wPC = "start"
    /\ last = ""
    /\ cancelled = FALSE
    /\ copies = 0
    /\ fresh = FALSE /\ blind = FALSE

\* Somebody copies a text.
WriteText(t) ==
    /\ copies < MaxCopies
    /\ clip' = t
    /\ copies' = copies + 1
    /\ fresh' = TRUE
    /\ UNCHANGED <<wPC, last, cancelled, blind>>

\* The text found at the start is what later ones are compared with; the empty
\* text when it cannot be read.
FirstRead ==
    /\ wPC = "start"
    /\ wPC' = "wait"
    /\ \/ last' = clip /\ blind' = FALSE
       \/ Misreads /\ last' = "" /\ blind' = TRUE
    /\ fresh' = FALSE
    /\ UNCHANGED <<clip, cancelled, copies>>

\* Mutant of Poll: last is not updated.
PollAgain ==
    /\ wPC = "wait"
    /\ clip # last
    /\ wPC' = "send"
    /\ fresh' = FALSE /\ blind' = FALSE
    /\ UNCHANGED <<clip, last, cancelled, copies>>

\* Mutant of Poll: a change is dropped when nobody is ready to receive it.
PollDropping ==
    /\ wPC = "wait"
    /\ clip # last
    /\ last' = clip
    /\ wPC' \in {"wait", "send"}
    /\ fresh' = FALSE /\ blind' = FALSE
    /\ UNCHANGED <<clip, cancelled, copies>>

\* A tick finds another text.  Ticks that find the same, or cannot read, do
\* nothing.
Poll ==
    /\ wPC = "wait"
    /\ clip # last
    /\ last' = clip
    /\ wPC' = "send"
    /\ fresh' = FALSE /\ blind' = FALSE
    /\ UNCHANGED <<clip, cancelled, copies>>

\* The text read then is received, however long that takes.
Offer(t) ==
    /\ wPC = "send"
    /\ t = last
    /\ wPC' = "wait"
    /\ UNCHANGED <<clip, last, cancelled, copies, fresh, blind>>

CancelWatch ==
    /\ ~cancelled
    /\ cancelled' = TRUE
    /\ UNCHANGED <<clip, wPC, last, copies, fresh, blind>>

\* Mutant of Stop: the context is not looked at while a text is offered.
StopIdle ==
    /\ cancelled
    /\ wPC = "wait"
    /\ wPC' = "closed"
    /\ UNCHANGED <<clip, last, cancelled, copies, fresh, blind>>

\* Both selects watch the context; with a tick or a receiver ready as well,
\* either may win.
Stop ==
    /\ cancelled
    /\ wPC \in {"wait", "send"}
    /\ wPC' = "closed"
    /\ UNCHANGED <<clip, last, cancelled, copies, fresh, blind>>

\* The process dies and is started again; the clipboard stays.
WatcherRestart ==
    /\ wPC' = "start"
    /\ last' = ""
    /\ cancelled' = FALSE
    /\ fresh' = FALSE /\ blind' = FALSE
    /\ UNCHANGED <<clip, copies>>

WatcherStep == FirstRead \/ Poll \/ Stop

=============================================================================
