------------------------------- MODULE History -------------------------------
(***************************************************************************)
(* internal/history over internal/storage: Store.Add is three statements,  *)
(* each atomic in SQLite, with no transaction or lock around them: read    *)
(* the newest entry, insert, trim.  Several goroutines or processes may    *)
(* call Add on one database.                                               *)
(***************************************************************************)
EXTENDS Naturals, Sequences, FiniteSets

CONSTANTS
    Text,
    Adder,      \* goroutines that call Add
    Max,        \* history.New(db, Max); 0: no limit
    StoreFails  \* statements may fail

ASSUME HistoryAssumption ==
    /\ IsFiniteSet(Adder)
    /\ Max \in Nat
    /\ StoreFails \in BOOLEAN

VARIABLES
    table,   \* clipboard_history in the order of its IDs
    lastID,  \* the last ID given; AUTOINCREMENT never gives one twice
    aPC,     \* aPC[a]: the next statement of the Add of a
    arg,     \* arg[a]: the text it is called with, Blank when there is no call
    result,  \* result[a]: what its latest Add returned
    \* History variables:
    raced,   \* raced[a]: the newest entry may have changed since a looked
    owed,    \* entries inserted since the last trim by Adds that did not trim
    inserted \* every entry there has been, deleted and trimmed ones included

historyVars == <<table, lastID, aPC, arg, result, raced, owed, inserted>>

Blank == CHOOSE t \in Text : TRUE

Row == [id : Nat, text : Text]

HistoryTypeOK ==
    /\ table \in Seq(Row)
    /\ lastID \in Nat
    /\ aPC \in [Adder -> {"idle", "check", "insert", "trim"}]
    /\ arg \in [Adder -> Text]
    /\ result \in [Adder -> {"none", "ok", "error"}]
    /\ raced \in [Adder -> BOOLEAN]
    /\ owed \in Nat
    /\ \A i, j \in 1..Len(table) : i < j => table[i].id < table[j].id
    /\ \A i \in 1..Len(table) : table[i].id <= lastID
    /\ inserted \subseteq {r \in Row : r.id <= lastID}

HistoryInit ==
    /\ table = <<>>
    /\ lastID = 0
    /\ aPC = [a \in Adder |-> "idle"]
    /\ arg = [a \in Adder |-> Blank]
    /\ result = [a \in Adder |-> "none"]
    /\ raced = [a \in Adder |-> FALSE]
    /\ owed = 0
    /\ inserted = {}

\* HistoryList(n): the newest n entries, here with the newest last.
Newest(n, rows) == SubSeq(rows, IF Len(rows) > n THEN Len(rows) - n + 1 ELSE 1, Len(rows))

IsNewest(t) == table # <<>> /\ table[Len(table)].text = t

Return(a, r) ==
    /\ aPC' = [aPC EXCEPT ![a] = "idle"]
    /\ result' = [result EXCEPT ![a] = r]
    /\ arg' = [arg EXCEPT ![a] = Blank]

GoOn(a, pc) ==
    /\ aPC' = [aPC EXCEPT ![a] = pc]
    /\ UNCHANGED <<result, arg>>

\* An insert or a delete: what all those in A have read by now is old.
Race(A) == raced' = [a \in Adder |-> a \in A /\ aPC[a] = "insert"]

\* Somebody calls Add.
Call(a, t) ==
    /\ aPC[a] = "idle"
    /\ aPC' = [aPC EXCEPT ![a] = "check"]
    /\ arg' = [arg EXCEPT ![a] = t]
    /\ result' = [result EXCEPT ![a] = "none"]
    /\ UNCHANGED <<table, lastID, raced, owed, inserted>>

\* Mutant of CheckLatest: the newest entry is not compared.
CheckNothing(a) ==
    /\ aPC[a] = "check"
    /\ GoOn(a, "insert")
    /\ UNCHANGED <<table, lastID, raced, owed, inserted>>

\* HistoryList(1): Add is done if the newest entry has this text.
CheckLatest(a) ==
    /\ aPC[a] = "check"
    /\ \/ IsNewest(arg[a]) /\ Return(a, "ok")
       \/ ~IsNewest(arg[a]) /\ GoOn(a, "insert")
       \/ StoreFails /\ Return(a, "error")
    /\ UNCHANGED <<table, lastID, raced, owed, inserted>>

\* Mutant of Insert: without AUTOINCREMENT, SQLite goes on from the last ID that is
\* left in the table.
InsertAfterNewest(a) ==
    /\ aPC[a] = "insert"
    /\ lastID' = 1 + (IF table = <<>> THEN 0 ELSE table[Len(table)].id)
    /\ table' = Append(table, [id |-> lastID', text |-> arg[a]])
    /\ inserted' = inserted \cup {[id |-> lastID', text |-> arg[a]]}
    /\ Race(Adder \ {a})
    /\ GoOn(a, "trim")
    /\ UNCHANGED owed

\* AddHistory.
Insert(a) ==
    /\ aPC[a] = "insert"
    /\ \/ /\ table' = Append(table, [id |-> lastID + 1, text |-> arg[a]])
          /\ lastID' = lastID + 1
          /\ inserted' = inserted \cup {[id |-> lastID + 1, text |-> arg[a]]}
          /\ Race(Adder \ {a})
          /\ IF Max > 0 THEN GoOn(a, "trim") ELSE Return(a, "ok")
       \/ /\ StoreFails /\ Return(a, "error")
          /\ raced' = [raced EXCEPT ![a] = FALSE]
          /\ UNCHANGED <<table, lastID, inserted>>
    /\ UNCHANGED owed

\* Mutant of Kept: one entry too many is kept.
KeptOneMore(rows) == Newest(Max + 1, rows)

\* Mutant of Kept: ORDER BY id ASC.
KeptOldest(rows) == SubSeq(rows, 1, IF Len(rows) < Max THEN Len(rows) ELSE Max)

\* What HistoryTrim(Max) leaves.
Kept(rows) == Newest(Max, rows)

\* HistoryTrim(Max).
Trim(a) ==
    /\ aPC[a] = "trim"
    /\ \/ table' = Kept(table) /\ owed' = 0 /\ Return(a, "ok")
       \/ StoreFails /\ owed' = owed + 1 /\ Return(a, "error") /\ UNCHANGED table
    /\ UNCHANGED <<lastID, raced, inserted>>

\* HistoryDelete of the entry in position i.
Delete(i) ==
    /\ i \in 1..Len(table)
    /\ table' = SubSeq(table, 1, i - 1) \o SubSeq(table, i + 1, Len(table))
    /\ Race(Adder)
    /\ UNCHANGED <<lastID, aPC, arg, result, owed, inserted>>

\* The process dies with every Add under way; the table stays.
HistoryRestart ==
    /\ owed' = owed + Cardinality({a \in Adder : aPC[a] = "trim"})
    /\ aPC' = [a \in Adder |-> "idle"]
    /\ result' = [a \in Adder |-> "none"]
    /\ arg' = [a \in Adder |-> Blank]
    /\ raced' = [a \in Adder |-> FALSE]
    /\ UNCHANGED <<table, lastID, inserted>>

AddStep(a) == CheckLatest(a) \/ Insert(a) \/ Trim(a)

=============================================================================
