----------------------------- MODULE CaptureProofs -----------------------------
(***************************************************************************)
(* Theorems about Capture, for any texts, adders, limits and failures, and *)
(* any number of copies, calls and crashes.                                *)
(***************************************************************************)
EXTENDS Capture, FiniteSetTheorems, SequenceTheorems, TLAPS

\* How many entries Newest(n, rows) leaves out.
Older(n, rows) == IF Len(rows) > n THEN Len(rows) - n ELSE 0

\* A trim leaves the newest entries, in their order.
LEMMA NewestRows ==
    ASSUME NEW rows \in Seq(Row), NEW n \in Nat
    PROVE  /\ Newest(n, rows) \in Seq(Row)
           /\ Len(Newest(n, rows)) = Len(rows) - Older(n, rows)
           /\ Len(Newest(n, rows)) <= n
           /\ \A i \in 1..Len(Newest(n, rows)) : Newest(n, rows)[i] = rows[Older(n, rows) + i]
<1> DEFINE m == Older(n, rows) + 1
<1>1. Newest(n, rows) = SubSeq(rows, m, Len(rows))
  BY DEF Newest, Older
<1>2. m \in Nat /\ m >= 1 /\ Len(rows) \in Nat /\ m <= Len(rows) + 1 /\ Len(rows) - m + 1 <= n
  BY DEF Older
<1>3. \A i \in m..Len(rows) : rows[i] \in Row
  BY <1>2, ElementOfSeq
<1> HIDE DEF m
<1>4. /\ SubSeq(rows, m, Len(rows)) \in Seq(Row)
      /\ Len(SubSeq(rows, m, Len(rows))) = Len(rows) - m + 1
      /\ \A i \in 1..Len(rows) - m + 1 : SubSeq(rows, m, Len(rows))[i] = rows[m + i - 1]
  BY <1>2, <1>3, SubSeqProperties
<1>5. m = Older(n, rows) + 1 /\ Older(n, rows) \in Nat
  BY DEF m, Older
<1> QED BY <1>1, <1>2, <1>4, <1>5

\* The table without the entry in position i.
Without(rows, i) == SubSeq(rows, 1, i - 1) \o SubSeq(rows, i + 1, Len(rows))

\* A deletion takes one entry out and keeps the others in their order.
LEMMA WithoutOne ==
    ASSUME NEW S, NEW rows \in Seq(S), NEW i \in 1..Len(rows)
    PROVE  /\ Without(rows, i) \in Seq(S)
           /\ Len(Without(rows, i)) = Len(rows) - 1
           /\ \A j \in 1..Len(Without(rows, i)) :
                 Without(rows, i)[j] = rows[IF j < i THEN j ELSE j + 1]
           /\ SubSeq(rows, 1, i - 1) \in Seq(S)
           /\ SubSeq(rows, i + 1, Len(rows)) \in Seq(S)
<1> DEFINE front == SubSeq(rows, 1, i - 1)
           back == SubSeq(rows, i + 1, Len(rows))
<1>1. Len(rows) \in Nat /\ i \in Nat /\ \A j \in 1..Len(rows) : rows[j] \in S
  BY ElementOfSeq
<1>2. /\ front \in Seq(S) /\ Len(front) = i - 1
      /\ \A j \in 1..i - 1 : front[j] = rows[j]
  <2>1. \A j \in 1..i - 1 : rows[j] \in S BY <1>1
  <2>2. 1 \in Int /\ i - 1 \in Int /\ i >= 1 BY <1>1
  <2>3. /\ front \in Seq(S) /\ Len(front) = IF 1 <= i - 1 THEN i - 1 - 1 + 1 ELSE 0
        /\ \A j \in 1..i - 1 - 1 + 1 : front[j] = rows[1 + j - 1]
    BY <2>1, <2>2, SubSeqProperties
  <2> QED BY <2>2, <2>3
<1>3. /\ back \in Seq(S) /\ Len(back) = Len(rows) - i
      /\ \A j \in 1..Len(rows) - i : back[j] = rows[i + j]
  <2>1. \A j \in i + 1..Len(rows) : rows[j] \in S BY <1>1
  <2>2. i + 1 \in Int /\ Len(rows) \in Int /\ i <= Len(rows) BY <1>1
  <2>3. /\ back \in Seq(S) /\ Len(back) = IF i + 1 <= Len(rows) THEN Len(rows) - (i + 1) + 1 ELSE 0
        /\ \A j \in 1..Len(rows) - (i + 1) + 1 : back[j] = rows[i + 1 + j - 1]
    BY <2>1, <2>2, SubSeqProperties
  <2> QED BY <2>2, <2>3
<1> HIDE DEF front, back
<1>4. /\ front \o back \in Seq(S) /\ Len(front \o back) = Len(front) + Len(back)
      /\ \A j \in 1..Len(front) + Len(back) :
            (front \o back)[j] = IF j <= Len(front) THEN front[j] ELSE back[j - Len(front)]
  BY <1>2, <1>3, ConcatProperties
<1>5. Without(rows, i) = front \o back BY DEF Without, front, back
<1>6. ASSUME NEW j \in 1..Len(rows) - 1
      PROVE  /\ j < i => (front \o back)[j] = rows[j]
             /\ ~(j < i) => (front \o back)[j] = rows[j + 1]
  <2>1. ASSUME j < i PROVE (front \o back)[j] = rows[j]
    BY <1>1, <1>2, <1>3, <1>4, <2>1
  <2>2. ASSUME ~(j < i) PROVE (front \o back)[j] = rows[j + 1]
    <3>1. j - (i - 1) \in 1..Len(rows) - i /\ i + (j - (i - 1)) = j + 1 BY <1>1, <2>2
    <3>2. (front \o back)[j] = back[j - (i - 1)] BY <1>1, <1>2, <1>3, <1>4, <2>2
    <3>3. back[j - (i - 1)] = rows[j + 1] BY <1>3, <3>1
    <3> QED BY <3>2, <3>3
  <2> QED BY <2>1, <2>2
<1>7. Len(front \o back) = Len(rows) - 1 BY <1>1, <1>2, <1>3, <1>4
<1> HIDE DEF Without
<1> QED
  <2>1. \A j \in 1..Len(rows) - 1 : (front \o back)[j] = rows[IF j < i THEN j ELSE j + 1]
    BY <1>6
  <2> QED BY <1>2, <1>3, <1>4, <1>5, <1>7, <2>1 DEF front, back

-----------------------------------------------------------------------------
(* Types *)

\* The table is in the order of its IDs, of which none is newer than lastID.
Ordered ==
    /\ \A i, j \in 1..Len(table) : i < j => table[i].id < table[j].id
    /\ \A i \in 1..Len(table) : table[i].id <= lastID

\* The program starts with the right types.
LEMMA InitTypes == Init => TypeOK
<1>1. SUFFICES ASSUME Init PROVE TypeOK OBVIOUS
<1>2. Blank \in Text BY WatcherAssumption, CaptureAssumption DEF Blank
<1>3. WatcherTypeOK
  <2> USE <1>1, WatcherAssumption DEF Init, WatcherInit
  <2>1. clip \in Content /\ last \in Content OBVIOUS
  <2>2. wPC \in {"start", "wait", "send", "closed"} OBVIOUS
  <2>3. cancelled \in BOOLEAN OBVIOUS
  <2>4. copies \in 0..MaxCopies
    <3>1. copies = 0 /\ MaxCopies \in Nat OBVIOUS
    <3> HIDE <1>1, WatcherAssumption
    <3> QED BY <3>1
  <2>5. fresh \in BOOLEAN /\ blind \in BOOLEAN OBVIOUS
  <2> QED BY <2>1, <2>2, <2>3, <2>4, <2>5 DEF WatcherTypeOK
<1>4. HistoryTypeOK
  <2>1. table = <<>> /\ lastID = 0 BY <1>1 DEF Init, HistoryInit
  <2>2. table \in Seq(Row) /\ Len(table) = 0 BY <2>1
  <2>3. \A i \in 1..Len(table) : FALSE BY <2>2
  <2> QED BY <1>1, <1>2, <2>1, <2>2, <2>3 DEF Init, HistoryInit, HistoryTypeOK
<1>5. gone \in BOOLEAN BY <1>1 DEF Init
<1>6. calls = 0 /\ crashes = 0 BY <1>1 DEF Init
<1>7. calls \in 0..MaxCalls /\ crashes \in 0..MaxCrashes BY <1>6, CaptureAssumption
<1> QED BY <1>3, <1>4, <1>5, <1>7 DEF TypeOK

\* Rows taken from the table in their order are in order.
LEMMA StillOrdered ==
    ASSUME table \in Seq(Row), Ordered, NEW rows \in Seq(Row),
           NEW at \in [1..Len(rows) -> 1..Len(table)],
           \A i \in 1..Len(rows) : rows[i] = table[at[i]],
           \A i, j \in 1..Len(rows) : i < j => at[i] < at[j],
           table' = rows, lastID' = lastID
    PROVE  Ordered'
<1>1. ASSUME NEW i \in 1..Len(rows), NEW j \in 1..Len(rows), i < j
      PROVE  rows[i].id < rows[j].id
  <2>1. at[i] \in 1..Len(table) /\ at[j] \in 1..Len(table) /\ at[i] < at[j] BY <1>1
  <2>2. table[at[i]].id < table[at[j]].id BY <2>1 DEF Ordered
  <2> QED BY <2>2
<1>2. ASSUME NEW i \in 1..Len(rows)
      PROVE  rows[i].id <= lastID
  <2>1. at[i] \in 1..Len(table) OBVIOUS
  <2> QED BY <2>1 DEF Ordered
<1> QED BY <1>1, <1>2 DEF Ordered

\* The numbers among the constants.
LEMMA Limits == MaxCopies \in Nat /\ MaxCalls \in Nat /\ MaxCrashes \in Nat /\ Max \in Nat
BY WatcherAssumption, HistoryAssumption, CaptureAssumption

\* Whatever the watcher does, what it remembers is a content of the clipboard.
LEMMA NextWatcherTypes ==
    ASSUME TypeOK, [Next]_vars
    PROVE  WatcherTypeOK'
<1> USE Limits DEF TypeOK, WatcherTypeOK
<1>1. CASE Copy BY <1>1 DEF Copy, WriteText
<1>2. CASE Cancel BY <1>2 DEF Cancel, CancelWatch
<1>3. CASE Watch
  <2>1. CASE FirstRead
    <3>1. last' \in Content BY <2>1, WatcherAssumption, Zenon DEF FirstRead
    <3>2. /\ UNCHANGED <<clip, cancelled, copies>>
          /\ wPC' = "wait" /\ fresh' = FALSE /\ blind' \in BOOLEAN
      BY <2>1, Zenon DEF FirstRead
    <3> QED BY <3>1, <3>2
  <2>2. CASE Poll BY <2>2 DEF Poll
  <2>3. CASE Stop BY <2>3 DEF Stop
  <2> QED BY <1>3, <2>1, <2>2, <2>3 DEF Watch, WatcherStep
<1>4. CASE Receive BY <1>4 DEF Receive, Offer
<1>5. CASE Crash
  <2>1. last' \in Content BY <1>5, WatcherAssumption, Zenon DEF Crash, WatcherRestart
  <2>2. /\ UNCHANGED <<clip, copies>> /\ wPC' = "start"
        /\ cancelled' = FALSE /\ fresh' = FALSE /\ blind' = FALSE
    BY <1>5, Zenon DEF Crash, WatcherRestart
  <2> QED BY <2>1, <2>2
<1>6. CASE UNCHANGED watcherVars BY <1>6 DEF watcherVars
<1> QED BY <1>1, <1>2, <1>3, <1>4, <1>5, <1>6 DEF Next, vars, Leave, OtherCall, Add

\* The table stays in order.
LEMMA NextTable ==
    ASSUME TypeOK, [Next]_vars
    PROVE  (table \in Seq(Row) /\ lastID \in Nat /\ Ordered)'
<1> USE Limits DEF TypeOK, HistoryTypeOK
<1>0. table \in Seq(Row) /\ lastID \in Nat /\ Ordered BY DEF Ordered
<1>1. ASSUME NEW a \in Adder, Insert(a), table' # table
      PROVE  (table \in Seq(Row) /\ lastID \in Nat /\ Ordered)'
  <2>1. PICK r \in Row : /\ r.id = lastID + 1 /\ lastID' = lastID + 1
                         /\ table' = Append(table, r)
    BY <1>1 DEF Insert, Row
  <2>2. /\ table' \in Seq(Row) /\ Len(table') = Len(table) + 1 /\ Len(table) \in Nat
        /\ \A i \in 1..Len(table) : table'[i] = table[i]
        /\ table'[Len(table) + 1] = r
    BY <1>0, <2>1, AppendProperties
  <2> HIDE DEF TypeOK, HistoryTypeOK
  <2>3. \A i \in 1..Len(table) : table[i].id \in Nat
    <3>1. \A i \in 1..Len(table) : table[i] \in Row BY <1>0, ElementOfSeq
    <3> QED BY <3>1 DEF Row
  <2>4. \A i \in 1..Len(table') : table'[i].id <= lastID'
    BY <1>0, <2>1, <2>2, <2>3 DEF Ordered
  <2>5. \A i, j \in 1..Len(table') : i < j => table'[i].id < table'[j].id
    BY <1>0, <2>1, <2>2, <2>3 DEF Ordered
  <2> QED BY <1>0, <2>1, <2>2, <2>4, <2>5 DEF Ordered
<1>2. ASSUME NEW a \in Adder, Trim(a), table' # table
      PROVE  (table \in Seq(Row) /\ lastID \in Nat /\ Ordered)'
  <2> DEFINE m == Older(Max, table)
             at == [i \in 1..Len(table') |-> m + i]
  <2>1. table' = Newest(Max, table) /\ lastID' = lastID BY <1>2 DEF Trim, Kept
  <2>2. /\ table' \in Seq(Row) /\ Len(table') = Len(table) - m
        /\ \A i \in 1..Len(table') : table'[i] = table[m + i]
    BY <1>0, <2>1, NewestRows
  <2>3. m \in Nat /\ Len(table) \in Nat BY <1>0 DEF Older
  <2> HIDE DEF m
  <2>4. at \in [1..Len(table') -> 1..Len(table)] BY <2>2, <2>3
  <2>5. /\ \A i \in 1..Len(table') : table'[i] = table[at[i]]
        /\ \A i, j \in 1..Len(table') : i < j => at[i] < at[j]
    BY <2>2, <2>3
  <2> HIDE DEF at, TypeOK, HistoryTypeOK
  <2> QED BY <1>0, <2>1, <2>2, <2>4, <2>5, StillOrdered
<1>3. ASSUME NEW i \in 1..Len(table), Delete(i)
      PROVE  (table \in Seq(Row) /\ lastID \in Nat /\ Ordered)'
  <2> DEFINE at == [j \in 1..Len(table') |-> IF j < i THEN j ELSE j + 1]
  <2>1. table' = Without(table, i) /\ lastID' = lastID BY <1>3 DEF Delete, Without
  <2>2. /\ table' \in Seq(Row) /\ Len(table') = Len(table) - 1
        /\ \A j \in 1..Len(table') : table'[j] = table[IF j < i THEN j ELSE j + 1]
    BY <1>0, <2>1, WithoutOne
  <2>3. Len(table) \in Nat /\ i \in Nat BY <1>0
  <2>4. at \in [1..Len(table') -> 1..Len(table)] BY <2>2, <2>3
  <2>5. \A j, k \in 1..Len(table') : j < k => at[j] < at[k] BY <2>2, <2>3
  <2> QED BY <1>0, <2>1, <2>2, <2>4, <2>5, StillOrdered
<1>4. CASE UNCHANGED <<table, lastID>> BY <1>0, <1>4 DEF Ordered
<1> HIDE DEF TypeOK, HistoryTypeOK
<1>5. CASE \E a \in Adder : Add(a)
  <2>1. PICK a \in Adder : AddStep(a) BY <1>5 DEF Add
  <2>2. CASE CheckLatest(a) BY <1>4, <2>2 DEF CheckLatest
  <2>3. CASE Insert(a) /\ table' = table
    <3>1. UNCHANGED lastID
      BY <1>0, <2>3, AppendProperties, Limits DEF Insert, Row
    <3> QED BY <1>4, <2>3, <3>1
  <2>4. CASE Trim(a) /\ table' = table BY <1>4, <2>4 DEF Trim
  <2> QED BY <1>1, <1>2, <2>1, <2>2, <2>3, <2>4 DEF AddStep
<1>6. CASE OtherCall BY <1>3, <1>4, <1>6 DEF OtherCall, Call
<1>7. CASE Copy \/ Cancel \/ Watch \/ Receive \/ Leave \/ Crash
  BY <1>4, <1>7 DEF Copy, Cancel, Watch, Receive, Call, Leave, Crash, HistoryRestart, historyVars
<1>8. CASE UNCHANGED vars BY <1>4, <1>8 DEF vars, historyVars
<1> QED BY <1>5, <1>6, <1>7, <1>8 DEF Next

\* No entry has had an ID above the last one given.
LEMMA NextInserted ==
    ASSUME TypeOK, [Next]_vars
    PROVE  (inserted \subseteq {r \in Row : r.id <= lastID})'
<1>1. lastID \in Nat /\ inserted \subseteq {r \in Row : r.id <= lastID}
  BY DEF TypeOK, HistoryTypeOK
<1>2. CASE UNCHANGED <<inserted, lastID>> BY <1>1, <1>2
<1>3. ASSUME NEW a \in Adder, Insert(a), inserted' # inserted
      PROVE  (inserted \subseteq {r \in Row : r.id <= lastID})'
  <2> DEFINE e == [id |-> lastID + 1, text |-> arg[a]]
  <2>1. inserted' = inserted \cup {e} /\ lastID' = lastID + 1 BY <1>3 DEF Insert
  <2>2. arg[a] \in Text BY DEF TypeOK, HistoryTypeOK
  <2>3. e \in Row /\ e.id = lastID + 1 BY <1>1, <2>2 DEF Row
  <2> HIDE DEF e
  <2>4. \A r \in Row : r.id \in Nat BY DEF Row
  <2> QED BY <1>1, <2>1, <2>3, <2>4
<1>4. CASE \E a \in Adder : Add(a)
  <2>1. PICK a \in Adder : AddStep(a) BY <1>4 DEF Add
  <2>2. CASE Insert(a)
    <3>1. CASE inserted' = inserted
      <4>1. lastID' = lastID \/ lastID' = lastID + 1 BY <2>2 DEF Insert
      <4>2. \A r \in Row : r.id \in Nat BY DEF Row
      <4> QED BY <1>1, <3>1, <4>1, <4>2
    <3> QED BY <1>3, <2>2, <3>1
  <2> QED BY <1>2, <2>1, <2>2 DEF AddStep, CheckLatest, Trim
<1>5. CASE ~(\E a \in Adder : Add(a))
  <2>1. UNCHANGED <<inserted, lastID>>
    BY <1>5 DEF Next, vars, historyVars, Copy, Cancel, Watch, Receive, Call, Leave,
                OtherCall, Delete, Crash, HistoryRestart
  <2> QED BY <1>2, <2>1
<1> QED BY <1>4, <1>5

\* What every Add is about has its types, and what is owed is a number.
AddersTyped ==
    /\ aPC \in [Adder -> {"idle", "check", "insert", "trim"}]
    /\ arg \in [Adder -> Text]
    /\ result \in [Adder -> {"none", "ok", "error"}]
    /\ raced \in [Adder -> BOOLEAN]
    /\ owed \in Nat

\* They keep them.
LEMMA NextAdders ==
    ASSUME TypeOK, [Next]_vars
    PROVE  AddersTyped'
<1> USE DEF AddersTyped
<1>1. AddersTyped BY DEF TypeOK, HistoryTypeOK
<1>2. Blank \in Text
  BY WatcherAssumption, CaptureAssumption, Zenon DEF Blank
<1>3. ASSUME NEW a \in Adder, AddStep(a) PROVE AddersTyped'
  <2>1. CASE CheckLatest(a) BY <1>1, <1>2, <2>1 DEF CheckLatest, Return, GoOn
  <2>2. CASE Insert(a) BY <1>1, <1>2, <2>2 DEF Insert, Race, Return, GoOn
  <2>3. CASE Trim(a) BY <1>1, <1>2, <2>3 DEF Trim, Return
  <2> QED BY <1>3, <2>1, <2>2, <2>3 DEF AddStep
<1>4. ASSUME NEW a \in Adder, NEW t \in Text, Call(a, t) PROVE AddersTyped'
  BY <1>1, <1>4 DEF Call
<1>5. ASSUME NEW i \in 1..Len(table), Delete(i) PROVE AddersTyped'
  BY <1>1, <1>5 DEF Delete, Race
<1>6. CASE Crash
  <2>1. Cardinality({a \in Adder : aPC[a] = "trim"}) \in Nat
    BY HistoryAssumption, FS_Subset, FS_CardinalityType
  <2> QED BY <1>1, <1>2, <1>6, <2>1 DEF Crash, HistoryRestart
<1>7. CASE UNCHANGED historyVars BY <1>1, <1>7 DEF historyVars
<1> HIDE DEF AddersTyped
<1>8. CASE Receive BY <1>4, <1>8, CaptureAssumption, Zenon DEF Receive
<1>9. CASE OtherCall BY <1>4, <1>5, <1>9 DEF OtherCall
<1> QED BY <1>3, <1>6, <1>7, <1>8, <1>9 DEF Next, vars, Copy, Cancel, Watch, Leave, Add

\* Every state has the right types; the table is in the order of its IDs, and no entry,
\* of those deleted neither, has an ID above the last one given.
THEOREM CaptureTypes == Spec => []TypeOK
<1>1. ASSUME TypeOK, [Next]_vars PROVE TypeOK'
  <2>1. (gone \in BOOLEAN)'
    BY <1>1 DEF TypeOK, Next, vars, Copy, Cancel, Watch, Receive, Leave, OtherCall, Add, Crash
  <2>2. (calls \in 0..MaxCalls /\ crashes \in 0..MaxCrashes)'
    BY <1>1, Limits DEF TypeOK, Next, vars, Copy, Cancel, Watch, Receive, Leave, OtherCall, Add, Crash
  <2> QED BY <1>1, <2>1, <2>2, NextWatcherTypes, NextTable, NextInserted, NextAdders
          DEF TypeOK, HistoryTypeOK, Ordered, AddersTyped
<1> QED BY InitTypes, <1>1, PTL DEF Spec

-----------------------------------------------------------------------------
(* The watcher *)

\* While nothing has been copied since the watcher noted what is on the clipboard,
\* that is what is there.
UpToDate == wPC \in {"wait", "send"} /\ ~fresh /\ ~blind => clip = last

\* Whatever sets last, or writes to the clipboard, keeps it so.
LEMMA NextUpToDate ==
    ASSUME UpToDate, [Next]_vars
    PROVE  UpToDate'
<1> USE DEF UpToDate
<1>1. CASE Copy BY <1>1 DEF Copy, WriteText
<1>2. CASE Cancel BY <1>2 DEF Cancel, CancelWatch
<1>3. CASE Watch
  <2>1. CASE FirstRead BY <2>1, Zenon DEF FirstRead
  <2>2. CASE Poll BY <2>2, Zenon DEF Poll
  <2>3. CASE Stop BY <2>3 DEF Stop
  <2> QED BY <1>3, <2>1, <2>2, <2>3 DEF Watch, WatcherStep
<1>4. CASE Receive BY <1>4 DEF Receive, Offer
<1>5. CASE Crash BY <1>5 DEF Crash, WatcherRestart
<1>6. CASE UNCHANGED watcherVars BY <1>6 DEF watcherVars
<1> QED BY <1>1, <1>2, <1>3, <1>4, <1>5, <1>6 DEF Next, vars, Leave, OtherCall, Add

\* Only a tick that finds another text puts one on offer.
LEMMA OnlyPollOffers ==
    ASSUME [Next]_vars, PutsOnOffer
    PROVE  Poll
<1>1. CASE Watch BY <1>1 DEF Watch, WatcherStep, PutsOnOffer, FirstRead, Stop
<1>2. CASE Receive BY <1>2 DEF Receive, Offer, PutsOnOffer
<1>3. CASE Copy \/ Cancel \/ Crash
  BY <1>3 DEF Copy, WriteText, Cancel, CancelWatch, Crash, WatcherRestart, PutsOnOffer
<1>4. CASE UNCHANGED watcherVars BY <1>4 DEF watcherVars, PutsOnOffer
<1> QED BY <1>1, <1>2, <1>3, <1>4 DEF Next, vars, Leave, OtherCall, Add

\* A text is put on offer only if one has been copied, in this watch, since the watcher
\* last noted what is on the clipboard, or if the first read has failed and nothing has
\* been noted since (watcher.go:27-29, 37-52).
THEOREM OffersAreOfCopies == Spec => OffersAreNews
<1>1. Init => UpToDate BY DEF Init, WatcherInit, UpToDate
<1>2. UpToDate /\ [Next]_vars => UpToDate' BY NextUpToDate
<1>3. UpToDate /\ [Next]_vars => [PutsOnOffer => fresh \/ blind]_vars
  <2>1. SUFFICES ASSUME UpToDate, [Next]_vars, PutsOnOffer
                 PROVE  fresh \/ blind
    OBVIOUS
  <2>2. Poll BY <2>1, OnlyPollOffers
  <2> QED BY <2>1, <2>2 DEF Poll, UpToDate
<1> QED BY <1>1, <1>2, <1>3, PTL DEF Spec, OffersAreNews

-----------------------------------------------------------------------------
(* IDs *)

\* The ID of a new entry is above those of all there have been.
LEMMA NextIDs ==
    ASSUME TypeOK, IDsNameOneEntry, [Next]_vars
    PROVE  IDsNameOneEntry'
<1>1. /\ lastID \in Nat
      /\ \A r \in inserted : r.id \in Nat /\ r.id <= lastID
  BY DEF TypeOK, HistoryTypeOK, Row
<1>2. CASE inserted' = inserted BY <1>2 DEF IDsNameOneEntry
<1>3. ASSUME NEW a \in Adder, Insert(a), inserted' # inserted
      PROVE  IDsNameOneEntry'
  <2> DEFINE e == [id |-> lastID + 1, text |-> arg[a]]
  <2>1. inserted' = inserted \cup {e} BY <1>3 DEF Insert
  <2>2. e.id = lastID + 1 OBVIOUS
  <2> HIDE DEF e
  <2>3. \A r \in inserted : r.id # e.id BY <1>1, <2>2
  <2> QED BY <2>1, <2>3 DEF IDsNameOneEntry
<1>4. CASE \E a \in Adder : Add(a)
  <2>1. PICK a \in Adder : AddStep(a) BY <1>4 DEF Add
  <2> QED BY <1>2, <1>3, <2>1 DEF AddStep, CheckLatest, Trim
<1>5. CASE ~(\E a \in Adder : Add(a))
  <2>1. UNCHANGED inserted
    BY <1>5 DEF Next, vars, historyVars, Copy, Cancel, Watch, Receive, Call, Leave,
                OtherCall, Delete, Crash, HistoryRestart
  <2> QED BY <1>2, <2>1
<1> QED BY <1>4, <1>5

\* An ID names one entry for ever, whatever is deleted and trimmed and however often the
\* process is restarted (storage.go:56, storage/history.go:45-64).
THEOREM IDsAreGivenOnce == Spec => []IDsNameOneEntry
<1>1. Init => IDsNameOneEntry BY DEF Init, HistoryInit, IDsNameOneEntry
<1>2. TypeOK /\ IDsNameOneEntry /\ [Next]_vars => IDsNameOneEntry' BY NextIDs
<1> QED BY CaptureTypes, <1>1, <1>2, PTL DEF Spec

-----------------------------------------------------------------------------
(* The history *)

Trimming == {a \in Adder : aPC[a] = "trim"}

\* Bounded holds after every statement: an insert adds an entry and an Add that has
\* to trim; a trim leaves Max; one that does not come off is owed.
LEMMA NextBounded ==
    ASSUME TypeOK, Bounded, [Next]_vars
    PROVE  Bounded'
<1> SUFFICES ASSUME Max > 0 PROVE Len(table') <= Max + Cardinality(Trimming') + owed'
  BY DEF Bounded, Trimming
<1>1. /\ Len(table) <= Max + Cardinality(Trimming) + owed
      /\ table \in Seq(Row) /\ Len(table) \in Nat /\ owed \in Nat /\ Max \in Nat
      /\ aPC \in [Adder -> {"idle", "check", "insert", "trim"}]
  BY Limits DEF Bounded, Trimming, TypeOK, HistoryTypeOK
<1>2. IsFiniteSet(Trimming) /\ Cardinality(Trimming) \in Nat
  BY HistoryAssumption, FS_Subset, FS_CardinalityType DEF Trimming
<1>3. ASSUME NEW a \in Adder, Add(a)
      PROVE  Len(table') <= Max + Cardinality(Trimming') + owed'
  <2>1. CASE CheckLatest(a)
    <3>1. Trimming' = Trimming BY <1>1, <2>1 DEF CheckLatest, Return, GoOn, Trimming
    <3> QED BY <1>1, <2>1, <3>1 DEF CheckLatest
  <2>2. CASE Insert(a) /\ table' # table
    <3>1. Trimming' = Trimming \cup {a} /\ a \notin Trimming
      BY <1>1, <2>2 DEF Insert, GoOn, Trimming
    <3>2. Cardinality(Trimming') = Cardinality(Trimming) + 1
      BY <1>2, <3>1, FS_AddElement
    <3>3. Len(table') = Len(table) + 1 /\ owed' = owed
      BY <1>1, <2>2, AppendProperties, NextTable DEF Insert
    <3> QED BY <1>1, <1>2, <3>2, <3>3
  <2>3. CASE Insert(a) /\ table' = table
    <3>1. Trimming \subseteq Trimming' /\ owed' = owed
      BY <1>1, <2>3 DEF Insert, Return, GoOn, Trimming
    <3>2. IsFiniteSet(Trimming') BY HistoryAssumption, FS_Subset DEF Trimming
    <3>3. Cardinality(Trimming) <= Cardinality(Trimming') /\ Cardinality(Trimming') \in Nat
      BY <3>1, <3>2, FS_Subset, FS_CardinalityType
    <3> QED BY <1>1, <1>2, <2>3, <3>1, <3>3
  <2>4. CASE Trim(a)
    <3>1. Trimming' = Trimming \ {a} /\ a \in Trimming
      BY <1>1, <2>4 DEF Trim, Return, Trimming
    <3>2. Cardinality(Trimming') = Cardinality(Trimming) - 1 /\ Cardinality(Trimming') \in Nat
      BY <1>2, <3>1, FS_RemoveElement, FS_CardinalityType
    <3>3. CASE table' = Kept(table) /\ owed' = 0
      <4>1. Len(table') <= Max BY <1>1, <3>3, NewestRows DEF Kept
      <4>2. Len(table') \in Nat BY NextTable
      <4> QED BY <1>1, <3>2, <3>3, <4>1, <4>2
    <3>4. CASE owed' = owed + 1 /\ UNCHANGED table
      BY <1>1, <1>2, <3>2, <3>4
    <3> QED BY <2>4, <3>3, <3>4 DEF Trim
  <2> QED BY <1>3, <2>1, <2>2, <2>3, <2>4 DEF Add, AddStep
<1>4. CASE UNCHANGED <<table, owed>> /\ Trimming' = Trimming
  BY <1>1, <1>4
<1>5. ASSUME NEW a \in Adder, NEW t \in Text, Call(a, t) PROVE Trimming' = Trimming
  BY <1>1, <1>5 DEF Call, Trimming
<1>6. ASSUME NEW i \in 1..Len(table), Delete(i)
      PROVE  Len(table') <= Max + Cardinality(Trimming') + owed'
  <2>1. Len(table') = Len(table) - 1 BY <1>1, <1>6, WithoutOne DEF Delete, Without
  <2>2. Trimming' = Trimming /\ owed' = owed BY <1>6 DEF Delete, Trimming
  <2> QED BY <1>1, <1>2, <2>1, <2>2
<1>7. CASE Crash
  <2>1. UNCHANGED table /\ owed' = owed + Cardinality(Trimming)
    BY <1>7 DEF Crash, HistoryRestart, Trimming
  <2>2. Trimming' = {} BY <1>7 DEF Crash, HistoryRestart, Trimming
  <2> QED BY <1>1, <1>2, <2>1, <2>2, FS_EmptySet
<1>8. CASE Receive
  BY <1>4, <1>5, <1>8, CaptureAssumption, Zenon DEF Receive, Call
<1>9. CASE OtherCall BY <1>4, <1>5, <1>6, <1>9 DEF OtherCall, Call
<1>10. CASE UNCHANGED historyVars BY <1>4, <1>10 DEF historyVars, Trimming
<1> QED BY <1>3, <1>7, <1>8, <1>9, <1>10 DEF Next, vars, Copy, Cancel, Watch, Leave

\* The history outgrows Max only by the entries of Adds that have not trimmed.
THEOREM HistoryIsBounded == Spec => []Bounded
<1>1. Init => Bounded
  <2>1. ASSUME Init, Max > 0 PROVE Len(table) <= Max + Cardinality(Trimming) + owed
    <3>1. table = <<>> /\ owed = 0 /\ Trimming = {}
      BY <2>1, Zenon DEF Init, HistoryInit, Trimming
    <3> QED BY <2>1, <3>1, Limits, FS_EmptySet
  <2> QED BY <2>1 DEF Bounded, Trimming
<1>2. TypeOK /\ Bounded /\ [Next]_vars => Bounded' BY NextBounded
<1> QED BY CaptureTypes, <1>1, <1>2, PTL DEF Spec

\* Between an Add's look and its insert the newest entry stays another text than
\* its own, unless it is raced; and only a limited history is trimmed.
Compared ==
    \A a \in Adder : /\ aPC[a] = "insert" /\ ~raced[a] => ~IsNewest(arg[a])
                     /\ aPC[a] = "trim" => Max > 0

\* A trim to at least one entry leaves the newest one.
LEMMA NewestStays ==
    ASSUME TypeOK, NEW a \in Adder, Trim(a), Max > 0, NEW t \in Text, IsNewest(t)'
    PROVE  IsNewest(t)
<1>1. table \in Seq(Row) /\ Max \in Nat BY Limits DEF TypeOK, HistoryTypeOK
<1>2. CASE table' = Newest(Max, table)
  <2> DEFINE rest == Newest(Max, table)
  <2>1. /\ rest \in Seq(Row) /\ Len(rest) = Len(table) - Older(Max, table)
        /\ \A i \in 1..Len(rest) : rest[i] = table[Older(Max, table) + i]
    BY <1>1, NewestRows
  <2>2. rest # <<>> /\ rest[Len(rest)].text = t BY <1>2 DEF IsNewest
  <2>3. Older(Max, table) \in Nat /\ Len(table) \in Nat BY <1>1 DEF Older
  <2> HIDE DEF rest
  <2>4. Len(rest) \in 1..Len(rest) BY <2>1, <2>2, EmptySeq
  <2>5. rest[Len(rest)] = table[Len(table)] /\ Len(table) > 0 BY <2>1, <2>3, <2>4
  <2>6. table # <<>> BY <2>5
  <2> QED BY <2>2, <2>5, <2>6 DEF IsNewest
<1>3. CASE UNCHANGED table BY <1>3 DEF IsNewest
<1> QED BY <1>2, <1>3 DEF Trim, Kept

\* Every insert and deletion races those who have looked, and no other step
\* changes what they have seen.
LEMMA NextCompared ==
    ASSUME TypeOK, Compared, [Next]_vars
    PROVE  Compared'
<1>1. AddersTyped BY DEF TypeOK, HistoryTypeOK, AddersTyped
<1>2. ASSUME NEW a \in Adder, AddStep(a) PROVE Compared'
  <2>1. CASE CheckLatest(a)
    BY <1>1, <2>1 DEF CheckLatest, Return, GoOn, IsNewest, Compared, AddersTyped
  <2>2. CASE Insert(a)
    BY <1>1, <2>2 DEF Insert, Race, Return, GoOn, IsNewest, Compared, AddersTyped
  <2>3. CASE Trim(a)
    <3>1. Max > 0 BY <2>3 DEF Trim, Compared
    <3>2. \A t \in Text : IsNewest(t)' => IsNewest(t) BY <2>3, <3>1, NewestStays
    <3>3. /\ \A b \in Adder \ {a} : aPC'[b] = aPC[b] /\ arg'[b] = arg[b]
          /\ aPC'[a] = "idle" /\ raced' = raced
      BY <1>1, <2>3 DEF Trim, Return, AddersTyped
    <3>4. \A b \in Adder : arg[b] \in Text BY <1>1 DEF AddersTyped
    <3> QED BY <3>1, <3>2, <3>3, <3>4 DEF Compared
  <2> QED BY <1>2, <2>1, <2>2, <2>3 DEF AddStep
<1>3. ASSUME NEW a \in Adder, NEW t \in Text, Call(a, t) PROVE Compared'
  BY <1>1, <1>3 DEF Call, IsNewest, Compared, AddersTyped
<1>4. ASSUME NEW i \in 1..Len(table), Delete(i) PROVE Compared'
  BY <1>1, <1>4 DEF Delete, Race, Compared, AddersTyped
<1>5. CASE Crash BY <1>5 DEF Crash, HistoryRestart, Compared
<1>6. CASE UNCHANGED historyVars BY <1>6 DEF historyVars, IsNewest, Compared
<1>7. CASE Receive BY <1>3, <1>7, CaptureAssumption, Zenon DEF Receive
<1>8. CASE OtherCall BY <1>3, <1>4, <1>8 DEF OtherCall
<1> QED BY <1>2, <1>5, <1>6, <1>7, <1>8 DEF Next, vars, Copy, Cancel, Watch, Leave, Add

\* What the Adds have seen holds in every state.
LEMMA AlwaysCompared == Spec => []Compared
<1>1. Init => Compared
  <2>1. Init => aPC = [a \in Adder |-> "idle"] BY Zenon DEF Init, HistoryInit
  <2> QED BY <2>1 DEF Compared
<1>2. TypeOK /\ Compared /\ [Next]_vars => Compared' BY NextCompared
<1> QED BY CaptureTypes, <1>1, <1>2, PTL DEF Spec

\* A new entry repeats the one before it only when its Add was raced.
THEOREM RepeatsAreRaced == Spec => RepeatsOnlyWhenRaced
<1> DEFINE Step ==
        lastID' # lastID =>
          \/ table = <<>>
          \/ table'[Len(table')].text # table[Len(table)].text
          \/ \E a \in Adder : aPC[a] = "insert" /\ aPC'[a] # "insert" /\ raced[a]
<1>1. TypeOK /\ Compared /\ [Next]_vars => [Step]_vars
  <2> SUFFICES ASSUME TypeOK, Compared, Next, lastID' # lastID PROVE Step
    BY DEF vars, historyVars
  <2>1. PICK a \in Adder : Insert(a)
    BY DEF Next, Copy, Cancel, Watch, Receive, Leave, OtherCall, Crash, Add, AddStep, Call,
           Delete, CheckLatest, Trim, HistoryRestart, historyVars
  <2>2. PICK r : /\ table' = Append(table, r) /\ r = [id |-> lastID + 1, text |-> arg[a]]
                 /\ aPC' # aPC
    BY <2>1 DEF Insert, GoOn, Return, TypeOK, HistoryTypeOK
  <2>3. arg[a] \in Text /\ table \in Seq(Row) /\ r \in Row
    BY <2>2 DEF TypeOK, HistoryTypeOK, Row
  <2>4. table'[Len(table')].text = arg[a]
    <3>1. Len(table') = Len(table) + 1 /\ table'[Len(table) + 1] = r
      BY <2>2, <2>3, AppendProperties
    <3> QED BY <2>2, <3>1
  <2>5. aPC[a] = "insert" /\ aPC'[a] # "insert"
    BY <2>1 DEF Insert, GoOn, Return, TypeOK, HistoryTypeOK
  <2> QED BY <2>4, <2>5 DEF Compared, IsNewest
<1>2. [][Step]_vars <=> RepeatsOnlyWhenRaced BY DEF RepeatsOnlyWhenRaced
<1> HIDE DEF Step
<1> QED BY CaptureTypes, AlwaysCompared, <1>1, <1>2, PTL DEF Spec

-----------------------------------------------------------------------------
(* Capture implements RecentTexts *)

\* What the specification Shown calls recent.
Listed == IF Max > 0 THEN [i \in 1..Len(Newest(Max, table)) |->
                                   Newest(Max, table)[i].text]
                     ELSE [i \in 1..Len(table) |-> table[i].text]

\* How many of the rows are not listed, and the texts of those that are.
Hidden(rows) == IF Max > 0 THEN Older(Max, rows) ELSE 0
Recent(rows) == [i \in 1..Len(rows) - Hidden(rows) |-> rows[Hidden(rows) + i].text]

\* The texts listed are a sequence.
LEMMA RecentRows ==
    ASSUME NEW rows \in Seq(Row)
    PROVE  /\ Recent(rows) \in Seq(Text)
           /\ Hidden(rows) \in Nat /\ Len(rows) \in Nat
           /\ Len(Recent(rows)) = Len(rows) - Hidden(rows)
           /\ \A i \in 1..Len(rows) - Hidden(rows) : Recent(rows)[i] = rows[Hidden(rows) + i].text
<1> DEFINE k == Len(rows) - Hidden(rows)
<1>1. Hidden(rows) \in Nat /\ Len(rows) \in Nat /\ k \in Nat /\ k + Hidden(rows) = Len(rows)
  BY Limits DEF Hidden, Older
<1> HIDE DEF k
<1>2. ASSUME NEW i \in 1..k PROVE rows[Hidden(rows) + i].text \in Text
  <2>1. Hidden(rows) + i \in 1..Len(rows) BY <1>1
  <2>2. rows[Hidden(rows) + i] \in Row BY <2>1, ElementOfSeq
  <2> QED BY <2>2 DEF Row
<1>3. Recent(rows) \in [1..k -> Text] BY <1>2 DEF Recent, k
<1>4. Recent(rows) \in Seq(Text) /\ Len(Recent(rows)) = k BY <1>1, <1>3
<1>5. \A i \in 1..k : Recent(rows)[i] = rows[Hidden(rows) + i].text BY DEF Recent, k
<1> QED BY <1>1, <1>4, <1>5 DEF k

\* Listed is what Recent makes of the table.
LEMMA ListedRows ==
    ASSUME table \in Seq(Row)
    PROVE  Listed = Recent(table)
<1>1. CASE Max > 0
  <2>1. /\ Len(Newest(Max, table)) = Len(table) - Hidden(table)
        /\ \A i \in 1..Len(Newest(Max, table)) :
              Newest(Max, table)[i] = table[Hidden(table) + i]
    BY <1>1, Limits, NewestRows DEF Hidden
  <2> QED BY <1>1, <2>1 DEF Listed, Recent
<1>2. CASE ~(Max > 0)
  <2>1. Hidden(table) = 0 /\ Len(table) \in Nat BY <1>2 DEF Hidden
  <2>2. Listed = [i \in 1..Len(table) |-> table[i].text] BY <1>2 DEF Listed
  <2>3. Recent(table) = [i \in 1..Len(table) |-> table[i].text] BY <2>1 DEF Recent
  <2> QED BY <2>2, <2>3
<1> QED BY <1>1, <1>2

\* A text inserted is recorded.
LEMMA RecordStep ==
    ASSUME NEW rows \in Seq(Row), NEW r \in Row
    PROVE  Recent(Append(rows, r)) = Shown!Limit(Append(Recent(rows), r.text))
<1> DEFINE more == Append(rows, r)
           old == Recent(rows)
           new == Recent(more)
           all == Append(old, r.text)
<1>1. r.text \in Text BY DEF Row
<1>2. /\ more \in Seq(Row) /\ Len(more) = Len(rows) + 1
      /\ \A i \in 1..Len(rows) : more[i] = rows[i]
      /\ more[Len(rows) + 1] = r
  BY AppendProperties
<1>3. /\ old \in Seq(Text) /\ Hidden(rows) \in Nat /\ Len(rows) \in Nat
      /\ Len(old) = Len(rows) - Hidden(rows)
      /\ \A i \in 1..Len(rows) - Hidden(rows) : old[i] = rows[Hidden(rows) + i].text
  BY RecentRows
<1> HIDE DEF more
<1>4. /\ new \in Seq(Text) /\ Hidden(more) \in Nat
      /\ Len(new) = Len(more) - Hidden(more)
      /\ \A i \in 1..Len(more) - Hidden(more) : new[i] = more[Hidden(more) + i].text
  BY <1>2, RecentRows
<1> HIDE DEF old, new
<1>5. /\ all \in Seq(Text) /\ Len(all) = Len(old) + 1
      /\ \A i \in 1..Len(old) : all[i] = old[i]
      /\ all[Len(old) + 1] = r.text
  BY <1>1, <1>3, AppendProperties
<1> HIDE DEF all
<1>6. \A i \in 1..Len(all) : all[i] = more[Hidden(rows) + i].text
  <2> TAKE i \in 1..Len(all)
  <2>1. CASE i \in 1..Len(old)
    <3>1. Hidden(rows) + i \in 1..Len(rows) BY <1>3, <2>1
    <3> QED BY <1>2, <1>3, <1>5, <2>1, <3>1
  <2>2. CASE i = Len(old) + 1
    <3>1. Hidden(rows) + i = Len(rows) + 1 BY <1>3, <2>2
    <3> QED BY <1>2, <1>5, <2>2, <3>1
  <2>3. Len(old) \in Nat BY <1>3
  <2> QED BY <1>5, <2>1, <2>2, <2>3
<1>7. CASE Max > 0 /\ Len(all) > Max
  <2> DEFINE m == Len(all) - Max + 1
             cut == SubSeq(all, m, Len(all))
  <2>1. Hidden(more) = Hidden(rows) + 1 /\ Len(all) = Max + 1 /\ Len(new) = Max
    <3>1. Len(all) = Len(rows) - Hidden(rows) + 1 /\ Len(new) = Len(rows) + 1 - Hidden(more)
      BY <1>2, <1>3, <1>4, <1>5
    <3>2. Hidden(rows) = IF Len(rows) > Max THEN Len(rows) - Max ELSE 0
      BY <1>7 DEF Hidden, Older
    <3>3. Hidden(more) = IF Len(more) > Max THEN Len(more) - Max ELSE 0
      BY <1>7 DEF Hidden, Older
    <3>4. Len(more) = Len(rows) + 1 BY <1>2
    <3>5. Max \in Nat /\ Max > 0 /\ Len(all) > Max /\ Len(rows) \in Nat
          /\ Hidden(rows) \in Nat /\ Hidden(more) \in Nat
      BY <1>3, <1>4, <1>7, Limits
    <3>6. CASE Len(rows) > Max
      <4>1. Len(more) > Max BY <3>4, <3>5, <3>6
      <4>2. Hidden(rows) = Len(rows) - Max BY <3>2, <3>6
      <4>3. Hidden(more) = Len(more) - Max BY <3>3, <4>1
      <4> QED BY <3>1, <3>4, <3>5, <4>2, <4>3
    <3>7. CASE ~(Len(rows) > Max)
      <4>1. Hidden(rows) = 0 BY <3>2, <3>7
      <4>2. Len(rows) = Max BY <3>1, <3>5, <3>7, <4>1
      <4>3. Hidden(more) = 1 BY <3>3, <3>4, <3>5, <4>2
      <4> QED BY <3>1, <3>5, <4>1, <4>2, <4>3
    <3> QED BY <3>6, <3>7
  <2>2. m = 2 /\ m \in Int /\ Len(all) \in Int BY <2>1, Limits
  <2>3. \A i \in m..Len(all) : all[i] \in Text BY <1>5, <2>2, ElementOfSeq
  <2> HIDE DEF m
  <2>4. /\ cut \in Seq(Text) /\ Len(cut) = Max
        /\ \A i \in 1..Max : cut[i] = all[i + 1]
    <3>1. /\ cut \in Seq(Text)
          /\ Len(cut) = IF m <= Len(all) THEN Len(all) - m + 1 ELSE 0
          /\ \A i \in 1..Len(all) - m + 1 : cut[i] = all[m + i - 1]
      BY <2>2, <2>3, SubSeqProperties
    <3>2. Len(all) - m + 1 = Max /\ m <= Len(all) /\ \A i \in 1..Max : m + i - 1 = i + 1
      BY <1>7, <2>1, <2>2, Limits
    <3> HIDE DEF cut
    <3> QED BY <3>1, <3>2
  <2> HIDE DEF cut
  <2>5. \A i \in 1..Max : cut[i] = more[Hidden(more) + i].text
    <3> TAKE i \in 1..Max
    <3>1. i + 1 \in 1..Len(all) BY <2>1, Limits
    <3>2. all[i + 1] = more[Hidden(rows) + (i + 1)].text BY <1>6, <3>1
    <3>3. Hidden(rows) + (i + 1) = Hidden(more) + i BY <1>3, <2>1, Limits
    <3> QED BY <2>4, <3>2, <3>3
  <2>6. \A i \in 1..Len(new) : new[i] = cut[i] BY <1>4, <2>1, <2>5
  <2>7. new = cut BY <1>4, <2>1, <2>4, <2>6, SeqEqual
  <2>8. Shown!Limit(all) = cut BY <1>7 DEF Shown!Limit, cut, m
  <2> QED BY <2>7, <2>8 DEF new, all, old, more
<1>8. CASE ~(Max > 0 /\ Len(all) > Max)
  <2>1. Hidden(more) = Hidden(rows) /\ Len(new) = Len(all)
    <3>1. Len(all) = Len(rows) - Hidden(rows) + 1 /\ Len(new) = Len(rows) + 1 - Hidden(more)
      BY <1>2, <1>3, <1>4, <1>5
    <3>2. Hidden(rows) = IF Max > 0 THEN IF Len(rows) > Max THEN Len(rows) - Max ELSE 0 ELSE 0
      BY DEF Hidden, Older
    <3>3. Hidden(more) = IF Max > 0 THEN IF Len(more) > Max THEN Len(more) - Max ELSE 0 ELSE 0
      BY DEF Hidden, Older
    <3>4. Len(more) = Len(rows) + 1 BY <1>2
    <3>5. Max \in Nat /\ ~(Max > 0 /\ Len(all) > Max) /\ Len(rows) \in Nat
          /\ Hidden(rows) \in Nat /\ Hidden(more) \in Nat
      BY <1>3, <1>4, <1>8, Limits
    <3>6. Hidden(rows) = 0 /\ Hidden(more) = 0
      <4>1. CASE ~(Max > 0) BY <3>2, <3>3, <4>1
      <4>2. CASE Max > 0 /\ Len(rows) > Max
        <5>1. Hidden(rows) = Len(rows) - Max BY <3>2, <4>2
        <5> QED BY <3>1, <3>5, <4>2, <5>1
      <4>3. CASE Max > 0 /\ ~(Len(rows) > Max)
        <5>1. Hidden(rows) = 0 BY <3>2, <4>3
        <5>2. ~(Len(more) > Max) BY <3>1, <3>4, <3>5, <4>3, <5>1
        <5> QED BY <3>3, <4>3, <5>1, <5>2
      <4> QED BY <4>1, <4>2, <4>3
    <3> QED BY <3>1, <3>5, <3>6
  <2>2. \A i \in 1..Len(new) : new[i] = all[i] BY <1>4, <1>6, <2>1
  <2>3. new = all BY <1>4, <1>5, <2>1, <2>2, SeqEqual
  <2>4. Shown!Limit(all) = all BY <1>8 DEF Shown!Limit
  <2> QED BY <2>3, <2>4 DEF new, all, old, more
<1> QED BY <1>7, <1>8

\* A trim takes away nothing that is listed.
LEMMA TrimStep ==
    ASSUME NEW rows \in Seq(Row), Max > 0
    PROVE  Recent(Newest(Max, rows)) = Recent(rows)
<1> DEFINE rest == Newest(Max, rows)
<1>1. /\ rest \in Seq(Row) /\ Len(rest) = Len(rows) - Older(Max, rows) /\ Len(rest) <= Max
      /\ \A i \in 1..Len(rest) : rest[i] = rows[Older(Max, rows) + i]
  BY Limits, NewestRows
<1> HIDE DEF rest
<1>2. Hidden(rows) = Older(Max, rows) /\ Hidden(rest) = 0 /\ Len(rest) \in Nat
  BY <1>1, Limits DEF Hidden, Older
<1>3. Recent(rest) = [i \in 1..Len(rest) |-> rest[i].text] BY <1>2 DEF Recent
<1>4. Recent(rows) = [i \in 1..Len(rest) |-> rows[Older(Max, rows) + i].text]
  BY <1>1, <1>2 DEF Recent
<1>5. Recent(rest) = Recent(rows) BY <1>1, <1>3, <1>4
<1> QED BY <1>5 DEF rest

\* Deleting an entry drops a text of the list, or one that is not on it.
LEMMA DropStep ==
    ASSUME NEW rows \in Seq(Row), NEW i \in 1..Len(rows)
    PROVE  \/ Recent(Without(rows, i)) = Recent(rows)
           \/ \E j \in 1..Len(Recent(rows)), older \in {<<>>} \cup {<<t>> : t \in Text} :
                 /\ older # <<>> => Len(Recent(rows)) = Max
                 /\ Recent(Without(rows, i)) =
                       older \o SubSeq(Recent(rows), 1, j - 1)
                             \o SubSeq(Recent(rows), j + 1, Len(Recent(rows)))
<1> DEFINE less == Without(rows, i)
           old == Recent(rows)
           new == Recent(less)
           h == Hidden(rows)
<1>1. /\ less \in Seq(Row) /\ Len(less) = Len(rows) - 1 /\ i \in Nat
      /\ \A k \in 1..Len(rows) - 1 : less[k] = rows[IF k < i THEN k ELSE k + 1]
  BY WithoutOne
<1>2. /\ old \in Seq(Text) /\ h \in Nat /\ Len(rows) \in Nat /\ Len(old) = Len(rows) - h
      /\ \A k \in 1..Len(rows) - h : old[k] = rows[h + k].text
  BY RecentRows
<1> HIDE DEF less
<1>3. /\ new \in Seq(Text) /\ Hidden(less) \in Nat /\ Len(new) = Len(less) - Hidden(less)
      /\ \A k \in 1..Len(less) - Hidden(less) : new[k] = less[Hidden(less) + k].text
  BY <1>1, RecentRows
<1>4. Hidden(less) = IF h > 0 THEN h - 1 ELSE 0
  <2>1. h = IF Max > 0 THEN IF Len(rows) > Max THEN Len(rows) - Max ELSE 0 ELSE 0
    BY DEF Hidden, Older
  <2>2. Hidden(less) = IF Max > 0 THEN IF Len(less) > Max THEN Len(less) - Max ELSE 0 ELSE 0
    BY DEF Hidden, Older
  <2> HIDE DEF h
  <2>3. CASE Max > 0 /\ Len(rows) > Max
    <3>1. h = Len(rows) - Max BY <2>1, <2>3
    <3>2. CASE Len(less) > Max
      <4>1. Hidden(less) = Len(less) - Max BY <2>2, <2>3, <3>2
      <4> QED BY <1>1, <1>2, <3>1, <3>2, <4>1, Limits
    <3>3. CASE ~(Len(less) > Max)
      <4>1. Hidden(less) = 0 BY <2>2, <3>3
      <4>2. Len(rows) = Max + 1 BY <1>1, <1>2, <2>3, <3>3, Limits
      <4> QED BY <3>1, <4>1, <4>2, Limits
    <3> QED BY <3>2, <3>3
  <2>4. CASE ~(Max > 0 /\ Len(rows) > Max)
    <3>1. h = 0 BY <2>1, <2>4
    <3>2. Max > 0 => ~(Len(less) > Max) BY <1>1, <1>2, <2>4, Limits
    <3>3. Hidden(less) = 0 BY <2>2, <3>2
    <3> QED BY <3>1, <3>3
  <2> QED BY <2>3, <2>4
<1> HIDE DEF old, new, h
<1>5. CASE i <= h
  <2>1. Hidden(less) = h - 1 /\ h > 0 /\ Len(new) = Len(old) BY <1>1, <1>2, <1>3, <1>4, <1>5
  <2>2. ASSUME NEW k \in 1..Len(old) PROVE new[k] = old[k]
    <3>1. h - 1 + k \in 1..Len(rows) - 1 /\ ~(h - 1 + k < i) /\ h - 1 + k + 1 = h + k
      BY <1>1, <1>2, <1>5, <2>1
    <3>2. less[h - 1 + k] = rows[h + k] BY <1>1, <3>1
    <3>3. new[k] = less[h - 1 + k].text BY <1>3, <2>1
    <3>4. old[k] = rows[h + k].text BY <1>2
    <3> QED BY <3>2, <3>3, <3>4
  <2>3. new = old BY <1>2, <1>3, <2>1, <2>2, SeqEqual
  <2> QED BY <2>3 DEF new, old, less
<1>6. CASE ~(i <= h)
  <2> DEFINE j == i - h
             front == SubSeq(old, 1, j - 1)
             back == SubSeq(old, j + 1, Len(old))
             texts == front \o back
  <2>1. j \in 1..Len(old) /\ j + h = i BY <1>1, <1>2, <1>6
  <2> HIDE DEF j
  <2>2. /\ texts \in Seq(Text) /\ Len(texts) = Len(old) - 1
        /\ \A k \in 1..Len(old) - 1 : texts[k] = old[IF k < j THEN k ELSE k + 1]
        /\ front \in Seq(Text) /\ back \in Seq(Text)
    BY <1>2, <2>1, WithoutOne DEF Without
  <2> HIDE DEF texts
  <2>3. ASSUME NEW k \in 1..Len(old) - 1
        PROVE  texts[k] = less[h + k].text
    <3>1. h + k \in 1..Len(rows) - 1 BY <1>2
    <3>2. CASE k < j
      <4>1. h + k < i /\ k \in 1..Len(rows) - h BY <1>2, <2>1, <3>2
      <4> QED BY <1>1, <1>2, <2>2, <3>1, <3>2, <4>1
    <3>3. CASE ~(k < j)
      <4>1. ~(h + k < i) /\ k + 1 \in 1..Len(rows) - h /\ h + (k + 1) = h + k + 1
        BY <1>1, <1>2, <2>1, <3>3
      <4>2. texts[k] = rows[h + k + 1].text BY <1>2, <2>2, <3>3, <4>1
      <4> QED BY <1>1, <3>1, <4>1, <4>2
    <3> QED BY <3>2, <3>3
  <2>4. CASE h = 0
    <3>1. Hidden(less) = 0 /\ Len(new) = Len(texts) BY <1>1, <1>2, <1>3, <1>4, <2>2, <2>4
    <3>2. \A k \in 1..Len(new) : new[k] = texts[k]
      <4> TAKE k \in 1..Len(new)
      <4>1. new[k] = less[0 + k].text BY <1>3, <3>1
      <4>2. texts[k] = less[0 + k].text BY <2>2, <2>3, <2>4, <3>1
      <4> QED BY <4>1, <4>2
    <3>3. new = texts BY <1>3, <2>2, <3>1, <3>2, SeqEqual
    <3>4. new = <<>> \o front \o back
      <4> HIDE DEF front, back
      <4>1. <<>> \o front = front BY <2>2, ConcatEmptySeq
      <4> QED BY <3>3, <4>1 DEF texts
    <3> HIDE DEF front, back
    <3> QED BY <2>1, <3>4 DEF new, old, less, front, back
  <2>5. CASE h > 0
    <3> DEFINE t == rows[h].text
               all == <<t>> \o texts
    <3>1. t \in Text
      <4>1. h \in 1..Len(rows) BY <1>2, <2>1, <2>5
      <4>2. rows[h] \in Row BY <4>1, ElementOfSeq
      <4> QED BY <4>2 DEF Row
    <3> HIDE DEF t
    <3>2. Hidden(less) = h - 1 /\ Len(new) = Len(old) BY <1>1, <1>2, <1>3, <1>4, <2>5
    <3>3. Len(old) = Max
      <4>1. h = IF Max > 0 THEN IF Len(rows) > Max THEN Len(rows) - Max ELSE 0 ELSE 0
        BY DEF h, Hidden, Older
      <4>2. h = Len(rows) - Max BY <2>5, <4>1
      <4> QED BY <1>2, <4>2, Limits
    <3>4. <<t>> \in Seq(Text) /\ Len(<<t>>) = 1 /\ <<t>>[1] = t BY <3>1
    <3>5. /\ all \in Seq(Text) /\ Len(all) = 1 + Len(texts)
          /\ \A k \in 1..1 + Len(texts) : all[k] = IF k <= 1 THEN <<t>>[k] ELSE texts[k - 1]
      BY <2>2, <3>4, ConcatProperties
    <3> HIDE DEF all
    <3>6. ASSUME NEW k \in 1..Len(old) PROVE new[k] = all[k]
      <4>1. new[k] = less[h - 1 + k].text BY <1>3, <3>2
      <4>2. CASE k = 1
        <5>1. h - 1 + k = h /\ h \in 1..Len(rows) - 1 /\ h < i BY <1>1, <1>2, <1>6, <2>1, <2>5, <4>2
        <5>2. less[h] = rows[h] BY <1>1, <5>1
        <5>3. all[k] = t BY <2>2, <3>4, <3>5, <4>2
        <5> QED BY <4>1, <5>1, <5>2, <5>3 DEF t
      <4>3. CASE k > 1
        <5>1. k - 1 \in 1..Len(old) - 1 /\ h + (k - 1) = h - 1 + k BY <1>2, <4>3
        <5>2. all[k] = texts[k - 1] BY <2>2, <3>5, <4>3, <5>1
        <5> QED BY <2>3, <4>1, <5>1, <5>2
      <4> QED BY <4>2, <4>3
    <3>7. Len(old) \in Nat /\ Len(all) = Len(old) BY <1>2, <2>1, <2>2, <3>5
    <3>8. new = all BY <1>3, <3>2, <3>5, <3>6, <3>7, SeqEqual
    <3>9. new = <<t>> \o front \o back
      <4> HIDE DEF front, back
      <4> QED BY <2>2, <3>4, <3>8, ConcatAssociative DEF all, texts
    <3>10. <<t>> \in {<<>>} \cup {<<u>> : u \in Text} BY <3>1
    <3> HIDE DEF front, back
    <3> QED BY <2>1, <3>3, <3>9, <3>10 DEF new, old, less, front, back
  <2>6. h = 0 \/ h > 0 BY <1>2
  <2> QED BY <2>4, <2>5, <2>6, Zenon
<1> QED BY <1>1, <1>2, <1>5, <1>6

\* Every step is a step of RecentTexts, or changes nothing of it.
LEMMA ShownStep ==
    ASSUME TypeOK, Compared, [Next]_vars
    PROVE  [Shown!Next]_<<Listed, calls>>
<1>1. table \in Seq(Row) /\ table' \in Seq(Row) /\ lastID \in Nat
  BY NextTable DEF TypeOK, HistoryTypeOK
<1>2. Listed = Recent(table) BY <1>1, ListedRows
<1>3. Listed' = Recent(table')
  <2>1. (table \in Seq(Row) => Listed = Recent(table))' BY ListedRows, PTL
  <2> QED BY <1>1, <2>1 DEF Recent, Hidden, Older
<1>4. ASSUME Listed' = Listed, calls' = calls PROVE [Shown!Next]_<<Listed, calls>>
  BY <1>4
<1>5. ASSUME Listed' = Listed, calls' = calls + 1 PROVE Shown!Next
  BY <1>5 DEF Listed, Shown!Next, Shown!Request
<1>6. ASSUME table' = table PROVE Listed' = Listed
  BY <1>2, <1>3, <1>6
<1>7. ASSUME NEW a \in Adder, Insert(a), table' # table, calls' = calls PROVE Shown!Next
  <2> DEFINE r == [id |-> lastID + 1, text |-> arg[a]]
  <2>1. table' = Append(table, r) BY <1>7 DEF Insert
  <2>2. arg[a] \in Text /\ r \in Row /\ r.text = arg[a]
    BY <1>1 DEF TypeOK, HistoryTypeOK, Row
  <2> HIDE DEF r
  <2>3. Listed' = Shown!Limit(Append(Listed, arg[a]))
    BY <1>1, <1>2, <1>3, <2>1, <2>2, RecordStep
  <2>4. PICK t \in Text : t = arg[a] BY <2>2
  <2>5. Shown!Record(t) BY <1>7, <2>3, <2>4 DEF Listed, Shown!Record
  <2> QED BY <2>5 DEF Listed, Shown!Next
<1>8. ASSUME NEW a \in Adder, Trim(a) PROVE Listed' = Listed
  <2>1. Max > 0 BY <1>8 DEF Compared, Trim
  <2>2. CASE table' = Newest(Max, table) BY <1>1, <1>2, <1>3, <2>1, <2>2, TrimStep
  <2>3. CASE table' = table BY <1>6, <2>3
  <2> QED BY <1>8, <2>2, <2>3 DEF Trim, Kept
<1>9. ASSUME NEW i \in 1..Len(table), Delete(i), calls' = calls + 1 PROVE Shown!Next
  <2>1. table' = Without(table, i) BY <1>9 DEF Delete, Without
  <2>2. CASE Recent(Without(table, i)) = Recent(table) BY <1>2, <1>3, <1>5, <1>9, <2>1, <2>2
  <2>3. ASSUME NEW j \in 1..Len(Listed), NEW older \in {<<>>} \cup {<<t>> : t \in Text},
               older # <<>> => Len(Listed) = Max,
               Listed' = older \o SubSeq(Listed, 1, j - 1) \o SubSeq(Listed, j + 1, Len(Listed))
        PROVE  Shown!Next
    <3>1. Shown!Drop(j) BY <1>9, <2>3 DEF Listed, Shown!Drop
    <3>2. \E k \in 1..Len(Listed) : Shown!Drop(k) BY <3>1
    <3> QED BY <3>2 DEF Listed, Shown!Next
  <2> QED BY <1>1, <1>2, <1>3, <2>1, <2>2, <2>3, DropStep
<1>10. CASE \E a \in Adder : Add(a)
  <2>1. PICK a \in Adder : AddStep(a) /\ calls' = calls BY <1>10 DEF Add
  <2>2. CASE table' = table BY <1>4, <1>6, <2>1, <2>2
  <2>3. CASE Insert(a) /\ table' # table BY <1>7, <2>1, <2>3
  <2>4. CASE Trim(a) BY <1>4, <1>8, <2>1, <2>4
  <2> QED BY <2>1, <2>2, <2>3, <2>4 DEF AddStep, CheckLatest
<1>11. CASE OtherCall
  <2>1. calls' = calls + 1 BY <1>11 DEF OtherCall
  <2>2. CASE table' = table BY <1>5, <1>6, <2>1, <2>2
  <2>3. CASE \E i \in 1..Len(table) : Delete(i) BY <1>9, <2>1, <2>3
  <2> QED BY <1>11, <2>2, <2>3 DEF OtherCall, Call
<1>12. CASE table' = table /\ calls' = calls BY <1>4, <1>6, <1>12
<1> QED BY <1>10, <1>11, <1>12
     DEF Next, vars, historyVars, Copy, Cancel, Watch, Receive, Call, Leave, Crash, HistoryRestart

\* Whatever Adds are under way or have failed to trim, List shows a list of recent
\* texts (history.go:31-57).
THEOREM ListsRecentTexts == Spec => ShowsRecentTexts
<1>1. Init => Shown!Init
  <2>1. Init => table = <<>> /\ calls = 0 BY Zenon DEF Init, HistoryInit
  <2>2. ASSUME table = <<>>, calls = 0 PROVE Listed = <<>> /\ calls = 0
    <3>1. table \in Seq(Row) /\ Len(table) = 0 BY <2>2
    <3>2. Listed = Recent(table) BY <3>1, ListedRows
    <3>3. Recent(table) \in Seq(Text) /\ Len(Recent(table)) = 0
      <4>1. Hidden(table) = 0 BY <3>1, Limits DEF Hidden, Older
      <4>2. Recent(table) \in Seq(Text) /\ Len(Recent(table)) = Len(table) - Hidden(table)
        BY <3>1, RecentRows
      <4> QED BY <3>1, <4>1, <4>2
    <3> QED BY <2>2, <3>2, <3>3, EmptySeq
  <2> QED BY <2>1, <2>2 DEF Listed, Shown!Init
<1>2. TypeOK /\ Compared /\ [Next]_vars => [Shown!Next]_<<Listed, calls>>
  BY ShownStep
<1> QED BY CaptureTypes, AlwaysCompared, <1>1, <1>2, PTL DEF Spec, ShowsRecentTexts, Shown!Spec, Listed

=============================================================================
