----------------------------- MODULE FilesProofs ------------------------------
(***************************************************************************)
(* Theorems about Files, for any transfers, sizes, changes of the files,   *)
(* chunk sizes, stream capacities and faults.                              *)
(***************************************************************************)
EXTENDS Files, SequenceTheorems, TLAPS

\* The messages under way on a stream, and one of them.
Messages(q) == {q[i] : i \in 1..Len(q)}
Msg(type, t) == [type |-> type, id |-> t]

\* Where in its file a chunk begins and ends.
From(c) == c.bytes[1][2] - 1
To(c) == From(c) + Len(c.bytes)

\* The receiver is receiving t; the sender has had the answer to its offer of t;
\* nobody has sent t yet, or at least nobody has seen the offer.
Active(t) == receiving = t /\ rPC \notin {"idle", "offer"}
Past(t) == sending = t /\ sPC \notin {"idle", "accept"}
Unoffered(t) == sResult[t] = "none" /\ (sPC = "idle" \/ sending # t)
Early(t) == Unoffered(t) \/ Msg("OFFER", t) \in Messages(toReceiver)

\* What a place in SendFile or ReceiveFile needs, and what a closed side leaves.
Places ==
    /\ sPC # "idle" => sending \in Transfer
    /\ sPC = "write" => next >= 1 /\ sent[sending] + next <= length[sending]
    /\ sPC = "complete" => sent[sending] = length[sending]
    /\ rPC \notin {"idle", "offer"} => receiving \in Transfer
    /\ rPC = "offer" => receiving = None
    /\ rPC = "complete" => Len(stored[receiving]) >= Size[receiving]
    /\ "sender" \in hung => sPC = "idle"
    /\ "receiver" \in hung => rPC = "idle" /\ data = <<>>

\* A transfer is offered once, and nothing of it exists before that.
OffersOnce ==
    \A t \in Transfer :
        /\ \A i, j \in 1..Len(toReceiver) :
              toReceiver[i] = Msg("OFFER", t) /\ toReceiver[j] = Msg("OFFER", t) => i = j
        /\ ~(Unoffered(t) /\ Msg("OFFER", t) \in Messages(toReceiver))
        /\ Early(t) => /\ stored[t] = <<>> /\ sent[t] = 0
                       /\ receiving # t /\ ~Past(t)
                       /\ Msg("ACCEPT", t) \notin Messages(toSender)
                       /\ \A c \in Messages(data) : c.id # t

\* Every chunk is a piece of its file.
Pieces ==
    \A c \in Messages(data) :
        /\ Len(c.bytes) >= 1 /\ From(c) \in Nat /\ To(c) <= length[c.id]
        /\ \A k \in 1..Len(c.bytes) : c.bytes[k] = <<c.id, From(c) + k>>

\* The chunks of a file follow each other, without gaps.
Runs ==
    /\ \A i, j \in 1..Len(data) :
          i < j /\ data[i].id = data[j].id =>
             data[j - 1].id = data[j].id /\ From(data[j]) = To(data[j - 1])
    /\ \A t \in Transfer : Past(t) =>
          /\ \A i, j \in 1..Len(data) : i < j /\ data[i].id = t => data[j].id = t
          /\ data # <<>> /\ data[Len(data)].id = t => To(data[Len(data)]) = sent[t]

\* The chunks of the file that is being received go on where the last one ended.
InStep ==
    /\ \A t \in Transfer : Active(t) =>
          /\ \A i \in 1..Len(data) :
                data[i].id = t /\ (i = 1 \/ data[i - 1].id # t) =>
                   From(data[i]) = Len(stored[t])
          /\ Past(t) /\ (\A c \in Messages(data) : c.id # t) => sent[t] = Len(stored[t])
    /\ sPC = "accept" =>
          /\ sent[sending] = 0 /\ stored[sending] = <<>>
          /\ \A c \in Messages(data) : c.id # sending

\* What has been written is the beginning of the file.
Beginning ==
    \A t \in Transfer :
        /\ Len(stored[t]) <= length[t]
        /\ \A k \in 1..Len(stored[t]) : stored[t][k] = <<t, k>>

\* FILE_COMPLETE is sent, and believed, after the whole file only.
Ends ==
    \A t \in Transfer :
        (Msg("COMPLETE", t) \in Messages(toReceiver) \/ rResult[t] = "ok") =>
            sent[t] = length[t] /\ ~Unoffered(t)
Enough == \A t \in Transfer : rResult[t] = "ok" => Len(stored[t]) >= Size[t]

\* The types, with sent a natural number, and the places.
Shape == TypeOK /\ sent \in [Transfer -> Nat] /\ Places

\* Shape in two parts, one for each side: what its own steps can disturb.
SenderShape ==
    /\ length \in [Transfer -> Nat] /\ sent \in [Transfer -> Nat]
    /\ \A t \in Transfer : sent[t] <= length[t]
    /\ sPC \in {"idle", "accept", "start", "read", "write", "complete"}
    /\ sending \in Transfer \cup {None}
    /\ next \in 0..ChunkSize
    /\ sResult \in [Transfer -> Result]
    /\ sPC # "idle" => sending \in Transfer
    /\ sPC = "write" => next >= 1 /\ sent[sending] + next <= length[sending]
    /\ sPC = "complete" => sent[sending] = length[sending]

ReceiverShape ==
    /\ rPC \in {"idle", "offer", "accept", "start", "check", "chunk", "complete"}
    /\ receiving \in Transfer \cup {None}
    /\ stored \in [Transfer -> Seq(Transfer \X Nat)]
    /\ rResult \in [Transfer -> Result]
    /\ rPC \notin {"idle", "offer"} => receiving \in Transfer
    /\ rPC = "offer" => receiving = None
    /\ rPC = "complete" => Len(stored[receiving]) >= Size[receiving]

\* Nothing has gone wrong so far: nobody has hung up, no file has changed its size
\* since it was offered, no call has failed.
Untroubled ==
    /\ hung = {}
    /\ \A t \in Transfer : /\ length[t] \in {0, Size[t]}
                           /\ sResult[t] # "error" /\ rResult[t] # "error"

\* A call has no result before it returns, and a transfer none before it is offered.
Recorded ==
    /\ \A t \in Transfer : Unoffered(t) => length[t] = 0
    /\ \A t \in Transfer : Early(t) => rResult[t] = "none"
    /\ sPC # "idle" => sResult[sending] = "none"
    /\ rPC \notin {"idle", "offer"} => rResult[receiving] = "none"

\* Where the two calls may be together as long as nothing goes wrong, and what is
\* under way then.
ChunksOf(t) == \A c \in Messages(data) : c.id = t
Offering ==
    /\ rPC \in {"idle", "offer"} /\ toSender = <<>> /\ data = <<>>
    /\ \/ sPC = "idle" /\ toReceiver = <<>>
       \/ sPC = "accept" /\ toReceiver = <<Msg("OFFER", sending)>>
Answering ==
    /\ sPC = "accept" /\ receiving = sending /\ toReceiver = <<>> /\ data = <<>>
    /\ \/ rPC = "accept" /\ toSender = <<>>
       \/ rPC = "start" /\ toSender = <<Msg("ACCEPT", sending)>>
Starting ==
    /\ sPC = "start" /\ rPC = "start" /\ receiving = sending
    /\ toReceiver = <<>> /\ toSender = <<>> /\ data = <<>>
Moving ==
    /\ sPC \in {"read", "write", "complete"} /\ receiving = sending
    /\ toSender = <<>> /\ ChunksOf(sending)
    /\ \/ rPC = "start" /\ toReceiver = <<Msg("START", sending)>>
       \/ rPC \in {"check", "chunk", "complete"} /\ toReceiver = <<>>
Finishing ==
    /\ toSender = <<>> /\ ChunksOf(receiving)
    /\ \/ /\ rPC = "start" /\ sPC = "idle"
          /\ toReceiver = <<Msg("START", receiving), Msg("COMPLETE", receiving)>>
       \/ /\ rPC = "start" /\ sPC = "accept"
          /\ toReceiver = <<Msg("START", receiving), Msg("COMPLETE", receiving),
                            Msg("OFFER", sending)>>
       \/ /\ rPC \in {"check", "chunk", "complete"} /\ sPC = "idle"
          /\ toReceiver = <<Msg("COMPLETE", receiving)>>
       \/ /\ rPC \in {"check", "chunk", "complete"} /\ sPC = "accept"
          /\ toReceiver = <<Msg("COMPLETE", receiving), Msg("OFFER", sending)>>
Lockstep == Untroubled => Offering \/ Answering \/ Starting \/ Moving \/ Finishing

-----------------------------------------------------------------------------
(* Streams *)

\* A message written is one more under way.
LEMMA Appended ==
    ASSUME NEW S, NEW q \in Seq(S), NEW m \in S
    PROVE  /\ Append(q, m) \in Seq(S)
           /\ Len(q) \in Nat /\ Len(Append(q, m)) = Len(q) + 1
           /\ \A i \in 1..Len(q) : Append(q, m)[i] = q[i]
           /\ Append(q, m)[Len(q) + 1] = m
           /\ Messages(Append(q, m)) = Messages(q) \cup {m}
<1>1. /\ Append(q, m) \in Seq(S)
      /\ Len(q) \in Nat /\ Len(Append(q, m)) = Len(q) + 1
      /\ \A i \in 1..Len(q) : Append(q, m)[i] = q[i]
      /\ Append(q, m)[Len(q) + 1] = m
  BY AppendProperties
<1> DEFINE p == Append(q, m)
<1> HIDE DEF p
<1>2. ASSUME NEW i \in 1..Len(p) PROVE p[i] \in Messages(q) \cup {m}
  <2>1. CASE i \in 1..Len(q) BY <1>1, <2>1 DEF p, Messages
  <2>2. CASE i = Len(q) + 1 BY <1>1, <2>2 DEF p
  <2> QED BY <1>1, <2>1, <2>2 DEF p
<1>3. ASSUME NEW i \in 1..Len(q) PROVE q[i] \in Messages(p)
  <2>1. i \in 1..Len(p) /\ p[i] = q[i] BY <1>1 DEF p
  <2> QED BY <2>1 DEF Messages
<1>4. m \in Messages(p)
  <2>1. Len(q) + 1 \in 1..Len(p) /\ p[Len(q) + 1] = m BY <1>1 DEF p
  <2> QED BY <2>1 DEF Messages
<1>5. Messages(p) = Messages(q) \cup {m} BY <1>2, <1>3, <1>4 DEF Messages
<1> QED BY <1>1, <1>5 DEF p

\* A message read is no longer under way; the others are.
LEMMA Taken ==
    ASSUME NEW S, NEW q \in Seq(S), q # <<>>
    PROVE  /\ Tail(q) \in Seq(S) /\ Head(q) \in S /\ Head(q) = q[1]
           /\ Len(q) \in Nat /\ Len(q) >= 1 /\ Len(Tail(q)) = Len(q) - 1
           /\ \A i \in 1..Len(Tail(q)) : Tail(q)[i] = q[i + 1]
           /\ Messages(Tail(q)) \subseteq Messages(q)
           /\ Head(q) \in Messages(q)
<1>1. /\ Tail(q) \in Seq(S) /\ Head(q) \in S /\ Len(Tail(q)) = Len(q) - 1
      /\ \A i \in 1..Len(Tail(q)) : Tail(q)[i] = q[i + 1]
  BY HeadTailProperties
<1>2. Len(q) \in Nat /\ Len(q) >= 1 BY EmptySeq, LenProperties
<1>3. Head(q) = q[1] OBVIOUS
<1>4. 1 \in 1..Len(q) BY <1>2
<1>5. ASSUME NEW i \in 1..Len(Tail(q)) PROVE Tail(q)[i] \in Messages(q)
  <2>1. i + 1 \in 1..Len(q) BY <1>1, <1>2
  <2> QED BY <1>1, <2>1 DEF Messages
<1> QED BY <1>1, <1>2, <1>3, <1>4, <1>5 DEF Messages

\* What is left of a stream when its writer has hung up.
LEMMA Cut ==
    ASSUME NEW S, NEW q \in Seq(S), NEW p \in Prefixes(q)
    PROVE  /\ p \in Seq(S) /\ Len(q) \in Nat /\ Len(p) \in Nat /\ Len(p) <= Len(q)
           /\ \A i \in 1..Len(p) : p[i] = q[i]
           /\ Messages(p) \subseteq Messages(q)
<1>1. PICK k \in 0..Len(q) : p = SubSeq(q, 1, k) BY DEF Prefixes
<1>2. Len(q) \in Nat BY LenProperties
<1>3. 1 \in Int /\ k \in Int BY <1>2
<1>4. \A i \in 1..k : q[i] \in S BY <1>2, ElementOfSeq
<1>5. /\ SubSeq(q, 1, k) \in Seq(S)
      /\ Len(SubSeq(q, 1, k)) = IF 1 <= k THEN k - 1 + 1 ELSE 0
      /\ \A i \in 1..k - 1 + 1 : SubSeq(q, 1, k)[i] = q[1 + i - 1]
  BY <1>3, <1>4, SubSeqProperties
<1>6. p \in Seq(S) /\ Len(p) = k /\ \A i \in 1..k : p[i] = q[i]
  BY <1>1, <1>2, <1>3, <1>5
<1>7. \A i \in 1..Len(p) : i \in 1..Len(q) /\ p[i] = q[i] BY <1>2, <1>6
<1> QED BY <1>2, <1>6, <1>7 DEF Messages

\* The chunk that WriteChunk writes.
Piece(t, a, n) == [id |-> t, bytes |-> SubSeq(File(t), a + 1, a + n)]

\* It is a piece of the file.
LEMMA PieceOfFile ==
    ASSUME NEW t \in Transfer, length[t] \in Nat, NEW a \in Nat, NEW n \in Nat,
           n >= 1, a + n <= length[t]
    PROVE  /\ Piece(t, a, n) \in Chunk /\ Piece(t, a, n).id = t
           /\ Len(Piece(t, a, n).bytes) = n
           /\ From(Piece(t, a, n)) = a /\ To(Piece(t, a, n)) = a + n
           /\ \A k \in 1..n : Piece(t, a, n).bytes[k] = <<t, a + k>>
<1> DEFINE b == SubSeq(File(t), a + 1, a + n)
<1>1. a + 1 \in Int /\ a + n \in Int OBVIOUS
<1>2. \A i \in a + 1..a + n : File(t)[i] = <<t, i>> /\ File(t)[i] \in Transfer \X Nat
  BY DEF File
<1>3. /\ b \in Seq(Transfer \X Nat)
      /\ Len(b) = IF a + 1 <= a + n THEN a + n - (a + 1) + 1 ELSE 0
      /\ \A i \in 1..a + n - (a + 1) + 1 : b[i] = File(t)[a + 1 + i - 1]
  BY <1>1, <1>2, SubSeqProperties
<1> HIDE DEF b
<1>4. b \in Seq(Transfer \X Nat) /\ Len(b) = n
  BY <1>3
<1>5. ASSUME NEW k \in 1..n PROVE b[k] = <<t, a + k>>
  <2>1. b[k] = File(t)[a + k] BY <1>3
  <2>2. a + k \in a + 1..a + n OBVIOUS
  <2> QED BY <1>2, <2>1, <2>2
<1>6. Piece(t, a, n) = [id |-> t, bytes |-> b] BY DEF Piece, b
<1>7. b[1][2] = a + 1
  <2>1. b[1] = <<t, a + 1>> BY <1>5
  <2> QED BY <2>1
<1>8. Piece(t, a, n) \in Chunk BY <1>4, <1>6 DEF Chunk
<1>9. From(Piece(t, a, n)) = a /\ To(Piece(t, a, n)) = a + n
  BY <1>4, <1>6, <1>7 DEF From, To
<1> QED BY <1>4, <1>5, <1>6, <1>8, <1>9

-----------------------------------------------------------------------------
(* Types *)

\* What a file holds can be stored.
LEMMA Constants ==
    /\ 0 \notin Transfer
    /\ Size \in [Transfer -> Nat]
    /\ \A t \in Transfer : Lengths[t] \subseteq Nat
    /\ ChunkSize \in Nat /\ ChunkSize >= 1 /\ Capacity \in Nat /\ Capacity >= 1
BY FilesAssumption

\* A message to the receiver.
LEMMA ToReceiver ==
    ASSUME toReceiver \in Seq(Control), NEW type \in ControlType, NEW t \in Transfer,
           ControlToReceiver(type, t)
    PROVE  /\ toReceiver' \in Seq(Control)
           /\ \/ toReceiver' = toReceiver
              \/ "receiver" \notin hung /\ toReceiver' = Append(toReceiver, Msg(type, t))
           /\ Messages(toReceiver') \subseteq Messages(toReceiver) \cup {Msg(type, t)}
<1>1. Msg(type, t) \in Control BY DEF Msg, Control
<1>2. \/ toReceiver' = toReceiver
      \/ "receiver" \notin hung /\ toReceiver' = Append(toReceiver, Msg(type, t))
  BY DEF ControlToReceiver, Msg
<1>3. CASE toReceiver' = toReceiver BY <1>2, <1>3
<1>4. CASE toReceiver' = Append(toReceiver, Msg(type, t))
  BY <1>1, <1>2, <1>4, Appended
<1> QED BY <1>2, <1>3, <1>4

\* A message to the sender.
LEMMA ToSender ==
    ASSUME toSender \in Seq(Control), NEW type \in ControlType, NEW t \in Transfer,
           ControlToSender(type, t)
    PROVE  /\ toSender' \in Seq(Control)
           /\ Messages(toSender') \subseteq Messages(toSender) \cup {Msg(type, t)}
<1>1. Msg(type, t) \in Control BY DEF Msg, Control
<1>2. \/ toSender' = toSender
      \/ toSender' = Append(toSender, Msg(type, t))
  BY DEF ControlToSender, Msg
<1>3. CASE toSender' = toSender BY <1>3
<1>4. CASE toSender' = Append(toSender, Msg(type, t))
  BY <1>1, <1>4, Appended
<1> QED BY <1>2, <1>3, <1>4

\* Whatever happens, a chunk written is a piece of the file under way, the one read
\* is the first, and only an end of the sender cuts the stream short.
LEMMA NextData ==
    ASSUME Shape, [Next]_vars
    PROVE  /\ data' \in Seq(Chunk) /\ Len(data') <= Capacity
           /\ \/ data' = data
              \/ /\ WriteChunk /\ "receiver" \notin hung
                 /\ data' = Append(data, Piece(sending, sent[sending], next))
                 /\ Piece(sending, sent[sending], next) \in Chunk
              \/ ReadChunk /\ data # <<>> /\ data' = Tail(data)
              \/ SenderHangsUp /\ data' \in Prefixes(data)
              \/ ReceiverHangsUp /\ data' = <<>>
<1>1. data \in Seq(Chunk) /\ Len(data) \in Nat /\ Len(data) <= Capacity
  BY LenProperties DEF Shape, TypeOK
<1>2. CASE WriteChunk /\ data' # data
  <2>1. /\ "receiver" \notin hung /\ Len(data) < Capacity
        /\ data' = Append(data, Piece(sending, sent[sending], next))
    BY <1>2 DEF WriteChunk, Piece
  <2>2. sending \in Transfer /\ sPC = "write" BY <1>2 DEF WriteChunk, Shape, Places
  <2>3. /\ next \in Nat /\ next >= 1 /\ sent[sending] \in Nat /\ length[sending] \in Nat
        /\ sent[sending] + next <= length[sending]
    BY <2>2, Constants DEF Shape, Places, TypeOK
  <2>4. Piece(sending, sent[sending], next) \in Chunk
    BY <2>2, <2>3, PieceOfFile
  <2>5. data' \in Seq(Chunk) /\ Len(data') = Len(data) + 1
    BY <1>1, <2>1, <2>4, Appended
  <2> QED BY <1>1, <1>2, <2>1, <2>4, <2>5, Constants
<1>3. CASE ReadChunk
  <2>1. data # <<>> /\ data' = Tail(data) BY <1>3 DEF ReadChunk
  <2>2. data' \in Seq(Chunk) /\ Len(data') = Len(data) - 1 BY <1>1, <2>1, Taken
  <2>3. Len(data') <= Capacity BY <1>1, <2>2, Constants
  <2> QED BY <1>3, <2>1, <2>2, <2>3
<1>4. CASE SenderHangsUp
  <2>1. data' \in Prefixes(data) BY <1>4 DEF SenderHangsUp
  <2>2. data' \in Seq(Chunk) /\ Len(data') \in Nat /\ Len(data') <= Len(data)
    BY <1>1, <2>1, Cut
  <2> QED BY <1>1, <1>4, <2>1, <2>2, Constants
<1>5. CASE ReceiverHangsUp
  <2>1. data' = <<>> BY <1>5 DEF ReceiverHangsUp
  <2> QED BY <1>5, <2>1, EmptySeq, Constants
<1>6. CASE data' = data BY <1>1, <1>6
<1> QED BY <1>2, <1>3, <1>4, <1>5, <1>6
        DEF Next, WorldStep, SenderStep, ReceiverStep, vars, streamVars, SendOffer, ReceiveBegin,
            Cancel, Break, ExpectAccept, SendStart, ReadSource, SendComplete, AcceptEOF,
            ReceiveOffer, SendAccept, ExpectStart, CheckWritten, ExpectComplete, ReceiveEOF

\* Whatever happens, a message to the receiver is one of the transfer under way,
\* the one read is the first, and only an end of a side cuts the stream short.
LEMMA NextToReceiver ==
    ASSUME Shape, [Next]_vars
    PROVE  /\ toReceiver' \in Seq(Control)
           /\ \/ toReceiver' = toReceiver
              \/ \E t \in Transfer : /\ SendOffer(t)
                                     /\ toReceiver' = Append(toReceiver, Msg("OFFER", t))
              \/ SendStart /\ toReceiver' = Append(toReceiver, Msg("START", sending))
              \/ SendComplete /\ toReceiver' = Append(toReceiver, Msg("COMPLETE", sending))
              \/ /\ ReceiveOffer \/ ExpectStart \/ ExpectComplete
                 /\ toReceiver # <<>> /\ toReceiver' = Tail(toReceiver)
              \/ SenderHangsUp /\ toReceiver' \in Prefixes(toReceiver)
              \/ ReceiverHangsUp /\ toReceiver' = <<>>
<1>1. toReceiver \in Seq(Control) BY DEF Shape, TypeOK
<1>2. ASSUME NEW t \in Transfer, SendOffer(t)
      PROVE  /\ toReceiver' \in Seq(Control)
             /\ \/ toReceiver' = toReceiver
                \/ toReceiver' = Append(toReceiver, Msg("OFFER", t))
  <2>1. ControlToReceiver("OFFER", t) BY <1>2 DEF SendOffer
  <2> QED BY <1>1, <2>1, ToReceiver DEF ControlType
<1>3. ASSUME SendStart \/ SendComplete
      PROVE  /\ toReceiver' \in Seq(Control)
             /\ \/ toReceiver' = toReceiver
                \/ SendStart /\ toReceiver' = Append(toReceiver, Msg("START", sending))
                \/ SendComplete /\ toReceiver' = Append(toReceiver, Msg("COMPLETE", sending))
  <2>1. sending \in Transfer
    BY <1>3 DEF SendStart, SendComplete, Shape, Places
  <2>2. CASE SendStart
    <3>1. ControlToReceiver("START", sending) BY <2>2 DEF SendStart
    <3> QED BY <1>1, <2>1, <2>2, <3>1, ToReceiver DEF ControlType
  <2>3. CASE SendComplete
    <3>1. ControlToReceiver("COMPLETE", sending) BY <2>3 DEF SendComplete
    <3> QED BY <1>1, <2>1, <2>3, <3>1, ToReceiver DEF ControlType
  <2> QED BY <1>3, <2>2, <2>3
<1>4. ASSUME ReceiveOffer \/ ExpectStart \/ ExpectComplete
      PROVE  /\ toReceiver' \in Seq(Control)
             /\ toReceiver # <<>> /\ toReceiver' = Tail(toReceiver)
  <2>1. toReceiver # <<>> /\ toReceiver' = Tail(toReceiver)
    BY <1>4 DEF ReceiveOffer, ExpectStart, ExpectComplete
  <2> QED BY <1>1, <2>1, Taken
<1>5. ASSUME SenderHangsUp
      PROVE  toReceiver' \in Seq(Control) /\ toReceiver' \in Prefixes(toReceiver)
  <2>1. toReceiver' \in Prefixes(toReceiver) BY <1>5 DEF SenderHangsUp
  <2> QED BY <1>1, <2>1, Cut
<1>6. ASSUME ReceiverHangsUp PROVE toReceiver' \in Seq(Control) /\ toReceiver' = <<>>
  BY <1>6 DEF ReceiverHangsUp
<1>7. \/ \E t \in Transfer : SendOffer(t)
      \/ SendStart \/ SendComplete
      \/ ReceiveOffer \/ ExpectStart \/ ExpectComplete
      \/ SenderHangsUp \/ ReceiverHangsUp
      \/ toReceiver' = toReceiver
  BY DEF Next, WorldStep, SenderStep, ReceiverStep, vars, streamVars, ReceiveBegin,
            Cancel, Break, ExpectAccept, ReadSource, WriteChunk, AcceptEOF,
            SendAccept, CheckWritten, ReadChunk, ReceiveEOF
<1> QED BY <1>1, <1>2, <1>3, <1>4, <1>5, <1>6, <1>7

\* The same of the messages to the sender.
LEMMA NextToSender ==
    ASSUME Shape, [Next]_vars
    PROVE  /\ toSender' \in Seq(Control)
           /\ \/ Messages(toSender') \subseteq Messages(toSender)
              \/ /\ SendAccept
                 /\ Messages(toSender') \subseteq Messages(toSender) \cup {Msg("ACCEPT", receiving)}
<1>1. toSender \in Seq(Control) BY DEF Shape, TypeOK
<1>2. CASE SendAccept
  <2>1. ControlToSender("ACCEPT", receiving) BY <1>2 DEF SendAccept
  <2>2. receiving \in Transfer BY <1>2 DEF SendAccept, Shape, Places
  <2> QED BY <1>1, <1>2, <2>1, <2>2, ToSender DEF ControlType
<1>3. CASE ExpectAccept
  <2>1. toSender # <<>> /\ toSender' = Tail(toSender) BY <1>3 DEF ExpectAccept
  <2> QED BY <1>1, <2>1, Taken
<1>4. CASE SenderHangsUp
  <2>1. toSender' = <<>> BY <1>4 DEF SenderHangsUp
  <2>2. Messages(toSender') = {} BY <2>1 DEF Messages
  <2> QED BY <2>1, <2>2
<1>5. CASE ReceiverHangsUp
  <2>1. toSender' \in Prefixes(toSender) BY <1>5 DEF ReceiverHangsUp
  <2> QED BY <1>1, <2>1, Cut
<1>6. CASE toSender' = toSender BY <1>1, <1>6
<1>7. \/ SendAccept \/ ExpectAccept \/ SenderHangsUp \/ ReceiverHangsUp
      \/ toSender' = toSender
  BY DEF Next, WorldStep, SenderStep, ReceiverStep, vars, streamVars, ReceiveBegin,
            Cancel, Break, ReadSource, WriteChunk, AcceptEOF, SendOffer, SendStart, SendComplete,
            ReceiveOffer, ExpectStart, ExpectComplete, CheckWritten, ReadChunk, ReceiveEOF
<1> QED BY <1>2, <1>3, <1>4, <1>5, <1>6, <1>7

\* SendFile counts the bytes it has sent, up to the end of the file.
LEMMA NextSender ==
    ASSUME Shape, OffersOnce, [Next]_vars
    PROVE  SenderShape'
<1>1. SenderShape BY DEF Shape, TypeOK, Places, SenderShape
<1>2. ASSUME NEW t \in Transfer, SendOffer(t) PROVE SenderShape'
  <2>1. sent[t] = 0
    <3>1. Unoffered(t) BY <1>2 DEF SendOffer, Unoffered
    <3> QED BY <3>1 DEF OffersOnce, Early
  <2>2. PICK n \in Lengths[t] : length' = [length EXCEPT ![t] = n] BY <1>2 DEF SendOffer
  <2>3. n \in Nat BY Constants
  <2>4. length' \in [Transfer -> Nat] /\ sent' = sent /\ \A u \in Transfer : sent[u] <= length'[u]
    BY <1>1, <1>2, <2>1, <2>2, <2>3 DEF SenderShape, SendOffer
  <2>5. /\ sPC' \in {"idle", "accept"} /\ sending' = t /\ next' = next
        /\ sResult' \in [Transfer -> Result]
    BY <1>1, <1>2 DEF SenderShape, SendOffer, Result
  <2> QED BY <1>1, <2>4, <2>5 DEF SenderShape
<1>3. ASSUME EndSend("error"), sPC # "idle", UNCHANGED <<length, sending, next, sent>>
      PROVE  SenderShape'
  BY <1>1, <1>3 DEF SenderShape, EndSend, Result
<1>4. CASE SenderHangsUp
  <2>1. CASE sPC = "idle" BY <1>1, <1>4, <2>1 DEF SenderShape, SenderHangsUp
  <2>2. CASE sPC # "idle" BY <1>3, <1>4, <2>2 DEF SenderHangsUp
  <2> QED BY <2>1, <2>2
<1>5. CASE ExpectAccept BY <1>1, <1>3, <1>5 DEF ExpectAccept, SendFails, SenderShape
<1>6. CASE SendStart BY <1>1, <1>3, <1>6 DEF SendStart, SendFails, SenderShape
<1>7. CASE ReadSource
  <2>1. CASE SendFails BY <1>3, <1>7, <2>1 DEF ReadSource, SendFails
  <2>2. CASE ~SendFails
    <3> DEFINE left == length[sending] - sent[sending]
    <3>1. PICK n \in 0..ChunkSize : /\ n <= left
                                    /\ n = 0 => left = 0
                                    /\ next' = n
                                    /\ sPC' = IF n = 0 THEN "complete" ELSE "write"
      BY <1>7, <2>2 DEF ReadSource
    <3>2. UNCHANGED <<length, sending, sent, sResult>> BY <1>7, <2>2 DEF ReadSource
    <3>3. sending \in Transfer BY <1>1, <1>7 DEF SenderShape, ReadSource
    <3>4. /\ sent[sending] \in Nat /\ length[sending] \in Nat
          /\ sent[sending] <= length[sending] /\ n \in Nat
      BY <1>1, <3>3, Constants DEF SenderShape
    <3>5. CASE n = 0
      <4>1. sPC' = "complete" /\ sent[sending] = length[sending] BY <3>1, <3>4, <3>5
      <4> QED BY <1>1, <3>1, <3>2, <3>3, <4>1 DEF SenderShape
    <3>6. CASE n # 0
      <4>1. sPC' = "write" BY <3>1, <3>6
      <4>2. n >= 1 /\ sent[sending] + n <= length[sending] BY <3>1, <3>4, <3>6
      <4> QED BY <1>1, <3>1, <3>2, <3>3, <4>1, <4>2 DEF SenderShape
    <3> QED BY <3>5, <3>6
  <2> QED BY <2>1, <2>2
<1>8. CASE WriteChunk
  <2>1. CASE SendFails BY <1>3, <1>8, <2>1 DEF WriteChunk, SendFails
  <2>2. CASE ~SendFails
    <3>1. /\ sPC = "write" /\ sent' = [sent EXCEPT ![sending] = @ + next]
          /\ \/ sPC' = "read"
             \/ sent'[sending] = length[sending] /\ sPC' = "complete"
          /\ UNCHANGED <<length, sending, next, sResult>>
      BY <1>8, <2>2 DEF WriteChunk
    <3>2. /\ sending \in Transfer /\ next \in Nat
          /\ sent[sending] + next <= length[sending]
      BY <1>1, <3>1, Constants DEF SenderShape
    <3>3. sent' \in [Transfer -> Nat] /\ \A u \in Transfer : sent'[u] <= length[u]
      BY <1>1, <3>1, <3>2 DEF SenderShape
    <3> QED BY <1>1, <3>1, <3>2, <3>3 DEF SenderShape
  <2> QED BY <2>1, <2>2
<1>9. CASE SendComplete
  BY <1>1, <1>3, <1>9 DEF SendComplete, SendFails, EndSend, SenderShape, Result
<1>10. CASE AcceptEOF BY <1>3, <1>10 DEF AcceptEOF, SendFails
<1>11. CASE UNCHANGED senderVars BY <1>1, <1>11 DEF senderVars, SenderShape
<1> QED BY <1>2, <1>4, <1>5, <1>6, <1>7, <1>8, <1>9, <1>10, <1>11
     DEF Next, WorldStep, SenderStep, ReceiverStep, vars, ReceiveBegin, Cancel, Break,
         ReceiverHangsUp, ReceiveOffer, SendAccept, ExpectStart, CheckWritten, ReadChunk,
         ExpectComplete, ReceiveEOF

\* ReceiveFile writes the beginning of the first chunk, if that is one of its file.
LEMMA NextStored ==
    ASSUME Shape, [Next]_vars
    PROVE  /\ stored' \in [Transfer -> Seq(Transfer \X Nat)]
           /\ \/ stored' = stored
              \/ /\ ReadChunk /\ data # <<>> /\ data[1].id = receiving
                 /\ \E bytes \in Prefixes(data[1].bytes) :
                       /\ stored' = [stored EXCEPT ![receiving] = @ \o bytes]
                       /\ bytes \in Seq(Transfer \X Nat)
                       /\ bytes = data[1].bytes \/ rPC' = "idle"
<1>1. /\ stored \in [Transfer -> Seq(Transfer \X Nat)] /\ data \in Seq(Chunk)
  BY DEF Shape, TypeOK
<1>2. CASE ReadChunk /\ stored' # stored
  <2>1. data # <<>> /\ Head(data) = data[1] /\ data[1] \in Chunk
    BY <1>1, <1>2, Taken DEF ReadChunk
  <2>2. data[1].id = receiving
    BY <1>2, <2>1 DEF ReadChunk, AcceptsChunk, ReceiveFails
  <2>3. PICK bytes \in Prefixes(data[1].bytes) :
          /\ stored' = [stored EXCEPT ![receiving] = @ \o bytes]
          /\ bytes = data[1].bytes \/ rPC' = "idle"
    BY <1>2, <2>1, <2>2 DEF ReadChunk, AcceptsChunk, EndReceive
  <2>4. bytes \in Seq(Transfer \X Nat)
    <3>1. data[1].bytes \in Seq(Transfer \X Nat) BY <2>1 DEF Chunk
    <3> QED BY <3>1, Cut
  <2>5. receiving \in Transfer BY <1>2 DEF ReadChunk, Shape, Places
  <2>6. stored[receiving] \o bytes \in Seq(Transfer \X Nat)
    BY <1>1, <2>4, <2>5, ConcatProperties
  <2> QED BY <1>1, <1>2, <2>1, <2>2, <2>3, <2>4, <2>5, <2>6
<1>3. CASE stored' = stored BY <1>1, <1>3
<1> QED BY <1>2, <1>3
     DEF Next, WorldStep, SenderStep, ReceiverStep, vars, receiverVars, SendOffer, ReceiveBegin,
         Cancel, Break, SenderHangsUp, ReceiverHangsUp, ExpectAccept, SendStart, ReadSource,
         WriteChunk, SendComplete, AcceptEOF, ReceiveOffer, SendAccept, ExpectStart,
         CheckWritten, ExpectComplete, ReceiveEOF, ReceiveFails

\* ReceiveFile goes on to FILE_COMPLETE when it has enough.
LEMMA NextReceiver ==
    ASSUME Shape, [Next]_vars
    PROVE  ReceiverShape'
<1>1. ReceiverShape BY DEF Shape, TypeOK, Places, ReceiverShape
<1>2. stored' \in [Transfer -> Seq(Transfer \X Nat)] BY NextStored
<1>3. ASSUME NEW r \in {"ok", "error"}, EndReceive(r), rPC # "idle", UNCHANGED receiving
      PROVE  ReceiverShape'
  BY <1>1, <1>2, <1>3, Constants DEF ReceiverShape, EndReceive, Result, None
<1>4. CASE ReceiverHangsUp
  <2>1. CASE rPC = "idle" BY <1>1, <1>4, <2>1 DEF ReceiverShape, ReceiverHangsUp
  <2>2. CASE rPC # "idle" BY <1>3, <1>4, <2>2 DEF ReceiverHangsUp
  <2> QED BY <2>1, <2>2
<1>5. CASE ReceiveBegin BY <1>1, <1>5 DEF ReceiveBegin, ReceiverShape
<1>6. CASE ReceiveOffer
  <2>1. Head(toReceiver) \in Control BY <1>6, Taken DEF ReceiveOffer, Shape, TypeOK
  <2> QED BY <1>1, <1>3, <1>6, <2>1 DEF ReceiveOffer, ReceiveFails, ReceiverShape, Control
<1>7. CASE SendAccept BY <1>1, <1>3, <1>7 DEF SendAccept, ReceiveFails, ReceiverShape
<1>8. CASE ExpectStart BY <1>1, <1>3, <1>8 DEF ExpectStart, ReceiveFails, ReceiverShape
<1>9. CASE CheckWritten
  <2>1. receiving \in Transfer BY <1>1, <1>9 DEF CheckWritten, ReceiverShape
  <2>2. Len(stored[receiving]) \in Nat /\ Size[receiving] \in Nat
    BY <1>1, <2>1, LenProperties, Constants DEF ReceiverShape
  <2>3. CASE Len(stored[receiving]) < Size[receiving]
    BY <1>1, <1>3, <1>9, <2>3 DEF CheckWritten, ReceiveFails, ReceiverShape
  <2>4. CASE ~(Len(stored[receiving]) < Size[receiving])
    <3>1. Len(stored[receiving]) >= Size[receiving] BY <2>2, <2>4
    <3>2. rPC' = "complete" /\ UNCHANGED <<receiving, stored, rResult>>
      BY <1>9, <2>4 DEF CheckWritten
    <3> QED BY <1>1, <2>1, <3>1, <3>2 DEF ReceiverShape
  <2> QED BY <2>3, <2>4
<1>10. CASE ReadChunk
  <2>1. CASE rPC' = "idle"
    <3>1. \E r \in {"ok", "error"} : EndReceive(r)
      BY <1>10, <2>1 DEF ReadChunk, ReceiveFails
    <3> QED BY <1>3, <1>10, <3>1 DEF ReadChunk, ReceiveFails
  <2>2. CASE rPC' # "idle"
    <3>1. rPC' = "check" /\ UNCHANGED <<receiving, rResult>> /\ receiving \in Transfer
      BY <1>1, <1>10, <2>2 DEF ReadChunk, ReceiveFails, EndReceive, ReceiverShape
    <3> QED BY <1>1, <1>2, <3>1 DEF ReceiverShape
  <2> QED BY <2>1, <2>2
<1>11. CASE ExpectComplete
  <2>1. \E r \in {"ok", "error"} : EndReceive(r) BY <1>11 DEF ExpectComplete
  <2> QED BY <1>3, <1>11, <2>1 DEF ExpectComplete
<1>12. CASE ReceiveEOF BY <1>3, <1>12 DEF ReceiveEOF, ReceiveFails
<1>13. CASE UNCHANGED receiverVars BY <1>1, <1>13 DEF receiverVars, ReceiverShape
<1> QED BY <1>4, <1>5, <1>6, <1>7, <1>8, <1>9, <1>10, <1>11, <1>12, <1>13
     DEF Next, WorldStep, SenderStep, ReceiverStep, vars, SendOffer, Cancel, Break,
         SenderHangsUp, ExpectAccept, SendStart, ReadSource, WriteChunk, SendComplete, AcceptEOF

\* A side that has hung up runs no call and reads nothing.
LEMMA NextHung ==
    ASSUME Shape, [Next]_vars
    PROVE  /\ hung' \subseteq Side /\ cancelled' \subseteq Side /\ broken' \subseteq {"source", "sink"}
           /\ hung \subseteq hung'
           /\ "sender" \in hung' => sPC' = "idle"
           /\ "receiver" \in hung' => rPC' = "idle" /\ data' = <<>>
<1>1. /\ hung \subseteq Side /\ cancelled \subseteq Side /\ broken \subseteq {"source", "sink"}
      /\ "sender" \in hung => sPC = "idle"
      /\ "receiver" \in hung => rPC = "idle" /\ data = <<>>
  BY DEF Shape, TypeOK, Places
<1>2. CASE SenderHangsUp
  <2>1. data = <<>> => data' = <<>>
    <3>1. data' \in Prefixes(data) /\ data \in Seq(Chunk) BY <1>2 DEF SenderHangsUp, Shape, TypeOK
    <3>2. data' \in Seq(Chunk) /\ Len(data') \in Nat /\ Len(data') <= Len(data) BY <3>1, Cut
    <3> QED BY <3>1, <3>2, EmptySeq
  <2>2. sPC' = "idle" BY <1>2 DEF SenderHangsUp, EndSend
  <2>3. rPC' = rPC /\ hung' = hung \cup {"sender"} /\ UNCHANGED <<cancelled, broken>>
    BY <1>2 DEF SenderHangsUp, receiverVars
  <2> QED BY <1>1, <2>1, <2>2, <2>3 DEF Side
<1>3. CASE ReceiverHangsUp
  <2>1. rPC' = "idle" /\ data' = <<>> BY <1>3 DEF ReceiverHangsUp, EndReceive
  <2>2. sPC' = sPC /\ hung' = hung \cup {"receiver"} /\ UNCHANGED <<cancelled, broken>>
    BY <1>3 DEF ReceiverHangsUp, senderVars
  <2> QED BY <1>1, <2>1, <2>2 DEF Side
<1>4. CASE hung' = hung
  <2>1. cancelled' \subseteq Side /\ broken' \subseteq {"source", "sink"}
    BY <1>1
       DEF Next, WorldStep, SenderStep, ReceiverStep, vars, worldVars, SendOffer, ReceiveBegin,
         Cancel, Break, SenderHangsUp, ReceiverHangsUp, ExpectAccept, SendStart, ReadSource,
         WriteChunk, SendComplete, AcceptEOF, ReceiveOffer, SendAccept, ExpectStart,
         CheckWritten, ReadChunk, ExpectComplete, ReceiveEOF
  <2>2. "sender" \in hung => sPC' = "idle"
    BY <1>1, <1>4
       DEF Next, WorldStep, SenderStep, ReceiverStep, vars, senderVars, SendOffer, ReceiveBegin,
         Cancel, Break, SenderHangsUp, ReceiverHangsUp, ExpectAccept, SendStart, ReadSource,
         WriteChunk, SendComplete, AcceptEOF, ReceiveOffer, SendAccept, ExpectStart,
         CheckWritten, ReadChunk, ExpectComplete, ReceiveEOF
  <2>3. "receiver" \in hung => rPC' = "idle" /\ data' = <<>>
    BY <1>1, <1>4
       DEF Next, WorldStep, SenderStep, ReceiverStep, vars, receiverVars, streamVars, SendOffer,
         ReceiveBegin, Cancel, Break, SenderHangsUp, ReceiverHangsUp, ExpectAccept, SendStart,
         ReadSource, WriteChunk, SendComplete, AcceptEOF, ReceiveOffer, SendAccept, ExpectStart,
         CheckWritten, ReadChunk, ExpectComplete, ReceiveEOF
  <2> QED BY <1>1, <1>4, <2>1, <2>2, <2>3
<1> QED BY <1>2, <1>3, <1>4
     DEF Next, WorldStep, SenderStep, ReceiverStep, vars, worldVars, SendOffer, ReceiveBegin,
         Cancel, Break, ExpectAccept, SendStart, ReadSource, WriteChunk, SendComplete, AcceptEOF,
         ReceiveOffer, SendAccept, ExpectStart, CheckWritten, ReadChunk, ExpectComplete, ReceiveEOF

\* Types are kept, and what each place in the two calls needs.
LEMMA NextShape ==
    ASSUME Shape, OffersOnce, [Next]_vars
    PROVE  Shape'
<1>1. toReceiver' \in Seq(Control) BY NextToReceiver
<1>2. toSender' \in Seq(Control) BY NextToSender
<1>3. data' \in Seq(Chunk) /\ Len(data') <= Capacity BY NextData
<1>4. SenderShape' BY NextSender
<1>5. ReceiverShape' BY NextReceiver
<1>6. \A t \in Transfer : sent'[t] \in 0..length'[t] BY <1>4 DEF SenderShape
<1>7. TypeOK' BY <1>1, <1>2, <1>3, <1>4, <1>5, <1>6, NextHung DEF TypeOK, SenderShape, ReceiverShape
<1>8. Places' BY <1>4, <1>5, NextHung DEF Places, SenderShape, ReceiverShape
<1> QED BY <1>4, <1>7, <1>8 DEF Shape, SenderShape

-----------------------------------------------------------------------------
(* Every transfer is offered once *)

\* A transfer that is not offered yet was not offered before.
LEMMA NextUnoffered ==
    ASSUME Shape, [Next]_vars, NEW t \in Transfer, Unoffered(t)'
    PROVE  Unoffered(t) /\ ~SendOffer(t)
<1>1. sResult \in [Transfer -> Result] /\ (sPC # "idle" => sending \in Transfer)
  BY DEF Shape, TypeOK, Places
<1>2. ASSUME NEW u \in Transfer, SendOffer(u) PROVE Unoffered(t) /\ u # t
  BY <1>1, <1>2 DEF SendOffer, Unoffered
<1>3. ASSUME NEW r \in {"ok", "error"}, EndSend(r), sPC # "idle", UNCHANGED sending
      PROVE  Unoffered(t)
  BY <1>1, <1>3 DEF EndSend, Unoffered
<1>4. ASSUME SenderHangsUp PROVE Unoffered(t)
  BY <1>1, <1>3, <1>4 DEF SenderHangsUp, Unoffered
<1>5. ASSUME ExpectAccept PROVE Unoffered(t) BY <1>3, <1>5 DEF ExpectAccept, SendFails, Unoffered
<1>6. ASSUME SendStart PROVE Unoffered(t) BY <1>3, <1>6 DEF SendStart, SendFails, Unoffered
<1>7. ASSUME ReadSource PROVE Unoffered(t) BY <1>3, <1>7 DEF ReadSource, SendFails, Unoffered
<1>8. ASSUME WriteChunk PROVE Unoffered(t) BY <1>3, <1>8 DEF WriteChunk, SendFails, Unoffered
<1>9. ASSUME SendComplete PROVE Unoffered(t) BY <1>3, <1>9 DEF SendComplete, SendFails
<1>10. ASSUME AcceptEOF PROVE Unoffered(t) BY <1>3, <1>10 DEF AcceptEOF, SendFails
<1>11. ASSUME UNCHANGED senderVars PROVE Unoffered(t) BY <1>11 DEF senderVars, Unoffered
<1>12. Unoffered(t)
  BY <1>2, <1>4, <1>5, <1>6, <1>7, <1>8, <1>9, <1>10, <1>11
     DEF Next, WorldStep, SenderStep, ReceiverStep, vars, ReceiveBegin, Cancel, Break,
         ReceiverHangsUp, ReceiveOffer, SendAccept, ExpectStart, CheckWritten, ReadChunk,
         ExpectComplete, ReceiveEOF
<1> QED BY <1>2, <1>12

\* An offer that is under way was so before, or is made now.
LEMMA NextOffers ==
    ASSUME Shape, OffersOnce, [Next]_vars, NEW t \in Transfer
    PROVE  /\ \A i, j \in 1..Len(toReceiver') :
                 toReceiver'[i] = Msg("OFFER", t) /\ toReceiver'[j] = Msg("OFFER", t) => i = j
           /\ Msg("OFFER", t) \in Messages(toReceiver') =>
                 Msg("OFFER", t) \in Messages(toReceiver) \/ SendOffer(t)
<1> DEFINE m == Msg("OFFER", t)
           q == toReceiver
<1>1. /\ q \in Seq(Control) /\ Len(q) \in Nat
      /\ \A i, j \in 1..Len(q) : q[i] = m /\ q[j] = m => i = j
  BY LenProperties DEF Shape, TypeOK, OffersOnce
<1>2. q' = toReceiver' /\ m' = m BY DEF Msg
<1>3. ASSUME NEW n \in Control, q' = Append(q, n), n = m => SendOffer(t)
      PROVE  /\ \A i, j \in 1..Len(q') : q'[i] = m /\ q'[j] = m => i = j
             /\ m \in Messages(q') => m \in Messages(q) \/ SendOffer(t)
  <2>1. /\ Len(q') = Len(q) + 1 /\ q'[Len(q) + 1] = n
        /\ \A i \in 1..Len(q) : q'[i] = q[i]
        /\ Messages(q') = Messages(q) \cup {n}
    BY <1>1, <1>3, Appended
  <2>2. n = m => m \notin Messages(q)
    <3>1. n = m => Unoffered(t) BY <1>3 DEF SendOffer, Unoffered
    <3> QED BY <3>1 DEF OffersOnce
  <2>3. n = m => \A i \in 1..Len(q) : q[i] # m BY <2>2 DEF Messages
  <2>4. ASSUME NEW i \in 1..Len(q'), NEW j \in 1..Len(q'), q'[i] = m, q'[j] = m PROVE i = j
    <3>1. CASE n = m
      <4>1. i \notin 1..Len(q) /\ j \notin 1..Len(q) BY <2>1, <2>3, <2>4, <3>1
      <4> QED BY <1>1, <2>1, <4>1
    <3>2. CASE n # m
      <4>1. i # Len(q) + 1 /\ j # Len(q) + 1 BY <2>1, <2>4, <3>2
      <4>2. i \in 1..Len(q) /\ j \in 1..Len(q) BY <1>1, <2>1, <4>1
      <4> QED BY <1>1, <2>1, <2>4, <4>2
    <3> QED BY <3>1, <3>2
  <2> QED BY <1>3, <2>1, <2>4
<1>4. ASSUME NEW d \in {0, 1}, Len(q') \in Nat, Len(q') + d <= Len(q),
             \A i \in 1..Len(q') : q'[i] = q[i + d]
      PROVE  /\ \A i, j \in 1..Len(q') : q'[i] = m /\ q'[j] = m => i = j
             /\ m \in Messages(q') => m \in Messages(q)
  <2>1. \A i \in 1..Len(q') : i + d \in 1..Len(q) BY <1>1, <1>4
  <2>2. ASSUME NEW i \in 1..Len(q'), NEW j \in 1..Len(q'), q'[i] = m, q'[j] = m PROVE i = j
    <3>1. i + d = j + d BY <1>1, <1>4, <2>1, <2>2
    <3> QED BY <3>1
  <2>3. ASSUME m \in Messages(q') PROVE m \in Messages(q)
    <3>1. PICK i \in 1..Len(q') : q'[i] = m BY <2>3 DEF Messages
    <3> QED BY <1>4, <2>1, <3>1 DEF Messages
  <2> QED BY <2>2, <2>3
<1>5. CASE q' = q BY <1>1, <1>5
<1>6. CASE \E u \in Transfer : SendOffer(u) /\ q' = Append(q, Msg("OFFER", u))
  <2>1. PICK u \in Transfer : SendOffer(u) /\ q' = Append(q, Msg("OFFER", u)) BY <1>6
  <2>2. Msg("OFFER", u) = m => u = t BY DEF Msg
  <2>3. Msg("OFFER", u) \in Control BY DEF Msg, Control, ControlType
  <2> QED BY <1>3, <2>1, <2>2, <2>3
<1>7. CASE \E type \in {"START", "COMPLETE"} : sPC # "idle" /\ q' = Append(q, Msg(type, sending))
  <2>1. PICK type \in {"START", "COMPLETE"} : sPC # "idle" /\ q' = Append(q, Msg(type, sending))
    BY <1>7
  <2>2. sending \in Transfer BY <2>1 DEF Shape, Places
  <2>3. Msg(type, sending) # m BY DEF Msg
  <2>4. Msg(type, sending) \in Control BY <2>2 DEF Msg, Control, ControlType
  <2> QED BY <1>3, <2>1, <2>3, <2>4
<1>8. CASE q # <<>> /\ q' = Tail(q)
  <2>1. Len(q) >= 1 /\ Len(q') = Len(q) - 1 /\ \A i \in 1..Len(q') : q'[i] = q[i + 1]
    BY <1>1, <1>8, Taken
  <2>2. Len(q') \in Nat /\ Len(q') + 1 <= Len(q) BY <1>1, <2>1
  <2> QED BY <1>4, <2>1, <2>2
<1>9. CASE q' \in Prefixes(q)
  <2>1. Len(q') \in Nat /\ Len(q') <= Len(q) /\ \A i \in 1..Len(q') : q'[i] = q[i]
    BY <1>1, <1>9, Cut
  <2>2. Len(q') + 0 <= Len(q) /\ \A i \in 1..Len(q') : q'[i] = q[i + 0] BY <1>1, <2>1
  <2> QED BY <1>4, <2>1, <2>2
<1>10. CASE q' = <<>>
  BY <1>10 DEF Messages
<1> HIDE DEF q
<1>11. \/ q' = q
       \/ \E u \in Transfer : SendOffer(u) /\ q' = Append(q, Msg("OFFER", u))
       \/ \E type \in {"START", "COMPLETE"} : sPC # "idle" /\ q' = Append(q, Msg(type, sending))
       \/ q # <<>> /\ q' = Tail(q)
       \/ q' \in Prefixes(q)
       \/ q' = <<>>
  BY NextToReceiver DEF SendStart, SendComplete, q
<1> QED BY <1>2, <1>5, <1>6, <1>7, <1>8, <1>9, <1>10, <1>11 DEF q

\* So a transfer whose offer nobody has seen was like that before.
LEMMA NextEarly ==
    ASSUME Shape, OffersOnce, [Next]_vars, NEW t \in Transfer, Early(t)'
    PROVE  Early(t)
<1>1. Unoffered(t)' \/ Msg("OFFER", t) \in Messages(toReceiver') BY DEF Early, Msg
<1>2. SendOffer(t) => Unoffered(t) BY DEF SendOffer, Unoffered
<1> QED BY <1>1, <1>2, NextOffers, NextUnoffered DEF Early

\* A transfer is offered once, and before that it has left no trace.
LEMMA NextOffersOnce ==
    ASSUME Shape, OffersOnce, [Next]_vars
    PROVE  OffersOnce'
<1> SUFFICES ASSUME NEW t \in Transfer
             PROVE  /\ ~(Unoffered(t) /\ Msg("OFFER", t) \in Messages(toReceiver))'
                    /\ Early(t)' => /\ stored'[t] = <<>> /\ sent'[t] = 0
                                    /\ receiving' # t /\ ~Past(t)'
                                    /\ Msg("ACCEPT", t) \notin Messages(toSender')
                                    /\ \A c \in Messages(data') : c.id # t
  BY NextOffers DEF OffersOnce, Msg
<1>1. /\ ~(Unoffered(t) /\ Msg("OFFER", t) \in Messages(toReceiver))
      /\ Msg("OFFER", t) \in Messages(toReceiver') =>
            Msg("OFFER", t) \in Messages(toReceiver) \/ SendOffer(t)
      /\ Unoffered(t)' => Unoffered(t) /\ ~SendOffer(t)
      /\ SendOffer(t) => Unoffered(t)
  BY NextOffers, NextUnoffered DEF OffersOnce, SendOffer, Unoffered
<1>2. ~(Unoffered(t)' /\ Msg("OFFER", t) \in Messages(toReceiver')) BY <1>1
<1>3. Early(t)' => Early(t) BY NextEarly
<1>4. ASSUME Early(t), Early(t)'
      PROVE  /\ stored'[t] = <<>> /\ sent'[t] = 0
             /\ receiving' # t /\ ~Past(t)'
             /\ Msg("ACCEPT", t) \notin Messages(toSender')
             /\ \A c \in Messages(data') : c.id # t
  <2>1. /\ stored[t] = <<>> /\ sent[t] = 0
        /\ receiving # t /\ ~Past(t)
        /\ Msg("ACCEPT", t) \notin Messages(toSender)
        /\ \A c \in Messages(data) : c.id # t
    BY <1>4 DEF OffersOnce
  <2>2. stored'[t] = <<>>
    <3>1. stored \in [Transfer -> Seq(Transfer \X Nat)] BY DEF Shape, TypeOK
    <3> QED BY <2>1, <3>1, NextStored
  <2>3. sent'[t] = 0
    <3>1. CASE WriteChunk
      <4>1. sPC = "write" /\ sending # t BY <2>1, <3>1 DEF WriteChunk, Past
      <4>2. sending \in Transfer /\ sent \in [Transfer -> Nat] BY <4>1 DEF Shape, Places
      <4> QED BY <2>1, <3>1, <4>1, <4>2 DEF WriteChunk, SendFails
    <3>2. CASE sent' = sent BY <2>1, <3>2
    <3> QED BY <3>1, <3>2
         DEF Next, WorldStep, SenderStep, ReceiverStep, vars, senderVars, SendOffer, ReceiveBegin,
             Cancel, Break, SenderHangsUp, ReceiverHangsUp, ExpectAccept, SendFails, SendStart,
             ReadSource, SendComplete, AcceptEOF, ReceiveOffer, SendAccept, ExpectStart,
             CheckWritten, ReadChunk, ExpectComplete, ReceiveEOF
  <2>4. receiving' # t
    <3>1. CASE ReceiveOffer /\ receiving' # receiving
      <4>1. /\ toReceiver # <<>> /\ toReceiver' = Tail(toReceiver)
            /\ Head(toReceiver).type = "OFFER" /\ receiving' = Head(toReceiver).id
            /\ UNCHANGED senderVars
        BY <3>1 DEF ReceiveOffer, ReceiveFails
      <4>2. toReceiver \in Seq(Control) BY DEF Shape, TypeOK
      <4>3. /\ Head(toReceiver) \in Control /\ Head(toReceiver) = toReceiver[1]
            /\ Head(toReceiver) \in Messages(toReceiver)
            /\ Len(toReceiver) \in Nat /\ Len(toReceiver') = Len(toReceiver) - 1
            /\ \A i \in 1..Len(toReceiver') : toReceiver'[i] = toReceiver[i + 1]
        BY <4>1, <4>2, Taken
      <4>4. SUFFICES ASSUME Head(toReceiver).id = t PROVE FALSE BY <4>1
      <4>5. Head(toReceiver) = Msg("OFFER", t) BY <4>1, <4>3, <4>4 DEF Control, Msg
      <4>6. ~Unoffered(t) BY <1>1, <4>3, <4>5
      <4>7. ~Unoffered(t)' BY <1>1, <4>6
      <4>8. Msg("OFFER", t) \in Messages(toReceiver') BY <1>4, <4>7 DEF Early, Msg
      <4>9. PICK i \in 1..Len(toReceiver') : toReceiver'[i] = Msg("OFFER", t)
        BY <4>8 DEF Messages
      <4>10. i + 1 \in 1..Len(toReceiver) /\ 1 \in 1..Len(toReceiver) /\ i + 1 # 1
        BY <4>3
      <4>11. toReceiver[i + 1] = Msg("OFFER", t) /\ toReceiver[1] = Msg("OFFER", t)
        BY <4>3, <4>5, <4>9
      <4> QED BY <4>10, <4>11 DEF OffersOnce
    <3>2. CASE receiving' = None BY <3>2, Constants DEF None
    <3>3. CASE receiving' = receiving BY <2>1, <3>3
    <3> QED BY <3>1, <3>2, <3>3
         DEF Next, WorldStep, SenderStep, ReceiverStep, vars, receiverVars, SendOffer, ReceiveBegin,
             Cancel, Break, SenderHangsUp, ReceiverHangsUp, ExpectAccept, SendStart,
             ReadSource, WriteChunk, SendComplete, AcceptEOF, ReceiveFails, SendAccept,
             ExpectStart, CheckWritten, ReadChunk, ExpectComplete, ReceiveEOF
  <2>5. ~Past(t)'
    <3>1. ASSUME Past(t)' PROVE ExpectAccept /\ sending = t /\ sPC' = "start"
      BY <2>1, <3>1
         DEF Past, Next, WorldStep, SenderStep, ReceiverStep, vars, senderVars, SendOffer,
             ReceiveBegin, Cancel, Break, SenderHangsUp, ReceiverHangsUp, ExpectAccept, EndSend,
             SendFails, SendStart, ReadSource, WriteChunk, SendComplete, AcceptEOF, ReceiveOffer,
             SendAccept, ExpectStart, CheckWritten, ReadChunk, ExpectComplete, ReceiveEOF
    <3>2. ASSUME ExpectAccept, sending = t, sPC' = "start" PROVE FALSE
      <4>1. toSender # <<>> /\ Head(toSender) = Msg("ACCEPT", t)
        BY <3>2 DEF ExpectAccept, SendFails, EndSend, Msg
      <4>2. Head(toSender) \in Messages(toSender) BY <4>1, Taken DEF Shape, TypeOK
      <4> QED BY <2>1, <4>1, <4>2
    <3> QED BY <3>1, <3>2
  <2>6. Msg("ACCEPT", t) \notin Messages(toSender')
    <3>1. SendAccept => Msg("ACCEPT", receiving) # Msg("ACCEPT", t) BY <2>1 DEF Msg
    <3> QED BY <2>1, <3>1, NextToSender
  <2>7. \A c \in Messages(data') : c.id # t
    <3>1. data \in Seq(Chunk) BY DEF Shape, TypeOK
    <3>2. ASSUME WriteChunk, data' = Append(data, Piece(sending, sent[sending], next)),
                 Piece(sending, sent[sending], next) \in Chunk
          PROVE  \A c \in Messages(data') : c.id # t
      <4>1. Messages(data') = Messages(data) \cup {Piece(sending, sent[sending], next)}
        BY <3>1, <3>2, Appended
      <4>2. Piece(sending, sent[sending], next).id # t BY <2>1, <3>2 DEF WriteChunk, Past, Piece
      <4> QED BY <2>1, <4>1, <4>2
    <3>3. ASSUME data # <<>>, data' = Tail(data) PROVE Messages(data') \subseteq Messages(data)
      BY <3>1, <3>3, Taken
    <3>4. ASSUME data' \in Prefixes(data) PROVE Messages(data') \subseteq Messages(data)
      BY <3>1, <3>4, Cut
    <3>5. ASSUME data' = <<>> PROVE Messages(data') = {} BY <3>5 DEF Messages
    <3> QED BY <2>1, <3>2, <3>3, <3>4, <3>5, NextData
  <2> QED BY <2>2, <2>3, <2>4, <2>5, <2>6, <2>7
<1> QED BY <1>2, <1>3, <1>4 DEF Msg

-----------------------------------------------------------------------------
(* What one step does to one transfer *)

\* Only an offer gives a file its length.
LEMMA NextLength ==
    ASSUME Shape, [Next]_vars, NEW t \in Transfer, ~SendOffer(t)
    PROVE  length'[t] = length[t]
<1>1. ASSUME NEW u \in Transfer, SendOffer(u) PROVE length'[t] = length[t]
  <2>1. u # t BY <1>1
  <2> QED BY <1>1, <2>1 DEF SendOffer, Shape, TypeOK
<1>2. CASE length' = length BY <1>2
<1> QED BY <1>1, <1>2
     DEF Next, WorldStep, SenderStep, ReceiverStep, vars, senderVars, ReceiveBegin,
         Cancel, Break, SenderHangsUp, ReceiverHangsUp, ExpectAccept, SendFails, SendStart,
         ReadSource, WriteChunk, SendComplete, AcceptEOF, ReceiveOffer, SendAccept, ExpectStart,
         CheckWritten, ReadChunk, ExpectComplete, ReceiveEOF

\* Only WriteChunk counts bytes, for the file under way.
LEMMA NextSent ==
    ASSUME Shape, [Next]_vars, NEW t \in Transfer
    PROVE  \/ sent'[t] = sent[t]
           \/ WriteChunk /\ sending = t /\ sent'[t] = sent[t] + next
<1>1. CASE WriteChunk
  <2>1. sending \in Transfer /\ sent \in [Transfer -> Nat]
    BY <1>1 DEF WriteChunk, Shape, Places
  <2> QED BY <1>1, <2>1 DEF WriteChunk, SendFails
<1>2. CASE sent' = sent BY <1>2
<1> QED BY <1>1, <1>2
     DEF Next, WorldStep, SenderStep, ReceiverStep, vars, senderVars, SendOffer, ReceiveBegin,
         Cancel, Break, SenderHangsUp, ReceiverHangsUp, ExpectAccept, SendFails, SendStart,
         ReadSource, SendComplete, AcceptEOF, ReceiveOffer, SendAccept, ExpectStart,
         CheckWritten, ReadChunk, ExpectComplete, ReceiveEOF

\* A sender that has had its answer had it before, or reads it now.
LEMMA NextPast ==
    ASSUME Shape, [Next]_vars, NEW t \in Transfer, Past(t)'
    PROVE  \/ Past(t)
           \/ ExpectAccept /\ sPC = "accept" /\ sending = t
BY DEF Past, Next, WorldStep, SenderStep, ReceiverStep, vars, senderVars, SendOffer,
       ReceiveBegin, Cancel, Break, SenderHangsUp, ReceiverHangsUp, ExpectAccept, EndSend,
       SendFails, SendStart, ReadSource, WriteChunk, SendComplete, AcceptEOF, ReceiveOffer,
       SendAccept, ExpectStart, CheckWritten, ReadChunk, ExpectComplete, ReceiveEOF

\* A receiver at work on a file was so before, or reads its offer now.
LEMMA NextActive ==
    ASSUME Shape, [Next]_vars, NEW t \in Transfer, Active(t)'
    PROVE  \/ Active(t)
           \/ ReceiveOffer /\ Msg("OFFER", t) \in Messages(toReceiver)
<1>1. CASE ReceiveOffer
  <2>1. /\ toReceiver # <<>> /\ Head(toReceiver).type = "OFFER"
        /\ receiving' = Head(toReceiver).id /\ receiving' = t
    BY <1>1 DEF ReceiveOffer, ReceiveFails, EndReceive, Active
  <2>2. Head(toReceiver) \in Control /\ Head(toReceiver) \in Messages(toReceiver)
    BY <2>1, Taken DEF Shape, TypeOK
  <2>3. Head(toReceiver) = Msg("OFFER", t) BY <2>1, <2>2 DEF Msg, Control
  <2> QED BY <1>1, <2>2, <2>3
<1>2. ASSUME ~ReceiveOffer PROVE Active(t)
  BY <1>2
     DEF Active, Next, WorldStep, SenderStep, ReceiverStep, vars, receiverVars, SendOffer,
         ReceiveBegin, Cancel, Break, SenderHangsUp, ReceiverHangsUp, ExpectAccept, EndReceive,
         SendStart, ReadSource, WriteChunk, SendComplete, AcceptEOF, ReceiveFails,
         SendAccept, ExpectStart, CheckWritten, ReadChunk, ExpectComplete, ReceiveEOF
<1> QED BY <1>1, <1>2

-----------------------------------------------------------------------------
(* The chunks under way *)

\* Every chunk under way stays a piece of its file.
LEMMA NextPieces ==
    ASSUME Shape, OffersOnce, Pieces, [Next]_vars
    PROVE  Pieces'
<1> DEFINE IsPiece(c, n) == /\ Len(c.bytes) >= 1 /\ From(c) \in Nat /\ To(c) <= n
                            /\ \A k \in 1..Len(c.bytes) : c.bytes[k] = <<c.id, From(c) + k>>
<1>1. data \in Seq(Chunk) BY DEF Shape, TypeOK
<1>2. ASSUME NEW c \in Messages(data) PROVE IsPiece(c, length'[c.id])
  <2>1. c \in Chunk BY <1>1, <1>2, ElementOfSeq DEF Messages
  <2>2. c.id \in Transfer BY <2>1 DEF Chunk
  <2>3. ~SendOffer(c.id)
    <3>1. SendOffer(c.id) => Early(c.id) BY DEF SendOffer, Early, Unoffered
    <3> QED BY <1>2, <2>2, <3>1 DEF OffersOnce
  <2>4. length'[c.id] = length[c.id] BY <2>2, <2>3, NextLength
  <2> QED BY <1>2, <2>4 DEF Pieces
<1>3. ASSUME WriteChunk, data' = Append(data, Piece(sending, sent[sending], next)),
             Piece(sending, sent[sending], next) \in Chunk
      PROVE  \A c \in Messages(data') : IsPiece(c, length'[c.id])
  <2> DEFINE t == sending
             p == Piece(t, sent[t], next)
  <2>1. Messages(data') = Messages(data) \cup {p} BY <1>1, <1>3, Appended
  <2>2. /\ t \in Transfer /\ length[t] \in Nat /\ sent[t] \in Nat /\ next \in Nat
        /\ next >= 1 /\ sent[t] + next <= length[t] /\ length'[t] = length[t]
    BY <1>3, Constants DEF WriteChunk, SendFails, Shape, TypeOK, Places
  <2>3. /\ p.id = t /\ Len(p.bytes) = next
        /\ From(p) = sent[t] /\ To(p) = sent[t] + next
        /\ \A k \in 1..next : p.bytes[k] = <<t, sent[t] + k>>
    BY <2>2, PieceOfFile
  <2> HIDE DEF p
  <2>4. IsPiece(p, length'[p.id]) BY <2>2, <2>3
  <2> QED BY <1>2, <2>1, <2>4
<1>4. ASSUME Messages(data') \subseteq Messages(data)
      PROVE  \A c \in Messages(data') : IsPiece(c, length'[c.id])
  BY <1>2, <1>4
<1>5. ASSUME data # <<>>, data' = Tail(data) PROVE Messages(data') \subseteq Messages(data)
  BY <1>1, <1>5, Taken
<1>6. ASSUME data' \in Prefixes(data) PROVE Messages(data') \subseteq Messages(data)
  BY <1>1, <1>6, Cut
<1>7. ASSUME data' = <<>> PROVE Messages(data') \subseteq Messages(data)
  BY <1>7 DEF Messages
<1> HIDE DEF IsPiece
<1>8. \A c \in Messages(data') : IsPiece(c, length'[c.id])
  BY <1>2, <1>3, <1>4, <1>5, <1>6, <1>7, NextData
<1> QED BY <1>8 DEF IsPiece, Pieces, From, To

\* The chunks of a file stay together.
LEMMA NextRuns ==
    ASSUME Shape, Runs, InStep, [Next]_vars
    PROVE  Runs'
<1> DEFINE Together == \A i, j \in 1..Len(data') :
                          i < j /\ data'[i].id = data'[j].id =>
                             /\ data'[j - 1].id = data'[j].id
                             /\ From(data'[j]) = To(data'[j - 1])
           Latest(t) == /\ \A i, j \in 1..Len(data') :
                              i < j /\ data'[i].id = t => data'[j].id = t
                        /\ data' # <<>> /\ data'[Len(data')].id = t =>
                              To(data'[Len(data')]) = sent'[t]
<1>1. data \in Seq(Chunk) /\ Len(data) \in Nat BY LenProperties DEF Shape, TypeOK
<1>2. ASSUME NEW d \in {0, 1}, Len(data') \in Nat, Len(data') + d <= Len(data),
             \A i \in 1..Len(data') : data'[i] = data[i + d]
      PROVE  Together
  <2> SUFFICES ASSUME NEW i \in 1..Len(data'), NEW j \in 1..Len(data'),
                      i < j, data'[i].id = data'[j].id
               PROVE  /\ data'[j - 1].id = data'[j].id
                      /\ From(data'[j]) = To(data'[j - 1])
    OBVIOUS
  <2>1. j - 1 \in 1..Len(data') BY <1>2
  <2>2. /\ i + d \in 1..Len(data) /\ j + d \in 1..Len(data) /\ i + d < j + d
        /\ j - 1 + d = j + d - 1
    BY <1>1, <1>2
  <2>3. data'[i] = data[i + d] /\ data'[j] = data[j + d] /\ data'[j - 1] = data[j + d - 1]
    BY <1>2, <2>1, <2>2
  <2>4. data[j + d - 1].id = data[j + d].id /\ From(data[j + d]) = To(data[j + d - 1])
    BY <2>2, <2>3 DEF Runs
  <2> QED BY <2>3, <2>4
<1>3. CASE /\ WriteChunk
           /\ data' = Append(data, Piece(sending, sent[sending], next))
           /\ Piece(sending, sent[sending], next) \in Chunk
  <2> DEFINE t == sending
             p == Piece(t, sent[t], next)
             n == Len(data)
  <2>1. /\ Len(data') = n + 1 /\ data'[n + 1] = p
        /\ \A i \in 1..n : data'[i] = data[i]
    BY <1>1, <1>3, Appended
  <2>2. /\ t \in Transfer /\ length[t] \in Nat /\ sent[t] \in Nat /\ next \in Nat
        /\ next >= 1 /\ sent[t] + next <= length[t] /\ Past(t)
    BY <1>3, Constants DEF WriteChunk, Shape, TypeOK, Places, Past
  <2>3. p.id = t /\ From(p) = sent[t] /\ To(p) = sent[t] + next
    BY <2>2, PieceOfFile
  <2>4. sent'[t] = sent[t] \/ sent'[t] = sent[t] + next BY <2>2, NextSent
  <2> HIDE DEF p
  <2>5. ASSUME NEW i \in 1..n, data[i].id = t
        PROVE  data[n].id = t /\ To(data[n]) = sent[t]
    <3>1. n \in 1..n /\ (i = n \/ i < n) BY <1>1
    <3>2. data[n].id = t BY <2>2, <2>5, <3>1 DEF Runs
    <3>3. data # <<>> BY <1>1, <3>1
    <3> QED BY <2>2, <3>2, <3>3 DEF Runs
  <2>6. Together
    <3> SUFFICES ASSUME NEW i \in 1..n + 1, NEW j \in 1..n + 1,
                        i < j, data'[i].id = data'[j].id
                 PROVE  /\ data'[j - 1].id = data'[j].id
                        /\ From(data'[j]) = To(data'[j - 1])
      BY <2>1
    <3>1. i \in 1..n /\ j - 1 \in 1..n BY <1>1
    <3>2. data'[i] = data[i] /\ data'[j - 1] = data[j - 1] BY <2>1, <3>1
    <3>3. CASE j \in 1..n
      <4>1. data'[j] = data[j] BY <2>1, <3>3
      <4> QED BY <3>1, <3>2, <3>3, <4>1 DEF Runs
    <3>4. CASE j = n + 1
      <4>1. data'[j] = p /\ j - 1 = n BY <1>1, <2>1, <3>4
      <4>2. data[i].id = t BY <2>3, <3>2, <4>1
      <4>3. data[n].id = t /\ To(data[n]) = sent[t] BY <2>5, <3>1, <4>2
      <4> QED BY <2>3, <3>2, <4>1, <4>3
    <3> QED BY <1>1, <3>3, <3>4
  <2>7. ASSUME NEW u \in Transfer, Past(u)' PROVE Latest(u)
    <3>1. u = t BY <1>3, <2>7 DEF WriteChunk, SendFails, EndSend, Past
    <3>2. sPC' # "idle" BY <2>7 DEF Past
    <3>3. sent'[t] = sent[t] + next
      BY <1>3, <2>2, <3>2 DEF WriteChunk, SendFails, EndSend, Shape
    <3>4. ASSUME NEW i \in 1..n + 1, NEW j \in 1..n + 1, i < j, data'[i].id = t
          PROVE  data'[j].id = t
      <4>1. i \in 1..n BY <1>1, <3>4
      <4>2. CASE j \in 1..n
        <5>1. data[i].id = t /\ data'[j] = data[j] BY <2>1, <3>4, <4>1, <4>2
        <5> QED BY <2>2, <3>4, <4>1, <4>2, <5>1 DEF Runs
      <4>3. CASE j = n + 1 BY <2>1, <2>3, <4>3
      <4> QED BY <1>1, <4>2, <4>3
    <3>5. To(data'[n + 1]) = sent'[t] BY <2>1, <2>3, <3>3
    <3> QED BY <2>1, <3>1, <3>4, <3>5
  <2> QED BY <2>6, <2>7 DEF Runs
<1>4. CASE ReadChunk /\ data # <<>> /\ data' = Tail(data)
  <2>1. /\ Len(data) >= 1 /\ Len(data') = Len(data) - 1
        /\ \A i \in 1..Len(data') : data'[i] = data[i + 1]
    BY <1>1, <1>4, Taken
  <2>2. Len(data') \in Nat /\ Len(data') + 1 <= Len(data) BY <1>1, <2>1
  <2>3. Together BY <1>2, <2>1, <2>2
  <2>4. ASSUME NEW u \in Transfer, Past(u)' PROVE Latest(u)
    <3>1. Past(u) /\ sent' = sent BY <1>4, <2>4 DEF ReadChunk, Past, senderVars
    <3>2. ASSUME NEW i \in 1..Len(data'), NEW j \in 1..Len(data'), i < j, data'[i].id = u
          PROVE  data'[j].id = u
      <4>1. i + 1 \in 1..Len(data) /\ j + 1 \in 1..Len(data) /\ i + 1 < j + 1
        BY <1>1, <2>1, <3>2
      <4>2. data[i + 1].id = u /\ data'[j] = data[j + 1] BY <2>1, <3>2
      <4> QED BY <3>1, <4>1, <4>2 DEF Runs
    <3>3. ASSUME data' # <<>>, data'[Len(data')].id = u
          PROVE  To(data'[Len(data')]) = sent'[u]
      <4>1. Len(data') \in 1..Len(data')
        <5>1. data' \in Seq(Chunk) BY NextData
        <5> QED BY <2>2, <3>3, <5>1, EmptySeq
      <4>2. data'[Len(data')] = data[Len(data)] BY <1>1, <2>1, <4>1
      <4> QED BY <1>4, <3>1, <3>3, <4>2 DEF Runs
    <3> QED BY <3>2, <3>3
  <2> QED BY <2>3, <2>4 DEF Runs
<1>5. CASE SenderHangsUp /\ data' \in Prefixes(data)
  <2>1. /\ Len(data') \in Nat /\ Len(data') <= Len(data)
        /\ \A i \in 1..Len(data') : data'[i] = data[i]
    BY <1>1, <1>5, Cut
  <2>2. Len(data') + 0 <= Len(data) /\ \A i \in 1..Len(data') : data'[i] = data[i + 0]
    BY <1>1, <2>1
  <2>3. Together BY <1>2, <2>1, <2>2
  <2>4. ASSUME NEW u \in Transfer PROVE ~Past(u)'
    BY <1>5 DEF SenderHangsUp, EndSend, Past
  <2> QED BY <2>3, <2>4 DEF Runs
<1>6. CASE data' = <<>>
  <2>1. Together /\ \A u \in Transfer : Latest(u) BY <1>6
  <2> QED BY <2>1 DEF Runs
<1>7. CASE data' = data /\ data # <<>>
  <2>1. Together BY <1>7 DEF Runs
  <2>2. ASSUME NEW u \in Transfer, Past(u)' PROVE Latest(u)
    <3>1. CASE Past(u)
      <4>1. ~(WriteChunk /\ sending = u)
        <5>1. ASSUME WriteChunk PROVE "receiver" \in hung
          BY <1>1, <1>7, <2>2, <5>1, Appended
             DEF WriteChunk, SendFails, EndSend, Past
        <5> QED BY <1>7, <5>1 DEF Shape, Places
      <4>2. sent'[u] = sent[u] BY <4>1, NextSent
      <4> QED BY <1>7, <3>1, <4>2 DEF Runs
    <3>2. CASE ExpectAccept /\ sPC = "accept" /\ sending = u
      <4>1. \A i \in 1..Len(data) : data[i].id # u BY <3>2 DEF InStep, Messages
      <4>2. Len(data) \in 1..Len(data) BY <1>1, <1>7, EmptySeq
      <4> QED BY <1>7, <4>1, <4>2
    <3> QED BY <2>2, <3>1, <3>2, NextPast
  <2> QED BY <2>1, <2>2 DEF Runs
<1> QED BY <1>3, <1>4, <1>5, <1>6, <1>7, NextData

-----------------------------------------------------------------------------
(* The file that is being received *)

\* The accept that the sender awaits comes before every chunk.
LEMMA NextInAccept ==
    ASSUME Shape, OffersOnce, InStep, [Next]_vars, sPC' = "accept"
    PROVE  /\ sent'[sending'] = 0 /\ stored'[sending'] = <<>>
           /\ \A c \in Messages(data') : c.id # sending'
<1>1. data \in Seq(Chunk) /\ stored \in [Transfer -> Seq(Transfer \X Nat)]
  BY DEF Shape, TypeOK
<1>2. CASE \E t \in Transfer : SendOffer(t)
  <2>1. PICK t \in Transfer : SendOffer(t) BY <1>2
  <2>2. sending' = t /\ UNCHANGED <<sent, stored, data>> /\ Unoffered(t)
    BY <2>1 DEF SendOffer, receiverVars, Unoffered
  <2> QED BY <2>2 DEF OffersOnce, Early
<1>3. CASE sPC = "accept" /\ sending' = sending /\ sent' = sent
  <2>1. /\ sent[sending] = 0 /\ stored[sending] = <<>>
        /\ \A c \in Messages(data) : c.id # sending
    BY <1>3 DEF InStep
  <2>2. stored'[sending] = stored[sending]
    <3>1. sending \in Transfer BY <1>3 DEF Shape, Places
    <3>2. CASE stored' = stored BY <3>2
    <3>3. CASE stored' # stored
      <4>1. data # <<>> /\ data[1].id = receiving BY <3>3, NextStored
      <4>2. data[1] \in Messages(data) BY <1>1, <4>1, Taken
      <4>3. receiving # sending BY <2>1, <4>1, <4>2
      <4> QED BY <1>1, <3>1, <3>3, <4>3, NextStored
    <3> QED BY <3>2, <3>3
  <2>3. Messages(data') \subseteq Messages(data)
    <3>1. ASSUME data # <<>>, data' = Tail(data) PROVE Messages(data') \subseteq Messages(data)
      BY <1>1, <3>1, Taken
    <3>2. ASSUME data' \in Prefixes(data) PROVE Messages(data') \subseteq Messages(data)
      BY <1>1, <3>2, Cut
    <3>3. ASSUME data' = <<>> PROVE Messages(data') \subseteq Messages(data)
      BY <3>3 DEF Messages
    <3>4. ~WriteChunk BY <1>3 DEF WriteChunk
    <3> QED BY <3>1, <3>2, <3>3, <3>4, NextData
  <2> QED BY <1>3, <2>1, <2>2, <2>3
<1>4. (\E t \in Transfer : SendOffer(t)) \/ (sPC = "accept" /\ sending' = sending /\ sent' = sent)
  BY DEF Next, WorldStep, SenderStep, ReceiverStep, vars, senderVars,
         ReceiveBegin, Cancel, Break, SenderHangsUp, ReceiverHangsUp, ExpectAccept, EndSend,
         SendFails, SendStart, ReadSource, WriteChunk, SendComplete, AcceptEOF, ReceiveOffer,
         SendAccept, ExpectStart, CheckWritten, ReadChunk, ExpectComplete, ReceiveEOF
<1> QED BY <1>2, <1>3, <1>4

\* What is being received goes on where it ended.
LEMMA NextInStep ==
    ASSUME Shape, OffersOnce, Pieces, Runs, InStep, [Next]_vars
    PROVE  InStep'
<1> SUFFICES ASSUME NEW t \in Transfer, Active(t)'
             PROVE  /\ \A i \in 1..Len(data') :
                          data'[i].id = t /\ (i = 1 \/ data'[i - 1].id # t) =>
                             From(data'[i]) = Len(stored'[t])
                    /\ Past(t)' /\ (\A c \in Messages(data') : c.id # t) =>
                          sent'[t] = Len(stored'[t])
  BY NextInAccept DEF InStep, Messages, From
<1>1. /\ data \in Seq(Chunk) /\ Len(data) \in Nat
      /\ stored \in [Transfer -> Seq(Transfer \X Nat)]
  BY LenProperties DEF Shape, TypeOK
<1>2. rPC' \notin {"idle", "offer"} /\ receiving' = t BY DEF Active
<1>3. CASE ReceiveOffer /\ Msg("OFFER", t) \in Messages(toReceiver)
  <2>1. UNCHANGED <<data, sent, stored>>
    BY <1>2, <1>3 DEF ReceiveOffer, ReceiveFails, senderVars
  <2>2. stored[t] = <<>> /\ sent[t] = 0 /\ \A c \in Messages(data) : c.id # t
    BY <1>3 DEF OffersOnce, Early
  <2>3. \A i \in 1..Len(data) : data[i].id # t BY <2>2 DEF Messages
  <2>4. Len(stored[t]) = 0 BY <2>2
  <2> QED BY <2>1, <2>2, <2>3, <2>4
<1>4. CASE Active(t) /\ stored' = stored
  <2>1. /\ \A i \in 1..Len(data) :
              data[i].id = t /\ (i = 1 \/ data[i - 1].id # t) => From(data[i]) = Len(stored[t])
        /\ Past(t) /\ (\A c \in Messages(data) : c.id # t) => sent[t] = Len(stored[t])
    BY <1>4 DEF InStep
  <2>2. rPC # "idle" /\ "receiver" \notin hung BY <1>4 DEF Active, Shape, Places
  <2>3. CASE data' = data
    <3>1. ASSUME Past(t)', \A c \in Messages(data) : c.id # t PROVE sent'[t] = Len(stored[t])
      <4>1. CASE Past(t)
        <5>1. ~(WriteChunk /\ sending = t)
          <6>1. ~WriteChunk
            BY <1>1, <2>2, <2>3, <3>1, Appended DEF WriteChunk, SendFails, EndSend, Past
          <6> QED BY <6>1
        <5>2. sent'[t] = sent[t] BY <5>1, NextSent
        <5> QED BY <2>1, <3>1, <4>1, <5>2
      <4>2. CASE ExpectAccept /\ sPC = "accept" /\ sending = t
        <5>1. sent[t] = 0 /\ stored[t] = <<>> BY <4>2 DEF InStep
        <5>2. ~WriteChunk BY <4>2 DEF WriteChunk
        <5>3. sent'[t] = sent[t] BY <5>2, NextSent
        <5>4. Len(stored[t]) = 0 BY <5>1
        <5> QED BY <5>1, <5>3, <5>4
      <4> QED BY <3>1, <4>1, <4>2, NextPast
    <3> QED BY <1>4, <2>1, <2>3, <3>1
  <2>4. CASE /\ WriteChunk
             /\ data' = Append(data, Piece(sending, sent[sending], next))
             /\ Piece(sending, sent[sending], next) \in Chunk
    <3> DEFINE p == Piece(sending, sent[sending], next)
               n == Len(data)
    <3>1. /\ Len(data') = n + 1 /\ data'[n + 1] = p
          /\ \A i \in 1..n : data'[i] = data[i]
          /\ Messages(data') = Messages(data) \cup {p}
      BY <1>1, <2>4, Appended
    <3>2. /\ sending \in Transfer /\ sent[sending] \in Nat /\ next \in Nat
          /\ next >= 1 /\ sent[sending] + next <= length[sending]
          /\ length[sending] \in Nat /\ Past(sending)
      BY <2>4, Constants DEF WriteChunk, Shape, TypeOK, Places, Past
    <3>3. p.id = sending /\ From(p) = sent[sending] BY <3>2, PieceOfFile
    <3> HIDE DEF p
    <3>4. ASSUME NEW i \in 1..n + 1, data'[i].id = t, i = 1 \/ data'[i - 1].id # t
          PROVE  From(data'[i]) = Len(stored[t])
      <4>1. CASE i \in 1..n
        <5>1. data'[i] = data[i] BY <3>1, <4>1
        <5>2. i = 1 \/ (i - 1 \in 1..n /\ data'[i - 1] = data[i - 1]) BY <1>1, <3>1, <4>1
        <5> QED BY <2>1, <3>4, <4>1, <5>1, <5>2
      <4>2. CASE i = n + 1
        <5>1. sending = t /\ data'[i] = p BY <3>1, <3>3, <3>4, <4>2
        <5>2. \A j \in 1..n : data[j].id # t
          <6>1. SUFFICES ASSUME NEW j \in 1..n, data[j].id = t PROVE FALSE OBVIOUS
          <6>2. n \in 1..n /\ (j = n \/ j < n) BY <1>1
          <6>3. data[n].id = t BY <3>2, <5>1, <6>1, <6>2 DEF Runs
          <6>4. n + 1 # 1 /\ n + 1 - 1 = n BY <1>1, <6>2
          <6>5. data'[n].id # t BY <3>4, <4>2, <6>4
          <6> QED BY <3>1, <6>2, <6>3, <6>5
        <5>3. \A c \in Messages(data) : c.id # t BY <5>2 DEF Messages
        <5> QED BY <2>1, <3>2, <3>3, <5>1, <5>3
      <4> QED BY <1>1, <4>1, <4>2
    <3>5. ASSUME Past(t)', \A c \in Messages(data') : c.id # t PROVE FALSE
      <4>1. sending = t BY <2>4, <3>5 DEF WriteChunk, SendFails, EndSend, Past
      <4> QED BY <3>1, <3>3, <3>5, <4>1
    <3> QED BY <1>4, <3>1, <3>4, <3>5
  <2>5. CASE SenderHangsUp /\ data' \in Prefixes(data)
    <3>1. /\ Len(data') \in Nat /\ Len(data') <= Len(data)
          /\ \A i \in 1..Len(data') : data'[i] = data[i]
      BY <1>1, <2>5, Cut
    <3>2. ASSUME NEW i \in 1..Len(data'), data'[i].id = t, i = 1 \/ data'[i - 1].id # t
          PROVE  From(data'[i]) = Len(stored[t])
      <4>1. i \in 1..Len(data) /\ data'[i] = data[i] BY <1>1, <3>1
      <4>2. i = 1 \/ (i - 1 \in 1..Len(data') /\ data'[i - 1] = data[i - 1]) BY <1>1, <3>1
      <4> QED BY <2>1, <3>2, <4>1, <4>2
    <3>3. ~Past(t)' BY <2>5 DEF SenderHangsUp, EndSend, Past
    <3> QED BY <1>4, <3>2, <3>3
  <2>6. ASSUME ReadChunk, data # <<>>, data' = Tail(data) PROVE Len(data[1].bytes) = 0
    <3>1. data[1].id = receiving /\ Head(data) = data[1] /\ Head(data) \in Messages(data)
      BY <1>1, <1>2, <2>6, Taken DEF ReadChunk, AcceptsChunk, ReceiveFails, EndReceive
    <3>2. stored' = [stored EXCEPT ![receiving] = @ \o data[1].bytes]
      BY <1>2, <2>6, <3>1 DEF ReadChunk, AcceptsChunk, EndReceive
    <3>3. receiving \in Transfer /\ stored[receiving] \in Seq(Transfer \X Nat)
      BY <1>1, <2>6 DEF ReadChunk, Shape, Places
    <3>4. data[1].bytes \in Seq(Transfer \X Nat)
      <4>1. data[1] \in Chunk BY <1>1, <2>6, Taken
      <4> QED BY <4>1 DEF Chunk
    <3>5. stored[receiving] = stored[receiving] \o data[1].bytes BY <1>1, <1>4, <3>2, <3>3
    <3>6. Len(stored[receiving]) = Len(stored[receiving]) + Len(data[1].bytes)
      BY <3>3, <3>4, <3>5, ConcatProperties
    <3>7. Len(stored[receiving]) \in Nat /\ Len(data[1].bytes) \in Nat
      BY <3>3, <3>4, LenProperties
    <3>8. \A m, n \in Nat : m = m + n => n = 0 OBVIOUS
    <3> QED BY <3>6, <3>7, <3>8
  <2>7. ~(ReadChunk /\ data # <<>> /\ data' = Tail(data))
    <3>1. SUFFICES ASSUME ReadChunk, data # <<>>, data' = Tail(data) PROVE FALSE OBVIOUS
    <3>2. data[1] \in Messages(data) BY <1>1, <3>1, Taken
    <3>3. Len(data[1].bytes) >= 1 BY <3>2 DEF Pieces
    <3>4. Len(data[1].bytes) = 0 BY <2>6, <3>1
    <3> QED BY <3>3, <3>4
  <2>8. ~(ReceiverHangsUp /\ data' = <<>>) BY <1>2 DEF ReceiverHangsUp, EndReceive
  <2> QED BY <2>3, <2>4, <2>5, <2>7, <2>8, NextData
<1>5. CASE Active(t) /\ stored' # stored
  <2>1. /\ \A i \in 1..Len(data) :
              data[i].id = t /\ (i = 1 \/ data[i - 1].id # t) => From(data[i]) = Len(stored[t])
        /\ receiving = t
    BY <1>5 DEF InStep, Active
  <2> DEFINE head == data[1]
  <2>2. ReadChunk /\ data # <<>> /\ head.id = t /\ stored' = [stored EXCEPT ![t] = @ \o head.bytes]
    BY <1>2, <1>5, <2>1, NextStored
  <2>3. data' = Tail(data) /\ UNCHANGED senderVars BY <2>2 DEF ReadChunk
  <2>4. /\ Len(data) >= 1 /\ Len(data') = Len(data) - 1 /\ head \in Chunk /\ head \in Messages(data)
        /\ \A i \in 1..Len(data') : data'[i] = data[i + 1]
    BY <1>1, <2>2, <2>3, Taken
  <2>5. Len(stored'[t]) = Len(stored[t]) + Len(head.bytes)
    <3>1. head.bytes \in Seq(Transfer \X Nat) BY <2>4 DEF Chunk
    <3>2. stored'[t] = stored[t] \o head.bytes BY <1>1, <2>2
    <3> QED BY <1>1, <3>1, <3>2, ConcatProperties
  <2>6. From(head) = Len(stored[t]) /\ To(head) = Len(stored'[t])
    <3>1. 1 \in 1..Len(data) BY <1>1, <2>4
    <3> QED BY <2>1, <2>2, <2>5, <3>1 DEF To
  <2>7. ASSUME NEW i \in 1..Len(data'), data'[i].id = t, i = 1 \/ data'[i - 1].id # t
        PROVE  From(data'[i]) = Len(stored'[t])
    <3>1. /\ i + 1 \in 1..Len(data) /\ 1 \in 1..Len(data) /\ 1 < i + 1 /\ i + 1 - 1 = i
          /\ data'[i] = data[i + 1]
      BY <1>1, <2>4
    <3>2. data[i].id = t /\ From(data[i + 1]) = To(data[i])
      BY <2>2, <2>7, <3>1 DEF Runs
    <3>3. i = 1
      <4>1. SUFFICES ASSUME i # 1 PROVE FALSE OBVIOUS
      <4>2. i - 1 \in 1..Len(data') /\ i - 1 + 1 = i BY <1>1, <2>4, <4>1
      <4>3. data'[i - 1] = data[i] BY <2>4, <4>2
      <4> QED BY <2>7, <3>2, <4>1, <4>3
    <3> QED BY <2>6, <3>1, <3>2, <3>3
  <2>8. ASSUME Past(t)', \A c \in Messages(data') : c.id # t PROVE sent'[t] = Len(stored'[t])
    <3>1. Past(t) /\ sent' = sent BY <2>3, <2>8 DEF Past, senderVars
    <3>2. Len(data) = 1
      <4>1. SUFFICES ASSUME Len(data) > 1 PROVE FALSE BY <1>1, <2>4
      <4>2. /\ Len(data') \in 1..Len(data') /\ 1 \in 1..Len(data)
            /\ Len(data') + 1 \in 1..Len(data) /\ 1 < Len(data') + 1
        BY <1>1, <2>4, <4>1
      <4>3. data[Len(data') + 1].id = t BY <2>2, <3>1, <4>2 DEF Runs
      <4>4. data'[Len(data')].id = t BY <2>4, <4>2, <4>3
      <4> QED BY <2>8, <4>2, <4>4 DEF Messages
    <3>3. To(head) = sent[t] BY <2>2, <3>1, <3>2 DEF Runs
    <3> QED BY <2>6, <3>1, <3>3
  <2> QED BY <2>7, <2>8
<1> QED BY <1>3, <1>4, <1>5, NextActive

\* What has been written stays the beginning of the file.
LEMMA NextBeginning ==
    ASSUME Shape, OffersOnce, Pieces, InStep, Beginning, [Next]_vars
    PROVE  Beginning'
<1> SUFFICES ASSUME NEW t \in Transfer
             PROVE  /\ Len(stored'[t]) <= length'[t]
                    /\ \A k \in 1..Len(stored'[t]) : stored'[t][k] = <<t, k>>
  BY DEF Beginning
<1>1. /\ data \in Seq(Chunk) /\ stored \in [Transfer -> Seq(Transfer \X Nat)]
      /\ Len(stored[t]) \in Nat /\ length[t] \in Nat
  BY LenProperties DEF Shape, TypeOK
<1>2. Len(stored[t]) <= length[t] /\ \A k \in 1..Len(stored[t]) : stored[t][k] = <<t, k>>
  BY DEF Beginning
<1>3. CASE SendOffer(t)
  <2>1. Unoffered(t) /\ stored' = stored BY <1>3 DEF SendOffer, Unoffered, receiverVars
  <2>2. stored[t] = <<>> BY <2>1 DEF OffersOnce, Early
  <2>3. length'[t] \in Nat BY NextSender DEF SenderShape
  <2>4. Len(stored'[t]) = 0 BY <2>1, <2>2
  <2> QED BY <2>3, <2>4
<1>4. CASE ~SendOffer(t) /\ stored'[t] = stored[t]
  BY <1>2, <1>4, NextLength
<1>5. CASE ~SendOffer(t) /\ stored'[t] # stored[t]
  <2> DEFINE head == data[1]
             old == stored[t]
  <2>1. ReadChunk /\ data # <<>> /\ head.id = receiving BY <1>5, NextStored
  <2>2. PICK bytes \in Prefixes(head.bytes) :
           stored' = [stored EXCEPT ![receiving] = @ \o bytes] /\ bytes \in Seq(Transfer \X Nat)
    BY <1>5, NextStored
  <2>3. receiving = t BY <1>1, <1>5, <2>2
  <2>4. stored'[t] = old \o bytes BY <1>1, <2>2, <2>3
  <2>5. head \in Chunk /\ head \in Messages(data) BY <1>1, <2>1, Taken
  <2>6. head.bytes \in Seq(Transfer \X Nat) BY <2>5 DEF Chunk
  <2>7. /\ Len(bytes) \in Nat /\ Len(bytes) <= Len(head.bytes) /\ Len(head.bytes) \in Nat
        /\ \A k \in 1..Len(bytes) : bytes[k] = head.bytes[k]
    BY <2>6, Cut
  <2>8. From(head) = Len(old)
    <3>1. Active(t) BY <2>1, <2>3 DEF ReadChunk, Active
    <3>2. 1 \in 1..Len(data) BY <1>1, <2>1, Taken
    <3> QED BY <2>1, <2>3, <3>1, <3>2 DEF InStep
  <2>9. /\ Len(old) + Len(head.bytes) <= length[t]
        /\ \A k \in 1..Len(head.bytes) : head.bytes[k] = <<t, Len(old) + k>>
    BY <2>1, <2>3, <2>5, <2>8 DEF Pieces, To
  <2>10. /\ Len(old \o bytes) = Len(old) + Len(bytes)
         /\ \A k \in 1..Len(old) + Len(bytes) :
               (old \o bytes)[k] = IF k <= Len(old) THEN old[k] ELSE bytes[k - Len(old)]
    BY <1>1, <2>2, ConcatProperties
  <2>11. ASSUME NEW k \in 1..Len(old) + Len(bytes) PROVE (old \o bytes)[k] = <<t, k>>
    <3>1. CASE k <= Len(old)
      <4>1. k \in 1..Len(old) BY <1>1, <3>1
      <4> QED BY <1>2, <2>10, <3>1, <4>1
    <3>2. CASE ~(k <= Len(old))
      <4>1. k - Len(old) \in 1..Len(bytes) /\ k - Len(old) \in 1..Len(head.bytes)
            /\ Len(old) + (k - Len(old)) = k
        BY <1>1, <2>7, <3>2
      <4>2. (old \o bytes)[k] = bytes[k - Len(old)] BY <2>10, <3>2
      <4> QED BY <2>7, <2>9, <4>1, <4>2
    <3> QED BY <3>1, <3>2
  <2>12. Len(old) + Len(bytes) <= length'[t]
    <3>1. length'[t] = length[t] BY <1>5, NextLength
    <3> QED BY <1>1, <2>7, <2>9, <3>1
  <2> QED BY <2>4, <2>10, <2>11, <2>12
<1> QED BY <1>3, <1>4, <1>5

\* A FILE_COMPLETE that was not under way is written by SendFile, to a receiver that
\* has not hung up.
LEMMA NewComplete ==
    ASSUME Shape, [Next]_vars, NEW t \in Transfer,
           Msg("COMPLETE", t) \in Messages(toReceiver'),
           Msg("COMPLETE", t) \notin Messages(toReceiver)
    PROVE  /\ SendComplete /\ sending = t /\ "receiver" \notin hung
           /\ toReceiver' = Append(toReceiver, Msg("COMPLETE", sending))
<1>1. toReceiver \in Seq(Control) BY DEF Shape, TypeOK
<1>2. ASSUME NEW m \in Control, toReceiver' = Append(toReceiver, m)
      PROVE  m = Msg("COMPLETE", t)
  BY <1>1, <1>2, Appended
<1>3. ASSUME NEW u \in Transfer
      PROVE  /\ Msg("OFFER", u) \in Control /\ Msg("OFFER", u) # Msg("COMPLETE", t)
             /\ Msg("START", u) \in Control /\ Msg("START", u) # Msg("COMPLETE", t)
             /\ Msg("COMPLETE", u) \in Control
             /\ Msg("COMPLETE", u) = Msg("COMPLETE", t) => u = t
  BY DEF Msg, Control, ControlType
<1>4. SendStart \/ SendComplete => sending \in Transfer
  BY DEF SendStart, SendComplete, Shape, Places
<1>5. ASSUME toReceiver # <<>>, toReceiver' = Tail(toReceiver) PROVE FALSE
  BY <1>1, <1>5, Taken
<1>6. ASSUME toReceiver' \in Prefixes(toReceiver) PROVE FALSE
  BY <1>1, <1>6, Cut
<1>7. ASSUME toReceiver' = <<>> PROVE FALSE
  BY <1>7 DEF Messages
<1>8. toReceiver' # toReceiver OBVIOUS
<1>9. SendComplete /\ toReceiver' = Append(toReceiver, Msg("COMPLETE", sending))
  BY <1>2, <1>3, <1>4, <1>5, <1>6, <1>7, <1>8, NextToReceiver
<1>10. "receiver" \notin hung BY <1>8, <1>9 DEF SendComplete, ControlToReceiver
<1> QED BY <1>2, <1>3, <1>4, <1>9, <1>10

\* ReceiveFile succeeds when it reads the FILE_COMPLETE of its transfer.
LEMMA NewOk ==
    ASSUME Shape, [Next]_vars, NEW t \in Transfer, rResult'[t] = "ok", rResult[t] # "ok"
    PROVE  /\ ExpectComplete /\ rPC = "complete" /\ receiving = t
           /\ Msg("COMPLETE", t) \in Messages(toReceiver)
<1>1. rResult \in [Transfer -> Result] /\ toReceiver \in Seq(Control) BY DEF Shape, TypeOK
<1>2. ASSUME EndReceive("error") PROVE FALSE
  BY <1>1, <1>2 DEF EndReceive
<1>3. rResult' # rResult OBVIOUS
<1>4. ExpectComplete
  BY <1>2, <1>3
     DEF Next, WorldStep, SenderStep, ReceiverStep, vars, receiverVars, SendOffer,
         ReceiveBegin, Cancel, Break, SenderHangsUp, ReceiverHangsUp, ExpectAccept,
         SendStart, ReadSource, WriteChunk, SendComplete, AcceptEOF, ReceiveOffer,
         ReceiveFails, SendAccept, ExpectStart, CheckWritten, ReadChunk, ReceiveEOF
<1>5. Head(toReceiver) = [type |-> "COMPLETE", id |-> receiving] /\ receiving = t
  BY <1>1, <1>2, <1>4 DEF ExpectComplete, EndReceive
<1>6. toReceiver # <<>> /\ rPC = "complete" BY <1>4 DEF ExpectComplete
<1>7. Head(toReceiver) \in Messages(toReceiver) BY <1>1, <1>6, Taken
<1> QED BY <1>4, <1>5, <1>6, <1>7 DEF Msg

\* FILE_COMPLETE is sent after the whole file.
LEMMA NextEnds ==
    ASSUME Shape, Ends, [Next]_vars
    PROVE  Ends'
<1> SUFFICES ASSUME NEW t \in Transfer,
                    Msg("COMPLETE", t) \in Messages(toReceiver') \/ rResult'[t] = "ok"
             PROVE  sent'[t] = length'[t] /\ ~Unoffered(t)'
  BY DEF Ends, Msg
<1>1. /\ toReceiver \in Seq(Control) /\ rResult \in [Transfer -> Result]
      /\ sResult \in [Transfer -> Result] /\ sent[t] \in Nat /\ length[t] \in Nat
  BY DEF Shape, TypeOK
<1>2. CASE Msg("COMPLETE", t) \in Messages(toReceiver) \/ rResult[t] = "ok"
  <2>1. sent[t] = length[t] /\ ~Unoffered(t) BY <1>2 DEF Ends
  <2>2. ~SendOffer(t) BY <2>1 DEF SendOffer, Unoffered
  <2>3. length'[t] = length[t] BY <2>2, NextLength
  <2>4. ~(WriteChunk /\ sending = t)
    BY <1>1, <2>1, Constants DEF WriteChunk, Shape, Places, TypeOK
  <2> QED BY <2>1, <2>3, <2>4, NextSent, NextUnoffered
<1>3. CASE SendComplete /\ toReceiver' = Append(toReceiver, Msg("COMPLETE", sending))
           /\ Msg("COMPLETE", t) \notin Messages(toReceiver) /\ rResult[t] # "ok"
  <2>1. sending \in Transfer /\ sent[sending] = length[sending] /\ sPC = "complete"
    BY <1>3 DEF SendComplete, Shape, Places
  <2>2. Msg("COMPLETE", sending) \in Control BY <2>1 DEF Msg, Control, ControlType
  <2>3. Messages(toReceiver') = Messages(toReceiver) \cup {Msg("COMPLETE", sending)}
    BY <1>1, <1>3, <2>2, Appended
  <2>4. rResult' = rResult BY <1>3 DEF SendComplete, receiverVars
  <2>5. Msg("COMPLETE", t) = Msg("COMPLETE", sending) BY <1>3, <2>3, <2>4
  <2>6. sending = t BY <2>5 DEF Msg
  <2>7. UNCHANGED <<sent, length>> /\ sResult'[t] # "none"
    BY <1>1, <1>3, <2>6 DEF SendComplete, SendFails, EndSend
  <2> QED BY <2>1, <2>6, <2>7 DEF Unoffered
<1>4. ASSUME Msg("COMPLETE", t) \in Messages(toReceiver'),
             Msg("COMPLETE", t) \notin Messages(toReceiver)
      PROVE  SendComplete /\ toReceiver' = Append(toReceiver, Msg("COMPLETE", sending))
  BY <1>4, NewComplete
<1>5. ASSUME rResult'[t] = "ok", rResult[t] # "ok" PROVE Msg("COMPLETE", t) \in Messages(toReceiver)
  BY <1>5, NewOk
<1> QED BY <1>2, <1>3, <1>4, <1>5

\* A receiver believes it after enough bytes only.
LEMMA NextEnough ==
    ASSUME Shape, Enough, [Next]_vars
    PROVE  Enough'
<1> SUFFICES ASSUME NEW t \in Transfer, rResult'[t] = "ok"
             PROVE  Len(stored'[t]) >= Size[t]
  BY DEF Enough
<1>1. /\ rResult \in [Transfer -> Result] /\ stored \in [Transfer -> Seq(Transfer \X Nat)]
      /\ Len(stored[t]) \in Nat /\ Size[t] \in Nat
  BY LenProperties, Constants DEF Shape, TypeOK
<1>2. Len(stored'[t]) \in Nat /\ Len(stored'[t]) >= Len(stored[t])
  <2>1. CASE stored'[t] = stored[t] BY <1>1, <2>1
  <2>2. CASE stored'[t] # stored[t]
    <3>1. PICK bytes \in Seq(Transfer \X Nat) : stored' = [stored EXCEPT ![receiving] = @ \o bytes]
      BY <2>2, NextStored
    <3>2. stored'[t] = stored[t] \o bytes BY <1>1, <2>2, <3>1
    <3>3. Len(stored[t] \o bytes) = Len(stored[t]) + Len(bytes) /\ Len(bytes) \in Nat
      BY <1>1, <3>1, ConcatProperties, LenProperties
    <3> QED BY <1>1, <3>2, <3>3
  <2> QED BY <2>1, <2>2
<1>3. CASE rResult[t] = "ok"
  <2>1. Len(stored[t]) >= Size[t] BY <1>3 DEF Enough
  <2> QED BY <1>1, <1>2, <2>1
<1>4. CASE rResult[t] # "ok"
  <2>1. ExpectComplete /\ receiving = t BY <1>4, NewOk
  <2>2. Len(stored[t]) >= Size[t] BY <2>1 DEF ExpectComplete, Shape, Places
  <2> QED BY <1>1, <1>2, <2>2
<1> QED BY <1>3, <1>4

-----------------------------------------------------------------------------
(* Both calls together, as long as nothing goes wrong *)

\* The streams of control messages are short then: one more message,
LEMMA OneMore ==
    ASSUME NEW a, NEW b, NEW c
    PROVE  /\ Append(<<>>, a) = <<a>>
           /\ Append(<<a>>, b) = <<a, b>>
           /\ Append(<<a, b>>, c) = <<a, b, c>>
<1>1. Append(<<>>, a) = <<a>> OBVIOUS
<1>2. Append(<<a>>, b) = <<a, b>>
  <2>1. /\ <<a>> \in Seq({a, b}) /\ Len(<<a>>) = 1 /\ <<a>>[1] = a
        /\ <<a, b>> \in Seq({a, b}) /\ Len(<<a, b>>) = 2 /\ <<a, b>>[1] = a /\ <<a, b>>[2] = b
    OBVIOUS
  <2> DEFINE p == <<a>>
  <2> HIDE DEF p
  <2>2. /\ Append(p, b) \in Seq({a, b}) /\ Len(Append(p, b)) = 2
        /\ Append(p, b)[1] = a /\ Append(p, b)[2] = b
    BY <2>1, AppendProperties DEF p
  <2>3. \A i \in 1..2 : i = 1 \/ i = 2 OBVIOUS
  <2> QED BY <2>1, <2>2, <2>3, SeqEqual DEF p
<1>3. Append(<<a, b>>, c) = <<a, b, c>>
  <2>1. /\ <<a, b>> \in Seq({a, b, c}) /\ Len(<<a, b>>) = 2 /\ <<a, b>>[1] = a /\ <<a, b>>[2] = b
        /\ <<a, b, c>> \in Seq({a, b, c}) /\ Len(<<a, b, c>>) = 3
        /\ <<a, b, c>>[1] = a /\ <<a, b, c>>[2] = b /\ <<a, b, c>>[3] = c
    OBVIOUS
  <2> DEFINE p == <<a, b>>
  <2> HIDE DEF p
  <2>2. /\ Append(p, c) \in Seq({a, b, c}) /\ Len(Append(p, c)) = 3
        /\ Append(p, c)[1] = a /\ Append(p, c)[2] = b /\ Append(p, c)[3] = c
    BY <2>1, AppendProperties DEF p
  <2>3. \A i \in 1..3 : i = 1 \/ i = 2 \/ i = 3 OBVIOUS
  <2> QED BY <2>1, <2>2, <2>3, SeqEqual DEF p
<1> QED BY <1>1, <1>2, <1>3

\* and one less.
LEMMA OneLess ==
    ASSUME NEW a, NEW b, NEW c
    PROVE  /\ Head(<<a>>) = a /\ Head(<<a, b>>) = a /\ Head(<<a, b, c>>) = a
           /\ Tail(<<a>>) = <<>> /\ Tail(<<a, b>>) = <<b>> /\ Tail(<<a, b, c>>) = <<b, c>>
<1>1. Head(<<a>>) = a /\ Head(<<a, b>>) = a /\ Head(<<a, b, c>>) = a OBVIOUS
<1>2. Tail(<<a>>) = <<>> OBVIOUS
<1>3. Tail(<<a, b>>) = <<b>> OBVIOUS
<1>4. Tail(<<a, b, c>>) = <<b, c>> OBVIOUS
<1> QED BY <1>1, <1>2, <1>3, <1>4

\* SendFile gives a result once, to the transfer under way.
LEMMA NextSendResult ==
    ASSUME Shape, [Next]_vars, NEW t \in Transfer
    PROVE  \/ sResult'[t] = sResult[t]
           \/ sPC # "idle" /\ sending = t /\ sPC' = "idle"
           \/ sResult[t] = "none" /\ sPC = "idle" /\ sPC' = "idle"
<1>1. sResult \in [Transfer -> Result] /\ (sPC # "idle" => sending \in Transfer)
  BY DEF Shape, TypeOK, Places
<1>2. ASSUME NEW u \in Transfer, SendOffer(u)
      PROVE  sResult'[t] = sResult[t] \/ (sResult[t] = "none" /\ sPC = "idle" /\ sPC' = "idle")
  BY <1>1, <1>2 DEF SendOffer
<1>3. ASSUME NEW r, EndSend(r), sPC # "idle"
      PROVE  sResult'[t] = sResult[t] \/ (sending = t /\ sPC' = "idle")
  BY <1>1, <1>3 DEF EndSend
<1>4. CASE SenderHangsUp BY <1>3, <1>4 DEF SenderHangsUp
<1>5. CASE SendFails /\ sPC # "idle" BY <1>3, <1>5 DEF SendFails
<1>6. CASE SendComplete BY <1>3, <1>6 DEF SendComplete, SendFails
<1>7. CASE sResult' = sResult BY <1>7
<1> QED BY <1>2, <1>4, <1>5, <1>6, <1>7
     DEF Next, WorldStep, SenderStep, ReceiverStep, vars, senderVars, ReceiveBegin, Cancel, Break,
         ReceiverHangsUp, ExpectAccept, SendStart, ReadSource, WriteChunk, AcceptEOF,
         ReceiveOffer, SendAccept, ExpectStart, CheckWritten, ReadChunk, ExpectComplete, ReceiveEOF

\* So does ReceiveFile.
LEMMA NextReceiveResult ==
    ASSUME Shape, [Next]_vars, NEW t \in Transfer
    PROVE  rResult'[t] = rResult[t] \/ (Active(t) /\ rPC' = "idle")
<1>1. /\ rResult \in [Transfer -> Result] /\ (rPC = "offer" => receiving = None)
      /\ None \notin Transfer
  BY Constants DEF Shape, TypeOK, Places, None
<1>2. ASSUME NEW r, EndReceive(r), rPC # "idle"
      PROVE  rResult'[t] = rResult[t] \/ (Active(t) /\ rPC' = "idle")
  BY <1>1, <1>2 DEF EndReceive, Active
<1>3. CASE ReceiverHangsUp BY <1>2, <1>3 DEF ReceiverHangsUp
<1>4. CASE ReceiveFails /\ rPC # "idle" BY <1>2, <1>4 DEF ReceiveFails
<1>5. CASE ReadChunk BY <1>2, <1>5 DEF ReadChunk, ReceiveFails
<1>6. CASE ExpectComplete BY <1>2, <1>6 DEF ExpectComplete
<1>7. CASE rResult' = rResult BY <1>7
<1> QED BY <1>3, <1>4, <1>5, <1>6, <1>7
     DEF Next, WorldStep, SenderStep, ReceiverStep, vars, receiverVars, SendOffer, ReceiveBegin,
         Cancel, Break, SenderHangsUp, ExpectAccept, SendStart, ReadSource, WriteChunk,
         SendComplete, AcceptEOF, ReceiveOffer, SendAccept, ExpectStart, CheckWritten, ReceiveEOF

\* Results are given once, at the end.
LEMMA NextRecorded ==
    ASSUME Shape, OffersOnce, Recorded, [Next]_vars
    PROVE  Recorded'
<1>1. ASSUME NEW t \in Transfer, Unoffered(t)' PROVE length'[t] = 0
  BY <1>1, NextUnoffered, NextLength DEF Recorded
<1>2. ASSUME NEW t \in Transfer, Early(t)' PROVE rResult'[t] = "none"
  <2>1. Early(t) BY <1>2, NextEarly
  <2>2. rResult[t] = "none" /\ ~Active(t) BY <2>1 DEF Recorded, OffersOnce, Active
  <2> QED BY <2>2, NextReceiveResult
<1>3. ASSUME sPC' # "idle" PROVE sResult'[sending'] = "none"
  <2>1. ASSUME NEW t \in Transfer, SendOffer(t) PROVE sResult'[sending'] = "none"
    BY <1>3, <2>1 DEF SendOffer
  <2>2. CASE sPC # "idle" /\ sending' = sending
    <3>1. sending \in Transfer BY <2>2 DEF Shape, Places
    <3> QED BY <1>3, <2>2, <3>1, NextSendResult DEF Recorded
  <2>3. \/ \E t \in Transfer : SendOffer(t)
        \/ sPC # "idle" /\ sending' = sending
    BY <1>3
       DEF Next, WorldStep, SenderStep, ReceiverStep, vars, senderVars, ReceiveBegin,
           Cancel, Break, SenderHangsUp, ReceiverHangsUp, ExpectAccept, SendFails, SendStart,
           ReadSource, WriteChunk, SendComplete, AcceptEOF, ReceiveOffer, SendAccept, ExpectStart,
           CheckWritten, ReadChunk, ExpectComplete, ReceiveEOF
  <2> QED BY <2>1, <2>2, <2>3
<1>4. ASSUME rPC' \notin {"idle", "offer"} PROVE rResult'[receiving'] = "none"
  <2>1. receiving' \in Transfer BY <1>4, NextShape DEF Shape, Places
  <2> SUFFICES ASSUME NEW t \in Transfer, t = receiving' PROVE rResult'[t] = "none" BY <2>1
  <2>2. rResult[t] = "none"
    <3>1. CASE Active(t) BY <3>1 DEF Active, Recorded
    <3>2. CASE Msg("OFFER", t) \in Messages(toReceiver) BY <2>1, <3>2 DEF Early, Recorded
    <3>3. Active(t)' BY <1>4 DEF Active
    <3> QED BY <3>1, <3>2, <3>3, NextActive
  <2>3. rResult'[t] = rResult[t] BY <1>4, NextReceiveResult
  <2> QED BY <2>2, <2>3
<1> QED BY <1>1, <1>2, <1>3, <1>4 DEF Recorded

\* What has gone wrong stays wrong.
LEMMA NextUntroubled ==
    ASSUME Shape, OffersOnce, Recorded, [Next]_vars, Untroubled'
    PROVE  Untroubled
<1>1. hung = {} BY NextHung DEF Untroubled
<1>2. ASSUME NEW t \in Transfer PROVE length[t] \in {0, Size[t]}
  <2>1. CASE SendOffer(t) BY <2>1 DEF SendOffer, Unoffered, Recorded
  <2>2. CASE ~SendOffer(t)
    <3>1. length'[t] = length[t] BY <2>2, NextLength
    <3> QED BY <3>1 DEF Untroubled
  <2> QED BY <2>1, <2>2
<1>3. ASSUME NEW t \in Transfer PROVE sResult[t] # "error"
  <2>1. sResult[t] = sResult'[t] \/ sResult[t] = "none" BY NextSendResult DEF Recorded
  <2> QED BY <2>1 DEF Untroubled
<1>4. ASSUME NEW t \in Transfer PROVE rResult[t] # "error"
  <2>1. rResult[t] = rResult'[t] \/ rResult[t] = "none"
    BY NextReceiveResult DEF Recorded, Active
  <2> QED BY <2>1 DEF Untroubled
<1> QED BY <1>1, <1>2, <1>3, <1>4 DEF Untroubled

\* When ReceiveFile has enough of a file that kept its size, it has read every chunk.
LEMMA AllRead ==
    ASSUME Shape, Pieces, InStep, Beginning, Untroubled,
           rPC = "complete", ChunksOf(receiving)
    PROVE  data = <<>>
<1> DEFINE t == receiving
<1>1. t \in Transfer /\ Active(t) /\ Len(stored[t]) >= Size[t] BY DEF Shape, Places, Active
<1>2. /\ data \in Seq(Chunk) /\ length[t] \in Nat /\ Len(stored[t]) \in Nat /\ Size[t] \in Nat
      /\ length[t] \in {0, Size[t]} /\ Len(stored[t]) <= length[t]
  BY <1>1, LenProperties, Constants DEF Shape, TypeOK, Untroubled, Beginning
<1>3. Len(stored[t]) = length[t] BY <1>1, <1>2
<1>4. SUFFICES ASSUME data # <<>> PROVE FALSE OBVIOUS
<1>5. /\ data[1] \in Messages(data) /\ data[1] \in Chunk /\ 1 \in 1..Len(data)
  BY <1>2, <1>4, Taken
<1>6. data[1].id = t BY <1>5 DEF ChunksOf
<1>7. From(data[1]) = length[t] BY <1>1, <1>3, <1>5, <1>6 DEF InStep
<1>8. Len(data[1].bytes) >= 1 /\ To(data[1]) <= length[t] BY <1>5, <1>6 DEF Pieces
<1>9. Len(data[1].bytes) \in Nat BY <1>5, LenProperties DEF Chunk
<1>10. To(data[1]) = length[t] + Len(data[1].bytes) BY <1>7 DEF To
<1> QED BY <1>2, <1>8, <1>9, <1>10

\* The two calls stay in step, and the streams hold what their places say.
LEMMA NextLockstep ==
    ASSUME Shape, OffersOnce, Pieces, InStep, Beginning, Recorded, Lockstep, [Next]_vars
    PROVE  Lockstep'
<1> SUFFICES ASSUME Untroubled'
             PROVE  Offering' \/ Answering' \/ Starting' \/ Moving' \/ Finishing'
  BY DEF Lockstep
<1>1. Untroubled BY NextUntroubled
<1>2. Offering \/ Answering \/ Starting \/ Moving \/ Finishing BY <1>1 DEF Lockstep
<1>3. hung = {} /\ ~SenderHangsUp /\ ~ReceiverHangsUp /\ ~AcceptEOF /\ ~ReceiveEOF
  BY <1>1 DEF Untroubled, SenderHangsUp, ReceiverHangsUp, AcceptEOF, ReceiveEOF
<1>4. sPC # "idle" => ~EndSend("error")
  <2>1. sPC # "idle" => sending \in Transfer BY DEF Shape, Places
  <2> QED BY <2>1 DEF EndSend, Shape, TypeOK, Untroubled
<1>5. rPC \notin {"idle", "offer"} => ~EndReceive("error")
  <2>1. rPC \notin {"idle", "offer"} => receiving \in Transfer /\ receiving # None
    BY Constants DEF Shape, Places, None
  <2> QED BY <2>1 DEF EndReceive, Shape, TypeOK, Untroubled
<1>6. ASSUME NEW t \in Transfer, SendOffer(t)
      PROVE  Offering' \/ Answering' \/ Starting' \/ Moving' \/ Finishing'
  <2>1. /\ sPC = "idle" /\ sPC' = "accept" /\ sending' = t
        /\ toReceiver' = Append(toReceiver, Msg("OFFER", t))
        /\ UNCHANGED <<toSender, data, rPC, receiving>>
    BY <1>3, <1>6 DEF SendOffer, ControlToReceiver, Msg, receiverVars
  <2>2. CASE Offering
    <3>1. toReceiver' = <<Msg("OFFER", t)>> BY <2>1, <2>2, OneMore DEF Offering
    <3> QED BY <2>1, <2>2, <3>1 DEF Offering, Msg
  <2>3. CASE Finishing
    <3>1. \/ /\ rPC = "start"
             /\ toReceiver' = <<Msg("START", receiving), Msg("COMPLETE", receiving), Msg("OFFER", t)>>
          \/ /\ rPC \in {"check", "chunk", "complete"}
             /\ toReceiver' = <<Msg("COMPLETE", receiving), Msg("OFFER", t)>>
      <4> DEFINE start == Msg("START", receiving)
                 complete == Msg("COMPLETE", receiving)
                 offer == Msg("OFFER", t)
      <4>1. \/ rPC = "start" /\ toReceiver = <<start, complete>>
            \/ rPC \in {"check", "chunk", "complete"} /\ toReceiver = <<complete>>
        BY <2>1, <2>3 DEF Finishing
      <4>2. toReceiver' = Append(toReceiver, offer) BY <2>1
      <4> HIDE DEF start, complete, offer
      <4>3. Append(<<start, complete>>, offer) = <<start, complete, offer>> BY OneMore
      <4>5. Append(<<complete>>, offer) = <<complete, offer>> BY OneMore
      <4>4. \/ rPC = "start" /\ toReceiver' = <<start, complete, offer>>
            \/ rPC \in {"check", "chunk", "complete"} /\ toReceiver' = <<complete, offer>>
        BY <4>1, <4>2, <4>3, <4>5
      <4> QED BY <4>4 DEF start, complete, offer
    <3> QED BY <2>1, <2>3, <3>1 DEF Finishing, ChunksOf, Messages, Msg
  <2> QED BY <1>2, <2>1, <2>2, <2>3 DEF Answering, Starting, Moving
<1>7. CASE ExpectAccept
  <2>1. /\ sPC = "accept" /\ sPC' = "start" /\ sending' = sending
        /\ toSender # <<>> /\ toSender' = Tail(toSender)
        /\ UNCHANGED <<toReceiver, data, rPC, receiving>>
    BY <1>4, <1>7 DEF ExpectAccept, SendFails, receiverVars
  <2>2. Answering /\ rPC = "start" /\ toSender = <<Msg("ACCEPT", sending)>>
    BY <1>2, <2>1 DEF Offering, Answering, Starting, Moving, Finishing
  <2>3. toSender' = <<>> BY <2>1, <2>2, OneLess
  <2> QED BY <2>1, <2>2, <2>3 DEF Answering, Starting
<1>8. CASE SendStart
  <2>1. /\ sPC = "start" /\ sPC' = "read" /\ sending' = sending
        /\ toReceiver' = Append(toReceiver, Msg("START", sending))
        /\ UNCHANGED <<toSender, data, rPC, receiving>>
    BY <1>3, <1>8 DEF SendStart, ControlToReceiver, Msg, receiverVars
  <2>2. Starting BY <1>2, <2>1 DEF Offering, Answering, Moving, Finishing
  <2>3. toReceiver' = <<Msg("START", sending)>> BY <2>1, <2>2, OneMore DEF Starting
  <2> QED BY <2>1, <2>2, <2>3 DEF Starting, Moving, ChunksOf, Messages, Msg
<1>9. CASE ReadSource
  <2>1. /\ sPC = "read" /\ sPC' \in {"write", "complete"} /\ sending' = sending
        /\ UNCHANGED <<toReceiver, toSender, data, rPC, receiving>>
    BY <1>4, <1>9 DEF ReadSource, SendFails, streamVars, receiverVars
  <2>2. Moving BY <1>2, <2>1 DEF Offering, Answering, Starting, Finishing
  <2> QED BY <2>1, <2>2 DEF Moving, ChunksOf, Messages, Msg
<1>10. CASE WriteChunk
  <2>1. /\ sPC = "write" /\ sPC' \in {"read", "complete"} /\ sending' = sending
        /\ UNCHANGED <<toReceiver, toSender, rPC, receiving>>
    BY <1>4, <1>10 DEF WriteChunk, SendFails, receiverVars
  <2>2. Moving BY <1>2, <2>1 DEF Offering, Answering, Starting, Finishing
  <2>3. data' = Append(data, Piece(sending, sent[sending], next))
    BY <1>3, <1>4, <1>10 DEF WriteChunk, SendFails, Piece
  <2>4. Piece(sending, sent[sending], next) \in Chunk /\ data \in Seq(Chunk)
    <3>1. /\ sending \in Transfer /\ length[sending] \in Nat /\ sent[sending] \in Nat
          /\ next \in Nat /\ next >= 1 /\ sent[sending] + next <= length[sending]
      BY <2>1, Constants DEF Shape, TypeOK, Places
    <3> QED BY <3>1, PieceOfFile DEF Shape, TypeOK
  <2>5. Messages(data') = Messages(data) \cup {Piece(sending, sent[sending], next)}
    BY <2>3, <2>4, Appended
  <2>6. \A c \in Messages(data') : c.id = sending BY <2>2, <2>5 DEF Moving, ChunksOf, Piece
  <2>7. ChunksOf(sending)' BY <2>1, <2>6 DEF ChunksOf, Messages
  <2> QED BY <2>1, <2>2, <2>7 DEF Moving, Msg
<1>11. CASE SendComplete
  <2>1. /\ sPC = "complete" /\ sPC' = "idle" /\ sending' = sending
        /\ toReceiver' = Append(toReceiver, Msg("COMPLETE", sending))
        /\ UNCHANGED <<toSender, data, rPC, receiving>>
    BY <1>3, <1>11 DEF SendComplete, ControlToReceiver, EndSend, Msg, receiverVars
  <2>2. Moving BY <1>2, <2>1 DEF Offering, Answering, Starting, Finishing
  <2>3. \/ /\ rPC = "start"
           /\ toReceiver' = <<Msg("START", receiving), Msg("COMPLETE", receiving)>>
        \/ /\ rPC \in {"check", "chunk", "complete"}
           /\ toReceiver' = <<Msg("COMPLETE", receiving)>>
    <3> DEFINE start == Msg("START", receiving)
               complete == Msg("COMPLETE", receiving)
    <3>1. \/ rPC = "start" /\ toReceiver = <<start>>
          \/ rPC \in {"check", "chunk", "complete"} /\ toReceiver = <<>>
      BY <2>2 DEF Moving
    <3>2. toReceiver' = Append(toReceiver, complete) BY <2>1, <2>2 DEF Moving
    <3> HIDE DEF start, complete
    <3>3. Append(<<start>>, complete) = <<start, complete>> BY OneMore
    <3>5. Append(<<>>, complete) = <<complete>> BY OneMore
    <3>4. \/ rPC = "start" /\ toReceiver' = <<start, complete>>
          \/ rPC \in {"check", "chunk", "complete"} /\ toReceiver' = <<complete>>
      BY <3>1, <3>2, <3>3, <3>5
    <3> QED BY <3>4 DEF start, complete
  <2> QED BY <2>1, <2>2, <2>3 DEF Moving, Finishing, ChunksOf, Messages, Msg
<1>12. CASE ReceiveBegin
  <2>1. /\ rPC = "idle" /\ rPC' = "offer"
        /\ UNCHANGED <<toReceiver, toSender, data, sPC, sending>>
    BY <1>12 DEF ReceiveBegin, streamVars, senderVars
  <2>2. Offering BY <1>2, <2>1 DEF Answering, Starting, Moving, Finishing
  <2> QED BY <2>1, <2>2 DEF Offering, Msg
<1>13. CASE ReceiveOffer
  <2>1. /\ rPC = "offer" /\ toReceiver # <<>> /\ toReceiver' = Tail(toReceiver)
        /\ UNCHANGED <<toSender, data, sPC, sending>>
    BY <1>13 DEF ReceiveOffer, senderVars
  <2>2. Offering BY <1>2, <2>1 DEF Answering, Starting, Moving, Finishing
  <2>3. sPC = "accept" /\ toReceiver = <<Msg("OFFER", sending)>> BY <2>1, <2>2 DEF Offering
  <2>4. Head(toReceiver) = Msg("OFFER", sending) /\ toReceiver' = <<>>
    BY <2>1, <2>3, OneLess
  <2>5. receiving' = sending /\ rPC' = "accept" BY <1>13, <2>4 DEF ReceiveOffer, Msg
  <2> QED BY <2>1, <2>2, <2>3, <2>4, <2>5 DEF Offering, Answering
<1>14. CASE SendAccept
  <2>1. /\ rPC = "accept" /\ rPC' = "start" /\ receiving' = receiving
        /\ toSender' = Append(toSender, Msg("ACCEPT", receiving))
        /\ UNCHANGED <<toReceiver, data, sPC, sending>>
    BY <1>3, <1>14 DEF SendAccept, ControlToSender, Msg, senderVars
  <2>2. Answering BY <1>2, <2>1 DEF Offering, Starting, Moving, Finishing
  <2>3. toSender' = <<Msg("ACCEPT", sending)>> BY <2>1, <2>2, OneMore DEF Answering
  <2> QED BY <2>1, <2>2, <2>3 DEF Answering, Msg
<1>15. CASE ExpectStart
  <2>1. /\ rPC = "start" /\ rPC' = "check" /\ receiving' = receiving
        /\ toReceiver # <<>> /\ toReceiver' = Tail(toReceiver)
        /\ UNCHANGED <<toSender, data, sPC, sending>>
    BY <1>5, <1>15 DEF ExpectStart, ReceiveFails, senderVars
  <2>2. CASE Moving
    <3>1. toReceiver' = <<>> BY <2>1, <2>2, OneLess DEF Moving
    <3> QED BY <2>1, <2>2, <3>1 DEF Moving, ChunksOf, Messages
  <2>3. CASE Finishing
    <3>1. \/ sPC = "idle" /\ toReceiver' = <<Msg("COMPLETE", receiving)>>
          \/ sPC = "accept" /\ toReceiver' = <<Msg("COMPLETE", receiving), Msg("OFFER", sending)>>
      <4> DEFINE start == Msg("START", receiving)
                 complete == Msg("COMPLETE", receiving)
                 offer == Msg("OFFER", sending)
      <4>1. \/ sPC = "idle" /\ toReceiver = <<start, complete>>
            \/ sPC = "accept" /\ toReceiver = <<start, complete, offer>>
        BY <2>1, <2>3 DEF Finishing
      <4> HIDE DEF start, complete, offer
      <4>2. /\ Tail(<<start, complete>>) = <<complete>>
            /\ Tail(<<start, complete, offer>>) = <<complete, offer>>
        BY OneLess
      <4>3. \/ sPC = "idle" /\ toReceiver' = <<complete>>
            \/ sPC = "accept" /\ toReceiver' = <<complete, offer>>
        BY <2>1, <4>1, <4>2
      <4> QED BY <4>3 DEF start, complete, offer
    <3> QED BY <2>1, <2>3, <3>1 DEF Finishing, ChunksOf, Messages, Msg
  <2> QED BY <1>2, <2>1, <2>2, <2>3 DEF Offering, Answering, Starting
<1>16. CASE CheckWritten
  <2>1. /\ rPC = "check" /\ rPC' \in {"chunk", "complete"} /\ receiving' = receiving
        /\ UNCHANGED <<toReceiver, toSender, data, sPC, sending>>
    BY <1>5, <1>16 DEF CheckWritten, ReceiveFails, streamVars, senderVars
  <2>2. CASE Moving BY <2>1, <2>2 DEF Moving, ChunksOf, Messages
  <2>3. CASE Finishing BY <2>1, <2>3 DEF Finishing, ChunksOf, Messages, Msg
  <2> QED BY <1>2, <2>1, <2>2, <2>3 DEF Offering, Answering, Starting
<1>17. CASE ReadChunk
  <2>1. /\ rPC = "chunk" /\ rPC' = "check" /\ receiving' = receiving
        /\ data # <<>> /\ data' = Tail(data)
        /\ UNCHANGED <<toReceiver, toSender, sPC, sending>>
    BY <1>5, <1>17 DEF ReadChunk, ReceiveFails, senderVars
  <2>2. Messages(data') \subseteq Messages(data) BY <2>1, Taken DEF Shape, TypeOK
  <2>3. \A t : ChunksOf(t) => \A c \in Messages(data') : c.id = t BY <2>2 DEF ChunksOf
  <2>4. CASE Moving
    <3>1. ChunksOf(sending)' BY <2>1, <2>3, <2>4 DEF Moving, ChunksOf, Messages
    <3> QED BY <2>1, <2>4, <3>1 DEF Moving
  <2>5. CASE Finishing
    <3>1. ChunksOf(receiving)' BY <2>1, <2>3, <2>5 DEF Finishing, ChunksOf, Messages
    <3> QED BY <2>1, <2>5, <3>1 DEF Finishing, Msg
  <2> QED BY <1>2, <2>1, <2>4, <2>5 DEF Offering, Answering, Starting
<1>18. CASE ExpectComplete
  <2>1. /\ rPC = "complete" /\ rPC' = "idle"
        /\ toReceiver # <<>> /\ toReceiver' = Tail(toReceiver)
        /\ UNCHANGED <<toSender, data, sPC, sending>>
    BY <1>18 DEF ExpectComplete, EndReceive, senderVars
  <2>2. Finishing BY <1>2, <2>1 DEF Offering, Answering, Starting, Moving
  <2>3. data = <<>> BY <1>1, <2>1, <2>2, AllRead DEF Finishing
  <2>4. \/ sPC = "idle" /\ toReceiver' = <<>>
        \/ sPC = "accept" /\ toReceiver' = <<Msg("OFFER", sending)>>
    <3> DEFINE complete == Msg("COMPLETE", receiving)
               offer == Msg("OFFER", sending)
    <3>1. \/ sPC = "idle" /\ toReceiver = <<complete>>
          \/ sPC = "accept" /\ toReceiver = <<complete, offer>>
      BY <2>1, <2>2 DEF Finishing
    <3> HIDE DEF complete, offer
    <3>2. Tail(<<complete>>) = <<>> /\ Tail(<<complete, offer>>) = <<offer>> BY OneLess
    <3>3. \/ sPC = "idle" /\ toReceiver' = <<>>
          \/ sPC = "accept" /\ toReceiver' = <<offer>>
      BY <2>1, <3>1, <3>2
    <3> QED BY <3>3 DEF offer
  <2> QED BY <2>1, <2>2, <2>3, <2>4 DEF Offering, Finishing, Msg
<1>19. CASE UNCHANGED <<streamVars, senderVars, receiverVars>>
  BY <1>2, <1>19
     DEF streamVars, senderVars, receiverVars, Offering, Answering, Starting, Moving, Finishing,
         ChunksOf, Messages, Msg
<1> QED
  BY <1>3, <1>6, <1>7, <1>8, <1>9, <1>10, <1>11, <1>12, <1>13, <1>14, <1>15, <1>16, <1>17,
     <1>18, <1>19
     DEF Next, WorldStep, SenderStep, ReceiverStep, vars, Cancel, Break

-----------------------------------------------------------------------------
(* The invariant *)

\* IInv holds in every state: everything named above, at once.
IInv ==
    /\ Shape /\ OffersOnce /\ Pieces /\ Runs /\ InStep
    /\ Beginning /\ Ends /\ Enough /\ Recorded /\ Lockstep

\* Nothing has been offered, sent or received.
LEMMA InitInv == Init => IInv
<1> SUFFICES ASSUME Init PROVE IInv OBVIOUS
<1>1. /\ toReceiver = <<>> /\ toSender = <<>> /\ data = <<>>
      /\ Len(toReceiver) = 0 /\ Len(data) = 0 /\ Messages(toReceiver) = {}
      /\ Messages(toSender) = {} /\ Messages(data) = {}
  BY DEF Init, Messages
<1>2. sPC = "idle" /\ rPC = "idle" /\ sending = None /\ receiving = None /\ hung = {}
  BY DEF Init
<1>3. \A t \in Transfer : length[t] = 0 /\ sent[t] = 0 BY DEF Init
<1>4. \A t \in Transfer : stored[t] = <<>> /\ Len(stored[t]) = 0 BY DEF Init
<1>5. \A t \in Transfer : rResult[t] = "none" BY DEF Init
<1>6. \A t \in Transfer : t # None BY Constants DEF None
<1>7. Shape
  <2>1. stored \in [Transfer -> Seq(Transfer \X Nat)] BY DEF Init
  <2>2. sent \in [Transfer -> Nat] /\ length \in [Transfer -> Nat] BY DEF Init
  <2>3. /\ toReceiver \in Seq(Control) /\ toSender \in Seq(Control) /\ data \in Seq(Chunk)
        /\ Len(data) <= Capacity
    BY <1>1, Constants
  <2>4. \A t \in Transfer : sent[t] \in 0..length[t]
    <3> SUFFICES ASSUME NEW t \in Transfer PROVE sent[t] \in 0..length[t] OBVIOUS
    <3>1. sent[t] = 0 /\ length[t] = 0 BY <1>3
    <3>2. 0 \in 0..0 OBVIOUS
    <3> QED BY <3>1, <3>2, Zenon
  <2>5. next \in 0..ChunkSize BY Constants DEF Init
  <2>6. sResult \in [Transfer -> Result] /\ rResult \in [Transfer -> Result] BY DEF Init, Result
  <2>7. TypeOK
    BY <1>2, <2>1, <2>2, <2>3, <2>4, <2>5, <2>6 DEF Init, TypeOK
  <2>8. Places BY <1>2 DEF Places
  <2> QED BY <2>2, <2>7, <2>8 DEF Shape
<1>8. OffersOnce
  <2>1. \A t \in Transfer : receiving # t BY <1>2, <1>6
  <2>2. \A t \in Transfer : ~Past(t) BY <1>2 DEF Past
  <2>3. \A i \in 1..Len(toReceiver) : FALSE BY <1>1
  <2> QED BY <1>1, <1>3, <1>4, <2>1, <2>2, <2>3 DEF OffersOnce
<1>9. Pieces /\ Runs /\ InStep
  BY <1>1, <1>2 DEF Pieces, Runs, InStep, Past, Active
<1>10. Beginning
  <2>1. \A t \in Transfer : Len(stored[t]) <= length[t]
    <3> SUFFICES ASSUME NEW t \in Transfer PROVE Len(stored[t]) <= length[t] OBVIOUS
    <3>1. Len(stored[t]) = 0 /\ length[t] = 0 BY <1>3, <1>4
    <3>2. 0 <= 0 OBVIOUS
    <3> QED BY <3>1, <3>2, Zenon
  <2>2. \A t \in Transfer : \A k \in 1..Len(stored[t]) : FALSE BY <1>4
  <2> QED BY <2>1, <2>2 DEF Beginning
<1>11. Ends /\ Enough BY <1>1, <1>5 DEF Ends, Enough
<1>12. Recorded BY <1>2, <1>3, <1>5 DEF Recorded
<1>13. Lockstep BY <1>1, <1>2 DEF Lockstep, Offering
<1> QED BY <1>7, <1>8, <1>9, <1>10, <1>11, <1>12, <1>13 DEF IInv

\* Every step keeps it.
LEMMA NextInv == IInv /\ [Next]_vars => IInv'
BY NextShape, NextOffersOnce, NextPieces, NextRuns, NextInStep, NextBeginning, NextEnds, NextEnough,
   NextRecorded, NextLockstep
   DEF IInv

\* It holds in every state.
THEOREM FilesInvariance == Spec => []IInv
BY InitInv, NextInv, PTL DEF Spec

\* Every state has the right types; no more bytes are sent than the file has.
THEOREM FilesTypes == Spec => []TypeOK
<1>1. IInv => TypeOK BY DEF IInv, Shape
<1> QED BY FilesInvariance, <1>1, PTL

\* The first n bytes of a file.
LEMMA FirstBytes ==
    ASSUME NEW t \in Transfer, length[t] \in Nat, NEW n \in 0..length[t]
    PROVE  /\ SubSeq(File(t), 1, n) \in Seq(Transfer \X Nat)
           /\ Len(SubSeq(File(t), 1, n)) = n
           /\ \A k \in 1..n : SubSeq(File(t), 1, n)[k] = <<t, k>>
<1>1. \A i \in 1..n : File(t)[i] = <<t, i>> /\ File(t)[i] \in Transfer \X Nat BY DEF File
<1>2. 1 \in Int /\ n \in Int OBVIOUS
<1>3. /\ SubSeq(File(t), 1, n) \in Seq(Transfer \X Nat)
      /\ Len(SubSeq(File(t), 1, n)) = IF 1 <= n THEN n - 1 + 1 ELSE 0
      /\ \A k \in 1..n - 1 + 1 : SubSeq(File(t), 1, n)[k] = File(t)[1 + k - 1]
  BY <1>1, <1>2, SubSeqProperties
<1>4. Len(SubSeq(File(t), 1, n)) = n BY <1>3
<1>5. ASSUME NEW k \in 1..n PROVE SubSeq(File(t), 1, n)[k] = <<t, k>>
  <2>1. SubSeq(File(t), 1, n)[k] = File(t)[k] BY <1>3
  <2> QED BY <1>1, <2>1
<1> QED BY <1>3, <1>4, <1>5

\* Whatever earlier transfers left in the streams, ReceiveFile writes the beginning of
\* the file it was offered.
THEOREM FilesInPlace == Spec => []StoredInPlace
<1>1. IInv => StoredInPlace
  <2> SUFFICES ASSUME IInv, NEW t \in Transfer
               PROVE  stored[t] = SubSeq(File(t), 1, Len(stored[t]))
    BY DEF StoredInPlace
  <2>1. stored[t] \in Seq(Transfer \X Nat) /\ Len(stored[t]) \in Nat /\ length[t] \in Nat
    BY LenProperties DEF IInv, Shape, TypeOK
  <2>2. Len(stored[t]) <= length[t] /\ \A k \in 1..Len(stored[t]) : stored[t][k] = <<t, k>>
    BY DEF IInv, Beginning
  <2>3. Len(stored[t]) \in 0..length[t] BY <2>1, <2>2
  <2>4. /\ SubSeq(File(t), 1, Len(stored[t])) \in Seq(Transfer \X Nat)
        /\ Len(SubSeq(File(t), 1, Len(stored[t]))) = Len(stored[t])
        /\ \A k \in 1..Len(stored[t]) : SubSeq(File(t), 1, Len(stored[t]))[k] = <<t, k>>
    BY <2>1, <2>3, FirstBytes
  <2> QED BY <2>1, <2>2, <2>4, SeqEqual
<1> QED BY FilesInvariance, <1>1, PTL

\* ReceiveFile succeeds only with the whole file, if that kept its size.
THEOREM FilesAreWhole == Spec => []ReceivedIsWhole
<1>1. IInv => ReceivedIsWhole
  <2> SUFFICES ASSUME IInv, NEW t \in Transfer, rResult[t] = "ok"
               PROVE  /\ sent[t] = length[t]
                      /\ Len(stored[t]) >= Size[t]
                      /\ length[t] = Size[t] => stored[t] = File(t)
    BY DEF ReceivedIsWhole
  <2>1. sent[t] = length[t] /\ Len(stored[t]) >= Size[t] BY DEF IInv, Ends, Enough
  <2>2. stored[t] \in Seq(Transfer \X Nat) /\ Len(stored[t]) \in Nat /\ length[t] \in Nat
    BY LenProperties DEF IInv, Shape, TypeOK
  <2>3. Len(stored[t]) <= length[t] /\ \A k \in 1..Len(stored[t]) : stored[t][k] = <<t, k>>
    BY DEF IInv, Beginning
  <2>4. ASSUME length[t] = Size[t] PROVE stored[t] = File(t)
    <3>1. Len(stored[t]) = length[t] BY <2>1, <2>2, <2>3, <2>4
    <3>2. stored[t] = [k \in 1..length[t] |-> stored[t][k]] BY <2>2, <3>1
    <3>3. stored[t] = [k \in 1..length[t] |-> <<t, k>>] BY <2>3, <3>1, <3>2
    <3> QED BY <3>3 DEF File
  <2> QED BY <2>1, <2>4
<1> QED BY FilesInvariance, <1>1, PTL

\* Transfers that went well leave nothing in the streams: with both calls back, the
\* only place in Lockstep is between two transfers.
THEOREM FilesLeaveNothing == Spec => []CleanBetweenFiles
<1>1. IInv => CleanBetweenFiles
  <2> SUFFICES ASSUME IInv, sPC = "idle", rPC = "idle", hung = {},
                      \A t \in Transfer : /\ length[t] \in {0, Size[t]}
                                          /\ sResult[t] = rResult[t] /\ sResult[t] # "error"
               PROVE  toReceiver = <<>> /\ toSender = <<>> /\ data = <<>>
    BY DEF CleanBetweenFiles
  <2>1. Untroubled BY DEF Untroubled
  <2>2. Offering BY <2>1 DEF IInv, Lockstep, Answering, Starting, Moving, Finishing
  <2> QED BY <2>2 DEF Offering
<1> QED BY FilesInvariance, <1>1, PTL

=============================================================================
