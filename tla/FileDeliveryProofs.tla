-------------------------- MODULE FileDeliveryProofs --------------------------
(***************************************************************************)
(* Files implements FileDelivery, and its two calls never wait for each    *)
(* other: both for any transfers, sizes, changes of the files, chunk sizes *)
(* and stream capacities.                                                  *)
(***************************************************************************)
EXTENDS FilesProofs

\* Nothing is written that was not sent.
WithinSent ==
    /\ \A t \in Transfer : Len(stored[t]) <= sent[t]
    /\ \A c \in Messages(data) : To(c) <= sent[c.id]

\* An answer to an offer comes from a receiver that has opened the transfer.
Accepted ==
    \A t \in Transfer :
        Past(t) \/ Msg("ACCEPT", t) \in Messages(toSender) => ReceiverResult(t) # "idle"

\* FILE_COMPLETE is sent, and believed, only when SendFile has succeeded.
Finished ==
    \A t \in Transfer :
        Msg("COMPLETE", t) \in Messages(toReceiver) \/ rResult[t] = "ok" => sResult[t] = "ok"

\* ReceiveFile reads a chunk only when it has not got enough.
Wanting == rPC = "chunk" => Len(stored[receiving]) < Size[receiving]

\* As long as nothing goes wrong, what FILE_COMPLETE leaves behind it reaches to the
\* end of what was sent: the last chunk under way, or else what has been written.
Reaching ==
    Untroubled =>
        \A t \in Transfer : Active(t) /\ Msg("COMPLETE", t) \in Messages(toReceiver) =>
            /\ data = <<>> => Len(stored[t]) = sent[t]
            /\ data # <<>> => To(data[Len(data)]) = sent[t]

DeliveryInv == IInv /\ WithinSent /\ Accepted /\ Finished /\ Wanting /\ Reaching

-----------------------------------------------------------------------------
(* What one step does to the results *)

\* What the invariant says of one transfer and of the calls.
LEMMA Results ==
    ASSUME Shape, NEW t \in Transfer
    PROVE  /\ sResult[t] \in {"none", "ok", "error"} /\ rResult[t] \in {"none", "ok", "error"}
           /\ SenderResult(t) = "idle" <=> Unoffered(t)
           /\ Active(t) => ReceiverResult(t) # "idle"
           /\ ReceiverResult(t) = "idle" <=> rResult[t] = "none" /\ ~Active(t)
<1>1. /\ sResult[t] \in Result /\ rResult[t] \in Result
      /\ rPC = "offer" => receiving = None
      /\ t # None
  BY Constants DEF Shape, TypeOK, Places, None
<1> QED BY <1>1 DEF Result, SenderResult, ReceiverResult, Unoffered, Active

\* SendFile ends with an error, at the latest when its streams are closed.
LEMMA SendError ==
    ASSUME IInv, sPC # "idle", EndSend("error"), UNCHANGED <<length, sending, sent>>
    PROVE  /\ sending \in Transfer /\ SenderResult(sending) = "open"
           /\ \A t \in Transfer :
                 SenderResult(t)' = IF t = sending THEN "error" ELSE SenderResult(t)
<1>1. sending \in Transfer /\ sResult \in [Transfer -> Result] /\ sResult[sending] = "none"
  BY DEF IInv, Shape, TypeOK, Places, Recorded
<1> QED BY <1>1 DEF EndSend, SenderResult

\* The same of ReceiveFile, which may have seen no offer yet.
LEMMA ReceiveEnd ==
    ASSUME IInv, rPC # "idle", NEW r \in {"ok", "error"}, EndReceive(r), UNCHANGED receiving
    PROVE  /\ receiving \in Transfer \cup {None}
           /\ receiving \in Transfer => ReceiverResult(receiving) = "open"
           /\ \A t \in Transfer :
                 ReceiverResult(t)' = IF t = receiving THEN r ELSE ReceiverResult(t)
<1>1. /\ receiving \in Transfer \cup {None} /\ rResult \in [Transfer -> Result]
      /\ rPC = "offer" => receiving = None
      /\ rPC # "offer" => rResult[receiving] = "none" /\ receiving \in Transfer
      /\ None \notin Transfer
  BY Constants DEF IInv, Shape, TypeOK, Places, Recorded, None
<1>2. CASE receiving = None
  <2>1. rResult' = rResult /\ rPC' = "idle" BY <1>2 DEF EndReceive
  <2> QED BY <1>1, <1>2, <2>1 DEF ReceiverResult
<1>3. CASE receiving # None
  <2>1. rResult' = [rResult EXCEPT ![receiving] = r] /\ rPC' = "idle" BY <1>3 DEF EndReceive
  <2> QED BY <1>1, <1>3, <2>1 DEF ReceiverResult
<1> QED BY <1>2, <1>3

\* A transfer once opened stays so.
LEMMA NextOpened ==
    ASSUME IInv, [Next]_vars, NEW t \in Transfer, ReceiverResult(t) # "idle"
    PROVE  ReceiverResult(t)' # "idle"
<1>1. ASSUME rPC # "idle", NEW r \in {"ok", "error"}, EndReceive(r), UNCHANGED receiving
      PROVE  ReceiverResult(t)' # "idle"
  BY <1>1, ReceiveEnd
<1>2. ASSUME rPC # "idle", rPC' # "idle", UNCHANGED <<receiving, rResult>>
      PROVE  ReceiverResult(t)' # "idle"
  BY <1>2 DEF ReceiverResult
<1>3. CASE ReceiveBegin BY <1>3 DEF ReceiveBegin, ReceiverResult
<1>4. CASE ReceiveOffer
  <2>1. rPC = "offer" /\ receiving = None /\ t # None
    BY <1>4, Constants DEF ReceiveOffer, IInv, Shape, Places, None
  <2>2. rResult[t] # "none" BY <2>1 DEF ReceiverResult
  <2>3. rResult' = rResult BY <1>4, <2>1 DEF ReceiveOffer, ReceiveFails, EndReceive
  <2> QED BY <2>2, <2>3 DEF ReceiverResult
<1>5. CASE ReceiverHangsUp
  <2>1. CASE rPC = "idle" BY <1>5, <2>1 DEF ReceiverHangsUp, ReceiverResult
  <2> QED BY <1>1, <1>5, <2>1 DEF ReceiverHangsUp
<1>6. CASE SendAccept BY <1>1, <1>2, <1>6 DEF SendAccept, ReceiveFails
<1>7. CASE ExpectStart BY <1>1, <1>2, <1>7 DEF ExpectStart, ReceiveFails
<1>8. CASE CheckWritten BY <1>1, <1>2, <1>8 DEF CheckWritten, ReceiveFails
<1>9. CASE ReadChunk BY <1>1, <1>2, <1>9 DEF ReadChunk, ReceiveFails
<1>10. CASE ExpectComplete
  <2>1. \E r \in {"ok", "error"} : EndReceive(r) BY <1>10 DEF ExpectComplete
  <2> QED BY <1>1, <1>10, <2>1 DEF ExpectComplete
<1>11. CASE ReceiveEOF BY <1>1, <1>11 DEF ReceiveEOF, ReceiveFails
<1>12. CASE UNCHANGED receiverVars BY <1>12 DEF receiverVars, ReceiverResult
<1> QED BY <1>3, <1>4, <1>5, <1>6, <1>7, <1>8, <1>9, <1>10, <1>11, <1>12
     DEF Next, WorldStep, SenderStep, ReceiverStep, vars, SendOffer, Cancel, Break,
         SenderHangsUp, ExpectAccept, SendStart, ReadSource, WriteChunk, SendComplete, AcceptEOF

-----------------------------------------------------------------------------
(* The invariant *)

\* The bytes written are those of chunks, and those were sent.
LEMMA NextWithinSent ==
    ASSUME IInv, WithinSent, [Next]_vars
    PROVE  WithinSent'
<1>1. /\ sent \in [Transfer -> Nat] /\ data \in Seq(Chunk) /\ next \in Nat
      /\ stored \in [Transfer -> Seq(Transfer \X Nat)]
  <2>1. TypeOK /\ sent \in [Transfer -> Nat] BY DEF IInv, Shape
  <2>2. next \in 0..ChunkSize BY <2>1 DEF TypeOK
  <2> QED BY <2>1, <2>2, Constants DEF TypeOK
<1>2. ASSUME NEW t \in Transfer PROVE sent'[t] \in Nat /\ sent'[t] >= sent[t]
  BY <1>1, NextSent DEF IInv
<1>3. ASSUME NEW c \in Messages(data') PROVE To(c) <= sent'[c.id]
  <2>1. CASE c \in Messages(data)
    <3>1. c.id \in Transfer /\ To(c) <= sent[c.id] /\ sent[c.id] \in Nat
      <4>1. c \in Chunk BY <1>1, <2>1 DEF Messages
      <4> QED BY <1>1, <2>1, <4>1 DEF Chunk, WithinSent
    <3>2. To(c) \in Int
      <4>1. From(c) \in Nat BY <2>1 DEF IInv, Pieces
      <4>2. Len(c.bytes) \in Nat BY <1>1, <2>1, LenProperties DEF Messages, Chunk
      <4> QED BY <4>1, <4>2 DEF To
    <3> QED BY <1>2, <3>1, <3>2
  <2>2. CASE c \notin Messages(data)
    <3>1. /\ WriteChunk /\ data' = Append(data, Piece(sending, sent[sending], next))
          /\ Piece(sending, sent[sending], next) \in Chunk
      <4>1. ASSUME data # <<>>, data' = Tail(data) PROVE FALSE
        BY <1>1, <1>3, <2>2, <4>1, Taken
      <4>2. ASSUME data' \in Prefixes(data) PROVE FALSE BY <1>1, <1>3, <2>2, <4>2, Cut
      <4>3. ASSUME data' = <<>> PROVE FALSE BY <1>3, <4>3 DEF Messages
      <4> QED BY <1>3, <2>2, <4>1, <4>2, <4>3, NextData DEF IInv
    <3>2. c = Piece(sending, sent[sending], next)
      BY <1>1, <1>3, <2>2, <3>1, Appended
    <3>3. /\ sending \in Transfer /\ sent[sending] \in Nat /\ length[sending] \in Nat
          /\ next >= 1 /\ sent[sending] + next <= length[sending]
      BY <1>1, <3>1 DEF WriteChunk, IInv, Shape, TypeOK, Places
    <3>4. /\ Piece(sending, sent[sending], next).id = sending
          /\ To(Piece(sending, sent[sending], next)) = sent[sending] + next
      <4> DEFINE a == sent[sending]
                 p == Piece(sending, a, next)
      <4>1. /\ sending \in Transfer /\ a \in Nat /\ length[sending] \in Nat
            /\ next \in Nat /\ next >= 1 /\ a + next <= length[sending]
        BY <1>1, <3>3
      <4> HIDE DEF a
      <4>2. p.id = sending /\ To(p) = a + next BY <4>1, PieceOfFile
      <4> QED BY <4>2 DEF a
    <3>5. sent'[sending] = sent[sending] + next
      <4>1. data' # data BY <1>3, <2>2
      <4> QED BY <1>1, <3>1, <3>3, <4>1 DEF WriteChunk
    <3>6. To(c) = sent'[c.id] BY <3>2, <3>4, <3>5
    <3>7. sent'[c.id] \in Nat BY <1>2, <3>2, <3>3, <3>4
    <3> QED BY <3>6, <3>7
  <2> QED BY <2>1, <2>2
<1>4. ASSUME NEW t \in Transfer PROVE Len(stored'[t]) <= sent'[t]
  <2>1. sent[t] \in Nat /\ Len(stored[t]) \in Nat /\ Len(stored[t]) <= sent[t]
    BY <1>1, LenProperties DEF WithinSent
  <2>2. CASE stored'[t] = stored[t] BY <1>2, <2>1, <2>2
  <2>3. CASE stored'[t] # stored[t]
    <3> DEFINE head == data[1]
    <3>1. ReadChunk /\ data # <<>> /\ head.id = receiving BY <2>3, NextStored DEF IInv
    <3>2. PICK bytes \in Prefixes(head.bytes) :
             stored' = [stored EXCEPT ![receiving] = @ \o bytes] /\ bytes \in Seq(Transfer \X Nat)
      BY <2>3, NextStored DEF IInv
    <3>3. receiving = t /\ stored'[t] = stored[t] \o bytes BY <1>1, <2>3, <3>2
    <3>4. head \in Chunk /\ head \in Messages(data) /\ 1 \in 1..Len(data) BY <1>1, <3>1, Taken
    <3>5. Len(bytes) \in Nat /\ Len(bytes) <= Len(head.bytes) /\ Len(head.bytes) \in Nat
      <4>1. head.bytes \in Seq(Transfer \X Nat) BY <3>4 DEF Chunk
      <4> QED BY <4>1, Cut
    <3>6. From(head) = Len(stored[t])
      <4>1. Active(t) BY <3>1, <3>3 DEF ReadChunk, Active
      <4> QED BY <3>1, <3>3, <3>4, <4>1 DEF IInv, InStep
    <3>7. Len(stored'[t]) = Len(stored[t]) + Len(bytes) BY <1>1, <3>2, <3>3, ConcatProperties
    <3>8. Len(stored[t]) + Len(head.bytes) <= sent[t]
      BY <3>1, <3>3, <3>4, <3>6 DEF WithinSent, To
    <3>9. sent'[t] \in Nat /\ sent'[t] >= sent[t] BY <1>2
    <3> DEFINE a == Len(stored[t])
               b == Len(bytes)
               h == Len(head.bytes)
               n == sent[t]
               m == sent'[t]
    <3>10. a \in Nat /\ b \in Nat /\ h \in Nat /\ n \in Nat /\ m \in Nat
      BY <2>1, <3>5, <3>9
    <3>11. b <= h /\ a + h <= n /\ n <= m BY <2>1, <3>5, <3>8, <3>9
    <3> HIDE DEF a, b, h, n, m
    <3>12. a + b <= m BY <3>10, <3>11
    <3> QED BY <3>7, <3>12 DEF a, b, m
  <2> QED BY <2>2, <2>3
<1> QED BY <1>3, <1>4 DEF WithinSent, Messages, To, From

\* Every answer comes from an opened transfer, and is read only afterwards.
LEMMA NextAccepted ==
    ASSUME IInv, Accepted, [Next]_vars
    PROVE  Accepted'
<1> SUFFICES ASSUME NEW t \in Transfer,
                    Past(t)' \/ Msg("ACCEPT", t) \in Messages(toSender'),
                    ReceiverResult(t) = "idle"
             PROVE  FALSE
  BY NextOpened DEF Accepted, Msg, Messages
<1>1. toSender \in Seq(Control) BY DEF IInv, Shape, TypeOK
<1>2. ~Past(t) /\ Msg("ACCEPT", t) \notin Messages(toSender) BY DEF Accepted
<1>3. CASE Past(t)'
  <2>1. ExpectAccept /\ sPC = "accept" /\ sending = t BY <1>2, <1>3, NextPast DEF IInv
  <2>2. toSender # <<>> /\ Head(toSender) = Msg("ACCEPT", t)
    BY <1>3, <2>1 DEF ExpectAccept, SendFails, EndSend, Past, Msg
  <2> QED BY <1>1, <1>2, <2>2, Taken
<1>4. CASE Msg("ACCEPT", t) \in Messages(toSender')
  <2>1. SendAccept /\ Msg("ACCEPT", t) = Msg("ACCEPT", receiving)
    BY <1>2, <1>4, NextToSender DEF IInv
  <2>2. receiving = t BY <2>1 DEF Msg
  <2>3. Active(t) BY <2>1, <2>2 DEF SendAccept, Active
  <2> QED BY <2>3, Results DEF IInv
<1> QED BY <1>3, <1>4

\* SendFile succeeds in the step that sends FILE_COMPLETE, for good.
LEMMA NextFinished ==
    ASSUME IInv, Finished, [Next]_vars
    PROVE  Finished'
<1> SUFFICES ASSUME NEW t \in Transfer,
                    Msg("COMPLETE", t) \in Messages(toReceiver') \/ rResult'[t] = "ok"
             PROVE  sResult'[t] = "ok"
  BY DEF Finished, Msg, Messages
<1>1. ASSUME sResult[t] = "ok" PROVE sResult'[t] = "ok"
  BY <1>1, NextSendResult DEF IInv, Recorded
<1>2. CASE Msg("COMPLETE", t) \in Messages(toReceiver) \/ rResult[t] = "ok"
  BY <1>1, <1>2 DEF Finished
<1>3. CASE /\ Msg("COMPLETE", t) \notin Messages(toReceiver)
           /\ Msg("COMPLETE", t) \in Messages(toReceiver')
  <2>1. SendComplete /\ sending = t /\ "receiver" \notin hung BY <1>3, NewComplete DEF IInv
  <2> QED BY <2>1 DEF SendComplete, EndSend, IInv, Shape, TypeOK
<1>4. CASE rResult[t] # "ok" /\ rResult'[t] = "ok"
  BY <1>2, <1>4, NewOk DEF IInv
<1> QED BY <1>2, <1>3, <1>4

\* CheckWritten goes on to a chunk only when one is missing.
LEMMA NextWanting ==
    ASSUME Wanting, [Next]_vars
    PROVE  Wanting'
<1> SUFFICES ASSUME rPC' = "chunk" PROVE Len(stored'[receiving']) < Size[receiving']
  BY DEF Wanting
<1>1. CASE CheckWritten
  BY <1>1 DEF CheckWritten, ReceiveFails, EndReceive
<1>2. CASE UNCHANGED receiverVars BY <1>2 DEF receiverVars, Wanting
<1> QED BY <1>1, <1>2
     DEF Next, WorldStep, SenderStep, ReceiverStep, vars, SendOffer, Cancel, Break, ReceiveBegin,
         SenderHangsUp, ExpectAccept, SendStart, ReadSource, WriteChunk, SendComplete, AcceptEOF,
         ReceiverHangsUp, ReceiveOffer, SendAccept, ExpectStart, ReadChunk, ExpectComplete,
         ReceiveEOF, ReceiveFails, EndReceive

\* While FILE_COMPLETE is under way to a receiver at work, SendFile has nothing to write.
LEMMA Completing ==
    ASSUME IInv, Untroubled, NEW t \in Transfer, Active(t),
           Msg("COMPLETE", t) \in Messages(toReceiver)
    PROVE  Finishing /\ sPC \in {"idle", "accept"}
<1>1. Offering \/ Answering \/ Starting \/ Moving \/ Finishing BY DEF IInv, Lockstep
<1>2. ~Offering BY DEF Offering, Active
<1>3. ~Answering /\ ~Starting
  BY DEF Answering, Starting, Messages
<1>4. ~Moving
  <2> SUFFICES ASSUME Moving PROVE FALSE OBVIOUS
  <2>1. toReceiver = <<>> \/ toReceiver = <<Msg("START", sending)>> BY DEF Moving
  <2>2. ASSUME NEW m \in Messages(toReceiver) PROVE m = Msg("START", sending)
    BY <2>1, <2>2 DEF Messages
  <2>3. Msg("COMPLETE", t) # Msg("START", sending) BY DEF Msg
  <2> QED BY <2>2, <2>3
<1> QED BY <1>1, <1>2, <1>3, <1>4 DEF Finishing

\* The chunks under way reach to the end until they are written.
LEMMA NextReaching ==
    ASSUME IInv, Reaching, [Next]_vars
    PROVE  Reaching'
<1> SUFFICES ASSUME Untroubled', NEW t \in Transfer, Active(t)',
                    Msg("COMPLETE", t) \in Messages(toReceiver')
             PROVE  /\ data' = <<>> => Len(stored'[t]) = sent'[t]
                    /\ data' # <<>> => To(data'[Len(data')]) = sent'[t]
  BY DEF Reaching, Msg, Messages, To, From
<1>1. Untroubled BY NextUntroubled DEF IInv
<1>2. /\ data \in Seq(Chunk) /\ stored \in [Transfer -> Seq(Transfer \X Nat)]
      /\ sent \in [Transfer -> Nat]
  BY DEF IInv, Shape, TypeOK
<1>3. CASE Msg("COMPLETE", t) \notin Messages(toReceiver)
  <2>1. SendComplete /\ sending = t BY <1>3, NewComplete DEF IInv
  <2>2. UNCHANGED <<data, stored, sent, rPC, receiving>> /\ sPC = "complete"
    BY <2>1 DEF SendComplete, SendFails, receiverVars
  <2>3. Moving
    BY <1>1, <2>2 DEF IInv, Lockstep, Offering, Answering, Starting, Finishing
  <2>4. Active(t) /\ Past(t) /\ \A c \in Messages(data) : c.id = t
    BY <2>1, <2>2, <2>3 DEF Active, Past, Moving, ChunksOf
  <2>5. CASE data = <<>>
    <3>1. \A c \in Messages(data) : c.id # t BY <2>5 DEF Messages
    <3>2. sent[t] = Len(stored[t]) BY <2>4, <3>1 DEF IInv, InStep
    <3> QED BY <2>2, <2>5, <3>2
  <2>6. CASE data # <<>>
    <3>1. Len(data) \in 1..Len(data) BY <1>2, <2>6, Taken
    <3>2. data[Len(data)].id = t BY <2>4, <3>1 DEF Messages
    <3>3. To(data[Len(data)]) = sent[t] BY <2>4, <2>6, <3>2 DEF IInv, Runs
    <3> QED BY <2>2, <2>6, <3>3
  <2> QED BY <2>5, <2>6
<1>4. CASE Msg("COMPLETE", t) \in Messages(toReceiver)
  <2>1. Active(t)
    <3> SUFFICES ASSUME ReceiveOffer PROVE FALSE BY NextActive DEF IInv
    <3>1. Offering
      BY <1>1 DEF ReceiveOffer, IInv, Lockstep, Answering, Starting, Moving, Finishing
    <3>2. ASSUME NEW m \in Messages(toReceiver) PROVE m = Msg("OFFER", sending)
      BY <3>1, <3>2 DEF Offering, Messages
    <3>3. Msg("COMPLETE", t) # Msg("OFFER", sending) BY DEF Msg
    <3> QED BY <1>4, <3>2, <3>3
  <2>2. Finishing /\ sPC \in {"idle", "accept"} BY <1>1, <1>4, <2>1, Completing
  <2>3. sent'[t] = sent[t] BY <2>2, NextSent DEF IInv, WriteChunk
  <2>4. /\ data = <<>> => Len(stored[t]) = sent[t]
        /\ data # <<>> => To(data[Len(data)]) = sent[t]
    BY <1>1, <1>4, <2>1 DEF Reaching
  <2>5. CASE ReadChunk
    <3> DEFINE head == data[1]
    <3>1. /\ data # <<>> /\ data' = Tail(data) /\ Head(data) = head /\ head \in Chunk
          /\ head \in Messages(data) /\ 1 \in 1..Len(data)
      BY <1>2, <2>5, Taken DEF ReadChunk
    <3>2. receiving = t /\ head.id = t BY <2>1, <2>2, <3>1 DEF Finishing, ChunksOf, Active
    <3>3. From(head) = Len(stored[t]) BY <2>1, <3>1, <3>2 DEF IInv, InStep
    <3>4. rPC' # "idle" BY DEF Active
    <3>5. stored'[t] = stored[t] \o head.bytes
      BY <1>2, <2>5, <3>1, <3>2, <3>4 DEF ReadChunk, AcceptsChunk, EndReceive
    <3>6. Len(stored'[t]) = To(head)
      <4>1. head.bytes \in Seq(Transfer \X Nat) BY <3>1 DEF Chunk
      <4> QED BY <1>2, <3>3, <3>5, <4>1, ConcatProperties DEF To
    <3>7. /\ Len(data) \in Nat /\ Len(data') = Len(data) - 1 /\ data' \in Seq(Chunk)
          /\ \A i \in 1..Len(data') : data'[i] = data[i + 1]
      BY <1>2, <3>1, Taken
    <3>8. CASE data' = <<>>
      <4>1. Len(data') = 0 BY <3>8
      <4>2. Len(data) = 1 BY <3>7, <4>1
      <4> QED BY <2>3, <2>4, <3>1, <3>6, <3>8, <4>2
    <3>9. CASE data' # <<>>
      <4>1. Len(data') \in 1..Len(data') BY <3>7, <3>9, Taken
      <4>2. data'[Len(data')] = data[Len(data)] BY <3>7, <4>1
      <4> QED BY <2>3, <2>4, <3>1, <3>9, <4>2
    <3> QED BY <3>8, <3>9
  <2>6. CASE ~ReadChunk
    <3>1. stored' = stored BY <2>6, NextStored DEF IInv
    <3>2. data' = data
      BY <2>2, <2>6, NextData, <1>1, NextHung
         DEF IInv, WriteChunk, Untroubled, SenderHangsUp, ReceiverHangsUp
    <3> QED BY <2>3, <2>4, <3>1, <3>2
  <2> QED BY <2>5, <2>6
<1> QED BY <1>3, <1>4

\* DeliveryInv holds at the start and is kept.
THEOREM DeliveryInvariance == Spec => []DeliveryInv
<1>1. Init => DeliveryInv
  <2> SUFFICES ASSUME Init PROVE DeliveryInv OBVIOUS
  <2>1. IInv BY InitInv
  <2>2. Messages(data) = {} /\ Messages(toSender) = {} /\ Messages(toReceiver) = {}
    BY DEF Init, Messages
  <2>3. WithinSent
    <3> SUFFICES ASSUME NEW t \in Transfer PROVE Len(stored[t]) <= sent[t]
      BY <2>2 DEF WithinSent
    <3>1. Len(stored[t]) = 0 /\ sent[t] = 0 BY DEF Init
    <3>2. 0 <= 0 OBVIOUS
    <3> QED BY <3>1, <3>2, Zenon
  <2>4. Accepted BY <2>2 DEF Accepted, Past, Init
  <2>5. Finished BY <2>2 DEF Finished, Init
  <2>6. Wanting /\ Reaching BY <2>2 DEF Wanting, Reaching, Init
  <2> QED BY <2>1, <2>3, <2>4, <2>5, <2>6 DEF DeliveryInv
<1>2. DeliveryInv /\ [Next]_vars => DeliveryInv'
  <2> SUFFICES ASSUME DeliveryInv, [Next]_vars PROVE DeliveryInv' OBVIOUS
  <2>1. IInv /\ WithinSent /\ Accepted /\ Finished /\ Wanting /\ Reaching BY DEF DeliveryInv
  <2>2. IInv' BY <2>1, NextInv
  <2>3. /\ WithinSent' /\ Accepted' /\ Finished' /\ Wanting' /\ Reaching'
    BY <2>1, NextWithinSent, NextAccepted, NextFinished, NextWanting, NextReaching
  <2> QED BY <2>2, <2>3 DEF DeliveryInv
<1> QED BY <1>1, <1>2, PTL DEF Spec

-----------------------------------------------------------------------------
(* The calls never wait for each other *)

\* Lockstep leaves one place where both could wait: the last chunks have been read and
\* ReceiveFile has not got enough.  Reaching excludes it, since then it has all of the
\* file, which kept its size.
THEOREM FilesNeverBothWait == Spec => []NeverBothWait
<1>1. DeliveryInv => NeverBothWait
  <2> SUFFICES ASSUME DeliveryInv, Undisturbed, SenderWaits, ReceiverWaits PROVE FALSE
    BY DEF NeverBothWait
  <2>1. IInv /\ Shape /\ data \in Seq(Chunk) /\ Len(data) \in Nat
    BY LenProperties DEF DeliveryInv, IInv, Shape, TypeOK
  <2>2. Untroubled
    <3>1. ASSUME NEW t \in Transfer PROVE length[t] \in {0, Size[t]}
      BY <2>1, Results DEF Undisturbed, IInv, Recorded
    <3> QED BY <3>1 DEF Undisturbed, Untroubled
  <2>3. data # <<>> => rPC \in {"offer", "start", "complete"} /\ toReceiver = <<>>
    BY DEF ReceiverWaits
  <2>4. CASE Offering BY <2>4 DEF Offering, SenderWaits, ReceiverWaits
  <2>5. CASE Answering BY <2>5 DEF Answering, SenderWaits, ReceiverWaits
  <2>6. CASE Starting BY <2>6 DEF Starting, SenderWaits
  <2>7. CASE Moving
    <3>1. sPC = "write" /\ Len(data) = Capacity BY <2>7 DEF Moving, SenderWaits
    <3>2. data # <<>> BY <3>1, Constants
    <3>3. rPC = "complete" BY <2>3, <2>7, <3>2 DEF Moving
    <3>4. ChunksOf(receiving) BY <2>7 DEF Moving
    <3> QED BY <2>1, <2>2, <3>2, <3>3, <3>4, AllRead DEF IInv
  <2>8. CASE Finishing
    <3> DEFINE t == receiving
    <3>1. rPC = "chunk" /\ data = <<>> BY <2>8 DEF Finishing, ReceiverWaits
    <3>2. t \in Transfer /\ Active(t) BY <2>1, <3>1 DEF Shape, Places, Active
    <3>3. Msg("COMPLETE", t) \in Messages(toReceiver)
      <4>1. \/ toReceiver = <<Msg("COMPLETE", t)>>
            \/ toReceiver = <<Msg("COMPLETE", t), Msg("OFFER", sending)>>
        BY <2>8, <3>1 DEF Finishing
      <4>2. toReceiver[1] = Msg("COMPLETE", t) /\ 1 \in 1..Len(toReceiver) BY <4>1
      <4> QED BY <4>2 DEF Messages
    <3>4. Len(stored[t]) = sent[t] BY <2>2, <3>1, <3>2, <3>3 DEF DeliveryInv, Reaching
    <3>5. sent[t] = length[t] /\ ~Unoffered(t) BY <2>1, <3>2, <3>3 DEF IInv, Ends
    <3>6. length[t] = Size[t] BY <2>1, <3>2, <3>5, Results DEF Undisturbed
    <3>7. Len(stored[t]) < Size[t] /\ Size[t] \in Nat
      BY <3>1, <3>2, Constants DEF DeliveryInv, Wanting
    <3> QED BY <3>4, <3>5, <3>6, <3>7
  <2> QED BY <2>1, <2>2, <2>4, <2>5, <2>6, <2>7, <2>8 DEF IInv, Lockstep
<1> QED BY DeliveryInvariance, <1>1, PTL

-----------------------------------------------------------------------------
(* Files implements FileDelivery *)

\* The variables of FileDelivery that the state of the two calls determines.
Written == [t \in Transfer |-> Len(stored[t])]
Senders == [t \in Transfer |-> SenderResult(t)]
Receivers == [t \in Transfer |-> ReceiverResult(t)]
Same == UNCHANGED <<length, sent, Written, Senders, Receivers>>

\* What one side does changes nothing on the other.
LEMMA OtherSide ==
    /\ UNCHANGED senderVars => UNCHANGED <<length, sent, Senders>>
    /\ UNCHANGED receiverVars => UNCHANGED <<Written, Receivers>>
BY DEF senderVars, receiverVars, Written, Senders, Receivers, SenderResult, ReceiverResult

\* A call that goes on has no result.
LEMMA GoesOn ==
    /\ sPC # "idle" /\ sPC' # "idle" /\ UNCHANGED <<sending, sResult>> => UNCHANGED Senders
    /\ rPC # "idle" /\ rPC' # "idle" /\ UNCHANGED <<receiving, rResult>> => UNCHANGED Receivers
BY DEF Senders, Receivers, SenderResult, ReceiverResult

\* A SendFile that fails ends its transfer.
LEMMA SenderEnds ==
    ASSUME IInv, sPC # "idle", EndSend("error"), UNCHANGED <<length, sending, sent>>,
           UNCHANGED <<Written, Receivers>>
    PROVE  Delivery!Next
<1>1. /\ sending \in Transfer /\ SenderResult(sending) = "open"
      /\ \A t \in Transfer :
            SenderResult(t)' = IF t = sending THEN "error" ELSE SenderResult(t)
  BY SendError
<1>2. Senders' = [Senders EXCEPT ![sending] = "error"] /\ Senders[sending] = "open"
  BY <1>1 DEF Senders
<1>3. Delivery!SendEnds(sending)
  BY <1>2 DEF Delivery!SendEnds, Senders, Receivers, Written
<1> QED BY <1>1, <1>3 DEF Delivery!Next

\* So does a ReceiveFile that fails, if it has seen an offer.
LEMMA ReceiverEnds ==
    ASSUME IInv, rPC # "idle", EndReceive("error"), UNCHANGED <<receiving, stored>>,
           UNCHANGED <<length, sent, Senders>>
    PROVE  Delivery!Next \/ Same
<1>1. /\ receiving \in Transfer \cup {None}
      /\ receiving \in Transfer => ReceiverResult(receiving) = "open"
      /\ \A t \in Transfer :
            ReceiverResult(t)' = IF t = receiving THEN "error" ELSE ReceiverResult(t)
  BY ReceiveEnd
<1>2. UNCHANGED Written BY DEF Written
<1>3. CASE receiving \in Transfer
  <2>1. Receivers' = [Receivers EXCEPT ![receiving] = "error"] /\ Receivers[receiving] = "open"
    BY <1>1, <1>3 DEF Receivers
  <2>2. Delivery!ReceiveEnds(receiving)
    BY <1>2, <2>1 DEF Delivery!ReceiveEnds, Senders, Receivers, Written
  <2> QED BY <1>3, <2>2 DEF Delivery!Next
<1>4. CASE receiving = None
  <2>1. \A t \in Transfer : t # receiving BY <1>4, Constants DEF None
  <2>2. UNCHANGED Receivers BY <1>1, <2>1 DEF Receivers
  <2> QED BY <1>2, <2>2 DEF Same
<1> QED BY <1>1, <1>3, <1>4

\* SendFile's steps.
LEMMA SenderSteps ==
    ASSUME DeliveryInv,
           \/ \E t \in Transfer : SendOffer(t)
           \/ SenderStep \/ SenderHangsUp
    PROVE  Delivery!Next \/ Same
<1>1. /\ IInv /\ Shape /\ Accepted
      /\ length \in [Transfer -> Nat] /\ sent \in [Transfer -> Nat]
      /\ sResult \in [Transfer -> Result]
  BY DEF DeliveryInv, IInv, Shape, TypeOK
<1>2. UNCHANGED <<Written, Receivers>>
  BY OtherSide
     DEF SendOffer, SenderStep, SenderHangsUp, ExpectAccept, SendStart, ReadSource, WriteChunk,
         SendComplete, AcceptEOF
<1>3. ASSUME sPC # "idle", SendFails PROVE Delivery!Next
  BY <1>1, <1>2, <1>3, SenderEnds DEF SendFails
<1>4. ASSUME sPC # "idle", sPC' # "idle", UNCHANGED <<length, sending, sent, sResult>> PROVE Same
  BY <1>2, <1>4, GoesOn DEF Same
<1>5. ASSUME NEW t \in Transfer, SendOffer(t) PROVE Delivery!Next
  <2>1. sPC = "idle" /\ sResult[t] = "none" BY <1>5 DEF SendOffer
  <2>2. Senders[t] = "idle" /\ \A u \in Transfer : Senders[u] # "open"
    BY <1>1, <2>1 DEF Senders, SenderResult, Result
  <2>3. \E s \in {"open", "error"} : Senders' = [Senders EXCEPT ![t] = s]
    <3>1. CASE sPC' = "accept" /\ sResult' = sResult
      <4>1. Senders' = [Senders EXCEPT ![t] = "open"]
        BY <1>5, <2>1, <3>1 DEF SendOffer, Senders, SenderResult
      <4> QED BY <4>1
    <3>2. CASE sPC' = "idle" /\ sResult' = [sResult EXCEPT ![t] = "error"]
      <4>1. Senders' = [Senders EXCEPT ![t] = "error"]
        BY <1>1, <1>5, <2>1, <3>2 DEF SendOffer, Senders, SenderResult
      <4> QED BY <4>1
    <3> QED BY <1>5, <2>1, <3>1, <3>2 DEF SendOffer
  <2>4. (\E n \in Lengths[t] : length' = [length EXCEPT ![t] = n]) /\ sent' = sent
    BY <1>5 DEF SendOffer
  <2>5. Delivery!Offer(t)
    BY <1>2, <2>2, <2>3, <2>4 DEF Delivery!Offer, Senders, Receivers, Written
  <2> QED BY <2>5 DEF Delivery!Next
<1>6. CASE SenderHangsUp
  <2>1. CASE sPC = "idle"
    <3>1. UNCHANGED Senders BY <1>6, <2>1 DEF SenderHangsUp, Senders, SenderResult
    <3> QED BY <1>2, <1>6, <3>1 DEF SenderHangsUp, Same
  <2> QED BY <1>1, <1>2, <1>6, <2>1, SenderEnds DEF SenderHangsUp
<1>7. CASE ExpectAccept BY <1>3, <1>4, <1>7 DEF ExpectAccept
<1>8. CASE SendStart BY <1>3, <1>4, <1>8 DEF SendStart
<1>9. CASE ReadSource BY <1>3, <1>4, <1>9 DEF ReadSource
<1>10. CASE AcceptEOF BY <1>3, <1>10 DEF AcceptEOF
<1> DEFINE t == sending
<1>11. CASE WriteChunk /\ ~SendFails
  <2>1. /\ sPC = "write" /\ sPC' # "idle" /\ UNCHANGED <<length, sending, sResult>>
        /\ sent' = [sent EXCEPT ![t] = @ + next]
    BY <1>11 DEF WriteChunk
  <2>2. /\ t \in Transfer /\ sResult[t] = "none" /\ Past(t)
        /\ next \in Nat /\ sent[t] + next <= length[t]
    BY <1>1, <2>1, Constants DEF IInv, Shape, TypeOK, Places, Recorded, Past
  <2>3. Senders[t] = "open" /\ Receivers[t] # "idle"
    BY <1>1, <2>1, <2>2 DEF Senders, SenderResult, Accepted, Receivers
  <2>4. sent[t] + next \in sent[t]..length[t] BY <1>1, <2>2
  <2>5. UNCHANGED Senders BY <2>1, GoesOn
  <2>6. Delivery!Send(t)
    BY <1>2, <2>1, <2>3, <2>4, <2>5 DEF Delivery!Send, Senders, Receivers, Written
  <2> QED BY <2>2, <2>6 DEF Delivery!Next
<1>12. CASE SendComplete /\ ~SendFails
  <2>1. sPC = "complete" /\ EndSend("ok") /\ UNCHANGED <<length, sending, sent>>
    BY <1>12 DEF SendComplete
  <2>2. t \in Transfer /\ sResult[t] = "none" /\ Past(t) /\ sent[t] = length[t]
    BY <1>1, <2>1 DEF IInv, Shape, Places, Recorded, Past
  <2>3. Senders[t] = "open" /\ Receivers[t] # "idle"
    BY <1>1, <2>1, <2>2 DEF Senders, SenderResult, Accepted, Receivers
  <2>4. Senders' = [Senders EXCEPT ![t] = "ok"]
    BY <1>1, <2>1, <2>2 DEF EndSend, Senders, SenderResult
  <2>5. Delivery!SendEnds(t)
    BY <1>2, <2>1, <2>2, <2>3, <2>4 DEF Delivery!SendEnds, Senders, Receivers, Written
  <2> QED BY <2>2, <2>5 DEF Delivery!Next
<1>13. CASE WriteChunk /\ SendFails BY <1>3, <1>13 DEF WriteChunk
<1>14. CASE SendComplete /\ SendFails BY <1>3, <1>14 DEF SendComplete
<1> QED BY <1>5, <1>6, <1>7, <1>8, <1>9, <1>10, <1>11, <1>12, <1>13, <1>14 DEF SenderStep

\* ReceiveFile's steps.
LEMMA ReceiverSteps ==
    ASSUME DeliveryInv, WithinSent', ReceiveBegin \/ ReceiverStep \/ ReceiverHangsUp
    PROVE  Delivery!Next \/ Same
<1>1. /\ IInv /\ Shape /\ WithinSent /\ Finished
      /\ toReceiver \in Seq(Control) /\ data \in Seq(Chunk)
      /\ stored \in [Transfer -> Seq(Transfer \X Nat)] /\ rResult \in [Transfer -> Result]
  BY DEF DeliveryInv, IInv, Shape, TypeOK
<1>2. [Next]_vars BY DEF Next, WorldStep
<1>3. UNCHANGED <<length, sent, Senders>>
  BY OtherSide
     DEF ReceiveBegin, ReceiverStep, ReceiverHangsUp, ReceiveOffer, SendAccept, ExpectStart,
         CheckWritten, ReadChunk, ExpectComplete, ReceiveEOF
<1>4. ASSUME rPC # "idle", ReceiveFails PROVE Delivery!Next \/ Same
  BY <1>1, <1>3, <1>4, ReceiverEnds DEF ReceiveFails
<1>5. ASSUME rPC # "idle", rPC' # "idle", UNCHANGED <<receiving, stored, rResult>> PROVE Same
  BY <1>3, <1>5, GoesOn DEF Same, Written
<1>6. CASE ReceiveBegin
  <2>1. \A t \in Transfer : t # None BY Constants DEF None
  <2>2. UNCHANGED Receivers BY <1>6, <2>1 DEF ReceiveBegin, Receivers, ReceiverResult
  <2>3. UNCHANGED Written BY <1>6 DEF ReceiveBegin, Written
  <2> QED BY <1>3, <2>2, <2>3 DEF Same
<1>7. CASE ReceiverHangsUp
  <2>1. CASE rPC = "idle"
    <3>1. UNCHANGED Receivers BY <1>7, <2>1 DEF ReceiverHangsUp, Receivers, ReceiverResult
    <3>2. UNCHANGED Written BY <1>7 DEF ReceiverHangsUp, Written
    <3> QED BY <1>3, <3>1, <3>2 DEF Same
  <2> QED BY <1>1, <1>3, <1>7, <2>1, ReceiverEnds DEF ReceiverHangsUp
<1>8. CASE SendAccept BY <1>4, <1>5, <1>8 DEF SendAccept
<1>9. CASE ExpectStart BY <1>4, <1>5, <1>9 DEF ExpectStart
<1>10. CASE CheckWritten BY <1>4, <1>5, <1>10 DEF CheckWritten
<1>11. CASE ReceiveEOF BY <1>4, <1>11 DEF ReceiveEOF
<1>12. CASE ReceiveOffer /\ Head(toReceiver).type = "OFFER"
  <2> DEFINE t == Head(toReceiver).id
  <2>1. Head(toReceiver) \in Control /\ Head(toReceiver) \in Messages(toReceiver)
    BY <1>1, <1>12, Taken DEF ReceiveOffer
  <2>2. t \in Transfer /\ Msg("OFFER", t) \in Messages(toReceiver)
    BY <1>12, <2>1 DEF Control, Msg
  <2>3. /\ rPC = "offer" /\ receiving = None /\ rPC' = "accept" /\ receiving' = t
        /\ UNCHANGED <<stored, rResult>>
    BY <1>1, <1>12 DEF ReceiveOffer, Shape, Places
  <2>4. ~Unoffered(t) /\ rResult[t] = "none"
    BY <1>1, <2>2 DEF IInv, OffersOnce, Recorded, Early
  <2>5. Senders[t] # "idle" BY <1>1, <2>2, <2>4, Results DEF Senders
  <2>6. \A u \in Transfer : u # None BY Constants DEF None
  <2>7. Receivers[t] = "idle" /\ \A u \in Transfer : Receivers[u] # "open"
    BY <1>1, <2>2, <2>3, <2>4, <2>6 DEF Receivers, ReceiverResult, Result
  <2>8. Receivers' = [Receivers EXCEPT ![t] = "open"]
    BY <2>2, <2>3, <2>4, <2>6 DEF Receivers, ReceiverResult
  <2>9. UNCHANGED Written BY <2>3 DEF Written
  <2>10. Delivery!Accept(t)
    BY <1>3, <2>5, <2>7, <2>8, <2>9 DEF Delivery!Accept, Senders, Receivers, Written
  <2> QED BY <2>2, <2>10 DEF Delivery!Next
<1>13. CASE ReceiveOffer /\ Head(toReceiver).type # "OFFER" BY <1>4, <1>13 DEF ReceiveOffer
<1> DEFINE t == receiving
<1>14. ASSUME rPC \notin {"idle", "offer"} PROVE t \in Transfer /\ Receivers[t] = "open"
  BY <1>1, <1>14 DEF IInv, Shape, Places, Recorded, Receivers, ReceiverResult
<1>15. CASE ReadChunk /\ ~ReceiveFails
  <2>1. PICK bytes \in Prefixes(Head(data).bytes) :
           /\ stored' = [stored EXCEPT ![t] = @ \o bytes]
           /\ UNCHANGED receiving
           /\ EndReceive("error") \/ (rPC' = "check" /\ UNCHANGED rResult)
    BY <1>15 DEF ReadChunk
  <2>2. rPC = "chunk" /\ t \in Transfer /\ Receivers[t] = "open" BY <1>14, <1>15 DEF ReadChunk
  <2>3. Len(stored'[t]) \in Len(stored[t])..sent[t]
    <3>1. Head(data).bytes \in Seq(Transfer \X Nat)
      <4>1. Head(data) \in Chunk BY <1>1, <1>15, Taken DEF ReadChunk
      <4> QED BY <4>1 DEF Chunk
    <3>2. bytes \in Seq(Transfer \X Nat) /\ Len(bytes) \in Nat BY <2>1, <3>1, Cut
    <3>3. Len(stored'[t]) = Len(stored[t]) + Len(bytes)
      BY <1>1, <2>1, <2>2, <3>2, ConcatProperties
    <3>4. Len(stored'[t]) <= sent[t] BY <1>3, <2>2 DEF WithinSent
    <3>5. Len(stored[t]) \in Nat /\ sent[t] \in Nat
      BY <1>1, <2>2, LenProperties DEF Shape
    <3> QED BY <3>2, <3>3, <3>4, <3>5
  <2>4. Written' = [Written EXCEPT ![t] = Len(stored'[t])]
    BY <1>1, <2>1, <2>2 DEF Written
  <2>5. \E r \in {"open", "error"} : Receivers' = [Receivers EXCEPT ![t] = r]
    <3>1. CASE EndReceive("error")
      <4>1. Receivers' = [Receivers EXCEPT ![t] = "error"]
        BY <1>1, <2>1, <2>2, <3>1, ReceiveEnd DEF Receivers
      <4> QED BY <4>1
    <3>2. CASE rPC' = "check" /\ UNCHANGED rResult
      <4>1. Receivers' = [Receivers EXCEPT ![t] = "open"]
        BY <2>1, <2>2, <3>2, GoesOn DEF Receivers
      <4> QED BY <4>1
    <3> QED BY <2>1, <3>1, <3>2
  <2>6. ASSUME NEW u \in Transfer, u = t PROVE Delivery!Write(u)
    BY <1>3, <2>2, <2>3, <2>4, <2>5, <2>6 DEF Delivery!Write, Senders, Receivers, Written
  <2> QED BY <2>2, <2>6 DEF Delivery!Next
<1>16. CASE ReadChunk /\ ReceiveFails BY <1>4, <1>16 DEF ReadChunk
<1>17. CASE ExpectComplete
  <2>1. /\ rPC = "complete" /\ toReceiver # <<>> /\ UNCHANGED <<receiving, stored>>
        /\ \/ Head(toReceiver) = Msg("COMPLETE", t) /\ EndReceive("ok")
           \/ EndReceive("error")
    BY <1>17 DEF ExpectComplete, Msg
  <2>2. CASE EndReceive("error")
    <3>1. ReceiveFails /\ rPC # "idle" BY <2>1, <2>2 DEF ReceiveFails
    <3> QED BY <1>4, <3>1
  <2>3. CASE Head(toReceiver) = Msg("COMPLETE", t) /\ EndReceive("ok")
    <3>1. t \in Transfer /\ Receivers[t] = "open" BY <1>14, <2>1
    <3>2. sResult[t] = "ok"
      <4>1. Msg("COMPLETE", t) \in Messages(toReceiver) BY <1>1, <2>1, <2>3, Taken
      <4> QED BY <1>1, <3>1, <4>1 DEF Finished
    <3>3. Senders[t] = "ok" /\ Written[t] >= Size[t]
      BY <1>1, <2>1, <3>1, <3>2 DEF Senders, SenderResult, Written, Shape, Places
    <3>4. Receivers' = [Receivers EXCEPT ![t] = "ok"]
      BY <1>1, <2>1, <2>3, <3>1, ReceiveEnd DEF Receivers
    <3>5. UNCHANGED Written BY <2>1 DEF Written
    <3>6. Delivery!ReceiveEnds(t)
      BY <1>3, <3>1, <3>3, <3>4, <3>5 DEF Delivery!ReceiveEnds, Senders, Receivers, Written
    <3> QED BY <3>1, <3>6 DEF Delivery!Next
  <2> QED BY <2>1, <2>2, <2>3
<1> QED BY <1>6, <1>7, <1>8, <1>9, <1>10, <1>11, <1>12, <1>13, <1>15, <1>16, <1>17
     DEF ReceiverStep

\* Whatever fails, closes or is cancelled, transfers go only as FileDelivery allows
\* (session.go:40-117).
THEOREM FilesImplementDelivery == Spec => DeliverySpec
<1>1. Init => Delivery!Init
  BY Constants DEF Init, Delivery!Init, SenderResult, ReceiverResult
<1>2. DeliveryInv /\ DeliveryInv' /\ [Next]_vars => [Delivery!Next]_(Delivery!vars)
  <2> SUFFICES ASSUME DeliveryInv, DeliveryInv', [Next]_vars PROVE Delivery!Next \/ Same
    BY DEF Delivery!vars, Same, Written, Senders, Receivers
  <2>1. CASE (\E t \in Transfer : SendOffer(t)) \/ SenderStep \/ SenderHangsUp
    BY <2>1, SenderSteps
  <2>2. CASE ReceiveBegin \/ ReceiverStep \/ ReceiverHangsUp
    BY <2>2, ReceiverSteps DEF DeliveryInv
  <2>3. CASE UNCHANGED <<senderVars, receiverVars>> BY <2>3, OtherSide DEF Same
  <2> QED BY <2>1, <2>2, <2>3 DEF Next, WorldStep, Cancel, Break, vars
<1> QED BY <1>1, <1>2, DeliveryInvariance, PTL DEF Spec, DeliverySpec, Delivery!Spec
=============================================================================
