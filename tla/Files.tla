-------------------------------- MODULE Files --------------------------------
(***************************************************************************)
(* internal/files: one sending and one receiving Session that share a      *)
(* control stream and a data stream and transfer files one after another.  *)
(*                                                                         *)
(* SendFile and ReceiveFile each run in one goroutine (sPC, rPC).  An      *)
(* action is one message or chunk written or read, or one turn of a loop.  *)
(* The byte at position i of the file of transfer t is <<t, i>>, and the   *)
(* ID of a transfer is the transfer itself: callers give every transfer an *)
(* ID of its own.  Nothing in src/ but the tests calls Session yet, so the *)
(* two callers, their contexts and their streams are external.             *)
(***************************************************************************)
EXTENDS Naturals, Sequences

CONSTANTS
    Transfer,   \* transfers the sender may make, each once
    Size,       \* Size[t]: the size the caller passes to SendFile
    Lengths,    \* Lengths[t]: the lengths the file may have by the time it is read
    ChunkSize,  \* most bytes in one chunk
    Capacity,   \* chunks the data stream holds before a write blocks
    Faults      \* what may go wrong outside, a subset of FaultKind

FaultKind == {"cancel", "hangup", "source", "sink"}

ASSUME FilesAssumption ==
    /\ 0 \notin Transfer
    /\ Size \in [Transfer -> Nat]
    /\ Lengths \in [Transfer -> SUBSET Nat]
    /\ ChunkSize \in Nat \ {0}
    /\ Capacity \in Nat \ {0}
    /\ Faults \subseteq FaultKind

VARIABLES
    toReceiver, toSender,  \* control messages under way in each direction
    data,       \* chunks under way
    hung,       \* sides whose caller has closed its streams
    cancelled,  \* sides whose context is cancelled
    broken,     \* ends of the file that fail: the sender's source, the receiver's sink
    length,     \* length[t]: bytes SendFile will find in the file
    sPC, sending, next, sent, sResult,   \* SendFile: next is the size of the chunk read
    rPC, receiving, stored, rResult      \* ReceiveFile: stored[t] is what w was given

streamVars == <<toReceiver, toSender, data>>
worldVars == <<hung, cancelled, broken>>
senderVars == <<length, sPC, sending, next, sent, sResult>>
receiverVars == <<rPC, receiving, stored, rResult>>
vars == <<streamVars, worldVars, senderVars, receiverVars>>

Side == {"sender", "receiver"}
None == 0
ControlType == {"OFFER", "ACCEPT", "START", "COMPLETE"}
Control == [type : ControlType, id : Transfer]
Chunk == [id : Transfer, bytes : Seq(Transfer \X Nat)]
Result == {"none", "ok", "error"}

TypeOK ==
    /\ toReceiver \in Seq(Control)
    /\ toSender \in Seq(Control)
    /\ data \in Seq(Chunk)
    /\ Len(data) <= Capacity
    /\ hung \subseteq Side
    /\ cancelled \subseteq Side
    /\ broken \subseteq {"source", "sink"}
    /\ length \in [Transfer -> Nat]
    /\ sPC \in {"idle", "accept", "start", "read", "write", "complete"}
    /\ sending \in Transfer \cup {None}
    /\ next \in 0..ChunkSize
    /\ \A t \in Transfer : sent[t] \in 0..length[t]
    /\ sResult \in [Transfer -> Result]
    /\ rPC \in {"idle", "offer", "accept", "start", "check", "chunk", "complete"}
    /\ receiving \in Transfer \cup {None}
    /\ stored \in [Transfer -> Seq(Transfer \X Nat)]
    /\ rResult \in [Transfer -> Result]

Init ==
    /\ toReceiver = <<>> /\ toSender = <<>> /\ data = <<>>
    /\ hung = {} /\ cancelled = {} /\ broken = {}
    /\ length = [t \in Transfer |-> 0]
    /\ sPC = "idle" /\ sending = None /\ next = 0
    /\ sent = [t \in Transfer |-> 0]
    /\ sResult = [t \in Transfer |-> "none"]
    /\ rPC = "idle" /\ receiving = None
    /\ stored = [t \in Transfer |-> <<>>]
    /\ rResult = [t \in Transfer |-> "none"]

\* The contents of the file of transfer t.
File(t) == [i \in 1..length[t] |-> <<t, i>>]

-----------------------------------------------------------------------------
(* Outside the two calls *)

Cancel(x) ==
    /\ "cancel" \in Faults
    /\ x \notin cancelled
    /\ cancelled' = cancelled \cup {x}
    /\ UNCHANGED <<hung, broken, streamVars, senderVars, receiverVars>>

Break(f) ==
    /\ f \in Faults \cap {"source", "sink"}
    /\ f \notin broken
    /\ broken' = broken \cup {f}
    /\ UNCHANGED <<hung, cancelled, streamVars, senderVars, receiverVars>>

Prefixes(s) == {SubSeq(s, 1, k) : k \in 0..Len(s)}

EndSend(result) ==
    /\ sPC' = "idle"
    /\ sResult' = [sResult EXCEPT ![sending] = result]

EndReceive(result) ==
    /\ rPC' = "idle"
    /\ rResult' = IF receiving = None THEN rResult
                  ELSE [rResult EXCEPT ![receiving] = result]

\* A side closes its streams, or its process dies.  A call under way fails; of
\* what it had written any suffix may be lost, on each stream by itself.
SenderHangsUp ==
    /\ "hangup" \in Faults
    /\ "sender" \notin hung
    /\ hung' = hung \cup {"sender"}
    /\ toSender' = <<>>
    /\ toReceiver' \in Prefixes(toReceiver)
    /\ data' \in Prefixes(data)
    /\ IF sPC = "idle" THEN UNCHANGED <<sPC, sResult>> ELSE EndSend("error")
    /\ UNCHANGED <<cancelled, broken, length, sending, next, sent, receiverVars>>

ReceiverHangsUp ==
    /\ "hangup" \in Faults
    /\ "receiver" \notin hung
    /\ hung' = hung \cup {"receiver"}
    /\ toReceiver' = <<>> /\ data' = <<>>
    /\ toSender' \in Prefixes(toSender)
    /\ IF rPC = "idle" THEN UNCHANGED <<rPC, rResult>> ELSE EndReceive("error")
    /\ UNCHANGED <<cancelled, broken, receiving, stored, senderVars>>

-----------------------------------------------------------------------------
(* SendFile *)

SendFails == EndSend("error") /\ UNCHANGED <<length, sending, next, sent>>

\* Session.send.  Once the receiver has hung up, a write may fail or vanish.
ControlToReceiver(type, t) ==
    toReceiver' = IF "receiver" \in hung THEN toReceiver
                  ELSE Append(toReceiver, [type |-> type, id |-> t])

\* The caller sends a file; the offer carries the size it passes, and the file
\* may have another length by the time it is read.
SendOffer(t) ==
    /\ sPC = "idle" /\ sResult[t] = "none"
    /\ "sender" \notin hung
    /\ ControlToReceiver("OFFER", t)
    /\ sending' = t
    /\ \E n \in Lengths[t] : length' = [length EXCEPT ![t] = n]
    /\ \/ sPC' = "accept" /\ UNCHANGED sResult
       \/ /\ "receiver" \in hung
          /\ sResult' = [sResult EXCEPT ![t] = "error"]
          /\ UNCHANGED sPC
    /\ UNCHANGED <<toSender, data, worldVars, next, sent, receiverVars>>

\* expectTransfer(FILE_ACCEPT): the next control message, whatever it is.
ExpectAccept ==
    /\ sPC = "accept"
    /\ toSender # <<>>
    /\ toSender' = Tail(toSender)
    /\ IF Head(toSender) = [type |-> "ACCEPT", id |-> sending]
       THEN sPC' = "start" /\ UNCHANGED <<length, sending, next, sent, sResult>>
       ELSE SendFails
    /\ UNCHANGED <<toReceiver, data, worldVars, receiverVars>>

SendStart ==
    /\ sPC = "start"
    /\ ControlToReceiver("START", sending)
    /\ \/ sPC' = "read" /\ UNCHANGED <<length, sending, next, sent, sResult>>
       \/ "receiver" \in hung /\ SendFails
    /\ UNCHANGED <<toSender, data, worldVars, receiverVars>>

\* One turn of the loop: the context, then r.Read, which returns some bytes of
\* what is left, the end of the file, or an error.
ReadSource ==
    /\ sPC = "read"
    /\ LET left == length[sending] - sent[sending]
       IN  \/ /\ "sender" \notin cancelled /\ "source" \notin broken
              /\ \E n \in 0..ChunkSize :
                    /\ n <= left
                    /\ n = 0 => left = 0
                    /\ next' = n
                    /\ sPC' = IF n = 0 THEN "complete" ELSE "write"
              /\ UNCHANGED <<length, sending, sent, sResult>>
           \/ ("sender" \in cancelled \/ "source" \in broken) /\ SendFails
    /\ UNCHANGED <<streamVars, worldVars, receiverVars>>

\* Mutant of WriteChunk: the whole buffer is written, not the bytes read.
WriteBuffer ==
    /\ sPC = "write"
    /\ LET t == sending
           chunk == [id |-> t, bytes |-> SubSeq(File(t), sent[t] + 1, sent[t] + next)]
       IN  \/ /\ "receiver" \in hung \/ Len(data) < Capacity
              /\ data' = IF "receiver" \in hung THEN data ELSE Append(data, chunk)
              /\ sent' = [sent EXCEPT ![t] = @ + ChunkSize]
              /\ sPC' = "read"
              /\ UNCHANGED <<length, sending, next, sResult>>
           \/ "receiver" \in hung /\ SendFails /\ UNCHANGED data
    /\ UNCHANGED <<toReceiver, toSender, worldVars, receiverVars>>

\* EncodeChunk; the write blocks while the stream is full.  Read may have
\* returned the end of the file along with its last bytes.
WriteChunk ==
    /\ sPC = "write"
    /\ LET t == sending
           chunk == [id |-> t, bytes |-> SubSeq(File(t), sent[t] + 1, sent[t] + next)]
       IN  \/ /\ "receiver" \in hung \/ Len(data) < Capacity
              /\ data' = IF "receiver" \in hung THEN data ELSE Append(data, chunk)
              /\ sent' = [sent EXCEPT ![t] = @ + next]
              /\ \/ sPC' = "read"
                 \/ sent'[t] = length[t] /\ sPC' = "complete"
              /\ UNCHANGED <<length, sending, next, sResult>>
           \/ "receiver" \in hung /\ SendFails /\ UNCHANGED data
    /\ UNCHANGED <<toReceiver, toSender, worldVars, receiverVars>>

\* Mutant of SendComplete: SendFile returns without FILE_COMPLETE.
SendNoComplete ==
    /\ sPC = "complete"
    /\ EndSend("ok")
    /\ UNCHANGED <<streamVars, worldVars, length, sending, next, sent, receiverVars>>

SendComplete ==
    /\ sPC = "complete"
    /\ ControlToReceiver("COMPLETE", sending)
    /\ \/ EndSend("ok") /\ UNCHANGED <<length, sending, next, sent>>
       \/ "receiver" \in hung /\ SendFails
    /\ UNCHANGED <<toSender, data, worldVars, receiverVars>>

\* The control stream ends where SendFile waits for an answer.
AcceptEOF ==
    /\ sPC = "accept"
    /\ toSender = <<>> /\ "receiver" \in hung
    /\ SendFails
    /\ UNCHANGED <<streamVars, worldVars, receiverVars>>

-----------------------------------------------------------------------------
(* ReceiveFile *)

ReceiveFails == EndReceive("error") /\ UNCHANGED <<receiving, stored>>

ControlToSender(type, t) ==
    toSender' = IF "sender" \in hung THEN toSender
                ELSE Append(toSender, [type |-> type, id |-> t])

ReceiveBegin ==
    /\ rPC = "idle"
    /\ "receiver" \notin hung
    /\ rPC' = "offer" /\ receiving' = None
    /\ UNCHANGED <<streamVars, worldVars, senderVars, stored, rResult>>

ReceiveOffer ==
    /\ rPC = "offer"
    /\ toReceiver # <<>>
    /\ toReceiver' = Tail(toReceiver)
    /\ IF Head(toReceiver).type = "OFFER"
       THEN /\ receiving' = Head(toReceiver).id
            /\ rPC' = "accept"
            /\ UNCHANGED <<stored, rResult>>
       ELSE ReceiveFails
    /\ UNCHANGED <<toSender, data, worldVars, senderVars>>

SendAccept ==
    /\ rPC = "accept"
    /\ ControlToSender("ACCEPT", receiving)
    /\ \/ rPC' = "start" /\ UNCHANGED <<receiving, stored, rResult>>
       \/ "sender" \in hung /\ ReceiveFails
    /\ UNCHANGED <<toReceiver, data, worldVars, senderVars>>

ExpectStart ==
    /\ rPC = "start"
    /\ toReceiver # <<>>
    /\ toReceiver' = Tail(toReceiver)
    /\ IF Head(toReceiver) = [type |-> "START", id |-> receiving]
       THEN rPC' = "check" /\ UNCHANGED <<receiving, stored, rResult>>
       ELSE ReceiveFails
    /\ UNCHANGED <<toSender, data, worldVars, senderVars>>

\* Mutant of CheckWritten: the loop ends one byte early.
CheckOneLess ==
    /\ rPC = "check"
    /\ IF Len(stored[receiving]) + 1 < Size[receiving]
       THEN IF "receiver" \in cancelled THEN ReceiveFails
            ELSE rPC' = "chunk" /\ UNCHANGED <<receiving, stored, rResult>>
       ELSE rPC' = "complete" /\ UNCHANGED <<receiving, stored, rResult>>
    /\ UNCHANGED <<streamVars, worldVars, senderVars>>

\* Mutant of CheckWritten: ReceiveFile does not wait for FILE_COMPLETE.
CheckOnly ==
    /\ rPC = "check"
    /\ IF Len(stored[receiving]) < Size[receiving]
       THEN IF "receiver" \in cancelled THEN ReceiveFails
            ELSE rPC' = "chunk" /\ UNCHANGED <<receiving, stored, rResult>>
       ELSE EndReceive("ok") /\ UNCHANGED <<receiving, stored>>
    /\ UNCHANGED <<streamVars, worldVars, senderVars>>

\* Mutant of CheckWritten: the loop waits for one byte more.
CheckOneMore ==
    /\ rPC = "check"
    /\ IF Len(stored[receiving]) <= Size[receiving]
       THEN IF "receiver" \in cancelled THEN ReceiveFails
            ELSE rPC' = "chunk" /\ UNCHANGED <<receiving, stored, rResult>>
       ELSE rPC' = "complete" /\ UNCHANGED <<receiving, stored, rResult>>
    /\ UNCHANGED <<streamVars, worldVars, senderVars>>

\* The head of the loop: enough bytes, or else the context.
CheckWritten ==
    /\ rPC = "check"
    /\ IF Len(stored[receiving]) < Size[receiving]
       THEN IF "receiver" \in cancelled THEN ReceiveFails
            ELSE rPC' = "chunk" /\ UNCHANGED <<receiving, stored, rResult>>
       ELSE rPC' = "complete" /\ UNCHANGED <<receiving, stored, rResult>>
    /\ UNCHANGED <<streamVars, worldVars, senderVars>>

\* Mutant of AcceptsChunk: the ID in the chunk's header is not compared.
AcceptsAnyChunk(c) == TRUE

\* A chunk is for the transfer under way; its offset is not looked at.
AcceptsChunk(c) == c.id = receiving

\* DecodeChunk and w.Write, which may fail after some of the bytes.
ReadChunk ==
    /\ rPC = "chunk"
    /\ data # <<>>
    /\ data' = Tail(data)
    /\ IF AcceptsChunk(Head(data))
       THEN \E bytes \in Prefixes(Head(data).bytes) :
               /\ stored' = [stored EXCEPT ![receiving] = @ \o bytes]
               /\ UNCHANGED receiving
               /\ IF "sink" \in broken THEN EndReceive("error")
                  ELSE /\ bytes = Head(data).bytes
                       /\ rPC' = "check" /\ UNCHANGED rResult
       ELSE ReceiveFails
    /\ UNCHANGED <<toReceiver, toSender, worldVars, senderVars>>

ExpectComplete ==
    /\ rPC = "complete"
    /\ toReceiver # <<>>
    /\ toReceiver' = Tail(toReceiver)
    /\ EndReceive(IF Head(toReceiver) = [type |-> "COMPLETE", id |-> receiving]
                  THEN "ok" ELSE "error")
    /\ UNCHANGED <<toSender, data, worldVars, senderVars, receiving, stored>>

\* Mutant of ReceiveEOF: DecodeChunk tries again when the data stream ends.
ReceiveControlEOF ==
    /\ "sender" \in hung
    /\ rPC \in {"offer", "start", "complete"} /\ toReceiver = <<>>
    /\ ReceiveFails
    /\ UNCHANGED <<streamVars, worldVars, senderVars>>

\* A stream ends where ReceiveFile waits for more.
ReceiveEOF ==
    /\ "sender" \in hung
    /\ \/ rPC \in {"offer", "start", "complete"} /\ toReceiver = <<>>
       \/ rPC = "chunk" /\ data = <<>>
    /\ ReceiveFails
    /\ UNCHANGED <<streamVars, worldVars, senderVars>>

-----------------------------------------------------------------------------
(* The specification *)

SenderStep ==
    \/ ExpectAccept \/ SendStart \/ ReadSource \/ WriteChunk \/ SendComplete
    \/ AcceptEOF

ReceiverStep ==
    \/ ReceiveOffer \/ SendAccept \/ ExpectStart \/ CheckWritten \/ ReadChunk
    \/ ExpectComplete \/ ReceiveEOF

WorldStep ==
    \/ \E t \in Transfer : SendOffer(t)
    \/ ReceiveBegin
    \/ \E x \in Side : Cancel(x)
    \/ \E f \in {"source", "sink"} : Break(f)
    \/ SenderHangsUp \/ ReceiverHangsUp

Next == WorldStep \/ SenderStep \/ ReceiverStep

Spec == Init /\ [][Next]_vars

\* A goroutine that can go on does.  Nobody has to call, cancel or hang up.
FairSpec == Spec /\ WF_vars(SenderStep) /\ WF_vars(ReceiverStep)

-----------------------------------------------------------------------------
(* Properties *)

\* What ReceiveFile writes is the beginning of the file offered to it, whatever
\* earlier transfers left in the streams (session.go:100-110).
StoredInPlace ==
    \A t \in Transfer : stored[t] = SubSeq(File(t), 1, Len(stored[t]))

\* ReceiveFile succeeds only when the sender had come to the end of the file, and
\* with all of it, if the file kept the size that was offered (session.go:96-116).
ReceivedIsWhole ==
    \A t \in Transfer : rResult[t] = "ok" =>
        /\ sent[t] = length[t]
        /\ Len(stored[t]) >= Size[t]
        /\ length[t] = Size[t] => stored[t] = File(t)

\* After transfers of files that kept their size and that both sides report as
\* done, the streams are empty: the sessions can go on to the next file.
CleanBetweenFiles ==
    (/\ sPC = "idle" /\ rPC = "idle" /\ hung = {}
     /\ \A t \in Transfer : /\ length[t] \in {0, Size[t]}
                            /\ sResult[t] = rResult[t] /\ sResult[t] # "error")
    => toReceiver = <<>> /\ toSender = <<>> /\ data = <<>>

\* What has become of a transfer on each side.
SenderResult(t) ==
    IF sResult[t] # "none" THEN sResult[t]
    ELSE IF sending = t /\ sPC # "idle" THEN "open" ELSE "idle"

ReceiverResult(t) ==
    IF rResult[t] # "none" THEN rResult[t]
    ELSE IF receiving = t /\ rPC # "idle" THEN "open" ELSE "idle"

Delivery ==
    INSTANCE FileDelivery
    WITH written <- [t \in Transfer |-> Len(stored[t])],
         sender <- [t \in Transfer |-> SenderResult(t)],
         receiver <- [t \in Transfer |-> ReceiverResult(t)]

\* Whatever fails, closes or is cancelled, transfers go only as FileDelivery
\* allows: nothing is sent before the receiver has accepted the offer, nothing
\* is written that was not sent or after the result, and the receiver reports
\* success only after the sender did (session.go:40-117).
DeliverySpec == Delivery!Spec

\* Where a call cannot go on by itself.
SenderWaits ==
    \/ sPC = "accept" /\ toSender = <<>>
    \/ sPC = "write" /\ Len(data) = Capacity

ReceiverWaits ==
    \/ rPC \in {"offer", "start", "complete"} /\ toReceiver = <<>>
    \/ rPC = "chunk" /\ data = <<>>

\* Nobody has hung up, no call has failed, and every file offered had the size
\* that was offered when it was read.
Undisturbed ==
    /\ hung = {}
    /\ \A t \in Transfer : /\ length[t] = Size[t] \/ SenderResult(t) = "idle"
                           /\ sResult[t] # "error" /\ rResult[t] # "error"

\* The two calls read and write two streams without deadlines, in an order of
\* their own (session.go:46, 61, 79-113).  As long as nothing has gone wrong, at
\* most one of them waits, though the data stream may hold as little as one chunk.
NeverBothWait == Undisturbed => ~(SenderWaits /\ ReceiverWaits)

\* A file offered to a waiting ReceiveFile gets there and both calls say so,
\* unless a file, this one or one before, changes its size, somebody cancels or
\* hangs up, or the source or the sink fails: the calls never wait for each other.
TransferCompletes ==
    \A t \in Transfer :
        sending = t /\ sPC # "idle" /\ receiving = t /\ rPC # "idle"
        ~> \/ sResult[t] = "ok" /\ rResult[t] = "ok"
           \/ \E u \in Transfer : length[u] # Size[u] /\ SenderResult(u) # "idle"
           \/ hung \cup cancelled \cup broken # {}

\* When one side closes its streams, the call of the other returns.
HangUpEndsCalls ==
    /\ "sender" \in hung ~> rPC = "idle"
    /\ "receiver" \in hung ~> sPC = "idle"

=============================================================================
