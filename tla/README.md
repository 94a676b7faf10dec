# Device Bridge in TLA+

TLA+ specifications of the Go program in `src/`: a desktop node that discovers
other devices on the local network, pairs with them, exchanges texts with them
over mutually authenticated TLS, transfers files, and keeps a clipboard history.
The specifications are model-checked with TLC; their safety properties are proved
with TLAPS.

## The system

| component | state | operations | behaves with |
|---|---|---|---|
| `internal/device` | pending pins, open connections, WaitGroup, callbacks (memory); peers table (disk) | New, Start, Close, Pair, SendText; accept loop, one handler per connection | tcp, pairing, storage, protocol, the program's callbacks |
| `internal/pairing` | none beyond a call | Exchange, Confirm, Verify | runs inside Pair, over one connection |
| `internal/transport/tcp` | listener, TLS connections | Connect, Listen, Accept, Close | asks the node's `Trusted` during the handshake |
| `internal/protocol` | none | frame and JSON codecs, control channel | every stream |
| `internal/storage` | two SQLite tables: `peers`, `clipboard_history` | AddPeer, Trusted, AddHistory, HistoryList, HistoryTrim, HistoryDelete, ... | device, history |
| `internal/history` | none; the table is the state | Add, List, Search, Get, Delete | storage; called by anybody |
| `internal/clipboard` | last text observed | Changes (goroutine), ReadText, WriteText | whoever receives from the channel |
| `internal/files` | none beyond a call | SendFile, ReceiveFile | two streams: control and data |
| `internal/identity` | key and certificate files | LoadOrCreate, Save, Load, Generate | device.New; the disk, other processes on it |
| `internal/transport/mdns` | devices already emitted | Announcer, Discoverer.Run (goroutine) | cmd/mac, the zeroconf library |
| `cmd/mac` | table of discovered devices | list, pair, pair-with, send, quit | all of the above |

How they interact. `cmd/mac` makes one `device.Node`. `Pair` and `SendText`
each dial one connection and use it for one exchange. On the other side, the
accept loop completes one TLS handshake at a time and starts a handler goroutine
per connection. A handler reads the peers table once, then reads the first
message: HELLO opens a conversation with a trusted peer, PAIR a pairing with
anybody. Both sides' callbacks and database writes lie between messages.
`clipboard`, `history` and `files` are libraries: they are tested, and nothing
in `src/` calls them yet.

What is hard:

* Pairing is two writes in two databases with messages and callbacks between
  them; either process may die, either write or message may fail, and two nodes
  may pair with each other at the same time.
* Close runs against an accept loop and handlers that come and go; it depends on
  one counter and one set of connections.
* The two ends of a TLS 1.3 handshake complete at different moments: a client may
  be done, and even have written, before the server has accepted it, or failed.
* Trust is read before the message it is used for; an address is looked up long
  before it is dialled.
* Files: control messages and chunks travel on different streams and are not
  ordered with respect to each other; calls block on full and on empty streams;
  a context is looked at only between chunks; a file may change while it is read.
* An identity is a file that is emptied and then written, by a process that may
  die, beside another, on a disk that may be slower; any error of reading it makes
  a new identity.
* Discovery emits a device once, and two goroutines write the table of devices: an
  entry stays when the device has gone and its address belongs to another one.
* History: three SQL statements without a transaction; a trim that fails or never
  comes; concurrent callers.
* The watcher moves on before its text has been received.

What makes each part correct: a text gets in only from a trusted device; pairing
that succeeds is mutual and pairing that fails leaves no pin and at most the
responder's trust; Close leaves nothing behind and returns; calls return; a
received file is the file that was sent; the history shows the latest texts and
stays bounded; a copied text is captured once; a device keeps its identity, and
devices that have paired know each other when they run again; a device that is
announced gets listed. `PROJECT.json` lists the hazards
behind these, each at its line.

## The modules

```
 TrustAgreement, TextDelivery
                <--implements-- Device --EXTENDS--> Transport
                                  |
                        MCDevice  |  DeviceProofs <--EXTENDS-- ExchangeProofs
 RecentTexts <--implements-- Capture --EXTENDS--> Watcher, History
                                  |
                       MCCapture  |  CaptureProofs

 FileDelivery <--implements-- Files
                                  |
                         MCFiles  |  FilesProofs <--EXTENDS-- FileDeliveryProofs

                                Bridge --EXTENDS--> Identity, Discovery
                                  |                 (both EXTEND Processes)
                        MCBridge  |  BridgeProofs
```

### Transport and Device

`Transport` is `internal/transport/tcp` under `internal/protocol`. A connection
is named by the call that dials it, because each call dials exactly one. `link`
is the progress of the handshake, `open` the ends that are not closed, and
`toServer` and `toClient` are the messages on their way. The client finishes the
handshake first (`"finished"`): from then on it may write, and the server may
still fail. When an end closes, what it has written before stays readable and
the other end's writes may succeed or fail. Bytes, JSON and frames are
abstracted to message types; a node stands for its key, its certificate and its
device ID, which are functions of one another.

`Device` is one action per step of one goroutine; a step ends where another
goroutine can look: at a lock region, a query, a message, a callback, the end of
a connection. Two steps are coarser: `HandlerExit` takes `conn.Close`, the delete
from `conns` and `wg.Done` together, and `Unwind` takes `conn.Close` and the deferred
delete of the pin together.

| code | in the model |
|---|---|
| `Node.Start`, `Close` | `Start`; `CloseListener`, `CloseConns`, `CloseStore`, with `life` between them |
| `Node.Pair` with `pairing.Session` | `PairBegin`, `Dial`, `VerifyServer`, `SendIdentity`, `ExchangeReceive`, `Approve`, `Confirm`, `Unwind`; `clientPC` |
| `Node.SendText` | `SendTextBegin`, `Dial`, `VerifyServer`, `SendHello`, `ExpectHello`, `SendText`, `Unwind` |
| failures on the way | `Dial` (second disjunct), `ConnectFails`, `AwaitFails`, the second disjuncts of `ClientSend`, `Approve` and `Confirm` |
| `acceptLoop`, `listener.Accept` | `AcceptRaw`, `AcceptDone`, `AcceptFails`, `AcceptClosed`; `acceptor` |
| `handle`, `messageLoop`, `handlePair` | `Register`, `ReadTrust`, `ReceiveFirst`, `ReplyHello`, `LoopMessage`, `LoopPing`, `DecidePair`, `StorePair`, `ReplyPair`, `ReceiveFails`, `HandlerExit`; `handlerPC` |
| `pending`, `conns`, `wg`, `peers` table | `pending`, `conns`, `wg`, `trust` |
| unlocked writes of the two callbacks | `InstallHandler`, at any moment before Close; a handler sees them or does not |
| the process dies, runs again on the same directory | `Crash`; only `trust` survives |
| a device outside the repository that keeps its connection | `SessionPing`, `SessionPong`, `SessionEOF`, `SessionHangUp` (external) |

`Faults` may contain `"timeout"` (a deadline of a dial or a handshake passes at
any moment) and `"store"` (a statement fails; a failed `Trusted` counts as no).

`TrustAgreement` is what pairing promises, without connections: an attempt
begins, the responder's store gets the initiator (`Grant`), the initiator's store
gets the responder in the step that makes the attempt succeed (`Conclude`), or
it fails and keeps what was granted. `AgreementSpec` says that `Device`
implements it, under the mapping of `CallResult`.

`TextDelivery` is what SendText promises, without connections: a call begins, and in
one step succeeds or fails; a text that has been sent may be received once, by a
device that trusts the sender, and the text of a call that failed never is.
`DeliverySpec` says that `Device` implements it.

### Files

One sending and one receiving session on a control and a data stream, used for
one transfer after another. `SendFile` and `ReceiveFile` are one program counter
each (`sPC`, `rPC`), a step per message, chunk or turn of a loop. Byte i of file t
is `<<t, i>>`, so that a byte in the wrong place shows. A write to the data
stream blocks when `Capacity` chunks are under way, at least one; control messages are
small and never block. The streams of `session_test.go` are `net.Pipe`s, which hold
nothing: there a write meets its read in one step, which is not modelled. `length[t]` is the length the file has when it is read, which
may differ from the size that was offered. Callers, contexts, readers and
writers are external (`Cancel`, `Break`, `SenderHangsUp`, `ReceiverHangsUp`).
Transfer IDs are unique, as the protocol asks of its callers. The `Offset` of a
chunk is not modelled since nobody reads it.

`FileDelivery` is what transfers promise, without messages, chunks or streams: each
side has one transfer open at a time and ends it with one result; bytes are sent only
after the receiver has opened the transfer, and it never has more of a file than was
sent; it reports success only with the size that was offered and after the sender,
who has been through the whole file, has done so. `DeliverySpec` says that `Files`
implements it.

### Watcher, History, Capture

`Watcher` is the goroutine of `Changes`: `FirstRead`, `Poll` (a tick that finds
another text), `Offer` (the unbuffered send, taken together with its receiver)
and `Stop`. `History` is `Store.Add` as its three statements, `CheckLatest`,
`Insert`, `Trim`, each of which may fail, with `Delete` and a restart. Five history variables, which no guard reads, are there for the properties. `fresh` and
`blind` are about the watch under way: a text has been copied since the watcher last
noted what is on the clipboard; its first read has failed and it has noted nothing
since. `raced` and `owed` say whether the newest entry may have changed since an Add
looked at it, and how many entries wait for the trim an earlier Add did not do;
`inserted` holds all entries there have been. `Capture` joins them by the loop the two interfaces are made for,
receive a text and add it; that loop is not in `src/` and is marked external.
`RecentTexts` is the abstract history: at most `Max` texts, each recorded in one
step that drops the oldest; `ShowsRecentTexts` says that what `List(Max)` shows
implements it, whatever Adds are between their statements or have failed.

### Identity, Discovery, Bridge

`Identity` is `LoadOrCreate`, one action per operation on the key file: `Load`,
`Generate`, `OpenKey` (WriteFile empties the file), `WriteKey`, `WriteCert`. Several
processes may use one directory (`dir`), and any of them may end between two
operations (`Ends`). What is written reaches the disk later (`Flush`); a power
failure before that may leave a torn file (`PowerLoss`), while SQLite syncs what it
commits. `Faults` may contain `"read"` (reading a whole file fails), `"write"` and
`"power"`. A key stands for everything derived from it. `used` and `upset` are
history variables: the identities LoadOrCreate has returned for a directory, and
the directories where one of the three things has happened after which it cannot
keep an identity: a whole file could not be read, two processes created an identity
at once, power was lost before the flush.

`Discovery` is `Discoverer.Run` (`Hear`: `seen`, and the peer in `hand` on its way
through the unbuffered channel) and the table in `main` (`List`, `Enter`).

`Bridge` is `cmd/mac` with both, for processes that come and go:

| code | in the model |
|---|---|
| `main` up to the loop | `Launch`, `LoadIdentity`, `Start` (with NewAnnouncer), `Install` (handlers); `pc` |
| the end of the process, of the machine | `Die`, `LosePower`; what is on disk survives |
| zeroconf answering, `peersCh` | `HearOf`, `ListPeer`; zeroconf is external |
| `lookup`, `pair`, `send` | `Listed`, `UseTable`, with whatever entry the query finds |
| `pair-with` | `PairWith`: the ID, address and key another process has printed |
| `Node.Pair` | `Grant` (whoever is at the address now stores the caller and answers), `Conclude` |
| `Node.SendText` | `Deliver` |
| any failure of a command | `CommandEnds` |

A connection is what `Device` shows it to be, with its steps taken together:
between the responder's store and the initiator's anything may happen, elsewhere
the steps are those of one process. `Accepts` is `Node.Trusted`: any trusted key
will do, and the one that is pinned. Two processes of one directory share its
identity file and its trust store.

## What is checked

All runs use TLC's breadth-first search over the whole state space, without
symmetry. `CHECK_DEADLOCK FALSE` is set everywhere, because everything may stop
for good: calls are made at most once and nodes need not be closed. The liveness
properties say where it must not.

| run | instance | shows |
|---|---|---|
| `device_safety` | a pairs with b, sends b a text and keeps a third connection; b's store may fail, b starts and closes at any moment | `TypeOK`; `TextOnlyFromTrusted` and `SendOkMeansTrusted`: no order of trust lookup, pairing and first message lets a text in untrusted; `QuietAfterClose`, `CloseReachesHandlers`: what Close may rely on; `CloseWaitsForSomebody`: while it waits, somebody it counts can go on, or a handler has registered too late; `AwaitedIsComing`: a call that waits without a deadline has its answer, or somebody at work for it, or a connection that has ended; `SentTextWaits`: a text reported as sent lies in front of its handler; `DeliverySpec`: refinement of `TextDelivery` |
| `pairing_crash` | a and b pair with each other at once, failing stores, one crash of either | `PairOkIsMutual`, `PinsHaveOwner`, and `AgreementSpec`: refinement of `TrustAgreement` |
| `device_liveness` | paired nodes, one Pair, one SendText, deadlines | `CallReturns`, `CloseReturns`, `SentTextArrives` |
| `files` | files of 3 and 1 bytes in chunks of up to 2, the first may shrink to 2 or 0 or grow to 6; a data stream of 2 chunks; every fault | `StoredInPlace`, `ReceivedIsWhole`, `CleanBetweenFiles`; `NeverBothWait`: the two calls never wait for one another; `DeliverySpec`: refinement of `FileDelivery`; `TransferCompletes`, `HangUpEndsCalls` |
| `bridge` | a, with an identity, and b and c on one new directory; each is launched once, two addresses; a browses and gives commands; reads, writes and power fail | `IdentityKept`: one identity per directory unless `upset`; `PairedKnown`: what Pair has reported both stores know whenever both run; `NoStrangerPaired`, `AnnouncedIsListed` |
| `capture` | texts `""` and `"x"`, three copies, one call by another, one crash, at most 2 entries, failing reads and statements | `IDsNameOneEntry`: an ID taken from List never gets at another entry; `Bounded`, `ShowsRecentTexts`, `RepeatsOnlyWhenRaced`; `OffersAreNews`: a text is offered only if one was copied, in this watch, since the watcher last noted what is on the clipboard, or as the first after a first read that failed; `CopiesAreCaptured`, `CancelCloses` |

Six runs end in a counterexample. In each, the code does not do what its own
documentation says:

| run | what happens |
|---|---|
| `accept_loop` | a client hangs up during its handshake; Accept returns that error, the accept loop returns, and the node, still running, serves nobody any more |
| `misrouted` | b was discovered and is gone, c, trusted as well, listens at its address now; SendText to b succeeds and c gets the text |
| `identity_lost` | the key file cannot be read once, though it is whole; LoadOrCreate makes a new identity and saves it over the old one |
| `pin_dropped` | two Pair calls for one device: the first to return unpins the key while the second is dialling |
| `close_hang` | a connection accepted before Close registers after Close has emptied `conns`; Close waits for it as long as the peer stays |
| `first_read` | the first read of the clipboard fails and counts as an empty clipboard; the next tick emits the text that was there before the watch began |

`pin_dropped` needs a program that calls `Pair` twice at once, as the API allows;
`cmd/mac` runs one command at a time.

`CloseReturns` thus holds when all peers run this program, whose calls end
(`device_liveness`), and fails with a peer that stays connected (`close_hang`);
`CloseWaitsForSomebody` says that a handler that registers late is the one case in which
nobody Close waits for need go on.

Bounds. Each call in `Call` is made at most once; `MaxCrashes`, `MaxCopies` and
`MaxCalls` bound crashes, copies to the clipboard and calls by others;
`Capacity` bounds the data stream, as its buffers do. Two nodes suffice for
everything that concerns one connection, as a node's handlers interact only
through `trust`, `conns`, `wg` and `life`, and three calls to one node already
share all of these. The theorems below have none
of these bounds; in particular, `TextsImplementDelivery` and `SentTextsWait` hold with
crashes, which `device_safety` leaves out to stay small. For files, 3 bytes in chunks of up to 2 give every way of
splitting a file, short last chunks and files of exactly one chunk; a file
of which nothing is left ends the first read; growing to 6
leaves one to three chunks over, more and less than the stream holds; the second
file is the one that meets what the first left. With at most 2 entries
kept, two copies and one other Add already make trims drop entries, and a third copy
reaches what a watch does after that; deleting needs only one call. In `bridge`, `MaxLaunches` bounds the launches of each process and
`Client` says whose browsing and commands are followed; the others are found, dialled,
and replaced. b and c are each launched once on one directory, one after the other or
at the same time, which gives restarts, a second identity after an upset, and a stale
address; with two addresses, every one that is freed is taken again. Three keys let
either directory get a new identity. `misrouted` has three settled devices that
trust each other.

State constraints. `OnlyDials` (device_safety, device_liveness) keeps node a from
installing callbacks and from closing: nobody dials a there, so neither would
matter to anybody but a itself. `NoTexts` (pairing_crash) leaves out the
MessageHandler where no text is sent. The steps cut are the user's choices, for
which no fairness is assumed, so the liveness properties are not weakened.

Fairness. `FairSpec` has weak fairness of each goroutine: the Go scheduler runs
whatever can go on, deadlines fire, tickers tick, SQLite statements and callbacks
return. It is stated per call and side (`ClientStep(c)`, `HandlerStep(c)`), per
accept loop and per Close, for the two file calls, the watcher, the receiver and
each Add. Nothing is assumed of users: nobody has to call, copy, cancel, hang up or
close, and a device outside the repository need not leave. In `Bridge`, main's
goroutine receives what Run offers (`ListPeer`), and `HearOf(p, q)` is weakly fair
because zeroconf asks again and again: as long as both processes stay, an answer
arrives. Processes need not be launched, and nothing on the way up is fair.

Every property of the passing runs has a mutant in `PROJECT.json`: a plausible
bug in the code it is about (a check left out, a counter not counted, an error not
looked at, an answer not awaited) that breaks it within the same instance.
The mutated forms stand in the modules, next to what they would replace.

## What is proved

`DeviceProofs` proves, for every number of nodes and calls, any trust on disk at
the start, any faults and any number of crashes:

| theorem | states |
|---|---|
| `TypeCorrect` | `TypeOK`, in particular that `wg` never goes below zero (Go would panic) |
| `TextsAreTrusted`, `SendOkIsTrusted` | `TextOnlyFromTrusted`, `SendOkMeansTrusted` |
| `PairingIsMutual`, `NoStrayPin` | `PairOkIsMutual`, `PinsHaveOwner` |
| `CloseIsFinal`, `CloseSeesHandlers` | `QuietAfterClose`, `CloseReachesHandlers` |
| `Refinement` | `Device` implements `TrustAgreement` |

Assumptions: `TransportAssumption` (finitely many calls, each from one node to
another) and `DeviceAssumption`; every run evaluates both. Finiteness is needed
to count: `wg` is compared with a cardinality.

The argument. None of the properties is inductive by itself; `IInv` adds

* `Shape`, the types, with `wg` an integer of any sign;
* `Vetted`, the heart of the trust properties: every piece of `Evidence` that the
  answering node has recorded the caller (its look at the table, the answer it is
  about to write or has written, where the caller stands after reading it) implies
  that it has. Trust only grows, as nothing calls RemovePeer, so evidence stays good
  across crashes and reorderings;
* `Concluded`, `Decided`, `Asked`: which calls reach which points, and that a call
  has a result exactly after the step that decides it, as the refinement needs;
* `WgCounts`: `wg[n]` is the number of live handlers plus one for a running accept
  loop. With it, `wg[n] = 0` in `CloseStore` means that nothing is left, which is
  `QuietAfterClose`, and a decrement is never one too many;
* `Phases` and `Fresh`: a node has no goroutines before Start and listens only
  while it runs, a connection is made once and handled only once it is up.

Each part has a lemma for the step (`NextVetted`, `NextWgCounts`, ...), one case
per action that can disturb it; `CallFrame`, `HandlerFrame` and `NodeFrame` say
once which variables the other actions leave alone. `AgreementStep` maps every
step to a step of `TrustAgreement` or to none: `PairBegin` to `Begin`, `StorePair`
to `Grant`, `Confirm` to `Conclude` or `Fail`, `Crash` to `FailAll`, the failing
steps to `Fail`.

`ExchangeProofs` goes on from `IInv`, with the same generality and no further
assumptions:

| theorem | states |
|---|---|
| `AnswersAreComing` | `AwaitedIsComing` |
| `SentTextsWait` | `SentTextWaits` |
| `CloseWaits` | `CloseWaitsForSomebody` |
| `TextsImplementDelivery` | `DeliverySpec`: `Device` implements `TextDelivery` |

They speak of both ends of a connection and of what is under way between them, which
`IInv` leaves open. `ExchangeInv` adds

* `Dialogue`: for each place of the caller (`Silent`, `Opened`, `Greeted`, `Pinging`)
  where the handler may be, and which messages the two queues hold. At most one message
  is under way, in one direction. Without that, a queue might hold a second answer or an
  answer of the wrong kind, and a closing end might leave something unread;
* `OneHandshake`, `Occupied`, `Shaking` and `Handshaken`: the accept loop is busy with
  the one handshake it has begun; the client is still at it, unless an end has closed;
  a call whose handshake is over has a handler, or the loop is about to start it, or
  the server's end has closed;
* `Posted`: a text is under way or received only once SendText has said so, and once;
* `Waited`: a call holds its end until it unwinds, so SendText writes to a handler that
  is in its loop, and then leaves nothing unread, so that its closing resets nothing.

`CallKeeps`, `HandlerKeeps`, `NodeKeeps` and `CrashKeeps` say that a step of one
goroutine leaves the other connections as they are (`Kept`) or closes an end of them
(`Cut`); `KeptTalk` and `CutTalk` follow once for all actions. What remains of each
invariant's step are the steps of the connection itself. `DeliveryStep` maps `SendText`
to `Succeed`, `LoopMessage` to `Receive`, every way to fail to `Fail`, a crash to a
`Fail` of all the texts the node was sending, a growing peers table to `Trust`.

`BridgeProofs` proves, for any number of processes and directories, any keys settled
and befriended before, any faults, launches and clients:

| theorem | states |
|---|---|
| `BridgeTypes` | `TypeOK`; no process has itself in its table |
| `OneIdentity` | `IdentityKept` |
| `PairsStayKnown` | `PairedKnown` |
| `PairsAsAsked` | `NoStrangerPaired` |

It assumes `NoneAssumption`, `IdentityAssumption` (each settled key belongs to one
directory) and `BridgeAssumption`. `Stages` gives every process what its place in
main needs. `Kept` is why an identity survives: while nothing has upset a directory,
its key file holds the one identity in use, at most one process is creating one, and
until that has written it nobody uses any. `Owned` (a key is around in one directory,
because Generate takes new ones) and `Known` (who runs uses an identity in use; who
has answered Pair has recorded the caller; reported pairs are recorded in both stores)
give `PairedKnown` together with `Kept`; they only rest on identities and trust that
grow (`Grows`). `Expected` says that whoever a Pair has met was trusted or pinned.

`CaptureProofs` proves, for any texts, any limit, any number of adders, copies, calls
and crashes, any failures:

| theorem | states |
|---|---|
| `CaptureTypes` | `TypeOK`, with the table in the order of its IDs |
| `OffersAreOfCopies` | `OffersAreNews` |
| `IDsAreGivenOnce` | `IDsNameOneEntry` |
| `HistoryIsBounded` | `Bounded` |
| `RepeatsAreRaced` | `RepeatsOnlyWhenRaced` |
| `ListsRecentTexts` | `ShowsRecentTexts`: `Capture` implements `RecentTexts` |

It assumes `WatcherAssumption`, `HistoryAssumption` and `CaptureAssumption`.
`NewestRows` and `WithoutOne` say what a trim and a deletion do to a sequence of
entries; everything about the table rests on them. `OffersAreNews`
follows from `UpToDate`: in a watch that has read the clipboard, and while nothing has
been copied since, what the watcher remembers is what is there, so that only a copy
makes a tick find another text. `IDsNameOneEntry` is inductive together with the part of
`TypeOK` that bounds every ID there has been by `lastID`, also after the entry is gone;
`TypeOK` is not checked by a run of its own. `Bounded` is
inductive as it stands, because it counts both the Adds between their insert and their
trim (`Trimming`) and what earlier ones `owed`; this is where adders have to be finitely
many. `Compared` says what an Add knows that nobody has raced: its text still differs
from the newest entry. For the refinement, `Recent` is the table without the entries
`List(Max)` does not show. An insert is a `Record` that drops the oldest when the list is
full (`RecordStep`), a trim changes nothing of what is shown (`TrimStep`), and a deletion
takes out one text or, when an entry comes into sight that was waiting for its trim,
brings that back (`DropStep`).

`FilesProofs` proves, for any number of transfers, files of any sizes that may change, any
chunk size and capacity, any faults:

| theorem | states |
|---|---|
| `FilesTypes` | `TypeOK` |
| `FilesInPlace` | `StoredInPlace` |
| `FilesAreWhole` | `ReceivedIsWhole` |
| `FilesLeaveNothing` | `CleanBetweenFiles` |

It assumes `FilesAssumption`. The invariant follows the bytes from the file to the
writer. `OffersOnce`: until its offer has been read a transfer has left no trace, so
everything under way belongs to transfers already begun. `Pieces`: a chunk is a
contiguous piece of its file. `Runs`: the chunks of one file stand together, each begins
where the one before ends, and the last ends where the sender is. `InStep`: the first chunk of the file being
received begins where the writing has come to, and if there is none, the sender is there
too; so a chunk that has the right ID has the right place, although nobody looks at its
offset. `Beginning` is then kept by `ReadChunk`. `Ends` and `Enough` say when
FILE_COMPLETE may be on its way and be believed. `Lockstep` lists, for as long as nothing
has gone wrong (`Untroubled`), the five ways the two calls can stand to each other and
what the streams hold in each; when both are back only `Offering` is left, and the
streams are empty. `AllRead` is the step that needs everything before: when the receiver
has enough bytes of a file that kept its size, no chunk of it can be left.

`FileDeliveryProofs` goes on from there, with no further assumptions:

| theorem | states |
|---|---|
| `FilesNeverBothWait` | `NeverBothWait` |
| `FilesImplementDelivery` | `DeliverySpec`: `Files` implements `FileDelivery` |

`NeverBothWait` rests on `Lockstep` and on two invariants more. `Wanting`: the receiver
asks for a chunk only while it has less than was offered. `Reaching`: when FILE_COMPLETE
is under way, what lies on the data stream reaches to the end of what was sent, or,
when the stream is empty, that has all been written; so a receiver that still wants a
chunk has one. For the refinement, `WithinSent` bounds what is written and under way by
what was sent, `Accepted` says that ACCEPT comes from a receiver that has opened the
transfer, and `Finished` that FILE_COMPLETE is sent, and believed, only after SendFile's
success. Messages, chunks and answers stutter; a write is a `Write`, also the one that
fails and leaves some of its bytes.

Only model-checked: the liveness properties (`CallReturns`, `CloseReturns`,
`SentTextArrives`, `TransferCompletes`, `HangUpEndsCalls`, `CopiesAreCaptured`,
`CancelCloses`, `AnnouncedIsListed`), as fairness and ENABLED are out of the prover's
reach. Every other property of a passing run is a theorem.

## Not modelled

* The network failing under an established connection that both ends keep: connections
  end because an end closes, its process dies, or a deadline passes in the handshake.
* FILE_CANCEL (`protocol/message.go:111`): no code sends or understands it. A cancelled
  SendFile returns without a message, and the ReceiveFile of that transfer waits until
  the streams are closed, as `Cancel` and `HangUpEndsCalls` have it.
* The zeroconf library: an announcement arrives while both processes run, or not.
  Two devices of one name, which zeroconf may mix up, and answers without a key.
* Users who pair with themselves, or type an address that is nobody's; which device a
  name or prefix that fits several was meant for.
* A Pair that another, already trusted device answers: it reports success for the one
  asked for. No doc says what it should do; `NoStrangerPaired` says that nobody else is
  recorded.
* Concurrent Adds of one text can both insert it (`RepeatsOnlyWhenRaced` says when); no
  caller in `src/` does that.
* Cryptography, certificates, JSON, framing and TXT records: a message has its
  type and its sender, and is read as it was written. A frame cut in half ends the
  stream.
* Peers that lie about their identity: what `Verify` and `verifyIdentity` reject
  does not occur.
* Patterns in Search: `%` and `_` match anything. It only reads.
* RemovePeer (no caller); Search, Get and Peers (they only read).
* Times and text contents, beyond equal or not.

## Plan

1. Done: `Transport`, `Device`, `TrustAgreement`, then `DeviceProofs`; `Files`;
   `Watcher`, `History`, `Capture`, `RecentTexts`.
2. Done: `Identity`, `Discovery`, `Bridge`, then `BridgeProofs`.
3. Done: `CaptureProofs`, `FilesProofs`.
4. Done: `TextDelivery` and `ExchangeProofs`, `FileDelivery` and `FileDeliveryProofs`.
5. Open: frames as they are written (header, body) if a second writer to a stream
   appears in the code; the calls of `history`, `clipboard` and `files` in place of the
   external ones when a program in `src/` makes them.
