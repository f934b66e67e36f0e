# A TLA+ model of swpt_stomp

`swpt_stomp` moves SMP messages between two Swaptacular nodes.  The sending
node runs a *client* process that takes messages from a RabbitMQ queue and sends
them over STOMP 1.2; the receiving node runs a *server* that publishes them to
a RabbitMQ exchange and answers with receipts.  What the two promise together
is at-least-once delivery: a message leaves the sender's queue only after the
receiver's broker has stored it.  The specifications in this directory model
the code that keeps this promise, and the code around it that decides which
messages are sent where, who may connect, how octets become frames and when a
silent peer is given up.  TLC checks them on small instances, and TLAPS proves
the safety properties of seven of them for all instances.

## The system

    application -> exchange -> queue -> consumer task -> StompClient ==TCP== StompServer -> publisher task -> exchange -> application
                                     <- acks          <- receipts            <- receipts            <- publisher confirms

| Part | Code | State | Operations | Modelled by |
|---|---|---|---|---|
| publisher task | `rmq.py` `publish_to_exchange` | deque of deliveries, pending futures, two events, first failure | `publish_messages`, `deliver_message`, `on_confirmation`, `send_receipts`, `report_failed_confirmations`, the `finally` clause | `Publisher` |
| queues | `common.py` `WatermarkQueue`, `terminate_queue` | items, paused flag, a put task | `put_nowait`, `task_done`, `terminate_queue` | `Publisher`, `Consumer` |
| server protocol | `aio_protocols.py` `StompServer` | connected, done, last ids, DISCONNECT id, writer task | `data_received` and its handlers, the writer, timers, `connection_lost` | `StompServer` |
| client protocol | `aio_protocols.py` `StompClient` | connected, done, last ids, DISCONNECT sent, writer task | as the server | `StompClient` |
| one connection | both protocols over TCP | the frames in flight | deliver, lose, close | `StompSession` |
| heart-beats | `aio_protocols.py` `_connect`, `_send_heartbeat`, `_check_aliveness`, `_detect_connected_timeout` | timers of both ends | negotiate, beat, watch, time out | `Heartbeats` |
| parser | `stomp_parser.py` | buffer, positions, the frame begun | `add_bytes`, `__bytes__` | `StompParser` |
| consumer task | `rmq.py` `consume_from_queue` | delivery tags, channel | `consume_queue`, `send_acks`, end of the task | `Consumer` |
| client process | `client.py` `connect` | one connection | ends with the connection, is started again | `Consumer` |
| admission | `server.py` `publish`, `_allowed_peer_connection` | connection counters | check, count, give back | `Admission` |
| peer data | `peer_data.py` | cache of peers; files of the node | look up, read files, store, evict; subnets of a peer | `Admission`, `PeerDirectory`, `Subnets` |
| message processing | `process_messages.py`, `smp_schemas.py` | none | `transform_message`, `preprocess_message`, the schemas | `ProcessMessages`, `SmpSchemas`, `Subnets` |
| queue configuration | `configure_queue.py` | exchanges, queues and bindings of the broker | the requests of `bind_queue` | `MessagePath` |
| command lines, logging | `loggers.py` and others | none | | not modelled |

The tasks of one process share an event loop, so code between two suspension
points (`await`s that really wait, and callbacks) is atomic: that is what one
action is.  What makes the system hard to test is what happens between them:
confirmations in any order, a `put` that blocks on a full queue while
confirmations keep coming, an event cleared after a loop that looked at its
cause, a `finally` clause during which the other coroutines go on, a DISCONNECT
that crosses the last receipt, a connection that is lost at any point, processes
that end with acknowledgements not yet sent, a head cut between two octets, and
two nodes whose directories disagree.

## The modules

**`Publisher`** — the publisher task of one connection.  Messages are numbered
in the order in which the protocol put them in `recv_queue`.  `PublishMessage`,
`PublishBlocks`, `PublishResumes` and `PublishEnds` are `publish_messages` cut at
its two waits; `PreprocessOk`, `PublishConfirmed`, `DeliveryFails` and
`OnConfirmation` are the life of a delivery's future; `SendReceipts` and
`ReceiptPut` are `send_receipts`, cut at a `put` that has to wait;
`ReportFailure` and `Finish` are the ways out through `gather` and the `finally`
clause (`EnterFinally`, phase `"drain"`), during which the two coroutines still
run, as they do in the code.  `Receive`, `WriterGet` and `ConnectionLost` are the
protocol's use of the two queues.  The broker (`BrokerStores`) is external: it
stores a message that was written to it, in any order, also after the future was
cancelled, and `exchange.publish` returns only after that.

**`ReceiptService`** — what the publisher promises, in four variables and four
actions.  `Publisher` is shown to implement it (`ImplementsReceiptService`, with
the last receipt, the stored messages and the end marker as the mapping).

**`StompFrames`**, **`StompServer`**, **`StompClient`** — the two protocols.  A
frame is its command, its id, and whether its other headers pass the receiver's
tests.  `Refuses(f)` collects the conditions under which a handler closes the
connection.  The server is checked by itself against any client; the client has
no specification of its own and is used by

**`StompSession`** — client and server over TCP: in-order channels, either
side's close, failure of the network, timers at any time.  The two users of the
queues are reduced to what `Publisher` and `Consumer` show of them.

**`Heartbeats`** — the timers of the two ends, with a clock.  `Connect` is the
negotiation, done at each end from its own settings and those of the other;
`SendHeartbeat`, `CheckAliveness` and `DetectConnectedTimeout` are the callbacks;
`PauseReading` stands for the high watermark, `Cut` for a network that fails
without a word.  `Tick` moves all timers by one unit, and only when nothing is
due: callbacks run in time and octets take at most `MaxNetworkDelay`, which is
what the code supposes.  `blind` and `alarm` are history.

**`StompParser`** — the serialiser and the parser, octet by octet.  `Sendable`
are sequences of frames; `Init` serialises one of them with either end of line,
with heart-beats between the frames, and the peer may write another octet instead of
one (`Noise`) or some octets too many (`Slips`), such as a minus sign.
`DataReceived(n)` hands the next `n` octets to `add_bytes`, for every `n`, so
that every way of cutting the stream is a behaviour.  The two regular
expressions are match operators on the buffer; positions, limits, the search for
the end of the body and the deletion of what was read are as in the code.  The
limits are constants, so that a few octets reach them.  `ContentLength` is `int()`
with white space and the minus sign, and `Find` is `bytearray.find`, to which a
negative start counts from the end.  With a negative length the position may move
back and the loop of `add_bytes` may never end; `LoopBound` is the number of blocks
after which it cannot end any more, and a parser left with `more` is one whose
`add_bytes` does not return.

**`Consumer`** — the consumer task, the RabbitMQ queue it consumes with
prefetch, acknowledgement of all tags up to one, redelivery when the channel is
closed, and the life of client processes, which end with their connection or
are killed.  Everything behind the STOMP client is a link that may store what
was sent and gives ascending receipts for stored prefixes, which is what
`StompSession` and `Publisher` establish.

**`AtLeastOnce`** — what a transfer promises: messages leave the sender's queue
from its front, each after the receiver has stored it.  `Consumer` is shown to
implement it (`ImplementsAtLeastOnce`); the queue of the abstract specification
is `Requeued`, what RabbitMQ would deliver again if the channel closed now.

**`Admission`** — the publish tasks of all connections of a server: certificate,
cache, reading of the peer's files (the only suspension), limit and counter.
Time is a counter; an operator may create or remove a peer's `ACTIVE` file at any
time.  `lastActive` is history.

**`Subnets`**, **`PeerDirectory`**, **`SmpSchemas`**, **`ProcessMessages`** — pure
definitions.  `Subnets` has `Subnet` and `_change_subnet` on signed IDs of
`DigitBits * IdDigits` bits (64 in the code) with Python's unbounded arithmetic;
`PeerDirectory` what a node derives from its files about itself and a peer;
`SmpSchemas` the ten schemas, with the fields that other fields or the forwarding
depend on; `ProcessMessages` the two functions that a message passes.

**`MessagePath`** — these definitions put together with `configure_queue.py`: nodes
with directories that may disagree, `ConfigureStep` for each request to the
broker (the command may stop half-way and be given again), applications that
publish sound and unsound messages and answer what they get, and `Transfer`,
the whole of a connection in one step.  Links that are not in `Fresh` are configured
from the start, if they can be (`Configurable`).  Applications and broker are external.

`MC*` modules extend these for TLC.  Definitions marked *Mutant* in a comment
are not part of any specification: each is a faulty version of the definition
below it and shows that a property depends on it.

## What is checked

| Run | Instance | Properties |
|---|---|---|
| `publisher` | queue size 2, 5 messages, chunks of up to 2 | `TypeOK`, `ReceiptsTruthful`, `ReceiptsAscend`, `WindowBound`, `NoLostResume`, `NoLostWakeup`, `BacklogBound`, `ImplementsReceiptService` |
| `publisher_live` | queue size 1, 5 messages | `EveryMessageReceipted`, `EndsUnlessWedged` |
| `publisher_wedge` | queue size 1, 4 messages | `LostConnectionEndsTask` — violated |
| `server` | 4 messages, any client | `TypeOK`, `ReceiptsBacked`, `ReceiptsOrdered`, `FramesWellFormed`, `DisconnectAnswered` |
| `session` | 2 messages | `AcksTruthful`, `AcksAscend`, `NeitherRefuses`, `DisconnectCompletes`, `SessionEnds` |
| `consumer` | queue size 3, 5 messages, 2 failures, one message that may be refused | `NoLoss`, `AcksOutstanding`, `PutFindsRoom`, `ImplementsAtLeastOnce`, `EveryMessageTransferred` |
| `admission` | 3 connections, 3 peers, limit 2, cache of 2, cache time 1, reading time 1, time up to 3 | `TypeOK`, `SlotsExact`, `CacheBounded`, `AdmittedAreFresh` |
| `heartbeats` | unit 5 seconds, the default delay and period, three settings for each end | `NoFalseAlarm`, `NoticedInTime`, `CutIsNoticed` |
| `parser` | four pairs of frames, both ends of line, with and without heart-beats, at most one octet replaced, or a minus sign with or without a digit inserted | `ChunkingInvisible`, `FramesArrive`, `BufferBounded` |
| `parser_split` | the same without replaced and inserted octets | `RaisesOnlyOnViolation` — violated |
| `messages` | IDs of 4 bits, six nodes, a link being configured, 2 published messages | `QueuedIsDeliverable`, `InboxSound`, `AnswersReachAskers`, `OneShardPerAccount`, `RoutedOnce` |
| `messages_sign` | the same nodes, one with a range of the other sign | `TranslatedIntoRange` — violated |

*Bounds.*  A queue of size 2 with 5 messages lets the window fill, a receipt
block on a full `send_queue`, and the window fill again behind it; with size 1 this
takes 3 messages, and a further one waits for the window.  Two messages on a
connection are enough for a receipt before, at and after the crossing DISCONNECT;
the server alone is checked with 4.  Two failures allow a failure during the
recovery from another.  In `admission`, three connections are one more than the
limit and three peers one more than the cache holds, and time runs one tick past
the longest allowed age; connections and peers are symmetric there.  In
`heartbeats` the settings are the defaults, an end that sends no heart-beats and
one that sends and wants them often, in all combinations; `LongTime` is above
every time that the watchdog compares with.  The frames of `parser` have escapes
in names and values, a repeated end of line, NUL octets in a body and bodies at
the limit; a replaced octet may be a digit, a delimiter, a NUL, an end of line or
no UTF-8, at every place: it changes lengths, ends heads and bodies early or not
at all, and breaks escapes.  An inserted minus sign makes a length negative; with a
digit behind it the body seems to end in the frame before or in front of the
buffer.  In `messages` a digit has one bit and a byte two; IDs
have both signs, one agent is known under another range than its own, and two
links have directories that disagree; two published messages are a request and its
answer, or two requests about the same account.

*Deadlock* is not checked: every one of these systems may stop, when the
connection has ended, everything was transferred, or a bound is reached.

*Fairness.*  The event loop runs every coroutine that is ready, so the steps of a
coroutine are weakly fair.  Delivery futures end, because `preprocess_message`
never waits and `exchange.publish` has a timeout.  The other conditions are
assumptions about the surroundings, which the code alone does not guarantee:
the other side keeps reading, so that the writer takes from `send_queue` while the
connection is up (`pause_writing` ends in `resume_writing`); TCP delivers while the
network is up, and a closed or failed connection is noticed (for a silent failure
`CutIsNoticed` shows it from the timers alone); in `Consumer`, RabbitMQ delivers, the
peer confirms what it stored, and something outside this repository starts a client
process again when it ends.  One condition is strong fairness: a message that is sent
again and again is some time stored by the peer, although each connection may end
before that.  In `Heartbeats` time passes and the timers that are due run.  Nothing
forces a failure, a timer of `StompSession`, or the arrival of a message.

### The publisher task can outlive its connection

`server.py` says that putting `None` in `recv_queue` "cancels the publisher task
immediately".  In `publisher_wedge` it does not.  The client is slow to read, so
that `send_queue` is full; `send_receipts` waits in `put` with one more receipt;
behind it the window fills, and `publish_messages` takes another message and waits
for the window.  Now the connection is lost.  The writer is cancelled, so nobody
empties `send_queue` again, `send_receipts` never returns to reopen the window, and
`publish_messages` never reads the `None`.  The task stays for ever, and with it
the peer's place in `_connection_counters`.  `EndsUnlessWedged` shows that this is
the only way in the instance checked: in every other case the task ends.

### A heart-beat of CR LF can be cut into an error

`add_bytes` promises a `ProtocolError` only for a stream that "does not obey the
STOMP 1.2 protocol specification".  In `parser_split` a correct stream is refused:
between two frames comes an empty line CR LF, and a chunk ends after the CR.
`_HEARTBEAT_RE` leaves the CR unread, `_HEAD_RE` allows an incomplete head but no
lone CR at its start, and the parser raises.  `ChunkingInvisible` and `FramesArrive`
except exactly this case (`HalfEmptyLine`), and the instance has no other.  Both
ends of this repository write LF and do not meet it; a peer may write CR LF.

### A negative content-length is not ignored

`test_content_length_too_big` says "Invalid content-length's get ignored."  A value
that `int()` does not read is ignored, but `_parse_command` compares what it does read
only with `BODY_MAX_LENGTH`, so that a negative number becomes the length.  In the run
`parser` this happens: the search for the NUL starts before the buffer, which to
`find` means near its end, and the body runs over NUL octets that would end it
otherwise; or a frame is still in front of this one in the buffer, its NUL is found
again, and the same head is parsed without end.  What is handled then depends on the
cuts, so `ChunkingInvisible` speaks of streams as long
as no negative length was read (`LengthsNatural`); `BufferBounded` needs no such
condition.  The peers of this repository write the length of the body.

### IDs do not cross the sign

`_change_subnet` joins the unsigned bits of a subnet with the rest of a signed ID.
Between a range of non-negative IDs and one whose first bit is set the result is
not a signed 64-bit ID, and not in the range "reserved for the creditors agent", as
the comment in `transform_message` has it.  In `messages_sign` the message stays at
the head of its queue.  `QueuedIsDeliverable` is therefore about links whose two
ranges have the same sign (`Agreed`); on these no sound
message blocks a queue.

## What is proved

Every theorem is for all values of the constants, under the assumptions that the
module with the constants names.  The proofs show that an inductive invariant holds
initially and is kept by every action, and derive the properties from it.

`PublisherProofs`, for every queue size (zero included),
every number of messages and every chunk size (natural numbers):

* `TypeCorrect`: `Spec => []TypeOK`.
* `ReceiptsAreTruthful`, `ReceiptsDoAscend`: neither property is inductive.  The
  strengthening `Inv` says that there is a base `b` such that
  - `Places(b)`: the deque is `b+1, b+2, ...`, followed by the message in the hands
    of `publish_messages` and by `recv_queue`, without a gap;
  - `Stored(b)`: the broker stored everything up to `b`, everything confirmed, and
    everything whose future succeeded, and nothing beyond the deque was started;
  - `Receipts(b)`: receipts, one held by a blocked `send_receipts` included, are
    ascending and at most `b`, and before the end of the task there is no end
    marker in `send_queue`.

  Every action keeps `b`, except `SendReceipts`, which moves it up by the length of
  the confirmed prefix.
* `WindowIsBounded`: with the invariant that the event `can_make_deliveries` is
  cleared exactly when the window is full.
* `ResumeIsNotLost`: inductive with `TypeOK`; it needs that the low watermark is
  below the high one, or both are zero.
* `WakeupIsNotLost`: needs `Inv`, since a confirmation can only make the head of the
  deque confirmed if the message is in the deque, and that there are no deliveries
  before the channel is open.
* `ImplementsReceiptServiceHolds`: the refinement.  `Receive` is an `Accept`,
  `BrokerStores` a `Store`, a receipt that enters `send_queue` (at once or after
  waiting for room) a `Receipt`, the end marker the `End`, and every other action a
  stutter.  Besides `Inv` it needs
  `Within`: nothing is delivered or receipted that was not received.
* `BacklogIsBounded`: with `Backlog`, which has a tighter bound while reading is not
  paused.

`StompServerProofs`, for any number of messages and any client:

* `TypesHold`, `ReceiptsBackedHolds`, `ReceiptsOrderedHolds`, `FramesWellFormedHolds`.  The
  invariant `SInv` orders the counters (a message is received, confirmed, then
  receipted: `Counts`), says that the receipts in `send_queue` ascend from above the
  last one written and that an end is its last item (`Queue`), that nothing precedes
  CONNECTED (`Stage`), and repeats the three properties with what makes them
  inductive (`Wire`): before the close, every receipt on the wire is at most
  `lastRcpt`, so that the next one is larger; the answer to a DISCONNECT is written
  only when the publisher has confirmed the last message.

`SessionProofs`, for any number of messages (`SessionAssumption`):

* `AcksTruthfulHolds`, `AcksAscendHolds`, `NeitherRefusesHolds`.  The invariant
  `IInv` follows a message around the connection: it is sent, received, confirmed by
  the publisher, then receipted (`Numbers`).  What is on the way to the server
  continues exactly what the server has received, with at most one DISCONNECT behind
  it (`Up`), so the server never finds a frame out of place.  What is on the way to
  the client starts with CONNECTED, and its receipts ascend from above the last one
  that the client saw (`Down`).  The one exception is the receipt of the last
  message, which the server may write again as the answer to DISCONNECT: `Ascending`
  lets it be repeated, and the client has closed when it takes the first of the two.

`ConsumerProofs`, for every queue size (zero included), any number of messages and
failures, and any set of refused messages:

* `NoLossHolds`, `AcksOutstandingHolds`, `PutFindsRoomHolds` and
  `ImplementsAtLeastOnceHolds`.  The invariant `CInv`: a delivery is delivered, taken,
  sent, receipted and acknowledged in this order and within the prefetch count
  (`Progress`); `send_queue` holds just the tags taken and not sent, then ends
  (`Sending`); every tag up to the last receipt is stored (`Storing`); receipts
  ascend from above the last acknowledged tag (`Receipts`); and after the end of
  the task what was not acknowledged is back in front of the queue (`Returned`).
  `NoLossHolds` follows from the refinement: the abstract queue starts with all
  messages and loses only stored ones.

`HeartbeatsProofs`, for any period of the watchdog, network delay and settings of the
two ends (`TimesAssumption`), provided that a round trip is no longer than the slack
of the watchdog (`RoundTripAssumption`; it holds for the defaults):

* `NoFalseAlarmHolds`: the invariant `Coming` says that an end that has heard
  nothing for a time has something on the way that left before the patience of the
  watchdog was exhausted, or will have (`Beating`).  It rests on the handshake
  (`Handshake`, `Waiting`): the time that the client has waited for CONNECTED bounds
  the silence the server has seen, and the client's first heart-beat makes up for it.
* `NoticedInTimeHolds`: what is left of the watchdog's sleep and the silence so far
  are together bounded (`Watched`).

`AdmissionProofs`, for every finite set of connections, any set of peers, any
limit and times, and a cache size of at least one (as `peer_data.py` asserts):

* `SlotsAreExact`: the counter of a peer is the cardinality of the set of its
  serving connections and within the limit; the check and the increment are one
  step, which is what the proof rests on.
* `AdmissionTypes`, `CacheIsBounded` and `AdmittedPeersAreFresh` (an action
  property), from the invariant `Fresh`: a task that has seen the `ACTIVE` file did
  so at most `MaxRead` ago, and a cache record's time is at most `MaxRead` after the
  peer was last active.  `MaxRead` is an assumption about the file system: the code
  sets no limit.

`MessagePathLemmas` and `MessagePathProofs`, for any set of nodes, any directories,
any size of a digit and any even number of digits (`WidthAssumption`; 4 and 16 in the
code), under three assumptions on `Net`:

* `NetAssumption`: the files are well-formed, and the type that a directory has for a
  peer is the type of the peer.  The certificate of a peer names its node ID, but
  nothing in the code compares the types.  Ranges of two directories may disagree, be
  invalid or have no binding key.
* `RangesAssumption` and `AuthoritiesAssumption`: operators give different agents of
  one accounting authority disjoint ranges, no creditors agent a range with the root
  creditor (ID 0), debtors agents parts of the authority's own range; two authorities
  of a creditors agent have no debtor in common; a debtors agent has one authority.
  The code relies on this and does not verify it.  `messages` evaluates all three on
  its net.

About the operators:

* `ChangeInto`, `ChangeBack`, `ChangeInInt64`: a translation between subnets of one
  size ends in the second subnet, can be undone, and stays within 64 bits if the two
  subnets have IDs of the same sign (`messages_sign` shows that it need not
  otherwise).  The masks and the digits become arithmetic on powers of two; `Parse`
  yields a mask of leading ones and a subnet within it.
* `KeyMatchesIffMatch`: the topic exchange selects by the octets of `binding_key`
  exactly the IDs that `Subnet.match` accepts.

About the messages:

* `PathInvariant`: no property of the path is inductive, since a message in an inbox
  of an accounting authority is the reason for answers that travel later.  The
  invariant `PathInv` gives the origin of every message.  In the inbox of an authority
  is a request of the peer it came from (`FromAgent`): for some creditor `c` of
  that peer, its asker is `c` and its creditor ID is `c` as the peer translates it,
  within the range that the authority has for the peer.  In the inbox of an
  agent is an answer, under the creditor ID that the asker knows (`FromAuthority`).
  A queue has only messages that the application of its node may publish and that its
  binding selects (`QueueInv`).  The step of a request (`RequestArrives`) and of an
  answer (`AnswerArrives`) over a link are lemmas about the two directories alone.
* `InboxSoundHolds`, `AnswersReachAskersHolds`, `OneShardPerAccountHolds`: from the
  origins, with `ChangeBack` for the way back and, for the shards, disjoint ranges and
  a translation that is one-to-one.
* `QueuedIsDeliverableHolds`: what the bindings select passes the checks of both ends
  if they agree on the range (`RequestDeliverable`, `AnswerDeliverable`).
* `RoutedOnceHolds`: the binding keys of a configured node select one peer for every
  account of its application, because an account of an authority has an origin and
  the ranges are disjoint.

Induction, which the value of a row of digits and the powers of two need, is done by
least counterexamples: `NatMin`, that a nonempty set of naturals has a least element,
follows from the library's `NatLessThanWellFounded` and `WFMin`, and `NatInductionSet`
is the induction over a set of naturals.

Only model-checked: all liveness properties (`EveryMessageReceipted`,
`EndsUnlessWedged`, `DisconnectAnswered`, `DisconnectCompletes`, `SessionEnds`,
`EveryMessageTransferred`, `CutIsNoticed`), which are out of the prover's reach; and the
properties of `StompParser`, whose parser is written with recursive operators, for
which the prover has no backend.

## What is not modelled

* In the parser: spellings of a natural `content-length` other than a row of digits
  (`int()` also accepts a plus sign, underscores and the digits of other scripts), and
  characters of several octets.
* In the messages: the text of JSON, the validators of single fields (one flag
  for each message), and the MD5 digest in the routing key of the receiver; the IDs that
  go into the digest are modelled.  Every message that arrives has passed the checks of
  the sender, so `InboxSound` tries those of the receiver only where the directories
  of the two disagree.  `RoutedOnce` is about nodes whose configuration is complete, at
  first or after it was run again; in between a message may find no queue.
* What happens in `aio_pika` when the broker is lost: `BrokerLost` ends the task, as the
  code expects of the library.
* In `configure_queue`: several queues for one peer behind an `x-random` exchange,
  and the time to live of the dead-letter queue.
* TLS, certificates, `stomp.toml` and the choice of the server to connect to.
* Flow control of the transport (`pause_writing`) as state of its own: it delays the
  writer, which the safety checks let wait for any time.
* A late event loop: in `Heartbeats` callbacks run when they are due.
* The connection as a whole in one specification: `Consumer` and `Publisher` have an
  abstract link and an abstract client, which `StompSession` connects.  That each
  assumes of the others what they are shown to do is argued here and not checked.
* Command lines and logging.
