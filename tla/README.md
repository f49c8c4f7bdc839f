# A TLA+ development for shiguredo/http3-rs

The library is a sans-I/O HTTP/3 stack in Rust: QPACK, request streams, the
control stream, WebTransport over HTTP/3, all driven by a caller that feeds it
QUIC stream data and takes data to send. Paths below are relative to the
repository, which lies in `src/`.

## Inventory

| Part | State | Operations | Hard behaviour | What makes it correct |
|---|---|---|---|---|
| Dynamic table (`src/qpack/dynamic_table.rs`) | entries, `insert_count`, `dropped_count`, size, capacity, `eviction_limit` | insert, duplicate, set_capacity, lookups in three index spaces | eviction under references, an insertion refused after it evicted | both ends hold the same table |
| Encoder, decoder (`src/qpack/encoder.rs`, `decoder.rs`, `*_stream.rs`) | tables, peer limits, `known_received_count`, unacknowledged sections | encode, track, acknowledge, cancel, apply instructions, decode or block | sections and instructions arrive in any relative order; the count on the wire is truncated | a section decodes to what was encoded, whenever it is decoded |
| Request streams (`src/connection/mod.rs`, `src/stream/`) | per stream: buffers, receive and send state, parked section; per connection: `blocked_by_ricnt`, events, deferred instructions, error | feed_stream, poll_event, send_*, take_stream_data, stream_reset, stop_sending | several streams parked at once, errors and cancellation among them, when a stream may be forgotten | events in order, no stream lost or left over |
| Control and unidirectional streams (`process_control_stream`, `src/stream/control.rs`, `src/settings.rs`) | ids of critical streams, incomplete types, peer settings, GOAWAY ids | stream types, SETTINGS, GOAWAY, MAX_PUSH_ID, closure | chunks that cut a type or a frame, GOAWAY crossing requests, both ends concluding from what they have so far | the peer is refused for what it did wrong and for nothing else |
| WebTransport sessions (`src/connection/wt_*.rs`) | sessions, their streams, buffers in three places, tombstones, credit | CONNECT, capsules, data streams, datagrams, close, drain | streams before SETTINGS, before their session, after its end; five ways to end | bytes delivered once, one end, nothing afterwards |
| Session API (`src/webtransport/session/`) | state, limits, sent and received amounts, queued capsules | open, send, receive, WT_MAX_*, WT_*_BLOCKED, close | credit under way in capsules that data overtakes | no false violation, blocked senders resume |
| Codecs (`src/varint.rs`, `src/frame/`, `src/qpack/integer.rs`, `huffman.rs`, `src/webtransport/capsule.rs`, `datagram.rs`, `stream.rs`, `error.rs`) | none | encode, decode | boundaries, partial input, other spellings of a value | every value survives every cut |
| Header rules and CONNECT (`src/validation.rs`, `src/qpack/header.rs`, `src/webtransport/connect/`) | none | check a field, a section; write and read the request and the response | combinations of fields, two copies of the rules, quoting | exactly the grammar |
| s2n-quic integration (`crates/tokio-s2n-quic`) | a `Connection` behind a mutex, notifications, channels | tasks for streams, calls of the application | interleavings around the lock, lost wakeups, ends that race | calls return, and return the right thing |
| ngtcp2 integration, examples, interop, fuzz, pbt | | | | not modelled |

Interaction: `Connection` owns one encoder and one decoder. SETTINGS of the peer
configure the encoder; the peer's encoder stream feeds the decoder's table;
HEADERS frames of request streams are decoded with it or parked until
`poll_event`/`drain_events` retries them; a decoded section puts a Section
Acknowledgment on the decoder stream, a reset one a Stream Cancellation; the
peer's decoder stream feeds the encoder. SETTINGS also decide whether and how
WebTransport is spoken, and release the CONNECTs and the streams that waited for
that. The integration feeds all of it from several tasks.

## Modules

Where a model has a variable `scope`, it holds the instance that a behaviour
explores (roles, streams, inputs, faults); the MC module lists the scopes, and no
step changes it. Values that no step of the code reads, kept for the properties,
are marked (history).

### QPACK

`QpackTable` holds the dynamic table as operators on a record: every function of
`DynamicTable` that changes state is one operator, and so is the arithmetic of
the Required Insert Count on either side. The table keeps evicted entries in its
log below `drop`; no operator reads them, and the invariants can name them.

`QpackSync` composes the encoder side and the decoder side of one direction of a
connection:

| State | Code |
|---|---|
| `enc` | `DynamicEncoder`: table, `max_table_capacity`, `max_blocked_streams`, `known_received_count`, `unacked_sections` |
| `rcvd` | `DecoderStreamReceiver::known_received_count` |
| `encStream`, `decStream` | instructions written and not yet processed by the peer |
| `reqs` | field sections in flight, per stream, the blocked one included |
| `dec` | the `DynamicTable` of `DynamicDecoder` |
| `told` | the Known Received Count as the decoder's caller tracks it |
| `err` | the QPACK connection error |

| Action | Code |
|---|---|
| `RecvSettings` | `process_control_stream`, SETTINGS branch |
| `EncSetCapacity` | `set_table_capacity`, `encode_set_capacity` |
| `EncInsert`, `EncInsertNameRef`, `EncDuplicate` | `DynamicEncoder::insert`, `DynamicTable::duplicate` and the instruction |
| `EncSection` | `encode`, `encode_with_dynamic`, `track_section` |
| `DecInstruction` | `process_encoder_stream`, `EncoderStreamReceiver::process` |
| `DecSection` | `DynamicDecoder::decode` at once or from `retry_blocked_streams`, then the acknowledgment |
| `DecCancel` | `send_stream_cancellation_if_needed` |
| `DecIncrement` | `encode_insert_count_increment` |
| `EncAck`, `EncCancel`, `EncIncrement` | `process_decoder_stream` |

`QpackSyncInv` states the type invariant and the
inductive invariant, `MCQpackSync` the instances, `QpackTable_proofs` and
`QpackSync_proofs` the theorems.

### Request streams

`RequestStreams` is one `Connection` seen from its request streams, as client or
server. A call that runs the frame loop takes one step per frame; while one is
in progress (`call`) nothing else happens, because the code holds `&mut self`.

| State | Code |
|---|---|
| `live`, `str` | `Connection::streams` and the `RequestStream` of each: receive buffer, receive state, `StreamState`, blocked flag with its count and kept section, announced length and body size, send state and buffer |
| `index` | `blocked_by_ricnt` |
| `inserts` | insert count of the decoder's table |
| `decOpen`, `deferred` | `decoder_stream_id`, `deferred_section_acks`, `deferred_stream_cancellations` |
| `goaway` | `last_sent_goaway_id` of a server, `peer_goaway_last_id` of a client |
| `err` | `Connection::error` |

| Action | Code |
|---|---|
| `FeedStream` | `feed_stream`, `handle_bidirectional_stream` |
| `ReadForbidden`, `ReadCut`, `ReadGarbled`, `ReadUnknown`, `ReadData`, `ReadHeaders`, `ReadEnd` | one iteration of `process_stream_frames` with `process_raw` and `emit_header_events` |
| `EncoderStream` | `process_encoder_stream` |
| `PollEvent`, `RetryNext` | `poll_event`, `drain_events`: `retry_blocked_streams`, one stream per step |
| `StreamReset`, `StopSending` | `stream_reset`, `stop_sending` |
| `OpenDecoderStream` | `set_decoder_stream_id` |
| `Goaway` | `send_goaway` of a server, the GOAWAY branch of `process_control_stream` of a client |
| `SendRequest`, `SendResponse`, `SendBody` | the functions of these names, `send_encoded_headers` |
| `TakeStreamData` | `get_stream_data`, `take_stream_data`, `consume_stream_data` |

A frame is a record of what the code distinguishes: its kind, the Required
Insert Count of a section, the verdict of header validation, a length. The
caller is assumed to stop feeding a stream after `feed_stream` returned an error
for it, and QUIC to deliver nothing after FIN or RESET_STREAM.

`StreamDelivery` is what this promises the application, in five variables:
every stream is delivered in order, a section when its insertions are there,
the end last, and a stream a call failed on does not disturb the others.
`RequestStreams!ImplementsDelivery` is the refinement, with `got`, `ended` and
the arrivals as history variables and the failed streams as `broken`.
`RequestStreams_proofs` has the theorems on both.

### Control and unidirectional streams

`H3Settings` has the SETTINGS parameters, how they are written and read back, and
the functions that choose a WebTransport draft and flow control from two sets of
them. `ControlStreams` is two ends, each a `Connection` (`con`) or a peer that
sends whatever a script says. A stream is a sequence of items; half an item is
less than its header, so chunks cut types and frames.

| Action | Code |
|---|---|
| `SetStreamId` | `set_control_stream_id`, `set_encoder_stream_id`, `set_decoder_stream_id`, with SETTINGS and the capacity instruction that waited |
| `FeedStream` | `feed_stream` on a unidirectional stream: `handle_unidirectional_stream`, `handle_new_unidirectional_stream`, `process_control_stream`, `ControlStreamReceiver::process`, the QPACK receivers |
| `StreamReset`, `StopSending` | `stream_reset`, `stop_sending` on such a stream |
| `SendGoaway` | `send_goaway` |
| `SendRequest`, `FeedRequest` | the GOAWAY guards of `send_request` and of `handle_request_stream` |

The theorems are in `ControlStreams_proofs`.

### WebTransport sessions

`WtSessions` is one `Connection` with its sessions. The handlers of
`connection/wt_*.rs` call each other while they hold `&mut self`; each is an
operator from the state `c` of the connection to the next one, and an action is
one call from outside.

| Part of `c` | Code |
|---|---|
| `ses`, `closed` | `wt_sessions`, `closed_wt_sessions` |
| `reg` | `wt_uni_streams`, `wt_bidi_streams` |
| `wait` | header octets of streams whose type or session id is incomplete: `pending_uni_streams`, `pending_wt_uni_streams`, `pending_wt_bidi_streams`, `pending_bidi_dispatch` |
| `pre`, `ignored` | `pending_wt_bidi_pre_negotiation`, `ignored_pre_negotiation_wt_bidi` |
| `deferred` | `deferred_wt_connects` |
| `conn`, `body`, `out`, `index` | the CONNECT streams: whether and how they are in `streams`, DATA behind a deferred CONNECT (`recv_body`), the send buffer, `blocked_by_ricnt` |
| `settings`, `goaway`, `err` | `peer_settings`, GOAWAY, `Connection::error` |
| `ev`, `shown`, `est`, `gone`, `grams` | `events`, counted by kind as the application has seen them |

`ConnectStep` collects what happens to CONNECT streams (requests and responses of
either end, DATA with capsules, FIN, RESET_STREAM, STOP_SENDING, a parked section
retried), `StreamStep` data streams and datagrams, `ControlStep` SETTINGS, GOAWAY
and the calls of the application. `WtFlowControl` is the receiving half of flow
control, used here and by `SessionCredit`.

`SessionCredit` is two `Session` objects with the capsules, streams and data
between them; capsules keep their order, the rest does not. `WtCredit` is the
promise: what is in use never exceeds the receiver's window.
`SessionCredit!ImplementsCredit` is the refinement, proved in `SessionCredit_proofs`.

### Codecs

Numbers are sequences of bits without a leading zero (`WireBits`), so that a
number of w bits is a sequence of at most w, and 62-bit and 64-bit arithmetic is
exact. `WireIntegers` has the two integer encodings, `Huffman` the code table of
`huffman.rs` with encoder, decoder and string literals, `H3Frames` the frames,
`WtCodecs` capsules, datagrams, stream headers and error codes. `WireCodecs` puts
an encoder, a stream that cuts anywhere and a decoder in a row; the reference
definition of a codec is the set of all forms that a value may have on the wire
(`Forms`).

### Header rules

`HeaderRules` is the check of a field and of a section, as the loops of the code;
a character stands for its class. `ConnectRequests` is the CONNECT request and its
response as header lists, and the Structured Fields parser. `HeaderSections` grows
sections and texts step by step, compares the rules with grammars, and runs the
handshake in which the client offers protocols and the server picks one.

### Tasks

`H3Driver` is the s2n-quic integration around one HTTP/3 connection, `WtDriver`
around one WebTransport session. A critical section of the mutex is one step;
between two of them other tasks run. The connection behind the mutex is reduced to
what these tasks can tell apart; `RequestStreams` and `WtSessions` have the rest.
Two details matter in `WtDriver`: a stream of QUIC that has ended answers every later
`receive` with the end again, and when it ends while the request is still parked the
end is parked with it, so that `accept` finds no session. The theorems are in
`H3Driver_proofs` and `WtDriver_proofs`.

| `H3Driver` | Code |
|---|---|
| `AppStep` | `H3Client::send_request` and `H3ServerConnection::accept_request` with their `select!` loop, step by step |
| `UniStep` | the task of a control or encoder stream: receive, feed, notify, `flush_qpack` |
| `QpackWrite` | the task that writes QPACK instructions |
| the others | QUIC and the peer |

| `WtDriver` | Code |
|---|---|
| `Connecting` | `WtClient::connect`; `WtServer`, `WtSessionRequest::accept`: the wait for SETTINGS, the handshake loop, the spawning of tasks |
| `Receiving`, `RecvAborted` | `run_client_connect_recv_task`, its server twin, the abort by `Drop` |
| `SendCommand` | `run_connect_send_task` |
| `UniReceive`, `UniNotify`, `AcceptorEnds`, `RouteUni`, `HandOver` | the acceptor task and `route_uni_stream`; a malformed session id is latched as an error only once SETTINGS are there |
| `Use`, `Close`, `DropSession`, `AcceptUni`, `AcceptBi`, `ReadData` | `WtSession` and its streams |
| the others | QUIC and the peer |

## Runs

| Run | Shows | Bounds, and why they are enough |
|---|---|---|
| `qpack_core` | no endpoint makes the other raise an error, tables agree, blocked streams bounded, Known Received Count sound; the inductive invariant of the proofs | two streams, three headers of two sizes so that one entry may evict two, exact, name-only and static matches, one capacity change |
| `qpack_wrap` | sections decode exactly although the count on the wire wraps; tracked sections are released | six insertions into a table of two entries: the count, modulo 4, wraps |
| `streams` | `StreamDelivery` implemented, no parked stream lost or left over, every decoded section answered, finished streams removed, messages sent in order, parked streams taken up again | six scopes: a server with two streams that park twice, in both orders, with data and FIN behind, resets and a late decoder stream; every kind of frame and STOP_SENDING; every sequence of three sends; clients with CONNECT, 1xx, a waiting response, a limit of one blocked stream, GOAWAY; sections refused after they waited |
| `control` | the peer is disconnected for what it did wrong and nothing else; two ends of this library never are; frames delivered once and in order; GOAWAY; draft and flow control agreed; SETTINGS exchanged | any first frame, any frame behind SETTINGS and behind one that may be accepted there, pairs of stream types, chunks of one to three half items, FIN and RESET_STREAM anywhere; three GOAWAY ids around two requests; every pair of draft offers |
| `wt_sessions` | one end per session with all its streams, bytes delivered and counted once, credit bounded and returned, one session without flow control, nothing after the end, held streams dispatched | one session with everything a CONNECT stream can bring and a stream in chunks that cut its header; two sessions without flow control; two streams in a row under limits of one stream and three bytes; a buffer of four bytes that overflows; limits of one buffered stream, pending session and deferred CONNECT, so that each is reached |
| `session_credit` | no false violation, `WtCredit` implemented, WT_CLOSE_SESSION last, streams reset once, blocked senders resume | windows of three bytes and one stream, used up twice; both ways to learn limits; closing by one end and by both |
| `wire` | values survive any cut in any form; nothing else is accepted; integers exact; the Huffman table a complete prefix code; reset codes kept; no WT_STREAM written as a frame | values at every boundary of every width, all other forms of each, raw octets beside them; two items in a row |
| `headers` | the rules are the grammars, both copies agree, the request is read as it was validated, the protocol agreed | two edits of each template; texts up to seven characters over the characters that delimit; three names of two characters over quotes, backslashes, commas and semicolons |
| `h3_driver` | a call returns, with the whole message or an error; no wakeup lost; no QPACK instruction lost or duplicated; stream ids agree until a request fails | one or two requests, a section that waits for one insertion, one DATA, faults; a malformed section with one request, a critical stream closed at the client: what follows is the same with the second request and at the server |
| `wt_driver` | one SessionClosed, with the code the peer gave; violations answered as the draft asks; credit; `close()` tells the truth; payload intact; `connect()` returns; the stream is ended | two capsules of each kind in any order, a stream in chunks of one, a fault at every point |
| `h3_panic`, `wt_late` | findings, see below | |

A run names one property per question; where a question has several parts, the
property is their conjunction and each part is a definition with its own comment:

| Property | Parts |
|---|---|
| `StreamsInv` | `TypeOK`, `BlockedStreamsIndexed` |
| `SessionsInv` | `TypeOK`, `ClosedOnce`, `StreamsReset` |
| `BytesExact` | `DeliveredExactly`, `BytesAccounted` |
| `CreditExact` | `CreditBounded`, `BidiCreditReturned` |
| `AccountsAgree` | `TypeOK`, `NoFalseFlowControlError` |
| `ClosesOnce` | `CloseIsLast`, `StreamsResetOnce` |
| `StreamsReadExactly` | `TypeOK`, `ErrorsExact`, `PeersAccepted`, `ControlDelivered` |
| `AcceptedExactly` | `TypeOK`, `IntegersExact`, `OnlyValidForms`, `CodesKept`, `FramesAreNoSignals` |
| `RulesExact` | `RequestRulesExact`, `ResponseRulesExact`, `SameRules`, `TargetsExact` |
| `HandshakeAgrees` | `TypeOK`, `ConnectRead`, `ProtocolAgreed` |
| `NothingLost` | `TypeOK`, `ResponsesExact`, `InstructionsConserved`, `AssertedIdsAgree` |
| `EndReported` | `TypeOK`, `SessionClosedOnce`, `CloseCodeKept` |
| `LastWords` | `MisuseAnswered`, `CloseReported` |
| `DataStreamsSound` | `CreditRespected`, `PayloadIntact` |

`IInv` contains the type invariant of `QpackSync`. That the Huffman table is a
prefix code (`PrefixCode`) is an assumption of `WireCodecs` that TLC evaluates.

Runs allow deadlock: a connection on which nothing arrives any more may rest.
No symmetry is used, since stream ids are ordered.

Fairness.

- `QpackSync` assumes that each endpoint processes what has arrived: QUIC delivers
  every stream reliably, and the code handles all complete instructions in a feed.
  Nothing obliges the encoder to send.
- `RequestStreams` assumes that a call returns (`LoopStep`), that the insertions a
  peer refers to arrive, and that the caller polls, as the s2n-quic integration
  does after it has fed a request stream.
- `ControlStreams` assumes, of two ends of this library, that they open the streams they mean to open and
  that QUIC delivers what was written.
- `SessionCredit` assumes that each end establishes its session, takes its queued
  capsules to the stream and processes those that arrive, and that the receiver
  consumes what it was sent; no call to open or to send is assumed.
- `H3Driver` and `WtDriver` assume that tokio runs every task that can run, that
  the peer ends the messages it began and sends its SETTINGS and the insertions
  its sections refer to. Losing the connection is never assumed and never
  excluded.

## Findings

- `h3_panic`: `H3Client::send_request` opens the QUIC stream before the request can
  be refused. After a refused request the two stream counters differ, the
  `assert_eq!` of the next request panics with the mutex locked, and every later
  call panics on the poisoned mutex (`crates/tokio-s2n-quic/src/h3/client.rs:194`).
- `wt_late`: a stream of a session that has ended is forgotten, and bytes that
  arrive on it are read as the beginning of a new stream, although the tombstone is
  there to have them discarded (`src/connection/mod.rs:825`,
  `src/connection/wt_session.rs:483`). The same happens to a WebTransport stream
  that was refused before negotiation.

Further deviations the models contain because the code does, which the properties
exempt or the constants exclude. QPACK and request streams:

- `set_table_capacity` may lower the capacity below what entries of sections in
  flight need, and the decoder evicts them; `FittingCapacityOnly` excludes it.
- With `AckedEvictionOnly = FALSE` the caller may insert whenever `insert`
  accepts: the encoder evicts entries whose insertion was never acknowledged
  (RFC 9204 Section 2.1.1), and `DecodesExactly` fails. Within this library
  `Connection` itself never inserts, nor sends an Insert Count Increment.
- An Insert Count Increment is added to a counter that Section Acknowledgments
  do not advance, so the encoder's Known Received Count may stay below what it
  was told; it is never above (`KnownReceivedIsReceived`).
- An error on one stream in `retry_blocked_streams` (`mod.rs:1225`) leaves the
  others it had collected parked and out of the index for ever.
- `stop_sending` clears the parked section of the direction that stays open, and
  emits a Stream Cancellation for a stream that is still read; an acknowledgment
  may follow it, hence `Unstopped` in the properties.
- Streams whose insertions have arrived count as blocked until the caller polls
  (`mod.rs:1650`): a peer within its limit can be disconnected.
- A section refused by header validation is not acknowledged, and a stream whose
  end fails the content-length check on the retry path is not removed, hence
  the exemption of failed streams.
- What `send_response` accepts in the place of trailers always carries `:status`
  ("status trailers" in `RequestStreams`).

Control streams: a server accepts MAX_PUSH_ID, which the table in
`src/frame/mod.rs:8-9` says is refused; ids of ignored streams are kept for ever;
a server that is offered only drafts it does not know goes by draft 17.

WebTransport:

- A unidirectional stream that brings its header and FIN in one chunk never
  returns its credit (`mod.rs:978`). `BidiCreditReturned` says nothing of these.
- When `process_deferred_wt_connects` refuses a CONNECT, the streams held back for
  SETTINGS stay where they are. `HeldStreamsDispatched` exempts that call.
- The FIN of the response to a refused CONNECT is never handed out.
- For a stream that ends in its first chunk, before its session is established,
  `Open`, `Data` and `End` come out of order; of a session that is dropped, the
  buffered streams report `Data` without `Open`, or nothing.
- A refused session that was created by an early stream lingers as pending and
  counts; RESET_STREAM leaves incomplete stream headers behind.
- In `Session`, a write larger than half the window may wait for ever when less
  than half was used, since no maximum is announced before: `BlockedSendersResume`
  covers writes up to half the window, rounded up. `close()` after `close()`
  overwrites the error.
- `parse_sf_list_strings` splits at a comma inside quotes: a list with such a name
  arrives empty (`ProtocolAgreed`). With `wt-available-protocols` given twice the
  connection keeps the first field, `ConnectRequest::from_headers` the last.
- `is_valid_authority` takes `[::1]:` but not `host:`, and only hexadecimal digits
  in IPvFuture; the grammars of `HeaderSections` say so where they differ.

Tasks:

- An HTTP/3 call hangs when the connection is lost after FIN and before the
  insertions its section waits for (`CallsReturn` exempts it); `connect()` hangs
  when the control stream fails before SETTINGS (`ConnectReturns` exempts it).
- After an error the receiving task locks a second time (`client.rs:551`); a
  connection error latched in between loses the peer's close code, and a pending
  flow control violation overrides it (`CloseCodeKept` exempts both).
- `flush_qpack` may reorder a Section Acknowledgment and a Stream Cancellation of
  one stream; the WebTransport tasks never write QPACK instructions.
- A session is told of GOAWAY only when its CONNECT stream next receives something.
- The server's `route_uni_stream` does not check the session id of a stream.

## Proofs

| Module | Theorems | Property |
|---|---|---|
| `QpackSync_proofs` | `InvariantHolds`, `DecodingIsExact`, `NoErrorHolds`, `TablesAgreeHolds`, `BlockedBoundHolds`, `KnownReceivedHolds` | `IInv`, `DecodesExactly`, `NoConnectionError`, `TablesAgree`, `BlockedStreamsBounded`, `KnownReceivedIsReceived` |
| `RequestStreams_proofs` | `StreamsInvariant`, `StreamsStayIndexed`, `SectionsAlwaysAnswered`, `FinishedAlwaysRemoved`, `SentInOrder`, `RefinesDelivery` | `StreamsInv`, `SectionsAnswered`, `FinishedStreamsRemoved`, `SentMessageWellFormed`, `ImplementsDelivery` |
| `ControlStreams_proofs` | `ControlInvariant`, `StreamsAlwaysReadExactly`, `GoawayAlwaysHonoured`, `NegotiationAlwaysAgrees` | `StreamsReadExactly`, `GoawayHonoured`, `NegotiationAgrees` |
| `SessionCredit_proofs` | `CreditInvariant`, `AccountsAlwaysAgree`, `SessionsCloseOnce`, `RefinesCredit` | `AccountsAgree`, `ClosesOnce`, `ImplementsCredit` |
| `H3Driver_proofs` | `DriverInvariant`, `NothingEverLost`, `WakeupsNeverLost` | `NothingLost`, `WakeupNotLost` |
| `WtDriver_proofs` | `SessionInvariant`, `EndAlwaysReported`, `LastWordsAlwaysKept`, `DataStreamsAlwaysSound` | `EndReported`, `LastWords`, `DataStreamsSound` |

Each theorem holds for every value of the constants that the named assumption of
its module allows; the runs are small instances of the same formulas. The
argument is the same everywhere: an inductive invariant, a lemma per action that
says the action keeps it, with one step per part it can disturb, and a lemma per
property that says the invariant implies it. A refinement adds a lemma per action
that the step is one of the abstract specification or a stutter.

**QPACK.** `QpackTable_proofs` has the lemmas on the table: what eviction,
insertion and a capacity change leave, that a relative index names the same entry
as long as it is live, and that the Required Insert Count is recovered from the
wire when sender and receiver are less than `MaxEntries` insertions apart. The
theorems assume `SyncAssumption` and that the caller keeps RFC 9204 Section 2.1.1
(`AckedEvictionOnly`, `FittingCapacityOnly`), without which the statements are
false. None of the properties is inductive by itself. `DecodesExactly` depends on
the future of the decoder's table: `ReplayInv` says that replaying the
instructions in flight is possible and ends in the encoder's table. A section
stays decodable because only received entries are evicted (`EvictionInv`) and
what it refers to is live and tracked (`SectionInv`, `FlightInv`). That an
acknowledgment finds its section needs its position among the sections of the
stream (`AckInv`, `CancelInv`); the Known Received Count needs the increments in
flight counted once (`IncrementInv`). `BlockedInv` is the bound.

**Request streams** (`StreamsAssumption`). `StreamsIInv` speaks of the call in
progress (`CallSound`) and of each stream. `BlockedStreamsIndexed` holds between
calls only; during one, a stream may also be among those `retry_blocked_streams`
has collected and not reached, so `ParkedAt` speaks of `index \cup call.rest`, and
needs that a stream is parked at most once and that its count is the one it is
indexed under (`Coherent`). `SectionsAnswered` is a balance that `AnsweredAt`
keeps exactly; `FinishedStreamsRemoved` needs that only the stream being read can
be finished and still there (`DoneAt`), `SentMessageWellFormed` what the state of
sending allows to be on its way (`SendingAt`). For the refinement, what arrived is
what was handed over, the parked section, and the frames in the buffer that are
of a known type, in order (`Faithful`).

**Control streams** (`ControlAssumption`; its `Configured` says what an
application can configure: Boolean flags, the WebTransport values present, a
client that called `enable_webtransport_client`). `ReadSound` relates what an end
concluded to the items that have arrived, cut anywhere; a chunk of several items
is read item by item, by a least-number argument instead of induction. `WriteSound`
says what an end has written. For two ends of this library `PairSound` adds what
each knows of the other. The settings need lemmas of their own: what
`FromSettings` writes is read back by `FromPayload` as it was.

**Session credit** (`SessionAssumption`, `MaxStreamsLimitAssumption`). `AccountsAgree`
is about counters; what makes them agree is on the wire. `Conserved` counts what
is sent, under way, buffered, rejected and received; `MaximaRise` says that each
WT_MAX capsule under way raises the maximum the sender will have by then, to one
that was advertised, so that no capsule is a violation when it arrives; `CloseEnds`
that WT_CLOSE_SESSION is the last of its end.

**HTTP/3 tasks** (`DriverAssumption`). `FlowSound` says that what the call has got,
the events, the parked section and QUIC's buffer, in this order, are the message;
`Conserved` that an instruction is out, in the channel, with one of three tasks,
or still with the connection, once. The first needs to know whose the queued
events are (`EventsSound`), since an earlier call that failed may have left some.
`Awake` is `WakeupNotLost` strengthened by the tasks that will notify later.

**WebTransport tasks** (`WtDriverAssumption`). The invariant has four parts.
`SessionInv` follows the end of the session: it is recorded when, and only when, it
has been told, and it is then in one place, queued in the connection, taken by the
handshake, or delivered (`EndSound`). Before the response is read nothing can have
ended (`HandshakeSound`), because of the order in which a peer sends: interim
responses, one response, capsules behind it (`Ordered`, `CapsulesFollow`), and
because what is parked begins with the section that waits (`ParkedSound`). A chunk
of any number of items is read item by item. `WireInv` bounds what goes out:
left alone by the application, the receiving task's answer is the first command and
so the second word on the stream (`AnswerSound`), while `CloseSound` counts the one
WT_CLOSE_SESSION of the application wherever it is. `CreditInv` says that the limit
is one the peer granted, `DataInv` that header and payload, together with what
QUIC holds, are the numbered bytes that arrived.

Two means recur. A chunk of any number of items, or a filtered sequence, is a
function on 0..n that the model defines by its steps; what holds of every value of
such a function is proved by taking the least number at which it would fail. And
`Primed`, `Same` and `Kept` lemmas say what a part of the invariant reads, so that an
action that leaves this alone needs no more.

Only model-checked:

- liveness under fairness, which is out of the prover's reach;
- `WireCodecs` and `HeaderSections`: codecs and parsers are recursive operators,
  and what they compute for every input is an induction over data;
- `WtSessions`: its invariants are about every stream, waiting list and session of a
  connection at once, which nested loops over sequences update, and `BytesExact` and
  `CreditExact` about sums over sets, whose laws are inductions over data. What its
  sessions do with their credit is proved in `SessionCredit_proofs`.

## Not modelled

- QPACK: the octets of instructions and field lines (their integers and strings
  are in `wire`), post-base references, the never-indexed bit,
  `max_field_section_size`, the static table.
- Request streams: frames arrive whole there; cutting them is checked in `wire` and,
  for the control stream, in `control`.
- WebTransport: draft-02 peers, `stop_sending` on data streams (an event only),
  interim responses, the response of a server that finds no common protocol,
  `send_datagram`; payload that happens to spell a stream header on a forgotten
  stream.
- Codecs: 32-bit `usize`; overlong UTF-8 and surrogates are one class of invalid
  text; the Huffman accumulator is a bit sequence.
- s2n-quic: several requests at a time (the methods take `&mut self`), TLS and
  configuration, a WebTransport stream sent to the HTTP/3 server, headers a server
  application cannot encode, a full channel of accepted streams.
- ngtcp2 integration: one task pumps events between a C library and a `Connection`,
  one call at a time; the calls it makes are those of `RequestStreams` and
  `WtSessions`, and no task of its own interleaves with them.
- Events, errors, limits: declarations. Examples, interop, fuzz and property-based
  tests: clients of the library.

## Plan

1. QPACK: modelled, checked and proved.
2. Request streams, control streams, WebTransport sessions, session credit, codecs,
   header rules, the s2n-quic tasks: modelled and checked.
3. Proved besides: request streams, control streams, session credit, the s2n-quic
   tasks, and that the first and the third implement what they promise. Left: the
   theorems of `WtSessions`, beginning with `SessionsInv`; the codecs and liveness
   stay with TLC.
