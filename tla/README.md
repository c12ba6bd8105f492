# Pallas: TLA+ models, checks and proofs

Pallas is a library of Rust building blocks for Cardano.  This project models the
parts of it in which something can go wrong that a unit test would hardly reach:

* the networking: `pallas-network2`, the peer-to-peer stack, where a *manager*
  polls a *behaviour* (initiator or responder) and a *network interface*; and
  `pallas-network`, the older stack, where a *plexer* carries several protocols
  over one bearer for typed clients and servers;
* the wire: the CBOR layouts of every message, query, block and transaction, how
  messages are cut and put together again, and how the bytes that were hashed
  survive decoding, editing and encoding;
* the ledger rules of `pallas-validate` (phase one for five rule sets, phase two
  up to the evaluation of a script), applied to chains of blocks;
* the transaction builder, whose results are judged by those same rules.

Contents: 1 inventory, 2 modules, 3 runs, 4 fairness, 5 refinements, 6 proofs,
7 findings and observations, 8 not modelled, 9 plan.

## 1. Inventory

### 1.1 pallas-network2

| part | state | operations | hard behaviour |
|---|---|---|---|
| `lib.rs` Manager, OutboundQueue | none of its own; FIFO of outputs | `poll_next` (take one output or complete one I/O event), `execute` | `select!` picks either branch: events overtake commands waiting in the queue |
| `interface.rs` TcpConnectionPool, TcpInterface, TcpListenerInterface | `writers` by peer, unordered futures | connect, accept, send, recv, disconnect, and the handlers of their results | the reader half of a connection outlives its shutdown; a disconnect without a writer is an event of its own; two connects for one peer may be under way |
| `protocol/*.rs` | one `State` per mini-protocol | `State::apply` | a refused message is a protocol violation of the peer |
| `behavior/unsent.rs` | requests pushed and not yet written | insert, clear, deferred `RequestNext` | protocol state moves only when the write completes |
| `behavior/initiator/mod.rs` | `InitiatorState` per peer | nine commands, five I/O events, housekeeping | all visitors run on all messages; `reset` on disconnect |
| `initiator/promotion.rs` | four sets of peers, plus the tag in the peer's state | categorize, discover, ban | the two records of one fact are written by different handlers; unsigned subtractions |
| `initiator/{connection,handshake,keepalive,discovery}.rs` | discovered peers | connect/disconnect by tag, propose, ping, ask for peers | an `assert!` on the handshake state |
| `initiator/{blockfetch,chainsync}.rs` | queue of ranges; intersection | hand ranges to free peers, drain what arrived, continue on request | ranges of a lost peer must return to the queue |
| `initiator/{leiosnotify,leiosfetch}.rs` | queue of fetches | the Leios overlay | only for peers that negotiated it |
| `behavior/responder/mod.rs` | `ResponderState` per connected peer | fourteen commands, five I/O events, housekeeping | the state is dropped on disconnect |
| `responder/connection.rs` | bans, connections per IP, accepted peers, a gauge | admit, release, ban | counting and releasing under different conditions |
| `responder/*.rs` | none | accept versions, answer pings, turn requests into events, ask for tx ids | a request must be reported once and answered once |
| `bearer.rs`, `behavior/mod.rs` codec | partial chunks by channel | segment, reassemble, decode | segments end anywhere; a malformed payload must not hold up another channel |
| `emulation/`, `testing.rs` | test doubles | | |

Interaction: the behaviour pushes commands (`Connect`, `Send`, `Disconnect`) and
events to its outbound queue; `Manager::poll_next` hands a command to the
interface and an event to the application; the interface completes futures and
the manager runs `handle_io` on each result in the same step; the application
calls `execute` with commands whenever it likes.  There is one task, but every
`await` in the interface is a point at which the order is open.

What makes the parts correct:

* governance: the limits are never exceeded (the counters are unsigned), a ban
  holds, and a tag that opens a connection is backed by a slot;
* initiator: it speaks only in turn on each protocol of each connection, uses the
  overlay only where it was negotiated, does not blame a peer for its own
  resets, and does not lose what the application asked for;
* responder: it answers each request once and in turn, does not charge a client
  with its own messages, keeps the accounts of connections, and gets rid of
  peers it turned away or caught.

### 1.2 pallas-network

| part | state | operations | hard behaviour |
|---|---|---|---|
| `multiplexer.rs` Muxer, Demuxer | one bounded ingress queue, one bounded egress queue per subscribed protocol, two tasks | tick, read and write segments | queues are shared: who does not read stops the others; a task may end alone |
| `multiplexer.rs` AgentChannel, ChannelBuffer | direction bit, leftover bytes | cut and enqueue, dequeue and reassemble | segments and messages end at different places; lengths are `u16` |
| `multiplexer.rs` RunningPlexer | | abort | cancels the tasks in the middle of a segment |
| `miniprotocols/*/{client,server}.rs` | one `State` per agent | sends and receives, each with tables of what is allowed | the two sides keep the same state by separate tables |
| `miniprotocols/*/codec.rs`, `localstate/queries_v16` | | encode, decode | the reader decides by the bytes alone whether a message is complete |
| `miniprotocols/chainsync/buffer.rs` | queue of points | roll forward, roll back, pop by depth | not modelled |
| `facades.rs` | | wires a plexer to the agents of a connection | not modelled |

Agents push chunks into the plexer and await chunks from it; the plexer at the
other end does the reverse.  It is correct if every agent has a channel of its
own that loses nothing, if agents that take turns cannot block each other, and if
the end of one side is noticed by the other.  The agents are correct if both
sides of a protocol agree on its state and on whose turn it is.

### 1.3 Bytes: pallas-codec, pallas-primitives, the codecs of the messages

| part | state | operations | hard behaviour |
|---|---|---|---|
| `codec/utils.rs` wrappers | `KeepRaw`: the value and the bytes it was read from | encode, decode, `deref_mut` | stale bytes after a change; bytes that change although nothing was touched |
| `primitives/src/{byron,alonzo,babbage,conway,dijkstra}/model.rs` | | a codec per type | optional fields, indefinite lengths, tags of sets, variants told apart by type |
| `addresses/src/byron.rs` | | the codec of the inside of a Byron address | |

A block is correct after a round trip if every part that was hashed has its
bytes, and a changed part has new ones.  A message is correct if the other side,
which may be the other crate, returns the value that was encoded.

### 1.4 Ledger: pallas-validate, pallas-traverse

| part | state | operations | hard behaviour |
|---|---|---|---|
| `phase1/{byron,shelley_ma,alonzo,babbage,conway}.rs` | none | the checks of a transaction, in order, each with its error | inputs of an earlier era's format; `u64` arithmetic; collateral that is only looked at in failure |
| `phase1/shelley_ma.rs` certificates | `CertState` | register, deregister, delegate, pools, genesis delegation, MIR | the state is threaded through the block and given back on an error |
| `phase1/mod.rs` | | `validate_tx`, `validate_txs` | all transactions see the outputs from before the block |
| `phase2/*.rs` | | redeemers, scripts, validity range, evaluation | the two phases compute by themselves what a redeemer points at |
| `traverse` | | `consumes`, `produces`, `requires`, sorted sets, slot arithmetic | a failed transaction consumes and produces something else |

The rules are correct if the blocks they accept keep the money, take outputs only
from their owners, pay for their failures, leave the stake state consistent, and
agree with phase two.

### 1.5 Transaction builder: pallas-txbuilder

`StagingTransaction` keeps what was staged, in hash maps where the order does not
matter; 45 calls add and remove, JSON stores and loads it, `build_conway_raw`
makes the transaction, `sign`, `add_signature` and `remove_signature` change its
witnesses.  What is hard: redeemers are staged by what they are for and built as
positions in a sorted set; the integrity hash is computed by rules of its own; the
signatures are recorded in two places.

### 1.6 The other crates

`pallas-hardano` (readers of the immutable chain database, Haskell display),
`pallas-configs` (genesis files), `pallas-utxorpc` (mapping to protobuf),
`pallas-bech32`, `pallas-crypto` and `pallas-math` are not modelled: section 8.

`PROJECT.json` lists every part under `components`, and under `hazards` what is
hard to test, at its line.

## 2. Modules

```
pallas-network2                          pallas-network
  MiniProtocols                            MessageChannels  (abstract)
     |                                        |        \
    Pool --------- Responder               Plexer      Wire
     |                |-- MCResponder         |-- MCPlexer
     |                \-- ResponderProofs     \-- PlexerProofs
     |
  Promotion -- PromotionProofs             AgentTables -- Agents -- AgentsProofs
     |             |
  Initiator -- InitiatorProofs             QueueLemmas: used by the proofs of Initiator,
     \-- MCInitiator                          Responder, Plexer, Ledger and TxBuilder

bytes                                    ledger and builder
  Cbor -- Wire -- MCWire                   LedgerTypes
   |  \-- Relay -- MCRelay                  |-- Byron ShelleyMA Alonzo
   |                                        |   Babbage Conway, Phase2
  PrimitiveCodecs                           |-- Ledger -- MCLedger
   |                                        |     \-- LedgerProofs
   |  Byron- Alonzo- Babbage-               \-- TxBuilder -- MCTxBuilder
   |  Conway- DijkstraCodecs                      \-- TxBuilderProofs
  NetworkCodecs, Network2Codecs,
  StateQueryCodecs -- LocalCodecs
```

### 2.1 Networking

**MiniProtocols** (`protocol/*.rs`, `unsent.rs`).  A protocol state is a record
`[at, arg]`: the variant of the Rust enum and what of its payload decides
control.  `Moves[ch]` is the set of triples *from, message, to*; `CanApply` and
`Apply` are `State::apply`.  States that the code distinguishes by an `Option`
are told apart (`StreamingSome`, `IdleResponse`, ...), because visitors look at
them.

**Pool** (`interface.rs`).  `conns` holds every TCP connection ever made with
its queue of tasks (the writer is behind a mutex, so sends and the shutdown
complete in order), whether it was shut down or broken, and the protocol states
of the far end.  `writers` is the map of the code; `futures` holds the connects
under way and the `Disconnected` events that `dispatch_disconnect` makes when
there is no writer.  `FuturesUnordered` may complete futures in any order,
except that a future that is ready at its first poll precedes a connect pushed
after it (`Completing`).  A message is written and delivered in one step: on a
channel only one side may speak at a time, so a message under way commutes with
everything the other end can do.

**Promotion** (`promotion.rs`, and the lines of `initiator/mod.rs` that write
the tag).  The four sets and the tags; whether a peer is faulty or ready is the
environment's choice.  It is both a component and the abstract specification
that Initiator implements.

**Initiator** (`behavior/initiator/*.rs`, `lib.rs`).  One action per command and
per I/O event.  Visitors are functions on a record of the peer's state and the
shared queues, composed in the order of `all_visitors!`.  Housekeeping visits
the peers in the order of a `HashMap`, which is modelled as a pass (`sweeping`,
`sweep`) during which nothing else happens.  `asked` and `answered` are history.

**Responder** (`behavior/responder/*.rs`, `lib.rs`).  The same for the
responder.  A peer id is a host and a port; TCP gives an address to one live
connection at a time, but the `Disconnected` event of the last one may still be
pending when it comes back.  A client may send whatever the protocols let it send,
`Done` included; `State::apply` has no arm for the `Done` of keep-alive, peer sharing
and tx-submission (`Endings`), and the clients that use it are a set of each scenario
(`Enders`).  The application answers each request it is told of,
once, and forgets the requests of a peer it is told has gone.

**MessageChannels**, **Plexer** (`multiplexer.rs`).  MessageChannels is the
abstract promise: per agent, what was received is what the counterpart sent,
whole, once, in order.  Plexer has two ends with a muxer and a demuxer task each,
the bounded queues between tasks and agents, a bearer of bounded capacity, and
the agents' buffers.  A byte knows its message and its place in it, so that
misplaced bytes are seen by `try_decode_message` as the decoder would see them; a
header is one record whose length is taken modulo 2^16 (`MaxSegment + 1`).  The
agents are any that take turns: a client sends a request, its server answers with
one or two messages.  `abort` loses what the other end has not read
(`set_linger(0)`) and what the muxer was writing, from any byte on.

**AgentTables**, **Agents** (`miniprotocols/*/{client,server}.rs`).  One record
per agent with its `has_agency`, its two `assert_*_state` tables and the state
each operation assigns, read off each file by itself; Agents lets the two sides
of a protocol talk over reliable channels, with any order of calls.  The
tx-monitor server is not in the repository and is marked external.

**MCInitiator**, **MCResponder**, **MCPlexer** hold the *scenarios* of the runs.
A behaviour is configured by which channels are subscribed, which commands the
application issues, who takes part, who may fail or lie.  The specifications read
these from a variable `scene` that is chosen in the initial state and never
changes, so that one run covers several configurations, each small enough to be
exhausted; the constants (limits, peers) are given in the `.cfg`.

### 2.2 Bytes

**Cbor** (`pallas-codec/src/utils.rs` and the derive macros and `minicbor`
calls of all codecs).  A byte string on the wire is a sequence of tokens: one per
CBOR head, and pieces of opaque content.  A *codec* is a record built by a
combinator (`Record`, `Keyed`, `Variant`, `ByType`, `KeepRaw`, `CborWrap`,
`Nullable`, `Set`, `MaybeIndefArray`...), one combinator per way in which the
repository's `Encode` and `Decode` are written.  `Write(codec, value, style)`
encodes, with a style that stands for what CBOR leaves open (definite or
indefinite lengths, tags of sets) and for whether the crate's own encoder writes or
another program, which writes what the crate's decoder reads; `Read(codec, tokens)` answers `Good`, `Short`
(`is_end_of_input`) or `Bad`; `Samples(codec)` lists values that differ from a
default in one place, so that every case of every nested type occurs.  Reading
and writing are defined separately: that they agree is what the runs check.

**PrimitiveCodecs**, **ByronCodecs**, **AlonzoCodecs**, **BabbageCodecs**,
**ConwayCodecs**, **DijkstraCodecs** (`primitives/src/*/model.rs`),
**NetworkCodecs**, **Network2Codecs**, **StateQueryCodecs**, **LocalCodecs**
(`miniprotocols/*/codec.rs`, `protocol/*.rs`, `queries_v16`): one definition per
type with the order, keys, labels and optional parts of its fields.  Hashes, keys
and signatures are byte strings.  Where the code writes a type in another layout
than it reads it from, the definition has both (`Sided`): so the parts of a rejected
transaction in LocalCodecs, which a node writes in the one layout and a server of the
crate would write in the other.  Conway's `CostModels` is read whole and written
without the languages it has no field for (`KnownKeys`).

**Relay**.  An author wrote a block or transaction in a style of its own; it is
decoded, perhaps changed in a field through `deref_mut`, encoded and read by
somebody else.

**Wire** (`multiplexer.rs` ChannelBuffer, `network2/bearer.rs`,
`behavior/mod.rs`).  A connection with one or two lanes.  Messages are encoded
and cut into segments anywhere (a peer need not be pallas); the receiver is the
loop of either crate: `recv_full_msg`, which returns an error of the decoder, or
`read_full_msgs`, which takes it for an incomplete message.  Headers, queues and
tasks are those of Plexer and not repeated.

### 2.3 Ledger

**LedgerTypes** (`pallas-validate/src/utils.rs`, `pallas-traverse`): values with
their `u64` arithmetic modulo `Word`, native scripts, witnesses, `Ensure`, `&&` and
`EachOk` for the chaining of checks that return the first error; and the
projections of `pallas-traverse` that the rules use (`consumes`, `produces`,
`requires`, sorted inputs) with its slot arithmetic.  `Sorted` is the stable sort of
all of them: the element at a place is the one with that many ahead of it.  A hash is injective: a key,
script or datum stands for its own.

**Byron**, **ShelleyMA**, **Alonzo**, **Babbage**, **Conway**: the checks of each
file under their own names and in their order, with the error each returns.
ShelleyMA also has the certificate rules, which return a new state.

**Phase2**: the table of scripts and datums, what a redeemer is for, the script it
selects, the validity range in POSIX time and the arguments a script is applied to
(those of PlutusV1 and PlutusV2 are built without the votes and proposals, so that a
redeemer for one of them has no purpose there).
A script answers as a constant (`PlutusOf`) says.

**Ledger**: a client composes blocks from templates (`Compose`) and changes one
thing (`Edit`); `ValidateTxs` judges the block and applies it if accepted;
`HardFork` moves to the next era, so that outputs of older formats are there to
be spent.  `MultiEraTx` is what the Rust type of a transaction guarantees (its
fields are lists, what it mints and withdraws are finite maps, its certificates are
of the kinds there are; references are numbers, in their order); it guards `Compose`
and `Edit` because `Templates` and `Edits` are constants, of which the theorems
assume nothing else, and it excludes nothing in the run.

### 2.4 Builder

**TxBuilder**: the staging transaction as a record, one operator per call and
one action per group of calls (inputs, outputs, fields, mints, attachments,
redeemers, reload, build, signatures).  What the code takes from a hash map has
no order, so `Build` chooses one for scripts, datums and redeemers.
`StagingTransaction` is what the Rust type guarantees of the transactions that the
calls start from (`BasesAssumption`): the inputs are a list, the maps finite, and a
redeemer is for an input or a policy.  The result
is a transaction of the ledger modules, and the properties judge it with the
operators of Conway and Phase2.

Definitions whose comment begins with *A bug*, or marked as seeded faults, are
not part of the specifications: they are the plausible mistakes used to show that
each property can fail.

## 3. Runs

All are exhaustive within their bounds.

| run | about | distinct states |
|---|---|---|
| `initiator_safety` | speaks in turn, blames nobody wrongly, gates Leios by the version, loses no range; implements the governance, whose bans, slots and counters hold | 747 321 |
| `initiator_liveness` | a requested range is answered; a deferred `RequestNext` is sent | 3 694 |
| `responder_safety` | answers in turn, charges no good client, keeps its accounts and tracks every connection | 900 077 |
| `responder_liveness` | rejected and violating peers leave; no request is swallowed | 23 424 |
| `plexer` | every byte is accounted for; implements MessageChannels; everything arrives; an abort wakes everyone | 44 632 |
| `agents` | both sides of ten protocols agree | 116 |
| `ledger` | accepted blocks keep money, ownership, collateral, stake state, and agree with phase two | 365 039 |
| `builder` | redeemers, signatures and integrity hash of built transactions | 441 197 |
| `relay` | hashed bytes survive, and no stale bytes do | 187 282 |
| `wire` | every message of every protocol is returned whole, once and in order | 113 578 |
| `finding_handshake_assert`, `finding_txmonitor` | refuted: section 7 | |

### 3.1 Bounds

*Networking.*  The scenarios of `initiator_safety` are the plain protocols
against each other on one connection (`Agency`), the overlay with and without its
version (`Leios`), a peer that is lost and included again while it holds a block
range (`Refetch`), and discovery through a lying peer with bans and demotions
(`Gossip`).  Those of `responder_safety`: a block-serving node (`Service`), the
remaining protocols with a client that ends them (`Overlay`), three addresses of one
host (`Slots`), two addresses that come back when nothing of theirs is pending and
may be banned (`Return`), and one that comes back while its last disconnect is still
to be reported (`Hasty`).  Those of the plexer:
client and server of one protocol on both ends (`Duplex`), two protocols of which
one packs its messages into segments (`Packed`, `PackedSmall`), messages of
different sizes (`Mixed`), a protocol the other end does not know (`Orphan`), and
aborts and dropped agents (`TornDown`).

`max_conns` counts TCP connections per peer: one where the question is about one
connection and its end, two where a peer comes back.  `max_pending` limits what is
queued when something new comes in; at one, a command and an event can cross.
`MaxErrors` allows a peer to pass `max_error_count`, and the limits of the
promotion (two of three peers, one warm, one hot) are all reached.  The scenarios split by
channels, since the sub-behaviours of different channels meet only in the
connection state, the tag and the version.  In the plexer a segment holds two
bytes, messages have one or three, and the queues hold one chunk: every message
spans segments, segments span messages, and every queue fills.  In the agents at
most `MaxInFlight` messages are under way, which matters only to a block-fetch
server that streams.

*Ledger.*  A chain of at most two transactions, in one block or two, starting in
any era and passing any number of hard forks; each is a template (a payment, one
that mints, one that spends from a script, the certificates of a wallet) of which
one field may be wrong.  Two transactions are enough for an output to be made and
spent, for a certificate to meet the state the last one left, and for an output
of every older format to be spent in every era.  `Word` is 4096, and three kinds of
templates are at the edge: token outputs that add up to the inputs modulo `Word`
only, a burn of tokens that are not there which pays out what it wraps to, and a mint
under a native script that is a reference script.  Among the first outputs are one of
a PlutusV2 script without a datum and one with such a reference script.
`DistinctInputs` says that no output
is named twice by the inputs of a block: the rules do not check it (section 7).

*Builder.*  Two calls on top of each of three bases (nothing, a payment, a
transaction that spends and mints with Plutus scripts), one JSON round trip at
any moment, three operations on signatures: a call can undo, repeat or disturb
another one, and a key can sign twice.

*Bytes.*  `relay` takes all blocks and transactions, Byron to Dijkstra, in two
author styles that differ from the crate's own and from each other in every
choice, every sample value, and for each innermost `KeepRaw` one changed field
inside it.  `wire` takes every protocol of each crate, within the crate and from
one to the other, at most 24 samples per message type spread evenly, two messages
in a row, segments of one token, of five, and of everything, beside a keep-alive
lane; messages with a label, or of a protocol, that the receiver does not know; and
transaction submission twice, against a node and against a server of the crate.

No run uses symmetry: peers, keys and agents have different roles.

### 3.2 Conditions

Some properties are stated under a condition that the code does not enforce,
because they are false without it:

* `NeverOffends`, `AccusedOnlyWhenLate` and `LeiosOnlyWhenNegotiated` (Initiator)
  hold where a peer has one connection (`ConnectedOnce`).  With a second one the two
  share one state: a stale `Disconnected` resets the live connection, what was
  queued for the old one is written to the new one, and an `Accept` of the old one
  may be read as the new one's.  `finding_handshake_assert` shows the sharpest
  effect.  `AccusedOnlyWhenLate` is also confined to scenarios in which no peer
  replies `IntersectNotFound`, which `drain_data` takes for a violation.
* `SlotsExact` (Responder) holds where no address comes back and no `BanPeer`
  command is given (`NobodyReturns`).  If an address does come back, a
  `Disconnected` event that comes late removes the new connection's entry.
* `AnswersInTurn` and `ClientsNotAccused` (Responder) hold where an address comes
  back, if at all, with nothing of its last connection pending (`Settled`): outputs
  name an address, and those of the old connection are written to the new one.
  `ClientsNotAccused` also leaves out the clients that end keep-alive, peer sharing or
  tx-submission with the `Done` of the protocol (`Enders`): the messages exist, the
  clients of `pallas-network` send them, and `State::apply` refuses them
  (`keepalive.rs:37`, `peersharing.rs:42`, `txsubmission.rs:60`), so that such a client
  is charged with a violation and banned.
* `ConnectionsTracked` (Responder) leaves out the connection of an address that has a
  disconnect of its past still to be reported (`Haunted`): that event removes the new
  connection's state and writer, as the scenario `Hasty` shows.
* `SupplyConserved` (Ledger) leaves out the balance of transactions that no rule
  balances (`Unbalanced`): a Byron transaction whose inputs are all of redeem
  addresses (`byron.rs:89`), any Byron transaction in a build without overflow checks
  (the run has them), and a failed one whose collateral the rules do not look at.  It
  leaves out the tokens of a transaction that consumes or produces 2^63 or more of one
  (`Countable`).  There the rules do not keep the supply: Conway casts a mint of -n of
  an asset that the inputs do not have to 2^64 - n (`utils.rs:588`, and `:436` where
  the inputs have no tokens at all) and lets it be paid out, and sums of tokens wrap
  around in a release build (a build with overflow checks panics there and accepts no
  more).  Both are among the transactions of the run.
* `RedeemersFound` (Ledger) has two exceptions (`Excused`), transactions that phase
  one accepts and phase two cannot evaluate: an input of a PlutusV1 or PlutusV2 script
  without a datum hash or an inline datum (`MissingRequiredInlineDatumOrHash`,
  `script_context.rs:905`), and, in Conway as in Babbage, a native script that comes
  as a reference script, for which phase one demands a redeemer
  (`NativeScriptPhaseTwo`, `tx.rs:133`).
* `SpentByOwner` and `FailurePays` (Ledger) speak of outputs in the format of the
  transaction's own era: witnesses for older formats are asked for by some eras
  only (section 7).  `SpentByOwner` also leaves out the collateral of a failed
  transaction where the rules do not look at it (`Asked`): if a script locks it and
  no Plutus script comes along, and in any transaction before Alonzo.
* `IntegrityHashAccepted` (TxBuilder) holds where the reference inputs are known,
  the staged views are those of the languages the transaction uses, and the
  parameters have a cost model for each: the builder takes the views as given.
* `NothingStale` (Relay) leaves out the cost models of languages that Conway does not
  know: its decoder keeps them (`conway/model.rs:187`) and its encoder skips them
  (`:169`), so that they are lost when the part around them is encoded anew, after a
  change or by pallas as their author.  A derived decoder skips keys of a map that it
  has no field for; the authors of the run write none.
* `EverythingRead` (Wire) speaks of lanes on which nothing was sent that the receiver
  cannot read (`Spoken`).  Which messages these are is stated for each lane of the run
  (`unread`): those of a protocol the receiver has no codec for, those with a label of
  a later version, and `RejectTx` of `localtxsubmission` as `pallas-network` itself
  encodes it, without the outer array that its decoder reads
  (`localtxsubmission/codec.rs:160` and `:144`).  All other messages of all lanes must
  be read.
* `Delivery` and `EverythingRead` (Wire) speak of the values sampled, and four kinds
  of values that are not written as they were read are not: a rejection in plain text,
  of which the decoder consumes one byte (`localtxsubmission/codec.rs:93-103`), and
  which the encoder does not write (`todo!`); node-to-node `VersionData` with only one
  of `peer_sharing` and `query`, which is written without it and which the repository
  never builds; the cost models of unknown languages in an answer of `queries_v16`,
  which its encoder skips; and the maps of indefinite length of its Plutus data, which
  are written with their length.

## 4. Fairness

The liveness runs use `FairSpec`.  What is assumed, and why the code justifies
it: the application polls the manager for ever and calls housekeeping again and
again (that is how the crate is used: its examples do both in a loop); tokio
completes a write or a connect that can complete; a remote that is up reads what
it is sent and, in the initiator's runs, answers and ends its batches.  In
Initiator a housekeeping pass takes several steps in the model and one call in
the code; fairness of the other actions is strong only to see through that
pause.  Nothing is assumed of failures: flaky connections may fail or not.

In Plexer the muxer, the demuxer and an agent in the middle of an operation are
tokio tasks, woken when they can go on: weak fairness of each.  No fairness is
assumed of a client's requests, of aborts or of drops.  That an agent which waits
for a message reads it when it comes is part of this: an application that opens a
request on one protocol and then attends to another only is not covered, and can
indeed stop its whole connection once the egress queue is full.

Relay, Ledger, TxBuilder and Wire state safety only: they are sequential, or, in
Wire, what arrives is the question and not when (`EverythingRead` says it of every
state in which the receiver waits, which needs no fairness).

## 5. Refinements

* Initiator implements the peer governance of Promotion (`Governance`, with the
  four sets and the tags as they are: the same variables).  Proved
  (`InitiatorGoverns`), and checked by `initiator_safety`.
* Plexer implements MessageChannels (`Delivery`), with `sent` and `got` the
  messages handed to and returned by each agent.  Proved (`PlexerDelivers`), and
  checked by `plexer`.
* Wire implements MessageChannels too (`Delivery`), with the two ends of each lane
  as agents: there the bytes decide, in Plexer the tasks and queues do.  Checked
  by `wire` only.

## 6. Proofs

The runs check small instances; the theorems hold for every value of the
constants.  Each invariant below was checked by TLC before it was proved.  The
bounds that keep a run finite (`MaxErrors`, `MaxRequests`, `MaxInFlight`,
`max_conns`, `max_pending`) are constants or fields of the scenarios, so that the
theorems speak of any value of them.  Five of them say something of one connection
per peer only: `ResponderAnswersInTurn` and `ResponderAccusesNoClient` assume
`max_conns <= 1`, and the properties of `InitiatorNeverOffends`,
`InitiatorGatesLeios` and `InitiatorAccusesOnlyLate` begin with `ConnectedOnce`
(section 3.2 says why).

| module | theorem | states |
|---|---|---|
| PromotionProofs | `GovernanceTypeSafe`, `GovernanceNeverUnderflows`, `GovernanceBansHold`, `GovernanceTagsHaveSlots`, `GovernanceBansPermanent` | the governance by itself |
| InitiatorProofs | `InitiatorGoverns` | `Governance`: Initiator implements Promotion |
| | `InitiatorKeepsLimits` | so the results above hold in the initiator |
| | `InitiatorTypeSafe` | `TypeOK` |
| | `InitiatorLosesNoRange` | `RangesNotLost` |
| | `InitiatorNeverOffends` | `NeverOffends` |
| | `InitiatorGatesLeios` | `LeiosOnlyWhenNegotiated` |
| | `InitiatorAccusesOnlyLate` | `AccusedOnlyWhenLate` |
| ResponderProofs | `ResponderTypeSafe` | `TypeOK` |
| | `ResponderCountsActive` | `ActivePeersTracked` |
| | `ResponderSlotsExact` | `SlotsExact` |
| | `ResponderTracksConnections` | `ConnectionsTracked` |
| | `ResponderAnswersInTurn` | `AnswersInTurn`, where each address connects once |
| | `ResponderAccusesNoClient` | `ClientsNotAccused`, where each address connects once |
| PlexerProofs | `PlexerTypeSafe` | `TypeOK` |
| | `PlexerLosesNothing` | `NothingLost` |
| | `PlexerDelivers` | `Delivery`: Plexer implements MessageChannels |
| AgentsProofs | `AgentsNothingRefused`, `AgentsStatesAgree`, `AgentsNobodyStuck` | the properties of the same names |
| TxBuilderProofs | `BuilderSignaturesAgree` | `SignaturesAgree` |
| | `BuilderHashAccepted` | `IntegrityHashAccepted` |
| | `BuilderRedeemersResolve` | `RedeemersResolve` |
| LedgerProofs | `LedgerStakeConsistent` | `StakeConsistent` |
| | `LedgerSpentByOwner` | `SpentByOwner` |
| | `LedgerRedeemersFound` | `RedeemersFound` |

### 6.1 Governance

Assumed: `Peers` is finite (`PeersAssumption`), the limits are naturals
(`LimitsAssumption`).  The inductive invariant `GovernanceInv` adds two facts to
the properties.  The sets hold
tracked peers only: without it a discovered peer that is not tracked could
already sit in a set.  And the tag of a peer in `banned_peers` is `Banned` or
`Cold`: the reset writes `Cold` whatever was there, so the tag alone does not
show the ban.  The counting rests on four lemmas on cardinality (`InsertSize`,
`RemoveSize`, `ExtendSize`, `PeerSetSize`); the interesting case is
`move_discovered_into_promotion`, where the drained set is at most the deficit
and may overlap the peers already known.

### 6.2 Initiator

Assumed, besides: the scenarios are well formed (`ScenariosAssumption`,
`InitiatorAssumption`), and no block range is the `None` of an `Option`
(`RangesAssumption`).  `InitiatorInv` has three parts: the governance's own
invariant; the shape of the state and of the pool (`BehaviorTypes`, `PoolTypes`);
and the ranges.  The shape is needed even for the governance: the peers it is
offered are those that discovery drained from the peer-sharing state, and that
state keeps a set of peers only because the message that put it there carried one
(`WellKept`).

`RangesNotLost` is not inductive.  `RangesSafe` says of an unanswered range that
it is queued, or held by a peer whose connection is not `New`: an `IncludePeer`
of a known peer replaces its state by a new one, and only the connection state
shows that what a stale event left there was given back before.  `Free` says that
a peer whose block-fetch state is `Idle` has no range in flight, so that handing
it the next one overwrites nothing.  The visitors are treated one by one: each is
`Fine` (keeps the shape, loses no range, leaves the block-fetch state alone) but
`blockfetch_inbound`, which `Settles` the range of a batch that is over.

The second half of the module is about turns.  A request is decided on in a
visitor, waits in the outbound queue and then among the tasks of the writer, and
reaches the peer steps later; the answer takes the same way back, and failures,
disconnects and commands come in between.  To follow one protocol of one peer
through queues that all share, an entry is replaced by what it means there, one
*token* or nothing (`OutToken`, `TaskToken`), and a *line* is the queue so replaced
(`OutLine`, `TaskLine`); what opens and closes connections has a line of its own
(`LinkLine`).  `AllTurns` says of every peer that it is either `Apart` or `Live`.

* `Apart`: it has had no connection.  Its protocol states are the initial ones,
  nothing is queued for it, and a connect, if there is one, is the last thing under
  way (`ConnectLast`): what followed it would meet the new connection.
* `Live`: it had its connection, and while that is not shut (`Upheld`) the two ends
  are in the same protocol states, up to the data that a visitor of the near end has
  drained (`Mirrored`, `Same`); at most one request of a protocol is under way, only
  in a state in which the initiator has the turn, named by `unsent`, and a Leios one
  only if the near end believes the version to carry it (`Pending`).
* in both cases the governance must not let it connect again (`Governed`): a peer
  that is connected or connecting is known and not cold, and one with a warm or hot
  tag has left the connection state `New`.

`NeverOffends` follows because a request that reaches the far end meets the state
in which it was decided on: in the states of `Asking` only the initiator may speak,
so that no answer can overtake it.  `Innocent`, the part that gives
`AccusedOnlyWhenLate`, is where the proof failed at first, on `IntersectNotFound`;
`Negotiated`, which gives the gate of the overlay, needs that the near end's version
is the far end's, and this is what a second connection breaks (section 7).

### 6.3 Responder

Assumed: `ScenariosAssumption` and `ResponderAssumption`.  `Ports` need not be
finite: that finitely many peers are tracked is part of the invariant
(`Tracking`), and so is that accepted peers are tracked, without which a
`Disconnected` would take the gauge below what it counts.  `Slots` adds that,
while nobody returns, whoever is tracked or banned has a connection on record:
otherwise a banned peer could connect, be refused a slot and free one when it
leaves, which is what happens where addresses do return (section 7).

`ConnectionsTracked` is an action property, proved step by step (`TrackedStep`): a
state or a writer is removed by the two steps that report a disconnect, and each needs
a future or a task of the address's past, or an end of the connection itself.  It
holds for any number of connections.

The second half of the module is about what is said.  Between the responder's state of a
protocol and the client's lie the outputs of the behaviour, the tasks of the
connection, and the requests the application was told of.  `TurnsInv` says of each
connection, channel by channel, what may lie there.  `Mirrored`: while the
connection is read and the peer tracked, the two states are equal, because a
message is applied on both sides when it is written or read.  `Turn`: the line of
what is on its way (the tasks of the connection, then the outputs of the peer if
this is its writer) is empty, one message the client's state accepts, one event
that is to tell the application of the client's request, or a part of a batch;
and if the application was told of a request, the line is empty and the request is
the one the client's state shows.  `TxIdsOnce`: while a `RequestTxIds` is on its
way, `unsent` says so; nothing else keeps the next housekeeping from a second one.

The tables enter through `SidesApart`: in no state may both sides speak, so that a
message of the client finds the line empty and what it causes is alone in it.
Every output is of one channel of one peer (`Says`, `OutOf`), and the steps are
proved for the peer they touch (`Touched`) and the others (`Untouched`).  The
theorems assume `MaxConns <= 1`.  They are false without it: section 7, outputs
of an earlier connection.

### 6.4 Plexer

Assumed: `PlexerAssumption` (a segment and a queue hold at least one item, a
message at least one byte; the bearer's capacity, the protocols and the scenarios
are arbitrary).  `PlexerInv` has two parts.

`Typed`: what is in a queue may be there.  Bytes reach only the counterpart of
their sender, and the bearer carries whole frames, except that the last may be cut
short once the muxer that wrote it is gone.  That the demuxer takes the frames off
the bearer as they were put there needs the header's length, which is taken modulo
2^16, to be the payload's: chunks are no longer than a segment.

`Streams`: for each agent, the bytes it sent are those its counterpart returned,
then those on the way (`Pipe`: buffer, egress queue, demuxer's hand, bearer,
muxer's hand, ingress queue, chunks), then some that were lost; and none is lost
while the way is intact.  Losses come with the end of a task or agent only
(abort, drop, an unknown protocol), at the far end of what can still be read;
from then on nothing is sent into the gap.  Without the lost part the invariant
is not preserved by an abort, and without its place at the end `Delivery` does not
follow.  `Pipe` is spelled out over queues that agents share, so each step needs
that taking one agent's bytes out of a concatenation is the concatenation of what
is taken (`OfSender`, lemmas on `FlattenSeq`).

That `recv_full_msg` returns what was sent is `DecodedOnce`: a sequence of bytes
is a sequence of messages in only one way, so a message found at the front of
the buffer is the one due.

### 6.5 Agents

Assumed: there is a cookie (`CookiesAssumption`).  For each protocol `Matching` is
proved from the two tables by cases: whatever one side may send, the other takes
in the same state, without agency, and goes where the sender went.  From there on
the argument is the same for all ten.  The inductive invariant: the messages on
the way to one side lead, each an allowed move of the sender, from the receiver's
state to the sender's, and nothing is on the way back (`Leads`).

### 6.6 Builder

Assumed: `BasesAssumption` (references are numbers, and the calls start from values
of the type `StagingTransaction`), for `BuilderRedeemersResolve` alone; nothing of
the scripts, data and keys, or of the order in which a hash map is met; that the
calls are bounded by naturals (`BuilderAssumption`) is not used.  The inductive
invariant `BuiltInv` has two parts for a transaction that was
built.  `Agreeing`: the map of signatures is defined on the keys of the witnesses,
and for each key it has what the *last* witness of that key has.  "Last" is needed
because `sign` adds a witness without looking for an older one of the same key,
while the map replaces its entry; `remove_signature` takes all of them out
(`LastKept`, by induction over the witnesses).  `Hashed`: the script data hash
inside is that of the redeemers and datums inside and of the views still staged,
since nothing is staged after the build.  `BuilderHashAccepted` then compares two
computations, `script_data_hash` of the builder and `check_script_data_hash` of
Conway, under the condition of the property.

`BuilderRedeemersResolve` has an invariant of its own, `PointsInv`: what is staged
is a `StagingTransaction`, and a built transaction is `Pointed`, that is, its inputs
are the staged ones sorted and its redeemers those of some list of the staged
purposes, each at the position that `build_redeemer` found.  The first part is what
every staging call keeps (`StagedKeeps`); for a reload it is the round trip of the
keys through text (`TextKeeps`, `ReloadKeeps`).  The positions then have to mean the
same to three readers that sort differently: the builder sorts the list of inputs,
`inputs_sorted_set` the set of their elements, and phase two the list again.  Where
no input is staged twice all three are the numbers of one set in order (`Ordered`,
defined by counting the smaller ones; `SortedByCount`, `OrderedLists`,
`SameTargets`), so that the position leads back to the purpose (`TargetIs`) and to
the script that phase two runs (`ScriptIs`).

### 6.7 Ledger

Assumed: `LedgerAssumption` (the eras are ones there are rules for, the bounds are
naturals) and `GenDelegsAssumption` (at genesis no delegate and no VRF key serves
two genesis keys).  The templates, edits, parameters, initial outputs, scripts and
the width of a word are arbitrary.  The invariant `LedgerInv` says that the era is
one of the chain, that the block is a list of transactions, and that the certificate
state is in order (`CertsOK`): `Pointed`, `Delegated`, `Apart`.

`StakeConsistent` counts: as many pointers as registered credentials.  A count is
not preserved by itself; `Pointed` says instead that each pointer leads to a
registered credential, each such credential has a pointer, and no two pointers lead
to the same one.  A deregistration removes *the* pointer of its credential, and by
the third part there is no other.  `Apart` needs the delegates of the present and of
the future together, because a genesis key's new delegate is compared with both.
Each kind of certificate has its lemma (`RegistrationKeeps` and so on); the state is
then threaded through the certificates of a transaction and the transactions of a
block, which are recursive functions (`upto`), by a least counterexample: a position
at which the state is not in order, while at the one before it was.  A refused block
leaves the state as it was.

`SpentByOwner` is inductive beside `LedgerInv`, since it is about the last block
alone, and all of its content is in the rules.  For each era a lemma takes the checks
of an accepted transaction apart down to the ones that name the owner: `ByronOwner`,
`ShelleyOwner`, `AlonzoOwner`, `BabbageOwner`, `ConwayOwner`.  Each must show that
the witness the check finds is one of the transaction's and was verified, that the
script it finds is among its witnesses or its reference inputs, and, from Alonzo on,
that this also covers the collateral.  `ValidOwner` joins them, `KeptOwner` carries
the outcome to the outputs the block saw, `VerdictOwners` to every transaction of
it.  The exceptions of `Asked` are where these proofs failed at first (section 7).

`RedeemersFound` joins the two phases.  `ConwayPrepares` collects what phase one has
checked when it accepts a transaction (`Prepared`): the inputs are known, the datum
hashes of the inputs are among the witnesses, and each redeemer is `Directed`, which
means that its index is inside the sorted inputs, policies or reward accounts and
that what stands there is locked by a Plutus script at hand.  `SameLists` shows that
phase two sorts to the same lists; `RedeemersSorted`, `PurposesBuilt` and
`ContextBuilt` that building the script context finds a purpose for every redeemer,
whichever language asks; `ScriptFound` that the script and the datum are in the
table, which is built from the outputs the block saw (`KeptInputs`, `TableHas`), and
that it is not a native one unless an output brings it as such (`TableNative`).  The
two exceptions of the property are where the proof failed at first.  The invariant is again `LedgerInv`, of which the proof uses `MultiEraTx`: an index into
what is no list would mean nothing.

### 6.8 Lemmas

`QueueLemmas` has what the modules share: a non-empty set of naturals has a least
element, induction over sequences in the form of a *set* that is closed under
`Append` (`SeqInduct`), what `FlattenSeq` computes over `Append`, `\o` and maps,
cancellation in concatenations, and for sorting that in a linear order of n items the
numbers of those ahead are 0 to n - 1, each once (`PlacesTaken`, from the library's
facts on injections of finite sets).  The induction theorems of the library take an
operator as a parameter, which none of the provers instantiates; where a recursive
function had to be reasoned about, the argument is by a least counterexample.

### 6.9 Only model-checked

* all liveness (`FairSpec` and the properties of the liveness runs, `plexer`'s
  arrival and wake-up): the prover has no rule for fairness and `ENABLED`;
* `AnswersInTurn` and `ClientsNotAccused` where an address comes back with nothing
  pending (`Settled`), as in the scenario `Return`;
* `SupplyConserved` and `FailurePays` (Ledger): sums over maps of outputs, folded in
  an order that is chosen.  That such a sum does not depend on the order, or splits
  where a map does, is an induction over data;
* Cbor, Relay, Wire: codecs nest, so they are written with RECURSIVE operators,
  which the prover cannot use; what a codec does for every value is an induction
  over data.

## 7. Findings and observations

Two runs are refuted by TLC; `PROJECT.json` quotes the lines they contradict.

* `finding_handshake_assert`: two connects for one peer can be under way, and
  the second to complete fails the `assert!` of `propose_handshake`.
* `finding_txmonitor`: the tx-monitor decoder takes the end of the input after
  label 6 for a response without a transaction.  A response with one that is cut
  there is returned as none, and the rest is read as the next message.

Observations made while modelling, which no run is about.

Peers (`pallas-network2`):

* the `BanPeer` command on a cold peer (`initiator/mod.rs:663`) is undone by the
  next promotion, which connects to it;
* a hot peer that is lost keeps its slot in `hot_peers` and is not connected again
  (`on_disconnected` resets the tag only);
* each visit of a banned peer frees a per-IP slot that it never took
  (`responder/connection.rs:141`);
* every visitor of the initiator runs on every inbound message, and
  `dispatch_block` (`initiator/blockfetch.rs:90`) does not take the block out of
  the state: a keep-alive response between two blocks reports the last one again;
* the responder drops a peer's state, error count included, on disconnect
  (`responder/mod.rs:495`): a peer that reconnects after each error never reaches
  `max_error_count`;
* an output names a peer, not a connection (`interface.rs:122`): where an address
  connects again before the disconnect of its last connection was reported, an
  answer that is still queued for the old one is written to the new one, out of
  turn, and charged to the client as a violation;
* and the `Disconnected` of the old connection, reported after the address has
  connected again, removes the state of the new connection (`responder/mod.rs:485`);
* a `Done` of keep-alive, peer sharing or tx-submission, which a client of
  `pallas-network` sends to end the protocol, is refused by `State::apply` and charged
  to the client (section 3.2);
* likewise in the initiator: on a reconnect, an `Accept` that the old connection
  still delivers is taken for the new one's, and the version gate of Leios is passed
  before the new connection has negotiated anything;
* a chain-sync peer that answers `IntersectNotFound`, as the protocol allows, is
  marked as violating it (`drain_data`, `initiator/chainsync.rs:99`; a test says that
  this is meant), and banned for having no common point with the node;
* the responder's tx-submission never sends `RequestTxs`, and its state stays in
  `TxIdsBlocking` after the first reply (`responder/txsubmission.rs:38`);
* `shutdown().await.unwrap()` (`interface.rs:87`) panics if the peer closed first.

Agents and plexer (`pallas-network`):

* `release` of the tx-monitor client always fails: `assert_outbound_state`
  (`txmonitor/client.rs:76`) has no entry for `Release`;
* `request_or_await_next` of the chain-sync client (`chainsync/client.rs:303`),
  called in `CanAwait`, consumes an `AwaitReply` and reports `InvalidInbound`;
* the local-message-notification server has no operation that takes whatever
  comes next: `recv_next_request` consumes a `ClientDone` and fails;
* an agent channel that is dropped ends the demuxer of its plexer with the next
  segment for it, while the muxer keeps running (`multiplexer.rs:328`).

Ledger:

* the same input named twice is counted twice, and the transactions of a block are
  validated against the same outputs, so that two may spend one output;
* a transaction that is marked as failed and carries no Plutus script passes Alonzo's
  and later rules, and consumes its collateral; the collateral is looked at only if
  there is such a script, so that one locked by a script is spent without it;
* a transaction before Alonzo that is marked as failed, which its type allows,
  consumes collateral that no rule looks at, in place of its inputs;
* `validate_tx` leaves what it changed in the certificate state when it fails
  (`validate_txs` works on a copy);
* the sums of `check_tx_ex_units` in Conway stay zero (`conway.rs:535-547`);
* a negative mint of an asset that is not there wraps around in Conway, sums of tokens
  do so in a release build, and there a Byron transaction whose outputs exceed its
  inputs does so in the fee (`OverflowChecks`); one that only redeems is not balanced
  at all (section 3.2);
* Shelley asks for no witness for inputs of the Byron era; its `check_mir` takes
  the pots the wrong way round;
* `check_remaining_vk_wits` returns at the first witness that was not used;
* `check_languages` refuses a language only if it is neither available nor
  allowed; a V1 script beside reference inputs passes phase one and is refused by
  phase two;
* Babbage asks for a `Spend` redeemer for every script input, native ones included;
  Babbage and Conway count native reference scripts as phase two scripts, which phase
  two then refuses;
* an output of a PlutusV1 or PlutusV2 script without any datum can be spent in phase
  one only;
* of two equal datums among the witnesses, the second is refused as not needed;
* Conway finds the script of an input only if the output has the Conway format.

Builder:

* datums are kept under the hash of their bytes as a CBOR array of numbers
  (`model.rs:334`), so `remove_datum_by_hash` with the hash of the datum removes
  nothing;
* `remove_signature` panics on the last witness; `build_conway_raw` on a redeemer
  without units, and on a mint of zero;
* the integrity hash is left out if no language view was given; the order of
  datums, redeemers and scripts differs from one build to the next.

Codecs:

* tx-submission rejections, `PlutusPurpose`, `OHashMap` and
  `ShelleyPoolPredFailure` (`localtxsubmission/codec.rs`) are written in another
  layout than they are read, so that a client refuses every rejection that a server
  of the crate sends it; a plain-text rejection (lines 93-103) drains its first byte
  only;
* an IPv6 `PeerAddress` of `pallas-network` is an array of 8 with 6 items;
  `ReplyMessagesBlocking` an array of 3 with 2; node-to-node `VersionData` with
  one of `peer_sharing` and `query` set loses it;
* a length that ends too early inside a `CborWrap` is taken for an incomplete
  message;
* cost models of unknown languages (Babbage, Conway) and the indefinite maps of
  `queries_v16` are not written as they were read;
* the checks for zero and for emptiness of `PositiveCoin`, `NonEmptySet` and
  `NonEmptyKeyValuePairs` are not made by the decoders;
* `original_hash` of a `KeepRaw` that was edited or built hashes no bytes;
* `OrderPreservingProperties` reads a map of indefinite length as empty; the
  pledge leverage of Dijkstra reads null as an absent field.

## 8. Not modelled

* *Hardano* (chunk files, primary and secondary index, the Haskell display of
  errors): read-only iteration over files that are assumed not to change.
* *Utxorpc*, *configs*, *bech32*, string and JSON conversions, addresses other
  than the codec of Byron ones: stateless mappings from one type to another.
* *Crypto* and *math*: numbers out of TLC's reach; hashes and signatures are
  model values.
* *Facades*: the composition of a plexer with its agents, which are here modelled
  one by one.  *RollbackBuffer*: a deque with three operations that nothing
  interleaves with.
* The *flat* codec is bit-level and used by nothing else in the repository;
  `tree.rs` is modelled by the order of children it gives (Relay).
* Evaluation of a Plutus script, its costs, and `to_plutus_data`.
* Emulation and testing helpers, examples.
* In the modelled parts: timers (the application's calls stand for them), metrics
  other than the `active_peers` gauge, `demote_peer`, which nothing calls, and, in
  the agents, the public `send_message` used alone.  The order of the entries of a
  `BTreeMap` is the author's.  How Dijkstra's `MempoolTransaction` tells its two
  forms apart is reduced to the form of the header.

What is modelled and not proved is listed in section 6.9.

In `PROJECT.json`, `map` gives each definition the lines it models.  A helper whose
lines lie inside those of another definition has no entry of its own.

## 9. Plan

Written, in the order of importance: the governance and its proofs, the initiator,
the responder and the pool; the plexer and the agents; the ledger rules and the
builder; the codecs with relay and wire.  Proved: section 6, which covers the
safety of the governance, the initiator, the responder, the plexer, the agents and
the certificate state, ownership and the agreement of the two phases in the ledger,
and the builder.  Left:

1. `SupplyConserved` and `FailurePays`: sums of values over finite sets of inputs,
   stated so that adding one output to a sum is a lemma.
2. The search for a point in the immutable database of `pallas-hardano`, and the
   chain-sync rollback buffer.
