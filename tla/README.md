# A specification of can-iso-tp

TLA+ modules, TLC models and TLAPS proofs for `can-iso-tp`, an ISO-TP
(ISO 15765-2) transport layer for CAN in Rust. ISO-TP carries payloads of up to
4095 bytes over CAN frames: a *Single Frame* (SF) for a short payload, or a *First
Frame* (FF) followed by *Consecutive Frames* (CF) which the receiver paces with
*Flow Control* (FC).

Every definition is translated from the code; comments in the modules name the
functions they stand for, and `PROJECT.json` maps each definition to its lines.

## 1. Inventory

| part | file | state it keeps | operations |
|---|---|---|---|
| PDU codec | `pdu.rs` | none | `encode_with_prefix_sized`, `decode_with_offset`, `st_min_to_duration`, `duration_to_st_min` |
| configuration | `config.rs`, `errors.rs` | constants | `validate`, `max_single/first/consecutive_frame_payload` |
| receive machine | `rx.rs` | `state`, buffer, `written`, `expected_len`, `next_sn`, `block_size`, `block_remaining` | `on_pdu` (SF, FF, CF handlers), `reset`, `take_completed` |
| transmit session | `tx.rs` | `TxState` (Idle, WaitingForFc + deadline, Sending + STmin deadline) with `TxSession` | changed by the senders |
| node | `lib.rs` | a `TxState`, a receive machine, the driver | `poll_send`, `poll_recv`, blocking `send`, `recv` |
| demultiplexer | `demux.rs` | per station: receive machine, `rx_ready`, `TxState`, `pending_fc`; a ring buffer of ready slots; free buffers | `poll_recv`, `poll_send_to`, `send_functional_to`, blocking `recv`, `send_to` |
| clock | `timer.rs` | - | `now`, `elapsed`, `add` |
| async node | `async_node.rs` | a receive machine; the session lives in local variables of the `send` future | `send`, `recv` |
| async demultiplexer | `async_demux.rs` | as the demultiplexer, without `TxState` | `send_to`, `send_functional_to`, `recv` |
| addressing helpers | `address.rs` | none | identifiers and addressing bytes of each addressing mode |
| runtime interface | `async_io.rs` | none | the trait `AsyncRuntime`: `sleep`, `timeout` |

**Interaction.** A node shares nothing with its peer but the bus. Within a node,
`poll_send` and `poll_recv` share the driver's receive queue, and each of them
throws away the frames it is not looking for: this coupling is behind several of
the divergences of section 3. `poll_send` keeps its session between calls and is given the payload
again each time, so a session and the payload of a call are tied together by
nothing but the length. The async node keeps the session in the future instead: it
is gone when the future ends or is dropped, while the receive machine, and the
frames in the driver's queue, outlive every future. The receive machine answers with
an *outcome* and leaves sending FC, and everything about time, to its caller. In both
demultiplexers any call, sending included, may ingest a frame of any station; completed
payloads stay in the receive machines' buffers until a receive call hands them out, and
FC is parked in `pending_fc` until the sender of that station looks.

**What is hard.** The interleaving of polls with frames in flight; late answers to
sessions that are over; futures dropped at any await; two deadlines on one await, and two
readings of one clock; loss of one frame with no timeout on the receiving side;
failure of `try_send` between two changes of state; block counts kept independently
at both ends; the wrap of the sequence number; lengths around the boundaries of the
frame formats; several stations sharing one ready queue. `PROJECT.json` lists these
hazards at their lines with the properties aimed at each.

**What makes each part correct.**
* codec: decoding undoes encoding for every frame length and addressing; a First Frame announces more than it carries;
* addressing: stations built by the helpers hear their partners and nobody else;
* receive machine: the buffer is what was heard; a completed payload is the announced bytes; numbers and block counts match what was accepted;
* nodes: a payload delivered is one that was sent, whole, in order, at most once; no byte is lost on a good link, nor by a cancelled `recv`; both ends agree on blocks and pacing; a timeout names what ran out; sends end; messages arrive;
* demultiplexers: ready queue and flags agree; payloads of different stations are not mixed, overwritten or lost; a grant is used once; an answer goes to the station it is for.

## 2. Modules

```
IsoTpPdu            vocabulary: PDUs, configuration, sequence numbers, STmin
 +- RxHandlers      rx.rs as operators: machine x PDU -> machine, outcome
 |   +- RxMachine       the machine fed any PDUs      <- MCRxMachine, RxMachineProofs
 +- TxSession       tx.rs and the session updates of the senders
     +- IsoTpNode       two polled nodes on a link    <- MCIsoTpNode        => MessageChannel
     +- IsoTpAsyncNode  two async nodes on a link     <- MCIsoTpAsyncNode   => MessageChannel
     +- DemuxPeers      slots, identifiers, ready ring
     |   +- IsoTpDemux       one polled node, many stations <- MCIsoTpDemux      => MessageMailbox
     |   +- IsoTpAsyncDemux  the async one                  <- MCIsoTpAsyncDemux => MessageMailbox
     |   +- DemuxTraffic     what the stations of both MC modules say
     +- PduCodec        pdu.rs on real bytes          <- MCPduCodec
Addressing          address.rs, extended by PduCodec

RxMachineProofs     RxMachine
SessionProofs       TxSession: what a session sends, where it stands, the pace it keeps; streams and queues
 +- NodeProofs          IsoTpNode, each endpoint by itself, then both directions of the link
 +- AsyncNodeProofs     IsoTpAsyncNode
 +- DemuxProofs         IsoTpDemux
 +- CodecProofs         PduCodec and Addressing
SlotProofs          the ready ring of DemuxPeers, slots and ring together,
 |                  the outcomes of the receive machine
 +- DemuxProofs         IsoTpDemux
 +- AsyncDemuxProofs    IsoTpAsyncDemux
```

All modules of endpoints extend both `RxHandlers` and `TxSession`, so there is one
transcription of each handler, used everywhere. `DemuxPeers` is what `demux.rs` and
`async_demux.rs` have twice. `=>` marks refinement of an abstract specification; the
polled and the async endpoints refine the same ones.

**Data.** Payload bytes are tagged with the message (or station) and index they come
from, so a mixture of two payloads is visible. PDUs are records; the bytes behind them
are the business of `PduCodec` alone. `Len(rx.content)` is the code's `written`: the
content beyond it is never read. Sequence numbers count modulo `SnMod` (16 in the
code; 3 in the small models, so that they wrap within one transfer).
*Padded* frames carry `Pad` bytes the receiver cannot tell from data, as on the wire.

**Time.** In the polled node an instant compared with `now` becomes the number of clock
ticks left (`timer`); `Advance` is one tick of `Tick` microseconds; `now >= deadline` is
`timer = 0`. In the async node every call has `left` (what its caller's timeout leaves), a
wait has `fc` (what N_Bs leaves), and `since` is the time since the last CF. They go
below zero, because the code tells "none left" from "passed": `checked_sub` fails
for the second only. In the demultiplexers a deadline may pass at any moment.

**One call, one step** (polled endpoints). `poll_send`, `poll_recv`, `poll_send_to` take
`&mut self`: nothing else touches the endpoint during a call, and frames that arrive during a
call's loop over `try_recv` could as well have arrived before it or after it. The
blocking functions repeat polls, so each poll is a step and the timeout between two
polls is `SendTimesOut`. `poll_recv` of the demultiplexer repeats `ingest_one`; one
iteration is one step, as an iteration that goes on keeps no local state.

**One await to the next, one step** (async endpoints). The call in progress is a record
`call` whose `at` is the await it stands at, with the local variables that are alive there.
`Resumes` and `Runs` are the executor going on with it, `StartSend` and `StartRecv` run a
call to its first await, `Dropped` is a future dropped, by `select!` for example, and
`Done` holds what the last call returned. A frame whose `send` was cut off may have reached
the driver or not (`OutOrNot`). A timeout polls its future before its timer, as the runtimes do that
`async_io.rs` names: a frame that is there is taken even when time is up (the guards
`inbox[n] = <<>>` of `WaitExpires` and `RecvExpires`). The one place without an
await that is a state all the same is `FcArm`, between the two readings of the clock in
`wait_for_flow_control`; unless `Prompt`, time may pass there.

| module | state | actions and the code they are |
|---|---|---|
| `RxMachine` | `rx`, last outcome, history `heard` | `OnPdu` = `on_pdu`, `Reset` = `reset` |
| `IsoTpNode` | `app`, `ret` (the call in progress and its result), `tx`, `rx`, `inbox` (driver queue), `faults`, histories `submitted`, `delivered` | `SendTooLong`, `SendSingle`, `SendFirst`, `SendMismatch`, `FcTimeout`, `NoFcYet`, `WaitBroken`, `GotClearToSend`, `GotWait`, `GotOverflow`, `SendConsecutive` are the ways through `poll_send`; `RecvNothing`, `RecvMalformed`, `RecvQuiet`, `RecvOverflow`, `RecvGrant`, `RecvCompleted` those through `poll_recv`; `SendTimesOut` is `send` giving up; `Submit`, `Advance`, `Lose`, `Interfere` are application, clock and bus |
| `IsoTpAsyncNode` | `call`, `rx`, `inbox`, `faults`, histories `submitted`, `completed`, `delivered`, `broken`, `stale` | `RefuseSend`, `StartSend`, `SingleAccepted`, `FirstAccepted`, `SegmentAccepted`, `Wakes` = `send`; `ArmWait`, `WaitSkips`, `WaitBroken`, `GotClearToSend`, `GotWait`, `GotOverflow`, `WaitExpires` = `wait_for_flow_control`; `StartRecv`, `RecvSkips`, `RecvBroken`, `RecvPdu`, `GrantAccepted`, `OverflowAccepted`, `RecvExpires` = `recv`; `OutExpires`, `DriverFails`, `Dropped` end any of them; `Advance`, `Lose`, `Interfere` are clock and bus |
| `IsoTpDemux` | `peers` (slots), `ready` (ring), `ret`, `sent`, `frames`, history `handed` | `RecvWaiting`, `RecvCompleted`, `RecvNothing` = `poll_recv`; `PollSendTo` = `ingest_one` and then one of `SendSingle` ... `SendConsecutive`; `SendFunctional` = `send_functional_to` |
| `IsoTpAsyncDemux` | `peers`, `ready`, `call`, `frames`, history `handed` | `StartRecv`, `RecvHears`, `RecvExpires`, `GrantAccepted`, `OverflowEnds` = `recv`; `RefuseSend`, `StartSend`, `FirstAccepted` ... `Wakes` = `send_to`; `TakesFc`, `AwaitsFc`, `WaitHears`, `ReplyEnds`, `WaitExpires` = `wait_for_flow_control`; `SendGroup`, `GroupAccepted` = `send_functional_to`; `OutExpires`, `DriverFails`, `Dropped` end any of them |
| `PduCodec` | link, session, receive machine, last PDU sent and heard, a pair of stations | `SendShort`, `SendFirst`, `SendNext`, `Answer`, `HearAnything`: a transfer, FC, or arbitrary bytes through encoder and decoder; `Meet`: a frame from one station built by the addressing helpers to another |

History variables and fields (`heard`, `submitted`, `completed`, `delivered`, `broken`, `stale`,
`handed`, `owner`, `unused`, `said`) are written and never read by the actions, but for
`submitted`, which keeps an application from sending one message twice;
only properties look at the others. The constants `Content` and `Open` of `DemuxPeers` are of
that kind, too: the payloads the frames of a station make up, and the transfers they may leave open.
`ContentAssumption` says that they are closed under taking the frames of that station one after the
other, as `rx.rs` does, and no action reads them. There always are such sets (the least ones
that are closed); `DemuxTraffic` writes them down for the frames of the small models.

Two branches of the code are unreachable, and the models say so where they leave them
out: `offset >= payload_len` at the start of `continue_send`, and a push to a full ready
queue (kept in the model; that it does not happen is part of a theorem, section 4). That the two
overflow checks inside `handle_consecutive` are unreachable is a theorem, too.

Operators with a suffix that says what is wrong with them (`NextSn_nowrap`,
`Taken_not`, ...) are faulty variants of the operator they precede; no specification
uses them. Each shows that some property notices that fault.

## 3. What the runs check

Passing runs:

| run (`.cfg`) | question | bounds |
|---|---|---|
| `ReceiverAnyPdus` | Does the receive machine stay consistent under any PDUs in any order, resets included? | buffer 6, payload <= 5, announced lengths 1..7, 2 byte values, up to 2 bytes per frame, blocks of 2, numbers modulo 3, 5 CFs per transfer: one more than the longest transfer can use, so wrap, two block ends, overflow and the exact fit all occur |
| `LinkReliable` | On a link without faults: is no byte lost (`StreamConserved`), do both ends agree on blocks and pacing, does everything arrive? | messages of 12, 1 and 4 bytes, one byte per FF and two per CF: 6 CFs, three blocks, two wraps; STmin of two ticks; padding |
| `LinkFaulty` | With both ends sending and any two frames lost or refused, do applications still see whole messages, in order, at most once? Does every CF continue its own FF, though two payloads have one length? | 9 and 9 bytes one way, 4 the other; 2 faults, frames of other identifiers among them |
| `LinkNoise` | Does every send end, when callers give up at any time, and with loss, Waits, junk and payloads too long for either end? | lengths 7 (too long for the receiver), 13 (for the sender), 5; 2 faults; `wft_max` 1, so the second Wait is one too many |
| `AsyncLink` | Two async ends whose futures time out, fail or are dropped at any await: does a cut-off `recv` cost no byte, do segments keep their distance, do timeouts name what ran out, do applications see whole messages, in order, at most once? | 4 and 3 bytes and one too long, in both directions; caller's timeouts of 0 and 2 ticks for `send` and 1 for `recv`, N_Bs and STmin of one, so that each deadline passes before, with and after the other; one fault or dropped future |
| `AsyncReturns` | Does every async `send` return, also when both ends send at once and throw away each other's First Frames? Does what returned `Ok` arrive? | as before, without noise and drops, one frame lost or refused |
| `DemuxCompeting` | Ready queue against flags; stations never confused; the receive side is a FIFO mailbox; every waiting payload is delivered | 3 stations, 2 slots, 5 frames |
| `DemuxSession` | Sessions against any answers | 2 stations and 2 slots, so that two sessions run at once, fail and are abandoned, and the demultiplexer's own address; every kind of frame from one station, the answers from the other, 3 frames; payloads of 1, 4 and 6 bytes (short, segmented, too long); N_Bs of one tick |
| `AsyncDemux` | The same of the async one, whose calls end at any await, and does an answer go to the station it is for? | 2 stations with payloads, one of which also answers, a third that finds no slot; a frame of the endpoint's own address; 4 frames, 2 slots, the same payloads |
| `CodecRoundTrip` | Is decoding the inverse of encoding, and a transfer exact? Who hears whom? | frame lengths 8, 9, 10, 12, 64, with and without addressing byte and padding, 17 payload lengths around each boundary, all 256 STmin bytes, 4095 as header values come from raw frames; 175 stations of all addressing modes, each pair |

The refinements: `ImplementsChannel` maps a link to `MessageChannel` (each direction a
channel that may lose a message, never repeat, reorder or alter one);
`ImplementsMailbox` maps a demultiplexer to `MessageMailbox` (at most one complete
payload waits per station, they are handed out in the order of completion, a waiting
one does not change). Each is checked for the polled and for the async endpoint.
The async link implements the channel only until a send fails with its answer still to
come (`stale`): from there on divergence 1 applies to it as well.

`CompletedArrives` relates the result of `send` to the other end: `Ok` says no more than
that the driver took the last frame, so the property takes it from there through the
`recv`s of the peer, cut off as they are, to the delivery.
`StreamConserved` of the async link is the cancellation safety of `recv`: what it
changed before an await is a state the next `recv` can go on from.

Runs where the code does not do what a document says (each checks the one property and
TLC finds the counterexample):

1. `LinkLate`, `DeliveredIntact`: an FF times out at the sender while it waits in the
   receiver's queue. The receiver answers it late and ignores the FF of the next
   message; the late ClearToSend starts the next session's CFs; the payload delivered has
   the head of one message and the tail of another. No fault of the bus is involved.
2. `AsyncClock`, `NeverPanics`: `wait_for_flow_control` compares `elapsed(fc_start)` with
   N_Bs, then reads the clock again to compute `n_bs - elapsed(fc_start)`. If N_Bs passes
   between the two, the subtraction of `Duration`s panics where a timeout was due
   (`async_node.rs:265`, and `async_demux.rs:437`, where handling a pending FC lies in between).

Further divergences met while modelling. Those with a property are seen by changing the
constants of a passing run:

* A. `LinkFaulty` with `MayTimeOut = TRUE`: `ContinuesOwnFirstFrame` fails. `send` returns `Timeout(NAs)` and
  leaves its session behind; a later payload of the same length continues it (`lib.rs:390`). `NotIdle`
  ("Operation attempted while a transfer is active", `errors.rs:42`) is for payloads of another length only.
* B. `LinkReliable` with `StMinB = 1500`: `SeparationTimeHonoured` fails, as 1.5 ms is
  announced as 1 ms (`duration_to_st_min` rounds down).
* C. `CodecRoundTrip` with `PayloadLens = {0, 1}`: `WireIsFaithful` fails, as an empty payload
  in a padded FD frame has the length nibble 0 of the FD escape, and decodes as padding.
* D. Both demultiplexers keep an FC in `pending_fc` whether or not a session waits and do
  not clear it when a First Frame goes out: the answer to a session that is over resumes the next
  one. This is `Remembered` and `GotClearToSend`; no property is stated
  about it.
* E. After one lost or refused CF the receiver stays `Receiving` and ignores all further
  messages (`rx.rs:166`); `n_br`, which `config.rs:33` documents as the timeout for this, is never
  read. There is no recovery to state a property about: under loss `LinkFaulty` asks that what is delivered is whole.
* F. `LinkReliable` with `BlockA = 1`, `BlockB = 0`: `BlocksAgree` fails. FC with block size 0
  ("unlimited", `pdu.rs:35`) makes the sender use its own block size (`lib.rs:427`) and then wait for an FC
  that never comes.
* G. `LinkReliable` with `Superloop = TRUE` and `From2 = b`: `EveryMessageArrives` fails. `poll_recv` discards the FC that
  `poll_send` waits for (`lib.rs:271`) and the wait discards FFs (`lib.rs:460`), though polling
  both (`lib.rs:38`) in a "superloop" (`lib.rs:186`) is what they are for.
* H. `with_functional_addr` accepts "functional SF" only, but while a payload of the
  station waits, FC on the functional identifier is taken (`demux.rs:195`, `demux.rs:295`). This is
  `IngestPdu`.
* I. `Clock::add` is to saturate (`timer.rs:17`), and `StdClock::add` returns the instant
  itself when the sum cannot be represented (`timer.rs:42`): a deadline far away has passed at once.
* J. Of the async code, by reading: `sleep_or_timeout` bounds a sleep by a timeout of the same
  length, so a runtime whose timeouts look at their timer first would end a paced send
  with `Timeout(NAs)`; `?` in `wait_for_flow_control` of `async_demux.rs` ends a send with the error of
  whichever station was heard, and a First Frame too long gets no Overflow there,
  while `recv` sends one; `IsoTpDemux` sends none to a station without a slot, the async one
  sends it whatever the frame was, FC included, so that two full ones answer each other
  as long as they are read.
* K. `LinkLate` with `Prompt = TRUE`, `MaxFaults = 1` and a `Malformed` frame as noise: `DeliveredIntact` fails. A
  frame that does not decode ends the session of a sender that waits (`WaitBroken`, `lib.rs:440`); its First Frame
  stays with the receiver, whose answer then starts the CFs of the next session, as in 1.
* L. `LinkFaulty` with `Superloop = FALSE`: `DeliveredIntact` fails. Two blocking `send`s at once: the one that is
  pacing its CFs does not read, so the other's First Frame waits in its queue until it timed out, as in 1.

Each passing run excludes exactly what a divergence is about, by a constant of the module,
not by changing an action: `Prompt` (1, 2), no `MayTimeOut` where one payload must not continue
another (A), STmin in whole milliseconds (B), no empty payload (C), no `Lossy` where every message
must arrive (E), block sizes of the two ends (F), `Superloop` (G, L), `Noise` that is all of other
identifiers (K). The theorems about the link (`NodeProofs`) and the codec (`CodecProofs`) have the
same list in their hypotheses.

### Assumptions about the environment

* `Prompt` in `IsoTpNode`: every endpoint that reads its queue empties it before a peer's N_Bs expires.
  N_Bs is 1000 ms by default and a poll takes microseconds. `LinkLate` drops it.
  In `IsoTpAsyncNode`: two readings of the clock a few instructions apart fall into one tick. `AsyncClock` drops it.
* `Superloop = FALSE`: an application does not call `poll_recv` while its own send is in
  progress, as with the blocking `send`. `LinkFaulty` drops it.
* `Lossy`, `MaxFaults`, `Noise`, `Cancels`: what the bus, the driver and the callers do. Reordering and
  duplication are left
  out: a CAN bus delivers frames of one identifier in order, and duplicates differ from
  noise only for a receiver that is fed any PDUs at all, which is `ReceiverAnyPdus`.

### Fairness

`FairSpec` of `IsoTpNode` is weak fairness of `PollSend(n)`, `PollRecv(n)` and `Advance`. The
blocking functions poll in a loop, a superloop polls by definition, and a monotonic
clock moves. Nothing is assumed of the bus, of new messages or of the caller's timeouts.
Weak fairness suffices because a poll that can make progress stays able to until it is
made. `FairSpec` of `IsoTpDemux` is weak fairness of `RecvWaiting` alone: the application
calls `poll_recv` again and again, which looks at the ready queue first.

`FairSpec` of `IsoTpAsyncNode` is weak fairness of `Task(n)`, one for each endpoint, and of the clock:
an executor polls a task that has been woken, and a task that does not send comes back to
`recv`. It says nothing about which of several enabled steps a task takes.
`FairSpec` of `IsoTpAsyncDemux` is weak fairness of `Runs` (an await ends: all have
deadlines) and *strong* fairness of `StartRecv`: the application is free time and again, between
the sends it makes, and not forever in a row, so weak fairness would promise nothing.

`CHECK_DEADLOCK FALSE` appears for the polled link and the codec, which stop when all
messages are sent, and for `AsyncClock`, where the clock stops with all calls done; the
other models never stop and are checked for deadlock.

### Why the bounds are enough

The properties relate positions in a payload, a sequence number, a block count and the
frames in flight. Three bytes per frame with numbers modulo 3 and blocks of one or two
reach every combination of "number wraps", "block ends", "payload ends" within one
message; two messages in one direction and one in the other give every pairing of a
session with a predecessor, a successor and opposite traffic; two faults hit any pair of frames,
in particular the last of one transfer and the first of the next. The async link has one
fault and shorter messages, as each call has an await between any two of its steps;
timeouts need no fault and are not bounded. Three stations for two
slots fill the table, wrap the ring and refuse a station; what these few slots show
of ring and flags is proved for any number of them.

## 4. What is proved

### The receive machine

`RxMachineProofs` proves, for every configuration that passes `ValidConfig`, every
`SnMod >= 2`, every set of byte values and every bound of `RxMachine`:

| theorem | property |
|---|---|
| `TypeCorrect` | `[]TypeOK` |
| `BufferCorrect` | `[]BufferIsWhatWasHeard` |
| `CompletionCorrect` | `[]CompletedIsTheAnnouncedPayload` |
| `SequenceCorrect` | `[]SequenceCountsFrames` |
| `BlockCorrect` | `[]BlockIsAnswered` |
| `NoOverflowMidTransfer` | `AcceptedTransferFits` (an action property) |

**The invariant.** `IInv` is the conjunction of `TypeOK` with the state properties; none
of the latter is inductive without the others. `CompletedIsTheAnnouncedPayload` after the
last CF needs that the buffer was the bytes heard before it (`BufferIsWhatWasHeard`), which
needs the transfer to fit the buffer (`heard.len <= Room(Config)`), or else the
overflow check would leave bytes heard and not stored; that bound is also what makes
`NoOverflowMidTransfer` hold. `SequenceCountsFrames` and `BlockIsAnswered` need that only an accepted
frame counts.

**The argument.** `NextIInv` splits on `Reset` and on the kind of PDU; a refused PDU changes
nothing (`RefusedIInv`); SF, FF and CF have a lemma each. A CF is taken apart in
`AfterChunkCases` into its four outcomes (complete, unlimited block, block ends, block goes
on). The facts about sequences it rests on are that a prefix of `s \o t` is `s` followed by a prefix
of `t` (`ConcatPrefix`, `ConsecutiveStep`), and about numbers that wrapping at every step is
wrapping once (`ModStep`), proved from `ModUnique` since the provers know remainders
for constants only.

**Assumptions.** `ConfigAssumption`, `BoundsAssumption`, `SnModAssumption`: a capacity at least
`max_payload_len`, as `build()` enforces, natural numbers for block size and STmin, a modulus
of at least 2.
TLC evaluates them in `ReceiverAnyPdus`.

### Sessions

`SessionProofs` has the lemmas about `TxSession` that the proofs of the endpoints share, for any payload,
frame length and padding: a First Frame leaves the session behind its bytes (`FirstSent`); the next
Consecutive Frame carries the bytes from there to `Reach`, no more (`ChunkReach`); what follows it is a
session there or none (`FrameSent`); the peer that strips the padding has heard exactly the payload up to
there (`HeardSoFar`); and a separation time that `Encodes`, one that `0..900` microseconds in steps of 100 or
`0..127` milliseconds name, comes out of the STmin byte as no less than went in (`EncodedNames`).

It also has what the stream of a link needs: `FlattenSeq` at either end of a sequence of payloads, and the
Consecutive Frames of a queue `Numbered` from one sequence number to another, of which the first is the next
one expected and leaves the rest numbered (`NumberedTaken`).

### The polled node

`NodeProofs` proves, for all endpoints, configurations, messages, clock ticks, faults and any noise
that is made of PDUs:

| theorem | property | under |
|---|---|---|
| `StaysFit` | `[]IInv`, the inductive invariant | |
| `Typed` | `[]TypeOK` | |
| `OwnFirstFrame` | `ContinuesOwnFirstFrame` (an action property) | `LengthsTell` |
| `SeparationKept` | `SeparationTimeHonoured` (an action property) | `PacesEncodable`, `NoForeignGrants` |

**The invariant.** `SendersFit` says of each session that it was opened for a message of its endpoint, of the
length the session counts with (`OwnedBy`), and that this message is the one being sent now: unless callers give
up (`MayTimeOut`), or the session had one Wait too many, which `poll_send` reports with the
session left in place, and which therefore must never send again. `wait_count` stays above
`wft_max` in such a session, and the test at the start of `continue_wait_for_fc` ends it.
`TypeOK` needs `OwnedBy`, since `continue_send` cuts the next frame out of the payload of the call and not of
the session's own. `ReceiversFit` and `QueuesFit` say what machines and frames are made of. For
`SeparationKept` the grants in every queue name the time of the endpoint that gave them, and
so does a session that is sending.

**The hypotheses** exclude what section 3 lists as divergences, no more. `LengthsTell`: if callers give up, two
messages of one endpoint differ in length (A); if none gives up, lengths may be any, as in `LinkFaulty`. `PacesEncodable`: separation times are ones the
STmin byte can name (B). `NoForeignGrants`: the noise has no ClearToSend, which nobody could tell
from the peer's.

Its second part takes both ends and the two queues between them together. For all pairs of endpoints, messages,
configurations (padding, block sizes, separation times, capacities too small for the peer's messages), and any
number of frames lost, refused or of other identifiers:

| theorem | property | under |
|---|---|---|
| `LinkKept` | `[](IInv /\ LinkInv)`, the inductive invariant | `Orderly` |
| `Intact` | `[]DeliveredIntact` | `Orderly` |
| `Windowed` | `[]WindowRespected` | `Orderly` |
| `LinkIsChannel` | `ImplementsChannel`, the refinement of `MessageChannel` | `Orderly` |
| `BlocksHeld` | `[]BlocksAgree` | `Steady` |
| `StreamHeld` | `[]StreamConserved` | `Steady`, `Roomy` |

(`Orderly`, `Steady` and `Roomy` are defined in `NodeProofs`, each before the first lemmas that need it.)

**The hypothesis.** `Orderly` is the constants of `LinkFaulty` made general: `Prompt` and `n_bs > 0` (divergence
1: an answer is read before its session times out), no `MayTimeOut` (A), endpoints that poll both ways or only
one that sends (L), noise that is of other identifiers (K, and grants nobody gave), no empty messages (C: two of
them could not be told apart, and no padded frame carries one). `Steady` makes `LinkReliable` general: `Orderly`
without losses, one endpoint sends, and if its peer asks for no blocks it makes none of its own (F). `Roomy`: every
message fits `max_payload_len` of its sender and the receiver's buffer. A longer one is answered with an Overflow
and given up, and what its First Frame carried is rightly gone.

**The invariant** of one direction is `LinkAt`: for some number `k` of CFs that the open session has sent,

* `Story`: what was delivered are payloads of messages submitted; the message being sent is the last one, and
  neither it nor a later one was delivered;
* `SessionOf`: the session stands at `At(n, k)`, the bytes of the FF and of `k` CFs;
* `AnswersAre`: an FC on its way to the sender is a grant of the peer's block size or an Overflow, and if
  the peer has room for SFs there is at most one, and only while the sender waits in time;
* `SinglesAre`, `FirstIs`: SFs on their way are of messages not yet delivered; an FF is there only while its
  session waits and has sent no CF, is the only one, and nothing is behind it;
* `NothingOpen` if the receiver is `Idle`: no CF and no grant is in flight and the sender is not sending. Otherwise
  `Opened` for some message `x` of which `e` CFs were taken: the buffer is `Prefix(n, x, e)`, or it fell behind and
  every CF still to come is too far ahead to complete it; the CFs in flight are of `x`, after the `e`th, with places
  that go up and stay within the block granted (`QueueFollows`); a sender that sends is at `x`, and counts the same
  rest of the block as the receiver does plus what is in flight or lost; a grant in flight is for the CF after the ones
  taken (`SenderFollows`).

`DeliveredIntact` is not inductive without all of it: that the bytes are one message's needs the CFs in flight to
be of the message of the receiver's open transfer, which needs that no grant outlives its session, which
needs that a session does not end while its FF or the answer to it is under way. That is where `Prompt` and
the deadline come in: the wait's timer runs out only in a step of the clock, and those happen with empty queues.

**The argument.** What happens to one direction is an event: a message is taken (`LinkSubmit`), its SF or FF goes out
(`LinkSingle`, `LinkFirst`), a CF does (`LinkConsecutive`), a grant arrives (`LinkCleared`), a send ends (`LinkStop`),
the clock ticks (`LinkTick`), frames are lost from either queue (`SameLink`), the receiver takes a PDU
(`PduAnswered`, from a lemma for each kind of PDU and outcome). Each has a lemma about `LinkAt` that says
nothing of variables. A CF that was sent carries the bytes from `At(n, k)` on (`NextIsCf`), a receiver that takes
it has the next bytes if it took as many CFs as were sent before it. Sequence numbers do not tell: after a whole round
of losses the receiver takes a CF that is not the next. Then its buffer is behind for good, and no CF of `x` can fill
it, so the payload is not delivered at all; that is why `Continues` counts frames, and why `e < no` is a case of
the invariant. `LinkSends`, `LinkReceives` and `LinkDisturbed` lift the events to
the two directions of the link, where every queue is the data queue of one direction and the answers' of the
other, and each action of `IsoTpNode` has a lemma then (`StartLink` ... `BusLink`, collected in `NextLink`).
`WindowRespected` counts CFs: those in the queue have distinct places in a window of `block_size`
(`WindowCounts`). For the refinement, what a `poll_recv` delivers is `IsNext`, a message after all that
were delivered, which is what `MessageChannel` asks of its `Deliver` step.

**Where a block ends.** `BlocksAgree` is about frames that are all there, and `LinkAt` is as weak as losses need it: the
receiver is somewhere behind. `PairInv` adds that it is behind by what is in flight and no more. Of a session without
a grant on its way, unless only its FF is out, the `d` CFs in the queue are all the receiver lacks (`Row`), none of
them short, numbered one after the other from the number the receiver expects to the one the sender uses next
(`Numbered`), and both count down to the same frame (`Blocks`); with a grant on its way nothing is in flight and the
two numbers are equal. The numbers have to be in it: a receiver that refused a CF for its number would take fewer
than its sender counts, and it refuses none because the numbers agree through every wrap. `PairedSent` puts a CF at the end
of the row, `PairedTaken` takes the first, and the grant that the last one of a block brings makes the next row
start (`PairedCleared`). That a receiver passes over no CF is `RefusesNone` and `PassedOver`, and that it grants
nothing before its sender has sent a CF is `NoStrayGrant`. With `Nat` cut down to `0..2500`, TLC finds `PairInv`
an invariant of `LinkReliable`.

**The streams.** `StreamConserved` is not inductive by itself: a frame that the receiver passed over, or a session that
ended early, would break it, and that neither happens is not in it. `StreamInv` adds for the direction from
the endpoint that sends (`Flows`) that the frames in the queue are a `Path`: each data frame `Leads` from one `Place`
in the sequence of transfers (message, CFs done, next number) to the next, the first from where the receiver is (`HeardTo`),
the last to where the sender is (`SaidTo`). So the first data frame in the queue is always one
the receiver takes, all of it (`FirstDataTaken`, `NonePassed`), every answer is a ClearToSend (`GrantsOnly`), and
N_Bs does not expire: with both queues empty the receiver is where the sender is, in the middle of a block, and a
sender that waits is at the end of one (`NotInVain`, by `PairInv`). The other directions carry nothing (`Silent`).
`FrameBytes` says what a frame carries once the padding is cut off, `BalanceSent` and `BalanceTaken` move those
bytes from the sender to the queue and from there to the receiver. For that `SessionProofs` has lemmas about
`FlattenSeq` at either end of a sequence; they need no induction principle, only a least counterexample (`HasLeast`).

**Assumptions.** `NodeAssumption`, `CfgAssumption`, `PadAssumption` (the padding is no byte of a payload: bytes are
told apart by where they come from), `NoiseAssumption`, which TLC evaluates in the runs of the link.
`frame_len > 2` in `CfgAssumption` is less than what `validate` demands (`config.rs:74`), and makes room for a
byte in every frame. The number `k` of `Link` ranges over `Nat`, so `LinkInv` itself is not a formula
for TLC; what follows from it is what the runs check.

### The codec and the addressing helpers

`CodecProofs` proves, for every set of frame lengths in `8..64`, of addressing bytes, paddings, payload lengths,
raw frames and stations:

| theorem | property | under |
|---|---|---|
| `CodecInvariant` | `[]CodecInv`, the inductive invariant | |
| `FramesSurviveTheWire` | `[]WireIsFaithful` | `NoEmptyPadded` |
| `PayloadsAreExact` | `[]TransferIsExact` | `NoEmptyPadded` |
| `FirstFramesAnnounceMore` | `[]FirstFrameAnnouncesMore` | |
| `SeparationTimesSurvive` | `[]StMinSurvives` | |
| `PartnersMeet` | `[]OnlyPartnersMeet` | |

**The hypothesis.** `NoEmptyPadded` is divergence C, no more: no empty payload, or no padding, or no CAN FD frames. The
length nibble 0 of an empty Single Frame is the escape to the length byte there, and the padding byte is read as a length.

**The invariant.** `Underway`: while a session sends, there are `k` and `sn` such that session and receive machine
both stand at byte `k` of the payload and expect number `sn`. `TransferIsExact` needs it, because the
machine decides that a payload is complete by its own count of bytes and the sender by its offset; the last frame
makes both end at once only if they agreed before it. The other conjuncts say something of the last frame only, and
need of the state before it no more than this. TLC finds `Underway` an invariant of `CodecRoundTrip` when `k` is
bounded by the length.

**The argument.** `FrameCarries` takes a frame apart into addressing byte, PCI bytes, data and fill, whatever the sizes;
`DecodeHead` says what the decoder sees behind the addressing byte. From there each kind of frame has its own lemma
(`LongDecodes`, `SingleDecodes`, `FirstDecodes`, `NextCrosses`, `AnswerStep`), which is about the arithmetic of
nibbles: a length below 16 leaves the PCI type alone, `len \div 256` and `len % 256` of a First Frame make up `len`
below 4096, a number below 16 is its own remainder. `NextAccepted` and `NextSent` are the receive machine and the
session on either side of a Consecutive Frame, `NextPasses` puts them together. Padding is harmless behind the last
segment alone, since any earlier one fills its frame (`Reach`). For the addresses, `PartnersAre` says for each mode who
is whose partner in terms of what users name, `AddressFields` what the constructor makes of it, and `FixedReach` that an
identifier of a fixed mode determines its base and both node addresses (`base + 256 * high + low` with four
bases further apart than two bytes reach). Hence `PartnersReach`: stations of a like mode are partners exactly if the
identifiers and addressing bytes fit in both directions, of which one is enough in the fixed modes. `WhoHears` adds the check
of the first byte.

`StMinSurvives` and `FirstFrameAnnouncesMore` hold of whatever is heard, as the proofs show by not using the invariant:
one is about the conversions of `pdu.rs` alone, the other about the decoder fed any bytes at all.

**Assumptions.** `CodecAssumption` and `StationAssumption` are the types of the code (`u8`, `Option<u8>`, `Id`, the frame
lengths that `validate` takes, `config.rs:74`), which TLC evaluates in `CodecRoundTrip`.

### The async node

`AsyncNodeProofs` proves, for all endpoints, configurations, messages, timeouts and clocks:

| theorem | property | under |
|---|---|---|
| `StaysTimed` | `[]IInv`, the inductive invariant | |
| `TimeoutsAreHonest` | `TimeoutIsHonest` (an action property) | |
| `PromptNeverPanics` | `[]NeverPanics` | `Prompt` |
| `SeparationKept` | `SeparationTimeHonoured` (an action property) | `PacesEncodable`, `NoForeignGrants` |

**The invariant** `Timed` says how the deadlines of a call relate at each await. The kind of timeout is decided
when a wait is armed and reported when the wait ends, with the clock moving in between, so it has to be invariant
that it still names the earlier deadline (`NAs` with `left <= fc`, `NBs` with `fc <= left`): both count down
together. A Consecutive Frame stands at its await only when the separation time has passed
or the call is over. `PromptNeverPanics` is the other side of divergence 2: without a tick between the two
readings of the clock, `n_bs - elapsed` is never below zero.

### The demultiplexers

`DemuxProofs` and `AsyncDemuxProofs` prove, for every `MaxPeers > 0`, every valid configuration, every
set of stations and lengths, and frames of any shape (`BusFrame` is any set of frames whose
sources are stations, nothing being said about what they carry):

| theorem | property | of |
|---|---|---|
| `StaysConsistent` | `[]IInv`, the inductive invariant | both |
| `RingMatchesFlags` | `[]ReadyMatchesFlags` | both |
| `GrantsUsedOnce` | `[]GrantUsedOnce` | both |
| `MailboxImplemented` | `ImplementsMailbox`, the refinement of `MessageMailbox` | both |
| `Typed` | `[]TypeOK` | `DemuxProofs` |
| `StationsDiffer` | `[]OneSlotPerStation` | `DemuxProofs` |
| `SegmentsStayInOrder` | `[]SegmentsInOrder` | `DemuxProofs` |
| `AnswersGoWhereDue` | `[]AnswersAreDue` | `AsyncDemuxProofs` |

**The invariant** is `Consistent` of `SlotProofs`: there are at most `MaxPeers` slots, of distinct
stations; the ring `Holds` exactly the flagged slots, which says that `tail` is `len`
places after `head`, that the entries between them are flagged slots, that each is there
and none twice; a slot that remembers a ClearToSend has one that no block used; and what a machine holds is a
payload, or an open transfer, made up of frames of its own station (`Content`, `Open`).
`ReadyMatchesFlags` alone is not inductive: it compares sets and a count, and a pop keeps it
only because no slot is listed twice. `GrantUsedOnce` needs that what is remembered
was heard and not yet used. `DemuxProofs` adds `Speaks`: a station was `Said` the beginning of a payload, up to
the offset of the session of its slot if there is one, from which `SegmentsInOrder` follows. For the async
demultiplexer the answer on its way is part of the invariant
(`AnswersAreDue`): between the await that heard a First Frame and the one that sends the FC nothing may
touch that station's machine, whatever station the call is about; and so is `NothingLeft`: a `recv` that awaits a
frame found the ring empty, which is why it may hand out a payload that completes without queueing it.

**The argument.** The first part of `SlotProofs` is about `ReadyQueue` alone: `RingIndex` and `RingStep` say what
`(head + k) % MaxPeers` is for any `MaxPeers`, from which `PushHolds` and `PopHolds` show
that push adds its argument and pop removes the oldest. The second puts slots and ring together. The
entries of the ring are a bijection onto the flagged slots, so their numbers agree
(`RingCounts`); a slot that is not flagged leaves the flagged ones fewer than the slots, so the ring has
room (`RoomLeft`), which is why the error branch of push is never taken although `ingest_one`
sets the flag before it pushes. `Found` says that `find_peer_index` finds a station's slot or there
is none, hence `SlotFilled`: allocation never gives a station a second slot. `OnPduSound` is what is
needed of the receive machine: whatever the PDU, it asks for FC only in an open
transfer, with a fresh block. Then each action has a lemma, and those that only move a call
along share one (`CalmKeeps`, `StepsIInv`).

**The refinement.** `Waiting(peers, ready)` is the mailbox. A slot whose machine completes was not flagged, or its
frame would have been refused, so its payload `Adds` to the end of the mailbox; a slot that is
flagged is not touched until `pop` hands it out; a completion in `recv` with nothing waiting is `Pass`; and
every other step leaves the ring, and the stations and contents of the slots listed in it, as they are.

**Assumptions.** `CfgAssumption`, `DemuxAssumption` and `ContentAssumption`, evaluated by TLC in the demultiplexer
runs.

### What is only model-checked

Liveness (`EverySendEnds`, `EveryMessageArrives`, `EverySendReturns`,
`CompletedArrives`, `WaitingIsDelivered`) depends on fairness and `ENABLED`, which the provers at hand do not
treat. `StreamConserved` of the async link and its refinement of `MessageChannel` are checked, not
proved: its states between two awaits each need their own part of `LinkAt` and of `Flows`. See the plan.

## 5. Not modelled

* The clock beyond comparisons: deadlines outside the range of `Instant` (I above).
* `RxStorage` variants are a capacity; `Debug` output is left out.
* `AsyncRuntime` is a trait without code here: its `sleep` and `timeout` are part of the awaits
  that use them. A runtime that looks at its timer first is divergence J.
* `send_timeout` of the driver in `send_functional_to` is a send that succeeds or fails.
* Filters (`acceptance_filters`): the demultiplexer models let any identifier through; `Hears` of
  `Addressing` is the check the endpoints make themselves.
* `IsoTpAsyncDemux` has no clock: a deadline may pass at any moment, so what it is about is
  checked with deadlines in any order, and which comes first is checked of `IsoTpAsyncNode`, whose
  code it repeats.

## 6. Plan

Done: the modules above, each proof module after the run that checks its invariant.

Next:
1. The lemmas of `NodeProofs` about `LinkAt` and `Flows` for the async link, whose calls make the same steps between awaits.
