# TLA+ specifications of new-efp

new-efp is a framing protocol for media over datagrams: a `Sender` cuts a
SuperFrame into fragments, a `Receiver` puts it together again, NACKs repair
losses, and a `BandwidthManager` tells the encoders how much to send. This
directory models the library (`efp.h`, `efp_internal.h`, `bandwidth_manager.h`
and the parts of `efp_c_api.cpp` with state or data of their own), checks it
with TLC on small instances, and proves the central invariants with TLAPS for
every value of the constants. `PROJECT.json` has the map from definitions to
source lines, the runs, mutants, findings, hazards and theorems.

## Inventory

| Component | State | Operations | What makes it correct |
|---|---|---|---|
| Wire format, fragmentation (`efp_internal.h`, `Sender::send`) | none | split, offsets, DTS difference | fragments cover the frame, fit the MTU; both ends compute the same layout |
| NACK ranges (`buildNack`, `receiveNack`) | none | scan, walk | exactly the missing fragments are named and read back |
| Sender | `mSuperFrameNo`, retention buffer, its order and byte count, retransmit queue and its marks, all under `mMutex` | `send`, `receiveNack`, `processRetransmits` | no leak, no drift, limit kept; what was asked is what is sent again; bundles can be parsed |
| Receiver | ring of buckets, `mBucketMap`, per-stream payload cache, unwrapped number, under `mNetMutex`; delivery queue under `mDeliveryMutex` | `receive` (Type0..Type4), `poll`, worker and delivery loop, `stop` | no write outside a buffer, map and ring agree, count is right, every frame leaves, NACK before giving up |
| Threads | `mNetMutex` (recursive), `mDeliveryMutex`, `Sender::mMutex`, `gHandlesMutex` (recursive), the condition variable, `mRunning`, `mDeliveryReady` | `workerLoop`, `deliveryLoop`, `stop`, callbacks that call the other end, `efp_end_*` | no deadlock, no lost frame or wake-up, `stop` leaves nothing running, no call inside a deleted object |
| Link | both ends and the network | arrival, loss, duplication, reordering | whole frames are delivered as sent, once, each pass in order |
| BandwidthManager | health, a multiplier, pause flag and manual override per stream, NACK rate, jitter, RTT average and baseline | `update`, `receiveNack`, `updateJitter`, `processRttResponse`, configuration, overrides | multipliers fit health and configuration; what was paused is resumed |
| Embedded data (`efp_c_api.cpp`) | none | add, parse in the receive callback, extract | chunks and payload come out as they went in |
| C API handles | handle tables under `gHandlesMutex` | create, end, send, receive | handles stay valid while in use |
| Media types, `main.cpp`, examples, tests | none of their own | | not modelled |

Interaction: the sender calls the application's send callback once per packet,
holding `mMutex`; the application carries packets to `Receiver::receive`; the
receiver calls the NACK callback, holding `mNetMutex`, and the application
carries NACKs to `Sender::receiveNack`. Completed and given-up frames go through
a queue to the delivery thread (THREADED) or straight to the callback
(RUN_TO_COMPLETION).

Hard behaviours: the 16-bit number wraps and the retention keys with it; a slot
of the ring is reused; fragments arrive in any order, and where the last one
(Type2) belongs depends on a Type3 that may come after it; allocation may fail
half way; a bundle is parsed fragment by fragment; several callers and threads
share the receiver; callbacks run with locks held; timeouts race late fragments
and retransmissions; health is judged by one rule and restored by two.

## Modules

| Module | Models | Checked by |
|---|---|---|
| `EfpWire` | header sizes, split, offsets, timestamps | through the others |
| `Fragmenter` | one `send` call up to the first packet | `MCEncodings` |
| `NackRanges` | `buildNack`, the walk of `receiveNack` | `MCEncodings` |
| `EmbeddedData` | chunks of embedded data: add, parse, extract | `MCEncodings` |
| `DataLemmas` | facts about sequences, sums over sets, folds and orders | TLAPS |
| `NackProofs` | what the walk and the NACK builder compute | TLAPS |
| `EncodingsProofs` | theorems about `Fragmenter`, `NackRanges` and `EmbeddedData`, as `MCEncodings` runs them | TLAPS |
| `Sender` | `efp::Sender` | `MCSender` |
| `SenderProofs` | theorems about `Sender`: order, marks and requests; bytes, limit and bundles | TLAPS |
| `Receiver` | `efp::Receiver` | `MCReceiver`, `MCReceiverTraffic` |
| `MCReceiverTraffic` | two kinds of traffic at the receiver of `MCReceiver` | TLC |
| `ReceiverProofs` | theorems about `Receiver` | TLAPS |
| `FrameDelivery` | what the link promises, without packets | refined by `EfpLink` |
| `EfpLink` | `Receiver` (EXTENDS) and a `Sender` (INSTANCE) over a network | `MCEfpLink` |
| `LinkProofs` | theorems about `EfpLink`: its invariant, the refinement | TLAPS |
| `Threads` | threads, locks, condition variable, callbacks, `stop`, handles | `MCThreads` |
| `ThreadsProofs` | theorems about `Threads` | TLAPS |
| `BandwidthManager` | `efp::BandwidthManager` | `MCBandwidthManager` |
| `BandwidthProofs` | theorems about `BandwidthManager` | TLAPS |

`Receiver` and `Sender` each take a whole critical section as one step and say
what happens to data; `Threads` takes every lock, callback and unlock as a step
and says nothing of data. They meet in three facts: a handler and a pass of
`processTimeouts` run under `mNetMutex` from end to end, the queue to the
delivery thread is first in first out, and a bucket is in the map until its
frame has been handed on. These are `UnderItsMutex`, `FramesConserved` and
`FrameStillThere`, all proved.

Operators marked *Slip* in the modules are plausible errors (a dropped guard, a
missing reset); nothing uses them. Each property is validated by putting one in
the place of the right definition and seeing the property fail.

### Sender

`ret` is the retention state, field by field as in the class. `task` is the
operation that holds `mMutex`; each round of its loop is an action (`SendFragment`,
`StartBundle`, `BundleFragment`, `NackFragment`, `RetransmitStep`), and
`Send`, `ReceiveNack`, `ProcessRetransmits` start only when `task` is idle.
`Tick` may fall between rounds, as the code reads the clock anew in each
`evictOldRetention` and `retainFragment`. A byte is the pair of its frame and its position, so
that data of different frames is told apart. `evictOldRetention`'s loop is the
least number of oldest records after which it stops. Statistics and
`mRetryCount` decide nothing and are left out; so are NACKs refused by their
header and calls of `send` refused before the lock, which change nothing.

### Receiver

`rx` is what `mNetMutex` guards. A handler is an operator to the new `rx` and a
`Result`; the action is the whole critical section. `OpenBucket` is the branch
all three handlers have for an inactive bucket, with the order of the code:
unwrap, too-old test, size test, registration, allocation (which may fail and
leaves `mDeliveryOrder` behind). `Write` and `Move` extend the buffer's domain
if they leave it, so that an overrun is visible. `handleType4` runs one inner
frame per step with the lock held (`bundle`). In RUN_TO_COMPLETION mode
`receive` has two critical sections, `ReceiveFragment` and `FinishReceive`, and
other callers may come between. `processTimeouts` is one operator: NACKs, the
choice of ready buckets, the sort and the delivery. A closed bucket keeps
`mActive` and `mDeliveryOrder` only: every other field is written before it is
read again.

Abstractions: `4 * mJitterUs` is any value of `AdaptiveDelays`; the two clock
readings of `processNacks` fall in one tick; packets too short for their header
and unknown types have no effect and are left out. A bundle with a refused
header is the bundle without frames.

### EfpLink and FrameDelivery

`EfpLink` is the receiver with a sender of its own beside it and the network
between them. `wire` keeps every packet sent, so a packet may arrive never, once,
or many times, in any order; so may a NACK on the way back. The network is not
in the repository and is marked external. What is assumed of it is what 16-bit
numbers and a ring of buckets can tell apart:

- a packet dies when `Window` further frames have been sent, with
  `Window <= Slots` (else it meets the frame that reuses its bucket) and
  `2 * Window <= SeqSpace` (else an old frame is taken for a new one);
- `InReach`: what arrives is less than half the sequence space ahead of the frame
  that last took a bucket (else the signed difference has the wrong sign), and no
  frame is still incomplete when its number comes round again (else fragments of
  the two meet in one bucket: each handler compares the 16-bit number only).

The number of frames sent is not bounded by the sequence space. The sender may
have reached any number in `StartNos` when the receiver joins, on any fragment;
`origin` is a history variable, the place in `sent` of the unwrapped number 0,
fixed by the first fragment to be numbered.

`FrameDelivery` is the promise to an application: it sends SuperFrames; passes
hand some of them on, each at most once, in the order of sending within a pass,
unaltered or marked as broken. `DeliversFrames` says that `EfpLink` implements
it: `Given` is the sequence of frames with every byte of their contents, and
`Delivered` is the callbacks made so far and the queue, each with the place in
`sent` that its 64-bit order stands for. A step of `Next` is one accepted
`send`, one delivering pass, or nothing. Two things it permits, so that no
property catches them:

- order across passes is not promised: a complete newer frame is ready while an
  older one still waits for its timeout, and overtakes it
  (`nack_and_hol_information.md:107` says "strict order");
- any frame may be lost or broken, so the inner frames that `handleType4` drops
  behind a refused one count like packets the network lost (efp.h:1628).

### Threads

What a thread has left to do is a sequence of instructions, `todo[t]`: lock,
unlock, the bodies under the lock, callbacks. A call puts its body in front
(`Body` is the list of locks, callbacks and unlocks of each public method), a
callback puts the calls the application makes in it in front (`wiring`). Mutexes
have an owner and a depth. `Sleep` gives `mDeliveryMutex` back and goes to sleep
in one step, `WakeSpuriously` may end any sleep. Fragments are reduced to a bucket
that is absent, partial, whole, moved (the frame is out, the map still has it)
or delivered. `ProcessNacks` and `Collect` choose the due NACKs and the expired
buckets freely, as time would.

The wirings come from the repository: `InProcess` (quick start: the send
callback feeds the receiver), `OverNetwork` (the NACK callback feeds the sender),
`Polled` (run to completion), `Handled` (the C API, one handle ended while the
other thread is busy). `Looped` joins the first two.

Facts the model makes visible and that no wiring of the run exercises:

- a RUN_TO_COMPLETION callback that calls `receive` or `poll` of its own
  receiver re-enters the recursive `mNetMutex` and finds the bucket whose
  `mpFrame` has just been moved out (efp.h:1662-1665);
- a receive callback that enters the handle-based C API while another thread is
  in `efp_end_receive` waits for `gHandlesMutex`, whose owner joins it
  (efp_c_api.cpp:467-475);
- a second call of `stop`, while the first still joins, returns at once;
- frames still queued when the receiver stops are dropped
  (tests/test_lifecycle.cpp:322 expects so);
- the C API has no setter for `mNackCallback`, so NACKs go nowhere there.

### BandwidthManager

One action per public method, all under its `mMutex`. `update` has three
outcomes: the evaluation changes the health, the probes raise it by one, or
nothing. Multipliers, rates and times are integers in units of the model's
choice; float averages are rounded down, `int64_t` averages truncate as in
the code. The clock is the two ages `update` compares. `overridden` is history:
streams set by hand while they were paused, which neither the improvement nor
`clearManualMultiplier` resumes.

Recovery resumes streams but does not restore multipliers. A change to better
health raises each multiplier by one step (bandwidth_manager.h:496-521), probes
raise it as long as they are sent, and once the health is HEALTHY `update` does
neither (276-283): what a stream has by then it keeps as long as the health stays
so, unless it is configured or overridden anew. `CalmResumes` is about health and pausing only;
`HealthyIsFull`, which README.md:299 and bandwidth_manager.h:30 promise, is the
run `bandwidth_full`.

### EmbeddedData

A frame is a sequence of octets of base `Base` (256 in the code); the type octet,
the flag on the last chunk and the two size octets are modelled as arithmetic.
`ParseChunks` is the loop of `ReceiveCallbackWrapper`. `EmbeddedRoundTrip` is
about frames made by `efp_add_embedded_data` with sizes two octets can say.
Beyond it: a longer chunk is written with a truncated size and the function
still reports success (`EFP_TOO_LARGE_EMBEDDED` is never returned); a chain
without a last chunk leaves the payload offset at 0, so the callback gets the
chunks again with the payload; and `efp_extract_embedded_data` strips the
last flag, so with several chunks its payload offset is that of the next chunk
and the caller cannot tell.

## Runs

| Run | Shows |
|---|---|
| `encodings` | *cut*: real header sizes and limits; MTUs 0 (raised to 256), 256, 1456 and 65535, 4 modes, all sizes within a byte of a boundary; timestamps around the difference limit and the sentinels (widths scaled to 4 and 12). *nack*: all received/missing patterns of up to 10 fragments, ranges of 3, 3 entries, so both limits are exceeded; the last number the octets can say is reached here and never in the code, whose fragment numbers stay below 8192. *embedded*: octets of base 4, all payloads of up to 3 octets (a whole header), up to 3 chunks, empty, looking like headers, and of the largest size; chunks added and extracted in any order. The three share no state, a behaviour explores one |
| `receiver_order` | 2 slots, 4 numbers, bundles, both modes, two concurrent callers: wrap, collision, out-of-order arrival |
| `receiver` | 4 slots, timeout of 3, two NACKs with adaptive delays of 1 and 9, one of two kinds of traffic per behaviour. *shapes*: all shapes of Type1, Type2, Type3 with sizes 0..3, on two numbers that share a bucket, allocations failing, until one frame is handed on: buffer, count and refusals. *few*: three frames in both modes: NACK before giving up. Both: every frame leaves its bucket |
| `sender` | HALF mode, 2 numbers and 3 sends, so retention keys are reused; a limit of 18 bytes, so eviction happens within a frame; expiry; NACKs right, wrong and partly refused; retransmits before, inside and outside bundles; a frame of too many fragments |
| `link` | SINGLE mode, 3 frames over the wrap of 8 numbers, Type1+Type2 and Type1+Type3+Type2 frames, any loss, order and duplication: `EfpLink` implements `FrameDelivery`, and `OrderTracksIndex` |
| `link_repair` | the same with HALF mode, bundles, NACKs, retention, retransmits and the HOL timeout |
| `threads` | four wirings, two application threads, 2 frames, 3 calls: enough for one frame to be queued or repaired while another is delivered, with `stop` or `efp_end_receive` at any point |
| `bandwidth` | one stream (streams do not touch each other), three configurations, two overrides (one out of range), jitter and round trips inside and outside their limits: all four healths, reached by NACKs, jitter and probes; a calm link is judged healthy in the end and resumes what it paused. `RttGain = 1` and `JitterGain = 2` keep the averages small enough to explore |

The bounds (`MaxTime`, `MaxFrames`, `MaxOrder`, `MaxCallers`, `MaxSends`,
`MaxQueue`, `MaxCalls`, `MaxNacks`, `MaxAge`, `MaxMultiple`, `MaxOf`,
`MaxChunks`, `MaxPayload`) are in the guards of arrivals and calls, never in a
handler. They stop new arrivals early enough that what is under way can still
finish, so no liveness result depends on them. `threads` has
`CHECK_DEADLOCK FALSE`: when the calls are used up and the receiver is stopped
the program has ended; that nobody is stuck is `NoCircularWait`, `StopReturns`
and `WholeIsDelivered`.

Four runs expect a violation; each compares a sentence of the repository with the
code (quoted under `findings`):

- `sender_bundle_size`: a retransmitted Type2 of just the size of a Type1 frame
  enters a bundle, which the receiver then rejects from there on.
- `threads_loop`: with the send callback of the quick start and the NACK callback
  of the NACK chapter in one process, a sending thread holds `mMutex` and wants
  `mNetMutex` while the worker holds `mNetMutex` and wants `mMutex`.
- `bandwidth_probe`: the RTT baseline is the first value of an average that
  starts at 0, so perfectly steady round trips never count as stable.
- `bandwidth_full`: with the multipliers of the code in tenths (10, 7, 5, steps
  of 1) and probes that succeed, NACKs reduce a stream to 7, the calm link
  brings it back to HEALTHY with 8, and nothing raises it again.

More differences between text and code are visible in the models:

- A frame within one Type1 payload of 100 MiB is accepted by `send` and refused
  by a receiver that sees a Type1 or Type3 first, as `AllocBound` rounds it up to
  whole payloads (efp.h:1206; README.md:456 promises 100 MiB).
- A bundle led by a retransmission of a frame already delivered is dropped whole:
  `handleType4` returns at the first refusal (efp.h:1628).
- `RetentionWithinLimit` needs a slack of one packet once the sequence has
  wrapped: `retainFragment` asks for the growth over an entry of the same key, and
  the eviction may then remove just that entry (efp.h:425-433).
- `HolExpired` looks at a bucket's age alone, where
  nack_and_hol_information.md:48 says "if blocking newer frames".

### Fairness

`Receiver!Fairness`: weak fairness of the receiver's own steps (the worker wakes
every 10 ms, the delivery thread is notified, a RUN_TO_COMPLETION application
must call `poll`) and of the clock. Arrivals are never required. `receiver`
uses packets that are not bundles: with bundles, a thread would also need a fair
`mNetMutex`, which `std::recursive_mutex` does not promise.

`Threads!Fairness`: every thread that can go on does (weak fairness of `Step` and
of the two loops), and a thread that asks for a mutex again and again gets it
(strong fairness of `Acquire`): no thread holds a mutex for ever, and the worker
sleeps 10 ms between rounds with none held. Calls of the application and spurious
wake-ups are never required.

`BandwidthManager!Fairness`: the program calls `update` from time to time, time
passes, and probes are answered. Nothing requires NACKs, or their absence:
`CalmResumes` starts from the time the network is calm.

## Proofs

Eight modules, each from the assumptions of the module it is about
(`WireAssumption`, `FragmenterAssumption`, `RangeAssumption`,
`EmbeddedAssumption`, `EncodingsAssumption`, `ReceiverAssumption`,
`PacketAssumption`, `SenderAssumption`, `LinkAssumption`, `BandwidthAssumption`,
`ThreadsAssumption`; TLC evaluates them in the runs). Four theorems name a
further hypothesis, said with them below.

`DataLemmas` has what the others share: sequences, sums over finite sets, the
number of elements below another, division with remainder. What a recursive
function computes is proved without an induction theorem: its one-step
recursion is an opaque operator, a function that satisfies it is shown to exist
by looking at the smallest number for which none does (`SmallestOfSet`), and
then it is followed one step at a time (`NatStepByStep`, `SubsetByElements`).

`EncodingsProofs` and `NackProofs`. For the split the invariant says that the
recorded call is what `SendVerdict` and `SendPlan` give; the rest is division
with remainder (`DivMod`) and the four branches of the split
(`SplitPlanExact`): `TypeOK`, `SplitIsExact`, `PacketsFitMtu`, `LayoutAgrees`
and `DtsSurvives` hold for every header size, MTU, mode, frame size and
timestamp. `NackIsExact` and `EveryEntryIsRead` rest on an invariant of the scan
(`ScanOK`: the ranges closed so far name exactly the missing fragments below
the scan, and the open one is all missing) and one of the walk (`RangesOK`: the
ranges are separate and ascending). `EmbeddedRoundTrip` rests on layers: the
frame is the payload under the chunks added and not yet taken off, and the
parse, unrolled chunk by chunk from the front, meets just these, for every even
base above 3, whatever the chunks look like.

`ReceiverProofs`: `TypeOK`, `MapCoherent`, `BufferInBounds`, `CountsFragments`,
`RefusalLeavesBuckets`, `PassIsOrdered` and `NackBeforeGivingUp` for any set of
packets, ring size (that divides the even sequence space), number of callers,
timeouts and any pattern of failed allocations. The inductive invariant `IInv`
adds what these need:

- `NumbersOK`: the last number received is the remainder of the last unwrapped
  number. With it an order determines its slot (`UnwrapMod`, `SlotOfOrder`), so
  a new order can be in the map only through the bucket of its own slot, which
  was inactive: `Enter` never overwrites another bucket's entry (`FreeSlot`).
- `Sized`: how far the allocation reaches, as a function of which of the last
  two fragments has arrived. A bucket opened by a Type2 has room for exactly
  that Type2; before a Type3 the Type2 lies behind `mOfFragmentNo` full
  fragments and fits there; the move goes down.
- `Counted`: the count is the cardinality of the received set.
- `MapOK`: the map and the active buckets correspond.

There is one lemma for each branch of each handler (`First1OK` .. `Store3OK`,
`HandleType1OK` ..), one for each operation on the ring (`OpenBucketOK`,
`StoredOK`, `ProcessNacksOK`, `DeliverFramesOK`, `BundleStepOK`), and `NextIInv`
goes through the actions. `PassIsOrdered` needs that the sort exists and sorts
(`IncreasingExists`), and that no step but a pass changes what was handed on.
`NackBeforeGivingUp` assumes `NacksSuffice`: NACKs are on, no head-of-line
timeout is set, and one NACK has room for what a frame may miss
(`SmallFramesFit`: frames of fewer fragments than a NACK has entries always
fit). Each part is needed, as the code asks once for a frame only as far as
the 255 entries of one NACK go; the rest is that `calculateNackDelayUs` caps the delay,
so that the pass which gives a frame up has asked for it first.

`SenderProofs`: `TypeOK`, `OrderCoversBuffer`, `QueueCoherent` and
`RetransmitsWhatWasAsked` for any MTU, mode, byte limit, retention time,
sequence space and set of SuperFrames and NACKs. All rest on
generations. `Ordered` says that the order's records are in the order of their
generations and cover the buffer, so no two entries share one
(`OneEntryPerGeneration`); `Marked` that the marks are those of the requests that
can be served; `Faithful` that a request's generation belongs to its own key and
frame or to nobody. `Faithful` is what makes the rest inductive: without it a
dropped request could share a generation with a live entry, and a new request
for that entry be queued beside it. `RetransmitsWhatWasAsked` compares SuperFrame
and fragment number; the number needs that entries are filed under their own key
(`Filed`, from `PInv` below). There is one lemma for each retention
operation (`EvictInv`, `InsertInv`, `QueueRetransmitInv`, `PopRetransmitInv`)
and one for each kind of action.

The second half of `SenderProofs` has `BytesAccounted`, `RetentionWithinLimit`
and `BundlesParse`. `PInv` says that the byte counter is the sum of the sizes retained, that the
entries are fragments of accepted SuperFrames under their own keys, and that
what `send` has yet to retain comes behind what it has, so that an insertion
replaces an entry only after a wrap. `BundlesParse` assumes `NoLikeSizes`: no
SuperFrame ends in a Type2 packet of just the size of a Type1 frame. Without it
the property is false, as `sender_bundle_size` shows.

`LinkProofs`: `OrderTracksIndex` and the refinement of `FrameDelivery`, for any
MTU, mode, retention, ring, window, timeouts, callers, set of SuperFrames and
number of them. The invariant `LinkInv` follows the data from `send` to the
callback:

- `Cuts` are the packets `send` makes of a frame under its number, and `Genuine`
  those of all frames sent. What is left to send, is retained or lies in a bundle
  is genuine (`SenderOK`), and so is what is on the wire, which is not older than
  `Window` frames (`WireOK`).
- `Numbered`: the sender's number and `origin` agree modulo the sequence space, so
  that `NumberOf(f)` is the remainder of `f - origin` (`NumberIsOrder`).
- `Holds` says of a bucket that each fragment received is in the buffer where the
  frame has it, with the Type2 parked behind the full fragments until a Type3 has
  told where it belongs, and that the header fields are the frame's. A complete
  bucket that holds a frame is the frame (`LayoutAgrees`, here between two
  machines).
- `RingPlaced`: an active bucket holds the frame at `mDeliveryOrder + origin`; one
  that was active still names that frame, which keeps late fragments of it out.
  `LogPlaced` says the same of what was delivered, each place once, and that the
  bucket of a delivered frame has it or a newer one as its last.
- `BundleAhead`: what is left of a bundle is genuine, and as far ahead as the
  bundle was when it arrived.

`FragmentPlaces` is the core: a genuine fragment that arrives in reach is
unwrapped to its own place. Either its bucket is active with the same number, and
then with the same frame, or the signed difference is the true one; and a bucket
that has handed on this frame or a later one refuses it. `LinkSteps` goes through
the actions of both ends, `StepImplements` maps each step to `Send`, `Deliver` or
a stutter of `FrameDelivery`. The proof uses the invariants of `ReceiverProofs`
(map and ring, sizes, the order of a pass), and every part of `LinkInv` was
checked by TLC on the two link runs before it was proved.

`BandwidthProofs`: `TypeOK`, `MultiplierInRange`, `NeverAboveHealth`,
`DroppedOnlyWhenSevere` and `HealthMovesMultipliers` for any set of streams,
thresholds, gains and measurements. `DroppedOnlyWhenSevere` is not inductive:
an override may be set on a paused stream, outlast several changes of health and
be cleared. `HeldByHand` adds that a stream paused outside severe congestion has
been in `overridden` since.

`ThreadsProofs`, for any number of application threads, frames and calls and
any set of wirings: `TypeOK`, `QuietAfterStop`, `FramesConserved`,
`FrameStillThere`, `NobodyInDeleted`, `NoCircularWait` and `UnderItsMutex`. What
an instruction may leave to do is described once, without the state it is met in (`Expand`,
made of the instructions `Makes`); what is proved of these bodies serves every
invariant.

- `StopJoins`: a receiver that does not run has no threads any more, or whoever
  stopped it has the joins ahead.
- `LineInv`: instructions of the delivery line are with the delivery thread
  alone, and always the last that it has left (`LineAtEnd`), so that there is at
  most one frame in hand, after all that are delivered and before the queue.
- `LockInv`: along what a thread has left, the depth at which it holds each
  mutex starts from the present one, ends at 0, is never negative, and is
  positive wherever an instruction needs the mutex (`Frag`, `Guarded`). From it
  come `TypeOK` and `UnderItsMutex`, on which `Receiver` and `Sender` rely when
  they take a critical section as one step.
- `FramesOut`: frames on their way out are with the owner of `mNetMutex`, in
  order, each still in its bucket. `FrameStillThere` assumes `NoReentry`: run to
  completion, the receive callback stays out of the receiver that calls it
  (threaded, callbacks may call what they like). The first of the facts listed
  under Threads is what happens otherwise.
- `DeletionInv`: an application thread is inside the receiver only while it holds
  `gHandlesMutex` (`HeldInside`), the receiver's own threads never stop it,
  `stop` comes before the deletion (`StopFirst`), and the thread that deletes
  has left it (`EndsLast`). `NobodyInDeleted` assumes `EndedByHandle`: no callback
  ends the receiver, and a program that ends one by its handle uses it by the
  handle only. A callback that does end it is joined by itself; a program that
  keeps a pointer beside the handle has nothing to protect it.
- `OrderInv`: whatever a thread has still to do while it holds a mutex, with all
  the calls and callbacks that may come of it (`Reach`), waits only for what comes
  later in one order of the four mutexes and the two loops (`OrderKept`), and what
  a loop still does comes after that loop, so that it may be joined
  (`LoopsInOrder`). In a set of threads that all wait for one another the places
  of what they wait for would rise forever, among six. Two exceptions: a
  recursive mutex may be taken again by its owner, and a sender that is used by
  its handle only has `gHandlesMutex` held whenever `mMutex` is, and before it
  (`HandlesFirst`). `NoCircularWait` assumes `LockOrder`: every wiring has such
  an order for what its callbacks call. For the wirings of the run `threads` it is
  `gHandlesMutex`, the loops, `mNetMutex`, `mDeliveryMutex`, with `mMutex` before
  `mNetMutex` where the send callback feeds the receiver and after it where the
  NACK callback feeds the sender; `threads_loop` does both and has none.

All wirings of the run `threads` satisfy `NoReentry`, `EndedByHandle` and
`LockOrder`. Every inductive invariant was checked by TLC on the run's instance
before it was proved, as far as TLC can evaluate it (`HeldInside` and `LockInv`
as sums of the locks ahead).

Only model-checked:

- liveness (`EveryFrameDelivered`, `StopReturns`, `WholeIsDelivered`,
  `CalmResumes`): fairness and ENABLED are outside the prover's reach.

## Plan

Done: every module above. What is left:

1. The jitter estimate with its integer arithmetic, the backoff shift
   (efp.h:1028) and the 32-bit products of the configuration (efp.h:845).
2. Callbacks that re-enter their own receiver, as a wiring of `Threads`.
3. The setters of the C API.

## Not modelled

`updateJitter` of the receiver is a free choice of delay. Of the C API, creation
and the setters are left out; `efp_sender_set_callback` makes a new `Sender`, so
numbering restarts at 0 and nothing sent before can be retransmitted, and the
create functions lose the allocated struct when the object inside it cannot be
built. Media type constants, examples, `main.cpp` and tests have no protocol
state. Statistics are counters no decision reads. Byte order and the packing of
type and flags into one octet are record fields here (`EmbeddedData` excepted).
