# AqMD3 Acquisition Console: a TLA+ verification project

The console drives an SA220P digitizer card for a time-of-flight mass
spectrometer. A client sends commands on a ZMQ socket (5555). The console
measures the pusher period, acquires frames of triggers with zero suppression,
sums spectra for a live view on a second socket (5554) and writes frames to
UIMF files. This project models the way from `config.txt` and a command to the
bytes in the file: where several threads, two streams of the card, another
process or a sequence of commands can go wrong, and where a conversion must be
undone by its reader. TLC checks the models on small instances; TLAPS proves most
of their safety properties for every value of the constants.

`PROJECT.json` maps every definition to the lines it translates and lists runs,
mutants, hazards, findings and theorems.

## 1. Inventory

### Threads and how they interact

    client --REQ/ROUTER--> server thread --start/stop--> acquisition thread
                              |   (tof width)               |    |
                              v                             v    v
                             card  <----- start/fetch/stop -+   notify
                                                                 |
      status topic (PUB)  <-- finished, error, finished acquire  v
                                                         ps: ProcessSubject
                                                           /           \
                                                  zmq: live data   fw: UIMF writer

* The **server thread** runs `Server::run` and, in it, the command handler of
  `main`. One request is handled at a time; `stop acquire` blocks it until the
  chain and the acquisition thread have ended.
* The **acquisition thread**, one per frame, is spawned by
  `AcquirePublisher::start`. It starts the card, calls
  `StreamingContext::acquire` for a batch of triggers at a time and notifies.
* **One thread per subscriber**: each has a queue guarded by a mutex and a
  future of its upstream publisher that tells it to end.
* The **card** is shared by the first two without a lock, and the **buffer pool**
  by the acquisition thread and whoever holds a record.

### Components

| Component (source) | State | Operations | What makes it correct |
|---|---|---|---|
| Buffer pool (`acquisitionbufferpool`) | buffers, their `shared_ptr` counts | `get_buffer`, fill, copies and drops of records | a record's samples are not overwritten while it exists; it grows only under demand |
| Publish/subscribe chain (`publisher.h`, `subscriber.h`, `processsubject`) | two queues and a thread per subscriber, completion promises | `notify`, `update`, the loop of `setup`, `on_notify`, `on_completed`, `notify_completed_and_wait` | FIFO, nothing lost at the end, completion ends the chain |
| Acquisition controller (`acquirepublisher`) | `state`, `should_stop`, `worker_handle` | `start`, `stop`, the thread | a stop takes effect and returns, status messages are truthful |
| Card (`streamingcontext`, `sa220`, `digitizer`) | running or idle, attributes as set and as applied | `start`, `stop`, `configure_cst`, the attribute setters, `apply_setup` | never left running, set up as its controller counts on |
| Plain streaming context (`cstcontext`) | elements left, as the last fetch said | `acquire` | requests of whole markers, an end within the limit |
| Zero-suppressed context (`cstzs1context`) | markers fetched and not walked, last triggers seen | `start`, `stop`, `acquire` | markers and samples stay in step |
| Pusher period measurement (`toftiminginformation`) | none of its own | start, acquire, retry, stop, the median and the record size | the card is released whatever throws; the pusher's period, and a record that fits it |
| Command server (`server`) | `responded_to_request` | receive, respond, the error reply | one answer per request |
| Command handler (`aqmd3_console`) | controller, pool, sampling rate, period | one branch per command | card, pool and controller agree, also after a command that failed half way |
| Scan encoder (`uimfacquisitionrecord`, `acquireddata`) | none | `process` | decoding the runs gives back the gates |
| ZMQ data publisher (`zmqacquireddatasubscriber`) | sums, alignment | `check_alignment`, `on_notify` | the client reads the sum of the batch; streams out of step are noticed |
| UIMF writer (`uimfframewritersubscriber`, `UIMFWriter`) | open file, calibration, transaction | `on_notify`, `write_scan_data` | a batch is in its file whole or not at all, on its frame's axis |
| Configuration (`config.h`, `configure_settings`) | settings | read, check | it serves with what the file says, or not at all |
| Protocol messages (`message.pb`) | none | parse, serialize, cast | what one side writes the other reads |
| LZF (`lzf_c`, `lzf_d`) | hash table, output | `lzf_compress`, `lzf_decompress` | expanding gives back the input; never past the buffer |
| Data generator (`datageneratorcontext.h`), test client (`Program.cs`) | - | - | the first is for test builds and not modelled, of the second only its requests |

### What is hard

* `use_count()` is read buffer by buffer, without a lock, while records are
  copied and dropped elsewhere.
* A subscriber reads "told to stop" and "queue is empty" at two moments; its wait
  has no predicate and completion does not wake it; its drain loop moves half of
  the queue because its bound shrinks with it.
* `stop(true)` completes the chain *before* it joins the thread that publishes to
  it; `state` becomes `ACQUIRING` in the new thread, after `start` has returned.
* `tof width` uses the card between the steps of the acquisition thread.
* A record is put together from two streams tied only by element counts, over
  partial fetches, with the first marker of the next record always in hand.
* Markers of an earlier frame can come again; `acquire` can throw at any point.
* Every word of a payload is a possible command, and a command may throw after a
  reply has gone out.
* A command is a dozen driver calls, any of which can throw: the card is then set
  up for what failed, next to the controller, pool and period of earlier commands.
* The markers stream of the card is not empty when a measurement starts: it holds
  gates and triggers of an acquisition that ended early, not always whole ones.
* The file is an SQLite database the client goes on writing: any statement can be
  refused, and the calibration of a frame is the client's to state.
* A sample passes five number formats between the card and a reader of the file.

The complete list, each entry at its line, is `hazards` in `PROJECT.json`.

## 2. Modules

| Module | Models | Used by |
|---|---|---|
| `AcquisitionBufferPool` | the pool and the life of `shared_ptr` copies | `AcquisitionBufferPoolProofs` |
| `Delivery` | abstract: what the end of the chain promises, without threads, queues and futures | `SubscriberChain` |
| `SubscriberChain` | the publishers and subscribers, with a publisher that may notify and complete at any time; implements `Delivery` | `AcquirePublisher` |
| `AcquirePublisher` | controller, acquisition thread, server thread in `start`, `stop` and `tof width`, card; EXTENDS the chain and implements it | `AcquirePublisherProofs`, which has the chain's proofs too |
| `CstZs1Context` | `start`, `stop`, `acquire` on the two streams of the card | `CstZs1ContextProofs` |
| `PusherPeriod` | `TofTimingInformation` on top of `CstContext::acquire` | `PusherPeriodProofs` |
| `ScanEncoder` | gates to scans, check and sum of a batch, as operators | `ScanCodec` |
| `Messages` | the protobuf messages, as operators | `ScanCodec`, `Console` |
| `Lzf` | `lzf_compress` as a state machine, `lzf_decompress` | `ScanCodec` |
| `ScanCodec` | composes the three: a batch's way to the wire and to the file | `ScanCodecProofs` |
| `UimfWriter` | `on_notify` and `write_scan_data` against the client's connection | `UimfWriterProofs` |
| `Server` | `Server::run` and the words of the handler | `ServerProofs` |
| `Config` | lines, defaults and checks of `config.txt` | `Console` |
| `Console` | `main` from its start: every command against card, pool and controller | `ConsoleProofs` |
| `MC*` | instances for TLC | runs |

Where two modules meet the same code they divide it: `Console` has what a
sequence of commands does to the state of `main`, each command as one step with a
driver call that may throw; `AcquirePublisher` has the interleavings of the same
commands with the threads; `Server` has only which words are answered. The
samples a gate holds are opaque in `CstZs1Context` (which samples belong to which
gate) and numbers in `ScanEncoder` (what becomes of them).

### Correspondence with the code

**AcquisitionBufferPool.** `pool[b]` is the acquisition whose samples are in
buffer `b` (0 after `reset`); `ptr[h]` says which buffer the `shared_ptr` in place
`h` points to, so `use_count` is 1 plus a cardinality. The steps of `get_buffer`
are separate actions (call, one per loop iteration, take, grow), interleaved with
`Copy` and `Drop`, which stand for every copy and end of life of a record:
`notify`, the queue, the stack of the processing thread. The pool is of any
size; `MaxTakes` bounds the calls.

**SubscriberChain.** Per subscriber, `protected_queue` and `items` are the two
queues. The loop of `Subscriber::setup` is split where another thread can come
between: the stop future and the queue's emptiness are read in two steps
(`CheckStopped`, then `CheckLeft` or `CheckDrained`), the wait and the drain are
one step because the wait ends by itself after 10 ms. `Half` is the size the drain
loop really moves. `OnNotifyProcess` is all of `ProcessSubject::on_notify` as far
as who is notified; `OnNotifyThrows` its catch. `sent` and `handled` are
histories.

**AcquirePublisher.** `Init` is the state the `acquire` command leaves: a new
chain, the card set to zero suppression, and the continuous frame's thread
spawned and not yet run. Then commands come in any order. The acquisition
thread is a sequence of steps with a `worker` counter, split at every access to
shared state (`state`, `should_stop`, the card, the chain). `StartOverThread` and
`WorkerDriverThrows` are the two ways the process dies by `std::terminate`; after
that no thread steps. `MeasureEnd` is the `StopOnLeaving` guard. A record is one
batch; `MaxRecords` bounds them, after which `acquire` only throws, as it does
when triggers stop.

**CstZs1Context.** A trigger's number is also its timestamp, and samples are
tagged with the gate they belong to, which the code cannot see: the properties
compare what the code put under a gate with what the card sent for it. `Trigger`
is the card. `Start(r)` leaves the last `r` hunks walked earlier in the markers
stream, the replay fault of `cstzs1context.cpp:71`; `r = 0` is a sound card. The
card is taken to empty its samples stream when it is started, and to replay only
markers that were walked. A hunk holds one gate; the code's hunks of up to four
gates are walked whole, so they behave like four hunks that are fetched together.

**Server.** A payload is a sequence of words; each handler branch is put in a class
by what it does to the reply and the loop: reply and go on, skip, reply and
return, return silently, throw.

**PusherPeriod.** The stream is a sequence of markers, a trigger with its time
stamp or something else; `tail` is the part of a marker the card is still writing,
so that `available` need not be whole markers. `Fire` is the pusher, `Expire` the
one fact the code asks of the clock. One action is one round of a fetch loop. A
fetch of markers gets what there is or nothing yet. `Restart` may lose or keep what
was in the stream. Time stamps have `TsBits` bits, differences `WordBits`.
`nth_element` is modelled by what the standard promises of it (`MiddleOf`): the value
that as many places come before in any order by size.

**ScanEncoder, Messages, Lzf, ScanCodec.** `Elements` and `Marker` are the card's
side: blocks of eight samples counted from one, stop block after the last, padding
to sixteen elements, two samples to an element. `process` is the code's loop over
triggers, gates and samples, and `Parse`, `Serialize` and `Decompress` those over
fields and bytes: each is a recursive function `after` whose value at `k` is the
state of the code's loop after `k` rounds, which is what the proofs speak of. A wire message is a sequence of
tagged fields; varints are left to the library, but casts, defaults, unknown
fields and packed and unpacked repeats are not. `Compress` is one round of
`lzf_compress`'s loop, with its hash table, its open run of literals and its three
checks for room. `ScanCodec` is a pipeline of small steps; `Lags` puts the samples
stream behind the markers.

**UimfWriter.** One action per statement. `lock` and `client` are the locks of the
two connections by SQLite's rules for a rollback journal without a busy timeout:
readers and one reserved writer coexist, a commit needs all readers gone. A
statement that lacks its lock throws; any may throw for another reason, up to
`MaxFaults` times. Leaving the scope of `on_notify` rolls back. The client, as the
instrument's software does, states the parameters of a frame before it asks for it
and never again. `Crash` ends the process anywhere in a batch.

**Config, Console.** A line of the file is its parts between `=` signs; `read` goes
over the lines with a map, and a key that is in it keeps its value. A command is
its list of driver calls: `Succeed` says after how many of them a throw may come,
`After` what the calls made of the card, so the effects of a command that fails half
way are those of its prefix. `Refuses` and `Overwrites` abstract the acquisition
thread to whether it was spawned, acquires or has ended. A request may arrive
whole, cut short or not at all. `protocol` follows what a well-behaved client
does: `acquire`, then `stop frame` before each further frame, `stop acquire` last.

## 3. Runs

| Run | Shows | Bounds, and why they are enough |
|---|---|---|
| `pool` | records stay intact, the buffer being filled is private, growth means all were in use | 2 buffers growing, 4 handles, 5 takes: every buffer is reused at least once, the scan wraps, the pool grows twice. Handles are symmetric |
| `chain` | FIFO, drained downstream, completion ends the chain, and to its two ends the chain is a `Delivery` | 3 records: the drain moves half of a queue of 3, leaving items behind in each pass |
| `publisher` | stops take effect and return, only the record in flight is lost, `finished acquire` and `finished` are truthful, and the composition implements `ChainSafety` | 2 records, frames of 1 and 2, 1 further start, 2 stops: a stop before the thread runs, during a batch, after the frame; a second `stop acquire`; a start after one |
| `measure` | the card is at rest when nobody uses it | 1 record, 1 start, 1 stop, 2 measurements: a measurement before, between and after the steps of the thread, and after one that failed |
| `zs1` | records are whole, triggers follow on within and between records, nothing is fetched against replayed markers | calls for 1 and 2 triggers, 4 triggers with 0 to 2 gates, 3 frames: every split of the markers over fetches and calls, a frame after a failed, a damaged and a replayed one |
| `timing` | the period is the pusher's and the record fits it, requests stay whole, the measurement ends | 8 triggers of up to 9 markers, backlogs of 0, 2, 5 and 18 markers with gates among them, so that the enlarged request is needed; an 8-bit clock that wraps during the measurement or not; periods on both sides of what delay and rearm leave |
| `codec` | a reader of the file and a client on the wire get what the card saw, misaligned streams are noticed, the compressed scan expands to the scan and fits | 4-bit samples, so that the run length the code avoids is 8; gates of 1, 2 and 9 samples (one, one and two blocks) at every position in a block, gaps of 0, 1 and 8, an empty last gate, totals past the 8 bits of a field, up to 3 triggers; for LZF scans of 1 to 71 values on both sides of 32 literals and of every limit of a reference |
| `writer` | batches are stored whole or not at all, on their frame's axis; nothing is held between them; the writer never waits | 2 frames of 2 batches with rows, rows of scan 0, and scans without a row; 2 calibrations and none; 2 faults: a batch that fails after one that was written, in both frames |
| `console` | it serves as configured, dies only by a client's breach of protocol, and card, controller, pool, replies and requests agree | 13 files (every limit broken once); 2 periods; 4 commands: an `acquire`, a measurement or `acquire` that fails at any call, and two more. 8- and 10-bit fields |
| `server` | a request with one command is answered once, an error is never a second reply | every payload of up to 3 of 8 words, at least one of each class; earlier requests are of any kind |
| `publisher_restart`, `publisher_mode` | disagreements with the repository's own words: section 6 | smallest that shows them |

Deadlock checking is off where the system may come to rest: the commands, takes
and triggers are bounded and a client need not send any, and a chain ends. The
server is checked for deadlock: it always polls again. `codec` and `console` have
final states by their bounds, `timing` ends with its reply.

**Fairness.** Weak fairness for the acquisition thread, for the server thread
*within* a command and for every subscriber thread: the operating system
schedules them, `acquire` returns or throws within `AcquisitionTimeoutMs` (100 in
`config.txt`; 0, wait indefinitely, is excluded, and so is a card that never
delivers samples its markers announce) and the wait of a subscriber is 10 ms. No
fairness for commands. The 10 ms are essential: completion never signals the
condition variable. In `Delivery`: what is submitted is delivered, and a closed
delivery finishes; the chain's fairness is shown to imply both. In `timing`: the
measuring thread runs, a fetch returns, with nothing at the worst, and time passes;
the card owes no marker. In `writer`: the subscriber's thread runs; the client owes
nothing and may hold its lock for ever.

**Further assumptions.** A status message gets the publisher's lock within its
time limit (`server.h:58` drops it otherwise).

## 4. Proofs

Every theorem holds for every value of the constants that satisfies the `ASSUME`s
below; none needs fairness. The theorems a reader should know of are listed under
`theorems` in `PROJECT.json`. Every invariant and every step property that a
passing run checks is a theorem; the liveness properties are not (end of this section).

### Assumptions

| Assumption | Asks | Why the code justifies it |
|---|---|---|
| `PoolAssumption`, `PublisherAssumption`, `ContextAssumption` | bounds are natural numbers; for the pool, handles are finitely many and there is one; requests for triggers are positive | the bounds only cut the behaviours short |
| `ConsoleAssumption` | a period is longer than delay and rearm together, and below `2^Bits64` | `create_timing_information` is reached with periods inside the believable band only, and holds them in 64 bits |
| `ConfigFilesAssumption` | a file that does not exist has no lines; a part of a line is a word or a number | the model's way of writing down what `getline` and `stoi` tell apart |
| `RequestsAssumption` | the parameters of a request are values that its fields hold | the client builds the request with the generated setters, which take no other |
| `PeriodAssumption` | two triggers at least are measured; sizes, periods and gaps are positive | 20 triggers in the code; the pusher fires at intervals |
| `LeftoversAssumption` | what an earlier acquisition left in the stream is markers, each a trigger's or not, and its triggers are consecutive | the stream has nothing else in it, `acquire` looks only at a marker's tag, and the card puts a marker there for every trigger |
| `MinorityAssumption` | three differences that are not the period are less than half of those measured | 20 triggers give 19 differences, and `2 * 3 < 19`. With fewer than 8 triggers the theorem is false, as TLC shows |
| `TimeAssumption` | an acquisition begins after the triggers of the one before; the card's counter turns once at most while a period is measured; a period fits a difference | a time stamp has 56 bits (`cstcontext.cpp:102`), at 2 GS/s more than a year; a measurement takes two attempts of limited time; differences are 64 bits wide |
| `WidthAssumption`, `PowersAssumption` | a sample is at least two bits wide; `2^HalfBits` is twice `2^(HalfBits - 1)` | 16 in the code. The second is arithmetic: no prover here knows exponentials, so the fact is stated once and TLC evaluates it |
| `BatchesAssumption` | samples are ADC codes, the gates of a trigger are in order and do not overlap, offsets are not negative | the card opens a gate when the one before is closed; the range shift relies on the first |
| `CodecAssumption` | the threshold is an integer above the baseline | what a gate is opened by is not the baseline the card digitizes between ions |
| `OpeningAssumption` | a gate opens with a sample that reaches the threshold | that is what the card promises (`zmqacquireddatasubscriber.cpp:42-48`) and what `check_alignment` tests the stream against; a lag is modelled on top of it |
| `RecordAssumption` | a gate ends within the record | the card acquires `record_size` samples for a trigger |
| `SumAssumption` | a batch has fewer than `2^(Bits32 - 1 - HalfBits)` triggers, at most `2^Bits64 - 1`; `2^Bits32` is twice `2^(Bits32 - 1)` | less than 2^15 triggers keep a bin of the sum within an `int32`; a notification has `NotifyOnScansCount`, 500 in `config.txt:24`. The second is arithmetic, as above |
| `DistinctScans` (hypothesis of `FileIsWhatWasCommitted`) | no two scans of a frame have one number | the records of a frame go on counting from `start_scan_index`, and a frame number is used once in a file. The instance TLC checks satisfies it |

`Batches`, `ConfigFiles`, `Requests`, `WideSpectra` and the like are any sets of this
kind, so the sequences in them have any length. Model integers are unbounded
where the code has 32 bits: bins, offsets and counts of a scan, which a record of
less than 2^31 samples keeps below that.

### Arguments

* **Pool.** `RecordsIntact` is not inductive: `get_buffer` decides in one step and
  resets in a later one. `PoolInv` adds `PickedIsFree` (a buffer found with count 1
  stays free, because only a handle that points to it could be copied) and
  `FillIsExclusive`. From it follow `RecordsStayIntact` and `FillStaysExclusive`.
  `GrowthNeedsDemand` uses `ScanInv` as well: during a scan no buffer comes into
  use that was not in use when it began, so all those passed over were; and the
  loop's modular index visits every buffer (lemma on `IndexAt`).
* **Chain.** `ChainInv` adds to the types and the FIFO equation the order of the
  two reads (`StopSeenFirst`: a thread that has seen its queue empty had seen the
  signal before, and after the signal nothing is sent) and that `ps` signals and
  ends with its downstream. From it follow `ChainTypeCorrect`, `Fifo`,
  `NothingLostDownstream` and `CompletionIsTrue`. `ChainDelivers` is the refinement:
  under `ChainInv` every step submits, delivers, closes or finishes in `Delivery`, or
  changes nothing there.
* **Controller.** `PublisherImplementsChain` comes first: every step of the
  composition is a step of the chain or leaves it alone, given that `ps` is not
  completed twice. With it, `ChainInv` holds of the composition, and `PublisherInv`
  is proved next to it: `ThreadInv` (a thread in its loop has state `ACQUIRING`, so
  `start` cannot clear its `should_stop`), `StopInv` (it looks at the flag before it
  acquires), `CardInv` (whoever has started the card has still to stop it),
  `AnnouncedInv` (the end is announced after its future was set), `RacingInv` (on a
  completed chain the queue of `ps` and the thread hold at most the racing record).
  From it follow `StopsTakeEffect`, `CardComesToRest`, `FinishedAcquireIsTrue` and
  `OneRecordAtMostIsLost`. `FinishedComesLast` needs `StatusInv`: a thread that has
  not finished has published nothing of its frame but an error, and `has_errored`
  remembers it; no frame number above `starts` is in use.
* **Zero-suppressed context.** `RecordIsWhole` compares a finished record with the
  card, so nothing in it is inductive. `ContextInv` follows one stream from its
  start to what the card has not sent yet: hunks walked, hunks in hand, hunks not
  fetched (`Stream`). On a frame that is sound, the hunks are those of triggers the
  card made (`HunksAreMade`), one after the other (`StreamFollowsOn`), and the
  samples not fetched are first those owed to gates walked, then those of the gates
  not walked, in their order (`StreamsInStep`). `WalkedIsOld` separates what can be
  replayed from what is fresh. Within a call, `RecordHasItsGates` and
  `RecordFollowsOn` say what the record has so far; `SeamIsTrigger` that the marker
  left in hand between two calls is a trigger. From it follow `RecordsAreWhole`,
  `TriggersFollow`, `NoTriggerIsLost` and `ReplaysAreNotFetched`. One lemma per action;
  a throw makes the frame unsound, after which only types and `WalkedIsOld` are left.
* **Writer.** `WriterInv`: parameters are stated once and before the frame is asked
  for (`PlaceInv`), every batch reads them with a writer of its own (`AxisInv`), and
  what is not committed is rows of the batch in hand on the axis it has read
  (`RowsInv`). From it follow `AxisIsTrue` and `FileIsLetGo`. `KeysInv` says that the
  open transaction has the keys (frame, scan) of the scans before `k` and the file
  those of the batches written, which gives `FileHasWhatWasCommitted`. That no row is
  there twice (`UniqueInv`) is only true of frames whose scans have numbers of
  their own: `FileIsWhatWasCommitted` has `DistinctScans` as a hypothesis.
* **Server.** `ServerInv` says that the flag is the truth about the request in hand
  and that a request with one command has had no reply before that command and
  one after it. From it follow `AnsweredOnce` and `ErrorsStandAlone`.
* **Pusher period.** `BacklogInv`: `available`, what the last fetch said is left, is a
  natural number, and the marker the card is still writing (`tail`) is not whole. The
  rest of `RequestsAreSound` is arithmetic: the request is a multiple of the marker's
  size after each of the code's two divisions, and at most the buffer. `MeasureInv` says
  that there are times without a wrap that explain the markers in the stream and the
  stamps collected, in their order, and that two consecutive ones are a period apart
  unless a cut lies between them: the turn of the counter, or the beginning of one of
  the two acquisitions. So at most three of the differences are not the period
  (`FewAreOff`, an injection of the differences into the cuts), and the middle of
  values of which more than half are the same is that one (`MajorityIsMiddle`, a count
  of the places before it and after it). `RepliesAreThePushers` follows with the
  arithmetic of the record size (`RecordFits`).
* **Console.** `ProtocolInv`: a client within the protocol has a controller, an
  open chain and no thread to be joined when it asks for a frame. `PoolInv`: the
  buffers were made for the first record, and `shortest` remembers the shortest
  since. `SetupInv`: the card has applied what the controller counts on, whichever
  prefix of a command's driver calls took effect (lemmas on `Latest` and `After`).
  `SettingsAreTheFiles` goes by induction over the lines (`Maps`): after `m` lines
  the map has the value of the first line of each key among them. `RoundTrip`
  goes by induction over the fields of a layout: parsing what was serialized of the
  first `n` fields gives a message that agrees in them; `FramesAreAsAsked` is its
  use. `RepliesDescribeCard` is that and two lemmas on the divisions of
  `create_timing_information`.
* **Compressor.** `LzfInv`. With the run closed, what is written consists of tokens
  that expand, one decompressor round each (`Path`, `Expands`), to what is read. A
  literal run (`LiteralsExpand`) and a reference of two or three bytes
  (`ReferenceExpands`) are such tokens; `MatchGoes` shows that `MatchLen` stops at a
  length the bytes really agree on, also where the first sixteen comparisons are
  made without looking at the limit, and `CopyIsInput` that copying from a position
  in the output that overlaps its end gives those bytes. The room: 32 bytes read
  become at most 33 written (`32 * Len(out) <= 33 * (ip - Len(run))`), so with twice
  the size, and at least the four bytes of one value, no check for room fails.
  That the table may hold anything below `ip` is all that is needed of the hash.
* **Encoder.** `FrameIs`, by three inductions. Over samples: `process` stores the
  values it unpacks (`AddSamplesAre`), and these are the card's (`ElementsAre`, from
  `Packed`: two halves of a word, sign extended, are what was packed; `MarkerIs`:
  start, stop and element count of a marker reach over the samples). Over gates
  (`EncodeTriggerIs`): after `j` gates the offset is the length of their elements,
  the scan reads as their samples, and the reader's bin is the end of the last,
  so the next run length leads to the next start (`OneMoreGate`). Over triggers: a
  scan takes up the offset where the one before left it. No entry is the negated
  range shift, so both kinds of reader take every entry the same way
  (`AllReadersAgree`). `CodecInv` carries `FrameIs` and `LzfInv` through the stages;
  from it follow `ScansReadAsSeen`, `EveryReaderAgrees` and `BlobsExpand`. The
  hypotheses of `ScanIsWhatWasSeen`, streams in step and no gate behind an empty one,
  are those of the property TLC checks; without the second it is false (section 6).
* **Columns and openings.** The columns of a scan are taken while its samples are
  encoded, so the same inductions carry them: after any number of samples `Tally` has
  their number, total and peak, and `Columns` says that these are the counts and sums
  over sets in which `ColumnsMatchSamples` speaks (`SumOver`, `SumMore`). For
  `MisalignmentIsNoticed`, `OpeningsAre` says what one gate more changes of the
  list that `check_alignment` makes: a first value below the threshold adds to it.
  With a lag, nothing but the baseline has gone by when the first samples are taken
  (`Filled`, `Passed`), so the first scan with samples opens on it and is listed
  (`Alarmed`). From these follow `ColumnsMatch` and `LagsAreNoticed`.
* **Live data.** The loop over the entries is followed with a reader of the scan beside
  it: after any number of entries a bin has grown by what the reader has read at it
  (`SumOf`, `Added`, `EntrySums`), and the reader is the one of `FrameIs`, so after a
  scan by the samples the card took there (`ScanSums`). The index stays within the
  vector because the last bin of a scan does (`LastBin`, `ScanFits`), so nothing is
  thrown. The triggers of a batch follow by induction (`BatchSums`). A bin is at most
  as far from 0 as the number of triggers times a sample (`SumBelow`, `BinFits`), so it
  fits the field of the message, and what is sent is what is received (`DataFits`;
  `MessageArrives`, field by field). From these follows
  `SumsArrive`, whose hypotheses are those of `LiveIsTheSum` (section 6).

**Induction over data.** The library's induction theorems take an operator as a
parameter, which the provers cannot instantiate. The proofs use one for sets
instead: a set of numbers that has 0 and with every number the next one has them
all (`Induction`, from the well-foundedness of `<`). A loop of the code is a
recursive function on `0..n`, whose existence `Recursion`, `MapsExist` and the like
prove the same way, since a definition `f[k] == ...` is a `CHOOSE`.

### Only model-checked

The liveness properties (`CompletionEndsChain`, the fairness of
`ImplementsDelivery`, `CommandReturns`, `MeasurementEnds`, `WriterNeverWaits`): liveness
under fairness is out of the prover's reach.

## 5. Not modelled

* The destruction of a chain that was not completed, which a second `acquire` causes:
  the promise breaks and the subscribers' destructors join threads whose virtual
  functions are going away. What happens is undefined behaviour of C++ objects
  under destruction, not of the protocol.
* The growth of the marker request size of `CstZs1Context` (any number of hunks may
  be fetched) and its diagnostics; the diagnostics of every other component.
* `get_available_buffers`, which only a warning is made of; the sizes within a buffer.
* `update_timing_information`, `unregister_subscriber` and `lzf_c_best.c`, which have
  no caller; the setup and trigger messages; reflection and arenas of the generated
  code; `process()` for records without gates, which its caller never has but after
  `tof width` (section 6).
* `TEST_ACQUIRE` builds with the data generator; the temperature log; the numbers of
  an m/z axis; time limits of `Server::send`.
* Settings that are passed on unchanged, such as a batch of 0 triggers
  (`NotifyOnScansCount=0`), are not followed to where they act.

## 6. Findings

Runs:

* **publisher_restart**: `acquire frame` twice without a `stop`, the second before
  the first thread has set `ACQUIRING` or after it has ended, assigns over a
  joinable `std::thread` and ends the process.
* **publisher_mode**: `tof width` leaves data reduction off for the next frame.

Read off the models, without a run:

* `get_buffer` never looks at `buffer_max_count`; `config.txt:35` says it is the
  maximum.
* After `stop acquire` a frame is still accepted, against the comment at
  `acquirepublisher.cpp:209`; its records go to a chain whose threads have ended.
* `tof width` between the ack of a frame and the check in its thread ends the frame
  with `finished` and no error, against the comment at `acquirepublisher.cpp:149`.
* `stop` without its argument and `reset timestamps` are not answered, against
  `server.cpp:139`; two query words in a payload are answered twice.
* A gate without samples, unless it is a trigger's last, shifts the bins of the next
  gate (`uimfacquisitionrecord.cpp:51`), and as the first loses the trigger's offset
  (line 65). `ScanIsWhatWasSeen` is stated for triggers without such gates.
* `zmqacquireddatasubscriber.cpp:119` adds to the summed spectrum at an index that
  was compared with its size only after a run of zeros; `LiveIsTheSum` is stated for
  offsets the vector was sized for.
* An `acquire` that measures a longer period than the first keeps the first's buffers
  (`aqmd3_console.cpp:544`). `PoolFits` is stated for periods that do not grow.

## 7. Plan

Done: all modules of section 2, in the order pool, chain, controller, server,
context, delivery, codec, measurement, writer, console; the proofs of section 4.

Next, in this order:

1. A common abstract specification of `Console` and `AcquirePublisher`, so that the
   thread `Console` sees is shown to be the one `AcquirePublisher` has.
2. The growth of the marker request in `CstZs1Context` with a stalled card.
