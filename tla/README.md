# A verification project for RustRadio

RustRadio runs flow graphs of signal processing blocks. A block reads samples
from streams, writes samples to streams, and tells whoever runs it what it is
waiting for. This directory holds TLA+ models of the parts that carry samples
from block to block, what TLC checked about them, and what TLAPS proved.

Source paths below are relative to the root of the repository.

## Parts of the system

| Part | Source | State | Operations | What has to be right |
|---|---|---|---|---|
| circular buffer | `src/circular_buffer.rs` | read and write position, number of samples, tags by slot, the mapping | `write_buf`, `produce`, `read_buf`, `consume`, waits | the windows are used without the lock and must not overlap; nothing is lost, repeated or reordered; tags stay with their sample |
| sample stream | `src/stream.rs` (`ReadStream`, `WriteStream`) | one `Arc` of the buffer, referred to by two ends and up to two windows | `read_buf`, `write_buf`, `wait`, `wait_async`, `closed`, `eof`, drop | "closed" and "never" are decided from the reference count and the buffer, which are read at different moments |
| packet stream | `src/stream.rs` (`NCReadStream`, `NCWriteStream`) | queue under a mutex, capacity | `push`, `pop`, `peek_size`, `remaining`, `wait`, `eof` | the same, and the capacity, which `push` does not enforce |
| block | `src/block.rs`, one file per block | its own | `work()` returning `Again`, `Pending`, `WaitForFunc`, `WaitForStream`, `EOF` or an error; `eof()` | progress, or a status that says what progress needs |
| generated `work()` | `rustradio_macros_code/src/lib.rs` | none | one sample of every input gives one of every output | as many samples consumed everywhere as produced everywhere |
| sources and sinks | `src/file_source.rs`, `src/file_sink.rs`, `src/udp_source.rs`, `src/sigmf.rs`, `src/soapysdr_source.rs` and the like | what was read and not yet given on, the round, the `BufferedWriter` | `new` or `build`, `work`, drop | reads and writes that do a part of what was asked, fail or time out lose nothing and repeat nothing |
| `Graph` | `src/graph.rs` | which blocks are at their end, `done`, the token | `run` | it returns when nothing can move any more, not earlier |
| `MTGraph` | `src/mtgraph.rs` | one thread per block, the token | `run` | a block ends when, and only when, it has nothing more to do |
| `AsyncGraph` | `src/agraph.rs` | one task per block, the token | `run_async` | the same |
| programs | `examples/*.rs` | none of their own | they build a graph and run it | the order of the blocks, and the sizes of their samples, are such that the graph finishes |

Blocks meet in streams only. A stream is shared by the two blocks at its ends:
they access the buffer under its mutex, wait on its condition variable for at
most 100 ms at a time, and learn that the other block was dropped from the
reference count of the `Arc`. Nothing is notified when an end is dropped. The
runner calls `work()`, waits on the stream that it names, and drops the block
when the wait says that it is in vain. `run()` itself only starts and joins the
threads (`MTGraph`), or calls the blocks in turn (`Graph`).

What makes this hard: two threads in the two windows of one buffer without a
lock; a decision taken from two values that are read one after the other; the
end of the data, which has to travel behind the data and not overtake it;
time-outs that are the only wake-up in one case and mean nothing in the others;
a thread that fails or does not start while its neighbours wait for it.
`PROJECT.json` lists the places under "hazards".

## Modules

| Module | Models | Composed with |
|---|---|---|
| `SampleFifo` | what a stream promises: samples come out in the order they went in, with their tags, and never more than the capacity is inside | refined by `CircularBuffer` |
| `CircularBuffer` | the ring: positions, count, slots, tags, both windows | |
| `CircularBufferProofs` | theorems about it: windows and samples, then tags, and on top of these the refinement | extends `CircularBuffer` |
| `Stream` | the two ends of a sample stream: number of samples, reference count, waits of threads and of tasks | |
| `StreamProofs` | theorems about it | extends `Stream` |
| `NCStream` | the two ends of a packet stream | |
| `NCStreamProofs` | theorems about it | extends `NCStream` |
| `Flowgraph` | a graph as the runners of threads and of tasks are given it | |
| `MTGraph` | `MTGraph` and `AsyncGraph`: threads and tasks, each taking single steps on the streams | extends `Flowgraph` |
| `MTGraphProofs` | theorems about it | extends `MTGraph` |
| `Graph` | passes over the blocks, one `work()` a step | |
| `GraphProofs` | theorems about it | extends `Graph` |
| `Examples` | the graphs that the programs of `examples/` build | run by `Graph` in `MCGraph` |
| `Work` | what a call of `work()` sees and does, as values | |
| `MathBlocks` | the blocks that calculate: one function of a sample, sources of a signal, an equalizer | extends `Work` |
| `SyncBlocks` | the generated `work()` with samples and tags, and the blocks that are one function of a sample or a bit | extends `MathBlocks` |
| `StreamBlocks` | `Skip`, `Delay` with `set_delay()`, `RationalResampler`, `RtlSdrDecode`, `AuEncode`, `AuDecode`, `ToText` | extends `Work` |
| `WindowBlocks` | `FirFilter`, `FftFilter`, `FftFilterFloat` with its inner streams, `FftStream`, `Hilbert`, `ZeroCrossing` | extends `Work` |
| `ClockBlocks` | `SymbolSync`, `IirFilter`, `Midpointer`, `Wpcr`, `Strobe` | extends `Work` |
| `PacketBlocks` | the `work()` generated for `sync_nocopy_tag`, `MorseEncode`, `NCMap`, `DebugFilter`, `StreamToPdu`, `VecToStream`, `PduToStream`, and the KISS blocks | extends `Work` |
| `HdlcBlocks` | `FcsAdder`, `HdlcFramer`, `HdlcDeframer`, `Il2pDeframer` | extends `PacketBlocks` |
| `EndBlocks` | sources and sinks of vectors, files, readers and sockets, with `Repeat`, the thread of `ReaderSource`, the modes in which a file is opened and its `BufferedWriter`; `Parse`, `Hasher` | extends `PacketBlocks` |
| `DeviceBlocks` | `UdpSource`, `RtlSdrSource` with its thread, `AudioSink`, `SoapySdrSink`, `SoapySdrSource` | extends `EndBlocks` |
| `SigMF` | recordings: archives and pairs of files, what is refused, reading them | extends `EndBlocks` |
| `BlockMeaning`, `SignalMeaning`, `DeviceMeaning` | what each of these blocks is to make of its whole input, each module with some of the blocks and on top of the one before | extend the modules of the blocks |
| `BlockRunner` | one block between streams that are fed and drained in pieces | extends `DeviceMeaning` |
| `BlockProofs` | theorems about it, for blocks with a generated `work()` | extends `BlockRunner` |
| `FileProofs` | theorems about it, for sinks that write to a file | extends `BlockProofs` |
| `WindowProofs` | theorems about it, for ten blocks with one input and one output that write `work()` themselves | extends `FileProofs` |
| `MC...` | values for the constants | one per module |

An operator whose name is that of a definition with a suffix (`free_one_more`)
and the comment "mutant" is a mistake the definition could have contained; it is
there to show that a property notices it.

### CircularBuffer

`rpos`, `wpos` and `used` are the fields of `BufferState`. A slot of the mapping
holds the number of the sample written to it, so FIFO order is a statement about
numbers; `tags` is the map from slots to tags. The mapping is there twice
in a row (`Circ`), so a window may run over the end: `Slot` takes a position modulo
the capacity. Taking a window, writing single slots of it, `produce`, `consume` and
dropping the window are steps of their own, so the two threads interleave inside
their windows.

### Stream and NCStream

A wait is three steps: asleep on the condition variable, timed out with too
little in the buffer, the count read. The second comes under the lock, the third
after it, as in `wait_for_read() < need && strong_count() == 1`. For a packet
stream the mutex is part of the state, because there one wait keeps it locked
over the count. `eof()` is two steps in the order of the code. The calls that
a block makes are the constants `ReadWaits` and `WriteWaits`: `wait` under
threads, `wait_async` under tasks.

### Flowgraph and MTGraph

Three kinds of block stand for all: `VectorSource` for sources, `NullSink` for
sinks, and any block whose `work()` is generated for `#[rustradio(sync)]`.

The two runners with a flow of control for every block are one module, because they differ in
two things: how they wait, and what becomes of an error. A plan says which of them
it is (`threads` or `tasks`), in which order blocks were added, and what may happen.
A thread or task has a place (`loop`, `look`, `move`, `wait`, `await`, `count`, `eof`,
`drop`, `done`), and at those places that go over several streams the port it is
at. A step reads or writes one stream.

* A thread's `wait` looks at the buffer under the lock, sleeps (`Woken`, `TimedOut`) and then reads the count (`Counted`).
* A task's `wait` registers for a notification (`Await`) without a look at the buffer, and ends with it (`Notified`) or
  without (`Slept`). `notify_waiters()` of `produce()` reaches a reader that waits and is lost for one that is
  about to; `notify_one()` of `consume()` is kept for the writer.
* `Pending` and `WaitForFunc` come from a slow source. No block of the repository returns the second, but the runners have
  an arm for it: they ask `eof()` before they call `work()` again.
* `Fail` is an error of `work()`, with which a thread makes `run()` panic, and a task is only logged (`run_async()` returns `Ok`);
  `SpawnFails` is a thread that cannot be started.

`late` is a history variable: it records that samples came to a stream whose reader was not going to look
at the buffer any more before it reads the count, either because it had timed out or because, as a task, it was not heard of.

### Graph and Examples

In `Graph` one step is one `work()`, because there is one thread. The graph is a part of the state: a record of the blocks in the order
in which they were added, with the streams each reads and writes, and of the capacities; it never changes. So one run covers many graphs. Of a block
only matters how much it moves and what it returns, for which a sample of every input makes a sample of every output. There are these kinds:

* most loop until a port is empty or full and then wait for the first such port (the generated `work()`);
* `Steady` ones return `Again` when they have moved something, and of them `OneByOne` ones take one packet a call;
* `Slow` sources get their samples from a thread and return `Pending`, or the wait for their output when they have filled it;
* `Restless` ones always return `Again`;
* `VectorSource`, `FileSource` and `SigMFSource` each have an end of their own kind (`SourceRets`).

A block that is at its end is not dropped, as the TODO in the code says,
so a stream is closed only if nobody in the graph has its other end.

`GraphAssumption` says what is given to `run()`: a stream has room for something, each of its ends is in one block at most, as neither can be cloned, a block
with no input is one of the sources and writes one stream, and no block reads what it writes. A block is `Slow` once at most, for the sake of fairness.

What one may expect of `run()` is stated for two shapes. In a *tree* (`Tree`: no joins, every stream has both of its ends) `Finished` says that everything
has gone down every branch when `run()` returns, if each block that waits was added before its readers (`Downstream`) and does not narrow its stream (`Widening`), and if each source
that waits after it produced something has a block below it that says `Again` (`Driven`). For any order, and however streams are narrowed, `Unhindered` says that nobody is ever
called with a full output. With a join neither can be expected, as the longer of two branches is left where it is. Where it is sources whose streams meet (`Merge`), `Met` says that each block lacks what will
not come (`Lacks`): one of its inputs is empty, and the source of that one, if a source writes it, has no more. A source that waits can
stop a graph half way even in order, so that the conditions are those of the code, and not of the proof; `graph_narrowing` is the counterexample without `Widening`. Nor may a chain of
waiting blocks come before a join: in `ReaderSource` and `FileSource` → `Map` → `Map` into `Add` → `FileSink`, added in this order and with room for one sample in each stream, `run()` returns while
blocks could still move.

`Examples` builds the graphs of the programs that run on `Graph` (`ax25-1200-rx`, `ax25-9600-rx`, `ax25-1200-wpcr`, `ax25-9600-wpcr`, `burst_saver`,
`il2p-1200-rx`, `rtl_fm`, `soapy_fm`, `capture`, `tone`, `rtlsdr_to_c32`, `simple_copy`, `simple_noncopy`), and of a unit test of `Graph`, statement by statement: which
block is added when, with which options of the program. A stream has a fixed number of bytes, so its capacity in samples follows from the type: 8 of bytes, 2 of floats, 1 of complex numbers.

### Blocks

A block's `work()` is an operator: from the block's own state, a window on each input and the
room on each output it gives the next state, what is consumed, what is produced with which tags, and the
`BlockRet`. Loops of `work()` that only go on while there is input are a fold over the window.
`Work` has the vocabulary. Bytes of HDLC are sequences of bits, the checksum is computed bit by bit (the code
has the table of RFC 1662 for it), a floating-point sample is a number, a formatted line only has a
length and what it is made of. A transform of a batch of samples is what the code uses it for: in
`FftFilter` the convolution that goes round, in `FftStream` a value that knows which samples it was made of.

Where the code calculates with floats, samples are integers, complex ones pairs of them, and angles are those at which sine and
cosine are 0 or 1; times are integers with several units to a sample. What is modelled is what such a block keeps from one call to the next, how much it
consumes and produces, and on which sample a value depends.

The blocks at the ends of a graph see something else than streams. `read()` of a file, a socket, an archive or a device returns any number of
bytes up to what was asked for, a write takes any part, which `BlockRunner` leaves open (`Outcomes`). What the thread of a `ReaderSource`, of an
`RtlSdrSource` or of an `AudioSink` sends or takes through its channel is an input or an output, and so are the datagrams of a `UdpSource`. What a sink writes is an
output with room for everything. For the sinks of files `disk` is what the file has and `pending` what the `BufWriter` still keeps: a program that dies
at any state leaves `disk` behind. A device is a set of calls that fail; a block that could not be built is
`NotBuilt`, and the meaning says from the documentation when it is to be built.

`BlockRunner` calls `work()` as a graph does, lets the input come in pieces of every size
that the stream has room for, and takes the output in pieces of every size. So a block
sees its input cut everywhere, and finds its output full at every sample. `BlockMeaning` says what the block should have
made of the input so far, by position and without a state: for `StreamToPdu` by
where bursts start and end, for the resampler by a formula for the m-th copy, for a decoder by the
packets that were encoded. `Faithful` compares it with what was written, at every moment;
`NothingWithheld` with what was written when the block waits.

## Runs

| Run | Question | Result |
|---|---|---|
| `circular_buffer` | can the two windows of a ring go wrong in any interleaving? | no: windows disjoint, assertions hold, samples intact and in order, tags right; it implements `SampleFifo` |
| `consume_zero` | the same when a reader consumes 0 samples | tags of unread samples are removed |
| `stream` | are `eof()` and `wait()` right about the other end, and is a waiting block told of its end, whether it waits in a thread or in a task? | yes |
| `nocopy_stream` | is the capacity respected, is the packet popped the one that was measured, does `wait()` ever give up a packet? | all hold |
| `nocopy_stream_eof` | is `eof()` right for packets? | no: its two reads are in the wrong order |
| `mtgraph` | in a graph that forks and joins and in a chain, run by threads and by tasks, with a slow source, after `cancel()`, an error, a failed start: do blocks end behind the data, and does `run()` return? | yes, apart from samples that come when their reader does not look any more |
| `mtgraph_late` | and without that exception, for threads? | data is lost in the race of `wait()` |
| `agraph_unheard` | for tasks, with no race after the time-out? | data is lost: a task does not hear of samples that come before it waits |
| `graph` | in the programs of `examples/`, in forks, and with two sources that meet, with the blocks in many orders: does `run()` return, with everything done? | it returns, after `cancel()` too; in a tree everything is done if each block that waits was added before its readers, no stream is smaller than those before it, and a source that waits is not alone, and under these conditions two sources that meet stop for want of more only; the programs are so, and consume all of their input |
| `graph_narrowing` | does `run()` stop only when nobody can move anything? | no, if a stream is smaller than the one before it |
| `blocks` | for eighty blocks: does what a block makes depend on how its input is cut, on how much room there is, on how much a read or write does? are its waits right, is a file right at every moment? | no; yes, within the cases below |
| `blocks_cut` | does `KissFrame` find frames that come in pieces? | no: it forgets where it was when its input runs empty |

Six of them end in a counterexample; the findings in `PROJECT.json` quote the
line of the repository that says otherwise. Met on the way, and not a run of its own:

* `wait_async()` of a packet stream unlocks before it reads the count, where `wait()` keeps the lock;
* `MTGraph` turns an error of a block into a panic, `AsyncGraph` logs it and returns `Ok`;
* `WaitForFunc`, which `block.rs` says becomes equivalent to `Again`, does not keep `Graph` running. No block returns it, so `Graph` has no such action here;
* tasks share the threads of the runtime: a block that returns `Again` for ever, as `SignalSource` does when its output is full, never awaits, and on a runtime of one thread nobody else runs;
* a `Graph` of a source that waits when it has done something (`SigMFSource` after every read, `ReaderSource` and `RtlSdrSource` when they have
  filled their output) and of blocks that wait, too, ends after one pass with most of the input unread. Each of the programs has a block that returns `Again`;
* a `VectorSource` of one round that is added last ends in the pass in which it produced, and `Graph` ends with it: what it produced is never read. In
  `simple_noncopy` it is saved by the second round.

### Bounds

* `CircularBuffer`: capacity 3, as many samples as it takes to go round more
  than once, at most one window each. A window that begins anywhere, wraps, is full or empty
  occurs. The theorems have no bound.
* `Stream`, `NCStream`: capacity 2, so that a need of 2 can be half satisfied;
  three pushes go once beyond the capacity. The theorems have no bound.
* `MTGraph`: the fork has four blocks, up to two samples, and branches of size 1 and
  2; the chain three blocks and up to three samples over streams of 2 and 1. So
  each stream is empty, partly full, full, and refilled. Longer chains repeat these pairs. Six plans: the fork with threads; the chain with
  tasks; the chain with every fault, for either; the chain with a slow source, with `Pending` for threads and `WaitForFunc` for tasks.
* `Graph`: each program with each kind of input and each option that changes its graph, and sources of 0, 1 and 12 samples, more than the streams of any branch hold
  together with their smallest one refilled, or without end. Two sources that meet: a file and a source of each kind, four blocks in all 24 orders and a source that nobody reads, capacities 1 and
  2, 3 samples or without end against 0, 4 or without end. A source of each kind but the restless whose stream forks, with branches of one block and of two that wait or say `Again`, in all orders of the three
  blocks below the fork, capacities 1 and 2. The theorems have no bound.
* `BlockRunner`: streams of 1 to 6 samples (28 bytes for the header of an Au file, 30 for a symbol clock that settles), inputs a few times as long as a stream.
  Blocks of bits get every input of five bits; the resampler every ratio of 1..3 to 1..5
  that does not interpolate; `StreamToPdu` bursts of one and three samples, and three with a tail, against limits of three to five; `KissFrame` every sequence of six that is FENDs and data; HDLC a packet with a flipped bit and one with stuffed bits; `Delay` a change
  from any of 0..3 to any other, at any sample once the delay is there.
  Filters have up to three taps and distinct samples, so that a sample in a wrong place changes a sum; files are up to five bytes,
  samples one or two, so that they are cut between reads and between rounds. Files are opened in every mode, there or not, on a disk with room or not; archives have
  each thing that makes them be refused; each kind of call to a device fails in some case.

The meaning of a block is what the repository says of it, and the cases of `blocks` leave out where the block is known to do something else, in the model as in the code.
Where a line of the repository says what it should do, `MCBlockRunner` has a set of cases of its own in which TLC finds the property violated: `MCBlockRunnerCut.cfg` with this set for `Cases`
and this property (and `FairSpec` for `Finishes`). The first of them is the run `blocks_cut`:

| `Cases` | Violated | What the block does | What the repository says |
|---|---|---|---|
| `CutCases` | `Faithful` | `KissFrame` loses frames that come in pieces (`kiss.rs:159`) | "Take stream of bytes and output the still KISS encoded frames." (`kiss.rs:142`) |
| `AppendCases` | `NoPanic` | `FileSink` and `NoCopyFileSink` in mode `Append` fail without a file (`file_sink.rs:95`) | "Append to existing file, or create a new file if it doesn't exist." (`file_sink.rs:20`) |
| `UnicastCases` | `Finishes` | `UdpSource` without a multicast address is not bound and hears nothing (`udp_source.rs:165`) | the bind address "allows the socket to receive incoming UDP datagrams destined for that address and port" (`udp_source.rs:81`) |
| `LongBurstCases` | `Faithful` | `StreamToPdu` with a tail pushes bursts of `max_size + 1` (`stream_to_pdu.rs:124`) | "Too long. Discard buffer and stop saving." (`stream_to_pdu.rs:150`) |
| `LongVectorCases` | `Faithful` | `VectorSource` tags each piece of the first round as "first" (`vector_source.rs:109`) | the test `repeat2` has it on sample 0 only (`vector_source.rs:197`) |
| `NeverCases` | `Faithful` | `FileSource` with `Repeat::finite(0)`: the file comes out once (`file_source.rs:112`) | "0 Means not even once." (`lib.rs:376`) |
| `FullSinkCases` | `Faithful` | `VectorSinkNoCopy` stores `max_size + 1` packets (`vector_sink.rs:38`) | "Max number of samples and/or tags to store." (`vector_sink.rs:24`) |
| `DelayCases` | `NoIdleAgain` | `Delay` with a full output: `Again`, over and over (`delay.rs:56`) | `Again` "should not be returned repeatedly without data being consumed or produced" (`block.rs:19`) |
| `DelayCases` | `NoPanic` | `Delay` with a window longer than the room: `fill_from_slice()` panics (`delay.rs:83`) | it "properly return[s] a status showing what it's blocked on" (`block.rs:34`) |
| `TightCases` | `Finishes` | `VecToStream` with a packet that does not fit yet waits for its input (`vec_to_stream.rs:45`) | "else if need_more_output_space { Ok(BlockRet::WaitForStream(&self.dst, space_needed))" (`doc/writing-a-block.md:93`) |
| `TaggedSkipCases` | `Faithful` | `Skip` forwards tags of samples that do not fit, and again with them (`skip.rs:33`) | "Skip samples, then stream at full speed." (`skip.rs:1`) |
| `InterpolationCases` | `Faithful` | `RationalResampler` that interpolates into an output that fills up makes the copies it owes of the next sample (`rational_resampler.rs:153`) | "easily convert from any sample rate to any other" (`rational_resampler.rs:87`) |
| `SlowSymbolCases` | `Faithful` | `ZeroCrossing` with an output that fills up does not count the last sample; its clock is late from then on (`zero_crossing.rs:112`) | the next sample is "the one `sps/2` samples later", then "after `1.5*sps` samples" (`zero_crossing.rs:12`) |
| `SlowClockCases` | `NoPanic` | `SymbolSync` with less room in its clock stream than in the other panics (`symbol_sync.rs:136`) | "If a block is waiting for two streams, then pick one for this return." (`block.rs:71`) |
| `InnerCases` | `HonestWait` | `FftFilterFloat` whose inner streams fill up waits for room that is there (`fft_filter.rs:443`) | of blocks that all wait "none of them will ever be able to make more progress" (`doc/writing-a-block.md:114`) |
| `WholeAuCases` | `Faithful` | `AuDecode` does not consume the rest of the header, which comes out as samples (`au.rs:223`) | ".au file decoder." (`au.rs:157`), with a "Data offset." (`au.rs:83`) |

In `blocks` the input of `AuDecode` ends within the header, so that only the states up to there occur.

The others are listed here only; each can be had by changing the case:

* `KissFrame` with a complete frame of exactly `MAX_LEN` bytes, which is dropped;
* `Delay` with tags: `consume(0)` removes them (`consume_zero`);
  `set_delay()` before the zeros of the first delay are written: from 3 to 2 at the start it subtracts from less, which panics, and in other cases zeros are lost;
* `AuEncode` with one byte of room, or none before the header is out: it asks for one byte where it needs two, or for nothing;
* `StreamToPdu`: an end tag with no burst makes an empty packet, also when the burst was dropped as too long;
* `SymbolSync` with an output that fills up loses a sample as `ZeroCrossing` does, and `ZeroCrossing` panics if only `out_clock` is full;
* `SymbolSync` fills its clock filter with the samples per symbol, although what it filters are deviations from that; the meaning says the same, as nothing is written about it;
* `Midpointer` with a burst of which all samples are the same, or `Wpcr` with one of four to six: they index an empty list and panic;
* `CmaEqualizer` ("WIP. Completely untested.", says its documentation) writes copies of its first sample, as its coefficients stay zero; the meaning says the same;
* `TcpSource` with samples of four bytes: it takes the rest of a sample to be in what was read, and panics; with a full output it reads into a buffer of
  no bytes and takes the answer for the end;
* `FileSource` with `Repeat::finite(0)` subtracts from 0 after the one round; an endless repeat of an empty file returns `Again` for ever;
* `FileSink`: when a write fails, a part of the batch is on disk though none of it
  was consumed; `NoCopyFileSink` has popped the packet whose write fails;
* `SigMFSource` with an endless repeat of an empty recording panics; `write()` says `cf32`, where the reader wants `cf32_le`, so the program's own recordings are refused
  unless type errors are ignored;
* `UdpSource`: the option `reuse_port` has no effect; what does not fit into its output is lost, which `Faithful` lets pass (`Loses`);
* `SoapySdrSource` is not built if one sensor cannot be read, although `work()` goes on without it; the meaning says the same;
* `VectorSink` that is full: it stops consuming and waits for what is there; the tags it stores have their places in the windows they came in.
  `VectorSinkNoCopy` with two packets more than `max_size` reaches its `todo!()`;
* `Parse` with a part of a sample in its input: it asks for one byte, and there is one;
* `FirFilter`, `FftFilter` and `Hilbert` with tags: they forward those of samples that they do not consume, which come again;
* `PduWriter` names files by the microsecond, so that of two packets in one the second overwrites the first; the model gives each a file of its own;
* `HdlcDeframer` with `min_size` less than 2, and `KissDecode` with a packet of FENDs only: a slice that ends before it starts. A wrong bit in the checksum is never repaired, because
  the loop for it compares the checksum with itself.

### Fairness

* `Stream`, `NCStream`: a thread in a call takes its next step (weak). A wait returns after
  100 ms at the latest, by the time-out of the code; nothing is assumed about the
  other thread, which may stop using the stream.
* `MTGraph`: each thread or task and `run()` take their next step (weak). The operating
  system schedules all threads, the runtime all tasks, and a wait ends by its time-out at the latest. A slow source that is asked again and again has something in the end
  (strong, on its `Look`). Errors, failed starts and `cancel()` are not assumed to happen.
* `Graph`: `run()` goes on (weak). A slow source has something, and comes to its end, if it is
  asked again and again (strong, on one action for all of them, as no graph here has two).
* `BlockRunner`: the neighbours feed and drain, and `work()` is called when its wait is over (weak). The fairness of
  `Work` is written out as "not ready again and again, or called again and again", which is the same and spares TLC an ENABLED: a step that leaves what was fed and drained alone
  is a `Work`, but for `DropBlock` and `SetDelay`, which happen once.

## Proofs

`CircularBufferProofs` proves for every capacity, and any number of samples:

* `Typing`: the type invariant of `CircularBuffer`;
* `NoDataRace`: the two windows share no slot. This is what the `unsafe` code of
  the buffer depends on: slices are made from the mapping without the lock;
* `AssertsHold`: the assertions of `produce()` and `consume()` do not fail;
* `ReadsInOrder`: the reader's window holds the samples in order.

None of these is inductive. `IInv` adds to the type invariant where a window lies
while the other side moves (`WriteWindow`: the writer's window starts at `wpos` and
was free when it was taken, so it still is, as only the writer adds samples; `ReadWindow`
likewise), what the slots from `rpos` on hold (`UnreadInOrder`) and
what the filled part of the writer's window holds (`FilledInOrder`). `Invariance` proves it
for `Init` and for each action; the four theorems follow from it. The arithmetic
modulo the capacity is in lemmas of its own, by cases on whether a position
wraps. The assumptions are those each module states about its constants.

The second part goes on from `IInv` to the tags: `TagsStay` (the tags of a slot are those of the sample in it), `TagsOfWindow` (a reader
is handed the tags of its window, at their places), and `UnreadTagsKept` (`consume()` keeps the tags of what it leaves). Together with `IInv` the first two are inductive. The point is
which slots `consume()` clears: `ConsumedAre` shows that the one or two ranges of the code are the slots at a distance less than `n` from
`rpos`. `UnreadTagsKept` assumes `MinConsume = 1`, as it must: `consume_zero` is the counterexample without.

The third part has `ImplementsFifo`: a ring of any capacity implements `SampleFifo`, with the same assumption. The mapping takes the
unread samples with the tags of their slots for the queue; `ProduceMaps` and `ConsumeMaps` show that the two actions append and remove, and every other step stutters.

`StreamProofs`, for any capacity and for threads and tasks: `Typing`, `NothingAfterEof` (`eof()` is right about the stream) and `NeverIsClosed`
(`wait()` and `wait_async()` answer true only when the other end was dropped). The invariant adds that only an end that was not dropped is in a call (`Held`), and that
the writer is gone from the moment on at which `eof()` has seen the count (`EofAlone`); `CountOfOne` is the argument behind both: a count of 1 is the asker's own.

`NCStreamProofs`, for any capacity and packets of any size: `Typing` (a writer that calls `remaining()` before `push()` respects the capacity), `PeekThenPop`, and `NeverIsNever`
for readers that use `wait()` only (`OnlyWait`), because that one keeps the lock while it reads the count.

`MTGraphProofs`, for any graph, any capacities, threads and tasks, and any faults of a plan:

* `Typing`: among others, a block that moves what it found in windows taken one after the other never consumes more than there is or produces more than is free. The invariant
  `IInv` says of each thread that its `n` fits through the ports it has looked at and has still to serve (`Fits`); `RoomGrows` is why it stays so: a step through one port makes no
  other port narrower, because each end of a stream belongs to one port of one block (`SamePort`).
* `MatchedDrains`: blocks end behind the data, `EndsDrainedUnlessLate`, if each stream has both of its ends in the graph (`Whole`), and a block of several inputs is no sink and has a single
  source above it (`Matched`). Trees are a special case (`TreeDrains`). Cancellation and errors, and only these, excuse a block.

What makes this hard is that such a block ends as soon as one input is at its end, whatever the others hold. So the invariant `EInv` needs to know how far each block is. It says that there
are numbers `pos`, the samples that have gone through all ports of a block (`Went` and `Most` add what a move that is under way has brought through some of them), such that

* each stream has what its writer has moved and its reader has not (`Balance`);
* a block has moved no more than some source above it (`Behind`), by which the single source bounds all that leads to the block from above;
* unless something went wrong, what leads to a block that has ended is `Complete`: all of it has moved the same number of samples, the streams are empty, the sources have nothing left.

The other parts are about the moment at which a thread decides to end: one that is about to read the count has found the stream empty, or samples that came since are in `late` (`FoundEmpty`); an end is
closed only by a block that has ended (`DeadEnds`); a writer that waits for its reader has moved something (`Pushed`), so that a reader that is gone had something to read; a source in `work()`
has something left (`HasMore`). Then a block whose one empty input was closed by a `Complete` writer has moved all there is of the source of that branch. From there on `OneInput` has it both
ways: everything above the block has moved at least as much as the block has, for the streams do not hold less than nothing, and at most as much as the source, which is the same. So all
streams on all branches are empty. A block may also end because a reader of it is gone (`ReaderGone`): then what leads to that reader is `Complete`, and the block is part of it.

Both conditions of `Matched` are needed. With two sources of different lengths the block ends with samples left in the longer branch. A sink takes what its inputs have
in common and then waits for the first one, whatever is left there, and as a task it may end then; `NullSink` and `VectorSink` have one input. The run `mtgraph` has a fork that joins.

`GraphProofs`, for any graph, capacities and lengths that satisfy `GraphAssumption`, with errors and `cancel()`:

* `Typing`: no block consumes more than there is or produces more than is free, and no source gives more than it has.
* `NeverHindered`: `Unhindered` in every tree. The invariant is `Room`: a stream whose reader had its turn since the writer had one (`Since`) is not full. It needs
  that a block that is called moves something if it can (`MovesSome`), and that none but a source is ever skipped (`Ended`): none of the streams that blocks other than sources write is closed
  (`NeverClosed`).
* `AllMet`: `Met`, and `AllFinished`: `Finished`, which is `Met` in a tree, with `Room`. A pass that asks for no other one must not leave anything behind. `Quiet` are the streams from which no way
  leads to a block that says `Again`. A turn of its reader empties a quiet stream (`Drained`), for the block below has at least as much room as that stream has samples, or one of several that it reads
  (`Emptied`); it stays full only if the reader lacks what will not come (`Held`), since a source that comes first has left something for it (`Fed`). Samples in any
  other stream are a debt: in a pass without `Again` so far, if a block has some at all of its inputs, one such block is still to come (`Owed`), and it will either say `Again` or pass its
  samples on to such a block, which comes later, as it was added later. So a pass ends with `Again` or without debts (`NothingOwed`), and then no source that had its turn has
  anything left, or its reader lacks something (`Through`): what it gave would be a debt, unless it leads to quiet streams only, and then it is not one of those that wait for themselves (`DrivenOut`).
  The arguments that look for the first place of a kind are by `LeastIs`, from the well-foundedness of the natural numbers.
  `Merge` is what the invariant needs where streams meet: that all a block of several inputs reads is written by sources, which, unlike a block that waits, say themselves whether they have more.

`BlockProofs`, for the blocks with a generated `work()`, with any parameters, inputs, tags and capacities, cut in any way:

* `GeneratedTypes`: `TypeOK`; `work()` consumes no more than there is and writes no more than there is room for.
* `GeneratedFaithful`: `Faithful`. What was written is the start of what the meaning of the block makes of the input so far, and the tags handed to `produce()` are those of
  the samples so far, each once. So it makes no difference between which samples a call of `work()` ends.
* `GeneratedGivesAll`: `NothingWithheld`; `GeneratedNeverFails`: `NoPanic`; `GeneratedNeverSpins`: `NoIdleAgain`; `GeneratedWaits`: `HonestWait`, if all blocks in `Cases` are such ones.

The invariant `Sound` says that the number of samples gone tells all the rest: the state of the block (`StateAt`), what it wrote (`SamplesAt`) and the tags (`MarksAt`), each a formula by
position on the whole input. That a call of `work()` keeps it takes three steps. `ProcessIs`: `process_sync_tags()` goes from the state after `k - 1` samples to that after `k` (a register of
the descrambler holds the last bits of seed and input in a row, `last` of `NrziEncode` tells whether the number of zeros so far is odd). `SyncWorkIs`: the fold over the window does that for
all of its samples, for there is a function that the fold is defined by, which `FoldExists` shows by induction over the set of the numbers for which there is one. `WorkIs`: a window
is a piece of the input (`CutIs`), and after the call one of them has no more, which is what the returned wait is about.
`AllExpected` shows that the meanings in `BlockMeaning` and `SignalMeaning`, written without a state, are these formulas, and `Causal` that they do not look ahead, so that the meaning of the
input so far is the start of the meaning of all of it. `CasesAssumption` of `BlockRunner` says what the code asks for: samples of the block's type (bits are 0 or 1, as `process_sync()` of
`Descrambler` asserts), streams with some capacity, a seed and a code that are not empty.

`Generated` leaves out four blocks: the meaning of `Scrambler` and of `SinglePoleIirFilter` is of their own earlier output, that of `Vco` a sum over the samples so far, and `QuadratureDemod`
takes angles.

`FileProofs`, for `FileSink` and `NoCopyFileSink` with any input, mode, buffer and disk:

* `FilesDurable`: `Durable`. If the program dies, at any moment, the file has what it was to keep and then a beginning of what came, in order; with `flush` it has all that
  was consumed, and after `drop()` as much of that as the disk has room for.
* `FilesFaithful`: `Faithful`; `FilesGiveAll`: `NothingWithheld`; `FilesFailOnlyFull`: `NoPanic`, which says that `work()` fails only if the disk is too small for the whole file, and `new()` only
  if a new file is asked for and there is one. The hypothesis `Appendable`, that a file to append to is there, is needed, as `AppendCases` (above, under Bounds) show; `FilesNeverSpin`: `NoIdleAgain`; `FilesWait`: `HonestWait`, if all blocks in `Cases` are sinks or have a generated `work()`.

`Durable` alone is not inductive, as it says nothing of the `BufferedWriter`. `FilesSound` adds it: the disk and what is pending have together the text of what was consumed (`Content`), with nothing
pending if every write is flushed; after an error they have the text of something that has come, and it is more than the disk has room for (`DiskSound`). `WrittenIs` shows that a write, of which
any part may reach the disk, keeps both together. `SinkWorks` says what the two ways of `work()` have in common: the text of the samples up to the n-th is written, and
consumed if that went well. Where the batches are cut makes no difference since `FlattenSeq` is a homomorphism (`FlattenConcat`), which is by induction on the length, as the function it is defined
by exists (`FlatExists`) and depends on no later element (`FlatOnly`). `CasesAssumption` asks for the parameters of a sink and for a file that fits on the disk at the start.

`WindowProofs`, for `Skip`, `RtlSdrDecode`, `FirFilter`, `FftStream`, `Hilbert`, `DebugFilter`, `WriterSink`, `PduWriter`, `DebugSink` and `DebugSinkNoCopy`, with any input, parameters and
capacities, cut in any way:

* `WindowTypes`: `TypeOK`; `WindowFaithful`: `Faithful`; `WindowGivesAll`: `NothingWithheld`; `WindowNeverFails`: `NoPanic`; `WindowNeverSpins`: `NoIdleAgain`;
  `WindowWaits`: `HonestWait`, if each block in `Cases` is one of these, a sink of a file, or has a generated `work()`.

What these blocks consume is not what they write: a filter decides how much by its taps and its decimation, keeps what it needs for the next item in the stream, or in a history of its own, and
may stop for lack of either input or room. The invariant `OrderSound` says where such a block can be. The number of items written and the number of samples consumed go together (`Level`),
the n-th item is made of a part of the whole input that n tells (`Item`), and the number of samples consumed tells the state (`StAt`). There is one lemma `...Does` for each block: `work()`
goes from such a point to a later one, and returns a wait only for what is then missing. `DueIs` shows that a block that lacks input has written as many items as that input makes. One lemma
`...Means` for each says that the meaning in `BlockMeaning`, which sees the whole input, is the items in order. `CasesAssumption` asks for taps, a decimation and sizes that are not 0.

The theorems are about `Plainly` given blocks: `Skip`, `FirFilter` and `Hilbert` get an input without tags. Otherwise their windows may hold tags of samples that they do not consume yet, which they hand
to `produce()` now and again with the next window. `WindowNeverFails` covers the assertions of `FirFilter::work()` and `Fir::filter()`, and that the history of `Hilbert` keeps its length; the writer of
`WriterSink` is taken to write each sample whole, as the code asserts. For the sinks `WindowTypes` says nothing: `made` is then what went to the writer or to files, which has no capacity.

Only model-checked: that `run()` returns (`Terminates`, `DisturbedStops`, `CancelStops`), the programs (`Consumed`, where a stream
may have no reader, and which are graphs that TLC has to build), and the other blocks that write `work()` themselves. Among these, the maps of packets (`KissEncode`, `FcsAdder`, `HdlcFramer`,
`NCMap`, `MorseEncode`) add tags of their own; the other decoders have meanings that are automata on the whole input, and `RationalResampler`, `CmaEqualizer`, `SymbolSync` and the rest
sums over all samples so far. `Delay`, `VecToStream`, `AuEncode`, `KissFrame` and `Parse` do what the properties say only for some ways in which their input and room are cut, which the cases choose by `atOnce` and
capacities (see Bounds). Liveness and ENABLED are out of the prover's reach.

## Not modelled

* The mapping itself (`Circ::new`: temporary file, `mmap` twice), assumed to do
  what `Slot` says, and the checks of sizes in `Buffer::new`.
* Statistics, logging, block names, the generated constructors.
* Everything about floats as such: the design of taps, windows, `fft.rs`, the AVX code, rounding.
* `PipewireSource` and `PipewireSink`, which hang on the callbacks of a library; their `work()` is a `todo!()`, or a loop that the library drives.
* The fields of an IL2P header, which are only logged; the names of the files of `PduWriter`.
* The programs that run on `MTGraph` only or need a modem or a transmitter (`bell202`, `g3ruh`, `fm_tx`, `morse_beacon`, `udp_decode`, `airspy_*`), the `sigmf` tool,
  the benches, and `file_sink_resilient.rs`, which no module declares.
* `spawn()` of `AsyncGraph` under `tokio_unstable`, which can fail.

## Plan

What is left, in the order of its worth:

1. The properties of `BlockRunner` as theorems for more blocks with a `work()` of their own: those that map packets, then `Delay` with room for its delay.
2. The cases that the list under Bounds names, as runs of their own.
3. The graphs of the programs that run on `MTGraph`.
