---------------------------- MODULE BlockRunner -----------------------------
(***************************************************************************)
(* One block between a writer for each of its inputs and a reader for each *)
(* of its outputs, as any graph runs it: work() is called until it waits,  *)
(* and again when the stream it waits for has as much as it asked for.     *)
(*                                                                         *)
(* Input comes in pieces of any size and output is taken in pieces of any  *)
(* size, as far as the capacities of the streams allow, so that work()     *)
(* sees its input cut in every way and finds every amount of room.         *)
(***************************************************************************)
EXTENDS DeviceMeaning

\* A case is a block with its parameters and what it is given:
\*   block, par   the block's name and the arguments of its new()
\*   given        each input from start to end, in the form of a window
\*   cap, room    the capacities of its inputs and outputs
\*   atOnce       contains "in" if an input only comes as a whole, and "out" if
\*                readers always take all there is
CONSTANT Cases

\* A block whose work() is generated has streams of its type, and a sink for a
\* file has a disk that the file, if there is one, fits on.
IsWindow(x, S) ==
  /\ x.v \in Seq(S)
  /\ IsFiniteSet(x.t) /\ \A p \in x.t : p = <<p[1], p[2]>> /\ p[1] \in DOMAIN x.v

\* Blocks that write their own work(), with one input and one output, of which
\* each item is made of a part of the input that its number tells, and what their
\* new() is given
Ordered == {"Skip", "RtlSdrDecode", "FirFilter", "FftStream", "Hilbert", "DebugFilter",
            "WriterSink", "PduWriter", "DebugSink", "DebugSinkNoCopy"}
OrderedPar(block, par) ==
  CASE block = "Skip"      -> par.skip \in Nat
    [] block = "FirFilter" -> par.taps \in Seq(Int) \ {<<>>} /\ par.deci \in Nat \ {0}
    [] block = "Hilbert"   -> par.ntaps \in Nat \ {0}
    [] block \in {"FftStream", "WriterSink", "PduWriter"} -> par.size \in Nat \ {0}
    [] OTHER -> TRUE

ASSUME CasesAssumption ==
  \A c \in Cases :
    /\ DOMAIN c = {"block", "par", "given", "cap", "room", "atOnce"}
    /\ c.block \in SyncNames =>
         /\ DOMAIN c.given = 1..SyncInputs(c.block)
         /\ \A i \in DOMAIN c.given : IsWindow(c.given[i], SyncSample(c.block))
         /\ c.cap \in [DOMAIN c.given -> Nat \ {0}]
         /\ c.room \in [1..SyncOutputs(c.block) -> Nat \ {0}]
         /\ SyncPar(c.block, c.par)
    /\ c.block \in FileSinks =>
         /\ DOMAIN c.given = {1} /\ DOMAIN c.room = {1}
         /\ IsWindow(c.given[1], ToSet(c.given[1].v))
         /\ FilePar(c.par)
    /\ c.block \in Ordered =>
         /\ DOMAIN c.given = {1}
         /\ IsWindow(c.given[1], ToSet(c.given[1].v))
         /\ c.cap \in [{1} -> Nat \ {0}] /\ c.room \in [{1} -> Nat \ {0}]
         /\ OrderedPar(c.block, c.par)

VARIABLES
  case,      \* the case
  st,        \* the block's own state
  fed,       \* how much of each input was written to it
  eaten,     \* how much of each input was consumed
  made,      \* history: all that was written to each output
  tagged,    \* history: all tags given to produce(), as <<position, tag>>
  drained,   \* how much of each output was consumed
  ret,       \* what work() returned
  moved      \* whether anything changed in that call of work() or since

vars == <<case, st, fed, eaten, made, tagged, drained, ret, moved>>

Ins(c)  == DOMAIN c.given
Outs(c) == DOMAIN c.room

Cut(x, from, to) == [v |-> SubSeq(x.v, from + 1, to),
                     t |-> { <<p[1] - from, p[2]>> : p \in { q \in x.t : q[1] \in (from + 1)..to } }]

Windows == [i \in Ins(case) |-> Cut(case.given[i], eaten[i], fed[i])]
Free(o) == LET used == Len(made[o]) - drained[o]
           IN  IF used < case.room[o] THEN case.room[o] - used ELSE 0
Room    == [o \in Outs(case) |-> Free(o)]
Fed     == [i \in Ins(case) |-> Cut(case.given[i], 0, fed[i])]
Promised == CHOOSE m \in { Expected(case.block, case.par, x, Outs(case)) : x \in {Fed} } : TRUE

\* Sources that go on for ever, of which par.total samples are asked for, and
\* those that ask to be called again although there is nothing to do.
SignalSources == {"SignalSourceFloat", "SignalSourceComplex"}
Endless == SignalSources \cup {"ConstantSource", "SoapySdrSource"}
Spins   == SignalSources \cup {"UdpSource", "SoapySdrSource", "SoapySdrSink"}

\* new() of each block
Start(c) ==
  CASE c.block \in SyncNames         -> SyncStart(c.block, c.par)
    [] c.block = "Skip"              -> [skip |-> c.par.skip]
    [] c.block = "Delay"             -> DelayStart(c.par.delay)
    [] c.block = "RationalResampler" -> ResamplerStart(c.par.interp, c.par.deci)
    [] c.block = "AuEncode"          -> AuEncodeStart(c.par.bitrate)
    [] c.block = "AuDecode"          -> AuDecodeStart
    [] c.block = "StreamToPdu"       -> StreamToPduStart
    [] c.block = "PduToStream"       -> PduToStreamStart
    [] c.block = "KissFrame"         -> Unsynced
    [] c.block = "HdlcDeframer"      -> HdlcDeframerStart
    [] c.block = "Il2pDeframer"      -> Il2pStart
    [] c.block = "VectorSource"      -> VectorSourceStart(c.par)
    [] c.block = "FileSource"        -> FileSourceStart(c.par)
    [] c.block = "TcpSource"         -> TcpSourceStart
    [] c.block = "ReaderSource"      -> ReaderSourceStart
    [] c.block = "VectorSink"        -> VectorSinkStart
    [] c.block = "VectorSinkNoCopy"  -> VectorSinkNoCopyStart
    [] c.block = "PduWriter"         -> PduWriterStart
    [] c.block = "Hasher"            -> HasherStart
    [] c.block = "FftFilter"         -> FftFilterStart(c.par)
    [] c.block = "Hilbert"           -> HilbertStart(c.par)
    [] c.block = "ZeroCrossing"      -> ZeroCrossingStart
    [] c.block \in SignalSources     -> SignalSourceStart
    [] c.block = "CmaEqualizer"      -> CmaStart(c.par)
    [] c.block = "SymbolSync"        -> SymbolSyncStart(c.par)
    [] c.block = "Strobe"            -> StrobeStart(c.par)
    [] c.block = "FftFilterFloat"    -> FftFilterFloatStart(c.par)
    [] c.block \in FileSinks         -> FileSinkNew(c.par)
    [] c.block = "SigMFSource"       -> SigMFSourceNew(c.par)
    [] c.block = "UdpSource"         -> UdpSourceBuild(c.par)
    [] c.block = "RtlSdrSource"      -> RtlSdrSourceNew(c.par)
    [] c.block = "AudioSink"         -> AudioSinkNew(c.par)
    [] c.block = "SoapySdrSink"      -> SoapySdrSinkBuild(c.par)
    [] c.block = "SoapySdrSource"    -> SoapySdrSourceBuild(c.par)
    [] OTHER                         -> [none |-> 0]

\* work() of each block
Worked(block, par, s, w, room) ==
  CASE block \in SyncNames         -> SyncWork(block, par, s, w, room)
    [] block = "Skip"              -> SkipWork(par, s, w, room)
    [] block = "Delay"             -> DelayWork(par, s, w, room)
    [] block = "RationalResampler" -> ResamplerWork(par, s, w, room)
    [] block = "RtlSdrDecode"      -> RtlSdrDecodeWork(par, s, w, room)
    [] block = "AuEncode"          -> AuEncodeWork(par, s, w, room)
    [] block = "AuDecode"          -> AuDecodeWork(par, s, w, room)
    [] block = "ToText"            -> ToTextWork(par, s, w, room)
    [] block = "StreamToPdu"       -> StreamToPduWork(par, s, w, room)
    [] block = "VecToStream"       -> VecToStreamWork(par, s, w, room)
    [] block = "PduToStream"       -> PduToStreamWork(par, s, w, room)
    [] block = "KissFrame"         -> KissFrameWork(par, s, w, room)
    [] block = "KissDecode"        -> KissDecodeWork(par, s, w, room)
    [] block = "KissEncode"        -> KissEncodeWork(par, s, w, room)
    [] block = "FcsAdder"          -> FcsAdderWork(par, s, w, room)
    [] block = "HdlcFramer"        -> HdlcFramerWork(par, s, w, room)
    [] block = "HdlcDeframer"      -> HdlcDeframerWork(par, s, w, room)
    [] block = "VectorSource"      -> VectorSourceWork(par, s, w, room)
    [] block = "NCMap"             -> NCMapWork(par, s, w, room)
    [] block = "DebugFilter"       -> DebugFilterWork(par, s, w, room)
    [] block = "MorseEncode"       -> MorseEncodeWork(par, s, w, room)
    [] block = "Il2pDeframer"      -> Il2pDeframerWork(par, s, w, room)
    [] block = "ReaderSource"      -> ReaderSourceWork(par, s, w, room)
    [] block = "Parse"             -> ParseWork(par, s, w, room)
    [] block = "NullSink"          -> NullSinkWork(par, s, w, room)
    [] block = "VectorSink"        -> VectorSinkWork(par, s, w, room)
    [] block = "VectorSinkNoCopy"  -> VectorSinkNoCopyWork(par, s, w, room)
    [] block = "WriterSink"        -> WriterSinkWork(par, s, w, room)
    [] block = "DebugSink"         -> DebugSinkWork(par, s, w, room)
    [] block = "DebugSinkNoCopy"   -> DebugSinkNoCopyWork(par, s, w, room)
    [] block = "PduWriter"         -> PduWriterWork(par, s, w, room)
    [] block = "Hasher"            -> HasherWork(par, s, w, room)
    [] block = "FirFilter"         -> FirFilterWork(par, s, w, room)
    [] block = "FftFilter"         -> FftFilterWork(par, s, w, room)
    [] block = "FftStream"         -> FftStreamWork(par, s, w, room)
    [] block = "Hilbert"           -> HilbertWork(par, s, w, room)
    [] block = "ZeroCrossing"      -> ZeroCrossingWork(par, s, w, room)
    [] block \in SignalSources     -> SignalSourceWork(block, par, s, w, room)
    [] block = "ConstantSource"    -> ConstantSourceWork(par, s, w, room)
    [] block = "CmaEqualizer"      -> CmaWork(par, s, w, room)
    [] block = "SymbolSync"        -> SymbolSyncWork(par, s, w, room)
    [] block = "Midpointer"        -> MidpointerWork(par, s, w, room)
    [] block = "Wpcr"              -> WpcrWork(par, s, w, room)
    [] block = "FftFilterFloat"    -> FftFilterFloatWork(par, s, w, room)
    [] block = "UdpSource"         -> UdpSourceWork(par, s, w, room)
    [] block = "RtlSdrSource"      -> RtlSdrSourceWork(par, s, w, room)
    [] block = "AudioSink"         -> AudioSinkWork(par, s, w, room)

\* All that may come of work(), which depends on what a call of the system or of
\* a device returns, or on the time.
Outcomes(block, par, s, w, room) ==
  CASE block = "FileSource" -> { FileSourceWork(par, s, w, room, n) : n \in FileSourceReads(par, s, room) }
    [] block = "TcpSource"  -> { TcpSourceWork(par, s, w, room, n) : n \in TcpSourceReads(par, s, room) }
    [] block = "Strobe"     -> { StrobeWork(par, s, w, room, t) : t \in 1..par.period }
    [] block = "SigMFSource" -> { SigMFSourceWork(par, s, w, room, n) : n \in SigMFSourceReads(par, s, room) }
    [] block = "FileSink" -> { FileSinkWork(par, s, w, room, k) : k \in FileSinkSpills(block, par, s, w) }
    [] block = "NoCopyFileSink" -> { NoCopyFileSinkWork(par, s, w, room, k) : k \in FileSinkSpills(block, par, s, w) }
    [] block = "SoapySdrSink" -> { SoapySdrSinkWork(par, s, w, room, n) : n \in SoapySdrSinkWrites(par, s, w) }
    [] block = "SoapySdrSource" ->
         { SoapySdrSourceWork(par, s, w, room, n, late) : n \in SoapySdrSourceReads(par, s, room), late \in BOOLEAN }
    [] OTHER                -> { Worked(block, par, s, w, room) }

-----------------------------------------------------------------------------
Init ==
  /\ case \in Cases
  /\ st = Start(case)
  /\ fed = [i \in Ins(case) |-> 0] /\ eaten = fed
  /\ made = [o \in Outs(case) |-> <<>>] /\ tagged = made
  /\ drained = [o \in Outs(case) |-> 0]
  /\ ret = (IF st = NotBuilt THEN Error ELSE Again) /\ moved = TRUE

\* The block before it produces.
Feed(i) ==
  /\ \E n \in 1..(Len(case.given[i].v) - fed[i]) :
       /\ fed[i] + n - eaten[i] <= case.cap[i]
       /\ "in" \in case.atOnce => fed[i] + n = Len(case.given[i].v)
       /\ fed' = [fed EXCEPT ![i] = @ + n]
  /\ moved' = TRUE
  /\ UNCHANGED <<case, st, eaten, made, tagged, drained, ret>>

\* The block after it consumes.
Drain(o) ==
  /\ \E n \in 1..(Len(made[o]) - drained[o]) :
       /\ "out" \in case.atOnce => drained[o] + n = Len(made[o])
       /\ case.block \in Endless => drained[o] + n + case.room[o] <= case.par.total
       /\ drained' = [drained EXCEPT ![o] = @ + n]
  /\ moved' = TRUE
  /\ UNCHANGED <<case, st, fed, eaten, made, tagged, ret>>

\* A wait ends when the stream has what was asked for.
Ready ==
  CASE ret.kind = "WaitIn"  -> fed[ret.port] - eaten[ret.port] >= ret.need
    [] ret.kind = "WaitOut" -> Free(ret.port) >= ret.need
    [] OTHER                -> ret.kind \in {"Again", "Pending"}

\* produce() puts a tag at its place, whether or not there is a sample yet.
Placed(o, tags) ==
  LET Next_(t, placed) == Append(placed, t) IN FoldSet(Next_, <<>>, Shifted(tags, Len(made[o])))

Work ==
  /\ Ready
  /\ \E w \in {Windows}, room \in {Room} :
       \E d \in Outcomes(case.block, case.par, st, w, room) :
         /\ st' = d.st
         /\ eaten' = [i \in Ins(case) |-> eaten[i] + d.eat[i]]
         /\ made' = [o \in Outs(case) |-> made[o] \o d.put[o]]
         /\ tagged' = [o \in Outs(case) |-> tagged[o] \o Placed(o, d.tags[o])]
         /\ ret' = d.ret
         /\ moved' = (<<st', eaten', made'>> # <<st, eaten, made>>)
  /\ UNCHANGED <<case, fed, drained>>

\* The graph drops its blocks when there is nothing more to come.
DropBlock ==
  /\ ret.kind = "WaitIn" /\ \A i \in Ins(case) : eaten[i] = Len(case.given[i].v)
  /\ \/ case.block \in FileSinks /\ st' = FileSinkDrop(case.par, st) /\ UNCHANGED made
     \/ case.block = "Hasher" /\ made' = [made EXCEPT ![1] = @ \o HasherDrop(st)] /\ UNCHANGED st
  /\ ret' = EOF
  /\ UNCHANGED <<case, fed, eaten, tagged, drained, moved>>

\* Somebody asks for another delay, once, when the last one is there and more
\* samples have come.
SetDelay ==
  /\ case.block = "Delay" /\ case.par.changed = <<>>
  /\ st.current = 0 /\ st.skip = 0 /\ eaten[1] < fed[1]
  /\ \E d \in case.par.others :
       st' = set_delay(st, d) /\ case' = [case EXCEPT !.par.changed = <<eaten[1], d>>]
  /\ UNCHANGED <<fed, eaten, made, tagged, drained, ret, moved>>

Next == \/ \E i \in Ins(case) : Feed(i)
        \/ \E o \in Outs(case) : Drain(o)
        \/ Work
        \/ DropBlock
        \/ SetDelay

Spec == Init /\ [][Next]_vars

\* Weak fairness of Work, in a form that TLC evaluates without ENABLED: a step
\* that leaves fed and drained alone is a Work, but for two that are taken once at
\* most, and Work can be taken when Ready.
\* If the last one found nothing to do, and nothing came since, nor will the next.
WorkIsFair == []<>~(Ready /\ moved) \/ []<><<UNCHANGED <<fed, drained>>>>_vars

\* The neighbours go on, and so does the block, which is dropped in the end.
FairSpec == /\ Spec
            /\ \A i \in 1..2 : WF_vars(i \in Ins(case) /\ Feed(i)) /\ WF_vars(i \in Outs(case) /\ Drain(i))
            /\ WorkIsFair /\ WF_vars(DropBlock)

-----------------------------------------------------------------------------
\* Nothing is consumed that did not come, and nothing produced that does not
\* fit, except that packets are pushed without asking for room.
MakesPackets == {"StreamToPdu", "KissFrame", "KissDecode", "KissEncode", "FcsAdder",
                 "HdlcFramer", "HdlcDeframer", "NCMap", "DebugFilter", "Il2pDeframer",
                 "Midpointer", "Wpcr", "Hasher"}

TypeOK ==
  /\ case \in Cases \/ case.block = "Delay"
  /\ \A i \in Ins(case) : eaten[i] \in 0..fed[i] /\ fed[i] - eaten[i] \in 0..case.cap[i]
  /\ \A o \in Outs(case) : drained[o] \in 0..Len(made[o])
  /\ case.block \notin MakesPackets =>
       \A o \in Outs(case) : Len(made[o]) - drained[o] <= case.room[o]
  /\ ret.kind \in {"Again", "Pending", "WaitIn", "WaitOut", "EOF", "Error", "Panic"} /\ moved \in BOOLEAN

\* Datagrams that come when there is no room are lost, in part or altogether.
Loses == case.block = "UdpSource"

Follows(v, promise) ==
  LET Made(s) == s \in ToSet(v) IN IF Loses THEN v = SelectSeq(promise, Made) ELSE IsPrefix(v, promise)

\* What a block has written is the start of what it is to make of the input,
\* and each tag is on a sample where it belongs, once, however the input was
\* cut and whatever room there was.
Faithful ==
  \A o \in Outs(case) : \E promise \in {Promised[o]} :
    /\ Follows(made[o], promise.v)
    /\ Within(promise.t, Len(made[o])) \subseteq ToSet(tagged[o])
    /\ \A p \in ToSet(tagged[o]) \ Within(promise.t, Len(made[o])) : MayTell(case.block, case.par, p)
    /\ Len(tagged[o]) = Cardinality(ToSet(tagged[o]))

\* A block that waits for more input has held nothing back: it wrote all that
\* the input so far makes.  A hash is of all there will be.
NothingWithheld ==
  ret.kind = "WaitIn" /\ ~Ready /\ case.block # "Hasher" => \A o \in Outs(case) : made[o] = Promised[o].v

\* A block waits only for what is not there (block.rs: "when waiting for two
\* streams, pick one", and the other one the next time it is in the way).  Not
\* so a SigMFSource, which waits after every read, nor an AudioSink, which has
\* waited in work() while more came.
HonestWait ==
  [][ UNCHANGED <<case, fed, drained>> /\ case.block \notin {"SigMFSource", "AudioSink"}
        => ~(ret'.kind \in {"WaitIn", "WaitOut"} /\ Ready') ]_vars

\* A block that asks to be called again did something (block.rs: Again "should
\* not be returned repeatedly without data being consumed or produced").
NoIdleAgain == ret.kind = "Again" => moved \/ case.block \in Spins

\* What is to be in the file of a sink that has been given n samples
InFile(n) ==
  (IF case.par.mode = "Append" THEN case.par.old ELSE <<>>)
    \o Filed(case.block, case.par, <<Cut(case.given[1], 0, n)>>)

\* What may go wrong outside: a read, a device, a disk that is too small.
Fails ==
  CASE case.block \in {"ReaderSource", "RtlSdrSource"} -> \E k \in DOMAIN case.given[1].v : ~case.given[1].v[k].ok
    [] case.block = "AudioSink" -> case.par.plays < Len(case.given[1].v)
    [] case.block \in {"SoapySdrSink", "SoapySdrSource"} -> case.par.breaks
    [] case.block \in FileSinks -> case.par.space < Len(InFile(Len(case.given[1].v)))
    [] OTHER -> FALSE

\* work() never panics, neither on an assertion nor on a slice, and accepts
\* what its encoder wrote: an error only comes from outside.
NoPanic ==
  ret.kind # "Panic" /\ (ret.kind = "Error" => Fails \/ ~Available(case.block, case.par))

\* At any moment, and so if the program dies, the file starts with what it had
\* if that was to be kept, and goes on with what came, in order and whole; with
\* flush it has all that was consumed, and in any case when the block is gone.
Durable ==
  case.block \in FileSinks /\ st # NotBuilt =>
    /\ IsPrefix(InFile(0), st.disk) /\ IsPrefix(st.disk, InFile(fed[1]))
    /\ ret = EOF \/ (case.par.flush /\ ret # Error) =>
         st.disk = Take(InFile(eaten[1]), Smaller(case.par.space, Len(InFile(eaten[1]))))

\* In the end all of the input has come, unless something went wrong outside, and
\* all that is to be made of it was written: no wait is for something that does
\* not come.
Finishes ==
  <>(\/ /\ ret.kind = "Error" \/ \A i \in Ins(case) : fed[i] = Len(case.given[i].v)
        /\ \/ \A o \in Outs(case) : made[o] = Promised[o].v
           \/ Loses /\ eaten = fed
     \/ Fails /\ ret.kind = "Error" /\ case.block \notin {"ReaderSource", "RtlSdrSource", "AudioSink"})
=============================================================================
