------------------------------ MODULE Examples ------------------------------
(***************************************************************************)
(* The graphs that the programs under examples/ build for Graph, and that  *)
(* of its unit test, in the form of module Graph: the blocks in the order  *)
(* in which they are add()ed, and the streams between them.                *)
(*                                                                         *)
(* A graph in the making has its blocks so far, the capacities of their    *)
(* streams, the stream and the type that the programs call prev.  A stream *)
(* has as many bytes whatever its samples are, so that of bytes has room   *)
(* for more samples than one of floats, and that for more than one of      *)
(* complex numbers.                                                        *)
(***************************************************************************)
EXTENDS Integers, Sequences, SequencesExt

Endless == -1
Room == [Complex |-> 1, Float |-> 2, u8 |-> 8, Packet |-> 99]

\* What a block makes of samples of type t; most keep the type.
Made(name, t) ==
  CASE name \in {"RtlSdrDecode", "Hilbert", "SignalSourceComplex"} -> "Complex"
    [] name \in {"QuadratureDemod", "FastFM", "AuDecode", "ComplexToMag2", "VecToStream", "ComplexToReal"} -> "Float"
    [] name \in {"BinarySlicer", "AuEncode", "ToText"} -> "u8"
    [] name \in {"StreamToPdu", "HdlcDeframer", "Il2pDeframer"} -> "Packet"
    [] OTHER -> t

\* A file, or a radio, with samples of type t
Of(t) == [blocks |-> <<>>, cap |-> <<>>, prev |-> <<>>, type |-> t]

\* A block that is made from streams in and has streams out, of type t
add(g, name, in, out, t) ==
  [g EXCEPT !.blocks = Append(@, [name |-> name, in |-> in, out |-> out]),
            !.cap = [s \in ToSet(out) |-> Room[t]] @@ @]

\* blockchain!: each block reads the one before it.
blockchain(g, names) ==
  LET Next(acc, name) ==
        LET s == "s" \o ToString(Len(acc.blocks))  t == Made(name, acc.type)
        IN  [add(acc, name, acc.prev, <<s>>, t) EXCEPT !.prev = <<s>>, !.type = t]
  IN  FoldLeft(Next, g, names)

\* Two ways out of prev, of which the first is prev then, and a way back.
Tee(g, a, b)   == [add(g, "Tee", g.prev, <<a, b>>, g.type) EXCEPT !.prev = <<a>>]
At(g, s, t)    == [g EXCEPT !.prev = <<s>>, !.type = t]
Sink(g, name)  == add(g, name, g.prev, <<>>, g.type)

\* A run of the graph with a source of n samples
Graph_(g, name, n) ==
  [name |-> name, blocks |-> g.blocks, cap |-> g.cap,
   total |-> [k \in DOMAIN g.blocks |-> IF g.blocks[k].in = <<>> THEN n ELSE Endless]]

-----------------------------------------------------------------------------
(* Where samples come from                                                 *)

Radio == blockchain(Of("u8"), <<"RtlSdrSource", "RtlSdrDecode">>)
Samples == blockchain(Of("Complex"), <<"FileSource">>)
Recording == blockchain(Of("Complex"), <<"SigMFSource">>)
Sound == blockchain(Of("u8"), <<"FileSource", "AuDecode">>)
Bytes == blockchain(Of("u8"), <<"FileSource", "RtlSdrDecode">>)

Input == [radio |-> Radio, samples |-> Samples, recording |-> Recording, sound |-> Sound, bytes |-> Bytes]

\* ax25-1200-rx: a recording or a radio is demodulated first.
get_complex_input(input) == Input[input]
get_input(input, demod) ==
  IF input = "sound" THEN Sound
  ELSE blockchain(get_complex_input(input), <<"FftFilter", "RationalResampler", demod>>)

\* SymbolSync, whose clock can be written to a file: then the blocks that read
\* what it writes are added before it is.
WithSymbolSync(g, clock_file) ==
  LET sync(h, outs) == add(h, "SymbolSync", g.prev, outs, "Float")
      teed  == Tee(At(g, "symbols", "Float"), "to_text", "on")
      clock == blockchain(At(teed, "clock", "Float"), <<"AddConst">>)
      text  == add(clock, "ToText", <<"to_text">> \o clock.prev, <<"text">>, "u8")
      file  == Sink(At(text, "text", "u8"), "FileSink")
  IN  IF clock_file THEN At(sync(file, <<"symbols", "clock">>), "on", "Float")
      ELSE At(sync(g, <<"symbols">>), "symbols", "Float")

ax25_1200_rx(input, demod, clock_file, output) ==
  LET tones == blockchain(get_input(input, demod), <<"Hilbert", "QuadratureDemod", "FftFilterFloat", "AddConst">>)
      bits  == blockchain(WithSymbolSync(tones, clock_file), <<"BinarySlicer", "NrziDecode", "HdlcDeframer">>)
  IN  Sink(bits, output)

ax25_9600_rx(input, clock_file) ==
  LET demod == IF input = "sound" THEN Sound
               ELSE blockchain(Input[input], <<"FftFilter", "RationalResampler", "QuadratureDemod">>)
      bits  == blockchain(WithSymbolSync(demod, clock_file),
                          <<"BinarySlicer", "NrziDecode", "Descrambler", "HdlcDeframer">>)
  IN  Sink(bits, "PduWriter")

\* Strength on one branch, demodulated or delayed samples on the other; where
\* they meet, bursts are tagged and cut out.
Bursts(input, data) ==
  LET teed     == Tee(blockchain(Input[input], <<"FftFilter", "RationalResampler">>), "data", "strength")
      strength == blockchain(At(teed, "strength", "Complex"), <<"ComplexToMag2", "SinglePoleIirFilter">>)
      other    == blockchain(At(strength, "data", "Complex"), data)
      tagged   == add(other, "BurstTagger", other.prev \o strength.prev, <<"tagged">>, other.type)
  IN  blockchain(At(tagged, "tagged", other.type), <<"StreamToPdu">>)

Packets(g, decoders) ==
  Sink(blockchain(g, <<"Midpointer", "Wpcr", "VecToStream", "BinarySlicer", "NrziDecode">> \o decoders), "PduWriter")

ax25_1200_wpcr ==
  Packets(Bursts("samples", <<"QuadratureDemod", "Hilbert", "QuadratureDemod", "FftFilterFloat">>), <<"HdlcDeframer">>)
ax25_9600_wpcr(input) == Packets(Bursts(input, <<"QuadratureDemod">>), <<"Descrambler", "HdlcDeframer">>)
burst_saver(input)    == Sink(Bursts(input, <<"Delay">>), "PduWriter")

\* Nobody reads the packets of the Il2pDeframer.
il2p_1200_rx ==
  LET tones == blockchain(Samples, <<"FftFilter", "RationalResampler", "QuadratureDemod", "Hilbert", "QuadratureDemod",
                                     "FftFilterFloat", "AddConst", "SymbolSync", "BinarySlicer", "XorConst",
                                     "CorrelateAccessCodeTag">>)
      teed  == Tee(tones, "to_text", "on")
      text  == Sink(blockchain(teed, <<"ToText">>), "FileSink")
  IN  blockchain(At(text, "on", "u8"), <<"Il2pDeframer">>)

-----------------------------------------------------------------------------
(* Broadcast radio, tones and the rest                                     *)

\* rtl_fm: build()
rtl_fm(input, output) ==
  LET teed  == Tee(Input[input], "spectrum", "main")
      shown == Sink(blockchain(teed, <<"FftStream", "Inspect">>), "NullSink")
      audio == blockchain(At(shown, "main", "Complex"),
                          <<"FftFilter", "RationalResampler", "QuadratureDemod", "FftFilterFloat",
                            "RationalResampler", "Inspect", "MultiplyConst">>)
  IN  IF output THEN Sink(blockchain(audio, <<"AuEncode">>), "FileSink") ELSE Sink(audio, "AudioSink")

soapy_fm ==
  Sink(blockchain(Of("Complex"), <<"SoapySdrSource", "FftFilter", "RationalResampler", "QuadratureDemod",
                                   "FftFilterFloat", "RationalResampler", "MultiplyConst", "AuEncode">>), "FileSink")

\* Metadata copies its input, and notes the tags.
capture       == Sink(blockchain(Of("Complex"), <<"SoapySdrSource", "Metadata">>), "FileSink")
tone          == Sink(blockchain(Of("Complex"), <<"SignalSourceComplex", "ComplexToReal">>), "AudioSink")
rtlsdr_to_c32 == Sink(Bytes, "FileSink")
small_test    == Sink(blockchain(Bytes, <<"AddConst">>), "NullSink")
simple_copy   == Sink(blockchain(Of("Complex"), <<"VectorSource", "AddConst">>), "DebugSink")

\* The source is added when all others are.
simple_noncopy ==
  LET pdu == blockchain(At(Of("Complex"), "src_out", "Complex"), <<"StreamToPdu">>)
  IN  add(Sink(pdu, "PduWriter"), "VectorSource", <<>>, <<"src_out">>, "Complex")

-----------------------------------------------------------------------------

\* The programs: which of them it is, what it reads, and the options it is given
Run_(program, inputs, options) == [program : {program}, input : inputs, opt : SUBSET options]
Programs ==
  UNION { Run_("ax25-1200-rx", {"sound", "recording", "radio"}, {"fast_fm", "clock_file", "output"}),
          Run_("ax25-9600-rx", {"sound", "samples", "radio"}, {"clock_file"}),
          Run_("ax25-1200-wpcr", {"samples"}, {}), Run_("ax25-9600-wpcr", {"samples", "radio"}, {}),
          Run_("burst_saver", {"samples", "radio"}, {}), Run_("il2p-1200-rx", {"samples"}, {}),
          Run_("rtl_fm", {"bytes", "samples", "radio"}, {"output"}), Run_("rtlsdr_to_c32", {"bytes"}, {}),
          Run_("small_test", {"bytes"}, {}), Run_("simple_copy", {"vector"}, {}), Run_("simple_noncopy", {"vector"}, {}),
          Run_("soapy_fm", {"soapy"}, {}), Run_("capture", {"soapy"}, {}), Run_("tone", {"signal"}, {}) }

Build(p) ==
  CASE p.program = "ax25-1200-rx"   -> ax25_1200_rx(p.input, IF "fast_fm" \in p.opt THEN "FastFM" ELSE "QuadratureDemod",
                                                    "clock_file" \in p.opt,
                                                    IF "output" \in p.opt THEN "PduWriter" ELSE "DebugSinkNoCopy")
    [] p.program = "ax25-9600-rx"   -> ax25_9600_rx(p.input, "clock_file" \in p.opt)
    [] p.program = "ax25-1200-wpcr" -> ax25_1200_wpcr
    [] p.program = "ax25-9600-wpcr" -> ax25_9600_wpcr(p.input)
    [] p.program = "burst_saver"    -> burst_saver(p.input)
    [] p.program = "il2p-1200-rx"   -> il2p_1200_rx
    [] p.program = "rtl_fm"         -> rtl_fm(p.input, "output" \in p.opt)
    [] p.program = "rtlsdr_to_c32"  -> rtlsdr_to_c32
    [] p.program = "small_test"     -> small_test
    [] p.program = "simple_copy"    -> simple_copy
    [] p.program = "simple_noncopy" -> simple_noncopy
    [] p.program = "soapy_fm"       -> soapy_fm
    [] p.program = "capture"        -> capture
    [] p.program = "tone"           -> tone

\* Files of no, one and some samples, which rtl_fm can repeat for ever; two rounds
\* of a vector; radios without end.
Lengths(p) ==
  CASE p.input \in {"radio", "soapy", "signal"} -> {Endless}
    [] p.input = "vector" -> {2}
    [] OTHER -> {0, 1, 12} \cup (IF p.program = "rtl_fm" THEN {Endless} ELSE {})

Examples == UNION { { Graph_(Build(p), p.program, n) : n \in Lengths(p) } : p \in Programs }
=============================================================================
