----------------------------- MODULE Flowgraph -----------------------------
(***************************************************************************)
(* A flow graph as the runners of threads and of tasks are given it:       *)
(* blocks, and the streams that connect them.  A block owns the read ends  *)
(* of its inputs and the write ends of its outputs, in the order of its    *)
(* struct's fields.                                                        *)
(*                                                                         *)
(* Three kinds of block stand for all of them.  A block without inputs is  *)
(* a VectorSource, one without outputs a NullSink (or a VectorSink that is *)
(* large enough), any other a block whose work() is generated by the macro *)
(* for #[rustradio(sync)]: a sample of every input gives a sample of every *)
(* output.                                                                 *)
(***************************************************************************)
EXTENDS Integers, Sequences, FiniteSets, SequencesExt

CONSTANTS
  Inputs,   \* Inputs[b]: the streams that block b reads
  Outputs,  \* Outputs[b]: the streams that block b writes
  Totals    \* Totals[b]: how many samples source b may have; Forever: no end

Forever == -1
Blocks  == DOMAIN Inputs
Streams == UNION { ToSet(Inputs[b]) : b \in Blocks } \cup UNION { ToSet(Outputs[b]) : b \in Blocks }
Ports(b) == Inputs[b] \o Outputs[b]

Sources == { b \in Blocks : Inputs[b] = <<>> }
Sinks   == { b \in Blocks : Outputs[b] = <<>> }
Syncs   == Blocks \ (Sources \cup Sinks)

Reads(b, s)  == s \in ToSet(Inputs[b])
Writes(b, s) == s \in ToSet(Outputs[b])
ReaderOf(s) == CHOOSE b \in Blocks : Reads(b, s)
WriterOf(s) == CHOOSE b \in Blocks : Writes(b, s)

\* What the sources may have to produce before they start.
Loads == { t \in [Blocks -> UNION Range(Totals) \cup {Forever}] :
             \A b \in Blocks : t[b] \in (IF b \in Sources THEN Totals[b] ELSE {Forever}) }

\* An end of a stream belongs to one block, and to one of its ports.
ASSUME FlowgraphAssumption ==
  /\ DOMAIN Outputs = Blocks /\ DOMAIN Totals = Sources
  /\ \A b \in Blocks : /\ Inputs[b] \in Seq(Streams) /\ Outputs[b] \in Seq(Streams)
                       /\ Ports(b) # <<>> /\ IsInjective(Ports(b))
  /\ \A b \in Sources : Len(Outputs[b]) = 1 /\ Totals[b] \subseteq Nat \cup {Forever}
  /\ \A b, c \in Blocks, s \in Streams : (Reads(b, s) /\ Reads(c, s)) \/ (Writes(b, s) /\ Writes(c, s)) => b = c
=============================================================================
