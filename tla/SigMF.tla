------------------------------- MODULE SigMF --------------------------------
(***************************************************************************)
(* SigMFSource, and the recordings that it reads: an archive, of which     *)
(* entries is the list, if there is a file of the name it is given, or two *)
(* files with names that start like that.  Names of files are pairs of a   *)
(* base and the rest; a type is a pair of the format and the byte order.   *)
(***************************************************************************)
EXTENDS EndBlocks

\* Of the metadata, what is looked at; the rate is 0 if it is not there.
Meta(datatype, rate) == [parses |-> TRUE, datatype |-> datatype, sample_rate |-> rate]
NoMeta               == [Meta(<<>>, 0) EXCEPT !.parses = FALSE]

\* write(): what the program's own recordings say
written(rate) == Meta(<<"cf32", "">>, rate)

type_string == [T \in {"i32", "u8", "ComplexI32", "Complex", "Float"} |->
                  CASE T = "i32" -> "ri32" [] T = "u8" -> "ru8" [] T = "ComplexI32" -> "ci32"
                    [] T = "Complex" -> "cf32" [] T = "Float" -> "rf32"]

\* An entry of an archive; a file that is opened has metadata and bytes.
Entry(base, ext, type, holds) == [name |-> <<base, ext>>, type |-> type, holds |-> holds]
Opened(meta, bytes) == [ok |-> TRUE, meta |-> meta, bytes |-> bytes]
Refused             == [ok |-> FALSE, meta |-> NoMeta, bytes |-> <<>>]

\* The loops over the entries: the only one of these names, if it is a plain
\* file.  found has it, and is empty if there is none.
Sole(entries, names) ==
  LET Seen(acc, e) == IF ~acc.ok \/ e.name \notin names THEN acc
                      ELSE [ok |-> e.type = "Regular" /\ acc.found = <<>>, found |-> <<e>>]
  IN  FoldLeft(Seen, [ok |-> TRUE, found |-> <<>>], entries)

\* The name of the data is that of the metadata, with another end.
from_archive(entries) ==
  LET Named(ext) == { e.name : e \in { f \in ToSet(entries) : f.name[2] = ext } }
      metas == Sole(entries, Named("sigmf-meta"))
      datas == Sole(entries, {<<metas.found[1].name[1], "sigmf-data">>})
  IN  IF ~metas.ok \/ metas.found = <<>> THEN Refused
      ELSE IF ~datas.ok \/ datas.found = <<>> \/ ~metas.found[1].holds.parses THEN Refused
      ELSE Opened(metas.found[1].holds, datas.found[1].holds)

\* files: what there is, by the end of its name
from_recording(files, meta, bytes) ==
  IF {"-meta", "-data"} \subseteq files /\ meta.parses THEN Opened(meta, bytes) ELSE Refused

\* new2(): the rate has to be the expected one if both are known, and the type
\* too, with its byte order.
SigMFSourceNew(par) ==
  LET opened == IF "" \in par.files THEN from_archive(par.entries)
                ELSE from_recording(par.files, par.meta, par.bytes)
  IN  IF \/ ~opened.ok
         \/ par.samp_rate # 0 /\ opened.meta.sample_rate \notin {0, par.samp_rate}
         \/ ~par.ignore_type_error /\ opened.meta.datatype # <<type_string[par.type], "le">>
        THEN NotBuilt
      ELSE [bytes |-> opened.bytes, left |-> Len(opened.bytes), repeat |-> finite(par.times), buf |-> <<>>]

SigMFSourceRewound(st) == [st EXCEPT !.left = Len(st.bytes), !.repeat = Repeated(@)]

SigMFSourceReads(par, st, room) ==
  Reads(IF st.left = 0 /\ GoesOn(st.repeat) THEN Len(st.bytes) ELSE st.left, room[1] * par.size)

\* n: what read() returns.  There is never a whole sample in buf before it.
SigMFSourceWork(par, st, w, room, n) ==
  LET now   == IF st.left = 0 THEN SigMFSourceRewound(st) ELSE st
      from  == Len(now.bytes) - now.left
      bytes == now.buf \o SubSeq(now.bytes, from + 1, from + n)
  IN  IF st.left = 0 /\ ~GoesOn(st.repeat)
        THEN Nothing([st EXCEPT !.repeat = Repeated(@)], w, room, EOF)
      ELSE IF room[1] = 0 THEN Nothing(now, w, room, WaitOut(1, 1))
      ELSE IF n = 0 THEN Nothing(now, w, room, Panic)
      ELSE Did([now EXCEPT !.left = @ - n, !.buf = Partial(bytes, par.size)], <<>>,
               <<Samples(bytes, par.size)>>, <<{}>>, WaitOut(1, 1))
=============================================================================
