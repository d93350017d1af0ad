--------------------------- MODULE DeviceMeaning ----------------------------
(***************************************************************************)
(* What the blocks are to make of files, of the network and of devices, as *)
(* in BlockMeaning, and when they are to be had at all: from what the      *)
(* comments on their new() and build() and on their options promise.       *)
(***************************************************************************)
EXTENDS SignalMeaning, DeviceBlocks, SigMF

FileSinks == {"FileSink", "NoCopyFileSink"}

\* What a sink puts into a file
Filed(block, par, x) ==
  IF block = "FileSink" THEN AllSerialized(x[1].v, par.size)
  ELSE FlattenSeq([k \in 1..Whole(x) |-> WithNewline(x[1].v[k], par.size)])

\* The names of the metadata in an archive and of its data are a pair, and there
\* is only this one pair; without an archive, both files are there.
Recorded(par) ==
  LET Of(ext)  == { k \in DOMAIN par.entries : par.entries[k].name[2] = ext }
      Pairs_   == { p \in Of("sigmf-meta") \X Of("sigmf-data") : par.entries[p[1]].name[1] = par.entries[p[2]].name[1] }
      Plain_(p) == \A j \in {1, 2} : par.entries[p[j]].type = "Regular"
  IN  IF "" \in par.files
        THEN IF Cardinality(Of("sigmf-meta")) = 1 /\ Cardinality(Pairs_) = 1
               THEN { [meta |-> par.entries[p[1]].holds, bytes |-> par.entries[p[2]].holds] : p \in { q \in Pairs_ : Plain_(q) } }
               ELSE {}
      ELSE IF par.files = {"-meta", "-data"} THEN {[meta |-> par.meta, bytes |-> par.bytes]} ELSE {}

\* A recording of the rate and of the type that are asked for
Wanted(par) ==
  { r \in Recorded(par) :
      /\ r.meta.parses
      /\ par.samp_rate # 0 => r.meta.sample_rate \in {0, par.samp_rate}
      /\ par.ignore_type_error \/ r.meta.datatype = <<type_string[par.type], "le">> }

\* Whether the block is to be had: a device is there and does what it is told, a
\* socket can be bound, a file is not there if it is to be a new one.
Available(block, par) ==
  CASE block = "UdpSource"      -> par.bind = "good" /\ (par.multicast = "none" \/ {par.multicast, par.iface} = {"good"})
    [] block = "RtlSdrSource"   -> par.found > 0 /\ par.ready
    [] block = "AudioSink"      -> par.device /\ par.started
    [] block = "SoapySdrSink"   -> par.fails \ {"read_channel_sensor"} = {}
    [] block = "SoapySdrSource" -> par.fails \ RxMayFail = {} /\ par.sensors \cap par.unread = {}
    [] block = "SigMFSource"    -> Wanted(par) # {}
    [] block \in FileSinks      -> par.mode = "Create" => ~par.exists
    [] block = "SinglePoleIirFilter" -> par.num \in 0..par.den
    [] OTHER                    -> TRUE

\* Sample 1 comes with all that could be found out about the device, and with
\* the time.
Known(par) ==
  {<<"channel", U64>>, <<"input_gain", Float>>, <<"frequency", Float>>, <<"sample_rate", Float>>, <<"time_ns", I64>>}
    \cup { <<t, String>> : t \in {"driver_key", "hardware_key", "frontend_mapping", "get_clock_source",
                                  "get_time_source"} \ par.fails }
    \cup (IF par.antenna THEN {<<"antenna", String>>} ELSE {})
    \cup (IF "get_hardware_time" \in par.fails THEN {} ELSE {<<"hardware_time", I64>>})

\* A sensor of which nothing secret is told, and its value, as text if it is not
\* what such a sensor gives.
Public(par, sensors) ==
  (sensors \ par.unread) \ (IF par.gps_coords THEN {"secret"} ELSE {"secret", "gps_gpgga", "gps_gprmc", "gps_servo"})
Value(par, s) ==
  IF s \in par.odd THEN String
  ELSE CASE s = "gps_time" -> U64 [] s \in {"gps_locked", "ref_locked", "lo_locked"} -> Bool [] OTHER -> String
Sensed(par) ==
  { <<"sensor_" \o s, Value(par, s)>> : s \in Public(par, par.sensors) }
    \cup { <<"sensor_channel_" \o s, Value(par, s)>> : s \in Public(par, par.channel_sensors) }

\* Time and sensors may be told again, but nothing else.
MayTell(block, par, p) ==
  block = "SoapySdrSource" /\ p[2] \in Sensed(par) \cup {<<"time_ns", I64>>}

\* A sample of a datagram is whole, and a datagram not larger than the buffer.
Received(par, x) ==
  FlattenSeq([k \in 1..Whole(x) |-> Samples(Take(x[1].v[k], Smaller(par.buffer, Len(x[1].v[k]))), par.size)])

Chunks(x) == FlattenSeq([k \in 1..Whole(x) |-> IF x[1].v[k].ok THEN x[1].v[k].bytes ELSE <<>>])

Delivered(block, par, x) ==
  CASE block = "UdpSource"      -> <<Plain(Received(par, x))>>
    [] block = "RtlSdrSource"   -> <<Plain(Chunks(x))>>
    [] block = "AudioSink"      -> <<Plain(Take(x[1].v, Smaller(par.plays, Whole(x))))>>
    [] block = "SoapySdrSink"   -> <<Plain(x[1].v)>>
    [] block = "SoapySdrSource" -> <<[v |-> [k \in 1..par.total |-> k], t |-> {1} \X (Known(par) \cup Sensed(par))]>>
    [] block = "SigMFSource"    ->
         LET r == CHOOSE r \in Wanted(par) : TRUE IN <<Plain(Samples(Rounds(r.bytes, par.times), par.size))>>
    [] block \in FileSinks      -> <<Plain(Filed(block, par, x))>>
    [] OTHER                    -> Promise(block, par, x)

\* A block that is not there makes nothing.
Expected(block, par, x, outs) ==
  IF Available(block, par) THEN Delivered(block, par, x) ELSE [o \in outs |-> Plain(<<>>)]
=============================================================================
