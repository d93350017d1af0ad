---------------------------- MODULE DeviceBlocks ----------------------------
(***************************************************************************)
(* The blocks that talk to hardware and to the network.  What a device or  *)
(* a thread hands over is an input, what a device accepts is an output.    *)
(*                                                                         *)
(* A block that could not be built is NotBuilt.  The calls to a device are *)
(* named in par.fails if they return an error.                             *)
(***************************************************************************)
EXTENDS EndBlocks

-----------------------------------------------------------------------------
(* UdpSource.  An input is the datagrams that arrive where the socket      *)
(* should listen: it does so only if there is a multicast address.  An     *)
(* address is "none", "bad" if it does not parse, or "good".               *)

UdpSourceBuild(par) ==
  CASE par.multicast = "none" -> [joined |-> FALSE]
    [] par.multicast = "good" /\ par.iface = "good" /\ par.bind = "good" -> [joined |-> TRUE]
    [] OTHER -> NotBuilt

\* One datagram, as much of it as there is room for in the buffer and then in
\* the output; the rest is dropped.
UdpSourceWork(par, st, w, room) ==
  IF ~st.joined \/ w[1].v = <<>> THEN Nothing(st, w, room, Again)
  ELSE Moved(st, 1, Take(Samples(Take(w[1].v[1], Smaller(par.buffer, Len(w[1].v[1]))), par.size),
                         Smaller(room[1], Smaller(par.buffer, Len(w[1].v[1])) \div par.size)), {}, Again)

-----------------------------------------------------------------------------
(* RtlSdrSource and its thread, which sends an empty message when the      *)
(* device is ready, then chunks of bytes, until something goes wrong.      *)

RtlSdrSourceNew(par) == IF par.found > 0 /\ par.ready THEN [buf |-> <<>>] ELSE NotBuilt

\* As much of the buffer as there is room for
Poured(acc, room) ==
  LET n == Smaller(room - Len(acc.put), Len(acc.buf))
  IN  [acc EXCEPT !.put = @ \o Take(acc.buf, n), !.buf = Drop(@, n)]

\* A chunk is received when the one before has gone and there is room.
RtlSdrSourceWork(par, st, w, room) ==
  LET Receive(acc, m) ==
        IF acc.ret # Pending \/ Len(acc.put) = room[1] \/ acc.buf # <<>> THEN acc
        ELSE IF ~m.ok THEN [acc EXCEPT !.taken = @ + 1, !.ret = Error]
        ELSE Poured([acc EXCEPT !.taken = @ + 1, !.buf = m.bytes], room[1])
      all == Through(Receive, Poured(st @@ [put |-> <<>>, taken |-> 0, ret |-> Pending], room[1]), w[1].v)
  IN  Moved([buf |-> all.buf], all.taken, all.put, {},
            IF all.ret = Pending /\ Len(all.put) = room[1] THEN WaitOut(1, 1) ELSE all.ret)

-----------------------------------------------------------------------------
(* AudioSink.  The output is the channel to the thread that plays, which   *)
(* has room for three seconds.  len: the window that work() is at, of which*)
(* pos samples were sent; sent: all that ever were.  par.plays: how many   *)
(* samples the other end takes before it is gone.                          *)

AudioSinkNew(par) == IF par.device /\ par.started THEN [len |-> 0, pos |-> 0, sent |-> 0] ELSE NotBuilt

\* send() blocks when the channel is full, within work(), which consumes only
\* in the end.
AudioSinkWork(par, st, w, room) ==
  LET len  == IF st.len = 0 THEN Len(w[1].v) ELSE st.len
      n    == Least({room[1], len - st.pos, par.plays - st.sent})
      pos  == st.pos + n
      sent == st.sent + n
      out  == SubSeq(w[1].v, st.pos + 1, pos)
      idle == [len |-> 0, pos |-> 0, sent |-> sent]
  IN  IF len = 0 THEN Nothing(st, w, room, WaitIn(1, 1))
      ELSE IF pos = len THEN Moved(idle, len, out, {}, WaitIn(1, 1))
      ELSE IF sent = par.plays THEN Moved(idle, pos, out, {}, Error)
      ELSE Moved([len |-> len, pos |-> pos, sent |-> sent], 0, out, {}, WaitOut(1, 1))

-----------------------------------------------------------------------------
(* SoapySDR.  Of what build() asks, some only goes to the log, or into a   *)
(* tag, and may fail; anything else that fails is the end of it.           *)

TxMayFail == {"read_channel_sensor"}
RxMayFail == {"driver_key", "hardware_key", "frontend_mapping", "get_clock_source", "get_time_source",
              "get_hardware_time", "read_channel_sensor"}

\* timeouts: how often the model still lets the device answer with a timeout.
SoapySdrSinkBuild(par) ==
  IF par.fails \subseteq TxMayFail THEN [timeouts |-> par.timeouts] ELSE NotBuilt

\* How many samples write() takes: none if that takes too long, or -1 if it fails.
SoapySdrSinkWrites(par, st, w) ==
  IF w[1].v = <<>> THEN {0}
  ELSE (IF st.timeouts > 0 THEN 0 ELSE 1)..Len(w[1].v) \cup (IF par.breaks THEN {-1} ELSE {})

SoapySdrSinkWork(par, st, w, room, n) ==
  IF w[1].v = <<>> THEN Nothing(st, w, room, WaitIn(1, 1))
  ELSE IF n = -1 THEN Nothing(st, w, room, Error)
  ELSE IF n = 0 THEN Nothing([timeouts |-> st.timeouts - 1], w, room, Again)
  ELSE Moved(st, n, Take(w[1].v, n), {}, IF n = Len(w[1].v) THEN WaitIn(1, 1) ELSE Again)

\* The type of a sensor's tag, as a number.
String == 0
Float  == 1
U64    == 2
Bool   == 3
I64    == 4
SENSOR_TYPE == [s \in {"temp", "rssi", "gps_time", "ref_locked", "gps_locked", "lo_locked"} |->
                  CASE s \in {"temp", "rssi"} -> Float [] s = "gps_time" -> U64 [] OTHER -> Bool]
ALLOWED_SENSORS  == {"gps_time", "gps_locked", "ref_locked", "lo_locked"}
POSITION_SENSORS == {"gps_gpgga", "gps_gprmc", "gps_servo"}

allowed_sensors(par) == ALLOWED_SENSORS \cup (IF par.gps_coords THEN POSITION_SENSORS ELSE {})

\* par.odd: the sensors whose value is not of their type
make_sensor_tag(par, sensor) ==
  IF sensor \in DOMAIN SENSOR_TYPE \ par.odd THEN SENSOR_TYPE[sensor] ELSE String

\* Of those that can be read; the others are only logged.
add_sensor_tags(par) ==
  { <<"sensor_" \o s, make_sensor_tag(par, s)>> : s \in (par.sensors \cap allowed_sensors(par)) \ par.unread }
add_channel_sensor_tags(par) ==
  { <<"sensor_channel_" \o s, make_sensor_tag(par, s)>> :
      s \in (par.channel_sensors \cap allowed_sensors(par)) \ par.unread }

\* What was found out while building, as far as it could be.
SoapySdrSourceBuild(par) ==
  LET known == { <<t, String>> : t \in {"driver_key", "hardware_key", "frontend_mapping",
                                        "get_clock_source", "get_time_source"} \ par.fails }
      asked == {<<"channel", U64>>, <<"input_gain", Float>>, <<"frequency", Float>>, <<"sample_rate", Float>>}
      clock == IF "get_hardware_time" \in par.fails THEN {} ELSE {<<"hardware_time", I64>>}
      antenna == IF par.antenna THEN {<<"antenna", String>>} ELSE {}
  IN  IF par.fails \subseteq RxMayFail /\ par.sensors \cap par.unread = {}
        THEN [tags |-> asked \cup known \cup clock \cup antenna, timed |-> FALSE, pos |-> 0, timeouts |-> par.timeouts]
      ELSE NotBuilt

\* How many samples read() gives, as for write()
SoapySdrSourceReads(par, st, room) ==
  IF room[1] = 0 THEN {0}
  ELSE (IF st.timeouts > 0 THEN 0 ELSE 1)..room[1] \cup (IF par.breaks THEN {-1} ELSE {})

\* late: more than a second has gone by since the last tag with the time.
SoapySdrSourceWork(par, st, w, room, n, late) ==
  LET time == IF st.timed /\ ~late THEN {}
              ELSE {<<"time_ns", I64>>} \cup add_sensor_tags(par) \cup add_channel_sensor_tags(par)
  IN  IF n = -1 THEN Nothing(st, w, room, Error)
      ELSE IF n = 0 THEN Nothing([st EXCEPT !.timeouts = IF room[1] = 0 THEN @ ELSE @ - 1], w, room, Again)
      ELSE Did([st EXCEPT !.tags = {}, !.timed = TRUE, !.pos = @ + n], <<>>,
               <<[k \in 1..n |-> st.pos + k]>>, <<{1} \X (st.tags \cup time)>>, Again)
=============================================================================
