--------------------------- MODULE NCStreamProofs ---------------------------
(***************************************************************************)
(* The two ends of a packet stream, proved for any capacity and packets of *)
(* any size.                                                               *)
(***************************************************************************)
EXTENDS NCStream, FiniteSetTheorems, SequenceTheorems, TLAPS

\* A block that checks knows a lower bound of the room: the reading block only
\* makes more of it.
RoomIsThere == checks /\ room # Unknown => Len(queue) + room <= Capacity

\* What was peeked at and not yet popped is still in front.
PeekedInFront == peeked # Unknown /\ popped = Unknown => queue # <<>> /\ Head(queue) = peeked

IInv == TypeOK /\ RoomIsThere /\ PeekedInFront /\ PoppedIsPeeked

\* Only wait() is used, which reads the count under the lock.
OnlyWait == ReadWaits = {"wait"}

\* While the count is read nothing can be pushed, and then nobody is left to.
WInv == /\ IInv
        /\ call.op \in {"count", "never"} => "reader" \in open /\ Len(queue) < call.need
        /\ call.op = "wait" => "reader" \in open
        /\ call.op = "count" <=> lock = "reader"
        /\ call.op = "never" => "writer" \notin open
        /\ call.op # "wait_async"

-----------------------------------------------------------------------------

\* A reference count of 1 seen by the reading block is its own.
LEMMA CountOfOne ==
  ASSUME open \subseteq {"reader", "writer"}, "reader" \in open, refcount = 1
  PROVE  "writer" \notin open
<1>1. SUFFICES ASSUME "writer" \in open PROVE FALSE
  OBVIOUS
<1>2. open = {"reader"} \cup {"writer"} /\ "writer" \notin {"reader"}
  BY <1>1
<1>3. IsFiniteSet({"reader"}) /\ Cardinality({"reader"}) = 1
  BY FS_Singleton
<1>4. Cardinality(open) = 2
  BY <1>2, <1>3, FS_AddElement
<1>5. QED  BY <1>4 DEF refcount

\* Taking the front packet leaves one packet less.
LEMMA Popped ==
  ASSUME NEW q \in Seq(Sizes), q # <<>>
  PROVE  /\ Head(q) \in Sizes /\ Tail(q) \in Seq(Sizes)
         /\ Len(Tail(q)) = Len(q) - 1
  BY HeadTailProperties

\* A packet that is pushed does not change which one is in front.
LEMMA Pushed ==
  ASSUME NEW q \in Seq(Sizes), NEW size \in Sizes
  PROVE  /\ Append(q, size) \in Seq(Sizes) /\ Len(Append(q, size)) = Len(q) + 1
         /\ Append(q, size) # <<>>
         /\ q # <<>> => Head(Append(q, size)) = Head(q)
  BY AppendProperties

-----------------------------------------------------------------------------

LEMMA InitInv == Init => IInv
  BY NCStreamAssumption
  DEF Init, IInv, TypeOK, RoomIsThere, PeekedInFront, PoppedIsPeeked, Unknown, Idle, Calls

LEMMA NextInv == IInv /\ [Next]_vars => IInv'
<1> SUFFICES ASSUME IInv, [Next]_vars PROVE IInv'
  OBVIOUS
<1> USE NCStreamAssumption
        DEF IInv, TypeOK, RoomIsThere, PeekedInFront, PoppedIsPeeked, Unknown, Idle, Calls, In
<1>1. CASE CallRemaining
  <2>1. Len(queue) \in Nat
    BY LenProperties
  <2>2. QED  BY <1>1, <2>1 DEF CallRemaining, Remaining
<1>2. ASSUME NEW size \in Sizes, Push(size) PROVE IInv'
  BY <1>2, Pushed, LenProperties DEF Push
<1>3. CASE DropWriter
  BY <1>3 DEF DropWriter
<1>4. CASE PeekSize
  BY <1>4, Popped DEF PeekSize
<1>5. CASE Pop
  BY <1>5, Popped, LenProperties DEF Pop
<1>6. ASSUME NEW op \in ReadWaits, NEW need \in 1..Capacity, Wait(op, need) PROVE IInv'
  BY <1>6 DEF Wait
<1>7. CASE CallStep
  <2>1. CASE Woken
    BY <2>1 DEF Woken
  <2>2. CASE TimedOut
    BY <2>2 DEF TimedOut
  <2>3. CASE Counted
    BY <2>3 DEF Counted
  <2>4. QED  BY <1>7, <2>1, <2>2, <2>3 DEF CallStep
<1>8. CASE Eof
  BY <1>8 DEF Eof
<1>9. CASE EofCount
  BY <1>9 DEF EofCount
<1>10. CASE DropReader
  BY <1>10 DEF DropReader
<1>11. CASE UNCHANGED vars
  BY <1>11 DEF vars
<1>12. QED
  BY <1>1, <1>2, <1>3, <1>4, <1>5, <1>6, <1>7, <1>8, <1>9, <1>10, <1>11 DEF Next

-----------------------------------------------------------------------------

LEMMA InitWait == Init => WInv
  BY InitInv DEF Init, WInv, Idle

LEMMA NextWait == OnlyWait /\ WInv /\ [Next]_vars => WInv'
<1> SUFFICES ASSUME OnlyWait, WInv, [Next]_vars PROVE WInv'
  OBVIOUS
<1>1. IInv /\ IInv' /\ TypeOK /\ Len(queue) \in Nat /\ queue \in Seq(Sizes)
  BY NextInv, LenProperties DEF WInv, IInv, TypeOK
<1> USE NCStreamAssumption DEF WInv, Idle, In, OnlyWait, Reading, Writing
<1>2. CASE CallRemaining
  BY <1>1, <1>2 DEF CallRemaining
<1>3. ASSUME NEW size \in Sizes, Push(size) PROVE WInv'
  BY <1>1, <1>3 DEF Push
<1>4. CASE DropWriter
  BY <1>1, <1>4 DEF DropWriter
<1>5. CASE PeekSize
  BY <1>1, <1>5 DEF PeekSize
<1>6. CASE Pop
  BY <1>1, <1>6 DEF Pop
<1>7. ASSUME NEW op \in ReadWaits, NEW need \in 1..Capacity, Wait(op, need) PROVE WInv'
  BY <1>1, <1>7 DEF Wait
<1>8. CASE CallStep
  <2>1. CASE Woken
    BY <1>1, <2>1 DEF Woken
  <2>2. CASE TimedOut
    BY <1>1, <2>2 DEF TimedOut
  <2>3. CASE Counted
    <3>1. refcount = 1 => "writer" \notin open
      BY <1>1, <2>3, CountOfOne DEF Counted, TypeOK
    <3>2. QED  BY <1>1, <2>3, <3>1 DEF Counted
  <2>4. QED  BY <1>8, <2>1, <2>2, <2>3 DEF CallStep
<1>9. CASE Eof
  BY <1>1, <1>9 DEF Eof
<1>10. CASE EofCount
  BY <1>1, <1>10 DEF EofCount
<1>11. CASE DropReader
  BY <1>1, <1>11 DEF DropReader
<1>12. CASE UNCHANGED vars
  BY <1>1, <1>12 DEF vars
<1>13. QED
  BY <1>2, <1>3, <1>4, <1>5, <1>6, <1>7, <1>8, <1>9, <1>10, <1>11, <1>12 DEF Next

-----------------------------------------------------------------------------

\* The inductive invariant: types, the room a block was told of, the packet that
\* was peeked at.
THEOREM Invariance == Spec => []IInv
  BY InitInv, NextInv, PTL DEF Spec

\* A block that calls remaining() before every push() never fills the queue
\* beyond its capacity, and the subtraction in remaining() does not underflow.
THEOREM Typing == Spec => []TypeOK
  BY Invariance, PTL DEF IInv

\* peek_size() and pop() lock the queue twice and still mean the same packet.
THEOREM PeekThenPop == Spec => []PoppedIsPeeked
  BY Invariance, PTL DEF IInv

\* If the reading block waits with wait(), which keeps the lock over the count,
\* the answer true means that there will never be enough packets.
THEOREM NeverIsNever == ASSUME OnlyWait PROVE Spec => []NeverMeansNever
<1>1. WInv /\ [Next]_vars => WInv'
  BY NextWait, OnlyWait
<1>2. WInv => NeverMeansNever
  BY DEF WInv, NeverMeansNever
<1>3. QED  BY InitWait, <1>1, <1>2, PTL DEF Spec
=============================================================================
