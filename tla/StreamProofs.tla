---------------------------- MODULE StreamProofs ----------------------------
(***************************************************************************)
(* What the two ends of a sample stream learn about each other, proved for *)
(* a buffer of any capacity, whatever calls the blocks wait with.          *)
(***************************************************************************)
EXTENDS Stream, FiniteSetTheorems, TLAPS

\* Only the block of an end that was not dropped is in a call or has a window.
Held == \A e \in Ends : call[e].op # "idle" \/ window[e] # NoWindow => e \in open

\* From the moment eof() has seen the count the writer cannot come back.
EofAlone == call["reader"].op \in {"eof_empty", "eof"} => "writer" \notin open

IInv == TypeOK /\ Held /\ EofAlone /\ NeverMeansClosed /\ EofMeansEmpty

-----------------------------------------------------------------------------

\* The two ends are each other's other.
LEMMA Others == /\ other("reader") = "writer" /\ other("writer") = "reader"
                /\ \A e \in Ends : other(e) \in Ends /\ other(e) # e
  BY DEF other, Ends

\* A reference count of 1 seen by an end that is open is its own: the other end
\* was dropped, and no window is alive.
LEMMA CountOfOne ==
  ASSUME TypeOK, NEW e \in open, refcount = 1
  PROVE  other(e) \notin open
<1> DEFINE W == {x \in Ends : window[x] # NoWindow}
<1>1. IsFiniteSet(Ends) /\ Cardinality(Ends) = 2
  <2>1. Ends = {"reader", "writer"} /\ "reader" # "writer"
    BY DEF Ends
  <2>2. IsFiniteSet({"reader"}) /\ Cardinality({"reader"}) = 1
    BY FS_Singleton
  <2>3. Ends = {"reader"} \cup {"writer"} /\ "writer" \notin {"reader"}
    BY <2>1
  <2>4. QED  BY <2>2, <2>3, FS_AddElement
<1>2. Cardinality(W) \in Nat
  BY <1>1, FS_Subset, FS_CardinalityType
<1>3. SUFFICES ASSUME other(e) \in open PROVE FALSE
  OBVIOUS
<1>4. open = Ends
  BY <1>3, Others DEF TypeOK, Ends
<1>5. Cardinality(open) = 2
  BY <1>1, <1>4
<1>6. refcount = 2 + Cardinality(W)
  BY <1>5 DEF refcount
<1> HIDE DEF W
<1>7. QED  BY <1>2, <1>6

-----------------------------------------------------------------------------

LEMMA InitInv == Init => IInv
  BY StreamAssumption, Others
  DEF Init, IInv, TypeOK, Held, EofAlone, NeverMeansClosed, EofMeansEmpty, Idle, NoWindow, Calls, Ends, have

LEMMA NextInv == IInv /\ [Next]_vars => IInv'
<1> SUFFICES ASSUME IInv, [Next]_vars PROVE IInv'
  OBVIOUS
<1> USE StreamAssumption, Others
        DEF IInv, TypeOK, Held, EofAlone, NeverMeansClosed, EofMeansEmpty, Calls, Ends, have, Idle, In, NoWindow
<1>1. ASSUME NEW n \in 1..Cap, Produce(n) PROVE IInv'
  BY <1>1 DEF Produce
<1>2. ASSUME NEW n \in 0..Cap, Consume(n) PROVE IInv'
  BY <1>2 DEF Consume
<1>3. CASE Eof
  <2>1. "writer" \notin open
    BY <1>3, CountOfOne DEF Eof, Ready
  <2>2. QED  BY <1>3, <2>1 DEF Eof, Ready
<1>4. CASE EofEmpty
  BY <1>4 DEF EofEmpty
<1>5. ASSUME NEW e \in Ends, TakeWindow(e) PROVE IInv'
  BY <1>5 DEF TakeWindow, Ready
<1>6. ASSUME NEW e \in Ends, DropWindow(e) PROVE IInv'
  BY <1>6 DEF DropWindow
<1>7. ASSUME NEW e \in Ends, NEW op \in {"wait", "wait_async"}, NEW need \in 1..Cap,
             Wait(e, op, need)
      PROVE  IInv'
  BY <1>7 DEF Wait, Ready
<1>8. ASSUME NEW e \in Ends, CallStep(e) PROVE IInv'
  <2>1. CASE Woken(e)
    BY <2>1 DEF Woken
  <2>2. CASE TimedOut(e)
    BY <2>2 DEF TimedOut
  <2>3. CASE Notified(e)
    BY <2>3 DEF Notified
  <2>4. CASE Slept(e)
    <3>1. notified' \in [Ends -> BOOLEAN]
      BY <2>4 DEF Slept
    <3>2. /\ call[e].op = "wait_async" /\ call' = [call EXCEPT ![e].op = "count"]
          /\ UNCHANGED <<used, open, window>>
      BY <2>4 DEF Slept
    <3>3. QED  BY <3>1, <3>2, SMTT(30)
  <2>5. CASE Counted(e)
    <3>1. refcount = 1 => other(e) \notin open
      BY <2>5, CountOfOne DEF Counted
    <3>2. QED  BY <2>5, <3>1 DEF Counted
  <2>6. QED  BY <1>8, <2>1, <2>2, <2>3, <2>4, <2>5 DEF CallStep
<1>9. ASSUME NEW e \in Ends, Close(e) PROVE IInv'
  BY <1>9 DEF Close
<1>10. CASE UNCHANGED vars
  BY <1>10 DEF vars
<1>11. QED
  BY <1>1, <1>2, <1>3, <1>4, <1>5, <1>6, <1>7, <1>8, <1>9, <1>10 DEF Next

-----------------------------------------------------------------------------

\* The inductive invariant: types, who may be in a call, and what the answers
\* that the calls have given so far rest on.
THEOREM Invariance == Spec => []IInv
  BY InitInv, NextInv, PTL DEF Spec

\* Samples fit the buffer and windows what is in it, in whatever order the two
\* blocks take windows, commit and wait.
THEOREM Typing == Spec => []TypeOK
  BY Invariance, PTL DEF IInv

\* ReadStream::eof() reads the count before the buffer: when it answers true
\* nothing is left and nothing can come.
THEOREM NothingAfterEof == Spec => []EofMeansEmpty
  BY Invariance, PTL DEF IInv

\* wait() answers true only when the other end was dropped.
THEOREM NeverIsClosed == Spec => []NeverMeansClosed
  BY Invariance, PTL DEF IInv
=============================================================================
