--------------------------- MODULE BarrierProofs ---------------------------
(***************************************************************************)
(* Barriers keep the frames of several lines apart, for any number of      *)
(* lines, any events, any size of the queues and any length of the frames. *)
(***************************************************************************)
EXTENDS Barrier, SequenceTheorems, TLAPS

\* The beginning of a frame that insert_queue() keeps is a sequence of events
\* no longer than the queue.
LEMMA DeliveredType ==
  ASSUME NEW s \in Seq(Event)
  PROVE  /\ Abstract!Delivered(s) \in Seq(Event)
         /\ Len(Abstract!Delivered(s)) <= QueueSize
<1>1. QueueSize \in Nat /\ Len(s) \in Nat
  BY BarrierAssumption
<1>2. CASE Len(s) <= QueueSize
  BY <1>1, <1>2 DEF Abstract!Delivered
<1>3. CASE ~(Len(s) <= QueueSize)
  <2>1. /\ SubSeq(s, 1, QueueSize) \in Seq(Event)
        /\ Len(SubSeq(s, 1, QueueSize)) = QueueSize
    BY <1>1, <1>3
  <2>2. Abstract!Delivered(s) = SubSeq(s, 1, QueueSize)
    BY <1>3 DEF Abstract!Delivered
  <2>3. QED
    BY <1>1, <2>1, <2>2
<1>4. QED
  BY <1>2, <1>3

\* insert_queue() applied to the beginning of a frame gives the beginning of
\* the longer frame.
LEMMA DeliveredAppend ==
  ASSUME NEW s \in Seq(Event), NEW e \in Event
  PROVE  Abstract!Delivered(Append(s, e)) = InsertQueue(Abstract!Delivered(s), e)
<1>1. QueueSize \in Nat /\ Len(s) \in Nat /\ Len(Append(s, e)) = Len(s) + 1
  BY BarrierAssumption
<1>2. CASE Len(s) < QueueSize
  <2>1. Abstract!Delivered(s) = s
    BY <1>1, <1>2 DEF Abstract!Delivered
  <2>2. Abstract!Delivered(Append(s, e)) = Append(s, e)
    <3>1. Len(s) + 1 <= QueueSize
      BY <1>1, <1>2
    <3>2. QED
      BY <1>1, <3>1 DEF Abstract!Delivered
  <2>3. InsertQueue(s, e) = Append(s, e)
    <3>1. ~(Len(s) >= QueueSize)
      BY <1>1, <1>2
    <3>2. QED
      BY <3>1 DEF InsertQueue
  <2>4. QED
    BY <2>1, <2>2, <2>3
<1>3. CASE Len(s) >= QueueSize
  <2>1. Abstract!Delivered(s) = SubSeq(s, 1, QueueSize)
    <3>1. CASE Len(s) = QueueSize
      <4>1. SubSeq(s, 1, QueueSize) = s
        BY <1>1, <3>1
      <4>2. QED
        BY <1>1, <3>1, <4>1 DEF Abstract!Delivered
    <3>2. CASE Len(s) # QueueSize
      <4>1. ~(Len(s) <= QueueSize)
        BY <1>1, <1>3, <3>2
      <4>2. QED
        BY <4>1 DEF Abstract!Delivered
    <3>3. QED
      BY <3>1, <3>2
  <2>2. Abstract!Delivered(Append(s, e)) = SubSeq(Append(s, e), 1, QueueSize)
    <3>1. ~(Len(Append(s, e)) <= QueueSize)
      BY <1>1, <1>3
    <3>2. QED
      BY <3>1 DEF Abstract!Delivered
  <2>3. SubSeq(Append(s, e), 1, QueueSize) = SubSeq(s, 1, QueueSize)
    BY <1>1, <1>3
  <2>4. Len(SubSeq(s, 1, QueueSize)) = QueueSize
    BY <1>1, <1>3
  <2>5. InsertQueue(SubSeq(s, 1, QueueSize), e) = SubSeq(s, 1, QueueSize)
    <3>1. Len(SubSeq(s, 1, QueueSize)) >= QueueSize
      BY <1>1, <2>4
    <3>2. QED
      BY <3>1 DEF InsertQueue
  <2>6. QED
    BY <2>1, <2>2, <2>3, <2>5
<1>4. QED
  BY <1>1, <1>2, <1>3

\* One turn of the loop of flush_queue() passes on one more event.
LEMMA SubSeqNext ==
  ASSUME NEW q \in Seq(Event), NEW n \in Nat, n < Len(q)
  PROVE  /\ SubSeq(q, 1, n + 1) = Append(SubSeq(q, 1, n), q[n + 1])
         /\ q[n + 1] \in Event
<1>1. q[n + 1] \in Event
  OBVIOUS
<1>2. SubSeq(q, 1, n + 1) = Append(SubSeq(q, 1, n), q[n + 1])
  OBVIOUS
<1>3. QED
  BY <1>1, <1>2

\* An empty frame is delivered whole.
LEMMA DeliveredEmpty == Abstract!Delivered(<< >>) = << >>
<1>1. Len(<< >>) <= QueueSize
  BY BarrierAssumption
<1>2. QED
  BY <1>1 DEF Abstract!Delivered

-----------------------------------------------------------------------------
\* The initial state satisfies the inductive invariant.
LEMMA InitIInv == Init => IInv
<1> SUFFICES ASSUME Init PROVE IInv
  OBVIOUS
<1>1. TypeOK
  <2>1. QueueSize \in Nat /\ << >> \in Seq(Event) /\ Len(<< >>) = 0
    BY BarrierAssumption
  <2>2. \A l \in Line : queue[l] = << >>
    BY DEF Init
  <2>3. ASSUME NEW l \in Line PROVE Len(queue[l]) <= QueueSize
    <3>1. queue[l] = << >>
      BY <2>2
    <3>2. 0 <= QueueSize
      BY <2>1
    <3>3. QED
      BY <2>1, <3>1, <3>2
  <2>4. QED
    BY <2>1, <2>3 DEF Init, TypeOK
<1>2. HoldsFrame
  BY DeliveredEmpty DEF Init, HoldsFrame
<1>3. ConsumerInOrder
  BY DEF Init, ConsumerInOrder
<1>4. QED
  BY <1>1, <1>2, <1>3 DEF IInv

\* What insert_queue() returns is again the beginning of the device's frame.
LEMMA ProcessIInv ==
  ASSUME IInv, NEW l \in Line, NEW e \in Event, Process(l, e)
  PROVE  IInv'
<1> USE DEF IInv
<1>1. sent[l] \in Seq(Event) /\ Append(sent[l], e) \in Seq(Event)
  BY DEF TypeOK
<1>2. sent' \in [Line -> Seq(Event)]
  BY <1>1 DEF Process, TypeOK
<1>3. ASSUME NEW k \in Line
      PROVE  queue'[k] = Abstract!Delivered(sent'[k])
  <2>1. CASE k = l
    <3>1. sent'[l] = Append(sent[l], e) /\ queue'[l] = InsertQueue(queue[l], e)
      BY DEF Process, TypeOK
    <3>2. queue[l] = Abstract!Delivered(sent[l])
      BY DEF HoldsFrame
    <3>3. QED
      BY <1>1, <2>1, <3>1, <3>2, DeliveredAppend
  <2>2. CASE k # l
    <3>1. sent'[k] = sent[k] /\ queue'[k] = queue[k]
      BY <2>2 DEF Process, TypeOK
    <3>2. QED
      BY <3>1 DEF HoldsFrame
  <2>3. QED
    BY <2>1, <2>2
<1>4. HoldsFrame'
  BY <1>3 DEF HoldsFrame
<1>5. ASSUME NEW k \in Line
      PROVE  queue'[k] \in Seq(Event) /\ Len(queue'[k]) <= QueueSize
  <2>1. sent'[k] \in Seq(Event)
    BY <1>2
  <2>2. QED
    BY <1>3, <2>1, DeliveredType
<1>6. queue' \in [Line -> Seq(Event)]
  <2>1. queue' = [queue EXCEPT ![l] = InsertQueue(@, e)] /\ queue \in [Line -> Seq(Event)]
    BY DEF Process, TypeOK
  <2>2. DOMAIN queue' = Line /\ queue' = [k \in Line |-> queue'[k]]
    BY <2>1
  <2>3. QED
    BY <1>5, <2>2
<1>7. TypeOK'
  BY <1>2, <1>5, <1>6 DEF Process, TypeOK
<1>8. ConsumerInOrder'
  BY DEF Process, ConsumerInOrder
<1>9. QED
  BY <1>4, <1>7, <1>8

\* A SYN_REPORT starts to flush with nothing passed on yet.
LEMMA SyncIInv ==
  ASSUME IInv, NEW l \in Line, Sync(l)
  PROVE  IInv'
<1> USE DEF IInv, Sync
<1>1. TypeOK'
  BY DEF TypeOK
<1>2. HoldsFrame'
  BY DEF HoldsFrame
<1>3. ConsumerInOrder'
  <2>1. out = << >> /\ 0 <= Len(queue[l]) /\ SubSeq(queue[l], 1, 0) = << >>
    <3>1. queue[l] \in Seq(Event)
      BY DEF TypeOK
    <3>2. QED
      BY <3>1 DEF ConsumerInOrder
  <2>2. QED
    BY <2>1 DEF ConsumerInOrder
<1>4. QED
  BY <1>1, <1>2, <1>3

\* One turn of the loop passes on the next event of the queue that is flushed.
LEMMA FlushQueueIInv ==
  ASSUME IInv, NEW l \in Line, FlushQueue(l)
  PROVE  IInv'
<1> USE DEF IInv
<1>1. flushing = {l} /\ queue[l] \in Seq(Event) /\ i \in Nat /\ i < Len(queue[l])
  BY DEF TypeOK, FlushQueue
<1>2. out = SubSeq(queue[l], 1, i)
  BY <1>1 DEF ConsumerInOrder
<1>3. /\ SubSeq(queue[l], 1, i + 1) = Append(out, queue[l][i + 1])
      /\ queue[l][i + 1] \in Event
  BY <1>1, <1>2, SubSeqNext
<1>4. TypeOK'
  BY <1>1, <1>3 DEF TypeOK, FlushQueue
<1>5. HoldsFrame'
  BY DEF HoldsFrame, FlushQueue
<1>6. ConsumerInOrder'
  <2>1. i' <= Len(queue'[l]) /\ out' = SubSeq(queue'[l], 1, i')
    <3>1. i' = i + 1 /\ queue' = queue /\ out' = Append(out, queue[l][i + 1])
      BY DEF FlushQueue
    <3>2. i + 1 <= Len(queue[l])
      BY <1>1
    <3>3. QED
      BY <1>3, <3>1, <3>2
  <2>2. flushing' = {l}
    BY <1>1 DEF FlushQueue
  <2>3. QED
    BY <2>1, <2>2 DEF ConsumerInOrder
<1>7. QED
  BY <1>4, <1>5, <1>6

\* Emptying the queue of a line together with its frame keeps them in step.
LEMMA EmptiedHolds ==
  ASSUME TypeOK, HoldsFrame, NEW l \in Line,
         queue' = [queue EXCEPT ![l] = << >>], sent' = [sent EXCEPT ![l] = << >>]
  PROVE  /\ queue' \in [Line -> Seq(Event)]
         /\ \A k \in Line : Len(queue'[k]) <= QueueSize
         /\ sent' \in [Line -> Seq(Event)]
         /\ HoldsFrame'
<1>1. QueueSize \in Nat /\ << >> \in Seq(Event) /\ Len(<< >>) = 0
  BY BarrierAssumption
<1>2. queue' \in [Line -> Seq(Event)] /\ sent' \in [Line -> Seq(Event)]
  BY <1>1 DEF TypeOK
<1>3. ASSUME NEW k \in Line
      PROVE  Len(queue'[k]) <= QueueSize /\ queue'[k] = Abstract!Delivered(sent'[k])
  <2>1. CASE k = l
    <3>1. queue'[k] = << >> /\ sent'[k] = << >>
      BY <2>1 DEF TypeOK
    <3>2. QED
      BY <1>1, <3>1, DeliveredEmpty
  <2>2. CASE k # l
    <3>1. queue'[k] = queue[k] /\ sent'[k] = sent[k]
      BY <2>2 DEF TypeOK
    <3>2. QED
      BY <3>1 DEF TypeOK, HoldsFrame
  <2>3. QED
    BY <2>1, <2>2
<1>4. QED
  BY <1>2, <1>3 DEF HoldsFrame

\* The end of flush_queue() empties the queue and ends the consumer's frame.
LEMMA FlushEndIInv ==
  ASSUME IInv, NEW l \in Line, FlushEnd(l)
  PROVE  IInv'
<1> USE DEF IInv, FlushEnd
<1>1. /\ queue' \in [Line -> Seq(Event)]
      /\ \A k \in Line : Len(queue'[k]) <= QueueSize
      /\ sent' \in [Line -> Seq(Event)]
      /\ HoldsFrame'
  BY EmptiedHolds
<1>2. frame' \in [line : Line, events : Seq(Event)]
  BY DEF TypeOK
<1>3. out' \in Seq(Event)
  OBVIOUS
<1>4. TypeOK'
  BY <1>1, <1>2, <1>3 DEF TypeOK
<1>5. ConsumerInOrder'
  BY DEF ConsumerInOrder
<1>6. QED
  BY <1>1, <1>4, <1>5

\* A line that is destroyed takes its queue and its frame with it.
LEMMA RecreateIInv ==
  ASSUME IInv, NEW l \in Line, Recreate(l)
  PROVE  IInv'
<1> USE DEF IInv, Recreate
<1>1. /\ queue' \in [Line -> Seq(Event)]
      /\ \A k \in Line : Len(queue'[k]) <= QueueSize
      /\ sent' \in [Line -> Seq(Event)]
      /\ HoldsFrame'
  BY EmptiedHolds
<1>2. TypeOK'
  BY <1>1 DEF TypeOK
<1>3. ConsumerInOrder'
  BY DEF ConsumerInOrder
<1>4. QED
  BY <1>1, <1>2, <1>3

\* Every step keeps the inductive invariant.
LEMMA NextIInv == IInv /\ [Next]_vars => IInv'
<1> SUFFICES ASSUME IInv, [Next]_vars PROVE IInv'
  OBVIOUS
<1>1. CASE Next
  <2>1. PICK l \in Line :
            \/ \E e \in Event : Process(l, e)
            \/ Sync(l) \/ FlushQueue(l) \/ FlushEnd(l)
            \/ Recreate(l)
    BY <1>1 DEF Next
  <2>2. QED
    BY <2>1, ProcessIInv, SyncIInv, FlushQueueIInv, FlushEndIInv, RecreateIInv
<1>2. CASE UNCHANGED vars
  BY <1>2 DEF IInv, TypeOK, HoldsFrame, ConsumerInOrder, vars
<1>3. QED
  BY <1>1, <1>2

\* The inductive invariant holds in every reachable state.
LEMMA Invariant == Spec => []IInv
<1>1. QED
  BY InitIInv, NextIInv, PTL DEF Spec

-----------------------------------------------------------------------------
\* No write of insert_queue() is past the end of the queue that was allocated,
\* whatever its size, 0 included, and however long a frame is.
THEOREM QueueBounded == Spec => []TypeOK
<1>1. IInv => TypeOK
  BY DEF IInv
<1>2. QED
  BY <1>1, Invariant, PTL

\* A barrier holds the beginning of its device's current frame and nothing
\* else (insert_queue(), flush_queue()).
THEOREM HoldsCurrentFrame == Spec => []HoldsFrame
<1>1. IInv => HoldsFrame
  BY DEF IInv
<1>2. QED
  BY <1>1, Invariant, PTL

\* The consumer never holds events of two lines at once, and gets those of one
\* in the order of its device (flush_queue()).
THEOREM LinesDoNotMix == Spec => []ConsumerInOrder
<1>1. IInv => ConsumerInOrder
  BY DEF IInv
<1>2. QED
  BY <1>1, Invariant, PTL

\* Every step of the barriers is a step of the sources and the consumer of
\* whole frames, or none that these see.
LEMMA StepMaps == IInv /\ [Next]_vars => [Abstract!Next]_(Abstract!vars)
<1> SUFFICES ASSUME IInv, [Next]_vars PROVE [Abstract!Next]_(Abstract!vars)
  OBVIOUS
<1> USE DEF Abstract!Next, Abstract!vars
<1>1. ASSUME NEW l \in Line, NEW e \in Event, Process(l, e)
      PROVE  Abstract!Next
  BY <1>1 DEF Process, Abstract!Send
<1>2. ASSUME NEW l \in Line, Sync(l) \/ FlushQueue(l)
      PROVE  UNCHANGED Abstract!vars
  BY <1>2 DEF Sync, FlushQueue
<1>3. ASSUME NEW l \in Line, FlushEnd(l)
      PROVE  Abstract!Next
  <2>1. queue[l] \in Seq(Event) /\ i = Len(queue[l]) /\ out = SubSeq(queue[l], 1, i)
    BY <1>3 DEF IInv, TypeOK, ConsumerInOrder, FlushEnd
  <2>2. out = queue[l]
    BY <2>1
  <2>3. frame' = [line |-> l, events |-> Abstract!Delivered(sent[l])]
    BY <1>3, <2>2 DEF IInv, HoldsFrame, FlushEnd
  <2>4. QED
    BY <1>3, <2>3 DEF FlushEnd, Abstract!Deliver
<1>4. ASSUME NEW l \in Line, Recreate(l)
      PROVE  Abstract!Next
  BY <1>4 DEF Recreate, Abstract!Vanish
<1>5. CASE UNCHANGED vars
  BY <1>5 DEF vars
<1>6. QED
  BY <1>1, <1>2, <1>3, <1>4, <1>5 DEF Next

\* Lines behind barriers implement the consumer of whole frames, each of one
\* source (src/docs/filters.txt:5-7).
THEOREM BarriersMerge == Spec => ImplementsFrameMerge
<1>1. Init => Abstract!Init
  BY DEF Init, Abstract!Init
<1>2. QED
  BY <1>1, Invariant, StepMaps, PTL DEF Spec, ImplementsFrameMerge, Abstract!Spec
=============================================================================
