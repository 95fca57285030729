------------------------- MODULE BlockPipelineProofs -------------------------
(***************************************************************************)
(* The block pipeline hands the block sync loop what it parsed, parses in  *)
(* height order, and reads ahead no further than its channels allow, for   *)
(* every window, channel capacity and set of faults.                       *)
(***************************************************************************)
EXTENDS BlockPipeline, SumLemmas, TLAPS

IInv == StageType /\ OrderInv

\* Every call starts in order.
LEMMA InitOrder == Init => IInv
<1>. SUFFICES ASSUME Init PROVE IInv
  OBVIOUS
<1>1. StageType
  BY WindowAssumption DEF Init, StageType, Window, ConsumerSteps
<1>2. OrderInv
  BY WindowAssumption DEF Init, OrderInv, Drained
<1>. QED
  BY <1>1, <1>2 DEF IInv

\* The producer and a signal touch neither the consumer nor the caller.
LEMMA ProducerStep ==
    ASSUME IInv, Produce \/ Signal PROVE IInv'
<1>. USE WindowAssumption DEF IInv
<1>1. StageType'
  <2>1. CASE FetchEnds \/ Fetch \/ CloseReady \/ Signal
    BY <2>1 DEF FetchEnds, Fetch, CloseReady, Signal, Budget, StageType,
                producer, consumer, end
  <2>2. CASE FetchShort \/ Send
    <3>1. height \in Window /\ height + 1 \in Start .. End
      BY <2>2 DEF FetchShort, Send, StageType, OrderInv, Window
    <3>2. CASE FetchShort
      BY <3>1, <3>2 DEF FetchShort, Budget, StageType, consumer, end
    <3>3. CASE Send
      <4>1. blocksDone' \in 0 .. Cap
        BY <3>3 DEF Send, StageType
      <4>. QED
        BY <3>1, <3>3, <4>1 DEF Send, StageType, consumer, end
    <3>. QED
      BY <2>2, <3>2, <3>3
  <2>. QED
    BY <2>1, <2>2 DEF Produce
<1>2. OrderInv'
  BY Zenon DEF StageType, OrderInv, Drained, Produce, FetchEnds, Fetch, FetchShort, Send,
         CloseReady, Signal, Budget, Window, producer, consumer, end
<1>. QED
  BY <1>1, <1>2

\* Nor do the decoders and the goroutines that end a block.
LEMMA DecoderStep ==
    ASSUME IInv, NEW h \in Window, Decoded(h) \/ Ended(h) PROVE IInv'
<1>. USE WindowAssumption DEF IInv
<1>1. StageType'
  <2>1. CASE Decoded(h)
    <3>1. Append(blocksReady, h) \in Seq(Window) /\ decoding \ {h} \subseteq Window
      BY DEF StageType
    <3>2. /\ blocksReady' \in Seq(Window) /\ decoding' \subseteq Window
          /\ caller' \in {"range", "limit", "wait", "returned", "dead"}
          /\ faults' \in Nat
      <4>1. CASE /\ blocksReady' = Append(blocksReady, h) /\ decoding' = decoding \ {h}
                 /\ UNCHANGED <<caller, faults>>
        BY <3>1, <4>1 DEF StageType
      <4>2. CASE /\ faults' = faults + 1 /\ caller' = "dead"
                 /\ UNCHANGED <<blocksReady, decoding>>
        BY <4>2 DEF StageType
      <4>. QED
        BY <2>1, <4>1, <4>2 DEF Decoded, Budget
    <3>3. UNCHANGED <<prod, height, skipped, blocksDone, cons, next, buffer,
                      artifacts, blocksStage, lastHeight, ending>>
      BY <2>1 DEF Decoded, producer, consumer
    <3>. QED
      BY <3>2, <3>3 DEF StageType
  <2>2. CASE Ended(h)
    BY <2>2 DEF Ended, StageType, producer, consumer
  <2>. QED
    BY <2>1, <2>2
<1>2. OrderInv'
  BY Zenon DEF StageType, OrderInv, Drained, Decoded, Ended, producer, consumer, end
<1>. QED
  BY <1>1, <1>2

\* The consumer, one step of the code at a time.
LEMMA ConsumerStep ==
    ASSUME IInv, Consume, caller # "dead" PROVE IInv'
<1>. USE WindowAssumption DEF IInv
<1>1. CASE Receive
  <2>1. Head(blocksReady) \in Window /\ Tail(blocksReady) \in Seq(Window)
    BY <1>1 DEF Receive, StageType
  <2>2. StageType'
    BY <1>1, <2>1 DEF Receive, StageType, ConsumerSteps, producer, end
  <2>3. OrderInv'
    BY <1>1, <2>1 DEF Receive, StageType, OrderInv, Drained, Window, producer, end
  <2>. QED
    BY <2>2, <2>3
<1>2. CASE ReceiveClosed \/ TakeSlot \/ SerialStart \/ FastBlock
  <2>1. StageType'
    BY <1>2 DEF ReceiveClosed, TakeSlot, SerialStart, FastBlock, Budget, StageType,
                ConsumerSteps, producer, end
  <2>2. OrderInv'
    BY <1>2, Zenon DEF ReceiveClosed, TakeSlot, SerialStart, FastBlock, StageType,
                OrderInv, Drained, producer, end
  <2>. QED
    BY <2>1, <2>2
<1>3. CASE Finalize
  <2>1. next \in Window
    BY <1>3 DEF Finalize, StageType, OrderInv, Window
  <2>2. StageType'
    BY <1>3, <2>1, Zenon DEF Finalize, StageType, ConsumerSteps, producer, end
  <2>3. OrderInv'
    <3>1. CASE needStop
      BY <1>3, <3>1 DEF Finalize, StageType, OrderInv, Drained, producer, end
    <3>2. CASE ~needStop
      <4>1. artifacts' = Start .. next
        <5>1. artifacts' = (Start .. next - 1) \cup {next}
          BY <1>3, <3>2 DEF Finalize, OrderInv
        <5>2. next \in Int /\ Start \in Int /\ Start <= next
          BY <2>1 DEF Window
        <5>3. (Start .. next - 1) \cup {next} = Start .. next
          BY <5>2
        <5>. QED
          BY <5>1, <5>3
      <4>2. /\ cons' = "stage" /\ next' = next /\ next < End
            /\ caller \notin {"wait", "returned"}
            /\ UNCHANGED <<blocksStage, lastHeight, caller, prod, height>>
        BY <1>3, <3>2 DEF Finalize, OrderInv, producer, end
      <4>. QED
        BY <4>1, <4>2 DEF OrderInv, Drained
    <3>. QED
      BY <3>1, <3>2
  <2>. QED
    BY <2>2, <2>3
<1>4. CASE Stage
  <2>1. next \in Window /\ next + 1 \in Start .. End
    BY <1>4 DEF Stage, StageType, OrderInv, Window
  <2>2. Onward(next + 1, buffer) \in {"closed", "slot", "recv"}
    BY DEF Onward
  <2>3. StageType'
    BY <1>4, <2>1, <2>2 DEF Stage, StageType, ConsumerSteps, producer, end
  <2>4. Onward(next + 1, buffer) = "slot" => next + 1 < End
    BY <2>1 DEF Onward
  <2>5. Drained' = Drained /\ Drained \in Nat
    BY <1>4 DEF Stage, Drained, StageType, Window, end
  <2>6. /\ Len(blocksStage') = Len(blocksStage) + 1
        /\ \A i \in 1 .. Len(blocksStage') : blocksStage'[i] = Drained + i
    <3>1. /\ blocksStage \in Seq(Window) /\ blocksStage' = Append(blocksStage, next)
          /\ Drained + Len(blocksStage) = next - 1 /\ next \in Nat
          /\ \A i \in 1 .. Len(blocksStage) : blocksStage[i] = Drained + i
      BY <1>4 DEF Stage, StageType, OrderInv
    <3>2. Len(blocksStage') = Len(blocksStage) + 1 /\ Len(blocksStage) \in Nat
      BY <3>1, <2>1
    <3>3. ASSUME NEW i \in 1 .. Len(blocksStage') PROVE blocksStage'[i] = Drained + i
      <4>1. CASE i \in 1 .. Len(blocksStage)
        BY <3>1, <2>1, <4>1
      <4>2. CASE i = Len(blocksStage) + 1
        BY <3>1, <2>1, <2>5, <3>2, <4>2
      <4>. QED
        BY <3>2, <4>1, <4>2
    <3>. QED
      BY <3>2, <3>3
  <2>7. OrderInv'
    BY <1>4, <2>1, <2>2, <2>4, <2>5, <2>6 DEF Stage, StageType, OrderInv, producer, end
  <2>. QED
    BY <2>3, <2>7
<1>. QED
  BY <1>1, <1>2, <1>3, <1>4 DEF Consume

\* The caller takes the oldest staged height.
LEMMA CallerStep ==
    ASSUME IInv, Drain PROVE IInv'
<1>. USE WindowAssumption DEF IInv
<1>1. CASE RangeStage
  <2>1. Head(blocksStage) \in Window /\ Tail(blocksStage) \in Seq(Window)
    BY <1>1 DEF RangeStage, StageType
  <2>2. Head(blocksStage) = Drained + 1 /\ Drained \in Nat
    <3>1. Drained \in Nat
      BY DEF StageType, Drained, Window
    <3>2. 1 \in 1 .. Len(blocksStage) /\ Head(blocksStage) = blocksStage[1]
      BY <1>1 DEF RangeStage, StageType
    <3>. QED
      BY <3>1, <3>2 DEF OrderInv
  <2>3. Drained' = Drained + 1
    BY <1>1, <2>1, <2>2 DEF RangeStage, Drained, Window
  <2>4. /\ Len(blocksStage') = Len(blocksStage) - 1
        /\ \A i \in 1 .. Len(blocksStage') : blocksStage'[i] = Drained' + i
    BY <1>1, <2>2, <2>3 DEF RangeStage, StageType, OrderInv
  <2>5. StageType'
    BY <1>1, <2>1 DEF RangeStage, StageType, producer, consumer
  <2>6. OrderInv'
    BY <1>1, <2>2, <2>3, <2>4 DEF RangeStage, StageType, OrderInv, producer, consumer
  <2>. QED
    BY <2>5, <2>6
<1>2. CASE Limit
  <2>1. lastHeight \in Window
    BY <1>2 DEF Limit, StageType, OrderInv
  <2>2. StageType'
    BY <1>2, <2>1 DEF Limit, StageType, producer, consumer
  <2>3. OrderInv'
    BY <1>2 DEF Limit, StageType, OrderInv, Drained, producer, consumer
  <2>. QED
    BY <2>2, <2>3
<1>3. CASE RangeClosed \/ Return
  <2>1. StageType'
    BY <1>3, SMTT(30) DEF RangeClosed, Return, StageType, producer, consumer
  <2>2. OrderInv'
    BY <1>3, SMTT(30) DEF RangeClosed, Return, StageType, OrderInv, Drained, producer, consumer
  <2>. QED
    BY <2>1, <2>2
<1>. QED
  BY <1>1, <1>2, <1>3 DEF Drain

\* OrderInv is inductive: no step of the producer, a decoder, the consumer or
\* the caller of ParseLongestChain breaks it.
THEOREM PipelineInvariance == Spec => []IInv
<1>1. IInv /\ [Next]_vars => IInv'
  <2>. SUFFICES ASSUME IInv, [Next]_vars PROVE IInv'
    OBVIOUS
  <2>1. CASE Next
    BY <2>1, ProducerStep, DecoderStep, ConsumerStep, CallerStep DEF Next
  <2>2. CASE UNCHANGED vars
    BY <2>2 DEF vars, producer, consumer, end, IInv, StageType, OrderInv, Drained
  <2>. QED
    BY <2>1, <2>2
<1>. QED
  BY <1>1, InitOrder, PTL DEF Spec

\* Heights, channels and goroutine states keep their types.
THEOREM PipelineTypeCorrect == Spec => []TypeOK
<1>. DEFINE Flag == needStop \in BOOLEAN
<1>1. Init => Flag
  BY Zenon DEF Init
<1>2. Flag /\ [Next]_vars => Flag'
  <2>1. Next => UNCHANGED needStop \/ needStop' = TRUE
    BY DEF Next, Produce, FetchEnds, Fetch, FetchShort, Send, CloseReady, Drain,
           RangeStage, Limit, RangeClosed, Return, Signal, Decoded, Ended, Consume,
           Receive, ReceiveClosed, TakeSlot, SerialStart, FastBlock, Finalize, Stage
  <2>. QED
    BY <2>1, Zenon DEF vars
<1>3. IInv /\ Flag => TypeOK
  BY DEF IInv, TypeOK
<1>. HIDE DEF Flag
<1>. QED
  BY <1>1, <1>2, <1>3, PipelineInvariance, PTL DEF Spec

\* What ParseLongestChain returns is the last height whose artifacts are
\* staged, and they are all there.
THEOREM ReturnsParsed == Spec => []ReturnsWhatWasParsed
<1>1. IInv => ReturnsWhatWasParsed
  <2>. SUFFICES ASSUME IInv, caller = "returned"
                PROVE  cons = "closed" /\ artifacts = Start .. Drained
    BY DEF ReturnsWhatWasParsed
  <2>1. cons = "closed" /\ blocksStage = <<>> /\ artifacts = Start .. next - 1
    BY DEF IInv, OrderInv
  <2>2. Drained \in Nat /\ Drained = next - 1
    BY <2>1, WindowAssumption DEF IInv, StageType, OrderInv, Drained, Window
  <2>. QED
    BY <2>1, <2>2
<1>. QED
  BY <1>1, PipelineInvariance, PTL

\* A set of heights of the window has a size.
LEMMA WindowSets ==
    ASSUME NEW S, S \subseteq Window
    PROVE  IsFiniteSet(S) /\ Cardinality(S) \in Nat
<1>1. IsFiniteSet(Window)
  BY FS_Interval, WindowAssumption DEF Window
<1>. QED
  BY <1>1, FS_Subset, FS_CardinalityType

\* A block moves from the decoders to the channel to the buffer with its slot;
\* Send takes a slot for it, TakeSlot gives it back, Stage leaves it behind.
LEMMA SlotStep ==
    ASSUME IInv, SlotInv, Next PROVE SlotInv'
<1>. DEFINE d == Cardinality(decoding)
            u == Cardinality(Unparsed)
<1>. USE WindowAssumption
<1>1. /\ IsFiniteSet(decoding) /\ d \in Nat
      /\ IsFiniteSet(Unparsed) /\ u \in Nat
      /\ blocksReady \in Seq(Window) /\ Len(blocksReady) \in Nat
      /\ blocksDone \in Nat /\ next \in Nat /\ buffer \subseteq Window
  BY WindowSets DEF IInv, StageType, Unparsed
<1>2. ReadAhead = d + Len(blocksReady) + u
  BY DEF ReadAhead
<1>3. CASE UNCHANGED <<decoding, blocksReady, blocksDone, cons, next, buffer>>
  BY <1>3 DEF SlotInv, ReadAhead, Unparsed
<1>4. CASE Send
  <2>1. Cardinality(decoding') <= d + 1 /\ Cardinality(decoding') \in Nat
    BY <1>1, <1>4, AddOne, Zenon DEF Send
  <2>2. ReadAhead' = Cardinality(decoding') + Len(blocksReady) + u
    BY <1>4 DEF Send, ReadAhead, Unparsed, consumer
  <2>. QED
    BY <1>1, <1>2, <1>4, <2>1, <2>2, SMTT(30) DEF Send, SlotInv, consumer
<1>5. ASSUME NEW h \in Window, Decoded(h), blocksReady' # blocksReady PROVE SlotInv'
  <2>1. /\ h \in decoding /\ decoding' = decoding \ {h}
        /\ blocksReady' = Append(blocksReady, h)
        /\ UNCHANGED <<blocksDone, cons, next, buffer>>
    BY <1>5 DEF Decoded, consumer
  <2>2. Cardinality(decoding') = d - 1
    BY <1>1, <2>1, RemoveOne, Zenon
  <2>3. Len(blocksReady') = Len(blocksReady) + 1
    BY <1>1, <2>1
  <2>4. ReadAhead' = ReadAhead
    BY <1>1, <1>2, <2>1, <2>2, <2>3 DEF ReadAhead, Unparsed
  <2>. QED
    BY <2>1, <2>4 DEF SlotInv
<1>6. CASE Receive
  <2>1. /\ Len(blocksReady') = Len(blocksReady) - 1
        /\ UNCHANGED <<decoding, blocksDone, next>>
    BY <1>1, <1>6 DEF Receive
  <2>2. Unparsed' \subseteq Unparsed \cup {Head(blocksReady)}
    BY <1>6 DEF Receive, Unparsed
  <2>3. Cardinality(Unparsed') <= u + 1 /\ Cardinality(Unparsed') \in Nat
    <3>1. /\ IsFiniteSet(Unparsed \cup {Head(blocksReady)})
          /\ Cardinality(Unparsed \cup {Head(blocksReady)}) \in Nat
          /\ Cardinality(Unparsed \cup {Head(blocksReady)}) <= u + 1
      BY <1>1, AddOne, Zenon
    <3>2. /\ Cardinality(Unparsed') \in Nat
          /\ Cardinality(Unparsed') <= Cardinality(Unparsed \cup {Head(blocksReady)})
      BY <2>2, <3>1, FS_Subset, FS_CardinalityType
    <3>. QED
      BY <1>1, <3>1, <3>2
  <2>4. ReadAhead' <= blocksDone /\ ReadAhead' \in Nat
    <3>1. ReadAhead' = d + Len(blocksReady) - 1 + Cardinality(Unparsed')
      BY <1>1, <2>1 DEF ReadAhead
    <3>2. Len(blocksReady) >= 1
      BY <1>1, <1>6 DEF Receive
    <3>3. d + Len(blocksReady) + u <= blocksDone
      BY <1>2, <1>6 DEF SlotInv, Receive
    <3>. QED
      BY <1>1, <2>3, <3>1, <3>2, <3>3
  <2>5. cons' = "slot" => next \in buffer'
    BY <1>6 DEF Receive
  <2>. QED
    BY <1>1, <1>6, <2>1, <2>4, <2>5 DEF SlotInv, Receive
<1>7. CASE ReceiveClosed \/ SerialStart \/ FastBlock \/ Finalize
  <2>1. UNCHANGED <<decoding, blocksReady, blocksDone, next, buffer>>
    BY <1>7 DEF ReceiveClosed, SerialStart, FastBlock, Finalize
  <2>2. ReadAhead' = ReadAhead
    BY <2>1 DEF ReadAhead, Unparsed
  <2>. QED
    BY <1>7, <2>1, <2>2 DEF SlotInv, ReceiveClosed, SerialStart, FastBlock, Finalize
<1>8. CASE TakeSlot
  <2>1. ReadAhead' = ReadAhead
    BY <1>8 DEF TakeSlot, ReadAhead, Unparsed
  <2>. QED
    BY <1>1, <1>2, <1>8, <2>1 DEF SlotInv, TakeSlot
<1>9. CASE Stage
  <2>1. /\ next \in buffer /\ next' = next + 1
        /\ UNCHANGED <<decoding, blocksReady, blocksDone, buffer>>
        /\ cons' = Onward(next + 1, buffer)
    BY <1>9 DEF Stage, SlotInv
  <2>2. Unparsed' = Unparsed \ {next} /\ next \in Unparsed
    <3>1. \A h \in buffer : h \in Nat
      BY <1>1 DEF Window
    <3>2. Unparsed' = {h \in buffer : h >= next + 1}
      BY <2>1 DEF Unparsed
    <3>3. \A h \in buffer : h >= next + 1 <=> h >= next /\ h # next
      BY <1>1, <3>1
    <3>4. {h \in buffer : h >= next + 1} = {h \in buffer : h >= next} \ {next}
      BY <3>3
    <3>5. Unparsed = {h \in buffer : h >= next} /\ next \in Unparsed
      BY <1>1, <2>1 DEF Unparsed
    <3>. QED
      BY <3>2, <3>4, <3>5, Zenon
  <2>3. Cardinality(Unparsed') = u - 1
    BY <1>1, <2>2, RemoveOne, Zenon
  <2>4. ReadAhead' = ReadAhead - 1
    BY <1>1, <1>2, <2>1, <2>3 DEF ReadAhead
  <2>5. cons' \in {"closed", "slot", "recv"} /\ (cons' = "slot" => next' \in buffer)
    BY <2>1 DEF Onward
  <2>. QED
    BY <1>1, <1>2, <2>1, <2>4, <2>5 DEF SlotInv
<1>10. \/ Send \/ Consume
       \/ \E h \in Window : Decoded(h) /\ blocksReady' # blocksReady
       \/ UNCHANGED <<decoding, blocksReady, blocksDone, cons, next, buffer>>
  BY DEF Next, Produce, FetchEnds, Fetch, FetchShort, CloseReady, Drain,
         RangeStage, Limit, RangeClosed, Return, Signal, Decoded, Ended, consumer
<1>. QED
  BY <1>3, <1>4, <1>5, <1>6, <1>7, <1>8, <1>9, <1>10 DEF Consume

\* The capacity of blocksDone bounds what is fetched and not yet parsed,
\* whatever the order in which blocks are decoded and however slow the
\* serial steps are.
THEOREM ReadAheadBound == Spec => []BoundedReadAhead
<1>1. Init => SlotInv
  <2>. SUFFICES ASSUME Init PROVE SlotInv
    OBVIOUS
  <2>1. Unparsed = {} /\ decoding = {} /\ blocksReady = <<>>
    BY DEF Init, Unparsed
  <2>2. ReadAhead = 0
    BY <2>1, FS_EmptySet DEF ReadAhead
  <2>. QED
    BY <2>2 DEF Init, SlotInv
<1>2. IInv /\ SlotInv /\ [Next]_vars => SlotInv'
  <2>1. SlotInv /\ UNCHANGED vars => SlotInv'
    BY DEF vars, consumer, SlotInv, ReadAhead, Unparsed
  <2>. QED
    BY <2>1, SlotStep
<1>3. IInv /\ SlotInv => BoundedReadAhead
  <2>. SUFFICES ASSUME IInv, SlotInv PROVE BoundedReadAhead
    OBVIOUS
  <2>1. blocksDone \in 0 .. Cap /\ decoding \subseteq Window
        /\ Unparsed \subseteq Window /\ Len(blocksReady) \in Nat
    BY DEF IInv, StageType, Unparsed
  <2>2. ReadAhead \in Nat
    BY <2>1, WindowSets DEF ReadAhead
  <2>. QED
    BY <2>1, <2>2, WindowAssumption DEF SlotInv, BoundedReadAhead
<1>. QED
  BY <1>1, <1>2, <1>3, PipelineInvariance, PTL DEF Spec

\* The serial steps of the concurrent pipeline are those of a loop over the
\* window, the one BlockSync models.
THEOREM PipelineRefinement == Spec => ImplementsSerialParse
<1>. DEFINE At == IF cons = "stage" THEN next + 1 ELSE next
<1>1. Init => Serial!Init
  BY DEF Init, Serial!Init, Phase
<1>2. IInv /\ [Next]_vars => [Serial!Next]_<<Phase, At>>
  <2>. SUFFICES ASSUME IInv, [Next]_vars
                PROVE  Serial!Next \/ (Phase' = Phase /\ At' = At)
    OBVIOUS
  <2>1. CASE UNCHANGED <<cons, next>>
    BY <2>1 DEF Phase
  <2>2. CASE Receive \/ TakeSlot
    BY <2>2 DEF Receive, TakeSlot, Phase
  <2>3. CASE ReceiveClosed
    BY <2>3 DEF ReceiveClosed, Phase, Serial!Next, Serial!ParseEnds
  <2>4. CASE SerialStart
    BY <2>4 DEF SerialStart, Phase, Serial!Next, Serial!SerialStart, IInv, OrderInv
  <2>5. CASE FastBlock
    BY <2>5 DEF FastBlock, Phase, Serial!Next, Serial!FastBlock
  <2>6. CASE Finalize
    BY <2>6 DEF Finalize, Phase, Serial!Next, Serial!Finalize
  <2>7. CASE Stage
    BY <2>7, SMTT(30) DEF Stage, Onward, Phase, Serial!Next, Serial!ParseEnds
  <2>8. Next => UNCHANGED <<cons, next>> \/ Consume
    BY DEF Next, Produce, FetchEnds, Fetch, FetchShort, Send, CloseReady, Drain,
           RangeStage, Limit, RangeClosed, Return, Signal, Decoded, Ended, consumer
  <2>. QED
    BY <2>1, <2>2, <2>3, <2>4, <2>5, <2>6, <2>7, <2>8
       DEF Consume, vars, consumer
<1>. QED
  BY <1>1, <1>2, PipelineInvariance, PTL DEF Spec, ImplementsSerialParse, Serial!Spec
=============================================================================
