---------------------------- MODULE BlockPipeline ----------------------------
(***************************************************************************)
(* One call of ParseLongestChain for the heights Start .. End - 1: a       *)
(* producer that fetches raw blocks, one decoding goroutine per block, a   *)
(* consumer that puts decoded blocks back into height order and runs the   *)
(* serial steps, and the caller, which drains what the consumer staged.    *)
(* A block is its height.  Cap is the capacity of the four channels (64).  *)
(***************************************************************************)
EXTENDS Integers, Sequences, FiniteSets

CONSTANTS Start, End, Cap, Faults, MaxFaults

FaultKind == {"rpc", "short", "stop", "invalid", "redis"}

ASSUME WindowAssumption ==
    /\ Start \in Nat \ {0} /\ End \in Nat /\ Start < End
    /\ Cap \in Nat \ {0}
    /\ Faults \subseteq FaultKind /\ MaxFaults \in Nat

Window == Start .. End - 1

VARIABLES
    prod,        \* the producer: "fetch", "token", "wait", "done"
    height,      \* nextBlockHeight of the producer
    skipped,     \* heights the producer passed over
    decoding,    \* heights in a decoding goroutine
    blocksDone,  \* number of tokens in blocksDone
    blocksReady, \* the channel of decoded blocks
    cons,        \* the consumer
    next,        \* nextBlockHeight of the consumer
    buffer,      \* non-nil entries of blockParseBufferBlock
    artifacts,   \* heights in stagedIndexerBlocks
    blocksStage, \* the channel of finalised blocks
    caller,      \* ParseLongestChainBlockEnd: "range", "limit", "wait",
                 \* "returned"; "dead" once the process is gone
    lastHeight,  \* its result, 0 when nothing was staged
    ending,      \* heights in a ParseBlockParallelEnd goroutine
    needStop, faults

producer == <<prod, height, skipped>>
consumer == <<cons, next, buffer, artifacts>>
end == <<caller, lastHeight, ending>>
vars == <<producer, decoding, blocksDone, blocksReady, consumer, blocksStage,
          end, needStop, faults>>

Init ==
    /\ prod = "fetch" /\ height = Start /\ skipped = {}
    /\ decoding = {} /\ blocksDone = 0 /\ blocksReady = <<>>
    /\ cons = "recv" /\ next = Start /\ buffer = {} /\ artifacts = {}
    /\ blocksStage = <<>>
    /\ caller = "range" /\ lastHeight = 0 /\ ending = {}
    /\ needStop = FALSE /\ faults = 0

Budget(kind) == kind \in Faults /\ faults < MaxFaults /\ faults' = faults + 1
------------------------------------------------------------------------------
(***************************************************************************)
(* InitLongestChainBlockByHeader                                           *)
(***************************************************************************)
\* The loop ends: the window is exhausted, NeedStop, or getblock fails or
\* answers with another block.
FetchEnds ==
    /\ prod = "fetch" /\ prod' = "wait"
    /\ \/ (height >= End \/ needStop) /\ UNCHANGED faults
       \/ height < End /\ ~needStop /\ Budget("rpc")
    /\ UNCHANGED <<height, skipped, decoding, blocksDone, blocksReady, consumer,
                   blocksStage, end, needStop>>

Fetch ==
    /\ prod = "fetch" /\ height < End /\ ~needStop
    /\ prod' = "token"
    /\ UNCHANGED <<height, skipped, decoding, blocksDone, blocksReady, consumer,
                   blocksStage, end, needStop, faults>>

\* A raw block of less than 89 bytes is passed over.
FetchShort ==
    /\ prod = "fetch" /\ height < End /\ ~needStop
    /\ Budget("short")
    /\ skipped' = skipped \cup {height} /\ height' = height + 1
    /\ UNCHANGED <<prod, decoding, blocksDone, blocksReady, consumer,
                   blocksStage, end, needStop>>

\* Variant: the goroutine is started without taking a slot first.
SendUnlimited ==
    /\ prod = "token" /\ prod' = "fetch"
    /\ blocksDone' = blocksDone + 1
    /\ decoding' = decoding \cup {height} /\ height' = height + 1
    /\ UNCHANGED <<skipped, blocksReady, consumer, blocksStage, end, needStop,
                   faults>>

\* blocksDone <- struct{}{}, then the decoding goroutine starts.
Send ==
    /\ prod = "token" /\ blocksDone < Cap /\ prod' = "fetch"
    /\ blocksDone' = blocksDone + 1
    /\ decoding' = decoding \cup {height} /\ height' = height + 1
    /\ UNCHANGED <<skipped, blocksReady, consumer, blocksStage, end, needStop,
                   faults>>

\* wg.Wait, close(blocksReady)
CloseReady ==
    /\ prod = "wait" /\ decoding = {} /\ prod' = "done"
    /\ UNCHANGED <<height, skipped, decoding, blocksDone, blocksReady, consumer,
                   blocksStage, end, needStop, faults>>

\* A decoding goroutine sends its block, or finds it invalid: log.Fatal.
Decoded(h) ==
    /\ h \in decoding
    /\ \/ /\ Len(blocksReady) < Cap
          /\ blocksReady' = Append(blocksReady, h)
          /\ decoding' = decoding \ {h}
          /\ UNCHANGED <<caller, faults>>
       \/ /\ Budget("invalid") /\ caller' = "dead"
          /\ UNCHANGED <<blocksReady, decoding>>
    /\ UNCHANGED <<producer, blocksDone, consumer, blocksStage, lastHeight,
                   ending, needStop>>
------------------------------------------------------------------------------
(***************************************************************************)
(* ParseLongestChainBlockStart                                             *)
(***************************************************************************)
\* Where the consumer goes once the heights below n are staged.
Onward(n, buf) ==
    IF n >= End THEN "closed" ELSE IF n \in buf THEN "slot" ELSE "recv"

\* Variant: a block is parsed as soon as it is received.
ReceiveUnordered ==
    /\ cons = "recv" /\ blocksReady # <<>>
    /\ blocksReady' = Tail(blocksReady)
    /\ buffer' = buffer \cup {Head(blocksReady)}
    /\ cons' = "slot" /\ next' = Head(blocksReady)
    /\ UNCHANGED <<producer, decoding, blocksDone, artifacts, blocksStage, end,
                   needStop, faults>>

\* A decoded block goes into the buffer; only the expected one is followed up.
Receive ==
    /\ cons = "recv" /\ blocksReady # <<>>
    /\ blocksReady' = Tail(blocksReady)
    /\ buffer' = buffer \cup {Head(blocksReady)}
    /\ cons' = IF Head(blocksReady) = next THEN "slot" ELSE "recv"
    /\ UNCHANGED <<producer, decoding, blocksDone, next, artifacts, blocksStage,
                   end, needStop, faults>>

\* blocksReady is closed and empty: the deferred close(blocksStage).
ReceiveClosed ==
    /\ cons = "recv" /\ blocksReady = <<>> /\ prod = "done"
    /\ cons' = "closed"
    /\ UNCHANGED <<producer, decoding, blocksDone, blocksReady, next, buffer,
                   artifacts, blocksStage, end, needStop, faults>>

\* Variant: the slot of a parsed block is not given back.
TakeNoSlot ==
    /\ cons = "slot" /\ blocksDone > 0 /\ cons' = "start"
    /\ UNCHANGED <<producer, decoding, blocksDone, blocksReady, next, buffer,
                   artifacts, blocksStage, end, needStop, faults>>

\* <-blocksDone
TakeSlot ==
    /\ cons = "slot" /\ blocksDone > 0
    /\ blocksDone' = blocksDone - 1 /\ cons' = "start"
    /\ UNCHANGED <<producer, decoding, blocksReady, next, buffer, artifacts,
                   blocksStage, end, needStop, faults>>

\* ParseBlockSerialStart, or a Redis error in it: panic.
SerialStart ==
    /\ cons = "start"
    /\ \/ cons' = "fast" /\ UNCHANGED <<caller, faults>>
       \/ Budget("redis") /\ caller' = "dead" /\ UNCHANGED cons
    /\ UNCHANGED <<producer, decoding, blocksDone, blocksReady, next, buffer,
                   artifacts, blocksStage, lastHeight, ending, needStop>>

\* Variant: an error of the handler ends the parse without setting NeedStop.
FastBlockGivesUp ==
    /\ cons = "fast"
    /\ \/ needStop /\ cons' = "closed" /\ UNCHANGED <<needStop, faults>>
       \/ ~needStop /\ cons' = "final" /\ UNCHANGED <<needStop, faults>>
       \/ ~needStop /\ Budget("stop") /\ cons' = "closed" /\ UNCHANGED needStop
    /\ UNCHANGED <<producer, decoding, blocksDone, blocksReady, next, buffer,
                   artifacts, blocksStage, end>>

\* HandleFastBlock, unless NeedStop; an error sets NeedStop.
FastBlock ==
    /\ cons = "fast"
    /\ \/ needStop /\ cons' = "closed" /\ UNCHANGED <<needStop, faults>>
       \/ ~needStop /\ cons' = "final" /\ UNCHANGED <<needStop, faults>>
       \/ ~needStop /\ Budget("stop") /\ needStop' = TRUE /\ cons' = "closed"
    /\ UNCHANGED <<producer, decoding, blocksDone, blocksReady, next, buffer,
                   artifacts, blocksStage, end>>

\* ParseBlockSerialFinalize, unless NeedStop: PersistIndexerBlockArtifacts
Finalize ==
    /\ cons = "final"
    /\ \/ needStop /\ cons' = "closed" /\ UNCHANGED artifacts
       \/ /\ ~needStop /\ cons' = "stage"
          /\ artifacts' = artifacts \cup {next}
    /\ UNCHANGED <<producer, decoding, blocksDone, blocksReady, next, buffer,
                   blocksStage, end, needStop, faults>>

\* Variant: NeedStop is checked once more between finalising and staging.
StageUnlessStopped ==
    /\ cons = "stage"
    /\ IF needStop
       THEN cons' = "closed" /\ UNCHANGED <<blocksStage, next>>
       ELSE /\ Len(blocksStage) < Cap
            /\ blocksStage' = Append(blocksStage, next)
            /\ next' = next + 1 /\ cons' = Onward(next + 1, buffer)
    /\ UNCHANGED <<producer, decoding, blocksDone, blocksReady, buffer,
                   artifacts, end, needStop, faults>>

\* blocksStage <- block, and on to the next height if it is there.
Stage ==
    /\ cons = "stage" /\ Len(blocksStage) < Cap
    /\ blocksStage' = Append(blocksStage, next)
    /\ next' = next + 1 /\ cons' = Onward(next + 1, buffer)
    /\ UNCHANGED <<producer, decoding, blocksDone, blocksReady, buffer,
                   artifacts, end, needStop, faults>>
------------------------------------------------------------------------------
(***************************************************************************)
(* ParseLongestChainBlockEnd                                               *)
(***************************************************************************)
RangeStage ==
    /\ caller = "range" /\ blocksStage # <<>>
    /\ lastHeight' = Head(blocksStage) /\ blocksStage' = Tail(blocksStage)
    /\ caller' = "limit"
    /\ UNCHANGED <<producer, decoding, blocksDone, blocksReady, consumer,
                   ending, needStop, faults>>

\* blocksLimit <- struct{}{}, then go ParseBlockParallelEnd
Limit ==
    /\ caller = "limit" /\ Cardinality(ending) < Cap
    /\ ending' = ending \cup {lastHeight} /\ caller' = "range"
    /\ UNCHANGED <<producer, decoding, blocksDone, blocksReady, consumer,
                   blocksStage, lastHeight, needStop, faults>>

\* ParseBlockParallelEnd drops the block's transactions and parse data.
Ended(h) ==
    /\ h \in ending /\ ending' = ending \ {h}
    /\ UNCHANGED <<producer, decoding, blocksDone, blocksReady, consumer,
                   blocksStage, caller, lastHeight, needStop, faults>>

\* blocksStage is closed and empty.
RangeClosed ==
    /\ caller = "range" /\ blocksStage = <<>> /\ cons = "closed"
    /\ caller' = "wait"
    /\ UNCHANGED <<producer, decoding, blocksDone, blocksReady, consumer,
                   blocksStage, lastHeight, ending, needStop, faults>>

\* wg.Wait, return
Return ==
    /\ caller = "wait" /\ ending = {} /\ caller' = "returned"
    /\ UNCHANGED <<producer, decoding, blocksDone, blocksReady, consumer,
                   blocksStage, lastHeight, ending, needStop, faults>>

\* A signal handler sets NeedStop while the call runs.
Signal ==
    /\ ~needStop /\ Budget("stop") /\ needStop' = TRUE
    /\ UNCHANGED <<producer, decoding, blocksDone, blocksReady, consumer,
                   blocksStage, end>>
------------------------------------------------------------------------------
Produce == FetchEnds \/ Fetch \/ FetchShort \/ Send \/ CloseReady
Consume == Receive \/ ReceiveClosed \/ TakeSlot \/ SerialStart \/ FastBlock
           \/ Finalize \/ Stage
Drain == RangeStage \/ Limit \/ RangeClosed \/ Return

Next ==
    /\ caller # "dead"
    /\ \/ Produce \/ Consume \/ Drain \/ Signal
       \/ \E h \in Window : Decoded(h) \/ Ended(h)

Spec == Init /\ [][Next]_vars

\* Every goroutine that is not blocked for ever runs.
FairSpec ==
    /\ Spec
    /\ WF_vars(caller # "dead" /\ Produce) /\ WF_vars(caller # "dead" /\ Consume)
    /\ WF_vars(caller # "dead" /\ Drain)
    /\ \A h \in Window : /\ WF_vars(caller # "dead" /\ Decoded(h))
                         /\ WF_vars(caller # "dead" /\ Ended(h))
------------------------------------------------------------------------------
ConsumerSteps == {"recv", "slot", "start", "fast", "final", "stage", "closed"}

StageType ==
    /\ prod \in {"fetch", "token", "wait", "done"} /\ height \in Start .. End
    /\ skipped \subseteq Window /\ decoding \subseteq Window
    /\ blocksDone \in 0 .. Cap /\ blocksReady \in Seq(Window)
    /\ cons \in ConsumerSteps /\ next \in Start .. End
    /\ buffer \subseteq Window /\ artifacts \subseteq Window
    /\ blocksStage \in Seq(Window)
    /\ caller \in {"range", "limit", "wait", "returned", "dead"}
    /\ lastHeight \in {0} \cup Window /\ ending \subseteq Window
    /\ faults \in Nat

\* The types of the channels and of the four kinds of goroutines; the
\* consumer's index into its buffer stays inside the window.
TypeOK == StageType /\ needStop \in BOOLEAN

\* The last height the caller has received, Start - 1 before the first.
Drained == IF lastHeight = 0 THEN Start - 1 ELSE lastHeight

\* ParseLongestChain returns the height of the last block whose artifacts are
\* staged, and those are all heights from Start to it: what SubmitBlocks
\* flushes and marks is exactly what was parsed, wherever a stop or an RPC
\* failure cut the pipeline.  No goroutine parses after the call has returned.
ReturnsWhatWasParsed ==
    caller = "returned" => cons = "closed" /\ artifacts = Start .. Drained

\* The inductive invariant behind it: at every step of the three stages, the
\* artifacts are those of the heights below next, the channel to the caller
\* holds the last of them in order, and the caller leaves its loop only once
\* the consumer has ended.
OrderInv ==
    /\ artifacts = Start .. (IF cons = "stage" THEN next ELSE next - 1)
    /\ \A i \in 1 .. Len(blocksStage) : blocksStage[i] = Drained + i
    /\ Drained + Len(blocksStage) = next - 1
    /\ caller \in {"wait", "returned"} => cons = "closed" /\ blocksStage = <<>>
    /\ cons \in {"slot", "start", "fast", "final", "stage"} => next < End
    /\ prod = "token" => height < End
    /\ caller = "limit" => lastHeight # 0

\* Blocks that are handed to a decoder and not yet parsed are bounded by the
\* capacity of blocksDone and the one the consumer holds, however slow the
\* serial steps.  (The producer has fetched one more, raw, when it waits for a
\* slot.)
Unparsed == {h \in buffer : h >= next}
ReadAhead == Cardinality(decoding) + Len(blocksReady) + Cardinality(Unparsed)
BoundedReadAhead == ReadAhead <= Cap + 1

\* The inductive invariant behind it: every block read ahead has a slot of
\* blocksDone, but for the one whose slot the consumer has taken.
SlotInv ==
    /\ ReadAhead <= blocksDone + 1
    /\ cons \in {"recv", "slot"} => ReadAhead <= blocksDone
    /\ cons \in {"slot", "start", "fast", "final", "stage"} => next \in buffer

\* The consumer runs the serial steps of one block at a time in height order,
\* although the blocks are decoded in any order.
Phase == CASE cons \in {"fast", "final"} -> cons
           [] cons = "closed" -> "parsed"
           [] OTHER -> "serial"
Serial == INSTANCE SerialParse
              WITH phase <- Phase, at <- IF cons = "stage" THEN next + 1 ELSE next
ImplementsSerialParse == Serial!Spec

\* The call returns, or the process dies, whatever stops and RPC failures
\* happen; but for a short raw block with more than Cap blocks after it,
\* which take all the slots of blocksDone while the consumer waits for the
\* missing height.
Returns ==
    <>(caller \in {"returned", "dead"} \/ \E h \in skipped : End - 1 - h > Cap)

\* A call that returns while the program goes on leaves no goroutine behind:
\* the producer and the decoders end too.  After a stop they may stay blocked
\* on their channels until the process exits.
LeavesNothingBehind ==
    caller = "returned" ~> needStop \/ caller = "dead"
                           \/ (prod = "done" /\ decoding = {})
==============================================================================
