--------------------------- MODULE ConsumerSnapshots --------------------------
(***************************************************************************)
(* Proofs about the loops of the reward consumers and about what they hold *)
(* in memory, for any number of blocks, users and faults.  The first part  *)
(* needs nothing but the shape of the loops; the second part states the    *)
(* circumstances in which it holds.                                        *)
(***************************************************************************)
EXTENDS RewardConsumers, SumLemmas

Blocks == UNION {Contents(h) : h \in Heights}
States == {"off", "poll", "load", "stage", "reward", "subtract", "delete", "upsert",
           "flush", "clean"}

\* The types of what the loops are made of
LoopType ==
    /\ chain \in Seq(Blocks)
    /\ \A k \in 1 .. Len(chain) : chain[k] \in Contents(k)
    /\ top \in Nat /\ Len(chain) <= top /\ top <= MaxHeight
    /\ pc \in [Consumers -> States]
    /\ hgt \in [Consumers -> Nat] /\ end \in [Consumers -> Nat]
    /\ loaded \in [Consumers -> Nat] /\ cursor \in [Consumers -> Nat]

\* How deep a height must be before a consumer takes it up.
Window(h) == RewardProofWindowByHeight(Cfg, h)
Distance(c, h) == IF c = "snapshot" THEN Lag ELSE Window(h)
DeepEnough(c, n, t) == \A h \in 1 .. n : h + Distance(c, h) <= t

Working == {"load", "stage", "reward", "subtract", "delete", "upsert", "flush"}

\* Where a consumer is in its batch: at the height after its cursor, or at the
\* one it has just written, and everything up to the batch's end deep enough.
InBatch(c) ==
    /\ DeepEnough(c, cursor[c], top)
    /\ pc[c] \in Working \cup {"clean"} => hgt[c] <= end[c] /\ DeepEnough(c, end[c], top)
    /\ pc[c] \in Working => hgt[c] = cursor[c] + 1
    /\ pc[c] = "clean" => hgt[c] = cursor[c]
    /\ pc[c] \in Working \ {"load"} => loaded[c] = hgt[c]

LoopInv == \A c \in Consumers : InBatch(c)

\* The greatest element of a set of integers that is bounded
LEMMA MaxIn ==
    ASSUME NEW a \in Int, NEW b \in Int, NEW S, S \subseteq a .. b, S # {}
    PROVE  Max(S) \in S /\ \A y \in S : y <= Max(S)
<1>. DEFINE T == {n \in Nat : b - n \in S}
<1>1. PICK s \in S : TRUE
  BY Zenon
<1>2. b - s \in Nat /\ b - (b - s) = s
  BY <1>1
<1>3. T \subseteq Nat /\ T # {}
  BY <1>1, <1>2, Zenon
<1>. HIDE DEF T
<1>4. PICK n \in T : \A m \in T : n <= m
  BY <1>3, NatMin, Zenon
<1>5. n \in Nat /\ b - n \in S
  BY <1>4 DEF T
<1>6. ASSUME NEW y \in S PROVE y <= b - n
  <2>1. y \in Int /\ b - y \in Nat /\ b - (b - y) = y
    OBVIOUS
  <2>2. b - y \in T
    BY <2>1 DEF T
  <2>. QED
    BY <1>4, <1>5, <2>1, <2>2
<1>7. \E x \in S : \A y \in S : x >= y
  BY <1>5, <1>6
<1>8. Max(S) \in S /\ \A y \in S : Max(S) >= y
  BY <1>7, Zenon DEF Max
<1>. QED
  BY <1>8

\* The larger of two integers
LEMMA MaxOfTwo ==
    ASSUME NEW x \in Int, NEW y \in Int
    PROVE  Max({x, y}) = IF x <= y THEN y ELSE x
<1>1. \E m \in {x, y} : \A n \in {x, y} : m >= n
  OBVIOUS
<1>2. Max({x, y}) \in {x, y} /\ \A n \in {x, y} : Max({x, y}) >= n
  BY <1>1 DEF Max
<1>. QED
  BY <1>2

\* Products and quotients of natural numbers
LEMMA NatTimes == ASSUME NEW x \in Nat, NEW y \in Nat PROVE x * y \in Nat
OBVIOUS

\* A quotient of natural numbers is one.
LEMMA NatQuotient == ASSUME NEW x \in Nat, NEW y \in Nat \ {0} PROVE x \div y \in Nat
OBVIOUS

\* The proof window of a height is a number of blocks.
LEMMA WindowType == ASSUME NEW h \in Nat PROVE Window(h) \in Nat
<1>1. PICK blocks \in Nat, percent \in Nat \ {0} :
         blocks = Cfg.stepBlocks /\ percent = Cfg.stepPercent
  BY CfgAssumption, Zenon
<1>2. 100 + percent - 1 \in Nat
  OBVIOUS
<1>3. (100 + percent - 1) \div percent \in Nat
  BY <1>2, NatQuotient
<1>4. blocks * ((100 + percent - 1) \div percent) \in Nat
  BY <1>3, NatTimes
<1>5. Cfg.proofWindow \in Nat /\ Cfg.stage3Blocks[7] \in Nat
  BY CfgAssumption
<1>. QED
  BY <1>1, <1>4, <1>5 DEF Window, RewardProofWindowByHeight

\* ... and so is the distance a consumer keeps.
LEMMA DistanceType == ASSUME NEW c, NEW h \in Nat PROVE Distance(c, h) \in Nat
BY WindowType, ConsumerAssumption DEF Distance

\* What the fast path does leaves a chain of blocks that may be committed.
LEMMA ChainStep ==
    ASSUME LoopType, Commit \/ Rollback
    PROVE  /\ LoopType' /\ top <= top'
           /\ UNCHANGED <<pc, hgt, end, loaded, cursor>>
<1>. USE DEF LoopType, indexed, loop, memory, redis
<1>0. Len(chain) \in Nat
  OBVIOUS
<1>1. CASE Commit
  <2>1. PICK b \in Contents(Len(chain) + 1) : chain' = Append(chain, b)
    BY <1>1 DEF Commit
  <2>2. Len(chain) + 1 \in Heights
    BY <1>0, <1>1, ConsumerAssumption DEF Commit, Heights
  <2>3. b \in Blocks
    BY <2>2 DEF Blocks
  <2>4. chain' \in Seq(Blocks) /\ Len(chain') = Len(chain) + 1
    BY <2>1, <2>3
  <2>5. \A k \in 1 .. Len(chain') : chain'[k] \in Contents(k)
    BY <1>0, <2>1, <2>4
  <2>6. top' \in Nat /\ Len(chain') <= top' /\ top' <= MaxHeight /\ top <= top'
    BY <1>0, <1>1, <2>4, ConsumerAssumption, SMTT(30) DEF Commit
  <2>. QED
    BY <1>1, <2>4, <2>5, <2>6 DEF Commit
<1>2. CASE Rollback
  <2>1. PICK from \in 1 .. Len(chain) : chain' = SubSeq(chain, 1, from - 1)
    BY <1>2 DEF Rollback
  <2>2. /\ chain' \in Seq(Blocks) /\ Len(chain') = from - 1
        /\ \A k \in 1 .. from - 1 : chain'[k] = chain[k]
    BY <1>0, <2>1
  <2>3. \A k \in 1 .. Len(chain') : chain'[k] \in Contents(k)
    BY <1>0, <2>1, <2>2
  <2>4. Len(chain') <= top
    BY <1>0, <2>1, <2>2, SMTT(30)
  <2>5. UNCHANGED <<top, pc, hgt, end, loaded, cursor>>
    BY <1>2, SMTT(30) DEF Rollback
  <2>. QED
    BY <2>2, <2>3, <2>4, <2>5, SMTT(30)
<1>. QED
  BY <1>1, <1>2

\* What a consumer's step does to the loops
LEMMA StepLoop ==
    ASSUME LoopType, NEW c \in Consumers,
           Step(c) \/ FlushFails(c) \/ Fail(c) \/ BalanceReadFails(c)
    PROVE  UNCHANGED <<chain, top>> /\ LoopType'
<1>. USE DEF LoopType, indexed, loop, memory, redis, Consumers, States
<1>1. CASE Start(c)
  <2>1. loaded' \in [Consumers -> Nat]
    BY <1>1, ZenonT(40) DEF Start, LoadStakeBindingsToHeight, LoadFrom
  <2>. QED
    BY <1>1, <2>1, Zenon DEF Start
<1>2. CASE Poll(c)
  <2>0. PICK target : target = Target(c, cursor[c] + 1)
    OBVIOUS
  <2>1. PICK a \in Int, b \in Int : a = cursor[c] + 1 /\ b = a + Batch - 1
    BY ConsumerAssumption, SMTT(30)
  <2>2. target \subseteq a .. b /\ a \in Nat
    BY <2>0, <2>1, SMTT(30) DEF Target
  <2>3. target # {} /\ end' = [end EXCEPT ![c] = Max(target)]
    BY <1>2, <2>0 DEF Poll
  <2>4. Max(target) \in target
    BY <2>2, <2>3, MaxIn, Zenon
  <2>5. \A x \in a .. b : x \in Nat
    BY <2>2
  <2>6. Max(target) \in Nat /\ cursor[c] + 1 \in Nat
    BY <2>1, <2>2, <2>4, <2>5, Zenon
  <2>. QED
    BY <1>2, <2>3, <2>6, SMTT(30) DEF Poll
<1>3. CASE NotCommitted(c) \/ StageDeltas(c) \/ DeletePending(c) \/ Fail(c)
  BY <1>3, SMTT(30) DEF NotCommitted, StageDeltas, ReadDeltas, DeletePending, Fail
<1>4. CASE Subtract(c) \/ UpsertPending(c) \/ Allocate(c) \/ Announce(c)
  <2>1. CASE Subtract(c)
    BY <2>1, Zenon DEF Subtract
  <2>2. CASE UpsertPending(c)
    BY <2>2, Zenon DEF UpsertPending
  <2>3. CASE Allocate(c)
    BY <2>3, SMTT(30) DEF Allocate
  <2>4. CASE Announce(c)
    BY <2>4, SMTT(30) DEF Announce
  <2>. QED
    BY <1>4, <2>1, <2>2, <2>3, <2>4, Zenon
<1>5. CASE LoadBindings(c) \/ BalanceReadFails(c)
  <2>1. CASE LoadBindings(c)
    BY <2>1, SMTT(30) DEF LoadBindings, LoadStakeBindingsToHeight, LoadFrom
  <2>2. CASE BalanceReadFails(c)
    BY <2>2, SMTT(30) DEF BalanceReadFails, LoadStakeBindingsToHeight, LoadFrom
  <2>. QED
    BY <1>5, <2>1, <2>2, Zenon
<1>6. CASE Flush(c)
  BY <1>6, Zenon DEF Flush, Execute, Executed
<1>7. CASE FlushFails(c)
  <2>1. PICK upto : Executed(c, upto) /\ pc' = [pc EXCEPT ![c] = "poll"]
    BY <1>7, Zenon DEF FlushFails, Execute
  <2>. QED
    BY <2>1, Zenon DEF Executed
<1>8. CASE Advance(c)
  BY <1>8, SMTT(30) DEF Advance
<1>. QED
  BY <1>1, <1>2, <1>3, <1>4, <1>5, <1>6, <1>7, <1>8, Zenon DEF Step

\* A bound that is kept stays kept while the chain grows.
LEMMA DeepMono ==
    ASSUME NEW c, NEW n \in Nat, NEW t \in Nat, NEW u \in Nat, t <= u, DeepEnough(c, n, t)
    PROVE  DeepEnough(c, n, u)
<1>1. ASSUME NEW h \in 1 .. n PROVE h + Distance(c, h) <= u
  BY DistanceType DEF DeepEnough
<1>. QED
  BY <1>1 DEF DeepEnough

\* What the poll allows is deep enough.
LEMMA PollDeep ==
    ASSUME LoopType, NEW c \in Consumers, DeepEnough(c, cursor[c], top), Poll(c)
    PROVE  DeepEnough(c, end'[c], top) /\ hgt'[c] <= end'[c]
<1>0. PICK n \in Nat : n = cursor[c]
  BY DEF LoopType
<1>1. PICK target : target = Target(c, n + 1)
  OBVIOUS
<1>2. PICK m : m = Max(target)
  OBVIOUS
<1>3. PICK a \in Int, b \in Int : a = n + 1 /\ b = a + Batch - 1
  BY ConsumerAssumption
<1>4. target \subseteq a .. b
  BY <1>1, <1>3, SMTT(30) DEF Target
<1>5. target # {} /\ end'[c] = m /\ hgt'[c] = n + 1
  BY <1>0, <1>1, <1>2, Zenon DEF Poll, LoopType
<1>6. m \in target
  BY <1>2, <1>4, <1>5, MaxIn, Zenon
<1>7. m \in Nat /\ n + 1 <= m /\ Len(chain) \in Nat /\ Len(chain) <= top /\ top \in Nat
  BY <1>3, <1>4, <1>6 DEF LoopType
<1>8. ASSUME NEW h \in 1 .. m PROVE h + Distance(c, h) <= top
  <2>1. CASE h <= n
    BY <1>0, <2>1 DEF DeepEnough
  <2>2. CASE h > n
    <3>1. Distance(c, h) \in Nat /\ h \in Nat
      BY DistanceType
    <3>2. CASE c = "snapshot"
      BY <1>1, <1>6, <1>7, <3>1, <3>2, ConsumerAssumption, SMTT(30)
         DEF Target, Distance, indexed
    <3>3. CASE c # "snapshot"
      <4>1. h \in n + 1 .. m
        BY <1>7, <2>2
      <4>2. canProcessPendingRewardHeight(h, Len(chain))
        BY <1>1, <1>6, <3>3, <4>1, SMTT(30) DEF Target, indexed
      <4>. QED
        BY <1>7, <3>1, <3>3, <4>2, SMTT(30) DEF canProcessPendingRewardHeight, Distance, Window
    <3>. QED
      BY <3>2, <3>3
  <2>. QED
    BY <1>0, <2>1, <2>2, SMTT(30)
<1>. QED
  BY <1>5, <1>7, <1>8, Zenon DEF DeepEnough

\* A consumer's step leaves the other one's loop alone.
LEMMA OtherLoop ==
    ASSUME LoopType, NEW c \in Consumers, NEW d \in Consumers, d # c,
           Step(c) \/ FlushFails(c) \/ Fail(c) \/ BalanceReadFails(c)
    PROVE  /\ pc'[d] = pc[d] /\ hgt'[d] = hgt[d] /\ end'[d] = end[d]
           /\ loaded'[d] = loaded[d] /\ cursor'[d] = cursor[d]
<1>. USE DEF LoopType, loop, memory, redis
<1>1. CASE Start(c) \/ Poll(c) \/ NotCommitted(c) \/ StageDeltas(c)
  BY <1>1, Zenon
     DEF Start, Poll, LoadStakeBindingsToHeight, LoadFrom, NotCommitted, StageDeltas,
     ReadDeltas
<1>2. CASE DeletePending(c) \/ Fail(c) \/ Subtract(c) \/ UpsertPending(c) \/ Allocate(c)
           \/ Announce(c)
  BY <1>2, Zenon DEF DeletePending, Fail, Subtract, UpsertPending, Allocate, Announce
<1>3. CASE LoadBindings(c) \/ BalanceReadFails(c)
  BY <1>3, Zenon DEF LoadBindings, LoadStakeBindingsToHeight, LoadFrom, BalanceReadFails
<1>4. CASE Flush(c) \/ FlushFails(c) \/ Advance(c)
  BY <1>4, Zenon DEF Flush, FlushFails, Execute, Executed, Advance
<1>. QED
  BY <1>1, <1>2, <1>3, <1>4, Zenon DEF Step

\* One step of a consumer keeps its loop in order.
LEMMA OwnLoop ==
    ASSUME LoopType, NEW c \in Consumers, InBatch(c),
           Step(c) \/ FlushFails(c) \/ Fail(c) \/ BalanceReadFails(c)
    PROVE  InBatch(c)'
<1>. USE DEF LoopType, loop, memory, redis, InBatch, Working
<1>0. top' = top
  BY StepLoop, Zenon
<1>1. CASE Start(c)
  BY <1>1, SMTT(30) DEF Start
<1>2. CASE Poll(c)
  <2>1. DeepEnough(c, end'[c], top) /\ hgt'[c] <= end'[c]
    BY <1>2, PollDeep, Zenon
  <2>2. pc'[c] = "load" /\ hgt'[c] = cursor[c] + 1 /\ cursor' = cursor
    BY <1>2, SMTT(30) DEF Poll
  <2>. QED
    BY <1>0, <2>1, <2>2, Zenon
<1>3. CASE NotCommitted(c) \/ Fail(c) \/ BalanceReadFails(c)
  BY <1>3, Zenon DEF NotCommitted, Fail, BalanceReadFails
<1>4. CASE LoadBindings(c)
  BY <1>4, SMTT(30) DEF LoadBindings, LoadStakeBindingsToHeight, LoadFrom
<1>5. CASE StageDeltas(c) \/ Allocate(c) \/ Announce(c)
  BY <1>5, Zenon DEF StageDeltas, ReadDeltas, Allocate, Announce
<1>6. CASE Subtract(c) \/ DeletePending(c) \/ UpsertPending(c)
  BY <1>6, Zenon DEF Subtract, DeletePending, UpsertPending
<1>7. ASSUME pc[c] = "flush", cursor'[c] \in {cursor[c], hgt[c]}
      PROVE  DeepEnough(c, cursor'[c], top)
  BY <1>7, SMTT(30) DEF DeepEnough
<1>8. CASE Flush(c)
  BY <1>0, <1>7, <1>8, SMTT(30) DEF Flush, Execute, Executed
<1>9. CASE FlushFails(c)
  <2>1. pc[c] = "flush" /\ pc'[c] = "poll" /\ cursor'[c] \in {cursor[c], hgt[c]}
    BY <1>9, Zenon DEF FlushFails, Execute, Executed
  <2>. QED
    BY <1>0, <1>7, <2>1, Zenon
<1>10. CASE Advance(c)
  BY <1>10 DEF Advance
<1>. QED
  BY <1>1, <1>2, <1>3, <1>4, <1>5, <1>6, <1>8, <1>9, <1>10, Zenon DEF Step

\* The loops stay in order.
LEMMA LoopStep == ASSUME LoopType, LoopInv, [Next]_vars PROVE LoopType' /\ LoopInv'
<1>1. CASE UNCHANGED vars
  BY <1>1, Zenon DEF vars, loop, memory, redis, LoopType, LoopInv, InBatch
<1>2. CASE Commit \/ Rollback
  <2>1. LoopType' /\ top <= top' /\ UNCHANGED <<pc, hgt, end, loaded, cursor>>
    BY <1>2, ChainStep, SMTT(30)
  <2>2. ASSUME NEW c \in Consumers PROVE InBatch(c)'
    <3>1. cursor[c] \in Nat /\ end[c] \in Nat /\ top \in Nat /\ top' \in Nat
      BY <2>1, SMTT(30) DEF LoopType
    <3>. QED
      BY <2>1, <3>1, DeepMono, Zenon DEF LoopInv, InBatch
  <2>. QED
    BY <2>1, <2>2 DEF LoopInv
<1>3. CASE Crash
  BY <1>3, Zenon
     DEF Crash, LoopType, LoopInv, InBatch, redis, Zero, Working, States, Consumers
<1>4. ASSUME NEW c \in Consumers,
             Step(c) \/ FlushFails(c) \/ Fail(c) \/ BalanceReadFails(c)
      PROVE  LoopType' /\ LoopInv'
  <2>1. UNCHANGED <<chain, top>> /\ LoopType'
    BY <1>4, StepLoop, SMTT(30)
  <2>2. ASSUME NEW d \in Consumers, d # c PROVE InBatch(d)'
    BY <1>4, <2>1, <2>2, OtherLoop, SMTT(30) DEF LoopInv, InBatch
  <2>3. InBatch(c)'
    BY <1>4, OwnLoop DEF LoopInv
  <2>. QED
    BY <2>1, <2>2, <2>3, SMTT(30) DEF LoopInv
<1>. QED
  BY <1>1, <1>2, <1>3, <1>4, SMTT(30) DEF Next

\* Every reachable state has its loops in order, whatever fails.
THEOREM LoopInvariant == Spec => [](LoopType /\ LoopInv)
<1>1. Init => LoopType
  BY ConsumerAssumption, SMTT(30) DEF Init, LoopType, Zero, States, Consumers
<1>2. Init => LoopInv
  BY DEF Init, LoopInv, InBatch, DeepEnough, Zero, Working, Consumers
<1>3. LoopType /\ LoopInv /\ [Next]_vars => LoopType' /\ LoopInv'
  BY LoopStep
<1>. QED
  BY <1>1, <1>2, <1>3, PTL DEF Spec

\* A cursor moves only in the flush of its consumer, to the next height, with
\* the bindings of that height loaded.
LEMMA CursorStep ==
    ASSUME LoopType, LoopInv, [Next]_vars, NEW d \in Consumers, cursor'[d] # cursor[d]
    PROVE  cursor'[d] = cursor[d] + 1 /\ cursor'[d] = hgt[d] /\ loaded[d] = hgt[d]
<1>1. ASSUME UNCHANGED vars \/ Commit \/ Rollback \/ Crash PROVE FALSE
  BY <1>1, Zenon DEF vars, redis, Commit, Rollback, Crash
<1>2. PICK c \in Consumers : Step(c) \/ FlushFails(c) \/ Fail(c) \/ BalanceReadFails(c)
  BY <1>1, SMTT(30) DEF Next
<1>3. d = c
  BY <1>2, OtherLoop, Zenon
<1>4. CASE Flush(c) \/ FlushFails(c)
  <2>1. pc[c] = "flush" /\ cursor'[c] = hgt[c]
    BY <1>3, <1>4, SMTT(30) DEF Flush, FlushFails, Execute, Executed, LoopType
  <2>. QED
    BY <1>3, <2>1, Zenon DEF LoopInv, InBatch, Working
<1>5. CASE ~(Flush(c) \/ FlushFails(c))
  <2>1. cursor' = cursor
    BY <1>2, <1>5, Zenon DEF Step, redis, Start, Poll, NotCommitted, LoadBindings, StageDeltas,
       ReadDeltas, Allocate, Subtract, DeletePending, Announce, UpsertPending, Advance, Fail,
       BalanceReadFails
  <2>. QED
    BY <2>1, SMTT(30)
<1>. QED
  BY <1>4, <1>5, Zenon

\* No height is skipped, and none is consumed twice once its cursor is written:
\* whatever failed or crashed in between, a cursor moves one height at a time,
\* in the flush of that height.
THEOREM HeightOnce == Spec => EveryHeightOnce
<1>1. LoopType /\ LoopInv /\ [Next]_vars =>
        [\A c \in Consumers : cursor'[c] # cursor[c] =>
            /\ cursor'[c] = cursor[c] + 1 /\ cursor'[c] = hgt[c]
            /\ loaded[c] = hgt[c]]_vars
  BY CursorStep
<1>. QED
  BY <1>1, LoopInvariant, PTL DEF Spec, EveryHeightOnce
-------------------------------------------------------------------------------
(***************************************************************************)
(* What the consumers have computed.  It follows the committed blocks when *)
(* no call of a block fails and no pipeline breaks off (a retry would add  *)
(* the deltas or the increments again), a user has one stake address, no   *)
(* address is ever overdrawn, and what a consumer takes up is deeper than  *)
(* any reorganisation reaches.                                             *)
(***************************************************************************)
OneAddress == \A a \in Addrs, b \in Addrs : UserOf[a] = UserOf[b] => a = b

Chains(h) == {f \in [1 .. h -> Blocks] : \A k \in 1 .. h : f[k] \in Contents(k)}
NeverOverdrawn ==
    \A h \in Heights : \A f \in Chains(h) : \A a \in Addrs :
        SumFunction([k \in 1 .. h |-> f[k].delta[a]]) >= 0

Undisturbed ==
    /\ "error" \notin Faults /\ "partial" \notin Faults
    /\ OneAddress /\ NeverOverdrawn
    /\ FinalDepth <= Lag /\ \A h \in Heights : FinalDepth <= Window(h)

Balances(h) == [a \in Addrs |-> Balance(h, a)]

\* The users are finitely many.
LEMMA UsersFinite == IsFiniteSet(Users) /\ IsFiniteSet(Parties)
<1>. DEFINE f == [a \in Addrs |-> UserOf[a]]
<1>1. f \in [Addrs -> Users] /\ \A u \in Users : \E a \in Addrs : f[a] = u
  BY DEF Users
<1>2. f \in Surjection(Addrs, Users)
  BY <1>1, SMTT(30) DEF Surjection
<1>3. IsFiniteSet(Users)
  BY <1>2, FS_Surjection, BlockAssumption, Zenon
<1>. QED
  BY <1>3, FS_AddElement, SMTT(30) DEF Parties

\* The amount of a user is that of their one address, or nothing.
LEMMA SumOfOne ==
    ASSUME OneAddress, NEW f \in [Addrs -> Int], NEW B \in SUBSET Addrs, NEW a \in B
    PROVE  SumOf(f, B)[UserOf[a]] = f[a]
<1>1. {x \in B : UserOf[x] = UserOf[a]} = {} \cup {a}
  BY DEF OneAddress
<1>2. SumFunctionOnSet(f, {} \cup {a}) = f[a] + SumFunctionOnSet(f, {})
  BY SumAdd, FS_EmptySet, Zenon
<1>3. SumFunctionOnSet(f, {}) = 0
  BY SumEmpty
<1>4. UserOf[a] \in Users
  BY DEF Users
<1>5. SumOf(f, B)[UserOf[a]] = SumFunctionOnSet(f, {x \in B : UserOf[x] = UserOf[a]})
  BY <1>4 DEF SumOf
<1>6. f[a] \in Int
  OBVIOUS
<1>. QED
  BY <1>1, <1>2, <1>3, <1>5, <1>6, SMTT(30)

\* A user without an address among B has no stake.
LEMMA SumOfNone ==
    ASSUME NEW f, NEW B, NEW u \in Users, \A a \in B : UserOf[a] # u
    PROVE  SumOf(f, B)[u] = 0
<1>1. {a \in B : UserOf[a] = u} = {}
  OBVIOUS
<1>. QED
  BY <1>1, SumEmpty DEF SumOf

\* Every user has a stake, an integer.
LEMMA SumOfType ==
    ASSUME NEW f \in [Addrs -> Int], NEW B \in SUBSET Addrs
    PROVE  SumOf(f, B) \in [Users -> Int]
<1>1. ASSUME NEW u \in Users
      PROVE  SumFunctionOnSet(f, {a \in B : UserOf[a] = u}) \in Int
  <2>1. {a \in B : UserOf[a] = u} \subseteq Addrs
    OBVIOUS
  <2>2. IsFiniteSet({a \in B : UserOf[a] = u})
    BY <2>1, FS_Subset, BlockAssumption, Zenon
  <2>3. \A a \in {x \in B : UserOf[x] = u} : f[a] \in Int
    OBVIOUS
  <2>. QED
    BY <2>2, <2>3, SumInt, Zenon
<1>. QED
  BY <1>1, SMTT(30) DEF SumOf

\* The balances last of the new addresses replace what their users have.
Reloaded(f, old, last) ==
    [u \in Users |-> IF u \in DOMAIN last THEN f[last[u]] ELSE old[u]]

\* Loading more bindings: each new address brings its balance.
LEMMA SumOfLoaded ==
    ASSUME OneAddress, NEW f \in [Addrs -> Int], NEW B \in SUBSET Addrs,
           NEW items \in SUBSET Addrs, NEW last \in [{UserOf[a] : a \in items} -> items],
           \A u \in DOMAIN last : UserOf[last[u]] = u
    PROVE  Reloaded(f, SumOf(f, B), last) = SumOf(f, B \cup items)
<1>. DEFINE C == B \cup items
<1>1. C \in SUBSET Addrs
  BY SMTT(30)
<1>2. SumOf(f, C) \in [Users -> Int]
  BY <1>1, SumOfType, Zenon
<1>3. ASSUME NEW u \in Users
      PROVE  SumOf(f, C)[u] = IF u \in DOMAIN last THEN f[last[u]] ELSE SumOf(f, B)[u]
  <2>1. CASE u \in DOMAIN last
    <3>1. last[u] \in C /\ UserOf[last[u]] = u
      BY <2>1, Zenon
    <3>. HIDE DEF C
    <3>2. SumOf(f, C)[UserOf[last[u]]] = f[last[u]]
      BY <1>1, <3>1, SumOfOne, Zenon
    <3>. QED
      BY <2>1, <3>1, <3>2, Zenon
  <2>2. CASE u \notin DOMAIN last
    <3>1. \A a \in items : UserOf[a] # u
      BY <2>2, SMTT(30)
    <3>2. CASE \E a \in B : UserOf[a] = u
      <4>1. PICK a \in B : UserOf[a] = u
        BY <3>2, Zenon
      <4>2. a \in C
        BY Zenon
      <4>. HIDE DEF C
      <4>3. SumOf(f, C)[UserOf[a]] = f[a] /\ SumOf(f, B)[UserOf[a]] = f[a]
        BY <1>1, <4>2, SumOfOne, Zenon
      <4>. QED
        BY <2>2, <4>1, <4>3, Zenon
    <3>3. CASE \A a \in B : UserOf[a] # u
      <4>1. \A a \in C : UserOf[a] # u
        BY <3>1, <3>3, Zenon
      <4>. HIDE DEF C
      <4>2. SumOf(f, C)[u] = 0 /\ SumOf(f, B)[u] = 0
        BY <3>3, <4>1, SumOfNone, Zenon
      <4>. QED
        BY <2>2, <4>2, Zenon
    <3>. QED
      BY <3>2, <3>3, Zenon
  <2>. QED
    BY <2>1, <2>2, Zenon
<1>. QED
  BY <1>2, <1>3, Zenon DEF Reloaded

\* Staging deltas: the clamp at zero does nothing where nobody is overdrawn.
LEMMA SumOfMoved ==
    ASSUME OneAddress, NEW f \in [Addrs -> Int], NEW g \in [Addrs -> Int],
           NEW k \in [Addrs -> Nat], \A a \in Addrs : k[a] = f[a] + g[a],
           NEW B \in SUBSET Addrs
    PROVE  [u \in Users |-> Max({0, SumOf(f, B)[u] + SumOf(g, B)[u]})] = SumOf(k, B)
<1>0. k \in [Addrs -> Int]
  OBVIOUS
<1>1. SumOf(k, B) \in [Users -> Int]
  BY <1>0, SumOfType, SMTT(30)
<1>2. ASSUME NEW u \in Users
      PROVE  SumOf(k, B)[u] = Max({0, SumOf(f, B)[u] + SumOf(g, B)[u]})
  <2>1. CASE \E a \in B : UserOf[a] = u
    <3>1. PICK a \in B : UserOf[a] = u
      BY <2>1, SMTT(30)
    <3>2. SumOf(f, B)[u] = f[a] /\ SumOf(g, B)[u] = g[a] /\ SumOf(k, B)[u] = k[a]
      BY <1>0, <3>1, SumOfOne, SMTT(30)
    <3>3. k[a] = f[a] + g[a] /\ k[a] \in Int /\ 0 <= k[a]
      BY SMTT(30)
    <3>4. Max({0, k[a]}) = k[a]
      BY <3>3, MaxOfTwo, SMTT(30)
    <3>. QED
      BY <3>2, <3>3, <3>4, Zenon
  <2>2. CASE \A a \in B : UserOf[a] # u
    <3>1. SumOf(f, B)[u] = 0 /\ SumOf(g, B)[u] = 0 /\ SumOf(k, B)[u] = 0
      BY <2>2, SumOfNone, Zenon
    <3>2. Max({0, 0}) = 0
      BY MaxOfTwo, SMTT(30)
    <3>. QED
      BY <3>1, <3>2, SMTT(30)
  <2>. QED
    BY <2>1, <2>2, Zenon
<1>. QED
  BY <1>1, <1>2, Zenon

\* The types of a committed block
LEMMA BlockType ==
    ASSUME LoopType, NEW k \in 1 .. Len(chain)
    PROVE  /\ chain[k].reward \in Nat /\ chain[k].binds \subseteq Addrs
           /\ chain[k].delta \in [Addrs -> Int]
<1>1. k \in Heights /\ chain[k] \in Contents(k)
  BY ConsumerAssumption, SMTT(30) DEF LoopType, Heights
<1>. QED
  BY <1>1, BlockAssumption, Zenon

\* Balances accumulate block by block, and are never negative.
LEMMA BalanceNext ==
    ASSUME LoopType, NEW h \in Nat, h + 1 <= Len(chain), NEW a \in Addrs
    PROVE  Balance(h + 1, a) = Balance(h, a) + chain[h + 1].delta[a] /\ Balance(h, a) \in Int
<1>. DEFINE d(n) == [k \in 1 .. n |-> chain[k].delta[a]]
<1>0. Len(chain) \in Nat
  BY DEF LoopType
<1>1. \A k \in 1 .. h + 1 : chain[k].delta[a] \in Int
  BY <1>0, BlockType, SMTT(30)
<1>2. IsFiniteSet(1 .. h) /\ h + 1 \notin 1 .. h /\ 1 .. h + 1 = (1 .. h) \cup {h + 1}
  <2>1. IsFiniteSet(1 .. h)
    BY FS_Interval
  <2>2. h + 1 \notin 1 .. h /\ 1 .. h + 1 = (1 .. h) \cup {h + 1}
    BY SMTT(30)
  <2>. QED
    BY <2>1, <2>2, SMTT(30)
<1>3. \A k \in (1 .. h) \cup {h + 1} : d(h + 1)[k] \in Int
  BY <1>1, <1>2, Zenon
<1>4. SumFunctionOnSet(d(h + 1), (1 .. h) \cup {h + 1})
        = d(h + 1)[h + 1] + SumFunctionOnSet(d(h + 1), 1 .. h)
  BY <1>2, <1>3, SumAdd, Zenon
<1>5. \A k \in 1 .. h : d(h)[k] \in Int /\ d(h + 1)[k] = d(h)[k]
  BY <1>1
<1>6. SumFunctionOnSet(d(h + 1), 1 .. h) = SumFunctionOnSet(d(h), 1 .. h)
  BY <1>2, <1>5, SumEq, Zenon
<1>7. SumFunctionOnSet(d(h), 1 .. h) \in Int
  BY <1>2, <1>5, SumInt, Zenon
<1>8. DOMAIN d(h) = 1 .. h /\ DOMAIN d(h + 1) = 1 .. h + 1 /\ d(h + 1)[h + 1] = chain[h + 1].delta[a]
  BY SMTT(30)
<1>9. /\ Balance(h, a) = SumFunctionOnSet(d(h), 1 .. h)
      /\ Balance(h + 1, a) = SumFunctionOnSet(d(h + 1), 1 .. h + 1)
  BY <1>8, Zenon DEF Balance, SumFunction
<1>10. chain[h + 1].delta[a] \in Int
  BY <1>1
<1>11. SumFunctionOnSet(d(h + 1), 1 .. h + 1)
         = chain[h + 1].delta[a] + SumFunctionOnSet(d(h), 1 .. h)
  BY <1>2, <1>4, <1>6, <1>8, Zenon
<1>12. Balance(h + 1, a) = chain[h + 1].delta[a] + Balance(h, a) /\ Balance(h, a) \in Int
  BY <1>7, <1>9, <1>11, Zenon
<1>. HIDE DEF d
<1>. QED
  BY <1>10, <1>12, SMTT(30)

\* Nobody has a balance before the first block.
LEMMA BalanceZero == ASSUME NEW a PROVE Balance(0, a) = 0
<1>1. 1 .. 0 = {}
  OBVIOUS
<1>2. DOMAIN [k \in 1 .. 0 |-> chain[k].delta[a]] = {}
  BY <1>1
<1>. QED
  BY <1>2, SumEmpty DEF Balance, SumFunction

\* Balances of committed heights are natural numbers.
LEMMA BalanceNat ==
    ASSUME LoopType, NeverOverdrawn, NEW h \in Nat, h <= Len(chain), NEW a \in Addrs
    PROVE  Balance(h, a) \in Nat
<1>0. Len(chain) \in Nat
  BY DEF LoopType
<1>1. CASE h = 0
  BY <1>1, BalanceZero, SMTT(30)
<1>2. CASE h > 0
  <2>. DEFINE f == [k \in 1 .. h |-> chain[k]]
              d == [k \in 1 .. h |-> chain[k].delta[a]]
  <2>1. h \in Heights /\ 1 .. h \subseteq 1 .. Len(chain) /\ 1 .. h \subseteq Heights
    BY <1>0, <1>2, ConsumerAssumption, SMTT(30) DEF LoopType, Heights
  <2>2. \A k \in 1 .. h : f[k] \in Contents(k) /\ f[k] \in Blocks
    BY <2>1, Zenon DEF LoopType, Blocks
  <2>3. f \in Chains(h)
    BY <2>2 DEF Chains
  <2>4. [k \in 1 .. h |-> f[k].delta[a]] = d
    BY SMTT(30)
  <2>5. \A k \in 1 .. h : d[k] \in Int
    BY <2>1, BlockType, SMTT(30)
  <2>. HIDE DEF f
  <2>6. SumFunction(d) >= 0
    BY <2>1, <2>3, <2>4, Zenon DEF NeverOverdrawn
  <2>7. IsFiniteSet(1 .. h) /\ DOMAIN d = 1 .. h
    BY FS_Interval, SMTT(30)
  <2>8. SumFunctionOnSet(d, 1 .. h) \in Int
    BY <2>5, <2>7, SumInt, Zenon
  <2>9. Balance(h, a) = SumFunction(d) /\ SumFunction(d) = SumFunctionOnSet(d, 1 .. h)
    BY <2>7, Zenon DEF Balance, SumFunction
  <2>. QED
    BY <2>6, <2>8, <2>9, SMTT(30)
<1>. QED
  BY <1>1, <1>2, SMTT(30)

\* The bindings of a height are those of a lower one and those in between.
LEMMA BoundMore ==
    ASSUME LoopType, NEW n \in Nat, NEW m \in Nat, n <= m
    PROVE  /\ Bound(n) \cup ListStakeBindingsRange(n, m) = Bound(m)
           /\ Bound(n) \in SUBSET Addrs /\ ListStakeBindingsRange(n, m) \in SUBSET Addrs
           /\ Bound(0) = {}
<1>0. \A k \in 1 .. Len(chain) : chain[k].binds \subseteq Addrs
  BY BlockType, Zenon
<1>. USE DEF ListStakeBindingsRange, Bound, indexed
<1>1. Len(chain) \in Nat
  BY DEF LoopType
<1>2. \A k \in 1 .. Len(chain) : (0 < k /\ k <= m) <=> ((0 < k /\ k <= n) \/ (n < k /\ k <= m))
  BY <1>1, SMTT(30)
<1>3. Bound(n) \cup ListStakeBindingsRange(n, m) = Bound(m)
  BY <1>2, Zenon
<1>4. Bound(n) \in SUBSET Addrs /\ ListStakeBindingsRange(n, m) \in SUBSET Addrs
  BY <1>0, Zenon
<1>5. \A k \in 1 .. Len(chain) : ~(0 < k /\ k <= 0)
  BY <1>1, SMTT(30)
<1>6. Bound(0) = {}
  BY <1>5, SMTT(30)
<1>. QED
  BY <1>3, <1>4, <1>6, Zenon

\* Both chains hold the same blocks up to a height.
SameUpTo(h) ==
    h <= Len(chain) /\ h <= Len(chain') /\ \A k \in 1 .. h : chain'[k] = chain[k]

\* What a height defines depends only on the blocks up to it.
LEMMA SameStakes ==
    ASSUME Len(chain) \in Nat, Len(chain') \in Nat, NEW h \in Nat, SameUpTo(h)
    PROVE  Balances(h)' = Balances(h) /\ Bound(h)' = Bound(h) /\ StakesAt(h)' = StakesAt(h)
<1>1. ASSUME NEW a PROVE Balance(h, a)' = Balance(h, a)
  <2>1. [k \in 1 .. h |-> chain'[k].delta[a]] = [k \in 1 .. h |-> chain[k].delta[a]]
    BY Zenon DEF SameUpTo
  <2>. QED
    BY <2>1, Zenon DEF Balance
<1>2. Balances(h)' = Balances(h)
  BY <1>1 DEF Balances
<1>3. {k \in 1 .. Len(chain) : 0 < k /\ k <= h} = 1 .. h
  BY DEF SameUpTo
<1>4. {k \in 1 .. Len(chain') : 0 < k /\ k <= h} = 1 .. h
  BY DEF SameUpTo
<1>5. Bound(h) = UNION {chain[k].binds : k \in 1 .. h}
  BY <1>3, Zenon DEF Bound, ListStakeBindingsRange, indexed
<1>6. Bound(h)' = UNION {chain'[k].binds : k \in 1 .. h}
  BY <1>4, Zenon DEF Bound, ListStakeBindingsRange, indexed
<1>7. {chain'[k].binds : k \in 1 .. h} = {chain[k].binds : k \in 1 .. h}
  BY Zenon DEF SameUpTo
<1>8. Bound(h)' = Bound(h)
  BY <1>5, <1>6, <1>7, Zenon
<1>9. StakesAt(h) = SumOf(Balances(h), Bound(h))
  BY DEF StakesAt, Balances
<1>10. StakesAt(h)' = SumOf(Balances(h)', Bound(h)')
  BY SMTT(30) DEF StakesAt, Balances
<1>. QED
  BY <1>2, <1>8, <1>9, <1>10, SMTT(30)

\* A rollback leaves every block that is FinalDepth below the highest tip.
TopInv == top <= Len(chain) + FinalDepth

\* So neither a commit nor a rollback changes such a block.
LEMMA StableChain ==
    ASSUME LoopType, TopInv, Commit \/ Rollback
    PROVE  /\ TopInv'
           /\ \A h \in Nat : h + FinalDepth <= top => SameUpTo(h)
<1>. USE ConsumerAssumption DEF LoopType, TopInv, indexed
<1>0. Len(chain) \in Nat
  OBVIOUS
<1>1. CASE Commit
  <2>1. PICK b : chain' = Append(chain, b)
    BY <1>1, Zenon DEF Commit
  <2>2. Len(chain') = Len(chain) + 1 /\ \A k \in 1 .. Len(chain) : chain'[k] = chain[k]
    BY <1>0, <2>1, SMTT(30)
  <2>3. top' <= Len(chain') + FinalDepth
    BY <1>0, <1>1, <2>2, SMTT(30) DEF Commit
  <2>4. ASSUME NEW h \in Nat, h + FinalDepth <= top PROVE SameUpTo(h)
    BY <1>0, <2>2, <2>4, SMTT(30) DEF SameUpTo
  <2>. QED
    BY <2>3, <2>4, Zenon
<1>2. CASE Rollback
  <2>1. PICK from \in 1 .. Len(chain) :
           from > top - FinalDepth /\ chain' = SubSeq(chain, 1, from - 1) /\ top' = top
    BY <1>2, Zenon DEF Rollback
  <2>2. Len(chain') = from - 1 /\ \A k \in 1 .. from - 1 : chain'[k] = chain[k]
    BY <1>0, <2>1, SMTT(30)
  <2>3. top' <= Len(chain') + FinalDepth
    BY <1>0, <2>1, <2>2, SMTT(30)
  <2>4. ASSUME NEW h \in Nat, h + FinalDepth <= top PROVE SameUpTo(h)
    BY <1>0, <2>1, <2>2, <2>4, SMTT(30) DEF SameUpTo
  <2>. QED
    BY <2>3, <2>4, Zenon
<1>. QED
  BY <1>1, <1>2, Zenon

\* Only a rollback is a reorganisation.
LEMMA ReorgStep ==
    ASSUME faults.reorg \in BOOLEAN, [Next]_vars
    PROVE  /\ faults'.reorg \in BOOLEAN
           /\ ~faults'.reorg => ~faults.reorg /\ ~Rollback
<1>1. ASSUME NEW kind, Budget(kind)
      PROVE  faults'.reorg = (faults.reorg \/ kind = "reorg")
  BY <1>1, Zenon DEF Budget
<1>2. CASE UNCHANGED vars /\ ~Rollback
  BY <1>2, Zenon DEF vars
<1>3. CASE Rollback
  BY <1>1, <1>3, Zenon DEF Rollback
<1>4. CASE Commit /\ ~Rollback
  BY <1>4, Zenon DEF Commit
<1>5. CASE Crash /\ ~Rollback
  BY <1>1, <1>5, Zenon DEF Crash
<1>6. ASSUME NEW c \in Consumers,
             Step(c) \/ FlushFails(c) \/ Fail(c) \/ BalanceReadFails(c)
      PROVE  faults'.reorg = faults.reorg
  <2>1. UNCHANGED faults \/ \E kind \in {"total", "lost", "partial", "error"} : Budget(kind)
    BY <1>6, Zenon
       DEF Step, Start, Poll, NotCommitted, LoadBindings, StageDeltas, ReadDeltas, Allocate,
       Subtract, PendingTotalRead, DeletePending, Announce, UpsertPending, Flush, Advance,
       FlushFails, Fail, BalanceReadFails
  <2>. QED
    BY <1>1, <2>1, SMTT(30)
<1>. QED
  BY <1>2, <1>3, <1>4, <1>5, <1>6, Zenon DEF Next

\* The last block is the highest one ever until the first reorganisation, and
\* not far below it afterwards.
TipInv ==
    /\ TopInv /\ faults.reorg \in BOOLEAN
    /\ ~faults.reorg => top = Len(chain)

\* Every step keeps it so.
LEMMA TipStep == ASSUME LoopType, TipInv, [Next]_vars PROVE TipInv'
<1>0. faults.reorg \in BOOLEAN /\ TopInv
  BY Zenon DEF TipInv
<1>1. faults'.reorg \in BOOLEAN /\ (~faults'.reorg => ~faults.reorg /\ ~Rollback)
  BY <1>0, ReorgStep, Zenon
<1>2. CASE UNCHANGED <<chain, top>>
  BY <1>0, <1>1, <1>2, Zenon DEF TipInv, TopInv
<1>3. CASE Rollback
  BY <1>0, <1>1, <1>3, StableChain, Zenon DEF TipInv
<1>4. CASE Commit
  <2>1. TopInv'
    BY <1>0, <1>4, StableChain, Zenon
  <2>2. PICK b : chain' = Append(chain, b)
    BY <1>4, Zenon DEF Commit
  <2>3. Len(chain) \in Nat /\ Len(chain') = Len(chain) + 1
    BY <2>2, SMTT(30) DEF LoopType
  <2>4. top' = IF Len(chain) + 1 > top THEN Len(chain) + 1 ELSE top
    BY <1>4, Zenon DEF Commit, indexed
  <2>5. top = Len(chain) => top' = Len(chain')
    BY <2>3, <2>4, SMTT(30)
  <2>. QED
    BY <1>1, <2>1, <2>5, Zenon DEF TipInv
<1>5. CASE Crash \/ UNCHANGED vars
  <2>1. UNCHANGED <<chain, top>>
    BY <1>5, Zenon DEF Crash, vars
  <2>. QED
    BY <1>2, <2>1, Zenon
<1>6. ASSUME NEW c \in Consumers,
             Step(c) \/ FlushFails(c) \/ Fail(c) \/ BalanceReadFails(c)
      PROVE  TipInv'
  <2>1. UNCHANGED <<chain, top>>
    BY <1>6, StepLoop, Zenon
  <2>. QED
    BY <1>2, <2>1, Zenon
<1>. QED
  BY <1>3, <1>4, <1>5, <1>6, Zenon DEF Next

\* Neither consumer takes up a height before it is deep enough, whatever fails,
\* crashes or is rolled back: until a reorganisation it keeps slow_lag_blocks,
\* or the proof window, to the last committed block, and afterwards it is
\* closer by FinalDepth at most.
THEOREM KeepDistance == Spec => []ConsumersKeepDistance
<1>1. Init => TipInv
  BY ConsumerAssumption, SMTT(30) DEF Init, TipInv, TopInv
<1>2. LoopType /\ TipInv /\ [Next]_vars => TipInv'
  BY TipStep
<1>3. LoopType /\ LoopInv /\ TipInv => ConsumersKeepDistance
  <2>1. SUFFICES ASSUME LoopType, LoopInv, TipInv PROVE ConsumersKeepDistance
    OBVIOUS
  <2>2. "snapshot" \in Consumers /\ "pending" \in Consumers /\ "pending" # "snapshot"
    BY DEF Consumers
  <2>3. cursor["snapshot"] > 0 => cursor["snapshot"] \in 1 .. cursor["snapshot"]
    BY <2>1, <2>2, SMTT(30) DEF LoopType
  <2>4. cursor["snapshot"] > 0 => cursor["snapshot"] + Lag <= top
    BY <2>1, <2>2, <2>3, Zenon DEF LoopInv, InBatch, DeepEnough, Distance
  <2>5. ASSUME NEW h \in 1 .. cursor["pending"]
        PROVE  h + RewardProofWindowByHeight(Cfg, h) <= top
    BY <2>1, <2>2, SMTT(30) DEF LoopInv, InBatch, DeepEnough, Distance, Window
  <2>6. PICK tip \in Nat : /\ tip = IF faults.reorg THEN indexed + FinalDepth ELSE indexed
                           /\ top <= tip
    BY <2>1, ConsumerAssumption, SMTT(30) DEF TipInv, TopInv, LoopType, indexed
  <2>7. cursor["snapshot"] > 0 => cursor["snapshot"] + Lag <= tip
    BY <2>1, <2>2, <2>4, <2>6, ConsumerAssumption, SMTT(30) DEF LoopType
  <2>8. ASSUME NEW h \in 1 .. cursor["pending"]
        PROVE  h + RewardProofWindowByHeight(Cfg, h) <= tip
    <3>1. PICK w \in Nat : w = RewardProofWindowByHeight(Cfg, h)
      BY <2>1, <2>2, <2>8, WindowType, SMTT(30) DEF LoopType, Window
    <3>. QED
      BY <2>1, <2>5, <2>6, <2>8, <3>1, SMTT(30) DEF LoopType
  <2>. QED
    BY <2>6, <2>7, <2>8, Zenon DEF ConsumersKeepDistance
<1>. QED
  BY <1>1, <1>2, <1>3, LoopInvariant, PTL DEF Spec

\* What a consumer has taken up is that deep.
LEMMA TakenUp ==
    ASSUME LoopType, TopInv, Undisturbed, NEW c \in Consumers, NEW n \in Nat,
           DeepEnough(c, n, top)
    PROVE  n + FinalDepth <= top \/ n = 0
<1>1. CASE n = 0
  BY <1>1, Zenon
<1>2. CASE n # 0
  <2>1. n \in 1 .. n /\ Distance(c, n) \in Nat /\ n + Distance(c, n) <= top
    BY <1>2, DistanceType, SMTT(30) DEF DeepEnough
  <2>2. n \in Heights
    BY <2>1, ConsumerAssumption, SMTT(30) DEF LoopType, Heights
  <2>3. FinalDepth <= Distance(c, n)
    BY <2>2, Zenon DEF Undisturbed, Distance
  <2>. QED
    BY <2>1, <2>3, ConsumerAssumption, SMTT(30) DEF LoopType
<1>. QED
  BY <1>1, <1>2, Zenon

\* The types of what the snapshots are made of
StoreType ==
    /\ read \in [Consumers -> [reward : Nat, delta : [Addrs -> Int]]]
    /\ bound \in [Consumers -> SUBSET Addrs] /\ mem \in [Consumers -> [Users -> Int]]
    /\ bal \in [Consumers -> [Addrs -> Int]]

\* The balances of a consumer are those of its cursor, its bindings those of
\* the height it has loaded, and its memory follows in two steps.
Follows(c) ==
    /\ bal[c] = Balances(cursor[c])
    /\ bound[c] = Bound(loaded[c])
    /\ pc[c] = "off" => loaded[c] = 0 /\ mem[c] = Zero(Users)
    /\ pc[c] \in {"poll", "load", "clean"} => loaded[c] = cursor[c]
    /\ pc[c] \in {"poll", "load", "stage", "clean"} => mem[c] = SumOf(bal[c], bound[c])
    /\ pc[c] \in Working \ {"load"} => read[c].reward = chain[hgt[c]].reward
    /\ pc[c] \in Working \ {"load", "stage"} =>
         read[c].delta = chain[hgt[c]].delta /\ mem[c] = StakesAt(hgt[c])

SnapshotInv == StoreType /\ TopInv /\ \A c \in Consumers : Follows(c)

\* The height a consumer is at is committed, and stays.
LEMMA AtHeight ==
    ASSUME LoopType, LoopInv, TopInv, Undisturbed, NEW c \in Consumers, pc[c] \in Working
    PROVE  /\ hgt[c] \in Nat /\ hgt[c] = cursor[c] + 1 /\ cursor[c] \in Nat
           /\ hgt[c] <= Len(chain) /\ hgt[c] \in 1 .. Len(chain)
           /\ DeepEnough(c, hgt[c], top) /\ hgt[c] + FinalDepth <= top
           /\ Len(chain) \in Nat
<1>0. hgt[c] \in Nat /\ cursor[c] \in Nat /\ end[c] \in Nat /\ Len(chain) \in Nat /\ top \in Nat
  BY SMTT(30) DEF LoopType
<1>1. hgt[c] = cursor[c] + 1 /\ hgt[c] <= end[c] /\ DeepEnough(c, end[c], top)
  BY Zenon DEF LoopInv, InBatch
<1>2. DeepEnough(c, hgt[c], top)
  BY <1>0, <1>1, SMTT(30) DEF DeepEnough
<1>3. hgt[c] + FinalDepth <= top
  BY <1>0, <1>1, <1>2, TakenUp, SMTT(30)
<1>4. hgt[c] <= Len(chain)
  BY <1>0, <1>3, ConsumerAssumption, SMTT(30) DEF TopInv
<1>. QED
  BY <1>0, <1>1, <1>2, <1>3, <1>4, SMTT(30)

\* Blocks come and go above what the consumers have taken up.
LEMMA FollowsChain ==
    ASSUME LoopType, LoopInv, SnapshotInv, Undisturbed, Commit \/ Rollback
    PROVE  SnapshotInv'
<1>1. /\ LoopType' /\ UNCHANGED <<pc, hgt, end, loaded, cursor>> /\ TopInv'
      /\ \A h \in Nat : h + FinalDepth <= top => SameUpTo(h)
  BY ChainStep, StableChain, Zenon DEF SnapshotInv
<1>2. UNCHANGED <<read, bound, mem, bal>>
  BY Zenon DEF Commit, Rollback, loop, memory, redis
<1>3. Len(chain) \in Nat /\ Len(chain') \in Nat
  BY <1>1, SMTT(30) DEF LoopType
<1>4. ASSUME NEW h \in Nat, h + FinalDepth <= top \/ h = 0
      PROVE  SameUpTo(h) /\ Balances(h)' = Balances(h) /\ Bound(h)' = Bound(h)
             /\ StakesAt(h)' = StakesAt(h)
  <2>1. SameUpTo(h)
    BY <1>1, <1>3, <1>4, SMTT(30) DEF SameUpTo
  <2>. QED
    BY <1>3, <2>1, SameStakes, Zenon
<1>5. ASSUME NEW c \in Consumers PROVE Follows(c)'
  <2>1. PICK n \in Nat, m \in Nat, k \in Nat : n = cursor[c] /\ m = hgt[c] /\ k = loaded[c]
    BY Zenon DEF LoopType
  <2>2. n = cursor'[c] /\ m = hgt'[c] /\ k = loaded'[c] /\ pc'[c] = pc[c] /\ pc[c] \in States
    BY <1>1, <2>1, Zenon DEF LoopType
  <2>3. n + FinalDepth <= top \/ n = 0
    BY <2>1, TakenUp, Zenon DEF LoopInv, InBatch, SnapshotInv
  <2>4. pc[c] \in Working => m + FinalDepth <= top /\ m \in 1 .. m
    BY <2>1, AtHeight, SMTT(30) DEF SnapshotInv
  <2>5. k = 0 \/ k = n \/ (pc[c] \in Working /\ k = m)
    BY <2>1, <2>2, Zenon DEF SnapshotInv, Follows, LoopInv, InBatch, Working, States
  <2>6. Balances(n)' = Balances(n)
    BY <1>4, <2>3, Zenon
  <2>7. Bound(k)' = Bound(k)
    BY <1>4, <2>3, <2>4, <2>5, Zenon
  <2>8. pc[c] \in Working => chain'[m] = chain[m] /\ StakesAt(m)' = StakesAt(m)
    BY <1>4, <2>4, Zenon DEF SameUpTo
  <2>9. (bal[c] = Balances(cursor[c]))' /\ (bound[c] = Bound(loaded[c]))'
    BY <1>2, <2>1, <2>2, <2>6, <2>7, ZenonT(40) DEF SnapshotInv, Follows
  <2>10. /\ pc[c] \in Working \ {"load"} => read[c].reward = chain[m].reward
         /\ pc[c] \in Working \ {"load", "stage"} =>
              read[c].delta = chain[m].delta /\ mem[c] = StakesAt(m)
    BY <2>1, Zenon DEF SnapshotInv, Follows
  <2>11. /\ pc[c] \in Working \ {"load"} => read[c].reward = chain'[m].reward
         /\ pc[c] \in Working \ {"load", "stage"} =>
              read[c].delta = chain'[m].delta /\ mem[c] = StakesAt(m)'
    BY <2>8, <2>10, Zenon
  <2>12. /\ (pc[c] \in Working \ {"load"} => read[c].reward = chain[hgt[c]].reward)'
         /\ (pc[c] \in Working \ {"load", "stage"} =>
               read[c].delta = chain[hgt[c]].delta /\ mem[c] = StakesAt(hgt[c]))'
    BY <1>2, <2>2, <2>11, Zenon DEF Working
  <2>. QED
    BY <1>1, <1>2, <2>9, <2>12, Zenon DEF SnapshotInv, Follows
<1>. QED
  BY <1>1, <1>2, <1>5, Zenon DEF SnapshotInv, StoreType

\* What depends on the chain alone
LEMMA SameChain ==
    ASSUME chain' = chain, NEW h
    PROVE  Balances(h)' = Balances(h) /\ Bound(h)' = Bound(h) /\ StakesAt(h)' = StakesAt(h)
BY Zenon DEF Balances, Balance, Bound, ListStakeBindingsRange, indexed, StakesAt

\* Loading the bindings up to a height loads their balances.
LEMMA LoadStep ==
    ASSUME LoopType, StoreType, OneAddress, NEW c \in Consumers, NEW h \in Nat,
           loaded[c] < h, bound[c] = Bound(loaded[c]), mem[c] = SumOf(bal[c], bound[c]),
           LoadStakeBindingsToHeight(c, h)
    PROVE  /\ loaded'[c] = h /\ bound'[c] = Bound(h) /\ mem'[c] = SumOf(bal[c], Bound(h))
           /\ bound' \in [Consumers -> SUBSET Addrs] /\ mem' \in [Consumers -> [Users -> Int]]
           /\ \A d \in Consumers \ {c} : bound'[d] = bound[d] /\ mem'[d] = mem[d]
<1>0. PICK n \in Nat : n = loaded[c]
  BY Zenon DEF LoopType
<1>1. PICK items : items = ListStakeBindingsRange(n, h)
  BY Zenon
<1>2. ~(h < loaded[c]) /\ h # loaded[c] /\ n <= h
  BY <1>0, SMTT(30)
<1>3. /\ Bound(n) \cup items = Bound(h) /\ Bound(n) \in SUBSET Addrs /\ items \in SUBSET Addrs
      /\ Bound(h) \in SUBSET Addrs
  BY <1>1, <1>2, BoundMore, SMTT(30)
<1>4. /\ loaded' = [loaded EXCEPT ![c] = h]
      /\ bound' = [bound EXCEPT ![c] = @ \cup items]
      /\ \E last \in [{UserOf[a] : a \in items} -> items] :
            /\ \A u \in DOMAIN last : UserOf[last[u]] = u
            /\ mem' = [mem EXCEPT ![c] =
                          [u \in Users |-> IF u \in DOMAIN last THEN bal[c][last[u]]
                                           ELSE mem[c][u]]]
  <2>. DEFINE reset == h < loaded[c]
              its == IF h = loaded[c] THEN {}
                     ELSE ListStakeBindingsRange(IF reset THEN 0 ELSE loaded[c], h)
              kept == IF reset THEN Zero(Users) ELSE mem[c]
              Loads(S, k) ==
                \E last \in [{UserOf[a] : a \in S} -> S] :
                    /\ \A u \in DOMAIN last : UserOf[last[u]] = u
                    /\ mem' = [mem EXCEPT ![c] =
                                  [u \in Users |-> IF u \in DOMAIN last
                                                   THEN bal[c][last[u]] ELSE k[u]]]
  <2>1. /\ loaded' = [loaded EXCEPT ![c] = h]
        /\ bound' = [bound EXCEPT ![c] = IF reset THEN its ELSE @ \cup its]
        /\ Loads(its, kept)
    BY ZenonT(40) DEF LoadStakeBindingsToHeight, LoadFrom
  <2>2. its = items /\ kept = mem[c] /\ ~reset
    BY <1>0, <1>1, <1>2, ZenonT(40)
  <2>. HIDE DEF its, kept, reset, Loads
  <2>3. Loads(items, mem[c]) /\ bound' = [bound EXCEPT ![c] = @ \cup items]
    BY <2>1, <2>2, Zenon
  <2>. QED
    BY <2>1, <2>3, ZenonT(40) DEF Loads
<1>5. PICK last \in [{UserOf[a] : a \in items} -> items] :
            /\ \A u \in DOMAIN last : UserOf[last[u]] = u
            /\ mem' = [mem EXCEPT ![c] =
                          [u \in Users |-> IF u \in DOMAIN last THEN bal[c][last[u]]
                                           ELSE mem[c][u]]]
  BY <1>4, ZenonT(40)
<1>6. PICK f \in [Addrs -> Int] : f = bal[c]
  BY Zenon DEF StoreType
<1>7. Reloaded(f, SumOf(f, Bound(n)), last) = SumOf(f, Bound(n) \cup items)
  <2>1. PICK B \in SUBSET Addrs : B = Bound(n)
    BY <1>3, Zenon
  <2>2. /\ items \in SUBSET Addrs /\ last \in [{UserOf[a] : a \in items} -> items]
        /\ \A u \in DOMAIN last : UserOf[last[u]] = u
    BY <1>3, <1>5, Zenon
  <2>3. Reloaded(f, SumOf(f, B), last) = SumOf(f, B \cup items)
    BY <1>6, <2>1, <2>2, SumOfLoaded, SMTT(30)
  <2>. QED
    BY <2>1, <2>3, Zenon
<1>8. mem[c] = SumOf(f, Bound(n)) /\ bound[c] = Bound(n)
  BY <1>0, <1>6, Zenon
<1>9. mem' = [mem EXCEPT ![c] = SumOf(f, Bound(h))]
  BY <1>3, <1>5, <1>6, <1>7, <1>8, Zenon DEF Reloaded
<1>10. bound' = [bound EXCEPT ![c] = Bound(h)]
  BY <1>3, <1>4, <1>8, ZenonT(40)
<1>11. SumOf(f, Bound(h)) \in [Users -> Int]
  BY <1>3, SumOfType, Zenon
<1>. QED
  <2>1. mem' \in [Consumers -> [Users -> Int]] /\ mem'[c] = SumOf(f, Bound(h))
    BY <1>9, <1>11, Zenon DEF StoreType
  <2>2. bound' \in [Consumers -> SUBSET Addrs] /\ bound'[c] = Bound(h)
    BY <1>3, <1>10, Zenon DEF StoreType
  <2>3. loaded'[c] = h
    BY <1>4, Zenon DEF LoopType
  <2>. QED
    BY <1>3, <1>4, <1>6, <2>1, <2>2, <2>3, Zenon DEF StoreType

\* A consumer's step leaves the other one's snapshot alone.
LEMMA OtherStore ==
    ASSUME LoopType, StoreType, NEW c \in Consumers, NEW d \in Consumers, d # c,
           Step(c) \/ FlushFails(c) \/ Fail(c) \/ BalanceReadFails(c)
    PROVE  read'[d] = read[d] /\ bound'[d] = bound[d] /\ mem'[d] = mem[d] /\ bal'[d] = bal[d]
<1>. USE DEF StoreType, loop, memory, redis
<1>1. CASE Start(c) \/ Poll(c) \/ NotCommitted(c) \/ StageDeltas(c)
  BY <1>1, Zenon
     DEF Start, Poll, LoadStakeBindingsToHeight, LoadFrom, NotCommitted, StageDeltas,
     ReadDeltas
<1>2. CASE DeletePending(c) \/ Fail(c) \/ Subtract(c) \/ UpsertPending(c) \/ Allocate(c)
           \/ Announce(c)
  BY <1>2, Zenon DEF DeletePending, Fail, Subtract, UpsertPending, Allocate, Announce
<1>3. CASE LoadBindings(c) \/ BalanceReadFails(c)
  BY <1>3, ZenonT(40) DEF LoadBindings, LoadStakeBindingsToHeight, LoadFrom, BalanceReadFails
<1>4. CASE Flush(c) \/ FlushFails(c) \/ Advance(c)
  BY <1>4, Zenon DEF Flush, FlushFails, Execute, Executed, Advance
<1>. QED
  BY <1>1, <1>2, <1>3, <1>4, Zenon DEF Step

\* The steps that read and write rows leave the snapshots alone.
Quiet(c) ==
    \/ NotCommitted(c) \/ Allocate(c) \/ Subtract(c) \/ DeletePending(c) \/ Announce(c)
    \/ UpsertPending(c)

\* The steps that write rewards leave the memory of a consumer alone.
LEMMA FollowsQuiet ==
    ASSUME LoopType, StoreType, NEW c \in Consumers, Follows(c), Quiet(c)
    PROVE  StoreType' /\ Follows(c)'
<1>1. UNCHANGED <<chain, hgt, loaded, cursor, read, bound, mem, bal>>
  BY ZenonT(40)
     DEF Quiet, NotCommitted, Allocate, Subtract, DeletePending, Announce, UpsertPending,
     loop, memory, redis
<1>2. \/ pc[c] = "load" /\ pc'[c] = "poll"
      \/ pc[c] \in Working \ {"load", "stage"} /\ pc'[c] \in Working \ {"load", "stage"}
  BY Zenon DEF Quiet, NotCommitted, Allocate, Subtract, DeletePending, Announce, UpsertPending,
     Working, LoopType
<1>3. PICK n, m, k : n = cursor[c] /\ m = hgt[c] /\ k = loaded[c]
  BY Zenon
<1>4. Balances(n)' = Balances(n) /\ Bound(k)' = Bound(k) /\ StakesAt(m)' = StakesAt(m)
  BY <1>1, SameChain, Zenon
<1>. QED
  BY <1>1, <1>2, <1>3, <1>4, ZenonT(40) DEF Follows, StoreType, Working

\* Starting loads the bindings of the cursor.
LEMMA FollowsStart ==
    ASSUME LoopType, LoopInv, StoreType, TopInv, Undisturbed, NEW c \in Consumers,
           Follows(c), Start(c)
    PROVE  StoreType' /\ Follows(c)'
<1>0. PICK n \in Nat : n = cursor[c]
  BY Zenon DEF LoopType
<1>1. UNCHANGED <<chain, cursor, bal, read>> /\ pc[c] = "off" /\ pc'[c] = "poll"
  BY Zenon DEF Start, LoopType, loop, redis
<1>2. loaded[c] = 0 /\ bound[c] = {} /\ mem[c] = Zero(Users) /\ bal[c] = Balances(n)
  <2>1. Bound(0) = {}
    BY BoundMore
  <2>. QED
    BY <1>0, <1>1, <2>1, Zenon DEF Follows
<1>3. PICK f \in [Addrs -> Int] : f = bal[c]
  BY SMTT(30) DEF StoreType
<1>4. SumOf(f, {}) = Zero(Users)
  <2>1. SumOf(f, {}) \in [Users -> Int]
    BY SumOfType, SMTT(30)
  <2>2. \A u \in Users : SumOf(f, {})[u] = 0
    BY SumOfNone, Zenon
  <2>. QED
    BY <2>1, <2>2, SMTT(30) DEF Zero
<1>5. Balances(n)' = Balances(n) /\ Bound(n)' = Bound(n)
  BY <1>1, SameChain, Zenon
<1>6. CASE n = 0
  <2>1. UNCHANGED <<loaded, bound, mem>>
    BY <1>0, <1>6, Zenon DEF Start
  <2>2. Bound(0) = {}
    BY BoundMore, SMTT(30)
  <2>. QED
    BY <1>0, <1>1, <1>2, <1>3, <1>4, <1>5, <1>6, <2>1, <2>2, Zenon
       DEF Follows, StoreType, Working
<1>7. CASE n # 0
  <2>1. LoadStakeBindingsToHeight(c, n)
    BY <1>0, <1>7, Zenon DEF Start
  <2>2. loaded[c] < n /\ bound[c] = Bound(loaded[c]) /\ mem[c] = SumOf(bal[c], bound[c])
    BY <1>2, <1>3, <1>4, <1>7, SMTT(30) DEF Follows
  <2>3. /\ loaded'[c] = n /\ bound'[c] = Bound(n) /\ mem'[c] = SumOf(bal[c], Bound(n))
        /\ bound' \in [Consumers -> SUBSET Addrs] /\ mem' \in [Consumers -> [Users -> Int]]
    BY <2>1, <2>2, LoadStep, Zenon DEF Undisturbed
  <2>. QED
    BY <1>0, <1>1, <1>2, <1>5, <2>3, Zenon DEF Follows, StoreType, Working
<1>. QED
  BY <1>6, <1>7, Zenon

\* So does taking up the next height.
LEMMA FollowsLoad ==
    ASSUME LoopType, LoopInv, StoreType, TopInv, Undisturbed, NEW c \in Consumers,
           Follows(c), LoadBindings(c)
    PROVE  StoreType' /\ Follows(c)'
<1>1. /\ UNCHANGED <<chain, cursor, hgt, bal>> /\ pc[c] = "load" /\ pc'[c] = "stage"
      /\ read' = [read EXCEPT ![c].reward = chain[hgt[c]].reward]
      /\ LoadStakeBindingsToHeight(c, hgt[c])
  BY SMTT(30) DEF LoadBindings, LoopType, redis
<1>2. PICK n \in Nat, m \in Nat : n = cursor[c] /\ m = hgt[c]
  BY Zenon DEF LoopType
<1>3. m = n + 1 /\ m \in 1 .. Len(chain)
  BY <1>1, <1>2, AtHeight, SMTT(30) DEF Working
<1>4. loaded[c] < m /\ bound[c] = Bound(loaded[c]) /\ mem[c] = SumOf(bal[c], bound[c])
  BY <1>1, <1>2, <1>3, SMTT(30) DEF Follows
<1>5. /\ loaded'[c] = m /\ bound'[c] = Bound(m) /\ mem'[c] = SumOf(bal[c], Bound(m))
      /\ bound' \in [Consumers -> SUBSET Addrs] /\ mem' \in [Consumers -> [Users -> Int]]
  BY <1>1, <1>2, <1>4, LoadStep, SMTT(30) DEF Undisturbed
<1>6. Balances(n)' = Balances(n) /\ Bound(m)' = Bound(m)
  BY <1>1, SameChain, SMTT(30)
<1>7. chain[m].reward \in Nat
  BY <1>3, BlockType, Zenon
<1>8. read' \in [Consumers -> [reward : Nat, delta : [Addrs -> Int]]]
      /\ read'[c].reward = chain[m].reward
  BY <1>1, <1>2, <1>7, Zenon DEF StoreType
<1>. QED
  BY <1>1, <1>2, <1>5, <1>6, <1>8, Zenon DEF Follows, StoreType, Working

\* The balances of the next height are non-negative and reached by its deltas.
LEMMA BalancesNext ==
    ASSUME LoopType, NeverOverdrawn, NEW n \in Nat, NEW m \in Nat, m = n + 1, m <= Len(chain)
    PROVE  \E f \in [Addrs -> Int], g \in [Addrs -> Int], k \in [Addrs -> Nat] :
              /\ f = Balances(n) /\ g = chain[m].delta /\ k = Balances(m)
              /\ \A a \in Addrs : k[a] = f[a] + g[a]
<1>1. Len(chain) \in Nat /\ n + 1 <= Len(chain)
  BY SMTT(30) DEF LoopType
<1>2. m \in 1 .. Len(chain)
  BY <1>1, SMTT(30)
<1>3. chain[m].delta \in [Addrs -> Int]
  BY <1>2, BlockType, Zenon
<1>4. \A a \in Addrs : Balance(n + 1, a) = Balance(n, a) + chain[n + 1].delta[a]
                       /\ Balance(n, a) \in Int
  BY <1>1, BalanceNext, Zenon
<1>5. \A a \in Addrs : Balance(m, a) \in Nat
  BY BalanceNat, Zenon DEF LoopType
<1>6. Balances(n) \in [Addrs -> Int] /\ Balances(m) \in [Addrs -> Nat]
  BY <1>4, <1>5, Zenon DEF Balances
<1>7. \A a \in Addrs : Balances(m)[a] = Balances(n)[a] + chain[m].delta[a]
  BY <1>4, Zenon DEF Balances
<1>. QED
  BY <1>3, <1>6, <1>7, Zenon

\* Staging the deltas takes the memory to the stakes of the height.
LEMMA FollowsStage ==
    ASSUME LoopType, LoopInv, StoreType, TopInv, Undisturbed, NEW c \in Consumers,
           Follows(c), StageDeltas(c)
    PROVE  StoreType' /\ Follows(c)'
<1>1. PICK n \in Nat, m \in Nat : n = cursor[c] /\ m = hgt[c]
  BY DEF LoopType
<1>2. pc[c] = "stage" /\ UNCHANGED <<chain, cursor, hgt, bal, loaded, bound>>
  BY DEF StageDeltas, ReadDeltas, redis
<1>3. pc'[c] \in {"flush", "reward"}
  BY SMTT(30) DEF StageDeltas, ReadDeltas, LoopType
<1>4. m = n + 1 /\ m \in 1 .. Len(chain) /\ m <= Len(chain) /\ loaded[c] = m
  BY <1>1, <1>2, AtHeight, ZenonT(40) DEF Working, LoopInv, InBatch
<1>5. PICK f \in [Addrs -> Int], g \in [Addrs -> Int], k \in [Addrs -> Nat] :
         /\ f = Balances(n) /\ g = chain[m].delta /\ k = Balances(m)
         /\ \A a \in Addrs : k[a] = f[a] + g[a]
  BY <1>4, BalancesNext, Zenon DEF Undisturbed
<1>6. read' = [read EXCEPT ![c].delta = [a \in Addrs |-> g[a]]]
  BY <1>1, <1>4, <1>5, Zenon DEF StageDeltas, ReadDeltas, indexed
<1>7. read' = [read EXCEPT ![c].delta = g]
  BY <1>6, Zenon
<1>8. /\ read' \in [Consumers -> [reward : Nat, delta : [Addrs -> Int]]]
      /\ read'[c].delta = g /\ read'[c].reward = read[c].reward
  BY <1>7, ZenonT(40) DEF StoreType
<1>9. PICK B \in SUBSET Addrs : B = bound[c] /\ B = Bound(m)
  BY <1>4, Zenon DEF StoreType, Follows
<1>10. mem[c] = SumOf(f, B)
  BY <1>1, <1>2, <1>5, <1>9, ZenonT(40) DEF Follows
<1>11. mem' = [mem EXCEPT ![c] =
                  [u \in Users |-> Max({0, SumOf(f, B)[u] + SumOf(g, B)[u]})]]
  BY <1>8, <1>9, <1>10, Zenon DEF StageDeltas, Staged
<1>12. [u \in Users |-> Max({0, SumOf(f, B)[u] + SumOf(g, B)[u]})] = SumOf(k, B)
  BY <1>5, SumOfMoved, SMTT(30) DEF Undisturbed
<1>13. SumOf(k, B) = StakesAt(m) /\ SumOf(k, B) \in [Users -> Int]
  <2>1. k \in [Addrs -> Int]
    BY SMTT(30)
  <2>2. SumOf(k, B) = StakesAt(m)
    BY <1>5, <1>9, Zenon DEF StakesAt, Balances
  <2>. QED
    BY <2>1, <2>2, SumOfType, Zenon
<1>14. mem' \in [Consumers -> [Users -> Int]] /\ mem'[c] = StakesAt(m)
  BY <1>11, <1>12, <1>13, Zenon DEF StoreType
<1>15. Balances(n)' = Balances(n) /\ Bound(m)' = Bound(m) /\ StakesAt(m)' = StakesAt(m)
  BY <1>2, SameChain, Zenon
<1>16. StoreType'
  BY <1>2, <1>8, <1>14, Zenon DEF StoreType
<1>17. (bal[c] = Balances(cursor[c]))' /\ (bound[c] = Bound(loaded[c]))'
  BY <1>1, <1>2, <1>4, <1>15, Zenon DEF Follows
<1>18. read[c].reward = chain[m].reward
  BY <1>1, <1>2, ZenonT(40) DEF Follows, Working
<1>19. read'[c].reward = chain'[hgt'[c]].reward /\ read'[c].delta = chain'[hgt'[c]].delta
       /\ mem'[c] = StakesAt(m)' /\ m = hgt'[c]
  BY <1>1, <1>2, <1>5, <1>8, <1>14, <1>15, <1>18, ZenonT(40)
<1>. QED
  BY <1>3, <1>16, <1>17, <1>19, Zenon DEF Follows, Working

\* Where no flush is cut, it runs all its commands, whether or not its replies
\* arrive.
LEMMA FlushDoes ==
    ASSUME Undisturbed, NEW c \in Consumers, Flush(c) \/ FlushFails(c)
    PROVE  /\ pc[c] = "flush"
           /\ pc' \in {[pc EXCEPT ![c] = "clean"], [pc EXCEPT ![c] = "poll"]}
           /\ UNCHANGED <<chain, top, hgt, end, read, loaded, bound, mem, held, rows>>
           /\ total' \in {slow[c].total, total}
           /\ paid' = [k \in Consumers |->
                         [p \in DOMAIN paid[k] |-> paid[k][p] + slow[c].inc[k][p]]]
           /\ bal' = [bal EXCEPT ![c] = [a \in Addrs |-> @[a] + read[c].delta[a]]]
           /\ cursor' = [cursor EXCEPT ![c] = hgt[c]]
           /\ slow' = [slow EXCEPT ![c] = NoWrites]
<1>1. /\ pc[c] = "flush" /\ Execute(c, 4)
      /\ pc' \in {[pc EXCEPT ![c] = "clean"], [pc EXCEPT ![c] = "poll"]}
  <2>1. CASE Flush(c)
    BY <2>1, Zenon DEF Flush
  <2>2. CASE FlushFails(c)
    <3>1. PICK upto \in Stages \cup {0} :
             Budget(IF upto = 4 THEN "lost" ELSE "partial") /\ Execute(c, upto)
      BY <2>2, Zenon DEF FlushFails
    <3>2. upto = 4
      BY <3>1, Zenon DEF Undisturbed, Budget
    <3>. QED
      BY <2>2, <3>1, <3>2, Zenon DEF FlushFails
  <2>. QED
    BY <2>1, <2>2, Zenon
<1>2. 4 >= 1 /\ ~(4 < 2) /\ ~(4 < 3) /\ ~(4 < 4)
  OBVIOUS
<1>. QED
  BY <1>1, <1>2, Zenon DEF Execute, Executed, loop

\* The flush writes the balances of the height together with the cursor.
LEMMA FollowsFlush ==
    ASSUME LoopType, LoopInv, StoreType, TopInv, Undisturbed, NEW c \in Consumers,
           Follows(c), Flush(c) \/ FlushFails(c)
    PROVE  StoreType' /\ Follows(c)'
<1>1. PICK n \in Nat, m \in Nat : n = cursor[c] /\ m = hgt[c]
  BY Zenon DEF LoopType
<1>2. /\ pc[c] = "flush" /\ pc'[c] \in {"poll", "clean"}
      /\ UNCHANGED <<chain, hgt, loaded, bound, mem, read>>
      /\ bal' = [bal EXCEPT ![c] = [a \in Addrs |-> @[a] + read[c].delta[a]]]
      /\ cursor' = [cursor EXCEPT ![c] = hgt[c]]
  BY FlushDoes, Zenon DEF LoopType
<1>3. m = n + 1 /\ m \in 1 .. Len(chain) /\ m <= Len(chain) /\ loaded[c] = m
  BY <1>1, <1>2, AtHeight, Zenon DEF Working, LoopInv, InBatch
<1>4. PICK f \in [Addrs -> Int], g \in [Addrs -> Int], k \in [Addrs -> Nat] :
         /\ f = Balances(n) /\ g = chain[m].delta /\ k = Balances(m)
         /\ \A a \in Addrs : k[a] = f[a] + g[a]
  BY <1>3, BalancesNext, Zenon DEF Undisturbed
<1>5. bal[c] = f /\ read[c].delta = g /\ mem[c] = StakesAt(m) /\ bound[c] = Bound(m)
  BY <1>1, <1>2, <1>3, <1>4, Zenon DEF Follows, Working
<1>6. [a \in Addrs |-> f[a] + g[a]] = k
  BY <1>4, Zenon
<1>7. bal' = [bal EXCEPT ![c] = k]
  BY <1>2, <1>5, <1>6, ZenonT(40)
<1>8. bal'[c] = k /\ bal' \in [Consumers -> [Addrs -> Int]] /\ cursor'[c] = m
  BY <1>1, <1>2, <1>7, SMTT(30) DEF StoreType, LoopType
<1>9. Balances(m)' = Balances(m) /\ Bound(m)' = Bound(m)
  BY <1>2, SameChain, Zenon
<1>10. StakesAt(m) = SumOf(k, Bound(m))
  BY <1>4, Zenon DEF StakesAt, Balances
<1>11. StoreType'
  BY <1>2, <1>8, ZenonT(40) DEF StoreType
<1>12. (bal[c] = Balances(cursor[c]))' /\ (bound[c] = Bound(loaded[c]))'
       /\ (loaded[c] = cursor[c])'
  BY <1>2, <1>3, <1>4, <1>5, <1>8, <1>9, ZenonT(40)
<1>13. mem'[c] = SumOf(bal'[c], bound'[c])
  BY <1>2, <1>5, <1>8, <1>10, ZenonT(40)
<1>. QED
  BY <1>2, <1>11, <1>12, <1>13, Zenon DEF Follows, Working

\* Polling and going on to the next height leave the snapshots alone.
LEMMA FollowsLoop ==
    ASSUME LoopType, StoreType, NEW c \in Consumers, Follows(c), Poll(c) \/ Advance(c)
    PROVE  StoreType' /\ Follows(c)'
<1>1. UNCHANGED <<chain, loaded, cursor, bound, mem, bal>>
  BY Zenon DEF Poll, Advance, memory, redis
<1>2. pc[c] \in {"poll", "clean"} /\ pc'[c] \in {"poll", "load"}
  BY Zenon DEF Poll, Advance, LoopType
<1>3. PICK n, k : n = cursor[c] /\ k = loaded[c]
  BY Zenon
<1>4. Balances(n)' = Balances(n) /\ Bound(k)' = Bound(k)
  BY <1>1, SameChain, Zenon
<1>5. Nothing \in [reward : Nat, delta : [Addrs -> Int]]
  BY SMTT(30) DEF Nothing, Zero
<1>6. read' \in [Consumers -> [reward : Nat, delta : [Addrs -> Int]]]
  BY <1>5, ZenonT(40) DEF Poll, Advance, StoreType
<1>. QED
  BY <1>1, <1>2, <1>3, <1>4, <1>6, Zenon DEF Follows, StoreType, Working

\* Every step leaves the snapshots following the chain.
LEMMA SnapshotStep ==
    ASSUME LoopType, LoopInv, SnapshotInv, Undisturbed, [Next]_vars
    PROVE  SnapshotInv'
<1>1. CASE UNCHANGED vars
  <2>1. UNCHANGED <<chain, top, pc, hgt, loaded, cursor, read, bound, mem, bal>>
    BY <1>1, Zenon DEF vars, loop, memory, redis
  <2>2. ASSUME NEW c \in Consumers PROVE Follows(c)'
    <3>1. PICK n, m, k : n = cursor[c] /\ m = hgt[c] /\ k = loaded[c]
      BY Zenon
    <3>2. Balances(n)' = Balances(n) /\ Bound(k)' = Bound(k) /\ StakesAt(m)' = StakesAt(m)
      BY <2>1, SameChain, Zenon
    <3>. QED
      BY <2>1, <3>1, <3>2, Zenon DEF SnapshotInv, Follows
  <2>. QED
    BY <2>1, <2>2, Zenon DEF SnapshotInv, StoreType, TopInv
<1>2. CASE Commit \/ Rollback
  BY <1>2, FollowsChain, Zenon
<1>3. CASE Crash
  <2>1. /\ UNCHANGED <<chain, top, cursor, bal>> /\ pc' = [c \in Consumers |-> "off"]
        /\ read' = [c \in Consumers |-> Nothing] /\ bound' = [c \in Consumers |-> {}]
        /\ loaded' = [c \in Consumers |-> 0] /\ mem' = [c \in Consumers |-> Zero(Users)]
    BY <1>3, Zenon DEF Crash, redis, Zero
  <2>2. Nothing \in [reward : Nat, delta : [Addrs -> Int]] /\ Zero(Users) \in [Users -> Int]
    BY SMTT(30) DEF Nothing, Zero
  <2>3. StoreType' /\ TopInv'
    BY <2>1, <2>2, Zenon DEF SnapshotInv, StoreType, TopInv
  <2>4. ASSUME NEW c \in Consumers PROVE Follows(c)'
    <3>1. PICK n : n = cursor[c]
      BY SMTT(30)
    <3>2. Balances(n)' = Balances(n) /\ Bound(0)' = Bound(0) /\ Bound(0) = {}
      BY <2>1, SameChain, BoundMore, SMTT(30)
    <3>. QED
      BY <2>1, <3>1, <3>2, Zenon DEF SnapshotInv, Follows, Working
  <2>. QED
    BY <2>3, <2>4, Zenon DEF SnapshotInv
<1>4. ASSUME NEW c \in Consumers,
             Step(c) \/ FlushFails(c) \/ Fail(c) \/ BalanceReadFails(c)
      PROVE  SnapshotInv'
  <2>1. UNCHANGED <<chain, top>> /\ StoreType /\ TopInv /\ Follows(c)
    BY <1>4, StepLoop, Zenon DEF SnapshotInv
  <2>2. ~Fail(c) /\ ~BalanceReadFails(c)
    BY Zenon DEF Undisturbed, Fail, BalanceReadFails, Budget
  <2>3. StoreType' /\ Follows(c)'
    BY <1>4, <2>1, <2>2, FollowsQuiet, FollowsStart, FollowsLoad, FollowsStage,
         FollowsFlush,
       FollowsLoop, Zenon DEF Step, Quiet
  <2>4. ASSUME NEW d \in Consumers, d # c PROVE Follows(d)'
    <3>1. PICK n, m, k : n = cursor[d] /\ m = hgt[d] /\ k = loaded[d]
      BY Zenon
    <3>2. Balances(n)' = Balances(n) /\ Bound(k)' = Bound(k) /\ StakesAt(m)' = StakesAt(m)
      BY <2>1, SameChain, Zenon
    <3>3. /\ pc'[d] = pc[d] /\ hgt'[d] = hgt[d] /\ loaded'[d] = loaded[d]
          /\ cursor'[d] = cursor[d] /\ read'[d] = read[d] /\ bound'[d] = bound[d]
          /\ mem'[d] = mem[d] /\ bal'[d] = bal[d]
      BY <1>4, <2>1, <2>4, OtherLoop, OtherStore, Zenon
    <3>. QED
      BY <2>1, <3>1, <3>2, <3>3, Zenon DEF SnapshotInv, Follows
  <2>5. TopInv'
    BY <2>1 DEF TopInv
  <2>. QED
    BY <2>3, <2>4, <2>5, Zenon DEF SnapshotInv
<1>. QED
  BY <1>1, <1>2, <1>3, <1>4, Zenon DEF Next

\* The consumers' balances, bindings and stakes are those of the committed
\* blocks at their height, in every state that can be reached.
THEOREM SnapshotInvariant ==
    ASSUME Undisturbed PROVE Spec => [](LoopType /\ LoopInv /\ SnapshotInv)
<1>1. Init => SnapshotInv
  <2>. SUFFICES ASSUME Init PROVE SnapshotInv
    BY SMTT(30)
  <2>1. LoopType
    BY ConsumerAssumption, SMTT(30) DEF Init, LoopType, Zero, States, Consumers
  <2>2. Nothing \in [reward : Nat, delta : [Addrs -> Int]] /\ Zero(Users) \in [Users -> Int]
        /\ Zero(Addrs) \in [Addrs -> Int]
    BY SMTT(30) DEF Nothing, Zero
  <2>3. StoreType /\ TopInv
    BY <2>2, ConsumerAssumption, SMTT(30) DEF Init, StoreType, TopInv
  <2>4. Balances(0) = Zero(Addrs) /\ Bound(0) = {}
    BY <2>1, BalanceZero, BoundMore, SMTT(30) DEF Balances, Zero
  <2>5. ASSUME NEW c \in Consumers PROVE Follows(c)
    BY <2>4, Zenon DEF Init, Follows, Working, Zero
  <2>. QED
    BY <2>3, <2>5, SMTT(30) DEF SnapshotInv
<1>2. LoopType /\ LoopInv /\ SnapshotInv /\ [Next]_vars => SnapshotInv'
  BY SnapshotStep, Zenon
<1>. QED
  BY <1>1, <1>2, LoopInvariant, PTL DEF Spec

\* A manager's stakes are the snapshot balances whenever it is between two
\* batches, whatever crashes, is rolled back or is answered too late, as long
\* as no call fails inside a block, no user has two stake addresses and
\* reorganisations end above the heights that are consumed (Undisturbed).
THEOREM MemoryFollows == ASSUME Undisturbed PROVE Spec => []MemoryIsSnapshot
<1>1. SnapshotInv => MemoryIsSnapshot
  BY Zenon DEF SnapshotInv, Follows, MemoryIsSnapshot, Idle
<1>. QED
  BY <1>1, SnapshotInvariant, PTL
===============================================================================
