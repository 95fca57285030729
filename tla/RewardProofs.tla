----------------------------- MODULE RewardProofs -----------------------------
(***************************************************************************)
(* Proofs about what a reward is made of.  Of RewardAllocation, for every  *)
(* configuration the loader accepts, every set of proofs, and any stakes   *)
(* and amounts; of CommissionView, for every activation delay, every       *)
(* distance of the consumers from the tip and every number of blocks.      *)
(***************************************************************************)
EXTENDS RewardAllocation, CommissionView, SumLemmas

(***************************************************************************)
(* Products and quotients                                                  *)
(***************************************************************************)

\* A larger factor makes a product no smaller.
LEMMA TimesMono ==
    ASSUME NEW c \in Nat, NEW a \in Int, NEW b \in Int, a <= b PROVE c * a <= c * b
<1>1. PICK d \in Nat : d = b - a
  OBVIOUS
<1>2. c * b = c * a + c * d /\ c * d \in Nat
  BY <1>1
<1>. QED
  BY <1>2

\* A positive factor may be cancelled.
LEMMA TimesCancel ==
    ASSUME NEW c \in Nat \ {0}, NEW a \in Int, NEW b \in Int, c * a <= c * b PROVE a <= b
<1>1. SUFFICES ASSUME b + 1 <= a PROVE FALSE
  OBVIOUS
<1>2. c * (b + 1) <= c * a
  BY <1>1, TimesMono
<1>3. c * (b + 1) = c * b + c
  OBVIOUS
<1>. QED
  BY <1>2, <1>3

\* A quotient lies between its neighbours.
LEMMA Quotient ==
    ASSUME NEW a \in Nat, NEW b \in Nat \ {0}
    PROVE  /\ a \div b \in Nat
           /\ b * (a \div b) <= a
           /\ a + 1 <= b * ((a \div b) + 1)
OBVIOUS

\* Quotients by one divisor keep the order.
LEMMA QuotientMono ==
    ASSUME NEW a \in Nat, NEW b \in Nat, a <= b, NEW c \in Nat \ {0}
    PROVE  a \div c <= b \div c
<1>1. PICK x \in Nat, y \in Nat : x = a \div c /\ y = b \div c
  BY Quotient, Zenon
<1>2. c * x <= a /\ b + 1 <= c * (y + 1)
  BY <1>1, Quotient
<1>3. SUFFICES ASSUME y + 1 <= x PROVE FALSE
  BY <1>1
<1>4. c * (y + 1) <= c * x
  BY <1>3, TimesMono
<1>5. c * (y + 1) \in Int /\ c * x \in Int
  OBVIOUS
<1>. QED
  BY <1>2, <1>4, <1>5

\* The sum of c * f + d.
LEMMA SumLinear ==
    ASSUME NEW S, IsFiniteSet(S), NEW f, \A x \in S : f[x] \in Int,
           NEW c \in Int, NEW d \in Int, NEW g, \A x \in S : g[x] = c * f[x] + d
    PROVE  /\ Cardinality(S) \in Nat /\ SumFunctionOnSet(f, S) \in Int
           /\ SumFunctionOnSet(g, S) = c * SumFunctionOnSet(f, S) + d * Cardinality(S)
<1>. DEFINE Sm(k, T) == SumFunctionOnSet(k, T)
            P == {T \in SUBSET S : Sm(g, T) = c * Sm(f, T) + d * Cardinality(T)}
<1>1. {} \in P
  <2>1. Sm(g, {}) = 0 /\ Sm(f, {}) = 0 /\ Cardinality({}) = 0
    BY SumEmpty, FS_EmptySet
  <2>. QED
    BY <2>1
<1>2. ASSUME NEW T \in SUBSET S, NEW x \in S \ T, T \in P PROVE T \cup {x} \in P
  <2>1. IsFiniteSet(T) /\ Cardinality(T) \in Nat
    BY FS_Subset, FS_CardinalityType
  <2>2. Cardinality(T \cup {x}) = Cardinality(T) + 1
    BY <2>1, FS_AddElement, Zenon
  <2>3. f[x] \in Int /\ g[x] = c * f[x] + d /\ g[x] \in Int
    OBVIOUS
  <2>4. \A y \in T \cup {x} : f[y] \in Int /\ g[y] \in Int
    OBVIOUS
  <2>5. Sm(f, T) \in Int
    BY <2>1, <2>4, SumInt
  <2>6. Sm(f, T \cup {x}) = f[x] + Sm(f, T) /\ Sm(g, T \cup {x}) = g[x] + Sm(g, T)
    BY <2>1, <2>4, SumAdd
  <2>7. Sm(g, T) = c * Sm(f, T) + d * Cardinality(T)
    BY <1>2
  <2>8. PICK v \in Int, n \in Nat, e \in Int :
          v = Sm(f, T) /\ n = Cardinality(T) /\ e = f[x]
    BY <2>1, <2>3, <2>5
  <2>9. (c * e + d) + (c * v + d * n) = c * (e + v) + d * (n + 1)
    OBVIOUS
  <2>10. Sm(g, T \cup {x}) = c * Sm(f, T \cup {x}) + d * Cardinality(T \cup {x})
    BY <2>2, <2>3, <2>6, <2>7, <2>8, <2>9
  <2>. QED
    BY <2>10
<1>3. SUBSET S \subseteq P
  <2>. HIDE DEF P
  <2>. QED
    BY <1>1, <1>2, SetInd, Zenon
<1>4. S \in P
  BY <1>3
<1>. QED
  BY <1>4, FS_CardinalityType, SumInt
-------------------------------------------------------------------------------
(***************************************************************************)
(* The division of an amount.  What every party gets is its share up to    *)
(* the rounding of quantizeReward; the denominators cancel in the sum.     *)
(***************************************************************************)

\* quantizeReward in terms of products.  The epsilon of the truncation is
\* less than a unit, so that nothing is made of nothing.
LEMMA Quantized ==
    ASSUME EpsInv > 1, NEW num \in Nat, NEW den \in Nat \ {0}, NEW trunc \in BOOLEAN,
           NEW q, q = quantizeReward(num, den, trunc)
    PROVE  /\ q \in Nat
           /\ trunc => /\ (den * EpsInv) * q <= num * EpsInv + den
                       /\ num * EpsInv + den + 1 <= (den * EpsInv) * (q + 1)
           /\ ~trunc => /\ (2 * den) * q <= 2 * num + den
                        /\ 2 * num + den + 1 <= (2 * den) * (q + 1)
<1>1. PICK D \in Nat \ {0} : D = den * EpsInv
  BY EpsAssumption
<1>2. D >= 2 * den
  BY <1>1, EpsAssumption, TimesMono
<1>3. CASE num = 0
  <2>1. q = 0
    BY <1>3 DEF quantizeReward
  <2>2. D * 0 = 0 /\ D * (0 + 1) = D /\ (2 * den) * 0 = 0 /\ (2 * den) * (0 + 1) = 2 * den
        /\ 0 * EpsInv = 0
    BY EpsAssumption
  <2>3. /\ D * 0 <= 0 * EpsInv + den /\ 0 * EpsInv + den + 1 <= D * (0 + 1)
        /\ (2 * den) * 0 <= 2 * 0 + den /\ 2 * 0 + den + 1 <= (2 * den) * (0 + 1)
    BY <1>2, <2>2
  <2>. QED
    BY <1>1, <1>3, <2>1, <2>3
<1>4. CASE num # 0 /\ trunc
  <2>1. PICK N \in Nat : N = num * EpsInv + den
    BY EpsAssumption
  <2>2. q = N \div D
    BY <1>1, <1>4, <2>1 DEF quantizeReward
  <2>. QED
    BY <1>1, <1>4, <2>1, <2>2, Quotient, Zenon
<1>5. CASE num # 0 /\ ~trunc
  <2>1. PICK N \in Nat, E \in Nat \ {0} : N = 2 * num + den /\ E = 2 * den
    OBVIOUS
  <2>2. q = N \div E
    BY <1>5, <2>1 DEF quantizeReward
  <2>. QED
    BY <1>5, <2>1, <2>2, Quotient, Zenon
<1>. QED
  BY <1>3, <1>4, <1>5

\* The unit of the rounding: epsilon or a half.
Unit(trunc) == IF trunc THEN EpsInv ELSE 2

\* The same for both ways to round.
LEMMA QuantizedUnit ==
    ASSUME EpsInv > 1, NEW num \in Nat, NEW den \in Nat \ {0}, NEW trunc \in BOOLEAN,
           NEW K \in Nat, K = Unit(trunc), NEW q, q = quantizeReward(num, den, trunc)
    PROVE  /\ q \in Nat
           /\ (den * K) * q <= num * K + den
           /\ num * K + (den + 1) <= (den * K) * q + den * K
<1>1. q \in Nat
  BY Quantized
<1>2. CASE trunc
  <2>1. K = EpsInv
    BY <1>2 DEF Unit
  <2>2. /\ (den * EpsInv) * q <= num * EpsInv + den
        /\ num * EpsInv + den + 1 <= (den * EpsInv) * (q + 1)
    BY <1>2, Quantized, Zenon
  <2>3. PICK D \in Nat : D = den * EpsInv
    BY EpsAssumption
  <2>4. D * (q + 1) = D * q + D
    BY <1>1
  <2>5. num * K \in Nat /\ D * q \in Nat
    BY <1>1
  <2>. QED
    BY <1>1, <2>1, <2>2, <2>3, <2>4, <2>5
<1>3. CASE ~trunc
  <2>1. K = 2
    BY <1>3 DEF Unit
  <2>2. (2 * den) * q <= 2 * num + den /\ 2 * num + den + 1 <= (2 * den) * (q + 1)
    BY <1>3, Quantized
  <2>3. PICK D \in Nat : D = 2 * den /\ D = den * 2
    OBVIOUS
  <2>4. D * (q + 1) = D * q + D
    BY <1>1
  <2>5. 2 * num = num * 2
    OBVIOUS
  <2>. QED
    BY <1>1, <2>1, <2>2, <2>3, <2>4, <2>5
<1>. QED
  BY <1>2, <1>3

\* Amounts in proportion to weights w add up to the whole, up to one unit of
\* the rounding per party.
LEMMA Division ==
    ASSUME EpsInv > 1, NEW S, IsFiniteSet(S), NEW w, \A x \in S : w[x] \in Nat,
           NEW den \in Nat \ {0}, den = SumFunctionOnSet(w, S),
           NEW whole \in Nat, NEW trunc \in BOOLEAN, NEW K \in Nat \ {0}, K = Unit(trunc),
           NEW a, \A x \in S : a[x] = quantizeReward(whole * w[x], den, trunc)
    PROVE  /\ \A x \in S : a[x] \in Nat
           /\ SumFunctionOnSet(a, S) \in Nat /\ Cardinality(S) \in Nat \ {0}
           /\ K * SumFunctionOnSet(a, S) <= K * whole + Cardinality(S)
           /\ K * whole + Cardinality(S) <= K * (SumFunctionOnSet(a, S) + Cardinality(S))
<1>. DEFINE D == den * K
            c == whole * K
            top == [x \in S |-> c * w[x] + den]
            low == [x \in S |-> c * w[x] + (den + 1)]
            exact == [x \in S |-> D * a[x] + 0]
            next == [x \in S |-> D * a[x] + D]
<1>1. D \in Nat /\ c \in Nat
  OBVIOUS
<1>2. ASSUME NEW x \in S
      PROVE  a[x] \in Nat /\ D * a[x] <= c * w[x] + den
             /\ c * w[x] + (den + 1) <= D * a[x] + D
  <2>1. PICK num \in Nat : num = whole * w[x]
    OBVIOUS
  <2>2. num * K = c * w[x]
    BY <2>1
  <2>3. a[x] = quantizeReward(num, den, trunc)
    BY <2>1
  <2>. QED
    BY <2>2, <2>3, QuantizedUnit, ZenonT(40)
<1>3. \A x \in S : a[x] \in Int /\ w[x] \in Int
  BY <1>2
<1>4. PICK sum \in Nat, n \in Nat : sum = SumFunctionOnSet(a, S) /\ n = Cardinality(S)
  BY <1>2, SumNat, FS_CardinalityType
<1>5. n # 0
  BY <1>4, FS_EmptySet, SumEmpty
<1>. HIDE DEF D, c
<1>6. /\ SumFunctionOnSet(top, S) = c * den + den * n
      /\ SumFunctionOnSet(low, S) = c * den + (den + 1) * n
      /\ SumFunctionOnSet(exact, S) = D * sum + 0 * n
      /\ SumFunctionOnSet(next, S) = D * sum + D * n
  <2>1. \A x \in S : top[x] = c * w[x] + den /\ low[x] = c * w[x] + (den + 1)
                     /\ exact[x] = D * a[x] + 0 /\ next[x] = D * a[x] + D
    OBVIOUS
  <2>2. c \in Int /\ D \in Int /\ den \in Int /\ den + 1 \in Int /\ 0 \in Int
    BY <1>1, SMTT(30)
  <2>. HIDE DEF top, low, exact, next
  <2>3. SumFunctionOnSet(top, S) = c * SumFunctionOnSet(w, S) + den * Cardinality(S)
    BY <1>3, <2>1, <2>2, SumLinear, SMTT(30)
  <2>4. SumFunctionOnSet(low, S) = c * SumFunctionOnSet(w, S) + (den + 1) * Cardinality(S)
    BY <1>3, <2>1, <2>2, SumLinear, SMTT(30)
  <2>5. SumFunctionOnSet(exact, S) = D * SumFunctionOnSet(a, S) + 0 * Cardinality(S)
    BY <1>3, <2>1, <2>2, SumLinear, SMTT(30)
  <2>6. SumFunctionOnSet(next, S) = D * SumFunctionOnSet(a, S) + D * Cardinality(S)
    BY <1>3, <2>1, <2>2, SumLinear, SMTT(30)
  <2>. QED
    BY <1>4, <2>3, <2>4, <2>5, <2>6
<1>7. /\ SumFunctionOnSet(exact, S) <= SumFunctionOnSet(top, S)
      /\ SumFunctionOnSet(low, S) <= SumFunctionOnSet(next, S)
  <2>1. ASSUME NEW x \in S
        PROVE  /\ exact[x] \in Int /\ top[x] \in Int /\ exact[x] <= top[x]
               /\ low[x] \in Int /\ next[x] \in Int /\ low[x] <= next[x]
    <3>1. PICK e \in Int, g \in Int : e = D * a[x] /\ g = c * w[x]
      BY <1>1, <1>3
    <3>2. e <= g + den /\ g + (den + 1) <= e + D
      BY <1>2, <3>1
    <3>3. exact[x] = e + 0 /\ top[x] = g + den /\ low[x] = g + (den + 1) /\ next[x] = e + D
      BY <3>1
    <3>. QED
      BY <1>1, <3>2, <3>3
  <2>. HIDE DEF top, low, exact, next
  <2>. QED
    BY <2>1, SumMono, SMTT(30)
<1>8. K * sum <= K * whole + n
  <2>1. D * sum <= c * den + den * n
    BY <1>1, <1>4, <1>6, <1>7, SMTT(30)
  <2>2. D * sum = den * (K * sum) /\ c * den + den * n = den * (K * whole + n)
    BY DEF D, c
  <2>3. K * sum \in Int /\ K * whole + n \in Int
    OBVIOUS
  <2>. QED
    BY <2>1, <2>2, <2>3, TimesCancel, SMTT(30)
<1>9. K * whole + n <= K * (sum + n)
  <2>1. c * den + (den + 1) * n <= D * sum + D * n
    BY <1>6, <1>7, Zenon
  <2>2. /\ D * sum + D * n = den * (K * (sum + n))
        /\ c * den + (den + 1) * n = den * (K * whole + n) + n
    BY DEF D, c
  <2>3. PICK x \in Int, y \in Int : x = K * whole + n /\ y = K * (sum + n)
    OBVIOUS
  <2>4. den * x + n <= den * y
    BY <2>1, <2>2, <2>3
  <2>5. den * x \in Int /\ den * y \in Int
    OBVIOUS
  <2>6. den * x <= den * y
    BY <2>4, <2>5
  <2>. QED
    BY <2>3, <2>6, TimesCancel, SMTT(30)
<1>. QED
  BY <1>2, <1>4, <1>5, <1>8, <1>9, SMTT(30)
-------------------------------------------------------------------------------
(***************************************************************************)
(* What the loader lets through.                                           *)
(***************************************************************************)
ConfigOK(c) ==
    /\ \A f \in UintFields : c[f] \in Nat \ {0}
    /\ c.stage3Blocks \in Seq(Nat) /\ parseDelaySubmitStage3Blocks(c.stage3Blocks)
    /\ Len(c.tiers) \in Nat /\ parseRewardReleaseTiers(c.tiers)

\* conf.Load: every number is positive, the penalty steps ascend, and no tier
\* releases more than everything.
LEMMA LoadOK ==
    ASSUME NEW raw, RawType(raw), ~LoadFails(raw) PROVE ConfigOK(Load(Default, raw))
<1>. DEFINE c == Load(Default, raw)
<1>1. ASSUME NEW f \in UintFields PROVE c[f] \in Nat \ {0}
  <2>1. f \in DOMAIN Default /\ f \notin ListFields
    BY DefaultAssumption DEF UintFields, ListFields
  <2>2. c[f] = IF raw[f] = 0 THEN Default[f] ELSE raw[f]
    BY <2>1 DEF Load
  <2>3. raw[f] \in Nat /\ Default[f] \in Nat \ {0}
    BY DefaultAssumption DEF RawType
  <2>. QED
    BY <2>2, <2>3
<1>2. ASSUME NEW f \in {"stage3Blocks", "tiers"}
      PROVE  c[f] = IF f \in raw.isSet THEN raw[f] ELSE Default[f]
  BY DefaultAssumption, ZenonT(40) DEF Load, UintFields, ListFields
<1>3. c.stage3Blocks \in Seq(Nat) /\ parseDelaySubmitStage3Blocks(c.stage3Blocks)
  BY <1>2, DefaultAssumption DEF LoadFails, RawType
<1>4. Len(c.tiers) \in Nat /\ parseRewardReleaseTiers(c.tiers)
  <2>1. CASE "tiers" \notin raw.isSet
    <3>1. PICK T : T = [start : Nat, percent : 0 .. 1000]
      BY ZenonT(40)
    <3>2. PICK t \in Seq(T) : t = Default.tiers
      BY <3>1, DefaultAssumption
    <3>3. Len(t) \in Nat /\ \A k \in 1 .. Len(t) : t[k] \in T
      OBVIOUS
    <3>4. \A x \in T : x.percent \in 0 .. 1000
      BY <3>1
    <3>5. c.tiers = t
      BY <1>2, <2>1, <3>2
    <3>6. parseRewardReleaseTiers(t)
      BY <3>3, <3>4, ZenonT(40) DEF parseRewardReleaseTiers
    <3>. QED
      BY <3>3, <3>5, <3>6, Zenon
  <2>2. CASE "tiers" \in raw.isSet
    <3>1. PICK T : T = [start : Nat, percent : Int]
      BY Zenon
    <3>2. PICK t \in Seq(T) : t = raw.tiers
      BY <3>1 DEF RawType
    <3>. QED
      BY <1>2, <2>2, <3>2 DEF LoadFails
  <2>. QED
    BY <2>1, <2>2
<1>. QED
  BY <1>1, <1>3, <1>4 DEF ConfigOK

\* The numbers of a configuration by name.
LEMMA ConfigFields ==
    ASSUME NEW c, ConfigOK(c)
    PROVE  /\ c.proofWindow \in Nat \ {0} /\ c.triggerBlocks \in Nat \ {0}
           /\ c.stepBlocks \in Nat \ {0} /\ c.stepPercent \in Nat \ {0}
           /\ c.stage2Start \in Nat \ {0} /\ c.stage3Start \in Nat \ {0}
           /\ c.startReward \in Nat \ {0}
BY DEF ConfigOK, UintFields

\* The release is a part of the reward.
LEMMA ReleaseRange ==
    ASSUME NEW c, ConfigOK(c), NEW hh \in Nat
    PROVE  resolveRewardReleasePercent(c, hh) \in 0 .. 1000
<1>. DEFINE passed == {k \in 1 .. Len(c.tiers) : \A j \in 1 .. k : c.tiers[j].start <= hh}
            r == RewardReleasePercentByHeight(c, hh)
<1>1. Len(c.tiers) \in Nat
  BY SMTT(30) DEF ConfigOK
<1>2. r \in 0 .. 1000
  <2>1. CASE passed = {}
    BY <2>1 DEF RewardReleasePercentByHeight
  <2>2. CASE passed # {}
    <3>1. IsFiniteSet(1 .. Len(c.tiers)) /\ Cardinality(1 .. Len(c.tiers)) = Len(c.tiers)
      BY <1>1, FS_Interval, SMTT(30)
    <3>2. /\ IsFiniteSet(passed) /\ Cardinality(passed) <= Len(c.tiers)
          /\ Cardinality(passed) \in Nat
      BY <3>1, FS_Subset, FS_CardinalityType
    <3>3. Cardinality(passed) # 0
      BY <2>2, <3>2, FS_EmptySet, Zenon
    <3>4. Cardinality(passed) \in 1 .. Len(c.tiers)
      BY <1>1, <3>2, <3>3
    <3>5. r = c.tiers[Cardinality(passed)].percent
      BY <2>2, Zenon DEF RewardReleasePercentByHeight
    <3>6. \A k \in 1 .. Len(c.tiers) : c.tiers[k].percent \in 0 .. 1000
      BY Zenon DEF ConfigOK, parseRewardReleaseTiers
    <3>7. PICK n \in 1 .. Len(c.tiers) : n = Cardinality(passed)
      BY <3>4, Zenon
    <3>. HIDE DEF passed, r
    <3>. QED
      BY <3>5, <3>6, <3>7, ZenonT(40)
  <2>. QED
    BY <2>1, <2>2, ZenonT(40)
<1>3. \E x \in {1000, r} : \A y \in {1000, r} : x <= y
  BY <1>2, SMTT(30)
<1>4. Min({1000, r}) \in {1000, r}
  BY <1>3 DEF Min
<1>. QED
  BY <1>2, <1>4 DEF resolveRewardReleasePercent
-------------------------------------------------------------------------------
(***************************************************************************)
(* The penalties of a delay.                                               *)
(***************************************************************************)

\* The steps of stage 2 that a delay d has passed.
Steps(c, d) == (d - 1) \div c.stepBlocks

\* Stage 2: the percentage in terms of the steps, which grow with the delay;
\* within the window the penalty stays below 100.
LEMMA Stage2Steps ==
    ASSUME NEW c, ConfigOK(c), NEW d \in Nat \ {0}
    PROVE  /\ Steps(c, d) \in Nat /\ Steps(c, d) * c.stepPercent \in Nat
           /\ resolveStage2DelaySubmitStakePercent(c, d) =
                IF Steps(c, d) * c.stepPercent >= 100 THEN 0
                ELSE 100 - Steps(c, d) * c.stepPercent
           /\ \A e \in Nat : d <= e =>
                Steps(c, d) * c.stepPercent <= Steps(c, e) * c.stepPercent
           /\ d <= c.stepBlocks * ((100 + c.stepPercent - 1) \div c.stepPercent)
              => Steps(c, d) * c.stepPercent < 100
<1>1. PICK sb \in Nat \ {0}, sp \in Nat \ {0} : sb = c.stepBlocks /\ sp = c.stepPercent
  BY ConfigFields
<1>2. PICK k \in Nat : k = (d - 1) \div sb
  BY Quotient, SMTT(30)
<1>3. k = Steps(c, d)
  BY <1>1, <1>2 DEF Steps
<1>4. k * sp \in Nat
  OBVIOUS
<1>5. resolveStage2DelaySubmitStakePercent(c, d) = IF k * sp >= 100 THEN 0 ELSE 100 - k * sp
  BY <1>1, <1>2 DEF resolveStage2DelaySubmitStakePercent
<1>6. ASSUME NEW e \in Nat, d <= e PROVE k * sp <= Steps(c, e) * sp
  <2>1. PICK j \in Nat : j = (e - 1) \div sb
    BY <1>6, Quotient
  <2>2. d - 1 \in Nat /\ e - 1 \in Nat /\ d - 1 <= e - 1
    BY <1>6
  <2>3. k <= j
    BY <1>2, <2>1, <2>2, QuotientMono, SMTT(30)
  <2>4. sp * k <= sp * j
    BY <2>3, TimesMono
  <2>5. sp * k = k * sp /\ sp * j = j * sp
    OBVIOUS
  <2>6. j = Steps(c, e)
    BY <1>1, <2>1 DEF Steps
  <2>. QED
    BY <2>4, <2>5, <2>6
<1>7. ASSUME d <= sb * ((100 + sp - 1) \div sp) PROVE k * sp < 100
  <2>1. PICK N \in Nat : N = 100 + sp - 1
    OBVIOUS
  <2>2. PICK m \in Nat : m = N \div sp
    BY Quotient, Zenon
  <2>3. sp * m <= N /\ N + 1 <= sp * (m + 1)
    BY <2>2, Quotient
  <2>4. PICK e \in Nat : e = d - 1
    OBVIOUS
  <2>5. sb * k <= e
    BY <1>2, <2>4, Quotient
  <2>6. d <= sb * m
    BY <1>7, <2>1, <2>2
  <2>7. k + 1 <= m
    <3>1. SUFFICES ASSUME m <= k PROVE FALSE
      OBVIOUS
    <3>2. sb * m <= sb * k
      BY <3>1, TimesMono
    <3>3. sb * m \in Int /\ sb * k \in Int
      OBVIOUS
    <3>. QED
      BY <2>4, <2>5, <2>6, <3>2, <3>3
  <2>8. sp * (k + 1) <= sp * m
    BY <2>7, TimesMono
  <2>9. sp * (k + 1) = k * sp + sp
    OBVIOUS
  <2>10. sp * m \in Int
    OBVIOUS
  <2>. QED
    BY <1>4, <2>1, <2>3, <2>8, <2>9, <2>10, SMTT(30)
<1>. QED
  BY <1>1, <1>3, <1>4, <1>5, <1>6, <1>7

\* The steps of stage 3 that a delay does not exceed; the first one counts.
Reached(c, d) == {k \in 1 .. 7 : d <= c.stage3Blocks[k]}

\* A set of steps that is not empty has a first one.
LEMMA MinReached ==
    ASSUME NEW S, S \subseteq 1 .. 7, S # {}
    PROVE  Min(S) \in S /\ Min(S) \in 1 .. 7 /\ \A y \in S : Min(S) <= y
<1>1. S \subseteq Nat
  OBVIOUS
<1>2. \E x \in S : \A y \in S : x <= y
  BY <1>1, NatMin, Zenon
<1>. QED
  BY <1>2, Zenon DEF Min

\* Stage 3: the percentage falls from step to step, it is full in the first
\* one only, and a delay within the last step keeps some of the stake.
LEMMA Stage3Steps ==
    ASSUME NEW c, ConfigOK(c), NEW d \in Nat \ {0}
    PROVE  /\ c.stage3Blocks[1] \in Nat /\ c.stage3Blocks[7] \in Nat
           /\ c.stage3Blocks[1] < c.stage3Blocks[7]
           /\ resolveStage3DelaySubmitStakePercent(c, d) \in 0 .. 100
           /\ d <= c.stage3Blocks[7] => resolveStage3DelaySubmitStakePercent(c, d) > 0
           /\ d <= c.stage3Blocks[1] <=> resolveStage3DelaySubmitStakePercent(c, d) = 100
           /\ \A e \in Nat : d <= e => resolveStage3DelaySubmitStakePercent(c, e)
                                        <= resolveStage3DelaySubmitStakePercent(c, d)
<1>. DEFINE b == c.stage3Blocks
            val(e) == IF Reached(c, e) = {} THEN 0 ELSE Stage3Percents[Min(Reached(c, e))]
<1>1. \A k \in 1 .. 7 : b[k] \in Nat
  <2>1. PICK t \in Seq(Nat) : t = b
    BY DEF ConfigOK
  <2>2. Len(t) = 7
    BY <2>1 DEF ConfigOK, parseDelaySubmitStage3Blocks
  <2>3. \A k \in 1 .. Len(t) : t[k] \in Nat
    OBVIOUS
  <2>. QED
    BY <2>1, <2>2, <2>3, Zenon
<1>2. b[1] < b[2] /\ b[2] < b[3] /\ b[3] < b[4] /\ b[4] < b[5] /\ b[5] < b[6] /\ b[6] < b[7]
  BY <1>1 DEF ConfigOK, parseDelaySubmitStage3Blocks
<1>3. \A e \in Nat : resolveStage3DelaySubmitStakePercent(c, e) = val(e)
  BY DEF resolveStage3DelaySubmitStakePercent, Reached
<1>4. \A k \in 1 .. 7 : /\ Stage3Percents[k] \in 1 .. 100
                        /\ Stage3Percents[k] = 100 <=> k = 1
                        /\ \A j \in 1 .. 7 : k <= j => Stage3Percents[j] <= Stage3Percents[k]
  BY DEF Stage3Percents
<1>5. \A e \in Nat : Reached(c, e) # {} =>
        Min(Reached(c, e)) \in Reached(c, e) /\ Min(Reached(c, e)) \in 1 .. 7
        /\ \A y \in Reached(c, e) : Min(Reached(c, e)) <= y
  <2>1. \A e \in Nat : Reached(c, e) \subseteq 1 .. 7
    BY DEF Reached
  <2>. QED
    BY <2>1, MinReached
<1>6. \A e \in Nat : val(e) \in 0 .. 100
  BY <1>4, <1>5, SMTT(30)
<1>7. d <= b[7] => val(d) > 0
  <2>1. d <= b[7] => 7 \in Reached(c, d)
    BY DEF Reached
  <2>. QED
    BY <1>4, <1>5, <2>1, SMTT(30)
<1>8. d <= b[1] <=> val(d) = 100
  <2>1. CASE d <= b[1]
    <3>1. 1 \in Reached(c, d)
      BY <2>1 DEF Reached
    <3>2. Min(Reached(c, d)) = 1
      BY <1>5, <3>1, SMTT(30)
    <3>. QED
      BY <1>4, <2>1, <3>1, <3>2, SMTT(30)
  <2>2. CASE ~(d <= b[1])
    <3>1. 1 \notin Reached(c, d)
      BY <2>2 DEF Reached
    <3>. QED
      BY <1>4, <1>5, <2>2, <3>1, SMTT(30)
  <2>. QED
    BY <2>1, <2>2, Zenon
<1>9. ASSUME NEW e \in Nat, d <= e PROVE val(e) <= val(d)
  <2>1. Reached(c, e) \subseteq Reached(c, d)
    BY <1>1, <1>9, SMTT(30) DEF Reached
  <2>2. CASE Reached(c, e) = {}
    BY <1>6, <2>2, SMTT(30)
  <2>3. CASE Reached(c, e) # {}
    <3>1. Reached(c, d) # {} /\ Min(Reached(c, e)) \in Reached(c, d)
      BY <1>5, <2>1, <2>3
    <3>2. Min(Reached(c, d)) <= Min(Reached(c, e))
      BY <1>5, <3>1
    <3>3. Min(Reached(c, d)) \in 1 .. 7 /\ Min(Reached(c, e)) \in 1 .. 7
      BY <1>5, <2>3, <3>1, SMTT(30)
    <3>. QED
      BY <1>4, <2>3, <3>1, <3>2, <3>3, SMTT(30)
  <2>. QED
    BY <2>2, <2>3, SMTT(30)
<1>10. b[1] < b[7] /\ b[1] \in Nat /\ b[7] \in Nat
  BY <1>1, <1>2
<1>. HIDE DEF val
<1>. QED
  BY <1>3, <1>6, <1>7, <1>8, <1>9, <1>10

\* The window is a number of blocks.
LEMMA WindowType ==
    ASSUME NEW c, ConfigOK(c), NEW hh \in Nat PROVE RewardProofWindowByHeight(c, hh) \in Nat
<1>1. c.stage3Blocks[7] \in Nat
  BY Stage3Steps
<1>2. PICK sb \in Nat \ {0}, sp \in Nat \ {0} : sb = c.stepBlocks /\ sp = c.stepPercent
  BY ConfigFields
<1>3. PICK N \in Nat : N = 100 + sp - 1
  OBVIOUS
<1>4. PICK m \in Nat : m = N \div sp
  BY Quotient
<1>5. sb * m \in Nat
  OBVIOUS
<1>6. c.stepBlocks * ((100 + c.stepPercent - 1) \div c.stepPercent) \in Nat
  BY <1>2, <1>3, <1>4, <1>5
<1>. QED
  BY <1>1, <1>6, ConfigFields, SMTT(30) DEF RewardProofWindowByHeight

\* A row keeps its other columns when its status is written.
Marked(p, s) == [p EXCEPT !.status = s]

\* The columns of a row whose status was written.
LEMMA MarkedFields ==
    ASSUME NEW p, ProofType(p), NEW s
    PROVE  /\ ProofType(Marked(p, s)) /\ Marked(p, s).status = s
           /\ Marked(p, s).indexer = p.indexer /\ Marked(p, s).hash = p.hash
           /\ Marked(p, s).prove = p.prove /\ Marked(p, s).height = p.height
           /\ Marked(p, s).txIdx = p.txIdx /\ Marked(p, s).txid = p.txid
BY DEF ProofType, Marked

\* The status of a valid proof by the phase of its height and its delay.
StatusOf(c, hh, d) ==
    IF hh >= c.stage3Start
    THEN IF d > c.stage3Blocks[7] THEN "Expired"
         ELSE IF d > c.stage3Blocks[1] THEN "ValidDelayed" ELSE "Valid"
    ELSE IF hh >= c.stage2Start
    THEN IF Steps(c, d) * c.stepPercent >= 100 THEN "Expired"
         ELSE IF Steps(c, d) * c.stepPercent > 0 THEN "ValidDelayed" ELSE "Valid"
    ELSE IF d > c.triggerBlocks THEN "ValidDelayed" ELSE "Valid"

\* The percentage of the stake that goes with the status.
PercentOf(c, hh, d) ==
    IF StatusOf(c, hh, d) # "ValidDelayed" THEN 100
    ELSE IF hh < c.stage2Start THEN 95
    ELSE IF hh >= c.stage3Start THEN resolveStage3DelaySubmitStakePercent(c, d)
    ELSE resolveStage2DelaySubmitStakePercent(c, d)

\* A row that was marked with the status of a valid proof counts this much.
WeightOf(c, hh, p) ==
    resolveDelaySubmitStakePercent(c, hh, Marked(p, resolveValidStakeProofStatus(c, p)))

\* Two proofs of one height that were submitted with one delay count alike.
LEMMA ByDelay ==
    ASSUME NEW c, ConfigOK(c), NEW hh \in Nat, NEW p, ProofType(p), p.prove = hh,
           p.height > hh, NEW d, d = p.height - hh
    PROVE  /\ d \in Nat \ {0}
           /\ resolveValidStakeProofStatus(c, p) = StatusOf(c, hh, d)
           /\ WeightOf(c, hh, p) = PercentOf(c, hh, d)
           /\ \A s : resolveValidStakeProofStatus(c, Marked(p, s)) = StatusOf(c, hh, d)
           /\ \A s : WeightOf(c, hh, Marked(p, s)) = PercentOf(c, hh, d)
<1>1. ASSUME NEW q, ProofType(q), q.prove = hh, q.height = p.height
      PROVE  /\ d \in Nat \ {0}
             /\ resolveValidStakeProofStatus(c, q) = StatusOf(c, hh, d)
             /\ WeightOf(c, hh, q) = PercentOf(c, hh, d)
  <2>1. p.height \in Nat /\ d \in Nat \ {0} /\ ~(q.height <= q.prove)
        /\ q.height > q.prove /\ q.height - q.prove = d
    BY <1>1, SMTT(30) DEF ProofType
  <2>2. resolveStage3StakeProofStatus(c, q) =
          IF d > c.stage3Blocks[7] THEN "Expired"
          ELSE IF d > c.stage3Blocks[1] THEN "ValidDelayed" ELSE "Valid"
    BY <2>1, Zenon DEF resolveStage3StakeProofStatus
  <2>3. resolveStage2StakeProofStatus(c, q) =
          IF Steps(c, d) * c.stepPercent >= 100 THEN "Expired"
          ELSE IF Steps(c, d) * c.stepPercent > 0 THEN "ValidDelayed" ELSE "Valid"
    BY <2>1, ConfigFields DEF resolveStage2StakeProofStatus, Steps
  <2>4. shouldApplyDelaySubmitPenalty(c, q) <=> d > c.triggerBlocks
    BY <2>1, ConfigFields DEF shouldApplyDelaySubmitPenalty
  <2>5. c.stage3Start > 0 /\ c.stage2Start > 0 /\ c.stage2Start \in Nat
    BY ConfigFields, SMTT(30)
  <2>6. resolveValidStakeProofStatus(c, q) = StatusOf(c, hh, d)
    BY <1>1, <2>2, <2>3, <2>4, <2>5, Zenon DEF resolveValidStakeProofStatus, StatusOf
  <2>7. PICK m : m = Marked(q, StatusOf(c, hh, d))
    OBVIOUS
  <2>8. m.status = StatusOf(c, hh, d) /\ ~(m.height <= m.prove) /\ m.height - m.prove = d
    BY <1>1, <2>1, <2>7, MarkedFields, SMTT(30)
  <2>9. WeightOf(c, hh, q) = resolveDelaySubmitStakePercent(c, hh, m)
    BY <2>6, <2>7 DEF WeightOf
  <2>10. shouldUseRewardTruncation(c, hh) <=> ~(hh < c.stage2Start)
    BY <2>5 DEF shouldUseRewardTruncation
  <2>11. shouldUseStage3DelayPenalty(c, hh) <=> hh >= c.stage3Start
    BY <2>5 DEF shouldUseStage3DelayPenalty
  <2>12. resolveDelaySubmitStakePercent(c, hh, m) = PercentOf(c, hh, d)
    BY <2>8, <2>10, <2>11, SMTT(30) DEF resolveDelaySubmitStakePercent, PercentOf
  <2>. QED
    BY <2>1, <2>6, <2>9, <2>12, SMTT(30)
<1>2. \A s : /\ ProofType(Marked(p, s)) /\ Marked(p, s).prove = hh
             /\ Marked(p, s).height = p.height
  BY MarkedFields, SMTT(30)
<1>. QED
  BY <1>1, <1>2, Zenon

\* A delay within the window is never too long, and its percentage is full
\* exactly when the status is Valid.
LEMMA InWindow ==
    ASSUME NEW c, ConfigOK(c), NEW hh \in Nat, NEW d \in Nat \ {0},
           d <= RewardProofWindowByHeight(c, hh)
    PROVE  /\ StatusOf(c, hh, d) \in {"Valid", "ValidDelayed"}
           /\ PercentOf(c, hh, d) \in 1 .. 100
           /\ hh >= c.stage2Start =>
                (StatusOf(c, hh, d) = "Valid" <=>
                   (IF hh >= c.stage3Start
                    THEN resolveStage3DelaySubmitStakePercent(c, d)
                    ELSE resolveStage2DelaySubmitStakePercent(c, d)) = 100)
<1>0. c.stage3Start > 0 /\ c.stage2Start > 0 /\ c.stage2Start \in Nat /\ c.stage3Start \in Nat
  BY ConfigFields, SMTT(30)
<1>1. CASE hh >= c.stage3Start
  <2>1. d <= c.stage3Blocks[7]
    BY <1>0, <1>1, SMTT(30) DEF RewardProofWindowByHeight
  <2>0. PICK b1 \in Nat, b7 \in Nat : b1 = c.stage3Blocks[1] /\ b7 = c.stage3Blocks[7]
    BY Stage3Steps, SMTT(30)
  <2>2. PICK r \in 0 .. 100 : r = resolveStage3DelaySubmitStakePercent(c, d)
    BY Stage3Steps, Zenon
  <2>3. d <= b7 /\ r > 0 /\ (d <= b1 <=> r = 100)
    BY <2>0, <2>1, <2>2, Stage3Steps, SMTT(30)
  <2>4. StatusOf(c, hh, d) = IF d > b1 THEN "ValidDelayed" ELSE "Valid"
    BY <1>1, <2>0, <2>3, SMTT(30) DEF StatusOf
  <2>5. StatusOf(c, hh, d) \in {"Valid", "ValidDelayed"}
        /\ (StatusOf(c, hh, d) = "Valid" <=> r = 100)
    BY <2>3, <2>4, SMTT(30)
  <2>6. PercentOf(c, hh, d) \in {100, 95, r}
    BY <1>1, <2>2, SMTT(30) DEF PercentOf
  <2>. QED
    BY <1>1, <2>2, <2>3, <2>5, <2>6, SMTT(30)
<1>2. CASE ~(hh >= c.stage3Start) /\ hh >= c.stage2Start
  <2>1. d <= c.stepBlocks * ((100 + c.stepPercent - 1) \div c.stepPercent)
    BY <1>0, <1>2, SMTT(30) DEF RewardProofWindowByHeight
  <2>2. PICK x \in Nat : x = Steps(c, d) * c.stepPercent
    BY Stage2Steps
  <2>3. x < 100 /\ resolveStage2DelaySubmitStakePercent(c, d) = 100 - x
    BY <2>1, <2>2, Stage2Steps, SMTT(30)
  <2>4. StatusOf(c, hh, d) = IF x > 0 THEN "ValidDelayed" ELSE "Valid"
    BY <1>2, <2>2, <2>3, SMTT(30) DEF StatusOf
  <2>5. PercentOf(c, hh, d) \in {100, 100 - x}
    BY <1>0, <1>2, <2>3, SMTT(30) DEF PercentOf
  <2>. QED
    BY <1>2, <2>3, <2>4, <2>5, SMTT(30)
<1>3. CASE ~(hh >= c.stage3Start) /\ ~(hh >= c.stage2Start)
  <2>1. StatusOf(c, hh, d) \in {"Valid", "ValidDelayed"}
    BY <1>3, Zenon DEF StatusOf
  <2>2. PercentOf(c, hh, d) \in {100, 95}
    BY <1>0, <1>3, SMTT(30) DEF PercentOf
  <2>. QED
    BY <1>3, <2>1, <2>2, SMTT(30)
<1>. QED
  BY <1>1, <1>2, <1>3, Zenon

\* A longer delay within the window never counts for more.
LEMMA PercentFalls ==
    ASSUME NEW c, ConfigOK(c), NEW hh \in Nat, NEW d \in Nat \ {0}, NEW e \in Nat \ {0},
           d <= e, e <= RewardProofWindowByHeight(c, hh)
    PROVE  PercentOf(c, hh, e) <= PercentOf(c, hh, d)
<1>0. c.stage3Start > 0 /\ c.stage2Start > 0 /\ c.stage2Start \in Nat /\ c.stage3Start \in Nat
      /\ c.triggerBlocks \in Nat
  BY ConfigFields, SMTT(30)
<1>. DEFINE W == RewardProofWindowByHeight(c, hh)
<1>1. CASE hh >= c.stage3Start
  <2>1. PICK b1 \in Nat, b7 \in Nat : b1 = c.stage3Blocks[1] /\ b7 = c.stage3Blocks[7]
    BY Stage3Steps, SMTT(30)
  <2>2. W = b7
    BY <1>0, <1>1, <2>1, Zenon DEF RewardProofWindowByHeight
  <2>3. PICK r \in 0 .. 100, s \in 0 .. 100 :
          /\ r = resolveStage3DelaySubmitStakePercent(c, d)
          /\ s = resolveStage3DelaySubmitStakePercent(c, e)
    BY Stage3Steps, Zenon
  <2>4. s <= r
    BY <2>3, Stage3Steps, Zenon
  <2>5. ASSUME NEW x \in Nat, x <= b7
        PROVE  StatusOf(c, hh, x) = IF x > b1 THEN "ValidDelayed" ELSE "Valid"
    BY <1>1, <2>1, <2>5, SMTT(30) DEF StatusOf
  <2>6. PercentOf(c, hh, d) = IF d > b1 THEN IF hh < c.stage2Start THEN 95 ELSE r ELSE 100
    BY <1>1, <2>2, <2>3, <2>5, SMTT(30) DEF PercentOf
  <2>7. PercentOf(c, hh, e) = IF e > b1 THEN IF hh < c.stage2Start THEN 95 ELSE s ELSE 100
    BY <1>1, <2>2, <2>3, <2>5, Zenon DEF PercentOf
  <2>. QED
    BY <2>4, <2>6, <2>7, SMTT(30)
<1>2. CASE ~(hh >= c.stage3Start) /\ hh >= c.stage2Start
  <2>1. e <= c.stepBlocks * ((100 + c.stepPercent - 1) \div c.stepPercent)
    BY <1>0, <1>2, Zenon DEF RewardProofWindowByHeight
  <2>2. PICK x \in Nat, y \in Nat :
          x = Steps(c, d) * c.stepPercent /\ y = Steps(c, e) * c.stepPercent
    BY Stage2Steps, Zenon
  <2>3. x <= y
    BY <2>2, Stage2Steps, Zenon
  <2>4. y < 100 /\ resolveStage2DelaySubmitStakePercent(c, e) = 100 - y
    BY <2>1, <2>2, Stage2Steps, SMTT(30)
  <2>5. x < 100 /\ resolveStage2DelaySubmitStakePercent(c, d) = 100 - x
    BY <2>2, <2>3, <2>4, Stage2Steps, SMTT(30)
  <2>6. StatusOf(c, hh, d) = IF x > 0 THEN "ValidDelayed" ELSE "Valid"
    BY <1>2, <2>2, <2>5, SMTT(30) DEF StatusOf
  <2>7. StatusOf(c, hh, e) = IF y > 0 THEN "ValidDelayed" ELSE "Valid"
    BY <1>2, <2>2, <2>4, SMTT(30) DEF StatusOf
  <2>8. PercentOf(c, hh, d) = 100 - x
    BY <1>0, <1>2, <2>5, <2>6, SMTT(30) DEF PercentOf
  <2>9. PercentOf(c, hh, e) = 100 - y
    BY <1>0, <1>2, <2>4, <2>7, SMTT(30) DEF PercentOf
  <2>. QED
    BY <2>3, <2>8, <2>9, SMTT(30)
<1>3. CASE ~(hh >= c.stage3Start) /\ ~(hh >= c.stage2Start)
  <2>1. PercentOf(c, hh, d) = IF d > c.triggerBlocks THEN 95 ELSE 100
    BY <1>0, <1>3, SMTT(30) DEF PercentOf, StatusOf
  <2>2. PercentOf(c, hh, e) = IF e > c.triggerBlocks THEN 95 ELSE 100
    BY <1>0, <1>3 DEF PercentOf, StatusOf
  <2>. QED
    BY <1>0, <2>1, <2>2, SMTT(30)
<1>. QED
  BY <1>1, <1>2, <1>3, SMTT(30)
-------------------------------------------------------------------------------
(***************************************************************************)
(* The inductive invariant: what every stage of handleBlockReward leaves   *)
(* behind, in terms of the input.                                          *)
(***************************************************************************)
Listed == ListStakeProofByProveHeight(in.proofs, h, Window)
Judged == resolveStakeProofValidity(cfg, Listed, in.block.hash, in.block.state)

Untouched == proofs = in.proofs /\ percent = None

Judgement ==
    /\ Loaded
    /\ proofs = (in.proofs \ Listed) \cup Judged
    /\ percent = resolveRewardStakePercentByIndexer(cfg, h, ValidProofs(Judged))

Divisions ==
    [i \in DOMAIN weights |-> Shares(cfg, h, weights, i, unlocked, in.ratio[i], in.stakes)]

RewardInv ==
    /\ \E f \in Inputs : in \in [raw : f.raw, block : f.block, proofs : f.proofs,
                                stakes : f.stakes, ratio : f.ratio]
    /\ Loaded => ~LoadFails(in.raw) /\ cfg = Load(Default, in.raw)
    /\ Untouched \/ Judgement
    /\ pc \in {"load", "reward"} => Untouched
    /\ pc \in {"weigh", "divide", "done"} => Judgement
    /\ pc \in {"divide", "done"} =>
         /\ weights = indexerStakeTotal(percent, in.stakes)
         /\ unlocked # 0 /\ DOMAIN weights # {}
         /\ unlocked = unlockedRewardAmount(cfg, h, in.block.reward)
    /\ pc = "done" => shares = Divisions

\* Whatever the input, every stage finds what the stages before it computed
\* from that input: the statuses, percentages, weights and amounts of
\* handleBlockReward are a function of the configuration and of the rows.
THEOREM RewardInvariant == Spec => []RewardInv
<1>1. Init => RewardInv
  <2>1. SUFFICES ASSUME Init PROVE RewardInv
    BY SMTT(30)
  <2>2. pc = "load" /\ Untouched
    BY <2>1, Zenon DEF Init, Untouched
  <2>3. \E f \in Inputs : in \in [raw : f.raw, block : f.block, proofs : f.proofs,
                                 stakes : f.stakes, ratio : f.ratio]
    BY <2>1, SMTT(30) DEF Init
  <2>. QED
    BY <2>2, <2>3, Zenon DEF RewardInv, Loaded
<1>2. RewardInv /\ [Next]_vars => RewardInv'
  <2>1. SUFFICES ASSUME RewardInv, [Next]_vars PROVE RewardInv'
    OBVIOUS
  <2>2. \/ UNCHANGED vars
        \/ LoadConfig \/ NotRewarded \/ ResolveProofs \/ Weigh \/ Divide
    BY <2>1, SMTT(30) DEF Next
  <2>3. in' = in /\ h' = h
    BY <2>2, Zenon DEF vars, LoadConfig, NotRewarded, ResolveProofs, Weigh, Divide, h
  <2>4. (\E f \in Inputs : in \in [raw : f.raw, block : f.block, proofs : f.proofs,
                                  stakes : f.stakes, ratio : f.ratio])'
    BY <2>1, <2>3, Zenon DEF RewardInv
  <2>5. ASSUME cfg' = cfg PROVE Listed' = Listed /\ Judged' = Judged
    BY <2>3, <2>5, Zenon DEF Listed, Judged, Window
  <2>6. CASE UNCHANGED vars
    <3>1. cfg' = cfg /\ pc' = pc /\ proofs' = proofs /\ percent' = percent
          /\ weights' = weights /\ unlocked' = unlocked /\ shares' = shares
      BY <2>6, SMTT(30) DEF vars
    <3>2. (Untouched' <=> Untouched) /\ (Judgement' <=> Judgement) /\ Divisions' = Divisions
          /\ (Loaded' <=> Loaded)
      BY <2>3, <2>5, <3>1, Zenon DEF Untouched, Judgement, Divisions, Loaded
    <3>. QED
      BY <2>1, <2>3, <2>4, <3>1, <3>2, Zenon DEF RewardInv
  <2>7. CASE LoadConfig
    <3>1. pc = "load" /\ proofs' = proofs /\ percent' = percent
      BY <2>7, SMTT(30) DEF LoadConfig
    <3>2. Untouched'
      BY <2>1, <2>3, <3>1, Zenon DEF RewardInv, Untouched, None
    <3>3. \/ pc' = "refused"
          \/ pc' = "reward" /\ ~LoadFails(in.raw) /\ cfg' = Load(Default, in.raw)
      BY <2>7, SMTT(30) DEF LoadConfig
    <3>. QED
      BY <2>3, <2>4, <3>2, <3>3, Zenon DEF RewardInv, Loaded
  <2>8. CASE NotRewarded
    <3>1. /\ pc = "reward" /\ pc' = "none"
          /\ cfg' = cfg /\ proofs' = proofs /\ percent' = percent
      BY <2>8, Zenon DEF NotRewarded
    <3>2. Untouched'
      BY <2>1, <2>3, <3>1, Zenon DEF RewardInv, Untouched, None
    <3>3. ~LoadFails(in.raw) /\ cfg = Load(Default, in.raw)
      BY <2>1, <3>1, Zenon DEF RewardInv, Loaded
    <3>. QED
      BY <2>3, <2>4, <3>1, <3>2, <3>3, Zenon DEF RewardInv, Loaded
  <2>9. CASE ResolveProofs
    <3>1. pc = "reward" /\ cfg' = cfg /\ pc' \in {"none", "weigh"}
      BY <2>9, Zenon DEF ResolveProofs
    <3>2. proofs = in.proofs /\ Selected = Listed
      BY <2>1, <3>1, Zenon DEF RewardInv, Untouched, Selected, Listed
    <3>3. /\ proofs' = (in.proofs \ Listed) \cup Judged
          /\ percent' = resolveRewardStakePercentByIndexer(cfg, h, ValidProofs(Judged))
      BY <2>9, <3>2, Zenon DEF ResolveProofs, Judged
    <3>4. Judgement'
      BY <2>3, <2>5, <3>1, <3>3, Zenon DEF Judgement, Loaded
    <3>5. ~LoadFails(in.raw) /\ cfg = Load(Default, in.raw)
      BY <2>1, <3>1, Zenon DEF RewardInv, Loaded
    <3>. QED
      BY <2>3, <2>4, <3>1, <3>4, <3>5, Zenon DEF RewardInv, Loaded
  <2>10. CASE Weigh
    <3>1. /\ pc = "weigh" /\ pc' \in {"none", "divide"}
          /\ cfg' = cfg /\ proofs' = proofs /\ percent' = percent
      BY <2>10, SMTT(30) DEF Weigh
    <3>2. Judgement'
      BY <2>1, <2>3, <2>5, <3>1, Zenon DEF RewardInv, Judgement, Loaded
    <3>3. ~LoadFails(in.raw) /\ cfg = Load(Default, in.raw)
      BY <2>1, <3>1, Zenon DEF RewardInv, Loaded
    <3>4. pc' = "divide" =>
            /\ weights' = indexerStakeTotal(percent, in.stakes)
            /\ unlocked' # 0 /\ DOMAIN weights' # {}
            /\ unlocked' = unlockedRewardAmount(cfg, h, in.block.reward)
      BY <2>10, Zenon DEF Weigh
    <3>. QED
      BY <2>3, <2>4, <3>1, <3>2, <3>3, <3>4, Zenon DEF RewardInv, Loaded
  <2>11. CASE Divide
    <3>1. /\ pc = "divide" /\ pc' = "done" /\ shares' = Divisions
          /\ cfg' = cfg /\ proofs' = proofs /\ percent' = percent
          /\ weights' = weights /\ unlocked' = unlocked
      BY <2>11, Zenon DEF Divide, Divisions
    <3>2. Judgement' /\ Divisions' = Divisions
      BY <2>1, <2>3, <2>5, <3>1, Zenon DEF RewardInv, Judgement, Loaded, Divisions
    <3>3. ~LoadFails(in.raw) /\ cfg = Load(Default, in.raw)
      BY <2>1, <3>1, Zenon DEF RewardInv, Loaded
    <3>. QED
      BY <2>1, <2>3, <2>4, <3>1, <3>2, <3>3, Zenon DEF RewardInv, Loaded
  <2>. QED
    BY <2>2, <2>6, <2>7, <2>8, <2>9, <2>10, <2>11, SMTT(30)
<1>. QED
  BY <1>1, <1>2, PTL DEF Spec
-------------------------------------------------------------------------------
(***************************************************************************)
(* What the invariant says of the rows of stake_proofs.                    *)
(***************************************************************************)

\* The types of the input, and that the loaded configuration is in order.
LEMMA InputFacts ==
    ASSUME RewardInv
    PROVE  /\ h \in Nat /\ in.block.reward \in Nat
           /\ \A p \in in.proofs : /\ ProofType(p) /\ p.status = "Pending"
                                   /\ \A q \in in.proofs : q.txid = p.txid => q = p
           /\ Loaded => ConfigOK(cfg)
<1>1. PICK f \in Inputs : in \in [raw : f.raw, block : f.block, proofs : f.proofs,
                                 stakes : f.stakes, ratio : f.ratio]
  BY Zenon DEF RewardInv
<1>2. in.raw \in f.raw /\ in.block \in f.block /\ in.proofs \in f.proofs
  BY <1>1, Zenon
<1>3. RawType(in.raw) /\ in.block.height \in Nat /\ in.block.reward \in Nat
  BY <1>2, InputAssumption, Zenon
<1>4. \A p \in in.proofs : /\ ProofType(p) /\ p.status = "Pending"
                           /\ \A q \in in.proofs : q.txid = p.txid => q = p
  BY <1>2, InputAssumption, Zenon
<1>5. Loaded => ConfigOK(cfg)
  BY <1>3, LoadOK, Zenon DEF RewardInv
<1>. QED
  BY <1>3, <1>4, <1>5, Zenon DEF h

\* The status that the judgement writes for a listed row.
Verdict(p) == verifyUpdate(cfg, Listed, p, in.block.hash, in.block.state)

\* The judged rows are the listed ones with another status.
LEMMA JudgedRows == Judged = {Marked(p, Verdict(p)) : p \in Listed}
BY SMTT(30) DEF Judged, resolveStakeProofValidity, Marked, Verdict

\* A listed row belongs to the height and was submitted within its window.
LEMMA ListedRows ==
    ASSUME RewardInv
    PROVE  \A p \in Listed : /\ p \in in.proofs /\ ProofType(p) /\ p.prove = h
                             /\ p.height > h /\ p.height <= h + Window
BY InputFacts, Zenon DEF Listed, ListStakeProofByProveHeight

\* The rows that are selected now: the listed ones, judged or not.
LEMMA SelectedRows ==
    ASSUME RewardInv
    PROVE  /\ \A p \in Selected : /\ ProofType(p) /\ p.prove = h
                                  /\ p.height > h /\ p.height <= h + Window
           /\ Judgement => Selected = Judged
<1>1. \A p \in Listed : /\ ProofType(Marked(p, Verdict(p)))
                        /\ Marked(p, Verdict(p)).prove = p.prove
                        /\ Marked(p, Verdict(p)).height = p.height
  BY ListedRows, MarkedFields, Zenon
<1>2. \A m \in Judged : /\ ProofType(m) /\ m.prove = h /\ m.height > h /\ m.height <= h + Window
  BY <1>1, JudgedRows, ListedRows, Zenon
<1>3. ASSUME Judgement PROVE Selected = Judged
  <2>1. proofs = (in.proofs \ Listed) \cup Judged
    BY <1>3, Zenon DEF Judgement
  <2>. QED
    BY <1>2, <2>1, Zenon DEF Selected, Listed, ListStakeProofByProveHeight
<1>4. ASSUME Untouched PROVE Selected = Listed
  BY <1>4 DEF Untouched, Selected, Listed
<1>. QED
  BY <1>2, <1>3, <1>4, ListedRows, Zenon DEF RewardInv

\* A proof that ListStakeProofByProveHeight selects is never Expired for the
\* rules of pg/stake_proofs.go, and keeps some of the stake, for every window
\* and penalty that conf.Load accepts.
THEOREM NeverExpired == Spec => []SelectedIsNeverExpired
<1>1. RewardInv => SelectedIsNeverExpired
  <2>1. SUFFICES ASSUME RewardInv, Loaded, NEW p \in Selected
        PROVE  /\ resolveValidStakeProofStatus(cfg, p) # "Expired"
               /\ WeightOf(cfg, h, p) > 0
    BY SMTT(30) DEF SelectedIsNeverExpired, WeightOf, Marked
  <2>2. ConfigOK(cfg) /\ h \in Nat
    BY <2>1, InputFacts, Zenon
  <2>3. ProofType(p) /\ p.prove = h /\ p.height > h /\ p.height <= h + Window
    BY <2>1, SelectedRows, SMTT(30)
  <2>4. PICK d : d = p.height - h
    BY SMTT(30)
  <2>5. /\ d \in Nat \ {0}
        /\ resolveValidStakeProofStatus(cfg, p) = StatusOf(cfg, h, d)
        /\ WeightOf(cfg, h, p) = PercentOf(cfg, h, d)
    BY <2>2, <2>3, <2>4, ByDelay, SMTT(30)
  <2>6. d <= RewardProofWindowByHeight(cfg, h)
    <3>1. Window \in Int
      BY <2>2, WindowType, SMTT(30) DEF Window
    <3>. QED
      BY <2>2, <2>3, <2>4, <3>1, SMTT(30) DEF Window, ProofType
  <2>7. StatusOf(cfg, h, d) \in {"Valid", "ValidDelayed"} /\ PercentOf(cfg, h, d) \in 1 .. 100
    BY <2>2, <2>5, <2>6, InWindow, SMTT(30)
  <2>. QED
    BY <2>5, <2>7
<1>. QED
  BY <1>1, RewardInvariant, PTL

\* The judgement accepts at most one proof of an indexer for the height: the
\* earliest of those that have the right hash, and marks it by its delay.
LEMMA Canonical ==
    ASSUME RewardInv, NEW m \in Judged, m.status \in {"Valid", "ValidDelayed"}
    PROVE  \E p \in Listed :
              /\ m = Marked(p, Verdict(p)) /\ Verdict(p) = resolveValidStakeProofStatus(cfg, p)
              /\ p.hash = computeStakeProofHash(p.indexer, in.block.hash, in.block.state)
              /\ \A q \in hashGroup(Listed, p) \ {p} : Earlier(p, q)
<1>1. PICK p \in Listed : m = Marked(p, Verdict(p))
  BY JudgedRows, SMTT(30)
<1>2. Verdict(p) \in {"Valid", "ValidDelayed"}
  BY <1>1, ListedRows, MarkedFields, SMTT(30)
<1>3. /\ p.hash = computeStakeProofHash(p.indexer, in.block.hash, in.block.state)
      /\ \A q \in hashGroup(Listed, p) \ {p} : isProofEarlier(p, q)
      /\ Verdict(p) = resolveValidStakeProofStatus(cfg, p)
  BY <1>2, Zenon DEF Verdict, verifyUpdate
<1>. QED
  BY <1>1, <1>3, Zenon DEF isProofEarlier

\* The status that pg/stake_proofs.go writes and the percentage that
\* handler_reward.go computes from the delay agree: Valid exactly when the
\* stake counts in full.
THEOREM StatusAndPercentAgree == Spec => []StatusAgreesWithPercent
<1>1. RewardInv => StatusAgreesWithPercent
  <2>. DEFINE full(d) == IF shouldUseStage3DelayPenalty(cfg, h)
                         THEN resolveStage3DelaySubmitStakePercent(cfg, d)
                         ELSE resolveStage2DelaySubmitStakePercent(cfg, d)
  <2>1. SUFFICES ASSUME RewardInv, Resolved, shouldUseRewardTruncation(cfg, h),
                        NEW m \in proofs, m.prove = h, m.status \in {"Valid", "ValidDelayed"}
        PROVE  m.status = "Valid" <=> full(Delay(m)) = 100
    BY Zenon DEF StatusAgreesWithPercent
  <2>2. Judgement /\ Loaded
    BY <2>1, Zenon DEF RewardInv, Untouched, Resolved, Judgement
  <2>3. ConfigOK(cfg) /\ h \in Nat
    BY <2>1, <2>2, InputFacts, Zenon
  <2>4. m \in Judged
    <3>1. m \in in.proofs => m.status = "Pending"
      BY <2>1, InputFacts, Zenon
    <3>. QED
      BY <2>1, <2>2, <3>1, Zenon DEF Judgement
  <2>5. PICK p \in Listed :
          m = Marked(p, Verdict(p)) /\ Verdict(p) = resolveValidStakeProofStatus(cfg, p)
    BY <2>1, <2>4, Canonical, Zenon
  <2>6. ProofType(p) /\ p.prove = h /\ p.height > h /\ p.height <= h + Window
    BY <2>1, ListedRows, Zenon
  <2>7. m.status = Verdict(p) /\ Delay(m) = p.height - h
    BY <2>5, <2>6, MarkedFields, SMTT(30) DEF Delay
  <2>8. PICK d : d = p.height - h
    BY SMTT(30)
  <2>9. d \in Nat \ {0} /\ m.status = StatusOf(cfg, h, d)
    BY <2>3, <2>5, <2>6, <2>7, <2>8, ByDelay, SMTT(30)
  <2>10. d <= RewardProofWindowByHeight(cfg, h)
    <3>1. Window \in Int
      BY <2>3, WindowType, SMTT(30) DEF Window
    <3>. QED
      BY <2>3, <2>6, <2>8, <3>1, SMTT(30) DEF Window, ProofType
  <2>11. h >= cfg.stage2Start
    BY <2>1, SMTT(30) DEF shouldUseRewardTruncation
  <2>12. full(d) = IF h >= cfg.stage3Start THEN resolveStage3DelaySubmitStakePercent(cfg, d)
                   ELSE resolveStage2DelaySubmitStakePercent(cfg, d)
    BY <2>3, ConfigFields, SMTT(30) DEF shouldUseStage3DelayPenalty
  <2>13. StatusOf(cfg, h, d) = "Valid" <=> full(d) = 100
    BY <2>3, <2>9, <2>10, <2>11, <2>12, InWindow, SMTT(30)
  <2>. QED
    BY <2>7, <2>8, <2>9, <2>13, SMTT(30)
<1>. QED
  BY <1>1, RewardInvariant, PTL

\* What a listed row counts for, whatever its status is now: between 1 and 100
\* percent, and no more than an earlier one.
LEMMA Weights ==
    ASSUME RewardInv, Loaded, NEW p \in Listed
    PROVE  /\ WeightOf(cfg, h, p) \in 1 .. 100
           /\ \A s : WeightOf(cfg, h, Marked(p, s)) = WeightOf(cfg, h, p)
           /\ \A q \in Listed : p.height <= q.height => WeightOf(cfg, h, q) <= WeightOf(cfg, h, p)
<1>1. ConfigOK(cfg) /\ h \in Nat
  BY InputFacts, Zenon
<1>2. Window \in Nat /\ Window = RewardProofWindowByHeight(cfg, h)
  BY <1>1, WindowType, SMTT(30) DEF Window
<1>3. ASSUME NEW q \in Listed
      PROVE  \E d \in Nat \ {0} :
                /\ d = q.height - h /\ d <= RewardProofWindowByHeight(cfg, h)
                /\ WeightOf(cfg, h, q) = PercentOf(cfg, h, d)
                /\ \A s : WeightOf(cfg, h, Marked(q, s)) = PercentOf(cfg, h, d)
  <2>1. ProofType(q) /\ q.prove = h /\ q.height > h /\ q.height <= h + Window
    BY ListedRows, Zenon
  <2>2. PICK d : d = q.height - h
    BY SMTT(30)
  <2>3. d \in Nat \ {0} /\ WeightOf(cfg, h, q) = PercentOf(cfg, h, d)
        /\ \A s : WeightOf(cfg, h, Marked(q, s)) = PercentOf(cfg, h, d)
    BY <1>1, <2>1, <2>2, ByDelay, SMTT(30)
  <2>4. d <= Window
    BY <1>1, <1>2, <2>1, <2>2, SMTT(30) DEF ProofType
  <2>. QED
    BY <1>2, <2>2, <2>3, <2>4, Zenon
<1>4. PICK d \in Nat \ {0} :
        /\ d = p.height - h /\ d <= RewardProofWindowByHeight(cfg, h)
        /\ WeightOf(cfg, h, p) = PercentOf(cfg, h, d)
        /\ \A s : WeightOf(cfg, h, Marked(p, s)) = PercentOf(cfg, h, d)
  BY <1>3, Zenon
<1>5. PercentOf(cfg, h, d) \in 1 .. 100
  BY <1>1, <1>4, InWindow, Zenon
<1>6. ASSUME NEW q \in Listed, p.height <= q.height
      PROVE  WeightOf(cfg, h, q) <= WeightOf(cfg, h, p)
  <2>1. PICK e \in Nat \ {0} :
          /\ e = q.height - h /\ e <= RewardProofWindowByHeight(cfg, h)
          /\ WeightOf(cfg, h, q) = PercentOf(cfg, h, e)
    BY <1>3, Zenon
  <2>2. p.height \in Nat /\ q.height \in Nat
    BY ListedRows, Zenon DEF ProofType
  <2>3. d <= e
    BY <1>1, <1>4, <1>6, <2>1, <2>2, SMTT(30)
  <2>. QED
    BY <1>1, <1>4, <2>1, <2>3, PercentFalls, Zenon
<1>. QED
  BY <1>4, <1>5, <1>6, Zenon

\* A maximum that is known to be one.
LEMMA MaxIs ==
    ASSUME NEW S, NEW x \in S, x \in Int, \A y \in S : y \in Int /\ y <= x
    PROVE  Max(S) = x
<1>1. PICK z : z = Max(S)
  OBVIOUS
<1>2. z \in S /\ \A y \in S : z >= y
  BY <1>1, Zenon DEF Max
<1>3. z \in Int /\ z <= x /\ z >= x
  BY <1>2
<1>. QED
  BY <1>1, <1>3, SMTT(30)

\* Only one proof of an indexer is accepted, so its percentage is the one of
\* that proof.
LEMMA PercentIs ==
    ASSUME RewardInv, Judgement, NEW i \in DOMAIN percent
    PROVE  \E p \in Listed :
              /\ p.indexer = i
              /\ p.hash = computeStakeProofHash(i, in.block.hash, in.block.state)
              /\ \A q \in hashGroup(Listed, p) \ {p} : Earlier(p, q)
              /\ percent[i] = WeightOf(cfg, h, p)
              /\ Marked(p, Verdict(p)) \in Judged
<1>. DEFINE allowed == {m \in ValidProofs(Judged) : IsIndexerRewardAllowedAtHeight(cfg, m.indexer, h)}
            mine == {m \in allowed : m.indexer = i}
            pct(m) == resolveDelaySubmitStakePercent(cfg, h, m)
            Right(p) == p.hash = computeStakeProofHash(p.indexer, in.block.hash, in.block.state)
            First(p) == \A q \in hashGroup(Listed, p) \ {p} : Earlier(p, q)
<1>1. percent = [j \in {m.indexer : m \in allowed} |->
                    Max({pct(m) : m \in {k \in allowed : k.indexer = j}})]
  BY Zenon DEF Judgement, resolveRewardStakePercentByIndexer
<1>2. PICK m \in mine : TRUE
  BY <1>1, Zenon
<1>3. percent[i] = Max({pct(k) : k \in mine})
  BY <1>1, <1>2, Zenon
<1>4. ASSUME NEW k \in mine
      PROVE  \E p \in Listed : /\ k = Marked(p, Verdict(p)) /\ p.indexer = i
                               /\ Verdict(p) = resolveValidStakeProofStatus(cfg, p)
                               /\ Right(p) /\ First(p)
  <2>1. k \in Judged /\ k.status \in {"Valid", "ValidDelayed"} /\ k.indexer = i
    BY Zenon DEF ValidProofs
  <2>2. PICK p \in Listed :
          /\ k = Marked(p, Verdict(p)) /\ Verdict(p) = resolveValidStakeProofStatus(cfg, p)
          /\ Right(p) /\ First(p)
    BY <2>1, Canonical, Zenon
  <2>3. p.indexer = i
    BY <2>1, <2>2, ListedRows, MarkedFields, Zenon
  <2>. QED
    BY <2>2, <2>3, Zenon
<1>5. PICK p \in Listed : /\ m = Marked(p, Verdict(p)) /\ p.indexer = i
                          /\ Verdict(p) = resolveValidStakeProofStatus(cfg, p)
                          /\ Right(p) /\ First(p)
  BY <1>2, <1>4, Zenon
<1>6. mine = {m}
  <2>1. SUFFICES ASSUME NEW k \in mine PROVE k = m
    BY <1>2, Zenon
  <2>2. PICK q \in Listed : k = Marked(q, Verdict(q)) /\ q.indexer = i /\ Right(q) /\ First(q)
    BY <1>4, Zenon
  <2>3. q \in hashGroup(Listed, p) /\ p \in hashGroup(Listed, q)
    BY <1>5, <2>2, Zenon DEF hashGroup
  <2>4. p.height \in Nat /\ q.height \in Nat /\ p.txIdx \in Nat /\ q.txIdx \in Nat
        /\ p.txid \in Nat /\ q.txid \in Nat
    BY ListedRows, Zenon DEF ProofType
  <2>5. ~(Earlier(p, q) /\ Earlier(q, p))
    BY <2>4, SMTT(30) DEF Earlier
  <2>6. p = q
    BY <1>5, <2>2, <2>3, <2>5, Zenon
  <2>. QED
    BY <1>5, <2>2, <2>6, Zenon
<1>7. pct(m) = WeightOf(cfg, h, p)
  BY <1>5, Zenon DEF WeightOf
<1>8. {pct(k) : k \in mine} = {WeightOf(cfg, h, p)}
  BY <1>6, <1>7, Zenon
<1>9. WeightOf(cfg, h, p) \in Int
  <2>1. Loaded
    BY Zenon DEF Judgement
  <2>. QED
    BY <2>1, Weights, SMTT(30)
<1>10. percent[i] = WeightOf(cfg, h, p)
  BY <1>3, <1>8, <1>9, MaxIs, SMTT(30)
<1>11. m \in Judged
  BY Zenon DEF ValidProofs
<1>. QED
  BY <1>5, <1>10, <1>11, Zenon

\* An indexer's stake is weighed by the best of its proofs that have the right
\* hash, however many were submitted and in whichever order: dropping the
\* duplicates in favour of the earliest costs it nothing.
THEOREM DuplicatesCostNothing == Spec => []ExtraProofsDoNotMatter
<1>1. RewardInv => ExtraProofsDoNotMatter
  <2>1. SUFFICES ASSUME RewardInv, Resolved, NEW i \in DOMAIN percent
        PROVE  percent[i] = Max({WeightOf(cfg, h, m) : m \in Matching(i)})
    BY Zenon DEF ExtraProofsDoNotMatter, WeightOf, Marked
  <2>2. Judgement /\ Loaded
    BY <2>1, Zenon DEF RewardInv, Untouched, Resolved, Judgement
  <2>3. Selected = Judged
    BY <2>1, <2>2, SelectedRows, SMTT(30)
  <2>4. PICK p \in Listed :
          /\ p.indexer = i /\ p.hash = computeStakeProofHash(i, in.block.hash, in.block.state)
          /\ \A q \in hashGroup(Listed, p) \ {p} : Earlier(p, q)
          /\ percent[i] = WeightOf(cfg, h, p)
          /\ Marked(p, Verdict(p)) \in Judged
    BY <2>1, <2>2, PercentIs, Zenon
  <2>5. WeightOf(cfg, h, p) \in Int
        /\ WeightOf(cfg, h, Marked(p, Verdict(p))) = WeightOf(cfg, h, p)
    BY <2>1, <2>2, Weights, SMTT(30)
  <2>6. Marked(p, Verdict(p)) \in Matching(i)
    BY <2>1, <2>3, <2>4, ListedRows, MarkedFields, Zenon DEF Matching
  <2>7. ASSUME NEW m \in Matching(i)
        PROVE  WeightOf(cfg, h, m) \in Int /\ WeightOf(cfg, h, m) <= WeightOf(cfg, h, p)
    <3>1. PICK q \in Listed : m = Marked(q, Verdict(q))
      BY <2>3, JudgedRows, Zenon DEF Matching
    <3>2. q.indexer = i /\ q.hash = computeStakeProofHash(i, in.block.hash, in.block.state)
      BY <2>1, <3>1, ListedRows, MarkedFields, Zenon DEF Matching
    <3>3. q \in hashGroup(Listed, p)
      BY <2>4, <3>2, Zenon DEF hashGroup
    <3>4. p.height \in Nat /\ q.height \in Nat
      BY <2>1, ListedRows, Zenon DEF ProofType
    <3>5. p.height <= q.height
      BY <2>4, <3>3, <3>4, SMTT(30) DEF Earlier
    <3>6. WeightOf(cfg, h, m) = WeightOf(cfg, h, q) /\ WeightOf(cfg, h, q) \in Int
      BY <2>1, <2>2, <3>1, Weights, SMTT(30)
    <3>7. WeightOf(cfg, h, q) <= WeightOf(cfg, h, p)
      BY <2>1, <2>2, <3>5, Weights, Zenon
    <3>. QED
      BY <3>6, <3>7, Zenon
  <2>8. PICK S : S = {WeightOf(cfg, h, m) : m \in Matching(i)}
    BY Zenon
  <2>9. WeightOf(cfg, h, p) \in S /\ \A y \in S : y \in Int /\ y <= WeightOf(cfg, h, p)
    BY <2>5, <2>6, <2>7, <2>8, Zenon
  <2>. QED
    BY <2>4, <2>5, <2>8, <2>9, MaxIs, Zenon
<1>. QED
  BY <1>1, RewardInvariant, PTL
-------------------------------------------------------------------------------
(***************************************************************************)
(* The amounts.                                                            *)
(***************************************************************************)

\* Divided in terms of the unit of the rounding, for fewer parties than 1 /
\* epsilon.
LEMMA DividedIs ==
    ASSUME NEW sum \in Nat, NEW whole \in Nat, NEW n \in Nat \ {0}, n < EpsInv,
           NEW K \in Nat \ {0}, K = Unit(shouldUseRewardTruncation(cfg, h)),
           K * sum <= K * whole + n, K * whole + n <= K * (sum + n)
    PROVE  Divided(sum, whole, n)
<1>1. CASE shouldUseRewardTruncation(cfg, h)
  <2>1. K = EpsInv
    BY <1>1, Zenon DEF Unit
  <2>2. sum <= whole
    <3>1. SUFFICES ASSUME whole + 1 <= sum PROVE FALSE
      OBVIOUS
    <3>2. K * (whole + 1) <= K * sum
      BY <3>1, TimesMono, SMTT(30)
    <3>3. K * (whole + 1) = K * whole + K /\ K * whole \in Nat /\ K * sum \in Nat
      OBVIOUS
    <3>. QED
      BY <2>1, <3>2, <3>3, SMTT(30)
  <2>3. whole - sum < n
    <3>1. SUFFICES ASSUME sum + n <= whole PROVE FALSE
      OBVIOUS
    <3>2. K * (sum + n) <= K * whole
      BY <3>1, TimesMono, SMTT(30)
    <3>3. K * (sum + n) \in Nat /\ K * whole \in Nat
      BY SMTT(30)
    <3>. QED
      BY <3>2, <3>3, SMTT(30)
  <2>. QED
    BY <1>1, <2>2, <2>3, Zenon DEF Divided
<1>2. CASE ~shouldUseRewardTruncation(cfg, h)
  <2>1. K = 2
    BY <1>2, Zenon DEF Unit
  <2>2. 2 * sum <= 2 * whole + n /\ 2 * whole + n <= 2 * (sum + n)
    BY <2>1, Zenon
  <2>3. 2 * (sum - whole) <= n /\ 2 * (whole - sum) <= n
    BY <2>2, SMTT(30)
  <2>. QED
    BY <1>2, <2>3, Zenon DEF Divided
<1>. QED
  BY <1>1, <1>2, Zenon

\* The amounts of the parties that have a weight add up to the whole, up to
\* the rounding; the other parties get nothing.
LEMMA DividedByWeight ==
    ASSUME NEW S, IsFiniteSet(S), Cardinality(S) < EpsInv,
           NEW w, \A x \in S : w[x] \in Nat,
           NEW den \in Nat \ {0}, den = SumFunctionOnSet(w, S), NEW whole \in Nat,
           NEW a, \A x \in S :
              a[x] = quantizeReward(whole * w[x], den, shouldUseRewardTruncation(cfg, h)),
           NEW P, P = {x \in S : w[x] > 0},
           shouldUseRewardTruncation(cfg, h) \in BOOLEAN
    PROVE  /\ \A x \in S : a[x] \in Nat
           /\ Divided(SumFunctionOnSet(a, S), whole, Cardinality(P))
<1>. DEFINE trunc == shouldUseRewardTruncation(cfg, h)
<1>1. IsFiniteSet(P) /\ P \subseteq S /\ Cardinality(P) <= Cardinality(S)
      /\ Cardinality(P) \in Nat /\ Cardinality(S) \in Nat
  BY FS_Subset, FS_CardinalityType, Zenon
<1>2. den = SumFunctionOnSet(w, P)
  BY SumPositive, Zenon
<1>3. P # {}
  BY <1>2, SumEmpty, Zenon
<1>4. Cardinality(P) # 0
  BY <1>1, <1>3, FS_EmptySet, Zenon
<1>5. EpsInv > 1 /\ Cardinality(P) < EpsInv
  BY <1>1, <1>4, EpsAssumption, SMTT(30)
<1>6. PICK K \in Nat \ {0} : K = Unit(trunc)
  BY EpsAssumption, SMTT(30) DEF Unit
<1>7. \A x \in P : w[x] \in Nat
  BY <1>1, Zenon
<1>8. \A x \in P : a[x] = quantizeReward(whole * w[x], den, trunc)
  BY <1>1, Zenon
<1>9. PICK sum : sum = SumFunctionOnSet(a, P)
  BY Zenon
<1>10. PICK n : n = Cardinality(P)
  BY Zenon
<1>11. /\ \A x \in P : a[x] \in Nat
       /\ sum \in Nat /\ n \in Nat \ {0}
       /\ K * sum <= K * whole + n /\ K * whole + n <= K * (sum + n)
  <2>. HIDE DEF trunc
  <2>1. trunc \in BOOLEAN
    BY Zenon DEF trunc
  <2>. QED
    BY <1>1, <1>2, <1>5, <1>6, <1>7, <1>8, <1>9, <1>10, <2>1, Division, SMTT(30)
<1>12. Divided(sum, whole, n)
  BY <1>5, <1>6, <1>10, <1>11, DividedIs, Zenon
<1>13. \A x \in S \ P : a[x] = 0
  <2>1. \A x \in S \ P : w[x] = 0
    BY SMTT(30)
  <2>2. \A x \in S \ P : a[x] = quantizeReward(0, den, trunc)
    BY <2>1, SMTT(30)
  <2>. QED
    BY <2>2, SMTT(30) DEF quantizeReward
<1>14. \A x \in S : a[x] \in Nat
  BY <1>11, <1>13, SMTT(30)
<1>15. SumFunctionOnSet(a, S) = sum
  <2>1. IsFiniteSet(S \ P)
    BY FS_Subset, Zenon
  <2>2. SumFunctionOnSet(a, S \ P) = 0
    BY <1>13, <2>1, SumZero, Zenon
  <2>3. \A x \in S : a[x] \in Int
    BY <1>14, SMTT(30)
  <2>4. SumFunctionOnSet(a, S) = SumFunctionOnSet(a, P) + SumFunctionOnSet(a, S \ P)
    BY <1>1, <2>3, SumSplit, Zenon
  <2>. QED
    BY <1>9, <1>11, <2>2, <2>4, SMTT(30)
<1>. QED
  BY <1>10, <1>12, <1>14, <1>15, Zenon

\* The types of the stakes and ratios, and the number of parties.
LEMMA StakeFacts ==
    ASSUME RewardInv
    PROVE  /\ IsFiniteSet(DOMAIN in.stakes) /\ Cardinality(DOMAIN in.stakes) < EpsInv
           /\ \A i \in DOMAIN in.stakes :
                /\ IsFiniteSet(DOMAIN in.stakes[i])
                /\ Cardinality(DOMAIN in.stakes[i]) < EpsInv
                /\ \A u \in DOMAIN in.stakes[i] : in.stakes[i][u] \in Nat
                /\ in.ratio[i] \in Nat
<1>1. PICK f \in Inputs : in \in [raw : f.raw, block : f.block, proofs : f.proofs,
                                 stakes : f.stakes, ratio : f.ratio]
  BY DEF RewardInv
<1>2. in.stakes \in f.stakes /\ in.ratio \in f.ratio
  BY <1>1, Zenon
<1>3. /\ IsFiniteSet(DOMAIN in.stakes) /\ Cardinality(DOMAIN in.stakes) < EpsInv
      /\ \A i \in DOMAIN in.stakes :
           IsFiniteSet(DOMAIN in.stakes[i]) /\ Cardinality(DOMAIN in.stakes[i]) < EpsInv
  BY <1>2, PartiesAssumption, Zenon
<1>4. \A i \in DOMAIN in.stakes :
        (\A u \in DOMAIN in.stakes[i] : in.stakes[i][u] \in Nat) /\ in.ratio[i] \in Nat
  BY <1>2, InputAssumption, Zenon
<1>. QED
  BY <1>3, <1>4, Zenon

\* An indexer that takes part has stake, and its effective stake is not zero.
LEMMA WeightFacts ==
    ASSUME RewardInv, pc \in {"divide", "done"}, NEW i \in DOMAIN weights
    PROVE  /\ i \in DOMAIN in.stakes
           /\ weights[i].raw = SumFunctionOnSet(in.stakes[i], DOMAIN in.stakes[i])
           /\ weights[i].raw \in Nat \ {0} /\ weights[i].effective \in Nat \ {0}
<1>. DEFINE raw == rawStake(in.stakes, i)
            weight == (raw * percent[i]) \div 100
<1>1. Judgement /\ Loaded /\ weights = indexerStakeTotal(percent, in.stakes)
  BY ZenonT(40) DEF RewardInv, Judgement
<1>2. /\ i \in DOMAIN percent /\ i \in DOMAIN in.stakes
      /\ weight > 0 /\ weights[i].raw = raw /\ weights[i].effective = weight
  BY <1>1, Zenon DEF indexerStakeTotal
<1>3. raw = SumFunctionOnSet(in.stakes[i], DOMAIN in.stakes[i])
  BY Zenon DEF rawStake, SumFunction
<1>4. raw \in Nat
  BY <1>2, <1>3, StakeFacts, SumNat, Zenon
<1>5. percent[i] \in Nat
  <2>1. PICK p \in Listed : percent[i] = WeightOf(cfg, h, p)
    BY <1>1, <1>2, PercentIs, Zenon
  <2>2. WeightOf(cfg, h, p) \in 1 .. 100
    BY <1>1, Weights, Zenon
  <2>. QED
    BY <2>1, <2>2, SMTT(30)
<1>6. PICK r \in Nat, c \in Nat, e \in {weight} : r = raw /\ c = percent[i] /\ e = weight
  BY <1>4, <1>5, Zenon
<1>7. r * c \in Nat /\ e = (r * c) \div 100
  BY <1>6, SMTT(30)
<1>. HIDE DEF raw, weight
<1>8. e \in Nat
  BY <1>7, Quotient, SMTT(30)
<1>9. r # 0
  <2>1. SUFFICES ASSUME r = 0 PROVE FALSE
    OBVIOUS
  <2>2. r * c = 0
    BY <2>1, SMTT(30)
  <2>3. e = 0
    BY <1>7, <2>2, SMTT(30)
  <2>. QED
    BY <1>2, <1>6, <2>3, SMTT(30)
<1>10. e > 0
  BY <1>2, <1>6, Zenon
<1>11. e \in Nat \ {0} /\ r \in Nat \ {0}
  BY <1>8, <1>9, <1>10
<1>. QED
  BY <1>2, <1>3, <1>6, <1>11, Zenon

\* Whether amounts are truncated is a truth value.
LEMMA TruncationType == shouldUseRewardTruncation(cfg, h) \in BOOLEAN
BY SMTT(30) DEF shouldUseRewardTruncation

\* No more is unlocked than the reward of the block.
LEMMA UnlockedFacts ==
    ASSUME RewardInv, EpsInv > 1, pc \in {"divide", "done"}
    PROVE  unlocked \in Nat /\ unlocked <= in.block.reward
<1>1. ConfigOK(cfg) /\ h \in Nat
  BY InputFacts, Zenon DEF Loaded
<1>2. PICK R \in Nat : R = in.block.reward
  BY InputFacts, Zenon
<1>10. PICK g \in 0 .. 1000 : g = resolveRewardReleasePercent(cfg, h)
  <2>1. resolveRewardReleasePercent(cfg, h) \in 0 .. 1000
    BY <1>1, ReleaseRange, SMTT(40)
  <2>. QED
    BY <2>1, ZenonT(40)
<1>3. PICK trunc \in BOOLEAN : trunc = shouldUseRewardTruncation(cfg, h)
  BY TruncationType, ZenonT(40)
<1>4. PICK num \in Nat : num = R * g
  OBVIOUS
<1>5. unlocked = quantizeReward(num, 1000, trunc)
  <2>1. unlocked = unlockedRewardAmount(cfg, h, R)
    BY <1>2, ZenonT(40) DEF RewardInv
  <2>. QED
    BY <1>3, <1>4, <1>10, <2>1, SMTT(30) DEF unlockedRewardAmount
<1>6. PICK K \in Nat \ {0} : K = Unit(trunc) /\ K > 1
  BY EpsAssumption DEF Unit
<1>7. PICK q \in Nat : q = unlocked /\ (1000 * K) * q <= num * K + 1000
  <2>1. unlocked \in Nat /\ (1000 * K) * unlocked <= num * K + 1000
    BY <1>5, <1>6, QuantizedUnit, SMTT(30)
  <2>. QED
    BY <2>1
<1>8. num <= R * 1000
  BY <1>4, TimesMono, SMTT(30)
<1>9. q <= R
  <2>1. SUFFICES ASSUME R + 1 <= q PROVE FALSE
    BY SMTT(30)
  <2>2. PICK D \in Nat : D = 1000 * K
    BY SMTT(30)
  <2>3. D * (R + 1) <= D * q
    BY <2>1, TimesMono, SMTT(30)
  <2>4. K * num <= K * (R * 1000)
    BY <1>8, TimesMono, SMTT(30)
  <2>5. K * num = num * K /\ K * (R * 1000) = D * R /\ D * (R + 1) = D * R + D
    BY <2>2, SMTT(30)
  <2>6. D * R \in Nat /\ num * K \in Nat /\ D * q \in Nat
    BY SMTT(30)
  <2>7. D > 1000
    BY <1>6, <2>2, SMTT(30)
  <2>. QED
    BY <1>7, <2>2, <2>3, <2>4, <2>5, <2>6, <2>7, SMTT(30)
<1>. QED
  BY <1>2, <1>7, <1>9, SMTT(30)

\* The first layer of an indexer is a natural number and its own reward is no
\* more than that.
LEMMA OwnFacts ==
    ASSUME EpsInv > 1, NEW first \in Nat, NEW ratio \in Nat
    PROVE  indexerReward(cfg, h, first, ratio) \in 0 .. first
<1>. DEFINE q == quantizeReward(first * ratio, 10000, shouldUseRewardTruncation(cfg, h))
<1>1. PICK trunc \in BOOLEAN, num \in Nat :
        trunc = shouldUseRewardTruncation(cfg, h) /\ num = first * ratio
  BY TruncationType, SMTT(30)
<1>2. PICK K \in Nat \ {0} : K = Unit(trunc)
  BY EpsAssumption, SMTT(30) DEF Unit
<1>3. q = quantizeReward(num, 10000, trunc)
  BY <1>1, SMTT(30)
<1>4. q \in Nat
  BY <1>2, <1>3, QuantizedUnit, SMTT(30)
<1>. HIDE DEF q
<1>5. \E x \in {first, q} : \A y \in {first, q} : x <= y
  BY <1>4, SMTT(30)
<1>6. Min({first, q}) \in {first, q} /\ Min({first, q}) <= first
  BY <1>5, SMTT(30) DEF Min
<1>7. indexerReward(cfg, h, first, ratio) = Min({first, q})
  BY SMTT(30) DEF indexerReward, q
<1>. QED
  BY <1>4, <1>6, <1>7, SMTT(30)

\* What is divided is never more than what it is divided from once amounts are
\* truncated, and falls short of it by less than a unit per party; rounded
\* amounts differ from it by at most half a unit per party.  For the unlocked
\* reward over the indexers, and for every indexer's pool over its stakers.
THEOREM AllocationBounds == Spec => []AllocationIsBounded
<1>1. RewardInv => AllocationIsBounded
  <2>. DEFINE trunc == shouldUseRewardTruncation(cfg, h)
              S == DOMAIN weights
              eff == [j \in S |-> weights[j].effective]
              firsts == [i \in S |-> shares[i].first]
  <2>1. SUFFICES ASSUME RewardInv, pc = "done" PROVE AllocationIsBounded
    BY Zenon DEF AllocationIsBounded
  <2>2. pc \in {"divide", "done"} /\ shares = Divisions /\ S # {}
    BY <2>1, Zenon DEF RewardInv
  <2>3. \A i \in S : /\ i \in DOMAIN in.stakes
                     /\ weights[i].raw = SumFunctionOnSet(in.stakes[i], DOMAIN in.stakes[i])
                     /\ weights[i].raw \in Nat \ {0} /\ weights[i].effective \in Nat \ {0}
    BY <2>1, <2>2, WeightFacts, Zenon
  <2>4. /\ IsFiniteSet(S) /\ Cardinality(S) \in Nat \ {0}
        /\ Cardinality(S) < EpsInv /\ EpsInv > 1
    <3>1. /\ IsFiniteSet(DOMAIN in.stakes) /\ Cardinality(DOMAIN in.stakes) < EpsInv
          /\ S \subseteq DOMAIN in.stakes
      BY <2>1, <2>3, StakeFacts, Zenon
    <3>2. /\ IsFiniteSet(S) /\ Cardinality(S) <= Cardinality(DOMAIN in.stakes)
          /\ Cardinality(S) \in Nat /\ Cardinality(DOMAIN in.stakes) \in Nat
      BY <3>1, FS_Subset, FS_CardinalityType, Zenon
    <3>3. Cardinality(S) # 0
      BY <2>2, <3>2, FS_EmptySet, Zenon
    <3>. QED
      BY <3>1, <3>2, <3>3, EpsAssumption, SMTT(30)
  <2>5. unlocked \in Nat /\ unlocked <= in.block.reward
    BY <2>1, <2>2, <2>4, UnlockedFacts, Zenon
  <2>6. PICK den : den = SumFunctionOnSet(eff, S)
    BY SMTT(30)
  <2>7. \A i \in S : eff[i] \in Nat /\ eff[i] > 0
    BY <2>3, SMTT(30)
  <2>8. den \in Nat \ {0}
    <3>1. PICK i \in S : TRUE
      BY <2>2, SMTT(30)
    <3>2. IsFiniteSet(S \ {i}) /\ \A x \in S : eff[x] \in Int
      BY <2>4, <2>7, FS_Subset, SMTT(30)
    <3>. HIDE DEF eff
    <3>3. den = eff[i] + SumFunctionOnSet(eff, S \ {i})
      BY <2>4, <2>6, <3>2, SumRemove, SMTT(30)
    <3>4. SumFunctionOnSet(eff, S \ {i}) \in Nat
      BY <2>7, <3>2, SumNat, Zenon
    <3>. QED
      BY <2>7, <3>3, <3>4, SMTT(30)
  <2>9. ASSUME NEW i \in S
        PROVE  /\ shares[i].first = firstLayerReward(cfg, h, weights, i, unlocked)
               /\ shares[i].own = indexerReward(cfg, h, shares[i].first, in.ratio[i])
               /\ shares[i].users = [u \in DOMAIN in.stakes[i] |->
                    stakerReward(cfg, h, shares[i].first - shares[i].own, in.stakes[i][u],
                                 weights[i].raw)]
    <3>1. shares[i] = Shares(cfg, h, weights, i, unlocked, in.ratio[i], in.stakes)
      BY <2>2, Zenon DEF Divisions
    <3>2. PICK f : f = firstLayerReward(cfg, h, weights, i, unlocked)
      BY Zenon
    <3>3. PICK o : o = indexerReward(cfg, h, f, in.ratio[i])
      BY Zenon
    <3>4. PICK us : us = [u \in DOMAIN in.stakes[i] |->
                            stakerReward(cfg, h, f - o, in.stakes[i][u], weights[i].raw)]
      BY Zenon
    <3>5. shares[i] = [first |-> f, own |-> o, users |-> us]
      BY <3>1, <3>2, <3>3, <3>4, Zenon DEF Shares
    <3>6. shares[i].first = f /\ shares[i].own = o /\ shares[i].users = us
      BY <3>5, SMTT(30)
    <3>. QED
      BY <3>2, <3>3, <3>4, <3>6, Zenon
  <2>10. ASSUME NEW i \in S PROVE firsts[i] = quantizeReward(unlocked * eff[i], den, trunc)
    <3>1. firsts[i] = firstLayerReward(cfg, h, weights, i, unlocked)
      BY <2>9, Zenon
    <3>2. SumFunction([j \in DOMAIN weights |-> weights[j].effective]) = den
      BY <2>6, Zenon DEF SumFunction
    <3>3. eff[i] = weights[i].effective
      OBVIOUS
    <3>. HIDE DEF eff, firsts
    <3>. QED
      BY <3>1, <3>2, <3>3, Zenon DEF firstLayerReward
  <2>11. {x \in S : eff[x] > 0} = S
    BY <2>7, Zenon
  <2>12. /\ \A i \in S : firsts[i] \in Nat
         /\ Divided(SumFunctionOnSet(firsts, S), unlocked, Cardinality(S))
    <3>. HIDE DEF firsts, eff
    <3>. QED
      BY <2>4, <2>5, <2>6, <2>7, <2>8, <2>10, <2>11, TruncationType, DividedByWeight, Zenon
  <2>13. ASSUME NEW i \in S
         PROVE  /\ shares[i].own <= shares[i].first
                /\ Divided(SumFunction(shares[i].users), shares[i].first - shares[i].own,
                           Cardinality({u \in DOMAIN shares[i].users : in.stakes[i][u] > 0}))
    <3>1. PICK U, st : U = DOMAIN in.stakes[i] /\ st = in.stakes[i]
      BY Zenon
    <3>2. PICK first \in Nat, own \in {shares[i].own} : first = shares[i].first /\ own = shares[i].own
      BY <2>12, Zenon
    <3>3. own = indexerReward(cfg, h, first, in.ratio[i])
      BY <2>9, <3>2, Zenon
    <3>4. own \in 0 .. first
      BY <2>1, <2>3, <2>4, <3>3, StakeFacts, OwnFacts, ZenonT(40)
    <3>5. PICK pool \in Nat : pool = first - own
      BY <3>4
    <3>6. PICK users : users = shares[i].users
      BY Zenon
    <3>7. users = [u \in U |-> quantizeReward(pool * st[u], weights[i].raw, trunc)]
      <4>1. users = [u \in U |-> stakerReward(cfg, h, pool, st[u], weights[i].raw)]
        BY <2>9, <3>1, <3>2, <3>5, <3>6, Zenon
      <4>. QED
        BY <4>1, Zenon DEF stakerReward
    <3>8. DOMAIN users = U /\ \A u \in U : users[u] = quantizeReward(pool * st[u], weights[i].raw, trunc)
      BY <3>7, Zenon
    <3>9. /\ IsFiniteSet(U) /\ Cardinality(U) < EpsInv /\ \A u \in U : st[u] \in Nat
          /\ weights[i].raw \in Nat \ {0} /\ weights[i].raw = SumFunctionOnSet(st, U)
      BY <2>1, <2>3, <3>1, StakeFacts, Zenon
    <3>10. Divided(SumFunctionOnSet(users, U), pool, Cardinality({u \in U : st[u] > 0}))
      BY <3>8, <3>9, TruncationType, DividedByWeight, Zenon
    <3>11. Divided(SumFunction(users), first - own, Cardinality({u \in DOMAIN users : st[u] > 0}))
      BY <3>5, <3>8, <3>10, Zenon DEF SumFunction
    <3>12. own <= first
      BY <3>4, SMTT(30)
    <3>. QED
      BY <3>1, <3>2, <3>6, <3>11, <3>12, Zenon
  <2>14. DOMAIN shares = S /\ DOMAIN firsts = S
    BY <2>2, Zenon DEF Divisions
  <2>. HIDE DEF S
  <2>15. firsts = [i \in DOMAIN shares |-> shares[i].first]
    BY <2>14, Zenon
  <2>16. Divided(SumFunction([i \in DOMAIN shares |-> shares[i].first]), unlocked,
                 Cardinality(DOMAIN shares))
    BY <2>12, <2>14, <2>15, Zenon DEF SumFunction
  <2>. QED
    BY <2>5, <2>13, <2>14, <2>16, Zenon DEF AllocationIsBounded
<1>. QED
  BY <1>1, RewardInvariant, PTL

------------------------------------------------------------------------------
(***************************************************************************)
(* The commission                                                          *)
(*                                                                         *)
(* The properties of CommissionView are not inductive: that a view yields  *)
(* the right ratio at one height says nothing about the next.  The         *)
(* strengthening says what a view remembers.  Updates are at least         *)
(* Activation apart (Spaced), so a view that has replayed the heights up   *)
(* to k needs only two of them: the last one, and the last one before it,  *)
(* which must have taken effect (ViewOK).                                  *)
(***************************************************************************)

\* An update is accepted only when the one before it has taken effect.
Spaced(A) == \A a, b \in A : a < b => effective(a) <= b

\* View v has replayed the updates A of the heights up to k and none above n.
ViewOK(A, v, k, n) ==
    /\ v \in [delayed : 1 .. Unset, ratio : 1 .. Unset]
    /\ v.delayed # Unset => v.delayed \in A /\ v.delayed <= n
    /\ v.ratio # Unset => v.ratio \in A /\ effective(v.ratio) <= n
    /\ \A a \in A : a <= k => v.delayed # Unset /\ a <= v.delayed
    /\ v.delayed # Unset =>
         \A a \in A : a < v.delayed => v.ratio # Unset /\ a <= v.ratio

\* The counters and the ratios that were read, by type.
Counters ==
    /\ tip \in 0 .. MaxHeight /\ accepted \subseteq 1 .. tip
    /\ cursor \in [Consumers -> 0 .. MaxHeight]
    /\ \A c \in Consumers : cursor[c] <= tip

Reads ==
    /\ used \in [Consumers -> [Heights -> 0 .. Unset]]
    /\ \A c \in Consumers, ht \in Heights : used[c][ht] # Unset => ht <= tip

Views ==
    /\ ViewOK(accepted, latest, tip, tip)
    /\ DOMAIN view = Consumers /\ view = [c \in Consumers |-> view[c]]
    /\ \A c \in Consumers : ViewOK(accepted, view[c], cursor[c], cursor[c] + 1)

\* The inductive invariant.
IInv ==
    /\ Counters /\ Spaced(accepted) /\ Views /\ Reads
    /\ PendingRatioInForce /\ SettledRatioInForce
------------------------------------------------------------------------------
\* A view stays right when less is asked of it.
LEMMA ViewWeaken ==
    ASSUME NEW A \in SUBSET Nat, NEW v, NEW k \in Nat, NEW n \in Nat,
           NEW j \in Nat, NEW m \in Nat,
           ViewOK(A, v, k, n), j <= k, n <= m
    PROVE  ViewOK(A, v, j, m)
<1>1. v.delayed \in 1 .. Unset /\ v.ratio \in 1 .. Unset
  BY Zenon DEF ViewOK
<1>2. v.delayed # Unset => v.delayed <= m
  BY <1>1, ViewAssumption, SMTT(30) DEF ViewOK, Unset
<1>3. v.ratio # Unset => effective(v.ratio) <= m
  BY <1>1, ViewAssumption, SMTT(30) DEF ViewOK, Unset, effective
<1>4. \A a \in A : a <= j => a <= k
  BY SMTT(30)
<1> QED BY <1>2, <1>3, <1>4, Zenon DEF ViewOK

\* An update in a later block does not disturb a view.
LEMMA ViewGrow ==
    ASSUME NEW m \in Nat, NEW A \in SUBSET (1 .. m), NEW v,
           NEW k \in Nat, NEW n \in Nat, k <= m, ViewOK(A, v, k, n)
    PROVE  ViewOK(A \cup {m + 1}, v, k, n)
<1>1. ~(m + 1 <= k)
  BY SMTT(30)
<1>2. v.delayed # Unset => v.delayed \in Nat /\ ~(m + 1 < v.delayed)
  BY SMTT(30) DEF ViewOK
<1> QED BY <1>1, <1>2, Zenon DEF ViewOK

\* stageCommissionRatioForHeight keeps a view right: what it makes effective
\* is the last update.
LEMMA ViewStage ==
    ASSUME NEW A \in SUBSET Nat, NEW v, NEW k \in Nat, NEW n \in Nat,
           NEW ht \in Nat, ht <= n, ViewOK(A, v, k, n)
    PROVE  ViewOK(A, stageCommissionRatioForHeight(v, ht), k, n)
<1> DEFINE s == stageCommissionRatioForHeight(v, ht)
<1>1. CASE v.delayed # Unset /\ effective(v.delayed) <= ht
  <2>1. s = [delayed |-> v.delayed, ratio |-> v.delayed]
    BY <1>1, SMTT(30) DEF stageCommissionRatioForHeight, ViewOK
  <2>2. v.delayed \in A /\ v.delayed \in 1 .. Unset /\ effective(v.delayed) <= n
    BY <1>1, ViewAssumption, SMTT(30) DEF ViewOK, effective, Unset
  <2>3. \A a \in A : a < v.delayed => a <= v.delayed
    BY <2>2, SMTT(30)
  <2>4. s \in [delayed : 1 .. Unset, ratio : 1 .. Unset]
    BY <2>1, <2>2, SMTT(30)
  <2>5. s.delayed = v.delayed /\ s.ratio = v.delayed
    BY <2>1, SMTT(30)
  <2> HIDE DEF s
  <2>6. ViewOK(A, s, k, n)
    BY <1>1, <2>2, <2>3, <2>4, <2>5, Zenon DEF ViewOK
  <2> QED BY <2>6, Zenon DEF s
<1>2. CASE ~(v.delayed # Unset /\ effective(v.delayed) <= ht)
  BY <1>2, SMTT(30) DEF stageCommissionRatioForHeight
<1> QED BY <1>1, <1>2, Zenon

\* handleUpdateRatioTx keeps a view right and adds the update of height ht: the
\* update it replaces is effective by then.  A second replay changes nothing.
LEMMA ViewUpdate ==
    ASSUME NEW ht \in 1 .. MaxHeight, NEW A \in SUBSET Nat, NEW v,
           ht \in A, Spaced(A), ViewOK(A, v, ht - 1, ht)
    PROVE  ViewOK(A, handleUpdateRatioTx(v, ht), ht, ht)
<1> DEFINE s == stageCommissionRatioForHeight(v, ht)
           u == handleUpdateRatioTx(v, ht)
<1>0. ht - 1 \in Nat /\ ht \in Nat /\ ht \in 1 .. Unset /\ ht # Unset
  BY ViewAssumption, SMTT(30) DEF Unset
<1>1. ViewOK(A, s, ht - 1, ht)
  BY <1>0, ViewStage, SMTT(30)
<1>2. u = [delayed |-> ht, ratio |-> s.ratio]
  BY <1>1 DEF handleUpdateRatioTx, ViewOK
<1>3. s.delayed = v.delayed
  BY SMTT(30) DEF stageCommissionRatioForHeight, ViewOK
<1>4. ASSUME NEW a \in A, a < ht
      PROVE  s.ratio # Unset /\ a <= s.ratio
  <2>1. v.delayed # Unset /\ a <= v.delayed /\ v.delayed \in A /\ v.delayed <= ht
    BY <1>0, <1>4, SMTT(30) DEF ViewOK
  <2>2. CASE v.delayed = ht
    <3>1. s.delayed # Unset /\ a < s.delayed
      BY <1>3, <1>4, <2>1, <2>2, Zenon
    <3>2. \A b \in A : b < s.delayed => s.ratio # Unset /\ b <= s.ratio
      BY <1>1, <3>1, Zenon DEF ViewOK
    <3> QED BY <3>1, <3>2, Zenon
  <2>3. CASE v.delayed # ht
    <3>0. v.delayed < ht
      <4> DEFINE d == v.delayed
      <4>1. d \in Nat /\ d <= ht /\ d # ht
        BY <2>1, <2>3, Zenon
      <4> HIDE DEF d
      <4>2. d < ht
        BY <1>0, <4>1
      <4> QED BY <4>2, Zenon DEF d
    <3>1. effective(v.delayed) <= ht
      BY <2>1, <3>0, Zenon DEF Spaced
    <3>2. s.ratio = v.delayed
      BY <2>1, <3>1 DEF stageCommissionRatioForHeight, ViewOK
    <3> QED BY <2>1, <3>2, Zenon
  <2> QED BY <2>2, <2>3, Zenon
<1>5. u \in [delayed : 1 .. Unset, ratio : 1 .. Unset]
  BY <1>0, <1>1, <1>2 DEF ViewOK
<1>6. u.delayed = ht /\ u.ratio = s.ratio
  BY <1>2, SMTT(30)
<1>7. s.ratio # Unset => s.ratio \in A /\ effective(s.ratio) <= ht
  BY <1>1, Zenon DEF ViewOK
<1> HIDE DEF u, s
<1>8. ViewOK(A, u, ht, ht)
  BY <1>0, <1>4, <1>5, <1>6, <1>7, SMTT(30) DEF ViewOK
<1> QED BY <1>8, Zenon DEF u

\* What a view that has replayed the heights up to ht yields at ht: the ratio in
\* force, and nothing only when no update has taken effect.
LEMMA ViewRead ==
    ASSUME NEW ht \in Nat, accepted \in SUBSET Nat, NEW v,
           ViewOK(accepted, v, ht, ht)
    PROVE  LET r == stageCommissionRatioForHeight(v, ht).ratio
           IN  /\ r # Unset => InForce(r, ht)
               /\ r = Unset => \A a \in accepted : ~(effective(a) <= ht)
<1> DEFINE r == stageCommissionRatioForHeight(v, ht).ratio
<1>1. ASSUME NEW a \in accepted, effective(a) <= ht
      PROVE  v.delayed # Unset /\ a <= v.delayed /\ v.delayed \in accepted
  <2>1. a <= ht
    BY <1>1, ViewAssumption, SMTT(30) DEF effective
  <2> QED BY <2>1, Zenon DEF ViewOK
<1>2. CASE v.delayed # Unset /\ effective(v.delayed) <= ht
  <2>1. r = v.delayed /\ v.delayed \in accepted
    BY <1>2, SMTT(30) DEF stageCommissionRatioForHeight, ViewOK
  <2> QED BY <1>1, <1>2, <2>1, Zenon DEF InForce
<1>3. CASE ~(v.delayed # Unset /\ effective(v.delayed) <= ht)
  <2>1. r = v.ratio
    BY <1>3, SMTT(30) DEF stageCommissionRatioForHeight
  <2>2. ASSUME NEW a \in accepted, effective(a) <= ht
        PROVE  v.ratio # Unset /\ a <= v.ratio
    <3>1. a # v.delayed
      BY <1>1, <1>3, <2>2, Zenon
    <3>2. a < v.delayed
      <4> DEFINE d == v.delayed
      <4>1. d \in Nat /\ a \in Nat /\ a <= d /\ a # d
        BY <1>1, <2>2, <3>1, Zenon
      <4> HIDE DEF d
      <4>2. a < d
        BY <4>1
      <4> QED BY <4>2, Zenon DEF d
    <3>3. v.delayed # Unset
      BY <1>1, <2>2, Zenon
    <3>4. \A b \in accepted : b < v.delayed => v.ratio # Unset /\ b <= v.ratio
      BY <3>3, Zenon DEF ViewOK
    <3> QED BY <3>2, <3>4, Zenon
  <2>3. v.ratio # Unset => v.ratio \in accepted /\ effective(v.ratio) <= ht
    BY Zenon DEF ViewOK
  <2> QED BY <2>1, <2>2, <2>3, Zenon DEF InForce
<1> QED BY <1>2, <1>3, Zenon

\* A height without an update adds nothing to replay.
LEMMA ViewSkip ==
    ASSUME NEW A \in SUBSET Nat, NEW v, NEW k \in Nat, NEW n \in Nat,
           ViewOK(A, v, k, n), k + 1 \notin A
    PROVE  ViewOK(A, v, k + 1, n)
<1>1. \A a \in A : a <= k + 1 => a <= k
  OBVIOUS
<1> QED BY <1>1, Zenon DEF ViewOK

------------------------------------------------------------------------------
\* The invariant holds when no ratio was registered yet.
LEMMA InitIInv == ViewInit => IInv
<1> SUFFICES ASSUME ViewInit PROVE IInv
  OBVIOUS
<1> USE ViewAssumption
<1>1. Counters /\ Spaced(accepted)
  BY SMTT(30) DEF ViewInit, Counters, Spaced
<1>2. NoView \in [delayed : 1 .. Unset, ratio : 1 .. Unset]
      /\ NoView.delayed = Unset /\ NoView.ratio = Unset
  BY SMTT(30) DEF NoView, Unset
<1>3. \A k, n : ViewOK({}, NoView, k, n)
  BY <1>2, Zenon DEF ViewOK
<1>4. Views
  BY <1>3, Zenon DEF ViewInit, Views
<1>5. Reads
  BY SMTT(30) DEF ViewInit, Reads, Unset
<1>6. PendingRatioInForce /\ SettledRatioInForce
  BY Zenon DEF ViewInit, PendingRatioInForce, SettledRatioInForce, ReadInForce, Consumers
<1> QED BY <1>1, <1>4, <1>5, <1>6, Zenon DEF IInv

\* A block that is committed does not change what was in force before it.
LEMMA ForceGrow ==
    ASSUME Counters, accepted' \subseteq accepted \cup {tip + 1},
           accepted \subseteq accepted', NEW ht \in Nat, ht <= tip
    PROVE  /\ \A r : InForce(r, ht) => InForce(r, ht)'
           /\ (\E a \in accepted' : effective(a) <= ht)
                => \E a \in accepted : effective(a) <= ht
<1>1. ~(effective(tip + 1) <= ht)
  BY ViewAssumption, SMTT(30) DEF effective, Counters
<1>2. \A a \in accepted' : effective(a) <= ht => a \in accepted
  BY <1>1, Zenon
<1> QED BY <1>2, Zenon DEF InForce, effective, Register

\* A committed block, with or without a new ratio, keeps the invariant.
LEMMA CommitIInv == IInv /\ CommitBlock => IInv'
<1> SUFFICES ASSUME IInv, CommitBlock PROVE IInv'
  BY SMTT(30)
<1> DEFINE ht == tip + 1
<1>0. /\ tip \in Nat /\ tip < MaxHeight /\ ht \in 1 .. MaxHeight /\ tip' = ht
      /\ cursor' = cursor /\ view' = view /\ used' = used
      /\ accepted \in SUBSET (1 .. tip) /\ ht \notin accepted
      /\ \A c \in Consumers : cursor[c] \in Nat /\ cursor[c] <= tip
  BY ViewAssumption, SMTT(30) DEF IInv, Counters, CommitBlock
<1>1. \/ accepted' = accepted /\ latest' = latest
      \/ /\ accepted' = accepted \cup {ht}
         /\ latest' = handleUpdateRatioTx(latest, ht)
         /\ ~ hasUneffectiveDelayedCommissionRatio(ht)
  BY Zenon DEF CommitBlock
<1>2. Counters'
  <2>1. accepted' \subseteq accepted \cup {ht}
    BY <1>1, Zenon
  <2>2. accepted' \subseteq 1 .. ht
    BY <1>0, <2>1, SMTT(30)
  <2>3. tip' \in 0 .. MaxHeight /\ \A c \in Consumers : cursor'[c] <= tip'
    BY <1>0, ViewAssumption, SMTT(30)
  <2>4. cursor' \in [Consumers -> 0 .. MaxHeight]
    BY <1>0, Zenon DEF IInv, Counters
  <2> QED BY <1>0, <2>2, <2>3, <2>4, Zenon DEF Counters
<1>3. Spaced(accepted')
  <2>1. CASE accepted' = accepted
    BY <2>1 DEF IInv
  <2>2. CASE accepted' = accepted \cup {ht} /\ ~ hasUneffectiveDelayedCommissionRatio(ht)
    <3>1. ASSUME NEW a \in accepted PROVE effective(a) <= ht
      <4> DEFINE d == latest.delayed
      <4>1. a \in Nat /\ a <= tip
        BY <1>0, SMTT(30)
      <4>2. d # Unset /\ a <= d /\ d \in 1 .. Unset
        BY <1>0, <4>1, Zenon DEF IInv, Views, ViewOK
      <4>3. d \in Nat /\ (effective(d) > ht \/ effective(d) <= ht)
        BY <1>0, <4>2, ViewAssumption, SMTT(30) DEF Unset, effective
      <4>4. effective(d) <= ht
        BY <2>2, <4>2, <4>3, Zenon DEF hasUneffectiveDelayedCommissionRatio
      <4> HIDE DEF d
      <4> QED BY <1>0, <4>1, <4>2, <4>3, <4>4, ViewAssumption, SMTT(30) DEF effective
    <3>2. \A a \in accepted : ~(ht < a)
      BY <1>0, SMTT(30)
    <3>3. ~(ht < ht)
      BY <1>0, SMTT(30)
    <3> QED BY <2>2, <3>1, <3>2, <3>3, Zenon DEF Spaced, IInv
  <2> QED BY <1>1, <2>1, <2>2, Zenon
<1>4. ViewOK(accepted', latest', ht, ht)
  <2>0. ViewOK(accepted, latest, tip, tip) /\ accepted \in SUBSET Nat
    BY <1>0, SMTT(30) DEF IInv, Views
  <2>1. CASE accepted' = accepted /\ latest' = latest
    <3>1. ViewOK(accepted, latest, tip + 1, tip)
      BY <1>0, <2>0, ViewSkip, Zenon
    <3>2. ht \in Nat /\ ht <= ht /\ tip <= ht
      BY <1>0, SMTT(30)
    <3> QED BY <1>0, <2>0, <2>1, <3>1, <3>2, ViewWeaken, Zenon
  <2>2. CASE accepted' = accepted \cup {ht} /\ latest' = handleUpdateRatioTx(latest, ht)
    <3>1. ViewOK(accepted \cup {tip + 1}, latest, tip, tip)
      BY <1>0, <2>0, ViewGrow, SMTT(30)
    <3>2. accepted' \in SUBSET Nat /\ ht \in Nat /\ tip <= ht /\ tip <= tip /\ ht - 1 = tip
      BY <1>0, <2>2, SMTT(30)
    <3>3. ViewOK(accepted', latest, tip, ht)
      BY <1>0, <2>2, <3>1, <3>2, ViewWeaken, Zenon
    <3>4. ViewOK(accepted', latest, ht - 1, ht)
      BY <3>2, <3>3, SMTT(30)
    <3> HIDE DEF ht
    <3> QED BY <1>0, <1>3, <2>2, <3>2, <3>4, ViewUpdate, Zenon
  <2> QED BY <1>1, <2>1, <2>2, Zenon
<1>5. ASSUME NEW c \in Consumers
      PROVE  ViewOK(accepted', view'[c], cursor'[c], cursor'[c] + 1)
  <2>1. ViewOK(accepted, view[c], cursor[c], cursor[c] + 1) /\ cursor[c] + 1 \in Nat
    BY <1>0, SMTT(30) DEF IInv, Views
  <2>2. ViewOK(accepted \cup {tip + 1}, view[c], cursor[c], cursor[c] + 1)
    BY <1>0, <2>1, ViewGrow, Zenon
  <2> QED BY <1>0, <1>1, <2>1, <2>2, Zenon
<1>6. Views'
  BY <1>0, <1>4, <1>5, Zenon DEF IInv, Views
<1>7. Reads'
  BY <1>0, ViewAssumption, SMTT(30) DEF IInv, Reads, Heights
<1>8. ASSUME NEW c \in Consumers, NEW g \in Heights, used[c][g] # Unset
      PROVE  /\ InForce(used[c][g], g) => InForce(used[c][g], g)'
             /\ (\E a \in accepted' : effective(a) <= g)
                  => \E a \in accepted : effective(a) <= g
  <2>1. g \in Nat /\ g <= tip
    BY <1>8, SMTT(30) DEF IInv, Reads, Heights
  <2>2. accepted' \subseteq accepted \cup {tip + 1} /\ accepted \subseteq accepted'
    BY <1>1, Zenon
  <2>3. \A r : InForce(r, g) => InForce(r, g)'
    BY <2>1, <2>2, ForceGrow, Zenon DEF IInv
  <2>4. (\E a \in accepted' : effective(a) <= g)
          => \E a \in accepted : effective(a) <= g
    BY <2>1, <2>2, ForceGrow, Zenon DEF IInv
  <2> QED BY <1>0, <2>3, <2>4, Zenon DEF InForce
<1>9. PendingRatioInForce' /\ SettledRatioInForce'
  BY <1>0, <1>8, Zenon DEF IInv, PendingRatioInForce, SettledRatioInForce,
       ReadInForce, Consumers, InForce, effective, Heights, Unset, Register
<1> QED BY <1>2, <1>3, <1>6, <1>7, <1>9, Zenon DEF IInv

\* A height that a consumer applies keeps the invariant.
LEMMA ConsumeIInv == \A c \in Consumers : IInv /\ Consume(c) => IInv'
<1> SUFFICES ASSUME NEW c \in Consumers, IInv, Consume(c) PROVE IInv'
  BY Zenon
<1> DEFINE k == cursor[c]
           ht == k + 1
           applied == ApplyFIP101EventsForSnapshot(view[c], ht)
           staged == stageCommissionRatioForHeight(applied, ht)
           r == getIndexerSnapshotRatio(applied, InfoOf(c), ht)
<1>0. /\ k \in Nat /\ ht \in Nat /\ ht - 1 = k /\ tip \in Nat /\ ht <= tip
      /\ ht \in 1 .. MaxHeight /\ accepted \in SUBSET Nat
      /\ tip' = tip /\ accepted' = accepted
  <2>1. k \in Nat /\ tip \in Nat /\ LagOf[c] \in Nat /\ tip <= MaxHeight
        /\ accepted \in SUBSET Nat
    BY ViewAssumption, SMTT(30) DEF IInv, Counters
  <2>2. ht + LagOf[c] <= tip /\ tip' = tip /\ accepted' = accepted
    BY Zenon DEF Consume
  <2> HIDE DEF k
  <2> QED BY <2>1, <2>2, ViewAssumption, SMTT(30)
<1>1. PICK pays \in BOOLEAN, advances \in BOOLEAN :
         /\ view' = [view EXCEPT ![c] = IF pays THEN staged ELSE applied]
         /\ used' = IF pays THEN [used EXCEPT ![c][ht] = r] ELSE used
         /\ latest' = IF pays /\ staged.ratio = Unset /\ c = "snapshot"
                      THEN stageCommissionRatioForHeight(latest, ht) ELSE latest
         /\ cursor' = IF advances THEN [cursor EXCEPT ![c] = ht] ELSE cursor
  BY Zenon DEF Consume
<1>2. ViewOK(accepted, applied, ht, ht)
  <2>1. ViewOK(accepted, view[c], ht - 1, ht) /\ ViewOK(accepted, view[c], k, ht)
    BY <1>0, Zenon DEF IInv, Views
  <2>2. CASE ht \in accepted
    <3>1. applied = handleUpdateRatioTx(view[c], ht)
      BY <2>2, Zenon DEF ApplyFIP101EventsForSnapshot, ListFIP101InscriptionEventsByHeight
    <3>2. Spaced(accepted)
      BY SMTT(30) DEF IInv
    <3> HIDE DEF ht, applied
    <3> QED BY <1>0, <2>1, <2>2, <3>1, <3>2, ViewUpdate, Zenon
  <2>3. CASE ht \notin accepted
    <3>1. applied = view[c]
      BY <2>3, Zenon DEF ApplyFIP101EventsForSnapshot, ListFIP101InscriptionEventsByHeight
    <3>2. ViewOK(accepted, view[c], k + 1, ht)
      BY <1>0, <2>1, <2>3, ViewSkip, Zenon
    <3> QED BY <3>1, <3>2, Zenon
  <2> QED BY <2>2, <2>3, Zenon
<1>3. ViewOK(accepted, staged, ht, ht)
  <2> HIDE DEF ht, applied
  <2> QED BY <1>0, <1>2, ViewStage, SMTT(30)
<1>4. /\ staged.ratio # Unset => InForce(staged.ratio, ht)
      /\ staged.ratio = Unset => \A a \in accepted : ~(effective(a) <= ht)
  <2> HIDE DEF ht, applied
  <2> QED BY <1>0, <1>2, ViewRead, Zenon
<1>5. r = IF staged.ratio # Unset THEN staged.ratio
          ELSE getIndexerLatestRatio(InfoOf(c), ht)
  BY Zenon DEF getIndexerSnapshotRatio
<1>6. r \in 0 .. Unset
  <2>1. Register \in 0 .. Unset /\ 1 .. Unset \subseteq 0 .. Unset
    BY ViewAssumption, SMTT(30) DEF Register, Unset
  <2>2. staged.ratio \in 1 .. Unset
    BY <1>3, Zenon DEF ViewOK
  <2>3. InfoOf(c) \in [delayed : 1 .. Unset, ratio : 1 .. Unset]
    BY ViewAssumption DEF InfoOf, IInv, Views, ViewOK, NoView, Unset
  <2>4. stageCommissionRatioForHeight(InfoOf(c), ht).ratio \in 1 .. Unset
    BY <2>3, SMTT(30) DEF stageCommissionRatioForHeight
  <2>5. getIndexerLatestRatio(InfoOf(c), ht) \in 0 .. Unset
    BY <2>1, <2>4, Zenon DEF getIndexerLatestRatio
  <2> HIDE DEF r, staged
  <2> QED BY <1>5, <2>1, <2>2, <2>5, Zenon
<1> HIDE DEF k, ht, applied, staged, r
<1>7. Counters'
  BY <1>0, <1>1, SMTT(30) DEF IInv, Counters, k
<1>8. ViewOK(accepted', latest', tip', tip')
  <2>1. ViewOK(accepted, latest, tip, tip)
    BY Zenon DEF IInv, Views
  <2>2. ViewOK(accepted, stageCommissionRatioForHeight(latest, ht), tip, tip)
    BY <1>0, <2>1, ViewStage, Zenon
  <2> QED BY <1>0, <1>1, <2>1, <2>2, Zenon
<1>9. ASSUME NEW e \in Consumers
      PROVE  ViewOK(accepted', view'[e], cursor'[e], cursor'[e] + 1)
  <2>1. ViewOK(accepted, view[e], cursor[e], cursor[e] + 1) /\ cursor[e] \in Nat
    BY SMTT(30) DEF IInv, Views, Counters
  <2>2. CASE e # c
    BY <1>0, <1>1, <2>1, <2>2, Zenon DEF IInv, Views, Counters
  <2>3. CASE e = c
    <3> DEFINE w == IF pays THEN staged ELSE applied
    <3>1. ViewOK(accepted, w, ht, ht)
      BY <1>2, <1>3, Zenon
    <3>2. view'[c] = w
      BY <1>1, Zenon DEF IInv, Views
    <3>3. \/ cursor'[c] = ht
          \/ cursor'[c] = k
      BY <1>1, Zenon DEF IInv, Counters, k
    <3> HIDE DEF w
    <3>4. k <= ht /\ ht <= ht + 1 /\ ht + 1 \in Nat /\ ht <= ht /\ k + 1 = ht
      BY <1>0, SMTT(30) DEF ht
    <3>5. ViewOK(accepted, w, ht, ht + 1) /\ ViewOK(accepted, w, k, ht)
      BY <1>0, <3>1, <3>4, ViewWeaken, Zenon
    <3>6. ViewOK(accepted, w, cursor'[c], cursor'[c] + 1)
      BY <3>3, <3>4, <3>5, Zenon
    <3> QED BY <1>0, <2>3, <3>2, <3>6, Zenon
  <2> QED BY <2>2, <2>3, Zenon
<1>10. Views'
  BY <1>1, <1>8, <1>9, Zenon DEF IInv, Views
<1>11. /\ used' \in [Consumers -> [Heights -> 0 .. Unset]]
       /\ \A e \in Consumers, g \in Heights :
            used'[e][g] = IF pays /\ e = c /\ g = ht THEN r ELSE used[e][g]
  <2>1. used \in [Consumers -> [Heights -> 0 .. Unset]] /\ ht \in Heights
    BY <1>0, Zenon DEF IInv, Reads, Heights
  <2>2. CASE pays
    BY <1>1, <1>6, <2>1, <2>2, Zenon
  <2>3. CASE ~pays
    BY <1>1, <2>1, <2>3, Zenon
  <2> QED BY <2>2, <2>3, Zenon
<1>12. Reads'
  BY <1>0, <1>11, Zenon DEF IInv, Reads
<1>13. c = "pending" => InForce(r, ht)
  <2>1. CASE staged.ratio # Unset
    BY <1>4, <1>5, <2>1, Zenon
  <2>2. CASE staged.ratio = Unset /\ c = "pending"
    <3>1. NoView.delayed = Unset /\ NoView.ratio = Unset /\ InfoOf(c) = NoView
      BY <2>2, Zenon DEF NoView, InfoOf
    <3>2. r = Register
      BY <1>5, <2>2, <3>1, SMTT(30) DEF getIndexerLatestRatio, stageCommissionRatioForHeight
    <3> QED BY <1>4, <2>2, <3>2, Zenon DEF InForce
  <2> QED BY <2>1, <2>2, Zenon
<1>14. PendingRatioInForce'
  <2> SUFFICES ASSUME NEW g \in Heights, used'["pending"][g] # Unset
               PROVE  InForce(used'["pending"][g], g)
    BY <1>0, Zenon DEF PendingRatioInForce, ReadInForce, InForce, Heights, Unset,
         effective, Register
  <2>1. CASE pays /\ c = "pending" /\ g = ht
    BY <1>11, <1>13, <2>1, Zenon DEF Consumers
  <2>2. CASE ~(pays /\ c = "pending" /\ g = ht)
    <3>1. used'["pending"][g] = used["pending"][g]
      BY <1>11, <2>2, Zenon DEF Consumers
    <3>2. InForce(used["pending"][g], g)
      BY <3>1, Zenon DEF IInv, PendingRatioInForce, ReadInForce
    <3> QED BY <3>1, <3>2, Zenon
  <2> QED BY <2>1, <2>2, Zenon
<1>15. SettledRatioInForce'
  <2> SUFFICES ASSUME NEW g \in Heights, used'["snapshot"][g] # Unset,
                      \E a \in accepted : effective(a) <= g
               PROVE  InForce(used'["snapshot"][g], g)
    BY <1>0, Zenon DEF SettledRatioInForce, ReadInForce, InForce, Heights, Unset,
         effective, Register
  <2>1. CASE pays /\ c = "snapshot" /\ g = ht
    <3>1. staged.ratio # Unset
      BY <1>4, <2>1, Zenon
    <3>2. InForce(r, ht)
      BY <1>4, <1>5, <3>1, Zenon
    <3> QED BY <1>11, <2>1, <3>2, Zenon DEF Consumers
  <2>2. CASE ~(pays /\ c = "snapshot" /\ g = ht)
    <3>1. used'["snapshot"][g] = used["snapshot"][g]
      BY <1>11, <2>2, Zenon DEF Consumers
    <3>2. InForce(used["snapshot"][g], g)
      BY <3>1, Zenon DEF IInv, SettledRatioInForce, ReadInForce
    <3> QED BY <3>1, <3>2, Zenon
  <2> QED BY <2>1, <2>2, Zenon
<1>16. Spaced(accepted')
  BY <1>0, Zenon DEF IInv
<1> QED BY <1>7, <1>10, <1>12, <1>14, <1>15, <1>16, Zenon DEF IInv

------------------------------------------------------------------------------
\* The strengthening is an invariant of the three readers and the fast path.
THEOREM Invariance == ViewSpec => []IInv
<1>1. IInv /\ [ViewNext]_viewVars => IInv'
  <2> SUFFICES ASSUME IInv, [ViewNext]_viewVars PROVE IInv'
    OBVIOUS
  <2>1. CASE CommitBlock
    BY <2>1, CommitIInv, SMTT(30)
  <2>2. CASE \E c \in Consumers : Consume(c)
    BY <2>2, ConsumeIInv, Zenon
  <2>3. CASE UNCHANGED viewVars
    BY <2>3, Zenon DEF viewVars, IInv, Counters, Spaced, Views, ViewOK, Reads,
         PendingRatioInForce, SettledRatioInForce, ReadInForce, InForce,
         effective, Register, Heights, Unset, Consumers
  <2> QED BY <2>1, <2>2, <2>3, Zenon DEF ViewNext
<1> QED BY InitIInv, <1>1, PTL DEF ViewSpec

\* Views hold only accepted updates, and no consumer passes the committed tip.
THEOREM TypeCorrect == ViewSpec => []TypeOK
<1>1. IInv => TypeOK
  BY Zenon DEF IInv, Counters, Views, ViewOK, Reads, TypeOK, Consumers
<1> QED BY Invariance, <1>1, PTL

\* getIndexerLatestRatio yields the ratio in force at the committed tip.
THEOREM LatestInForce == ViewSpec => []LatestRatioInForce
<1>1. IInv => LatestRatioInForce
  <2> SUFFICES ASSUME IInv PROVE LatestRatioInForce
    OBVIOUS
  <2>1. tip \in Nat /\ accepted \in SUBSET Nat /\ ViewOK(accepted, latest, tip, tip)
    BY SMTT(30) DEF IInv, Counters, Views
  <2> DEFINE r == stageCommissionRatioForHeight(latest, tip).ratio
  <2>2. /\ r # Unset => InForce(r, tip)
        /\ r = Unset => \A a \in accepted : ~(effective(a) <= tip)
    BY <2>1, ViewRead, Zenon
  <2>3. r = Unset => InForce(Register, tip)
    BY <2>2, Zenon DEF InForce
  <2> QED BY <2>2, <2>3, Zenon DEF LatestRatioInForce, getIndexerLatestRatio
<1> QED BY Invariance, <1>1, PTL

\* The pending consumer reads the ratio in force at the height it processes.
THEOREM PendingInForce == ViewSpec => []PendingRatioInForce
<1>1. IInv => PendingRatioInForce
  BY SMTT(30) DEF IInv
<1> QED BY Invariance, <1>1, PTL

\* The snapshot consumer does so from the first effective update on.
THEOREM SettledInForce == ViewSpec => []SettledRatioInForce
<1>1. IInv => SettledRatioInForce
  BY DEF IInv
<1> QED BY Invariance, <1>1, PTL
===============================================================================
