---------------------------- MODULE HandlerProofs ----------------------------
(***************************************************************************)
(* Proofs about ProtocolHandlers, for every set of transactions and        *)
(* chains, every batch size and every sequence of faults: what is stored   *)
(* fits together whatever was interrupted.                                 *)
(*                                                                         *)
(* The properties speak of the stored rows; what makes them hold is how    *)
(* the staged rows of the manager relate to them.  A register is staged    *)
(* only for a user address that is neither staged nor stored (OwnersInv);  *)
(* a proof or a binding is staged only while its indexer is staged or      *)
(* stored (IndexersInv), a valid event only together with its row          *)
(* (RowsInv); and the lists are stored in an order in which a row finds    *)
(* what it refers to (OrderInv).                                           *)
(***************************************************************************)
EXTENDS ProtocolHandlers, SumLemmas

Users == {Txs[id].user : id \in TxIDs}
IndexerIDs == {Txs[id].indexer : id \in TxIDs} \cup {Legacy[id] : id \in DOMAIN Legacy} \cup {NoID}
Flags == {"None", "Unknown", "RegisterRule", "IndexerNotFound", "ActorNotOwner",
          "CommissionRule", "ProofRule", "StakeRule", "ClaimRule"}
Registers == {RegisterRow(id, Txs[id], h, i) : id \in TxIDs, h \in Nat, i \in Nat}
Proofs == {buildStakeProof(id, Txs[id], h) : id \in TxIDs, h \in Nat}
Bindings == {StakeBinding(id, Txs[id], h) : id \in TxIDs, h \in Nat}
Claims == [txid : TxIDs, height : Nat, indexer : IndexerIDs,
           type : {"early_stake", "early_indexer", "stake", "indexer"}, user : Users]
Events == [txid : TxIDs, flags : Flags, height : Nat]

\* The rows of a table.
RowsOf(t) ==
    CASE t = "registers" -> Registers [] t = "proofs" -> Proofs [] t = "claims" -> Claims
      [] t = "bindings" -> Bindings [] t = "events" -> Events

Manager(mem) ==
    /\ DOMAIN mem = {"wait", "seen", "slow"}
    /\ DOMAIN mem.wait = Tables
    /\ \A t \in Tables : mem.wait[t] \in Seq(RowsOf(t))

Store(rows) ==
    /\ DOMAIN rows = Tables
    /\ \A t \in Tables : rows[t] \subseteq RowsOf(t)

Kinds == {"crash", "error", "kill", "lookup", "reorg", "stop"}

\* The variables, by type.
HandlerType ==
    /\ chain \in Seq(Seq(TxIDs)) /\ blocks \in Seq(Seq(TxIDs)) /\ batch \in Seq(Seq(TxIDs))
    /\ pc \in Tables \cup {"idle", "parse", "utxo"}
    /\ parsed \in Nat /\ (pc = "parse" => parsed < Len(batch))
    /\ stopping \in BOOLEAN /\ faults \in Seq(Kinds)
    /\ Manager(m) /\ Store(db)

\* A user address has one staged register, and if it has a stored one, too, it
\* is that one.
OwnersInv(mem, rows) ==
    LET list == mem.wait["registers"]
    IN  /\ \A j, k \in DOMAIN list : list[j].user = list[k].user => j = k
        /\ \A k \in DOMAIN list : \A r \in rows["registers"] :
             list[k].user = r.user => list[k] = r
        /\ \A r, s \in rows["registers"] : r.user = s.user => r = s

\* The number of registers is out of date only while the ones that are missing
\* in it are staged.
StatusInv ==
    total # Cardinality(db["registers"]) =>
        m.wait["registers"] # <<>> /\ pc \in {"idle", "parse", "registers"}

\* On one chain, the blocks are taken from it in order.
ChainInv ==
    /\ Len(blocks) + Len(batch) <= Len(chain)
    /\ \A k \in DOMAIN blocks : blocks[k] = chain[k]
    /\ \A k \in DOMAIN batch : batch[k] = chain[Len(blocks) + k]

\* The id of a register is the place of its transaction in the chain.
PlacesInv(c, mem, rows) ==
    LET list == mem.wait["registers"]
        Placed(r) == r.txid = c[r.id[1]][r.id[2]]
    IN  (\A k \in DOMAIN list : Placed(list[k])) /\ \A r \in rows["registers"] : Placed(r)

\* An indexer is staged or stored.
Known(mem, rows, id) ==
    \/ \E k \in DOMAIN mem.wait["registers"] : mem.wait["registers"][k].id = id
    \/ \E r \in rows["registers"] : r.id = id

\* Proofs and bindings are staged for an indexer that is known.
IndexersInv(mem, rows) ==
    \A t \in {"proofs", "bindings"} : \A k \in DOMAIN mem.wait[t] :
        Known(mem, rows, mem.wait[t][k].indexer)

\* Row r of table t is that of event e.
IsRowOf(t, r, e) ==
    IF t = "bindings" THEN r.address = <<Txs[e.txid].indexer, Txs[e.txid].user>>
    ELSE r.txid = e.txid

\* The table in which an event has its row.
TableOf(e) == HandlerTable[Txs[e.txid].tag]

HasRow(mem, rows, e) ==
    Txs[e.txid].tag # "commission" =>
    \/ \E k \in DOMAIN mem.wait[TableOf(e)] : IsRowOf(TableOf(e), mem.wait[TableOf(e)][k], e)
    \/ \E r \in rows[TableOf(e)] : IsRowOf(TableOf(e), r, e)

\* A valid event is staged with its row.
RowsInv(mem, rows) ==
    \A k \in DOMAIN mem.wait["events"] :
        mem.wait["events"][k].flags = "None" => HasRow(mem, rows, mem.wait["events"][k])

\* Every staged row of a table has a stored one with its key.
Stored(t) == \A k \in DOMAIN m.wait[t] : \E r \in db[t] : Key(t, r) = Key(t, m.wait[t][k])

\* The lists before the one that is being stored are stored.
OrderInv ==
    /\ pc \in {"proofs", "claims", "bindings", "events"} => Stored("registers")
    /\ pc \in {"claims", "bindings", "events"} => Stored("proofs")
    /\ pc \in {"bindings", "events"} => Stored("claims")
    /\ pc = "events" => Stored("bindings")

\* An event has its row in the store.
HasStoredRow(rows, e) ==
    Txs[e.txid].tag # "commission" =>
    \E r \in rows[TableOf(e)] : IsRowOf(TableOf(e), r, e)

\* The stored rows refer to stored rows.
Fits(rows) ==
    /\ \A r \in rows["proofs"] \cup rows["bindings"] :
         \E i \in rows["registers"] : i.id = r.indexer
    /\ \A e \in rows["events"] : e.flags = "None" => HasStoredRow(rows, e)

\* What holds on one chain, of a manager and a store.
Linked(c, mem, rows) ==
    PlacesInv(c, mem, rows) /\ IndexersInv(mem, rows) /\ RowsInv(mem, rows) /\ Fits(rows)

\* The rows of one chain.
OneChain == "reorg" \notin Range(faults) => ChainInv /\ Linked(chain, m, db)

\* The inductive invariant.
HandlerInv == HandlerType /\ OwnersInv(m, db) /\ StatusInv /\ OrderInv /\ OneChain
------------------------------------------------------------------------------
(***************************************************************************)
(* The recursions                                                          *)
(***************************************************************************)
PutStep(t, S, list, g, k) == IF k = 0 THEN S ELSE Put(t, g[k - 1], list[k])
HandleStep(mem, rows, redis, block, h, bad, g, i) ==
    IF i = 0 THEN [mem EXCEPT !.seen = {}]
    ELSE HandleAt(g[i - 1], rows, redis, block, h, bad, i)

\* The batch statement stores the rows one after the other.
LEMMA PutAllIs ==
    ASSUME NEW t, NEW S, NEW list, Len(list) \in Nat
    PROVE  \E g : /\ g[0] = S /\ PutAll(t, S, list) = g[Len(list)]
                  /\ \A k \in 1 .. Len(list) : g[k] = Put(t, g[k - 1], list[k])
<1>. DEFINE IsRun(n, g) == g = [k \in 0 .. n |-> PutStep(t, S, list, g, k)]
            Good == {n \in Nat : \E g : IsRun(n, g)}
<1>1. 0 \in Good
  <2>. DEFINE g == [k \in 0 .. 0 |-> S]
  <2>1. g = [k \in 0 .. 0 |-> PutStep(t, S, list, g, k)]
    BY DEF PutStep
  <2>. QED
    BY <2>1
<1>2. ASSUME NEW n \in Nat, n \in Good PROVE n + 1 \in Good
  <2>1. PICK f : IsRun(n, f)
    BY <1>2
  <2>. DEFINE g == [k \in 0 .. n + 1 |-> IF k = n + 1 THEN Put(t, f[n], list[n + 1]) ELSE f[k]]
  <2>2. ASSUME NEW k \in 0 .. n + 1 PROVE g[k] = PutStep(t, S, list, g, k)
    <3>1. CASE k = n + 1
      BY <3>1 DEF PutStep
    <3>2. CASE k = 0
      BY <2>1, <3>2 DEF PutStep
    <3>3. CASE k \in 1 .. n
      <4>1. g[k] = f[k] /\ g[k - 1] = f[k - 1]
        BY <3>3
      <4>2. f[k] = Put(t, f[k - 1], list[k])
        BY <2>1, <3>3 DEF PutStep
      <4>. QED
        BY <4>1, <4>2, <3>3 DEF PutStep
    <3>. QED
      BY <3>1, <3>2, <3>3
  <2>3. IsRun(n + 1, g)
    BY <2>2, Zenon
  <2>. HIDE DEF g, IsRun
  <2>4. n + 1 \in Nat /\ \E x : IsRun(n + 1, x)
    BY <2>3
  <2>. QED
    BY <2>4
<1>. HIDE DEF Good
<1>3. Len(list) \in Good
  BY <1>1, <1>2, NatInd
<1>4. \E g : IsRun(Len(list), g)
  BY <1>3 DEF Good
<1>. DEFINE g == CHOOSE g : IsRun(Len(list), g)
<1>5. IsRun(Len(list), g)
  BY <1>4, Zenon
<1>6. PutAll(t, S, list) = g[Len(list)]
  BY DEF PutAll, PutStep
<1>. HIDE DEF g
<1>7. g[0] = S /\ \A k \in 1 .. Len(list) : g[k] = Put(t, g[k - 1], list[k])
  BY <1>5 DEF PutStep
<1>. QED
  BY <1>6, <1>7

\* HandleFastBlock judges the transactions of a block one after the other.
LEMMA HandledIs ==
    ASSUME NEW mem, NEW rows, NEW redis, NEW block, NEW h, NEW bad, Len(block) \in Nat
    PROVE  \E g : /\ g[0] = [mem EXCEPT !.seen = {}]
                  /\ HandleFastBlock(mem, rows, redis, block, h, bad) = g[Len(block)]
                  /\ \A i \in 1 .. Len(block) :
                       g[i] = HandleAt(g[i - 1], rows, redis, block, h, bad, i)
<1>. DEFINE First == [mem EXCEPT !.seen = {}]
            Step(x, i) == HandleAt(x, rows, redis, block, h, bad, i)
            IsRun(n, g) == g = [i \in 0 .. n |-> HandleStep(mem, rows, redis, block, h, bad, g, i)]
            Good == {n \in Nat : \E g : IsRun(n, g)}
<1>1. 0 \in Good
  <2>. DEFINE g == [k \in 0 .. 0 |-> First]
  <2>1. g = [i \in 0 .. 0 |-> HandleStep(mem, rows, redis, block, h, bad, g, i)]
    BY DEF HandleStep
  <2>. QED
    BY <2>1, Zenon
<1>2. ASSUME NEW n \in Nat, n \in Good PROVE n + 1 \in Good
  <2>1. PICK f : IsRun(n, f)
    BY <1>2
  <2>. DEFINE g == [i \in 0 .. n + 1 |-> IF i = n + 1 THEN Step(f[n], n + 1) ELSE f[i]]
  <2>2. ASSUME NEW i \in 0 .. n + 1
        PROVE  g[i] = HandleStep(mem, rows, redis, block, h, bad, g, i)
    <3>1. CASE i = n + 1
      BY <3>1 DEF HandleStep
    <3>2. CASE i = 0
      BY <2>1, <3>2 DEF HandleStep
    <3>3. CASE i \in 1 .. n
      <4>1. g[i] = f[i] /\ g[i - 1] = f[i - 1]
        BY <3>3
      <4>2. f[i] = HandleStep(mem, rows, redis, block, h, bad, f, i)
        BY <2>1, <3>3
      <4>3. f[i] = Step(f[i - 1], i)
        BY <4>2, <3>3 DEF HandleStep
      <4>. QED
        BY <4>1, <4>3, <3>3 DEF HandleStep
    <3>. QED
      BY <3>1, <3>2, <3>3
  <2>3. IsRun(n + 1, g)
    BY <2>2
  <2>. HIDE DEF g, IsRun
  <2>4. n + 1 \in Nat /\ \E x : IsRun(n + 1, x)
    BY <2>3
  <2>. QED
    BY <2>4
<1>. HIDE DEF Good
<1>3. Len(block) \in Good
  BY <1>1, <1>2, NatInd
<1>4. \E g : IsRun(Len(block), g)
  BY <1>3 DEF Good
<1>. DEFINE g == CHOOSE g : IsRun(Len(block), g)
<1>5. IsRun(Len(block), g)
  BY <1>4, Zenon
<1>6. HandleFastBlock(mem, rows, redis, block, h, bad) = g[Len(block)]
  BY DEF HandleFastBlock, HandleStep
<1>. HIDE DEF g
<1>7. g[0] = First /\ \A i \in 1 .. Len(block) : g[i] = Step(g[i - 1], i)
  BY <1>5 DEF HandleStep
<1>. QED
  BY <1>6, <1>7
------------------------------------------------------------------------------
(***************************************************************************)
(* The statements                                                          *)
(***************************************************************************)

\* One row is stored under its key; the keys that were there stay.
LEMMA PutFacts ==
    ASSUME NEW t, NEW S, NEW r
    PROVE  /\ \A x \in Put(t, S, r) : x \in S \/ x = r
           /\ \A x \in S : \E y \in Put(t, S, r) : Key(t, y) = Key(t, x)
           /\ \E y \in Put(t, S, r) : Key(t, y) = Key(t, r)
BY DEF Put

\* So are the rows of a list: nothing else is stored, and no key is lost.
LEMMA PutAllFacts ==
    ASSUME NEW t, NEW S, NEW R, NEW list \in Seq(R)
    PROVE  /\ \A x \in PutAll(t, S, list) : x \in S \/ \E k \in DOMAIN list : x = list[k]
           /\ \A x \in S : \E y \in PutAll(t, S, list) : Key(t, y) = Key(t, x)
           /\ \A k \in DOMAIN list :
                \E y \in PutAll(t, S, list) : Key(t, y) = Key(t, list[k])
<1>1. Len(list) \in Nat /\ DOMAIN list = 1 .. Len(list)
  OBVIOUS
<1>2. PICK g : /\ g[0] = S /\ PutAll(t, S, list) = g[Len(list)]
               /\ \A k \in 1 .. Len(list) : g[k] = Put(t, g[k - 1], list[k])
  BY <1>1, PutAllIs
<1>. DEFINE Holds(n, T) ==
              /\ \A x \in T : x \in S \/ \E k \in DOMAIN list : x = list[k]
              /\ \A x \in S : \E y \in T : Key(t, y) = Key(t, x)
              /\ \A k \in 1 .. n : \E y \in T : Key(t, y) = Key(t, list[k])
            Good == {n \in Nat : n <= Len(list) => Holds(n, g[n])}
<1>3. 0 \in Good
  <2>1. Holds(0, g[0])
    BY <1>2
  <2>. QED
    BY <2>1
<1>4. ASSUME NEW n \in Nat, n \in Good PROVE n + 1 \in Good
  <2>1. SUFFICES ASSUME n + 1 <= Len(list) PROVE Holds(n + 1, g[n + 1])
    OBVIOUS
  <2>2. n + 1 \in 1 .. Len(list) /\ (n + 1) - 1 = n /\ n <= Len(list)
    BY <1>1, <2>1
  <2>3. g[n + 1] = Put(t, g[n], list[n + 1])
    BY <1>2, <2>2
  <2>4. Holds(n, g[n])
    BY <1>4, <2>2
  <2>5. PICK T : T = g[n]
    OBVIOUS
  <2>6. PICK r : r = list[n + 1]
    OBVIOUS
  <2>7. PICK U : U = g[n + 1]
    OBVIOUS
  <2>8. /\ \A x \in U : x \in T \/ x = r
        /\ \A x \in T : \E y \in U : Key(t, y) = Key(t, x)
        /\ \E y \in U : Key(t, y) = Key(t, r)
    BY <2>3, <2>5, <2>6, <2>7, PutFacts
  <2>9. \A x \in U : x \in S \/ \E k \in DOMAIN list : x = list[k]
    BY <1>1, <2>2, <2>4, <2>5, <2>6, <2>8, Zenon
  <2>10. \A x \in S : \E y \in U : Key(t, y) = Key(t, x)
    BY <2>4, <2>5, <2>8
  <2>11. ASSUME NEW k \in 1 .. n + 1 PROVE \E y \in U : Key(t, y) = Key(t, list[k])
    <3>1. CASE k = n + 1
      BY <3>1, <2>6, <2>8
    <3>2. CASE k # n + 1
      <4>1. k \in 1 .. n
        BY <3>2
      <4>. QED
        BY <4>1, <2>4, <2>5, <2>8
    <3>. QED
      BY <3>1, <3>2
  <2>. QED
    BY <2>7, <2>9, <2>10, <2>11
<1>. HIDE DEF Good
<1>5. Len(list) \in Good
  BY <1>1, <1>3, <1>4, NatInd
<1>6. Holds(Len(list), g[Len(list)])
  BY <1>1, <1>5 DEF Good
<1>. QED
  BY <1>1, <1>2, <1>6

\* An empty list changes nothing.
LEMMA PutNone == ASSUME NEW t, NEW S PROVE PutAll(t, S, <<>>) = S
<1>1. Len(<<>>) = 0 /\ 0 \in Nat
  OBVIOUS
<1>2. \E g : g[0] = S /\ PutAll(t, S, <<>>) = g[Len(<<>>)]
  BY <1>1, PutAllIs
<1>. QED
  BY <1>1, <1>2, Zenon

\* What an Upsert leaves in the tables.
Merged(rows, t, list, new) ==
    /\ Store(new)
    /\ \A u \in Tables \ {t} : new[u] = rows[u]
    /\ \A x \in new[t] : x \in rows[t] \/ \E k \in DOMAIN list : x = list[k]
    /\ \A x \in rows[t] : \E y \in new[t] : Key(t, y) = Key(t, x)
    /\ \A k \in DOMAIN list : \E y \in new[t] : Key(t, y) = Key(t, list[k])

\* An Upsert merges its list into the table.
LEMMA UpsertMerges ==
    ASSUME NEW rows, Store(rows), NEW t \in Tables, NEW list \in Seq(RowsOf(t)),
           NEW new, new = Upsert(rows, t, list)
    PROVE  Merged(rows, t, list, new)
<1>1. DOMAIN rows = Tables
  BY DEF Store
<1>2. /\ DOMAIN new = Tables /\ new[t] = PutAll(t, rows[t], list)
      /\ \A u \in Tables \ {t} : new[u] = rows[u]
  BY <1>1 DEF Upsert
<1>3. PICK S, R, T : S = rows[t] /\ R = RowsOf(t) /\ T = PutAll(t, rows[t], list)
  OBVIOUS
<1>4. /\ \A x \in T : x \in S \/ \E k \in DOMAIN list : x = list[k]
      /\ \A x \in S : \E y \in T : Key(t, y) = Key(t, x)
      /\ \A k \in DOMAIN list : \E y \in T : Key(t, y) = Key(t, list[k])
  <2>1. list \in Seq(R)
    BY <1>3
  <2>. QED
    BY <1>3, <2>1, PutAllFacts
<1>5. \A k \in DOMAIN list : list[k] \in R
  BY <1>3
<1>6. S \subseteq R
  BY <1>3 DEF Store
<1>7. T \subseteq R
  BY <1>4, <1>5, <1>6
<1>8. ASSUME NEW u \in Tables PROVE new[u] \subseteq RowsOf(u)
  <2>1. CASE u = t
    BY <2>1, <1>2, <1>3, <1>7
  <2>2. CASE u # t
    BY <2>2, <1>2, Zenon DEF Store
  <2>. QED
    BY <2>1, <2>2
<1>9. Store(new)
  BY <1>2, <1>8 DEF Store
<1>. QED
  BY <1>2, <1>3, <1>4, <1>9 DEF Merged

\* The first elements of a sequence.
LEMMA FirstOf ==
    ASSUME NEW T, NEW s \in Seq(T), NEW k \in Nat, k <= Len(s)
    PROVE  /\ SubSeq(s, 1, k) \in Seq(T) /\ Len(SubSeq(s, 1, k)) = k
           /\ \A i \in 1 .. k : SubSeq(s, 1, k)[i] = s[i]
OBVIOUS
------------------------------------------------------------------------------
(***************************************************************************)
(* One transaction                                                         *)
(***************************************************************************)

\* The newest of the staged registers is one of them.
LEMMA MaxIn ==
    ASSUME NEW n \in Nat, NEW S \in SUBSET (1 .. n), S # {} PROVE Max(S) \in S
<1>. DEFINE T == {k \in Nat : n - k \in S}
<1>1. PICK s \in S : TRUE
  BY Zenon
<1>2. n - s \in T
  BY <1>1
<1>3. PICK x \in T : \A y \in T : x <= y
  BY <1>2, NatMin, Zenon
<1>4. n - x \in S /\ \A y \in S : n - x >= y
  <2>1. ASSUME NEW y \in S PROVE n - x >= y
    <3>1. n - y \in T
      OBVIOUS
    <3>. QED
      BY <1>3, <3>1
  <2>. QED
    BY <1>3, <2>1
<1>. QED
  BY <1>4, Zenon DEF Max

\* The register of an indexer is a staged or a stored row with its id, and
\* there is one exactly when the indexer is known.
LEMMA RegisterFacts ==
    ASSUME NEW mem, Manager(mem), NEW rows, Store(rows), NEW id
    PROVE  /\ RegisterOf(mem, rows, id) \subseteq Registers
           /\ RegisterOf(mem, rows, id) # {} <=> Known(mem, rows, id)
           /\ UserAddressOf(mem, rows, id) \subseteq Users
<1>1. PICK list : list = mem.wait["registers"]
  OBVIOUS
<1>2. PICK stored : stored = rows["registers"]
  OBVIOUS
<1>. DEFINE staged == {k \in DOMAIN list : list[k].id = id}
<1>3. list \in Seq(Registers) /\ stored \subseteq Registers
  BY <1>1, <1>2 DEF Manager, Store, RowsOf, Tables
<1>4. RegisterOf(mem, rows, id) = IF staged # {} THEN {list[Max(staged)]}
                                  ELSE {r \in stored : r.id = id}
  BY <1>1, <1>2 DEF RegisterOf
<1>5. Known(mem, rows, id) <=> staged # {} \/ \E r \in stored : r.id = id
  BY <1>1, <1>2, Zenon DEF Known
<1>6. RegisterOf(mem, rows, id) \subseteq Registers
  <2>1. CASE staged # {}
    <3>1. Len(list) \in Nat /\ staged \in SUBSET (1 .. Len(list))
      BY <1>3
    <3>2. Max(staged) \in 1 .. Len(list)
      BY <2>1, <3>1, MaxIn, Zenon
    <3>3. list[Max(staged)] \in Registers
      BY <1>3, <3>2
    <3>. QED
      BY <1>4, <2>1, <3>3
  <2>2. CASE staged = {}
    BY <1>3, <1>4, <2>2
  <2>. QED
    BY <2>1, <2>2
<1>7. RegisterOf(mem, rows, id) # {} <=> Known(mem, rows, id)
  BY <1>4, <1>5, Zenon
<1>8. \A r \in Registers : r.user \in Users
  BY DEF Registers, RegisterRow, Users
<1>9. UserAddressOf(mem, rows, id) \subseteq Users
  BY <1>6, <1>8 DEF UserAddressOf
<1>. QED
  BY <1>6, <1>7, <1>9

\* The row that an accepted transaction stages.
NewRow(mem, rows, id, h, i) ==
    CASE Txs[id].tag = "register" -> RegisterRow(id, Txs[id], h, i)
      [] Txs[id].tag = "proof" -> buildStakeProof(id, Txs[id], h)
      [] Txs[id].tag = "claim" -> buildStakeClaimedReward(mem, rows, id, Txs[id], h)
      [] Txs[id].tag = "stake" -> StakeBinding(id, Txs[id], h)

\* It is one of the rows of its table.
LEMMA NewRowType ==
    ASSUME NEW mem, Manager(mem), NEW rows, Store(rows),
           NEW id \in TxIDs, NEW h \in Nat, NEW i \in Nat, Txs[id].tag # "commission"
    PROVE  /\ HandlerTable[Txs[id].tag] \in Tables \ {"events"}
           /\ NewRow(mem, rows, id, h, i) \in RowsOf(HandlerTable[Txs[id].tag])
<1>1. Txs[id].tag \in {"register", "proof", "claim", "stake"}
  BY ChainAssumption DEF Tags
<1>2. CASE Txs[id].tag = "register"
  BY <1>2 DEF NewRow, HandlerTable, Tables, RowsOf, Registers
<1>3. CASE Txs[id].tag = "proof"
  BY <1>3 DEF NewRow, HandlerTable, Tables, RowsOf, Proofs
<1>4. CASE Txs[id].tag = "stake"
  BY <1>4 DEF NewRow, HandlerTable, Tables, RowsOf, Bindings
<1>5. CASE Txs[id].tag = "claim"
  <2>. DEFINE tx == Txs[id]
              fixed == IF tx.early \/ tx.indexer # NoID
                       THEN tx.indexer ELSE ResolveLegacyIndexerClaimReward(id)
              owner == UserAddressOf(mem, rows, tx.indexer)
              type == IF tx.early
                      THEN IF tx.indexer = NoID THEN "early_stake" ELSE "early_indexer"
                      ELSE IF fixed = NoID THEN "stake" ELSE "indexer"
              user == IF owner = {} THEN tx.user ELSE CHOOSE u \in owner : TRUE
  <2>1. fixed \in IndexerIDs
    BY Zenon DEF IndexerIDs, ResolveLegacyIndexerClaimReward
  <2>2. user \in Users
    <3>1. owner \subseteq Users
      BY RegisterFacts, Zenon
    <3>2. tx.user \in Users
      BY Zenon DEF Users
    <3>. QED
      BY <3>1, <3>2, Zenon
  <2>3. type \in {"early_stake", "early_indexer", "stake", "indexer"}
    BY Zenon
  <2>4. NewRow(mem, rows, id, h, i)
          = [txid |-> id, height |-> h, indexer |-> fixed, type |-> type, user |-> user]
    BY <1>5 DEF NewRow, buildStakeClaimedReward
  <2>. HIDE DEF fixed, type, user
  <2>5. NewRow(mem, rows, id, h, i) \in Claims
    BY <2>1, <2>2, <2>3, <2>4 DEF Claims
  <2>. QED
    BY <1>5, <2>5 DEF HandlerTable, Tables, RowsOf
<1>. QED
  BY <1>1, <1>2, <1>3, <1>4, <1>5, Zenon
\* The rows that a transaction with a verdict adds to a table.
Added(mem, rows, flags, id, h, i, t) ==
    IF t = "events" THEN {[txid |-> id, flags |-> flags, height |-> h]}
    ELSE IF flags = "None" /\ Txs[id].tag # "commission" /\ t = HandlerTable[Txs[id].tag]
         THEN {NewRow(mem, rows, id, h, i)} ELSE {}

\* List u is list s with the one row of S, if there is one, at its end.
Grown(s, u, S) ==
    /\ DOMAIN s \subseteq DOMAIN u /\ \A k \in DOMAIN s : u[k] = s[k]
    /\ s # <<>> => u # <<>>
    /\ \A k \in DOMAIN u \ DOMAIN s : u[k] \in S /\ \A j \in DOMAIN u \ DOMAIN s : j = k
    /\ \A r \in S : \E k \in DOMAIN u : u[k] = r

\* A list with one row more.
LEMMA AppendGrows ==
    ASSUME NEW R, NEW s \in Seq(R), NEW r \in R
    PROVE  Append(s, r) \in Seq(R) /\ Grown(s, Append(s, r), {r})
<1>1. PICK u : u = Append(s, r)
  BY Zenon
<1>2. u \in Seq(R) /\ Len(u) = Len(s) + 1 /\ DOMAIN u = 1 .. Len(s) + 1
  BY <1>1
<1>3. DOMAIN s = 1 .. Len(s) /\ Len(s) \in Nat
  OBVIOUS
<1>4. (\A k \in DOMAIN s : u[k] = s[k]) /\ u[Len(s) + 1] = r
  BY <1>1, <1>3
<1>5. u # <<>>
  BY <1>2, <1>3
<1>6. Grown(s, u, {r})
  BY <1>2, <1>3, <1>4, <1>5 DEF Grown
<1>. QED
  BY <1>1, <1>2, <1>6

\* What one transaction adds to the lists.
LEMMA StagedRows ==
    ASSUME NEW mem, Manager(mem), NEW rows, Store(rows), NEW redis, NEW flags \in Flags,
           NEW id \in TxIDs, NEW h \in Nat, NEW i \in Nat,
           NEW new, new = HandleTx(mem, rows, redis, flags, id, Txs[id], h, i)
    PROVE  /\ Manager(new)
           /\ \A t \in Tables :
                Grown(mem.wait[t], new.wait[t], Added(mem, rows, flags, id, h, i, t))
<1>. DEFINE event == [txid |-> id, flags |-> flags, height |-> h]
            Accepts(t) == /\ flags = "None" /\ Txs[id].tag # "commission"
                          /\ t = HandlerTable[Txs[id].tag]
            accepted == IF flags = "None" THEN {Txs[id].tag} ELSE {}
            staged == {HandlerTable[t] : t \in accepted \ {"commission"}}
            wait == [t \in Tables |->
                       IF t = "events" THEN Append(mem.wait[t], event)
                       ELSE IF t \in staged THEN Append(mem.wait[t], NewRow(mem, rows, id, h, i))
                       ELSE mem.wait[t]]
<1>1. DOMAIN new = {"wait", "seen", "slow"} /\ new.wait = wait
  BY Zenon DEF HandleTx, NewRow
<1>2. \A t \in Tables : t \in staged <=> Accepts(t)
  BY Zenon
<1>. HIDE DEF staged
<1>3. ASSUME NEW t \in Tables
      PROVE  /\ new.wait[t] \in Seq(RowsOf(t))
             /\ Grown(mem.wait[t], new.wait[t], Added(mem, rows, flags, id, h, i, t))
  <2>1. PICK R : R = RowsOf(t)
    OBVIOUS
  <2>2. PICK s \in Seq(R) : s = mem.wait[t]
    BY <2>1 DEF Manager
  <2>3. PICK u : u = new.wait[t]
    BY Zenon
  <2>4. PICK S : S = Added(mem, rows, flags, id, h, i, t)
    OBVIOUS
  <2>5. CASE S = {}
    <3>1. t # "events" /\ ~ Accepts(t)
      BY <2>4, <2>5, Zenon DEF Added
    <3>2. u = s
      BY <1>1, <1>2, <2>2, <2>3, <3>1, Zenon
    <3>3. Grown(s, s, {})
      BY Zenon DEF Grown
    <3>. QED
      BY <2>1, <2>2, <2>3, <2>4, <2>5, <3>2, <3>3, Zenon
  <2>6. CASE S # {}
    <3>1. PICK r \in R : S = {r} /\ u = Append(s, r)
      <4>1. CASE t = "events"
        <5>1. event \in R
          BY <2>1, <4>1 DEF RowsOf, Events
        <5>2. S = {event}
          BY <2>4, <4>1, Zenon DEF Added
        <5>3. u = Append(s, event)
          BY <1>1, <2>2, <2>3, <4>1, Zenon
        <5>. HIDE DEF event
        <5>. QED
          BY <5>1, <5>2, <5>3, Zenon
      <4>2. CASE t # "events"
        <5>1. Accepts(t) /\ S = {NewRow(mem, rows, id, h, i)}
          BY <2>4, <2>6, <4>2, Zenon DEF Added
        <5>2. NewRow(mem, rows, id, h, i) \in R
          BY <2>1, <5>1, NewRowType, Zenon
        <5>3. u = Append(s, NewRow(mem, rows, id, h, i))
          BY <1>1, <1>2, <2>2, <2>3, <4>2, <5>1, Zenon
        <5>. QED
          BY <5>1, <5>2, <5>3, Zenon
      <4>. QED
        BY <4>1, <4>2, Zenon
    <3>2. u \in Seq(R) /\ Grown(s, u, S)
      BY <3>1, AppendGrows
    <3>. QED
      BY <2>1, <2>2, <2>3, <2>4, <3>2, Zenon
  <2>. QED
    BY <2>5, <2>6, Zenon
<1>4. DOMAIN new.wait = Tables
  BY <1>1, Zenon
<1>5. Manager(new)
  BY <1>1, <1>3, <1>4, Zenon DEF Manager
<1>. QED
  BY <1>3, <1>5, Zenon

\* A verdict is one of the flags; it is "None" for a register only when the
\* user address is neither staged nor stored, for a proof or a stake only when
\* the indexer is known, and never when a store did not answer.
LEMMA Verdicts ==
    ASSUME NEW mem, Manager(mem), NEW rows, Store(rows), NEW redis, NEW id \in TxIDs,
           NEW h, NEW bad, NEW i, NEW flags,
           flags = IF i = bad.at /\ NeedsLookup(mem, rows, Txs[id], bad.store)
                   THEN FlagsOnLookupError(Txs[id], bad.store)
                   ELSE ResolveBusinessInvalidFlags(mem, rows, redis, Txs[id], h)
    PROVE  /\ flags \in Flags
           /\ flags = "None" /\ Txs[id].tag = "register" =>
                /\ \A k \in DOMAIN mem.wait["registers"] :
                     mem.wait["registers"][k].user # Txs[id].user
                /\ \A r \in rows["registers"] : r.user # Txs[id].user
           /\ flags = "None" /\ Txs[id].tag \in {"proof", "stake"} =>
                Known(mem, rows, Txs[id].indexer)
<1>1. PICK tx : tx = Txs[id]
  OBVIOUS
<1>2. tx.tag \in Tags
  BY <1>1, ChainAssumption
<1>3. CASE flags = FlagsOnLookupError(tx, bad.store)
  <2>1. flags \in Flags /\ flags # "None"
    BY <1>2, <1>3, Zenon DEF FlagsOnLookupError, Tags, Flags
  <2>. QED
    BY <2>1, Zenon
<1>4. CASE flags = ResolveBusinessInvalidFlags(mem, rows, redis, tx, h)
  <2>1. CASE tx.tag = "register"
    <3>1. flags = resolveRegisterInvalidFlags(mem, rows, tx)
      BY <1>4, <2>1, Zenon DEF ResolveBusinessInvalidFlags
    <3>2. flags \in Flags
      BY <3>1, Zenon DEF resolveRegisterInvalidFlags, Flags
    <3>3. flags = "None" => /\ ~ hasStagedRegisterOwner(mem, tx.user)
                            /\ ~ ExistsStakeIndexerRegisterByUserAddress(rows, tx.user)
      BY <3>1, Zenon DEF resolveRegisterInvalidFlags
    <3>4. flags = "None" => \A k \in DOMAIN mem.wait["registers"] :
                              mem.wait["registers"][k].user # tx.user
      BY <3>3, Zenon DEF hasStagedRegisterOwner, Range
    <3>5. flags = "None" => \A r \in rows["registers"] : r.user # tx.user
      BY <3>3, Zenon DEF ExistsStakeIndexerRegisterByUserAddress
    <3>. QED
      BY <1>1, <2>1, <3>2, <3>4, <3>5, Zenon
  <2>2. CASE tx.tag = "commission"
    <3>1. flags = ResolveUpdateRatioInvalidFlags(mem, rows, redis, tx, h)
      BY <1>4, <2>2, Zenon DEF ResolveBusinessInvalidFlags
    <3>2. flags \in Flags
      BY <3>1 DEF ResolveUpdateRatioInvalidFlags, Flags
    <3>. QED
      BY <1>1, <2>2, <3>2, Zenon
  <2>3. CASE tx.tag \in {"proof", "stake"}
    <3>1. /\ flags \in Flags
          /\ flags = "None" => isIndexerRegistered(mem, rows, tx.indexer)
      BY <1>4, <2>3, Zenon
         DEF ResolveBusinessInvalidFlags, provesStake, validateStakeTx, Flags
    <3>2. isIndexerRegistered(mem, rows, tx.indexer) => Known(mem, rows, tx.indexer)
      BY RegisterFacts, Zenon DEF isIndexerRegistered
    <3>. QED
      BY <1>1, <2>3, <3>1, <3>2, Zenon
  <2>4. CASE tx.tag = "claim"
    <3>1. flags \in Flags
      BY <1>4, <2>4, Zenon DEF ResolveBusinessInvalidFlags, Flags
    <3>. QED
      BY <1>1, <2>4, <3>1, Zenon
  <2>. QED
    BY <1>2, <2>1, <2>2, <2>3, <2>4, Zenon DEF Tags
<1>. QED
  BY <1>1, <1>3, <1>4, Zenon

\* What a new row of a table other than the events says of its transaction.
SaysOf(r, t, flags, id, h, i) ==
    /\ flags = "None" /\ t = HandlerTable[Txs[id].tag]
    /\ t = "registers" => /\ Txs[id].tag = "register" /\ r.id = <<h, i>>
                          /\ r.user = Txs[id].user /\ r.txid = id
    /\ t \in {"proofs", "bindings"} => /\ Txs[id].tag \in {"proof", "stake"}
                                       /\ r.indexer = Txs[id].indexer
    /\ t \in {"proofs", "claims"} => r.txid = id
    /\ t = "bindings" => r.address = <<Txs[id].indexer, Txs[id].user>>

\* A new row of a table other than the events describes the transaction it is for.
LEMMA AddedRow ==
    ASSUME NEW mem, NEW rows, NEW flags, NEW id \in TxIDs, NEW h, NEW i,
           NEW t \in Tables \ {"events"}, NEW r \in Added(mem, rows, flags, id, h, i, t)
    PROVE  SaysOf(r, t, flags, id, h, i)
<1>. USE DEF SaysOf
<1>1. /\ flags = "None" /\ Txs[id].tag # "commission" /\ t = HandlerTable[Txs[id].tag]
      /\ r = NewRow(mem, rows, id, h, i)
  BY Zenon DEF Added
<1>2. Txs[id].tag \in {"register", "proof", "claim", "stake"}
  BY <1>1, ChainAssumption, Zenon DEF Tags
<1>3. CASE Txs[id].tag = "register"
  <2>1. t = "registers" /\ r = RegisterRow(id, Txs[id], h, i)
    BY <1>1, <1>3 DEF NewRow, HandlerTable
  <2>. QED
    BY <1>1, <1>3, <2>1 DEF RegisterRow
<1>4. CASE Txs[id].tag = "proof"
  <2>1. t = "proofs" /\ r = buildStakeProof(id, Txs[id], h)
    BY <1>1, <1>4 DEF NewRow, HandlerTable
  <2>. QED
    BY <1>1, <1>4, <2>1 DEF buildStakeProof
<1>5. CASE Txs[id].tag = "claim"
  <2>1. t = "claims" /\ r = buildStakeClaimedReward(mem, rows, id, Txs[id], h)
    BY <1>1, <1>5 DEF NewRow, HandlerTable
  <2>2. r.txid = id
    BY <2>1, Zenon DEF buildStakeClaimedReward
  <2>. QED
    BY <1>1, <1>5, <2>1, <2>2, Zenon
<1>6. CASE Txs[id].tag = "stake"
  <2>1. t = "bindings" /\ r = StakeBinding(id, Txs[id], h)
    BY <1>1, <1>6 DEF NewRow, HandlerTable
  <2>. QED
    BY <1>1, <1>6, <2>1 DEF StakeBinding
<1>. QED
  BY <1>2, <1>3, <1>4, <1>5, <1>6, Zenon

\* What is known, and what an event has, stays while the lists grow.
LEMMA KnownStays ==
    ASSUME NEW mem, NEW new, NEW rows, NEW S,
           Grown(mem.wait["registers"], new.wait["registers"], S),
           NEW x, Known(mem, rows, x)
    PROVE  Known(new, rows, x)
BY Zenon DEF Known, Grown

\* The tables of the rows.
LEMMA TableOfType ==
    ASSUME NEW e, e.txid \in TxIDs, Txs[e.txid].tag # "commission"
    PROVE  TableOf(e) \in Tables \ {"events"}
<1>1. Txs[e.txid].tag \in {"register", "proof", "claim", "stake"}
  BY ChainAssumption, Zenon DEF Tags
<1>. QED
  BY <1>1 DEF TableOf, HandlerTable, Tables

\* A row that an event has is there in a longer list, too.
LEMMA HasRowStays ==
    ASSUME NEW mem, NEW new, NEW rows, NEW e, e.txid \in TxIDs, HasRow(mem, rows, e),
           \A t \in Tables : \E S : Grown(mem.wait[t], new.wait[t], S)
    PROVE  HasRow(new, rows, e)
<1>. SUFFICES ASSUME Txs[e.txid].tag # "commission"
              PROVE  \/ \E k \in DOMAIN new.wait[TableOf(e)] :
                          IsRowOf(TableOf(e), new.wait[TableOf(e)][k], e)
                     \/ \E r \in rows[TableOf(e)] : IsRowOf(TableOf(e), r, e)
  BY Zenon DEF HasRow
<1>1. PICK t \in Tables : t = TableOf(e)
  BY TableOfType, Zenon
<1>2. PICK s, u, S : s = mem.wait[t] /\ u = new.wait[t] /\ Grown(s, u, S)
  BY Zenon
<1>3. DOMAIN s \subseteq DOMAIN u /\ \A k \in DOMAIN s : u[k] = s[k]
  BY <1>2, Zenon DEF Grown
<1>4. (\E k \in DOMAIN s : IsRowOf(t, s[k], e)) \/ \E r \in rows[t] : IsRowOf(t, r, e)
  BY <1>1, <1>2, Zenon DEF HasRow
<1>. QED
  BY <1>1, <1>2, <1>3, <1>4, Zenon

\* The block is that of height h in chain c, as far as it goes.
Agrees(block, c, h) == \A i \in 1 .. Len(block) : block[i] = c[h][i]

\* Manager new holds what the invariant asks of it if manager mem did.
Keeps(mem, new, rows, c, block, h) ==
    /\ Manager(new)
    /\ mem.wait["registers"] # <<>> => new.wait["registers"] # <<>>
    /\ OwnersInv(mem, rows) => OwnersInv(new, rows)
    /\ IndexersInv(mem, rows) => IndexersInv(new, rows)
    /\ RowsInv(mem, rows) => RowsInv(new, rows)
    /\ Agrees(block, c, h) /\ PlacesInv(c, mem, rows) => PlacesInv(c, new, rows)

\* One transaction keeps every part of the invariant that speaks of the lists.
LEMMA TxKeeps ==
    ASSUME NEW mem, Manager(mem), NEW rows, Store(rows), NEW redis, NEW block \in Seq(TxIDs),
           NEW h \in Nat, NEW bad, NEW i \in 1 .. Len(block), NEW c,
           NEW new, new = HandleAt(mem, rows, redis, block, h, bad, i)
    PROVE  Keeps(mem, new, rows, c, block, h)
<1>1. PICK id \in TxIDs : id = block[i]
  OBVIOUS
<1>2. PICK flags : flags = IF i = bad.at /\ NeedsLookup(mem, rows, Txs[id], bad.store)
                           THEN FlagsOnLookupError(Txs[id], bad.store)
                           ELSE ResolveBusinessInvalidFlags(mem, rows, redis, Txs[id], h)
  OBVIOUS
<1>3. /\ flags \in Flags
      /\ flags = "None" /\ Txs[id].tag = "register" =>
           /\ \A k \in DOMAIN mem.wait["registers"] :
                mem.wait["registers"][k].user # Txs[id].user
           /\ \A r \in rows["registers"] : r.user # Txs[id].user
      /\ flags = "None" /\ Txs[id].tag \in {"proof", "stake"} =>
           Known(mem, rows, Txs[id].indexer)
  BY <1>2, Verdicts, ZenonT(40)
<1>4. new = HandleTx(mem, rows, redis, flags, id, Txs[id], h, i)
  BY <1>1, <1>2, Zenon DEF HandleAt
<1>. DEFINE More(t) == Added(mem, rows, flags, id, h, i, t)
<1>5. Manager(new) /\ \A t \in Tables : Grown(mem.wait[t], new.wait[t], More(t))
  <2>1. i \in Nat
    OBVIOUS
  <2>. QED
    BY <1>3, <1>4, <2>1, StagedRows, Zenon
<1>6. PICK s, u, S : s = mem.wait["registers"] /\ u = new.wait["registers"] /\ S = More("registers")
  BY Zenon
<1>7. Grown(s, u, S)
  BY <1>5, <1>6, Zenon DEF Tables
<1>8. \A r \in S : /\ flags = "None" /\ Txs[id].tag = "register" /\ r.id = <<h, i>>
                   /\ r.user = Txs[id].user /\ r.txid = id
  <2>1. "registers" \in Tables \ {"events"}
    BY DEF Tables
  <2>. HIDE DEF More
  <2>2. ASSUME NEW r \in S
        PROVE  /\ flags = "None" /\ Txs[id].tag = "register" /\ r.id = <<h, i>>
               /\ r.user = Txs[id].user /\ r.txid = id
    <3>1. r \in Added(mem, rows, flags, id, h, i, "registers")
      BY <1>6, Zenon DEF More
    <3>2. SaysOf(r, "registers", flags, id, h, i)
      BY <1>1, <2>1, <3>1, AddedRow, Zenon
    <3>. QED
      BY <3>2, Zenon DEF SaysOf
  <2>. QED
    BY <2>2, Zenon
<1>. HIDE DEF More
<1>9. s # <<>> => u # <<>>
  BY <1>7 DEF Grown
<1>10. ASSUME OwnersInv(mem, rows) PROVE OwnersInv(new, rows)
  <2>1. PICK T : T = rows["registers"]
    OBVIOUS
  <2>2. /\ \A j, k \in DOMAIN s : s[j].user = s[k].user => j = k
        /\ \A k \in DOMAIN s : \A r \in T : s[k].user = r.user => s[k] = r
        /\ \A r, q \in T : r.user = q.user => r = q
    BY <1>6, <1>10, <2>1, Zenon DEF OwnersInv
  <2>3. \A k \in DOMAIN u \ DOMAIN s :
          /\ \A j \in DOMAIN s : s[j].user # u[k].user
          /\ \A r \in T : r.user # u[k].user
          /\ \A j \in DOMAIN u \ DOMAIN s : j = k
    BY <1>3, <1>6, <1>7, <1>8, <2>1 DEF Grown
  <2>4. \A k \in DOMAIN s : u[k] = s[k]
    BY <1>7, Zenon DEF Grown
  <2>5. \A j, k \in DOMAIN u : u[j].user = u[k].user => j = k
    BY <2>2, <2>3, <2>4
  <2>6. \A k \in DOMAIN u : \A r \in T : u[k].user = r.user => u[k] = r
    BY <2>2, <2>3, <2>4, ZenonT(40)
  <2>. QED
    BY <1>6, <2>1, <2>2, <2>5, <2>6, ZenonT(40) DEF OwnersInv
<1>11. ASSUME IndexersInv(mem, rows) PROVE IndexersInv(new, rows)
  <2>1. SUFFICES ASSUME NEW t \in {"proofs", "bindings"}, NEW k \in DOMAIN new.wait[t]
                 PROVE  Known(new, rows, new.wait[t][k].indexer)
    BY Zenon DEF IndexersInv
  <2>2. t \in Tables \ {"events"}
    BY Zenon DEF Tables
  <2>3. Known(mem, rows, new.wait[t][k].indexer)
    <3>1. CASE k \in DOMAIN mem.wait[t]
      <4>1. new.wait[t][k] = mem.wait[t][k]
        BY <1>5, <2>2, <3>1 DEF Grown
      <4>2. Known(mem, rows, mem.wait[t][k].indexer)
        BY <1>11, <3>1, Zenon DEF IndexersInv
      <4>. QED
        BY <4>1, <4>2, Zenon
    <3>2. CASE k \notin DOMAIN mem.wait[t]
      <4>1. PICK r : r = new.wait[t][k] /\ r \in More(t)
        BY <1>5, <2>2, <3>2, Zenon DEF Grown
      <4>2. flags = "None" /\ Txs[id].tag \in {"proof", "stake"} /\ r.indexer = Txs[id].indexer
        <5>1. r \in Added(mem, rows, flags, id, h, i, t)
          BY <4>1, Zenon DEF More
        <5>2. SaysOf(r, t, flags, id, h, i)
          BY <1>1, <2>2, <5>1, AddedRow, Zenon
        <5>. QED
          BY <5>2, Zenon DEF SaysOf
      <4>. QED
        BY <1>3, <4>1, <4>2, Zenon
    <3>. QED
      BY <3>1, <3>2, Zenon
  <2>. QED
    BY <1>6, <1>7, <2>3, KnownStays, Zenon
<1>12. ASSUME RowsInv(mem, rows) PROVE RowsInv(new, rows)
  <2>1. SUFFICES ASSUME NEW k \in DOMAIN new.wait["events"], new.wait["events"][k].flags = "None"
                 PROVE  HasRow(new, rows, new.wait["events"][k])
    BY Zenon DEF RowsInv
  <2>2. "events" \in Tables
    BY Zenon DEF Tables
  <2>3. PICK e : e = new.wait["events"][k]
    BY Zenon
  <2>4. CASE k \in DOMAIN mem.wait["events"]
    <3>1. e = mem.wait["events"][k]
      BY <1>5, <2>2, <2>3, <2>4, ZenonT(40) DEF Grown
    <3>2. HasRow(mem, rows, e)
      BY <1>12, <2>1, <2>3, <2>4, <3>1, Zenon DEF RowsInv
    <3>3. e.txid \in TxIDs
      <4>1. PICK q \in Seq(Events) : q = mem.wait["events"]
        BY <2>2, Zenon DEF Manager, RowsOf
      <4>2. e \in Events
        BY <2>4, <3>1, <4>1
      <4>. QED
        BY <4>2, Zenon DEF Events
    <3>. QED
      BY <1>5, <2>3, <3>2, <3>3, HasRowStays, Zenon
  <2>5. CASE k \notin DOMAIN mem.wait["events"]
    <3>1. e \in More("events")
      BY <1>5, <2>2, <2>3, <2>5, Zenon DEF Grown
    <3>2. e = [txid |-> id, flags |-> flags, height |-> h]
      BY <3>1, Zenon DEF More, Added
    <3>3. e.txid = id /\ flags = "None"
      BY <2>1, <2>3, <3>2
    <3>4. SUFFICES ASSUME Txs[id].tag # "commission"
                   PROVE  \E j \in DOMAIN new.wait[TableOf(e)] :
                            IsRowOf(TableOf(e), new.wait[TableOf(e)][j], e)
      BY <2>3, <3>3, Zenon DEF HasRow
    <3>5. PICK t \in Tables \ {"events"} : t = TableOf(e)
      BY <3>3, <3>4, TableOfType, Zenon
    <3>6. PICK r \in More(t) : TRUE
      BY <3>3, <3>4, <3>5, Zenon DEF More, Added, TableOf
    <3>7. PICK j \in DOMAIN new.wait[t] : new.wait[t][j] = r
      BY <1>5, <3>6 DEF Grown
    <3>8. IsRowOf(t, r, e)
      <4>1. /\ t = HandlerTable[Txs[id].tag]
            /\ t = "registers" => r.txid = id
            /\ t \in {"proofs", "claims"} => r.txid = id
            /\ t = "bindings" => r.address = <<Txs[id].indexer, Txs[id].user>>
        <5>1. r \in Added(mem, rows, flags, id, h, i, t)
          BY <3>6, Zenon DEF More
        <5>2. SaysOf(r, t, flags, id, h, i)
          BY <1>1, <3>5, <5>1, AddedRow, Zenon
        <5>. QED
          BY <5>2, Zenon DEF SaysOf
      <4>. QED
        BY <3>3, <3>5, <4>1, Zenon DEF IsRowOf, Tables
    <3>. QED
      BY <3>5, <3>7, <3>8, Zenon
  <2>. QED
    BY <2>4, <2>5, Zenon
<1>13. ASSUME Agrees(block, c, h), PlacesInv(c, mem, rows) PROVE PlacesInv(c, new, rows)
  <2>1. ASSUME NEW k \in DOMAIN u PROVE u[k].txid = c[u[k].id[1]][u[k].id[2]]
    <3>1. CASE k \in DOMAIN s
      <4>1. u[k] = s[k]
        BY <1>7, <3>1, Zenon DEF Grown
      <4>2. s[k].txid = c[s[k].id[1]][s[k].id[2]]
        BY <1>6, <1>13, <3>1, Zenon DEF PlacesInv
      <4>. QED
        BY <4>1, <4>2, Zenon
    <3>2. CASE k \notin DOMAIN s
      <4>1. u[k].id = <<h, i>> /\ u[k].txid = id
        BY <1>7, <1>8, <3>2, Zenon DEF Grown
      <4>. QED
        BY <1>1, <1>13, <4>1 DEF Agrees
    <3>. QED
      BY <3>1, <3>2, Zenon
  <2>. QED
    BY <1>6, <1>13, <2>1, Zenon DEF PlacesInv
<1>14. mem.wait["registers"] # <<>> => new.wait["registers"] # <<>>
  BY <1>6, <1>9, Zenon
<1>. QED
  BY <1>5, <1>10, <1>11, <1>12, <1>13, <1>14, Zenon DEF Keeps

\* The invariant speaks of the staged lists of a manager only.
LEMMA SameLists ==
    ASSUME NEW mem, NEW new, Manager(new), mem.wait = new.wait, NEW rows, NEW c, NEW block, NEW h
    PROVE  Keeps(mem, new, rows, c, block, h)
<1>1. ASSUME NEW e, HasRow(mem, rows, e) PROVE HasRow(new, rows, e)
  BY <1>1, Zenon DEF HasRow
<1>2. ASSUME NEW id, Known(mem, rows, id) PROVE Known(new, rows, id)
  BY <1>2, Zenon DEF Known
<1>3. OwnersInv(mem, rows) => OwnersInv(new, rows)
  BY Zenon DEF OwnersInv
<1>4. IndexersInv(mem, rows) => IndexersInv(new, rows)
  BY <1>2, Zenon DEF IndexersInv
<1>5. RowsInv(mem, rows) => RowsInv(new, rows)
  BY <1>1, Zenon DEF RowsInv
<1>6. PlacesInv(c, mem, rows) => PlacesInv(c, new, rows)
  BY Zenon DEF PlacesInv
<1>. QED
  BY <1>3, <1>4, <1>5, <1>6, Zenon DEF Keeps

\* So does a block, or what was handled of it, whatever lookup fails.
LEMMA BlockKeeps ==
    ASSUME NEW mem, Manager(mem), NEW rows, Store(rows), NEW redis, NEW block \in Seq(TxIDs),
           NEW h \in Nat, NEW bad, NEW c,
           NEW new, new = HandleFastBlock(mem, rows, redis, block, h, bad)
    PROVE  Keeps(mem, new, rows, c, block, h)
<1>1. Len(block) \in Nat
  OBVIOUS
<1>2. PICK g : /\ g[0] = [mem EXCEPT !.seen = {}]
               /\ HandleFastBlock(mem, rows, redis, block, h, bad) = g[Len(block)]
               /\ \A i \in 1 .. Len(block) :
                    g[i] = HandleAt(g[i - 1], rows, redis, block, h, bad, i)
  BY <1>1, HandledIs
<1>. DEFINE Good == {n \in Nat : n <= Len(block) => Keeps(mem, g[n], rows, c, block, h)}
<1>3. 0 \in Good
  <2>1. g[0].wait = mem.wait /\ Manager(g[0])
    BY <1>2 DEF Manager
  <2>2. Keeps(mem, g[0], rows, c, block, h)
    BY <2>1, SameLists, Zenon
  <2>. QED
    BY <2>2, Zenon
<1>4. ASSUME NEW n \in Nat, n \in Good PROVE n + 1 \in Good
  <2>1. SUFFICES ASSUME n + 1 <= Len(block) PROVE Keeps(mem, g[n + 1], rows, c, block, h)
    OBVIOUS
  <2>2. PICK i \in 1 .. Len(block) : i = n + 1 /\ i - 1 = n /\ n <= Len(block)
    BY <1>1, <2>1
  <2>3. PICK x : x = g[n] /\ Keeps(mem, x, rows, c, block, h)
    BY <1>4, <2>2, Zenon
  <2>4. PICK y : y = g[n + 1] /\ y = HandleAt(x, rows, redis, block, h, bad, i)
    BY <1>2, <2>2, <2>3, Zenon
  <2>5. Keeps(x, y, rows, c, block, h)
    <3>1. Manager(x)
      BY <2>3, Zenon DEF Keeps
    <3>. QED
      BY <2>2, <2>4, <3>1, TxKeeps, Zenon
  <2>. QED
    BY <2>3, <2>4, <2>5, Zenon DEF Keeps
<1>. HIDE DEF Good
<1>5. Len(block) \in Good
  BY <1>1, <1>3, <1>4, NatInd, Zenon
<1>. QED
  BY <1>1, <1>2, <1>5 DEF Good

------------------------------------------------------------------------------
(***************************************************************************)
(* The stored rows                                                         *)
(***************************************************************************)

\* RowsHaveIndexer and ValidEventHasRow say that the stored rows fit.
LEMMA FitsIs ==
    ASSUME Store(db), "reorg" \notin Range(faults)
    PROVE  RowsHaveIndexer /\ ValidEventHasRow <=> Fits(db)
<1>1. ASSUME NEW e \in db["events"]
      PROVE  HasStoredRow(db, e) <=>
               LET tx == Txs[e.txid]
               IN  CASE tx.tag = "register" -> \E r \in db["registers"] : r.txid = e.txid
                     [] tx.tag = "proof" -> \E r \in db["proofs"] : r.txid = e.txid
                     [] tx.tag = "claim" -> \E r \in db["claims"] : r.txid = e.txid
                     [] tx.tag = "stake" ->
                          \E r \in db["bindings"] : r.address = <<tx.indexer, tx.user>>
                     [] OTHER -> TRUE
  <2>1. e.txid \in TxIDs
    <3>1. e \in Events
      BY DEF Store, RowsOf, Tables
    <3>. QED
      BY <3>1, Zenon DEF Events
  <2>2. Txs[e.txid].tag \in Tags
    BY <2>1, ChainAssumption, Zenon
  <2>3. CASE Txs[e.txid].tag = "register"
    <3>1. TableOf(e) = "registers"
      BY <2>3 DEF TableOf, HandlerTable
    <3>. QED
      BY <2>3, <3>1 DEF HasStoredRow, IsRowOf
  <2>4. CASE Txs[e.txid].tag = "proof"
    <3>1. TableOf(e) = "proofs"
      BY <2>4 DEF TableOf, HandlerTable
    <3>. QED
      BY <2>4, <3>1 DEF HasStoredRow, IsRowOf
  <2>5. CASE Txs[e.txid].tag = "claim"
    <3>1. TableOf(e) = "claims"
      BY <2>5 DEF TableOf, HandlerTable
    <3>. QED
      BY <2>5, <3>1 DEF HasStoredRow, IsRowOf
  <2>6. CASE Txs[e.txid].tag = "stake"
    <3>1. TableOf(e) = "bindings"
      BY <2>6 DEF TableOf, HandlerTable
    <3>. QED
      BY <2>6, <3>1 DEF HasStoredRow, IsRowOf
  <2>7. CASE Txs[e.txid].tag = "commission"
    BY <2>7 DEF HasStoredRow
  <2>. QED
    BY <2>2, <2>3, <2>4, <2>5, <2>6, <2>7, Zenon DEF Tags
<1>2. ValidEventHasRow <=> \A e \in db["events"] : e.flags = "None" => HasStoredRow(db, e)
  BY <1>1, Zenon DEF ValidEventHasRow
<1>3. RowsHaveIndexer <=> \A r \in db["proofs"] \cup db["bindings"] :
                             \E i \in db["registers"] : i.id = r.indexer
  BY Zenon DEF RowsHaveIndexer
<1>. QED
  BY <1>2, <1>3, Zenon DEF Fits

\* Two rows of a table with one key are rows of the same events; those of the
\* registers, if both are at their place in the chain.
LEMMA SameKey ==
    ASSUME NEW t \in Tables \ {"events"}, NEW x, NEW y, Key(t, x) = Key(t, y), NEW c,
           t = "registers" => x.txid = c[x.id[1]][x.id[2]] /\ y.txid = c[y.id[1]][y.id[2]],
           NEW e, IsRowOf(t, x, e)
    PROVE  IsRowOf(t, y, e)
<1>1. CASE t = "registers"
  BY <1>1, Zenon DEF Key, IsRowOf
<1>2. CASE t = "bindings"
  BY <1>2 DEF Key, IsRowOf
<1>3. CASE t \in {"proofs", "claims"}
  BY <1>3, Zenon DEF Key, IsRowOf
<1>. QED
  BY <1>1, <1>2, <1>3, Zenon DEF Tables
\* The rows of a list are among those staged for table t.
From(list, t) == \A k \in DOMAIN list : \E j \in DOMAIN m.wait[t] : list[k] = m.wait[t][j]

\* The keys that are stored in rows are stored in new.
KeysStay(rows, new) ==
    \A u \in Tables : \A x \in rows[u] : \E y \in new[u] : Key(u, y) = Key(u, x)

\* Every stored key is stored afterwards.
LEMMA StoredStays ==
    ASSUME NEW rows, Store(rows), NEW t \in Tables, NEW list \in Seq(RowsOf(t)),
           NEW new, new = Upsert(rows, t, list)
    PROVE  KeysStay(rows, new)
<1>1. SUFFICES ASSUME NEW u \in Tables, NEW x \in rows[u]
               PROVE  \E y \in new[u] : Key(u, y) = Key(u, x)
  BY Zenon DEF KeysStay
<1>2. /\ \A v \in Tables \ {t} : new[v] = rows[v]
      /\ \A z \in rows[t] : \E y \in new[t] : Key(t, y) = Key(t, z)
  <2>1. Merged(rows, t, list, new)
    BY UpsertMerges, Zenon
  <2>. QED
    BY <2>1, Zenon DEF Merged
<1>. QED
  BY <1>1, <1>2, Zenon

\* Storing staged registers leaves one for a user address, and leaves every
\* register at its place.
LEMMA StoreKeepsOwners ==
    ASSUME Manager(m), NEW rows, Store(rows), NEW t \in Tables, NEW list \in Seq(RowsOf(t)),
           From(list, t), NEW new, new = Upsert(rows, t, list)
    PROVE  /\ OwnersInv(m, rows) => OwnersInv(m, new)
           /\ \A c : PlacesInv(c, m, rows) => PlacesInv(c, m, new)
<1>1. /\ \A u \in Tables \ {t} : new[u] = rows[u]
      /\ \A x \in new[t] : x \in rows[t] \/ \E k \in DOMAIN list : x = list[k]
  <2>1. Merged(rows, t, list, new)
    BY UpsertMerges, Zenon
  <2>. QED
    BY <2>1, Zenon DEF Merged
<1>2. PICK s, S, T : s = m.wait["registers"] /\ S = rows["registers"] /\ T = new["registers"]
  BY Zenon
<1>3. \A x \in T : x \in S \/ \E j \in DOMAIN s : x = s[j]
  <2>1. CASE t = "registers"
    BY <1>1, <1>2, <2>1 DEF From
  <2>2. CASE t # "registers"
    BY <1>1, <1>2, <2>2, Zenon DEF Tables
  <2>. QED
    BY <2>1, <2>2, Zenon
<1>4. ASSUME OwnersInv(m, rows) PROVE OwnersInv(m, new)
  <2>1. /\ \A j, k \in DOMAIN s : s[j].user = s[k].user => j = k
        /\ \A k \in DOMAIN s : \A r \in S : s[k].user = r.user => s[k] = r
        /\ \A r, q \in S : r.user = q.user => r = q
    BY <1>2, <1>4, Zenon DEF OwnersInv
  <2>2. \A k \in DOMAIN s : \A r \in T : s[k].user = r.user => s[k] = r
    BY <1>3, <2>1
  <2>3. \A r, q \in T : r.user = q.user => r = q
    BY <1>3, <2>1
  <2>. QED
    BY <1>2, <2>1, <2>2, <2>3, Zenon DEF OwnersInv
<1>5. ASSUME NEW c, PlacesInv(c, m, rows) PROVE PlacesInv(c, m, new)
  <2>1. (\A k \in DOMAIN s : s[k].txid = c[s[k].id[1]][s[k].id[2]])
        /\ \A r \in S : r.txid = c[r.id[1]][r.id[2]]
    BY <1>2, <1>5, Zenon DEF PlacesInv
  <2>2. \A r \in T : r.txid = c[r.id[1]][r.id[2]]
    BY <1>3, <2>1, Zenon
  <2>. QED
    BY <1>2, <2>1, <2>2, Zenon DEF PlacesInv
<1>. QED
  BY <1>4, <1>5, Zenon

\* On one chain, a row that an event has stays stored.
LEMMA StoredRowStays ==
    ASSUME NEW rows, NEW new, NEW c, NEW e, e.txid \in TxIDs, HasStoredRow(rows, e),
           PlacesInv(c, m, rows), PlacesInv(c, m, new),
           KeysStay(rows, new)
    PROVE  HasStoredRow(new, e)
<1>1. SUFFICES ASSUME Txs[e.txid].tag # "commission"
               PROVE  \E y \in new[TableOf(e)] : IsRowOf(TableOf(e), y, e)
  BY Zenon DEF HasStoredRow
<1>2. PICK t \in Tables \ {"events"} : t = TableOf(e)
  BY <1>1, TableOfType, Zenon
<1>3. PICK x \in rows[t] : IsRowOf(t, x, e)
  BY <1>1, <1>2, Zenon DEF HasStoredRow
<1>4. PICK y \in new[t] : Key(t, y) = Key(t, x)
  BY <1>2, Zenon DEF KeysStay
<1>5. t = "registers" => x.txid = c[x.id[1]][x.id[2]] /\ y.txid = c[y.id[1]][y.id[2]]
  BY Zenon DEF PlacesInv
<1>6. IsRowOf(t, y, e)
  BY <1>2, <1>3, <1>4, <1>5, SameKey, Zenon
<1>. QED
  BY <1>2, <1>6, Zenon

\* So the staged proofs, bindings and events keep what they refer to.
LEMMA StoreKeepsStaged ==
    ASSUME Manager(m), NEW rows, NEW new, NEW c, PlacesInv(c, m, rows), PlacesInv(c, m, new),
           KeysStay(rows, new)
    PROVE  /\ IndexersInv(m, rows) => IndexersInv(m, new)
           /\ RowsInv(m, rows) => RowsInv(m, new)
<1>1. ASSUME NEW id, Known(m, rows, id) PROVE Known(m, new, id)
  <2>1. \A x \in rows["registers"] : \E y \in new["registers"] : y.id = x.id
    <3>1. \A x : Key("registers", x) = x.id
      BY DEF Key
    <3>. QED
      BY <3>1 DEF Tables, KeysStay
  <2>. QED
    BY <1>1, <2>1, Zenon DEF Known
<1>2. IndexersInv(m, rows) => IndexersInv(m, new)
  BY <1>1, Zenon DEF IndexersInv
<1>3. ASSUME RowsInv(m, rows) PROVE RowsInv(m, new)
  <2>1. PICK s \in Seq(Events) : s = m.wait["events"]
    BY Zenon DEF Manager, RowsOf, Tables
  <2>2. ASSUME NEW k \in DOMAIN s, s[k].flags = "None" PROVE HasRow(m, new, s[k])
    <3>1. PICK e \in Events : e = s[k]
      OBVIOUS
    <3>2. e.txid \in TxIDs
      BY <3>1, Zenon DEF Events
    <3>3. HasRow(m, rows, e)
      BY <1>3, <2>1, <2>2, <3>1, Zenon DEF RowsInv
    <3>4. CASE HasStoredRow(rows, e)
      <4>1. HasStoredRow(new, e)
        BY <3>2, <3>4, StoredRowStays, Zenon
      <4>. QED
        BY <3>1, <4>1, Zenon DEF HasRow, HasStoredRow
    <3>5. CASE ~HasStoredRow(rows, e)
      BY <3>1, <3>3, <3>5, Zenon DEF HasRow, HasStoredRow
    <3>. QED
      BY <3>4, <3>5, Zenon
  <2>. QED
    BY <2>1, <2>2, Zenon DEF RowsInv
<1>. QED
  BY <1>2, <1>3, Zenon
\* On one chain, storing the next list leaves the stored rows fitting: what its
\* rows refer to is in the lists before it, and these are stored.
LEMMA StoreFits ==
    ASSUME Manager(m), Store(db), pc \in Tables, OrderInv, Fits(db),
           IndexersInv(m, db), RowsInv(m, db), NEW c, PlacesInv(c, m, db),
           NEW list \in Seq(RowsOf(pc)), From(list, pc),
           NEW new, new = Upsert(db, pc, list), PlacesInv(c, m, new)
    PROVE  Fits(new)
<1>1. /\ \A u \in Tables \ {pc} : new[u] = db[u]
      /\ \A x \in new[pc] : x \in db[pc] \/ \E k \in DOMAIN list : x = list[k]
  <2>1. Merged(db, pc, list, new)
    BY UpsertMerges, Zenon
  <2>. QED
    BY <2>1, Zenon DEF Merged
<1>2. KeysStay(db, new)
  BY StoredStays, Zenon
<1>3. \A r \in db["registers"] : \E i \in new["registers"] : i.id = r.id
  <2>1. \A x : Key("registers", x) = x.id
    BY DEF Key
  <2>. QED
    BY <1>2, <2>1 DEF Tables, KeysStay
<1>4. ASSUME NEW t \in {"proofs", "bindings"}, NEW r \in new[t]
      PROVE  \E i \in new["registers"] : i.id = r.indexer
  <2>1. CASE r \in db[t]
    <3>1. PICK i \in db["registers"] : i.id = r.indexer
      BY <2>1, Zenon DEF Fits
    <3>. QED
      BY <1>3, <3>1, Zenon
  <2>2. CASE r \notin db[t]
    <3>1. t = pc
      BY <1>1, <2>2, Zenon DEF Tables
    <3>2. PICK j \in DOMAIN m.wait[t] : r = m.wait[t][j]
      <4>1. PICK k \in DOMAIN list : r = list[k]
        BY <1>1, <2>2, <3>1, Zenon
      <4>. QED
        BY <3>1, <4>1, Zenon DEF From
    <3>3. Known(m, db, r.indexer)
      BY <3>2, Zenon DEF IndexersInv
    <3>4. Stored("registers")
      BY <3>1, Zenon DEF OrderInv
    <3>5. \E i \in db["registers"] : i.id = r.indexer
      BY <3>3, <3>4, Zenon DEF Known, Stored, Key
    <3>. QED
      BY <1>3, <3>5, Zenon
  <2>. QED
    BY <2>1, <2>2, Zenon
<1>5. ASSUME NEW e \in new["events"], e.flags = "None" PROVE HasStoredRow(new, e)
  <2>1. CASE e \in db["events"]
    <3>1. e.txid \in TxIDs
      <4>1. e \in Events
        BY <2>1 DEF Store, RowsOf, Tables
      <4>. QED
        BY <4>1, Zenon DEF Events
    <3>2. HasStoredRow(db, e)
      BY <1>5, <2>1, Zenon DEF Fits
    <3>. QED
      BY <1>2, <3>1, <3>2, StoredRowStays, Zenon
  <2>2. CASE e \notin db["events"]
    <3>1. pc = "events"
      BY <1>1, <2>2, Zenon DEF Tables
    <3>2. PICK j \in DOMAIN m.wait["events"] : e = m.wait["events"][j]
      <4>1. PICK k \in DOMAIN list : e = list[k]
        BY <1>1, <2>2, <3>1, Zenon
      <4>. QED
        BY <3>1, <4>1, Zenon DEF From
    <3>3. HasRow(m, db, e)
      BY <1>5, <3>2, Zenon DEF RowsInv
    <3>4. e.txid \in TxIDs
      <4>1. PICK s \in Seq(Events) : s = m.wait["events"]
        BY Zenon DEF Manager, RowsOf, Tables
      <4>2. e \in Events
        BY <3>2, <4>1
      <4>. QED
        BY <4>2, Zenon DEF Events
    <3>5. SUFFICES ASSUME Txs[e.txid].tag # "commission"
                   PROVE  \E r \in new[TableOf(e)] : IsRowOf(TableOf(e), r, e)
      BY Zenon DEF HasStoredRow
    <3>6. PICK t \in Tables \ {"events"} : t = TableOf(e)
      BY <3>4, <3>5, TableOfType, Zenon
    <3>7. new[t] = db[t]
      BY <1>1, <3>1, <3>6, Zenon
    <3>8. CASE \E r \in db[t] : IsRowOf(t, r, e)
      BY <3>6, <3>7, <3>8, Zenon
    <3>9. CASE \E k \in DOMAIN m.wait[t] : IsRowOf(t, m.wait[t][k], e)
      <4>1. PICK k \in DOMAIN m.wait[t] : IsRowOf(t, m.wait[t][k], e)
        BY <3>9, Zenon
      <4>2. Stored(t)
        BY <3>1, <3>6, Zenon DEF OrderInv, Tables
      <4>3. PICK x : x = m.wait[t][k]
        BY Zenon
      <4>4. PICK y \in db[t] : Key(t, y) = Key(t, x)
        BY <4>2, <4>3, Zenon DEF Stored
      <4>5. t = "registers" => x.txid = c[x.id[1]][x.id[2]] /\ y.txid = c[y.id[1]][y.id[2]]
        BY <4>3, Zenon DEF PlacesInv
      <4>6. IsRowOf(t, y, e)
        BY <3>6, <4>1, <4>3, <4>4, <4>5, SameKey, Zenon
      <4>. QED
        BY <3>6, <3>7, <4>6, Zenon
    <3>. QED
      BY <3>3, <3>5, <3>6, <3>8, <3>9, Zenon DEF HasRow
  <2>. QED
    BY <2>1, <2>2, Zenon
<1>. QED
  BY <1>4, <1>5, Zenon DEF Fits

\* Storing the next list, or the first rows of it, keeps the invariant.
LEMMA StoreKeeps ==
    ASSUME HandlerType, OwnersInv(m, db), OrderInv, pc \in Tables,
           NEW list \in Seq(RowsOf(pc)), From(list, pc), NEW new, new = Upsert(db, pc, list)
    PROVE  /\ Store(new) /\ OwnersInv(m, new) /\ KeysStay(db, new)
           /\ \A c : Linked(c, m, db) => Linked(c, m, new)
<1>1. Manager(m) /\ Store(db)
  BY Zenon DEF HandlerType
<1>2. Store(new) /\ KeysStay(db, new)
  BY <1>1, UpsertMerges, StoredStays, Zenon DEF Merged
<1>3. OwnersInv(m, new) /\ \A c : PlacesInv(c, m, db) => PlacesInv(c, m, new)
  BY <1>1, StoreKeepsOwners, Zenon
<1>4. ASSUME NEW c, Linked(c, m, db) PROVE Linked(c, m, new)
  <2>1. PlacesInv(c, m, db) /\ IndexersInv(m, db) /\ RowsInv(m, db) /\ Fits(db)
    BY <1>4, Zenon DEF Linked
  <2>2. PlacesInv(c, m, new)
    BY <1>3, <2>1, Zenon
  <2>3. IndexersInv(m, new) /\ RowsInv(m, new)
    BY <1>1, <1>2, <2>1, <2>2, StoreKeepsStaged, Zenon
  <2>4. Fits(new)
    BY <1>1, <2>1, <2>2, StoreFits, Zenon
  <2>. QED
    BY <2>2, <2>3, <2>4, Zenon DEF Linked
<1>. QED
  BY <1>2, <1>3, <1>4, Zenon

\* An empty manager refers to nothing.
LEMMA EmptyLists ==
    ASSUME NEW mem, mem.wait = WaitForUpsert, NEW old, NEW rows
    PROVE  /\ DOMAIN mem = {"wait", "seen", "slow"} => Manager(mem)
           /\ OwnersInv(old, rows) => OwnersInv(mem, rows)
           /\ \A c : Linked(c, old, rows) => Linked(c, mem, rows)
<1>1. \A t \in Tables : mem.wait[t] = <<>>
  BY Zenon DEF WaitForUpsert
<1>2. mem.wait["registers"] = <<>> /\ mem.wait["proofs"] = <<>> /\ mem.wait["bindings"] = <<>>
      /\ mem.wait["events"] = <<>>
  BY <1>1, Zenon DEF Tables
<1>3. DOMAIN mem = {"wait", "seen", "slow"} => Manager(mem)
  BY <1>1 DEF Manager, WaitForUpsert
<1>4. OwnersInv(old, rows) => OwnersInv(mem, rows)
  BY <1>2 DEF OwnersInv
<1>5. \A c : PlacesInv(c, old, rows) => PlacesInv(c, mem, rows)
  BY <1>2 DEF PlacesInv
<1>6. IndexersInv(mem, rows)
  BY <1>2 DEF IndexersInv
<1>7. RowsInv(mem, rows)
  BY <1>2 DEF RowsInv
<1>. QED
  BY <1>3, <1>4, <1>5, <1>6, <1>7, Zenon DEF Linked
------------------------------------------------------------------------------
(***************************************************************************)
(* The actions                                                             *)
(***************************************************************************)

\* A fault is noted after the earlier ones.
LEMMA FaultNoted ==
    ASSUME faults \in Seq(Kinds), NEW kind \in Kinds, Budget(kind)
    PROVE  /\ faults' \in Seq(Kinds) /\ kind \in Range(faults')
           /\ Range(faults) \subseteq Range(faults')
<1>1. faults' = Append(faults, kind)
  BY DEF Budget
<1>2. /\ faults' \in Seq(Kinds) /\ Len(faults') = Len(faults) + 1
      /\ faults'[Len(faults) + 1] = kind /\ \A k \in 1 .. Len(faults) : faults'[k] = faults[k]
  BY <1>1
<1>3. DOMAIN faults = 1 .. Len(faults) /\ DOMAIN faults' = 1 .. Len(faults) + 1
  BY <1>2
<1>. QED
  BY <1>2, <1>3 DEF Range

\* The loop starts with an empty store and a chain of the node.
LEMMA HandlerInit == Init => HandlerInv
<1>. SUFFICES ASSUME Init PROVE HandlerInv
  OBVIOUS
<1>1. chain \in Seq(Seq(TxIDs))
  BY ChainAssumption, Zenon DEF Init, Chains
<1>2. m.wait = WaitForUpsert /\ DOMAIN m = {"wait", "seen", "slow"}
  BY Zenon DEF Init, NewManager
<1>3. \A t \in Tables : db[t] = {}
  BY Zenon DEF Init, NoTables
<1>4. Manager(m)
  BY <1>2, EmptyLists, Zenon
<1>5. Store(db)
  BY <1>3, Zenon DEF Store, Init, NoTables
<1>6. HandlerType
  <2>1. \A T : <<>> \in Seq(T)
    OBVIOUS
  <2>2. blocks \in Seq(Seq(TxIDs)) /\ batch \in Seq(Seq(TxIDs)) /\ faults \in Seq(Kinds)
    BY <2>1, Zenon DEF Init
  <2>3. pc = "idle" /\ parsed = 0 /\ stopping = FALSE
    BY Zenon DEF Init
  <2>. QED
    BY <1>1, <1>4, <1>5, <2>2, <2>3, Zenon DEF HandlerType
<1>7. db["registers"] = {} /\ db["proofs"] = {} /\ db["bindings"] = {} /\ db["events"] = {}
  BY <1>3, Zenon DEF Tables
<1>8. m.wait["registers"] = <<>>
  BY <1>2, Zenon DEF WaitForUpsert, Tables
<1>9. OwnersInv(m, db)
  BY <1>7, <1>8 DEF OwnersInv
<1>10. StatusInv
  <2>1. Cardinality(db["registers"]) = 0
    BY <1>7, FS_EmptySet, Zenon
  <2>. QED
    BY <2>1, Zenon DEF StatusInv, Init
<1>11. OrderInv
  BY Zenon DEF OrderInv, Init
<1>12. Linked(chain, m, db)
  <2>1. Fits(db)
    BY <1>7, Zenon DEF Fits
  <2>2. PlacesInv(chain, m, db)
    BY <1>7, <1>8 DEF PlacesInv
  <2>3. m.wait["proofs"] = <<>> /\ m.wait["bindings"] = <<>> /\ m.wait["events"] = <<>>
    BY <1>2, Zenon DEF WaitForUpsert, Tables
  <2>4. IndexersInv(m, db) /\ RowsInv(m, db)
    BY <2>3 DEF IndexersInv, RowsInv
  <2>. QED
    BY <2>1, <2>2, <2>4 DEF Linked
<1>13. ChainInv
  BY <1>1 DEF ChainInv, Init
<1>. QED
  BY <1>6, <1>9, <1>10, <1>11, <1>12, <1>13, Zenon DEF HandlerInv, OneChain

\* The next batch is taken from the chain.
LEMMA ParseStep ==
    ASSUME HandlerInv, ParseLongestChain
    PROVE  HandlerInv'
<1>. USE DEF HandlerInv
<1>1. PICK n \in 1 .. Batch : /\ start + n - 1 <= Len(chain)
                              /\ batch' = SubSeq(chain, start, start + n - 1)
  BY Zenon DEF ParseLongestChain
<1>2. n \in Nat /\ n >= 1 /\ start = Len(blocks) + 1 /\ Len(blocks) \in Nat
  BY HandlersAssumption DEF start, HandlerType
<1>3. UNCHANGED <<chain, blocks, stopping, m, db, total, faults>> /\ parsed' = 0
      /\ pc = "idle" /\ pc' = "parse"
  BY Zenon DEF ParseLongestChain
<1>4. PICK T : T = Seq(TxIDs)
  OBVIOUS
<1>5. chain \in Seq(T) /\ blocks \in Seq(T)
  BY <1>4, Zenon DEF HandlerType
<1>6. /\ batch' \in Seq(T) /\ Len(batch') = n
      /\ \A k \in 1 .. n : batch'[k] = chain[Len(blocks) + k]
  BY <1>1, <1>2, <1>5
<1>7. HandlerType'
  BY <1>2, <1>3, <1>4, <1>6 DEF HandlerType
<1>8. OwnersInv(m, db)' /\ StatusInv' /\ OrderInv'
  BY <1>3, Zenon DEF StatusInv, OrderInv
<1>9. ASSUME "reorg" \notin Range(faults') PROVE ChainInv' /\ Linked(chain, m, db)'
  <2>1. ChainInv /\ Linked(chain, m, db)
    BY <1>3, <1>9, Zenon DEF OneChain
  <2>2. DOMAIN batch' = 1 .. n /\ Len(blocks) + n <= Len(chain)
    BY <1>1, <1>2, <1>5, <1>6
  <2>3. ChainInv'
    BY <1>3, <1>6, <2>1, <2>2, Zenon DEF ChainInv
  <2>. QED
    BY <1>3, <2>1, <2>3, Zenon
<1>. QED
  BY <1>7, <1>8, <1>9, Zenon DEF OneChain
\* What is handled of the next block keeps the invariant.
LEMMA HandledKeeps ==
    ASSUME HandlerInv, pc = "parse", NEW block \in Seq(TxIDs), NEW bad,
           \A i \in 1 .. Len(block) : block[i] = batch[parsed + 1][i],
           NEW new, new = HandleFastBlock(m, db, rdb, block, start + parsed, bad)
    PROVE  /\ Manager(new) /\ OwnersInv(new, db)
           /\ m.wait["registers"] # <<>> => new.wait["registers"] # <<>>
           /\ "reorg" \notin Range(faults) => ChainInv /\ Linked(chain, new, db)
<1>1. Manager(m) /\ Store(db) /\ OwnersInv(m, db)
  BY Zenon DEF HandlerInv, HandlerType
<1>2. PICK h \in Nat : h = start + parsed /\ h = Len(blocks) + (parsed + 1)
  BY DEF HandlerInv, HandlerType, start
<1>3. Keeps(m, new, db, chain, block, h)
  BY <1>1, <1>2, BlockKeeps, Zenon
<1>4. ASSUME "reorg" \notin Range(faults) PROVE ChainInv /\ Linked(chain, new, db)
  <2>1. ChainInv /\ Linked(chain, m, db)
    BY <1>4, Zenon DEF HandlerInv, OneChain
  <2>2. parsed + 1 \in DOMAIN batch
    BY DEF HandlerInv, HandlerType
  <2>3. batch[parsed + 1] = chain[h]
    BY <1>2, <2>1, <2>2, Zenon DEF ChainInv
  <2>4. Agrees(block, chain, h)
    BY <2>3, Zenon DEF Agrees
  <2>. QED
    BY <1>3, <2>1, <2>4, Zenon DEF Keeps, Linked
<1>. QED
  BY <1>1, <1>3, <1>4, Zenon DEF Keeps

\* A block is handled, whatever lookup fails.
LEMMA HandleKeeps ==
    ASSUME HandlerInv, NEW bad, Handle(bad), faults' \in Seq(Kinds),
           Range(faults) \subseteq Range(faults')
    PROVE  HandlerInv'
<1>1. PICK block : block = batch[parsed + 1]
  OBVIOUS
<1>2. /\ pc = "parse" /\ parsed' = parsed + 1
      /\ pc' = (IF parsed + 1 = Len(batch) THEN "registers" ELSE pc)
      /\ UNCHANGED <<chain, blocks, batch, stopping, db, total>>
      /\ m' = HandleFastBlock(m, db, rdb, block, start + parsed, bad)
  BY <1>1, Zenon DEF Handle
<1>3. /\ chain \in Seq(Seq(TxIDs)) /\ blocks \in Seq(Seq(TxIDs)) /\ batch \in Seq(Seq(TxIDs))
      /\ parsed \in Nat /\ parsed < Len(batch) /\ Store(db) /\ stopping \in BOOLEAN
  BY <1>2, Zenon DEF HandlerInv, HandlerType
<1>4. block \in Seq(TxIDs)
  BY <1>1, <1>3
<1>5. /\ Manager(m') /\ OwnersInv(m', db)
      /\ m.wait["registers"] # <<>> => m'.wait["registers"] # <<>>
      /\ "reorg" \notin Range(faults) => ChainInv /\ Linked(chain, m', db)
  BY <1>1, <1>2, <1>4, HandledKeeps, Zenon
<1>6. HandlerType'
  <2>1. pc' \in Tables \cup {"idle", "parse", "utxo"} /\ (pc' = "parse" => parsed' < Len(batch'))
    BY <1>2, <1>3 DEF Tables
  <2>2. parsed' \in Nat
    BY <1>2, <1>3
  <2>. QED
    BY <1>2, <1>3, <1>5, <2>1, <2>2, Zenon DEF HandlerType
<1>7. StatusInv'
  BY <1>2, <1>5, Zenon DEF HandlerInv, StatusInv
<1>8. OrderInv'
  BY <1>2, Zenon DEF OrderInv
<1>9. OneChain'
  <2>1. ASSUME "reorg" \notin Range(faults') PROVE ChainInv' /\ Linked(chain, m, db)'
    BY <1>2, <1>5, <2>1, Zenon DEF ChainInv
  <2>. QED
    BY <2>1, Zenon DEF OneChain
<1>. QED
  BY <1>2, <1>5, <1>6, <1>7, <1>8, <1>9, Zenon DEF HandlerInv

\* A block is handled, with or without a failing lookup.
LEMMA HandleBlockStep ==
    ASSUME HandlerInv, HandleBlock \/ LookupFails
    PROVE  HandlerInv'
<1>1. faults \in Seq(Kinds)
  BY DEF HandlerInv, HandlerType
<1>2. CASE HandleBlock
  <2>1. faults' \in Seq(Kinds) /\ Range(faults) \subseteq Range(faults') /\ Handle(NoError)
    BY <1>1, <1>2, Zenon DEF HandleBlock
  <2>. QED
    BY <2>1, HandleKeeps
<1>3. CASE LookupFails
  <2>1. Budget("lookup") /\ \E bad : Handle(bad)
    BY <1>3, Zenon DEF LookupFails
  <2>2. faults' \in Seq(Kinds) /\ Range(faults) \subseteq Range(faults')
    BY <1>1, <2>1, FaultNoted, Zenon DEF Kinds
  <2>. QED
    BY <2>1, <2>2, HandleKeeps, Zenon
<1>. QED
  BY <1>2, <1>3

\* The loop stops while it parses.
LEMMA StopStep ==
    ASSUME HandlerInv, Stop
    PROVE  HandlerInv'
<1>1. /\ chain \in Seq(Seq(TxIDs)) /\ blocks \in Seq(Seq(TxIDs)) /\ batch \in Seq(Seq(TxIDs))
      /\ parsed \in Nat /\ parsed < Len(batch) /\ Store(db) /\ faults \in Seq(Kinds)
      /\ Manager(m) /\ OwnersInv(m, db) /\ pc = "parse"
  BY Zenon DEF HandlerInv, HandlerType, Stop
<1>2. PICK b \in Seq(TxIDs) : b = batch[parsed + 1]
  BY <1>1
<1>3. PICK k \in 0 .. Len(b) :
         /\ Budget("stop") \/ Budget("lookup")
         /\ m' = IF parsed = 0 THEN NewManager
                 ELSE HandleFastBlock(m, db, rdb, SubSeq(b, 1, k), start + parsed, NoError)
  BY <1>2, Zenon DEF Stop
<1>4. /\ batch' = SubSeq(batch, 1, parsed) /\ parsed' = 0 /\ stopping' = (parsed # 0)
      /\ pc' = (IF parsed = 0 THEN "idle" ELSE "registers")
      /\ total' = (IF parsed = 0 THEN Cardinality(db["registers"]) ELSE total)
      /\ UNCHANGED <<chain, blocks, db>>
  BY Zenon DEF Stop
<1>5. faults' \in Seq(Kinds) /\ Range(faults) \subseteq Range(faults')
  BY <1>1, <1>3, FaultNoted, Zenon DEF Kinds
<1>6. /\ Manager(m') /\ OwnersInv(m', db)
      /\ parsed # 0 /\ m.wait["registers"] # <<>> => m'.wait["registers"] # <<>>
      /\ "reorg" \notin Range(faults) => ChainInv /\ Linked(chain, m', db)
  <2>1. CASE parsed = 0
    <3>1. m'.wait = WaitForUpsert /\ DOMAIN m' = {"wait", "seen", "slow"}
      BY <1>3, <2>1, Zenon DEF NewManager
    <3>2. Manager(m') /\ OwnersInv(m', db) /\ (Linked(chain, m, db) => Linked(chain, m', db))
      BY <1>1, <3>1, EmptyLists, Zenon
    <3>. QED
      BY <2>1, <3>2, Zenon DEF HandlerInv, OneChain
  <2>2. CASE parsed # 0
    <3>0. PICK c : c = SubSeq(b, 1, k)
      BY Zenon
    <3>1. c \in Seq(TxIDs) /\ Len(c) = k /\ \A i \in 1 .. k : c[i] = b[i]
      BY <3>0
    <3>2. m' = HandleFastBlock(m, db, rdb, c, start + parsed, NoError)
      BY <1>3, <2>2, <3>0, Zenon
    <3>3. \A i \in 1 .. Len(c) : c[i] = batch[parsed + 1][i]
      BY <1>2, <3>1, Zenon
    <3>. QED
      BY <1>1, <3>1, <3>2, <3>3, HandledKeeps, Zenon
  <2>. QED
    BY <2>1, <2>2, Zenon
<1>7. PICK T : T = Seq(TxIDs)
  OBVIOUS
<1>8. batch' \in Seq(T) /\ Len(batch') = parsed /\ \A i \in 1 .. parsed : batch'[i] = batch[i]
  <2>1. batch \in Seq(T) /\ parsed <= Len(batch)
    BY <1>1, <1>7
  <2>. QED
    BY <1>1, <1>4, <2>1, FirstOf, Zenon
<1>9. HandlerType'
  <2>1. pc' \in Tables \cup {"idle", "parse", "utxo"} /\ pc' # "parse"
    BY <1>4, Zenon DEF Tables
  <2>. QED
    BY <1>1, <1>4, <1>5, <1>6, <1>7, <1>8, <2>1, Zenon DEF HandlerType
<1>10. StatusInv'
  BY <1>4, <1>6, Zenon DEF HandlerInv, StatusInv
<1>11. OrderInv'
  BY <1>4, Zenon DEF OrderInv
<1>12. ASSUME "reorg" \notin Range(faults') PROVE ChainInv' /\ Linked(chain, m, db)'
  <2>1. ChainInv /\ Linked(chain, m', db)
    BY <1>5, <1>6, <1>12, Zenon
  <2>2. DOMAIN batch' = 1 .. parsed /\ DOMAIN batch = 1 .. Len(batch)
    BY <1>1, <1>8
  <2>3. /\ Len(blocks) \in Nat /\ Len(chain) \in Nat /\ Len(batch) \in Nat
        /\ Len(blocks) + Len(batch) <= Len(chain)
    BY <1>1, <2>1 DEF ChainInv
  <2>4. \A i \in 1 .. parsed : batch'[i] = chain[Len(blocks) + i]
    <3>1. \A i \in 1 .. parsed : i \in DOMAIN batch
      BY <1>1, <2>2, <2>3
    <3>. QED
      BY <1>8, <2>1, <3>1, Zenon DEF ChainInv
  <2>5. Len(blocks) + Len(batch') <= Len(chain)
    BY <1>1, <1>8, <2>3
  <2>6. ChainInv'
    BY <1>4, <2>1, <2>2, <2>4, <2>5, Zenon DEF ChainInv
  <2>. QED
    BY <1>4, <2>1, <2>6, Zenon
<1>. QED
  BY <1>4, <1>6, <1>9, <1>10, <1>11, <1>12, Zenon DEF HandlerInv, OneChain
\* The order of the lists.
LEMMA AfterIs ==
    /\ After("registers") = "proofs" /\ After("proofs") = "claims"
    /\ After("claims") = "bindings" /\ After("bindings") = "events" /\ After("events") = "utxo"
<1>1. /\ Steps[1] = "registers" /\ Steps[2] = "proofs" /\ Steps[3] = "claims"
      /\ Steps[4] = "bindings" /\ Steps[5] = "events"
  BY Zenon DEF Steps
<1>2. ASSUME NEW j \in 1 .. 4 PROVE After(Steps[j]) = Steps[j + 1]
  <2>1. PICK i : i = CHOOSE k \in 1 .. 5 : Steps[k] = Steps[j]
    OBVIOUS
  <2>2. i \in 1 .. 5 /\ Steps[i] = Steps[j]
    BY <2>1
  <2>3. i = j /\ Steps[j] # "events"
    BY <1>1, <2>2
  <2>. QED
    BY <2>1, <2>3, Zenon DEF After
<1>3. After("events") = "utxo"
  BY DEF After
<1>. QED
  BY <1>1, <1>2, <1>3

\* The first k rows of a list are rows of it.
LEMMA FirstRows ==
    ASSUME Manager(m), NEW t \in Tables, NEW k \in 0 .. Len(m.wait[t]),
           NEW list, list = SubSeq(m.wait[t], 1, k)
    PROVE  /\ list \in Seq(RowsOf(t)) /\ From(list, t)
           /\ m.wait[t] = <<>> => list = <<>>
<1>1. PICK R, s : R = RowsOf(t) /\ s = m.wait[t]
  BY Zenon
<1>2. s \in Seq(R)
  BY <1>1, Zenon DEF Manager
<1>3. /\ list \in Seq(R) /\ Len(list) = k /\ Len(s) \in Nat
      /\ \A j \in 1 .. k : list[j] = s[j]
  BY <1>1, <1>2
<1>4. DOMAIN list = 1 .. k /\ DOMAIN s = 1 .. Len(s)
  BY <1>2, <1>3
<1>5. From(list, t)
  BY <1>1, <1>3, <1>4 DEF From
<1>6. s = <<>> => list = <<>>
  BY <1>1, <1>2, <1>3
<1>. QED
  BY <1>1, <1>3, <1>5, <1>6, Zenon

\* The rows that were staged have a stored one once their list is stored.
LEMMA StoredAfter ==
    ASSUME Manager(m), Store(db), NEW t \in Tables, NEW new, new = Upsert(db, t, m.wait[t])
    PROVE  \A k \in DOMAIN m.wait[t] : \E r \in new[t] : Key(t, r) = Key(t, m.wait[t][k])
<1>1. PICK list \in Seq(RowsOf(t)) : list = m.wait[t]
  BY Zenon DEF Manager
<1>2. \A k \in DOMAIN list : \E y \in new[t] : Key(t, y) = Key(t, list[k])
  <2>1. Merged(db, t, list, new)
    BY <1>1, UpsertMerges, Zenon
  <2>. QED
    BY <2>1, Zenon DEF Merged
<1>. QED
  BY <1>1, <1>2, Zenon

\* A list is stored.
LEMMA PersistStep ==
    ASSUME HandlerInv, Persist
    PROVE  HandlerInv'
<1>1. /\ chain \in Seq(Seq(TxIDs)) /\ blocks \in Seq(Seq(TxIDs)) /\ batch \in Seq(Seq(TxIDs))
      /\ parsed \in Nat /\ Store(db) /\ Manager(m) /\ stopping \in BOOLEAN
      /\ faults \in Seq(Kinds) /\ OwnersInv(m, db) /\ OrderInv /\ HandlerType
  BY Zenon DEF HandlerInv, HandlerType
<1>2. /\ pc \in Tables /\ db' = Upsert(db, pc, m.wait[pc])
      /\ total' = (IF pc = "registers" THEN Cardinality(db'["registers"]) ELSE total)
      /\ m' = (IF pc = "events" THEN [m EXCEPT !.wait = WaitForUpsert] ELSE m)
      /\ pc' = After(pc)
      /\ UNCHANGED <<chain, blocks, batch, parsed, stopping, faults>>
  BY DEF Persist
<1>3. PICK list : list = m.wait[pc]
  OBVIOUS
<1>4. list \in Seq(RowsOf(pc)) /\ From(list, pc) /\ db' = Upsert(db, pc, list)
  BY <1>1, <1>2, <1>3, Zenon DEF Manager, From
<1>5. /\ Store(db') /\ OwnersInv(m, db') /\ KeysStay(db, db')
      /\ \A c : Linked(c, m, db) => Linked(c, m, db')
  BY <1>1, <1>2, <1>4, StoreKeeps, Zenon
<1>6. /\ Manager(m') /\ OwnersInv(m', db') /\ (Linked(chain, m, db) => Linked(chain, m', db'))
  <2>1. CASE pc = "events"
    <3>1. m'.wait = WaitForUpsert /\ DOMAIN m' = {"wait", "seen", "slow"}
      BY <1>1, <1>2, <2>1 DEF Manager
    <3>. QED
      BY <1>5, <3>1, EmptyLists, Zenon
  <2>2. CASE pc # "events"
    BY <1>1, <1>2, <1>5, <2>2, Zenon
  <2>. QED
    BY <2>1, <2>2, Zenon
<1>7. pc' \in Tables \cup {"idle", "parse", "utxo"} /\ pc' \notin {"idle", "parse", "registers"}
  BY <1>2, AfterIs DEF Tables
<1>8. HandlerType'
  BY <1>1, <1>2, <1>5, <1>6, <1>7, Zenon DEF HandlerType
<1>9. total' = Cardinality(db'["registers"])
  <2>1. CASE pc = "registers"
    BY <1>2, <2>1
  <2>2. CASE pc # "registers"
    <3>1. db'["registers"] = db["registers"]
      <4>1. Merged(db, pc, list, db')
        BY <1>1, <1>2, <1>4, UpsertMerges, Zenon
      <4>. QED
        BY <2>2, <4>1, Zenon DEF Merged, Tables
    <3>2. total = Cardinality(db["registers"])
      BY <1>2, <2>2 DEF HandlerInv, StatusInv, Tables
    <3>. QED
      BY <1>2, <2>2, <3>1, <3>2
  <2>. QED
    BY <2>1, <2>2, Zenon
<1>10. OrderInv'
  <2>1. CASE pc = "events"
    BY <1>2, <2>1, AfterIs DEF OrderInv
  <2>2. CASE pc # "events"
    <3>1. m' = m
      BY <1>2, <2>2
    <3>2. ASSUME NEW t \in Tables, Stored(t) PROVE Stored(t)'
      BY <1>5, <3>1, <3>2, ZenonT(40) DEF Stored, KeysStay
    <3>3. PICK u \in Tables : u = pc /\ Stored(u)'
      <4>1. PICK u \in Tables : u = pc
        BY <1>2, Zenon
      <4>2. \A k \in DOMAIN m.wait[u] : \E r \in db'[u] : Key(u, r) = Key(u, m.wait[u][k])
        BY <1>1, <1>2, <4>1, StoredAfter
      <4>. QED
        BY <3>1, <4>1, <4>2 DEF Stored
    <3>4. {"registers", "proofs", "claims", "bindings"} \subseteq Tables
      BY DEF Tables
    <3>5. CASE pc = "registers"
      BY <1>2, <3>3, <3>5, AfterIs DEF OrderInv
    <3>6. CASE pc = "proofs"
      BY <1>1, <1>2, <3>2, <3>3, <3>4, <3>6, AfterIs DEF OrderInv
    <3>7. CASE pc = "claims"
      BY <1>1, <1>2, <3>2, <3>3, <3>4, <3>7, AfterIs DEF OrderInv
    <3>8. CASE pc = "bindings"
      BY <1>1, <1>2, <3>2, <3>3, <3>4, <3>8, AfterIs DEF OrderInv
    <3>. QED
      BY <1>2, <2>2, <3>5, <3>6, <3>7, <3>8, Zenon DEF Tables
  <2>. QED
    BY <2>1, <2>2
<1>11. OneChain'
  <2>1. ASSUME "reorg" \notin Range(faults') PROVE ChainInv' /\ Linked(chain, m, db)'
    <3>1. ChainInv /\ Linked(chain, m, db)
      BY <1>2, <2>1 DEF HandlerInv, OneChain
    <3>. QED
      BY <1>2, <1>6, <3>1, Zenon DEF ChainInv
  <2>. QED
    BY <2>1, Zenon DEF OneChain
<1>. QED
  BY <1>6, <1>8, <1>9, <1>10, <1>11, Zenon DEF HandlerInv, StatusInv
\* A step after which the loop is idle with nothing taken, and the committed
\* blocks are as before.
LEMMA RestartKeeps ==
    ASSUME HandlerInv, Store(db'), Manager(m'), OwnersInv(m', db'),
           Linked(chain, m, db) => Linked(chain, m', db'),
           UNCHANGED <<chain, blocks>>, pc' = "idle", batch' = <<>>, parsed' = 0,
           stopping' = FALSE, faults' \in Seq(Kinds), Range(faults) \subseteq Range(faults'),
           total' # Cardinality(db'["registers"]) => m'.wait["registers"] # <<>>
    PROVE  HandlerInv'
<1>1. \A T : <<>> \in Seq(T)
  OBVIOUS
<1>2. batch' \in Seq(Seq(TxIDs)) /\ chain' \in Seq(Seq(TxIDs)) /\ blocks' \in Seq(Seq(TxIDs))
  BY <1>1, Zenon DEF HandlerInv, HandlerType
<1>3. HandlerType'
  BY <1>2, Zenon DEF HandlerType
<1>4. StatusInv' /\ OrderInv'
  BY Zenon DEF StatusInv, OrderInv
<1>5. ASSUME "reorg" \notin Range(faults') PROVE ChainInv' /\ Linked(chain, m, db)'
  <2>1. ChainInv /\ Linked(chain, m, db)
    BY <1>5, Zenon DEF HandlerInv, OneChain
  <2>2. Len(batch') = 0 /\ DOMAIN batch' = {}
    OBVIOUS
  <2>3. Len(blocks) \in Nat /\ Len(batch) \in Nat /\ Len(chain) \in Nat
    <3>1. PICK T : T = Seq(TxIDs)
      BY Zenon
    <3>2. blocks \in Seq(T) /\ batch \in Seq(T) /\ chain \in Seq(T)
      BY <3>1, Zenon DEF HandlerInv, HandlerType
    <3>. QED
      BY <3>2
  <2>4. ChainInv'
    BY <2>1, <2>2, <2>3 DEF ChainInv
  <2>. QED
    BY <2>1, <2>4, Zenon
<1>. QED
  BY <1>3, <1>4, <1>5, Zenon DEF HandlerInv, OneChain

\* A statement fails after the first rows of its list, or the process ends there.
LEMMA FirstRowsKeep ==
    ASSUME HandlerInv, pc \in Tables, NEW k \in 0 .. Len(m.wait[pc]),
           db' = Upsert(db, pc, SubSeq(m.wait[pc], 1, k))
    PROVE  /\ Store(db') /\ OwnersInv(m, db') /\ (Linked(chain, m, db) => Linked(chain, m, db'))
           /\ m.wait["registers"] = <<>> \/ pc # "registers" =>
                db'["registers"] = db["registers"]
<1>1. Manager(m) /\ Store(db) /\ HandlerType /\ OwnersInv(m, db) /\ OrderInv
  BY Zenon DEF HandlerInv, HandlerType
<1>2. PICK list : list = SubSeq(m.wait[pc], 1, k)
  BY Zenon
<1>3. /\ list \in Seq(RowsOf(pc)) /\ From(list, pc) /\ (m.wait[pc] = <<>> => list = <<>>)
      /\ db' = Upsert(db, pc, list)
  BY <1>1, <1>2, FirstRows, Zenon
<1>4. Store(db') /\ OwnersInv(m, db') /\ (Linked(chain, m, db) => Linked(chain, m, db'))
  BY <1>1, <1>3, StoreKeeps, Zenon
<1>5. CASE pc # "registers"
  <2>1. \A u \in Tables \ {pc} : db'[u] = db[u]
    <3>1. Merged(db, pc, list, db')
      BY <1>1, <1>3, UpsertMerges, Zenon
    <3>. QED
      BY <3>1, Zenon DEF Merged
  <2>2. db'["registers"] = db["registers"]
    BY <1>5, <2>1, Zenon DEF Tables
  <2>. QED
    BY <1>4, <2>2, Zenon
<1>6. CASE pc = "registers" /\ m.wait["registers"] = <<>>
  <2>1. list = <<>> /\ Len(list) = 0
    BY <1>3, <1>6, Zenon
  <2>2. PutAll(pc, db[pc], list) = db[pc]
    BY <2>1, PutNone, Zenon
  <2>3. db'["registers"] = db["registers"]
    BY <1>1, <1>3, <1>6, <2>2, Zenon DEF Upsert, Store
  <2>. QED
    BY <1>4, <2>3
<1>. QED
  BY <1>4, <1>5, <1>6, Zenon

\* A statement fails.
LEMMA PersistFailsStep ==
    ASSUME HandlerInv, PersistFails
    PROVE  HandlerInv'
<1>1. /\ pc \in Tables /\ Budget("error") /\ UNCHANGED <<chain, blocks>>
      /\ pc' = "idle" /\ batch' = <<>> /\ parsed' = 0 /\ stopping' = FALSE
      /\ m' = (IF stopping THEN NewManager ELSE m)
      /\ total' = (IF stopping THEN Cardinality(db'["registers"]) ELSE total)
  BY Zenon DEF PersistFails
<1>2. PICK k \in 0 .. Len(m.wait[pc]) : db' = Upsert(db, pc, SubSeq(m.wait[pc], 1, k))
  BY Zenon DEF PersistFails
<1>3. /\ Store(db') /\ OwnersInv(m, db') /\ (Linked(chain, m, db) => Linked(chain, m, db'))
      /\ m.wait["registers"] = <<>> \/ pc # "registers" => db'["registers"] = db["registers"]
  BY <1>1, <1>2, FirstRowsKeep, Zenon
<1>4. Manager(m) /\ faults \in Seq(Kinds) /\ stopping \in BOOLEAN /\ StatusInv
  BY Zenon DEF HandlerInv, HandlerType
<1>5. faults' \in Seq(Kinds) /\ Range(faults) \subseteq Range(faults')
  BY <1>1, <1>4, FaultNoted, Zenon DEF Kinds
<1>6. CASE stopping
  <2>1. m'.wait = WaitForUpsert /\ DOMAIN m' = {"wait", "seen", "slow"}
    BY <1>1, <1>6, Zenon DEF NewManager
  <2>2. Manager(m') /\ OwnersInv(m', db') /\ (Linked(chain, m, db') => Linked(chain, m', db'))
    BY <1>3, <2>1, EmptyLists, Zenon
  <2>3. total' = Cardinality(db'["registers"])
    BY <1>1, <1>6, Zenon
  <2>. QED
    BY <1>1, <1>3, <1>5, <2>2, <2>3, RestartKeeps, Zenon
<1>7. CASE ~stopping
  <2>1. m' = m /\ total' = total
    BY <1>1, <1>7, Zenon
  <2>2. total' # Cardinality(db'["registers"]) => m'.wait["registers"] # <<>>
    <3>1. CASE m.wait["registers"] = <<>>
      <4>1. total = Cardinality(db["registers"])
        BY <1>4, <3>1, Zenon DEF StatusInv
      <4>. QED
        BY <1>3, <2>1, <3>1, <4>1, Zenon
    <3>. QED
      BY <2>1, <3>1, Zenon
  <2>3. Manager(m') /\ OwnersInv(m', db') /\ (Linked(chain, m, db) => Linked(chain, m', db'))
    BY <1>3, <1>4, <2>1, Zenon
  <2>. QED
    BY <1>1, <1>3, <1>5, <2>2, <2>3, RestartKeeps, Zenon
<1>. QED
  BY <1>6, <1>7, Zenon
\* The process ends and starts anew.
LEMMA CrashStep ==
    ASSUME HandlerInv, Crash
    PROVE  HandlerInv'
<1>1. /\ m' = NewManager /\ pc' = "idle" /\ batch' = <<>> /\ parsed' = 0 /\ stopping' = FALSE
      /\ total' = Cardinality(db'["registers"]) /\ UNCHANGED <<chain, blocks>>
  BY Zenon DEF Crash
<1>2. Store(db) /\ faults \in Seq(Kinds) /\ OwnersInv(m, db)
  BY Zenon DEF HandlerInv, HandlerType
<1>3. Budget("kill") \/ Budget("crash")
  BY Zenon DEF Crash
<1>4. faults' \in Seq(Kinds) /\ Range(faults) \subseteq Range(faults')
  BY <1>2, <1>3, FaultNoted, Zenon DEF Kinds
<1>5. Store(db') /\ OwnersInv(m, db') /\ (Linked(chain, m, db) => Linked(chain, m, db'))
  <2>1. CASE db' = db
    BY <1>2, <2>1, Zenon
  <2>2. CASE /\ pc \in Tables
             /\ \E k \in 0 .. Len(m.wait[pc]) : db' = Upsert(db, pc, SubSeq(m.wait[pc], 1, k))
    BY <2>2, FirstRowsKeep, Zenon
  <2>. QED
    BY <2>1, <2>2, Zenon DEF Crash
<1>6. m'.wait = WaitForUpsert /\ DOMAIN m' = {"wait", "seen", "slow"}
  BY <1>1, Zenon DEF NewManager
<1>7. Manager(m') /\ OwnersInv(m', db') /\ (Linked(chain, m, db') => Linked(chain, m', db'))
  BY <1>5, <1>6, EmptyLists, Zenon
<1>. QED
  BY <1>1, <1>4, <1>5, <1>7, RestartKeeps, Zenon

\* The batch is committed: its blocks follow the ones before it.
LEMMA CommitStep ==
    ASSUME HandlerInv, Commit
    PROVE  HandlerInv'
<1>1. /\ pc = "utxo" /\ blocks' = blocks \o batch /\ UNCHANGED <<chain, db, faults>>
      /\ m' = (IF stopping THEN NewManager ELSE [m EXCEPT !.slow = NoRedis])
      /\ pc' = "idle" /\ batch' = <<>> /\ parsed' = 0 /\ stopping' = FALSE
      /\ total' = (IF stopping THEN Cardinality(db["registers"]) ELSE total)
  BY Zenon DEF Commit
<1>2. /\ Manager(m) /\ Store(db) /\ faults \in Seq(Kinds) /\ stopping \in BOOLEAN
      /\ OwnersInv(m, db) /\ StatusInv /\ chain \in Seq(Seq(TxIDs))
  BY Zenon DEF HandlerInv, HandlerType
<1>3. total' = Cardinality(db["registers"])
  <2>1. total = Cardinality(db["registers"])
    BY <1>1, <1>2, Zenon DEF StatusInv
  <2>. QED
    BY <1>1, <2>1
<1>4. Manager(m') /\ OwnersInv(m', db) /\ (Linked(chain, m, db) => Linked(chain, m', db))
  <2>1. CASE stopping
    <3>1. m'.wait = WaitForUpsert /\ DOMAIN m' = {"wait", "seen", "slow"}
      BY <1>1, <2>1 DEF NewManager
    <3>. QED
      BY <1>2, <3>1, EmptyLists, Zenon
  <2>2. CASE ~stopping
    <3>1. m'.wait = m.wait /\ Manager(m')
      BY <1>1, <1>2, <2>2 DEF Manager
    <3>2. PICK e : e = <<>> /\ Len(e) = 0
      OBVIOUS
    <3>3. Keeps(m, m', db, chain, e, 0)
      BY <3>1, SameLists, Zenon
    <3>4. Agrees(e, chain, 0)
      BY <3>2 DEF Agrees
    <3>. QED
      BY <1>2, <3>3, <3>4, Zenon DEF Keeps, Linked
  <2>. QED
    BY <2>1, <2>2, Zenon
<1>5. PICK T : T = Seq(TxIDs)
  OBVIOUS
<1>6. blocks \in Seq(T) /\ batch \in Seq(T) /\ chain \in Seq(T)
  BY <1>5, Zenon DEF HandlerInv, HandlerType
<1>7. /\ blocks' \in Seq(T) /\ Len(blocks') = Len(blocks) + Len(batch)
      /\ \A k \in 1 .. Len(blocks) + Len(batch) :
           blocks'[k] = IF k <= Len(blocks) THEN blocks[k] ELSE batch[k - Len(blocks)]
  BY <1>1, <1>6
<1>8. batch' \in Seq(T) /\ Len(batch') = 0 /\ DOMAIN batch' = {}
  BY <1>1
<1>9. HandlerType'
  BY <1>1, <1>2, <1>4, <1>5, <1>7, <1>8, Zenon DEF HandlerType
<1>10. StatusInv' /\ OrderInv'
  BY <1>1, <1>3 DEF StatusInv, OrderInv
<1>11. ASSUME "reorg" \notin Range(faults') PROVE ChainInv' /\ Linked(chain, m, db)'
  <2>1. ChainInv /\ Linked(chain, m, db)
    BY <1>1, <1>11 DEF HandlerInv, OneChain
  <2>2. /\ Len(blocks) \in Nat /\ Len(batch) \in Nat /\ DOMAIN blocks = 1 .. Len(blocks)
        /\ DOMAIN batch = 1 .. Len(batch) /\ DOMAIN blocks' = 1 .. Len(blocks) + Len(batch)
    BY <1>6, <1>7
  <2>3. ASSUME NEW k \in 1 .. Len(blocks) + Len(batch) PROVE blocks'[k] = chain[k]
    <3>1. CASE k <= Len(blocks)
      <4>1. k \in DOMAIN blocks
        BY <2>2, <3>1
      <4>. QED
        BY <1>7, <2>1, <3>1, <4>1, Zenon DEF ChainInv
    <3>2. CASE ~(k <= Len(blocks))
      <4>1. PICK j \in DOMAIN batch : j = k - Len(blocks) /\ k = Len(blocks) + j
        BY <2>2, <3>2
      <4>2. batch[j] = chain[k]
        BY <2>1, <4>1, Zenon DEF ChainInv
      <4>. QED
        BY <1>7, <3>2, <4>1, <4>2, Zenon
    <3>. QED
      BY <3>1, <3>2, Zenon
  <2>4. Len(blocks') + Len(batch') <= Len(chain)
    BY <1>7, <1>8, <2>1, <2>2 DEF ChainInv
  <2>5. ChainInv'
    BY <1>1, <1>8, <2>2, <2>3, <2>4 DEF ChainInv
  <2>. QED
    BY <1>1, <1>4, <2>1, <2>5, Zenon
<1>. QED
  BY <1>1, <1>4, <1>9, <1>10, <1>11 DEF HandlerInv, OneChain
\* The node changes to another chain.
LEMMA ReorgStep ==
    ASSUME HandlerInv, Reorg
    PROVE  HandlerInv'
<1>1. /\ Budget("reorg") /\ UNCHANGED <<blocks, pc, batch, parsed, stopping, m, db, rdb, total>>
      /\ chain' \in UNION {F \in Families : chain \in F}
  BY Zenon DEF Reorg
<1>2. chain' \in Seq(Seq(TxIDs))
  BY <1>1, ChainAssumption, Zenon
<1>3. faults' \in Seq(Kinds) /\ "reorg" \in Range(faults')
  BY <1>1, FaultNoted, Zenon DEF HandlerInv, HandlerType, Kinds
<1>4. HandlerType'
  BY <1>1, <1>2, <1>3, Zenon DEF HandlerInv, HandlerType
<1>5. OwnersInv(m, db)' /\ StatusInv' /\ OrderInv'
  <2>1. \A t : Stored(t) => Stored(t)'
    BY <1>1, Zenon DEF Stored
  <2>2. StatusInv'
    BY <1>1, Zenon DEF HandlerInv, StatusInv
  <2>3. OrderInv'
    BY <1>1, <2>1, Zenon DEF HandlerInv, OrderInv
  <2>. QED
    BY <1>1, <2>2, <2>3, Zenon DEF HandlerInv
<1>. QED
  BY <1>3, <1>4, <1>5, Zenon DEF HandlerInv, OneChain

\* The least height that differs is one that differs.
LEMMA MinDiffers ==
    ASSUME Differs # {}, blocks \in Seq(Seq(TxIDs)) PROVE Min(Differs) \in 1 .. Len(blocks)
<1>1. PICK S : S = Differs
  OBVIOUS
<1>2. S \subseteq 1 .. Len(blocks) /\ S \subseteq Nat /\ S # {}
  BY <1>1 DEF Differs
<1>3. \E x \in S : \A y \in S : x <= y
  BY <1>2, NatMin, Zenon
<1>4. Min(S) \in S
  BY <1>3 DEF Min
<1>. QED
  BY <1>1, <1>2, <1>4, Zenon

\* What is stored of the heights that differ goes; on one chain there are none.
LEMMA RollbackStep ==
    ASSUME HandlerInv, Rollback
    PROVE  HandlerInv'
<1>1. /\ pc = "idle" /\ Differs # {} /\ blocks' = SubSeq(blocks, 1, Min(Differs) - 1)
      /\ db' = Before(db, Min(Differs)) /\ total' = Cardinality(db'["registers"])
      /\ UNCHANGED <<chain, pc, batch, parsed, stopping, m, faults>>
  BY Zenon DEF Rollback
<1>2. PICK T : T = Seq(TxIDs)
  OBVIOUS
<1>3. blocks \in Seq(T) /\ Store(db) /\ OwnersInv(m, db)
  BY <1>2, Zenon DEF HandlerInv, HandlerType
<1>4. PICK n \in Nat : n = Min(Differs) - 1 /\ n <= Len(blocks)
  BY <1>1, <1>2, <1>3, MinDiffers
<1>5. blocks' \in Seq(T)
  BY <1>1, <1>3, <1>4
<1>6. DOMAIN db' = Tables /\ \A t \in Tables : db'[t] \subseteq db[t]
  BY <1>1, Zenon DEF Before
<1>7. Store(db')
  BY <1>3, <1>6, Zenon DEF Store
<1>8. OwnersInv(m, db')
  <2>1. db'["registers"] \subseteq db["registers"]
    BY <1>6, Zenon DEF Tables
  <2>. QED
    BY <1>3, <2>1, Zenon DEF OwnersInv
<1>9. HandlerType'
  BY <1>1, <1>2, <1>5, <1>7, Zenon DEF HandlerInv, HandlerType
<1>10. StatusInv' /\ OrderInv'
  BY <1>1, Zenon DEF StatusInv, OrderInv
<1>11. "reorg" \in Range(faults)
  <2>1. SUFFICES ASSUME "reorg" \notin Range(faults) PROVE Differs = {}
    BY <1>1, Zenon
  <2>2. ChainInv
    BY <2>1, Zenon DEF HandlerInv, OneChain
  <2>3. Len(blocks) \in Nat /\ Len(chain) \in Nat /\ Len(batch) \in Nat
        /\ DOMAIN blocks = 1 .. Len(blocks)
    BY DEF HandlerInv, HandlerType
  <2>. QED
    BY <2>2, <2>3 DEF ChainInv, Differs
<1>. QED
  BY <1>1, <1>8, <1>9, <1>10, <1>11, Zenon DEF HandlerInv, OneChain
------------------------------------------------------------------------------
(***************************************************************************)
(* The results                                                             *)
(***************************************************************************)

\* The invariant holds in every state, for every set of transactions, every
\* family of chains and batch size, and every sequence of kills, crashes,
\* failing statements and lookups, stops and reorganisations.
THEOREM HandlerInvariant == Spec => []HandlerInv
<1>1. ASSUME HandlerInv, [Next]_vars PROVE HandlerInv'
  <2>1. CASE ParseLongestChain
    BY <1>1, <2>1, ParseStep
  <2>2. CASE HandleBlock \/ LookupFails
    BY <1>1, <2>2, HandleBlockStep, Zenon
  <2>3. CASE Stop
    BY <1>1, <2>3, StopStep
  <2>4. CASE Persist
    BY <1>1, <2>4, PersistStep
  <2>5. CASE PersistFails
    BY <1>1, <2>5, PersistFailsStep
  <2>6. CASE Commit
    BY <1>1, <2>6, CommitStep
  <2>7. CASE Crash
    BY <1>1, <2>7, CrashStep
  <2>8. CASE Reorg
    BY <1>1, <2>8, ReorgStep
  <2>9. CASE Rollback
    BY <1>1, <2>9, RollbackStep
  <2>10. CASE UNCHANGED vars
    <3>1. UNCHANGED <<chain, blocks, pc, batch, parsed, stopping, m, db, rdb, total, faults>>
      BY <2>10, Zenon DEF vars
    <3>2. HandlerType' /\ StatusInv'
      BY <1>1, <3>1, Zenon DEF HandlerInv, HandlerType, StatusInv
    <3>3. \A t : Stored(t) => Stored(t)'
      BY <3>1, Zenon DEF Stored
    <3>4. OrderInv'
      BY <1>1, <3>1, <3>3, Zenon DEF HandlerInv, OrderInv
    <3>5. OneChain'
      BY <1>1, <3>1, Zenon DEF HandlerInv, OneChain, ChainInv
    <3>. QED
      BY <1>1, <3>1, <3>2, <3>4, <3>5, Zenon DEF HandlerInv
  <2>. QED
    BY <1>1, <2>1, <2>2, <2>3, <2>4, <2>5, <2>6, <2>7, <2>8, <2>9, <2>10, Zenon DEF Next
<1>. QED
  BY <1>1, HandlerInit, PTL DEF Spec

\* A user address owns at most one stored register, whatever is interrupted,
\* repeated or rolled back (resolveRegisterInvalidFlags).
THEOREM OneOwner == Spec => []OneIndexerPerOwner
<1>1. HandlerInv => OneIndexerPerOwner
  BY Zenon DEF HandlerInv, OwnersInv, OneIndexerPerOwner
<1>. QED
  BY <1>1, HandlerInvariant, PTL

\* total_indexers is the number of stored registers whenever the loop is idle
\* with nothing staged (persistPreparedStakeWrites, InitIndexerStatusCache).
THEOREM StatusIsCount == Spec => []StatusCountsRegisters
<1>1. HandlerInv => StatusCountsRegisters
  <2>1. WaitForUpsert["registers"] = <<>>
    BY DEF WaitForUpsert, Tables
  <2>. QED
    BY <2>1, Zenon DEF HandlerInv, StatusInv, StatusCountsRegisters, Settled
<1>. QED
  BY <1>1, HandlerInvariant, PTL

\* On one chain, the stored proofs and bindings name a stored indexer
\* (persistPreparedStakeWrites stores the registers first).
THEOREM RowsReferToIndexers == Spec => []RowsHaveIndexer
<1>1. HandlerInv => RowsHaveIndexer
  <2>1. ASSUME HandlerInv, "reorg" \notin Range(faults) PROVE RowsHaveIndexer
    BY <2>1, FitsIs, Zenon DEF HandlerInv, HandlerType, OneChain, Linked
  <2>2. ASSUME "reorg" \in Range(faults) PROVE RowsHaveIndexer
    BY <2>2, Zenon DEF RowsHaveIndexer
  <2>. QED
    BY <2>1, <2>2
<1>. QED
  BY <1>1, HandlerInvariant, PTL

\* On one chain, an event stored as valid has its row
\* (persistPreparedStakeWrites stores the events last).
THEOREM ValidEventsHaveRows == Spec => []ValidEventHasRow
<1>1. HandlerInv => ValidEventHasRow
  <2>1. ASSUME HandlerInv, "reorg" \notin Range(faults) PROVE ValidEventHasRow
    BY <2>1, FitsIs DEF HandlerInv, HandlerType, OneChain, Linked
  <2>2. ASSUME "reorg" \in Range(faults) PROVE ValidEventHasRow
    BY <2>2 DEF ValidEventHasRow
  <2>. QED
    BY <2>1, <2>2
<1>. QED
  BY <1>1, HandlerInvariant, PTL
==============================================================================
