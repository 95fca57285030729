---------------------------- MODULE CommissionView ----------------------------
(***************************************************************************)
(* The commission of one indexer as three readers see it.  The fast path   *)
(* accepts commission_rate transactions and keeps a latest view; the       *)
(* snapshot and the pending consumer replay the accepted events at heights *)
(* of their own and read a ratio for every height that pays a reward.  An  *)
(* update takes effect CommissionActivationBlocks after its block; until   *)
(* then each view holds it as its one delayed ratio.                       *)
(***************************************************************************)
EXTENDS Naturals

CONSTANTS Activation,   \* CommissionActivationBlocks
          LagOf,        \* consumer -> how far it stays below the committed tip
          MaxHeight

Consumers == {"snapshot", "pending"}

ASSUME ViewAssumption ==
    /\ Activation \in Nat \ {0} /\ MaxHeight \in Nat
    /\ LagOf \in [Consumers -> Nat]

VARIABLES tip,       \* the last committed height
          accepted,  \* heights of the accepted updates; the ratio is the height
          latest,    \* Redis: the shared delayed ratio and index_ratio
          cursor,    \* the last height each consumer has finished
          view,      \* Redis: each consumer's delayed and snapshot ratio
          used       \* the ratio each consumer read for a height

viewVars == <<tip, accepted, latest, cursor, view, used>>

Heights == 1 .. MaxHeight
Register == 0                  \* the ratio of stake_indexer_registers
Unset == MaxHeight + 1         \* no such hash field; no ratio was read
NoView == [delayed |-> Unset, ratio |-> Unset]

effective(d) == d + Activation
------------------------------------------------------------------------------
\* stageCommissionRatioForHeight: a delayed ratio in effect becomes the ratio.
StageLate(v, h) ==
    IF v.delayed # Unset /\ effective(v.delayed) < h
    THEN [v EXCEPT !.ratio = v.delayed] ELSE v

stageCommissionRatioForHeight(v, h) ==
    IF v.delayed # Unset /\ effective(v.delayed) <= h
    THEN [v EXCEPT !.ratio = v.delayed] ELSE v

\* handleUpdateRatioTx, for any of the views.
OverwriteDelayed(v, h) == [v EXCEPT !.delayed = h]

handleUpdateRatioTx(v, h) == [stageCommissionRatioForHeight(v, h) EXCEPT !.delayed = h]

hasUneffectiveDelayedCommissionRatio(h) ==
    latest.delayed # Unset /\ effective(latest.delayed) > h

\* Of one block at most one update of an indexer is valid.
ListFIP101InscriptionEventsByHeight(h) == accepted \cap {h}

ApplyFIP101EventsForSnapshot(v, h) ==
    IF ListFIP101InscriptionEventsByHeight(h) # {} THEN handleUpdateRatioTx(v, h) ELSE v

\* getIndexerInfoKey, getIndexerInfoDelayedCommissionKey: the keys a pending
\* manager falls back to are its own, and nothing writes them.
SharedInfoOf(c) == latest

InfoOf(c) == IF c = "pending" THEN NoView ELSE latest

getIndexerLatestRatio(info, h) ==
    LET v == stageCommissionRatioForHeight(info, h)
    IN  IF v.ratio # Unset THEN v.ratio ELSE Register

getIndexerSnapshotRatio(v, info, h) ==
    LET s == stageCommissionRatioForHeight(v, h)
    IN  IF s.ratio # Unset THEN s.ratio ELSE getIndexerLatestRatio(info, h)
------------------------------------------------------------------------------
ViewInit ==
    /\ tip = 0 /\ accepted = {} /\ latest = NoView
    /\ cursor = [c \in Consumers |-> 0]
    /\ view = [c \in Consumers |-> NoView]
    /\ used = [c \in Consumers |-> [h \in Heights |-> Unset]]

\* The fast path commits a block, with or without an update by the owner.
CommitBlock ==
    /\ tip < MaxHeight
    /\ tip' = tip + 1
    /\ \E update \in BOOLEAN :
         IF update /\ ~ hasUneffectiveDelayedCommissionRatio(tip + 1)
         THEN /\ accepted' = accepted \cup {tip + 1}
              /\ latest' = handleUpdateRatioTx(latest, tip + 1)
         ELSE UNCHANGED <<accepted, latest>>
    /\ UNCHANGED <<cursor, view, used>>

\* A consumer applies the events of its next height, reads the ratio when the
\* height pays a reward to the indexer, and flushes; the cursor is written
\* last, and a process that dies before that consumes the height again.  The
\* snapshot consumer's fallback stages index_ratio for the fast path, too.
Consume(c) ==
    LET h == cursor[c] + 1
        applied == ApplyFIP101EventsForSnapshot(view[c], h)
        staged == stageCommissionRatioForHeight(applied, h)
    IN  /\ h + LagOf[c] <= tip
        /\ \E pays, advances \in BOOLEAN :
             /\ view' = [view EXCEPT ![c] = IF pays THEN staged ELSE applied]
             /\ used' = IF pays
                        THEN [used EXCEPT ![c][h] =
                                getIndexerSnapshotRatio(applied, InfoOf(c), h)]
                        ELSE used
             /\ latest' = IF pays /\ staged.ratio = Unset /\ c = "snapshot"
                          THEN stageCommissionRatioForHeight(latest, h) ELSE latest
             /\ cursor' = IF advances THEN [cursor EXCEPT ![c] = h] ELSE cursor
        /\ UNCHANGED <<tip, accepted>>

ViewNext == CommitBlock \/ \E c \in Consumers : Consume(c)

ViewSpec == ViewInit /\ [][ViewNext]_viewVars
------------------------------------------------------------------------------
\* Ratio r is in force at height h: it is that of the last update that has
\* taken effect, or the registered one when there is none.
InForce(r, h) ==
    /\ r = Register \/ (r \in accepted /\ effective(r) <= h)
    /\ \A a \in accepted : effective(a) <= h => a <= r

ReadInForce(c, h) == used[c][h] = Unset \/ InForce(used[c][h], h)

\* A view holds ratios of accepted updates only, and no consumer is past the
\* committed tip.
TypeOK ==
    /\ tip \in 0 .. MaxHeight /\ accepted \subseteq 1 .. tip
    /\ \A v \in {latest, view["snapshot"], view["pending"]} :
         v.delayed \in accepted \cup {Unset} /\ v.ratio \in accepted \cup {Unset}
    /\ \A c \in Consumers : cursor[c] <= tip
    /\ used \in [Consumers -> [Heights -> 0 .. Unset]]

\* What getIndexerLatestRatio would return at the committed tip is the ratio in
\* force there: no accepted update is overwritten before it counts.
LatestRatioInForce == InForce(getIndexerLatestRatio(latest, tip), tip)

\* The pending consumer reads the ratio in force at the height it processes,
\* however far the fast path has moved on (getIndexerSnapshotRatio in pending
\* mode falls back to keys of its own).
PendingRatioInForce ==
    \A h \in Heights : ReadInForce("pending", h)

\* So does the snapshot consumer, from the height on at which the first update
\* of the indexer takes effect.
SettledRatioInForce ==
    \A h \in Heights :
        (\E a \in accepted : effective(a) <= h) => ReadInForce("snapshot", h)

\* The ratio of a reward is read from the snapshot view for the processing
\* height (getIndexerSnapshotRatio), not from what the fast path has seen since.
SnapshotRatioInForce ==
    \A h \in Heights : ReadInForce("snapshot", h)
==============================================================================
