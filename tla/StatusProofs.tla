---------------------------- MODULE StatusProofs ----------------------------
(***************************************************************************)
(* Lemmas about the pure operators of Status and Inventory, for every      *)
(* value of their constants.                                               *)
(***************************************************************************)
EXTENDS Status, TLAPS

\* What every stored history satisfies: sequence numbers strictly decrease
\* from the newest entry on, and the bound is kept.
GoodHistory(h) ==
    /\ h \in Seq(HistoryEntry)
    /\ Len(h) <= MaxHistoryEntries
    /\ \A i, j \in 1..Len(h) : i < j => h[i].sequence > h[j].sequence

\* The head of a good history carries its greatest sequence number, so
\* nextSequence is above all of them.
LEMMA NextSequenceAbove ==
    ASSUME NEW h, GoodHistory(h)
    PROVE  /\ nextSequence(h) \in Nat
           /\ \A i \in 1..Len(h) : nextSequence(h) > h[i].sequence
<1> DEFINE S == {0} \cup {h[i].sequence : i \in 1..Len(h)}
<1>1. \A i \in 1..Len(h) : h[i].sequence \in Nat
  <2>1. \A i \in 1..Len(h) : h[i] \in HistoryEntry
    BY DEF GoodHistory
  <2> QED BY <2>1 DEF HistoryEntry
<1>2. \E x \in S : x \in Nat /\ \A y \in S : y \in Nat /\ x >= y
  <2>1. CASE Len(h) = 0
    BY <2>1
  <2>2. CASE Len(h) # 0
    <3>1. 1 \in 1..Len(h) /\ Len(h) \in Nat
      BY <2>2 DEF GoodHistory
    <3>2. \A i \in 1..Len(h) : h[1].sequence >= h[i].sequence
      BY <1>1, <3>1 DEF GoodHistory
    <3> QED BY <1>1, <3>1, <3>2
  <2> QED BY <2>1, <2>2
<1>3. Max(S) \in S /\ \A y \in S : Max(S) >= y
  BY <1>2 DEF Max
<1>4. nextSequence(h) = Max(S) + 1
  BY DEF nextSequence
<1> HIDE DEF S
<1>5. \A y \in S : y \in Nat
  BY <1>2
<1>6. \A i \in 1..Len(h) : h[i].sequence \in S
  BY DEF S
<1> QED BY <1>3, <1>4, <1>5, <1>6

\* Recording an entry keeps the history good: the new entry is above all the
\* others, and the trimmed one is the oldest.
LEMMA RecordHistoryGood ==
    ASSUME NEW h, GoodHistory(h), NEW ok \in BOOLEAN
    PROVE  GoodHistory(recordHistoryEntry(h, ok))
<1> DEFINE entry == [sequence |-> nextSequence(h), ok |-> ok]
           longer == <<entry>> \o h
<1>1. entry \in HistoryEntry
  BY NextSequenceAbove DEF HistoryEntry
<1>2. /\ h \in Seq(HistoryEntry) /\ Len(h) \in Nat
      /\ \A i \in 1..Len(h) : h[i] \in HistoryEntry /\ h[i].sequence \in Nat
  <2>1. h \in Seq(HistoryEntry) /\ Len(h) \in Nat
    BY DEF GoodHistory
  <2>2. \A i \in 1..Len(h) : h[i] \in HistoryEntry
    BY <2>1
  <2> QED BY <2>1, <2>2 DEF HistoryEntry
<1>3. /\ longer \in Seq(HistoryEntry) /\ Len(longer) = Len(h) + 1
      /\ longer[1] = entry
      /\ \A i \in 2..(Len(h) + 1) : longer[i] = h[i - 1]
  BY <1>1, <1>2
<1>4. entry.sequence = nextSequence(h)
  OBVIOUS
<1> HIDE DEF longer, entry
<1>5. \A i, j \in 1..Len(longer) : i < j => longer[i].sequence > longer[j].sequence
  <2> SUFFICES ASSUME NEW i \in 1..(Len(h) + 1), NEW j \in 1..(Len(h) + 1), i < j
               PROVE  longer[i].sequence > longer[j].sequence
    BY <1>3
  <2>1. j - 1 \in 1..Len(h) /\ longer[j] = h[j - 1]
    BY <1>2, <1>3
  <2>2. CASE i = 1
    BY <1>2, <1>3, <1>4, <2>1, <2>2, NextSequenceAbove
  <2>3. CASE i # 1
    <3>1. i - 1 \in 1..Len(h) /\ i - 1 < j - 1 /\ longer[i] = h[i - 1]
      BY <1>2, <1>3, <2>3
    <3> QED BY <2>1, <3>1 DEF GoodHistory
  <2> QED BY <2>2, <2>3
<1>6. MaxHistoryEntries \in Nat /\ MaxHistoryEntries >= 1
  BY HistoryBound
<1>7. CASE Len(longer) > MaxHistoryEntries
  <2> DEFINE short == SubSeq(longer, 1, MaxHistoryEntries)
  <2>1. /\ short \in Seq(HistoryEntry) /\ Len(short) = MaxHistoryEntries
        /\ \A i \in 1..MaxHistoryEntries : short[i] = longer[i]
    BY <1>2, <1>3, <1>6, <1>7
  <2>2. recordHistoryEntry(h, ok) = short
    BY <1>7 DEF recordHistoryEntry, longer, entry
  <2> HIDE DEF short
  <2>3. \A i \in 1..MaxHistoryEntries : i \in 1..Len(longer)
    BY <1>2, <1>3, <1>6, <1>7
  <2> QED BY <1>5, <1>6, <2>1, <2>2, <2>3 DEF GoodHistory
<1>8. CASE ~(Len(longer) > MaxHistoryEntries)
  <2>1. recordHistoryEntry(h, ok) = longer
    BY <1>8 DEF recordHistoryEntry, longer, entry
  <2> QED BY <1>2, <1>3, <1>5, <1>6, <1>8, <2>1 DEF GoodHistory
<1> QED BY <1>7, <1>8

\* The history of a new release is good.
LEMMA EmptyHistoryGood == GoodHistory(<<>>)
BY HistoryBound DEF GoodHistory

\* Every condition setter returns well-formed conditions.
LEMMA MarkTypes ==
    ASSUME NEW c \in Conditions, NEW reason \in Reasons
    PROVE  /\ MarkReconciling(c) \in Conditions
           /\ MarkStalled(c, reason) \in Conditions
           /\ MarkReady(c) \in Conditions
           /\ MarkSuspended(c) \in Conditions
           /\ MarkNotReady(c, reason) \in Conditions
           /\ MarkDrifted(c) \in Conditions
           /\ ClearDrifted(c) \in Conditions
           /\ MarkModuleResolved(c) \in Conditions
BY DEF Conditions, Reasons, MarkReconciling, MarkStalled, MarkReady, MarkSuspended,
       MarkNotReady, MarkDrifted, ClearDrifted, MarkModuleResolved

\* ComputeStaleSet returns entries of the previous inventory, and none whose
\* object the current one names.
LEMMA StaleSetDisjoint ==
    ASSUME NEW previous, NEW current
    PROVE  /\ ComputeStaleSet(previous, current) \subseteq previous
           /\ \A s \in ComputeStaleSet(previous, current), c \in current : s.id # c.id
BY DEF ComputeStaleSet, K8sIdentityEqual

=============================================================================
