--------------------------- MODULE BlackboardProofs ---------------------------
(***************************************************************************)
(* Proofs about Blackboard: its invariants, and that it implements         *)
(* RunJournal, for any keys, values, runs and number of agents.            *)
(***************************************************************************)
EXTENDS Blackboard, FiniteSetTheorems, SequenceTheorems, WellFoundedInduction, TLAPS

-----------------------------------------------------------------------------
(* Positions of a sequence.                                                *)

(* A non-empty set of naturals has a least element.                        *)
LEMMA Least ==
    ASSUME NEW T \in SUBSET Nat, T # {}
    PROVE  \E x \in T : \A y \in T : x <= y
<1>1. PICK x \in T : \A y \in T : ~(<<y, x>> \in OpToRel(<, Nat))
  BY NatLessThanWellFounded, WFMin
<1>2. \A y \in T : ~(y < x)
  BY <1>1 DEF OpToRel
<1> QED
  BY <1>2

(* Highest picks the greatest of a non-empty set of positions.             *)
LEMMA HighestIs ==
    ASSUME NEW n \in Nat, NEW I \in SUBSET (1 .. n), I # {}
    PROVE  Highest(I) \in I /\ \A j \in I : j <= Highest(I)
<1> DEFINE T == {m \in Nat : \E i \in I : m = n - i}
<1>1. \A i \in I : n - i \in T
  OBVIOUS
<1>1a. T # {} /\ T \in SUBSET Nat
  BY <1>1
<1>2. PICK x \in T : \A y \in T : x <= y
  BY <1>1a, Least
<1>3. PICK i \in I : x = n - i
  OBVIOUS
<1>4. \A j \in I : j <= i
  <2> TAKE j \in I
  <2>1. n - j \in T
    BY <1>1
  <2> QED
    BY <2>1, <1>2, <1>3
<1> QED
  BY <1>3, <1>4 DEF Highest

(* f lists the positions of I, in order.                                   *)
Enumerates(f, m, I) ==
    /\ f \in [1 .. m -> I]
    /\ \A i, j \in 1 .. m : i < j => f[i] < f[j]
    /\ \A x \in I : \E i \in 1 .. m : f[i] = x

(* Any set of positions can be listed in order: were there a least length  *)
(* with a set that cannot, taking its last position away would give a      *)
(* shorter one.                                                            *)
LEMMA EnumerationExists ==
    ASSUME NEW n \in Nat, NEW I \in SUBSET (1 .. n)
    PROVE  \E m \in Nat : \E f : Enumerates(f, m, I)
<1> DEFINE Bad == {k \in Nat : \E J \in SUBSET (1 .. k) :
                                 ~ \E m \in Nat : \E f : Enumerates(f, m, J)}
<1> SUFFICES ASSUME Bad # {} PROVE FALSE
  OBVIOUS
<1>1. PICK k \in Bad : \A y \in Bad : k <= y
  <2>1. Bad \in SUBSET Nat
    OBVIOUS
  <2> QED
    BY <2>1, Least
<1>2. PICK J \in SUBSET (1 .. k) : ~ \E m \in Nat : \E f : Enumerates(f, m, J)
  BY <1>1
<1>3. CASE J = {}
  <2>1. Enumerates(<<>>, 0, J)
    BY <1>3 DEF Enumerates
  <2> QED
    BY <2>1, <1>2
<1>4. CASE J # {}
  <2>1. k \in Nat /\ k > 0
    <3>1. k \in Nat
      OBVIOUS
    <3>2. PICK x \in J : x \in 1 .. k
      BY <1>4
    <3> QED
      BY <3>1, <3>2
  <2>2. k - 1 \notin Bad
    BY <2>1, <1>1
  <2> DEFINE K == J \ {k}
  <2>3. K \in SUBSET (1 .. (k - 1))
    BY <2>1
  <2>4. PICK m \in Nat : \E f : Enumerates(f, m, K)
    BY <2>1, <2>2, <2>3
  <2>5. PICK f : Enumerates(f, m, K)
    BY <2>4
  <2>6. CASE k \notin J
    BY <2>6, <2>5, <1>2
  <2>7. CASE k \in J
    <3> DEFINE g == [i \in 1 .. (m + 1) |-> IF i = m + 1 THEN k ELSE f[i]]
    <3>1. f \in [1 .. m -> K] /\ K \subseteq J
      BY <2>5 DEF Enumerates
    <3>2. g \in [1 .. (m + 1) -> J]
      BY <3>1, <2>7
    <3>3. ASSUME NEW i \in 1 .. (m + 1), NEW j \in 1 .. (m + 1), i < j
          PROVE  g[i] < g[j]
      <4>1. i \in 1 .. m /\ g[i] = f[i]
        BY <3>3
      <4>2. CASE j = m + 1
        <5>1. f[i] \in 1 .. (k - 1)
          BY <4>1, <3>1, <2>3
        <5> QED
          BY <4>1, <4>2, <5>1, <2>1
      <4>3. CASE j # m + 1
        <5>1. j \in 1 .. m /\ g[j] = f[j]
          BY <4>3
        <5> QED
          BY <5>1, <4>1, <3>3, <2>5 DEF Enumerates
      <4> QED
        BY <4>2, <4>3
    <3>4. ASSUME NEW x \in J
          PROVE  \E i \in 1 .. (m + 1) : g[i] = x
      <4>1. CASE x = k
        BY <4>1
      <4>2. CASE x # k
        <5>1. PICK i \in 1 .. m : f[i] = x
          BY <4>2, <2>5 DEF Enumerates
        <5>2. i \in 1 .. (m + 1) /\ g[i] = x
          BY <5>1
        <5> QED
          BY <5>2
      <4> QED
        BY <4>1, <4>2
    <3>5. Enumerates(g, m + 1, J)
      BY <3>2, <3>3, <3>4 DEF Enumerates
    <3> QED
      BY <3>5, <1>2
  <2> QED
    BY <2>6, <2>7
<1> QED
  BY <1>3, <1>4

(* What Retain returns: the elements at the positions I, in their order.   *)
LEMMA RetainIs ==
    ASSUME NEW T, NEW s \in Seq(T), NEW I \in SUBSET (1 .. Len(s))
    PROVE  /\ Retain(s, I) \in Seq(T)
           /\ \E f : /\ Enumerates(f, Len(Retain(s, I)), I)
                     /\ \A i \in 1 .. Len(Retain(s, I)) : Retain(s, I)[i] = s[f[i]]
<1> DEFINE c == Cardinality(I)
<1>0. Len(s) \in Nat /\ s \in [1 .. Len(s) -> T]
  OBVIOUS
<1>1. PICK m \in Nat : \E f : Enumerates(f, m, I)
  BY <1>0, EnumerationExists
<1>2. PICK f : Enumerates(f, m, I)
  BY <1>1
<1>3. c = m
  <2>1. f \in [1 .. m -> I] /\ I \subseteq Int
    BY <1>2 DEF Enumerates
  <2>2. \A i, j \in 1 .. m : f[i] = f[j] => i = j
    <3> TAKE i, j \in 1 .. m
    <3>1. f[i] \in Int /\ f[j] \in Int
      BY <2>1
    <3>2. (i < j => f[i] < f[j]) /\ (j < i => f[j] < f[i])
      BY <1>2 DEF Enumerates
    <3> QED
      BY <3>1, <3>2
  <2>3. f \in Bijection(1 .. m, I)
    BY <2>1, <2>2, <1>2 DEF Enumerates, Bijection, Injection, Surjection, IsInjective
  <2> QED
    BY <2>3, FS_CountingElements DEF ExistsBijection
<1>4. Enumerates(Positions(I), c, I)
  <2>1. \E g \in [1 .. Cardinality(I) -> I] :
            /\ \A i, j \in 1 .. Cardinality(I) : i < j => g[i] < g[j]
            /\ \A x \in I : \E i \in 1 .. Cardinality(I) : g[i] = x
    BY <1>2, <1>3 DEF Enumerates
  <2> QED
    BY <2>1 DEF Enumerates, Positions
<1>5. \A i \in 1 .. c : Positions(I)[i] \in 1 .. Len(s) /\ s[Positions(I)[i]] \in T
  BY <1>4, <1>0 DEF Enumerates
<1>6. Retain(s, I) \in [1 .. c -> T]
  BY <1>5 DEF Retain
<1>7. c \in Nat
  BY <1>3
<1>8. Retain(s, I) \in Seq(T) /\ Len(Retain(s, I)) = c
  BY <1>6, <1>7
<1>9. \A i \in 1 .. c : Retain(s, I)[i] = s[Positions(I)[i]]
  BY DEF Retain
<1> QED
  BY <1>4, <1>8, <1>9

-----------------------------------------------------------------------------
(* Chains.                                                                 *)

Scopes(c) == {c.versions[i].scope : i \in 1 .. Len(c.versions)}

(* Only the top version's entry is the one in data.                        *)
LiveTop(vs) == \A i \in 1 .. Len(vs) : vs[i].entry = Live <=> i = Len(vs)

(* ChainCompact, of one chain.                                             *)
Good(c) ==
    /\ c \in Chain
    /\ LiveTop(c.versions)
    /\ \A i \in 1 .. Len(c.versions) : c.versions[i].scope \in Run
    /\ \A i, j \in 1 .. Len(c.versions) :
          c.versions[i].scope = c.versions[j].scope => i = j

(* A key without a chain has a good one, of no run.                        *)
LEMMA NoChainGood == Good(NoChain) /\ Scopes(NoChain) = {}
  BY DEF Good, Chain, NoChain, LiveTop, Scopes, Entry

(* The position below which a compacted chain is confirmed.                *)
Low(vs) ==
    LET confirmed == {i \in DOMAIN vs : vs[i].scope = NoRun}
    IN  IF confirmed = {} THEN 0 ELSE Highest(confirmed)

(* Low(c) is the position of the highest confirmed version, or zero.       *)
LEMMA LowIs ==
    ASSUME NEW vs \in Seq(Version)
    PROVE  /\ Low(vs) \in 0 .. Len(vs)
           /\ Low(vs) > 0 => vs[Low(vs)].scope = NoRun
           /\ \A i \in Low(vs) + 1 .. Len(vs) : vs[i].scope # NoRun
<1> DEFINE confirmed == {i \in DOMAIN vs : vs[i].scope = NoRun}
<1>1. Len(vs) \in Nat /\ DOMAIN vs = 1 .. Len(vs)
  OBVIOUS
<1>2. CASE confirmed = {}
  BY <1>1, <1>2 DEF Low
<1>3. CASE confirmed # {}
  <2>1. Highest(confirmed) \in confirmed /\ \A j \in confirmed : j <= Highest(confirmed)
    BY <1>1, <1>3, HighestIs
  <2>2. Low(vs) = Highest(confirmed)
    BY <1>3 DEF Low
  <2>3. Low(vs) \in 1 .. Len(vs) /\ vs[Low(vs)].scope = NoRun
    BY <1>1, <2>1, <2>2
  <2>4. ASSUME NEW i \in Low(vs) + 1 .. Len(vs) PROVE vs[i].scope # NoRun
    <3>1. i \in 1 .. Len(vs) /\ ~(i <= Low(vs))
      BY <2>3, <1>1
    <3> QED
      BY <3>1, <2>1, <2>2, <1>1
  <2> QED
    BY <1>1, <2>3, <2>4
<1> QED
  BY <1>2, <1>3

(* Chain::compact in terms of Low.                                         *)
LEMMA CompactIs ==
    ASSUME NEW c
    PROVE  Compact(c) = IF Low(c.versions) = Len(c.versions) THEN NoChain
                        ELSE [base |-> IF Low(c.versions) = 0 THEN c.base
                                       ELSE c.versions[Low(c.versions)].entry,
                              versions |-> Retain(c.versions, Kept(c.versions, Low(c.versions)))]
  BY DEF Compact, Low

(* Compacting leaves a good chain whose versions were there before.        *)
LEMMA CompactGood ==
    ASSUME NEW c \in Chain, LiveTop(c.versions)
    PROVE  Good(Compact(c)) /\ Scopes(Compact(c)) \subseteq Scopes(c)
<1> DEFINE vs == c.versions
           low == Low(vs)
           n == Len(vs)
           I == Kept(vs, low)
           ws == Retain(vs, I)
<1>1. vs \in Seq(Version) /\ c.base \in Entry /\ n \in Nat
  BY DEF Chain
<1>2. low \in 0 .. n /\ \A i \in low + 1 .. n : vs[i].scope # NoRun
  BY <1>1, LowIs
<1>3. CASE low = n
  <2>1. Compact(c) = NoChain
    BY <1>3, CompactIs
  <2> QED
    BY <2>1, NoChainGood
<1>4. CASE low # n
  <2>1. I \in SUBSET (1 .. n)
    BY <1>2 DEF Kept
  <2>2. ws \in Seq(Version)
    BY <1>1, <2>1, RetainIs
  <2>3. PICK f : /\ Enumerates(f, Len(ws), I)
                 /\ \A i \in 1 .. Len(ws) : ws[i] = vs[f[i]]
    BY <1>1, <2>1, RetainIs
  <2> DEFINE m == Len(ws)
  <2>4. m \in Nat
    BY <2>2
  <2>5. \A i \in 1 .. m : f[i] \in I /\ f[i] \in 1 .. n
    BY <2>3, <2>1 DEF Enumerates
  <2>6. \A i, j \in 1 .. m : i < j => f[i] < f[j]
    BY <2>3 DEF Enumerates
  <2>7. n \in I
    BY <1>2, <1>4, <1>1 DEF Kept
  <2>8. f[m] = n /\ m > 0
    <3>1. PICK i \in 1 .. m : f[i] = n
      BY <2>7, <2>3 DEF Enumerates
    <3>2. m \in 1 .. m /\ (i < m => n < f[m])
      BY <3>1, <2>6, <2>4
    <3> QED
      BY <3>1, <3>2, <2>5, <2>4, <1>1
  <2>9. \A i \in 1 .. m : ws[i].entry = Live <=> i = m
    <3> TAKE i \in 1 .. m
    <3>1. ws[i].entry = Live <=> f[i] = n
      BY <2>3, <2>5 DEF LiveTop
    <3>2. i < m => f[i] < f[m]
      BY <2>6, <2>4
    <3> QED
      BY <3>1, <3>2, <2>8, <2>5, <2>4, <1>1
  <2>10. \A i \in 1 .. m : ws[i].scope \in Run
    <3> TAKE i \in 1 .. m
    <3>1. f[i] \in low + 1 .. n
      BY <2>5 DEF Kept
    <3>2. ws[i] = vs[f[i]] /\ vs[f[i]] \in Version
      BY <2>3, <2>5, <1>1
    <3> QED
      BY <3>1, <3>2, <1>2 DEF Version, Scope
  <2>11. \A i, j \in 1 .. m : ws[i].scope = ws[j].scope => i = j
    <3> SUFFICES ASSUME NEW i \in 1 .. m, NEW j \in 1 .. m, i < j
                 PROVE  ws[i].scope # ws[j].scope
      BY <2>4
    <3>1. f[i] < f[j] /\ f[i] \in I /\ f[j] \in 1 .. n
      BY <2>5, <2>6
    <3>1a. f[i] \in 1 .. n /\ f[j] \in f[i] + 1 .. n
      BY <3>1, <2>5, <1>1
    <3>2. vs[f[j]].scope # vs[f[i]].scope
      BY <3>1, <3>1a DEF Kept
    <3> QED
      BY <3>2, <2>3
  <2>12. (IF low = 0 THEN c.base ELSE vs[low].entry) \in Entry
    <3>1. CASE low = 0
      BY <3>1, <1>1
    <3>2. CASE low # 0
      <4>1. low \in 1 .. n /\ low # n
        BY <3>2, <1>2, <1>4
      <4>2. vs[low] \in Version /\ vs[low].entry # Live
        BY <4>1, <1>1 DEF LiveTop
      <4> QED
        BY <4>2, <3>2 DEF Version
    <3> QED
      BY <3>1, <3>2
  <2>13. Compact(c) = [base |-> IF low = 0 THEN c.base ELSE vs[low].entry, versions |-> ws]
    BY <1>4, CompactIs
  <2>14. Good(Compact(c))
    BY <2>2, <2>9, <2>10, <2>11, <2>12, <2>13 DEF Good, Chain, LiveTop
  <2>15. Scopes(Compact(c)) \subseteq Scopes(c)
    BY <2>13, <2>3, <2>5 DEF Scopes
  <2> QED
    BY <2>14, <2>15
<1> QED
  BY <1>3, <1>4

(* The fields of a good chain have their types.                            *)
LEMMA GoodNoChain ==
    ASSUME NEW c, Good(c)
    PROVE  /\ c.versions \in Seq(Version) /\ c.base \in Entry
           /\ Len(c.versions) \in Nat /\ DOMAIN c.versions = 1 .. Len(c.versions)
           /\ c.versions # <<>> => Len(c.versions) \in 1 .. Len(c.versions)
  BY DEF Good, Chain

(* The entry of a version below the top is a copy, not a reference to data. *)
LEMMA PushLiveTop ==
    ASSUME NEW c, Good(c), c.versions # <<>>, NEW s \in Scope, NEW prev \in Entry
    PROVE  /\ Push(c, s, prev) \in Chain
           /\ LiveTop(Push(c, s, prev).versions)
           /\ Len(Push(c, s, prev).versions) = Len(c.versions) + 1
           /\ Push(c, s, prev).versions[Len(c.versions) + 1] = [scope |-> s, entry |-> Live]
           /\ \A i \in 1 .. Len(c.versions) :
                 Push(c, s, prev).versions[i] =
                     IF i = Len(c.versions) THEN [scope |-> c.versions[i].scope, entry |-> prev]
                     ELSE c.versions[i]
<1> DEFINE vs == c.versions
           n == Len(vs)
           us == [vs EXCEPT ![n].entry = prev]
           new == [scope |-> s, entry |-> Live]
<1>1. vs \in Seq(Version) /\ c.base \in Entry /\ n \in Nat /\ n \in 1 .. n
  BY GoodNoChain
<1>1a. vs[n] \in Version
  BY <1>1, ElementOfSeq
<1>2. new \in Version /\ [scope |-> vs[n].scope, entry |-> prev] \in Version
  BY <1>1a DEF Version
<1>3. [vs[n] EXCEPT !.entry = prev] = [scope |-> vs[n].scope, entry |-> prev]
  BY <1>1a DEF Version
<1>4. us = [vs EXCEPT ![n] = [scope |-> vs[n].scope, entry |-> prev]]
  BY <1>1, <1>3
<1>5. us \in Seq(Version) /\ Len(us) = n
      /\ \A i \in 1 .. n : us[i] = IF i = n THEN [scope |-> vs[n].scope, entry |-> prev] ELSE vs[i]
  <2> HIDE DEF us
  <2> QED
    BY <1>1, <1>2, <1>4, ExceptSeq
<1>6. Append(us, new) \in Seq(Version) /\ Len(Append(us, new)) = n + 1
      /\ Append(us, new)[n + 1] = new /\ \A i \in 1 .. n : Append(us, new)[i] = us[i]
  <2> HIDE DEF us, new
  <2> QED
    BY <1>1, <1>2, <1>5
<1>7. Push(c, s, prev) = [base |-> c.base, versions |-> Append(us, new)]
  BY DEF Push
<1>8. ASSUME NEW i \in 1 .. n + 1
      PROVE  Append(us, new)[i].entry = Live <=> i = n + 1
  <2>1. CASE i = n + 1
    BY <2>1, <1>6
  <2>2. CASE i = n
    <3>1. Append(us, new)[i].entry = prev
      BY <2>2, <1>1, <1>5, <1>6
    <3>2. prev # Live
      BY BlackboardAssumption DEF Entry
    <3> QED
      BY <3>1, <3>2, <2>2, <1>1
  <2>3. CASE i \in 1 .. n /\ i # n
    <3>1. Append(us, new)[i] = vs[i]
      BY <2>3, <1>5, <1>6
    <3>2. vs[i].entry # Live
      BY <2>3 DEF Good, LiveTop
    <3> QED
      BY <3>1, <3>2, <2>3, <1>1
  <2> QED
    BY <2>1, <2>2, <2>3, <1>1
<1> HIDE DEF us, new
<1> QED
  BY <1>1, <1>5, <1>6, <1>7, <1>8 DEF Chain, LiveTop, new

(* Inner::record keeps a chain good; the only new version is its own.      *)
LEMMA RecordGood ==
    ASSUME NEW c, Good(c), NEW s \in Scope, NEW prev \in Entry
    PROVE  /\ Good(Record(c, s, prev))
           /\ Scopes(Record(c, s, prev)) \subseteq Scopes(c) \cup {s}
<1>1. CASE ~Opens(c, s)
  BY <1>1 DEF Record
<1>2. CASE Opens(c, s) /\ c.versions = <<>>
  <2> DEFINE new == [scope |-> s, entry |-> Live]
  <2>1. s \in Run /\ new \in Version
    BY <1>2 DEF Opens, Scope, Version
  <2>2. Record(c, s, prev) = [base |-> prev, versions |-> <<new>>]
    BY <1>2 DEF Record
  <2>3. <<new>> \in Seq(Version) /\ Len(<<new>>) = 1 /\ <<new>>[1] = new
    BY <2>1
  <2> QED
    BY <2>1, <2>2, <2>3 DEF Good, Chain, LiveTop, Scopes
<1>3. CASE Opens(c, s) /\ c.versions # <<>>
  <2> DEFINE p == Push(c, s, prev)
             n == Len(c.versions)
  <2>1. Record(c, s, prev) = Compact(p)
    BY <1>3 DEF Record
  <2>2. p \in Chain /\ LiveTop(p.versions) /\ Len(p.versions) = n + 1
        /\ p.versions[n + 1].scope = s
        /\ \A i \in 1 .. n : p.versions[i].scope = c.versions[i].scope
    <3> HIDE DEF p
    <3>1. \A i \in 1 .. n : p.versions[i] =
             IF i = n THEN [scope |-> c.versions[i].scope, entry |-> prev] ELSE c.versions[i]
      BY <1>3, PushLiveTop DEF p
    <3>2. p.versions[n + 1] = [scope |-> s, entry |-> Live]
      BY <1>3, PushLiveTop DEF p
    <3>3. p \in Chain /\ LiveTop(p.versions) /\ Len(p.versions) = n + 1
      BY <1>3, PushLiveTop DEF p
    <3>4. ASSUME NEW i \in 1 .. n PROVE p.versions[i].scope = c.versions[i].scope
      <4>1. CASE i = n
        <5>1. p.versions[i] = [scope |-> c.versions[i].scope, entry |-> prev]
          BY <4>1, <3>1
        <5> QED
          BY <5>1
      <4>2. CASE i # n
        BY <4>2, <3>1
      <4> QED
        BY <4>1, <4>2
    <3> QED
      BY <3>2, <3>3, <3>4
  <2> HIDE DEF p
  <2>3. Good(Compact(p)) /\ Scopes(Compact(p)) \subseteq Scopes(p)
    BY <2>2, CompactGood
  <2>4. Scopes(p) \subseteq Scopes(c) \cup {s}
    <3> SUFFICES ASSUME NEW i \in 1 .. n + 1
                 PROVE  p.versions[i].scope \in Scopes(c) \cup {s}
      BY <2>2 DEF Scopes
    <3>1. i \in 1 .. n \/ i = n + 1
      BY GoodNoChain
    <3> QED
      BY <3>1, <2>2 DEF Scopes
  <2> QED
    BY <2>1, <2>3, <2>4
<1> QED
  BY <1>1, <1>2, <1>3

(* What is left of a good chain without the versions of r.                 *)
LEMMA OthersAre ==
    ASSUME NEW c, Good(c), NEW r \in Run
    PROVE  LET vs == c.versions
               ws == Retain(vs, Others(c, r))
           IN  /\ ws \in Seq(Version)
               /\ \E f : /\ Enumerates(f, Len(ws), Others(c, r))
                         /\ \A i \in 1 .. Len(ws) :
                               /\ f[i] \in 1 .. Len(vs)
                               /\ ws[i] = vs[f[i]]
                               /\ ws[i].scope \in Scopes(c) \ {r}
                         /\ \A i, j \in 1 .. Len(ws) : i < j => f[i] < f[j]
               /\ \A i, j \in 1 .. Len(ws) : ws[i].scope = ws[j].scope => i = j
<1> DEFINE vs == c.versions
           I == Others(c, r)
           ws == Retain(vs, I)
<1>1. vs \in Seq(Version) /\ Len(vs) \in Nat
  BY GoodNoChain
<1>2. I \in SUBSET (1 .. Len(vs))
  BY <1>1 DEF Others
<1>3. ws \in Seq(Version)
  BY <1>1, <1>2, RetainIs
<1>4. PICK f : /\ Enumerates(f, Len(ws), I)
               /\ \A i \in 1 .. Len(ws) : ws[i] = vs[f[i]]
  BY <1>1, <1>2, RetainIs
<1> HIDE DEF ws
<1>5. \A i \in 1 .. Len(ws) : f[i] \in I
  BY <1>4 DEF Enumerates
<1>6. \A i \in 1 .. Len(ws) : /\ f[i] \in 1 .. Len(vs)
                              /\ ws[i].scope \in Scopes(c) \ {r}
  <2> TAKE i \in 1 .. Len(ws)
  <2>1. f[i] \in 1 .. Len(vs) /\ vs[f[i]].scope # r
    BY <1>5, <1>1 DEF Others
  <2>2. vs[f[i]].scope \in Scopes(c)
    BY <2>1 DEF Scopes
  <2> QED
    BY <2>1, <2>2, <1>4
<1>7. \A i, j \in 1 .. Len(ws) : i < j => f[i] < f[j]
  BY <1>4 DEF Enumerates
<1>8. ASSUME NEW i \in 1 .. Len(ws), NEW j \in 1 .. Len(ws), i < j
      PROVE  ws[i].scope # ws[j].scope
  <2>1. f[i] \in 1 .. Len(vs) /\ f[j] \in 1 .. Len(vs) /\ f[i] < f[j]
    BY <1>6, <1>7, <1>8
  <2>2. f[i] # f[j]
    BY <2>1
  <2>3. ws[i] = vs[f[i]] /\ ws[j] = vs[f[j]]
    BY <1>4
  <2> QED
    BY <2>1, <2>2, <2>3 DEF Good
<1>9. \A i, j \in 1 .. Len(ws) : ws[i].scope = ws[j].scope => i = j
  BY <1>8, <1>3
<1>10. \E g : /\ Enumerates(g, Len(ws), I)
              /\ \A i \in 1 .. Len(ws) :
                    /\ g[i] \in 1 .. Len(vs)
                    /\ ws[i] = vs[g[i]]
                    /\ ws[i].scope \in Scopes(c) \ {r}
              /\ \A i, j \in 1 .. Len(ws) : i < j => g[i] < g[j]
  BY <1>4, <1>6, <1>7
<1> QED
  BY <1>3, <1>9, <1>10 DEF ws

(* The chain RollbackChain compacts when the top was r's.                  *)
Reopened(c, r) ==
    LET vs == Retain(c.versions, Others(c, r))
    IN  [base |-> c.base, versions |-> [vs EXCEPT ![Len(vs)].entry = Live]]

(* The highest survivor becomes the live top; scopes do not change.        *)
LEMMA ReopenedIs ==
    ASSUME NEW c, Good(c), NEW r \in Run, TopIs(c, r),
           Retain(c.versions, Others(c, r)) # <<>>
    PROVE  LET ws == Retain(c.versions, Others(c, r))
               o == Reopened(c, r)
           IN  /\ o \in Chain /\ LiveTop(o.versions)
               /\ Len(o.versions) = Len(ws) /\ o.base = c.base
               /\ \A i \in 1 .. Len(ws) : /\ o.versions[i].scope = ws[i].scope
                                          /\ i # Len(ws) => o.versions[i] = ws[i]
               /\ \A i \in 1 .. Len(ws) : ws[i].entry \in Entry
<1> DEFINE vs == c.versions
           ws == Retain(vs, Others(c, r))
           n == Len(ws)
           top == [scope |-> ws[n].scope, entry |-> Live]
           us == [ws EXCEPT ![n].entry = Live]
<1>1. ws \in Seq(Version)
  BY OthersAre
<1>2. PICK f : \A i \in 1 .. n : f[i] \in 1 .. Len(vs) /\ ws[i] = vs[f[i]] /\ ws[i].scope # r
  BY OthersAre
<1> HIDE DEF ws
<1>3. n \in Nat /\ n \in 1 .. n
  BY <1>1 DEF ws
<1>4. vs \in Seq(Version) /\ Len(vs) \in Nat /\ c.base \in Entry
  BY GoodNoChain
<1>5. ASSUME NEW i \in 1 .. n PROVE ws[i].entry \in Entry /\ ws[i].entry # Live
  <2>1. f[i] # Len(vs)
    BY <1>2 DEF TopIs, Top
  <2>2. vs[f[i]] \in Version /\ vs[f[i]].entry # Live
    BY <2>1, <1>2, <1>4 DEF Good, LiveTop
  <2> QED
    BY <2>2, <1>2 DEF Version
<1>6. ws[n] \in Version /\ top \in Version
  BY <1>1, <1>3, ElementOfSeq DEF Version
<1>7. us = [ws EXCEPT ![n] = top]
  <2>1. [ws[n] EXCEPT !.entry = Live] = top
    BY <1>6 DEF Version
  <2> QED
    BY <2>1, <1>1, <1>3
<1>8. us \in Seq(Version) /\ Len(us) = n /\ \A i \in 1 .. n : us[i] = IF i = n THEN top ELSE ws[i]
  <2> HIDE DEF us, top
  <2> QED
    BY <1>1, <1>3, <1>6, <1>7, ExceptSeq
<1>9. Reopened(c, r) = [base |-> c.base, versions |-> us]
  BY DEF Reopened, ws
<1> HIDE DEF us
<1>10. \A i \in 1 .. n : us[i].entry = Live <=> i = n
  BY <1>5, <1>8
<1>11. \A i \in 1 .. n : us[i].scope = ws[i].scope /\ (i # n => us[i] = ws[i])
  BY <1>8
<1>12. [base |-> c.base, versions |-> us] \in Chain /\ LiveTop(us)
  BY <1>8, <1>10, <1>4 DEF Chain, LiveTop
<1> QED
  BY <1>5, <1>8, <1>9, <1>11, <1>12 DEF ws

(* Inner::rollback leaves a good chain with no version of r.               *)
LEMMA RollbackGood ==
    ASSUME NEW c, Good(c), NEW r \in Run, NEW d \in Entry
    PROVE  /\ Good(RollbackChain(c, r))
           /\ Scopes(RollbackChain(c, r)) \subseteq Scopes(c) \ {r}
           /\ RollbackData(d, c, r) \in Entry
<1> DEFINE vs == c.versions
           ws == Retain(vs, Others(c, r))
<1>1. ws \in Seq(Version) /\ \A i, j \in 1 .. Len(ws) : ws[i].scope = ws[j].scope => i = j
  BY OthersAre
<1>2. PICK f : /\ Enumerates(f, Len(ws), Others(c, r))
               /\ \A i \in 1 .. Len(ws) : /\ f[i] \in 1 .. Len(vs)
                                          /\ ws[i] = vs[f[i]]
                                          /\ ws[i].scope \in Scopes(c) \ {r}
               /\ \A i, j \in 1 .. Len(ws) : i < j => f[i] < f[j]
  BY OthersAre
<1>3. vs \in Seq(Version) /\ Len(vs) \in Nat /\ c.base \in Entry
  BY GoodNoChain
<1>4. CASE ~TopIs(c, r)
  <2> HIDE DEF ws
  <2>1. RollbackChain(c, r) = [base |-> c.base, versions |-> ws]
    BY <1>4 DEF RollbackChain, ws
  <2>2. RollbackData(d, c, r) = d
    BY <1>4 DEF RollbackData
  <2>3. \A i \in 1 .. Len(ws) : ws[i].scope \in Run
    BY <1>2 DEF Good
  <2>4. ASSUME NEW i \in 1 .. Len(ws)
        PROVE  ws[i].entry = Live <=> i = Len(ws)
    <3>0. Len(ws) \in Nat /\ Len(vs) \in 1 .. Len(vs) /\ vs # <<>>
      BY <1>1, <1>2, <1>3
    <3>1. Len(vs) \in Others(c, r)
      BY <3>0, <1>3, <1>4 DEF Others, TopIs, Top
    <3>2. PICK t \in 1 .. Len(ws) : f[t] = Len(vs)
      BY <3>1, <1>2 DEF Enumerates
    <3>3. t = Len(ws)
      <4>1. Len(ws) \in 1 .. Len(ws) /\ (t < Len(ws) => f[t] < f[Len(ws)])
        BY <1>2, <3>0, <3>2
      <4> QED
        BY <4>1, <3>0, <3>2, <1>2
    <3>4. ws[i].entry = Live <=> f[i] = Len(vs)
      BY <1>2 DEF Good, LiveTop
    <3>5. i < Len(ws) => f[i] < Len(vs)
      BY <1>2, <3>2, <3>3
    <3> QED
      BY <3>0, <3>2, <3>3, <3>4, <3>5, <1>2
  <2>5. Good(RollbackChain(c, r))
    BY <1>1, <1>3, <2>1, <2>3, <2>4 DEF Good, Chain, LiveTop
  <2>6. Scopes(RollbackChain(c, r)) \subseteq Scopes(c) \ {r}
    BY <1>2, <2>1 DEF Scopes
  <2> QED
    BY <2>2, <2>5, <2>6
<1>5. CASE TopIs(c, r) /\ ws = <<>>
  <2>1. RollbackChain(c, r) = NoChain
    BY <1>5 DEF RollbackChain
  <2>2. RollbackData(d, c, r) = c.base
    BY <1>5 DEF RollbackData, Survivor
  <2> QED
    BY <2>1, <2>2, <1>3, NoChainGood
<1>6. CASE TopIs(c, r) /\ ws # <<>>
  <2> DEFINE o == Reopened(c, r)
  <2>1. RollbackChain(c, r) = Compact(o)
    BY <1>6 DEF RollbackChain, Reopened
  <2>2. RollbackData(d, c, r) = ws[Len(ws)].entry
    BY <1>6 DEF RollbackData, Survivor
  <2> HIDE DEF o
  <2>3. /\ o \in Chain /\ LiveTop(o.versions) /\ Len(o.versions) = Len(ws)
        /\ \A i \in 1 .. Len(ws) : o.versions[i].scope = ws[i].scope
        /\ \A i \in 1 .. Len(ws) : ws[i].entry \in Entry
    BY <1>6, ReopenedIs DEF o
  <2>4. Good(Compact(o)) /\ Scopes(Compact(o)) \subseteq Scopes(o)
    BY <2>3, CompactGood
  <2>5. Scopes(o) \subseteq Scopes(c) \ {r}
    <3> SUFFICES ASSUME NEW i \in 1 .. Len(ws)
                 PROVE  o.versions[i].scope \in Scopes(c) \ {r}
      BY <2>3 DEF Scopes
    <3>1. o.versions[i].scope = ws[i].scope
      BY <2>3
    <3> QED
      BY <3>1, <1>2
  <2>6. Len(ws) \in 1 .. Len(ws)
    BY <1>1, <1>6
  <2> QED
    BY <2>1, <2>2, <2>3, <2>4, <2>5, <2>6
<1> QED
  BY <1>4, <1>5, <1>6

(* The chain CommitChain compacts: r's versions are confirmed.             *)
Confirmed(c, r) ==
    [base |-> c.base,
     versions |-> [i \in DOMAIN c.versions |->
                     [c.versions[i] EXCEPT !.scope = IF @ = r THEN NoRun ELSE @]]]

(* Confirming r changes the scopes of its own versions only.               *)
LEMMA ConfirmedIs ==
    ASSUME NEW c, Good(c), NEW r \in Run
    PROVE  LET o == Confirmed(c, r)
           IN  /\ o \in Chain /\ LiveTop(o.versions) /\ o.base = c.base
               /\ Len(o.versions) = Len(c.versions)
               /\ \A i \in 1 .. Len(c.versions) :
                     /\ o.versions[i].scope = IF c.versions[i].scope = r THEN NoRun
                                              ELSE c.versions[i].scope
                     /\ o.versions[i].entry = c.versions[i].entry
<1> DEFINE vs == c.versions
           n == Len(vs)
           us == [i \in 1 .. n |-> [scope |-> IF vs[i].scope = r THEN NoRun ELSE vs[i].scope,
                                    entry |-> vs[i].entry]]
<1>1. vs \in Seq(Version) /\ n \in Nat /\ DOMAIN vs = 1 .. n /\ c.base \in Entry
  BY GoodNoChain
<1>2. \A i \in 1 .. n : vs[i] \in Version
  BY <1>1, ElementOfSeq
<1>3. \A i \in 1 .. n : [vs[i] EXCEPT !.scope = IF @ = r THEN NoRun ELSE @] = us[i]
  BY <1>2 DEF Version
<1>4. Confirmed(c, r) = [base |-> c.base, versions |-> us]
  BY <1>1, <1>3 DEF Confirmed
<1>5. us \in [1 .. n -> Version]
  BY <1>2 DEF Version, Scope
<1>6. us \in Seq(Version) /\ Len(us) = n
  BY <1>1, <1>5
<1>7. \A i \in 1 .. n : /\ us[i].scope = IF vs[i].scope = r THEN NoRun ELSE vs[i].scope
                        /\ us[i].entry = vs[i].entry
  OBVIOUS
<1> HIDE DEF us
<1>8. LiveTop(us)
  BY <1>6, <1>7 DEF Good, LiveTop
<1> QED
  BY <1>1, <1>4, <1>6, <1>7, <1>8 DEF Chain

(* Inner::commit leaves a good chain with no version of r.                 *)
LEMMA CommitGood ==
    ASSUME NEW c, Good(c), NEW r \in Run
    PROVE  /\ Good(CommitChain(c, r))
           /\ Scopes(CommitChain(c, r)) \subseteq Scopes(c) \ {r}
<1> DEFINE o == Confirmed(c, r)
<1>1. CommitChain(c, r) = Compact(o)
  BY DEF CommitChain, Confirmed
<1> HIDE DEF o
<1>2. /\ o \in Chain /\ LiveTop(o.versions)
      /\ Len(o.versions) = Len(c.versions)
      /\ \A i \in 1 .. Len(c.versions) :
            o.versions[i].scope = IF c.versions[i].scope = r THEN NoRun
                                  ELSE c.versions[i].scope
  BY ConfirmedIs DEF o
<1>3. Good(Compact(o)) /\ Scopes(Compact(o)) \subseteq Scopes(o)
  BY <1>2, CompactGood
<1>4. Scopes(o) \subseteq (Scopes(c) \ {r}) \cup {NoRun}
  BY <1>2 DEF Scopes
<1>5. NoRun \notin Scopes(Compact(o))
  BY <1>3, BlackboardAssumption DEF Good, Scopes
<1> QED
  BY <1>1, <1>3, <1>4, <1>5

-----------------------------------------------------------------------------
(* The invariant.                                                          *)

(* TypeOK and ChainCompact together say that every chain is good.          *)
AllGood == \A k \in Key : Good(chain[k])

(* ChainCompact, chain by chain.                                           *)
LEMMA GoodChains == TypeOK => (ChainCompact <=> AllGood)
<1> SUFFICES ASSUME TypeOK PROVE ChainCompact <=> AllGood
  OBVIOUS
<1>1. \A k \in Key : /\ chain[k] \in Chain /\ chain[k].versions \in Seq(Version)
                     /\ DOMAIN chain[k].versions = 1 .. Len(chain[k].versions)
  BY DEF TypeOK, Chain
<1>2. \A k \in Key : \A i \in 1 .. Len(chain[k].versions) :
        chain[k].versions[i].scope \in Run <=> chain[k].versions[i].scope # NoRun
  <2> TAKE k \in Key
  <2> TAKE i \in 1 .. Len(chain[k].versions)
  <2>1. chain[k].versions[i] \in Version
    BY <1>1, ElementOfSeq
  <2> QED
    BY <2>1, BlackboardAssumption DEF Version, Scope
<1> QED
  BY <1>1, <1>2 DEF ChainCompact, AllGood, Good, LiveTop

(* The inductive invariant.  ChainCompact alone is not inductive: undo and *)
(* commit restore it only on the keys they walk, so it needs               *)
(* KeysCoverVersions, which in turn needs to know when a RunState is       *)
(* dropped, RunStateMatchesThreads.                                        *)
Inv ==
    /\ TypeOK
    /\ ChainCompact
    /\ KeysCoverVersions
    /\ RunStateMatchesThreads

(* The same, in the terms of the lemmas above.                             *)
Covers == \A k \in Key : \A s \in Scopes(chain[k]) : k \in runs[s].keys

(* KeysCoverVersions, scope by scope.                                      *)
LEMMA CoversIs == TypeOK => (KeysCoverVersions <=> Covers)
<1> SUFFICES ASSUME TypeOK PROVE KeysCoverVersions <=> Covers
  OBVIOUS
<1>1. \A k \in Key : DOMAIN chain[k].versions = 1 .. Len(chain[k].versions)
  BY DEF TypeOK, Chain
<1> QED
  BY <1>1 DEF KeysCoverVersions, Covers, Scopes

(* The invariant holds on an empty blackboard.                             *)
LEMMA InitInv == Init => Inv
<1> SUFFICES ASSUME Init PROVE Inv
  OBVIOUS
<1>1. TypeOK
  BY NoChainGood DEF Init, TypeOK, Good, Entry, NewRun, RunState
<1>2. \A k \in Key : chain[k] = NoChain
  BY DEF Init
<1>3. ChainCompact
  BY <1>1, <1>2, GoodChains, NoChainGood DEF AllGood
<1>4. KeysCoverVersions
  BY <1>1, <1>2, CoversIs, NoChainGood DEF Covers
<1>5. RunStateMatchesThreads
  <2> SUFFICES ASSUME NEW r \in Run
               PROVE  runs[r].live = agents[r] /\ runs[r].closed = (~owner[r] /\ agents[r] > 0)
                      /\ runs[r] = NewRun
    BY DEF RunStateMatchesThreads
  <2>1. runs[r] = NewRun /\ agents[r] = 0
    BY DEF Init
  <2>2. (agents[r] > 0) = FALSE
    BY <2>1
  <2>3. runs[r].live = 0 /\ runs[r].closed = FALSE
    BY <2>1 DEF NewRun
  <2> QED
    BY <2>1, <2>2, <2>3, Zenon
<1> QED
  BY <1>1, <1>3, <1>4, <1>5 DEF Inv

(* write and delete.                                                       *)
LEMMA ChangeInv ==
    ASSUME Inv, NEW s \in Scope, NEW k \in Key, NEW e \in Entry, Change(s, k, e)
    PROVE  Inv'
<1>1. TypeOK /\ (\A j \in Key : Good(chain[j])) /\ Covers /\ RunStateMatchesThreads
  BY GoodChains, CoversIs DEF Inv, AllGood
<1>2. data[k] \in Entry /\ data' \in [Key -> Entry]
  BY <1>1 DEF TypeOK, Change
<1>3. chain' = [chain EXCEPT ![k] = Record(chain[k], s, data[k])] /\ chain \in [Key -> Chain]
  BY <1>1 DEF Change, TypeOK
<1>4. Good(Record(chain[k], s, data[k]))
      /\ Scopes(Record(chain[k], s, data[k])) \subseteq Scopes(chain[k]) \cup {s}
  BY <1>1, <1>2, RecordGood
<1>5. \A j \in Key : Good(chain'[j]) /\ chain'[j] \in Chain
  BY <1>1, <1>3, <1>4 DEF Good
<1>6. chain' \in [Key -> Chain]
  BY <1>3, <1>5
<1>7. /\ runs' \in [Run -> RunState]
      /\ \A r \in Run : /\ runs[r].keys \subseteq runs'[r].keys
                        /\ runs'[r].live = runs[r].live /\ runs'[r].closed = runs[r].closed
                        /\ r # s => runs'[r] = runs[r]
  <2>1. CASE s # NoRun /\ Opens(chain[k], s)
    <3>1. s \in Run
      BY <2>1 DEF Scope
    <3>2. runs' = [runs EXCEPT ![s].keys = runs[s].keys \cup {k}] /\ runs \in [Run -> RunState]
      BY <2>1, <1>1 DEF Change, TypeOK
    <3>3. runs'[s] = [runs[s] EXCEPT !.keys = runs[s].keys \cup {k}]
      BY <3>1, <3>2
    <3>4. runs'[s] \in RunState /\ runs'[s].keys = runs[s].keys \cup {k}
          /\ runs'[s].live = runs[s].live /\ runs'[s].closed = runs[s].closed
      BY <3>1, <3>2, <3>3 DEF RunState
    <3> QED
      BY <3>1, <3>2, <3>4
  <2>2. CASE ~(s # NoRun /\ Opens(chain[k], s))
    BY <2>2, <1>1 DEF Change, TypeOK
  <2> QED
    BY <2>1, <2>2
<1>8. TypeOK'
  BY <1>1, <1>2, <1>6, <1>7 DEF TypeOK, Change
<1>9. Covers'
  <2> SUFFICES ASSUME NEW j \in Key, NEW t \in Scopes(chain'[j])
               PROVE  j \in runs'[t].keys
    BY DEF Covers, Scopes
  <2>1. t \in Run
    BY <1>5 DEF Good, Scopes
  <2>2. CASE t \in Scopes(chain[j])
    BY <2>1, <2>2, <1>1, <1>7 DEF Covers
  <2>3. CASE t \notin Scopes(chain[j])
    <3>1. j = k /\ t = s
      BY <2>3, <1>3, <1>4
    <3>2. Opens(chain[k], s)
      BY <3>1, <2>3, <1>3 DEF Record
    <3>3. runs' = [runs EXCEPT ![s].keys = runs[s].keys \cup {k}]
      BY <3>1, <3>2, <2>1, BlackboardAssumption DEF Change
    <3>4. runs \in [Run -> RunState]
      BY <1>1 DEF TypeOK
    <3>5. runs'[s] = [runs[s] EXCEPT !.keys = runs[s].keys \cup {k}] /\ runs[s] \in RunState
      BY <3>1, <3>3, <3>4, <2>1
    <3> QED
      BY <3>1, <3>5 DEF RunState
  <2> QED
    BY <2>2, <2>3
<1>10. RunStateMatchesThreads'
  <2> SUFFICES ASSUME NEW r \in Run
               PROVE  /\ runs'[r].live = agents[r]
                      /\ runs'[r].closed = (~owner[r] /\ agents[r] > 0)
                      /\ ~Running(r) => runs'[r] = NewRun
    BY DEF RunStateMatchesThreads, Running, Change
  <2>1. ~Running(r) => r # s
    BY DEF Change
  <2> QED
    BY <2>1, <1>1, <1>7 DEF RunStateMatchesThreads
<1>11. ChainCompact' /\ KeysCoverVersions'
  <2>1. AllGood'
    BY <1>5 DEF AllGood, Good, LiveTop
  <2> QED
    BY <2>1, <1>8, <1>9, GoodChains, CoversIs, PTL
<1> QED
  BY <1>8, <1>10, <1>11 DEF Inv

(* The end of a part of a run, where st is its state after the event: only *)
(* r's state changes, and the chains stay good and covered.                *)
LEMMA EndPartInv ==
    ASSUME TypeOK, AllGood, Covers, NEW r \in Run, NEW undo \in BOOLEAN,
           NEW st \in RunState, st.keys = runs[r].keys, EndPart(r, st, undo)
    PROVE  /\ data' \in [Key -> Entry] /\ chain' \in [Key -> Chain]
           /\ runs' \in [Run -> RunState]
           /\ AllGood' /\ Covers'
           /\ \A q \in Run \ {r} : runs'[q] = runs[q]
           /\ Finished(st) => runs'[r] = NewRun
           /\ ~Finished(st) => runs'[r].live = st.live /\ runs'[r].closed = st.closed
<1>1. data \in [Key -> Entry] /\ chain \in [Key -> Chain] /\ runs \in [Run -> RunState]
  BY DEF TypeOK
<1>2. NewRun \in RunState /\ [st EXCEPT !.cut = TRUE, !.keys = {}] \in RunState
  BY DEF NewRun, RunState
<1>3. runs' = [runs EXCEPT ![r] = IF Finished(st) THEN NewRun
                                  ELSE IF undo THEN [st EXCEPT !.cut = TRUE, !.keys = {}]
                                  ELSE st]
  BY DEF EndPart
<1>4. runs' \in [Run -> RunState] /\ \A q \in Run \ {r} : runs'[q] = runs[q]
  BY <1>1, <1>2, <1>3
<1>5. runs'[r] = IF Finished(st) THEN NewRun
                 ELSE IF undo THEN [st EXCEPT !.cut = TRUE, !.keys = {}] ELSE st
  BY <1>1, <1>3
<1>6. ~Finished(st) => runs'[r].live = st.live /\ runs'[r].closed = st.closed
  BY <1>5 DEF RunState
<1>7. ASSUME NEW k \in Key
      PROVE  /\ data'[k] \in Entry /\ Good(chain'[k])
             /\ \A s \in Scopes(chain'[k]) : k \in runs'[s].keys
  <2>1. Good(chain[k]) /\ data[k] \in Entry /\ \A s \in Scopes(chain[k]) : s \in Run
    BY <1>1 DEF AllGood, Good, Scopes
  <2>2. \A s \in Scopes(chain[k]) : k \in runs[s].keys
    BY DEF Covers
  <2>3. CASE undo /\ k \in st.keys
    <3>1. data'[k] = RollbackData(data[k], chain[k], r) /\ chain'[k] = RollbackChain(chain[k], r)
      BY <2>3 DEF EndPart
    <3>2. Good(chain'[k]) /\ Scopes(chain'[k]) \subseteq Scopes(chain[k]) \ {r} /\ data'[k] \in Entry
      BY <3>1, <2>1, RollbackGood
    <3> QED
      BY <3>2, <2>1, <2>2, <1>4
  <2>4. CASE ~undo /\ Finished(st) /\ k \in st.keys
    <3>1. data'[k] = data[k] /\ chain'[k] = CommitChain(chain[k], r)
      BY <2>4 DEF EndPart
    <3>2. Good(chain'[k]) /\ Scopes(chain'[k]) \subseteq Scopes(chain[k]) \ {r}
      BY <3>1, <2>1, CommitGood
    <3> QED
      BY <3>1, <3>2, <2>1, <2>2, <1>4
  <2>5. CASE ~undo /\ ~Finished(st)
    <3>1. data'[k] = data[k] /\ chain'[k] = chain[k]
      BY <2>5 DEF EndPart
    <3>2. runs'[r].keys = runs[r].keys
      BY <2>5, <1>5
    <3> QED
      BY <3>1, <3>2, <2>1, <2>2, <1>4
  <2>6. CASE k \notin st.keys
    <3>1. data'[k] = data[k] /\ chain'[k] = chain[k]
      BY <2>6 DEF EndPart
    <3>2. r \notin Scopes(chain[k])
      BY <2>6, <2>2
    <3> QED
      BY <3>1, <3>2, <2>1, <2>2, <1>4
  <2> QED
    BY <2>3, <2>4, <2>5, <2>6
<1>8. (DOMAIN data' = Key /\ DOMAIN chain' = Key)
      /\ data' = [k \in Key |-> data'[k]] /\ chain' = [k \in Key |-> chain'[k]]
  BY <1>1 DEF EndPart
<1>9. data' \in [Key -> Entry]
  BY <1>7, <1>8
<1>10. chain' \in [Key -> Chain]
  BY <1>7, <1>8 DEF Good
<1>11. AllGood'
  BY <1>7 DEF AllGood, Good, LiveTop
<1>12. Covers'
  BY <1>7 DEF Covers, Scopes
<1> QED
  BY <1>4, <1>5, <1>6, <1>9, <1>10, <1>11, <1>12

(* close_run preserves the invariant.                                      *)
LEMMA CloseRunInv ==
    ASSUME Inv, NEW r \in Run, NEW cut \in BOOLEAN, CloseRun(r, cut)
    PROVE  Inv'
<1> DEFINE st == [runs[r] EXCEPT !.closed = TRUE]
<1>1. TypeOK /\ AllGood /\ Covers /\ RunStateMatchesThreads
  BY GoodChains, CoversIs DEF Inv
<1>2. runs[r] \in RunState /\ agents[r] \in Nat /\ owner[r] \in BOOLEAN /\ owner \in [Run -> BOOLEAN]
  BY <1>1 DEF TypeOK
<1>3. st \in RunState /\ st.keys = runs[r].keys /\ st.live = runs[r].live /\ st.closed = TRUE
  BY <1>2 DEF RunState
<1>4. (cut \/ runs[r].cut) \in BOOLEAN
  OBVIOUS
<1>5. EndPart(r, st, cut \/ runs[r].cut)
  BY DEF CloseRun
<1>6. owner' = [owner EXCEPT ![r] = FALSE] /\ agents' = agents
  BY DEF CloseRun
<1> HIDE DEF st
<1>7. /\ data' \in [Key -> Entry] /\ chain' \in [Key -> Chain]
      /\ runs' \in [Run -> RunState]
      /\ AllGood' /\ Covers'
      /\ \A q \in Run \ {r} : runs'[q] = runs[q]
      /\ Finished(st) => runs'[r] = NewRun
      /\ ~Finished(st) => runs'[r].live = st.live /\ runs'[r].closed = st.closed
  BY <1>1, <1>3, <1>4, <1>5, EndPartInv
<1>8. TypeOK'
  BY <1>1, <1>2, <1>6, <1>7 DEF TypeOK
<1>9. ASSUME NEW q \in Run
      PROVE  /\ runs'[q].live = agents'[q]
             /\ runs'[q].closed = (~owner'[q] /\ agents'[q] > 0)
             /\ ~(owner'[q] \/ agents'[q] > 0) => runs'[q] = NewRun
  <2>1. CASE q # r
    <3>1. runs'[q] = runs[q] /\ owner'[q] = owner[q] /\ agents'[q] = agents[q]
      BY <2>1, <1>2, <1>6, <1>7
    <3> QED
      BY <3>1, <1>1, BlackboardAssumption DEF RunStateMatchesThreads, Running
  <2>2. CASE q = r
    <3>1. owner'[r] = FALSE /\ agents'[r] = agents[r] /\ st.live = agents[r]
      BY <1>1, <1>2, <1>3, <1>6 DEF RunStateMatchesThreads
    <3>2. CASE agents[r] = 0
      <4>1. runs'[r] = NewRun
        BY <3>1, <3>2, <1>3, <1>7 DEF Finished
      <4>2. runs'[r].live = 0 /\ runs'[r].closed = FALSE
        BY <4>1 DEF NewRun
      <4>3. (agents'[r] > 0) = FALSE /\ agents'[r] = 0
        BY <3>1, <3>2
      <4> QED
        BY <2>2, <4>1, <4>2, <4>3, Zenon
    <3>3. CASE agents[r] # 0
      <4>1. runs'[r].live = agents[r] /\ runs'[r].closed = TRUE
        BY <3>1, <3>3, <1>3, <1>7 DEF Finished
      <4>2. (agents'[r] > 0) = TRUE
        BY <3>1, <3>3, <1>2
      <4> QED
        BY <2>2, <3>1, <4>1, <4>2, Zenon
    <3> QED
      BY <3>2, <3>3
  <2> QED
    BY <2>1, <2>2
<1>10. RunStateMatchesThreads'
  BY <1>9 DEF RunStateMatchesThreads, Running
<1>11. ChainCompact' /\ KeysCoverVersions'
  BY <1>7, <1>8, GoodChains, CoversIs, PTL
<1> QED
  BY <1>8, <1>10, <1>11 DEF Inv

(* agent_done preserves it: the count goes down by the agent that ends.    *)
LEMMA AgentDoneInv ==
    ASSUME Inv, NEW r \in Run, NEW cut \in BOOLEAN, AgentDone(r, cut)
    PROVE  Inv'
<1> DEFINE st == [runs[r] EXCEPT !.live = IF @ = 0 THEN 0 ELSE @ - 1]
<1>1. TypeOK /\ AllGood /\ Covers /\ RunStateMatchesThreads
  BY GoodChains, CoversIs DEF Inv
<1>2. runs[r] \in RunState /\ agents[r] \in Nat /\ owner[r] \in BOOLEAN /\ agents \in [Run -> Nat]
      /\ agents[r] > 0
  BY <1>1 DEF TypeOK, AgentDone
<1>3. st \in RunState /\ st.keys = runs[r].keys /\ st.live = agents[r] - 1 /\ st.closed = runs[r].closed
  <2>1. runs[r].live = agents[r] /\ runs[r].live # 0
    BY <1>1, <1>2 DEF RunStateMatchesThreads
  <2>2. st = [runs[r] EXCEPT !.live = agents[r] - 1]
    BY <2>1
  <2> QED
    BY <2>2, <1>2 DEF RunState
<1>4. (cut \/ runs[r].cut) \in BOOLEAN
  OBVIOUS
<1>5. EndPart(r, st, cut \/ runs[r].cut)
  BY DEF AgentDone
<1>6. agents' = [agents EXCEPT ![r] = agents[r] - 1] /\ owner' = owner
  BY DEF AgentDone
<1> HIDE DEF st
<1>7. /\ data' \in [Key -> Entry] /\ chain' \in [Key -> Chain]
      /\ runs' \in [Run -> RunState]
      /\ AllGood' /\ Covers'
      /\ \A q \in Run \ {r} : runs'[q] = runs[q]
      /\ Finished(st) => runs'[r] = NewRun
      /\ ~Finished(st) => runs'[r].live = st.live /\ runs'[r].closed = st.closed
  BY <1>1, <1>3, <1>4, <1>5, EndPartInv
<1>8. TypeOK'
  <2>1. agents' \in [Run -> Nat]
    <3>1. agents[r] - 1 \in Nat
      BY <1>2
    <3> QED
      BY <3>1, <1>2, <1>6
  <2> QED
    BY <2>1, <1>1, <1>6, <1>7 DEF TypeOK
<1>9. ASSUME NEW q \in Run
      PROVE  /\ runs'[q].live = agents'[q]
             /\ runs'[q].closed = (~owner'[q] /\ agents'[q] > 0)
             /\ ~(owner'[q] \/ agents'[q] > 0) => runs'[q] = NewRun
  <2>1. CASE q # r
    <3>1. runs'[q] = runs[q] /\ owner'[q] = owner[q] /\ agents'[q] = agents[q]
      BY <2>1, <1>2, <1>6, <1>7
    <3> QED
      BY <3>1, <1>1, BlackboardAssumption DEF RunStateMatchesThreads, Running
  <2>2. CASE q = r
    <3>1. owner'[r] = owner[r] /\ agents'[r] = agents[r] - 1 /\ agents'[r] \in Nat
      BY <1>2, <1>6
    <3>2. st.closed = (~owner[r] /\ agents[r] > 0) /\ (agents[r] > 0) = TRUE
      BY <1>1, <1>2, <1>3 DEF RunStateMatchesThreads
    <3>3. st.closed = (~owner[r])
      BY <3>2, Zenon
    <3>4. CASE Finished(st)
      <4>1. runs'[r] = NewRun /\ agents'[r] = 0 /\ st.closed
        BY <3>1, <3>4, <1>3, <1>7 DEF Finished
      <4>2. runs'[r].live = 0 /\ runs'[r].closed = FALSE /\ (agents'[r] > 0) = FALSE
        BY <4>1 DEF NewRun
      <4> QED
        BY <2>2, <4>1, <4>2, Zenon
    <3>5. CASE ~Finished(st) /\ agents'[r] = 0
      <4>1. runs'[r].live = 0 /\ runs'[r].closed = st.closed /\ ~st.closed
        BY <3>1, <3>5, <1>3, <1>7 DEF Finished
      <4>2. (agents'[r] > 0) = FALSE
        BY <3>5
      <4>3. st.closed = FALSE
        BY <4>1, <1>3 DEF RunState
      <4> QED
        BY <2>2, <3>1, <3>3, <3>5, <4>1, <4>2, <4>3, Zenon
    <3>6. CASE ~Finished(st) /\ agents'[r] # 0
      <4>1. runs'[r].live = agents'[r] /\ runs'[r].closed = st.closed
        BY <3>1, <3>6, <1>3, <1>7
      <4>2. (agents'[r] > 0) = TRUE
        <5>1. agents'[r] \in Nat /\ agents'[r] # 0
          BY <3>1, <3>6
        <5>2. agents'[r] > 0
          BY <5>1
        <5> QED
          BY <5>2
      <4> QED
        BY <2>2, <3>1, <3>3, <4>1, <4>2, Zenon
    <3> QED
      BY <3>4, <3>5, <3>6
  <2> QED
    BY <2>1, <2>2
<1>10. RunStateMatchesThreads'
  BY <1>9 DEF RunStateMatchesThreads, Running
<1>11. ChainCompact' /\ KeysCoverVersions'
  BY <1>7, <1>8, GoodChains, CoversIs, PTL
<1> QED
  BY <1>8, <1>10, <1>11 DEF Inv

(* agent_started preserves it.                                             *)
LEMMA AgentStartedInv ==
    ASSUME Inv, NEW r \in Run, AgentStarted(r)
    PROVE  Inv'
<1>1. TypeOK /\ AllGood /\ Covers /\ RunStateMatchesThreads
  BY GoodChains, CoversIs DEF Inv
<1>2. runs \in [Run -> RunState] /\ agents \in [Run -> Nat] /\ owner[r] \in BOOLEAN
  BY <1>1 DEF TypeOK
<1>3. /\ runs' = [runs EXCEPT ![r].live = runs[r].live + 1]
      /\ agents' = [agents EXCEPT ![r] = agents[r] + 1]
      /\ UNCHANGED <<data, chain, owner>>
  BY DEF AgentStarted
<1>4. runs'[r] = [runs[r] EXCEPT !.live = runs[r].live + 1] /\ runs[r] \in RunState
  BY <1>2, <1>3
<1>5. runs'[r] \in RunState /\ runs'[r].live = runs[r].live + 1
      /\ runs'[r].closed = runs[r].closed /\ runs'[r].keys = runs[r].keys
  BY <1>4 DEF RunState
<1>6. \A q \in Run \ {r} : runs'[q] = runs[q] /\ agents'[q] = agents[q]
  BY <1>2, <1>3
<1>7. runs' \in [Run -> RunState] /\ agents' \in [Run -> Nat] /\ agents'[r] = agents[r] + 1
  BY <1>2, <1>3, <1>5, <1>6
<1>8. TypeOK'
  BY <1>1, <1>3, <1>7 DEF TypeOK
<1>9. AllGood'
  BY <1>1, <1>3 DEF AllGood, Good, LiveTop
<1>10. Covers'
  <2> SUFFICES ASSUME NEW k \in Key, NEW s \in Scopes(chain[k]) PROVE k \in runs'[s].keys
    BY <1>3 DEF Covers, Scopes
  <2>1. s \in Run /\ k \in runs[s].keys
    BY <1>1 DEF Covers, AllGood, Good, Scopes
  <2> QED
    BY <2>1, <1>5, <1>6
<1>11. ASSUME NEW q \in Run
       PROVE  /\ runs'[q].live = agents'[q]
              /\ runs'[q].closed = (~owner'[q] /\ agents'[q] > 0)
              /\ ~(owner'[q] \/ agents'[q] > 0) => runs'[q] = NewRun
  <2>1. CASE q # r
    BY <2>1, <1>1, <1>3, <1>6, BlackboardAssumption DEF RunStateMatchesThreads, Running
  <2>2. CASE q = r
    <3>1. runs'[r].live = agents'[r]
      BY <1>1, <1>5, <1>7 DEF RunStateMatchesThreads
    <3>2. agents'[r] > 0 /\ agents[r] \in Nat
      BY <1>2, <1>7
    <3>3. owner[r] \/ agents[r] > 0
      BY BlackboardAssumption DEF AgentStarted, Running
    <3>4. runs[r].closed = (~owner[r] /\ agents[r] > 0)
      BY <1>1 DEF RunStateMatchesThreads
    <3>5. runs[r].closed = (~owner[r])
      BY <3>3, <3>4, Zenon
    <3>6. runs'[r].closed = (~owner'[r] /\ agents'[r] > 0)
      BY <3>2, <3>5, <1>3, <1>5, Zenon
    <3> QED
      BY <2>2, <3>1, <3>2, <3>6
  <2> QED
    BY <2>1, <2>2
<1>12. RunStateMatchesThreads'
  BY <1>11 DEF RunStateMatchesThreads, Running
<1>13. ChainCompact' /\ KeysCoverVersions'
  BY <1>8, <1>9, <1>10, GoodChains, CoversIs, PTL
<1> QED
  BY <1>8, <1>12, <1>13 DEF Inv

(* A new entry of serve preserves it: nothing is left of an old run.       *)
LEMMA OpenRunInv ==
    ASSUME Inv, NEW r \in Run, OpenRun(r)
    PROVE  Inv'
<1>1. TypeOK /\ AllGood /\ Covers /\ RunStateMatchesThreads
  BY GoodChains, CoversIs DEF Inv
<1>2. owner' = [owner EXCEPT ![r] = TRUE] /\ owner \in [Run -> BOOLEAN] /\ agents \in [Run -> Nat]
      /\ UNCHANGED <<data, chain, runs, agents>>
  BY <1>1 DEF OpenRun, TypeOK
<1>3. ~owner[r] /\ ~(agents[r] > 0)
  BY DEF OpenRun, Running
<1>4. TypeOK'
  BY <1>1, <1>2 DEF TypeOK
<1>5. ASSUME NEW q \in Run
      PROVE  /\ runs[q].live = agents[q]
             /\ runs[q].closed = (~owner'[q] /\ agents[q] > 0)
             /\ ~(owner'[q] \/ agents[q] > 0) => runs[q] = NewRun
  <2>1. CASE q # r
    BY <2>1, <1>1, <1>2, BlackboardAssumption DEF RunStateMatchesThreads, Running
  <2>2. CASE q = r
    <3>1. runs[r].live = agents[r] /\ runs[r].closed = (~owner[r] /\ agents[r] > 0)
      BY <1>1 DEF RunStateMatchesThreads
    <3>2. owner'[r] = TRUE
      BY <1>2
    <3> QED
      BY <2>2, <3>1, <3>2, <1>3, Zenon
  <2> QED
    BY <2>1, <2>2
<1>6. RunStateMatchesThreads'
  BY <1>5, <1>2 DEF RunStateMatchesThreads, Running
<1>7. AllGood' /\ Covers'
  BY <1>1, <1>2 DEF AllGood, Good, LiveTop, Covers, Scopes
<1>8. ChainCompact' /\ KeysCoverVersions'
  BY <1>4, <1>7, GoodChains, CoversIs, PTL
<1> QED
  BY <1>4, <1>6, <1>8 DEF Inv

(* Every step preserves the invariant.                                     *)
LEMMA NextInv == Inv /\ [Next]_vars => Inv'
<1> SUFFICES ASSUME Inv, [Next]_vars PROVE Inv'
  OBVIOUS
<1>1. CASE UNCHANGED vars
  BY <1>1 DEF vars, Inv, TypeOK, ChainCompact, KeysCoverVersions, RunStateMatchesThreads, Running
<1>2. ASSUME NEW s \in Scope, NEW k \in Key, NEW v \in Val, Write(s, k, v) PROVE Inv'
  BY <1>2, ChangeInv DEF Write, Entry
<1>3. ASSUME NEW s \in Scope, NEW k \in Key, Delete(s, k) PROVE Inv'
  BY <1>3, ChangeInv DEF Delete, Entry
<1>4. ASSUME NEW r \in Run, OpenRun(r) PROVE Inv'
  BY <1>4, OpenRunInv
<1>5. ASSUME NEW r \in Run, AgentStarted(r) PROVE Inv'
  BY <1>5, AgentStartedInv
<1>6. ASSUME NEW r \in Run, NEW cut \in BOOLEAN, CloseRun(r, cut) PROVE Inv'
  BY <1>6, CloseRunInv
<1>7. ASSUME NEW r \in Run, NEW cut \in BOOLEAN, AgentDone(r, cut) PROVE Inv'
  BY <1>7, AgentDoneInv
<1> QED
  BY <1>1, <1>2, <1>3, <1>4, <1>5, <1>6, <1>7 DEF Next

(* Whatever the interleaving of write, delete, close_run, agent_started    *)
(* and agent_done, the journal's types, its compact chains, its key sets   *)
(* and its run states hold.                                                *)
THEOREM Invariance == Spec => []Inv
<1>1. Init => Inv
  BY InitInv
<1>2. Inv /\ [Next]_vars => Inv'
  BY NextInv
<1> QED
  BY <1>1, <1>2, PTL DEF Spec

(* Every state has its declared type.                                      *)
THEOREM TypeCorrect == Spec => []TypeOK
  BY Invariance, PTL DEF Inv

(* Chains stay bounded: one version per run, none confirmed, only the top  *)
(* live (Chain::compact).                                                  *)
THEOREM ChainsStayCompact == Spec => []ChainCompact
  BY Invariance, PTL DEF Inv

(* Undo and commit, which walk RunState.keys, miss no version.             *)
THEOREM NoVersionIsMissed == Spec => []KeysCoverVersions
  BY Invariance, PTL DEF Inv

(* The journal's counters are those of the threads: a run is closed and    *)
(* forgotten when, and only when, nothing of it is left.                   *)
THEOREM CountersMatch == Spec => []RunStateMatchesThreads
  BY Invariance, PTL DEF Inv

(* A chain never outlives the runs it is for: when every run has ended the *)
(* journal is empty.                                                       *)
THEOREM VersionsBelongToRunningRuns == Spec => []OnlyRunningRunsHoldVersions
<1>1. Inv => OnlyRunningRunsHoldVersions
  <2> SUFFICES ASSUME Inv, NEW k \in Key, NEW i \in DOMAIN chain[k].versions
               PROVE  Running(chain[k].versions[i].scope)
    BY DEF OnlyRunningRunsHoldVersions
  <2> DEFINE s == chain[k].versions[i].scope
  <2>1. k \in runs[s].keys
    BY DEF Inv, KeysCoverVersions
  <2>2. s \in Run
    <3>1. chain[k] \in Chain
      BY DEF Inv, TypeOK
    <3>2. chain[k].versions[i] \in Version
      BY <3>1 DEF Chain
    <3> QED
      BY <3>2 DEF Version, Scope, Inv, ChainCompact
  <2>3. ASSUME ~Running(s) PROVE FALSE
    <3>1. runs[s] = NewRun
      BY <2>2, <2>3 DEF Inv, RunStateMatchesThreads
    <3> QED
      BY <3>1, <2>1 DEF NewRun
  <2> QED
    BY <2>3
<1> QED
  BY <1>1, Invariance, PTL

-----------------------------------------------------------------------------
(* The worlds of a chain.                                                  *)

(* Without a chain every world holds the visible entry.                    *)
LEMMA WorldEmpty ==
    ASSUME NEW c, NEW d, NEW S, c.versions = <<>>
    PROVE  WorldOf(d, c, S) = d
  BY DEF WorldOf

(* The highest version that is not undone decides.                         *)
Decides(c, S, t) ==
    /\ t \in 1 .. Len(c.versions)
    /\ c.versions[t].scope \notin S
    /\ \A j \in 1 .. Len(c.versions) : j > t => c.versions[j].scope \in S

(* The highest version not undone decides what a world holds.              *)
LEMMA WorldAt ==
    ASSUME NEW c, c.versions \in Seq(Version), NEW d, NEW S, NEW t, Decides(c, S, t)
    PROVE  WorldOf(d, c, S) = IF t = Len(c.versions) THEN d ELSE c.versions[t].entry
<1> DEFINE n == Len(c.versions)
           left == {i \in DOMAIN c.versions : c.versions[i].scope \notin S}
<1>0. /\ t \in 1 .. n /\ c.versions[t].scope \notin S
      /\ \A j \in 1 .. n : j > t => c.versions[j].scope \in S
  BY DEF Decides
<1>1. n \in Nat /\ DOMAIN c.versions = 1 .. n /\ c.versions # <<>>
  BY <1>0
<1>2. left \in SUBSET (1 .. n) /\ t \in left
  BY <1>0, <1>1
<1>3. Highest(left) \in left /\ t <= Highest(left)
  BY <1>1, <1>2, HighestIs
<1>4. Highest(left) = t
  <2>1. Highest(left) \in 1 .. n /\ c.versions[Highest(left)].scope \notin S
    BY <1>1, <1>3
  <2>2. ~(Highest(left) > t)
    BY <2>1, <1>0
  <2> HIDE DEF left
  <2> QED
    BY <1>0, <1>1, <1>3, <2>1, <2>2
<1> QED
  BY <1>1, <1>2, <1>4 DEF WorldOf

(* With every version undone, the base shows.                              *)
LEMMA WorldBase ==
    ASSUME NEW c, c.versions \in Seq(Version), NEW d, NEW S, c.versions # <<>>,
           \A j \in 1 .. Len(c.versions) : c.versions[j].scope \in S
    PROVE  WorldOf(d, c, S) = c.base
  BY DEF WorldOf

(* Either some version decides a world, or all are undone.                 *)
LEMMA WorldCases ==
    ASSUME NEW c, c.versions \in Seq(Version), NEW S
    PROVE  \/ c.versions = <<>>
           \/ c.versions # <<>> /\ \A j \in 1 .. Len(c.versions) : c.versions[j].scope \in S
           \/ \E t \in 1 .. Len(c.versions) : Decides(c, S, t)
<1> DEFINE n == Len(c.versions)
           left == {i \in 1 .. n : c.versions[i].scope \notin S}
<1>1. n \in Nat
  OBVIOUS
<1>2. CASE left = {}
  BY <1>2
<1>3. CASE left # {}
  <2>1. Highest(left) \in left /\ \A j \in left : j <= Highest(left)
    BY <1>1, <1>3, HighestIs
  <2> DEFINE t == Highest(left)
  <2>2. t \in 1 .. n /\ c.versions[t].scope \notin S
    BY <2>1
  <2>3. ASSUME NEW j \in 1 .. n, j > t PROVE c.versions[j].scope \in S
    <3>1. ~(j <= t)
      BY <2>2, <2>3, <1>1
    <3> QED
      BY <3>1, <2>1
  <2> QED
    BY <2>2, <2>3 DEF Decides
<1> QED
  BY <1>2, <1>3

(* Only whether each version's run is undone matters.                      *)
LEMMA WorldSame ==
    ASSUME NEW c, c.versions \in Seq(Version), NEW d, NEW S, NEW U,
           \A i \in 1 .. Len(c.versions) : c.versions[i].scope \in S <=> c.versions[i].scope \in U
    PROVE  WorldOf(d, c, S) = WorldOf(d, c, U)
<1>1. {i \in DOMAIN c.versions : c.versions[i].scope \notin S}
        = {i \in DOMAIN c.versions : c.versions[i].scope \notin U}
  OBVIOUS
<1> QED
  BY <1>1 DEF WorldOf

(* Compacting changes no world: nothing that could come back is lost.      *)
LEMMA CompactWorld ==
    ASSUME NEW c \in Chain, LiveTop(c.versions), NEW d, NEW S \in SUBSET Run
    PROVE  WorldOf(d, Compact(c), S) = WorldOf(d, c, S)
<1> DEFINE vs == c.versions
           low == Low(vs)
           n == Len(vs)
           I == Kept(vs, low)
           ws == Retain(vs, I)
           m == Len(ws)
           base == IF low = 0 THEN c.base ELSE vs[low].entry
           o == [base |-> base, versions |-> ws]
<1>1. vs \in Seq(Version) /\ n \in Nat
  BY DEF Chain
<1>2. low \in 0 .. n /\ (low > 0 => vs[low].scope = NoRun)
  BY <1>1, LowIs
<1>2a. low > 0 => vs[low].scope \notin S
  BY <1>2, BlackboardAssumption
<1>3. CASE low = n
  <2>1. Compact(c) = NoChain
    BY <1>3, CompactIs
  <2>2. WorldOf(d, Compact(c), S) = d
    BY <2>1, WorldEmpty DEF NoChain
  <2>3. CASE n = 0
    <3>1. vs = <<>>
      BY <2>3, <1>1
    <3> QED
      BY <3>1, <2>2, WorldEmpty
  <2>4. CASE n # 0
    <3>1. n \in 1 .. n /\ vs[n].scope \notin S /\ \A j \in 1 .. n : ~(j > n)
      BY <1>1, <1>2a, <1>3, <2>4
    <3>1a. Decides(c, S, n)
      BY <3>1 DEF Decides
    <3>2. WorldOf(d, c, S) = d
      BY <3>1a, <1>1, WorldAt
    <3> QED
      BY <3>2, <2>2
  <2> QED
    BY <2>3, <2>4
<1>4. CASE low # n
  <2>1. I \in SUBSET (1 .. n)
    BY <1>2 DEF Kept
  <2>2. ws \in Seq(Version)
    BY <1>1, <2>1, RetainIs
  <2>3. PICK f : /\ Enumerates(f, m, I)
                 /\ \A i \in 1 .. m : ws[i] = vs[f[i]]
    BY <1>1, <2>1, RetainIs
  <2>4. Compact(c) = o
    BY <1>4, CompactIs
  <2> HIDE DEF ws
  <2>5. m \in Nat
    BY <2>2
  <2>6. \A i \in 1 .. m : f[i] \in I /\ f[i] \in low + 1 .. n /\ f[i] \in 1 .. n
    BY <2>3, <2>1 DEF Enumerates, Kept
  <2>7. \A i, j \in 1 .. m : i < j => f[i] < f[j]
    BY <2>3 DEF Enumerates
  <2>8. \A x \in I : \E i \in 1 .. m : f[i] = x
    BY <2>3 DEF Enumerates
  <2>9. n \in I /\ vs # <<>> /\ ws # <<>>
    <3>1. n \in I
      BY <1>2, <1>4, <1>1 DEF Kept
    <3>2. m # 0
      BY <3>1, <2>8, <2>5
    <3> QED
      BY <3>1, <3>2, <1>1, <1>2, <1>4
  <2>10. ASSUME \A j \in low + 1 .. n : vs[j].scope \in S
         PROVE  WorldOf(d, o, S) = WorldOf(d, c, S)
    <3>1. \A i \in 1 .. m : ws[i].scope \in S
      BY <2>10, <2>3, <2>6
    <3>2. WorldOf(d, o, S) = base
      BY <3>1, <2>2, <2>9, WorldBase
    <3>3. CASE low = 0
      <4>1. \A j \in 1 .. n : vs[j].scope \in S
        BY <3>3, <2>10
      <4> QED
        BY <4>1, <3>2, <3>3, <2>9, <1>1, WorldBase
    <3>4. CASE low # 0
      <4>1. low \in 1 .. n /\ vs[low].scope \notin S
        BY <3>4, <1>2, <1>2a
      <4>2. \A j \in 1 .. n : j > low => vs[j].scope \in S
        BY <2>10, <1>1, <1>2
      <4>2a. Decides(c, S, low)
        BY <4>1, <4>2 DEF Decides
      <4>3. WorldOf(d, c, S) = vs[low].entry
        BY <4>2a, <1>1, <1>4, WorldAt
      <4> QED
        BY <4>3, <3>2, <3>4
    <3> QED
      BY <3>3, <3>4
  <2>11. ASSUME NEW t \in low + 1 .. n, Decides(c, S, t)
         PROVE  WorldOf(d, o, S) = WorldOf(d, c, S)
    <3>1. t \in 1 .. n
      BY <1>1, <1>2
    <3>1a. vs[t].scope \notin S /\ \A j \in 1 .. n : j > t => vs[j].scope \in S
      BY <2>11 DEF Decides
    <3>2. WorldOf(d, c, S) = IF t = n THEN d ELSE vs[t].entry
      BY <2>11, <1>1, WorldAt
    <3>3. t \in I
      <4> SUFFICES ASSUME NEW j \in t + 1 .. n PROVE vs[j].scope # vs[t].scope
        BY DEF Kept
      <4>1. j \in 1 .. n /\ j > t
        BY <3>1, <1>1
      <4> QED
        BY <4>1, <3>1a
    <3>4. PICK u \in 1 .. m : f[u] = t
      BY <3>3, <2>8
    <3>5. ws[u] = vs[t]
      BY <3>4, <2>3
    <3>6. \A j \in 1 .. m : j > u => ws[j].scope \in S
      <4> SUFFICES ASSUME NEW j \in 1 .. m, j > u PROVE ws[j].scope \in S
        OBVIOUS
      <4>1. f[j] \in 1 .. n /\ f[j] > t
        BY <3>4, <2>5, <2>6, <2>7, <3>1, <1>1
      <4>2. ws[j] = vs[f[j]]
        BY <2>3
      <4> QED
        BY <4>1, <4>2, <3>1a
    <3>6a. Decides(o, S, u)
      BY <3>1a, <3>5, <3>6 DEF Decides
    <3>7. WorldOf(d, o, S) = IF u = m THEN d ELSE ws[u].entry
      BY <3>6a, <2>2, WorldAt
    <3>8. u = m <=> t = n
      <4>1. PICK w \in 1 .. m : f[w] = n
        BY <2>9, <2>8
      <4>2. (u < w => t < n) /\ (w < u => n < t) /\ (w < m => n < f[m])
        BY <4>1, <3>4, <2>5, <2>7
      <4>3. m \in 1 .. m /\ f[m] \in 1 .. n
        BY <4>1, <2>5, <2>6
      <4>4. w = m
        BY <4>1, <4>2, <4>3, <2>5, <1>1
      <4> QED
        BY <4>1, <4>2, <4>4, <3>1, <3>4, <2>5, <1>1
    <3> QED
      BY <3>2, <3>5, <3>7, <3>8
  <2>12. WorldOf(d, o, S) = WorldOf(d, c, S)
    <3>1. CASE \A j \in 1 .. n : vs[j].scope \in S
      <4>1. \A j \in low + 1 .. n : vs[j].scope \in S
        BY <3>1, <1>1, <1>2
      <4> QED
        BY <4>1, <2>10
    <3>2. CASE \E t \in 1 .. n : Decides(c, S, t)
      <4>1. PICK t \in 1 .. n : Decides(c, S, t)
        BY <3>2
      <4>2. CASE t > low
        <5>1. t \in low + 1 .. n
          BY <4>2, <1>1, <1>2
        <5> QED
          BY <5>1, <4>1, <2>11
      <4>3. CASE ~(t > low)
        <5>1. \A j \in low + 1 .. n : j \in 1 .. n /\ j > t
          BY <4>3, <1>1, <1>2
        <5>2. \A j \in low + 1 .. n : vs[j].scope \in S
          BY <5>1, <4>1 DEF Decides
        <5> QED
          BY <5>2, <2>10
      <4> QED
        BY <4>2, <4>3
    <3> QED
      BY <3>1, <3>2, <2>9, <1>1, WorldCases
  <2> QED
    BY <2>4, <2>12
<1> QED
  BY <1>3, <1>4

(* A write shows e in the worlds where its run is not undone and changes   *)
(* no other.                                                               *)
LEMMA RecordWorld ==
    ASSUME NEW c, Good(c), NEW s \in Scope, NEW d \in Entry, NEW e, NEW S \in SUBSET Run
    PROVE  WorldOf(e, Record(c, s, d), S) = IF s \in S THEN WorldOf(d, c, S) ELSE e
<1> DEFINE vs == c.versions
           n == Len(vs)
<1>1. vs \in Seq(Version) /\ n \in Nat
  BY GoodNoChain
<1>2. CASE ~Opens(c, s) /\ vs = <<>>
  <2>1. s \notin S
    BY <1>2, BlackboardAssumption DEF Opens
  <2> QED
    BY <2>1, <1>2, WorldEmpty DEF Record
<1>3. CASE ~Opens(c, s) /\ vs # <<>>
  <2>1. Record(c, s, d) = c /\ vs[n].scope = s /\ n \in 1 .. n
    BY <1>1, <1>3 DEF Record, Opens, Top
  <2>2. CASE s \notin S
    <3>1. Decides(c, S, n)
      BY <2>1, <2>2, <1>1 DEF Decides
    <3> QED
      BY <3>1, <2>1, <2>2, <1>1, WorldAt
  <2>3. CASE s \in S
    <3>1. CASE \A j \in 1 .. n : vs[j].scope \in S
      BY <3>1, <2>1, <2>3, <1>1, <1>3, WorldBase
    <3>2. CASE \E t \in 1 .. n : Decides(c, S, t)
      <4>1. PICK t \in 1 .. n : Decides(c, S, t)
        BY <3>2
      <4>2. t # n
        BY <4>1, <2>1, <2>3 DEF Decides
      <4> QED
        BY <4>1, <4>2, <2>1, <2>3, <1>1, WorldAt
    <3> QED
      BY <3>1, <3>2, <1>1, <1>3, WorldCases
  <2> QED
    BY <2>2, <2>3
<1>4. CASE Opens(c, s) /\ vs = <<>>
  <2> DEFINE o == [base |-> d, versions |-> <<[scope |-> s, entry |-> Live]>>]
  <2>1. Record(c, s, d) = o /\ WorldOf(d, c, S) = d
    BY <1>4, WorldEmpty DEF Record
  <2>2. o.versions \in Seq(Version) /\ Len(o.versions) = 1 /\ o.versions[1].scope = s /\ o.base = d
        /\ o.versions # <<>>
    BY DEF Version
  <2> HIDE DEF o
  <2>3. CASE s \in S
    BY <2>1, <2>2, <2>3, WorldBase
  <2>4. CASE s \notin S
    <3>1. Decides(o, S, 1)
      BY <2>2, <2>4 DEF Decides
    <3> QED
      BY <3>1, <2>1, <2>2, <2>4, WorldAt
  <2> QED
    BY <2>3, <2>4
<1>5. CASE Opens(c, s) /\ vs # <<>>
  <2> DEFINE p == Push(c, s, d)
  <2>1. Record(c, s, d) = Compact(p)
    BY <1>5 DEF Record
  <2>2. /\ p \in Chain /\ LiveTop(p.versions) /\ Len(p.versions) = n + 1
        /\ p.versions[n + 1] = [scope |-> s, entry |-> Live]
        /\ \A i \in 1 .. n : p.versions[i] =
              IF i = n THEN [scope |-> vs[i].scope, entry |-> d] ELSE vs[i]
    BY <1>5, PushLiveTop
  <2>2a. p.base = c.base
    BY DEF Push
  <2> HIDE DEF p
  <2>3. p.versions \in Seq(Version) /\ p.versions # <<>> /\ p.versions[n + 1].scope = s
    BY <2>2, <1>1 DEF Chain
  <2>4. \A i \in 1 .. n : p.versions[i].scope = vs[i].scope
    <3> TAKE i \in 1 .. n
    <3>1. CASE i = n
      <4>1. p.versions[i] = [scope |-> vs[i].scope, entry |-> d]
        BY <3>1, <2>2
      <4> QED
        BY <4>1
    <3>2. CASE i # n
      BY <3>2, <2>2
    <3> QED
      BY <3>1, <3>2
  <2>5. WorldOf(e, Record(c, s, d), S) = WorldOf(e, p, S)
    BY <2>1, <2>2, CompactWorld
  <2>6. CASE s \notin S
    <3>1. Decides(p, S, n + 1)
      BY <2>2, <2>3, <2>6, <1>1 DEF Decides
    <3> QED
      BY <3>1, <2>2, <2>3, <2>5, <2>6, WorldAt
  <2>7. CASE s \in S
    <3>1. CASE \A j \in 1 .. n : vs[j].scope \in S
      <4>1. ASSUME NEW j \in 1 .. n + 1 PROVE p.versions[j].scope \in S
        <5>1. j \in 1 .. n \/ j = n + 1
          BY <1>1
        <5> QED
          BY <5>1, <3>1, <2>3, <2>4, <2>7
      <4>2. WorldOf(e, p, S) = c.base
        BY <4>1, <2>2, <2>2a, <2>3, WorldBase
      <4>3. WorldOf(d, c, S) = c.base
        BY <3>1, <1>1, <1>5, WorldBase
      <4> QED
        BY <4>2, <4>3, <2>5, <2>7
    <3>2. CASE \E t \in 1 .. n : Decides(c, S, t)
      <4>1. PICK t \in 1 .. n : Decides(c, S, t)
        BY <3>2
      <4>2. Decides(p, S, t)
        <5>1. t \in 1 .. n + 1 /\ p.versions[t].scope \notin S
          BY <4>1, <2>4, <1>1 DEF Decides
        <5>2. ASSUME NEW j \in 1 .. n + 1, j > t PROVE p.versions[j].scope \in S
          <6>1. j \in 1 .. n \/ j = n + 1
            BY <1>1
          <6> QED
            BY <6>1, <5>2, <4>1, <2>3, <2>4, <2>7 DEF Decides
        <5> QED
          BY <5>1, <5>2, <2>2 DEF Decides
      <4>3. WorldOf(e, p, S) = p.versions[t].entry
        <5>1. t # n + 1
          BY <1>1
        <5> QED
          BY <5>1, <4>2, <2>2, <2>3, WorldAt
      <4>4. WorldOf(d, c, S) = IF t = n THEN d ELSE vs[t].entry
        BY <4>1, <1>1, WorldAt
      <4>5. p.versions[t].entry = IF t = n THEN d ELSE vs[t].entry
        <5>1. CASE t = n
          <6>1. p.versions[t] = [scope |-> vs[t].scope, entry |-> d]
            BY <5>1, <2>2
          <6> QED
            BY <5>1, <6>1
        <5>2. CASE t # n
          BY <5>2, <2>2
        <5> QED
          BY <5>1, <5>2
      <4> QED
        BY <4>3, <4>4, <4>5, <2>5, <2>7
    <3> QED
      BY <3>1, <3>2, <1>1, <1>5, WorldCases
  <2> QED
    BY <2>6, <2>7
<1> QED
  BY <1>2, <1>3, <1>4, <1>5

(* Confirming r: no world can lose its versions any more.                  *)
LEMMA CommitWorld ==
    ASSUME NEW c, Good(c), NEW r \in Run, NEW d, NEW S \in SUBSET Run
    PROVE  WorldOf(d, CommitChain(c, r), S) = WorldOf(d, c, S \ {r})
<1> DEFINE o == Confirmed(c, r)
           n == Len(c.versions)
<1>1. CommitChain(c, r) = Compact(o)
  BY DEF CommitChain, Confirmed
<1> HIDE DEF o
<1>2. /\ o \in Chain /\ LiveTop(o.versions) /\ o.base = c.base /\ Len(o.versions) = n
      /\ \A i \in 1 .. n :
            /\ o.versions[i].scope = IF c.versions[i].scope = r THEN NoRun ELSE c.versions[i].scope
            /\ o.versions[i].entry = c.versions[i].entry
  BY ConfirmedIs DEF o
<1>3. c.versions \in Seq(Version) /\ n \in Nat /\ o.versions \in Seq(Version)
  BY <1>2, GoodNoChain DEF Chain
<1>4. \A i \in 1 .. n : o.versions[i].scope \in S <=> c.versions[i].scope \in S \ {r}
  BY <1>2, BlackboardAssumption
<1>5. WorldOf(d, CommitChain(c, r), S) = WorldOf(d, o, S)
  BY <1>1, <1>2, CompactWorld
<1>6. CASE n = 0
  <2>1. c.versions = <<>> /\ o.versions = <<>>
    BY <1>2, <1>3, <1>6
  <2> QED
    BY <2>1, <1>5, WorldEmpty
<1>7. CASE n # 0
  <2>1. c.versions # <<>> /\ o.versions # <<>>
    BY <1>2, <1>3, <1>7
  <2>2. CASE \A j \in 1 .. n : c.versions[j].scope \in S \ {r}
    <3>1. WorldOf(d, o, S) = c.base
      BY <2>1, <2>2, <1>2, <1>3, <1>4, WorldBase
    <3>2. WorldOf(d, c, S \ {r}) = c.base
      BY <2>1, <2>2, <1>3, WorldBase
    <3> QED
      BY <3>1, <3>2, <1>5
  <2>3. CASE \E t \in 1 .. n : Decides(c, S \ {r}, t)
    <3>1. PICK t \in 1 .. n : Decides(c, S \ {r}, t)
      BY <2>3
    <3>2. Decides(o, S, t)
      BY <3>1, <1>2, <1>4 DEF Decides
    <3>3. WorldOf(d, c, S \ {r}) = IF t = n THEN d ELSE c.versions[t].entry
      BY <3>1, <1>3, WorldAt
    <3>4. WorldOf(d, o, S) = IF t = n THEN d ELSE o.versions[t].entry
      BY <3>2, <1>2, <1>3, WorldAt
    <3> QED
      BY <3>3, <3>4, <1>2, <1>5
  <2> QED
    BY <2>1, <2>2, <2>3, <1>3, WorldCases
<1> QED
  BY <1>6, <1>7

(* Without the versions of r, the version that decides is the one that     *)
(* decided among the others.                                               *)
LEMMA OthersDecide ==
    ASSUME NEW c, Good(c), NEW r \in Run, NEW S, NEW t, Decides(c, S \cup {r}, t)
    PROVE  LET ws == Retain(c.versions, Others(c, r))
           IN  \E u \in 1 .. Len(ws) :
                  /\ ws[u] = c.versions[t] /\ ws[u].scope \notin S
                  /\ \A j \in 1 .. Len(ws) : j > u => ws[j].scope \in S
                  /\ c.versions[Len(c.versions)].scope # r =>
                        (u = Len(ws) <=> t = Len(c.versions))
<1> DEFINE vs == c.versions
           n == Len(vs)
           ws == Retain(vs, Others(c, r))
           m == Len(ws)
<1>1. vs \in Seq(Version) /\ n \in Nat /\ DOMAIN vs = 1 .. n
  BY GoodNoChain
<1>2. ws \in Seq(Version)
  BY OthersAre
<1>3. PICK f : /\ Enumerates(f, m, Others(c, r))
               /\ \A i \in 1 .. m : /\ f[i] \in 1 .. n
                                    /\ ws[i] = vs[f[i]]
                                    /\ ws[i].scope \in Scopes(c) \ {r}
               /\ \A i, j \in 1 .. m : i < j => f[i] < f[j]
  BY OthersAre
<1> HIDE DEF ws
<1>4. m \in Nat
  BY <1>2
<1>5. t \in 1 .. n /\ vs[t].scope \notin S /\ vs[t].scope # r
      /\ \A j \in 1 .. n : j > t => vs[j].scope \in S \cup {r}
  BY DEF Decides
<1>6. \A x \in 1 .. n : vs[x].scope # r => \E i \in 1 .. m : f[i] = x
  BY <1>1, <1>3 DEF Enumerates, Others
<1>7. PICK u \in 1 .. m : f[u] = t
  BY <1>5, <1>6
<1>8. ws[u] = vs[t] /\ ws[u].scope \notin S
  BY <1>3, <1>5, <1>7
<1>9. ASSUME NEW j \in 1 .. m, j > u PROVE ws[j].scope \in S
  <2>1. f[j] \in 1 .. n /\ f[j] > t
    BY <1>3, <1>4, <1>5, <1>7, <1>9, <1>1
  <2>2. ws[j] = vs[f[j]] /\ ws[j].scope # r
    BY <1>3
  <2> QED
    BY <2>1, <2>2, <1>5
<1>10. ASSUME vs[n].scope # r PROVE u = m <=> t = n
  <2>1. n \in 1 .. n
    BY <1>1, <1>5
  <2>2. PICK w \in 1 .. m : f[w] = n
    BY <2>1, <1>6, <1>10
  <2>3. m \in 1 .. m /\ f[m] \in 1 .. n
    BY <2>2, <1>3, <1>4
  <2>4. (u < w => t < n) /\ (w < u => n < t) /\ (w < m => n < f[m])
    BY <2>2, <2>3, <1>3, <1>7
  <2>5. w = m
    BY <2>2, <2>3, <2>4, <1>1, <1>4
  <2> QED
    BY <2>2, <2>4, <2>5, <1>1, <1>4, <1>5, <1>7
<1> QED
  BY <1>8, <1>9, <1>10 DEF ws

(* Undoing r: every world becomes the one where r never wrote.             *)
LEMMA RollbackWorld ==
    ASSUME NEW c, Good(c), NEW r \in Run, NEW d, NEW S \in SUBSET Run
    PROVE  WorldOf(RollbackData(d, c, r), RollbackChain(c, r), S) = WorldOf(d, c, S \cup {r})
<1> DEFINE vs == c.versions
           n == Len(vs)
           ws == Retain(vs, Others(c, r))
           m == Len(ws)
           U == S \cup {r}
<1>1. vs \in Seq(Version) /\ n \in Nat /\ DOMAIN vs = 1 .. n /\ (vs # <<>> => n \in 1 .. n)
  BY GoodNoChain
<1>2. ws \in Seq(Version)
  BY OthersAre
<1>3. PICK f : /\ Enumerates(f, m, Others(c, r))
               /\ \A i \in 1 .. m : /\ f[i] \in 1 .. n
                                    /\ ws[i] = vs[f[i]]
                                    /\ ws[i].scope \in Scopes(c) \ {r}
  BY OthersAre
<1>4. \A t : Decides(c, U, t) => \E u \in 1 .. m :
                  /\ ws[u] = vs[t] /\ ws[u].scope \notin S
                  /\ \A j \in 1 .. m : j > u => ws[j].scope \in S
                  /\ vs[n].scope # r => (u = m <=> t = n)
  BY OthersDecide
<1>5. (\A j \in 1 .. n : vs[j].scope \in U) => \A i \in 1 .. m : ws[i].scope \in S
  BY <1>3
<1>6. \A x \in 1 .. n : vs[x].scope # r => \E i \in 1 .. m : f[i] = x
  BY <1>1, <1>3 DEF Enumerates, Others
<1>7. CASE vs = <<>>
  <2>1. ~TopIs(c, r)
    BY <1>7 DEF TopIs
  <2>2. ws = <<>>
    <3>1. m \in Nat /\ n = 0
      BY <1>2, <1>7
    <3>2. ~(1 \in 1 .. m)
      BY <3>1, <1>3
    <3> HIDE DEF ws
    <3> QED
      BY <3>1, <3>2, <1>2
  <2>3. RollbackChain(c, r).versions = <<>> /\ RollbackData(d, c, r) = d
    BY <2>1, <2>2 DEF RollbackChain, RollbackData
  <2> QED
    BY <2>3, <1>7, WorldEmpty
<1>8. CASE vs # <<>> /\ ~TopIs(c, r)
  <2> DEFINE o == [base |-> c.base, versions |-> ws]
  <2>1. RollbackChain(c, r) = o /\ RollbackData(d, c, r) = d
    BY <1>8 DEF RollbackChain, RollbackData
  <2>2. vs[n].scope # r /\ n \in 1 .. n
    BY <1>1, <1>8 DEF TopIs, Top
  <2> HIDE DEF ws
  <2>3. ws # <<>>
    <3>1. PICK i \in 1 .. m : f[i] = n
      BY <2>2, <1>6
    <3> QED
      BY <3>1, <1>2
  <2>4. CASE \A j \in 1 .. n : vs[j].scope \in U
    <3>1. WorldOf(d, o, S) = c.base
      BY <2>3, <2>4, <1>2, <1>5, WorldBase
    <3>2. WorldOf(d, c, U) = c.base
      BY <2>4, <1>1, <1>8, WorldBase
    <3> QED
      BY <3>1, <3>2, <2>1
  <2>5. CASE \E t \in 1 .. n : Decides(c, U, t)
    <3>1. PICK t \in 1 .. n : Decides(c, U, t)
      BY <2>5
    <3>2. PICK u \in 1 .. m : /\ ws[u] = vs[t] /\ ws[u].scope \notin S
                              /\ \A j \in 1 .. m : j > u => ws[j].scope \in S
                              /\ (u = m <=> t = n)
      BY <3>1, <2>2, <1>4
    <3>3. Decides(o, S, u)
      BY <3>2 DEF Decides
    <3>4. WorldOf(d, o, S) = IF u = m THEN d ELSE ws[u].entry
      BY <3>3, <1>2, WorldAt
    <3>5. WorldOf(d, c, U) = IF t = n THEN d ELSE vs[t].entry
      BY <3>1, <1>1, WorldAt
    <3> QED
      BY <3>2, <3>4, <3>5, <2>1
  <2> QED
    BY <2>4, <2>5, <1>1, <1>8, WorldCases
<1>9. CASE TopIs(c, r) /\ ws = <<>>
  <2>1. RollbackChain(c, r) = NoChain /\ RollbackData(d, c, r) = c.base /\ vs # <<>>
    BY <1>9 DEF RollbackChain, RollbackData, Survivor, TopIs
  <2>2. m = 0
    BY <1>9
  <2> HIDE DEF ws
  <2>3. \A j \in 1 .. n : vs[j].scope \in U
    BY <2>2, <1>6
  <2>4. WorldOf(d, c, U) = c.base
    BY <2>1, <2>3, <1>1, WorldBase
  <2> QED
    BY <2>1, <2>4, WorldEmpty DEF NoChain
<1>10. CASE TopIs(c, r) /\ ws # <<>>
  <2> DEFINE o == Reopened(c, r)
             e == ws[m].entry
  <2>1. RollbackChain(c, r) = Compact(o)
    BY <1>10 DEF RollbackChain, Reopened
  <2>2. RollbackData(d, c, r) = e
    BY <1>10 DEF RollbackData, Survivor
  <2>3. vs # <<>> /\ vs[n].scope = r
    BY <1>10 DEF TopIs, Top
  <2> HIDE DEF o
  <2>4. /\ o \in Chain /\ LiveTop(o.versions) /\ Len(o.versions) = m /\ o.base = c.base
        /\ \A i \in 1 .. m : /\ o.versions[i].scope = ws[i].scope
                             /\ i # m => o.versions[i] = ws[i]
    BY <1>10, ReopenedIs DEF o
  <2> HIDE DEF ws
  <2>5. o.versions \in Seq(Version) /\ o.versions # <<>> /\ m \in Nat
    BY <2>4, <1>2, <1>10 DEF Chain
  <2>6. WorldOf(RollbackData(d, c, r), RollbackChain(c, r), S) = WorldOf(e, o, S)
    BY <2>1, <2>2, <2>4, CompactWorld
  <2>7. CASE \A j \in 1 .. n : vs[j].scope \in U
    <3>1. WorldOf(e, o, S) = c.base
      BY <2>4, <2>5, <2>7, <1>5, WorldBase
    <3>2. WorldOf(d, c, U) = c.base
      BY <2>3, <2>7, <1>1, WorldBase
    <3> QED
      BY <3>1, <3>2, <2>6
  <2>8. CASE \E t \in 1 .. n : Decides(c, U, t)
    <3>1. PICK t \in 1 .. n : Decides(c, U, t)
      BY <2>8
    <3>2. t # n
      BY <3>1, <2>3 DEF Decides
    <3>3. PICK u \in 1 .. m : /\ ws[u] = vs[t] /\ ws[u].scope \notin S
                              /\ \A j \in 1 .. m : j > u => ws[j].scope \in S
                              /\ vs[n].scope # r => (u = m <=> t = n)
      BY <3>1, <1>4, Zenon
    <3>4. Decides(o, S, u)
      BY <3>3, <2>4 DEF Decides
    <3>5. WorldOf(e, o, S) = IF u = m THEN e ELSE o.versions[u].entry
      BY <3>4, <2>4, <2>5, WorldAt
    <3>6. WorldOf(e, o, S) = ws[u].entry
      BY <3>5, <2>4
    <3>7. WorldOf(d, c, U) = vs[t].entry
      BY <3>1, <3>2, <1>1, WorldAt
    <3> QED
      BY <3>3, <3>6, <3>7, <2>6
  <2> QED
    BY <2>3, <2>7, <2>8, <1>1, WorldCases
<1> QED
  BY <1>7, <1>8, <1>9, <1>10

-----------------------------------------------------------------------------
(* The chains implement the journal.                                       *)

World == [k \in Key |-> [S \in SUBSET Run |-> WorldOf(data[k], chain[k], S)]]
Status == [r \in Run |-> StatusOf(r)]

(* An empty blackboard is an empty journal.                                *)
LEMMA InitRefines == Init => Journal!Init
<1> SUFFICES ASSUME Init PROVE Journal!Init
  OBVIOUS
<1>1. \A k \in Key, S \in SUBSET Run : WorldOf(data[k], chain[k], S) = Absent
  BY WorldEmpty DEF Init, NoChain
<1>2. \A r \in Run : StatusOf(r) = "idle"
  BY BlackboardAssumption DEF Init, StatusOf, Running
<1> QED
  BY <1>1, <1>2 DEF Journal!Init

(* write and delete are the journal's Write.                               *)
LEMMA ChangeRefines ==
    ASSUME Inv, NEW s \in Scope, NEW k \in Key, NEW e \in Entry, Change(s, k, e)
    PROVE  Journal!Write(s, k, e)
<1>1. TypeOK /\ AllGood
  BY GoodChains DEF Inv
<1>2. /\ data' = [data EXCEPT ![k] = e] /\ data \in [Key -> Entry]
      /\ chain' = [chain EXCEPT ![k] = Record(chain[k], s, data[k])] /\ chain \in [Key -> Chain]
      /\ UNCHANGED <<owner, agents>> /\ Running(s)
  BY <1>1 DEF Change, TypeOK
<1>3. \A S \in SUBSET Run : WorldOf(data'[k], chain'[k], S)
         = IF s \in S THEN WorldOf(data[k], chain[k], S) ELSE e
  <2> TAKE S \in SUBSET Run
  <2>1. data'[k] = e /\ chain'[k] = Record(chain[k], s, data[k]) /\ data[k] \in Entry /\ Good(chain[k])
    BY <1>1, <1>2 DEF AllGood
  <2> QED
    BY <2>1, RecordWorld
<1>4. \A j \in Key \ {k} : data'[j] = data[j] /\ chain'[j] = chain[j]
  BY <1>2
<1>5. World' = [World EXCEPT ![k] =
                   [S \in SUBSET Run |-> IF s \in S THEN World[k][S] ELSE e]]
  BY <1>3, <1>4 DEF World
<1>6. ASSUME NEW r \in Run PROVE runs'[r].cut = runs[r].cut
  <2>1. runs \in [Run -> RunState]
    BY <1>1 DEF TypeOK
  <2>2. CASE s # NoRun /\ Opens(chain[k], s)
    <3>1. s \in Run
      BY <2>2 DEF Scope
    <3>2. runs' = [runs EXCEPT ![s].keys = runs[s].keys \cup {k}]
      BY <2>2 DEF Change
    <3>3. runs'[s] = [runs[s] EXCEPT !.keys = runs[s].keys \cup {k}] /\ runs[s] \in RunState
      BY <3>1, <3>2, <2>1
    <3>4. runs'[s].cut = runs[s].cut
      BY <3>3 DEF RunState
    <3> QED
      BY <3>1, <3>2, <3>4, <2>1
  <2>3. CASE ~(s # NoRun /\ Opens(chain[k], s))
    BY <2>3 DEF Change
  <2> QED
    BY <2>2, <2>3
<1>7. Status' = Status
  BY <1>2, <1>6 DEF Status, StatusOf, Running
<1>8. s # NoRun => Status[s] # "idle"
  BY <1>2 DEF Status, StatusOf, Scope
<1> QED
  BY <1>5, <1>7, <1>8 DEF Journal!Write, World, Status

(* The end of a part of r is an undo, a commit or, when neither, a stutter. *)
LEMMA EndPartRefines ==
    ASSUME Inv, NEW r \in Run, NEW undo \in BOOLEAN, NEW st \in RunState,
           st.keys = runs[r].keys, st.cut = runs[r].cut, runs[r].cut => undo,
           EndPart(r, st, undo), Running(r), Finished(st) <=> ~Running(r)',
           \A q \in Run \ {r} : owner'[q] = owner[q] /\ agents'[q] = agents[q]
    PROVE  Journal!Undo(r) \/ Journal!Commit(r) \/ UNCHANGED <<World, Status>>
<1>1. TypeOK /\ AllGood /\ Covers
  BY GoodChains, CoversIs DEF Inv
<1>2. runs \in [Run -> RunState] /\ \A k \in Key : Good(chain[k])
  BY <1>1 DEF TypeOK, AllGood
<1>3. runs' = [runs EXCEPT ![r] = IF Finished(st) THEN NewRun
                                  ELSE IF undo THEN [st EXCEPT !.cut = TRUE, !.keys = {}]
                                  ELSE st]
  BY DEF EndPart
<1>4. \A q \in Run \ {r} : StatusOf(q)' = StatusOf(q)
  BY <1>2, <1>3 DEF StatusOf, Running
<1>5. StatusOf(r) = IF runs[r].cut THEN "undone" ELSE "open"
  BY DEF StatusOf
<1>6. \A k \in Key : k \notin st.keys => r \notin Scopes(chain[k])
  BY <1>1 DEF Covers
<1>7. \A k \in Key : chain[k].versions \in Seq(Version)
  BY <1>2, GoodNoChain
<1>8. ASSUME NEW k \in Key, k \notin st.keys, NEW d, NEW S \in SUBSET Run
      PROVE  /\ WorldOf(d, chain[k], S) = WorldOf(d, chain[k], S \cup {r})
             /\ WorldOf(d, chain[k], S) = WorldOf(d, chain[k], S \ {r})
  <2>1. \A i \in 1 .. Len(chain[k].versions) : chain[k].versions[i].scope # r
    BY <1>6, <1>8 DEF Scopes
  <2>2. WorldOf(d, chain[k], S) = WorldOf(d, chain[k], S \cup {r})
    BY <2>1, <1>7, WorldSame
  <2>3. WorldOf(d, chain[k], S) = WorldOf(d, chain[k], S \ {r})
    BY <2>1, <1>7, WorldSame
  <2> QED
    BY <2>2, <2>3
<1>9. CASE undo
  <2>1. ASSUME NEW k \in Key, NEW S \in SUBSET Run
        PROVE  WorldOf(data'[k], chain'[k], S) = WorldOf(data[k], chain[k], S \cup {r})
    <3>1. CASE k \in st.keys
      <4>1. data'[k] = RollbackData(data[k], chain[k], r) /\ chain'[k] = RollbackChain(chain[k], r)
        BY <1>9, <3>1 DEF EndPart
      <4> QED
        BY <4>1, <1>2, RollbackWorld
    <3>2. CASE k \notin st.keys
      <4>1. data'[k] = data[k] /\ chain'[k] = chain[k]
        BY <1>9, <3>2 DEF EndPart
      <4> QED
        BY <4>1, <3>2, <1>8
    <3> QED
      BY <3>1, <3>2
  <2>2. World' = [k \in Key |-> [S \in SUBSET Run |-> World[k][S \cup {r}]]]
    <3>1. \A k \in Key, S \in SUBSET Run : World[k][S \cup {r}] = WorldOf(data[k], chain[k], S \cup {r})
      BY DEF World
    <3> QED
      BY <3>1, <2>1 DEF World
  <2>3. StatusOf(r)' \in {"undone", "idle"}
    <3>1. CASE Finished(st)
      BY <3>1 DEF StatusOf
    <3>2. CASE ~Finished(st)
      <4>1. runs'[r] = [st EXCEPT !.cut = TRUE, !.keys = {}]
        BY <3>2, <1>2, <1>3, <1>9
      <4>2. runs'[r].cut
        BY <4>1 DEF RunState
      <4> QED
        BY <4>2, <3>2 DEF StatusOf
    <3> QED
      BY <3>1, <3>2
  <2>4. \E left \in {"undone", "idle"} : Status' = [Status EXCEPT ![r] = left]
    BY <2>3, <1>4 DEF Status
  <2>5. Status[r] # "idle"
    BY <1>5 DEF Status
  <2> QED
    BY <2>2, <2>4, <2>5 DEF Journal!Undo, World, Status
<1>10. CASE ~undo /\ Finished(st)
  <2>1. ASSUME NEW k \in Key, NEW S \in SUBSET Run
        PROVE  WorldOf(data'[k], chain'[k], S) = WorldOf(data[k], chain[k], S \ {r})
    <3>1. CASE k \in st.keys
      <4>1. data'[k] = data[k] /\ chain'[k] = CommitChain(chain[k], r)
        BY <1>10, <3>1 DEF EndPart
      <4> QED
        BY <4>1, <1>2, CommitWorld
    <3>2. CASE k \notin st.keys
      <4>1. data'[k] = data[k] /\ chain'[k] = chain[k]
        BY <1>10, <3>2 DEF EndPart
      <4>2. WorldOf(data[k], chain[k], S) = WorldOf(data[k], chain[k], S \ {r})
        BY <3>2, <1>8
      <4> QED
        BY <4>1, <4>2
    <3> QED
      BY <3>1, <3>2
  <2>2. World' = [k \in Key |-> [S \in SUBSET Run |-> World[k][S \ {r}]]]
    <3>1. \A k \in Key, S \in SUBSET Run : World[k][S \ {r}] = WorldOf(data[k], chain[k], S \ {r})
      BY DEF World
    <3> QED
      BY <3>1, <2>1 DEF World
  <2>3. StatusOf(r)' = "idle" /\ StatusOf(r) = "open"
    BY <1>5, <1>10 DEF StatusOf
  <2>4. Status' = [Status EXCEPT ![r] = "idle"] /\ Status[r] = "open"
    BY <2>3, <1>4 DEF Status
  <2> QED
    BY <2>2, <2>4 DEF Journal!Commit, World, Status
<1>11. CASE ~undo /\ ~Finished(st)
  <2>1. \A k \in Key : data'[k] = data[k] /\ chain'[k] = chain[k]
    BY <1>11 DEF EndPart
  <2>2. World' = World
    BY <2>1 DEF World
  <2>3. runs'[r].cut = runs[r].cut
    BY <1>2, <1>3, <1>11
  <2>4. StatusOf(r)' = StatusOf(r)
    BY <2>3, <1>11 DEF StatusOf
  <2>5. Status' = Status
    BY <2>4, <1>4 DEF Status
  <2> QED
    BY <2>2, <2>5
<1> QED
  BY <1>9, <1>10, <1>11

(* close_run is an undo, a commit or a stutter of the journal.             *)
LEMMA CloseRunRefines ==
    ASSUME Inv, NEW r \in Run, NEW cut \in BOOLEAN, CloseRun(r, cut)
    PROVE  Journal!Undo(r) \/ Journal!Commit(r) \/ UNCHANGED <<World, Status>>
<1> DEFINE st == [runs[r] EXCEPT !.closed = TRUE]
<1>1. runs[r] \in RunState /\ agents[r] \in Nat /\ owner \in [Run -> BOOLEAN]
      /\ runs[r].live = agents[r]
  BY DEF Inv, TypeOK, RunStateMatchesThreads
<1>2. st \in RunState /\ st.keys = runs[r].keys /\ st.cut = runs[r].cut
      /\ st.live = agents[r] /\ st.closed = TRUE
  BY <1>1 DEF RunState
<1>3. owner' = [owner EXCEPT ![r] = FALSE] /\ agents' = agents /\ owner[r]
      /\ EndPart(r, st, cut \/ runs[r].cut)
  BY DEF CloseRun
<1> HIDE DEF st
<1>4. Running(r)
  BY <1>3 DEF Running
<1>5. Finished(st) <=> ~Running(r)'
  <2>1. owner'[r] = FALSE
    BY <1>1, <1>3
  <2> QED
    BY <2>1, <1>1, <1>2, <1>3, BlackboardAssumption DEF Finished, Running
<1>6. \A q \in Run \ {r} : owner'[q] = owner[q] /\ agents'[q] = agents[q]
  BY <1>1, <1>3
<1>7. (cut \/ runs[r].cut) \in BOOLEAN /\ (runs[r].cut => (cut \/ runs[r].cut))
  OBVIOUS
<1> QED
  BY <1>2, <1>3, <1>4, <1>5, <1>6, <1>7, EndPartRefines

(* agent_done is an undo, a commit or a stutter of the journal.            *)
LEMMA AgentDoneRefines ==
    ASSUME Inv, NEW r \in Run, NEW cut \in BOOLEAN, AgentDone(r, cut)
    PROVE  Journal!Undo(r) \/ Journal!Commit(r) \/ UNCHANGED <<World, Status>>
<1> DEFINE st == [runs[r] EXCEPT !.live = IF @ = 0 THEN 0 ELSE @ - 1]
<1>1. runs[r] \in RunState /\ agents[r] \in Nat /\ agents \in [Run -> Nat] /\ owner[r] \in BOOLEAN
      /\ runs[r].live = agents[r] /\ agents[r] > 0
      /\ runs[r].closed = (~owner[r] /\ agents[r] > 0)
  BY DEF Inv, TypeOK, RunStateMatchesThreads, AgentDone
<1>2. st \in RunState /\ st.keys = runs[r].keys /\ st.cut = runs[r].cut
      /\ st.live = agents[r] - 1 /\ st.closed = runs[r].closed
  <2>1. st = [runs[r] EXCEPT !.live = agents[r] - 1]
    BY <1>1
  <2> QED
    BY <2>1, <1>1 DEF RunState
<1>3. agents' = [agents EXCEPT ![r] = agents[r] - 1] /\ owner' = owner
      /\ EndPart(r, st, cut \/ runs[r].cut)
  BY DEF AgentDone
<1> HIDE DEF st
<1>4. Running(r)
  BY <1>1 DEF Running
<1>5. Finished(st) <=> ~Running(r)'
  <2>1. agents'[r] = agents[r] - 1
    BY <1>1, <1>3
  <2>2. st.closed <=> ~owner[r]
    BY <1>1, <1>2
  <2> QED
    BY <2>1, <2>2, <1>1, <1>2, <1>3, BlackboardAssumption DEF Finished, Running
<1>6. \A q \in Run \ {r} : owner'[q] = owner[q] /\ agents'[q] = agents[q]
  BY <1>1, <1>3
<1>7. (cut \/ runs[r].cut) \in BOOLEAN /\ (runs[r].cut => (cut \/ runs[r].cut))
  OBVIOUS
<1> QED
  BY <1>2, <1>3, <1>4, <1>5, <1>6, <1>7, EndPartRefines

(* An entry of serve opens its run in the journal.                         *)
LEMMA OpenRunRefines ==
    ASSUME Inv, NEW r \in Run, OpenRun(r)
    PROVE  Journal!Open(r)
<1>1. runs[r] = NewRun /\ owner \in [Run -> BOOLEAN] /\ ~Running(r)
  BY DEF Inv, RunStateMatchesThreads, OpenRun, TypeOK
<1>2. owner' = [owner EXCEPT ![r] = TRUE] /\ UNCHANGED <<data, chain, runs, agents>>
  BY DEF OpenRun
<1>3. World' = World
  BY <1>2 DEF World
<1>4. \A q \in Run \ {r} : StatusOf(q)' = StatusOf(q)
  BY <1>1, <1>2 DEF StatusOf, Running
<1>5. StatusOf(r) = "idle"
  BY <1>1 DEF StatusOf
<1>6. StatusOf(r)' = "open"
  <2>1. owner'[r] /\ runs'[r].cut = FALSE
    BY <1>1, <1>2 DEF NewRun
  <2> QED
    BY <2>1 DEF StatusOf, Running
<1>7. Status[r] = "idle" /\ Status' = [Status EXCEPT ![r] = "open"]
  BY <1>4, <1>5, <1>6 DEF Status
<1> QED
  BY <1>3, <1>7 DEF Journal!Open, World, Status

(* Launching an agent changes nothing in the journal.                      *)
LEMMA AgentStartedRefines ==
    ASSUME Inv, NEW r \in Run, AgentStarted(r)
    PROVE  UNCHANGED <<World, Status>>
<1>1. runs \in [Run -> RunState] /\ agents \in [Run -> Nat] /\ Running(r)
  BY DEF Inv, TypeOK, AgentStarted
<1>2. /\ runs' = [runs EXCEPT ![r].live = runs[r].live + 1]
      /\ agents' = [agents EXCEPT ![r] = agents[r] + 1]
      /\ UNCHANGED <<data, chain, owner>>
  BY DEF AgentStarted
<1>3. World' = World
  BY <1>2 DEF World
<1>4. runs'[r] = [runs[r] EXCEPT !.live = runs[r].live + 1] /\ runs[r] \in RunState
      /\ \A q \in Run \ {r} : runs'[q] = runs[q] /\ agents'[q] = agents[q]
  BY <1>1, <1>2
<1>5. runs'[r].cut = runs[r].cut
  BY <1>4 DEF RunState
<1>6. agents'[r] > 0
  BY <1>1, <1>2
<1>7. StatusOf(r)' = StatusOf(r)
  BY <1>1, <1>5, <1>6 DEF StatusOf, Running
<1>8. \A q \in Run \ {r} : StatusOf(q)' = StatusOf(q)
  BY <1>2, <1>4 DEF StatusOf, Running
<1>9. Status' = Status
  BY <1>7, <1>8 DEF Status
<1> QED
  BY <1>3, <1>9

(* Every step is a step of the journal or a stutter.                       *)
LEMMA NextRefines == Inv /\ [Next]_vars => [Journal!Next]_<<World, Status>>
<1> SUFFICES ASSUME Inv, [Next]_vars PROVE [Journal!Next]_<<World, Status>>
  OBVIOUS
<1>1. CASE UNCHANGED vars
  BY <1>1 DEF vars, World, Status, StatusOf, Running
<1>2. ASSUME NEW s \in Scope, NEW k \in Key, NEW v \in Val, Write(s, k, v)
      PROVE  Journal!Next
  <2>1. v \in Entry /\ Journal!Write(s, k, v)
    BY <1>2, ChangeRefines DEF Write, Entry
  <2> QED
    BY <2>1 DEF Journal!Next, Journal!Scope, Journal!Entry, Scope, Entry
<1>3. ASSUME NEW s \in Scope, NEW k \in Key, Delete(s, k)
      PROVE  Journal!Next
  <2>1. Absent \in Entry /\ Journal!Write(s, k, Absent)
    BY <1>3, ChangeRefines DEF Delete, Entry
  <2> QED
    BY <2>1 DEF Journal!Next, Journal!Scope, Journal!Entry, Scope, Entry
<1>4. ASSUME NEW r \in Run, OpenRun(r)
      PROVE  Journal!Next
  BY <1>4, OpenRunRefines DEF Journal!Next
<1>5. ASSUME NEW r \in Run, AgentStarted(r)
      PROVE  UNCHANGED <<World, Status>>
  BY <1>5, AgentStartedRefines
<1>6. ASSUME NEW r \in Run, NEW cut \in BOOLEAN, CloseRun(r, cut) \/ AgentDone(r, cut)
      PROVE  [Journal!Next]_<<World, Status>>
  BY <1>6, CloseRunRefines, AgentDoneRefines DEF Journal!Next
<1> QED
  BY <1>1, <1>2, <1>3, <1>4, <1>5, <1>6 DEF Next

(* The journal's promise, for any number of keys, runs and agents: every   *)
(* behaviour of the chains is one of RunJournal.  A cut run is as if it    *)
(* had never written, whoever wrote after it; a run commits once, whole,   *)
(* only if no part of it was cut; compacting a chain loses nothing.        *)
THEOREM Refinement == Spec => ImplementsJournal
<1>1. Init => Journal!Init
  BY InitRefines
<1>2. Inv /\ [Next]_vars => [Journal!Next]_Journal!vars
  BY NextRefines DEF Journal!vars, World, Status
<1> QED
  BY <1>1, <1>2, Invariance, PTL DEF Spec, ImplementsJournal, Journal!Spec
================================================================================
