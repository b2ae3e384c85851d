------------------------------- MODULE FatProofs -------------------------------
(* The FAT driver for volumes, directories and files of any size.                 *)
(*                                                                                *)
(* The proofs come in two layers.  ChainInv is about the table: every entry, and  *)
(* the operation in progress, holds a chain of its own that is ended properly,    *)
(* and nothing else is in use.  FileInv adds what the chains contain and how the  *)
(* names lead to them.  Each has one lemma per action.                            *)
EXTENDS Fat, FiniteSetTheorems, SequenceTheorems, TLAPS

--------------------------------------------------------------------------------
(* Chains in a table. *)

LEMMA Induction ==
  ASSUME NEW S, 0 \in S, \A n \in Nat : n \in S => n + 1 \in S
  PROVE  \A n \in Nat : n \in S
<1> DEFINE T == {n \in Nat : n \notin S}
<1> SUFFICES ASSUME T # {} PROVE FALSE
  OBVIOUS
<1>1. PICK m \in T : \A k \in T : ~ (<<k, m>> \in OpToRel(<, Nat))
  BY WFMin, NatLessThanWellFounded, Zenon
<1>2. \A k \in T : ~ (k < m)
  BY <1>1, Zenon DEF OpToRel
<1>3. m \in Nat \ {0} /\ m - 1 \in Nat /\ m - 1 < m /\ (m - 1) + 1 = m
  OBVIOUS
<1>4. m - 1 \in S
  BY <1>2, <1>3
<1> QED
  BY <1>3, <1>4

\* The steps through a table exist.
LEMMA ReachedExists ==
  ASSUME NEW t, NEW f
  PROVE  /\ Reached(t, f)[0] = f
         /\ \A n \in 1 .. NClusters :
              Reached(t, f)[n] = IF Reached(t, f)[n - 1] \in Clusters
                                 THEN t[Reached(t, f)[n - 1]] ELSE 0
<1> DEFINE Value(h, i) == IF i = 0 THEN f ELSE IF h[i - 1] \in Clusters THEN t[h[i - 1]] ELSE 0
           Upto(k, h) == h = [i \in 0 .. k |-> Value(h, i)]
           N == {k \in Nat : \E h : Upto(k, h)}
<1>1. 0 \in N
  <2> DEFINE g == [i \in 0 .. 0 |-> f]
  <2>1. Upto(0, g)
    OBVIOUS
  <2> QED
    BY <2>1
<1>2. ASSUME NEW k \in Nat, k \in N PROVE k + 1 \in N
  <2>1. PICK h : Upto(k, h)
    BY <1>2
  <2> HIDE DEF Value
  <2> DEFINE g == [i \in 0 .. k + 1 |-> IF i <= k THEN h[i] ELSE Value(h, i)]
  <2>2. \A i \in 0 .. k : g[i] = h[i] /\ h[i] = Value(h, i)
    BY <2>1
  <2>3. g[k + 1] = Value(h, k + 1)
    OBVIOUS
  <2> HIDE DEF g
  <2>4. \A i \in 0 .. k + 1 : Value(g, i) = Value(h, i)
    <3>1. \A i \in 0 .. k + 1 : i # 0 => i - 1 \in 0 .. k
      OBVIOUS
    <3> QED
      BY <2>2, <3>1 DEF Value
  <2>5. \A i \in 0 .. k + 1 : g[i] = Value(g, i)
    BY <2>2, <2>3, <2>4
  <2>6. Upto(k + 1, g)
    BY <2>5 DEF g
  <2> QED
    BY <2>6
<1>3. \A k \in Nat : k \in N
  <2> HIDE DEF N
  <2> QED
    BY <1>1, <1>2, Induction
<1>0. NClusters \in Nat
  BY FatAssumption
<1>4. PICK h : Upto(NClusters, h)
  BY <1>3, <1>0
<1>5. Upto(NClusters, Reached(t, f))
  <2> DEFINE Body(g) == [n \in 0 .. NClusters |->
                           IF n = 0 THEN f ELSE IF g[n - 1] \in Clusters THEN t[g[n - 1]] ELSE 0]
  <2>1. Reached(t, f) = CHOOSE g : g = Body(g)
    BY Zenon DEF Reached
  <2>2. \A g : Body(g) = [i \in 0 .. NClusters |-> Value(g, i)]
    BY Zenon
  <2> HIDE DEF Body, Value
  <2>3. h = Body(h)
    BY <1>4, <2>2
  <2>4. Reached(t, f) = Body(Reached(t, f))
    BY <2>1, <2>3, Zenon
  <2> QED
    BY <2>4, <2>2
<1>6. \A i \in 0 .. NClusters : Reached(t, f)[i] = Value(Reached(t, f), i)
  <2> HIDE DEF Value
  <2> QED
    BY <1>5
<1> QED
  BY <1>6, <1>0

\* A sequence of different clusters that a table links, from f to where it ends.
Links(t, s, f) ==
  \/ s = <<>> /\ f \notin Clusters
  \/ /\ s \in Seq(Clusters) /\ s # <<>> /\ s[1] = f
     /\ \A i, j \in 1 .. Len(s) : s[i] = s[j] => i = j
     /\ \A i \in 1 .. Len(s) - 1 : t[s[i]] = s[i + 1]
     /\ t[s[Len(s)]] \notin Clusters

\* There are no more different clusters than the volume has.
LEMMA ShortEnough ==
  ASSUME NEW s \in Seq(Clusters), \A i, j \in 1 .. Len(s) : s[i] = s[j] => i = j
  PROVE  Len(s) <= NClusters
<1>1. NClusters \in Nat /\ Len(s) \in Nat
  BY FatAssumption
<1>2. IsFiniteSet(Clusters) /\ Cardinality(Clusters) = NClusters
  <2>1. 2 \in Int /\ max_cluster - 1 \in Int
    BY <1>1 DEF max_cluster
  <2>2. IsFiniteSet(Clusters) /\ Cardinality(Clusters) = IF 2 > max_cluster - 1 THEN 0 ELSE (max_cluster - 1) - 2 + 1
    BY <2>1, FS_Interval DEF Clusters
  <2> QED
    BY <1>1, <2>2 DEF max_cluster
<1>3. s \in Injection(1 .. Len(s), Clusters)
  <2>1. s \in [1 .. Len(s) -> Clusters]
    OBVIOUS
  <2> QED
    BY <2>1 DEF Injection, IsInjective
<1>4. Cardinality(1 .. Len(s)) <= NClusters
  BY <1>2, <1>3, FS_Injection
<1>5. Cardinality(1 .. Len(s)) = IF 1 > Len(s) THEN 0 ELSE Len(s) - 1 + 1
  BY <1>1, FS_Interval
<1> QED
  BY <1>1, <1>4, <1>5

\* A linked sequence is the chain.
LEMMA ChainIs ==
  ASSUME NEW t, NEW s, NEW f, Links(t, s, f)
  PROVE  ChainIn(t, f) = s
<1> DEFINE nth == Reached(t, f)
           good == {n \in 0 .. NClusters - 1 : \A k \in 0 .. n : nth[k] \in Clusters}
<1>0. NClusters \in Nat
  BY FatAssumption
<1>1. ChainIn(t, f) = [i \in 1 .. Cardinality(good) |-> nth[i - 1]]
  BY DEF ChainIn
<1>2. nth[0] = f /\ \A n \in 1 .. NClusters : nth[n] = IF nth[n - 1] \in Clusters THEN t[nth[n - 1]] ELSE 0
  BY ReachedExists
<1> HIDE DEF nth
<1>3. CASE s = <<>> /\ f \notin Clusters
  <2>1. good = {}
    <3>1. \A n \in 0 .. NClusters - 1 : 0 \in 0 .. n
      OBVIOUS
    <3> QED
      BY <1>2, <1>3, <3>1
  <2>2. Cardinality(good) = 0
    BY <2>1, FS_EmptySet
  <2>3. ChainIn(t, f) = [i \in 1 .. 0 |-> nth[i - 1]]
    BY <1>1, <2>2
  <2> HIDE DEF good
  <2> QED
    BY <1>3, <2>3
<1>4. CASE ~ (s = <<>>)
  <2>1. /\ s \in Seq(Clusters) /\ s[1] = f
        /\ \A i, j \in 1 .. Len(s) : s[i] = s[j] => i = j
        /\ \A i \in 1 .. Len(s) - 1 : t[s[i]] = s[i + 1]
        /\ t[s[Len(s)]] \notin Clusters
    BY <1>4 DEF Links
  <2>2. Len(s) \in Nat \ {0} /\ Len(s) <= NClusters
    BY <1>4, <2>1, ShortEnough
  <2> DEFINE S == {n \in Nat : n < Len(s) => nth[n] = s[n + 1]}
  <2>3. 0 \in S
    BY <1>2, <2>1
  <2>4. ASSUME NEW n \in Nat, n \in S PROVE n + 1 \in S
    <3> SUFFICES ASSUME n + 1 < Len(s) PROVE nth[n + 1] = s[(n + 1) + 1]
      OBVIOUS
    <3>0. nth[n] = s[n + 1]
      <4>1. n < Len(s)
        BY <2>2
      <4> QED
        BY <2>4, <4>1
    <3>1. nth[n] = s[n + 1] /\ n + 1 \in 1 .. NClusters /\ (n + 1) - 1 = n /\ n + 1 \in 1 .. Len(s) - 1
      BY <2>2, <3>0, <1>0
    <3>2. s[n + 1] \in Clusters
      BY <2>1, <2>2, <3>1
    <3>3. nth[n + 1] = t[nth[n]]
      BY <1>2, <3>1, <3>2
    <3> QED
      BY <2>1, <3>1, <3>3
  <2>5. \A n \in Nat : n \in S
    <3> HIDE DEF S
    <3> QED
      BY <2>3, <2>4, Induction
  <2>6. \A n \in 0 .. Len(s) - 1 : nth[n] = s[n + 1] /\ nth[n] \in Clusters
    BY <2>1, <2>2, <2>5
  <2>7. Len(s) <= NClusters - 1 => nth[Len(s)] \notin Clusters
    <3> SUFFICES ASSUME Len(s) <= NClusters - 1 PROVE nth[Len(s)] \notin Clusters
      OBVIOUS
    <3>1. nth[Len(s) - 1] = s[Len(s)] /\ nth[Len(s) - 1] \in Clusters
      BY <2>2, <2>6
    <3>2. nth[Len(s)] = t[nth[Len(s) - 1]]
      BY <1>2, <2>2, <3>1, <1>0
    <3> QED
      BY <2>1, <3>1, <3>2
  <2>8. good = 0 .. Len(s) - 1
    <3>1. ASSUME NEW n \in 0 .. NClusters - 1, n >= Len(s) PROVE n \notin good
      <4>1. Len(s) \in 0 .. n /\ Len(s) <= NClusters - 1
        BY <2>2, <3>1, <1>0
      <4> QED
        BY <2>7, <4>1
    <3>2. ASSUME NEW n \in 0 .. Len(s) - 1 PROVE n \in good
      <4>1. \A k \in 0 .. n : k \in 0 .. Len(s) - 1
        BY <2>2
      <4>2. n \in 0 .. NClusters - 1
        BY <2>2, <1>0
      <4> QED
        BY <2>6, <4>1, <4>2
    <3>3. \A n \in good : n \in 0 .. NClusters - 1 /\ ~ (n >= Len(s))
      BY <3>1
    <3>4. \A n \in good : n \in 0 .. Len(s) - 1
      BY <3>3, <2>2, <1>0
    <3> HIDE DEF good
    <3> QED
      BY <3>2, <3>4
  <2>9. Cardinality(good) = Len(s)
    <3>1. Cardinality(0 .. Len(s) - 1) = IF 0 > Len(s) - 1 THEN 0 ELSE (Len(s) - 1) - 0 + 1
      BY <2>2, FS_Interval
    <3> HIDE DEF good
    <3> QED
      BY <2>2, <2>8, <3>1
  <2> HIDE DEF good
  <2>10. ChainIn(t, f) = [i \in 1 .. Len(s) |-> s[i]]
    <3>1. \A i \in 1 .. Len(s) : i - 1 \in 0 .. Len(s) - 1 /\ (i - 1) + 1 = i
      BY <2>2
    <3>2. \A i \in 1 .. Len(s) : nth[i - 1] = s[i]
      BY <2>6, <3>1
    <3> QED
      BY <1>1, <2>9, <3>2
  <2> QED
    BY <2>1, <2>10
<1> QED
  BY <1>3, <1>4 DEF Links

--------------------------------------------------------------------------------
(* Several chains in a table: a function gives the first cluster of each. *)

ClustersOf(t, f) == {ChainIn(t, f)[i] : i \in DOMAIN ChainIn(t, f)}
Proper(t, f) == Links(t, ChainIn(t, f), f)
Closed(t, f) == ChainIn(t, f) # <<>> => t[ChainIn(t, f)[Len(ChainIn(t, f))]] = Eoc

Apart(t, F) ==
  /\ \A h \in DOMAIN F : Proper(t, F[h])
  /\ \A g, h \in DOMAIN F : g # h => ClustersOf(t, F[g]) \cap ClustersOf(t, F[h]) = {}

\* Every cluster in use is in one of the chains.
Used(t, F) == \A c \in Clusters : t[c] # 0 => \E h \in DOMAIN F : c \in ClustersOf(t, F[h])

\* What is linked is the chain.
LEMMA LinksProper ==
  ASSUME NEW t, NEW s, NEW f, Links(t, s, f)
  PROVE  Proper(t, f) /\ ChainIn(t, f) = s
BY ChainIs DEF Proper

\* A chain and its clusters.
LEMMA ProperIs ==
  ASSUME NEW t, NEW f, Proper(t, f)
  PROVE  /\ ChainIn(t, f) \in Seq(Clusters) /\ ClustersOf(t, f) \in SUBSET Clusters
         /\ Len(ChainIn(t, f)) \in Nat
         /\ f \in Clusters <=> ChainIn(t, f) # <<>>
         /\ f \in Clusters <=> Len(ChainIn(t, f)) > 0
         /\ f \in Clusters => f \in ClustersOf(t, f)
         /\ f \notin Clusters => ClustersOf(t, f) = {}
<1> DEFINE s == ChainIn(t, f)
<1>1. Links(t, s, f)
  BY DEF Proper
<1>2. ClustersOf(t, f) = {s[i] : i \in DOMAIN s}
  BY DEF ClustersOf
<1> HIDE DEF s
<1>0. s = <<>> => s \in Seq(Clusters)
  OBVIOUS
<1>3. s \in Seq(Clusters) /\ (s # <<>> => s[1] = f) /\ (s = <<>> => f \notin Clusters)
  BY <1>0, <1>1, Zenon DEF Links
<1>4. Len(s) \in Nat /\ DOMAIN s = 1 .. Len(s) /\ (s # <<>> => Len(s) > 0) /\ (s = <<>> => Len(s) = 0)
  BY <1>3
<1>5. \A i \in DOMAIN s : s[i] \in Clusters
  BY <1>3, <1>4
<1>6. s # <<>> => 1 \in DOMAIN s
  BY <1>4
<1>7. s = <<>> => DOMAIN s = {}
  BY <1>4
<1>8. s # <<>> => f \in Clusters /\ f \in ClustersOf(t, f)
  BY <1>2, <1>3, <1>5, <1>6
<1>9. s = <<>> => ClustersOf(t, f) = {}
  BY <1>2, <1>7
<1>10. ClustersOf(t, f) \in SUBSET Clusters
  BY <1>2, <1>5
<1>11. (s # <<>>) <=> Len(s) > 0
  BY <1>4
<1> QED
  BY <1>3, <1>4, <1>8, <1>9, <1>10, <1>11 DEF s

\* Without a cluster to begin with there is no chain.
LEMMA NoChain ==
  ASSUME NEW t, NEW f, f \notin Clusters
  PROVE  Proper(t, f) /\ ChainIn(t, f) = <<>> /\ ClustersOf(t, f) = {} /\ Closed(t, f)
<1>1. Links(t, <<>>, f)
  BY DEF Links
<1>2. Proper(t, f) /\ ChainIn(t, f) = <<>>
  BY <1>1, LinksProper
<1> QED
  BY <1>2, ProperIs DEF Closed

\* A chain depends on the entries of its own clusters only.
LEMMA Frame ==
  ASSUME NEW t, NEW t2, NEW f, Proper(t, f), \A c \in ClustersOf(t, f) : t2[c] = t[c]
  PROVE  /\ Proper(t2, f) /\ ChainIn(t2, f) = ChainIn(t, f) /\ ClustersOf(t2, f) = ClustersOf(t, f)
         /\ Closed(t2, f) <=> Closed(t, f)
<1> DEFINE s == ChainIn(t, f)
<1>1. Links(t, s, f)
  BY DEF Proper
<1>2. \A i \in DOMAIN s : t2[s[i]] = t[s[i]]
  BY DEF ClustersOf
<1> HIDE DEF s
<1>0. s = <<>> => s \in Seq(Clusters)
  OBVIOUS
<1>a. s \in Seq(Clusters)
  BY <1>0, <1>1, Zenon DEF Links
<1>3. s \in Seq(Clusters) /\ Len(s) \in Nat /\ DOMAIN s = 1 .. Len(s)
  BY <1>a
<1>4. s # <<>> => Len(s) \in 1 .. Len(s)
  BY <1>3
<1>5. \A i \in 1 .. Len(s) - 1 : i \in 1 .. Len(s)
  BY <1>3
<1>6. Links(t2, s, f)
  BY <1>1, <1>2, <1>3, <1>4, <1>5 DEF Links
<1>7. Proper(t2, f) /\ ChainIn(t2, f) = s
  BY <1>6, LinksProper
<1>8. s # <<>> => t2[s[Len(s)]] = t[s[Len(s)]]
  BY <1>2, <1>3, <1>4
<1> QED
  BY <1>7, <1>8 DEF s, ClustersOf, Closed

\* The chains are given other holders, or are given up, in the same table.
LEMMA Moved ==
  ASSUME NEW t, NEW F, Apart(t, F), NEW F2, NEW m,
         \A h \in DOMAIN F2 : F2[h] \in Clusters => m[h] \in DOMAIN F /\ F2[h] = F[m[h]],
         \A g, h \in DOMAIN F2 : g # h /\ F2[g] \in Clusters /\ F2[h] \in Clusters => m[g] # m[h]
  PROVE  Apart(t, F2)
<1>1. ASSUME NEW h \in DOMAIN F2 PROVE Proper(t, F2[h])
  <2>1. CASE F2[h] \in Clusters
    BY <2>1 DEF Apart
  <2>2. CASE F2[h] \notin Clusters
    BY <2>2, NoChain
  <2> QED
    BY <2>1, <2>2
<1>2. ASSUME NEW g \in DOMAIN F2, NEW h \in DOMAIN F2, g # h
      PROVE  ClustersOf(t, F2[g]) \cap ClustersOf(t, F2[h]) = {}
  <2>1. CASE F2[g] \in Clusters /\ F2[h] \in Clusters
    <3>1. m[g] \in DOMAIN F /\ m[h] \in DOMAIN F /\ m[g] # m[h] /\ F2[g] = F[m[g]] /\ F2[h] = F[m[h]]
      BY <1>2, <2>1
    <3> QED
      BY <3>1, Zenon DEF Apart
  <2>2. CASE F2[g] \notin Clusters \/ F2[h] \notin Clusters
    BY <2>2, NoChain
  <2> QED
    BY <2>1, <2>2
<1> QED
  BY <1>1, <1>2 DEF Apart

\* No chain is given up.
LEMMA MovedUsed ==
  ASSUME NEW t, NEW F, Apart(t, F), Used(t, F), NEW F2,
         \A g \in DOMAIN F : F[g] \in Clusters => \E h \in DOMAIN F2 : F2[h] = F[g]
  PROVE  Used(t, F2)
<1> SUFFICES ASSUME NEW c \in Clusters, t[c] # 0
             PROVE  \E h \in DOMAIN F2 : c \in ClustersOf(t, F2[h])
  BY DEF Used
<1>1. PICK g \in DOMAIN F : c \in ClustersOf(t, F[g])
  BY DEF Used
<1>2. F[g] \in Clusters
  BY <1>1, NoChain
<1>3. PICK h \in DOMAIN F2 : F2[h] = F[g]
  BY <1>2
<1> QED
  BY <1>1, <1>3

\* One chain is changed.
Replaces(t, F, t2, F2, h) ==
  /\ Apart(t, F) /\ h \in DOMAIN F /\ DOMAIN F2 = DOMAIN F
  /\ \A g \in DOMAIN F : g # h => F2[g] = F[g] /\ \A c \in ClustersOf(t, F[g]) : t2[c] = t[c]
  /\ Proper(t2, F2[h])
  /\ \A g \in DOMAIN F : g # h => ClustersOf(t2, F2[h]) \cap ClustersOf(t, F[g]) = {}

LEMMA Replaced ==
  ASSUME NEW t, NEW F, NEW t2, NEW F2, NEW h, Replaces(t, F, t2, F2, h)
  PROVE  /\ Apart(t2, F2)
         /\ \A g \in DOMAIN F : g # h => /\ ChainIn(t2, F2[g]) = ChainIn(t, F[g])
                                         /\ ClustersOf(t2, F2[g]) = ClustersOf(t, F[g])
                                         /\ Closed(t2, F2[g]) <=> Closed(t, F[g])
<1> USE DEF Replaces
<1>1. ASSUME NEW g \in DOMAIN F, g # h
      PROVE  /\ Proper(t2, F2[g]) /\ ChainIn(t2, F2[g]) = ChainIn(t, F[g])
             /\ ClustersOf(t2, F2[g]) = ClustersOf(t, F[g])
             /\ Closed(t2, F2[g]) <=> Closed(t, F[g])
  <2>1. Proper(t, F[g]) /\ F2[g] = F[g] /\ \A c \in ClustersOf(t, F[g]) : t2[c] = t[c]
    BY <1>1 DEF Apart
  <2>2. /\ Proper(t2, F[g]) /\ ChainIn(t2, F[g]) = ChainIn(t, F[g])
        /\ ClustersOf(t2, F[g]) = ClustersOf(t, F[g])
        /\ Closed(t2, F[g]) <=> Closed(t, F[g])
    BY <2>1, Frame
  <2> QED
    BY <2>1, <2>2
<1>2. \A g \in DOMAIN F2 : Proper(t2, F2[g])
  BY <1>1
<1>3. ASSUME NEW g \in DOMAIN F2, NEW k \in DOMAIN F2, g # k
      PROVE  ClustersOf(t2, F2[g]) \cap ClustersOf(t2, F2[k]) = {}
  <2>1. CASE g = h
    BY <1>1, <1>3, <2>1
  <2>2. CASE k = h
    BY <1>1, <1>3, <2>2
  <2>3. CASE g # h /\ k # h
    <3>1. ClustersOf(t, F[g]) \cap ClustersOf(t, F[k]) = {}
      BY <1>3 DEF Apart
    <3> QED
      BY <1>1, <2>3, <3>1
  <2> QED
    BY <2>1, <2>2, <2>3
<1> QED
  BY <1>1, <1>2, <1>3 DEF Apart

\* A closed chain has no free clusters.
LEMMA ClosedNotFree ==
  ASSUME NEW t, NEW f, Proper(t, f), Closed(t, f), NEW c \in ClustersOf(t, f)
  PROVE  t[c] # 0
<1> DEFINE s == ChainIn(t, f)
<1>1. Links(t, s, f) /\ (s # <<>> => t[s[Len(s)]] = Eoc)
  BY DEF Proper, Closed
<1>2. PICK i \in DOMAIN s : c = s[i]
  BY DEF ClustersOf
<1> HIDE DEF s
<1>0. s = <<>> => s \in Seq(Clusters)
  OBVIOUS
<1>a. s \in Seq(Clusters)
  BY <1>0, <1>1, Zenon DEF Links
<1>3. s \in Seq(Clusters) /\ Len(s) \in Nat /\ DOMAIN s = 1 .. Len(s)
  BY <1>a
<1>4. s # <<>>
  BY <1>2, <1>3
<1>5. CASE i = Len(s)
  BY <1>1, <1>2, <1>4, <1>5 DEF Eoc
<1>6. CASE i # Len(s)
  <2>1. i \in 1 .. Len(s) - 1 /\ i + 1 \in 1 .. Len(s)
    BY <1>2, <1>3, <1>6
  <2>2. t[c] = s[i + 1]
    BY <1>1, <1>2, <1>4, <2>1 DEF Links
  <2>3. s[i + 1] \in Clusters
    BY <1>3, <2>1
  <2>4. s[i + 1] >= 2
    BY <2>3, FatAssumption DEF Clusters, max_cluster
  <2> QED
    BY <2>2, <2>4
<1> QED
  BY <1>5, <1>6

\* A cluster after the last one of a chain, before the end is marked.
LEMMA Grown ==
  ASSUME NEW t, NEW f, Proper(t, f), NEW c \in Clusters, c \notin ClustersOf(t, f),
         t \in [Clusters -> Clusters \cup {0, Eoc}], t[c] \notin Clusters, f \in Clusters,
         NEW l, l = ChainIn(t, f)[Len(ChainIn(t, f))]
  PROVE  LET t2 == [t EXCEPT ![l] = c]
         IN  /\ Proper(t2, f) /\ ChainIn(t2, f) = Append(ChainIn(t, f), c)
             /\ ClustersOf(t2, f) = ClustersOf(t, f) \cup {c}
             /\ l \in ClustersOf(t, f) /\ l # c
<1> DEFINE s == ChainIn(t, f)
           t2 == [t EXCEPT ![l] = c]
           s2 == Append(s, c)
<1>1. Links(t, s, f) /\ l = s[Len(s)] /\ ClustersOf(t, f) = {s[i] : i \in DOMAIN s}
  BY DEF Proper, ClustersOf
<1>2. s # <<>>
  BY ProperIs
<1> HIDE DEF s
<1>3. /\ s \in Seq(Clusters) /\ Len(s) \in Nat \ {0} /\ DOMAIN s = 1 .. Len(s) /\ s[1] = f
      /\ \A i, j \in 1 .. Len(s) : s[i] = s[j] => i = j
      /\ \A i \in 1 .. Len(s) - 1 : t[s[i]] = s[i + 1]
  BY <1>1, <1>2 DEF Links
<1>4. l \in Clusters /\ l \in ClustersOf(t, f) /\ l # c
  BY <1>1, <1>3
<1>5. t2[l] = c /\ \A x \in Clusters : x # l => t2[x] = t[x]
  BY <1>4
<1>6. /\ s2 \in Seq(Clusters) /\ Len(s2) = Len(s) + 1 /\ s2 # <<>>
      /\ \A i \in 1 .. Len(s) : s2[i] = s[i]
      /\ s2[Len(s) + 1] = c
  BY <1>3
<1> HIDE DEF t2, s2
<1>7. \A i \in 1 .. Len(s) : s[i] # c /\ s[i] \in Clusters
  BY <1>1, <1>3
<1>8. \A i, j \in 1 .. Len(s2) : s2[i] = s2[j] => i = j
  <2> SUFFICES ASSUME NEW i \in 1 .. Len(s2), NEW j \in 1 .. Len(s2), s2[i] = s2[j] PROVE i = j
    OBVIOUS
  <2>1. (i \in 1 .. Len(s) \/ i = Len(s) + 1) /\ (j \in 1 .. Len(s) \/ j = Len(s) + 1)
    BY <1>3, <1>6
  <2> QED
    BY <1>3, <1>6, <1>7, <2>1
<1>9. \A i \in 1 .. Len(s2) - 1 : t2[s2[i]] = s2[i + 1]
  <2> SUFFICES ASSUME NEW i \in 1 .. Len(s2) - 1 PROVE t2[s2[i]] = s2[i + 1]
    OBVIOUS
  <2>1. i \in 1 .. Len(s) /\ Len(s) \in 1 .. Len(s)
    BY <1>3, <1>6
  <2>2. CASE i = Len(s)
    BY <1>1, <1>5, <1>6, <2>1, <2>2
  <2>3. CASE i # Len(s)
    <3>0. Len(s) \in Nat
      BY <1>3
    <3>1. i \in 1 .. Len(s) - 1 /\ i + 1 \in 1 .. Len(s)
      BY <2>1, <2>3, <3>0
    <3>2. s[i] # l
      BY <1>1, <1>3, <2>1, <2>3
    <3> QED
      BY <1>3, <1>5, <1>6, <1>7, <2>1, <3>1, <3>2
  <2> QED
    BY <2>2, <2>3
<1>10. Links(t2, s2, f)
  <2>1. s2[1] = f
    BY <1>3, <1>6
  <2>2. t2[s2[Len(s2)]] \notin Clusters
    BY <1>4, <1>5, <1>6
  <2> QED
    BY <1>6, <1>8, <1>9, <2>1, <2>2 DEF Links
<1>11. Proper(t2, f) /\ ChainIn(t2, f) = s2
  BY <1>10, LinksProper
<1>12. {s2[i] : i \in DOMAIN s2} = {s[i] : i \in DOMAIN s} \cup {c}
  <2>1. DOMAIN s2 = 1 .. Len(s) + 1
    BY <1>6
  <2>2. \A i \in DOMAIN s2 : i \in DOMAIN s \/ i = Len(s) + 1
    BY <1>3, <2>1
  <2>3. \A i \in DOMAIN s : i \in DOMAIN s2
    BY <1>3, <2>1
  <2>4. Len(s) + 1 \in DOMAIN s2
    BY <1>3, <2>1
  <2> QED
    BY <1>3, <1>6, <2>2, <2>3, <2>4
<1>13. ClustersOf(t2, f) = ClustersOf(t, f) \cup {c}
  BY <1>1, <1>11, <1>12 DEF ClustersOf
<1> QED
  BY <1>4, <1>11, <1>13 DEF t2, s2, s

\* The end of a chain is marked.
LEMMA Ended ==
  ASSUME NEW t, NEW f, Proper(t, f),
         t \in [Clusters -> Clusters \cup {0, Eoc}], f \in Clusters,
         NEW l, l = ChainIn(t, f)[Len(ChainIn(t, f))]
  PROVE  LET t2 == [t EXCEPT ![l] = Eoc]
         IN  /\ Proper(t2, f) /\ ChainIn(t2, f) = ChainIn(t, f)
             /\ ClustersOf(t2, f) = ClustersOf(t, f) /\ Closed(t2, f)
             /\ l \in ClustersOf(t, f)
<1> DEFINE s == ChainIn(t, f)
           t2 == [t EXCEPT ![l] = Eoc]
<1>1. Links(t, s, f) /\ l = s[Len(s)] /\ ClustersOf(t, f) = {s[i] : i \in DOMAIN s}
  BY DEF Proper, ClustersOf
<1>2. s # <<>>
  BY ProperIs
<1> HIDE DEF s
<1>3. /\ s \in Seq(Clusters) /\ Len(s) \in Nat \ {0} /\ DOMAIN s = 1 .. Len(s) /\ s[1] = f
      /\ \A i, j \in 1 .. Len(s) : s[i] = s[j] => i = j
      /\ \A i \in 1 .. Len(s) - 1 : t[s[i]] = s[i + 1]
  BY <1>1, <1>2 DEF Links
<1>4. l \in Clusters /\ l \in ClustersOf(t, f)
  BY <1>1, <1>3
<1>5. t2[l] = Eoc /\ \A x \in Clusters : x # l => t2[x] = t[x]
  BY <1>4
<1>6. Eoc \notin Clusters
  BY FatAssumption DEF Clusters, Eoc, max_cluster
<1> HIDE DEF t2
<1>7. \A i \in 1 .. Len(s) - 1 : t2[s[i]] = s[i + 1]
  <2> SUFFICES ASSUME NEW i \in 1 .. Len(s) - 1 PROVE t2[s[i]] = s[i + 1]
    OBVIOUS
  <2>0. Len(s) \in Nat \ {0}
    BY <1>3
  <2>1. i \in 1 .. Len(s) /\ Len(s) \in 1 .. Len(s) /\ i # Len(s)
    BY <2>0
  <2>2. s[i] # l /\ s[i] \in Clusters
    <3>1. s[i] # s[Len(s)]
      BY <1>3, <2>1, Zenon
    <3>0. s \in Seq(Clusters)
      BY <1>3
    <3>2. s[i] \in Clusters
      BY <2>1, <3>0
    <3> QED
      BY <1>1, <3>1, <3>2
  <2> QED
    BY <1>3, <1>5, <2>2
<1>8. Links(t2, s, f)
  BY <1>1, <1>2, <1>3, <1>5, <1>6, <1>7 DEF Links
<1>9. Proper(t2, f) /\ ChainIn(t2, f) = s
  BY <1>8, LinksProper
<1>10. Closed(t2, f)
  BY <1>1, <1>5, <1>9 DEF Closed
<1> QED
  BY <1>1, <1>4, <1>9, <1>10 DEF t2, s, ClustersOf

\* The first cluster of a chain is freed.
LEMMA Beheaded ==
  ASSUME NEW t, NEW f, Proper(t, f), f \in Clusters, t \in [Clusters -> Clusters \cup {0, Eoc}]
  PROVE  LET t2 == [t EXCEPT ![f] = 0]
         IN  /\ Proper(t2, t[f])
             /\ ClustersOf(t2, t[f]) = ClustersOf(t, f) \ {f}
<1> DEFINE s == ChainIn(t, f)
           t2 == [t EXCEPT ![f] = 0]
<1>1. Links(t, s, f) /\ ClustersOf(t, f) = {s[i] : i \in DOMAIN s}
  BY DEF Proper, ClustersOf
<1>2. s # <<>>
  BY ProperIs
<1> HIDE DEF s
<1>3. /\ s \in Seq(Clusters) /\ Len(s) \in Nat \ {0} /\ DOMAIN s = 1 .. Len(s) /\ s[1] = f
      /\ \A i, j \in 1 .. Len(s) : s[i] = s[j] => i = j
      /\ \A i \in 1 .. Len(s) - 1 : t[s[i]] = s[i + 1]
      /\ t[s[Len(s)]] \notin Clusters
  BY <1>1, <1>2 DEF Links
<1>4. \A x \in Clusters : x # f => t2[x] = t[x]
  OBVIOUS
<1> HIDE DEF t2
<1>5. CASE Len(s) = 1
  <2>1. t[f] \notin Clusters
    BY <1>3, <1>5
  <2>2. Proper(t2, t[f]) /\ ClustersOf(t2, t[f]) = {}
    BY <2>1, NoChain
  <2>3. {s[i] : i \in DOMAIN s} = {f}
    BY <1>3, <1>5
  <2> QED
    BY <1>1, <2>2, <2>3 DEF t2
<1>6. CASE Len(s) # 1
  <2> DEFINE r == Tail(s)
  <2>1. /\ r \in Seq(Clusters) /\ Len(r) = Len(s) - 1 /\ Len(r) \in Nat \ {0}
        /\ \A i \in 1 .. Len(r) : r[i] = s[i + 1] /\ i + 1 \in 1 .. Len(s) /\ i + 1 # 1
    BY <1>2, <1>3, <1>6
  <2> HIDE DEF r
  <2>2. \A i \in 1 .. Len(r) : r[i] \in Clusters /\ r[i] # f
    <3> SUFFICES ASSUME NEW i \in 1 .. Len(r) PROVE r[i] \in Clusters /\ r[i] # f
      OBVIOUS
    <3>1. i + 1 \in 1 .. Len(s) /\ 1 \in 1 .. Len(s) /\ i + 1 # 1
      BY <1>3, <2>1
    <3>2. s[i + 1] # s[1]
      BY <1>3, <3>1, Zenon
    <3> QED
      BY <1>3, <2>1, <3>1, <3>2
  <2>3. \A i, j \in 1 .. Len(r) : r[i] = r[j] => i = j
    <3> SUFFICES ASSUME NEW i \in 1 .. Len(r), NEW j \in 1 .. Len(r), r[i] = r[j] PROVE i = j
      OBVIOUS
    <3>1. i + 1 = j + 1
      BY <1>3, <2>1
    <3> QED
      BY <2>1, <3>1
  <2>4. \A i \in 1 .. Len(r) - 1 : t2[r[i]] = r[i + 1]
    <3> SUFFICES ASSUME NEW i \in 1 .. Len(r) - 1 PROVE t2[r[i]] = r[i + 1]
      OBVIOUS
    <3>1. i \in 1 .. Len(r) /\ i + 1 \in 1 .. Len(r) /\ i + 1 \in 1 .. Len(s) - 1
      BY <2>1
    <3>2. t2[r[i]] = t[r[i]]
      BY <1>4, <2>2, <3>1
    <3> QED
      BY <1>3, <2>1, <3>1, <3>2
  <2>5. t2[r[Len(r)]] \notin Clusters
    <3>1. Len(r) \in 1 .. Len(r) /\ Len(r) + 1 = Len(s)
      BY <2>1, <1>3
    <3>2. r[Len(r)] = s[Len(s)] /\ t2[r[Len(r)]] = t[r[Len(r)]]
      BY <1>4, <2>1, <2>2, <3>1
    <3> QED
      BY <1>3, <3>2
  <2>6. r # <<>> /\ r[1] = t[f]
    <3>1. 1 \in 1 .. Len(r) /\ 1 \in 1 .. Len(s) - 1
      BY <2>1, <1>3
    <3>2. r[1] = s[1 + 1] /\ t[s[1]] = s[1 + 1]
      BY <1>3, <2>1, <3>1
    <3> QED
      BY <1>3, <2>1, <3>2
  <2>7. Links(t2, r, t[f])
    BY <2>1, <2>3, <2>4, <2>5, <2>6 DEF Links
  <2>8. Proper(t2, t[f]) /\ ChainIn(t2, t[f]) = r
    BY <2>7, LinksProper
  <2>9. {r[i] : i \in DOMAIN r} = {s[i] : i \in DOMAIN s} \ {f}
    <3>1. DOMAIN r = 1 .. Len(r)
      BY <2>1
    <3>2. \A i \in DOMAIN r : r[i] = s[i + 1] /\ i + 1 \in DOMAIN s /\ r[i] # f
      BY <1>3, <2>1, <2>2, <3>1
    <3>3. ASSUME NEW k \in DOMAIN s, s[k] # f PROVE k - 1 \in DOMAIN r /\ s[k] = r[k - 1]
      <4>1. k # 1 /\ k \in 1 .. Len(s)
        BY <1>3, <3>3
      <4>2. k - 1 \in 1 .. Len(r) /\ (k - 1) + 1 = k
        BY <1>3, <2>1, <4>1
      <4> QED
        BY <2>1, <3>1, <4>2
    <3> QED
      BY <3>2, <3>3
  <2> QED
    BY <1>1, <2>8, <2>9 DEF ClustersOf, t2
<1> QED
  BY <1>5, <1>6

\* A chain of one cluster.
LEMMA Alone ==
  ASSUME NEW t, NEW c \in Clusters, t[c] \notin Clusters
  PROVE  Proper(t, c) /\ ChainIn(t, c) = <<c>> /\ ClustersOf(t, c) = {c}
<1>1. Links(t, <<c>>, c)
  BY DEF Links
<1>2. Proper(t, c) /\ ChainIn(t, c) = <<c>>
  BY <1>1, LinksProper
<1>3. {<<c>>[i] : i \in DOMAIN <<c>>} = {c}
  OBVIOUS
<1> QED
  BY <1>2, <1>3 DEF ClustersOf

--------------------------------------------------------------------------------
(* The inductive invariant. *)

\* How the driver has to be used for files to stay intact: a search sees more than the
\* dots, no file is given the name of a directory or a reserved one, and no write fails
\* while files are overwritten (fat_write_file frees the old chain before the new entry
\* is there).
Reserved == {".", "..", "end", "deleted", "junk"}
Prudent ==
  /\ SCAN > 2
  /\ WrittenTo \subseteq Files /\ SubFiles \subseteq Files /\ Files \cap Dirs = {}
  /\ (Files \cup Dirs) \cap Reserved = {}
  /\ Overwrite => Faults = {}

Ent == [name : Files \cup Dirs \cup Reserved, dir : BOOLEAN, first : Clusters \cup {0},
        size : 0 .. MaxSize, mode : Modes \cup {0}]
AllPaths == Paths \cup {<<n>> : n \in WrittenTo}
Content == [slots : [1 .. PerCluster -> Ent], owner : AllPaths \cup {<<>>}, part : Nat]

\* The slots that entries can be in, and those that have one.
RootPos == {<<0, i>> : i \in 1 .. RootSlots}
AllPos == RootPos \cup (Clusters \X (1 .. PerCluster))
DirPos == {p \in RootLive : Slot(p).dir}
DirFirsts == {Slot(p).first : p \in DirPos}
Valid == RootPos \cup (DirFirsts \X (3 .. PerCluster))
Tree == {p \in Valid : Live(Slot(p)) /\ (p \in RootPos \/ ~ Stale(Slot(p)))}

\* The operation in progress: a file being written, what it has allocated, and what it
\* will free.
Writings(pcs) == [pc : pcs, path : AllPaths, pos : AllPos, size : 0 .. MaxSize,
                  old : Clusters \cup {0}, chain : Seq(Clusters)]
Freeings == [pc : {"free"}, c : Clusters \cup {0, Eoc}, then : {Idle} \cup Writings({"data"})]
Makings == [pc : {"zero", "dots", "link"}, path : {<<n>> : n \in Dirs}, c : Clusters]
Ops == {Idle} \cup Writings({"alloc", "data"}) \cup Freeings \cup Makings

RecOf(o) == IF o.pc = "free" THEN o.then ELSE o
Rec == RecOf(op)
Writes == Rec.pc \in {"alloc", "data"}
NewOf(o) == IF o.pc \in {"zero", "dots", "link"} THEN o.c
            ELSE IF RecOf(o).pc \in {"alloc", "data"} /\ RecOf(o).chain # <<>>
            THEN RecOf(o).chain[1] ELSE 0
OldOf(o) == IF o.pc = "alloc" THEN o.old ELSE IF o.pc = "free" THEN o.c ELSE 0
TargetOf(o) == IF RecOf(o).pc \in {"alloc", "data"} THEN {RecOf(o).pos} ELSE {}
NewFirst == NewOf(op)
OldFirst == OldOf(op)

\* Who holds a chain: an entry, unless it is being overwritten, or the operation.
NewH == <<-1, 0>>
OldH == <<-2, 0>>
Holders == (Tree \ Target) \cup {NewH, OldH}
Firsts == [h \in Holders |-> IF h = NewH THEN NewFirst
                             ELSE IF h = OldH THEN OldFirst ELSE Slot(h).first]

Typed ==
  /\ fat \in [Clusters -> Clusters \cup {0, Eoc}]
  /\ root \in [1 .. RootSlots -> Ent]
  /\ data \in [Clusters -> Content]
  /\ op \in Ops
  /\ faults \in 0 .. MaxFaults
  /\ last \in [Paths -> [size : Int, mode : Modes \cup {0}]]

DirShape(c) ==
  /\ data[c].slots[1].name = "." /\ data[c].slots[2].name = ".."
  /\ \A i \in 3 .. PerCluster :
       Live(data[c].slots[i]) => /\ ~ data[c].slots[i].dir
                                 /\ Stale(data[c].slots[i]) \/ data[c].slots[i].name \in Files
  /\ \A i, j \in 1 .. PerCluster : i < j /\ data[c].slots[i] = End => data[c].slots[j] = End

\* What a cluster may hold for a directory to begin with it: nothing that looks like an
\* entry of the driver's, and nothing behind an end mark.
Clean(x) ==
  /\ \A i \in 3 .. PerCluster : Live(x.slots[i]) => Stale(x.slots[i])
  /\ \A i, j \in 3 .. PerCluster : i < j /\ x.slots[i] = End => x.slots[j] = End

DirsOK ==
  /\ \A c \in DirFirsts : DirShape(c)
  /\ \A c \in Clusters : c \notin DirFirsts => Clean(data[c])

Sized ==
  \A p \in Tree \ Target :
     /\ Closed(fat, Slot(p).first)
     /\ Len(Chain(Slot(p).first)) = IF Slot(p).dir THEN 1 ELSE Slot(p).size

\* The slot that a file is written to.
PosOK ==
  Writes => /\ Rec.pos \in Valid
            /\ \A i \in 1 .. Rec.pos[2] - 1 : Slot(<<Rec.pos[1], i>>) # End
            /\ Live(Slot(Rec.pos)) => Overwrite /\ ~ Slot(Rec.pos).dir

AllocOK ==
  op.pc = "alloc" =>
    /\ Len(op.chain) <= op.size
    /\ \A i, j \in 1 .. Len(op.chain) : i < j => op.chain[i] < op.chain[j]
    /\ op.chain # <<>> => fat[op.chain[Len(op.chain)]] = 0
    /\ Closed(fat, op.old)
    /\ IF Live(Slot(op.pos)) THEN op.old = Slot(op.pos).first /\ Len(Chain(op.old)) = Slot(op.pos).size
       ELSE op.old = 0

DataOK ==
  Rec.pc = "data" =>
    /\ Rec.size <= Len(Rec.chain) /\ Len(Rec.chain) <= MaxSize
    /\ op.pc = "free" => Rec.size = Len(Rec.chain)
    /\ Closed(fat, NewFirst)

WritesOK == Writes => Chain(NewFirst) = Rec.chain

DotsOK ==
  op.pc \in {"zero", "dots", "link"} =>
    /\ fat[op.c] = Eoc
    /\ op.pc = "link" => data[op.c].slots[1].name = "." /\ data[op.c].slots[2].name = ".."

ChainInv ==
  /\ Typed
  /\ Apart(fat, Firsts)
  /\ Faults \subseteq {"data", "zero"} => Used(fat, Firsts)
  /\ DirsOK /\ Sized /\ PosOK /\ AllocOK /\ DataOK /\ WritesOK /\ DotsOK

LEMMA Numbers ==
  /\ Clusters \subseteq Nat /\ 0 \notin Clusters /\ Eoc \notin Clusters
  /\ -1 \notin Clusters /\ -2 \notin Clusters /\ Eoc # 0
  /\ \A c \in Clusters : c >= 2 /\ c < Eoc
BY FatAssumption DEF Clusters, max_cluster, Eoc

\* The operations by the places they are at.
LEMMA OpKinds ==
  ASSUME NEW o \in Ops
  PROVE  /\ o.pc \in {"idle", "alloc", "data", "free", "zero", "dots", "link"}
         /\ o.pc = "idle" => o = Idle
         /\ o.pc \in {"alloc", "data"} => o \in Writings({"alloc", "data"})
         /\ o.pc = "free" => o \in Freeings
         /\ o.pc \in {"zero", "dots", "link"} => o \in Makings
<1>1. Idle.pc = "idle"
  BY DEF Idle
<1>2. \A x \in Writings({"alloc", "data"}) : x.pc \in {"alloc", "data"}
  BY DEF Writings
<1>3. \A x \in Freeings : x.pc = "free"
  BY DEF Freeings
<1>4. \A x \in Makings : x.pc \in {"zero", "dots", "link"}
  BY DEF Makings
<1> QED
  BY <1>1, <1>2, <1>3, <1>4 DEF Ops

\* What an operation holds, by the place it is at.
LEMMA OpValues ==
  ASSUME NEW o \in Ops
  PROVE  /\ o.pc = "idle" => RecOf(o).pc = "idle" /\ NewOf(o) = 0 /\ OldOf(o) = 0 /\ TargetOf(o) = {}
         /\ o.pc = "alloc" => /\ RecOf(o) = o /\ OldOf(o) = o.old /\ TargetOf(o) = {o.pos}
                              /\ NewOf(o) = IF o.chain = <<>> THEN 0 ELSE o.chain[1]
         /\ o.pc = "data" => /\ RecOf(o) = o /\ OldOf(o) = 0 /\ TargetOf(o) = {o.pos}
                             /\ NewOf(o) = IF o.chain = <<>> THEN 0 ELSE o.chain[1]
         /\ o.pc = "free" => /\ RecOf(o) = o.then /\ OldOf(o) = o.c
                             /\ o.then = Idle \/ o.then \in Writings({"data"})
                             /\ o.then = Idle => NewOf(o) = 0 /\ TargetOf(o) = {}
                             /\ o.then.pc = "data" =>
                                  /\ TargetOf(o) = {o.then.pos}
                                  /\ NewOf(o) = IF o.then.chain = <<>> THEN 0 ELSE o.then.chain[1]
         /\ o.pc \in {"zero", "dots", "link"} =>
              /\ RecOf(o) = o /\ NewOf(o) = o.c /\ OldOf(o) = 0 /\ TargetOf(o) = {}
<1>1. o.pc = "free" => o.then = Idle \/ o.then \in Writings({"data"})
  BY OpKinds DEF Freeings
<1>2. Idle.pc = "idle"
  BY DEF Idle
<1>3. o.pc = "idle" => o = Idle
  BY OpKinds
<1> QED
  BY <1>1, <1>2, <1>3 DEF RecOf, NewOf, OldOf, TargetOf

LEMMA TargetIs ==
  ASSUME op \in Ops
  PROVE  Target = TargetOf(op)
<1>1. op.pc = "free" => op.then = Idle \/ op.then.pc = "data"
  BY OpValues DEF Writings
<1>2. Idle.pc = "idle"
  BY DEF Idle
<1> QED
  BY <1>1, <1>2 DEF Target, TargetOf, RecOf

\* Entries.
LEMMA SlotIs ==
  /\ \A i : Slot(<<0, i>>) = root[i]
  /\ \A c \in Clusters : \A i : Slot(<<c, i>>) = data[c].slots[i]
BY Numbers DEF Slot

LEMMA EntryTypes ==
  /\ End \in Ent /\ Deleted \in Ent /\ ~ Live(End) /\ ~ Live(Deleted)
  /\ \A e \in Ent : e.name \notin {"end", "deleted"} => Live(e)
  /\ End.name = "end" /\ Deleted.name = "deleted" /\ End # Deleted
  /\ Junk \in Ent /\ Live(Junk) /\ Junk.name = "junk" /\ ~ Junk.dir
<1>1. 0 \in 0 .. MaxSize
  BY FatAssumption
<1> QED
  BY <1>1 DEF End, Deleted, Junk, Entry, Ent, Live, Reserved

\* What is written for a new cluster of a file, and for a new directory.
LEMMA WrittenTypes ==
  /\ Empty \in Content /\ Clean(Empty)
  /\ \A p \in AllPaths, k \in Nat, n \in Nat : FilePart(p, k, n) \in Content /\ Clean(FilePart(p, k, n))
<1>0. PerCluster \in Nat /\ 3 .. PerCluster \subseteq 1 .. PerCluster
  BY FatAssumption
<1>1. [i \in 1 .. PerCluster |-> End] \in [1 .. PerCluster -> Ent]
  BY EntryTypes
<1>2. Empty \in Content
  BY <1>1 DEF Empty, Content
<1>3. \A i \in 3 .. PerCluster : Empty.slots[i] = End
  BY <1>0 DEF Empty
<1>4. Clean(Empty)
  BY <1>3, EntryTypes DEF Clean
<1>5. ASSUME NEW p \in AllPaths, NEW k \in Nat, NEW n \in Nat
      PROVE  FilePart(p, k, n) \in Content /\ Clean(FilePart(p, k, n))
  <2> DEFINE z == FilePart(p, k, n)
  <2>1. [i \in 1 .. PerCluster |-> IF i <= n THEN Junk ELSE End] \in [1 .. PerCluster -> Ent]
    BY EntryTypes
  <2>2. z \in Content
    BY <2>1 DEF FilePart, Content
  <2>3. \A i \in 3 .. PerCluster : z.slots[i] = IF i <= n THEN Junk ELSE End
    BY <1>0 DEF FilePart
  <2> HIDE DEF z
  <2>4. Clean(z)
    BY <1>0, <2>3, EntryTypes DEF Clean, Stale
  <2> QED
    BY <2>2, <2>4 DEF z
<1> QED
  BY <1>2, <1>4, <1>5

LEMMA SlotTypes ==
  ASSUME Typed, NEW p \in AllPos
  PROVE  Slot(p) \in Ent
<1>1. CASE p \in RootPos
  <2>1. PICK i \in 1 .. RootSlots : p = <<0, i>>
    BY <1>1 DEF RootPos
  <2> QED
    BY <2>1, SlotIs DEF Typed
<1>2. CASE p \in Clusters \X (1 .. PerCluster)
  <2>1. PICK c \in Clusters, i \in 1 .. PerCluster : p = <<c, i>>
    BY <1>2
  <2>2. data[c] \in Content
    BY DEF Typed
  <2> QED
    BY <2>1, <2>2, SlotIs DEF Content
<1> QED
  BY <1>1, <1>2 DEF AllPos

LEMMA RootLiveIs ==
  /\ RootLive = {p \in RootPos : Live(Slot(p))} /\ RootLive \subseteq Tree /\ RootLive \subseteq AllPos
  /\ Tree \subseteq Valid /\ \A p \in Tree : Live(Slot(p))
BY DEF RootLive, RootPos, Tree, Valid, AllPos

\* Directories have one cluster each, and it is theirs alone.
LEMMA DirsAre ==
  ASSUME ChainInv
  PROVE  /\ \A p \in DirPos : /\ p \in Tree \ Target /\ Slot(p).first \in Clusters
                              /\ fat[Slot(p).first] = Eoc
                              /\ Chain(Slot(p).first) = <<Slot(p).first>>
                              /\ ClustersOf(fat, Slot(p).first) = {Slot(p).first}
         /\ \A p, q \in DirPos : Slot(p).first = Slot(q).first => p = q
         /\ DirFirsts \subseteq Clusters /\ Valid \subseteq AllPos
<1>0. op \in Ops /\ Typed
  BY DEF ChainInv, Typed
<1>1. ASSUME NEW p \in DirPos
      PROVE  p \in Tree \ Target /\ p \in Holders /\ Firsts[p] = Slot(p).first
  <2>1. p \in RootLive /\ Slot(p).dir /\ p \in Tree /\ Live(Slot(p))
    BY RootLiveIs DEF DirPos
  <2>2. Target = IF Writes THEN {Rec.pos} ELSE {}
    BY <1>0, TargetIs DEF TargetOf, Rec, Writes
  <2>3. p \notin Target
    BY <2>1, <2>2 DEF ChainInv, PosOK
  <2>4. p # NewH /\ p # OldH
    BY <2>1 DEF RootLive, NewH, OldH
  <2> QED
    BY <2>1, <2>3, <2>4 DEF Holders, Firsts
<1>2. ASSUME NEW p \in DirPos
      PROVE  /\ Slot(p).first \in Clusters /\ fat[Slot(p).first] = Eoc
             /\ Chain(Slot(p).first) = <<Slot(p).first>>
             /\ ClustersOf(fat, Slot(p).first) = {Slot(p).first}
  <2> DEFINE f == Slot(p).first
             s == ChainIn(fat, f)
  <2>1. p \in Tree \ Target /\ Slot(p).dir
    BY <1>1 DEF DirPos
  <2>2. Closed(fat, f) /\ Len(Chain(f)) = 1
    BY <2>1 DEF ChainInv, Sized
  <2>3. Proper(fat, f)
    BY <1>1 DEF ChainInv, Apart, Firsts
  <2>4. f \in Clusters /\ s \in Seq(Clusters) /\ Len(s) = 1 /\ s # <<>>
    BY <2>2, <2>3, ProperIs DEF Chain
  <2>5. s[1] = f
    BY <2>3, <2>4 DEF Proper, Links
  <2>6. fat[f] = Eoc
    BY <2>2, <2>4, <2>5 DEF Closed
  <2> HIDE DEF s
  <2>7. s = <<f>>
    BY <2>4, <2>5
  <2>8. fat[f] \notin Clusters
    BY <2>6, Numbers
  <2>9. ClustersOf(fat, f) = {f}
    BY <2>4, <2>8, Alone
  <2> QED
    BY <2>4, <2>6, <2>7, <2>9 DEF s, Chain
<1>3. ASSUME NEW p \in DirPos, NEW q \in DirPos, Slot(p).first = Slot(q).first PROVE p = q
  <2> SUFFICES ASSUME p # q PROVE FALSE
    OBVIOUS
  <2>1. p \in DOMAIN Firsts /\ q \in DOMAIN Firsts
    BY <1>1 DEF Firsts
  <2>2. ClustersOf(fat, Firsts[p]) \cap ClustersOf(fat, Firsts[q]) = {}
    BY <2>1 DEF ChainInv, Apart
  <2> QED
    BY <1>1, <1>2, <1>3, <2>2
<1>4. DirFirsts \subseteq Clusters
  BY <1>2 DEF DirFirsts
<1>5. Valid \subseteq AllPos
  <2>1. 3 .. PerCluster \subseteq 1 .. PerCluster
    BY FatAssumption
  <2> QED
    BY <1>4, <2>1 DEF Valid, AllPos
<1> QED
  BY <1>1, <1>2, <1>3, <1>4, <1>5

\* The entries that the properties speak of.
LEMMA TreeIs ==
  ASSUME ChainInv
  PROVE  AllLive = Tree
<1>1. \A p \in DirPos : InChain(Slot(p).first) = {Slot(p).first}
  BY DirsAre DEF InChain, ClustersOf, Chain
<1>2. SubLive = {q \in DirFirsts \X (3 .. PerCluster) : Live(Slot(q)) /\ ~ Stale(Slot(q))}
  <2>1. SubLive = UNION {{q \in {Slot(p).first} \X (3 .. PerCluster) :
                            Live(Slot(q)) /\ ~ Stale(Slot(q))} : p \in DirPos}
    BY <1>1 DEF SubLive, DirPos
  <2> QED
    BY <2>1 DEF DirFirsts
<1>3. DirFirsts \cap {0} = {}
  BY DirsAre, Numbers
<1>4. \A q \in DirFirsts \X (3 .. PerCluster) : q \notin RootPos
  BY <1>3 DEF RootPos
<1> QED
  BY <1>2, <1>4, RootLiveIs DEF AllLive, Tree, Valid

\* The chain that each holder has.
LEMMA FirstsAre ==
  ASSUME DirFirsts \subseteq Clusters
  PROVE  /\ DOMAIN Firsts = (Tree \ Target) \cup {NewH, OldH}
         /\ Firsts[NewH] = NewFirst /\ Firsts[OldH] = OldFirst /\ NewH # OldH
         /\ \A h \in Tree : h # NewH /\ h # OldH
         /\ \A h \in Tree \ Target : Firsts[h] = Slot(h).first
<1>1. \A h \in Valid : h[1] # -1 /\ h[1] # -2
  BY Numbers DEF Valid, RootPos
<1>2. NewH[1] = -1 /\ OldH[1] = -2 /\ NewH # OldH
  BY DEF NewH, OldH
<1>3. \A h \in Tree : h # NewH /\ h # OldH
  BY <1>1, <1>2, RootLiveIs
<1> QED
  BY <1>2, <1>3 DEF Firsts, Holders

\* The same after a step.
LEMMA FirstsNext ==
  ASSUME DirFirsts' \subseteq Clusters
  PROVE  /\ DOMAIN Firsts' = (Tree' \ Target') \cup {NewH, OldH}
         /\ Firsts'[NewH] = NewOf(op') /\ Firsts'[OldH] = OldOf(op')
         /\ \A h \in Tree' : h # NewH /\ h # OldH
         /\ \A h \in Tree' \ Target' : Firsts'[h] = Slot(h)'.first
<1>1. \A h \in Valid' : h[1] # -1 /\ h[1] # -2
  BY Numbers DEF Valid, RootPos
<1>2. NewH[1] = -1 /\ OldH[1] = -2 /\ NewH # OldH
  BY DEF NewH, OldH
<1>3. \A h \in Tree' : h # NewH /\ h # OldH
  BY <1>1, <1>2 DEF Tree
<1> QED
  BY <1>2, <1>3 DEF Firsts, Holders, NewFirst, OldFirst

\* What the invariant says of the chains of entries, of the operation, and between them.
LEMMA HeldChains ==
  ASSUME ChainInv
  PROVE  /\ Proper(fat, NewFirst) /\ Proper(fat, OldFirst)
         /\ ClustersOf(fat, NewFirst) \cap ClustersOf(fat, OldFirst) = {}
         /\ \A p \in Tree \ Target :
              /\ Proper(fat, Slot(p).first) /\ Closed(fat, Slot(p).first)
              /\ ClustersOf(fat, NewFirst) \cap ClustersOf(fat, Slot(p).first) = {}
              /\ ClustersOf(fat, OldFirst) \cap ClustersOf(fat, Slot(p).first) = {}
         /\ \A p, q \in Tree \ Target :
              p # q => ClustersOf(fat, Slot(p).first) \cap ClustersOf(fat, Slot(q).first) = {}
<1>1. DirFirsts \subseteq Clusters
  BY DirsAre
<1>2. /\ DOMAIN Firsts = (Tree \ Target) \cup {NewH, OldH}
      /\ Firsts[NewH] = NewFirst /\ Firsts[OldH] = OldFirst /\ NewH # OldH
      /\ \A h \in Tree : h # NewH /\ h # OldH
      /\ \A h \in Tree \ Target : Firsts[h] = Slot(h).first
  BY <1>1, FirstsAre
<1>3. Apart(fat, Firsts) /\ Sized
  BY DEF ChainInv
<1>4. \A h \in DOMAIN Firsts : Proper(fat, Firsts[h])
  BY <1>3 DEF Apart
<1>5. \A g, h \in DOMAIN Firsts : g # h => ClustersOf(fat, Firsts[g]) \cap ClustersOf(fat, Firsts[h]) = {}
  BY <1>3 DEF Apart
<1>6. ClustersOf(fat, NewFirst) \cap ClustersOf(fat, OldFirst) = {}
  <2>1. NewH \in DOMAIN Firsts /\ OldH \in DOMAIN Firsts
    BY <1>2
  <2> QED
    BY <1>2, <1>5, <2>1
<1>7. ASSUME NEW p \in Tree \ Target
      PROVE  /\ Proper(fat, Slot(p).first) /\ Closed(fat, Slot(p).first)
             /\ ClustersOf(fat, NewFirst) \cap ClustersOf(fat, Slot(p).first) = {}
             /\ ClustersOf(fat, OldFirst) \cap ClustersOf(fat, Slot(p).first) = {}
  <2>1. NewH \in DOMAIN Firsts /\ OldH \in DOMAIN Firsts /\ p \in DOMAIN Firsts
    BY <1>2
  <2>2. p # NewH /\ p # OldH /\ Firsts[p] = Slot(p).first
    BY <1>2
  <2> QED
    BY <1>2, <1>3, <1>4, <1>5, <2>1, <2>2 DEF Sized
<1>8. ASSUME NEW p \in Tree \ Target, NEW q \in Tree \ Target, p # q
      PROVE  ClustersOf(fat, Slot(p).first) \cap ClustersOf(fat, Slot(q).first) = {}
  <2>1. p \in DOMAIN Firsts /\ q \in DOMAIN Firsts /\ Firsts[p] = Slot(p).first /\ Firsts[q] = Slot(q).first
    BY <1>2
  <2> QED
    BY <1>5, <1>8, <2>1
<1> QED
  BY <1>2, <1>4, <1>6, <1>7, <1>8

LEMMA InChainIs ==
  ASSUME NEW f
  PROVE  InChain(f) = ClustersOf(fat, f)
BY DEF InChain, ClustersOf, Chain

\* What the invariant is for.
LEMMA ChainsFollow ==
  ASSUME ChainInv
  PROVE  ChainsSound
<1>1. TypeOK
  <2>0. Typed
    BY DEF ChainInv
  <2>1. \A e \in Ent : /\ e.name \in Files \cup Dirs \cup {".", "..", "end", "deleted", "junk"}
                       /\ e.dir \in BOOLEAN /\ e.first \in Clusters \cup {0}
                       /\ e.size \in 0 .. MaxSize /\ e.mode \in Modes \cup {0}
    BY DEF Ent, Reserved
  <2>2. DOMAIN root = 1 .. RootSlots /\ \A i \in DOMAIN root : root[i] \in Ent
    BY <2>0 DEF Typed
  <2>3. DOMAIN data = Clusters /\ \A c \in Clusters : data[c] \in Content
    BY <2>0 DEF Typed
  <2>4. \A c \in Clusters : \A i \in 1 .. PerCluster : data[c].slots[i] \in Ent
    BY <2>3 DEF Content
  <2>5. DOMAIN last = Paths /\ faults \in 0 .. MaxFaults /\ fat \in [Clusters -> Clusters \cup {0, Eoc}]
    BY <2>0 DEF Typed
  <2> HIDE DEF Ent
  <2> QED
    BY <2>1, <2>2, <2>3, <2>4, <2>5, Zenon DEF TypeOK
<1>2. AllLive = Tree
  BY TreeIs
<1>3. \A p \in Tree \ Target : /\ Closed(fat, Slot(p).first)
                               /\ Len(Chain(Slot(p).first)) = (IF Slot(p).dir THEN 1 ELSE Slot(p).size)
  BY DEF ChainInv, Sized
<1>4. \A p, q \in Tree \ Target : p # q => InChain(Slot(p).first) \cap InChain(Slot(q).first) = {}
  BY HeldChains, InChainIs
<1> QED
  BY <1>1, <1>2, <1>3, <1>4, Zenon DEF ChainsSound, Closed, Chain

LEMMA LeakFollows ==
  ASSUME ChainInv, Faults \subseteq {"data", "zero"}
  PROVE  NoLeak
<1> SUFFICES ASSUME op.pc = "idle", ~ ruined, NEW c \in Clusters, fat[c] # 0
             PROVE  \E p \in AllLive : c \in InChain(Slot(p).first)
  BY DEF NoLeak
<1>1. AllLive = Tree /\ DirFirsts \subseteq Clusters /\ op \in Ops
  BY TreeIs, DirsAre DEF ChainInv, Typed
<1>2. NewFirst = 0 /\ OldFirst = 0
  BY <1>1, OpValues DEF NewFirst, OldFirst
<1>3. PICK h \in DOMAIN Firsts : c \in ClustersOf(fat, Firsts[h])
  BY DEF ChainInv, Used
<1>4. ClustersOf(fat, 0) = {}
  BY NoChain, Numbers
<1>5. h \in Tree \ Target /\ Firsts[h] = Slot(h).first
  BY <1>1, <1>2, <1>3, <1>4, FirstsAre
<1> QED
  BY <1>1, <1>3, <1>5, InChainIs

LEMMA ChainsInitial == Init => ChainInv
<1> SUFFICES ASSUME Init PROVE ChainInv
  OBVIOUS
<1> USE DEF Init
<1>1. op = Idle /\ op.pc = "idle" /\ op \in Ops
  BY DEF Idle, Ops
<1>2. Typed
  <2>1. Empty \in Content
    BY WrittenTypes
  <2>2. Nothing \in [size : Int, mode : Modes \cup {0}]
    BY DEF Nothing
  <2>3. root \in [1 .. RootSlots -> Ent]
    BY EntryTypes
  <2>4. faults \in 0 .. MaxFaults
    BY FatAssumption
  <2> QED
    BY <1>1, <2>1, <2>2, <2>3, <2>4 DEF Typed
<1>3. RootLive = {} /\ DirPos = {} /\ DirFirsts = {}
  <2>1. \A p \in RootPos : Slot(p) = End
    BY SlotIs DEF RootPos
  <2> QED
    BY <2>1, EntryTypes, RootLiveIs DEF DirPos, DirFirsts
<1>4. Tree = {}
  BY <1>3, RootLiveIs DEF Tree, Valid
<1>5. NewFirst = 0 /\ OldFirst = 0 /\ Rec.pc = "idle"
  BY <1>1, OpValues DEF NewFirst, OldFirst, Rec
<1>6. DOMAIN Firsts = {NewH, OldH} /\ \A h \in DOMAIN Firsts : Firsts[h] = 0
  BY <1>3, <1>4, <1>5, FirstsAre
<1>7. Apart(fat, Firsts)
  BY <1>6, NoChain, Numbers DEF Apart
<1>8. Used(fat, Firsts)
  BY DEF Used
<1>9. \A c \in Clusters : Clean(data[c])
  BY WrittenTypes
<1> QED
  BY <1>1, <1>2, <1>3, <1>4, <1>5, <1>7, <1>8, <1>9
     DEF ChainInv, DirsOK, Sized, PosOK, AllocOK, DataOK, WritesOK, DotsOK, Writes

--------------------------------------------------------------------------------
(* Searching directories. *)

LEMMA PositionsAre ==
  /\ Positions(0) = [i \in 1 .. RootSlots |-> <<0, i>>]
  /\ \A d : d # 0 /\ Chain(d) = <<d>> => Positions(d) = [i \in 1 .. PerCluster |-> <<d, i>>]
<1>1. Positions(0) = [i \in 1 .. RootSlots |-> <<0, i>>]
  BY DEF Positions
<1>2. ASSUME NEW d, d # 0, Chain(d) = <<d>> PROVE Positions(d) = [i \in 1 .. PerCluster |-> <<d, i>>]
  <2>1. PerCluster \in Nat \ {0}
    BY FatAssumption
  <2>2. Len(<<d>>) * PerCluster = PerCluster
    BY <2>1
  <2>3. Positions(d) = [i \in 1 .. PerCluster |->
                          <<<<d>>[((i - 1) \div PerCluster) + 1], ((i - 1) % PerCluster) + 1>>]
    BY <1>2, <2>2 DEF Positions
  <2>4. \A i \in 1 .. PerCluster : (i - 1) \div PerCluster = 0 /\ (i - 1) % PerCluster = i - 1
    <3> SUFFICES ASSUME NEW i \in 1 .. PerCluster
                 PROVE  (i - 1) \div PerCluster = 0 /\ (i - 1) % PerCluster = i - 1
      OBVIOUS
    <3>1. i - 1 \in 0 .. PerCluster - 1
      BY <2>1
    <3> QED
      BY <2>1, <3>1
  <2>5. \A i \in 1 .. PerCluster : <<<<d>>[((i - 1) \div PerCluster) + 1], ((i - 1) % PerCluster) + 1>> = <<d, i>>
    <3> SUFFICES ASSUME NEW i \in 1 .. PerCluster
                 PROVE  <<<<d>>[((i - 1) \div PerCluster) + 1], ((i - 1) % PerCluster) + 1>> = <<d, i>>
      OBVIOUS
    <3>1. ((i - 1) \div PerCluster) + 1 = 1
      BY <2>4
    <3>2. ((i - 1) % PerCluster) + 1 = i
      BY <2>1, <2>4
    <3> QED
      BY <3>1, <3>2
  <2> QED
    BY <2>3, <2>5
<1> QED
  BY <1>1, <1>2

\* A name found in the root is that of an entry there.
LEMMA RootFound ==
  ASSUME NEW n, NEW q \in dir_find_name(0, n)
  PROVE  q \in RootLive /\ Slot(q).name = n
<1> DEFINE all == Walked(0)
<1>1. PICK i \in fat_read_dir(0) : q = all[i] /\ Slot(all[i]).name = n
  BY DEF dir_find_name, FirstOf
<1>2. i \in DOMAIN all /\ Slot(all[i]) # Deleted /\ \A j \in 1 .. i : Slot(all[j]) # End
  BY <1>1 DEF fat_read_dir
<1>3. all = [j \in 1 .. RootSlots |-> <<0, j>>]
  <2>0. RootSlots \in Nat
    BY FatAssumption
  <2>1. Positions(0) \in Seq({<<0, j>> : j \in 1 .. RootSlots})
    BY <2>0, PositionsAre
  <2>2. all = Positions(0) \o <<>>
    BY DEF Walked
  <2> HIDE DEF all
  <2>3. all = Positions(0)
    BY <2>1, <2>2
  <2> QED
    BY <2>3, PositionsAre
<1> HIDE DEF all
<1>4. i \in 1 .. RootSlots /\ q = <<0, i>> /\ i \in 1 .. i
  BY <1>1, <1>2, <1>3, FatAssumption
<1>5. Live(Slot(q))
  BY <1>1, <1>2, <1>4 DEF Live
<1> QED
  BY <1>1, <1>4, <1>5, RootLiveIs DEF RootPos

\* The slot that is found for a path: nothing but other entries before it.
LEMMA SlotFound ==
  ASSUME ChainInv, Prudent, NEW d \in DirFirsts \cup {0}, NEW n \in Files \cup Dirs,
         NEW pos \in dir_find_slot(d, n)
  PROVE  /\ pos \in Valid /\ pos[1] = d
         /\ \A i \in 1 .. pos[2] - 1 : Live(Slot(<<d, i>>)) /\ Slot(<<d, i>>).name # n
         /\ Live(Slot(pos)) <=> Slot(pos).name = n
<1>0. Typed /\ DirFirsts \subseteq Clusters /\ Valid \subseteq AllPos
  BY DirsAre DEF ChainInv
<1> DEFINE N == IF d = 0 THEN RootSlots ELSE PerCluster
<1>1. Positions(d) = [i \in 1 .. N |-> <<d, i>>] /\ N \in Nat
  <2>1. CASE d = 0
    BY <2>1, PositionsAre, FatAssumption
  <2>2. CASE d # 0
    <3>1. Chain(d) = <<d>>
      BY <2>2, DirsAre DEF DirFirsts
    <3> QED
      BY <2>2, <3>1, PositionsAre, FatAssumption
  <2> QED
    BY <2>1, <2>2
<1> HIDE DEF N
<1> DEFINE I == {i \in 1 .. N : ~ Live(Slot(<<d, i>>)) \/ Slot(<<d, i>>).name = n}
<1>2. dir_find_slot(d, n) = {<<d, i>> : i \in {i \in I : \A j \in I : i <= j}}
  <2>1. DOMAIN Positions(d) = 1 .. N /\ \A i \in 1 .. N : Positions(d)[i] = <<d, i>>
    BY <1>1
  <2>2. {i \in DOMAIN Positions(d) : ~ Live(Slot(Positions(d)[i])) \/ Slot(Positions(d)[i]).name = n} = I
    BY <2>1
  <2>3. dir_find_slot(d, n) = {Positions(d)[i] : i \in {i \in I : \A j \in I : i <= j}}
    BY <2>2 DEF dir_find_slot, FirstOf
  <2> QED
    BY <2>1, <2>3
<1>3. PICK i \in I : pos = <<d, i>> /\ \A j \in I : i <= j
  BY <1>2
<1>4. i \in 1 .. N /\ pos[1] = d /\ pos[2] = i
  BY <1>3
<1>5. \A j \in 1 .. i - 1 : Live(Slot(<<d, j>>)) /\ Slot(<<d, j>>).name # n
  <2> SUFFICES ASSUME NEW j \in 1 .. i - 1 PROVE j \notin I
    BY <1>1, <1>4
  <2>1. ~ (i <= j)
    BY <1>1, <1>4
  <2> QED
    BY <1>3, <2>1
<1>6. n \notin Reserved
  BY DEF Prudent
<1>7. pos \in Valid
  <2>1. CASE d = 0
    BY <1>3, <1>4, <2>1 DEF N, Valid, RootPos
  <2>2. CASE d # 0
    <3>1. d \in DirFirsts /\ d \in Clusters /\ N = PerCluster
      BY <1>0, <2>2 DEF N
    <3>2. Slot(<<d, 1>>).name = "." /\ Slot(<<d, 2>>).name = ".."
      BY <3>1, SlotIs DEF ChainInv, DirsOK, DirShape
    <3>3. <<d, 1>> \in AllPos /\ <<d, 2>> \in AllPos
      BY <3>1, FatAssumption DEF AllPos
    <3>4. Live(Slot(<<d, 1>>)) /\ Live(Slot(<<d, 2>>))
      BY <1>0, <3>2, <3>3, SlotTypes, EntryTypes
    <3>5. i # 1 /\ i # 2
      BY <1>3, <1>6, <3>2, <3>4 DEF Reserved
    <3>6. i \in 3 .. PerCluster
      BY <1>4, <3>1, <3>5, FatAssumption
    <3> QED
      BY <1>3, <3>1, <3>6 DEF Valid
  <2> QED
    BY <2>1, <2>2
<1>8. Live(Slot(pos)) <=> Slot(pos).name = n
  <2>1. Slot(pos) \in Ent
    BY <1>0, <1>7, SlotTypes
  <2>2. Slot(pos).name = n => Live(Slot(pos))
    BY <1>6, <2>1, EntryTypes DEF Reserved
  <2> QED
    BY <1>3, <2>2
<1> QED
  BY <1>4, <1>5, <1>7, <1>8

--------------------------------------------------------------------------------
(* Steps that leave the directories as they are. *)

SameTree ==
  /\ root' = root /\ RootLive' = RootLive /\ DirPos' = DirPos /\ DirFirsts' = DirFirsts
  /\ Valid' = Valid /\ Tree' = Tree
  /\ \A p \in Valid : Slot(p)' = Slot(p)
  /\ \A c \in DirFirsts : data'[c] = data[c]
  /\ \A c \in Clusters : c \notin DirFirsts /\ Clean(data[c]) => Clean(data'[c])

LEMMA SameByNone ==
  ASSUME root' = root, data' = data
  PROVE  SameTree
<1>1. \A p : Slot(p)' = Slot(p)
  BY DEF Slot
<1>2. RootLive' = RootLive
  BY <1>1 DEF RootLive
<1>3. DirPos' = DirPos /\ DirFirsts' = DirFirsts
  BY <1>1, <1>2 DEF DirPos, DirFirsts
<1> QED
  BY <1>1, <1>2, <1>3 DEF SameTree, Valid, Tree

\* A cluster that is no directory's is written.
LEMMA SameByData ==
  ASSUME ChainInv, root' = root, NEW c \in Clusters, c \notin DirFirsts,
         \A k \in Clusters : k # c => data'[k] = data[k], Clean(data'[c])
  PROVE  SameTree
<1>0. DirFirsts \subseteq Clusters
  BY DirsAre
<1>1. \A p \in RootPos : Slot(p)' = Slot(p)
  BY DEF Slot, RootPos
<1>2. RootLive' = RootLive
  BY <1>1 DEF RootLive, RootPos
<1>3. \A p \in RootLive : Slot(p)' = Slot(p)
  BY <1>1, RootLiveIs
<1>4. DirPos' = DirPos /\ DirFirsts' = DirFirsts
  BY <1>2, <1>3 DEF DirPos, DirFirsts
<1>5. Valid' = Valid
  BY <1>4 DEF Valid, RootPos
<1>6. \A k \in DirFirsts : data'[k] = data[k]
  BY <1>0
<1>7. \A p \in DirFirsts \X (3 .. PerCluster) : Slot(p)' = Slot(p)
  <2> SUFFICES ASSUME NEW p \in DirFirsts \X (3 .. PerCluster) PROVE Slot(p)' = Slot(p)
    OBVIOUS
  <2>1. p[1] \in DirFirsts /\ p[1] # 0
    BY <1>0, Numbers
  <2> QED
    BY <1>6, <2>1 DEF Slot
<1>8. \A p \in Valid : Slot(p)' = Slot(p)
  BY <1>1, <1>7 DEF Valid
<1>9. Tree' = Tree
  BY <1>5, <1>8 DEF Tree
<1>10. \A k \in Clusters : Clean(data[k]) => Clean(data'[k])
  OBVIOUS
<1> QED
  BY <1>2, <1>4, <1>5, <1>6, <1>8, <1>9, <1>10 DEF SameTree

LEMMA SameShape ==
  ASSUME ChainInv, SameTree
  PROVE  DirsOK' /\ DirFirsts' \subseteq Clusters /\ \A p \in Tree : Slot(p)' = Slot(p)
<1>1. \A c \in DirFirsts : DirShape(c)
  BY DEF ChainInv, DirsOK
<1>2. \A c \in DirFirsts : DirShape(c)'
  BY <1>1 DEF SameTree, DirShape
<1>3. \A c \in Clusters : c \notin DirFirsts => Clean(data'[c])
  BY DEF ChainInv, DirsOK, SameTree
<1> QED
  BY <1>2, <1>3, DirsAre, RootLiveIs DEF SameTree, DirsOK, Clean

\* The slot that an operation writes to stays as it is.
LEMMA SamePos ==
  ASSUME ChainInv, SameTree, Rec'.pc \in {"alloc", "data"} => Writes /\ Rec'.pos = Rec.pos
  PROVE  PosOK'
<1> SUFFICES ASSUME Rec'.pc \in {"alloc", "data"}
             PROVE  /\ Rec.pos \in Valid'
                    /\ \A i \in 1 .. Rec.pos[2] - 1 : Slot(<<Rec.pos[1], i>>)' # End
                    /\ Live(Slot(Rec.pos)') => Overwrite /\ ~ Slot(Rec.pos)'.dir
  BY DEF PosOK, Writes, Live
<1>0. DirFirsts \subseteq Clusters
  BY DirsAre
<1>1. /\ Rec.pos \in Valid
      /\ \A i \in 1 .. Rec.pos[2] - 1 : Slot(<<Rec.pos[1], i>>) # End
      /\ Live(Slot(Rec.pos)) => Overwrite /\ ~ Slot(Rec.pos).dir
  BY DEF ChainInv, PosOK
<1>2. \A i : Slot(<<Rec.pos[1], i>>)' = Slot(<<Rec.pos[1], i>>)
  <2>1. CASE Rec.pos[1] = 0
    BY <2>1, SlotIs DEF SameTree, Slot
  <2>2. CASE Rec.pos[1] # 0
    <3>1. Rec.pos[1] \in DirFirsts
      BY <1>1, <2>2 DEF Valid, RootPos
    <3> QED
      BY <2>2, <3>1 DEF SameTree, Slot
  <2> QED
    BY <2>1, <2>2
<1> QED
  BY <1>1, <1>2 DEF SameTree

\* The operation hands its chains on: mo is the holder whose chain will be freed.
LEMMA HandedOn ==
  ASSUME ChainInv, SameTree, fat' = fat, op' \in Ops, NEW mo,
         NewOf(op') \in Clusters => NewOf(op') = NewFirst,
         OldOf(op') \in Clusters =>
           /\ mo \in Holders /\ OldOf(op') = Firsts[mo]
           /\ mo = NewH => NewOf(op') \notin Clusters
           /\ mo = OldH => Tree \cap Target \subseteq Target'
           /\ mo \in Tree => mo \in Target',
         \A p \in Tree \cap Target : p \notin Target' => op.pc = "alloc"
  PROVE  Apart(fat', Firsts') /\ Sized'
<1>0. DirFirsts \subseteq Clusters /\ DirFirsts' \subseteq Clusters /\ op \in Ops
  BY DirsAre, SameShape DEF ChainInv, Typed
<1>1. /\ DOMAIN Firsts = (Tree \ Target) \cup {NewH, OldH} /\ DOMAIN Firsts = Holders
      /\ Firsts[NewH] = NewFirst /\ Firsts[OldH] = OldFirst /\ NewH # OldH
      /\ \A h \in Tree : h # NewH /\ h # OldH
      /\ \A h \in Tree \ Target : Firsts[h] = Slot(h).first
  BY <1>0, FirstsAre DEF Holders
<1>2. Tree' = Tree /\ \A p \in Tree : Slot(p)' = Slot(p)
  BY SameShape DEF SameTree
<1>3. /\ DOMAIN Firsts' = (Tree \ Target') \cup {NewH, OldH}
      /\ Firsts'[NewH] = NewOf(op') /\ Firsts'[OldH] = OldOf(op')
      /\ \A h \in Tree \ Target' : Firsts'[h] = Slot(h).first
  BY <1>0, <1>2, FirstsNext
<1>4. \A p, q \in Target : p = q
  BY <1>0, TargetIs DEF TargetOf
<1>5. ASSUME NEW p \in Tree \cap Target, p \notin Target'
      PROVE  /\ op.pc = "alloc" /\ p = op.pos /\ OldFirst = Slot(p).first
             /\ Closed(fat, Slot(p).first) /\ Len(Chain(Slot(p).first)) = Slot(p).size
             /\ ~ Slot(p).dir
  <2>1. op.pc = "alloc" /\ Target = {op.pos} /\ Rec = op /\ Writes
    BY <1>0, <1>5, OpValues, TargetIs DEF Rec, Writes
  <2>2. p = op.pos /\ Live(Slot(p))
    BY <2>1, <1>5, RootLiveIs
  <2>3. op.old = Slot(p).first /\ Closed(fat, op.old) /\ Len(Chain(op.old)) = Slot(p).size
    BY <2>1, <2>2 DEF ChainInv, AllocOK
  <2>4. ~ Slot(p).dir
    BY <2>1, <2>2 DEF ChainInv, PosOK
  <2>5. OldFirst = op.old
    BY <1>0, <2>1, OpValues DEF OldFirst
  <2> QED
    BY <2>1, <2>2, <2>3, <2>4, <2>5
<1> DEFINE m == [h \in DOMAIN Firsts' |-> IF h = NewH THEN NewH ELSE IF h = OldH THEN mo
                                          ELSE IF h \in Target THEN OldH ELSE h]
<1>6. /\ m[NewH] = NewH /\ m[OldH] = mo
      /\ \A h \in Tree \ Target' : m[h] = IF h \in Target THEN OldH ELSE h
  BY <1>1, <1>3
<1> HIDE DEF m
<1>7. ASSUME NEW h \in DOMAIN Firsts', Firsts'[h] \in Clusters
      PROVE  m[h] \in DOMAIN Firsts /\ Firsts'[h] = Firsts[m[h]]
  <2>1. CASE h = NewH
    BY <1>1, <1>3, <1>6, <1>7, <2>1
  <2>2. CASE h = OldH
    BY <1>1, <1>3, <1>6, <1>7, <2>2
  <2>3. CASE h \in Tree \ Target' /\ h \in Target
    BY <1>1, <1>3, <1>5, <1>6, <2>3
  <2>4. CASE h \in Tree \ Target' /\ h \notin Target
    BY <1>1, <1>3, <1>6, <2>4
  <2> QED
    BY <1>3, <2>1, <2>2, <2>3, <2>4
<1>8. ASSUME NEW g \in DOMAIN Firsts', NEW h \in DOMAIN Firsts', g # h,
             Firsts'[g] \in Clusters, Firsts'[h] \in Clusters
      PROVE  m[g] # m[h]
  <2>1. ASSUME NEW k \in Tree \ Target' PROVE m[k] # NewH
    BY <1>1, <1>6, <2>1
  <2>2. ASSUME NEW k \in Tree \ Target', OldOf(op') \in Clusters PROVE m[k] # mo
    <3>1. CASE k \in Target
      <4>1. m[k] = OldH /\ k \in Tree \cap Target /\ k \notin Target'
        BY <1>6, <2>2, <3>1
      <4>2. mo # OldH
        BY <2>2, <4>1
      <4> QED
        BY <4>1, <4>2
    <3>2. CASE k \notin Target
      <4>1. m[k] = k /\ k \in Tree
        BY <1>6, <2>2, <3>2
      <4> QED
        BY <2>2, <4>1
    <3> QED
      BY <3>1, <3>2
  <2>3. ASSUME NEW k \in Tree \ Target', NEW l \in Tree \ Target', k # l PROVE m[k] # m[l]
    <3>1. (m[k] = IF k \in Target THEN OldH ELSE k) /\ (m[l] = IF l \in Target THEN OldH ELSE l)
      BY <1>6, <2>3
    <3>2. k # OldH /\ l # OldH /\ ~ (k \in Target /\ l \in Target)
      BY <1>1, <1>4, <2>3
    <3> QED
      BY <2>3, <3>1, <3>2
  <2>4. OldOf(op') \in Clusters /\ NewOf(op') \in Clusters => mo # NewH
    OBVIOUS
  <2>5. (g = NewH \/ g = OldH \/ g \in Tree \ Target') /\ (h = NewH \/ h = OldH \/ h \in Tree \ Target')
    BY <1>3
  <2>6. CASE g = NewH
    <3>1. m[g] = NewH /\ NewOf(op') \in Clusters
      BY <1>3, <1>6, <1>8, <2>6
    <3>2. h = OldH \/ h \in Tree \ Target'
      BY <1>8, <2>5, <2>6
    <3>3. h = OldH => OldOf(op') \in Clusters /\ m[h] = mo
      BY <1>3, <1>6, <1>8
    <3> QED
      BY <2>1, <2>4, <3>1, <3>2, <3>3
  <2>7. CASE g = OldH
    <3>1. m[g] = mo /\ OldOf(op') \in Clusters
      BY <1>3, <1>6, <1>8, <2>7
    <3>2. h = NewH \/ h \in Tree \ Target'
      BY <1>8, <2>5, <2>7
    <3>3. h = NewH => NewOf(op') \in Clusters /\ m[h] = NewH
      BY <1>3, <1>6, <1>8
    <3> QED
      BY <2>2, <2>4, <3>1, <3>2, <3>3
  <2>8. CASE g \in Tree \ Target'
    <3>1. h = NewH => m[h] = NewH
      BY <1>6
    <3>2. h = OldH => OldOf(op') \in Clusters /\ m[h] = mo
      BY <1>3, <1>6, <1>8
    <3> QED
      BY <1>8, <2>1, <2>2, <2>3, <2>5, <2>8, <3>1, <3>2
  <2> QED
    BY <2>5, <2>6, <2>7, <2>8
<1>9. Apart(fat, Firsts')
  <2>1. Apart(fat, Firsts)
    BY DEF ChainInv
  <2> QED
    BY <1>7, <1>8, <2>1, Moved
<1>10. Sized'
  <2> SUFFICES ASSUME NEW p \in Tree \ Target'
               PROVE  /\ Closed(fat, Slot(p).first)
                      /\ Len(Chain(Slot(p).first)) = IF Slot(p).dir THEN 1 ELSE Slot(p).size
    BY <1>2 DEF Sized, Closed, Chain
  <2>1. CASE p \in Target
    BY <1>5, <2>1
  <2>2. CASE p \notin Target
    BY <2>2 DEF ChainInv, Sized
  <2> QED
    BY <2>1, <2>2
<1> QED
  BY <1>9, <1>10

\* Nothing that was held is lost on the way.
LEMMA HandedUsed ==
  ASSUME ChainInv, SameTree, fat' = fat, Used(fat, Firsts),
         NewFirst \in Clusters => NewOf(op') = NewFirst \/ OldOf(op') = NewFirst,
         OldFirst \in Clusters => \/ OldOf(op') = OldFirst
                                  \/ \E p \in Tree \ Target' : Slot(p).first = OldFirst,
         \A p \in Tree \ Target : p \in Target' /\ Slot(p).first \in Clusters =>
                                    OldOf(op') = Slot(p).first
  PROVE  Used(fat', Firsts')
<1>0. DirFirsts \subseteq Clusters /\ DirFirsts' \subseteq Clusters
  BY DirsAre, SameShape
<1>1. /\ DOMAIN Firsts = (Tree \ Target) \cup {NewH, OldH}
      /\ Firsts[NewH] = NewFirst /\ Firsts[OldH] = OldFirst
      /\ \A h \in Tree \ Target : Firsts[h] = Slot(h).first
  BY <1>0, FirstsAre
<1>2. Tree' = Tree /\ \A p \in Tree : Slot(p)' = Slot(p)
  BY SameShape DEF SameTree
<1>3. /\ DOMAIN Firsts' = (Tree \ Target') \cup {NewH, OldH}
      /\ Firsts'[NewH] = NewOf(op') /\ Firsts'[OldH] = OldOf(op')
      /\ \A h \in Tree \ Target' : Firsts'[h] = Slot(h).first
  BY <1>0, <1>2, FirstsNext
<1>4. ASSUME NEW g \in DOMAIN Firsts, Firsts[g] \in Clusters
      PROVE  \E h \in DOMAIN Firsts' : Firsts'[h] = Firsts[g]
  <2>1. CASE g = NewH
    BY <1>1, <1>3, <1>4, <2>1
  <2>2. CASE g = OldH
    BY <1>1, <1>3, <1>4, <2>2
  <2>3. CASE g \in Tree \ Target /\ g \in Target'
    BY <1>1, <1>3, <1>4, <2>3
  <2>4. CASE g \in Tree \ Target /\ g \notin Target'
    BY <1>1, <1>3, <2>4
  <2> QED
    BY <1>1, <2>1, <2>2, <2>3, <2>4
<1>5. Apart(fat, Firsts)
  BY DEF ChainInv
<1> QED
  BY <1>4, <1>5, MovedUsed

--------------------------------------------------------------------------------
(* The steps of an operation. *)

LEMMA PathNames ==
  ASSUME Prudent, NEW p \in AllPaths
  PROVE  /\ p \in Paths /\ Name(p) \in Files /\ Len(p) \in {1, 2}
         /\ Len(p) = 1 => p = <<Name(p)>>
         /\ Len(p) = 2 => p[1] \in Dirs /\ p = <<p[1], Name(p)>>
<1>1. p \in Paths
  BY DEF Prudent, AllPaths, Paths
<1>2. CASE \E n \in Files : p = <<n>>
  <2>1. PICK n \in Files : p = <<n>>
    BY <1>2
  <2>2. Len(p) = 1 /\ Name(p) = n
    BY <2>1 DEF Name
  <2> QED
    BY <1>1, <2>1, <2>2
<1>3. CASE \E d \in Dirs, n \in SubFiles : p = <<d, n>>
  <2>1. PICK d \in Dirs, n \in SubFiles : p = <<d, n>>
    BY <1>3
  <2>2. Len(p) = 2 /\ Name(p) = n /\ p[1] = d
    BY <2>1 DEF Name
  <2> QED
    BY <1>1, <2>1, <2>2 DEF Prudent
<1> QED
  BY <1>1, <1>2, <1>3 DEF Paths

\* The slot that is found for a path.
LEMMA PathSlot ==
  ASSUME ChainInv, Prudent, NEW p \in AllPaths \cup {<<n>> : n \in Dirs}, NEW pos \in FindSlot(p)
  PROVE  /\ pos \in Valid /\ pos \in AllPos
         /\ \A i \in 1 .. pos[2] - 1 : Live(Slot(<<pos[1], i>>)) /\ Slot(<<pos[1], i>>).name # Name(p)
         /\ Live(Slot(pos)) <=> Slot(pos).name = Name(p)
         /\ Live(Slot(pos)) <=> pos \in Tree
         /\ IF Len(p) = 1 THEN pos[1] = 0
            ELSE \E q \in DirPos : /\ q \in dir_find_name(0, p[1]) /\ Slot(q).name = p[1]
                                   /\ pos[1] = Slot(q).first
<1>1. PICK d \in Parent(p) : pos \in dir_find_slot(d, Name(p))
  BY DEF FindSlot
<1>2. Name(p) \in Files \cup Dirs
  <2>1. CASE p \in AllPaths
    BY <2>1, PathNames
  <2>2. CASE p \in {<<n>> : n \in Dirs}
    BY <2>2 DEF Name
  <2> QED
    BY <2>1, <2>2
<1>3. Len(p) = 1 => d = 0
  BY <1>1 DEF Parent
<1>4. Len(p) # 1 => \E q \in DirPos : q \in dir_find_name(0, p[1]) /\ Slot(q).name = p[1] /\ d = Slot(q).first
  <2> SUFFICES ASSUME Len(p) # 1
               PROVE  \E q \in DirPos : q \in dir_find_name(0, p[1]) /\ Slot(q).name = p[1] /\ d = Slot(q).first
    OBVIOUS
  <2>1. PICK q \in dir_find_name(0, p[1]) : Slot(q).dir /\ d = Slot(q).first
    BY <1>1 DEF Parent
  <2>2. q \in RootLive /\ Slot(q).name = p[1]
    BY RootFound
  <2> QED
    BY <2>1, <2>2 DEF DirPos
<1>5. d \in DirFirsts \cup {0}
  BY <1>3, <1>4 DEF DirFirsts
<1>6. /\ pos \in Valid /\ pos[1] = d
      /\ \A i \in 1 .. pos[2] - 1 : Live(Slot(<<d, i>>)) /\ Slot(<<d, i>>).name # Name(p)
      /\ Live(Slot(pos)) <=> Slot(pos).name = Name(p)
  BY <1>1, <1>2, <1>5, SlotFound
<1>7. pos \in AllPos /\ (Live(Slot(pos)) <=> pos \in Tree)
  <2>1. Slot(pos).name = Name(p) => ~ Stale(Slot(pos))
    BY <1>2, EntryTypes DEF Prudent, Reserved, Stale
  <2> QED
    BY <1>6, <2>1, DirsAre DEF Tree
<1> QED
  BY <1>3, <1>4, <1>6, <1>7

LEMMA NoTable ==
  ASSUME NEW t, NEW f, f \notin Clusters
  PROVE  ChainIn(t, f) = <<>> /\ Closed(t, f) /\ ClustersOf(t, f) = {}
BY NoChain

LEMMA WriteStep ==
  ASSUME ChainInv, Prudent, NEW p \in AllPaths, NEW size \in 0 .. MaxSize, fat_write_file(p, size)
  PROVE  ChainInv'
<1>0. op.pc = "idle" /\ UNCHANGED <<fat, root, data, faults, last>> /\ Typed /\ op \in Ops
  BY DEF fat_write_file, ChainInv, Typed
<1>1. PICK pos \in FindSlot(p) :
        /\ Slot(pos).name = Name(p) => Overwrite /\ ~ Slot(pos).dir
        /\ op' = [pc |-> "alloc", path |-> p, pos |-> pos, size |-> size,
                  old |-> IF Slot(pos).name = Name(p) THEN Slot(pos).first ELSE 0, chain |-> <<>>]
  BY DEF fat_write_file
<1>2. /\ pos \in Valid /\ pos \in AllPos
      /\ \A i \in 1 .. pos[2] - 1 : Live(Slot(<<pos[1], i>>)) /\ Slot(<<pos[1], i>>).name # Name(p)
      /\ Live(Slot(pos)) <=> Slot(pos).name = Name(p)
      /\ Live(Slot(pos)) <=> pos \in Tree
  BY PathSlot
<1>3. Slot(pos) \in Ent
  BY <1>0, <1>2, SlotTypes
<1>4. op' \in Writings({"alloc", "data"}) /\ op' \in Ops
  <2>1. (IF Slot(pos).name = Name(p) THEN Slot(pos).first ELSE 0) \in Clusters \cup {0}
    BY <1>3 DEF Ent
  <2>2. <<>> \in Seq(Clusters)
    OBVIOUS
  <2> QED
    BY <1>1, <1>2, <2>1, <2>2 DEF Writings, Ops
<1>5. Typed'
  BY <1>0, <1>4 DEF Typed
<1>6. /\ op'.pc = "alloc" /\ op'.pos = pos /\ op'.chain = <<>> /\ op'.size = size
      /\ op'.old = IF Slot(pos).name = Name(p) THEN Slot(pos).first ELSE 0
  BY <1>1
<1>7. NewOf(op') = 0 /\ OldOf(op') = op'.old /\ TargetOf(op') = {pos} /\ RecOf(op') = op'
  BY <1>4, <1>6, OpValues
<1>8. Target = {} /\ NewFirst = 0 /\ OldFirst = 0
  BY <1>0, OpValues, TargetIs DEF NewFirst, OldFirst
<1>9. Target' = {pos}
  BY <1>4, <1>7, <1>6 DEF Target
<1>10. SameTree
  BY <1>0, SameByNone
<1>11. DirsOK'
  BY <1>10, SameShape
<1>12. Slot(pos).name = Name(p) => pos \in Holders /\ Firsts[pos] = Slot(pos).first /\ pos # NewH /\ pos # OldH
  <2>1. DirFirsts \subseteq Clusters
    BY DirsAre
  <2> QED
    BY <1>2, <1>8, <2>1, FirstsAre DEF Holders
<1>13. Apart(fat', Firsts') /\ Sized'
  <2>1. OldOf(op') \in Clusters => Slot(pos).name = Name(p) /\ OldOf(op') = Slot(pos).first
    BY <1>6, <1>7, Numbers
  <2>2. OldOf(op') \in Clusters =>
           /\ pos \in Holders /\ OldOf(op') = Firsts[pos]
           /\ pos = NewH => NewOf(op') \notin Clusters
           /\ pos = OldH => Tree \cap Target \subseteq Target'
           /\ pos \in Tree => pos \in Target'
    BY <1>9, <1>12, <2>1
  <2>3. NewOf(op') \notin Clusters
    BY <1>7, Numbers
  <2> QED
    BY <1>0, <1>4, <1>8, <1>10, <2>2, <2>3, HandedOn
<1>14. Faults \subseteq {"data", "zero"} => Used(fat', Firsts')
  <2> SUFFICES ASSUME Faults \subseteq {"data", "zero"} PROVE Used(fat', Firsts')
    OBVIOUS
  <2>1. Used(fat, Firsts)
    BY DEF ChainInv
  <2>2. \A q \in Tree \ Target : q \in Target' /\ Slot(q).first \in Clusters => OldOf(op') = Slot(q).first
    BY <1>2, <1>6, <1>7, <1>9, RootLiveIs
  <2>3. NewFirst \notin Clusters /\ OldFirst \notin Clusters
    BY <1>8, Numbers
  <2> QED
    BY <1>0, <1>10, <2>1, <2>2, <2>3, HandedUsed
<1>15. PosOK'
  <2>1. Slot(pos)' = Slot(pos) /\ \A i : Slot(<<pos[1], i>>)' = Slot(<<pos[1], i>>)
    BY <1>0 DEF Slot
  <2>2. Rec' = op' /\ Valid' = Valid
    BY <1>7, <1>10 DEF Rec, SameTree
  <2>3. \A i \in 1 .. pos[2] - 1 : Slot(<<pos[1], i>>) # End
    BY <1>2, EntryTypes
  <2>4. Live(Slot(pos)) => Overwrite /\ ~ Slot(pos).dir
    BY <1>1, <1>2
  <2> QED
    BY <1>2, <1>6, <2>1, <2>2, <2>3, <2>4 DEF PosOK, Live
<1>16. AllocOK'
  <2>1. Closed(fat, op'.old)
    <3>1. CASE Slot(pos).name = Name(p)
      BY <1>2, <1>6, <1>8, <3>1 DEF ChainInv, Sized
    <3>2. CASE Slot(pos).name # Name(p)
      BY <1>6, <3>2, NoTable, Numbers
    <3> QED
      BY <3>1, <3>2
  <2>2. IF Live(Slot(pos)) THEN op'.old = Slot(pos).first /\ Len(Chain(op'.old)) = Slot(pos).size
        ELSE op'.old = 0
    <3>1. CASE Live(Slot(pos))
      BY <1>1, <1>2, <1>6, <1>8, <3>1 DEF ChainInv, Sized
    <3>2. CASE ~ Live(Slot(pos))
      BY <1>2, <1>6, <3>2
    <3> QED
      BY <3>1, <3>2
  <2>3. Slot(op.pos)' = Slot(pos) /\ Chain(op.old)' = Chain(op'.old)
    BY <1>0, <1>6 DEF Slot, Chain
  <2>4. Closed(fat', op'.old)
    BY <1>0, <2>1
  <2>6. Len(op'.chain) = 0 /\ op'.size \in Nat /\ 1 .. Len(op'.chain) = {}
    BY <1>6
  <2> QED
    BY <1>6, <2>2, <2>3, <2>4, <2>6 DEF AllocOK, Live
<1>17. DataOK' /\ WritesOK' /\ DotsOK'
  <2>1. ChainIn(fat', 0) = <<>>
    BY NoTable, Numbers
  <2> QED
    BY <1>6, <1>7, <2>1 DEF DataOK, WritesOK, DotsOK, Rec, Writes, NewFirst, Chain
<1> QED
  BY <1>5, <1>11, <1>13, <1>14, <1>15, <1>16, <1>17 DEF ChainInv

\* The table is changed for the chain of one holder, which is the operation.
LEMMA TableStep ==
  ASSUME ChainInv, root' = root, data' = data, Target' = Target, NEW h \in {NewH, OldH},
         op' \in Ops, NEW f2,
         h = NewH => NewOf(op') = f2 /\ OldOf(op') = OldFirst,
         h = OldH => OldOf(op') = f2 /\ NewOf(op') = NewFirst,
         \A g \in DOMAIN Firsts : g # h => \A c \in ClustersOf(fat, Firsts[g]) : fat'[c] = fat[c],
         Proper(fat', f2),
         \A g \in DOMAIN Firsts : g # h => ClustersOf(fat', f2) \cap ClustersOf(fat, Firsts[g]) = {}
  PROVE  /\ SameTree /\ DirsOK' /\ Apart(fat', Firsts') /\ Sized'
         /\ DOMAIN Firsts' = DOMAIN Firsts /\ Firsts'[h] = f2
         /\ \A g \in DOMAIN Firsts : g # h => /\ ChainIn(fat', Firsts[g]) = ChainIn(fat, Firsts[g])
                                              /\ Closed(fat', Firsts[g]) <=> Closed(fat, Firsts[g])
                                              /\ ClustersOf(fat', Firsts'[g]) = ClustersOf(fat, Firsts[g])
<1>0. SameTree /\ DirsOK' /\ DirFirsts \subseteq Clusters /\ DirFirsts' \subseteq Clusters
  BY SameByNone, SameShape, DirsAre
<1>1. /\ DOMAIN Firsts = (Tree \ Target) \cup {NewH, OldH}
      /\ Firsts[NewH] = NewFirst /\ Firsts[OldH] = OldFirst /\ NewH # OldH
      /\ \A k \in Tree : k # NewH /\ k # OldH
      /\ \A k \in Tree \ Target : Firsts[k] = Slot(k).first
  BY <1>0, FirstsAre
<1>2. Tree' = Tree /\ \A p \in Tree : Slot(p)' = Slot(p)
  BY <1>0, SameShape DEF SameTree
<1>3. /\ DOMAIN Firsts' = (Tree \ Target) \cup {NewH, OldH}
      /\ Firsts'[NewH] = NewOf(op') /\ Firsts'[OldH] = OldOf(op')
      /\ \A k \in Tree \ Target : Firsts'[k] = Slot(k).first
  BY <1>0, <1>2, FirstsNext
<1>4. h \in DOMAIN Firsts /\ DOMAIN Firsts' = DOMAIN Firsts /\ Firsts'[h] = f2
  BY <1>1, <1>3
<1>5. \A g \in DOMAIN Firsts : g # h => Firsts'[g] = Firsts[g]
  BY <1>1, <1>3
<1>6. Apart(fat, Firsts) /\ Sized
  BY DEF ChainInv
<1>7. /\ Apart(fat', Firsts')
      /\ \A g \in DOMAIN Firsts : g # h => /\ ChainIn(fat', Firsts'[g]) = ChainIn(fat, Firsts[g])
                                           /\ ClustersOf(fat', Firsts'[g]) = ClustersOf(fat, Firsts[g])
                                           /\ Closed(fat', Firsts'[g]) <=> Closed(fat, Firsts[g])
  <2>1. \A g \in DOMAIN Firsts : g # h =>
           Firsts'[g] = Firsts[g] /\ \A c \in ClustersOf(fat, Firsts[g]) : fat'[c] = fat[c]
    BY <1>5
  <2>2. Proper(fat', Firsts'[h])
    BY <1>4
  <2>3. \A g \in DOMAIN Firsts : g # h => ClustersOf(fat', Firsts'[h]) \cap ClustersOf(fat, Firsts[g]) = {}
    BY <1>4
  <2>4. Replaces(fat, Firsts, fat', Firsts', h)
    BY <1>4, <1>6, <2>1, <2>2, <2>3, Zenon DEF Replaces
  <2> QED
    BY <2>4, Replaced
<1>8. Sized'
  <2> SUFFICES ASSUME NEW p \in Tree \ Target
               PROVE  /\ Closed(fat', Slot(p).first)
                      /\ Len(ChainIn(fat', Slot(p).first)) = IF Slot(p).dir THEN 1 ELSE Slot(p).size
    BY <1>2 DEF Sized, Chain
  <2>1. p \in DOMAIN Firsts /\ p # h /\ Firsts[p] = Slot(p).first /\ Firsts'[p] = Slot(p).first
    BY <1>1, <1>3
  <2>2. Closed(fat, Slot(p).first) /\ Len(ChainIn(fat, Slot(p).first)) = IF Slot(p).dir THEN 1 ELSE Slot(p).size
    BY <1>6 DEF Sized, Chain
  <2>3. /\ ChainIn(fat', Firsts'[p]) = ChainIn(fat, Firsts[p])
        /\ Closed(fat', Firsts'[p]) <=> Closed(fat, Firsts[p])
    BY <1>7, <2>1
  <2> QED
    BY <2>1, <2>2, <2>3
<1> QED
  BY <1>0, <1>4, <1>5, <1>7, <1>8

LEMMA TableUsed ==
  ASSUME Used(fat, Firsts), DOMAIN Firsts' = DOMAIN Firsts, NEW h \in DOMAIN Firsts,
         \A g \in DOMAIN Firsts : g # h => ClustersOf(fat', Firsts'[g]) = ClustersOf(fat, Firsts[g]),
         \A x \in Clusters : fat'[x] # 0 => \/ x \in ClustersOf(fat', Firsts'[h])
                                            \/ fat[x] # 0 /\ x \notin ClustersOf(fat, Firsts[h])
  PROVE  Used(fat', Firsts')
<1> SUFFICES ASSUME NEW x \in Clusters, fat'[x] # 0
             PROVE  \E g \in DOMAIN Firsts' : x \in ClustersOf(fat', Firsts'[g])
  BY DEF Used
<1>1. CASE x \in ClustersOf(fat', Firsts'[h])
  BY <1>1
<1>2. CASE fat[x] # 0 /\ x \notin ClustersOf(fat, Firsts[h])
  <2>1. PICK g \in DOMAIN Firsts : x \in ClustersOf(fat, Firsts[g])
    BY <1>2 DEF Used
  <2> QED
    BY <1>2, <2>1
<1> QED
  BY <1>1, <1>2

LEMMA LeastIn ==
  ASSUME NEW S \in SUBSET Clusters, S # {}
  PROVE  Least(S) \in S
<1>0. S \in SUBSET Nat
  BY Numbers
<1>1. PICK m \in S : \A k \in S : ~ (<<k, m>> \in OpToRel(<, Nat))
  BY <1>0, WFMin, NatLessThanWellFounded, Zenon
<1>2. \A k \in S : ~ (k < m)
  BY <1>0, <1>1, Zenon DEF OpToRel
<1>3. \A k \in S : m <= k
  BY <1>0, <1>2
<1> QED
  BY <1>3, Zenon DEF Least

\* A free cluster is in no closed chain.
LEMMA FreeApart ==
  ASSUME ChainInv, NEW c \in Clusters, fat[c] = 0, Closed(fat, OldFirst),
         c \notin ClustersOf(fat, NewFirst)
  PROVE  \A g \in DOMAIN Firsts : c \notin ClustersOf(fat, Firsts[g])
<1>1. DirFirsts \subseteq Clusters
  BY DirsAre
<1>2. c \notin ClustersOf(fat, OldFirst)
  BY HeldChains, ClosedNotFree
<1>3. \A p \in Tree \ Target : c \notin ClustersOf(fat, Slot(p).first)
  BY HeldChains, ClosedNotFree
<1> QED
  BY <1>1, <1>2, <1>3, FirstsAre

\* The volume is full: the clusters taken so far are freed, the old ones are kept.
LEMMA FullStep ==
  ASSUME ChainInv, op.pc = "alloc", op' = NoSpace, UNCHANGED <<fat, root, data, faults, last>>
  PROVE  ChainInv'
<1>0. Typed /\ op \in Ops /\ op \in Writings({"alloc", "data"})
  BY OpKinds DEF ChainInv, Typed
<1>1. NewFirst = (IF op.chain = <<>> THEN 0 ELSE op.chain[1]) /\ OldFirst = op.old /\ Target = {op.pos}
  BY <1>0, OpValues, TargetIs DEF NewFirst, OldFirst
<1>2. op'.pc = "free" /\ op'.c = NewFirst /\ op'.then = Idle
  BY <1>1 DEF NoSpace, FreeThen
<1>3. op' \in Freeings /\ op' \in Ops
  <2>1. op.chain \in Seq(Clusters)
    BY <1>0 DEF Writings
  <2>2. op.chain # <<>> => op.chain[1] \in Clusters
    BY <2>1
  <2>3. NewFirst \in Clusters \cup {0, Eoc}
    BY <1>1, <2>2
  <2> QED
    BY <1>1, <2>3 DEF NoSpace, FreeThen, Freeings, Ops
<1>4. Typed'
  BY <1>0, <1>3 DEF Typed
<1>5. NewOf(op') = 0 /\ OldOf(op') = NewFirst /\ TargetOf(op') = {} /\ RecOf(op') = Idle
  BY <1>2, <1>3, OpValues
<1>6. Target' = {}
  BY <1>2 DEF Target, Idle
<1>7. SameTree /\ DirsOK' /\ DirFirsts \subseteq Clusters
  BY SameByNone, SameShape, DirsAre
<1>8. Apart(fat', Firsts') /\ Sized'
  <2>1. NewH \in Holders /\ Firsts[NewH] = NewFirst /\ NewH # OldH /\ NewH \notin Tree
    BY <1>7, FirstsAre DEF Holders
  <2>2. NewOf(op') \notin Clusters
    BY <1>5, Numbers
  <2> QED
    BY <1>3, <1>5, <1>7, <2>1, <2>2, HandedOn
<1>9. Faults \subseteq {"data", "zero"} => Used(fat', Firsts')
  <2> SUFFICES ASSUME Faults \subseteq {"data", "zero"} PROVE Used(fat', Firsts')
    OBVIOUS
  <2>1. Used(fat, Firsts)
    BY DEF ChainInv
  <2>2. OldFirst \in Clusters => \E p \in Tree \ Target' : Slot(p).first = OldFirst
    <3> SUFFICES ASSUME op.old \in Clusters PROVE op.pos \in Tree /\ Slot(op.pos).first = op.old
      BY <1>1, <1>6
    <3>1. Live(Slot(op.pos)) /\ Slot(op.pos).first = op.old
      BY Numbers DEF ChainInv, AllocOK
    <3>2. op.pos \in Valid
      BY <1>0, OpValues DEF ChainInv, PosOK, Rec, Writes
    <3>3. ~ Stale(Slot(op.pos))
      BY <3>1, Numbers DEF Stale, Junk, Entry
    <3> QED
      BY <3>1, <3>2, <3>3 DEF Tree
  <2> QED
    BY <1>5, <1>6, <1>7, <2>1, <2>2, HandedUsed
<1>10. PosOK' /\ AllocOK' /\ DataOK' /\ WritesOK' /\ DotsOK'
  <2>1. Rec'.pc = "idle"
    BY <1>5 DEF Rec, Idle
  <2> QED
    BY <1>2, <2>1 DEF PosOK, AllocOK, DataOK, WritesOK, DotsOK, Writes
<1> QED
  BY <1>4, <1>7, <1>8, <1>9, <1>10 DEF ChainInv

\* The step leaves the directories and the chains and contents of the entries as they are,
\* but for the sector that stray writes hit.
Kept ==
  /\ SameTree
  /\ \A p \in Tree \ Target : /\ ChainIn(fat', Slot(p).first) = ChainIn(fat, Slot(p).first)
                              /\ \A c \in ClustersOf(fat, Slot(p).first) :
                                   c = Struck \/ data'[c] = data[c]
  /\ op.pc = "alloc" => ChainIn(fat', op.old) = ChainIn(fat, op.old) /\ data' = data

LEMMA KeptByNone ==
  ASSUME UNCHANGED <<fat, root, data>>
  PROVE  Kept
BY SameByNone DEF Kept

\* One holder's chain is changed, with clusters X that were in no chain.
TableChange(h, f2, X) ==
  /\ root' = root /\ data' = data /\ Target' = Target /\ op' \in Ops /\ h \in {NewH, OldH}
  /\ h = NewH => NewOf(op') = f2 /\ OldOf(op') = OldFirst
  /\ h = OldH => OldOf(op') = f2 /\ NewOf(op') = NewFirst
  /\ Proper(fat', f2) /\ ClustersOf(fat', f2) \subseteq ClustersOf(fat, Firsts[h]) \cup X
  /\ \A g \in DOMAIN Firsts : X \cap ClustersOf(fat, Firsts[g]) = {}
  /\ \A x \in Clusters : x \notin ClustersOf(fat, Firsts[h]) \cup X => fat'[x] = fat[x]
  /\ \A x \in Clusters : x \in ClustersOf(fat, Firsts[h]) \cup X /\ fat'[x] # 0 => x \in ClustersOf(fat', f2)

LEMMA TableChanges ==
  ASSUME ChainInv, NEW h, NEW f2, NEW X, TableChange(h, f2, X)
  PROVE  /\ SameTree /\ DirsOK' /\ Apart(fat', Firsts') /\ Sized'
         /\ Faults \subseteq {"data", "zero"} => Used(fat', Firsts')
         /\ \A p \in Tree \ Target : ChainIn(fat', Slot(p).first) = ChainIn(fat, Slot(p).first)
         /\ h = NewH => /\ ChainIn(fat', OldFirst) = ChainIn(fat, OldFirst)
                        /\ Closed(fat', OldFirst) <=> Closed(fat, OldFirst)
         /\ h = OldH => /\ ChainIn(fat', NewFirst) = ChainIn(fat, NewFirst)
                        /\ Closed(fat', NewFirst) <=> Closed(fat, NewFirst)
<1> USE DEF TableChange
<1>0. DirFirsts \subseteq Clusters
  BY DirsAre
<1>1. /\ DOMAIN Firsts = (Tree \ Target) \cup {NewH, OldH}
      /\ Firsts[NewH] = NewFirst /\ Firsts[OldH] = OldFirst /\ NewH # OldH
      /\ \A p \in Tree \ Target : Firsts[p] = Slot(p).first /\ p # NewH /\ p # OldH
  BY <1>0, FirstsAre
<1>2. h \in DOMAIN Firsts /\ NewH \in DOMAIN Firsts /\ OldH \in DOMAIN Firsts
  BY <1>1
<1>3. Apart(fat, Firsts)
  BY DEF ChainInv
<1>4. \A g \in DOMAIN Firsts : ClustersOf(fat, Firsts[g]) \subseteq Clusters
  BY <1>3, ProperIs DEF Apart
<1>5. \A g \in DOMAIN Firsts : g # h => ClustersOf(fat, Firsts[g]) \cap ClustersOf(fat, Firsts[h]) = {}
  BY <1>2, <1>3 DEF Apart
<1>6. \A g \in DOMAIN Firsts : g # h => \A c \in ClustersOf(fat, Firsts[g]) : fat'[c] = fat[c]
  BY <1>4, <1>5
<1>7. \A g \in DOMAIN Firsts : g # h => ClustersOf(fat', f2) \cap ClustersOf(fat, Firsts[g]) = {}
  BY <1>5
<1>8. /\ SameTree /\ DirsOK' /\ Apart(fat', Firsts') /\ Sized'
      /\ DOMAIN Firsts' = DOMAIN Firsts /\ Firsts'[h] = f2
      /\ \A g \in DOMAIN Firsts : g # h => /\ ChainIn(fat', Firsts[g]) = ChainIn(fat, Firsts[g])
                                           /\ Closed(fat', Firsts[g]) <=> Closed(fat, Firsts[g])
                                           /\ ClustersOf(fat', Firsts'[g]) = ClustersOf(fat, Firsts[g])
  BY <1>6, <1>7, TableStep
<1>9. ASSUME Faults \subseteq {"data", "zero"} PROVE Used(fat', Firsts')
  <2>1. Used(fat, Firsts)
    BY <1>9 DEF ChainInv
  <2>2. \A x \in Clusters : fat'[x] # 0 => \/ x \in ClustersOf(fat', Firsts'[h])
                                           \/ fat[x] # 0 /\ x \notin ClustersOf(fat, Firsts[h])
    BY <1>8
  <2> QED
    BY <1>2, <1>8, <2>1, <2>2, TableUsed
<1>10. \A p \in Tree \ Target : ChainIn(fat', Slot(p).first) = ChainIn(fat, Slot(p).first)
  BY <1>1, <1>8
<1> QED
  BY <1>1, <1>2, <1>8, <1>9, <1>10

\* What an operation that writes a file has taken so far.
LEMMA Taken ==
  ASSUME ChainInv, op.pc = "alloc" \/ op.pc = "data"
  PROVE  /\ op \in Writings({"alloc", "data"}) /\ op.chain \in Seq(Clusters) /\ op.pos \in AllPos
         /\ Rec = op /\ Target = {op.pos} /\ OldFirst = (IF op.pc = "alloc" THEN op.old ELSE 0)
         /\ NewFirst = (IF op.chain = <<>> THEN 0 ELSE op.chain[1])
         /\ ChainIn(fat, NewFirst) = op.chain
         /\ ClustersOf(fat, NewFirst) = {op.chain[i] : i \in DOMAIN op.chain}
         /\ Proper(fat, NewFirst)
<1>0. op \in Ops /\ op \in Writings({"alloc", "data"})
  BY OpKinds DEF ChainInv, Typed
<1>1. Rec = op /\ Target = {op.pos} /\ OldFirst = (IF op.pc = "alloc" THEN op.old ELSE 0)
  BY <1>0, OpValues, TargetIs DEF Rec, OldFirst
<1>2. NewFirst = (IF op.chain = <<>> THEN 0 ELSE op.chain[1])
  BY <1>0, OpValues DEF NewFirst
<1>3. ChainIn(fat, NewFirst) = op.chain
  BY <1>1 DEF ChainInv, WritesOK, Writes, Chain
<1>4. op.chain \in Seq(Clusters) /\ op.pos \in AllPos
  BY <1>0 DEF Writings
<1> QED
  BY <1>0, <1>1, <1>2, <1>3, <1>4, HeldChains DEF ClustersOf

\* The next cluster is taken and linked to the last one.
LEMMA GrowStep ==
  ASSUME ChainInv, op.pc = "alloc", Len(op.chain) < op.size,
         NEW from, from = (IF op.chain = <<>> THEN 2 ELSE Tail1 + 1), FreeFrom(from) # {},
         NEW c, c = Least(FreeFrom(from)), op' = [op EXCEPT !.chain = Append(@, c)],
         IF op.chain = <<>> THEN UNCHANGED <<fat, data>> ELSE write_fat_entry(Tail1, c),
         UNCHANGED <<root, faults, last>>
  PROVE  ChainInv' /\ Kept
<1> DEFINE s == op.chain
           f2 == NewOf(op')
<1>0. Typed /\ op \in Ops /\ fat \in [Clusters -> Clusters \cup {0, Eoc}]
  BY DEF ChainInv, Typed
<1>1. /\ op \in Writings({"alloc", "data"}) /\ s \in Seq(Clusters) /\ op.pos \in AllPos
      /\ Rec = op /\ Target = {op.pos} /\ OldFirst = op.old
      /\ NewFirst = (IF s = <<>> THEN 0 ELSE s[1])
      /\ ChainIn(fat, NewFirst) = s
      /\ ClustersOf(fat, NewFirst) = {s[i] : i \in DOMAIN s}
      /\ Proper(fat, NewFirst)
  BY Taken
<1>2. /\ Len(s) <= op.size /\ op.size \in Nat /\ Len(s) \in Nat /\ DOMAIN s = 1 .. Len(s)
      /\ \A i, j \in 1 .. Len(s) : i < j => s[i] < s[j]
      /\ Closed(fat, op.old)
      /\ IF Live(Slot(op.pos)) THEN op.old = Slot(op.pos).first /\ Len(Chain(op.old)) = Slot(op.pos).size
         ELSE op.old = 0
  BY <1>1 DEF ChainInv, AllocOK, Writings
<1>3. c \in Clusters /\ c >= from /\ fat[c] = 0
  <2>1. FreeFrom(from) \in SUBSET Clusters
    BY DEF FreeFrom
  <2>2. c \in FreeFrom(from)
    BY <2>1, LeastIn
  <2> QED
    BY <2>2 DEF FreeFrom
<1> HIDE DEF s
<1>4. s # <<>> => Tail1 = s[Len(s)] /\ Tail1 \in Clusters /\ Len(s) \in 1 .. Len(s)
  <2>1. Tail1 = s[Len(s)]
    BY DEF Tail1, s
  <2> QED
    BY <1>1, <1>2, <2>1
<1>5. \A i \in 1 .. Len(s) : s[i] \in Clusters /\ s[i] < c
  <2> SUFFICES ASSUME NEW i \in 1 .. Len(s) PROVE s[i] \in Clusters /\ s[i] < c
    OBVIOUS
  <2>1. s[i] \in Clusters /\ s # <<>>
    BY <1>1
  <2>2. i = Len(s) \/ i < Len(s)
    BY <1>2
  <2>3. s[i] <= Tail1
    BY <1>2, <1>4, <2>1, <2>2, Numbers
  <2>4. c >= Tail1 + 1
    BY <1>3, <2>1 DEF s
  <2> QED
    BY <1>3, <1>4, <2>1, <2>3, <2>4, Numbers
<1>6. c \notin ClustersOf(fat, NewFirst)
  BY <1>1, <1>2, <1>3, <1>5, Numbers
<1>7. \A g \in DOMAIN Firsts : c \notin ClustersOf(fat, Firsts[g])
  BY <1>1, <1>2, <1>3, <1>6, FreeApart
<1>8. /\ op'.pc = "alloc" /\ op'.chain = Append(s, c) /\ op'.pos = op.pos /\ op'.old = op.old
      /\ op'.size = op.size /\ op' \in Writings({"alloc", "data"}) /\ op' \in Ops
  <2>1. Append(s, c) \in Seq(Clusters)
    BY <1>1, <1>3
  <2>2. op'.pc = "alloc" /\ op'.chain = Append(s, c) /\ op'.pos = op.pos /\ op'.old = op.old /\ op'.size = op.size
    BY <1>1 DEF s, Writings
  <2>3. op' \in Writings({"alloc", "data"})
    BY <1>1, <2>1 DEF Writings, s
  <2> QED
    BY <2>2, <2>3 DEF Ops
<1>9. /\ Append(s, c) # <<>> /\ Len(Append(s, c)) = Len(s) + 1 /\ Append(s, c)[Len(s) + 1] = c
      /\ \A i \in 1 .. Len(s) : Append(s, c)[i] = s[i]
  <2>1. s \in Seq(Clusters) /\ c \in Clusters
    BY <1>1, <1>3
  <2>2. /\ Len(Append(s, c)) = Len(s) + 1 /\ Append(s, c)[Len(s) + 1] = c
        /\ \A i \in 1 .. Len(s) : Append(s, c)[i] = s[i]
    BY <2>1, AppendProperties
  <2>3. Append(s, c) # <<>>
    BY <2>1, AppendProperties
  <2> QED
    BY <2>2, <2>3
<1>10. /\ OldOf(op') = op.old /\ TargetOf(op') = {op.pos} /\ RecOf(op') = op'
       /\ f2 = IF s = <<>> THEN c ELSE s[1]
  <2>1. s = <<>> => Len(s) = 0
    BY <1>1
  <2>2. Append(s, c)[1] = IF s = <<>> THEN c ELSE s[1]
    BY <1>2, <1>4, <1>9, <2>1
  <2> QED
    BY <1>8, <1>9, <2>2, OpValues
<1> HIDE DEF f2
<1>11. /\ data' = data /\ Proper(fat', f2) /\ ChainIn(fat', f2) = Append(s, c)
       /\ ClustersOf(fat', f2) = ClustersOf(fat, NewFirst) \cup {c}
       /\ \A x \in Clusters : x \notin ClustersOf(fat, NewFirst) => fat'[x] = fat[x]
       /\ fat' \in [Clusters -> Clusters \cup {0, Eoc}]
  <2>1. CASE s = <<>>
    <3>1. fat' = fat /\ data' = data
      BY <2>1 DEF s
    <3>2. ClustersOf(fat, NewFirst) = {}
      BY <1>1, <2>1, NoTable, Numbers
    <3>3. fat[c] \notin Clusters /\ Append(s, c) = <<c>> /\ f2 = c
      BY <1>3, <1>10, <2>1, Numbers
    <3> QED
      BY <1>0, <1>3, <3>1, <3>2, <3>3, Alone
  <2>2. CASE s # <<>>
    <3>1. write_fat_entry(Tail1, c)
      BY <2>2 DEF s
    <3>2. fat' = [fat EXCEPT ![Tail1] = c] /\ data' = data
      BY <1>4, <2>2, <3>1 DEF write_fat_entry
    <3>3. f2 = NewFirst /\ f2 \in Clusters
      BY <1>1, <1>10, <2>2
    <3>4. fat[c] \notin Clusters
      BY <1>3, Numbers
    <3>5. /\ Proper(fat', f2) /\ ChainIn(fat', f2) = Append(ChainIn(fat, f2), c)
          /\ ClustersOf(fat', f2) = ClustersOf(fat, f2) \cup {c} /\ Tail1 \in ClustersOf(fat, f2)
      <4>1. Proper(fat, f2) /\ c \notin ClustersOf(fat, f2) /\ Tail1 = ChainIn(fat, f2)[Len(ChainIn(fat, f2))]
        BY <1>1, <1>4, <1>6, <2>2, <3>3
      <4> DEFINE t2 == [fat EXCEPT ![Tail1] = c]
      <4>2. /\ Proper(t2, f2) /\ ChainIn(t2, f2) = Append(ChainIn(fat, f2), c)
            /\ ClustersOf(t2, f2) = ClustersOf(fat, f2) \cup {c} /\ Tail1 \in ClustersOf(fat, f2)
        BY <1>0, <1>3, <3>3, <3>4, <4>1, Grown, Zenon
      <4> QED
        BY <3>2, <4>2
    <3> QED
      BY <1>0, <1>1, <1>3, <1>4, <2>2, <3>2, <3>3, <3>5
  <2> QED
    BY <2>1, <2>2
<1>12. Target' = {op.pos}
  BY <1>8 DEF Target
<1>13. TableChange(NewH, f2, {c})
  <2>1. Firsts[NewH] = NewFirst /\ NewH # OldH
    BY DirsAre, FirstsAre
  <2> QED
    BY <1>1, <1>7, <1>8, <1>10, <1>11, <1>12, <2>1 DEF TableChange, f2
<1>14. /\ SameTree /\ DirsOK' /\ Apart(fat', Firsts') /\ Sized'
       /\ Faults \subseteq {"data", "zero"} => Used(fat', Firsts')
       /\ ChainIn(fat', op.old) = ChainIn(fat, op.old)
       /\ Closed(fat', op.old) <=> Closed(fat, op.old)
       /\ \A p \in Tree \ Target : ChainIn(fat', Slot(p).first) = ChainIn(fat, Slot(p).first)
  BY <1>1, <1>13, TableChanges
<1>15. Typed'
  BY <1>0, <1>8, <1>11 DEF Typed
<1>16. Rec' = op' /\ NewFirst' = f2
  BY <1>10 DEF Rec, NewFirst, f2
<1>17. PosOK'
  BY <1>1, <1>8, <1>14, <1>16, SamePos DEF Writes
<1>18. AllocOK'
  <2>1. \A i, j \in 1 .. Len(op'.chain) : i < j => op'.chain[i] < op'.chain[j]
    <3> SUFFICES ASSUME NEW i \in 1 .. Len(s) + 1, NEW j \in 1 .. Len(s) + 1, i < j
                 PROVE  Append(s, c)[i] < Append(s, c)[j]
      BY <1>8, <1>9
    <3>1. i \in 1 .. Len(s) /\ (j \in 1 .. Len(s) \/ j = Len(s) + 1)
      BY <1>2
    <3> QED
      BY <1>2, <1>5, <1>9, <3>1
  <2>2. fat'[op'.chain[Len(op'.chain)]] = 0
    BY <1>3, <1>6, <1>8, <1>9, <1>11
  <2>3. Len(op'.chain) <= op'.size
    BY <1>2, <1>8, <1>9 DEF s
  <2>4. Slot(op.pos)' = Slot(op.pos)
    BY <1>8, <1>11 DEF Slot
  <2>5. Chain(op.old)' = Chain(op.old)
    BY <1>8, <1>14 DEF Chain
  <2>6. Closed(fat', op'.old)
    BY <1>2, <1>8, <1>14
  <2> QED
    BY <1>2, <1>8, <2>1, <2>2, <2>3, <2>4, <2>5, <2>6 DEF AllocOK, Live
<1>19. DataOK' /\ WritesOK' /\ DotsOK'
  BY <1>8, <1>11, <1>16 DEF DataOK, WritesOK, DotsOK, Writes, Chain
<1>20. Kept
  BY <1>11, <1>14 DEF Kept
<1> QED
  BY <1>14, <1>15, <1>17, <1>18, <1>19, <1>20 DEF ChainInv

\* The end of the new chain is marked, and the old chain is freed next.
LEMMA DoneStep ==
  ASSUME ChainInv, AllocDone
  PROVE  ChainInv' /\ Kept /\ Rec' = [op EXCEPT !.pc = "data"] /\ Rec'.size = Len(Rec'.chain)
<1> DEFINE s == op.chain
<1>0. /\ Typed /\ op \in Ops /\ fat \in [Clusters -> Clusters \cup {0, Eoc}]
      /\ op.pc = "alloc" /\ Len(s) = op.size /\ op' = OldFreed /\ UNCHANGED <<root, faults, last>>
      /\ IF op.size = 0 THEN UNCHANGED <<fat, data>> ELSE write_fat_entry(Tail1, Eoc)
  BY DEF ChainInv, Typed, AllocDone
<1>1. /\ op \in Writings({"alloc", "data"}) /\ s \in Seq(Clusters) /\ op.pos \in AllPos
      /\ Rec = op /\ Target = {op.pos} /\ OldFirst = op.old
      /\ NewFirst = (IF s = <<>> THEN 0 ELSE s[1])
      /\ ChainIn(fat, NewFirst) = s
      /\ ClustersOf(fat, NewFirst) = {s[i] : i \in DOMAIN s}
      /\ Proper(fat, NewFirst)
  BY <1>0, Taken
<1>2. op.size \in 0 .. MaxSize /\ op.old \in Clusters \cup {0}
  BY <1>1 DEF Writings
<1>3. op'.then = [op EXCEPT !.pc = "data"] /\ op'.pc = "free" /\ op'.c = op.old
  BY <1>0 DEF OldFreed, FreeThen
<1>4. /\ op'.then \in Writings({"data"}) /\ op'.then.pc = "data" /\ op'.then.pos = op.pos
      /\ op'.then.chain = s /\ op'.then.size = op.size
  BY <1>1, <1>3 DEF Writings
<1>5. op' \in Freeings /\ op' \in Ops
  <2>1. op' = [pc |-> "free", c |-> op.old, then |-> [op EXCEPT !.pc = "data"]]
    BY <1>0 DEF OldFreed, FreeThen
  <2> QED
    BY <1>2, <1>3, <1>4, <2>1 DEF Freeings, Ops
<1>6. NewOf(op') = NewFirst /\ OldOf(op') = op.old /\ RecOf(op') = op'.then
  BY <1>1, <1>3, <1>4, <1>5, OpValues
<1>7. Target' = {op.pos}
  BY <1>3, <1>4 DEF Target
<1> HIDE DEF s
<1>8. /\ data' = data /\ Proper(fat', NewFirst) /\ ChainIn(fat', NewFirst) = s
      /\ ClustersOf(fat', NewFirst) = ClustersOf(fat, NewFirst) /\ Closed(fat', NewFirst)
      /\ \A x \in Clusters : x \notin ClustersOf(fat, NewFirst) => fat'[x] = fat[x]
      /\ fat' \in [Clusters -> Clusters \cup {0, Eoc}]
  <2>1. CASE op.size = 0
    <3>1. fat' = fat /\ data' = data
      BY <1>0, <2>1
    <3>2. s = <<>>
      BY <1>0, <1>1, <2>1
    <3> QED
      BY <1>0, <1>1, <3>1, <3>2, NoTable, Numbers
  <2>2. CASE op.size # 0
    <3>1. s # <<>> /\ Len(s) \in 1 .. Len(s)
      BY <1>0, <1>1, <1>2, <2>2
    <3>2. NewFirst = s[1] /\ NewFirst \in Clusters
      BY <1>1, <3>1
    <3>3. Tail1 = s[Len(s)] /\ Tail1 \in Clusters
      <4>1. Tail1 = s[Len(s)]
        BY DEF Tail1, s
      <4> QED
        BY <1>1, <3>1, <4>1
    <3>4. fat' = [fat EXCEPT ![Tail1] = Eoc] /\ data' = data
      BY <1>0, <2>2, <3>3 DEF write_fat_entry
    <3>5. Tail1 = ChainIn(fat, NewFirst)[Len(ChainIn(fat, NewFirst))]
      BY <1>1, <3>3
    <3> DEFINE t2 == [fat EXCEPT ![Tail1] = Eoc]
    <3>6. /\ Proper(t2, NewFirst) /\ ChainIn(t2, NewFirst) = ChainIn(fat, NewFirst)
          /\ ClustersOf(t2, NewFirst) = ClustersOf(fat, NewFirst) /\ Closed(t2, NewFirst)
          /\ Tail1 \in ClustersOf(fat, NewFirst)
      BY <1>0, <1>1, <3>2, <3>5, Ended, Zenon
    <3> QED
      BY <1>0, <1>1, <3>3, <3>4, <3>6
  <2> QED
    BY <2>1, <2>2
<1>9. TableChange(NewH, NewFirst, {})
  <2>1. Firsts[NewH] = NewFirst /\ NewH # OldH
    BY DirsAre, FirstsAre
  <2> QED
    BY <1>0, <1>1, <1>5, <1>6, <1>7, <1>8, <2>1 DEF TableChange
<1>10. /\ SameTree /\ DirsOK' /\ Apart(fat', Firsts') /\ Sized'
       /\ Faults \subseteq {"data", "zero"} => Used(fat', Firsts')
       /\ \A p \in Tree \ Target : ChainIn(fat', Slot(p).first) = ChainIn(fat, Slot(p).first)
       /\ ChainIn(fat', op.old) = ChainIn(fat, op.old)
  BY <1>1, <1>9, TableChanges
<1>11. Typed'
  BY <1>0, <1>5, <1>8 DEF Typed
<1>12. Rec' = op'.then /\ NewFirst' = NewFirst
  BY <1>6 DEF Rec, NewFirst
<1>13. PosOK'
  BY <1>0, <1>1, <1>4, <1>10, <1>12, SamePos DEF Writes
<1>14. AllocOK' /\ DotsOK'
  BY <1>3 DEF AllocOK, DotsOK
<1>15. DataOK' /\ WritesOK'
  <2>1. op'.then.size = Len(op'.then.chain) /\ Len(op'.then.chain) <= MaxSize
    BY <1>0, <1>2, <1>4, FatAssumption DEF s
  <2>2. ChainIn(fat', NewFirst) = op'.then.chain
    BY <1>4, <1>8
  <2> QED
    BY <1>2, <1>4, <1>8, <1>12, <2>1, <2>2 DEF DataOK, WritesOK, Chain
<1>16. Kept
  BY <1>8, <1>10 DEF Kept
<1>17. Rec'.size = Len(Rec'.chain)
  BY <1>0, <1>4, <1>12 DEF s
<1> QED
  BY <1>3, <1>10, <1>11, <1>12, <1>13, <1>14, <1>15, <1>16, <1>17 DEF ChainInv

\* One cluster of the old chain is freed, or the operation goes on.
LEMMA FreeStep ==
  ASSUME ChainInv, Prudent, fat_free_chain, Watch, ~ ruined'
  PROVE  /\ ChainInv' /\ Kept /\ Rec' = Rec /\ op.pc = "free" /\ op'.pc \in {"free", "idle", "data"}
         /\ last' = last /\ Target' = Target
<1>0. /\ Typed /\ op \in Ops /\ fat \in [Clusters -> Clusters \cup {0, Eoc}]
      /\ op.pc = "free" /\ UNCHANGED <<root, faults, last>>
  BY DEF ChainInv, Typed, fat_free_chain
<1>1. /\ op \in Freeings /\ op.c \in Clusters \cup {0, Eoc} /\ OldFirst = op.c /\ Rec = op.then
      /\ op.then = Idle \/ op.then \in Writings({"data"})
  BY <1>0, OpKinds, OpValues DEF Freeings, OldFirst, Rec
<1>2. Idle.pc = "idle" /\ (op.then.pc = "idle" \/ op.then.pc = "data")
  BY <1>1 DEF Idle, Writings
<1>a. Firsts[NewH] = NewFirst /\ Firsts[OldH] = OldFirst /\ NewH # OldH /\ OldH \in Holders /\ OldH \notin Tree
  BY DirsAre, FirstsAre DEF Holders
<1>3. CASE op.c \in Clusters
  <2>1. ~ (op.c < 2 \/ AtEnd(op.c))
    <3>1. op.c \in Nat /\ op.c >= 2 /\ op.c < 65528
      <4>1. \A x \in Clusters : x \in Nat /\ x >= 2 /\ x < 65528
        BY FatAssumption DEF Clusters, max_cluster, Eoc
      <4> QED
        BY <1>3, <4>1
    <3> QED
      BY <3>1 DEF AtEnd
  <2>2. /\ op' = [op EXCEPT !.c = fat[op.c]] /\ fat' = [fat EXCEPT ![op.c] = 0] /\ data' = data
    BY <1>0, <1>3, <2>1 DEF fat_free_chain, read_fat_entry, write_fat_entry
  <2>3. op'.pc = "free" /\ op'.c = fat[op.c] /\ op'.then = op.then /\ op' \in Freeings /\ op' \in Ops
    <3>1. fat[op.c] \in Clusters \cup {0, Eoc}
      BY <1>0, <1>3
    <3>2. op' \in Freeings /\ op'.pc = "free" /\ op'.c = fat[op.c] /\ op'.then = op.then
      BY <1>1, <2>2, <3>1 DEF Freeings
    <3> QED
      BY <3>2 DEF Ops
  <2>4. NewOf(op') = NewFirst /\ OldOf(op') = fat[op.c] /\ RecOf(op') = op.then /\ Target' = Target
    BY <1>0, <2>3 DEF NewFirst, NewOf, OldOf, RecOf, Target
  <2>5. Proper(fat, op.c)
    BY <1>1, HeldChains
  <2> DEFINE t2 == [fat EXCEPT ![op.c] = 0]
  <2>6. Proper(t2, fat[op.c]) /\ ClustersOf(t2, fat[op.c]) = ClustersOf(fat, op.c) \ {op.c}
    BY <1>0, <1>3, <2>5, Beheaded, Zenon
  <2>7. /\ Proper(fat', fat[op.c]) /\ ClustersOf(fat', fat[op.c]) = ClustersOf(fat, op.c) \ {op.c}
        /\ op.c \in ClustersOf(fat, op.c)
        /\ \A x \in Clusters : x # op.c => fat'[x] = fat[x]
        /\ fat'[op.c] = 0 /\ fat' \in [Clusters -> Clusters \cup {0, Eoc}]
    BY <1>0, <1>3, <2>2, <2>5, <2>6, ProperIs
  <2>8. TableChange(OldH, fat[op.c], {})
    BY <1>0, <1>1, <1>a, <2>2, <2>3, <2>4, <2>7 DEF TableChange
  <2>9. /\ SameTree /\ DirsOK' /\ Apart(fat', Firsts') /\ Sized'
        /\ Faults \subseteq {"data", "zero"} => Used(fat', Firsts')
        /\ ChainIn(fat', NewFirst) = ChainIn(fat, NewFirst)
        /\ Closed(fat', NewFirst) <=> Closed(fat, NewFirst)
        /\ \A p \in Tree \ Target : ChainIn(fat', Slot(p).first) = ChainIn(fat, Slot(p).first)
    BY <2>8, TableChanges
  <2>10. Typed'
    BY <1>0, <2>2, <2>3, <2>7 DEF Typed
  <2>11. Rec' = Rec /\ NewFirst' = NewFirst /\ op'.pc = op.pc
    BY <1>0, <1>1, <2>3, <2>4 DEF Rec, NewFirst
  <2>12. PosOK'
    BY <2>9, <2>11, SamePos DEF Writes
  <2>13. AllocOK' /\ DotsOK'
    BY <2>3 DEF AllocOK, DotsOK
  <2>14. DataOK' /\ WritesOK'
    BY <2>9, <2>11 DEF ChainInv, DataOK, WritesOK, Writes, Chain
  <2>15. Kept
    BY <1>0, <2>2, <2>9 DEF Kept
  <2> QED
    BY <1>0, <2>2, <2>3, <2>4, <2>9, <2>10, <2>11, <2>12, <2>13, <2>14, <2>15 DEF ChainInv
<1>4. CASE op.c \notin Clusters /\ op' = op.then /\ fat' = fat /\ data' = data
  <2>1. op' \in Ops /\ op' = Rec
    BY <1>1, <1>4 DEF Ops, Writings
  <2>2. SameTree /\ DirsOK'
    BY <1>0, <1>4, SameByNone, SameShape
  <2>3. NewOf(op') = NewFirst /\ OldOf(op') = 0 /\ RecOf(op') = Rec
    <3>1. op'.pc \in {"idle", "data"} /\ op'.pc # "free" /\ op.then = op'
      BY <1>2, <1>4
    <3>2. RecOf(op') = op' /\ OldOf(op') = 0
      BY <3>1 DEF RecOf, OldOf
    <3>3. NewOf(op') = NewOf(op)
      BY <1>0, <3>1 DEF NewOf, RecOf
    <3> QED
      BY <2>1, <3>2, <3>3 DEF NewFirst
  <2>4. Target' = Target
    BY <1>0, <1>2, <1>4 DEF Target
  <2>5. Apart(fat', Firsts') /\ Sized'
    <3>1. OldOf(op') \notin Clusters
      BY <2>3, Numbers
    <3> QED
      BY <1>4, <2>1, <2>2, <2>3, <2>4, <3>1, HandedOn
  <2>6. Faults \subseteq {"data", "zero"} => Used(fat', Firsts')
    <3>1. OldFirst \notin Clusters
      BY <1>1, <1>4
    <3> QED
      BY <1>4, <2>2, <2>3, <2>4, <3>1, HandedUsed DEF ChainInv
  <2>7. Typed'
    BY <1>0, <1>4, <2>1 DEF Typed
  <2>8. Rec' = Rec /\ NewFirst' = NewFirst
    BY <2>3 DEF Rec, NewFirst
  <2>9. PosOK'
    BY <2>2, <2>8, SamePos DEF Writes
  <2>10. AllocOK' /\ DotsOK'
    BY <1>2, <1>4 DEF AllocOK, DotsOK
  <2>11. DataOK' /\ WritesOK'
    <3>1. op'.pc # "free"
      BY <1>2, <1>4
    <3> QED
      BY <1>4, <2>8, <3>1 DEF ChainInv, DataOK, WritesOK, Writes, Chain
  <2>12. Kept
    BY <1>0, <1>4, KeptByNone
  <2> QED
    BY <1>0, <1>2, <1>4, <2>2, <2>4, <2>5, <2>6, <2>7, <2>8, <2>9, <2>10, <2>11, <2>12 DEF ChainInv
<1>5. op.c \notin Clusters => (op' = op.then /\ fat' = fat /\ data' = data) \/ op.c = Eoc
  BY <1>1, Numbers DEF fat_free_chain
<1>6. CASE op.c = Eoc
  <2>1. op.c \notin Clusters /\ ~ (op.c < 2 \/ AtEnd(op.c))
    BY <1>6, Numbers DEF AtEnd, Eoc
  <2>2. /\ op' = [op EXCEPT !.c = 0] /\ fat' = fat
        /\ data' = IF Struck = 0 THEN data ELSE [data EXCEPT ![Struck] = Empty]
    BY <2>1 DEF fat_free_chain, read_fat_entry, write_fat_entry
  <2>3. op'.pc = "free" /\ op'.c = 0 /\ op'.then = op.then /\ op' \in Freeings /\ op' \in Ops
    <3>1. op' \in Freeings /\ op'.pc = "free" /\ op'.c = 0 /\ op'.then = op.then
      BY <1>1, <2>2 DEF Freeings
    <3> QED
      BY <3>1 DEF Ops
  <2>4. NewOf(op') = NewFirst /\ OldOf(op') = 0 /\ RecOf(op') = op.then /\ Target' = Target
    BY <1>0, <2>3 DEF NewFirst, NewOf, OldOf, RecOf, Target
  <2>5. SameTree /\ DirsOK' /\ data' \in [Clusters -> Content] /\ \A k \in Clusters : k = Struck \/ data'[k] = data[k]
    <3>1. CASE Struck = 0
      <4>1. data' = data
        BY <2>2, <3>1
      <4> QED
        BY <1>0, <4>1, SameByNone, SameShape DEF Typed
    <3>2. CASE Struck # 0
      <4>1. Struck \in Clusters /\ data' = [data EXCEPT ![Struck] = Empty]
        BY <2>2, <3>2, FatAssumption
      <4>2. /\ data' \in [Clusters -> Content] /\ data'[Struck] = Empty
            /\ \A k \in Clusters : k # Struck => data'[k] = data[k]
        BY <1>0, <4>1, WrittenTypes DEF Typed
      <4>3. Struck \notin DirFirsts
        <5>1. \A i \in 1 .. RootSlots : ~ (root[i].dir /\ root[i].first = Struck)
          BY <3>2, <4>2 DEF Watch
        <5>2. \A p \in DirPos : \E i \in 1 .. RootSlots : p = <<0, i>> /\ Slot(p) = root[i] /\ Slot(p).dir
          BY RootLiveIs, SlotIs DEF DirPos, RootPos
        <5> QED
          BY <5>1, <5>2 DEF DirFirsts
      <4>4. Clean(data'[Struck])
        BY <4>2, WrittenTypes
      <4>5. SameTree
        BY <1>0, <4>1, <4>2, <4>3, <4>4, SameByData
      <4> QED
        BY <4>2, <4>5, SameShape
    <3> QED
      BY <3>1, <3>2
  <2>6. Apart(fat', Firsts') /\ Sized'
    <3>1. OldOf(op') \notin Clusters
      BY <2>4, Numbers
    <3> QED
      BY <2>2, <2>3, <2>4, <2>5, <3>1, HandedOn
  <2>7. Faults \subseteq {"data", "zero"} => Used(fat', Firsts')
    <3>1. OldFirst \notin Clusters
      BY <1>1, <2>1
    <3> QED
      BY <2>2, <2>4, <2>5, <3>1, HandedUsed DEF ChainInv
  <2>8. Typed'
    BY <1>0, <2>2, <2>3, <2>5 DEF Typed
  <2>9. Rec' = Rec /\ NewFirst' = NewFirst /\ op'.pc = op.pc
    BY <1>0, <1>1, <2>3, <2>4 DEF Rec, NewFirst
  <2>10. PosOK'
    BY <2>5, <2>9, SamePos DEF Writes
  <2>11. AllocOK' /\ DotsOK'
    BY <2>3 DEF AllocOK, DotsOK
  <2>12. DataOK' /\ WritesOK'
    BY <2>2, <2>9 DEF ChainInv, DataOK, WritesOK, Writes, Chain
  <2>13. Kept
    <3>1. op.pc # "alloc"
      BY <1>0
    <3>2. \A p \in Tree \ Target : ClustersOf(fat, Slot(p).first) \subseteq Clusters
      BY HeldChains, ProperIs
    <3> QED
      BY <2>2, <2>5, <3>1, <3>2 DEF Kept
  <2> QED
    BY <1>0, <2>2, <2>3, <2>4, <2>5, <2>6, <2>7, <2>8, <2>9, <2>10, <2>11, <2>12, <2>13 DEF ChainInv
<1> QED
  BY <1>3, <1>4, <1>5, <1>6

\* Where something may fail, no entry is being overwritten.
LEMMA NoneReplaced ==
  ASSUME ChainInv, Prudent, Faults # {}
  PROVE  Tree \cap Target = {}
<1>1. Target = IF Writes THEN {Rec.pos} ELSE {}
  BY TargetIs DEF TargetOf, Rec, Writes, ChainInv, Typed
<1>2. Writes => ~ Live(Slot(Rec.pos))
  BY DEF ChainInv, PosOK, Prudent
<1> QED
  BY <1>1, <1>2, RootLiveIs

LEMMA Counted ==
  ASSUME Typed, NEW kind, Fault(kind)
  PROVE  faults' \in 0 .. MaxFaults /\ Faults # {} /\ kind \in Faults
BY FatAssumption DEF Fault, Typed

\* The operation ends where it is, by a power cut or for want of its last write.
LEMMA DropStep ==
  ASSUME ChainInv, Prudent, op' = Idle, UNCHANGED <<fat, root, data, last>>,
         faults' \in 0 .. MaxFaults, ~ (Faults \subseteq {"data", "zero"})
  PROVE  ChainInv'
<1>0. Typed /\ op' \in Ops /\ op'.pc = "idle"
  BY DEF ChainInv, Ops, Idle
<1>1. NewOf(op') = 0 /\ OldOf(op') = 0 /\ RecOf(op').pc = "idle" /\ TargetOf(op') = {}
  BY <1>0, OpValues
<1>2. SameTree /\ DirsOK'
  BY SameByNone, SameShape
<1>3. Tree \cap Target = {}
  BY NoneReplaced
<1>4. Apart(fat', Firsts') /\ Sized'
  <2>1. OldOf(op') \notin Clusters /\ NewOf(op') \notin Clusters
    BY <1>1, Numbers
  <2> QED
    BY <1>0, <1>2, <1>3, <2>1, HandedOn
<1>5. Typed'
  BY <1>0 DEF Typed
<1>6. PosOK' /\ AllocOK' /\ DataOK' /\ WritesOK' /\ DotsOK'
  BY <1>0, <1>1 DEF PosOK, AllocOK, DataOK, WritesOK, DotsOK, Writes, Rec
<1> QED
  BY <1>2, <1>4, <1>5, <1>6 DEF ChainInv

\* The new clusters are given up and will be freed.
LEMMA UndoStep ==
  ASSUME ChainInv, Prudent, op' = FreeThen(NewFirst, Idle), UNCHANGED <<fat, root, data, last>>,
         faults' \in 0 .. MaxFaults, OldFirst = 0, Tree \cap Target = {},
         NewFirst \in Clusters \cup {0}
  PROVE  ChainInv'
<1>0. Typed /\ op'.pc = "free" /\ op'.c = NewFirst /\ op'.then = Idle
  BY DEF ChainInv, FreeThen
<1>1. op' \in Ops
  BY DEF FreeThen, Freeings, Ops
<1>2. NewOf(op') = 0 /\ OldOf(op') = NewFirst /\ RecOf(op') = Idle /\ TargetOf(op') = {}
  BY <1>0, <1>1, OpValues
<1>3. SameTree /\ DirsOK'
  BY SameByNone, SameShape
<1>4. Target' = {}
  BY <1>0 DEF Target, Idle
<1>5. Apart(fat', Firsts') /\ Sized'
  <2>1. NewH \in Holders /\ Firsts[NewH] = NewFirst /\ NewH # OldH /\ NewH \notin Tree
    BY DirsAre, FirstsAre DEF Holders
  <2>2. NewOf(op') \notin Clusters
    BY <1>2, Numbers
  <2> QED
    BY <1>1, <1>2, <1>3, <2>1, <2>2, HandedOn
<1>6. Faults \subseteq {"data", "zero"} => Used(fat', Firsts')
  <2>1. OldFirst \notin Clusters
    BY Numbers
  <2> QED
    BY <1>2, <1>3, <1>4, <2>1, HandedUsed DEF ChainInv
<1>7. Typed'
  BY <1>0, <1>1 DEF Typed
<1>8. PosOK' /\ AllocOK' /\ DataOK' /\ WritesOK' /\ DotsOK'
  <2>1. Rec'.pc = "idle"
    BY <1>2 DEF Rec, Idle
  <2> QED
    BY <1>0, <2>1 DEF PosOK, AllocOK, DataOK, WritesOK, DotsOK, Writes
<1> QED
  BY <1>3, <1>5, <1>6, <1>7, <1>8 DEF ChainInv

\* A cluster that the operation has taken is no directory's.
LEMMA NewNotDir ==
  ASSUME ChainInv, NEW c \in ClustersOf(fat, NewFirst)
  PROVE  c \notin DirFirsts
<1> SUFFICES ASSUME NEW p \in DirPos, c = Slot(p).first PROVE FALSE
  BY DEF DirFirsts
<1>1. p \in Tree \ Target /\ ClustersOf(fat, Slot(p).first) = {Slot(p).first}
  BY DirsAre
<1> QED
  BY <1>1, HeldChains

LEMMA DataWritten ==
  ASSUME ChainInv, Prudent, op.pc = "data", op.size > 0, NEW n \in Readings,
         data' = [data EXCEPT ![op.chain[Part]] = FilePart(op.path, Part, n)],
         op' = [op EXCEPT !.size = @ - 1], UNCHANGED <<fat, root, faults, last>>
  PROVE  /\ ChainInv' /\ Kept
         /\ Part \in 1 .. Len(op.chain) /\ op.chain[Part] \in Clusters
         /\ op'.pc = "data" /\ op'.path = op.path /\ op'.pos = op.pos /\ op'.size = op.size - 1
         /\ op'.chain = op.chain /\ Rec = op /\ Rec' = op' /\ op'.old = op.old
<1> DEFINE s == op.chain
           c == s[Part]
<1>0. Typed /\ op \in Ops
  BY DEF ChainInv, Typed
<1>1. /\ op \in Writings({"alloc", "data"}) /\ s \in Seq(Clusters)
      /\ Rec = op /\ Target = {op.pos} /\ OldFirst = 0
      /\ ClustersOf(fat, NewFirst) = {s[i] : i \in DOMAIN s}
  BY Taken
<1>2. /\ op.size <= Len(s) /\ op.size \in 0 .. MaxSize /\ Len(s) \in Nat /\ Len(s) <= MaxSize
      /\ Closed(fat, NewFirst)
  BY <1>1 DEF ChainInv, DataOK, Writings
<1>3. Part \in 1 .. Len(s) /\ Part \in Nat
  BY <1>2, FatAssumption DEF Part
<1>4. c \in Clusters /\ c \in ClustersOf(fat, NewFirst)
  <2>1. DOMAIN s = 1 .. Len(s)
    BY <1>1
  <2> QED
    BY <1>1, <1>3, <2>1
<1>5. /\ op' \in Writings({"alloc", "data"}) /\ op'.pc = "data" /\ op'.pos = op.pos
      /\ op'.chain = s /\ op'.size = op.size - 1 /\ op'.path = op.path /\ op'.old = op.old
  <2>1. op.size - 1 \in 0 .. MaxSize
    BY <1>2, FatAssumption
  <2> QED
    BY <1>1, <2>1 DEF Writings
<1>6. op' \in Ops
  BY <1>5 DEF Ops
<1>7. NewOf(op') = NewFirst /\ OldOf(op') = 0 /\ RecOf(op') = op' /\ Target' = Target
  <2>1. NewOf(op') = NewFirst /\ OldOf(op') = 0 /\ RecOf(op') = op'
    BY <1>0, <1>5, <1>6, OpValues DEF NewFirst
  <2> QED
    BY <1>1, <1>5, <2>1 DEF Target
<1>b. FilePart(op.path, Part, n) \in Content /\ Clean(FilePart(op.path, Part, n))
  <2>1. op.path \in AllPaths /\ n \in Nat
    BY <1>1, FatAssumption DEF Writings
  <2> QED
    BY <1>3, <2>1, WrittenTypes
<1>8. Typed'
  <2>1. FilePart(op.path, Part, n) \in Content
    BY <1>b
  <2>2. data' \in [Clusters -> Content]
    BY <1>0, <2>1 DEF Typed
  <2> QED
    BY <1>0, <1>6, <2>2 DEF Typed
<1>9. SameTree /\ DirsOK'
  <2>1. \A k \in Clusters : k # c => data'[k] = data[k]
    BY <1>0 DEF Typed
  <2>2. c \notin DirFirsts
    BY <1>4, NewNotDir
  <2>4. Clean(data'[c])
    BY <1>0, <1>4, <1>b DEF Typed
  <2>3. SameTree
    BY <1>4, <2>1, <2>2, <2>4, SameByData
  <2> QED
    BY <2>3, SameShape
<1>a. Kept
  <2> SUFFICES ASSUME NEW p \in Tree \ Target, NEW k \in ClustersOf(fat, Slot(p).first)
               PROVE  data'[k] = data[k]
    BY <1>9 DEF Kept
  <2>1. k # c /\ k \in Clusters
    BY <1>4, HeldChains, ProperIs
  <2> QED
    BY <1>0, <2>1 DEF Typed
<1> HIDE DEF c, s
<1>10. Apart(fat', Firsts') /\ Sized'
  <2>1. OldOf(op') \notin Clusters
    BY <1>7, Numbers
  <2> QED
    BY <1>6, <1>7, <1>9, <2>1, HandedOn
<1>11. Faults \subseteq {"data", "zero"} => Used(fat', Firsts')
  <2>1. OldFirst \notin Clusters
    BY <1>1, Numbers
  <2> QED
    BY <1>7, <1>9, <2>1, HandedUsed DEF ChainInv
<1>12. Rec' = op' /\ NewFirst' = NewFirst
  BY <1>7 DEF Rec, NewFirst
<1>13. PosOK'
  BY <1>1, <1>5, <1>9, <1>12, SamePos DEF Writes
<1>14. AllocOK' /\ DataOK' /\ WritesOK' /\ DotsOK'
  <2>1. op'.size <= Len(s)
    BY <1>2, <1>5
  <2>2. Chain(NewFirst)' = Chain(NewFirst) /\ Chain(NewFirst) = s
    BY <1>1, <1>12, Taken DEF Chain, s
  <2> QED
    BY <1>2, <1>5, <1>12, <2>1, <2>2 DEF AllocOK, DataOK, WritesOK, DotsOK
<1> QED
  BY <1>1, <1>3, <1>4, <1>5, <1>8, <1>9, <1>10, <1>11, <1>12, <1>13, <1>14, <1>a DEF ChainInv, s, c

LEMMA DataStepHolds ==
  ASSUME ChainInv, Prudent, DataStep
  PROVE  ChainInv'
<1>0. Typed /\ op.pc = "data" /\ op.size > 0 /\ UNCHANGED <<fat, root, last>>
  BY DEF ChainInv, DataStep
<1>1. CASE /\ \E n \in Readings : data' = [data EXCEPT ![op.chain[Part]] = FilePart(op.path, Part, n)]
           /\ op' = [op EXCEPT !.size = @ - 1] /\ UNCHANGED faults
  BY <1>0, <1>1, DataWritten
<1>2. CASE Fault("data") /\ op' = DataFails /\ UNCHANGED data
  <2>1. faults' \in 0 .. MaxFaults /\ Faults # {}
    BY <1>0, <1>2, Counted
  <2>2. op.chain \in Seq(Clusters) /\ op.size \in 0 .. MaxSize /\ op.size <= Len(op.chain)
    BY <1>0, Taken DEF ChainInv, DataOK, Writings
  <2>3. op.chain # <<>> /\ op.chain[1] \in Clusters
    BY <1>0, <2>2
  <2>4. NewFirst = op.chain[1] /\ OldFirst = 0
    BY <1>0, <2>3, Taken
  <2>5. op' = FreeThen(NewFirst, Idle)
    BY <1>2, <2>4 DEF DataFails
  <2>6. Tree \cap Target = {}
    BY <2>1, NoneReplaced
  <2> QED
    BY <1>0, <1>2, <2>1, <2>3, <2>4, <2>5, <2>6, UndoStep
<1> QED
  BY <1>1, <1>2 DEF DataStep

--------------------------------------------------------------------------------
(* Steps that write a directory entry. *)

LEMMA SlotWrite ==
  ASSUME ChainInv, NEW pos \in Valid, NEW e \in Ent, WriteSlot(pos, e)
  PROVE  /\ Slot(pos)' = e
         /\ \A q \in AllPos : q # pos => Slot(q)' = Slot(q)
         /\ \A q : q \in AllPos /\ q[1] # pos[1] => Slot(q)' = Slot(q)
         /\ root' \in [1 .. RootSlots -> Ent] /\ data' \in [Clusters -> Content]
         /\ \A c \in Clusters : /\ c # pos[1] => data'[c] = data[c]
                                /\ data'[c].owner = data[c].owner /\ data'[c].part = data[c].part
         /\ pos[1] = 0 => data' = data
         /\ pos[1] # 0 => root' = root /\ pos[1] \in DirFirsts /\ pos[1] \in Clusters /\ pos[2] \in 3 .. PerCluster
<1>0. Typed /\ DirFirsts \subseteq Clusters /\ 3 .. PerCluster \subseteq 1 .. PerCluster
  BY DirsAre, FatAssumption DEF ChainInv
<1>1. \A q \in AllPos : (q[1] = 0 /\ q[2] \in 1 .. RootSlots /\ q = <<0, q[2]>>)
                     \/ (q[1] \in Clusters /\ q[2] \in 1 .. PerCluster /\ q = <<q[1], q[2]>>)
  BY DEF AllPos, RootPos
<1>2. pos \in AllPos
  BY DirsAre
<1>3. CASE pos[1] = 0
  <2>1. root' = [root EXCEPT ![pos[2]] = e] /\ data' = data
    BY <1>3 DEF WriteSlot
  <2>2. pos[2] \in 1 .. RootSlots /\ pos = <<0, pos[2]>>
    BY <1>1, <1>2, <1>3, Numbers
  <2>3. root \in [1 .. RootSlots -> Ent]
    BY <1>0 DEF Typed
  <2>4. root' \in [1 .. RootSlots -> Ent] /\ root'[pos[2]] = e /\ \A i \in 1 .. RootSlots : i # pos[2] => root'[i] = root[i]
    BY <2>1, <2>2, <2>3
  <2>5. Slot(pos)' = e
    BY <1>3, <2>4 DEF Slot
  <2>6. ASSUME NEW q \in AllPos, q # pos PROVE Slot(q)' = Slot(q)
    <3>1. CASE q[1] = 0
      <4>1. q[2] \in 1 .. RootSlots /\ q[2] # pos[2]
        BY <1>1, <2>2, <2>6, <3>1, Numbers
      <4> QED
        BY <2>4, <3>1, <4>1 DEF Slot
    <3>2. CASE q[1] # 0
      BY <2>1, <3>2 DEF Slot
    <3> QED
      BY <3>1, <3>2
  <2> QED
    BY <1>0, <1>3, <2>1, <2>4, <2>5, <2>6 DEF Typed
<1>4. CASE pos[1] # 0
  <2>1. data' = [data EXCEPT ![pos[1]].slots[pos[2]] = e] /\ root' = root
    BY <1>4 DEF WriteSlot
  <2>2. pos[1] \in DirFirsts /\ pos[2] \in 3 .. PerCluster /\ pos = <<pos[1], pos[2]>>
    BY <1>4 DEF Valid, RootPos
  <2>3. pos[1] \in Clusters /\ pos[2] \in 1 .. PerCluster /\ data \in [Clusters -> Content]
    BY <1>0, <2>2 DEF Typed
  <2> DEFINE old == data[pos[1]]
             new == [old EXCEPT !.slots[pos[2]] = e]
  <2>4. data' = [data EXCEPT ![pos[1]] = new]
    BY <2>1
  <2>5. old \in Content
    BY <2>3
  <2>6. /\ new \in Content /\ new.slots[pos[2]] = e /\ new.owner = old.owner /\ new.part = old.part
        /\ \A i \in 1 .. PerCluster : i # pos[2] => new.slots[i] = old.slots[i]
    BY <2>3, <2>5 DEF Content
  <2>7. data' \in [Clusters -> Content] /\ data'[pos[1]] = new /\ \A c \in Clusters : c # pos[1] => data'[c] = data[c]
    BY <2>3, <2>4, <2>6
  <2> HIDE DEF old, new
  <2>8. Slot(pos)' = e
    BY <1>4, <2>6, <2>7 DEF Slot
  <2>9. ASSUME NEW q \in AllPos, q # pos PROVE Slot(q)' = Slot(q)
    <3>1. CASE q[1] = 0
      BY <2>1, <3>1 DEF Slot
    <3>2. CASE q[1] # 0 /\ q[1] # pos[1]
      BY <1>1, <2>7, <3>2 DEF Slot
    <3>3. CASE q[1] # 0 /\ q[1] = pos[1]
      <4>1. q[2] \in 1 .. PerCluster /\ q[2] # pos[2]
        BY <1>1, <2>2, <2>9, <3>3
      <4> QED
        BY <2>6, <2>7, <3>3, <4>1 DEF Slot, old
    <3> QED
      BY <3>1, <3>2, <3>3
  <2>10. \A c \in Clusters : data'[c].owner = data[c].owner /\ data'[c].part = data[c].part
    BY <2>6, <2>7 DEF old
  <2> QED
    BY <1>0, <1>4, <2>1, <2>2, <2>3, <2>7, <2>8, <2>9, <2>10 DEF Typed
<1> QED
  BY <1>3, <1>4

\* An entry is written and no directory comes or goes.
LEMMA TreeWrite ==
  ASSUME ChainInv, Prudent, NEW pos \in Valid, NEW e \in Ent, WriteSlot(pos, e), e # End,
         \A i \in 1 .. pos[2] - 1 : Slot(<<pos[1], i>>) # End,
         Live(e) /\ e.dir <=> Live(Slot(pos)) /\ Slot(pos).dir,
         Live(e) /\ e.dir => e.first = Slot(pos).first,
         Live(e) /\ pos[1] # 0 => e.name \in Files
  PROVE  /\ DirPos' = DirPos /\ DirFirsts' = DirFirsts /\ Valid' = Valid /\ DirsOK'
         /\ \A q : q # pos => (q \in Tree' <=> q \in Tree)
         /\ pos \in Tree' <=> Live(e)
<1>0. Typed /\ DirFirsts \subseteq Clusters /\ Valid \subseteq AllPos /\ DirsOK /\ PerCluster \in Nat /\ PerCluster > 2
  BY DirsAre, FatAssumption DEF ChainInv
<1>1. /\ Slot(pos)' = e
      /\ \A q \in AllPos : q # pos => Slot(q)' = Slot(q)
      /\ \A c \in Clusters : c # pos[1] => data'[c] = data[c]
      /\ pos[1] = 0 => data' = data
      /\ pos[1] # 0 => root' = root /\ pos[1] \in DirFirsts /\ pos[1] \in Clusters /\ pos[2] \in 3 .. PerCluster
  BY SlotWrite
<1>2. RootPos' = RootPos /\ RootPos \subseteq AllPos
  BY DEF RootPos, AllPos
<1>3. \A p : p \in DirPos <=> p \in RootPos /\ Live(Slot(p)) /\ Slot(p).dir
  BY RootLiveIs DEF DirPos
<1>4. \A p : p \in DirPos' <=> p \in RootPos /\ Live(Slot(p)') /\ Slot(p)'.dir
  BY <1>2 DEF DirPos, RootLive, RootPos, Live
<1>5. DirPos' = DirPos
  <2>1. ASSUME NEW p PROVE p \in DirPos' <=> p \in DirPos
    <3>1. CASE p = pos
      BY <1>1, <1>3, <1>4, <3>1
    <3>2. CASE p # pos
      BY <1>1, <1>2, <1>3, <1>4, <3>2
    <3> QED
      BY <3>1, <3>2
  <2> QED
    BY <2>1
<1>6. \A p \in DirPos : Slot(p)'.first = Slot(p).first
  <2> SUFFICES ASSUME NEW p \in DirPos PROVE Slot(p)'.first = Slot(p).first
    OBVIOUS
  <2>1. CASE p = pos
    BY <1>1, <1>3, <2>1
  <2>2. CASE p # pos
    BY <1>1, <1>2, <1>3, <2>2
  <2> QED
    BY <2>1, <2>2
<1>7. DirFirsts' = DirFirsts
  BY <1>5, <1>6 DEF DirFirsts
<1>8. Valid' = Valid
  BY <1>2, <1>7 DEF Valid
<1>9. \A q : q \in Tree' <=> q \in Valid /\ Live(Slot(q)') /\ (q \in RootPos \/ ~ Stale(Slot(q)'))
  BY <1>2, <1>8 DEF Tree, Live, Stale
<1>10. \A q : q \in Tree <=> q \in Valid /\ Live(Slot(q)) /\ (q \in RootPos \/ ~ Stale(Slot(q)))
  BY DEF Tree
<1>11. \A q : q # pos => (q \in Tree' <=> q \in Tree)
  BY <1>0, <1>1, <1>9, <1>10
<1>12. pos \in Tree' <=> Live(e)
  <2>1. pos \in RootPos \/ pos[1] # 0
    BY <1>0, Numbers DEF Valid
  <2>2. e.name \in Files => ~ Stale(e)
    BY EntryTypes DEF Prudent, Reserved, Stale
  <2> QED
    BY <1>1, <1>9, <2>1, <2>2
<1>a. \A c \in Clusters : c \notin DirFirsts => Clean(data[c])'
  BY <1>0, <1>1 DEF DirsOK, Clean, Live, Stale
<1>13. DirsOK'
  <2> SUFFICES ASSUME NEW c \in DirFirsts PROVE DirShape(c)'
    BY <1>7, <1>a DEF DirsOK
  <2>0. DirShape(c) /\ c \in Clusters
    BY <1>0 DEF DirsOK
  <2>1. CASE c # pos[1]
    BY <1>1, <2>0, <2>1 DEF DirShape, Live, Stale
  <2>2. CASE c = pos[1]
    <3> DEFINE a == data[c].slots
               b == data'[c].slots
               k == pos[2]
    <3>1. c # 0 /\ k \in 3 .. PerCluster /\ pos = <<c, k>>
      BY <1>1, <2>0, <2>2, Numbers DEF Valid, RootPos
    <3>2. \A i \in 1 .. PerCluster : /\ <<c, i>> \in AllPos
                                     /\ Slot(<<c, i>>) = a[i] /\ Slot(<<c, i>>)' = b[i]
      BY <2>0, Numbers DEF AllPos, Slot
    <3>3. b[k] = e /\ \A i \in 1 .. PerCluster : i # k => b[i] = a[i]
      <4>1. k \in 1 .. PerCluster
        BY <3>1
      <4>2. \A i \in 1 .. PerCluster : i # k => <<c, i>> # pos
        BY <3>1
      <4> QED
        BY <1>1, <3>1, <3>2, <4>1, <4>2
    <3>4. \A i \in 1 .. k - 1 : a[i] # End
      <4> SUFFICES ASSUME NEW i \in 1 .. k - 1 PROVE a[i] # End
        OBVIOUS
      <4>1. i \in 1 .. PerCluster
        BY <1>0, <3>1
      <4> QED
        BY <2>2, <3>2, <4>1
    <3>5. /\ a[1].name = "." /\ a[2].name = ".."
          /\ \A i \in 3 .. PerCluster : Live(a[i]) => ~ a[i].dir /\ (Stale(a[i]) \/ a[i].name \in Files)
          /\ \A i, j \in 1 .. PerCluster : i < j /\ a[i] = End => a[j] = End
      BY <2>0 DEF DirShape
    <3>6. Slot(pos) = a[k]
      BY <1>0, <3>1, <3>2
    <3> HIDE DEF a, b, k
    <3>7. b[1].name = "." /\ b[2].name = ".."
      BY <1>0, <3>1, <3>3, <3>5
    <3>8. \A i \in 3 .. PerCluster : Live(b[i]) => ~ b[i].dir /\ (Stale(b[i]) \/ b[i].name \in Files)
      <4> SUFFICES ASSUME NEW i \in 3 .. PerCluster, Live(b[i])
                   PROVE  ~ b[i].dir /\ (Stale(b[i]) \/ b[i].name \in Files)
        OBVIOUS
      <4>1. CASE i = k
        BY <2>2, <3>1, <3>3, <3>5, <3>6, <4>1
      <4>2. CASE i # k
        BY <1>0, <3>3, <3>5, <4>2
      <4> QED
        BY <4>1, <4>2
    <3>9. \A i, j \in 1 .. PerCluster : i < j /\ b[i] = End => b[j] = End
      <4> SUFFICES ASSUME NEW i \in 1 .. PerCluster, NEW j \in 1 .. PerCluster, i < j, b[i] = End
                   PROVE  b[j] = End
        OBVIOUS
      <4>1. i # k /\ a[i] = End
        BY <3>3
      <4>2. i > k
        BY <1>0, <3>1, <3>4, <4>1
      <4> QED
        BY <1>0, <3>1, <3>3, <3>5, <4>1, <4>2
    <3> QED
      BY <3>7, <3>8, <3>9 DEF DirShape, a, b, Live, Stale
  <2> QED
    BY <2>1, <2>2
<1> QED
  BY <1>5, <1>7, <1>8, <1>11, <1>12, <1>13

\* The entry at pos comes, goes or changes; the table stays as it is.
TreeChange(pos) ==
  /\ fat' = fat /\ op' \in Ops /\ NewOf(op') = 0 /\ Target' = {} /\ DirFirsts' \subseteq Clusters
  /\ Target \subseteq {pos} /\ OldFirst = 0
  /\ \A q : q # pos => (q \in Tree' <=> q \in Tree)
  /\ \A q \in Tree : q # pos => Slot(q)' = Slot(q)
  /\ pos \in Tree' =>
       /\ OldOf(op') = 0
       /\ \/ Slot(pos)'.first = NewFirst
          \/ pos \in Tree \ Target /\ Slot(pos)'.first = Slot(pos).first
       /\ Closed(fat, Slot(pos)'.first)
       /\ Len(ChainIn(fat, Slot(pos)'.first)) = IF Slot(pos)'.dir THEN 1 ELSE Slot(pos)'.size
  /\ pos \notin Tree' /\ OldOf(op') \in Clusters => pos \in Tree \ Target /\ OldOf(op') = Slot(pos).first
  /\ NewFirst \in Clusters => pos \in Tree' /\ Slot(pos)'.first = NewFirst
  /\ pos \in Tree \ Target /\ Slot(pos).first \in Clusters =>
       OldOf(op') = Slot(pos).first \/ (pos \in Tree' /\ Slot(pos)'.first = Slot(pos).first)

LEMMA TreeChanges ==
  ASSUME ChainInv, NEW pos, TreeChange(pos)
  PROVE  Apart(fat', Firsts') /\ Sized' /\ (Faults \subseteq {"data", "zero"} => Used(fat', Firsts'))
<1> USE DEF TreeChange
<1>1. /\ DOMAIN Firsts = (Tree \ Target) \cup {NewH, OldH}
      /\ Firsts[NewH] = NewFirst /\ Firsts[OldH] = OldFirst /\ NewH # OldH
      /\ \A h \in Tree : h # NewH /\ h # OldH
      /\ \A h \in Tree \ Target : Firsts[h] = Slot(h).first
  BY DirsAre, FirstsAre
<1>2. /\ DOMAIN Firsts' = Tree' \cup {NewH, OldH}
      /\ Firsts'[NewH] = 0 /\ Firsts'[OldH] = OldOf(op')
      /\ \A h \in Tree' : h # NewH /\ h # OldH
      /\ \A h \in Tree' : Firsts'[h] = Slot(h)'.first
  BY FirstsNext
<1>3. 0 \notin Clusters /\ Apart(fat, Firsts)
  BY Numbers DEF ChainInv
<1>4. Apart(fat', Firsts')
  <2> DEFINE F2 == Firsts'
             m == [h \in DOMAIN F2 |-> IF h = OldH THEN pos
                                       ELSE IF h = pos /\ Slot(pos)'.first = NewFirst THEN NewH ELSE h]
  <2>1. ASSUME NEW h \in DOMAIN F2, F2[h] \in Clusters
        PROVE  m[h] \in DOMAIN Firsts /\ F2[h] = Firsts[m[h]]
    <3>1. CASE h = NewH
      BY <1>2, <1>3, <2>1, <3>1
    <3>2. CASE h = OldH
      BY <1>1, <1>2, <1>3, <2>1, <3>2
    <3>3. CASE h \in Tree' /\ h = pos
      BY <1>1, <1>2, <2>1, <3>3
    <3>4. CASE h \in Tree' /\ h # pos
      BY <1>1, <1>2, <2>1, <3>4
    <3> QED
      BY <1>2, <3>1, <3>2, <3>3, <3>4
  <2>2. ASSUME NEW g \in DOMAIN F2, NEW h \in DOMAIN F2, g # h, F2[g] \in Clusters, F2[h] \in Clusters
        PROVE  m[g] # m[h]
    <3>1. g # NewH /\ h # NewH
      BY <1>2, <1>3, <2>2
    <3>2. CASE g = OldH
      <4>1. pos \notin Tree'
        BY <1>2, <1>3, <2>2, <3>2
      <4>2. h \in Tree' /\ h # pos /\ m[h] = h /\ m[g] = pos
        BY <1>2, <2>2, <3>1, <3>2, <4>1
      <4> QED
        BY <4>2
    <3>3. CASE h = OldH
      <4>1. pos \notin Tree'
        BY <1>2, <1>3, <2>2, <3>3
      <4>2. g \in Tree' /\ g # pos /\ m[g] = g /\ m[h] = pos
        BY <1>2, <2>2, <3>1, <3>3, <4>1
      <4> QED
        BY <4>2
    <3>4. CASE g # OldH /\ h # OldH
      <4>1. g \in Tree' /\ h \in Tree'
        BY <1>2, <2>2, <3>1, <3>4
      <4>2. m[g] \in {g, NewH} /\ m[h] \in {h, NewH} /\ (g # pos => m[g] = g) /\ (h # pos => m[h] = h)
        BY <3>4
      <4>3. g # NewH /\ h # NewH
        BY <1>2, <4>1
      <4> QED
        BY <2>2, <4>2, <4>3
    <3> QED
      BY <3>2, <3>3, <3>4
  <2> HIDE DEF m, F2
  <2>3. Apart(fat, F2)
    BY <1>3, <2>1, <2>2, Moved
  <2> QED
    BY <2>3 DEF F2
<1>5. Sized'
  <2> SUFFICES ASSUME NEW p \in Tree'
               PROVE  /\ Closed(fat, Slot(p)'.first)
                      /\ Len(ChainIn(fat, Slot(p)'.first)) = IF Slot(p)'.dir THEN 1 ELSE Slot(p)'.size
    BY DEF Sized, Chain
  <2>1. CASE p = pos
    BY <2>1
  <2>2. CASE p # pos
    <3>1. p \in Tree \ Target /\ Slot(p)' = Slot(p)
      BY <2>2
    <3> QED
      BY <3>1 DEF ChainInv, Sized, Chain
  <2> QED
    BY <2>1, <2>2
<1>6. ASSUME Faults \subseteq {"data", "zero"} PROVE Used(fat', Firsts')
  <2>1. Used(fat, Firsts)
    BY <1>6 DEF ChainInv
  <2>2. ASSUME NEW g \in DOMAIN Firsts, Firsts[g] \in Clusters
        PROVE  \E h \in DOMAIN Firsts' : Firsts'[h] = Firsts[g]
    <3>1. CASE g = NewH
      BY <1>1, <1>2, <2>2, <3>1
    <3>2. CASE g = OldH
      BY <1>1, <1>3, <2>2, <3>2
    <3>3. CASE g \in Tree \ Target /\ g = pos
      BY <1>1, <1>2, <2>2, <3>3
    <3>4. CASE g \in Tree \ Target /\ g # pos
      BY <1>1, <1>2, <3>4
    <3> QED
      BY <1>1, <3>1, <3>2, <3>3, <3>4
  <2> QED
    BY <1>3, <2>1, <2>2, MovedUsed
<1> QED
  BY <1>4, <1>5, <1>6

\* What is left to show when the operation is idle afterwards.
LEMMA IdleHolds ==
  ASSUME op' = Idle \/ (op'.pc = "free" /\ op'.then = Idle)
  PROVE  PosOK' /\ AllocOK' /\ DataOK' /\ WritesOK' /\ DotsOK' /\ Target' = {}
<1>1. RecOf(op') = Idle /\ Idle.pc = "idle" /\ op'.pc \in {"idle", "free"}
  BY DEF RecOf, Idle
<1> QED
  BY <1>1 DEF PosOK, AllocOK, DataOK, WritesOK, DotsOK, Writes, Rec, Target, Idle

\* The entry of a file is written, and so the file has its new chain.
LEMMA EntryWritten ==
  ASSUME ChainInv, Prudent, op.pc = "data", op.size = 0, WriteSlot(op.pos, NewEntry), op' = Idle,
         UNCHANGED <<fat, faults>>, last' \in [Paths -> [size : Int, mode : Modes \cup {0}]]
  PROVE  /\ ChainInv' /\ NewEntry \in Ent /\ Live(NewEntry) /\ op.pos \in Valid /\ op.path \in Paths
         /\ NewEntry.name = Name(op.path) /\ ~ NewEntry.dir /\ Valid' = Valid /\ DirPos' = DirPos
         /\ \A q : q # op.pos => (q \in Tree' <=> q \in Tree)
         /\ op.pos \in Tree' /\ Target = {op.pos} /\ Target' = {} /\ Rec = op
         /\ NewEntry.first = NewFirst /\ ChainIn(fat, NewFirst) = op.chain
<1> DEFINE s == op.chain
<1>p. PICK pos : pos = op.pos
  OBVIOUS
<1>0. Typed /\ op \in Ops
  BY DEF ChainInv, Typed
<1>1. /\ op \in Writings({"alloc", "data"}) /\ s \in Seq(Clusters) /\ pos \in AllPos
      /\ Rec = op /\ Target = {pos} /\ OldFirst = 0
      /\ NewFirst = (IF s = <<>> THEN 0 ELSE s[1])
      /\ ChainIn(fat, NewFirst) = s /\ Proper(fat, NewFirst)
  BY <1>p, Taken
<1>2. Len(s) \in 0 .. MaxSize /\ Closed(fat, NewFirst)
  BY <1>1, FatAssumption DEF ChainInv, DataOK
<1>3. op.path \in AllPaths
  BY <1>1 DEF Writings
<1>4. op.path \in Paths /\ Name(op.path) \in Files /\ Name(op.path) \notin Reserved
  BY <1>3, PathNames DEF Prudent
<1>5. NewFirst \in Clusters \cup {0}
  BY <1>1
<1>6. /\ NewEntry \in Ent /\ NewEntry.name = Name(op.path) /\ NewEntry.dir = FALSE
      /\ NewEntry.first = NewFirst /\ NewEntry.size = Len(s)
  <2>1. NewEntry = [name |-> Name(op.path), dir |-> FALSE, first |-> NewFirst, size |-> Len(s), mode |-> 0]
    BY <1>1 DEF NewEntry, Entry
  <2> QED
    BY <1>2, <1>4, <1>5, <2>1 DEF Ent
<1>7. Live(NewEntry) /\ NewEntry # End
  BY <1>4, <1>6, EntryTypes DEF Reserved
<1>8. /\ pos \in Valid
      /\ \A i \in 1 .. pos[2] - 1 : Slot(<<pos[1], i>>) # End
      /\ Live(Slot(pos)) => ~ Slot(pos).dir
  BY <1>1, <1>p DEF ChainInv, PosOK, Writes
<1> HIDE DEF s
<1>a. WriteSlot(pos, NewEntry)
  BY <1>p
<1>9. /\ DirPos' = DirPos /\ DirFirsts' = DirFirsts /\ Valid' = Valid /\ DirsOK'
      /\ \A q : q # pos => (q \in Tree' <=> q \in Tree)
      /\ pos \in Tree'
  BY <1>4, <1>6, <1>7, <1>8, <1>a, TreeWrite
<1>10. /\ Slot(pos)' = NewEntry
       /\ \A q \in AllPos : q # pos => Slot(q)' = Slot(q)
       /\ root' \in [1 .. RootSlots -> Ent] /\ data' \in [Clusters -> Content]
  BY <1>6, <1>8, <1>a, SlotWrite
<1>11. PosOK' /\ AllocOK' /\ DataOK' /\ WritesOK' /\ DotsOK' /\ Target' = {}
  BY IdleHolds
<1>12. op' \in Ops /\ NewOf(op') = 0 /\ OldOf(op') = 0
  BY OpValues DEF Ops, Idle
<1>13. TreeChange(pos)
  <2>1. \A q \in Tree : q \in AllPos
    BY DirsAre, RootLiveIs
  <2>2. DirFirsts' \subseteq Clusters
    BY <1>9, DirsAre
  <2>3. Slot(pos)'.first = NewFirst /\ Slot(pos)'.dir = FALSE /\ Slot(pos)'.size = Len(s)
    BY <1>6, <1>10
  <2>4. 0 \notin Clusters
    BY Numbers
  <2> QED
    BY <1>1, <1>2, <1>9, <1>10, <1>11, <1>12, <2>1, <2>2, <2>3, <2>4 DEF TreeChange
<1>14. Apart(fat', Firsts') /\ Sized' /\ (Faults \subseteq {"data", "zero"} => Used(fat', Firsts'))
  BY <1>13, TreeChanges
<1>15. Typed'
  BY <1>0, <1>10, <1>12 DEF Typed
<1>16. ChainInv'
  BY <1>9, <1>11, <1>14, <1>15 DEF ChainInv
<1> QED
  BY <1>1, <1>4, <1>6, <1>7, <1>8, <1>9, <1>11, <1>16, <1>p DEF s

LEMMA EntryStepHolds ==
  ASSUME ChainInv, Prudent, EntryStep
  PROVE  ChainInv'
<1>0. Typed /\ op.pc = "data" /\ op.size = 0 /\ op' = Idle /\ fat' = fat
  BY DEF ChainInv, EntryStep
<1>1. CASE /\ WriteSlot(op.pos, NewEntry) /\ UNCHANGED faults
           /\ last' = IF op.path \in Paths
                      THEN [last EXCEPT ![op.path] = [size |-> Len(op.chain), mode |-> 0]] ELSE last
  <2>1. Len(op.chain) \in Int
    BY <1>0, Taken
  <2>2. last' \in [Paths -> [size : Int, mode : Modes \cup {0}]]
    <3>1. [size |-> Len(op.chain), mode |-> 0] \in [size : Int, mode : Modes \cup {0}]
      BY <2>1
    <3> QED
      BY <1>0, <1>1, <3>1 DEF Typed
  <2> QED
    BY <1>0, <1>1, <2>2, EntryWritten
<1>2. CASE Fault("entry") /\ UNCHANGED <<root, data, last>>
  <2>1. faults' \in 0 .. MaxFaults /\ ~ (Faults \subseteq {"data", "zero"})
    BY <1>0, <1>2, Counted
  <2> QED
    BY <1>0, <1>2, <2>1, DropStep
<1> QED
  BY <1>1, <1>2 DEF EntryStep

LEMMA SmallestOf ==
  ASSUME NEW S \in SUBSET Nat, S # {}
  PROVE  \E m \in S : \A k \in S : m <= k
<1>1. PICK m \in S : \A k \in S : ~ (<<k, m>> \in OpToRel(<, Nat))
  BY WFMin, NatLessThanWellFounded, Zenon
<1>2. \A k \in S : ~ (k < m)
  BY <1>1, Zenon DEF OpToRel
<1>3. \A k \in S : m <= k
  BY <1>2
<1> QED
  BY <1>3

LEMMA OneMore ==
  ASSUME NEW T, NEW x, IsFiniteSet(T)
  PROVE  /\ IsFiniteSet(T \cup {x}) /\ Cardinality(T \cup {x}) \in Nat /\ Cardinality(T) \in Nat
         /\ Cardinality(T \cup {x}) <= Cardinality(T) + 1
<1>1. Cardinality(T) \in Nat
  BY FS_CardinalityType
<1>2. /\ IsFiniteSet(T \cup {x})
      /\ Cardinality(T \cup {x}) = IF x \in T THEN Cardinality(T) ELSE Cardinality(T) + 1
  BY FS_AddElement
<1> QED
  BY <1>1, <1>2

LEMMA AtMostThree ==
  ASSUME NEW a, NEW b, NEW c, NEW S \in SUBSET {a, b, c}
  PROVE  Cardinality(S) \in Nat /\ Cardinality(S) <= 3 /\ IsFiniteSet(S)
<1> DEFINE A == {} \cup {a}
           B == A \cup {b}
           C == B \cup {c}
<1>0. IsFiniteSet({}) /\ Cardinality({}) = 0
  BY FS_EmptySet
<1>1. IsFiniteSet(A) /\ Cardinality(A) \in Nat /\ Cardinality(A) <= Cardinality({}) + 1
  BY <1>0, OneMore
<1> HIDE DEF A
<1>2. IsFiniteSet(B) /\ Cardinality(B) \in Nat /\ Cardinality(B) <= Cardinality(A) + 1
  BY <1>1, OneMore
<1> HIDE DEF B
<1>3. IsFiniteSet(C) /\ Cardinality(C) \in Nat /\ Cardinality(C) <= Cardinality(B) + 1
  BY <1>2, OneMore
<1> HIDE DEF C
<1>4. S \subseteq C
  BY DEF A, B, C
<1>5. IsFiniteSet(S) /\ Cardinality(S) <= Cardinality(C)
  BY <1>3, <1>4, FS_Subset
<1>6. Cardinality(S) \in Nat
  BY <1>5, FS_CardinalityType
<1> QED
  BY <1>0, <1>1, <1>2, <1>3, <1>5, <1>6

\* Where a search through a subdirectory looks first.
LEMMA WalkIs ==
  ASSUME ChainInv, NEW d \in DirFirsts
  PROVE  /\ d \in Clusters /\ d # 0 /\ DirShape(d)
         /\ 1 .. PerCluster \subseteq DOMAIN Walked(d)
         /\ \A i \in 1 .. PerCluster : Walked(d)[i] = <<d, i>> /\ Slot(Walked(d)[i]) = data[d].slots[i]
         /\ DOMAIN Walked(d) = 1 .. PerCluster + RootSlots
         /\ \A i \in PerCluster + 1 .. PerCluster + RootSlots : Walked(d)[i] = <<0, i - PerCluster>>
<1>0. d \in Clusters /\ d # 0 /\ DirShape(d) /\ Chain(d) = <<d>>
  BY DirsAre, Numbers DEF DirFirsts, ChainInv, DirsOK
<1>1. PerCluster \in Nat /\ RootSlots \in Nat
  BY FatAssumption
<1>2. Walked(d) = Positions(d) \o Positions(0)
  BY <1>0 DEF Walked
<1> DEFINE a == [i \in 1 .. PerCluster |-> <<d, i>>]
           b == [i \in 1 .. RootSlots |-> <<0, i>>]
<1>3. Walked(d) = a \o b
  BY <1>0, <1>2, PositionsAre
<1>4. a \in Seq(Nat \X Nat) /\ Len(a) = PerCluster /\ b \in Seq(Nat \X Nat) /\ Len(b) = RootSlots
  <2>1. d \in Nat /\ 0 \in Nat
    BY <1>0, Numbers
  <2> QED
    BY <1>1, <2>1
<1>5. /\ \A i \in 1 .. PerCluster : a[i] = <<d, i>>
      /\ \A i \in 1 .. RootSlots : b[i] = <<0, i>>
  OBVIOUS
<1> HIDE DEF a, b
<1>6. /\ DOMAIN (a \o b) = 1 .. PerCluster + RootSlots
      /\ \A i \in 1 .. PerCluster : (a \o b)[i] = a[i]
      /\ \A i \in PerCluster + 1 .. PerCluster + RootSlots : (a \o b)[i] = b[i - PerCluster]
  <2>1. Len(a \o b) = Len(a) + Len(b) /\ a \o b \in Seq(Nat \X Nat)
    BY <1>4, ConcatProperties
  <2>2. \A i \in 1 .. Len(a) + Len(b) : (a \o b)[i] = IF i <= Len(a) THEN a[i] ELSE b[i - Len(a)]
    BY <1>4, ConcatProperties
  <2>3. DOMAIN (a \o b) = 1 .. PerCluster + RootSlots
    BY <1>4, <2>1
  <2>4. \A i \in 1 .. PerCluster : (a \o b)[i] = a[i]
    BY <1>1, <1>4, <2>2
  <2>5. \A i \in PerCluster + 1 .. PerCluster + RootSlots : (a \o b)[i] = b[i - PerCluster]
    BY <1>1, <1>4, <2>2
  <2> QED
    BY <2>3, <2>4, <2>5
<1>7. \A i \in PerCluster + 1 .. PerCluster + RootSlots : i - PerCluster \in 1 .. RootSlots
  BY <1>1
<1>8. 1 .. PerCluster \subseteq 1 .. PerCluster + RootSlots
  BY <1>1
<1>9. \A i \in 1 .. PerCluster : Walked(d)[i] = <<d, i>>
  BY <1>3, <1>5, <1>6
<1>10. \A i \in PerCluster + 1 .. PerCluster + RootSlots : Walked(d)[i] = <<0, i - PerCluster>>
  BY <1>3, <1>5, <1>6, <1>7
<1>11. \A i \in 1 .. PerCluster : Slot(Walked(d)[i]) = data[d].slots[i]
  BY <1>0, <1>9, SlotIs
<1>12. DOMAIN Walked(d) = 1 .. PerCluster + RootSlots
  BY <1>3, <1>6
<1> QED
  BY <1>0, <1>8, <1>9, <1>10, <1>11, <1>12

\* A directory that is found empty has no entries.
LEMMA EmptyIsEmpty ==
  ASSUME ChainInv, Prudent, NEW d \in DirFirsts, EmptyDir(d)
  PROVE  \A i \in 3 .. PerCluster : ~ Live(Slot(<<d, i>>))
<1> DEFINE L == {i \in 3 .. PerCluster : Live(Slot(<<d, i>>))}
           w == Walked(d)
           seen == {i \in DOMAIN w : Slot(w[i]) # Deleted /\ \A j \in 1 .. i : Slot(w[j]) # End}
<1> SUFFICES ASSUME L # {} PROVE FALSE
  OBVIOUS
<1>0. PerCluster \in Nat /\ PerCluster > 2 /\ SCAN \in Nat /\ SCAN > 2
  BY FatAssumption DEF Prudent
<1>1. /\ DirShape(d) /\ d \in Clusters /\ 1 .. PerCluster \subseteq DOMAIN w
      /\ \A i \in 1 .. PerCluster : w[i] = <<d, i>> /\ Slot(w[i]) = data[d].slots[i]
  BY WalkIs
<1>2. \A i \in fat_read_dir(d) : Slot(w[i]).name \in {".", ".."}
  BY DEF EmptyDir
<1>3. fat_read_dir(d) = {i \in seen : Cardinality({j \in seen : j <= i}) <= SCAN}
  BY DEF fat_read_dir
<1> HIDE DEF w
<1>4. PICK i \in L : \A k \in L : i <= k
  <2>1. L \in SUBSET Nat
    BY <1>0
  <2> QED
    BY <2>1, SmallestOf
<1>5. i \in 3 .. PerCluster /\ i \in 1 .. PerCluster /\ Live(data[d].slots[i])
  BY <1>0, <1>1, <1>4
<1>6. \A j \in 1 .. i : Slot(w[j]) # End
  <2> SUFFICES ASSUME NEW j \in 1 .. i PROVE data[d].slots[j] # End
    BY <1>0, <1>1, <1>5
  <2>1. j \in 1 .. PerCluster /\ (j < i \/ j = i)
    BY <1>0, <1>5
  <2>2. data[d].slots[i] # End
    BY <1>5 DEF Live
  <2> QED
    BY <1>1, <1>5, <2>1, <2>2 DEF DirShape
<1>7. i \in seen
  BY <1>1, <1>5, <1>6 DEF Live
<1>8. {j \in seen : j <= i} \in SUBSET {1, 2, i}
  <2> SUFFICES ASSUME NEW j \in seen, j <= i PROVE j \in {1, 2, i}
    OBVIOUS
  <2>1. DOMAIN w \subseteq Nat /\ \A k \in DOMAIN w : k >= 1
    <3>1. DOMAIN w = 1 .. PerCluster + RootSlots
      BY WalkIs DEF w
    <3> QED
      BY <3>1, FatAssumption
  <2>2. j \in Nat /\ j >= 1
    BY <2>1
  <2>3. CASE j >= 3 /\ j # i
    <3>1. j \in 3 .. PerCluster /\ j \in 1 .. PerCluster /\ j \in 1 .. j
      BY <1>0, <1>5, <2>2, <2>3
    <3>2. Live(Slot(<<d, j>>))
      BY <1>1, <3>1 DEF Live
    <3>3. i <= j
      BY <1>4, <3>1, <3>2
    <3> QED
      BY <1>5, <2>2, <2>3, <3>3
  <2> QED
    BY <2>2, <2>3
<1> HIDE DEF seen
<1>9. Cardinality({j \in seen : j <= i}) <= SCAN
  <2>1. Cardinality({j \in seen : j <= i}) \in Nat /\ Cardinality({j \in seen : j <= i}) <= 3
    BY <1>8, AtMostThree
  <2> QED
    BY <1>0, <2>1
<1>10. i \in fat_read_dir(d)
  BY <1>3, <1>7, <1>9
<1>11. data[d].slots[i].name \in {".", ".."}
  BY <1>1, <1>2, <1>5, <1>10
<1>12. data[d].slots[i].name \in Files \cup {"junk"}
  BY <1>1, <1>5, EntryTypes DEF DirShape, Stale
<1> QED
  BY <1>11, <1>12 DEF Prudent, Reserved

\* An empty directory is removed.
LEMMA DirGone ==
  ASSUME ChainInv, NEW pos \in DirPos, WriteSlot(pos, Deleted),
         \A i \in 3 .. PerCluster : ~ Live(Slot(<<Slot(pos).first, i>>))
  PROVE  /\ pos \in Valid /\ pos[1] = 0 /\ data' = data
         /\ DirPos' = DirPos \ {pos} /\ DirFirsts' \subseteq DirFirsts /\ DirsOK'
         /\ \A q : q # pos => (q \in Tree' <=> q \in Tree)
         /\ pos \notin Tree'
<1>0. pos \in RootPos /\ pos \in Valid /\ RootPos \subseteq AllPos /\ pos[1] = 0
  BY RootLiveIs DEF DirPos, Valid, AllPos, RootPos
<1>1. /\ Slot(pos)' = Deleted /\ \A q \in AllPos : q # pos => Slot(q)' = Slot(q)
      /\ data' = data /\ ~ Live(Deleted)
  BY <1>0, EntryTypes, SlotWrite
<1>2. DirFirsts \subseteq Clusters /\ Valid \subseteq AllPos
  BY DirsAre
<1>3. \A p : p \in DirPos <=> p \in RootPos /\ Live(Slot(p)) /\ Slot(p).dir
  BY RootLiveIs DEF DirPos
<1>4. \A p : p \in DirPos' <=> p \in RootPos /\ Live(Slot(p)') /\ Slot(p)'.dir
  BY DEF DirPos, RootLive, RootPos, Live
<1>5. DirPos' = DirPos \ {pos}
  BY <1>0, <1>1, <1>3, <1>4
<1>6. \A p \in DirPos' : Slot(p)' = Slot(p) /\ p \in DirPos
  BY <1>0, <1>1, <1>3, <1>5
<1>7. DirFirsts' \subseteq DirFirsts
  BY <1>6 DEF DirFirsts
<1>8. \A c \in DirFirsts : c # Slot(pos).first => c \in DirFirsts'
  <2> SUFFICES ASSUME NEW p \in DirPos, Slot(p).first # Slot(pos).first PROVE Slot(p).first \in DirFirsts'
    BY DEF DirFirsts
  <2>1. p \in DirPos' /\ Slot(p)' = Slot(p)
    BY <1>5, <1>6
  <2> QED
    BY <2>1 DEF DirFirsts
<1>9. DirsOK'
  <2>1. ASSUME NEW c \in DirFirsts' PROVE DirShape(c)'
    <3>1. DirShape(c)
      BY <1>7, <2>1 DEF ChainInv, DirsOK
    <3> QED
      BY <1>1, <3>1 DEF DirShape, Live, Stale
  <2>2. ASSUME NEW c \in Clusters, c \notin DirFirsts' PROVE Clean(data[c])
    <3>1. CASE c \notin DirFirsts
      BY <3>1 DEF ChainInv, DirsOK
    <3>2. CASE c \in DirFirsts
      <4>1. DirShape(c) /\ c = Slot(pos).first
        BY <1>8, <2>2, <3>2 DEF ChainInv, DirsOK
      <4>2. \A i \in 3 .. PerCluster : ~ Live(data[c].slots[i])
        BY <2>2, <4>1, SlotIs
      <4>3. 3 .. PerCluster \subseteq 1 .. PerCluster
        BY FatAssumption
      <4> QED
        BY <4>1, <4>2, <4>3 DEF DirShape, Clean
    <3> QED
      BY <3>1, <3>2
  <2> QED
    BY <1>1, <2>1, <2>2 DEF DirsOK, Clean, Live, Stale
<1>10. ASSUME NEW q, q # pos PROVE q \in Tree' <=> q \in Tree
  <2>1. q \in Tree' <=> q \in Valid' /\ Live(Slot(q)') /\ (q \in RootPos \/ ~ Stale(Slot(q)'))
    BY DEF Tree, Live, Stale, RootPos
  <2>2. q \in Tree <=> q \in Valid /\ Live(Slot(q)) /\ (q \in RootPos \/ ~ Stale(Slot(q)))
    BY DEF Tree
  <2>3. q \in Valid' => q \in Valid
    BY <1>7 DEF Valid, RootPos
  <2>4. q \in Valid /\ Live(Slot(q)) => q \in Valid'
    <3> SUFFICES ASSUME q \in Valid, Live(Slot(q)) PROVE q \in Valid'
      OBVIOUS
    <3>1. CASE q \in RootPos
      BY <3>1 DEF Valid, RootPos
    <3>2. CASE q \in DirFirsts \X (3 .. PerCluster)
      <4>1. q[1] \in DirFirsts /\ q[2] \in 3 .. PerCluster /\ q = <<q[1], q[2]>>
        BY <3>2
      <4>2. q[1] # Slot(pos).first
        BY <4>1
      <4> QED
        BY <1>8, <4>1, <4>2 DEF Valid
    <3> QED
      BY <3>1, <3>2 DEF Valid
  <2>5. q \in Valid => Slot(q)' = Slot(q)
    BY <1>1, <1>2, <1>10
  <2> QED
    BY <2>1, <2>2, <2>3, <2>4, <2>5
<1>11. pos \notin Tree'
  BY <1>1 DEF Tree, Live
<1> QED
  BY <1>0, <1>1, <1>5, <1>7, <1>9, <1>10, <1>11

LEMMA EntryGone ==
  ASSUME ChainInv, Prudent, op.pc = "idle", NEW p \in AllPaths \cup {<<n>> : n \in Dirs},
         NEW pos \in FindSlot(p), Slot(pos).name = Name(p),
         (Slot(pos).dir /\ Slot(pos).first >= 2) => EmptyDir(Slot(pos).first),
         WriteSlot(pos, Deleted)
  PROVE  /\ pos \in Tree /\ pos \notin Tree' /\ DirsOK' /\ DirFirsts' \subseteq Clusters
         /\ \A q : q # pos => (q \in Tree' <=> q \in Tree)
         /\ DirPos' = DirPos \ {pos}
         /\ Slot(pos) \in Ent /\ Live(Slot(pos)) /\ pos \in Valid /\ Slot(pos)' = Deleted
         /\ \A q \in AllPos : q # pos => Slot(q)' = Slot(q)
         /\ root' \in [1 .. RootSlots -> Ent] /\ data' \in [Clusters -> Content]
         /\ \A c \in Clusters : data'[c].owner = data[c].owner /\ data'[c].part = data[c].part
<1>1. /\ pos \in Valid /\ pos \in AllPos /\ Live(Slot(pos)) /\ pos \in Tree
      /\ \A i \in 1 .. pos[2] - 1 : Live(Slot(<<pos[1], i>>))
  BY PathSlot
<1>2. Slot(pos) \in Ent /\ Deleted \in Ent /\ ~ Live(Deleted) /\ Deleted # End
  BY <1>1, SlotTypes, EntryTypes DEF ChainInv
<1>3. /\ Slot(pos)' = Deleted /\ \A q \in AllPos : q # pos => Slot(q)' = Slot(q)
      /\ root' \in [1 .. RootSlots -> Ent] /\ data' \in [Clusters -> Content]
      /\ \A c \in Clusters : data'[c].owner = data[c].owner /\ data'[c].part = data[c].part
  BY <1>1, <1>2, SlotWrite
<1>4. CASE ~ Slot(pos).dir
  <2>1. \A i \in 1 .. pos[2] - 1 : Slot(<<pos[1], i>>) # End
    BY <1>1, EntryTypes
  <2>2. /\ DirPos' = DirPos /\ DirFirsts' = DirFirsts /\ DirsOK' /\ pos \notin Tree'
        /\ \A q : q # pos => (q \in Tree' <=> q \in Tree)
    BY <1>1, <1>2, <1>4, <2>1, TreeWrite
  <2>3. pos \notin DirPos
    BY <1>4 DEF DirPos
  <2> QED
    BY <1>1, <1>2, <1>3, <2>2, <2>3, DirsAre
<1>5. CASE Slot(pos).dir
  <2>1. pos \in DirPos
    <3>1. pos \in RootPos
      <4> SUFFICES ASSUME pos \in DirFirsts \X (3 .. PerCluster) PROVE FALSE
        BY <1>1 DEF Valid
      <4>1. DirShape(pos[1]) /\ pos[1] \in Clusters /\ pos[2] \in 3 .. PerCluster /\ pos = <<pos[1], pos[2]>>
        BY DirsAre DEF ChainInv, DirsOK
      <4>2. Slot(pos) = data[pos[1]].slots[pos[2]]
        BY <4>1, Numbers DEF Slot
      <4> QED
        BY <1>1, <1>5, <4>1, <4>2 DEF DirShape
    <3> QED
      BY <1>1, <1>5, <3>1, RootLiveIs DEF DirPos
  <2>2. Slot(pos).first \in Clusters /\ Slot(pos).first \in DirFirsts
    BY <2>1, DirsAre DEF DirFirsts
  <2>3. Slot(pos).first >= 2
    BY <2>2, Numbers
  <2>4. \A i \in 3 .. PerCluster : ~ Live(Slot(<<Slot(pos).first, i>>))
    BY <1>5, <2>2, <2>3, EmptyIsEmpty
  <2>5. /\ DirPos' = DirPos \ {pos} /\ DirFirsts' \subseteq DirFirsts /\ DirsOK' /\ pos \notin Tree'
        /\ \A q : q # pos => (q \in Tree' <=> q \in Tree)
    BY <2>1, <2>4, DirGone
  <2> QED
    BY <1>1, <1>2, <1>3, <2>5, DirsAre
<1> QED
  BY <1>4, <1>5

\* A call that fails at its only write.
LEMMA NothingDone ==
  ASSUME ChainInv, Prudent, op.pc = "idle", Fault("entry"), UNCHANGED <<fat, root, data, op, last>>
  PROVE  ChainInv'
<1>1. op' = Idle
  BY OpKinds DEF ChainInv, Typed
<1>2. faults' \in 0 .. MaxFaults /\ ~ (Faults \subseteq {"data", "zero"})
  BY Counted DEF ChainInv
<1> QED
  BY <1>1, <1>2, DropStep

LEMMA DeleteHolds ==
  ASSUME ChainInv, Prudent, NEW p \in Paths \cup {<<n>> : n \in Dirs}, fat_delete_file(p)
  PROVE  ChainInv'
<1>0. Typed /\ op.pc = "idle" /\ op \in Ops /\ fat' = fat
  BY DEF ChainInv, Typed, fat_delete_file
<1>a. p \in AllPaths \cup {<<n>> : n \in Dirs}
  BY DEF AllPaths
<1>1. PICK pos \in FindSlot(p) :
        /\ Slot(pos).name = Name(p)
        /\ (Slot(pos).dir /\ Slot(pos).first >= 2) => EmptyDir(Slot(pos).first)
        /\ \/ /\ WriteSlot(pos, Deleted)
              /\ op' = ChainOf(Slot(pos))
              /\ last' = IF p \in Paths THEN [last EXCEPT ![p] = Nothing] ELSE last
              /\ UNCHANGED faults
           \/ Fault("entry") /\ UNCHANGED <<root, data, op, last>>
  BY DEF fat_delete_file
<1>2. CASE Fault("entry") /\ UNCHANGED <<root, data, op, last>>
  BY <1>0, <1>2, NothingDone
<1>3. CASE /\ WriteSlot(pos, Deleted) /\ op' = ChainOf(Slot(pos)) /\ UNCHANGED faults
           /\ last' = IF p \in Paths THEN [last EXCEPT ![p] = Nothing] ELSE last
  <2>1. /\ pos \in Tree /\ pos \notin Tree' /\ DirsOK' /\ DirFirsts' \subseteq Clusters
        /\ \A q : q # pos => (q \in Tree' <=> q \in Tree)
        /\ Slot(pos) \in Ent /\ pos \in Valid
        /\ \A q \in AllPos : q # pos => Slot(q)' = Slot(q)
        /\ root' \in [1 .. RootSlots -> Ent] /\ data' \in [Clusters -> Content]
    BY <1>0, <1>a, <1>1, <1>3, EntryGone
  <2>2. op' = FreeThen(Slot(pos).first, Idle) /\ Slot(pos).first \in Clusters \cup {0}
    BY <1>3, <2>1 DEF ChainOf, Ent
  <2>3. op'.pc = "free" /\ op'.c = Slot(pos).first /\ op'.then = Idle /\ op' \in Ops
    BY <2>2 DEF FreeThen, Freeings, Ops
  <2>4. NewOf(op') = 0 /\ OldOf(op') = Slot(pos).first
    BY <2>3, OpValues
  <2>5. Target = {} /\ NewFirst = 0 /\ OldFirst = 0
    BY <1>0, OpValues, TargetIs DEF NewFirst, OldFirst
  <2>6. PosOK' /\ AllocOK' /\ DataOK' /\ WritesOK' /\ DotsOK' /\ Target' = {}
    BY <2>3, IdleHolds
  <2>7. TreeChange(pos)
    <3>1. \A q \in Tree : q \in AllPos
      BY DirsAre, RootLiveIs
    <3>2. 0 \notin Clusters
      BY Numbers
    <3> QED
      BY <1>0, <2>1, <2>3, <2>4, <2>5, <2>6, <3>1, <3>2 DEF TreeChange
  <2>8. Apart(fat', Firsts') /\ Sized' /\ (Faults \subseteq {"data", "zero"} => Used(fat', Firsts'))
    BY <2>7, TreeChanges
  <2>9. last' \in [Paths -> [size : Int, mode : Modes \cup {0}]]
    <3>1. Nothing \in [size : Int, mode : Modes \cup {0}]
      BY DEF Nothing
    <3> QED
      BY <1>0, <1>3, <3>1 DEF Typed
  <2>10. Typed'
    BY <1>0, <1>3, <2>1, <2>3, <2>9 DEF Typed
  <2> QED
    BY <2>1, <2>6, <2>8, <2>10 DEF ChainInv
<1> QED
  BY <1>1, <1>2, <1>3

\* The permission fields of an entry are changed.
LEMMA ModeWritten ==
  ASSUME ChainInv, Prudent, op.pc = "idle", NEW p \in Paths, NEW m \in Modes, NEW pos \in FindSlot(p),
         Slot(pos).name = Name(p), WriteSlot(pos, [Slot(pos) EXCEPT !.mode = m])
  PROVE  /\ pos \in Tree /\ DirPos' = DirPos /\ DirFirsts' = DirFirsts /\ Valid' = Valid
         /\ Tree' = Tree /\ DirsOK' /\ Slot(pos) \in Ent /\ pos \in Valid
         /\ [Slot(pos) EXCEPT !.mode = m] \in Ent
         /\ Slot(pos)' = [Slot(pos) EXCEPT !.mode = m]
         /\ \A q \in AllPos : q # pos => Slot(q)' = Slot(q)
         /\ root' \in [1 .. RootSlots -> Ent] /\ data' \in [Clusters -> Content]
         /\ \A c \in Clusters : data'[c].owner = data[c].owner /\ data'[c].part = data[c].part
<1> DEFINE e == [Slot(pos) EXCEPT !.mode = m]
<1>0. p \in AllPaths /\ Name(p) \in Files /\ Name(p) \notin Reserved
  BY PathNames DEF AllPaths, Prudent
<1>1. /\ pos \in Valid /\ pos \in AllPos /\ Live(Slot(pos)) /\ pos \in Tree
      /\ \A i \in 1 .. pos[2] - 1 : Live(Slot(<<pos[1], i>>))
  BY <1>0, PathSlot
<1>2. Slot(pos) \in Ent
  BY <1>1, SlotTypes DEF ChainInv
<1>3. e \in Ent /\ e.name = Name(p) /\ e.dir = Slot(pos).dir /\ e.first = Slot(pos).first
  BY <1>2 DEF Ent
<1>4. Live(e) /\ e # End
  BY <1>0, <1>3, EntryTypes DEF Reserved
<1> HIDE DEF e
<1>a. WriteSlot(pos, e)
  BY DEF e
<1>5. \A i \in 1 .. pos[2] - 1 : Slot(<<pos[1], i>>) # End
  BY <1>1, EntryTypes
<1>6. /\ DirPos' = DirPos /\ DirFirsts' = DirFirsts /\ Valid' = Valid /\ DirsOK'
      /\ \A q : q # pos => (q \in Tree' <=> q \in Tree)
      /\ pos \in Tree'
  BY <1>0, <1>1, <1>3, <1>4, <1>5, <1>a, TreeWrite
<1>7. /\ Slot(pos)' = e /\ \A q \in AllPos : q # pos => Slot(q)' = Slot(q)
      /\ root' \in [1 .. RootSlots -> Ent] /\ data' \in [Clusters -> Content]
      /\ \A c \in Clusters : data'[c].owner = data[c].owner /\ data'[c].part = data[c].part
  BY <1>1, <1>3, <1>a, SlotWrite
<1>8. Tree' = Tree
  BY <1>1, <1>6
<1> QED
  BY <1>1, <1>2, <1>3, <1>6, <1>7, <1>8 DEF e

LEMMA SetModeHolds ==
  ASSUME ChainInv, Prudent, NEW p \in Paths, NEW m \in Modes, fat_set_file_meta(p, m)
  PROVE  ChainInv'
<1>0. Typed /\ op.pc = "idle" /\ op \in Ops /\ fat' = fat /\ op' = op /\ op = Idle
  BY OpKinds DEF ChainInv, Typed, fat_set_file_meta
<1>1. PICK pos \in FindSlot(p) :
        /\ Slot(pos).name = Name(p)
        /\ \/ /\ WriteSlot(pos, [Slot(pos) EXCEPT !.mode = m])
              /\ last' = IF last[p] = Nothing THEN last ELSE [last EXCEPT ![p].mode = m]
              /\ UNCHANGED faults
           \/ Fault("entry") /\ UNCHANGED <<root, data, last>>
  BY DEF fat_set_file_meta
<1>2. CASE Fault("entry") /\ UNCHANGED <<root, data, last>>
  BY <1>0, <1>2, NothingDone
<1>3. CASE /\ WriteSlot(pos, [Slot(pos) EXCEPT !.mode = m]) /\ UNCHANGED faults
           /\ last' = IF last[p] = Nothing THEN last ELSE [last EXCEPT ![p].mode = m]
  <2>1. /\ pos \in Tree /\ DirFirsts' = DirFirsts /\ Tree' = Tree /\ DirsOK' /\ Slot(pos) \in Ent
        /\ Slot(pos)' = [Slot(pos) EXCEPT !.mode = m]
        /\ \A q \in AllPos : q # pos => Slot(q)' = Slot(q)
        /\ root' \in [1 .. RootSlots -> Ent] /\ data' \in [Clusters -> Content]
    BY <1>0, <1>1, <1>3, ModeWritten
  <2>2. Slot(pos)'.first = Slot(pos).first /\ Slot(pos)'.dir = Slot(pos).dir /\ Slot(pos)'.size = Slot(pos).size
    BY <2>1 DEF Ent
  <2>3. NewOf(op') = 0 /\ OldOf(op') = 0
    BY <1>0, OpValues
  <2>4. Target = {} /\ NewFirst = 0 /\ OldFirst = 0
    BY <1>0, OpValues, TargetIs DEF NewFirst, OldFirst
  <2>5. PosOK' /\ AllocOK' /\ DataOK' /\ WritesOK' /\ DotsOK' /\ Target' = {}
    BY <1>0, IdleHolds
  <2>6. TreeChange(pos)
    <3>1. \A q \in Tree : q \in AllPos
      BY DirsAre, RootLiveIs
    <3>2. 0 \notin Clusters /\ DirFirsts \subseteq Clusters
      BY Numbers, DirsAre
    <3>3. /\ Closed(fat, Slot(pos).first)
          /\ Len(ChainIn(fat, Slot(pos).first)) = IF Slot(pos).dir THEN 1 ELSE Slot(pos).size
      BY <2>1, <2>4 DEF ChainInv, Sized, Chain
    <3> QED
      BY <1>0, <2>1, <2>2, <2>3, <2>4, <2>5, <3>1, <3>2, <3>3 DEF TreeChange
  <2>7. Apart(fat', Firsts') /\ Sized' /\ (Faults \subseteq {"data", "zero"} => Used(fat', Firsts'))
    BY <2>6, TreeChanges
  <2>8. last' \in [Paths -> [size : Int, mode : Modes \cup {0}]]
    <3>1. last[p] \in [size : Int, mode : Modes \cup {0}]
      BY <1>0 DEF Typed
    <3>2. [last[p] EXCEPT !.mode = m] \in [size : Int, mode : Modes \cup {0}]
      BY <3>1
    <3> QED
      BY <1>0, <1>3, <3>2 DEF Typed
  <2>9. Typed'
    BY <1>0, <1>3, <2>1, <2>8 DEF Typed
  <2> QED
    BY <2>1, <2>5, <2>7, <2>9 DEF ChainInv
<1> QED
  BY <1>1, <1>2, <1>3

--------------------------------------------------------------------------------
(* Making a directory. *)

LEMMA MkdirHolds ==
  ASSUME ChainInv, NEW n \in Dirs, fat_mkdir(n)
  PROVE  ChainInv' /\ Kept /\ op'.pc = "zero" /\ op'.path = <<n>>
<1>0. /\ Typed /\ op.pc = "idle" /\ op \in Ops /\ fat \in [Clusters -> Clusters \cup {0, Eoc}]
      /\ UNCHANGED <<root, faults, last>> /\ FreeFrom(2) # {}
  BY DEF ChainInv, Typed, fat_mkdir
<1>1. PICK c : c = Least(FreeFrom(2))
  OBVIOUS
<1>2. c \in Clusters /\ fat[c] = 0
  <2>1. FreeFrom(2) \in SUBSET Clusters
    BY DEF FreeFrom
  <2>2. c \in FreeFrom(2)
    BY <1>0, <1>1, <2>1, LeastIn
  <2> QED
    BY <2>2 DEF FreeFrom
<1>3. fat' = [fat EXCEPT ![c] = Eoc] /\ data' = data /\ op' = [pc |-> "zero", path |-> <<n>>, c |-> c]
  BY <1>1, <1>2 DEF fat_mkdir, write_fat_entry
<1>4. op'.pc = "zero" /\ op'.c = c /\ op'.path = <<n>> /\ op' \in Ops
  BY <1>2, <1>3 DEF Makings, Ops
<1>5. NewOf(op') = c /\ OldOf(op') = 0 /\ RecOf(op') = op'
  BY <1>4, OpValues
<1>6. Target = {} /\ NewFirst = 0 /\ OldFirst = 0
  BY <1>0, OpValues, TargetIs DEF NewFirst, OldFirst
<1>7. Target' = {}
  BY <1>4 DEF Target
<1>8. /\ fat'[c] = Eoc /\ fat' \in [Clusters -> Clusters \cup {0, Eoc}]
      /\ \A x \in Clusters : x # c => fat'[x] = fat[x]
  BY <1>0, <1>2, <1>3
<1>9. Proper(fat', c) /\ ClustersOf(fat', c) = {c}
  <2>1. fat'[c] \notin Clusters
    BY <1>8, Numbers
  <2> QED
    BY <1>2, <2>1, Alone
<1>10. ClustersOf(fat, NewFirst) = {} /\ Closed(fat, OldFirst)
  BY <1>6, NoTable, Numbers
<1>11. \A g \in DOMAIN Firsts : c \notin ClustersOf(fat, Firsts[g])
  BY <1>2, <1>10, FreeApart
<1>12. TableChange(NewH, c, {c})
  <2>1. Firsts[NewH] = NewFirst /\ NewH # OldH
    BY DirsAre, FirstsAre
  <2> QED
    BY <1>0, <1>3, <1>4, <1>5, <1>6, <1>7, <1>8, <1>9, <1>10, <1>11, <2>1 DEF TableChange
<1>13. /\ SameTree /\ DirsOK' /\ Apart(fat', Firsts') /\ Sized'
       /\ Faults \subseteq {"data", "zero"} => Used(fat', Firsts')
       /\ \A p \in Tree \ Target : ChainIn(fat', Slot(p).first) = ChainIn(fat, Slot(p).first)
  BY <1>12, TableChanges
<1>14. Typed'
  BY <1>0, <1>3, <1>4, <1>8 DEF Typed
<1>15. PosOK' /\ AllocOK' /\ DataOK' /\ WritesOK' /\ DotsOK'
  <2>1. Rec'.pc = "zero"
    BY <1>4, <1>5 DEF Rec
  <2> QED
    BY <1>4, <1>8, <2>1 DEF PosOK, AllocOK, DataOK, WritesOK, DotsOK, Writes
<1>16. Kept
  BY <1>0, <1>3, <1>13 DEF Kept
<1> QED
  BY <1>4, <1>13, <1>14, <1>15, <1>16 DEF ChainInv

\* The cluster of a directory in the making.
LEMMA Made ==
  ASSUME ChainInv, op.pc \in {"zero", "dots", "link"}
  PROVE  /\ op.c \in Clusters /\ fat[op.c] = Eoc /\ NewFirst = op.c /\ OldFirst = 0 /\ Target = {}
         /\ Rec = op /\ op \in Makings /\ ChainIn(fat, op.c) = <<op.c>> /\ Closed(fat, op.c)
         /\ op.c \notin DirFirsts /\ \E n \in Dirs : op.path = <<n>>
<1>0. op \in Ops /\ op \in Makings
  BY OpKinds DEF ChainInv, Typed
<1>1. op.c \in Clusters /\ fat[op.c] = Eoc /\ \E n \in Dirs : op.path = <<n>>
  BY <1>0 DEF ChainInv, DotsOK, Makings
<1>2. NewFirst = op.c /\ OldFirst = 0 /\ Target = {} /\ Rec = op
  BY <1>0, OpValues, TargetIs DEF NewFirst, OldFirst, Rec
<1>3. ChainIn(fat, op.c) = <<op.c>> /\ ClustersOf(fat, op.c) = {op.c}
  BY <1>1, Alone, Numbers
<1>4. Closed(fat, op.c)
  BY <1>1, <1>3 DEF Closed
<1>5. op.c \notin DirFirsts
  BY <1>2, <1>3, NewNotDir
<1> QED
  BY <1>0, <1>1, <1>2, <1>3, <1>4, <1>5

\* A sector with the dots in it is still one for a directory to begin with.
LEMMA DotsAre ==
  ASSUME NEW c \in Clusters, NEW x \in Content, Clean(x)
  PROVE  /\ Dots(x, c, 0) \in Content /\ Clean(Dots(x, c, 0))
         /\ Dots(x, c, 0).slots[1].name = "." /\ Dots(x, c, 0).slots[2].name = ".."
<1> DEFINE e1 == Entry(".", TRUE, c, 0, 0)
           e2 == Entry("..", TRUE, 0, 0, 0)
           s0 == x.slots
           s2 == [[s0 EXCEPT ![1] = e1] EXCEPT ![2] = e2]
           z == Dots(x, c, 0)
<1>0. PerCluster \in Nat /\ PerCluster > 2 /\ 0 \in 0 .. MaxSize
  BY FatAssumption
<1>1. e1 \in Ent /\ e2 \in Ent /\ e1.name = "." /\ e2.name = ".."
  BY <1>0 DEF Entry, Ent, Reserved
<1>2. s0 \in [1 .. PerCluster -> Ent]
  BY DEF Content
<1>3. z = [slots |-> s2, owner |-> <<>>, part |-> 0]
  <2>1. Empty = [slots |-> Empty.slots, owner |-> <<>>, part |-> 0]
    BY DEF Empty
  <2>2. z = [Empty EXCEPT !.slots = [s0 EXCEPT ![1] = e1, ![2] = e2]]
    BY Zenon DEF Dots
  <2> HIDE DEF e1, e2, s0, z
  <2>3. [s0 EXCEPT ![1] = e1, ![2] = e2] = [[s0 EXCEPT ![1] = e1] EXCEPT ![2] = e2]
    OBVIOUS
  <2> QED
    BY <2>1, <2>2, <2>3
<1> HIDE DEF e1, e2, z
<1>4. 1 \in 1 .. PerCluster /\ 2 \in 1 .. PerCluster /\ \A i \in 3 .. PerCluster : i \in 1 .. PerCluster /\ i # 1 /\ i # 2
  BY <1>0
<1>6. /\ s2 \in [1 .. PerCluster -> Ent] /\ s2[1] = e1 /\ s2[2] = e2
      /\ \A i \in 3 .. PerCluster : s2[i] = x.slots[i]
  BY <1>1, <1>2, <1>4
<1> HIDE DEF s2
<1>7. z \in Content /\ z.slots = s2
  BY <1>3, <1>6 DEF Content
<1>8. Clean(z)
  BY <1>6, <1>7 DEF Clean
<1> QED
  BY <1>1, <1>6, <1>7, <1>8 DEF z

\* The cluster of the new directory is written, or not, and the operation goes on.
LEMMA MakingStep ==
  ASSUME ChainInv, NEW pc \in {"dots", "link"}, op.pc \in {"zero", "dots"},
         op' = [op EXCEPT !.pc = pc], UNCHANGED <<fat, root, last>>, faults' \in 0 .. MaxFaults,
         data' \in [Clusters -> Content], \A k \in Clusters : k # op.c => data'[k] = data[k],
         Clean(data'[op.c]),
         pc = "link" => data'[op.c].slots[1].name = "." /\ data'[op.c].slots[2].name = ".."
  PROVE  ChainInv' /\ Kept /\ op'.pc = pc /\ op'.path = op.path
<1>0. Typed
  BY DEF ChainInv
<1>1. /\ op.c \in Clusters /\ fat[op.c] = Eoc /\ NewFirst = op.c /\ OldFirst = 0 /\ Target = {}
      /\ Rec = op /\ op \in Makings /\ op.c \notin DirFirsts
  BY Made
<1>2. op' \in Makings /\ op'.pc = pc /\ op'.c = op.c /\ op'.path = op.path
  BY <1>1 DEF Makings
<1>3. op' \in Ops /\ NewOf(op') = NewFirst /\ OldOf(op') = 0 /\ RecOf(op') = op'
  <2>1. op' \in Ops
    BY <1>2 DEF Ops
  <2> QED
    BY <1>1, <1>2, <2>1, OpValues
<1>4. Target' = {}
  BY <1>2 DEF Target
<1>6. SameTree /\ DirsOK'
  BY <1>1, SameByData, SameShape
<1>7. Apart(fat', Firsts') /\ Sized'
  <2>1. OldOf(op') \notin Clusters
    BY <1>3, Numbers
  <2> QED
    BY <1>1, <1>3, <1>6, <2>1, HandedOn
<1>8. Faults \subseteq {"data", "zero"} => Used(fat', Firsts')
  <2>1. OldFirst \notin Clusters
    BY <1>1, Numbers
  <2> QED
    BY <1>1, <1>3, <1>4, <1>6, <2>1, HandedUsed DEF ChainInv
<1>9. Typed'
  BY <1>0, <1>3 DEF Typed
<1>10. PosOK' /\ AllocOK' /\ DataOK' /\ WritesOK' /\ DotsOK'
  <2>1. Rec'.pc = pc
    BY <1>2, <1>3 DEF Rec
  <2> QED
    BY <1>1, <1>2, <2>1 DEF PosOK, AllocOK, DataOK, WritesOK, DotsOK, Writes
<1>11. Kept
  <2> SUFFICES ASSUME NEW p \in Tree \ Target, NEW k \in ClustersOf(fat, Slot(p).first)
               PROVE  data'[k] = data[k]
    BY <1>6 DEF Kept
  <2>1. ClustersOf(fat, op.c) = {op.c}
    BY <1>1, Alone, Numbers
  <2>2. k # op.c /\ k \in Clusters
    BY <1>1, <2>1, HeldChains, ProperIs
  <2> QED
    BY <2>2
<1> QED
  BY <1>2, <1>6, <1>7, <1>8, <1>9, <1>10, <1>11 DEF ChainInv

\* The zeros are written, or they are not and the cluster stays as it was.
LEMMA ZeroHolds ==
  ASSUME ChainInv, ZeroStep
  PROVE  ChainInv' /\ Kept /\ op'.pc = "dots" /\ op'.path = op.path /\ op.pc = "zero" /\ last' = last
<1>0. /\ Typed /\ op.pc = "zero" /\ UNCHANGED <<fat, root, last>> /\ op' = [op EXCEPT !.pc = "dots"]
      /\ data \in [Clusters -> Content]
  BY DEF ChainInv, Typed, ZeroStep
<1>1. op.c \in Clusters /\ Clean(data[op.c])
  BY <1>0, Made DEF ChainInv, DirsOK
<1>2. faults' \in 0 .. MaxFaults
  BY <1>0, Counted DEF ZeroStep, Typed
<1>3. /\ data' \in [Clusters -> Content] /\ Clean(data'[op.c])
      /\ \A k \in Clusters : k # op.c => data'[k] = data[k]
  <2>1. CASE data' = [data EXCEPT ![op.c] = Empty]
    BY <1>0, <1>1, <2>1, WrittenTypes
  <2>2. CASE data' = data
    BY <1>0, <1>1, <2>2
  <2> QED
    BY <2>1, <2>2 DEF ZeroStep
<1> QED
  BY <1>0, <1>2, <1>3, MakingStep

LEMMA DotsWritten ==
  ASSUME ChainInv, op.pc = "dots", data' = [data EXCEPT ![op.c] = Dots(@, op.c, 0)],
         op' = [op EXCEPT !.pc = "link"], UNCHANGED <<fat, root, faults, last>>
  PROVE  ChainInv' /\ Kept /\ op'.pc = "link" /\ op'.path = op.path
<1>0. Typed /\ data \in [Clusters -> Content] /\ faults' \in 0 .. MaxFaults
  BY DEF ChainInv, Typed
<1>1. op.c \in Clusters /\ Clean(data[op.c]) /\ data[op.c] \in Content
  BY <1>0, Made DEF ChainInv, DirsOK
<1>2. PICK x : x = Dots(data[op.c], op.c, 0)
  OBVIOUS
<1>3. x \in Content /\ Clean(x) /\ x.slots[1].name = "." /\ x.slots[2].name = ".."
  BY <1>1, <1>2, DotsAre
<1>4. data' = [data EXCEPT ![op.c] = x]
  BY <1>2
<1>5. data' \in [Clusters -> Content] /\ data'[op.c] = x /\ \A k \in Clusters : k # op.c => data'[k] = data[k]
  BY <1>0, <1>1, <1>3, <1>4
<1> QED
  BY <1>0, <1>3, <1>5, MakingStep

LEMMA DotsHolds ==
  ASSUME ChainInv, Prudent, DotsStep
  PROVE  ChainInv'
<1>0. Typed /\ op.pc = "dots" /\ UNCHANGED <<fat, root, last>>
  BY DEF ChainInv, DotsStep
<1>1. CASE data' = [data EXCEPT ![op.c] = Dots(@, op.c, 0)] /\ op' = [op EXCEPT !.pc = "link"] /\ UNCHANGED faults
  BY <1>0, <1>1, DotsWritten
<1>2. CASE Fault("data") /\ op' = FreeThen(op.c, Idle) /\ UNCHANGED data
  <2>1. faults' \in 0 .. MaxFaults
    BY <1>0, <1>2, Counted
  <2>2. op.c \in Clusters /\ NewFirst = op.c /\ OldFirst = 0 /\ Target = {}
    BY <1>0, Made
  <2> QED
    BY <1>0, <1>2, <2>1, <2>2, UndoStep
<1> QED
  BY <1>1, <1>2 DEF DotsStep

\* A new directory gets its entry.
LEMMA Linked ==
  ASSUME ChainInv, Prudent, op.pc = "link", NEW pos \in RootPos, ~ Live(Slot(pos)),
         WriteSlot(pos, Entry(Name(op.path), TRUE, op.c, 0, 0)), op' = Idle,
         UNCHANGED <<fat, faults, last>>
  PROVE  /\ ChainInv' /\ data' = data /\ Slot(pos)' = Entry(Name(op.path), TRUE, op.c, 0, 0)
         /\ \A q \in AllPos : q # pos => Slot(q)' = Slot(q)
         /\ DirPos' = DirPos \cup {pos} /\ pos \notin DirPos
         /\ \A q : q # pos => (q \in Tree' <=> q \in Tree)
         /\ Live(Slot(pos)') /\ Slot(pos)'.dir /\ Slot(pos)'.name = Name(op.path)
         /\ Name(op.path) \in Dirs /\ Name(op.path) = op.path[1]
<1>0. Typed
  BY DEF ChainInv
<1>1. PICK c : c = op.c
  OBVIOUS
<1>2. /\ c \in Clusters /\ fat[c] = Eoc /\ NewFirst = c /\ OldFirst = 0 /\ Target = {}
      /\ c \notin DirFirsts /\ ChainIn(fat, c) = <<c>> /\ Closed(fat, c)
      /\ \E n \in Dirs : op.path = <<n>>
  BY <1>1, Made
<1>3. PICK n \in Dirs : op.path = <<n>> /\ Name(op.path) = n /\ op.path[1] = n
  BY <1>2 DEF Name
<1> DEFINE e == Entry(n, TRUE, c, 0, 0)
<1>4. e \in Ent /\ e.name = n /\ e.dir = TRUE /\ e.first = c
  BY <1>2, FatAssumption DEF Entry, Ent
<1>5. Live(e)
  BY <1>4, EntryTypes DEF Prudent, Reserved
<1> HIDE DEF e
<1>6. WriteSlot(pos, e)
  BY <1>1, <1>3 DEF e
<1>7. pos \in Valid /\ pos[1] = 0 /\ RootPos \subseteq AllPos
  BY DEF Valid, RootPos, AllPos
<1>8. /\ Slot(pos)' = e /\ \A q \in AllPos : q # pos => Slot(q)' = Slot(q)
      /\ data' = data /\ root' \in [1 .. RootSlots -> Ent] /\ data' \in [Clusters -> Content]
  BY <1>4, <1>6, <1>7, SlotWrite
<1>9. \A p : p \in DirPos <=> p \in RootPos /\ Live(Slot(p)) /\ Slot(p).dir
  BY RootLiveIs DEF DirPos
<1>10. \A p : p \in DirPos' <=> p \in RootPos /\ Live(Slot(p)') /\ Slot(p)'.dir
  BY DEF DirPos, RootLive, RootPos, Live
<1>11. DirPos' = DirPos \cup {pos} /\ pos \notin DirPos
  BY <1>4, <1>5, <1>7, <1>8, <1>9, <1>10
<1>12. DirFirsts' = DirFirsts \cup {c}
  <2>1. \A p \in DirPos : Slot(p)' = Slot(p)
    BY <1>7, <1>8, <1>9, <1>11
  <2>2. Slot(pos)'.first = c
    BY <1>4, <1>8
  <2> QED
    BY <1>11, <2>1, <2>2 DEF DirFirsts
<1>13. DirFirsts \subseteq Clusters /\ Valid \subseteq AllPos
  BY DirsAre
<1>14. /\ data[c].slots[1].name = "." /\ data[c].slots[2].name = ".." /\ Clean(data[c])
       /\ data[c].slots[1] # End /\ data[c].slots[2] # End
  BY <1>1, <1>2, EntryTypes DEF ChainInv, DotsOK, DirsOK
<1>15. DirsOK'
  <2>0. \A d \in Clusters : d \notin DirFirsts => Clean(data[d])'
    BY <1>8 DEF ChainInv, DirsOK, Clean, Live, Stale
  <2> SUFFICES ASSUME NEW d \in DirFirsts \cup {c} PROVE DirShape(d)'
    BY <1>12, <2>0 DEF DirsOK
  <2>1. CASE d \in DirFirsts
    <3>1. DirShape(d)
      BY <2>1 DEF ChainInv, DirsOK
    <3> QED
      BY <1>8, <3>1 DEF DirShape, Live, Stale
  <2>2. CASE d = c
    <3> DEFINE s == data'[c].slots
    <3>1. /\ s[1].name = "." /\ s[2].name = ".." /\ s[1] # End /\ s[2] # End
          /\ \A i \in 3 .. PerCluster : Live(s[i]) => s[i] = Junk
          /\ \A i, j \in 3 .. PerCluster : i < j /\ s[i] = End => s[j] = End
      BY <1>8, <1>14 DEF Clean, Stale
    <3> HIDE DEF s
    <3>2. \A i, j \in 1 .. PerCluster : i < j /\ s[i] = End => s[j] = End
      <4> SUFFICES ASSUME NEW i \in 1 .. PerCluster, NEW j \in 1 .. PerCluster, i < j, s[i] = End
                   PROVE  s[j] = End
        OBVIOUS
      <4>1. i # 1 /\ i # 2 /\ PerCluster \in Nat
        BY <3>1, FatAssumption
      <4>2. i \in 3 .. PerCluster /\ j \in 3 .. PerCluster
        BY <4>1
      <4> QED
        BY <3>1, <4>2
    <3>3. \A i \in 3 .. PerCluster : Live(s[i]) => ~ s[i].dir /\ s[i] = Junk
      BY <3>1, EntryTypes
    <3> QED
      BY <2>2, <3>1, <3>2, <3>3 DEF DirShape, s, Live, Stale
  <2> QED
    BY <2>1, <2>2
<1>16. ASSUME NEW q, q # pos PROVE q \in Tree' <=> q \in Tree
  <2>1. q \in Tree' <=> q \in Valid' /\ Live(Slot(q)') /\ (q \in RootPos \/ ~ Stale(Slot(q)'))
    BY DEF Tree, Live, Stale, RootPos
  <2>2. q \in Tree <=> q \in Valid /\ Live(Slot(q)) /\ (q \in RootPos \/ ~ Stale(Slot(q)))
    BY DEF Tree
  <2>3. q \in Valid => q \in Valid'
    BY <1>12 DEF Valid, RootPos
  <2>4. q \in Tree' => q \in Valid
    <3> SUFFICES ASSUME q \in {c} \X (3 .. PerCluster), Live(Slot(q)') PROVE Stale(Slot(q)') /\ q \notin RootPos
      BY <1>12, <2>1 DEF Valid, RootPos
    <3>1. q = <<c, q[2]>> /\ q[1] = c /\ q[2] \in 3 .. PerCluster /\ c # 0
      BY <1>2, Numbers
    <3>2. Slot(q)' = data[c].slots[q[2]]
      BY <1>8, <3>1 DEF Slot
    <3> QED
      BY <1>14, <3>1, <3>2 DEF Clean, Stale, RootPos
  <2>5. q \in Valid => Slot(q)' = Slot(q)
    BY <1>8, <1>13, <1>16
  <2> QED
    BY <2>1, <2>2, <2>3, <2>4, <2>5
<1>17. pos \in Tree' /\ pos \notin Tree
  <2>1. pos \in Valid'
    BY DEF Valid, RootPos
  <2> QED
    BY <1>5, <1>8, <2>1, RootLiveIs DEF Tree, Live
<1>18. PosOK' /\ AllocOK' /\ DataOK' /\ WritesOK' /\ DotsOK' /\ Target' = {}
  BY IdleHolds
<1>19. op' \in Ops /\ NewOf(op') = 0 /\ OldOf(op') = 0
  BY OpValues DEF Ops, Idle
<1>20. TreeChange(pos)
  <2>1. \A q \in Tree : q \in AllPos
    BY DirsAre, RootLiveIs
  <2>2. 0 \notin Clusters /\ DirFirsts' \subseteq Clusters
    BY <1>2, <1>12, <1>13, Numbers
  <2>3. Slot(pos)'.first = c /\ Slot(pos)'.dir = TRUE /\ Len(<<c>>) = 1
    BY <1>4, <1>8
  <2> QED
    BY <1>2, <1>8, <1>16, <1>17, <1>18, <1>19, <2>1, <2>2, <2>3 DEF TreeChange
<1>21. Apart(fat', Firsts') /\ Sized' /\ (Faults \subseteq {"data", "zero"} => Used(fat', Firsts'))
  BY <1>20, TreeChanges
<1>22. Typed'
  BY <1>0, <1>8, <1>19 DEF Typed
<1>23. ChainInv'
  BY <1>15, <1>18, <1>21, <1>22 DEF ChainInv
<1>24. Slot(pos)' = Entry(Name(op.path), TRUE, op.c, 0, 0)
  BY <1>1, <1>3, <1>8 DEF e
<1>25. Live(Slot(pos)') /\ Slot(pos)'.dir /\ Slot(pos)'.name = Name(op.path)
  BY <1>3, <1>4, <1>5, <1>8
<1> QED
  BY <1>3, <1>8, <1>11, <1>16, <1>23, <1>24, <1>25

LEMMA LinkHolds ==
  ASSUME ChainInv, Prudent, LinkStep
  PROVE  ChainInv'
<1>0. Typed /\ op.pc = "link" /\ fat' = fat /\ last' = last
  BY DEF ChainInv, LinkStep
<1>1. op.c \in Clusters /\ NewFirst = op.c /\ OldFirst = 0 /\ Target = {}
  BY <1>0, Made
<1>2. CASE op' = LinkFails /\ UNCHANGED <<root, data>> /\ (UNCHANGED faults \/ Fault("entry"))
  <2>1. faults' \in 0 .. MaxFaults
    BY <1>0, <1>2, Counted DEF Typed
  <2>2. op' = FreeThen(NewFirst, Idle)
    BY <1>1, <1>2 DEF LinkFails
  <2> QED
    BY <1>0, <1>1, <1>2, <2>1, <2>2, UndoStep
<1>3. ASSUME NEW pos \in dir_find_slot(0, Name(op.path)), Slot(pos).name # Name(op.path),
             WriteSlot(pos, Entry(Name(op.path), TRUE, op.c, 0, 0)), op' = Idle, UNCHANGED faults
      PROVE  ChainInv'
  <2>0. \E n \in Dirs : op.path = <<n>>
    BY <1>0, Made
  <2>1. PICK n \in Dirs : op.path = <<n>> /\ Name(op.path) = n
    BY <2>0 DEF Name
  <2>2. pos \in Valid /\ pos[1] = 0 /\ ~ Live(Slot(pos))
    BY <1>3, <2>1, SlotFound
  <2>3. pos \in RootPos
    BY <2>2, DirsAre, Numbers DEF Valid
  <2> QED
    BY <1>0, <1>3, <2>2, <2>3, Linked
<1> QED
  BY <1>2, <1>3 DEF LinkStep

--------------------------------------------------------------------------------
LEMMA ChainsNext ==
  ASSUME Prudent
  PROVE  ChainInv /\ ~ ruined' /\ [Next]_vars => ChainInv'
<1> SUFFICES ASSUME ChainInv, ~ ruined', [Next]_vars PROVE ChainInv'
  OBVIOUS
<1>1. CASE WriteAny
  BY <1>1, WriteStep DEF WriteAny, AllPaths
<1>2. CASE AllocStep
  <2> DEFINE from == IF op.chain = <<>> THEN 2 ELSE Tail1 + 1
             c == Least(FreeFrom(from))
  <2>0. op.pc = "alloc" /\ Len(op.chain) < op.size /\ UNCHANGED <<root, faults, last>>
    BY <1>2 DEF AllocStep
  <2>1. CASE FreeFrom(from) = {}
    <3>1. op' = NoSpace /\ UNCHANGED <<fat, data>>
      BY <1>2, <2>1 DEF AllocStep
    <3> QED
      BY <2>0, <3>1, FullStep
  <2>2. CASE FreeFrom(from) # {}
    <3>1. /\ op' = [op EXCEPT !.chain = Append(@, c)]
          /\ IF op.chain = <<>> THEN UNCHANGED <<fat, data>> ELSE write_fat_entry(Tail1, c)
      BY <1>2, <2>2 DEF AllocStep
    <3> QED
      BY <2>0, <2>2, <3>1, GrowStep
  <2> QED
    BY <2>1, <2>2
<1>3. CASE AllocDone
  BY <1>3, DoneStep
<1>4. CASE DataStep
  BY <1>4, DataStepHolds
<1>5. CASE EntryStep
  BY <1>5, EntryStepHolds
<1>6. CASE DeleteAny
  BY <1>6, DeleteHolds DEF DeleteAny
<1>7. CASE fat_free_chain /\ Watch
  BY <1>7, FreeStep
<1>8. CASE MkdirAny
  BY <1>8, MkdirHolds DEF MkdirAny
<1>9. CASE DotsStep
  BY <1>9, DotsHolds
<1>a. CASE ZeroStep
  BY <1>a, ZeroHolds
<1>10. CASE LinkStep
  BY <1>10, LinkHolds
<1>11. CASE SetModeAny
  BY <1>11, SetModeHolds DEF SetModeAny
<1>12. CASE PowerCut
  <2>1. op' = Idle /\ UNCHANGED <<fat, root, data, last>> /\ Fault("cut")
    BY <1>12 DEF PowerCut
  <2>2. faults' \in 0 .. MaxFaults /\ ~ (Faults \subseteq {"data", "zero"})
    BY <2>1, Counted DEF ChainInv
  <2> QED
    BY <2>1, <2>2, DropStep
<1>13. CASE UNCHANGED vars
  <2>1. UNCHANGED <<fat, root, data, op, faults, last>>
    BY <1>13 DEF vars
  <2>2. \A p : Slot(p)' = Slot(p)
    BY <2>1 DEF Slot
  <2>3. SameTree /\ DirsOK'
    BY <2>1, SameByNone, SameShape
  <2>4. Rec' = Rec /\ NewFirst' = NewFirst /\ OldFirst' = OldFirst /\ Target' = Target
    BY <2>1 DEF Rec, NewFirst, OldFirst, Target
  <2>5. Firsts' = Firsts
    <3>1. Holders' = Holders
      BY <2>3, <2>4 DEF Holders, SameTree
    <3> QED
      BY <2>2, <2>4, <3>1 DEF Firsts
  <2>6. \A f : Chain(f)' = Chain(f)
    BY <2>1 DEF Chain
  <2>7. Typed'
    BY <2>1 DEF ChainInv, Typed
  <2>8. Sized'
    <3>1. Tree' = Tree
      BY <2>3 DEF SameTree
    <3>2. \A p \in Tree \ Target : /\ Closed(fat, Slot(p).first)
                                   /\ Len(Chain(Slot(p).first)) = IF Slot(p).dir THEN 1 ELSE Slot(p).size
      BY DEF ChainInv, Sized
    <3> QED
      BY <2>1, <2>2, <2>4, <3>1, <3>2 DEF Sized, Chain
  <2>9. PosOK'
    BY <2>3, <2>4, SamePos DEF Writes
  <2>10. AllocOK' /\ DataOK' /\ WritesOK' /\ DotsOK'
    BY <2>1, <2>4 DEF ChainInv, AllocOK, DataOK, WritesOK, DotsOK, Writes, Chain, Slot, Live
  <2> QED
    BY <2>1, <2>3, <2>5, <2>7, <2>8, <2>9, <2>10 DEF ChainInv
<1> QED
  BY <1>1, <1>2, <1>3, <1>4, <1>5, <1>6, <1>7, <1>8, <1>9, <1>10, <1>11, <1>12, <1>13, <1>a
     DEF Next, Step

\* The inductive invariant of the table holds: entries and the operation in
\* progress have chains of their own, whatever fat_write_file, fat_delete_file,
\* fat_mkdir and fat_free_chain write one sector at a time, whatever fails, and
\* wherever the stray write of fat_free_chain goes, as long as it has cleared no
\* directory.
THEOREM ChainInvariance ==
  ASSUME Prudent
  PROVE  Spec => [](ruined \/ ChainInv)
<1>1. Init => ChainInv
  BY ChainsInitial
<1>2. (ruined \/ ChainInv) /\ [Next]_vars => (ruined \/ ChainInv)'
  <2>1. ruined /\ [Next]_vars => ruined'
    BY DEF Next, Watch, vars
  <2>2. ChainInv /\ ~ ruined' /\ [Next]_vars => ChainInv'
    BY ChainsNext
  <2> QED
    BY <2>1, <2>2
<1> QED
  BY <1>1, <1>2, PTL DEF Spec

\* In every state, also between two writes of an operation and after a failure,
\* every entry has a chain of its own, as long as its file and ended by the mark,
\* unless fat_free_chain has cleared the sector of a directory.
THEOREM ChainsAlwaysSound ==
  ASSUME Prudent
  PROVE  Spec => [](ruined \/ ChainsSound)
<1>1. ChainInv => ChainsSound
  BY ChainsFollow
<1> QED
  BY <1>1, ChainInvariance, PTL

\* If no entry write fails and the power stays on, no cluster is lost: between
\* operations each one in use belongs to an entry, as fat_write_file and fat_mkdir
\* give back what they took when they fail, unless fat_free_chain has cleared the
\* sector of a directory.
THEOREM NothingLeaks ==
  ASSUME Prudent, Faults \subseteq {"data", "zero"}
  PROVE  Spec => []NoLeak
<1>1. ruined \/ ChainInv => NoLeak
  BY LeakFollows DEF NoLeak
<1> QED
  BY <1>1, ChainInvariance, PTL

--------------------------------------------------------------------------------
(* What was written last. *)

\* The searches look at SCAN entries: as long as the root has no more entries than that,
\* and a cluster no more slots, they see them all.
RootFits == Cardinality(RootLive) <= SCAN /\ PerCluster <= SCAN

InDir(p, pos) ==
  IF Len(p) = 1 THEN pos[1] = 0 ELSE \E q \in DirPos : Slot(q).name = p[1] /\ pos[1] = Slot(q).first

Found(p, pos) ==
  /\ InDir(p, pos) /\ Slot(pos).name = Name(p) /\ ~ Slot(pos).dir
  /\ \A i \in 1 .. pos[2] - 1 : Slot(<<pos[1], i>>) # End /\ Slot(<<pos[1], i>>).name # Name(p)

Current(p, pos) ==
  LET s == ChainIn(fat, Slot(pos).first)
  IN  /\ Slot(pos).size = last[p].size /\ Slot(pos).mode = last[p].mode
      /\ Len(s) = Slot(pos).size
      /\ \A k \in DOMAIN s : s[k] = Struck \/ (data[s[k]].owner = p /\ data[s[k]].part = k)

RootOK ==
  /\ \A i, j \in 1 .. RootSlots : i < j /\ root[i] = End => root[j] = End
  /\ \A p \in RootLive : Slot(p).name \in IF Slot(p).dir THEN Dirs ELSE Files
  /\ \A p, q \in DirPos : Slot(p).name = Slot(q).name => p = q

NewDir == op.pc \in {"zero", "dots", "link"} => \A p \in DirPos : Slot(p).name # op.path[1]

PathOK ==
  Writes => /\ InDir(Rec.path, Rec.pos)
            /\ \A i \in 1 .. Rec.pos[2] - 1 : /\ Live(Slot(<<Rec.pos[1], i>>))
                                              /\ Slot(<<Rec.pos[1], i>>).name # Name(Rec.path)
            /\ Live(Slot(Rec.pos)) => Slot(Rec.pos).name = Name(Rec.path)

PartsOK ==
  Rec.pc = "data" => \A k \in 1 .. Len(Rec.chain) - Rec.size :
                       data[Rec.chain[k]].owner = Rec.path /\ data[Rec.chain[k]].part = k

LastOK ==
  \A p \in Paths : last[p] # Nothing =>
     \E pos \in Tree : Found(p, pos) /\ (Current(p, pos) \/ (pos \in Target /\ op.pc # "alloc"))

FileInv == ChainInv /\ RootOK /\ NewDir /\ PathOK /\ PartsOK /\ LastOK

\* An entry is found if it is the first of its name and among the first SCAN entries.
LEMMA FoundByName ==
  ASSUME NEW d, NEW n, NEW N \in Nat, NEW i \in 1 .. N, NEW pos,
         1 .. N \subseteq DOMAIN Walked(d), DOMAIN Walked(d) \subseteq Nat,
         \A j \in DOMAIN Walked(d) : j >= 1,
         \A j \in 1 .. N : Walked(d)[j] = <<d, j>>, pos = <<d, i>>,
         Live(Slot(pos)), Slot(pos).name = n,
         \A j \in 1 .. i - 1 : Slot(<<d, j>>) # End /\ Slot(<<d, j>>).name # n,
         \A S \in SUBSET {j \in 1 .. i : Live(Slot(<<d, j>>))} : Cardinality(S) <= SCAN
  PROVE  pos \in dir_find_name(d, n)
<1> DEFINE w == Walked(d)
           seen == {j \in DOMAIN w : Slot(w[j]) # Deleted /\ \A k \in 1 .. j : Slot(w[k]) # End}
           I == {j \in fat_read_dir(d) : Slot(w[j]).name = n}
<1>1. fat_read_dir(d) = {j \in seen : Cardinality({k \in seen : k <= j}) <= SCAN}
  BY DEF fat_read_dir
<1>2. dir_find_name(d, n) = {w[j] : j \in {j \in I : \A k \in I : j <= k}}
  BY DEF dir_find_name, FirstOf
<1>3. seen \subseteq DOMAIN w
  OBVIOUS
<1> HIDE DEF w
<1>4. \A j \in 1 .. i : j \in 1 .. N /\ j \in DOMAIN w /\ w[j] = <<d, j>>
  BY DEF w
<1>5. i \in DOMAIN w /\ w[i] = pos
  BY <1>4
<1>6. \A k \in 1 .. i : Slot(w[k]) # End
  <2> SUFFICES ASSUME NEW k \in 1 .. i PROVE Slot(<<d, k>>) # End
    BY <1>4
  <2>1. CASE k = i
    BY <2>1, EntryTypes
  <2>2. CASE k # i
    <3>1. k \in 1 .. i - 1
      BY <2>2
    <3> QED
      BY <3>1
  <2> QED
    BY <2>1, <2>2
<1>7. i \in seen
  BY <1>5, <1>6, EntryTypes
<1>8. {k \in seen : k <= i} \in SUBSET {j \in 1 .. i : Live(Slot(<<d, j>>))}
  <2> SUFFICES ASSUME NEW k \in seen, k <= i PROVE k \in 1 .. i /\ Live(Slot(<<d, k>>))
    OBVIOUS
  <2>1. k \in Nat /\ k >= 1
    BY <1>3 DEF w
  <2>2. k \in 1 .. i /\ k \in 1 .. k
    BY <2>1
  <2>3. Slot(w[k]) # Deleted /\ Slot(w[k]) # End
    BY <2>2
  <2> QED
    BY <1>4, <2>2, <2>3 DEF Live
<1>9. i \in I
  BY <1>1, <1>5, <1>7, <1>8
<1>10. \A k \in I : i <= k
  <2> SUFFICES ASSUME NEW k \in I PROVE i <= k
    OBVIOUS
  <2>1. k \in DOMAIN w /\ Slot(w[k]).name = n
    BY <1>1, <1>3
  <2>2. k \in Nat /\ k >= 1
    BY <2>1 DEF w
  <2>3. CASE k < i
    <3>1. k \in 1 .. i - 1 /\ k \in 1 .. i
      BY <2>2, <2>3
    <3> QED
      BY <1>4, <2>1, <3>1
  <2> QED
    BY <2>2, <2>3
<1> QED
  BY <1>2, <1>5, <1>9, <1>10

\* The walk through the root.
LEMMA RootWalk ==
  /\ DOMAIN Walked(0) = 1 .. RootSlots
  /\ \A j \in 1 .. RootSlots : Walked(0)[j] = <<0, j>>
<1>0. RootSlots \in Nat
  BY FatAssumption
<1>1. Positions(0) \in Seq({<<0, j>> : j \in 1 .. RootSlots})
  BY <1>0, PositionsAre
<1>2. Walked(0) = Positions(0) \o <<>>
  BY DEF Walked
<1>3. Walked(0) = Positions(0)
  BY <1>1, <1>2
<1> QED
  BY <1>3, PositionsAre

LEMMA FoundInRoot ==
  ASSUME RootFits, NEW i \in 1 .. RootSlots, NEW n, Live(Slot(<<0, i>>)), Slot(<<0, i>>).name = n,
         \A j \in 1 .. i - 1 : Slot(<<0, j>>) # End /\ Slot(<<0, j>>).name # n
  PROVE  <<0, i>> \in dir_find_name(0, n)
<1>0. RootSlots \in Nat /\ SCAN \in Nat
  BY FatAssumption
<1>1. ASSUME NEW S \in SUBSET {j \in 1 .. i : Live(Slot(<<0, j>>))} PROVE Cardinality(S) <= SCAN
  <2>1. IsFiniteSet(1 .. RootSlots)
    BY <1>0, FS_Interval
  <2> DEFINE g == [j \in 1 .. RootSlots |-> <<0, j>>]
  <2>2. g \in Surjection(1 .. RootSlots, RootPos)
    BY DEF Surjection, RootPos
  <2>3. IsFiniteSet(RootPos)
    BY <2>1, <2>2, FS_Surjection
  <2>4. IsFiniteSet(RootLive)
    BY <2>3, RootLiveIs, FS_Subset
  <2> DEFINE h == [j \in S |-> <<0, j>>]
  <2>5. h \in Injection(S, RootLive)
    <3>1. ASSUME NEW j \in S PROVE j \in 1 .. RootSlots /\ Live(Slot(<<0, j>>))
      <4>1. j \in 1 .. i /\ Live(Slot(<<0, j>>))
        OBVIOUS
      <4> QED
        BY <1>0, <4>1
    <3>2. \A j \in S : <<0, j>> \in RootLive
      BY <3>1, RootLiveIs DEF RootPos
    <3>3. h \in [S -> RootLive] /\ \A a, b \in S : h[a] = h[b] => a = b
      BY <3>2
    <3> HIDE DEF h
    <3> QED
      BY <3>3 DEF Injection, IsInjective
  <2>6. Cardinality(S) <= Cardinality(RootLive) /\ IsFiniteSet(S)
    BY <2>4, <2>5, FS_Injection
  <2>7. Cardinality(S) \in Nat /\ Cardinality(RootLive) \in Nat
    BY <2>4, <2>6, FS_CardinalityType
  <2> QED
    BY <1>0, <2>6, <2>7 DEF RootFits
<1>2. /\ 1 .. RootSlots \subseteq DOMAIN Walked(0) /\ DOMAIN Walked(0) \subseteq Nat
      /\ \A j \in DOMAIN Walked(0) : j >= 1
      /\ \A j \in 1 .. RootSlots : Walked(0)[j] = <<0, j>>
  BY <1>0, RootWalk
<1> QED
  BY <1>0, <1>1, <1>2, FoundByName

LEMMA FoundInSub ==
  ASSUME ChainInv, RootFits, NEW d \in DirFirsts, NEW i \in 1 .. PerCluster, NEW n,
         Live(Slot(<<d, i>>)), Slot(<<d, i>>).name = n,
         \A j \in 1 .. i - 1 : Slot(<<d, j>>) # End /\ Slot(<<d, j>>).name # n
  PROVE  <<d, i>> \in dir_find_name(d, n)
<1>0. PerCluster \in Nat /\ SCAN \in Nat /\ PerCluster <= SCAN /\ RootSlots \in Nat
  BY FatAssumption DEF RootFits
<1>1. ASSUME NEW S \in SUBSET {j \in 1 .. i : Live(Slot(<<d, j>>))} PROVE Cardinality(S) <= SCAN
  <2>1. IsFiniteSet(1 .. i) /\ Cardinality(1 .. i) = i
    BY FS_Interval
  <2>2. IsFiniteSet(S) /\ Cardinality(S) <= i
    BY <2>1, FS_Subset
  <2>3. Cardinality(S) \in Nat
    BY <2>2, FS_CardinalityType
  <2> QED
    BY <1>0, <2>2, <2>3
<1>2. /\ 1 .. PerCluster \subseteq DOMAIN Walked(d) /\ DOMAIN Walked(d) \subseteq Nat
      /\ \A j \in DOMAIN Walked(d) : j >= 1
      /\ \A j \in 1 .. PerCluster : Walked(d)[j] = <<d, j>>
  BY <1>0, WalkIs
<1> QED
  BY <1>0, <1>1, <1>2, FoundByName

\* A directory is found by its name.
LEMMA DirFound ==
  ASSUME ChainInv, RootOK, RootFits, Prudent, NEW q \in DirPos
  PROVE  q \in dir_find_name(0, Slot(q).name)
<1>1. PICK i \in 1 .. RootSlots : q = <<0, i>> /\ Live(Slot(q)) /\ Slot(q).dir
  BY RootLiveIs DEF DirPos, RootPos
<1>0. RootSlots \in Nat
  BY FatAssumption
<1>2. Slot(q).name \in Dirs
  BY RootLiveIs DEF RootOK, DirPos
<1>3. ASSUME NEW j \in 1 .. i - 1 PROVE Slot(<<0, j>>) # End /\ Slot(<<0, j>>).name # Slot(q).name
  <2>1. j \in 1 .. RootSlots /\ j < i
    BY <1>0
  <2>2. Slot(<<0, j>>) = root[j] /\ Slot(q) = root[i]
    BY <1>1, SlotIs
  <2>3. root[j] # End
    BY <1>1, <2>1, <2>2, EntryTypes DEF RootOK
  <2>4. SUFFICES ASSUME Slot(<<0, j>>).name = Slot(q).name PROVE FALSE
    BY <2>2, <2>3
  <2>5. Slot(<<0, j>>) \in Ent /\ <<0, j>> \in RootPos
    BY <2>1, SlotTypes DEF ChainInv, AllPos, RootPos
  <2>6. Live(Slot(<<0, j>>))
    BY <1>2, <2>4, <2>5, EntryTypes DEF Prudent, Reserved
  <2>7. <<0, j>> \in RootLive
    BY <2>5, <2>6, RootLiveIs
  <2>8. Slot(<<0, j>>).dir
    BY <1>2, <2>4, <2>7 DEF RootOK, Prudent
  <2>9. <<0, j>> \in DirPos
    BY <2>7, <2>8 DEF DirPos
  <2>10. <<0, j>> = q
    BY <2>4, <2>9 DEF RootOK
  <2> QED
    BY <1>1, <2>1, <2>10
<1> QED
  BY <1>1, <1>3, FoundInRoot

\* A name found in its directory is found by its path.
LEMMA LookupFinds ==
  ASSUME ChainInv, RootOK, RootFits, Prudent, NEW p \in Paths, NEW pos \in Tree, Found(p, pos)
  PROVE  pos \in Lookup(p)
<1>0. pos \in Valid /\ Live(Slot(pos)) /\ DirFirsts \subseteq Clusters /\ p \in AllPaths
  BY RootLiveIs, DirsAre DEF AllPaths
<1>1. CASE Len(p) = 1
  <2>1. pos[1] = 0
    BY <1>1 DEF Found, InDir
  <2>2. PICK i \in 1 .. RootSlots : pos = <<0, i>> /\ pos[2] = i
    BY <1>0, <2>1, Numbers DEF Valid, RootPos
  <2>3. pos \in dir_find_name(0, Name(p))
    BY <1>0, <2>1, <2>2, FoundInRoot DEF Found
  <2> QED
    BY <1>1, <2>3 DEF Lookup, Parent
<1>2. CASE Len(p) # 1
  <2>1. PICK q \in DirPos : Slot(q).name = p[1] /\ pos[1] = Slot(q).first
    BY <1>2 DEF Found, InDir
  <2>2. q \in dir_find_name(0, p[1]) /\ Slot(q).dir
    BY <2>1, DirFound DEF DirPos
  <2>3. pos[1] \in DirFirsts /\ pos[1] # 0
    BY <1>0, <2>1, Numbers DEF DirFirsts
  <2>4. PICK i \in 3 .. PerCluster : pos = <<pos[1], i>> /\ pos[2] = i
    BY <1>0, <2>3 DEF Valid, RootPos
  <2>5. i \in 1 .. PerCluster
    BY FatAssumption
  <2> DEFINE d == pos[1]
  <2>6. /\ d \in DirFirsts /\ Live(Slot(<<d, i>>)) /\ Slot(<<d, i>>).name = Name(p)
        /\ \A j \in 1 .. i - 1 : Slot(<<d, j>>) # End /\ Slot(<<d, j>>).name # Name(p)
    BY <1>0, <2>3, <2>4 DEF Found
  <2> HIDE DEF d
  <2>7. <<d, i>> \in dir_find_name(d, Name(p))
    BY <2>5, <2>6, FoundInSub
  <2>8. d \in Parent(p)
    BY <1>2, <2>1, <2>2 DEF Parent, d
  <2> QED
    BY <2>4, <2>7, <2>8 DEF Lookup, d
<1> QED
  BY <1>1, <1>2

LEMMA FilesFollow ==
  ASSUME FileInv, RootFits, Prudent
  PROVE  FilesIntact
<1>1. ChainsSound
  BY ChainsFollow DEF FileInv
<1>2. ASSUME NEW p \in Paths, last[p] # Nothing PROVE Holds(p) \/ Lookup(p) \cap Target # {}
  <2>1. PICK pos \in Tree : Found(p, pos) /\ (Current(p, pos) \/ pos \in Target)
    BY <1>2 DEF FileInv, LastOK
  <2>2. pos \in Lookup(p)
    BY <2>1, LookupFinds DEF FileInv
  <2>3. CASE pos \in Target
    BY <2>2, <2>3
  <2>4. CASE Current(p, pos)
    <3>1. ~ Slot(pos).dir
      BY <2>1 DEF Found
    <3> QED
      BY <2>2, <2>4, <3>1 DEF Holds, Current, Chain
  <2> QED
    BY <2>1, <2>3, <2>4
<1> QED
  BY <1>1, <1>2 DEF FilesIntact, LastWriteFound

\* Slots that are there stay as they are if the tree does.
LEMMA ValidIs ==
  ASSUME ChainInv, NEW pos \in Valid
  PROVE  /\ pos[1] \in DirFirsts \cup {0} /\ pos = <<pos[1], pos[2]>> /\ pos[2] \in Nat
         /\ pos[1] # 0 => pos[1] \in Clusters /\ pos[2] \in 3 .. PerCluster
         /\ pos[1] = 0 => pos[2] \in 1 .. RootSlots
<1>0. DirFirsts \subseteq Clusters /\ RootSlots \in Nat /\ PerCluster \in Nat
  BY DirsAre, FatAssumption
<1> QED
  BY <1>0, Numbers DEF Valid, RootPos

LEMMA FoundKept ==
  ASSUME ChainInv, SameTree, NEW p, NEW pos \in Tree, Found(p, pos)
  PROVE  Found(p, pos)' /\ Slot(pos)' = Slot(pos) /\ pos \in Tree'
<1>1. pos \in Valid /\ pos \in Tree'
  BY RootLiveIs DEF SameTree
<1>2. Slot(pos)' = Slot(pos)
  BY <1>1 DEF SameTree
<1>3. \A i : Slot(<<pos[1], i>>)' = Slot(<<pos[1], i>>)
  <2>1. pos[1] \in DirFirsts \cup {0}
    BY <1>1, ValidIs
  <2> QED
    BY <2>1 DEF Slot, SameTree
<1>4. InDir(p, pos)'
  <2>1. DirPos \subseteq Valid
    BY DirsAre, RootLiveIs
  <2> QED
    BY <2>1 DEF Found, InDir, SameTree
<1> QED
  BY <1>1, <1>2, <1>3, <1>4 DEF Found

LEMMA CurrentKept ==
  ASSUME NEW p, NEW pos, Current(p, pos), last' = last, Slot(pos)' = Slot(pos),
         ChainIn(fat', Slot(pos).first) = ChainIn(fat, Slot(pos).first),
         \A c \in ClustersOf(fat, Slot(pos).first) : c = Struck \/ data'[c] = data[c]
  PROVE  Current(p, pos)'
<1> DEFINE s == ChainIn(fat, Slot(pos).first)
<1>1. \A k \in DOMAIN s : s[k] = Struck \/ data'[s[k]] = data[s[k]]
  BY DEF ClustersOf
<1>2. /\ Slot(pos).size = last[p].size /\ Slot(pos).mode = last[p].mode
      /\ Len(s) = Slot(pos).size
      /\ \A k \in DOMAIN s : s[k] = Struck \/ (data[s[k]].owner = p /\ data[s[k]].part = k)
  BY DEF Current
<1>3. ChainIn(fat, Slot(pos).first)' = s
  OBVIOUS
<1> HIDE DEF s
<1> QED
  BY <1>1, <1>2, <1>3 DEF Current

\* A step that changes neither the tree nor the files of entries that are not its own.
LEMMA KeptStep ==
  ASSUME FileInv, Kept, last' = last,
         \A p \in Tree \cap Target : op.pc = "alloc" \/ (p \in Target' /\ op'.pc # "alloc")
  PROVE  RootOK' /\ LastOK'
<1>0. ChainInv /\ RootOK /\ LastOK /\ SameTree
  BY DEF FileInv, Kept
<1>1. RootOK'
  <2>1. RootLive \subseteq Valid /\ DirPos \subseteq Valid
    BY <1>0, RootLiveIs, DirsAre
  <2> QED
    BY <1>0, <2>1 DEF RootOK, SameTree
<1>2. ASSUME NEW p \in Paths, last'[p] # Nothing
      PROVE  \E pos \in Tree' : Found(p, pos)' /\ (Current(p, pos)' \/ (pos \in Target' /\ op'.pc # "alloc"))
  <2>1. PICK pos \in Tree : Found(p, pos) /\ (Current(p, pos) \/ (pos \in Target /\ op.pc # "alloc"))
    BY <1>0, <1>2 DEF LastOK
  <2>2. Found(p, pos)' /\ Slot(pos)' = Slot(pos) /\ pos \in Tree'
    BY <1>0, <2>1, FoundKept
  <2>3. CASE pos \notin Target
    <3>1. /\ ChainIn(fat', Slot(pos).first) = ChainIn(fat, Slot(pos).first)
          /\ \A c \in ClustersOf(fat, Slot(pos).first) : c = Struck \/ data'[c] = data[c]
      BY <2>3 DEF Kept
    <3>2. Current(p, pos)'
      BY <2>1, <2>2, <2>3, <3>1, CurrentKept
    <3> QED
      BY <2>2, <3>2
  <2>4. CASE pos \in Target /\ op.pc # "alloc"
    BY <2>2, <2>4
  <2>5. CASE pos \in Target /\ op.pc = "alloc"
    <3>1. Target = {op.pos}
      BY <2>5 DEF Target
    <3>2. pos = op.pos /\ Live(Slot(pos))
      BY <2>5, <3>1, RootLiveIs
    <3>3. op.old = Slot(pos).first
      BY <1>0, <2>5, <3>2 DEF ChainInv, AllocOK
    <3>4. ChainIn(fat', Slot(pos).first) = ChainIn(fat, Slot(pos).first) /\ data' = data
      BY <2>5, <3>3 DEF Kept
    <3>5. Current(p, pos)'
      BY <2>1, <2>2, <2>5, <3>4, CurrentKept
    <3> QED
      BY <2>2, <3>5
  <2> QED
    BY <2>3, <2>4, <2>5
<1> QED
  BY <1>1, <1>2 DEF LastOK

LEMMA KeptPath ==
  ASSUME FileInv, SameTree,
         op'.pc \in {"zero", "dots", "link"} => op.pc \in {"zero", "dots", "link"} /\ op'.path = op.path,
         Writes' => Writes /\ Rec'.pos = Rec.pos /\ Rec'.path = Rec.path
  PROVE  NewDir' /\ PathOK'
<1>0. ChainInv /\ NewDir /\ PathOK
  BY DEF FileInv
<1>1. NewDir'
  <2>1. DirPos \subseteq Valid /\ DirPos' = DirPos
    BY <1>0, RootLiveIs, DirsAre DEF SameTree
  <2>2. \A q \in DirPos : Slot(q)' = Slot(q)
    BY <2>1 DEF SameTree
  <2> QED
    BY <1>0, <2>1, <2>2 DEF NewDir
<1>2. ASSUME Writes' PROVE PathOK'
  <2> DEFINE pos == Rec.pos
             path == Rec.path
  <2>1. Writes /\ Rec'.pos = pos /\ Rec'.path = path
    BY <1>2
  <2>2. pos \in Valid
    BY <1>0, <2>1 DEF ChainInv, PosOK
  <2>3. /\ InDir(path, pos)
        /\ \A i \in 1 .. pos[2] - 1 : Live(Slot(<<pos[1], i>>)) /\ Slot(<<pos[1], i>>).name # Name(path)
        /\ Live(Slot(pos)) => Slot(pos).name = Name(path)
    BY <1>0, <2>1 DEF PathOK
  <2>4. PICK q, w : q = pos /\ w = path
    OBVIOUS
  <2> HIDE DEF pos, path
  <2>5. q[1] \in DirFirsts \cup {0}
    BY <1>0, <2>2, <2>4, ValidIs
  <2>6. \A i : Slot(<<q[1], i>>)' = Slot(<<q[1], i>>)
    BY <2>5 DEF Slot, SameTree
  <2>7. Slot(q)' = Slot(q)
    BY <2>2, <2>4 DEF SameTree
  <2>8. InDir(w, q)'
    <3>1. DirPos \subseteq Valid
      BY <1>0, DirsAre, RootLiveIs
    <3> QED
      BY <2>3, <2>4, <3>1 DEF InDir, SameTree
  <2>9. Name(w)' = Name(w)
    BY DEF Name
  <2>10. /\ \A i \in 1 .. q[2] - 1 : Live(Slot(<<q[1], i>>)') /\ Slot(<<q[1], i>>)'.name # Name(w)
         /\ Live(Slot(q)') => Slot(q)'.name = Name(w)
    BY <2>3, <2>4, <2>6, <2>7
  <2>11. Rec'.pos = q /\ Rec'.path = w
    BY <2>1, <2>4
  <2> QED
    BY <2>8, <2>9, <2>10, <2>11 DEF PathOK, Live
<1> QED
  BY <1>1, <1>2 DEF PathOK

LEMMA FilesKept ==
  ASSUME FileInv, ChainInv', Kept, last' = last, PartsOK',
         \A p \in Tree \cap Target : op.pc = "alloc" \/ (p \in Target' /\ op'.pc # "alloc"),
         op'.pc \in {"zero", "dots", "link"} => op.pc \in {"zero", "dots", "link"} /\ op'.path = op.path,
         Writes' => Writes /\ Rec'.pos = Rec.pos /\ Rec'.path = Rec.path
  PROVE  FileInv'
<1>1. RootOK' /\ LastOK'
  BY KeptStep
<1>2. NewDir' /\ PathOK'
  BY KeptPath DEF Kept
<1> QED
  BY <1>1, <1>2 DEF FileInv

\* The parts of the file that is being written.
LEMMA PartsSame ==
  ASSUME PartsOK, Rec' = Rec, data' = data
  PROVE  PartsOK'
BY DEF PartsOK

LEMMA PartsNone ==
  ASSUME ChainInv', Rec'.pc = "data" => Rec'.size = Len(Rec'.chain)
  PROVE  PartsOK'
<1> SUFFICES ASSUME Rec'.pc = "data", NEW k \in 1 .. Len(Rec'.chain) - Rec'.size PROVE FALSE
  BY DEF PartsOK
<1>1. op' \in Ops /\ Rec' = RecOf(op')
  BY DEF ChainInv, Typed, Rec
<1>2. Rec' \in Writings({"alloc", "data"}) \/ Rec' \in Writings({"data"})
  <2>1. op'.pc = "free" => op'.then = Idle \/ op'.then \in Writings({"data"})
    BY <1>1, OpValues
  <2>2. op'.pc \in {"alloc", "data"} => op' \in Writings({"alloc", "data"})
    BY <1>1, OpKinds
  <2>3. Idle.pc = "idle"
    BY DEF Idle
  <2> QED
    BY <1>1, <2>1, <2>2, <2>3 DEF RecOf
<1>3. Rec'.size \in Int
  BY <1>2 DEF Writings
<1> QED
  BY <1>3

\* An operation that gives up before it has changed an entry.
LEMMA GivenUp ==
  ASSUME FileInv, ChainInv', UNCHANGED <<fat, root, data, last>>, op'.pc \in {"idle", "free"},
         Rec'.pc = "idle", op.pc = "alloc" \/ Tree \cap Target = {}
  PROVE  FileInv'
<1>1. Kept
  BY KeptByNone
<1>2. PartsOK' /\ ~ Writes'
  BY DEF PartsOK, Writes
<1> QED
  BY <1>1, <1>2, FilesKept

LEMMA WriteKeeps ==
  ASSUME FileInv, Prudent, NEW p \in AllPaths, NEW size \in 0 .. MaxSize, fat_write_file(p, size)
  PROVE  FileInv'
<1>0. op.pc = "idle" /\ UNCHANGED <<fat, root, data, faults, last>> /\ ChainInv /\ op \in Ops
  BY DEF fat_write_file, FileInv, ChainInv, Typed
<1>1. PICK pos \in FindSlot(p) :
        op' = [pc |-> "alloc", path |-> p, pos |-> pos, size |-> size,
               old |-> IF Slot(pos).name = Name(p) THEN Slot(pos).first ELSE 0, chain |-> <<>>]
  BY DEF fat_write_file
<1>2. /\ pos \in Valid
      /\ \A i \in 1 .. pos[2] - 1 : Live(Slot(<<pos[1], i>>)) /\ Slot(<<pos[1], i>>).name # Name(p)
      /\ Live(Slot(pos)) <=> Slot(pos).name = Name(p)
      /\ IF Len(p) = 1 THEN pos[1] = 0
         ELSE \E q \in DirPos : Slot(q).name = p[1] /\ pos[1] = Slot(q).first
  BY <1>0, PathSlot
<1>3. op'.pc = "alloc" /\ op'.path = p /\ op'.pos = pos /\ Rec' = op'
  BY <1>1 DEF Rec, RecOf
<1>4. ChainInv' /\ Kept
  BY <1>0, WriteStep, KeptByNone
<1>5. Target = {}
  BY <1>0, OpValues, TargetIs
<1>6. RootOK' /\ LastOK'
  BY <1>0, <1>4, <1>5, KeptStep
<1>7. NewDir' /\ PartsOK'
  BY <1>3 DEF NewDir, PartsOK
<1>8. PathOK'
  <2>1. \A q : Slot(q)' = Slot(q)
    BY <1>0 DEF Slot
  <2>2. DirPos' = DirPos
    BY <1>4 DEF Kept, SameTree
  <2>3. InDir(p, pos)'
    BY <1>2, <2>1, <2>2 DEF InDir
  <2> QED
    BY <1>2, <1>3, <2>1, <2>3 DEF PathOK, Live, Name
<1> QED
  BY <1>4, <1>6, <1>7, <1>8 DEF FileInv

LEMMA AllocKeeps ==
  ASSUME FileInv, Prudent, AllocStep
  PROVE  FileInv'
<1> DEFINE from == IF op.chain = <<>> THEN 2 ELSE Tail1 + 1
           c == Least(FreeFrom(from))
<1>0. op.pc = "alloc" /\ Len(op.chain) < op.size /\ UNCHANGED <<root, faults, last>> /\ ChainInv
  BY DEF AllocStep, FileInv
<1>1. CASE FreeFrom(from) = {}
  <2>1. op' = NoSpace /\ UNCHANGED <<fat, data>>
    BY <1>1 DEF AllocStep
  <2>2. ChainInv'
    BY <1>0, <2>1, FullStep
  <2>3. op'.pc = "free" /\ Rec' = Idle /\ Idle.pc = "idle"
    BY <2>1 DEF NoSpace, FreeThen, Rec, RecOf, Idle
  <2> QED
    BY <1>0, <2>1, <2>2, <2>3, GivenUp
<1>2. CASE FreeFrom(from) # {}
  <2>1. /\ op' = [op EXCEPT !.chain = Append(@, c)]
        /\ IF op.chain = <<>> THEN UNCHANGED <<fat, data>> ELSE write_fat_entry(Tail1, c)
    BY <1>2 DEF AllocStep
  <2>2. ChainInv' /\ Kept
    BY <1>0, <1>2, <2>1, GrowStep
  <2>3. op \in Writings({"alloc", "data"})
    BY <1>0, OpKinds DEF ChainInv, Typed
  <2>4. op'.pc = "alloc" /\ op'.path = op.path /\ op'.pos = op.pos
    BY <1>0, <2>1, <2>3 DEF Writings
  <2>5. Rec' = op' /\ Rec = op /\ Writes
    BY <1>0, <2>4 DEF Rec, RecOf, Writes
  <2>6. PartsOK'
    BY <2>4, <2>5 DEF PartsOK
  <2> QED
    BY <1>0, <2>2, <2>4, <2>5, <2>6, FilesKept
<1> QED
  BY <1>1, <1>2

LEMMA DoneKeeps ==
  ASSUME FileInv, AllocDone
  PROVE  FileInv'
<1>0. op.pc = "alloc" /\ last' = last /\ ChainInv /\ op' = OldFreed
  BY DEF AllocDone, FileInv
<1>1. ChainInv' /\ Kept /\ Rec' = [op EXCEPT !.pc = "data"] /\ Rec'.size = Len(Rec'.chain)
  BY <1>0, DoneStep
<1>2. PartsOK'
  BY <1>1, PartsNone
<1>3. op \in Writings({"alloc", "data"}) /\ op'.pc = "free"
  BY <1>0, OpKinds DEF ChainInv, Typed, OldFreed, FreeThen
<1>4. Rec'.pos = op.pos /\ Rec'.path = op.path /\ Rec = op /\ Writes
  BY <1>0, <1>1, <1>3 DEF Writings, Rec, RecOf, Writes
<1> QED
  BY <1>0, <1>1, <1>2, <1>3, <1>4, FilesKept

LEMMA FreeKeeps ==
  ASSUME FileInv, Prudent, fat_free_chain, Watch, ~ ruined'
  PROVE  FileInv'
<1>1. /\ ChainInv' /\ Kept /\ Rec' = Rec /\ op.pc = "free" /\ op'.pc \in {"free", "idle", "data"}
      /\ last' = last /\ Target' = Target /\ ChainInv
  BY FreeStep DEF FileInv
<1>2. PartsOK' /\ (Writes' => Writes)
  <2>1. Rec.pc = "data" => Rec.size = Len(Rec.chain)
    BY <1>1 DEF ChainInv, DataOK
  <2> QED
    BY <1>1, <2>1, PartsNone DEF Writes
<1> QED
  BY <1>1, <1>2, FilesKept

LEMMA DataKeeps ==
  ASSUME FileInv, Prudent, DataStep
  PROVE  FileInv'
<1>0. op.pc = "data" /\ op.size > 0 /\ UNCHANGED <<fat, root, last>> /\ ChainInv /\ PartsOK
  BY DEF DataStep, FileInv
<1>1. ASSUME NEW n \in Readings, data' = [data EXCEPT ![op.chain[Part]] = FilePart(op.path, Part, n)],
             op' = [op EXCEPT !.size = @ - 1], UNCHANGED faults
      PROVE  FileInv'
  <2>1. /\ ChainInv' /\ Kept
        /\ Part \in 1 .. Len(op.chain) /\ op.chain[Part] \in Clusters
        /\ op'.pc = "data" /\ op'.path = op.path /\ op'.pos = op.pos /\ op'.size = op.size - 1
        /\ op'.chain = op.chain /\ Rec = op /\ Rec' = op'
    BY <1>0, <1>1, DataWritten
  <2>2. Target = {op.pos} /\ Target' = {op'.pos} /\ Writes
    BY <1>0, <2>1 DEF Target, Writes
  <2>3. /\ op \in Writings({"alloc", "data"}) /\ op.chain \in Seq(Clusters) /\ op.size \in Int
        /\ op.size <= Len(op.chain)
    <3>1. op \in Writings({"alloc", "data"})
      BY <1>0, OpKinds DEF ChainInv, Typed
    <3>2. op.size <= Len(op.chain)
      BY <1>0, <2>1 DEF ChainInv, DataOK
    <3> QED
      BY <3>1, <3>2 DEF Writings
  <2>4. data \in [Clusters -> Content]
    BY <1>0 DEF ChainInv, Typed
  <2>5. \A i, j \in 1 .. Len(op.chain) : op.chain[i] = op.chain[j] => i = j
    <3>1. Chain(NewFirst) = op.chain
      BY <1>0, <2>1, <2>2 DEF ChainInv, WritesOK
    <3>2. Links(fat, op.chain, NewFirst)
      BY <1>0, <3>1, HeldChains DEF Proper, Chain
    <3> QED
      BY <2>3, <3>2 DEF Links
  <2>6. PartsOK'
    <3> SUFFICES ASSUME NEW k \in 1 .. Len(op.chain) - (op.size - 1)
                 PROVE  data'[op.chain[k]].owner = op.path /\ data'[op.chain[k]].part = k
      BY <2>1 DEF PartsOK
    <3>1. CASE k = Part
      <4>1. data'[op.chain[k]] = FilePart(op.path, Part, n)
        BY <1>1, <2>1, <2>4, <3>1
      <4> QED
        BY <3>1, <4>1 DEF FilePart
    <3>2. CASE k # Part
      <4>1. k \in 1 .. Len(op.chain) - op.size /\ k \in 1 .. Len(op.chain)
        <5>1. Len(op.chain) \in Nat /\ Part = Len(op.chain) - op.size + 1
          BY <2>3 DEF Part
        <5> QED
          BY <1>0, <2>3, <3>2, <5>1
      <4>2. op.chain[k] # op.chain[Part] /\ op.chain[k] \in Clusters
        <5>1. op.chain[k] \in Clusters
          BY <2>3, <4>1
        <5> QED
          BY <2>1, <2>5, <3>2, <4>1, <5>1
      <4>3. data'[op.chain[k]] = data[op.chain[k]]
        BY <1>1, <2>4, <4>2
      <4> QED
        BY <1>0, <2>1, <4>1, <4>3 DEF PartsOK
    <3> QED
      BY <3>1, <3>2
  <2> QED
    BY <1>0, <2>1, <2>2, <2>6, FilesKept
<1>2. CASE Fault("data") /\ op' = DataFails /\ UNCHANGED data
  <2>1. ChainInv'
    BY <1>0, DataStepHolds
  <2>2. op'.pc = "free" /\ Rec' = Idle /\ Idle.pc = "idle"
    BY <1>2 DEF DataFails, FreeThen, Rec, RecOf, Idle
  <2>3. Tree \cap Target = {}
    <3>1. Faults # {}
      BY <1>0, <1>2, Counted DEF ChainInv
    <3> QED
      BY <1>0, <3>1, NoneReplaced
  <2> QED
    BY <1>0, <1>2, <2>1, <2>2, <2>3, GivenUp
<1> QED
  BY <1>1, <1>2 DEF DataStep

LEMMA MkdirKeeps ==
  ASSUME FileInv, RootFits, Prudent, NEW n \in Dirs, fat_mkdir(n)
  PROVE  FileInv'
<1>0. op.pc = "idle" /\ dir_find_name(0, n) = {} /\ last' = last /\ ChainInv /\ RootOK /\ op \in Ops
  BY DEF fat_mkdir, FileInv, ChainInv, Typed
<1>1. ChainInv' /\ Kept /\ op'.pc = "zero" /\ op'.path = <<n>>
  BY <1>0, MkdirHolds
<1>2. Target = {}
  BY <1>0, OpValues, TargetIs
<1>3. RootOK' /\ LastOK'
  BY <1>0, <1>1, <1>2, KeptStep
<1>4. PartsOK' /\ PathOK'
  BY <1>1 DEF PartsOK, PathOK, Writes, Rec, RecOf
<1>5. \A q \in DirPos : Slot(q).name # n
  BY <1>0, DirFound
<1>6. NewDir'
  <2>1. DirPos' = DirPos /\ \A q \in DirPos : Slot(q)' = Slot(q)
    BY <1>0, <1>1, RootLiveIs, DirsAre DEF Kept, SameTree
  <2> QED
    BY <1>1, <1>5, <2>1 DEF NewDir
<1> QED
  BY <1>1, <1>3, <1>4, <1>6 DEF FileInv

LEMMA ZeroKeeps ==
  ASSUME FileInv, Prudent, ZeroStep
  PROVE  FileInv'
<1>0. ChainInv /\ op \in Ops
  BY DEF FileInv, ChainInv, Typed
<1>1. ChainInv' /\ Kept /\ op'.pc = "dots" /\ op'.path = op.path /\ op.pc = "zero" /\ last' = last
  BY <1>0, ZeroHolds
<1>2. Target = {}
  BY <1>0, <1>1, OpValues, TargetIs
<1>3. PartsOK' /\ ~ Writes'
  BY <1>1 DEF PartsOK, Writes, Rec, RecOf
<1> QED
  BY <1>1, <1>2, <1>3, FilesKept

LEMMA DotsKeeps ==
  ASSUME FileInv, Prudent, DotsStep
  PROVE  FileInv'
<1>0. op.pc = "dots" /\ UNCHANGED <<fat, root, last>> /\ ChainInv /\ op \in Ops
  BY DEF DotsStep, FileInv, ChainInv, Typed
<1>1. Target = {}
  BY <1>0, OpValues, TargetIs
<1>2. CASE data' = [data EXCEPT ![op.c] = Dots(@, op.c, 0)] /\ op' = [op EXCEPT !.pc = "link"] /\ UNCHANGED faults
  <2>1. ChainInv' /\ Kept /\ op'.pc = "link" /\ op'.path = op.path
    BY <1>0, <1>2, DotsWritten
  <2>2. PartsOK' /\ ~ Writes'
    BY <2>1 DEF PartsOK, Writes, Rec, RecOf
  <2> QED
    BY <1>0, <1>1, <2>1, <2>2, FilesKept
<1>3. CASE Fault("data") /\ op' = FreeThen(op.c, Idle) /\ UNCHANGED data
  <2>1. ChainInv'
    BY <1>0, DotsHolds
  <2>2. op'.pc = "free" /\ Rec' = Idle /\ Idle.pc = "idle"
    BY <1>3 DEF FreeThen, Rec, RecOf, Idle
  <2> QED
    BY <1>0, <1>1, <1>3, <2>1, <2>2, GivenUp
<1> QED
  BY <1>2, <1>3 DEF DotsStep

\* A path has one directory, and a name in a directory is one path.
LEMMA SameDir ==
  ASSUME RootOK, NEW p, NEW a, NEW b, InDir(p, a), InDir(p, b)
  PROVE  a[1] = b[1]
BY DEF InDir, RootOK

LEMMA SamePath ==
  ASSUME ChainInv, Prudent, NEW p \in Paths, NEW r \in Paths, NEW a, NEW b, a[1] = b[1],
         InDir(p, a), InDir(r, b), Name(p) = Name(r)
  PROVE  p = r
<1>1. \A w \in Paths : /\ Len(w) \in {1, 2} /\ (Len(w) = 1 => w = <<Name(w)>>)
                       /\ Len(w) = 2 => w = <<w[1], Name(w)>>
  BY PathNames DEF AllPaths
<1>2. \A q \in DirPos : Slot(q).first # 0
  BY DirsAre, Numbers
<1>3. \A q, u \in DirPos : Slot(q).first = Slot(u).first => q = u
  BY DirsAre
<1>4. CASE Len(p) = 1
  <2>1. a[1] = 0
    BY <1>4 DEF InDir
  <2>2. Len(r) = 1
    BY <1>1, <1>2, <2>1 DEF InDir
  <2> QED
    BY <1>1, <1>4, <2>2
<1>5. CASE Len(p) = 2
  <2>1. PICK q \in DirPos : Slot(q).name = p[1] /\ a[1] = Slot(q).first
    BY <1>5 DEF InDir
  <2>2. Len(r) = 2
    BY <1>1, <1>2, <2>1 DEF InDir
  <2>3. PICK u \in DirPos : Slot(u).name = r[1] /\ b[1] = Slot(u).first
    BY <2>2 DEF InDir
  <2>4. q = u
    BY <1>3, <2>1, <2>3
  <2> QED
    BY <1>1, <1>5, <2>1, <2>2, <2>3, <2>4
<1> QED
  BY <1>1, <1>4, <1>5

\* A file is found as before if an entry is written that does not hide it.
LEMMA FoundAfter ==
  ASSUME ChainInv, NEW p, NEW pos, NEW w \in Tree, w # pos, Found(p, w),
         \A q \in AllPos : q # pos => Slot(q)' = Slot(q),
         \A q \in DirPos : w[1] = Slot(q).first =>
           q \in DirPos' /\ Slot(q)'.name = Slot(q).name /\ Slot(q)'.first = Slot(q).first,
         Slot(pos)' # End,
         \A i \in 1 .. w[2] - 1 : <<w[1], i>> = pos => Slot(pos)'.name # Name(p)
  PROVE  Found(p, w)' /\ Slot(w)' = Slot(w)
<1>1. w \in Valid /\ w \in AllPos
  BY RootLiveIs, DirsAre
<1>2. Slot(w)' = Slot(w)
  BY <1>1
<1>3. \A i \in 1 .. w[2] - 1 : <<w[1], i>> \in AllPos
  <2>1. /\ w[1] \in DirFirsts \cup {0} /\ w[2] \in Nat
        /\ w[1] # 0 => w[1] \in Clusters /\ w[2] \in 3 .. PerCluster
        /\ w[1] = 0 => w[2] \in 1 .. RootSlots
    BY <1>1, ValidIs
  <2>2. RootSlots \in Nat /\ PerCluster \in Nat
    BY FatAssumption
  <2> QED
    BY <2>1, <2>2 DEF AllPos, RootPos
<1>4. ASSUME NEW i \in 1 .. w[2] - 1
      PROVE  Slot(<<w[1], i>>)' # End /\ Slot(<<w[1], i>>)'.name # Name(p)
  <2>1. Slot(<<w[1], i>>) # End /\ Slot(<<w[1], i>>).name # Name(p)
    BY DEF Found
  <2>2. CASE <<w[1], i>> = pos
    BY <2>2
  <2>3. CASE <<w[1], i>> # pos
    <3>1. Slot(<<w[1], i>>)' = Slot(<<w[1], i>>)
      BY <1>3, <2>3
    <3> QED
      BY <2>1, <3>1
  <2> QED
    BY <2>2, <2>3
<1>5. InDir(p, w)'
  <2>1. InDir(p, w)
    BY DEF Found
  <2> QED
    BY <2>1 DEF InDir
<1>6. Name(p)' = Name(p)
  BY DEF Name
<1> QED
  BY <1>2, <1>4, <1>5, <1>6 DEF Found

LEMMA CurrentAfter ==
  ASSUME ChainInv, NEW p, NEW w \in Tree \ Target, Current(p, w), Slot(w)' = Slot(w), fat' = fat,
         last'[p] = last[p],
         \A c \in Clusters : data'[c].owner = data[c].owner /\ data'[c].part = data[c].part
  PROVE  Current(p, w)'
<1> DEFINE s == ChainIn(fat, Slot(w).first)
<1>1. \A k \in DOMAIN s : s[k] \in Clusters
  <2>1. Proper(fat, Slot(w).first)
    BY HeldChains
  <2>2. s \in Seq(Clusters)
    BY <2>1, ProperIs
  <2> QED
    BY <2>2
<1>2. /\ Slot(w).size = last[p].size /\ Slot(w).mode = last[p].mode
      /\ Len(s) = Slot(w).size
      /\ \A k \in DOMAIN s : s[k] = Struck \/ (data[s[k]].owner = p /\ data[s[k]].part = k)
  BY DEF Current
<1>3. ChainIn(fat, Slot(w).first)' = s
  OBVIOUS
<1> HIDE DEF s
<1> QED
  BY <1>1, <1>2, <1>3 DEF Current

\* The root after an entry was written to it.
LEMMA RootAfter ==
  ASSUME ChainInv, RootOK, NEW pos \in Valid,
         \A q \in AllPos : q # pos => Slot(q)' = Slot(q),
         Slot(pos)' # End, \A i \in 1 .. pos[2] - 1 : Slot(<<pos[1], i>>) # End,
         pos \in RootLive' => Slot(pos)'.name \in IF Slot(pos)'.dir THEN Dirs ELSE Files,
         \A p, q \in DirPos' : Slot(p)'.name = Slot(q)'.name => p = q
  PROVE  RootOK'
<1>0. RootSlots \in Nat
  BY FatAssumption
<1>1. \A i \in 1 .. RootSlots : <<0, i>> \in RootPos /\ <<0, i>> \in AllPos
  BY DEF RootPos, AllPos
<1>2. \A i : Slot(<<0, i>>) = root[i] /\ Slot(<<0, i>>)' = root'[i]
  BY DEF Slot
<1>3. ASSUME NEW i \in 1 .. RootSlots, NEW j \in 1 .. RootSlots, i < j, root'[i] = End
      PROVE  root'[j] = End
  <2>1. <<0, i>> # pos
    BY <1>2, <1>3
  <2>2. root[i] = End
    BY <1>1, <1>2, <1>3, <2>1
  <2>3. root[j] = End
    BY <1>3, <2>2 DEF RootOK
  <2>4. <<0, j>> # pos
    <3> SUFFICES ASSUME <<0, j>> = pos PROVE FALSE
      OBVIOUS
    <3>1. pos[1] = 0 /\ pos[2] = j
      BY DEF Slot
    <3>2. i \in 1 .. pos[2] - 1
      BY <1>3, <3>1
    <3> QED
      BY <1>2, <2>2, <3>1, <3>2
  <2> QED
    BY <1>1, <1>2, <2>3, <2>4
<1>4. ASSUME NEW p \in RootLive' PROVE Slot(p)'.name \in IF Slot(p)'.dir THEN Dirs ELSE Files
  <2>1. CASE p = pos
    BY <2>1
  <2>2. CASE p # pos
    <3>1. p \in RootPos /\ p \in AllPos /\ Live(Slot(p)')
      BY DEF RootLive, RootPos, AllPos, Live
    <3>2. Slot(p)' = Slot(p) /\ p \in RootLive
      BY <2>2, <3>1, RootLiveIs
    <3> QED
      BY <3>2 DEF RootOK
  <2> QED
    BY <2>1, <2>2
<1> QED
  BY <1>3, <1>4 DEF RootOK

\* Nothing is in progress afterwards, but for a chain to be freed.
LEMMA NoWriting ==
  ASSUME op'.pc \in {"idle", "free"}, Rec'.pc = "idle"
  PROVE  NewDir' /\ PathOK' /\ PartsOK'
BY DEF NewDir, PathOK, PartsOK, Writes

LEMMA LinkKeeps ==
  ASSUME FileInv, Prudent, LinkStep
  PROVE  FileInv'
<1>0. /\ op.pc = "link" /\ fat' = fat /\ last' = last /\ ChainInv' /\ ChainInv /\ RootOK /\ NewDir
      /\ LastOK /\ Idle.pc = "idle"
  BY LinkHolds DEF FileInv, LinkStep, Idle
<1>1. Target = {}
  BY <1>0, Made DEF ChainInv
<1>2. CASE op' = LinkFails /\ UNCHANGED <<root, data>>
  <2>1. op'.pc = "free" /\ Rec' = Idle
    BY <1>2 DEF LinkFails, FreeThen, Rec, RecOf
  <2> QED
    BY <1>0, <1>1, <1>2, <2>1, GivenUp
<1>3. ASSUME NEW pos \in dir_find_slot(0, Name(op.path)), Slot(pos).name # Name(op.path),
             WriteSlot(pos, Entry(Name(op.path), TRUE, op.c, 0, 0)), op' = Idle, UNCHANGED faults
      PROVE  FileInv'
  <2>0. \E n \in Dirs : op.path = <<n>>
    BY <1>0, Made DEF ChainInv
  <2>1. PICK n \in Dirs : op.path = <<n>> /\ Name(op.path) = n
    BY <2>0 DEF Name
  <2>2. /\ pos \in Valid /\ pos[1] = 0 /\ ~ Live(Slot(pos))
        /\ \A i \in 1 .. pos[2] - 1 : Live(Slot(<<0, i>>))
    BY <1>0, <1>3, <2>1, SlotFound
  <2>3. pos \in RootPos
    BY <1>0, <2>2, DirsAre, Numbers DEF Valid
  <2>4. /\ data' = data
        /\ \A q \in AllPos : q # pos => Slot(q)' = Slot(q)
        /\ DirPos' = DirPos \cup {pos} /\ pos \notin DirPos
        /\ \A q : q # pos => (q \in Tree' <=> q \in Tree)
        /\ Live(Slot(pos)') /\ Slot(pos)'.dir /\ Slot(pos)'.name = n /\ op.path[1] = n
    BY <1>0, <1>3, <2>1, <2>2, <2>3, Linked
  <2>5. Slot(pos)' # End
    BY <2>4 DEF Live
  <2>6. \A q \in DirPos : q # pos /\ Slot(q)' = Slot(q)
    BY <1>0, <2>4, DirsAre, RootLiveIs
  <2>7. RootOK'
    <3>1. \A p, q \in DirPos' : Slot(p)'.name = Slot(q)'.name => p = q
      BY <1>0, <2>4, <2>6 DEF RootOK, NewDir
    <3>2. \A i \in 1 .. pos[2] - 1 : Slot(<<pos[1], i>>) # End
      BY <2>2, EntryTypes
    <3> QED
      BY <1>0, <2>2, <2>4, <2>5, <3>1, <3>2, RootAfter
  <2>8. LastOK'
    <3> SUFFICES ASSUME NEW p \in Paths, last[p] # Nothing
                 PROVE  \E w \in Tree' : Found(p, w)' /\ Current(p, w)'
      BY <1>0 DEF LastOK
    <3>1. PICK w \in Tree : Found(p, w) /\ Current(p, w)
      BY <1>0, <1>1 DEF LastOK
    <3>2. w # pos /\ w \in Tree'
      BY <2>2, <2>4, RootLiveIs
    <3>3. n # Name(p)
      BY PathNames DEF AllPaths, Prudent
    <3>4. Found(p, w)' /\ Slot(w)' = Slot(w)
      BY <1>0, <2>4, <2>5, <2>6, <3>1, <3>2, <3>3, FoundAfter
    <3>5. Current(p, w)'
      BY <1>0, <1>1, <2>4, <3>1, <3>4, CurrentAfter
    <3> QED
      BY <3>2, <3>4, <3>5
  <2>9. op'.pc = "idle" /\ Rec'.pc = "idle"
    BY <1>0, <1>3 DEF Rec, RecOf
  <2> QED
    BY <1>0, <2>7, <2>8, <2>9, NoWriting DEF FileInv
<1> QED
  BY <1>2, <1>3 DEF LinkStep

LEMMA EntryKeeps ==
  ASSUME FileInv, Prudent, EntryStep
  PROVE  FileInv'
<1>0. /\ op.pc = "data" /\ op.size = 0 /\ op' = Idle /\ fat' = fat /\ ChainInv /\ ChainInv'
      /\ RootOK /\ PathOK /\ PartsOK /\ LastOK /\ Idle.pc = "idle" /\ Typed
  BY EntryStepHolds DEF FileInv, ChainInv, EntryStep, Idle
<1>a. op'.pc = "idle" /\ Rec'.pc = "idle"
  BY <1>0 DEF Rec, RecOf
<1>1. CASE Fault("entry") /\ UNCHANGED <<root, data, last>>
  <2>1. Faults # {}
    BY <1>0, <1>1, Counted
  <2>2. Tree \cap Target = {}
    BY <1>0, <2>1, NoneReplaced
  <2> QED
    BY <1>0, <1>a, <1>1, <2>2, GivenUp
<1>2. CASE /\ WriteSlot(op.pos, NewEntry) /\ UNCHANGED faults
           /\ last' = IF op.path \in Paths
                      THEN [last EXCEPT ![op.path] = [size |-> Len(op.chain), mode |-> 0]] ELSE last
  <2>0. PICK pos, path : pos = op.pos /\ path = op.path
    OBVIOUS
  <2>1. last' \in [Paths -> [size : Int, mode : Modes \cup {0}]]
    BY <1>0 DEF ChainInv, Typed
  <2>2. /\ NewEntry \in Ent /\ Live(NewEntry) /\ pos \in Valid /\ path \in Paths
        /\ NewEntry.name = Name(path) /\ ~ NewEntry.dir /\ Valid' = Valid /\ DirPos' = DirPos
        /\ \A q : q # pos => (q \in Tree' <=> q \in Tree)
        /\ pos \in Tree' /\ Target = {pos} /\ Rec = op
        /\ NewEntry.first = NewFirst /\ ChainIn(fat, NewFirst) = op.chain
    BY <1>0, <1>2, <2>0, <2>1, EntryWritten
  <2>3. /\ Slot(pos)' = NewEntry
        /\ \A q \in AllPos : q # pos => Slot(q)' = Slot(q)
        /\ \A c \in Clusters : data'[c].owner = data[c].owner /\ data'[c].part = data[c].part
    BY <1>0, <1>2, <2>0, <2>2, SlotWrite
  <2>4. /\ InDir(path, pos)
        /\ \A i \in 1 .. pos[2] - 1 : Live(Slot(<<pos[1], i>>)) /\ Slot(<<pos[1], i>>).name # Name(path)
        /\ Live(Slot(pos)) => Slot(pos).name = Name(path)
    BY <1>0, <2>0, <2>2 DEF PathOK, Writes
  <2>5. Slot(pos)' # End
    BY <2>2, <2>3 DEF Live
  <2>6. \A q \in DirPos : q # pos /\ q \in AllPos /\ Slot(q)' = Slot(q)
    BY <1>0, <2>2, <2>3, DirsAre, RootLiveIs
  <2>7. RootOK'
    <3>1. Name(path) \in Files
      BY <2>2, PathNames DEF AllPaths
    <3>2. \A p, q \in DirPos' : Slot(p)'.name = Slot(q)'.name => p = q
      BY <1>0, <2>2, <2>6 DEF RootOK
    <3>3. \A i \in 1 .. pos[2] - 1 : Slot(<<pos[1], i>>) # End
      BY <2>4, EntryTypes
    <3> QED
      BY <1>0, <2>2, <2>3, <2>5, <3>1, <3>2, <3>3, RootAfter
  <2>8. /\ op.chain \in Seq(Clusters) /\ Len(op.chain) \in Nat
        /\ NewEntry.size = Len(op.chain) /\ NewEntry.mode = 0
    BY <1>0, Taken DEF NewEntry, Entry
  <2>9. /\ last' = [last EXCEPT ![path] = [size |-> Len(op.chain), mode |-> 0]]
        /\ DOMAIN last = Paths
    BY <1>0, <1>2, <2>0, <2>2 DEF Typed
  <2>10. Found(path, pos)' /\ Current(path, pos)'
    <3>1. \A i \in 1 .. pos[2] - 1 : Slot(<<pos[1], i>>)' = Slot(<<pos[1], i>>)
      <4>1. /\ pos = <<pos[1], pos[2]>> /\ pos[1] \in DirFirsts \cup {0} /\ pos[2] \in Nat
            /\ pos[1] # 0 => pos[1] \in Clusters /\ pos[2] \in 3 .. PerCluster
            /\ pos[1] = 0 => pos[2] \in 1 .. RootSlots
        BY <1>0, <2>2, ValidIs
      <4>2. RootSlots \in Nat /\ PerCluster \in Nat
        BY FatAssumption
      <4>3. ASSUME NEW i \in 1 .. pos[2] - 1 PROVE <<pos[1], i>> \in AllPos /\ <<pos[1], i>> # pos
        <5>1. <<pos[1], i>>[2] = i /\ i # pos[2]
          BY <4>1
        <5>2. <<pos[1], i>> \in AllPos
          BY <4>1, <4>2 DEF AllPos, RootPos
        <5> QED
          BY <5>1, <5>2
      <4> QED
        BY <2>3, <4>3
    <3>2. InDir(path, pos)'
      BY <2>2, <2>4, <2>6 DEF InDir
    <3>3. Name(path)' = Name(path)
      BY DEF Name
    <3>4. Found(path, pos)'
      BY <2>2, <2>3, <2>4, <3>1, <3>2, <3>3, EntryTypes DEF Found
    <3>5. last'[path] = [size |-> Len(op.chain), mode |-> 0]
      BY <2>2, <2>9
    <3>6. ChainIn(fat, Slot(pos).first)' = op.chain
      BY <1>0, <2>2, <2>3
    <3>7. \A k \in DOMAIN op.chain : data'[op.chain[k]].owner = path /\ data'[op.chain[k]].part = k
      <4> SUFFICES ASSUME NEW k \in DOMAIN op.chain
                   PROVE  data'[op.chain[k]].owner = path /\ data'[op.chain[k]].part = k
        OBVIOUS
      <4>1. op.chain[k] \in Clusters /\ k \in 1 .. Len(op.chain)
        BY <2>8
      <4>2. k \in 1 .. Len(op.chain) - op.size
        BY <1>0, <2>8, <4>1
      <4>3. data[op.chain[k]].owner = path /\ data[op.chain[k]].part = k
        BY <1>0, <2>0, <2>2, <4>2 DEF PartsOK
      <4> QED
        BY <2>3, <4>1, <4>3
    <3>8. PICK s : s = op.chain
      OBVIOUS
    <3>9. Slot(pos)'.size = last'[path].size /\ Slot(pos)'.mode = last'[path].mode /\ Len(s) = Slot(pos)'.size
      BY <2>3, <2>8, <3>5, <3>8
    <3>10. Current(path, pos)'
      BY <3>6, <3>7, <3>8, <3>9 DEF Current
    <3> QED
      BY <3>4, <3>10
  <2>11. ASSUME NEW p \in Paths, p # path, last'[p] # Nothing
         PROVE  \E w \in Tree' : Found(p, w)' /\ Current(p, w)'
    <3>1. last'[p] = last[p]
      BY <2>9, <2>11
    <3>2. PICK w \in Tree : Found(p, w) /\ (Current(p, w) \/ w \in Target)
      BY <1>0, <2>11, <3>1 DEF LastOK
    <3>3. InDir(p, w) /\ Slot(w).name = Name(p) /\ Live(Slot(w))
      BY <3>2, RootLiveIs DEF Found
    <3>4. w[1] = pos[1] => Name(p) # Name(path)
      BY <1>0, <2>2, <2>4, <2>11, <3>3, SamePath
    <3>5. w # pos /\ w \in Tree'
      BY <2>2, <2>4, <3>3, <3>4
    <3>6. Current(p, w) /\ w \in Tree \ Target
      BY <2>2, <3>2, <3>5
    <3>7. \A i \in 1 .. w[2] - 1 : <<w[1], i>> = pos => Slot(pos)'.name # Name(p)
      BY <2>2, <2>3, <3>4
    <3>8. Found(p, w)' /\ Slot(w)' = Slot(w)
      BY <1>0, <2>2, <2>3, <2>5, <2>6, <3>2, <3>5, <3>7, FoundAfter
    <3>9. Current(p, w)'
      BY <1>0, <2>3, <3>1, <3>6, <3>8, CurrentAfter
    <3> QED
      BY <3>5, <3>8, <3>9
  <2>12. LastOK'
    BY <2>2, <2>10, <2>11 DEF LastOK
  <2> QED
    BY <1>0, <1>a, <2>7, <2>12, NoWriting DEF FileInv
<1> QED
  BY <1>1, <1>2 DEF EntryStep

LEMMA DeleteKeeps ==
  ASSUME FileInv, Prudent, NEW p \in Paths \cup {<<n>> : n \in Dirs}, fat_delete_file(p)
  PROVE  FileInv'
<1>0. /\ op.pc = "idle" /\ op \in Ops /\ fat' = fat /\ ChainInv /\ ChainInv' /\ RootOK /\ LastOK
      /\ Idle.pc = "idle" /\ Typed
  BY DeleteHolds DEF FileInv, ChainInv, Typed, fat_delete_file, Idle
<1>a. p \in AllPaths \cup {<<n>> : n \in Dirs}
  BY DEF AllPaths
<1>b. Target = {}
  BY <1>0, OpValues, TargetIs
<1>1. PICK pos \in FindSlot(p) :
        /\ Slot(pos).name = Name(p)
        /\ (Slot(pos).dir /\ Slot(pos).first >= 2) => EmptyDir(Slot(pos).first)
        /\ \/ /\ WriteSlot(pos, Deleted)
              /\ op' = ChainOf(Slot(pos))
              /\ last' = IF p \in Paths THEN [last EXCEPT ![p] = Nothing] ELSE last
              /\ UNCHANGED faults
           \/ Fault("entry") /\ UNCHANGED <<root, data, op, last>>
  BY DEF fat_delete_file
<1>2. CASE Fault("entry") /\ UNCHANGED <<root, data, op, last>>
  <2>1. op'.pc = "idle" /\ Rec'.pc = "idle"
    BY <1>0, <1>2 DEF Rec, RecOf
  <2> QED
    BY <1>0, <1>b, <1>2, <2>1, GivenUp
<1>3. CASE /\ WriteSlot(pos, Deleted) /\ op' = ChainOf(Slot(pos))
           /\ last' = IF p \in Paths THEN [last EXCEPT ![p] = Nothing] ELSE last
  <2>1. /\ pos \in Tree /\ pos \notin Tree' /\ DirFirsts' \subseteq Clusters
        /\ \A q : q # pos => (q \in Tree' <=> q \in Tree)
        /\ DirPos' = DirPos \ {pos}
        /\ Slot(pos) \in Ent /\ Live(Slot(pos)) /\ pos \in Valid /\ Slot(pos)' = Deleted
        /\ \A q \in AllPos : q # pos => Slot(q)' = Slot(q)
        /\ \A c \in Clusters : data'[c].owner = data[c].owner /\ data'[c].part = data[c].part
    BY <1>0, <1>a, <1>1, <1>3, EntryGone
  <2>2. /\ \A i \in 1 .. pos[2] - 1 : Live(Slot(<<pos[1], i>>))
        /\ IF Len(p) = 1 THEN pos[1] = 0
           ELSE \E q \in DirPos : Slot(q).name = p[1] /\ pos[1] = Slot(q).first
    BY <1>0, <1>a, PathSlot
  <2>3. InDir(p, pos)
    BY <2>2 DEF InDir
  <2>4. Slot(pos)' # End /\ ~ Live(Slot(pos)') /\ Slot(pos)'.name = "deleted"
    BY <2>1, EntryTypes
  <2>5. \A q \in DirPos' : q \in DirPos /\ q # pos /\ Slot(q)' = Slot(q)
    BY <1>0, <2>1, DirsAre, RootLiveIs
  <2>6. RootOK'
    <3>1. \A r, q \in DirPos' : Slot(r)'.name = Slot(q)'.name => r = q
      BY <1>0, <2>5 DEF RootOK
    <3>2. \A i \in 1 .. pos[2] - 1 : Slot(<<pos[1], i>>) # End
      BY <2>2, EntryTypes
    <3>3. pos \notin RootLive'
      BY <2>4 DEF RootLive, Live
    <3> QED
      BY <1>0, <2>1, <2>4, <3>1, <3>2, <3>3, RootAfter
  <2>7. LastOK'
    <3> SUFFICES ASSUME NEW r \in Paths, last'[r] # Nothing
                 PROVE  \E w \in Tree' : Found(r, w)' /\ Current(r, w)'
      BY DEF LastOK
    <3>1. DOMAIN last = Paths
      BY <1>0 DEF Typed
    <3>2. last'[r] = last[r] /\ (p \in Paths => r # p)
      BY <1>3, <3>1
    <3>3. PICK w \in Tree : Found(r, w) /\ Current(r, w)
      BY <1>0, <1>b, <3>2 DEF LastOK
    <3>4. Name(r) \in Files /\ Name(r) # "deleted"
      BY PathNames DEF AllPaths, Prudent, Reserved
    <3>5. w # pos
      <4> SUFFICES ASSUME w = pos PROVE FALSE
        OBVIOUS
      <4>1. InDir(r, pos) /\ Name(r) = Name(p)
        BY <1>1, <3>3 DEF Found
      <4>2. CASE p \in Paths
        BY <1>0, <2>3, <3>2, <4>1, <4>2, SamePath
      <4>3. CASE p \in {<<n>> : n \in Dirs}
        <5>1. Name(p) \in Dirs
          BY <4>3 DEF Name
        <5> QED
          BY <3>4, <4>1, <5>1 DEF Prudent
      <4> QED
        BY <4>2, <4>3
    <3>6. w \in Tree' /\ w \in Valid'
      BY <2>1, <3>5 DEF Tree
    <3>7. ASSUME NEW q \in DirPos, w[1] = Slot(q).first
          PROVE  q \in DirPos' /\ Slot(q)' = Slot(q)
      <4>1. w[1] # 0
        BY <1>0, <3>7, DirsAre, Numbers
      <4>2. w[1] \in DirFirsts'
        BY <3>6, <4>1 DEF Valid, RootPos
      <4>3. PICK u \in DirPos' : Slot(u)'.first = w[1]
        BY <4>2 DEF DirFirsts
      <4>4. u \in DirPos /\ Slot(u).first = Slot(q).first
        BY <2>5, <3>7, <4>3
      <4>5. u = q
        BY <1>0, <4>4, DirsAre
      <4> QED
        BY <2>5, <4>3, <4>5
    <3>8. Found(r, w)' /\ Slot(w)' = Slot(w)
      <4>1. Slot(pos)'.name # Name(r)
        BY <2>4, <3>4
      <4>2. \A q \in DirPos : w[1] = Slot(q).first =>
              q \in DirPos' /\ Slot(q)'.name = Slot(q).name /\ Slot(q)'.first = Slot(q).first
        BY <3>7
      <4> QED
        BY <1>0, <2>1, <2>4, <3>3, <3>5, <4>1, <4>2, FoundAfter
    <3>9. Current(r, w)'
      BY <1>0, <1>b, <2>1, <3>2, <3>3, <3>8, CurrentAfter
    <3> QED
      BY <3>6, <3>8, <3>9
  <2>8. op'.pc = "free" /\ Rec'.pc = "idle"
    BY <1>0, <1>3 DEF ChainOf, FreeThen, Rec, RecOf
  <2> QED
    BY <1>0, <2>6, <2>7, <2>8, NoWriting DEF FileInv
<1> QED
  BY <1>1, <1>2, <1>3

LEMMA ModeKeeps ==
  ASSUME FileInv, Prudent, NEW p \in Paths, NEW m \in Modes, fat_set_file_meta(p, m)
  PROVE  FileInv'
<1>0. /\ op.pc = "idle" /\ op \in Ops /\ fat' = fat /\ op' = op /\ ChainInv /\ ChainInv' /\ RootOK /\ LastOK
      /\ Typed
  BY SetModeHolds DEF FileInv, ChainInv, Typed, fat_set_file_meta
<1>a. Target = {}
  BY <1>0, OpValues, TargetIs
<1>b. op'.pc = "idle" /\ Rec'.pc = "idle"
  BY <1>0 DEF Rec, RecOf
<1>1. PICK pos \in FindSlot(p) :
        /\ Slot(pos).name = Name(p)
        /\ \/ /\ WriteSlot(pos, [Slot(pos) EXCEPT !.mode = m])
              /\ last' = IF last[p] = Nothing THEN last ELSE [last EXCEPT ![p].mode = m]
              /\ UNCHANGED faults
           \/ Fault("entry") /\ UNCHANGED <<root, data, last>>
  BY DEF fat_set_file_meta
<1>2. CASE Fault("entry") /\ UNCHANGED <<root, data, last>>
  BY <1>0, <1>a, <1>b, <1>2, GivenUp
<1>3. CASE /\ WriteSlot(pos, [Slot(pos) EXCEPT !.mode = m])
           /\ last' = IF last[p] = Nothing THEN last ELSE [last EXCEPT ![p].mode = m]
  <2>1. /\ pos \in Tree /\ DirPos' = DirPos /\ Valid' = Valid /\ Tree' = Tree
        /\ Slot(pos) \in Ent /\ pos \in Valid
        /\ Slot(pos)' = [Slot(pos) EXCEPT !.mode = m]
        /\ \A q \in AllPos : q # pos => Slot(q)' = Slot(q)
        /\ \A c \in Clusters : data'[c].owner = data[c].owner /\ data'[c].part = data[c].part
    BY <1>0, <1>1, <1>3, ModeWritten
  <2>2. /\ \A i \in 1 .. pos[2] - 1 : Live(Slot(<<pos[1], i>>)) /\ Slot(<<pos[1], i>>).name # Name(p)
        /\ IF Len(p) = 1 THEN pos[1] = 0
           ELSE \E q \in DirPos : Slot(q).name = p[1] /\ pos[1] = Slot(q).first
    BY <1>0, PathSlot DEF AllPaths
  <2>3. InDir(p, pos)
    BY <2>2 DEF InDir
  <2>4. /\ Slot(pos)'.name = Slot(pos).name /\ Slot(pos)'.dir = Slot(pos).dir
        /\ Slot(pos)'.first = Slot(pos).first /\ Slot(pos)'.size = Slot(pos).size
        /\ Slot(pos)'.mode = m
    BY <2>1 DEF Ent
  <2>5. Name(p) \in Files /\ Name(p) # "end"
    BY PathNames DEF AllPaths, Prudent, Reserved
  <2>6. Slot(pos)' # End
    BY <1>1, <2>4, <2>5, EntryTypes
  <2>7. \A q \in DirPos : q \in AllPos /\ Slot(q)'.name = Slot(q).name /\ Slot(q)'.first = Slot(q).first
    <3>1. \A q \in DirPos : q \in AllPos
      BY <1>0, DirsAre, RootLiveIs
    <3> QED
      BY <2>1, <2>4, <3>1
  <2>8. RootOK'
    <3>1. \A r, q \in DirPos' : Slot(r)'.name = Slot(q)'.name => r = q
      BY <1>0, <2>1, <2>7 DEF RootOK
    <3>2. \A i \in 1 .. pos[2] - 1 : Slot(<<pos[1], i>>) # End
      BY <2>2, EntryTypes
    <3>3. ASSUME pos \in RootLive' PROVE Slot(pos)'.name \in IF Slot(pos)'.dir THEN Dirs ELSE Files
      <4>1. pos \in RootLive
        BY <2>1, <3>3, RootLiveIs DEF RootLive, RootPos
      <4> QED
        BY <1>0, <2>4, <4>1 DEF RootOK
    <3> QED
      BY <1>0, <2>1, <2>6, <3>1, <3>2, <3>3, RootAfter
  <2>9. ASSUME NEW r \in Paths, last'[r] # Nothing
        PROVE  \E w \in Tree' : Found(r, w)' /\ Current(r, w)'
    <3>1. last \in [Paths -> [size : Int, mode : Modes \cup {0}]]
      BY <1>0 DEF Typed
    <3>2. last[r] # Nothing /\ (r # p => last'[r] = last[r])
      BY <1>3, <2>9, <3>1
    <3>3. PICK w \in Tree : Found(r, w) /\ Current(r, w)
      BY <1>0, <1>a, <3>2 DEF LastOK
    <3>4. InDir(r, w) /\ Slot(w).name = Name(r)
      BY <3>3 DEF Found
    <3>5. CASE w # pos
      <4>1. r # p
        <5> SUFFICES ASSUME r = p PROVE FALSE
          OBVIOUS
        <5>1. w[1] = pos[1]
          BY <1>0, <2>3, <3>4, SameDir
        <5>2. w = <<w[1], w[2]>> /\ w[2] \in Nat /\ pos = <<pos[1], pos[2]>> /\ pos[2] \in Nat
          BY <1>0, <2>1, RootLiveIs, ValidIs
        <5>3. w[2] >= 1 /\ pos[2] >= 1
          <6>1. \A u \in Valid : u[2] >= 1
            <7>1. \A u \in Valid : u[2] \in 3 .. PerCluster \/ u[2] \in 1 .. RootSlots
              BY <1>0, ValidIs
            <7> QED
              BY <7>1, FatAssumption
          <6> QED
            BY <2>1, <6>1, RootLiveIs
        <5>4. w[2] # pos[2]
          BY <3>5, <5>1, <5>2
        <5>5. CASE w[2] < pos[2]
          <6>1. w[2] \in 1 .. pos[2] - 1
            BY <5>2, <5>3, <5>5
          <6> QED
            BY <2>2, <3>4, <5>1, <5>2, <6>1
        <5>6. CASE pos[2] < w[2]
          <6>1. pos[2] \in 1 .. w[2] - 1
            BY <5>2, <5>3, <5>6
          <6>2. Slot(<<w[1], pos[2]>>).name # Name(p)
            BY <3>3, <6>1 DEF Found
          <6> QED
            BY <1>1, <5>1, <5>2, <6>2
        <5> QED
          BY <5>2, <5>4, <5>5, <5>6
      <4>2. \A i \in 1 .. w[2] - 1 : <<w[1], i>> = pos => Slot(pos)'.name # Name(r)
        BY <2>4, <3>3 DEF Found
      <4>3. Found(r, w)' /\ Slot(w)' = Slot(w)
        <5>1. \A q \in DirPos : w[1] = Slot(q).first =>
                q \in DirPos' /\ Slot(q)'.name = Slot(q).name /\ Slot(q)'.first = Slot(q).first
          BY <2>1, <2>7
        <5>2. \A q \in AllPos : q # pos => Slot(q)' = Slot(q)
          BY <2>1
        <5> QED
          BY <1>0, <2>6, <3>3, <3>5, <4>2, <5>1, <5>2, FoundAfter
      <4>4. Current(r, w)'
        BY <1>0, <1>a, <2>1, <3>2, <3>3, <4>1, <4>3, CurrentAfter
      <4> QED
        BY <2>1, <4>3, <4>4
    <3>6. CASE w = pos
      <4>1. r = p
        BY <1>0, <1>1, <2>3, <3>4, <3>6, SamePath
      <4>2. Found(p, pos) /\ Current(p, pos)
        BY <3>3, <3>6, <4>1
      <4>3. \A i \in 1 .. pos[2] - 1 : Slot(<<pos[1], i>>)' = Slot(<<pos[1], i>>)
        <5>1. /\ pos = <<pos[1], pos[2]>> /\ pos[1] \in DirFirsts \cup {0} /\ pos[2] \in Nat
              /\ pos[1] # 0 => pos[1] \in Clusters /\ pos[2] \in 3 .. PerCluster
              /\ pos[1] = 0 => pos[2] \in 1 .. RootSlots
          BY <1>0, <2>1, ValidIs
        <5>2. RootSlots \in Nat /\ PerCluster \in Nat
          BY FatAssumption
        <5>3. ASSUME NEW i \in 1 .. pos[2] - 1 PROVE <<pos[1], i>> \in AllPos /\ <<pos[1], i>> # pos
          <6>1. <<pos[1], i>>[2] = i /\ i # pos[2]
            BY <5>1
          <6>2. <<pos[1], i>> \in AllPos
            BY <5>1, <5>2 DEF AllPos, RootPos
          <6> QED
            BY <6>1, <6>2
        <5> QED
          BY <2>1, <5>3
      <4>4. Name(p)' = Name(p)
        BY DEF Name
      <4>5. InDir(p, pos)'
        BY <2>1, <2>3, <2>7 DEF InDir
      <4>6. Found(p, pos)'
        BY <2>4, <4>2, <4>3, <4>4, <4>5 DEF Found
      <4>7. last'[p].size = last[p].size /\ last'[p].mode = m
        BY <1>3, <3>1, <3>2, <4>1
      <4>8. Current(p, pos)'
        <5> DEFINE s == ChainIn(fat, Slot(pos).first)
        <5>1. \A k \in DOMAIN s : s[k] \in Clusters
          <6>1. Proper(fat, Slot(pos).first)
            BY <1>0, <1>a, <2>1, HeldChains
          <6>2. s \in Seq(Clusters)
            BY <6>1, ProperIs
          <6> QED
            BY <6>2
        <5>2. /\ Slot(pos).size = last[p].size /\ Len(s) = Slot(pos).size
              /\ \A k \in DOMAIN s : s[k] = Struck \/ (data[s[k]].owner = p /\ data[s[k]].part = k)
          BY <4>2 DEF Current
        <5>3. ChainIn(fat, Slot(pos).first)' = s
          BY <1>0, <2>4
        <5> HIDE DEF s
        <5> QED
          BY <2>1, <2>4, <4>7, <5>1, <5>2, <5>3 DEF Current
      <4> QED
        BY <2>1, <4>1, <4>6, <4>8
    <3> QED
      BY <3>5, <3>6
  <2>10. LastOK'
    BY <2>9 DEF LastOK
  <2> QED
    BY <1>0, <1>b, <2>8, <2>10, NoWriting DEF FileInv
<1> QED
  BY <1>1, <1>2, <1>3

LEMMA StutterKeeps ==
  ASSUME FileInv, ChainInv', UNCHANGED vars
  PROVE  FileInv'
<1>1. UNCHANGED <<fat, root, data, op, faults, last>>
  BY DEF vars
<1>2. Kept
  BY <1>1, KeptByNone
<1>3. Rec' = Rec /\ Target' = Target /\ Writes' = Writes
  BY <1>1 DEF Rec, Target, Writes
<1>4. PartsOK'
  BY <1>1, <1>3, PartsSame DEF FileInv
<1> QED
  BY <1>1, <1>2, <1>3, <1>4, FilesKept

LEMMA FilesInitial ==
  ASSUME Init
  PROVE  FileInv
<1>1. ChainInv
  BY ChainsInitial
<1>2. /\ root = [i \in 1 .. RootSlots |-> End] /\ op = Idle /\ Idle.pc = "idle"
      /\ \A p \in Paths : last[p] = Nothing
  BY DEF Init, Idle
<1>3. RootLive = {} /\ DirPos = {}
  BY <1>2, EntryTypes DEF RootLive, DirPos, Slot
<1>4. RootOK
  BY <1>2, <1>3 DEF RootOK
<1>5. NewDir /\ PathOK /\ PartsOK /\ LastOK
  BY <1>2 DEF NewDir, PathOK, PartsOK, LastOK, Writes, Rec, RecOf
<1> QED
  BY <1>1, <1>4, <1>5 DEF FileInv

LEMMA FilesNext ==
  ASSUME Prudent
  PROVE  FileInv /\ RootFits /\ ~ ruined' /\ [Next]_vars => FileInv'
<1> SUFFICES ASSUME FileInv, RootFits, ~ ruined', [Next]_vars PROVE FileInv'
  OBVIOUS
<1>0. ChainInv'
  BY ChainsNext DEF FileInv
<1>1. CASE WriteAny
  BY <1>1, WriteKeeps DEF WriteAny, AllPaths
<1>2. CASE AllocStep
  BY <1>2, AllocKeeps
<1>3. CASE AllocDone
  BY <1>3, DoneKeeps
<1>4. CASE DataStep
  BY <1>4, DataKeeps
<1>5. CASE EntryStep
  BY <1>5, EntryKeeps
<1>6. CASE DeleteAny
  BY <1>6, DeleteKeeps DEF DeleteAny
<1>7. CASE fat_free_chain /\ Watch
  BY <1>7, FreeKeeps
<1>8. CASE MkdirAny
  BY <1>8, MkdirKeeps DEF MkdirAny
<1>9. CASE DotsStep
  BY <1>9, DotsKeeps
<1>a. CASE ZeroStep
  BY <1>a, ZeroKeeps
<1>10. CASE LinkStep
  BY <1>10, LinkKeeps
<1>11. CASE SetModeAny
  BY <1>11, ModeKeeps DEF SetModeAny
<1>12. CASE PowerCut
  <2>1. op' = Idle /\ UNCHANGED <<fat, root, data, last>> /\ Fault("cut") /\ ChainInv
    BY <1>12 DEF PowerCut, FileInv
  <2>2. Faults # {}
    BY <2>1, Counted DEF ChainInv
  <2>3. Tree \cap Target = {}
    BY <2>1, <2>2, NoneReplaced
  <2>4. op'.pc = "idle" /\ Rec'.pc = "idle"
    BY <2>1 DEF Rec, RecOf, Idle
  <2> QED
    BY <1>0, <2>1, <2>3, <2>4, GivenUp
<1>13. CASE UNCHANGED vars
  BY <1>0, <1>13, StutterKeeps
<1> QED
  BY <1>1, <1>2, <1>3, <1>4, <1>5, <1>6, <1>7, <1>8, <1>9, <1>10, <1>11, <1>12, <1>13, <1>a
     DEF Next, Step

\* As long as the root has no more entries than a search looks at (SCAN, the 128
\* entries of dir_find_name's buffer), the files on the volume are intact: every entry
\* has a chain of its own, and what was written last to a path and not deleted since is
\* what a reader finds there, whatever has been written to other paths, deleted,
\* created, or has failed or been interrupted since.  Two things are excepted: the one
\* sector that the stray write of fat_free_chain hits, and what follows once that
\* sector was a directory's.
THEOREM FilesAlwaysIntact ==
  ASSUME Prudent
  PROVE  Spec /\ []RootFits => []FilesIntact
<1>1. Init => FileInv
  BY FilesInitial
<1>2. (ruined \/ FileInv) /\ RootFits /\ [Next]_vars => (ruined \/ FileInv)'
  <2>1. ruined /\ [Next]_vars => ruined'
    BY DEF Next, Watch, vars
  <2>2. FileInv /\ RootFits /\ ~ ruined' /\ [Next]_vars => FileInv'
    BY FilesNext
  <2> QED
    BY <2>1, <2>2
<1>3. (ruined \/ FileInv) /\ RootFits => FilesIntact
  BY FilesFollow DEF FilesIntact
<1> QED
  BY <1>1, <1>2, <1>3, PTL DEF Spec

LEMMA SmallRootFits ==
  ASSUME RootSlots <= SCAN, PerCluster <= SCAN
  PROVE  RootFits
<1>0. RootSlots \in Nat /\ SCAN \in Nat
  BY FatAssumption
<1>1. IsFiniteSet(1 .. RootSlots) /\ Cardinality(1 .. RootSlots) = RootSlots
  BY <1>0, FS_Interval
<1> DEFINE g == [j \in 1 .. RootSlots |-> <<0, j>>]
<1>2. g \in Surjection(1 .. RootSlots, RootPos)
  BY DEF Surjection, RootPos
<1>3. IsFiniteSet(RootPos) /\ Cardinality(RootPos) <= RootSlots
  BY <1>1, <1>2, FS_Surjection
<1>4. IsFiniteSet(RootLive) /\ Cardinality(RootLive) <= Cardinality(RootPos)
  BY <1>3, RootLiveIs, FS_Subset
<1>5. Cardinality(RootLive) \in Nat /\ Cardinality(RootPos) \in Nat
  BY <1>3, <1>4, FS_CardinalityType
<1> QED
  BY <1>0, <1>3, <1>4, <1>5 DEF RootFits

\* On a volume whose root has no more slots than a search looks at, fat_read_dir
\* misses nothing and files are intact whatever the root contains: the case of the runs.
THEOREM FilesIntactInSmallRoots ==
  ASSUME Prudent, RootSlots <= SCAN, PerCluster <= SCAN
  PROVE  Spec => []FilesIntact
<1>1. RootFits
  BY SmallRootFits
<1> QED
  BY <1>1, FilesAlwaysIntact, PTL
================================================================================
