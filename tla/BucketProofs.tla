----------------------------- MODULE BucketProofs ----------------------------
(***************************************************************************)
(* What is proved about the shared bucket, for any number of clusters and  *)
(* any retention: which names a search and a prune match, that no prune    *)
(* takes what another cluster must keep, and that a restore goes back to   *)
(* the cluster's own latest snapshot.                                      *)
(***************************************************************************)
EXTENDS Bucket, FiniteSetTheorems, SequenceTheorems, WellFoundedInduction, TLAPS

\* No two clusters have one name, and no name goes on with another's `-m`: what
\* dev/test_etcd.py's names have in common, and nothing in kopsrox checks.
NamesApart ==
  \A c, d \in Clusters : /\ ClusterName[c] = ClusterName[d] => c = d
                         /\ ~IsPrefix(PrunePrefix(d), ClusterName[c])

(******************************** The types ********************************)
Objects == [owner : Clusters, name : Seq(Nat), time : Nat]
Genuine(o) == o \in Objects /\ o.name = FileName(o.owner, o.time)
Command == [doing : {"none", "aborted", "prune", "choose", "reset"}, file : Objects \cup {NoObject}]
BucketTyped == /\ saves \in Nat /\ IsFiniteSet(bucket)
               /\ \A o \in bucket : Genuine(o) /\ o.time <= saves
               /\ cmd \in [Clusters -> Command]
               /\ shown \in [Clusters -> SUBSET Objects]
               /\ state \in [Clusters -> {"up", "gone"}]

(****************************** The invariant ******************************)
\* No two snapshots were taken at one time.
TimesDiffer == \A o, p \in bucket : o.time = p.time => o = p

\* What was listed matched the name.
ShownInv == \A c \in Clusters : \A o \in shown[c] :
              Genuine(o) /\ IsPrefix(ClusterName[c], o.name)

\* The snapshot a restore has chosen stays, and stays the latest of its cluster.
ChosenInv == \A c \in Distinct : cmd[c].doing = "reset" =>
               /\ cmd[c].file \in Own(c)
               /\ \A p \in Own(c) : p.time <= cmd[c].file.time

BucketInv == BucketTyped /\ TimesDiffer /\ ShownInv /\ ChosenInv

(********************************* The names *******************************)
\* What IsPrefix and FileName are, piece by piece.
LEMMA PrefixIs ==
  ASSUME NEW s \in Seq(Nat), NEW t \in Seq(Nat)
  PROVE  IsPrefix(s, t) <=> Len(s) <= Len(t) /\ \A i \in 1..Len(s) : s[i] = t[i]
<1>1. Len(s) \in Nat /\ Len(t) \in Nat
  BY LenProperties
<1>2. CASE Len(s) <= Len(t)
  <2> DEFINE a == SubSeq(s, 1, Len(s))
             b == SubSeq(t, 1, Len(s))
  <2>1. a \in Seq(Nat) /\ Len(a) = Len(s) /\ \A i \in 1..Len(s) : a[i] = s[i]
    BY <1>1
  <2>2. b \in Seq(Nat) /\ Len(b) = Len(s) /\ \A i \in 1..Len(s) : b[i] = t[i]
    BY <1>1, <1>2
  <2>3. IsPrefix(s, t) <=> a = b
    BY <1>2 DEF IsPrefix
  <2> HIDE DEF a, b
  <2>4. a = b <=> \A i \in 1..Len(s) : a[i] = b[i]
    BY <2>1, <2>2, SeqEqual
  <2> QED BY <1>2, <2>1, <2>2, <2>3, <2>4
<1>3. CASE ~(Len(s) <= Len(t))
  BY <1>3 DEF IsPrefix
<1> QED BY <1>2, <1>3

\* A name that goes on: how long it is, and what its pieces are.
LEMMA Extended ==
  ASSUME NEW s \in Seq(Nat), NEW a \in Nat, NEW b \in Nat, NEW t \in Nat
  PROVE  LET p == s \o <<a>>  f == s \o <<a, b, t>> IN
         /\ p \in Seq(Nat) /\ Len(p) = Len(s) + 1
         /\ f \in Seq(Nat) /\ Len(f) = Len(s) + 3
         /\ \A i \in 1..Len(s) : p[i] = s[i] /\ f[i] = s[i]
         /\ p[Len(s) + 1] = a /\ f[Len(s) + 1] = a /\ f[Len(s) + 2] = b
         /\ f[Len(s) + 3] = t
         /\ IsPrefix(s, p) /\ IsPrefix(s, f) /\ IsPrefix(p, f)
<1> DEFINE p == s \o <<a>>
           f == s \o <<a, b, t>>
           n == Len(s)
<1>1. n \in Nat
  BY LenProperties
<1>2. p \in Seq(Nat) /\ Len(p) = n + 1
  BY ConcatProperties
<1>3. f \in Seq(Nat) /\ Len(f) = n + 3
  BY ConcatProperties
<1>4. (\A i \in 1..n : p[i] = s[i]) /\ p[n + 1] = a
  OBVIOUS
<1>5. (\A i \in 1..n : f[i] = s[i]) /\ f[n + 1] = a /\ f[n + 2] = b /\ f[n + 3] = t
  OBVIOUS
<1>6. s \in Seq(Nat) /\ n = Len(s)
  OBVIOUS
<1> HIDE DEF p, f, n
<1>7. IsPrefix(s, p)
  BY <1>1, <1>2, <1>4, <1>6, PrefixIs, SMTT(30)
<1>8. IsPrefix(s, f)
  BY <1>1, <1>3, <1>5, <1>6, PrefixIs, SMTT(30)
<1>9. \A i \in 1..(n + 1) : p[i] = f[i]
  <2>1. \A i \in 1..(n + 1) : i \in 1..n \/ i = n + 1
    BY <1>1
  <2> QED BY <1>4, <1>5, <2>1
<1>10. IsPrefix(p, f)
  BY <1>1, <1>2, <1>3, <1>9, PrefixIs, SMTT(30)
<1> QED BY <1>2, <1>3, <1>4, <1>5, <1>6, <1>7, <1>8, <1>10 DEF p, f, n

\* The names of the clusters, and the prefix by which a prune searches.
LEMMA NameIs ==
  ASSUME NEW c \in Clusters
  PROVE  /\ ClusterName[c] \in Seq(Nat) /\ Len(ClusterName[c]) \in Nat
         /\ PrunePrefix(c) \in Seq(Nat) /\ Len(PrunePrefix(c)) = Len(ClusterName[c]) + 1
         /\ IsPrefix(ClusterName[c], PrunePrefix(c))
<1>1. ClusterName[c] \in Seq(Nat) /\ Dash \in Nat /\ One \in Nat /\ 0 \in Nat
  BY NamesAssumption
<1> QED BY <1>1, Extended, LenProperties DEF PrunePrefix

\* The name of a snapshot: the cluster, a dash, the node and the time.
LEMMA FileNameIs ==
  ASSUME NEW c \in Clusters, NEW t \in Nat
  PROVE  /\ FileName(c, t) \in Seq(Nat) /\ Len(FileName(c, t)) = Len(ClusterName[c]) + 3
         /\ \A i \in 1..Len(ClusterName[c]) : FileName(c, t)[i] = ClusterName[c][i]
         /\ FileName(c, t)[Len(ClusterName[c]) + 1] = Dash
         /\ FileName(c, t)[Len(ClusterName[c]) + 2] = One
         /\ FileName(c, t)[Len(ClusterName[c]) + 3] = t
<1>1. ClusterName[c] \in Seq(Nat) /\ Dash \in Nat /\ One \in Nat
  BY NamesAssumption
<1> QED BY <1>1, Extended DEF FileName

\* A file of the cluster begins with its name and with its prune prefix.
LEMMA OwnMatches ==
  ASSUME NEW c \in Clusters, NEW t \in Nat
  PROVE  IsPrefix(ClusterName[c], FileName(c, t)) /\ IsPrefix(PrunePrefix(c), FileName(c, t))
<1>1. ClusterName[c] \in Seq(Nat) /\ Dash \in Nat /\ One \in Nat
  BY NamesAssumption
<1> QED BY <1>1, Extended DEF FileName, PrunePrefix

\* Of two beginnings of one sequence the shorter begins the longer.
LEMMA ShorterBegins ==
  ASSUME NEW s \in Seq(Nat), NEW r \in Seq(Nat), NEW f \in Seq(Nat),
         IsPrefix(s, f), IsPrefix(r, f), Len(s) <= Len(r)
  PROVE  IsPrefix(s, r) /\ (Len(s) = Len(r) => s = r)
<1>1. Len(s) \in Nat /\ Len(r) \in Nat /\ Len(f) \in Nat
  BY LenProperties
<1>2. \A i \in 1..Len(s) : s[i] = r[i]
  BY <1>1, PrefixIs
<1>3. IsPrefix(s, r)
  BY <1>2, PrefixIs
<1> QED BY <1>2, <1>3, SeqEqual

\* Beginning with something is transitive.
LEMMA BeginsToo ==
  ASSUME NEW r \in Seq(Nat), NEW p \in Seq(Nat), NEW f \in Seq(Nat),
         IsPrefix(r, p), IsPrefix(p, f)
  PROVE  IsPrefix(r, f)
<1>1. Len(r) \in Nat /\ Len(p) \in Nat /\ Len(f) \in Nat
  BY LenProperties
<1>2. Len(r) <= Len(p) /\ Len(p) <= Len(f)
  BY PrefixIs
<1>3. \A i \in 1..Len(r) : r[i] = f[i]
  BY <1>1, <1>2, PrefixIs, SMTT(30)
<1> QED BY <1>1, <1>2, <1>3, PrefixIs

\* What a search for a distinct name finds is a file of that cluster.
LEMMA PrefixOfName ==
  ASSUME NamesApart, NEW c \in Clusters, NEW d \in Distinct, NEW t \in Nat,
         IsPrefix(ClusterName[d], FileName(c, t))
  PROVE  c = d
<1>1. d \in Clusters /\ ~IsStrictPrefix(ClusterName[d], ClusterName[c])
  BY DEF Distinct
<1>2. FileName(c, t) \in Seq(Nat) /\ ClusterName[d] \in Seq(Nat)
  BY <1>1, FileNameIs, NameIs
<1>3. CASE Len(ClusterName[d]) <= Len(ClusterName[c])
  <2>1. IsPrefix(ClusterName[d], ClusterName[c])
    BY <1>2, <1>3, NameIs, OwnMatches, ShorterBegins
  <2> QED BY <1>1, <2>1 DEF NamesApart, IsStrictPrefix
<1>4. CASE Len(PrunePrefix(c)) <= Len(ClusterName[d])
  <2>1. IsPrefix(PrunePrefix(c), ClusterName[d])
    BY <1>2, <1>4, NameIs, OwnMatches, ShorterBegins
  <2> QED BY <1>1, <2>1 DEF NamesApart
<1>5. /\ Len(ClusterName[c]) \in Nat /\ Len(ClusterName[d]) \in Nat
      /\ Len(PrunePrefix(c)) = Len(ClusterName[c]) + 1
  BY <1>1, NameIs
<1> QED BY <1>3, <1>4, <1>5

\* What begins with the prune prefix of d is a file of d.
LEMMA PrefixOfPrune ==
  ASSUME NamesApart, NEW c \in Clusters, NEW d \in Clusters, NEW t \in Nat,
         IsPrefix(PrunePrefix(d), FileName(c, t))
  PROVE  c = d
<1>1. FileName(c, t) \in Seq(Nat)
  BY FileNameIs
<1>2. IsPrefix(ClusterName[d], FileName(c, t))
  BY <1>1, NameIs, BeginsToo
<1>3. CASE Len(PrunePrefix(d)) <= Len(ClusterName[c])
  <2>1. IsPrefix(PrunePrefix(d), ClusterName[c])
    BY <1>1, <1>3, NameIs, OwnMatches, ShorterBegins
  <2> QED BY <2>1 DEF NamesApart
<1>4. CASE Len(ClusterName[d]) = Len(ClusterName[c])
  <2>1. ClusterName[d] = ClusterName[c]
    BY <1>1, <1>2, <1>4, NameIs, OwnMatches, ShorterBegins
  <2> QED BY <2>1 DEF NamesApart
<1>5. CASE Len(PrunePrefix(c)) <= Len(ClusterName[d])
  <2>1. IsPrefix(PrunePrefix(c), ClusterName[d])
    BY <1>1, <1>2, <1>5, NameIs, OwnMatches, ShorterBegins
  <2> QED BY <2>1 DEF NamesApart
<1>6. \/ Len(PrunePrefix(d)) <= Len(ClusterName[c])
      \/ Len(ClusterName[d]) = Len(ClusterName[c])
      \/ Len(PrunePrefix(c)) <= Len(ClusterName[d])
  <2>1. Len(ClusterName[c]) \in Nat /\ Len(PrunePrefix(c)) = Len(ClusterName[c]) + 1
    BY NameIs
  <2>2. Len(ClusterName[d]) \in Nat /\ Len(PrunePrefix(d)) = Len(ClusterName[d]) + 1
    BY NameIs
  <2> QED BY <2>1, <2>2
<1> QED BY <1>3, <1>4, <1>5, <1>6

\* The names of one cluster's files are in the order of their times.
LEMMA InOrderOfTime ==
  ASSUME NEW c \in Clusters, NEW t \in Nat, NEW u \in Nat,
         SortsBefore(FileName(c, t), FileName(c, u))
  PROVE  t <= u
<1> DEFINE n == Len(ClusterName[c])
           f == FileName(c, t)
           g == FileName(c, u)
<1>1. n \in Nat
  BY NameIs
<1>2. /\ f \in Seq(Nat) /\ Len(f) = n + 3
      /\ \A i \in 1..n : f[i] = ClusterName[c][i]
      /\ f[n + 1] = Dash /\ f[n + 2] = One /\ f[n + 3] = t
  BY FileNameIs
<1>3. /\ g \in Seq(Nat) /\ Len(g) = n + 3
      /\ \A i \in 1..n : g[i] = ClusterName[c][i]
      /\ g[n + 1] = Dash /\ g[n + 2] = One /\ g[n + 3] = u
  BY FileNameIs
<1>4. IsStrictPrefix(f, g) \/ \E i \in 1..Len(f) : f[i] < g[i]
  BY DEF SortsBefore
<1> HIDE DEF f, g, n
<1>5. CASE IsStrictPrefix(f, g)
  <2>1. \A i \in 1..(n + 3) : f[i] = g[i]
    BY <1>2, <1>3, <1>5, PrefixIs DEF IsStrictPrefix
  <2>2. n + 3 \in 1..(n + 3)
    BY <1>1
  <2>3. f[n + 3] = g[n + 3]
    BY <2>1, <2>2, Zenon
  <2>4. t = u
    BY <1>2, <1>3, <2>3, Zenon
  <2> QED BY <2>4
<1>6. ASSUME NEW i \in 1..Len(f), f[i] < g[i] PROVE t <= u
  <2>1. i \in 1..n \/ i = n + 1 \/ i = n + 2 \/ i = n + 3
    BY <1>1, <1>2, <1>6
  <2>2. CASE i \in 1..n
    <3>1. f[i] = g[i] /\ f[i] \in Nat
      BY <1>2, <1>3, <1>6, <2>2
    <3> QED BY <1>6, <3>1
  <2>3. CASE i = n + 1 \/ i = n + 2
    BY <1>2, <1>3, <1>6, <2>3, NamesAssumption
  <2>4. CASE i = n + 3
    BY <1>2, <1>3, <1>6, <2>4
  <2> QED BY <2>1, <2>2, <2>3, <2>4
<1> QED BY <1>4, <1>5, <1>6

(******************************* The searches ******************************)
LEMMA PrunedOwn ==
  ASSUME NamesApart, BucketTyped, NEW d \in Clusters PROVE Pruned(d) = Own(d)
<1>1. ASSUME NEW o \in bucket
      PROVE  /\ o.owner \in Clusters /\ o.time \in Nat
             /\ o.name = FileName(o.owner, o.time)
  BY DEF BucketTyped, Genuine, Objects
<1>2. ASSUME NEW o \in bucket PROVE IsPrefix(PrunePrefix(d), o.name) <=> o.owner = d
  BY <1>1, PrefixOfPrune, OwnMatches
<1> QED BY <1>2 DEF Pruned, Own

\* Where no other name begins with it, a search by name finds the own snapshots
\* only.
LEMMA ListedIsOwn ==
  ASSUME NamesApart, BucketTyped, NEW d \in Distinct PROVE Listed(d) = Own(d)
<1>1. ASSUME NEW o \in bucket
      PROVE  /\ o.owner \in Clusters /\ o.time \in Nat
             /\ o.name = FileName(o.owner, o.time)
  BY DEF BucketTyped, Genuine, Objects
<1>2. d \in Clusters
  BY DEF Distinct
<1>3. ASSUME NEW o \in bucket PROVE IsPrefix(ClusterName[d], o.name) <=> o.owner = d
  BY <1>1, <1>2, PrefixOfName, OwnMatches
<1> QED BY <1>3 DEF Listed, Own

\* The latest of a set is among its newest.
LEMMA LatestIsNewest ==
  ASSUME NEW S, NEW o \in S, \A p \in S : ~(p.time > o.time), NEW n \in Nat \ {0}
  PROVE  o \in Newest(n, S)
<1>1. {p \in S : p.time > o.time} = {}
  OBVIOUS
<1>2. Cardinality({p \in S : p.time > o.time}) = 0
  BY <1>1, FS_EmptySet
<1>3. Cardinality({p \in S : p.time > o.time}) < n
  BY <1>2
<1> QED BY <1>3 DEF Newest

\* Of a finite set of snapshots taken at different times at most n are newest.
LEMMA NewestAreFew ==
  ASSUME NEW S, IsFiniteSet(S), \A o \in S : o.time \in Nat,
         \A o, p \in S : o.time = p.time => o = p, NEW n \in Nat
  PROVE  IsFiniteSet(Newest(n, S)) /\ Cardinality(Newest(n, S)) <= n
<1> DEFINE N == Newest(n, S)
<1>1. N \subseteq S /\ \A o \in N : Cardinality({p \in S : p.time > o.time}) < n
  BY DEF Newest
<1>2. IsFiniteSet(N)
  BY <1>1, FS_Subset
<1> HIDE DEF N
<1>3. CASE N = {}
  BY <1>3, FS_EmptySet DEF N
<1>4. CASE N # {}
  <2> DEFINE R == OpToRel(<, Nat)
             T == {o.time : o \in N}
  <2>1. T \subseteq Nat /\ T # {}
    BY <1>1, <1>4
  <2>2. \E x \in T : \A y \in T : ~(<<y, x>> \in R)
    <3>1. IsWellFoundedOn(R, Nat)
      BY NatLessThanWellFounded
    <3> HIDE DEF R, T
    <3> QED BY <2>1, <3>1, WFMin
  <2>3. \A x, y \in Nat : y < x => <<y, x>> \in R
    BY DEF OpToRel
  <2>4. PICK m \in N : \A o \in N : ~(o.time < m.time)
    <3> HIDE DEF R
    <3>1. PICK x \in T : \A y \in T : ~(<<y, x>> \in R)
      BY <2>2
    <3>2. PICK m \in N : x = m.time
      BY <3>1
    <3>3. ASSUME NEW o \in N PROVE ~(o.time < m.time)
      <4>1. o.time \in T /\ o.time \in Nat /\ x \in Nat
        BY <2>1, <3>1
      <4>2. ~(<<o.time, x>> \in R)
        BY <3>1, <4>1
      <4>3. ~(o.time < x)
        BY <2>3, <4>1, <4>2
      <4> QED BY <3>2, <4>3
    <3> QED BY <3>3
  <2> DEFINE A == {p \in S : p.time > m.time}
  <2>5. m \in S /\ m.time \in Nat /\ Cardinality(A) < n
    BY <1>1, <2>4
  <2>6. N \ {m} \subseteq A
    BY <1>1, <2>4, <2>5
  <2> HIDE DEF A
  <2>7. IsFiniteSet(A)
    BY FS_Subset DEF A
  <2>8. IsFiniteSet(N \ {m}) /\ Cardinality(N \ {m}) <= Cardinality(A)
    BY <2>6, <2>7, FS_Subset
  <2>9. Cardinality(N \ {m}) = Cardinality(N) - 1 /\ Cardinality(N) \in Nat
        /\ Cardinality(N \ {m}) \in Nat /\ Cardinality(A) \in Nat
    BY <1>2, <2>4, <2>7, <2>8, FS_RemoveElement, FS_CardinalityType
  <2> QED BY <1>2, <2>5, <2>8, <2>9 DEF N
<1> QED BY <1>3, <1>4

(********************************* The steps *******************************)
\* What a prune leaves: of its own cluster the newest, of the others all.
LEMMA PruneLeaves ==
  ASSUME NamesApart, BucketTyped, NEW d \in Clusters, Prune(d)
  PROVE  /\ bucket' = (bucket \ Own(d)) \cup Newest(Retention, Own(d))
         /\ bucket' \subseteq bucket
         /\ Own(d)' = Newest(Retention, Own(d))
         /\ \A c \in Clusters \ {d} : Own(c)' = Own(c)
<1>1. bucket' = (bucket \ Own(d)) \cup Newest(Retention, Own(d))
  BY PrunedOwn DEF Prune, Kept
<1>2. Newest(Retention, Own(d)) \subseteq Own(d)
  BY DEF Newest
<1> DEFINE N == Newest(Retention, Own(d))
<1> HIDE DEF N
<1>3. bucket' = (bucket \ Own(d)) \cup N /\ N \subseteq Own(d)
  BY <1>1, <1>2 DEF N
<1>4. \A o \in bucket' : o \in bucket
  BY <1>3 DEF Own
<1>5. Own(d)' = N
  BY <1>3 DEF Own
<1>6. \A c \in Clusters \ {d} : Own(c)' = Own(c)
  BY <1>3 DEF Own
<1> QED BY <1>1, <1>4, <1>5, <1>6 DEF N

\* What a prune that fails leaves: the newest of its own cluster at least, of the
\* others all.
LEMMA FailedPruneLeaves ==
  ASSUME NamesApart, BucketTyped, NEW d \in Clusters, PruneFails(d)
  PROVE  /\ bucket' \subseteq bucket
         /\ Newest(Retention, Own(d)) \subseteq bucket'
         /\ \A c \in Clusters \ {d} : Own(c)' = Own(c)
<1> DEFINE N == Newest(Retention, Own(d))
<1>1. PICK D \in SUBSET (Own(d) \ N) : bucket' = bucket \ D
  BY PrunedOwn DEF PruneFails, Kept
<1>2. N \subseteq Own(d)
  BY DEF Newest
<1> HIDE DEF N
<1>3. bucket' \subseteq bucket /\ N \subseteq bucket'
  BY <1>1, <1>2 DEF Own
<1>4. \A c \in Clusters \ {d} : Own(c)' = Own(c)
  BY <1>1 DEF Own
<1> QED BY <1>3, <1>4 DEF N

\* A step that leaves the bucket alone, or takes from it, leaves its types.
LEMMA FewerTyped ==
  ASSUME BucketTyped, TimesDiffer, bucket' \subseteq bucket, saves' = saves
  PROVE  /\ saves' \in Nat /\ IsFiniteSet(bucket') /\ TimesDiffer'
         /\ \A o \in bucket' : Genuine(o) /\ o.time <= saves'
<1>1. IsFiniteSet(bucket')
  BY FS_Subset DEF BucketTyped
<1> QED BY <1>1 DEF BucketTyped, TimesDiffer

\* A snapshot is later than every one before it.
LEMMA SaveKeeps == ASSUME BucketInv, NEW c \in Clusters, Save(c) PROVE BucketInv'
<1> DEFINE new == [owner |-> c, name |-> FileName(c, saves + 1), time |-> saves + 1]
<1>1. /\ Idle(c) /\ saves' = saves + 1 /\ bucket' = bucket \cup {new}
      /\ UNCHANGED <<cmd, shown, state>>
  BY DEF Save
<1>2. saves \in Nat /\ saves + 1 \in Nat /\ IsFiniteSet(bucket)
  BY DEF BucketInv, BucketTyped
<1>3. new \in Objects /\ Genuine(new) /\ new.time = saves + 1 /\ new.owner = c
  BY <1>2, FileNameIs DEF Objects, Genuine
<1> HIDE DEF new
<1>4. IsFiniteSet(bucket')
  BY <1>1, <1>2, FS_AddElement
<1>5. \A o \in bucket : Genuine(o) /\ o.time <= saves /\ o.time \in Nat
  BY DEF BucketInv, BucketTyped, Genuine, Objects
<1>6. BucketTyped'
  <2>1. \A o \in bucket' : Genuine(o) /\ o.time <= saves'
    BY <1>1, <1>2, <1>3, <1>5
  <2> QED BY <1>1, <1>2, <1>4, <2>1 DEF BucketInv, BucketTyped
<1>7. TimesDiffer'
  BY <1>1, <1>2, <1>3, <1>5 DEF BucketInv, TimesDiffer
<1>8. ShownInv'
  BY <1>1 DEF BucketInv, ShownInv
<1>9. ChosenInv'
  <2>1. ASSUME NEW d \in Distinct, cmd[d].doing = "reset"
        PROVE  Own(d)' = Own(d)
    <3>1. d # c
      BY <1>1, <2>1 DEF Idle, Ready, Aborted
    <3> QED BY <1>1, <1>3, <3>1 DEF Own
  <2> QED BY <1>1, <2>1 DEF BucketInv, ChosenInv
<1> QED BY <1>6, <1>7, <1>8, <1>9 DEF BucketInv

\* A list shows what matched the name.
LEMMA ListKeeps == ASSUME BucketInv, NEW c \in Clusters, List(c) PROVE BucketInv'
<1>1. /\ shown' = [shown EXCEPT ![c] = Listed(c)]
      /\ UNCHANGED <<bucket, saves, cmd, state>>
  BY DEF List
<1>2. \A o \in Listed(c) : Genuine(o) /\ o \in Objects /\ IsPrefix(ClusterName[c], o.name)
  BY DEF Listed, BucketInv, BucketTyped, Genuine
<1>3. BucketTyped'
  BY <1>1, <1>2 DEF BucketInv, BucketTyped
<1>4. ShownInv'
  BY <1>1, <1>2 DEF BucketInv, BucketTyped, ShownInv
<1>5. TimesDiffer' /\ ChosenInv'
  BY <1>1 DEF BucketInv, TimesDiffer, ChosenInv, Own
<1> QED BY <1>3, <1>4, <1>5 DEF BucketInv

\* A prune leaves every other cluster, and a restore under way, what they have.
LEMMA PruneKeeps ==
  ASSUME NamesApart, BucketInv, NEW c \in Clusters, Prune(c) \/ PruneFails(c)
  PROVE  BucketInv'
<1>1. /\ cmd[c].doing = "prune" /\ UNCHANGED <<saves, shown, state>>
      /\ \E e \in {Ready, Aborted} : cmd' = [cmd EXCEPT ![c] = e]
  BY DEF Prune, PruneFails
<1>2. bucket' \subseteq bucket /\ \A d \in Clusters \ {c} : Own(d)' = Own(d)
  BY PruneLeaves, FailedPruneLeaves DEF BucketInv
<1>3. cmd \in [Clusters -> Command] /\ cmd' \in [Clusters -> Command]
  BY <1>1 DEF BucketInv, BucketTyped, Ready, Aborted, Command
<1>4. BucketTyped' /\ TimesDiffer'
  BY <1>1, <1>2, <1>3, FewerTyped DEF BucketInv, BucketTyped
<1>5. ShownInv'
  BY <1>1 DEF BucketInv, ShownInv
<1>6. ChosenInv'
  <2>1. ASSUME NEW d \in Distinct, cmd'[d].doing = "reset"
        PROVE  d \in Clusters \ {c} /\ cmd'[d] = cmd[d]
    BY <1>1, <1>3, <2>1 DEF Ready, Aborted, Distinct
  <2> QED BY <1>2, <2>1 DEF BucketInv, ChosenInv
<1> QED BY <1>4, <1>5, <1>6 DEF BucketInv

\* The steps that change the command only: the bucket stays.
LEMMA CommandKeeps ==
  ASSUME BucketInv, NEW c \in Clusters, UNCHANGED <<bucket, saves, shown>>,
         NEW k \in Command, cmd' = [cmd EXCEPT ![c] = k],
         state' \in [Clusters -> {"up", "gone"}],
         c \in Distinct /\ k.doing = "reset" =>
           k.file \in Own(c) /\ \A p \in Own(c) : p.time <= k.file.time
  PROVE  BucketInv'
<1>1. BucketTyped' /\ TimesDiffer' /\ ShownInv'
  BY DEF BucketInv, BucketTyped, TimesDiffer, ShownInv
<1>2. \A d \in Clusters : Own(d)' = Own(d)
  BY DEF Own
<1>3. ChosenInv'
  <2>1. ASSUME NEW d \in Distinct, cmd'[d].doing = "reset"
        PROVE  cmd'[d].file \in Own(d) /\ \A p \in Own(d) : p.time <= cmd'[d].file.time
    <3>1. CASE d = c
      BY <2>1, <3>1 DEF BucketInv, BucketTyped
    <3>2. CASE d # c
      <4>1. d \in Clusters /\ cmd'[d] = cmd[d]
        BY <3>2 DEF Distinct, BucketInv, BucketTyped
      <4> QED BY <2>1, <4>1 DEF BucketInv, ChosenInv
    <3> QED BY <3>1, <3>2
  <2>2. \A d \in Distinct : d \in Clusters
    BY DEF Distinct
  <2> QED BY <1>2, <2>1, <2>2 DEF ChosenInv
<1> QED BY <1>1, <1>3 DEF BucketInv

\* What a restore chooses is the latest snapshot of its cluster.
LEMMA ChoosesLatest ==
  ASSUME NamesApart, BucketInv, NEW c \in Distinct, NEW o \in Latest(Listed(c))
  PROVE  o \in Own(c) /\ \A p \in Own(c) : p.time <= o.time
<1>1. c \in Clusters /\ Listed(c) = Own(c)
  BY ListedIsOwn DEF BucketInv, Distinct
<1>2. o \in Own(c) /\ \A p \in Own(c) \ {o} : SortsBefore(p.name, o.name)
  BY <1>1 DEF Latest
<1>3. \A p \in Own(c) : p.time \in Nat /\ p.name = FileName(c, p.time)
  BY DEF Own, BucketInv, BucketTyped, Genuine, Objects
<1>4. ASSUME NEW p \in Own(c), p # o PROVE p.time <= o.time
  <2>1. SortsBefore(FileName(c, p.time), FileName(c, o.time))
    BY <1>2, <1>3, <1>4
  <2>2. p.time \in Nat /\ o.time \in Nat
    BY <1>2, <1>3
  <2> QED BY <1>1, <2>1, <2>2, InOrderOfTime
<1> QED BY <1>2, <1>3, <1>4

\* A prune that is asked for, and a restore: the choice is made while the cluster
\* is gone, and nobody adds to it.
LEMMA RestoreKeeps ==
  ASSUME NamesApart, BucketInv, NEW c \in Clusters,
         AskPrune(c) \/ Teardown(c) \/ Choose(c) \/ NoneFound(c) \/ Reset(c)
  PROVE  BucketInv'
<1>1. cmd \in [Clusters -> Command] /\ cmd[c] \in Command
      /\ state \in [Clusters -> {"up", "gone"}]
  BY DEF BucketInv, BucketTyped
<1>2. /\ Ready \in Command /\ Ready.doing = "none"
      /\ Aborted \in Command /\ Aborted.doing = "aborted"
  BY DEF Ready, Aborted, Command
<1>3. CASE Teardown(c)
  <2> DEFINE k == [Ready EXCEPT !.doing = "choose"]
  <2>1. k \in Command /\ k.doing = "choose"
    BY DEF Ready, Command
  <2>2. cmd' = [cmd EXCEPT ![c] = k] /\ UNCHANGED <<bucket, saves, shown>>
        /\ state' = [state EXCEPT ![c] = "gone"]
    BY <1>3 DEF Teardown
  <2> HIDE DEF k
  <2> QED BY <1>1, <2>1, <2>2, CommandKeeps
<1>4. CASE Choose(c)
  <2>1. PICK o \in Latest(Listed(c)) :
          cmd' = [cmd EXCEPT ![c] = [doing |-> "reset", file |-> o]]
    BY <1>4 DEF Choose
  <2> DEFINE k == [doing |-> "reset", file |-> o]
  <2>2. o \in Objects
    BY DEF Latest, Listed, BucketInv, BucketTyped, Genuine
  <2>3. k \in Command /\ k.file = o
    BY <2>2 DEF Command
  <2>4. c \in Distinct => o \in Own(c) /\ \A p \in Own(c) : p.time <= o.time
    BY ChoosesLatest
  <2>5. cmd' = [cmd EXCEPT ![c] = k] /\ UNCHANGED <<bucket, saves, shown, state>>
    BY <1>4, <2>1 DEF Choose
  <2> HIDE DEF k
  <2> QED BY <1>1, <2>3, <2>4, <2>5, CommandKeeps
<1>5. CASE NoneFound(c)
  BY <1>1, <1>2, <1>5, CommandKeeps DEF NoneFound
<1>6. CASE Reset(c)
  <2>1. state' \in [Clusters -> {"up", "gone"}]
    BY <1>1, <1>6 DEF Reset
  <2>2. PICK k \in {Ready, Aborted} :
          cmd' = [cmd EXCEPT ![c] = k] /\ UNCHANGED <<bucket, saves, shown>>
    BY <1>6 DEF Reset
  <2> QED BY <1>2, <2>1, <2>2, CommandKeeps
<1>7. CASE AskPrune(c)
  <2> DEFINE k == [Ready EXCEPT !.doing = "prune"]
  <2>1. k \in Command /\ k.doing = "prune"
    BY DEF Ready, Command
  <2>2. cmd' = [cmd EXCEPT ![c] = k] /\ UNCHANGED <<bucket, saves, shown, state>>
    BY <1>7 DEF AskPrune
  <2> HIDE DEF k
  <2> QED BY <1>1, <2>1, <2>2, CommandKeeps
<1> QED BY <1>3, <1>4, <1>5, <1>6, <1>7

(******************************* The theorems ******************************)
LEMMA BucketAtFirst == ASSUME BucketInit PROVE BucketInv
<1>1. Ready \in Command /\ Ready.doing = "none"
  BY DEF Ready, Command
<1>2. BucketTyped
  BY <1>1, FS_EmptySet DEF BucketInit, BucketTyped
<1>3. TimesDiffer /\ ShownInv
  BY DEF BucketInit, TimesDiffer, ShownInv
<1>4. ChosenInv
  BY <1>1 DEF BucketInit, ChosenInv, Distinct
<1> QED BY <1>2, <1>3, <1>4 DEF BucketInv

\* Every step of every cluster keeps the invariant.
LEMMA BucketStep ==
  ASSUME NamesApart, BucketInv, [BucketNext]_bvars PROVE BucketInv'
<1>1. CASE UNCHANGED bvars
  BY <1>1 DEF bvars, BucketInv, BucketTyped, TimesDiffer, ShownInv, ChosenInv, Own
<1>2. CASE BucketNext
  BY <1>2, SaveKeeps, ListKeeps, PruneKeeps, RestoreKeeps DEF BucketNext
<1> QED BY <1>1, <1>2

\* The invariant the others follow from.
THEOREM BucketInvariant == ASSUME NamesApart PROVE BucketSpec => []BucketInv
<1>1. BucketInit => BucketInv
  BY BucketAtFirst
<1>2. BucketInv /\ [BucketNext]_bvars => BucketInv'
  BY BucketStep
<1> QED BY <1>1, <1>2, PTL DEF BucketSpec

\* README.md:178: `etcd list` shows a cluster whose name begins no other's its
\* own snapshots only.
THEOREM ListTrue == ASSUME NamesApart PROVE BucketSpec => []ListsOwn
<1>1. ASSUME BucketInv PROVE ListsOwn
  <2>1. ASSUME NEW c \in Distinct, NEW o \in shown[c] PROVE o.owner = c
    <3>1. c \in Clusters
      BY DEF Distinct
    <3>2. /\ o.owner \in Clusters /\ o.time \in Nat /\ o.name = FileName(o.owner, o.time)
          /\ IsPrefix(ClusterName[c], o.name)
      BY <1>1, <3>1 DEF BucketInv, ShownInv, Genuine, Objects
    <3> QED BY <3>2, PrefixOfName
  <2> QED BY <2>1 DEF ListsOwn
<1> QED BY <1>1, BucketInvariant, PTL

\* Whatever a step takes from the bucket, the newest of every cluster stay.
LEMMA OnlyPruned ==
  ASSUME NamesApart, BucketInv, [BucketNext]_bvars, NEW c \in Clusters
  PROVE  Newest(Retention, Own(c)) \subseteq bucket'
<1>1. Newest(Retention, Own(c)) \subseteq Own(c) /\ Own(c)' \subseteq bucket'
  BY DEF Newest, Own
<1>2. CASE bucket \subseteq bucket'
  BY <1>1, <1>2 DEF Own
<1>3. ASSUME NEW d \in Clusters, Prune(d) \/ PruneFails(d)
      PROVE  Newest(Retention, Own(c)) \subseteq bucket'
  <2>1. CASE d = c
    BY <1>1, <1>3, <2>1, PruneLeaves, FailedPruneLeaves DEF BucketInv
  <2>2. CASE d # c
    <3>1. Own(c)' = Own(c)
      BY <1>3, <2>2, PruneLeaves, FailedPruneLeaves DEF BucketInv
    <3> QED BY <1>1, <3>1
  <2> QED BY <2>1, <2>2
<1>4. bucket \subseteq bucket' \/ \E d \in Clusters : Prune(d) \/ PruneFails(d)
  BY DEF BucketNext, Save, List, AskPrune, Teardown, Choose, NoneFound, Reset, bvars
<1> QED BY <1>2, <1>3, <1>4

\* verb_etcd.py:73-75: whoever prunes, every cluster keeps its newest snapshots.
THEOREM NewestStay == ASSUME NamesApart PROVE BucketSpec => NewestKept
<1> DEFINE kept == \A c \in Clusters : Newest(Retention, Own(c)) \subseteq bucket'
<1>1. ASSUME BucketInv, [BucketNext]_bvars, NEW c \in Clusters
      PROVE  Newest(Retention, Own(c)) \subseteq bucket'
  BY <1>1, OnlyPruned
<1>2. BucketInv /\ [BucketNext]_bvars => kept
  BY <1>1
<1> QED BY <1>2, BucketInvariant, PTL DEF BucketSpec, NewestKept

\* A command that has ended well from a prune was that prune.
LEMMA EndedPrune ==
  ASSUME BucketInv, BucketNext, NEW c \in Clusters,
         cmd[c].doing = "prune", cmd'[c] = Ready
  PROVE  Prune(c)
<1>1. cmd \in [Clusters -> Command] /\ ~Idle(c) /\ cmd'[c] # cmd[c]
  BY DEF BucketInv, BucketTyped, Idle, Ready, Aborted
<1>2. ASSUME NEW d \in Clusters, d # c, cmd'[c] # cmd[c]
      PROVE  ~AskPrune(d) /\ ~Prune(d) /\ ~PruneFails(d) /\ ~Teardown(d) /\ ~Choose(d)
             /\ ~NoneFound(d) /\ ~Reset(d)
  BY <1>1, <1>2 DEF AskPrune, Prune, PruneFails, Teardown, Choose, NoneFound, Reset
<1>3. \A d \in Clusters : ~Save(d) /\ ~List(d)
  BY <1>1 DEF Save, List
<1>4. ~AskPrune(c) /\ ~Teardown(c) /\ ~Choose(c) /\ ~NoneFound(c) /\ ~Reset(c)
  BY <1>1 DEF AskPrune, Teardown, Choose, NoneFound, Reset
<1>5. ~PruneFails(c)
  BY <1>1 DEF PruneFails, Ready, Aborted
<1> QED BY <1>1, <1>2, <1>3, <1>4, <1>5 DEF BucketNext

\* README.md:179: a prune that ends well has left its cluster exactly the newest,
\* which are no more than the retention says, and the others all they had.
THEOREM PruneLeavesNewest == ASSUME NamesApart PROVE BucketSpec => PruneWorks
<1> DEFINE works == \A c \in Clusters : cmd[c].doing = "prune" /\ cmd'[c] = Ready
                   => /\ bucket' = (bucket \ Own(c)) \cup Newest(Retention, Own(c))
                      /\ Cardinality(Own(c)') <= Retention
<1>1. ASSUME BucketInv, [BucketNext]_bvars, NEW c \in Clusters,
             cmd[c].doing = "prune", cmd'[c] = Ready
      PROVE  /\ bucket' = (bucket \ Own(c)) \cup Newest(Retention, Own(c))
             /\ Cardinality(Own(c)') <= Retention
  <2>1. cmd' # cmd
    BY <1>1 DEF Ready
  <2>2. Prune(c)
    BY <1>1, <2>1, EndedPrune DEF bvars
  <2>3. /\ bucket' = (bucket \ Own(c)) \cup Newest(Retention, Own(c))
        /\ Own(c)' = Newest(Retention, Own(c))
    BY <1>1, <2>2, PruneLeaves DEF BucketInv
  <2>4. IsFiniteSet(Own(c))
    BY <1>1, FS_Subset DEF BucketInv, BucketTyped, Own
  <2>5. /\ \A o \in Own(c) : o.time \in Nat
        /\ \A o, p \in Own(c) : o.time = p.time => o = p
    BY <1>1 DEF BucketInv, BucketTyped, TimesDiffer, Genuine, Objects, Own
  <2>6. Retention \in Nat
    BY RetentionAssumption
  <2>7. Cardinality(Newest(Retention, Own(c))) <= Retention
    BY <2>4, <2>5, <2>6, NewestAreFew
  <2> QED BY <2>3, <2>7
<1>2. BucketInv /\ [BucketNext]_bvars => works
  BY <1>1
<1> QED BY <1>2, BucketInvariant, PTL DEF BucketSpec, PruneWorks

\* README.md:163: a restore of a cluster whose name begins no other's brings it
\* back from its latest snapshot, whatever happens to the bucket meanwhile.
THEOREM LatestRestored == ASSUME NamesApart PROVE BucketSpec => RestoresLatest
<1> DEFINE right == \A c \in Distinct : cmd[c].doing = "reset" /\ cmd'[c].doing # "reset"
                         /\ Own(c) # {}
                       => state'[c] = "up" /\ cmd[c].file \in Newest(1, Own(c))
<1>1. ASSUME BucketInv, [BucketNext]_bvars, NEW c \in Distinct,
             cmd[c].doing = "reset", cmd'[c].doing # "reset"
      PROVE  state'[c] = "up" /\ cmd[c].file \in Newest(1, Own(c))
  <2> DEFINE f == cmd[c].file
  <2>1. c \in Clusters
    BY DEF Distinct
  <2>2. f \in Own(c) /\ \A p \in Own(c) : p.time <= f.time
    BY <1>1 DEF BucketInv, ChosenInv
  <2>3. \A p \in Own(c) : p.time \in Nat
    BY <1>1 DEF BucketInv, BucketTyped, Genuine, Objects, Own
  <2>4. f \in Newest(1, Own(c))
    <3> HIDE DEF f
    <3>1. \A p \in Own(c) : ~(p.time > f.time)
      BY <2>2, <2>3
    <3> QED BY <2>2, <3>1, LatestIsNewest
  <2>5. Reset(c)
    <3>1. ~Idle(c) /\ cmd' # cmd
      BY <1>1 DEF Idle, Ready, Aborted
    <3>2. ASSUME NEW d \in Clusters, d # c,
                 \/ AskPrune(d) \/ Prune(d) \/ PruneFails(d)
                 \/ Teardown(d) \/ Choose(d) \/ NoneFound(d) \/ Reset(d)
          PROVE  FALSE
      <4>1. cmd'[c] = cmd[c]
        BY <1>1, <2>1, <3>2
           DEF AskPrune, Prune, PruneFails, Teardown, Choose, NoneFound, Reset,
               BucketInv, BucketTyped
      <4> QED BY <1>1, <4>1
    <3>3. /\ ~AskPrune(c) /\ ~Prune(c) /\ ~PruneFails(c)
          /\ ~Teardown(c) /\ ~Choose(c) /\ ~NoneFound(c)
      BY <1>1, <3>1 DEF AskPrune, Prune, PruneFails, Teardown, Choose, NoneFound
    <3>4. \A d \in Clusters : ~Save(d) /\ ~List(d)
      BY <3>1 DEF Save, List
    <3> QED BY <1>1, <3>1, <3>2, <3>3, <3>4 DEF BucketNext, bvars
  <2>6. f \in bucket /\ f.owner = c
    BY <2>2 DEF Own
  <2>7. state'[c] = "up"
    BY <1>1, <2>1, <2>5, <2>6 DEF Reset, Opens, BucketInv, BucketTyped
  <2> QED BY <2>4, <2>7
<1>2. BucketInv /\ [BucketNext]_bvars => right
  BY <1>1
<1> QED BY <1>2, BucketInvariant, PTL DEF BucketSpec, RestoresLatest
=============================================================================
