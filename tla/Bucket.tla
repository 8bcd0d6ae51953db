------------------------------- MODULE Bucket -------------------------------
(***************************************************************************)
(* One S3 bucket for several clusters.  Nothing in it says whose a         *)
(* snapshot is but its name, kopsrox-<cluster_name>-m1-<time>, and the     *)
(* three commands that look there each match names in their own way:       *)
(* `etcd list` and `cluster restore` by searching for kopsrox-<name>, the  *)
(* restore then taking the last in the order of the names; `etcd prune` by *)
(* the prefix kopsrox-<name>-m, of which k3s keeps the newest.             *)
(*                                                                         *)
(* A name is a sequence of numbers, one for each piece of text, ordered as *)
(* the texts are: IsPrefix and SortsBefore are all that is ever asked.     *)
(***************************************************************************)
EXTENDS Integers, FiniteSets, SequencesExt

CONSTANTS
  ClusterName,  \* ClusterName[c]: the name of each cluster, as a sequence
  Dash, One,    \* the pieces "-m" and "1-" of a snapshot's name
  Retention,    \* etcd-snapshot-retention: 7 in the code
  MaxSaves      \* bound: snapshots ever taken

Clusters == DOMAIN ClusterName

ASSUME NamesAssumption == /\ \A c \in Clusters : ClusterName[c] \in Seq(Nat)
                          /\ Dash \in Nat /\ One \in Nat
ASSUME RetentionAssumption == Retention \in Nat \ {0} /\ MaxSaves \in Nat

VARIABLES
  bucket,  \* the snapshots: whose they are, their name and when they were taken
  saves,   \* snapshots taken so far: the clock in their names
  cmd,     \* cmd[c]: what the CLI of cluster c is doing
  shown,   \* shown[c]: what the last `etcd list` of c showed
  state    \* state[c]: whether c runs, or which snapshot it came back from

bvars == <<bucket, saves, cmd, shown, state>>

NoObject == [owner |-> "none", name |-> <<>>, time |-> 0]
Ready    == [doing |-> "none", file |-> NoObject]
Aborted  == [doing |-> "aborted", file |-> NoObject]  \* what kabort ended

BucketInit ==
  /\ bucket = {} /\ saves = 0
  /\ cmd = [c \in Clusters |-> Ready]
  /\ shown = [c \in Clusters |-> {}]
  /\ state = [c \in Clusters |-> "up"]

(********************************** Names **********************************)
FileName(c, t) == ClusterName[c] \o <<Dash, One, t>>

\* The order of sorted(): by the first difference, a prefix before the whole.
SortsBefore(s, t) ==
  \/ IsStrictPrefix(s, t)
  \/ \E i \in 1..Len(s) : /\ i <= Len(t) /\ s[i] < t[i]
                          /\ \A j \in 1..(i - 1) : s[j] = t[j]

\* Mutant of Listed: the name of the cluster is left out of the search.
EverySnapshot(c) == bucket

\* `etcd list` and the restore: re.search(f'kopsrox-{cluster_name}').
Listed(c) == {o \in bucket : IsPrefix(ClusterName[c], o.name)}

\* k3s etcd-snapshot prune --name kopsrox-<cluster_name>-m.
\* Mutants: without the master-node prefix; the node's number without its -m,
\* which no name has.
WithoutDash(c) == ClusterName[c]
WithoutM(c)    == ClusterName[c] \o <<One>>
PrunePrefix(c) == ClusterName[c] \o <<Dash>>
Pruned(c) == {o \in bucket : IsPrefix(PrunePrefix(c), o.name)}

\* The newest n of a set of snapshots.
Newest(n, S) == {o \in S : Cardinality({p \in S : p.time > o.time}) < n}

(******************************** Commands *********************************)
Idle(c) == cmd[c] \in {Ready, Aborted}

Save(c) ==
  /\ Idle(c) /\ state[c] # "gone" /\ saves < MaxSaves
  /\ saves' = saves + 1
  /\ bucket' = bucket \cup {[owner |-> c, name |-> FileName(c, saves + 1),
                             time |-> saves + 1]}
  /\ UNCHANGED <<cmd, shown, state>>

List(c) ==
  /\ Idle(c) /\ state[c] # "gone"
  /\ shown' = [shown EXCEPT ![c] = Listed(c)]
  /\ UNCHANGED <<bucket, saves, cmd, state>>

\* `etcd prune`: the call goes out, and others work until it is answered.
AskPrune(c) ==
  /\ Idle(c) /\ state[c] # "gone"
  /\ cmd' = [cmd EXCEPT ![c] = [Ready EXCEPT !.doing = "prune"]]
  /\ UNCHANGED <<bucket, saves, shown, state>>

Kept(c) == Newest(Retention, Pruned(c))
Prune(c) ==
  /\ cmd[c].doing = "prune"
  /\ bucket' = (bucket \ Pruned(c)) \cup Kept(c)
  /\ cmd' = [cmd EXCEPT ![c] = Ready]
  /\ UNCHANGED <<saves, shown, state>>

\* level=fatal with some of them deleted: kabort.
PruneFails(c) ==
  /\ cmd[c].doing = "prune"
  /\ \E D \in SUBSET (Pruned(c) \ Kept(c)) : bucket' = bucket \ D
  /\ cmd' = [cmd EXCEPT ![c] = Aborted]
  /\ UNCHANGED <<saves, shown, state>>

\* cluster restore: the cluster goes first, then its throwaway master lists.
Teardown(c) ==
  /\ Idle(c)
  /\ cmd' = [cmd EXCEPT ![c] = [Ready EXCEPT !.doing = "choose"]]
  /\ state' = [state EXCEPT ![c] = "gone"]
  /\ UNCHANGED <<bucket, saves, shown>>

\* Without a name it is the last of the sorted list (with one, see Kopsrox).
\* Mutant of Latest: the first of the list.
Earliest(S) == {o \in S : \A p \in S \ {o} : SortsBefore(o.name, p.name)}
Latest(S)  == {o \in S : \A p \in S \ {o} : SortsBefore(p.name, o.name)}
Choose(c) ==
  /\ cmd[c].doing = "choose"
  /\ \E o \in Latest(Listed(c)) : cmd' = [cmd EXCEPT ![c] = [doing |-> "reset", file |-> o]]
  /\ UNCHANGED <<bucket, saves, shown, state>>

NoneFound(c) ==
  /\ cmd[c].doing = "choose" /\ Listed(c) = {}
  /\ cmd' = [cmd EXCEPT ![c] = Aborted]
  /\ UNCHANGED <<bucket, saves, shown, state>>

\* The reset fetches the file; only the cluster's own token opens it.
Opens(c) == cmd[c].file \in bucket /\ cmd[c].file.owner = c
Reset(c) ==
  /\ cmd[c].doing = "reset"
  /\ cmd' = [cmd EXCEPT ![c] = IF Opens(c) THEN Ready ELSE Aborted]
  /\ state' = [state EXCEPT ![c] = IF Opens(c) THEN "up" ELSE "gone"]
  /\ UNCHANGED <<bucket, saves, shown>>

BucketNext == \E c \in Clusters :
  \/ Save(c) \/ List(c) \/ AskPrune(c) \/ Prune(c) \/ PruneFails(c)
  \/ Teardown(c) \/ Choose(c) \/ NoneFound(c) \/ Reset(c)

BucketSpec == BucketInit /\ [][BucketNext]_bvars

(******************************* Properties ********************************)
Own(c) == {o \in bucket : o.owner = c}

\* verb_etcd.py:73-75: whoever prunes, every cluster keeps its newest snapshots,
\* as many as the retention says, where no name is another's followed by -m.
NewestKept == [][\A c \in Clusters : Newest(Retention, Own(c)) \subseteq bucket']_bvars

\* README.md:179, verb_etcd.py:73-75: a prune that ends well has left, of all that
\* the bucket held, everything of the other clusters and of its own exactly the
\* newest, as many as the retention says.
PruneWorks == [][\A c \in Clusters : cmd[c].doing = "prune" /\ cmd'[c] = Ready
                   => /\ bucket' = (bucket \ Own(c)) \cup Newest(Retention, Own(c))
                      /\ Cardinality(Own(c)') <= Retention]_bvars

\* The clusters whose name does not begin another's, as anchovy begins anchovy2.
Distinct == {c \in Clusters :
               \A d \in Clusters : ~IsStrictPrefix(ClusterName[c], ClusterName[d])}

\* README.md:178: `etcd list` lists this cluster's snapshots, where no other
\* cluster's name is longer by some characters: the search is not closed by the
\* dash that ends the name.
ListsOwn == \A c \in Distinct, o \in bucket : o \in shown[c] => o.owner = c

\* README.md:163: with a name like that, a restore brings the cluster back from
\* its latest snapshot, whatever else is in the bucket and happens to it meanwhile.
RestoresLatest == [][\A c \in Distinct : cmd[c].doing = "reset" /\ cmd'[c].doing # "reset"
                         /\ Own(c) # {}
                       => state'[c] = "up" /\ cmd[c].file \in Newest(1, Own(c))]_bvars
=============================================================================
