------------------------------ MODULE MCBucket ------------------------------
(***************************************************************************)
(* Clusters that share a bucket.  The pieces of their names, in the order  *)
(* of the characters they begin with:                                      *)
(*   1 "anchovy"   2 "-dev"   3 "-m"   4 "1-"   5 "2"                      *)
(***************************************************************************)
EXTENDS Bucket

\* dev/test_etcd.py:41-46: names no prune may confuse.
TestedNames == [anchovy |-> <<1>>, anchovy2 |-> <<1, 5>>, dev |-> <<1, 2>>]
=============================================================================
