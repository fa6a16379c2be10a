----------------------------- MODULE MCSummary -----------------------------
(* Up to four of six keys: at three depths, with and without a suffix, an   *)
(* absolute path or not, small, empty and large values, shared leases, and  *)
(* two keys that are one in JSON.                                           *)
EXTENDS Summary

kv(key, v, create, mod, version, lease) ==
  [Key |-> key, keySize |-> Len(key) * 2, valueSize |-> v, CreateRevision |-> create,
   ModRevision |-> mod, Version |-> version, Lease |-> lease,
   RevCount |-> version + 1, TombstoneCount |-> 1]

root == <<"">>
Keys ==
  << kv(<<root, <<"a">>, <<"b">>, <<"x", "\\xfe">>>>, 10, 2, 5, 2, 0),
     kv(<<root, <<"a">>, <<"b">>, <<"x", "\\xff">>>>, 200000, 3, 3, 1, 7),
     kv(<<root, <<"a">>, <<"c">>>>, 0, 4, 2009, 2000, 7),
     kv(<<root, <<"d">>>>, 11, 6, 6, 1, 8),
     kv(<<root, <<"d">>, <<"e">>>>, 12, 7, 17, 11, 0),
     kv(<<<<"g">>, <<"h">>>>, 13, 8, 8, 1, 0) >>

Chosen(S) == [i \in 1..Cardinality(S) |-> Keys[CHOOSE k \in S : Cardinality({j \in S : j < k}) = i - 1]]
MCStores == {Chosen(S) : S \in {T \in SUBSET (1..6) : Cardinality(T) <= 4}}

Unchanged == 3..6
ReadBack == <<root, <<"a">>, <<"b">>, <<"x", "?">>>>
MCJSONKey ==
  [k \in {Keys[i].Key : i \in 1..6} |->
     IF \E i \in Unchanged : k = Keys[i].Key THEN k ELSE ReadBack]

(* The prefixes "", "/a" and one that ends with an invalid byte.            *)
MCPrefixes ==
  {{Keys[i].Key : i \in S} \union {ReadBack} : S \in {1..6, 1..3}} \union {{Keys[1].Key}}

MCFilters ==
  { [Attribute |-> "none", Min |-> -1, Max |-> -1], [Attribute |-> "value", Min |-> 1, Max |-> 12],
    [Attribute |-> "key", Min |-> 6, Max |-> 0] }

config(depth, strip, top, sort) ==
  [GroupDepth |-> depth, StripSuffix |-> strip, Top |-> top, SortBy |-> sort,
   MinCreateRevision |-> 4, MaxCreateRevision |-> 0, MinModRevision |-> 0, MaxModRevision |-> 6]

MCConfigs ==
  { config(0, FALSE, 3, "Count"), config(1, FALSE, 1, "AvgSize"), config(3, TRUE, 2, "TotalSize"),
    config(3, FALSE, 1, "DistinctLeaseCount"), config(2, FALSE, 3, "Key") }
=============================================================================
