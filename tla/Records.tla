------------------------------ MODULE Records ------------------------------
(***************************************************************************)
(* The per-key records of the program (KeyMeta, src/core/meta.go), the     *)
(* filters on them (src/core/filter.go), and the grouping of keys by their *)
(* path (src/core/summary.go).                                             *)
(*                                                                         *)
(* A key is a path: the sequence of the segments that strings.Split(key,   *)
(* "/") gives, each of them the sequence of its pieces between the         *)
(* separators of --strip-suffix.  "/pods/web.1" is                         *)
(* << <<"">>, <<"pods">>, <<"web", "1">> >>.                               *)
(*                                                                         *)
(* A key-value as it is stored is a record with the fields Key, keySize,   *)
(* valueSize, CreateRevision, ModRevision, Version, Lease and, for the     *)
(* records made from a snapshot file, RevCount and TombstoneCount.         *)
(***************************************************************************)
EXTENDS Integers, Sequences, FiniteSets, SequencesExt

absent == -1  \* a nil pointer; KvSize() and ValueSize() turn it into -1

WithoutSizes(kv) ==
  [Key |-> kv.Key, KeySizeBytes |-> kv.keySize,
   ValueSizeBytes |-> absent, KvSizeBytes |-> absent,
   CreateRevision |-> kv.CreateRevision, ModRevision |-> kv.ModRevision,
   Version |-> kv.Version, Lease |-> kv.Lease,
   RevCount |-> absent, TombstoneCount |-> absent]

KVToMeta(kv, keysOnly) ==
  IF keysOnly
    THEN WithoutSizes(kv)
    ELSE [WithoutSizes(kv) EXCEPT !.ValueSizeBytes = kv.valueSize,
                                  !.KvSizeBytes = kv.keySize + kv.valueSize]

SnapshotKVToMeta(kv) ==
  [KVToMeta(kv, FALSE) EXCEPT !.RevCount = kv.RevCount, !.TombstoneCount = kv.TombstoneCount]

----------------------------------------------------------------------------
(* A filter is a record [Attribute, Min, Max].                              *)

outOfRange(size, min, max) == (min > 0 /\ size < min) \/ (max > 0 /\ size > max)

NoFilter(f) == f.Attribute = "none" \/ (f.Min <= 0 /\ f.Max <= 0)

(* On the way from etcd.                                                    *)
Reject(f, kv) ==
  LET size == CASE f.Attribute = "key" -> kv.keySize
                [] f.Attribute = "value" -> kv.valueSize
                [] OTHER -> kv.keySize + kv.valueSize
  IN  ~NoFilter(f) /\ outOfRange(size, f.Min, f.Max)

(* On a record that was read back, perhaps one without sizes; first a       *)
(* faulty variant, in which the check for a missing size is missing.        *)
BugRejectMeta(f, m) ==
  LET size == CASE f.Attribute = "key" -> m.KeySizeBytes
                [] f.Attribute = "value" -> m.ValueSizeBytes
                [] OTHER -> m.KvSizeBytes
  IN  ~NoFilter(f) /\ outOfRange(size, f.Min, f.Max)

RejectMeta(f, m) ==
  LET size == CASE f.Attribute = "key" -> m.KeySizeBytes
                [] f.Attribute = "value" -> m.ValueSizeBytes
                [] OTHER -> m.KvSizeBytes
  IN  ~NoFilter(f) /\ size # absent /\ outOfRange(size, f.Min, f.Max)

FilterMetas(metas, f) ==
  FlattenSeq([i \in DOMAIN metas |-> IF RejectMeta(f, metas[i]) THEN <<>> ELSE <<metas[i]>>])

CheckFilterCombination(keysOnly, f) == ~(keysOnly /\ f.Attribute \in {"value", "kv"})

(* A prefix is represented by the set of the keys that start with it.       *)
FilterMetasByPrefix(metas, prefix) ==
  FlattenSeq([i \in DOMAIN metas |-> IF metas[i].Key \in prefix THEN <<metas[i]>> ELSE <<>>])

----------------------------------------------------------------------------
(* Grouping.  The depth is positive: Summarize replaces any other by 2.     *)

GroupPrefix(path, depth) == IF depth + 1 < Len(path) THEN SubSeq(path, 1, depth + 1) ELSE path

StripLastSegmentSuffix(path, strip) ==
  IF strip /\ Len(Last(path)) > 1
    THEN Append(Front(path), Front(Last(path)))
    ELSE path

----------------------------------------------------------------------------
(* The orders that sort.Slice may leave behind, which does not keep the     *)
(* order of equal elements: all descending ones.                            *)
Descending(S, key(_)) ==
  { s \in SetToSeqs(S) : \A a, b \in 1..Len(s) : a < b => key(s[a]) >= key(s[b]) }

Larger(a, b) == IF a > b THEN a ELSE b
AddCount(counts, k) ==
  [j \in DOMAIN counts \union {k} |->
     (IF j \in DOMAIN counts THEN counts[j] ELSE 0) + (IF j = k THEN 1 ELSE 0)]
NoCounts == [k \in {} |-> 0]
=============================================================================
