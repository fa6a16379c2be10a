---------------------------- MODULE MCWalSummary ----------------------------
(* Small instances of WalSummary: entries of every form, transactions with  *)
(* writes in both branches, and two keys that are the same in JSON.         *)
EXTENDS WalSummary

MCKey == {"a", "b", "y\\xfe", "y\\xff"}
MCJSONKey == [k \in MCKey |-> IF k \in {"a", "b"} THEN k ELSE "y?"]

Write(kind, k) ==
  [kind |-> kind, key |-> k, size |-> IF k = "a" THEN 2 ELSE 1, Success |-> <<>>, Failure |-> <<>>]
NestedTxn(success, failure) ==
  [kind |-> "Txn", key |-> NoKey, size |-> 0, Success |-> success, Failure |-> failure]
Txn(success, failure) == [Success |-> success, Failure |-> failure]

Entry(form, path, rr) == [form |-> form, path |-> path, rr |-> rr]
NoFields == [f \in {} |-> 0]
Plain(form) == Entry(form, NoKey, NoFields)
Set(f, content) == Entry("IRR", NoKey, [g \in {f} |-> content])

SingleWrites == {Write("Put", "a"), Write("Put", "b"), Write("Put", "y\\xfe"), Write("Put", "y\\xff"),
                 Write("DeleteRange", "a")}

FlatTxns ==
  { Txn(<<Write("Put", "a"), Write("DeleteRange", "b")>>, <<Write("Put", "b")>>),
    Txn(<<Write("Range", "a")>>, <<Write("Put", "a")>>) }
Nested == NestedTxn(<<Write("Put", "a")>>, <<Write("DeleteRange", "a")>>)
NestedTxns ==
  { Txn(<<Write("Put", "b"), Nested>>, <<>>) }

Common == {Set(w.kind, w) : w \in SingleWrites} \union {Set("Txn", t) : t \in FlatTxns \union NestedTxns}
Rare == {Plain("ConfigChange"), Plain("Normal"), Entry("Request", "a", NoFields),
         Plain("IRR"), Set("LeaseGrant", 0)}
MCEntries == Common \union Rare
MCItem == SingleWrites \union {Write("DeleteRange", "b"), Write("Range", "a"), Nested}
MCTypes == {{}, {"IRRPut", "IRRDeleteRange"}, {"IRRTxn"}}
MCSorts == {"put-count", "delete-count", "total-ops"}
MCTops == {0, 2}
NoTypes == {{}}
ByPuts == {"put-count"}
NoTop == {0}
=============================================================================
