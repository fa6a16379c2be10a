---------------------------- MODULE MCWalSource -----------------------------
(* Small instances of WalSource: puts and transactions, a few segments.     *)
EXTENDS WalSource

D == INSTANCE WalDecode

PutsAndTxns == {"Put", "Txn"}
SmallWrite == [kind |-> "Put", key |-> "a", size |-> 1]
Content(k) == IF k = "Txn" THEN [Success |-> <<SmallWrite>>, Failure |-> <<>>] ELSE SmallWrite

OpsOfKinds ==
  [k \in PutsAndTxns |-> IF k = "Txn" THEN <<"IRRTxn", "IRRTxn">> ELSE <<"IRRPut">>]

(* These are the entry types that such an entry is decoded to.              *)
ASSUME OpsOfKindsAssumption ==
  \A k \in PutsAndTxns :
    LET ops == D!decodeEntry([index |-> 1, form |-> "IRR", path |-> "", rr |-> k :> Content(k)])
    IN  OpsOfKinds[k] = [n \in DOMAIN ops |-> ops[n].EntryType]

SomeFilters == {{}, {"IRRTxn"}}
=============================================================================
