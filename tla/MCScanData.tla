----------------------------- MODULE MCScanData -----------------------------
(* Small instances of ScanData: five keys, with and without a prefix.       *)
EXTENDS ScanData

MCKey == 1..5
WholeRange == {<<1, 5>>}
WholeAndPrefix == {<<1, 5>>, <<2, 4>>}
SmallPages == {2, 3}
DefaultAndSmall == {0, 2}
NoLimit == {0}
WithAndWithoutLimit == {-1, 2}
=============================================================================
