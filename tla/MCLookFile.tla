----------------------------- MODULE MCLookFile -----------------------------
(* Small instances of LookFile: three keys, two of which are one in JSON,   *)
(* with values of two sizes.                                                *)
EXTENDS LookFile

MCKey == 1..3
ReadBack == 9
MCJSONKey == [k \in MCKey |-> IF k = 2 THEN k ELSE ReadBack]
MCSize == {1, 2}
MCStores ==
  {[k \in S |-> 1] : S \in SUBSET MCKey} \union {[k \in MCKey |-> IF k = 2 THEN 2 ELSE 1]}

NoBounds == [Attribute |-> "none", Min |-> -1, Max |-> -1]
LargeValues == [Attribute |-> "value", Min |-> 2, Max |-> 0]

Flags(mode, keysOnly, showValue, filter, hang, interval, from) ==
  [mode |-> mode, keysOnly |-> keysOnly, showValue |-> showValue, filter |-> filter,
   hang |-> hang, interval |-> interval, from |-> from, to |-> 3]

MCConfigs ==
  { Flags("file", FALSE, FALSE, NoBounds, TRUE, 2, 1),
    Flags("file", FALSE, FALSE, LargeValues, TRUE, 2, 2),
    Flags("file", FALSE, FALSE, NoBounds, TRUE, 0, 1),
    Flags("log", TRUE, FALSE, NoBounds, TRUE, 2, 1),
    Flags("stdout", FALSE, FALSE, NoBounds, TRUE, 2, 1),
    Flags("jsonl", FALSE, FALSE, NoBounds, TRUE, 2, 1),
    Flags("jsonl", FALSE, TRUE, LargeValues, FALSE, 2, 1),
    Flags("jsonl", TRUE, FALSE, NoBounds, FALSE, 2, 2),
    Flags("jsonl", TRUE, FALSE, LargeValues, FALSE, 2, 1),
    Flags("file", TRUE, TRUE, NoBounds, FALSE, 2, 1) }

(* The last one matches an invalid byte.                                    *)
MCMatches == {MCKey \union {ReadBack}, {1, 3, ReadBack}, {2}, {}, {3}}
MCLimits == {-1, 0, 1, 2, 5}
=============================================================================
