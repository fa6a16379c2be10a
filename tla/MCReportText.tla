---------------------------- MODULE MCReportText ----------------------------
(* Small data sets: every order of arrival of up to three sizes out of six, *)
(* closer together than the three buckets, equal to bounds, and far apart;  *)
(* every distribution of up to four sizes with small, middling and          *)
(* dominating counts; and tables of eight sizes in which each threshold     *)
(* falls on a size of its own.                                              *)
EXTENDS ReportText

ProgramPctls == <<10, 25, 50, 75, 90, 95, 99>>

MCSizes == {0, 1, 2, 5, 9, 10}
Orders == {s \in UNION {[1..k -> MCSizes] : k \in 1..3} : IsInjective(s)}
AnyOrder ==
  { <<s, [t \in ToSet(s) |-> (CHOOSE p \in 1..Len(s) : s[p] = t)]>> : s \in Orders }

Small == UNION {[S -> {1, 3, 20}] : S \in (SUBSET {0, 1, 2, 7}) \ {{}}}
Wide ==
  { <<10, 15, 25, 25, 15, 5, 4, 1>>, <<5, 5, 15, 25, 25, 15, 5, 5>>,
    <<12, 20, 20, 30, 10, 4, 3, 1>>, <<1, 1, 1, 1, 1, 1, 1, 1>> }
Descending(S) ==
  [r \in 1..Cardinality(S) |-> CHOOSE s \in S : Cardinality({t \in S : t > s}) = r - 1]
InOrder(f) == <<Descending(DOMAIN f), f>>

MCArrivals == AnyOrder \union {InOrder(f) : f \in Small \union Wide}

(* Nineteen keys of version 1 in twenty. *)
MostlyOne == { InOrder([v \in {1, 2, 17} |-> IF v = 1 THEN 58 ELSE 1]) }
=============================================================================
