----------------------------- MODULE CursorScan -----------------------------
(***************************************************************************)
(* What a paginated scan is, seen from outside: a cursor that walks a      *)
(* changing set of keys.  Each step takes some of the next keys above the  *)
(* last one taken, as the set is at that moment.  The scan ends when its   *)
(* quota is reached or none of the keys it can still see is left.          *)
(*                                                                         *)
(* The cursor has one blind spot.  When the last key it took has been      *)
(* deleted, the key after it is never seen.                                *)
(***************************************************************************)
EXTENDS Integers, Sequences, FiniteSets

CONSTANT Key

VARIABLES store, first, last, quota, emitted, ended

cursorVars == <<store, first, last, quota, emitted, ended>>

Taken == {emitted[i] : i \in 1..Len(emitted)}
Ahead == {k \in store : first <= k /\ k <= last /\ \A t \in Taken : t < k}

CursorGone == emitted # <<>> /\ emitted[Len(emitted)] \notin store
Visible ==
  IF CursorGone THEN {k \in Ahead : \E j \in Ahead : j < k} ELSE Ahead

Init ==
  /\ store \in SUBSET Key
  /\ first \in Nat /\ last \in Nat /\ quota \in Nat
  /\ emitted = <<>>
  /\ ended = FALSE

(* s lists the least visible keys: everything it leaves out is larger. *)
NextKeys(s) ==
  /\ \A i, j \in 1..Len(s) : i < j => s[i] < s[j]
  /\ \A k \in Visible : (\A i \in 1..Len(s) : s[i] # k) => \A i \in 1..Len(s) : s[i] < k

Take ==
  /\ ~ended
  /\ ended' \in BOOLEAN
  /\ \E s \in UNION {[1..n -> Visible] : n \in 0..Cardinality(Visible)} :
       /\ NextKeys(s)
       /\ emitted' = emitted \o s
       /\ ended' =>
            \/ Len(s) = Cardinality(Visible)
            \/ quota > 0 /\ Len(emitted') = quota
  /\ UNCHANGED <<store, first, last, quota>>

(* The other clients of the store. *)
Insert ==
  /\ \E k \in Key : store' = store \union {k}
  /\ UNCHANGED <<first, last, quota, emitted, ended>>

Remove ==
  /\ \E k \in Key : store' = store \ {k}
  /\ UNCHANGED <<first, last, quota, emitted, ended>>

Next == Take \/ Insert \/ Remove

Spec == Init /\ [][Next]_cursorVars
=============================================================================
