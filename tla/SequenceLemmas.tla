---------------------------- MODULE SequenceLemmas ----------------------------
(***************************************************************************)
(* Facts about the library operators that the specifications are built     *)
(* from.  FlattenSeq, FoldLeft and SumFunctionOnSet are defined by         *)
(* recursion; what they make of a longer sequence or a larger set is       *)
(* proved here by induction, with the induction principle itself stated    *)
(* for sets of numbers (SetInduction), a form the provers can instantiate. *)
(***************************************************************************)
EXTENDS Integers, Sequences, SequencesExt, SequenceTheorems, FiniteSetTheorems,
        WellFoundedInduction, TLAPS

(* A set that holds 0 and, with n, also n + 1 holds every natural number.   *)
LEMMA SetInduction ==
  ASSUME NEW T, 0 \in T, \A n \in Nat : n \in T => n + 1 \in T
  PROVE  Nat \subseteq T
<1> DEFINE U == Nat \ T
           R == OpToRel(<, Nat)
<1>1. SUFFICES ASSUME U # {} PROVE FALSE
  OBVIOUS
<1>2. \E x \in U : \A y \in U : ~(<<y, x>> \in R)
  <2> HIDE DEF R
  <2>1. IsWellFoundedOn(R, Nat)
    BY NatLessThanWellFounded DEF R
  <2>2. U \subseteq Nat
    OBVIOUS
  <2> HIDE DEF U
  <2> QED BY <2>1, <2>2, <1>1, WFMin
<1>3. PICK x \in U : \A y \in U : ~(<<y, x>> \in R)
  BY <1>2
<1>4. x \in Nat /\ x # 0 /\ x - 1 \in Nat /\ (x - 1) + 1 = x
  OBVIOUS
<1>5. x - 1 \in U
  BY <1>4
<1>6. <<x - 1, x>> \in R
  BY <1>4 DEF OpToRel
<1> QED BY <1>3, <1>5, <1>6

(* The same for the numbers from 1 to m.                                    *)
LEMMA IntervalInduction ==
  ASSUME NEW m \in Nat, NEW T, 1 \in T, \A n \in 1..(m - 1) : n \in T => n + 1 \in T
  PROVE  1..m \subseteq T
<1> DEFINE U == {n \in Nat : n + 1 \in 1..m => n + 1 \in T}
<1>1. 0 \in U
  OBVIOUS
<1>2. ASSUME NEW n \in Nat, n \in U PROVE n + 1 \in U
  <2>1. SUFFICES ASSUME (n + 1) + 1 \in 1..m PROVE (n + 1) + 1 \in T
    OBVIOUS
  <2>2. n + 1 \in 1..(m - 1) /\ n + 1 \in 1..m
    BY <2>1
  <2>3. n + 1 \in T
    BY <1>2, <2>2
  <2> QED BY <2>2, <2>3
<1>3. Nat \subseteq U
  <2> HIDE DEF U
  <2> QED BY <1>1, <1>2, SetInduction
<1> SUFFICES ASSUME NEW i \in 1..m PROVE i \in T
  OBVIOUS
<1>4. i - 1 \in Nat /\ (i - 1) + 1 = i
  OBVIOUS
<1>5. i - 1 \in U
  BY <1>3, <1>4
<1> QED BY <1>4, <1>5

(* The recursive function that FlattenSeq chooses exists, for any sequence  *)
(* of sequences that is not empty.                                          *)
LEMMA FlattenExists ==
  ASSUME NEW S, NEW s \in Seq(Seq(S)), s # <<>>
  PROVE  \E f \in [1..Len(s) -> Seq(S)] :
           f = [i \in 1..Len(s) |-> IF i = 1 THEN s[i] ELSE f[i-1] \o s[i]]
<1> DEFINE Solution(f, n) == \A i \in 1..n : f[i] = IF i = 1 THEN s[i] ELSE f[i-1] \o s[i]
           T == {n \in Nat : n <= Len(s) => \E f \in [1..n -> Seq(S)] : Solution(f, n)}
<1>1. Len(s) \in Nat /\ Len(s) >= 1 /\ \A i \in 1..Len(s) : s[i] \in Seq(S)
  OBVIOUS
<1>2. 0 \in T
  <2>1. [i \in 1..0 |-> <<>>] \in [1..0 -> Seq(S)]
    OBVIOUS
  <2>2. Solution([i \in 1..0 |-> <<>>], 0)
    OBVIOUS
  <2> QED BY <2>1, <2>2
<1>3. ASSUME NEW n \in Nat, n \in T PROVE n + 1 \in T
  <2>1. SUFFICES ASSUME n + 1 <= Len(s) PROVE \E f \in [1..(n+1) -> Seq(S)] : Solution(f, n+1)
    OBVIOUS
  <2>2. PICK g \in [1..n -> Seq(S)] : Solution(g, n)
    BY <1>1, <1>3, <2>1
  <2> DEFINE new == IF n = 0 THEN s[n+1] ELSE g[n] \o s[n+1]
             h == [i \in 1..(n+1) |-> IF i = n + 1 THEN new ELSE g[i]]
  <2>3. new \in Seq(S)
    <3>1. s[n+1] \in Seq(S)
      BY <1>1, <2>1
    <3>2. n # 0 => g[n] \in Seq(S)
      BY <2>2
    <3> QED BY <3>1, <3>2
  <2>4. h \in [1..(n+1) -> Seq(S)]
    <3> HIDE DEF new
    <3> QED BY <2>2, <2>3
  <2>5. Solution(h, n+1)
    <3> SUFFICES ASSUME NEW i \in 1..(n+1)
                 PROVE  h[i] = IF i = 1 THEN s[i] ELSE h[i-1] \o s[i]
      OBVIOUS
    <3>1. CASE i = n + 1
      <4>1. h[i] = new
        BY <3>1
      <4>2. i # 1 => h[i-1] = g[n]
        BY <3>1
      <4> QED BY <3>1, <4>1, <4>2
    <3>2. CASE i # n + 1
      <4>1. h[i] = g[i] /\ i \in 1..n
        BY <3>2
      <4>2. i # 1 => h[i-1] = g[i-1]
        BY <3>2
      <4> QED BY <2>2, <4>1, <4>2
    <3> QED BY <3>1, <3>2
  <2> HIDE DEF h, Solution
  <2> QED BY <2>4, <2>5
<1>4. Len(s) \in T
  <2> HIDE DEF T
  <2> QED BY <1>1, <1>2, <1>3, SetInduction
<1>5. PICK f \in [1..Len(s) -> Seq(S)] : Solution(f, Len(s))
  <2> HIDE DEF Solution
  <2> QED BY <1>1, <1>4
<1>6. f = [i \in 1..Len(s) |-> IF i = 1 THEN s[i] ELSE f[i-1] \o s[i]]
  BY <1>5
<1> QED BY <1>6

(* The value of FlattenSeq is that of a function which adds one sequence at *)
(* a time.                                                                  *)
LEMMA FlattenEquation ==
  ASSUME NEW S, NEW s \in Seq(Seq(S)), s # <<>>
  PROVE  \E f : /\ FlattenSeq(s) = f[Len(s)]
                /\ f[1] = s[1]
                /\ \A n \in 1..(Len(s) - 1) : f[n + 1] = f[n] \o s[n + 1]
<1> DEFINE P(f) == f = [i \in 1..Len(s) |-> IF i = 1 THEN s[i] ELSE f[i-1] \o s[i]]
<1>1. \E f : P(f)
  <2>1. PICK f \in [1..Len(s) -> Seq(S)] : P(f)
    BY FlattenExists
  <2> QED BY <2>1
<1>2. P(CHOOSE f : P(f))
  BY <1>1, Zenon
<1>3. Len(s) \in Nat /\ Len(s) >= 1 /\ Len(s) # 0
  OBVIOUS
<1>4. FlattenSeq(s) = (CHOOSE f : P(f))[Len(s)]
  BY <1>3, Zenon DEF FlattenSeq
<1>9. PICK f : P(f) /\ FlattenSeq(s) = f[Len(s)]
  BY <1>2, <1>4, Zenon
<1>5. \A i \in 1..Len(s) : f[i] = IF i = 1 THEN s[i] ELSE f[i-1] \o s[i]
  BY <1>9
<1>6. f[1] = s[1]
  BY <1>3, <1>5
<1>7. ASSUME NEW n \in 1..(Len(s) - 1) PROVE f[n + 1] = f[n] \o s[n + 1]
  <2>1. n + 1 \in 1..Len(s) /\ n + 1 # 1 /\ (n + 1) - 1 = n
    BY <1>3
  <2>2. f[n + 1] = f[(n + 1) - 1] \o s[n + 1]
    BY <1>5, <2>1, Zenon
  <2> QED BY <2>1, <2>2, Zenon
<1> QED BY <1>6, <1>7, <1>9, Zenon

(* Flattening sequences over S gives a sequence over S.                     *)
LEMMA FlattenType ==
  ASSUME NEW S, NEW s \in Seq(Seq(S))
  PROVE  FlattenSeq(s) \in Seq(S)
<1>1. CASE s = <<>>
  <2>1. FlattenSeq(s) = <<>>
    BY <1>1 DEF FlattenSeq
  <2> QED BY <2>1
<1>2. CASE s # <<>>
  <2>1. Len(s) \in Nat /\ Len(s) >= 1 /\ \A i \in 1..Len(s) : s[i] \in Seq(S)
    BY <1>2
  <2>2. PICK f : /\ FlattenSeq(s) = f[Len(s)]
                 /\ f[1] = s[1]
                 /\ \A n \in 1..(Len(s) - 1) : f[n + 1] = f[n] \o s[n + 1]
    BY <1>2, FlattenEquation
  <2> DEFINE T == {n \in 1..Len(s) : f[n] \in Seq(S)}
  <2>4. 1 \in T
    BY <2>1, <2>2
  <2>5. ASSUME NEW n \in 1..(Len(s) - 1), n \in T PROVE n + 1 \in T
    <3>1. n + 1 \in 1..Len(s) /\ s[n + 1] \in Seq(S) /\ f[n] \in Seq(S)
      BY <2>1, <2>5
    <3>2. f[n] \o s[n + 1] \in Seq(S)
      BY <3>1
    <3> QED BY <2>2, <3>1, <3>2
  <2>6. Len(s) \in T
    <3> HIDE DEF T
    <3>1. 1..Len(s) \subseteq T
      BY <2>1, <2>4, <2>5, IntervalInduction
    <3> QED BY <2>1, <3>1
  <2> QED BY <2>1, <2>2, <2>6
<1> QED BY <1>1, <1>2

(* What Append does, index by index.                                        *)
LEMMA AppendFacts ==
  ASSUME NEW S, NEW s \in Seq(S), NEW x \in S
  PROVE  /\ Append(s, x) \in Seq(S) /\ Append(s, x) # <<>>
         /\ Len(s) \in Nat /\ Len(Append(s, x)) = Len(s) + 1
         /\ Append(s, x)[Len(s) + 1] = x
         /\ \A i \in 1..Len(s) : Append(s, x)[i] = s[i]
OBVIOUS

(* Flattening one more sequence adds it at the end.                         *)
LEMMA FlattenAppend ==
  ASSUME NEW S, NEW s \in Seq(Seq(S)), NEW x \in Seq(S)
  PROVE  FlattenSeq(Append(s, x)) = FlattenSeq(s) \o x
<1> DEFINE t == Append(s, x)
<1>1. /\ t \in Seq(Seq(S)) /\ t # <<>>
      /\ Len(s) \in Nat /\ Len(t) = Len(s) + 1
      /\ t[Len(s) + 1] = x /\ \A i \in 1..Len(s) : t[i] = s[i]
  BY AppendFacts
<1> HIDE DEF t
<1>2. PICK g : /\ FlattenSeq(t) = g[Len(t)]
               /\ g[1] = t[1]
               /\ \A n \in 1..(Len(t) - 1) : g[n + 1] = g[n] \o t[n + 1]
  BY <1>1, FlattenEquation
<1>4. CASE s = <<>>
  <2>1. FlattenSeq(s) = <<>>
    BY <1>4 DEF FlattenSeq
  <2>2. Len(s) = 0 /\ Len(t) = 1 /\ t[1] = x
    BY <1>1, <1>4
  <2> QED BY <1>2, <2>1, <2>2 DEF t
<1>5. CASE s # <<>>
  <2>1. Len(s) >= 1
    BY <1>5
  <2>2. PICK f : /\ FlattenSeq(s) = f[Len(s)]
                 /\ f[1] = s[1]
                 /\ \A n \in 1..(Len(s) - 1) : f[n + 1] = f[n] \o s[n + 1]
    BY <1>5, FlattenEquation
  <2> DEFINE T == {n \in 1..Len(s) : f[n] = g[n]}
  <2>4. 1 \in T
    <3>1. 1 \in 1..Len(s)
      BY <1>1, <2>1
    <3> QED BY <1>1, <1>2, <2>2, <3>1
  <2>5. ASSUME NEW n \in 1..(Len(s) - 1), n \in T PROVE n + 1 \in T
    <3>1. n + 1 \in 1..Len(s) /\ n \in 1..(Len(t) - 1)
      BY <1>1
    <3>2. f[n + 1] = f[n] \o s[n + 1] /\ g[n + 1] = g[n] \o t[n + 1]
      BY <1>2, <2>2, <3>1
    <3>3. t[n + 1] = s[n + 1] /\ f[n] = g[n]
      BY <1>1, <2>5, <3>1
    <3> QED BY <3>1, <3>2, <3>3, Zenon
  <2>6. Len(s) \in T
    <3> HIDE DEF T
    <3>1. 1..Len(s) \subseteq T
      BY <1>1, <2>4, <2>5, IntervalInduction
    <3>2. Len(s) \in 1..Len(s)
      BY <1>1, <2>1
    <3> QED BY <3>1, <3>2, Zenon
  <2>7. f[Len(s)] = g[Len(s)]
    BY <2>6
  <2>8. g[Len(t)] = g[Len(s)] \o x
    <3>1. Len(s) \in 1..(Len(t) - 1)
      BY <1>1, <2>1
    <3> QED BY <1>1, <1>2, <3>1, Zenon
  <2> QED BY <1>2, <2>2, <2>7, <2>8, Zenon DEF t
<1> QED BY <1>4, <1>5

(* The same for a prefix that grows by one sequence.                        *)
LEMMA FlattenPrefix ==
  ASSUME NEW S, NEW s \in Seq(Seq(S)), NEW b \in 0..(Len(s) - 1)
  PROVE  FlattenSeq(SubSeq(s, 1, b + 1)) = FlattenSeq(SubSeq(s, 1, b)) \o s[b + 1]
<1>1. Len(s) \in Nat /\ b + 1 \in 1..Len(s) /\ s[b + 1] \in Seq(S)
  OBVIOUS
<1>2. SubSeq(s, 1, b) \in Seq(Seq(S))
  OBVIOUS
<1>3. SubSeq(s, 1, b + 1) = Append(SubSeq(s, 1, b), s[b + 1])
  <2>1. /\ SubSeq(s, 1, b + 1) \in Seq(Seq(S)) /\ Len(SubSeq(s, 1, b + 1)) = b + 1
        /\ \A i \in 1..(b + 1) : SubSeq(s, 1, b + 1)[i] = s[i]
    BY <1>1
  <2>2. /\ Len(SubSeq(s, 1, b)) = b /\ \A i \in 1..b : SubSeq(s, 1, b)[i] = s[i]
    BY <1>1
  <2> DEFINE u == Append(SubSeq(s, 1, b), s[b + 1])
  <2>3. /\ u \in Seq(Seq(S)) /\ Len(u) = b + 1 
        /\ \A i \in 1..(b + 1) : u[i] = s[i]
    BY <1>1, <1>2, <2>2, SMTT(30)
  <2> HIDE DEF u
  <2>4. SubSeq(s, 1, b + 1) = u
    BY <2>1, <2>3, SeqEqual
  <2> QED BY <2>4 DEF u
<1> QED BY <1>1, <1>2, <1>3, FlattenAppend

(* The largest of some numbers up to n is n if it is among them.            *)
LEMMA MaxOfPrefix ==
  ASSUME NEW n \in Nat, NEW T \in SUBSET (1..n), n \in T
  PROVE  Max(T) = n
<1> DEFINE P(x) == x \in T /\ \A y \in T : x >= y
<1>1. P(n)
  OBVIOUS
<1>2. P(CHOOSE x : P(x))
  BY <1>1, Zenon
<1>3. Max(T) = CHOOSE x : P(x)
  BY Zenon DEF Max
<1>4. P(Max(T))
  BY <1>2, <1>3, Zenon
<1> DEFINE m == Max(T)
<1>5. m \in T /\ m >= n
  BY <1>4, Zenon
<1> HIDE DEF m
<1>6. m = n
  BY <1>5
<1> QED BY <1>6 DEF m

(* The recursive definition behind FoldLeft(+, 0, s) has a solution.        *)
LEMMA SumExists ==
  ASSUME NEW s \in Seq(Nat)
  PROVE  \E f \in [SUBSET (1..Len(s)) -> Nat] :
           f = [T \in SUBSET (1..Len(s)) |-> IF T = {} THEN 0 ELSE f[T \ {Max(T)}] + s[Max(T)]]
<1> DEFINE Solution(f, n) == \A T \in SUBSET (1..n) :
                               f[T] = IF T = {} THEN 0 ELSE f[T \ {Max(T)}] + s[Max(T)]
           Solvable(n) == \E f \in [SUBSET (1..n) -> Nat] : Solution(f, n)
           U == {n \in Nat : n <= Len(s) => Solvable(n)}
<1>1. Len(s) \in Nat /\ \A i \in 1..Len(s) : s[i] \in Nat
  OBVIOUS
<1>2. 0 \in U
  <2> DEFINE g == [T \in SUBSET (1..0) |-> 0]
  <2>1. g \in [SUBSET (1..0) -> Nat]
    OBVIOUS
  <2>2. ASSUME NEW T \in SUBSET (1..0) PROVE T = {}
    OBVIOUS
  <2>3. Solution(g, 0)
    BY <2>2
  <2> HIDE DEF g, Solution
  <2>4. Solvable(0)
    BY <2>1, <2>3
  <2> QED BY <2>4
<1>3. ASSUME NEW n \in Nat, n \in U PROVE n + 1 \in U
  <2>1. SUFFICES ASSUME n + 1 <= Len(s) PROVE Solvable(n + 1)
    <3> HIDE DEF Solvable
    <3> QED OBVIOUS
  <2>2. PICK g \in [SUBSET (1..n) -> Nat] : Solution(g, n)
    <3>1. Solvable(n)
      <4> HIDE DEF Solvable
      <4> QED BY <1>1, <1>3, <2>1
    <3> QED BY <3>1, Zenon
  <2>3. s[n + 1] \in Nat
    BY <1>1, <2>1
  <2> DEFINE h == [T \in SUBSET (1..(n+1)) |->
                     IF n + 1 \in T THEN g[T \ {n + 1}] + s[n + 1] ELSE g[T]]
  <2>4. ASSUME NEW T \in SUBSET (1..(n+1)), n + 1 \notin T PROVE T \in SUBSET (1..n)
    BY <2>4
  <2>5. ASSUME NEW T \in SUBSET (1..(n+1)) PROVE T \ {n + 1} \in SUBSET (1..n)
    OBVIOUS
  <2>6. h \in [SUBSET (1..(n+1)) -> Nat]
    <3>1. ASSUME NEW T \in SUBSET (1..(n+1)) 
          PROVE (IF n + 1 \in T THEN g[T \ {n + 1}] + s[n + 1] ELSE g[T]) \in Nat
      BY <2>2, <2>3, <2>4, <2>5
    <3> QED BY <3>1
  <2>7. Solution(h, n+1)
    <3> SUFFICES ASSUME NEW T \in SUBSET (1..(n+1))
                 PROVE  h[T] = IF T = {} THEN 0 ELSE h[T \ {Max(T)}] + s[Max(T)]
      OBVIOUS
    <3>1. CASE n + 1 \in T
      <4>1. Max(T) = n + 1
        BY <3>1, MaxOfPrefix
      <4>2. h[T] = g[T \ {n + 1}] + s[n + 1]
        BY <3>1
      <4>3. T \ {n + 1} \in SUBSET (1..(n+1)) /\ n + 1 \notin T \ {n + 1}
        OBVIOUS
      <4>4. h[T \ {n + 1}] = g[T \ {n + 1}]
        BY <4>3
      <4> HIDE DEF h
      <4> QED BY <3>1, <4>1, <4>2, <4>4
    <3>2. CASE n + 1 \notin T /\ T # {}
      <4>1. T \in SUBSET (1..n)
        BY <2>4, <3>2
      <4>2. g[T] = g[T \ {Max(T)}] + s[Max(T)]
        BY <2>2, <3>2, <4>1
      <4>3. h[T] = g[T]
        BY <3>2
      <4>4. T \ {Max(T)} \in SUBSET (1..(n+1)) /\ n + 1 \notin T \ {Max(T)}
        BY <3>2
      <4>5. h[T \ {Max(T)}] = g[T \ {Max(T)}]
        BY <4>4
      <4> HIDE DEF h
      <4> QED BY <3>2, <4>2, <4>3, <4>5
    <3>3. CASE T = {}
      <4>1. n + 1 \notin T
        BY <3>3
      <4>2. h[T] = g[T]
        BY <4>1
      <4>3. T \in SUBSET (1..n)
        BY <3>3
      <4>4. g[T] = 0
        BY <2>2, <3>3, <4>3
      <4> QED BY <3>3, <4>2, <4>4
    <3> QED BY <3>1, <3>2, <3>3
  <2> HIDE DEF h, Solution
  <2> QED BY <2>6, <2>7
<1>4. Len(s) \in U
  <2> HIDE DEF U
  <2> QED BY <1>1, <1>2, <1>3, SetInduction
<1>5. PICK f \in [SUBSET (1..Len(s)) -> Nat] : Solution(f, Len(s))
  <2>1. Solvable(Len(s))
    <3> HIDE DEF Solvable
    <3> QED BY <1>1, <1>4
  <2> QED BY <2>1, Zenon
<1>6. f = [T \in SUBSET (1..Len(s)) |-> IF T = {} THEN 0 ELSE f[T \ {Max(T)}] + s[Max(T)]]
  BY <1>5
<1> QED BY <1>6

(* The fold of + is the value of a function which adds one element at a     *)
(* time.                                                                    *)
LEMMA SumEquation ==
  ASSUME NEW s \in Seq(Nat)
  PROVE  \E f : /\ FoldLeft(+, 0, s) = f[Len(s)]
                /\ f[0] = 0
                /\ \A n \in 0..(Len(s) - 1) : f[n + 1] = f[n] + s[n + 1]
                /\ \A n \in 0..Len(s) : f[n] \in Nat
<1> DEFINE P(f) == f = [T \in SUBSET (1..Len(s)) |->
                         IF T = {} THEN 0 ELSE f[T \ {Max(T)}] + s[Max(T)]]
<1>1. Len(s) \in Nat /\ DOMAIN s = 1..Len(s) /\ \A i \in 1..Len(s) : s[i] \in Nat
  OBVIOUS
<1>2. \E f : P(f)
  <2>1. PICK f \in [SUBSET (1..Len(s)) -> Nat] : P(f)
    BY SumExists
  <2> QED BY <2>1, Zenon
<1>3. P(CHOOSE f : P(f))
  BY <1>2, Zenon
<1>4. FoldLeft(+, 0, s) = (CHOOSE f : P(f))[1..Len(s)]
  BY <1>1, Zenon DEF FoldLeft, MapThenFoldSet
<1>5. PICK g : P(g) /\ FoldLeft(+, 0, s) = g[1..Len(s)]
  BY <1>3, <1>4, Zenon
<1>6. ASSUME NEW T \in SUBSET (1..Len(s))
      PROVE  g[T] = IF T = {} THEN 0 ELSE g[T \ {Max(T)}] + s[Max(T)]
  BY <1>5
<1> DEFINE f == [n \in 0..Len(s) |-> g[1..n]]
<1>7. f[0] = 0
  <2>1. f[0] = g[1..0] /\ 1..0 = {}
    BY <1>1
  <2> HIDE DEF f
  <2> QED BY <1>6, <2>1
<1>8. ASSUME NEW n \in 0..(Len(s) - 1) PROVE f[n + 1] = f[n] + s[n + 1]
  <2>1. f[n + 1] = g[1..(n + 1)] /\ f[n] = g[1..n]
    BY <1>1
  <2>2. 1..(n + 1) \in SUBSET (1..Len(s)) /\ 1..(n + 1) # {}
    BY <1>1, SMTT(30)
  <2>3. Max(1..(n + 1)) = n + 1
    BY MaxOfPrefix
  <2>4. (1..(n + 1)) \ {n + 1} = 1..n
    OBVIOUS
  <2> HIDE DEF f
  <2> QED BY <1>6, <2>1, <2>2, <2>3, <2>4
<1>9. FoldLeft(+, 0, s) = f[Len(s)]
  <2>1. f[Len(s)] = g[1..Len(s)]
    BY <1>1
  <2> HIDE DEF f
  <2> QED BY <1>5, <2>1, Zenon
<1>10. \A n \in 0..Len(s) : f[n] \in Nat
  <2> HIDE DEF f
  <2> DEFINE U == {n \in Nat : n <= Len(s) => f[n] \in Nat}
  <2>1. 0 \in U
    BY <1>7
  <2>2. ASSUME NEW n \in Nat, n \in U PROVE n + 1 \in U
    BY <1>1, <1>8, <2>2
  <2>3. Nat \subseteq U
    <3> HIDE DEF U
    <3> QED BY <2>1, <2>2, SetInduction
  <2> QED BY <1>1, <2>3
<1> HIDE DEF f
<1> QED BY <1>7, <1>8, <1>9, <1>10

(* One more element adds to the sum.                                        *)
LEMMA SumAppend ==
  ASSUME NEW s \in Seq(Nat), NEW x \in Nat
  PROVE  FoldLeft(+, 0, Append(s, x)) = FoldLeft(+, 0, s) + x
<1> DEFINE t == Append(s, x)
<1>1. /\ t \in Seq(Nat)
      /\ Len(s) \in Nat /\ Len(t) = Len(s) + 1
      /\ t[Len(s) + 1] = x /\ \A i \in 1..Len(s) : t[i] = s[i]
  BY AppendFacts
<1> HIDE DEF t
<1>2. PICK f : /\ FoldLeft(+, 0, s) = f[Len(s)]
               /\ f[0] = 0
               /\ \A n \in 0..(Len(s) - 1) : f[n + 1] = f[n] + s[n + 1]
  BY SumEquation
<1>3. PICK g : /\ FoldLeft(+, 0, t) = g[Len(t)]
               /\ g[0] = 0
               /\ \A n \in 0..(Len(t) - 1) : g[n + 1] = g[n] + t[n + 1]
  BY <1>1, SumEquation
<1> DEFINE U == {n \in Nat : n <= Len(s) => f[n] = g[n]}
<1>4. 0 \in U
  BY <1>2, <1>3
<1>5. ASSUME NEW n \in Nat, n \in U PROVE n + 1 \in U
  <2>1. SUFFICES ASSUME n + 1 <= Len(s) PROVE f[n + 1] = g[n + 1]
    OBVIOUS
  <2>2. n \in 0..(Len(s) - 1) /\ n \in 0..(Len(t) - 1) /\ n + 1 \in 1..Len(s)
    BY <1>1, <2>1
  <2>3. f[n + 1] = f[n] + s[n + 1] /\ g[n + 1] = g[n] + t[n + 1]
    BY <1>2, <1>3, <2>2
  <2>4. t[n + 1] = s[n + 1] /\ f[n] = g[n]
    BY <1>1, <1>5, <2>2
  <2> QED BY <2>3, <2>4, Zenon
<1>6. Nat \subseteq U
  <2> HIDE DEF U
  <2> QED BY <1>4, <1>5, SetInduction
<1>7. f[Len(s)] = g[Len(s)]
  BY <1>1, <1>6
<1>8. g[Len(t)] = g[Len(s)] + x
  <2>1. Len(s) \in 0..(Len(t) - 1)
    BY <1>1
  <2> QED BY <1>1, <1>3, <2>1, Zenon
<1> QED BY <1>2, <1>3, <1>7, <1>8, Zenon DEF t

(* A sum of natural numbers is one.                                         *)
LEMMA SumType ==
  ASSUME NEW s \in Seq(Nat)
  PROVE  FoldLeft(+, 0, s) \in Nat
<1>1. PICK f : FoldLeft(+, 0, s) = f[Len(s)] /\ \A n \in 0..Len(s) : f[n] \in Nat
  BY SumEquation
<1>2. Len(s) \in 0..Len(s)
  OBVIOUS
<1> QED BY <1>1, <1>2, Zenon

(* The sum of nothing.                                                      *)
LEMMA SumEmpty == FoldLeft(+, 0, <<>>) = 0
<1>1. <<>> \in Seq(Nat) /\ Len(<<>>) = 0
  OBVIOUS
<1>2. PICK f : FoldLeft(+, 0, <<>>) = f[Len(<<>>)] /\ f[0] = 0
  BY <1>1, SumEquation
<1> QED BY <1>1, <1>2, Zenon

(* Behind s, a prefix of t that grows by one element adds that element.     *)
LEMMA CountedPrefix ==
  ASSUME NEW S, NEW s \in Seq(S), NEW t \in Seq(S), NEW n \in 1..Len(t)
  PROVE  /\ s \o SubSeq(t, 1, n - 1) \in Seq(S)
         /\ s \o SubSeq(t, 1, n) = Append(s \o SubSeq(t, 1, n - 1), t[n])
<1>1. Len(s) \in Nat /\ Len(t) \in Nat /\ n - 1 \in 0..Len(t) /\ t[n] \in S
  OBVIOUS
<1>2. /\ SubSeq(t, 1, n - 1) \in Seq(S) /\ Len(SubSeq(t, 1, n - 1)) = n - 1
      /\ \A i \in 1..(n - 1) : SubSeq(t, 1, n - 1)[i] = t[i]
  BY <1>1
<1>3. /\ SubSeq(t, 1, n) \in Seq(S) /\ Len(SubSeq(t, 1, n)) = n
      /\ \A i \in 1..n : SubSeq(t, 1, n)[i] = t[i]
  BY <1>1
<1> DEFINE before == SubSeq(t, 1, n - 1)
           u == s \o before
           v == s \o SubSeq(t, 1, n)
           w == Append(u, t[n])
<1>4. /\ u \in Seq(S) /\ Len(u) = Len(s) + (n - 1)
      /\ \A i \in 1..Len(u) : u[i] = IF i <= Len(s) THEN s[i] ELSE before[i - Len(s)]
  <2> HIDE DEF before
  <2> QED BY <1>1, <1>2, ConcatProperties DEF before
<1>5. /\ v \in Seq(S) /\ Len(v) = Len(s) + n
      /\ \A i \in 1..Len(v) : v[i] = IF i <= Len(s) THEN s[i] ELSE SubSeq(t, 1, n)[i - Len(s)]
  BY <1>1, <1>3, ConcatProperties
<1> HIDE DEF u, v
<1>6. w \in Seq(S) /\ Len(w) = Len(u) + 1 /\ w[Len(u) + 1] = t[n] /\ \A i \in 1..Len(u) : w[i] = u[i]
  BY <1>1, <1>4, AppendFacts
<1> HIDE DEF w
<1>7. ASSUME NEW i \in 1..Len(v) PROVE v[i] = w[i]
  <2>1. CASE i <= Len(s)
    <3>1. i \in 1..Len(u) /\ w[i] = u[i]
      BY <1>1, <1>4, <1>6, <2>1
    <3>2. u[i] = s[i] /\ v[i] = s[i]
      BY <1>4, <1>5, <2>1, <3>1
    <3> QED BY <3>1, <3>2
  <2>2. CASE i > Len(s) /\ i < Len(s) + n
    <3>1. i \in 1..Len(u) /\ ~(i <= Len(s)) /\ i - Len(s) \in 1..(n - 1) /\ i - Len(s) \in 1..n
      BY <1>1, <1>4, <2>2
    <3>2. w[i] = u[i] /\ u[i] = before[i - Len(s)] /\ v[i] = SubSeq(t, 1, n)[i - Len(s)]
      BY <1>4, <1>5, <1>6, <3>1, Zenon
    <3>3. before[i - Len(s)] = t[i - Len(s)] /\ SubSeq(t, 1, n)[i - Len(s)] = t[i - Len(s)]
      BY <1>2, <1>3, <3>1, Zenon
    <3> QED BY <3>2, <3>3, Zenon
  <2>3. CASE i = Len(s) + n
    <3>1. i = Len(u) + 1 /\ ~(i <= Len(s)) /\ i - Len(s) = n /\ n \in 1..n
      BY <1>1, <1>4, <2>3
    <3>2. w[i] = t[n]
      BY <1>6, <3>1
    <3>3. v[i] = SubSeq(t, 1, n)[n] /\ SubSeq(t, 1, n)[n] = t[n]
      BY <1>3, <1>5, <3>1, Zenon
    <3> QED BY <3>2, <3>3
  <2> QED BY <1>1, <1>5, <2>1, <2>2, <2>3
<1>8. Len(v) = Len(w)
  BY <1>1, <1>4, <1>5, <1>6
<1>9. v = w
  BY <1>5, <1>6, <1>7, <1>8, SeqEqual
<1> QED BY <1>4, <1>9 DEF u, v, w

(* One more element is one more member.                                     *)
LEMMA SetOfAppend ==
  ASSUME NEW S, NEW s \in Seq(S), NEW x \in S
  PROVE  ToSet(Append(s, x)) = ToSet(s) \union {x}
<1> DEFINE t == Append(s, x)
<1>1. /\ t \in Seq(S) /\ Len(s) \in Nat /\ Len(t) = Len(s) + 1
      /\ t[Len(s) + 1] = x /\ \A i \in 1..Len(s) : t[i] = s[i]
  BY AppendFacts
<1> HIDE DEF t
<1>2. DOMAIN s = 1..Len(s) /\ DOMAIN t = 1..(Len(s) + 1)
  BY <1>1
<1>3. ToSet(t) = ToSet(s) \union {x}
  BY <1>1, <1>2 DEF ToSet
<1> QED BY <1>3 DEF t

(* The members of a concatenation are those of its parts.                   *)
LEMMA SetOfConcat ==
  ASSUME NEW S, NEW s \in Seq(S), NEW t \in Seq(S)
  PROVE  ToSet(s \o t) = ToSet(s) \union ToSet(t)
<1> DEFINE u == s \o t
<1>1. /\ u \in Seq(S) /\ Len(s) \in Nat /\ Len(t) \in Nat /\ Len(u) = Len(s) + Len(t)
      /\ \A i \in 1..(Len(s) + Len(t)) : u[i] = IF i <= Len(s) THEN s[i] ELSE t[i - Len(s)]
  BY ConcatProperties
<1> HIDE DEF u
<1>2. DOMAIN s = 1..Len(s) /\ DOMAIN t = 1..Len(t) /\ DOMAIN u = 1..(Len(s) + Len(t))
  BY <1>1
<1>3. ToSet(u) \subseteq ToSet(s) \union ToSet(t)
  <2> SUFFICES ASSUME NEW i \in DOMAIN u PROVE u[i] \in ToSet(s) \union ToSet(t)
    BY DEF ToSet
  <2>1. CASE i <= Len(s)
    BY <1>1, <1>2, <2>1 DEF ToSet
  <2>2. CASE ~(i <= Len(s))
    <3>1. i - Len(s) \in DOMAIN t /\ u[i] = t[i - Len(s)]
      BY <1>1, <1>2, <2>2
    <3> QED BY <3>1 DEF ToSet
  <2> QED BY <2>1, <2>2
<1>4. ASSUME NEW i \in DOMAIN s PROVE s[i] \in ToSet(u)
  <2>1. i \in DOMAIN u /\ u[i] = s[i]
    BY <1>1, <1>2
  <2> QED BY <2>1 DEF ToSet
<1>5. ASSUME NEW i \in DOMAIN t PROVE t[i] \in ToSet(u)
  <2>1. Len(s) + i \in DOMAIN u /\ u[Len(s) + i] = t[i]
    <3>1. Len(s) + i \in 1..(Len(s) + Len(t)) /\ ~(Len(s) + i <= Len(s)) /\ (Len(s) + i) - Len(s) = i
      BY <1>1, <1>2
    <3> QED BY <1>1, <1>2, <3>1
  <2> QED BY <2>1 DEF ToSet
<1>6. ToSet(s) \union ToSet(t) \subseteq ToSet(u)
  BY <1>4, <1>5 DEF ToSet
<1>7. ToSet(u) = ToSet(s) \union ToSet(t)
  BY <1>3, <1>6
<1> QED BY <1>7 DEF u

(* The members of a sequence are finitely many, at most as many as its      *)
(* places.                                                                  *)
LEMMA SetOfSequence ==
  ASSUME NEW S, NEW s \in Seq(S)
  PROVE  /\ ToSet(s) \subseteq S /\ IsFiniteSet(ToSet(s))
         /\ Cardinality(ToSet(s)) \in Nat /\ Cardinality(ToSet(s)) <= Len(s)
         /\ (ToSet(s) = {} <=> s = <<>>)
<1>1. Len(s) \in Nat /\ DOMAIN s = 1..Len(s) /\ \A i \in 1..Len(s) : s[i] \in S
  OBVIOUS
<1>2. s \in [1..Len(s) -> ToSet(s)]
  BY <1>1 DEF ToSet
<1>3. s \in Surjection(1..Len(s), ToSet(s))
  BY <1>1, <1>2 DEF ToSet, Surjection
<1>4. IsFiniteSet(1..Len(s)) /\ Cardinality(1..Len(s)) = Len(s)
  <2>1. \A n \in Nat : IsFiniteSet(1..n) /\ Cardinality(1..n) = n
    BY FS_Interval
  <2> QED BY <1>1, <2>1, Zenon
<1>5. IsFiniteSet(ToSet(s)) /\ Cardinality(ToSet(s)) <= Len(s)
  BY <1>3, <1>4, FS_Surjection
<1>6. Cardinality(ToSet(s)) \in Nat
  BY <1>5, FS_CardinalityType
<1>7. ToSet(s) \subseteq S
  BY <1>1 DEF ToSet
<1>8. ToSet(s) = {} <=> s = <<>>
  BY <1>1 DEF ToSet
<1> QED BY <1>5, <1>6, <1>7, <1>8

(* A member that is below every other is the minimum.                       *)
LEMMA MinIs ==
  ASSUME NEW S \in SUBSET Int, NEW m \in S, \A x \in S : m <= x
  PROVE  Min(S) = m
<1> DEFINE P(x) == x \in S /\ \A y \in S : x =< y
<1>1. P(m)
  OBVIOUS
<1>2. P(CHOOSE x : P(x))
  BY <1>1, Zenon
<1>3. Min(S) = CHOOSE x : P(x)
  BY Zenon DEF Min
<1>4. P(Min(S))
  BY <1>2, <1>3, Zenon
<1> DEFINE k == Min(S)
<1>5. k \in S /\ k <= m
  BY <1>4, Zenon
<1> HIDE DEF k
<1>6. m <= k /\ k \in Int /\ m \in Int
  BY <1>5
<1>7. k = m
  BY <1>5, <1>6
<1> QED BY <1>7 DEF k

(* A member that is above every other is the maximum.                       *)
LEMMA MaxIs ==
  ASSUME NEW S \in SUBSET Int, NEW m \in S, \A x \in S : x <= m
  PROVE  Max(S) = m
<1> DEFINE P(x) == x \in S /\ \A y \in S : x >= y
<1>1. P(m)
  OBVIOUS
<1>2. P(CHOOSE x : P(x))
  BY <1>1, Zenon
<1>3. Max(S) = CHOOSE x : P(x)
  BY Zenon DEF Max
<1>4. P(Max(S))
  BY <1>2, <1>3, Zenon
<1> DEFINE k == Max(S)
<1>5. k \in S /\ k >= m
  BY <1>4, Zenon
<1> HIDE DEF k
<1>6. k <= m /\ k \in Int /\ m \in Int
  BY <1>5
<1>7. k = m
  BY <1>5, <1>6
<1> QED BY <1>7 DEF k

(* An injection of the places 1..n into themselves reaches every place.     *)
LEMMA PermutationFacts ==
  ASSUME NEW n \in Nat, NEW p \in SetToSeqs(1..n)
  PROVE  p \in [1..n -> 1..n] /\ \A k \in 1..n : \E i \in 1..n : p[i] = k
<1>1. IsFiniteSet(1..n) /\ Cardinality(1..n) = n
  BY FS_Interval
<1>2. p \in [1..n -> 1..n] /\ \A i, j \in 1..n : i # j => p[i] # p[j]
  BY <1>1 DEF SetToSeqs
<1>3. p \in Injection(1..n, 1..n)
  BY <1>2 DEF Injection, IsInjective
<1>4. p \in Surjection(1..n, 1..n)
  BY <1>1, <1>3, FS_Injection
<1> QED BY <1>2, <1>4 DEF Surjection

(* A sequence of at most one element that is not empty.                     *)
LEMMA SingletonSequence ==
  ASSUME NEW S, NEW u \in Seq(S), u # <<>>, Len(u) <= 1
  PROVE  \E x \in S : u = <<x>>
<1> DEFINE m == Len(u)
<1>1. m \in Nat \ {0} /\ m <= 1
  BY EmptySeq
<1>2. m = 1
  <2> HIDE DEF m
  <2> QED BY <1>1
<1>3. u[1] \in S
  BY <1>2
<1>4. u = <<u[1]>>
  BY <1>2
<1> QED BY <1>3, <1>4

(* Flattening sequences of at most one element keeps the elements and their *)
(* order.                                                                   *)
KeepsElements(S, s, f) ==
  /\ f \in Seq(S)
  /\ \A p \in 1..Len(f) : \E i \in 1..Len(s) : s[i] = <<f[p]>>
  /\ \A i \in 1..Len(s) : s[i] # <<>> => \E p \in 1..Len(f) : s[i] = <<f[p]>>
  /\ \A p, q \in 1..Len(f) : p < q =>
       \E i, j \in 1..Len(s) : i < j /\ s[i] = <<f[p]>> /\ s[j] = <<f[q]>>

(* A loop that makes at most one element of each item of a sequence keeps   *)
(* the elements and their order.                                            *)
LEMMA FlattenOptions ==
  ASSUME NEW S, NEW s \in Seq(Seq(S)), \A i \in 1..Len(s) : Len(s[i]) <= 1
  PROVE  KeepsElements(S, s, FlattenSeq(s))
<1> DEFINE F(n) == FlattenSeq(SubSeq(s, 1, n))
           From(g, n) == \A p \in 1..Len(g) : \E i \in 1..n : s[i] = <<g[p]>>
           Into(g, n) == \A i \in 1..n : s[i] # <<>> => \E p \in 1..Len(g) : s[i] = <<g[p]>>
           Ordered(g, n) == \A p, q \in 1..Len(g) : p < q =>
                              \E i, j \in 1..n : i < j /\ s[i] = <<g[p]>> /\ s[j] = <<g[q]>>
           Good(g, n) == g \in Seq(S) /\ From(g, n) /\ Into(g, n) /\ Ordered(g, n)
           T == {n \in Nat : n <= Len(s) => Good(F(n), n)}
<1>1. Len(s) \in Nat /\ \A i \in 1..Len(s) : s[i] \in Seq(S)
  OBVIOUS
<1>2. 0 \in T
  <2>1. F(0) = <<>>
    <3>1. SubSeq(s, 1, 0) = <<>>
      BY SubSeqEmpty
    <3> QED BY <3>1 DEF FlattenSeq
  <2>2. Good(<<>>, 0)
    <3>1. Len(<<>>) = 0 /\ <<>> \in Seq(S)
      OBVIOUS
    <3> QED BY <3>1
  <2> HIDE DEF F, Good
  <2> QED BY <2>1, <2>2
<1>3. ASSUME NEW n \in Nat, n \in T PROVE n + 1 \in T
  <2>1. SUFFICES ASSUME n + 1 <= Len(s) PROVE Good(F(n + 1), n + 1)
    <3> HIDE DEF Good, F
    <3> QED OBVIOUS
  <2>2. Good(F(n), n)
    <3> HIDE DEF Good, F
    <3> QED BY <1>1, <1>3, <2>1
  <2>3. F(n + 1) = F(n) \o s[n + 1]
    <3>1. n \in 0..(Len(s) - 1)
      BY <1>1, <2>1
    <3> QED BY <3>1, FlattenPrefix
  <2>4. s[n + 1] \in Seq(S) /\ Len(s[n + 1]) <= 1
    BY <1>1, <2>1
  <2> DEFINE g == F(n)
  <2>5. g \in Seq(S) /\ From(g, n) /\ Into(g, n) /\ Ordered(g, n)
    BY <2>2, Zenon
  <2> HIDE DEF g, F
  <2>6. CASE s[n + 1] = <<>>
    <3>1. F(n + 1) = g
      BY <2>3, <2>5, <2>6, ConcatEmptySeq DEF g
    <3>2. Good(g, n + 1)
      <4>1. From(g, n + 1)
        <5> SUFFICES ASSUME NEW p \in 1..Len(g) PROVE \E i \in 1..(n + 1) : s[i] = <<g[p]>>
          OBVIOUS
        <5>1. PICK i \in 1..n : s[i] = <<g[p]>>
          BY <2>5
        <5>2. i \in 1..(n + 1)
          OBVIOUS
        <5> QED BY <5>1, <5>2, Zenon
      <4>2. Into(g, n + 1)
        <5> SUFFICES ASSUME NEW i \in 1..(n + 1), s[i] # <<>>
                     PROVE  \E p \in 1..Len(g) : s[i] = <<g[p]>>
          OBVIOUS
        <5>1. i \in 1..n
          BY <2>6
        <5> QED BY <2>5, <5>1, Zenon
      <4>3. Ordered(g, n + 1)
        <5> SUFFICES ASSUME NEW p \in 1..Len(g), NEW q \in 1..Len(g), p < q
                     PROVE  \E i, j \in 1..(n + 1) : i < j /\ s[i] = <<g[p]>> /\ s[j] = <<g[q]>>
          OBVIOUS
        <5>1. PICK i \in 1..n, j \in 1..n : i < j /\ s[i] = <<g[p]>> /\ s[j] = <<g[q]>>
          BY <2>5
        <5>2. i \in 1..(n + 1) /\ j \in 1..(n + 1)
          OBVIOUS
        <5> QED BY <5>1, <5>2, Zenon
      <4> QED BY <2>5, <4>1, <4>2, <4>3
    <3> HIDE DEF Good
    <3> QED BY <3>1, <3>2
  <2>7. CASE s[n + 1] # <<>>
    <3>1. PICK x \in S : s[n + 1] = <<x>>
      <4>1. \E x \in S : s[n + 1] = <<x>>
        BY <2>4, <2>7, SingletonSequence
      <4> QED BY <4>1
    <3> DEFINE h == g \o <<x>>
    <3>2. /\ h \in Seq(S) /\ Len(g) \in Nat /\ Len(h) = Len(g) + 1
          /\ h[Len(g) + 1] = x /\ \A p \in 1..Len(g) : h[p] = g[p]
      BY <2>5
    <3> HIDE DEF h
    <3>3. From(h, n + 1)
      <4> SUFFICES ASSUME NEW p \in 1..Len(h) PROVE \E i \in 1..(n + 1) : s[i] = <<h[p]>>
        OBVIOUS
      <4>1. CASE p \in 1..Len(g)
        <5>1. PICK i \in 1..n : s[i] = <<g[p]>>
          BY <2>5, <4>1
        <5> QED BY <3>2, <4>1, <5>1
      <4>2. CASE p = Len(g) + 1
        <5>1. s[n + 1] = <<h[p]>> /\ n + 1 \in 1..(n + 1)
          BY <3>1, <3>2, <4>2
        <5> QED BY <5>1
      <4> QED BY <3>2, <4>1, <4>2
    <3>4. Into(h, n + 1)
      <4> SUFFICES ASSUME NEW i \in 1..(n + 1), s[i] # <<>> PROVE \E p \in 1..Len(h) : s[i] = <<h[p]>>
        OBVIOUS
      <4>1. CASE i \in 1..n
        <5>1. PICK p \in 1..Len(g) : s[i] = <<g[p]>>
          BY <2>5, <4>1
        <5> QED BY <3>2, <5>1
      <4>2. CASE i = n + 1
        <5>1. s[i] = <<h[Len(g) + 1]>> /\ Len(g) + 1 \in 1..Len(h)
          BY <3>1, <3>2, <4>2
        <5> QED BY <5>1
      <4> QED BY <4>1, <4>2
    <3>5. Ordered(h, n + 1)
      <4> SUFFICES ASSUME NEW p \in 1..Len(h), NEW q \in 1..Len(h), p < q
                   PROVE  \E i, j \in 1..(n + 1) : i < j /\ s[i] = <<h[p]>> /\ s[j] = <<h[q]>>
        OBVIOUS
      <4>1. p \in 1..Len(g)
        BY <3>2
      <4>2. CASE q \in 1..Len(g)
        <5>1. PICK i \in 1..n, j \in 1..n : i < j /\ s[i] = <<g[p]>> /\ s[j] = <<g[q]>>
          BY <2>5, <4>1, <4>2
        <5>2. h[p] = g[p] /\ h[q] = g[q]
          BY <3>2, <4>1, <4>2, Zenon
        <5>3. i \in 1..(n + 1) /\ j \in 1..(n + 1)
          OBVIOUS
        <5> QED BY <5>1, <5>2, <5>3, Zenon
      <4>3. CASE q = Len(g) + 1
        <5>1. PICK i \in 1..n : s[i] = <<g[p]>>
          BY <2>5, <4>1
        <5>2. s[n + 1] = <<h[q]>> /\ i < n + 1 /\ n + 1 \in 1..(n + 1) /\ i \in 1..(n + 1)
          BY <3>1, <3>2, <4>3
        <5>3. s[i] = <<h[p]>>
          BY <3>2, <4>1, <5>1
        <5> QED BY <5>2, <5>3
      <4> QED BY <3>2, <4>2, <4>3
    <3>6. F(n + 1) = h
      BY <2>3, <3>1, Zenon DEF g, h
    <3>7. Good(h, n + 1)
      BY <3>2, <3>3, <3>4, <3>5, Zenon
    <3> HIDE DEF Good
    <3> QED BY <3>6, <3>7
  <2> HIDE DEF Good
  <2> QED BY <2>6, <2>7
<1>4. Good(F(Len(s)), Len(s))
  <2> HIDE DEF Good, F
  <2>1. Nat \subseteq T
    <3> HIDE DEF T
    <3> QED BY <1>2, <1>3, SetInduction
  <2> QED BY <1>1, <2>1
<1>5. F(Len(s)) = FlattenSeq(s)
  BY SubSeqFull
<1>6. Good(FlattenSeq(s), Len(s))
  <2> HIDE DEF F, Good
  <2> QED BY <1>4, <1>5
<1> QED BY <1>6, Zenon DEF KeepsElements

(* Flattening begins with the first sequence.                               *)
LEMMA FlattenHead ==
  ASSUME NEW S, NEW s \in Seq(Seq(S)), s # <<>>
  PROVE  /\ Head(s) \in Seq(S) /\ Tail(s) \in Seq(Seq(S))
         /\ FlattenSeq(Tail(s)) \in Seq(S)
         /\ FlattenSeq(s) = Head(s) \o FlattenSeq(Tail(s))
<1> DEFINE t == Tail(s)
           F(n) == FlattenSeq(SubSeq(s, 1, n))
           G(n) == FlattenSeq(SubSeq(t, 1, n))
           T == {n \in 1..Len(s) : F(n) = s[1] \o G(n - 1)}
<1>0. \A a, b, d \in Seq(S) : (a \o b) \o d = a \o (b \o d)
  BY ConcatAssociative, SMTT(30)
<1>1. /\ Len(s) \in Nat \ {0} /\ \A i \in 1..Len(s) : s[i] \in Seq(S)
      /\ Head(s) = s[1] /\ s[1] \in Seq(S)
  <2>1. Len(s) \in Nat \ {0}
    BY EmptySeq
  <2>2. \A i \in 1..Len(s) : s[i] \in Seq(S)
    OBVIOUS
  <2>3. 1 \in 1..Len(s)
    BY <2>1
  <2> QED BY <2>1, <2>2, <2>3
<1>2. t \in Seq(Seq(S)) /\ Len(t) = Len(s) - 1 /\ \A i \in 1..Len(t) : t[i] = s[i + 1]
  BY HeadTailProperties, Zenon
<1> HIDE DEF t
<1>3. F(0) = <<>> /\ G(0) = <<>>
  <2>1. SubSeq(s, 1, 0) = <<>> /\ SubSeq(t, 1, 0) = <<>>
    BY <1>2, SubSeqEmpty
  <2>2. FlattenSeq(<<>>) = <<>>
    BY DEF FlattenSeq
  <2> QED BY <2>1, <2>2, Zenon
<1>4. ASSUME NEW n \in 0..(Len(s) - 1) PROVE F(n + 1) = F(n) \o s[n + 1]
  BY FlattenPrefix
<1>5. ASSUME NEW n \in 0..(Len(t) - 1) PROVE G(n + 1) = G(n) \o t[n + 1]
  BY <1>2, FlattenPrefix
<1>6. ASSUME NEW n \in 0..Len(t) PROVE G(n) \in Seq(S)
  <2>1. SubSeq(t, 1, n) \in Seq(Seq(S))
    BY <1>1, <1>2
  <2> QED BY <2>1, FlattenType
<1> HIDE DEF F, G
<1>7. 1 \in T
  <2>1. F(1) = F(0) \o s[1]
    <3>1. 0 \in 0..(Len(s) - 1) /\ 0 + 1 = 1
      BY <1>1
    <3> QED BY <1>4, <3>1
  <2>2. F(1) = s[1]
    <3>1. <<>> \o s[1] = s[1]
      BY <1>1, ConcatEmptySeq
    <3> QED BY <1>3, <2>1, <3>1, Zenon
  <2>3. s[1] \o G(0) = s[1]
    BY <1>1, <1>3, ConcatEmptySeq
  <2>4. 1 \in 1..Len(s) /\ 1 - 1 = 0
    BY <1>1
  <2> QED BY <2>2, <2>3, <2>4
<1>8. ASSUME NEW n \in 1..(Len(s) - 1), n \in T PROVE n + 1 \in T
  <2>1. n \in 0..(Len(s) - 1) /\ n - 1 \in 0..(Len(t) - 1) /\ (n - 1) + 1 = n /\ (n + 1) - 1 = n
        /\ n + 1 \in 1..Len(s) /\ n - 1 \in 0..Len(t) /\ n \in 1..Len(t)
    BY <1>1, <1>2
  <2>2. F(n + 1) = F(n) \o s[n + 1]
    BY <1>4, <2>1
  <2>3. F(n) = s[1] \o G(n - 1)
    BY <1>8
  <2>4. G(n) = G(n - 1) \o t[n]
    BY <1>5, <2>1
  <2>5. t[n] = s[n + 1] /\ s[n + 1] \in Seq(S)
    BY <1>1, <1>2, <2>1
  <2>6. (s[1] \o G(n - 1)) \o s[n + 1] = s[1] \o (G(n - 1) \o s[n + 1])
    <3>1. G(n - 1) \in Seq(S)
      BY <1>6, <2>1
    <3> QED BY <1>0, <1>1, <2>5, <3>1, Zenon
  <2>7. F(n + 1) = s[1] \o G(n)
    BY <2>2, <2>3, <2>4, <2>5, <2>6, Zenon
  <2> QED BY <2>1, <2>7
<1>9. Len(s) \in T
  <2> HIDE DEF T
  <2>1. 1..Len(s) \subseteq T
    BY <1>1, <1>7, <1>8, IntervalInduction
  <2>2. Len(s) \in 1..Len(s)
    BY <1>1
  <2> QED BY <2>1, <2>2, Zenon
<1>10. F(Len(s)) = s[1] \o G(Len(t))
  BY <1>2, <1>9
<1>11. F(Len(s)) = FlattenSeq(s) /\ G(Len(t)) = FlattenSeq(t)
  <2>1. SubSeq(s, 1, Len(s)) = s /\ SubSeq(t, 1, Len(t)) = t
    BY <1>2, SubSeqFull
  <2> QED BY <2>1, Zenon DEF F, G
<1>12. FlattenSeq(t) \in Seq(S)
  BY <1>2, FlattenType
<1> QED BY <1>1, <1>2, <1>10, <1>11, <1>12, Zenon DEF t

(* Removing an element closes the gap it leaves.                            *)
LEMMA RemoveAtFacts ==
  ASSUME NEW S, NEW s \in Seq(S), NEW k \in 1..Len(s)
  PROVE  /\ RemoveAt(s, k) \in Seq(S) /\ Len(RemoveAt(s, k)) = Len(s) - 1
         /\ \A i \in 1..(Len(s) - 1) : RemoveAt(s, k)[i] = s[IF i < k THEN i ELSE i + 1]
<1> DEFINE u == SubSeq(s, 1, k - 1)
           v == SubSeq(s, k + 1, Len(s))
<1>1. Len(s) \in Nat
  OBVIOUS
<1>2. /\ u \in Seq(S) /\ Len(u) = k - 1 /\ \A i \in 1..(k - 1) : u[i] = s[i]
  BY <1>1
<1>3. /\ v \in Seq(S) /\ Len(v) = Len(s) - k /\ \A i \in 1..(Len(s) - k) : v[i] = s[k + i]
  BY <1>1
<1>4. RemoveAt(s, k) = u \o v
  BY DEF RemoveAt
<1> HIDE DEF u, v
<1>5. /\ u \o v \in Seq(S) /\ Len(u \o v) = Len(s) - 1
      /\ \A i \in 1..(Len(s) - 1) : (u \o v)[i] = IF i <= k - 1 THEN u[i] ELSE v[i - (k - 1)]
  <2>1. (k - 1) + (Len(s) - k) = Len(s) - 1
    BY <1>1
  <2>2. /\ u \o v \in Seq(S) /\ Len(u \o v) = Len(u) + Len(v)
        /\ \A i \in 1..(Len(u) + Len(v)) : (u \o v)[i] = IF i <= Len(u) THEN u[i] ELSE v[i - Len(u)]
    BY <1>2, <1>3, ConcatProperties
  <2>3. Len(u) = k - 1 /\ Len(u) + Len(v) = Len(s) - 1
    BY <1>1, <1>2, <1>3, <2>1
  <2> QED BY <2>2, <2>3, Zenon
<1>6. ASSUME NEW i \in 1..(Len(s) - 1)
      PROVE  (u \o v)[i] = s[IF i < k THEN i ELSE i + 1]
  <2>1. CASE i < k
    <3>1. i <= k - 1 /\ i \in 1..(k - 1)
      BY <2>1
    <3> QED BY <1>2, <1>5, <2>1, <3>1
  <2>2. CASE ~(i < k)
    <3>1. ~(i <= k - 1) /\ i - (k - 1) \in 1..(Len(s) - k) /\ k + (i - (k - 1)) = i + 1
      BY <1>1, <2>2
    <3> QED BY <1>3, <1>5, <2>2, <3>1
  <2> QED BY <2>1, <2>2
<1> QED BY <1>4, <1>5, <1>6

(* A set of numbers up to n that is not empty has a maximum.                *)
LEMMA MaxFacts ==
  ASSUME NEW n \in Nat, NEW S \in SUBSET (0..n), S # {}
  PROVE  Max(S) \in S /\ \A x \in S : x <= Max(S)
<1> DEFINE HasMax(R) == \E m \in R : \A x \in R : x <= m
           T == {k \in Nat : \A R \in SUBSET (0..k) : R # {} => HasMax(R)}
<1>1. 0 \in T
  <2> SUFFICES ASSUME NEW R \in SUBSET (0..0), R # {} PROVE HasMax(R)
    <3> HIDE DEF HasMax
    <3> QED OBVIOUS
  <2>1. PICK m \in R : TRUE
    OBVIOUS
  <2>2. \A x \in R : x = 0
    OBVIOUS
  <2>3. \A x \in R : x <= m
    BY <2>2
  <2> QED BY <2>3
<1>2. ASSUME NEW k \in Nat, k \in T PROVE k + 1 \in T
  <2> SUFFICES ASSUME NEW R \in SUBSET (0..(k + 1)), R # {} PROVE HasMax(R)
    <3> HIDE DEF HasMax
    <3> QED OBVIOUS
  <2>1. CASE k + 1 \in R
    <3>1. \A x \in R : x <= k + 1
      OBVIOUS
    <3> QED BY <2>1, <3>1
  <2>2. CASE k + 1 \notin R
    <3>1. R \in SUBSET (0..k)
      BY <2>2
    <3> HIDE DEF HasMax
    <3> QED BY <1>2, <3>1
  <2> QED BY <2>1, <2>2
<1>3. HasMax(S)
  <2>1. n \in T
    <3> HIDE DEF T
    <3> QED BY <1>1, <1>2, SetInduction
  <2> HIDE DEF HasMax
  <2> QED BY <2>1
<1>4. PICK m \in S : \A x \in S : x <= m
  BY <1>3
<1>5. Max(S) = m
  <2>1. S \in SUBSET Int
    OBVIOUS
  <2> QED BY <1>4, <2>1, MaxIs
<1> QED BY <1>4, <1>5

(* Nothing flattens to nothing.                                             *)
LEMMA FlattenEmpty ==
  ASSUME NEW S, NEW s \in Seq(Seq(S)), \A i \in 1..Len(s) : s[i] = <<>>
  PROVE  FlattenSeq(s) = <<>>
<1> DEFINE F(n) == FlattenSeq(SubSeq(s, 1, n))
           T == {n \in Nat : n <= Len(s) => F(n) = <<>>}
<1>1. F(0) = <<>>
  <2>1. SubSeq(s, 1, 0) = <<>>
    BY SubSeqEmpty
  <2> QED BY <2>1 DEF FlattenSeq
<1>2. ASSUME NEW n \in 0..(Len(s) - 1) PROVE F(n + 1) = F(n) \o s[n + 1]
  BY FlattenPrefix
<1>3. F(Len(s)) = FlattenSeq(s)
  BY SubSeqFull
<1> HIDE DEF F
<1>4. <<>> \o <<>> = <<>> /\ Len(s) \in Nat
  OBVIOUS
<1>5. 0 \in T
  BY <1>1
<1>6. ASSUME NEW n \in Nat, n \in T PROVE n + 1 \in T
  <2> SUFFICES ASSUME n + 1 <= Len(s) PROVE F(n + 1) = <<>>
    OBVIOUS
  <2>1. n \in 0..(Len(s) - 1) /\ n + 1 \in 1..Len(s) /\ n <= Len(s)
    BY <1>4
  <2>2. F(n) = <<>> /\ s[n + 1] = <<>>
    BY <1>6, <2>1
  <2>3. F(n + 1) = F(n) \o s[n + 1]
    BY <1>2, <2>1
  <2> QED BY <1>4, <2>2, <2>3, Zenon
<1>7. Len(s) \in T
  <2> HIDE DEF T
  <2> QED BY <1>4, <1>5, <1>6, SetInduction
<1> QED BY <1>3, <1>4, <1>7

(* A part of a part of a sequence is a part of it.                          *)
LEMMA PartOfPart ==
  ASSUME NEW S, NEW s \in Seq(S), NEW a \in 1..Len(s), NEW b \in a..Len(s),
         NEW x \in 1..(b - a + 1), NEW y \in (x - 1)..(b - a + 1)
  PROVE  SubSeq(SubSeq(s, a, b), x, y) = SubSeq(s, a + x - 1, a + y - 1)
<1>1. Len(s) \in Nat
  OBVIOUS
<1> DEFINE t == SubSeq(s, a, b)
<1>2. t \in Seq(S) /\ Len(t) = b - a + 1 /\ \A i \in 1..(b - a + 1) : t[i] = s[a + i - 1]
  BY <1>1
<1> HIDE DEF t
<1>3. /\ Len(SubSeq(t, x, y)) = y - x + 1 /\ SubSeq(t, x, y) \in Seq(S)
      /\ \A i \in 1..(y - x + 1) : SubSeq(t, x, y)[i] = t[x + i - 1]
  BY <1>1, <1>2
<1>4. /\ Len(SubSeq(s, a + x - 1, a + y - 1)) = y - x + 1 /\ SubSeq(s, a + x - 1, a + y - 1) \in Seq(S)
      /\ \A i \in 1..(y - x + 1) : SubSeq(s, a + x - 1, a + y - 1)[i] = s[a + x - 1 + i - 1]
  BY <1>1
<1>5. \A i \in 1..(y - x + 1) : SubSeq(t, x, y)[i] = SubSeq(s, a + x - 1, a + y - 1)[i]
  <2> TAKE i \in 1..(y - x + 1)
  <2>1. x + i - 1 \in 1..(b - a + 1) /\ a + (x + i - 1) - 1 = a + x - 1 + i - 1
    BY <1>1
  <2> QED BY <1>2, <1>3, <1>4, <2>1
<1> DEFINE u == SubSeq(t, x, y)
           v == SubSeq(s, a + x - 1, a + y - 1)
<1>6. u \in Seq(S) /\ v \in Seq(S) /\ Len(u) = Len(v) /\ \A i \in 1..Len(u) : u[i] = v[i]
  BY <1>3, <1>4, <1>5, Zenon
<1> HIDE DEF u, v
<1>7. u = v
  BY <1>6, SeqEqual
<1> QED BY <1>7 DEF u, v, t

(* A sequence of different elements of a finite set is no longer than the   *)
(* set is large, and as long if it leaves none of them out.                 *)
LEMMA DistinctFacts ==
  ASSUME NEW S, IsFiniteSet(S), NEW s \in Seq(S), \A i, j \in 1..Len(s) : s[i] = s[j] => i = j
  PROVE  /\ Len(s) \in 0..Cardinality(S)
         /\ (\A x \in S : \E i \in 1..Len(s) : s[i] = x) => Len(s) = Cardinality(S)
<1>1. Len(s) \in Nat /\ s \in [1..Len(s) -> S] /\ Cardinality(S) \in Nat
  BY FS_CardinalityType
<1>2. IsFiniteSet(1..Len(s)) /\ Cardinality(1..Len(s)) = Len(s)
  <2>1. PICK n \in Nat : n = Len(s)
    BY <1>1
  <2>2. IsFiniteSet(1..n) /\ Cardinality(1..n) = IF 1 > n THEN 0 ELSE n - 1 + 1
    BY FS_Interval
  <2> QED BY <2>1, <2>2
<1>3. s \in Injection(1..Len(s), S)
  BY <1>1 DEF Injection, IsInjective
<1>4. Len(s) <= Cardinality(S)
  BY <1>2, <1>3, FS_Injection
<1>5. ASSUME \A x \in S : \E i \in 1..Len(s) : s[i] = x PROVE Len(s) = Cardinality(S)
  <2>1. s \in Surjection(1..Len(s), S)
    BY <1>1, <1>5 DEF Surjection
  <2> QED BY <1>2, <1>3, <2>1, FS_Injection
<1> QED BY <1>1, <1>4, <1>5

----------------------------------------------------------------------------
(* Sums over finite sets.                                                   *)
Pick(S) == CHOOSE x \in S : TRUE

(* The function that SumFunctionOnSet chooses.                              *)
SumsUp(S, a, f) ==
  f = [T \in SUBSET S |-> IF T = {} THEN 0 ELSE a[Pick(T)] + f[T \ {Pick(T)}]]

(* There is such a function.                                                *)
LEMMA SetSumExists ==
  ASSUME NEW S, IsFiniteSet(S), NEW a, \A x \in S : a[x] \in Nat
  PROVE  \E f \in [SUBSET S -> Nat] : SumsUp(S, a, f)
<1> DEFINE Value(f, T) == IF T = {} THEN 0 ELSE a[Pick(T)] + f[T \ {Pick(T)}]
           Solves(f, n) == \A T \in SUBSET S : Cardinality(T) <= n => f[T] = Value(f, T)
           U == {n \in Nat : \E f \in [SUBSET S -> Nat] : Solves(f, n)}
<1>1. ASSUME NEW T \in SUBSET S
      PROVE  /\ IsFiniteSet(T) /\ Cardinality(T) \in Nat /\ (Cardinality(T) = 0 <=> T = {})
             /\ T # {} => /\ Pick(T) \in T /\ a[Pick(T)] \in Nat
                          /\ T \ {Pick(T)} \in SUBSET S
                          /\ Cardinality(T \ {Pick(T)}) = Cardinality(T) - 1
  <2>1. IsFiniteSet(T)
    BY FS_Subset
  <2>2. Cardinality(T) \in Nat /\ (Cardinality(T) = 0 <=> T = {})
    BY <2>1, FS_CardinalityType, FS_EmptySet
  <2>3. ASSUME T # {} PROVE Pick(T) \in T
    BY <2>3 DEF Pick
  <2>4. ASSUME T # {} PROVE Cardinality(T \ {Pick(T)}) = Cardinality(T) - 1
    BY <2>1, <2>3, <2>4, FS_RemoveElement
  <2> QED BY <2>1, <2>2, <2>3, <2>4
<1>2. 0 \in U
  <2> DEFINE g == [T \in SUBSET S |-> 0]
  <2>1. g \in [SUBSET S -> Nat]
    OBVIOUS
  <2>2. Solves(g, 0)
    <3> SUFFICES ASSUME NEW T \in SUBSET S, Cardinality(T) <= 0 PROVE g[T] = Value(g, T)
      OBVIOUS
    <3>1. Cardinality(T) = 0
      <4>1. Cardinality(T) \in Nat
        BY <1>1
      <4> QED BY <4>1
    <3>2. T = {}
      BY <1>1, <3>1, Zenon
    <3> QED BY <3>2
  <2> HIDE DEF g, Solves
  <2> QED BY <2>1, <2>2
<1>3. ASSUME NEW n \in Nat, n \in U PROVE n + 1 \in U
  <2>1. PICK g \in [SUBSET S -> Nat] : Solves(g, n)
    <3> HIDE DEF Solves
    <3> QED BY <1>3
  <2> DEFINE h == [T \in SUBSET S |-> IF Cardinality(T) = n + 1 THEN Value(g, T) ELSE g[T]]
  <2>2. h \in [SUBSET S -> Nat]
    <3>1. ASSUME NEW T \in SUBSET S
          PROVE  (IF Cardinality(T) = n + 1 THEN Value(g, T) ELSE g[T]) \in Nat
      BY <1>1, <2>1
    <3> HIDE DEF Value
    <3> QED BY <3>1
  <2>3. ASSUME NEW T \in SUBSET S, Cardinality(T) <= n PROVE h[T] = g[T]
    BY <1>1, <2>3
  <2>4. Solves(h, n + 1)
    <3> SUFFICES ASSUME NEW T \in SUBSET S, Cardinality(T) <= n + 1 PROVE h[T] = Value(h, T)
      OBVIOUS
    <3>1. h[T] = Value(g, T)
      <4>1. CASE Cardinality(T) = n + 1
        BY <4>1
      <4>2. CASE Cardinality(T) # n + 1
        <5>1. Cardinality(T) \in Nat
          BY <1>1
        <5>2. Cardinality(T) <= n
          BY <4>2, <5>1
        <5>3. h[T] = g[T]
          BY <4>2
        <5> HIDE DEF h, Value
        <5> QED BY <2>1, <5>2, <5>3
      <4> QED BY <4>1, <4>2
    <3>2. ASSUME T # {} PROVE h[T \ {Pick(T)}] = g[T \ {Pick(T)}]
      <4>1. T \ {Pick(T)} \in SUBSET S /\ Cardinality(T \ {Pick(T)}) <= n
        BY <1>1, <3>2
      <4> HIDE DEF h
      <4> QED BY <2>3, <4>1
    <3> HIDE DEF h
    <3> QED BY <3>1, <3>2
  <2> HIDE DEF h, Solves
  <2> QED BY <2>2, <2>4
<1>4. Cardinality(S) \in U
  <2> HIDE DEF U
  <2> QED BY <1>1, <1>2, <1>3, SetInduction
<1>5. PICK f \in [SUBSET S -> Nat] : Solves(f, Cardinality(S))
  <2> HIDE DEF Solves
  <2> QED BY <1>4
<1>6. ASSUME NEW T \in SUBSET S PROVE f[T] = Value(f, T)
  <2>1. Cardinality(T) <= Cardinality(S)
    BY FS_Subset
  <2> QED BY <1>5, <2>1
<1>7. f = [T \in SUBSET S |-> Value(f, T)]
  <2> HIDE DEF Value
  <2> QED BY <1>5, <1>6
<1>8. SumsUp(S, a, f)
  BY <1>7 DEF SumsUp
<1> QED BY <1>8

(* The recursion of the sum over the subsets of a finite set.               *)
SetSum(S, a, f) ==
  \A T \in SUBSET S : f[T] = IF T = {} THEN 0 ELSE a[Pick(T)] + f[T \ {Pick(T)}]

(* Two sums agree where both are defined.                                   *)
LEMMA SetSumUnique ==
  ASSUME NEW S, IsFiniteSet(S), NEW a, \A x \in S : a[x] \in Nat,
         NEW R \in SUBSET S, NEW f, SetSum(S, a, f), NEW g, SetSum(R, a, g)
  PROVE  f[R] = g[R]
<1> DEFINE U == {n \in Nat : \A T \in SUBSET R : Cardinality(T) <= n => f[T] = g[T]}
<1>0. IsFiniteSet(R) /\ Cardinality(R) \in Nat
  BY FS_Subset, FS_CardinalityType
<1>1. ASSUME NEW T \in SUBSET R
      PROVE  /\ Cardinality(T) \in Nat /\ (Cardinality(T) = 0 <=> T = {})
             /\ T # {} => /\ T \ {Pick(T)} \in SUBSET R
                          /\ Cardinality(T \ {Pick(T)}) = Cardinality(T) - 1
             /\ T \in SUBSET S
  <2>1. IsFiniteSet(T)
    BY <1>0, FS_Subset
  <2>2. Cardinality(T) \in Nat /\ (Cardinality(T) = 0 <=> T = {})
    BY <2>1, FS_CardinalityType, FS_EmptySet
  <2>3. ASSUME T # {} PROVE Cardinality(T \ {Pick(T)}) = Cardinality(T) - 1
    <3>1. Pick(T) \in T
      BY <2>3 DEF Pick
    <3> QED BY <2>1, <3>1, FS_RemoveElement
  <2> QED BY <2>2, <2>3
<1>2. 0 \in U
  <2> SUFFICES ASSUME NEW T \in SUBSET R, Cardinality(T) <= 0 PROVE f[T] = g[T]
    OBVIOUS
  <2>1. Cardinality(T) = 0
    <3>1. Cardinality(T) \in Nat
      BY <1>1
    <3> QED BY <3>1
  <2>2. T = {}
    BY <1>1, <2>1, Zenon
  <2> QED BY <1>1, <2>2 DEF SetSum
<1>3. ASSUME NEW n \in Nat, n \in U PROVE n + 1 \in U
  <2> SUFFICES ASSUME NEW T \in SUBSET R, Cardinality(T) <= n + 1 PROVE f[T] = g[T]
    OBVIOUS
  <2>1. CASE T = {}
    BY <1>1, <2>1 DEF SetSum
  <2>2. CASE T # {}
    <3>1. f[T \ {Pick(T)}] = g[T \ {Pick(T)}]
      <4>1. T \ {Pick(T)} \in SUBSET R /\ Cardinality(T \ {Pick(T)}) <= n
        BY <1>1, <2>2
      <4> QED BY <1>3, <4>1
    <3> QED BY <1>1, <2>2, <3>1 DEF SetSum
  <2> QED BY <2>1, <2>2
<1>4. Cardinality(R) \in U
  <2> HIDE DEF U
  <2> QED BY <1>0, <1>2, <1>3, SetInduction
<1> QED BY <1>4

(* The library's sum is that recursive function.                            *)
LEMMA SetSumIs ==
  ASSUME NEW S, IsFiniteSet(S), NEW a, \A x \in S : a[x] \in Nat
  PROVE  \E g \in [SUBSET S -> Nat] : SetSum(S, a, g) /\ SumFunctionOnSet(a, S) = g[S]
<1>1. PICK g \in [SUBSET S -> Nat] : SumsUp(S, a, g)
  BY SetSumExists
<1> DEFINE P(f) == f = [T \in SUBSET S |-> IF T = {} THEN 0 ELSE a[Pick(T)] + f[T \ {Pick(T)}]]
<1>2. P(CHOOSE f : P(f))
  BY <1>1, Zenon DEF SumsUp
<1>3. SumFunctionOnSet(a, S) = (CHOOSE f : P(f))[S]
  BY Zenon DEF SumFunctionOnSet, FoldFunctionOnSet, MapThenFoldSet, Pick
<1>4. PICK f : P(f) /\ SumFunctionOnSet(a, S) = f[S]
  BY <1>2, <1>3, Zenon
<1>5. SetSum(S, a, f)
  BY <1>4 DEF SetSum
<1>6. SetSum(S, a, g)
  BY <1>1 DEF SumsUp, SetSum
<1>7. f[S] = g[S]
  BY <1>5, <1>6, SetSumUnique
<1> QED BY <1>4, <1>6, <1>7

(* Nothing sums to zero.                                                    *)
LEMMA SetSumEmpty == ASSUME NEW a PROVE SumFunctionOnSet(a, {}) = 0
<1>1. IsFiniteSet({})
  BY FS_EmptySet
<1>2. PICK g \in [SUBSET {} -> Nat] : SetSum({}, a, g) /\ SumFunctionOnSet(a, {}) = g[{}]
  BY <1>1, SetSumIs
<1> QED BY <1>2 DEF SetSum

(* A sum of natural numbers is one.                                         *)
LEMMA SetSumType ==
  ASSUME NEW S, IsFiniteSet(S), NEW a, \A x \in S : a[x] \in Nat
  PROVE  SumFunctionOnSet(a, S) \in Nat
<1>1. PICK g \in [SUBSET S -> Nat] : SumFunctionOnSet(a, S) = g[S]
  BY SetSumIs
<1> QED BY <1>1

(* The sum takes the element that is picked and the rest.                   *)
LEMMA SetSumPick ==
  ASSUME NEW S, IsFiniteSet(S), NEW a, \A x \in S : a[x] \in Nat, S # {}
  PROVE  SumFunctionOnSet(a, S) = a[Pick(S)] + SumFunctionOnSet(a, S \ {Pick(S)})
<1> DEFINE R == S \ {Pick(S)}
<1>1. PICK g \in [SUBSET S -> Nat] : SetSum(S, a, g) /\ SumFunctionOnSet(a, S) = g[S]
  BY SetSumIs
<1>2. IsFiniteSet(R) /\ R \in SUBSET S /\ \A x \in R : a[x] \in Nat
  BY FS_Subset
<1> HIDE DEF R
<1>3. PICK h \in [SUBSET R -> Nat] : SetSum(R, a, h) /\ SumFunctionOnSet(a, R) = h[R]
  BY <1>2, SetSumIs
<1>4. g[R] = h[R]
  BY <1>1, <1>2, <1>3, SetSumUnique
<1>5. g[S] = a[Pick(S)] + g[R]
  BY <1>1 DEF SetSum, R
<1> QED BY <1>1, <1>3, <1>4, <1>5 DEF R

(* A set sums to any element of it and the rest.                            *)
LEMMA SetSumRemove ==
  ASSUME NEW S, IsFiniteSet(S), NEW a, \A x \in S : a[x] \in Nat, NEW x \in S
  PROVE  SumFunctionOnSet(a, S) = a[x] + SumFunctionOnSet(a, S \ {x})
<1> DEFINE Sum(T) == SumFunctionOnSet(a, T)
           Splits(T) == \A y \in T : Sum(T) = a[y] + Sum(T \ {y})
           U == {n \in Nat : \A T \in SUBSET S : Cardinality(T) <= n => Splits(T)}
<1>1. ASSUME NEW T \in SUBSET S
      PROVE  /\ IsFiniteSet(T) /\ Cardinality(T) \in Nat /\ Sum(T) \in Nat
             /\ Cardinality(T) <= Cardinality(S)
             /\ \A y \in T : Cardinality(T \ {y}) = Cardinality(T) - 1 /\ Cardinality(T) # 0
             /\ T # {} => Pick(T) \in T /\ Sum(T) = a[Pick(T)] + Sum(T \ {Pick(T)})
  <2>1. IsFiniteSet(T) /\ Cardinality(T) <= Cardinality(S) /\ Cardinality(T) \in Nat
    BY FS_Subset, FS_CardinalityType
  <2>2. \A y \in T : a[y] \in Nat
    OBVIOUS
  <2>3. Sum(T) \in Nat /\ (T # {} => Sum(T) = a[Pick(T)] + Sum(T \ {Pick(T)}))
    BY <2>1, <2>2, SetSumType, SetSumPick
  <2>4. ASSUME NEW y \in T PROVE Cardinality(T \ {y}) = Cardinality(T) - 1 /\ Cardinality(T) # 0
    BY <2>1, FS_RemoveElement, FS_EmptySet
  <2>5. T # {} => Pick(T) \in T
    BY DEF Pick
  <2> QED BY <2>1, <2>3, <2>4, <2>5
<1> HIDE DEF Sum
<1>2. 0 \in U
  <2> SUFFICES ASSUME NEW T \in SUBSET S, Cardinality(T) <= 0, NEW y \in T PROVE FALSE
    OBVIOUS
  <2>1. Cardinality(T) \in Nat /\ Cardinality(T) # 0
    BY <1>1
  <2> QED BY <2>1
<1>3. ASSUME NEW n \in Nat, n \in U PROVE n + 1 \in U
  <2> SUFFICES ASSUME NEW T \in SUBSET S, Cardinality(T) <= n + 1, NEW y \in T
               PROVE  Sum(T) = a[y] + Sum(T \ {y})
    OBVIOUS
  <2> DEFINE z == Pick(T)
  <2>1. z \in T /\ Sum(T) = a[z] + Sum(T \ {z})
    BY <1>1
  <2> HIDE DEF z
  <2>2. CASE y = z
    BY <2>1, <2>2
  <2>3. CASE y # z
    <3>1. /\ T \ {y} \in SUBSET S /\ Cardinality(T \ {y}) <= n /\ z \in T \ {y}
          /\ T \ {z} \in SUBSET S /\ Cardinality(T \ {z}) <= n /\ y \in T \ {z}
      <4>1. Cardinality(T) \in Nat
        BY <1>1
      <4>2. Cardinality(T \ {y}) = Cardinality(T) - 1 /\ Cardinality(T \ {z}) = Cardinality(T) - 1
        BY <1>1, <2>1
      <4> QED BY <2>1, <2>3, <4>1, <4>2
    <3>2. Sum(T \ {z}) = a[y] + Sum((T \ {z}) \ {y}) /\ Sum(T \ {y}) = a[z] + Sum((T \ {y}) \ {z})
      BY <1>3, <3>1
    <3>3. (T \ {z}) \ {y} = (T \ {y}) \ {z} /\ (T \ {y}) \ {z} \in SUBSET S
      OBVIOUS
    <3>4. Sum((T \ {y}) \ {z}) \in Nat /\ a[y] \in Nat /\ a[z] \in Nat
      BY <1>1, <2>1, <3>3
    <3> QED BY <2>1, <3>2, <3>3, <3>4
  <2> QED BY <2>2, <2>3
<1>4. Cardinality(S) \in U
  <2>1. Cardinality(S) \in Nat
    BY <1>1
  <2> HIDE DEF U
  <2> QED BY <1>2, <1>3, <2>1, SetInduction
<1>5. Splits(S)
  BY <1>1, <1>4
<1> QED BY <1>5 DEF Sum

(* An element more adds its value.                                          *)
LEMMA SetSumAdd ==
  ASSUME NEW S, IsFiniteSet(S), NEW a, \A y \in S : a[y] \in Nat,
         NEW x, x \notin S, a[x] \in Nat
  PROVE  SumFunctionOnSet(a, S \union {x}) = a[x] + SumFunctionOnSet(a, S)
<1>1. IsFiniteSet(S \union {x}) /\ \A y \in S \union {x} : a[y] \in Nat
  BY FS_AddElement
<1>2. (S \union {x}) \ {x} = S
  OBVIOUS
<1> QED BY <1>1, <1>2, SetSumRemove

(* Functions that agree on a set have the same sum over it.                 *)
LEMMA SetSumSame ==
  ASSUME NEW S, IsFiniteSet(S), NEW a, NEW b, \A x \in S : a[x] \in Nat /\ a[x] = b[x]
  PROVE  SumFunctionOnSet(a, S) = SumFunctionOnSet(b, S)
<1>1. PICK f \in [SUBSET S -> Nat] : SetSum(S, a, f) /\ SumFunctionOnSet(a, S) = f[S]
  BY SetSumIs
<1>2. PICK g \in [SUBSET S -> Nat] : SetSum(S, b, g) /\ SumFunctionOnSet(b, S) = g[S]
  BY SetSumIs
<1>3. SetSum(S, a, g)
  <2> SUFFICES ASSUME NEW T \in SUBSET S
               PROVE  g[T] = IF T = {} THEN 0 ELSE a[Pick(T)] + g[T \ {Pick(T)}]
    BY DEF SetSum
  <2>1. T # {} => Pick(T) \in S
    BY DEF Pick
  <2> QED BY <1>2, <2>1 DEF SetSum
<1> QED BY <1>1, <1>2, <1>3, SetSumUnique

(* The sum over two sets without a common element.                          *)
LEMMA SetSumUnion ==
  ASSUME NEW S, NEW R, IsFiniteSet(S), IsFiniteSet(R), S \intersect R = {},
         NEW a, \A x \in S \union R : a[x] \in Nat
  PROVE  SumFunctionOnSet(a, S \union R) = SumFunctionOnSet(a, S) + SumFunctionOnSet(a, R)
<1> DEFINE Sum(T) == SumFunctionOnSet(a, T)
           U == {n \in Nat : \A T \in SUBSET R : Cardinality(T) <= n => Sum(S \union T) = Sum(S) + Sum(T)}
<1>1. ASSUME NEW T \in SUBSET R
      PROVE  /\ IsFiniteSet(T) /\ Cardinality(T) \in Nat /\ Cardinality(T) <= Cardinality(R)
             /\ \A y \in T : Cardinality(T \ {y}) = Cardinality(T) - 1
             /\ IsFiniteSet(S \union T) /\ Sum(T) \in Nat /\ Sum(S \union T) \in Nat
             /\ (Cardinality(T) = 0 <=> T = {})
  <2>1. IsFiniteSet(T) /\ Cardinality(T) <= Cardinality(R) /\ Cardinality(T) \in Nat
        /\ (Cardinality(T) = 0 <=> T = {})
    BY FS_Subset, FS_CardinalityType, FS_EmptySet
  <2>2. ASSUME NEW y \in T PROVE Cardinality(T \ {y}) = Cardinality(T) - 1
    BY <2>1, FS_RemoveElement
  <2>3. IsFiniteSet(S \union T)
    BY <2>1, FS_Union
  <2>4. (\A x \in T : a[x] \in Nat) /\ (\A x \in S \union T : a[x] \in Nat)
    OBVIOUS
  <2>5. Sum(T) \in Nat /\ Sum(S \union T) \in Nat
    BY <2>1, <2>3, <2>4, SetSumType
  <2> QED BY <2>1, <2>2, <2>3, <2>5
<1>2. Sum(S) \in Nat /\ Sum({}) = 0
  BY SetSumType, SetSumEmpty
<1>3. ASSUME NEW T \in SUBSET R, NEW y \in T
      PROVE  /\ a[y] \in Nat
             /\ Sum(T) = a[y] + Sum(T \ {y}) /\ Sum(S \union T) = a[y] + Sum(S \union (T \ {y}))
  <2>1. (S \union T) \ {y} = S \union (T \ {y}) /\ y \in S \union T
    OBVIOUS
  <2>2. (\A x \in T : a[x] \in Nat) /\ (\A x \in S \union T : a[x] \in Nat)
    OBVIOUS
  <2>3. Sum(T) = a[y] + Sum(T \ {y})
    BY <1>1, <2>2, SetSumRemove
  <2>4. Sum(S \union T) = a[y] + Sum((S \union T) \ {y})
    BY <1>1, <2>1, <2>2, SetSumRemove, ZenonT(30)
  <2> QED BY <2>1, <2>2, <2>3, <2>4
<1> HIDE DEF Sum
<1>4. 0 \in U
  <2> SUFFICES ASSUME NEW T \in SUBSET R, Cardinality(T) <= 0
               PROVE  Sum(S \union T) = Sum(S) + Sum(T)
    OBVIOUS
  <2>1. Cardinality(T) = 0
    <3>1. Cardinality(T) \in Nat
      BY <1>1
    <3> QED BY <3>1
  <2>2. T = {} /\ S \union T = S
    BY <1>1, <2>1
  <2> QED BY <1>2, <2>2
<1>5. ASSUME NEW n \in Nat, n \in U PROVE n + 1 \in U
  <2> SUFFICES ASSUME NEW T \in SUBSET R, Cardinality(T) <= n + 1
               PROVE  Sum(S \union T) = Sum(S) + Sum(T)
    OBVIOUS
  <2>1. CASE T = {}
    <3>1. S \union T = S
      BY <2>1
    <3> QED BY <1>2, <2>1, <3>1
  <2>2. CASE T # {}
    <3>1. PICK y \in T : TRUE
      BY <2>2
    <3>2. T \ {y} \in SUBSET R /\ Cardinality(T \ {y}) <= n
      <4>1. Cardinality(T) \in Nat /\ Cardinality(T \ {y}) = Cardinality(T) - 1
        BY <1>1
      <4> QED BY <4>1
    <3>3. Sum(S \union (T \ {y})) = Sum(S) + Sum(T \ {y}) /\ Sum(T \ {y}) \in Nat
      BY <1>1, <1>5, <3>2
    <3>4. /\ a[y] \in Nat /\ Sum(T) = a[y] + Sum(T \ {y})
          /\ Sum(S \union T) = a[y] + Sum(S \union (T \ {y}))
      BY <1>3
    <3> QED BY <1>2, <3>3, <3>4
  <2> QED BY <2>1, <2>2
<1>6. Cardinality(R) \in U
  <2>1. Cardinality(R) \in Nat
    BY <1>1
  <2> HIDE DEF U
  <2> QED BY <1>4, <1>5, <2>1, SetInduction
<1>7. Sum(S \union R) = Sum(S) + Sum(R)
  BY <1>1, <1>6
<1> QED BY <1>7 DEF Sum

(* A part sums to no more than the whole.                                   *)
LEMMA SetSumPart ==
  ASSUME NEW S, IsFiniteSet(S), NEW R \in SUBSET S, NEW a, \A x \in S : a[x] \in Nat
  PROVE  SumFunctionOnSet(a, R) <= SumFunctionOnSet(a, S)
<1>1. /\ IsFiniteSet(R) /\ IsFiniteSet(S \ R) /\ R \intersect (S \ R) = {} /\ R \union (S \ R) = S
      /\ (\A x \in R : a[x] \in Nat) /\ (\A x \in S \ R : a[x] \in Nat)
  BY FS_Subset
<1>2. SumFunctionOnSet(a, S) = SumFunctionOnSet(a, R) + SumFunctionOnSet(a, S \ R)
  BY <1>1, SetSumUnion
<1>3. SumFunctionOnSet(a, R) \in Nat /\ SumFunctionOnSet(a, S \ R) \in Nat
  BY <1>1, SetSumType
<1> QED BY <1>2, <1>3

(* A finite set of integers that is not empty has a maximum.                *)
LEMMA FiniteMaxFacts ==
  ASSUME NEW S \in SUBSET Int, IsFiniteSet(S), S # {}
  PROVE  Max(S) \in S /\ \A x \in S : x <= Max(S)
<1> DEFINE HasMax(R) == \E m \in R : \A x \in R : x <= m
           U == {n \in Nat : \A R \in SUBSET S : R # {} /\ Cardinality(R) <= n => HasMax(R)}
<1>1. ASSUME NEW R \in SUBSET S
      PROVE  /\ Cardinality(R) \in Nat /\ Cardinality(R) <= Cardinality(S)
             /\ \A y \in R : Cardinality(R \ {y}) = Cardinality(R) - 1 /\ Cardinality(R) # 0
  <2>1. IsFiniteSet(R) /\ Cardinality(R) <= Cardinality(S) /\ Cardinality(R) \in Nat
    BY FS_Subset, FS_CardinalityType
  <2>2. ASSUME NEW y \in R PROVE Cardinality(R \ {y}) = Cardinality(R) - 1 /\ Cardinality(R) # 0
    BY <2>1, FS_RemoveElement, FS_EmptySet
  <2> QED BY <2>1, <2>2
<1>2. 0 \in U
  <2> SUFFICES ASSUME NEW R \in SUBSET S, NEW y \in R, Cardinality(R) <= 0 PROVE FALSE
    OBVIOUS
  <2>1. Cardinality(R) \in Nat /\ Cardinality(R) # 0
    BY <1>1
  <2> QED BY <2>1
<1>3. ASSUME NEW n \in Nat, n \in U PROVE n + 1 \in U
  <2> SUFFICES ASSUME NEW R \in SUBSET S, R # {}, Cardinality(R) <= n + 1 PROVE HasMax(R)
    <3> HIDE DEF HasMax
    <3> QED OBVIOUS
  <2>0. PICK y \in R : TRUE
    OBVIOUS
  <2>1. Cardinality(R) \in Nat /\ Cardinality(R \ {y}) = Cardinality(R) - 1
    BY <1>1
  <2>2. CASE R \ {y} = {}
    <3>1. \A x \in R : x = y
      BY <2>2
    <3> QED BY <3>1
  <2>3. CASE R \ {y} # {}
    <3>1. PICK m \in R \ {y} : \A x \in R \ {y} : x <= m
      <4>1. R \ {y} \in SUBSET S /\ Cardinality(R \ {y}) <= n
        BY <2>1
      <4>2. HasMax(R \ {y})
        <5> HIDE DEF HasMax
        <5> QED BY <1>3, <2>3, <4>1
      <4> QED BY <4>2
    <3>2. m \in Int /\ y \in Int /\ \A x \in R : x = y \/ x \in R \ {y}
      OBVIOUS
    <3>3. CASE m <= y
      <4>1. \A x \in R : x <= y
        BY <3>1, <3>2, <3>3
      <4> QED BY <4>1
    <3>4. CASE y <= m
      <4>1. \A x \in R : x <= m
        BY <3>1, <3>2, <3>4
      <4> QED BY <3>1, <4>1
    <3> QED BY <3>2, <3>3, <3>4
  <2> QED BY <2>2, <2>3
<1>4. Cardinality(S) \in U
  <2>1. Cardinality(S) \in Nat
    BY <1>1
  <2> HIDE DEF U
  <2> QED BY <1>2, <1>3, <2>1, SetInduction
<1>5. HasMax(S)
  <2>1. Cardinality(S) <= Cardinality(S)
    BY <1>1
  <2> HIDE DEF HasMax
  <2> QED BY <1>4, <2>1
<1>6. PICK m \in S : \A x \in S : x <= m
  BY <1>5
<1>7. Max(S) = m
  BY <1>6, MaxIs
<1> QED BY <1>6, <1>7

(* The minimum is the maximum of the negatives.                             *)
LEMMA FiniteMinFacts ==
  ASSUME NEW S \in SUBSET Int, IsFiniteSet(S), S # {}
  PROVE  Min(S) \in S /\ \A x \in S : Min(S) <= x
<1> DEFINE N == {-x : x \in S}
<1>1. N \in SUBSET Int /\ N # {}
  <2>1. PICK x \in S : TRUE
    OBVIOUS
  <2>2. -x \in N
    BY <2>1
  <2> QED BY <2>2
<1>2. IsFiniteSet(N)
  <2> DEFINE f == [x \in S |-> -x]
  <2>1. f \in Surjection(S, N)
    BY DEF Surjection
  <2> QED BY <2>1, FS_Surjection
<1>3. Max(N) \in N /\ \A y \in N : y <= Max(N)
  <2> HIDE DEF N
  <2> QED BY <1>1, <1>2, FiniteMaxFacts
<1>4. PICK m \in S : Max(N) = -m
  BY <1>3
<1>5. \A x \in S : m <= x
  <2> SUFFICES ASSUME NEW x \in S PROVE m <= x
    OBVIOUS
  <2>1. -x \in N /\ x \in Int /\ m \in Int
    OBVIOUS
  <2>2. -x <= -m
    BY <1>3, <1>4, <2>1
  <2> QED BY <2>1, <2>2
<1>6. Min(S) = m
  BY <1>5, MinIs
<1> QED BY <1>5, <1>6

(* The first n elements of a sequence, as a function.                       *)
LEMMA PrefixIs ==
  ASSUME NEW S, NEW s \in Seq(S), NEW n \in 0..Len(s)
  PROVE  /\ SubSeq(s, 1, n) = [i \in 1..n |-> s[i]]
         /\ SubSeq(s, 1, n) \in Seq(S) /\ Len(SubSeq(s, 1, n)) = n
<1> DEFINE u == SubSeq(s, 1, n)
           v == [i \in 1..n |-> s[i]]
<1>1. Len(s) \in Nat /\ n \in Nat /\ n <= Len(s)
  OBVIOUS
<1>2. u \in Seq(S) /\ Len(u) = n /\ \A i \in 1..n : u[i] = s[i]
  BY <1>1
<1>3. v \in Seq(S) /\ Len(v) = n /\ \A i \in 1..n : v[i] = s[i]
  BY <1>1
<1>4. u = v
  <2> HIDE DEF u, v
  <2> QED BY <1>2, <1>3, SeqEqual
<1> QED BY <1>2, <1>4

(* A loop that makes at most one element of each item makes no more         *)
(* elements than there are items.                                           *)
LEMMA OptionsLength ==
  ASSUME NEW S, NEW s \in Seq(Seq(S)), \A i \in 1..Len(s) : Len(s[i]) <= 1
  PROVE  Len(FlattenSeq(s)) <= Len(s)
<1> DEFINE F(n) == FlattenSeq(SubSeq(s, 1, n))
           T == {n \in Nat : n <= Len(s) => F(n) \in Seq(S) /\ Len(F(n)) <= n}
<1>1. Len(s) \in Nat /\ \A i \in 1..Len(s) : s[i] \in Seq(S)
  OBVIOUS
<1>2. F(0) = <<>>
  <2>1. SubSeq(s, 1, 0) = <<>>
    BY SubSeqEmpty
  <2> QED BY <2>1 DEF FlattenSeq
<1>3. ASSUME NEW n \in 0..(Len(s) - 1) PROVE F(n + 1) = F(n) \o s[n + 1]
  BY FlattenPrefix
<1>4. F(Len(s)) = FlattenSeq(s)
  BY SubSeqFull
<1> HIDE DEF F
<1>5. 0 \in T
  <2>1. <<>> \in Seq(S) /\ Len(<<>>) = 0
    OBVIOUS
  <2>2. F(0) \in Seq(S) /\ Len(F(0)) = 0
    BY <1>2, <2>1, Zenon
  <2> QED BY <2>2
<1>6. ASSUME NEW n \in Nat, n \in T PROVE n + 1 \in T
  <2> SUFFICES ASSUME n + 1 <= Len(s) PROVE F(n + 1) \in Seq(S) /\ Len(F(n + 1)) <= n + 1
    OBVIOUS
  <2>1. n \in 0..(Len(s) - 1) /\ n + 1 \in 1..Len(s) /\ n <= Len(s)
    BY <1>1
  <2>2. F(n) \in Seq(S) /\ Len(F(n)) <= n
    BY <1>6, <2>1
  <2>3. s[n + 1] \in Seq(S) /\ Len(s[n + 1]) <= 1
    BY <1>1, <2>1
  <2>4. F(n + 1) = F(n) \o s[n + 1]
    BY <1>3, <2>1
  <2> DEFINE a == F(n)
             b == s[n + 1]
  <2>5. a \in Seq(S) /\ Len(a) <= n /\ b \in Seq(S) /\ Len(b) <= 1
    BY <2>2, <2>3
  <2> HIDE DEF a, b
  <2>6. a \o b \in Seq(S) /\ Len(a \o b) <= n + 1
    BY <2>5
  <2> QED BY <2>4, <2>6 DEF a, b
<1>7. Len(s) \in T
  <2> HIDE DEF T
  <2> QED BY <1>1, <1>5, <1>6, SetInduction
<1> QED BY <1>1, <1>4, <1>7

(* A loop over what another loop kept, and the two as one.                  *)
Chained(s, h) == [i \in 1..Len(s) |-> IF s[i] = <<>> THEN <<>> ELSE h[s[i][1]]]
Through(u, h) == [j \in 1..Len(u) |-> h[u[j]]]

(* One loop over what another loop kept is one loop: where the first kept   *)
(* an element, the second makes of it what h makes.                         *)
LEMMA LoopOverLoop ==
  ASSUME NEW S, NEW s \in Seq(Seq(S)), \A i \in 1..Len(s) : Len(s[i]) <= 1,
         NEW R, NEW h \in [S -> Seq(R)]
  PROVE  FlattenSeq(Through(FlattenSeq(s), h)) = FlattenSeq(Chained(s, h))
<1> DEFINE k == Chained(s, h)
           F(n) == FlattenSeq(SubSeq(s, 1, n))
           G(n) == FlattenSeq(SubSeq(k, 1, n))
           T == {n \in Nat : n <= Len(s) => F(n) \in Seq(S) /\ FlattenSeq(Through(F(n), h)) = G(n)}
<1>1. Len(s) \in Nat /\ \A i \in 1..Len(s) : s[i] \in Seq(S)
  OBVIOUS
<1>2. k \in Seq(Seq(R)) /\ Len(k) = Len(s)
      /\ \A i \in 1..Len(s) : k[i] = IF s[i] = <<>> THEN <<>> ELSE h[s[i][1]]
  <2>1. ASSUME NEW i \in 1..Len(s), s[i] # <<>> PROVE s[i][1] \in S
    BY <1>1, <2>1
  <2>2. \A i \in 1..Len(s) : (IF s[i] = <<>> THEN <<>> ELSE h[s[i][1]]) \in Seq(R)
    BY <2>1
  <2> QED BY <1>1, <2>2 DEF Chained
<1>3. F(0) = <<>> /\ G(0) = <<>>
  <2>1. SubSeq(s, 1, 0) = <<>> /\ SubSeq(k, 1, 0) = <<>>
    BY SubSeqEmpty
  <2> QED BY <2>1 DEF FlattenSeq
<1>4. ASSUME NEW n \in 0..(Len(s) - 1) PROVE F(n + 1) = F(n) \o s[n + 1]
  BY FlattenPrefix
<1>5. ASSUME NEW n \in 0..(Len(s) - 1) PROVE G(n + 1) = G(n) \o k[n + 1]
  <2> HIDE DEF k
  <2> QED BY <1>2, FlattenPrefix
<1>6. F(Len(s)) = FlattenSeq(s) /\ G(Len(s)) = FlattenSeq(k)
  <2> HIDE DEF k
  <2> QED BY <1>2, SubSeqFull
<1>7. ASSUME NEW n \in 0..Len(s) PROVE G(n) \in Seq(R)
  <2> HIDE DEF k
  <2>1. SubSeq(k, 1, n) \in Seq(Seq(R))
    BY <1>1, <1>2, PrefixIs
  <2> QED BY <2>1, FlattenType
<1> HIDE DEF F, G, k
<1>8. 0 \in T
  <2>1. Through(<<>>, h) = <<>>
    BY DEF Through
  <2>2. FlattenSeq(Through(F(0), h)) = G(0)
    BY <1>3, <2>1 DEF FlattenSeq
  <2>3. F(0) \in Seq(S)
    <3>1. <<>> \in Seq(S)
      OBVIOUS
    <3> QED BY <1>3, <3>1
  <2> QED BY <2>2, <2>3
<1>9. ASSUME NEW n \in Nat, n \in T PROVE n + 1 \in T
  <2> SUFFICES ASSUME n + 1 <= Len(s)
               PROVE  F(n + 1) \in Seq(S) /\ FlattenSeq(Through(F(n + 1), h)) = G(n + 1)
    OBVIOUS
  <2>1. n \in 0..(Len(s) - 1) /\ n \in 0..Len(s) /\ n + 1 \in 1..Len(s) /\ n <= Len(s)
    BY <1>1
  <2>2. F(n) \in Seq(S) /\ FlattenSeq(Through(F(n), h)) = G(n)
    BY <1>9, <2>1
  <2>3. s[n + 1] \in Seq(S) /\ Len(s[n + 1]) <= 1
    BY <1>1, <2>1
  <2>4. F(n + 1) = F(n) \o s[n + 1] /\ G(n + 1) = G(n) \o k[n + 1]
    BY <1>4, <1>5, <2>1
  <2>5. CASE s[n + 1] = <<>>
    <3>1. k[n + 1] = <<>>
      BY <1>2, <2>1, <2>5
    <3>2. F(n + 1) = F(n) /\ G(n + 1) = G(n)
      BY <1>7, <2>1, <2>2, <2>4, <2>5, <3>1, ConcatEmptySeq
    <3> QED BY <2>2, <3>2
  <2>6. CASE s[n + 1] # <<>>
    <3>1. PICK x \in S : s[n + 1] = <<x>>
      <4>1. \E x \in S : s[n + 1] = <<x>>
        BY <2>3, <2>6, SingletonSequence
      <4> QED BY <4>1
    <3>2. k[n + 1] = h[x] /\ h[x] \in Seq(R)
      <4>1. k[n + 1] = h[s[n + 1][1]]
        BY <1>2, <2>1, <2>6
      <4>2. s[n + 1][1] = x
        BY <3>1
      <4> QED BY <4>1, <4>2
    <3> DEFINE u == F(n)
               v == Append(u, x)
    <3>3. u \in Seq(S)
      BY <2>2
    <3> HIDE DEF u
    <3>4. v \in Seq(S) /\ Len(u) \in Nat /\ Len(v) = Len(u) + 1 /\ v[Len(u) + 1] = x
          /\ \A i \in 1..Len(u) : v[i] = u[i]
      BY <3>3
    <3>5. F(n + 1) = v
      BY <2>4, <3>1, <3>3, AppendIsConcat DEF u
    <3>6. Through(u, h) \in Seq(Seq(R)) /\ Len(Through(u, h)) = Len(u)
          /\ \A i \in 1..Len(u) : Through(u, h)[i] = h[u[i]]
      BY <3>3 DEF Through
    <3> HIDE DEF v
    <3>7. Through(v, h) \in Seq(Seq(R)) /\ Len(Through(v, h)) = Len(v)
          /\ \A i \in 1..Len(v) : Through(v, h)[i] = h[v[i]]
      BY <3>4 DEF Through
    <3> DEFINE w == Append(Through(u, h), h[x])
    <3>8. w \in Seq(Seq(R)) /\ Len(w) = Len(v) /\ w[Len(u) + 1] = h[x]
          /\ \A i \in 1..Len(u) : w[i] = h[u[i]]
      BY <3>2, <3>4, <3>6, AppendFacts
    <3>9. Through(v, h) = w
      <4> HIDE DEF w
      <4>1. \A i \in 1..Len(v) : Through(v, h)[i] = w[i]
        <5> SUFFICES ASSUME NEW i \in 1..Len(v) PROVE Through(v, h)[i] = w[i]
          OBVIOUS
        <5>1. CASE i \in 1..Len(u)
          <6>1. Through(v, h)[i] = h[v[i]] /\ v[i] = u[i] /\ w[i] = h[u[i]]
            BY <3>4, <3>7, <3>8, <5>1
          <6> QED BY <6>1, Zenon
        <5>2. CASE i = Len(u) + 1
          <6>1. Through(v, h)[i] = h[v[i]] /\ v[i] = x /\ w[i] = h[x]
            BY <3>4, <3>7, <3>8, <5>2
          <6> QED BY <6>1, Zenon
        <5> QED BY <3>4, <5>1, <5>2
      <4> QED BY <3>7, <3>8, <4>1, SeqEqual
    <3>10. FlattenSeq(w) = FlattenSeq(Through(u, h)) \o h[x]
      BY <3>2, <3>6, FlattenAppend
    <3>11. FlattenSeq(Through(u, h)) = G(n)
      BY <2>2 DEF u
    <3>12. FlattenSeq(Through(F(n + 1), h)) = G(n + 1)
      BY <2>4, <3>2, <3>5, <3>9, <3>10, <3>11, Zenon
    <3> QED BY <3>4, <3>5, <3>12
  <2> QED BY <2>5, <2>6
<1>10. Len(s) \in T
  <2> HIDE DEF T
  <2> QED BY <1>1, <1>8, <1>9, SetInduction
<1> QED BY <1>1, <1>6, <1>10 DEF k

(* Flattening sequences of one element each.                                *)
LEMMA FlattenSingletons ==
  ASSUME NEW S, NEW s \in Seq(S)
  PROVE  FlattenSeq([i \in 1..Len(s) |-> <<s[i]>>]) = s
<1> DEFINE k == [i \in 1..Len(s) |-> <<s[i]>>]
           F(n) == FlattenSeq(SubSeq(k, 1, n))
           T == {n \in Nat : n <= Len(s) => F(n) = SubSeq(s, 1, n)}
<1>1. Len(s) \in Nat
  OBVIOUS
<1>2. k \in Seq(Seq(S)) /\ Len(k) = Len(s) /\ \A i \in 1..Len(s) : k[i] = <<s[i]>>
  OBVIOUS
<1> HIDE DEF k
<1>3. F(0) = <<>> /\ SubSeq(s, 1, 0) = <<>>
  <2>1. SubSeq(s, 1, 0) = <<>> /\ SubSeq(k, 1, 0) = <<>>
    BY <1>2, SubSeqEmpty
  <2> QED BY <2>1 DEF FlattenSeq
<1>4. ASSUME NEW n \in 0..(Len(s) - 1) PROVE F(n + 1) = F(n) \o k[n + 1]
  BY <1>2, FlattenPrefix
<1>5. F(Len(s)) = FlattenSeq(k) /\ SubSeq(s, 1, Len(s)) = s
  BY <1>2, SubSeqFull
<1> HIDE DEF F
<1>6. 0 \in T
  BY <1>3
<1>7. ASSUME NEW n \in Nat, n \in T PROVE n + 1 \in T
  <2> SUFFICES ASSUME n + 1 <= Len(s) PROVE F(n + 1) = SubSeq(s, 1, n + 1)
    OBVIOUS
  <2>1. n \in 0..(Len(s) - 1) /\ n + 1 \in 1..Len(s) /\ n <= Len(s) /\ n + 1 \in 0..Len(s)
        /\ n \in 0..Len(s)
    BY <1>1
  <2>2. F(n + 1) = F(n) \o <<s[n + 1]>> /\ F(n) = SubSeq(s, 1, n)
    BY <1>2, <1>4, <1>7, <2>1
  <2> DEFINE u == SubSeq(s, 1, n)
             v == SubSeq(s, 1, n + 1)
             w == u \o <<s[n + 1]>>
  <2>3. u \in Seq(S) /\ Len(u) = n /\ \A i \in 1..n : u[i] = s[i]
    BY <1>1, <2>1
  <2>4. v \in Seq(S) /\ Len(v) = n + 1 /\ \A i \in 1..(n + 1) : v[i] = s[i]
    BY <1>1, <2>1
  <2>5. s[n + 1] \in S
    BY <2>1
  <2> HIDE DEF u, v
  <2>6. w \in Seq(S) /\ Len(w) = n + 1 /\ \A i \in 1..(n + 1) : w[i] = s[i]
    BY <2>3, <2>5
  <2> HIDE DEF w
  <2>7. w = v
    BY <2>4, <2>6, SeqEqual
  <2> QED BY <2>2, <2>7 DEF u, v, w
<1>8. Len(s) \in T
  <2> HIDE DEF T
  <2> QED BY <1>1, <1>6, <1>7, SetInduction
<1> QED BY <1>1, <1>5, <1>8 DEF k

(* Sums of prefixes.                                                        *)
LEMMA SumPrefix ==
  ASSUME NEW s \in Seq(Nat), NEW n \in 0..(Len(s) - 1)
  PROVE  FoldLeft(+, 0, SubSeq(s, 1, n + 1)) = FoldLeft(+, 0, SubSeq(s, 1, n)) + s[n + 1]
<1> DEFINE u == SubSeq(s, 1, n)
           v == SubSeq(s, 1, n + 1)
           w == Append(u, s[n + 1])
<1>1. Len(s) \in Nat /\ n \in 0..Len(s) /\ n + 1 \in 0..Len(s) /\ n + 1 \in 1..Len(s)
      /\ n \in Nat
  OBVIOUS
<1>2. u \in Seq(Nat) /\ Len(u) = n /\ \A i \in 1..n : u[i] = s[i]
  BY <1>1
<1>3. v \in Seq(Nat) /\ Len(v) = n + 1 /\ \A i \in 1..(n + 1) : v[i] = s[i]
  BY <1>1
<1>4. s[n + 1] \in Nat
  BY <1>1
<1> HIDE DEF u, v
<1>5. w \in Seq(Nat) /\ Len(w) = n + 1 /\ \A i \in 1..(n + 1) : w[i] = s[i]
  BY <1>1, <1>2, <1>4
<1>6. FoldLeft(+, 0, w) = FoldLeft(+, 0, u) + s[n + 1]
  BY <1>2, <1>4, SumAppend
<1> HIDE DEF w
<1>7. v = w
  BY <1>3, <1>5, SeqEqual
<1> QED BY <1>6, <1>7 DEF u, v

(* An element behind a concatenation is one behind its second part.         *)
LEMMA ConcatAppend ==
  ASSUME NEW S, NEW s \in Seq(S), NEW q \in Seq(S), NEW x \in S
  PROVE  s \o q \in Seq(S) /\ s \o Append(q, x) = Append(s \o q, x)
<1> DEFINE a == s \o Append(q, x)
           b == Append(s \o q, x)
<1>1. PICK k \in Nat : k = Len(s)
  OBVIOUS
<1>2. PICK l \in Nat : l = Len(q)
  OBVIOUS
<1>3. /\ Append(q, x) \in Seq(S) /\ Len(Append(q, x)) = l + 1
      /\ Append(q, x)[l + 1] = x /\ \A i \in 1..l : Append(q, x)[i] = q[i]
  BY <1>2
<1>4. /\ s \o q \in Seq(S) /\ Len(s \o q) = k + l
      /\ \A i \in 1..(k + l) : (s \o q)[i] = IF i <= k THEN s[i] ELSE q[i - k]
  BY <1>1, <1>2
<1>5. /\ a \in Seq(S) /\ Len(a) = k + (l + 1)
      /\ \A i \in 1..(k + (l + 1)) : a[i] = IF i <= k THEN s[i] ELSE Append(q, x)[i - k]
  <2> DEFINE v == Append(q, x)
  <2>1. v \in Seq(S) /\ Len(v) = l + 1
    BY <1>3
  <2> HIDE DEF v
  <2>2. /\ s \o v \in Seq(S) /\ Len(s \o v) = k + (l + 1)
        /\ \A i \in 1..(k + (l + 1)) : (s \o v)[i] = IF i <= k THEN s[i] ELSE v[i - k]
    BY <1>1, <2>1
  <2> QED BY <2>2 DEF v
<1>6. /\ b \in Seq(S) /\ Len(b) = k + l + 1 /\ b[k + l + 1] = x
      /\ \A i \in 1..(k + l) : b[i] = (s \o q)[i]
  <2> DEFINE v == s \o q
  <2>1. v \in Seq(S) /\ Len(v) = k + l
    BY <1>4
  <2> HIDE DEF v
  <2>2. /\ Append(v, x) \in Seq(S) /\ Len(Append(v, x)) = k + l + 1
        /\ Append(v, x)[k + l + 1] = x /\ \A i \in 1..(k + l) : Append(v, x)[i] = v[i]
    BY <2>1
  <2> QED BY <2>2 DEF v
<1> HIDE DEF a, b
<1>7. ASSUME NEW i \in 1..(k + l + 1) PROVE a[i] = b[i]
  <2>1. CASE i = k + l + 1
    <3>1. i \in 1..(k + (l + 1)) /\ ~(i <= k) /\ i - k = l + 1
      BY <2>1
    <3> QED BY <1>3, <1>5, <1>6, <2>1, <3>1
  <2>2. CASE i \in 1..k
    <3>1. i \in 1..(k + (l + 1)) /\ i <= k /\ i \in 1..(k + l)
      BY <2>2
    <3> QED BY <1>4, <1>5, <1>6, <3>1
  <2>3. CASE i \in (k + 1)..(k + l)
    <3>1. i \in 1..(k + (l + 1)) /\ ~(i <= k) /\ i \in 1..(k + l) /\ i - k \in 1..l
      BY <2>3
    <3> QED BY <1>3, <1>4, <1>5, <1>6, <3>1
  <2> QED BY <2>1, <2>2, <2>3
<1>8. Len(a) = k + l + 1
  BY <1>5
<1>9. a = b
  BY <1>5, <1>6, <1>7, <1>8, SeqEqual
<1> QED BY <1>4, <1>9 DEF a, b

(* The sum of two sequences one behind the other.                           *)
LEMMA SumConcat ==
  ASSUME NEW s \in Seq(Nat), NEW t \in Seq(Nat)
  PROVE  FoldLeft(+, 0, s \o t) = FoldLeft(+, 0, s) + FoldLeft(+, 0, t)
<1> DEFINE L(x) == FoldLeft(+, 0, x)
           Q(n) == SubSeq(t, 1, n)
           T == {n \in Nat : n <= Len(t) =>
                   L(s \o Q(n)) = L(s) + L(Q(n))}
<1>1. Len(s) \in Nat /\ Len(t) \in Nat
  OBVIOUS
<1>0. /\ L(<<>>) = 0 /\ L(s) \in Nat
      /\ \A x \in Seq(Nat), y \in Nat : L(Append(x, y)) = L(x) + y
  BY SumEmpty, SumType, SumAppend, Zenon
<1>2. ASSUME NEW n \in 0..Len(t) PROVE Q(n) \in Seq(Nat) /\ L(Q(n)) \in Nat
  <2>1. Q(n) \in Seq(Nat)
    BY PrefixIs
  <2> HIDE DEF Q
  <2> QED BY <2>1, SumType, Zenon
<1>3. Q(0) = <<>> /\ Q(Len(t)) = t
  BY SubSeqEmpty, SubSeqFull
<1>4. ASSUME NEW n \in 0..(Len(t) - 1) PROVE Q(n + 1) = Append(Q(n), t[n + 1])
  <2> DEFINE u == Q(n)
             v == Q(n + 1)
             w == Append(u, t[n + 1])
  <2>1. n \in Nat /\ n + 1 \in 1..Len(t) /\ t[n + 1] \in Nat
    BY <1>1
  <2>2. u \in Seq(Nat) /\ Len(u) = n /\ \A i \in 1..n : u[i] = t[i]
    BY <1>1, <2>1
  <2>3. v \in Seq(Nat) /\ Len(v) = n + 1 /\ \A i \in 1..(n + 1) : v[i] = t[i]
    BY <1>1, <2>1
  <2> HIDE DEF u, v
  <2>4. w \in Seq(Nat) /\ Len(w) = n + 1 /\ \A i \in 1..(n + 1) : w[i] = t[i]
    BY <2>1, <2>2
  <2> HIDE DEF w
  <2>5. v = w
    BY <2>3, <2>4, SeqEqual
  <2> QED BY <2>5 DEF u, v, w
<1> HIDE DEF Q, L
<1>5. 0 \in T
  <2>1. s \o <<>> = s
    OBVIOUS
  <2>3. L(s) = L(s) + 0
    BY <1>0
  <2>4. L(s \o Q(0)) = L(s) + L(Q(0))
    BY <1>0, <1>3, <2>1, <2>3, Zenon
  <2> QED BY <2>4
<1>6. ASSUME NEW n \in Nat, n \in T PROVE n + 1 \in T
  <2> SUFFICES ASSUME n + 1 <= Len(t)
               PROVE  L(s \o Q(n + 1)) = L(s) + L(Q(n + 1))
    OBVIOUS
  <2>1. n \in 0..(Len(t) - 1) /\ n \in 0..Len(t) /\ n <= Len(t) /\ t[n + 1] \in Nat
    BY <1>1
  <2>2. L(s \o Q(n)) = L(s) + L(Q(n))
    BY <1>6, <2>1
  <2>3. Q(n) \in Seq(Nat) /\ L(Q(n)) \in Nat
    BY <1>2, <2>1
  <2>4. Q(n + 1) = Append(Q(n), t[n + 1])
    BY <1>4, <2>1
  <2> DEFINE q == Q(n)
  <2>12. q \in Seq(Nat)
    BY <2>3
  <2> HIDE DEF q
  <2> DEFINE x == t[n + 1]
  <2>14. x \in Nat
    BY <2>1
  <2> HIDE DEF x
  <2>15. s \o q \in Seq(Nat) /\ s \o Append(q, x) = Append(s \o q, x)
    <3>1. \A a \in Seq(Nat), b \in Seq(Nat), y \in Nat :
             a \o b \in Seq(Nat) /\ a \o Append(b, y) = Append(a \o b, y)
      BY ConcatAppend, SMTT(60)
    <3>2. s \in Seq(Nat)
      OBVIOUS
    <3> QED BY <2>12, <2>14, <3>1, <3>2, Zenon
  <2>13. s \o q \in Seq(Nat) /\ s \o Append(q, t[n + 1]) = Append(s \o q, t[n + 1])
    BY <2>15 DEF x
  <2>5. s \o Append(Q(n), t[n + 1]) = Append(s \o Q(n), t[n + 1])
    BY <2>13 DEF q
  <2>6. s \o Q(n) \in Seq(Nat)
    BY <2>13 DEF q
  <2>7. L(Append(s \o Q(n), t[n + 1])) = L(s \o Q(n)) + t[n + 1]
    BY <2>1, <2>6, <1>0
  <2>8. L(Append(Q(n), t[n + 1])) = L(Q(n)) + t[n + 1]
    BY <1>0, <2>1, <2>3
  <2>9. L(s) \in Nat
    BY <1>0
  <2>10. L(s \o Q(n + 1)) = (L(s) + L(Q(n))) + t[n + 1]
    BY <2>2, <2>4, <2>5, <2>7, Zenon
  <2>11. L(Q(n + 1)) = L(Q(n)) + t[n + 1]
    BY <2>4, <2>8, Zenon
  <2> QED BY <2>1, <2>3, <2>9, <2>10, <2>11
<1>7. Len(t) \in T
  <2> HIDE DEF T
  <2> QED BY <1>1, <1>5, <1>6, SetInduction
<1>8. L(s \o t) = L(s) + L(t)
  BY <1>1, <1>3, <1>7
<1> QED BY <1>8, Zenon DEF L

(* Counting by ones.                                                        *)
LEMMA SumOfOnes ==
  ASSUME NEW n \in Nat, NEW R
  PROVE  FoldLeft(+, 0, [i \in 1..n |-> IF i \in R THEN 1 ELSE 0])
           = Cardinality({i \in 1..n : i \in R})
<1> DEFINE s == [i \in 1..n |-> IF i \in R THEN 1 ELSE 0]
           C(m) == {i \in 1..m : i \in R}
           F(m) == FoldLeft(+, 0, SubSeq(s, 1, m))
           T == {m \in Nat : m <= n => F(m) = Cardinality(C(m))}
<1>1. s \in Seq(Nat) /\ Len(s) = n /\ \A i \in 1..n : s[i] = IF i \in R THEN 1 ELSE 0
  OBVIOUS
<1> HIDE DEF s
<1>2. F(0) = 0
  <2>1. SubSeq(s, 1, 0) = <<>>
    BY <1>1, SubSeqEmpty
  <2> QED BY <2>1, SumEmpty
<1>3. ASSUME NEW m \in 0..(n - 1) PROVE F(m + 1) = F(m) + s[m + 1]
  BY <1>1, SumPrefix
<1>4. F(n) = FoldLeft(+, 0, s)
  BY <1>1, SubSeqFull
<1>5. ASSUME NEW m \in Nat PROVE IsFiniteSet(C(m)) /\ Cardinality(C(m)) \in Nat
  <2>1. IsFiniteSet(1..m)
    BY FS_Interval
  <2>2. IsFiniteSet(C(m))
    BY <2>1, FS_Subset
  <2> QED BY <2>2, FS_CardinalityType
<1> HIDE DEF F
<1>6. 0 \in T
  <2>1. C(0) = {}
    OBVIOUS
  <2>2. Cardinality(C(0)) = 0
    BY <2>1, FS_EmptySet
  <2> QED BY <1>2, <2>2
<1>7. ASSUME NEW m \in Nat, m \in T PROVE m + 1 \in T
  <2> SUFFICES ASSUME m + 1 <= n PROVE F(m + 1) = Cardinality(C(m + 1))
    OBVIOUS
  <2>1. m \in 0..(n - 1) /\ m + 1 \in 1..n /\ m <= n
    OBVIOUS
  <2>2. F(m) = Cardinality(C(m)) /\ F(m + 1) = F(m) + s[m + 1]
    BY <1>3, <1>7, <2>1
  <2>3. CASE m + 1 \in R
    <3>1. C(m + 1) = C(m) \union {m + 1} /\ m + 1 \notin C(m)
      BY <2>3
    <3>2. Cardinality(C(m) \union {m + 1}) = Cardinality(C(m)) + 1
      <4> HIDE DEF C
      <4> QED BY <1>5, <3>1, FS_AddElement
    <3>3. s[m + 1] = 1
      BY <1>1, <2>1, <2>3
    <3> QED BY <2>2, <3>1, <3>2, <3>3, Zenon
  <2>4. CASE m + 1 \notin R
    <3>1. C(m + 1) = C(m)
      BY <2>4
    <3>2. s[m + 1] = 0
      BY <1>1, <2>1, <2>4
    <3> HIDE DEF C
    <3> QED BY <1>5, <2>2, <3>1, <3>2
  <2> QED BY <2>3, <2>4
<1>8. n \in T
  <2> HIDE DEF T
  <2> QED BY <1>6, <1>7, SetInduction
<1>9. F(n) = Cardinality(C(n))
  BY <1>8
<1> QED BY <1>4, <1>9, Zenon DEF s, C

(* The sum of nothing but zeros.                                            *)
LEMMA SumOfZeros ==
  ASSUME NEW n \in Nat, NEW s, s = [i \in 1..n |-> 0]
  PROVE  FoldLeft(+, 0, s) = 0
<1>1. s = [i \in 1..n |-> IF i \in {} THEN 1 ELSE 0]
  OBVIOUS
<1>2. {i \in 1..n : i \in {}} = {}
  OBVIOUS
<1> QED BY <1>1, <1>2, SumOfOnes, FS_EmptySet, ZenonT(30)

(* An order of a finite set lists each element once.                        *)
LEMMA OrderFacts ==
  ASSUME NEW D, IsFiniteSet(D), NEW s \in SetToSeqs(D)
  PROVE  /\ s \in Seq(D) /\ s \in [1..Cardinality(D) -> D] /\ Len(s) = Cardinality(D)
         /\ Cardinality(D) \in Nat
         /\ \A i, j \in 1..Len(s) : s[i] = s[j] => i = j
         /\ \A x \in D : \E i \in 1..Len(s) : s[i] = x
         /\ ToSet(s) = D
<1>1. Cardinality(D) \in Nat
  BY FS_CardinalityType
<1> DEFINE n == Cardinality(D)
<1>2. s \in [1..n -> D] /\ \A i, j \in 1..n : i # j => s[i] # s[j]
  BY DEF SetToSeqs
<1>3. IsFiniteSet(1..n) /\ Cardinality(1..n) = n
  <2>1. PICK m \in Nat : m = n
    BY <1>1
  <2>2. IsFiniteSet(1..m) /\ Cardinality(1..m) = IF 1 > m THEN 0 ELSE m - 1 + 1
    BY FS_Interval
  <2> QED BY <2>1, <2>2
<1>4. s \in Injection(1..n, D)
  BY <1>2 DEF Injection, IsInjective
<1>5. s \in Surjection(1..n, D)
  BY <1>3, <1>4, FS_Injection
<1>6. s \in Seq(D) /\ Len(s) = n
  BY <1>1, <1>2
<1>7. \A x \in D : \E i \in 1..n : s[i] = x
  BY <1>5 DEF Surjection
<1>8. ToSet(s) = D
  BY <1>2, <1>7 DEF ToSet
<1> QED BY <1>1, <1>2, <1>6, <1>7, <1>8

(* Whatever the order, the sum is that over the set.                        *)
LEMMA SumOverOrder ==
  ASSUME NEW D, IsFiniteSet(D), NEW a, \A x \in D : a[x] \in Nat, NEW s \in SetToSeqs(D)
  PROVE  FoldLeft(+, 0, [i \in 1..Len(s) |-> a[s[i]]]) = SumFunctionOnSet(a, D)
<1> DEFINE t == [i \in 1..Len(s) |-> a[s[i]]]
           R(n) == {s[i] : i \in 1..n}
           F(n) == FoldLeft(+, 0, SubSeq(t, 1, n))
           T == {n \in Nat : n <= Len(s) => F(n) = SumFunctionOnSet(a, R(n))}
<1>1. /\ s \in Seq(D) /\ Len(s) \in Nat
      /\ \A i, j \in 1..Len(s) : s[i] = s[j] => i = j
      /\ \A x \in D : \E i \in 1..Len(s) : s[i] = x
  BY OrderFacts
<1>2. t \in Seq(Nat) /\ Len(t) = Len(s) /\ \A i \in 1..Len(s) : t[i] = a[s[i]]
  BY <1>1
<1> HIDE DEF t
<1>3. F(0) = 0
  <2>1. SubSeq(t, 1, 0) = <<>>
    BY <1>2, SubSeqEmpty
  <2> QED BY <2>1, SumEmpty
<1>4. ASSUME NEW n \in 0..(Len(s) - 1) PROVE F(n + 1) = F(n) + t[n + 1]
  BY <1>2, SumPrefix
<1>5. F(Len(s)) = FoldLeft(+, 0, t)
  BY <1>2, SubSeqFull
<1> HIDE DEF F
<1>6. 0 \in T
  <2>1. R(0) = {}
    OBVIOUS
  <2> HIDE DEF R
  <2> QED BY <1>3, <2>1, SetSumEmpty
<1>7. ASSUME NEW n \in Nat, n \in T PROVE n + 1 \in T
  <2> SUFFICES ASSUME n + 1 <= Len(s) PROVE F(n + 1) = SumFunctionOnSet(a, R(n + 1))
    OBVIOUS
  <2>1. n \in 0..(Len(s) - 1) /\ n + 1 \in 1..Len(s) /\ n <= Len(s)
    BY <1>1
  <2>2. F(n) = SumFunctionOnSet(a, R(n)) /\ F(n + 1) = F(n) + a[s[n + 1]]
    BY <1>2, <1>4, <1>7, <2>1
  <2> DEFINE x == s[n + 1]
  <2>3. x \in D /\ R(n) \subseteq D
    <3>1. \A i \in 1..Len(s) : s[i] \in D
      BY <1>1
    <3>2. \A i \in 1..n : i \in 1..Len(s)
      BY <1>1, <2>1
    <3>3. R(n) \subseteq D
      BY <3>1, <3>2, Zenon
    <3> QED BY <2>1, <3>1, <3>3
  <2>4. R(n + 1) = R(n) \union {x} /\ x \notin R(n)
    <3>1. x \notin R(n)
      <4> SUFFICES ASSUME NEW i \in 1..n, s[i] = x PROVE FALSE
        OBVIOUS
      <4>1. i \in 1..Len(s) /\ i # n + 1
        BY <1>1, <2>1
      <4> QED BY <1>1, <2>1, <4>1
    <3>2. R(n + 1) = R(n) \union {x}
      BY <2>1
    <3> QED BY <3>1, <3>2
  <2> HIDE DEF R, x
  <2>5. IsFiniteSet(R(n)) /\ (\A y \in R(n) : a[y] \in Nat) /\ a[x] \in Nat
    BY <2>3, FS_Subset
  <2>6. SumFunctionOnSet(a, R(n) \union {x}) = a[x] + SumFunctionOnSet(a, R(n))
    BY <2>4, <2>5, SetSumAdd
  <2>7. SumFunctionOnSet(a, R(n)) \in Nat
    BY <2>5, SetSumType
  <2>8. a[x] + SumFunctionOnSet(a, R(n)) = SumFunctionOnSet(a, R(n)) + a[x]
    BY <2>5, <2>7
  <2>9. F(n + 1) = SumFunctionOnSet(a, R(n)) + a[x]
    BY <2>2, Zenon DEF x
  <2>10. SumFunctionOnSet(a, R(n + 1)) = a[x] + SumFunctionOnSet(a, R(n))
    BY <2>4, <2>6, Zenon
  <2> QED BY <2>8, <2>9, <2>10, Zenon
<1>8. Len(s) \in T
  <2> HIDE DEF T
  <2> QED BY <1>1, <1>6, <1>7, SetInduction
<1>9. R(Len(s)) = D
  BY <1>1
<1> HIDE DEF R
<1>10. F(Len(s)) = SumFunctionOnSet(a, R(Len(s)))
  BY <1>1, <1>8
<1> QED BY <1>5, <1>9, <1>10, Zenon DEF t

(* One element of a function grows, or comes in.                            *)
LEMMA SumGrows ==
  ASSUME NEW D, IsFiniteSet(D), NEW a, \A y \in D : a[y] \in Nat, NEW x, NEW m \in Nat,
         NEW before, x \in D => before = a[x], x \notin D => before = 0,
         NEW b, b[x] = before + m, \A y \in D : y # x => b[y] = a[y]
  PROVE  SumFunctionOnSet(b, D \union {x}) = SumFunctionOnSet(a, D) + m
<1> DEFINE R == D \ {x}
<1>1. IsFiniteSet(R) /\ x \notin R /\ R \union {x} = D \union {x}
  BY FS_Subset
<1>2. b[x] = before + m /\ b[x] \in Nat
      /\ \A y \in R : a[y] \in Nat /\ b[y] = a[y] /\ b[y] \in Nat
  OBVIOUS
<1>3. SumFunctionOnSet(b, D \union {x}) = b[x] + SumFunctionOnSet(b, R)
  <2> HIDE DEF R
  <2> QED BY <1>1, <1>2, SetSumAdd
<1>4. SumFunctionOnSet(b, R) = SumFunctionOnSet(a, R) /\ SumFunctionOnSet(a, R) \in Nat
  <2> HIDE DEF R
  <2>1. SumFunctionOnSet(a, R) = SumFunctionOnSet(b, R)
    BY <1>1, <1>2, SetSumSame
  <2> QED BY <1>1, <1>2, <2>1, SetSumType
<1>5. CASE x \in D
  <2>1. SumFunctionOnSet(a, D) = a[x] + SumFunctionOnSet(a, R)
    BY <1>5, SetSumRemove
  <2> HIDE DEF R
  <2>2. a[x] \in Nat /\ b[x] = a[x] + m
    BY <1>2, <1>5
  <2> QED BY <1>3, <1>4, <2>1, <2>2
<1>6. CASE x \notin D
  <2>1. R = D /\ b[x] = 0 + m
    BY <1>2, <1>6
  <2> HIDE DEF R
  <2> QED BY <1>3, <1>4, <2>1
<1> QED BY <1>5, <1>6

(* The sum of the first n values of a function, and of one more.            *)
LEMMA SumNext ==
  ASSUME NEW n \in Nat, NEW p, \A i \in 1..(n + 1) : p[i] \in Nat
  PROVE  FoldLeft(+, 0, [i \in 1..(n + 1) |-> p[i]])
           = FoldLeft(+, 0, [i \in 1..n |-> p[i]]) + p[n + 1]
<1> DEFINE s == [i \in 1..(n + 1) |-> p[i]]
           t == [i \in 1..n |-> p[i]]
<1>1. s \in Seq(Nat) /\ Len(s) = n + 1 /\ s[n + 1] = p[n + 1] /\ \A i \in 1..n : s[i] = p[i]
  OBVIOUS
<1>2. n \in 0..Len(s) /\ n \in 0..(Len(s) - 1)
  <2> HIDE DEF s
  <2> QED BY <1>1
<1>3. SubSeq(s, 1, n) = t
  <2>1. SubSeq(s, 1, n) = [i \in 1..n |-> s[i]]
    <3> HIDE DEF s
    <3> QED BY <1>1, <1>2, PrefixIs
  <2>2. [i \in 1..n |-> s[i]] = t
    <3> HIDE DEF s
    <3> QED BY <1>1
  <2> QED BY <2>1, <2>2
<1>4. SubSeq(s, 1, n + 1) = s
  <2> HIDE DEF s
  <2> QED BY <1>1, SubSeqFull
<1> HIDE DEF s, t
<1>5. FoldLeft(+, 0, SubSeq(s, 1, n + 1)) = FoldLeft(+, 0, SubSeq(s, 1, n)) + s[n + 1]
  BY <1>1, <1>2, SumPrefix
<1>6. FoldLeft(+, 0, s) = FoldLeft(+, 0, t) + p[n + 1]
  BY <1>1, <1>3, <1>4, <1>5, Zenon
<1> QED BY <1>6, Zenon DEF s, t

(* The sum of a function's values up to n, in two parts.                    *)
LEMMA SumSplit ==
  ASSUME NEW n \in Nat, NEW k \in 0..n, NEW p, \A i \in 1..n : p[i] \in Nat
  PROVE  FoldLeft(+, 0, [i \in 1..n |-> p[i]])
           = FoldLeft(+, 0, [i \in 1..k |-> p[i]])
               + FoldLeft(+, 0, [i \in 1..(n - k) |-> p[k + i]])
<1> DEFINE s == [i \in 1..n |-> p[i]]
           v == [i \in 1..k |-> p[i]]
           w == [i \in 1..(n - k) |-> p[k + i]]
<1>1. s \in Seq(Nat) /\ Len(s) = n /\ \A i \in 1..n : s[i] = p[i]
  OBVIOUS
<1>2. v \in Seq(Nat) /\ Len(v) = k /\ \A i \in 1..k : v[i] = p[i]
  OBVIOUS
<1>3. w \in Seq(Nat) /\ Len(w) = n - k /\ \A i \in 1..(n - k) : w[i] = p[k + i]
  OBVIOUS
<1> HIDE DEF s, v, w
<1>4. v \o w \in Seq(Nat) /\ Len(v \o w) = n
      /\ \A i \in 1..n : (v \o w)[i] = IF i <= k THEN v[i] ELSE w[i - k]
  BY <1>2, <1>3
<1> DEFINE c == v \o w
<1>5. c \in Seq(Nat) /\ Len(c) = n /\ \A i \in 1..n : c[i] = IF i <= k THEN v[i] ELSE w[i - k]
  BY <1>4
<1> HIDE DEF c
<1>6. ASSUME NEW i \in 1..n PROVE c[i] = p[i]
  <2>1. CASE i <= k
    <3>1. i \in 1..k
      BY <2>1
    <3> QED BY <1>2, <1>5, <2>1, <3>1
  <2>2. CASE ~(i <= k)
    <3>1. i - k \in 1..(n - k) /\ k + (i - k) = i
      BY <2>2
    <3> QED BY <1>3, <1>5, <2>2, <3>1
  <2> QED BY <2>1, <2>2
<1>7. c = s
  BY <1>1, <1>5, <1>6, SeqEqual
<1>8. FoldLeft(+, 0, v \o w) = FoldLeft(+, 0, v) + FoldLeft(+, 0, w)
  BY <1>2, <1>3, SumConcat
<1> QED BY <1>7, <1>8, Zenon DEF s, v, w, c

----------------------------------------------------------------------------
(* Parts of a sequence: the elements of s at the places P, in their order.  *)
ElementsAt(s, P) == FlattenSeq([i \in 1..Len(s) |-> IF i \in P THEN <<s[i]>> ELSE <<>>])

(* t lists the elements that s has at the places P up to n, in their order; *)
(* the one at p is from the place h[p].                                     *)
ListsAt(t, s, n, P, h) ==
  /\ h \in [1..Len(t) -> 1..n]
  /\ \A p \in 1..Len(t) : h[p] \in P /\ t[p] = s[h[p]]
  /\ \A p, q \in 1..Len(t) : p < q => h[p] < h[q]
  /\ \A i \in 1..n : i \in P => \E p \in 1..Len(t) : h[p] = i

(* One place more.                                                          *)
LEMMA ListsNext ==
  ASSUME NEW S, NEW s \in Seq(S), NEW n \in 0..(Len(s) - 1), NEW P, NEW t \in Seq(S), NEW h,
         ListsAt(t, s, n, P, h)
  PROVE  /\ n + 1 \notin P => ListsAt(t, s, n + 1, P, h)
         /\ n + 1 \in P => \E g : ListsAt(t \o <<s[n + 1]>>, s, n + 1, P, g)
<1> DEFINE m == Len(t)
<1>1. m \in Nat /\ n \in Nat /\ Len(s) \in Nat
  OBVIOUS
<1>2. /\ h \in [1..m -> 1..n]
      /\ \A p \in 1..m : h[p] \in P /\ t[p] = s[h[p]]
      /\ \A p, q \in 1..m : p < q => h[p] < h[q]
      /\ \A i \in 1..n : i \in P => \E p \in 1..m : h[p] = i
  BY DEF ListsAt
<1>3. ASSUME n + 1 \notin P PROVE ListsAt(t, s, n + 1, P, h)
  <2>1. h \in [1..m -> 1..(n + 1)]
    BY <1>1, <1>2
  <2>2. \A i \in 1..(n + 1) : i \in P => i \in 1..n
    BY <1>1, <1>3
  <2> QED BY <1>2, <2>1, <2>2 DEF ListsAt
<1>4. ASSUME n + 1 \in P PROVE \E g : ListsAt(t \o <<s[n + 1]>>, s, n + 1, P, g)
  <2> DEFINE u == t \o <<s[n + 1]>>
             g == [p \in 1..(m + 1) |-> IF p \in 1..m THEN h[p] ELSE n + 1]
  <2>1. Len(u) = m + 1 /\ u[m + 1] = s[n + 1] /\ \A p \in 1..m : u[p] = t[p]
    BY <1>1
  <2>2. /\ g \in [1..(m + 1) -> 1..(n + 1)] /\ g[m + 1] = n + 1
        /\ \A p \in 1..m : g[p] = h[p] /\ h[p] \in 1..n
    <3> HIDE DEF m
    <3>1. \A p \in 1..m : h[p] \in 1..n
      BY <1>2
    <3>2. \A p \in 1..(m + 1) : (IF p \in 1..m THEN h[p] ELSE n + 1) \in 1..(n + 1)
      BY <1>1, <3>1
    <3>3. m + 1 \in 1..(m + 1) /\ m + 1 \notin 1..m /\ \A p \in 1..m : p \in 1..(m + 1)
      BY <1>1
    <3> QED BY <3>1, <3>2, <3>3
  <2>3. \A p \in 1..(m + 1) : p \in 1..m \/ p = m + 1
    BY <1>1
  <2> HIDE DEF u, g, m
  <2>4. \A p \in 1..(m + 1) : g[p] \in P /\ u[p] = s[g[p]]
    BY <1>2, <1>4, <2>1, <2>2, <2>3
  <2>5. \A p, q \in 1..(m + 1) : p < q => g[p] < g[q]
    <3>1. SUFFICES ASSUME NEW p \in 1..(m + 1), NEW q \in 1..(m + 1), p < q PROVE g[p] < g[q]
      OBVIOUS
    <3>2. p \in 1..m
      BY <1>1, <3>1
    <3>3. CASE q \in 1..m
      BY <1>2, <2>2, <3>1, <3>2, <3>3
    <3>4. CASE q = m + 1
      <4>1. g[p] \in 1..n
        BY <1>2, <2>2, <3>2
      <4>2. g[q] = n + 1
        BY <2>2, <3>4
      <4> QED BY <1>1, <4>1, <4>2
    <3> QED BY <2>3, <3>3, <3>4
  <2>6. ASSUME NEW i \in 1..(n + 1), i \in P PROVE \E p \in 1..(m + 1) : g[p] = i
    <3>1. CASE i \in 1..n
      <4>1. PICK p \in 1..m : h[p] = i
        BY <1>2, <2>6, <3>1
      <4> QED BY <1>1, <2>2, <4>1
    <3>2. CASE i = n + 1
      BY <1>1, <2>2, <3>2
    <3> QED BY <1>1, <3>1, <3>2
  <2>7. ListsAt(u, s, n + 1, P, g)
    BY <2>1, <2>2, <2>4, <2>5, <2>6, Zenon DEF ListsAt
  <2> QED BY <2>7 DEF u
<1> QED BY <1>3, <1>4

(* So the elements are listed.                                              *)
LEMMA ElementsAtLists ==
  ASSUME NEW S, NEW s \in Seq(S), NEW P
  PROVE  ElementsAt(s, P) \in Seq(S) /\ \E h : ListsAt(ElementsAt(s, P), s, Len(s), P, h)
<1> DEFINE k == [i \in 1..Len(s) |-> IF i \in P THEN <<s[i]>> ELSE <<>>]
           F(n) == FlattenSeq(SubSeq(k, 1, n))
           Good(n) == F(n) \in Seq(S) /\ \E h : ListsAt(F(n), s, n, P, h)
           T == {n \in Nat : n <= Len(s) => Good(n)}
<1>1. Len(s) \in Nat /\ \A i \in 1..Len(s) : s[i] \in S
  OBVIOUS
<1>2. k \in Seq(Seq(S)) /\ Len(k) = Len(s) /\ \A i \in 1..Len(s) : k[i] = IF i \in P THEN <<s[i]>> ELSE <<>>
  BY <1>1
<1> HIDE DEF k
<1>3. 0 \in T
  <2>1. SubSeq(k, 1, 0) = <<>>
    BY <1>2, SubSeqEmpty
  <2>2. F(0) = <<>>
    BY <2>1 DEF FlattenSeq
  <2>3. <<>> \in Seq(S) /\ Len(<<>>) = 0
    OBVIOUS
  <2>4. ListsAt(<<>>, s, 0, P, [p \in 1..0 |-> 0])
    BY <2>3 DEF ListsAt
  <2> HIDE DEF F
  <2> QED BY <2>2, <2>3, <2>4
<1>4. ASSUME NEW n \in Nat, n \in T PROVE n + 1 \in T
  <2>1. SUFFICES ASSUME n + 1 <= Len(s) PROVE Good(n + 1)
    <3> HIDE DEF Good
    <3> QED OBVIOUS
  <2>2. Good(n)
    <3> HIDE DEF Good
    <3> QED BY <1>1, <1>4, <2>1
  <2>3. n \in 0..(Len(k) - 1) /\ n \in 0..(Len(s) - 1) /\ n + 1 \in 1..Len(s)
    BY <1>1, <1>2, <2>1
  <2>4. F(n + 1) = F(n) \o k[n + 1]
    BY <1>2, <2>3, FlattenPrefix
  <2> DEFINE t == F(n)
  <2>5. t \in Seq(S)
    BY <2>2
  <2>6. PICK h : ListsAt(t, s, n, P, h)
    BY <2>2, Zenon
  <2> HIDE DEF t, F
  <2>7. /\ n + 1 \notin P => ListsAt(t, s, n + 1, P, h)
        /\ n + 1 \in P => \E g : ListsAt(t \o <<s[n + 1]>>, s, n + 1, P, g)
    BY <2>3, <2>5, <2>6, ListsNext
  <2>8. CASE n + 1 \in P
    <3>1. F(n + 1) = t \o <<s[n + 1]>>
      BY <1>2, <2>3, <2>4, <2>8 DEF t
    <3>2. t \o <<s[n + 1]>> \in Seq(S)
      BY <1>1, <2>3, <2>5
    <3> QED BY <2>7, <2>8, <3>1, <3>2, Zenon
  <2>9. CASE n + 1 \notin P
    <3>1. F(n + 1) = t \o <<>>
      BY <1>2, <2>3, <2>4, <2>9 DEF t
    <3>2. F(n + 1) = t
      BY <2>5, <3>1, ConcatEmptySeq
    <3> QED BY <2>5, <2>7, <2>9, <3>2, Zenon
  <2> QED BY <2>8, <2>9
<1>5. Good(Len(s))
  <2> HIDE DEF Good
  <2>1. Nat \subseteq T
    <3> HIDE DEF T
    <3> QED BY <1>3, <1>4, SetInduction
  <2> QED BY <1>1, <2>1
<1>6. F(Len(s)) = ElementsAt(s, P)
  <2>1. SubSeq(k, 1, Len(s)) = k
    BY <1>2, SubSeqFull
  <2> QED BY <2>1, Zenon DEF ElementsAt, k
<1> HIDE DEF F
<1> QED BY <1>5, <1>6

(* There is only one such list.                                             *)
LEMMA ListsSame ==
  ASSUME NEW S, NEW s, NEW n \in Nat, NEW P, NEW t \in Seq(S), NEW h, ListsAt(t, s, n, P, h),
         NEW u \in Seq(S), NEW g, ListsAt(u, s, n, P, g)
  PROVE  t = u
<1> DEFINE a == Len(t)
           b == Len(u)
           T == {m \in Nat : \A p \in 1..a : p <= m => p \in 1..b /\ h[p] = g[p]}
           U == {m \in Nat : \A p \in 1..b : p <= m => p \in 1..a}
<1>1. a \in Nat /\ b \in Nat
  OBVIOUS
<1>2. /\ h \in [1..a -> 1..n]
      /\ \A p \in 1..a : h[p] \in P /\ t[p] = s[h[p]]
      /\ \A p, q \in 1..a : p < q => h[p] < h[q]
      /\ \A i \in 1..n : i \in P => \E p \in 1..a : h[p] = i
  BY DEF ListsAt
<1>3. /\ g \in [1..b -> 1..n]
      /\ \A p \in 1..b : g[p] \in P /\ u[p] = s[g[p]]
      /\ \A p, q \in 1..b : p < q => g[p] < g[q]
      /\ \A i \in 1..n : i \in P => \E p \in 1..b : g[p] = i
  BY DEF ListsAt
<1> HIDE DEF a, b
<1>4. /\ \A p \in 1..a : h[p] \in 1..n /\ \E q \in 1..b : g[q] = h[p]
      /\ \A q \in 1..b : g[q] \in 1..n /\ \E p \in 1..a : h[p] = g[q]
  BY <1>2, <1>3
<1>5. 0 \in T
  BY <1>1
<1>6. ASSUME NEW m \in Nat, m \in T PROVE m + 1 \in T
  <2>1. SUFFICES ASSUME m + 1 \in 1..a PROVE m + 1 \in 1..b /\ h[m + 1] = g[m + 1]
    BY <1>1, <1>6
  <2>2. \A p \in 1..m : p \in 1..a /\ p \in 1..b /\ h[p] = g[p]
    BY <1>1, <1>6, <2>1
  <2>3. PICK q \in 1..b : g[q] = h[m + 1]
    BY <1>4, <2>1
  <2>4. q \notin 1..m
    <3>1. SUFFICES ASSUME q \in 1..m PROVE FALSE
      OBVIOUS
    <3>2. h[q] = h[m + 1] /\ q < m + 1 /\ q \in 1..a
      BY <2>2, <2>3, <3>1
    <3>3. h[q] < h[m + 1] /\ h[q] \in Int
      BY <1>2, <1>4, <2>1, <3>2
    <3> QED BY <3>2, <3>3
  <2>5. q >= m + 1 /\ m + 1 \in 1..b
    BY <1>1, <2>4
  <2>6. PICK p \in 1..a : h[p] = g[m + 1]
    BY <1>4, <2>5
  <2>7. p \notin 1..m
    <3>1. SUFFICES ASSUME p \in 1..m PROVE FALSE
      OBVIOUS
    <3>2. g[p] = g[m + 1] /\ p < m + 1 /\ p \in 1..b
      BY <2>2, <2>6, <3>1
    <3>3. g[p] < g[m + 1] /\ g[p] \in Int
      BY <1>3, <1>4, <2>5, <3>2
    <3> QED BY <3>2, <3>3
  <2>8. p >= m + 1
    BY <1>1, <2>7
  <2>9. q = m + 1 \/ g[m + 1] < g[q]
    BY <1>3, <2>5
  <2>10. p = m + 1 \/ h[m + 1] < h[p]
    BY <1>2, <2>1, <2>8
  <2>11. h[m + 1] \in 1..n /\ g[m + 1] \in 1..n
    BY <1>4, <2>1, <2>5, Zenon
  <2> QED BY <2>3, <2>5, <2>6, <2>9, <2>10, <2>11
<1>7. \A p \in 1..a : p \in 1..b /\ h[p] = g[p]
  <2>1. Nat \subseteq T
    <3> HIDE DEF T
    <3> QED BY <1>5, <1>6, SetInduction
  <2>2. SUFFICES ASSUME NEW p \in 1..a PROVE p \in 1..b /\ h[p] = g[p]
    OBVIOUS
  <2>3. p \in Nat /\ p <= p
    BY <1>1
  <2> QED BY <2>1, <2>3
<1>8. a = b
  <2>1. a <= b
    BY <1>1, <1>7
  <2>2. SUFFICES ASSUME a < b PROVE FALSE
    BY <1>1, <2>1
  <2>3. a + 1 \in 1..b
    BY <1>1, <2>2
  <2>4. PICK p \in 1..a : h[p] = g[a + 1]
    BY <1>4, <2>3
  <2>5. p \in 1..b /\ g[p] = g[a + 1] /\ p < a + 1
    BY <1>1, <1>7, <2>4
  <2>6. g[p] < g[a + 1] /\ g[p] \in Int
    BY <1>3, <1>4, <2>3, <2>5
  <2> QED BY <2>5, <2>6
<1>9. \A p \in 1..a : t[p] = u[p]
  BY <1>2, <1>3, <1>7
<1> QED BY <1>8, <1>9, SeqEqual DEF a, b

(* A list is as long as there are places.                                   *)
LEMMA ListsLength ==
  ASSUME NEW S, NEW s, NEW n \in Nat, NEW P, NEW t \in Seq(S), NEW h, ListsAt(t, s, n, P, h)
  PROVE  Len(t) = Cardinality({i \in 1..n : i \in P})
<1> DEFINE m == Len(t)
           Q == {i \in 1..n : i \in P}
<1>1. m \in Nat
  OBVIOUS
<1>2. /\ h \in [1..m -> 1..n]
      /\ \A p \in 1..m : h[p] \in P
      /\ \A p, q \in 1..m : p < q => h[p] < h[q]
      /\ \A i \in 1..n : i \in P => \E p \in 1..m : h[p] = i
  BY DEF ListsAt
<1> HIDE DEF m
<1>3. h \in [1..m -> Q]
  BY <1>2
<1>4. h \in Seq(Q) /\ Len(h) = m
  BY <1>1, <1>3
<1>5. \A p \in 1..m : h[p] \in 1..n
  BY <1>2
<1>6. \A p, q \in 1..m : h[p] = h[q] => p = q
  <2>1. SUFFICES ASSUME NEW p \in 1..m, NEW q \in 1..m, h[p] = h[q], p # q PROVE FALSE
    OBVIOUS
  <2>2. h[p] \in 1..n /\ h[q] \in 1..n /\ (p < q \/ q < p)
    BY <1>5, <2>1
  <2> QED BY <1>2, <2>1, <2>2
<1>7. IsFiniteSet(Q)
  <2>1. IsFiniteSet(1..n) /\ Q \subseteq 1..n
    BY FS_Interval
  <2> QED BY <2>1, FS_Subset
<1>8. \A i \in Q : \E p \in 1..m : h[p] = i
  BY <1>2
<1> HIDE DEF Q
<1>9. Len(h) = Cardinality(Q)
  BY <1>4, <1>6, <1>7, <1>8, DistinctFacts
<1> QED BY <1>4, <1>9 DEF m, Q

(* Two lists, the places of one before those of the other.                  *)
LEMMA ListsJoin ==
  ASSUME NEW S, NEW s, NEW n \in Nat, NEW P, NEW Q,
         NEW t \in Seq(S), NEW h, ListsAt(t, s, n, P, h),
         NEW u \in Seq(S), NEW g, ListsAt(u, s, n, Q, g),
         \A i, j \in 1..n : i \in P /\ j \in Q => i < j
  PROVE  \E f : ListsAt(t \o u, s, n, P \union Q, f)
<1> DEFINE a == Len(t)
           b == Len(u)
           v == t \o u
           f == [p \in 1..(a + b) |-> IF p <= a THEN h[p] ELSE g[p - a]]
<1>1. a \in Nat /\ b \in Nat /\ Len(v) = a + b
  OBVIOUS
<1>2. \A p \in 1..(a + b) : v[p] = IF p <= a THEN t[p] ELSE u[p - a]
  OBVIOUS
<1>3. /\ h \in [1..a -> 1..n]
      /\ \A p \in 1..a : h[p] \in P /\ t[p] = s[h[p]]
      /\ \A p, q \in 1..a : p < q => h[p] < h[q]
      /\ \A i \in 1..n : i \in P => \E p \in 1..a : h[p] = i
  BY DEF ListsAt
<1>4. /\ g \in [1..b -> 1..n]
      /\ \A p \in 1..b : g[p] \in Q /\ u[p] = s[g[p]]
      /\ \A p, q \in 1..b : p < q => g[p] < g[q]
      /\ \A i \in 1..n : i \in Q => \E p \in 1..b : g[p] = i
  BY DEF ListsAt
<1> HIDE DEF a, b, v
<1>5. \A p \in 1..(a + b) : \/ p \in 1..a /\ p <= a
                            \/ p - a \in 1..b /\ ~(p <= a)
  BY <1>1
<1>6. \A p \in 1..a : h[p] \in 1..n /\ p \in 1..(a + b) /\ p <= a
  BY <1>1, <1>3
<1>7. \A p \in 1..b : g[p] \in 1..n /\ a + p \in 1..(a + b) /\ ~(a + p <= a) /\ (a + p) - a = p
  BY <1>1, <1>4
<1>8. DOMAIN f = 1..(a + b) /\ \A p \in 1..(a + b) : f[p] = IF p <= a THEN h[p] ELSE g[p - a]
  OBVIOUS
<1>9. f \in [1..(a + b) -> 1..n]
  BY <1>5, <1>6, <1>7
<1> HIDE DEF f
<1>10. ASSUME NEW p \in 1..(a + b) PROVE f[p] \in P \union Q /\ v[p] = s[f[p]]
  <2>1. CASE p \in 1..a
    <3>1. f[p] = h[p] /\ v[p] = t[p]
      BY <1>2, <1>6, <1>8, <2>1
    <3> QED BY <1>3, <2>1, <3>1
  <2>2. CASE p - a \in 1..b /\ ~(p <= a)
    <3>1. f[p] = g[p - a] /\ v[p] = u[p - a]
      BY <1>2, <1>8, <2>2
    <3> QED BY <1>4, <2>2, <3>1
  <2> QED BY <1>5, <2>1, <2>2
<1>11. ASSUME NEW p \in 1..(a + b), NEW q \in 1..(a + b), p < q PROVE f[p] < f[q]
  <2>1. CASE p \in 1..a /\ q \in 1..a
    <3>1. f[p] = h[p] /\ f[q] = h[q]
      BY <1>6, <1>8, <2>1
    <3> QED BY <1>3, <1>11, <2>1, <3>1
  <2>2. CASE p \in 1..a /\ q - a \in 1..b /\ ~(q <= a)
    <3>1. f[p] = h[p] /\ f[q] = g[q - a]
      BY <1>6, <1>8, <2>2
    <3>2. h[p] \in P /\ h[p] \in 1..n /\ g[q - a] \in Q /\ g[q - a] \in 1..n
      BY <1>3, <1>4, <1>6, <1>7, <2>2
    <3> QED BY <3>1, <3>2
  <2>3. CASE p - a \in 1..b /\ ~(p <= a)
    <3>1. q - a \in 1..b /\ ~(q <= a) /\ p - a < q - a
      BY <1>1, <1>5, <1>11, <2>3
    <3>2. f[p] = g[p - a] /\ f[q] = g[q - a]
      BY <1>8, <2>3, <3>1
    <3> QED BY <1>4, <2>3, <3>1, <3>2
  <2> QED BY <1>5, <2>1, <2>2, <2>3
<1>12. ASSUME NEW i \in 1..n, i \in P \union Q PROVE \E p \in 1..(a + b) : f[p] = i
  <2>1. CASE i \in P
    <3>1. PICK p \in 1..a : h[p] = i
      BY <1>3, <2>1
    <3> QED BY <1>6, <1>8, <3>1
  <2>2. CASE i \in Q
    <3>1. PICK p \in 1..b : g[p] = i
      BY <1>4, <2>2
    <3>2. f[a + p] = g[p] /\ a + p \in 1..(a + b)
      BY <1>7, <1>8, <3>1
    <3> QED BY <3>1, <3>2
  <2> QED BY <1>12, <2>1, <2>2
<1>13. ListsAt(v, s, n, P \union Q, f)
  BY <1>1, <1>9, <1>10, <1>11, <1>12, Zenon DEF ListsAt
<1> QED BY <1>13 DEF v

(* A list of elements of a list.                                            *)
LEMMA ListsOfList ==
  ASSUME NEW S, NEW s, NEW n \in Nat, NEW P, NEW Q, NEW R,
         NEW t \in Seq(S), NEW h, ListsAt(t, s, n, P, h),
         NEW u \in Seq(S), NEW g, ListsAt(u, t, Len(t), R, g),
         \A p \in 1..Len(t) : p \in R <=> h[p] \in Q
  PROVE  \E f : ListsAt(u, s, n, P \intersect Q, f)
<1> DEFINE a == Len(t)
           b == Len(u)
           f == [p \in 1..b |-> h[g[p]]]
<1>1. a \in Nat /\ b \in Nat
  OBVIOUS
<1>2. /\ h \in [1..a -> 1..n]
      /\ \A p \in 1..a : h[p] \in P /\ t[p] = s[h[p]]
      /\ \A p, q \in 1..a : p < q => h[p] < h[q]
      /\ \A i \in 1..n : i \in P => \E p \in 1..a : h[p] = i
  BY DEF ListsAt
<1>3. /\ g \in [1..b -> 1..a]
      /\ \A p \in 1..b : g[p] \in R /\ u[p] = t[g[p]]
      /\ \A p, q \in 1..b : p < q => g[p] < g[q]
      /\ \A i \in 1..a : i \in R => \E p \in 1..b : g[p] = i
  BY DEF ListsAt
<1>4. \A p \in 1..a : p \in R <=> h[p] \in Q
  OBVIOUS
<1> HIDE DEF a, b
<1>5. \A p \in 1..b : g[p] \in 1..a /\ h[g[p]] \in 1..n
  BY <1>2, <1>3
<1>6. f \in [1..b -> 1..n] /\ \A p \in 1..b : f[p] = h[g[p]]
  BY <1>5
<1> HIDE DEF f
<1>7. \A p \in 1..b : f[p] \in P \intersect Q /\ u[p] = s[f[p]]
  BY <1>2, <1>3, <1>4, <1>5, <1>6
<1>8. \A p, q \in 1..b : p < q => f[p] < f[q]
  BY <1>2, <1>3, <1>5, <1>6
<1>9. ASSUME NEW i \in 1..n, i \in P \intersect Q PROVE \E p \in 1..b : f[p] = i
  <2>1. PICK q \in 1..a : h[q] = i
    BY <1>2, <1>9
  <2>2. q \in R
    BY <1>4, <1>9, <2>1
  <2>3. PICK p \in 1..b : g[p] = q
    BY <1>3, <2>2
  <2> QED BY <1>6, <2>1, <2>3
<1>10. ListsAt(u, s, n, P \intersect Q, f)
  BY <1>6, <1>7, <1>8, <1>9, Zenon DEF ListsAt, b
<1> QED BY <1>10

(* The last element is from the last place.                                 *)
LEMMA ListsLast ==
  ASSUME NEW S, NEW s, NEW n \in Nat, NEW P, NEW t \in Seq(S), NEW h, ListsAt(t, s, n, P, h),
         NEW i \in 1..n, i \in P, \A j \in 1..n : j \in P => j <= i
  PROVE  Last(t) = s[i]
<1> DEFINE a == Len(t)
<1>1. a \in Nat /\ Last(t) = t[a]
  BY DEF Last
<1>2. /\ h \in [1..a -> 1..n]
      /\ \A p \in 1..a : h[p] \in P /\ t[p] = s[h[p]]
      /\ \A p, q \in 1..a : p < q => h[p] < h[q]
      /\ \A j \in 1..n : j \in P => \E p \in 1..a : h[p] = j
  BY DEF ListsAt
<1> HIDE DEF a
<1>3. PICK p \in 1..a : h[p] = i
  BY <1>2
<1>4. a \in 1..a /\ (p = a \/ p < a)
  BY <1>1
<1>5. h[a] \in 1..n /\ h[a] <= i
  BY <1>2, <1>4
<1>6. p = a
  BY <1>2, <1>3, <1>4, <1>5
<1> QED BY <1>1, <1>2, <1>3, <1>6

(* A finite set of positive numbers lies below some number.                 *)
LEMMA FiniteBound ==
  ASSUME NEW V \in SUBSET (Nat \ {0}), IsFiniteSet(V)
  PROVE  \E n \in Nat : V \subseteq 1..n
<1>1. CASE V = {}
  <2>1. V \subseteq 1..0 /\ 0 \in Nat
    BY <1>1
  <2> QED BY <2>1
<1>2. CASE V # {}
  <2>1. Max(V) \in V /\ \A x \in V : x <= Max(V)
    BY <1>2, FiniteMaxFacts
  <2>2. PICK n \in Nat : n = Max(V)
    BY <2>1
  <2>3. V \subseteq 1..n
    BY <2>1, <2>2
  <2> QED BY <2>3
<1> QED BY <1>1, <1>2

(* t lists the numbers of V from the least to the greatest.                 *)
Enumerates(t, V) ==
  /\ t \in Seq(V)
  /\ \A i, j \in 1..Len(t) : i < j => t[i] < t[j]
  /\ \A x \in V : \E i \in 1..Len(t) : t[i] = x

(* Such a list picks its elements out of the numbers.                       *)
LEMMA EnumerationLists ==
  ASSUME NEW n \in Nat, NEW V \in SUBSET (1..n), NEW t, Enumerates(t, V)
  PROVE  ListsAt(t, [i \in 1..n |-> i], n, V, t)
<1> DEFINE s == [i \in 1..n |-> i]
<1>1. \A i \in 1..n : s[i] = i
  OBVIOUS
<1> HIDE DEF s
<1>2. t \in Seq(V) /\ \A p \in 1..Len(t) : t[p] \in V /\ t[p] \in 1..n
  <2>1. t \in Seq(V)
    BY DEF Enumerates
  <2>2. \A p \in 1..Len(t) : t[p] \in V
    BY <2>1
  <2> QED BY <2>1, <2>2
<1>3. t \in [1..Len(t) -> 1..n]
  BY <1>2
<1>4. \A p \in 1..Len(t) : t[p] = s[t[p]]
  BY <1>1, <1>2
<1>5. ListsAt(t, s, n, V, t)
  BY <1>2, <1>3, <1>4 DEF ListsAt, Enumerates
<1> QED BY <1>5 DEF s

(* There is one for every finite set.                                       *)
LEMMA EnumerationExists ==
  ASSUME NEW V \in SUBSET (Nat \ {0}), IsFiniteSet(V)
  PROVE  \E t \in SetToSeqs(V) : \A i, j \in 1..Len(t) : i < j => t[i] < t[j]
<1>1. PICK n \in Nat : V \subseteq 1..n
  BY FiniteBound
<1> DEFINE s == [i \in 1..n |-> i]
           t == ElementsAt(s, V)
<1>2. s \in Seq(Nat) /\ Len(s) = n /\ \A i \in 1..n : s[i] = i
  <2>1. s \in [1..n -> Nat]
    OBVIOUS
  <2> QED BY <2>1
<1> HIDE DEF s, t
<1>3. t \in Seq(Nat) /\ \E h : ListsAt(t, s, n, V, h)
  BY <1>2, ElementsAtLists DEF t
<1>4. PICK h : ListsAt(t, s, n, V, h)
  BY <1>3
<1>5. /\ h \in [1..Len(t) -> 1..n]
      /\ \A p \in 1..Len(t) : h[p] \in V /\ t[p] = s[h[p]]
      /\ \A p, q \in 1..Len(t) : p < q => h[p] < h[q]
  BY <1>4 DEF ListsAt
<1>6. \A p \in 1..Len(t) : t[p] = h[p] /\ t[p] \in V /\ t[p] \in 1..n
  BY <1>2, <1>5
<1>7. \A i, j \in 1..Len(t) : i < j => t[i] < t[j]
  BY <1>5, <1>6
<1>8. Len(t) = Cardinality(V)
  <2>1. {i \in 1..n : i \in V} = V
    BY <1>1
  <2>2. Len(t) = Cardinality({i \in 1..n : i \in V})
    BY <1>3, <1>4, ListsLength
  <2> QED BY <2>1, <2>2
<1>9. t \in [1..Len(t) -> V]
  BY <1>3, <1>6
<1>10. \A i, j \in 1..Len(t) : i # j => t[i] # t[j]
  <2> SUFFICES ASSUME NEW i \in 1..Len(t), NEW j \in 1..Len(t), i # j PROVE t[i] # t[j]
    OBVIOUS
  <2>1. i < j \/ j < i
    BY <1>3
  <2> QED BY <1>6, <1>7, <2>1
<1>11. t \in SetToSeqs(V)
  BY <1>8, <1>9, <1>10, Zenon DEF SetToSeqs
<1> QED BY <1>7, <1>11

(* And only one.                                                            *)
LEMMA EnumerationsSame ==
  ASSUME NEW V \in SUBSET (Nat \ {0}), IsFiniteSet(V),
         NEW t, Enumerates(t, V), NEW u, Enumerates(u, V)
  PROVE  t = u
<1>1. PICK n \in Nat : V \subseteq 1..n
  BY FiniteBound
<1> DEFINE s == [i \in 1..n |-> i]
<1>2. ListsAt(t, s, n, V, t) /\ ListsAt(u, s, n, V, u)
  BY <1>1, EnumerationLists
<1>3. t \in Seq(V) /\ u \in Seq(V)
  BY DEF Enumerates
<1> HIDE DEF s
<1> QED BY <1>2, <1>3, ListsSame

(* s begins with r.                                                        *)
Continues(S, r, s) == \E u \in Seq(S) : s = r \o u

(* The beginning of a list of elements lists those of the beginning.        *)
LEMMA ElementsOfPrefix ==
  ASSUME NEW S, NEW s \in Seq(S), NEW P, NEW c \in 0..Len(s)
  PROVE  Continues(S, ElementsAt(SubSeq(s, 1, c), P), ElementsAt(s, P))
<1> DEFINE r == SubSeq(s, 1, c)
           m == Len(s)
           Q == 1..c
           R == {i \in 1..m : i \notin Q}
           t == ElementsAt(r, P)
           u == ElementsAt(s, P \intersect R)
           v == ElementsAt(s, P)
<1>1. /\ m \in Nat /\ c \in Nat /\ r \in Seq(S) /\ Len(r) = c /\ c <= m
      /\ \A i \in 1..c : r[i] = s[i] /\ i \in 1..m
  BY PrefixIs
<1>2. ListsAt(r, s, m, Q, [i \in 1..c |-> i])
  <2> DEFINE g == [i \in 1..c |-> i]
  <2>1. \A i \in 1..c : g[i] = i
    OBVIOUS
  <2>2. g \in [1..c -> 1..m]
    BY <1>1
  <2> HIDE DEF g, r, m
  <2> QED BY <1>1, <2>1, <2>2 DEF ListsAt
<1> DEFINE g == [i \in 1..c |-> i]
<1>3. \A p \in 1..Len(r) : p \in P <=> g[p] \in P
  BY <1>1
<1>4. ListsAt(r, s, m, Q, g)
  BY <1>2
<1> HIDE DEF r, m, Q, t, u, v, g, R
<1>5. t \in Seq(S) /\ \E h : ListsAt(t, r, Len(r), P, h)
  BY <1>1, ElementsAtLists DEF t
<1>6. PICK f : ListsAt(t, s, m, Q \intersect P, f)
  <2>1. PICK h : ListsAt(t, r, Len(r), P, h)
    BY <1>5
  <2> QED BY <1>1, <1>3, <1>4, <1>5, <2>1, ListsOfList
<1>7. u \in Seq(S) /\ \E h : ListsAt(u, s, m, P \intersect R, h)
  BY ElementsAtLists DEF u, m
<1>8. v \in Seq(S) /\ \E h : ListsAt(v, s, m, P, h)
  BY ElementsAtLists DEF v, m
<1>9. ASSUME NEW i \in 1..m, NEW j \in 1..m, i \in Q \intersect P, j \in P \intersect R PROVE i < j
  BY <1>1, <1>9 DEF Q, R
<1>10. PICK W : W = (Q \intersect P) \union (P \intersect R)
  OBVIOUS
<1>11. PICK h1 : ListsAt(t \o u, s, m, W, h1)
  <2>1. PICK h : ListsAt(u, s, m, P \intersect R, h)
    BY <1>7
  <2>2. \E h1 : ListsAt(t \o u, s, m, (Q \intersect P) \union (P \intersect R), h1)
    BY <1>1, <1>5, <1>6, <1>7, <1>9, <2>1, ListsJoin
  <2> QED BY <1>10, <2>2
<1>12. \A i \in 1..m : i \in W <=> i \in P
  BY <1>1, <1>10 DEF Q, R
<1>13. \A i \in 1..m : i \in P => i \in W
  BY <1>12
<1>14. ListsAt(t \o u, s, m, P, h1)
  <2>1. /\ h1 \in [1..Len(t \o u) -> 1..m]
        /\ \A p \in 1..Len(t \o u) : h1[p] \in W /\ (t \o u)[p] = s[h1[p]]
        /\ \A p, q \in 1..Len(t \o u) : p < q => h1[p] < h1[q]
        /\ \A i \in 1..m : i \in W => \E p \in 1..Len(t \o u) : h1[p] = i
    BY <1>11 DEF ListsAt
  <2>2. \A p \in 1..Len(t \o u) : h1[p] \in P
    BY <1>12, <2>1
  <2>3. \A i \in 1..m : i \in P => \E p \in 1..Len(t \o u) : h1[p] = i
    BY <1>13, <2>1
  <2> QED BY <2>1, <2>2, <2>3, Zenon DEF ListsAt
<1>15. t \o u \in Seq(S)
  BY <1>5, <1>7
<1>16. v = t \o u
  <2>1. PICK h : ListsAt(v, s, m, P, h)
    BY <1>8
  <2> QED BY <1>1, <1>8, <1>14, <1>15, <2>1, ListsSame
<1>17. Continues(S, t, v)
  BY <1>7, <1>16 DEF Continues
<1> QED BY <1>17 DEF v, t, r

----------------------------------------------------------------------------
(* What the elements of a sequence weigh together.                          *)
WeightOf(s, w) == FoldLeft(+, 0, [i \in 1..Len(s) |-> w[s[i]]])

(* A larger function has a larger sum.                                      *)
LEMMA SumMonotone ==
  ASSUME NEW n \in Nat, NEW p, NEW q,
         \A i \in 1..n : p[i] \in Nat /\ q[i] \in Nat /\ p[i] <= q[i]
  PROVE  FoldLeft(+, 0, [i \in 1..n |-> p[i]]) <= FoldLeft(+, 0, [i \in 1..n |-> q[i]])
<1> DEFINE P(m) == FoldLeft(+, 0, [i \in 1..m |-> p[i]])
           Q(m) == FoldLeft(+, 0, [i \in 1..m |-> q[i]])
           T == {m \in Nat : m <= n => P(m) \in Nat /\ Q(m) \in Nat /\ P(m) <= Q(m)}
<1>1. P(0) = 0 /\ Q(0) = 0
  <2>1. [i \in 1..0 |-> p[i]] = <<>> /\ [i \in 1..0 |-> q[i]] = <<>>
    OBVIOUS
  <2> QED BY <2>1, SumEmpty
<1>2. ASSUME NEW m \in Nat, m + 1 <= n
      PROVE  P(m + 1) = P(m) + p[m + 1] /\ Q(m + 1) = Q(m) + q[m + 1]
  <2>1. \A i \in 1..(m + 1) : p[i] \in Nat /\ q[i] \in Nat
    BY <1>2
  <2> QED BY <1>2, <2>1, SumNext
<1> HIDE DEF P, Q
<1>3. 0 \in T
  BY <1>1
<1>4. ASSUME NEW m \in Nat, m \in T PROVE m + 1 \in T
  <2> SUFFICES ASSUME m + 1 <= n
               PROVE  P(m + 1) \in Nat /\ Q(m + 1) \in Nat /\ P(m + 1) <= Q(m + 1)
    OBVIOUS
  <2>1. m <= n /\ m + 1 \in 1..n
    OBVIOUS
  <2>2. P(m) \in Nat /\ Q(m) \in Nat /\ P(m) <= Q(m)
    BY <1>4, <2>1
  <2>3. p[m + 1] \in Nat /\ q[m + 1] \in Nat /\ p[m + 1] <= q[m + 1]
    BY <2>1
  <2> HIDE DEF T
  <2>4. P(m + 1) = P(m) + p[m + 1] /\ Q(m + 1) = Q(m) + q[m + 1]
    BY <1>2
  <2> QED BY <2>2, <2>3, <2>4
<1>5. n \in T
  <2> HIDE DEF T
  <2> QED BY <1>3, <1>4, SetInduction
<1>6. P(n) <= Q(n)
  BY <1>5
<1> QED BY <1>6 DEF P, Q

(* A total is a natural number.                                             *)
LEMMA TotalType ==
  ASSUME NEW S, NEW s \in Seq(S), NEW w \in [S -> Nat]
  PROVE  /\ WeightOf(s, w) \in Nat
         /\ [i \in 1..Len(s) |-> w[s[i]]] \in Seq(Nat)
         /\ Len([i \in 1..Len(s) |-> w[s[i]]]) = Len(s)
<1>1. \A i \in 1..Len(s) : w[s[i]] \in Nat
  OBVIOUS
<1>2. /\ [i \in 1..Len(s) |-> w[s[i]]] \in Seq(Nat)
      /\ Len([i \in 1..Len(s) |-> w[s[i]]]) = Len(s)
  <2>1. Len(s) \in Nat
    OBVIOUS
  <2>2. PICK n \in Nat : n = Len(s)
    BY <2>1
  <2>3. \A i \in 1..n : w[s[i]] \in Nat
    BY <1>1, <2>2
  <2>4. [i \in 1..n |-> w[s[i]]] \in Seq(Nat) /\ Len([i \in 1..n |-> w[s[i]]]) = n
    BY <2>3
  <2> QED BY <2>2, <2>4
<1> QED BY <1>2, SumType DEF WeightOf

(* Two sequences one behind the other.                                      *)
LEMMA ConcatIs ==
  ASSUME NEW S, NEW s \in Seq(S), NEW t \in Seq(S),
         NEW k \in Nat, k = Len(s), NEW l \in Nat, l = Len(t)
  PROVE  /\ s \o t \in Seq(S) /\ Len(s \o t) = k + l
         /\ \A i \in 1..(k + l) : (s \o t)[i] = IF i <= k THEN s[i] ELSE t[i - k]
  OBVIOUS

(* The total of a concatenation is that of its parts.                       *)
LEMMA TotalConcat ==
  ASSUME NEW S, NEW s \in Seq(S), NEW t \in Seq(S), NEW w \in [S -> Nat]
  PROVE  WeightOf(s \o t, w) = WeightOf(s, w) + WeightOf(t, w)
<1> DEFINE a == [i \in 1..Len(s) |-> w[s[i]]]
           b == [i \in 1..Len(t) |-> w[t[i]]]
           u == s \o t
           c == [i \in 1..Len(u) |-> w[u[i]]]
<1>1. PICK k \in Nat : k = Len(s)
  OBVIOUS
<1>2. PICK l \in Nat : l = Len(t)
  OBVIOUS
<1>3. u \in Seq(S) /\ Len(u) = k + l
      /\ \A i \in 1..(k + l) : u[i] = IF i <= k THEN s[i] ELSE t[i - k]
  BY <1>1, <1>2
<1>4. a \in Seq(Nat) /\ Len(a) = k /\ \A i \in 1..k : a[i] = w[s[i]]
  BY <1>1, TotalType
<1>5. b \in Seq(Nat) /\ Len(b) = l /\ \A i \in 1..l : b[i] = w[t[i]]
  BY <1>2, TotalType
<1> HIDE DEF u
<1>6. c \in Seq(Nat) /\ Len(c) = k + l /\ \A i \in 1..(k + l) : c[i] = w[u[i]]
  BY <1>3, TotalType
<1> HIDE DEF a, b, c
<1>7. a \o b \in Seq(Nat) /\ Len(a \o b) = k + l
      /\ \A i \in 1..(k + l) : (a \o b)[i] = IF i <= k THEN a[i] ELSE b[i - k]
  <2>1. a \in Seq(Nat) /\ b \in Seq(Nat) /\ k \in Nat /\ l \in Nat /\ Len(a) = k /\ Len(b) = l
    BY <1>4, <1>5
  <2>2. PICK f \in Seq(Nat) : f = a
    BY <2>1
  <2>3. PICK g \in Seq(Nat) : g = b
    BY <2>1
  <2>4. k = Len(f) /\ l = Len(g)
    BY <2>1, <2>2, <2>3
  <2>5. f \o g \in Seq(Nat) /\ Len(f \o g) = k + l
        /\ \A i \in 1..(k + l) : (f \o g)[i] = IF i <= k THEN f[i] ELSE g[i - k]
    BY <2>4, ConcatIs
  <2> QED BY <2>2, <2>3, <2>5
<1>8. ASSUME NEW i \in 1..(k + l) PROVE c[i] = (a \o b)[i]
  <2>1. CASE i <= k
    <3>1. i \in 1..k
      BY <2>1
    <3>2. c[i] = w[s[i]]
      BY <1>3, <1>6, <2>1
    <3>3. (a \o b)[i] = a[i]
      BY <1>7, <2>1
    <3> QED BY <1>4, <3>1, <3>2, <3>3
  <2>2. CASE ~(i <= k)
    <3>1. i - k \in 1..l
      BY <2>2
    <3>2. c[i] = w[t[i - k]]
      BY <1>3, <1>6, <2>2
    <3>3. (a \o b)[i] = b[i - k]
      BY <1>7, <2>2
    <3> QED BY <1>5, <3>1, <3>2, <3>3
  <2> QED BY <2>1, <2>2
<1>9. c = a \o b
  BY <1>6, <1>7, <1>8, SeqEqual
<1>10. FoldLeft(+, 0, c) = FoldLeft(+, 0, a) + FoldLeft(+, 0, b)
  BY <1>4, <1>5, <1>9, SumConcat
<1> QED BY <1>10 DEF a, b, c, u, WeightOf

(* A part at the front weighs no more than the whole.                       *)
LEMMA TotalOfFront ==
  ASSUME NEW S, NEW s \in Seq(S), NEW t \in Seq(S), NEW w \in [S -> Nat]
  PROVE  WeightOf(s, w) <= WeightOf(s \o t, w)
<1>1. WeightOf(s, w) \in Nat /\ WeightOf(t, w) \in Nat
  BY TotalType
<1>2. WeightOf(s \o t, w) = WeightOf(s, w) + WeightOf(t, w)
  BY TotalConcat
<1> QED BY <1>1, <1>2

(* The total of all sequences one behind the other.                         *)
LEMMA TotalFlatten ==
  ASSUME NEW S, NEW s \in Seq(Seq(S)), NEW w \in [S -> Nat]
  PROVE  WeightOf(FlattenSeq(s), w) = FoldLeft(+, 0, [i \in 1..Len(s) |-> WeightOf(s[i], w)])
<1> DEFINE F(n) == FlattenSeq(SubSeq(s, 1, n))
           p == [i \in 1..Len(s) |-> WeightOf(s[i], w)]
           G(n) == FoldLeft(+, 0, [i \in 1..n |-> p[i]])
           T == {n \in Nat : n <= Len(s) => F(n) \in Seq(S) /\ WeightOf(F(n), w) = G(n)}
<1>1. Len(s) \in Nat /\ \A i \in 1..Len(s) : s[i] \in Seq(S) /\ p[i] = WeightOf(s[i], w)
  OBVIOUS
<1>2. \A i \in 1..Len(s) : p[i] \in Nat
  BY <1>1, TotalType
<1>3. F(0) = <<>> /\ WeightOf(<<>>, w) = 0 /\ G(0) = 0
  <2>1. SubSeq(s, 1, 0) = <<>>
    BY SubSeqEmpty
  <2>2. [i \in 1..Len(<<>>) |-> w[<<>>[i]]] = <<>> /\ [i \in 1..0 |-> p[i]] = <<>>
    OBVIOUS
  <2> QED BY <2>1, <2>2, SumEmpty DEF FlattenSeq, WeightOf
<1>4. ASSUME NEW n \in 0..(Len(s) - 1) PROVE F(n + 1) = F(n) \o s[n + 1]
  BY FlattenPrefix
<1>5. F(Len(s)) = FlattenSeq(s)
  BY SubSeqFull
<1>6. ASSUME NEW n \in Nat, n + 1 <= Len(s) PROVE G(n + 1) = G(n) + p[n + 1]
  <2> HIDE DEF p
  <2>1. \A i \in 1..(n + 1) : p[i] \in Nat
    BY <1>1, <1>2, <1>6
  <2> QED BY <2>1, SumNext
<1>7. G(Len(s)) = FoldLeft(+, 0, p)
  <2>1. [i \in 1..Len(s) |-> p[i]] = p
    OBVIOUS
  <2> QED BY <2>1
<1> HIDE DEF F, G, p
<1>8. 0 \in T
  <2>1. F(0) \in Seq(S) /\ WeightOf(F(0), w) = G(0)
    <3>1. <<>> \in Seq(S)
      OBVIOUS
    <3> QED BY <1>3, <3>1, Zenon
  <2> QED BY <2>1
<1>9. ASSUME NEW n \in Nat, n \in T PROVE n + 1 \in T
  <2> SUFFICES ASSUME n + 1 <= Len(s)
               PROVE  F(n + 1) \in Seq(S) /\ WeightOf(F(n + 1), w) = G(n + 1)
    OBVIOUS
  <2>1. n \in 0..(Len(s) - 1) /\ n + 1 \in 1..Len(s) /\ n <= Len(s)
    BY <1>1
  <2>2. F(n) \in Seq(S) /\ WeightOf(F(n), w) = G(n)
    BY <1>9, <2>1
  <2> HIDE DEF T
  <2>3. s[n + 1] \in Seq(S) /\ p[n + 1] = WeightOf(s[n + 1], w)
    BY <1>1, <2>1
  <2>4. F(n + 1) = F(n) \o s[n + 1]
    BY <1>4, <2>1
  <2>5. WeightOf(F(n + 1), w) = WeightOf(F(n), w) + WeightOf(s[n + 1], w)
    <3> DEFINE x == F(n)
               y == s[n + 1]
    <3>1. x \in Seq(S) /\ y \in Seq(S)
      BY <2>2, <2>3
    <3> HIDE DEF x, y
    <3>2. WeightOf(x \o y, w) = WeightOf(x, w) + WeightOf(y, w)
      BY <3>1, TotalConcat
    <3> QED BY <2>4, <3>2, Zenon DEF x, y
  <2>6. F(n + 1) \in Seq(S)
    <3> DEFINE x == F(n)
               y == s[n + 1]
    <3>1. x \in Seq(S) /\ y \in Seq(S)
      BY <2>2, <2>3
    <3> HIDE DEF x, y
    <3>2. x \o y \in Seq(S)
      BY <3>1
    <3> QED BY <2>4, <3>2, Zenon DEF x, y
  <2> QED BY <1>6, <2>2, <2>3, <2>5, <2>6
<1>10. Len(s) \in T
  <2> HIDE DEF T
  <2> QED BY <1>1, <1>8, <1>9, SetInduction
<1>11. WeightOf(FlattenSeq(s), w) = FoldLeft(+, 0, p)
  <2>1. WeightOf(F(Len(s)), w) = G(Len(s))
    BY <1>1, <1>10
  <2> QED BY <1>5, <1>7, <2>1, Zenon
<1> QED BY <1>11 DEF p

(* Counting is weighing with ones.                                          *)
Ones(S, Q) == [x \in S |-> IF x \in Q THEN 1 ELSE 0]

(* The elements of a sequence that are in Q are as many as they weigh.      *)
LEMMA CountIsTotal ==
  ASSUME NEW S, NEW s \in Seq(S), NEW Q
  PROVE  /\ Ones(S, Q) \in [S -> Nat]
         /\ Cardinality({i \in 1..Len(s) : s[i] \in Q}) = WeightOf(s, Ones(S, Q))
<1> DEFINE R == {i \in 1..Len(s) : s[i] \in Q}
           w == Ones(S, Q)
<1>1. w \in [S -> Nat]
  BY DEF Ones
<1>2. [i \in 1..Len(s) |-> w[s[i]]] = [i \in 1..Len(s) |-> IF i \in R THEN 1 ELSE 0]
  <2>1. ASSUME NEW i \in 1..Len(s) PROVE w[s[i]] = IF i \in R THEN 1 ELSE 0
    BY DEF Ones
  <2> QED BY <2>1
<1>3. {i \in 1..Len(s) : i \in R} = R
  OBVIOUS
<1>4. Len(s) \in Nat
  OBVIOUS
<1> HIDE DEF R, w
<1>5. FoldLeft(+, 0, [i \in 1..Len(s) |-> IF i \in R THEN 1 ELSE 0])
        = Cardinality({i \in 1..Len(s) : i \in R})
  BY <1>4, SumOfOnes
<1>6. WeightOf(s, w) = Cardinality(R)
  BY <1>2, <1>3, <1>5 DEF WeightOf
<1> QED BY <1>1, <1>6 DEF R, w

(* Where one sequence alone is not empty, nothing is added to it.           *)
LEMMA FlattenOne ==
  ASSUME NEW S, NEW s \in Seq(Seq(S)), NEW j \in 1..Len(s),
         \A i \in 1..Len(s) : i # j => s[i] = <<>>
  PROVE  FlattenSeq(s) = s[j]
<1> DEFINE F(n) == FlattenSeq(SubSeq(s, 1, n))
           T == {n \in Nat : n <= Len(s) => F(n) = IF n < j THEN <<>> ELSE s[j]}
<1>1. Len(s) \in Nat /\ j \in Nat /\ s[j] \in Seq(S) /\ j >= 1 /\ j <= Len(s)
  OBVIOUS
<1>2. F(0) = <<>>
  <2>1. SubSeq(s, 1, 0) = <<>>
    BY SubSeqEmpty
  <2> QED BY <2>1 DEF FlattenSeq
<1>3. ASSUME NEW n \in 0..(Len(s) - 1) PROVE F(n + 1) = F(n) \o s[n + 1]
  BY FlattenPrefix
<1>4. F(Len(s)) = FlattenSeq(s)
  BY SubSeqFull
<1> HIDE DEF F
<1>5. 0 \in T
  BY <1>1, <1>2
<1>6. ASSUME NEW n \in Nat, n \in T PROVE n + 1 \in T
  <2> SUFFICES ASSUME n + 1 <= Len(s)
               PROVE  F(n + 1) = IF n + 1 < j THEN <<>> ELSE s[j]
    OBVIOUS
  <2>1. n \in 0..(Len(s) - 1) /\ n + 1 \in 1..Len(s) /\ n <= Len(s)
    BY <1>1
  <2>2. F(n) = IF n < j THEN <<>> ELSE s[j]
    BY <1>6, <2>1
  <2> HIDE DEF T
  <2>3. F(n + 1) = F(n) \o s[n + 1]
    BY <1>3, <2>1
  <2>4. <<>> \o s[j] = s[j] /\ s[j] \o <<>> = s[j] /\ <<>> \o <<>> = <<>>
    BY <1>1
  <2>5. CASE n + 1 < j
    <3>1. n < j /\ n + 1 # j
      BY <2>5, <1>1
    <3>2. F(n) = <<>> /\ s[n + 1] = <<>>
      BY <2>1, <2>2, <3>1
    <3> QED BY <2>3, <2>4, <2>5, <3>2
  <2>6. CASE n + 1 = j
    <3>1. n < j /\ ~(n + 1 < j)
      BY <2>6
    <3>2. F(n) = <<>> /\ s[n + 1] = s[j]
      BY <2>2, <2>6, <3>1
    <3> QED BY <2>3, <2>4, <3>1, <3>2
  <2>7. CASE n + 1 > j
    <3>1. ~(n < j) /\ ~(n + 1 < j) /\ n + 1 # j
      BY <2>7, <1>1
    <3>2. F(n) = s[j] /\ s[n + 1] = <<>>
      BY <2>1, <2>2, <3>1
    <3> QED BY <2>3, <2>4, <3>1, <3>2
  <2> QED BY <1>1, <2>5, <2>6, <2>7
<1>7. Len(s) \in T
  <2> HIDE DEF T
  <2> QED BY <1>1, <1>5, <1>6, SetInduction
<1> QED BY <1>1, <1>4, <1>7

(* What the places with a label weigh together.                             *)
ByLabel(n, D, label, w) ==
  [x \in D |-> FoldLeft(+, 0, [i \in 1..n |-> IF label[i] = x THEN w[i] ELSE 0])]


(* And what all of them weigh.                                              *)
WeightOfAll(n, w) == FoldLeft(+, 0, [i \in 1..n |-> w[i]])

(* What each label weighs sums to what is labelled.                         *)
LEMMA WeightsByLabel ==
  ASSUME NEW n \in Nat, NEW D, IsFiniteSet(D), NEW label, NEW w,
         \A i \in 1..n : w[i] \in Nat /\ (w[i] = 0 \/ label[i] \in D)
  PROVE  SumFunctionOnSet(ByLabel(n, D, label, w), D) = WeightOfAll(n, w)
<1> DEFINE p(x) == [i \in 1..n |-> IF label[i] = x THEN w[i] ELSE 0]
           L(x, m) == FoldLeft(+, 0, [i \in 1..m |-> p(x)[i]])
           a(m) == [x \in D |-> L(x, m)]
           W(m) == FoldLeft(+, 0, [i \in 1..m |-> w[i]])
           T == {m \in Nat : m <= n =>
                   /\ \A x \in D : L(x, m) \in Nat
                   /\ SumFunctionOnSet(a(m), D) = W(m)}
<1>1. \A x : \A i \in 1..n : p(x)[i] = (IF label[i] = x THEN w[i] ELSE 0) /\ p(x)[i] \in Nat
  OBVIOUS
<1>2. \A x : L(x, 0) = 0
  <2>1. SUFFICES ASSUME NEW x PROVE L(x, 0) = 0
    OBVIOUS
  <2>2. [i \in 1..0 |-> p(x)[i]] = <<>>
    OBVIOUS
  <2> QED BY <2>2, SumEmpty
<1>3. W(0) = 0
  <2>1. [i \in 1..0 |-> w[i]] = <<>>
    OBVIOUS
  <2> QED BY <2>1, SumEmpty
<1>4. ASSUME NEW m \in Nat, m + 1 <= n, NEW x PROVE L(x, m + 1) = L(x, m) + p(x)[m + 1]
  <2>1. \A i \in 1..(m + 1) : p(x)[i] \in Nat
    BY <1>1, <1>4
  <2> HIDE DEF p
  <2> QED BY <2>1, SumNext
<1>5. ASSUME NEW m \in Nat, m + 1 <= n PROVE W(m + 1) = W(m) + w[m + 1]
  <2>1. \A i \in 1..(m + 1) : w[i] \in Nat
    BY <1>5
  <2> QED BY <2>1, SumNext
<1>6. \A x : [i \in 1..n |-> p(x)[i]] = p(x)
  OBVIOUS
<1> HIDE DEF p, L, W
<1>7. 0 \in T
  <2>1. \A x \in D : a(0)[x] = 0 /\ a(0)[x] \in Nat
    BY <1>2
  <2>2. SumFunctionOnSet(a(0), D) = 0
    <3> DEFINE b == [i \in {} |-> 0]
               U == {m \in Nat : \A R \in SUBSET D : Cardinality(R) <= m => SumFunctionOnSet(a(0), R) = 0}
    <3>1. ASSUME NEW R \in SUBSET D
          PROVE  IsFiniteSet(R) /\ Cardinality(R) \in Nat /\ (Cardinality(R) = 0 => R = {})
                 /\ \A x \in R : Cardinality(R \ {x}) = Cardinality(R) - 1
      <4>1. IsFiniteSet(R)
        BY FS_Subset
      <4> QED BY <4>1, FS_CardinalityType, FS_EmptySet, FS_RemoveElement
    <3> HIDE DEF a
    <3>2. 0 \in U
      BY <3>1, SetSumEmpty
    <3>3. ASSUME NEW m \in Nat, m \in U PROVE m + 1 \in U
      <4>1. SUFFICES ASSUME NEW R \in SUBSET D, Cardinality(R) <= m + 1
                     PROVE  SumFunctionOnSet(a(0), R) = 0
        OBVIOUS
      <4>2. CASE R = {}
        BY <4>2, SetSumEmpty
      <4>3. CASE R # {}
        <5>1. PICK x \in R : TRUE
          BY <4>3
        <5>2. Cardinality(R \ {x}) <= m /\ R \ {x} \in SUBSET D
          BY <3>1, <4>1, <5>1
        <5>3. SumFunctionOnSet(a(0), R \ {x}) = 0
          BY <3>3, <5>2
        <5>4. IsFiniteSet(R) /\ \A y \in R : a(0)[y] \in Nat
          BY <2>1, <3>1
        <5>5. SumFunctionOnSet(a(0), R) = a(0)[x] + SumFunctionOnSet(a(0), R \ {x})
          BY <5>1, <5>4, SetSumRemove
        <5> QED BY <2>1, <5>1, <5>3, <5>5
      <4> QED BY <4>2, <4>3
    <3>4. Cardinality(D) \in Nat /\ Cardinality(D) \in U
      <4>1. Cardinality(D) \in Nat
        BY <3>1
      <4> HIDE DEF U
      <4> QED BY <3>2, <3>3, <4>1, SetInduction
    <3> QED BY <3>4
  <2> QED BY <1>2, <1>3, <2>2
<1>8. ASSUME NEW m \in Nat, m \in T PROVE m + 1 \in T
  <2> SUFFICES ASSUME m + 1 <= n
               PROVE  /\ \A x \in D : L(x, m + 1) \in Nat
                      /\ SumFunctionOnSet(a(m + 1), D) = W(m + 1)
    OBVIOUS
  <2>1. m <= n /\ m + 1 \in 1..n
    OBVIOUS
  <2>2. (\A x \in D : L(x, m) \in Nat) /\ SumFunctionOnSet(a(m), D) = W(m)
    BY <1>8, <2>1
  <2> HIDE DEF T
  <2>3. \A x \in D : L(x, m + 1) = L(x, m) + p(x)[m + 1] /\ p(x)[m + 1] \in Nat
    BY <1>1, <1>4, <2>1
  <2>4. \A x \in D : p(x)[m + 1] = IF label[m + 1] = x THEN w[m + 1] ELSE 0
    BY <1>1, <2>1
  <2>5. w[m + 1] \in Nat /\ (w[m + 1] = 0 \/ label[m + 1] \in D)
    BY <2>1
  <2>6. \A x \in D : L(x, m + 1) \in Nat
    BY <2>2, <2>3
  <2>7. SumFunctionOnSet(a(m + 1), D) = SumFunctionOnSet(a(m), D) + w[m + 1]
    <3>1. \A x \in D : a(m)[x] = L(x, m) /\ a(m + 1)[x] = L(x, m + 1) /\ a(m)[x] \in Nat
      BY <2>2
    <3> HIDE DEF a
    <3>2. CASE label[m + 1] \in D
      <4> DEFINE x == label[m + 1]
      <4>1. a(m + 1)[x] = a(m)[x] + w[m + 1]
        BY <2>3, <2>4, <3>1, <3>2
      <4>2. \A y \in D : y # x => a(m + 1)[y] = a(m)[y]
        BY <2>2, <2>3, <2>4, <3>1
      <4>3. D \union {x} = D
        BY <3>2
      <4>4. x \in D
        BY <3>2
      <4> HIDE DEF x
      <4>5. PICK u : u = a(m)
        OBVIOUS
      <4>6. PICK v : v = a(m + 1)
        OBVIOUS
      <4>7. PICK b \in Nat : b = u[x]
        BY <3>1, <4>4, <4>5
      <4>8. v[x] = b + w[m + 1] /\ (\A y \in D : y # x => v[y] = u[y])
            /\ (\A y \in D : u[y] \in Nat) /\ w[m + 1] \in Nat
        BY <2>5, <3>1, <4>1, <4>2, <4>5, <4>6, <4>7
      <4>9. SumFunctionOnSet(v, D \union {x}) = SumFunctionOnSet(u, D) + w[m + 1]
        BY <4>4, <4>7, <4>8, SumGrows
      <4> QED BY <4>3, <4>5, <4>6, <4>9
    <3>3. CASE label[m + 1] \notin D
      <4>1. w[m + 1] = 0
        BY <2>5, <3>3
      <4>2. \A y \in D : a(m)[y] \in Nat /\ a(m)[y] = a(m + 1)[y]
        BY <2>2, <2>3, <2>4, <3>1, <3>3
      <4>3. SumFunctionOnSet(a(m), D) = SumFunctionOnSet(a(m + 1), D)
        BY <4>2, SetSumSame
      <4>4. SumFunctionOnSet(a(m), D) \in Nat
        BY <4>2, SetSumType
      <4> QED BY <4>1, <4>3, <4>4
    <3> QED BY <3>2, <3>3
  <2> QED BY <1>5, <2>2, <2>6, <2>7
<1>9. n \in T
  <2> HIDE DEF T
  <2> QED BY <1>7, <1>8, SetInduction
<1>10. SumFunctionOnSet(a(n), D) = W(n)
  BY <1>9
<1>11. a(n) = [x \in D |-> FoldLeft(+, 0, p(x))]
  <2>1. \A x \in D : L(x, n) = FoldLeft(+, 0, p(x))
    BY <1>6 DEF L
  <2> QED BY <2>1
<1> QED BY <1>10, <1>11, Zenon DEF p, W, a, ByLabel, WeightOfAll

(* Two concatenations one behind the other, in either order of brackets.    *)
EitherWay(s, t, u) == (s \o t) \o u = s \o (t \o u)

(* It makes no difference.                                                  *)
LEMMA ConcatAssociates ==
  ASSUME NEW S, NEW s \in Seq(S), NEW t \in Seq(S), NEW u \in Seq(S)
  PROVE  EitherWay(s, t, u)
<1> DEFINE v == (s \o t) \o u
           w == s \o (t \o u)
<1>1. PICK a \in Nat : a = Len(s)
  OBVIOUS
<1>2. PICK b \in Nat : b = Len(t)
  OBVIOUS
<1>3. PICK d \in Nat : d = Len(u)
  OBVIOUS
<1>4. /\ s \o t \in Seq(S) /\ Len(s \o t) = a + b
      /\ \A i \in 1..(a + b) : (s \o t)[i] = IF i <= a THEN s[i] ELSE t[i - a]
  BY <1>1, <1>2, ConcatIs
<1>5. /\ t \o u \in Seq(S) /\ Len(t \o u) = b + d
      /\ \A i \in 1..(b + d) : (t \o u)[i] = IF i <= b THEN t[i] ELSE u[i - b]
  BY <1>2, <1>3, ConcatIs
<1>6. /\ v \in Seq(S) /\ Len(v) = (a + b) + d
      /\ \A i \in 1..((a + b) + d) : v[i] = IF i <= a + b THEN (s \o t)[i] ELSE u[i - (a + b)]
  <2>1. PICK m \in Nat : m = a + b
    OBVIOUS
  <2>2. PICK x \in Seq(S) : x = s \o t
    BY <1>4
  <2>3. m = Len(x)
    BY <1>4, <2>1, <2>2
  <2>4. /\ x \o u \in Seq(S) /\ Len(x \o u) = m + d
        /\ \A i \in 1..(m + d) : (x \o u)[i] = IF i <= m THEN x[i] ELSE u[i - m]
    BY <1>3, <2>3, ConcatIs
  <2> QED BY <2>1, <2>2, <2>4
<1>7. /\ w \in Seq(S) /\ Len(w) = a + (b + d)
      /\ \A i \in 1..(a + (b + d)) : w[i] = IF i <= a THEN s[i] ELSE (t \o u)[i - a]
  <2>1. PICK m \in Nat : m = b + d
    OBVIOUS
  <2>2. PICK x \in Seq(S) : x = t \o u
    BY <1>5
  <2>3. m = Len(x)
    BY <1>5, <2>1, <2>2
  <2>4. /\ s \o x \in Seq(S) /\ Len(s \o x) = a + m
        /\ \A i \in 1..(a + m) : (s \o x)[i] = IF i <= a THEN s[i] ELSE x[i - a]
    BY <1>1, <2>3, ConcatIs
  <2> QED BY <2>1, <2>2, <2>4
<1> HIDE DEF v, w
<1>8. ASSUME NEW i \in 1..Len(v) PROVE v[i] = w[i]
  <2>1. i \in Nat /\ i >= 1 /\ i <= a + b + d /\ i \in 1..(a + (b + d))
    BY <1>6
  <2> DEFINE x == t \o u
  <2>9. w[i] = IF i <= a THEN s[i] ELSE x[i - a]
    BY <1>7, <2>1
  <2> HIDE DEF x
  <2>2. CASE i <= a
    <3>1. v[i] = (s \o t)[i] /\ (s \o t)[i] = s[i]
      BY <1>4, <1>6, <2>1, <2>2
    <3> QED BY <1>7, <2>1, <2>2, <3>1
  <2>3. CASE i > a /\ i <= a + b
    <3>1. v[i] = (s \o t)[i] /\ (s \o t)[i] = t[i - a]
      BY <1>4, <1>6, <2>1, <2>3
    <3>2. w[i] = x[i - a]
      BY <2>1, <2>3, <2>9
    <3>3. PICK j \in 1..b : j = i - a
      BY <2>1, <2>3
    <3>4. j \in 1..(b + d) /\ j <= b
      BY <3>3
    <3>5. x[j] = t[j]
      BY <1>5, <3>4 DEF x
    <3> QED BY <3>1, <3>2, <3>3, <3>5
  <2>4. CASE i > a + b
    <3>1. v[i] = u[i - (a + b)]
      BY <1>6, <2>1, <2>4
    <3>2. w[i] = x[i - a]
      BY <2>1, <2>4, <2>9
    <3>3. PICK j \in Nat : j = i - a
      BY <2>1, <2>4
    <3>4. j \in 1..(b + d) /\ ~(j <= b) /\ j - b = i - (a + b)
      BY <2>1, <2>4, <3>3
    <3>5. x[j] = u[j - b]
      BY <1>5, <3>4 DEF x
    <3> QED BY <3>1, <3>2, <3>3, <3>4, <3>5
  <2> QED BY <2>1, <2>2, <2>3, <2>4
<1>9. Len(v) = Len(w)
  BY <1>6, <1>7
<1>10. v = w
  BY <1>6, <1>7, <1>8, <1>9, SeqEqual
<1> QED BY <1>10 DEF EitherWay, v, w

(* What two loops collect is what one loop over both collects.              *)
LEMMA FlattenConcat ==
  ASSUME NEW S, NEW s \in Seq(Seq(S)), NEW t \in Seq(Seq(S))
  PROVE  FlattenSeq(s \o t) = FlattenSeq(s) \o FlattenSeq(t)
<1> DEFINE G(n) == FlattenSeq(s \o SubSeq(t, 1, n))
           F(n) == FlattenSeq(SubSeq(t, 1, n))
           T == {n \in Nat : n <= Len(t) => G(n) = FlattenSeq(s) \o F(n)}
<1>1. Len(t) \in Nat /\ FlattenSeq(s) \in Seq(S)
  BY FlattenType
<1>2. F(0) = <<>> /\ G(0) = FlattenSeq(s)
  <2>1. SubSeq(t, 1, 0) = <<>>
    BY SubSeqEmpty
  <2>2. s \o <<>> = s
    OBVIOUS
  <2>3. F(0) = <<>>
    BY <2>1 DEF FlattenSeq
  <2> QED BY <2>1, <2>2, <2>3
<1>3. ASSUME NEW n \in Nat, n + 1 <= Len(t)
      PROVE  /\ G(n + 1) = G(n) \o t[n + 1] /\ F(n + 1) = F(n) \o t[n + 1]
             /\ t[n + 1] \in Seq(S) /\ F(n) \in Seq(S)
  <2> DEFINE r == SubSeq(t, 1, n)
             q == SubSeq(t, 1, n + 1)
  <2>1. n \in 0..(Len(t) - 1) /\ n \in 0..Len(t) /\ n + 1 \in 0..Len(t) /\ n + 1 \in 1..Len(t)
    BY <1>1, <1>3
  <2>2. F(n + 1) = F(n) \o t[n + 1]
    BY <2>1, FlattenPrefix
  <2>3. t[n + 1] \in Seq(S)
    BY <2>1
  <2>4. r \in Seq(Seq(S)) /\ Len(r) = n /\ r = [i \in 1..n |-> t[i]]
    BY <2>1, PrefixIs
  <2>5. q \in Seq(Seq(S)) /\ Len(q) = n + 1 /\ q = [i \in 1..(n + 1) |-> t[i]]
    BY <2>1, PrefixIs
  <2> HIDE DEF r, q
  <2>6. q = Append(r, t[n + 1])
    <3>1. Append(r, t[n + 1]) \in Seq(Seq(S)) /\ Len(Append(r, t[n + 1])) = n + 1
          /\ \A i \in 1..(n + 1) : Append(r, t[n + 1])[i] = t[i]
      BY <2>3, <2>4
    <3> QED BY <2>5, <3>1, SeqEqual
  <2>7. s \o r \in Seq(Seq(S)) /\ s \o q = Append(s \o r, t[n + 1])
    BY <2>3, <2>4, <2>6, ConcatAppend
  <2>8. FlattenSeq(s \o q) = FlattenSeq(s \o r) \o t[n + 1]
    BY <2>3, <2>7, FlattenAppend
  <2>9. F(n) \in Seq(S)
    BY <2>4, FlattenType DEF r
  <2> QED BY <2>2, <2>3, <2>8, <2>9 DEF r, q
<1>4. G(Len(t)) = FlattenSeq(s \o t) /\ F(Len(t)) = FlattenSeq(t)
  <2>1. SubSeq(t, 1, Len(t)) = t
    BY SubSeqFull
  <2> QED BY <2>1
<1> HIDE DEF F, G
<1>5. 0 \in T
  BY <1>1, <1>2
<1>6. ASSUME NEW n \in Nat, n \in T PROVE n + 1 \in T
  <2>1. SUFFICES ASSUME n + 1 <= Len(t) PROVE G(n + 1) = FlattenSeq(s) \o F(n + 1)
    OBVIOUS
  <2>2. n <= Len(t)
    BY <1>1, <2>1
  <2>3. G(n) = FlattenSeq(s) \o F(n)
    BY <1>6, <2>2
  <2>4. /\ G(n + 1) = G(n) \o t[n + 1] /\ F(n + 1) = F(n) \o t[n + 1]
        /\ t[n + 1] \in Seq(S) /\ F(n) \in Seq(S)
    BY <1>3, <2>1
  <2>5. (FlattenSeq(s) \o F(n)) \o t[n + 1] = FlattenSeq(s) \o (F(n) \o t[n + 1])
    <3>1. PICK x \in Seq(S) : x = t[n + 1]
      BY <2>4
    <3>2. PICK y \in Seq(S) : y = F(n)
      BY <2>4
    <3>3. PICK z \in Seq(S) : z = FlattenSeq(s)
      BY <1>1
    <3>4. EitherWay(z, y, x)
      BY ConcatAssociates
    <3> QED BY <3>1, <3>2, <3>3, <3>4 DEF EitherWay
  <2> QED BY <2>3, <2>4, <2>5
<1>7. Len(t) \in T
  <2> HIDE DEF T
  <2> QED BY <1>1, <1>5, <1>6, SetInduction
<1>8. G(Len(t)) = FlattenSeq(s) \o F(Len(t))
  BY <1>1, <1>7
<1> QED BY <1>4, <1>8
=============================================================================
