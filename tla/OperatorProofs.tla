---------------------------- MODULE OperatorProofs ---------------------------
(***************************************************************************)
(* What several modules' operators compute, for lists and sets of any      *)
(* size: the loops of Outcome find the most severe class among those they  *)
(* are given, and Arranged puts each element of a finite set in its one    *)
(* place.  A loop is a function over the number of elements it has seen;   *)
(* Loop shows that there is one, CountingUp that what each round keeps     *)
(* holds at its end.                                                       *)
(***************************************************************************)
EXTENDS Outcome, Sorting, SequenceTheorems, FiniteSetTheorems, NaturalsInduction, WellFoundedInduction, TLAPS

\* Every set of numbers has a least one.
LEMMA LeastNumber ==
  ASSUME NEW T, T \subseteq Nat, T # {}
  PROVE  \E x \in T : \A y \in T : x <= y
<1> DEFINE R == OpToRel(<, Nat)
<1>1. PICK x \in T : \A y \in T : ~ (<<y, x>> \in R)
  <2>1. IsWellFoundedOn(R, Nat)  BY NatLessThanWellFounded
  <2> HIDE DEF R
  <2> QED BY <2>1, WFMin
<1>2. \A y \in T : ~ (y < x)
  <2> TAKE y \in T
  <2>1. <<y, x>> \in Nat \X Nat  OBVIOUS
  <2> QED BY <2>1, <1>1 DEF OpToRel
<1>3. \A y \in T : x <= y  BY <1>2
<1> QED BY <1>3

\* The least of two numbers.
LEMMA LeastOfTwo ==
  ASSUME NEW a \in Nat, NEW b \in Nat
  PROVE  Min({a, b}) = IF a <= b THEN a ELSE b
<1>1. \E x \in {a, b} : \A y \in {a, b} : x <= y
  <2>1. CASE a <= b  BY <2>1
  <2>2. CASE b <= a  BY <2>2
  <2> QED BY <2>1, <2>2
<1>2. Min({a, b}) \in {a, b} /\ \A y \in {a, b} : Min({a, b}) <= y  BY <1>1 DEF Min
<1> HIDE DEF Min
<1> QED BY <1>2

\* What holds at zero, and of a successor whenever it holds of a number, holds
\* of all numbers.
LEMMA CountingUp ==
  ASSUME NEW T, T \subseteq Nat, 0 \in T, \A k \in T : k + 1 \in T
  PROVE  T = Nat
<1> SUFFICES ASSUME Nat \ T # {}  PROVE FALSE
  OBVIOUS
<1> DEFINE R == OpToRel(<, Nat)
           U == Nat \ T
<1>1. PICK x \in U : \A y \in U : ~ (<<y, x>> \in R)
  <2>1. IsWellFoundedOn(R, Nat)  BY NatLessThanWellFounded
  <2> HIDE DEF R
  <2>2. U \subseteq Nat /\ U # {}  OBVIOUS
  <2> HIDE DEF U
  <2> QED BY <2>1, <2>2, WFMin
<1>2. \A y \in U : ~ (y < x)
  <2> TAKE y \in U
  <2>1. <<y, x>> \in Nat \X Nat  OBVIOUS
  <2> QED BY <2>1, <1>1 DEF OpToRel
<1>3. x # 0 /\ x \in Nat  OBVIOUS
<1>4. x - 1 \in Nat /\ x - 1 < x /\ (x - 1) + 1 = x  BY <1>3
<1>5. x - 1 \in T  BY <1>2, <1>4
<1>6. x \in T  BY <1>4, <1>5
<1> QED BY <1>6

\* A loop over n elements: from v0, each round makes a value of the last one.
LEMMA Loop ==
  ASSUME NEW V, NEW v0 \in V, NEW n \in Nat, NEW round \in [1 .. n -> [V -> V]]
  PROVE  \E f \in [0 .. n -> V] : f[0] = v0 /\ \A i \in 1 .. n : f[i] = round[i][f[i - 1]]
<1> DEFINE Upto(k, f) == f[0] = v0 /\ \A i \in 1 .. k : f[i] = round[i][f[i - 1]]
           T == {k \in Nat : k <= n => \E f \in [0 .. k -> V] : Upto(k, f)}
<1>1. 0 \in T
  <2> DEFINE f == [i \in 0 .. 0 |-> v0]
  <2>1. f \in [0 .. 0 -> V] /\ Upto(0, f)  OBVIOUS
  <2> QED BY <2>1
<1>2. ASSUME NEW k \in T  PROVE k + 1 \in T
  <2> DEFINE Reached(l) == \E f \in [0 .. l -> V] : Upto(l, f)
  <2> SUFFICES ASSUME k + 1 <= n  PROVE Reached(k + 1)
    <3> HIDE DEF Upto
    <3>1. k + 1 \in Nat /\ \A l \in Nat : (l <= n => Reached(l)) => l \in T  OBVIOUS
    <3> HIDE DEF Reached, T
    <3> QED BY <3>1
  <2>1. k \in Nat /\ k <= n /\ k + 1 \in 1 .. n  OBVIOUS
  <2>2. PICK g \in [0 .. k -> V] : Upto(k, g)  BY <2>1
  <2> DEFINE last == round[k + 1][g[k]]
             f == [i \in 0 .. k + 1 |-> IF i = k + 1 THEN last ELSE g[i]]
  <2>3. last \in V
    <3>1. g[k] \in V /\ round[k + 1] \in [V -> V]  BY <2>1
    <3> QED BY <3>1
  <2>4. f \in [0 .. k + 1 -> V]
    <3> HIDE DEF last
    <3>1. ASSUME NEW i \in 0 .. k + 1  PROVE (IF i = k + 1 THEN last ELSE g[i]) \in V
      <4>1. CASE i = k + 1  BY <2>3, <4>1
      <4>2. CASE i # k + 1
        <5>1. i \in 0 .. k  BY <2>1, <4>2
        <5> QED BY <4>2, <5>1
      <4> QED BY <4>1, <4>2
    <3> QED BY <3>1
  <2>5. \A i \in 0 .. k : f[i] = g[i]  BY <2>1
  <2>6. f[k + 1] = last  BY <2>1
  <2> HIDE DEF f
  <2>7. ASSUME NEW i \in 1 .. k + 1  PROVE f[i] = round[i][f[i - 1]]
    <3>1. i - 1 \in 0 .. k  BY <2>1
    <3>2. f[i - 1] = g[i - 1]  BY <2>5, <3>1
    <3>3. CASE i = k + 1
      <4>1. i - 1 = k  BY <2>1, <3>3
      <4> QED BY <2>6, <3>2, <3>3, <4>1
    <3>4. CASE i # k + 1
      <4>1. i \in 1 .. k /\ i \in 0 .. k  BY <2>1, <3>4
      <4>2. f[i] = g[i] /\ g[i] = round[i][g[i - 1]]  BY <2>2, <2>5, <4>1
      <4> QED BY <3>2, <4>2
    <3> QED BY <3>3, <3>4
  <2>8. f[0] = v0  BY <2>1, <2>2, <2>5
  <2> QED BY <2>4, <2>7, <2>8
<1>3. T \subseteq Nat  OBVIOUS
<1> HIDE DEF T
<1>4. T = Nat  BY <1>1, <1>2, <1>3, CountingUp
<1>5. n \in T  BY <1>4
<1> QED BY <1>5 DEF T

\* Every class has a rank, and a class of the table one of its own.
LEMMA Ranks == \A o : Rank(o) \in 0 .. 5
BY DEF Rank

\* Reduce gives one of the two, and none of them is more severe.
LEMMA ReduceChooses ==
  \A a, b : /\ Reduce(a, b) \in {a, b}
            /\ Rank(Reduce(a, b)) <= Rank(a) /\ Rank(Reduce(a, b)) <= Rank(b)
BY Ranks DEF Reduce

\* ReduceAll of no class is clean; of some it is one of them, and none of them
\* is more severe.
LEMMA ReduceAllChooses ==
  ASSUME NEW S, NEW outcomes \in Seq(S)
  PROVE  /\ outcomes = <<>> => ReduceAll(outcomes) = "clean"
         /\ outcomes # <<>> => \E i \in DOMAIN outcomes : ReduceAll(outcomes) = outcomes[i]
         /\ \A i \in DOMAIN outcomes : Rank(ReduceAll(outcomes)) <= Rank(outcomes[i])
<1> DEFINE n == Len(outcomes)
           V == {"clean"} \cup {outcomes[i] : i \in 1 .. n}
           Result(f) == [i \in 0 .. n |-> CASE i = 0 -> "clean"
                                            [] i = 1 -> outcomes[1]
                                            [] OTHER -> Reduce(f[i - 1], outcomes[i])]
           result == CHOOSE f : f = Result(f)
           round == [i \in 1 .. n |-> [v \in V |-> IF i = 1 THEN outcomes[1]
                                                   ELSE Reduce(v, outcomes[i])]]
<1>1. n \in Nat /\ DOMAIN outcomes = 1 .. n  BY LenProperties
<1>2. ReduceAll(outcomes) = result[n]  BY DEF ReduceAll
<1> HIDE DEF n
<1>3. round \in [1 .. n -> [V -> V]]
  <2>1. ASSUME NEW i \in 1 .. n, NEW v \in V
        PROVE  (IF i = 1 THEN outcomes[1] ELSE Reduce(v, outcomes[i])) \in V
    <3>1. Reduce(v, outcomes[i]) \in {v, outcomes[i]}  BY ReduceChooses
    <3>2. outcomes[i] \in V  OBVIOUS
    <3> HIDE DEF V
    <3> QED BY <3>1, <3>2
  <2> HIDE DEF V
  <2> QED BY <2>1
<1>4. PICK f \in [0 .. n -> V] : f[0] = "clean" /\ \A i \in 1 .. n : f[i] = round[i][f[i - 1]]
  <2>1. "clean" \in V  OBVIOUS
  <2> HIDE DEF V, round
  <2> QED BY <1>1, <1>3, <2>1, Loop
<1>5. f = Result(f)
  <2>1. ASSUME NEW i \in 0 .. n  PROVE f[i] = Result(f)[i]
    <3>1. CASE i = 0  BY <1>4, <3>1
    <3>2. CASE i # 0
      <4>1. i \in 1 .. n /\ i - 1 \in 0 .. n  BY <1>1, <3>2
      <4>2. f[i - 1] \in V  BY <4>1
      <4>3. f[i] = IF i = 1 THEN outcomes[1] ELSE Reduce(f[i - 1], outcomes[i])
        <5> HIDE DEF V
        <5> QED BY <1>4, <4>1, <4>2
      <4> QED BY <3>2, <4>3
    <3> QED BY <3>1, <3>2
  <2> HIDE DEF V
  <2> QED BY <2>1
<1>6. result = Result(result)  BY <1>5
<1> HIDE DEF result, V, round
<1>7. /\ result[0] = "clean"
      /\ n >= 1 => result[1] = outcomes[1]
      /\ \A i \in 2 .. n : result[i] = Reduce(result[i - 1], outcomes[i])
  <2>1. \A i \in 0 .. n : result[i] = CASE i = 0 -> "clean" [] i = 1 -> outcomes[1]
                                        [] OTHER -> Reduce(result[i - 1], outcomes[i])
    BY <1>6
  <2> HIDE DEF Result
  <2>2. result[0] = "clean"  BY <1>1, <2>1
  <2>3. n >= 1 => result[1] = outcomes[1]  BY <1>1, <2>1
  <2>4. ASSUME NEW i \in 2 .. n  PROVE result[i] = Reduce(result[i - 1], outcomes[i])
    BY <1>1, <2>1
  <2> QED BY <2>2, <2>3, <2>4
<1> HIDE DEF Result
<1> DEFINE Best(k) == /\ \E i \in 1 .. k : result[k] = outcomes[i]
                      /\ \A i \in 1 .. k : Rank(result[k]) <= Rank(outcomes[i])
           T == {k \in Nat : k + 1 <= n => Best(k + 1)}
<1>8. 0 \in T
  <2>1. 1 <= n => Best(1)  BY <1>7, Ranks
  <2> QED BY <2>1
<1>9. ASSUME NEW k \in T  PROVE k + 1 \in T
  <2> SUFFICES ASSUME (k + 1) + 1 <= n  PROVE Best((k + 1) + 1)
    OBVIOUS
  <2> DEFINE l == k + 1
  <2>1. l \in Nat /\ l >= 1 /\ l + 1 \in 2 .. n  BY <1>1
  <2>2. Best(l)  BY <1>1
  <2> HIDE DEF l
  <2>3. result[l + 1] = Reduce(result[l], outcomes[l + 1])
    <3>1. (l + 1) - 1 = l  BY <2>1
    <3> QED BY <1>7, <2>1, <3>1
  <2>4. /\ result[l + 1] \in {result[l], outcomes[l + 1]}
        /\ Rank(result[l + 1]) <= Rank(result[l]) /\ Rank(result[l + 1]) <= Rank(outcomes[l + 1])
    BY <2>3, ReduceChooses
  <2>5. \E i \in 1 .. l + 1 : result[l + 1] = outcomes[i]
    <3>1. CASE result[l + 1] = outcomes[l + 1]  BY <2>1, <3>1
    <3>2. CASE result[l + 1] = result[l]
      <4>1. PICK i \in 1 .. l : result[l] = outcomes[i]  BY <2>2
      <4>2. i \in 1 .. l + 1  BY <2>1
      <4> QED BY <3>2, <4>1, <4>2
    <3> QED BY <2>4, <3>1, <3>2
  <2>6. ASSUME NEW i \in 1 .. l + 1  PROVE Rank(result[l + 1]) <= Rank(outcomes[i])
    <3>1. CASE i = l + 1  BY <2>4, <3>1
    <3>2. CASE i # l + 1
      <4>1. i \in 1 .. l  BY <2>1, <3>2
      <4>2. Rank(result[l]) <= Rank(outcomes[i])  BY <2>2, <4>1
      <4> QED BY <2>4, <4>2, Ranks
    <3> QED BY <3>1, <3>2
  <2>7. Best(l + 1)  BY <2>5, <2>6
  <2> QED BY <2>7 DEF l
<1>10. T \subseteq Nat  OBVIOUS
<1>11. T = Nat
  <2> HIDE DEF T
  <2> QED BY <1>8, <1>9, <1>10, CountingUp
<1>12. n >= 1 => Best(n)
  <2> SUFFICES ASSUME n >= 1  PROVE Best(n)
    OBVIOUS
  <2>1. n - 1 \in T
    <3>1. n - 1 \in Nat  BY <1>1
    <3> HIDE DEF T
    <3> QED BY <1>11, <3>1
  <2>2. (n - 1) + 1 = n  BY <1>1
  <2> QED BY <1>1, <2>1, <2>2
<1>13. outcomes = <<>> <=> n = 0  BY EmptySeq DEF n
<1> QED BY <1>1, <1>2, <1>7, <1>12, <1>13

Failures == {"compilation_failure", "operational_error"}

\* The first n entries that are to be kept, in a list, one after the other.
AreKept(list, entries, keep, n, m, place) ==
  /\ place \in [1 .. m -> keep \cap (1 .. n)]
  /\ list = [j \in 1 .. m |-> entries[place[j]]]
  /\ \A a, b \in 1 .. m : a < b => place[a] < place[b]
  /\ \A i \in keep \cap (1 .. n) : \E j \in 1 .. m : place[j] = i

\* A loop over a list leaves the entries that are to be kept, in their order.
LEMMA KeptOneByOne ==
  ASSUME NEW S, NEW n \in Nat, NEW entries, Len(entries) = n, NEW keep,
         \A i \in 1 .. n : entries[i] \in S
  PROVE  \E m \in Nat : \E place : AreKept(Kept(entries, keep), entries, keep, n, m, place)
<1> DEFINE V == Seq(S)
           Result(f) == [i \in 0 .. n |->
             CASE i = 0 -> <<>>
               [] i > 0 /\ i \in keep -> Append(f[i - 1], entries[i])
               [] OTHER -> f[i - 1]]
           result == CHOOSE f : f = Result(f)
           Next(i, v) == IF i \in keep THEN Append(v, entries[i]) ELSE v
           round == [i \in 1 .. n |-> [v \in V |-> Next(i, v)]]
<1>0. n \in Nat  OBVIOUS
<1>1. \A i \in 1 .. n : entries[i] \in S  OBVIOUS
<1>2. Kept(entries, keep) = result[n]  BY DEF Kept
<1>4. \A i \in 1 .. n, v \in V : Next(i, v) \in V
  <2> TAKE i \in 1 .. n, v \in V
  <2>1. Append(v, entries[i]) \in V  BY <1>1, AppendProperties
  <2> QED BY <2>1
<1>5. <<>> \in V  BY EmptySeq
<1> HIDE DEF V, Next
<1>6. round \in [1 .. n -> [V -> V]]  BY <1>4
<1>7. PICK f \in [0 .. n -> V] : f[0] = <<>> /\ \A i \in 1 .. n : f[i] = round[i][f[i - 1]]
  <2> DEFINE e == <<>>
  <2>1. e \in V  BY <1>5
  <2> HIDE DEF round, e, Result, result
  <2>2. \E f \in [0 .. n -> V] : f[0] = e /\ \A i \in 1 .. n : f[i] = round[i][f[i - 1]]
    BY <1>0, <1>6, <2>1, Loop
  <2> QED BY <2>2 DEF e
<1>8. f = Result(f)
  <2>1. ASSUME NEW i \in 0 .. n  PROVE f[i] = Result(f)[i]
    <3>1. CASE i = 0  BY <1>7, <3>1
    <3>2. CASE i # 0
      <4>1. i \in 1 .. n /\ i - 1 \in 0 .. n /\ i > 0  BY <3>2
      <4>2. f[i - 1] \in V  BY <4>1
      <4>3. f[i] = Next(i, f[i - 1])  BY <1>7, <4>1, <4>2
      <4> QED BY <3>2, <4>1, <4>3 DEF Next
    <3> QED BY <3>1, <3>2
  <2>2. DOMAIN f = 0 .. n /\ f = [i \in 0 .. n |-> f[i]]  OBVIOUS
  <2>3. Result(f) = [i \in 0 .. n |-> Result(f)[i]]  OBVIOUS
  <2> HIDE DEF Result
  <2> QED BY <2>1, <2>2, <2>3
<1>9. result = Result(result)  BY <1>8
<1> HIDE DEF result, round
<1>10. result[0] = <<>> /\ \A i \in 1 .. n : result[i] = Next(i, result[i - 1])
  <2>1. \A i \in 0 .. n : result[i] =
          CASE i = 0 -> <<>>
            [] i > 0 /\ i \in keep -> Append(result[i - 1], entries[i])
            [] OTHER -> result[i - 1]
    BY <1>9
  <2> HIDE DEF Result
  <2>2. result[0] = <<>>  BY <2>1
  <2>3. ASSUME NEW i \in 1 .. n  PROVE result[i] = Next(i, result[i - 1])
    <3>1. i \in 0 .. n /\ i > 0 /\ i # 0  OBVIOUS
    <3> QED BY <2>1, <3>1 DEF Next
  <2> QED BY <2>2, <2>3
<1> HIDE DEF Result
<1> DEFINE Sound(k) == \E m \in Nat : \E place : AreKept(result[k], entries, keep, k, m, place)
           T == {k \in Nat : k <= n => Sound(k)}
<1>11. 0 \in T
  <2> DEFINE none == [j \in 1 .. 0 |-> 0]
  <2>1. AreKept(result[0], entries, keep, 0, 0, none)
    <3>1. result[0] = [j \in 1 .. 0 |-> entries[none[j]]]  BY <1>10
    <3>2. none \in [1 .. 0 -> keep \cap (1 .. 0)]  OBVIOUS
    <3> HIDE DEF none
    <3> QED BY <3>1, <3>2 DEF AreKept
  <2> HIDE DEF none
  <2> QED BY <2>1
<1>12. ASSUME NEW k \in T  PROVE k + 1 \in T
  <2> SUFFICES ASSUME k + 1 <= n  PROVE Sound(k + 1)
    <3> HIDE DEF Sound
    <3> QED OBVIOUS
  <2>1. k \in Nat /\ k + 1 \in 1 .. n /\ (k + 1) - 1 = k  OBVIOUS
  <2>2. Sound(k)
    <3> HIDE DEF Sound
    <3> QED OBVIOUS
  <2>7. PICK m \in Nat : \E place : AreKept(result[k], entries, keep, k, m, place)  BY <2>2
  <2>3. PICK place : AreKept(result[k], entries, keep, k, m, place)  BY <2>7
  <2> HIDE DEF Sound, T
  <2>4. result[k + 1] = Next(k + 1, result[k])  BY <1>10, <2>1
  <2>5. CASE k + 1 \in keep
    <3> DEFINE x == entries[k + 1]
               r == result[k]
               later == [j \in 1 .. m + 1 |-> IF j <= m THEN place[j] ELSE k + 1]
    <3>1. result[k + 1] = Append(r, x)  BY <2>4, <2>5 DEF Next
    <3>2. r = [j \in 1 .. m |-> entries[place[j]]] /\ place \in [1 .. m -> keep \cap (1 .. k)]
      BY <2>3 DEF AreKept
    <3>3. r \in Seq(S) /\ Len(r) = m
      <4>1. \A j \in 1 .. m : place[j] \in 1 .. n  BY <2>1, <3>2
      <4>2. \A j \in 1 .. m : entries[place[j]] \in S  BY <1>1, <4>1
      <4> QED BY <3>2, <4>2
    <3>4. x \in S  BY <1>1, <2>1
    <3> HIDE DEF r, x
    <3>5. /\ Append(r, x) \in Seq(S) /\ Len(Append(r, x)) = m + 1 /\ Append(r, x)[m + 1] = x
          /\ \A j \in 1 .. m : Append(r, x)[j] = r[j]
      BY <3>3, <3>4, AppendProperties
    <3>6. later \in [1 .. m + 1 -> keep \cap (1 .. k + 1)]
      <4>1. \A j \in 1 .. m : place[j] \in keep \cap (1 .. k + 1)  BY <2>1, <3>2
      <4>2. \A j \in 1 .. m + 1 : j <= m => j \in 1 .. m  OBVIOUS
      <4>3. k + 1 \in keep \cap (1 .. k + 1)  BY <2>1, <2>5
      <4> QED BY <4>1, <4>2, <4>3
    <3>7. \A j \in 1 .. m + 1 : later[j] = IF j <= m THEN place[j] ELSE k + 1  OBVIOUS
    <3> HIDE DEF later
    <3>8. result[k + 1] = [j \in 1 .. m + 1 |-> entries[later[j]]]
      <4>1. ASSUME NEW j \in 1 .. m + 1  PROVE Append(r, x)[j] = entries[later[j]]
        <5>1. CASE j <= m
          <6>1. j \in 1 .. m  BY <5>1
          <6>2. r[j] = entries[place[j]]  BY <3>2, <6>1 DEF r
          <6> QED BY <3>5, <3>7, <5>1, <6>1, <6>2
        <5>2. CASE ~(j <= m)
          <6>1. j = m + 1  BY <5>2
          <6> QED BY <3>5, <3>7, <5>2, <6>1 DEF x
        <5> QED BY <5>1, <5>2
      <4>2. Append(r, x) = [j \in 1 .. m + 1 |-> Append(r, x)[j]]
        <5> DEFINE t == Append(r, x)
        <5>1. t \in Seq(S) /\ Len(t) = m + 1  BY <3>5
        <5> HIDE DEF t
        <5>2. t = [j \in 1 .. m + 1 |-> t[j]]  BY <5>1, LenProperties
        <5> QED BY <5>2 DEF t
      <4> QED BY <3>1, <4>1, <4>2
    <3>9. \A a, b \in 1 .. m + 1 : a < b => later[a] < later[b]
      <4> TAKE a, b \in 1 .. m + 1
      <4> HAVE a < b
      <4>1. a <= m /\ a \in 1 .. m /\ later[a] = place[a]  BY <3>7
      <4>2. place[a] \in 1 .. k  BY <3>2, <4>1
      <4>3. CASE b <= m
        <5>1. b \in 1 .. m /\ later[b] = place[b]  BY <3>7, <4>3
        <5> QED BY <2>3, <4>1, <5>1 DEF AreKept
      <4>4. CASE ~(b <= m)
        <5>1. later[b] = k + 1  BY <3>7, <4>4
        <5> QED BY <2>1, <4>1, <4>2, <5>1
      <4> QED BY <4>3, <4>4
    <3>10. \A i \in keep \cap (1 .. k + 1) : \E j \in 1 .. m + 1 : later[j] = i
      <4> TAKE i \in keep \cap (1 .. k + 1)
      <4>1. CASE i = k + 1
        <5>1. m + 1 \in 1 .. m + 1 /\ ~(m + 1 <= m)  OBVIOUS
        <5> QED BY <3>7, <4>1, <5>1
      <4>2. CASE i # k + 1
        <5>1. i \in keep \cap (1 .. k)  BY <2>1, <4>2
        <5>2. PICK j \in 1 .. m : place[j] = i  BY <2>3, <5>1 DEF AreKept
        <5>3. j \in 1 .. m + 1 /\ j <= m  OBVIOUS
        <5> QED BY <3>7, <5>2, <5>3
      <4> QED BY <4>1, <4>2
    <3>11. AreKept(result[k + 1], entries, keep, k + 1, m + 1, later)
      BY <3>6, <3>8, <3>9, <3>10 DEF AreKept
    <3>12. m + 1 \in Nat  OBVIOUS
    <3> QED BY <3>11, <3>12 DEF Sound
  <2>6. CASE k + 1 \notin keep
    <3>1. result[k + 1] = result[k]  BY <2>4, <2>6 DEF Next
    <3>2. keep \cap (1 .. k + 1) = keep \cap (1 .. k)  BY <2>1, <2>6
    <3>3. AreKept(result[k + 1], entries, keep, k + 1, m, place)
      BY <2>3, <3>1, <3>2 DEF AreKept
    <3> QED BY <3>3 DEF Sound
  <2> QED BY <2>5, <2>6
<1>13. T \subseteq Nat  OBVIOUS
<1>14. T = Nat
  <2> HIDE DEF T
  <2> QED BY <1>11, <1>12, <1>13, CountingUp
<1>15. Sound(n)
  <2>1. n \in T
    <3> HIDE DEF T
    <3> QED BY <1>14
  <2> HIDE DEF Sound
  <2> QED BY <2>1
<1> QED BY <1>2, <1>15

\* As many are kept as there are to keep.
LEMMA KeptInOrder ==
  ASSUME NEW S, NEW n \in Nat, NEW entries, Len(entries) = n, NEW keep,
         \A i \in 1 .. n : entries[i] \in S
  PROVE  /\ IsFiniteSet(keep \cap (1 .. n)) /\ Cardinality(keep \cap (1 .. n)) \in Nat
         /\ \E place : AreKept(Kept(entries, keep), entries, keep, n,
                               Cardinality(keep \cap (1 .. n)), place)
<1> DEFINE K == keep \cap (1 .. n)
<1>0. PICK m \in Nat : \E place : AreKept(Kept(entries, keep), entries, keep, n, m, place)
  BY KeptOneByOne
<1>1. PICK place : AreKept(Kept(entries, keep), entries, keep, n, m, place)  BY <1>0
<1>2. /\ place \in [1 .. m -> K]
      /\ \A a, b \in 1 .. m : a < b => place[a] < place[b]
      /\ \A i \in K : \E j \in 1 .. m : place[j] = i
  BY <1>1 DEF AreKept
<1>3. \A a \in 1 .. m : place[a] \in Nat  BY <1>2
<1> HIDE DEF K
<1>4. ASSUME NEW a \in 1 .. m, NEW b \in 1 .. m, place[a] = place[b]  PROVE a = b
  <2>1. ~(a < b) /\ ~(b < a)  BY <1>2, <1>3, <1>4
  <2> QED BY <2>1
<1>5. place \in Bijection(1 .. m, K)
  BY <1>2, <1>4 DEF Bijection, Injection, IsInjective, Surjection
<1>6. ExistsBijection(1 .. m, K)  BY <1>5 DEF ExistsBijection
<1>7. Cardinality(K) = m  BY <1>6, FS_CountingElements
<1>8. IsFiniteSet(K)  BY <1>6, FS_NatBijection
<1> QED BY <1>1, <1>7, <1>8 DEF K

\* What a loop that keeps some of its entries ends with: those, and no other.
LEMMA KeptAreThose ==
  ASSUME NEW S, NEW n \in Nat, NEW entries, Len(entries) = n, NEW keep,
         \A i \in 1 .. n : entries[i] \in S
  PROVE  /\ Kept(entries, keep) \in Seq(S)
         /\ Range(Kept(entries, keep)) = {entries[i] : i \in keep \cap (1 .. n)}
<1> DEFINE K == keep \cap (1 .. n)
           r == Kept(entries, keep)
<1>0. PICK m \in Nat : \E place : AreKept(r, entries, keep, n, m, place)
  BY KeptOneByOne
<1>1. PICK place : AreKept(r, entries, keep, n, m, place)  BY <1>0
<1> HIDE DEF r
<1>2. /\ place \in [1 .. m -> K] /\ r = [j \in 1 .. m |-> entries[place[j]]]
      /\ \A i \in K : \E j \in 1 .. m : place[j] = i
  BY <1>1 DEF AreKept
<1>3. \A j \in 1 .. m : place[j] \in 1 .. n  BY <1>2
<1>4. \A j \in 1 .. m : entries[place[j]] \in S  BY <1>3
<1> HIDE DEF K
<1>5. r \in Seq(S)  BY <1>2, <1>4
<1>6. DOMAIN r = 1 .. m /\ \A j \in 1 .. m : r[j] = entries[place[j]]  BY <1>2
<1>7. Range(r) = {entries[i] : i \in K}
  <2>1. \A o : o \in Range(r) <=> \E j \in 1 .. m : entries[place[j]] = o  BY <1>6 DEF Range
  <2>2. \A j \in 1 .. m : place[j] \in K  BY <1>2
  <2>3. \A o : (\E j \in 1 .. m : entries[place[j]] = o) <=> \E i \in K : entries[i] = o
    BY <1>2, <2>2
  <2> QED BY <2>1, <2>3
<1> QED BY <1>5, <1>7 DEF K, r

\* What is contributed is what the errors come to, and nothing of a warning.
LEMMA ContributedAreErrors ==
  ASSUME NEW diagnostics, Len(diagnostics) \in Nat
  PROVE  /\ Contributed(diagnostics) \in Seq(Failures)
         /\ \A o : (\E i \in DOMAIN Contributed(diagnostics) : Contributed(diagnostics)[i] = o)
                     <=> \E i \in 1 .. Len(diagnostics) :
                           Contributes(diagnostics[i]) /\ OutcomeForDiagnostic(diagnostics[i]) = o
<1> DEFINE n == Len(diagnostics)
           entries == [i \in 1 .. n |-> OutcomeForDiagnostic(diagnostics[i])]
           keep == {i \in 1 .. n : Contributes(diagnostics[i])}
<1>1. n \in Nat /\ Contributed(diagnostics) = Kept(entries, keep)  BY DEF Contributed
<1>2. \A i \in 1 .. n : entries[i] \in Failures
  BY DEF OutcomeForDiagnostic, Failures
<1>3. \A i \in 1 .. n : /\ entries[i] = OutcomeForDiagnostic(diagnostics[i])
                        /\ i \in keep <=> Contributes(diagnostics[i])
  OBVIOUS
<1> HIDE DEF n, entries, keep
<1>4. Len(entries) = n
  <2>1. entries = [i \in 1 .. n |-> OutcomeForDiagnostic(diagnostics[i])]  BY DEF entries
  <2> QED BY <1>1, <2>1
<1>5. n \in Nat  BY <1>1
<1>6. /\ Kept(entries, keep) \in Seq(Failures)
      /\ Range(Kept(entries, keep)) = {entries[i] : i \in keep \cap (1 .. n)}
  BY <1>2, <1>4, <1>5, KeptAreThose
<1>7. \A o : o \in {entries[i] : i \in keep \cap (1 .. n)}
              <=> \E i \in 1 .. n :
                    Contributes(diagnostics[i]) /\ OutcomeForDiagnostic(diagnostics[i]) = o
  BY <1>3
<1>8. \A o : (\E i \in DOMAIN Kept(entries, keep) : Kept(entries, keep)[i] = o)
              <=> o \in Range(Kept(entries, keep))
  BY DEF Range
<1>9. \A o : (\E i \in DOMAIN Kept(entries, keep) : Kept(entries, keep)[i] = o)
              <=> \E i \in 1 .. n :
                    Contributes(diagnostics[i]) /\ OutcomeForDiagnostic(diagnostics[i]) = o
  BY <1>6, <1>7, <1>8
<1> QED BY <1>1, <1>6, <1>9 DEF n

\* Whether a list of diagnostics has an error, and what one of them comes to.
AnyError(diagnostics) == \E i \in 1 .. Len(diagnostics) : Contributes(diagnostics[i])
ErrorIs(diagnostics, o) ==
  \E i \in 1 .. Len(diagnostics) :
    Contributes(diagnostics[i]) /\ OutcomeForDiagnostic(diagnostics[i]) = o

\* The class of a target is the most severe of its errors, or, without one,
\* what its node diff and its policy say.
LEMMA ClassifiedByErrorsFirst ==
  ASSUME NEW t, Len(t.diagnostics) \in Nat, t.nodeDiff \in NodeDiffs
  PROVE  /\ AnyError(t.diagnostics) =>
              /\ ErrorIs(t.diagnostics, ClassifyOutcome(t))
              /\ ClassifyOutcome(t) \in Failures
              /\ \A o : ErrorIs(t.diagnostics, o) => Rank(ClassifyOutcome(t)) <= Rank(o)
         /\ ~AnyError(t.diagnostics) =>
              ClassifyOutcome(t) = CASE t.nodeDiff = "nil" -> "operational_error"
                                     [] t.nodeDiff = "same" -> "clean"
                                     [] t.nodeDiff = "different" ->
                                          IF t.failOnDiff THEN "policy_disallowed_difference"
                                          ELSE "differences_allowed"
<1> DEFINE errors == Contributed(t.diagnostics)
           worst == ReduceAll(errors)
           own == CASE t.nodeDiff = "nil" -> "operational_error"
                    [] t.nodeDiff = "same" -> "clean"
                    [] t.nodeDiff = "different" ->
                         IF t.failOnDiff THEN "policy_disallowed_difference"
                         ELSE "differences_allowed"
<1>1. /\ errors \in Seq(Failures)
      /\ \A o : (\E i \in DOMAIN errors : errors[i] = o) <=> ErrorIs(t.diagnostics, o)
  BY ContributedAreErrors DEF ErrorIs
<1>2. ClassifyOutcome(t) = IF errors # <<>> THEN worst ELSE own
  BY DEF ClassifyOutcome, NodeDiffs
<1> HIDE DEF errors, own
<1>3. /\ errors # <<>> => \E i \in DOMAIN errors : worst = errors[i]
      /\ \A i \in DOMAIN errors : Rank(worst) <= Rank(errors[i])
  BY <1>1, ReduceAllChooses
<1>4. \A i \in DOMAIN errors : errors[i] \in Failures
  <2>1. errors \in [1 .. Len(errors) -> Failures] /\ DOMAIN errors = 1 .. Len(errors)
    BY <1>1, LenProperties
  <2> QED BY <2>1
<1>5. errors # <<>> <=> \E i \in DOMAIN errors : TRUE
  <2>1. Len(errors) \in Nat /\ DOMAIN errors = 1 .. Len(errors)  BY <1>1, LenProperties
  <2>2. errors = <<>> <=> Len(errors) = 0  BY <1>1, EmptySeq
  <2>3. Len(errors) # 0 => 1 \in DOMAIN errors  BY <2>1
  <2>4. Len(errors) = 0 => \A i : i \notin DOMAIN errors  BY <2>1
  <2> QED BY <2>2, <2>3, <2>4
<1>6. AnyError(t.diagnostics) <=> \E o : ErrorIs(t.diagnostics, o)  BY DEF AnyError, ErrorIs
<1>7. AnyError(t.diagnostics) <=> errors # <<>>
  <2>1. (\E o : \E i \in DOMAIN errors : errors[i] = o) <=> \E i \in DOMAIN errors : TRUE  OBVIOUS
  <2> QED BY <1>1, <1>5, <1>6, <2>1
<1>8. CASE AnyError(t.diagnostics)
  <2> HIDE DEF worst
  <2>1. ClassifyOutcome(t) = worst /\ \E i \in DOMAIN errors : worst = errors[i]
    BY <1>2, <1>3, <1>7, <1>8
  <2>2. ErrorIs(t.diagnostics, worst) /\ worst \in Failures  BY <1>1, <1>4, <2>1
  <2>3. \A o : ErrorIs(t.diagnostics, o) => Rank(worst) <= Rank(o)  BY <1>1, <1>3
  <2> QED BY <1>8, <2>1, <2>2, <2>3
<1>9. CASE ~AnyError(t.diagnostics)
  <2>1. ClassifyOutcome(t) = own  BY <1>2, <1>7, <1>9
  <2> QED BY <1>9, <2>1 DEF own
<1> QED BY <1>8, <1>9

Allowed == {"clean", "differences_allowed"}

\* A target's class allows exit code 0 exactly when nothing failed for it and
\* it was compared without a difference that its policy disallows.
LEMMA AllowedTargets ==
  ASSUME NEW t, Len(t.diagnostics) \in Nat, t.nodeDiff \in NodeDiffs
  PROVE  /\ ClassifyOutcome(t) \in Outcomes
         /\ ClassifyOutcome(t) \in Allowed <=>
              /\ ~AnyError(t.diagnostics)
              /\ t.nodeDiff # "nil"
              /\ t.nodeDiff = "different" => ~t.failOnDiff
<1>1. CASE AnyError(t.diagnostics)
  <2>1. ClassifyOutcome(t) \in Failures  BY <1>1, ClassifiedByErrorsFirst
  <2> QED BY <1>1, <2>1 DEF Failures, Outcomes, Allowed
<1>2. CASE ~AnyError(t.diagnostics)
  <2>1. ClassifyOutcome(t) = CASE t.nodeDiff = "nil" -> "operational_error"
                               [] t.nodeDiff = "same" -> "clean"
                               [] t.nodeDiff = "different" ->
                                    IF t.failOnDiff THEN "policy_disallowed_difference"
                                    ELSE "differences_allowed"
    BY <1>2, ClassifiedByErrorsFirst
  <2> QED BY <1>2, <2>1 DEF NodeDiffs, Outcomes, Allowed
<1> QED BY <1>1, <1>2

\* What a run is made of: the classes of its targets, and its own errors.
Given(targets, diagnostics, o) ==
  \/ \E i \in DOMAIN targets : ClassifyOutcome(targets[i]) = o
  \/ ErrorIs(diagnostics, o)

\* The class of a run is the most severe of those it is made of, and clean
\* when there are none.
LEMMA FinalizedIsWorst ==
  ASSUME NEW targets, Len(targets) \in Nat, DOMAIN targets = 1 .. Len(targets),
         NEW diagnostics, Len(diagnostics) \in Nat
  PROVE  LET outcome == Finalize(targets, diagnostics) IN
         /\ \A o : Given(targets, diagnostics, o) => Rank(outcome) <= Rank(o)
         /\ \/ Given(targets, diagnostics, outcome)
            \/ outcome = "clean" /\ \A o : ~Given(targets, diagnostics, o)
<1> DEFINE n == Len(targets)
           own == [i \in DOMAIN targets |-> ClassifyOutcome(targets[i])]
           errors == Contributed(diagnostics)
           S == Failures \cup {own[i] : i \in 1 .. n}
           all == own \o errors
           outcome == ReduceAll(all)
<1>1. Finalize(targets, diagnostics) = outcome  BY DEF Finalize
<1>2. /\ errors \in Seq(Failures)
      /\ \A o : (\E i \in DOMAIN errors : errors[i] = o) <=> ErrorIs(diagnostics, o)
  BY ContributedAreErrors DEF ErrorIs
<1>3. \A o : Given(targets, diagnostics, o) <=>
        ((\E i \in DOMAIN own : own[i] = o) \/ \E i \in DOMAIN errors : errors[i] = o)
  BY <1>2 DEF Given
<1>4. own = [i \in 1 .. n |-> own[i]] /\ n \in Nat  OBVIOUS
<1> HIDE DEF own, errors, n
<1>5. own \in Seq(S)  BY <1>4
<1>6. errors \in Seq(S)  BY <1>2, SeqMonotonic
<1> HIDE DEF S
<1>7. /\ Len(own) \in Nat /\ DOMAIN own = 1 .. Len(own)
      /\ Len(errors) \in Nat /\ DOMAIN errors = 1 .. Len(errors)
  BY <1>5, <1>6, LenProperties
<1>8. /\ all \in Seq(S) /\ Len(all) = Len(own) + Len(errors)
      /\ \A i \in 1 .. Len(own) + Len(errors) :
           all[i] = IF i <= Len(own) THEN own[i] ELSE errors[i - Len(own)]
  BY <1>5, <1>6, ConcatProperties
<1> HIDE DEF all
<1>9. DOMAIN all = 1 .. Len(own) + Len(errors)  BY <1>8, LenProperties
<1>10. \A o : (\E i \in DOMAIN all : all[i] = o) <=>
         ((\E i \in DOMAIN own : own[i] = o) \/ \E i \in DOMAIN errors : errors[i] = o)
  <2> TAKE o
  <2>1. ASSUME NEW i \in DOMAIN all, all[i] = o
        PROVE  (\E j \in DOMAIN own : own[j] = o) \/ \E j \in DOMAIN errors : errors[j] = o
    <3>1. CASE i <= Len(own)
      <4>1. i \in DOMAIN own /\ all[i] = own[i]  BY <1>7, <1>8, <1>9, <3>1
      <4> QED BY <2>1, <4>1
    <3>2. CASE ~(i <= Len(own))
      <4>1. i - Len(own) \in DOMAIN errors /\ all[i] = errors[i - Len(own)]
        BY <1>7, <1>8, <1>9, <3>2
      <4> QED BY <2>1, <4>1
    <3> QED BY <3>1, <3>2
  <2>2. ASSUME NEW j \in DOMAIN own, own[j] = o  PROVE \E i \in DOMAIN all : all[i] = o
    <3>1. j \in DOMAIN all /\ all[j] = own[j]  BY <1>7, <1>8, <1>9
    <3> QED BY <2>2, <3>1
  <2>3. ASSUME NEW j \in DOMAIN errors, errors[j] = o  PROVE \E i \in DOMAIN all : all[i] = o
    <3>1. j + Len(own) \in DOMAIN all /\ all[j + Len(own)] = errors[j]  BY <1>7, <1>8, <1>9
    <3> QED BY <2>3, <3>1
  <2> QED BY <2>1, <2>2, <2>3
<1>11. \A o : Given(targets, diagnostics, o) <=> \E i \in DOMAIN all : all[i] = o  BY <1>3, <1>10
<1>12. /\ all = <<>> => outcome = "clean"
       /\ all # <<>> => \E i \in DOMAIN all : outcome = all[i]
       /\ \A i \in DOMAIN all : Rank(outcome) <= Rank(all[i])
  BY <1>8, ReduceAllChooses
<1>13. all = <<>> => \A i : i \notin DOMAIN all  OBVIOUS
<1> HIDE DEF outcome
<1>14. \A o : Given(targets, diagnostics, o) => Rank(outcome) <= Rank(o)  BY <1>11, <1>12
<1>15. \/ Given(targets, diagnostics, outcome)
       \/ outcome = "clean" /\ \A o : ~Given(targets, diagnostics, o)
  BY <1>11, <1>12, <1>13
<1> QED BY <1>1, <1>14, <1>15

\* A class allows exit code 0 exactly when it ranks below every other.
LEMMA ExitZero ==
  \A o \in Outcomes : /\ ForOutcome(o) = 0 <=> o \in Allowed
                      /\ \A p \in Outcomes : Rank(o) <= Rank(p) /\ o \in Allowed => p \in Allowed
BY DEF ForOutcome, Outcomes, Allowed, Rank

\* A run exits with 0 exactly when each of its targets may and it has no error
\* of its own.
LEMMA ZeroMeansAllowed ==
  ASSUME NEW targets, Len(targets) \in Nat, DOMAIN targets = 1 .. Len(targets),
         \A i \in DOMAIN targets : ClassifyOutcome(targets[i]) \in Outcomes,
         NEW diagnostics, Len(diagnostics) \in Nat
  PROVE  ForOutcome(Finalize(targets, diagnostics)) = 0 <=>
           /\ \A i \in DOMAIN targets : ClassifyOutcome(targets[i]) \in Allowed
           /\ ~AnyError(diagnostics)
<1> DEFINE outcome == Finalize(targets, diagnostics)
<1>1. /\ \A o : Given(targets, diagnostics, o) => Rank(outcome) <= Rank(o)
      /\ \/ Given(targets, diagnostics, outcome)
         \/ outcome = "clean" /\ \A o : ~Given(targets, diagnostics, o)
  BY FinalizedIsWorst
<1> HIDE DEF outcome
<1>2. \A o : ErrorIs(diagnostics, o) => o \in Failures
  BY DEF ErrorIs, OutcomeForDiagnostic, Failures
<1>3. \A o \in Failures : o \in Outcomes /\ o \notin Allowed  BY DEF Failures, Outcomes, Allowed
<1>4. \A o : Given(targets, diagnostics, o) => o \in Outcomes  BY <1>2, <1>3 DEF Given
<1>5. outcome \in Outcomes  BY <1>1, <1>4 DEF Outcomes
<1>6. ForOutcome(outcome) = 0 <=> outcome \in Allowed  BY <1>5, ExitZero
<1>7. outcome \in Allowed => \A o : Given(targets, diagnostics, o) => o \in Allowed
  BY <1>1, <1>4, <1>5, ExitZero
<1>8. (\A o : Given(targets, diagnostics, o) => o \in Allowed) => outcome \in Allowed
  BY <1>1 DEF Allowed
<1>9. (\A o : Given(targets, diagnostics, o) => o \in Allowed) <=>
        /\ \A i \in DOMAIN targets : ClassifyOutcome(targets[i]) \in Allowed
        /\ ~AnyError(diagnostics)
  <2>1. AnyError(diagnostics) <=> \E o : ErrorIs(diagnostics, o)  BY DEF AnyError, ErrorIs
  <2>2. ASSUME \A o : Given(targets, diagnostics, o) => o \in Allowed
        PROVE  /\ \A i \in DOMAIN targets : ClassifyOutcome(targets[i]) \in Allowed
               /\ ~AnyError(diagnostics)
    BY <1>2, <1>3, <2>1, <2>2 DEF Given
  <2>3. ASSUME \A i \in DOMAIN targets : ClassifyOutcome(targets[i]) \in Allowed,
               ~AnyError(diagnostics)
        PROVE  \A o : Given(targets, diagnostics, o) => o \in Allowed
    BY <2>1, <2>3 DEF Given
  <2> QED BY <2>2, <2>3
<1> QED BY <1>6, <1>7, <1>8, <1>9 DEF outcome

\* The class of a run is one of the five.
LEMMA FinalizedIsOutcome ==
  ASSUME NEW targets, Len(targets) \in Nat, DOMAIN targets = 1 .. Len(targets),
         \A i \in DOMAIN targets : ClassifyOutcome(targets[i]) \in Outcomes,
         NEW diagnostics, Len(diagnostics) \in Nat
  PROVE  Finalize(targets, diagnostics) \in Outcomes
<1> DEFINE outcome == Finalize(targets, diagnostics)
<1>1. Given(targets, diagnostics, outcome) \/ outcome = "clean"
  BY FinalizedIsWorst
<1> HIDE DEF outcome
<1>2. \A o : ErrorIs(diagnostics, o) => o \in Outcomes
  BY DEF ErrorIs, OutcomeForDiagnostic, Outcomes
<1> QED BY <1>1, <1>2 DEF Given, Outcomes, outcome

----------------------------------------------------------------------------
(* Sorting.                                                                *)

\* The element at a place is the one with so many before it, each element has
\* its place, and places follow the order.
LEMMA ArrangedInOrder ==
  ASSUME NEW S, IsFiniteSet(S), NEW R, StrictOrder(R, S)
  PROVE  /\ Cardinality(S) \in Nat
         /\ Arranged(S, R) \in [1 .. Cardinality(S) -> S]
         /\ {Arranged(S, R)[k] : k \in 1 .. Cardinality(S)} = S
         /\ \A i, j \in 1 .. Cardinality(S) :
              i < j => <<Arranged(S, R)[i], Arranged(S, R)[j]>> \in R
<1> DEFINE n == Cardinality(S)
           Below(x) == {y \in S : <<y, x>> \in R}
           place == [x \in S |-> Cardinality(Below(x))]
           A == Arranged(S, R)
<1>1. n \in Nat  BY FS_CardinalityType
<1>2. ASSUME NEW x \in S
      PROVE  place[x] \in 0 .. n - 1
  <2>1. Below(x) \subseteq S /\ x \notin Below(x)
    BY DEF StrictOrder
  <2>2. IsFiniteSet(S \ {x}) /\ Cardinality(S \ {x}) = n - 1
    BY FS_RemoveElement
  <2>3. Below(x) \subseteq S \ {x}  BY <2>1
  <2> DEFINE B == Below(x)
  <2>4. place[x] = Cardinality(B)  OBVIOUS
  <2> HIDE DEF B, n
  <2>5. Cardinality(B) \in Nat /\ Cardinality(B) <= n - 1
    <3>1. B \subseteq S \ {x}  BY <2>3 DEF B
    <3>2. IsFiniteSet(B) /\ Cardinality(B) <= Cardinality(S \ {x})
      BY ONLY <2>2, <3>1, FS_Subset
    <3>3. Cardinality(B) \in Nat  BY ONLY <3>2, FS_CardinalityType
    <3> QED BY <2>2, <3>2, <3>3
  <2> QED BY <1>1, <2>4, <2>5
<1>3. ASSUME NEW x \in S, NEW y \in S, <<x, y>> \in R
      PROVE  place[x] < place[y]
  <2> DEFINE B == Below(x)
             C == Below(y)
  <2>1. IsFiniteSet(B) /\ IsFiniteSet(C)  BY FS_Subset
  <2>2. x \notin B  BY DEF StrictOrder
  <2>3. B \cup {x} \subseteq C  BY <1>3 DEF StrictOrder
  <2>4. place[x] = Cardinality(B) /\ place[y] = Cardinality(C)  OBVIOUS
  <2> HIDE DEF B, C, place
  <2>5. IsFiniteSet(B \cup {x}) /\ Cardinality(B \cup {x}) = Cardinality(B) + 1
    BY <2>1, <2>2, FS_AddElement
  <2>6. Cardinality(B \cup {x}) <= Cardinality(C)  BY <2>1, <2>3, FS_Subset
  <2>7. Cardinality(B) \in Nat /\ Cardinality(C) \in Nat  BY <2>1, FS_CardinalityType
  <2> QED BY <2>4, <2>5, <2>6, <2>7
<1> HIDE DEF n, place
<1>4. \A x, y \in S : place[x] = place[y] => x = y
  <2> SUFFICES ASSUME NEW x \in S, NEW y \in S, x # y  PROVE place[x] # place[y]
    OBVIOUS
  <2>1. <<x, y>> \in R \/ <<y, x>> \in R  BY DEF StrictOrder
  <2>2. place[x] \in Int /\ place[y] \in Int  BY <1>1, <1>2
  <2> QED BY <1>3, <2>1, <2>2
<1>5. \A k \in 0 .. n - 1 : \E x \in S : place[x] = k
  <2> DEFINE T == 0 .. n - 1
  <2>1. IsFiniteSet(T) /\ Cardinality(T) = n
    BY <1>1, FS_Interval
  <2>2. place \in [S -> T]
    <3>1. place = [x \in S |-> place[x]]  BY DEF place
    <3> QED BY <1>2, <3>1
  <2> HIDE DEF T
  <2>3. place \in Injection(S, T)
    BY <1>4, <2>2 DEF Injection, IsInjective
  <2>4. place \in Surjection(S, T)
    BY <2>1, <2>3, FS_Injection DEF n
  <2>5. \A k \in T : \E x \in S : place[x] = k
    BY <2>4 DEF Surjection
  <2> QED BY <2>5 DEF T
<1>6. ASSUME NEW k \in 1 .. n
      PROVE  A[k] \in S /\ place[A[k]] = k - 1
  <2>1. k - 1 \in 0 .. n - 1  BY <1>1
  <2>2. PICK x \in S : place[x] = k - 1  BY <1>5, <2>1
  <2>3. \A y \in S : place[y] = Cardinality({z \in S : <<z, y>> \in R})  BY DEF place
  <2>4. A[k] = CHOOSE y \in S : Cardinality({z \in S : <<z, y>> \in R}) = k - 1
    BY DEF Arranged, n
  <2> HIDE DEF A
  <2>5. A[k] \in S /\ Cardinality({z \in S : <<z, A[k]>> \in R}) = k - 1
    BY <2>2, <2>3, <2>4
  <2> QED BY <2>3, <2>5
<1>7. A \in [1 .. n -> S]
  <2> DEFINE at(k) == CHOOSE x \in S : Cardinality({y \in S : <<y, x>> \in R}) = k - 1
  <2>0. A = [k \in 1 .. n |-> at(k)]  BY Zenon DEF Arranged, n
  <2> HIDE DEF A, at
  <2>1. A = [k \in 1 .. n |-> A[k]]  BY <2>0
  <2> QED BY <1>6, <2>1
<1> HIDE DEF A
<1>8. {A[k] : k \in 1 .. n} = S
  <2>1. ASSUME NEW x \in S  PROVE \E k \in 1 .. n : A[k] = x
    <3>1. place[x] + 1 \in 1 .. n /\ (place[x] + 1) - 1 = place[x]  BY <1>1, <1>2
    <3>2. A[place[x] + 1] \in S /\ place[A[place[x] + 1]] = place[x]  BY <1>6, <3>1
    <3>3. A[place[x] + 1] = x  BY <1>4, <3>2
    <3> QED BY <3>1, <3>3
  <2> QED BY <1>6, <2>1
<1>9. ASSUME NEW i \in 1 .. n, NEW j \in 1 .. n, i < j
      PROVE  <<A[i], A[j]>> \in R
  <2>1. /\ A[i] \in S /\ A[j] \in S
        /\ place[A[i]] = i - 1 /\ place[A[j]] = j - 1
    BY <1>6
  <2>2. A[i] # A[j]  BY <1>1, <1>9, <2>1
  <2>3. ~ (place[A[j]] < place[A[i]])  BY <1>1, <1>9, <2>1
  <2> QED BY <1>3, <2>1, <2>2, <2>3 DEF StrictOrder
<1> QED BY <1>1, <1>7, <1>8, <1>9 DEF n, A

\* A list that is in order, each element once, is what sorting makes of them.
LEMMA SortedStaysSorted ==
  ASSUME NEW S, NEW n \in Nat, NEW list \in [1 .. n -> S], {list[k] : k \in 1 .. n} = S,
         NEW R, StrictOrder(R, S), \A i, j \in 1 .. n : i < j => <<list[i], list[j]>> \in R
  PROVE  Arranged(S, R) = list
<1> DEFINE Below(x) == {y \in S : <<y, x>> \in R}
<1>1. \A i, j \in 1 .. n : <<list[i], list[j]>> \in R => i < j
  <2> SUFFICES ASSUME NEW i \in 1 .. n, NEW j \in 1 .. n, <<list[i], list[j]>> \in R
               PROVE  i < j
    OBVIOUS
  <2>1. list[i] \in S /\ list[j] \in S  OBVIOUS
  <2>2. <<list[i], list[i]>> \notin R  BY <2>1 DEF StrictOrder
  <2>3. i # j  BY <2>2
  <2>4. ~(j < i)
    <3> SUFFICES ASSUME <<list[j], list[i]>> \in R  PROVE FALSE
      OBVIOUS
    <3> QED BY <2>1, <2>2 DEF StrictOrder
  <2> QED BY <2>3, <2>4
<1>2. \A i, j \in 1 .. n : list[i] = list[j] => i = j
  <2> SUFFICES ASSUME NEW i \in 1 .. n, NEW j \in 1 .. n, list[i] = list[j], i < j
               PROVE  FALSE
    OBVIOUS
  <2>1. <<list[j], list[j]>> \in R /\ list[j] \in S  OBVIOUS
  <2> QED BY <2>1 DEF StrictOrder
<1>3. ASSUME NEW k \in 0 .. n
      PROVE  Cardinality({list[i] : i \in 1 .. k}) = k
  <2>3. IsFiniteSet(1 .. k) /\ Cardinality(1 .. k) = k
    <3>1. k \in Nat /\ 1 \in Int /\ k \in Int /\ k - 1 + 1 = k /\ (1 > k => k = 0)  OBVIOUS
    <3> QED BY ONLY <3>1, FS_Interval
  <2> DEFINE f == [i \in 1 .. k |-> list[i]]
             T == {list[i] : i \in 1 .. k}
  <2>1. \A i \in 1 .. k : i \in 1 .. n  OBVIOUS
  <2>2. f \in Bijection(1 .. k, T)
    <3>1. f \in [1 .. k -> T]  OBVIOUS
    <3>2. \A i, j \in 1 .. k : f[i] = f[j] => i = j  BY <1>2, <2>1
    <3>3. \A t \in T : \E i \in 1 .. k : f[i] = t  OBVIOUS
    <3> HIDE DEF f, T
    <3> QED BY <3>1, <3>2, <3>3 DEF Bijection, Injection, Surjection, IsInjective
  <2> HIDE DEF f, T
  <2>4. ExistsBijection(1 .. k, T)  BY <2>2 DEF ExistsBijection
  <2>5. Cardinality(T) = k  BY ONLY <2>3, <2>4, FS_Bijection
  <2> QED BY <2>5 DEF T
<1>4. ASSUME NEW k \in 1 .. n
      PROVE  Cardinality(Below(list[k])) = k - 1
  <2>1. Below(list[k]) = {list[i] : i \in 1 .. k - 1}
    <3>1. ASSUME NEW y \in Below(list[k])  PROVE y \in {list[i] : i \in 1 .. k - 1}
      <4>1. y \in S /\ <<y, list[k]>> \in R  OBVIOUS
      <4>2. PICK i \in 1 .. n : y = list[i]  BY <4>1
      <4>3. i < k  BY <1>1, <4>1, <4>2
      <4>4. i \in 1 .. k - 1  BY <4>3
      <4> QED BY <4>2, <4>4
    <3>2. ASSUME NEW i \in 1 .. k - 1  PROVE list[i] \in Below(list[k])
      <4>1. i \in 1 .. n /\ i < k  OBVIOUS
      <4> QED BY <4>1
    <3> HIDE DEF Below
    <3> QED BY <3>1, <3>2
  <2>2. k - 1 \in 0 .. n  OBVIOUS
  <2> QED BY <1>3, <2>1, <2>2
<1>5. ASSUME NEW k \in 1 .. n
      PROVE  (CHOOSE x \in S : Cardinality({y \in S : <<y, x>> \in R}) = k - 1) = list[k]
  <2>1. \A x \in S : Cardinality(Below(x)) = k - 1 => x = list[k]
    <3> SUFFICES ASSUME NEW x \in S, Cardinality(Below(x)) = k - 1  PROVE x = list[k]
      OBVIOUS
    <3>1. PICK i \in 1 .. n : x = list[i]  OBVIOUS
    <3>2. Cardinality(Below(x)) = i - 1  BY <1>4, <3>1
    <3> HIDE DEF Below
    <3>3. i = k  BY <3>2
    <3> QED BY <3>1, <3>3
  <2>2. list[k] \in S /\ Cardinality(Below(list[k])) = k - 1  BY <1>4
  <2> QED BY <2>1, <2>2
<1>6. Cardinality(S) = n  BY <1>3
<1>7. Arranged(S, R) = [k \in 1 .. n |-> list[k]]  BY <1>5, <1>6 DEF Arranged
<1> QED BY <1>7

----------------------------------------------------------------------------
(* Lists, and lists put together.                                          *)

\* A function on 1 .. n is a sequence of length n.
LEMMA OfLength ==
  ASSUME NEW n \in Nat, NEW s, s = [i \in 1 .. n |-> s[i]]
  PROVE  DOMAIN s = 1 .. n /\ Len(s) = n /\ (n = 0 => s = <<>>)
<1>1. s \in Seq({s[i] : i \in 1 .. n})
  OBVIOUS
<1> QED BY <1>1

\* A list has its length for a domain.
LEMMA ListsHaveLengths ==
  ASSUME NEW s, IsSequence(s)
  PROVE  Len(s) \in Nat /\ DOMAIN s = 1 .. Len(s)
BY DEF IsSequence

ListOf(n, s) == s = [i \in 1 .. n |-> s[i]]

AreLists(n, seqs, U) == \A i \in 1 .. n : seqs[i] \in Seq(U)

Stepwise(n, seqs, U) ==
  \E flat \in [0 .. n -> Seq(U)] :
    /\ flat[0] = <<>> /\ FlattenSeq(seqs) = flat[n]
    /\ \A i \in 1 .. n : flat[i] = flat[i - 1] \o seqs[i]

\* Lists put together, one after the other: what there is after each of them.
LEMMA FlattenedStepwise ==
  ASSUME NEW n \in Nat, NEW seqs, ListOf(n, seqs),
         NEW U, AreLists(n, seqs, U)
  PROVE  Stepwise(n, seqs, U)
<1> DEFINE V == Seq(U)
           e == <<>>
           round == [i \in 1 .. n |-> [v \in V |-> v \o seqs[i]]]
<1>1. Len(seqs) = n /\ (n = 0 => seqs = <<>>)  BY OfLength DEF ListOf
<1>2. e \in V  BY EmptySeq
<1>4. \A i \in 1 .. n : seqs[i] \in V  BY DEF AreLists
<1>3. \A i \in 1 .. n, v \in V : v \o seqs[i] \in V  BY <1>4, ConcatProperties
<1>5. \A i \in 1 .. n : e \o seqs[i] = seqs[i]  BY <1>4, ConcatEmptySeq
<1> HIDE DEF V, e
<1>6. round \in [1 .. n -> [V -> V]]  BY <1>3
<1>7. PICK f \in [0 .. n -> V] : f[0] = e /\ \A i \in 1 .. n : f[i] = round[i][f[i - 1]]
  <2> HIDE DEF round
  <2> QED BY <1>2, <1>6, Loop
<1>8. ASSUME NEW i \in 1 .. n  PROVE i - 1 \in 0 .. n /\ f[i] = f[i - 1] \o seqs[i]
  <2>1. i - 1 \in 0 .. n  OBVIOUS
  <2>2. f[i - 1] \in V  BY <2>1
  <2> QED BY <1>7, <2>1, <2>2
<1> DEFINE Result(g) == [i \in 1 .. n |-> IF i = 1 THEN seqs[i] ELSE g[i - 1] \o seqs[i]]
           joined == CHOOSE g : g = Result(g)
<1>9. n # 0 => FlattenSeq(seqs) = joined[n]  BY <1>1, Zenon DEF FlattenSeq
<1>10. n = 0 => FlattenSeq(seqs) = seqs  BY <1>1 DEF FlattenSeq
<1> DEFINE h == [i \in 1 .. n |-> f[i]]
<1>11. h = Result(h)
  <2>1. ASSUME NEW i \in 1 .. n  PROVE f[i] = IF i = 1 THEN seqs[i] ELSE h[i - 1] \o seqs[i]
    <3>1. CASE i = 1
      <4>1. i - 1 = 0  BY <3>1
      <4>2. f[i] = e \o seqs[i]  BY <1>7, <1>8, <4>1
      <4> QED BY <1>5, <3>1, <4>2
    <3>2. CASE i # 1
      <4>1. i - 1 \in 1 .. n  BY <3>2
      <4> QED BY <1>8, <3>2, <4>1
    <3> QED BY <3>1, <3>2
  <2> HIDE DEF round
  <2> QED BY <2>1
<1>12. joined = Result(joined)
  <2> HIDE DEF h, Result
  <2> QED BY <1>11
<1> HIDE DEF joined, round
<1>13. \A i \in 1 .. n : joined[i] = IF i = 1 THEN seqs[i] ELSE joined[i - 1] \o seqs[i]
  BY <1>12
<1> HIDE DEF Result, h
<1> DEFINE T == {k \in Nat : k + 1 <= n => joined[k + 1] = f[k + 1]}
<1>14. 0 \in T
  <2>1. 1 <= n => joined[1] = f[1]
    <3> SUFFICES ASSUME 1 <= n  PROVE joined[1] = f[1]
      OBVIOUS
    <3>1. 1 \in 1 .. n /\ 1 - 1 = 0  OBVIOUS
    <3>2. joined[1] = seqs[1]  BY <1>13, <3>1
    <3>3. f[1] = f[0] \o seqs[1]  BY <1>8, <3>1
    <3> QED BY <1>5, <1>7, <3>1, <3>2, <3>3
  <2> QED BY <2>1
<1>15. ASSUME NEW k \in T  PROVE k + 1 \in T
  <2> SUFFICES ASSUME (k + 1) + 1 <= n  PROVE joined[(k + 1) + 1] = f[(k + 1) + 1]
    OBVIOUS
  <2> DEFINE l == k + 1
  <2>1. l \in Nat /\ l >= 1 /\ l + 1 \in 1 .. n /\ l + 1 # 1 /\ (l + 1) - 1 = l  OBVIOUS
  <2>2. joined[l] = f[l]  BY <2>1
  <2> HIDE DEF l, T
  <2>3. joined[l + 1] = joined[l] \o seqs[l + 1]  BY <1>13, <2>1
  <2>4. f[l + 1] = f[l] \o seqs[l + 1]  BY <1>8, <2>1
  <2> QED BY <2>2, <2>3, <2>4 DEF l
<1>16. T = Nat
  <2>1. T \subseteq Nat  OBVIOUS
  <2> HIDE DEF T
  <2> QED BY <1>14, <1>15, <2>1, CountingUp
<1>17. FlattenSeq(seqs) = f[n]
  <2>1. CASE n = 0  BY <1>1, <1>7, <1>10, <2>1 DEF e
  <2>2. CASE n # 0
    <3>1. n - 1 \in Nat /\ (n - 1) + 1 = n  BY <2>2
    <3>2. n - 1 \in T
      <4> HIDE DEF T
      <4> QED BY <1>16, <3>1
    <3>3. joined[n] = f[n]  BY <3>1, <3>2
    <3> QED BY <1>9, <2>2, <3>3
  <2> QED BY <2>1, <2>2
<1>18. f[0] = <<>>  BY <1>7 DEF e
<1> QED BY <1>8, <1>17, <1>18 DEF V, Stepwise

\* What has a domain from one to its length is a sequence.
LEMMA ListsAreSequences ==
  ASSUME NEW S, NEW s \in Seq(S)
  PROVE  IsSequence(s)
<1> DEFINE n == Len(s)
<1>1. n \in Nat /\ s = [i \in 1 .. n |-> s[i]] /\ DOMAIN s = 1 .. n  BY LenProperties
<1> HIDE DEF n
<1> QED BY <1>1 DEF IsSequence

\* Two lists are a list together, and nothing only when both are.
LEMMA Together ==
  ASSUME NEW a, IsSequence(a), NEW b, IsSequence(b)
  PROVE  IsSequence(a \o b) /\ (a \o b = <<>> => a = <<>> /\ b = <<>>)
<1> DEFINE U == {a[i] : i \in DOMAIN a} \cup {b[i] : i \in DOMAIN b}
           t == a \o b
<1>1. a \in Seq(U) /\ b \in Seq(U)  BY SeqMonotonic DEF IsSequence
<1> HIDE DEF U
<1>2. t \in Seq(U) /\ (t = <<>> => a = <<>> /\ b = <<>>)
  <2>1. t \in Seq(U) /\ Len(t) = Len(a) + Len(b)  BY <1>1, ConcatProperties
  <2>2. Len(a) \in Nat /\ Len(b) \in Nat  BY <1>1, LenProperties
  <2> HIDE DEF t
  <2>3. t = <<>> => Len(a) = 0 /\ Len(b) = 0
    <3>1. t = <<>> => Len(t) = 0  OBVIOUS
    <3> QED BY <2>1, <2>2, <3>1
  <2> QED BY <1>1, <2>1, <2>3, EmptySeq
<1> HIDE DEF t
<1>3. IsSequence(t)  BY <1>2, ListsAreSequences
<1> QED BY <1>2, <1>3 DEF t

\* Lists put together are nothing only when each of them is.
LEMMA NothingFlattened ==
  ASSUME NEW n \in Nat, NEW seqs, ListOf(n, seqs),
         \A i \in 1 .. n : IsSequence(seqs[i])
  PROVE  /\ IsSequence(FlattenSeq(seqs))
         /\ FlattenSeq(seqs) = <<>> => \A i \in 1 .. n : seqs[i] = <<>>
<1> DEFINE U == UNION {{seqs[i][j] : j \in DOMAIN seqs[i]} : i \in 1 .. n}
<1>1. ASSUME NEW i \in 1 .. n  PROVE seqs[i] \in Seq(U)
  <2> DEFINE W == {seqs[i][j] : j \in DOMAIN seqs[i]}
  <2>1. seqs[i] \in Seq(W) /\ W \subseteq U  BY DEF IsSequence
  <2> HIDE DEF U, W
  <2> QED BY <2>1, SeqMonotonic
<1> HIDE DEF U
<1>2. PICK flat \in [0 .. n -> Seq(U)] :
        /\ flat[0] = <<>> /\ FlattenSeq(seqs) = flat[n]
        /\ \A i \in 1 .. n : flat[i] = flat[i - 1] \o seqs[i]
  <2>1. AreLists(n, seqs, U)  BY <1>1 DEF AreLists
  <2>2. Stepwise(n, seqs, U)  BY <2>1, FlattenedStepwise
  <2> QED BY <2>2 DEF Stepwise
<1> DEFINE t == flat[n]
<1>3. t \in Seq(U)  OBVIOUS
<1> HIDE DEF t
<1>5. IsSequence(t)  BY <1>3, ListsAreSequences
<1> DEFINE Nothing(k) == flat[k] = <<>> => \A i \in 1 .. k : seqs[i] = <<>>
           T == {k \in Nat : k <= n => Nothing(k)}
<1>6. 0 \in T  OBVIOUS
<1>7. ASSUME NEW k \in T  PROVE k + 1 \in T
  <2> SUFFICES ASSUME k + 1 <= n  PROVE Nothing(k + 1)
    <3>1. k + 1 \in Nat  OBVIOUS
    <3> HIDE DEF Nothing
    <3> QED BY <3>1
  <2> SUFFICES ASSUME flat[k + 1] = <<>>  PROVE \A i \in 1 .. k + 1 : seqs[i] = <<>>
    OBVIOUS
  <2>1. k \in Nat /\ k \in 0 .. n /\ k + 1 \in 1 .. n /\ (k + 1) - 1 = k /\ k <= n
    <3> HIDE DEF Nothing
    <3> QED OBVIOUS
  <2>2. Nothing(k)
    <3> HIDE DEF Nothing
    <3> QED BY <2>1
  <2>3. flat[k] \in Seq(U) /\ seqs[k + 1] \in Seq(U)  BY <1>1, <2>1
  <2>4. flat[k] \o seqs[k + 1] = <<>>  BY <1>2, <2>1
  <2> HIDE DEF T
  <2>5. flat[k] = <<>> /\ seqs[k + 1] = <<>>
    <3> DEFINE a == flat[k]
               b == seqs[k + 1]
    <3> HIDE DEF a, b
    <3>1. a \in Seq(U) /\ b \in Seq(U) /\ a \o b = <<>>  BY <2>3, <2>4 DEF a, b
    <3>2. Len(a \o b) = Len(a) + Len(b) /\ Len(a \o b) = 0  BY <3>1, ConcatProperties
    <3>3. Len(a) \in Nat /\ Len(b) \in Nat  BY <3>1, LenProperties
    <3>4. Len(a) = 0 /\ Len(b) = 0  BY <3>2, <3>3
    <3> QED BY <3>1, <3>4, EmptySeq DEF a, b
  <2>6. \A i \in 1 .. k : seqs[i] = <<>>  BY <2>2, <2>5
  <2>7. ASSUME NEW i \in 1 .. k + 1  PROVE i \in 1 .. k \/ i = k + 1  BY <2>1
  <2> QED BY <2>5, <2>6, <2>7
<1>8. T = Nat
  <2>1. T \subseteq Nat  OBVIOUS
  <2> HIDE DEF T
  <2> QED BY <1>6, <1>7, <2>1, CountingUp
<1>9. Nothing(n)
  <2>1. n \in T
    <3> HIDE DEF T
    <3> QED BY <1>8
  <2> HIDE DEF Nothing
  <2> QED BY <2>1
<1> QED BY <1>2, <1>5, <1>9 DEF t

Grows(n, seqs, flat) ==
  /\ \A k \in 0 .. n : /\ Len(flat[k]) \in Nat /\ Len(flat[k]) <= Len(flat[n])
                       /\ \A j \in 1 .. Len(flat[k]) : flat[n][j] = flat[k][j]
  /\ \A k \in 1 .. n : /\ Len(flat[k]) = Len(flat[k - 1]) + Len(seqs[k])
                       /\ \A j \in 1 .. Len(seqs[k]) :
                            flat[k][Len(flat[k - 1]) + j] = seqs[k][j]

AreJoined(n, seqs, flat) == \A i \in 1 .. n : flat[i] = flat[i - 1] \o seqs[i]

\* What is put together stays at the front of what is put together later.
LEMMA FlattenedGrows ==
  ASSUME NEW n \in Nat, NEW seqs, NEW U, AreLists(n, seqs, U), NEW flat \in [0 .. n -> Seq(U)],
         AreJoined(n, seqs, flat)
  PROVE  Grows(n, seqs, flat)
<1> DEFINE Stays(k) == /\ Len(flat[k]) <= Len(flat[n])
                       /\ \A j \in 1 .. Len(flat[k]) : flat[n][j] = flat[k][j]
           T == {d \in Nat : d <= n => Stays(n - d)}
<1>1. \A k \in 0 .. n : flat[k] \in Seq(U) /\ Len(flat[k]) \in Nat
  <2> TAKE k \in 0 .. n
  <2>1. flat[k] \in Seq(U)  OBVIOUS
  <2> QED BY <2>1, LenProperties
<1>2. ASSUME NEW k \in 1 .. n
      PROVE  /\ k - 1 \in 0 .. n /\ k \in 0 .. n /\ Len(seqs[k]) \in Nat
             /\ Len(flat[k]) = Len(flat[k - 1]) + Len(seqs[k])
             /\ \A j \in 1 .. Len(flat[k - 1]) : flat[k][j] = flat[k - 1][j]
             /\ \A j \in 1 .. Len(seqs[k]) : flat[k][Len(flat[k - 1]) + j] = seqs[k][j]
  <2> DEFINE a == flat[k - 1]
             b == seqs[k]
  <2>1. k - 1 \in 0 .. n /\ k \in 0 .. n  OBVIOUS
  <2>2. a \in Seq(U) /\ b \in Seq(U) /\ flat[k] = a \o b  BY <1>1, <2>1 DEF AreLists, AreJoined
  <2> HIDE DEF a, b
  <2>3. Len(a) \in Nat /\ Len(b) \in Nat  BY <2>2, LenProperties
  <2>4. /\ Len(a \o b) = Len(a) + Len(b)
        /\ \A i \in 1 .. Len(a) + Len(b) : (a \o b)[i] = IF i <= Len(a) THEN a[i] ELSE b[i - Len(a)]
    BY <2>2, ConcatProperties
  <2>5. \A j \in 1 .. Len(a) : flat[k][j] = a[j]  BY <2>2, <2>3, <2>4
  <2>6. ASSUME NEW j \in 1 .. Len(b)  PROVE flat[k][Len(a) + j] = b[j]
    <3>1. /\ Len(a) + j \in 1 .. Len(a) + Len(b) /\ ~(Len(a) + j <= Len(a))
          /\ (Len(a) + j) - Len(a) = j
      BY <2>3
    <3> QED BY <2>2, <2>4, <3>1
  <2> QED BY <2>1, <2>2, <2>3, <2>4, <2>5, <2>6 DEF a, b
<1>3. 0 \in T
  <2>1. n - 0 = n /\ Len(flat[n]) \in Nat  BY <1>1
  <2> QED BY <2>1
<1>4. ASSUME NEW d \in T  PROVE d + 1 \in T
  <2> SUFFICES ASSUME d + 1 <= n  PROVE Stays(n - (d + 1))
    <3>1. d + 1 \in Nat  OBVIOUS
    <3> HIDE DEF Stays
    <3> QED BY <3>1
  <2> DEFINE k == n - d
  <2>1. k \in 1 .. n /\ k - 1 = n - (d + 1) /\ d \in Nat /\ d <= n  OBVIOUS
  <2>2. Stays(k)
    <3> HIDE DEF Stays
    <3> QED BY <2>1
  <2> HIDE DEF k, T
  <2>3. Stays(k - 1)
    <3>1. Len(flat[k - 1]) <= Len(flat[k]) /\ Len(flat[k - 1]) \in Nat /\ Len(flat[k]) \in Nat
          /\ Len(flat[n]) \in Nat
      <4>1. k \in 0 .. n /\ k - 1 \in 0 .. n /\ n \in 0 .. n  BY <2>1
      <4>2. /\ Len(flat[k - 1]) \in Nat /\ Len(flat[k]) \in Nat /\ Len(flat[n]) \in Nat
            /\ Len(seqs[k]) \in Nat /\ Len(flat[k]) = Len(flat[k - 1]) + Len(seqs[k])
        BY <1>1, <1>2, <2>1, <4>1
      <4> DEFINE x == Len(flat[k - 1])
                 y == Len(flat[k])
                 z == Len(seqs[k])
      <4>3. x \in Nat /\ y \in Nat /\ z \in Nat /\ y = x + z  BY <4>2
      <4> HIDE DEF x, y, z
      <4>4. x <= y  BY <4>3
      <4> QED BY <4>2, <4>4 DEF x, y
    <3>2. Len(flat[k - 1]) <= Len(flat[n])  BY <2>2, <3>1
    <3>3. ASSUME NEW j \in 1 .. Len(flat[k - 1])  PROVE flat[n][j] = flat[k - 1][j]
      <4>1. j \in 1 .. Len(flat[k])  BY <3>1
      <4> QED BY <1>2, <2>1, <2>2, <4>1
    <3> QED BY <3>2, <3>3
  <2> QED BY <2>1, <2>3
<1>5. T = Nat
  <2>1. T \subseteq Nat  OBVIOUS
  <2> HIDE DEF T
  <2> QED BY <1>3, <1>4, <2>1, CountingUp
<1>6. ASSUME NEW k \in 0 .. n  PROVE Stays(k)
  <2>1. n - k \in Nat /\ n - k <= n /\ n - (n - k) = k  OBVIOUS
  <2>2. n - k \in T
    <3> HIDE DEF T
    <3> QED BY <1>5, <2>1
  <2> HIDE DEF Stays
  <2> QED BY <2>1, <2>2
<1> QED BY <1>1, <1>2, <1>6 DEF Grows

\* What is in lists put together is what is in any of them.
LEMMA FlattenedIsAll ==
  ASSUME NEW n \in Nat, NEW seqs, ListOf(n, seqs),
         \A i \in 1 .. n : IsSequence(seqs[i])
  PROVE  /\ IsSequence(FlattenSeq(seqs))
         /\ ToSet(FlattenSeq(seqs)) = UNION {ToSet(seqs[i]) : i \in 1 .. n}
<1> DEFINE U == UNION {{seqs[i][j] : j \in DOMAIN seqs[i]} : i \in 1 .. n}
<1>1. ASSUME NEW i \in 1 .. n  PROVE seqs[i] \in Seq(U)
  <2> DEFINE W == {seqs[i][j] : j \in DOMAIN seqs[i]}
  <2>1. seqs[i] \in Seq(W) /\ W \subseteq U  BY DEF IsSequence
  <2> HIDE DEF U, W
  <2> QED BY <2>1, SeqMonotonic
<1> HIDE DEF U
<1>2. PICK flat \in [0 .. n -> Seq(U)] :
        /\ flat[0] = <<>> /\ FlattenSeq(seqs) = flat[n]
        /\ \A i \in 1 .. n : flat[i] = flat[i - 1] \o seqs[i]
  <2>1. AreLists(n, seqs, U)  BY <1>1 DEF AreLists
  <2>2. Stepwise(n, seqs, U)  BY <2>1, FlattenedStepwise
  <2> QED BY <2>2 DEF Stepwise
<1> DEFINE Within(k) == \A o : o \in ToSet(flat[k]) <=> \E i \in 1 .. k : o \in ToSet(seqs[i])
           T == {k \in Nat : k <= n => Within(k)}
<1>3. 0 \in T
  <2>1. ToSet(flat[0]) = {}  BY <1>2 DEF ToSet
  <2> QED BY <2>1
<1>4. ASSUME NEW k \in T  PROVE k + 1 \in T
  <2> SUFFICES ASSUME k + 1 <= n  PROVE Within(k + 1)
    <3>1. k + 1 \in Nat  OBVIOUS
    <3> HIDE DEF Within
    <3> QED BY <3>1
  <2>1. k \in Nat /\ k \in 0 .. n /\ k + 1 \in 1 .. n /\ (k + 1) - 1 = k /\ k <= n
    <3> HIDE DEF Within
    <3> QED OBVIOUS
  <2>2. Within(k)
    <3> HIDE DEF Within
    <3> QED BY <2>1
  <2> DEFINE a == flat[k]
             b == seqs[k + 1]
  <2>3. a \in Seq(U) /\ b \in Seq(U) /\ flat[k + 1] = a \o b  BY <1>1, <1>2, <2>1
  <2> HIDE DEF a, b, T
  <2>4. \A o : o \in ToSet(a \o b) <=> o \in ToSet(a) \/ o \in ToSet(b)
    <3>1. Range(a \o b) = Range(a) \cup Range(b)  BY <2>3, RangeConcatenation
    <3>2. Range(a \o b) = ToSet(a \o b) /\ Range(a) = ToSet(a) /\ Range(b) = ToSet(b)
      BY DEF Range, ToSet
    <3> QED BY <3>1, <3>2
  <2>5. \A o : o \in ToSet(flat[k + 1])
                <=> (\E i \in 1 .. k : o \in ToSet(seqs[i])) \/ o \in ToSet(seqs[k + 1])
    <3>1. \A o : o \in ToSet(a) <=> \E i \in 1 .. k : o \in ToSet(seqs[i])  BY <2>2 DEF a
    <3>2. b = seqs[k + 1]  BY DEF b
    <3> QED BY <2>3, <2>4, <3>1, <3>2
  <2>6. \A i : i \in 1 .. k + 1 <=> i \in 1 .. k \/ i = k + 1  BY <2>1
  <2> QED BY <2>5, <2>6
<1>5. T = Nat
  <2>1. T \subseteq Nat  OBVIOUS
  <2> HIDE DEF T
  <2> QED BY <1>3, <1>4, <2>1, CountingUp
<1>6. Within(n)
  <2>1. n \in T
    <3> HIDE DEF T
    <3> QED BY <1>5
  <2> HIDE DEF Within
  <2> QED BY <2>1
<1>9. ToSet(flat[n]) = UNION {ToSet(seqs[i]) : i \in 1 .. n}  BY <1>6
<1> DEFINE t == flat[n]
<1>7. t \in Seq(U)  OBVIOUS
<1> HIDE DEF t
<1>8. IsSequence(t)  BY <1>7, ListsAreSequences
<1> QED BY <1>2, <1>8, <1>9 DEF t
=============================================================================
