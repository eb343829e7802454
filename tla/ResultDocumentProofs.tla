-------------------------- MODULE ResultDocumentProofs --------------------------
(***************************************************************************)
(* Proofs about ResultDocument, for any number of targets and diagnostics. *)
(* DocumentInv says what Reduce made of what is in the document; the rest  *)
(* is about what that comes to: OperatorProofs for the class and the exit   *)
(* code, ReasonsAreGiven and SortedLeastFirst for the reasons.             *)
(***************************************************************************)
EXTENDS ResultDocument, OperatorProofs, FiniteSetTheorems, TLAPS

ReportedTargets ==
  [certname : Certnames, diagnostics : Seq(Diagnoses), nodeDiff : NodeDiffs,
   failOnDiff : BOOLEAN]

\* The inductive invariant.
DocumentInv ==
  /\ targets \in Seq(ReportedTargets)
  /\ diagnostics \in Seq(Diagnoses)
  /\ reduced \in BOOLEAN
  /\ reduced => /\ outcome = Finalize(targets, diagnostics)
                /\ exitCode = ForOutcome(outcome)
                /\ reasons = BuildReasons(targets, diagnostics)

\* A bounded list of diagnostics is a list of diagnostics.
LEMMA ListsAreLists ==
  ASSUME NEW n, NEW ds \in Lists(n)
  PROVE  ds \in Seq(Diagnoses)
<1>1. PICK k \in 0 .. n : ds \in [1 .. k -> Diagnoses]
  BY DEF Lists
<1> QED
  BY <1>1

\* The document keeps its shape, and what Reduce made stays.
LEMMA DocumentStep == DocumentInv /\ [Next]_vars => DocumentInv'
<1> SUFFICES ASSUME DocumentInv, [Next]_vars PROVE DocumentInv'
  OBVIOUS
<1>1. ASSUME NEW c \in Certnames, AppendTarget(c) PROVE DocumentInv'
  <2>1. PICK ds \in Lists(MaxPerTarget), diff \in NodeDiffs, fail \in BOOLEAN :
          targets' = Append(targets, [certname |-> c, diagnostics |-> ds,
                                      nodeDiff |-> diff, failOnDiff |-> fail])
    BY <1>1 DEF AppendTarget
  <2> DEFINE t == [certname |-> c, diagnostics |-> ds, nodeDiff |-> diff, failOnDiff |-> fail]
  <2>2. t \in ReportedTargets
    BY ListsAreLists DEF ReportedTargets
  <2> HIDE DEF t
  <2>3. targets' \in Seq(ReportedTargets)
    BY <2>1, <2>2 DEF DocumentInv, t
  <2> QED
    BY <1>1, <2>3 DEF AppendTarget, DocumentInv
<1>2. ASSUME AppendDiagnostic PROVE DocumentInv'
  BY <1>2 DEF AppendDiagnostic, DocumentInv
<1>3. ASSUME ReduceDocument PROVE DocumentInv'
  BY <1>3 DEF ReduceDocument, DocumentInv
<1>4. CASE UNCHANGED vars
  BY <1>4 DEF vars, DocumentInv
<1> QED
  BY <1>1, <1>2, <1>3, <1>4 DEF Next

\* The inductive invariant of the document.
THEOREM DocumentInvariant == Spec => []DocumentInv
<1>1. Init => DocumentInv
  <2> SUFFICES ASSUME Init PROVE DocumentInv
    OBVIOUS
  <2>1. targets \in Seq(ReportedTargets) /\ diagnostics \in Seq(Diagnoses)
    BY EmptySeq DEF Init
  <2> QED
    BY <2>1 DEF Init, DocumentInv
<1>2. QED
  BY <1>1, DocumentStep, PTL DEF Spec

\* The shapes that the lemmas about outcomes ask for.
LEMMA Shapes ==
  ASSUME DocumentInv
  PROVE  /\ Len(targets) \in Nat /\ DOMAIN targets = 1 .. Len(targets)
         /\ Len(diagnostics) \in Nat /\ DOMAIN diagnostics = 1 .. Len(diagnostics)
         /\ \A i \in DOMAIN targets :
              /\ targets[i] \in ReportedTargets
              /\ Len(targets[i].diagnostics) \in Nat
              /\ DOMAIN targets[i].diagnostics = 1 .. Len(targets[i].diagnostics)
              /\ targets[i].nodeDiff \in NodeDiffs
              /\ ClassifyOutcome(targets[i]) \in Outcomes
<1>1. \A t \in ReportedTargets :
        /\ Len(t.diagnostics) \in Nat /\ DOMAIN t.diagnostics = 1 .. Len(t.diagnostics)
        /\ t.nodeDiff \in NodeDiffs
  BY DEF ReportedTargets
<1>2. \A t \in ReportedTargets : ClassifyOutcome(t) \in Outcomes
  BY <1>1, AllowedTargets
<1>3. \A i \in DOMAIN targets : targets[i] \in ReportedTargets
  BY DEF DocumentInv
<1> QED
  BY <1>1, <1>2, <1>3 DEF DocumentInv

\* The errors of a list are those its outcome is made of.
LEMMA ErrorsAreThose ==
  ASSUME NEW ds, Len(ds) \in Nat, DOMAIN ds = 1 .. Len(ds)
  PROVE  AnyError(ds) <=> Errors(ds) # {}
BY DEF AnyError, Errors, Contributes, Range

\* Exit code 0 says, of any document, that everything was compared, that
\* nothing failed anywhere, and that each difference is allowed by its own
\* target's policy; and nothing less does (Result.Reduce).
THEOREM ExitZeroIsEarned == Spec => []ExitZeroMeansAllCompared
<1>1. DocumentInv => ExitZeroMeansAllCompared
  <2> SUFFICES ASSUME DocumentInv, reduced
               PROVE  exitCode = 0 <=>
                        /\ Errors(diagnostics) = {}
                        /\ \A t \in Range(targets) :
                             /\ Errors(t.diagnostics) = {}
                             /\ t.nodeDiff # "nil"
                             /\ t.nodeDiff = "different" => ~t.failOnDiff
    BY DEF ExitZeroMeansAllCompared
  <2> DEFINE Fine(t) == /\ Errors(t.diagnostics) = {}
                        /\ t.nodeDiff # "nil"
                        /\ t.nodeDiff = "different" => ~t.failOnDiff
  <2>1. exitCode = ForOutcome(Finalize(targets, diagnostics))
    BY DEF DocumentInv
  <2>2. exitCode = 0 <=> /\ \A i \in DOMAIN targets : ClassifyOutcome(targets[i]) \in Allowed
                         /\ ~AnyError(diagnostics)
    <3>1. /\ Len(targets) \in Nat /\ DOMAIN targets = 1 .. Len(targets)
          /\ \A i \in DOMAIN targets : ClassifyOutcome(targets[i]) \in Outcomes
          /\ Len(diagnostics) \in Nat
      BY Shapes
    <3>2. ForOutcome(Finalize(targets, diagnostics)) = 0 <=>
            /\ \A i \in DOMAIN targets : ClassifyOutcome(targets[i]) \in Allowed
            /\ ~AnyError(diagnostics)
      BY <3>1, ZeroMeansAllowed
    <3> QED
      BY <2>1, <3>2
  <2>3. AnyError(diagnostics) <=> Errors(diagnostics) # {}
    BY Shapes, ErrorsAreThose
  <2>4. ASSUME NEW i \in DOMAIN targets
        PROVE  ClassifyOutcome(targets[i]) \in Allowed <=> Fine(targets[i])
    <3> DEFINE t == targets[i]
    <3>1. /\ Len(t.diagnostics) \in Nat /\ DOMAIN t.diagnostics = 1 .. Len(t.diagnostics)
          /\ t.nodeDiff \in NodeDiffs
      BY Shapes
    <3> HIDE DEF t
    <3>2. ClassifyOutcome(t) \in Allowed <=>
            /\ ~AnyError(t.diagnostics) /\ t.nodeDiff # "nil"
            /\ t.nodeDiff = "different" => ~t.failOnDiff
      BY <3>1, AllowedTargets
    <3>3. AnyError(t.diagnostics) <=> Errors(t.diagnostics) # {}
      BY <3>1, ErrorsAreThose
    <3> QED
      BY <3>2, <3>3 DEF t
  <2>5. (\A t \in Range(targets) : Fine(t)) <=> \A i \in DOMAIN targets : Fine(targets[i])
    <3> HIDE DEF Fine
    <3> QED
      BY DEF Range
  <2> QED
    BY <2>2, <2>3, <2>4, <2>5
<1>2. QED
  BY <1>1, DocumentInvariant, PTL

-----------------------------------------------------------------------------
(* The reasons.                                                            *)

Reasons == [rank : Nat, certname : Nat, text : Nat]
Ranked(R) == \A e \in R : e.rank \in Nat
LeastFirst(s) == \A i \in DOMAIN s : s[1].rank <= s[i].rank

\* An entry that is inserted joins the others, and the first stays the least.
LEMMA InsertedIsThere ==
  ASSUME NEW R, Ranked(R), NEW s \in Seq(R), NEW x \in R
  PROVE  /\ Inserted(x, s) \in Seq(R)
         /\ Range(Inserted(x, s)) = Range(s) \cup {x}
         /\ LeastFirst(s) => LeastFirst(Inserted(x, s))
<1> DEFINE before == {i \in DOMAIN s : ~Before(x, s[i])}
           n == Cardinality(before)
           l == Len(s)
           t == Inserted(x, s)
<1>1. l \in Nat /\ DOMAIN s = 1 .. l /\ \A i \in 1 .. l : s[i] \in R
  OBVIOUS
<1>2. n \in 0 .. l
  <2>1. before \subseteq 1 .. l
    BY <1>1
  <2> HIDE DEF before, l
  <2>2. IsFiniteSet(1 .. l) /\ Cardinality(1 .. l) = l
    BY <1>1, FS_Interval
  <2>3. n \in Nat /\ n <= l
    BY <2>1, <2>2, FS_Subset, FS_CardinalityType
  <2> QED
    BY <2>3, <1>1
<1>3. n = 0 => before = {}
  <2>1. before \subseteq 1 .. l
    BY <1>1
  <2> HIDE DEF before, l
  <2>2. IsFiniteSet(1 .. l)
    BY <1>1, FS_Interval
  <2>3. IsFiniteSet(before)
    BY <2>1, <2>2, FS_Subset
  <2> QED
    BY <2>3, FS_EmptySet
<1>4. t = [i \in 1 .. l + 1 |-> CASE i <= n -> s[i] [] i = n + 1 -> x [] OTHER -> s[i - 1]]
  BY DEF Inserted
<1> HIDE DEF before, n, l, t
<1>5. /\ DOMAIN t = 1 .. l + 1
      /\ \A i \in 1 .. l + 1 : /\ i <= n => t[i] = s[i]
                               /\ i = n + 1 => t[i] = x
                               /\ i > n + 1 => t[i] = s[i - 1]
  BY <1>1, <1>2, <1>4
<1>6. \A i \in 1 .. l + 1 : \/ i <= n /\ i \in 1 .. l
                            \/ i = n + 1
                            \/ i > n + 1 /\ i - 1 \in 1 .. l
  BY <1>1, <1>2
<1>7. \A i \in 1 .. l + 1 : t[i] \in R
  BY <1>1, <1>5, <1>6
<1>8. t \in Seq(R)
  <2>1. t = [i \in 1 .. l + 1 |-> t[i]]
    BY <1>4
  <2> QED
    BY <1>1, <1>7, <2>1
<1>9. Range(t) = Range(s) \cup {x}
  <2>1. ASSUME NEW i \in 1 .. l + 1 PROVE t[i] = x \/ \E j \in 1 .. l : t[i] = s[j]
    BY <1>5, <1>6
  <2>2. \E i \in 1 .. l + 1 : t[i] = x
    <3>1. n + 1 \in 1 .. l + 1
      BY <1>1, <1>2
    <3> QED
      BY <1>5, <3>1
  <2>3. ASSUME NEW j \in 1 .. l PROVE \E i \in 1 .. l + 1 : t[i] = s[j]
    <3>1. CASE j <= n
      <4>1. j \in 1 .. l + 1
        BY <1>1
      <4> QED
        BY <1>5, <3>1, <4>1
    <3>2. CASE j > n
      <4>1. j + 1 \in 1 .. l + 1 /\ j + 1 > n + 1 /\ (j + 1) - 1 = j
        BY <1>1, <1>2, <3>2
      <4> QED
        BY <1>5, <4>1
    <3> QED
      BY <1>2, <3>1, <3>2
  <2>4. /\ \A o : o \in Range(t) <=> \E i \in 1 .. l + 1 : t[i] = o
        /\ \A o : o \in Range(s) <=> \E j \in 1 .. l : s[j] = o
    BY <1>1, <1>5 DEF Range
  <2>5. \A o : o \in Range(t) <=> o \in Range(s) \/ o = x
    BY <2>1, <2>2, <2>3, <2>4
  <2> QED
    BY <2>5
<1>10. ASSUME LeastFirst(s) PROVE LeastFirst(t)
  <2>1. \A y \in R : /\ Before(x, y) => x.rank <= y.rank
                     /\ ~Before(x, y) => y.rank <= x.rank
    BY DEF Before, Ranked
  <2>2. \A i \in 1 .. l : s[1].rank <= s[i].rank
    BY <1>1, <1>10 DEF LeastFirst
  <2>3. CASE n = 0
    <3>1. \A i \in 1 .. l : x.rank <= s[i].rank
      BY <1>1, <1>3, <2>1, <2>3 DEF before
    <3>2. t[1] = x
      BY <1>1, <1>5, <2>3
    <3>3. ASSUME NEW i \in 1 .. l + 1 PROVE x.rank <= t[i].rank
      <4>1. t[i] = x \/ \E j \in 1 .. l : t[i] = s[j]
        BY <1>5, <1>6
      <4> QED
        BY <3>1, <4>1 DEF Ranked
    <3> QED
      BY <1>5, <3>2, <3>3 DEF LeastFirst
  <2>4. CASE n > 0
    <3>1. 1 \in 1 .. l + 1 /\ 1 \in 1 .. l /\ t[1] = s[1]
      BY <1>1, <1>2, <1>5, <2>4
    <3>2. before # {}
      <4>1. SUFFICES ASSUME before = {} PROVE FALSE
        OBVIOUS
      <4>2. Cardinality({}) = 0
        BY FS_EmptySet
      <4>3. n = 0
        BY <4>1, <4>2 DEF n
      <4> QED
        BY <2>4, <4>3
    <3>3. s[1].rank <= x.rank
      <4>1. PICK i \in 1 .. l : ~Before(x, s[i])
        BY <1>1, <3>2 DEF before
      <4>2. s[i].rank <= x.rank /\ s[1].rank <= s[i].rank
        BY <1>1, <2>1, <2>2, <4>1
      <4>3. s[i].rank \in Nat /\ s[1].rank \in Nat /\ x.rank \in Nat
        BY <1>1, <3>1 DEF Ranked
      <4> QED
        BY <4>2, <4>3
    <3>4. ASSUME NEW i \in 1 .. l + 1 PROVE s[1].rank <= t[i].rank
      <4>1. t[i] = x \/ \E j \in 1 .. l : t[i] = s[j]
        BY <1>5, <1>6
      <4> QED
        BY <2>2, <3>3, <4>1
    <3> QED
      BY <1>5, <3>1, <3>4 DEF LeastFirst
  <2> QED
    BY <1>2, <2>3, <2>4
<1> QED
  BY <1>8, <1>9, <1>10 DEF t

\* Sorting loses nothing, adds nothing, and puts an entry of least rank first.
LEMMA SortedLeastFirst ==
  ASSUME NEW R, Ranked(R), NEW n \in Nat, NEW list, Len(list) = n,
         \A i \in 1 .. n : list[i] \in R
  PROVE  /\ Sorted(list) \in Seq(R)
         /\ Range(Sorted(list)) = {list[i] : i \in 1 .. n}
         /\ LeastFirst(Sorted(list))
<1> DEFINE V == Seq(R)
           Result(f) == [i \in 0 .. n |-> IF i = 0 THEN <<>> ELSE Inserted(list[i], f[i - 1])]
           result == CHOOSE f : f = Result(f)
           round == [i \in 1 .. n |-> [v \in V |-> Inserted(list[i], v)]]
<1>0. n \in Nat
  OBVIOUS
<1>1. Sorted(list) = result[n]
  BY DEF Sorted
<1>2. \A i \in 1 .. n, v \in V : Inserted(list[i], v) \in V
  BY InsertedIsThere
<1>3. <<>> \in V
  BY EmptySeq
<1> HIDE DEF V
<1>4. round \in [1 .. n -> [V -> V]]
  BY <1>2
<1>5. PICK f \in [0 .. n -> V] : f[0] = <<>> /\ \A i \in 1 .. n : f[i] = round[i][f[i - 1]]
  <2> DEFINE e == <<>>
  <2>1. e \in V
    BY <1>3
  <2> HIDE DEF round, e, Result, result
  <2>2. \E f \in [0 .. n -> V] : f[0] = e /\ \A i \in 1 .. n : f[i] = round[i][f[i - 1]]
    BY ONLY <1>0, <1>4, <2>1, Loop
  <2> QED
    BY <2>2 DEF e
<1>6. f = Result(f)
  <2>1. ASSUME NEW i \in 0 .. n PROVE f[i] = Result(f)[i]
    <3>1. CASE i = 0
      BY <1>5, <3>1
    <3>2. CASE i # 0
      <4>1. i \in 1 .. n /\ i - 1 \in 0 .. n
        BY <3>2
      <4>2. f[i - 1] \in V
        BY <4>1
      <4> QED
        BY <1>5, <3>2, <4>1, <4>2
    <3> QED
      BY <3>1, <3>2
  <2>2. DOMAIN f = 0 .. n /\ f = [i \in 0 .. n |-> f[i]]
    OBVIOUS
  <2>3. Result(f) = [i \in 0 .. n |-> Result(f)[i]]
    OBVIOUS
  <2> HIDE DEF Result
  <2> QED
    BY <2>1, <2>2, <2>3
<1>7. result = Result(result)
  BY <1>6
<1> HIDE DEF result, round
<1>8. result[0] = <<>> /\ \A i \in 1 .. n : result[i] = Inserted(list[i], result[i - 1])
  <2>1. \A i \in 0 .. n : result[i] = IF i = 0 THEN <<>> ELSE Inserted(list[i], result[i - 1])
    BY <1>7
  <2> HIDE DEF Result
  <2>2. \A i \in 1 .. n : i \in 0 .. n /\ i # 0
    OBVIOUS
  <2> QED
    BY <2>1, <2>2
<1> HIDE DEF Result
<1> DEFINE These(k) == {list[i] : i \in 1 .. k}
           Sound(k) == result[k] \in V /\ Range(result[k]) = These(k) /\ LeastFirst(result[k])
           T == {k \in Nat : k <= n => Sound(k)}
<1>9. 0 \in T
  <2>1. Range(<<>>) = {} /\ LeastFirst(<<>>)
    BY DEF Range, LeastFirst
  <2>2. These(0) = {}
    OBVIOUS
  <2>3. Sound(0)
    BY <1>3, <1>8, <2>1, <2>2
  <2> HIDE DEF Sound
  <2> QED
    BY <2>3
<1>10. ASSUME NEW k \in T PROVE k + 1 \in T
  <2> SUFFICES ASSUME k + 1 <= n PROVE Sound(k + 1)
    <3> HIDE DEF Sound
    <3> QED
      OBVIOUS
  <2>1. k \in Nat /\ k + 1 \in 1 .. n /\ (k + 1) - 1 = k
    OBVIOUS
  <2>2. Sound(k)
    <3> HIDE DEF Sound
    <3> QED
      OBVIOUS
  <2> DEFINE x == list[k + 1]
             r == result[k]
  <2>3. result[k + 1] = Inserted(x, r)
    BY <1>8, <2>1
  <2>4. r \in Seq(R) /\ x \in R /\ LeastFirst(r) /\ Range(r) = These(k)
    BY <2>1, <2>2 DEF V
  <2>5. These(k + 1) = These(k) \cup {x}
    <3>1. \A i : i \in 1 .. k + 1 <=> (i \in 1 .. k \/ i = k + 1)
      BY <2>1
    <3> QED
      BY <3>1
  <2> HIDE DEF x, r, These
  <2>6. /\ Inserted(x, r) \in Seq(R) /\ Range(Inserted(x, r)) = Range(r) \cup {x}
        /\ LeastFirst(Inserted(x, r))
    BY <2>4, InsertedIsThere
  <2> QED
    BY <2>3, <2>4, <2>5, <2>6 DEF V
<1>11. T = Nat
  <2> HIDE DEF Sound
  <2>1. T \subseteq Nat
    OBVIOUS
  <2> HIDE DEF T
  <2> QED
    BY <1>9, <1>10, <2>1, CountingUp
<1>12. Sound(n)
  <2>1. n \in T
    <3> HIDE DEF T
    <3> QED
      BY <1>0, <1>11
  <2> HIDE DEF Sound
  <2> QED
    BY <2>1
<1> QED
  BY <1>1, <1>12 DEF V

\* What two lists hold together.
LEMMA RangeOfConcat ==
  ASSUME NEW R, NEW a \in Seq(R), NEW b \in Seq(R)
  PROVE  /\ a \o b \in Seq(R)
         /\ Range(a \o b) = Range(a) \cup Range(b)
<1> DEFINE m == Len(a)
           n == Len(b)
           c == a \o b
<1>1. /\ m \in Nat /\ n \in Nat /\ DOMAIN a = 1 .. m /\ DOMAIN b = 1 .. n
      /\ c \in Seq(R) /\ DOMAIN c = 1 .. m + n
      /\ \A i \in 1 .. m + n : c[i] = IF i <= m THEN a[i] ELSE b[i - m]
  OBVIOUS
<1> HIDE DEF m, n, c
<1>2. ASSUME NEW i \in 1 .. m + n
      PROVE  \/ i \in 1 .. m /\ c[i] = a[i]
             \/ i - m \in 1 .. n /\ c[i] = b[i - m]
  BY <1>1
<1>3. \A i \in 1 .. m : i \in 1 .. m + n /\ c[i] = a[i]
  BY <1>1
<1>4. ASSUME NEW i \in 1 .. n PROVE i + m \in 1 .. m + n /\ c[i + m] = b[i]
  <2>1. i + m \in 1 .. m + n /\ ~(i + m <= m) /\ (i + m) - m = i
    BY <1>1
  <2> QED
    BY <1>1, <2>1
<1>5. /\ \A o : o \in Range(a) <=> \E i \in 1 .. m : a[i] = o
      /\ \A o : o \in Range(b) <=> \E i \in 1 .. n : b[i] = o
      /\ \A o : o \in Range(c) <=> \E i \in 1 .. m + n : c[i] = o
  BY <1>1 DEF Range
<1>6. \A o : o \in Range(c) <=> o \in Range(a) \/ o \in Range(b)
  BY <1>2, <1>3, <1>4, <1>5
<1> QED
  BY <1>1, <1>6 DEF c

\* The reasons are about what the class of the run is made of: each error of
\* its own, and each target that is not clean.
LEMMA ReasonsAreGiven ==
  ASSUME DocumentInv
  PROVE  \E R : /\ Ranked(R)
                /\ RunReasons(diagnostics) \o TargetReasons(targets) \in Seq(R)
                /\ \A k : (\E e \in Range(RunReasons(diagnostics) \o TargetReasons(targets)) :
                             e.rank = k)
                            <=> \E o \in Outcomes \ {"clean"} :
                                  Given(targets, diagnostics, o) /\ k = Rank(o)
<1> DEFINE m == Len(diagnostics)
           n == Len(targets)
           own == [i \in 1 .. m |-> [rank |-> Rank(OutcomeForDiagnostic(diagnostics[i])),
                                     certname |-> 0, text |-> diagnostics[i].message]]
           failing == {i \in 1 .. m : Contributes(diagnostics[i])}
           theirs == [i \in 1 .. n |-> [rank |-> Rank(ClassifyOutcome(targets[i])),
                                        certname |-> targets[i].certname,
                                        text |-> OutcomeMessage(targets[i])]]
           unclean == {i \in 1 .. n : ClassifyOutcome(targets[i]) # "clean"}
           R == {own[i] : i \in 1 .. m} \cup {theirs[i] : i \in 1 .. n}
           a == RunReasons(diagnostics)
           b == TargetReasons(targets)
<1>1. /\ m \in Nat /\ n \in Nat /\ DOMAIN targets = 1 .. n
      /\ \A i \in 1 .. n : ClassifyOutcome(targets[i]) \in Outcomes
  BY Shapes
<1>2. a = Kept(own, failing) /\ b = Kept(theirs, unclean)
  BY DEF RunReasons, TargetReasons
<1>3. /\ \A i \in 1 .. m : own[i].rank = Rank(OutcomeForDiagnostic(diagnostics[i]))
      /\ \A i \in 1 .. n : theirs[i].rank = Rank(ClassifyOutcome(targets[i]))
      /\ \A i \in 1 .. m : own[i] \in R
      /\ \A i \in 1 .. n : theirs[i] \in R
  OBVIOUS
<1>4. Len(own) = m /\ Len(theirs) = n
  <2>1. Len(own) = m
    BY <1>1
  <2>2. Len(theirs) = n
    BY <1>1
  <2> QED
    BY <2>1, <2>2
<1>5. Ranked(R)
  <2>1. \A o : Rank(o) \in Nat
    BY DEF Rank
  <2>2. \A e \in R : (\E i \in 1 .. m : e = own[i]) \/ (\E i \in 1 .. n : e = theirs[i])
    OBVIOUS
  <2> HIDE DEF own, theirs, R
  <2> QED
    BY <1>3, <2>1, <2>2 DEF Ranked
<1>6. /\ \A i \in failing : i \in 1 .. m /\ Contributes(diagnostics[i])
      /\ \A i \in 1 .. m : Contributes(diagnostics[i]) => i \in failing
      /\ \A i \in unclean : i \in 1 .. n /\ ClassifyOutcome(targets[i]) # "clean"
      /\ \A i \in 1 .. n : ClassifyOutcome(targets[i]) # "clean" => i \in unclean
  OBVIOUS
<1> HIDE DEF m, n, own, failing, theirs, unclean, R, a, b
<1>7. a \in Seq(R) /\ Range(a) = {own[i] : i \in failing \cap (1 .. m)}
  BY <1>1, <1>2, <1>3, <1>4, KeptAreThose
<1>8. b \in Seq(R) /\ Range(b) = {theirs[i] : i \in unclean \cap (1 .. n)}
  BY <1>1, <1>2, <1>3, <1>4, KeptAreThose
<1>9. a \o b \in Seq(R) /\ Range(a \o b) = Range(a) \cup Range(b)
  BY <1>7, <1>8, RangeOfConcat
<1>10. \A o : ErrorIs(diagnostics, o) => o \in Outcomes \ {"clean"}
  BY DEF ErrorIs, OutcomeForDiagnostic, Outcomes
<1>11. \A o : ErrorIs(diagnostics, o) <=>
               \E i \in failing : OutcomeForDiagnostic(diagnostics[i]) = o
  BY <1>6 DEF ErrorIs, m
<1>12. \A k : (\E e \in Range(a) : e.rank = k) <=> \E o : ErrorIs(diagnostics, o) /\ k = Rank(o)
  BY <1>3, <1>6, <1>7, <1>11
<1>13. \A k : (\E e \in Range(b) : e.rank = k)
               <=> \E i \in 1 .. n : /\ ClassifyOutcome(targets[i]) # "clean"
                                     /\ k = Rank(ClassifyOutcome(targets[i]))
  BY <1>3, <1>6, <1>8
<1>14. \A k : (\E e \in Range(a \o b) : e.rank = k)
               <=> \E o \in Outcomes \ {"clean"} : Given(targets, diagnostics, o) /\ k = Rank(o)
  BY <1>1, <1>9, <1>10, <1>12, <1>13 DEF Given
<1> QED
  BY <1>5, <1>9, <1>14 DEF a, b

\* The first reason, of any document, is of the class that the run is reported
\* with, and a run has none only if it is clean (buildReasons): an entry of
\* least rank comes first, and that is the rank of the class.
THEOREM ReasonsExplain == Spec => []ReasonsExplainOutcome
<1>1. DocumentInv => ReasonsExplainOutcome
  <2> SUFFICES ASSUME DocumentInv, reduced
               PROVE  IF reasons = <<>> THEN outcome = "clean"
                      ELSE reasons[1].rank = Rank(outcome)
    BY DEF ReasonsExplainOutcome
  <2> DEFINE list == RunReasons(diagnostics) \o TargetReasons(targets)
             Explained(k) == \E o \in Outcomes \ {"clean"} :
                               Given(targets, diagnostics, o) /\ k = Rank(o)
  <2>1. reasons = Sorted(list) /\ outcome = Finalize(targets, diagnostics)
    BY DEF DocumentInv, BuildReasons
  <2>2. PICK R : /\ Ranked(R) /\ list \in Seq(R)
                 /\ \A k : (\E e \in Range(list) : e.rank = k) <=> Explained(k)
    BY ReasonsAreGiven
  <2> HIDE DEF list, Explained
  <2>3. /\ reasons \in Seq(R) /\ Range(reasons) = Range(list) /\ LeastFirst(reasons)
    <3>1. Len(list) \in Nat /\ DOMAIN list = 1 .. Len(list)
      BY <2>2
    <3>2. \A i \in 1 .. Len(list) : list[i] \in R
      BY <2>2
    <3>3. /\ Sorted(list) \in Seq(R)
          /\ Range(Sorted(list)) = {list[i] : i \in 1 .. Len(list)}
          /\ LeastFirst(Sorted(list))
      BY <2>2, <3>1, <3>2, SortedLeastFirst
    <3> QED
      BY <2>1, <3>1, <3>3 DEF Range
  <2>4. /\ \A o : Given(targets, diagnostics, o) => Rank(outcome) <= Rank(o)
        /\ \/ Given(targets, diagnostics, outcome)
           \/ outcome = "clean" /\ \A o : ~Given(targets, diagnostics, o)
    BY <2>1, Shapes, FinalizedIsWorst
  <2>5. outcome \in Outcomes
    BY <2>1, Shapes, FinalizedIsOutcome
  <2>6. CASE reasons = <<>>
    <3>1. \A k : ~Explained(k)
      BY <2>2, <2>3, <2>6 DEF Range
    <3> QED
      BY <2>4, <2>5, <2>6, <3>1 DEF Explained
  <2>7. CASE reasons # <<>>
    <3>1. 1 \in DOMAIN reasons /\ reasons[1] \in Range(reasons) /\ reasons[1].rank \in Nat
      <4>1. 1 \in DOMAIN reasons /\ reasons[1] \in R
        BY <2>3, <2>7
      <4> QED
        BY <2>2, <4>1 DEF Range, Ranked
    <3>2. PICK o \in Outcomes \ {"clean"} :
            Given(targets, diagnostics, o) /\ reasons[1].rank = Rank(o)
      BY <2>2, <2>3, <3>1 DEF Explained
    <3>3. Rank(outcome) <= reasons[1].rank
      BY <2>4, <3>2
    <3>4. outcome # "clean" /\ Rank(outcome) \in Nat
      BY <2>4, <3>2, <3>3 DEF Rank, Outcomes
    <3>5. Explained(Rank(outcome))
      BY <2>4, <2>5, <3>4 DEF Explained
    <3>6. PICK e \in Range(reasons) : e.rank = Rank(outcome)
      BY <2>2, <2>3, <3>5
    <3>7. reasons[1].rank <= e.rank
      BY <2>3 DEF LeastFirst, Range
    <3> QED
      BY <2>7, <3>1, <3>3, <3>4, <3>6, <3>7
  <2> QED
    BY <2>6, <2>7
<1>2. QED
  BY <1>1, DocumentInvariant, PTL
=============================================================================
