-------------------------- MODULE AssessmentProofs --------------------------
(***************************************************************************)
(* What holds of every assessment, for every comparison, every reply and   *)
(* every size. What is sent is a prefix of the plan, position by position, *)
(* until and after the plan is cut to it: that is why an id means the same *)
(* group to the request and to Interpret. What is shed is the end of a     *)
(* ranking and its largest values. What sizes add up to plays no part.     *)
(***************************************************************************)
EXTENDS Assessment, OperatorProofs, SequenceTheorems, FiniteSetTheorems, WellFoundedInduction, TLAPS

\* The payload lists the first groups of the plan, under the plan's ids.
PayloadIsPrefix ==
  /\ IsSequence(planned) /\ IsSequence(doc.groups)
  /\ doc = [groups |-> doc.groups, truncated |-> doc.truncated, omitted |-> doc.omitted]
  /\ Len(doc.groups) <= Len(planned)
  /\ \A i \in DOMAIN planned : planned[i] = [id |-> i, group |-> planned[i].group]
  /\ \A i \in DOMAIN doc.groups :
       doc.groups[i] \in [id : {i}, group : {planned[i].group}, omitted : BOOLEAN]

\* Nothing was sent yet, so nothing has come back.
BeforeSending ==
  pc \in {"plan", "fit", "refuse"} => sent = <<>> /\ replies = <<>> /\ told = {}

\* What was sent is the payload, and the plan was cut to it.
SentIsPayload ==
  sent # <<>> =>
    /\ sent = <<sent[1]>> \/ sent = <<sent[1], sent[2]>>
    /\ Last(sent).groups = doc.groups /\ sent[1].groups = doc.groups
    /\ Len(planned) = Len(doc.groups)

\* An answer is awaited: the first, or that of the retry.
Awaiting ==
  pc = "await" =>
    \/ sent = <<sent[1]>> /\ replies = <<>> /\ told = {}
    \/ /\ sent = <<sent[1], sent[2]>>
       /\ replies = <<replies[1]>> /\ replies[1].kind = "unusable"

AssessmentInv ==
  /\ comparison \in Comparison
  /\ pc \in {"plan", "fit", "refuse", "await", "done"}
  /\ replies \in Seq(Replies)
  /\ PayloadIsPrefix
  /\ BeforeSending
  /\ SentIsPayload
  /\ Awaiting
  /\ RequestsStayInBudget
  /\ ErrorMeansUnjudged
  /\ JudgementsAreTheLastReplys

-----------------------------------------------------------------------------
(* Lemmas on sequences and numbers.                                        *)

\* A sequence is a function on 1 .. Len.
LEMMA SequenceShape ==
  ASSUME NEW s, IsSequence(s)
  PROVE  Len(s) \in Nat /\ DOMAIN s = 1 .. Len(s)
BY LenProperties DEF IsSequence

\* A function on 1 .. n is a sequence of length n.
LEMMA FunctionIsSequence ==
  ASSUME NEW s, NEW n \in Nat, s = [i \in 1 .. n |-> s[i]]
  PROVE  IsSequence(s) /\ Len(s) = n /\ DOMAIN s = 1 .. n
<1>1. DOMAIN s = 1 .. n  OBVIOUS
<1> DEFINE T == {s[i] : i \in DOMAIN s}
<1>2. s \in [1 .. n -> T]  BY <1>1
<1>3. s \in Seq(T)  BY <1>2
<1>4. Len(s) = n  BY <1>1, <1>3, LenProperties
<1> QED BY <1>1, <1>3, <1>4 DEF IsSequence

\* The first k elements of a sequence are a sequence of them.
LEMMA PrefixOfSequence ==
  ASSUME NEW s, IsSequence(s), NEW k \in 0 .. Len(s)
  PROVE  /\ IsSequence(SubSeq(s, 1, k))
         /\ Len(SubSeq(s, 1, k)) = k
         /\ DOMAIN SubSeq(s, 1, k) = 1 .. k
         /\ \A i \in 1 .. k : SubSeq(s, 1, k)[i] = s[i]
<1> DEFINE T == {s[i] : i \in DOMAIN s}
           p == SubSeq(s, 1, k)
<1>1. Len(s) \in Nat /\ s \in Seq(T)  BY SequenceShape DEF IsSequence
<1>2. p \in Seq(T) /\ Len(p) = k /\ \A i \in 1 .. k : p[i] = s[i]
  BY <1>1, SubSeqProperties
<1>3. DOMAIN p = 1 .. k  BY <1>2, LenProperties
<1>4. p = [i \in 1 .. k |-> p[i]]  BY <1>2, <1>3
<1>5. IsSequence(p)
  <2> HIDE DEF p
  <2>1. k \in Nat  BY <1>1
  <2> QED BY <1>4, <2>1, FunctionIsSequence
<1> QED BY <1>2, <1>3, <1>5

\* Of the entries for an id, there is a last one.
LEMMA LastEntryExists ==
  ASSUME NEW reply \in Reply, NEW id, Answered(reply, id) # {}
  PROVE  Max(Answered(reply, id)) \in Answered(reply, id)
<1> DEFINE A == Answered(reply, id)
           n == Len(reply.entries)
           Gaps == {n - k : k \in A}
<1>1. n \in Nat /\ A \subseteq 1 .. n
  BY LenProperties DEF Reply, Answered
<1>2. Gaps \subseteq Nat /\ Gaps # {}  BY <1>1
<1>3. PICK g \in Gaps : \A h \in Gaps : g <= h
  BY <1>2, LeastNumber
<1>4. PICK k \in A : g = n - k  BY <1>3
<1>5. \A j \in A : k >= j
  <2> TAKE j \in A
  <2>1. n - k <= n - j  BY <1>3, <1>4
  <2> QED BY <2>1, <1>1
<1>6. \E x \in A : \A y \in A : x >= y  BY <1>5
<1> QED BY <1>6 DEF Max

-----------------------------------------------------------------------------
(* AssessmentInv is inductive.                                             *)

\* PlanGroups numbers its groups from 1, whatever the ranking.
LEMMA PlanIsNumbered ==
  ASSUME NEW c \in Comparison
  PROVE  /\ IsSequence(PlanGroups(c)) /\ IsSequence(Carried(PlanGroups(c)))
         /\ Len(Carried(PlanGroups(c))) = Len(PlanGroups(c))
         /\ \A i \in DOMAIN PlanGroups(c) :
              PlanGroups(c)[i] = [id |-> i, group |-> PlanGroups(c)[i].group]
         /\ \A i \in DOMAIN Carried(PlanGroups(c)) :
              Carried(PlanGroups(c))[i] \in
                [id : {i}, group : {PlanGroups(c)[i].group}, omitted : BOOLEAN]
<1> DEFINE n == Min({c.maxGroups, Len(c.groups)})
           plan == PlanGroups(c)
           load == Carried(plan)
<1>1. n \in Nat
  <2>1. c.maxGroups \in Nat /\ Len(c.groups) \in Nat  BY LenProperties DEF Comparison
  <2> QED BY <2>1, LeastOfTwo
<1>2. plan = [i \in 1 .. n |-> [id |-> i, group |-> Ranked(c.groups)[i]]]
  BY DEF PlanGroups
<1> HIDE DEF n, plan
<1>3. plan = [i \in 1 .. n |-> plan[i]]  BY <1>2
<1>4. IsSequence(plan) /\ Len(plan) = n /\ DOMAIN plan = 1 .. n
  BY <1>1, <1>3, FunctionIsSequence
<1>5. load = [i \in 1 .. n |-> [id |-> i, group |-> plan[i].group, omitted |-> FALSE]]
  BY <1>2, <1>4 DEF Carried
<1> HIDE DEF load
<1>6. load = [i \in 1 .. n |-> load[i]]  BY <1>5
<1>7. IsSequence(load) /\ Len(load) = n /\ DOMAIN load = 1 .. n
  BY <1>1, <1>6, FunctionIsSequence
<1>8. \A i \in 1 .. n : plan[i] = [id |-> i, group |-> plan[i].group]  BY <1>2
<1>9. \A i \in 1 .. n : load[i] \in [id : {i}, group : {plan[i].group}, omitted : BOOLEAN]
  BY <1>5
<1> QED BY <1>4, <1>7, <1>8, <1>9 DEF plan, load

\* Produce starts with no plan, and with nothing sent.
LEMMA InitEstablishes == Init => AssessmentInv
<1> SUFFICES ASSUME Init PROVE AssessmentInv  OBVIOUS
<1> USE DEF Init
<1>1. IsSequence(<<>>) /\ Len(<<>>) = 0  BY DEF IsSequence
<1>2. comparison \in Comparison  BY InputsHaveShape
<1>3. PayloadIsPrefix  BY <1>1 DEF PayloadIsPrefix
<1>4. RequestsStayInBudget  BY DEF RequestsStayInBudget
<1> QED BY <1>2, <1>3, <1>4
        DEF AssessmentInv, BeforeSending, SentIsPayload, Awaiting,
            ErrorMeansUnjudged, JudgementsAreTheLastReplys

\* Planning makes the payload of the very plan it keeps.
LEMMA PlanKeeps == AssessmentInv /\ Plan => AssessmentInv'
<1> SUFFICES ASSUME AssessmentInv, Plan PROVE AssessmentInv'  OBVIOUS
<1> USE DEF AssessmentInv, Plan
<1>1. PayloadIsPrefix'
  <2>1. comparison' = comparison /\ comparison \in Comparison  OBVIOUS
  <2>2. /\ planned' = PlanGroups(comparison)
        /\ doc'.groups = Carried(PlanGroups(comparison))
        /\ doc' = [groups |-> doc'.groups, truncated |-> doc'.truncated,
                   omitted |-> doc'.omitted]
    OBVIOUS
  <2>3. Len(planned') \in Nat  BY <2>1, <2>2, PlanIsNumbered, SequenceShape
  <2>4. \A i \in DOMAIN doc'.groups :
          doc'.groups[i] \in [id : {i}, group : {planned'[i].group}, omitted : BOOLEAN]
    BY <2>1, <2>2, PlanIsNumbered
  <2> QED BY <2>1, <2>2, <2>3, <2>4, PlanIsNumbered DEF PayloadIsPrefix
<1>2. sent' = <<>> /\ replies' = <<>> /\ told' = {} /\ pc' \in {"refuse", "fit"}
  BY DEF BeforeSending
<1>3. RequestsStayInBudget'  BY <1>2 DEF RequestsStayInBudget
<1> QED BY <1>1, <1>2, <1>3
        DEF BeforeSending, SentIsPayload, Awaiting, ErrorMeansUnjudged,
            JudgementsAreTheLastReplys

\* While the payload is fitted nothing is sent, and what is not the payload
\* stays as it is.
LEMMA FittingKeeps ==
  ASSUME AssessmentInv, PayloadIsPrefix', pc = "fit", pc' \in {"fit", "refuse"},
         UNCHANGED <<comparison, sent, replies, artifact, told>>
  PROVE  AssessmentInv'
<1>1. sent' = <<>> /\ replies' = <<>> /\ told' = {}
  BY DEF AssessmentInv, BeforeSending
<1>2. RequestsStayInBudget'  BY <1>1 DEF RequestsStayInBudget
<1> QED BY <1>1, <1>2
        DEF AssessmentInv, BeforeSending, SentIsPayload, Awaiting, ErrorMeansUnjudged,
            JudgementsAreTheLastReplys

\* Omitting a value moves no group.
LEMMA OmitValueKeeps == AssessmentInv /\ OmitValue => AssessmentInv'
<1> SUFFICES ASSUME AssessmentInv, OmitValue PROVE AssessmentInv'  OBVIOUS
<1> DEFINE gs == doc.groups
<1>1. PICK i \in Valued(doc) :
        doc' = [doc EXCEPT !.groups[i].omitted = TRUE, !.omitted = @ + 1]
  BY DEF OmitValue
<1>2. PayloadIsPrefix /\ planned' = planned  BY DEF AssessmentInv, OmitValue
<1>3. i \in DOMAIN gs  BY DEF Valued
<1>4. Len(gs) \in Nat /\ DOMAIN gs = 1 .. Len(gs)
  BY <1>2, SequenceShape DEF PayloadIsPrefix
<1>5. /\ doc'.groups = [gs EXCEPT ![i] = [gs[i] EXCEPT !.omitted = TRUE]]
      /\ doc' = [groups |-> doc'.groups, truncated |-> doc'.truncated, omitted |-> doc'.omitted]
  BY <1>1, <1>2 DEF PayloadIsPrefix
<1>6. [gs[i] EXCEPT !.omitted = TRUE] \in
        [id : {i}, group : {planned[i].group}, omitted : BOOLEAN]
  <2>1. gs[i] \in [id : {i}, group : {planned[i].group}, omitted : BOOLEAN]
    BY <1>2, <1>3 DEF PayloadIsPrefix
  <2> QED BY <2>1
<1>7. doc'.groups = [j \in 1 .. Len(gs) |-> doc'.groups[j]]  BY <1>4, <1>5
<1>8. IsSequence(doc'.groups) /\ Len(doc'.groups) = Len(gs) /\ DOMAIN doc'.groups = DOMAIN gs
  BY <1>4, <1>7, FunctionIsSequence
<1>9. \A j \in DOMAIN gs :
        doc'.groups[j] \in [id : {j}, group : {planned[j].group}, omitted : BOOLEAN]
  <2> TAKE j \in DOMAIN gs
  <2>1. CASE j = i  BY <2>1, <1>3, <1>5, <1>6
  <2>2. CASE j # i  BY <2>2, <1>2, <1>5 DEF PayloadIsPrefix
  <2> QED BY <2>1, <2>2
<1>10. PayloadIsPrefix'  BY <1>2, <1>5, <1>8, <1>9 DEF PayloadIsPrefix
<1> QED BY <1>10, FittingKeeps DEF OmitValue

\* The last group goes, so the others keep their places.
LEMMA ShedGroupKeeps == AssessmentInv /\ ShedGroup => AssessmentInv'
<1> SUFFICES ASSUME AssessmentInv, ShedGroup PROVE AssessmentInv'  OBVIOUS
<1> DEFINE gs == doc.groups
<1>1. PayloadIsPrefix /\ planned' = planned  BY DEF AssessmentInv, ShedGroup
<1>2. Len(gs) \in Nat /\ DOMAIN gs = 1 .. Len(gs) /\ Len(planned) \in Nat
  BY <1>1, SequenceShape DEF PayloadIsPrefix
<1>3. Len(gs) # 0
  <2>1. gs # <<>>  BY DEF ShedGroup
  <2>2. gs \in Seq({gs[i] : i \in DOMAIN gs})  BY <1>1 DEF PayloadIsPrefix, IsSequence
  <2> QED BY <2>1, <2>2, EmptySeq
<1>4. /\ doc'.groups = SubSeq(gs, 1, Len(gs) - 1)
      /\ doc' = [groups |-> doc'.groups, truncated |-> doc'.truncated, omitted |-> doc'.omitted]
  BY DEF ShedGroup, Front
<1>5. Len(gs) - 1 \in 0 .. Len(gs)  BY <1>2, <1>3
<1>6. /\ IsSequence(doc'.groups) /\ Len(doc'.groups) = Len(gs) - 1
      /\ DOMAIN doc'.groups = 1 .. (Len(gs) - 1)
      /\ \A i \in 1 .. (Len(gs) - 1) : doc'.groups[i] = gs[i]
  <2>1. IsSequence(gs)  BY <1>1 DEF PayloadIsPrefix
  <2> HIDE DEF gs
  <2> QED BY <2>1, <1>4, <1>5, PrefixOfSequence
<1>7. 1 .. (Len(gs) - 1) \subseteq DOMAIN gs  BY <1>2
<1>8. PayloadIsPrefix'  BY <1>1, <1>2, <1>4, <1>6, <1>7 DEF PayloadIsPrefix
<1> QED BY <1>8, FittingKeeps DEF ShedGroup

\* A request that cannot be built leaves the payload as it was.
LEMMA RefusalKeeps == AssessmentInv /\ (NothingFits \/ TooLarge) => AssessmentInv'
<1> SUFFICES ASSUME AssessmentInv, NothingFits \/ TooLarge PROVE AssessmentInv'  OBVIOUS
<1>1. PayloadIsPrefix'  BY DEF AssessmentInv, NothingFits, TooLarge, PayloadIsPrefix
<1> QED BY <1>1, FittingKeeps DEF NothingFits, TooLarge

\* The plan is cut to the payload before the request is sent.
LEMMA SendKeeps == AssessmentInv /\ Send => AssessmentInv'
<1> SUFFICES ASSUME AssessmentInv, Send PROVE AssessmentInv'  OBVIOUS
<1> DEFINE k == Len(doc.groups)
<1>1. PayloadIsPrefix /\ doc' = doc /\ planned' = SubSeq(planned, 1, k)
  BY DEF AssessmentInv, Send
<1>2. k \in 0 .. Len(planned) /\ DOMAIN doc.groups = 1 .. k
  BY <1>1, SequenceShape DEF PayloadIsPrefix
<1>3. /\ IsSequence(planned') /\ Len(planned') = k /\ DOMAIN planned' = 1 .. k
      /\ \A i \in 1 .. k : planned'[i] = planned[i]
  BY <1>1, <1>2, PrefixOfSequence DEF PayloadIsPrefix
<1>4. 1 .. k \subseteq DOMAIN planned
  BY <1>1, <1>2, SequenceShape DEF PayloadIsPrefix
<1>5. PayloadIsPrefix'
  <2>1. k <= Len(planned')  BY <1>2, <1>3
  <2> QED BY <1>1, <1>2, <1>3, <1>4, <2>1 DEF PayloadIsPrefix
<1>6. /\ sent' = <<sent'[1]>> /\ sent' # <<>> /\ Last(sent') = sent'[1] /\ Len(sent') = 1
      /\ sent'[1].groups = doc.groups /\ sent'[1].size = RequestSize(doc)
  BY DEF Send, Last
<1>7. RequestsStayInBudget'
  <2>1. sent'[1].size <= Limit  BY <1>6 DEF Send, WithinLimit
  <2> QED BY <1>6, <2>1 DEF RequestsStayInBudget
<1>8. replies' = <<>> /\ told' = {} /\ pc' = "await"
  BY DEF AssessmentInv, BeforeSending, Send
<1> QED BY <1>1, <1>3, <1>5, <1>6, <1>7, <1>8
        DEF AssessmentInv, Send, BeforeSending, SentIsPayload, Awaiting,
            ErrorMeansUnjudged, JudgementsAreTheLastReplys

\* However an assessment ends: what was sent stays, and the last two
\* properties are those of the artifact.
LEMMA FinishKeeps ==
  ASSUME AssessmentInv, NEW a, NEW plan, NEW d, NEW ds, Finish(a, plan, d, ds),
         UNCHANGED sent, replies' \in Seq(Replies),
         Len(sent) = 2 => replies'[1] = replies[1],
         ErrorMeansUnjudged', JudgementsAreTheLastReplys'
  PROVE  AssessmentInv'
<1>1. PayloadIsPrefix'  BY DEF AssessmentInv, Finish, PayloadIsPrefix
<1>2. SentIsPayload'  BY DEF AssessmentInv, Finish, SentIsPayload
<1>3. RequestsStayInBudget'  BY DEF AssessmentInv, RequestsStayInBudget
<1> QED BY <1>1, <1>2, <1>3 DEF AssessmentInv, Finish, BeforeSending, Awaiting

\* Nothing in an unjudged artifact is a judgement.
LEMMA UnjudgedIsUnknown ==
  ASSUME NEW plan, NEW d, NEW ds, Finish(Unjudged(plan), plan, d, ds)
  PROVE  /\ artifact'.run = "unknown" /\ artifact'.summary = <<>>
         /\ \A g \in Range(artifact'.groups) : g.risk = "unknown"
BY DEF Finish, Unjudged, Range

\* An assessment that is refused sent nothing and judges nothing.
LEMMA RefuseKeeps == AssessmentInv /\ Refuse => AssessmentInv'
<1> SUFFICES ASSUME AssessmentInv, Refuse PROVE AssessmentInv'  OBVIOUS
<1>1. sent = <<>> /\ replies = <<>>  BY DEF AssessmentInv, BeforeSending, Refuse
<1>2. PICK d : Finish(Unjudged(planned), planned, d, {Error("build")})  BY DEF Refuse
<1>3. HasError(told')  BY <1>2 DEF Finish, HasError, Error
<1>4. ErrorMeansUnjudged'
  BY <1>1, <1>2, <1>3, UnjudgedIsUnknown DEF ErrorMeansUnjudged, Refuse
<1>5. JudgementsAreTheLastReplys'  BY <1>3 DEF JudgementsAreTheLastReplys
<1>6. UNCHANGED <<sent, replies>> /\ replies \in Seq(Replies)
  BY DEF Refuse, AssessmentInv
<1> QED BY <1>1, <1>2, <1>4, <1>5, <1>6, FinishKeeps

\* A sequence of two is not a sequence of one.
LEMMA TwoIsNotOne ==
  ASSUME NEW s, NEW x, Len(s) = 2
  PROVE  s # <<x>>
<1>1. SUFFICES ASSUME s = <<x>> PROVE FALSE  OBVIOUS
<1>2. Len(<<x>>) = 1  OBVIOUS
<1>3. Len(s) = Len(<<x>>)  BY <1>1, Zenon
<1> QED BY <1>2, <1>3

\* A reply is appended to what came back.
LEMMA ReplyIsLast ==
  ASSUME AssessmentInv, NEW reply \in Replies, pc = "await",
         replies' = Append(replies, reply)
  PROVE  /\ reply \in Reply
         /\ replies' \in Seq(Replies) /\ replies' # <<>> /\ Last(replies') = reply
         /\ sent # <<>>
         /\ Len(sent) = 2 => replies'[1] = replies[1]
<1>1. replies \in Seq(Replies)  BY DEF AssessmentInv
<1>2. /\ replies' \in Seq(Replies) /\ Len(replies') = Len(replies) + 1
      /\ replies'[Len(replies) + 1] = reply
      /\ \A i \in 1 .. Len(replies) : replies'[i] = replies[i]
  BY <1>1, AppendProperties
<1>3. Last(replies') = reply  BY <1>2 DEF Last
<1>4. replies' # <<>>  BY <1>1, <1>2, LenProperties
<1>5. ASSUME Len(sent) = 2 PROVE replies'[1] = replies[1]
  <2>1. sent # <<sent[1]>>  BY <1>5, TwoIsNotOne
  <2>2. replies = <<replies[1]>>  BY <2>1 DEF AssessmentInv, Awaiting
  <2>3. Len(replies) = 1  BY <2>2
  <2> QED BY <1>2, <2>3
<1>6. sent # <<>>  BY DEF AssessmentInv, Awaiting
<1> QED BY <1>2, <1>3, <1>4, <1>5, <1>6, InputsHaveShape

\* An assessment that ends without a reply it can use.
LEMMA UnusedKeeps ==
  ASSUME AssessmentInv, NEW reply \in Replies, pc = "await",
         replies' = Append(replies, reply), reply.kind # "usable", UNCHANGED sent,
         NEW ds, HasError(ds), Finish(Unjudged(planned), planned, doc, ds)
  PROVE  AssessmentInv'
<1>1. HasError(told')  BY DEF Finish
<1>2. /\ replies' \in Seq(Replies) /\ replies' # <<>> /\ Last(replies').kind # "usable"
      /\ Len(sent) = 2 => replies'[1] = replies[1]
  BY ReplyIsLast
<1>3. ErrorMeansUnjudged'  BY <1>1, <1>2, UnjudgedIsUnknown DEF ErrorMeansUnjudged
<1>4. JudgementsAreTheLastReplys'  BY <1>1 DEF JudgementsAreTheLastReplys
<1> QED BY <1>2, <1>3, <1>4, FinishKeeps

\* One error is enough for an assessment to have failed.
LEMMA ErrorIsError ==
  ASSUME NEW about, NEW ds, Error(about) \in ds
  PROVE  HasError(ds)
<1>1. Error(about).severity = "error"  BY DEF Error
<1> QED BY <1>1 DEF HasError

\* A reply that cannot be used is an error.
LEMMA UnusableIsError ==
  ASSUME NEW reply, NEW plan, reply.kind = "unusable"
  PROVE  Error("reply") \in Problems(reply, plan)
BY DEF Problems

\* A request that failed judges nothing.
LEMMA FailedKeeps ==
  ASSUME AssessmentInv, NEW reply \in Replies, pc = "await",
         replies' = Append(replies, reply), Failed(reply)
  PROVE  AssessmentInv'
<1>1. HasError(Downgrade(told) \cup {Error("request")})  BY ErrorIsError
<1> QED BY <1>1, UnusedKeeps DEF Failed

\* An unusable reply that cannot be asked again judges nothing.
LEMMA NoRetryKeeps ==
  ASSUME AssessmentInv, NEW reply \in Replies, pc = "await",
         replies' = Append(replies, reply), NoRetry(reply)
  PROVE  AssessmentInv'
<1>1. HasError(Problems(reply, planned) \cup {Error("retry size")})
  BY ErrorIsError
<1> QED BY <1>1, UnusedKeeps DEF NoRetry

\* A second unusable reply judges nothing.
LEMMA GiveUpKeeps ==
  ASSUME AssessmentInv, NEW reply \in Replies, pc = "await",
         replies' = Append(replies, reply), GiveUp(reply)
  PROVE  AssessmentInv'
<1>1. HasError(Downgrade(told) \cup Problems(reply, planned))
  BY UnusableIsError, ErrorIsError DEF GiveUp
<1> QED BY <1>1, UnusedKeeps DEF GiveUp

\* The second request is the first with a message more.
LEMMA RetryKeeps ==
  ASSUME AssessmentInv, NEW reply \in Replies, pc = "await",
         replies' = Append(replies, reply), Retry(reply)
  PROVE  AssessmentInv'
<1>1. sent = <<sent[1]>> /\ sent # <<>> /\ replies = <<>>
  BY DEF AssessmentInv, Awaiting, Retry, First
<1>2. /\ replies' = <<reply>> /\ replies' \in Seq(Replies)
      /\ replies'[1] = reply /\ reply.kind = "unusable"
  BY <1>1 DEF Retry
<1>3. /\ sent' = <<sent[1], sent'[2]>> /\ Len(sent') = 2 /\ sent' # <<>>
      /\ sent'[1] = sent[1] /\ Last(sent') = sent'[2]
      /\ sent'[2].groups = sent[1].groups
      /\ sent'[2].size = sent[1].size + RetryMessage
  BY DEF Retry, Last
<1>4. RequestsStayInBudget'
  <2>1. sent'[1].size <= Limit
    BY <1>1, <1>3 DEF AssessmentInv, RequestsStayInBudget
  <2>2. sent'[2].size <= Limit  BY <1>3 DEF Retry, RetryFits
  <2>3. \A i \in DOMAIN sent' : i = 1 \/ i = 2  BY <1>3
  <2> QED BY <1>2, <1>3, <2>1, <2>2, <2>3 DEF RequestsStayInBudget
<1>5. /\ UNCHANGED <<comparison, pc, planned, doc, artifact>>
      /\ pc' = "await"
  BY DEF Retry
<1>6. PayloadIsPrefix'  BY <1>5 DEF AssessmentInv, PayloadIsPrefix
<1>7. SentIsPayload'
  <2>1. sent[1].groups = doc.groups /\ Len(planned) = Len(doc.groups)
    BY <1>1 DEF AssessmentInv, SentIsPayload
  <2>2. sent' = <<sent'[1], sent'[2]>>  BY <1>3
  <2> QED BY <1>3, <1>5, <2>1, <2>2 DEF SentIsPayload
<1>8. Awaiting'  BY <1>2, <1>3 DEF Awaiting
<1> QED BY <1>2, <1>4, <1>5, <1>6, <1>7, <1>8
        DEF AssessmentInv, BeforeSending, ErrorMeansUnjudged, JudgementsAreTheLastReplys

\* What is told of a reply that is used is warnings, whatever was told before.
LEMMA UsableIsNoError ==
  ASSUME NEW reply, NEW plan, NEW before, reply.kind = "usable"
  PROVE  ~HasError(Downgrade(before) \cup Problems(reply, plan))
<1> SUFFICES ASSUME NEW d \in Downgrade(before) \cup Problems(reply, plan)
             PROVE  d.severity # "error"
  BY DEF HasError
<1>1. \E about : d = Warning(about)
  BY DEF Downgrade, Problems, Doubts
<1> QED BY <1>1 DEF Warning

\* A risk is what one of the entries for the id says, if there are any.
LEMMA RiskIsAnswered ==
  ASSUME NEW reply \in Reply, NEW id
  PROVE  LET said == {e \in Range(reply.entries) : e.id = id}
         IN  IF said = {} THEN RiskOf(reply, id) = "unknown"
             ELSE RiskOf(reply, id) \in {ValidRisk(e.risk) : e \in said}
<1> DEFINE said == {e \in Range(reply.entries) : e.id = id}
           k == Max(Answered(reply, id))
<1>1. CASE Answered(reply, id) = {}
  <2>1. said = {}  BY <1>1 DEF Answered, Range
  <2>2. RiskOf(reply, id) = "unknown"  BY <1>1 DEF RiskOf
  <2> QED BY <2>1, <2>2
<1>2. CASE Answered(reply, id) # {}
  <2>1. k \in Answered(reply, id)  BY <1>2, LastEntryExists
  <2>2. RiskOf(reply, id) = ValidRisk(reply.entries[k].risk)  BY <1>2 DEF RiskOf
  <2> HIDE DEF k
  <2>3. reply.entries[k] \in said  BY <2>1 DEF Answered, Range
  <2> QED BY <2>2, <2>3
<1> QED BY <1>1, <1>2

\* A usable reply is read against the plan it was asked with.
LEMMA AcceptKeeps ==
  ASSUME AssessmentInv, NEW reply \in Replies, pc = "await",
         replies' = Append(replies, reply), Accept(reply)
  PROVE  AssessmentInv'
<1>1. /\ reply \in Reply /\ reply.kind = "usable" /\ sent # <<>>
      /\ replies' \in Seq(Replies) /\ replies' # <<>> /\ Last(replies') = reply
      /\ Len(sent) = 2 => replies'[1] = replies[1]
  BY ReplyIsLast DEF Accept
<1>2. ~HasError(told')  BY <1>1, UsableIsNoError DEF Accept, Finish
<1>3. ErrorMeansUnjudged'  BY <1>1, <1>2 DEF ErrorMeansUnjudged
<1>4. PayloadIsPrefix /\ Len(planned) = Len(doc.groups) /\ Asked' = doc.groups
  BY <1>1 DEF AssessmentInv, SentIsPayload, Asked, Accept
<1>5. DOMAIN doc.groups = DOMAIN planned
  BY <1>4, SequenceShape DEF PayloadIsPrefix
<1>6. artifact'.groups = [i \in DOMAIN planned |->
                            [group |-> planned[i].group, risk |-> RiskOf(reply, planned[i].id)]]
  BY DEF Accept, Finish, Judged
<1>7. ASSUME NEW g \in Range(artifact'.groups)
      PROVE  \E p \in Range(doc.groups) :
               LET said == {e \in Range(reply.entries) : e.id = p.id}
               IN  /\ p.group = g.group
                   /\ IF said = {} THEN g.risk = "unknown"
                      ELSE g.risk \in {ValidRisk(e.risk) : e \in said}
  <2>1. PICK i \in DOMAIN planned :
          g.group = planned[i].group /\ g.risk = RiskOf(reply, planned[i].id)
    BY <1>6 DEF Range
  <2>2. planned[i].id = i  BY <1>4 DEF PayloadIsPrefix
  <2>3. doc.groups[i].id = i /\ doc.groups[i].group = planned[i].group
    BY <1>4, <1>5 DEF PayloadIsPrefix
  <2>4. doc.groups[i] \in Range(doc.groups)  BY <1>5 DEF Range
  <2> DEFINE said == {e \in Range(reply.entries) : e.id = i}
  <2>5. IF said = {} THEN g.risk = "unknown"
        ELSE g.risk \in {ValidRisk(e.risk) : e \in said}
    BY <1>1, <2>1, <2>2, RiskIsAnswered
  <2> QED BY <2>1, <2>3, <2>4, <2>5
<1>8. JudgementsAreTheLastReplys'
  BY <1>1, <1>4, <1>7 DEF JudgementsAreTheLastReplys
<1> QED BY <1>1, <1>3, <1>8, FinishKeeps DEF Accept

\* Whatever comes back is one of these.
LEMMA ReceiveKeeps ==
  AssessmentInv /\ (\E reply \in Replies : Receive(reply)) => AssessmentInv'
<1> SUFFICES ASSUME AssessmentInv, NEW reply \in Replies, Receive(reply)
             PROVE  AssessmentInv'
  OBVIOUS
<1>1. pc = "await" /\ replies' = Append(replies, reply)  BY DEF Receive
<1>2. CASE Failed(reply)   BY <1>1, <1>2, FailedKeeps
<1>3. CASE Retry(reply)    BY <1>1, <1>3, RetryKeeps
<1>4. CASE NoRetry(reply)  BY <1>1, <1>4, NoRetryKeeps
<1>5. CASE GiveUp(reply)   BY <1>1, <1>5, GiveUpKeeps
<1>6. CASE Accept(reply)   BY <1>1, <1>6, AcceptKeeps
<1> QED BY <1>2, <1>3, <1>4, <1>5, <1>6 DEF Receive

\* Nothing changes when nothing happens.
LEMMA StutterKeeps == AssessmentInv /\ UNCHANGED vars => AssessmentInv'
<1> SUFFICES ASSUME AssessmentInv, UNCHANGED vars PROVE AssessmentInv'  OBVIOUS
<1> USE DEF AssessmentInv, vars
<1>1. PayloadIsPrefix'  BY DEF PayloadIsPrefix
<1>2. BeforeSending' /\ SentIsPayload' /\ Awaiting'
  BY DEF BeforeSending, SentIsPayload, Awaiting
<1>3. RequestsStayInBudget' /\ ErrorMeansUnjudged'
  BY DEF RequestsStayInBudget, ErrorMeansUnjudged
<1>4. JudgementsAreTheLastReplys'  BY DEF JudgementsAreTheLastReplys, Asked
<1> QED BY <1>1, <1>2, <1>3, <1>4

-----------------------------------------------------------------------------
(* How a payload sheds evidence, and what the artifact tells of it.        *)

\* The number of groups that are planned.
Room(c) == Min({c.maxGroups, Len(c.groups)})

\* The plan lists groups as they are ranked, and the payload is part of it.
PlanIsRanked ==
  /\ Len(doc.groups) <= Room(comparison)
  /\ \A i \in DOMAIN planned : planned[i].group = Ranked(comparison.groups)[i]

\* No group without its values is smaller than one that still has its own.
LargestFirst ==
  \A i \in DOMAIN doc.groups : \A j \in Valued(doc) :
    doc.groups[i].omitted =>
      EncodedSize(doc.groups[j].group) <= EncodedSize(doc.groups[i].group)

\* A group goes when there is no value left.
ValuesBeforeGroups == Len(doc.groups) < Room(comparison) => Valued(doc) = {}

\* The payload's own account of what it lacks.
PayloadCounts ==
  /\ doc.omitted = Cardinality({i \in DOMAIN doc.groups : doc.groups[i].omitted})
  /\ doc.truncated <=> Len(doc.groups) < Len(comparison.groups)

\* An artifact that was asked for has the groups of the plan, in its order,
\* and the payload's account.
ArtifactIsOfPayload ==
  pc = "done" /\ sent # <<>> =>
    /\ DOMAIN artifact.groups = DOMAIN planned
    /\ \A i \in DOMAIN planned : artifact.groups[i].group = planned[i].group
    /\ artifact.assessed = Len(planned)
    /\ artifact.total = Len(comparison.groups)
    /\ artifact.truncated = doc.truncated
    /\ artifact.omitted = doc.omitted

SheddingInv ==
  /\ pc # "plan" => PlanIsRanked /\ LargestFirst /\ ValuesBeforeGroups /\ PayloadCounts
  /\ ArtifactIsOfPayload

\* Ranking arranges the groups it is given, widest reach first.
LEMMA RankedWidestFirst ==
  ASSUME NEW gs \in Seq(Groups)
  PROVE  /\ DOMAIN gs = 1 .. Len(gs) /\ Len(gs) \in Nat
         /\ \A i \in DOMAIN gs : Ranked(gs)[i] \in Groups /\ Ranked(gs)[i] \in Range(gs)
         /\ \A j \in DOMAIN gs : \E i \in DOMAIN gs : Ranked(gs)[i] = gs[j]
         /\ \A i, j \in DOMAIN gs : i < j => Ranked(gs)[j].reach <= Ranked(gs)[i].reach
<1> DEFINE D == DOMAIN gs
           R == GoesBefore(gs)
           order == Arranged(D, R)
           n == Len(gs)
<1>1. n \in Nat /\ D = 1 .. n /\ \A i \in D : gs[i] \in Groups
  BY LenProperties
<1>2. \A i \in D : gs[i].reach \in Nat /\ gs[i].key \in Nat  BY <1>1 DEF Groups
<1>3. \A i, j \in D :
        <<i, j>> \in R <=> \/ gs[i].reach > gs[j].reach
                           \/ gs[i].reach = gs[j].reach /\ gs[i].key < gs[j].key
                           \/ gs[i].reach = gs[j].reach /\ gs[i].key = gs[j].key /\ i < j
  <2> TAKE i, j \in D
  <2>1. <<i, j>> \in R <=> \/ Outranks(gs[i], gs[j])
                           \/ (~Outranks(gs[j], gs[i]) /\ i < j)
    BY DEF GoesBefore
  <2> QED BY <2>1, <1>1, <1>2 DEF Outranks
<1> HIDE DEF D, R, n
<1>4. StrictOrder(R, D)
  <2>0. \A x \in D : x \in Nat /\ gs[x].reach \in Nat /\ gs[x].key \in Nat  BY <1>1, <1>2
  <2>1. \A x \in D : <<x, x>> \notin R  BY <2>0, <1>3
  <2>2. ASSUME NEW x \in D, NEW y \in D, NEW z \in D, <<x, y>> \in R, <<y, z>> \in R
        PROVE  <<x, z>> \in R
    <3> DEFINE Before(i, j) ==
          \/ gs[i].reach > gs[j].reach
          \/ gs[i].reach = gs[j].reach /\ gs[i].key < gs[j].key
          \/ gs[i].reach = gs[j].reach /\ gs[i].key = gs[j].key /\ i < j
    <3>1. Before(x, y) /\ Before(y, z)  BY <2>2, <1>3
    <3>2. Before(x, z)  BY <2>0, <3>1
    <3> QED BY <3>2, <1>3
  <2>3. ASSUME NEW x \in D, NEW y \in D, x # y
        PROVE  <<x, y>> \in R \/ <<y, x>> \in R
    BY <2>0, <2>3, <1>3
  <2> QED BY <2>1, <2>2, <2>3 DEF StrictOrder
<1>5. IsFiniteSet(D) /\ Cardinality(D) = n
  BY <1>1, FS_Interval
<1>6. /\ order \in [1 .. n -> D]
      /\ {order[k] : k \in 1 .. n} = D
      /\ \A i, j \in 1 .. n : i < j => <<order[i], order[j]>> \in R
  BY <1>4, <1>5, ArrangedInOrder
<1>7. Ranked(gs) = [i \in D |-> gs[order[i]]]  BY DEF Ranked, D, R
<1> HIDE DEF order
<1>8. \A i \in D : order[i] \in D /\ Ranked(gs)[i] = gs[order[i]]  BY <1>1, <1>6, <1>7
<1>9. \A i \in D : Ranked(gs)[i] \in Groups /\ Ranked(gs)[i] \in Range(gs)
  BY <1>1, <1>8 DEF Range, D
<1>10. \A j \in D : \E i \in D : Ranked(gs)[i] = gs[j]
  <2> TAKE j \in D
  <2>1. PICK i \in D : order[i] = j  BY <1>1, <1>6
  <2> QED BY <2>1, <1>8
<1>11. \A i, j \in D : i < j => Ranked(gs)[j].reach <= Ranked(gs)[i].reach
  <2> SUFFICES ASSUME NEW i \in D, NEW j \in D, i < j
               PROVE  gs[order[j]].reach <= gs[order[i]].reach
    BY <1>8
  <2>1. <<order[i], order[j]>> \in R  BY <1>1, <1>6
  <2>2. order[i] \in D /\ order[j] \in D  BY <1>8
  <2>3. \/ gs[order[i]].reach > gs[order[j]].reach
        \/ gs[order[i]].reach = gs[order[j]].reach
    BY <2>1, <2>2, <1>3
  <2>4. gs[order[i]].reach \in Nat /\ gs[order[j]].reach \in Nat  BY <2>2, <1>2
  <2> QED BY <2>3, <2>4
<1> QED BY <1>1, <1>9, <1>10, <1>11 DEF D, n

\* A plan has room for no more groups than there are.
LEMMA RoomIsBounded ==
  ASSUME NEW c \in Comparison
  PROVE  /\ c.groups \in Seq(Groups) /\ Len(c.groups) \in Nat /\ c.maxGroups \in Nat
         /\ Room(c) \in Nat /\ Room(c) <= Len(c.groups)
         /\ Len(c.groups) > c.maxGroups <=> Room(c) < Len(c.groups)
<1>1. c.groups \in Seq(Groups) /\ Len(c.groups) \in Nat /\ c.maxGroups \in Nat
  BY LenProperties DEF Comparison
<1>2. Room(c) \in Nat /\ Room(c) <= Len(c.groups)
      /\ (Len(c.groups) > c.maxGroups <=> Room(c) < Len(c.groups))
  BY <1>1, LeastOfTwo DEF Room
<1> QED BY <1>1, <1>2

\* A plan is the top of the ranking, and its payload has every value.
LEMMA PlanIsTheTop ==
  ASSUME NEW c \in Comparison
  PROVE  /\ Len(PlanGroups(c)) = Room(c)
         /\ \A i \in DOMAIN PlanGroups(c) : PlanGroups(c)[i].group = Ranked(c.groups)[i]
         /\ \A i \in DOMAIN Carried(PlanGroups(c)) : ~Carried(PlanGroups(c))[i].omitted
<1> DEFINE n == Room(c)
           plan == PlanGroups(c)
<1>1. n \in Nat  BY RoomIsBounded
<1>2. plan = [i \in 1 .. n |-> [id |-> i, group |-> Ranked(c.groups)[i]]]
  BY DEF PlanGroups, Room
<1>3. \A i \in DOMAIN Carried(plan) : ~Carried(plan)[i].omitted  BY DEF Carried
<1> HIDE DEF n, plan
<1>4. plan = [i \in 1 .. n |-> plan[i]]  BY <1>2
<1>5. Len(plan) = n /\ DOMAIN plan = 1 .. n  BY <1>1, <1>4, FunctionIsSequence
<1>6. \A i \in DOMAIN plan : plan[i].group = Ranked(c.groups)[i]  BY <1>2, <1>5
<1> QED BY <1>3, <1>5, <1>6 DEF n, plan

\* Nothing is counted where there is nothing to count.
LEMMA NoneCounted ==
  ASSUME NEW S, S = {}
  PROVE  Cardinality(S) = 0
BY FS_EmptySet

\* The plan is the top of the ranking, and all of it is in the payload.
LEMMA PlanSheds == AssessmentInv /\ Plan => SheddingInv'
<1> SUFFICES ASSUME AssessmentInv, Plan PROVE SheddingInv'  OBVIOUS
<1> DEFINE c == comparison
           load == Carried(PlanGroups(c))
<1>1. comparison' = c /\ c \in Comparison  BY DEF AssessmentInv, Plan
<1>2. /\ planned' = PlanGroups(c) /\ doc'.groups = load /\ doc'.omitted = 0
      /\ doc'.truncated = (Len(c.groups) > c.maxGroups)
      /\ pc' \in {"fit", "refuse"}
  BY DEF Plan
<1>3. /\ Len(load) = Room(c) /\ Room(c) \in Nat
      /\ Len(c.groups) > c.maxGroups <=> Room(c) < Len(c.groups)
  BY <1>1, PlanIsNumbered, PlanIsTheTop, RoomIsBounded
<1>4. \A i \in DOMAIN load : ~load[i].omitted  BY <1>1, PlanIsTheTop
<1>5. \A i \in DOMAIN planned' : planned'[i].group = Ranked(c.groups)[i]
  BY <1>1, <1>2, PlanIsTheTop
<1> HIDE DEF c, load
<1>6. PlanIsRanked'  BY <1>1, <1>2, <1>3, <1>5 DEF PlanIsRanked
<1>7. LargestFirst'  BY <1>2, <1>4 DEF LargestFirst
<1>8. ValuesBeforeGroups'  BY <1>1, <1>2, <1>3 DEF ValuesBeforeGroups
<1>9. PayloadCounts'
  <2>1. {i \in DOMAIN load : load[i].omitted} = {}  BY <1>4
  <2>2. Cardinality({i \in DOMAIN load : load[i].omitted}) = 0  BY <2>1, NoneCounted
  <2> QED BY <1>1, <1>2, <1>3, <2>2 DEF PayloadCounts
<1> QED BY <1>2, <1>6, <1>7, <1>8, <1>9 DEF SheddingInv, ArtifactIsOfPayload

\* The groups of the payload are ranked groups, and have sizes.
LEMMA PayloadIsRanked ==
  ASSUME AssessmentInv, SheddingInv, pc # "plan"
  PROVE  /\ IsSequence(doc.groups) /\ Len(doc.groups) \in Nat
         /\ DOMAIN doc.groups = 1 .. Len(doc.groups)
         /\ DOMAIN doc.groups \subseteq DOMAIN comparison.groups
         /\ \A i \in DOMAIN doc.groups :
              /\ doc.groups[i].group = Ranked(comparison.groups)[i]
              /\ EncodedSize(doc.groups[i].group) \in Nat
              /\ doc.groups[i].omitted \in BOOLEAN
<1> DEFINE c == comparison
           gs == doc.groups
<1>1. /\ c \in Comparison /\ PayloadIsPrefix /\ PlanIsRanked
  BY DEF AssessmentInv, SheddingInv
<1>2. /\ IsSequence(gs) /\ Len(gs) \in Nat /\ DOMAIN gs = 1 .. Len(gs)
      /\ DOMAIN planned = 1 .. Len(planned) /\ Len(planned) \in Nat
      /\ Len(gs) <= Len(planned)
  BY <1>1, SequenceShape DEF PayloadIsPrefix
<1>3. /\ c.groups \in Seq(Groups) /\ Len(c.groups) \in Nat
      /\ Room(c) \in Nat /\ Room(c) <= Len(c.groups)
  BY <1>1, RoomIsBounded
<1>4. Len(gs) <= Room(c)  BY <1>1 DEF PlanIsRanked
<1>5. /\ DOMAIN c.groups = 1 .. Len(c.groups)
      /\ \A i \in DOMAIN c.groups : Ranked(c.groups)[i] \in Groups
  BY <1>3, RankedWidestFirst
<1>6. ASSUME NEW i \in DOMAIN gs
      PROVE  /\ i \in DOMAIN c.groups
             /\ gs[i].group = Ranked(c.groups)[i]
             /\ gs[i].omitted \in BOOLEAN
  <2>1. i \in DOMAIN planned /\ i \in DOMAIN c.groups
    BY <1>2, <1>3, <1>4, <1>5
  <2>2. gs[i].group = planned[i].group /\ gs[i].omitted \in BOOLEAN
    BY <1>1 DEF PayloadIsPrefix
  <2> QED BY <1>1, <2>1, <2>2 DEF PlanIsRanked
<1>7. \A i \in DOMAIN gs : EncodedSize(gs[i].group) \in Nat
  <2>1. ASSUME NEW g \in Groups  PROVE EncodedSize(g) \in Nat
    <3>1. g.frame \in Texts /\ g.value \in Texts  BY <2>1 DEF Groups
    <3>2. g.frame.compact \in Nat /\ g.value.compact \in Nat  BY <3>1 DEF Texts
    <3> QED BY <3>2 DEF EncodedSize
  <2>2. \A i \in DOMAIN gs : gs[i].group \in Groups  BY <1>5, <1>6
  <2> QED BY <2>1, <2>2
<1> QED BY <1>2, <1>6, <1>7

\* A payload that was worked on: what happens to the rest of the state.
LEMMA FittingSheds ==
  ASSUME AssessmentInv, SheddingInv, pc = "fit", pc' = "fit",
         UNCHANGED <<comparison, planned>>,
         Len(doc'.groups) <= Len(doc.groups), Len(doc'.groups) \in Nat,
         LargestFirst', ValuesBeforeGroups', PayloadCounts'
  PROVE  SheddingInv'
<1>1. PlanIsRanked /\ comparison \in Comparison  BY DEF SheddingInv, AssessmentInv
<1>2. Room(comparison) \in Nat /\ Len(doc.groups) \in Nat
  BY <1>1, RoomIsBounded, PayloadIsRanked
<1>3. PlanIsRanked'  BY <1>1, <1>2 DEF PlanIsRanked
<1> QED BY <1>3 DEF SheddingInv, ArtifactIsOfPayload

\* The values that go are those of the largest group that has any left.
LEMMA OmitValueSheds == AssessmentInv /\ SheddingInv /\ OmitValue => SheddingInv'
<1> SUFFICES ASSUME AssessmentInv, SheddingInv, OmitValue PROVE SheddingInv'  OBVIOUS
<1> DEFINE gs == doc.groups
           hs == doc'.groups
<1>1. /\ pc = "fit" /\ pc' = "fit" /\ UNCHANGED <<comparison, planned>>
  BY DEF OmitValue
<1>2. PICK i \in Valued(doc) :
        /\ \A j \in Valued(doc) :
             \/ EncodedSize(doc.groups[j].group) < EncodedSize(doc.groups[i].group)
             \/ EncodedSize(doc.groups[j].group) = EncodedSize(doc.groups[i].group) /\ i <= j
        /\ doc' = [doc EXCEPT !.groups[i].omitted = TRUE, !.omitted = @ + 1]
  BY DEF OmitValue
<1>3. /\ i \in DOMAIN gs /\ gs[i].group.value.size > 0 /\ ~gs[i].omitted
  BY <1>2 DEF Valued
<1>4. /\ PayloadIsPrefix /\ LargestFirst /\ ValuesBeforeGroups /\ PayloadCounts
  BY <1>1 DEF AssessmentInv, SheddingInv
<1>5. /\ Len(gs) \in Nat /\ DOMAIN gs = 1 .. Len(gs)
      /\ \A j \in DOMAIN gs : EncodedSize(gs[j].group) \in Nat /\ gs[j].omitted \in BOOLEAN
  BY <1>1, PayloadIsRanked
<1>6. /\ hs = [gs EXCEPT ![i] = [gs[i] EXCEPT !.omitted = TRUE]]
      /\ doc'.omitted = doc.omitted + 1 /\ doc'.truncated = doc.truncated
  BY <1>2, <1>4 DEF PayloadIsPrefix
<1>7. \A j \in DOMAIN gs : gs[j] = [id |-> j, group |-> gs[j].group, omitted |-> gs[j].omitted]
  BY <1>4 DEF PayloadIsPrefix
<1>8. /\ DOMAIN hs = DOMAIN gs
      /\ hs[i].omitted /\ hs[i].group = gs[i].group
      /\ \A j \in DOMAIN gs : j # i => hs[j] = gs[j]
  BY <1>3, <1>6, <1>7
<1>9. Len(hs) = Len(gs)
  <2>1. hs = [j \in 1 .. Len(gs) |-> hs[j]]  BY <1>5, <1>6
  <2> HIDE DEF hs
  <2> QED BY <1>5, <2>1, FunctionIsSequence
<1>10. \A j \in Valued(doc) : EncodedSize(gs[j].group) <= EncodedSize(gs[i].group)
  <2> TAKE j \in Valued(doc)
  <2> DEFINE a == EncodedSize(gs[i].group)
             b == EncodedSize(gs[j].group)
  <2>1. j \in DOMAIN gs  BY DEF Valued
  <2>2. a \in Nat /\ b \in Nat  BY <1>3, <1>5, <2>1
  <2>3. b < a \/ b = a  BY <1>2
  <2> HIDE DEF a, b
  <2>4. b <= a  BY <2>2, <2>3
  <2> QED BY <2>4 DEF a, b
<1>11. LargestFirst'
  <2>1. Valued(doc)' \subseteq Valued(doc) \ {i}  BY <1>8 DEF Valued
  <2> SUFFICES ASSUME NEW p \in DOMAIN hs, NEW q \in Valued(doc)', hs[p].omitted
               PROVE  EncodedSize(hs[q].group) <= EncodedSize(hs[p].group)
    BY DEF LargestFirst, EncodedSize
  <2>2. q \in Valued(doc) /\ q # i /\ q \in DOMAIN gs /\ p \in DOMAIN gs
    BY <1>8, <2>1 DEF Valued
  <2>3. hs[q] = gs[q]  BY <1>8, <2>2
  <2>4. CASE p = i  BY <1>8, <1>10, <2>2, <2>3, <2>4
  <2>5. CASE p # i
    <3>1. hs[p] = gs[p] /\ gs[p].omitted  BY <1>8, <2>2, <2>5
    <3> QED BY <1>4, <2>2, <2>3, <3>1 DEF LargestFirst
  <2> QED BY <2>4, <2>5
<1>12. ValuesBeforeGroups'
  <2>1. ~(Len(gs) < Room(comparison))  BY <1>2, <1>4 DEF ValuesBeforeGroups
  <2> QED BY <1>1, <1>9, <2>1 DEF ValuesBeforeGroups
<1>13. PayloadCounts'
  <2> DEFINE S == {j \in DOMAIN gs : gs[j].omitted}
             T == {j \in DOMAIN hs : hs[j].omitted}
  <2>1. T = S \cup {i} /\ i \notin S  BY <1>3, <1>8
  <2>2. IsFiniteSet(S)
    <3> DEFINE n == Len(gs)
    <3>1. S \subseteq 1 .. n /\ n \in Nat  BY <1>5
    <3> HIDE DEF S, n
    <3>2. IsFiniteSet(1 .. n)  BY <3>1, FS_Interval
    <3> QED BY <3>1, <3>2, FS_Subset
  <2>3. doc.omitted = Cardinality(S)  BY <1>4 DEF PayloadCounts
  <2> HIDE DEF S, T
  <2>4. Cardinality(T) = Cardinality(S) + 1  BY <2>1, <2>2, FS_AddElement
  <2>5. doc'.omitted = Cardinality(T)  BY <1>6, <2>3, <2>4
  <2>6. doc'.truncated <=> Len(hs) < Len(comparison'.groups)
    BY <1>1, <1>4, <1>6, <1>9 DEF PayloadCounts
  <2> QED BY <2>5, <2>6 DEF PayloadCounts, T
<1> QED BY <1>1, <1>5, <1>9, <1>11, <1>12, <1>13, FittingSheds

\* A group goes only after every value, and it is the lowest ranked.
LEMMA ShedGroupSheds == AssessmentInv /\ SheddingInv /\ ShedGroup => SheddingInv'
<1> SUFFICES ASSUME AssessmentInv, SheddingInv, ShedGroup PROVE SheddingInv'  OBVIOUS
<1> DEFINE gs == doc.groups
           hs == doc'.groups
           n == Len(gs)
<1>1. /\ pc = "fit" /\ pc' = "fit" /\ UNCHANGED <<comparison, planned>>
      /\ Valued(doc) = {} /\ gs # <<>>
  BY DEF ShedGroup
<1>2. /\ LargestFirst /\ PayloadCounts /\ PlanIsRanked /\ comparison \in Comparison
  BY <1>1 DEF AssessmentInv, SheddingInv
<1>3. /\ IsSequence(gs) /\ n \in Nat /\ DOMAIN gs = 1 .. n
      /\ \A j \in DOMAIN gs : gs[j].omitted \in BOOLEAN
  BY <1>1, PayloadIsRanked
<1>4. n # 0
  <2>1. gs \in Seq({gs[i] : i \in DOMAIN gs})  BY <1>3 DEF IsSequence
  <2> QED BY <1>1, <2>1, EmptySeq
<1>5. /\ hs = SubSeq(gs, 1, n - 1) /\ doc'.truncated = TRUE
      /\ doc'.omitted = doc.omitted - (IF gs[n].omitted THEN 1 ELSE 0)
  BY DEF ShedGroup, Front, Last
<1> HIDE DEF n
<1>6. n - 1 \in Nat /\ n - 1 < n /\ n - 1 \in 0 .. n /\ n \in 1 .. n /\ n \notin 1 .. n - 1
      /\ 1 .. n = (1 .. n - 1) \cup {n}
  BY <1>3, <1>4
<1>7. /\ Len(hs) = n - 1 /\ DOMAIN hs = 1 .. n - 1
      /\ \A i \in 1 .. n - 1 : hs[i] = gs[i]
  <2> HIDE DEF gs, hs
  <2>1. n - 1 \in 0 .. Len(gs)  BY <1>6 DEF n
  <2> QED BY <1>3, <1>5, <2>1, PrefixOfSequence
<1>8. Valued(doc)' = {}
  <2> SUFFICES ASSUME NEW j \in DOMAIN hs, hs[j].group.value.size > 0, ~hs[j].omitted
               PROVE  FALSE
    BY DEF Valued
  <2>1. j \in DOMAIN gs /\ hs[j] = gs[j]  BY <1>3, <1>6, <1>7
  <2>2. j \in Valued(doc)  BY <2>1 DEF Valued
  <2> QED BY <1>1, <2>2
<1>9. LargestFirst' /\ ValuesBeforeGroups'  BY <1>8 DEF LargestFirst, ValuesBeforeGroups
<1>10. PayloadCounts'
  <2> DEFINE S == {j \in DOMAIN gs : gs[j].omitted}
             T == {j \in DOMAIN hs : hs[j].omitted}
  <2>1. T \subseteq 1 .. n - 1 /\ n \notin T
    BY <1>6, <1>7
  <2>2. S = IF gs[n].omitted THEN T \cup {n} ELSE T
    <3>1. T = {j \in 1 .. n - 1 : gs[j].omitted}  BY <1>7
    <3>2. S = {j \in (1 .. n - 1) \cup {n} : gs[j].omitted}  BY <1>3, <1>6
    <3> HIDE DEF S, T
    <3> QED BY <3>1, <3>2
  <2>3. doc.omitted = Cardinality(S)  BY <1>2 DEF PayloadCounts
  <2> HIDE DEF S, T
  <2>4. IsFiniteSet(T)
    <3> DEFINE m == n - 1
    <3>1. m \in Nat /\ T \subseteq 1 .. m  BY <1>6, <2>1
    <3> HIDE DEF m
    <3>2. IsFiniteSet(1 .. m)  BY <3>1, FS_Interval
    <3> QED BY <3>1, <3>2, FS_Subset
  <2>5. Cardinality(T) \in Nat  BY <2>4, FS_CardinalityType
  <2>6. gs[n].omitted => Cardinality(S) = Cardinality(T) + 1
    BY <2>1, <2>2, <2>4, FS_AddElement
  <2>7. ~gs[n].omitted => Cardinality(S) = Cardinality(T)  BY <2>2
  <2>8. doc'.omitted = Cardinality(T)
    <3>1. CASE gs[n].omitted
      <4>1. doc'.omitted = doc.omitted - 1  BY <1>5, <3>1
      <4> QED BY <2>3, <2>5, <2>6, <3>1, <4>1
    <3>2. CASE ~gs[n].omitted
      <4>1. doc'.omitted = doc.omitted - 0  BY <1>5, <3>2
      <4> QED BY <2>3, <2>5, <2>7, <3>2, <4>1
    <3> QED BY <3>1, <3>2
  <2>9. Len(hs) < Len(comparison'.groups)
    <3>1. /\ Room(comparison) \in Nat /\ Len(comparison.groups) \in Nat
          /\ Room(comparison) <= Len(comparison.groups)
      BY <1>2, RoomIsBounded
    <3>2. n <= Room(comparison)  BY <1>2 DEF PlanIsRanked, n
    <3> QED BY <1>1, <1>3, <1>6, <1>7, <3>1, <3>2
  <2> QED BY <1>5, <2>8, <2>9 DEF PayloadCounts, T
<1>11. Len(hs) <= Len(gs) /\ Len(hs) \in Nat  BY <1>3, <1>6, <1>7 DEF n
<1> QED BY <1>1, <1>9, <1>10, <1>11, FittingSheds

\* The rest of an assessment leaves the payload alone, and what it leaves of
\* the plan where it is.
LEMMA SettledSheds ==
  ASSUME SheddingInv, pc # "plan", UNCHANGED <<comparison, doc>>,
         \A i \in DOMAIN planned' : i \in DOMAIN planned /\ planned'[i] = planned[i],
         ArtifactIsOfPayload'
  PROVE  SheddingInv'
<1>1. PlanIsRanked /\ LargestFirst /\ ValuesBeforeGroups /\ PayloadCounts
  BY DEF SheddingInv
<1>2. PlanIsRanked'  BY <1>1 DEF PlanIsRanked
<1>3. LargestFirst'  BY <1>1 DEF LargestFirst
<1>4. ValuesBeforeGroups'  BY <1>1 DEF ValuesBeforeGroups, Valued
<1>5. PayloadCounts'  BY <1>1 DEF PayloadCounts
<1> QED BY <1>2, <1>3, <1>4, <1>5 DEF SheddingInv

\* The plan that is cut to the payload is the top of the ranking still.
LEMMA SendSheds == AssessmentInv /\ SheddingInv /\ Send => SheddingInv'
<1> SUFFICES ASSUME AssessmentInv, SheddingInv, Send PROVE SheddingInv'  OBVIOUS
<1> DEFINE k == Len(doc.groups)
<1>1. /\ pc = "fit" /\ pc' = "await" /\ UNCHANGED <<comparison, doc>>
      /\ planned' = SubSeq(planned, 1, k)
  BY DEF Send
<1>2. PayloadIsPrefix  BY DEF AssessmentInv
<1>3. k \in 0 .. Len(planned) /\ DOMAIN planned = 1 .. Len(planned) /\ Len(planned) \in Nat
  BY <1>2, SequenceShape DEF PayloadIsPrefix
<1>4. DOMAIN planned' = 1 .. k /\ \A i \in 1 .. k : planned'[i] = planned[i]
  BY <1>1, <1>2, <1>3, PrefixOfSequence DEF PayloadIsPrefix
<1>5. ArtifactIsOfPayload'  BY <1>1 DEF ArtifactIsOfPayload
<1>6. \A i \in DOMAIN planned' : i \in DOMAIN planned /\ planned'[i] = planned[i]
  BY <1>3, <1>4
<1> QED BY <1>1, <1>5, <1>6, SettledSheds

\* A refusal leaves the payload as it was shed.
LEMMA RefusalSheds ==
  AssessmentInv /\ SheddingInv /\ (NothingFits \/ TooLarge \/ Refuse) => SheddingInv'
<1> SUFFICES ASSUME AssessmentInv, SheddingInv, NothingFits \/ TooLarge \/ Refuse
             PROVE  SheddingInv'
  OBVIOUS
<1>1. /\ pc \in {"fit", "refuse"} /\ UNCHANGED <<comparison, planned, doc, sent>>
  BY DEF NothingFits, TooLarge, Refuse, Finish
<1>2. sent' = <<>>  BY <1>1 DEF AssessmentInv, BeforeSending
<1>3. ArtifactIsOfPayload'  BY <1>2 DEF ArtifactIsOfPayload
<1> QED BY <1>1, <1>3, SettledSheds

\* An artifact made of a reply counts what the request lacked.
LEMMA ReceiveSheds ==
  AssessmentInv /\ SheddingInv /\ (\E reply \in Replies : Receive(reply)) => SheddingInv'
<1> SUFFICES ASSUME AssessmentInv, SheddingInv, NEW reply \in Replies, Receive(reply)
             PROVE  SheddingInv'
  OBVIOUS
<1>1. pc = "await"  BY DEF Receive
<1>2. UNCHANGED <<comparison, planned, doc>>
  BY DEF Receive, Failed, Retry, NoRetry, GiveUp, Accept, Finish
<1>3. ASSUME NEW a, NEW ds, Finish(a, planned, doc, ds),
             DOMAIN a.groups = DOMAIN planned,
             \A i \in DOMAIN planned : a.groups[i].group = planned[i].group
      PROVE  ArtifactIsOfPayload'
  <2>1. /\ artifact'.groups = a.groups /\ artifact'.assessed = Len(planned)
        /\ artifact'.total = Len(comparison.groups)
        /\ artifact'.truncated = doc.truncated /\ artifact'.omitted = doc.omitted
    BY <1>3 DEF Finish
  <2> QED BY <1>2, <1>3, <2>1 DEF ArtifactIsOfPayload
<1>4. /\ DOMAIN Unjudged(planned).groups = DOMAIN planned
      /\ \A i \in DOMAIN planned : Unjudged(planned).groups[i].group = planned[i].group
  BY DEF Unjudged
<1>5. /\ DOMAIN Judged(reply, planned).groups = DOMAIN planned
      /\ \A i \in DOMAIN planned : Judged(reply, planned).groups[i].group = planned[i].group
  BY DEF Judged
<1>6. ArtifactIsOfPayload'
  <2>1. CASE Failed(reply)   BY <2>1, <1>3, <1>4 DEF Failed
  <2>2. CASE Retry(reply)    BY <2>2, <1>1 DEF Retry, ArtifactIsOfPayload
  <2>3. CASE NoRetry(reply)  BY <2>3, <1>3, <1>4 DEF NoRetry
  <2>4. CASE GiveUp(reply)   BY <2>4, <1>3, <1>4 DEF GiveUp
  <2>5. CASE Accept(reply)   BY <2>5, <1>3, <1>5 DEF Accept
  <2> QED BY <2>1, <2>2, <2>3, <2>4, <2>5 DEF Receive
<1> QED BY <1>1, <1>2, <1>6, SettledSheds

\* Nothing is shed when nothing happens.
LEMMA StutterSheds == SheddingInv /\ UNCHANGED vars => SheddingInv'
<1> SUFFICES ASSUME SheddingInv, UNCHANGED vars PROVE SheddingInv'  OBVIOUS
<1>1. ArtifactIsOfPayload'  BY DEF SheddingInv, ArtifactIsOfPayload, vars
<1>2. CASE pc = "plan"  BY <1>1, <1>2 DEF SheddingInv, vars
<1>3. CASE pc # "plan"  BY <1>1, <1>3, SettledSheds DEF vars
<1> QED BY <1>2, <1>3

-----------------------------------------------------------------------------
(* The theorems.                                                           *)

\* An assessment keeps its invariant, whatever is compared and answered:
\* what is sent is a prefix of the plan under the plan's ids, and after it
\* was sent the plan is that prefix (produce.go, Produce).
THEOREM AssessmentInvariant == Spec => []AssessmentInv
<1>1. AssessmentInv /\ [Next]_vars => AssessmentInv'
  BY PlanKeeps, OmitValueKeeps, ShedGroupKeeps, RefusalKeeps, SendKeeps, RefuseKeeps,
     ReceiveKeeps, StutterKeeps DEF Next
<1> QED BY <1>1, InitEstablishes, PTL DEF Spec

\* No request exceeds its limit, first or second, and the second discloses
\* what the first did, after a reply that could not be used
\* (request.go, checkRequestSize; produce.go, Produce).
THEOREM BudgetIsKept == Spec => []RequestsStayInBudget
<1>1. AssessmentInv => RequestsStayInBudget  BY DEF AssessmentInv
<1> QED BY <1>1, AssessmentInvariant, PTL

\* An error is told exactly when no reply could be used, and then nothing is
\* judged (produce.go, Produce).
THEOREM ErrorsMeanUnjudged == Spec => []ErrorMeansUnjudged
<1>1. AssessmentInv => ErrorMeansUnjudged  BY DEF AssessmentInv
<1> QED BY <1>1, AssessmentInvariant, PTL

\* A group is judged by what the last reply said under the id the request
\* gave this group (interpret.go, Interpret).
THEOREM JudgementsAreAnswers == Spec => []JudgementsAreTheLastReplys
<1>1. AssessmentInv => JudgementsAreTheLastReplys  BY DEF AssessmentInv
<1> QED BY <1>1, AssessmentInvariant, PTL

\* Evidence is shed in order and accounted for: the payload is the top of the
\* ranking, the values of its largest groups go first, no group goes while a
\* value is left, and its counts are what it lacks (request.go, PlanGroups
\* and fitPayload; produce.go, Produce and stamp).
THEOREM SheddingInvariant == Spec => []SheddingInv
<1>1. Init => SheddingInv  BY DEF Init, SheddingInv, ArtifactIsOfPayload
<1>2. AssessmentInv /\ SheddingInv /\ [Next]_vars => SheddingInv'
  BY PlanSheds, OmitValueSheds, ShedGroupSheds, SendSheds, RefusalSheds, ReceiveSheds,
     StutterSheds DEF Next
<1> QED BY <1>1, <1>2, AssessmentInvariant, PTL DEF Spec

\* What was sent is the payload, group by group.
LEMMA AskedIsPayload ==
  ASSUME AssessmentInv, SheddingInv, sent # <<>>
  PROVE  /\ Asked = doc.groups /\ pc # "plan"
         /\ IsSequence(planned) /\ Len(planned) = Len(doc.groups)
         /\ DOMAIN planned = DOMAIN doc.groups
         /\ \A i \in DOMAIN doc.groups : doc.groups[i].group = planned[i].group
<1>1. Asked = doc.groups /\ Len(planned) = Len(doc.groups) /\ PayloadIsPrefix
  BY DEF AssessmentInv, SentIsPayload, Asked
<1>2. pc # "plan"  BY DEF AssessmentInv, BeforeSending
<1>3. DOMAIN planned = DOMAIN doc.groups  BY <1>1, SequenceShape DEF PayloadIsPrefix
<1> QED BY <1>1, <1>2, <1>3 DEF PayloadIsPrefix

\* An artifact made from a reply lists the groups of the request, in its
\* order, and says how many groups and values the service did not see
\* (produce.go, Produce and stamp).
THEOREM ArtifactIsTruthful == Spec => []ArtifactTellsWhatWasSent
<1>1. AssessmentInv /\ SheddingInv => ArtifactTellsWhatWasSent
  <2> SUFFICES ASSUME AssessmentInv, SheddingInv, pc = "done", sent # <<>>
               PROVE  ArtifactTellsWhatWasSent
    BY DEF ArtifactTellsWhatWasSent
  <2>1. /\ Asked = doc.groups /\ Len(planned) = Len(doc.groups)
        /\ DOMAIN planned = DOMAIN doc.groups
        /\ \A i \in DOMAIN doc.groups : doc.groups[i].group = planned[i].group
    BY AskedIsPayload
  <2>2. ArtifactIsOfPayload /\ PayloadCounts  BY DEF SheddingInv
  <2>3. /\ DOMAIN artifact.groups = DOMAIN doc.groups
        /\ \A i \in DOMAIN doc.groups : artifact.groups[i].group = doc.groups[i].group
    BY <2>1, <2>2 DEF ArtifactIsOfPayload
  <2>4. /\ artifact.assessed = Len(doc.groups)
        /\ artifact.truncated <=> Len(doc.groups) < artifact.total
        /\ artifact.omitted = Cardinality({i \in DOMAIN doc.groups : doc.groups[i].omitted})
    BY <2>1, <2>2 DEF ArtifactIsOfPayload, PayloadCounts
  <2> HIDE DEF Asked
  <2>5. [i \in DOMAIN artifact.groups |-> artifact.groups[i].group]
          = [i \in DOMAIN Asked |-> Asked[i].group]
    BY <2>1, <2>3
  <2>6. artifact.omitted = Cardinality({i \in DOMAIN Asked : Asked[i].omitted})
    BY <2>1, <2>4
  <2> QED BY <2>1, <2>4, <2>5, <2>6 DEF ArtifactTellsWhatWasSent
<1> QED BY <1>1, AssessmentInvariant, SheddingInvariant, PTL

\* What is sent reaches at least as many nodes as what is not; no group that
\* keeps its values is larger, as a whole, than one without its own, and none
\* keeps them when a group of the plan is not sent (request.go, PlanGroups
\* and fitPayload).
THEOREM SheddingIsOrdered == Spec => []EvidenceShedInOrder
<1>1. AssessmentInv /\ SheddingInv => EvidenceShedInOrder
  <2> SUFFICES ASSUME AssessmentInv, SheddingInv, sent # <<>>
               PROVE  EvidenceShedInOrder
    BY DEF EvidenceShedInOrder
  <2> DEFINE gs == comparison.groups
             kept == {p.group : p \in {p \in Range(Asked) : ~p.omitted /\ p.group.value.size > 0}}
  <2>1. Asked = doc.groups /\ pc # "plan"  BY AskedIsPayload
  <2>2. /\ DOMAIN doc.groups = 1 .. Len(doc.groups) /\ Len(doc.groups) \in Nat
        /\ DOMAIN doc.groups \subseteq DOMAIN gs
        /\ \A i \in DOMAIN doc.groups :
             /\ doc.groups[i].group = Ranked(gs)[i]
             /\ doc.groups[i].omitted \in BOOLEAN
    BY <2>1, PayloadIsRanked
  <2>3. gs \in Seq(Groups)  BY RoomIsBounded DEF AssessmentInv
  <2>4. /\ DOMAIN gs = 1 .. Len(gs) /\ Len(gs) \in Nat
        /\ \A i \in DOMAIN gs : Ranked(gs)[i] \in Groups
        /\ \A j \in DOMAIN gs : \E i \in DOMAIN gs : Ranked(gs)[i] = gs[j]
        /\ \A i, j \in DOMAIN gs : i < j => Ranked(gs)[j].reach <= Ranked(gs)[i].reach
    BY <2>3, RankedWidestFirst
  <2>5. LargestFirst /\ ValuesBeforeGroups  BY <2>1 DEF SheddingInv
  <2>6. ASSUME NEW p \in Range(doc.groups), NEW g \in Range(gs),
               g \notin {q.group : q \in Range(doc.groups)}
        PROVE  g.reach <= p.group.reach
    <3>1. PICK i \in DOMAIN doc.groups : p = doc.groups[i]  BY DEF Range
    <3>2. PICK j \in DOMAIN gs : g = Ranked(gs)[j]  BY <2>4 DEF Range
    <3>3. j \notin DOMAIN doc.groups
      <4> SUFFICES ASSUME j \in DOMAIN doc.groups PROVE FALSE  OBVIOUS
      <4>1. doc.groups[j].group = g /\ doc.groups[j] \in Range(doc.groups)
        BY <2>2, <3>2 DEF Range
      <4> QED BY <2>6, <4>1
    <3>4. i < j /\ i \in DOMAIN gs  BY <2>2, <2>4, <3>3
    <3>5. p.group = Ranked(gs)[i]  BY <2>2, <3>1
    <3> QED BY <2>4, <3>2, <3>4, <3>5
  <2>7. \A g : g \in kept <=> \E j \in Valued(doc) : g = doc.groups[j].group
    BY <2>1 DEF Valued, Range
  <2> HIDE DEF kept
  <2>8. ASSUME NEW p \in Range(doc.groups), p.omitted, NEW g \in kept
        PROVE  EncodedSize(g) <= EncodedSize(p.group)
    <3>1. PICK i \in DOMAIN doc.groups : p = doc.groups[i]  BY DEF Range
    <3>2. PICK j \in Valued(doc) : g = doc.groups[j].group  BY <2>7, <2>8
    <3> QED BY <2>5, <2>8, <3>1, <3>2 DEF LargestFirst
  <2>9. Len(doc.groups) < Room(comparison) => kept = {}
    BY <2>5, <2>7 DEF ValuesBeforeGroups
  <2> QED BY <2>1, <2>6, <2>8, <2>9 DEF EvidenceShedInOrder, Room, kept
<1> QED BY <1>1, AssessmentInvariant, SheddingInvariant, PTL
=============================================================================
