------------------------ MODULE ImpactEstimationProofs -----------------------
(***************************************************************************)
(* What holds of a command on any target files, saved at any moment while  *)
(* it reads them, with any flags and any PuppetDB. What a command requires *)
(* follows from its first reading; what it uses follows from its second;   *)
(* without a save in between both are readings of one file, and the rest   *)
(* is that merging is the same for both. Estimates follow the order of     *)
(* identities, one query each, and tell who held the resource when the     *)
(* query was answered: PuppetDB reads back the title it was asked for, and *)
(* a limit that is reached is told from one that is exceeded.              *)
(***************************************************************************)
EXTENDS ImpactEstimation, OperatorProofs, SequenceTheorems, FiniteSetTheorems, TLAPS

Stages == {"started", "decided", "refused", "working", "estimating", "done", "panicked"}

Before == {"started", "decided", "refused"}

Read == LoadTargetFile(file, TargetDir, command, environment).value

\* One entry for each target worked on.
Entries ==
  [certname : {targets[i].certname : i \in DOMAIN targets}, changed : SUBSET Identities]

Shapes ==
  /\ file \in TargetFiles
  /\ command \in {"compare", "capture facts", "capture catalog"}
  /\ edits \in Nat
  /\ stage \in Stages
  /\ nodeDiffs \in Seq(Entries)

\* The first reading decided, and nobody has saved the file since.
ForeseenByFirstReading ==
  stage # "started" /\ edits = 0 => required = ServiceSetFor(command, file, environment)

\* Targets are what the second reading made of the file, which is not read again.
ResolvedBySecondReading ==
  IF stage \in Before THEN targets = <<>> /\ nodeDiffs = <<>> ELSE targets = Read

\* A service that lacks was foreseen not to be used, of another file.
LackedOnlyAfterASave ==
  /\ stage = "panicked" => edits > 0
  /\ NoQuerier \in diagnostics => edits > 0

\* Nothing is asked but for the next estimate.
AskedForAnEstimate == asked # <<>> => stage = "estimating" /\ queue # <<>>

ConfigInv ==
  /\ Shapes
  /\ AskedForAnEstimate
  /\ ForeseenByFirstReading
  /\ ResolvedBySecondReading
  /\ LackedOnlyAfterASave

\* The override leaves as many targets, and every block of candidate settings
\* that a target can end up with names its environment.
LEMMA Overridden ==
  ASSUME NEW f, IsTargetFile(f), NEW env
  PROVE  /\ Len(Apply(env, f).targets) \in Nat
         /\ DOMAIN Apply(env, f).targets = 1 .. Len(Apply(env, f).targets)
         /\ env # "" => \A i \in DOMAIN Apply(env, f).targets :
              MergeScalars(Apply(env, f).defaults, Apply(env, f).targets[i]).candidate.environment = env
<1>1. CASE env = ""
  <2>1. Apply(env, f) = f  BY <1>1 DEF Apply
  <2>2. IsSequence(f.targets)  BY DEF IsTargetFile
  <2> QED BY <1>1, <2>1, <2>2, ListsHaveLengths
<1>2. CASE env # ""
  <2> DEFINE Block(c) == [j \in DOMAIN c |-> [c[j] EXCEPT !.environment = env]]
             g == Apply(env, f)
  <2>1. /\ g.targets = [i \in DOMAIN f.targets |-> ApplyToTarget(env, f.targets[i])]
        /\ g.defaults.candidate.environment = env
    <3>1. /\ f = [version |-> f.version, defaults |-> f.defaults, targets |-> f.targets]
          /\ f.defaults = [candidate |-> f.defaults.candidate, facts |-> f.defaults.facts,
                   baseline |-> f.defaults.baseline, impact |-> f.defaults.impact,
                   failOnDiff |-> f.defaults.failOnDiff, exclude |-> f.defaults.exclude,
                   redact |-> f.defaults.redact]
          /\ IsCandidate(f.defaults.candidate)
      BY DEF IsTargetFile
    <3> DEFINE h == [f EXCEPT !.defaults.candidate.environment = env]
    <3>2. g = [h EXCEPT !.targets = [i \in DOMAIN @ |-> ApplyToTarget(env, @[i])]]
      BY <1>2 DEF Apply
    <3>3. h.targets = f.targets /\ h.defaults.candidate.environment = env /\ "targets" \in DOMAIN h
      BY <3>1 DEF IsCandidate
    <3> HIDE DEF g, h
    <3> QED BY <3>2, <3>3
  <2>2. DOMAIN f.targets = 1 .. Len(f.targets) /\ Len(f.targets) \in Nat
    <3>1. IsSequence(f.targets)  BY DEF IsTargetFile
    <3> QED BY <3>1, ListsHaveLengths
  <2>3. /\ Len(g.targets) = Len(f.targets)
        /\ DOMAIN g.targets = 1 .. Len(f.targets)
    <3> HIDE DEF g
    <3>1. g.targets = [i \in 1 .. Len(f.targets) |-> g.targets[i]]  BY <2>1, <2>2
    <3> QED BY <2>2, <3>1, OfLength
  <2>4. ASSUME NEW i \in DOMAIN g.targets
        PROVE  MergeScalars(g.defaults, g.targets[i]).candidate.environment = env
    <3> DEFINE t == f.targets[i]
    <3>1. i \in DOMAIN f.targets /\ g.targets[i] = ApplyToTarget(env, t)
      <4> HIDE DEF g
      <4> QED BY <2>1, <2>2, <2>3
    <3>2. /\ t = [certname |-> t.certname, candidate |-> t.candidate, facts |-> t.facts,
                   baseline |-> t.baseline, impact |-> t.impact, failOnDiff |-> t.failOnDiff,
                   exclude |-> t.exclude, redact |-> t.redact]
          /\ IsSequence(t.candidate)
          /\ \A j \in DOMAIN t.candidate : IsCandidate(t.candidate[j])
      BY <3>1 DEF IsTargetFile
    <3>3. g.targets[i].candidate = Block(t.candidate)
      <4> HIDE DEF g, Block, t
      <4>1. g.targets[i] = [t EXCEPT !.candidate = Block(@)]  BY <3>1 DEF t, Block, ApplyToTarget
      <4> QED BY <3>2, <4>1
    <3>4. MergeScalars(g.defaults, g.targets[i]).candidate
            = IF Block(t.candidate) = <<>> THEN g.defaults.candidate ELSE Block(t.candidate)[1]
      <4> HIDE DEF g, Block, t
      <4> QED BY <3>3 DEF MergeScalars, Or
    <3>5. Len(t.candidate) \in Nat /\ DOMAIN t.candidate = 1 .. Len(t.candidate)
      <4> HIDE DEF t
      <4> QED BY <3>2, ListsHaveLengths
    <3>6. CASE Block(t.candidate) = <<>>
      <4> HIDE DEF g, Block, t
      <4> QED BY <3>4, <3>6, <2>1
    <3>7. CASE Block(t.candidate) # <<>>
      <4>1. Len(t.candidate) # 0
        <5> SUFFICES ASSUME Len(t.candidate) = 0  PROVE Block(t.candidate) = <<>>
          BY <3>7
        <5>1. DOMAIN t.candidate = {}
          <6> HIDE DEF t
          <6> QED BY <3>5
        <5> HIDE DEF t
        <5> QED BY <5>1
      <4>2. 1 \in DOMAIN t.candidate
        <5> HIDE DEF t
        <5> QED BY <4>1, <3>5
      <4>3. Block(t.candidate)[1].environment = env
        <5> HIDE DEF t
        <5>1. IsCandidate(t.candidate[1])  BY <4>2, <3>2
        <5> DEFINE c == t.candidate[1]
        <5>2. Block(t.candidate)[1] = [c EXCEPT !.environment = env]  BY <4>2
        <5>3. IsCandidate(c)  BY <5>1
        <5> HIDE DEF c, Block
        <5> QED BY <5>2, <5>3 DEF IsCandidate
      <4> HIDE DEF g, Block, t
      <4> QED BY <3>4, <3>7, <4>3
    <3> QED BY <3>6, <3>7
  <2> HIDE DEF g
  <2>5. g = Apply(env, f)  BY DEF g
  <2> QED BY <2>2, <2>3, <2>4, <2>5
<1> QED BY <1>1, <1>2

\* The second reading gives no target, or each target of the file as it is
\* resolved once the override applies.
LEMMA ReadingResolves ==
  ASSUME NEW f \in TargetFiles, NEW c, NEW env
  PROVE  LET r == LoadTargetFile(f, TargetDir, c, env).value
             g == Apply(env, f[1])
         IN  /\ Len(r) \in Nat /\ DOMAIN r = 1 .. Len(r)
             /\ \A i \in DOMAIN r :
                  /\ f # Undecodable /\ IsTargetFile(f[1])
                  /\ i \in DOMAIN g.targets
                  /\ r[i] = ResolvedTarget(g.defaults, g.targets[i], TargetDir)
<1> DEFINE r == LoadTargetFile(f, TargetDir, c, env).value
           g == Apply(env, f[1])
           n == Len(g.targets)
<1>1. CASE r = <<>>
  <2> HIDE DEF r
  <2>1. Len(r) \in Nat /\ DOMAIN r = 1 .. Len(r)  BY <1>1
  <2>2. DOMAIN r = {}  BY <1>1
  <2>3. r = LoadTargetFile(f, TargetDir, c, env).value  BY DEF r
  <2> HIDE DEF g
  <2>4. g = Apply(env, f[1])  BY DEF g
  <2> QED BY <2>1, <2>2, <2>3, <2>4
<1>2. CASE r # <<>>
  <2>1. f # Undecodable
    <3> SUFFICES ASSUME f = Undecodable  PROVE r = <<>>
      BY <1>2
    <3> QED BY DEF LoadTargetFile
  <2>2. IsTargetFile(f[1])  BY <2>1, TargetFilesAreDecoded DEF AreDecoded
  <2>3. n \in Nat /\ DOMAIN g.targets = 1 .. n  BY <2>2, Overridden
  <2>4. r = [i \in DOMAIN g.targets |-> ResolvedTarget(g.defaults, g.targets[i], TargetDir)]
    <3>1. r = ResolveTargets(g, TargetDir, c).value
      BY <2>1 DEF LoadTargetFile
    <3> HIDE DEF r, g
    <3> QED BY <1>2, <3>1 DEF ResolveTargets
  <2> HIDE DEF r, g, n
  <2>5. r = [i \in 1 .. n |-> r[i]]  BY <2>3, <2>4
  <2>6. Len(r) = n /\ DOMAIN r = 1 .. n  BY <2>3, <2>5, OfLength
  <2>7. r = LoadTargetFile(f, TargetDir, c, env).value /\ g = Apply(env, f[1])  BY DEF r, g
  <2> QED BY <2>1, <2>2, <2>3, <2>4, <2>6, <2>7
<1> QED BY <1>1, <1>2

\* A set of services with PuppetDB has PuppetDB.
LEMMA PuppetDBIsRequired ==
  ASSUME NEW set, NEW x, set = [compiler |-> x, puppetdb |-> TRUE]
  PROVE  set.puppetdb
OBVIOUS

\* What a resolved target uses of PuppetDB, or its estimate does, the first
\* reading of the same file foresaw.
LEMMA UsesAreForeseen ==
  ASSUME NEW f \in TargetFiles, NEW c, NEW env,
         NEW i \in DOMAIN LoadTargetFile(f, TargetDir, c, env).value
  PROVE  LET t == LoadTargetFile(f, TargetDir, c, env).value[i]
         IN  \/ c = "capture facts"
             \/ /\ c = "compare"
                /\ "puppetdb" \in {t.facts.source, t.baseline.source} \/ t.impact.enabled
             \/ /\ c = "capture catalog"
                /\ t.baseline.source = "file" /\ t.facts.source = "puppetdb"
             => ServiceSetFor(c, f, env).puppetdb
<1> DEFINE t == LoadTargetFile(f, TargetDir, c, env).value[i]
           g == Apply(env, f[1])
           s == MergeScalars(g.defaults, g.targets[i])
<1>1. /\ f # Undecodable
      /\ i \in DOMAIN g.targets
      /\ t = ResolvedTarget(g.defaults, g.targets[i], TargetDir)
  BY ReadingResolves
<1>2. /\ t.facts.source = s.facts.source
      /\ t.baseline.source = s.baseline.source
      /\ t.impact.enabled = s.impact.enabled
  <2> HIDE DEF t, g, s
  <2>1. s = MergeScalars(g.defaults, g.targets[i])  BY DEF s
  <2> QED BY <1>1, <2>1 DEF ResolvedTarget, ImpactPolicy
<1>3. ServiceSetFor(c, f, env) = RequiredServices(c, g)
  BY <1>1 DEF ServiceSetFor
<1>4. c = "capture facts" \/ AsksPuppetDB(c, s) => ServiceSetFor(c, f, env).puppetdb
  <2> SUFFICES ASSUME c = "capture facts" \/ AsksPuppetDB(c, s)
               PROVE  ServiceSetFor(c, f, env).puppetdb
    OBVIOUS
  <2> HIDE DEF g
  <2> DEFINE Asked == \/ c = "capture facts"
                      \/ \E k \in DOMAIN g.targets : AsksPuppetDB(c, MergeScalars(g.defaults, g.targets[k]))
  <2>1. Asked = TRUE
    BY <1>1, Zenon
  <2>2. RequiredServices(c, g) = [compiler |-> c # "capture facts", puppetdb |-> Asked]
    BY Zenon DEF RequiredServices
  <2> HIDE DEF Asked
  <2>3. PICK x : RequiredServices(c, g) = [compiler |-> x, puppetdb |-> TRUE]
    BY <2>1, <2>2, Zenon
  <2>4. RequiredServices(c, g).puppetdb
    BY <2>3, PuppetDBIsRequired
  <2> QED BY <1>3, <2>4
<1> HIDE DEF t, s, g
<1>6. \/ /\ c = "compare"
         /\ "puppetdb" \in {t.facts.source, t.baseline.source} \/ t.impact.enabled
      \/ /\ c = "capture catalog"
         /\ t.baseline.source = "file" /\ t.facts.source = "puppetdb"
      => AsksPuppetDB(c, s)
  BY <1>2 DEF AsksPuppetDB
<1>7. t = LoadTargetFile(f, TargetDir, c, env).value[i]  BY DEF t
<1> QED BY <1>4, <1>6, <1>7

----------------------------------------------------------------------------
(* The invariant holds of every state.                                     *)

\* Targets are a sequence, those worked on are counted by their entries, and
\* what is used on the next one was foreseen unless the file was saved.
LEMMA NothingUnforeseen ==
  ASSUME ConfigInv, stage \notin Before, edits = 0,
         NEW i \in DOMAIN targets
  PROVE  \/ UsesPuppetDB(targets[i])
         \/ command = "compare" /\ targets[i].impact.enabled
         => required.puppetdb
<1>1. /\ file \in TargetFiles
      /\ command \in {"compare", "capture facts", "capture catalog"}
      /\ targets = LoadTargetFile(file, TargetDir, command, environment).value
      /\ required = ServiceSetFor(command, file, environment)
  BY DEF ConfigInv, Shapes, ResolvedBySecondReading, ForeseenByFirstReading, Before, Read
<1>2. \/ command = "capture facts"
      \/ /\ command = "compare"
         /\ "puppetdb" \in {targets[i].facts.source, targets[i].baseline.source} \/ targets[i].impact.enabled
      \/ /\ command = "capture catalog"
         /\ targets[i].baseline.source = "file" /\ targets[i].facts.source = "puppetdb"
      => required.puppetdb
  BY <1>1, UsesAreForeseen
<1>3. CASE command = "compare"
  <2>1. UsesPuppetDB(targets[i]) => "puppetdb" \in {targets[i].facts.source, targets[i].baseline.source}
    BY <1>3 DEF UsesPuppetDB
  <2> QED BY <1>2, <1>3, <2>1
<1>4. CASE command = "capture facts"
  BY <1>2, <1>4
<1>5. CASE command = "capture catalog"
  <2>1. UsesPuppetDB(targets[i]) => targets[i].baseline.source = "file" /\ targets[i].facts.source = "puppetdb"
    BY <1>5 DEF UsesPuppetDB
  <2> QED BY <1>2, <1>5, <2>1
<1> QED BY <1>1, <1>3, <1>4, <1>5

\* The targets of any state are numbered from one.
LEMMA TargetsAreNumbered ==
  ASSUME ConfigInv
  PROVE  Len(targets) \in Nat /\ DOMAIN targets = 1 .. Len(targets)
<1>1. CASE stage \in Before
  BY <1>1 DEF ConfigInv, ResolvedBySecondReading
<1>2. CASE stage \notin Before
  <2>1. /\ file \in TargetFiles
        /\ targets = LoadTargetFile(file, TargetDir, command, environment).value
    BY <1>2 DEF ConfigInv, Shapes, ResolvedBySecondReading, Read
  <2> QED BY <2>1, ReadingResolves
<1> QED BY <1>1, <1>2

\* A step that reads no file and leaves what was worked on keeps the invariant,
\* unless it is about to say that a service lacks.
LEMMA OtherSteps ==
  ASSUME ConfigInv,
         UNCHANGED <<file, edits, command, environment, required, targets, nodeDiffs>>,
         stage \notin Before, stage' \in Stages \ Before,
         stage' = "panicked" => edits > 0,
         NoQuerier \in diagnostics' => NoQuerier \in diagnostics \/ edits > 0,
         AskedForAnEstimate'
  PROVE  ConfigInv'
<1>1. Shapes'
  BY DEF ConfigInv, Shapes, Entries
<1>2. ForeseenByFirstReading'
  BY DEF ConfigInv, ForeseenByFirstReading, Before
<1>3. ResolvedBySecondReading'
  BY DEF ConfigInv, ResolvedBySecondReading, Read
<1>4. LackedOnlyAfterASave'
  BY DEF ConfigInv, LackedOnlyAfterASave, NoQuerier
<1> QED BY <1>1, <1>2, <1>3, <1>4 DEF ConfigInv

\* The end of an estimate tells nothing of a service that lacks.
LEMMA ConclusionsKeep ==
  ASSUME ConfigInv, stage = "estimating", NEW status, NEW names, Concluded(status, names),
         UNCHANGED <<disk, config, stage, nodeDiffs, puppetdb>>
  PROVE  ConfigInv'
<1>1. NoQuerier \in diagnostics' => NoQuerier \in diagnostics
  <2>1. NoQuerier # [source |-> <<Head(queue).id>>, what |-> status]
    <3>1. NoQuerier.source = <<>>  BY DEF NoQuerier
    <3>2. [source |-> <<Head(queue).id>>, what |-> status].source # <<>>  OBVIOUS
    <3> QED BY <3>1, <3>2
  <2> QED BY <2>1 DEF Concluded
<1>2. AskedForAnEstimate'
  BY DEF AskedForAnEstimate, Concluded
<1> QED BY <1>1, <1>2, OtherSteps DEF disk, config, Before, Stages

\* Every step keeps the invariant.
LEMMA ConfigStep ==
  ASSUME ConfigInv, [Next]_vars
  PROVE  ConfigInv'
<1> USE DEF disk, config, puppetdb, result
<1>0. edits \in Nat /\ nodeDiffs \in Seq(Entries)
  BY DEF ConfigInv, Shapes
<1>1. CASE UNCHANGED vars
  BY <1>1 DEF vars, ConfigInv, Shapes, Entries, ForeseenByFirstReading, ResolvedBySecondReading,
       Read, LackedOnlyAfterASave, NoQuerier, AskedForAnEstimate
<1>2. CASE SaveTargetFile
  <2>0. AskedForAnEstimate'
    BY <1>2 DEF SaveTargetFile, ConfigInv, AskedForAnEstimate
  <2>1. edits' > 0 /\ edits' \in Nat
    <3>1. edits' = edits + 1  BY <1>2 DEF SaveTargetFile
    <3> QED BY <1>0, <3>1
  <2>2. Shapes'
    BY <1>2, <2>1 DEF SaveTargetFile, ConfigInv, Shapes, Entries
  <2>3. ForeseenByFirstReading'
    BY <2>1 DEF ForeseenByFirstReading
  <2>4. ResolvedBySecondReading'
    BY <1>2 DEF SaveTargetFile, ConfigInv, ResolvedBySecondReading, Before
  <2> QED BY <2>0, <2>1, <2>2, <2>3, <2>4 DEF ConfigInv, LackedOnlyAfterASave
<1>3. CASE DecideServices
  <2>0. AskedForAnEstimate'
    BY <1>3 DEF DecideServices, ConfigInv, AskedForAnEstimate
  <2>1. Shapes'
    BY <1>3 DEF DecideServices, ConfigInv, Shapes, Entries, Stages
  <2>2. ForeseenByFirstReading'
    BY <1>3 DEF DecideServices, ForeseenByFirstReading
  <2>3. ResolvedBySecondReading'
    BY <1>3 DEF DecideServices, ConfigInv, ResolvedBySecondReading, Before
  <2>4. LackedOnlyAfterASave'
    BY <1>3 DEF DecideServices, ConfigInv, LackedOnlyAfterASave, NoQuerier
  <2> QED BY <2>0, <2>1, <2>2, <2>3, <2>4 DEF ConfigInv
<1>4. CASE ResolveConfig
  <2>0. AskedForAnEstimate'
    BY <1>4 DEF ResolveConfig, ConfigInv, AskedForAnEstimate
  <2>1. /\ stage = "decided" /\ nodeDiffs' = <<>>
        /\ UNCHANGED <<file, edits, command, environment, required, diagnostics>>
        /\ stage' \in {"refused", "working"}
        /\ stage' = "refused" => targets' = <<>>
        /\ stage' = "working" => targets' = Read
    BY <1>4 DEF ResolveConfig, Read, ConfigInv, ResolvedBySecondReading, Before
  <2>2. Shapes'
    <3>1. <<>> \in Seq(Entries')  OBVIOUS
    <3> QED BY <2>1, <3>1 DEF ConfigInv, Shapes, Stages
  <2>3. ForeseenByFirstReading'
    BY <2>1 DEF ConfigInv, ForeseenByFirstReading
  <2>4. ResolvedBySecondReading'
    BY <2>1 DEF ResolvedBySecondReading, Read, Before
  <2>5. LackedOnlyAfterASave'
    BY <2>1 DEF ConfigInv, LackedOnlyAfterASave, NoQuerier
  <2> QED BY <2>0, <2>2, <2>3, <2>4, <2>5 DEF ConfigInv
<1>5. CASE WorkOnTarget
  <2>0. AskedForAnEstimate'
    BY <1>5 DEF WorkOnTarget, ConfigInv, AskedForAnEstimate
  <2>1. /\ stage = "working" /\ Len(nodeDiffs) < Len(targets)
        /\ UNCHANGED <<file, edits, command, environment, required, targets, diagnostics>>
    BY <1>5 DEF WorkOnTarget, Worked
  <2> DEFINE i == Worked + 1
  <2>2. i \in DOMAIN targets
    <3>1. Len(nodeDiffs) \in Nat  BY <1>0
    <3> QED BY <2>1, <3>1, TargetsAreNumbered DEF Worked
  <2> HIDE DEF i
  <2>3. CASE UsesPuppetDB(targets[i]) /\ ~required.puppetdb
    <3>1. stage' = "panicked" /\ UNCHANGED nodeDiffs
      BY <1>5, <2>3 DEF WorkOnTarget, i
    <3>2. edits > 0
      <4>1. edits # 0  BY <2>1, <2>2, <2>3, NothingUnforeseen DEF Before
      <4> QED BY <4>1, <1>0
    <3> QED BY <2>0, <2>1, <3>1, <3>2, OtherSteps DEF Stages, Before
  <2>4. CASE ~(UsesPuppetDB(targets[i]) /\ ~required.puppetdb)
    <3>1. /\ UNCHANGED stage
          /\ \E changed \in IF command = "compare" THEN Changes ELSE {{}} :
               nodeDiffs' = Append(nodeDiffs, [certname |-> targets[i].certname, changed |-> changed])
      BY <1>5, <2>4 DEF WorkOnTarget, i
    <3>2. nodeDiffs' \in Seq(Entries)
      <4>1. PICK changed \in SUBSET Identities :
              nodeDiffs' = Append(nodeDiffs, [certname |-> targets[i].certname, changed |-> changed])
        BY <3>1, ChangesAreIdentities DEF Identities
      <4>2. [certname |-> targets[i].certname, changed |-> changed] \in Entries
        BY <2>2 DEF Entries
      <4> HIDE DEF Entries
      <4> QED BY <4>1, <4>2, <1>0
    <3>3. Shapes'
      BY <2>1, <3>1, <3>2 DEF ConfigInv, Shapes, Entries
    <3>4. ForeseenByFirstReading'
      BY <2>1, <3>1 DEF ConfigInv, ForeseenByFirstReading
    <3>5. ResolvedBySecondReading'
      BY <2>1, <3>1 DEF ConfigInv, ResolvedBySecondReading, Read, Before
    <3>6. LackedOnlyAfterASave'
      BY <2>1, <3>1 DEF ConfigInv, LackedOnlyAfterASave, NoQuerier
    <3> QED BY <2>0, <3>3, <3>4, <3>5, <3>6 DEF ConfigInv
  <2> QED BY <2>3, <2>4
<1>6. CASE StartEstimates
  <2>0. AskedForAnEstimate'
    BY <1>6 DEF StartEstimates, ConfigInv, AskedForAnEstimate
  <2>1. /\ stage = "working" /\ stage' \in {"done", "estimating"}
        /\ UNCHANGED <<file, edits, command, environment, required, targets, nodeDiffs>>
    BY <1>6 DEF StartEstimates
  <2>2. NoQuerier \in diagnostics' => NoQuerier \in diagnostics \/ edits > 0
    <3>1. CASE command = "compare" /\ Enabling # {} /\ ~required.puppetdb
      <4>1. PICK i \in DOMAIN targets : targets[i].impact.enabled
        BY <3>1 DEF Enabling
      <4>2. edits # 0
        BY <2>1, <3>1, <4>1, NothingUnforeseen DEF Before
      <4> QED BY <4>2, <1>0
    <3>2. CASE ~(command = "compare" /\ Enabling # {} /\ ~required.puppetdb)
      BY <1>6, <3>2 DEF StartEstimates
    <3> QED BY <3>1, <3>2
  <2> QED BY <2>0, <2>1, <2>2, OtherSteps DEF Stages, Before
<1>7. CASE Ask
  BY <1>7, OtherSteps DEF Ask, Stages, Before, ConfigInv, AskedForAnEstimate
<1>8. CASE CannotAsk
  BY <1>8, ConclusionsKeep DEF CannotAsk
<1>9. CASE asked # <<>> /\ UNCHANGED <<disk, config, stage, nodeDiffs, puppetdb>>
           /\ \E status, names : Concluded(status, names)
  <2>1. stage = "estimating"  BY <1>9 DEF ConfigInv, AskedForAnEstimate
  <2> QED BY <1>9, <2>1, ConclusionsKeep
<1>10. CASE FinishEstimates
  BY <1>10, OtherSteps DEF FinishEstimates, Stages, Before, ConfigInv, AskedForAnEstimate
<1>11. CASE AgentRun
  BY <1>11, OtherSteps DEF AgentRun, Stages, Before, ConfigInv, AskedForAnEstimate
<1> QED
  BY <1>1, <1>2, <1>3, <1>4, <1>5, <1>6, <1>7, <1>8, <1>9, <1>10, <1>11
  DEF Next, Estimating, Deadline, AnswerRows, AnswerUnusable

\* It holds at the start.
LEMMA ConfigStarts ==
  ASSUME Init
  PROVE  ConfigInv
<1>1. Shapes
  <2>1. command \in {"compare", "capture facts", "capture catalog"}
    BY CommandsAreThree DEF Init
  <2>2. nodeDiffs \in Seq(Entries)
    <3>1. nodeDiffs = <<>>  BY DEF Init
    <3> HIDE DEF Entries
    <3> QED BY <3>1
  <2>3. edits \in Nat /\ stage \in Stages /\ file \in TargetFiles
    BY DEF Init, Stages
  <2> QED BY <2>1, <2>2, <2>3 DEF Shapes
<1>2. /\ ForeseenByFirstReading
      /\ ResolvedBySecondReading
      /\ LackedOnlyAfterASave
      /\ AskedForAnEstimate
  BY DEF Init, ForeseenByFirstReading, ResolvedBySecondReading, LackedOnlyAfterASave,
         AskedForAnEstimate, Before
<1> QED BY <1>1, <1>2 DEF ConfigInv

\* The inductive invariant of any command on any target files, however often
\* and whenever they are saved (load.go:68-160).
THEOREM ConfigInvariant == Spec => []ConfigInv
<1>1. Init => ConfigInv  BY ConfigStarts
<1>2. ConfigInv /\ [Next]_vars => ConfigInv'  BY ConfigStep
<1> QED BY <1>1, <1>2, PTL DEF Spec

\* A command whose target file nobody saves while it is read never lacks a
\* service, whatever the file holds (requirements.go:82-103, main.go:374).
THEOREM ServicesAreForeseen == Spec => []RequiredIsUsed
<1>1. ConfigInv => RequiredIsUsed
  BY DEF ConfigInv, LackedOnlyAfterASave, RequiredIsUsed
<1> QED BY <1>1, ConfigInvariant, PTL

\* With an override, every target there is was resolved for its environment
\* (override.go:38-62).
THEOREM OverridesReachTargets == Spec => []OverrideReachesEveryTarget
<1>1. ASSUME ConfigInv, NEW i, i \in DOMAIN targets
      PROVE  LET g == Apply(environment, file[1])
             IN  /\ IsTargetFile(file[1]) /\ i \in DOMAIN g.targets
                 /\ targets[i] = ResolvedTarget(g.defaults, g.targets[i], TargetDir)
  <2>1. ASSUME targets = <<>>  PROVE FALSE
    BY <1>1, <2>1
  <2>2. stage \notin Before
    BY <1>1, <2>1 DEF ConfigInv, ResolvedBySecondReading
  <2>3. /\ file \in TargetFiles
        /\ targets = LoadTargetFile(file, TargetDir, command, environment).value
    BY <1>1, <2>2 DEF ConfigInv, Shapes, ResolvedBySecondReading, Read
  <2> QED BY <1>1, <2>3, ReadingResolves
<1>2. ASSUME ConfigInv, environment # "", NEW i, i \in DOMAIN targets
      PROVE  targets[i].candidate.environment = environment
  <2> DEFINE g == Apply(environment, file[1])
             t == targets[i]
             d == g.defaults
             e == g.targets[i]
  <2>1. IsTargetFile(file[1]) /\ i \in DOMAIN g.targets /\ t = ResolvedTarget(d, e, TargetDir)
    BY <1>1, <1>2
  <2>2. MergeScalars(d, e).candidate.environment = environment
    BY <1>2, <2>1, Overridden
  <2>3. t.candidate = MergeScalars(d, e).candidate
    <3> HIDE DEF t, d, e
    <3> QED BY <2>1 DEF ResolvedTarget
  <2> QED BY <2>2, <2>3
<1>3. ConfigInv => OverrideReachesEveryTarget
  BY <1>2 DEF OverrideReachesEveryTarget
<1> QED BY <1>3, ConfigInvariant, PTL

----------------------------------------------------------------------------
(* What is estimated, in which order and under whose limits.               *)

Over == {"estimating", "done"}

Order == Arranged(Selected, IdentityOrder)

Limits(id) == targets[Winner(id)].impact

\* Estimates are, or have been, made of everything that was selected.
UnderWay ==
  \/ stage = "estimating"
  \/ stage = "done" /\ command = "compare" /\ NoQuerier \notin diagnostics

\* The estimates are of the first identities in order, the queue holds the rest.
OrderIsKept ==
  /\ Len(estimates) + Len(queue) = Cardinality(Selected)
  /\ \A i \in DOMAIN estimates :
       /\ estimates[i].id = Order[i]
       /\ estimates[i].resultLimit = Limits(Order[i]).resultLimit
       /\ estimates[i].timeout = Limits(Order[i]).timeout
  /\ \A i \in DOMAIN queue :
       LET id == Order[Len(estimates) + i] IN queue[i] = [id |-> id, limits |-> Limits(id)]

\* The diagnostics are those of the estimates that have no answer.
ErrorsAreTold ==
  diagnostics = {[source |-> <<estimates[i].id>>, what |-> estimates[i].status] :
                   i \in {j \in DOMAIN estimates : estimates[j].status # "completed"}}

EstimationInv ==
  /\ IsSequence(queue) /\ IsSequence(estimates)
  /\ stage \notin Over => estimates = <<>> /\ queue = <<>> /\ diagnostics = {}
  /\ stage \in Over => Len(nodeDiffs) = Len(targets)
  /\ stage = "done" => queue = <<>>
  /\ UnderWay => OrderIsKept /\ ErrorsAreTold

\* What a place in an alphabet tells: the name at it.
LEMMA PlacesTellNames ==
  ASSUME NEW order, IsSequence(order), NEW x \in ToSet(order)
  PROVE  Place(order, x) \in Nat /\ order[Place(order, x)] = x
<1>1. DOMAIN order = 1 .. Len(order) /\ Len(order) \in Nat  BY ListsHaveLengths
<1>2. \E i \in DOMAIN order : order[i] = x  BY DEF ToSet
<1>3. Place(order, x) \in DOMAIN order /\ order[Place(order, x)] = x  BY <1>2 DEF Place
<1> QED BY <1>1, <1>3

\* The names of an alphabet are finitely many.
LEMMA AlphabetsAreFinite ==
  ASSUME NEW order, IsSequence(order)
  PROVE  IsFiniteSet(ToSet(order))
<1> DEFINE n == Len(order)
           f == [i \in 1 .. n |-> order[i]]
<1>1. n \in Nat /\ DOMAIN order = 1 .. n  BY ListsHaveLengths
<1>2. f \in Surjection(1 .. n, ToSet(order))
  BY <1>1 DEF Surjection, ToSet
<1> HIDE DEF f, n
<1>3. IsFiniteSet(1 .. n)  BY <1>1, FS_Interval
<1> QED BY <1>2, <1>3, FS_Surjection

\* A command can find only finitely many identities changed.
LEMMA IdentitiesAreFinite == IsFiniteSet(Identities)
<1> DEFINE S == ToSet(TypeOrder)
           T == ToSet(TitleOrder)
           f == [p \in S \X T |-> [type |-> p[1], title |-> p[2]]]
<1>1. IsFiniteSet(S) /\ IsFiniteSet(T)  BY AlphabetsAreFinite, AlphabetsAreSequences
<1>2. f \in Surjection(S \X T, Identities)
  <2>1. ASSUME NEW id \in Identities  PROVE \E p \in S \X T : f[p] = id
    <3>1. id = [type |-> id.type, title |-> id.title] /\ <<id.type, id.title>> \in S \X T
      BY DEF Identities
    <3>2. f[<<id.type, id.title>>] = id  BY <3>1
    <3> QED BY <3>1, <3>2
  <2>2. f \in [S \X T -> Identities]  BY DEF Identities
  <2> QED BY <2>1, <2>2 DEF Surjection
<1> HIDE DEF f, S, T
<1>3. IsFiniteSet(S \X T)  BY <1>1, FS_Product
<1> QED BY <1>2, <1>3, FS_Surjection

\* Identities are ordered by type, then by title, and no two are equal in it.
LEMMA IdentitiesAreOrdered ==
  ASSUME NEW S, S \subseteq Identities
  PROVE  StrictOrder(IdentityOrder, S)
<1> DEFINE a(x) == Place(TypeOrder, x.type)
           b(x) == Place(TitleOrder, x.title)
<1>1. ASSUME NEW x \in S
      PROVE  /\ x = [type |-> x.type, title |-> x.title]
             /\ a(x) \in Nat /\ TypeOrder[a(x)] = x.type
             /\ b(x) \in Nat /\ TitleOrder[b(x)] = x.title
  <2>1. x.type \in ToSet(TypeOrder) /\ x.title \in ToSet(TitleOrder)
        /\ x = [type |-> x.type, title |-> x.title]
    BY DEF Identities
  <2> QED BY <2>1, PlacesTellNames, AlphabetsAreSequences
<1>2. ASSUME NEW x \in S, NEW y \in S
      PROVE  <<x, y>> \in IdentityOrder <=> \/ a(x) < a(y)
                                           \/ (a(x) = a(y) /\ b(x) < b(y))
  <2>1. <<x, y>> \in IdentityOrder <=> IdentityPrecedes(x, y)  BY DEF IdentityOrder
  <2>2. x.type = y.type <=> a(x) = a(y)  BY <1>1
  <2> QED BY <2>1, <2>2 DEF IdentityPrecedes
<1>3. ASSUME NEW x \in S, NEW y \in S, a(x) = a(y), b(x) = b(y)  PROVE x = y
  <2>1. x.type = y.type /\ x.title = y.title
    <3>1. TypeOrder[a(x)] = TypeOrder[a(y)] /\ TitleOrder[b(x)] = TitleOrder[b(y)]  BY <1>3
    <3> HIDE DEF a, b
    <3> QED BY <1>1, <3>1
  <2> HIDE DEF a, b
  <2> QED BY <1>1, <2>1
<1>4. \A x \in S : a(x) \in Nat /\ b(x) \in Nat  BY <1>1
<1> HIDE DEF a, b
<1>5. \A x \in S : <<x, x>> \notin IdentityOrder  BY <1>2, <1>4
<1>6. ASSUME NEW x \in S, NEW y \in S, NEW z \in S,
             <<x, y>> \in IdentityOrder, <<y, z>> \in IdentityOrder
      PROVE  <<x, z>> \in IdentityOrder
  <2>1. /\ a(x) < a(y) \/ (a(x) = a(y) /\ b(x) < b(y))
        /\ a(y) < a(z) \/ (a(y) = a(z) /\ b(y) < b(z))
    BY <1>2, <1>6
  <2>2. a(x) < a(z) \/ (a(x) = a(z) /\ b(x) < b(z))  BY <1>4, <2>1
  <2> QED BY <1>2, <2>2
<1>7. ASSUME NEW x \in S, NEW y \in S, x # y
      PROVE  <<x, y>> \in IdentityOrder \/ <<y, x>> \in IdentityOrder
  <2>1. a(x) # a(y) \/ b(x) # b(y)  BY <1>3, <1>7
  <2>2. a(x) < a(y) \/ a(y) < a(x) \/ (a(x) = a(y) /\ (b(x) < b(y) \/ b(y) < b(x)))
    BY <1>4, <2>1
  <2> QED BY <1>2, <2>2
<1> QED BY <1>5, <1>6, <1>7 DEF StrictOrder

\* Once every target was worked on, what is selected are changed resources.
LEMMA SelectedAreIdentities ==
  ASSUME ConfigInv, Len(nodeDiffs) = Len(targets)
  PROVE  /\ DOMAIN targets = 1 .. Len(targets) /\ Len(targets) \in Nat
         /\ Enabling \subseteq DOMAIN targets
         /\ Selected \subseteq Identities
<1>1. Len(targets) \in Nat /\ DOMAIN targets = 1 .. Len(targets)  BY TargetsAreNumbered
<1>2. \A i \in DOMAIN targets : Changed(i) \subseteq Identities
  <2>1. nodeDiffs \in Seq(Entries)  BY DEF ConfigInv, Shapes
  <2>2. \A i \in DOMAIN targets : nodeDiffs[i] \in Entries  BY <1>1, <2>1, LenProperties
  <2> QED BY <2>2 DEF Changed, Entries
<1>3. Enabling \subseteq DOMAIN targets  BY DEF Enabling
<1> QED BY <1>1, <1>2, <1>3 DEF Selected

\* The identities to estimate, each in its one place.
LEMMA SelectedInOrder ==
  ASSUME ConfigInv, Len(nodeDiffs) = Len(targets)
  PROVE  /\ Cardinality(Selected) \in Nat
         /\ Order \in [1 .. Cardinality(Selected) -> Selected]
         /\ {Order[k] : k \in 1 .. Cardinality(Selected)} = Selected
         /\ \A i, j \in 1 .. Cardinality(Selected) :
              i < j => IdentityPrecedes(Order[i], Order[j]) /\ Order[i] # Order[j]
<1>1. Selected \subseteq Identities  BY SelectedAreIdentities
<1>2. IsFiniteSet(Selected) /\ StrictOrder(IdentityOrder, Selected)
  BY <1>1, IdentitiesAreFinite, FS_Subset, IdentitiesAreOrdered
<1> DEFINE S == Selected
           n == Cardinality(S)
<1> HIDE DEF S
<1>3. /\ n \in Nat /\ Order \in [1 .. n -> S]
      /\ {Order[k] : k \in 1 .. n} = S
      /\ \A i, j \in 1 .. n : i < j => <<Order[i], Order[j]>> \in IdentityOrder
  BY <1>2, ArrangedInOrder DEF S, Order
<1>4. \A x, y : <<x, y>> \in IdentityOrder => IdentityPrecedes(x, y)
  BY DEF IdentityOrder
<1>5. \A x \in S : <<x, x>> \notin IdentityOrder  BY <1>2 DEF StrictOrder, S
<1> HIDE DEF n
<1>6. \A k \in 1 .. n : Order[k] \in S  BY <1>3
<1>7. ASSUME NEW i \in 1 .. n, NEW j \in 1 .. n, i < j
      PROVE  IdentityPrecedes(Order[i], Order[j]) /\ Order[i] # Order[j]
  <2>1. <<Order[i], Order[j]>> \in IdentityOrder  BY <1>3, <1>7
  <2> QED BY <2>1, <1>4, <1>5, <1>6
<1> QED BY <1>3, <1>7 DEF n, S

\* The winner is the first of the targets that enable and show a change.
LEMMA WinnerIsFirst ==
  ASSUME ConfigInv, Len(nodeDiffs) = Len(targets), NEW id \in Selected
  PROVE  /\ Winner(id) \in Enabling /\ id \in Changed(Winner(id))
         /\ \A j \in Enabling : id \in Changed(j) => Winner(id) <= j
<1> DEFINE E == {i \in Enabling : id \in Changed(i)}
<1>1. E # {}  BY DEF Selected
<1>2. E \subseteq Nat  BY SelectedAreIdentities
<1>3. \E i \in E : \A j \in E : i <= j
  <2> HIDE DEF E
  <2> QED BY <1>1, <1>2, LeastNumber
<1>4. Winner(id) = CHOOSE i \in E : \A j \in E : i <= j  BY DEF Winner
<1> HIDE DEF E
<1>5. Winner(id) \in E /\ \A j \in E : Winner(id) <= j  BY <1>3, <1>4
<1> QED BY <1>5 DEF E

\* A list grows at its end and shrinks at its front.
LEMMA GrowsAndShrinks ==
  ASSUME NEW s, IsSequence(s), NEW x
  PROVE  /\ IsSequence(Append(s, x)) /\ Len(Append(s, x)) = Len(s) + 1
         /\ DOMAIN Append(s, x) = 1 .. Len(s) + 1
         /\ Append(s, x)[Len(s) + 1] = x
         /\ \A i \in DOMAIN s : i \in DOMAIN Append(s, x) /\ Append(s, x)[i] = s[i]
         /\ s # <<>> => /\ IsSequence(Tail(s)) /\ Len(Tail(s)) = Len(s) - 1
                        /\ Len(s) >= 1 /\ Head(s) = s[1]
                        /\ DOMAIN Tail(s) = 1 .. Len(s) - 1
                        /\ \A i \in 1 .. Len(s) - 1 : Tail(s)[i] = s[i + 1]
<1> DEFINE T == {s[i] : i \in DOMAIN s}
           U == T \cup {x}
           t == Append(s, x)
           r == Tail(s)
<1>1. s \in Seq(T) /\ Len(s) \in Nat /\ DOMAIN s = 1 .. Len(s)
  BY ListsHaveLengths DEF IsSequence
<1>2. s \in Seq(U) /\ x \in U  BY <1>1, SeqMonotonic
<1>3. /\ t \in Seq(U) /\ Len(t) = Len(s) + 1 /\ t[Len(s) + 1] = x
      /\ \A i \in 1 .. Len(s) : t[i] = s[i]
  <2> HIDE DEF T, U
  <2> QED BY <1>2, AppendProperties
<1> HIDE DEF T, t
<1>4. DOMAIN t = 1 .. Len(s) + 1  BY <1>3, LenProperties
<1>5. \A i \in DOMAIN s : i \in DOMAIN t  BY <1>1, <1>4
<1>6. IsSequence(t)
  <2>1. Len(s) + 1 \in Nat  BY <1>1
  <2>2. t = [i \in 1 .. Len(s) + 1 |-> t[i]]  BY <1>3, <1>4, LenProperties
  <2> QED BY <2>1, <2>2 DEF IsSequence
<1>7. ASSUME s # <<>>
      PROVE  /\ IsSequence(r) /\ Len(r) = Len(s) - 1 /\ Len(s) >= 1 /\ Head(s) = s[1]
             /\ DOMAIN r = 1 .. Len(s) - 1
             /\ \A i \in 1 .. Len(s) - 1 : r[i] = s[i + 1]
  <2>1. /\ r \in Seq(T) /\ Len(r) = Len(s) - 1 /\ Head(s) = s[1]
        /\ \A i \in 1 .. Len(r) : r[i] = s[i + 1]
    BY <1>1, <1>7, HeadTailProperties
  <2>2. Len(s) # 0  BY <1>1, <1>7, EmptySeq
  <2> HIDE DEF r
  <2>3. DOMAIN r = 1 .. Len(s) - 1 /\ Len(s) - 1 \in Nat /\ Len(s) >= 1
    BY <1>1, <2>1, <2>2, LenProperties
  <2>4. r = [i \in 1 .. Len(s) - 1 |-> r[i]]  BY <2>1, <2>3, LenProperties
  <2>5. IsSequence(r)  BY <2>3, <2>4 DEF IsSequence
  <2> QED BY <2>1, <2>3, <2>5
<1> QED BY <1>1, <1>3, <1>4, <1>5, <1>6, <1>7 DEF t

\* What is estimated depends on nothing but the targets and their changes.
LEMMA SelectionStays ==
  ASSUME UNCHANGED <<targets, nodeDiffs>>
  PROVE  /\ Selected' = Selected /\ Order' = Order
         /\ \A id : Limits(id)' = Limits(id)
<1>1. Selected' = Selected  BY DEF Selected, Enabling, Changed
<1>2. \A id : Winner(id)' = Winner(id)  BY DEF Winner, Enabling, Changed
<1> QED BY <1>1, <1>2 DEF Order, Limits

\* A step that touches neither the targets nor the estimates keeps their order.
LEMMA OrderStays ==
  ASSUME EstimationInv, UNCHANGED <<targets, nodeDiffs, command, queue, estimates, diagnostics, stage>>
  PROVE  EstimationInv'
<1>1. Selected' = Selected /\ Order' = Order /\ \A id : Limits(id)' = Limits(id)
  BY SelectionStays
<1>2. UnderWay' <=> UnderWay  BY DEF UnderWay, NoQuerier
<1>3. OrderIsKept => OrderIsKept'  BY <1>1 DEF OrderIsKept
<1>4. ErrorsAreTold => ErrorsAreTold'  BY DEF ErrorsAreTold
<1> QED BY <1>2, <1>3, <1>4 DEF EstimationInv

\* Before the estimates there is none.
LEMMA NothingIsEstimatedYet ==
  ASSUME EstimationInv, stage \notin Over, stage' \notin Over,
         UNCHANGED <<queue, estimates, diagnostics>>
  PROVE  EstimationInv'
<1>1. ~UnderWay'  BY DEF UnderWay, Over
<1> QED BY <1>1 DEF EstimationInv, Over

\* EstimateAll starts with every selected identity queued, or none.
LEMMA StartKeepsOrder == ConfigInv /\ EstimationInv /\ StartEstimates => EstimationInv'
<1> SUFFICES ASSUME ConfigInv, EstimationInv, StartEstimates PROVE EstimationInv'  OBVIOUS
<1>1. /\ stage = "working" /\ stage' \in Over /\ Len(nodeDiffs) = Len(targets)
      /\ UNCHANGED <<targets, nodeDiffs, command, estimates, required>>
  BY DEF StartEstimates, config, Worked, Over
<1>2. estimates = <<>> /\ queue = <<>> /\ diagnostics = {}  BY <1>1 DEF EstimationInv, Over
<1>3. Selected' = Selected /\ Order' = Order /\ \A id : Limits(id)' = Limits(id)
  BY <1>1, SelectionStays
<1>4. Len(nodeDiffs') = Len(targets')  BY <1>1
<1>5. IsSequence(<<>>)  BY DEF IsSequence
<1>6. ASSUME diagnostics' = {}  PROVE ErrorsAreTold'
  <2>1. DOMAIN estimates' = {}  BY <1>1, <1>2
  <2> QED BY <1>6, <2>1 DEF ErrorsAreTold
<1>7. CASE command # "compare" \/ Enabling = {}
  <2>1. stage' = "done" /\ queue' = <<>> /\ diagnostics' = {}
    BY <1>2, <1>7 DEF StartEstimates
  <2>2. UnderWay' => OrderIsKept'
    <3> SUFFICES ASSUME UnderWay' PROVE OrderIsKept'  OBVIOUS
    <3>1. Enabling = {}  BY <1>1, <1>7, <2>1 DEF UnderWay
    <3>2. Selected = {}  BY <3>1 DEF Selected
    <3>3. Cardinality(Selected') = 0  BY <1>3, <3>2, FS_EmptySet
    <3>4. Len(estimates') = 0 /\ Len(queue') = 0 /\ DOMAIN estimates' = {} /\ DOMAIN queue' = {}
      BY <1>1, <1>2, <2>1
    <3> QED BY <3>3, <3>4 DEF OrderIsKept
  <2> QED BY <1>1, <1>2, <1>4, <1>5, <1>6, <2>1, <2>2 DEF EstimationInv, Over
<1>8. CASE command = "compare" /\ Enabling # {} /\ ~required.puppetdb
  <2>1. stage' = "done" /\ queue' = <<>> /\ diagnostics' = {NoQuerier}
    BY <1>2, <1>8 DEF StartEstimates
  <2>2. ~UnderWay'  BY <2>1 DEF UnderWay, NoQuerier
  <2> QED BY <1>1, <1>2, <1>4, <1>5, <2>1, <2>2 DEF EstimationInv, Over
<1>9. CASE command = "compare" /\ Enabling # {} /\ required.puppetdb
  <2>1. stage' = "estimating" /\ queue' = Queued /\ diagnostics' = {}
    BY <1>2, <1>9 DEF StartEstimates
  <2> DEFINE n == Cardinality(Selected)
             next(i) == [id |-> Order[i], limits |-> Limits(Order[i])]
  <2>2. n \in Nat /\ DOMAIN Order = 1 .. n  BY <1>1, SelectedInOrder
  <2>3. Queued = [i \in DOMAIN Order |-> next(i)]  BY DEF Queued, Order, Limits
  <2> HIDE DEF n, next
  <2>4. queue' = [i \in 1 .. n |-> next(i)]  BY <2>1, <2>2, <2>3
  <2>5. queue' = [i \in 1 .. n |-> queue'[i]]  BY <2>4
  <2>6. IsSequence(queue') /\ Len(queue') = n /\ DOMAIN queue' = 1 .. n
    BY <2>2, <2>5, OfLength DEF IsSequence
  <2>7. Len(estimates') = 0 /\ DOMAIN estimates' = {}  BY <1>1, <1>2
  <2>8. \A i \in DOMAIN queue' :
          queue'[i] = [id |-> Order[Len(estimates') + i], limits |-> Limits(Order[Len(estimates') + i])]
    <3> TAKE i \in DOMAIN queue'
    <3>1. Len(estimates') + i = i  BY <2>2, <2>6, <2>7
    <3>2. queue'[i] = next(i)  BY <2>4, <2>6
    <3> QED BY <3>1, <3>2 DEF next
  <2>9. OrderIsKept'
    <3>1. Len(estimates') + Len(queue') = Cardinality(Selected')
      BY <1>3, <2>2, <2>6, <2>7 DEF n
    <3> QED BY <1>3, <2>7, <2>8, <3>1 DEF OrderIsKept
  <2> QED BY <1>1, <1>2, <1>4, <1>5, <1>6, <2>1, <2>6, <2>9 DEF EstimationInv, Over
<1> QED BY <1>7, <1>8, <1>9

\* An estimate is of the next in order; a failing one has its error.
LEMMA ConclusionKeepsOrder ==
  ASSUME EstimationInv, stage = "estimating", queue # <<>>, NEW status, NEW names,
         Concluded(status, names), UNCHANGED <<targets, nodeDiffs, command, stage>>
  PROVE  EstimationInv'
<1> DEFINE e == Estimate(status, names)
           L == Len(estimates)
           Error(i, es) == [source |-> <<es[i].id>>, what |-> es[i].status]
<1>1. /\ estimates' = Append(estimates, e) /\ queue' = Tail(queue)
      /\ diagnostics' = diagnostics \cup
           (IF status = "completed" THEN {} ELSE {[source |-> <<Head(queue).id>>, what |-> status]})
  BY DEF Concluded
<1>2. /\ e.id = Head(queue).id /\ e.resultLimit = Head(queue).limits.resultLimit
      /\ e.timeout = Head(queue).limits.timeout /\ e.status = status
  BY DEF Estimate
<1> HIDE DEF e
<1>3. /\ IsSequence(queue) /\ IsSequence(estimates) /\ OrderIsKept /\ ErrorsAreTold
      /\ Len(nodeDiffs) = Len(targets)
  BY DEF EstimationInv, UnderWay, Over
<1>4. /\ L \in Nat /\ Len(queue) \in Nat /\ DOMAIN estimates = 1 .. L
      /\ DOMAIN queue = 1 .. Len(queue)
  BY <1>3, ListsHaveLengths
<1>5. /\ IsSequence(estimates') /\ Len(estimates') = L + 1
      /\ DOMAIN estimates' = 1 .. L + 1 /\ estimates'[L + 1] = e
      /\ \A i \in DOMAIN estimates : estimates'[i] = estimates[i]
  BY <1>1, <1>3, GrowsAndShrinks
<1>6. /\ IsSequence(queue') /\ Len(queue') = Len(queue) - 1 /\ Len(queue) >= 1
      /\ Head(queue) = queue[1] /\ DOMAIN queue' = 1 .. Len(queue) - 1
      /\ \A i \in 1 .. Len(queue) - 1 : queue'[i] = queue[i + 1]
  BY <1>1, <1>3, GrowsAndShrinks
<1>7. Selected' = Selected /\ Order' = Order /\ \A id : Limits(id)' = Limits(id)
  BY SelectionStays
<1> HIDE DEF L
<1>8. OrderIsKept'
  <2>1. Len(estimates') + Len(queue') = Cardinality(Selected')
    <3>1. L + Len(queue) = Cardinality(Selected)  BY <1>3 DEF OrderIsKept, L
    <3>2. (L + 1) + (Len(queue) - 1) = L + Len(queue)  BY <1>4
    <3> QED BY <1>5, <1>6, <1>7, <3>1, <3>2
  <2>2. ASSUME NEW i \in DOMAIN estimates'
        PROVE  /\ estimates'[i].id = Order[i]
               /\ estimates'[i].resultLimit = Limits(Order[i]).resultLimit
               /\ estimates'[i].timeout = Limits(Order[i]).timeout
    <3>1. CASE i = L + 1
      <4>1. 1 \in DOMAIN queue  BY <1>4, <1>6
      <4>2. queue[1] = [id |-> Order[L + 1], limits |-> Limits(Order[L + 1])]
        BY <1>3, <4>1 DEF OrderIsKept, L
      <4> QED BY <1>2, <1>5, <1>6, <3>1, <4>2
    <3>2. CASE i # L + 1
      <4>1. i \in DOMAIN estimates  BY <1>4, <1>5, <3>2
      <4> QED BY <1>3, <1>5, <4>1 DEF OrderIsKept
    <3> QED BY <3>1, <3>2
  <2>3. ASSUME NEW i \in DOMAIN queue'
        PROVE  LET id == Order[Len(estimates') + i]
               IN  queue'[i] = [id |-> id, limits |-> Limits(id)]
    <3>1. i + 1 \in DOMAIN queue /\ queue'[i] = queue[i + 1]  BY <1>4, <1>6
    <3>2. Len(estimates') + i = L + (i + 1)  BY <1>4, <1>5, <1>6
    <3>3. queue[i + 1] = [id |-> Order[L + (i + 1)], limits |-> Limits(Order[L + (i + 1)])]
      BY <1>3, <3>1 DEF OrderIsKept, L
    <3> QED BY <3>1, <3>2, <3>3
  <2> QED BY <1>7, <2>1, <2>2, <2>3 DEF OrderIsKept
<1>9. ErrorsAreTold'
  <2> DEFINE J == {j \in DOMAIN estimates : estimates[j].status # "completed"}
             K == {j \in DOMAIN estimates' : estimates'[j].status # "completed"}
  <2>1. diagnostics = {Error(i, estimates) : i \in J}  BY <1>3 DEF ErrorsAreTold
  <2>2. \A i \in J : i \in K /\ Error(i, estimates') = Error(i, estimates)
    BY <1>4, <1>5
  <2>3. \A i \in K : i \in J \/ (i = L + 1 /\ status # "completed")
    BY <1>2, <1>4, <1>5
  <2>4. Error(L + 1, estimates') = [source |-> <<Head(queue).id>>, what |-> status]
    BY <1>2, <1>5
  <2>5. status # "completed" => L + 1 \in K  BY <1>2, <1>4, <1>5
  <2> HIDE DEF J, K, Error
  <2>6. diagnostics' = {Error(i, estimates') : i \in K}
    <3>1. CASE status = "completed"
      BY <1>1, <2>1, <2>2, <2>3, <3>1
    <3>2. CASE status # "completed"
      <4>1. diagnostics' = diagnostics \cup {Error(L + 1, estimates')}  BY <1>1, <2>4, <3>2
      <4> QED BY <2>1, <2>2, <2>3, <2>5, <3>2, <4>1
    <3> QED BY <3>1, <3>2
  <2> QED BY <2>6 DEF ErrorsAreTold, K, Error
<1> QED BY <1>3, <1>5, <1>6, <1>8, <1>9 DEF EstimationInv, Over

\* Every step of a command keeps its estimates in order.
LEMMA EstimationStep ==
  ASSUME ConfigInv, EstimationInv, [Next]_vars
  PROVE  EstimationInv'
<1> USE DEF disk, config, puppetdb, result
<1>1. CASE UNCHANGED vars  BY <1>1, OrderStays DEF vars
<1>2. CASE SaveTargetFile  BY <1>2, OrderStays DEF SaveTargetFile
<1>3. CASE DecideServices
  BY <1>3, NothingIsEstimatedYet DEF DecideServices, Over
<1>4. CASE ResolveConfig
  BY <1>4, NothingIsEstimatedYet DEF ResolveConfig, Over
<1>5. CASE WorkOnTarget
  <2>1. stage = "working" /\ stage' \in {"working", "panicked"} /\ UNCHANGED <<queue, estimates, diagnostics>>
    BY <1>5 DEF WorkOnTarget
  <2> QED BY <2>1, NothingIsEstimatedYet DEF Over
<1>6. CASE StartEstimates  BY <1>6, StartKeepsOrder
<1>7. CASE Ask  BY <1>7, OrderStays DEF Ask
<1>8. CASE CannotAsk
  BY <1>8, ConclusionKeepsOrder DEF CannotAsk
<1>9. CASE asked # <<>> /\ UNCHANGED <<disk, config, stage, nodeDiffs, puppetdb>>
           /\ \E status, names : Concluded(status, names)
  <2>1. stage = "estimating" /\ queue # <<>>  BY <1>9 DEF ConfigInv, AskedForAnEstimate
  <2> QED BY <1>9, <2>1, ConclusionKeepsOrder
<1>10. CASE FinishEstimates
  <2>1. /\ stage = "estimating" /\ stage' = "done" /\ queue = <<>>
        /\ UNCHANGED <<targets, nodeDiffs, command, queue, estimates, diagnostics>>
    BY <1>10 DEF FinishEstimates
  <2>2. Selected' = Selected /\ Order' = Order /\ \A id : Limits(id)' = Limits(id)
    BY <2>1, SelectionStays
  <2>3. OrderIsKept /\ ErrorsAreTold  BY <2>1 DEF EstimationInv, UnderWay
  <2>4. OrderIsKept'  BY <2>1, <2>2, <2>3 DEF OrderIsKept
  <2>5. ErrorsAreTold'  BY <2>1, <2>3 DEF ErrorsAreTold
  <2> QED BY <2>1, <2>4, <2>5 DEF EstimationInv, Over
<1>11. CASE AgentRun  BY <1>11, OrderStays DEF AgentRun
<1> QED
  BY <1>1, <1>2, <1>3, <1>4, <1>5, <1>6, <1>7, <1>8, <1>9, <1>10, <1>11
  DEF Next, Estimating, Deadline, AnswerRows, AnswerUnusable

\* The inductive invariant of the estimates of a comparison: they are made of
\* the selected identities in order, each under its winner's limits, and each
\* without an answer has its error (estimate_all.go:51-125).
THEOREM EstimationInvariant == Spec => []EstimationInv
<1>1. Init => EstimationInv
  <2>1. IsSequence(<<>>)  BY DEF IsSequence
  <2> QED BY <2>1 DEF Init, EstimationInv, UnderWay, Over
<1>2. ConfigInv /\ EstimationInv /\ [Next]_vars => EstimationInv'  BY EstimationStep
<1> QED BY <1>1, <1>2, ConfigInvariant, PTL DEF Spec

\* When the estimates are over, each resource changed on an enabling target has
\* one, in order of identity, under the limits of the first such target; and
\* each without an answer has its error (estimate_all.go:51-125).
THEOREM FirstTargetsDecide == Spec => []FirstEnablingTargetDecides
<1>1. ConfigInv /\ EstimationInv => FirstEnablingTargetDecides
  <2> SUFFICES ASSUME ConfigInv, EstimationInv,
                      stage = "done", command = "compare", NoQuerier \notin diagnostics
               PROVE  FirstEnablingTargetDecides
    BY DEF FirstEnablingTargetDecides
  <2> DEFINE n == Cardinality(Selected)
  <2>1. /\ IsSequence(estimates) /\ queue = <<>> /\ Len(nodeDiffs) = Len(targets)
        /\ OrderIsKept /\ ErrorsAreTold
    BY DEF EstimationInv, UnderWay, Over
  <2>2. Len(estimates) \in Nat /\ DOMAIN estimates = 1 .. Len(estimates)
    BY <2>1, ListsHaveLengths
  <2>3. /\ n \in Nat /\ Order \in [1 .. n -> Selected]
        /\ {Order[k] : k \in 1 .. n} = Selected
        /\ \A i, j \in 1 .. n :
             i < j => IdentityPrecedes(Order[i], Order[j]) /\ Order[i] # Order[j]
    BY <2>1, SelectedInOrder
  <2>4. /\ DOMAIN targets = 1 .. Len(targets) /\ Len(targets) \in Nat
        /\ Enabling \subseteq DOMAIN targets
    BY <2>1, SelectedAreIdentities
  <2>5. Len(estimates) = n
    <3>1. Len(estimates) + Len(queue) = n  BY <2>1 DEF OrderIsKept
    <3>2. Len(queue) = 0  BY <2>1
    <3> QED BY <2>2, <3>1, <3>2
  <2> HIDE DEF n
  <2>6. \A i \in DOMAIN estimates :
          /\ i \in 1 .. n /\ estimates[i].id = Order[i] /\ Order[i] \in Selected
          /\ estimates[i].resultLimit = Limits(Order[i]).resultLimit
          /\ estimates[i].timeout = Limits(Order[i]).timeout
    BY <2>1, <2>2, <2>3, <2>5 DEF OrderIsKept
  <2>7. {estimates[i].id : i \in DOMAIN estimates}
          = UNION {nodeDiffs[i].changed : i \in {j \in DOMAIN targets : targets[j].impact.enabled}}
    <3>1. {estimates[i].id : i \in DOMAIN estimates} = {Order[k] : k \in 1 .. n}
      BY <2>2, <2>5, <2>6
    <3>2. Selected = UNION {nodeDiffs[i].changed : i \in {j \in DOMAIN targets : targets[j].impact.enabled}}
      BY DEF Selected, Changed, Enabling
    <3> QED BY <2>3, <3>1, <3>2
  <2>8. ASSUME NEW i \in DOMAIN estimates, NEW j \in DOMAIN estimates, i < j
        PROVE  IdentityPrecedes(estimates[i].id, estimates[j].id) /\ estimates[i].id # estimates[j].id
    <3>1. IdentityPrecedes(Order[i], Order[j]) /\ Order[i] # Order[j]  BY <2>3, <2>6, <2>8
    <3> QED BY <2>6, <3>1
  <2>9. ASSUME NEW i \in DOMAIN estimates
        PROVE  \E t \in DOMAIN targets :
                 /\ targets[t].impact.enabled /\ estimates[i].id \in nodeDiffs[t].changed
                 /\ targets[t].impact.resultLimit = estimates[i].resultLimit
                 /\ targets[t].impact.timeout = estimates[i].timeout
                 /\ \A s \in 1..t - 1 :
                      targets[s].impact.enabled => estimates[i].id \notin nodeDiffs[s].changed
    <3> DEFINE id == estimates[i].id
               t == Winner(id)
    <3>1. id = Order[i] /\ id \in Selected  BY <2>6
    <3>2. /\ t \in Enabling /\ id \in Changed(t)
          /\ \A j \in Enabling : id \in Changed(j) => t <= j
      BY <2>1, <3>1, WinnerIsFirst
    <3>3. estimates[i].resultLimit = targets[t].impact.resultLimit
          /\ estimates[i].timeout = targets[t].impact.timeout
      BY <2>6, <3>1 DEF Limits
    <3> HIDE DEF id, t
    <3>4. t \in DOMAIN targets /\ targets[t].impact.enabled /\ id \in nodeDiffs[t].changed
      BY <3>2 DEF Enabling, Changed
    <3>5. ASSUME NEW s \in 1 .. t - 1, targets[s].impact.enabled, id \in nodeDiffs[s].changed
          PROVE  FALSE
      <4>1. s \in DOMAIN targets /\ s < t /\ s \in Nat /\ t \in Nat  BY <2>4, <3>4
      <4>2. s \in Enabling /\ id \in Changed(s)  BY <3>5, <4>1 DEF Enabling, Changed
      <4>3. t <= s  BY <3>2, <4>2
      <4> QED BY <4>1, <4>3
    <3> QED BY <3>3, <3>4, <3>5 DEF id
  <2>10. ASSUME NEW i \in DOMAIN estimates
         PROVE  estimates[i].status # "completed" <=> \E d \in diagnostics : d.source = <<estimates[i].id>>
    <3>1. ASSUME estimates[i].status # "completed"
          PROVE  \E d \in diagnostics : d.source = <<estimates[i].id>>
      <4>1. [source |-> <<estimates[i].id>>, what |-> estimates[i].status] \in diagnostics
        BY <2>1, <3>1 DEF ErrorsAreTold
      <4> QED BY <4>1
    <3>2. ASSUME NEW d \in diagnostics, d.source = <<estimates[i].id>>
          PROVE  estimates[i].status # "completed"
      <4>1. PICK j \in DOMAIN estimates :
              /\ estimates[j].status # "completed"
              /\ d = [source |-> <<estimates[j].id>>, what |-> estimates[j].status]
        BY <2>1 DEF ErrorsAreTold
      <4>2. estimates[j].id = estimates[i].id  BY <3>2, <4>1
      <4>3. i = j
        <5>1. ~(i < j) /\ ~(j < i)  BY <2>8, <4>2
        <5> QED BY <2>2, <5>1
      <4> QED BY <4>1, <4>3
    <3> QED BY <3>1, <3>2
  <2> QED BY <2>7, <2>8, <2>9, <2>10 DEF FirstEnablingTargetDecides
<1> QED BY <1>1, ConfigInvariant, EstimationInvariant, PTL

----------------------------------------------------------------------------
(* What is asked, and whom an answer names.                                *)

\* The override leaves every block of impact settings as decoded.
LEMMA ImpactsStay ==
  ASSUME NEW f, IsTargetFile(f), NEW env, NEW i \in DOMAIN Apply(env, f).targets
  PROVE  IsImpact(MergeScalars(Apply(env, f).defaults, Apply(env, f).targets[i]).impact)
<1> DEFINE g == Apply(env, f)
           t == f.targets[i]
<1>1. /\ f = [version |-> f.version, defaults |-> f.defaults, targets |-> f.targets]
      /\ f.defaults = [candidate |-> f.defaults.candidate, facts |-> f.defaults.facts,
               baseline |-> f.defaults.baseline, impact |-> f.defaults.impact,
               failOnDiff |-> f.defaults.failOnDiff, exclude |-> f.defaults.exclude,
               redact |-> f.defaults.redact]
      /\ IsCandidate(f.defaults.candidate) /\ IsImpact(f.defaults.impact)
  BY DEF IsTargetFile
<1>2. /\ g.defaults.impact = f.defaults.impact /\ DOMAIN g.targets = DOMAIN f.targets
      /\ env = "" => g.targets = f.targets
      /\ env # "" => g.targets = [j \in DOMAIN f.targets |-> ApplyToTarget(env, f.targets[j])]
  <2>1. CASE env = ""  BY <2>1 DEF Apply
  <2>2. CASE env # ""
    <3> DEFINE h == [f EXCEPT !.defaults.candidate.environment = env]
    <3>1. g = [h EXCEPT !.targets = [j \in DOMAIN @ |-> ApplyToTarget(env, @[j])]]
      BY <2>2 DEF Apply
    <3>2. /\ h.targets = f.targets /\ "targets" \in DOMAIN h
          /\ h.defaults.impact = f.defaults.impact
      BY <1>1 DEF IsCandidate
    <3> HIDE DEF g, h
    <3>3. g.defaults = h.defaults  BY <3>1
    <3>4. g.targets = [j \in DOMAIN f.targets |-> ApplyToTarget(env, f.targets[j])]
      BY <3>1, <3>2
    <3>5. DOMAIN g.targets = DOMAIN f.targets  BY <3>4
    <3> QED BY <2>2, <3>2, <3>3, <3>4, <3>5
  <2> QED BY <2>1, <2>2
<1> HIDE DEF g
<1>3. i \in DOMAIN f.targets  BY <1>2 DEF g
<1>4. /\ t = [certname |-> t.certname, candidate |-> t.candidate, facts |-> t.facts,
              baseline |-> t.baseline, impact |-> t.impact, failOnDiff |-> t.failOnDiff,
              exclude |-> t.exclude, redact |-> t.redact]
      /\ IsSequence(t.impact)
      /\ \A j \in DOMAIN t.impact : IsImpact(t.impact[j])
  BY <1>3 DEF IsTargetFile
<1> HIDE DEF t
<1>5. g.targets[i].impact = t.impact
  <2>1. CASE env = ""  BY <1>2, <2>1 DEF t
  <2>2. CASE env # ""
    <3>1. g.targets[i] = ApplyToTarget(env, t)  BY <1>2, <1>3, <2>2 DEF t
    <3> QED BY <1>4, <3>1 DEF ApplyToTarget
  <2> QED BY <2>1, <2>2
<1>6. t.impact # <<>> => IsImpact(t.impact[1])
  <2>1. DOMAIN t.impact = 1 .. Len(t.impact) /\ Len(t.impact) \in Nat  BY <1>4, ListsHaveLengths
  <2>2. t.impact # <<>> => Len(t.impact) # 0  BY <1>4, EmptySeq DEF IsSequence
  <2>3. t.impact # <<>> => 1 \in DOMAIN t.impact  BY <2>1, <2>2
  <2> QED BY <1>4, <2>3
<1>7. MergeScalars(g.defaults, g.targets[i]).impact
        = IF t.impact = <<>> THEN f.defaults.impact ELSE t.impact[1]
  BY <1>2, <1>5 DEF MergeScalars, Or
<1> QED BY <1>1, <1>6, <1>7 DEF g

\* A problem is a list of none or one.
LEMMA ProblemsAreLists == \A condition, what : IsSequence(Problem(condition, what))
<1> TAKE condition, what
<1>1. <<what>> \in Seq({what}) /\ <<>> \in Seq({what})  OBVIOUS
<1>2. IsSequence(<<what>>) /\ IsSequence(<<>>)
  <2> DEFINE a == <<what>>
             b == <<>>
  <2>1. a \in Seq({what}) /\ b \in Seq({what})  BY <1>1
  <2> HIDE DEF a, b
  <2>2. IsSequence(a) /\ IsSequence(b)  BY <2>1, ListsAreSequences
  <2> QED BY <2>2 DEF a, b
<1> QED BY <1>2 DEF Problem

\* A target without problems estimates under no limits, or under limits that
\* can be met.
LEMMA LimitsAreAsked ==
  ASSUME NEW p, IsImpact(p)
  PROVE  /\ IsSequence(ImpactProblems(p))
         /\ ImpactProblems(p) = <<>> /\ p.enabled => ImpactPolicy(p).resultLimit \in Nat \ {0}
<1> DEFINE a == Problem(p.timeout = <<>> \/ ~p.timeout[1].parses \/ p.timeout[1].value <= 0, "impact timeout")
           limit == p.resultLimit = <<>> \/ p.resultLimit[1] <= 0
           b == Problem(limit, "impact result_limit")
<1>1. IsSequence(a) /\ IsSequence(b) /\ IsSequence(<<>>)
  <2>1. IsSequence(Problem(FALSE, ""))  BY ProblemsAreLists
  <2>2. IsSequence(<<>>)  BY <2>1 DEF Problem
  <2> QED BY <2>2, ProblemsAreLists
<1>2. b = <<>> => ~limit  BY DEF Problem
<1>3. ImpactProblems(p) = IF ~p.enabled THEN <<>> ELSE a \o b  BY DEF ImpactProblems
<1>4. ~limit => p.resultLimit[1] \in Nat \ {0}
  <2>1. IsSequence(p.resultLimit) /\ \A i \in DOMAIN p.resultLimit : p.resultLimit[i] \in Int
    BY DEF IsImpact
  <2>2. DOMAIN p.resultLimit = 1 .. Len(p.resultLimit) /\ Len(p.resultLimit) \in Nat
    BY <2>1, ListsHaveLengths
  <2>3. p.resultLimit # <<>> => Len(p.resultLimit) # 0  BY <2>1, EmptySeq DEF IsSequence
  <2>4. p.resultLimit # <<>> => 1 \in DOMAIN p.resultLimit  BY <2>2, <2>3
  <2> QED BY <2>1, <2>4
<1>5. p.enabled => ImpactPolicy(p).resultLimit = p.resultLimit[1]  BY DEF ImpactPolicy
<1> HIDE DEF a, b, limit
<1>6. IsSequence(a \o b) /\ (a \o b = <<>> => b = <<>>)  BY <1>1, Together
<1> QED BY <1>1, <1>2, <1>3, <1>4, <1>5, <1>6

\* A target without problems has none with its estimate.
LEMMA NoProblemWithLimits ==
  ASSUME NEW defaults, NEW t, NEW dir, NEW needs, IsImpact(MergeScalars(defaults, t).impact)
  PROVE  /\ IsSequence(TargetProblems(defaults, t, dir, needs))
         /\ TargetProblems(defaults, t, dir, needs) = <<>> =>
              ImpactProblems(MergeScalars(defaults, t).impact) = <<>>
<1> DEFINE s == MergeScalars(defaults, t)
           ca == CandidateProblems(s.candidate, needs)
           fs == SourceProblems(s.facts, TRUE)
           be == Problem(needs.baselineEnvironment /\ s.baseline.environment = "", "baseline.environment")
           bs == SourceProblems(s.baseline, needs.baselineSource)
           ff == FileAt(s.facts, dir, t.certname).problems
           bf == FileAt(s.baseline, dir, t.certname).problems
           ru == RuleProblems(Merged(defaults.exclude, t.exclude), Merged(defaults.redact, t.redact))
           im == ImpactProblems(s.impact)
<1>1. TargetProblems(defaults, t, dir, needs) = ca \o fs \o be \o bs \o ff \o bf \o ru \o im
  BY Zenon DEF TargetProblems
<1>2. \A a, b : IsSequence(a) /\ IsSequence(b) => IsSequence(a \o b)  BY Together
<1>3. \A c, n : IsSequence(CandidateProblems(c, n))
  BY <1>2, ProblemsAreLists, Zenon DEF CandidateProblems
<1>4. IsSequence(<<>>) /\ IsSequence(<<"source">>)
  <2>1. IsSequence(Problem(FALSE, "source")) /\ IsSequence(Problem(TRUE, "source"))  BY ProblemsAreLists
  <2> QED BY <2>1 DEF Problem
<1>5. \A x, n : IsSequence(SourceProblems(x, n))
  <2> TAKE x, n
  <2>1. CASE x.source = "puppetdb"  BY <2>1, ProblemsAreLists DEF SourceProblems
  <2>2. CASE x.source = "file"  BY <2>2, ProblemsAreLists DEF SourceProblems
  <2>3. CASE x.source = ""  BY <2>3, ProblemsAreLists DEF SourceProblems
  <2>4. CASE x.source \notin {"puppetdb", "file", ""}  BY <2>4, <1>4 DEF SourceProblems
  <2> QED BY <2>1, <2>2, <2>3, <2>4
<1>6. \A x, d, c : IsSequence(FileAt(x, d, c).problems)
  <2> TAKE x, d, c
  <2>1. CASE x.source = "file" /\ x.file # <<>>
    <3> DEFINE at == ResolveFilePath(x.file[1], d, c)
    <3>1. PICK p, q, y, z, v : at = [problems |-> Problem(p, y) \o Problem(q, z), value |-> v]
      BY Zenon DEF ResolveFilePath
    <3>2. FileAt(x, d, c) = [at EXCEPT !.value = <<at.value>>]  BY <2>1 DEF FileAt
    <3>3. FileAt(x, d, c).problems = Problem(p, y) \o Problem(q, z)
      <4> HIDE DEF at
      <4> QED BY <3>1, <3>2
    <3> QED BY <3>3, <1>2, ProblemsAreLists
  <2>2. CASE ~(x.source = "file" /\ x.file # <<>>)  BY <2>2, <1>4 DEF FileAt
  <2> QED BY <2>1, <2>2
<1>7. \A x, r : IsSequence(RuleProblems(x, r))
  BY <1>2, ProblemsAreLists, Zenon DEF RuleProblems
<1>8. IsSequence(im)  BY LimitsAreAsked
<1>9. /\ IsSequence(ca) /\ IsSequence(fs) /\ IsSequence(be) /\ IsSequence(bs)
      /\ IsSequence(ff) /\ IsSequence(bf) /\ IsSequence(ru)
  BY <1>3, <1>5, <1>6, <1>7, ProblemsAreLists, Zenon
<1> HIDE DEF ca, fs, be, bs, ff, bf, ru, im
<1>10. IsSequence(ca \o fs \o be \o bs \o ff \o bf \o ru)
  <2>1. IsSequence(ca \o fs \o be)  BY <1>2, <1>9, Zenon
  <2>2. IsSequence(ca \o fs \o be \o bs \o ff)  BY <1>2, <1>9, <2>1, Zenon
  <2> QED BY <1>2, <1>9, <2>2, Zenon
<1>11. /\ IsSequence(ca \o fs \o be \o bs \o ff \o bf \o ru \o im)
       /\ ca \o fs \o be \o bs \o ff \o bf \o ru \o im = <<>> => im = <<>>
  BY <1>8, <1>10, Together, Zenon
<1> QED BY <1>1, <1>11 DEF im

\* The empty list has no entry.
LEMMA NothingHasNoPlace == \A s : s = <<>> => \A i : i \notin DOMAIN s
OBVIOUS

\* Of a resolved target, what it says of estimates.
LEMMA ResolvedImpact ==
  \A d, t, dir : ResolvedTarget(d, t, dir).impact = ImpactPolicy(MergeScalars(d, t).impact)
BY DEF ResolvedTarget

\* A resolved target with an estimate has a limit for it.
LEMMA ResolvedLimits ==
  ASSUME NEW f \in TargetFiles, NEW c, NEW env,
         NEW i \in DOMAIN LoadTargetFile(f, TargetDir, c, env).value,
         LoadTargetFile(f, TargetDir, c, env).value[i].impact.enabled
  PROVE  LoadTargetFile(f, TargetDir, c, env).value[i].impact.resultLimit \in Nat \ {0}
<1> DEFINE r == LoadTargetFile(f, TargetDir, c, env).value
           g == Apply(env, f[1])
           p(j) == MergeScalars(g.defaults, g.targets[j]).impact
           entry(j) == EntryProblems(g, j, TargetDir, Needs(c))
           seqs == [j \in DOMAIN g.targets |-> entry(j)]
           a == Problem(g.version # 1, "target file version")
           b == Problem(g.targets = <<>>, "no targets")
           n == Len(g.targets)
<1>1. /\ f # Undecodable /\ IsTargetFile(f[1])
      /\ i \in DOMAIN g.targets
      /\ r[i] = ResolvedTarget(g.defaults, g.targets[i], TargetDir)
  BY ReadingResolves
<1>2. n \in Nat /\ DOMAIN g.targets = 1 .. n  BY <1>1, Overridden
<1>3. a \o b \o FlattenSeq(seqs) = <<>>
  <2> SUFFICES ASSUME a \o b \o FlattenSeq(seqs) # <<>>  PROVE FALSE
    OBVIOUS
  <2>1. r = ResolveTargets(g, TargetDir, c).value  BY <1>1 DEF LoadTargetFile
  <2>2. ASSUME r = <<>>  PROVE FALSE
    <3>1. i \in DOMAIN r  OBVIOUS
    <3> HIDE DEF r
    <3>2. r = <<>>  BY <2>2
    <3> QED BY <3>1, <3>2, NothingHasNoPlace
  <2>3. ResolveTargets(g, TargetDir, c).value = <<>>
    <3> HIDE DEF r, g
    <3> QED BY Zenon DEF ResolveTargets
  <2> HIDE DEF r
  <2> QED BY <2>1, <2>2, <2>3
<1>4. \A j \in DOMAIN g.targets : IsImpact(p(j))  BY <1>1, ImpactsStay
<1>5. r[i].impact = ImpactPolicy(p(i))
  <2> HIDE DEF r
  <2> QED BY <1>1, ResolvedImpact
<1>6. p(i).enabled
  <2>1. r[i].impact.enabled  OBVIOUS
  <2> HIDE DEF r, p
  <2> QED BY <1>5, <2>1 DEF ImpactPolicy
<1>7. ASSUME NEW j \in DOMAIN g.targets
      PROVE  IsSequence(entry(j)) /\ (entry(j) = <<>> => ImpactProblems(p(j)) = <<>>)
  <2> HIDE DEF g
  <2> DEFINE t == g.targets[j]
             own == TargetProblems(g.defaults, t, TargetDir, Needs(c))
  <2>1. \/ entry(j) = <<"certname">> \/ entry(j) = <<"duplicate certname">>
        \/ entry(j) = own
    BY DEF EntryProblems
  <2>2. IsSequence(own) /\ (own = <<>> => ImpactProblems(p(j)) = <<>>)
    BY <1>4, NoProblemWithLimits, Zenon
  <2>3. IsSequence(<<"certname">>) /\ IsSequence(<<"duplicate certname">>)
    <3>1. IsSequence(Problem(TRUE, "certname")) /\ IsSequence(Problem(TRUE, "duplicate certname"))
      BY ProblemsAreLists
    <3> QED BY <3>1 DEF Problem
  <2>4. <<"certname">> # <<>> /\ <<"duplicate certname">> # <<>>  OBVIOUS
  <2> HIDE DEF own, entry, p
  <2> QED BY <2>1, <2>2, <2>3, <2>4, Zenon
<1> HIDE DEF r, g, p, entry
<1>8. IsSequence(FlattenSeq(seqs)) /\ (FlattenSeq(seqs) = <<>> => \A j \in 1 .. n : seqs[j] = <<>>)
  <2>1. \A j \in 1 .. n : IsSequence(seqs[j])  BY <1>2, <1>7
  <2>2. ListOf(n, seqs)  BY <1>2 DEF ListOf
  <2> HIDE DEF seqs, n
  <2> QED BY <1>2, <2>1, <2>2, NothingFlattened
<1>9. FlattenSeq(seqs) = <<>>
  <2>1. IsSequence(a) /\ IsSequence(b)  BY ProblemsAreLists
  <2> HIDE DEF a, b, seqs
  <2>2. IsSequence(a \o b)  BY <2>1, Together
  <2> QED BY <1>3, <1>8, <2>2, Together, Zenon
<1>10. seqs[i] = <<>>
  <2> HIDE DEF seqs, n
  <2> QED BY <1>1, <1>2, <1>8, <1>9
<1>11. ImpactProblems(p(i)) = <<>>  BY <1>1, <1>7, <1>10
<1>12. ImpactPolicy(p(i)).resultLimit \in Nat \ {0}
  BY <1>1, <1>4, <1>6, <1>11, LimitsAreAsked
<1> QED BY <1>5, <1>12 DEF r

\* A reader has met an end before it should, or is after a backslash, or has
\* read some of the title.
Readers(C) == [bad : BOOLEAN, escaping : BOOLEAN, read : Seq(C)]

NothingRead == [bad |-> FALSE, escaping |-> FALSE, read |-> <<>>]

\* Reading one character of the alphabet leaves a reader of it.
LEMMA ReadersStay ==
  ASSUME NEW C, DOMAIN Letters \subseteq C, NEW s \in Readers(C), NEW c \in C
  PROVE  ReadCharacter(s, c) \in Readers(C)
<1> DEFINE d == CHOOSE d \in DOMAIN Letters : Letters[d] = c
           plain == Append(s.read, c)
           letter == Append(s.read, d)
<1>1. /\ s = [bad |-> s.bad, escaping |-> s.escaping, read |-> s.read]
      /\ s.bad \in BOOLEAN /\ s.escaping \in BOOLEAN /\ s.read \in Seq(C)
  BY DEF Readers
<1>2. plain \in Seq(C)  BY <1>1, AppendProperties
<1>3. (\E x \in DOMAIN Letters : Letters[x] = c) => letter \in Seq(C)
  <2> SUFFICES ASSUME \E x \in DOMAIN Letters : Letters[x] = c  PROVE letter \in Seq(C)
    OBVIOUS
  <2>1. d \in C  OBVIOUS
  <2> HIDE DEF d
  <2> QED BY <1>1, <2>1, AppendProperties
<1>4. \/ ReadCharacter(s, c) = s
      \/ (\E x \in DOMAIN Letters : Letters[x] = c)
           /\ ReadCharacter(s, c) = [s EXCEPT !.escaping = FALSE, !.read = letter]
      \/ ReadCharacter(s, c) = [s EXCEPT !.bad = TRUE]
      \/ ReadCharacter(s, c) = [s EXCEPT !.escaping = TRUE]
      \/ ReadCharacter(s, c) = [s EXCEPT !.read = plain]
  <2>1. CASE s.bad  BY <2>1 DEF ReadCharacter
  <2>2. CASE ~s.bad /\ s.escaping
    <3>1. CASE \E x \in DOMAIN Letters : Letters[x] = c
      BY <2>2, <3>1 DEF ReadCharacter
    <3>2. CASE ~ \E x \in DOMAIN Letters : Letters[x] = c
      BY <2>2, <3>2 DEF ReadCharacter
    <3> QED BY <3>1, <3>2
  <2>3. CASE ~s.bad /\ ~s.escaping /\ c = Backslash  BY <2>3 DEF ReadCharacter
  <2>4. CASE ~s.bad /\ ~s.escaping /\ c # Backslash  BY <2>4 DEF ReadCharacter
  <2> QED BY <1>1, <2>1, <2>2, <2>3, <2>4
<1> HIDE DEF plain, letter
<1> QED BY <1>1, <1>2, <1>3, <1>4 DEF Readers

\* What a reader makes of a character: as it is, a backslash, or what follows one.
LEMMA ReadCharacters ==
  ASSUME NEW s, s.bad = FALSE, s = [bad |-> s.bad, escaping |-> s.escaping, read |-> s.read]
  PROVE  /\ \A c : s.escaping = FALSE /\ c \notin DOMAIN Letters =>
              ReadCharacter(s, c) = [s EXCEPT !.read = Append(@, c)]
         /\ s.escaping = FALSE => ReadCharacter(s, Backslash) = [s EXCEPT !.escaping = TRUE]
         /\ \A c \in DOMAIN Letters : s.escaping = TRUE =>
              ReadCharacter(s, Letters[c]) = [s EXCEPT !.escaping = FALSE, !.read = Append(@, c)]
<1>1. Quote \in DOMAIN Letters /\ Backslash \in DOMAIN Letters  BY LettersTellCharacters
<1>2. ASSUME NEW c, s.escaping = FALSE, c \notin DOMAIN Letters
      PROVE  ReadCharacter(s, c) = [s EXCEPT !.read = Append(@, c)]
  <2>1. c # Backslash /\ c # Quote  BY <1>1, <1>2
  <2> QED BY <1>2, <2>1 DEF ReadCharacter
<1>3. s.escaping = FALSE => ReadCharacter(s, Backslash) = [s EXCEPT !.escaping = TRUE]
  BY DEF ReadCharacter
<1>4. ASSUME NEW c \in DOMAIN Letters, s.escaping = TRUE
      PROVE  ReadCharacter(s, Letters[c]) = [s EXCEPT !.escaping = FALSE, !.read = Append(@, c)]
  <2> DEFINE d == CHOOSE d \in DOMAIN Letters : Letters[d] = Letters[c]
  <2>1. d = c  BY LettersTellCharacters
  <2>2. ReadCharacter(s, Letters[c]) = [s EXCEPT !.escaping = FALSE, !.read = Append(@, d)]
    BY <1>4 DEF ReadCharacter
  <2> HIDE DEF d
  <2> QED BY <2>1, <2>2
<1> QED BY <1>2, <1>3, <1>4

ReadStepwise(text, C) ==
  \E st \in [0 .. Len(text) -> Readers(C)] :
    /\ st[0] = NothingRead
    /\ \A i \in 1 .. Len(text) : st[i] = ReadCharacter(st[i - 1], text[i])
    /\ ReadLiteral(text) = IF st[Len(text)].bad \/ st[Len(text)].escaping THEN <<>>
                           ELSE <<st[Len(text)].read>>

\* A literal is read one character at a time, from its first to its last.
LEMMA LiteralsAreReadStepwise ==
  ASSUME NEW C, DOMAIN Letters \subseteq C, NEW text \in Seq(C)
  PROVE  ReadStepwise(text, C)
<1> DEFINE n == Len(text)
           V == Readers(C)
           round == [i \in 1 .. n |-> [v \in V |-> ReadCharacter(v, text[i])]]
           Result(f) == [i \in 0 .. n |-> IF i = 0 THEN NothingRead
                                          ELSE ReadCharacter(f[i - 1], text[i])]
           state == CHOOSE f : f = Result(f)
<1>1. n \in Nat /\ \A i \in 1 .. n : text[i] \in C  BY LenProperties
<1>2. NothingRead \in V
  <2>1. <<>> \in Seq(C)  OBVIOUS
  <2> QED BY <2>1 DEF NothingRead, Readers
<1>3. ReadLiteral(text) = IF state[n].bad \/ state[n].escaping THEN <<>> ELSE <<state[n].read>>
  BY Zenon DEF ReadLiteral, NothingRead
<1> HIDE DEF n
<1>4. \A i \in 1 .. n, v \in V : ReadCharacter(v, text[i]) \in V
  BY <1>1, ReadersStay
<1> HIDE DEF V
<1>5. round \in [1 .. n -> [V -> V]]  BY <1>4
<1>6. PICK f \in [0 .. n -> V] : f[0] = NothingRead /\ \A i \in 1 .. n : f[i] = round[i][f[i - 1]]
  <2> DEFINE e == NothingRead
  <2>1. e \in V /\ n \in Nat  BY <1>1, <1>2
  <2> HIDE DEF round, e, Result, state
  <2>2. \E f \in [0 .. n -> V] : f[0] = e /\ \A i \in 1 .. n : f[i] = round[i][f[i - 1]]
    BY <1>5, <2>1, Loop
  <2> QED BY <2>2 DEF e
<1>7. ASSUME NEW i \in 1 .. n  PROVE f[i] = ReadCharacter(f[i - 1], text[i])
  <2>1. i - 1 \in 0 .. n  BY <1>1
  <2>2. f[i - 1] \in V  BY <2>1
  <2> QED BY <1>6, <2>2
<1> HIDE DEF round
<1>8. f = Result(f)
  <2>1. ASSUME NEW i \in 0 .. n  PROVE f[i] = Result(f)[i]
    <3>1. CASE i = 0  BY <1>6, <3>1
    <3>2. CASE i # 0
      <4>1. i \in 1 .. n  BY <1>1, <3>2
      <4> QED BY <1>7, <3>2, <4>1
    <3> QED BY <3>1, <3>2
  <2>2. f = [i \in 0 .. n |-> f[i]]  OBVIOUS
  <2>3. Result(f) = [i \in 0 .. n |-> Result(f)[i]]  OBVIOUS
  <2> HIDE DEF Result
  <2> QED BY <2>1, <2>2, <2>3
<1>9. state = Result(state)
  <2> HIDE DEF Result
  <2> QED BY <1>8
<1> HIDE DEF state
<1>10. /\ state[0] = NothingRead
       /\ \A i \in 1 .. n : state[i] = ReadCharacter(state[i - 1], text[i])
  <2>1. \A i \in 0 .. n : state[i] = IF i = 0 THEN NothingRead
                                     ELSE ReadCharacter(state[i - 1], text[i])
    BY <1>9
  <2> HIDE DEF Result
  <2> QED BY <1>1, <2>1
<1> HIDE DEF Result
<1>11. \A i \in 0 .. n : state[i] \in V
  <2> DEFINE T == {k \in Nat : k <= n => state[k] \in V}
  <2>1. 0 \in T  BY <1>2, <1>10
  <2>2. ASSUME NEW k \in T  PROVE k + 1 \in T
    <3> SUFFICES ASSUME k + 1 <= n  PROVE state[k + 1] \in V
      OBVIOUS
    <3>1. k + 1 \in 1 .. n /\ (k + 1) - 1 = k /\ state[k] \in V  BY <1>1
    <3> QED BY <1>4, <1>10, <3>1
  <2>3. T = Nat
    <3>1. T \subseteq Nat  OBVIOUS
    <3> HIDE DEF T
    <3> QED BY <2>1, <2>2, <3>1, CountingUp
  <2> QED BY <1>1, <2>3
<1>12. state = [i \in 0 .. n |-> state[i]]
  BY <1>9 DEF Result
<1>13. state \in [0 .. n -> V]  BY <1>11, <1>12
<1> QED BY <1>3, <1>10, <1>13 DEF ReadStepwise, n, V

\* A reader who is through with the first characters of a title, and no other.
HasRead(s, title, k) ==
  /\ s.bad = FALSE /\ s.escaping = FALSE
  /\ Len(s.read) = k /\ \A i \in 1 .. k : s.read[i] = title[i]

\* One more character of the title takes a reader through its one or two.
LEMMA EscapedIsRead ==
  ASSUME NEW C, DOMAIN Letters \subseteq C, NEW title, NEW k \in Nat, title[k + 1] \in C,
         NEW s \in Readers(C), HasRead(s, title, k)
  PROVE  /\ title[k + 1] \notin DOMAIN Letters =>
              HasRead(ReadCharacter(s, title[k + 1]), title, k + 1)
         /\ title[k + 1] \in DOMAIN Letters =>
              HasRead(ReadCharacter(ReadCharacter(s, Backslash), Letters[title[k + 1]]), title, k + 1)
<1> DEFINE c == title[k + 1]
           r == Append(s.read, c)
           after == [bad |-> FALSE, escaping |-> FALSE, read |-> r]
           waiting == [bad |-> FALSE, escaping |-> TRUE, read |-> s.read]
<1>1. /\ s = [bad |-> FALSE, escaping |-> FALSE, read |-> s.read]
      /\ s.bad = FALSE /\ s.escaping = FALSE /\ s.read \in Seq(C)
      /\ s = [bad |-> s.bad, escaping |-> s.escaping, read |-> s.read]
  BY DEF Readers, HasRead
<1>2. HasRead(after, title, k + 1)
  <2>1. Len(s.read) = k /\ \A i \in 1 .. k : s.read[i] = title[i]  BY DEF HasRead
  <2>2. /\ r \in Seq(C) /\ Len(r) = k + 1 /\ r[k + 1] = c
        /\ \A i \in 1 .. k : r[i] = s.read[i]
    BY <1>1, <2>1, AppendProperties
  <2> HIDE DEF r, c
  <2>3. ASSUME NEW i \in 1 .. k + 1  PROVE r[i] = title[i]
    <3>1. CASE i = k + 1  BY <2>2, <3>1 DEF c
    <3>2. CASE i # k + 1
      <4>1. i \in 1 .. k  BY <3>2
      <4> QED BY <2>1, <2>2, <4>1
    <3> QED BY <3>1, <3>2
  <2> QED BY <2>2, <2>3 DEF HasRead
<1> HIDE DEF c
<1>3. ASSUME c \notin DOMAIN Letters  PROVE ReadCharacter(s, c) = after
  <2>1. ReadCharacter(s, c) = [s EXCEPT !.read = Append(@, c)]  BY <1>1, <1>3, ReadCharacters
  <2> QED BY <1>1, <2>1
<1>4. ReadCharacter(s, Backslash) = waiting
  <2>1. ReadCharacter(s, Backslash) = [s EXCEPT !.escaping = TRUE]  BY <1>1, ReadCharacters
  <2> QED BY <1>1, <2>1
<1>5. ASSUME c \in DOMAIN Letters  PROVE ReadCharacter(waiting, Letters[c]) = after
  <2>1. /\ waiting.bad = FALSE /\ waiting.escaping = TRUE /\ waiting.read = s.read
        /\ waiting = [bad |-> waiting.bad, escaping |-> waiting.escaping, read |-> waiting.read]
    OBVIOUS
  <2> HIDE DEF waiting
  <2>2. ReadCharacter(waiting, Letters[c])
          = [waiting EXCEPT !.escaping = FALSE, !.read = Append(@, c)]
    BY <1>5, <2>1, ReadCharacters
  <2> QED BY <2>1, <2>2
<1> HIDE DEF after, waiting
<1> QED BY <1>2, <1>3, <1>4, <1>5 DEF c

\* Lists of one and of two are lists.
LEMMA ShortLists == \A C : \A a, b \in C : <<a>> \in Seq(C) /\ <<a, b>> \in Seq(C)
OBVIOUS

\* PuppetDB reads the title that the literal was made of, whatever characters
\* there are in it (pql.go:83-131).
LEMMA LiteralsAreReadBack ==
  ASSUME NEW title, IsSequence(title)
  PROVE  ReadLiteral(QuotePQLString(title)) = <<title>>
<1> DEFINE n == Len(title)
           seqs == [i \in DOMAIN title |-> Escaped(title[i])]
           C == {title[i] : i \in DOMAIN title} \cup {Backslash}
                  \cup {Letters[c] : c \in DOMAIN Letters} \cup DOMAIN Letters
           text == QuotePQLString(title)
<1>1. n \in Nat /\ DOMAIN title = 1 .. n  BY ListsHaveLengths
<1>2. DOMAIN Letters \subseteq C /\ Backslash \in C /\ (\A i \in 1 .. n : title[i] \in C)
      /\ \A c \in DOMAIN Letters : Letters[c] \in C
  BY <1>1
<1>3. text = FlattenSeq(seqs) /\ ListOf(n, seqs)  BY <1>1 DEF QuotePQLString, ListOf
<1>4. title \in Seq(C)
  <2> DEFINE D == {title[i] : i \in DOMAIN title}
  <2>1. title \in Seq(D) /\ D \subseteq C  BY DEF IsSequence
  <2> HIDE DEF C, D
  <2> QED BY <2>1, SeqMonotonic
<1>5. \A i \in 1 .. n :
        /\ title[i] \in DOMAIN Letters => /\ seqs[i] = <<Backslash, Letters[title[i]]>>
                                          /\ Len(seqs[i]) = 2
        /\ title[i] \notin DOMAIN Letters => seqs[i] = <<title[i]>> /\ Len(seqs[i]) = 1
  BY <1>1 DEF Escaped
<1> HIDE DEF C
<1>6. AreLists(n, seqs, C)
  <2> SUFFICES ASSUME NEW i \in 1 .. n  PROVE seqs[i] \in Seq(C)
    BY DEF AreLists
  <2>1. CASE title[i] \in DOMAIN Letters
    <3>1. seqs[i] = <<Backslash, Letters[title[i]]>>  BY <1>5, <2>1
    <3>2. Backslash \in C /\ Letters[title[i]] \in C  BY <1>2, <2>1
    <3> QED BY <3>1, <3>2, ShortLists
  <2>2. CASE title[i] \notin DOMAIN Letters
    <3>1. seqs[i] = <<title[i]>>  BY <1>5, <2>2
    <3> QED BY <1>2, <3>1, ShortLists
  <2> QED BY <2>1, <2>2
<1> HIDE DEF seqs, n
<1>7. PICK flat \in [0 .. n -> Seq(C)] :
        /\ flat[0] = <<>> /\ FlattenSeq(seqs) = flat[n]
        /\ \A i \in 1 .. n : flat[i] = flat[i - 1] \o seqs[i]
  <2>1. Stepwise(n, seqs, C)  BY <1>1, <1>3, <1>6, FlattenedStepwise
  <2> QED BY <2>1 DEF Stepwise
<1> DEFINE L(k) == Len(flat[k])
           m == Len(text)
<1> HIDE DEF text
<1>8. text = flat[n] /\ text \in Seq(C) /\ m \in Nat /\ m = L(n)
  <2>1. text = flat[n]  BY <1>3, <1>7
  <2>2. text \in Seq(C)  BY <1>1, <2>1
  <2>3. m \in Nat  BY <2>2, LenProperties
  <2> QED BY <2>1, <2>2, <2>3
<1>9. /\ \A k \in 0 .. n : /\ L(k) \in Nat /\ L(k) <= L(n)
                           /\ \A j \in 1 .. L(k) : flat[n][j] = flat[k][j]
      /\ \A k \in 1 .. n : /\ L(k) = L(k - 1) + Len(seqs[k])
                           /\ \A j \in 1 .. Len(seqs[k]) : flat[k][L(k - 1) + j] = seqs[k][j]
  <2>1. AreJoined(n, seqs, flat)  BY <1>7 DEF AreJoined
  <2>2. Grows(n, seqs, flat)
    <3> HIDE DEF L
    <3> QED BY <1>1, <1>6, <2>1, FlattenedGrows
  <2> QED BY <2>2 DEF Grows
<1>10. PICK st \in [0 .. m -> Readers(C)] :
         /\ st[0] = NothingRead
         /\ \A i \in 1 .. m : st[i] = ReadCharacter(st[i - 1], text[i])
         /\ ReadLiteral(text) = IF st[m].bad \/ st[m].escaping THEN <<>> ELSE <<st[m].read>>
  <2>1. ReadStepwise(text, C)  BY <1>2, <1>8, LiteralsAreReadStepwise
  <2> QED BY <2>1 DEF ReadStepwise
<1> HIDE DEF m
<1> DEFINE Through(k) == HasRead(st[L(k)], title, k)
           T == {k \in Nat : k <= n => Through(k)}
<1>11. 0 \in T
  <2>1. L(0) = 0  BY <1>7
  <2>2. HasRead(NothingRead, title, 0)  BY DEF HasRead, NothingRead
  <2>3. Through(0)
    <3> HIDE DEF L
    <3> QED BY <1>10, <2>1, <2>2
  <2> HIDE DEF Through
  <2> QED BY <2>3
<1>12. ASSUME NEW k \in T  PROVE k + 1 \in T
  <2> SUFFICES ASSUME k + 1 <= n  PROVE Through(k + 1)
    <3>1. k + 1 \in Nat  OBVIOUS
    <3> HIDE DEF Through
    <3> QED BY <3>1
  <2> DEFINE c == title[k + 1]
             p == L(k)
             q == L(k + 1)
             z == Len(seqs[k + 1])
             s == st[p]
  <2>1. /\ k \in Nat /\ k \in 0 .. n /\ k + 1 \in 0 .. n /\ k + 1 \in 1 .. n
        /\ (k + 1) - 1 = k /\ k <= n
    <3> HIDE DEF Through
    <3> QED BY <1>1
  <2>2. HasRead(s, title, k)
    <3>1. Through(k)
      <4> HIDE DEF Through
      <4> QED BY <2>1
    <3> QED BY <3>1
  <2>3. c \in C  BY <1>2, <2>1
  <2>4. p \in Nat /\ q \in Nat /\ q <= L(n) /\ q = p + z
    <3> HIDE DEF L
    <3>1. L(k) \in Nat  BY <1>9, <2>1
    <3>2. L(k + 1) \in Nat /\ L(k + 1) <= L(n)  BY <1>9, <2>1
    <3>3. L(k + 1) = L((k + 1) - 1) + Len(seqs[k + 1])  BY <1>9, <2>1
    <3> QED BY <2>1, <3>1, <3>2, <3>3
  <2>5. \A j \in 1 .. q : text[j] = flat[k + 1][j]  BY <1>8, <1>9, <2>1
  <2>6. \A j \in 1 .. z : flat[k + 1][p + j] = seqs[k + 1][j]
    <3> HIDE DEF L
    <3>1. \A j \in 1 .. Len(seqs[k + 1]) : flat[k + 1][L((k + 1) - 1) + j] = seqs[k + 1][j]
      BY <1>9, <2>1
    <3> QED BY <2>1, <3>1
  <2>7. st[q] = st[L(k + 1)]  OBVIOUS
  <2> HIDE DEF T, L
  <2>8. /\ c \in DOMAIN Letters => seqs[k + 1] = <<Backslash, Letters[c]>> /\ z = 2
        /\ c \notin DOMAIN Letters => seqs[k + 1] = <<c>> /\ z = 1
    BY <1>5, <2>1
  <2> HIDE DEF p, q, z
  <2>9. s \in Readers(C)
    <3>1. p \in 0 .. m
      <4>1. z \in Nat  BY <2>8
      <4>2. p <= q /\ q <= m  BY <1>8, <2>4, <4>1
      <4> QED BY <1>8, <2>4, <4>2
    <3> QED BY <1>10, <3>1
  <2>10. CASE c \notin DOMAIN Letters
    <3>1. z = 1 /\ seqs[k + 1][1] = c  BY <2>8, <2>10
    <3>2. q = p + 1 /\ q \in 1 .. q /\ q \in 1 .. m /\ q - 1 = p /\ 1 \in 1 .. z
      BY <1>8, <2>4, <3>1
    <3>3. text[q] = c  BY <2>5, <2>6, <3>1, <3>2
    <3>4. st[q] = ReadCharacter(s, c)  BY <1>10, <3>2, <3>3
    <3>5. HasRead(st[q], title, k + 1)
      <4>1. HasRead(ReadCharacter(s, c), title, k + 1)
        <5> HIDE DEF s
        <5> QED BY <1>2, <2>1, <2>2, <2>3, <2>9, <2>10, EscapedIsRead
      <4> QED BY <3>4, <4>1
    <3> QED BY <3>5 DEF q
  <2>11. CASE c \in DOMAIN Letters
    <3>1. z = 2 /\ seqs[k + 1][1] = Backslash /\ seqs[k + 1][2] = Letters[c]  BY <2>8, <2>11
    <3>2. /\ q = p + 2 /\ p + 1 \in 1 .. q /\ q \in 1 .. q /\ p + 1 \in 1 .. m /\ q \in 1 .. m
          /\ q - 1 = p + 1 /\ (p + 1) - 1 = p /\ 1 \in 1 .. z /\ 2 \in 1 .. z
      BY <1>8, <2>4, <3>1
    <3>3. text[p + 1] = Backslash  BY <2>5, <2>6, <3>1, <3>2
    <3>4. text[q] = Letters[c]
      <4>1. flat[k + 1][p + 2] = Letters[c]  BY <2>6, <3>1, <3>2
      <4> QED BY <2>5, <3>2, <4>1
    <3>5. st[p + 1] = ReadCharacter(s, Backslash)  BY <1>10, <3>2, <3>3
    <3>6. st[q] = ReadCharacter(st[p + 1], Letters[c])  BY <1>10, <3>2, <3>4
    <3>7. HasRead(st[q], title, k + 1)
      <4>1. HasRead(ReadCharacter(ReadCharacter(s, Backslash), Letters[c]), title, k + 1)
        <5> HIDE DEF s
        <5> QED BY <1>2, <2>1, <2>2, <2>3, <2>9, <2>11, EscapedIsRead
      <4> QED BY <3>5, <3>6, <4>1
    <3> QED BY <3>7 DEF q
  <2> QED BY <2>10, <2>11
<1>13. T = Nat
  <2>1. T \subseteq Nat  OBVIOUS
  <2> HIDE DEF T
  <2> QED BY <1>11, <1>12, <2>1, CountingUp
<1>14. HasRead(st[m], title, n)
  <2>1. Through(n)
    <3>1. n \in T
      <4> HIDE DEF T
      <4> QED BY <1>1, <1>13
    <3> HIDE DEF Through
    <3> QED BY <1>1, <3>1
  <2> QED BY <1>8, <2>1
<1>15. st[m].read = title
  <2> DEFINE r == st[m].read
  <2>1. r \in Seq(C)
    <3>1. m \in 0 .. m  BY <1>8
    <3>2. st[m] \in Readers(C)  BY <3>1
    <3> QED BY <3>2 DEF Readers
  <2>2. Len(r) = n /\ \A i \in 1 .. n : r[i] = title[i]  BY <1>14 DEF HasRead
  <2> HIDE DEF r
  <2>3. Len(r) = Len(title) /\ \A i \in 1 .. Len(r) : r[i] = title[i]  BY <2>2 DEF n
  <2>4. r = title  BY <1>4, <2>1, <2>3, SeqEqual
  <2> QED BY <2>4 DEF r
<1>16. ReadLiteral(text) = <<title>>  BY <1>10, <1>14, <1>15 DEF HasRead
<1> QED BY <1>16 DEF text

\* What is said of a completed estimate and of who held its resource.
NamesTheAffected(e, held) ==
  LET named == ToSet(e.certnames)
  IN  /\ named \subseteq held
      /\ Len(e.certnames) = Min({e.resultLimit, Cardinality(held)})
      /\ \A j, k \in DOMAIN e.certnames : j < k => Precedes(e.certnames[j], e.certnames[k])
      /\ \A c \in named, d \in held \ named : Precedes(c, d)
      /\ e.truncated <=> Cardinality(held) > e.resultLimit

\* The query under way is for the next estimate, and asks for one more than its limit.
AskedOfTheNext ==
  asked # <<>> =>
    asked = <<[pql |-> BuildPQL(Head(queue).id), limit |-> RequestLimit(Head(queue).limits)]>>

AffectedInv ==
  /\ IsSequence(estimates) /\ IsSequence(holders) /\ Len(holders) = Len(estimates)
  /\ AskedOfTheNext
  /\ \A i \in DOMAIN estimates :
       estimates[i].status = "completed" => NamesTheAffected(estimates[i], holders[i])

\* The order of certnames is one.
LEMMA NodesAreOrdered ==
  ASSUME NEW S, S \subseteq Nodes
  PROVE  /\ IsFiniteSet(S)
         /\ StrictOrder({p \in S \X S : Precedes(p[1], p[2])}, S)
<1> DEFINE R == {p \in S \X S : Precedes(p[1], p[2])}
           at(c) == Place(CertnameOrder, c)
<1>1. IsFiniteSet(S)
  <2>1. IsFiniteSet(Nodes)  BY AlphabetsAreFinite, AlphabetsAreSequences DEF Nodes
  <2> QED BY <2>1, FS_Subset
<1>2. \A c \in S : at(c) \in Nat /\ CertnameOrder[at(c)] = c
  BY PlacesTellNames, AlphabetsAreSequences DEF Nodes
<1>3. \A c, d \in S : <<c, d>> \in R <=> at(c) < at(d)  BY DEF Precedes
<1> HIDE DEF R, at
<1>4. \A c \in S : <<c, c>> \notin R  BY <1>2, <1>3
<1>5. \A c, d, e \in S : <<c, d>> \in R /\ <<d, e>> \in R => <<c, e>> \in R  BY <1>2, <1>3
<1>6. ASSUME NEW c \in S, NEW d \in S, c # d  PROVE <<c, d>> \in R \/ <<d, c>> \in R
  <2>1. at(c) # at(d)  BY <1>2, <1>6
  <2>2. at(c) < at(d) \/ at(d) < at(c)  BY <1>2, <2>1
  <2> QED BY <1>3, <2>2
<1>7. StrictOrder(R, S)  BY <1>4, <1>5, <1>6 DEF StrictOrder
<1> QED BY <1>1, <1>7 DEF R

\* The first of some, in their order.
LEMMA FirstOf ==
  ASSUME NEW S, NEW names \in Seq(S), NEW most \in Nat,
         NEW first, first = SubSeq(names, 1, IF Len(names) < most THEN Len(names) ELSE most)
  PROVE  /\ first \in Seq(S) /\ Len(first) = IF Len(names) < most THEN Len(names) ELSE most
         /\ \A i \in 1 .. Len(first) : i \in 1 .. Len(names) /\ first[i] = names[i]
<1> DEFINE n == Len(names)
           m == IF n < most THEN n ELSE most
           cut == SubSeq(names, 1, m)
<1>1. first = cut  OBVIOUS
<1>2. n \in Nat /\ \A i \in 1 .. n : names[i] \in S  BY LenProperties
<1>3. m \in Nat /\ m <= n  BY <1>2
<1> HIDE DEF m
<1>4. \A i \in 1 .. m : i \in 1 .. n /\ names[i] \in S  BY <1>2, <1>3
<1>5. /\ cut \in Seq(S) /\ Len(cut) = IF 1 <= m THEN m - 1 + 1 ELSE 0
      /\ \A i \in 1 .. m - 1 + 1 : cut[i] = names[1 + i - 1]
  BY <1>2, <1>3, <1>4, SubSeqProperties
<1> HIDE DEF cut
<1>6. Len(cut) = m  BY <1>3, <1>5
<1>7. \A i \in 1 .. m : i \in 1 .. m - 1 + 1 /\ 1 + i - 1 = i  BY <1>3
<1>8. \A i \in 1 .. m : cut[i] = names[i]  BY <1>5, <1>7
<1> QED BY <1>1, <1>4, <1>5, <1>6, <1>8 DEF m, n

\* PuppetDB answers with the first in order, one more than the limit if there
\* are as many; they are sorted again, to no effect, and the estimate keeps
\* those within its limit.
LEMMA AnswersNameTheAffected ==
  ASSUME NEW held, held \subseteq Nodes, NEW limit \in Nat, NEW e,
         LET names == NodesInOrder(held)
             rows == SubSeq(names, 1, IF Len(names) < limit + 1 THEN Len(names) ELSE limit + 1)
             read == ParseCertnames(rows)
         IN  /\ e.certnames = SubSeq(read, 1, IF Len(read) < limit THEN Len(read) ELSE limit)
             /\ e.resultLimit = limit /\ e.truncated = (Len(read) > limit)
  PROVE  NamesTheAffected(e, held)
<1> DEFINE R == {p \in held \X held : Precedes(p[1], p[2])}
           n == Cardinality(held)
           names == NodesInOrder(held)
           rows == SubSeq(names, 1, IF Len(names) < limit + 1 THEN Len(names) ELSE limit + 1)
           kept == SubSeq(rows, 1, IF Len(rows) < limit THEN Len(rows) ELSE limit)
<1>1. IsFiniteSet(held) /\ StrictOrder(R, held)  BY NodesAreOrdered
<1>2. names = Arranged(held, R)  BY DEF NodesInOrder
<1> DEFINE read == ParseCertnames(rows)
<1>3. /\ e.certnames = SubSeq(read, 1, IF Len(read) < limit THEN Len(read) ELSE limit)
      /\ e.resultLimit = limit /\ e.truncated = (Len(read) > limit)
  OBVIOUS
<1> HIDE DEF names, R, read
<1>4. /\ n \in Nat /\ names \in [1 .. n -> held]
      /\ {names[k] : k \in 1 .. n} = held
      /\ \A i, j \in 1 .. n : i < j => <<names[i], names[j]>> \in R
  <2> HIDE DEF n
  <2> QED BY <1>1, <1>2, ArrangedInOrder DEF n
<1> HIDE DEF n
<1>5. /\ Len(rows) \in Nat /\ rows \in [1 .. Len(rows) -> held]
      /\ \A i \in 1 .. Len(rows) : i \in 1 .. n /\ rows[i] = names[i]
      /\ Len(rows) > limit <=> n > limit
      /\ Len(kept) = IF limit <= n THEN limit ELSE n
      /\ DOMAIN kept = 1 .. Len(kept)
      /\ \A i \in DOMAIN kept : i \in 1 .. n /\ kept[i] = names[i]
  <2>1. /\ names \in Seq(held) /\ Len(names) = n /\ limit + 1 \in Nat
        /\ rows = SubSeq(names, 1, IF Len(names) < limit + 1 THEN Len(names) ELSE limit + 1)
        /\ kept = SubSeq(rows, 1, IF Len(rows) < limit THEN Len(rows) ELSE limit)
    <3>1. names \in Seq(held) /\ Len(names) = n
      <4> HIDE DEF rows, kept
      <4> QED BY <1>4, OfLength
    <3> QED BY <3>1
  <2> HIDE DEF rows, kept
  <2>2. /\ rows \in Seq(held) /\ Len(rows) = IF n < limit + 1 THEN n ELSE limit + 1
        /\ \A i \in 1 .. Len(rows) : i \in 1 .. n /\ rows[i] = names[i]
    <3>1. /\ rows \in Seq(held)
          /\ Len(rows) = IF Len(names) < limit + 1 THEN Len(names) ELSE limit + 1
          /\ \A i \in 1 .. Len(rows) : i \in 1 .. Len(names) /\ rows[i] = names[i]
      BY ONLY <2>1, FirstOf
    <3> QED BY <2>1, <3>1
  <2>3. /\ kept \in Seq(held) /\ Len(kept) = IF Len(rows) < limit THEN Len(rows) ELSE limit
        /\ \A i \in 1 .. Len(kept) : i \in 1 .. Len(rows) /\ kept[i] = rows[i]
    BY ONLY <2>1, <2>2, FirstOf
  <2>4. Len(rows) \in Nat /\ rows \in [1 .. Len(rows) -> held]  BY <2>2, LenProperties
  <2>5. DOMAIN kept = 1 .. Len(kept)  BY <2>3, LenProperties
  <2>6. Len(kept) = (IF limit <= n THEN limit ELSE n) /\ (Len(rows) > limit <=> n > limit)
    BY <1>4, <2>2, <2>3
  <2> QED BY <2>2, <2>3, <2>4, <2>5, <2>6
<1> HIDE DEF rows
<1>6. \A i, j \in 1 .. n : i < j => Precedes(names[i], names[j])  BY <1>4 DEF R
<1>13. read = rows
  <2> DEFINE F == ToSet(rows)
             Q == {p \in F \X F : Precedes(p[1], p[2])}
             m == Len(rows)
  <2>1. F = {rows[k] : k \in 1 .. m} /\ F \subseteq held  BY <1>5 DEF ToSet
  <2>2. rows \in [1 .. m -> F]  BY <1>5, <2>1
  <2>3. StrictOrder(Q, F)
    <3> HIDE DEF F
    <3>1. F \subseteq Nodes  BY <2>1
    <3> QED BY <3>1, NodesAreOrdered
  <2>4. \A i, j \in 1 .. m : i < j => <<rows[i], rows[j]>> \in Q
    <3> HIDE DEF F
    <3> QED BY <1>5, <1>6, <2>2
  <2> HIDE DEF F, Q, m
  <2>5. Arranged(F, Q) = rows
    <3>1. m \in Nat /\ {rows[k] : k \in 1 .. m} = F  BY <1>5, <2>1 DEF m
    <3> QED BY ONLY <2>2, <2>3, <2>4, <3>1, SortedStaysSorted
  <2> QED BY <2>5 DEF read, ParseCertnames, NodesInOrder, F, Q
<1>14. e.certnames = kept /\ e.truncated = (Len(rows) > limit)  BY <1>3, <1>13 DEF kept
<1> HIDE DEF kept
<1>7. Len(kept) = Min({limit, n})  BY <1>4, <1>5, LeastOfTwo
<1> DEFINE named == ToSet(kept)
<1>8. \A c : c \in named <=> \E i \in DOMAIN kept : c = kept[i]  BY DEF ToSet
<1>9. named \subseteq held
  <2> HIDE DEF named
  <2> QED BY <1>4, <1>5, <1>8
<1>10. \A j, k \in DOMAIN kept : j < k => Precedes(kept[j], kept[k])  BY <1>5, <1>6
<1>11. ASSUME NEW c \in named, NEW d \in held \ named  PROVE Precedes(c, d)
  <2> HIDE DEF named
  <2>1. PICK i \in DOMAIN kept : c = kept[i]  BY <1>8
  <2>2. PICK k \in 1 .. n : d = names[k]  BY <1>4
  <2>3. k \notin DOMAIN kept  BY <1>5, <1>8, <2>2
  <2>4. Len(kept) \in Nat  BY <1>4, <1>5
  <2>5. i \in 1 .. n /\ kept[i] = names[i] /\ i < k  BY <1>5, <2>3, <2>4
  <2> QED BY <1>6, <2>1, <2>2, <2>5
<1> HIDE DEF named
<1>12. e.truncated <=> Cardinality(held) > e.resultLimit  BY <1>3, <1>5, <1>14 DEF n
<1> QED BY <1>3, <1>7, <1>9, <1>10, <1>11, <1>12, <1>14 DEF NamesTheAffected, named, n

\* What is estimated next is a resource that changed, and its limit can be met.
LEMMA NextToEstimate ==
  ASSUME ConfigInv, EstimationInv, stage = "estimating", queue # <<>>
  PROVE  /\ Head(queue).id \in Identities
         /\ Head(queue).limits.resultLimit \in Nat
<1> DEFINE L == Len(estimates)
           n == Cardinality(Selected)
           id == Order[L + 1]
<1>1. /\ IsSequence(queue) /\ IsSequence(estimates) /\ OrderIsKept
      /\ Len(nodeDiffs) = Len(targets)
  BY DEF EstimationInv, UnderWay, Over
<1>2. /\ L \in Nat /\ Len(queue) \in Nat /\ Len(queue) >= 1 /\ Head(queue) = queue[1]
      /\ DOMAIN queue = 1 .. Len(queue)
  BY <1>1, ListsHaveLengths, GrowsAndShrinks
<1>3. L + Len(queue) = n  BY <1>1 DEF OrderIsKept
<1>4. Head(queue) = [id |-> id, limits |-> Limits(id)]
  <2>1. 1 \in DOMAIN queue  BY <1>2
  <2> QED BY <1>1, <1>2, <2>1 DEF OrderIsKept
<1>5. id \in Selected
  <2>1. Order \in [1 .. n -> Selected]  BY <1>1, SelectedInOrder
  <2> HIDE DEF n
  <2>2. L + 1 \in 1 .. n  BY <1>2, <1>3
  <2> QED BY <2>1, <2>2
<1> HIDE DEF id, n, L
<1>6. Selected \subseteq Identities /\ Enabling \subseteq DOMAIN targets
  BY <1>1, SelectedAreIdentities
<1>7. Winner(id) \in Enabling  BY <1>1, <1>5, WinnerIsFirst
<1> DEFINE t == Winner(id)
<1>8. t \in DOMAIN targets /\ targets[t].impact.enabled  BY <1>6, <1>7 DEF Enabling
<1> HIDE DEF t
<1>9. targets[t].impact.resultLimit \in Nat
  <2>1. /\ file \in TargetFiles
        /\ targets = LoadTargetFile(file, TargetDir, command, environment).value
    BY DEF ConfigInv, Shapes, ResolvedBySecondReading, Read, Before
  <2> QED BY <1>8, <2>1, ResolvedLimits
<1> QED BY <1>4, <1>5, <1>6, <1>9 DEF Limits, t

\* An estimate joins the others with who held its resource.
LEMMA ConclusionsNameTheAffected ==
  ASSUME AffectedInv, NEW status, NEW names, Concluded(status, names),
         status = "completed" =>
           NamesTheAffected(Estimate(status, names), Holders(Head(queue).id))
  PROVE  AffectedInv'
<1> DEFINE e == Estimate(status, names)
           held == Holders(Head(queue).id)
<1>1. /\ estimates' = Append(estimates, e) /\ holders' = Append(holders, held) /\ asked' = <<>>
      /\ e.status = status
  BY DEF Concluded, Estimate
<1> HIDE DEF e, held
<1>2. IsSequence(estimates) /\ IsSequence(holders) /\ Len(holders) = Len(estimates)
  BY DEF AffectedInv
<1> DEFINE L == Len(estimates)
<1>3. L \in Nat /\ DOMAIN estimates = 1 .. L /\ DOMAIN holders = 1 .. L
  BY <1>2, ListsHaveLengths
<1>4. /\ IsSequence(estimates') /\ Len(estimates') = L + 1
      /\ DOMAIN estimates' = 1 .. L + 1 /\ estimates'[L + 1] = e
      /\ \A i \in DOMAIN estimates : estimates'[i] = estimates[i]
      /\ IsSequence(holders') /\ Len(holders') = L + 1 /\ holders'[L + 1] = held
      /\ \A i \in DOMAIN holders : holders'[i] = holders[i]
  BY <1>1, <1>2, GrowsAndShrinks
<1> HIDE DEF L
<1>5. ASSUME NEW i \in DOMAIN estimates', estimates'[i].status = "completed"
      PROVE  NamesTheAffected(estimates'[i], holders'[i])
  <2>1. CASE i = L + 1  BY <1>1, <1>4, <1>5, <2>1 DEF e, held
  <2>2. CASE i # L + 1
    <3>1. i \in DOMAIN estimates /\ i \in DOMAIN holders  BY <1>3, <1>4, <2>2
    <3>2. estimates'[i] = estimates[i] /\ holders'[i] = holders[i]  BY <1>4, <3>1
    <3> QED BY <1>5, <3>1, <3>2 DEF AffectedInv
  <2> QED BY <2>1, <2>2
<1>6. AskedOfTheNext'  BY <1>1 DEF AskedOfTheNext
<1> QED BY <1>4, <1>5, <1>6 DEF AffectedInv

\* PuppetDB's answer becomes an estimate of who holds the resource as it answers.
LEMMA AnswerNamesTheAffected ==
  ASSUME ConfigInv, EstimationInv, AffectedInv, AnswerRows
  PROVE  AffectedInv'
<1> DEFINE id == Head(queue).id
           limit == Head(queue).limits.resultLimit
           rows == Rows(asked[1])
           read == ParseCertnames(rows)
           e == Estimate("completed", read)
<1>1. asked # <<>> /\ Concluded("completed", read)  BY DEF AnswerRows
<1>2. stage = "estimating" /\ queue # <<>>  BY <1>1 DEF ConfigInv, AskedForAnEstimate
<1>3. id \in Identities /\ limit \in Nat  BY <1>2, NextToEstimate
<1>4. /\ id = [type |-> id.type, title |-> id.title]
      /\ IsSequence(id.type) /\ IsSequence(id.title)
  <2>1. /\ id = [type |-> id.type, title |-> id.title]
        /\ id.type \in ToSet(TypeOrder) /\ id.title \in ToSet(TitleOrder)
    BY <1>3 DEF Identities
  <2> QED BY <2>1, AlphabetsAreSequences
<1>5. asked[1].pql = BuildPQL(id) /\ asked[1].limit = limit + 1
  BY <1>1 DEF AffectedInv, AskedOfTheNext, RequestLimit
<1>6. Meant(asked[1].pql) = id
  <2> HIDE DEF id
  <2>1. /\ asked[1].pql.type = QuotePQLString(id.type)
        /\ asked[1].pql.title = QuotePQLString(id.title)
    BY <1>5 DEF BuildPQL
  <2>2. /\ ReadLiteral(asked[1].pql.type) = <<id.type>>
        /\ ReadLiteral(asked[1].pql.title) = <<id.title>>
    BY <1>4, <2>1, LiteralsAreReadBack
  <2> QED BY <1>4, <2>2 DEF Meant
<1> DEFINE held == Holders(id)
           names == NodesInOrder(held)
<1>7. rows = SubSeq(names, 1, IF Len(names) < limit + 1 THEN Len(names) ELSE limit + 1)
  <2> HIDE DEF id, limit
  <2> QED BY <1>5, <1>6, Zenon DEF Rows
<1>8. held \subseteq Nodes  BY DEF Holders
<1>9. /\ e.certnames = SubSeq(read, 1, IF Len(read) < limit THEN Len(read) ELSE limit)
      /\ e.resultLimit = limit /\ e.truncated = (Len(read) > limit)
  <2> HIDE DEF read
  <2> QED BY DEF Estimate
<1> HIDE DEF e, rows, id, limit
<1>10. NamesTheAffected(e, held)
  <2> DEFINE sent == SubSeq(names, 1, IF Len(names) < limit + 1 THEN Len(names) ELSE limit + 1)
             sorted == ParseCertnames(sent)
  <2>1. sorted = read  BY <1>7
  <2>2. /\ e.certnames = SubSeq(sorted, 1, IF Len(sorted) < limit THEN Len(sorted) ELSE limit)
        /\ e.resultLimit = limit /\ e.truncated = (Len(sorted) > limit)
    <3> HIDE DEF sorted, read
    <3> QED BY <1>9, <2>1
  <2> HIDE DEF held
  <2> QED BY <1>3, <1>8, <2>2, AnswersNameTheAffected
<1> QED BY <1>1, <1>10, ConclusionsNameTheAffected DEF e, id

\* Every step of a command keeps each estimate an account of who was affected.
LEMMA AffectedStep ==
  ASSUME ConfigInv, EstimationInv, AffectedInv, [Next]_vars
  PROVE  AffectedInv'
<1> USE DEF disk, config, puppetdb, result
<1>1. ASSUME UNCHANGED <<estimates, holders, queue, asked>>  PROVE AffectedInv'
  BY <1>1 DEF AffectedInv, AskedOfTheNext
<1>2. CASE UNCHANGED vars \/ SaveTargetFile \/ DecideServices \/ ResolveConfig \/ WorkOnTarget
           \/ FinishEstimates \/ AgentRun
  BY <1>1, <1>2 DEF vars, SaveTargetFile, DecideServices, ResolveConfig, WorkOnTarget,
       FinishEstimates, AgentRun
<1>3. CASE StartEstimates
  <2>1. asked = <<>>  BY <1>3 DEF StartEstimates, ConfigInv, AskedForAnEstimate
  <2>2. asked' = <<>> /\ UNCHANGED <<estimates, holders>>  BY <1>3, <2>1 DEF StartEstimates
  <2> QED BY <2>2 DEF AffectedInv, AskedOfTheNext
<1>4. CASE Ask
  BY <1>4 DEF Ask, AffectedInv, AskedOfTheNext
<1>5. CASE CannotAsk  BY <1>5, ConclusionsNameTheAffected DEF CannotAsk
<1>6. CASE Deadline  BY <1>6, ConclusionsNameTheAffected DEF Deadline
<1>7. CASE AnswerUnusable  BY <1>7, ConclusionsNameTheAffected DEF AnswerUnusable
<1>8. CASE AnswerRows  BY <1>8, AnswerNamesTheAffected
<1> QED BY <1>2, <1>3, <1>4, <1>5, <1>6, <1>7, <1>8 DEF Next, Estimating

\* Each completed estimate names the nodes that held its resource when PuppetDB
\* answered, the first of them in order up to its limit, and is truncated
\* exactly when there were more: for any alphabet that PQL escapes one to one,
\* any limits and any catalogs (querier.go:68-137, pql.go:30-81).
THEOREM EstimatesNameTheAffected == Spec => []EstimateIsWhoIsAffected
<1>1. Init => AffectedInv
  <2>1. IsSequence(<<>>)  BY DEF IsSequence
  <2> SUFFICES ASSUME Init  PROVE AffectedInv
    OBVIOUS
  <2>2. estimates = <<>> /\ holders = <<>> /\ asked = <<>>  BY DEF Init
  <2>3. Len(holders) = Len(estimates) /\ \A i : i \notin DOMAIN estimates
    BY <2>2, NothingHasNoPlace
  <2> QED BY <2>1, <2>2, <2>3 DEF AffectedInv, AskedOfTheNext
<1>2. ConfigInv /\ EstimationInv /\ AffectedInv /\ [Next]_vars => AffectedInv'  BY AffectedStep
<1>3. AffectedInv => EstimateIsWhoIsAffected
  BY DEF AffectedInv, EstimateIsWhoIsAffected, NamesTheAffected
<1> QED BY <1>1, <1>2, <1>3, ConfigInvariant, EstimationInvariant, PTL DEF Spec

=============================================================================
