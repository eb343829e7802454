----------------------------- MODULE Exclusions -----------------------------
(***************************************************************************)
(* internal/diff/exclusion.go: which rows of a full difference a target's  *)
(* exclusion rules take away, and which rule each of them is counted       *)
(* under.  Rules match identities; an edge goes with either endpoint.  A   *)
(* rule's title pattern is the set of titles it matches (path.Match).      *)
(***************************************************************************)
EXTENDS Sorting

MembershipKinds == {"resource_added", "resource_removed"}

MatchesExclusionRule(rule, id) == rule.type = id.type /\ id.title \in rule.titles

Matching(rules, id) == {i \in DOMAIN rules : MatchesExclusionRule(rules[i], id)}

First(indices) == CHOOSE i \in indices : \A j \in indices : i <= j

\* The first rule of an identity, 0 when no rule matches it.
RuleOf(rules, id) == IF Matching(rules, id) = {} THEN 0 ELSE First(Matching(rules, id))

\* Mutant: an edge is counted under its source's rule.
EdgeRuleOfSource(rules, identities, edge) ==
  LET source == IF edge.source \in identities THEN RuleOf(rules, edge.source) ELSE 0
      target == IF edge.target \in identities THEN RuleOf(rules, edge.target) ELSE 0
  IN  IF source # 0 THEN source ELSE target

\* An endpoint that is in neither catalog is never excluded; of two that are,
\* the lower rule counts.
EdgeRule(rules, identities, edge) ==
  LET of == {RuleOf(rules, id) : id \in identities \cap {edge.source, edge.target}} \ {0}
  IN  IF of = {} THEN 0 ELSE First(of)

\* applyExclusions: what is kept, and for every rule that took something away
\* how many resources, parameters and edges it was.
ApplyExclusions(rules, identities, changes, edgeChanges) ==
  LET taken(i) == {j \in DOMAIN changes : RuleOf(rules, changes[j].id) = i}
      takenEdges(i) == {j \in DOMAIN edgeChanges : EdgeRule(rules, identities, edgeChanges[j].edge) = i}
      membership == {j \in DOMAIN changes : changes[j].kind \in MembershipKinds}
      counts == [i \in DOMAIN rules |->
                   [rule |-> i,
                    resources |-> Cardinality(taken(i) \cap membership),
                    parameters |-> Cardinality(taken(i) \ membership),
                    edges |-> Cardinality(takenEdges(i))]]
  IN  [changes |-> Kept(changes, taken(0)),
       edgeChanges |-> Kept(edgeChanges, takenEdges(0)),
       exclusions |-> Kept(counts, {i \in DOMAIN rules : counts[i].resources + counts[i].parameters
                                                           + counts[i].edges > 0})]
=============================================================================
