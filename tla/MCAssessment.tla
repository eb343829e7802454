---------------------------- MODULE MCAssessment ----------------------------
(* Up to three groups, the first out of order and the others of one key,   *)
(* of either reach, with values of four sizes, the smallest also in a      *)
(* group that is large without it; contexts from none to one that leaves   *)
(* no room for a payload.                                                  *)
EXTENDS Assessment

\* One byte of a text is indentation, if it has any bytes.
Sized(size, escapes) ==
  [size |-> size, escapes |-> escapes, compact |-> IF size = 0 THEN 0 ELSE size - 1]

MCBase == Sized(8, 0)
MCMarker == Sized(2, 0)

Short == Sized(3, 1)
Evidence ==
  {[frame |-> Short, value |-> v] : v \in {Sized(0, 0), Sized(2, 0), Sized(6, 4), Sized(14, 2)}}
  \cup {[frame |-> Sized(9, 1), value |-> Sized(2, 0)]}

GroupsOf(n) ==
  {[i \in 1 .. n |-> [change |-> i, key |-> IF i = 1 THEN 2 ELSE 1, reach |-> r[i],
                     frame |-> e[i].frame, value |-> e[i].value]] :
     r \in [1 .. n -> 1 .. 2], e \in [1 .. n -> Evidence]}

Contexts ==
  {[counted |-> 0, actual |-> 0], [counted |-> 14, actual |-> 16],
   [counted |-> 20, actual |-> 20], [counted |-> 24, actual |-> 26],
   [counted |-> 30, actual |-> 33]}

PassingComparisons ==
  {[groups |-> gs, maxGroups |-> m, context |-> c, names |-> <<>>] :
     gs \in UNION {GroupsOf(n) : n \in 0 .. 3}, m \in {2, 3}, c \in Contexts}

Entry == [id : 1 .. 3, risk : {"high", "severe"}]

Answer(kind, fenced, run, summary, entries) ==
  [kind |-> kind, fenced |-> fenced, run |-> run, summary |-> summary, entries |-> entries]

PassingReplies ==
  {Answer("failed", FALSE, "", <<>>, <<>>), Answer("unusable", FALSE, "", <<>>, <<>>),
   Answer("unusable", TRUE, "", <<>>, <<>>), Answer("usable", TRUE, "severe", <<>>, <<>>)}
  \cup {Answer("usable", FALSE, "low", <<>>, es) :
          es \in UNION {[1 .. n -> Entry] : n \in 0 .. 2}}

\* The certname of the first node begins with the alias of the second:
\* node-002.example.com (2, 3) and web.example.com (4, 3).
NamedComparisons ==
  {[groups |-> gs, maxGroups |-> 3, context |-> [counted |-> 0, actual |-> 0],
    names |-> <<(<<2, 3>>), (<<4, 3>>)>>] : gs \in GroupsOf(1)}

NamingReplies == {Answer("usable", FALSE, "low", s, <<>>) : s \in {<<>>, <<1>>, <<1, 2>>}}
=============================================================================
