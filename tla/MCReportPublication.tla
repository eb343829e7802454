------------------------- MODULE MCReportPublication -------------------------
(* Two processes on five files: a configuration, a result document, a      *)
(* change context, one more, and one with the name "-".                    *)
EXTENDS ReportPublication, TLC

None == [k \in Roles |-> Nothing]

Compare(inputs, json, html, text) ==
  [command |-> "compare", inputs |-> inputs, jsonIn |-> Nothing, change |-> Nothing,
   stdin |-> Nothing, failOnInferenceError |-> FALSE,
   out |-> [None EXCEPT !["json"] = json, !["html"] = html, !["text"] = text]]

Explain(jsonIn, stdin, change, ai, html, strict) ==
  [command |-> "explain", inputs |-> {"config"}, jsonIn |-> jsonIn, change |-> change,
   stdin |-> stdin, failOnInferenceError |-> strict,
   out |-> [None EXCEPT !["ai"] = ai, !["html"] = html]]

\* A configuration, a change context, and perhaps an earlier report.
Workspaces ==
  {"config" :> Given("input") @@ "notes" :> Given("input") @@ "page" :> Nothing
     @@ "dash" :> Nothing @@ "report" :> f : f \in {Nothing, Given("json")}}

\* A comparison that writes a document, with every way to collide, "-" and a
\* file of that name among them ...
Comparisons ==
  {Compare({"config"}, json, html, text) :
     json \in {"report", "config", Stdout}, html \in {Nothing, "report", "page"},
     text \in {Nothing, "page"}}
  \cup {Compare({"config"}, json, html, Nothing) : json, html \in {Dash, "dash"}}
  \cup {Compare({input}, "report", html, Nothing) : input, html \in {Dash, "dash"}}

\* ... and an explain that reads it from the file, or from the first process.
Explanations ==
  {Explain("report", Nothing, Nothing, ai, html, strict) :
     ai \in {"report", "notes", "config"}, html \in {Nothing, "page", "notes"},
     strict \in BOOLEAN}
  \cup {Explain(Dash, "p1", Nothing, "notes", "page", FALSE),
         Explain("report", Nothing, Nothing, "notes", Dash, FALSE)}

PassingLines ==
  {("p1" :> c @@ "p2" :> e) : c \in Comparisons, e \in Explanations}
  \cup {("p1" :> c @@ "p2" :> c) : c \in Comparisons}

\* An explain whose change context is also where its assessment goes, and whose
\* report goes to "-".
UnhonoredLines == {("p1" :> Explain("report", Nothing, "notes", "notes", Dash, FALSE))}

=============================================================================
