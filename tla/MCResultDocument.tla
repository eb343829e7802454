-------------------------- MODULE MCResultDocument --------------------------
EXTENDS ResultDocument

\* Every class an error can contribute, a warning, and messages that differ
\* within one class.
MCDiagnoses ==
  {[severity |-> "error", operation |-> "request_candidate", message |-> 1],
   [severity |-> "error", operation |-> "request_candidate_transport", message |-> 2],
   [severity |-> "error", operation |-> "verify_content", message |-> 3],
   [severity |-> "warning", operation |-> "request_candidate", message |-> 4]}
=============================================================================
