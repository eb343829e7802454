-------------------------- MODULE MCArtifactPublish --------------------------
(* ArtifactPublish with two writers, a reader and two power failures.      *)
EXTENDS ArtifactPublish
=============================================================================
