----------------------------- MODULE MCPipeline -----------------------------
(* Small instances of Pipeline for TLC. *)
EXTENDS Pipeline, TLC

CONSTANTS u1, u2, u3, docA, docB

OneUpload == u1 :> docA
SameDocument == u1 :> docA @@ u2 :> docA
TwoDocuments == u1 :> docA @@ u2 :> docB
Resubmitted == u1 :> docA @@ u2 :> docA @@ u3 :> docA

(* Extractors are alike, and so are retrigger requests: nothing names one of them. *)
Alike == Permutations(Extractors) \union Permutations(Retriggers)
=============================================================================
