------------------------------- MODULE MCService -------------------------------
(* Two extractors, of which one has the worker id of the API process, and the API. *)
EXTENDS Service, TLC

CONSTANTS api, x1, x2, host

Tables == (api :> "t_task") @@ (x1 :> "t_extracted_result") @@ (x2 :> "t_extracted_result")
WorkerIds == (api :> 0) @@ (x1 :> 0) @@ (x2 :> 1)
OneHost == [g \in {api, x1, x2} |-> host]
=============================================================================
