---------------------------- MODULE MC_Publication ----------------------------
(***************************************************************************)
(* Six names stand for the classes of names the code tells apart; they     *)
(* sort as their ranks say.  The overlapping runs need less of them.       *)
(***************************************************************************)
EXTENDS Publication, TLC

CONSTANTS svg,        \* data_flow_diagram.svg: on the allowlist, not always made
          log,        \* execution.log
          ingest,     \* ingestion_summary.json: generated, not on the allowlist
          notes,      \* a file of the user's
          manifest,   \* run_manifest.json
          services    \* service_inventory.csv: made by every run

MC_Names == {svg, log, ingest, notes, manifest, services}
MC_Core == {manifest, services}
MC_Optional == {svg, ingest}
MC_Generated == {svg, log, manifest, services}
MC_Rank == (svg :> 1) @@ (log :> 2) @@ (ingest :> 3) @@ (notes :> 4)
           @@ (manifest :> 5) @@ (services :> 6)
MC_UserLists == {{}, {svg, log, notes}}
MC_FewNames == {svg, log, manifest, services}
MC_FewOptional == {svg}
MC_FewRank == [n \in MC_FewNames |-> MC_Rank[n]]
MC_NoList == {{}}
MC_TwoRuns == 1..2
MC_ThreeRuns == 1..3
===============================================================================
