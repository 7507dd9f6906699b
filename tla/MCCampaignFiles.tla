-------------------------- MODULE MCCampaignFiles --------------------------
(***************************************************************************)
(* A small instance of CampaignFiles: three resets prepared for one        *)
(* destination, two of them with one archive id; one reset beside late     *)
(* workers and a verification; two publishers; a publisher and a command.  *)
(***************************************************************************)
EXTENDS CampaignFiles, TLC

CONSTANTS j1, j2, j3, a1, a2, v1, c1, c2, p1, p2, k1

MCArchives == j1 :> a1 @@ j2 :> a2 @@ j3 :> a1
MCFiles == <<"report.tex", "results.json">>
MCCells == <<c1, c2>>
MCCasts == [reset |-> {{j1, j2, j3}, {j1, v1, "artifacts", "coordination"}},
            report |-> {{p1, p2}, {p1, k1}}]

ASSUME MCAssumption == PartsAssumption
=============================================================================
