------------------------ MODULE MCCampaignScheduler ------------------------
(***************************************************************************)
(* Small instances of CampaignScheduler with cells of multiplicities 2 and *)
(* 3.  Peers: c3 compares with a2, which must succeed, and with b2.        *)
(* Waves: both b2 and c3 depend on a2, and c3 could start before b2.       *)
(***************************************************************************)
EXTENDS CampaignScheduler, TLC

CONSTANTS a2, b2, c3, k1, k2

MCPlanned == k1 :> {a2, b2, c3} @@ k2 :> {a2, c3}
MCPlannedWaves == k1 :> {a2, b2, c3} @@ k2 :> {c3}

MCPeers == a2 :> {} @@ b2 :> {} @@ c3 :> {a2, b2}
MCPeersRequired == a2 :> {} @@ b2 :> {} @@ c3 :> {a2}
MCWaves == a2 :> {} @@ b2 :> {a2} @@ c3 :> {a2}
MCWavesRequired == a2 :> {} @@ b2 :> {a2} @@ c3 :> {}

MCRank == a2 :> 0 @@ b2 :> 1 @@ c3 :> 2
MCMultiplicity == a2 :> 2 @@ b2 :> 2 @@ c3 :> 3
MCPriority == c3 :> 0 @@ a2 :> 1 @@ b2 :> 2
MCAllMissingOnly == k1 :> TRUE @@ k2 :> TRUE
MCOneMissingOnly == k1 :> TRUE @@ k2 :> FALSE
=============================================================================
