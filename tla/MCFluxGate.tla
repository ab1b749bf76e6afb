----------------------------- MODULE MCFluxGate -----------------------------
(* The release of the vault, and two of the tier, held by it and by the marker *)
(* of Garage: Loki reads the S3 keys, the Prometheus stack an entry of the     *)
(* first pass.                                                                 *)
EXTENDS FluxGate

MCReleases == {"openbao", "loki", "prometheus"}
MCTier == {"loki", "prometheus"}
MCUnstall == {"loki", "prometheus"}
MCNeeded == {"openbao"}
MCDeps == [r \in MCReleases |-> IF r \in MCTier THEN {"openbao"} ELSE {}]
MCGated == MCTier
MCEntry == [r \in MCReleases |-> CASE r = "openbao" -> "none"
                                   [] r = "loki" -> "garage"
                                   [] OTHER -> "runtime"]
MCFaulty == {"degrade", "strike", "cli", "kill"}
=============================================================================
