---------------------------- MODULE MCVaultKeys ----------------------------
(* The shares of roles/openbao_init/defaults/main.yml and of the repository. *)
EXTENDS VaultKeys

MCFaulty == {"restart", "volume", "alone", "push", "answer", "kill"}
=============================================================================
