----------------------------- MODULE MCClientSetup -----------------------------
(* A JSON client and a TOML client for TLC. *)
EXTENDS ClientSetup

MCClientOrder == <<"cursor", "codex">>
=============================================================================
