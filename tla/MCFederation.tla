----------------------------- MODULE MCFederation -----------------------------
(***************************************************************************)
(* An instance of FederationLife for TLC.                                  *)
(***************************************************************************)
EXTENDS FederationLife

MCContents == 1 .. MaxLogins + MaxExchanges
=============================================================================
