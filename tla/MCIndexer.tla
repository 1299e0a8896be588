----------------------------- MODULE MCIndexer -----------------------------
(***************************************************************************)
(* Indexer for TLC; the constants are in the configuration.                *)
(***************************************************************************)
EXTENDS Indexer, TLC

=============================================================================
