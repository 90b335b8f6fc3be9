-------------------------- MODULE MCPriceHistory ---------------------------
(* A window of a few minutes and pages of two candles.                     *)
EXTENDS PriceHistory
=============================================================================
