------------------------- MODULE MCCollectorRuntime -------------------------
(* A small instance of CollectorRuntime for TLC.                           *)
EXTENDS CollectorRuntime

CONSTANTS binance, okx, gate

MCAdapters == <<binance, okx, gate>>
MCLadder == <<2>>
MCSavedLists == {{okx}, {binance, okx, gate}}
=============================================================================
