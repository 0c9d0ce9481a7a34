---------------------------- MODULE MCSmartView ----------------------------
(* Finite instances of SmartView for TLC.                                  *)
EXTENDS SmartView

CONSTANTS mA, mB

TwoMonitors == <<mA, mB>>
=============================================================================
