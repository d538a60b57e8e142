--------------------------- MODULE FunctionTable ----------------------------
(***************************************************************************)
(* The functions of the code modules by name.                              *)
(***************************************************************************)
EXTENDS SafetyCode, IngestCode, EventCode, ModelCode, TradingCode, TLC

Functions == SafetyTable @@ IngestTable @@ EventTable @@ ModelTable @@ TradingTable
=============================================================================
