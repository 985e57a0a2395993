---------------------------- MODULE MCExamples -----------------------------
(* Instances of Examples for TLC.                                          *)
EXTENDS Examples

TwoRounds  == <<<<"r1a", "r1b">>, <<"r2a">>>>
AllDevs    == {"main", "storage", "proxy", "fsdemo", "flushbench", "child",
               "fresh", "r1a", "r1b", "r2a"} \cup FaultProgs
AllPrograms == Sequential \cup {"stress", "sigkill"}
SigkillOnly == {"sigkill"}
NoHolders  == {}
FiveFds    == 1 .. 5
=============================================================================
