------------------------------ MODULE MCParams ------------------------------
(* A process that writes through its queue and one that does everything else, on  *)
(* two keys, of which clearAll selects both.                                      *)
EXTENDS ParamsProps

MCKeys      == {"CarParams", "IsMetric"}
MCProcesses == {"card", "manager"}
MCUses      == [p \in MCProcesses |-> IF p = "card" THEN {"putNonBlocking"}
                                     ELSE {"put", "remove", "clearAll", "readAll"}]
MCClearSets == {MCKeys}
=============================================================================
