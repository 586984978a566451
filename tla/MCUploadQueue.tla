---------------------------- MODULE MCUploadQueue ----------------------------
(* Two upload threads and a caller; the second file is more urgent and may go *)
(* over a metered network.                                                    *)
EXTENDS UploadQueueProps

MCUrls     == {"qlog", "rlog"}
MCPriority == [u \in MCUrls |-> IF u = "rlog" THEN 0 ELSE 99]
MCCellular == {"rlog"}

(* States that no step and no property tells apart are taken for one.  Of an item that  *)
(* a handler no longer works on, only its id and url are read, by listUploadQueue, and   *)
(* only while there is a call or may be one; of what a call copied, only the ids of its  *)
(* own url; of cancelled_uploads, only the ids that are somewhere.                       *)
Listing    == connection = "open" \/ \E w \in Workers : At(w, "lookup")
Shown(t)   == IF t \in Workers \/ Working(t) THEN item[t]
              ELSE IF Listing THEN [item[t] EXCEPT !.retries = 0] ELSE NoItem
Matches(w) == {i.id : i \in {j \in copied[w] : j.url = item[w].url}}
Present    == UNION {{i.id : i \in queue}, {Shown(t).id : t \in Threads}, UNION {Matches(w) : w \in Workers}}
MCView == <<queue, cancelled \cap Present, persisted, pc, [t \in Threads |-> Shown(t)],
            [w \in Workers |-> Matches(w)], connection, metered, accepted>>
=============================================================================
