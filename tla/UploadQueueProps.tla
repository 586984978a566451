-------------------------- MODULE UploadQueueProps --------------------------
(* What athenad's upload threads promise each other and their callers. *)
EXTENDS UploadQueue

(* The handlers that work on the item with this id, and its entries in the queue.  A *)
(* handler that gave it back may show it in cur_upload_items a little longer.         *)
Working(h) == pc[h] \in {"check", "upload"}
Owners(i)  == {h \in Handlers : item[h].id = i /\ Working(h)}
Entries(i) == {e \in queue : e.id = i}

(* There is one copy of an item, whatever is retried, aborted or restored: no two  *)
(* threads work on it, and it is not in the queue while a thread does; what one    *)
(* puts back, another may take before the first has cached and cleared it.         *)
OneCopyPerItem == \A i \in Ids : Cardinality(Owners(i)) + Cardinality(Entries(i)) <= 1

(* Callers may take the threads for one abstract queue: see Uploads.  In particular *)
(* an item canceled before the handler's check is never uploaded.                   *)
Uploading(i) == \E h \in Owners(i) : At(h, "upload")
Waiting(i)   == Entries(i) # {} \/ (Owners(i) # {} /\ ~Uploading(i))
Abstract == INSTANCE Uploads WITH
  status <- [i \in Ids |-> IF i > accepted THEN "new" ELSE IF Uploading(i) THEN "uploading"
                           ELSE IF Waiting(i) THEN "waiting" ELSE "gone"],
  doomed <- {i \in cancelled : Waiting(i)},
  stored <- {e.id : e \in persisted}
ImplementsUploads == Abstract!Spec

(* While the connection stays up and is not metered, no item waits or is retried  *)
(* for ever, however often its uploads fail and whatever has a higher priority.   *)
EveryItemFinishes ==
  <>[](connection = "open" /\ ~metered) =>
     \A i \in Ids : []<>(Entries(i) = {} /\ Owners(i) = {})

(* A lost connection is closed, to be opened again: no thread stays in an upload, *)
(* a retry delay or a call, or its loop, for ever.                                *)
EndEventEndsThreads == []<>(connection # "ending")
=============================================================================
