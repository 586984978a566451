------------------------------ MODULE Uploads ------------------------------
(***************************************************************************)
(* What a caller of athenad's uploadFilesToUrls and cancelUpload may count *)
(* on, with threads and queues hidden: an accepted item waits, is uploaded *)
(* by one thread at a time, and is waiting again or gone for good; one that*)
(* is canceled while it waits is never uploaded by this process.           *)
(***************************************************************************)
CONSTANT Ids

VARIABLES
  status,   \* of each item: "new", "waiting", "uploading" or "gone"
  doomed,   \* the waiting items that a cancellation has reached
  stored    \* the items that a restart of athenad puts back

vars == <<status, doomed, stored>>

Init == status = [i \in Ids |-> "new"] /\ doomed = {} /\ stored = {}

Become(i, from, to) == status[i] = from /\ status' = [status EXCEPT ![i] = to]

Accept(i) == Become(i, "new", "waiting") /\ UNCHANGED doomed
Start(i)  == Become(i, "waiting", "uploading") /\ i \notin doomed /\ UNCHANGED doomed
Finish(i) == Become(i, "uploading", "gone") /\ UNCHANGED doomed
Drop(i)   == Become(i, "waiting", "gone") /\ doomed' = doomed \ {i}

(* A cancellation may also have come too late for the upload that now gives up. *)
GiveBack(i) == Become(i, "uploading", "waiting") /\ doomed' \in {doomed, doomed \cup {i}}

Cancel(i) == status[i] = "waiting" /\ doomed' = doomed \cup {i} /\ UNCHANGED status

(* What is stored follows with delay: it may lack an item, or hold one that is gone. *)
Store == stored' \in SUBSET {i \in Ids : status'[i] # "new"}

Restart ==
  /\ status' = [i \in Ids |-> IF i \in stored THEN "waiting"
                              ELSE IF status[i] = "new" THEN "new" ELSE "gone"]
  /\ doomed' = {}
  /\ UNCHANGED stored

ItemStep(i) == Accept(i) \/ Start(i) \/ Finish(i) \/ Drop(i) \/ GiveBack(i) \/ Cancel(i)

Next ==
  \/ UNCHANGED <<status, doomed>> /\ Store
  \/ \E i \in Ids : ItemStep(i) /\ Store
  \/ Restart

Spec == Init /\ [][Next]_vars
=============================================================================
