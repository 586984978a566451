---------------------------- MODULE UploadQueue ----------------------------
(***************************************************************************)
(* The upload queue of athenad, system/athena/athenad.py: upload_handler   *)
(* threads take items from a PriorityQueue, jsonrpc_handler threads add    *)
(* and cancel them, all of them rewrite a copy of the queue kept in the    *)
(* parameter AthenadUploadQueue, and every thread ends with the connection.*)
(*                                                                         *)
(* A call names one file; several files in one call are several calls.     *)
(***************************************************************************)
EXTENDS Integers, FiniteSets

CONSTANTS
  Handlers,       \* the threads that run upload_handler
  Workers,        \* the threads that run jsonrpc_handler
  Urls,
  Priority,       \* of each url: a smaller number goes first
  Cellular,       \* the urls sent with allow_cellular
  MaxRetryCount,
  MaxItems        \* bound: items accepted

ASSUME UploadQueueAssumption ==
  /\ Handlers \cap Workers = {} /\ IsFiniteSet(Workers)
  /\ Priority \in [Urls -> Int]
  /\ Cellular \subseteq Urls
  /\ MaxRetryCount \in Nat /\ MaxItems \in Nat

VARIABLES
  queue,       \* upload_queue
  cancelled,   \* cancelled_uploads
  persisted,   \* the parameter AthenadUploadQueue
  pc,          \* what each thread is about to do
  item,        \* cur_upload_items of each handler; what a worker's call is about
  copied,      \* what a thread read of upload_queue.queue
  connection,  \* "open", "ending" (end_event is set) or "closed"
  metered,     \* deviceState.networkMetered
  accepted     \* number of items accepted so far

vars == <<queue, cancelled, persisted, pc, item, copied, connection, metered,
          accepted>>
stores == <<queue, cancelled, persisted>>
world  == <<connection, metered, accepted>>

Threads == Handlers \cup Workers
Ids     == 1..MaxItems
Items   == [id : 0..MaxItems, url : Urls, retries : 0..MaxRetryCount]
NoItem  == [id |-> 0, url |-> "none", retries |-> 0]

At(t, step) == pc[t] = step
Goto(t, step) == pc' = [pc EXCEPT ![t] = step]

Init ==
  /\ queue = {} /\ cancelled = {} /\ persisted = {}
  /\ pc = [t \in Threads |-> "exited"]
  /\ item = [t \in Threads |-> NoItem]
  /\ copied = [t \in Threads |-> {}]
  /\ connection = "closed"
  /\ metered \in BOOLEAN
  /\ accepted = 0

-----------------------------------------------------------------------------
(* UploadQueueCache.cache, together with the step that calls it.  Two threads that   *)
(* cache at once may write in the other order; that is not modelled.                 *)
Cached(q) == {i \in q : i.id \notin cancelled}

-----------------------------------------------------------------------------
(* upload_handler *)

(* The top of the loop: end_event is tested, and only then is cur_upload_items       *)
(* cleared.  A handler shows there what it is done with until it comes to this.      *)
EndLoopSlip(h) ==                       \* the queue is to be empty first
  /\ pc[h] = "top" /\ connection # "open" /\ queue = {}
  /\ Goto(h, "exited")
  /\ UNCHANGED <<stores, item, copied, world>>

EndLoop(h) ==
  /\ pc[h] = "top" /\ connection # "open"
  /\ Goto(h, "exited")
  /\ UNCHANGED <<stores, item, copied, world>>

Clear(h, from, to) ==
  /\ At(h, from) /\ Goto(h, to)
  /\ item' = [item EXCEPT ![h] = NoItem]
  /\ UNCHANGED <<stores, copied, world>>

NextTurn(h) == connection = "open" /\ Clear(h, "top", "get")

(* get waits up to a second; what it takes it takes even if end_event is set by now. *)
GetNothing(h) ==
  /\ At(h, "get") /\ queue = {}
  /\ Goto(h, "top")
  /\ UNCHANGED <<stores, item, copied, world>>

Urgent == {i \in queue : \A j \in queue : Priority[i.url] <= Priority[j.url]}

Get(h) ==
  /\ At(h, "get")
  /\ \E i \in Urgent : queue' = queue \ {i} /\ item' = [item EXCEPT ![h] = i]
  /\ Goto(h, "check")
  /\ UNCHANGED <<cancelled, persisted, copied, world>>

SkipCancelled(h) ==
  /\ At(h, "check") /\ item[h].id \in cancelled
  /\ cancelled' = cancelled \ {item[h].id}
  /\ Goto(h, "top")
  /\ UNCHANGED <<queue, persisted, item, copied, world>>

(* The item passed the first check of the loop and is, say, too old. *)
Passed(h) == At(h, "check") /\ item[h].id \notin cancelled

Expire(h) ==
  /\ Passed(h)
  /\ Goto(h, "top")
  /\ UNCHANGED <<stores, item, copied, world>>

(* retry_upload puts the item back, where another handler may take it at once, then  *)
(* caches the queue, then clears cur_upload_items, and waits: a thread in that delay *)
(* is one that has not made its next step.  With no retries left it does nothing.    *)
Retry(h, increase, cache, next) ==
  /\ IF item[h].retries < MaxRetryCount
     THEN /\ queue' = queue \cup {[item[h] EXCEPT !.retries = @ + increase]}
          /\ Goto(h, cache)
     ELSE queue' = queue /\ Goto(h, next)
  /\ UNCHANGED <<cancelled, persisted, item, copied, world>>

Cache(h, from, to) ==
  /\ At(h, from) /\ Goto(h, to)
  /\ persisted' = Cached(queue)
  /\ UNCHANGED <<queue, cancelled, item, copied, world>>

CacheRetried(h) == Cache(h, "cache", "clear") \/ Cache(h, "cacheRefused", "clearRefused")
ClearRetried(h) == Clear(h, "clear", "top") \/ Clear(h, "clearRefused", "recache")

Unaffordable(h) == metered /\ item[h].url \notin Cellular

PostponeMetered(h) == Passed(h) /\ Unaffordable(h) /\ Retry(h, 0, "cache", "top")

StartUploadSlip(h) ==                   \* cancelled_uploads is not consulted
  /\ At(h, "check") /\ ~Unaffordable(h)
  /\ Goto(h, "upload")
  /\ UNCHANGED <<stores, item, copied, world>>

StartUpload(h) ==
  /\ Passed(h) /\ ~Unaffordable(h)
  /\ Goto(h, "upload")
  /\ UNCHANGED <<stores, item, copied, world>>

(* The server took the file, or says that it never will. *)
Succeed(h) == Cache(h, "upload", "top")

(* Any other status: the queue is cached once more after retry_upload and its delay. *)
Refused(h) == At(h, "upload") /\ Retry(h, 1, "cacheRefused", "recache")
Recache(h) == Cache(h, "recache", "top")

(* A timeout or a connection error. *)
TimesOutSlip(h) == At(h, "upload") /\ Retry(h, 0, "cache", "top")     \* retry_count stays
TimesOut(h) == At(h, "upload") /\ Retry(h, 1, "cache", "top")

(* The callback cb stops a transfer that has become metered or lost its connection. *)
AbortSlip(h) ==                         \* put back, but the transfer goes on
  /\ At(h, "upload")
  /\ connection # "open" \/ Unaffordable(h)
  /\ queue' = queue \cup {item[h]}
  /\ UNCHANGED <<cancelled, persisted, pc, item, copied, world>>

Abort(h) ==
  /\ At(h, "upload")
  /\ connection # "open" \/ Unaffordable(h)
  /\ Retry(h, 0, "cache", "top")

(* Any other exception, say of opening the file. *)
Fail(h) ==
  /\ At(h, "upload")
  /\ Goto(h, "top")
  /\ UNCHANGED <<stores, item, copied, world>>

HandlerStep(h) ==
  \/ EndLoop(h) \/ NextTurn(h) \/ GetNothing(h) \/ Get(h) \/ SkipCancelled(h) \/ Expire(h)
  \/ PostponeMetered(h) \/ StartUpload(h) \/ CacheRetried(h) \/ ClearRetried(h)
  \/ Succeed(h) \/ Refused(h) \/ Recache(h) \/ TimesOut(h) \/ Abort(h) \/ Fail(h)

-----------------------------------------------------------------------------
(* jsonrpc_handler *)

WorkerExits(w) ==
  /\ pc[w] = "top" /\ connection # "open"
  /\ Goto(w, "exited")
  /\ UNCHANGED <<stores, item, copied, world>>

(* uploadFilesToUrls: listUploadQueue reads the queue, and then what is in progress. *)
UploadFilesToUrls(w, u) ==
  /\ pc[w] = "top" /\ connection = "open"
  /\ accepted + Cardinality({v \in Workers : At(v, "lookup")}) < MaxItems
  /\ item' = [item EXCEPT ![w] = [id |-> 0, url |-> u, retries |-> 0]]
  /\ copied' = [copied EXCEPT ![w] = queue]
  /\ Goto(w, "lookup")
  /\ UNCHANGED <<stores, world>>

ListedItems(w) ==
  {i \in copied[w] \cup {item[h] : h \in Handlers} : i.id \notin cancelled}

Enqueue(w) ==
  /\ At(w, "lookup")
  /\ IF \E i \in ListedItems(w) : i.url = item[w].url
     THEN UNCHANGED <<queue, accepted>>
     ELSE /\ queue' = queue \cup {[item[w] EXCEPT !.id = accepted + 1]}
          /\ accepted' = accepted + 1
  /\ persisted' = Cached(queue')
  /\ item' = [item EXCEPT ![w] = NoItem]
  /\ copied' = [copied EXCEPT ![w] = {}]
  /\ Goto(w, "top")
  /\ UNCHANGED <<cancelled, connection, metered>>

(* cancelUpload: what is found in the queue is canceled a moment later, when a       *)
(* handler may have taken it.  Canceling again changes nothing.                      *)
CancelUpload(w, i) ==
  /\ pc[w] = "top" /\ connection = "open"
  /\ i \in queue /\ i.id \notin cancelled
  /\ item' = [item EXCEPT ![w] = i]
  /\ Goto(w, "cancel")
  /\ UNCHANGED <<stores, copied, world>>

AddCancelled(w) ==
  /\ At(w, "cancel")
  /\ cancelled' = cancelled \cup {item[w].id}
  /\ item' = [item EXCEPT ![w] = NoItem]
  /\ Goto(w, "top")
  /\ UNCHANGED <<queue, persisted, copied, world>>

(* What a worker does of itself, and the calls that the server makes. *)
WorkerStep(w) == WorkerExits(w) \/ Enqueue(w) \/ AddCancelled(w)
Call(w) == \/ \E u \in Urls : UploadFilesToUrls(w, u)
           \/ \E i \in queue : CancelUpload(w, i)

-----------------------------------------------------------------------------
(* main and handle_long_poll *)

(* main clears cur_upload_items before the threads of a new connection start. *)
Connect ==
  /\ connection = "closed"
  /\ connection' = "open"
  /\ item' = [t \in Threads |-> NoItem]
  /\ pc' = [t \in Threads |-> "top"]
  /\ UNCHANGED <<stores, copied, metered, accepted>>

(* A thread of the websocket, or the process's end, sets end_event. *)
SetEndEvent ==
  /\ connection = "open"
  /\ connection' = "ending"
  /\ UNCHANGED <<stores, pc, item, copied, metered, accepted>>

JoinThreads ==
  /\ connection = "ending" /\ \A t \in Threads : pc[t] = "exited"
  /\ connection' = "closed"
  /\ UNCHANGED <<stores, pc, item, copied, metered, accepted>>

NetworkChanges ==
  /\ metered' = ~metered
  /\ UNCHANGED <<stores, pc, item, copied, connection, accepted>>

(* athenad dies and is started again: UploadQueueCache.initialize. *)
Crash ==
  /\ queue' = persisted /\ cancelled' = {}
  /\ pc' = [t \in Threads |-> "exited"]
  /\ item' = [t \in Threads |-> NoItem]
  /\ copied' = [t \in Threads |-> {}]
  /\ connection' = "closed"
  /\ UNCHANGED <<persisted, metered, accepted>>

Next ==
  \/ \E h \in Handlers : HandlerStep(h)
  \/ \E w \in Workers : WorkerStep(w) \/ Call(w)
  \/ Connect \/ SetEndEvent \/ JoinThreads \/ NetworkChanges \/ Crash

(* Threads keep running: a request times out after 30 s, a get after 1 s, a sleep    *)
(* ends; a joined connection is closed.  Nothing is assumed of the network or server. *)
(* Each step of a thread changes its pc.                                              *)
Fairness ==
  /\ \A h \in Handlers : WF_(pc[h])(HandlerStep(h))
  /\ \A w \in Workers : WF_(pc[w])(WorkerStep(w))
  /\ WF_connection(JoinThreads)

Spec == Init /\ [][Next]_vars /\ Fairness
=============================================================================
