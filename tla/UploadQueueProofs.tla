-------------------------- MODULE UploadQueueProofs --------------------------
(* Proofs that the upload threads keep one copy of each item and implement Uploads, for *)
(* every number of threads, items, retries and crashes.                                  *)
EXTENDS UploadQueueProps, FiniteSetTheorems, TLAPS

Busy  == {"check", "upload"}
Steps == {"exited", "top", "get", "cache", "clear", "cacheRefused", "clearRefused", "recache",
          "lookup", "cancel"} \cup Busy

(* Ids are given in the order of acceptance. *)
Known   == 1..accepted
AnItem  == [id : Nat, url : Urls \cup {"none"}, retries : Int]

TypeOK ==
  /\ queue \subseteq AnItem /\ persisted \subseteq AnItem
  /\ pc \in [Threads -> Steps] /\ item \in [Threads -> AnItem]
  /\ accepted \in Nat

(* No id is twice in a queue; all of them are known. *)
Unique(q) ==
  /\ \A e \in q : e.id \in Known
  /\ \A e, f \in q : e.id = f.id => e = f

(* A handler owns an item while it works on it, and nobody else has that item. *)
OwnerInv ==
  \A h \in Handlers : Working(h) =>
    /\ item[h].id \in Known
    /\ \A e \in queue : e.id # item[h].id
    /\ \A g \in Handlers : Working(g) /\ item[g].id = item[h].id => g = h

(* What callers cancel is known, and there are not more calls than items they may add. *)
Lookups == {v \in Workers : At(v, "lookup")}
CallInv ==
  /\ cancelled \subseteq Known
  /\ \A w \in Workers : At(w, "cancel") => item[w].id \in Known
  /\ accepted + Cardinality(Lookups) <= MaxItems

IInv == TypeOK /\ Unique(queue) /\ Unique(persisted) /\ OwnerInv /\ CallInv

USE DEF stores, world

LEMMA Facts ==
  ASSUME IInv
  PROVE  /\ TypeOK /\ Unique(queue) /\ Unique(persisted) /\ OwnerInv /\ CallInv
         /\ \A h \in Handlers : h \in Threads /\ h \notin Workers /\ item[h] \in AnItem
  BY UploadQueueAssumption DEF IInv, TypeOK, Threads

-----------------------------------------------------------------------------
(* A step of a handler leaves the callers alone. *)
LEMMA Callers ==
  ASSUME IInv, NEW h \in Handlers, NEW step, pc' = [pc EXCEPT ![h] = step],
         \A t \in Threads \ {h} : item'[t] = item[t],
         cancelled' \subseteq cancelled, accepted' = accepted
  PROVE  CallInv'
  <1>1. \A w \in Workers : pc'[w] = pc[w] /\ item'[w] = item[w]
    BY Facts DEF TypeOK, Threads
  <1>2. Lookups' = Lookups
    BY <1>1 DEF Lookups, At
  <1> QED
    BY Facts, <1>1, <1>2 DEF CallInv, At, Known

(* What is cached is what waits. *)
LEMMA CachedUnique == ASSUME NEW q, Unique(q) PROVE Unique(Cached(q)) /\ Cached(q) \subseteq q
  BY DEF Unique, Cached

(* A handler that does not work, or stops, owns nothing; what it shows in                *)
(* cur_upload_items is no matter.  In the queue it may leave the item that it owned.     *)
LEMMA Rests ==
  ASSUME IInv, NEW h \in Handlers, NEW step \in Steps \ Busy, Goto(h, step),
         item' = item \/ item' = [item EXCEPT ![h] = NoItem],
         cancelled' \subseteq cancelled, accepted' = accepted,
         queue' \subseteq AnItem, Unique(queue'),
         \A e \in queue' : e \in queue \/ (Working(h) /\ e.id = item[h].id),
         persisted' \in {persisted, Cached(queue)}
  PROVE  IInv'
  <1>1. pc' = [pc EXCEPT ![h] = step] /\ NoItem \in AnItem
    BY DEF Goto, NoItem, AnItem
  <1>2. \A t \in Threads : t # h => pc'[t] = pc[t] /\ item'[t] = item[t]
    BY Facts, <1>1 DEF TypeOK
  <1>3. ~Working(h)' /\ \A g \in Handlers : g # h => (Working(g)' <=> Working(g))
    BY Facts, <1>1, <1>2 DEF TypeOK, Working, Busy
  <1>4. Cached(queue) \subseteq queue
    BY DEF Cached
  <1>5. TypeOK'
    <2>1. pc' \in [Threads -> Steps] /\ item' \in [Threads -> AnItem]
      BY Facts, <1>1 DEF TypeOK
    <2> QED
      BY Facts, <1>4, <2>1 DEF TypeOK
  <1>6. Unique(queue)' /\ Unique(persisted)'
    BY Facts, CachedUnique DEF Unique, Known
  <1>7. OwnerInv'
    <2> SUFFICES ASSUME NEW g \in Handlers, Working(g)'
                 PROVE  /\ item'[g].id \in Known
                        /\ \A e \in queue' : e.id # item'[g].id
                        /\ \A k \in Handlers : Working(k)' /\ item'[k].id = item'[g].id => k = g
      BY DEF OwnerInv, Known
    <2>1. g # h /\ Working(g) /\ item'[g] = item[g]
      BY Facts, <1>2, <1>3
    <2>2. \A e \in queue' : e.id # item[g].id
      BY Facts, <2>1 DEF OwnerInv
    <2>3. ASSUME NEW k \in Handlers, Working(k)', item'[k].id = item'[g].id PROVE k = g
      BY Facts, <1>2, <1>3, <2>1, <2>3 DEF OwnerInv
    <2> QED
      BY Facts, <2>1, <2>2, <2>3 DEF OwnerInv
  <1>8. CallInv'
    BY <1>1, <1>2, Callers
  <1> QED
    BY <1>5, <1>6, <1>7, <1>8 DEF IInv

(* The queue stays as it is. *)
LEMMA RestsSame ==
  ASSUME IInv, NEW h \in Handlers, NEW step \in Steps \ Busy, Goto(h, step), queue' = queue,
         item' = item \/ item' = [item EXCEPT ![h] = NoItem],
         cancelled' \subseteq cancelled, accepted' = accepted, persisted' \in {persisted, Cached(queue)}
  PROVE  IInv'
  BY Facts, Rests DEF TypeOK

(* The handler takes an item that nobody else has. *)
LEMMA GetKeeps == ASSUME IInv, NEW h \in Handlers, Get(h) PROVE IInv'
  <1>1. PICK i \in queue : queue' = queue \ {i} /\ item' = [item EXCEPT ![h] = i]
    BY DEF Get, Urgent
  <1>2. /\ pc' = [pc EXCEPT ![h] = "check"] /\ i \in AnItem /\ i.id \in Known
        /\ UNCHANGED <<cancelled, persisted, copied, world>>
    BY Facts, <1>1 DEF Get, Goto, TypeOK, Unique
  <1>3. \A g \in Handlers : g # h => pc'[g] = pc[g] /\ item'[g] = item[g]
    BY Facts, <1>1, <1>2 DEF TypeOK
  <1>4. pc'[h] = "check" /\ item'[h] = i
    BY Facts, <1>1, <1>2 DEF TypeOK
  <1>5. TypeOK'
    <2>1. pc' \in [Threads -> Steps] /\ item' \in [Threads -> AnItem]
      BY Facts, <1>1, <1>2 DEF TypeOK, Steps, Busy
    <2> QED
      BY Facts, <1>1, <1>2, <2>1 DEF TypeOK
  <1>6. Unique(queue)' /\ Unique(persisted)'
    BY Facts, <1>1, <1>2 DEF Unique, Known
  <1>7. OwnerInv'
    <2>1. \A e \in queue : e \notin {i} => e.id # i.id
      BY Facts, <1>1 DEF Unique
    <2>2. \A g \in Handlers : Working(g) => item[g].id # i.id
      BY Facts, <1>1 DEF OwnerInv
    <2>3. \A g \in Handlers : g # h => (Working(g)' <=> Working(g))
      BY <1>3 DEF Working
    <2> SUFFICES ASSUME NEW g \in Handlers, Working(g)'
                 PROVE  /\ item'[g].id \in Known
                        /\ \A e \in queue' : e.id # item'[g].id
                        /\ \A k \in Handlers : Working(k)' /\ item'[k].id = item'[g].id => k = g
      BY <1>2 DEF OwnerInv, Known
    <2>4. CASE g = h
      BY <1>1, <1>2, <1>3, <1>4, <2>1, <2>2, <2>3, <2>4
    <2>5. CASE g # h
      BY Facts, <1>1, <1>3, <1>4, <2>2, <2>3, <2>5 DEF OwnerInv
    <2> QED
      BY <2>4, <2>5
  <1>8. CallInv'
    <2>1. \A t \in Threads \ {h} : item'[t] = item[t]
      BY Facts, <1>1 DEF TypeOK
    <2> QED
      BY <1>2, <2>1, Callers
  <1> QED
    BY <1>5, <1>6, <1>7, <1>8 DEF IInv

(* A handler that starts to upload goes on with its item. *)
LEMMA StartKeeps == ASSUME IInv, NEW h \in Handlers, StartUpload(h) PROVE IInv'
  <1>1. pc' = [pc EXCEPT ![h] = "upload"] /\ pc[h] = "check" /\ UNCHANGED <<stores, item, copied, world>>
    BY DEF StartUpload, Passed, At, Goto
  <1>2. \A g \in Handlers : Working(g)' <=> Working(g)
    BY Facts, <1>1 DEF TypeOK, Working
  <1>3. TypeOK' /\ Unique(queue)' /\ Unique(persisted)'
    BY Facts, <1>1 DEF TypeOK, Steps, Busy, Unique, Known
  <1>4. OwnerInv'
    BY Facts, <1>1, <1>2 DEF OwnerInv, Known
  <1>5. CallInv'
    BY <1>1, Callers
  <1> QED
    BY <1>3, <1>4, <1>5 DEF IInv

(* An item that is put back is the one that its handler owned. *)
LEMMA RetryKeeps ==
  ASSUME IInv, NEW h \in Handlers, NEW increase \in {0, 1}, NEW cache \in Steps \ Busy,
         NEW next \in Steps \ Busy, Retry(h, increase, cache, next), Working(h)
  PROVE  IInv'
  <1> DEFINE again == [item[h] EXCEPT !.retries = @ + increase]
  <1>1. again \in AnItem /\ again.id = item[h].id /\ again.id \in Known
    BY Facts DEF AnItem, OwnerInv
  <1> HIDE DEF again
  <1>2. PICK step \in Steps \ Busy : Goto(h, step)
    BY DEF Retry
  <1>3. /\ queue' = queue \/ queue' = queue \cup {again}
        /\ UNCHANGED <<cancelled, persisted, item, accepted>>
    BY DEF Retry, again
  <1>4. queue' \subseteq AnItem /\ \A e \in queue' : e \in queue \/ e.id = item[h].id
    BY Facts, <1>1, <1>3 DEF TypeOK
  <1>5. Unique(queue')
    <2>1. \A e \in queue : e.id # again.id
      BY Facts, <1>1 DEF OwnerInv
    <2> QED
      BY Facts, <1>1, <1>3, <2>1 DEF Unique
  <1> QED
    BY <1>2, <1>3, <1>4, <1>5, Rests

LEMMA HandlerKeeps == ASSUME IInv, NEW h \in Handlers, HandlerStep(h) PROVE IInv'
  <1>0. {"exited", "top", "get", "cache", "clear", "cacheRefused", "clearRefused", "recache"} \subseteq Steps \ Busy
    BY DEF Steps, Busy
  <1>1. ASSUME NEW from, NEW to \in Steps \ Busy, Clear(h, from, to) PROVE IInv'
    BY <1>1, RestsSame DEF Clear
  <1>2. ASSUME NEW from, NEW to \in Steps \ Busy, Cache(h, from, to) PROVE IInv'
    BY <1>2, RestsSame DEF Cache
  <1>3. CASE EndLoop(h) \/ GetNothing(h) \/ SkipCancelled(h) \/ Expire(h) \/ Fail(h)
    BY <1>0, <1>3, RestsSame DEF EndLoop, GetNothing, SkipCancelled, Expire, Fail
  <1>4. CASE NextTurn(h) \/ ClearRetried(h)
    BY <1>0, <1>1, <1>4 DEF NextTurn, ClearRetried
  <1>5. CASE Succeed(h) \/ CacheRetried(h) \/ Recache(h)
    BY <1>0, <1>2, <1>5 DEF Succeed, CacheRetried, Recache
  <1>6. CASE PostponeMetered(h) \/ Refused(h) \/ TimesOut(h) \/ Abort(h)
    BY <1>0, <1>6, RetryKeeps DEF PostponeMetered, Refused, TimesOut, Abort, Passed, At, Working
  <1> QED
    BY <1>3, <1>4, <1>5, <1>6, GetKeeps, StartKeeps DEF HandlerStep

-----------------------------------------------------------------------------
(* The callers: handlers and their items stay as they are. *)
LEMMA OwnersStay ==
  ASSUME IInv, \A h \in Handlers : pc'[h] = pc[h] /\ item'[h] = item[h],
         accepted' \in Nat, accepted <= accepted',
         \A e \in queue' : e \in queue \/ e.id = accepted + 1
  PROVE  OwnerInv'
  <1>1. Known \subseteq Known' /\ accepted + 1 \notin Known
    BY Facts DEF Known, TypeOK
  <1>2. \A h \in Handlers : Working(h)' <=> Working(h)
    BY DEF Working
  <1> QED
    BY Facts, <1>1, <1>2 DEF OwnerInv

LEMMA CallKeeps == ASSUME IInv, NEW w \in Workers, WorkerStep(w) \/ Call(w) PROVE IInv'
  <1>0. w \in Threads /\ w \notin Handlers /\ NoItem \in AnItem
    BY UploadQueueAssumption DEF Threads, NoItem, AnItem
  <1>1. IsFiniteSet(Lookups) /\ Lookups \subseteq Workers /\ Cardinality(Lookups) \in Nat /\ MaxItems \in Nat
    BY UploadQueueAssumption, FS_Subset, FS_CardinalityType DEF Lookups
  <1>2. ASSUME NEW step \in Steps \ {"lookup", "cancel"}, NEW i, pc' = [pc EXCEPT ![w] = step],
               item' = i, i \in [Threads -> AnItem], \A t \in Threads \ {w} : i[t] = item[t],
               UNCHANGED <<queue, persisted, accepted>>, cancelled' \subseteq Known
        PROVE  IInv'
    <2>1. \A t \in Threads : t # w => pc'[t] = pc[t] /\ item'[t] = item[t]
      BY Facts, <1>2 DEF TypeOK
    <2>2. TypeOK' /\ pc'[w] = step
      BY Facts, <1>0, <1>2 DEF TypeOK
    <2>3. Unique(queue)' /\ Unique(persisted)'
      BY Facts, <1>2 DEF Unique, Known
    <2>4. OwnerInv'
      BY Facts, <1>0, <1>2, <2>1, OwnersStay DEF TypeOK
    <2>5. Lookups' \subseteq Lookups
      BY <1>2, <2>1, <2>2 DEF Lookups, At, Threads
    <2>6. Cardinality(Lookups') <= Cardinality(Lookups) /\ Cardinality(Lookups') \in Nat
      BY <1>1, <2>5, FS_Subset, FS_CardinalityType
    <2>7. accepted' + Cardinality(Lookups') <= MaxItems
      BY Facts, <1>1, <1>2, <2>6 DEF CallInv, TypeOK
    <2>8. CallInv'
      BY Facts, <1>2, <2>1, <2>2, <2>7 DEF CallInv, At, Known, Threads
    <2> QED
      BY <2>2, <2>3, <2>4, <2>8 DEF IInv
  <1>3. CASE WorkerExits(w)
    BY Facts, <1>2, <1>3 DEF WorkerExits, Goto, Steps, Busy, TypeOK, CallInv
  <1>4. CASE AddCancelled(w)
    <2>1. item[w].id \in Known
      BY Facts, <1>4 DEF AddCancelled, CallInv
    <2>2. item' = [item EXCEPT ![w] = NoItem] /\ item' \in [Threads -> AnItem]
          /\ \A t \in Threads \ {w} : item'[t] = item[t]
      BY Facts, <1>0, <1>4 DEF AddCancelled, TypeOK
    <2> QED
      BY Facts, <1>2, <1>4, <2>1, <2>2 DEF AddCancelled, Goto, Steps, Busy, TypeOK, CallInv
  <1>5. CASE Enqueue(w)
    <2> DEFINE new == [item[w] EXCEPT !.id = accepted + 1]
    <2>1. new \in AnItem /\ new.id = accepted + 1
      BY Facts, <1>0 DEF AnItem, TypeOK
    <2> HIDE DEF new
    <2>2. /\ \/ queue' = queue /\ accepted' = accepted
             \/ queue' = queue \cup {new} /\ accepted' = accepted + 1
          /\ persisted' = Cached(queue')
          /\ item' = [item EXCEPT ![w] = NoItem] /\ pc' = [pc EXCEPT ![w] = "top"]
          /\ cancelled' = cancelled /\ At(w, "lookup")
      BY <1>5 DEF Enqueue, Goto, new
    <2>3. \A t \in Threads : t # w => pc'[t] = pc[t] /\ item'[t] = item[t]
      BY Facts, <2>2 DEF TypeOK
    <2>4. Known \subseteq Known' /\ accepted' \in Nat /\ accepted <= accepted'
      BY Facts, <2>2 DEF Known, TypeOK
    <2>5. Unique(queue)'
      BY Facts, <2>1, <2>2, <2>4 DEF Unique, Known, TypeOK
    <2>6. Unique(persisted)' /\ persisted' \subseteq queue'
      BY <2>2, <2>5 DEF Unique, Cached
    <2>7. TypeOK' /\ pc'[w] = "top"
      <3>1. pc' \in [Threads -> Steps] /\ item' \in [Threads -> AnItem] /\ pc'[w] = "top"
        BY Facts, <1>0, <2>2 DEF TypeOK, Steps, Busy
      <3>2. queue' \subseteq AnItem
        BY Facts, <2>1, <2>2 DEF TypeOK
      <3> QED
        BY <2>4, <2>6, <3>1, <3>2 DEF TypeOK
    <2>8. OwnerInv'
      BY Facts, <1>0, <2>1, <2>2, <2>3, <2>4, OwnersStay DEF Threads
    <2>9. Lookups' = Lookups \ {w} /\ w \in Lookups
      BY <2>2, <2>3, <2>7 DEF Lookups, At, Threads
    <2>10. Cardinality(Lookups') = Cardinality(Lookups) - 1
      BY <1>1, <2>9, FS_RemoveElement
    <2>11. accepted' + Cardinality(Lookups') <= MaxItems
      BY Facts, <1>1, <2>2, <2>10 DEF CallInv, TypeOK
    <2>12. CallInv'
      BY Facts, <2>2, <2>3, <2>4, <2>7, <2>11 DEF CallInv, At, Threads
    <2> QED
      BY <2>5, <2>6, <2>7, <2>8, <2>12 DEF IInv
  <1>6. ASSUME NEW u \in Urls, UploadFilesToUrls(w, u) PROVE IInv'
    <2> DEFINE new == [id |-> 0, url |-> u, retries |-> 0]
    <2>1. new \in AnItem
      BY DEF AnItem
    <2> HIDE DEF new
    <2>2. /\ item' = [item EXCEPT ![w] = new] /\ pc' = [pc EXCEPT ![w] = "lookup"] /\ ~At(w, "lookup")
          /\ UNCHANGED <<stores, world>> /\ accepted + Cardinality(Lookups) < MaxItems
      BY <1>6 DEF UploadFilesToUrls, Goto, new, At, Lookups
    <2>3. \A t \in Threads : t # w => pc'[t] = pc[t] /\ item'[t] = item[t]
      BY Facts, <2>2 DEF TypeOK
    <2>4. TypeOK' /\ pc'[w] = "lookup"
      BY Facts, <1>0, <2>1, <2>2 DEF TypeOK, Steps, Busy
    <2>5. Unique(queue)' /\ Unique(persisted)'
      BY Facts, <2>2 DEF Unique, Known
    <2>6. OwnerInv'
      BY Facts, <1>0, <2>2, <2>3, OwnersStay DEF Threads, TypeOK
    <2>7. Lookups' = Lookups \cup {w} /\ w \notin Lookups
      BY <2>2, <2>3, <2>4 DEF Lookups, At, Threads
    <2>8. Cardinality(Lookups') = Cardinality(Lookups) + 1
      BY <1>1, <2>7, FS_AddElement
    <2>9. accepted' + Cardinality(Lookups') <= MaxItems
      BY Facts, <1>1, <2>2, <2>8 DEF TypeOK
    <2>10. CallInv'
      BY Facts, <2>2, <2>3, <2>4, <2>9 DEF CallInv, At, Known, Threads
    <2> QED
      BY <2>4, <2>5, <2>6, <2>10 DEF IInv
  <1>7. ASSUME NEW i \in queue, CancelUpload(w, i) PROVE IInv'
    <2>1. /\ item' = [item EXCEPT ![w] = i] /\ pc' = [pc EXCEPT ![w] = "cancel"] /\ pc[w] = "top"
          /\ UNCHANGED <<stores, world>> /\ i \in AnItem /\ i.id \in Known
      BY Facts, <1>7 DEF CancelUpload, Goto, TypeOK, Unique
    <2>3. \A t \in Threads : t # w => pc'[t] = pc[t] /\ item'[t] = item[t]
      BY Facts, <2>1 DEF TypeOK
    <2>4. TypeOK' /\ pc'[w] = "cancel" /\ item'[w] = i
      BY Facts, <1>0, <2>1 DEF TypeOK, Steps, Busy
    <2>5. Unique(queue)' /\ Unique(persisted)'
      BY Facts, <2>1 DEF Unique, Known
    <2>6. OwnerInv'
      BY Facts, <1>0, <2>1, <2>3, OwnersStay DEF Threads, TypeOK
    <2>7. Lookups' = Lookups
      BY <2>1, <2>3, <2>4 DEF Lookups, At, Threads
    <2>8. CallInv'
      BY Facts, <2>1, <2>3, <2>4, <2>7 DEF CallInv, At, Known, Threads
    <2> QED
      BY <2>4, <2>5, <2>6, <2>8 DEF IInv
  <1> QED
    BY <1>3, <1>4, <1>5, <1>6, <1>7 DEF WorkerStep, Call

-----------------------------------------------------------------------------
(* Nobody has an item when athenad starts, or when the threads do. *)
LEMMA Restarted ==
  ASSUME NEW step \in Steps \ (Busy \cup {"lookup", "cancel"}), pc = [t \in Threads |-> step]
  PROVE  OwnerInv /\ Lookups = {} /\ \A w \in Workers : ~At(w, "cancel")
  BY DEF OwnerInv, Working, Busy, Lookups, At, Threads

LEMMA InitIInv == ASSUME Init PROVE IInv
  <1>1. TypeOK
    BY DEF Init, TypeOK, Steps, Busy, NoItem, AnItem
  <1>2. OwnerInv /\ Lookups = {} /\ \A w \in Workers : ~At(w, "cancel")
    BY Restarted DEF Init, Steps, Busy
  <1>3. CallInv
    BY <1>2, FS_EmptySet, UploadQueueAssumption DEF Init, CallInv
  <1> QED
    BY <1>1, <1>2, <1>3 DEF Init, IInv, Unique

LEMMA NextIInv == ASSUME IInv, [Next]_vars PROVE IInv'
  <1>0. accepted <= MaxItems /\ Cardinality({}) = 0
    <2>1. Cardinality(Lookups) \in Nat
      BY UploadQueueAssumption, FS_Subset, FS_CardinalityType DEF Lookups
    <2> QED
      BY Facts, <2>1, UploadQueueAssumption, FS_EmptySet DEF CallInv, TypeOK
  <1>1. ASSUME UNCHANGED <<queue, cancelled, persisted, pc, item, accepted>> PROVE IInv'
    BY <1>1 DEF IInv, TypeOK, Unique, OwnerInv, Working, CallInv, Lookups, At, Known
  <1>2. CASE UNCHANGED vars \/ SetEndEvent \/ JoinThreads \/ NetworkChanges
    BY <1>1, <1>2 DEF vars, SetEndEvent, JoinThreads, NetworkChanges
  <1>3. CASE Connect
    <2>1. /\ pc' = [t \in Threads |-> "top"] /\ item' = [t \in Threads |-> NoItem]
          /\ UNCHANGED <<stores, accepted>>
      BY <1>3 DEF Connect
    <2>2. TypeOK'
      BY Facts, <2>1 DEF TypeOK, Steps, Busy, NoItem, AnItem
    <2>3. OwnerInv' /\ Lookups' = {} /\ \A w \in Workers : ~At(w, "cancel")'
      BY Facts, <2>1 DEF OwnerInv, Working, Lookups, At, Threads
    <2>4. Unique(queue)' /\ Unique(persisted)' /\ CallInv'
      BY Facts, <1>0, <2>1, <2>3 DEF Unique, Known, CallInv, TypeOK
    <2> QED
      BY <2>2, <2>3, <2>4 DEF IInv
  <1>4. CASE Crash
    <2>1. /\ pc' = [t \in Threads |-> "exited"] /\ item' = [t \in Threads |-> NoItem]
          /\ queue' = persisted /\ cancelled' = {} /\ UNCHANGED <<persisted, accepted>>
      BY <1>4 DEF Crash
    <2>2. TypeOK'
      BY Facts, <2>1 DEF TypeOK, Steps, Busy, NoItem, AnItem
    <2>3. OwnerInv' /\ Lookups' = {} /\ \A w \in Workers : ~At(w, "cancel")'
      BY Facts, <2>1 DEF OwnerInv, Working, Lookups, At, Threads
    <2>4. Unique(queue)' /\ Unique(persisted)' /\ CallInv'
      BY Facts, <1>0, <2>1, <2>3 DEF Unique, Known, CallInv, TypeOK
    <2> QED
      BY <2>2, <2>3, <2>4 DEF IInv
  <1> QED
    BY <1>2, <1>3, <1>4, HandlerKeeps, CallKeeps DEF Next

LEMMA Invariant == Spec => []IInv
  BY InitIInv, NextIInv, PTL DEF Spec

(* No two threads of athenad upload an item, and none that is in the queue, whatever was *)
(* retried, aborted or restored.                                                          *)
THEOREM UploadQueueOneCopyPerItem == Spec => []OneCopyPerItem
  <1>1. IInv => OneCopyPerItem
    <2> SUFFICES ASSUME IInv, NEW i \in Ids
                 PROVE  Cardinality(Owners(i)) + Cardinality(Entries(i)) <= 1
      BY DEF OneCopyPerItem
    <2>1. Owners(i) = {} \/ Entries(i) = {}
      BY Facts DEF Owners, Entries, OwnerInv
    <2>2. Owners(i) = {} \/ \E h : Owners(i) = {h}
      BY Facts DEF Owners, OwnerInv
    <2>3. Entries(i) = {} \/ \E e : Entries(i) = {e}
      BY Facts DEF Entries, Unique
    <2>4. Cardinality({}) = 0 /\ \A x : Cardinality({x}) = 1
      BY FS_EmptySet, FS_Singleton
    <2>5. Cardinality(Owners(i)) \in {0, 1} /\ (Owners(i) = {} => Cardinality(Owners(i)) = 0)
      BY <2>2, <2>4
    <2>6. Cardinality(Entries(i)) \in {0, 1} /\ (Entries(i) = {} => Cardinality(Entries(i)) = 0)
      BY <2>3, <2>4
    <2> QED
      BY <2>1, <2>5, <2>6
  <1> QED
    BY <1>1, Invariant, PTL

-----------------------------------------------------------------------------
(* The items as Uploads sees them: one that waits is in the queue, or with a handler *)
(* that has not passed its first check.                                              *)
InQueue(i)   == \E e \in queue : e.id = i
InHand(i, s) == \E h \in Handlers : item[h].id = i /\ pc[h] = s
StatusOf(i)  == IF i > accepted THEN "new" ELSE IF Uploading(i) THEN "uploading"
                ELSE IF Waiting(i) THEN "waiting" ELSE "gone"
Status == [i \in Ids |-> StatusOf(i)]
Doomed == {i \in cancelled : Waiting(i)}
Stored == {e.id : e \in persisted}

LEMMA AcceptedBound == ASSUME IInv PROVE accepted \in Nat /\ accepted <= MaxItems /\ MaxItems \in Nat /\ Known \subseteq Ids
  <1>1. Cardinality(Lookups) \in Nat
    BY UploadQueueAssumption, FS_Subset, FS_CardinalityType DEF Lookups
  <1> QED
    BY Facts, <1>1, UploadQueueAssumption DEF CallInv, TypeOK, Known, Ids

(* Where an item is, by its status. *)
Seen(i) == /\ Uploading(i) <=> InHand(i, "upload")
           /\ Waiting(i) <=> InQueue(i) \/ InHand(i, "check")
           /\ InQueue(i) => ~InHand(i, "check") /\ ~InHand(i, "upload")
           /\ InHand(i, "check") => ~InHand(i, "upload")
           /\ InQueue(i) \/ InHand(i, "check") \/ InHand(i, "upload") => i \in Known

LEMMA View ==
  ASSUME IInv, NEW i \in Nat \ {0}
  PROVE  Seen(i)
  <1>1. \A h \in Handlers : item[h].id = i /\ Working(h) => i \in Known
    BY Facts DEF OwnerInv
  <1>2. \A g, h \in Handlers : item[g].id = i /\ Working(g) /\ item[h].id = i /\ Working(h) => g = h
    BY Facts DEF OwnerInv
  <1>3. InQueue(i) => ~\E h \in Handlers : item[h].id = i /\ Working(h)
    BY Facts DEF OwnerInv, InQueue
  <1>4. InQueue(i) => i \in Known
    BY Facts DEF Unique, InQueue
  <1>5. InQueue(i) <=> Entries(i) # {}
    BY DEF InQueue, Entries
  <1>6. Uploading(i) <=> InHand(i, "upload")
    BY DEF Uploading, InHand, Owners, Working, At
  <1>7. (\E h \in Handlers : item[h].id = i /\ Working(h)) <=> InHand(i, "check") \/ InHand(i, "upload")
    BY DEF InHand, Working
  <1>8. Owners(i) # {} <=> InHand(i, "check") \/ InHand(i, "upload")
    BY <1>7 DEF Owners
  <1>9. ~(InHand(i, "check") /\ InHand(i, "upload"))
    BY <1>2 DEF InHand, Working
  <1> QED
    BY <1>1, <1>3, <1>4, <1>5, <1>6, <1>7, <1>8, <1>9 DEF Seen, Waiting

LEMMA AllSeen == IInv => \A i \in Nat \ {0} : Seen(i)
  BY View

LEMMA AllSeenNext == IInv' => (\A i \in Nat \ {0} : Seen(i))'
  BY AllSeen, PTL

(* What is stored is of items that were accepted. *)
LEMMA StoredOfAccepted == ASSUME IInv PROVE Stored \in SUBSET {i \in Ids : Status[i] # "new"}
  <1>1. \A e \in persisted : e.id \in Known
    BY Facts DEF Unique
  <1>2. \A i \in Known : i \in Ids /\ StatusOf(i) # "new"
    BY AcceptedBound DEF Known, StatusOf
  <1> QED
    BY <1>1, <1>2 DEF Stored, Status

(* A step that concerns one item leaves the others where they are. *)
Same(j) == /\ InQueue(j)' <=> InQueue(j)
           /\ InHand(j, "check")' <=> InHand(j, "check")
           /\ InHand(j, "upload")' <=> InHand(j, "upload")

LEMMA OthersStay ==
  ASSUME NEW h \in Handlers, NEW k,
         \A g \in Handlers \ {h} : pc'[g] = pc[g] /\ item'[g] = item[g],
         Working(h) => item[h].id = k, Working(h)' => item'[h].id = k,
         \A e \in queue' : e \in queue \/ e.id = k,
         \A e \in queue : e \in queue' \/ e.id = k,
         NEW j \in Nat \ {0, k}
  PROVE  Same(j)
  <1>1. InQueue(j)' <=> InQueue(j)
    BY DEF InQueue
  <1>2. InHand(j, "check")' <=> InHand(j, "check")
    BY DEF InHand, Working
  <1>3. InHand(j, "upload")' <=> InHand(j, "upload")
    BY DEF InHand, Working
  <1> QED
    BY <1>1, <1>2, <1>3 DEF Same

(* An item that is in the same places has the same status. *)
LEMMA SameStatus ==
  ASSUME IInv, IInv', NEW j \in Ids, Same(j), j > accepted' <=> j > accepted
  PROVE  StatusOf(j)' = StatusOf(j) /\ (Waiting(j)' <=> Waiting(j))
  <1>1. j \in Nat \ {0}
    BY UploadQueueAssumption DEF Ids
  <1>2. Seen(j) /\ Seen(j)'
    BY <1>1, AllSeen, AllSeenNext
  <1>3. (Uploading(j)' <=> Uploading(j)) /\ (Waiting(j)' <=> Waiting(j))
    BY <1>2 DEF Seen, Same
  <1> QED
    BY <1>3 DEF StatusOf

(* What a step that concerns the item k shows: the others keep their status. *)
Moves(k) ==
  /\ Status' = [Status EXCEPT ![k] = StatusOf(k)']
  /\ \A j \in Ids \ {k} : Waiting(j)' <=> Waiting(j)
  /\ Stored' \in SUBSET {i \in Ids : Status'[i] # "new"}

LEMMA StoredNext == IInv' => (Stored \in SUBSET {i \in Ids : Status[i] # "new"})'
  <1>1. IInv => Stored \in SUBSET {i \in Ids : Status[i] # "new"}
    BY StoredOfAccepted
  <1> QED
    BY <1>1, PTL

LEMMA ItemMoves ==
  ASSUME IInv, IInv', NEW k \in Ids, \A j \in Nat \ {0, k} : Same(j),
         accepted' = accepted \/ (k = accepted + 1 /\ accepted' = k)
  PROVE  Moves(k)
  <1>1. Ids \subseteq Nat \ {0}
    BY UploadQueueAssumption DEF Ids
  <1>2. ASSUME NEW j \in Ids \ {k} PROVE StatusOf(j)' = StatusOf(j) /\ (Waiting(j)' <=> Waiting(j))
    <2>1. j > accepted' <=> j > accepted
      BY <1>1, AcceptedBound
    <2> QED
      BY <1>1, <2>1, SameStatus
  <1>3. Status' = [Status EXCEPT ![k] = StatusOf(k)']
    BY <1>2 DEF Status
  <1> QED
    BY <1>2, <1>3, StoredNext DEF Moves

(* The item of a handler, before and after the handler gives it up. *)
LEMMA InTheHand ==
  ASSUME IInv, NEW h \in Handlers, NEW s \in {"check", "upload"}, pc[h] = s,
         NEW k, k = item[h].id
  PROVE  /\ k \in Ids /\ k \in Nat \ {0} /\ k <= accepted
         /\ Status[k] = IF s = "check" THEN "waiting" ELSE "uploading"
         /\ Waiting(k) <=> s = "check"
  <1>1. k \in Ids /\ k \in Nat \ {0} /\ k <= accepted
    BY Facts, AcceptedBound DEF OwnerInv, Working, Known
  <1>2. InHand(k, s)
    BY DEF InHand
  <1>3. Seen(k)
    BY <1>1, AllSeen
  <1> QED
    BY <1>1, <1>2, <1>3, AcceptedBound DEF Seen, Status, StatusOf, Known

LEMMA GivenUp ==
  ASSUME IInv, IInv', NEW h \in Handlers, NEW step \in Steps \ Busy, Goto(h, step), item' = item,
         Working(h), accepted' = accepted,
         NEW k, k = item[h].id, NEW q, queue' = queue \cup q, \A e \in q : e.id = k
  PROVE  /\ Moves(k)
         /\ StatusOf(k)' = IF q = {} THEN "gone" ELSE "waiting"
         /\ Waiting(k)' <=> q # {}
  <1>1. k \in Ids /\ k \in Nat \ {0} /\ k <= accepted
    BY InTheHand DEF Working
  <1>2. /\ \A g \in Handlers \ {h} : pc'[g] = pc[g] /\ item'[g] = item[g]
        /\ ~Working(h)'
    BY Facts DEF TypeOK, Goto, Working, Busy
  <1>3. \A j \in Nat \ {0, k} : Same(j)
    BY <1>2, OthersStay
  <1>4. Moves(k)
    BY <1>1, <1>3, ItemMoves
  <1>5. \A g \in Handlers : Working(g)' => item'[g].id # k
    <2> SUFFICES ASSUME NEW g \in Handlers, Working(g)' PROVE item'[g].id # k
      OBVIOUS
    <2>1. g # h /\ Working(g) /\ item'[g] = item[g]
      BY <1>2 DEF Working
    <2> QED
      BY Facts, <2>1 DEF OwnerInv
  <1>6. ~InHand(k, "check")' /\ ~InHand(k, "upload")'
    BY <1>5 DEF InHand, Working
  <1>7. InQueue(k)' <=> q # {}
    BY Facts DEF OwnerInv, InQueue
  <1>8. \A i \in Nat \ {0} : Seen(i)'
    BY AllSeenNext
  <1>9. ~Uploading(k)' /\ (Waiting(k)' <=> q # {}) /\ ~(k > accepted')
    BY <1>1, <1>6, <1>7, <1>8, AcceptedBound DEF Seen
  <1> QED
    BY <1>4, <1>9 DEF StatusOf

-----------------------------------------------------------------------------
(* The actions of Uploads, in the words above. *)
LEMMA ItemStepSeen ==
  ASSUME NEW k \in Ids, Stored' \in SUBSET {i \in Ids : Status'[i] # "new"},
         \/ Status[k] = "new" /\ Status' = [Status EXCEPT ![k] = "waiting"] /\ Doomed' = Doomed
         \/ Status[k] = "waiting" /\ Status' = [Status EXCEPT ![k] = "uploading"] /\ k \notin Doomed /\ Doomed' = Doomed
         \/ Status[k] = "uploading" /\ Status' = [Status EXCEPT ![k] = "gone"] /\ Doomed' = Doomed
         \/ Status[k] = "waiting" /\ Status' = [Status EXCEPT ![k] = "gone"] /\ Doomed' = Doomed \ {k}
         \/ Status[k] = "uploading" /\ Status' = [Status EXCEPT ![k] = "waiting"] /\ Doomed' \in {Doomed, Doomed \cup {k}}
         \/ Status[k] = "waiting" /\ Status' = Status /\ Doomed' = Doomed \cup {k}
  PROVE  Abstract!Next
  BY DEF Abstract!Next, Abstract!ItemStep, Abstract!Accept, Abstract!Start, Abstract!Finish, Abstract!Drop,
         Abstract!GiveBack, Abstract!Cancel, Abstract!Become, Abstract!Store, Status, StatusOf, Doomed, Stored

LEMMA StoreSeen ==
  ASSUME Stored' \in SUBSET {i \in Ids : Status'[i] # "new"}, Status' = Status, Doomed' = Doomed
  PROVE  Abstract!Next
  BY DEF Abstract!Next, Abstract!Store, Status, StatusOf, Doomed, Stored

(* What a cancellation has reached follows from what waits. *)
LEMMA DoomedFollows ==
  ASSUME IInv, NEW k \in Ids, \A j \in Ids \ {k} : Waiting(j)' <=> Waiting(j),
         cancelled' = cancelled \/ cancelled' = cancelled \ {k}
  PROVE  /\ Doomed' = IF k \in cancelled' /\ Waiting(k)' THEN Doomed \cup {k} ELSE Doomed \ {k}
         /\ k \in Doomed <=> k \in cancelled /\ Waiting(k)
  <1>1. cancelled \subseteq Ids
    BY Facts, AcceptedBound DEF CallInv
  <1> QED
    BY <1>1 DEF Doomed

(* A handler that is done with its item drops it, finishes it or gives it back. *)
LEMMA GiveUpMaps ==
  ASSUME IInv, IInv', NEW h \in Handlers, NEW step \in Steps \ Busy, Goto(h, step), item' = item,
         accepted' = accepted,
         NEW k, k = item[h].id, NEW q, queue' = queue \cup q, \A e \in q : e.id = k,
         NEW s \in {"check", "upload"}, pc[h] = s,
         \/ cancelled' = cancelled /\ (s = "upload" \/ q = {} \/ k \notin cancelled)
         \/ cancelled' = cancelled \ {k} /\ s = "check" /\ q = {}
  PROVE  Abstract!Next
  <1>1. /\ k \in Ids /\ Status[k] = IF s = "check" THEN "waiting" ELSE "uploading"
        /\ Waiting(k) <=> s = "check"
    BY InTheHand
  <1>2. Moves(k) /\ StatusOf(k)' = (IF q = {} THEN "gone" ELSE "waiting") /\ (Waiting(k)' <=> q # {})
    BY GivenUp DEF Working
  <1>3. /\ Doomed' = IF k \in cancelled' /\ q # {} THEN Doomed \cup {k} ELSE Doomed \ {k}
        /\ k \in Doomed <=> k \in cancelled /\ s = "check"
    BY <1>1, <1>2, DoomedFollows DEF Moves
  <1>4. Status' = [Status EXCEPT ![k] = IF q = {} THEN "gone" ELSE "waiting"]
        /\ Stored' \in SUBSET {i \in Ids : Status'[i] # "new"}
    BY <1>2 DEF Moves
  <1>5. CASE s = "check" /\ q # {}
    <2>1. Status' = Status
      BY <1>1, <1>4, <1>5 DEF Status
    <2>2. Doomed' = Doomed
      BY <1>3, <1>5
    <2> QED
      BY <1>4, <2>1, <2>2, StoreSeen
  <1>6. CASE s = "check" /\ q = {}
    <2>1. Status[k] = "waiting" /\ Status' = [Status EXCEPT ![k] = "gone"] /\ Doomed' = Doomed \ {k}
      BY <1>1, <1>3, <1>4, <1>6
    <2> QED
      BY <1>1, <1>4, <2>1, ItemStepSeen
  <1>7. CASE s = "upload" /\ q = {}
    <2>1. Status[k] = "uploading" /\ Status' = [Status EXCEPT ![k] = "gone"] /\ Doomed' = Doomed
      BY <1>1, <1>3, <1>4, <1>7
    <2> QED
      BY <1>1, <1>4, <2>1, ItemStepSeen
  <1>8. CASE s = "upload" /\ q # {}
    <2>1. Status[k] = "uploading" /\ Status' = [Status EXCEPT ![k] = "waiting"] /\ Doomed' \in {Doomed, Doomed \cup {k}}
      BY <1>1, <1>3, <1>4, <1>8
    <2> QED
      BY <1>1, <1>4, <2>1, ItemStepSeen
  <1> QED
    BY <1>5, <1>6, <1>7, <1>8

LEMMA RetryMaps ==
  ASSUME IInv, IInv', NEW h \in Handlers, NEW increase \in {0, 1}, NEW cache \in Steps \ Busy,
         NEW next \in Steps \ Busy, Retry(h, increase, cache, next), pc[h] = "upload" \/ Passed(h)
  PROVE  Abstract!Next
  <1>1. PICK q : queue' = queue \cup q /\ \A e \in q : e.id = item[h].id
    <2> DEFINE again == [item[h] EXCEPT !.retries = @ + increase]
    <2>1. again.id = item[h].id
      BY Facts DEF AnItem
    <2> HIDE DEF again
    <2>2. queue' = queue \cup {} \/ queue' = queue \cup {again}
      BY DEF Retry, again
    <2> DEFINE Put(q) == queue' = queue \cup q /\ \A e \in q : e.id = item[h].id
    <2>3. Put({}) \/ Put({again})
      BY <2>1, <2>2
    <2> HIDE DEF Put
    <2>4. \E q : Put(q)
      BY <2>3
    <2> QED
      BY <2>4 DEF Put
  <1>2. UNCHANGED <<cancelled, item, accepted>> /\ \E step \in Steps \ Busy : Goto(h, step)
    BY DEF Retry
  <1>3. pc[h] = "upload" \/ (pc[h] = "check" /\ item[h].id \notin cancelled)
    BY DEF Passed, At
  <1> QED
    BY <1>1, <1>2, <1>3, GiveUpMaps

(* The items stay where they are. *)
LEMMA AllStay ==
  ASSUME IInv, IInv', \A j \in Nat \ {0} : Same(j), cancelled' = cancelled, accepted' = accepted
  PROVE  Abstract!Next
  <1>1. \A j \in Ids : StatusOf(j)' = StatusOf(j) /\ (Waiting(j)' <=> Waiting(j))
    BY SameStatus, UploadQueueAssumption DEF Ids
  <1>2. Status' = Status
    BY <1>1 DEF Status
  <1>3. Doomed' = Doomed
    BY <1>1, Facts, AcceptedBound DEF Doomed, CallInv
  <1> QED
    BY <1>2, <1>3, StoredNext, StoreSeen

(* A handler that works on nothing, before the step and after it. *)
LEMMA RestMaps ==
  ASSUME IInv, IInv', NEW h \in Handlers, NEW step \in Steps \ Busy, Goto(h, step), ~Working(h),
         item' = item \/ item' = [item EXCEPT ![h] = NoItem], UNCHANGED <<queue, cancelled, accepted>>
  PROVE  Abstract!Next
  <1>1. /\ \A g \in Handlers \ {h} : pc'[g] = pc[g] /\ item'[g] = item[g]
        /\ ~Working(h)'
    BY Facts DEF TypeOK, Goto, Working, Busy
  <1>2. \A j \in Nat \ {0, 0} : Same(j)
    BY <1>1, OthersStay
  <1> QED
    BY <1>2, AllStay

LEMMA GetMaps == ASSUME IInv, IInv', NEW h \in Handlers, Get(h) PROVE Abstract!Next
  <1>1. PICK i \in queue : queue' = queue \ {i} /\ item' = [item EXCEPT ![h] = i]
    BY DEF Get, Urgent
  <1>2. /\ pc' = [pc EXCEPT ![h] = "check"] /\ i \in AnItem /\ i.id \in Known
        /\ UNCHANGED <<cancelled, persisted, copied, world>>
    BY Facts, <1>1 DEF Get, Goto, TypeOK, Unique
  <1>3. \A g \in Handlers \ {h} : pc'[g] = pc[g] /\ item'[g] = item[g]
    BY Facts, <1>1, <1>2 DEF TypeOK
  <1>4. pc'[h] = "check" /\ item'[h] = i /\ ~Working(h)
    BY Facts, <1>1, <1>2 DEF TypeOK, Get, At, Working
  <1> DEFINE k == i.id
  <1>5. \A j \in Nat \ {0, k} : Same(j)
    BY <1>1, <1>3, <1>4, OthersStay
  <1>6. k \in Ids /\ k \in Nat \ {0} /\ k <= accepted
    BY <1>2, AcceptedBound DEF Known
  <1>7. InQueue(k) /\ InHand(k, "check")'
    BY <1>1, <1>4 DEF InQueue, InHand
  <1>8. Seen(k) /\ Seen(k)'
    BY <1>6, AllSeen, AllSeenNext
  <1>9. ~Uploading(k) /\ Waiting(k) /\ ~Uploading(k)' /\ Waiting(k)'
    BY <1>7, <1>8 DEF Seen
  <1>10. Moves(k)
    BY <1>2, <1>5, <1>6, ItemMoves
  <1>11. StatusOf(k) = "waiting" /\ StatusOf(k)' = "waiting"
    BY <1>2, <1>6, <1>9, AcceptedBound DEF StatusOf
  <1>12. Status' = Status
    BY <1>6, <1>10, <1>11 DEF Moves, Status
  <1>13. Doomed' = Doomed
    <2>1. Doomed' = IF k \in cancelled' /\ Waiting(k)' THEN Doomed \cup {k} ELSE Doomed \ {k}
      BY <1>2, <1>6, <1>10, DoomedFollows DEF Moves
    <2>2. k \in Doomed <=> k \in cancelled
      BY <1>9 DEF Doomed
    <2> QED
      BY <1>2, <1>9, <2>1, <2>2
  <1> QED
    BY <1>10, <1>12, <1>13, StoreSeen DEF Moves

LEMMA StartMaps == ASSUME IInv, IInv', NEW h \in Handlers, StartUpload(h) PROVE Abstract!Next
  <1> DEFINE k == item[h].id
  <1>1. /\ pc' = [pc EXCEPT ![h] = "upload"] /\ pc[h] = "check" /\ k \notin cancelled
        /\ UNCHANGED <<stores, item, world>>
    BY DEF StartUpload, Goto, Passed, At
  <1>2. k \in Ids /\ k \in Nat \ {0} /\ k <= accepted /\ Status[k] = "waiting"
    BY <1>1, InTheHand
  <1>3. \A g \in Handlers \ {h} : pc'[g] = pc[g] /\ item'[g] = item[g]
    BY Facts, <1>1 DEF TypeOK
  <1>4. pc'[h] = "upload" /\ item'[h].id = k
    BY Facts, <1>1 DEF TypeOK
  <1>5. \A j \in Nat \ {0, k} : Same(j)
    BY <1>1, <1>3, <1>4, OthersStay
  <1>6. PICK i : i = k
    OBVIOUS
  <1>7. InHand(i, "upload")'
    BY <1>4, <1>6 DEF InHand
  <1>8. Seen(i)'
    BY <1>2, <1>6, AllSeenNext
  <1>9. Uploading(i)' /\ ~Waiting(i)' /\ ~(i > accepted')
    BY <1>1, <1>2, <1>6, <1>7, <1>8, AcceptedBound DEF Seen
  <1>10. Moves(i)
    BY <1>1, <1>2, <1>5, <1>6, ItemMoves
  <1>11. Status' = [Status EXCEPT ![i] = "uploading"] /\ Stored' \in SUBSET {j \in Ids : Status'[j] # "new"}
    BY <1>9, <1>10 DEF Moves, StatusOf
  <1>12. i \notin Doomed /\ Doomed' = Doomed
    <2>1. Doomed' = IF i \in cancelled' /\ Waiting(i)' THEN Doomed \cup {i} ELSE Doomed \ {i}
      BY <1>1, <1>2, <1>6, <1>10, DoomedFollows DEF Moves
    <2>2. i \notin Doomed
      BY <1>1, <1>6 DEF Doomed
    <2> QED
      BY <1>1, <1>6, <2>1, <2>2
  <1> QED
    BY <1>2, <1>6, <1>11, <1>12, ItemStepSeen

LEMMA HandlerMaps == ASSUME IInv, IInv', NEW h \in Handlers, HandlerStep(h) PROVE Abstract!Next
  <1>0. /\ {"exited", "top", "get", "cache", "clear", "cacheRefused", "clearRefused", "recache"} \subseteq Steps \ Busy
        /\ \A step \in Steps \ Busy : At(h, step) => ~Working(h)
    BY DEF Steps, Busy, At, Working
  <1>1. ASSUME NEW from \in Steps \ Busy, NEW to \in Steps \ Busy, Clear(h, from, to) PROVE Abstract!Next
    BY <1>0, <1>1, RestMaps DEF Clear
  <1>2. ASSUME NEW from \in Steps \ Busy, NEW to \in Steps \ Busy, Cache(h, from, to) PROVE Abstract!Next
    BY <1>0, <1>2, RestMaps DEF Cache
  <1>3. CASE EndLoop(h) \/ GetNothing(h)
    BY <1>0, <1>3, RestMaps DEF EndLoop, GetNothing, At
  <1>4. ASSUME NEW s \in {"check", "upload"}, pc[h] = s, Goto(h, "top"), UNCHANGED <<queue, item, accepted>>,
               cancelled' = cancelled \/ (cancelled' = cancelled \ {item[h].id} /\ s = "check")
        PROVE  Abstract!Next
    <2>0. PICK k, q : k = item[h].id /\ q = {}
      OBVIOUS
    <2>1. k = item[h].id /\ q = {} /\ queue' = queue \cup q /\ \A e \in q : e.id = k
      BY <1>4, <2>0
    <2>2. \/ cancelled' = cancelled /\ (s = "upload" \/ q = {} \/ k \notin cancelled)
          \/ cancelled' = cancelled \ {k} /\ s = "check" /\ q = {}
      BY <1>4, <2>1
    <2> QED
      BY <1>0, <1>4, <2>1, <2>2, GiveUpMaps
  <1>5. CASE SkipCancelled(h)
    BY <1>4, <1>5 DEF SkipCancelled, At
  <1>6. CASE Expire(h)
    BY <1>4, <1>6 DEF Expire, Passed, At
  <1>7. CASE Succeed(h)
    BY <1>4, <1>7 DEF Succeed, Cache, At
  <1>8. CASE Fail(h)
    BY <1>4, <1>8 DEF Fail, At
  <1>9. CASE NextTurn(h) \/ ClearRetried(h)
    BY <1>0, <1>1, <1>9 DEF NextTurn, ClearRetried
  <1>10. CASE CacheRetried(h) \/ Recache(h)
    BY <1>0, <1>2, <1>10 DEF CacheRetried, Recache
  <1>11. CASE PostponeMetered(h) \/ Refused(h) \/ TimesOut(h) \/ Abort(h)
    BY <1>0, <1>11, RetryMaps DEF PostponeMetered, Refused, TimesOut, Abort, At
  <1> QED
    BY <1>3, <1>5, <1>6, <1>7, <1>8, <1>9, <1>10, <1>11, GetMaps, StartMaps DEF HandlerStep

-----------------------------------------------------------------------------
(* A step of a worker leaves the handlers alone, and with them every item but a new one. *)
LEMMA WorkersStay ==
  ASSUME IInv, NEW w \in Workers, NEW step, Goto(w, step), \A t \in Threads \ {w} : item'[t] = item[t],
         NEW k, \A e \in queue' : e \in queue \/ e.id = k, queue \subseteq queue'
  PROVE  \A j \in Nat \ {0, k} : Same(j)
  <1>1. \A h \in Handlers : pc'[h] = pc[h] /\ item'[h] = item[h]
    BY Facts DEF Goto, TypeOK
  <1>2. ASSUME NEW j \in Nat \ {0, k} PROVE Same(j)
    <2>1. InQueue(j)' <=> InQueue(j)
      BY <1>2 DEF InQueue
    <2>2. (InHand(j, "check")' <=> InHand(j, "check")) /\ (InHand(j, "upload")' <=> InHand(j, "upload"))
      BY <1>1 DEF InHand
    <2> QED
      BY <2>1, <2>2 DEF Same
  <1> QED
    BY <1>2

LEMMA NobodyStays ==
  ASSUME IInv, NEW w \in Workers, NEW step, Goto(w, step), \A t \in Threads \ {w} : item'[t] = item[t],
         queue' = queue
  PROVE  \A j \in Nat \ {0} : Same(j)
  <1>1. \A j \in Nat \ {0, 0} : Same(j)
    BY WorkersStay
  <1> QED
    BY <1>1

LEMMA AcceptedBoundNext == IInv' => (accepted <= MaxItems)'
  <1>1. IInv => accepted <= MaxItems
    BY AcceptedBound
  <1> QED
    BY <1>1, PTL

LEMMA EnqueueMaps == ASSUME IInv, IInv', NEW w \in Workers, Enqueue(w) PROVE Abstract!Next
  <1> DEFINE new == [item[w] EXCEPT !.id = accepted + 1]
  <1>1. new.id = accepted + 1 /\ new \in AnItem
    BY Facts, UploadQueueAssumption DEF AnItem, TypeOK, Threads
  <1> HIDE DEF new
  <1>2. /\ \/ queue' = queue /\ accepted' = accepted
           \/ queue' = queue \cup {new} /\ accepted' = accepted + 1
        /\ item' = [item EXCEPT ![w] = NoItem] /\ Goto(w, "top") /\ cancelled' = cancelled
    BY DEF Enqueue, new
  <1>3. \A t \in Threads \ {w} : item'[t] = item[t]
    BY Facts, <1>2 DEF TypeOK
  <1>4. CASE queue' = queue /\ accepted' = accepted
    BY <1>2, <1>3, <1>4, NobodyStays, AllStay
  <1>5. CASE queue' = queue \cup {new} /\ accepted' = accepted + 1
    <2>1. PICK k \in Ids : k = accepted + 1 /\ k \in Nat \ {0}
      <3>1. accepted + 1 <= MaxItems /\ accepted + 1 \in Nat \ {0}
        BY <1>5, AcceptedBound, AcceptedBoundNext
      <3> QED
        BY <3>1, UploadQueueAssumption DEF Ids
    <2>2. \A j \in Nat \ {0, k} : Same(j)
      BY <1>1, <1>2, <1>3, <1>5, <2>1, WorkersStay
    <2>3. Moves(k)
      BY <1>5, <2>1, <2>2, ItemMoves
    <2>4. InQueue(k)'
      BY <1>1, <1>5, <2>1 DEF InQueue
    <2>5. Seen(k)'
      BY <2>1, AllSeenNext
    <2>6. ~Uploading(k)' /\ Waiting(k)' /\ ~(k > accepted')
      BY <1>5, <2>1, <2>4, <2>5, AcceptedBound DEF Seen
    <2>7. Status' = [Status EXCEPT ![k] = "waiting"] /\ Stored' \in SUBSET {j \in Ids : Status'[j] # "new"}
      BY <2>3, <2>6 DEF Moves, StatusOf
    <2>8. Status[k] = "new"
      BY <2>1, AcceptedBound DEF Status, StatusOf
    <2>9. k \notin cancelled
      BY Facts, <2>1, AcceptedBound DEF CallInv, Known
    <2>10. Doomed' = Doomed
      <3>1. Doomed' = Doomed \ {k} /\ k \notin Doomed
        BY <1>2, <2>3, <2>9, DoomedFollows DEF Moves
      <3> QED
        BY <3>1
    <2> QED
      BY <2>7, <2>8, <2>10, ItemStepSeen
  <1> QED
    BY <1>2, <1>4, <1>5

(* A cancellation reaches an item that still waits, or comes too late. *)
LEMMA CancelMaps == ASSUME IInv, IInv', NEW w \in Workers, AddCancelled(w) PROVE Abstract!Next
  <1>1. PICK k : k = item[w].id
    OBVIOUS
  <1>2. k \in Ids
    BY Facts, <1>1, AcceptedBound DEF AddCancelled, CallInv
  <1>3. /\ cancelled' = cancelled \cup {k} /\ item' = [item EXCEPT ![w] = NoItem] /\ Goto(w, "top")
        /\ UNCHANGED <<queue, accepted>>
    BY <1>1 DEF AddCancelled
  <1>4. \A j \in Nat \ {0} : Same(j)
    BY Facts, <1>3, NobodyStays DEF TypeOK
  <1>5. \A j \in Ids : StatusOf(j)' = StatusOf(j) /\ (Waiting(j)' <=> Waiting(j))
    BY <1>3, <1>4, SameStatus, UploadQueueAssumption DEF Ids
  <1>6. Status' = Status
    BY <1>5 DEF Status
  <1>7. Doomed' = IF Waiting(k) THEN Doomed \cup {k} ELSE Doomed
    BY <1>2, <1>3, <1>5, Facts, AcceptedBound DEF Doomed, CallInv
  <1>8. CASE Waiting(k)
    <2>1. InQueue(k) \/ InHand(k, "check")
      BY <1>2, <1>8, AllSeen, UploadQueueAssumption DEF Seen, Ids
    <2>2. Status[k] = "waiting"
      <3>1. k \in Nat \ {0}
        BY <1>2, UploadQueueAssumption DEF Ids
      <3>2. Seen(k)
        BY <3>1, AllSeen
      <3>3. k \in Known /\ ~Uploading(k)
        BY <2>1, <3>2 DEF Seen
      <3> QED
        BY <1>2, <1>8, <3>1, <3>3, AcceptedBound DEF Status, StatusOf, Known
    <2> QED
      BY <1>2, <1>6, <1>7, <1>8, <2>2, StoredNext, ItemStepSeen
  <1>9. CASE ~Waiting(k)
    BY <1>6, <1>7, <1>9, StoredNext, StoreSeen
  <1> QED
    BY <1>8, <1>9

LEMMA WorkerMaps == ASSUME IInv, IInv', NEW w \in Workers, WorkerStep(w) \/ Call(w) PROVE Abstract!Next
  <1>1. CASE WorkerExits(w)
    BY <1>1, NobodyStays, AllStay DEF WorkerExits
  <1>2. CASE Enqueue(w)
    BY <1>2, EnqueueMaps
  <1>3. CASE AddCancelled(w)
    BY <1>3, CancelMaps
  <1>4. ASSUME NEW new, NEW step, item' = [item EXCEPT ![w] = new], Goto(w, step),
               UNCHANGED <<queue, cancelled, accepted>>
        PROVE  Abstract!Next
    <2>1. \A t \in Threads \ {w} : item'[t] = item[t]
      BY Facts, <1>4 DEF TypeOK
    <2> QED
      BY <1>4, <2>1, NobodyStays, AllStay
  <1>5. ASSUME NEW u \in Urls, UploadFilesToUrls(w, u) PROVE Abstract!Next
    BY <1>4, <1>5 DEF UploadFilesToUrls
  <1>6. ASSUME NEW i \in queue, CancelUpload(w, i) PROVE Abstract!Next
    BY <1>4, <1>6 DEF CancelUpload
  <1> QED
    BY <1>1, <1>2, <1>3, <1>5, <1>6 DEF WorkerStep, Call

-----------------------------------------------------------------------------
(* Between two connections no thread runs. *)
ClosedInv == connection = "closed" => \A t \in Threads : pc[t] = "exited"

LEMMA Closed == Spec => []ClosedInv
  <1>1. Init => ClosedInv
    BY DEF Init, ClosedInv
  <1>2. ASSUME ClosedInv, [Next]_vars PROVE ClosedInv'
    <2>1. ASSUME connection # "closed", connection' = connection PROVE ClosedInv'
      BY <2>1 DEF ClosedInv
    <2>2. ASSUME NEW h \in Handlers, HandlerStep(h) PROVE pc[h] # "exited" /\ connection' = connection
      BY <2>2 DEF HandlerStep, EndLoop, NextTurn, GetNothing, Get, SkipCancelled, Expire, PostponeMetered,
                  StartUpload, CacheRetried, ClearRetried, Succeed, Refused, Recache, TimesOut, Abort, Fail,
                  Passed, Retry, Cache, Clear, At
    <2>3. ASSUME NEW w \in Workers, WorkerStep(w) \/ Call(w) PROVE pc[w] # "exited" /\ connection' = connection
      BY <2>3 DEF WorkerStep, Call, WorkerExits, UploadFilesToUrls, Enqueue, CancelUpload, AddCancelled, At
    <2>4. CASE Connect \/ SetEndEvent
      BY <2>4 DEF Connect, SetEndEvent, ClosedInv
    <2>5. CASE JoinThreads
      BY <2>5 DEF JoinThreads, ClosedInv
    <2>7. CASE NetworkChanges \/ UNCHANGED vars
      <3>1. pc' = pc /\ connection' = connection
        BY <2>7 DEF NetworkChanges, vars
      <3> QED
        BY <1>2, <3>1 DEF ClosedInv
    <2>8. CASE \E h \in Handlers : HandlerStep(h)
      BY <1>2, <2>1, <2>2, <2>8 DEF ClosedInv, Threads
    <2>9. CASE \E w \in Workers : WorkerStep(w) \/ Call(w)
      BY <1>2, <2>1, <2>3, <2>9 DEF ClosedInv, Threads
    <2>6. CASE Crash
      BY <2>6 DEF Crash, ClosedInv
    <2> QED
      BY <1>2, <2>4, <2>5, <2>6, <2>7, <2>8, <2>9 DEF Next
  <1> QED
    BY <1>1, <1>2, PTL DEF Spec

(* A connection's threads start with nothing in hand, as the last ones ended. *)
LEMMA ConnectMaps == ASSUME IInv, IInv', ClosedInv, Connect PROVE Abstract!Next
  <1>1. \A h \in Handlers : pc[h] = "exited" /\ pc'[h] = "top"
    BY DEF Connect, ClosedInv, Threads
  <1>2. queue' = queue /\ cancelled' = cancelled /\ accepted' = accepted
    BY DEF Connect
  <1>3. ASSUME NEW j \in Nat \ {0} PROVE Same(j)
    <2>1. InQueue(j)' <=> InQueue(j)
      BY <1>2 DEF InQueue
    <2>2. ~InHand(j, "check") /\ ~InHand(j, "upload") /\ ~InHand(j, "check")' /\ ~InHand(j, "upload")'
      BY <1>1 DEF InHand
    <2> QED
      BY <2>1, <2>2 DEF Same
  <1> QED
    BY <1>2, <1>3, AllStay

(* After a crash what is stored waits, and nothing is canceled. *)
LEMMA CrashMaps == ASSUME IInv, IInv', Crash PROVE Abstract!Next
  <1>1. /\ queue' = persisted /\ persisted' = persisted /\ cancelled' = {} /\ accepted' = accepted
        /\ \A h \in Handlers : pc'[h] = "exited"
    BY DEF Crash, Threads
  <1>2. ASSUME NEW i \in Ids
        PROVE  StatusOf(i)' = IF i \in Stored THEN "waiting" ELSE IF Status[i] = "new" THEN "new" ELSE "gone"
    <2>1. i \in Nat \ {0}
      BY <1>2, UploadQueueAssumption DEF Ids
    <2>2. Seen(i) /\ Seen(i)'
      BY <2>1, AllSeen, AllSeenNext
    <2>3. InQueue(i)' <=> i \in Stored
      BY <1>1 DEF InQueue, Stored
    <2>4. ~InHand(i, "check")' /\ ~InHand(i, "upload")'
      BY <1>1 DEF InHand
    <2>5. i \in Stored => i <= accepted
      <3>1. i \in Stored => Status[i] # "new"
        BY StoredOfAccepted
      <3>2. i > accepted \/ i <= accepted
        BY <2>1, AcceptedBound
      <3> QED
        BY <3>1, <3>2 DEF Status, StatusOf
    <2>6. Status[i] = "new" <=> i > accepted
      BY DEF Status, StatusOf
    <2>7. ~Uploading(i)' /\ (Waiting(i)' <=> i \in Stored)
      BY <2>2, <2>3, <2>4 DEF Seen
    <2> QED
      BY <1>1, <2>1, <2>5, <2>6, <2>7, AcceptedBound DEF StatusOf
  <1>3. Status' = [i \in Ids |-> IF i \in Stored THEN "waiting" ELSE IF Status[i] = "new" THEN "new" ELSE "gone"]
    BY <1>2 DEF Status
  <1>4. Doomed' = {} /\ Stored' = Stored
    BY <1>1 DEF Doomed, Stored
  <1> QED
    BY <1>3, <1>4 DEF Abstract!Next, Abstract!Restart, Status, StatusOf, Doomed, Stored

LEMMA InitMaps == ASSUME Init PROVE Abstract!Init
  <1>1. \A i \in Ids : StatusOf(i) = "new"
    BY UploadQueueAssumption DEF Init, StatusOf, Ids
  <1>2. Status = [i \in Ids |-> "new"]
    BY <1>1 DEF Status
  <1>3. Doomed = {} /\ Stored = {}
    BY DEF Init, Doomed, Stored
  <1> QED
    BY <1>2, <1>3 DEF Abstract!Init, Status, StatusOf, Doomed, Stored

LEMMA NextMaps == ASSUME IInv, IInv', ClosedInv, [Next]_vars PROVE [Abstract!Next]_Abstract!vars
  <1>1. ASSUME UNCHANGED <<queue, cancelled, persisted, pc, item, accepted>> PROVE Abstract!Next
    <2>1. \A j \in Nat \ {0} : Same(j)
      BY <1>1 DEF Same, InQueue, InHand
    <2> QED
      BY <1>1, <2>1, AllStay
  <1>2. CASE UNCHANGED vars \/ SetEndEvent \/ JoinThreads \/ NetworkChanges
    BY <1>1, <1>2 DEF vars, SetEndEvent, JoinThreads, NetworkChanges
  <1> QED
    BY <1>2, HandlerMaps, WorkerMaps, ConnectMaps, CrashMaps DEF Next

(* Every step of the threads is a step of the abstract queue of Uploads: an item that was *)
(* canceled before its handler's check is never uploaded, one that is given back waits.    *)
THEOREM UploadQueueImplementsUploads == Spec => ImplementsUploads
  <1>1. IInv /\ IInv' /\ ClosedInv /\ [Next]_vars => [Abstract!Next]_Abstract!vars
    BY NextMaps
  <1> QED
    BY <1>1, InitMaps, Invariant, Closed, PTL DEF Spec, ImplementsUploads, Abstract!Spec
=============================================================================
