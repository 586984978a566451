--------------------------- MODULE LoggerdProofs ---------------------------
(***************************************************************************)
(* Whatever the lengths of segments and queues, the number of encoders and *)
(* the faults within their bounds:                                         *)
(*  - the packets of an encoder are written in the order in which they     *)
(*    were encoded (Inv; no exceptions);                                   *)
(*  - the encoders meet in the same segments of the log, and all that is   *)
(*    lost is one packet of an encoder per restart of encoderd             *)
(*    (LoggerdInv: Inv, bounds on the pace of the encoders, and the phase  *)
(*    of each in its segment).                                             *)
(***************************************************************************)
EXTENDS LoggerdProps, FiniteSetTheorems, TLAPS

Packets == [n : Nat, run : Nat, seg : Int, key : BOOLEAN]
Entries == [packet : Packets, at : Nat]

HasQueue(r) == "q" \in DOMAIN r /\ r.q \in Seq(Packets)

TypeOK ==
  /\ frame \in [Encoders -> Int] /\ curSeg \in [Encoders -> Int] /\ sent \in [Encoders -> Nat]
  /\ segment \in Nat /\ restarts \in Nat
  /\ DOMAIN re = Encoders /\ \A e \in Encoders : HasQueue(re[e])
  /\ files \in [Encoders -> Seq(Entries)]

(* What is written of an encoder, then what is queued, then what it has yet to encode *)
(* are in order, and nothing was written into a later segment than the current.       *)
InOrder(f, q, s, seg) ==
  /\ \A i, j \in DOMAIN f : i < j => f[i].packet.n < f[j].packet.n /\ f[i].at <= f[j].at
  /\ \A i \in DOMAIN f : f[i].at <= seg /\ f[i].packet.n < s
  /\ \A i \in DOMAIN f, k \in DOMAIN q : f[i].packet.n < q[k].n
  /\ \A k, l \in DOMAIN q : k < l => q[k].n < q[l].n
  /\ \A k \in DOMAIN q : q[k].n < s

Ordered == \A e \in Encoders : InOrder(files[e], re[e].q, sent[e], segment)

Inv == TypeOK /\ Ordered

-----------------------------------------------------------------------------
(* What write_encode_data writes is the end of what it was given. *)
LEMMA WrittenIsTail ==
  ASSUME NEW recording, NEW msgs \in Seq(Packets)
  PROVE  /\ Written(recording, msgs) \in Seq(Packets)
         /\ \E k \in Nat : \A i \in DOMAIN Written(recording, msgs) :
              i + k \in DOMAIN msgs /\ Written(recording, msgs)[i] = msgs[i + k]
  <1> DEFINE firstKey == {i \in DOMAIN msgs : msgs[i].key /\ \A j \in 1 .. i - 1 : ~msgs[j].key}
             first    == CHOOSE i \in firstKey : TRUE
  <1>1. CASE recording
    <2>1. Written(recording, msgs) = msgs
      BY <1>1 DEF Written
    <2>2. \A i \in DOMAIN msgs : i + 0 \in DOMAIN msgs /\ msgs[i] = msgs[i + 0]
      OBVIOUS
    <2> QED
      BY <2>1, <2>2
  <1>2. CASE ~recording /\ firstKey = {}
    <2>1. Written(recording, msgs) = <<>>
      BY <1>2 DEF Written
    <2> QED
      BY <2>1
  <1>3. CASE ~recording /\ firstKey # {}
    <2>1. first \in DOMAIN msgs
      BY <1>3
    <2> HIDE DEF first
    <2>2. Written(recording, msgs) = SubSeq(msgs, first, Len(msgs))
      BY <1>3 DEF Written, first
    <2>3. first - 1 \in Nat
      BY <2>1
    <2>4. /\ SubSeq(msgs, first, Len(msgs)) \in Seq(Packets)
          /\ \A i \in DOMAIN SubSeq(msgs, first, Len(msgs)) :
               i + (first - 1) \in DOMAIN msgs /\ SubSeq(msgs, first, Len(msgs))[i] = msgs[i + (first - 1)]
      BY <2>1
    <2> QED
      BY <2>2, <2>3, <2>4
  <1> QED
    BY <1>1, <1>2, <1>3

(* The fields of packets. *)
LEMMA PacketFields ==
  /\ \A m \in Packets : m.n \in Nat /\ m.run \in Nat
  /\ \A x \in Entries : x.at \in Nat /\ x.packet.n \in Nat /\ x.packet.run \in Nat
  BY DEF Packets, Entries

LEMMA SequenceFields ==
  ASSUME NEW f \in Seq(Entries), NEW q \in Seq(Packets)
  PROVE  /\ \A i \in DOMAIN f : f[i].at \in Nat /\ f[i].packet.n \in Nat /\ f[i].packet.run \in Nat
         /\ \A k \in DOMAIN q : q[k].n \in Nat /\ q[k].run \in Nat
  <1>1. /\ \A i \in DOMAIN f : f[i] \in Entries
        /\ \A k \in DOMAIN q : q[k] \in Packets
    OBVIOUS
  <1> QED
    BY <1>1, PacketFields

(* The packet that is encoded next. *)
LEMMA PacketType ==
  ASSUME TypeOK, NEW e \in Encoders
  PROVE  Packet(e) \in Packets /\ Packet(e).n = sent[e] /\ SegmentNum(e) \in Int
  <1>1. SegmentNum(e) \in Int
    BY DEF TypeOK, SegmentNum
  <1>2. (RollsOver(e) \/ (frame[e] % SegFrames) % Gop = 0) \in BOOLEAN
    BY Zenon DEF RollsOver
  <1> QED
    BY <1>1, <1>2 DEF TypeOK, Packet, Packets

LEMMA EnterType ==
  ASSUME NEW e, NEW r, HasQueue(r)
  PROVE  HasQueue(Enter(e, r)) /\ Enter(e, r).q = r.q
  BY DEF Enter, HasQueue

-----------------------------------------------------------------------------
(* Order is kept by time, by the queue and by writing what was queued. *)

LEMMA TimeKeepsOrder ==
  ASSUME NEW f \in Seq(Entries), NEW q \in Seq(Packets), NEW s \in Nat, NEW t \in Nat, s <= t,
         NEW seg \in Nat, NEW seg1 \in Nat, seg <= seg1, InOrder(f, q, s, seg)
  PROVE  InOrder(f, q, t, seg1)
  <1>1. \A i \in DOMAIN f : f[i].at \in Nat /\ f[i].packet.n \in Nat
    BY SequenceFields
  <1>2. \A k \in DOMAIN q : q[k].n \in Nat
    BY SequenceFields
  <1> QED
    BY <1>1, <1>2 DEF InOrder

LEMMA QueueKeepsOrder ==
  ASSUME NEW f \in Seq(Entries), NEW q \in Seq(Packets), NEW s \in Nat, NEW seg \in Nat,
         InOrder(f, q, s, seg), NEW m \in Packets, m.n = s
  PROVE  InOrder(f, Append(q, m), s + 1, seg)
  <1>1. \A i \in DOMAIN f : f[i].at \in Nat /\ f[i].packet.n \in Nat
    BY SequenceFields
  <1>2. \A k \in DOMAIN q : q[k].n \in Nat
    BY SequenceFields
  <1>3. \A k \in DOMAIN Append(q, m) :
          (k \in DOMAIN q /\ Append(q, m)[k] = q[k]) \/ (k = Len(q) + 1 /\ Append(q, m)[k] = m)
    OBVIOUS
  <1>4. \A k \in DOMAIN q : k < Len(q) + 1
    OBVIOUS
  <1>5. \A k, l \in DOMAIN Append(q, m) : k < l => Append(q, m)[k].n < Append(q, m)[l].n
    <2> TAKE k, l \in DOMAIN Append(q, m)
    <2> HAVE k < l
    <2>1. k \in DOMAIN q /\ Append(q, m)[k] = q[k]
      BY <1>3, <1>4
    <2>2. CASE l \in DOMAIN q /\ Append(q, m)[l] = q[l]
      BY <2>1, <2>2 DEF InOrder
    <2>3. CASE Append(q, m)[l] = m
      BY <2>1, <2>3 DEF InOrder
    <2> QED
      BY <1>3, <2>2, <2>3
  <1>6. \A k \in DOMAIN Append(q, m) : Append(q, m)[k].n < s + 1
    BY <1>2, <1>3 DEF InOrder
  <1>7. \A i \in DOMAIN f, k \in DOMAIN Append(q, m) : f[i].packet.n < Append(q, m)[k].n
    BY <1>3 DEF InOrder
  <1>8. \A i \in DOMAIN f : f[i].at <= seg /\ f[i].packet.n < s + 1
    BY <1>1 DEF InOrder
  <1>9. \A i, j \in DOMAIN f : i < j => f[i].packet.n < f[j].packet.n /\ f[i].at <= f[j].at
    BY DEF InOrder
  <1> QED
    BY <1>5, <1>6, <1>7, <1>8, <1>9 DEF InOrder

LEMMA WriteKeepsOrder ==
  ASSUME NEW f \in Seq(Entries), NEW q \in Seq(Packets), NEW s \in Nat, NEW seg \in Nat,
         InOrder(f, q, s, seg), NEW out \in Seq(Packets), NEW k \in Nat,
         \A i \in DOMAIN out : i + k \in DOMAIN q /\ out[i] = q[i + k]
  PROVE  LET new == [i \in DOMAIN out |-> [packet |-> out[i], at |-> seg]]
         IN  f \o new \in Seq(Entries) /\ InOrder(f \o new, <<>>, s, seg)
  <1> DEFINE new == [i \in DOMAIN out |-> [packet |-> out[i], at |-> seg]]
             g == f \o new
  <1>1. /\ \A i \in DOMAIN f : f[i].at \in Nat /\ f[i].packet.n \in Nat
        /\ \A i \in DOMAIN q : q[i].n \in Nat
        /\ \A i \in DOMAIN out : [packet |-> out[i], at |-> seg] \in Entries
    <2>1. \A i \in DOMAIN out : out[i] \in Packets
      OBVIOUS
    <2>2. \A i \in DOMAIN out : [packet |-> out[i], at |-> seg] \in Entries
      BY <2>1 DEF Entries
    <2> QED
      BY <2>2, SequenceFields
  <1>2. new \in Seq(Entries) /\ Len(new) = Len(out)
    BY <1>1
  <1>3. g \in Seq(Entries) /\ Len(g) = Len(f) + Len(out)
    <2>1. \A a, b \in Seq(Entries) : a \o b \in Seq(Entries) /\ Len(a \o b) = Len(a) + Len(b)
      OBVIOUS
    <2> QED
      BY <1>2, <2>1
  <1>4. \A i \in DOMAIN g :
          \/ i \in DOMAIN f /\ g[i] = f[i]
          \/ /\ i - Len(f) \in DOMAIN out /\ i > Len(f)
             /\ g[i].at = seg /\ g[i].packet = out[i - Len(f)]
    <2> HIDE DEF new
    <2>1. \A i \in DOMAIN g : (i \in DOMAIN f /\ g[i] = f[i])
            \/ (i - Len(f) \in DOMAIN out /\ i > Len(f) /\ g[i] = new[i - Len(f)])
      BY <1>2
    <2>2. \A i \in DOMAIN out : new[i].at = seg /\ new[i].packet = out[i]
      BY DEF new
    <2> QED
      BY <2>1, <2>2
  <1> HIDE DEF new, g
  <1>5. \A i \in DOMAIN out : out[i].n \in Nat /\ out[i].n < s
          /\ \A j \in DOMAIN f : f[j].packet.n < out[i].n
    BY <1>1 DEF InOrder
  <1>6. \A i, j \in DOMAIN out : i < j => out[i].n < out[j].n
    <2> TAKE i, j \in DOMAIN out
    <2> HAVE i < j
    <2>1. i + k < j + k
      OBVIOUS
    <2> QED
      BY <2>1 DEF InOrder
  <1>7. \A i, j \in DOMAIN g : i < j => g[i].packet.n < g[j].packet.n /\ g[i].at <= g[j].at
    <2> TAKE i, j \in DOMAIN g
    <2> HAVE i < j
    <2>0. i \in Nat /\ j \in Nat /\ Len(f) \in Nat
      BY <1>3
    <2>1. CASE j \in DOMAIN f /\ g[j] = f[j]
      <3>1. i \in DOMAIN f /\ g[i] = f[i]
        BY <2>0, <2>1, <1>4
      <3> QED
        BY <2>1, <3>1 DEF InOrder
    <2>2. CASE j - Len(f) \in DOMAIN out /\ j > Len(f) /\ g[j].at = seg /\ g[j].packet = out[j - Len(f)]
      <3>1. CASE i \in DOMAIN f /\ g[i] = f[i]
        BY <2>2, <3>1, <1>5 DEF InOrder
      <3>2. CASE i - Len(f) \in DOMAIN out /\ g[i].at = seg /\ g[i].packet = out[i - Len(f)]
        <4>1. i - Len(f) < j - Len(f)
          BY <2>0
        <4> QED
          BY <2>2, <3>2, <4>1, <1>6
      <3> QED
        BY <1>4, <3>1, <3>2
    <2> QED
      BY <1>4, <2>1, <2>2
  <1>8. \A i \in DOMAIN g : g[i].at <= seg /\ g[i].packet.n < s
    BY <1>4, <1>5 DEF InOrder
  <1>9. InOrder(g, <<>>, s, seg)
    BY <1>7, <1>8 DEF InOrder
  <1> QED
    BY <1>3, <1>9 DEF g, new

-----------------------------------------------------------------------------
(* One packet of one encoder: it is queued behind the others, written behind the *)
(* others or dropped.                                                            *)

(* What the packet changes of its encoder, seen before the log is rotated. *)
Kept(e) ==
  /\ DOMAIN re' = Encoders /\ files' \in [Encoders -> Seq(Entries)]
  /\ HasQueue(re'[e])
  /\ InOrder(files'[e], re'[e].q, sent[e] + 1, segment)
  /\ \A d \in Encoders \ {e} : re'[d] = re[d] /\ files'[d] = files[d]

LEMMA WriteKeeps ==
  ASSUME TypeOK, NEW e \in Encoders, NEW r, HasQueue(r), NEW m \in Packets, m.n = sent[e],
         InOrder(files[e], r.q, sent[e], segment), Write(e, r, QueuedAnd(r, m))
  PROVE  Kept(e)
  <1> DEFINE msgs == QueuedAnd(r, m)
             out  == Written(r.recording, msgs)
             new  == [i \in DOMAIN out |-> [packet |-> out[i], at |-> segment]]
  <1>1. /\ files[e] \in Seq(Entries) /\ r.q \in Seq(Packets) /\ sent[e] \in Nat /\ segment \in Nat
        /\ sent[e] + 1 \in Nat
    BY DEF TypeOK, HasQueue
  <1>2. msgs \in Seq(Packets) /\ InOrder(files[e], msgs, sent[e] + 1, segment)
    BY <1>1, QueueKeepsOrder DEF QueuedAnd
  <1>3. files' = [files EXCEPT ![e] = @ \o new]
        /\ re' = [re EXCEPT ![e] = [r EXCEPT !.q = <<>>, !.recording = @ \/ out # <<>>]]
    BY DEF Write
  <1> HIDE DEF msgs
  <1>4. /\ out \in Seq(Packets)
        /\ \E k \in Nat : \A i \in DOMAIN out : i + k \in DOMAIN msgs /\ out[i] = msgs[i + k]
    BY <1>2, WrittenIsTail
  <1> HIDE DEF out
  <1>5. files[e] \o new \in Seq(Entries) /\ InOrder(files[e] \o new, <<>>, sent[e] + 1, segment)
    BY <1>1, <1>2, <1>4, WriteKeepsOrder
  <1> HIDE DEF new
  <1>6. /\ files' \in [Encoders -> Seq(Entries)] /\ files'[e] = files[e] \o new
        /\ \A d \in Encoders \ {e} : files'[d] = files[d]
    BY <1>3, <1>5 DEF TypeOK
  <1>7. /\ DOMAIN re' = Encoders
        /\ re'[e] = [r EXCEPT !.q = <<>>, !.recording = @ \/ out # <<>>]
        /\ \A d \in Encoders \ {e} : re'[d] = re[d]
    BY <1>3 DEF TypeOK
  <1>8. HasQueue(re'[e]) /\ re'[e].q = <<>>
    BY <1>7 DEF HasQueue
  <1> QED
    BY <1>5, <1>6, <1>7, <1>8 DEF Kept

LEMMA PushKeeps ==
  ASSUME TypeOK, NEW e \in Encoders, NEW r, HasQueue(r), NEW m \in Packets, m.n = sent[e],
         InOrder(files[e], r.q, sent[e], segment), Push(e, r, m)
  PROVE  Kept(e)
  <1> DEFINE q == IF Len(r.q) > QueueMax THEN r.q ELSE Append(r.q, m)
  <1>1. /\ files[e] \in Seq(Entries) /\ r.q \in Seq(Packets) /\ sent[e] \in Nat /\ segment \in Nat
        /\ sent[e] + 1 \in Nat /\ sent[e] <= sent[e] + 1 /\ segment <= segment
    BY DEF TypeOK, HasQueue
  <1>2. q \in Seq(Packets)
    BY <1>1
  <1>3. InOrder(files[e], r.q, sent[e] + 1, segment)
    BY <1>1, TimeKeepsOrder
  <1>4. InOrder(files[e], Append(r.q, m), sent[e] + 1, segment)
    BY <1>1, QueueKeepsOrder
  <1>5. InOrder(files[e], q, sent[e] + 1, segment)
    BY <1>3, <1>4
  <1>6. re' = [re EXCEPT ![e] = [r EXCEPT !.q = q]] /\ files' = files
    BY DEF Push
  <1> HIDE DEF q
  <1>7. /\ DOMAIN re' = Encoders /\ re'[e] = [r EXCEPT !.q = q]
        /\ \A d \in Encoders \ {e} : re'[d] = re[d]
    BY <1>6 DEF TypeOK
  <1>8. HasQueue(re'[e]) /\ re'[e].q = q
    BY <1>2, <1>7 DEF HasQueue
  <1> QED
    BY <1>5, <1>6, <1>7, <1>8 DEF Kept, TypeOK

LEMMA DropKeeps ==
  ASSUME TypeOK, NEW e \in Encoders, NEW r, HasQueue(r),
         InOrder(files[e], r.q, sent[e], segment), Older(e, r)
  PROVE  Kept(e)
  <1>1. /\ files[e] \in Seq(Entries) /\ r.q \in Seq(Packets) /\ sent[e] \in Nat /\ segment \in Nat
        /\ sent[e] + 1 \in Nat /\ sent[e] <= sent[e] + 1 /\ segment <= segment
    BY DEF TypeOK, HasQueue
  <1>2. InOrder(files[e], r.q, sent[e] + 1, segment)
    BY <1>1, TimeKeepsOrder
  <1>3. re' = [re EXCEPT ![e] = [r EXCEPT !.offset = -segment]] /\ files' = files
    BY DEF Older
  <1>4. /\ DOMAIN re' = Encoders /\ re'[e] = [r EXCEPT !.offset = -segment]
        /\ \A d \in Encoders \ {e} : re'[d] = re[d]
    BY <1>3 DEF TypeOK
  <1>5. HasQueue(re'[e]) /\ re'[e].q = r.q
    BY <1>4 DEF HasQueue
  <1> QED
    BY <1>2, <1>3, <1>4, <1>5 DEF Kept, TypeOK

LEMMA ReceiveKeepsInv ==
  ASSUME Inv, NEW e \in Encoders, Receive(e)
  PROVE  Inv'
  <1> DEFINE m  == Packet(e)
             r  == [re[e] EXCEPT !.seen = TRUE, !.offset = IF re[e].seen THEN @ ELSE m.seg]
             at == m.seg - r.offset
  <1>1. /\ Encode(e)
        /\ \/ at = segment /\ InSegment(e, r, m)
           \/ at > segment /\ Ahead(e, r, m)
           \/ at < segment /\ Older(e, r)
        /\ Rotate(IF at > segment /\ ~r.marked THEN readyToRotate + 1 ELSE readyToRotate)
        /\ UNCHANGED <<faults, restarts>>
    BY DEF Receive
  <1>2. m \in Packets /\ m.n = sent[e] /\ SegmentNum(e) \in Int
    BY PacketType DEF Inv
  <1>3. HasQueue(r) /\ r.q = re[e].q
    BY DEF Inv, TypeOK, HasQueue
  <1> HIDE DEF m, r
  <1>4. InOrder(files[e], r.q, sent[e], segment)
    BY <1>3 DEF Inv, Ordered
  <1>5. Kept(e)
    <2>1. CASE InSegment(e, r, m)
      <3> DEFINE in == Enter(e, r)
      <3>1. HasQueue(in) /\ in.q = r.q
        BY <1>3, EnterType
      <3>2. Write(e, in, QueuedAnd(in, m)) \/ Push(e, in, m)
        BY <2>1 DEF InSegment
      <3> HIDE DEF in
      <3>3. InOrder(files[e], in.q, sent[e], segment)
        BY <1>4, <3>1
      <3> QED
        BY <1>2, <3>1, <3>2, <3>3, WriteKeeps, PushKeeps DEF Inv
    <2>2. CASE Ahead(e, r, m)
      <3> DEFINE marked == [r EXCEPT !.marked = TRUE]
      <3>1. HasQueue(marked) /\ marked.q = r.q
        BY <1>3 DEF HasQueue
      <3>2. Push(e, marked, m)
        BY <2>2 DEF Ahead
      <3> HIDE DEF marked
      <3>3. InOrder(files[e], marked.q, sent[e], segment)
        BY <1>4, <3>1
      <3> QED
        BY <1>2, <3>1, <3>2, <3>3, PushKeeps DEF Inv
    <2>3. CASE Older(e, r)
      BY <1>3, <1>4, <2>3, DropKeeps DEF Inv
    <2> QED
      BY <1>1, <2>1, <2>2, <2>3
  <1>6. segment' \in Nat /\ segment <= segment'
    BY <1>1 DEF Rotate, Inv, TypeOK
  <1>7. /\ frame' = [frame EXCEPT ![e] = @ + 1]
        /\ curSeg' = [curSeg EXCEPT ![e] = SegmentNum(e)]
        /\ sent' = [sent EXCEPT ![e] = @ + 1]
    BY <1>1 DEF Encode
  <1>8. /\ frame' \in [Encoders -> Int] /\ curSeg' \in [Encoders -> Int] /\ sent' \in [Encoders -> Nat]
        /\ sent'[e] = sent[e] + 1 /\ \A d \in Encoders \ {e} : sent'[d] = sent[d]
    BY <1>2, <1>7 DEF Inv, TypeOK
  <1>9. \A d \in Encoders : HasQueue(re'[d])
    BY <1>5 DEF Kept, Inv, TypeOK
  <1>10. TypeOK'
    <2>1. restarts' \in Nat
      BY <1>1 DEF Inv, TypeOK
    <2>2. DOMAIN re' = Encoders /\ files' \in [Encoders -> Seq(Entries)]
      BY <1>5 DEF Kept
    <2> QED
      BY <1>6, <1>8, <1>9, <2>1, <2>2 DEF TypeOK, HasQueue
  <1>11. \A d \in Encoders : InOrder(files'[d], re'[d].q, sent'[d], segment')
    <2> TAKE d \in Encoders
    <2>1. files'[d] \in Seq(Entries) /\ re'[d].q \in Seq(Packets) /\ sent'[d] \in Nat /\ segment \in Nat
      BY <1>5, <1>8, <1>9 DEF Kept, HasQueue, Inv, TypeOK
    <2>2. InOrder(files'[d], re'[d].q, sent'[d], segment)
      BY <1>5, <1>8 DEF Kept, Inv, Ordered
    <2> QED
      BY <1>6, <2>1, <2>2, TimeKeepsOrder
  <1> QED
    BY <1>10, <1>11 DEF Inv, Ordered, InOrder

-----------------------------------------------------------------------------
(* Nothing has been encoded, or nothing since loggerd started. *)
LEMMA InitInv == Init => Inv
  <1> SUFFICES ASSUME Init PROVE Inv
    OBVIOUS
  <1>1. frame \in [Encoders -> Int]
    BY LoggerdAssumption DEF Init
  <1>2. curSeg \in [Encoders -> Int]
    BY <1>1, LoggerdAssumption DEF Init
  <1>3. \A e \in Encoders : HasQueue(re[e]) /\ re[e].q = <<>>
    <2> TAKE e \in Encoders
    <2> DEFINE fresh == [seen |-> FALSE, offset |-> 0, current |-> -1, q |-> <<>>,
                         recording |-> FALSE, marked |-> FALSE, audio |-> FALSE]
    <2>1. re[e] = fresh
      BY DEF Init
    <2>2. "q" \in DOMAIN fresh /\ fresh.q = <<>>
      OBVIOUS
    <2> HIDE DEF fresh
    <2> QED
      BY <2>1, <2>2 DEF HasQueue
  <1>4. TypeOK
    <2>1. sent \in [Encoders -> Nat] /\ segment \in Nat /\ restarts \in Nat
      BY DEF Init
    <2>2. DOMAIN re = Encoders
      BY DEF Init
    <2>3. files \in [Encoders -> Seq(Entries)]
      <3>1. files = [e \in Encoders |-> <<>>]
        BY DEF Init
      <3> QED
        BY <3>1
    <2> QED
      BY <1>1, <1>2, <1>3, <2>1, <2>2, <2>3 DEF TypeOK
  <1>5. Ordered
    BY <1>3 DEF Init, Ordered, InOrder
  <1> QED
    BY <1>4, <1>5 DEF Inv

LEMMA NextInv == Inv /\ [Next]_vars => Inv'
  <1> SUFFICES ASSUME Inv, [Next]_vars PROVE Inv'
    OBVIOUS
  <1>1. ASSUME NEW e \in Encoders, Receive(e) PROVE Inv'
    BY <1>1, ReceiveKeepsInv
  <1>2. ASSUME NEW e \in Encoders, SkipFrame(e) PROVE Inv'
    BY <1>2 DEF SkipFrame, Inv, TypeOK, Ordered, InOrder, HasQueue
  <1>3. CASE RestartEncoderd
    <2>1. frame' \in [Encoders -> Int] /\ curSeg' \in [Encoders -> Int] /\ restarts' \in Nat
      BY <1>3 DEF RestartEncoderd, Inv, TypeOK
    <2> QED
      BY <1>3, <2>1 DEF RestartEncoderd, Inv, TypeOK, Ordered, InOrder, HasQueue
  <1>4. CASE Sound
    <2>1. re' = [e \in Encoders |-> IF e \in WithAudio /\ re[e].current >= 0
                                    THEN [re[e] EXCEPT !.audio = TRUE] ELSE re[e]]
      BY <1>4 DEF Sound
    <2>2. \A e \in Encoders : HasQueue(re'[e]) /\ re'[e].q = re[e].q
      BY <2>1 DEF Inv, TypeOK, HasQueue
    <2>3. DOMAIN re' = Encoders
      BY <2>1
    <2>4. UNCHANGED <<frame, curSeg, sent, segment, files, restarts>>
      BY <1>4 DEF Sound, encoderd
    <2> QED
      BY <2>2, <2>3, <2>4 DEF Inv, TypeOK, Ordered, InOrder, HasQueue
  <1>5. CASE RotateTimedOut
    <2>1. segment' = segment + 1 /\ UNCHANGED <<frame, curSeg, sent, re, files, restarts>>
      BY <1>5 DEF RotateTimedOut, encoderd
    <2>2. segment \in Nat /\ segment' \in Nat /\ segment <= segment'
      BY <2>1 DEF Inv, TypeOK
    <2>3. \A e \in Encoders : InOrder(files[e], re[e].q, sent[e], segment')
      <3> TAKE e \in Encoders
      <3>1. /\ files[e] \in Seq(Entries) /\ re[e].q \in Seq(Packets) /\ sent[e] \in Nat
            /\ sent[e] <= sent[e] /\ InOrder(files[e], re[e].q, sent[e], segment)
        BY DEF Inv, TypeOK, Ordered, HasQueue
      <3> QED
        BY <2>2, <3>1, TimeKeepsOrder
    <2> QED
      BY <2>1, <2>2, <2>3 DEF Inv, TypeOK, Ordered, InOrder, HasQueue
  <1>6. CASE UNCHANGED vars
    BY <1>6 DEF vars, Inv, TypeOK, Ordered, InOrder, HasQueue
  <1> QED
    BY <1>1, <1>2, <1>3, <1>4, <1>5, <1>6 DEF Next

(* The log of an encoder is in order: nothing is written twice, overtaken in the queue *)
(* or put into an earlier segment than what came before it (loggerd.cc                 *)
(* handle_encoder_msg).                                                                *)
THEOREM LoggerdFramesInOrder == Spec => []FramesInOrder
  <1>1. Inv => FramesInOrder
    BY DEF Inv, Ordered, InOrder, FramesInOrder
  <1> QED
    BY <1>1, InitInv, NextInv, PTL DEF Spec

-----------------------------------------------------------------------------
(* Where the encoders are, relative to their segments and to each other. *)

RemoteEncoder == [seen : BOOLEAN, offset : Int, current : Int, q : Seq(Packets),
                  recording : BOOLEAN, marked : BOOLEAN, audio : BOOLEAN]

FieldsOK ==
  /\ re \in [Encoders -> RemoteEncoder] /\ curSeg \in [Encoders -> Nat]
  /\ faults \in 0 .. MaxFaults /\ clean \in BOOLEAN /\ readyToRotate \in Int

(* The place of the next frame in the segment of the last. *)
Position(e) == frame[e] - curSeg[e] * SegFrames

(* A rollover is late only by the frames that were skipped. *)
InPace ==
  /\ \A e \in Encoders : 0 <= Position(e) /\ Position(e) <= SegFrames + faults
  /\ \A e, d \in Encoders : frame[e] <= frame[d] + Skew + 1

Paced == Inv /\ FieldsOK /\ InPace

LEMMA Sizes ==
  /\ SegFrames \in Nat \ {0} /\ Gop \in Nat \ {0}
  /\ QueueMax \in Nat /\ Skew \in Nat /\ MaxFaults \in Nat
  /\ Skew + MaxFaults <= QueueMax /\ Skew + MaxFaults + 1 < SegFrames
  /\ IsFiniteSet(Encoders)
  BY LoggerdAssumption

LEMMA Product ==
  ASSUME NEW c \in Int
  PROVE  /\ c * SegFrames \in Int
         /\ (c + 1) * SegFrames = c * SegFrames + SegFrames
  BY Sizes

LEMMA Division ==
  ASSUME NEW n \in Nat
  PROVE  /\ n \div SegFrames \in Nat
         /\ 0 <= n - (n \div SegFrames) * SegFrames
         /\ n - (n \div SegFrames) * SegFrames < SegFrames
  BY Sizes

LEMMA Rollover ==
  ASSUME TypeOK, FieldsOK, NEW e \in Encoders
  PROVE  /\ Position(e) \in Int
         /\ RollsOver(e) <=> Position(e) >= SegFrames
         /\ SegmentNum(e) = IF Position(e) >= SegFrames THEN curSeg[e] + 1 ELSE curSeg[e]
  <1>1. frame[e] \in Int /\ curSeg[e] \in Int /\ SegFrames \in Int
    BY Sizes DEF TypeOK
  <1>2. curSeg[e] * SegFrames \in Int /\ (curSeg[e] + 1) * SegFrames = curSeg[e] * SegFrames + SegFrames
    BY <1>1, Product
  <1>3. Position(e) \in Int /\ (RollsOver(e) <=> Position(e) >= SegFrames)
    BY <1>1, <1>2 DEF Position, RollsOver
  <1> QED
    BY <1>3 DEF SegmentNum

LEMMA Advance ==
  ASSUME TypeOK, FieldsOK, NEW e \in Encoders, Encode(e)
  PROVE  /\ frame'[e] = frame[e] + 1 /\ curSeg'[e] = SegmentNum(e) /\ sent'[e] = sent[e] + 1
         /\ Position(e)' = IF Position(e) >= SegFrames THEN Position(e) + 1 - SegFrames
                           ELSE Position(e) + 1
         /\ curSeg' \in [Encoders -> Nat]
         /\ \A d \in Encoders : d # e => /\ frame'[d] = frame[d] /\ curSeg'[d] = curSeg[d]
                                         /\ sent'[d] = sent[d] /\ Position(d)' = Position(d)
  <1>1. frame[e] \in Int /\ curSeg[e] \in Nat /\ SegFrames \in Int
    BY Sizes DEF TypeOK, FieldsOK
  <1>2. /\ frame'[e] = frame[e] + 1 /\ curSeg'[e] = SegmentNum(e) /\ sent'[e] = sent[e] + 1
        /\ \A d \in Encoders : d # e => /\ frame'[d] = frame[d] /\ curSeg'[d] = curSeg[d]
                                        /\ sent'[d] = sent[d]
    BY DEF Encode, TypeOK
  <1>3. SegmentNum(e) = IF Position(e) >= SegFrames THEN curSeg[e] + 1 ELSE curSeg[e]
    BY Rollover
  <1>4. curSeg[e] * SegFrames \in Int /\ (curSeg[e] + 1) * SegFrames = curSeg[e] * SegFrames + SegFrames
    BY <1>1, Product
  <1>5. \A f, c \in Int :
          /\ f + 1 - (c + 1) * SegFrames = (f - c * SegFrames) + 1 - SegFrames
          /\ f + 1 - c * SegFrames = (f - c * SegFrames) + 1
    BY Product, Sizes
  <1>6. Position(e)' = IF Position(e) >= SegFrames THEN Position(e) + 1 - SegFrames ELSE Position(e) + 1
    <2>1. Position(e)' = frame'[e] - curSeg'[e] * SegFrames
      BY DEF Position
    <2>2. PICK f \in Int, c \in Int : f = frame[e] /\ c = curSeg[e]
      BY <1>1
    <2>3. Position(e) = f - c * SegFrames
      BY <2>2 DEF Position
    <2>4. CASE Position(e) >= SegFrames
      <3>1. curSeg'[e] = c + 1 /\ frame'[e] = f + 1
        BY <1>2, <1>3, <2>2, <2>4
      <3> QED
        BY <1>5, <2>1, <2>3, <2>4, <3>1, Sizes
    <2>5. CASE ~(Position(e) >= SegFrames)
      <3>1. curSeg'[e] = c /\ frame'[e] = f + 1
        BY <1>2, <1>3, <2>2, <2>5
      <3> QED
        BY <1>5, <2>1, <2>3, <2>5, <3>1, Sizes
    <2> QED
      BY <2>4, <2>5
  <1>7. curSeg' \in [Encoders -> Nat]
    BY <1>1, <1>3 DEF Encode, FieldsOK
  <1>8. \A d \in Encoders : d # e => Position(d)' = Position(d)
    BY <1>2 DEF Position
  <1> QED
    BY <1>2, <1>6, <1>7, <1>8

LEMMA EnterFields ==
  ASSUME NEW e, NEW r \in RemoteEncoder, segment \in Nat
  PROVE  /\ Enter(e, r) \in RemoteEncoder /\ Enter(e, r).q = r.q /\ Enter(e, r).current = segment
         /\ Enter(e, r).seen = r.seen /\ Enter(e, r).offset = r.offset
         /\ r.current = segment => Enter(e, r) = r
         /\ r.current # segment => ~Enter(e, r).marked
  <1>1. CASE r.current = segment
    BY <1>1 DEF Enter
  <1>2. CASE r.current # segment
    <2>1. Enter(e, r) = [r EXCEPT !.current = segment, !.marked = FALSE,
                                  !.recording = r.recording /\ e \notin Recorded,
                                  !.audio = r.audio /\ e \notin Recorded]
      BY <1>2 DEF Enter
    <2>2. Enter(e, r) \in RemoteEncoder
      <3>1. Enter(e, r) = [seen |-> r.seen, offset |-> r.offset, current |-> segment, q |-> r.q,
                        recording |-> r.recording /\ e \notin Recorded, marked |-> FALSE,
                        audio |-> r.audio /\ e \notin Recorded]
        BY <2>1 DEF RemoteEncoder
      <3>2. r.seen \in BOOLEAN /\ r.offset \in Int /\ segment \in Int /\ r.q \in Seq(Packets)
        BY DEF RemoteEncoder
      <3> QED
        BY <3>1, <3>2 DEF RemoteEncoder
    <2>3. /\ Enter(e, r).q = r.q /\ Enter(e, r).current = segment /\ Enter(e, r).marked = FALSE
          /\ Enter(e, r).seen = r.seen /\ Enter(e, r).offset = r.offset
      BY <2>1 DEF RemoteEncoder
    <2> QED
      BY <1>2, <2>2, <2>3
  <1> QED
    BY <1>1, <1>2

(* What handle_encoder_msg makes of the fields, whichever branch it takes. *)
Wrote(e, r, out) ==
  /\ re' \in [Encoders -> RemoteEncoder]
  /\ \A d \in Encoders \ {e} : re'[d] = re[d] /\ files'[d] = files[d]
  /\ re'[e].seen = r.seen /\ re'[e].offset = r.offset /\ re'[e].current = r.current
  /\ re'[e].marked = r.marked /\ re'[e].q = <<>>
  /\ re'[e].recording <=> r.recording \/ out # <<>>
  /\ files'[e] = files[e] \o [i \in DOMAIN out |-> [packet |-> out[i], at |-> segment]]

LEMMA WriteFields ==
  ASSUME TypeOK, FieldsOK, NEW e \in Encoders, NEW r \in RemoteEncoder, NEW msgs, Write(e, r, msgs)
  PROVE  Wrote(e, r, Written(r.recording, msgs))
  <1> DEFINE out == Written(r.recording, msgs)
             rec == r.recording \/ out # <<>>
             new == [r EXCEPT !.q = <<>>, !.recording = rec]
  <1>1. rec \in BOOLEAN /\ (rec <=> r.recording \/ out # <<>>)
    BY Zenon
  <1>2. <<>> \in Seq(Packets)
    OBVIOUS
  <1>4. re' = [re EXCEPT ![e] = new]
    BY DEF Write
  <1>5. files' = [files EXCEPT ![e] = @ \o [i \in DOMAIN out |-> [packet |-> out[i], at |-> segment]]]
    BY DEF Write
  <1> HIDE DEF rec
  <1>3. /\ new \in RemoteEncoder
        /\ new.seen = r.seen /\ new.offset = r.offset /\ new.current = r.current
        /\ new.marked = r.marked /\ new.q = <<>> /\ new.recording = rec
    BY <1>1, <1>2 DEF RemoteEncoder
  <1> HIDE DEF new, out
  <1>6. /\ re' \in [Encoders -> RemoteEncoder] /\ re'[e] = new
        /\ \A d \in Encoders \ {e} : re'[d] = re[d]
    BY <1>3, <1>4 DEF FieldsOK
  <1>7. /\ \A d \in Encoders \ {e} : files'[d] = files[d]
        /\ files'[e] = files[e] \o [i \in DOMAIN out |-> [packet |-> out[i], at |-> segment]]
    BY <1>5 DEF TypeOK
  <1>8. re'[e].recording <=> r.recording \/ out # <<>>
    BY <1>1, <1>3, <1>6
  <1> QED
    BY <1>3, <1>6, <1>7, <1>8 DEF Wrote, out

Pushed(e, r, q) ==
  /\ re' \in [Encoders -> RemoteEncoder] /\ files' = files
  /\ \A d \in Encoders \ {e} : re'[d] = re[d]
  /\ re'[e] = [r EXCEPT !.q = q]

LEMMA PushFields ==
  ASSUME TypeOK, FieldsOK, NEW e \in Encoders, NEW r \in RemoteEncoder, NEW m \in Packets, Push(e, r, m)
  PROVE  Pushed(e, r, IF Len(r.q) > QueueMax THEN r.q ELSE Append(r.q, m))
  <1> DEFINE q == IF Len(r.q) > QueueMax THEN r.q ELSE Append(r.q, m)
             new == [r EXCEPT !.q = q]
  <1>1. q \in Seq(Packets)
    BY DEF RemoteEncoder
  <1>2. re' = [re EXCEPT ![e] = new] /\ files' = files
    BY DEF Push
  <1> HIDE DEF q
  <1>3. new \in RemoteEncoder
    BY <1>1 DEF RemoteEncoder
  <1> HIDE DEF new
  <1>4. /\ re' \in [Encoders -> RemoteEncoder] /\ re'[e] = new
        /\ \A d \in Encoders \ {e} : re'[d] = re[d]
    BY <1>2, <1>3 DEF FieldsOK
  <1> QED
    BY <1>2, <1>4 DEF new, q, Pushed

(* RemoteEncoder after the first packet, with which encoderd's count of segments begins. *)
Known(e) == [re[e] EXCEPT !.seen = TRUE, !.offset = IF re[e].seen THEN @ ELSE Packet(e).seg]

LEMMA KnownFields ==
  ASSUME TypeOK, FieldsOK, NEW e \in Encoders
  PROVE  /\ re[e] \in RemoteEncoder /\ Known(e) \in RemoteEncoder
         /\ Known(e).seen /\ Known(e).offset = IF re[e].seen THEN re[e].offset ELSE Packet(e).seg
         /\ Known(e).current = re[e].current /\ Known(e).q = re[e].q
         /\ Known(e).recording = re[e].recording /\ Known(e).marked = re[e].marked
         /\ Packet(e) \in Packets /\ Packet(e).n = sent[e] /\ Packet(e).run = restarts
         /\ Packet(e).seg = SegmentNum(e) /\ Packet(e).seg \in Int
         /\ RollsOver(e) => Packet(e).key
  <1> DEFINE offset == IF re[e].seen THEN re[e].offset ELSE Packet(e).seg
  <1>1. re[e] \in RemoteEncoder
    BY DEF FieldsOK
  <1>2. /\ Packet(e) \in Packets /\ Packet(e).n = sent[e] /\ Packet(e).run = restarts
        /\ Packet(e).seg = SegmentNum(e) /\ Packet(e).seg \in Int
    BY PacketType DEF Packet
  <1>3. RollsOver(e) => Packet(e).key
    BY DEF Packet
  <1>4. offset \in Int
    BY <1>1, <1>2 DEF RemoteEncoder
  <1>5. Known(e) = [re[e] EXCEPT !.seen = TRUE, !.offset = offset]
    BY DEF Known
  <1> HIDE DEF offset
  <1>6. /\ Known(e) \in RemoteEncoder
        /\ Known(e).seen /\ Known(e).offset = offset
        /\ Known(e).current = re[e].current /\ Known(e).q = re[e].q
        /\ Known(e).recording = re[e].recording /\ Known(e).marked = re[e].marked
    BY <1>1, <1>4, <1>5 DEF RemoteEncoder
  <1> QED
    BY <1>1, <1>2, <1>3, <1>6 DEF offset

LEMMA ReceiveSplits ==
  ASSUME NEW e \in Encoders, Receive(e)
  PROVE  LET m == Packet(e)  r == Known(e)  at == m.seg - r.offset IN
         /\ Encode(e)
         /\ \/ at = segment /\ InSegment(e, r, m)
            \/ at > segment /\ Ahead(e, r, m)
            \/ at < segment /\ Older(e, r)
         /\ Rotate(IF at > segment /\ ~r.marked THEN readyToRotate + 1 ELSE readyToRotate)
         /\ UNCHANGED <<faults, restarts>>
  BY DEF Receive, Known

LEMMA ReceiveFields ==
  ASSUME Inv, FieldsOK, NEW e \in Encoders, Receive(e)
  PROVE  FieldsOK' /\ \A d \in Encoders \ {e} : re'[d] = re[d] /\ files'[d] = files[d]
  <1> DEFINE m == Packet(e)
             r == Known(e)
             at == m.seg - r.offset
  <1>1. TypeOK
    BY DEF Inv
  <1>2. m \in Packets /\ r \in RemoteEncoder
    BY <1>1, KnownFields
  <1>3. /\ Encode(e)
        /\ InSegment(e, r, m) \/ Ahead(e, r, m) \/ Older(e, r)
        /\ Rotate(IF at > segment /\ ~r.marked THEN readyToRotate + 1 ELSE readyToRotate)
        /\ UNCHANGED <<faults, restarts>>
    BY ReceiveSplits
  <1> HIDE DEF r, m
  <1>4. re' \in [Encoders -> RemoteEncoder] /\ \A d \in Encoders \ {e} : re'[d] = re[d] /\ files'[d] = files[d]
    <2>1. CASE InSegment(e, r, m)
      <3> DEFINE in == Enter(e, r)
      <3>1. in \in RemoteEncoder
        BY <1>1, <1>2, EnterFields DEF TypeOK
      <3>2. Write(e, in, QueuedAnd(in, m)) \/ Push(e, in, m)
        BY <2>1 DEF InSegment
      <3> HIDE DEF in
      <3> QED
        BY <1>1, <1>2, <3>1, <3>2, WriteFields, PushFields DEF Wrote, Pushed
    <2>2. CASE Ahead(e, r, m)
      <3> DEFINE marked == [r EXCEPT !.marked = TRUE]
      <3>1. marked \in RemoteEncoder
        BY <1>2 DEF RemoteEncoder
      <3>2. Push(e, marked, m)
        BY <2>2 DEF Ahead
      <3> HIDE DEF marked
      <3> QED
        BY <1>1, <1>2, <3>1, <3>2, PushFields DEF Pushed
    <2>3. CASE Older(e, r)
      <3>1. [r EXCEPT !.offset = -segment] \in RemoteEncoder
        <4>1. \A o \in Int : [r EXCEPT !.offset = o] \in RemoteEncoder
          BY <1>2 DEF RemoteEncoder
        <4>2. -segment \in Int
          BY <1>1 DEF TypeOK
        <4> QED
          BY <4>1, <4>2
      <3> QED
        BY <2>3, <3>1 DEF Older, FieldsOK
    <2> QED
      BY <1>3, <2>1, <2>2, <2>3
  <1>5. curSeg' \in [Encoders -> Nat]
    BY <1>1, <1>3, Advance
  <1>6. clean' \in BOOLEAN
    <2>1. CASE InSegment(e, r, m)
      BY <2>1, Zenon DEF InSegment
    <2>2. CASE Ahead(e, r, m)
      BY <2>2, Zenon DEF Ahead
    <2>3. CASE Older(e, r)
      BY <2>3 DEF Older, FieldsOK
    <2> QED
      BY <1>3, <2>1, <2>2, <2>3
  <1>7. readyToRotate' \in Int /\ faults' \in 0 .. MaxFaults
    BY <1>3 DEF Rotate, FieldsOK
  <1> QED
    BY <1>4, <1>5, <1>6, <1>7 DEF FieldsOK

LEMMA InitPaced == Init => Paced
  <1> SUFFICES ASSUME Init PROVE Paced
    OBVIOUS
  <1>1. Inv
    BY InitInv
  <1>2. PICK first \in 0..LateStart : frame \in [Encoders -> first .. first + Skew]
    BY DEF Init
  <1>3. \A e \in Encoders : /\ frame[e] \in Nat /\ frame[e] >= first /\ frame[e] <= first + Skew
                            /\ curSeg[e] = frame[e] \div SegFrames
    BY <1>2, LoggerdAssumption DEF Init
  <1>4. \A e \in Encoders : curSeg[e] \in Nat /\ 0 <= Position(e) /\ Position(e) < SegFrames
    BY <1>3, Division DEF Position
  <1>5. FieldsOK
    <2>1. re \in [Encoders -> RemoteEncoder]
      <3>1. [seen |-> FALSE, offset |-> 0, current |-> -1, q |-> <<>>, recording |-> FALSE,
             marked |-> FALSE, audio |-> FALSE] \in RemoteEncoder
        BY DEF RemoteEncoder
      <3> QED
        BY <3>1 DEF Init
    <2>2. curSeg \in [Encoders -> Nat]
      BY <1>4 DEF Init
    <2>3. clean \in BOOLEAN
      BY Zenon DEF Init
    <2>4. faults \in 0 .. MaxFaults /\ readyToRotate \in Int
      BY Sizes DEF Init
    <2> QED
      BY <2>1, <2>2, <2>3, <2>4 DEF FieldsOK
  <1>6. InPace
    <2>1. \A e \in Encoders : Position(e) \in Int
      BY <1>1, <1>5, Rollover DEF Inv
    <2>2. faults = 0
      BY DEF Init
    <2>3. \A e \in Encoders : 0 <= Position(e) /\ Position(e) <= SegFrames + faults
      BY <1>4, <2>1, <2>2, Sizes
    <2>4. \A e, d \in Encoders : frame[e] <= frame[d] + Skew + 1
      BY <1>3, Sizes
    <2> QED
      BY <2>3, <2>4 DEF InPace
  <1> QED
    BY <1>1, <1>5, <1>6 DEF Paced

LEMMA NextFields == Inv /\ FieldsOK /\ [Next]_vars => FieldsOK'
  <1> SUFFICES ASSUME Inv, FieldsOK, [Next]_vars PROVE FieldsOK'
    OBVIOUS
  <1> USE Sizes
  <1>1. ASSUME NEW e \in Encoders, Receive(e) PROVE FieldsOK'
    BY <1>1, ReceiveFields
  <1>2. ASSUME NEW e \in Encoders, SkipFrame(e) PROVE FieldsOK'
    <2>1. clean' \in BOOLEAN
      BY <1>2, Zenon DEF SkipFrame
    <2> QED
      BY <1>2, <2>1 DEF SkipFrame, Fault, FieldsOK
  <1>3. CASE RestartEncoderd
    <2>1. clean' \in BOOLEAN
      BY <1>3, Zenon DEF RestartEncoderd
    <2>2. curSeg' \in [Encoders -> Nat]
      BY <1>3 DEF RestartEncoderd
    <2> QED
      BY <1>3, <2>1, <2>2 DEF RestartEncoderd, Fault, FieldsOK
  <1>4. CASE Sound
    <2>1. \A e \in Encoders : re[e] \in RemoteEncoder /\ [re[e] EXCEPT !.audio = TRUE] \in RemoteEncoder
      BY DEF FieldsOK, RemoteEncoder
    <2>2. re' \in [Encoders -> RemoteEncoder]
      BY <1>4, <2>1 DEF Sound
    <2> QED
      BY <1>4, <2>2 DEF Sound, encoderd, FieldsOK
  <1>5. CASE RotateTimedOut
    <2>1. clean' \in BOOLEAN
      BY <1>5, Zenon DEF RotateTimedOut
    <2>2. faults' = faults + 1 /\ faults < MaxFaults /\ readyToRotate' = 0 /\ UNCHANGED <<curSeg, re>>
      BY <1>5 DEF RotateTimedOut, encoderd, Fault
    <2> QED
      BY <2>1, <2>2 DEF FieldsOK
  <1>6. CASE UNCHANGED vars
    BY <1>6 DEF vars, FieldsOK
  <1> QED
    BY <1>1, <1>2, <1>3, <1>4, <1>5, <1>6 DEF Next

(* How far an encoder goes on before the others: InStep, and SkipFrame after it. *)
LEMMA NextInPace == Paced /\ [Next]_vars => InPace'
  <1> SUFFICES ASSUME Paced, [Next]_vars PROVE InPace'
    OBVIOUS
  <1> USE Sizes
  <1>0. TypeOK /\ FieldsOK /\ \A e \in Encoders : frame[e] \in Int /\ Position(e) \in Int
    BY Rollover DEF Paced, Inv, TypeOK
  <1>f. faults \in Nat
    BY <1>0 DEF FieldsOK
  <1>1. ASSUME NEW e \in Encoders, Receive(e) PROVE InPace'
    <2>1. Encode(e) /\ faults' = faults
      BY <1>1 DEF Receive
    <2>2. InStep(e)
      BY <2>1 DEF Encode
    <2>3. \A d \in Encoders : 0 <= Position(d)' /\ Position(d)' <= SegFrames + faults
      BY <1>0, <1>f, <2>1, Advance DEF Paced, InPace
    <2>4. \A d, c \in Encoders : frame'[d] <= frame'[c] + Skew + 1
      BY <1>0, <2>1, <2>2, Advance DEF Paced, InPace, InStep
    <2> QED
      BY <2>1, <2>3, <2>4 DEF InPace
  <1>2. ASSUME NEW e \in Encoders, SkipFrame(e) PROVE InPace'
    <2>1. /\ frame' = [frame EXCEPT ![e] = @ + 1] /\ curSeg' = curSeg
          /\ faults' = faults + 1 /\ InStep(e)
      BY <1>2 DEF SkipFrame, Fault
    <2>2. /\ frame'[e] = frame[e] + 1 /\ \A d \in Encoders : d # e => frame'[d] = frame[d]
      BY <1>0, <2>1 DEF TypeOK
    <2>3. \A d \in Encoders : curSeg[d] * SegFrames \in Int
      BY <1>0, Product DEF TypeOK
    <2>4. /\ Position(e)' = Position(e) + 1
          /\ \A d \in Encoders : d # e => Position(d)' = Position(d)
      BY <1>0, <2>1, <2>2, <2>3 DEF Position
    <2>5. \A d \in Encoders : 0 <= Position(d)' /\ Position(d)' <= SegFrames + faults + 1
      BY <1>0, <1>f, <2>4 DEF Paced, InPace
    <2>6. \A d, c \in Encoders : frame'[d] <= frame'[c] + Skew + 1
      BY <1>0, <2>1, <2>2 DEF Paced, InPace, InStep
    <2> QED
      BY <1>f, <2>1, <2>5, <2>6 DEF InPace
  <1>3. CASE RestartEncoderd
    <2>1. \A e \in Encoders : frame'[e] = 0 /\ curSeg'[e] = 0
      BY <1>3 DEF RestartEncoderd
    <2>2. faults' = faults + 1
      BY <1>3 DEF RestartEncoderd, Fault
    <2>3. \A e \in Encoders : Position(e)' = 0
      BY <2>1 DEF Position
    <2> QED
      BY <1>f, <2>1, <2>2, <2>3 DEF InPace
  <1>4. CASE Sound \/ UNCHANGED vars
    BY <1>4 DEF Sound, vars, encoderd, Paced, InPace, Position
  <1>5. CASE RotateTimedOut
    <2>1. frame' = frame /\ curSeg' = curSeg /\ faults' = faults + 1
      BY <1>5 DEF RotateTimedOut, encoderd, Fault
    <2>2. \A e \in Encoders : Position(e)' = Position(e)
      BY <2>1 DEF Position
    <2> QED
      BY <1>0, <1>f, <2>1, <2>2 DEF Paced, InPace
  <1> QED
    BY <1>1, <1>2, <1>3, <1>4, <1>5 DEF Next

LEMMA NextPaced == Paced /\ [Next]_vars => Paced'
  BY NextInv, NextFields, NextInPace DEF Paced

-----------------------------------------------------------------------------
(* The phases of an encoder while nothing exceptional happens.  In the last    *)
(* run of encoderd, segment s of an encoder belongs into segment s - o of the  *)
(* log, with the same o for all; at is the segment of the log.                 *)

Marked(e, at) == re[e].marked /\ re[e].current = at

(* not seen yet, *)
Fresh(e, at) ==
  /\ ~re[e].seen /\ re[e].current = -1 /\ ~re[e].marked /\ re[e].q = <<>> /\ files[e] = <<>>
  /\ at = 0 /\ restarts = 0 /\ Position(e) < SegFrames

(* restarted, which loggerd learns from the next packet, *)
Behind(e, o, at) ==
  /\ re[e].seen /\ re[e].offset > o /\ re[e].current = at /\ ~re[e].marked
  /\ restarts > 0 /\ curSeg[e] = 0 /\ Position(e) <= faults

(* in the segment of the log, or marked as ahead of it, *)
Current(e, o, at) == re[e].seen /\ re[e].offset = o /\ re[e].current = at

(* or with its first packets waiting in the queue since the log was rotated. *)
Entering(e, o, at) ==
  /\ re[e].seen /\ re[e].offset = o /\ re[e].current < at /\ re[e].marked
  /\ Position(e) <= faults + Skew + 1

Phase(e, o, at) ==
  /\ curSeg[e] = o + at + (IF Marked(e, at) THEN 1 ELSE 0)
  /\ Fresh(e, at) \/ Behind(e, o, at) \/ Current(e, o, at) \/ Entering(e, o, at)

(* A queue that is written into a new file begins with a key frame. *)
StartsWithKey(q) == q # <<>> /\ q[1].key
KeyFirst(e) ==
  /\ re[e].marked => StartsWithKey(re[e].q)
  /\ files[e] # <<>> /\ ~re[e].marked => re[e].recording \/ StartsWithKey(re[e].q)

(* The queue of an encoder that is ahead is as short as its lead. *)
Fits(e, at) == Marked(e, at) => Len(re[e].q) <= Position(e)

(* off is where each run of encoderd began. *)
PlacedFiles(e, off) ==
  \A i \in DOMAIN files[e] :
    /\ files[e][i].packet.run <= restarts
    /\ files[e][i].at = files[e][i].packet.seg - off[files[e][i].packet.run]
PlacedQueue(e, off, at) ==
  \A i \in DOMAIN re[e].q :
    /\ re[e].q[i].run <= restarts
    /\ re[e].q[i].seg - off[re[e].q[i].run] = at + (IF Marked(e, at) THEN 1 ELSE 0)

Numbers(e) == {files[e][i].packet.n : i \in DOMAIN files[e]} \cup {re[e].q[i].n : i \in DOMAIN re[e].q}

(* Of the numbers since any of N at most k are missing. *)
AtMostMissing(N, s, k) == \A x \in N : Cardinality((x .. s - 1) \ N) <= k

(* Each restart costs an encoder one packet, or will. *)
FewMissing(e, o) ==
  AtMostMissing(Numbers(e), sent[e], IF re[e].seen /\ re[e].offset > o THEN restarts - 1 ELSE restarts)

Steady(e, off, at) ==
  /\ Phase(e, off[restarts], at) /\ KeyFirst(e) /\ Fits(e, at)
  /\ PlacedFiles(e, off) /\ PlacedQueue(e, off, at) /\ FewMissing(e, off[restarts])

(* ready_to_rotate counts the encoders that are marked; when all were, the log was rotated. *)
Ready(count, at) ==
  /\ count = Cardinality({e \in Encoders : Marked(e, at)})
  /\ Encoders # {} => \E e \in Encoders : ~Marked(e, at)

SteadyInv ==
  clean => /\ Ready(readyToRotate, segment)
           /\ \E off \in [Nat -> Int] : \A e \in Encoders : Steady(e, off, segment)

LoggerdInv == Paced /\ SteadyInv

-----------------------------------------------------------------------------
(* Arithmetic of what is missing. *)

LEMMA MissingGrows ==
  ASSUME NEW N \in SUBSET Nat, NEW s \in Nat, NEW k \in Nat, AtMostMissing(N, s, k),
         \A x \in N : x < s,
         NEW M \in SUBSET (N \cup {s}),
         \A y \in (N \cup {s}) \ M, x \in M : y < x
  PROVE  AtMostMissing(M, s + 1, k)
  <1> SUFFICES ASSUME NEW x \in M PROVE Cardinality((x .. (s + 1) - 1) \ M) <= k
    BY DEF AtMostMissing
  <1>1. (s + 1) - 1 = s
    OBVIOUS
  <1>2. CASE x = s
    <2>1. (x .. s) \ M = {}
      BY <1>2
    <2> QED
      BY <1>1, <2>1, FS_EmptySet
  <1>3. CASE x \in N
    <2>1. (x .. s) \ M = (x .. s - 1) \ N
      <3>1. ASSUME NEW y \in (x .. s) \ M PROVE y \in (x .. s - 1) \ N
        <4>1. y \in Nat /\ x <= y /\ y <= s /\ y \notin M
          BY <1>3, <3>1
        <4>2. y \notin N \cup {s}
          BY <1>3, <4>1
        <4> QED
          BY <4>1, <4>2
      <3>2. ASSUME NEW y \in (x .. s - 1) \ N PROVE y \in (x .. s) \ M
        BY <1>3, <3>2
      <3> QED
        BY <3>1, <3>2
    <2> QED
      BY <1>1, <1>3, <2>1 DEF AtMostMissing
  <1> QED
    BY <1>2, <1>3

LEMMA MissingOneMore ==
  ASSUME NEW N \in SUBSET Nat, NEW s \in Nat, NEW k \in Int, AtMostMissing(N, s, k)
  PROVE  AtMostMissing(N, s + 1, k + 1)
  <1> SUFFICES ASSUME NEW x \in N PROVE Cardinality((x .. (s + 1) - 1) \ N) <= k + 1
    BY DEF AtMostMissing
  <1> DEFINE old == (x .. s - 1) \ N
             new == (x .. (s + 1) - 1) \ N
  <1>1. IsFiniteSet(x .. s - 1)
    BY FS_Interval
  <1>2. IsFiniteSet(old)
    BY <1>1, FS_Difference
  <1>4. new \in SUBSET (old \cup {s})
    OBVIOUS
  <1>6. Cardinality(old) <= k
    BY DEF AtMostMissing
  <1> HIDE DEF old, new
  <1>3. /\ IsFiniteSet(old \cup {s}) /\ Cardinality(old) \in Nat
        /\ Cardinality(old \cup {s}) <= Cardinality(old) + 1
    <2>1. Cardinality(old) \in Nat
      BY <1>2, FS_CardinalityType
    <2>2. /\ IsFiniteSet(old \cup {s})
          /\ Cardinality(old \cup {s}) = IF s \in old THEN Cardinality(old) ELSE Cardinality(old) + 1
      BY <1>2, FS_AddElement
    <2> QED
      BY <2>1, <2>2
  <1>5. Cardinality(new) <= Cardinality(old \cup {s}) /\ Cardinality(new) \in Nat
    BY <1>3, <1>4, FS_Subset, FS_CardinalityType
  <1>7. Cardinality(old \cup {s}) \in Nat
    BY <1>3, FS_CardinalityType
  <1>8. Cardinality(new) <= k + 1
    BY <1>3, <1>5, <1>6, <1>7
  <1> QED
    BY <1>8 DEF new

(* The end of a sequence of packets, with what was written before it. *)
IsTail(out, msgs, whole) ==
  /\ out \in Seq(Packets)
  /\ \E k \in Nat : /\ \A i \in DOMAIN out : i + k \in DOMAIN msgs /\ out[i] = msgs[i + k]
                    /\ \A j \in DOMAIN msgs : j > k => \E i \in DOMAIN out : out[i] = msgs[j]
                    /\ whole => k = 0

LEMMA WrittenFromKey ==
  ASSUME NEW recording, NEW msgs \in Seq(Packets)
  PROVE  IsTail(Written(recording, msgs), msgs, recording \/ StartsWithKey(msgs))
  <1> DEFINE firstKey == {i \in DOMAIN msgs : msgs[i].key /\ \A j \in 1 .. i - 1 : ~msgs[j].key}
             first    == CHOOSE i \in firstKey : TRUE
             out      == Written(recording, msgs)
             Tail0(k) == /\ \A i \in DOMAIN out : i + k \in DOMAIN msgs /\ out[i] = msgs[i + k]
                         /\ \A j \in DOMAIN msgs : j > k => \E i \in DOMAIN out : out[i] = msgs[j]
                         /\ recording \/ StartsWithKey(msgs) => k = 0
  <1>1. CASE recording
    <2>1. out = msgs
      BY <1>1 DEF Written
    <2> HIDE DEF out
    <2>2. Tail0(0)
      BY <2>1
    <2> QED
      BY <2>1, <2>2 DEF out, IsTail
  <1>2. ~recording => (StartsWithKey(msgs) => 1 \in firstKey)
    BY DEF StartsWithKey
  <1>3. CASE ~recording /\ firstKey = {}
    <2>1. out = <<>>
      BY <1>3 DEF Written
    <2>2. ~StartsWithKey(msgs)
      BY <1>2, <1>3
    <2>3. Len(msgs) \in Nat /\ DOMAIN msgs = 1 .. Len(msgs)
      OBVIOUS
    <2> HIDE DEF out
    <2>4. Tail0(Len(msgs))
      BY <1>3, <2>1, <2>2, <2>3
    <2> QED
      BY <2>1, <2>3, <2>4 DEF out, IsTail
  <1>4. CASE ~recording /\ firstKey # {}
    <2>1. first \in firstKey
      BY <1>4
    <2>2. out = SubSeq(msgs, first, Len(msgs))
      BY <1>4 DEF Written
    <2>3. first \in DOMAIN msgs /\ \A j \in 1 .. first - 1 : ~msgs[j].key
      BY <2>1
    <2>4. StartsWithKey(msgs) => first = 1
      <3> SUFFICES ASSUME StartsWithKey(msgs) PROVE first = 1
        OBVIOUS
      <3>1. msgs[1].key
        BY DEF StartsWithKey
      <3>2. first \in Nat /\ first >= 1
        BY <2>3
      <3>3. CASE first > 1
        <4>1. 1 \in 1 .. first - 1
          BY <3>2, <3>3
        <4> QED
          BY <2>3, <3>1, <4>1
      <3> QED
        BY <3>2, <3>3
    <2> HIDE DEF first, out
    <2>5. first \in Nat /\ first >= 1 /\ first <= Len(msgs) /\ first - 1 \in Nat
      BY <2>3
    <2>6. /\ out \in Seq(Packets) /\ Len(out) = Len(msgs) - first + 1
          /\ \A i \in 1 .. Len(out) : out[i] = msgs[i + (first - 1)] /\ i + (first - 1) \in DOMAIN msgs
      BY <2>2, <2>5
    <2>7. \A j \in DOMAIN msgs : j > first - 1 => j - (first - 1) \in DOMAIN out /\ out[j - (first - 1)] = msgs[j]
      BY <2>5, <2>6
    <2>8. Tail0(first - 1)
      BY <1>4, <2>4, <2>6, <2>7
    <2> QED
      BY <2>5, <2>6, <2>8 DEF out, IsTail
  <1> QED
    BY <1>1, <1>3, <1>4

IsJoined(g, f, out, at) ==
  /\ \A i \in DOMAIN g : \/ i \in DOMAIN f /\ g[i] = f[i]
                         \/ \E j \in DOMAIN out : g[i].at = at /\ g[i].packet = out[j]
  /\ {g[i].packet.n : i \in DOMAIN g}
       = {f[i].packet.n : i \in DOMAIN f} \cup {out[j].n : j \in DOMAIN out}
  /\ g # <<>> => f # <<>> \/ out # <<>>

LEMMA Appended ==
  ASSUME NEW f \in Seq(Entries), NEW out \in Seq(Packets), NEW at \in Nat
  PROVE  IsJoined(f \o [i \in DOMAIN out |-> [packet |-> out[i], at |-> at]], f, out, at)
  <1> DEFINE new == [i \in DOMAIN out |-> [packet |-> out[i], at |-> at]]
             g == f \o new
  <1>1. \A i \in DOMAIN out : [packet |-> out[i], at |-> at] \in Entries
    <2>1. \A i \in DOMAIN out : out[i] \in Packets
      OBVIOUS
    <2> QED
      BY <2>1 DEF Entries
  <1>2. new \in Seq(Entries) /\ Len(new) = Len(out)
    BY <1>1
  <1>3. \A j \in DOMAIN out : new[j].at = at /\ new[j].packet = out[j]
    OBVIOUS
  <1> HIDE DEF new
  <1>4. /\ Len(g) = Len(f) + Len(out) /\ Len(f) \in Nat /\ Len(out) \in Nat
        /\ DOMAIN g = 1 .. Len(f) + Len(out) /\ DOMAIN f = 1 .. Len(f) /\ DOMAIN out = 1 .. Len(out)
    BY <1>2
  <1>5. \A i \in DOMAIN g : IF i <= Len(f) THEN g[i] = f[i] ELSE g[i] = new[i - Len(f)]
    BY <1>2
  <1>6. g # <<>> => f # <<>> \/ out # <<>>
    BY <1>2
  <1> HIDE DEF g
  <1>7. \A i \in DOMAIN g : \/ i \in DOMAIN f /\ g[i] = f[i]
                            \/ \E j \in DOMAIN out : g[i].at = at /\ g[i].packet = out[j]
    <2> TAKE i \in DOMAIN g
    <2>1. CASE i <= Len(f)
      BY <1>4, <1>5, <2>1
    <2>2. CASE i > Len(f)
      <3>1. i - Len(f) \in DOMAIN out
        BY <1>4, <2>2
      <3>2. g[i] = new[i - Len(f)]
        BY <1>4, <1>5, <2>2
      <3> QED
        BY <1>3, <3>1, <3>2
    <2> QED
      BY <1>4, <2>1, <2>2
  <1>8. \A i \in DOMAIN f : i \in DOMAIN g /\ g[i] = f[i]
    BY <1>4, <1>5
  <1>9. \A j \in DOMAIN out : j + Len(f) \in DOMAIN g /\ g[j + Len(f)].packet = out[j]
    <2> TAKE j \in DOMAIN out
    <2>1. j + Len(f) \in DOMAIN g /\ j + Len(f) > Len(f) /\ (j + Len(f)) - Len(f) = j
      BY <1>4
    <2>2. g[j + Len(f)] = new[j]
      BY <1>4, <1>5, <2>1
    <2> QED
      BY <1>3, <2>1, <2>2
  <1>10. {g[i].packet.n : i \in DOMAIN g}
           = {f[i].packet.n : i \in DOMAIN f} \cup {out[j].n : j \in DOMAIN out}
    <2>1. ASSUME NEW i \in DOMAIN g
          PROVE  g[i].packet.n \in {f[j].packet.n : j \in DOMAIN f} \cup {out[j].n : j \in DOMAIN out}
      BY <1>7
    <2>2. ASSUME NEW i \in DOMAIN f PROVE f[i].packet.n \in {g[j].packet.n : j \in DOMAIN g}
      BY <1>8
    <2>3. ASSUME NEW j \in DOMAIN out PROVE out[j].n \in {g[i].packet.n : i \in DOMAIN g}
      BY <1>9
    <2> QED
      BY <2>1, <2>2, <2>3
  <1> QED
    BY <1>6, <1>7, <1>10 DEF g, new, IsJoined

-----------------------------------------------------------------------------
(* One packet of an encoder in a steady log, seen before the log is rotated. *)

(* An encoder that is ahead or waits to enter does not roll over once more. *)
LEMMA Lead ==
  ASSUME Paced, NEW off \in [Nat -> Int], NEW e \in Encoders, NEW d \in Encoders,
         Phase(e, off[restarts], segment), Phase(d, off[restarts], segment),
         Marked(e, segment), ~Marked(d, segment)
  PROVE  /\ Position(e) <= faults + Skew + 1
         /\ InStep(e) => Position(e) <= faults + Skew
  <1> DEFINE o == off[restarts]
  <1>1. TypeOK /\ FieldsOK /\ InPace /\ restarts \in Nat /\ segment \in Nat
    BY DEF Paced, Inv, TypeOK
  <1>2. /\ frame[e] \in Int /\ frame[d] \in Int /\ curSeg[e] \in Int /\ curSeg[d] \in Int
        /\ Position(e) \in Int /\ Position(d) \in Int /\ faults \in Nat /\ o \in Int
    <2>1. Position(e) \in Int /\ Position(d) \in Int
      BY <1>1, Rollover
    <2>2. frame[e] \in Int /\ frame[d] \in Int /\ curSeg[e] \in Int /\ curSeg[d] \in Int
      BY <1>1 DEF TypeOK
    <2>3. faults \in Nat
      BY <1>1, Sizes DEF FieldsOK
    <2>4. o \in Int
      BY <1>1
    <2> QED
      BY <2>1, <2>2, <2>3, <2>4
  <1>3. curSeg[e] = o + segment + 1 /\ curSeg[d] = o + segment
    BY <1>1, <1>2 DEF Phase
  <1>4. curSeg[e] = curSeg[d] + 1
    BY <1>1, <1>2, <1>3
  <1>5. /\ curSeg[d] * SegFrames \in Int
        /\ curSeg[e] * SegFrames = curSeg[d] * SegFrames + SegFrames
    BY <1>2, <1>4, Product
  <1>6. Position(e) = frame[e] - curSeg[d] * SegFrames - SegFrames
    BY <1>2, <1>5, Sizes DEF Position
  <1>7. Position(d) = frame[d] - curSeg[d] * SegFrames /\ Position(d) <= SegFrames + faults
    BY <1>1 DEF Position, InPace
  <1>8. frame[e] <= frame[d] + Skew + 1
    BY <1>1 DEF InPace
  <1>9. InStep(e) => frame[e] <= frame[d] + Skew
    BY DEF InStep
  <1> QED
    BY <1>2, <1>5, <1>6, <1>7, <1>8, <1>9, Sizes

SteadyLog(off) ==
  /\ Paced /\ Ready(readyToRotate, segment)
  /\ off \in [Nat -> Int] /\ \A e \in Encoders : Steady(e, off, segment)

LEMMA SteadyFacts ==
  ASSUME NEW off, SteadyLog(off), NEW e \in Encoders
  PROVE  /\ TypeOK /\ FieldsOK /\ InPace /\ InOrder(files[e], re[e].q, sent[e], segment)
         /\ restarts \in Nat /\ segment \in Nat /\ faults \in Nat /\ faults <= MaxFaults
         /\ off[restarts] \in Int /\ curSeg[e] \in Nat /\ sent[e] \in Nat /\ Position(e) \in Int
         /\ re[e] \in RemoteEncoder /\ re[e].q \in Seq(Packets) /\ re[e].offset \in Int
         /\ re[e].current \in Int /\ files[e] \in Seq(Entries)
         /\ Phase(e, off[restarts], segment) /\ KeyFirst(e) /\ Fits(e, segment)
         /\ PlacedFiles(e, off) /\ PlacedQueue(e, off, segment) /\ FewMissing(e, off[restarts])
  <1>1. TypeOK /\ FieldsOK /\ InPace /\ InOrder(files[e], re[e].q, sent[e], segment)
    BY DEF SteadyLog, Paced, Inv, Ordered
  <1>2. re[e] \in RemoteEncoder
    BY <1>1 DEF FieldsOK
  <1>3. Position(e) \in Int
    BY <1>1, Rollover
  <1>4. /\ restarts \in Nat /\ segment \in Nat /\ faults \in Nat /\ faults <= MaxFaults
        /\ curSeg[e] \in Nat /\ sent[e] \in Nat /\ files[e] \in Seq(Entries)
    BY <1>1, Sizes DEF TypeOK, FieldsOK
  <1>5. off[restarts] \in Int
    BY <1>4 DEF SteadyLog
  <1>6. re[e].q \in Seq(Packets) /\ re[e].offset \in Int /\ re[e].current \in Int
    BY <1>2 DEF RemoteEncoder
  <1> QED
    BY <1>1, <1>2, <1>3, <1>4, <1>5, <1>6 DEF SteadyLog, Steady

(* Only an encoder that is in its segment, or behind, rolls over. *)
LEMMA MayRollOver ==
  ASSUME NEW off, SteadyLog(off), NEW e \in Encoders
  PROVE  /\ Position(e) >= SegFrames => Current(e, off[restarts], segment) /\ ~re[e].marked
         /\ Marked(e, segment) => /\ Position(e) <= faults + Skew + 1
                                  /\ InStep(e) => Position(e) <= faults + Skew
  <1>1. PICK d \in Encoders : ~Marked(d, segment)
    BY DEF SteadyLog, Ready
  <1>2. Marked(e, segment) => /\ Position(e) <= faults + Skew + 1
                              /\ InStep(e) => Position(e) <= faults + Skew
    BY <1>1, SteadyFacts, Lead DEF SteadyLog
  <1>3. /\ Phase(e, off[restarts], segment) /\ Position(e) \in Int
        /\ faults \in Nat /\ faults <= MaxFaults /\ segment \in Nat
    BY SteadyFacts
  <1>4. Fresh(e, segment) => Position(e) < SegFrames
    BY DEF Fresh
  <1>5. Behind(e, off[restarts], segment) => Position(e) < SegFrames
    BY <1>3, Sizes DEF Behind
  <1>6. Entering(e, off[restarts], segment) => Position(e) < SegFrames
    BY <1>3, Sizes DEF Entering
  <1>7. Marked(e, segment) => Position(e) < SegFrames
    BY <1>2, <1>3, Sizes
  <1>8. Current(e, off[restarts], segment) => re[e].current = segment
    BY DEF Current
  <1>9. Position(e) >= SegFrames => ~(Position(e) < SegFrames)
    BY <1>3, Sizes
  <1> QED
    BY <1>2, <1>3, <1>4, <1>5, <1>6, <1>7, <1>8, <1>9 DEF Phase, Marked

(* A packet for the segment of the log: the encoder is in it, or enters it. *)
LEMMA Entered ==
  ASSUME NEW off, SteadyLog(off), NEW e \in Encoders,
         Packet(e).seg - Known(e).offset = segment
  PROVE  LET in == Enter(e, Known(e)) IN
         /\ Position(e) < SegFrames /\ Packet(e).seg = curSeg[e] /\ curSeg[e] = off[restarts] + segment
         /\ in \in RemoteEncoder /\ in.seen /\ in.offset = off[restarts] /\ in.current = segment
         /\ ~in.marked /\ in.q = re[e].q /\ ~Marked(e, segment)
         /\ files[e] # <<>> => in.recording \/ StartsWithKey(in.q)
         /\ \A i \in DOMAIN in.q : in.q[i].run <= restarts /\ in.q[i].seg - off[in.q[i].run] = segment
         /\ AtMostMissing(Numbers(e), sent[e], restarts)
  <1> DEFINE o == off[restarts]
             r == Known(e)
             in == Enter(e, r)
             m == Packet(e)
  <1>1. /\ TypeOK /\ FieldsOK /\ segment \in Nat /\ restarts \in Nat /\ faults \in Nat
        /\ o \in Int /\ curSeg[e] \in Nat /\ Position(e) \in Int
        /\ re[e] \in RemoteEncoder /\ re[e].offset \in Int /\ re[e].current \in Int
        /\ Phase(e, o, segment) /\ KeyFirst(e) /\ PlacedQueue(e, off, segment) /\ FewMissing(e, o)
    BY SteadyFacts
  <1>2. /\ r \in RemoteEncoder /\ r.seen
        /\ r.offset = IF re[e].seen THEN re[e].offset ELSE m.seg
        /\ r.current = re[e].current /\ r.q = re[e].q
        /\ r.recording = re[e].recording /\ r.marked = re[e].marked
        /\ m.seg = SegmentNum(e)
    BY <1>1, KnownFields
  <1>3. m.seg = IF Position(e) >= SegFrames THEN curSeg[e] + 1 ELSE curSeg[e]
    BY <1>1, <1>2, Rollover
  <1>4. /\ in \in RemoteEncoder /\ in.q = r.q /\ in.current = segment
        /\ in.seen = r.seen /\ in.offset = r.offset
        /\ r.current = segment => in = r
        /\ r.current # segment => ~in.marked
    BY <1>1, <1>2, EnterFields
  <1>5. Position(e) >= SegFrames => Current(e, o, segment) /\ ~re[e].marked
    BY MayRollOver
  <1>6. m.seg - r.offset = segment
    OBVIOUS
  <1>7. \A i \in DOMAIN re[e].q :
          /\ re[e].q[i].run <= restarts
          /\ re[e].q[i].seg - off[re[e].q[i].run] = segment + (IF Marked(e, segment) THEN 1 ELSE 0)
    BY <1>1 DEF PlacedQueue
  <1> DEFINE Goal == /\ Position(e) < SegFrames /\ m.seg = curSeg[e] /\ curSeg[e] = o + segment
                     /\ ~in.marked /\ in.offset = o /\ ~Marked(e, segment)
                     /\ files[e] # <<>> => in.recording \/ StartsWithKey(in.q)
  <1>8. Goal
    <2> HIDE DEF r, in, m
    <2>1. CASE Fresh(e, segment)
      <3>1. ~re[e].seen /\ ~re[e].marked /\ files[e] = <<>> /\ Position(e) < SegFrames
            /\ re[e].current = -1
        BY <2>1 DEF Fresh
      <3>2. m.seg = curSeg[e] /\ r.offset = m.seg /\ segment = 0
        BY <1>1, <1>2, <1>3, <3>1, <2>1, Sizes DEF Fresh
      <3>3. curSeg[e] = o + segment /\ ~Marked(e, segment)
        BY <1>1, <3>1 DEF Phase, Marked
      <3>4. ~in.marked
        BY <1>1, <1>2, <1>4, <3>1
      <3> QED
        BY <1>1, <1>4, <3>1, <3>2, <3>3, <3>4
    <2>2. CASE Behind(e, o, segment)
      <3>1. re[e].seen /\ ~re[e].marked /\ re[e].offset > o /\ curSeg[e] = 0
        BY <2>2 DEF Behind
      <3>2. ~Marked(e, segment) /\ o + segment = 0
        <4>1. ~Marked(e, segment)
          BY <3>1 DEF Marked
        <4>2. curSeg[e] = o + segment + 0
          BY <1>1, <4>1 DEF Phase
        <4> QED
          BY <1>1, <3>1, <4>1, <4>2
      <3>3. Position(e) <= faults /\ faults <= MaxFaults
        BY <2>2, SteadyFacts DEF Behind
      <3>4. m.seg = 0
        BY <1>1, <1>3, <3>1, <3>3, Sizes
      <3> QED
        BY <1>1, <1>2, <1>6, <3>1, <3>2, <3>4
    <2>3. CASE Current(e, o, segment)
      <3>1. re[e].seen /\ re[e].offset = o /\ re[e].current = segment /\ r.offset = o /\ in = r
        BY <1>2, <1>4, <2>3 DEF Current
      <3>2. m.seg = o + segment
        <4>1. m.seg \in Int
          BY <1>1, <1>3
        <4> QED
          BY <1>1, <1>6, <3>1, <4>1
      <3>3. ~re[e].marked
        <4> SUFFICES ASSUME re[e].marked PROVE FALSE
          OBVIOUS
        <4>1. curSeg[e] = o + segment + 1
          BY <1>1, <3>1 DEF Phase, Marked
        <4>2. m.seg >= curSeg[e]
          BY <1>1, <1>3
        <4> QED
          BY <1>1, <3>2, <4>1, <4>2
      <3>4. curSeg[e] = o + segment /\ ~Marked(e, segment)
        BY <1>1, <3>3 DEF Phase, Marked
      <3>5. Position(e) < SegFrames
        BY <1>1, <1>3, <3>2, <3>4, Sizes
      <3>6. files[e] # <<>> => re[e].recording \/ StartsWithKey(re[e].q)
        BY <1>1, <3>3 DEF KeyFirst
      <3> QED
        BY <1>2, <3>1, <3>2, <3>3, <3>4, <3>5, <3>6
    <2>4. CASE Entering(e, o, segment)
      <3>1. re[e].seen /\ re[e].offset = o /\ re[e].current # segment /\ re[e].marked
        BY <1>1, <2>4 DEF Entering
      <3>2. ~(Position(e) >= SegFrames) /\ Position(e) < SegFrames
        BY <1>1, <1>5, <3>1, Sizes
      <3>3. ~Marked(e, segment) /\ curSeg[e] = o + segment
        BY <1>1, <3>1 DEF Phase, Marked
      <3>4. StartsWithKey(re[e].q)
        BY <1>1, <3>1 DEF KeyFirst
      <3> QED
        BY <1>2, <1>3, <1>4, <3>1, <3>2, <3>3, <3>4
    <2> QED
      BY <1>1, <2>1, <2>2, <2>3, <2>4 DEF Phase
  <1>9. AtMostMissing(Numbers(e), sent[e], restarts)
    <2>1. ~(re[e].seen /\ re[e].offset > o)
      <3> HIDE DEF in
      <3>1. re[e].seen => re[e].offset = o
        BY <1>2, <1>4, <1>8
      <3> QED
        BY <1>1, <3>1
    <2> QED
      BY <1>1, <2>1 DEF FewMissing
  <1>10. \A i \in DOMAIN in.q : in.q[i].run <= restarts /\ in.q[i].seg - off[in.q[i].run] = segment
    <2>1. in.q = re[e].q /\ ~Marked(e, segment)
      BY <1>2, <1>4, <1>8
    <2> HIDE DEF in
    <2> QED
      BY <1>1, <1>7, <2>1
  <1> HIDE DEF in
  <1>11. in.q = re[e].q
    BY <1>2, <1>4
  <1> QED
    BY <1>2, <1>4, <1>8, <1>9, <1>10, <1>11 DEF in

(* What stands for the packet and its encoder in the cases below: r is what has become *)
(* of the RemoteEncoder, with everything but its queue as in the next state.           *)
Takes(e, r, off, at) ==
  /\ r \in RemoteEncoder /\ r.seen /\ r.offset = off[restarts] /\ r.current = at /\ r.q = re[e].q
  /\ \A i \in DOMAIN r.q : r.q[i].run <= restarts
  /\ AtMostMissing(Numbers(e), sent[e], restarts)

LEMMA NumbersType ==
  ASSUME NEW off, SteadyLog(off), NEW e \in Encoders
  PROVE  Numbers(e) \in SUBSET Nat /\ \A x \in Numbers(e) : x < sent[e]
  <1>1. /\ files[e] \in Seq(Entries) /\ re[e].q \in Seq(Packets)
        /\ InOrder(files[e], re[e].q, sent[e], segment)
    BY SteadyFacts
  <1>2. /\ \A i \in DOMAIN files[e] : files[e][i].packet.n \in Nat
        /\ \A k \in DOMAIN re[e].q : re[e].q[k].n \in Nat
    BY <1>1, SequenceFields
  <1> QED
    BY <1>1, <1>2 DEF Numbers, InOrder

LEMMA WriteSteady ==
  ASSUME NEW off, SteadyLog(off), NEW e \in Encoders, Encode(e), restarts' = restarts,
         NEW at, at = segment, NEW r, Takes(e, r, off, at),
         NEW m \in Packets, m.n = sent[e], m.run = restarts, m.seg - off[m.run] = at,
         curSeg'[e] = off[restarts] + at, ~r.marked,
         \A i \in DOMAIN r.q : r.q[i].seg - off[r.q[i].run] = at,
         files[e] # <<>> => r.recording \/ StartsWithKey(r.q),
         Write(e, r, QueuedAnd(r, m))
  PROVE  Steady(e, off, at)' /\ ~Marked(e, at)'
  <1> DEFINE msgs == Append(r.q, m)
             o == off[restarts]
  <1>1. /\ TypeOK /\ FieldsOK /\ InOrder(files[e], re[e].q, sent[e], segment)
        /\ restarts \in Nat /\ at \in Nat /\ o \in Int /\ sent[e] \in Nat /\ files[e] \in Seq(Entries)
        /\ PlacedFiles(e, off) /\ off \in [Nat -> Int]
    BY SteadyFacts DEF SteadyLog
  <1>2. /\ r \in RemoteEncoder /\ r.seen /\ r.offset = o /\ r.current = at /\ r.q = re[e].q
        /\ r.q \in Seq(Packets) /\ r.recording \in BOOLEAN /\ \A i \in DOMAIN r.q : r.q[i].run <= restarts
        /\ AtMostMissing(Numbers(e), sent[e], restarts)
    BY DEF Takes, RemoteEncoder
  <1>3. msgs = QueuedAnd(r, m)
    BY DEF QueuedAnd
  <1>5. /\ msgs \in Seq(Packets)
        /\ \A j \in DOMAIN msgs : (j \in DOMAIN r.q /\ msgs[j] = r.q[j]) \/ msgs[j] = m
        /\ \A j \in DOMAIN r.q : j \in DOMAIN msgs /\ msgs[j] = r.q[j]
        /\ \E j \in DOMAIN msgs : msgs[j] = m
        /\ StartsWithKey(r.q) => StartsWithKey(msgs)
    <2>1. Len(msgs) = Len(r.q) + 1 /\ msgs[Len(r.q) + 1] = m /\ Len(r.q) + 1 \in DOMAIN msgs
      BY <1>2
    <2>2. StartsWithKey(r.q) => StartsWithKey(msgs)
      BY <1>2 DEF StartsWithKey
    <2> QED
      BY <1>2, <2>1, <2>2
  <1>6. InOrder(files[e], msgs, sent[e] + 1, segment)
    BY <1>1, <1>2, QueueKeepsOrder
  <1> HIDE DEF msgs
  <1>7. \A j \in DOMAIN msgs : msgs[j].run <= restarts /\ msgs[j].seg - off[msgs[j].run] = at
    <2> TAKE j \in DOMAIN msgs
    <2>1. CASE j \in DOMAIN r.q /\ msgs[j] = r.q[j]
      BY <1>2, <2>1
    <2>2. CASE msgs[j] = m
      BY <1>1, <2>2
    <2> QED
      BY <1>5, <2>1, <2>2
  <1> DEFINE out == Written(r.recording, msgs)
  <1>4. Wrote(e, r, out)
    BY <1>1, <1>2, <1>3, WriteFields
  <1>8. IsTail(out, msgs, r.recording \/ StartsWithKey(msgs))
    BY <1>5, WrittenFromKey
  <1> HIDE DEF out
  <1>9. PICK k \in Nat :
          /\ \A i \in DOMAIN out : i + k \in DOMAIN msgs /\ out[i] = msgs[i + k]
          /\ \A j \in DOMAIN msgs : j > k => \E i \in DOMAIN out : out[i] = msgs[j]
          /\ r.recording \/ StartsWithKey(msgs) => k = 0
    BY <1>8 DEF IsTail
  <1>10. files[e] # <<>> => k = 0
    BY <1>5, <1>9
  <1>11. IsJoined(files'[e], files[e], out, at)
    <2>1. out \in Seq(Packets)
      BY <1>8 DEF IsTail
    <2>2. files'[e] = files[e] \o [i \in DOMAIN out |-> [packet |-> out[i], at |-> at]]
      BY <1>4 DEF Wrote
    <2> QED
      BY <1>1, <2>1, <2>2, Appended
  <1>12. files[e] # <<>> => out # <<>>
    <2>1. DOMAIN msgs # {} /\ \A j \in DOMAIN msgs : j > 0
      BY <1>5
    <2> QED
      BY <1>9, <1>10, <2>1
  <1>13. (Phase(e, off[restarts], at) /\ KeyFirst(e) /\ Fits(e, at) /\ PlacedQueue(e, off, at))' /\ ~Marked(e, at)'
    <2>1. ~Marked(e, at)' /\ re'[e].seen /\ ~re'[e].marked
      BY <1>2, <1>4 DEF Marked, Wrote
    <2>2. Phase(e, off[restarts], at)'
      BY <1>1, <1>2, <1>4, <2>1 DEF Phase, Current, Wrote
    <2>3. KeyFirst(e)'
      BY <1>4, <1>11, <1>12, <2>1 DEF KeyFirst, Wrote, IsJoined
    <2>4. Fits(e, at)' /\ PlacedQueue(e, off, at)'
      BY <1>4, <2>1 DEF Fits, PlacedQueue, Wrote
    <2> QED
      BY <2>1, <2>2, <2>3, <2>4
  <1>14. PlacedFiles(e, off)'
    <2> SUFFICES ASSUME NEW i \in DOMAIN files'[e]
                 PROVE  /\ files'[e][i].packet.run <= restarts
                        /\ files'[e][i].at = files'[e][i].packet.seg - off[files'[e][i].packet.run]
      BY DEF PlacedFiles
    <2>1. CASE i \in DOMAIN files[e] /\ files'[e][i] = files[e][i]
      BY <1>1, <2>1 DEF PlacedFiles
    <2>2. ASSUME NEW j \in DOMAIN out, files'[e][i].at = at, files'[e][i].packet = out[j]
          PROVE  /\ files'[e][i].packet.run <= restarts
                 /\ files'[e][i].at = files'[e][i].packet.seg - off[files'[e][i].packet.run]
      <3>1. out[j].run <= restarts /\ out[j].seg - off[out[j].run] = at
        BY <1>7, <1>9
      <3> QED
        BY <2>2, <3>1
    <2> QED
      BY <1>11, <2>1, <2>2 DEF IsJoined
  <1>15. FewMissing(e, off[restarts])'
    <2> DEFINE N == Numbers(e)
               M == Numbers(e)'
    <2>1. N \in SUBSET Nat /\ \A x \in N : x < sent[e]
      BY NumbersType
    <2>2. N = {files[e][i].packet.n : i \in DOMAIN files[e]} \cup {r.q[i].n : i \in DOMAIN r.q}
      BY <1>2 DEF Numbers
    <2>3. M = {files[e][i].packet.n : i \in DOMAIN files[e]} \cup {out[i].n : i \in DOMAIN out}
      <3>1. M = {files'[e][i].packet.n : i \in DOMAIN files'[e]} \cup {re'[e].q[i].n : i \in DOMAIN re'[e].q}
        BY DEF Numbers
      <3>2. {re'[e].q[i].n : i \in DOMAIN re'[e].q} = {}
        BY <1>4 DEF Wrote
      <3> HIDE DEF M
      <3> QED
        BY <1>11, <3>1, <3>2 DEF IsJoined
    <2>4. \A j \in DOMAIN msgs : msgs[j].n \in N \cup {sent[e]}
      BY <1>5, <2>2
    <2>5. M \in SUBSET (N \cup {sent[e]})
      BY <1>9, <2>2, <2>3, <2>4
    <2>6. ASSUME NEW y \in (N \cup {sent[e]}) \ M PROVE \E j \in DOMAIN msgs : j <= k /\ y = msgs[j].n
      <3>1. PICK j \in DOMAIN msgs : y = msgs[j].n
        BY <1>5, <2>2, <2>3
      <3>2. ~(j > k)
        BY <1>9, <2>3, <3>1
      <3> QED
        BY <1>5, <3>1, <3>2
    <2>7. \A y \in (N \cup {sent[e]}) \ M, x \in M : y < x
      <3> TAKE y \in (N \cup {sent[e]}) \ M, x \in M
      <3>1. PICK j \in DOMAIN msgs : j <= k /\ y = msgs[j].n
        BY <2>6
      <3>2. j >= 1 /\ j \in Nat
        BY <1>5
      <3>3. k # 0
        BY <3>1, <3>2
      <3>4. files[e] = <<>>
        BY <1>10, <3>3
      <3>5. PICK i \in DOMAIN out : x = out[i].n
        BY <2>3, <3>4
      <3>6. i + k \in DOMAIN msgs /\ x = msgs[i + k].n /\ i \in Nat /\ i >= 1
        BY <1>8, <1>9, <3>5 DEF IsTail
      <3>7. j < i + k
        BY <3>1, <3>2, <3>6
      <3> QED
        BY <1>6, <3>1, <3>6, <3>7 DEF InOrder
    <2> HIDE DEF N, M
    <2>8. AtMostMissing(M, sent[e] + 1, restarts)
      BY <1>1, <1>2, <2>1, <2>5, <2>7, MissingGrows DEF N
    <2>9. sent'[e] = sent[e] + 1
      BY <1>1, Advance
    <2>10. ~(re'[e].offset > off[restarts])
      BY <1>1, <1>2, <1>4 DEF Wrote
    <2>11. AtMostMissing(Numbers(e), sent[e], restarts)'
      BY <2>8, <2>9 DEF M, AtMostMissing
    <2> QED
      BY <2>10, <2>11 DEF FewMissing
  <1> QED
    BY <1>13, <1>14, <1>15 DEF Steady

LEMMA PushSteady ==
  ASSUME NEW off, SteadyLog(off), NEW e \in Encoders, Encode(e), restarts' = restarts,
         NEW at, at = segment, NEW r, Takes(e, r, off, at),
         NEW lead, lead = IF r.marked THEN 1 ELSE 0,
         NEW m \in Packets, m.n = sent[e], m.run = restarts, m.seg - off[m.run] = at + lead,
         curSeg'[e] = off[restarts] + at + lead,
         \A i \in DOMAIN r.q : r.q[i].seg - off[r.q[i].run] = at + lead,
         Len(r.q) <= QueueMax,
         r.marked => /\ StartsWithKey(r.q) \/ (r.q = <<>> /\ m.key)
                     /\ Len(r.q) + 1 <= Position(e)',
         ~r.marked => (files[e] # <<>> => r.recording \/ StartsWithKey(r.q)),
         Push(e, r, m)
  PROVE  Steady(e, off, at)' /\ (Marked(e, at)' <=> r.marked)
  <1> DEFINE msgs == Append(r.q, m)
             o == off[restarts]
  <1>1. /\ TypeOK /\ FieldsOK
        /\ restarts \in Nat /\ at \in Nat /\ o \in Int /\ sent[e] \in Nat /\ files[e] \in Seq(Entries)
        /\ PlacedFiles(e, off) /\ off \in [Nat -> Int]
    BY SteadyFacts DEF SteadyLog
  <1>2. /\ r \in RemoteEncoder /\ r.seen /\ r.offset = o /\ r.current = at /\ r.q = re[e].q
        /\ r.q \in Seq(Packets) /\ r.recording \in BOOLEAN /\ \A i \in DOMAIN r.q : r.q[i].run <= restarts
        /\ AtMostMissing(Numbers(e), sent[e], restarts) /\ lead \in Int
    BY DEF Takes, RemoteEncoder
  <1>3. /\ msgs \in Seq(Packets) /\ Len(msgs) = Len(r.q) + 1 /\ msgs # <<>>
        /\ \A j \in DOMAIN msgs : (j \in DOMAIN r.q /\ msgs[j] = r.q[j]) \/ msgs[j] = m
        /\ \A j \in DOMAIN r.q : j \in DOMAIN msgs /\ msgs[j] = r.q[j]
        /\ \E j \in DOMAIN msgs : msgs[j] = m
        /\ StartsWithKey(r.q) => StartsWithKey(msgs)
        /\ r.q = <<>> /\ m.key => StartsWithKey(msgs)
    <2>1. /\ Len(msgs) = Len(r.q) + 1 /\ msgs[Len(r.q) + 1] = m /\ Len(r.q) + 1 \in DOMAIN msgs
          /\ msgs # <<>>
      BY <1>2
    <2>2. StartsWithKey(r.q) => StartsWithKey(msgs)
      BY <1>2 DEF StartsWithKey
    <2>3. r.q = <<>> /\ m.key => StartsWithKey(msgs)
      BY <1>2, <2>1 DEF StartsWithKey
    <2>4. msgs \in Seq(Packets)
      BY <1>2
    <2>5. /\ \A j \in DOMAIN msgs : (j \in DOMAIN r.q /\ msgs[j] = r.q[j]) \/ msgs[j] = m
          /\ \A j \in DOMAIN r.q : j \in DOMAIN msgs /\ msgs[j] = r.q[j]
      BY <1>2
    <2> HIDE DEF msgs
    <2> QED
      BY <2>1, <2>2, <2>3, <2>4, <2>5
  <1>4. re'[e] = [r EXCEPT !.q = msgs] /\ files' = files
    <2>1. Len(r.q) \in Nat /\ ~(Len(r.q) > QueueMax)
      BY <1>2, Sizes
    <2>2. Pushed(e, r, IF Len(r.q) > QueueMax THEN r.q ELSE msgs)
      BY <1>1, <1>2, PushFields
    <2> HIDE DEF msgs
    <2>3. (IF Len(r.q) > QueueMax THEN r.q ELSE msgs) = msgs
      BY <2>1
    <2> QED
      BY <2>2, <2>3 DEF Pushed
  <1> HIDE DEF msgs
  <1>5. /\ re'[e].seen /\ re'[e].offset = o /\ re'[e].current = at /\ re'[e].q = msgs
        /\ re'[e].recording = r.recording /\ re'[e].marked = r.marked
    BY <1>2, <1>4 DEF RemoteEncoder
  <1>6. Marked(e, at)' <=> r.marked
    BY <1>5 DEF Marked
  <1>7. \A j \in DOMAIN msgs : msgs[j].run <= restarts /\ msgs[j].seg - off[msgs[j].run] = at + lead
    <2> TAKE j \in DOMAIN msgs
    <2>1. CASE j \in DOMAIN r.q /\ msgs[j] = r.q[j]
      BY <1>2, <2>1
    <2>2. CASE msgs[j] = m
      <3>1. m.run <= restarts
        BY <1>1
      <3> QED
        BY <2>2, <3>1
    <2> QED
      BY <1>3, <2>1, <2>2
  <1>8. lead = IF Marked(e, at)' THEN 1 ELSE 0
    BY <1>6
  <1>9. Phase(e, off[restarts], at)'
    BY <1>5, <1>8 DEF Phase, Current
  <1>10. KeyFirst(e)'
    BY <1>3, <1>4, <1>5 DEF KeyFirst
  <1>11. Fits(e, at)'
    BY <1>3, <1>5, <1>6 DEF Fits
  <1>12. PlacedFiles(e, off)'
    BY <1>1, <1>4 DEF PlacedFiles
  <1>13. PlacedQueue(e, off, at)'
    BY <1>5, <1>7, <1>8 DEF PlacedQueue
  <1>14. FewMissing(e, off[restarts])'
    <2> DEFINE N == Numbers(e)
               M == Numbers(e)'
    <2>1. N \in SUBSET Nat /\ \A x \in N : x < sent[e]
      BY NumbersType
    <2>2. N = {files[e][i].packet.n : i \in DOMAIN files[e]} \cup {r.q[i].n : i \in DOMAIN r.q}
      BY <1>2 DEF Numbers
    <2>3. M = {files[e][i].packet.n : i \in DOMAIN files[e]} \cup {msgs[i].n : i \in DOMAIN msgs}
      BY <1>4, <1>5 DEF Numbers
    <2>4. {msgs[i].n : i \in DOMAIN msgs} = {r.q[i].n : i \in DOMAIN r.q} \cup {sent[e]}
      <3>1. ASSUME NEW j \in DOMAIN msgs PROVE msgs[j].n \in {r.q[i].n : i \in DOMAIN r.q} \cup {sent[e]}
        BY <1>3
      <3>2. ASSUME NEW j \in DOMAIN r.q PROVE r.q[j].n \in {msgs[i].n : i \in DOMAIN msgs}
        BY <1>3
      <3>3. sent[e] \in {msgs[i].n : i \in DOMAIN msgs}
        BY <1>3
      <3> QED
        BY <3>1, <3>2, <3>3
    <2>5. M = N \cup {sent[e]}
      BY <2>2, <2>3, <2>4
    <2> HIDE DEF N, M
    <2>6. AtMostMissing(M, sent[e] + 1, restarts)
      BY <1>1, <1>2, <2>1, <2>5, MissingGrows DEF N
    <2>7. sent'[e] = sent[e] + 1
      BY <1>1, Advance
    <2>8. ~(re'[e].offset > off[restarts])
      BY <1>1, <1>5
    <2>9. AtMostMissing(Numbers(e), sent[e], restarts)'
      BY <2>6, <2>7 DEF M, AtMostMissing
    <2> QED
      BY <2>8, <2>9 DEF FewMissing
  <1> QED
    BY <1>6, <1>9, <1>10, <1>11, <1>12, <1>13, <1>14 DEF Steady

LEMMA InSegmentSteady ==
  ASSUME NEW off, SteadyLog(off), NEW e \in Encoders, Encode(e), restarts' = restarts,
         NEW at, at = segment, Packet(e).seg - Known(e).offset = segment,
         InSegment(e, Known(e), Packet(e)), clean'
  PROVE  Steady(e, off, at)' /\ ~Marked(e, at)' /\ ~Marked(e, at)
  <1> DEFINE m == Packet(e)
             in == Enter(e, Known(e))
             o == off[restarts]
  <1>1. /\ TypeOK /\ FieldsOK /\ restarts \in Nat /\ at \in Nat /\ o \in Int /\ curSeg[e] \in Nat
    BY SteadyFacts
  <1>2. m \in Packets /\ m.n = sent[e] /\ m.run = restarts /\ m.seg = SegmentNum(e)
    BY <1>1, KnownFields
  <1>3. /\ m.seg = curSeg[e] /\ curSeg[e] = o + at
        /\ in \in RemoteEncoder /\ in.seen /\ in.offset = o /\ in.current = at
        /\ ~in.marked /\ in.q = re[e].q /\ ~Marked(e, at)
        /\ files[e] # <<>> => in.recording \/ StartsWithKey(in.q)
        /\ \A i \in DOMAIN in.q : in.q[i].run <= restarts /\ in.q[i].seg - off[in.q[i].run] = at
        /\ AtMostMissing(Numbers(e), sent[e], restarts)
    BY Entered
  <1>4. \/ Write(e, in, QueuedAnd(in, m))
        \/ Push(e, in, m) /\ e \in WithAudio /\ ~in.audio
    BY DEF InSegment
  <1>5. e \in WithAudio /\ ~in.audio => Len(in.q) <= QueueMax
    BY Zenon DEF InSegment
  <1> HIDE DEF in, m
  <1>6. Takes(e, in, off, at)
    BY <1>3 DEF Takes
  <1>7. curSeg'[e] = o + at /\ m.seg - off[m.run] = at
    <2>1. curSeg'[e] = SegmentNum(e)
      BY <1>1, Advance
    <2>2. off[m.run] = o /\ m.seg = o + at
      BY <1>2, <1>3
    <2>3. (o + at) - o = at
      BY <1>1
    <2> QED
      BY <1>2, <2>1, <2>2, <2>3
  <1>8. CASE Write(e, in, QueuedAnd(in, m))
    BY <1>2, <1>3, <1>6, <1>7, <1>8, WriteSteady
  <1>9. CASE Push(e, in, m) /\ e \in WithAudio /\ ~in.audio
    <2> DEFINE lead == 0
    <2>1. lead = IF in.marked THEN 1 ELSE 0
      BY <1>3
    <2>2. /\ m.seg - off[m.run] = at + lead /\ curSeg'[e] = off[restarts] + at + lead
          /\ \A i \in DOMAIN in.q : in.q[i].seg - off[in.q[i].run] = at + lead
      BY <1>1, <1>3, <1>7
    <2> HIDE DEF lead
    <2>3. Len(in.q) <= QueueMax
      BY <1>5, <1>9
    <2> QED
      BY <1>2, <1>3, <1>6, <1>9, <2>1, <2>2, <2>3, PushSteady
  <1> QED
    BY <1>4, <1>8, <1>9

(* A packet for the next segment comes from an encoder that is in the segment of the log *)
(* and rolls over, or that has done so.                                                   *)
LEMMA AheadSteady ==
  ASSUME NEW off, SteadyLog(off), NEW e \in Encoders, Encode(e), restarts' = restarts,
         NEW at, at = segment, Packet(e).seg - Known(e).offset > segment,
         Ahead(e, Known(e), Packet(e)), clean'
  PROVE  /\ Steady(e, off, at)' /\ Marked(e, at)'
         /\ Known(e).marked = re[e].marked /\ re[e].current = at
  <1> DEFINE m == Packet(e)
             known == Known(e)
             o == off[restarts]
             r == [known EXCEPT !.marked = TRUE]
  <1>1. /\ TypeOK /\ FieldsOK /\ restarts \in Nat /\ at \in Nat /\ o \in Int /\ curSeg[e] \in Nat
        /\ faults \in Nat /\ faults <= MaxFaults
        /\ Position(e) \in Int /\ re[e] \in RemoteEncoder /\ re[e].offset \in Int
        /\ re[e].current \in Int /\ re[e].q \in Seq(Packets)
        /\ Phase(e, o, at) /\ KeyFirst(e) /\ Fits(e, at) /\ PlacedQueue(e, off, at) /\ FewMissing(e, o)
    BY SteadyFacts
  <1>2. /\ m \in Packets /\ m.n = sent[e] /\ m.run = restarts /\ m.seg = SegmentNum(e)
        /\ known \in RemoteEncoder /\ known.seen
        /\ known.offset = IF re[e].seen THEN re[e].offset ELSE m.seg
        /\ known.current = re[e].current /\ known.q = re[e].q /\ known.marked = re[e].marked
        /\ RollsOver(e) => m.key
    BY <1>1, KnownFields
  <1>3. /\ RollsOver(e) <=> Position(e) >= SegFrames
        /\ m.seg = IF Position(e) >= SegFrames THEN curSeg[e] + 1 ELSE curSeg[e]
    BY <1>1, <1>2, Rollover
  <1>4. Push(e, r, m) /\ (known.marked \/ known.q = <<>>)
    <2>1. Push(e, r, m)
      BY DEF Ahead
    <2>2. known.marked \/ known.q = <<>>
      BY Zenon DEF Ahead
    <2> QED
      BY <2>1, <2>2
  <1>5. /\ curSeg'[e] = m.seg
        /\ Position(e)' = IF Position(e) >= SegFrames THEN Position(e) + 1 - SegFrames
                          ELSE Position(e) + 1
    BY <1>1, <1>2, Advance
  <1>6. m.seg - known.offset > at
    OBVIOUS
  <1>7. InStep(e)
    BY DEF Encode
  <1>8. /\ Position(e) >= SegFrames => Current(e, o, at) /\ ~re[e].marked
        /\ Marked(e, at) => Position(e) <= faults + Skew
    BY <1>7, MayRollOver
  <1> HIDE DEF m, known
  <1>9. Current(e, o, at) /\ m.seg = o + at + 1
    <2>1. ~Fresh(e, at)
      BY <1>1, <1>2, <1>6, <1>3 DEF Fresh
    <2>2. ~Behind(e, o, at)
      <3> SUFFICES ASSUME Behind(e, o, at) PROVE FALSE
        OBVIOUS
      <3>1. re[e].seen /\ re[e].offset > o /\ ~Marked(e, at) /\ Position(e) <= faults
        BY DEF Behind, Marked
      <3>2. m.seg = curSeg[e]
        BY <1>1, <1>3, <3>1, Sizes
      <3>3. curSeg[e] = o + at
        BY <1>1, <3>1 DEF Phase
      <3> QED
        BY <1>1, <1>2, <1>6, <3>1, <3>2, <3>3
    <2>3. ~Entering(e, o, at)
      <3> SUFFICES ASSUME Entering(e, o, at) PROVE FALSE
        OBVIOUS
      <3>1. re[e].seen /\ re[e].offset = o /\ ~Marked(e, at) /\ re[e].marked
        BY <1>1 DEF Entering, Marked
      <3>2. m.seg = curSeg[e]
        BY <1>1, <1>3, <1>8, <3>1
      <3>3. curSeg[e] = o + at
        BY <1>1, <3>1 DEF Phase
      <3> QED
        BY <1>1, <1>2, <1>6, <3>1, <3>2, <3>3
    <2>4. Current(e, o, at)
      BY <1>1, <2>1, <2>2, <2>3 DEF Phase
    <2>5. known.offset = o /\ re[e].current = at
      BY <1>2, <2>4 DEF Current
    <2>6. CASE re[e].marked
      <3>1. curSeg[e] = o + at + 1
        BY <1>1, <2>5, <2>6 DEF Phase, Marked
      <3> QED
        BY <1>1, <1>3, <1>8, <2>4, <2>6, <3>1
    <2>7. CASE ~re[e].marked
      <3>1. curSeg[e] = o + at
        BY <1>1, <2>7 DEF Phase, Marked
      <3> QED
        BY <1>1, <1>3, <1>6, <2>4, <2>5, <3>1
    <2> QED
      BY <2>6, <2>7
  <1>10. re[e].seen /\ re[e].offset = o /\ re[e].current = at
    BY <1>9 DEF Current
  <1>11. /\ r \in RemoteEncoder /\ r.seen /\ r.offset = o /\ r.current = at
         /\ r.q = re[e].q /\ r.marked
    BY <1>2, <1>10 DEF RemoteEncoder
  <1> HIDE DEF r
  <1>12. Takes(e, r, off, at)
    <2>1. \A i \in DOMAIN r.q : r.q[i].run <= restarts
      BY <1>1, <1>11 DEF PlacedQueue
    <2>2. AtMostMissing(Numbers(e), sent[e], restarts)
      <3>1. ~(re[e].offset > o)
        BY <1>1, <1>10
      <3> QED
        BY <1>1, <3>1 DEF FewMissing
    <2> QED
      BY <1>11, <2>1, <2>2 DEF Takes
  <1>13. \A i \in DOMAIN r.q : r.q[i].seg - off[r.q[i].run] = at + 1
    <2>1. CASE re[e].marked
      <3>1. Marked(e, at)
        BY <1>10, <2>1 DEF Marked
      <3> QED
        BY <1>1, <1>11, <3>1 DEF PlacedQueue
    <2>2. CASE ~re[e].marked
      BY <1>2, <1>4, <1>11, <2>2
    <2> QED
      BY <2>1, <2>2
  <1>14. /\ StartsWithKey(r.q) \/ (r.q = <<>> /\ m.key)
         /\ Len(r.q) + 1 <= Position(e)' /\ Len(r.q) <= QueueMax
    <2>1. CASE re[e].marked
      <3>1. StartsWithKey(r.q)
        BY <1>1, <1>11, <2>1 DEF KeyFirst
      <3>2. Len(r.q) <= Position(e) /\ Position(e) <= faults + Skew /\ Len(r.q) \in Nat
        BY <1>1, <1>8, <1>10, <1>11, <2>1 DEF Fits, Marked
      <3>3. Position(e)' = Position(e) + 1
        BY <1>5, <1>8, <2>1
      <3> QED
        BY <1>1, <3>1, <3>2, <3>3, Sizes
    <2>2. CASE ~re[e].marked
      <3>1. r.q = <<>>
        BY <1>2, <1>4, <1>11, <2>2
      <3>2. curSeg[e] = o + at
        BY <1>1, <2>2 DEF Phase, Marked
      <3>3. Position(e) >= SegFrames
        BY <1>1, <1>3, <1>9, <3>2
      <3>4. m.key /\ Len(r.q) = 0
        BY <1>2, <1>3, <3>1, <3>3
      <3> QED
        BY <1>1, <1>5, <3>1, <3>3, <3>4, Sizes
    <2> QED
      BY <2>1, <2>2
  <1> DEFINE lead == 1
  <1>15. /\ lead = IF r.marked THEN 1 ELSE 0
         /\ m.seg - off[m.run] = at + lead /\ curSeg'[e] = off[restarts] + at + lead
         /\ \A i \in DOMAIN r.q : r.q[i].seg - off[r.q[i].run] = at + lead
    BY <1>1, <1>2, <1>5, <1>9, <1>11, <1>13
  <1> HIDE DEF lead
  <1>16. Steady(e, off, at)' /\ Marked(e, at)'
    <2>1. /\ r.marked => /\ StartsWithKey(r.q) \/ (r.q = <<>> /\ m.key)
                         /\ Len(r.q) + 1 <= Position(e)'
          /\ ~r.marked => (files[e] # <<>> => r.recording \/ StartsWithKey(r.q))
      BY <1>11, <1>14, Zenon
    <2>2. Steady(e, off, at)' /\ (Marked(e, at)' <=> r.marked)
      BY <1>2, <1>4, <1>12, <1>14, <1>15, <2>1, PushSteady
    <2> QED
      BY <1>11, <2>2
  <1> QED
    BY <1>2, <1>10, <1>16 DEF known

(* The packet that shows the restart: the only one of a run that is dropped. *)
LEMMA OlderSteady ==
  ASSUME NEW off, SteadyLog(off), NEW e \in Encoders, Encode(e), restarts' = restarts,
         NEW at, at = segment, Packet(e).seg - Known(e).offset < segment, Older(e, Known(e))
  PROVE  Steady(e, off, at)' /\ ~Marked(e, at)' /\ ~Marked(e, at)
  <1> DEFINE m == Packet(e)
             known == Known(e)
             o == off[restarts]
  <1>1. /\ TypeOK /\ FieldsOK /\ restarts \in Nat /\ at \in Nat /\ o \in Int /\ curSeg[e] \in Nat
        /\ faults \in Nat /\ faults <= MaxFaults /\ sent[e] \in Nat
        /\ Position(e) \in Int /\ re[e] \in RemoteEncoder /\ re[e].offset \in Int
        /\ Phase(e, o, at) /\ KeyFirst(e) /\ PlacedFiles(e, off) /\ PlacedQueue(e, off, at) /\ FewMissing(e, o)
    BY SteadyFacts
  <1>2. /\ m.seg = SegmentNum(e) /\ m.seg \in Int
        /\ known \in RemoteEncoder /\ known.seen
        /\ known.offset = IF re[e].seen THEN re[e].offset ELSE m.seg
        /\ known.current = re[e].current /\ known.q = re[e].q
        /\ known.marked = re[e].marked /\ known.recording = re[e].recording
    BY <1>1, KnownFields
  <1>3. m.seg = IF Position(e) >= SegFrames THEN curSeg[e] + 1 ELSE curSeg[e]
    BY <1>1, <1>2, Rollover
  <1>4. curSeg'[e] = m.seg /\ sent'[e] = sent[e] + 1
    BY <1>1, <1>2, Advance
  <1>5. m.seg - known.offset < at
    OBVIOUS
  <1>6. known \in RemoteEncoder /\ files' = files /\ re' = [re EXCEPT ![e] = [known EXCEPT !.offset = -at]]
    BY <1>2 DEF Older
  <1> HIDE DEF m, known
  <1>7. Behind(e, o, at)
    <2>1. ~Fresh(e, at)
      BY <1>1, <1>2, <1>5 DEF Fresh
    <2>2. ~(re[e].seen /\ re[e].offset = o)
      <3> SUFFICES ASSUME re[e].seen, re[e].offset = o PROVE FALSE
        OBVIOUS
      <3>1. curSeg[e] >= o + at
        BY <1>1 DEF Phase
      <3>2. m.seg >= curSeg[e]
        BY <1>1, <1>3
      <3> QED
        BY <1>1, <1>2, <1>5, <3>1, <3>2
    <2> QED
      BY <1>1, <2>1, <2>2 DEF Phase, Current, Entering
  <1>8. /\ re[e].seen /\ re[e].offset > o /\ re[e].current = at /\ ~re[e].marked /\ ~Marked(e, at)
        /\ curSeg[e] = 0 /\ Position(e) <= faults
    BY <1>7 DEF Behind, Marked
  <1>9. o = -at /\ m.seg = 0
    <2>1. curSeg[e] = o + at
      BY <1>1, <1>8 DEF Phase
    <2>2. ~(Position(e) >= SegFrames)
      BY <1>1, <1>8, Sizes
    <2>3. m.seg = 0
      BY <1>3, <1>8, <2>2
    <2>4. \A x, y \in Int : x + y = 0 => x = -y
      OBVIOUS
    <2>5. o + at = 0
      BY <1>8, <2>1
    <2> QED
      BY <1>1, <2>3, <2>4, <2>5
  <1>10. /\ re'[e].seen /\ re'[e].offset = o /\ re'[e].current = at /\ ~re'[e].marked
         /\ re'[e].q = re[e].q /\ re'[e].recording = re[e].recording
    <2>1. re' = [re EXCEPT ![e] = [known EXCEPT !.offset = o]]
      BY <1>6, <1>9
    <2>2. re'[e] = [known EXCEPT !.offset = o]
      BY <1>1, <2>1 DEF FieldsOK
    <2>3. \A off0 \in Int : LET new == [known EXCEPT !.offset = off0] IN
            /\ new.seen = known.seen /\ new.offset = off0 /\ new.current = known.current
            /\ new.marked = known.marked /\ new.q = known.q /\ new.recording = known.recording
      BY <1>2 DEF RemoteEncoder
    <2> DEFINE new == [known EXCEPT !.offset = o]
    <2>4. /\ new.seen = known.seen /\ new.offset = o /\ new.current = known.current
          /\ new.marked = known.marked /\ new.q = known.q /\ new.recording = known.recording
      BY <1>1, <2>3
    <2> HIDE DEF new
    <2>5. re'[e] = new
      BY <2>2 DEF new
    <2> QED
      BY <1>2, <1>8, <2>4, <2>5
  <1>11. ~Marked(e, at)'
    BY <1>10 DEF Marked
  <1>12. Phase(e, off[restarts], at)'
    <2>1. curSeg'[e] = o + at
      BY <1>1, <1>4, <1>9
    <2> QED
      BY <1>1, <1>10, <1>11, <2>1 DEF Phase, Current
  <1>13. KeyFirst(e)'
    BY <1>1, <1>6, <1>8, <1>10 DEF KeyFirst
  <1>14. Fits(e, at)'
    BY <1>11 DEF Fits
  <1>15. PlacedFiles(e, off)' /\ PlacedQueue(e, off, at)'
    BY <1>1, <1>6, <1>8, <1>10, <1>11 DEF PlacedFiles, PlacedQueue
  <1>16. FewMissing(e, off[restarts])'
    <2> DEFINE N == Numbers(e)
    <2>1. N \in SUBSET Nat
      BY NumbersType
    <2>2. Numbers(e)' = N
      BY <1>6, <1>10 DEF Numbers
    <2> HIDE DEF N
    <2>3. AtMostMissing(N, sent[e], restarts - 1)
      BY <1>1, <1>8 DEF FewMissing, N
    <2>4. AtMostMissing(N, sent[e] + 1, (restarts - 1) + 1)
      BY <1>1, <2>1, <2>3, MissingOneMore
    <2>5. (restarts - 1) + 1 = restarts
      BY <1>1
    <2>6. AtMostMissing(Numbers(e), sent[e], restarts)'
      BY <1>4, <2>2, <2>4, <2>5 DEF AtMostMissing
    <2>7. ~(re'[e].offset > off[restarts])
      BY <1>1, <1>10
    <2> QED
      BY <2>6, <2>7 DEF FewMissing
  <1> QED
    BY <1>8, <1>11, <1>12, <1>13, <1>14, <1>15, <1>16 DEF Steady

(* What does not concern an encoder, but for the sound, leaves it where it was. *)
Same(d) ==
  /\ re'[d].seen = re[d].seen /\ re'[d].offset = re[d].offset /\ re'[d].current = re[d].current
  /\ re'[d].q = re[d].q /\ re'[d].recording = re[d].recording /\ re'[d].marked = re[d].marked
  /\ files'[d] = files[d] /\ curSeg'[d] = curSeg[d] /\ sent'[d] = sent[d]
  /\ Position(d)' = Position(d)

LEMMA SameSteady ==
  ASSUME NEW off, SteadyLog(off), NEW d \in Encoders, Same(d), restarts' = restarts, faults' >= faults,
         faults' \in Nat, NEW at, at = segment
  PROVE  Steady(d, off, at)' /\ (Marked(d, at)' <=> Marked(d, at))
  <1>1. /\ faults \in Nat /\ faults <= faults' /\ Position(d) \in Int
        /\ Phase(d, off[restarts], at) /\ KeyFirst(d) /\ Fits(d, at)
        /\ PlacedFiles(d, off) /\ PlacedQueue(d, off, at) /\ FewMissing(d, off[restarts])
    BY SteadyFacts
  <1>2. Marked(d, at)' <=> Marked(d, at)
    BY DEF Same, Marked
  <1>3. Phase(d, off[restarts], at)'
    <2>1. Position(d) <= faults => Position(d) <= faults'
      BY <1>1
    <2>2. Position(d) <= faults + Skew + 1 => Position(d) <= faults' + Skew + 1
      BY <1>1, Sizes
    <2>3. Fresh(d, at) => Fresh(d, at)'
      BY DEF Same, Fresh
    <2>4. Behind(d, off[restarts], at) => Behind(d, off[restarts], at)'
      BY <2>1 DEF Same, Behind
    <2>5. Current(d, off[restarts], at) => Current(d, off[restarts], at)'
      BY DEF Same, Current
    <2>6. Entering(d, off[restarts], at) => Entering(d, off[restarts], at)'
      BY <2>2 DEF Same, Entering
    <2>7. (curSeg[d] = off[restarts] + at + (IF Marked(d, at) THEN 1 ELSE 0))'
      BY <1>1, <1>2 DEF Phase, Same
    <2> QED
      BY <1>1, <2>3, <2>4, <2>5, <2>6, <2>7 DEF Phase
  <1>4. KeyFirst(d)'
    BY <1>1 DEF Same, KeyFirst
  <1>5. Fits(d, at)'
    BY <1>1, <1>2 DEF Same, Fits
  <1>6. PlacedFiles(d, off)' /\ PlacedQueue(d, off, at)'
    BY <1>1, <1>2 DEF Same, PlacedFiles, PlacedQueue
  <1>7. FewMissing(d, off[restarts])'
    <2>1. Numbers(d)' = Numbers(d)
      BY DEF Same, Numbers
    <2> QED
      BY <1>1, <2>1 DEF Same, FewMissing, AtMostMissing
  <1> QED
    BY <1>2, <1>3, <1>4, <1>5, <1>6, <1>7 DEF Steady

LEMMA ReceiveSteady ==
  ASSUME NEW off, SteadyLog(off), NEW e \in Encoders, Receive(e), clean', NEW at, at = segment
  PROVE  /\ \A d \in Encoders : Steady(d, off, at)'
         /\ \A d \in Encoders \ {e} : Same(d) /\ (Marked(d, at)' <=> Marked(d, at))
         /\ Marked(e, at) => Marked(e, at)'
         /\ Rotate(Cardinality({d \in Encoders : Marked(d, at)'}))
  <1> DEFINE m == Packet(e)
             r == Known(e)
             seg == m.seg - r.offset
             S == {d \in Encoders : Marked(d, at)}
             T == {d \in Encoders : Marked(d, at)'}
             ready == IF seg > segment /\ ~r.marked THEN readyToRotate + 1 ELSE readyToRotate
  <1>1. /\ Inv /\ TypeOK /\ FieldsOK /\ segment \in Nat /\ faults \in Nat
        /\ re[e] \in RemoteEncoder
    BY SteadyFacts DEF SteadyLog, Paced
  <1>2. /\ Encode(e)
        /\ \/ seg = segment /\ InSegment(e, r, m)
           \/ seg > segment /\ Ahead(e, r, m)
           \/ seg < segment /\ Older(e, r)
        /\ Rotate(ready)
        /\ restarts' = restarts /\ faults' = faults
    BY ReceiveSplits
  <1>3. m.seg \in Int /\ r.offset \in Int /\ seg \in Int
    BY <1>1, KnownFields DEF RemoteEncoder
  <1>4. \A d \in Encoders \ {e} : Same(d)
    BY <1>1, <1>2, ReceiveFields, Advance DEF Same
  <1>5. \A d \in Encoders \ {e} : Steady(d, off, at)' /\ (Marked(d, at)' <=> Marked(d, at))
    <2> TAKE d \in Encoders \ {e}
    <2>1. faults' >= faults /\ faults' \in Nat
      BY <1>1, <1>2
    <2> QED
      BY <1>2, <1>4, <2>1, SameSteady
  <1> DEFINE Stays == T = S /\ (Marked(e, at)' <=> Marked(e, at)) /\ ready = readyToRotate
             Marks == T = S \cup {e} /\ Marked(e, at)' /\ e \notin S /\ ready = readyToRotate + 1
  <1>6. Steady(e, off, at)' /\ (Stays \/ Marks)
    <2>1. CASE seg = segment /\ InSegment(e, r, m)
      <3>1. Steady(e, off, at)' /\ ~Marked(e, at)' /\ ~Marked(e, at)
        BY <1>2, <2>1, InSegmentSteady
      <3>2. ~(seg > segment)
        BY <1>1, <2>1
      <3> QED
        BY <1>5, <3>1, <3>2
    <2>2. CASE seg > segment /\ Ahead(e, r, m)
      <3>1. /\ Steady(e, off, at)' /\ Marked(e, at)'
            /\ r.marked = re[e].marked /\ re[e].current = at
        BY <1>2, <2>2, AheadSteady
      <3>2. CASE r.marked
        <4>1. Marked(e, at)
          BY <3>1, <3>2 DEF Marked
        <4> QED
          BY <1>5, <3>1, <3>2, <4>1
      <3>3. CASE ~r.marked
        <4>1. ~Marked(e, at)
          BY <3>1, <3>3 DEF Marked
        <4> QED
          BY <1>5, <2>2, <3>1, <3>3, <4>1
      <3> QED
        BY <3>2, <3>3
    <2>3. CASE seg < segment /\ Older(e, r)
      <3>1. Steady(e, off, at)' /\ ~Marked(e, at)' /\ ~Marked(e, at)
        BY <1>2, <2>3, OlderSteady
      <3>2. ~(seg > segment)
        BY <1>1, <1>3, <2>3
      <3> QED
        BY <1>5, <3>1, <3>2
    <2> QED
      BY <1>2, <2>1, <2>2, <2>3
  <1> HIDE DEF ready
  <1>7. ready = Cardinality(T)
    <2>1. IsFiniteSet(S)
      BY Sizes, FS_Subset
    <2>2. readyToRotate = Cardinality(S)
      BY DEF SteadyLog, Ready
    <2> HIDE DEF S, T
    <2>3. CASE Stays
      BY <2>2, <2>3
    <2>4. CASE Marks
      BY <2>1, <2>2, <2>4, FS_AddElement
    <2> QED
      BY <1>6, <2>3, <2>4
  <1>8. Rotate(Cardinality(T))
    BY <1>2, <1>7
  <1> QED
    BY <1>4, <1>5, <1>6, <1>8

(* The log is rotated: the segment of the log is now that of the queue. *)
LEMMA TurnSteady ==
  ASSUME NEW off, NEW d, NEW at \in Nat, off[restarts'] \in Int,
         Steady(d, off, at)', Marked(d, at)', Position(d)' <= faults' + Skew + 1
  PROVE  Steady(d, off, at + 1)' /\ ~Marked(d, at + 1)'
  <1> DEFINE next == at + 1
             o == off[restarts']
  <1>1. next \in Int /\ next # at /\ at < next
    OBVIOUS
  <1>2. /\ Phase(d, off[restarts], at)' /\ KeyFirst(d)' /\ PlacedFiles(d, off)'
        /\ PlacedQueue(d, off, at)' /\ FewMissing(d, off[restarts])'
    BY DEF Steady
  <1>3. /\ curSeg'[d] = o + at + 1
        /\ re'[d].seen /\ re'[d].offset = o /\ re'[d].current = at /\ re'[d].marked
    BY <1>2 DEF Phase, Fresh, Behind, Current, Entering, Marked
  <1>4. curSeg'[d] = o + next + 0
    BY <1>3
  <1> HIDE DEF next
  <1>5. ~Marked(d, next)'
    BY <1>1, <1>3 DEF Marked
  <1>6. Entering(d, off[restarts], next)'
    BY <1>1, <1>3 DEF Entering
  <1>7. Phase(d, off[restarts], next)'
    BY <1>4, <1>5, <1>6 DEF Phase
  <1>8. Fits(d, next)'
    BY <1>5 DEF Fits
  <1>9. PlacedQueue(d, off, next)'
    <2>1. \A i \in DOMAIN re'[d].q : /\ re'[d].q[i].run <= restarts'
                                     /\ re'[d].q[i].seg - off[re'[d].q[i].run] = at + 1
      BY <1>2 DEF PlacedQueue
    <2>2. at + 1 = next + 0
      BY DEF next
    <2> QED
      BY <1>5, <2>1, <2>2 DEF PlacedQueue
  <1>10. Steady(d, off, next)'
    BY <1>2, <1>7, <1>8, <1>9 DEF Steady
  <1> QED
    BY <1>5, <1>10 DEF next

LEMMA AtSegment ==
  ASSUME NEW off, NEW at, segment' = at, \A d \in Encoders : Steady(d, off, at)', Ready(readyToRotate, at)'
  PROVE  (Ready(readyToRotate, segment) /\ \A d \in Encoders : Steady(d, off, segment))'
  <1>1. \A d \in Encoders : Marked(d, at)' <=> Marked(d, segment)'
    BY DEF Marked
  <1>2. Ready(readyToRotate, segment)'
    BY <1>1 DEF Ready
  <1>3. ASSUME NEW d \in Encoders PROVE Steady(d, off, segment)'
    <2>1. Steady(d, off, at)'
      OBVIOUS
    <2>2. Phase(d, off[restarts], segment)'
      BY <1>1, <2>1 DEF Steady, Phase, Fresh, Behind, Current, Entering
    <2>3. Fits(d, segment)' /\ PlacedQueue(d, off, segment)'
      BY <1>1, <2>1 DEF Steady, Fits, PlacedQueue
    <2> QED
      BY <2>1, <2>2, <2>3 DEF Steady
  <1> QED
    BY <1>2, <1>3

LEMMA RotateSteady ==
  ASSUME NEW off, SteadyLog(off), NEW e \in Encoders, Receive(e), clean'
  PROVE  (Ready(readyToRotate, segment) /\ \A d \in Encoders : Steady(d, off, segment))'
  <1>1. PICK at \in Nat : at = segment
    BY SteadyFacts
  <1> DEFINE T == {d \in Encoders : Marked(d, at)'}
             o == off[restarts]
  <1>2. /\ TypeOK /\ FieldsOK /\ InPace /\ restarts \in Nat /\ faults \in Nat /\ o \in Int
        /\ curSeg[e] \in Nat /\ Position(e) \in Int
    BY SteadyFacts
  <1>3. Encode(e) /\ restarts' = restarts /\ faults' = faults
    BY DEF Receive
  <1>4. /\ \A d \in Encoders : Steady(d, off, at)'
        /\ \A d \in Encoders \ {e} : Same(d) /\ (Marked(d, at)' <=> Marked(d, at))
        /\ Marked(e, at) => Marked(e, at)'
        /\ Rotate(Cardinality(T))
    BY <1>1, ReceiveSteady
  <1>5. T \in SUBSET Encoders
    OBVIOUS
  <1>6. CASE Cardinality(T) # Cardinality(Encoders)
    <2>1. segment' = at /\ readyToRotate' = Cardinality(T)
      BY <1>1, <1>4, <1>6 DEF Rotate, AllReady
    <2>2. PICK d \in Encoders : d \notin T
      BY <1>5, <1>6
    <2>3. ~Marked(d, at)'
      BY <2>2
    <2>4. Ready(readyToRotate, at)'
      BY <2>1, <2>3 DEF Ready
    <2> QED
      BY <1>4, <2>1, <2>4, AtSegment
  <1>7. CASE Cardinality(T) = Cardinality(Encoders)
    <2> DEFINE next == at + 1
    <2>1. segment' = next /\ readyToRotate' = 0
      BY <1>1, <1>4, <1>7 DEF Rotate, AllReady
    <2>2. T = Encoders
      BY <1>5, <1>7, Sizes, FS_Subset
    <2>3. \A d \in Encoders : Marked(d, at)'
      BY <2>2
    <2>4. \E d \in Encoders : ~Marked(d, at)
      BY <1>1 DEF SteadyLog, Ready
    <2>5. ~Marked(e, at) /\ \A d \in Encoders \ {e} : Marked(d, at)
      BY <1>4, <2>3, <2>4
    <2>6. Position(e)' <= faults' + Skew + 1
      <3>1. Phase(e, o, at) /\ Phase(e, off[restarts], at)'
        BY <1>1, <1>4, SteadyFacts DEF Steady
      <3>2. curSeg[e] = o + at
        BY <1>2, <2>5, <3>1 DEF Phase
      <3>3. curSeg'[e] = o + at + 1
        BY <1>3, <2>3, <3>1 DEF Phase
      <3>4. curSeg'[e] = IF Position(e) >= SegFrames THEN curSeg[e] + 1 ELSE curSeg[e]
        BY <1>2, <1>3, Advance, Rollover
      <3>5. Position(e) >= SegFrames
        BY <1>2, <3>2, <3>3, <3>4
      <3>6. Position(e)' = Position(e) + 1 - SegFrames
        BY <1>2, <1>3, <3>5, Advance
      <3>7. Position(e) <= SegFrames + faults
        BY <1>2 DEF InPace
      <3> QED
        BY <1>2, <1>3, <3>6, <3>7, Sizes
    <2>7. ASSUME NEW d \in Encoders \ {e} PROVE Position(d)' <= faults' + Skew + 1
      <3>1. Phase(e, off[restarts], segment) /\ Phase(d, off[restarts], segment) /\ Paced
            /\ off \in [Nat -> Int]
        BY SteadyFacts DEF SteadyLog
      <3>2. Position(d) <= faults + Skew + 1
        BY <1>1, <2>5, <3>1, Lead
      <3> QED
        BY <1>3, <1>4, <3>2 DEF Same
    <2>8. \A d \in Encoders : Steady(d, off, next)' /\ ~Marked(d, next)'
      <3> TAKE d \in Encoders
      <3>1. Position(d)' <= faults' + Skew + 1
        BY <2>6, <2>7
      <3>2. off[restarts'] \in Int
        BY <1>2, <1>3
      <3> QED
        BY <1>4, <2>3, <3>1, <3>2, TurnSteady
    <2> HIDE DEF next
    <2>9. {d \in Encoders : Marked(d, next)'} = {}
      BY <2>8
    <2>10. Ready(readyToRotate, next)'
      BY <2>1, <2>8, <2>9, FS_EmptySet DEF Ready
    <2> QED
      BY <2>1, <2>8, <2>10, AtSegment
  <1> QED
    BY <1>6, <1>7

-----------------------------------------------------------------------------
(* What happens besides the packets. *)

(* A log in which nothing changes for an encoder but its position stays steady. *)
LEMMA SameLog ==
  ASSUME NEW off, SteadyLog(off), \A d \in Encoders : Same(d), UNCHANGED <<segment, readyToRotate, restarts>>,
         faults' >= faults, faults' \in Nat
  PROVE  (Ready(readyToRotate, segment) /\ \A d \in Encoders : Steady(d, off, segment))'
  <1>1. PICK at : at = segment
    OBVIOUS
  <1>2. \A d \in Encoders : Steady(d, off, at)' /\ (Marked(d, at)' <=> Marked(d, at))
    BY <1>1, SameSteady
  <1>3. Ready(readyToRotate, at)'
    BY <1>1, <1>2 DEF SteadyLog, Ready
  <1> QED
    BY <1>1, <1>2, <1>3, AtSegment

LEMMA SkipSteady ==
  ASSUME NEW off, SteadyLog(off), NEW e \in Encoders, SkipFrame(e), clean'
  PROVE  (Ready(readyToRotate, segment) /\ \A d \in Encoders : Steady(d, off, segment))'
  <1>1. PICK at \in Nat : at = segment
    BY SteadyFacts
  <1> DEFINE o == off[restarts]
  <1>2. /\ TypeOK /\ FieldsOK /\ faults \in Nat /\ Position(e) \in Int /\ curSeg[e] \in Nat
        /\ re[e].q \in Seq(Packets)
        /\ Phase(e, o, at) /\ KeyFirst(e) /\ Fits(e, at)
        /\ PlacedFiles(e, off) /\ PlacedQueue(e, off, at) /\ FewMissing(e, o)
    BY <1>1, SteadyFacts
  <1>3. /\ frame' = [frame EXCEPT ![e] = @ + 1] /\ faults' = faults + 1
        /\ UNCHANGED <<curSeg, sent, segment, readyToRotate, re, files, restarts>>
    BY DEF SkipFrame, Fault
  <1>4. re[e].seen
    BY Zenon DEF SkipFrame
  <1>5. /\ frame'[e] = frame[e] + 1 /\ \A d \in Encoders \ {e} : frame'[d] = frame[d]
        /\ frame[e] \in Int
    BY <1>2, <1>3 DEF TypeOK
  <1>6. Position(e)' = Position(e) + 1
    <2>1. curSeg[e] * SegFrames \in Int
      BY <1>2, Product
    <2> QED
      BY <1>3, <1>5, <2>1 DEF Position
  <1>7. \A d \in Encoders \ {e} : Same(d)
    BY <1>3, <1>5 DEF Same, Position
  <1>8. \A d \in Encoders \ {e} : Steady(d, off, at)' /\ (Marked(d, at)' <=> Marked(d, at))
    <2> TAKE d \in Encoders \ {e}
    <2>1. faults' >= faults /\ faults' \in Nat
      BY <1>2, <1>3
    <2> QED
      BY <1>1, <1>3, <1>7, <2>1, SameSteady
  <1>9. Marked(e, at)' <=> Marked(e, at)
    BY <1>3 DEF Marked
  <1>10. Phase(e, off[restarts], at)'
    <2>1. Behind(e, o, at) => Behind(e, off[restarts], at)'
      BY <1>2, <1>3, <1>6 DEF Behind
    <2>2. Current(e, o, at) => Current(e, off[restarts], at)'
      BY <1>3 DEF Current
    <2>3. Entering(e, o, at) => Entering(e, off[restarts], at)'
      BY <1>2, <1>3, <1>6, Sizes DEF Entering
    <2>4. ~Fresh(e, at)
      BY <1>4 DEF Fresh
    <2>5. (curSeg[e] = off[restarts] + at + (IF Marked(e, at) THEN 1 ELSE 0))'
      BY <1>2, <1>3, <1>9 DEF Phase
    <2> QED
      BY <1>2, <2>1, <2>2, <2>3, <2>4, <2>5 DEF Phase
  <1>11. Fits(e, at)'
    BY <1>2, <1>3, <1>6, <1>9 DEF Fits
  <1>12. KeyFirst(e)' /\ PlacedFiles(e, off)' /\ PlacedQueue(e, off, at)'
    BY <1>2, <1>3, <1>9 DEF KeyFirst, PlacedFiles, PlacedQueue
  <1>13. FewMissing(e, off[restarts])'
    <2>1. Numbers(e)' = Numbers(e)
      BY <1>3 DEF Numbers
    <2> QED
      BY <1>2, <1>3, <2>1 DEF FewMissing, AtMostMissing
  <1>14. Steady(e, off, at)'
    BY <1>10, <1>11, <1>12, <1>13 DEF Steady
  <1>15. Ready(readyToRotate, at)'
    <2>1. \A d \in Encoders : Marked(d, at)' <=> Marked(d, at)
      BY <1>8, <1>9
    <2> QED
      BY <1>1, <1>3, <2>1 DEF SteadyLog, Ready
  <1>16. segment' = at /\ \A d \in Encoders : Steady(d, off, at)'
    BY <1>1, <1>3, <1>8, <1>14
  <1> QED
    BY <1>15, <1>16, AtSegment

LEMMA MissingNoMore ==
  ASSUME NEW N, NEW s \in Int, NEW k \in Int, NEW l \in Int, k <= l, AtMostMissing(N, s, k),
         N \in SUBSET Nat
  PROVE  AtMostMissing(N, s, l)
  <1> SUFFICES ASSUME NEW x \in N PROVE Cardinality((x .. s - 1) \ N) <= l
    BY DEF AtMostMissing
  <1>1. Cardinality((x .. s - 1) \ N) \in Nat
    <2>1. IsFiniteSet(x .. s - 1)
      BY FS_Interval
    <2>2. IsFiniteSet((x .. s - 1) \ N)
      BY <2>1, FS_Difference
    <2> QED
      BY <2>2, FS_CardinalityType
  <1>2. Cardinality((x .. s - 1) \ N) <= k
    BY DEF AtMostMissing
  <1> QED
    BY <1>1, <1>2

(* A new run begins in the segment of the log.  Each encoder is now behind by the segments *)
(* that it has counted, unless it has counted none.                                        *)
LEMMA RestartSteady ==
  ASSUME NEW off, SteadyLog(off), RestartEncoderd, clean',
         NEW new, new = [off EXCEPT ![restarts + 1] = -segment]
  PROVE  (Ready(readyToRotate, segment) /\ \A d \in Encoders : Steady(d, new, segment))'
  <1>1. /\ TypeOK /\ FieldsOK /\ off \in [Nat -> Int] /\ Ready(readyToRotate, segment)
        /\ restarts \in Nat /\ segment \in Nat /\ faults \in Nat
    <2>1. TypeOK /\ FieldsOK /\ off \in [Nat -> Int] /\ Ready(readyToRotate, segment)
      BY DEF SteadyLog, Paced, Inv
    <2> QED
      BY <2>1, Sizes DEF TypeOK, FieldsOK
  <1>2. PICK at \in Nat : at = segment
    BY <1>1
  <1>3. /\ restarts' = restarts + 1 /\ faults' = faults + 1
        /\ \A d \in Encoders : frame'[d] = 0 /\ curSeg'[d] = 0
        /\ UNCHANGED <<sent, segment, readyToRotate, re, files>>
    BY DEF RestartEncoderd, Fault
  <1>4. \A d \in Encoders : re[d].seen /\ re[d].current = segment /\ ~re[d].marked
    BY Zenon DEF RestartEncoderd
  <1>5. /\ new[restarts'] = -at
        /\ \A run \in Nat : run <= restarts => new[run] = off[run] /\ run <= restarts'
    BY <1>1, <1>2, <1>3
  <1>6. \A d \in Encoders : ~Marked(d, at) /\ ~Marked(d, at)'
    BY <1>3, <1>4 DEF Marked
  <1>7. Ready(readyToRotate, at)'
    BY <1>1, <1>2, <1>3, <1>6 DEF Ready
  <1>8. ASSUME NEW d \in Encoders PROVE Steady(d, new, at)'
    <2> DEFINE o == off[restarts]
               p == -at
    <2>1. /\ o \in Int /\ curSeg[d] \in Nat /\ sent[d] \in Nat
          /\ re[d].offset \in Int /\ files[d] \in Seq(Entries) /\ re[d].q \in Seq(Packets)
          /\ Phase(d, o, at) /\ KeyFirst(d)
          /\ PlacedFiles(d, off) /\ PlacedQueue(d, off, at) /\ FewMissing(d, o)
      BY <1>2, SteadyFacts
    <2>2. p \in Int /\ p + at = 0
      OBVIOUS
    <2>3. new[restarts'] = p
      BY <1>5
    <2> HIDE DEF p
    <2>4. o >= p /\ re[d].offset >= o
      <3>1. curSeg[d] = o + at
        BY <1>6, <2>1 DEF Phase
      <3>2. ~Fresh(d, at)
        BY <1>4 DEF Fresh
      <3>3. re[d].offset >= o
        BY <2>1, <3>2 DEF Phase, Behind, Current, Entering
      <3> QED
        BY <2>1, <2>2, <3>1, <3>3
    <2>5. Phase(d, new[restarts], at)'
      <3>1. curSeg'[d] = p + at + 0
        BY <1>3, <2>2
      <3>2. CASE re[d].offset = p
        <4>1. Current(d, new[restarts], at)'
          BY <1>2, <1>3, <1>4, <2>3, <3>2 DEF Current
        <4> QED
          BY <1>6, <2>3, <3>1, <4>1 DEF Phase
      <3>3. CASE re[d].offset > p
        <4>1. Position(d)' = 0
          <5>1. 0 * SegFrames = 0
            BY Sizes
          <5> QED
            BY <1>3, <5>1 DEF Position
        <4>2. Behind(d, new[restarts], at)'
          BY <1>1, <1>2, <1>3, <1>4, <2>3, <3>3, <4>1 DEF Behind
        <4> QED
          BY <1>6, <2>3, <3>1, <4>2 DEF Phase
      <3> QED
        BY <2>1, <2>2, <2>4, <3>2, <3>3
    <2>6. KeyFirst(d)' /\ Fits(d, at)'
      BY <1>3, <1>6, <2>1 DEF KeyFirst, Fits
    <2>7. PlacedFiles(d, new)'
      <3>1. \A i \in DOMAIN files[d] : files[d][i].packet.run \in Nat
        BY <2>1, SequenceFields
      <3> QED
        BY <1>3, <1>5, <2>1, <3>1 DEF PlacedFiles
    <2>8. PlacedQueue(d, new, at)'
      <3>1. \A i \in DOMAIN re[d].q : re[d].q[i].run \in Nat
        BY <2>1, SequenceFields
      <3> QED
        BY <1>3, <1>5, <1>6, <2>1, <3>1 DEF PlacedQueue
    <2>9. FewMissing(d, new[restarts])'
      <3> DEFINE N == Numbers(d)
                 k == IF re[d].seen /\ re[d].offset > o THEN restarts - 1 ELSE restarts
                 l == IF re[d].seen /\ re[d].offset > p THEN (restarts + 1) - 1 ELSE restarts + 1
      <3>1. N \in SUBSET Nat
        BY NumbersType
      <3>2. Numbers(d)' = N
        BY <1>3 DEF Numbers
      <3>3. AtMostMissing(N, sent[d], k)
        BY <2>1 DEF FewMissing
      <3>4. k \in Int /\ l \in Int /\ k <= l
        <4>1. l \in {restarts, restarts + 1} /\ k \in {restarts - 1, restarts}
          BY <1>1
        <4>2. k \in Int /\ l \in Int
          BY <1>1, <4>1
        <4>3. \A n \in Nat : n - 1 <= n /\ n - 1 <= n + 1 /\ n <= n /\ n <= n + 1
          OBVIOUS
        <4> QED
          BY <1>1, <4>1, <4>2, <4>3
      <3> HIDE DEF N, k, l
      <3>5. AtMostMissing(N, sent[d], l)
        <4>1. sent[d] \in Int
          BY <2>1
        <4> QED
          BY <3>1, <3>3, <3>4, <4>1, MissingNoMore
      <3>6. AtMostMissing(Numbers(d), sent[d], IF re[d].seen /\ re[d].offset > p THEN restarts - 1 ELSE restarts)'
        BY <1>3, <3>2, <3>5 DEF AtMostMissing, l
      <3> QED
        BY <2>3, <3>6 DEF FewMissing
    <2> QED
      BY <2>5, <2>6, <2>7, <2>8, <2>9 DEF Steady
  <1>9. segment' = at
    BY <1>2, <1>3
  <1> QED
    BY <1>7, <1>8, <1>9, AtSegment

LEMMA SoundSteady ==
  ASSUME NEW off, SteadyLog(off), Sound
  PROVE  (Ready(readyToRotate, segment) /\ \A d \in Encoders : Steady(d, off, segment))'
  <1>1. re' = [e \in Encoders |-> IF e \in WithAudio /\ re[e].current >= 0
                                  THEN [re[e] EXCEPT !.audio = TRUE] ELSE re[e]]
    BY DEF Sound
  <1>2. UNCHANGED <<frame, curSeg, sent, segment, readyToRotate, files, faults, restarts>>
    BY DEF Sound, encoderd
  <1>3. \A r \in RemoteEncoder : LET heard == [r EXCEPT !.audio = TRUE] IN
          /\ heard.seen = r.seen /\ heard.offset = r.offset /\ heard.current = r.current
          /\ heard.q = r.q /\ heard.recording = r.recording /\ heard.marked = r.marked
    BY DEF RemoteEncoder
  <1>4. \A d \in Encoders : Same(d)
    <2> TAKE d \in Encoders
    <2>1. re[d] \in RemoteEncoder
      BY SteadyFacts
    <2>2. re'[d] = re[d] \/ re'[d] = [re[d] EXCEPT !.audio = TRUE]
      BY <1>1
    <2>3. /\ re'[d].seen = re[d].seen /\ re'[d].offset = re[d].offset /\ re'[d].current = re[d].current
          /\ re'[d].q = re[d].q /\ re'[d].recording = re[d].recording /\ re'[d].marked = re[d].marked
      BY <1>3, <2>1, <2>2
    <2> QED
      BY <1>2, <2>3 DEF Same, Position
  <1>5. faults \in Nat
    BY Sizes DEF SteadyLog, Paced, FieldsOK
  <1>6. faults' >= faults /\ faults' \in Nat
    BY <1>2, <1>5
  <1> QED
    BY <1>2, <1>4, <1>6, SameLog

LEMMA StutterSteady ==
  ASSUME NEW off, SteadyLog(off), UNCHANGED vars
  PROVE  (Ready(readyToRotate, segment) /\ \A d \in Encoders : Steady(d, off, segment))'
  <1>1. \A d \in Encoders : Same(d)
    BY DEF vars, Same, Position
  <1>2. faults \in Nat
    BY Sizes DEF SteadyLog, Paced, FieldsOK
  <1>3. faults' >= faults /\ faults' \in Nat /\ UNCHANGED <<segment, readyToRotate, restarts>>
    BY <1>2 DEF vars
  <1> QED
    BY <1>1, <1>3, SameLog

-----------------------------------------------------------------------------
(* The invariant *)

LEMMA InitSteady == Init => SteadyInv
  <1> SUFFICES ASSUME Init, clean
               PROVE  /\ Ready(readyToRotate, segment)
                      /\ \E off \in [Nat -> Int] : \A e \in Encoders : Steady(e, off, segment)
    BY DEF SteadyInv
  <1>1. Paced
    BY InitPaced
  <1>2. \A e \in Encoders : /\ frame[e] \in Nat /\ curSeg[e] = frame[e] \div SegFrames
    <2>1. PICK first \in 0..LateStart : frame \in [Encoders -> first .. first + Skew]
      BY DEF Init
    <2> QED
      BY <2>1, LoggerdAssumption DEF Init
  <1>3. /\ segment = 0 /\ readyToRotate = 0 /\ faults = 0 /\ restarts = 0
        /\ \A e \in Encoders : files[e] = <<>> /\ sent[e] = 0
    BY DEF Init
  <1>4. \A e \in Encoders : ~re[e].seen /\ re[e].current = -1 /\ ~re[e].marked /\ re[e].q = <<>>
    <2>1. re = [e \in Encoders |-> [seen |-> FALSE, offset |-> 0, current |-> -1, q |-> <<>>,
                                    recording |-> FALSE, marked |-> FALSE, audio |-> FALSE]]
      BY DEF Init
    <2> QED
      BY <2>1
  <1>5. \A e, d \in Encoders : curSeg[e] = curSeg[d]
    BY Zenon DEF Init
  <1>6. \E c \in Int : \A e \in Encoders : curSeg[e] = c
    <2>1. CASE Encoders = {}
      BY <2>1
    <2>2. CASE Encoders # {}
      <3>1. PICK d \in Encoders : TRUE
        BY <2>2
      <3>2. curSeg[d] \in Int
        BY <1>1 DEF Paced, FieldsOK
      <3> QED
        BY <1>5, <3>2
    <2> QED
      BY <2>1, <2>2
  <1>7. PICK c \in Int : \A e \in Encoders : curSeg[e] = c
    BY <1>6
  <1>8. \A e \in Encoders : ~Marked(e, segment)
    BY <1>4 DEF Marked
  <1>9. Ready(readyToRotate, segment)
    <2>1. {e \in Encoders : Marked(e, segment)} = {}
      BY <1>8
    <2> QED
      BY <1>3, <1>8, <2>1, FS_EmptySet DEF Ready
  <1> DEFINE off == [n \in Nat |-> c]
  <1>10. off \in [Nat -> Int] /\ off[restarts] = c
    BY <1>3
  <1> HIDE DEF off
  <1>11. ASSUME NEW e \in Encoders PROVE Steady(e, off, segment)
    <2>1. Position(e) < SegFrames
      BY <1>2, Division DEF Position
    <2>2. Fresh(e, segment)
      BY <1>3, <1>4, <2>1 DEF Fresh
    <2>3. curSeg[e] = c + 0 + 0
      BY <1>7
    <2>4. Phase(e, off[restarts], segment)
      BY <1>3, <1>8, <1>10, <2>2, <2>3 DEF Phase
    <2>5. KeyFirst(e) /\ Fits(e, segment) /\ PlacedFiles(e, off) /\ PlacedQueue(e, off, segment)
      BY <1>3, <1>4, <1>8 DEF KeyFirst, Fits, PlacedFiles, PlacedQueue
    <2>6. Numbers(e) = {}
      BY <1>3, <1>4 DEF Numbers
    <2>7. FewMissing(e, off[restarts])
      BY <2>6 DEF FewMissing, AtMostMissing
    <2> QED
      BY <2>4, <2>5, <2>7 DEF Steady
  <1> QED
    BY <1>9, <1>10, <1>11

LEMMA NextSteady == LoggerdInv /\ [Next]_vars => SteadyInv'
  <1> SUFFICES ASSUME LoggerdInv, [Next]_vars, clean'
               PROVE  (/\ Ready(readyToRotate, segment)
                       /\ \E off \in [Nat -> Int] : \A e \in Encoders : Steady(e, off, segment))'
    BY DEF SteadyInv
  <1>1. ~RotateTimedOut
    BY Zenon DEF RotateTimedOut
  <1>2. clean
    <2>1. ASSUME NEW e \in Encoders, Receive(e) PROVE clean
      <3>1. \/ InSegment(e, Known(e), Packet(e))
            \/ Ahead(e, Known(e), Packet(e))
            \/ Older(e, Known(e))
        BY <2>1, ReceiveSplits
      <3>2. ASSUME InSegment(e, Known(e), Packet(e)) PROVE clean
        BY <3>2, Zenon DEF InSegment
      <3>3. ASSUME Ahead(e, Known(e), Packet(e)) PROVE clean
        BY <3>3, Zenon DEF Ahead
      <3>4. ASSUME Older(e, Known(e)) PROVE clean
        BY <3>4 DEF Older
      <3> QED
        BY <3>1, <3>2, <3>3, <3>4
    <2>2. ASSUME NEW e \in Encoders, SkipFrame(e) PROVE clean
      BY <2>2, Zenon DEF SkipFrame
    <2>3. ASSUME RestartEncoderd PROVE clean
      BY <2>3, Zenon DEF RestartEncoderd
    <2>4. ASSUME Sound \/ UNCHANGED vars PROVE clean
      BY <2>4 DEF Sound, vars
    <2> QED
      BY <1>1, <2>1, <2>2, <2>3, <2>4 DEF Next
  <1>3. PICK off \in [Nat -> Int] : SteadyLog(off)
    BY <1>2 DEF LoggerdInv, SteadyInv, SteadyLog
  <1> DEFINE Post(o) == (Ready(readyToRotate, segment) /\ \A d \in Encoders : Steady(d, o, segment))'
  <1>4. \E new \in [Nat -> Int] : Post(new)
    <2>1. ASSUME NEW e \in Encoders, Receive(e) PROVE Post(off)
      BY <1>3, <2>1, RotateSteady
    <2>2. ASSUME NEW e \in Encoders, SkipFrame(e) PROVE Post(off)
      BY <1>3, <2>2, SkipSteady
    <2>3. ASSUME RestartEncoderd PROVE \E new \in [Nat -> Int] : Post(new)
      <3>1. -segment \in Int /\ restarts + 1 \in Nat
        BY DEF LoggerdInv, Paced, Inv, TypeOK
      <3>2. \A s \in Int : [off EXCEPT ![restarts + 1] = s] \in [Nat -> Int]
        OBVIOUS
      <3>3. PICK new \in [Nat -> Int] : new = [off EXCEPT ![restarts + 1] = -segment]
        BY <3>1, <3>2
      <3>4. Post(new)
        BY <1>3, <2>3, <3>3, RestartSteady
      <3> HIDE DEF Post
      <3> QED
        BY <3>4
    <2>4. ASSUME Sound PROVE Post(off)
      BY <1>3, <2>4, SoundSteady
    <2>5. ASSUME UNCHANGED vars PROVE Post(off)
      BY <1>3, <2>5, StutterSteady
    <2> HIDE DEF Post
    <2> QED
      BY <1>1, <1>3, <2>1, <2>2, <2>3, <2>4, <2>5 DEF Next
  <1> QED
    BY <1>4

(* In every reachable state that is not one of the exceptions, an offset for each run of   *)
(* encoderd says into which segment of the log the packets of that run belong, and the     *)
(* state of each encoder in handle_encoder_msg fits it.                                    *)
THEOREM LoggerdInvariant == Spec => []LoggerdInv
  <1>1. Init => LoggerdInv
    BY InitPaced, InitSteady DEF LoggerdInv
  <1>2. LoggerdInv /\ [Next]_vars => LoggerdInv'
    BY NextPaced, NextSteady DEF LoggerdInv
  <1> QED
    BY <1>1, <1>2, PTL DEF Spec

(* Whatever the lengths of segments and queues and however many encoders: what the cameras *)
(* recorded in one segment of encoderd is in one segment of the log, although each encoder *)
(* rolls over by itself and handle_encoder_msg sees their packets in any order.            *)
THEOREM LoggerdOneSegment == Spec => []OneSegment
  <1>1. LoggerdInv => OneSegment
    <2> SUFFICES ASSUME LoggerdInv, clean, NEW e \in Encoders, NEW d \in Encoders,
                        NEW i \in DOMAIN files[e], NEW j \in DOMAIN files[d],
                        files[e][i].packet.run = files[d][j].packet.run,
                        files[e][i].packet.seg = files[d][j].packet.seg
                 PROVE  files[e][i].at = files[d][j].at
      BY DEF OneSegment
    <2>1. PICK off \in [Nat -> Int] : \A c \in Encoders : Steady(c, off, segment)
      BY DEF LoggerdInv, SteadyInv
    <2>2. PlacedFiles(e, off) /\ PlacedFiles(d, off)
      BY <2>1 DEF Steady
    <2> QED
      BY <2>2 DEF PlacedFiles
  <1> QED
    BY <1>1, LoggerdInvariant, PTL

(* Of the packets of an encoder since the first that was written, the log and the queue    *)
(* lack at most one for each restart of encoderd: the one that handle_encoder_msg drops to *)
(* learn of the restart.  The queue of an encoder that is ahead is never full: it is as    *)
(* long as its lead, which Skew and MaxFaults bound.                                       *)
THEOREM LoggerdNothingLost == Spec => []NothingLost
  <1>1. LoggerdInv => NothingLost
    <2> DEFINE kept(e) == {f.packet.n : f \in Range(files[e])} \cup {m.n : m \in Range(re[e].q)}
    <2> SUFFICES ASSUME LoggerdInv, clean, NEW e \in Encoders, files[e] # <<>>
                 PROVE  Cardinality((files[e][1].packet.n .. sent[e] - 1) \ kept(e)) <= restarts
      BY DEF NothingLost
    <2>1. PICK off \in [Nat -> Int] : SteadyLog(off)
      BY DEF LoggerdInv, SteadyInv, SteadyLog
    <2>2. /\ restarts \in Nat /\ sent[e] \in Nat /\ off[restarts] \in Int
          /\ files[e] \in Seq(Entries) /\ FewMissing(e, off[restarts])
      BY <2>1, SteadyFacts
    <2>3. kept(e) = Numbers(e)
      BY DEF Numbers, Range
    <2> HIDE DEF kept
    <2>4. Numbers(e) \in SUBSET Nat
      BY <2>1, NumbersType
    <2> DEFINE k == IF re[e].seen /\ re[e].offset > off[restarts] THEN restarts - 1 ELSE restarts
    <2>5. k \in Int /\ k <= restarts
      BY <2>2
    <2>6. AtMostMissing(Numbers(e), sent[e], k)
      BY <2>2 DEF FewMissing
    <2> HIDE DEF k
    <2>7. AtMostMissing(Numbers(e), sent[e], restarts)
      BY <2>2, <2>4, <2>5, <2>6, MissingNoMore
    <2>8. files[e][1].packet.n \in Numbers(e)
      BY <2>2 DEF Numbers
    <2> QED
      BY <2>3, <2>7, <2>8 DEF AtMostMissing
  <1> QED
    BY <1>1, LoggerdInvariant, PTL
=============================================================================
