------------------------------ MODULE Loggerd ------------------------------
(***************************************************************************)
(* Rotation of the log: loggerd (loggerd.cc, logger.cc) cuts the drive     *)
(* into segments, and puts the video of every camera into the segment in   *)
(* which encoderd (encoderd.cc) encoded it.  Each encoder rolls over by    *)
(* itself, after SegFrames frames; loggerd rotates once all have, and      *)
(* keeps the packets of those that are ahead in a queue.                   *)
(*                                                                         *)
(* encoderd may have started before loggerd, may skip frames and may be    *)
(* restarted; when no camera is seen, or a segment gets too long, loggerd  *)
(* rotates without the encoders.                                           *)
(***************************************************************************)
EXTENDS Integers, FiniteSets, SequencesExt

CONSTANTS
  Encoders,
  Recorded,     \* record: of the others the log has the frames' indices only
  WithAudio,    \* include_audio: its video waits for the first sound of the segment
  SegFrames,    \* SEGMENT_LENGTH * MAIN_FPS
  Gop,          \* gop_size
  QueueMax,     \* MAIN_FPS * 10
  Skew,         \* bound: frames by which one encoder may be ahead of another
  LateStart,    \* bound: frames encoded before loggerd starts
  Frames,       \* bound: packets of one encoder
  MaxFaults     \* bound: skipped frames, restarts of encoderd, rotations without encoders

ASSUME LoggerdAssumption ==
  /\ IsFiniteSet(Encoders) /\ WithAudio \subseteq Recorded /\ Recorded \subseteq Encoders
  /\ {SegFrames, Gop} \subseteq Nat \ {0} /\ {QueueMax, Skew, LateStart, Frames, MaxFaults} \subseteq Nat
  /\ Skew + MaxFaults <= QueueMax /\ Skew + MaxFaults + 1 < SegFrames

VARIABLES
  frame, curSeg,     \* encoderd: the next frame of each encoder and the segment it is in
  sent,              \* packets of each encoder so far
  segment,           \* LoggerState.part
  readyToRotate,     \* ready_to_rotate
  re,                \* RemoteEncoder of each encoder
  files,             \* what was written of each encoder: packets, and the segment at that time
  faults, restarts,
  clean              \* no code: nothing happened for which the properties make an exception

vars     == <<frame, curSeg, sent, segment, readyToRotate, re, files, faults, restarts, clean>>
encoderd == <<frame, curSeg, sent>>

(* encoderd is in its first segment or later when loggerd starts. *)
Init ==
  /\ \E first \in 0..LateStart : frame \in [Encoders -> first .. first + Skew]
  /\ curSeg = [e \in Encoders |-> frame[e] \div SegFrames]
  /\ sent = [e \in Encoders |-> 0]
  /\ segment = 0 /\ readyToRotate = 0
  /\ re = [e \in Encoders |-> [seen |-> FALSE, offset |-> 0, current |-> -1, q |-> <<>>,
                               recording |-> FALSE, marked |-> FALSE, audio |-> FALSE]]
  /\ files = [e \in Encoders |-> <<>>]
  /\ faults = 0 /\ restarts = 0
  /\ clean = (\A e, d \in Encoders : curSeg[e] = curSeg[d])

Fault == faults < MaxFaults /\ faults' = faults + 1

InStep(e) == \A d \in Encoders : frame[e] <= frame[d] + Skew

-----------------------------------------------------------------------------
(* encoderd: the frames of a camera, in order *)

RollsOver(e) == frame[e] >= (curSeg[e] + 1) * SegFrames
SegmentNum(e) == IF RollsOver(e) THEN curSeg[e] + 1 ELSE curSeg[e]

Packet(e) ==
  [n   |-> sent[e], run |-> restarts, seg |-> SegmentNum(e),
   key |-> RollsOver(e) \/ (frame[e] % SegFrames) % Gop = 0]

Encode(e) ==
  /\ sent[e] < Frames /\ InStep(e)
  /\ frame' = [frame EXCEPT ![e] = @ + 1]
  /\ curSeg' = [curSeg EXCEPT ![e] = SegmentNum(e)]
  /\ sent' = [sent EXCEPT ![e] = @ + 1]

(* encoder_thread detects that the camera overwrote the buffer *)
SkipFrame(e) ==
  /\ Fault /\ sent[e] < Frames /\ InStep(e)
  /\ frame' = [frame EXCEPT ![e] = @ + 1]
  /\ clean' = (clean /\ re[e].seen)
  /\ UNCHANGED <<curSeg, sent, segment, readyToRotate, re, files, restarts>>

(* The exceptions are a restart while the encoders roll over, and before loggerd knows them. *)
RestartEncoderd ==
  /\ Fault /\ restarts' = restarts + 1
  /\ frame' = [e \in Encoders |-> 0] /\ curSeg' = frame'
  /\ clean' = (clean /\ \A e \in Encoders :
                 re[e].seen /\ re[e].current = segment /\ ~re[e].marked /\ ~RollsOver(e))
  /\ UNCHANGED <<sent, segment, readyToRotate, re, files>>

-----------------------------------------------------------------------------
(* loggerd *)

(* write_encode_data: a file begins with a key frame. *)
Written(recording, msgs) ==
  LET firstKey == {i \in DOMAIN msgs : msgs[i].key /\ \A j \in 1 .. i - 1 : ~msgs[j].key} IN
  IF recording THEN msgs
  ELSE IF firstKey = {} THEN <<>> ELSE SubSeq(msgs, CHOOSE i \in firstKey : TRUE, Len(msgs))

Write(e, r, msgs) ==
  LET out == Written(r.recording, msgs) IN
  /\ files' = [files EXCEPT ![e] = @ \o [i \in DOMAIN out |-> [packet |-> out[i], at |-> segment]]]
  /\ re' = [re EXCEPT ![e] = [r EXCEPT !.q = <<>>, !.recording = @ \/ out # <<>>]]

(* A queue that is full drops the packet. *)
Push(e, r, m) ==
  /\ re' = [re EXCEPT ![e] = [r EXCEPT !.q = IF Len(@) > QueueMax THEN @ ELSE Append(@, m)]]
  /\ UNCHANGED files

EnterSlip(e, r) ==                                         \* the mark of the last segment stays
  IF r.current = segment THEN r
  ELSE [r EXCEPT !.current = segment, !.recording = FALSE, !.audio = FALSE]

(* What is not recorded goes on as it was, and waits for no key frame after the first. *)
Enter(e, r) ==
  IF r.current = segment THEN r
  ELSE [r EXCEPT !.current = segment, !.marked = FALSE,
                 !.recording = @ /\ e \notin Recorded, !.audio = @ /\ e \notin Recorded]

(* This packet, and before it the ones that waited for the segment or for sound *)
QueuedAndSlip(r, m) == <<m>> \o r.q                        \* the new packet first
QueuedAnd(r, m) == Append(r.q, m)

(* The exceptions are sound that comes too late for the queue, or for the segment. *)
InSegment(e, r, m) ==
  LET in == Enter(e, r) IN
  /\ IF in.audio \/ e \notin WithAudio THEN Write(e, in, QueuedAnd(in, m)) ELSE Push(e, in, m)
  /\ clean' = (clean /\ (e \in WithAudio /\ ~in.audio => Len(in.q) <= QueueMax))

(* A newer segment: encoderd has rolled over. *)
Ahead(e, r, m) ==
  /\ Push(e, [r EXCEPT !.marked = TRUE], m)
  /\ clean' = (clean /\ (r.marked \/ r.q = <<>>))

(* "this can happen if you restart encoderd": its segments are counted from this one on, and *)
(* the packet is dropped.                                                                     *)
OlderSlip(e, r) ==                                         \* as for the first packet of all
  /\ re' = [re EXCEPT ![e] = [r EXCEPT !.offset = 0]]
  /\ UNCHANGED <<files, clean>>

Older(e, r) ==
  /\ re' = [re EXCEPT ![e] = [r EXCEPT !.offset = -segment]]
  /\ UNCHANGED <<files, clean>>

(* rotate_if_needed, with the marks that this packet set *)
AllReadySlip(ready) == ready > 0                           \* one encoder is enough
AllReady(ready) == ready = Cardinality(Encoders)

Rotate(ready) ==
  IF AllReady(ready)
  THEN segment' = segment + 1 /\ readyToRotate' = 0
  ELSE UNCHANGED segment /\ readyToRotate' = ready

(* handle_encoder_msg *)
Receive(e) ==
  LET m  == Packet(e)
      r  == [re[e] EXCEPT !.seen = TRUE, !.offset = IF re[e].seen THEN @ ELSE m.seg]
      at == m.seg - r.offset
  IN  /\ Encode(e)
      /\ \/ at = segment /\ InSegment(e, r, m)
         \/ at > segment /\ Ahead(e, r, m)
         \/ at < segment /\ Older(e, r)
      /\ Rotate(IF at > segment /\ ~r.marked THEN readyToRotate + 1 ELSE readyToRotate)
      /\ UNCHANGED <<faults, restarts>>

(* write_audio goes to the file that is open. *)
Sound ==
  /\ \E e \in WithAudio : re[e].current >= 0 /\ ~re[e].audio
  /\ re' = [e \in Encoders |-> IF e \in WithAudio /\ re[e].current >= 0
                               THEN [re[e] EXCEPT !.audio = TRUE] ELSE re[e]]
  /\ UNCHANGED <<encoderd, segment, readyToRotate, files, faults, restarts, clean>>

(* timed_out *)
RotateTimedOut ==
  /\ Fault
  /\ segment' = segment + 1 /\ readyToRotate' = 0
  /\ clean' = FALSE
  /\ UNCHANGED <<encoderd, re, files, restarts>>

Next ==
  \/ \E e \in Encoders : Receive(e) \/ SkipFrame(e)
  \/ RestartEncoderd
  \/ Sound \/ RotateTimedOut

Spec ==
  /\ Init /\ [][Next]_vars
  /\ \A e \in Encoders : WF_vars(Receive(e))
  /\ WF_vars(Sound)
=============================================================================
