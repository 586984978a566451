--------------------------- MODULE LoggerdProps ---------------------------
(* What the log promises to whoever reads it. *)
EXTENDS Loggerd

(* The packets of an encoder are written in the order in which they were encoded, each  *)
(* once, whatever is queued, dropped, rotated or restarted; and segments do not go back. *)
FramesInOrder ==
  \A e \in Encoders : \A i, j \in DOMAIN files[e] :
    i < j => /\ files[e][i].packet.n < files[e][j].packet.n
             /\ files[e][i].at <= files[e][j].at

(* What the cameras recorded in one segment of encoderd is in one segment of the log.  *)
OneSegment ==
  clean => \A e, d \in Encoders : \A i \in DOMAIN files[e], j \in DOMAIN files[d] :
             LET p == files[e][i].packet  o == files[d][j].packet
             IN  p.run = o.run /\ p.seg = o.seg => files[e][i].at = files[d][j].at

(* Every packet since the first that was written is written or queued, but for the one *)
(* of each encoder from which loggerd learns that encoderd was restarted.              *)
NothingLost ==
  clean => \A e \in Encoders : files[e] # <<>> =>
             LET kept == {f.packet.n : f \in Range(files[e])} \cup {m.n : m \in Range(re[e].q)}
             IN  Cardinality((files[e][1].packet.n .. sent[e] - 1) \ kept) <= restarts

(* What is queued gets written, unless it came just before the end: the log always      *)
(* rotates after the encoders.                                                          *)
QueueIsWritten ==
  LET Ended(e) == /\ \A d \in Encoders : sent[d] = Frames
                  /\ Head(re[e].q).n >= Frames - (QueueMax + 1)
  IN  \A e \in Encoders : clean /\ re[e].q # <<>> ~> re[e].q = <<>> \/ ~clean \/ Ended(e)
=============================================================================
