---------------------------- MODULE OnroadProofs ----------------------------
(* Proofs that the safety properties of OnroadProps hold for every number of trips and *)
(* faults and every car.                                                                *)
EXTENDS OnroadProps, SequenceTheorems, TLAPS

Pcs      == {"boot", "ask", "put", "wait", "query", "identified", "params", "initialize",
             "passive", "drive", "dead"}
CardType == [pc : Pcs, todo : Seq(BOOLEAN), sigint : {"none", "sent", "raised", "swallowed"}, queued : BOOLEAN]

SafetyModes == [mode : {"noOutput", "elm327", "elm327 obd", "car"}, card : Nat]

VarsOK ==
  /\ ignition \in BOOLEAN /\ started \in BOOLEAN /\ seen \in BOOLEAN
  /\ manager \in {"update", "clear", "write", "ensure", "join"}
  /\ proc \in Nat /\ shuttingDown \in BOOLEAN
  /\ isOnroad \in BOOLEAN /\ fwDone \in BOOLEAN /\ controlsReady \in BOOLEAN
  /\ carParams \in Nat /\ obdEnabled \in BOOLEAN /\ obdChanged \in BOOLEAN
  /\ pandad \in {"sample", "request", "answer", "fw", "ready", "set"}
  /\ initialized \in BOOLEAN /\ configured \in BOOLEAN /\ prevObd \in BOOLEAN
  /\ clean \in BOOLEAN
CardsOK == cards \in Seq(CardType)
PandaOK == panda \in SafetyModes
TypeOK  == VarsOK /\ CardsOK /\ PandaOK

(* The process table knows the last card as long as it lives. *)
TableInv ==
  /\ \A g \in DOMAIN cards : Alive(g) => g = proc
  /\ proc # 0 => proc = Len(cards)
  /\ shuttingDown => proc # 0
  /\ manager = "join" => proc # 0

(* Who is where in a drive: IsOnroad follows seen, card is there once the manager's round is over. *)
RoundInv ==
  /\ isOnroad => seen \/ manager = "write"
  /\ seen /\ manager \notin {"clear", "write"} => isOnroad
  /\ manager = "clear" => seen /\ ~isOnroad
  /\ manager \in {"clear", "write"} /\ seen => proc = 0 \/ shuttingDown
  /\ manager = "update" /\ ~seen => proc = 0 \/ shuttingDown
  /\ manager = "update" /\ seen => proc # 0 /\ ~shuttingDown
  /\ manager = "join" /\ seen => shuttingDown

(* What a card's place says about the rest of it. *)
CardInv ==
  \A g \in DOMAIN cards :
    /\ cards[g].queued => cards[g].pc \in {"drive", "dead"}
    /\ cards[g].pc \in {"ask", "put", "wait", "query"} => cards[g].todo # <<>>

(* The manager has cleared the parameters of this drive and not yet started its card. *)
Cleared == seen /\ manager # "clear" /\ (proc = 0 \/ shuttingDown)

DriveInv ==
  /\ controlsReady => cards # <<>> /\ cards[Len(cards)].pc \in {"drive", "dead"}
  /\ carParams # 0 => carParams = Len(cards)
  /\ pandad = "set" => controlsReady
  /\ panda.mode = "car" => panda.card = Len(cards) /\ cards # <<>>
                           /\ cards[Len(cards)].pc \in {"drive", "dead"}

(* Nothing that the last drive left behind is there when a card starts. *)
ClearedInv ==
  Cleared =>
    /\ ~controlsReady /\ carParams = 0 /\ ~obdEnabled
    /\ panda.mode \in {"noOutput", "elm327"} /\ pandad # "answer" /\ pandad # "set"
    /\ ~(initialized /\ prevObd)
    /\ \A g \in DOMAIN cards : Alive(g) => cards[g].sigint = "raised" /\ ~cards[g].queued

(* pandad and card on the OBD multiplexing: the panda's mode, what pandad knows, and whether *)
(* its answer is about this request.                                                          *)
Synced == (panda.mode = "elm327 obd") <=> obdEnabled
Known  == obdEnabled <=> (initialized /\ prevObd)
InDrive == manager # "clear" /\ (seen \/ isOnroad)
AtRest  == Synced /\ Known /\ pandad # "answer"

HandshakeInv ==
  InDrive => \A g \in DOMAIN cards : cards[g].sigint = "none" =>
    /\ cards[g].pc = "boot"  => AtRest /\ ~obdEnabled
    /\ cards[g].pc = "ask"   => AtRest
    /\ cards[g].pc = "put"   => AtRest /\ ~obdChanged /\ obdEnabled # Head(cards[g].todo)
    /\ cards[g].pc = "query" => AtRest /\ obdEnabled = Head(cards[g].todo)
    /\ cards[g].pc = "wait"  =>
         /\ obdEnabled = Head(cards[g].todo)
         /\ obdChanged => AtRest
         /\ ~obdChanged => IF pandad = "answer" THEN Synced /\ Known ELSE ~Known

CleanInv == clean => DriveInv /\ ClearedInv /\ HandshakeInv

IInv == TypeOK /\ TableInv /\ RoundInv /\ CardInv /\ CleanInv

-----------------------------------------------------------------------------
(* What an action does to the cards: one changes, or one is added. *)
CardTo(g, c) ==
  /\ g \in DOMAIN cards /\ c \in CardType
  /\ DOMAIN cards' = DOMAIN cards /\ Len(cards') = Len(cards)
  /\ cards'[g] = c
  /\ \A h \in DOMAIN cards : h # g => cards'[h] = cards[h]
  /\ cards' \in Seq(CardType)

(* A card that is replaced in the sequence is the only one that changes. *)
LEMMA Replaced ==
  ASSUME CardsOK, NEW g \in DOMAIN cards, NEW c \in CardType,
         cards' = [cards EXCEPT ![g] = c]
  PROVE  CardTo(g, c)
  <1>1. cards \in Seq(CardType) /\ g \in 1..Len(cards)
    BY DEF CardsOK
  <1> QED
    BY <1>1, ExceptSeq DEF CardTo

NewCard == [pc |-> "boot", todo |-> <<>>, sigint |-> "none", queued |-> FALSE]

(* A card that is started comes last. *)
LEMMA Started ==
  ASSUME CardsOK, cards' = Append(cards, NewCard)
  PROVE  /\ cards' \in Seq(CardType) /\ Len(cards') = Len(cards) + 1
         /\ DOMAIN cards' = DOMAIN cards \cup {Len(cards) + 1}
         /\ cards'[Len(cards) + 1] = NewCard
         /\ \A h \in DOMAIN cards : cards'[h] = cards[h] /\ h # Len(cards) + 1
  <1>1. NewCard \in CardType
    BY DEF NewCard, CardType, Pcs
  <1>2. cards \in Seq(CardType)
    BY DEF CardsOK
  <1> QED
    BY <1>1, <1>2

After(s) == IF s = "sent" THEN "raised" ELSE s

(* The steps of a card: where it may be, and what becomes of it. *)
LEMMA Moves ==
  ASSUME CardsOK, NEW g, NEW pc, NEW to \in Pcs, Runs(g, pc), Becomes(g, to)
  PROVE  CardTo(g, [cards[g] EXCEPT !.pc = to, !.sigint = After(@)])
  <1>1. g \in DOMAIN cards /\ cards[g] \in CardType
    BY DEF Runs, CardsOK
  <1>2. [cards[g] EXCEPT !.pc = to, !.sigint = After(@)] \in CardType
    BY <1>1 DEF CardType, After
  <1>3. cards' = [cards EXCEPT ![g] = [cards[g] EXCEPT !.pc = to, !.sigint = After(@)]]
    BY <1>1 DEF Becomes, After, CardsOK, CardType
  <1> QED
    BY <1>1, <1>2, <1>3, Replaced

-----------------------------------------------------------------------------
USE DEF hardware, table, params, pandaSafety, ghosts

(* Ignition and hardwared change nothing that the invariant is about. *)
LEMMA TurnKeyKeeps == ASSUME IInv, TurnKey PROVE IInv'
  <1>0. VarsOK /\ CardsOK /\ PandaOK /\ TableInv /\ RoundInv /\ CardInv /\ CleanInv
    BY DEF IInv, TypeOK
  <1>a. cards' = cards
    BY DEF TurnKey
  <1>1. VarsOK' /\ PandaOK'
    BY <1>0 DEF VarsOK, PandaOK, TurnKey
  <1>2. CardsOK' /\ CardInv'
    BY <1>0, <1>a DEF CardsOK, CardInv
  <1>3. TableInv' /\ RoundInv'
    BY <1>0, <1>a DEF VarsOK, TableInv, RoundInv, Alive, TurnKey
  <1>4. clean' => DriveInv'
    BY <1>0, <1>a DEF VarsOK, CleanInv, DriveInv, TurnKey
  <1>5. clean' => ClearedInv'
    BY <1>0, <1>a DEF VarsOK, CleanInv, ClearedInv, Cleared, DriveInv, TableInv, RoundInv, Alive, TurnKey
  <1>6. clean' => HandshakeInv'
    BY <1>0, <1>a DEF VarsOK, CleanInv, HandshakeInv, InDrive, AtRest, Synced, Known, TurnKey
  <1> QED
    BY <1>1, <1>2, <1>3, <1>4, <1>5, <1>6 DEF IInv, TypeOK, CleanInv

(* So does deviceState. *)
LEMMA HardwaredKeeps == ASSUME IInv, Hardwared PROVE IInv'
  <1>0. VarsOK /\ CardsOK /\ PandaOK /\ TableInv /\ RoundInv /\ CardInv /\ CleanInv
    BY DEF IInv, TypeOK
  <1>a. cards' = cards
    BY DEF Hardwared
  <1>1. VarsOK' /\ PandaOK'
    BY <1>0 DEF VarsOK, PandaOK, Hardwared
  <1>2. CardsOK' /\ CardInv'
    BY <1>0, <1>a DEF CardsOK, CardInv
  <1>3. TableInv' /\ RoundInv'
    BY <1>0, <1>a DEF VarsOK, TableInv, RoundInv, Alive, Hardwared
  <1>4. clean' => DriveInv'
    BY <1>0, <1>a DEF VarsOK, CleanInv, DriveInv, Hardwared
  <1>5. clean' => ClearedInv'
    BY <1>0, <1>a DEF VarsOK, CleanInv, ClearedInv, Cleared, DriveInv, TableInv, RoundInv, Alive, Hardwared
  <1>6. clean' => HandshakeInv'
    BY <1>0, <1>a DEF VarsOK, CleanInv, HandshakeInv, InDrive, AtRest, Synced, Known, Hardwared
  <1> QED
    BY <1>1, <1>2, <1>3, <1>4, <1>5, <1>6 DEF IInv, TypeOK, CleanInv

(* A round begins; nothing is cleared yet when a drive begins. *)
LEMMA UpdateKeeps == ASSUME IInv, Update PROVE IInv'
  <1>0. VarsOK /\ CardsOK /\ PandaOK /\ TableInv /\ RoundInv /\ CardInv /\ CleanInv
    BY DEF IInv, TypeOK
  <1>a. cards' = cards
    BY DEF Update
  <1>1. VarsOK' /\ PandaOK'
    BY <1>0 DEF VarsOK, PandaOK, Update
  <1>2. CardsOK' /\ CardInv'
    BY <1>0, <1>a DEF CardsOK, CardInv
  <1>3. TableInv' /\ RoundInv'
    BY <1>0, <1>a DEF VarsOK, TableInv, RoundInv, Alive, Update
  <1>4. clean' => DriveInv'
    BY <1>0, <1>a DEF VarsOK, CleanInv, DriveInv, Update
  <1>5. clean' => ClearedInv'
    BY <1>0, <1>a DEF VarsOK, CleanInv, ClearedInv, Cleared, DriveInv, TableInv, RoundInv, Alive, Update
  <1>6. clean' => HandshakeInv'
    BY <1>0, <1>a DEF VarsOK, CleanInv, HandshakeInv, InDrive, AtRest, Synced, Known, Update
  <1> QED
    BY <1>1, <1>2, <1>3, <1>4, <1>5, <1>6 DEF IInv, TypeOK, CleanInv

(* What is cleared is gone if the last drive is settled. *)
LEMMA ClearAllKeeps == ASSUME IInv, ClearAll PROVE IInv'
  <1>0. VarsOK /\ CardsOK /\ PandaOK /\ TableInv /\ RoundInv /\ CardInv /\ CleanInv
    BY DEF IInv, TypeOK
  <1>a. cards' = cards
    BY DEF ClearAll
  <1>1. VarsOK' /\ PandaOK'
    <2>1. clean' \in BOOLEAN
      BY DEF ClearAll, Settled
    <2>2. VarsOK'
      BY <1>0, <2>1 DEF VarsOK, ClearAll
    <2> QED
      BY <1>0, <2>2 DEF PandaOK, ClearAll
  <1>2. CardsOK' /\ CardInv'
    BY <1>0, <1>a DEF CardsOK, CardInv
  <1>3. TableInv' /\ RoundInv'
    BY <1>0, <1>a DEF VarsOK, TableInv, RoundInv, Alive, ClearAll
  <1>c. clean' => Settled
    BY DEF ClearAll
  <1>4. clean' => /\ pandad = "sample" /\ ~initialized /\ panda.mode = "noOutput"
                  /\ \A g \in DOMAIN cards : Alive(g) => cards[g].sigint = "raised" /\ ~cards[g].queued
    BY <1>c DEF Settled, Mode
  <1>b. clean' => DriveInv'
    BY <1>4 DEF DriveInv, ClearAll
  <1>5. clean' => ClearedInv'
    BY <1>a, <1>4 DEF ClearedInv, ClearAll, Alive
  <1>6. clean' => HandshakeInv'
    <2> SUFFICES ASSUME clean', NEW g \in DOMAIN cards', (cards[g].sigint = "none")'
                 PROVE  (cards[g].pc = "dead")'
      BY DEF HandshakeInv
    <2> QED
      BY <1>a, <1>4 DEF Alive
  <1> QED
    BY <1>1, <1>2, <1>3, <1>4, <1>b, <1>5, <1>6 DEF IInv, TypeOK, CleanInv

(* IsOnroad follows what the manager saw. *)
LEMMA WriteOnroadParamsKeeps == ASSUME IInv, WriteOnroadParams PROVE IInv'
  <1>0. VarsOK /\ CardsOK /\ PandaOK /\ TableInv /\ RoundInv /\ CardInv /\ CleanInv
    BY DEF IInv, TypeOK
  <1>a. cards' = cards
    BY DEF WriteOnroadParams
  <1>1. VarsOK' /\ PandaOK'
    BY <1>0 DEF VarsOK, PandaOK, WriteOnroadParams
  <1>2. CardsOK' /\ CardInv'
    BY <1>0, <1>a DEF CardsOK, CardInv
  <1>3. TableInv' /\ RoundInv'
    BY <1>0, <1>a DEF VarsOK, TableInv, RoundInv, Alive, WriteOnroadParams
  <1>4. clean' => DriveInv'
    BY <1>0, <1>a DEF VarsOK, CleanInv, DriveInv, WriteOnroadParams
  <1>5. clean' => ClearedInv'
    BY <1>0, <1>a DEF VarsOK, CleanInv, ClearedInv, Cleared, DriveInv, TableInv, RoundInv, Alive, WriteOnroadParams
  <1>6. clean' => HandshakeInv'
    BY <1>0, <1>a DEF VarsOK, CleanInv, HandshakeInv, InDrive, AtRest, Synced, Known, WriteOnroadParams
  <1> QED
    BY <1>1, <1>2, <1>3, <1>4, <1>5, <1>6 DEF IInv, TypeOK, CleanInv

(* A card that is joined is dead. *)
LEMMA JoinKeeps == ASSUME IInv, Join PROVE IInv'
  <1>0. VarsOK /\ CardsOK /\ PandaOK /\ TableInv /\ RoundInv /\ CardInv /\ CleanInv
    BY DEF IInv, TypeOK
  <1>a. cards' = cards
    BY DEF Join
  <1>1. VarsOK' /\ PandaOK'
    <2>1. manager' = "ensure" /\ proc' \in Nat /\ shuttingDown' \in BOOLEAN
      BY DEF Join
    <2>3. UNCHANGED <<ignition, started, seen, isOnroad, fwDone, controlsReady, carParams, obdEnabled,
                      obdChanged, pandad, initialized, configured, prevObd, clean>>
      BY DEF Join
    <2>2. VarsOK'
      BY <1>0, <2>1, <2>3 DEF VarsOK
    <2> QED
      BY <1>0, <2>2 DEF PandaOK, Join
  <1>2. CardsOK' /\ CardInv'
    BY <1>0, <1>a DEF CardsOK, CardInv
  <1>3. TableInv' /\ RoundInv'
    BY <1>0, <1>a DEF VarsOK, TableInv, RoundInv, Alive, Join
  <1>4. clean' => DriveInv'
    BY <1>0, <1>a DEF VarsOK, CleanInv, DriveInv, Join
  <1>5. clean' => ClearedInv'
    BY <1>0, <1>a DEF VarsOK, CleanInv, ClearedInv, Cleared, DriveInv, TableInv, RoundInv, Alive, Join
  <1>6. clean' => HandshakeInv'
    BY <1>0, <1>a DEF VarsOK, CleanInv, HandshakeInv, InDrive, AtRest, Synced, Known, Join
  <1> QED
    BY <1>1, <1>2, <1>3, <1>4, <1>5, <1>6 DEF IInv, TypeOK, CleanInv

(* pandad starts over when it is offroad; a drive without ignition is not clean. *)
LEMMA SampleKeeps == ASSUME IInv, Sample PROVE IInv'
  <1>0. VarsOK /\ CardsOK /\ PandaOK /\ TableInv /\ RoundInv /\ CardInv /\ CleanInv
    BY DEF IInv, TypeOK
  <1>a. cards' = cards
    BY DEF Sample
  <1>1. VarsOK' /\ PandaOK'
    <2>1. clean' \in BOOLEAN /\ initialized' \in BOOLEAN /\ configured' \in BOOLEAN
          /\ pandad' \in {"request", "sample"}
      BY DEF Sample
    <2>2. VarsOK'
      BY <1>0, <2>1 DEF VarsOK, Sample
    <2>3. PandaOK'
      BY <1>0 DEF PandaOK, SafetyModes, Sample, Mode
    <2> QED
      BY <2>2, <2>3
  <1>2. CardsOK' /\ CardInv'
    BY <1>0, <1>a DEF CardsOK, CardInv
  <1>3. TableInv' /\ RoundInv'
    BY <1>0, <1>a DEF VarsOK, TableInv, RoundInv, Alive, Sample, Mode
  <1>4. clean' => DriveInv'
    BY <1>0, <1>a DEF VarsOK, CleanInv, DriveInv, Sample, Mode
  <1>5. clean' => ClearedInv'
    BY <1>0, <1>a DEF VarsOK, CleanInv, ClearedInv, Cleared, DriveInv, TableInv, RoundInv, Alive, Sample, Mode
  <1>6. clean' => HandshakeInv'
    <2> SUFFICES ASSUME clean', InDrive, NEW g \in DOMAIN cards, cards[g].sigint = "none"
                 PROVE  cards[g].pc = "dead" \/ (UNCHANGED <<panda, initialized>> /\ clean
                                              /\ pandad # "answer" /\ pandad' # "answer")
      BY <1>0, <1>a DEF HandshakeInv, InDrive, Sample, CleanInv, AtRest, Synced, Known
    <2>1. CASE isOnroad
      <3>1. ignition /\ clean /\ panda' = panda /\ initialized' = initialized /\ pandad # "answer"
            /\ pandad' # "answer"
        BY <1>0, <2>1 DEF Sample, VarsOK
      <3> QED
        BY <3>1
    <2>2. CASE ~isOnroad
      <3>1. clean /\ Cleared
        BY <1>0, <2>2 DEF Sample, VarsOK, InDrive, RoundInv, Cleared
      <3>2. cards[g].pc = "dead"
        BY <1>0, <3>1 DEF CleanInv, ClearedInv, Alive
      <3> QED
        BY <2>2, <3>2
    <2> QED
      BY <2>1, <2>2
  <1> QED
    BY <1>1, <1>2, <1>3, <1>4, <1>5, <1>6 DEF IInv, TypeOK, CleanInv

(* The mode set and the answer are about the same request. *)
LEMMA UpdateMultiplexingModeKeeps == ASSUME IInv, UpdateMultiplexingMode PROVE IInv'
  <1>0. VarsOK /\ CardsOK /\ PandaOK /\ TableInv /\ RoundInv /\ CardInv /\ CleanInv
    BY DEF IInv, TypeOK
  <1>a. cards' = cards
    BY DEF UpdateMultiplexingMode
  <1>1. VarsOK' /\ PandaOK'
    <2>1. pandad' \in {"answer", "fw"} /\ prevObd' = obdEnabled /\ initialized' = TRUE
      BY DEF UpdateMultiplexingMode
    <2>2. VarsOK'
      BY <1>0, <2>1 DEF VarsOK, UpdateMultiplexingMode
    <2> QED
      BY <1>0, <2>2 DEF PandaOK, SafetyModes, UpdateMultiplexingMode, Mode, ObdMode
  <1>2. CardsOK' /\ CardInv'
    BY <1>0, <1>a DEF CardsOK, CardInv
  <1>3. TableInv' /\ RoundInv'
    BY <1>0, <1>a DEF VarsOK, TableInv, RoundInv, Alive, UpdateMultiplexingMode, Mode, ObdMode
  <1>4. clean' => DriveInv'
    BY <1>0, <1>a DEF VarsOK, CleanInv, DriveInv, UpdateMultiplexingMode, Mode, ObdMode
  <1>5. clean' => ClearedInv'
    BY <1>0, <1>a DEF VarsOK, CleanInv, ClearedInv, Cleared, DriveInv, TableInv, RoundInv, Alive, UpdateMultiplexingMode, Mode, ObdMode
  <1>6. clean' => HandshakeInv'
    BY <1>0, <1>a DEF VarsOK, CleanInv, HandshakeInv, InDrive, AtRest, Synced, Known, UpdateMultiplexingMode, Mode, ObdMode
  <1> QED
    BY <1>1, <1>2, <1>3, <1>4, <1>5, <1>6 DEF IInv, TypeOK, CleanInv

(* The answer given is the answer to this request. *)
LEMMA AnswerKeeps == ASSUME IInv, Answer PROVE IInv'
  <1>0. VarsOK /\ CardsOK /\ PandaOK /\ TableInv /\ RoundInv /\ CardInv /\ CleanInv
    BY DEF IInv, TypeOK
  <1>a. cards' = cards
    BY DEF Answer
  <1>1. VarsOK' /\ PandaOK'
    BY <1>0 DEF VarsOK, PandaOK, Answer
  <1>2. CardsOK' /\ CardInv'
    BY <1>0, <1>a DEF CardsOK, CardInv
  <1>3. TableInv' /\ RoundInv'
    BY <1>0, <1>a DEF VarsOK, TableInv, RoundInv, Alive, Answer
  <1>4. clean' => DriveInv'
    BY <1>0, <1>a DEF VarsOK, CleanInv, DriveInv, Answer
  <1>5. clean' => ClearedInv'
    BY <1>0, <1>a DEF VarsOK, CleanInv, ClearedInv, Cleared, DriveInv, TableInv, RoundInv, Alive, Answer
  <1>6. clean' => HandshakeInv'
    BY <1>0, <1>a DEF VarsOK, CleanInv, HandshakeInv, InDrive, AtRest, Synced, Known, Answer
  <1> QED
    BY <1>1, <1>2, <1>3, <1>4, <1>5, <1>6 DEF IInv, TypeOK, CleanInv

(* CarParams are fetched when ControlsReady is set. *)
LEMMA FetchCarParamsKeeps == ASSUME IInv, FetchCarParams PROVE IInv'
  <1>0. VarsOK /\ CardsOK /\ PandaOK /\ TableInv /\ RoundInv /\ CardInv /\ CleanInv
    BY DEF IInv, TypeOK
  <1>a. cards' = cards
    BY DEF FetchCarParams
  <1>1. VarsOK' /\ PandaOK'
    BY <1>0 DEF VarsOK, PandaOK, FetchCarParams
  <1>2. CardsOK' /\ CardInv'
    BY <1>0, <1>a DEF CardsOK, CardInv
  <1>3. TableInv' /\ RoundInv'
    BY <1>0, <1>a DEF VarsOK, TableInv, RoundInv, Alive, FetchCarParams
  <1>4. clean' => DriveInv'
    BY <1>0, <1>a DEF VarsOK, CleanInv, DriveInv, FetchCarParams
  <1>5. clean' => ClearedInv'
    BY <1>0, <1>a DEF VarsOK, CleanInv, ClearedInv, Cleared, DriveInv, TableInv, RoundInv, Alive, FetchCarParams
  <1>6. clean' => HandshakeInv'
    BY <1>0, <1>a DEF VarsOK, CleanInv, HandshakeInv, InDrive, AtRest, Synced, Known, FetchCarParams
  <1> QED
    BY <1>1, <1>2, <1>3, <1>4, <1>5, <1>6 DEF IInv, TypeOK, CleanInv

(* The safety mode set is that of the card of this drive. *)
LEMMA SetSafetyModeKeeps == ASSUME IInv, SetSafetyMode PROVE IInv'
  <1>0. VarsOK /\ CardsOK /\ PandaOK /\ TableInv /\ RoundInv /\ CardInv /\ CleanInv
    BY DEF IInv, TypeOK
  <1>a. cards' = cards
    BY DEF SetSafetyMode
  <1>1. VarsOK' /\ PandaOK'
    <2>1. CASE carParams = 0
      <3>2. pandad' = "sample" /\ initialized' \in BOOLEAN /\ configured' \in BOOLEAN /\ prevObd' \in BOOLEAN
            /\ UNCHANGED <<hardware, table, params, clean>>
        BY <2>1 DEF SetSafetyMode, PandadStarts
      <3>1. VarsOK'
        BY <1>0, <3>2 DEF VarsOK
      <3> QED
        BY <1>0, <2>1, <3>1 DEF PandaOK, SetSafetyMode
    <2>2. CASE carParams # 0
      <3>1. panda' = [mode |-> "car", card |-> carParams] /\ configured' = TRUE /\ pandad' = "sample"
        BY <2>2 DEF SetSafetyMode
      <3>2. VarsOK'
        BY <1>0, <2>2, <3>1 DEF VarsOK, SetSafetyMode
      <3> QED
        BY <1>0, <3>1, <3>2 DEF VarsOK, PandaOK, SafetyModes
    <2> QED
      BY <2>1, <2>2
  <1>2. CardsOK' /\ CardInv'
    BY <1>0, <1>a DEF CardsOK, CardInv
  <1>3. TableInv' /\ RoundInv'
    BY <1>0, <1>a DEF VarsOK, TableInv, RoundInv, Alive, SetSafetyMode, PandadStarts
  <1>4. clean' => DriveInv'
    BY <1>0, <1>a DEF VarsOK, CleanInv, DriveInv, SetSafetyMode, PandadStarts
  <1>5. clean' => ClearedInv'
    BY <1>0, <1>a DEF VarsOK, CleanInv, ClearedInv, Cleared, DriveInv, TableInv, RoundInv, Alive, SetSafetyMode, PandadStarts
  <1>6. clean' => HandshakeInv'
    <2> SUFFICES ASSUME clean', NEW g \in DOMAIN cards, cards[g].sigint = "none"
                 PROVE  cards[g].pc \in {"drive", "dead"}
      BY <1>a DEF HandshakeInv
    <2>1. cards # <<>> /\ cards[Len(cards)].pc \in {"drive", "dead"}
      BY <1>0 DEF CleanInv, DriveInv, SetSafetyMode
    <2>2. Alive(g) => g = Len(cards)
      BY <1>0 DEF TableInv, CardsOK
    <2> QED
      BY <2>1, <2>2 DEF Alive
  <1> QED
    BY <1>1, <1>2, <1>3, <1>4, <1>5, <1>6 DEF IInv, TypeOK, CleanInv

(* A restart of pandad is clean only before the first request or after the last. *)
LEMMA RestartPandadKeeps == ASSUME IInv, RestartPandad PROVE IInv'
  <1>0. VarsOK /\ CardsOK /\ PandaOK /\ TableInv /\ RoundInv /\ CardInv /\ CleanInv
    BY DEF IInv, TypeOK
  <1>a. cards' = cards
    BY DEF RestartPandad
  <1>1. VarsOK' /\ PandaOK'
    <2>1. clean' \in BOOLEAN
      BY DEF RestartPandad
    <2>2. VarsOK'
      BY <1>0, <2>1 DEF VarsOK, RestartPandad, PandadStarts
    <2>3. PandaOK'
      <3>1. Mode("noOutput") \in SafetyModes
        BY DEF Mode, SafetyModes
      <3> QED
        BY <1>0, <3>1 DEF PandaOK, RestartPandad
    <2> QED
      BY <2>2, <2>3
  <1>2. CardsOK' /\ CardInv'
    BY <1>0, <1>a DEF CardsOK, CardInv
  <1>3. TableInv' /\ RoundInv'
    BY <1>0, <1>a DEF VarsOK, TableInv, RoundInv, Alive, RestartPandad, PandadStarts, Mode
  <1>4. clean' => DriveInv'
    BY <1>0, <1>a DEF VarsOK, CleanInv, DriveInv, RestartPandad, PandadStarts, Mode
  <1>5. clean' => ClearedInv'
    BY <1>0, <1>a DEF VarsOK, CleanInv, ClearedInv, Cleared, DriveInv, TableInv, RoundInv, Alive, RestartPandad, PandadStarts, Mode
  <1>6. clean' => HandshakeInv'
    <2> SUFFICES ASSUME clean', InDrive, NEW g \in DOMAIN cards, cards[g].sigint = "none"
                 PROVE  LET pc == cards[g].pc IN
                        /\ pc = "boot" => AtRest' /\ ~obdEnabled'
                        /\ pc \notin {"ask", "put", "query", "wait"}
      BY <1>a DEF HandshakeInv, InDrive, RestartPandad
    <2>1. cards[g].pc \notin {"ask", "put", "query", "wait"}
      BY <1>0 DEF RestartPandad, CardInv, Alive
    <2>2. clean /\ pandad' = "sample" /\ ~initialized' /\ obdEnabled' = obdEnabled
      BY <1>0 DEF RestartPandad, PandadStarts, VarsOK
    <2>4. panda'.mode \in {panda.mode, "noOutput"}
      BY DEF RestartPandad, Mode
    <2>3. ASSUME cards[g].pc = "boot" PROVE AtRest' /\ ~obdEnabled'
      <3>1. AtRest /\ ~obdEnabled
        BY <1>0, <2>2, <2>3 DEF CleanInv, HandshakeInv
      <3> QED
        BY <2>2, <2>4, <3>1 DEF AtRest, Synced, Known
    <2> QED
      BY <2>1, <2>3
  <1> QED
    BY <1>1, <1>2, <1>3, <1>4, <1>5, <1>6 DEF IInv, TypeOK, CleanInv

-----------------------------------------------------------------------------
(* What holds of the process table when the card it knows makes a step. *)
LEMMA CardMoves ==
  ASSUME IInv, NEW g, NEW c, CardTo(g, c), Alive(g), UNCHANGED <<manager, seen, proc, shuttingDown, isOnroad>>,
         c.queued => c.pc \in {"drive", "dead"},
         c.pc \in {"ask", "put", "wait", "query"} => c.todo # <<>>
  PROVE  /\ CardsOK' /\ CardInv' /\ TableInv' /\ RoundInv'
         /\ g = Len(cards) /\ Len(cards') = Len(cards) /\ DOMAIN cards' = DOMAIN cards
         /\ cards'[g] = c
         /\ \A h \in DOMAIN cards : h # g => cards'[h] = cards[h] /\ cards[h].pc = "dead"
  <1>0. CardsOK /\ TableInv /\ RoundInv /\ CardInv
    BY DEF IInv, TypeOK
  <1>1. g = proc /\ g \in DOMAIN cards /\ g # 0
    BY <1>0 DEF TableInv, CardTo, CardsOK
  <1>2. g = Len(cards)
    BY <1>0, <1>1 DEF TableInv
  <1>3. \A h \in DOMAIN cards : h # g => cards'[h] = cards[h] /\ cards[h].pc = "dead"
    BY <1>0, <1>1 DEF TableInv, CardTo, Alive
  <1>4. CardsOK' /\ Len(cards') = Len(cards) /\ DOMAIN cards' = DOMAIN cards /\ cards'[g] = c
    BY DEF CardsOK, CardTo
  <1>5. CardInv'
    <2> SUFFICES ASSUME NEW h \in DOMAIN cards
                 PROVE  /\ cards'[h].queued => cards'[h].pc \in {"drive", "dead"}
                        /\ cards'[h].pc \in {"ask", "put", "wait", "query"} => cards'[h].todo # <<>>
      BY <1>4 DEF CardInv
    <2>1. CASE h = g
      BY <1>4, <2>1
    <2>2. CASE h # g
      BY <1>0, <1>3, <2>2 DEF CardInv
    <2> QED
      BY <2>1, <2>2
  <1>6. TableInv'
    BY <1>0, <1>1, <1>2, <1>3, <1>4 DEF TableInv, Alive
  <1>7. RoundInv'
    BY <1>0 DEF RoundInv
  <1> QED
    BY <1>2, <1>3, <1>4, <1>5, <1>6, <1>7

(* The handshake with one card left alive. *)
Handshake(c) ==
  /\ c.pc = "boot"  => AtRest /\ ~obdEnabled
  /\ c.pc = "ask"   => AtRest
  /\ c.pc = "put"   => AtRest /\ ~obdChanged /\ obdEnabled # Head(c.todo)
  /\ c.pc = "query" => AtRest /\ obdEnabled = Head(c.todo)
  /\ c.pc = "wait"  =>
       /\ obdEnabled = Head(c.todo)
       /\ obdChanged => AtRest
       /\ ~obdChanged => IF pandad = "answer" THEN Synced /\ Known ELSE ~Known

LEMMA HandshakeOf ==
  ASSUME NEW g \in DOMAIN cards, HandshakeInv, InDrive, cards[g].sigint = "none"
  PROVE  Handshake(cards[g])
  BY DEF HandshakeInv, Handshake

LEMMA HandshakeMoves ==
  ASSUME NEW g \in DOMAIN cards, DOMAIN cards' = DOMAIN cards,
         \A h \in DOMAIN cards : h # g => cards'[h] = cards[h] /\ cards[h].pc = "dead",
         InDrive' /\ cards'[g].sigint = "none" => Handshake(cards[g])'
  PROVE  HandshakeInv'
  <1> SUFFICES ASSUME InDrive', NEW h \in DOMAIN cards, cards'[h].sigint = "none"
               PROVE  Handshake(cards[h])'
    BY DEF HandshakeInv, Handshake
  <1>1. CASE h = g
    BY <1>1
  <1>2. CASE h # g
    <2>1. cards'[h].pc = "dead"
      BY <1>2
    <2> QED
      BY <2>1 DEF Handshake
  <1> QED
    BY <1>1, <1>2

-----------------------------------------------------------------------------
(* The steps of a card. *)

LEMMA CardStepKeeps ==
  ASSUME IInv, NEW g, NEW c, CardTo(g, c), Alive(g), VarsOK',
         UNCHANGED <<manager, seen, proc, shuttingDown, isOnroad, pandad, panda, initialized, prevObd, clean>>,
         c.queued => c.pc \in {"drive", "dead"},
         c.pc \in {"ask", "put", "wait", "query"} => c.todo # <<>>,
         cards[g].pc = "drive" => c.pc \in {"drive", "dead"},
         carParams' \in {carParams, g},
         controlsReady => controlsReady',
         controlsReady' => controlsReady \/ c.pc = "drive",
         c.pc # "dead" => cards[g].sigint # "raised" \/ cards[g].queued,
         c.pc = "dead" => UNCHANGED <<carParams, obdEnabled>>,
         clean /\ InDrive /\ c.sigint = "none" /\ c.pc # "dead" => Handshake(cards[g])'
  PROVE  IInv'
  <1>0. VarsOK /\ CardsOK /\ PandaOK /\ TableInv /\ RoundInv /\ CardInv /\ CleanInv
    BY DEF IInv, TypeOK
  <1>1. /\ CardsOK' /\ CardInv' /\ TableInv' /\ RoundInv'
        /\ g = Len(cards) /\ Len(cards') = Len(cards) /\ DOMAIN cards' = DOMAIN cards
        /\ cards'[g] = c
        /\ \A h \in DOMAIN cards : h # g => cards'[h] = cards[h] /\ cards[h].pc = "dead"
    BY CardMoves
  <1>2. PandaOK' /\ g \in DOMAIN cards /\ cards # <<>> /\ cards' # <<>>
    BY <1>0, <1>1 DEF PandaOK, CardTo, CardsOK
  <1> SUFFICES ASSUME clean PROVE DriveInv' /\ ClearedInv' /\ HandshakeInv'
    BY <1>0, <1>1, <1>2 DEF IInv, TypeOK, CleanInv
  <1>3. DriveInv /\ ClearedInv /\ HandshakeInv
    BY <1>0 DEF CleanInv
  <1>4. cards[g].pc # "dead"
    BY DEF Alive
  <1>5. DriveInv'
    <2>1. controlsReady' => c.pc \in {"drive", "dead"}
      BY <1>1, <1>3, <1>4 DEF DriveInv
    <2>2. carParams' # 0 => carParams' = Len(cards)
      BY <1>1, <1>3 DEF DriveInv
    <2>3. pandad = "set" => controlsReady'
      BY <1>1, <1>3, <1>4, <2>1 DEF DriveInv
    <2>4. panda.mode = "car" => panda.card = Len(cards) /\ c.pc \in {"drive", "dead"}
      BY <1>1, <1>3, <1>4 DEF DriveInv
    <2> QED
      BY <1>1, <1>2, <2>1, <2>2, <2>3, <2>4 DEF DriveInv
  <1>6. ClearedInv'
    <2> SUFFICES ASSUME Cleared PROVE ClearedInv'
      BY DEF ClearedInv, Cleared
    <2>1. c.pc = "dead"
      BY <1>2, <1>3, Alive(g) DEF ClearedInv
    <2>2. \A h \in DOMAIN cards' : ~Alive(h)'
      BY <1>1, <2>1 DEF Alive
    <2> QED
      BY <1>3, <2>1, <2>2 DEF ClearedInv, Cleared
  <1>7. HandshakeInv'
    <2>1. InDrive' => InDrive
      BY DEF InDrive
    <2>2. c.pc = "dead" => Handshake(cards[g])'
      BY <1>1 DEF Handshake
    <2> QED
      BY <1>1, <1>2, <2>1, <2>2, HandshakeMoves
  <1> QED
    BY <1>5, <1>6, <1>7

-----------------------------------------------------------------------------
(* The steps of a card: what Becomes gives, and what the handshake says after them. *)
Moved(g, c, to) == c.pc = to /\ c.todo = cards[g].todo /\ c.queued = cards[g].queued
                   /\ c.sigint = After(cards[g].sigint)

LEMMA Runner ==
  ASSUME IInv, NEW g, NEW pc \in Pcs \ {"drive", "dead"}, Runs(g, pc)
  PROVE  /\ g \in DOMAIN cards /\ cards[g] \in CardType /\ Alive(g) /\ ~cards[g].queued
         /\ cards[g].pc = pc /\ cards[g].sigint # "raised"
         /\ pc \in {"ask", "put", "wait", "query"} => cards[g].todo # <<>>
  <1>1. CardsOK /\ CardInv
    BY DEF IInv, TypeOK
  <1>2. g \in DOMAIN cards /\ cards[g].pc = pc /\ cards[g].sigint # "raised" /\ Alive(g)
    BY DEF Runs, Alive
  <1>3. cards[g] \in CardType
    BY <1>1, <1>2 DEF CardsOK
  <1>4. ~cards[g].queued
    BY <1>1, <1>2 DEF CardInv
  <1> QED
    BY <1>1, <1>2, <1>3, <1>4 DEF CardInv

LEMMA Mover ==
  ASSUME IInv, NEW g, NEW pc \in Pcs \ {"drive", "dead"}, NEW to \in Pcs, Runs(g, pc), Becomes(g, to)
  PROVE  \E c \in CardType : CardTo(g, c) /\ Moved(g, c, to)
  <1>1. cards[g] \in CardType /\ CardsOK
    BY Runner DEF IInv, TypeOK
  <1>2. CardTo(g, [cards[g] EXCEPT !.pc = to, !.sigint = After(@)])
    BY <1>1, Moves
  <1>3. Moved(g, [cards[g] EXCEPT !.pc = to, !.sigint = After(@)], to)
    BY <1>1 DEF Moved, CardType
  <1> QED
    BY <1>2, <1>3 DEF CardTo

(* What the handshake says before a step of a card that was not told to stop. *)
LEMMA Before ==
  ASSUME IInv, NEW g \in DOMAIN cards, clean, InDrive, After(cards[g].sigint) = "none", CardsOK
  PROVE  Handshake(cards[g])
  <1>1. cards[g].sigint = "none"
    BY DEF After, CardsOK, CardType
  <1> QED
    BY <1>1, HandshakeOf DEF IInv, CleanInv

LEMMA AskObdKeeps == ASSUME IInv, NEW g, AskObd(g) PROVE IInv'
  <1>0. VarsOK /\ CardsOK
    BY DEF IInv, TypeOK
  <1>1. Runs(g, "ask")
    BY DEF AskObd
  <1>2. /\ g \in DOMAIN cards /\ cards[g] \in CardType /\ Alive(g) /\ ~cards[g].queued
        /\ cards[g].pc = "ask" /\ cards[g].sigint # "raised" /\ cards[g].todo # <<>>
    BY <1>1, Runner DEF Pcs
  <1>3. VarsOK'
    <2>1. obdChanged' \in BOOLEAN
      BY <1>0 DEF VarsOK, AskObd
    <2> QED
      BY <1>0, <2>1 DEF VarsOK, AskObd
  <1>4. CASE obdEnabled = Head(cards[g].todo)
    <2>1. PICK c \in CardType : CardTo(g, c) /\ Moved(g, c, "query")
      BY <1>1, <1>4, Mover DEF AskObd, Pcs
    <2>2. clean /\ InDrive /\ c.sigint = "none" => Handshake(cards[g])'
      <3> SUFFICES ASSUME clean, InDrive, c.sigint = "none" PROVE Handshake(cards[g])'
        OBVIOUS
      <3>1. AtRest
        BY <1>0, <1>2, <2>1, Before DEF Moved, Handshake
      <3> QED
        BY <1>4, <2>1, <3>1 DEF Handshake, Moved, CardTo, AskObd, AtRest, Synced, Known
    <2> QED
      BY <1>2, <1>3, <2>1, <2>2, CardStepKeeps DEF Moved, AskObd
  <1>5. CASE obdEnabled # Head(cards[g].todo)
    <2>1. PICK c \in CardType : CardTo(g, c) /\ Moved(g, c, "put")
      BY <1>1, <1>5, Mover DEF AskObd, Pcs
    <2>2. clean /\ InDrive /\ c.sigint = "none" => Handshake(cards[g])'
      <3> SUFFICES ASSUME clean, InDrive, c.sigint = "none" PROVE Handshake(cards[g])'
        OBVIOUS
      <3>1. AtRest
        BY <1>0, <1>2, <2>1, Before DEF Moved, Handshake
      <3>2. AtRest' /\ ~obdChanged' /\ obdEnabled' = obdEnabled
        BY <1>5, <3>1 DEF AskObd, AtRest, Synced, Known
      <3> QED
        BY <1>5, <2>1, <3>2 DEF Handshake, Moved, CardTo
    <2> QED
      BY <1>2, <1>3, <2>1, <2>2, CardStepKeeps DEF Moved, AskObd
  <1> QED
    BY <1>4, <1>5

(* The request is made while the panda is in the other mode and no answer is under way. *)
LEMMA PutObdKeeps == ASSUME IInv, NEW g, PutObd(g) PROVE IInv'
  <1>0. VarsOK /\ CardsOK
    BY DEF IInv, TypeOK
  <1>1. Runs(g, "put")
    BY DEF PutObd
  <1>2. /\ g \in DOMAIN cards /\ cards[g] \in CardType /\ Alive(g) /\ ~cards[g].queued
        /\ cards[g].pc = "put" /\ cards[g].sigint # "raised" /\ cards[g].todo # <<>>
    BY <1>1, Runner DEF Pcs
  <1>3. VarsOK'
    <2>1. Head(cards[g].todo) \in BOOLEAN
      BY <1>2 DEF CardType
    <2> QED
      BY <1>0, <2>1 DEF VarsOK, PutObd
  <1>4. PICK c \in CardType : CardTo(g, c) /\ Moved(g, c, "wait")
    BY <1>1, Mover DEF PutObd, Pcs
  <1>5. clean /\ InDrive /\ c.sigint = "none" => Handshake(cards[g])'
    <2> SUFFICES ASSUME clean, InDrive, c.sigint = "none" PROVE Handshake(cards[g])'
      OBVIOUS
    <2>1. AtRest /\ ~obdChanged /\ obdEnabled # Head(cards[g].todo)
      BY <1>0, <1>2, <1>4, Before DEF Moved, Handshake
    <2> QED
      <3>1. cards'[g].pc = "wait" /\ cards'[g].todo = cards[g].todo /\ Head(cards[g].todo) \in BOOLEAN
        BY <1>2, <1>4 DEF CardTo, Moved, CardType
      <3>2. obdEnabled' = Head(cards'[g].todo) /\ ~obdChanged' /\ pandad' # "answer"
        BY <2>1, <3>1 DEF PutObd, AtRest
      <3>3. Known /\ ~Known'
        BY <1>0, <2>1, <3>1 DEF VarsOK, PutObd, AtRest, Known
      <3> QED
        BY <3>1, <3>2, <3>3 DEF Handshake
  <1> QED
    BY <1>2, <1>3, <1>4, <1>5, CardStepKeeps DEF Moved, PutObd

(* An answer that was given is about this request. *)
LEMMA ObdSetKeeps == ASSUME IInv, NEW g, ObdSet(g) PROVE IInv'
  <1>0. VarsOK /\ CardsOK
    BY DEF IInv, TypeOK
  <1>1. Runs(g, "wait")
    BY DEF ObdSet
  <1>2. /\ g \in DOMAIN cards /\ cards[g] \in CardType /\ Alive(g) /\ ~cards[g].queued
        /\ cards[g].pc = "wait" /\ cards[g].sigint # "raised" /\ cards[g].todo # <<>>
    BY <1>1, Runner DEF Pcs
  <1>3. VarsOK'
    BY <1>0 DEF VarsOK, ObdSet
  <1> DEFINE c == [cards[g] EXCEPT !.pc = "query", !.sigint = IF @ = "sent" THEN "swallowed" ELSE @]
  <1>4. /\ c \in CardType /\ c.pc = "query" /\ c.todo = cards[g].todo /\ ~c.queued
        /\ c.sigint = "none" => cards[g].sigint = "none"
    BY <1>2 DEF CardType, Pcs
  <1>5. CardTo(g, c)
    <2>1. cards' = [cards EXCEPT ![g] = c]
      BY <1>2 DEF ObdSet, CardType
    <2> QED
      BY <1>0, <1>2, <1>4, <2>1, Replaced
  <1> HIDE DEF c
  <1>6. clean /\ InDrive /\ c.sigint = "none" => Handshake(cards[g])'
    <2> SUFFICES ASSUME clean, InDrive, c.sigint = "none" PROVE Handshake(cards[g])'
      OBVIOUS
    <2>1. cards[g].sigint = "none" /\ obdChanged
      BY <1>2, <1>4 DEF ObdSet
    <2>2. AtRest /\ obdEnabled = Head(cards[g].todo)
      BY <1>0, <1>2, <2>1, Before DEF After, Handshake
    <2> QED
      BY <1>0, <1>2, <1>4, <1>5, <2>2 DEF VarsOK, Handshake, CardTo, ObdSet, AtRest, Synced, Known
  <1> QED
    BY <1>2, <1>3, <1>4, <1>5, <1>6, CardStepKeeps DEF ObdSet

LEMMA QueryKeeps == ASSUME IInv, NEW g, Query(g) PROVE IInv'
  <1>0. VarsOK /\ CardsOK
    BY DEF IInv, TypeOK
  <1>1. Runs(g, "query")
    BY DEF Query
  <1>2. /\ g \in DOMAIN cards /\ cards[g] \in CardType /\ Alive(g) /\ ~cards[g].queued
        /\ cards[g].pc = "query" /\ cards[g].sigint # "raised" /\ cards[g].todo # <<>>
    BY <1>1, Runner DEF Pcs
  <1>3. VarsOK'
    <2>1. UNCHANGED <<hardware, table, params, pandaSafety, ghosts>>
      BY DEF Query
    <2> QED
      BY <1>0, <2>1 DEF VarsOK
  <1> DEFINE rest == Tail(cards[g].todo)
             to == IF rest = <<>> THEN "identified" ELSE "ask"
             c == [cards[g] EXCEPT !.pc = to, !.todo = rest, !.sigint = After(@)]
  <1>4. rest \in Seq(BOOLEAN)
    BY <1>2 DEF CardType
  <1>5. c \in CardType
    BY <1>2, <1>4 DEF CardType, Pcs, After
  <1>6. cards' = [cards EXCEPT ![g] = c]
    BY <1>0, <1>2 DEF Query, After, CardsOK, CardType
  <1>7. CardTo(g, c)
    BY <1>0, <1>2, <1>5, <1>6, Replaced
  <1>8. clean /\ InDrive /\ c.sigint = "none" => Handshake(cards[g])'
    <2> SUFFICES ASSUME clean, InDrive, c.sigint = "none" PROVE Handshake(cards[g])'
      OBVIOUS
    <2>1. AtRest
      BY <1>0, <1>2, Before DEF Handshake
    <2>2. AtRest'
      BY <2>1 DEF AtRest, Synced, Known, Query
    <2>3. cards'[g].pc \in {"identified", "ask"}
      BY <1>7 DEF CardTo
    <2> QED
      BY <2>2, <2>3 DEF Handshake
  <1>9. c.pc \in {"identified", "ask"} /\ (c.pc = "ask" => c.todo # <<>>) /\ ~c.queued
    BY <1>2 DEF CardType
  <1> HIDE DEF c
  <1> QED
    BY <1>2, <1>3, <1>7, <1>8, <1>9, CardStepKeeps DEF Query

(* From here on the card has no request left. *)
LEMMA FirmwareQueryDoneKeeps == ASSUME IInv, NEW g, FirmwareQueryDone(g) PROVE IInv'
  <1>0. VarsOK /\ CardsOK
    BY DEF IInv, TypeOK
  <1>1. Runs(g, "identified")
    BY DEF FirmwareQueryDone
  <1>2. /\ g \in DOMAIN cards /\ cards[g] \in CardType /\ Alive(g) /\ ~cards[g].queued
        /\ cards[g].pc = "identified" /\ cards[g].sigint # "raised"
    BY <1>1, Runner DEF Pcs
  <1>3. VarsOK'
    BY <1>0 DEF VarsOK, FirmwareQueryDone
  <1>4. PICK c \in CardType : CardTo(g, c) /\ Moved(g, c, "params")
    BY <1>1, Mover DEF FirmwareQueryDone, Pcs
  <1>5. clean /\ InDrive /\ c.sigint = "none" => Handshake(cards[g])'
    BY <1>4 DEF CardTo, Moved, Handshake
  <1> QED
    BY <1>2, <1>3, <1>4, <1>5, CardStepKeeps DEF Moved, FirmwareQueryDone

(* CarParams are those of the last card. *)
LEMMA PutCarParamsKeeps == ASSUME IInv, NEW g, PutCarParams(g) PROVE IInv'
  <1>0. VarsOK /\ CardsOK
    BY DEF IInv, TypeOK
  <1>1. Runs(g, "params")
    BY DEF PutCarParams
  <1>2. /\ g \in DOMAIN cards /\ cards[g] \in CardType /\ Alive(g) /\ ~cards[g].queued
        /\ cards[g].pc = "params" /\ cards[g].sigint # "raised"
    BY <1>1, Runner DEF Pcs
  <1>3. VarsOK'
    <2>1. g \in Nat
      BY <1>0, <1>2 DEF CardsOK
    <2> QED
      BY <1>0, <2>1 DEF VarsOK, PutCarParams
  <1>4. PICK pc \in {"initialize", "passive"} : Becomes(g, pc)
    BY DEF PutCarParams
  <1>5. PICK c \in CardType : CardTo(g, c) /\ Moved(g, c, pc)
    BY <1>1, <1>4, Mover DEF Pcs
  <1>6. clean /\ InDrive /\ c.sigint = "none" => Handshake(cards[g])'
    BY <1>4, <1>5 DEF CardTo, Moved, Handshake
  <1> QED
    BY <1>2, <1>3, <1>4, <1>5, <1>6, CardStepKeeps DEF Moved, PutCarParams

(* The car is initialized. *)
LEMMA InitializeCarKeeps == ASSUME IInv, NEW g, InitializeCar(g) PROVE IInv'
  <1>0. VarsOK /\ CardsOK /\ CardInv
    BY DEF IInv, TypeOK
  <1>1. /\ g \in DOMAIN cards /\ cards[g] \in CardType /\ Alive(g) /\ ~cards[g].queued
        /\ cards[g].pc = "initialize" /\ cards[g].sigint # "raised"
    BY Runner DEF Pcs, InitializeCar
  <1>2. VarsOK'
    BY <1>0 DEF VarsOK, InitializeCar
  <1> DEFINE c == [cards[g] EXCEPT !.pc = "drive", !.queued = TRUE, !.sigint = After(@)]
  <1>3. c \in CardType
    BY <1>1 DEF CardType, Pcs, After
  <1>4. cards' = [cards EXCEPT ![g] = c]
    BY <1>0, <1>1 DEF InitializeCar, After, CardsOK, CardType
  <1>5. CardTo(g, c)
    BY <1>0, <1>1, <1>3, <1>4, Replaced
  <1>6. c.pc = "drive"
    BY <1>1 DEF CardType
  <1>7. Handshake(cards[g])'
    BY <1>5 DEF CardTo, Handshake
  <1> HIDE DEF c
  <1> QED
    BY <1>1, <1>2, <1>5, <1>6, <1>7, CardStepKeeps DEF InitializeCar

(* ControlsReady is written for a card that drives. *)
LEMMA WriteQueuedKeeps == ASSUME IInv, NEW g, WriteQueued(g) PROVE IInv'
  <1>0. VarsOK /\ CardsOK /\ CardInv
    BY DEF IInv, TypeOK
  <1>1. /\ g \in DOMAIN cards /\ cards[g] \in CardType /\ Alive(g) /\ cards[g].queued
        /\ cards[g].pc = "drive"
    BY <1>0 DEF WriteQueued, CardsOK, CardInv, Alive
  <1>2. VarsOK'
    BY <1>0 DEF VarsOK, WriteQueued
  <1> DEFINE c == [cards[g] EXCEPT !.queued = FALSE]
  <1>3. c \in CardType
    BY <1>1 DEF CardType, Pcs, After
  <1>4. cards' = [cards EXCEPT ![g] = c]
    BY <1>0, <1>1 DEF WriteQueued, After, CardsOK, CardType
  <1>5. CardTo(g, c)
    BY <1>0, <1>1, <1>3, <1>4, Replaced
  <1>6. c.pc = "drive"
    BY <1>1 DEF CardType
  <1>7. Handshake(cards[g])'
    BY <1>5, <1>6 DEF CardTo, Handshake
  <1> HIDE DEF c
  <1> QED
    BY <1>1, <1>2, <1>5, <1>6, <1>7, CardStepKeeps DEF WriteQueued

(* The car is on CAN: nothing is asked yet. *)
LEMMA CanArrivesKeeps == ASSUME IInv, NEW g, CanArrives(g) PROVE IInv'
  <1>0. VarsOK /\ CardsOK
    BY DEF IInv, TypeOK
  <1>1. /\ g \in DOMAIN cards /\ cards[g] \in CardType /\ Alive(g) /\ ~cards[g].queued
        /\ cards[g].pc = "boot" /\ cards[g].sigint # "raised"
    BY Runner DEF Pcs, CanArrives
  <1>2. VarsOK'
    BY <1>0 DEF VarsOK, CanArrives
  <1>3. PICK modes \in Queries :
               cards' = [cards EXCEPT ![g].pc = "ask", ![g].todo = modes,
                                      ![g].sigint = IF @ = "sent" THEN "raised" ELSE @]
    BY DEF CanArrives
  <1> DEFINE c == [cards[g] EXCEPT !.pc = "ask", !.todo = modes, !.sigint = After(@)]
  <1>4. c \in CardType /\ modes # <<>>
    BY <1>1, OnroadAssumption DEF CardType, Pcs, After
  <1>5. cards' = [cards EXCEPT ![g] = c]
    BY <1>0, <1>1, <1>3 DEF After, CardsOK, CardType
  <1>6. CardTo(g, c)
    BY <1>0, <1>1, <1>4, <1>5, Replaced
  <1>7. clean /\ InDrive /\ c.sigint = "none" => Handshake(cards[g])'
    <2> SUFFICES ASSUME clean, InDrive, c.sigint = "none" PROVE Handshake(cards[g])'
      OBVIOUS
    <2>1. AtRest
      BY <1>0, <1>1, Before DEF Handshake
    <2>2. AtRest'
      BY <2>1 DEF AtRest, Synced, Known, CanArrives
    <2>3. cards'[g].pc = "ask"
      BY <1>6 DEF CardTo
    <2> QED
      BY <2>2, <2>3 DEF Handshake
  <1>8. c.pc = "ask" /\ c.todo # <<>> /\ ~c.queued
    BY <1>1, <1>4 DEF CardType
  <1> HIDE DEF c
  <1> QED
    BY <1>1, <1>2, <1>6, <1>7, <1>8, CardStepKeeps DEF CanArrives

-----------------------------------------------------------------------------
(* A card is gone: what was said of the one card left alive is said of none. *)
LEMMA CardDies ==
  ASSUME IInv, NEW g \in DOMAIN cards, Alive(g), cards' = [cards EXCEPT ![g].pc = "dead"],
         VarsOK', UNCHANGED <<table, params, pandaSafety, clean>>
  PROVE  IInv'
  <1>0. CardsOK /\ cards[g] \in CardType
    BY DEF IInv, TypeOK, CardsOK
  <1> DEFINE c == [cards[g] EXCEPT !.pc = "dead"]
  <1>1. c \in CardType /\ c.pc = "dead"
    BY <1>0 DEF CardType, Pcs
  <1>2. cards' = [cards EXCEPT ![g] = c]
    BY <1>0 DEF CardsOK
  <1>3. CardTo(g, c)
    BY <1>0, <1>1, <1>2, Replaced
  <1> HIDE DEF c
  <1> QED
    BY <1>1, <1>3, CardStepKeeps

LEMMA CrashKeeps == ASSUME IInv, NEW g, Crash(g) PROVE IInv'
  <1>1. VarsOK'
    BY DEF IInv, TypeOK, VarsOK, Crash
  <1> QED
    BY <1>1, CardDies DEF Crash

LEMMA KillKeeps == ASSUME IInv, Kill PROVE IInv'
  <1>1. VarsOK'
    BY DEF IInv, TypeOK, VarsOK, Kill
  <1>2. proc \in DOMAIN cards
    BY DEF IInv, TypeOK, CardsOK, VarsOK, TableInv, Kill
  <1> QED
    BY <1>1, <1>2, CardDies DEF Kill

(* KeyboardInterrupt, then the end. *)
LEMMA ExitKeeps == ASSUME IInv, NEW g, Exit(g) PROVE IInv'
  <1>0. VarsOK /\ CardsOK /\ CardInv
    BY DEF IInv, TypeOK
  <1>1. VarsOK'
    BY <1>0 DEF VarsOK, Exit
  <1>2. g \in DOMAIN cards /\ cards[g] \in CardType /\ Alive(g)
    BY <1>0 DEF Exit, CardsOK
  <1>3. CASE cards' = [cards EXCEPT ![g].pc = "dead"]
    BY <1>1, <1>2, <1>3, CardDies DEF Exit
  <1>4. CASE cards[g].sigint = "sent" /\ cards' = [cards EXCEPT ![g].sigint = "raised"]
    <2> DEFINE c == [cards[g] EXCEPT !.sigint = "raised"]
    <2>1. c \in CardType /\ c.sigint = "raised" /\ c.pc = cards[g].pc
          /\ c.todo = cards[g].todo /\ c.queued = cards[g].queued
      BY <1>2 DEF CardType
    <2>2. cards' = [cards EXCEPT ![g] = c]
      BY <1>0, <1>4 DEF CardsOK
    <2>3. CardTo(g, c)
      BY <1>0, <1>2, <2>1, <2>2, Replaced
    <2> HIDE DEF c
    <2>4. /\ c.queued => c.pc \in {"drive", "dead"}
          /\ c.pc \in {"ask", "put", "wait", "query"} => c.todo # <<>>
      BY <1>0, <1>2, <2>1 DEF CardInv
    <2> QED
      BY <1>1, <1>2, <1>4, <2>1, <2>3, <2>4, CardStepKeeps DEF Exit
  <1> QED
    BY <1>3, <1>4 DEF Exit

-----------------------------------------------------------------------------
(* The manager stops a card only once IsOnroad is cleared. *)
LEMMA StopKeeps == ASSUME IInv, Stop PROVE IInv'
  <1>0. VarsOK /\ CardsOK /\ PandaOK /\ TableInv /\ RoundInv /\ CardInv /\ CleanInv
    BY DEF IInv, TypeOK
  <1>1. manager = "ensure" /\ ~seen /\ ~isOnroad
    BY <1>0 DEF Stop, RoundInv
  <1>2. UNCHANGED <<hardware, seen, proc, params, pandaSafety, ghosts>>
    BY DEF Stop
  <1>3. ~Cleared' /\ ~InDrive'
    BY <1>1, <1>2 DEF Cleared, InDrive
  <1>4. ClearedInv' /\ HandshakeInv' /\ PandaOK'
    BY <1>0, <1>2, <1>3 DEF ClearedInv, HandshakeInv, PandaOK
  <1>5. ASSUME UNCHANGED cards, UNCHANGED shuttingDown, manager' \in {"update", "join"},
               manager' = "update" => proc = 0, manager' = "join" => proc # 0
        PROVE  IInv'
    <2>1. VarsOK' /\ CardsOK' /\ CardInv'
      BY <1>0, <1>2, <1>5 DEF VarsOK, CardsOK, CardInv
    <2>2. TableInv' /\ RoundInv'
      BY <1>0, <1>1, <1>2, <1>5 DEF TableInv, RoundInv, Alive
    <2>3. clean' => DriveInv'
      BY <1>0, <1>2, <1>5 DEF CleanInv, DriveInv
    <2> QED
      BY <1>4, <2>1, <2>2, <2>3 DEF IInv, TypeOK, CleanInv
  <1>6. ASSUME proc # 0, Alive(proc), cards' = [cards EXCEPT ![proc].sigint = "sent"],
               shuttingDown' = TRUE, manager' = "update"
        PROVE  IInv'
    <2> DEFINE c == [cards[proc] EXCEPT !.sigint = "sent"]
    <2>1. proc \in DOMAIN cards /\ proc = Len(cards) /\ cards # <<>>
      BY <1>0, <1>6 DEF TableInv, CardsOK, VarsOK
    <2>a. cards[proc] \in CardType
      BY <1>0, <2>1 DEF CardsOK
    <2>2. c \in CardType /\ c.pc = cards[proc].pc /\ c.todo = cards[proc].todo
          /\ c.queued = cards[proc].queued
      BY <2>a DEF CardType
    <2>3. cards' = [cards EXCEPT ![proc] = c]
      BY <1>0, <1>6, <2>1 DEF CardsOK
    <2>4. CardTo(proc, c)
      BY <1>0, <2>1, <2>2, <2>3, Replaced
    <2> HIDE DEF c
    <2>5. \A h \in DOMAIN cards : cards'[h].pc = cards[h].pc /\ cards'[h].todo = cards[h].todo
                                  /\ cards'[h].queued = cards[h].queued
      BY <2>2, <2>4 DEF CardTo
    <2>6. VarsOK'
      BY <1>0, <1>2, <1>6 DEF VarsOK
    <2>7. CardsOK' /\ CardInv' /\ TableInv'
      BY <1>0, <1>2, <1>6, <2>4, <2>5 DEF CardsOK, CardTo, CardInv, TableInv, Alive
    <2>8. RoundInv'
      BY <1>1, <1>2, <1>6 DEF RoundInv
    <2>9. clean' => DriveInv'
      <3> SUFFICES ASSUME clean PROVE DriveInv'
        BY <1>2
      <3>1. DriveInv /\ Len(cards') = Len(cards) /\ cards' # <<>>
            /\ cards'[Len(cards)].pc = cards[Len(cards)].pc
        BY <1>0, <2>1, <2>4, <2>5 DEF CleanInv, CardTo, CardsOK
      <3> QED
        BY <1>2, <3>1 DEF DriveInv
    <2> QED
      BY <1>4, <2>6, <2>7, <2>8, <2>9 DEF IInv, TypeOK, CleanInv
  <1> QED
    BY <1>5, <1>6 DEF Stop

(* A card starts on what the manager cleared, after the last one is gone. *)
LEMMA StartKeeps == ASSUME IInv, Start PROVE IInv'
  <1>0. VarsOK /\ CardsOK /\ PandaOK /\ TableInv /\ RoundInv /\ CardInv /\ CleanInv
    BY DEF IInv, TypeOK
  <1>1. manager = "ensure" /\ seen /\ isOnroad
    BY <1>0 DEF Start, RoundInv
  <1>2. UNCHANGED <<hardware, seen, shuttingDown, params, pandaSafety, ghosts>>
    BY DEF Start
  <1>3. ASSUME UNCHANGED <<cards, proc>>, manager' \in {"update", "join"},
               manager' = "join" => shuttingDown, manager' = "update" => ~shuttingDown /\ proc # 0
        PROVE  IInv'
    <2>1. VarsOK' /\ PandaOK'
      BY <1>0, <1>2, <1>3 DEF VarsOK, PandaOK
    <2>2. CardsOK' /\ CardInv'
      BY <1>0, <1>3 DEF CardsOK, CardInv
    <2>3. TableInv' /\ RoundInv'
      BY <1>0, <1>1, <1>2, <1>3 DEF TableInv, RoundInv, Alive
    <2>4. clean' => DriveInv'
      BY <1>0, <1>2, <1>3 DEF CleanInv, DriveInv
    <2>5. clean' => ClearedInv'
      BY <1>0, <1>1, <1>2, <1>3 DEF CleanInv, ClearedInv, Cleared, Alive
    <2>6. clean' => HandshakeInv'
      BY <1>0, <1>1, <1>2, <1>3 DEF CleanInv, HandshakeInv, InDrive, AtRest, Synced, Known
    <2> QED
      BY <2>1, <2>2, <2>3, <2>4, <2>5, <2>6 DEF IInv, TypeOK, CleanInv
  <1>4. ASSUME ~shuttingDown, proc = 0, cards' = Append(cards, NewCard), proc' = Len(cards'),
               manager' = "update"
        PROVE  IInv'
    <2> DEFINE n == Len(cards) + 1
    <2>1. /\ CardsOK' /\ Len(cards') = n /\ DOMAIN cards' = DOMAIN cards \cup {n}
          /\ cards'[n] = NewCard
          /\ \A h \in DOMAIN cards : cards'[h] = cards[h] /\ h # n
      BY <1>0, <1>4, Started DEF CardsOK
    <2>2. n \in Nat /\ n # 0 /\ cards' # <<>>
      BY <1>0, <2>1 DEF CardsOK
    <2> HIDE DEF n
    <2>3. \A h \in DOMAIN cards : cards'[h] = cards[h] /\ cards[h].pc = "dead" /\ h # n
      BY <1>0, <1>4, <2>1 DEF TableInv, Alive, CardsOK
    <2>4. VarsOK' /\ PandaOK'
      BY <1>0, <1>2, <1>4, <2>1, <2>2 DEF VarsOK, PandaOK
    <2>5. CardInv'
      BY <1>0, <2>1 DEF CardInv, NewCard
    <2>6. TableInv'
      BY <1>0, <1>2, <1>4, <2>1, <2>2, <2>3 DEF TableInv, Alive
    <2>7. RoundInv'
      BY <1>1, <1>2, <1>4, <2>1, <2>2 DEF RoundInv
    <2>8. ASSUME clean PROVE DriveInv' /\ ClearedInv' /\ HandshakeInv'
      <3>1. /\ ~controlsReady /\ carParams = 0 /\ ~obdEnabled
            /\ panda.mode \in {"noOutput", "elm327"} /\ pandad # "answer" /\ pandad # "set"
            /\ ~(initialized /\ prevObd)
        BY <1>0, <1>1, <1>4, <2>8 DEF CleanInv, ClearedInv, Cleared
      <3>2. DriveInv'
        BY <1>2, <3>1 DEF DriveInv
      <3>3. ~Cleared'
        BY <1>2, <1>4, <2>1, <2>2 DEF Cleared
      <3>4. AtRest' /\ ~obdEnabled'
        BY <1>2, <3>1 DEF AtRest, Synced, Known
      <3>5. HandshakeInv'
        <4> SUFFICES ASSUME NEW h \in DOMAIN cards' PROVE Handshake(cards[h])'
          BY DEF HandshakeInv, Handshake
        <4>1. cards'[h].pc \in {"boot", "dead"}
          BY <2>1, <2>3 DEF NewCard
        <4> QED
          BY <3>4, <4>1 DEF Handshake
      <3> QED
        BY <3>2, <3>3, <3>5 DEF ClearedInv
    <2> QED
      BY <1>2, <2>1, <2>4, <2>5, <2>6, <2>7, <2>8 DEF IInv, TypeOK, CleanInv
  <1> QED
    BY <1>3, <1>4 DEF Start, NewCard

-----------------------------------------------------------------------------
LEMMA InitIInv == ASSUME Init PROVE IInv
  <1>1. VarsOK /\ CardsOK /\ PandaOK
    <2>1. VarsOK
      BY DEF Init, VarsOK
    <2>2. <<>> \in Seq(CardType)
      OBVIOUS
    <2>3. Mode("noOutput") \in SafetyModes
      BY DEF Mode, SafetyModes
    <2> QED
      BY <2>1, <2>2, <2>3 DEF Init, CardsOK, PandaOK
  <1>2. TableInv /\ RoundInv /\ CardInv
    BY DEF Init, TableInv, RoundInv, CardInv
  <1>3. DriveInv /\ ClearedInv /\ HandshakeInv
    BY DEF Init, DriveInv, ClearedInv, HandshakeInv, Cleared, InDrive, Mode
  <1> QED
    BY <1>1, <1>2, <1>3 DEF IInv, TypeOK, CleanInv

LEMMA NextIInv == ASSUME IInv, [Next]_vars PROVE IInv'
  <1>1. CASE UNCHANGED vars
    <2>1. TypeOK' /\ TableInv' /\ RoundInv' /\ CardInv'
      BY <1>1 DEF vars, IInv, TypeOK, VarsOK, CardsOK, PandaOK, TableInv, RoundInv, CardInv, Alive
    <2>2. CleanInv'
      BY <1>1 DEF vars, IInv, CleanInv, DriveInv, ClearedInv, HandshakeInv, Cleared, InDrive, AtRest,
                  Synced, Known, Alive
    <2> QED
      BY <2>1, <2>2 DEF IInv
  <1>2. CASE TurnKey \/ Hardwared
    BY <1>2, TurnKeyKeeps, HardwaredKeeps
  <1>3. CASE ManagerStep
    BY <1>3, UpdateKeeps, ClearAllKeeps, WriteOnroadParamsKeeps, StartKeeps, StopKeeps, JoinKeeps, KillKeeps
       DEF ManagerStep
  <1>4. ASSUME NEW g \in Gens, CardStep(g) \/ Exit(g) \/ Crash(g) PROVE IInv'
    BY <1>4, CanArrivesKeeps, AskObdKeeps, PutObdKeeps, ObdSetKeeps, QueryKeeps, FirmwareQueryDoneKeeps,
       PutCarParamsKeeps, InitializeCarKeeps, WriteQueuedKeeps, ExitKeeps, CrashKeeps DEF CardStep
  <1>5. CASE PandadStep \/ RestartPandad
    BY <1>5, SampleKeeps, UpdateMultiplexingModeKeeps, AnswerKeeps, FetchCarParamsKeeps, SetSafetyModeKeeps,
       RestartPandadKeeps DEF PandadStep
  <1> QED
    BY <1>1, <1>2, <1>3, <1>4, <1>5 DEF Next

LEMMA Invariant == Spec => []IInv
  BY InitIInv, NextIInv, PTL DEF Spec

(* However many drives there are, two cards never live at once: manager.py's ensure_running *)
(* waits for the card it stopped.                                                             *)
THEOREM OnroadOneCard == Spec => []OneCard
  <1>1. IInv => OneCard
    BY DEF IInv, TableInv, OneCard
  <1> QED
    BY <1>1, Invariant, PTL

(* card.py's queries run in the OBD multiplexing mode that they ask pandad for. *)
THEOREM OnroadQueryInRequestedMode == Spec => []QueryInRequestedMode
  <1>1. IInv => QueryInRequestedMode
    <2> SUFFICES ASSUME IInv, clean, isOnroad, NEW g \in DOMAIN cards,
                        cards[g].pc = "query", cards[g].sigint = "none"
                 PROVE  (panda.mode = "elm327 obd") <=> Head(cards[g].todo)
      BY DEF QueryInRequestedMode
    <2>1. InDrive
      BY DEF IInv, RoundInv, InDrive
    <2>2. AtRest /\ obdEnabled = Head(cards[g].todo)
      BY <2>1, HandshakeOf DEF IInv, CleanInv, Handshake
    <2> QED
      BY <2>2 DEF AtRest, Synced
  <1> QED
    BY <1>1, Invariant, PTL

(* panda_safety.cc sets the safety mode of this drive's card, after the car was initialized. *)
THEOREM OnroadSafetyFromThisDrive == Spec => []SafetyFromThisDrive
  <1>1. IInv => SafetyFromThisDrive
    BY DEF IInv, CleanInv, DriveInv, SafetyFromThisDrive
  <1> QED
    BY <1>1, Invariant, PTL
=============================================================================
