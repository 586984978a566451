------------------------------- MODULE Onroad -------------------------------
(***************************************************************************)
(* Going onroad: four processes agree through parameters.  hardwared turns *)
(* the ignition into deviceState.started; the manager (manager.py,         *)
(* process.py) clears the parameters of the last drive, writes IsOnroad    *)
(* and starts or stops card; card (selfdrive/car/card.py) identifies the   *)
(* car, for which it asks pandad to switch the OBD multiplexing, and       *)
(* publishes CarParams; pandad (panda_safety.cc) sets the panda's safety   *)
(* mode from them.                                                         *)
(*                                                                         *)
(* A card that gets SIGINT finishes the call it is in, then raises         *)
(* KeyboardInterrupt; how long it takes to exit is not bounded.  But a     *)
(* blocking read of a parameter takes the signal, and the card goes on.    *)
(***************************************************************************)
EXTENDS Integers, Sequences

CONSTANTS
  Queries,     \* the OBD multiplexing modes the identification of a car goes through
  MaxTrips,    \* bound: times the ignition is turned on
  MaxFaults    \* bound: crashes of card, restarts of pandad

ASSUME OnroadAssumption ==
  /\ Queries \subseteq (Seq(BOOLEAN) \ {<<>>})
  /\ MaxTrips \in Nat \ {0}
  /\ MaxFaults \in Nat

VARIABLES
  ignition, trips,
  started,      \* deviceState.started
  manager,      \* where the manager's loop is
  seen,         \* started, as the manager last read it
  proc,         \* the card in the process table, 0 if none
  shuttingDown, \* whether it was told to stop
  cards,        \* every card started: its pc, the modes left to query, what SIGINT did,
                \* and whether ControlsReady waits in its write queue
  isOnroad, fwDone, controlsReady, carParams, obdEnabled, obdChanged,     \* parameters
  pandad,       \* where pandad's loop is
  initialized, configured, prevObd,                \* members of PandaSafety
  panda,        \* its safety mode: "noOutput", "elm327", "elm327 obd", or "car" with
                \* the card whose CarParams it was set from
  clean,        \* nothing overlapped this drive: see Settled, Sample and RestartPandad
  faults

vars == <<ignition, trips, started, manager, seen, proc, shuttingDown, cards, isOnroad, fwDone,
          controlsReady, carParams, obdEnabled, obdChanged, pandad, initialized, configured,
          prevObd, panda, clean, faults>>
hardware    == <<ignition, trips, started>>
table       == <<manager, seen, proc, shuttingDown>>
params      == <<isOnroad, fwDone, controlsReady, carParams, obdEnabled, obdChanged>>
pandaSafety == <<pandad, initialized, configured, prevObd, panda>>
ghosts      == <<clean, faults>>

Alive(g) == cards[g].pc # "dead"
Mode(m)  == [mode |-> m, card |-> 0]

Init ==
  /\ ignition = FALSE /\ trips = 0 /\ started = FALSE
  /\ manager = "update" /\ seen = FALSE /\ proc = 0 /\ shuttingDown = FALSE
  /\ cards = <<>>
  /\ isOnroad = FALSE /\ fwDone = FALSE /\ controlsReady = FALSE /\ carParams = 0
  /\ obdEnabled = FALSE /\ obdChanged = FALSE
  /\ pandad = "sample" /\ initialized = FALSE /\ configured = FALSE /\ prevObd = FALSE
  /\ panda = Mode("noOutput")
  /\ clean = TRUE /\ faults = 0

-----------------------------------------------------------------------------
(* Ignition and hardwared *)

TurnKey ==
  /\ IF ignition THEN UNCHANGED trips ELSE trips < MaxTrips /\ trips' = trips + 1
  /\ ignition' = ~ignition
  /\ UNCHANGED <<started, table, cards, params, pandaSafety, ghosts>>

Hardwared ==
  /\ started # ignition
  /\ started' = ignition
  /\ UNCHANGED <<ignition, trips, table, cards, params, pandaSafety, ghosts>>

-----------------------------------------------------------------------------
(* manager *)

Update ==
  /\ manager = "update"
  /\ seen' = started
  /\ manager' = IF started = seen THEN "ensure" ELSE IF started THEN "clear" ELSE "write"
  /\ UNCHANGED <<hardware, proc, shuttingDown, cards, params, pandaSafety, ghosts>>

(* pandad noticed that the last drive was over, and no call of its card is under way. *)
Settled ==
  /\ pandad = "sample" /\ ~initialized /\ ~configured /\ panda = Mode("noOutput")
  /\ \A g \in DOMAIN cards : Alive(g) => cards[g].sigint = "raised" /\ ~cards[g].queued

(* clear_all(CLEAR_ON_ONROAD_TRANSITION) *)
ClearAllSlip ==                         \* ControlsReady lacks the flag
  /\ manager = "clear"
  /\ fwDone' = FALSE /\ carParams' = 0
  /\ obdEnabled' = FALSE /\ obdChanged' = FALSE
  /\ clean' = Settled
  /\ manager' = "write"
  /\ UNCHANGED <<hardware, seen, proc, shuttingDown, cards, isOnroad, controlsReady, pandaSafety, faults>>

ClearAll ==
  /\ manager = "clear"
  /\ fwDone' = FALSE /\ controlsReady' = FALSE /\ carParams' = 0
  /\ obdEnabled' = FALSE /\ obdChanged' = FALSE
  /\ clean' = Settled
  /\ manager' = "write"
  /\ UNCHANGED <<hardware, seen, proc, shuttingDown, cards, isOnroad, pandaSafety, faults>>

WriteOnroadParams ==
  /\ manager = "write"
  /\ isOnroad' = seen
  /\ manager' = "ensure"
  /\ UNCHANGED <<hardware, seen, proc, shuttingDown, cards, fwDone, controlsReady, carParams,
                 obdEnabled, obdChanged, pandaSafety, ghosts>>

(* start: one that was told to stop is waited for first. *)
StartSlip ==                            \* does not wait for it
  /\ manager = "ensure" /\ seen
  /\ \/ /\ proc # 0 /\ ~shuttingDown
        /\ UNCHANGED <<proc, cards, shuttingDown>>
     \/ /\ proc = 0 \/ shuttingDown
        /\ cards' = Append(cards, [pc |-> "boot", todo |-> <<>>, sigint |-> "none", queued |-> FALSE])
        /\ proc' = Len(cards') /\ shuttingDown' = FALSE
  /\ manager' = "update"
  /\ UNCHANGED <<hardware, seen, params, pandaSafety, ghosts>>

Start ==
  /\ manager = "ensure" /\ seen
  /\ \/ /\ shuttingDown
        /\ manager' = "join"
        /\ UNCHANGED <<proc, cards>>
     \/ /\ ~shuttingDown /\ proc # 0
        /\ manager' = "update"
        /\ UNCHANGED <<proc, cards>>
     \/ /\ ~shuttingDown /\ proc = 0
        /\ cards' = Append(cards, [pc |-> "boot", todo |-> <<>>, sigint |-> "none", queued |-> FALSE])
        /\ proc' = Len(cards')
        /\ manager' = "update"
  /\ UNCHANGED <<hardware, seen, shuttingDown, params, pandaSafety, ghosts>>

(* stop(block=False): the first call only signals, a later one joins. *)
StopSlip ==                             \* a later one does nothing either
  /\ manager = "ensure" /\ ~seen
  /\ \/ /\ proc = 0 \/ shuttingDown
        /\ manager' = "update"
        /\ UNCHANGED <<cards, shuttingDown, proc>>
     \/ /\ proc # 0 /\ ~shuttingDown /\ ~Alive(proc)
        /\ manager' = "update"
        /\ proc' = 0
        /\ UNCHANGED <<cards, shuttingDown>>
     \/ /\ proc # 0 /\ ~shuttingDown /\ Alive(proc)
        /\ cards' = [cards EXCEPT ![proc].sigint = "sent"]
        /\ shuttingDown' = TRUE
        /\ manager' = "update"
        /\ UNCHANGED proc
  /\ UNCHANGED <<hardware, seen, params, pandaSafety, ghosts>>

Stop ==
  /\ manager = "ensure" /\ ~seen
  /\ \/ /\ proc = 0
        /\ manager' = "update"
        /\ UNCHANGED <<cards, shuttingDown>>
     \/ /\ proc # 0 /\ (shuttingDown \/ ~Alive(proc))
        /\ manager' = "join"
        /\ UNCHANGED <<cards, shuttingDown>>
     \/ /\ proc # 0 /\ ~shuttingDown /\ Alive(proc)
        /\ cards' = [cards EXCEPT ![proc].sigint = "sent"]
        /\ shuttingDown' = TRUE
        /\ manager' = "update"
  /\ UNCHANGED <<hardware, seen, proc, params, pandaSafety, ghosts>>

Join ==
  /\ manager = "join" /\ ~Alive(proc)
  /\ proc' = 0 /\ shuttingDown' = FALSE
  /\ manager' = "ensure"
  /\ UNCHANGED <<hardware, seen, cards, params, pandaSafety, ghosts>>

(* join_process gives up after 5 s: SIGKILL. *)
Kill ==
  /\ manager = "join" /\ Alive(proc)
  /\ cards' = [cards EXCEPT ![proc].pc = "dead"]
  /\ UNCHANGED <<hardware, table, params, pandaSafety, ghosts>>

ManagerStep == Update \/ ClearAll \/ WriteOnroadParams \/ Start \/ Stop \/ Join \/ Kill

-----------------------------------------------------------------------------
(* card *)

(* After SIGINT the call under way is the last, but for the blocking get_bool of ObdSet. *)
Runs(g, pc) == g \in DOMAIN cards /\ cards[g].pc = pc /\ cards[g].sigint # "raised"
Becomes(g, pc) ==
  cards' = [cards EXCEPT ![g].pc = pc, ![g].sigint = IF @ = "sent" THEN "raised" ELSE @]

(* The car is on CAN; which modes its identification needs depends on the car and the cache. *)
CanArrives(g) ==
  /\ Runs(g, "boot") /\ ignition
  /\ \E modes \in Queries :
       cards' = [cards EXCEPT ![g].pc = "ask", ![g].todo = modes,
                              ![g].sigint = IF @ = "sent" THEN "raised" ELSE @]
  /\ UNCHANGED <<hardware, table, params, pandaSafety, ghosts>>

(* set_obd_multiplexing, in three steps; each query runs in the mode asked for. *)
AskObdSlip(g) ==                        \* an old answer is not removed
  /\ Runs(g, "ask")
  /\ Becomes(g, IF obdEnabled = Head(cards[g].todo) THEN "query" ELSE "put")
  /\ UNCHANGED <<hardware, table, params, pandaSafety, ghosts>>

AskObd(g) ==
  /\ Runs(g, "ask")
  /\ IF obdEnabled = Head(cards[g].todo)
       THEN Becomes(g, "query") /\ UNCHANGED obdChanged
       ELSE Becomes(g, "put") /\ obdChanged' = FALSE
  /\ UNCHANGED <<hardware, table, isOnroad, fwDone, controlsReady, carParams, obdEnabled,
                 pandaSafety, ghosts>>

PutObd(g) ==
  /\ Runs(g, "put")
  /\ obdEnabled' = Head(cards[g].todo)
  /\ Becomes(g, "wait")
  /\ UNCHANGED <<hardware, table, isOnroad, fwDone, controlsReady, carParams, obdChanged,
                 pandaSafety, ghosts>>

(* SIGINT ends Params::get too, which restores Python's handler afterwards: get_bool is    *)
(* then false, of which the card takes no notice, and no KeyboardInterrupt is left.        *)
ObdSet(g) ==
  /\ Runs(g, "wait") /\ (obdChanged \/ cards[g].sigint = "sent")
  /\ cards' = [cards EXCEPT ![g].pc = "query", ![g].sigint = IF @ = "sent" THEN "swallowed" ELSE @]
  /\ UNCHANGED <<hardware, table, params, pandaSafety, ghosts>>

Query(g) ==
  /\ Runs(g, "query")
  /\ LET rest == Tail(cards[g].todo) IN
       cards' = [cards EXCEPT ![g].pc = IF rest = <<>> THEN "identified" ELSE "ask", ![g].todo = rest,
                              ![g].sigint = IF @ = "sent" THEN "raised" ELSE @]
  /\ UNCHANGED <<hardware, table, params, pandaSafety, ghosts>>

FirmwareQueryDone(g) ==
  /\ Runs(g, "identified")
  /\ fwDone' = TRUE
  /\ Becomes(g, "params")
  /\ UNCHANGED <<hardware, table, isOnroad, controlsReady, carParams, obdEnabled, obdChanged,
                 pandaSafety, ghosts>>

(* A passive car (dashcam, or openpilot switched off) is never initialized. *)
PutCarParams(g) ==
  /\ Runs(g, "params")
  /\ carParams' = g
  /\ \E pc \in {"initialize", "passive"} : Becomes(g, pc)
  /\ UNCHANGED <<hardware, table, isOnroad, fwDone, controlsReady, obdEnabled, obdChanged,
                 pandaSafety, ghosts>>

(* selfdrived is initialized: CI.init, then ControlsReady is put in the write queue. *)
InitializeCar(g) ==
  /\ Runs(g, "initialize")
  /\ cards' = [cards EXCEPT ![g].pc = "drive", ![g].queued = TRUE,
                            ![g].sigint = IF @ = "sent" THEN "raised" ELSE @]
  /\ UNCHANGED <<hardware, table, params, pandaSafety, ghosts>>

WriteQueued(g) ==
  /\ g \in DOMAIN cards /\ Alive(g) /\ cards[g].queued
  /\ controlsReady' = TRUE
  /\ cards' = [cards EXCEPT ![g].queued = FALSE]
  /\ UNCHANGED <<hardware, table, isOnroad, fwDone, carParams, obdEnabled, obdChanged,
                 pandaSafety, ghosts>>

CardStep(g) ==
  \/ CanArrives(g) \/ AskObd(g) \/ PutObd(g) \/ ObdSet(g) \/ Query(g) \/ FirmwareQueryDone(g)
  \/ PutCarParams(g) \/ InitializeCar(g) \/ WriteQueued(g)

(* KeyboardInterrupt is raised, and some time later the process is gone. *)
Exit(g) ==
  /\ g \in DOMAIN cards /\ Alive(g)
  /\ \/ cards[g].sigint = "sent" /\ cards' = [cards EXCEPT ![g].sigint = "raised"]
     \/ cards[g].sigint = "raised" /\ cards' = [cards EXCEPT ![g].pc = "dead"]
  /\ UNCHANGED <<hardware, table, params, pandaSafety, ghosts>>

Crash(g) ==
  /\ g \in DOMAIN cards /\ Alive(g)
  /\ faults < MaxFaults /\ faults' = faults + 1
  /\ cards' = [cards EXCEPT ![g].pc = "dead"]
  /\ UNCHANGED <<hardware, table, params, pandaSafety, clean>>

-----------------------------------------------------------------------------
(* pandad, ten times a second *)

(* Without ignition, or offroad, the relay is closed; offroad, PandaSafety starts over. *)
Sample ==
  /\ pandad = "sample"
  /\ panda' = IF ignition /\ isOnroad THEN panda ELSE Mode("noOutput")
  /\ clean' = (clean /\ (ignition \/ ~isOnroad))
  /\ initialized' = (initialized /\ isOnroad)
  /\ configured' = (configured /\ isOnroad)
  /\ pandad' = IF isOnroad /\ ~configured THEN "request" ELSE "sample"
  /\ UNCHANGED <<hardware, table, cards, params, prevObd, faults>>

ObdMode(obd) == Mode(IF obd THEN "elm327 obd" ELSE "elm327")

(* updateMultiplexingMode *)
UpdateMultiplexingModeSlip ==           \* tells only that it was turned on
  /\ pandad = "request"
  /\ LET changed == obdEnabled # (initialized /\ prevObd) IN
       /\ panda' = IF changed THEN ObdMode(obdEnabled)
                   ELSE IF initialized THEN panda ELSE Mode("elm327")
       /\ pandad' = IF changed /\ obdEnabled THEN "answer" ELSE "fw"
  /\ prevObd' = obdEnabled /\ initialized' = TRUE
  /\ UNCHANGED <<hardware, table, cards, params, configured, ghosts>>

UpdateMultiplexingMode ==
  /\ pandad = "request"
  /\ LET changed == obdEnabled # (initialized /\ prevObd) IN
       /\ panda' = IF changed THEN ObdMode(obdEnabled)
                   ELSE IF initialized THEN panda ELSE Mode("elm327")
       /\ pandad' = IF changed THEN "answer" ELSE "fw"
  /\ prevObd' = obdEnabled /\ initialized' = TRUE
  /\ UNCHANGED <<hardware, table, cards, params, configured, ghosts>>

Answer ==
  /\ pandad = "answer"
  /\ obdChanged' = TRUE
  /\ pandad' = "fw"
  /\ UNCHANGED <<hardware, table, cards, isOnroad, fwDone, controlsReady, carParams, obdEnabled,
                 initialized, configured, prevObd, panda, ghosts>>

(* fetchCarParams reads three parameters one after the other. *)
FetchCarParams ==
  /\ \/ pandad = "fw" /\ pandad' = (IF fwDone THEN "ready" ELSE "sample")
     \/ pandad = "ready" /\ pandad' = (IF controlsReady THEN "set" ELSE "sample")
  /\ UNCHANGED <<hardware, table, cards, params, initialized, configured, prevObd, panda, ghosts>>

PandadStarts == pandad' = "sample" /\ initialized' = FALSE /\ configured' = FALSE /\ prevObd' = FALSE

(* setSafetyMode: an empty CarParams raises, and pandad is started again. *)
SetSafetyMode ==
  /\ pandad = "set"
  /\ IF carParams = 0
       THEN PandadStarts /\ UNCHANGED panda
       ELSE /\ panda' = [mode |-> "car", card |-> carParams]
            /\ configured' = TRUE /\ pandad' = "sample"
            /\ UNCHANGED <<initialized, prevObd>>
  /\ UNCHANGED <<hardware, table, cards, params, ghosts>>

PandadStep == Sample \/ UpdateMultiplexingMode \/ Answer \/ FetchCarParams \/ SetSafetyMode

(* A panda was lost, say: pandad.py starts pandad again. *)
RestartPandad ==
  /\ faults < MaxFaults /\ faults' = faults + 1
  /\ PandadStarts
  /\ panda' \in {panda, Mode("noOutput")}
  /\ clean' = (clean /\ \A g \in DOMAIN cards : Alive(g) => cards[g].todo = <<>>)
  /\ UNCHANGED <<hardware, table, cards, params>>

-----------------------------------------------------------------------------
Gens == 1..MaxTrips

Next ==
  \/ TurnKey \/ Hardwared \/ ManagerStep
  \/ \E g \in Gens : CardStep(g) \/ Exit(g) \/ Crash(g)
  \/ PandadStep \/ RestartPandad

(* A card need not react to SIGINT. *)
Fairness ==
  /\ WF_vars(Hardwared) /\ WF_vars(ManagerStep) /\ WF_vars(PandadStep)
  /\ \A g \in Gens : WF_vars(CardStep(g))

Spec == Init /\ [][Next]_vars /\ Fairness
=============================================================================
