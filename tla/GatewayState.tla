---------------------------- MODULE GatewayState ----------------------------
(***************************************************************************)
(* The gateway's in-memory state (domain/gateway-state.ts): the cameras    *)
(* and HomeBases it knows, the transient detection flags with their hold   *)
(* timers, and what it publishes of them.                                  *)
(*                                                                         *)
(* Whatever else is published of an object (identity, retained image,      *)
(* stream, HomeBase settings) is a revision: 0 is an object that is not    *)
(* registered.  Time is counted in ticks; a timer that is due fires soon,  *)
(* not at once.  StateFeed composes these operations with their readers.   *)
(***************************************************************************)
EXTENDS Naturals, FiniteSets

CONSTANTS
  Cameras,
  Stations,          \* HomeBases
  Kinds,             \* of detections: some of "motion", "person", "doorbell"
  Doorbells,         \* cameras with doorbellSupported
  DetectionHold,     \* detectionHoldMilliseconds, in ticks
  PersonPrecedence,  \* how long a person hides motion from lastDetection
  MaxRevisions       \* bound: changes to each object

Objects == Cameras \cup Stations
NoDetection == "none"

ASSUME ObjectsAssumption == Cameras \cap Stations = {} /\ Doorbells \subseteq Cameras
ASSUME KindsAssumption == Kinds \subseteq {"motion", "person", "doorbell"}
ASSUME HoldAssumption == DetectionHold \in Nat \ {0} /\ PersonPrecedence \in 0 .. DetectionHold

VARIABLES
  revision,  \* of every object
  raised,    \* the flags motionDetected, personDetected, doorbellPressed
  timers,    \* the clear timers that run, by the ticks they have left
  age,       \* ticks since the last detection, as far as it matters
  last,      \* the kind of lastDetection
  disposed   \* close has run

states == <<revision, raised, timers, age, last, disposed>>

Forgotten == DetectionHold + 1

StateTypeOK ==
  /\ revision \in [Objects -> Nat]
  /\ raised \in [Cameras -> SUBSET Kinds]
  /\ timers \in [Cameras -> [Kinds -> SUBSET (0 .. DetectionHold)]]
  /\ age \in [Cameras -> [Kinds -> 0 .. Forgotten]]
  /\ last \in [Cameras -> Kinds \cup {NoDetection}]
  /\ disposed \in BOOLEAN

StateInit ==
  /\ revision = [o \in Objects |-> 0]
  /\ raised = [c \in Cameras |-> {}]
  /\ timers = [c \in Cameras |-> [k \in Kinds |-> {}]]
  /\ age = [c \in Cameras |-> [k \in Kinds |-> Forgotten]]
  /\ last = [c \in Cameras |-> NoDetection]
  /\ disposed = FALSE

Known(o) == revision[o] > 0

\* What listCameras, listStations and the update events say of an object.
Published(o) ==
  [revision |-> revision[o], raised |-> IF o \in Cameras THEN raised[o] ELSE {}]

\* A motion does not replace a person seen at most PersonPrecedence ago.
IsRecentPersonDetection(c) ==
  last[c] = "person" /\ age[c]["person"] <= PersonPrecedence

\* scheduleDetectionClear: the running timer of this flag gives way to a new one.
ScheduleDetectionClear_KeepsOld(c, k, left) ==
  timers' = [timers EXCEPT ![c][k] = @ \cup left]

ScheduleDetectionClear_FirstWins(c, k, left) ==
  timers' = [timers EXCEPT ![c][k] = IF left # {} /\ @ # {} THEN @ ELSE left]

ScheduleDetectionClear(c, k, left) ==
  timers' = [timers EXCEPT ![c][k] = left]

\* recordMotion, recordPerson and recordDoorbell, for a detection; main.ts passes
\* on those of registered cameras only.
RecordDetection(c, k) ==
  /\ Known(c) /\ (k = "doorbell" => c \in Doorbells)
  /\ raised' = [raised EXCEPT ![c] = @ \cup {k}]
  /\ ScheduleDetectionClear(c, k, {DetectionHold})
  /\ age' = [age EXCEPT ![c][k] = 0]
  /\ last' = [last EXCEPT ![c] =
                IF k = "motion" /\ IsRecentPersonDetection(c) THEN @ ELSE k]
  /\ UNCHANGED <<revision, disposed>>

\* A due timer deletes itself and records the end of the detection.
ClearDetection(c, k) ==
  /\ 0 \in timers[c][k]
  /\ raised' = [raised EXCEPT ![c] = @ \ {k}]
  /\ ScheduleDetectionClear(c, k, {})
  /\ UNCHANGED <<revision, age, last, disposed>>

\* registerCamera or registerStation for an object seen for the first time.
Register(o) ==
  /\ ~Known(o)
  /\ revision' = [revision EXCEPT ![o] = 1]
  /\ UNCHANGED <<raised, timers, age, last, disposed>>

\* updateSnapshot, restoreSnapshot, updateStream, and registerCamera or
\* registerStation for a known object.
Revise(o) ==
  /\ Known(o) /\ revision[o] < MaxRevisions[o]
  /\ revision' = [revision EXCEPT ![o] = @ + 1]
  /\ UNCHANGED <<raised, timers, age, last, disposed>>

\* close: the timers are cancelled, the flags stay as they are.
Dispose ==
  /\ disposed' = TRUE
  /\ timers' = [c \in Cameras |-> [k \in Kinds |-> {}]]
  /\ UNCHANGED <<revision, raised, age, last>>

\* Time passes for timers and detections.
Tick ==
  /\ \E c \in Cameras, k \in Kinds : age[c][k] < Forgotten \/ timers[c][k] \ {0} # {}
  /\ timers' = [c \in Cameras |-> [k \in Kinds |->
                  {IF n = 0 THEN 0 ELSE n - 1 : n \in timers[c][k]}]]
  /\ age' = [c \in Cameras |-> [k \in Kinds |->
               IF age[c][k] < Forgotten THEN age[c][k] + 1 ELSE Forgotten]]
  /\ UNCHANGED <<revision, raised, last, disposed>>

-----------------------------------------------------------------------------
\* A flag is raised exactly while its one timer runs: no flag can stay up for
\* ever, and no timer of an earlier detection is left to cut a later one short.
RaisedWhileHeld ==
  ~disposed => \A c \in Cameras, k \in Kinds :
    /\ k \in raised[c] <=> timers[c][k] # {}
    /\ \A n \in timers[c][k] : DetectionHold - n <= age[c][k]

\* The flags are held for the full period: one comes down only when its last
\* detection is DetectionHold ago, however detections and timers interleave, or
\* with the whole state, when the process ends.
HeldInFull ==
  [][\A c \in Cameras, k \in Kinds :
       k \in raised[c] \ raised'[c] => age[c][k] >= DetectionHold \/ ~Known(c)']_states

\* A person shown as present is still the last detection: a motion does not hide it,
\* unless the doorbell was pressed since or the precedence is over.
PersonStaysLast ==
  \A c \in Cameras :
    "person" \in raised[c] /\ age[c]["person"] <= PersonPrecedence
      => \/ last[c] = "person"
         \/ "doorbell" \in Kinds /\ age[c]["doorbell"] <= age[c]["person"]
=============================================================================
