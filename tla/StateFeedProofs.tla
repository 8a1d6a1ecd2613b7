--------------------------- MODULE StateFeedProofs ---------------------------
(***************************************************************************)
(* Theorems of StateFeed, for any cameras, HomeBases, hold period,         *)
(* precedence and any number of restarts.                                  *)
(***************************************************************************)
EXTENDS StateFeed, SequenceTheorems, TLAPS

\* No timer is older than the detection it belongs to, also one that was started
\* after close() cancelled the others.
TimersYoung ==
  \A c \in Cameras, k \in Kinds : \A n \in timers[c][k] : DetectionHold - n <= age[c][k]

FlagsFollowTimers ==
  ~disposed => \A c \in Cameras, k \in Kinds : k \in raised[c] <=> timers[c][k] # {}

FlagInv == StateTypeOK /\ TimersYoung /\ FlagsFollowTimers /\ PersonStaysLast

-----------------------------------------------------------------------------
(***************************************************************************)
(* The operations of GatewayState, whoever calls them.                     *)
(***************************************************************************)

\* The state of a new process.
Fresh ==
  /\ revision = [o \in Objects |-> 0]
  /\ raised = [c \in Cameras |-> {}]
  /\ timers = [c \in Cameras |-> [k \in Kinds |-> {}]]
  /\ age = [c \in Cameras |-> [k \in Kinds |-> Forgotten]]
  /\ last = [c \in Cameras |-> NoDetection]
  /\ disposed = FALSE

LEMMA HoldFacts ==
  /\ DetectionHold \in Nat /\ DetectionHold > 0
  /\ Forgotten \in Nat /\ Forgotten = DetectionHold + 1
  /\ PersonPrecedence \in Nat /\ PersonPrecedence <= DetectionHold
  BY HoldAssumption DEF Forgotten

LEMMA FreshInv == Fresh => FlagInv
  <1> SUFFICES ASSUME Fresh PROVE FlagInv
    OBVIOUS
  <1>1. StateTypeOK
    <2>1. revision \in [Objects -> Nat] /\ raised \in [Cameras -> SUBSET Kinds]
      BY DEF Fresh
    <2>2. timers \in [Cameras -> [Kinds -> SUBSET (0 .. DetectionHold)]]
      BY DEF Fresh
    <2>3. Forgotten \in 0 .. Forgotten
      BY HoldFacts
    <2>4. age \in [Cameras -> [Kinds -> 0 .. Forgotten]]
      BY <2>3 DEF Fresh
    <2> QED
      BY <2>1, <2>2, <2>4 DEF Fresh, StateTypeOK
  <1>2. TimersYoung /\ FlagsFollowTimers /\ PersonStaysLast
    BY DEF Fresh, TimersYoung, FlagsFollowTimers, PersonStaysLast
  <1> QED
    BY <1>1, <1>2 DEF FlagInv

LEMMA RestartedInv == ASSUME Fresh' PROVE FlagInv'
  <1>1. StateTypeOK'
    <2>1. revision' \in [Objects -> Nat] /\ raised' \in [Cameras -> SUBSET Kinds]
      BY DEF Fresh
    <2>2. timers' \in [Cameras -> [Kinds -> SUBSET (0 .. DetectionHold)]]
      BY DEF Fresh
    <2>3. Forgotten \in 0 .. Forgotten
      BY HoldFacts
    <2>4. age' \in [Cameras -> [Kinds -> 0 .. Forgotten]]
      BY <2>3 DEF Fresh
    <2> QED
      BY <2>1, <2>2, <2>4 DEF Fresh, StateTypeOK
  <1>2. TimersYoung'
    BY DEF Fresh, TimersYoung
  <1>3. FlagsFollowTimers'
    BY DEF Fresh, FlagsFollowTimers
  <1>4. PersonStaysLast'
    BY DEF Fresh, PersonStaysLast
  <1> QED
    BY <1>1, <1>2, <1>3, <1>4 DEF FlagInv

LEMMA DetectionInv ==
  ASSUME FlagInv, NEW c \in Cameras, NEW k \in Kinds, RecordDetection(c, k)
  PROVE  FlagInv'
  <1> USE HoldFacts
  <1>1. /\ raised' = [raised EXCEPT ![c] = @ \cup {k}]
        /\ timers' = [timers EXCEPT ![c][k] = {DetectionHold}]
        /\ age' = [age EXCEPT ![c][k] = 0]
        /\ last' = [last EXCEPT ![c] =
                      IF k = "motion" /\ IsRecentPersonDetection(c) THEN @ ELSE k]
        /\ revision' = revision /\ disposed' = disposed
    BY DEF RecordDetection, ScheduleDetectionClear
  <1>2. StateTypeOK
    BY DEF FlagInv
  <1>3. StateTypeOK'
    <2>1. raised' \in [Cameras -> SUBSET Kinds]
      BY <1>1, <1>2 DEF StateTypeOK
    <2>2. timers' \in [Cameras -> [Kinds -> SUBSET (0 .. DetectionHold)]]
      BY <1>1, <1>2 DEF StateTypeOK
    <2>3. age' \in [Cameras -> [Kinds -> 0 .. Forgotten]]
      BY <1>1, <1>2 DEF StateTypeOK
    <2>4. last' \in [Cameras -> Kinds \cup {NoDetection}]
      BY <1>1, <1>2 DEF StateTypeOK
    <2> QED
      BY <1>1, <1>2, <2>1, <2>2, <2>3, <2>4 DEF StateTypeOK
  <1>4. TimersYoung'
    <2> SUFFICES ASSUME NEW d \in Cameras, NEW j \in Kinds, NEW n \in timers'[d][j]
                 PROVE  DetectionHold - n <= age'[d][j]
      BY DEF TimersYoung
    <2>1. CASE d = c /\ j = k
      BY <1>1, <1>2, <2>1 DEF StateTypeOK
    <2>2. CASE ~(d = c /\ j = k)
      <3>1. timers'[d][j] = timers[d][j] /\ age'[d][j] = age[d][j]
        BY <1>1, <1>2, <2>2 DEF StateTypeOK
      <3> QED
        BY <3>1 DEF FlagInv, TimersYoung
    <2> QED
      BY <2>1, <2>2
  <1>5. FlagsFollowTimers'
    <2> SUFFICES ASSUME ~disposed, NEW d \in Cameras, NEW j \in Kinds
                 PROVE  j \in raised'[d] <=> timers'[d][j] # {}
      BY <1>1 DEF FlagsFollowTimers
    <2>1. CASE d = c /\ j = k
      BY <1>1, <1>2, <2>1 DEF StateTypeOK
    <2>2. CASE ~(d = c /\ j = k)
      <3>1. timers'[d][j] = timers[d][j] /\ (j \in raised'[d] <=> j \in raised[d])
        BY <1>1, <1>2, <2>2 DEF StateTypeOK
      <3> QED
        BY <3>1 DEF FlagInv, FlagsFollowTimers
    <2> QED
      BY <2>1, <2>2
  <1>6. PersonStaysLast'
    <2> SUFFICES ASSUME NEW d \in Cameras, "person" \in raised'[d],
                        age'[d]["person"] <= PersonPrecedence
                 PROVE  \/ last'[d] = "person"
                        \/ "doorbell" \in Kinds /\ age'[d]["doorbell"] <= age'[d]["person"]
      BY DEF PersonStaysLast
    <2>1. CASE d # c
      BY <1>1, <1>2, <2>1 DEF StateTypeOK, FlagInv, PersonStaysLast
    <2>2. CASE d = c /\ k = "person"
      BY <1>1, <1>2, <2>2 DEF StateTypeOK
    <2>3. CASE d = c /\ k = "doorbell"
      <3>1. "person" \in Kinds
        BY <1>1, <1>2, <2>3 DEF StateTypeOK
      <3>2. age'[d]["doorbell"] = 0 /\ age'[d]["person"] \in Nat
        BY <1>1, <1>2, <2>3, <3>1 DEF StateTypeOK
      <3> QED
        BY <2>3, <3>2
    <2>4. CASE d = c /\ k = "motion"
      <3>1. "person" \in raised[c] /\ "person" \in Kinds
        BY <1>1, <1>2, <2>4 DEF StateTypeOK
      <3>2. \A j \in Kinds : j # "motion" => age'[c][j] = age[c][j]
        BY <1>1, <1>2, <2>4 DEF StateTypeOK
      <3>3. age[c]["person"] <= PersonPrecedence
        BY <2>4, <3>1, <3>2
      <3>4. CASE last[c] = "person"
        BY <1>1, <1>2, <2>4, <3>3, <3>4 DEF StateTypeOK, IsRecentPersonDetection
      <3>5. CASE "doorbell" \in Kinds /\ age[c]["doorbell"] <= age[c]["person"]
        BY <2>4, <3>1, <3>2, <3>5
      <3> QED
        BY <3>1, <3>3, <3>4, <3>5 DEF FlagInv, PersonStaysLast
    <2> QED
      BY <2>1, <2>2, <2>3, <2>4, KindsAssumption
  <1> QED
    BY <1>3, <1>4, <1>5, <1>6 DEF FlagInv

LEMMA ClearInv ==
  ASSUME FlagInv, NEW c \in Cameras, NEW k \in Kinds, ClearDetection(c, k)
  PROVE  FlagInv'
  <1>1. /\ raised' = [raised EXCEPT ![c] = @ \ {k}]
        /\ timers' = [timers EXCEPT ![c][k] = {}]
        /\ UNCHANGED <<revision, age, last, disposed>>
    BY DEF ClearDetection, ScheduleDetectionClear
  <1>2. StateTypeOK
    BY DEF FlagInv
  <1>3. StateTypeOK'
    <2>1. raised' \in [Cameras -> SUBSET Kinds]
      BY <1>1, <1>2 DEF StateTypeOK
    <2>2. timers' \in [Cameras -> [Kinds -> SUBSET (0 .. DetectionHold)]]
      BY <1>1, <1>2 DEF StateTypeOK
    <2> QED
      BY <1>1, <1>2, <2>1, <2>2 DEF StateTypeOK
  <1>4. TimersYoung'
    <2> SUFFICES ASSUME NEW d \in Cameras, NEW j \in Kinds, NEW n \in timers'[d][j]
                 PROVE  DetectionHold - n <= age'[d][j]
      BY DEF TimersYoung
    <2>1. n \in timers[d][j]
      BY <1>1, <1>2 DEF StateTypeOK
    <2> QED
      BY <1>1, <2>1 DEF FlagInv, TimersYoung
  <1>5. FlagsFollowTimers'
    <2> SUFFICES ASSUME ~disposed, NEW d \in Cameras, NEW j \in Kinds
                 PROVE  j \in raised'[d] <=> timers'[d][j] # {}
      BY <1>1 DEF FlagsFollowTimers
    <2>1. CASE d = c /\ j = k
      BY <1>1, <1>2, <2>1 DEF StateTypeOK
    <2>2. CASE ~(d = c /\ j = k)
      <3>1. timers'[d][j] = timers[d][j] /\ (j \in raised'[d] <=> j \in raised[d])
        BY <1>1, <1>2, <2>2 DEF StateTypeOK
      <3> QED
        BY <3>1 DEF FlagInv, FlagsFollowTimers
    <2> QED
      BY <2>1, <2>2
  <1>6. PersonStaysLast'
    <2>1. \A d \in Cameras : raised'[d] \subseteq raised[d]
      BY <1>1, <1>2 DEF StateTypeOK
    <2> QED
      BY <1>1, <2>1 DEF FlagInv, PersonStaysLast
  <1> QED
    BY <1>3, <1>4, <1>5, <1>6 DEF FlagInv

LEMMA DisposeInv == ASSUME FlagInv, Dispose PROVE FlagInv'
  <1>1. \A d \in Cameras, j \in Kinds : timers'[d][j] = {}
    BY DEF Dispose
  <1>2. StateTypeOK'
    BY DEF FlagInv, StateTypeOK, Dispose
  <1>3. TimersYoung' /\ FlagsFollowTimers'
    BY <1>1 DEF TimersYoung, FlagsFollowTimers, Dispose
  <1>4. PersonStaysLast'
    BY DEF FlagInv, PersonStaysLast, Dispose
  <1> QED
    BY <1>2, <1>3, <1>4 DEF FlagInv

LEMMA TickInv == ASSUME FlagInv, Tick PROVE FlagInv'
  <1> USE HoldFacts
  <1>1. /\ timers' = [c \in Cameras |-> [k \in Kinds |->
                       {IF n = 0 THEN 0 ELSE n - 1 : n \in timers[c][k]}]]
        /\ age' = [c \in Cameras |-> [k \in Kinds |->
                    IF age[c][k] < Forgotten THEN age[c][k] + 1 ELSE Forgotten]]
        /\ UNCHANGED <<revision, raised, last, disposed>>
    BY DEF Tick
  <1>2. StateTypeOK
    BY DEF FlagInv
  <1>3. ASSUME NEW c \in Cameras, NEW k \in Kinds
        PROVE  /\ age[c][k] \in 0 .. Forgotten
               /\ age'[c][k] = IF age[c][k] < Forgotten THEN age[c][k] + 1 ELSE Forgotten
               /\ timers[c][k] \subseteq 0 .. DetectionHold
               /\ timers'[c][k] = {IF n = 0 THEN 0 ELSE n - 1 : n \in timers[c][k]}
    BY <1>1, <1>2 DEF StateTypeOK
  <1>4. StateTypeOK'
    <2>1. timers' \in [Cameras -> [Kinds -> SUBSET (0 .. DetectionHold)]]
      BY <1>1, <1>3
    <2>2. age' \in [Cameras -> [Kinds -> 0 .. Forgotten]]
      BY <1>1, <1>3
    <2> QED
      BY <1>1, <1>2, <2>1, <2>2 DEF StateTypeOK
  <1>5. TimersYoung'
    <2> SUFFICES ASSUME NEW c \in Cameras, NEW k \in Kinds, NEW m \in timers'[c][k]
                 PROVE  DetectionHold - m <= age'[c][k]
      BY DEF TimersYoung
    <2>1. PICK n \in timers[c][k] : m = IF n = 0 THEN 0 ELSE n - 1
      BY <1>3
    <2>2. n \in Nat /\ n <= DetectionHold /\ DetectionHold - n <= age[c][k]
      BY <1>3 DEF FlagInv, TimersYoung
    <2> QED
      BY <1>3, <2>1, <2>2
  <1>6. FlagsFollowTimers'
    <2>1. \A c \in Cameras, k \in Kinds : timers'[c][k] = {} <=> timers[c][k] = {}
      BY <1>3
    <2> QED
      BY <1>1, <2>1 DEF FlagInv, FlagsFollowTimers
  <1>7. PersonStaysLast'
    <2> SUFFICES ASSUME NEW c \in Cameras, "person" \in raised[c],
                        age'[c]["person"] <= PersonPrecedence
                 PROVE  \/ last[c] = "person"
                        \/ "doorbell" \in Kinds /\ age'[c]["doorbell"] <= age'[c]["person"]
      BY <1>1 DEF PersonStaysLast
    <2>1. "person" \in Kinds
      BY <1>2 DEF StateTypeOK
    <2>2. age[c]["person"] \in Nat /\ age'[c]["person"] = age[c]["person"] + 1
      BY <1>3, <2>1
    <2>3. \/ last[c] = "person"
          \/ "doorbell" \in Kinds /\ age[c]["doorbell"] <= age[c]["person"]
      BY <2>2 DEF FlagInv, PersonStaysLast
    <2>4. ASSUME "doorbell" \in Kinds, age[c]["doorbell"] <= age[c]["person"]
          PROVE  age'[c]["doorbell"] <= age'[c]["person"]
      BY <1>3, <2>1, <2>2, <2>4
    <2> QED
      BY <2>3, <2>4
  <1> QED
    BY <1>4, <1>5, <1>6, <1>7 DEF FlagInv

LEMMA OthersInv ==
  ASSUME FlagInv, StateTypeOK', UNCHANGED <<raised, timers, age, last, disposed>>
  PROVE  FlagInv'
  <1>1. TimersYoung' /\ FlagsFollowTimers' /\ PersonStaysLast'
    BY DEF FlagInv, TimersYoung, FlagsFollowTimers, PersonStaysLast
  <1> QED
    BY <1>1 DEF FlagInv

\* A step of the composition is one of these, or leaves the state alone.
Operation ==
  \/ \E c \in Cameras, k \in Kinds : RecordDetection(c, k) \/ ClearDetection(c, k)
  \/ \E o \in Objects : Register(o) \/ Revise(o)
  \/ Dispose \/ Tick
  \/ Fresh'
  \/ UNCHANGED states

LEMMA StepIsOperation == [Next]_vars => Operation
  <1> SUFFICES ASSUME [Next]_vars PROVE Operation
    OBVIOUS
  <1>1. CASE Gateway
    <2>1. CASE \E c \in Cameras, k \in Kinds : Detection(c, k) \/ DetectionEnds(c, k)
      BY <2>1 DEF Operation, Detection, DetectionEnds
    <2>2. CASE \E o \in Objects : NewObject(o) \/ Change(o)
      BY <2>2 DEF Operation, NewObject, Change
    <2>3. CASE \E s \in Stations : StationCommand(s)
      BY <2>3 DEF Operation, StationCommand, Objects
    <2>4. CASE \E list \in Lists : AnswerList(list)
      BY <2>4 DEF Operation, AnswerList
    <2>5. CASE TimePasses \/ Shutdown
      BY <2>5 DEF Operation, TimePasses, Shutdown
    <2>6. CASE ServerClosed
      BY <2>6 DEF Operation, ServerClosed
    <2>7. CASE Restart
      BY <2>7 DEF Operation, Restart, Fresh
    <2> QED
      BY <1>1, <2>1, <2>2, <2>3, <2>4, <2>5, <2>6, <2>7 DEF Gateway
  <1>2. CASE Coordinator
    BY <1>2 DEF Operation, Coordinator, Connect, Disconnect, GoSilent, ApplyEvent,
                ReplyArrives, StartPoll, FinishPoll, FailPoll
  <1>3. CASE UNCHANGED vars
    BY <1>3 DEF Operation, vars
  <1> QED
    BY <1>1, <1>2, <1>3 DEF Next

LEMMA FlagNext == FlagInv /\ [Next]_vars => FlagInv'
  <1> SUFFICES ASSUME FlagInv, Operation PROVE FlagInv'
    BY StepIsOperation
  <1>1. ASSUME NEW o \in Objects, Register(o) \/ Revise(o) PROVE FlagInv'
    <2>1. revision' \in [Objects -> Nat] /\ UNCHANGED <<raised, timers, age, last, disposed>>
      BY <1>1 DEF FlagInv, StateTypeOK, Register, Revise
    <2>2. StateTypeOK'
      BY <2>1 DEF FlagInv, StateTypeOK
    <2> QED
      BY <2>1, <2>2, OthersInv
  <1>2. CASE UNCHANGED states
    <2>1. StateTypeOK' /\ UNCHANGED <<raised, timers, age, last, disposed>>
      BY <1>2 DEF FlagInv, StateTypeOK, states
    <2> QED
      BY <2>1, OthersInv
  <1> QED
    BY <1>1, <1>2, DetectionInv, ClearInv, DisposeInv, TickInv, RestartedInv DEF Operation

LEMMA FlagInit == Init => FlagInv
  BY FreshInv DEF Init, StateInit, Fresh

-----------------------------------------------------------------------------
(***************************************************************************)
(* Types of the composition.                                               *)
(***************************************************************************)

LEMMA AbsentType == Absent \in Publication
  BY DEF Absent, Publication

LEMMA PublishedType ==
  ASSUME StateTypeOK, NEW o \in Objects
  PROVE  Published(o) \in Publication
  BY DEF StateTypeOK, Published, Publication

LEMMA NewPublishedType ==
  ASSUME StateTypeOK', NEW o \in Objects
  PROVE  Published(o)' \in Publication
  BY DEF StateTypeOK, Published, Publication

FeedTypes ==
  /\ main \in {"running", "draining", "closed"}
  /\ restarts \in Nat
  /\ sse \in {"unstarted", "waiting", "on", "silent"}
  /\ channel \in Seq(Events)
  /\ polling \in BOOLEAN
  /\ asked \subseteq Lists
  /\ answer \in [Objects -> Publication]
  /\ replies \subseteq [object : Stations, state : Publication]
  /\ view \in [Objects -> Publication]

LEMMA SentType ==
  ASSUME StateTypeOK', FeedTypes, NEW o \in Objects
  PROVE  Append(channel, Update(o, Published(o)')) \in Seq(Events)
  <1>1. Update(o, Published(o)') \in Events
    BY NewPublishedType DEF Update, Events
  <1> QED
    BY <1>1, AppendProperties DEF FeedTypes

LEMMA GatewayTypes ==
  ASSUME StateTypeOK, StateTypeOK', FeedTypes, Gateway
  PROVE  FeedTypes'
  <1>1. ASSUME NEW o \in Objects, Emit(o) PROVE FeedTypes'
    BY <1>1, SentType DEF Emit, FeedTypes
  <1>2. CASE \E c \in Cameras, k \in Kinds : Detection(c, k) \/ DetectionEnds(c, k)
    BY <1>1, <1>2 DEF Detection, DetectionEnds, Objects
  <1>3. CASE \E o \in Objects : NewObject(o) \/ Change(o)
    BY <1>1, <1>3 DEF NewObject, Change
  <1>4. ASSUME NEW s \in Stations, StationCommand(s) PROVE FeedTypes'
    <2>1. s \in Objects
      BY DEF Objects
    <2>2. channel' \in Seq(Events)
      BY <1>4, <2>1, SentType DEF StationCommand, FeedTypes
    <2>3. [object |-> s, state |-> Published(s)'] \in [object : Stations, state : Publication]
      BY <2>1, NewPublishedType
    <2> QED
      BY <1>4, <2>2, <2>3 DEF StationCommand, FeedTypes
  <1>5. ASSUME NEW list \in Lists, AnswerList(list) PROVE FeedTypes'
    <2>1. answer' \in [Objects -> Publication]
      BY <1>5, PublishedType DEF AnswerList, FeedTypes
    <2> QED
      BY <1>5, <2>1 DEF AnswerList, FeedTypes
  <1>6. CASE TimePasses
    BY <1>6 DEF TimePasses, FeedTypes, feed
  <1>7. CASE Shutdown
    BY <1>7 DEF Shutdown, FeedTypes, feed
  <1>8. CASE ServerClosed
    BY <1>8 DEF ServerClosed, FeedTypes, feed
  <1>9. CASE Restart
    <2>1. <<>> \in Seq(Events)
      BY EmptySeq
    <2>2. answer' \in [Objects -> Publication]
      BY <1>9, AbsentType DEF Restart, FeedTypes
    <2> QED
      BY <1>9, <2>1, <2>2 DEF Restart, FeedTypes
  <1> QED
    BY <1>2, <1>3, <1>4, <1>5, <1>6, <1>7, <1>8, <1>9 DEF Gateway

LEMMA CoordinatorTypes ==
  ASSUME StateTypeOK, FeedTypes, Coordinator
  PROVE  FeedTypes'
  <1>1. CASE Connect
    <2>1. [c \in Cameras |-> Published(c)] \in [Cameras -> Publication]
      BY PublishedType DEF Objects
    <2>2. Ready([c \in Cameras |-> Published(c)]) \in Events
      BY <2>1 DEF Ready, Events
    <2> QED
      BY <1>1, <2>2 DEF Connect, FeedTypes
  <1>2. CASE Disconnect \/ GoSilent
    <2>1. <<>> \in Seq(Events)
      BY EmptySeq
    <2> QED
      BY <1>2, <2>1 DEF Disconnect, GoSilent, FeedTypes
  <1>3. CASE ApplyEvent
    <2>1. channel' \in Seq(Events) /\ Head(channel) \in Events
      BY <1>3, HeadTailProperties DEF ApplyEvent, FeedTypes
    <2>2. CASE Head(channel).type = "ready"
      <3>1. Head(channel).cameras \in [Cameras -> Publication]
        BY <2>1, <2>2 DEF Events
      <3>2. view' \in [Objects -> Publication]
        BY <1>3, <2>2, <3>1 DEF ApplyEvent, FeedTypes
      <3> QED
        BY <1>3, <2>1, <3>2 DEF ApplyEvent, FeedTypes
    <2>3. CASE Head(channel).type # "ready"
      <3>1. Head(channel).object \in Objects /\ Head(channel).state \in Publication
        BY <2>1, <2>3 DEF Events
      <3>2. view' \in [Objects -> Publication]
        BY <1>3, <2>3, <3>1 DEF ApplyEvent, FeedTypes
      <3> QED
        BY <1>3, <2>1, <3>2 DEF ApplyEvent, FeedTypes
    <2> QED
      BY <2>2, <2>3
  <1>4. CASE ReplyArrives
    <2>1. PICK r \in replies : /\ replies' = replies \ {r}
                               /\ view' \in {view, [view EXCEPT ![r.object] = r.state]}
      BY <1>4 DEF ReplyArrives
    <2>2. view' \in [Objects -> Publication] /\ replies' \subseteq replies
      BY <2>1 DEF FeedTypes
    <2> QED
      BY <1>4, <2>2 DEF ReplyArrives, FeedTypes
  <1>5. CASE StartPoll \/ FinishPoll
    <2>1. [o \in Objects |-> Absent] \in [Objects -> Publication]
      BY AbsentType
    <2> QED
      BY <1>5, <2>1 DEF StartPoll, FinishPoll, FeedTypes
  <1>6. CASE FailPoll
    BY <1>6, AbsentType DEF FailPoll, FeedTypes
  <1> QED
    BY <1>1, <1>2, <1>3, <1>4, <1>5, <1>6 DEF Coordinator

LEMMA FeedInit == Init => FeedTypes
  <1> SUFFICES ASSUME Init PROVE FeedTypes
    OBVIOUS
  <1>1. <<>> \in Seq(Events)
    BY EmptySeq
  <1>2. [o \in Objects |-> Absent] \in [Objects -> Publication]
    BY AbsentType
  <1> QED
    BY <1>1, <1>2 DEF Init, FeedTypes

LEMMA FeedNext == StateTypeOK /\ StateTypeOK' /\ FeedTypes /\ [Next]_vars => FeedTypes'
  <1>1. CASE UNCHANGED vars
    BY <1>1 DEF vars, feed, FeedTypes
  <1> QED
    BY <1>1, GatewayTypes, CoordinatorTypes DEF Next

FeedInv == FlagInv /\ FeedTypes

LEMMA InitInv == Init => FeedInv
  BY FlagInit, FeedInit DEF FeedInv

LEMMA NextInv == FeedInv /\ [Next]_vars => FeedInv'
  <1>1. FlagInv => StateTypeOK
    BY DEF FlagInv
  <1>2. FlagInv' => StateTypeOK'
    BY DEF FlagInv
  <1> QED
    BY <1>1, <1>2, FlagNext, FeedNext DEF FeedInv

-----------------------------------------------------------------------------
(***************************************************************************)
(* Theorems.                                                               *)
(***************************************************************************)

\* Types of the gateway's state and of everything on its way to Home Assistant.
THEOREM FeedTypesHold == Spec => []FeedTypeOK
  <1>1. FeedInv => FeedTypeOK
    BY DEF FeedInv, FlagInv, FeedTypes, FeedTypeOK
  <1> QED
    BY <1>1, InitInv, NextInv, PTL DEF Spec

\* A detection flag is up exactly while its clear timer runs, and no timer outlives
\* the detection it was set for, through any detections, timers and restarts.
THEOREM FlagsHaveTimers == Spec => []RaisedWhileHeld
  <1>1. FeedInv => RaisedWhileHeld
    BY DEF FeedInv, FlagInv, FlagsFollowTimers, TimersYoung, RaisedWhileHeld
  <1> QED
    BY <1>1, InitInv, NextInv, PTL DEF Spec

\* A person who is shown as present is the last detection, until a doorbell or the
\* end of the precedence: motion events of the same moment never hide the person.
THEOREM PersonTakesPrecedence == Spec => []PersonStaysLast
  <1>1. FeedInv => PersonStaysLast
    BY DEF FeedInv, FlagInv
  <1> QED
    BY <1>1, InitInv, NextInv, PTL DEF Spec

\* A flag comes down only a whole hold period after its last detection, or with the
\* process.
THEOREM FlagsHeldInFull == Spec => HeldInFull
  <1>1. FeedInv /\ [Next]_vars =>
          [\A c \in Cameras, k \in Kinds :
             k \in raised[c] \ raised'[c] => age[c][k] >= DetectionHold \/ ~Known(c)']_states
    <2> SUFFICES ASSUME FlagInv, Operation, NEW c \in Cameras, NEW k \in Kinds,
                        k \in raised[c], k \notin raised'[c], ~UNCHANGED states
                 PROVE  age[c][k] >= DetectionHold \/ ~Known(c)'
      BY StepIsOperation DEF FeedInv
    <2>1. ASSUME NEW d \in Cameras, NEW j \in Kinds, RecordDetection(d, j) PROVE FALSE
      BY <2>1 DEF RecordDetection, FlagInv, StateTypeOK
    <2>2. ASSUME NEW d \in Cameras, NEW j \in Kinds, ClearDetection(d, j)
          PROVE  age[c][k] >= DetectionHold
      <3>1. d = c /\ j = k
        BY <2>2 DEF ClearDetection, FlagInv, StateTypeOK
      <3>2. DetectionHold - 0 <= age[c][k]
        BY <2>2, <3>1 DEF ClearDetection, FlagInv, TimersYoung
      <3>3. age[c][k] \in Nat
        BY HoldFacts DEF FlagInv, StateTypeOK
      <3> QED
        BY <3>2, <3>3, HoldFacts
    <2>3. ASSUME NEW o \in Objects, Register(o) \/ Revise(o) PROVE FALSE
      BY <2>3 DEF Register, Revise
    <2>4. CASE Dispose \/ Tick
      BY <2>4 DEF Dispose, Tick
    <2>5. CASE Fresh'
      BY <2>5 DEF Fresh, Known, Objects
    <2> QED
      BY <2>1, <2>2, <2>3, <2>4, <2>5 DEF Operation
  <1> QED
    BY <1>1, InitInv, NextInv, PTL DEF Spec, HeldInFull
=============================================================================
