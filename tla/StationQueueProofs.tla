------------------------- MODULE StationQueueProofs -------------------------
(***************************************************************************)
(* Theorems of StationQueue, for any requests, cameras and modes and any   *)
(* number of changes by others.                                            *)
(***************************************************************************)
EXTENDS StationQueue, TLAPS

\* The pending operations form one line: each is behind exactly those requested
\* before it, and is chained to the last of them.
Line ==
  /\ \A t \in Ops : t \notin Pending => after[t] = NoOp /\ ahead[t] = {}
  /\ \A t \in Pending : ahead[t] \subseteq Pending \ {t}
  /\ \A t, u \in Pending : t # u => (t \in ahead[u] <=> u \notin ahead[t])
  /\ \A t \in Pending : after[t] = NoOp => ahead[t] = {}
  /\ \A t \in Pending :
       after[t] # NoOp => /\ after[t] \in Pending
                          /\ ahead[t] = ahead[after[t]] \cup {after[t]}
  /\ tail # NoOp => tail \in Pending /\ ahead[tail] = Pending \ {tail}
  /\ tail = NoOp => Pending = {}

\* What is known of a write by the time it reads the state back.
WriteProgress ==
  \A w \in Writes :
    /\ phase[w] # "idle" => goal[w] \in Modes
    /\ phase[w] \in {"idle", "queued", "connecting"} => command[w] = "none"
    /\ command[w] = "accepted" => applied[w] > 0
    /\ applied[w] <= device.number
    /\ phase[w] # "storage"
    /\ phase[w] = "reading" => command[w] = "accepted"
    /\ reply[w] # NoSetting => phase[w] = "reading" /\ reply[w].number >= applied[w]

StationInv ==
  /\ TypeOK
  /\ Line
  /\ ServedInOrder
  /\ WriteProgress
  /\ AlarmFollowsPushes
  /\ ClosedIsQuiet

-----------------------------------------------------------------------------
(***************************************************************************)
(* The line.                                                               *)
(***************************************************************************)

LEMMA EnqueueLine ==
  ASSUME TypeOK, Line, ServedInOrder, NEW t \in Ops, t \notin Pending, Enqueue(t)
  PROVE  Line' /\ ServedInOrder' /\ Pending' = Pending \cup {t}
<1> USE OpsAssumption
<1>1. Pending' = Pending \cup {t}
  BY DEF Enqueue, Pending, TypeOK, InSession
<1>2. /\ after' = [after EXCEPT ![t] = tail]
      /\ ahead' = [ahead EXCEPT ![t] = Pending]
      /\ tail' = t
      /\ after \in [Ops -> Ops \cup {NoOp}] /\ ahead \in [Ops -> SUBSET Ops]
      /\ Pending \subseteq Ops
  BY DEF Enqueue, TypeOK, Pending
<1>3. Line'
  BY <1>1, <1>2 DEF Line
<1>4. ServedInOrder'
  BY <1>2 DEF Enqueue, ServedInOrder, TypeOK, InSession
<1> QED BY <1>1, <1>3, <1>4

\* Only the first in the line settles; the next becomes the first.
LEMMA SettleLine ==
  ASSUME TypeOK, Line, ServedInOrder, NEW t \in Pending, after[t] = NoOp,
         NEW outcome \in {"ok", "failed"}, Settle(t, outcome)
  PROVE  Line' /\ ServedInOrder' /\ Pending' = Pending \ {t}
<1> USE OpsAssumption
<1>1. Pending' = Pending \ {t}
  BY DEF Settle, Pending, TypeOK, InSession
<1>2. /\ after' = [u \in Ops |-> IF after[u] = t THEN NoOp ELSE after[u]]
      /\ ahead' = [u \in Ops |-> ahead[u] \ {t}]
      /\ tail' = IF tail = t THEN NoOp ELSE tail
      /\ after \in [Ops -> Ops \cup {NoOp}] /\ ahead \in [Ops -> SUBSET Ops]
      /\ Pending \subseteq Ops
  BY DEF Settle, TypeOK, Pending
<1>3. ahead[t] = {} /\ \A u \in Pending : u # t => t \in ahead[u]
  BY DEF Line
<1>4. Line'
  BY <1>1, <1>2, <1>3 DEF Line
<1>5. ServedInOrder'
  BY <1>2 DEF Settle, ServedInOrder, TypeOK, InSession
<1> QED BY <1>1, <1>4, <1>5

\* The first in the line moves on without settling.
LEMMA MoveLine ==
  ASSUME TypeOK, Line, ServedInOrder, NEW t \in Pending, after[t] = NoOp,
         NEW to \in InSession, phase' = [phase EXCEPT ![t] = to],
         UNCHANGED <<after, ahead, tail>>
  PROVE  Line' /\ ServedInOrder' /\ Pending' = Pending
<1>1. Pending' = Pending
  BY DEF Pending, TypeOK, InSession
<1>2. ahead[t] = {}
  BY DEF Line
<1> QED BY <1>1, <1>2 DEF Line, ServedInOrder, TypeOK, InSession, Pending

\* An operation with an open session is the first in the line.
LEMMA SessionIsFirst ==
  ASSUME TypeOK, Line, ServedInOrder, NEW t \in Ops, phase[t] \in InSession
  PROVE  t \in Pending /\ after[t] = NoOp
  BY DEF Pending, Line, ServedInOrder, TypeOK

LEMMA StationInvQueue ==
  ASSUME StationInv
  PROVE  OneSession /\ EntryWhilePending
  BY DEF StationInv, Line, ServedInOrder, OneSession, EntryWhilePending, Pending

-----------------------------------------------------------------------------
(***************************************************************************)
(* The inductive invariant, action by action.                              *)
(***************************************************************************)

LEMMA SettingTypes ==
  /\ NoSetting \in Settings
  /\ \A m \in Modes, n \in Nat : [mode |-> m, number |-> n] \in Settings
  /\ \A s \in Settings : ModePush(s) \in Pushes
  /\ \A x \in Sirens : SirenPush(x) \in Pushes
  BY DEF NoSetting, Settings, ModePush, SirenPush, Pushes, Sirens

LEMMA InitInv == Init => StationInv
<1> SUFFICES ASSUME Init PROVE StationInv
  OBVIOUS
<1>1. TypeOK
  BY SettingTypes DEF Init, TypeOK, Phases, InSession, Sirens
<1>2. Pending = {}
  BY DEF Init, Pending, InSession
<1>3. Line /\ ServedInOrder
  BY <1>2 DEF Init, Line, ServedInOrder
<1>4. WriteProgress
  BY OpsAssumption DEF Init, WriteProgress, Ops, Requests
<1>5. AlarmFollowsPushes /\ ClosedIsQuiet
  BY <1>2 DEF Init, AlarmFollowsPushes, ClosedIsQuiet
<1> QED BY <1>1, <1>3, <1>4, <1>5 DEF StationInv

LEMMA RequestInv ==
  ASSUME StationInv, NEW t \in Requests, Request(t)
  PROVE  StationInv'
<1> USE DEF StationInv
<1>1. t \in Ops /\ t \notin Pending /\ Enqueue(t)
  BY DEF Request, Ops, Pending, InSession
<1>2. Line' /\ ServedInOrder'
  BY <1>1, EnqueueLine
<1>3. TypeOK'
  BY <1>1 DEF Request, Enqueue, TypeOK, homebase, history, Phases, Pending
<1>4. WriteProgress'
  BY <1>1 DEF Request, Enqueue, TypeOK, homebase, history, WriteProgress, Ops, Requests
<1>5. AlarmFollowsPushes' /\ ClosedIsQuiet'
  BY DEF Request, history, AlarmFollowsPushes, ClosedIsQuiet
<1> QED BY <1>2, <1>3, <1>4, <1>5

LEMMA PollTimerInv ==
  ASSUME StationInv, PollTimer
  PROVE  StationInv'
<1> USE DEF StationInv
<1>1. Poll \in Ops /\ Poll \notin Pending /\ Enqueue(Poll)
  BY DEF PollTimer, Ops, Line
<1>2. Line' /\ ServedInOrder'
  BY <1>1, EnqueueLine
<1>3. TypeOK'
  BY <1>1 DEF PollTimer, Enqueue, TypeOK, homebase, history, Phases, Pending
<1>4. WriteProgress'
  BY <1>1, OpsAssumption
     DEF PollTimer, Enqueue, TypeOK, homebase, history, WriteProgress, Ops, Requests
<1>5. AlarmFollowsPushes' /\ ClosedIsQuiet'
  BY DEF PollTimer, history, AlarmFollowsPushes, ClosedIsQuiet
<1> QED BY <1>2, <1>3, <1>4, <1>5

LEMMA BeginInv ==
  ASSUME StationInv, NEW t \in Ops, Begin(t)
  PROVE  StationInv'
<1> USE DEF StationInv
<1>1. t \in Pending /\ after[t] = NoOp
  BY DEF Begin, Pending
<1>2. CASE t \notin Writes /\ Settle(t, "ok") /\ UNCHANGED media
  <2>1. Line' /\ ServedInOrder' /\ Pending' = Pending \ {t}
    BY <1>1, <1>2, SettleLine
  <2>2. TypeOK'
    BY <1>2, SettingTypes DEF Begin, Settle, TypeOK, homebase, history, Phases
  <2>3. WriteProgress'
    BY <1>2 DEF Begin, Settle, TypeOK, homebase, history, WriteProgress, Ops, Requests
  <2>4. AlarmFollowsPushes' /\ ClosedIsQuiet'
    BY <2>1 DEF Begin, history, AlarmFollowsPushes, ClosedIsQuiet
  <2> QED BY <2>1, <2>2, <2>3, <2>4
<1>3. CASE /\ media' = {} /\ phase' = [phase EXCEPT ![t] = "connecting"]
           /\ UNCHANGED <<after, ahead, tail, reply>>
  <2>1. Line' /\ ServedInOrder' /\ Pending' = Pending
    BY <1>1, <1>3, MoveLine DEF InSession
  <2>2. TypeOK'
    BY <1>3 DEF Begin, TypeOK, homebase, history, Phases, InSession
  <2>3. WriteProgress'
    BY <1>3 DEF Begin, TypeOK, homebase, history, WriteProgress, Ops, Requests
  <2>4. AlarmFollowsPushes' /\ ClosedIsQuiet'
    BY <2>1 DEF Begin, history, AlarmFollowsPushes, ClosedIsQuiet
  <2> QED BY <2>1, <2>2, <2>3, <2>4
<1> QED BY <1>2, <1>3 DEF Begin

\* Steps of an open session that neither settle nor publish.
LEMMA AdvanceInv ==
  ASSUME StationInv, NEW t \in Ops, NEW from \in InSession, NEW to \in InSession,
         Advance(t, from, to), UNCHANGED reply, to # "connecting",
         t \in Writes => from # "reading" /\ to # "storage",
         t \in Writes /\ to = "reading" => command[t] = "accepted",
         \/ UNCHANGED command
         \/ t \in Writes /\ from = "connecting" /\ command' = [command EXCEPT ![t] = "sent"]
  PROVE  StationInv'
<1> USE DEF StationInv
<1>1. t \in Pending /\ after[t] = NoOp
  BY SessionIsFirst DEF Advance
<1>2. Line' /\ ServedInOrder' /\ Pending' = Pending
  BY <1>1, MoveLine DEF Advance
<1>3. TypeOK'
  BY DEF Advance, TypeOK, homebase, history, Phases
<1>4. WriteProgress'
  BY DEF Advance, TypeOK, homebase, history, WriteProgress, Ops, Requests, InSession
<1>5. AlarmFollowsPushes' /\ ClosedIsQuiet'
  BY <1>2 DEF Advance, history, AlarmFollowsPushes, ClosedIsQuiet
<1> QED BY <1>2, <1>3, <1>4, <1>5

LEMMA ConnectedInv ==
  ASSUME StationInv, NEW t \in Ops, Connected(t)
  PROVE  StationInv'
<1>1. CASE t \in Writes /\ Advance(t, "connecting", "writing") /\ UNCHANGED reply
           /\ command' = [command EXCEPT ![t] = "sent"]
  BY <1>1, AdvanceInv DEF InSession
<1>2. CASE t \notin Writes /\ Advance(t, "connecting", "reading")
           /\ UNCHANGED <<reply, command>>
  BY <1>2, AdvanceInv DEF InSession
<1> QED BY <1>1, <1>2 DEF Connected

LEMMA AckArrivesInv ==
  ASSUME StationInv, NEW t \in Ops, AckArrives(t)
  PROVE  StationInv'
  BY AdvanceInv DEF AckArrives, InSession

\* A session ends: its operation settles, with or without a new setting.
LEMMA EndInv ==
  ASSUME StationInv, NEW t \in Ops, phase[t] \in InSession,
         NEW outcome \in {"ok", "failed"}, Settle(t, outcome),
         station' \in [setting : Settings, connected : BOOLEAN, alarm : Sirens],
         station'.alarm = station.alarm,
         UNCHANGED <<goal, media, service, homebase, command, pushes, history>>
  PROVE  StationInv'
<1> USE DEF StationInv
<1>1. t \in Pending /\ after[t] = NoOp
  BY SessionIsFirst
<1>2. Line' /\ ServedInOrder' /\ Pending' = Pending \ {t}
  BY <1>1, SettleLine
<1>3. TypeOK'
  BY SettingTypes DEF Settle, TypeOK, homebase, history, Phases
<1>4. WriteProgress'
  BY DEF Settle, TypeOK, homebase, history, WriteProgress, Ops, Requests, InSession
<1>5. AlarmFollowsPushes' /\ ClosedIsQuiet'
  BY <1>2 DEF history, AlarmFollowsPushes, ClosedIsQuiet
<1> QED BY <1>2, <1>3, <1>4, <1>5

LEMMA ReadArrivesInv ==
  ASSUME StationInv, NEW t \in Ops, ReadArrives(t)
  PROVE  StationInv'
<1> USE DEF StationInv
<1>1. phase[t] \in InSession
  BY DEF ReadArrives, InSession
<1>2. CASE t \in Writes /\ Publish(reply[t]) /\ Settle(t, "ok")
  <2>1. /\ station' \in [setting : Settings, connected : BOOLEAN, alarm : Sirens]
        /\ station'.alarm = station.alarm
    BY <1>2 DEF Publish, TypeOK
  <2> QED BY <1>1, <1>2, <2>1, EndInv DEF ReadArrives
<1>3. CASE /\ t \notin Writes /\ phase' = [phase EXCEPT ![t] = "storage"]
           /\ UNCHANGED <<after, ahead, tail, reply, station>>
  <2>1. Advance(t, "reading", "storage") /\ UNCHANGED <<reply, command>>
    BY <1>3 DEF ReadArrives, Advance
  <2> QED BY <1>3, <2>1, AdvanceInv DEF InSession
<1> QED BY <1>2, <1>3 DEF ReadArrives

LEMMA StorageSettlesInv ==
  ASSUME StationInv, NEW t \in Ops, StorageSettles(t)
  PROVE  StationInv'
<1>1. /\ station' \in [setting : Settings, connected : BOOLEAN, alarm : Sirens]
      /\ station'.alarm = station.alarm
  BY DEF StorageSettles, Publish, StationInv, TypeOK
<1> QED BY <1>1, EndInv DEF StorageSettles, InSession

LEMMA FailsInv ==
  ASSUME StationInv, NEW t \in Ops, Fails(t)
  PROVE  StationInv'
<1>1. /\ station' \in [setting : Settings, connected : BOOLEAN, alarm : Sirens]
      /\ station'.alarm = station.alarm
  BY DEF Fails, StationInv, TypeOK
<1> QED BY <1>1, EndInv DEF Fails

\* Steps that touch neither the line nor the phases.
LEMMA LineKept ==
  ASSUME Line, ServedInOrder, UNCHANGED <<phase, after, ahead, tail>>
  PROVE  Line' /\ ServedInOrder' /\ Pending' = Pending
  BY DEF Line, ServedInOrder, Pending

LEMMA PushArrivesInv ==
  ASSUME StationInv, NEW p \in pushes, PushArrives(p)
  PROVE  StationInv'
<1> USE DEF StationInv
<1>1. Line' /\ ServedInOrder' /\ Pending' = Pending
  BY LineKept DEF PushArrives, queue
<1>2. TypeOK'
  BY DEF PushArrives, queue, homebase, TypeOK, Pushes
<1>3. WriteProgress'
  BY DEF PushArrives, queue, homebase, WriteProgress
<1>4. AlarmFollowsPushes' /\ ClosedIsQuiet'
  BY <1>1 DEF PushArrives, AlarmFollowsPushes, ClosedIsQuiet, TypeOK
<1> QED BY <1>1, <1>2, <1>3, <1>4

LEMMA ServiceInv ==
  ASSUME StationInv,
         \/ \E c \in Cameras : MediaStarts(c) \/ MediaEnds(c)
         \/ Close
         \/ CloseEnds
  PROVE  StationInv'
<1> USE DEF StationInv, MediaStarts, MediaEnds, Close, CloseEnds
<1>1. Line' /\ ServedInOrder' /\ Pending' = Pending
  BY LineKept DEF queue
<1>2. TypeOK'
  BY DEF queue, homebase, history, TypeOK
<1>3. WriteProgress' /\ AlarmFollowsPushes'
  BY DEF queue, homebase, history, WriteProgress, AlarmFollowsPushes
<1>4. ClosedIsQuiet'
  BY <1>1 DEF ClosedIsQuiet, Line
<1> QED BY <1>1, <1>2, <1>3, <1>4

LEMMA CommandArrivesInv ==
  ASSUME StationInv, NEW w \in Writes, CommandArrives(w)
  PROVE  StationInv'
<1> USE DEF StationInv, CommandArrives
<1>1. Line' /\ ServedInOrder' /\ Pending' = Pending
  BY LineKept DEF queue
<1>2. goal[w] \in Modes /\ phase[w] # "idle" /\ reply[w] = NoSetting
  <2>1. w \in Ops
    BY DEF Ops, Requests
  <2>2. phase[w] # "idle" /\ phase[w] # "reading"
    BY DEF WriteProgress
  <2> QED BY <2>1, <2>2 DEF WriteProgress
<1>3. TypeOK'
  BY <1>2, SettingTypes DEF SetMode, queue, TypeOK
<1>4. WriteProgress'
  BY <1>2 DEF SetMode, queue, TypeOK, WriteProgress, NoSetting, Settings, Ops, Requests
<1>5. AlarmFollowsPushes' /\ ClosedIsQuiet'
  BY <1>1 DEF AlarmFollowsPushes, ClosedIsQuiet
<1> QED BY <1>1, <1>3, <1>4, <1>5

LEMMA ReadAnsweredInv ==
  ASSUME StationInv, NEW t \in Ops, ReadAnswered(t)
  PROVE  StationInv'
<1> USE DEF StationInv, ReadAnswered
<1>1. Line' /\ ServedInOrder' /\ Pending' = Pending
  BY LineKept
<1>2. TypeOK'
  BY SettingTypes DEF homebase, history, TypeOK, Settings
<1>3. WriteProgress'
  BY DEF homebase, history, TypeOK, WriteProgress, Ops, Requests
<1>4. AlarmFollowsPushes' /\ ClosedIsQuiet'
  BY <1>1 DEF history, AlarmFollowsPushes, ClosedIsQuiet
<1> QED BY <1>1, <1>2, <1>3, <1>4

LEMMA EnvironmentInv ==
  ASSUME StationInv, (\E m \in Modes : OtherClientSets(m)) \/ SirenChanges
  PROVE  StationInv'
<1> USE DEF StationInv, OtherClientSets, SirenChanges
<1>1. Line' /\ ServedInOrder' /\ Pending' = Pending
  BY LineKept DEF queue
<1>2. TypeOK'
  BY SettingTypes DEF SetMode, queue, history, TypeOK, Sirens
<1>3. WriteProgress'
  BY DEF SetMode, queue, history, TypeOK, WriteProgress
<1>4. AlarmFollowsPushes' /\ ClosedIsQuiet'
  BY <1>1 DEF history, AlarmFollowsPushes, ClosedIsQuiet
<1> QED BY <1>1, <1>2, <1>3, <1>4

LEMMA StutterInv == StationInv /\ UNCHANGED vars => StationInv'
  BY LineKept
     DEF vars, queue, homebase, history, StationInv, TypeOK, WriteProgress,
         AlarmFollowsPushes, ClosedIsQuiet

LEMMA NextInv == StationInv /\ [Next]_vars => StationInv'
  BY RequestInv, PollTimerInv, BeginInv, ConnectedInv, AckArrivesInv, ReadArrivesInv,
     StorageSettlesInv, FailsInv, PushArrivesInv, ServiceInv, CommandArrivesInv,
     ReadAnsweredInv, EnvironmentInv, StutterInv
     DEF Next

LEMMA Invariance == Spec => []StationInv
  BY InitInv, NextInv, PTL DEF Spec

-----------------------------------------------------------------------------
(***************************************************************************)
(* The operations implement TurnQueue.                                     *)
(***************************************************************************)

LEMMA JoinsTurns ==
  ASSUME StationInv, NEW t \in Ops, t \notin Pending, Enqueue(t)
  PROVE  Turns!Next
<1> USE DEF StationInv
<1>1. Pending = Turns!Present
  BY DEF Pending, Turns!Present
<1>2. {u \in Ops : phase'[u] = "queued"} = {u \in Ops : phase[u] = "queued"} \cup {t}
  BY DEF Enqueue, TypeOK
<1>3. {u \in Ops : phase'[u] \in InSession} = {u \in Ops : phase[u] \in InSession}
  BY DEF Enqueue, TypeOK, Pending, InSession
<1>4. ahead' = [ahead EXCEPT ![t] = Pending]
  BY DEF Enqueue
<1>5. Turns!Join(t)
  BY <1>1, <1>2, <1>3, <1>4 DEF Turns!Join
<1> QED BY <1>5 DEF Turns!Next

LEMMA LeavesTurns ==
  ASSUME StationInv, NEW t \in Pending, after[t] = NoOp,
         NEW outcome \in {"ok", "failed"}, Settle(t, outcome)
  PROVE  Turns!Next
<1> USE DEF StationInv
<1>1. t \in Ops /\ t \in Turns!Present /\ ahead[t] = {}
  BY DEF Pending, Turns!Present, Line
<1>2. {u \in Ops : phase'[u] = "queued"} = {u \in Ops : phase[u] = "queued"} \ {t}
  BY DEF Settle, TypeOK
<1>3. {u \in Ops : phase'[u] \in InSession} = {u \in Ops : phase[u] \in InSession} \ {t}
  BY DEF Settle, TypeOK, InSession
<1>4. ahead' = [d \in Ops |-> ahead[d] \ {t}]
  BY DEF Settle
<1>5. Turns!Leave(t)
  BY <1>1, <1>2, <1>3, <1>4 DEF Turns!Leave
<1> QED BY <1>1, <1>5 DEF Turns!Next

\* A session is open only while its operation has its turn.
LEMMA SessionLeavesTurns ==
  ASSUME StationInv, NEW t \in Ops, phase[t] \in InSession,
         NEW outcome \in {"ok", "failed"}, Settle(t, outcome)
  PROVE  Turns!Next
  BY SessionIsFirst, LeavesTurns DEF StationInv

LEMMA TurnsKept ==
  ASSUME StationInv, UNCHANGED ahead,
         \/ UNCHANGED phase
         \/ \E t \in Ops, to \in InSession :
              phase[t] \in InSession /\ phase' = [phase EXCEPT ![t] = to]
  PROVE  UNCHANGED Turns!turns
<1>1. {u \in Ops : phase'[u] = "queued"} = {u \in Ops : phase[u] = "queued"}
  BY DEF StationInv, TypeOK, InSession
<1>2. {u \in Ops : phase'[u] \in InSession} = {u \in Ops : phase[u] \in InSession}
  BY DEF StationInv, TypeOK
<1> QED BY <1>1, <1>2 DEF Turns!turns

LEMMA BeginTurns ==
  ASSUME StationInv, NEW t \in Ops, Begin(t)
  PROVE  Turns!Next
<1> USE DEF StationInv
<1>1. t \in Pending /\ after[t] = NoOp /\ phase[t] = "queued" /\ ahead[t] = {}
  BY DEF Begin, Pending, Line
<1>2. CASE Settle(t, "ok")
  BY <1>1, <1>2, LeavesTurns
<1>3. CASE phase' = [phase EXCEPT ![t] = "connecting"] /\ UNCHANGED ahead
  <2>1. {u \in Ops : phase[u] \in InSession} = {}
    <3> SUFFICES ASSUME NEW u \in Ops, phase[u] \in InSession PROVE FALSE
      OBVIOUS
    <3>1. u \in Pending /\ ahead[u] = {} /\ u # t
      BY <1>1 DEF Pending, ServedInOrder, InSession
    <3> QED BY <1>1, <3>1 DEF Line
  <2>2. {u \in Ops : phase'[u] = "queued"} = {u \in Ops : phase[u] = "queued"} \ {t}
    BY <1>3 DEF TypeOK
  <2>3. {u \in Ops : phase'[u] \in InSession} = {t}
    BY <1>3, <2>1 DEF TypeOK, InSession
  <2>4. Turns!Serve(t)
    BY <1>1, <1>3, <2>1, <2>2, <2>3 DEF Turns!Serve
  <2> QED BY <2>4 DEF Turns!Next
<1> QED BY <1>2, <1>3 DEF Begin

LEMMA ReadArrivesTurns ==
  ASSUME StationInv, NEW t \in Ops, ReadArrives(t)
  PROVE  [Turns!Next]_(Turns!turns)
<1>1. phase[t] \in InSession
  BY DEF ReadArrives, InSession
<1>2. CASE Settle(t, "ok")
  BY <1>1, <1>2, SessionLeavesTurns
<1>3. CASE phase' = [phase EXCEPT ![t] = "storage"] /\ UNCHANGED ahead
  BY <1>1, <1>3, TurnsKept DEF InSession
<1> QED BY <1>2, <1>3 DEF ReadArrives

LEMMA StepTurns == StationInv /\ [Next]_vars => [Turns!Next]_(Turns!turns)
<1> SUFFICES ASSUME StationInv, [Next]_vars PROVE [Turns!Next]_(Turns!turns)
  OBVIOUS
<1>1. ASSUME NEW t \in Requests, Request(t) PROVE Turns!Next
  BY <1>1, JoinsTurns DEF Request, Ops, Pending, InSession
<1>2. CASE PollTimer
  BY <1>2, JoinsTurns DEF PollTimer, Ops, StationInv, Line
<1>3. ASSUME NEW t \in Ops, Connected(t) \/ AckArrives(t) PROVE UNCHANGED Turns!turns
  BY <1>3, TurnsKept DEF Connected, AckArrives, Advance, InSession
<1>4. ASSUME NEW t \in Ops, StorageSettles(t) \/ Fails(t) PROVE Turns!Next
  BY <1>4, SessionLeavesTurns DEF StorageSettles, Fails, InSession
<1>5. CASE \/ \E p \in pushes : PushArrives(p)
           \/ \E c \in Cameras : MediaStarts(c) \/ MediaEnds(c)
           \/ Close
           \/ CloseEnds
           \/ \E w \in Writes : CommandArrives(w)
           \/ \E t \in Ops : ReadAnswered(t)
           \/ \E m \in Modes : OtherClientSets(m)
           \/ SirenChanges
           \/ UNCHANGED vars
  <2>1. UNCHANGED <<phase, ahead>>
    BY <1>5 DEF PushArrives, MediaStarts, MediaEnds, Close, CloseEnds, CommandArrives,
                ReadAnswered, OtherClientSets, SirenChanges, vars, queue
  <2> QED BY <2>1, TurnsKept
<1> QED BY <1>1, <1>2, <1>3, <1>4, <1>5, BeginTurns, ReadArrivesTurns DEF Next

-----------------------------------------------------------------------------
(***************************************************************************)
(* The theorems.                                                           *)
(***************************************************************************)

\* Types, for any requests and any number of changes by others: an accepted
\* command always carries a checked mode.
THEOREM StationTypes == Spec => []TypeOK
  BY Invariance, PTL DEF StationInv

\* Operations on a HomeBase are serialized: #queueStationOperation never has two
\* sessions open, whichever operations fail and whichever entries are deleted.
THEOREM SessionsSerialized == Spec => []OneSession
<1>1. StationInv => OneSession
  BY StationInvQueue
<1> QED BY <1>1, Invariance, PTL

\* They take their turns in the order of their requests.
THEOREM TurnsInOrder == Spec => []ServedInOrder
  BY Invariance, PTL DEF StationInv

\* The whole queue implements TurnQueue: turns are taken one at a time, in the
\* order of the requests, through every failure, shutdown and repeated poll.
THEOREM QueueTakesTurns == Spec => TakesTurns
<1>1. Init => Turns!Init
  BY DEF Init, Turns!Init, InSession
<1> QED BY <1>1, StepTurns, Invariance, PTL DEF Spec, TakesTurns, Turns!Spec

\* #stationOperations has an entry exactly while an operation is pending.
THEOREM EntriesExact == Spec => []EntryWhilePending
<1>1. StationInv => EntryWhilePending
  BY StationInvQueue
<1> QED BY <1>1, Invariance, PTL

\* The alarm state published by pushes survives every read and write.
THEOREM AlarmKept == Spec => []AlarmFollowsPushes
  BY Invariance, PTL DEF StationInv

\* A closed provider has no session with the HomeBase.
THEOREM CloseWaits == Spec => []ClosedIsQuiet
  BY Invariance, PTL DEF StationInv

\* A write that succeeds was applied by the HomeBase and read back afterwards.
THEOREM ConfirmationsReal == Spec => ConfirmedIsReal
<1> DEFINE Real ==
      \A w \in Writes : phase[w] # "ok" /\ phase'[w] = "ok" =>
        /\ applied[w] > 0
        /\ station'.setting.mode = goal[w]
        /\ station'.setting.number >= applied[w]
<1>1. StationInv /\ Next => Real
  <2> SUFFICES ASSUME StationInv, Next, NEW w \in Writes, phase[w] # "ok", phase'[w] = "ok"
               PROVE  /\ applied[w] > 0
                      /\ station'.setting.mode = goal[w]
                      /\ station'.setting.number >= applied[w]
    OBVIOUS
  <2>1. w \in Ops
    BY DEF Ops, Requests
  <2>2. \E t \in Ops : Begin(t) \/ ReadArrives(t) \/ StorageSettles(t)
    <3>1. ~(\E t \in Requests : Request(t)) /\ ~PollTimer
      BY <2>1 DEF Request, PollTimer, Enqueue, StationInv, TypeOK, Ops
    <3>2. \A t \in Ops : ~Connected(t) /\ ~AckArrives(t) /\ ~Fails(t)
      BY <2>1 DEF Connected, AckArrives, Advance, Fails, Settle, StationInv, TypeOK
    <3>3. phase' # phase
      OBVIOUS
    <3> QED BY <3>1, <3>2, <3>3
            DEF Next, PushArrives, MediaStarts, MediaEnds, Close, CloseEnds,
                CommandArrives, ReadAnswered, OtherClientSets, SirenChanges, queue
  <2>3. PICK t \in Ops : Begin(t) \/ ReadArrives(t) \/ StorageSettles(t)
    BY <2>2
  <2>4. t = w
    BY <2>1, <2>3 DEF Begin, ReadArrives, StorageSettles, Settle, StationInv, TypeOK
  <2>5. ReadArrives(w)
    BY <2>1, <2>3, <2>4
       DEF Begin, StorageSettles, Settle, StationInv, TypeOK, WriteProgress
  <2>6. Confirm(w) /\ Publish(reply[w])
    BY <2>1, <2>5 DEF ReadArrives, StationInv, TypeOK
  <2> QED BY <2>1, <2>5, <2>6
          DEF ReadArrives, Confirm, Publish, StationInv, TypeOK, WriteProgress
<1>2. StationInv /\ [Next]_vars => [Real]_vars
  BY <1>1
<1> QED BY <1>2, Invariance, PTL DEF Spec, ConfirmedIsReal
=============================================================================
