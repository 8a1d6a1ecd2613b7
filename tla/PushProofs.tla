----------------------------- MODULE PushProofs -----------------------------
(***************************************************************************)
(* Theorems of PushReceiver, for any notifications, window and delays.     *)
(***************************************************************************)
EXTENDS PushReceiver, SequenceTheorems, TLAPS

\* A client that is not in use has nothing left to do.
Shut == phase # "up" => /\ timer = 0 /\ ~heartbeat
                        /\ socket \in {"none", "destroyed"} /\ frames = <<>>

\* Ids that will be, or have been, reported as received.
Known ==
  /\ posted \ mail \subseteq handled
  /\ ToSet(ids) \subseteq handled
  /\ ToSet(recorded) \subseteq handled
  /\ ToSet(disk) \subseteq handled
  /\ saving # Idle => ToSet(saving) \subseteq handled

\* The next wait is no shorter than the last, unless a login was accepted since;
\* while the timer runs there is no socket to be lost.
Waits ==
  /\ currentDelay = 0 => waited = 0
  /\ currentDelay # 0 => currentDelay >= waited /\ currentDelay >= FirstDelay
  /\ timer # 0 => socket = "none" /\ frames = <<>>

\* r is the end of w.
EndsWith(w, r) ==
  /\ Len(r) <= Len(w)
  /\ \A i \in 1 .. Len(r) : r[i] = w[Len(w) - Len(r) + i]

\* The client and the receiver remember the same ids, each of them once.  What was
\* handed on is the end of what they remember, and so it is in each copy of it: in
\* the save in progress and on the disk.
Twins ==
  /\ ids = recorded /\ IsInjective(ids)
  /\ phase # "down" => EndsWith(ids, recent)
  /\ phase = "down" => EndsWith(disk, recent)

Copies ==
  /\ IsInjective(disk) /\ EndsWith(disk, recentDisk)
  /\ saving # Idle => IsInjective(saving) /\ EndsWith(saving, recentSaving)

\* The last save to be made has what is recorded; a closed receiver made it.
SavesLast ==
  /\ saving # Idle /\ ~queued => saving = recorded
  /\ saving = Idle => ~queued
  /\ phase # "down" /\ saving = Idle /\ ~failed => disk = recorded
  /\ phase \in {"closed", "down"} => saving = Idle

-----------------------------------------------------------------------------
\* A full window loses its oldest id, and the new one is at its end.
LEMMA RememberShape ==
  ASSUME NEW w \in Windows, NEW m \in Messages
  PROVE  \E k \in {0, 1} :
           /\ k = 1 <=> Len(w) = Window
           /\ Len(w) \in Nat /\ Len(w) <= Window /\ Window \in Nat \ {0}
           /\ Remember(w, m) \in Windows
           /\ Len(Remember(w, m)) = Len(w) - k + 1
           /\ \A i \in 1 .. Len(w) - k : Remember(w, m)[i] = w[i + k]
           /\ Remember(w, m)[Len(w) - k + 1] = m
<1>1. w \in Seq(Messages) /\ Len(w) \in Nat /\ Len(w) <= Window /\ Window \in Nat \ {0}
  BY BoundsAssumption DEF Windows
<1>2. CASE Len(w) < Window
  <2>1. Remember(w, m) = Append(w, m)
    BY <1>2 DEF Remember
  <2>2. /\ Append(w, m) \in Seq(Messages) /\ Len(Append(w, m)) = Len(w) + 1
        /\ \A i \in 1 .. Len(w) : Append(w, m)[i] = w[i]
        /\ Append(w, m)[Len(w) + 1] = m
    BY <1>1
  <2> QED BY <1>1, <1>2, <2>1, <2>2 DEF Windows
<1>3. CASE Len(w) >= Window
  <2>1. Remember(w, m) = Append(Tail(w), m) /\ w # <<>>
    BY <1>1, <1>3 DEF Remember
  <2>2. /\ Tail(w) \in Seq(Messages) /\ Len(Tail(w)) = Len(w) - 1
        /\ \A i \in 1 .. Len(w) - 1 : Tail(w)[i] = w[i + 1]
    BY <1>1, <2>1
  <2> DEFINE t == Tail(w)
  <2> HIDE DEF t
  <2>3. t \in Seq(Messages) /\ Len(t) = Len(w) - 1 /\ \A i \in 1 .. Len(w) - 1 : t[i] = w[i + 1]
    BY <2>2 DEF t
  <2>4. /\ Append(t, m) \in Seq(Messages) /\ Len(Append(t, m)) = Len(t) + 1
        /\ \A i \in 1 .. Len(t) : Append(t, m)[i] = t[i]
        /\ Append(t, m)[Len(t) + 1] = m
    BY <2>3
  <2>5. Remember(w, m) = Append(t, m)
    BY <2>1 DEF t
  <2> QED BY <1>1, <1>3, <2>3, <2>4, <2>5 DEF Windows
<1> QED BY <1>1, <1>2, <1>3

\* The window keeps to its length, and holds nothing but what it held and the new id.
LEMMA RememberWindow ==
  ASSUME NEW w \in Windows, NEW m \in Messages
  PROVE  /\ Remember(w, m) \in Windows
         /\ ToSet(Remember(w, m)) \subseteq ToSet(w) \cup {m}
<1>1. PICK k \in {0, 1} :
        /\ Len(w) \in Nat
        /\ Remember(w, m) \in Windows
        /\ Len(Remember(w, m)) = Len(w) - k + 1
        /\ \A i \in 1 .. Len(w) - k : Remember(w, m)[i] = w[i + k]
        /\ Remember(w, m)[Len(w) - k + 1] = m
  BY RememberShape
<1>2. DOMAIN Remember(w, m) = 1 .. Len(w) - k + 1 /\ DOMAIN w = 1 .. Len(w)
  BY <1>1 DEF Windows
<1>3. ASSUME NEW i \in 1 .. Len(w) - k + 1 PROVE Remember(w, m)[i] \in ToSet(w) \cup {m}
  <2>1. CASE i = Len(w) - k + 1
    BY <1>1, <2>1
  <2>2. CASE i # Len(w) - k + 1
    <3>1. i \in 1 .. Len(w) - k /\ i + k \in 1 .. Len(w)
      BY <1>1, <2>2
    <3> QED BY <1>1, <1>2, <3>1 DEF ToSet
  <2> QED BY <2>1, <2>2
<1> QED BY <1>1, <1>2, <1>3 DEF ToSet

\* A window that remembers a new id holds every id once.
LEMMA RememberOnce ==
  ASSUME NEW w \in Windows, NEW m \in Messages, IsInjective(w), m \notin ToSet(w)
  PROVE  IsInjective(Remember(w, m))
<1> DEFINE v == Remember(w, m)
<1>1. PICK k \in {0, 1} :
        /\ Len(w) \in Nat
        /\ v \in Windows
        /\ Len(v) = Len(w) - k + 1
        /\ \A i \in 1 .. Len(w) - k : v[i] = w[i + k]
        /\ v[Len(w) - k + 1] = m
  BY RememberShape
<1> HIDE DEF v
<1>2. DOMAIN v = 1 .. Len(w) - k + 1 /\ DOMAIN w = 1 .. Len(w)
  BY <1>1 DEF Windows
<1>3. ASSUME NEW i \in 1 .. Len(w) - k
      PROVE  i + k \in DOMAIN w /\ v[i] = w[i + k] /\ v[i] # m
  <2>1. i + k \in DOMAIN w
    BY <1>1, <1>2
  <2> QED BY <1>1, <2>1 DEF ToSet
<1>4. ASSUME NEW i \in DOMAIN v, NEW j \in DOMAIN v, v[i] = v[j] PROVE i = j
  <2>1. CASE i = Len(w) - k + 1 \/ j = Len(w) - k + 1
    BY <1>1, <1>2, <1>3, <1>4, <2>1
  <2>2. CASE i \in 1 .. Len(w) - k /\ j \in 1 .. Len(w) - k
    <3>1. w[i + k] = w[j + k] /\ i + k \in DOMAIN w /\ j + k \in DOMAIN w
      BY <1>3, <1>4, <2>2
    <3>2. i + k = j + k
      BY <3>1 DEF IsInjective
    <3> QED BY <1>1, <2>2, <3>2
  <2> QED BY <1>1, <1>2, <2>1, <2>2
<1> QED BY <1>4 DEF IsInjective, v

\* Two windows that remember the same id keep their common end.
LEMMA RememberEnd ==
  ASSUME NEW w \in Windows, NEW r \in Windows, NEW m \in Messages, EndsWith(w, r)
  PROVE  EndsWith(Remember(w, m), Remember(r, m))
<1> DEFINE v == Remember(w, m)
           s == Remember(r, m)
<1>1. PICK k \in {0, 1} :
        /\ k = 1 <=> Len(w) = Window
        /\ Len(w) \in Nat /\ Len(w) <= Window /\ Window \in Nat \ {0}
        /\ Len(v) = Len(w) - k + 1
        /\ \A i \in 1 .. Len(w) - k : v[i] = w[i + k]
        /\ v[Len(w) - k + 1] = m
  BY RememberShape
<1>2. PICK l \in {0, 1} :
        /\ l = 1 <=> Len(r) = Window
        /\ Len(r) \in Nat
        /\ Len(s) = Len(r) - l + 1
        /\ \A i \in 1 .. Len(r) - l : s[i] = r[i + l]
        /\ s[Len(r) - l + 1] = m
  BY RememberShape
<1> HIDE DEF v, s
<1>3. Len(r) <= Len(w) /\ Len(s) <= Len(v)
  BY <1>1, <1>2 DEF EndsWith
<1>4. ASSUME NEW i \in 1 .. Len(s) PROVE s[i] = v[Len(v) - Len(s) + i]
  <2>1. CASE i = Len(s)
    BY <1>1, <1>2, <1>3, <2>1
  <2>2. CASE i # Len(s)
    <3>1. i \in 1 .. Len(r) - l /\ i + l \in 1 .. Len(r)
      BY <1>2, <2>2
    <3>2. s[i] = w[Len(w) - Len(r) + (i + l)]
      BY <1>2, <3>1 DEF EndsWith
    <3> DEFINE j == Len(v) - Len(s) + i
    <3>3. j \in 1 .. Len(w) - k /\ j + k = Len(w) - Len(r) + (i + l)
      <4>1. j + k = Len(w) - Len(r) + (i + l)
        BY <1>1, <1>2
      <4>2. j = Len(w) - k - (Len(r) - l) + i
        BY <1>1, <1>2
      <4>3. Len(w) - k >= Len(r) - l
        BY <1>1, <1>2, <1>3
      <4> DEFINE a == Len(w) - k
                 b == Len(r) - l
      <4>4. j >= 1 /\ j <= Len(w) - k
        <5>1. a \in Int /\ b \in Int /\ a >= b /\ j = a - b + i /\ i \in 1 .. b
          BY <1>1, <1>2, <3>1, <4>2, <4>3
        <5> HIDE DEF a, b, j
        <5>2. j >= 1 /\ j <= a
          BY <5>1
        <5> QED BY <5>2 DEF a
      <4>5. j \in Int /\ Len(w) - k \in Int
        BY <1>1, <1>2
      <4> QED BY <4>1, <4>4, <4>5
    <3>4. v[j] = w[j + k]
      BY <1>1, <3>3
    <3> QED BY <3>2, <3>3, <3>4
  <2> QED BY <2>1, <2>2
<1> QED BY <1>3, <1>4 DEF EndsWith, v, s

\* A chunk is a sequence of the frames it may hold.
LEMMA ChunkFrames ==
  ASSUME NEW F, NEW first \in SUBSET F, NEW allowed \in SUBSET F,
         NEW chunk \in Chunks(first, allowed)
  PROVE  chunk \in Seq(F)
<1>1. chunk \in SeqOf(first \cup allowed, MaxChunk)
  BY DEF Chunks
<1>2. PICK n \in 0 .. MaxChunk : chunk \in [1 .. n -> first \cup allowed]
  BY <1>1 DEF SeqOf
<1>3. n \in Nat /\ chunk \in [1 .. n -> F]
  BY <1>2, BoundsAssumption
<1> QED BY <1>3

LEMMA EmptyWindow == <<>> \in Windows /\ ToSet(<<>>) = {}
  BY BoundsAssumption DEF Windows, ToSet

\* What handing on a notification does to the two windows and the save.
LEMMA HandleWindows ==
  ASSUME PushTypeOK, HandleMessage
  PROVE  /\ ids' \in Windows /\ recorded' \in Windows /\ saving' \in Windows \cup {Idle}
         /\ queued' \in BOOLEAN
         /\ handled \subseteq handled' /\ handled' \subseteq Messages
         /\ recent' \in Windows /\ recentSaving' \in Windows
         /\ Known => /\ ToSet(ids') \subseteq handled' /\ ToSet(recorded') \subseteq handled'
                     /\ saving' # Idle => ToSet(saving') \subseteq handled'
<1>1. CASE UNCHANGED <<ids, recorded, saving, queued, handled, recent, recentSaving>>
  BY <1>1 DEF PushTypeOK, Known
<1>2. CASE ~UNCHANGED <<ids, recorded, saving, queued, handled, recent, recentSaving>>
  <2> DEFINE h == Head(frames)
  <2>1. /\ h \in Messages /\ ids' = Remember(ids, h) /\ Record(h) /\ handled' = handled \cup {h}
        /\ recent' = Remember(recent, h)
    BY <1>2 DEF HandleMessage
  <2> HIDE DEF h
  <2>2. /\ ids \in Windows /\ recorded \in Windows /\ saving \in Windows \cup {Idle}
        /\ queued \in BOOLEAN /\ handled \subseteq Messages
        /\ recent \in Windows /\ recentSaving \in Windows
    BY DEF PushTypeOK
  <2>3. ids' \in Windows /\ ToSet(ids') \subseteq ToSet(ids) \cup {h} /\ recent' \in Windows
    BY <2>1, <2>2, RememberWindow
  <2>4. CASE h \in ToSet(recorded)
    <3>1. UNCHANGED <<recorded, saving, queued, recentSaving>>
      BY <2>1, <2>4 DEF Record
    <3> QED BY <2>1, <2>2, <2>3, <3>1 DEF Known
  <2>5. CASE h \notin ToSet(recorded)
    <3>1. /\ recorded' = Remember(recorded, h)
          /\ saving' = IF saving = Idle THEN recorded' ELSE saving
          /\ queued' = (queued \/ saving # Idle)
          /\ recentSaving' = IF saving = Idle THEN recent' ELSE recentSaving
      BY <2>1, <2>5 DEF Record
    <3>2. recorded' \in Windows /\ ToSet(recorded') \subseteq ToSet(recorded) \cup {h}
      BY <2>1, <2>2, <3>1, RememberWindow
    <3>3. queued' \in BOOLEAN
      BY <3>1
    <3>4. saving' = recorded' \/ (saving' = saving /\ saving # Idle)
      BY <3>1
    <3>5. recentSaving' \in Windows
      BY <2>2, <2>3, <3>1
    <3> QED BY <2>1, <2>2, <2>3, <3>2, <3>3, <3>4, <3>5 DEF Known
  <2> QED BY <2>4, <2>5
<1> QED BY <1>1, <1>2

-----------------------------------------------------------------------------
LEMMA InitPush == Init => PushTypeOK /\ Shut /\ Known /\ Waits
<1> SUFFICES ASSUME Init PROVE PushTypeOK /\ Shut /\ Known /\ Waits
  OBVIOUS
<1>1. PushTypeOK
  <2>1. frames \in Seq(Messages \cup {Accept, Reject, ServerClose, Unreadable})
    BY DEF Init
  <2>2. loginFailures \in 0 .. MaxFailures
    BY BoundsAssumption DEF Init
  <2> QED BY <2>1, <2>2, EmptyWindow DEF Init, PushTypeOK
<1>2. Shut
  BY DEF Init, Shut
<1>3. Known
  BY EmptyWindow DEF Init, Known
<1>4. Waits
  BY DEF Init, Waits
<1> QED BY <1>1, <1>2, <1>3, <1>4

LEMMA TailFrames ==
  ASSUME PushTypeOK, frames # <<>>
  PROVE  Tail(frames) \in Seq(Messages \cup {Accept, Reject, ServerClose, Unreadable})
  BY DEF PushTypeOK

LEMMA TypesStep ==
  ASSUME PushTypeOK, [Next]_vars
  PROVE  PushTypeOK'
<1> USE DEF PushTypeOK, client, files, outside, history
<1>1. CASE SecureConnect
  BY <1>1 DEF SecureConnect
<1>2. CASE ChunkArrives
  <2> DEFINE F == Messages \cup {Accept, Reject, ServerClose, Unreadable}
  <2>1. /\ {Accept, Reject, Unreadable} \in SUBSET F /\ mail \in SUBSET F
        /\ mail \cup {ServerClose, Unreadable} \in SUBSET F
    OBVIOUS
  <2>2. frames' \in Seq(F)
    BY <1>2, <2>1, ChunkFrames DEF ChunkArrives
  <2> QED BY <1>2, <2>2 DEF ChunkArrives
<1>3. CASE HandleLogin
  BY <1>3, TailFrames, BoundsAssumption DEF HandleLogin
<1>4. CASE HandleEnd
  BY <1>4, TailFrames, BoundsAssumption DEF HandleEnd
<1>5. CASE HandleMessage
  BY <1>5, TailFrames, HandleWindows DEF HandleMessage
<1>6. CASE ConnectionLost
  BY <1>6 DEF ConnectionLost
<1>7. CASE OnClose
  <2>1. timer' \in Nat /\ currentDelay' \in Nat /\ waited' \in Nat
    <3>1. CASE phase = "up"
      <4>1. ScheduleReconnect
        BY <1>7, <3>1 DEF OnClose
      <4>2. currentDelay' \in Nat
        BY <4>1, BoundsAssumption DEF ScheduleReconnect
      <4>3. timer' \in Nat /\ waited' \in Nat
        BY <4>1, BoundsAssumption DEF ScheduleReconnect
      <4> QED BY <4>2, <4>3
    <3>2. CASE phase # "up"
      BY <1>7, <3>2 DEF OnClose
    <3> QED BY <3>1, <3>2
  <2> QED BY <1>7, <2>1 DEF OnClose
<1>8. CASE Reconnect
  BY <1>8 DEF Reconnect
<1>9. CASE SaveDone
  BY <1>9, EmptyWindow DEF SaveDone, NextSave
<1>10. CASE SaveFails
  BY <1>10, EmptyWindow DEF SaveFails, NextSave
<1>11. CASE Close
  BY <1>11 DEF Close
<1>12. CASE CloseDone
  BY <1>12 DEF CloseDone
<1>13. CASE Exit
  BY <1>13, EmptyWindow DEF Exit
<1>14. CASE StartAgain
  BY <1>14, BoundsAssumption DEF StartAgain
<1>15. ASSUME NEW m \in Messages, Post(m) PROVE PushTypeOK'
  BY <1>15 DEF Post
<1>16. CASE UNCHANGED vars
  BY <1>16 DEF vars
<1> QED
  BY <1>1, <1>2, <1>3, <1>4, <1>5, <1>6, <1>7, <1>8, <1>9, <1>10, <1>11, <1>12, <1>13, <1>14,
     <1>15, <1>16 DEF Next, HandleFrame

LEMMA ShutStep ==
  ASSUME Shut, [Next]_vars
  PROVE  Shut'
<1> USE DEF Shut, client, files, outside, history
<1>1. CASE SecureConnect \/ ChunkArrives \/ ConnectionLost
  BY <1>1 DEF SecureConnect, ChunkArrives, ConnectionLost
<1>2. CASE HandleFrame
  BY <1>2 DEF HandleFrame, HandleLogin, HandleEnd, HandleMessage
<1>3. CASE OnClose \/ Reconnect
  BY <1>3 DEF OnClose, Reconnect
<1>4. CASE SaveDone \/ SaveFails
  BY <1>4 DEF SaveDone, SaveFails
<1>5. CASE Close \/ CloseDone \/ Exit \/ StartAgain
  BY <1>5 DEF Close, CloseDone, Exit, StartAgain
<1>6. ASSUME NEW m \in Messages, Post(m) PROVE Shut'
  BY <1>6 DEF Post
<1>7. CASE UNCHANGED vars
  BY <1>7 DEF vars
<1> QED BY <1>1, <1>2, <1>3, <1>4, <1>5, <1>6, <1>7 DEF Next

LEMMA KnownStep ==
  ASSUME PushTypeOK, Known, [Next]_vars
  PROVE  Known'
<1> USE DEF Known, client, files, outside, history
<1>1. CASE SecureConnect
  BY <1>1 DEF SecureConnect
<1>2. CASE ChunkArrives \/ ConnectionLost \/ Reconnect \/ Close \/ CloseDone
  BY <1>2 DEF ChunkArrives, ConnectionLost, Reconnect, Close, CloseDone
<1>3. CASE HandleLogin \/ HandleEnd
  BY <1>3 DEF HandleLogin, HandleEnd
<1>4. CASE HandleMessage
  <2>1. UNCHANGED <<posted, mail, disk>>
    BY <1>4 DEF HandleMessage
  <2> QED BY <1>4, <2>1, HandleWindows
<1>5. CASE OnClose
  BY <1>5 DEF OnClose, ScheduleReconnect
<1>6. CASE SaveDone \/ SaveFails
  BY <1>6 DEF SaveDone, SaveFails, NextSave
<1>7. CASE Exit \/ StartAgain
  BY <1>7 DEF Exit, StartAgain
<1>8. ASSUME NEW m \in Messages, Post(m) PROVE Known'
  BY <1>8 DEF Post
<1>9. CASE UNCHANGED vars
  BY <1>9 DEF vars
<1> QED BY <1>1, <1>2, <1>3, <1>4, <1>5, <1>6, <1>7, <1>8, <1>9 DEF Next, HandleFrame

LEMMA WaitsStep ==
  ASSUME PushTypeOK, Shut, Waits, [Next]_vars
  PROVE  Waits'
<1> USE DEF Waits, Shut, PushTypeOK, client, files, outside, history
<1>1. CASE SecureConnect \/ ChunkArrives \/ ConnectionLost \/ Reconnect \/ Close \/ CloseDone
  BY <1>1 DEF SecureConnect, ChunkArrives, ConnectionLost, Reconnect, Close, CloseDone
<1>2. CASE HandleLogin \/ HandleEnd \/ HandleMessage
  BY <1>2 DEF HandleLogin, HandleEnd, HandleMessage
<1>3. CASE OnClose
  <2>1. timer = 0 /\ socket' = "none" /\ frames' = <<>>
    BY <1>3 DEF OnClose
  <2>2. CASE phase = "up"
    <3>1. /\ timer' = IF currentDelay = 0 THEN FirstDelay ELSE currentDelay
          /\ waited' = timer'
          /\ currentDelay' >= currentDelay
          /\ currentDelay = 0 => currentDelay' = DelayStep
      BY <1>3, <2>1, <2>2, BoundsAssumption, DelayAssumption DEF OnClose, ScheduleReconnect
    <3> QED BY <2>1, <3>1, BoundsAssumption, DelayAssumption, TypesStep DEF Next
  <2>3. CASE phase # "up"
    BY <1>3, <2>1, <2>3 DEF OnClose
  <2> QED BY <2>2, <2>3
<1>4. CASE SaveDone \/ SaveFails
  BY <1>4 DEF SaveDone, SaveFails
<1>5. CASE Exit \/ StartAgain
  BY <1>5 DEF Exit, StartAgain
<1>6. ASSUME NEW m \in Messages, Post(m) PROVE Waits'
  BY <1>6 DEF Post
<1>7. CASE UNCHANGED vars
  BY <1>7 DEF vars
<1> QED BY <1>1, <1>2, <1>3, <1>4, <1>5, <1>6, <1>7 DEF Next, HandleFrame

\* Only the close of a socket starts the timer.
LEMMA NextWait ==
  ASSUME PushTypeOK, Waits, [Next]_vars, timer = 0, timer' # 0
  PROVE  timer' >= waited /\ timer' >= FirstDelay
<1>1. OnClose
  BY DEF Next, HandleFrame, SecureConnect, ChunkArrives, HandleLogin, HandleEnd, HandleMessage,
         ConnectionLost, Reconnect, SaveDone, SaveFails, Close, CloseDone, Exit, StartAgain, Post,
         vars, client, files, outside, history
<1>2. timer' = IF currentDelay = 0 THEN FirstDelay ELSE currentDelay
  BY <1>1 DEF OnClose, ScheduleReconnect
<1> QED BY <1>2, BoundsAssumption DEF PushTypeOK, Waits

\* What is on its way to the windows and their copies when an id is new to both.
LEMMA HandleNew ==
  ASSUME PushTypeOK, ids = recorded, HandleMessage
  PROVE  \/ UNCHANGED <<ids, recorded, saving, queued, recent, recentSaving>>
         \/ \E m \in Messages :
              /\ m \notin ToSet(ids)
              /\ ids' = Remember(ids, m) /\ recorded' = Remember(recorded, m)
              /\ recent' = Remember(recent, m)
              /\ saving' = IF saving = Idle THEN recorded' ELSE saving
              /\ recentSaving' = IF saving = Idle THEN recent' ELSE recentSaving
              /\ queued' = (queued \/ saving # Idle)
<1> DEFINE h == Head(frames)
<1>1. h \in Messages
  BY DEF HandleMessage
<1> HIDE DEF h
<1>2. CASE h \in ToSet(ids)
  BY <1>2 DEF HandleMessage, h
<1>3. CASE h \notin ToSet(ids)
  <2>1. ids' = Remember(ids, h) /\ recent' = Remember(recent, h) /\ Record(h)
    BY <1>3 DEF HandleMessage, h
  <2> QED BY <1>1, <1>3, <2>1 DEF Record
<1> QED BY <1>2, <1>3

LEMMA IdleNoWindow == Idle \notin Windows
<1> SUFFICES ASSUME Idle \in Windows PROVE FALSE
  OBVIOUS
<1>1. Idle \in Seq(Messages) /\ Len(Idle) = 1 /\ Idle[1] = "idle"
  BY DEF Windows, Idle
<1>2. Idle[1] \in Messages
  BY <1>1
<1> QED BY <1>1, <1>2, MessagesAssumption

\* Handing on a notification keeps all that is said of the windows.
LEMMA HandleCopies ==
  ASSUME PushTypeOK, Shut, Twins, Copies, SavesLast, HandleMessage
  PROVE  Twins' /\ Copies' /\ SavesLast'
<1>0. phase = "up" /\ UNCHANGED <<phase, disk, recentDisk, failed>>
  BY DEF HandleMessage, Shut
<1>1. CASE UNCHANGED <<ids, recorded, saving, queued, recent, recentSaving>>
  BY <1>0, <1>1 DEF Twins, Copies, SavesLast
<1>2. ASSUME NEW m \in Messages, m \notin ToSet(ids),
             ids' = Remember(ids, m), recorded' = Remember(recorded, m),
             recent' = Remember(recent, m),
             saving' = IF saving = Idle THEN recorded' ELSE saving,
             recentSaving' = IF saving = Idle THEN recent' ELSE recentSaving,
             queued' = (queued \/ saving # Idle)
      PROVE  Twins' /\ Copies' /\ SavesLast'
  <2>1. /\ ids \in Windows /\ recent \in Windows /\ ids = recorded
        /\ IsInjective(ids) /\ EndsWith(ids, recent)
    BY <1>0 DEF PushTypeOK, Twins
  <2>2. ids' = recorded' /\ IsInjective(ids') /\ EndsWith(ids', recent')
    BY <1>2, <2>1, RememberOnce, RememberEnd
  <2>3. recorded' # Idle
    BY <1>2, <2>1, RememberWindow, IdleNoWindow
  <2>4. Twins'
    BY <1>0, <2>2 DEF Twins
  <2>5. Copies'
    <3>1. CASE saving = Idle
      BY <1>0, <1>2, <2>2, <3>1 DEF Copies
    <3>2. CASE saving # Idle
      BY <1>0, <1>2, <3>2 DEF Copies
    <3> QED BY <3>1, <3>2
  <2>6. SavesLast'
    <3>1. CASE saving = Idle
      BY <1>0, <1>2, <2>3, <3>1 DEF SavesLast
    <3>2. CASE saving # Idle
      BY <1>0, <1>2, <3>2 DEF SavesLast
    <3> QED BY <3>1, <3>2
  <2> QED BY <2>4, <2>5, <2>6
<1> QED BY <1>1, <1>2, HandleNew DEF Twins

\* The end of a save: the next one begins with what is recorded by then.
LEMMA SaveCopies ==
  ASSUME PushTypeOK, Twins, Copies, SavesLast, phase # "down", saving # Idle, NextSave,
         \/ disk' = saving /\ recentDisk' = recentSaving /\ failed' = FALSE
         \/ disk' = disk /\ recentDisk' = recentDisk /\ failed' = TRUE,
         UNCHANGED <<ids, recorded, recent, phase>>
  PROVE  Twins' /\ Copies' /\ SavesLast'
<1>1. recorded # Idle
  BY IdleNoWindow DEF PushTypeOK
<1>2. Twins'
  BY DEF Twins
<1>3. Copies'
  BY DEF Twins, Copies, NextSave
<1>4. SavesLast'
  BY <1>1 DEF SavesLast, NextSave
<1> QED BY <1>2, <1>3, <1>4

LEMMA CopiesStep ==
  ASSUME PushTypeOK, Shut, Twins, Copies, SavesLast, [Next]_vars
  PROVE  Twins' /\ Copies' /\ SavesLast'
<1> USE DEF client, files, outside, history
<1>1. CASE SecureConnect \/ ChunkArrives \/ ConnectionLost \/ OnClose \/ Reconnect
  BY <1>1 DEF SecureConnect, ChunkArrives, ConnectionLost, OnClose, Reconnect, Twins, Copies, SavesLast
<1>2. CASE HandleLogin \/ HandleEnd
  BY <1>2 DEF HandleLogin, HandleEnd, Twins, Copies, SavesLast
<1>3. CASE HandleMessage
  BY <1>3, HandleCopies
<1>4. CASE SaveDone
  BY <1>4, SaveCopies DEF SaveDone, SavesLast
<1>5. CASE SaveFails
  BY <1>5, SaveCopies DEF SaveFails, SavesLast
<1>6. CASE Close \/ CloseDone
  BY <1>6 DEF Close, CloseDone, Twins, Copies, SavesLast
<1>7. CASE Exit
  <2>1. EndsWith(disk, recent')
    BY <1>7 DEF Exit, Twins, Copies, SavesLast
  <2> QED BY <1>7, <2>1 DEF Exit, Twins, Copies, SavesLast
<1>8. CASE StartAgain
  BY <1>8 DEF StartAgain, Twins, Copies, SavesLast
<1>9. ASSUME NEW m \in Messages, Post(m) PROVE Twins' /\ Copies' /\ SavesLast'
  BY <1>9 DEF Post, Twins, Copies, SavesLast
<1>10. CASE UNCHANGED vars
  BY <1>10 DEF vars, Twins, Copies, SavesLast
<1> QED BY <1>1, <1>2, <1>3, <1>4, <1>5, <1>6, <1>7, <1>8, <1>9, <1>10 DEF Next, HandleFrame

\* The end of a window that holds every id once does so too.
LEMMA EndOnce ==
  ASSUME NEW w \in Windows, NEW r \in Windows, IsInjective(w), EndsWith(w, r)
  PROVE  IsInjective(r)
<1>1. /\ DOMAIN r = 1 .. Len(r) /\ DOMAIN w = 1 .. Len(w)
      /\ Len(r) \in Nat /\ Len(w) \in Nat /\ Len(r) <= Len(w)
  BY DEF Windows, EndsWith
<1> SUFFICES ASSUME NEW i \in DOMAIN r, NEW j \in DOMAIN r, r[i] = r[j] PROVE i = j
  BY DEF IsInjective
<1>2. /\ Len(w) - Len(r) + i \in DOMAIN w /\ Len(w) - Len(r) + j \in DOMAIN w
      /\ w[Len(w) - Len(r) + i] = w[Len(w) - Len(r) + j]
  BY <1>1 DEF EndsWith
<1>3. Len(w) - Len(r) + i = Len(w) - Len(r) + j
  BY <1>2 DEF IsInjective
<1> QED BY <1>1, <1>3

LEMMA InitCopies == Init => Twins /\ Copies /\ SavesLast
<1> SUFFICES ASSUME Init PROVE Twins /\ Copies /\ SavesLast
  OBVIOUS
<1>1. IsInjective(<<>>) /\ EndsWith(<<>>, <<>>)
  BY DEF IsInjective, EndsWith
<1> QED BY <1>1 DEF Init, Twins, Copies, SavesLast

LEMMA TypesInvariant == Spec => []PushTypeOK
  BY InitPush, TypesStep, PTL DEF Spec

-----------------------------------------------------------------------------
(***************************************************************************)
(* The theorems.                                                           *)
(***************************************************************************)

\* Types of the push client and receiver; the windows never exceed their length.
THEOREM PushTypesHold == Spec => []PushTypeOK
  BY TypesInvariant

\* A closed push client stays quiet, whatever was in progress when it was closed.
THEOREM ClosedStaysQuiet == Spec => []QuietWhenClosed
<1>1. Shut => QuietWhenClosed
  BY DEF Shut, QuietWhenClosed
<1> QED BY <1>1, InitPush, ShutStep, PTL DEF Spec

\* Nothing is reported to Firebase as received before it was handed on, for any
\* number of restarts and crashes.
THEOREM NothingIsLost == Spec => []NothingLost
<1>1. Known => NothingLost
  BY DEF Known, NothingLost
<1> QED BY <1>1, InitPush, TypesInvariant, KnownStep, PTL DEF Spec

\* A notification is handed on once within the window, for any window, number of
\* notifications, failing writes, closes, crashes and restarts, however often
\* Firebase sends it.
THEOREM HandedOnceHolds == Spec => []HandedOnce
<1>1. PushTypeOK /\ Twins /\ Copies => HandedOnce
  BY EndOnce DEF PushTypeOK, Twins, Copies, HandedOnce
<1>2. Spec => [](Twins /\ Copies /\ SavesLast)
  BY InitPush, InitCopies, TypesInvariant, ShutStep, CopiesStep, PTL DEF Spec
<1> QED BY <1>1, <1>2, TypesInvariant, PTL

\* The client never waits shorter than the time before, for any delays and steps.
THEOREM BackoffHolds == Spec => BackoffGrows
<1>1. PushTypeOK /\ Waits /\ [Next]_vars =>
        [timer = 0 /\ timer' # 0 => timer' >= waited /\ timer' >= FirstDelay]_vars
  BY NextWait
<1> QED BY <1>1, InitPush, TypesInvariant, ShutStep, WaitsStep, PTL DEF Spec, BackoffGrows
=============================================================================
