----------------------------- MODULE PpcsProofs -----------------------------
(***************************************************************************)
(* Theorems of PpcsMedia, for any streams of the two datagram types and    *)
(* any repetitions.                                                        *)
(***************************************************************************)
EXTENDS PpcsMedia, SequenceTheorems, TLAPS

\* What is pending ends where the last datagram did, and is one stretch of the stream
\* behind the last datagram that came again right after itself.
Joined(t) ==
  /\ last[t] = 0 => pending[t] = <<>>
  /\ last[t] # 0 => last[t] \in Datagrams(t)
  /\ \A i \in 1 .. Len(pending[t]) :
       i > seam[t] => pending[t][i] + (Len(pending[t]) - i) = Ends[t][last[t]]

MediaInv == PpcsTypeOK /\ \A t \in Types : Joined(t)

-----------------------------------------------------------------------------
(***************************************************************************)
(* Sequence numbers and stretches of the stream.                           *)
(***************************************************************************)

\* Below the window, 16 bits tell the next datagram and the same one from all others.
LEMMA NearDistance ==
  ASSUME NEW m \in Nat, NEW n \in Nat, m - n < 65536, n - m < 65535, ~(Distance(m, n) > 1)
  PROVE  m = n \/ m = n + 1
  BY SMTT(60) DEF Distance

LEMMA DatagramFacts ==
  ASSUME NEW t \in Types, NEW n \in Datagrams(t)
  PROVE  /\ n \in Nat /\ n # 0
         /\ Ends[t][n] \in Nat /\ Ends[t][n - 1] \in Nat
         /\ Ends[t][n - 1] < Ends[t][n]
  <1>1. n \in DOMAIN Ends[t] /\ n - 1 \in DOMAIN Ends[t] /\ Ends[t][n - 1] < Ends[t][n]
    BY EndsAssumption DEF Datagrams
  <1>2. n \in Nat /\ n - 1 \in Nat /\ Ends[t][n] \in Nat /\ Ends[t][n - 1] \in Nat
    BY <1>1, EndsAssumption
  <1> QED
    BY <1>1, <1>2

LEMMA PartsFacts ==
  ASSUME NEW t \in Types, NEW n \in Datagrams(t)
  PROVE  /\ Parts(t, n) \in Seq(Nat)
         /\ Len(Parts(t, n)) = Ends[t][n] - Ends[t][n - 1]
         /\ \A i \in 1 .. Len(Parts(t, n)) : Parts(t, n)[i] = Ends[t][n - 1] + i
  <1> DEFINE k == Ends[t][n] - Ends[t][n - 1]
  <1>1. k \in Nat /\ Ends[t][n - 1] \in Nat
    BY DatagramFacts
  <1>2. Parts(t, n) \in [1 .. k -> Nat]
    BY <1>1 DEF Parts
  <1>3. Parts(t, n) \in Seq(Nat) /\ Len(Parts(t, n)) = k
    BY <1>1, <1>2
  <1> QED
    BY <1>1, <1>3 DEF Parts

-----------------------------------------------------------------------------
LEMMA InitInv == Init => MediaInv
  <1> SUFFICES ASSUME Init PROVE MediaInv
    OBVIOUS
  <1>1. PpcsTypeOK
    <2>1. <<>> \in Seq(Nat) /\ <<>> \in Seq(Seq(Nat))
      BY EmptySeq
    <2>2. pending \in [Types -> Seq(Nat)] /\ handed \in [Types -> Seq(Seq(Nat))]
      BY <2>1 DEF Init
    <2>3. First - 1 \in Nat /\ repeats \in 0 .. MaxRepeats
      BY NumbersAssumption DEF Init
    <2> QED
      BY <2>2, <2>3 DEF Init, PpcsTypeOK
  <1>2. \A t \in Types : Joined(t)
    BY DEF Init, Joined
  <1> QED
    BY <1>1, <1>2 DEF MediaInv

\* A datagram follows what is pending, repeats its end, or finds it given up.
LEMMA ReceiveInv ==
  ASSUME MediaInv, NEW t \in Types, NEW n \in Datagrams(t), InWindow(t, n), Receive(t, n),
         network' \subseteq network, repeats' \in 0 .. MaxRepeats
  PROVE  MediaInv'
  <1> DEFINE kept == IF Gap(t, n) THEN <<>> ELSE pending[t]
             added == Parts(t, n)
             mark == IF Gap(t, n) THEN 0 ELSE IF n = last[t] THEN Len(pending[t]) ELSE seam[t]
  <1>1. /\ pending \in [Types -> Seq(Nat)] /\ last \in [Types -> Nat] /\ seam \in [Types -> Nat]
        /\ pending' = [pending EXCEPT ![t] = kept \o added]
        /\ last' = [last EXCEPT ![t] = n]
        /\ seam' = [seam EXCEPT ![t] = mark]
    BY DEF MediaInv, PpcsTypeOK, Receive
  <1>2. kept \in Seq(Nat) /\ added \in Seq(Nat) /\ kept \o added \in Seq(Nat)
    BY <1>1, PartsFacts, ConcatProperties
  <1>3. n \in Nat /\ n # 0 /\ mark \in Nat
    BY <1>1, DatagramFacts
  <1>4. PpcsTypeOK'
    <2>1. pending' \in [Types -> Seq(Nat)] /\ last' \in [Types -> Nat] /\ seam' \in [Types -> Nat]
      BY <1>1, <1>2, <1>3
    <2>2. run' \in [Types -> Nat]
      BY <1>3 DEF MediaInv, PpcsTypeOK, Receive
    <2> QED
      BY SMTT(30), <2>1, <2>2 DEF MediaInv, PpcsTypeOK, Receive, session, peer
  <1>5. /\ Len(kept) \in Nat /\ Len(added) \in Nat
        /\ Len(kept \o added) = Len(kept) + Len(added)
        /\ Ends[t][n - 1] \in Nat /\ Ends[t][n] = Ends[t][n - 1] + Len(added)
        /\ \A i \in 1 .. Len(kept \o added) :
             (kept \o added)[i] = IF i <= Len(kept) THEN kept[i] ELSE added[i - Len(kept)]
        /\ \A i \in 1 .. Len(kept) : kept[i] \in Nat
        /\ \A i \in 1 .. Len(added) : added[i] = Ends[t][n - 1] + i
    <2>1. /\ Len(added) = Ends[t][n] - Ends[t][n - 1]
          /\ \A i \in 1 .. Len(added) : added[i] = Ends[t][n - 1] + i
      BY PartsFacts
    <2>2. \A i \in 1 .. Len(kept) : kept[i] \in Nat
      BY <1>2, ElementOfSeq
    <2>3. Ends[t][n - 1] \in Nat /\ Ends[t][n] \in Nat
      BY DatagramFacts
    <2> HIDE DEF kept, added
    <2>4. /\ Len(kept) \in Nat /\ Len(added) \in Nat
          /\ Len(kept \o added) = Len(kept) + Len(added)
          /\ \A i \in 1 .. Len(kept \o added) :
               (kept \o added)[i] = IF i <= Len(kept) THEN kept[i] ELSE added[i - Len(kept)]
      BY <1>2, ConcatProperties
    <2>5. Ends[t][n] = Ends[t][n - 1] + Len(added)
      BY <2>1, <2>3
    <2> QED
      BY <2>1, <2>2, <2>3, <2>4, <2>5
  \* What is kept ends where the datagram begins.
  <1>6. ASSUME NEW i \in 1 .. Len(kept), i > mark
        PROVE  kept[i] + (Len(kept) - i) = Ends[t][n - 1]
    <2>1. ~Gap(t, n) /\ kept = pending[t] /\ n # last[t] /\ mark = seam[t]
      BY <1>1, <1>6
    <2>2. last[t] # 0 /\ last[t] \in Datagrams(t)
      BY <2>1, <1>6 DEF MediaInv, Joined
    <2>3. last[t] \in Nat /\ n - last[t] < 65536 /\ last[t] - n < 65535 /\ ~(Distance(n, last[t]) > 1)
      BY <1>1, <2>1, <2>2 DEF InWindow, Gap
    <2>4. n - 1 = last[t]
      BY <1>3, <2>1, <2>3, NearDistance
    <2> QED
      BY <1>6, <2>1, <2>4 DEF MediaInv, Joined
  <1> HIDE DEF kept, added, mark
  <1>7. ASSUME NEW i \in 1 .. Len(kept \o added), i > mark
        PROVE  (kept \o added)[i] + (Len(kept \o added) - i) = Ends[t][n]
    <2>1. CASE i <= Len(kept)
      <3>1. kept[i] \in Nat /\ kept[i] + (Len(kept) - i) = Ends[t][n - 1]
        BY <1>5, <1>6, <1>7, <2>1
      <3> QED
        BY <1>5, <2>1, <3>1
    <2>2. CASE i > Len(kept)
      <3>1. added[i - Len(kept)] = Ends[t][n - 1] + (i - Len(kept))
        <4>1. i - Len(kept) \in 1 .. Len(added)
          BY <1>5, <1>7, <2>2
        <4> QED
          BY <1>5, <4>1
      <3> QED
        BY <1>5, <2>2, <3>1
    <2> QED
      BY <1>5, <2>1, <2>2
  <1>8. ASSUME NEW u \in Types PROVE Joined(u)'
    <2>1. CASE u = t
      <3>1. pending'[t] = kept \o added /\ last'[t] = n /\ seam'[t] = mark
        BY <1>1
      <3> QED
        BY <1>3, <1>7, <2>1, <3>1 DEF Joined, Datagrams
    <2>2. CASE u # t
      <3>1. pending'[u] = pending[u] /\ last'[u] = last[u] /\ seam'[u] = seam[u]
        BY <1>1, <2>2
      <3> QED
        BY <3>1 DEF MediaInv, Joined, Datagrams
    <2> QED
      BY <2>1, <2>2
  <1> QED
    BY <1>4, <1>8 DEF MediaInv

\* A frame that is cut off is at the head of what is pending.
LEMMA CutFacts ==
  ASSUME MediaInv, NEW t \in Types, HandFrame(t)
  PROVE  LET p == pending[t] k == FrameSize(t) IN
         /\ p \in Seq(Nat) /\ p # <<>> /\ p[1] \in DOMAIN Size[t] /\ k = Size[t][p[1]]
         /\ k \in Nat /\ k > 0 /\ k <= Len(p) /\ Len(p) \in Nat
         /\ SubSeq(p, 1, k) \in Seq(Nat) /\ SubSeq(p, k + 1, Len(p)) \in Seq(Nat)
  <1> DEFINE p == pending[t]
             k == FrameSize(t)
  <1>1. p \in Seq(Nat) /\ p # <<>> /\ p[1] \in DOMAIN Size[t] /\ k = Size[t][p[1]] /\ k <= Len(p)
    BY DEF MediaInv, PpcsTypeOK, HandFrame, Ready, Oversize, AtHeader, FrameSize
  <1>2. k \in Nat /\ k > 0 /\ Len(p) \in Nat
    BY <1>1, SizeAssumption
  <1>3. \A i \in 1 .. Len(p) : p[i] \in Nat
    BY <1>1, ElementOfSeq
  <1> HIDE DEF p, k
  <1>4. SubSeq(p, 1, k) \in Seq(Nat) /\ SubSeq(p, k + 1, Len(p)) \in Seq(Nat)
    BY <1>1, <1>2, <1>3, SubSeqProperties
  <1> QED
    BY <1>1, <1>2, <1>4 DEF p, k

\* What is cut off when no datagram came again right after itself is a whole frame.
LEMMA CutWhole ==
  ASSUME MediaInv, NEW t \in Types, HandFrame(t), seam[t] = 0
  PROVE  WholeFrame(t, SubSeq(pending[t], 1, FrameSize(t)))
  <1> DEFINE p == pending[t]
             k == FrameSize(t)
             frame == SubSeq(p, 1, k)
  <1>1. p \in Seq(Nat) /\ p # <<>> /\ p[1] \in DOMAIN Size[t] /\ k = Size[t][p[1]] /\ k <= Len(p)
    BY CutFacts
  <1>2. k \in Nat /\ k > 0 /\ Len(p) \in Nat
    BY CutFacts
  <1>3. last[t] # 0 /\ Ends[t][last[t]] \in Nat
    BY <1>1, DatagramFacts DEF MediaInv, Joined
  <1>4. \A i \in 1 .. Len(p) : i > seam[t] => p[i] + (Len(p) - i) = Ends[t][last[t]]
    BY DEF MediaInv, Joined
  <1> HIDE DEF p, k
  <1>5. ASSUME NEW i \in 1 .. k PROVE p[i] = p[1] + i - 1
    <2>1. 1 \in 1 .. Len(p) /\ i \in 1 .. Len(p)
      BY <1>1, <1>2
    <2>2. p[1] \in Nat /\ p[i] \in Nat
      BY <1>1, <2>1, ElementOfSeq
    <2>3. p[1] + (Len(p) - 1) = p[i] + (Len(p) - i)
      BY <1>4, <2>1
    <2> QED
      BY <1>2, <2>2, <2>3
  <1>6. frame = [i \in 1 .. k |-> p[i]]
    BY <1>1, <1>2 DEF SubSeq
  <1>7. frame = [i \in 1 .. k |-> p[1] + i - 1] /\ frame[1] = p[1]
    BY <1>2, <1>5, <1>6
  <1> QED
    BY <1>1, <1>7 DEF WholeFrame, p, k

\* What is left of a stretch when a frame is cut off is a stretch.
LEMMA HandFrameInv ==
  ASSUME MediaInv, NEW t \in Types, HandFrame(t)
  PROVE  MediaInv'
  <1> DEFINE p == pending[t]
             k == FrameSize(t)
             rest == SubSeq(p, k + 1, Len(p))
             mark == IF seam[t] > k THEN seam[t] - k ELSE 0
  <1>1. /\ pending \in [Types -> Seq(Nat)] /\ handed \in [Types -> Seq(Seq(Nat))]
        /\ seam \in [Types -> Nat]
        /\ handed' = [handed EXCEPT ![t] = Append(@, SubSeq(p, 1, k))]
        /\ pending' = [pending EXCEPT ![t] = rest]
        /\ seam' = [seam EXCEPT ![t] = mark]
        /\ last' = last
    BY DEF MediaInv, PpcsTypeOK, HandFrame
  <1>2. p \in Seq(Nat) /\ p # <<>> /\ p[1] \in DOMAIN Size[t] /\ k = Size[t][p[1]] /\ k <= Len(p)
    BY CutFacts
  <1>3. k \in Nat /\ k > 0 /\ Len(p) \in Nat
    BY CutFacts
  <1>4. /\ last[t] # 0 /\ last[t] \in Datagrams(t)
        /\ \A i \in 1 .. Len(p) : i > seam[t] => p[i] + (Len(p) - i) = Ends[t][last[t]]
    BY <1>2 DEF MediaInv, Joined
  <1>5. SubSeq(p, 1, k) \in Seq(Nat) /\ rest \in Seq(Nat)
    BY CutFacts
  <1> HIDE DEF p, k
  <1>6. /\ Len(rest) = Len(p) - k
        /\ \A i \in 1 .. Len(p) - k : rest[i] = p[k + i]
    <2>1. \A i \in 1 .. Len(p) : p[i] \in Nat
      BY <1>2, ElementOfSeq
    <2>2. /\ Len(rest) = IF k + 1 <= Len(p) THEN Len(p) - (k + 1) + 1 ELSE 0
          /\ \A i \in 1 .. Len(p) - (k + 1) + 1 : rest[i] = p[k + 1 + i - 1]
      BY <1>3, <2>1, SubSeqProperties
    <2>3. \A i \in 1 .. Len(p) - k : rest[i] = p[k + i]
      <3> SUFFICES ASSUME NEW i \in 1 .. Len(p) - k PROVE rest[i] = p[k + i]
        OBVIOUS
      <3>1. i \in 1 .. Len(p) - (k + 1) + 1 /\ k + 1 + i - 1 = k + i
        BY <1>3
      <3> QED
        BY <2>2, <3>1
    <2> HIDE DEF rest
    <2>4. Len(rest) = Len(p) - k
      <3>1. k <= Len(p)
        BY <1>2
      <3> QED
        BY <1>3, <2>2, <3>1
    <2> QED
      BY <2>3, <2>4
  <1>7. mark \in Nat
    BY <1>1, <1>3
  <1>8. ASSUME NEW i \in 1 .. Len(rest), i > mark
        PROVE  rest[i] + (Len(rest) - i) = Ends[t][last[t]]
    <2>1. k + i \in 1 .. Len(p) /\ k + i > seam[t] /\ rest[i] = p[k + i]
      BY <1>1, <1>3, <1>6, <1>8
    <2>2. p[k + i] \in Nat /\ p[k + i] + (Len(p) - (k + i)) = Ends[t][last[t]]
      BY <1>2, <1>4, <2>1, ElementOfSeq
    <2> QED
      BY <1>3, <1>6, <2>1, <2>2
  <1> HIDE DEF rest, mark
  <1>9. PpcsTypeOK'
    <2>1. pending' \in [Types -> Seq(Nat)] /\ seam' \in [Types -> Nat]
      BY <1>1, <1>5, <1>7
    <2>2. handed' \in [Types -> Seq(Seq(Nat))]
      BY <1>1, <1>5, AppendProperties
    <2> QED
      BY <2>1, <2>2 DEF MediaInv, PpcsTypeOK, HandFrame, GatewayInfo, peer
  <1>10. ASSUME NEW u \in Types PROVE Joined(u)'
    <2>1. CASE u = t
      <3>1. pending'[t] = rest /\ last'[t] = last[t] /\ seam'[t] = mark
        BY <1>1
      <3> QED
        BY <1>4, <1>8, <2>1, <3>1 DEF Joined, Datagrams
    <2>2. CASE u # t
      <3>1. pending'[u] = pending[u] /\ last'[u] = last[u] /\ seam'[u] = seam[u]
        BY <1>1, <2>2
      <3> QED
        BY <3>1 DEF MediaInv, Joined, Datagrams
    <2> QED
      BY <2>1, <2>2
  <1> QED
    BY <1>9, <1>10 DEF MediaInv

LEMMA DropInv ==
  ASSUME MediaInv, NEW t \in Types, DropOversize(t)
  PROVE  MediaInv'
  <1>1. PpcsTypeOK'
    <2>1. pending' \in [Types -> Seq(Nat)] /\ seam' \in [Types -> Nat]
      BY EmptySeq DEF MediaInv, PpcsTypeOK, DropOversize
    <2> QED
      BY <2>1 DEF MediaInv, PpcsTypeOK, DropOversize, session, peer
  <1>2. ASSUME NEW u \in Types PROVE Joined(u)'
    <2>1. /\ last' = last /\ pending \in [Types -> Seq(Nat)] /\ seam \in [Types -> Nat]
          /\ pending' = [pending EXCEPT ![t] = <<>>]
          /\ seam' = [seam EXCEPT ![t] = 0]
      BY DEF MediaInv, PpcsTypeOK, DropOversize
    <2>2. CASE u = t
      <3>1. pending'[u] = <<>> /\ last'[u] = last[u]
        BY <2>1, <2>2
      <3> QED
        BY <3>1 DEF MediaInv, Joined, Datagrams
    <2>3. CASE u # t
      <3>1. pending'[u] = pending[u] /\ last'[u] = last[u] /\ seam'[u] = seam[u]
        BY <2>1, <2>3
      <3> QED
        BY <3>1 DEF MediaInv, Joined, Datagrams
    <2> QED
      BY <2>2, <2>3
  <1> QED
    BY <1>1, <1>2 DEF MediaInv

LEMMA AssemblyUnchanged ==
  ASSUME MediaInv, PpcsTypeOK', UNCHANGED assembly
  PROVE  MediaInv'
  <1>1. pending' = pending /\ last' = last /\ seam' = seam
    BY DEF assembly
  <1>2. \A t \in Types : Joined(t)'
    BY <1>1 DEF MediaInv, Joined, Datagrams
  <1> QED
    BY <1>2 DEF MediaInv

LEMMA NextInv ==
  ASSUME MediaInv, [Next]_vars
  PROVE  MediaInv'
  <1>1. PpcsTypeOK
    BY DEF MediaInv
  <1>2. CASE Consume
    BY <1>2, HandFrameInv, DropInv DEF Consume
  <1>3. ASSUME NEW t \in Types, NEW n \in Datagrams(t), Arrives(t, n) PROVE MediaInv'
    <2>1. network' \subseteq network /\ repeats' \in 0 .. MaxRepeats
      BY <1>1, <1>3, NumbersAssumption DEF PpcsTypeOK, Arrives
    <2> QED
      BY <1>3, <2>1, ReceiveInv DEF Arrives
  <1>4. CASE Start \/ CamId \/ LookupTimeout \/ Close \/ Heartbeat \/ KeyLookedUp
    <2>1. UNCHANGED assembly
      BY <1>4 DEF Start, CamId, FirstCommands, LookupTimeout, Close, Heartbeat, KeyLookedUp
    <2>2. commands' \subseteq {"gateway", "start"}
      <3>1. commands \subseteq {"gateway", "start"}
        BY <1>1 DEF PpcsTypeOK
      <3>2. \/ commands' = commands
            \/ commands' = commands \cup {"gateway"}
            \/ commands' = commands \cup {"gateway", "start"}
            \/ commands' = commands \cup {"start"}
        BY <1>4 DEF Start, CamId, FirstCommands, LookupTimeout, Close, Heartbeat, KeyLookedUp
      <3> QED
        BY <3>1, <3>2
    <2>3. PpcsTypeOK'
      <3>1. /\ attached' = attached
            /\ socket' \in {"new", "open", "closed"}
            /\ starting' \in {"no", "lookup", "resolved", "rejected"}
            /\ remote' \in BOOLEAN /\ beating' \in BOOLEAN
        BY <1>1, <1>4 DEF PpcsTypeOK, Start, CamId, FirstCommands, LookupTimeout, Close, Heartbeat, KeyLookedUp,
                          session
      <3>2. level2Key' \in BOOLEAN /\ lookup' \in BOOLEAN /\ crashed' \in BOOLEAN
        BY <1>1, <1>4 DEF PpcsTypeOK, Start, CamId, FirstCommands, LookupTimeout, Close, Heartbeat, KeyLookedUp,
                          session
      <3>3. UNCHANGED <<peer, network, repeats>>
        BY <1>4 DEF Start, CamId, FirstCommands, LookupTimeout, Close, Heartbeat, KeyLookedUp
      <3> QED
        BY <1>1, <2>1, <2>2, <3>1, <3>2, <3>3 DEF PpcsTypeOK, assembly, peer
    <2> QED
      BY <2>1, <2>3, AssemblyUnchanged
  <1>5. ASSUME NEW c \in {"gateway", "start"}, PeerHears(c) \/ CommandLost(c) PROVE MediaInv'
    <2>1. UNCHANGED assembly /\ commands' \subseteq commands
      BY <1>5 DEF PeerHears, CommandLost
    <2>2. informing' \in BOOLEAN /\ streaming' \in BOOLEAN
      BY <1>1, <1>5 DEF PpcsTypeOK, PeerHears, CommandLost, peer
    <2>3. PpcsTypeOK'
      BY <1>1, <1>5, <2>1, <2>2 DEF PpcsTypeOK, PeerHears, CommandLost, session, assembly, peer
    <2> QED
      BY <2>1, <2>3, AssemblyUnchanged
  <1>6. ASSUME NEW t \in Types, PeerSends(t) PROVE MediaInv'
    <2>1. UNCHANGED assembly
      BY <1>6 DEF PeerSends
    <2>2. sent[t] + 1 \in Nat
      BY <1>6, DatagramFacts DEF PeerSends
    <2>3. <<t, sent[t] + 1>> \in UNION {{u} \X Datagrams(u) : u \in Types}
      BY <1>6 DEF PeerSends
    <2>4. PpcsTypeOK'
      BY SMTT(30), <1>1, <1>6, <2>2, <2>3 DEF PpcsTypeOK, PeerSends, session, assembly
    <2> QED
      BY <2>1, <2>4, AssemblyUnchanged
  <1>7. ASSUME NEW t \in Types, NEW n \in Datagrams(t), Lost(t, n) PROVE MediaInv'
    <2>1. UNCHANGED assembly
      BY <1>7 DEF Lost
    <2>2. network' \subseteq UNION {{u} \X Datagrams(u) : u \in Types}
      <3>1. network' \subseteq network
        BY <1>7 DEF Lost
      <3> QED
        BY <1>1, <3>1 DEF PpcsTypeOK
    <2>3. UNCHANGED <<session, commands, peer, repeats>>
      BY <1>7 DEF Lost
    <2>4. PpcsTypeOK'
      BY SMTT(30), <1>1, <2>1, <2>2, <2>3 DEF PpcsTypeOK, session, assembly, peer
    <2> QED
      BY <2>1, <2>4, AssemblyUnchanged
  <1>8. CASE UNCHANGED vars
    <2>1. UNCHANGED assembly /\ PpcsTypeOK'
      BY <1>1, <1>8 DEF PpcsTypeOK, vars, session, assembly, peer
    <2> QED
      BY <2>1, AssemblyUnchanged
  <1> QED
    BY <1>2, <1>3, <1>4, <1>5, <1>6, <1>7, <1>8 DEF Next

-----------------------------------------------------------------------------
\* The types of the media session: datagrams on their way exist, and every part that
\* is pending or handed on is a position of the stream.
THEOREM MediaTypes == Spec => []PpcsTypeOK
  <1>1. MediaInv => PpcsTypeOK
    BY DEF MediaInv
  <1> QED
    BY <1>1, InitInv, NextInv, PTL DEF Spec

\* Whatever UDP loses, overtakes or repeats later, #consumeData cuts out nothing but
\* whole frames, as long as no datagram of a frame comes again right after itself.
THEOREM FramesWithoutHoles == Spec => NoPartMissing
  <1>1. ASSUME MediaInv, [Next]_vars, NEW t \in Types, handed'[t] # handed[t], seam[t] = 0
        PROVE  WholeFrame(t, Last(handed'[t]))
    <2>1. HandFrame(t)
      <3>1. ASSUME NEW u \in Types, HandFrame(u) PROVE u = t
        BY <1>1, <3>1 DEF HandFrame, MediaInv, PpcsTypeOK
      <3>2. CASE UNCHANGED vars
        BY <1>1, <3>2 DEF vars, assembly
      <3> QED
        BY <1>1, <3>1, <3>2
        DEF Next, Consume, DropOversize, Start, CamId, LookupTimeout, Close, Heartbeat, KeyLookedUp,
            PeerHears, CommandLost, PeerSends, Arrives, Receive, Lost, assembly
    <2> DEFINE frame == SubSeq(pending[t], 1, FrameSize(t))
    <2>2. WholeFrame(t, frame)
      BY <1>1, <2>1, CutWhole
    <2>3. handed[t] \in Seq(Seq(Nat)) /\ handed'[t] = Append(handed[t], frame)
      BY <1>1, <2>1 DEF HandFrame, MediaInv, PpcsTypeOK
    <2>4. Last(handed'[t]) = frame
      <3>1. /\ Len(handed'[t]) = Len(handed[t]) + 1
            /\ handed'[t][Len(handed[t]) + 1] = frame
        <4>1. frame \in Seq(Nat)
          BY <1>1, <2>1, CutFacts
        <4> QED
          BY <2>3, <4>1, AppendProperties
      <3> QED
        BY <3>1 DEF Last
    <2> QED
      BY <2>2, <2>4
  <1>2. MediaInv /\ [Next]_vars
          => [\A t \in Types : handed'[t] # handed[t] /\ seam[t] = 0
                => WholeFrame(t, Last(handed'[t]))]_vars
    BY <1>1
  <1> QED
    BY <1>2, InitInv, NextInv, PTL DEF Spec, NoPartMissing
=============================================================================
