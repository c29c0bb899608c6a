---------------------------- MODULE DetectionProofs ----------------------------
(***************************************************************************)
(* Proofs about Detection.  The window of an address, or of an agent for   *)
(* events without one, is a deque that is trimmed from its front as long   *)
(* as the front is too old for the event at hand, and events come in any   *)
(* order: what the deque holds is neither sorted nor within a window.      *)
(* What the count of the decision rests on is that every event that is at  *)
(* most a window older than each of the others still has a place of its    *)
(* own in it (Covered), and that nothing else is in it (OwnEvents).        *)
(***************************************************************************)
EXTENDS Detection, FiniteSetTheorems, SequenceTheorems, TLAPS

\* The events of window k among C that are at most WindowSeconds older than each
\* of those.
Live(E, C, k) ==
  {f \in C : /\ WindowKey(E[f]) = k
             /\ \A g \in C : WindowKey(E[g]) = k => E[g].ts - E[f].ts <= WindowSeconds}

\* Each of the events L has a place of its own in h.
Placed(E, L, h) ==
  \E place \in [L -> 1..Len(h)] :
     /\ \A f, g \in L : place[f] = place[g] => f = g
     /\ \A f \in L : h[place[f]] = E[f].ts

\* What is live has its place, in every window that has not been at its cap.
Covered ==
  \A k \in Windows \ full : Placed(event, Live(event, counted, k), history[k])

\* h holds times of the events C of window k, and no others.
Holds(E, C, k, h) ==
  \A i \in 1..Len(h) : \E f \in C : WindowKey(E[f]) = k /\ E[f].ts = h[i]

\* Nothing is in a window but what the events of its key brought.
OwnEvents == \A k \in Windows : Holds(event, counted, k, history[k])

\* An event that has been looked at has arrived.
ArrivedAreRecords ==
  \A e \in Events : stage[e] # "new" => event[e] \in EventRecord

CountedHaveArrived ==
  \A e \in counted : stage[e] # "new"

\* A message in flight, or sent, is noted, and never with a later time than now.
ToldIsNoted ==
  /\ \A m \in told : m.key \in DOMAIN lastSent /\ m.at <= lastSent[m.key]
  /\ \A k \in DOMAIN lastSent : lastSent[k] <= clock

DetectionInv ==
  /\ TypeOK
  /\ clock <= MaxTime
  /\ ArrivedAreRecords
  /\ CountedHaveArrived
  /\ Covered
  /\ OwnEvents
  /\ ToldIsNoted
  /\ TelegramsApart

-----------------------------------------------------------------------------
(***************************************************************************)
(* The window.                                                             *)
(***************************************************************************)

\* Among numbers there is a least.
LEMMA Least ==
  ASSUME NEW S, S \subseteq Nat, S # {}
  PROVE  \E x \in S : \A y \in S : x <= y
<1>1. PICK x \in S : \A y \in S : <<y, x>> \notin OpToRel(<, Nat)
  BY WFMin, NatLessThanWellFounded
<1>2. \A y \in S : ~(y < x)
  BY <1>1 DEF OpToRel
<1> QED
  BY <1>2

\* The deque drops at most what goes over its cap.
LEMMA LastOfKeeps ==
  ASSUME NEW h \in Seq(Nat), NEW n \in Nat \ {0}
  PROVE  /\ LastOf(h, n) \in Seq(Nat)
         /\ Len(LastOf(h, n)) <= n
         /\ Len(h) <= n => LastOf(h, n) = h
         /\ \E d \in 0..Len(h) :
              /\ Len(LastOf(h, n)) = Len(h) - d
              /\ \A i \in 1..Len(h) - d : LastOf(h, n)[i] = h[i + d]
<1>1. CASE Len(h) <= n
  <2>1. LastOf(h, n) = h
    BY <1>1 DEF LastOf
  <2>2. 0 \in 0..Len(h) /\ Len(h) = Len(h) - 0 /\ \A i \in 1..Len(h) - 0 : h[i] = h[i + 0]
    OBVIOUS
  <2> QED
    BY <1>1, <2>1, <2>2
<1>2. CASE Len(h) > n
  <2>0. Len(h) - n \in 1..Len(h)
    BY <1>2
  <2>1. PICK d \in 1..Len(h) : d = Len(h) - n
    BY <2>0
  <2>2. d + 1 \in Int /\ Len(h) \in Int /\ \A i \in d + 1 .. Len(h) : h[i] \in Nat
    OBVIOUS
  <2>3. LastOf(h, n) = SubSeq(h, d + 1, Len(h))
    BY <1>2, <2>1 DEF LastOf
  <2>4. /\ SubSeq(h, d + 1, Len(h)) \in Seq(Nat)
        /\ Len(SubSeq(h, d + 1, Len(h))) = IF d + 1 <= Len(h) THEN Len(h) - (d + 1) + 1 ELSE 0
        /\ \A i \in 1..Len(h) - (d + 1) + 1 : SubSeq(h, d + 1, Len(h))[i] = h[(d + 1) + i - 1]
    BY <2>2, SubSeqProperties
  <2>5. Len(SubSeq(h, d + 1, Len(h))) = Len(h) - d /\ Len(h) - d = n
    BY <2>1, <2>4
  <2>6. ASSUME NEW i \in 1..Len(h) - d PROVE SubSeq(h, d + 1, Len(h))[i] = h[i + d]
    <3>1. i \in 1..Len(h) - (d + 1) + 1 /\ (d + 1) + i - 1 = i + d
      OBVIOUS
    <3> QED
      BY <2>4, <3>1
  <2>7. d \in 0..Len(h)
    OBVIOUS
  <2>8. \E x \in 0..Len(h) :
          /\ Len(LastOf(h, n)) = Len(h) - x
          /\ \A i \in 1..Len(h) - x : LastOf(h, n)[i] = h[i + x]
    BY <2>3, <2>5, <2>6, <2>7
  <2>9. LastOf(h, n) \in Seq(Nat) /\ Len(LastOf(h, n)) = n
    BY <2>3, <2>4, <2>5
  <2>10. Len(LastOf(h, n)) <= n /\ ~(Len(h) <= n)
    BY <1>2, <2>9
  <2> QED
    BY <2>8, <2>9, <2>10
<1> QED
  BY <1>1, <1>2

\* Trimming takes a front of expired times away and leaves the others in order.
LEMMA TrimmedKeeps ==
  ASSUME NEW h \in Seq(Nat), NEW ts \in Nat
  PROVE  \E d \in 0..Len(h) :
           /\ Trimmed(h, ts) \in Seq(Nat)
           /\ Len(Trimmed(h, ts)) = Len(h) - d
           /\ \A i \in 1..Len(h) - d : Trimmed(h, ts)[i] = h[i + d]
           /\ \A i \in 1..d : Expired(h, i, ts)
           /\ d < Len(h) => ~Expired(h, d + 1, ts)
<1> DEFINE Stop(n) == n < Len(h) => ~Expired(h, n + 1, ts)
           S == {n \in 0..Len(h) : Stop(n)}
           Fits(n) == (\A i \in 1..n : Expired(h, i, ts)) /\ Stop(n)
<1>1. S \subseteq Nat /\ Len(h) \in S
  OBVIOUS
<1>2. PICK m \in S : \A y \in S : m <= y
  <2> HIDE DEF S
  <2> QED
    BY <1>1, Least
<1>3. ASSUME NEW i \in 1..m PROVE Expired(h, i, ts)
  <2>1. i - 1 \in 0..Len(h) /\ i - 1 < m /\ i - 1 < Len(h) /\ (i - 1) + 1 = i
    OBVIOUS
  <2>2. i - 1 \notin S
    BY <1>2, <2>1
  <2>3. ~Stop(i - 1)
    BY <2>1, <2>2
  <2> QED
    BY <2>1, <2>3
<1>4. m \in 0..Len(h) /\ Fits(m)
  BY <1>3
<1> DEFINE d == CHOOSE n \in 0..Len(h) : Fits(n)
<1>5. d \in 0..Len(h) /\ Fits(d)
  BY <1>4
<1>6. Trimmed(h, ts) = SubSeq(h, d + 1, Len(h))
  BY DEF Trimmed
<1> HIDE DEF d
<1>7. /\ SubSeq(h, d + 1, Len(h)) \in Seq(Nat)
      /\ Len(SubSeq(h, d + 1, Len(h))) = IF d + 1 <= Len(h) THEN Len(h) - (d + 1) + 1 ELSE 0
      /\ \A i \in 1..Len(h) - (d + 1) + 1 : SubSeq(h, d + 1, Len(h))[i] = h[(d + 1) + i - 1]
  <2>1. d + 1 \in Int /\ Len(h) \in Int /\ \A i \in d + 1 .. Len(h) : h[i] \in Nat
    BY <1>5
  <2> QED
    BY <2>1, SubSeqProperties
<1>8. Len(SubSeq(h, d + 1, Len(h))) = Len(h) - d
  BY <1>5, <1>7
<1>9. ASSUME NEW i \in 1..Len(h) - d PROVE SubSeq(h, d + 1, Len(h))[i] = h[i + d]
  <2>1. i \in 1..Len(h) - (d + 1) + 1 /\ (d + 1) + i - 1 = i + d
    BY <1>5
  <2> QED
    BY <1>7, <2>1
<1>10. /\ Trimmed(h, ts) \in Seq(Nat)
       /\ Len(Trimmed(h, ts)) = Len(h) - d
       /\ \A i \in 1..Len(h) - d : Trimmed(h, ts)[i] = h[i + d]
  BY <1>6, <1>7, <1>8, <1>9
<1> QED
  BY <1>5, <1>10

\* One call of update_from_raw keeps the cap.
LEMMA RecordedKeepsCap ==
  ASSUME NEW h \in Seq(Nat), NEW ts \in Nat
  PROVE  /\ Recorded(h, ts) \in Seq(Nat)
         /\ Len(Recorded(h, ts)) <= MaxWindowEvents
         /\ Len(h) < MaxWindowEvents => Len(Recorded(h, ts)) <= Len(h) + 1
<1> DEFINE a == Append(h, ts)
           b == LastOf(a, MaxWindowEvents)
<1>1. a \in Seq(Nat) /\ Len(a) = Len(h) + 1
  OBVIOUS
<1>2. MaxWindowEvents \in Nat \ {0}
  BY DetectionAssumption
<1>3. /\ b \in Seq(Nat) /\ Len(b) <= MaxWindowEvents
      /\ Len(a) <= MaxWindowEvents => b = a
  <2> HIDE DEF a
  <2> QED
    BY <1>1, <1>2, LastOfKeeps
<1>4. Recorded(h, ts) = Trimmed(b, ts)
  BY DEF Recorded
<1> HIDE DEF b
<1>5. PICK d \in 0..Len(b) : Trimmed(b, ts) \in Seq(Nat) /\ Len(Trimmed(b, ts)) = Len(b) - d
  BY <1>3, TrimmedKeeps
<1> QED
  BY <1>1, <1>2, <1>3, <1>4, <1>5

\* A call leaves an end of what was there with the new time, of which the first
\* is at most a window old.
LEMMA RecordedIsEnd ==
  ASSUME NEW h \in Seq(Nat), NEW ts \in Nat
  PROVE  \E d \in 0..Len(h) + 1 :
           /\ Len(Recorded(h, ts)) = Len(h) + 1 - d
           /\ \A i \in 1..Len(h) + 1 - d : Recorded(h, ts)[i] = Append(h, ts)[i + d]
           /\ d < Len(h) + 1 => ts - Append(h, ts)[1 + d] <= WindowSeconds
<1> DEFINE a == Append(h, ts)
           b == LastOf(a, MaxWindowEvents)
<1>1. a \in Seq(Nat) /\ Len(a) = Len(h) + 1
  OBVIOUS
<1>2. MaxWindowEvents \in Nat \ {0} /\ WindowSeconds \in Nat
  BY DetectionAssumption
<1>3. Recorded(h, ts) = Trimmed(b, ts)
  BY DEF Recorded
<1> HIDE DEF a
<1>4. b \in Seq(Nat)
  BY <1>1, <1>2, LastOfKeeps
<1>5. PICK c \in 0..Len(a) : Len(b) = Len(a) - c /\ \A i \in 1..Len(a) - c : b[i] = a[i + c]
  BY <1>1, <1>2, LastOfKeeps
<1> HIDE DEF b
<1>6. PICK d \in 0..Len(b) :
        /\ Len(Trimmed(b, ts)) = Len(b) - d
        /\ \A i \in 1..Len(b) - d : Trimmed(b, ts)[i] = b[i + d]
        /\ d < Len(b) => ~Expired(b, d + 1, ts)
  BY <1>4, TrimmedKeeps
<1>7. PICK x \in 0..Len(a) : x = c + d
  BY <1>5, <1>6
<1>8. Len(Recorded(h, ts)) = Len(a) - x /\ Len(b) - d = Len(a) - x
  BY <1>1, <1>3, <1>5, <1>6, <1>7
<1>9. ASSUME NEW i \in 1..Len(a) - x PROVE Recorded(h, ts)[i] = a[i + x]
  <2>1. i \in 1..Len(b) - d
    BY <1>8
  <2>2. i + d \in 1..Len(a) - c /\ (i + d) + c = i + x
    BY <1>5, <1>6, <1>7
  <2> QED
    BY <1>3, <1>5, <1>6, <2>1, <2>2
<1>10. ASSUME x < Len(a) PROVE ts - a[1 + x] <= WindowSeconds
  <2>1. d < Len(b) /\ d + 1 \in 1..Len(a) - c /\ (d + 1) + c = 1 + x
        /\ 1 + x \in 1..Len(a)
    BY <1>1, <1>5, <1>6, <1>7, <1>10
  <2>2. b[d + 1] = a[1 + x]
    BY <1>5, <2>1
  <2>3. a[1 + x] \in Nat
    BY <1>1, <2>1
  <2> QED
    BY <1>2, <1>6, <2>1, <2>2, <2>3 DEF Expired
<1>11. x \in 0..Len(h) + 1 /\ Len(a) = Len(h) + 1
  BY <1>1
<1>12. /\ Len(Recorded(h, ts)) = Len(h) + 1 - x
       /\ \A i \in 1..Len(h) + 1 - x : Recorded(h, ts)[i] = a[i + x]
       /\ x < Len(h) + 1 => ts - a[1 + x] <= WindowSeconds
  BY <1>8, <1>9, <1>10, <1>11
<1> QED
  BY <1>11, <1>12 DEF a

\* So it holds times of the same events, and of the new one.
LEMMA RecordedHoldsOwn ==
  ASSUME NEW E, NEW C, NEW k, NEW e, NEW h \in Seq(Nat),
         Holds(E, C, k, h), E[e].ts \in Nat, WindowKey(E[e]) = k
  PROVE  Holds(E, C \cup {e}, k, Recorded(h, E[e].ts))
<1> DEFINE ts == E[e].ts
           R == Recorded(h, ts)
<1>1. PICK d \in 0..Len(h) + 1 :
        /\ Len(R) = Len(h) + 1 - d
        /\ \A i \in 1..Len(h) + 1 - d : R[i] = Append(h, ts)[i + d]
  BY RecordedIsEnd
<1> HIDE DEF R
<1>2. ASSUME NEW i \in 1..Len(R)
      PROVE  \E f \in C \cup {e} : WindowKey(E[f]) = k /\ E[f].ts = R[i]
  <2>0. Len(h) + 1 - d \in Nat
    OBVIOUS
  <2>1. PICK n \in Nat : n = Len(R) /\ n = Len(h) + 1 - d
    BY <1>1, <2>0
  <2>2. i \in 1..Len(h) + 1 - d /\ i + d \in 1..Len(h) + 1
    BY <2>1
  <2>3. PICK j \in 1..Len(h) + 1 : j = i + d
    BY <2>2
  <2>4. R[i] = Append(h, ts)[j]
    BY <1>1, <2>2, <2>3
  <2>5. CASE j = Len(h) + 1
    BY <2>4, <2>5
  <2>6. CASE j # Len(h) + 1
    <3>1. j \in 1..Len(h) /\ R[i] = h[j]
      BY <2>4, <2>6
    <3> QED
      BY <3>1 DEF Holds
  <2> QED
    BY <2>5, <2>6
<1> QED
  BY <1>2 DEF Holds, R

\* Two times are one of an earlier event that is at most a window old.
LEMMA TwoAreNotAlone ==
  ASSUME NEW E, NEW C, NEW k, NEW h \in Seq(Nat), NEW ts \in Nat,
         Holds(E, C, k, h), Len(Recorded(h, ts)) > 1
  PROVE  \E f \in C : WindowKey(E[f]) = k /\ ts - E[f].ts <= WindowSeconds
<1>1. PICK d \in 0..Len(h) + 1 :
        /\ Len(Recorded(h, ts)) = Len(h) + 1 - d
        /\ d < Len(h) + 1 => ts - Append(h, ts)[1 + d] <= WindowSeconds
  BY RecordedIsEnd
<1>2. 1 + d \in 1..Len(h) /\ d < Len(h) + 1
  BY <1>1
<1>3. Append(h, ts)[1 + d] = h[1 + d]
  BY <1>2
<1>4. PICK f \in C : WindowKey(E[f]) = k /\ E[f].ts = h[1 + d]
  BY <1>2 DEF Holds
<1> QED
  BY <1>1, <1>2, <1>3, <1>4

\* Below the cap a call leaves every event in its place that is not too old for
\* the one it records, and gives that one the last.
LEMMA RecordedKeepsPlaces ==
  ASSUME NEW E, NEW L, NEW K, NEW e, NEW h \in Seq(Nat),
         Placed(E, L, h), E[e].ts \in Nat,
         Len(h) < MaxWindowEvents,
         K \subseteq L \cup {e},
         \A f \in K : E[f].ts \in Nat /\ E[e].ts - E[f].ts <= WindowSeconds
  PROVE  Placed(E, K, Recorded(h, E[e].ts))
<1> DEFINE ts == E[e].ts
           a == Append(h, ts)
<1>1. /\ a \in Seq(Nat) /\ Len(a) = Len(h) + 1 /\ a[Len(h) + 1] = ts
      /\ \A i \in 1..Len(h) : a[i] = h[i]
  OBVIOUS
<1>2. MaxWindowEvents \in Nat \ {0} /\ WindowSeconds \in Nat
  BY DetectionAssumption
<1>3. LastOf(a, MaxWindowEvents) = a
  <2>1. Len(a) <= MaxWindowEvents
    BY <1>1, <1>2
  <2> HIDE DEF a
  <2> QED
    BY <1>1, <1>2, <2>1, LastOfKeeps
<1>4. Recorded(h, ts) = Trimmed(a, ts)
  BY <1>3 DEF Recorded
<1> HIDE DEF a
<1>5. PICK d \in 0..Len(a) :
        /\ Trimmed(a, ts) \in Seq(Nat)
        /\ Len(Trimmed(a, ts)) = Len(a) - d
        /\ \A i \in 1..Len(a) - d : Trimmed(a, ts)[i] = a[i + d]
        /\ \A i \in 1..d : Expired(a, i, ts)
  BY <1>1, TrimmedKeeps
<1>6. PICK place \in [L -> 1..Len(h)] :
        /\ \A f, g \in L : place[f] = place[g] => f = g
        /\ \A f \in L : h[place[f]] = E[f].ts
  BY DEF Placed
<1> DEFINE old(f) == IF f = e THEN Len(h) + 1 ELSE place[f]
           new == [f \in K |-> old(f) - d]
<1>7. ASSUME NEW f \in K
      PROVE  old(f) \in 1..Len(a) /\ a[old(f)] = E[f].ts
  <2>1. CASE f = e
    BY <1>1, <2>1
  <2>2. CASE f # e
    <3>1. f \in L /\ place[f] \in 1..Len(h) /\ old(f) = place[f]
      BY <2>2
    <3> QED
      BY <1>1, <1>6, <3>1
  <2> QED
    BY <2>1, <2>2
<1>8. ASSUME NEW f \in K PROVE old(f) > d
  <2> HIDE DEF old
  <2>1. ~Expired(a, old(f), ts)
    BY <1>1, <1>2, <1>7 DEF Expired
  <2> QED
    BY <1>1, <1>5, <1>7, <2>1
<1>9. \A f \in K : new[f] \in 1..Len(a) - d /\ new[f] + d = old(f)
  <2> HIDE DEF old
  <2> QED
    BY <1>1, <1>5, <1>7, <1>8
<1>10. new \in [K -> 1..Len(Recorded(h, ts))]
  <2> HIDE DEF old
  <2> QED
    BY <1>4, <1>5, <1>9
<1>11. \A f \in K : Recorded(h, ts)[new[f]] = E[f].ts
  <2> HIDE DEF old, new
  <2> QED
    BY <1>4, <1>5, <1>7, <1>9
<1>12. ASSUME NEW f \in K, NEW g \in K, new[f] = new[g] PROVE f = g
  <2>1. old(f) = old(g)
    <3> HIDE DEF old, new
    <3> QED
      BY <1>9, <1>12
  <2>2. \A x \in K : x # e => x \in L /\ place[x] \in 1..Len(h)
    OBVIOUS
  <2> QED
    BY <1>1, <1>6, <2>1, <2>2
<1> QED
  <2> HIDE DEF new, ts
  <2> QED
    BY <1>10, <1>11, <1>12 DEF Placed, ts

\* What an arrived event has.
LEMMA RecordsFit ==
  ASSUME NEW r \in EventRecord
  PROVE  /\ r.src \in Sources /\ r.level \in Nat /\ r.ts \in 0..MaxTime
         /\ WindowKey(r) \in Windows
<1>1. PICK a \in RawAlerts, ts \in 0..MaxTime : r = NormalizeEvent(a, ts)
  BY DEF EventRecord
<1>2. r.src = SourceOf(a) /\ r.agent = a.agent /\ r.level = a.level /\ r.ts = ts
  BY <1>1 DEF NormalizeEvent
<1>3. NormalizeEvent(a, 0).src = r.src /\ NormalizeEvent(a, 0).agent = r.agent
  BY <1>2 DEF NormalizeEvent
<1>4. WindowKey(r) \in Windows
  BY <1>3 DEF Windows, WindowKey
<1> QED
  BY <1>2, <1>4, DetectionAssumption DEF Sources

\* Events are of one origin exactly if they are counted in one window.
LEMMA OriginsAreWindows ==
  ASSUME NEW e, NEW f, event[e] \in EventRecord, event[f] \in EventRecord
  PROVE  SameOrigin(e, f) <=> WindowKey(event[f]) = WindowKey(event[e])
<1>1. PICK a \in RawAlerts, ts \in 0..MaxTime : event[e] = NormalizeEvent(a, ts)
  BY DEF EventRecord
<1>2. PICK b \in RawAlerts, us \in 0..MaxTime : event[f] = NormalizeEvent(b, us)
  BY DEF EventRecord
<1>3. /\ event[e].src = SourceOf(a) /\ event[e].agent = a.agent
      /\ event[f].src = SourceOf(b) /\ event[f].agent = b.agent
  BY <1>1, <1>2 DEF NormalizeEvent
<1>4. SourceOf(a) # <<"agent", b.agent>> /\ SourceOf(b) # <<"agent", a.agent>>
  BY DetectionAssumption
<1>5. <<"agent", a.agent>> = <<"agent", b.agent>> <=> a.agent = b.agent
  OBVIOUS
<1> QED
  BY <1>3, <1>4, <1>5 DEF SameOrigin, WindowKey

\* Nothing, or an arrived event recorded once or twice: the window keeps its type
\* and its cap, and what it covers stays covered.
LEMMA RecordKeepsWindow ==
  ASSUME DetectionInv, NEW e \in Events, event[e] \in EventRecord,
         NEW n \in 0..2, Record(e, n), event' = event
  PROVE  /\ history' \in [Windows -> Seq(Nat)]
         /\ \A k \in Windows : Len(history'[k]) <= MaxWindowEvents
         /\ counted' \subseteq counted \cup {e}
         /\ full' \subseteq Windows
         /\ Covered'
         /\ OwnEvents'
<1> DEFINE ev == event[e]
           k == WindowKey(ev)
           h == history[k]
           r == Recorded(h, ev.ts)
<1> USE DEF DetectionInv, TypeOK
<1>1. k \in Windows /\ ev.ts \in Nat
  BY RecordsFit, DetectionAssumption
<1>2. /\ history' = [history EXCEPT ![k] = RecordedTimes(h, ev.ts, n)]
      /\ counted' = IF n = 0 THEN counted ELSE counted \cup {e}
      /\ full' = IF Len(h) + n > MaxWindowEvents THEN full \cup {k} ELSE full
  BY DEF Record
<1>3. h \in Seq(Nat) /\ Len(h) <= MaxWindowEvents /\ MaxWindowEvents \in Nat
  BY <1>1, DetectionAssumption
<1>4. /\ r \in Seq(Nat) /\ Len(r) <= MaxWindowEvents
      /\ Len(h) < MaxWindowEvents => Len(r) <= Len(h) + 1
  <2> HIDE DEF h, k, ev
  <2> QED
    BY <1>1, <1>3, RecordedKeepsCap
<1>5. /\ Recorded(r, ev.ts) \in Seq(Nat)
      /\ Len(Recorded(r, ev.ts)) <= MaxWindowEvents
  <2> HIDE DEF r, h, k, ev
  <2> QED
    BY <1>1, <1>4, RecordedKeepsCap
<1>6. /\ n = 0 => RecordedTimes(h, ev.ts, n) = h
      /\ n = 1 => RecordedTimes(h, ev.ts, n) = r
      /\ n = 2 => RecordedTimes(h, ev.ts, n) = Recorded(r, ev.ts)
      /\ n = 0 \/ n = 1 \/ n = 2
  BY DEF RecordedTimes
<1>7. /\ RecordedTimes(h, ev.ts, n) \in Seq(Nat)
      /\ Len(RecordedTimes(h, ev.ts, n)) <= MaxWindowEvents
  <2> HIDE DEF r, h, k, ev
  <2> QED
    BY <1>3, <1>4, <1>5, <1>6
<1>8. /\ history' \in [Windows -> Seq(Nat)]
      /\ \A s \in Windows : Len(history'[s]) <= MaxWindowEvents
  <2> HIDE DEF h, k, ev
  <2> QED
    BY <1>1, <1>2, <1>7
<1>9. ASSUME NEW s \in Windows \ full'
      PROVE  Placed(event, Live(event, counted', s), history'[s])
  <2>1. s \notin full /\ Placed(event, Live(event, counted, s), history[s])
    BY <1>2 DEF Covered
  <2>2. CASE s # k \/ n = 0
    <3>1. history'[s] = history[s]
      BY <1>1, <1>2, <1>6, <2>2
    <3>2. Live(event, counted', s) = Live(event, counted, s)
      BY <1>2, <2>2 DEF Live
    <3> QED
      BY <2>1, <3>1, <3>2
  <2>3. CASE s = k /\ n # 0
    <3> DEFINE L == Live(event, counted, s)
               K == Live(event, counted', s)
    <3>1. Len(h) + n <= MaxWindowEvents
      BY <1>2, <1>3, <2>3
    <3>2. counted' = counted \cup {e}
      BY <1>2, <2>3
    <3>3. K \subseteq L \cup {e}
      BY <3>2 DEF Live
    <3>4. ASSUME NEW f \in K
          PROVE  event[f].ts \in Nat /\ event[e].ts - event[f].ts <= WindowSeconds
      <4>1. f \in counted \cup {e}
        BY <3>2 DEF Live
      <4>2. event[f] \in EventRecord
        BY <4>1 DEF CountedHaveArrived, ArrivedAreRecords
      <4>3. event[f].ts \in Nat
        BY <4>2, RecordsFit, DetectionAssumption
      <4>4. event[e].ts - event[f].ts <= WindowSeconds
        BY <2>3, <3>2 DEF Live
      <4> QED
        BY <4>3, <4>4
    <3>5. Placed(event, L, h)
      BY <2>1, <2>3
    <3>6. Placed(event, K, r)
      <4>1. Len(h) < MaxWindowEvents
        BY <1>3, <2>3, <3>1
      <4> HIDE DEF L, K, h
      <4> QED
        BY <1>1, <1>3, <3>3, <3>4, <3>5, <4>1, RecordedKeepsPlaces
    <3>7. CASE n = 1
      <4>1. history'[s] = r
        BY <1>1, <1>2, <1>6, <2>3, <3>7
      <4> QED
        BY <3>6, <4>1
    <3>8. CASE n = 2
      <4>1. history'[s] = Recorded(r, ev.ts)
        BY <1>1, <1>2, <1>6, <2>3, <3>8
      <4>2. Len(r) < MaxWindowEvents
        <5> HIDE DEF r, h
        <5> QED
          BY <1>3, <1>4, <3>1, <3>8
      <4>3. K \subseteq K \cup {e}
        OBVIOUS
      <4>4. Placed(event, K, Recorded(r, ev.ts))
        <5> HIDE DEF K, r
        <5> QED
          BY <1>1, <1>4, <3>4, <3>6, <4>2, <4>3, RecordedKeepsPlaces
      <4> QED
        BY <4>1, <4>4
    <3> QED
      BY <1>6, <2>3, <3>7, <3>8
  <2> QED
    BY <2>2, <2>3
<1>10. Covered'
  BY <1>9 DEF Covered
<1>11. counted' \subseteq counted \cup {e} /\ full' \subseteq Windows
  BY <1>1, <1>2
<1>12. ASSUME NEW s \in Windows PROVE Holds(event, counted', s, history'[s])
  <2>1. Holds(event, counted, s, history[s])
    BY DEF OwnEvents
  <2>2. CASE s # k \/ n = 0
    <3>1. history'[s] = history[s] /\ counted \subseteq counted'
      BY <1>1, <1>2, <1>6, <2>2
    <3> QED
      BY <2>1, <3>1 DEF Holds
  <2>3. CASE s = k /\ n # 0
    <3>1. counted' = counted \cup {e} /\ WindowKey(event[e]) = s
      BY <1>2, <2>3
    <3>2. Holds(event, counted', s, r)
      <4> HIDE DEF DetectionInv, TypeOK
      <4> QED
        BY <1>1, <1>3, <2>1, <2>3, <3>1, RecordedHoldsOwn
    <3>3. CASE n = 1
      <4>1. history'[s] = r
        BY <1>1, <1>2, <1>6, <2>3, <3>3
      <4> QED
        BY <3>2, <4>1
    <3>4. CASE n = 2
      <4>1. history'[s] = Recorded(r, ev.ts)
        BY <1>1, <1>2, <1>6, <2>3, <3>4
      <4>2. counted' \cup {e} = counted'
        BY <3>1
      <4>3. Holds(event, counted' \cup {e}, s, Recorded(r, ev.ts))
        <5> HIDE DEF DetectionInv, TypeOK, r
        <5> QED
          BY <1>1, <1>4, <3>1, <3>2, RecordedHoldsOwn
      <4> QED
        BY <4>1, <4>2, <4>3
    <3> QED
      BY <1>6, <2>3, <3>3, <3>4
  <2> QED
    BY <2>2, <2>3
<1>13. OwnEvents'
  BY <1>12 DEF OwnEvents
<1> QED
  BY <1>8, <1>10, <1>11, <1>13

-----------------------------------------------------------------------------
(***************************************************************************)
(* The invariant.                                                          *)
(***************************************************************************)

LEMMA InitHasInv == Init => DetectionInv
<1> SUFFICES ASSUME Init PROVE DetectionInv
  OBVIOUS
<1> USE DEF Init
<1>1. TypeOK
  <2>1. clock \in Nat /\ changes \in 0..MaxChanges
    BY DetectionAssumption
  <2>2. event \in [Events -> EventRecord \cup {<< >>}]
    OBVIOUS
  <2>3. stage \in [Events -> Stage] /\ decision \in [Events -> Decisions]
    BY DEF Stage, Decisions
  <2>4. history \in [Windows -> Seq(Nat)]
    OBVIOUS
  <2>5. \A s \in Windows : Len(history[s]) <= MaxWindowEvents
    BY DetectionAssumption
  <2>6. task \in [Events -> TaskState] /\ DOMAIN lastSent = {} /\ told = {}
    BY DEF TaskState
  <2> QED
    BY <2>1, <2>2, <2>3, <2>4, <2>5, <2>6 DEF TypeOK
<1>2. clock <= MaxTime
  BY DetectionAssumption
<1>3. ArrivedAreRecords /\ CountedHaveArrived
  BY DEF ArrivedAreRecords, CountedHaveArrived
<1>4. OwnEvents
  BY DEF OwnEvents, Holds
<1>5. Covered
  <2> SUFFICES ASSUME NEW s \in Windows
               PROVE  Placed(event, Live(event, counted, s), history[s])
    BY DEF Covered
  <2>1. Live(event, counted, s) = {}
    BY DEF Live
  <2>2. [f \in {} |-> 0] \in [{} -> 1..Len(history[s])]
    OBVIOUS
  <2> QED
    BY <2>1, <2>2 DEF Placed
<1>6. ToldIsNoted /\ TelegramsApart
  <2>1. told = {} /\ DOMAIN lastSent = {}
    OBVIOUS
  <2> QED
    BY <2>1 DEF ToldIsNoted, TelegramsApart
<1> QED
  BY <1>1, <1>2, <1>3, <1>4, <1>5, <1>6 DEF DetectionInv

LEMMA ArriveKeepsInv ==
  ASSUME DetectionInv, NEW e \in Events, Arrive(e)
  PROVE  DetectionInv'
<1> USE DEF DetectionInv, TypeOK
<1>1. /\ stage[e] = "new" /\ stage' = [stage EXCEPT ![e] = "inserting"]
      /\ UNCHANGED <<clock, decision, history, counted, full, whitelist, task,
                     lastSent, told, changes>>
  BY DEF Arrive, windowVars, alertVars
<1>2. PICK ev \in EventRecord : event' = [event EXCEPT ![e] = ev]
  BY DEF Arrive
<1>3. event' \in [Events -> EventRecord \cup {<< >>}]
  BY <1>2
<1>4. stage' \in [Events -> Stage]
  BY <1>1 DEF Stage
<1>5. TypeOK'
  BY <1>1, <1>3, <1>4
<1>6. ArrivedAreRecords'
  BY <1>1, <1>2 DEF ArrivedAreRecords
<1>7. CountedHaveArrived'
  BY <1>1 DEF CountedHaveArrived
<1>8. Covered'
  <2>1. \A f \in counted : event'[f] = event[f]
    BY <1>1, <1>2 DEF CountedHaveArrived
  <2> SUFFICES ASSUME NEW s \in Windows \ full
               PROVE  Placed(event', Live(event', counted, s), history[s])
    BY <1>1 DEF Covered
  <2>2. Live(event', counted, s) = Live(event, counted, s)
    BY <2>1 DEF Live
  <2>3. Live(event, counted, s) \subseteq counted
    BY DEF Live
  <2>4. Placed(event, Live(event, counted, s), history[s])
    BY DEF Covered
  <2>5. PICK place \in [Live(event, counted, s) -> 1..Len(history[s])] :
          /\ \A f, g \in Live(event, counted, s) : place[f] = place[g] => f = g
          /\ \A f \in Live(event, counted, s) : history[s][place[f]] = event[f].ts
    BY <2>4 DEF Placed
  <2>6. \A f \in Live(event, counted, s) : history[s][place[f]] = event'[f].ts
    BY <2>1, <2>3, <2>5
  <2>7. Placed(event', Live(event, counted, s), history[s])
    BY <2>5, <2>6 DEF Placed
  <2> QED
    BY <2>2, <2>7
<1>9. ToldIsNoted' /\ TelegramsApart' /\ (clock <= MaxTime)'
  BY <1>1 DEF ToldIsNoted, TelegramsApart
<1>10. OwnEvents'
  <2>1. \A f \in counted : event'[f] = event[f]
    BY <1>1, <1>2 DEF CountedHaveArrived
  <2> QED
    BY <1>1, <2>1 DEF OwnEvents, Holds
<1> QED
  BY <1>5, <1>6, <1>7, <1>8, <1>9, <1>10

\* should_alert and the dispatch, from the stage before either of them.
LEMMA AlertStepKeepsInv ==
  ASSUME DetectionInv, NEW e \in Events, NEW d \in Decisions, stage[e] \in {"inserting", "deciding"},
         stage' = [stage EXCEPT ![e] = "done"], AlertStep(e, d),
         clock' = clock, event' = event, decision' = decision,
         whitelist' = whitelist, changes' = changes
  PROVE  DetectionInv'
<1> USE DEF DetectionInv, TypeOK
<1> DEFINE white == event[e].src \in whitelist
<1>1. PICK s \in BOOLEAN, t \in BOOLEAN :
        /\ Record(e, Scorings(event[e], white, s))
        /\ task' = [task EXCEPT ![e] =
             IF ShouldAlert(event[e], d, white, s, t) THEN "pending" ELSE "none"]
        /\ UNCHANGED <<lastSent, told>>
  BY DEF AlertStep
<1>2. Scorings(event[e], white, s) \in 0..2
  BY DEF Scorings
<1>3. event[e] \in EventRecord
  BY DEF ArrivedAreRecords
<1>4. /\ history' \in [Windows -> Seq(Nat)]
      /\ \A x \in Windows : Len(history'[x]) <= MaxWindowEvents
      /\ counted' \subseteq counted \cup {e}
      /\ full' \subseteq Windows
      /\ Covered' /\ OwnEvents'
  <2> HIDE DEF white, DetectionInv, TypeOK
  <2> QED
    BY <1>1, <1>2, <1>3, RecordKeepsWindow
<1>5. task' \in [Events -> TaskState]
  BY <1>1 DEF TaskState
<1>6. stage' \in [Events -> Stage]
  BY DEF Stage
<1>7. TypeOK'
  BY <1>1, <1>4, <1>5, <1>6
<1>8. ArrivedAreRecords' /\ CountedHaveArrived'
  BY <1>3, <1>4 DEF ArrivedAreRecords, CountedHaveArrived
<1>9. ToldIsNoted' /\ TelegramsApart' /\ (clock <= MaxTime)'
  BY <1>1 DEF ToldIsNoted, TelegramsApart
<1> QED
  BY <1>4, <1>7, <1>8, <1>9

LEMMA DecideSshKeepsInv ==
  ASSUME DetectionInv, NEW e \in Events, DecideSsh(e)
  PROVE  DetectionInv'
<1> USE DEF DetectionInv, TypeOK
<1>1. PICK p : /\ stage[e] = "inserting" /\ Record(e, 1)
               /\ decision' = [decision EXCEPT ![e] = Decide(p, T1, T2)]
               /\ stage' = [stage EXCEPT ![e] = "deciding"]
               /\ UNCHANGED <<clock, event, whitelist, task, lastSent, told, changes>>
  BY DEF DecideSsh, alertVars
<1>2. event[e] \in EventRecord
  BY <1>1 DEF ArrivedAreRecords
<1>3. /\ history' \in [Windows -> Seq(Nat)]
      /\ \A x \in Windows : Len(history'[x]) <= MaxWindowEvents
      /\ counted' \subseteq counted \cup {e}
      /\ full' \subseteq Windows
      /\ Covered' /\ OwnEvents'
  <2> HIDE DEF DetectionInv, TypeOK
  <2>1. 1 \in 0..2
    OBVIOUS
  <2> QED
    BY <1>1, <1>2, <2>1, RecordKeepsWindow
<1>4. Decide(p, T1, T2) \in Decisions
  BY DEF Decide, Decisions
<1>5. decision' \in [Events -> Decisions]
  BY <1>1, <1>4
<1>6. stage' \in [Events -> Stage]
  BY <1>1 DEF Stage
<1>7. TypeOK'
  BY <1>1, <1>3, <1>5, <1>6
<1>8. ArrivedAreRecords' /\ CountedHaveArrived'
  BY <1>1, <1>2, <1>3 DEF ArrivedAreRecords, CountedHaveArrived
<1>9. ToldIsNoted' /\ TelegramsApart' /\ (clock <= MaxTime)'
  BY <1>1 DEF ToldIsNoted, TelegramsApart
<1> QED
  BY <1>3, <1>7, <1>8, <1>9

LEMMA ProcessStepKeepsInv ==
  ASSUME DetectionInv, NEW e \in Events, ProcessStep(e)
  PROVE  DetectionInv'
<1>1. CASE Arrive(e)
  BY <1>1, ArriveKeepsInv
<1>2. CASE HandleNonSsh(e)
  <2>1. PICK d \in Decisions :
          /\ stage[e] \in {"inserting", "deciding"}
          /\ stage' = [stage EXCEPT ![e] = "done"] /\ AlertStep(e, d)
          /\ clock' = clock /\ event' = event /\ decision' = decision
          /\ whitelist' = whitelist /\ changes' = changes
    BY <1>2 DEF HandleNonSsh, Decisions
  <2> QED
    BY <2>1, AlertStepKeepsInv
<1>3. CASE DecideSsh(e)
  BY <1>3, DecideSshKeepsInv
<1>4. CASE AlertSsh(e)
  <2>1. PICK d \in Decisions :
          /\ stage[e] \in {"inserting", "deciding"}
          /\ stage' = [stage EXCEPT ![e] = "done"] /\ AlertStep(e, d)
          /\ clock' = clock /\ event' = event /\ decision' = decision
          /\ whitelist' = whitelist /\ changes' = changes
    BY <1>4 DEF AlertSsh, DetectionInv, TypeOK
  <2> QED
    BY <2>1, AlertStepKeepsInv
<1>5. CASE ProcessFails(e)
  <2> USE DEF DetectionInv, TypeOK
  <2>1. /\ stage[e] \in {"inserting", "deciding"}
        /\ stage' = [stage EXCEPT ![e] = "failed"]
        /\ UNCHANGED <<clock, event, decision, history, counted, full, whitelist,
                       task, lastSent, told>>
        /\ changes' \in 0..MaxChanges
    BY <1>5, DetectionAssumption DEF ProcessFails, Change, windowVars, alertVars
  <2>2. stage' \in [Events -> Stage]
    BY <2>1 DEF Stage
  <2>3. TypeOK'
    BY <2>1, <2>2
  <2>4. ArrivedAreRecords' /\ CountedHaveArrived'
    BY <2>1 DEF ArrivedAreRecords, CountedHaveArrived
  <2>5. /\ Covered' /\ OwnEvents' /\ ToldIsNoted' /\ TelegramsApart'
        /\ (clock <= MaxTime)'
    BY <2>1 DEF Covered, OwnEvents, ToldIsNoted, TelegramsApart
  <2> QED
    BY <2>3, <2>4, <2>5
<1> QED
  BY <1>1, <1>2, <1>3, <1>4, <1>5 DEF ProcessStep

\* A message goes out only a cooldown after what was noted for its key, and
\* nothing was told later than that.
LEMMA RunTaskKeepsInv ==
  ASSUME DetectionInv, NEW e \in Events, RunTask(e)
  PROVE  DetectionInv'
<1> USE DEF DetectionInv, TypeOK
<1> DEFINE k == AlertKey(e)
           new == [event |-> e, key |-> k, at |-> clock]
<1>1. /\ ~Cooling(k) /\ lastSent' = Sent(k) /\ told' = told \cup {new}
      /\ task' = [task EXCEPT ![e] = "sending"]
      /\ UNCHANGED <<clock, event, stage, decision, history, counted, full, whitelist,
                     changes>>
  BY DEF RunTask, policyVars, windowVars
<1>2. /\ DOMAIN lastSent' = DOMAIN lastSent \cup {k}
      /\ lastSent'[k] = clock
      /\ \A j \in DOMAIN lastSent : j # k => lastSent'[j] = lastSent[j]
  <2> HIDE DEF k
  <2> QED
    BY <1>1 DEF Sent
<1>3. k[2] \in Categories
  <2>1. Category(event[e]) \in Categories
    BY DEF Category, Categories
  <2>2. AlertKey(e) =
          <<IF event[e].src = NoSource /\ ~IsLogin(event[e])
            THEN event[e].channel ELSE event[e].src, Category(event[e])>>
    BY DEF AlertKey
  <2> QED
    BY <2>1, <2>2
<1>4. new.event = e /\ new.key = k /\ new.at = clock
  OBVIOUS
<1>5. clock - LastSent(k) >= Cooldown /\ Cooldown \in Nat
  <2>1. LastSent(k) \in Nat
    BY DEF LastSent
  <2> HIDE DEF k
  <2> QED
    BY <1>1, <2>1, DetectionAssumption DEF Cooling
<1> HIDE DEF k, new
<1>6. task' \in [Events -> TaskState]
  BY <1>1 DEF TaskState
<1>7. /\ \A j \in DOMAIN lastSent' : j[2] \in Categories /\ lastSent'[j] \in Nat
      /\ \A m \in told' : m.event \in Events /\ m.at \in Nat
  BY <1>1, <1>2, <1>3, <1>4
<1>8. TypeOK'
  BY <1>1, <1>6, <1>7
<1>9. ToldIsNoted'
  <2>1. \A j \in DOMAIN lastSent' : lastSent'[j] <= clock
    BY <1>2 DEF ToldIsNoted
  <2>2. ASSUME NEW m \in told' PROVE m.key \in DOMAIN lastSent' /\ m.at <= lastSent'[m.key]
    <3>1. CASE m = new
      BY <1>2, <1>4, <3>1
    <3>2. CASE m \in told
      <4>1. m.key \in DOMAIN lastSent /\ m.at <= lastSent[m.key] /\ lastSent[m.key] <= clock
            /\ m.at \in Nat /\ lastSent[m.key] \in Nat
        BY <3>2 DEF ToldIsNoted
      <4> QED
        BY <1>2, <4>1
    <3> QED
      BY <1>1, <3>1, <3>2
  <2> QED
    BY <1>1, <2>1, <2>2 DEF ToldIsNoted
<1>10. ASSUME NEW m \in told, m.key = k PROVE m.at + Cooldown <= clock
  <2>1. k \in DOMAIN lastSent /\ m.at <= lastSent[k] /\ m.at \in Nat /\ lastSent[k] \in Nat
    BY <1>10 DEF ToldIsNoted
  <2>2. LastSent(k) = lastSent[k]
    BY <2>1 DEF LastSent
  <2> QED
    BY <1>5, <2>1, <2>2
<1>11. TelegramsApart'
  <2> SUFFICES ASSUME NEW m \in told \cup {new}, NEW n \in told \cup {new},
                      m # n, m.key = n.key
               PROVE  m.at + Cooldown <= n.at \/ n.at + Cooldown <= m.at
    BY <1>1 DEF TelegramsApart
  <2>1. CASE m \in told /\ n \in told
    BY <2>1 DEF TelegramsApart
  <2>2. CASE m = new /\ n \in told
    BY <1>4, <1>10, <2>2
  <2>3. CASE m \in told /\ n = new
    BY <1>4, <1>10, <2>3
  <2> QED
    BY <2>1, <2>2, <2>3
<1>12. /\ ArrivedAreRecords' /\ CountedHaveArrived' /\ Covered' /\ OwnEvents'
       /\ (clock <= MaxTime)'
  BY <1>1 DEF ArrivedAreRecords, CountedHaveArrived, Covered, OwnEvents
<1> QED
  BY <1>8, <1>9, <1>11, <1>12

\* Steps that touch none of what the invariant is about but its types.
LEMMA QuietStepKeepsInv ==
  ASSUME DetectionInv,
         UNCHANGED <<event, stage, decision, history, counted, full, lastSent, told>>,
         (clock \in Nat /\ clock <= MaxTime)', clock <= clock',
         (whitelist \subseteq Sources)', (task \in [Events -> TaskState])',
         (changes \in 0..MaxChanges)'
  PROVE  DetectionInv'
<1> USE DEF DetectionInv, TypeOK
<1>1. TypeOK'
  OBVIOUS
<1>2. ArrivedAreRecords' /\ CountedHaveArrived' /\ Covered' /\ OwnEvents'
  BY DEF ArrivedAreRecords, CountedHaveArrived, Covered, OwnEvents
<1>3. ToldIsNoted'
  BY DEF ToldIsNoted
<1>4. TelegramsApart'
  BY DEF TelegramsApart
<1> QED
  BY <1>1, <1>2, <1>3, <1>4

\* Both empty the windows.
LEMMA EmptyWindowsCover ==
  ASSUME history' = [k \in Windows |-> << >>], counted' = {}
  PROVE  Covered' /\ OwnEvents'
<1>0. OwnEvents'
  BY DEF OwnEvents, Holds
<1> SUFFICES ASSUME NEW s \in Windows
             PROVE  Placed(event', Live(event', counted', s), history'[s])
  BY <1>0 DEF Covered
<1>1. Live(event', counted', s) = {}
  BY DEF Live
<1>2. [f \in {} |-> 0] \in [{} -> 1..Len(history'[s])]
  OBVIOUS
<1> QED
  BY <1>1, <1>2 DEF Placed

LEMMA ResetWindowKeepsInv ==
  ASSUME DetectionInv, ResetWindow
  PROVE  DetectionInv'
<1> USE DEF DetectionInv, TypeOK
<1>1. /\ history' = [k \in Windows |-> << >>] /\ counted' = {} /\ full' = {}
      /\ changes < MaxChanges /\ changes' = changes + 1
      /\ UNCHANGED <<clock, event, stage, decision, whitelist, task, lastSent, told>>
  BY DEF ResetWindow, Change, alertVars
<1>2. /\ history' \in [Windows -> Seq(Nat)]
      /\ \A s \in Windows : Len(history'[s]) <= MaxWindowEvents
      /\ changes' \in 0..MaxChanges
  BY <1>1, DetectionAssumption
<1>3. TypeOK'
  BY <1>1, <1>2
<1>4. Covered' /\ OwnEvents'
  BY <1>1, EmptyWindowsCover
<1>5. ArrivedAreRecords' /\ CountedHaveArrived'
  BY <1>1 DEF ArrivedAreRecords, CountedHaveArrived
<1>6. ToldIsNoted' /\ TelegramsApart' /\ (clock <= MaxTime)'
  BY <1>1 DEF ToldIsNoted, TelegramsApart
<1> QED
  BY <1>3, <1>4, <1>5, <1>6

LEMMA RestartKeepsInv ==
  ASSUME DetectionInv, Restart
  PROVE  DetectionInv'
<1> USE DEF DetectionInv, TypeOK
<1>1. /\ history' = [k \in Windows |-> << >>] /\ counted' = {} /\ full' = {}
      /\ changes < MaxChanges /\ changes' = changes + 1
      /\ stage' = [e \in Events |->
           IF stage[e] \in {"inserting", "deciding"} THEN "failed" ELSE stage[e]]
      /\ task' = [e \in Events |->
           IF task[e] \in {"pending", "sending"} THEN "ended" ELSE task[e]]
      /\ lastSent' = << >> /\ told' = {}
      /\ UNCHANGED <<clock, event, decision, whitelist>>
  BY DEF Restart, Change
<1>2. /\ history' \in [Windows -> Seq(Nat)]
      /\ \A s \in Windows : Len(history'[s]) <= MaxWindowEvents
      /\ changes' \in 0..MaxChanges
  BY <1>1, DetectionAssumption
<1>3. stage' \in [Events -> Stage] /\ task' \in [Events -> TaskState]
  BY <1>1 DEF Stage, TaskState
<1>4. DOMAIN lastSent' = {}
  BY <1>1
<1>5. TypeOK'
  BY <1>1, <1>2, <1>3, <1>4
<1>6. Covered' /\ OwnEvents'
  BY <1>1, EmptyWindowsCover
<1>7. ArrivedAreRecords' /\ CountedHaveArrived'
  BY <1>1 DEF ArrivedAreRecords, CountedHaveArrived
<1>8. ToldIsNoted' /\ TelegramsApart' /\ (clock <= MaxTime)'
  BY <1>1, <1>4 DEF ToldIsNoted, TelegramsApart
<1> QED
  BY <1>5, <1>6, <1>7, <1>8

LEMMA NextKeepsInv ==
  ASSUME DetectionInv, [Next]_vars
  PROVE  DetectionInv'
<1> USE DEF policyVars, windowVars, alertVars
<1>0. /\ clock \in Nat /\ clock <= MaxTime /\ whitelist \subseteq Sources
      /\ task \in [Events -> TaskState] /\ changes \in 0..MaxChanges
      /\ MaxTime \in Nat /\ MaxChanges \in Nat
  BY DetectionAssumption DEF DetectionInv, TypeOK
<1>1. ASSUME NEW e \in Events, ProcessStep(e) PROVE DetectionInv'
  BY <1>1, ProcessStepKeepsInv
<1>2. ASSUME NEW e \in Events, RunTask(e) PROVE DetectionInv'
  BY <1>2, RunTaskKeepsInv
<1>3. ASSUME NEW e \in Events, SuppressTask(e) \/ SendEnds(e) PROVE DetectionInv'
  <2>1. /\ task' = [task EXCEPT ![e] = "ended"]
        /\ UNCHANGED <<clock, event, stage, decision, history, counted, full, whitelist,
                       lastSent, told, changes>>
    BY <1>3 DEF SuppressTask, SendEnds
  <2>2. task' \in [Events -> TaskState]
    BY <1>0, <2>1 DEF TaskState
  <2> QED
    BY <1>0, <2>1, <2>2, QuietStepKeepsInv
<1>4. CASE RefreshWhitelist
  <2>1. /\ whitelist' \subseteq Sources /\ changes' \in 0..MaxChanges
        /\ UNCHANGED <<clock, event, stage, decision, history, counted, full, task,
                       lastSent, told>>
    BY <1>0, <1>4 DEF RefreshWhitelist, Change
  <2> QED
    BY <1>0, <2>1, QuietStepKeepsInv
<1>5. CASE ResetWindow
  BY <1>5, ResetWindowKeepsInv
<1>6. CASE Restart
  BY <1>6, RestartKeepsInv
<1>7. CASE Tick
  <2>1. /\ clock' \in Nat /\ clock' <= MaxTime /\ clock <= clock'
        /\ UNCHANGED <<event, stage, decision, history, counted, full, whitelist, task,
                       lastSent, told, changes>>
    BY <1>0, <1>7 DEF Tick
  <2> QED
    BY <1>0, <2>1, QuietStepKeepsInv
<1>8. CASE UNCHANGED vars
  <2>1. UNCHANGED <<clock, event, stage, decision, history, counted, full, whitelist, task,
                    lastSent, told, changes>>
    BY <1>8 DEF vars
  <2> QED
    BY <1>0, <2>1, QuietStepKeepsInv
<1> QED
  BY <1>1, <1>2, <1>3, <1>4, <1>5, <1>6, <1>7, <1>8 DEF Next, TaskStep

\* The invariant: types; every live event has a place of its own in the window of
\* its address or agent, where nothing but their events is; whatever was told is
\* noted.
THEOREM DetectionInvariant == Spec => []DetectionInv
<1>1. Init => DetectionInv
  BY InitHasInv
<1>2. DetectionInv /\ [Next]_vars => DetectionInv'
  BY NextKeepsInv
<1> QED
  BY <1>1, <1>2, PTL DEF Spec

\* The state has its type; no window is ever longer than the cap of its deque.
THEOREM DetectionTypeCorrect == Spec => []TypeOK
<1>1. DetectionInv => TypeOK
  BY DEF DetectionInv
<1> QED
  BY <1>1, DetectionInvariant, PTL

\* Two messages of one key are a cooldown apart, however many tasks run side by
\* side (alert_dedup.py:18-27).
THEOREM MessagesAreApart == Spec => []TelegramsApart
<1>1. DetectionInv => TelegramsApart
  BY DEF DetectionInv
<1> QED
  BY <1>1, DetectionInvariant, PTL

-----------------------------------------------------------------------------
(***************************************************************************)
(* The decision and the dispatch.                                          *)
(***************************************************************************)

\* The places of the live events make the window at least as long as they are
\* many.
LEMMA PlacedIsNoMore ==
  ASSUME NEW E, NEW L, NEW h \in Seq(Nat), Placed(E, L, h)
  PROVE  Cardinality(L) <= Len(h) /\ Cardinality(L) \in Nat
<1>1. PICK place \in [L -> 1..Len(h)] : \A f, g \in L : place[f] = place[g] => f = g
  BY DEF Placed
<1>2. place \in Injection(L, 1..Len(h))
  BY <1>1 DEF Injection, IsInjective
<1>3. IsFiniteSet(1..Len(h)) /\ Cardinality(1..Len(h)) = Len(h)
  <2>1. 1 \in Int /\ Len(h) \in Int
    OBVIOUS
  <2>2. /\ IsFiniteSet(1..Len(h))
        /\ Cardinality(1..Len(h)) = IF 1 > Len(h) THEN 0 ELSE Len(h) - 1 + 1
    BY <2>1, FS_Interval
  <2> QED
    BY <2>2
<1>4. IsFiniteSet(L) /\ Cardinality(L) <= Cardinality(1..Len(h))
  BY <1>2, <1>3, FS_Injection
<1> QED
  BY <1>3, <1>4, FS_CardinalityType

\* A burst of an address, or of an agent for events without one, is escalated
\* whatever the order in which its events, and those of the other channels, have
\* reached the extractor, and below the floor nothing escalates a login but what
\* its own address or agent did at most a window before
\* (decision_policy.py:206-219, feature_extractor.py:69-87).
THEOREM BurstsAreEscalated == Spec => BurstIsEscalated
<1>1. ASSUME DetectionInv, [Next]_vars, NEW e \in Events, DecideSsh(e),
             event[e].src \notin whitelist
      PROVE  /\ (/\ WindowKey(event[e]) \notin full'
                 /\ Cardinality(InWindow(e)) >= MinAttempts)
                  => decision'[e] = "redirect"
             /\ (/\ decision'[e] = "redirect"
                 /\ event[e].level < WazuhAlertLevel /\ MinAttempts > 1)
                  => \E f \in counted : /\ SameOrigin(e, f)
                                        /\ event[e].ts - event[f].ts <= WindowSeconds
  <2> DEFINE ev == event[e]
             k == WindowKey(ev)
             r == Recorded(history[k], ev.ts)
  <2>1. /\ stage[e] = "inserting" /\ Record(e, 1) /\ event' = event
        /\ decision' = [decision EXCEPT ![e] = Decide(SshVerdict(ev.level, Len(r)), T1, T2)]
    BY <1>1 DEF DecideSsh
  <2>2. /\ ev \in EventRecord /\ k \in Windows /\ ev.ts \in Nat
        /\ \A f \in counted \cup {e} : event[f] \in EventRecord
    <3>1. \A f \in counted \cup {e} : event[f] \in EventRecord
      BY <1>1, <2>1 DEF DetectionInv, TypeOK, ArrivedAreRecords, CountedHaveArrived
    <3> QED
      BY <3>1, RecordsFit, DetectionAssumption
  <2>3. history \in [Windows -> Seq(Nat)] /\ decision \in [Events -> Decisions]
    BY <1>1 DEF DetectionInv, TypeOK
  <2>4. \A f \in counted \cup {e} : SameOrigin(e, f) <=> WindowKey(event[f]) = k
    BY <2>2, OriginsAreWindows
  <2>5. r \in Seq(Nat)
    BY <2>2, <2>3, RecordedKeepsCap
  <2>6. decision'[e] = Decide(SshVerdict(ev.level, Len(r)), T1, T2)
    BY <2>1, <2>3
  <2>7. ASSUME k \notin full', Cardinality(InWindow(e)) >= MinAttempts
        PROVE  decision'[e] = "redirect"
    <3>1. Covered'
      <4>1. 1 \in 0..2
        OBVIOUS
      <4> QED
        BY <1>1, <2>1, <2>2, <4>1, RecordKeepsWindow
    <3>2. history'[k] = r /\ counted' = counted \cup {e}
      BY <2>1, <2>2, <2>3 DEF Record, RecordedTimes
    <3>3. Live(event, counted', k) = InWindow(e)
      <4> HIDE DEF k
      <4> QED
        BY <2>4, <3>2 DEF Live, InWindow
    <3>4. Placed(event, InWindow(e), r)
      BY <2>1, <2>2, <2>7, <3>1, <3>2, <3>3 DEF Covered
    <3>5. Cardinality(InWindow(e)) <= Len(r) /\ Cardinality(InWindow(e)) \in Nat
      BY <2>5, <3>4, PlacedIsNoMore
    <3>6. Len(r) >= MinAttempts
      <4> HIDE DEF r
      <4> QED
        BY <2>5, <2>7, <3>5, DetectionAssumption
    <3>7. SshVerdict(ev.level, Len(r)) = 100
      BY <3>6 DEF SshVerdict
    <3> QED
      BY <2>6, <3>7 DEF Decide, T1, T2
  <2>8. ASSUME decision'[e] = "redirect", ev.level < WazuhAlertLevel, MinAttempts > 1
        PROVE  \E f \in counted : /\ SameOrigin(e, f)
                                  /\ event[e].ts - event[f].ts <= WindowSeconds
    <3>1. SshVerdict(ev.level, Len(r)) # 0
      BY <2>6, <2>8 DEF Decide, T1, T2
    <3>2. ev.level \in Nat
      BY <2>2, RecordsFit
    <3>3. Len(r) >= MinAttempts
      BY <2>8, <3>1, <3>2 DEF SshVerdict, WazuhAlertLevel
    <3>4. Len(r) > 1
      <4> HIDE DEF r
      <4> QED
        BY <2>5, <2>8, <3>3, DetectionAssumption
    <3>5. Holds(event, counted, k, history[k]) /\ history[k] \in Seq(Nat)
      BY <1>1, <2>2, <2>3 DEF DetectionInv, OwnEvents
    <3>6. PICK f \in counted : WindowKey(event[f]) = k /\ ev.ts - event[f].ts <= WindowSeconds
      BY <2>2, <3>4, <3>5, TwoAreNotAlone
    <3> QED
      BY <2>4, <3>6
  <2> QED
    BY <2>7, <2>8
<1>2. DetectionInv /\ [Next]_vars =>
        [\A e \in Events :
           DecideSsh(e) /\ event[e].src \notin whitelist =>
             /\ (/\ WindowKey(event[e]) \notin full'
                 /\ Cardinality(InWindow(e)) >= MinAttempts)
                  => decision'[e] = "redirect"
             /\ (/\ decision'[e] = "redirect"
                 /\ event[e].level < WazuhAlertLevel /\ MinAttempts > 1)
                  => \E f \in counted : /\ SameOrigin(e, f)
                                        /\ event[e].ts - event[f].ts <= WindowSeconds]_vars
  BY <1>1
<1> QED
  BY <1>2, DetectionInvariant, PTL DEF Spec, BurstIsEscalated

\* No score and no decision takes an alert of the rules away: at the floor the
\* operator's task is started (decision_policy.py:170-198).
THEOREM FloorIsAlwaysDispatched == Spec => FloorIsDispatched
<1>1. ASSUME DetectionInv, [Next]_vars, NEW e \in Events,
             stage[e] # "done", stage'[e] = "done",
             event[e].level >= WazuhAlertLevel, event[e].src \notin whitelist
      PROVE  task'[e] = "pending"
  <2>1. stage \in [Events -> Stage] /\ task \in [Events -> TaskState]
    BY <1>1 DEF DetectionInv, TypeOK
  <2>2. stage' # stage
    BY <1>1
  <2>3. \E f \in Events : ProcessStep(f) \/ Restart
    BY <1>1, <2>2 DEF Next, vars, policyVars, windowVars, alertVars, TaskStep, RunTask,
      SuppressTask, SendEnds, RefreshWhitelist, ResetWindow, Tick
  <2>4. ~Restart
    BY <1>1, <2>1 DEF Restart
  <2>5. PICK f \in Events : ProcessStep(f)
    BY <2>3, <2>4
  <2>6. f = e /\ (HandleNonSsh(e) \/ AlertSsh(e))
    BY <1>1, <2>1, <2>5 DEF ProcessStep, Arrive, DecideSsh, ProcessFails, HandleNonSsh,
      AlertSsh
  <2>7. \E d : AlertStep(e, d)
    BY <2>6 DEF HandleNonSsh, AlertSsh
  <2>8. PICK d : \E s, t \in BOOLEAN :
          task' = [task EXCEPT ![e] =
            IF ShouldAlert(event[e], d, event[e].src \in whitelist, s, t)
            THEN "pending" ELSE "none"]
    BY <2>7 DEF AlertStep
  <2>9. \A s, t \in BOOLEAN : ShouldAlert(event[e], d, event[e].src \in whitelist, s, t)
    BY <1>1 DEF ShouldAlert
  <2> QED
    BY <2>1, <2>8, <2>9
<1>2. DetectionInv /\ [Next]_vars =>
        [\A e \in Events :
           stage[e] # "done" /\ stage'[e] = "done"
             /\ event[e].level >= WazuhAlertLevel /\ event[e].src \notin whitelist
             => task'[e] = "pending"]_vars
  BY <1>1
<1> QED
  BY <1>2, DetectionInvariant, PTL DEF Spec, FloorIsDispatched

-----------------------------------------------------------------------------
(***************************************************************************)
(* Which alerts are logins: the rows of TypesByGroup are looked at in      *)
(* order, and the groups of an alert, for its channel, in theirs.          *)
(***************************************************************************)
\* The groups that make an alert something else than a login.
OtherGroups == WebGroups \cup OwnChannel \cup {"sql_injection", "xss"}

GroupsOf(alert) == ToSet(alert.groups)

\* The rows about logins come last.
LEMMA TypeRows ==
  /\ Len(TypesByGroup) = 9
  /\ UNION {TypesByGroup[i].groups : i \in 1..7} = OtherGroups
  /\ TypesByGroup[8] = [groups |-> {"authentication_failed"}, type |-> "auth_failed"]
  /\ TypesByGroup[9] = [groups |-> {"authentication_success"}, type |-> "auth_success"]
  /\ \A i \in 1..7 : TypesByGroup[i].type \notin {"auth_failed", "auth_success"}
<1>1. Len(TypesByGroup) = 9
  BY DEF TypesByGroup
<1>2. /\ TypesByGroup[8] = [groups |-> {"authentication_failed"}, type |-> "auth_failed"]
      /\ TypesByGroup[9] = [groups |-> {"authentication_success"}, type |-> "auth_success"]
  BY DEF TypesByGroup
<1>3. /\ TypesByGroup[1] = [groups |-> {"syscheck"}, type |-> "fim_change"]
      /\ TypesByGroup[2] = [groups |-> {"rootcheck"}, type |-> "rootkit_detected"]
      /\ TypesByGroup[3] = [groups |-> {"cowrie"}, type |-> "cowrie_session"]
      /\ TypesByGroup[4] = [groups |-> {"web-attack", "sql_injection", "xss", "attack"},
                            type |-> "web_attack"]
      /\ TypesByGroup[5] = [groups |-> {"scanner"}, type |-> "web_scan"]
      /\ TypesByGroup[6] = [groups |-> {"web", "apache", "nginx", "web-accesslog"},
                            type |-> "web_error"]
      /\ TypesByGroup[7] = [groups |-> {"docker"}, type |-> "docker_event"]
  BY DEF TypesByGroup
<1>4. 1..7 = {1, 2, 3, 4, 5, 6, 7}
  OBVIOUS
<1>5. \A i \in 1..7 : TypesByGroup[i].type \notin {"auth_failed", "auth_success"}
  BY <1>3, <1>4
<1>6. UNION {TypesByGroup[i].groups : i \in 1..7} = OtherGroups
  BY <1>3, <1>4 DEF OtherGroups, WebGroups, OwnChannel
<1> QED
  BY <1>1, <1>2, <1>5, <1>6

DecidingRow(alert) ==
  SelectInSeq(TypesByGroup, LAMBDA row : row.groups \cap ToSet(alert.groups) # {})

HasGroup(alert, i) == TypesByGroup[i].groups \cap GroupsOf(alert) # {}

\* The row that decides is the first that has a group of the alert.
LEMMA DecidingRowProperties ==
  ASSUME NEW alert, NEW i, i = DecidingRow(alert)
  PROVE  /\ i \in 0..9
         /\ i > 0 => HasGroup(alert, i)
         /\ \A j \in 1..9 : HasGroup(alert, j) => i > 0 /\ i <= j
<1> DEFINE I == {j \in 1..9 : HasGroup(alert, j)}
<1>1. i = IF I # {} THEN Min(I) ELSE 0
  BY TypeRows DEF DecidingRow, SelectInSeq, HasGroup, GroupsOf
<1>2. CASE I = {}
  BY <1>1, <1>2
<1>3. CASE I # {}
  <2>1. PICK x \in I : \A y \in I : x <= y
    <3>1. I \subseteq Nat
      OBVIOUS
    <3> HIDE DEF I
    <3> QED
      BY <1>3, <3>1, Least
  <2>2. i \in I /\ \A y \in I : i <= y
    <3> HIDE DEF I
    <3> QED
      BY <1>1, <1>3, <2>1 DEF Min
  <2> QED
    BY <2>2
<1> QED
  BY <1>2, <1>3

LEMMA TypeOfGroups ==
  ASSUME NEW alert
  PROVE  /\ GroupsOf(alert) \cap OtherGroups # {} =>
              EventTypeOf(alert) \notin {"auth_failed", "auth_success"}
         /\ GroupsOf(alert) \cap OtherGroups = {} /\ "authentication_failed" \in GroupsOf(alert)
              => EventTypeOf(alert) = "auth_failed"
         /\ (/\ GroupsOf(alert) \cap OtherGroups = {}
             /\ "authentication_failed" \notin GroupsOf(alert)
             /\ "authentication_success" \in GroupsOf(alert))
              => EventTypeOf(alert) = "auth_success"
<1>1. PICK i : i = DecidingRow(alert)
  OBVIOUS
<1>2. /\ i \in 0..9
      /\ i > 0 => HasGroup(alert, i)
      /\ \A j \in 1..9 : HasGroup(alert, j) => i > 0 /\ i <= j
  BY <1>1, DecidingRowProperties
<1>3. i > 0 => EventTypeOf(alert) = TypesByGroup[i].type
  BY <1>1 DEF EventTypeOf, DecidingRow
<1>4. GroupsOf(alert) \cap OtherGroups # {} <=> \E j \in 1..7 : HasGroup(alert, j)
  BY TypeRows DEF HasGroup
<1>5. ASSUME GroupsOf(alert) \cap OtherGroups # {}
      PROVE  EventTypeOf(alert) \notin {"auth_failed", "auth_success"}
  <2>1. i \in 1..7
    BY <1>2, <1>4, <1>5
  <2> QED
    BY <1>3, <2>1, TypeRows
<1>6. /\ HasGroup(alert, 8) <=> "authentication_failed" \in GroupsOf(alert)
      /\ HasGroup(alert, 9) <=> "authentication_success" \in GroupsOf(alert)
  <2>1. /\ TypesByGroup[8].groups = {"authentication_failed"}
        /\ TypesByGroup[9].groups = {"authentication_success"}
    BY TypeRows
  <2> QED
    BY <2>1 DEF HasGroup
<1>7. TypesByGroup[8].type = "auth_failed" /\ TypesByGroup[9].type = "auth_success"
  BY TypeRows
<1>8. ASSUME GroupsOf(alert) \cap OtherGroups = {}
      PROVE  /\ HasGroup(alert, 8) => i = 8
             /\ ~HasGroup(alert, 8) /\ HasGroup(alert, 9) => i = 9
  BY <1>2, <1>4, <1>8
<1>9. ASSUME GroupsOf(alert) \cap OtherGroups = {}, "authentication_failed" \in GroupsOf(alert)
      PROVE  EventTypeOf(alert) = "auth_failed"
  BY <1>3, <1>6, <1>7, <1>8, <1>9
<1>10. ASSUME GroupsOf(alert) \cap OtherGroups = {}, "authentication_failed" \notin GroupsOf(alert),
              "authentication_success" \in GroupsOf(alert)
       PROVE  EventTypeOf(alert) = "auth_success"
  BY <1>3, <1>6, <1>7, <1>8, <1>10
<1> QED
  BY <1>5, <1>9, <1>10

\* Every alert that Wazuh puts into a group of logins, and into none of another
\* channel, counts as a login, wherever that group stands among the others
\* (collector.py:50-74): it is decided on, and a part of bursts.
THEOREM LoginsAreRecognised ==
  ASSUME NEW alert, alert.groups \in Seq(STRING), NEW ts,
         GroupsOf(alert) \cap OtherGroups = {},
         GroupsOf(alert) \cap {"authentication_failed", "authentication_success"} # {}
  PROVE  /\ IsLogin(NormalizeEvent(alert, ts))
         /\ NormalizeEvent(alert, ts).type = "auth_failed"
              <=> "authentication_failed" \in GroupsOf(alert)
<1> DEFINE known == {k \in 1..Len(alert.groups) : ChannelOfGroup(alert.groups[k]) # "unknown"}
<1>1. EventTypeOf(alert) \in {"auth_failed", "auth_success"}
      /\ (EventTypeOf(alert) = "auth_failed" <=> "authentication_failed" \in GroupsOf(alert))
  BY TypeOfGroups
<1>2. ChannelOf(alert) = "sshd"
  <2>1. known # {}
    <3>1. PICK k \in 1..Len(alert.groups) :
            alert.groups[k] \in {"authentication_failed", "authentication_success"}
      BY DEF GroupsOf, ToSet
    <3> QED
      BY <3>1 DEF ChannelOfGroup, SshGroups
  <2>2. Min(known) \in known
    <3>1. known \subseteq Nat
      OBVIOUS
    <3> HIDE DEF known
    <3>2. PICK x \in known : \A y \in known : x <= y
      BY <2>1, <3>1, Least
    <3> QED
      BY <3>2 DEF Min
  <2>3. \A k \in known : ChannelOfGroup(alert.groups[k]) = "sshd"
    <3>1. \A k \in 1..Len(alert.groups) : alert.groups[k] \notin OtherGroups
      BY DEF GroupsOf, ToSet
    <3> QED
      BY <3>1 DEF ChannelOfGroup, OtherGroups
  <2>4. SelectInSeq(alert.groups, LAMBDA g : ChannelOfGroup(g) # "unknown") = Min(known)
    BY <2>1 DEF SelectInSeq
  <2>5. Min(known) > 0
    BY <2>2
  <2> HIDE DEF known
  <2> QED
    BY <2>2, <2>3, <2>4, <2>5 DEF ChannelOf
<1> QED
  BY <1>1, <1>2 DEF NormalizeEvent, IsLogin

\* An alert with a group of another channel is never decided on as a login,
\* whatever its rule and its log line look like (collector.py:59-80).
THEOREM OnlyLoginsAreDecided ==
  ASSUME NEW alert, NEW ts, IsLogin(NormalizeEvent(alert, ts))
  PROVE  GroupsOf(alert) \cap OtherGroups = {}
BY TypeOfGroups DEF NormalizeEvent, IsLogin
=============================================================================
