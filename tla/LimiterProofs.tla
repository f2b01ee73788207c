---------------------------- MODULE LimiterProofs ----------------------------
(***************************************************************************)
(* Proofs that the slots of the limiter are spaced and its rate bounded,   *)
(* for any number of callers and any interval, time-out and lateness.      *)
(***************************************************************************)
EXTENDS Limiter, TLAPS, FiniteSetTheorems

USE DEF history

(* The type invariant of the limiter. *)
THEOREM LimiterTypeCorrect == Spec => []LimiterTypeOK
<1> USE TimesAssumption DEF LimiterTypeOK, Call
<1>1. Init => LimiterTypeOK
  <2>1. Init => canceled \in BOOLEAN
    BY DEF Init
  <2>2. Init => now \in Nat /\ next \in Nat /\ quiet \in Nat /\ patient \in BOOLEAN
    BY DEF Init
  <2>3. Init => caller \in [Callers -> Call] /\ starts \subseteq [slot : Nat, time : Nat]
    BY DEF Init, Idle
  <2> QED  BY <2>1, <2>2, <2>3
<1>2. LimiterTypeOK /\ [Next]_vars => LimiterTypeOK'
  <2> SUFFICES ASSUME LimiterTypeOK, [Next]_vars PROVE LimiterTypeOK'
    OBVIOUS
  <2>1. ASSUME NEW c \in Callers, NEW d \in Nat, NEW h \in Nat, Wait(c, d, h)
        PROVE  LimiterTypeOK'
    <3>1. FreeSlot \in Nat /\ After(FreeSlot) \in Nat
      BY DEF FreeSlot, After
    <3> QED  BY <2>1, <3>1 DEF Wait, Idle
  <2>2. CASE Cancel
    BY <2>2 DEF Cancel
  <2>3. CASE Tick
    BY <2>3 DEF Tick
  <2>4. ASSUME NEW c \in Callers, Act(c) PROVE LimiterTypeOK'
    <3>1. caller[c] \in Call
      OBVIOUS
    <3>2. CASE Begin(c)
      BY <2>1, <3>2 DEF Begin
    <3>3. CASE Hop(c)
      BY <2>1, <3>1, <3>3 DEF Hop
    <3>4. CASE Grant(c)
      BY <3>1, <3>4 DEF Grant
    <3>5. CASE GiveUp(c)
      BY <3>5 DEF GiveUp, Idle
    <3>6. CASE Finish(c)
      BY <3>6 DEF Finish, Idle
    <3> QED  BY <2>4, <3>2, <3>3, <3>4, <3>5, <3>6 DEF Act
  <2>5. CASE UNCHANGED vars
    BY <2>5 DEF vars
  <2> QED  BY <2>2, <2>3, <2>4, <2>5 DEF Next
<1> QED  BY <1>1, <1>2, PTL DEF Spec

-----------------------------------------------------------------------------
(* Spacing. *)

(* The slot that Wait hands out lies an interval after every slot in use,  *)
(* and an interval before the next one to be handed out.                   *)
LEMMA FreeSlotApart ==
    ASSUME LimiterTypeOK, Spaced
    PROVE  /\ FreeSlot \in Nat /\ now <= FreeSlot
           /\ \A s \in Slots : s \in Nat /\ s + Interval <= FreeSlot
<1>1. \A s \in Slots : s \in Nat
  BY DEF LimiterTypeOK, Slots, Waiting, Call
<1> QED  BY <1>1, TimesAssumption DEF LimiterTypeOK, Spaced, FreeSlot

(* Handing out a slot keeps the slots spaced. *)
LEMMA WaitSpaced ==
    ASSUME LimiterTypeOK, Spaced,
           NEW c \in Callers, NEW d, NEW h, caller[c].at # "waiting", Wait(c, d, h)
    PROVE  Spaced'
<1> DEFINE slot == FreeSlot
<1>1. /\ slot \in Nat /\ now <= slot
      /\ \A s \in Slots : s \in Nat /\ s + Interval <= slot
  BY FreeSlotApart
<1>2. next' = slot + Interval /\ now' = now /\ now \in Nat /\ Interval \in Nat \ {0}
  BY TimesAssumption DEF Wait, After, LimiterTypeOK
<1>3. \A e \in Callers : e # c => caller'[e] = caller[e]
  BY DEF Wait, LimiterTypeOK
<1>4. /\ \A e \in Waiting : caller[e].due \in Slots
      /\ \A s \in starts : s.slot \in Slots
  BY DEF Slots
<1> HIDE DEF slot
<1>5. CASE Waiting' = Waiting /\ starts' = starts
  <2>1. \A e \in Waiting : caller'[e] = caller[e]
    BY <1>3 DEF Waiting
  <2>2. Slots' = Slots
    BY <1>5, <2>1 DEF Slots
  <2> QED  BY <1>1, <1>2, <1>5, <2>1, <2>2 DEF Spaced
<1>6. CASE Waiting' = Waiting \cup {c} /\ caller'[c].due = slot /\ starts' = starts
  <2>1. c \notin Waiting /\ \A e \in Waiting : caller'[e] = caller[e]
    BY <1>3 DEF Waiting
  <2>2. Slots' = Slots \cup {slot}
    BY <1>6, <2>1 DEF Slots
  <2> QED  BY <1>1, <1>2, <1>4, <1>6, <2>1, <2>2 DEF Spaced
<1>7. CASE Waiting' = Waiting /\ starts' = starts \cup {[slot |-> slot, time |-> now]} /\ slot <= now
  <2>1. \A e \in Waiting : caller'[e] = caller[e]
    BY <1>3 DEF Waiting
  <2>2. Slots' = Slots \cup {slot}
    <3> DEFINE x == [slot |-> slot, time |-> now]
    <3>1. {s.slot : s \in starts'} = {s.slot : s \in starts} \cup {slot}
      <4>1. x.slot = slot /\ starts' = starts \cup {x}
        BY <1>7
      <4> HIDE DEF x
      <4> QED  BY <4>1
    <3> QED  BY <1>7, <2>1, <3>1 DEF Slots
  <2> QED  BY <1>1, <1>2, <1>4, <1>7, <2>1, <2>2 DEF Spaced
<1>8. c \notin Waiting
  BY DEF Waiting
<1> QED
  <2>1. caller \in [Callers -> Call]
    BY DEF LimiterTypeOK
  <2> QED  BY <1>5, <1>6, <1>7, <1>8, <2>1 DEF Wait, Waiting, Idle, slot

(* Whatever the callers do, slots are spaced by the interval. *)
THEOREM SlotsAreSpaced == Spec => []Spaced
<1>1. Init => Spaced
  BY DEF Init, Idle, Spaced, Slots, Waiting
<1>2. LimiterTypeOK /\ LimiterTypeOK' /\ Spaced /\ [Next]_vars => Spaced'
  <2> SUFFICES ASSUME LimiterTypeOK, LimiterTypeOK', Spaced, [Next]_vars PROVE Spaced'
    OBVIOUS
  <2>1. CASE Cancel
    BY <2>1 DEF Cancel, Spaced, Slots, Waiting
  <2>2. CASE Tick
    <3>1. now' = now + 1 /\ now \in Nat /\ Slots' = Slots /\ Waiting' = Waiting
      BY <2>2 DEF Tick, LimiterTypeOK, Slots, Waiting
    <3>2. \A s \in starts : s.time \in Nat
      BY DEF LimiterTypeOK
    <3> QED  BY <2>2, <3>1, <3>2 DEF Tick, Spaced
  <2>3. ASSUME NEW c \in Callers, Act(c) PROVE Spaced'
    <3>0. caller \in [Callers -> Call]
      BY DEF LimiterTypeOK
    <3>1. CASE Begin(c)
      BY <3>1, WaitSpaced DEF Begin
    <3>2. CASE Hop(c)
      BY <3>2, WaitSpaced DEF Hop
    <3>3. CASE Grant(c)
      <4>1. c \in Waiting /\ Waiting' = Waiting \ {c}
        BY <3>0, <3>3 DEF Grant, Waiting
      <4>2. \A e \in Waiting \ {c} : caller'[e] = caller[e]
        BY <3>0, <3>3 DEF Grant, Waiting
      <4>3. starts' = starts \cup {[slot |-> caller[c].due, time |-> now]}
        BY <3>3 DEF Grant
      <4>4. Slots' = Slots
        <5> DEFINE x == [slot |-> caller[c].due, time |-> now]
        <5>1. {s.slot : s \in starts'} = {s.slot : s \in starts} \cup {caller[c].due}
          <6>1. x.slot = caller[c].due /\ starts' = starts \cup {x}
            BY <4>3
          <6> HIDE DEF x
          <6> QED  BY <6>1
        <5>2. {caller[e].due : e \in Waiting}
                = {caller'[e].due : e \in Waiting'} \cup {caller[c].due}
          BY <4>1, <4>2
        <5> QED  BY <5>1, <5>2 DEF Slots
      <4>5. next' = next /\ now' = now /\ caller[c].due <= now /\ now \in Nat
        BY <3>3 DEF Grant, LimiterTypeOK
      <4> QED  BY <4>1, <4>2, <4>3, <4>4, <4>5 DEF Spaced
    <3>4. CASE GiveUp(c) \/ Finish(c)
      <4>1. Waiting' \subseteq Waiting /\ \A e \in Waiting' : caller'[e] = caller[e]
        BY <3>0, <3>4 DEF GiveUp, Finish, Waiting, Idle
      <4>2. starts' = starts /\ next' = next /\ now' = now
        BY <3>4 DEF GiveUp, Finish
      <4>3. Slots' \subseteq Slots
        BY <4>1, <4>2 DEF Slots
      <4> QED  BY <4>1, <4>2, <4>3 DEF Spaced
    <3> QED  BY <2>3, <3>1, <3>2, <3>3, <3>4 DEF Act
  <2>4. CASE UNCHANGED vars
    BY <2>4 DEF vars, Spaced, Slots, Waiting
  <2> QED  BY <2>1, <2>2, <2>3, <2>4 DEF Next
<1> QED  BY <1>1, <1>2, LimiterTypeCorrect, PTL DEF Spec

-----------------------------------------------------------------------------
(* Rate. *)

\* A timer is never later than Late, neither one that fired nor one that runs.
Punctual ==
    /\ \A c \in Waiting : now <= caller[c].due + Late
    /\ \A s \in starts : s.time <= s.slot + Late

(* Every step keeps the timers punctual. *)
LEMMA PunctualStep ==
    LimiterTypeOK /\ Punctual /\ [Next]_vars => Punctual'
<1> SUFFICES ASSUME LimiterTypeOK, Punctual, [Next]_vars PROVE Punctual'
  OBVIOUS
<1> USE TimesAssumption DEF Punctual
<1>0. caller \in [Callers -> Call] /\ now \in Nat
  BY DEF LimiterTypeOK
<1>1. CASE Cancel
  BY <1>1 DEF Cancel, Waiting
<1>2. CASE Tick
  <2>1. \A c \in Waiting : caller[c].due \in Nat
    BY <1>0 DEF Waiting, Call
  <2> QED  BY <1>0, <1>2, <2>1 DEF Tick, Waiting
<1>3. ASSUME NEW c \in Callers, NEW d, NEW h, Wait(c, d, h) PROVE Punctual'
  <2>1. \A e \in Waiting' : e # c => e \in Waiting /\ caller'[e] = caller[e]
    BY <1>0, <1>3 DEF Wait, Waiting
  <2>2. c \in Waiting' => now <= caller'[c].due + Late
    BY <1>0, <1>3 DEF Wait, Waiting, Idle, FreeSlot, LimiterTypeOK
  <2>3. \A s \in starts' \ starts : s.time = now /\ s.slot >= now
    BY <1>0, <1>3 DEF Wait, FreeSlot, LimiterTypeOK
  <2>4. \A s \in starts' \ starts : s.time <= s.slot + Late
    <3>1. \A s \in starts' \ starts : s.slot \in Nat
      BY <1>0, <1>3 DEF Wait, FreeSlot, LimiterTypeOK
    <3> QED  BY <1>0, <2>3, <3>1
  <2>5. now' = now
    BY <1>3 DEF Wait
  <2> QED  BY <2>1, <2>2, <2>4, <2>5
<1>4. ASSUME NEW c \in Callers, Grant(c) PROVE Punctual'
  <2>1. \A e \in Waiting' : e \in Waiting /\ caller'[e] = caller[e]
    BY <1>0, <1>4 DEF Grant, Waiting
  <2>2. c \in Waiting
    BY <1>4 DEF Grant, Waiting
  <2>3. \A s \in starts' : s \in starts \/ s = [slot |-> caller[c].due, time |-> now]
    BY <1>4 DEF Grant
  <2>4. now' = now
    BY <1>4 DEF Grant
  <2> QED  BY <2>1, <2>2, <2>3, <2>4
<1>5. ASSUME NEW c \in Callers, GiveUp(c) \/ Finish(c) PROVE Punctual'
  BY <1>0, <1>5 DEF GiveUp, Finish, Waiting, Idle
<1>6. CASE UNCHANGED vars
  BY <1>6 DEF vars, Waiting
<1> QED  BY <1>1, <1>2, <1>3, <1>4, <1>5, <1>6 DEF Next, Act, Begin, Hop

(* Two numbers an interval apart have different quotients by it.           *)
LEMMA QuotientsDiffer ==
    ASSUME NEW x \in Nat, NEW y \in Nat, NEW i \in Nat \ {0}, x + i <= y
    PROVE  x \div i # y \div i
<1>1. (x \div i) * i <= x /\ x < (x \div i) * i + i
  BY SMTT(30)
<1>2. (y \div i) * i <= y /\ y < (y \div i) * i + i
  BY SMTT(30)
<1> QED  BY <1>1, <1>2, SMTT(30)

(* In any stretch of time the rate is kept: the starts of a stretch have   *)
(* different quotients by the interval, counted from the earliest slot     *)
(* they can have, and there are only so many quotients.                    *)
THEOREM RateIsBounded == Spec => []RateBound
<1>1. Init => Punctual
  BY DEF Init, Idle, Punctual, Waiting
<1>2. LimiterTypeOK /\ Spaced /\ Punctual => RateBound
  <2> SUFFICES ASSUME LimiterTypeOK, Spaced, Punctual, NEW w \in 0 .. now
               PROVE  Cardinality({s \in starts : w <= s.time}) * Interval
                        <= (now - w) + Late + Interval
    BY DEF RateBound
  <2> DEFINE S == {s \in starts : w <= s.time}
             L == now - w + Late
             T == 0 .. (L \div Interval)
             f == [s \in S |-> (s.slot - w + Late) \div Interval]
  <2>1. now \in Nat /\ w \in Nat /\ Interval \in Nat \ {0} /\ Late \in Nat /\ L \in Nat
    BY TimesAssumption DEF LimiterTypeOK
  <2>2. ASSUME NEW s \in S
        PROVE  s.slot - w + Late \in Nat /\ s.slot - w + Late <= L /\ s.slot \in Slots
    <3>1. s \in starts /\ s.slot \in Nat /\ s.time \in Nat /\ w <= s.time
      BY DEF LimiterTypeOK
    <3>2. s.slot <= s.time /\ s.time <= now /\ s.time <= s.slot + Late
      BY <3>1 DEF Spaced, Punctual
    <3> QED  BY <2>1, <3>1, <3>2 DEF Slots
  <2>3. \A x, y \in Nat : x <= y => x \div Interval \in Nat /\ x \div Interval <= y \div Interval
    BY <2>1, SMTT(30)
  <2>4. f \in [S -> T]
    <3> SUFFICES ASSUME NEW s \in S PROVE (s.slot - w + Late) \div Interval \in T
      OBVIOUS
    <3>1. (s.slot - w + Late) \div Interval \in Nat
          /\ (s.slot - w + Late) \div Interval <= L \div Interval
      BY <2>1, <2>2, <2>3
    <3>2. L \div Interval \in Nat
      BY <2>1, <2>3
    <3> QED  BY <3>1, <3>2
  <2>5. ASSUME NEW s \in S, NEW t \in S, s # t PROVE f[s] # f[t]
    <3>1. s.slot # t.slot
      BY <2>5 DEF Spaced
    <3>2. s.slot + Interval <= t.slot \/ t.slot + Interval <= s.slot
      <4>1. s.slot \in Nat /\ t.slot \in Nat
        BY DEF LimiterTypeOK
      <4> QED  BY <2>2, <3>1, <4>1 DEF Spaced
    <3>3. s.slot \in Nat /\ t.slot \in Nat
      BY DEF LimiterTypeOK
    <3>4. (s.slot - w + Late) \div Interval # (t.slot - w + Late) \div Interval
      <4> DEFINE x == s.slot - w + Late
                 y == t.slot - w + Late
      <4>1. x \in Nat /\ y \in Nat
        BY <2>2
      <4>2. x + Interval <= y \/ y + Interval <= x
        BY <2>1, <3>2, <3>3
      <4>3. x \div Interval # y \div Interval
        <5> HIDE DEF x, y
        <5> QED  BY <2>1, <4>1, <4>2, QuotientsDiffer
      <4> QED  BY <4>3
    <3> QED  BY <3>4
  <2>6. f \in Injection(S, T)
    BY <2>4, <2>5 DEF Injection, IsInjective
  <2>7. L \div Interval \in Nat /\ (L \div Interval) * Interval <= L
    BY <2>1, SMTT(30)
  <2>8. IsFiniteSet(T) /\ Cardinality(T) = L \div Interval + 1
    <3> HIDE DEF L
    <3> QED  BY <2>7, FS_Interval
  <2>9. IsFiniteSet(S) /\ Cardinality(S) <= Cardinality(T)
    <3> HIDE DEF S, T, f
    <3> QED  BY <2>6, <2>8, FS_Injection
  <2>10. Cardinality(S) \in Nat
    BY <2>9, FS_CardinalityType
  <2> DEFINE c == Cardinality(S)
             q == L \div Interval
  <2>11. c \in Nat /\ q \in Nat /\ c <= q + 1 /\ q * Interval <= L
    BY <2>7, <2>8, <2>9, <2>10
  <2> HIDE DEF c, q
  <2>12. c * Interval <= (q + 1) * Interval
    BY <2>1, <2>11, SMTT(30)
  <2>13. (q + 1) * Interval = q * Interval + Interval
    BY <2>1, <2>11, SMTT(30)
  <2>14. c * Interval <= L + Interval
    <3> HIDE DEF L
    <3>1. q * Interval \in Int /\ c * Interval \in Int /\ (q + 1) * Interval \in Int
      BY <2>1, <2>11
    <3> QED  BY <2>1, <2>11, <2>12, <2>13, <3>1
  <2> QED  BY <2>14 DEF c
<1> QED
  BY <1>1, <1>2, PunctualStep, LimiterTypeCorrect, SlotsAreSpaced, PTL DEF Spec

(* Requests are paced, for any number of callers and any interval.        *)
THEOREM RequestsArePaced == Spec => []Paced
<1>1. LimiterTypeOK /\ Spaced /\ RateBound => Paced
  BY DEF Paced
<1> QED
  BY <1>1, LimiterTypeCorrect, SlotsAreSpaced, RateIsBounded, PTL

-----------------------------------------------------------------------------
(* Evenness. *)

\* As long as no wait is given up, every slot before the next free one that
\* is still to come is held by a goroutine.
Dense ==
    patient => \A k \in 1 .. next :
        now < next - k * Interval => \E c \in Waiting : caller[c].due = next - k * Interval

\* While goroutines wait, one of them starts within an interval of the last
\* start, or of the time the wait began.
Soon ==
    patient => IF Waiting = {} THEN quiet = 0
               ELSE \E c \in Waiting : caller[c].due + quiet <= now + Interval

(* One interval back from a slot. *)
LEMMA OneBack ==
    ASSUME NEW k \in Nat \ {0}, NEW i \in Nat \ {0}
    PROVE  /\ (k - 1) * i = k * i - i /\ k - 1 \in Nat
           /\ k * i \in Nat /\ (k - 1) * i \in Nat /\ k <= k * i
  BY SMTT(30)

(* Counting back from a number in steps of i there is one that follows m   *)
(* within i.                                                               *)
LEMMA StepsBack ==
    ASSUME NEW n \in Nat, NEW m \in Nat, NEW i \in Nat \ {0}, m + i < n
    PROVE  \E k \in 1 .. n : m < n - k * i /\ n - k * i <= m + i
<1> DEFINE d == n - m - 1
           k == d \div i
<1>1. d \in Nat /\ i <= d /\ d < n
  OBVIOUS
<1> HIDE DEF d
<1>2. k \in Nat /\ k * i <= d /\ d < k * i + i /\ k >= 1
  BY <1>1, SMTT(30)
<1> HIDE DEF k
<1>3. k <= k * i /\ k * i \in Nat
  BY <1>2, OneBack
<1>4. d = n - m - 1
  BY DEF d
<1>5. k \in 1 .. n
  BY <1>1, <1>2, <1>3
<1>6. m < n - k * i /\ n - k * i <= m + i
  BY <1>1, <1>2, <1>3, <1>4
<1> QED  BY <1>5, <1>6

(* Handing out a slot leaves no gap, and the wait for it is no longer than *)
(* an interval when nobody else waits.                                     *)
LEMMA WaitDense ==
    ASSUME LimiterTypeOK, Dense, Soon,
           NEW c \in Callers, NEW d, NEW h, caller[c].at # "waiting", Wait(c, d, h)
    PROVE  Dense' /\ Soon'
<1> DEFINE slot == FreeSlot
<1>0. /\ now \in Nat /\ next \in Nat /\ Interval \in Nat \ {0} /\ quiet \in Nat
      /\ caller \in [Callers -> Call]
  BY TimesAssumption DEF LimiterTypeOK
<1>1. /\ slot \in Nat /\ now <= slot /\ (now < slot => slot = next)
      /\ next' = slot + Interval /\ now' = now /\ patient' = patient
  BY <1>0 DEF Wait, After, FreeSlot
<1>2. c \notin Waiting /\ \A e \in Waiting : e \in Waiting' /\ caller'[e] = caller[e]
  BY <1>0 DEF Wait, Waiting
<1>3. \/ /\ now < slot /\ Waiting' = Waiting \cup {c} /\ caller'[c].due = slot
         /\ quiet' = quiet
      \/ /\ slot <= now /\ Waiting' = Waiting /\ quiet' \in {0, quiet}
  BY <1>0, <1>2 DEF Wait, Waiting, Idle
<1> HIDE DEF slot
<1>4. Dense'
  <2> SUFFICES ASSUME patient, NEW k \in 1 .. next', now < next' - k * Interval
               PROVE  \E e \in Waiting' : caller'[e].due = next' - k * Interval
    BY <1>1 DEF Dense
  <2>1. /\ k \in Nat \ {0} /\ (k - 1) * Interval = k * Interval - Interval
        /\ k * Interval \in Nat /\ (k - 1) * Interval \in Nat
        /\ k - 1 \in Nat
    <3>1. k \in Nat \ {0}
      BY <1>0, <1>1
    <3> QED  BY <1>0, <3>1, OneBack
  <2>2. next' - k * Interval = slot - (k - 1) * Interval /\ now < slot
    BY <1>0, <1>1, <2>1
  <2>3. CASE k = 1
    <3>1. (k - 1) * Interval = 0
      <4>1. k - 1 = 0 /\ 0 * Interval = 0
        BY <1>0, <2>3
      <4> QED  BY <4>1
    <3>2. next' - k * Interval = slot
      BY <1>1, <2>2, <3>1
    <3>3. c \in Waiting' /\ caller'[c].due = slot
      BY <1>0, <1>1, <1>3, <2>2
    <3> QED  BY <3>2, <3>3
  <2>4. CASE k # 1
    <3>1. k - 1 \in Nat \ {0} /\ k - 1 <= (k - 1) * Interval
      <4>1. k - 1 \in Nat \ {0}
        BY <2>1, <2>4
      <4> QED  BY <1>0, <4>1, OneBack
    <3>2. k - 1 \in 1 .. next /\ now < next - (k - 1) * Interval
      BY <1>0, <1>1, <2>1, <2>2, <3>1
    <3>3. PICK e \in Waiting : caller[e].due = next - (k - 1) * Interval
      BY <3>2 DEF Dense
    <3> QED  BY <1>1, <1>2, <2>2, <3>3
  <2> QED  BY <2>3, <2>4
<1>5. Soon'
  <2> SUFFICES ASSUME patient
               PROVE  IF Waiting' = {} THEN quiet' = 0
                      ELSE \E e \in Waiting' : caller'[e].due + quiet' <= now + Interval
    BY <1>1 DEF Soon
  <2>1. CASE Waiting = {}
    <3>1. quiet = 0
      BY <2>1 DEF Soon
    <3>2. ASSUME now < slot PROVE slot <= now + Interval
      <4>1. 1 \in 1 .. next /\ 1 * Interval = Interval
        BY <1>0, <1>1, <3>2
      <4>2. ~(now < next - Interval)
        BY <2>1, <4>1 DEF Dense
      <4> QED  BY <1>0, <1>1, <3>2, <4>2
    <3> QED  BY <1>0, <1>1, <1>3, <2>1, <3>1, <3>2
  <2>2. CASE Waiting # {}
    <3>1. PICK e \in Waiting : caller[e].due + quiet <= now + Interval
      BY <2>2 DEF Soon
    <3>2. caller[e].due \in Nat /\ quiet' \in Nat /\ quiet' <= quiet
      BY <1>0, <1>3 DEF Waiting, Call
    <3>3. caller'[e].due + quiet' <= now + Interval
      BY <1>0, <1>2, <3>1, <3>2
    <3> QED  BY <1>2, <2>2, <3>3
  <2> QED  BY <2>1, <2>2
<1> QED  BY <1>4, <1>5

(* After a timer fires the next goroutine starts within an interval.       *)
LEMMA GrantDense ==
    ASSUME LimiterTypeOK, Spaced, Dense, Soon, NEW c \in Callers, Grant(c)
    PROVE  Dense' /\ Soon'
<1>0. /\ now \in Nat /\ next \in Nat /\ Interval \in Nat \ {0}
      /\ caller \in [Callers -> Call]
  BY TimesAssumption DEF LimiterTypeOK
<1>1. /\ c \in Waiting /\ caller[c].due <= now /\ Waiting' = Waiting \ {c}
      /\ quiet' = 0 /\ now' = now /\ next' = next /\ patient' = patient
      /\ \A e \in Waiting' : caller'[e] = caller[e]
  BY <1>0 DEF Grant, Waiting
<1>2. \A e \in Waiting : caller[e].due \in Nat
  BY <1>0 DEF Waiting, Call
<1>3. ASSUME patient, NEW k \in 1 .. next, now < next - k * Interval
      PROVE  \E e \in Waiting' : caller'[e].due = next - k * Interval
  <2>1. PICK e \in Waiting : caller[e].due = next - k * Interval
    BY <1>3 DEF Dense
  <2>2. e # c
    BY <1>0, <1>1, <1>2, <1>3, <2>1
  <2> QED  BY <1>1, <2>1, <2>2
<1>4. Dense'
  BY <1>1, <1>3 DEF Dense
<1>5. ASSUME patient, NEW e \in Waiting'
      PROVE  \E x \in Waiting' : caller'[x].due <= now + Interval
  <2>1. CASE caller[e].due <= now + Interval
    BY <1>1, <2>1
  <2>2. CASE ~(caller[e].due <= now + Interval)
    <3>1. now + Interval < next
      <4>1. e \in Waiting /\ caller[e].due \in Nat
        BY <1>1, <1>2
      <4>2. caller[e].due + Interval <= next
        BY <4>1 DEF Spaced, Slots
      <4> QED  BY <1>0, <2>2, <4>1, <4>2
    <3>2. PICK k \in 1 .. next : now < next - k * Interval /\ next - k * Interval <= now + Interval
      BY <1>0, <3>1, StepsBack
    <3>3. PICK x \in Waiting' : caller'[x].due = next - k * Interval
      BY <1>3, <1>5, <3>2
    <3> QED  BY <3>2, <3>3
  <2> QED  BY <2>1, <2>2
<1>6. Soon'
  <2>1. \A e \in Waiting' : caller'[e].due + 0 = caller'[e].due
    BY <1>1, <1>2
  <2> QED  BY <1>1, <1>5, <2>1 DEF Soon
<1> QED  BY <1>4, <1>6

(* Every step leaves no gap. *)
LEMMA DenseStep ==
    ASSUME LimiterTypeOK, Spaced, Dense, Soon, [Next]_vars
    PROVE  Dense' /\ Soon'
<1>0. /\ now \in Nat /\ next \in Nat /\ Interval \in Nat \ {0} /\ quiet \in Nat
      /\ caller \in [Callers -> Call]
  BY TimesAssumption DEF LimiterTypeOK
<1>1. CASE Cancel \/ UNCHANGED vars
  <2>1. Waiting' = Waiting /\ UNCHANGED <<now, next, caller, quiet, patient>>
    BY <1>1 DEF Cancel, vars, Waiting
  <2>2. Dense'
    BY <2>1 DEF Dense
  <2>3. Soon'
    BY <2>1 DEF Soon
  <2> QED  BY <2>2, <2>3
<1>2. CASE Tick
  <2>1. /\ Waiting' = Waiting /\ UNCHANGED <<next, caller, patient>> /\ now' = now + 1
        /\ quiet' \in {0, quiet + 1} /\ (Waiting = {} => quiet' = 0)
    BY <1>2 DEF Tick, Waiting
  <2>2. Dense'
    <3>1. \A k \in 1 .. next : now' < next - k * Interval => now < next - k * Interval
      <4> TAKE k \in 1 .. next
      <4>1. k * Interval \in Nat
        BY <1>0, OneBack
      <4> QED  BY <1>0, <2>1, <4>1
    <3> QED  BY <2>1, <3>1 DEF Dense
  <2>3. ASSUME NEW e \in Waiting, caller[e].due + quiet <= now + Interval
        PROVE  caller'[e].due + quiet' <= now' + Interval
    <3>1. caller[e].due \in Nat /\ caller'[e].due = caller[e].due
      BY <1>0, <2>1 DEF Waiting, Call
    <3> QED  BY <1>0, <2>1, <2>3, <3>1
  <2>4. Soon'
    BY <2>1, <2>3 DEF Soon
  <2> QED  BY <2>2, <2>4
<1>3. ASSUME NEW c \in Callers, Act(c) PROVE Dense' /\ Soon'
  <2>1. CASE Begin(c)
    BY <2>1, WaitDense DEF Begin
  <2>2. CASE Hop(c)
    BY <2>2, WaitDense DEF Hop
  <2>3. CASE Grant(c)
    BY <2>3, GrantDense
  <2>4. CASE GiveUp(c)
    BY <2>4 DEF GiveUp, Dense, Soon
  <2>5. CASE Finish(c)
    <3>1. /\ Waiting' = Waiting /\ UNCHANGED <<now, next, quiet, patient>>
          /\ \A e \in Waiting : caller'[e] = caller[e]
      BY <1>0, <2>5 DEF Finish, Waiting, Idle
    <3>2. Dense'
      BY <3>1 DEF Dense
    <3>3. Soon'
      BY <3>1 DEF Soon
    <3> QED  BY <3>2, <3>3
  <2> QED  BY <1>3, <2>1, <2>2, <2>3, <2>4, <2>5 DEF Act
<1> QED  BY <1>1, <1>2, <1>3 DEF Next

(* While goroutines wait, requests start no further apart than the rate    *)
(* says and a timer may be late, as long as no wait is given up.           *)
THEOREM StartsAreEven == Spec => []Evenly
<1>1. Init => Punctual /\ Dense /\ Soon
  <2> SUFFICES ASSUME Init PROVE Punctual /\ Dense /\ Soon
    OBVIOUS
  <2>1. Waiting = {} /\ starts = {} /\ next = 0 /\ quiet = 0
    BY DEF Init, Idle, Waiting
  <2> QED  BY <2>1 DEF Punctual, Dense, Soon
<1>2. LimiterTypeOK /\ Spaced /\ Dense /\ Soon /\ [Next]_vars => (Dense /\ Soon)'
  BY DenseStep
<1>3. LimiterTypeOK /\ Punctual /\ Soon => Evenly
  <2> SUFFICES ASSUME LimiterTypeOK, Punctual, Soon, patient PROVE quiet <= Interval + Late
    BY DEF Evenly
  <2>1. now \in Nat /\ quiet \in Nat /\ Interval \in Nat /\ Late \in Nat
    BY TimesAssumption DEF LimiterTypeOK
  <2>2. CASE Waiting = {}
    BY <2>1, <2>2 DEF Soon
  <2>3. CASE Waiting # {}
    <3>1. PICK c \in Waiting : caller[c].due + quiet <= now + Interval
      BY <2>3 DEF Soon
    <3>2. caller[c].due \in Nat /\ now <= caller[c].due + Late
      BY DEF LimiterTypeOK, Waiting, Call, Punctual
    <3> QED  BY <2>1, <3>1, <3>2
  <2> QED  BY <2>2, <2>3
<1> QED
  BY <1>1, <1>2, <1>3, PunctualStep, LimiterTypeCorrect, SlotsAreSpaced, PTL DEF Spec
=============================================================================
