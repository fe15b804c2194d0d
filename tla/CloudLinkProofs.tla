--------------------------- MODULE CloudLinkProofs ---------------------------
(***************************************************************************)
(* Theorems about CloudLink, for any timeouts, backoff limits and width of *)
(* the millisecond counter that is wide enough for the delays it measures. *)
(***************************************************************************)
EXTENDS CloudLink, FiniteSetTheorems, TLAPS

\* The longest the state may last before a poll must leave it.
Limit == IF state = "WifiConnecting" THEN WifiTimeout
         ELSE IF state = "MqttConnecting" THEN MqttTimeout ELSE backoff

Timed == state \in {"WifiConnecting", "MqttConnecting", "Backoff"}

\* Only the blocking connect keeps the task away for longer than a poll gap.
Polled == /\ ~connecting => gap <= PollGap
          /\ connecting => state = "WifiConnected" /\ gap <= MaxBlock

\* At the last poll the limit was not reached, and the wrapping difference is
\* the time that has really passed.
Tracked == Timed => stay <= Limit + gap /\ SinceEntered = stay

\* Nothing but a backoff that was waited out leads back to Idle.
Apart == /\ stay <= apart
         /\ state = "Idle" => apart > BackoffInit

IInv == TypeOK /\ Polled /\ Tracked /\ Apart

LEMMA Turns == Wrap \in Nat \ {0}
  BY WrapAssumption, TimeAssumption

\* One turn of the counter at most is taken off.
LEMMA OneTurn ==
  ASSUME NEW x \in 0..(2 * Wrap - 1)
  PROVE  x % Wrap = IF x < Wrap THEN x ELSE x - Wrap
  <1>1. CASE x < Wrap
    BY <1>1, Turns
  <1>2. CASE ~(x < Wrap)
    BY <1>2, Turns
  <1> QED BY <1>1, <1>2

\* The unsigned difference the code takes, wherever the counter has wrapped.
Passed(a, b) == (b + Wrap - a) % Wrap

LEMMA PassedValue ==
  ASSUME NEW a \in 0..(Wrap - 1), NEW b \in 0..(Wrap - 1)
  PROVE  Passed(a, b) = IF a <= b THEN b - a ELSE b + Wrap - a
  <1>1. b + Wrap - a \in 0..(2 * Wrap - 1)
    BY Turns
  <1> QED BY <1>1, OneTurn, Turns DEF Passed

LEMMA NextTime ==
  ASSUME NEW t \in 0..(Wrap - 1)
  PROVE  (t + 1) % Wrap = IF t + 1 = Wrap THEN 0 ELSE t + 1
  <1>1. t + 1 \in 0..(2 * Wrap - 1)
    BY Turns
  <1> QED BY <1>1, OneTurn, Turns

-----------------------------------------------------------------------------

LEMMA InitInv == Init => IInv
  <1> SUFFICES ASSUME Init PROVE IInv
    OBVIOUS
  <1> USE TimeAssumption, BackoffAssumption, WrapAssumption DEF Init
  <1>1. TypeOK
    <2>1. state \in States /\ certsLoaded \in BOOLEAN /\ connecting \in BOOLEAN
          /\ wifi \in BOOLEAN /\ mqtt \in BOOLEAN /\ certs \in BOOLEAN
      BY DEF States
    <2>2. entered \in 0..(Wrap - 1) /\ now \in 0..(Wrap - 1) /\ backoff \in BackoffInit..BackoffMax
      OBVIOUS
    <2>3. gap \in 0..(PollGap + MaxBlock) /\ stay \in 0..Longest /\ apart \in 0..Longest
          /\ fails \in 0..MaxFails
      BY DEF Longest
    <2> QED BY <2>1, <2>2, <2>3 DEF TypeOK, SwitchesOK, TimesOK
  <1>2. Polled /\ Tracked /\ Apart
    BY DEF Polled, Tracked, Timed, Apart, Longest
  <1> QED BY <1>1, <1>2 DEF IInv

LEMMA TickStep ==
  ASSUME IInv, Tick
  PROVE  IInv'
  <1> USE TimeAssumption, BackoffAssumption, WrapAssumption
          DEF Tick, link, network, IInv, TypeOK, SwitchesOK, TimesOK, Polled, More, Longest
  <1>1. now' \in 0..(Wrap - 1)
    BY Turns, NextTime
  <1>2. TypeOK'
    BY <1>1 DEF States
  <1>3. Polled'
    OBVIOUS
  <1>4. Tracked'
    <2> SUFFICES ASSUME Timed' PROVE (stay <= Limit + gap /\ SinceEntered = stay)'
      BY DEF Tracked
    <2>1. Timed /\ Limit' = Limit /\ ~connecting
      BY DEF Timed, Limit
    <2>2. stay <= Limit + gap /\ SinceEntered = stay /\ gap + 1 <= PollGap
      BY <2>1 DEF Tracked
    <2>3. Limit \in Nat /\ Limit <= Longest - PollGap /\ Limit + PollGap + 1 < Wrap
      BY DEF Limit
    <2>4. stay' = stay + 1
      BY <2>2, <2>3
    <2>5. Passed(entered, now) = stay /\ stay + 1 < Wrap
      BY <2>2, <2>3 DEF Passed, SinceEntered
    <2>6. SinceEntered' = stay + 1
      <3>1. now' = IF now + 1 = Wrap THEN 0 ELSE now + 1
        BY NextTime
      <3>2. Passed(entered, now) = IF entered <= now THEN now - entered ELSE now + Wrap - entered
        BY PassedValue
      <3>3. Passed(entered, now') = IF entered <= now' THEN now' - entered ELSE now' + Wrap - entered
        BY <1>1, PassedValue
      <3>4. Passed(entered, now') = stay + 1
        BY <2>5, <3>1, <3>2, <3>3, Turns
      <3> QED BY <3>4 DEF Passed, SinceEntered
    <2> QED BY <2>1, <2>2, <2>3, <2>4, <2>6
  <1>5. Apart'
    BY DEF Apart
  <1> QED BY <1>2, <1>3, <1>4, <1>5

\* A state that has just been entered.
LEMMA EnterTracked ==
  ASSUME TypeOK, TypeOK', NEW s \in States, EnterState(s), UNCHANGED now
  PROVE  Tracked'
  <1>1. SinceEntered' = 0 /\ stay' = 0 /\ gap' = 0
    <2>1. entered' = now /\ now' = now /\ now \in 0..(Wrap - 1)
      BY DEF EnterState, TypeOK, SwitchesOK, TimesOK
    <2>2. Passed(now, now) = 0
      BY <2>1, Turns, PassedValue
    <2> QED BY <2>1, <2>2 DEF EnterState, SinceEntered, Passed
  <1>2. stay' <= Limit' + gap'
    <2>1. Limit' \in Nat
      BY TimeAssumption, BackoffAssumption DEF Limit, TypeOK, TimesOK
    <2>2. \A l \in Nat : 0 <= l + 0
      OBVIOUS
    <2> QED BY <1>1, <2>1, <2>2
  <1> QED BY <1>1, <1>2 DEF Tracked

LEMMA NextBackoffInRange == TypeOK => NextBackoff \in BackoffInit..BackoffMax
  BY BackoffAssumption DEF TypeOK, SwitchesOK, TimesOK, NextBackoff

LEMMA PollTypes ==
  ASSUME TypeOK, Polled, Poll \/ ConnectFails \/ ConnectSucceeds
  PROVE  TypeOK' /\ Polled'
  <1> USE TimeAssumption, BackoffAssumption, NextBackoffInRange
          DEF TypeOK, SwitchesOK, TimesOK, Polled, States, Longest, EnterState, Remain, link,
              network
  <1>1. CASE PollIdle
    <2>1. SwitchesOK'
      BY <1>1 DEF PollIdle
    <2>2. TimesOK' /\ Polled'
      BY <1>1 DEF PollIdle
    <2> QED BY <2>1, <2>2
  <1>2. CASE PollWifiConnecting
    <2>1. SwitchesOK'
      BY <1>2 DEF PollWifiConnecting
    <2>2. TimesOK' /\ Polled'
      BY <1>2 DEF PollWifiConnecting
    <2> QED BY <2>1, <2>2
  <1>3. CASE PollWifiConnected
    <2>1. SwitchesOK'
      BY <1>3 DEF PollWifiConnected
    <2>2. TimesOK' /\ Polled'
      BY <1>3 DEF PollWifiConnected
    <2> QED BY <2>1, <2>2
  <1>4. CASE PollMqttConnecting
    <2>1. SwitchesOK'
      BY <1>4 DEF PollMqttConnecting, ResetBackoff
    <2>2. TimesOK' /\ Polled'
      BY <1>4 DEF PollMqttConnecting, ResetBackoff
    <2> QED BY <2>1, <2>2
  <1>5. CASE PollConnected
    <2>1. SwitchesOK'
      BY <1>5 DEF PollConnected
    <2>2. TimesOK' /\ Polled'
      BY <1>5 DEF PollConnected
    <2> QED BY <2>1, <2>2
  <1>6. CASE PollBackoff
    <2>1. SwitchesOK'
      BY <1>6 DEF PollBackoff
    <2>2. TimesOK' /\ Polled'
      BY <1>6 DEF PollBackoff
    <2> QED BY <2>1, <2>2
  <1>7. CASE ConnectFails \/ ConnectSucceeds
    <2>1. SwitchesOK'
      BY <1>7 DEF ConnectFails, ConnectSucceeds
    <2>2. TimesOK' /\ Polled'
      BY <1>7 DEF ConnectFails, ConnectSucceeds
    <2> QED BY <2>1, <2>2
  <1> QED BY <1>1, <1>2, <1>3, <1>4, <1>5, <1>6, <1>7 DEF Poll

\* A poll enters a state, begins the blocking connect, or found the time not
\* up yet.
LEMMA PollTracked ==
  ASSUME IInv, TypeOK', Poll \/ ConnectFails \/ ConnectSucceeds
  PROVE  Tracked'
  <1>1. UNCHANGED now
    BY DEF Poll, PollIdle, PollWifiConnecting, PollWifiConnected, PollMqttConnecting,
           PollConnected, PollBackoff, ConnectFails, ConnectSucceeds
  <1>2. \/ \E s \in States : EnterState(s)
        \/ state' = "WifiConnected"
        \/ state' = "Connected"
        \/ Remain /\ Timed /\ ~TimedOut(Limit)
    <2> USE DEF Timed, Limit, States
    <2>1. CASE PollIdle \/ ConnectFails \/ ConnectSucceeds
      BY <2>1 DEF PollIdle, ConnectFails, ConnectSucceeds
    <2>2. CASE PollWifiConnecting
      BY <2>2 DEF PollWifiConnecting
    <2>3. CASE PollWifiConnected
      BY <2>3 DEF PollWifiConnected
    <2>4. CASE PollMqttConnecting
      BY <2>4 DEF PollMqttConnecting
    <2>5. CASE PollConnected
      BY <2>5 DEF PollConnected, Remain, link
    <2>6. CASE PollBackoff
      BY <2>6 DEF PollBackoff
    <2> QED BY <2>1, <2>2, <2>3, <2>4, <2>5, <2>6 DEF Poll
  <1>3. CASE \E s \in States : EnterState(s)
    BY <1>1, <1>3, EnterTracked DEF IInv
  <1>4. CASE state' \in {"WifiConnected", "Connected"}
    BY <1>4 DEF Tracked, Timed
  <1>5. CASE Remain /\ Timed /\ ~TimedOut(Limit)
    <2>1. SinceEntered = stay /\ ~(SinceEntered > Limit) /\ Limit \in Nat
      BY <1>5, TimeAssumption, BackoffAssumption
        DEF IInv, Tracked, TimedOut, Limit, TypeOK, SwitchesOK, TimesOK
    <2>2. Limit' = Limit /\ SinceEntered' = SinceEntered /\ stay' = stay /\ gap' = 0
      BY <1>1, <1>5 DEF Remain, link, Limit, SinceEntered
    <2>3. stay \in Nat
      BY DEF IInv, TypeOK, SwitchesOK, TimesOK, Longest
    <2> QED BY <2>1, <2>2, <2>3 DEF Tracked
  <1> QED BY <1>2, <1>3, <1>4, <1>5

LEMMA PollApart ==
  ASSUME IInv, Poll \/ ConnectFails \/ ConnectSucceeds
  PROVE  Apart'
  <1> USE TimeAssumption, BackoffAssumption
          DEF IInv, TypeOK, SwitchesOK, TimesOK, Apart, EnterState, Remain, link
  <1>1. CASE PollBackoff
    <2>1. TimedOut(backoff) => stay > backoff
      BY <1>1 DEF PollBackoff, Tracked, Timed, TimedOut
    <2> QED BY <1>1, <2>1 DEF PollBackoff
  <1>2. CASE PollIdle
    BY <1>2 DEF PollIdle
  <1>3. CASE PollWifiConnecting \/ PollWifiConnected \/ PollMqttConnecting \/ PollConnected
    BY <1>3 DEF PollWifiConnecting, PollWifiConnected, PollMqttConnecting, PollConnected
  <1>4. CASE ConnectFails \/ ConnectSucceeds
    BY <1>4 DEF ConnectFails, ConnectSucceeds
  <1> QED BY <1>1, <1>2, <1>3, <1>4 DEF Poll

\* The network does not touch the machine or the clock.
LEMMA EnvironmentStep ==
  ASSUME IInv, Environment \/ UNCHANGED vars
  PROVE  IInv'
  <1>1. UNCHANGED <<link, clock, fails>>
    BY DEF Environment, WifiUp, WifiDrops, MqttDrops, CardChanges, vars
  <1>2. wifi' \in BOOLEAN /\ mqtt' \in BOOLEAN /\ certs' \in BOOLEAN
    BY
      DEF Environment, WifiUp, WifiDrops, MqttDrops, CardChanges, vars, network, IInv, TypeOK,
          SwitchesOK, TimesOK
  <1> QED BY <1>1, <1>2
          DEF IInv, TypeOK, SwitchesOK, TimesOK, Polled, Tracked, Apart, Timed, Limit,
              SinceEntered, link, clock

LEMMA InvStep == IInv /\ [Next]_vars => IInv'
  BY TickStep, PollTypes, PollTracked, PollApart, EnvironmentStep DEF Next, IInv

LEMMA Invariance == Spec => []IInv
  BY InitInv, InvStep, PTL DEF Spec

\* The machine's variables stay in range, backoff and times included.
THEOREM TypeCorrect == Spec => []TypeOK
  BY Invariance, PTL DEF IInv

\* No association, handshake or backoff outlasts its timeout by more than one
\* poll, whatever the counter shows when it begins.
THEOREM NothingHangs == Spec => []NoStateOverstays
  <1>1. IInv => NoStateOverstays
    <2> SUFFICES ASSUME IInv PROVE NoStateOverstays
      OBVIOUS
    <2>1. Timed => stay <= Limit + PollGap
      <3> SUFFICES ASSUME Timed PROVE stay <= Limit + PollGap
        OBVIOUS
      <3>1. gap <= PollGap /\ stay <= Limit + gap
        BY DEF IInv, Polled, Tracked, Timed
      <3>2. Limit \in Nat /\ gap \in Nat /\ stay \in Nat /\ PollGap \in Nat
        BY TimeAssumption, BackoffAssumption DEF IInv, TypeOK, SwitchesOK, TimesOK, Limit, Longest
      <3> QED BY <3>1, <3>2
    <2> QED BY <2>1 DEF NoStateOverstays, Timed, Limit
  <1> QED BY <1>1, Invariance, PTL

\* And none is cut short by the counter's wrapping.
THEOREM NothingIsCutShort == Spec => NoTimeoutFiresEarly
  <1> DEFINE A == /\ state = "WifiConnecting" /\ state' = "Backoff" => stay > WifiTimeout
                  /\ state = "MqttConnecting" /\ state' = "Backoff" => stay > MqttTimeout
                  /\ state = "Backoff" /\ state' = "Idle" => stay > backoff
  <1>1. IInv /\ [Next]_vars => [A]_vars
    <2> SUFFICES ASSUME IInv, Next PROVE A
      OBVIOUS
    <2> USE DEF IInv, Tracked, Timed, Limit, TimedOut, EnterState, Remain, link
    <2>1. CASE Tick \/ Environment
      BY <2>1 DEF Tick, Environment, WifiUp, WifiDrops, MqttDrops, CardChanges
    <2>2. CASE Poll
      BY <2>2 DEF Poll, PollIdle, PollWifiConnecting, PollWifiConnected, PollMqttConnecting,
                  PollConnected, PollBackoff
    <2>3. CASE ConnectFails \/ ConnectSucceeds
      BY <2>3 DEF ConnectFails, ConnectSucceeds, Polled
    <2> QED BY <2>1, <2>2, <2>3 DEF Next
  <1> QED BY <1>1, Invariance, PTL DEF Spec, NoTimeoutFiresEarly

\* Every two attempts on the network are at least the backoff's floor apart.
THEOREM Spaced == Spec => AttemptsSpaced
  <1>1. IInv /\ [Next]_vars =>
          [state = "Idle" /\ state' = "WifiConnecting" => apart > BackoffInit]_vars
    BY DEF IInv, Apart
  <1> QED BY <1>1, Invariance, PTL DEF Spec, AttemptsSpaced

-----------------------------------------------------------------------------
(* The backoff.                                                            *)

\* The powers of two, counted as the subsets of 1..n.
LEMMA PowerOfTwo ==
  ASSUME NEW n \in Nat
  PROVE  2^n \in Nat \ {0} /\ 2^(n + 1) = 2 * 2^n
  <1> DEFINE S == SUBSET (1..n)
             Grown == {X \union {n + 1} : X \in S}
             grow == [X \in S |-> X \union {n + 1}]
  <1>1. IsFiniteSet(1..n) /\ Cardinality(1..n) = n
    BY FS_Interval
  <1>2. IsFiniteSet(S) /\ Cardinality(S) = 2^n
    BY <1>1, FS_SUBSET
  <1>3. IsFiniteSet(1..(n + 1)) /\ Cardinality(1..(n + 1)) = n + 1
    BY FS_Interval
  <1>4. Cardinality(SUBSET (1..(n + 1))) = 2^(n + 1)
    BY <1>3, FS_SUBSET
  <1>5. grow \in Bijection(S, Grown)
    <2>1. \A X, Y \in S : X \union {n + 1} = Y \union {n + 1} => X = Y
      <3>1. \A X \in S : n + 1 \notin X
        OBVIOUS
      <3> QED BY <3>1
    <2> HIDE DEF S
    <2>2. grow \in [S -> Grown] /\ \A Z \in Grown : \E X \in S : grow[X] = Z
      OBVIOUS
    <2>3. \A X, Y \in S : grow[X] = grow[Y] => X = Y
      BY <2>1
    <2> HIDE DEF grow, Grown
    <2> QED BY <2>2, <2>3 DEF Bijection, Injection, Surjection, IsInjective
  <1>6. IsFiniteSet(Grown) /\ Cardinality(Grown) = 2^n
    <2> HIDE DEF S, Grown, grow
    <2> QED BY <1>2, <1>5, FS_Bijection DEF ExistsBijection
  <1>7. S \union Grown = SUBSET (1..(n + 1)) /\ S \intersect Grown = {}
    <2>1. ASSUME NEW X \in SUBSET (1..(n + 1)), n + 1 \in X PROVE X \in Grown
      <3>1. X \ {n + 1} \in S
        OBVIOUS
      <3>2. X = (X \ {n + 1}) \union {n + 1}
        BY <2>1
      <3> QED BY <3>1, <3>2
    <2>2. ASSUME NEW X \in SUBSET (1..(n + 1)), n + 1 \notin X PROVE X \in S
      BY <2>2
    <2>3. ASSUME NEW X \in S PROVE X \in SUBSET (1..(n + 1)) /\ n + 1 \notin X
      OBVIOUS
    <2>4. ASSUME NEW X \in Grown PROVE X \in SUBSET (1..(n + 1)) /\ n + 1 \in X
      <3>1. PICK Y \in S : X = Y \union {n + 1}
        OBVIOUS
      <3>2. \A i \in X : i \in 1..(n + 1)
        BY <3>1
      <3> QED BY <3>1, <3>2
    <2> HIDE DEF S, Grown
    <2> QED BY <2>1, <2>2, <2>3, <2>4
  <1>8. 2^n \in Nat \ {0}
    <2>1. S # {}
      OBVIOUS
    <2> HIDE DEF S
    <2> QED BY <1>2, <2>1, FS_CardinalityType, FS_EmptySet
  <1>9. 2^(n + 1) = 2^n + 2^n - 0
    <2> HIDE DEF S, Grown
    <2> QED BY <1>2, <1>4, <1>6, <1>7, FS_Union, FS_EmptySet, SMTT(60)
  <1> QED BY <1>8, <1>9

\* The smaller of the doubled floor and the cap.
Doubled(n) == IF BackoffInit * 2^n < BackoffMax THEN BackoffInit * 2^n ELSE BackoffMax

\* The code's comparison with half the cap keeps to the law if the cap is even.
LEMMA NextDoubles ==
  ASSUME NEW n \in Nat, BackoffMax % 2 = 0, backoff = Doubled(n)
  PROVE  NextBackoff = Doubled(n + 1)
  <1> DEFINE p == 2^n
             b == BackoffInit * p
  <1>1. p \in Nat \ {0} /\ 2^(n + 1) = 2 * p
    BY PowerOfTwo
  <1> HIDE DEF p
  <1>2. b \in Nat /\ BackoffInit * (2 * p) = 2 * b
    BY <1>1, BackoffAssumption
  <1>3. Doubled(n + 1) = IF 2 * b < BackoffMax THEN 2 * b ELSE BackoffMax
    BY <1>1, <1>2 DEF Doubled
  <1>4. backoff = IF b < BackoffMax THEN b ELSE BackoffMax
    BY DEF Doubled, p
  <1> HIDE DEF b
  <1>5. BackoffMax \in Nat /\ BackoffMax = 2 * (BackoffMax \div 2) /\ BackoffMax > 0
    BY BackoffAssumption
  <1> QED BY <1>2, <1>3, <1>4, <1>5 DEF NextBackoff

\* From its floor the backoff doubles up to its cap, and every clean connect
\* starts it over; kBackoffMaxMs = 300000 is even.
THEOREM BackoffDoubles == ASSUME BackoffMax % 2 = 0 PROVE Spec => []BackoffLaw
  <1>1. Init => BackoffLaw
    <2>1. 2^0 = 1
      OBVIOUS
    <2>2. BackoffInit * 1 = BackoffInit /\ ~(BackoffMax < BackoffInit)
          /\ BackoffInit \in Nat /\ BackoffMax \in Nat
      BY BackoffAssumption
    <2> QED BY <2>1, <2>2 DEF Init, BackoffLaw
  <1>2. IInv /\ BackoffLaw /\ [Next]_vars => BackoffLaw'
    <2> SUFFICES ASSUME IInv, fails < MaxFails => backoff = Doubled(fails), [Next]_vars,
                        (fails < MaxFails)'
                 PROVE  backoff' = Doubled(fails')
      BY DEF BackoffLaw, Doubled
    <2>0. fails \in Nat /\ MaxFails \in Nat
      BY TimeAssumption DEF IInv, TypeOK, TimesOK
    <2>1. CASE UNCHANGED <<backoff, fails>>
      BY <2>1 DEF Doubled
    <2>2. CASE ResetBackoff
      <3>1. 2^0 = 1
        OBVIOUS
      <3>2. BackoffInit * 1 = BackoffInit /\ BackoffInit <= BackoffMax
            /\ BackoffInit \in Nat /\ BackoffMax \in Nat
        BY BackoffAssumption
      <3> QED BY <2>2, <3>1, <3>2 DEF ResetBackoff, Doubled
    <2>3. CASE backoff' = NextBackoff /\ fails' = IF fails < MaxFails THEN fails + 1 ELSE fails
      BY <2>0, <2>3, NextDoubles
    <2>4. CASE Tick \/ Environment \/ ConnectFails \/ ConnectSucceeds \/ UNCHANGED vars
      BY <2>1, <2>4 DEF Tick, Environment, WifiUp, WifiDrops, MqttDrops, CardChanges, ConnectFails,
                        ConnectSucceeds, vars, link
    <2>5. CASE Poll
      BY <2>1, <2>2, <2>3, <2>5 DEF Poll, PollIdle, PollWifiConnecting, PollWifiConnected,
                  PollMqttConnecting, PollConnected, PollBackoff, Remain, link
    <2> QED BY <2>4, <2>5 DEF Next
  <1> QED BY <1>1, <1>2, Invariance, PTL DEF Spec

=============================================================================
