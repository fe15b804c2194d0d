----------------------------- MODULE CloudLink -----------------------------
(***************************************************************************)
(* CloudSink's connection state machine: poll(), called by the cloud task  *)
(* every 250 ms, walks WiFi association, certificate loading, the MQTT     *)
(* handshake and an exponential backoff, each under a timeout computed by  *)
(* unsigned subtraction on the wrapping millis() counter.  Access point,   *)
(* broker and card come and go as they like.  What is published once the   *)
(* link is up is module CloudPublish.                                      *)
(***************************************************************************)
EXTENDS Naturals

CONSTANTS
  WifiTimeout,   \* kWifiConnectTimeoutMs, in ticks
  MqttTimeout,   \* kMqttConnectTimeoutMs
  BackoffInit,   \* kBackoffInitialMs
  BackoffMax,    \* kBackoffMaxMs
  Wrap,          \* millis() counts modulo Wrap (2^32 in the code)
  PollGap,       \* most ticks between two polls of the task
  MaxBlock,      \* most ticks a blocking connect takes
  MaxFails       \* bound on the count of failures kept in "fails"

ASSUME TimeAssumption ==
  /\ WifiTimeout \in Nat /\ MqttTimeout \in Nat
  /\ PollGap \in Nat \ {0} /\ MaxBlock \in Nat /\ MaxFails \in Nat
ASSUME BackoffAssumption ==
  /\ BackoffInit \in Nat \ {0} /\ BackoffMax \in Nat /\ BackoffInit <= BackoffMax
\* The counter is wide enough for every delay the machine measures.
ASSUME WrapAssumption ==
  /\ Wrap \in Nat /\ Wrap > WifiTimeout + PollGap + 1
  /\ Wrap > MqttTimeout + PollGap + 1 /\ Wrap > BackoffMax + PollGap + 1

VARIABLES
  state,         \* state_
  entered,       \* stateEnteredMs_
  backoff,       \* backoffMs_
  certsLoaded,   \* certsLoaded_
  connecting,    \* the task is inside the blocking mqtt_.connect()
  wifi,          \* WiFi.status() == WL_CONNECTED
  mqtt,          \* mqtt_.connected()
  certs,         \* are the three /certs files on the card
  now,           \* millis()
  gap,           \* ticks since the last poll, or since connect() was entered
  stay,          \* history: ticks since the state was entered
  apart,         \* history: ticks since the last WiFi.begin()
  fails          \* history: backoffs waited out since the last clean connect

link == <<state, entered, backoff, certsLoaded, connecting>>
network == <<wifi, mqtt, certs>>
clock == <<now, gap, stay, apart>>
vars == <<link, network, clock, fails>>

States == {"Idle", "WifiConnecting", "WifiConnected", "MqttConnecting", "Connected", "Backoff"}

\* The histories stop counting where nothing more can be told apart.
Longest == BackoffMax + WifiTimeout + MqttTimeout + PollGap + MaxBlock
More(t) == IF t < Longest THEN t + 1 ELSE t

Init ==
  /\ state = "Idle" /\ now \in 0..(Wrap - 1) /\ entered = now
  /\ backoff = BackoffInit /\ certsLoaded = FALSE /\ connecting = FALSE
  /\ wifi = FALSE /\ mqtt = FALSE /\ certs \in BOOLEAN
  /\ gap = 0 /\ stay = 0 /\ apart = Longest /\ fails = 0

-----------------------------------------------------------------------------
(* Time.                                                                   *)

SinceEntered == (now + Wrap - entered) % Wrap

Tick ==
  /\ gap < IF connecting THEN MaxBlock ELSE PollGap
  /\ now' = (now + 1) % Wrap
  /\ gap' = gap + 1 /\ stay' = More(stay) /\ apart' = More(apart)
  /\ UNCHANGED <<link, network, fails>>

-----------------------------------------------------------------------------
(* poll(), one action per branch.                                          *)

\* Mutant of EnterState: the entry time is not renewed.
EnterStateKeepsTime(s) ==
  state' = s /\ UNCHANGED entered /\ stay' = 0 /\ gap' = 0

EnterState(s) ==
  state' = s /\ entered' = now /\ stay' = 0 /\ gap' = 0

\* A branch that stays where it is.
Remain == gap' = 0 /\ UNCHANGED <<link, stay>>

\* Mutant of TimedOut: compares points in time instead of a difference.
TimedOutAbsolute(t) == now > entered + t

TimedOut(t) == SinceEntered > t

\* WiFi.begin() may drop an association that is still up.
PollIdle ==
  /\ state = "Idle"
  /\ wifi' \in {wifi, FALSE} /\ mqtt' = (mqtt /\ wifi')
  /\ apart' = 0 /\ EnterState("WifiConnecting")
  /\ UNCHANGED <<backoff, certsLoaded, connecting, certs, now, fails>>

PollWifiConnecting ==
  /\ state = "WifiConnecting"
  /\ \/ wifi /\ EnterState("WifiConnected") /\ UNCHANGED <<backoff, certsLoaded, connecting>>
     \/ ~wifi /\ TimedOut(WifiTimeout) /\ EnterState("Backoff")
        /\ UNCHANGED <<backoff, certsLoaded, connecting>>
     \/ ~wifi /\ ~TimedOut(WifiTimeout) /\ Remain
  /\ UNCHANGED <<network, now, apart, fails>>

\* beginMqttConnect() up to the handshake: without certificates it fails at
\* once, with them (read once, then cached) the task blocks in connect().
PollWifiConnected ==
  /\ state = "WifiConnected" /\ ~connecting
  /\ \/ /\ ~certsLoaded /\ ~certs /\ EnterState("Backoff")
        /\ UNCHANGED <<backoff, certsLoaded, connecting>>
     \/ /\ certsLoaded \/ certs
        /\ certsLoaded' = TRUE /\ connecting' = TRUE
        /\ gap' = 0 /\ UNCHANGED <<state, entered, stay, backoff>>
  /\ UNCHANGED <<network, now, apart, fails>>

ConnectFails ==
  /\ connecting /\ connecting' = FALSE
  /\ mqtt' = FALSE
  /\ EnterState("Backoff")
  /\ UNCHANGED <<backoff, certsLoaded, wifi, certs, now, apart, fails>>

ConnectSucceeds ==
  /\ connecting /\ connecting' = FALSE
  /\ wifi /\ mqtt' = TRUE
  /\ EnterState("MqttConnecting")
  /\ UNCHANGED <<backoff, certsLoaded, wifi, certs, now, apart, fails>>

\* Mutant of ResetBackoff: a clean connect leaves the backoff where it was.
ResetBackoffForgotten == UNCHANGED backoff /\ fails' = 0

ResetBackoff == backoff' = BackoffInit /\ fails' = 0

PollMqttConnecting ==
  /\ state = "MqttConnecting"
  /\ \/ mqtt /\ EnterState("Connected") /\ ResetBackoff /\ UNCHANGED <<certsLoaded, connecting>>
     \/ /\ ~mqtt /\ TimedOut(MqttTimeout) /\ EnterState("Backoff")
        /\ UNCHANGED <<backoff, certsLoaded, connecting, fails>>
     \/ ~mqtt /\ ~TimedOut(MqttTimeout) /\ Remain /\ UNCHANGED fails
  /\ UNCHANGED <<network, now, apart>>

\* Mutant of PollConnected: a dropped link is retried without a backoff.
PollConnectedRetriesAtOnce ==
  /\ state = "Connected"
  /\ \/ (~wifi \/ ~mqtt) /\ EnterState("Idle") /\ UNCHANGED <<backoff, certsLoaded, connecting>>
     \/ wifi /\ mqtt /\ Remain
  /\ UNCHANGED <<network, now, apart, fails>>

\* While the link is up: mqtt_.loop() and maybePublish().
PollConnected ==
  /\ state = "Connected"
  /\ \/ (~wifi \/ ~mqtt) /\ EnterState("Backoff") /\ UNCHANGED <<backoff, certsLoaded, connecting>>
     \/ wifi /\ mqtt /\ Remain
  /\ UNCHANGED <<network, now, apart, fails>>

NextBackoff == IF backoff < BackoffMax \div 2 THEN backoff * 2 ELSE BackoffMax

PollBackoff ==
  /\ state = "Backoff"
  /\ \/ /\ TimedOut(backoff) /\ EnterState("Idle")
        /\ backoff' = NextBackoff
        /\ fails' = IF fails < MaxFails THEN fails + 1 ELSE fails
        /\ UNCHANGED <<certsLoaded, connecting>>
     \/ ~TimedOut(backoff) /\ Remain /\ UNCHANGED fails
  /\ UNCHANGED <<network, now, apart>>

Poll == \/ PollIdle \/ PollWifiConnecting \/ PollWifiConnected
        \/ PollMqttConnecting \/ PollConnected \/ PollBackoff

-----------------------------------------------------------------------------
(* The environment.                                                        *)

\* An association completes only after WiFi.begin() asked for it.
WifiUp ==
  /\ ~wifi /\ state \notin {"Idle"}
  /\ wifi' = TRUE
  /\ UNCHANGED <<link, mqtt, certs, clock, fails>>

WifiDrops ==
  /\ wifi /\ wifi' = FALSE /\ mqtt' = FALSE
  /\ UNCHANGED <<link, certs, clock, fails>>

MqttDrops ==
  /\ mqtt /\ mqtt' = FALSE
  /\ UNCHANGED <<link, wifi, certs, clock, fails>>

CardChanges ==
  /\ certs' = ~certs
  /\ UNCHANGED <<link, wifi, mqtt, clock, fails>>

Environment == WifiUp \/ WifiDrops \/ MqttDrops \/ CardChanges

Next == Tick \/ Poll \/ ConnectFails \/ ConnectSucceeds \/ Environment

Spec == Init /\ [][Next]_vars

\* The task keeps polling and time keeps passing; connect() returns.
TaskFairness == WF_vars(Tick) /\ WF_vars(Poll) /\ WF_vars(ConnectFails \/ ConnectSucceeds)

FairSpec == Spec /\ TaskFairness

-----------------------------------------------------------------------------
(* Properties.                                                             *)

SwitchesOK ==
  /\ certsLoaded \in BOOLEAN /\ connecting \in BOOLEAN
  /\ wifi \in BOOLEAN /\ mqtt \in BOOLEAN /\ certs \in BOOLEAN

TimesOK ==
  /\ state \in States /\ entered \in 0..(Wrap - 1)
  /\ backoff \in BackoffInit..BackoffMax
  /\ now \in 0..(Wrap - 1) /\ gap \in 0..(PollGap + MaxBlock)
  /\ stay \in 0..Longest /\ apart \in 0..Longest /\ fails \in 0..MaxFails

TypeOK == SwitchesOK /\ TimesOK

\* No state outlives its timeout by more than one poll, wherever the counter
\* wraps: a hung association, handshake or backoff always ends.
NoStateOverstays ==
  /\ state = "WifiConnecting" => stay <= WifiTimeout + PollGap
  /\ state = "MqttConnecting" => stay <= MqttTimeout + PollGap
  /\ state = "Backoff" => stay <= backoff + PollGap

\* Nor does a timeout fire early: an attempt that failed for lack of time
\* had all of its time, and a backoff is waited out.
NoTimeoutFiresEarly ==
  [][/\ state = "WifiConnecting" /\ state' = "Backoff" => stay > WifiTimeout
     /\ state = "MqttConnecting" /\ state' = "Backoff" => stay > MqttTimeout
     /\ state = "Backoff" /\ state' = "Idle" => stay > backoff]_vars

\* connectivity.md: the backoff starts at its floor, doubles on each failed
\* attempt, is capped, and starts over after a clean connect.
BackoffLaw ==
  fails < MaxFails =>
    backoff = IF BackoffInit * 2^fails < BackoffMax THEN BackoffInit * 2^fails ELSE BackoffMax

\* Two attempts on the network are always more than the floor apart, however
\* an attempt ends (a drop right after connecting included).
AttemptsSpaced ==
  [][state = "Idle" /\ state' = "WifiConnecting" => apart > BackoffInit]_vars

\* "Backs off to a steady 5-minute retry cadence forever": the machine either
\* stays connected for good, or starts one attempt after the other without
\* end, whatever the network does, one that never answers included.
KeepsTrying ==
  <>[](state = "Connected") \/ []<><<state = "Idle" /\ state' = "WifiConnecting">>_vars

\* A network that is there answers some of the attempts in time.
NetworkFairness ==
  /\ SF_vars(WifiUp /\ state = "WifiConnecting")
  /\ SF_vars(ConnectSucceeds)

\* On a network that answers, once the link stops dropping and the
\* certificates stay on the card, the machine gets to Connected and stays.
Settles == NetworkFairness /\ <>[][~WifiDrops /\ ~MqttDrops]_vars /\ <>[]certs
             => <>[](state = "Connected")

=============================================================================
