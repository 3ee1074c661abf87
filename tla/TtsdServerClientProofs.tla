------------------------ MODULE TtsdServerClientProofs ------------------------
(***************************************************************************)
(* What a client was told of its state, for whom the engine is loaded, and *)
(* in which order the utterances of a client are announced, for every      *)
(* number of clients, every bound and every choice of requests; the faults *)
(* that a theorem has to exclude are its hypotheses.  The shapes of        *)
(* TtsdServerFocusProofs say what each action does to the clients' states. *)
(***************************************************************************)
EXTENDS TtsdServerFocusProofs, TtsdServerSoundProofs

-------------------------------------------------------------------------------
(* A client that believes it plays is still registered, and plays or has a *)
(* message coming: the timer that tells it tells registered clients only.  *)
ToldInv ==
  \A u \in Uid : told[u] = "PLAYING" =>
                   /\ IsClient(app[u])
                   /\ IsCurrent(u) \/ interrupts[u] > 0

LEMMA InterruptsType ==
  ASSUME TypeOK, NEW u \in Uid
  PROVE  interrupts[u] \in Nat
BY DEF TypeOK

(* No client changes its state; who is told PLAYING plays.                 *)
LEMMA SameStatesTold ==
  ASSUME ToldInv, \A v \in Uid : app'[v].state = app[v].state,
         UNCHANGED interrupts,
         \A v \in Uid : told'[v] = "PLAYING" => told[v] = "PLAYING" \/ IsCurrent(v)
  PROVE  ToldInv'
BY DEF ToldInv, IsCurrent, IsClient

(* One client changes its state and plays or is told something else.       *)
LEMMA OneClientTold ==
  ASSUME ToldInv, NEW u \in Uid,
         told'[u] # "PLAYING" \/ app'[u].state = "PLAYING",
         \A v \in Uid \ {u} : app'[v].state = app[v].state /\ told'[v] = told[v],
         UNCHANGED interrupts
  PROVE  ToldInv'
BY DEF ToldInv, IsCurrent, IsClient

(* Whoever refuses the synthesis, the client is told that it was stopped.  *)
LEMMA FailTold ==
  ASSUME TypeOK, ToldInv, NEW u \in Uid, NEW x, FailSynthesis(u, x),
         UNCHANGED interrupts
  PROVE  ToldInv'
<1>1. /\ told'[u] = "READY" /\ \A v \in Uid \ {u} : told'[v] = told[v]
      /\ \A v \in Uid \ {u} : app'[v] = app[v]
  BY DEF FailSynthesis, Told, TypeOK
<1> QED BY <1>1, OneClientTold

(* A new text changes no state unless the engine refuses it.               *)
LEMMA AddQueueStates ==
  ASSUME TypeOK, NEW u \in Uid, ServerAddQueue(u)
  PROVE  \/ told' = told /\ \A v \in Uid : app'[v].state = app[v].state
         \/ \E y \in App : y.state = app[u].state /\ FailSynthesis(u, y)
<1> DEFINE x == AddSpeakData(app[u], uttNext[u])
<1>1. x.state = app[u].state /\ x.text # <<>> /\ x \in App
  <2>1. app[u] \in App /\ uttNext[u] \in Nat
    BY Entries
  <2>2. x.text = Append(app[u].text, uttNext[u])
    BY <2>1 DEF AddSpeakData, App
  <2>3. Append(app[u].text, uttNext[u]) # <<>>
    <3>1. app[u].text \in Seq(Nat)
      BY <2>1, AppFields
    <3> QED BY <2>1, <3>1, AppendProperties
  <2>4. x.state = app[u].state
    BY <2>1, AppStates
  <2>5. x \in App
    BY <2>1, AddSpeakDataType
  <2> QED BY <2>2, <2>3, <2>4, <2>5
<1>2. PopSpeakData(x).state = app[u].state /\ PopSpeakData(x) \in App
  BY <1>1, AppStates, PopSpeakDataType
<1>3. CASE FailSynthesis(u, PopSpeakData(x))
  BY <1>2, <1>3
<1>4. CASE told' = told /\ app' \in {app, [app EXCEPT ![u] = x],
                                     [app EXCEPT ![u] = PopSpeakData(x)]}
  BY <1>1, <1>2, <1>4 DEF TypeOK
<1> QED BY <1>3, <1>4 DEF ServerAddQueue

LEMMA AddQueueTold ==
  ASSUME TypeOK, ToldInv, NEW u \in Uid, ServerAddQueue(u)
  PROVE  ToldInv'
<1>1. interrupts' = interrupts
  BY DEF ServerAddQueue
<1> QED BY <1>1, AddQueueStates, FailTold, SameStatesTold

(* The interrupted client has its message pending, the interrupter plays.  *)
LEMMA PlayTold ==
  ASSUME TypeOK, FocusInv, ToldInv, NEW u \in Uid,
         ServerPlay(u) \/ \E v \in Uid : ServerPlayInterrupt(u, v)
  PROVE  ToldInv'
<1>1. TakesPlayer(u)
  BY PlayEffect
<1>2. \A v \in Uid \ {u} : told'[v] = told[v]
  <2>1. \A x, apps : StartPlay(u, x, apps)
                       => told' \in {told, [told EXCEPT ![u] = "PLAYING"]}
    BY DEF StartPlay, GrantPlay, Told
  <2>2. told' \in {told, [told EXCEPT ![u] = "PLAYING"]}
    BY <2>1 DEF ServerPlay, ServerPlayInterrupt
  <2> QED BY <2>2 DEF TypeOK
<1>3. \A v \in Uid : interrupts'[v] \in Nat /\ interrupts'[v] >= interrupts[v]
  <2>1. \/ interrupts' = interrupts
        \/ \E w \in Uid : interrupts' = [interrupts EXCEPT ![w] = @ + 1]
    BY DEF ServerPlay, ServerPlayInterrupt
  <2> QED BY <2>1, InterruptsType DEF TypeOK
<1>4. ASSUME NEW v \in Uid \ {u}, IsCurrent(v)
      PROVE  interrupts'[v] > 0
  <2>1. PICK w \in Uid : ServerPlayInterrupt(u, w)
    BY <1>4 DEF ServerPlay, NobodyPlays
  <2>2. w = v
    BY <1>4, <2>1 DEF ServerPlayInterrupt, FocusInv, OnePlayingClient
  <2> QED BY <2>1, <2>2, InterruptsType DEF ServerPlayInterrupt, TypeOK
<1>5. ASSUME NEW v \in Uid \ {u}, told'[v] = "PLAYING"
      PROVE  IsClient(app'[v]) /\ (app'[v].state = "PLAYING" \/ interrupts'[v] > 0)
  <2>1. told[v] = "PLAYING" /\ IsClient(app[v]) /\ (IsCurrent(v) \/ interrupts[v] > 0)
    BY <1>2, <1>5 DEF ToldInv
  <2>2. CASE IsCurrent(v)
    BY <1>1, <1>4, <2>2 DEF TakesPlayer, IsClient
  <2>3. CASE ~IsCurrent(v)
    BY <1>1, <1>3, <2>1, <2>3, InterruptsType DEF TakesPlayer, IsClient
  <2> QED BY <2>2, <2>3
<1>6. app'[u].state = "PLAYING"
  BY <1>1 DEF TakesPlayer
<1> QED BY <1>5, <1>6 DEF ToldInv, IsCurrent, IsClient

LEMMA PlayerPlayState ==
  ASSUME TypeOK, NEW u \in Uid, NEW x \in App, x.state = app[u].state,
         PlayerPlay(u, x)
  PROVE  \A v \in Uid : app'[v].state = app[v].state
<1>1. app' \in {[app EXCEPT ![u] = x], [app EXCEPT ![u] = PopSoundData(x)]}
  BY DEF PlayerPlay, SetAndStart
<1>2. PopSoundData(x).state = app[u].state
  BY AppStates
<1> QED BY <1>1, <1>2 DEF TypeOK

LEMMA RequestTold ==
  ASSUME TypeOK, FocusInv, ToldInv, NEW u \in Uid, Request(u)
  PROVE  ToldInv'
<1>1. CASE ServerInitialize(u)
  <2>1. AddsClient(u) /\ interrupts' = interrupts
    BY <1>1, InitializeEffect DEF ServerInitialize, serverVars
  <2>2. told'[u] # "PLAYING" /\ \A v \in Uid \ {u} : told'[v] = told[v]
    BY <1>1 DEF ServerInitialize, Told, ToldInv, TypeOK
  <2> QED BY <2>1, <2>2, OneClientTold DEF AddsClient
<1>2. CASE ServerStop(u) \/ ServerFinalize(u)
  <2>1. /\ told'[u] # "PLAYING" /\ interrupts' = interrupts
        /\ \A v \in Uid \ {u} : app'[v] = app[v] /\ told'[v] = told[v]
    BY <1>2 DEF ServerStop, ServerFinalize, Told, TypeOK
  <2> QED BY <2>1, OneClientTold
<1>3. CASE ServerPlayAgain(u)
  <2>1. app' = app /\ interrupts' = interrupts /\ IsCurrent(u)
        /\ told' = [told EXCEPT ![u] = "PLAYING"]
    BY <1>3 DEF ServerPlayAgain, Told, serverVars
  <2> QED BY <2>1, SameStatesTold DEF TypeOK
<1>4. CASE ServerPause(u)
  <2>1. /\ told'[u] = "PAUSED" /\ interrupts' = interrupts
        /\ \A v \in Uid \ {u} : app'[v] = app[v] /\ told'[v] = told[v]
    BY <1>4 DEF ServerPause, Told, serverVars, TypeOK
  <2> QED BY <2>1, OneClientTold
<1> QED BY <1>1, <1>2, <1>3, <1>4, AddQueueTold, PlayTold DEF Request

LEMMA SettingTold ==
  ASSUME TypeOK, ToldInv, SettingRequest
  PROVE  ToldInv'
<1>1. CASE SettingInitialize \/ SettingFinalize
  <2>1. UNCHANGED <<app, told, interrupts>>
    BY <1>1 DEF SettingInitialize, SettingFinalize, serverVars, clientVars
  <2> QED BY <2>1, SameStatesTold
<1>2. CASE SetCurrentEngine
  BY <1>2 DEF SetCurrentEngine, ToldInv
<1> QED BY <1>1, <1>2 DEF SettingRequest

LEMMA TimerTold ==
  ASSUME TypeOK, FocusInv, ToldInv, SynthesisTimer \/ \E u \in Uid : OneShotTimer(u)
  PROVE  ToldInv'
<1>1. CASE EndNextSynthesis
  <2>1. UNCHANGED <<app, told, interrupts>>
    BY <1>1 DEF EndNextSynthesis, clientVars
  <2> QED BY <2>1, SameStatesTold
<1>2. ASSUME NEW u \in Uid, StartNextSynthesis(u)
      PROVE  ToldInv'
  <2>1. interrupts' = interrupts
    BY <1>2 DEF StartNextSynthesis
  <2>2. CASE FailSynthesis(u, PopSpeakData(app[u]))
    BY <2>1, <2>2, FailTold
  <2>3. CASE told' = told /\ app' = app
    BY <2>1, <2>3, SameStatesTold
  <2>4. ASSUME told' = told, NEW x \in App, x.state = app[u].state, PlayerPlay(u, x)
        PROVE  ToldInv'
    BY <2>1, <2>4, PlayerPlayState, SameStatesTold
  <2>5. app[u].text # <<>> => /\ PopSpeakData(app[u]) \in App
                              /\ PopSpeakData(app[u]).state = app[u].state
    BY Entries, PopSpeakDataType, AppStates
  <2> QED BY <1>2, <2>2, <2>3, <2>4, <2>5, Entries DEF StartNextSynthesis
<1>3. ASSUME NEW u \in Uid, SendInterruptClient(u)
      PROVE  ToldInv'
  <2>1. app' = app /\ interrupts' = [interrupts EXCEPT ![u] = @ - 1]
    BY <1>3 DEF SendInterruptClient
  <2>2. told'[u] = "PLAYING" => ~IsClient(app[u]) /\ told[u] = "PLAYING"
    BY <1>3 DEF SendInterruptClient, TypeOK
  <2>3. \A v \in Uid \ {u} : told'[v] = told[v]
    BY <1>3 DEF SendInterruptClient, TypeOK
  <2>4. told'[u] # "PLAYING"
    BY <2>2 DEF ToldInv
  <2> QED BY <2>1, <2>3, <2>4 DEF ToldInv, IsCurrent, TypeOK
<1>4. ASSUME NEW u \in Uid, PlayerNextPlay(u)
      PROVE  ToldInv'
  <2>1. \A v \in Uid : app'[v].state = app[v].state
    BY <1>4, PlayerNextPlayEffect DEF TimerIdles, StartsSound
  <2>2. UNCHANGED <<told, interrupts>>
    BY <1>4 DEF PlayerNextPlay, serverVars, clientVars
  <2> QED BY <2>1, <2>2, SameStatesTold
<1> QED BY <1>1, <1>2, <1>3, <1>4 DEF SynthesisTimer, OneShotTimer

(* A client told PLAYING plays, or the message that it was interrupted is  *)
(* pending.                                                                *)
THEOREM NobodyIsSilentlyDeprived == Spec => []ToldPlayingIsPlaying
<1>1. Init => ToldInv
  BY DEF Init, ToldInv
<1>2. TypeOK /\ FocusInv /\ ToldInv /\ [Next]_vars => ToldInv'
  <2> SUFFICES ASSUME TypeOK, FocusInv, ToldInv, [Next]_vars PROVE ToldInv'
    OBVIOUS
  <2>1. CASE UNCHANGED vars
    BY <2>1, SameStatesTold DEF vars
  <2>2. CASE EngineResult
    <3>1. UNCHANGED <<told, interrupts>>
      BY <2>2 DEF EngineResult, EngineSound, EngineFail, EngineLate, clientVars
    <3> QED BY <2>2, <3>1, EngineEffect, SameStatesTold DEF Frame
  <2>3. ASSUME NEW u \in Uid, PlayerMessage(u)
        PROVE  ToldInv'
    <3>1. UNCHANGED <<app, told, interrupts>>
      BY <2>3 DEF PlayerMessage, BeginOfStream, EndOfStream, PlayerError,
                  serverVars, clientVars
    <3> QED BY <3>1, SameStatesTold
  <2> QED BY <2>1, <2>2, <2>3, RequestTold, SettingTold, TimerTold DEF Next
<1>3. ToldInv => ToldPlayingIsPlaying
  BY DEF ToldInv, ToldPlayingIsPlaying
<1> QED BY <1>1, <1>2, <1>3, TypeCorrect, FocusIsSafe, PTL DEF Spec

-------------------------------------------------------------------------------
(* Clients come and go only by their own request: the engine's users.      *)

LEMMA SameUsers ==
  ASSUME \A v \in Uid : IsClient(app'[v]) <=> IsClient(app[v]),
         UNCHANGED <<loaded, setting>>
  PROVE  loaded' = loaded /\ HasUsers' = HasUsers
BY DEF HasUsers

(* The engine is loaded by the first user ...                              *)
LEMMA InitializeUsers ==
  ASSUME TypeOK, NEW u \in Uid, ServerInitialize(u)
  PROVE  (loaded' = loaded /\ HasUsers' = HasUsers) \/ loaded' = HasUsers'
<1>1. app'[u] = NewClient
  BY DEF ServerInitialize, TypeOK
<1>2. HasUsers' = TRUE
  BY <1>1 DEF HasUsers, IsClient, NewClient, NoApp
<1>3. CASE HasUsers
  BY <1>2, <1>3 DEF ServerInitialize, HasUsers, TypeOK
<1>4. CASE ~HasUsers
  BY <1>2, <1>4 DEF ServerInitialize
<1> QED BY <1>3, <1>4

(* ... and unloaded by the last, however the others left.                  *)
LEMMA FinalizeUsers ==
  ASSUME TypeOK, NEW u \in Uid, ServerFinalize(u)
  PROVE  (loaded' = loaded /\ HasUsers' = HasUsers) \/ loaded' = HasUsers'
<1>1. /\ ~IsClient(app'[u]) /\ setting' = setting
      /\ \A v \in Uid \ {u} : app'[v] = app[v]
  BY DEF ServerFinalize, IsClient, NoApp, TypeOK
<1>2. CASE setting \/ \E v \in Uid \ {u} : IsClient(app[v])
  <2>1. HasUsers /\ HasUsers' /\ loaded' = loaded
    BY <1>1, <1>2 DEF ServerFinalize, HasUsers
  <2> QED BY <2>1 DEF HasUsers
<1>3. CASE ~(setting \/ \E v \in Uid \ {u} : IsClient(app[v]))
  <2>1. ~HasUsers' /\ loaded' = FALSE
    BY <1>1, <1>3 DEF ServerFinalize, HasUsers
  <2> QED BY <2>1 DEF HasUsers
<1> QED BY <1>2, <1>3

LEMMA SettingUsers ==
  ASSUME TypeOK, SettingRequest
  PROVE  \/ loaded' = loaded /\ HasUsers' = HasUsers
         \/ loaded' = HasUsers'
         \/ SetCurrentEngine
<1>1. CASE SettingInitialize
  <2>1. HasUsers' = TRUE
    BY <1>1 DEF SettingInitialize, HasUsers
  <2>2. CASE HasUsers
    BY <1>1, <2>1, <2>2 DEF SettingInitialize, HasUsers, TypeOK
  <2>3. CASE ~HasUsers
    BY <1>1, <2>1, <2>3 DEF SettingInitialize
  <2> QED BY <2>2, <2>3
<1>2. CASE SettingFinalize
  <2>1. CASE \E u \in Uid : IsClient(app[u])
    <3>1. HasUsers /\ HasUsers' /\ loaded' = loaded
      BY <1>2, <2>1 DEF SettingFinalize, HasUsers, engineVars
    <3> QED BY <3>1 DEF HasUsers
  <2>2. CASE ~\E u \in Uid : IsClient(app[u])
    <3>1. ~HasUsers' /\ loaded' = FALSE
      BY <1>2, <2>2 DEF SettingFinalize, HasUsers
    <3> QED BY <3>1 DEF HasUsers
  <2> QED BY <2>1, <2>2
<1> QED BY <1>1, <1>2 DEF SettingRequest

(* A stop keeps the client, so every other step keeps the users.           *)
LEMMA StopUsers ==
  ASSUME TypeOK, NEW u \in Uid, ServerStop(u)
  PROVE  \A v \in Uid : IsClient(app'[v]) <=> IsClient(app[v])
<1>1. StoppedApp(app[u]).state = IF IsActive(app[u]) THEN "READY" ELSE app[u].state
  BY Entries, StoppedAppState
<1> QED BY <1>1 DEF ServerStop, IsClient, IsActive, TypeOK

LEMMA FailClients ==
  ASSUME TypeOK, NEW u \in Uid, NEW x \in App, x.state = app[u].state,
         FailSynthesis(u, x)
  PROVE  \A v \in Uid : IsClient(app'[v]) <=> IsClient(app[v])
<1>1. StoppedApp(x).state = IF IsActive(x) THEN "READY" ELSE x.state
  BY StoppedAppState
<1> QED BY <1>1 DEF FailSynthesis, IsClient, IsActive, TypeOK

LEMMA RequestUsers ==
  ASSUME TypeOK, FocusInv, NEW u \in Uid, Request(u)
  PROVE  (loaded' = loaded /\ HasUsers' = HasUsers) \/ loaded' = HasUsers'
<1>1. CASE ServerInitialize(u) \/ ServerFinalize(u)
  BY <1>1, InitializeUsers, FinalizeUsers
<1>2. CASE ServerStop(u)
  BY <1>2, StopUsers, SameUsers DEF ServerStop
<1>3. CASE ServerAddQueue(u)
  <2>1. \A v \in Uid : IsClient(app'[v]) <=> IsClient(app[v])
    BY <1>3, AddQueueStates, FailClients DEF IsClient
  <2> QED BY <1>3, <2>1, SameUsers DEF ServerAddQueue
<1>4. CASE ServerPlay(u) \/ \E v \in Uid : ServerPlayInterrupt(u, v)
  <2>1. \A v \in Uid : IsClient(app'[v]) <=> IsClient(app[v])
    BY <1>4, PlayEffect DEF TakesPlayer, IsClient, IsCurrent
  <2> QED BY <1>4, <2>1, SameUsers DEF ServerPlay, ServerPlayInterrupt
<1>5. CASE ServerPause(u)
  <2>1. \A v \in Uid : IsClient(app'[v]) <=> IsClient(app[v])
    BY <1>5, PauseEffect DEF PausesClient, IsClient, IsCurrent
  <2> QED BY <1>5, <2>1, SameUsers DEF ServerPause, engineVars
<1>6. CASE ServerPlayAgain(u)
  BY <1>6, SameUsers DEF ServerPlayAgain, engineVars
<1> QED BY <1>1, <1>2, <1>3, <1>4, <1>5, <1>6 DEF Request

LEMMA TimerUsers ==
  ASSUME TypeOK, SynthesisTimer \/ \E u \in Uid : OneShotTimer(u)
  PROVE  loaded' = loaded /\ HasUsers' = HasUsers
<1>1. CASE EndNextSynthesis
  BY <1>1, SameUsers DEF EndNextSynthesis, engineVars
<1>2. ASSUME NEW u \in Uid, StartNextSynthesis(u)
      PROVE  loaded' = loaded /\ HasUsers' = HasUsers
  <2>1. UNCHANGED <<loaded, setting>>
    BY <1>2 DEF StartNextSynthesis
  <2>2. app[u].text # <<>> => /\ PopSpeakData(app[u]) \in App
                              /\ PopSpeakData(app[u]).state = app[u].state
    BY Entries, PopSpeakDataType, AppStates
  <2>3. ASSUME NEW x \in App, x.state = app[u].state,
               PlayerPlay(u, x) \/ FailSynthesis(u, x)
        PROVE  \A v \in Uid : IsClient(app'[v]) <=> IsClient(app[v])
    BY <2>3, PlayerPlayState, FailClients DEF IsClient
  <2>4. \A v \in Uid : IsClient(app'[v]) <=> IsClient(app[v])
    BY <1>2, <2>2, <2>3, Entries DEF StartNextSynthesis
  <2> QED BY <2>1, <2>4, SameUsers
<1>3. ASSUME NEW u \in Uid, SendInterruptClient(u)
      PROVE  loaded' = loaded /\ HasUsers' = HasUsers
  BY <1>3, SameUsers DEF SendInterruptClient, engineVars
<1>4. ASSUME NEW u \in Uid, PlayerNextPlay(u)
      PROVE  loaded' = loaded /\ HasUsers' = HasUsers
  <2>1. app' = app \/ app' = [app EXCEPT ![u] = PopSoundData(app[u])]
    BY <1>4 DEF PlayerNextPlay, SetAndStart
  <2>2. PopSoundData(app[u]).state = app[u].state
    BY Entries, AppStates
  <2>3. \A v \in Uid : app'[v].state = app[v].state
    BY <2>1, <2>2 DEF TypeOK
  <2> QED BY <1>4, <2>3, SameUsers DEF PlayerNextPlay, engineVars, IsClient
<1> QED BY <1>1, <1>2, <1>3, <1>4 DEF SynthesisTimer, OneShotTimer

(* Whatever changes the users loads or unloads the engine for them.        *)
LEMMA UsersStep ==
  ASSUME TypeOK, FocusInv, Next
  PROVE  \/ loaded' = loaded /\ HasUsers' = HasUsers
         \/ loaded' = HasUsers'
         \/ SetCurrentEngine
<1>1. CASE EngineResult
  <2>1. \A v \in Uid : IsClient(app'[v]) <=> IsClient(app[v])
    BY <1>1, EngineEffect DEF Frame, IsClient
  <2> QED BY <1>1, <2>1, SameUsers DEF EngineResult, EngineSound, EngineFail, EngineLate
<1>2. ASSUME NEW u \in Uid, PlayerMessage(u)
      PROVE  loaded' = loaded /\ HasUsers' = HasUsers
  <2>1. UNCHANGED <<app, loaded, setting>>
    BY <1>2 DEF PlayerMessage, BeginOfStream, EndOfStream, PlayerError, engineVars
  <2> QED BY <2>1, SameUsers
<1> QED BY <1>1, <1>2, RequestUsers, SettingUsers, TimerUsers DEF Next

(* The engine is loaded with the first user and unloaded with the last;    *)
(* only a change of engine may leave users without one.                    *)
THEOREM EngineIsLoadedForUsers == Spec => EngineFollowsUsers
<1>1. TypeOK /\ FocusInv /\ [Next]_vars =>
        [\/ loaded' = loaded /\ HasUsers' = HasUsers
         \/ loaded' = HasUsers'
         \/ SetCurrentEngine]_vars
  BY UsersStep
<1> QED BY <1>1, TypeCorrect, FocusIsSafe, PTL DEF Spec, EngineFollowsUsers

-------------------------------------------------------------------------------
(* The way of an utterance: text, synthesis, sounds, mm_player, callback.  *)

(* An engine that gives each utterance in one result or in several, and     *)
(* does so without a fault.                                                *)
Careful == Faults \subseteq {"voice", "network", "create"}

(* The synthesis of the engine if it is for u.                             *)
Doing(u) == IF job.uid = u THEN {job} ELSE {}

(* Nothing of x is older than m.  x: the client's data; D: what the engine *)
(* works on for it; n: the id of its next text.                            *)
Ahead(m, x, D, n) ==
  /\ m < n
  /\ \A i \in DOMAIN x.sound : m <= x.sound[i].utt
  /\ \A d \in D : m <= d.utt
  /\ \A i \in DOMAIN x.text : m <= x.text[i]

(* Sounds, synthesis, texts are in the order of their ids, each text has    *)
(* its own, and none of the last two was stopped.                          *)
Lined(x, D, n) ==
  /\ \A i \in DOMAIN x.sound :
       /\ x.sound[i].utt < n
       /\ \A j \in DOMAIN x.sound : i <= j => x.sound[i].utt <= x.sound[j].utt
       /\ \A d \in D : x.sound[i].utt <= d.utt
       /\ \A j \in DOMAIN x.text : x.sound[i].utt < x.text[j]
  /\ \A d \in D : /\ d.utt < n /\ x.stopped <= d.utt
                  /\ \A j \in DOMAIN x.text : d.utt < x.text[j]
  /\ \A i \in DOMAIN x.text :
       /\ x.text[i] < n /\ x.stopped <= x.text[i]
       /\ \A j \in DOMAIN x.text : i < j => x.text[i] < x.text[j]
  /\ x.stopped < n

(* h: what was announced last; p: the player.                              *)
Line(h, p, x, D, n) ==
  /\ Lined(x, D, n)
  /\ Ahead(h.started, x, D, n)
  /\ p.phase # "none" => h.started <= p.utt /\ Ahead(p.utt, x, D, n)

(* Sound s follows sound r: it goes on with r's utterance if that is not    *)
(* over, or is the first of a later one, which may break r's off.          *)
Succeeds(r, s) ==
  \/ r.utt < s.utt /\ s.event # "CONTINUE"
  \/ r.utt = s.utt /\ r.event # "FINISH" /\ s.event # "START"

(* The last sound that began, as far as the announcements remember it; the *)
(* one mm_player has now; the last one of all.                             *)
Past(h, p) ==
  [utt |-> IF h.started < h.done THEN h.done ELSE h.started, event |-> p.event]
Begun(h, p) ==
  IF p.phase = "none"
    THEN Past(h, p)
    ELSE [utt |-> p.utt,
          event |-> IF p.phase = "starting" THEN p.soundEvent ELSE p.event]
Latest(h, p, x) ==
  IF x.sound = <<>> THEN Begun(h, p) ELSE x.sound[Len(x.sound)]

(* The player's event tells whether the utterance announced last is over;   *)
(* when it was broken off one may run that was not announced.              *)
Announced(h, p) ==
  /\ p.event # "FINISH" => h.done < h.started
  /\ p.phase = "starting" => Succeeds(Past(h, p), Begun(h, p))
  /\ p.phase = "running" /\ p.event = "FINISH" =>
       p.utt = h.started \/ (h.done < h.started /\ h.started < p.utt)
  /\ p.phase \in {"running", "ended"} /\ p.event # "FINISH" => p.utt = h.started
  /\ p.phase = "ended" /\ p.event = "FINISH" => p.utt = h.done

(* Each sound follows the one before it, and the engine's next one will.   *)
Parts(h, p, x, D, n) ==
  /\ Announced(h, p)
  /\ h.done < n
  /\ \A i \in DOMAIN x.sound :
       Succeeds(IF i = 1 THEN Begun(h, p) ELSE x.sound[i - 1], x.sound[i])
  /\ \A d \in D :
       IF d.sent = "NONE"
         THEN Latest(h, p, x).utt < d.utt
         ELSE Latest(h, p, x).utt = d.utt /\ Latest(h, p, x).event # "FINISH"
  /\ \A i \in DOMAIN x.text : Latest(h, p, x).utt < x.text[i]
  /\ Latest(h, p, x).utt < n

Speech(h, p, x, D, n) ==
  Line(h, p, x, D, n) /\ (Careful => Parts(h, p, x, D, n))

SpeechOf(u) == Speech(heard[u], player[u], app[u], Doing(u), uttNext[u])
SpeechInv == \A u \in Uid : SpeechOf(u)

(* A next-sound timer is the only one, and waits at the end of a stream, or *)
(* the client was just stopped; the users always have an engine.           *)
Timely ==
  \A u \in Uid :
    nextPlays[u] > 0 =>
      /\ nextPlays[u] = 1
      /\ \/ player[u].phase = "ended"
         \/ player[u].phase = "none" /\ ~IsCurrent(u) /\ due
Served == HasUsers => loaded

(* The stream of a player goes on as it was.                               *)
SameStream(p, q) ==
  /\ q.phase = p.phase /\ q.utt = p.utt
  /\ q.event = p.event /\ q.soundEvent = p.soundEvent

(* The stream of a player is gone.                                         *)
NoStream(p, q) == q.phase = "none" /\ q.event \in {p.event, "FINISH"}

(* The engine works on no more than before.                                *)
Fewer(E, D) == \A e \in E : \E d \in D : e.utt = d.utt /\ (Careful => e = d)

-------------------------------------------------------------------------------
(* What the operators make of it.                                          *)

(* The queues of a client are sequences of what they hold.                 *)
LEMMA QueueElements ==
  ASSUME NEW x \in App
  PROVE  /\ Len(x.sound) \in Nat /\ DOMAIN x.sound = 1 .. Len(x.sound)
         /\ Len(x.text) \in Nat /\ DOMAIN x.text = 1 .. Len(x.text)
         /\ \A i \in DOMAIN x.sound : x.sound[i].utt \in Nat
         /\ \A i \in DOMAIN x.text : x.text[i] \in Nat
         /\ x.stopped \in Nat
<1>1. /\ x.sound \in Seq(Sound) /\ x.text \in Seq(Nat) /\ x.stopped \in Nat
  BY AppFields
<1>2. /\ Len(x.sound) \in Nat /\ DOMAIN x.sound = 1 .. Len(x.sound)
      /\ Len(x.text) \in Nat /\ DOMAIN x.text = 1 .. Len(x.text)
  BY <1>1, LenProperties
<1>3. /\ \A i \in 1 .. Len(x.sound) : x.sound[i] \in Sound
      /\ \A i \in 1 .. Len(x.text) : x.text[i] \in Nat
  BY <1>1, ElementOfSeq
<1> QED BY <1>1, <1>2, <1>3 DEF Sound

(* A stop leaves nothing of the client.                                    *)
LEMMA SpeechCleared ==
  ASSUME NEW h \in Heard, NEW p \in Player, NEW x, NEW D, NEW n \in Nat,
         Speech(h, p, x, D, n),
         NEW y \in App, y.text = <<>>, y.sound = <<>>,
         NEW m \in Nat, n <= m, y.stopped < m,
         NEW q, NoStream(p, q) \/ SameStream(p, q)
  PROVE  Speech(h, q, y, {}, m)
<1>1. DOMAIN y.text = {} /\ DOMAIN y.sound = {}
  OBVIOUS
<1>2. /\ h.started < m /\ (p.phase # "none" => h.started <= p.utt /\ p.utt < m)
      /\ p.utt \in Nat /\ h.started \in Nat /\ h.done \in Nat
  BY DEF Speech, Line, Ahead, Player, Heard
<1>3. Line(h, q, y, {}, m)
  BY <1>1, <1>2 DEF Line, Lined, Ahead, SameStream, NoStream
<1>4. ASSUME Careful
      PROVE  Parts(h, q, y, {}, m)
  <2>1. Announced(h, p) /\ h.done < n
    BY <1>4 DEF Speech, Parts
  <2>2. Announced(h, q)
    BY <2>1 DEF Announced, Past, Begun, SameStream, NoStream
  <2>3. h.done < m /\ Begun(h, q).utt < m
    BY <1>2, <2>1 DEF Begun, Past, SameStream, NoStream
  <2> QED BY <1>1, <2>2, <2>3 DEF Parts, Latest
<1> QED BY <1>3, <1>4 DEF Speech

(* What the announcements remember has its types.                          *)
LEMMA LatestType ==
  ASSUME NEW h \in Heard, NEW p \in Player, NEW x \in App
  PROVE  /\ h.started \in Nat /\ h.done \in Nat /\ p.utt \in Nat
         /\ Past(h, p).utt \in Nat /\ Begun(h, p).utt \in Nat
         /\ Latest(h, p, x).utt \in Nat
<1>1. h.started \in Nat /\ h.done \in Nat /\ p.utt \in Nat
  BY DEF Heard, Player
<1>2. Past(h, p).utt \in Nat /\ Begun(h, p).utt \in Nat
  BY <1>1 DEF Past, Begun
<1>3. x.sound # <<>> => Len(x.sound) \in DOMAIN x.sound
  BY AppFields, EmptySeq, QueueElements
<1> QED BY <1>1, <1>2, <1>3, QueueElements DEF Latest

(* Other steps leave the texts and sounds as they are, and no more to the   *)
(* engine than before.                                                     *)
LEMMA SpeechSame ==
  ASSUME NEW h \in Heard, NEW p \in Player, NEW x \in App, NEW D \in SUBSET Job,
         NEW n \in Nat, Speech(h, p, x, D, n),
         NEW m \in Nat, n <= m,
         NEW y, y.text = x.text, y.sound = x.sound, y.stopped = x.stopped,
         NEW q, SameStream(p, q),
         NEW E, Fewer(E, D)
  PROVE  Speech(h, q, y, E, m)
<1> USE QueueElements DEF Job
<1>1. Lined(y, E, m)
  BY DEF Speech, Line, Lined, Fewer
<1>2. Ahead(h.started, y, E, m)
  BY DEF Speech, Line, Ahead, Fewer, Heard
<1>3. q.phase # "none" => h.started <= q.utt /\ Ahead(q.utt, y, E, m)
  BY DEF Speech, Line, Ahead, SameStream, Fewer, Player, Heard
<1>4. ASSUME Careful
      PROVE  Parts(h, q, y, E, m)
  <2>1. Parts(h, p, x, D, n) /\ E \subseteq D
    BY <1>4 DEF Speech, Fewer
  <2>2. /\ Past(h, q) = Past(h, p) /\ Begun(h, q) = Begun(h, p)
        /\ Latest(h, q, y) = Latest(h, p, x)
    BY DEF SameStream, Past, Begun, Latest
  <2>3. Announced(h, q)
    BY <2>1, <2>2 DEF Parts, Announced, SameStream
  <2>4. h.done < m /\ Latest(h, q, y).utt < m
    BY <2>1, <2>2, LatestType DEF Parts
  <2> QED BY <2>1, <2>2, <2>3, <2>4 DEF Parts
<1> QED BY <1>1, <1>2, <1>3, <1>4 DEF Speech, Line

(* A text joins the end of the line.                                       *)
LEMMA SpeechAdd ==
  ASSUME NEW h \in Heard, NEW p \in Player, NEW x \in App, NEW D \in SUBSET Job,
         NEW n \in Nat, Speech(h, p, x, D, n)
  PROVE  Speech(h, p, AddSpeakData(x, n), D, n + 1)
<1> DEFINE y == AddSpeakData(x, n)
<1> USE QueueElements
<1>1. /\ y.text = Append(x.text, n) /\ y.sound = x.sound
      /\ y.stopped \in {0, x.stopped}
  BY DEF AddSpeakData, App
<1>2. /\ DOMAIN y.text = 1 .. Len(x.text) + 1
      /\ y.text[Len(x.text) + 1] = n
      /\ \A i \in 1 .. Len(x.text) : y.text[i] = x.text[i]
  BY <1>1, AppFields, AppendProperties, LenProperties
<1>3. \A i \in DOMAIN y.text : i \in DOMAIN x.text \/ i = Len(x.text) + 1
  BY <1>2
<1> HIDE DEF y
<1>4. /\ \A i \in DOMAIN x.text : x.text[i] < n
      /\ \A i \in DOMAIN x.sound : x.sound[i].utt < n
      /\ \A d \in D : d.utt < n /\ d.utt \in Nat
      /\ x.stopped < n
      /\ h.started < n
      /\ p.phase # "none" => p.utt < n
  BY DEF Speech, Line, Lined, Ahead, Job
<1>5. Lined(y, D, n + 1)
  <2>1. ASSUME NEW i \in DOMAIN y.sound
        PROVE  /\ y.sound[i].utt < n + 1
               /\ \A j \in DOMAIN y.sound : i <= j => y.sound[i].utt <= y.sound[j].utt
               /\ \A d \in D : y.sound[i].utt <= d.utt
               /\ \A j \in DOMAIN y.text : y.sound[i].utt < y.text[j]
    BY <1>1, <1>2, <1>3, <1>4 DEF Speech, Line, Lined
  <2>2. ASSUME NEW d \in D
        PROVE  /\ d.utt < n + 1 /\ y.stopped <= d.utt
               /\ \A j \in DOMAIN y.text : d.utt < y.text[j]
    <3>1. /\ d.utt \in Nat /\ d.utt < n /\ x.stopped <= d.utt
          /\ \A j \in DOMAIN x.text : d.utt < x.text[j]
      BY <1>4 DEF Speech, Line, Lined
    <3> QED BY <1>1, <1>2, <1>3, <3>1
  <2>3. ASSUME NEW i \in DOMAIN y.text
        PROVE  /\ y.text[i] < n + 1 /\ y.stopped <= y.text[i]
               /\ \A j \in DOMAIN y.text : i < j => y.text[i] < y.text[j]
    BY <1>1, <1>2, <1>3, <1>4 DEF Speech, Line, Lined
  <2>4. y.stopped < n + 1
    BY <1>1, <1>4
  <2> QED BY <2>1, <2>2, <2>3, <2>4 DEF Lined
<1>6. ASSUME NEW m \in Nat, Ahead(m, x, D, n)
      PROVE  Ahead(m, y, D, n + 1)
  BY <1>1, <1>2, <1>3, <1>6 DEF Ahead
<1>7. Line(h, p, y, D, n + 1)
  BY <1>5, <1>6 DEF Speech, Line, Player, Heard
<1>8. ASSUME Careful
      PROVE  Parts(h, p, y, D, n + 1)
  <2>1. Parts(h, p, x, D, n) /\ Latest(h, p, y) = Latest(h, p, x)
    BY <1>1, <1>8 DEF Speech, Latest
  <2> QED BY <1>1, <1>2, <1>3, <2>1, LatestType DEF Parts
<1> QED BY <1>7, <1>8 DEF Speech, y

(* The oldest text leaves; the engine may begin with it if it is idle.     *)
LEMMA SpeechPop ==
  ASSUME NEW h \in Heard, NEW p \in Player, NEW x \in App, NEW D \in SUBSET Job,
         NEW n \in Nat, Speech(h, p, x, D, n), x.text # <<>>, NEW u \in Uid
  PROVE  /\ Speech(h, p, PopSpeakData(x), D, n)
         /\ Speech(h, p, PopSpeakData(x),
                   {[uid |-> u, utt |-> Head(x.text), sent |-> "NONE"]}, n)
<1> DEFINE y == PopSpeakData(x)
           first == Head(x.text)
           b == [uid |-> u, utt |-> first, sent |-> "NONE"]
<1> USE QueueElements
<1>1. y.text = Tail(x.text) /\ y.sound = x.sound /\ y.stopped = x.stopped
  BY DEF PopSpeakData, App
<1>2. /\ first = x.text[1] /\ 1 \in DOMAIN x.text
      /\ DOMAIN y.text = 1 .. Len(x.text) - 1
      /\ \A i \in 1 .. Len(x.text) - 1 : y.text[i] = x.text[i + 1]
  BY <1>1, AppFields, HeadTailProperties, LenProperties, EmptySeq
<1>3. \A i \in DOMAIN y.text : i + 1 \in DOMAIN x.text /\ y.text[i] = x.text[i + 1]
  BY <1>2
<1>4. /\ first \in Nat /\ \A i \in DOMAIN x.text : first <= x.text[i]
      /\ \A i \in DOMAIN y.text : first < y.text[i]
  <2>1. \A i \in DOMAIN x.text : i = 1 \/ first < x.text[i]
    BY <1>2 DEF Speech, Line, Lined
  <2>2. \A i \in DOMAIN y.text : i + 1 # 1
    BY <1>2
  <2> QED BY <1>2, <1>3, <2>1, <2>2
<1>5. /\ \A d \in D : d.utt \in Nat
      /\ b.utt = first /\ b.sent = "NONE"
  BY DEF Job
<1> HIDE DEF y, first, b
<1>6. ASSUME NEW E, E = D \/ E = {b}
      PROVE  Line(h, p, y, E, n)
  <2>1. ASSUME NEW i \in DOMAIN y.sound
        PROVE  /\ y.sound[i].utt < n
               /\ \A j \in DOMAIN y.sound : i <= j => y.sound[i].utt <= y.sound[j].utt
               /\ \A d \in E : y.sound[i].utt <= d.utt
               /\ \A j \in DOMAIN y.text : y.sound[i].utt < y.text[j]
    BY <1>1, <1>2, <1>3, <1>4, <1>5, <1>6 DEF Speech, Line, Lined
  <2>2. ASSUME NEW d \in E
        PROVE  /\ d.utt < n /\ y.stopped <= d.utt
               /\ \A j \in DOMAIN y.text : d.utt < y.text[j]
    BY <1>1, <1>2, <1>3, <1>4, <1>5, <1>6 DEF Speech, Line, Lined
  <2>3. ASSUME NEW i \in DOMAIN y.text
        PROVE  /\ y.text[i] < n /\ y.stopped <= y.text[i]
               /\ \A j \in DOMAIN y.text : i < j => y.text[i] < y.text[j]
    BY <1>1, <1>2, <1>3 DEF Speech, Line, Lined
  <2>4. y.stopped < n
    BY <1>1 DEF Speech, Line, Lined
  <2>5. Lined(y, E, n)
    BY <2>1, <2>2, <2>3, <2>4 DEF Lined
  <2>6. ASSUME NEW m \in Nat, Ahead(m, x, D, n)
        PROVE  Ahead(m, y, E, n)
    BY <1>1, <1>2, <1>3, <1>5, <1>6, <2>6 DEF Ahead
  <2> QED BY <2>5, <2>6 DEF Speech, Line, Player, Heard
<1>7. ASSUME Careful
      PROVE  Parts(h, p, y, D, n) /\ Parts(h, p, y, {b}, n)
  <2>1. Parts(h, p, x, D, n) /\ Latest(h, p, y) = Latest(h, p, x)
    BY <1>1, <1>7 DEF Speech, Latest
  <2>2. Latest(h, p, y).utt < first
    BY <1>2, <2>1 DEF Parts
  <2> QED BY <1>1, <1>3, <1>5, <2>1, <2>2 DEF Parts
<1> QED BY <1>6, <1>7 DEF Speech, y, b, first

(* The engine gives the sound of what it works on.                         *)
LEMMA SpeechSound ==
  ASSUME NEW h \in Heard, NEW p \in Player, NEW x \in App, IsClient(x),
         NEW b \in Job, NEW n \in Nat, Speech(h, p, x, {b}, n),
         NEW event \in SoundEvent,
         Careful => event # IF b.sent = "NONE" THEN "CONTINUE" ELSE "START",
         NEW E, \A e \in E : e.utt = b.utt /\ e.sent = event /\ event # "FINISH",
         "NONE" \notin SoundEvent
  PROVE  Speech(h, p, AddSoundData(x, [utt |-> b.utt, event |-> event]), E, n)
<1> DEFINE d == b.utt
           s == [utt |-> d, event |-> event]
           y == AddSoundData(x, s)
           last == Len(x.sound) + 1
<1> USE QueueElements
<1>1. s \in Sound /\ s.utt = d /\ s.event = event /\ d \in Nat
  BY DEF Sound, Job
<1>2. y.sound = Append(x.sound, s) /\ y.text = x.text /\ y.stopped = x.stopped
  BY DEF AddSoundData, App
<1> HIDE DEF y, s
<1>3. /\ DOMAIN y.sound = 1 .. last /\ Len(y.sound) = last /\ y.sound # <<>>
      /\ y.sound[last] = s
      /\ \A i \in 1 .. Len(x.sound) : y.sound[i] = x.sound[i]
  <2> DEFINE q == x.sound
             t == y.sound
  <2>1. q \in Seq(Sound) /\ t = Append(q, s)
    BY <1>2, AppFields
  <2> HIDE DEF q, t
  <2>2. /\ t \in Seq(Sound) /\ t # <<>> /\ Len(t) = Len(q) + 1
        /\ t[Len(q) + 1] = s /\ \A i \in 1 .. Len(q) : t[i] = q[i]
    BY <1>1, <2>1, AppendProperties
  <2>3. DOMAIN t = 1 .. Len(t)
    BY <2>2, LenProperties
  <2> QED BY <2>2, <2>3 DEF q, t
<1>4. \A i \in DOMAIN y.sound : i \in DOMAIN x.sound \/ i = last
  BY <1>3
<1>5. /\ d < n /\ x.stopped <= d
      /\ \A j \in DOMAIN x.text : d < x.text[j]
      /\ \A i \in DOMAIN x.sound : x.sound[i].utt <= d
  BY DEF Speech, Line, Lined
<1> HIDE DEF d
<1>6. ASSUME NEW i \in DOMAIN y.sound
      PROVE  /\ y.sound[i].utt < n
             /\ \A j \in DOMAIN y.sound : i <= j => y.sound[i].utt <= y.sound[j].utt
             /\ y.sound[i].utt <= d
             /\ \A j \in DOMAIN y.text : y.sound[i].utt < y.text[j]
  <2>1. CASE i = last
    <3>1. \A j \in DOMAIN y.sound : i <= j => j = last
      BY <1>3, <2>1
    <3> QED BY <1>1, <1>2, <1>3, <1>5, <2>1, <3>1
  <2>2. CASE i \in DOMAIN x.sound
    <3>1. y.sound[i] = x.sound[i] /\ x.sound[i].utt <= d /\ x.sound[i].utt < n
      BY <1>3, <1>5, <2>2 DEF Speech, Line, Lined
    <3>2. ASSUME NEW j \in DOMAIN y.sound, i <= j
          PROVE  y.sound[i].utt <= y.sound[j].utt
      <4>1. CASE j = last
        BY <1>1, <1>3, <3>1, <4>1
      <4>2. CASE j \in DOMAIN x.sound
        <5>1. y.sound[j] = x.sound[j]
          BY <1>3, <4>2
        <5> QED BY <2>2, <3>1, <3>2, <4>2, <5>1 DEF Speech, Line, Lined
      <4> QED BY <1>4, <4>1, <4>2
    <3>3. \A j \in DOMAIN y.text : y.sound[i].utt < y.text[j]
      BY <1>2, <2>2, <3>1 DEF Speech, Line, Lined
    <3> QED BY <3>1, <3>2, <3>3
  <2> QED BY <1>4, <2>1, <2>2
<1>7. Lined(y, E, n)
  <2>1. /\ \A e \in E : /\ e.utt = d /\ e.utt < n /\ y.stopped <= e.utt
                        /\ \A j \in DOMAIN y.text : e.utt < y.text[j]
        /\ y.stopped < n
    BY <1>2, <1>5 DEF Speech, Line, Lined, d
  <2>2. \A i \in DOMAIN y.text :
          /\ y.text[i] < n /\ y.stopped <= y.text[i]
          /\ \A j \in DOMAIN y.text : i < j => y.text[i] < y.text[j]
    BY <1>2 DEF Speech, Line, Lined
  <2> QED BY <1>6, <2>1, <2>2 DEF Lined
<1>8. ASSUME NEW m \in Nat, Ahead(m, x, {b}, n)
      PROVE  Ahead(m, y, E, n)
  <2>1. m <= d /\ \A e \in E : e.utt = d
    BY <1>8 DEF Ahead, d
  <2>2. \A i \in DOMAIN y.sound : m <= y.sound[i].utt
    BY <1>1, <1>3, <1>4, <1>8, <2>1 DEF Ahead
  <2> QED BY <1>2, <1>8, <2>1, <2>2 DEF Ahead
<1>9. Line(h, p, y, E, n)
  BY <1>7, <1>8 DEF Speech, Line, Player, Heard
<1>10. ASSUME Careful
       PROVE  Parts(h, p, y, E, n)
  <2>1. Parts(h, p, x, {b}, n)
    BY <1>10 DEF Speech
  <2>2. Succeeds(Latest(h, p, x), s)
    <3>1. IF b.sent = "NONE"
            THEN Latest(h, p, x).utt < d
            ELSE Latest(h, p, x).utt = d /\ Latest(h, p, x).event # "FINISH"
      BY <2>1 DEF Parts, d
    <3> QED BY <1>1, <1>10, <3>1 DEF Succeeds
  <2>3. ASSUME NEW i \in DOMAIN y.sound
        PROVE  Succeeds(IF i = 1 THEN Begun(h, p) ELSE y.sound[i - 1], y.sound[i])
    <3>1. CASE i \in DOMAIN x.sound
      <4>1. /\ i \in 1 .. Len(x.sound) /\ Len(x.sound) \in Nat
            /\ i # 1 => i - 1 \in 1 .. Len(x.sound)
        BY <3>1
      <4>2. y.sound[i] = x.sound[i] /\ (i # 1 => y.sound[i - 1] = x.sound[i - 1])
        BY <1>3, <4>1
      <4> QED BY <2>1, <3>1, <4>2 DEF Parts
    <3>2. CASE i = last
      <4>1. CASE x.sound = <<>>
        <5>1. last = 1
          BY <4>1
        <5> QED BY <1>3, <2>2, <3>2, <4>1, <5>1 DEF Latest
      <4>2. CASE x.sound # <<>>
        <5>1. last # 1 /\ last - 1 = Len(x.sound) /\ last - 1 \in 1 .. Len(x.sound)
          BY <4>2, AppFields, EmptySeq
        <5> QED BY <1>3, <2>2, <3>2, <4>2, <5>1 DEF Latest
      <4> QED BY <4>1, <4>2
    <3> QED BY <1>4, <3>1, <3>2
  <2>4. Latest(h, p, y) = s
    BY <1>3 DEF Latest
  <2>5. \A e \in E : e.sent # "NONE" /\ e.utt = s.utt /\ s.event # "FINISH"
    BY <1>1 DEF d
  <2> QED BY <1>1, <1>2, <1>5, <2>1, <2>3, <2>4, <2>5 DEF Parts
<1> QED BY <1>9, <1>10 DEF Speech, y, s, d

(* What is remembered of a stream that is over, or that is not there.      *)
LEMMA PastIsBegun ==
  ASSUME NEW h \in Heard, NEW p \in Player, Announced(h, p),
         p.phase = "none" \/ (p.phase = "ended" /\ h.started <= p.utt)
  PROVE  Past(h, p).utt = Begun(h, p).utt /\ Past(h, p).event = Begun(h, p).event
BY DEF Announced, Past, Begun, Heard, Player

(* The oldest sound leaves: it is played now, or lost.                     *)
LEMMA SpeechStart ==
  ASSUME NEW h \in Heard, NEW p \in Player, NEW x \in App, NEW D \in SUBSET Job,
         NEW n \in Nat, Speech(h, p, x, D, n), x.sound # <<>>,
         NEW q \in Player,
         \/ /\ q.phase = "starting" /\ q.utt = Head(x.sound).utt
            /\ q.soundEvent = Head(x.sound).event /\ q.event = p.event
            /\ Careful => p.phase \in {"none", "ended"}
         \/ /\ q.phase = "none" \/ SameStream(p, q)
            /\ ~Careful
  PROVE  Speech(h, q, PopSoundData(x), D, n)
<1> DEFINE y == PopSoundData(x)
           first == Head(x.sound)
<1> USE QueueElements
<1>1. y.sound = Tail(x.sound) /\ y.text = x.text /\ y.stopped = x.stopped
  BY DEF PopSoundData, App
<1>2. /\ first = x.sound[1] /\ 1 \in DOMAIN x.sound
      /\ DOMAIN y.sound = 1 .. Len(x.sound) - 1 /\ Len(y.sound) = Len(x.sound) - 1
      /\ \A i \in 1 .. Len(x.sound) - 1 : y.sound[i] = x.sound[i + 1]
  BY <1>1, AppFields, HeadTailProperties, LenProperties, EmptySeq
<1>3. \A i \in DOMAIN y.sound : i + 1 \in DOMAIN x.sound /\ y.sound[i] = x.sound[i + 1]
  BY <1>2
<1>4. first.utt \in Nat /\ h.started <= first.utt
  BY <1>2 DEF Speech, Line, Ahead
<1> HIDE DEF y, first
<1>5. Lined(y, D, n)
  BY <1>1, <1>3 DEF Speech, Line, Lined
<1>6. ASSUME NEW m \in Nat, Ahead(m, x, D, n)
      PROVE  Ahead(m, y, D, n)
  BY <1>1, <1>3, <1>6 DEF Ahead
<1>7. Ahead(first.utt, y, D, n)
  <2>1. \A i \in DOMAIN x.text : first.utt <= x.text[i]
    BY <1>2, <1>4 DEF Speech, Line, Lined
  <2> QED BY <1>1, <1>2, <1>3, <1>4, <2>1 DEF Speech, Line, Lined, Ahead
<1>8. Line(h, q, y, D, n)
  BY <1>4, <1>5, <1>6, <1>7 DEF Speech, Line, SameStream, Player, Heard, first
<1>9. ASSUME Careful
      PROVE  Parts(h, q, y, D, n)
  <2>1. /\ Parts(h, p, x, D, n) /\ p.phase \in {"none", "ended"}
        /\ q.phase = "starting" /\ q.event = p.event
        /\ Begun(h, q) = [utt |-> first.utt, event |-> first.event]
        /\ Past(h, q) = Past(h, p)
        /\ p.phase # "none" => h.started <= p.utt
    BY <1>9 DEF Speech, Line, Begun, Past, first
  <2>2. Succeeds(Past(h, q), Begun(h, q))
    <3>1. Succeeds(Begun(h, p), first)
      BY <1>2, <2>1 DEF Parts
    <3>2. Past(h, p).utt = Begun(h, p).utt /\ Past(h, p).event = Begun(h, p).event
      BY <2>1, PastIsBegun DEF Parts
    <3> QED BY <2>1, <3>1, <3>2 DEF Succeeds
  <2>3. Announced(h, q)
    BY <2>1, <2>2 DEF Parts, Announced
  <2>4. ASSUME NEW i \in DOMAIN y.sound
        PROVE  Succeeds(IF i = 1 THEN Begun(h, q) ELSE y.sound[i - 1], y.sound[i])
    <3>1. /\ i + 1 \in DOMAIN x.sound /\ y.sound[i] = x.sound[i + 1]
          /\ i \in 1 .. Len(x.sound) - 1 /\ Len(x.sound) \in Nat /\ i + 1 # 1
      BY <1>2, <1>3
    <3>2. Succeeds(x.sound[(i + 1) - 1], y.sound[i])
      BY <2>1, <3>1 DEF Parts
    <3>3. (i + 1) - 1 = i
      BY <3>1
    <3>4. ASSUME i # 1
          PROVE  y.sound[i - 1] = x.sound[i]
      <4>1. i - 1 \in 1 .. Len(x.sound) - 1
        BY <3>1, <3>4
      <4>2. (i - 1) + 1 = i
        BY <3>1
      <4> QED BY <1>2, <4>1, <4>2
    <3>5. i = 1 => /\ x.sound[i].utt = Begun(h, q).utt
                   /\ x.sound[i].event = Begun(h, q).event
      BY <1>2, <2>1
    <3> QED BY <3>2, <3>3, <3>4, <3>5 DEF Succeeds
  <2>5. /\ Latest(h, q, y).utt = Latest(h, p, x).utt
        /\ Latest(h, q, y).event = Latest(h, p, x).event
    <3>1. CASE y.sound = <<>>
      <4>1. Len(x.sound) = 1
        BY <1>2, <3>1, AppFields, EmptySeq
      <4> QED BY <1>2, <2>1, <3>1, <4>1 DEF Latest
    <3>2. CASE y.sound # <<>>
      <4>1. y.sound \in Seq(Sound)
        BY PopSoundDataType, AppFields DEF y
      <4>2. Len(y.sound) \in 1 .. Len(x.sound) - 1 /\ Len(y.sound) + 1 = Len(x.sound)
        BY <1>2, <3>2, <4>1, EmptySeq, LenProperties
      <4>3. y.sound[Len(y.sound)] = x.sound[Len(x.sound)]
        BY <1>2, <4>2
      <4> QED BY <3>2, <4>3 DEF Latest
    <3> QED BY <3>1, <3>2
  <2> QED BY <1>1, <2>1, <2>3, <2>4, <2>5 DEF Parts
<1> QED BY <1>8, <1>9 DEF Speech, y

(* A stream that is over is put away, or one is lost.                      *)
LEMMA SpeechQuiet ==
  ASSUME NEW h \in Heard, NEW p \in Player, NEW x \in App, NEW D \in SUBSET Job,
         NEW n \in Nat, Speech(h, p, x, D, n), NEW q, q.phase = "none",
         Careful => p.phase = "ended" /\ q.event = p.event
  PROVE  Speech(h, q, x, D, n)
<1>1. Line(h, q, x, D, n)
  BY DEF Speech, Line
<1>2. ASSUME Careful
      PROVE  Parts(h, q, x, D, n)
  <2>1. /\ Parts(h, p, x, D, n) /\ p.phase = "ended" /\ h.started <= p.utt
        /\ Begun(h, q) = Past(h, p)
    BY <1>2 DEF Speech, Line, Begun, Past
  <2>2. Begun(h, q).utt = Begun(h, p).utt /\ Begun(h, q).event = Begun(h, p).event
    BY <2>1, PastIsBegun DEF Parts
  <2>3. Announced(h, q)
    BY <1>2, <2>1 DEF Parts, Announced
  <2>4. /\ Latest(h, q, x).utt = Latest(h, p, x).utt
        /\ Latest(h, q, x).event = Latest(h, p, x).event
    BY <2>2 DEF Latest
  <2>5. \A i \in DOMAIN x.sound :
          Succeeds(IF i = 1 THEN Begun(h, q) ELSE x.sound[i - 1], x.sound[i])
    BY <2>1, <2>2 DEF Parts, Succeeds
  <2> QED BY <2>1, <2>3, <2>4, <2>5 DEF Parts
<1> QED BY <1>1, <1>2 DEF Speech

(* A stream ends, and with it perhaps an utterance.                        *)
LEMMA SpeechEnd ==
  ASSUME NEW h \in Heard, NEW p \in Player, NEW x \in App, NEW D \in SUBSET Job,
         NEW n \in Nat, Speech(h, p, x, D, n), p.phase # "none",
         NEW q, q.phase = "ended", q.utt = p.utt,
         NEW g \in Heard, g.started = h.started,
         Careful => /\ p.phase = "running" /\ q.event = p.event
                    /\ g.done = IF p.event = "FINISH" THEN p.utt ELSE h.done
  PROVE  Speech(g, q, x, D, n)
<1>1. Line(g, q, x, D, n)
  BY DEF Speech, Line
<1>2. ASSUME Careful
      PROVE  Parts(g, q, x, D, n)
  <2>1. Parts(h, p, x, D, n) /\ p.utt < n
    BY <1>2 DEF Speech, Line, Ahead
  <2>2. Announced(g, q)
    BY <1>2, <2>1 DEF Parts, Announced
  <2>3. Begun(g, q) = Begun(h, p) /\ g.done < n
    BY <1>2, <2>1 DEF Parts, Begun
  <2> QED BY <2>1, <2>2, <2>3 DEF Parts, Latest
<1> QED BY <1>1, <1>2 DEF Speech

(* A stream begins, and with it perhaps an utterance.                      *)
LEMMA SpeechBegin ==
  ASSUME NEW h \in Heard, NEW p \in Player, NEW x \in App, NEW D \in SUBSET Job,
         NEW n \in Nat, Speech(h, p, x, D, n), p.phase = "starting",
         NEW q, q.phase = "running", q.utt = p.utt, q.event = p.soundEvent,
         NEW g, g.started = IF AnnouncesStart(p) THEN p.utt ELSE h.started,
         g.done = h.done
  PROVE  /\ Speech(g, q, x, D, n)
         /\ g.started # h.started => g.started > h.started
<1>1. /\ p.utt \in Nat /\ h.started <= p.utt
      /\ Ahead(p.utt, x, D, n) /\ Ahead(h.started, x, D, n)
      /\ h.started \in Nat /\ h.done \in Nat
  BY DEF Speech, Line, Player, Heard
<1>2. Line(g, q, x, D, n)
  BY <1>1 DEF Speech, Line
<1>3. ASSUME Careful
      PROVE  Parts(g, q, x, D, n)
  <2>1. Parts(h, p, x, D, n) /\ Begun(g, q) = Begun(h, p)
    BY <1>3 DEF Speech, Begun
  <2>2. Announced(h, p) /\ Succeeds(Past(h, p), Begun(h, p))
    BY <2>1 DEF Parts, Announced
  <2>3. /\ p.soundEvent = "START" => h.done < p.utt
        /\ p.soundEvent = "CONTINUE" => p.utt = h.started /\ h.done < h.started
        /\ p.soundEvent = "FINISH" /\ p.event # "FINISH" =>
             /\ h.done < h.started
             /\ p.utt = h.started \/ h.started < p.utt
    BY <1>1, <2>2 DEF Announced, Succeeds, Past, Begun
  <2>4. p.soundEvent \in {"START", "CONTINUE", "FINISH"}
    BY DEF Player, SoundEvent
  <2>5. Announced(g, q)
    BY <2>3, <2>4 DEF Announced, AnnouncesStart
  <2> QED BY <2>1, <2>5 DEF Parts, Latest
<1> QED BY <1>1, <1>2, <1>3 DEF Speech

-------------------------------------------------------------------------------
(* The invariant is kept by each kind of step.                             *)

(* What the invariant speaks of has its types.                             *)
LEMMA SpeechTypes ==
  ASSUME TypeOK, NEW u \in Uid
  PROVE  /\ app[u] \in App /\ player[u] \in Player
         /\ heard[u] \in Heard
         /\ uttNext[u] \in Nat /\ uttNext[u] # 0
         /\ Doing(u) \in SUBSET Job
<1>1. job.uid = u => job \in Job
  BY NoUidAssumption DEF TypeOK, NoJob
<1> QED BY <1>1 DEF TypeOK, Doing

(* Nothing of v moves, and the engine does no more for it than before.     *)
SpeechKept(v) ==
  /\ app'[v].text = app[v].text /\ app'[v].sound = app[v].sound
  /\ app'[v].stopped = app[v].stopped
  /\ SameStream(player[v], player'[v])
  /\ heard'[v] = heard[v]
  /\ uttNext[v] <= uttNext'[v]
  /\ Fewer(Doing(v)', Doing(v))

(* A client of which nothing moves keeps its line.                         *)
LEMMA KeptSpeech ==
  ASSUME TypeOK, TypeOK', SpeechInv, NEW v \in Uid, SpeechKept(v)
  PROVE  SpeechOf(v)'
<1>1. /\ app[v] \in App /\ player[v] \in Player /\ heard[v] \in Heard
      /\ uttNext[v] \in Nat /\ uttNext'[v] \in Nat /\ Doing(v) \in SUBSET Job
  BY SpeechTypes DEF TypeOK
<1>2. Speech(heard[v], player[v], app[v], Doing(v), uttNext[v])
  BY DEF SpeechInv, SpeechOf
<1>3. Speech(heard[v], player'[v], app'[v], Doing(v)', uttNext'[v])
  BY <1>1, <1>2, SpeechSame DEF SpeechKept
<1> QED BY <1>3 DEF SpeechKept, SpeechOf

(* Nothing of a client moves whose data and player stay.                   *)
LEMMA SameApp ==
  ASSUME NEW v \in Uid, app'[v] = app[v], player'[v] = player[v],
         heard'[v] = heard[v], uttNext'[v] = uttNext[v],
         TypeOK, Fewer(Doing(v)', Doing(v))
  PROVE  SpeechKept(v)
BY DEF SpeechKept, SameStream, TypeOK

(* What becomes of the engine's synthesis.                                 *)
LEMMA SameJob ==
  ASSUME job' = job \/ job' = NoJob
  PROVE  \A v \in Uid : Fewer(Doing(v)', Doing(v))
BY NoUidAssumption DEF Doing, Fewer, NoJob

(* The synthesis of a text is the only one.                                *)
LEMMA NewJob ==
  ASSUME NEW u \in Uid, NEW n, BeginSynthesis(u, n)
  PROVE  /\ Doing(u)' = {[uid |-> u, utt |-> n, sent |-> "NONE"]}
         /\ \A v \in Uid \ {u} : Doing(v)' = {} /\ Fewer(Doing(v)', Doing(v))
BY DEF BeginSynthesis, Doing, Fewer

(* The engine works on nothing of a client that does not play.             *)
LEMMA NoWork ==
  ASSUME SoundInv, NEW u \in Uid, ~synth \/ ~IsActive(app[u])
  PROVE  job.uid # u /\ Doing(u) = {}
BY NoUidAssumption DEF SoundInv, JobIsCurrent, Doing, NoJob

(* What takes the stream of a player away.                                 *)
LEMMA StreamGone ==
  ASSUME NEW p \in Player
  PROVE  /\ NoStream(p, Unrealized(p)) /\ NoStream(p, AllStopped(p))
         /\ NoStream(p, NoPlayer) /\ NoStream(p, NewPlayer)
BY DEF Player, NoStream, Unrealized, AllStopped, NoPlayer, NewPlayer

(* A client is stopped.                                                    *)
LEMMA StoppedSpeech ==
  ASSUME NEW h \in Heard, NEW p \in Player, NEW x \in App, NEW D,
         NEW n \in Nat, Speech(h, p, x, D, n),
         NEW q, NoStream(p, q) \/ SameStream(p, q)
  PROVE  /\ Speech(h, q, StoppedApp(x), {}, n)
         /\ Speech(h, q, SetState(ClearData(x), "READY"), {}, n)
<1> DEFINE c == ClearData(x)
           r == SetState(c, "READY")
<1>1. c \in App /\ r \in App
  BY ClearDataType, SetStateType DEF AppState
<1>2. /\ c.text = <<>> /\ c.sound = <<>>
      /\ c.stopped = IF x.text = <<>> THEN x.stopped ELSE x.text[Len(x.text)]
  BY DEF ClearData, App
<1>3. r.text = c.text /\ r.sound = c.sound /\ r.stopped = c.stopped
  BY <1>1 DEF SetState, App
<1>4. x.text # <<>> => Len(x.text) \in DOMAIN x.text
  BY AppFields, EmptySeq, QueueElements
<1>5. c.stopped < n
  BY <1>2, <1>4 DEF Speech, Line, Lined
<1>6. Speech(h, q, c, {}, n) /\ Speech(h, q, r, {}, n)
  BY <1>1, <1>2, <1>3, <1>5, SpeechCleared
<1> QED BY <1>6 DEF StoppedApp

(* A text is added: it waits, is begun at once, or is refused.             *)
LEMMA AddQueueSpeech ==
  ASSUME TypeOK, TypeOK', SoundInv, SpeechInv, NEW u \in Uid, ServerAddQueue(u)
  PROVE  SpeechInv'
<1> DEFINE h == heard[u]
           p == player[u]
           n == uttNext[u]
           x == AddSpeakData(app[u], n)
<1> USE SpeechTypes
<1>1. /\ heard' = heard /\ n + 1 \in Nat
      /\ uttNext'[u] = n + 1 /\ \A v \in Uid \ {u} : uttNext'[v] = uttNext[v]
  BY DEF ServerAddQueue, TypeOK
<1>2. /\ x \in App /\ x.text # <<>> /\ x.text \in Seq(Nat)
      /\ Speech(h, p, x, Doing(u), n + 1)
  <2>1. Speech(h, p, app[u], Doing(u), n)
    BY DEF SpeechInv, SpeechOf
  <2>2. x.text = Append(app[u].text, n)
    BY DEF AddSpeakData, App
  <2>3. Append(app[u].text, n) # <<>>
    BY AppFields, AppendProperties
  <2> QED BY <2>1, <2>2, <2>3, SpeechAdd, AddSpeakDataType, AppFields
<1>3. /\ PopSpeakData(x) \in App
      /\ Speech(h, p, PopSpeakData(x), Doing(u), n + 1)
      /\ Speech(h, p, PopSpeakData(x), {[uid |-> u, utt |-> Head(x.text), sent |-> "NONE"]}, n + 1)
  BY <1>1, <1>2, SpeechPop, PopSpeakDataType
<1> HIDE DEF x
<1>4. ASSUME NEW v \in Uid \ {u},
             Fewer(Doing(v)', Doing(v)),
             app'[v] = app[v], player'[v] = player[v]
      PROVE  SpeechOf(v)'
  BY <1>1, <1>4, SameApp, KeptSpeech
<1>5. CASE UNCHANGED <<app, player, playing, synth, job, late, told, cut>>
  <2>1. SpeechKept(u)
    BY <1>1, <1>5, SameJob DEF SpeechKept, SameStream
  <2>2. SpeechOf(u)'
    BY <2>1, KeptSpeech
  <2> QED BY <1>4, <1>5, <2>2, SameJob DEF SpeechInv
<1>6. CASE /\ app' = [app EXCEPT ![u] = x]
           /\ UNCHANGED <<player, playing, synth, job, late, told, cut>>
  <2>1. /\ app'[u] = x /\ \A v \in Uid \ {u} : app'[v] = app[v]
        /\ player' = player /\ Doing(u)' = Doing(u)
    BY <1>6 DEF TypeOK, Doing
  <2>2. SpeechOf(u)'
    BY <1>1, <1>2, <2>1 DEF SpeechOf
  <2> QED BY <1>4, <1>6, <2>1, <2>2, SameJob DEF SpeechInv
<1>7. CASE /\ app' = [app EXCEPT ![u] = PopSpeakData(x)]
           /\ BeginSynthesis(u, Head(x.text)) /\ player' = player
  <2>1. /\ app'[u] = PopSpeakData(x) /\ \A v \in Uid \ {u} : app'[v] = app[v]
        /\ player' = player
    BY <1>7 DEF TypeOK
  <2>2. SpeechOf(u)'
    BY <1>1, <1>3, <1>7, <2>1, NewJob DEF SpeechOf
  <2> QED BY <1>4, <1>7, <2>1, <2>2, NewJob DEF SpeechInv
<1>8. CASE ~synth /\ FailSynthesis(u, PopSpeakData(x))
  <2>1. /\ app'[u] = StoppedApp(PopSpeakData(x)) /\ \A v \in Uid \ {u} : app'[v] = app[v]
        /\ player'[u] = Unrealized(p) /\ \A v \in Uid \ {u} : player'[v] = player[v]
        /\ job' = job
    BY <1>8 DEF FailSynthesis, TypeOK
  <2>2. Doing(u)' = {}
    BY <1>8, <2>1, NoWork DEF Doing
  <2>3. Speech(h, player'[u], app'[u], {}, n + 1)
    BY <1>1, <1>3, <2>1, StoppedSpeech, StreamGone
  <2>4. SpeechOf(u)'
    BY <1>1, <2>2, <2>3 DEF SpeechOf
  <2> QED BY <1>4, <2>1, <2>4, SameJob DEF SpeechInv
<1> QED BY <1>5, <1>6, <1>7, <1>8 DEF ServerAddQueue, x

(* A state change leaves the queues alone.                                 *)
LEMMA SetStateQueues ==
  ASSUME NEW x \in App, NEW state \in AppState
  PROVE  /\ SetState(x, state) \in App
         /\ SetState(x, state).text = x.text /\ SetState(x, state).sound = x.sound
         /\ SetState(x, state).stopped = x.stopped
<1>1. SetState(x, state) \in App
  BY SetStateType
<1> QED BY <1>1 DEF SetState, App

(* ttsd_server_play takes at most the oldest text of u.                    *)
LEMMA StartPlaySpeech ==
  ASSUME TypeOK, TypeOK', SpeechInv, NEW u \in Uid,
         NEW apps \in [Uid -> App],
         \A v \in Uid \ {u} : /\ apps[v].text = app[v].text
                              /\ apps[v].sound = app[v].sound
                              /\ apps[v].stopped = app[v].stopped,
         \A v \in Uid : SameStream(player[v], player'[v]),
         StartPlay(u, SetState(app[u], "PLAYING"), apps),
         UNCHANGED <<uttNext, heard>>
  PROVE  SpeechInv'
<1> DEFINE h == heard[u]
           n == uttNext[u]
           x == SetState(app[u], "PLAYING")
<1> USE SpeechTypes
<1>1. x \in App /\ x.text = app[u].text /\ x.sound = app[u].sound /\ x.stopped = app[u].stopped
  BY SetStateQueues DEF AppState
<1>2. player'[u] \in Player
  BY DEF TypeOK
<1>3. Speech(h, player'[u], x, Doing(u), n)
  <2>1. Speech(h, player[u], app[u], Doing(u), n) /\ SameStream(player[u], player'[u])
    BY DEF SpeechInv, SpeechOf
  <2>2. Fewer(Doing(u), Doing(u)) /\ n <= n
    BY DEF Fewer, TypeOK
  <2>3. h \in Heard /\ player[u] \in Player /\ app[u] \in App /\ n \in Nat
        /\ Doing(u) \in SUBSET Job
    BY DEF TypeOK
  <2> HIDE DEF h, n, x
  <2> QED BY <1>1, <2>1, <2>2, <2>3, SpeechSame
<1>4. x.text # <<>> =>
        /\ Speech(h, player'[u], PopSpeakData(x), Doing(u), n)
        /\ Speech(h, player'[u], PopSpeakData(x), {[uid |-> u, utt |-> Head(x.text), sent |-> "NONE"]}, n)
  BY <1>1, <1>2, <1>3, SpeechPop
<1> HIDE DEF x
<1>5. ASSUME NEW v \in Uid \ {u},
             Fewer(Doing(v)', Doing(v)),
             app'[v] = apps[v]
      PROVE  SpeechOf(v)'
  BY <1>5, KeptSpeech DEF SpeechKept
<1>6. CASE app' = [apps EXCEPT ![u] = x] /\ UNCHANGED <<synth, job, late>>
  <2>1. app'[u] = x /\ \A v \in Uid \ {u} : app'[v] = apps[v]
    BY <1>6
  <2>2. SpeechOf(u)'
    BY <1>3, <1>6, <2>1 DEF SpeechOf, Doing
  <2> QED BY <1>5, <1>6, <2>1, <2>2, SameJob DEF SpeechInv
<1>7. CASE /\ app' = [apps EXCEPT ![u] = PopSpeakData(x)] /\ x.text # <<>>
           /\ BeginSynthesis(u, Head(x.text))
  <2>1. app'[u] = PopSpeakData(x) /\ \A v \in Uid \ {u} : app'[v] = apps[v]
    BY <1>7
  <2>2. SpeechOf(u)'
    BY <1>4, <1>7, <2>1, NewJob DEF SpeechOf
  <2> QED BY <1>5, <1>7, <2>1, <2>2, NewJob DEF SpeechInv
<1>8. CASE /\ app' = [apps EXCEPT ![u] = PopSpeakData(x)] /\ x.text # <<>>
           /\ UNCHANGED <<synth, job, late>>
  <2>1. app'[u] = PopSpeakData(x) /\ \A v \in Uid \ {u} : app'[v] = apps[v]
    BY <1>8
  <2>2. SpeechOf(u)'
    BY <1>4, <1>8, <2>1 DEF SpeechOf, Doing
  <2> QED BY <1>5, <1>8, <2>1, <2>2, SameJob DEF SpeechInv
<1> QED BY <1>6, <1>7, <1>8 DEF StartPlay, x

(* mm_player is paused and played on; its stream stays.                    *)
LEMMA PausedStream ==
  ASSUME NEW p \in Player
  PROVE  /\ SameStream(p, p) /\ SameStream(p, PausedPlayer(p))
         /\ SameStream(p, [p EXCEPT !.mm = "PLAYING"])
BY DEF Player, SameStream, PausedPlayer

(* A client plays, another is interrupted for it perhaps.                  *)
LEMMA PlaySpeech ==
  ASSUME TypeOK, TypeOK', SpeechInv, NEW u \in Uid,
         ServerPlay(u) \/ \E v \in Uid : ServerPlayInterrupt(u, v)
  PROVE  SpeechInv'
<1> USE SpeechTypes
<1>1. CASE ServerPlay(u)
  <2>1. \A v \in Uid : SameStream(player[v], player'[v])
    <3>1. player' = player \/ player' = [player EXCEPT ![u].mm = "PLAYING"]
      BY <1>1 DEF ServerPlay, ResumePlayer
    <3>2. ASSUME NEW v \in Uid
          PROVE  player'[v] \in {player[v], [player[v] EXCEPT !.mm = "PLAYING"]}
      BY <3>1 DEF TypeOK
    <3> QED BY <3>2, PausedStream
  <2> QED BY <1>1, <2>1, StartPlaySpeech DEF ServerPlay, TypeOK
<1>2. ASSUME NEW v \in Uid, ServerPlayInterrupt(u, v)
      PROVE  SpeechInv'
  <2> DEFINE apps == [app EXCEPT ![v] = SetState(@, "PAUSED")]
             players == [player EXCEPT ![v] = PausedPlayer(@)]
  <2>1. u # v
    BY <1>2 DEF ServerPlayInterrupt
  <2>2. \A w \in Uid : SameStream(player[w], player'[w])
    <3>1. player' = players \/ player' = [players EXCEPT ![u].mm = "PLAYING"]
      BY <1>2 DEF ServerPlayInterrupt, ResumePlayer
    <3>2. ASSUME NEW w \in Uid
          PROVE  SameStream(player[w], player'[w])
      <4>1. player[w] \in Player
        OBVIOUS
      <4>2. \/ player'[w] = player[w]
            \/ player'[w] = PausedPlayer(player[w])
            \/ player'[w] = [player[w] EXCEPT !.mm = "PLAYING"]
        BY <2>1, <3>1 DEF TypeOK
      <4> QED BY <4>1, <4>2, PausedStream
    <3> QED BY <3>2
  <2>3. /\ SetState(app[v], "PAUSED") \in App
        /\ SetState(app[v], "PAUSED").text = app[v].text
        /\ SetState(app[v], "PAUSED").sound = app[v].sound
        /\ SetState(app[v], "PAUSED").stopped = app[v].stopped
    BY SetStateQueues DEF AppState
  <2>4. /\ apps \in [Uid -> App]
        /\ \A w \in Uid : /\ apps[w].text = app[w].text
                          /\ apps[w].sound = app[w].sound
                          /\ apps[w].stopped = app[w].stopped
    BY <2>3 DEF TypeOK
  <2>5. StartPlay(u, SetState(app[u], "PLAYING"), apps) /\ UNCHANGED <<uttNext, heard>>
    BY <1>2 DEF ServerPlayInterrupt
  <2> HIDE DEF apps
  <2> QED BY <2>2, <2>4, <2>5, StartPlaySpeech
<1> QED BY <1>1, <1>2

(* A client stops or leaves: nothing of it is left.                        *)
LEMMA StopSpeech ==
  ASSUME TypeOK, TypeOK', SoundInv, SpeechInv, NEW u \in Uid,
         ServerStop(u) \/ ServerFinalize(u)
  PROVE  SpeechInv'
<1> DEFINE h == heard[u]
           n == uttNext[u]
<1> USE SpeechTypes
<1>1. /\ UNCHANGED <<heard, uttNext>>
      /\ \A v \in Uid \ {u} : app'[v] = app[v] /\ player'[v] = player[v]
  BY DEF ServerStop, ServerFinalize, TypeOK
<1>2. /\ job' = job \/ job' = NoJob
      /\ job' = NoJob \/ ~(IsActive(app[u]) /\ synth)
  BY DEF ServerStop, ServerFinalize, StopSynthesis, CancelSynthesis
<1>3. Doing(u)' = {}
  BY <1>2, NoWork, NoUidAssumption DEF Doing, NoJob
<1>4. Speech(h, player[u], app[u], Doing(u), n)
  BY DEF SpeechInv, SpeechOf
<1>5. CASE ServerStop(u)
  <2>1. app'[u] = StoppedApp(app[u]) /\ player'[u] = StoppedPlayer(u)
    BY <1>5 DEF ServerStop, TypeOK
  <2>2. NoStream(player[u], player'[u]) \/ SameStream(player[u], player'[u])
    <3>1. NoStream(player[u], Unrealized(player[u])) /\ SameStream(player[u], player[u])
      BY StreamGone DEF SameStream
    <3>2. player'[u] = Unrealized(player[u]) \/ player'[u] = player[u]
      BY <2>1 DEF StoppedPlayer
    <3> QED BY <3>1, <3>2
  <2>3. Speech(h, player'[u], app'[u], {}, n)
    BY <1>4, <2>1, <2>2, StoppedSpeech
  <2> QED BY <1>1, <1>2, <1>3, <2>3, SameJob, SameApp, KeptSpeech DEF SpeechInv, SpeechOf
<1>6. CASE ServerFinalize(u)
  <2>1. app'[u] = NoApp /\ player'[u] = NoPlayer
    BY <1>6 DEF ServerFinalize, TypeOK
  <2>2. /\ NoApp.text = <<>> /\ NoApp.sound = <<>> /\ NoApp.stopped = 0
        /\ NoStream(player[u], NoPlayer) /\ 0 < n /\ NoApp \in App
    BY NewRecords, StreamGone DEF NoApp
  <2>3. Speech(h, player'[u], app'[u], {}, n)
    BY <1>4, <2>1, <2>2, SpeechCleared
  <2> QED BY <1>1, <1>2, <1>3, <2>3, SameJob, SameApp, KeptSpeech DEF SpeechInv, SpeechOf
<1> QED BY <1>5, <1>6

(* A client registers, with nothing to say yet.                            *)
LEMMA InitializeSpeech ==
  ASSUME TypeOK, TypeOK', SoundInv, SpeechInv, NEW u \in Uid, ServerInitialize(u)
  PROVE  SpeechInv'
<1> DEFINE h == heard[u]
           n == uttNext[u]
<1> USE SpeechTypes
<1>1. /\ UNCHANGED <<heard, uttNext, job>>
      /\ \A v \in Uid \ {u} : app'[v] = app[v] /\ player'[v] = player[v]
      /\ app'[u] = NewClient
      /\ player'[u] = NewPlayer \/ player'[u] = player[u]
      /\ ~IsActive(app[u])
  BY DEF ServerInitialize, TypeOK, IsActive, IsClient
<1>2. Doing(u)' = {}
  BY <1>1, NoWork DEF Doing
<1>3. /\ NewClient \in App /\ NewClient.text = <<>> /\ NewClient.sound = <<>>
      /\ NewClient.stopped = 0 /\ NoStream(player[u], NewPlayer) /\ 0 < n
      /\ SameStream(player[u], player[u])
  BY NewRecords, StreamGone DEF NewClient, NoApp, SameStream
<1>4. Speech(h, player[u], app[u], Doing(u), n)
  BY DEF SpeechInv, SpeechOf
<1>5. Speech(h, player'[u], app'[u], {}, n)
  BY <1>1, <1>3, <1>4, SpeechCleared
<1> QED BY <1>1, <1>2, <1>5, SameJob, SameApp, KeptSpeech DEF SpeechInv, SpeechOf

(* A step that leaves queues, streams, ids and announcements as they are.  *)
LEMMA QuietSpeech ==
  ASSUME TypeOK, TypeOK', SpeechInv, job' = job \/ job' = NoJob,
         UNCHANGED <<app, player, uttNext>>,
         heard' = heard
  PROVE  SpeechInv'
BY SameJob, SameApp, KeptSpeech DEF SpeechInv

(* A client pauses; its sounds wait.                                       *)
LEMMA PauseSpeech ==
  ASSUME TypeOK, TypeOK', SpeechInv, NEW u \in Uid, ServerPause(u)
  PROVE  SpeechInv'
<1> USE SpeechTypes
<1>1. /\ UNCHANGED <<heard, uttNext, job>>
      /\ \A v \in Uid \ {u} : app'[v] = app[v] /\ player'[v] = player[v]
      /\ app'[u] = SetState(app[u], "PAUSED")
      /\ player'[u] = PausedPlayer(player[u])
  BY DEF ServerPause, TypeOK, engineVars
<1>2. /\ app'[u].text = app[u].text /\ app'[u].sound = app[u].sound
      /\ app'[u].stopped = app[u].stopped
  BY <1>1, SetStateQueues DEF AppState
<1>3. SameStream(player[u], player'[u])
  <2>1. player[u] \in Player
    OBVIOUS
  <2> QED BY <1>1, <2>1, PausedStream
<1>4. SpeechKept(u)
  BY <1>1, <1>2, <1>3, SameJob DEF SpeechKept
<1> QED BY <1>1, <1>4, SameJob, SameApp, KeptSpeech DEF SpeechInv

(* A change of the setting clears every client or none.                    *)
LEMMA SettingSpeech ==
  ASSUME TypeOK, TypeOK', SoundInv, SpeechInv, SettingRequest
  PROVE  SpeechInv'
<1> USE SpeechTypes
<1>1. CASE SettingInitialize \/ SettingFinalize
  BY <1>1, QuietSpeech
     DEF SettingInitialize, SettingFinalize, clientVars, engineVars
<1>2. CASE SetCurrentEngine
  <2>1. job' = NoJob /\ UNCHANGED <<heard, uttNext>>
    BY <1>2 DEF SetCurrentEngine
  <2>2. ASSUME NEW u \in Uid
        PROVE  SpeechOf(u)'
    <3> DEFINE h == heard[u]
               n == uttNext[u]
    <3>1. Doing(u)' = {}
      BY <2>1, NoUidAssumption DEF Doing, NoJob
    <3>2. Speech(h, player[u], app[u], Doing(u), n)
      BY DEF SpeechInv, SpeechOf
    <3>3. NoStream(player[u], player'[u]) \/ SameStream(player[u], player'[u])
      <4>1. player'[u] = AllStopped(player[u]) \/ player'[u] = player[u]
        BY <1>2 DEF SetCurrentEngine
      <4>2. NoStream(player[u], AllStopped(player[u])) /\ SameStream(player[u], player[u])
        BY StreamGone DEF SameStream
      <4> QED BY <4>1, <4>2
    <3>4. Speech(h, player'[u], app'[u], {}, n)
      <4>1. CASE IsClient(app[u])
        <5>1. app'[u] = SetState(ClearData(app[u]), "READY")
          BY <1>2, <4>1 DEF SetCurrentEngine
        <5> QED BY <3>2, <3>3, <5>1, StoppedSpeech
      <4>2. CASE ~IsClient(app[u])
        <5>1. app'[u] = app[u] /\ app[u].text = <<>> /\ app[u].sound = <<>>
          BY <1>2, <4>2, SoundInvEntry DEF SetCurrentEngine, Fresh
        <5>2. app[u].stopped < n
          BY <3>2 DEF Speech, Line, Lined
        <5> QED BY <3>2, <3>3, <5>1, <5>2, SpeechCleared
      <4> QED BY <4>1, <4>2
    <3> QED BY <2>1, <3>1, <3>4 DEF SpeechOf
  <2> QED BY <2>2 DEF SpeechInv
<1> QED BY <1>1, <1>2 DEF SettingRequest

(* ttsd_player_play gives an idle mm_player the oldest sound.              *)
LEMMA PlayerPlaySpeech ==
  ASSUME TypeOK, FocusInv, NEW u \in Uid, NEW x \in App, PlayerPlay(u, x),
         NEW h \in Heard, NEW D \in SUBSET Job, NEW n \in Nat,
         Speech(h, player[u], x, D, n)
  PROVE  /\ Speech(h, player'[u], app'[u], D, n)
         /\ \A v \in Uid \ {u} : app'[v] = app[v] /\ player'[v] = player[v]
<1> USE SpeechTypes
<1>1. CASE CanPlay(u, x)
  <2>1. /\ app'[u] = PopSoundData(x) /\ x.sound # <<>>
        /\ player'[u] = Started(player[u], Head(x.sound))
             \/ (player'[u] = player[u] /\ "player" \in Faults)
        /\ \A v \in Uid \ {u} : app'[v] = app[v] /\ player'[v] = player[v]
    BY <1>1 DEF PlayerPlay, SetAndStart, CanPlay, TypeOK
  <2>2. player[u].phase = "none"
    BY <1>1 DEF CanPlay, FocusInv, SilentUnlessPlaying
  <2>3. /\ Head(x.sound) \in Sound
        /\ Started(player[u], Head(x.sound)) \in Player
        /\ Started(player[u], Head(x.sound)).phase = "starting"
        /\ Started(player[u], Head(x.sound)).utt = Head(x.sound).utt
        /\ Started(player[u], Head(x.sound)).soundEvent = Head(x.sound).event
        /\ Started(player[u], Head(x.sound)).event = player[u].event
    BY <2>1, PopSoundDataType, StartedType DEF Started, Player
  <2>4. "player" \in Faults => ~Careful
    BY DEF Careful
  <2>5. Speech(h, player'[u], PopSoundData(x), D, n)
    BY <2>1, <2>2, <2>3, <2>4, SpeechStart DEF SameStream
  <2> QED BY <2>1, <2>5
<1>2. CASE ~CanPlay(u, x)
  BY <1>2 DEF PlayerPlay, TypeOK
<1> QED BY <1>1, <1>2

(* The synthesis timer takes the oldest text, or is refused.               *)
LEMMA NextSynthesisSpeech ==
  ASSUME TypeOK, TypeOK', FocusInv, SoundInv, SpeechInv, NEW u \in Uid,
         StartNextSynthesis(u)
  PROVE  SpeechInv'
<1> DEFINE h == heard[u]
           n == uttNext[u]
           x == app[u]
<1> USE SpeechTypes
<1>1. UNCHANGED <<heard, uttNext>> /\ x \in App
  BY DEF StartNextSynthesis
<1>2. Speech(h, player[u], x, Doing(u), n)
  BY DEF SpeechInv, SpeechOf
<1>3. x.text # <<>> =>
        /\ PopSpeakData(x) \in App /\ Head(x.text) \in Nat
        /\ Speech(h, player[u], PopSpeakData(x), Doing(u), n)
        /\ Speech(h, player[u], PopSpeakData(x), {[uid |-> u, utt |-> Head(x.text), sent |-> "NONE"]}, n)
  BY <1>2, SpeechPop, PopSpeakDataType
<1>4. ASSUME NEW v \in Uid \ {u}, app'[v] = app[v], player'[v] = player[v],
             Fewer(Doing(v)', Doing(v))
      PROVE  SpeechOf(v)'
  BY <1>1, <1>4, SameApp, KeptSpeech
<1>5. CASE UNCHANGED <<app, player, playing, synth, job, late, told, cut>>
  BY <1>1, <1>5, QuietSpeech
<1>6. CASE PlayerPlay(u, x) /\ UNCHANGED job
  <2>1. /\ Speech(h, player'[u], app'[u], Doing(u), n)
        /\ \A v \in Uid \ {u} : app'[v] = app[v] /\ player'[v] = player[v]
    BY <1>2, <1>6, PlayerPlaySpeech
  <2>2. SpeechOf(u)'
    BY <1>1, <1>6, <2>1 DEF SpeechOf, Doing
  <2> QED BY <1>4, <1>6, <2>1, <2>2, SameJob DEF SpeechInv
<1>7. CASE /\ x.text # <<>> /\ BeginSynthesis(u, Head(x.text))
           /\ PlayerPlay(u, PopSpeakData(x))
  <2>1. {[uid |-> u, utt |-> Head(x.text), sent |-> "NONE"]} \in SUBSET Job
    BY <1>3, <1>7 DEF Job, JobEvent
  <2>2. /\ Speech(h, player'[u], app'[u], {[uid |-> u, utt |-> Head(x.text), sent |-> "NONE"]}, n)
        /\ \A v \in Uid \ {u} : app'[v] = app[v] /\ player'[v] = player[v]
    BY <1>3, <1>7, <2>1, PlayerPlaySpeech
  <2>3. SpeechOf(u)'
    BY <1>1, <1>7, <2>2, NewJob DEF SpeechOf
  <2> QED BY <1>4, <1>7, <2>2, <2>3, NewJob DEF SpeechInv
<1>8. CASE ~synth /\ x.text # <<>> /\ FailSynthesis(u, PopSpeakData(x))
  <2>1. /\ app'[u] = StoppedApp(PopSpeakData(x)) /\ \A v \in Uid \ {u} : app'[v] = app[v]
        /\ player'[u] = Unrealized(player[u])
        /\ \A v \in Uid \ {u} : player'[v] = player[v]
        /\ job' = job
    BY <1>8 DEF FailSynthesis, TypeOK
  <2>2. Doing(u)' = {}
    BY <1>8, <2>1, NoWork DEF Doing
  <2>3. Speech(h, player'[u], app'[u], {}, n)
    BY <1>3, <1>8, <2>1, StoppedSpeech, StreamGone
  <2>4. SpeechOf(u)'
    BY <1>1, <2>2, <2>3 DEF SpeechOf
  <2> QED BY <1>4, <2>1, <2>4, SameJob DEF SpeechInv
<1> QED BY <1>5, <1>6, <1>7, <1>8 DEF StartNextSynthesis

(* The play timer takes the oldest sound, or fails and stops the client.   *)
LEMMA NextPlaySpeech ==
  ASSUME TypeOK, TypeOK', FocusInv, SpeechInv, NEW u \in Uid, PlayerNextPlay(u),
         Careful => Timely
  PROVE  SpeechInv'
<1> DEFINE h == heard[u]
           n == uttNext[u]
           p == player[u]
<1> USE SpeechTypes
<1>1. UNCHANGED <<heard, uttNext, job>>
  BY DEF PlayerNextPlay, clientVars, engineVars
<1>2. CASE UNCHANGED <<app, player>>
  BY <1>1, <1>2, QuietSpeech
<1>3. CASE playing = u /\ ~UNCHANGED <<app, player>>
  <2>1. Careful => p.phase = "ended"
    <3>1. IsCurrent(u) /\ nextPlays[u] > 0
      BY <1>3 DEF PlayerNextPlay, FocusInv, SilentUnlessPlaying, TimerIsHarmless
    <3> QED BY <3>1 DEF Timely
  <2>2. Speech(h, p, app[u], Doing(u), n)
    BY DEF SpeechInv, SpeechOf
  <2>3. /\ Unrealized(p).phase = "none" /\ Unrealized(p).event = p.event
        /\ Unrealized(p) \in Player
    BY PlayerFields, PlayerTypes DEF Unrealized, Player
  <2>4. /\ \A v \in Uid \ {u} : app'[v] = app[v] /\ player'[v] = player[v]
        /\ Speech(h, player'[u], app'[u], Doing(u), n)
    <3>1. CASE app[u].sound = <<>>
      <4>1. /\ player'[u] = Unrealized(p) /\ app' = app
            /\ \A v \in Uid \ {u} : player'[v] = player[v]
        BY <1>3, <3>1 DEF PlayerNextPlay, TypeOK
      <4>2. Speech(h, Unrealized(p), app[u], Doing(u), n)
        BY <2>1, <2>2, <2>3, SpeechQuiet
      <4> QED BY <4>1, <4>2
    <3>2. CASE app[u].sound # <<>>
      <4> DEFINE s == Head(app[u].sound)
                 q == Started(Unrealized(p), s)
      <4>1. /\ app'[u] = PopSoundData(app[u])
            /\ player'[u] = q \/ (player'[u] = Unrealized(p) /\ "player" \in Faults)
            /\ \A v \in Uid \ {u} : app'[v] = app[v] /\ player'[v] = player[v]
        BY <1>3, <3>2 DEF PlayerNextPlay, SetAndStart, TypeOK
      <4>2. /\ s \in Sound /\ q \in Player /\ q.phase = "starting"
            /\ q.utt = s.utt /\ q.soundEvent = s.event /\ q.event = p.event
        BY <2>3, <3>2, PopSoundDataType, StartedType DEF Started, Player
      <4>3. "player" \in Faults => ~Careful
        BY DEF Careful
      <4> HIDE DEF q
      <4>4. CASE player'[u] = q
        <5>1. Speech(h, q, PopSoundData(app[u]), Doing(u), n)
          BY <2>1, <2>2, <3>2, <4>2, SpeechStart
        <5> QED BY <4>1, <4>4, <5>1
      <4>5. CASE player'[u] = Unrealized(p) /\ ~Careful
        <5>1. Speech(h, Unrealized(p), PopSoundData(app[u]), Doing(u), n)
          BY <2>2, <2>3, <3>2, <4>5, SpeechStart
        <5> QED BY <4>1, <4>5, <5>1
      <4> QED BY <4>1, <4>3, <4>4, <4>5
    <3> QED BY <3>1, <3>2
  <2>5. SpeechOf(u)'
    BY <1>1, <2>4 DEF SpeechOf, Doing
  <2> QED BY <1>1, <2>4, <2>5, SameJob, SameApp, KeptSpeech DEF SpeechInv
<1> QED BY <1>2, <1>3 DEF PlayerNextPlay

(* The engine gives a sound, fails, or is late.                            *)
LEMMA EngineSpeech ==
  ASSUME TypeOK, TypeOK', SoundInv, SpeechInv, EngineResult
  PROVE  SpeechInv'
<1> USE SpeechTypes
<1>1. ASSUME NEW event \in SoundEvent, EngineSound(event),
             NEW u \in Uid, job.uid = u
      PROVE  SpeechInv'
  <2>1. /\ job # NoJob /\ job \in Job /\ job.utt \in Nat
        /\ IsClient(app[u]) /\ UNCHANGED <<player, heard, uttNext>>
    BY <1>1, JobFields
       DEF EngineSound, SoundInv, JobIsCurrent, IsActive, IsClient, clientVars
  <2> DEFINE h == heard[u]
             n == uttNext[u]
             s == [utt |-> job.utt, event |-> event]
  <2>2. Doing(u) = {job} /\ Speech(h, player[u], app[u], {job}, n)
    BY <1>1, <2>1 DEF SpeechInv, SpeechOf, Doing
  <2>3. \/ job' = NoJob /\ event = "FINISH"
        \/ job' = [job EXCEPT !.sent = event] /\ event # "FINISH"
    BY <1>1 DEF EngineSound
  <2>4. /\ \A e \in Doing(u)' : e.utt = job.utt /\ e.sent = event /\ event # "FINISH"
        /\ \A v \in Uid \ {u} : Doing(v)' = {}
    BY <1>1, <2>1, <2>3, NoUidAssumption DEF Doing, NoJob, Job
  <2>5. \A v \in Uid \ {u} : Fewer(Doing(v)', Doing(v))
    BY <2>4 DEF Fewer
  <2>6. CASE app' = app /\ ~Careful
    <3>1. Fewer(Doing(u)', Doing(u))
      BY <2>2, <2>4, <2>6 DEF Fewer
    <3>2. SpeechKept(u)
      BY <2>1, <2>6, <3>1 DEF SpeechKept, SameStream
    <3> QED BY <2>1, <2>5, <2>6, <3>2, SameApp, KeptSpeech DEF SpeechInv
  <2>7. CASE app' = [app EXCEPT ![u] = AddSoundData(@, s)]
    <3>1. Careful => event # IF job.sent = "NONE" THEN "CONTINUE" ELSE "START"
      BY <1>1 DEF EngineSound, Follows
    <3>2. "NONE" \notin SoundEvent
      BY DEF SoundEvent
    <3>3. Speech(h, player[u], AddSoundData(app[u], s), Doing(u)', n)
      BY <2>1, <2>2, <2>4, <3>1, <3>2, SpeechSound
    <3>4. /\ app'[u] = AddSoundData(app[u], s)
          /\ \A v \in Uid \ {u} : app'[v] = app[v]
      BY <2>7 DEF TypeOK
    <3>5. SpeechOf(u)'
      BY <2>1, <3>3, <3>4 DEF SpeechOf
    <3>6. ASSUME NEW v \in Uid \ {u}
          PROVE  SpeechOf(v)'
      BY <2>1, <2>5, <3>4, SameApp, KeptSpeech
    <3> QED BY <3>5, <3>6 DEF SpeechInv
  <2>8. Careful => "format" \notin Faults /\ IsUttidValid(app[u], job.utt)
    BY <2>1, <2>2 DEF Careful, Speech, Line, Lined, IsUttidValid
  <2> QED BY <1>1, <2>6, <2>7, <2>8 DEF EngineSound, SoundResult
<1>2. CASE EngineFail
  BY <1>2, QuietSpeech DEF EngineFail, EndResult, clientVars
<1>3. ~EngineLate
  BY DEF EngineLate, SoundInv
<1>4. ASSUME NEW event \in SoundEvent, EngineSound(event)
      PROVE  job.uid \in Uid
  BY <1>4, JobFields DEF EngineSound, SoundInv, JobIsCurrent, IsActive, IsClient
<1> QED BY <1>1, <1>2, <1>3, <1>4 DEF EngineResult

(* mm_player begins a stream, ends it, or fails.                           *)
LEMMA PlayerSpeech ==
  ASSUME TypeOK, TypeOK', SpeechInv, NEW u \in Uid, PlayerMessage(u)
  PROVE  /\ SpeechInv'
         /\ \A v \in Uid : heard'[v].started # heard[v].started
                            => heard'[v].started > heard[v].started
<1> DEFINE h == heard[u]
           n == uttNext[u]
           p == player[u]
<1> USE SpeechTypes
<1>1. /\ UNCHANGED <<app, uttNext, job>>
      /\ \A v \in Uid \ {u} : /\ player'[v] = player[v]
                              /\ heard'[v] = heard[v]
  <2>1. /\ UNCHANGED <<app, uttNext, job>>
        /\ \E q : player' = [player EXCEPT ![u] = q]
        /\ \E r : heard' = [heard EXCEPT ![u] = r]
    <3>1. heard = [heard EXCEPT ![u] = heard[u]]
      BY DEF TypeOK
    <3>2. CASE BeginOfStream(u)
      BY <3>1, <3>2 DEF BeginOfStream, engineVars
    <3>3. CASE EndOfStream(u)
      BY <3>1, <3>3 DEF EndOfStream, engineVars
    <3>4. CASE PlayerError(u)
      BY <3>1, <3>4 DEF PlayerError, engineVars, clientVars
    <3> QED BY <3>2, <3>3, <3>4 DEF PlayerMessage
  <2> QED BY <2>1 DEF TypeOK
<1>2. Doing(u)' = Doing(u)
  BY <1>1 DEF Doing
<1>3. Speech(h, p, app[u], Doing(u), n)
  BY DEF SpeechInv, SpeechOf
<1>4. CASE BeginOfStream(u)
  <2>1. /\ p.phase = "starting" /\ player'[u].phase = "running" /\ player'[u].utt = p.utt
        /\ player'[u].event = p.soundEvent
        /\ heard'[u].started = IF AnnouncesStart(p) THEN p.utt ELSE h.started
        /\ heard'[u].done = h.done
    BY <1>4 DEF BeginOfStream, TypeOK, Player, Heard
  <2>2. /\ Speech(heard'[u], player'[u], app[u], Doing(u), n)
        /\ heard'[u].started # h.started => heard'[u].started > h.started
    BY <1>3, <2>1, SpeechBegin
  <2>3. SpeechOf(u)'
    BY <1>1, <1>2, <2>2 DEF SpeechOf
  <2> QED BY <1>1, <2>2, <2>3, SameJob, SameApp, KeptSpeech DEF SpeechInv
<1>5. CASE EndOfStream(u) \/ PlayerError(u)
  <2>1. heard \in [Uid -> Heard] /\ player \in [Uid -> Player]
    BY DEF TypeOK
  <2>2. /\ player'[u].phase = "ended" /\ player'[u].utt = p.utt
        /\ p.phase # "none" /\ heard'[u].started = h.started
        /\ Careful => /\ p.phase = "running" /\ player'[u].event = p.event
                      /\ heard'[u].done = IF p.event = "FINISH" THEN p.utt ELSE h.done
    <3>1. CASE EndOfStream(u)
      BY <2>1, <3>1 DEF EndOfStream, Player, Heard
    <3>2. CASE PlayerError(u)
      BY <2>1, <3>2 DEF PlayerError, Player, Heard, clientVars, Careful
    <3> QED BY <1>5, <3>1, <3>2
  <2>3. heard'[u] \in Heard
    BY DEF TypeOK
  <2>4. Speech(heard'[u], player'[u], app[u], Doing(u), n)
    BY <1>3, <2>2, <2>3, SpeechEnd
  <2>5. SpeechOf(u)'
    BY <1>1, <1>2, <2>4 DEF SpeechOf
  <2> QED BY <1>1, <2>2, <2>5, SameJob, SameApp, KeptSpeech DEF SpeechInv
<1> QED BY <1>4, <1>5 DEF PlayerMessage

-------------------------------------------------------------------------------
(* Timers of a careful engine's clients.                                   *)

(* The users always have an engine if no change of it fails.               *)
LEMMA ServedStep ==
  ASSUME Careful, TypeOK, FocusInv, Served, Next
  PROVE  Served'
<1>1. SetCurrentEngine => loaded' = TRUE
  BY DEF SetCurrentEngine, Careful
<1> QED BY <1>1, UsersStep DEF Served

(* An engine that serves its users never refuses a text of theirs.         *)
LEMMA NeverRefused ==
  ASSUME Careful, SoundInv, Served, NEW u \in Uid, IsClient(app[u]), ~synth
  PROVE  ~EngineRefuses
<1>1. HasUsers
  BY DEF HasUsers
<1> QED BY <1>1 DEF SoundInv, JobIsCurrent, Served, EngineRefuses, EngineAccepts, Careful

(* Requests leave no timer to a busy player.                               *)
LEMMA RequestTimely ==
  ASSUME TypeOK, FocusInv, Timely, NEW u \in Uid, Request(u)
  PROVE  Timely'
<1> USE Entries DEF IsCurrent, IsClient
<1>1. AsRequest /\ (Frame \/ StopsClient(u) \/ TakesPlayer(u) \/ PausesClient(u) \/ AddsClient(u))
  BY RequestEffect
<1>2. nextPlays' = nextPlays
  BY <1>1 DEF Frame, StopsClient, TakesPlayer, PausesClient, AddsClient
<1>3. ASSUME NEW v \in Uid, nextPlays'[v] > 0
      PROVE  due' /\ nextPlays'[v] = 1 /\ player[v].phase = "ended" /\ IsActive(app[v])
  <2>1. ~due /\ due'
    BY <1>1, <1>3, DueAfterRequest
  <2>2. nextPlays[v] = 1 /\ player[v].phase = "ended"
    BY <1>2, <1>3, <2>1 DEF Timely
  <2> QED BY <1>2, <2>1, <2>2 DEF FocusInv, SilentUnlessPlaying, StreamBelongsToActiveClient
<1>4. ASSUME NEW v \in Uid, nextPlays'[v] > 0
      PROVE  \/ player'[v].phase = "ended"
             \/ player'[v].phase = "none" /\ app'[v].state # "PLAYING"
  <2>1. IsActive(app[v]) /\ player[v].phase = "ended" /\ player[v] \in Player
    BY <1>3, <1>4 DEF TypeOK
  <2>2. \/ player'[v] \in {player[v], PausedPlayer(player[v]),
                            [player[v] EXCEPT !.mm = "PLAYING"]}
        \/ player'[v].phase = "none" /\ app'[v].state # "PLAYING"
    BY <1>1, <1>4, <2>1
       DEF Frame, StopsClient, TakesPlayer, PausesClient, AddsClient, IsActive
  <2> QED BY <2>1, <2>2 DEF PausedPlayer, Player
<1> QED BY <1>2, <1>3, <1>4 DEF Timely

(* Changes of the setting stop the players and leave no timer.             *)
LEMMA SettingTimely ==
  ASSUME TypeOK, FocusInv, Timely, SettingRequest
  PROVE  Timely'
<1> USE DEF IsCurrent
<1>1. AsRequest /\ (Frame \/ StopsAll)
  BY SettingEffect
<1>2. CASE Frame
  BY <1>1, <1>2, DueAfterRequest DEF Frame, Timely
<1>3. CASE StopsAll
  BY <1>1, <1>3, DueAfterRequest DEF StopsAll, Timely
<1> QED BY <1>1, <1>2, <1>3

(* After an event: a client keeps its timer, or has none any more.         *)
LEMMA EventTimely ==
  ASSUME Timely, AsEvent, \A v \in Uid : app'[v].state = app[v].state,
         \A v \in Uid : \/ nextPlays'[v] = 0
                        \/ /\ nextPlays'[v] = nextPlays[v]
                           /\ player'[v].phase = player[v].phase
  PROVE  Timely'
<1>1. ASSUME NEW v \in Uid, nextPlays'[v] > 0
      PROVE  /\ nextPlays'[v] = 1
             /\ \/ player'[v].phase = "ended"
                \/ player'[v].phase = "none" /\ app'[v].state # "PLAYING" /\ due'
  <2>1. /\ nextPlays'[v] = nextPlays[v] /\ player'[v].phase = player[v].phase
        /\ app'[v].state = app[v].state
    BY <1>1
  <2>2. /\ nextPlays[v] = 1
        /\ \/ player[v].phase = "ended"
           \/ player[v].phase = "none" /\ ~IsCurrent(v) /\ due
    BY <1>1, <2>1 DEF Timely
  <2>3. due => due'
    BY <1>1 DEF AsEvent, OneShotPending
  <2> QED BY <2>1, <2>2, <2>3 DEF IsCurrent
<1> QED BY <1>1 DEF Timely, IsCurrent

(* Steps that start no timer and no player keep it so.                     *)
LEMMA QuietTimely ==
  ASSUME Timely, AsEvent, Frame
  PROVE  Timely'
BY EventTimely DEF Frame

(* The play timer is spent when it starts the player.                      *)
LEMMA TimerTimely ==
  ASSUME Careful, TypeOK, TypeOK', FocusInv, SoundInv, Served, Timely,
         SynthesisTimer \/ \E u \in Uid : OneShotTimer(u)
  PROVE  Timely'
<1> USE DEF IsCurrent
<1>1. AsEvent
  BY TimerEffect
<1>2. ASSUME NEW u \in Uid, StartsSound(u)
      PROVE  Timely'
  <2>1. nextPlays[u] \in Nat /\ nextPlays'[u] \in Nat
    BY DEF TypeOK
  <2>2. nextPlays[u] > 0 => nextPlays[u] = 1 /\ player[u].mm # "NULL"
    BY <1>2 DEF StartsSound, Timely, FocusInv, SilentUnlessPlaying
  <2>3. nextPlays'[u] = 0
    BY <1>2, <2>1, <2>2 DEF StartsSound
  <2> QED BY <1>1, <1>2, <2>3, EventTimely DEF StartsSound
<1>3. ASSUME NEW u \in Uid, TimerIdles(u)
      PROVE  Timely'
  <2>1. nextPlays[u] \in Nat /\ nextPlays[u] = 1 /\ nextPlays'[u] = 0
    BY <1>3 DEF TimerIdles, Timely, TypeOK
  <2> QED BY <1>1, <1>3, <2>1, EventTimely DEF TimerIdles
<1>4. CASE EndNextSynthesis \/ \E u \in Uid : SendInterruptClient(u)
  <2>1. Frame
    BY <1>4 DEF EndNextSynthesis, SendInterruptClient, Frame
  <2> QED BY <1>1, <2>1, QuietTimely
<1>5. ASSUME NEW u \in Uid, StartNextSynthesis(u)
      PROVE  Timely'
  <2> DEFINE x == app[u]
  <2>1. IsCurrent(u) /\ x \in App /\ nextPlays' = nextPlays
    BY <1>5, Entries DEF StartNextSynthesis
  <2>2. x.text # <<>> => PopSpeakData(x) \in App /\ PopSpeakData(x).state = x.state
    BY <2>1, PopSpeakDataType, AppStates
  <2>3. CASE UNCHANGED <<app, player, playing>>
    BY <1>1, <2>1, <2>3, QuietTimely DEF Frame
  <2>4. CASE PlayerPlay(u, x) \/ (x.text # <<>> /\ PlayerPlay(u, PopSpeakData(x)))
    BY <1>1, <1>2, <2>1, <2>2, <2>4, StartSoundEffect, QuietTimely
  <2>5. ~synth => ~EngineRefuses
    BY <2>1, NeverRefused DEF IsClient
  <2> QED BY <1>5, <2>3, <2>4, <2>5 DEF StartNextSynthesis
<1> QED BY <1>2, <1>3, <1>4, <1>5, PlayerNextPlayEffect DEF SynthesisTimer, OneShotTimer

(* The end of a stream is what starts the timer of the next.               *)
LEMMA PlayerTimely ==
  ASSUME Careful, TypeOK, FocusInv, Timely, NEW u \in Uid, PlayerMessage(u)
  PROVE  Timely'
<1> USE DEF IsCurrent
<1>1. AsEvent /\ app' = app
  BY DEF PlayerMessage, BeginOfStream, EndOfStream, PlayerError
<1>2. ASSUME NEW v \in Uid, nextPlays'[v] > 0, nextPlays'[v] = nextPlays[v],
             player'[v] = player[v]
      PROVE  /\ nextPlays'[v] = 1
             /\ \/ player'[v].phase = "ended"
                \/ player'[v].phase = "none" /\ ~IsCurrent(v)' /\ due'
  <2>1. /\ nextPlays[v] = 1
        /\ \/ player[v].phase = "ended"
           \/ player[v].phase = "none" /\ ~IsCurrent(v) /\ due
    BY <1>2 DEF Timely
  <2>2. due => due'
    BY <1>1, <1>2 DEF AsEvent, OneShotPending
  <2> QED BY <1>1, <1>2, <2>1, <2>2
<1>3. CASE BeginOfStream(u)
  <2>1. /\ nextPlays' = nextPlays /\ player[u].phase = "starting"
        /\ \A v \in Uid \ {u} : player'[v] = player[v]
        /\ nextPlays[u] \in Nat
    BY <1>3 DEF BeginOfStream, TypeOK
  <2>2. nextPlays[u] = 0
    BY <2>1 DEF FocusInv, SilentUnlessPlaying, TimerIsHarmless, Timely
  <2> QED BY <1>2, <2>1, <2>2 DEF Timely
<1>4. CASE EndOfStream(u)
  <2>1. /\ player[u].phase = "running" /\ player[u].mm # "NULL"
        /\ player'[u].phase = "ended"
        /\ \A v \in Uid \ {u} : player'[v] = player[v] /\ nextPlays'[v] = nextPlays[v]
        /\ nextPlays[u] \in Nat /\ nextPlays'[u] = nextPlays[u] + 1
    BY <1>4 DEF EndOfStream, FocusInv, SilentUnlessPlaying, TypeOK, Player
  <2>2. nextPlays[u] = 0
    BY <2>1 DEF Timely
  <2> QED BY <1>2, <2>1, <2>2 DEF Timely
<1>5. ~PlayerError(u)
  BY DEF PlayerError, Careful
<1> QED BY <1>3, <1>4, <1>5 DEF PlayerMessage

-------------------------------------------------------------------------------
(* The invariant and what follows for the announcements.                   *)

(* The invariant, with what it takes of the others.                        *)
SpokenInv == SpeechInv /\ (Careful => Timely /\ Served)

(* Only the BEGIN_OF_STREAM and END_OF_STREAM of mm_player announce.       *)
LEMMA OthersAnnounceNothing ==
  ASSUME Next
  PROVE  \/ heard' = heard
         \/ \E u \in Uid : PlayerMessage(u)
BY DEF Next, Request, SettingRequest, OneShotTimer, SynthesisTimer, EngineResult,
       ServerInitialize, ServerFinalize, ServerAddQueue, ServerPlayAgain, ServerPlay,
       ServerPlayInterrupt, ServerStop, ServerPause, SettingInitialize,
       SettingFinalize, SetCurrentEngine, SendInterruptClient, PlayerNextPlay,
       EndNextSynthesis, StartNextSynthesis, EngineSound, EngineFail, EngineLate,
       clientVars

(* Every step keeps the whole invariant.                                   *)
LEMMA SpeechStep ==
  ASSUME TypeOK, TypeOK', FocusInv, SoundInv, SpokenInv, [Next]_vars
  PROVE  SpokenInv'
<1> USE DEF SpokenInv
<1>1. CASE UNCHANGED vars
  <2>1. SpeechInv'
    BY <1>1, QuietSpeech DEF vars
  <2> QED BY <1>1, <2>1 DEF vars, Timely, Served, HasUsers, IsCurrent
<1>2. CASE Next
  <2>1. ASSUME NEW u \in Uid, Request(u)
        PROVE  SpeechInv'
    <3>1. CASE ServerPlayAgain(u)
      BY <3>1, QuietSpeech DEF ServerPlayAgain, engineVars
    <3> QED BY <2>1, <3>1, InitializeSpeech, StopSpeech, AddQueueSpeech,
               PlaySpeech, PauseSpeech DEF Request
  <2>2. ASSUME NEW u \in Uid, OneShotTimer(u)
        PROVE  SpeechInv'
    <3>1. CASE SendInterruptClient(u)
      BY <3>1, QuietSpeech DEF SendInterruptClient, engineVars
    <3> QED BY <2>2, <3>1, NextPlaySpeech DEF OneShotTimer
  <2>3. ASSUME SynthesisTimer
        PROVE  SpeechInv'
    <3>1. CASE EndNextSynthesis
      BY <3>1, QuietSpeech DEF EndNextSynthesis, engineVars, clientVars
    <3> QED BY <2>3, <3>1, NextSynthesisSpeech DEF SynthesisTimer
  <2>4. SpeechInv'
    BY <1>2, <2>1, <2>2, <2>3, SettingSpeech, EngineSpeech, PlayerSpeech DEF Next
  <2>5. Careful => Timely'
    BY <1>2, RequestTimely, SettingTimely, TimerTimely, PlayerTimely, EngineEffect,
       QuietTimely DEF Next
  <2>6. Careful => Served'
    BY <1>2, ServedStep
  <2> QED BY <2>4, <2>5, <2>6
<1> QED BY <1>1, <1>2

(* It holds of every state.                                                *)
LEMMA SpokenInvariant ==
  ASSUME "late" \notin Faults
  PROVE  Spec => []SpokenInv
<1>1. Init => SpokenInv
  <2> SUFFICES ASSUME Init PROVE SpokenInv
    OBVIOUS
  <2>1. ASSUME NEW u \in Uid
        PROVE  SpeechOf(u)
    <3>1. /\ app[u] = NoApp /\ player[u] = NoPlayer /\ heard[u].started = 0
          /\ heard[u].done = 0 /\ uttNext[u] = 1 /\ Doing(u) = {}
      BY NoUidAssumption DEF Init, Doing, NoJob
    <3>2. NoApp.text = <<>> /\ NoApp.sound = <<>> /\ NoApp.stopped = 0
          /\ NoPlayer.phase = "none" /\ NoPlayer.event = "FINISH" /\ DOMAIN (<<>>) = {}
      BY DEF NoApp, NoPlayer
    <3>3. Speech(heard[u], NoPlayer, NoApp, {}, 1)
      BY <3>1, <3>2 DEF Speech, Line, Lined, Ahead, Parts, Announced, Latest, Begun, Past
    <3> QED BY <3>1, <3>3 DEF SpeechOf
  <2>2. Timely /\ Served
    BY DEF Init, Timely, Served, HasUsers, IsClient, NoApp
  <2> QED BY <2>1, <2>2 DEF SpokenInv, SpeechInv
<1>2. TypeOK /\ TypeOK' /\ FocusInv /\ SoundInv /\ SpokenInv /\ [Next]_vars => SpokenInv'
  BY SpeechStep
<1> QED BY <1>1, <1>2, TypeCorrect, FocusIsSafe, SoundInvariant, PTL DEF Spec

(* A client's utterances are announced in the order of its texts, whatever *)
(* stops, interrupts, failures and engine changes come between.            *)
THEOREM UtterancesStartInOrder ==
  ASSUME "late" \notin Faults
  PROVE  Spec => StartedInOrder
<1> DEFINE Order == \A u \in Uid : heard[u].started' # heard[u].started
                                     => heard[u].started' > heard[u].started
<1>1. TypeOK /\ TypeOK' /\ SpokenInv /\ [Next]_vars => [Order]_heard
  <2> SUFFICES ASSUME TypeOK, TypeOK', SpokenInv, [Next]_vars, heard' # heard
               PROVE  Order
    OBVIOUS
  <2>1. PICK u \in Uid : PlayerMessage(u)
    BY OthersAnnounceNothing DEF vars
  <2> QED BY <2>1, PlayerSpeech DEF SpokenInv
<1> QED BY <1>1, TypeCorrect, SpokenInvariant, PTL DEF Spec, StartedInOrder

-------------------------------------------------------------------------------
(* An engine that delivers each utterance in one result, and may fail.     *)

WholeSounds(x) == \A i \in DOMAIN x.sound : x.sound[i].event = "FINISH"
WholePlayer(p, h) ==
  /\ p.event = "FINISH" /\ p.soundEvent = "FINISH"
  /\ p.phase = "running" => p.utt = h
WholeOf(u) == WholeSounds(app[u]) /\ WholePlayer(player[u], heard[u].started)

(* Every sound is the last of its utterance, so that the stream that runs  *)
(* is always the one announced last.                                       *)
WholeInv ==
  /\ job.sent = "NONE"
  /\ \A i \in DOMAIN late : late[i].sent = "NONE"
  /\ \A u \in Uid : WholeOf(u)

(* A player goes on or is silenced; sounds stay or are cleared.            *)
CalmPlayer(p, q) ==
  \/ SameStream(p, q) /\ q.event = p.event
  \/ /\ q.phase = "none" /\ q.soundEvent = "FINISH"
     /\ q.event \in {p.event, "FINISH"}
CalmSounds(x, y) == y.sound = x.sound \/ y.sound = <<>>
Calm(v) ==
  /\ CalmSounds(app[v], app'[v]) /\ CalmPlayer(player[v], player'[v])
  /\ heard'[v].started = heard[v].started

(* A client that no sound or announcement is added to keeps it.            *)
LEMMA CalmWhole ==
  ASSUME WholeInv, NEW v \in Uid, Calm(v)
  PROVE  WholeOf(v)'
<1>1. app'[v].sound = <<>> => DOMAIN app'[v].sound = {}
  OBVIOUS
<1>2. WholeOf(v)
  BY DEF WholeInv
<1> QED BY <1>1, <1>2
        DEF Calm, CalmSounds, CalmPlayer, SameStream, WholeOf, WholeSounds, WholePlayer

(* What the operators make of a player adds nothing,                       *)
LEMMA CalmPlayers ==
  ASSUME NEW p \in Player
  PROVE  /\ CalmPlayer(p, p) /\ CalmPlayer(p, Unrealized(p))
         /\ CalmPlayer(p, AllStopped(p)) /\ CalmPlayer(p, PausedPlayer(p))
         /\ CalmPlayer(p, NoPlayer) /\ CalmPlayer(p, NewPlayer)
         /\ CalmPlayer(p, [p EXCEPT !.mm = "PLAYING"])
BY DEF Player, CalmPlayer, SameStream, Unrealized, AllStopped, PausedPlayer,
       NoPlayer, NewPlayer

(* and what they make of the data of a client adds no sound.               *)
LEMMA CalmApps ==
  ASSUME NEW x \in App
  PROVE  /\ \A n \in Nat : AddSpeakData(x, n).sound = x.sound
         /\ PopSpeakData(x).sound = x.sound
         /\ \A state : SetState(x, state).sound = x.sound
         /\ ClearData(x).sound = <<>> /\ StoppedApp(x).sound = <<>>
         /\ SetState(ClearData(x), "READY").sound = <<>>
<1>1. ClearData(x).sound = <<>> /\ ClearData(x) \in App
  BY ClearDataType DEF ClearData, App
<1>2. SetState(ClearData(x), "READY").sound = <<>>
  BY <1>1 DEF SetState, App
<1>3. StoppedApp(x).sound = <<>>
  BY <1>1, <1>2 DEF StoppedApp
<1>4. /\ \A n \in Nat : AddSpeakData(x, n).sound = x.sound
      /\ PopSpeakData(x).sound = x.sound
      /\ \A state : SetState(x, state).sound = x.sound
  BY DEF AddSpeakData, PopSpeakData, SetState, App
<1> QED BY <1>1, <1>2, <1>3, <1>4

(* The engine is idle, starts or was cancelled: it has given nothing yet.  *)
LEMMA WholeEngine ==
  ASSUME TypeOK, WholeInv,
         \/ UNCHANGED <<job, late>>
         \/ CancelSynthesis
         \/ job'.sent = "NONE" /\ (late' = late \/ late' = <<>>)
  PROVE  job'.sent = "NONE" /\ \A i \in DOMAIN late' : late'[i].sent = "NONE"
<1>1. CASE CancelSynthesis /\ late' # late
  <2>1. late' = Append(late, job) /\ job \in Job /\ late \in Seq(Job) /\ job' = NoJob
    BY <1>1 DEF CancelSynthesis, TypeOK
  <2>2. /\ Len(late) \in Nat /\ DOMAIN late = 1 .. Len(late)
        /\ DOMAIN late' = 1 .. Len(late) + 1
        /\ \A i \in 1 .. Len(late) : late'[i] = late[i]
        /\ late'[Len(late) + 1] = job
    BY <2>1, AppendProperties, LenProperties
  <2>3. ASSUME NEW i \in DOMAIN late'
        PROVE  late'[i].sent = "NONE"
    <3>1. i \in 1 .. Len(late) \/ i = Len(late) + 1
      BY <2>2
    <3> QED BY <2>2, <3>1 DEF WholeInv
  <2> QED BY <2>1, <2>3 DEF NoJob
<1>2. CASE job' = NoJob /\ late' = late
  BY <1>2 DEF WholeInv, NoJob
<1>3. CASE UNCHANGED <<job, late>> \/ (job'.sent = "NONE" /\ (late' = late \/ late' = <<>>))
  <2>1. DOMAIN <<>> = {}
    OBVIOUS
  <2> QED BY <1>3, <2>1 DEF WholeInv
<1> QED BY <1>1, <1>2, <1>3 DEF CancelSynthesis

(* The requests of the clients keep it,                                    *)
LEMMA RequestWhole ==
  ASSUME TypeOK, WholeInv, NEW u \in Uid, Request(u)
  PROVE  WholeInv'
<1> USE SpeechTypes DEF CalmSounds
<1>1. heard' = heard
  BY DEF Request, ServerInitialize, ServerFinalize, ServerAddQueue, ServerPlayAgain,
         ServerPlay, ServerPlayInterrupt, ServerStop, ServerPause
<1>2. /\ job'.sent = "NONE" /\ \A i \in DOMAIN late' : late'[i].sent = "NONE"
  <2>1. \/ UNCHANGED <<job, late>>
        \/ CancelSynthesis
        \/ job'.sent = "NONE" /\ (late' = late \/ late' = <<>>)
    <3>1. CASE ServerInitialize(u) \/ ServerPlayAgain(u) \/ ServerPause(u)
      BY <3>1 DEF ServerInitialize, ServerPlayAgain, ServerPause, engineVars
    <3>2. CASE ServerStop(u) \/ ServerFinalize(u)
      <4>1. \/ StopSynthesis(u)
            \/ job' = NoJob /\ late' = <<>>
        BY <3>2 DEF ServerStop, ServerFinalize
      <4>2. StopSynthesis(u) => UNCHANGED <<job, late>> \/ CancelSynthesis
        BY DEF StopSynthesis
      <4> QED BY <4>1, <4>2 DEF NoJob
    <3>3. CASE ServerAddQueue(u)
      BY <3>3 DEF ServerAddQueue, BeginSynthesis, FailSynthesis
    <3>4. CASE ServerPlay(u) \/ \E v \in Uid : ServerPlayInterrupt(u, v)
      <4>1. \A x, apps : StartPlay(u, x, apps) =>
              late' = late /\ (job' = job \/ job'.sent = "NONE")
        BY DEF StartPlay, BeginSynthesis
      <4>2. late' = late /\ (job' = job \/ job'.sent = "NONE")
        BY <3>4, <4>1 DEF ServerPlay, ServerPlayInterrupt
      <4> QED BY <4>2
    <3> QED BY <3>1, <3>2, <3>3, <3>4 DEF Request
  <2> QED BY <2>1, WholeEngine
<1>3. ASSUME NEW v \in Uid
      PROVE  CalmSounds(app[v], app'[v]) /\ CalmPlayer(player[v], player'[v])
  <2>1. CalmSounds(app[v], app[v]) /\ CalmPlayer(player[v], player[v])
    BY CalmPlayers
  <2>2. CASE ServerInitialize(u)
    BY <2>1, <2>2, CalmPlayers DEF ServerInitialize, NewClient, NoApp, TypeOK
  <2>3. CASE ServerFinalize(u)
    BY <2>1, <2>3, CalmPlayers DEF ServerFinalize, NoApp, TypeOK
  <2>4. CASE ServerStop(u)
    BY <2>1, <2>4, CalmPlayers, CalmApps DEF ServerStop, StoppedPlayer, TypeOK
  <2>5. CASE ServerPause(u)
    <3>1. app'[v] = app[v] \/ app'[v] = SetState(app[v], "PAUSED")
      BY <2>5 DEF ServerPause, TypeOK
    <3>2. player'[v] = player[v] \/ player'[v] = PausedPlayer(player[v])
      BY <2>5 DEF ServerPause, TypeOK
    <3>3. SetState(app[v], "PAUSED").sound = app[v].sound
      BY CalmApps
    <3> QED BY <2>1, <3>1, <3>2, <3>3, CalmPlayers
  <2>6. CASE ServerPlayAgain(u)
    BY <2>1, <2>6 DEF ServerPlayAgain
  <2>7. CASE ServerAddQueue(u)
    <3> DEFINE x == AddSpeakData(app[u], uttNext[u])
    <3>1. x \in App /\ x.sound = app[u].sound /\ x.text # <<>>
      <4>1. x.text = Append(app[u].text, uttNext[u])
        BY DEF AddSpeakData, App
      <4>2. app[u].text \in Seq(Nat) /\ uttNext[u] \in Nat
        BY AppFields
      <4>3. Append(app[u].text, uttNext[u]) # <<>>
        BY <4>2, AppendProperties
      <4> QED BY <4>1, <4>3, AddSpeakDataType, CalmApps
    <3>2. PopSpeakData(x) \in App /\ PopSpeakData(x).sound = app[u].sound
      BY <3>1, PopSpeakDataType, CalmApps
    <3>3. StoppedApp(PopSpeakData(x)).sound = <<>>
      BY <3>2, CalmApps
    <3>4. app'[v] = app[v] \/ (v = u /\ app'[v] \in {x, PopSpeakData(x), StoppedApp(PopSpeakData(x))})
      BY <2>7 DEF ServerAddQueue, FailSynthesis, TypeOK
    <3>5. player'[v] \in {player[v], Unrealized(player[v])}
      BY <2>7 DEF ServerAddQueue, FailSynthesis, TypeOK
    <3> QED BY <2>1, <3>1, <3>2, <3>3, <3>4, <3>5, CalmPlayers
  <2>8. CASE ServerPlay(u) \/ \E w \in Uid : ServerPlayInterrupt(u, w)
    <3> DEFINE x == SetState(app[u], "PLAYING")
    <3>1. x \in App /\ x.sound = app[u].sound /\ PopSpeakData(x).sound = app[u].sound
      BY SetStateType, CalmApps DEF AppState
    <3>2. SetState(app[v], "PAUSED").sound = app[v].sound
      BY CalmApps
    <3>3. \/ app'[v] = app[v] \/ app'[v] = SetState(app[v], "PAUSED")
          \/ v = u /\ app'[v] \in {x, PopSpeakData(x)}
      <4>1. \A apps : StartPlay(u, x, apps) =>
                        \/ app' = [apps EXCEPT ![u] = x]
                        \/ app' = [apps EXCEPT ![u] = PopSpeakData(x)]
        BY DEF StartPlay
      <4>2. CASE ServerPlay(u)
        BY <2>8, <4>1, <4>2 DEF ServerPlay, TypeOK
      <4>3. ASSUME NEW w \in Uid, ServerPlayInterrupt(u, w)
            PROVE  \/ app'[v] \in {app[v], SetState(app[v], "PAUSED")}
                   \/ v = u /\ app'[v] \in {x, PopSpeakData(x)}
        <5> DEFINE apps == [app EXCEPT ![w] = SetState(@, "PAUSED")]
        <5>1. StartPlay(u, x, apps)
          BY <4>3 DEF ServerPlayInterrupt
        <5>2. apps \in [Uid -> App] /\ apps[v] \in {app[v], SetState(app[v], "PAUSED")}
          BY SetStateType DEF AppState, TypeOK
        <5> HIDE DEF apps, x
        <5> QED BY <4>1, <5>1, <5>2
      <4> QED BY <2>8, <4>2, <4>3
    <3>4. CalmSounds(app[v], app'[v])
      BY <3>1, <3>2, <3>3
    <3>5. player'[v] \in {player[v], PausedPlayer(player[v]), [player[v] EXCEPT !.mm = "PLAYING"]}
      BY <2>8 DEF ServerPlay, ServerPlayInterrupt, ResumePlayer, TypeOK
    <3> QED BY <3>4, <3>5, CalmPlayers
  <2> QED BY <2>2, <2>3, <2>4, <2>5, <2>6, <2>7, <2>8 DEF Request
<1>4. \A v \in Uid : WholeOf(v)'
  BY <1>1, <1>3, CalmWhole DEF Calm
<1> QED BY <1>2, <1>4 DEF WholeInv

(* the changes of the setting,                                             *)
LEMMA SettingWhole ==
  ASSUME TypeOK, WholeInv, SettingRequest
  PROVE  WholeInv'
<1> USE SpeechTypes DEF CalmSounds
<1>1. /\ heard' = heard
      /\ UNCHANGED <<job, late>> \/ (job' = NoJob /\ late' = <<>>)
  BY DEF SettingRequest, SettingInitialize, SettingFinalize, SetCurrentEngine,
         engineVars, clientVars
<1>2. /\ job'.sent = "NONE" /\ \A i \in DOMAIN late' : late'[i].sent = "NONE"
  BY <1>1, WholeEngine DEF NoJob
<1>3. ASSUME NEW v \in Uid
      PROVE  CalmSounds(app[v], app'[v]) /\ CalmPlayer(player[v], player'[v])
  <2>1. \/ UNCHANGED <<app, player>>
        \/ /\ app'[v] = app[v] \/ app'[v] = SetState(ClearData(app[v]), "READY")
           /\ player'[v] = player[v] \/ player'[v] = AllStopped(player[v])
    BY DEF SettingRequest, SettingInitialize, SettingFinalize, SetCurrentEngine
  <2>2. SetState(ClearData(app[v]), "READY").sound = <<>>
    BY CalmApps
  <2> QED BY <2>1, <2>2, CalmPlayers
<1>4. \A v \in Uid : WholeOf(v)'
  BY <1>1, <1>3, CalmWhole DEF Calm
<1> QED BY <1>2, <1>4 DEF WholeInv

(* The oldest sound of a client is played, or lost.                        *)
LEMMA StartWhole ==
  ASSUME TypeOK, WholeInv, NEW u \in Uid, NEW x \in App, x.sound = app[u].sound,
         x.sound # <<>>, heard' = heard,
         NEW p \in Player, CalmPlayer(player[u], p), p.phase = "none",
         SetAndStart(u, x, p)
  PROVE  \A v \in Uid : WholeOf(v)'
<1> USE SpeechTypes
<1> DEFINE s == Head(x.sound)
<1>1. WholeSounds(x) /\ WholeOf(u)
  BY DEF WholeInv, WholeOf, WholeSounds
<1>2. /\ x.sound \in Seq(Sound) /\ s = x.sound[1] /\ 1 \in DOMAIN x.sound
      /\ DOMAIN x.sound = 1 .. Len(x.sound) /\ Len(x.sound) \in Nat
      /\ DOMAIN Tail(x.sound) = 1 .. Len(x.sound) - 1
      /\ \A i \in 1 .. Len(x.sound) - 1 : Tail(x.sound)[i] = x.sound[i + 1]
  BY AppFields, HeadTailProperties, LenProperties, EmptySeq
<1>3. PopSoundData(x).sound = Tail(x.sound)
  BY DEF PopSoundData, App
<1>4. WholeSounds(PopSoundData(x))
  <2>1. ASSUME NEW i \in 1 .. Len(x.sound) - 1
        PROVE  Tail(x.sound)[i].event = "FINISH"
    <3>1. i + 1 \in DOMAIN x.sound
      BY <1>2
    <3> QED BY <1>1, <1>2, <3>1 DEF WholeSounds
  <2> QED BY <1>2, <1>3, <2>1 DEF WholeSounds
<1>5. p.event = "FINISH" /\ p.soundEvent = "FINISH"
  BY <1>1 DEF CalmPlayer, SameStream, WholeOf, WholePlayer
<1>6. s.event = "FINISH"
  BY <1>1, <1>2 DEF WholeSounds
<1>7. WholePlayer(p, heard[u].started) /\ WholePlayer(Started(p, s), heard[u].started)
  BY <1>5, <1>6 DEF WholePlayer, Started, Player
<1>8. WholeOf(u)'
  <2>1. app'[u] = PopSoundData(x) /\ player'[u] \in {p, Started(p, s)}
    BY DEF SetAndStart, TypeOK
  <2> QED BY <1>4, <1>7, <2>1 DEF WholeOf
<1>9. ASSUME NEW v \in Uid \ {u}
      PROVE  WholeOf(v)'
  <2>1. app'[v] = app[v] /\ player'[v] = player[v]
    BY DEF SetAndStart, TypeOK
  <2> QED BY <2>1 DEF WholeInv, WholeOf
<1> QED BY <1>8, <1>9

(* the timers,                                                             *)
LEMMA TimerWhole ==
  ASSUME TypeOK, FocusInv, WholeInv,
         SynthesisTimer \/ \E u \in Uid : OneShotTimer(u)
  PROVE  WholeInv'
<1> USE SpeechTypes DEF CalmSounds
<1>1. ASSUME UNCHANGED <<app, player, heard, job, late>>
      PROVE  WholeInv'
  BY <1>1 DEF WholeInv, WholeOf
<1>2. ASSUME NEW u \in Uid, StartNextSynthesis(u)
      PROVE  WholeInv'
  <2> DEFINE x == app[u]
  <2>1. heard' = heard /\ late' = late /\ (job' = job \/ job'.sent = "NONE")
    BY <1>2 DEF StartNextSynthesis, BeginSynthesis, FailSynthesis
  <2>2. job'.sent = "NONE" /\ \A i \in DOMAIN late' : late'[i].sent = "NONE"
    BY <2>1, WholeEngine
  <2>3. x.text # <<>> => PopSpeakData(x) \in App /\ PopSpeakData(x).sound = x.sound
    BY PopSpeakDataType, CalmApps
  <2>4. CASE UNCHANGED <<app, player>>
    BY <2>1, <2>2, <2>4 DEF WholeInv, WholeOf
  <2>5. ASSUME NEW y \in App, y.sound = x.sound, PlayerPlay(u, y)
        PROVE  WholeInv'
    <3>1. CASE CanPlay(u, y)
      <4>1. /\ y.sound # <<>> /\ player[u].phase = "none"
            /\ SetAndStart(u, y, player[u]) /\ CalmPlayer(player[u], player[u])
        BY <2>5, <3>1, CalmPlayers
           DEF CanPlay, PlayerPlay, FocusInv, SilentUnlessPlaying
      <4>2. player[u] \in Player
        OBVIOUS
      <4>3. \A v \in Uid : WholeOf(v)'
        BY <2>1, <2>5, <4>1, <4>2, StartWhole
      <4> QED BY <2>2, <4>3 DEF WholeInv
    <3>2. CASE ~CanPlay(u, y)
      <4>1. \A v \in Uid : Calm(v)
        BY <2>1, <2>5, <3>2, CalmPlayers DEF PlayerPlay, Calm, TypeOK
      <4> QED BY <2>2, <4>1, CalmWhole DEF WholeInv
    <3> QED BY <3>1, <3>2
  <2>6. CASE x.text # <<>> /\ FailSynthesis(u, PopSpeakData(x))
    <3>1. StoppedApp(PopSpeakData(x)).sound = <<>>
      BY <2>3, <2>6, CalmApps
    <3>2. \A v \in Uid : Calm(v)
      BY <2>1, <2>6, <3>1, CalmPlayers DEF FailSynthesis, Calm, TypeOK
    <3> QED BY <2>2, <3>2, CalmWhole DEF WholeInv
  <2> QED BY <1>2, <2>3, <2>4, <2>5, <2>6 DEF StartNextSynthesis
<1>3. ASSUME NEW u \in Uid, PlayerNextPlay(u)
      PROVE  WholeInv'
  <2>1. UNCHANGED <<heard, job, late>>
    BY <1>3 DEF PlayerNextPlay, engineVars, clientVars
  <2>2. CASE UNCHANGED <<app, player>>
    BY <1>1, <2>1, <2>2
  <2>3. CASE app' = app /\ player' = [player EXCEPT ![u] = Unrealized(@)]
    <3>1. \A v \in Uid : Calm(v)
      BY <2>1, <2>3, CalmPlayers DEF Calm, TypeOK
    <3> QED BY <2>1, <3>1, CalmWhole DEF WholeInv
  <2>4. CASE app[u].sound # <<>> /\ SetAndStart(u, app[u], Unrealized(player[u]))
    <3>1. /\ Unrealized(player[u]) \in Player /\ Unrealized(player[u]).phase = "none"
          /\ CalmPlayer(player[u], Unrealized(player[u]))
      BY PlayerTypes, PlayerFields, CalmPlayers
    <3>2. \A v \in Uid : WholeOf(v)'
      BY <2>1, <2>4, <3>1, StartWhole
    <3> QED BY <2>1, <3>2 DEF WholeInv
  <2> QED BY <1>3, <2>2, <2>3, <2>4 DEF PlayerNextPlay
<1>4. CASE EndNextSynthesis \/ \E u \in Uid : SendInterruptClient(u)
  <2>1. UNCHANGED <<app, player, heard, job, late>>
    BY <1>4 DEF EndNextSynthesis, SendInterruptClient, engineVars, clientVars
  <2> QED BY <1>1, <2>1
<1> QED BY <1>2, <1>3, <1>4 DEF SynthesisTimer, OneShotTimer

(* the engine,                                                             *)
LEMMA EngineWhole ==
  ASSUME "multi" \notin Chunkings, TypeOK, WholeInv, EngineResult
  PROVE  WholeInv'
<1> USE SpeechTypes
<1>1. UNCHANGED <<player, heard>>
  BY DEF EngineResult, EngineSound, EngineFail, EngineLate, clientVars
<1>2. ASSUME NEW r \in Job, r.sent = "NONE", NEW event \in Follows(r),
             SoundResult(r, event)
      PROVE  event = "FINISH" /\ \A v \in Uid : WholeOf(v)'
  <2>1. event = "FINISH"
    BY <1>2 DEF Follows
  <2> DEFINE s == [utt |-> r.utt, event |-> event]
  <2>2. ASSUME NEW v \in Uid
        PROVE  WholeSounds(app'[v])
    <3>1. WholeSounds(app[v]) /\ app[v].sound \in Seq(Sound) /\ s \in Sound
      BY <1>2, <2>1, AppFields DEF WholeInv, WholeOf, Sound, Job, SoundEvent
    <3>2. CASE app'[v] = app[v]
      BY <3>1, <3>2
    <3>3. CASE app'[v] = AddSoundData(app[v], s) /\ IsClient(app[v])
      <4>1. app'[v].sound = Append(app[v].sound, s)
        BY <3>3 DEF AddSoundData, App
      <4>2. /\ Len(app[v].sound) \in Nat /\ DOMAIN app[v].sound = 1 .. Len(app[v].sound)
            /\ DOMAIN app'[v].sound = 1 .. Len(app[v].sound) + 1
            /\ \A i \in 1 .. Len(app[v].sound) : app'[v].sound[i] = app[v].sound[i]
            /\ app'[v].sound[Len(app[v].sound) + 1] = s
        BY <3>1, <4>1, AppendProperties, LenProperties
      <4>3. ASSUME NEW i \in DOMAIN app'[v].sound
            PROVE  app'[v].sound[i].event = "FINISH"
        <5>1. i \in 1 .. Len(app[v].sound) \/ i = Len(app[v].sound) + 1
          BY <4>2
        <5> QED BY <2>1, <3>1, <4>2, <5>1 DEF WholeSounds
      <4> QED BY <4>3 DEF WholeSounds
    <3>4. app'[v] = app[v] \/ app'[v] = AddSoundData(app[v], s)
      BY <1>2 DEF SoundResult, TypeOK
    <3> QED BY <3>2, <3>3, <3>4 DEF AddSoundData
  <2> QED BY <1>1, <2>1, <2>2 DEF WholeInv, WholeOf
<1>3. ASSUME NEW event \in SoundEvent, EngineSound(event)
      PROVE  WholeInv'
  <2>1. job \in Job /\ job.sent = "NONE"
    BY <1>3, JobFields DEF EngineSound, WholeInv
  <2>2. event = "FINISH" /\ \A v \in Uid : WholeOf(v)'
    BY <1>2, <1>3, <2>1 DEF EngineSound
  <2> QED BY <1>3, <2>2 DEF EngineSound, WholeInv, NoJob
<1>4. CASE EngineFail
  BY <1>1, <1>4 DEF EngineFail, EndResult, WholeInv, WholeOf, NoJob
<1>5. CASE EngineLate
  <2>1. /\ late \in Seq(Job) /\ late # <<>> /\ late' = Tail(late) /\ job' = job
    BY <1>5 DEF EngineLate, TypeOK
  <2>2. /\ Head(late) \in Job /\ Head(late) = late[1] /\ 1 \in DOMAIN late
        /\ DOMAIN late = 1 .. Len(late) /\ Len(late) \in Nat
        /\ DOMAIN late' = 1 .. Len(late) - 1
        /\ \A i \in 1 .. Len(late) - 1 : late'[i] = late[i + 1]
    BY <2>1, HeadTailProperties, LenProperties, EmptySeq
  <2>3. ASSUME NEW i \in DOMAIN late'
        PROVE  late'[i].sent = "NONE"
    <3>1. i + 1 \in DOMAIN late /\ late'[i] = late[i + 1]
      BY <2>2
    <3> QED BY <3>1 DEF WholeInv
  <2>4. Head(late).sent = "NONE"
    BY <2>2 DEF WholeInv
  <2>5. \A v \in Uid : WholeOf(v)'
    <3>1. CASE EndResult
      BY <1>1, <3>1 DEF EndResult, WholeInv, WholeOf
    <3>2. ASSUME NEW event \in Follows(Head(late)), SoundResult(Head(late), event)
          PROVE  \A v \in Uid : WholeOf(v)'
      BY <1>2, <2>2, <2>4, <3>2
    <3> QED BY <1>5, <3>1, <3>2 DEF EngineLate
  <2> QED BY <2>1, <2>3, <2>5 DEF WholeInv
<1> QED BY <1>3, <1>4, <1>5 DEF EngineResult

(* and mm_player.                                                          *)
LEMMA PlayerWhole ==
  ASSUME TypeOK, WholeInv, NEW u \in Uid, PlayerMessage(u)
  PROVE  WholeInv'
<1> DEFINE p == player[u]
<1>1. UNCHANGED <<app, job, late>>
  BY DEF PlayerMessage, BeginOfStream, EndOfStream, PlayerError, engineVars
<1>2. player \in [Uid -> Player] /\ heard \in [Uid -> Heard] /\ WholeOf(u)
  BY DEF TypeOK, WholeInv
<1>3. WholePlayer(player'[u], heard'[u].started)
  <2>1. CASE BeginOfStream(u)
    <3>1. AnnouncesStart(p)
      BY <1>2 DEF WholeOf, WholePlayer, AnnouncesStart
    <3>2. heard'[u].started = p.utt
      BY <1>2, <2>1, <3>1 DEF BeginOfStream, Heard
    <3>3. /\ player'[u].event = p.soundEvent /\ player'[u].soundEvent = p.soundEvent
          /\ player'[u].utt = p.utt
      BY <1>2, <2>1 DEF BeginOfStream, Player
    <3> QED BY <1>2, <3>2, <3>3 DEF WholeOf, WholePlayer
  <2>2. CASE EndOfStream(u)
    BY <1>2, <2>2 DEF EndOfStream, Player, WholeOf, WholePlayer
  <2>3. CASE PlayerError(u)
    BY <1>2, <2>3 DEF PlayerError, Player, WholeOf, WholePlayer
  <2> QED BY <2>1, <2>2, <2>3 DEF PlayerMessage
<1>4. ASSUME NEW v \in Uid \ {u}
      PROVE  WholeOf(v)'
  <2>1. player'[v] = player[v] /\ heard'[v] = heard[v]
    BY <1>2 DEF PlayerMessage, BeginOfStream, EndOfStream, PlayerError, clientVars
  <2> QED BY <1>1, <2>1 DEF WholeInv, WholeOf
<1>5. WholeOf(u)'
  BY <1>1, <1>2, <1>3 DEF WholeOf
<1> QED BY <1>1, <1>4, <1>5 DEF WholeInv

(* It holds of every state.                                                *)
LEMMA WholeInvariant ==
  ASSUME "multi" \notin Chunkings
  PROVE  Spec => []WholeInv
<1>1. Init => WholeInv
  <2>1. DOMAIN <<>> = {} /\ NoApp.sound = <<>>
    BY DEF NoApp
  <2> QED BY <2>1 DEF Init, WholeInv, WholeOf, WholeSounds, WholePlayer, NoJob, NoPlayer
<1>2. TypeOK /\ FocusInv /\ WholeInv /\ [Next]_vars => WholeInv'
  <2> SUFFICES ASSUME TypeOK, FocusInv, WholeInv, [Next]_vars
               PROVE  WholeInv'
    OBVIOUS
  <2>1. CASE UNCHANGED vars
    BY <2>1 DEF vars, WholeInv, WholeOf
  <2>2. CASE Next
    BY <2>2, RequestWhole, SettingWhole, TimerWhole, EngineWhole, PlayerWhole DEF Next
  <2> QED BY <2>1, <2>2
<1> QED BY <1>1, <1>2, TypeCorrect, FocusIsSafe, PTL DEF Spec

(* An utterance is reported completed when it is the one reported started  *)
(* last, or in place of one that was started and broken off, and each of   *)
(* those hides one start at most.  An engine that delivers as it likes and *)
(* does not fail, through every stop, interrupt and engine change, or one  *)
(* that delivers each utterance in one result, whatever fails.             *)
THEOREM CompletedFollowsStarted ==
  ASSUME "multi" \notin Chunkings \/ Careful
  PROVE  Spec => CompletedWasStarted
<1> DEFINE Follow == \A u \in Uid : heard[u].done' # heard[u].done =>
                       \/ heard[u].done' = heard[u].started
                       \/ heard[u].done < heard[u].started
                          /\ heard[u].started < heard[u].done'
           Ready == \A u \in Uid :
                      player[u].phase = "running" /\ player[u].event = "FINISH" =>
                        \/ player[u].utt = heard[u].started
                        \/ heard[u].done < heard[u].started
                           /\ heard[u].started < player[u].utt
<1>1. TypeOK /\ Ready /\ [Next]_vars => [Follow]_heard
  <2> SUFFICES ASSUME TypeOK, Ready, [Next]_vars, heard' # heard
               PROVE  Follow
    OBVIOUS
  <2>1. PICK u \in Uid : PlayerMessage(u)
    BY OthersAnnounceNothing DEF vars
  <2>2. heard \in [Uid -> Heard]
    BY DEF TypeOK
  <2>3. CASE BeginOfStream(u)
    BY <2>2, <2>3 DEF BeginOfStream, Heard
  <2>4. CASE EndOfStream(u)
    BY <2>2, <2>4 DEF EndOfStream, Heard
  <2>5. ~PlayerError(u)
    BY DEF PlayerError, clientVars
  <2> QED BY <2>1, <2>3, <2>4, <2>5 DEF PlayerMessage
<1>2. WholeInv => Ready
  BY DEF WholeInv, WholeOf, WholePlayer
<1>3. Careful /\ SpokenInv => Ready
  BY DEF SpokenInv, SpeechInv, SpeechOf, Speech, Parts, Announced
<1>4. CASE "multi" \notin Chunkings
  <2>1. Spec => []WholeInv
    BY <1>4, WholeInvariant
  <2> QED BY <1>1, <1>2, <2>1, TypeCorrect, PTL DEF Spec, CompletedWasStarted
<1>5. CASE Careful
  <2>1. Spec => []SpokenInv
    BY <1>5, SpokenInvariant DEF Careful
  <2>2. SpokenInv => Ready
    BY <1>3, <1>5
  <2> QED BY <1>1, <2>1, <2>2, TypeCorrect, PTL DEF Spec, CompletedWasStarted
<1> QED BY <1>4, <1>5
===============================================================================
