------------------------- MODULE TtsdServerTypeProofs -------------------------
(***************************************************************************)
(* TtsdServer is type correct, for every number of clients, every bound    *)
(* and every choice of requests and faults.                                *)
(***************************************************************************)
EXTENDS TtsdServer, SequenceTheorems, TLAPS

-------------------------------------------------------------------------------
(* The operators of TtsdData and TtsdPlayer keep their records well formed. *)

LEMMA NewRecords == /\ NoApp \in App /\ NewClient \in App
                    /\ NoPlayer \in Player /\ NewPlayer \in Player
<1>1. <<>> \in Seq(Nat) /\ <<>> \in Seq(Sound)
  BY EmptySeq
<1>2. NoApp \in App
  BY <1>1 DEF NoApp, App, AppState
<1>3. NewClient \in App
  BY <1>2 DEF NewClient, App, AppState
<1>4. NoPlayer \in Player
  BY DEF NoPlayer, Player, SoundEvent, Phase
<1>5. NewPlayer \in Player
  BY <1>4 DEF NewPlayer, Player
<1> QED BY <1>2, <1>3, <1>4, <1>5

LEMMA AppFields ==
  ASSUME NEW x \in App
  PROVE  x.state \in AppState /\ x.text \in Seq(Nat) /\ x.sound \in Seq(Sound)
         /\ x.stopped \in Nat
BY DEF App

LEMMA AddSpeakDataType ==
  ASSUME NEW x \in App, NEW n \in Nat
  PROVE  AddSpeakData(x, n) \in App
<1>1. Append(x.text, n) \in Seq(Nat)
  BY AppFields, AppendProperties
<1> QED BY <1>1 DEF AddSpeakData, App

LEMMA PopSpeakDataType ==
  ASSUME NEW x \in App, x.text # <<>>
  PROVE  PopSpeakData(x) \in App /\ Head(x.text) \in Nat
<1>1. Tail(x.text) \in Seq(Nat) /\ Head(x.text) \in Nat
  BY AppFields, HeadTailProperties
<1> QED BY <1>1 DEF PopSpeakData, App

LEMMA AddSoundDataType ==
  ASSUME NEW x \in App, NEW s \in Sound
  PROVE  AddSoundData(x, s) \in App
<1>1. Append(x.sound, s) \in Seq(Sound)
  BY AppFields, AppendProperties
<1> QED BY <1>1 DEF AddSoundData, App

LEMMA PopSoundDataType ==
  ASSUME NEW x \in App, x.sound # <<>>
  PROVE  PopSoundData(x) \in App /\ Head(x.sound) \in Sound
<1>1. Tail(x.sound) \in Seq(Sound) /\ Head(x.sound) \in Sound
  BY AppFields, HeadTailProperties
<1> QED BY <1>1 DEF PopSoundData, App

LEMMA LastText ==
  ASSUME NEW x \in App, x.text # <<>>
  PROVE  x.text[Len(x.text)] \in Nat
<1>1. Len(x.text) \in 1 .. Len(x.text)
  BY AppFields, EmptySeq, LenProperties
<1> QED BY <1>1, AppFields, ElementOfSeq

LEMMA ClearDataType ==
  ASSUME NEW x \in App
  PROVE  ClearData(x) \in App
<1>1. <<>> \in Seq(Nat) /\ <<>> \in Seq(Sound)
  BY EmptySeq
<1> QED BY <1>1, LastText DEF ClearData, App

LEMMA SetStateType ==
  ASSUME NEW x \in App, NEW state \in AppState
  PROVE  SetState(x, state) \in App
BY DEF SetState, App

LEMMA StoppedAppType ==
  ASSUME NEW x \in App
  PROVE  StoppedApp(x) \in App
BY ClearDataType, SetStateType DEF StoppedApp, AppState

LEMMA PlayerTypes ==
  ASSUME NEW p \in Player
  PROVE  /\ Unrealized(p) \in Player
         /\ AllStopped(p) \in Player
         /\ PausedPlayer(p) \in Player
BY DEF Player, SoundEvent, Phase, Unrealized, AllStopped, PausedPlayer

LEMMA StartedType ==
  ASSUME NEW p \in Player, NEW s \in Sound
  PROVE  Started(p, s) \in Player
BY DEF Player, SoundEvent, Phase, Sound, Started

LEMMA Entries ==
  ASSUME TypeOK, NEW u \in Uid
  PROVE  app[u] \in App /\ player[u] \in Player /\ ReleasedBy(u) \in Uid \cup {NoUid}
         /\ uttNext[u] \in Nat \ {0}
BY DEF TypeOK, ReleasedBy

-------------------------------------------------------------------------------
(* Type correctness, first of the parts the actions are built from.        *)

LEMMA CancelType ==
  ASSUME TypeOK, CancelSynthesis
  PROVE  job' \in Job \cup {NoJob} /\ late' \in Seq(Job)
<1>1. job # NoJob => Append(late, job) \in Seq(Job)
  BY AppendProperties DEF TypeOK
<1> QED BY <1>1 DEF CancelSynthesis, TypeOK

LEMMA StopSynthesisType ==
  ASSUME TypeOK, NEW u \in Uid, StopSynthesis(u)
  PROVE  synth' \in BOOLEAN /\ job' \in Job \cup {NoJob} /\ late' \in Seq(Job)
BY CancelType DEF StopSynthesis, TypeOK

LEMMA BeginSynthesisType ==
  ASSUME TypeOK, NEW u \in Uid, NEW n \in Nat, BeginSynthesis(u, n)
  PROVE  synth' \in BOOLEAN /\ job' \in Job \cup {NoJob} /\ late' \in Seq(Job)
BY DEF BeginSynthesis, TypeOK, Job, JobEvent

LEMMA FailSynthesisType ==
  ASSUME TypeOK, NEW u \in Uid, NEW x \in App, FailSynthesis(u, x)
  PROVE  /\ app' \in [Uid -> App] /\ player' \in [Uid -> Player]
         /\ playing' \in Uid \cup {NoUid} /\ told' \in [Uid -> ToldState]
         /\ synth' \in BOOLEAN /\ job' \in Job \cup {NoJob} /\ late' \in Seq(Job)
<1>1. StoppedApp(x) \in App
  BY StoppedAppType
<1>2. Unrealized(player[u]) \in Player
  BY PlayerTypes, Entries
<1>3. app' \in [Uid -> App] /\ player' \in [Uid -> Player]
  BY <1>1, <1>2 DEF FailSynthesis, TypeOK
<1>4. playing' \in Uid \cup {NoUid}
  BY Entries DEF FailSynthesis
<1>5. told' \in [Uid -> ToldState]
  BY DEF FailSynthesis, Told, ToldState, TypeOK
<1> QED BY <1>3, <1>4, <1>5 DEF FailSynthesis, TypeOK

LEMMA SetAndStartType ==
  ASSUME TypeOK, NEW u \in Uid, NEW x \in App, NEW p \in Player,
         x.sound # <<>>, SetAndStart(u, x, p)
  PROVE  app' \in [Uid -> App] /\ player' \in [Uid -> Player]
<1>1. PopSoundData(x) \in App /\ Started(p, Head(x.sound)) \in Player
  BY PopSoundDataType, StartedType
<1> QED BY <1>1 DEF SetAndStart, TypeOK

LEMMA PlayerPlayType ==
  ASSUME TypeOK, NEW u \in Uid, NEW x \in App, PlayerPlay(u, x)
  PROVE  /\ app' \in [Uid -> App] /\ player' \in [Uid -> Player]
         /\ playing' \in Uid \cup {NoUid}
<1>1. CASE CanPlay(u, x)
  BY <1>1, SetAndStartType, Entries DEF PlayerPlay, CanPlay, TypeOK
<1>2. CASE ~CanPlay(u, x)
  BY <1>2 DEF PlayerPlay, TypeOK
<1> QED BY <1>1, <1>2

LEMMA ResumePlayerType ==
  ASSUME TypeOK, NEW u \in Uid, NEW players \in [Uid -> Player],
         NEW holder \in Uid \cup {NoUid}, ResumePlayer(u, players, holder)
  PROVE  player' \in [Uid -> Player] /\ playing' \in Uid \cup {NoUid}
<1>1. [players EXCEPT ![u].mm = "PLAYING"] \in [Uid -> Player]
  BY DEF Player
<1> QED BY <1>1 DEF ResumePlayer

LEMMA StartPlayType ==
  ASSUME TypeOK, NEW u \in Uid, NEW x \in App, NEW apps \in [Uid -> App],
         StartPlay(u, x, apps)
  PROVE  /\ app' \in [Uid -> App] /\ told' \in [Uid -> ToldState]
         /\ synthTimers' \in Nat /\ synth' \in BOOLEAN
         /\ job' \in Job \cup {NoJob} /\ late' \in Seq(Job)
<1>1. GrantPlay(u) => told' \in [Uid -> ToldState] /\ synthTimers' \in Nat
  BY DEF GrantPlay, Told, ToldState, TypeOK
<1>2. x.text # <<>> => PopSpeakData(x) \in App /\ Head(x.text) \in Nat
  BY PopSpeakDataType
<1>3. app' \in [Uid -> App]
  BY <1>2 DEF StartPlay
<1>4. x.text # <<>> /\ BeginSynthesis(u, Head(x.text))
        => synth' \in BOOLEAN /\ job' \in Job \cup {NoJob} /\ late' \in Seq(Job)
  BY <1>2, BeginSynthesisType
<1> QED BY <1>1, <1>3, <1>4 DEF StartPlay, TypeOK

LEMMA SoundResultType ==
  ASSUME TypeOK, NEW r \in Job, NEW event \in SoundEvent, SoundResult(r, event)
  PROVE  app' \in [Uid -> App] /\ synth' \in BOOLEAN /\ next' \in BOOLEAN
<1>1. [utt |-> r.utt, event |-> event] \in Sound /\ r.uid \in Uid
  BY DEF Job, Sound
<1>2. AddSoundData(app[r.uid], [utt |-> r.utt, event |-> event]) \in App
  BY <1>1, AddSoundDataType DEF TypeOK
<1> QED BY <1>1, <1>2 DEF SoundResult, TypeOK

LEMMA DueType == (AsRequest \/ AsEvent) => due' \in BOOLEAN
BY DEF AsRequest, AsEvent, OneShotPending

(* The requests keep every variable in its type.                           *)
LEMMA RequestType ==
  ASSUME TypeOK, NEW u \in Uid, Request(u)
  PROVE  TypeOK'
<1> USE Entries
<1>1. due' \in BOOLEAN
  BY DueType DEF Request
<1>2. CASE ServerInitialize(u)
  <2>1. NewClient \in App /\ NewPlayer \in Player
    BY NewRecords
  <2>2. app' \in [Uid -> App] /\ player' \in [Uid -> Player]
    BY <1>2, <2>1 DEF ServerInitialize, TypeOK
  <2>3. told' \in [Uid -> ToldState]
    BY <1>2 DEF ServerInitialize, Told, ToldState, TypeOK
  <2> QED BY <1>1, <1>2, <2>2, <2>3
          DEF ServerInitialize, HasUsers, serverVars, TypeOK
<1>3. CASE ServerFinalize(u)
  <2>1. NoApp \in App /\ NoPlayer \in Player
    BY NewRecords
  <2>2. app' \in [Uid -> App] /\ player' \in [Uid -> Player]
    BY <1>3, <2>1 DEF ServerFinalize, TypeOK
  <2>3. told' \in [Uid -> ToldState] /\ cut' \in [Uid -> Nat]
    BY <1>3 DEF ServerFinalize, Told, ToldState, Cuts, TypeOK
  <2>4. synth' \in BOOLEAN /\ job' \in Job \cup {NoJob} /\ late' \in Seq(Job)
    BY <1>3, StopSynthesisType, EmptySeq DEF ServerFinalize, TypeOK
  <2>5. loaded' \in BOOLEAN /\ playing' \in Uid \cup {NoUid}
    BY <1>3 DEF ServerFinalize, TypeOK
  <2> QED BY <1>1, <1>3, <2>2, <2>3, <2>4, <2>5 DEF ServerFinalize, TypeOK
<1>4. CASE ServerAddQueue(u)
  <2> DEFINE x == AddSpeakData(app[u], uttNext[u])
  <2>1. x \in App
    BY AddSpeakDataType
  <2>2. x.text # <<>>
    BY AppFields, AppendProperties DEF AddSpeakData, App
  <2>3. PopSpeakData(x) \in App /\ Head(x.text) \in Nat
    BY <2>1, <2>2, PopSpeakDataType
  <2>4. uttNext' \in [Uid -> Nat \ {0}]
    BY <1>4 DEF ServerAddQueue, TypeOK
  <2>5. ASSUME UNCHANGED <<app, player, playing, synth, job, late, told, cut>>
        PROVE  TypeOK'
    BY <1>1, <1>4, <2>4, <2>5 DEF ServerAddQueue, TypeOK
  <2>6. ASSUME app' = [app EXCEPT ![u] = x],
               UNCHANGED <<player, playing, synth, job, late, told, cut>>
        PROVE  TypeOK'
    BY <1>1, <1>4, <2>1, <2>4, <2>6 DEF ServerAddQueue, TypeOK
  <2>7. ASSUME app' = [app EXCEPT ![u] = PopSpeakData(x)],
               BeginSynthesis(u, Head(x.text)),
               UNCHANGED <<player, playing, told, cut>>
        PROVE  TypeOK'
    BY <1>1, <1>4, <2>3, <2>4, <2>7, BeginSynthesisType
       DEF ServerAddQueue, TypeOK
  <2>8. ASSUME FailSynthesis(u, PopSpeakData(x)),
               cut' = [cut EXCEPT ![u] = uttNext[u]]
        PROVE  TypeOK'
    BY <1>1, <1>4, <2>3, <2>4, <2>8, FailSynthesisType
       DEF ServerAddQueue, TypeOK
  <2> QED BY <1>4, <2>5, <2>6, <2>7, <2>8 DEF ServerAddQueue
<1>5. CASE ServerPlayAgain(u)
  BY <1>1, <1>5 DEF ServerPlayAgain, Told, ToldState, serverVars, engineVars, TypeOK
<1>6. CASE ServerPlay(u)
  <2>1. SetState(app[u], "PLAYING") \in App
    BY SetStateType DEF AppState
  <2>2. player' \in [Uid -> Player] /\ playing' \in Uid \cup {NoUid}
    BY <1>6, ResumePlayerType DEF ServerPlay, TypeOK
  <2>3. /\ app' \in [Uid -> App] /\ told' \in [Uid -> ToldState]
        /\ synthTimers' \in Nat /\ synth' \in BOOLEAN
        /\ job' \in Job \cup {NoJob} /\ late' \in Seq(Job)
    BY <1>6, <2>1, StartPlayType DEF ServerPlay, TypeOK
  <2> QED BY <1>1, <1>6, <2>2, <2>3 DEF ServerPlay, TypeOK
<1>7. ASSUME NEW v \in Uid, ServerPlayInterrupt(u, v)
      PROVE  TypeOK'
  <2> DEFINE apps == [app EXCEPT ![v] = SetState(@, "PAUSED")]
             players == [player EXCEPT ![v] = PausedPlayer(@)]
  <2>1. SetState(app[u], "PLAYING") \in App /\ SetState(app[v], "PAUSED") \in App
    BY SetStateType DEF AppState
  <2>2. apps \in [Uid -> App]
    BY <2>1 DEF TypeOK
  <2>3. players \in [Uid -> Player]
    BY PlayerTypes DEF TypeOK
  <2>4. player' \in [Uid -> Player] /\ playing' \in Uid \cup {NoUid}
    BY <1>7, <2>3, ResumePlayerType DEF ServerPlayInterrupt, TypeOK
  <2>5. /\ app' \in [Uid -> App] /\ told' \in [Uid -> ToldState]
        /\ synthTimers' \in Nat /\ synth' \in BOOLEAN
        /\ job' \in Job \cup {NoJob} /\ late' \in Seq(Job)
    BY <1>7, <2>1, <2>2, StartPlayType DEF ServerPlayInterrupt, TypeOK
  <2>6. interrupts' \in [Uid -> Nat]
    BY <1>7 DEF ServerPlayInterrupt, TypeOK
  <2> QED BY <1>1, <1>7, <2>4, <2>5, <2>6 DEF ServerPlayInterrupt, TypeOK
<1>8. CASE ServerStop(u)
  <2>1. StoppedApp(app[u]) \in App /\ StoppedPlayer(u) \in Player
    BY StoppedAppType, PlayerTypes DEF StoppedPlayer
  <2>2. app' \in [Uid -> App] /\ player' \in [Uid -> Player]
        /\ playing' \in Uid \cup {NoUid}
    BY <1>8, <2>1 DEF ServerStop, StoppedPlaying, TypeOK
  <2>3. synth' \in BOOLEAN /\ job' \in Job \cup {NoJob} /\ late' \in Seq(Job)
    BY <1>8, StopSynthesisType DEF ServerStop
  <2>4. told' \in [Uid -> ToldState] /\ cut' \in [Uid -> Nat]
    BY <1>8 DEF ServerStop, Told, ToldState, Cuts, TypeOK
  <2> QED BY <1>1, <1>8, <2>2, <2>3, <2>4 DEF ServerStop, TypeOK
<1>9. CASE ServerPause(u)
  <2>1. SetState(app[u], "PAUSED") \in App /\ PausedPlayer(player[u]) \in Player
    BY SetStateType, PlayerTypes DEF AppState
  <2>2. app' \in [Uid -> App] /\ player' \in [Uid -> Player]
        /\ playing' \in Uid \cup {NoUid}
    BY <1>9, <2>1 DEF ServerPause, TypeOK
  <2>3. told' \in [Uid -> ToldState]
    BY <1>9 DEF ServerPause, Told, ToldState, TypeOK
  <2> QED BY <1>1, <1>9, <2>2, <2>3 DEF ServerPause, serverVars, engineVars, TypeOK
<1> QED BY <1>2, <1>3, <1>4, <1>5, <1>6, <1>7, <1>8, <1>9 DEF Request

LEMMA SettingType ==
  ASSUME TypeOK, SettingRequest
  PROVE  TypeOK'
<1> USE Entries
<1>1. due' \in BOOLEAN
  BY DueType DEF SettingRequest
<1>2. <<>> \in Seq(Job)
  BY EmptySeq
<1>3. CASE SettingInitialize
  BY <1>1, <1>3 DEF SettingInitialize, HasUsers, serverVars, clientVars, TypeOK
<1>4. CASE SettingFinalize
  BY <1>1, <1>2, <1>4
     DEF SettingFinalize, serverVars, engineVars, clientVars, TypeOK
<1>5. CASE SetCurrentEngine
  <2>1. \A u \in Uid : SetState(ClearData(app[u]), "READY") \in App
    BY ClearDataType, SetStateType DEF AppState
  <2>2. app' \in [Uid -> App]
    BY <1>5, <2>1 DEF SetCurrentEngine
  <2>3. player' \in [Uid -> Player]
    BY <1>5, PlayerTypes DEF SetCurrentEngine
  <2>4. told' \in [Uid -> ToldState] /\ cut' \in [Uid -> Nat]
    BY <1>5 DEF SetCurrentEngine, ToldState, TypeOK
  <2>5. loaded' \in BOOLEAN
    BY <1>5 DEF SetCurrentEngine
  <2> QED BY <1>1, <1>2, <1>5, <2>2, <2>3, <2>4, <2>5
          DEF SetCurrentEngine, serverVars, TypeOK
<1> QED BY <1>3, <1>4, <1>5 DEF SettingRequest

LEMMA TimerType ==
  ASSUME TypeOK, SynthesisTimer \/ \E u \in Uid : OneShotTimer(u)
  PROVE  TypeOK'
<1> USE Entries
<1>1. due' \in BOOLEAN
  BY DueType DEF SynthesisTimer, OneShotTimer
<1>2. CASE EndNextSynthesis
  BY <1>1, <1>2 DEF EndNextSynthesis, engineVars, clientVars, TypeOK
<1>3. ASSUME NEW u \in Uid, StartNextSynthesis(u)
      PROVE  TypeOK'
  <2> DEFINE x == app[u]
  <2>1. x.text # <<>> => PopSpeakData(x) \in App /\ Head(x.text) \in Nat
    BY PopSpeakDataType
  <2>2. /\ next' \in BOOLEAN
        /\ UNCHANGED <<synthTimers, interrupts, nextPlays, loaded, setting, uttNext,
                       heard>>
    BY <1>3 DEF StartNextSynthesis
  <2>3. CASE UNCHANGED <<app, player, playing, synth, job, late, told, cut>>
    BY <1>1, <2>2, <2>3 DEF TypeOK
  <2>4. CASE PlayerPlay(u, x) /\ UNCHANGED <<synth, job, late, told, cut>>
    BY <1>1, <2>2, <2>4, PlayerPlayType DEF TypeOK
  <2>5. CASE /\ x.text # <<>> /\ BeginSynthesis(u, Head(x.text))
             /\ PlayerPlay(u, PopSpeakData(x))
             /\ UNCHANGED <<told, cut>>
    BY <1>1, <2>1, <2>2, <2>5, PlayerPlayType, BeginSynthesisType DEF TypeOK
  <2>6. CASE x.text # <<>> /\ FailSynthesis(u, PopSpeakData(x)) /\ Cuts(u)
    <3>1. cut' \in [Uid -> Nat]
      BY <2>6 DEF Cuts, TypeOK
    <3> QED BY <1>1, <2>1, <2>2, <2>6, <3>1, FailSynthesisType DEF TypeOK
  <2> QED BY <1>3, <2>3, <2>4, <2>5, <2>6 DEF StartNextSynthesis
<1>4. ASSUME NEW u \in Uid, SendInterruptClient(u)
      PROVE  TypeOK'
  <2>1. told' \in [Uid -> ToldState] /\ interrupts' \in [Uid -> Nat]
    BY <1>4 DEF SendInterruptClient, ToldState, TypeOK
  <2> QED BY <1>1, <1>4, <2>1 DEF SendInterruptClient, engineVars, TypeOK
<1>5. ASSUME NEW u \in Uid, PlayerNextPlay(u)
      PROVE  TypeOK'
  <2>1. nextPlays' \in [Uid -> Nat]
    BY <1>5 DEF PlayerNextPlay, TypeOK
  <2>2. Unrealized(player[u]) \in Player
    BY PlayerTypes
  <2>3. /\ app' \in [Uid -> App] /\ player' \in [Uid -> Player]
        /\ playing' \in Uid \cup {NoUid}
    BY <1>5, <2>2, SetAndStartType DEF PlayerNextPlay, TypeOK
  <2> QED BY <1>1, <1>5, <2>1, <2>3
          DEF PlayerNextPlay, serverVars, engineVars, clientVars, TypeOK
<1> QED BY <1>2, <1>3, <1>4, <1>5 DEF SynthesisTimer, OneShotTimer

LEMMA EngineType ==
  ASSUME TypeOK, EngineResult
  PROVE  TypeOK'
<1>1. due' \in BOOLEAN
  BY DueType DEF EngineResult
<1>2. ASSUME NEW event \in SoundEvent, EngineSound(event)
      PROVE  TypeOK'
  <2>1. job \in Job
    BY <1>2 DEF EngineSound, TypeOK
  <2>2. app' \in [Uid -> App] /\ synth' \in BOOLEAN /\ next' \in BOOLEAN
    BY <1>2, <2>1, SoundResultType DEF EngineSound
  <2>3. event # "FINISH" => [job EXCEPT !.sent = event] \in Job
    BY <2>1 DEF SoundEvent, Job, JobEvent
  <2> QED BY <1>1, <1>2, <2>2, <2>3 DEF EngineSound, clientVars, TypeOK
<1>3. CASE EngineFail
  BY <1>1, <1>3 DEF EngineFail, EndResult, clientVars, TypeOK
<1>4. CASE EngineLate
  <2>1. Head(late) \in Job /\ Tail(late) \in Seq(Job)
    BY <1>4, HeadTailProperties DEF EngineLate, TypeOK
  <2>2. Follows(Head(late)) \subseteq SoundEvent
    BY DEF Follows, SoundEvent
  <2>3. app' \in [Uid -> App] /\ synth' \in BOOLEAN /\ next' \in BOOLEAN
    BY <1>4, <2>1, <2>2, SoundResultType DEF EngineLate, EndResult, TypeOK
  <2> QED BY <1>1, <1>4, <2>1, <2>3 DEF EngineLate, clientVars, TypeOK
<1> QED BY <1>2, <1>3, <1>4 DEF EngineResult

LEMMA PlayerMessageType ==
  ASSUME TypeOK, NEW u \in Uid, PlayerMessage(u)
  PROVE  TypeOK'
<1>1. due' \in BOOLEAN
  BY DueType DEF PlayerMessage
<1>2. player[u] \in Player /\ player[u].utt \in Nat
  BY Entries DEF Player
<1>3. CASE BeginOfStream(u)
  <2>1. player' \in [Uid -> Player]
    BY <1>2, <1>3 DEF BeginOfStream, Player, Phase, TypeOK
  <2>2. heard' \in [Uid -> Heard]
    BY <1>2, <1>3 DEF BeginOfStream, Heard, TypeOK
  <2> QED BY <1>1, <1>3, <2>1, <2>2 DEF BeginOfStream, serverVars, engineVars, TypeOK
<1>4. CASE EndOfStream(u)
  <2>1. player' \in [Uid -> Player]
    BY <1>2, <1>4 DEF EndOfStream, Player, Phase, TypeOK
  <2>2. nextPlays' \in [Uid -> Nat]
    BY <1>4 DEF EndOfStream, TypeOK
  <2>3. heard' \in [Uid -> Heard]
    BY <1>2, <1>4 DEF EndOfStream, Heard, TypeOK
  <2> QED BY <1>1, <1>4, <2>1, <2>2, <2>3
          DEF EndOfStream, serverVars, engineVars, TypeOK
<1>5. CASE PlayerError(u)
  <2>1. player' \in [Uid -> Player]
    BY <1>2, <1>5 DEF PlayerError, Player, Phase, SoundEvent, TypeOK
  <2> QED BY <1>1, <1>5, <2>1, Entries
          DEF PlayerError, serverVars, engineVars, clientVars, TypeOK
<1> QED BY <1>3, <1>4, <1>5 DEF PlayerMessage

(* Every variable stays in its type, whatever the requests and the faults. *)
THEOREM TypeCorrect == Spec => []TypeOK
<1>1. Init => TypeOK
  <2>1. <<>> \in Seq(Job)
    BY EmptySeq
  <2> SUFFICES ASSUME Init PROVE TypeOK
    OBVIOUS
  <2>2. app \in [Uid -> App] /\ player \in [Uid -> Player]
    BY NewRecords DEF Init
  <2>3. told \in [Uid -> ToldState] /\ heard \in [Uid -> Heard]
    BY DEF Init, ToldState, Heard
  <2>4. /\ interrupts \in [Uid -> Nat] /\ nextPlays \in [Uid -> Nat]
        /\ uttNext \in [Uid -> Nat \ {0}] /\ cut \in [Uid -> Nat]
    BY DEF Init
  <2> QED BY <2>1, <2>2, <2>3, <2>4 DEF Init, TypeOK
<1>2. TypeOK /\ [Next]_vars => TypeOK'
  <2> SUFFICES ASSUME TypeOK, [Next]_vars PROVE TypeOK'
    OBVIOUS
  <2>1. CASE UNCHANGED vars
    BY <2>1 DEF vars, TypeOK
  <2> QED BY <2>1, RequestType, SettingType, TimerType, EngineType,
             PlayerMessageType DEF Next
<1> QED BY <1>1, <1>2, PTL DEF Spec
===============================================================================
