------------------------ MODULE TtsdServerFocusProofs -------------------------
(***************************************************************************)
(* TtsdServer gives the player to one client at a time and implements      *)
(* PlayFocus, for every number of clients, every bound and every choice of *)
(* requests and faults.                                                    *)
(***************************************************************************)
EXTENDS TtsdServerTypeProofs

-------------------------------------------------------------------------------
(* What the operators do to the fields that decide who is heard.           *)

LEMMA AppStates ==
  ASSUME NEW x \in App
  PROVE  /\ \A n \in Nat : AddSpeakData(x, n).state = x.state
         /\ PopSpeakData(x).state = x.state
         /\ \A s : AddSoundData(x, s).state = x.state
         /\ PopSoundData(x).state = x.state
         /\ ClearData(x).state = x.state
         /\ \A state : SetState(x, state).state = state
BY DEF App, AddSpeakData, PopSpeakData, AddSoundData, PopSoundData, ClearData,
       SetState

LEMMA StoppedAppState ==
  ASSUME NEW x \in App
  PROVE  StoppedApp(x).state = IF IsActive(x) THEN "READY" ELSE x.state
BY AppStates, ClearDataType DEF StoppedApp

LEMMA PlayerFields ==
  ASSUME NEW p \in Player
  PROVE  /\ Unrealized(p).item = p.item
         /\ Unrealized(p).mm = "NULL" /\ Unrealized(p).phase = "none"
         /\ AllStopped(p).item = p.item
         /\ AllStopped(p).mm = "NULL" /\ AllStopped(p).phase = "none"
         /\ PausedPlayer(p).item = p.item /\ PausedPlayer(p).phase = p.phase
         /\ PausedPlayer(p).mm = IF p.mm = "PLAYING" THEN "PAUSED" ELSE p.mm
         /\ \A s : /\ Started(p, s).item = p.item
                  /\ Started(p, s).mm = "PLAYING"
                  /\ Started(p, s).phase = "starting"
BY DEF Player, Unrealized, AllStopped, PausedPlayer, Started

(* The invariant the safety theorems rest on.                              *)
FocusInv ==
  /\ OnePlayingClient
  /\ PlayingInfoIsAlive
  /\ StreamBelongsToActiveClient
  /\ SilentUnlessPlaying

LEMMA DueAfterEvent ==
  ASSUME AsEvent, NEW v \in Uid, nextPlays'[v] > 0, ~due'
  PROVE  ~due
BY DEF AsEvent, OneShotPending

LEMMA DueAfterRequest ==
  ASSUME AsRequest, NEW v \in Uid, nextPlays'[v] > 0
  PROVE  ~due /\ due'
BY DEF AsRequest, OneShotPending

-------------------------------------------------------------------------------
(* What an action does to the clients and their players, in eight shapes.  *)

(* It moves no client, no player and no next-sound timer.                  *)
Frame ==
  /\ \A v \in Uid : app'[v].state = app[v].state
  /\ UNCHANGED <<player, playing, nextPlays>>

(* u becomes READY or leaves; its stream and its hold are gone.            *)
StopsClient(u) ==
  /\ app'[u].state \in {"READY", "ABSENT"}
  /\ app'[u].state = "READY" => IsActive(app[u])
  /\ \A v \in Uid \ {u} : app'[v].state = app[v].state /\ player'[v] = player[v]
  /\ player'[u].item => player[u].item /\ app'[u].state = "READY"
  /\ player'[u].mm = "NULL" /\ player'[u].phase = "none"
  /\ playing' = ReleasedBy(u)
  /\ UNCHANGED nextPlays

(* u, which plays, gets its next sound, or fails to.                       *)
StartsSound(u) ==
  /\ IsCurrent(u) /\ player[u].item
  /\ player[u].mm = "NULL" \/ nextPlays'[u] = nextPlays[u] - 1
  /\ \A v \in Uid : app'[v].state = app[v].state
  /\ \A v \in Uid \ {u} : player'[v] = player[v] /\ nextPlays'[v] = nextPlays[v]
  /\ nextPlays'[u] \in {nextPlays[u], nextPlays[u] - 1}
  /\ player'[u].item
  /\ \/ player'[u].mm = "NULL" /\ player'[u].phase = "none"
     \/ player'[u].mm = "PLAYING" /\ player'[u].phase = "starting"
  /\ playing' = playing \/ playing' = ReleasedBy(u)

(* u takes the player: whoever plays is paused, and loses g_playing_info.  *)
TakesPlayer(u) ==
  /\ IsClient(app[u]) /\ ~IsCurrent(u) /\ app'[u].state = "PLAYING"
  /\ \A v \in Uid \ {u} :
       IF IsCurrent(v)
         THEN /\ app'[v].state = "PAUSED" /\ player'[v] = PausedPlayer(player[v])
              /\ playing' # v
         ELSE app'[v].state = app[v].state /\ player'[v] = player[v]
  /\ \/ player'[u] = player[u]
     \/ player[u].mm = "PAUSED" /\ player'[u] = [player[u] EXCEPT !.mm = "PLAYING"]
  /\ playing' \in {playing, NoUid, u}
  /\ playing' = u => player[u].item
  /\ UNCHANGED nextPlays

(* u gives the player up.                                                  *)
PausesClient(u) ==
  /\ IsCurrent(u)
  /\ app'[u].state = "PAUSED" /\ player'[u] = PausedPlayer(player[u])
  /\ playing' = ReleasedBy(u) /\ nextPlays' = nextPlays
  /\ \A v \in Uid \ {u} : app'[v] = app[v] /\ player'[v] = player[v]

(* u joins, with a player or without.                                      *)
AddsClient(u) ==
  /\ app'[u].state = "READY" /\ app[u].state = "ABSENT"
  /\ player'[u] = NewPlayer \/ player'[u] = player[u]
  /\ playing' = playing /\ nextPlays' = nextPlays
  /\ \A v \in Uid \ {u} : app'[v] = app[v] /\ player'[v] = player[v]

(* Every client becomes READY and every stream is gone.                    *)
StopsAll ==
  /\ \A v \in Uid :
       /\ app'[v].state = IF IsClient(app[v]) THEN "READY" ELSE "ABSENT"
       /\ player'[v].mm = "NULL" /\ player'[v].phase = "none"
       /\ player'[v].item = player[v].item
  /\ playing' = NoUid /\ nextPlays' = nextPlays

(* A next-sound timer of u finds nothing to do.                            *)
TimerIdles(u) ==
  /\ nextPlays[u] > 0 /\ nextPlays'[u] = nextPlays[u] - 1
  /\ \A v \in Uid \ {u} : nextPlays'[v] = nextPlays[v]
  /\ UNCHANGED <<app, player>>
  /\ playing' \in {playing, NoUid}

-------------------------------------------------------------------------------
(* Each shape keeps the invariant.                                         *)

LEMMA FrameFocus ==
  ASSUME TypeOK, FocusInv, AsEvent \/ AsRequest, Frame
  PROVE  FocusInv'
<1> USE DEF Frame, IsCurrent, IsActive, IsClient
<1>1. OnePlayingClient'
  BY DEF FocusInv, OnePlayingClient
<1>2. PlayingInfoIsAlive' /\ StreamBelongsToActiveClient'
  BY DEF FocusInv, PlayingInfoIsAlive, StreamBelongsToActiveClient
<1>3. ASSUME NEW v \in Uid
      PROVE  TimerIsHarmless(v)'
  BY DueAfterEvent, DueAfterRequest
     DEF FocusInv, SilentUnlessPlaying, TimerIsHarmless
<1>4. SilentUnlessPlaying'
  BY <1>3 DEF FocusInv, SilentUnlessPlaying
<1> QED BY <1>1, <1>2, <1>4 DEF FocusInv

LEMMA BeginOfStreamFocus ==
  ASSUME TypeOK, FocusInv, NEW u \in Uid, BeginOfStream(u), AsEvent
  PROVE  FocusInv'
<1> USE Entries DEF IsCurrent, IsActive, IsClient
<1>1. OnePlayingClient'
  BY DEF BeginOfStream, FocusInv, OnePlayingClient, TypeOK
<1>2. PlayingInfoIsAlive' /\ StreamBelongsToActiveClient'
  BY DEF BeginOfStream, FocusInv, PlayingInfoIsAlive,
     StreamBelongsToActiveClient, SilentUnlessPlaying, TypeOK, Player
<1>3. ASSUME NEW v \in Uid
      PROVE  /\ (player'[v].mm = "NULL") <=> (player'[v].phase = "none")
             /\ player'[v].mm = "PLAYING" => IsCurrent(v)'
  BY DEF BeginOfStream, FocusInv, StreamBelongsToActiveClient,
     SilentUnlessPlaying, TypeOK, Player
<1>4. ASSUME NEW v \in Uid
      PROVE  TimerIsHarmless(v)'
  BY DueAfterEvent DEF BeginOfStream, FocusInv, StreamBelongsToActiveClient,
     SilentUnlessPlaying, TimerIsHarmless, TypeOK, Player
<1> QED BY <1>1, <1>2, <1>3, <1>4 DEF FocusInv, SilentUnlessPlaying

LEMMA EndOfStreamFocus ==
  ASSUME TypeOK, FocusInv, NEW u \in Uid, EndOfStream(u), AsEvent
  PROVE  FocusInv'
<1> USE Entries DEF IsCurrent, IsActive, IsClient
<1>1. OnePlayingClient'
  BY DEF EndOfStream, FocusInv, OnePlayingClient, TypeOK
<1>2. PlayingInfoIsAlive' /\ StreamBelongsToActiveClient'
  BY DEF EndOfStream, FocusInv, PlayingInfoIsAlive,
     StreamBelongsToActiveClient, SilentUnlessPlaying, TypeOK, Player
<1>3. ASSUME NEW v \in Uid
      PROVE  /\ (player'[v].mm = "NULL") <=> (player'[v].phase = "none")
             /\ player'[v].mm = "PLAYING" => IsCurrent(v)'
  BY DEF EndOfStream, FocusInv, StreamBelongsToActiveClient,
     SilentUnlessPlaying, TypeOK, Player
<1>4. ASSUME NEW v \in Uid
      PROVE  TimerIsHarmless(v)'
  BY DueAfterEvent DEF EndOfStream, FocusInv, StreamBelongsToActiveClient,
     SilentUnlessPlaying, TimerIsHarmless, TypeOK, Player
<1> QED BY <1>1, <1>2, <1>3, <1>4 DEF FocusInv, SilentUnlessPlaying

LEMMA PlayerErrorFocus ==
  ASSUME TypeOK, FocusInv, NEW u \in Uid, PlayerError(u), AsEvent
  PROVE  FocusInv'
<1> USE Entries DEF IsCurrent, IsActive, IsClient
<1>1. OnePlayingClient'
  BY DEF PlayerError, FocusInv, OnePlayingClient, TypeOK
<1>2. PlayingInfoIsAlive'
  BY DEF PlayerError, ReleasedBy, FocusInv, PlayingInfoIsAlive, TypeOK, Player
<1>3. StreamBelongsToActiveClient'
  <2>1. \A v \in Uid : /\ player'[v].item = player[v].item
                       /\ player'[v].mm = player[v].mm
                       /\ app'[v] = app[v]
    BY DEF PlayerError, TypeOK, Player
  <2> QED BY <2>1 DEF FocusInv, StreamBelongsToActiveClient
<1>4. ASSUME NEW v \in Uid
      PROVE  /\ (player'[v].mm = "NULL") <=> (player'[v].phase = "none")
             /\ player'[v].mm = "PLAYING" => IsCurrent(v)'
  BY DEF PlayerError, FocusInv, StreamBelongsToActiveClient,
     SilentUnlessPlaying, TypeOK, Player
<1>5. ASSUME NEW v \in Uid
      PROVE  TimerIsHarmless(v)'
  <2>1. /\ app'[v] = app[v] /\ nextPlays'[v] = nextPlays[v]
        /\ player'[v].phase = "ended" \/ player'[v].phase = player[v].phase
        /\ playing' \in {playing, NoUid}
    BY DEF PlayerError, ReleasedBy, TypeOK, Player
  <2>2. nextPlays'[v] > 0 /\ ~due' => ~due
    BY DueAfterEvent
  <2>3. TimerIsHarmless(v)
    BY DEF FocusInv, SilentUnlessPlaying
  <2> QED BY <2>1, <2>2, <2>3, NoUidAssumption DEF TimerIsHarmless
<1> QED BY <1>1, <1>2, <1>3, <1>4, <1>5 DEF FocusInv, SilentUnlessPlaying

LEMMA StopFocus ==
  ASSUME TypeOK, FocusInv, AsEvent \/ AsRequest, NEW u \in Uid, StopsClient(u)
  PROVE  FocusInv'
<1> USE NoUidAssumption, Entries DEF StopsClient, IsCurrent, IsActive, IsClient
<1>1. OnePlayingClient'
  BY DEF FocusInv, OnePlayingClient
<1>2. PlayingInfoIsAlive'
  BY DEF ReleasedBy, FocusInv, PlayingInfoIsAlive, TypeOK
<1>3. StreamBelongsToActiveClient'
  BY DEF FocusInv, StreamBelongsToActiveClient, SilentUnlessPlaying
<1>4. ASSUME NEW v \in Uid
      PROVE  /\ (player'[v].mm = "NULL") <=> (player'[v].phase = "none")
             /\ player'[v].mm = "PLAYING" => IsCurrent(v)'
  BY DEF FocusInv, SilentUnlessPlaying
<1>5. ASSUME NEW v \in Uid
      PROVE  TimerIsHarmless(v)'
  BY DueAfterEvent, DueAfterRequest
     DEF ReleasedBy, FocusInv, SilentUnlessPlaying, TimerIsHarmless
<1> QED BY <1>1, <1>2, <1>3, <1>4, <1>5 DEF FocusInv, SilentUnlessPlaying

LEMMA StartFocus ==
  ASSUME TypeOK, FocusInv, AsEvent, NEW u \in Uid, StartsSound(u)
  PROVE  FocusInv'
<1> USE NoUidAssumption, Entries DEF StartsSound, IsCurrent, IsActive, IsClient
<1>1. OnePlayingClient'
  BY DEF FocusInv, OnePlayingClient
<1>2. PlayingInfoIsAlive'
  BY DEF ReleasedBy, FocusInv, PlayingInfoIsAlive, TypeOK
<1>3. StreamBelongsToActiveClient'
  BY DEF FocusInv, StreamBelongsToActiveClient, SilentUnlessPlaying
<1>4. ASSUME NEW v \in Uid
      PROVE  /\ (player'[v].mm = "NULL") <=> (player'[v].phase = "none")
             /\ player'[v].mm = "PLAYING" => IsCurrent(v)'
  BY DEF FocusInv, SilentUnlessPlaying
<1>5. ASSUME NEW v \in Uid
      PROVE  TimerIsHarmless(v)'
  <2> nextPlays[u] \in Nat
    BY DEF TypeOK
  <2>1. CASE v = u
    BY <2>1, DueAfterEvent
       DEF ReleasedBy, FocusInv, SilentUnlessPlaying, TimerIsHarmless
  <2>2. CASE v # u
    BY <2>2, DueAfterEvent
       DEF ReleasedBy, FocusInv, SilentUnlessPlaying, TimerIsHarmless
  <2> QED BY <2>1, <2>2
<1> QED BY <1>1, <1>2, <1>3, <1>4, <1>5 DEF FocusInv, SilentUnlessPlaying

LEMMA TakeFocus ==
  ASSUME TypeOK, FocusInv, AsRequest, NEW u \in Uid, TakesPlayer(u)
  PROVE  FocusInv'
<1> USE NoUidAssumption, Entries, PlayerFields DEF TakesPlayer, IsCurrent, IsActive, IsClient
<1>1. OnePlayingClient'
  BY DEF FocusInv, OnePlayingClient
<1>2. \A v \in Uid : player'[v].item = player[v].item
                    /\ player'[v].phase = player[v].phase
  BY DEF Player
<1>3. PlayingInfoIsAlive'
  BY <1>2 DEF FocusInv, PlayingInfoIsAlive, TypeOK
<1>4. StreamBelongsToActiveClient'
  BY <1>2 DEF FocusInv, StreamBelongsToActiveClient, SilentUnlessPlaying
<1>5. ASSUME NEW v \in Uid
      PROVE  /\ (player'[v].mm = "NULL") <=> (player'[v].phase = "none")
             /\ player'[v].mm = "PLAYING" => IsCurrent(v)'
  BY <1>2 DEF FocusInv, SilentUnlessPlaying, Player
<1>6. ASSUME NEW v \in Uid
      PROVE  TimerIsHarmless(v)'
  BY <1>2, DueAfterRequest
     DEF FocusInv, SilentUnlessPlaying, TimerIsHarmless
<1> QED BY <1>1, <1>3, <1>4, <1>5, <1>6 DEF FocusInv, SilentUnlessPlaying

LEMMA PauseFocus ==
  ASSUME TypeOK, FocusInv, AsRequest, NEW u \in Uid, PausesClient(u)
  PROVE  FocusInv'
<1> USE NoUidAssumption, Entries, PlayerFields
    DEF PausesClient, IsCurrent, IsActive, IsClient
<1>1. OnePlayingClient'
  BY DEF FocusInv, OnePlayingClient
<1>2. PlayingInfoIsAlive'
  BY DEF ReleasedBy, FocusInv, PlayingInfoIsAlive, TypeOK
<1>3. StreamBelongsToActiveClient'
  BY DEF FocusInv, StreamBelongsToActiveClient,
              SilentUnlessPlaying, Player
<1>4. ASSUME NEW v \in Uid
      PROVE  /\ (player'[v].mm = "NULL") <=> (player'[v].phase = "none")
             /\ player'[v].mm = "PLAYING" => IsCurrent(v)'
  BY DEF FocusInv, SilentUnlessPlaying, Player
<1>5. ASSUME NEW v \in Uid
      PROVE  TimerIsHarmless(v)'
  BY DueAfterRequest
     DEF ReleasedBy, FocusInv, SilentUnlessPlaying, TimerIsHarmless
<1> QED BY <1>1, <1>2, <1>3, <1>4, <1>5 DEF FocusInv, SilentUnlessPlaying

LEMMA InitializeFocus ==
  ASSUME TypeOK, FocusInv, AsRequest, NEW u \in Uid, AddsClient(u)
  PROVE  FocusInv'
<1> USE Entries DEF AddsClient, IsCurrent, IsActive, IsClient
<1>1. NewPlayer.item /\ NewPlayer.mm = "NULL" /\ NewPlayer.phase = "none"
  BY DEF NewPlayer, NoPlayer
<1>2. OnePlayingClient'
  BY DEF FocusInv, OnePlayingClient
<1>3. PlayingInfoIsAlive' /\ StreamBelongsToActiveClient'
  <2>1. PlayingInfoIsAlive'
    BY <1>1 DEF FocusInv, PlayingInfoIsAlive, TypeOK
  <2>2. ~player[u].item /\ player[u].mm = "NULL"
    BY DEF FocusInv, StreamBelongsToActiveClient
  <2>3. StreamBelongsToActiveClient'
    BY <1>1, <2>2 DEF FocusInv, StreamBelongsToActiveClient
  <2> QED BY <2>1, <2>3
<1>4. ASSUME NEW v \in Uid
      PROVE  /\ (player'[v].mm = "NULL") <=> (player'[v].phase = "none")
             /\ player'[v].mm = "PLAYING" => IsCurrent(v)'
  BY <1>1 DEF FocusInv, SilentUnlessPlaying
<1>5. ASSUME NEW v \in Uid
      PROVE  TimerIsHarmless(v)'
  BY <1>1, DueAfterRequest
     DEF FocusInv, SilentUnlessPlaying, TimerIsHarmless
<1> QED BY <1>2, <1>3, <1>4, <1>5 DEF FocusInv, SilentUnlessPlaying

LEMMA StopAllFocus ==
  ASSUME TypeOK, FocusInv, AsRequest, StopsAll
  PROVE  FocusInv'
<1> USE DEF StopsAll, IsCurrent, IsActive, IsClient
<1>1. OnePlayingClient'
  BY DEF OnePlayingClient
<1>2. PlayingInfoIsAlive' /\ StreamBelongsToActiveClient'
  BY DEF FocusInv, PlayingInfoIsAlive, StreamBelongsToActiveClient
<1>3. ASSUME NEW v \in Uid
      PROVE  TimerIsHarmless(v)'
  BY NoUidAssumption, DueAfterRequest DEF TimerIsHarmless
<1>4. SilentUnlessPlaying'
  BY <1>3 DEF SilentUnlessPlaying
<1> QED BY <1>1, <1>2, <1>4 DEF FocusInv

LEMMA IdleFocus ==
  ASSUME TypeOK, FocusInv, AsEvent, NEW u \in Uid, TimerIdles(u)
  PROVE  FocusInv'
<1> USE DEF TimerIdles, IsCurrent, IsActive, IsClient
<1>1. OnePlayingClient' /\ StreamBelongsToActiveClient'
  BY DEF FocusInv, OnePlayingClient, StreamBelongsToActiveClient
<1>2. PlayingInfoIsAlive'
  BY DEF FocusInv, PlayingInfoIsAlive
<1>3. ASSUME NEW v \in Uid PROVE TimerIsHarmless(v)'
  <2>1. nextPlays[u] \in Nat
    BY DEF TypeOK
  <2>2. nextPlays'[v] > 0 => nextPlays[v] > 0
    BY <2>1
  <2>3. TimerIsHarmless(v)
    BY DEF FocusInv, SilentUnlessPlaying
  <2>4. playing # v => playing' # v
    BY NoUidAssumption
  <2>5. v = u /\ nextPlays'[v] > 0 /\ ~due' => FALSE
    BY <2>1, <2>2, <2>3, DueAfterEvent DEF TimerIsHarmless
  <2> QED BY <2>2, <2>3, <2>4, <2>5, DueAfterEvent DEF TimerIsHarmless
<1>4. SilentUnlessPlaying'
  BY <1>3 DEF FocusInv, SilentUnlessPlaying
<1> QED BY <1>1, <1>2, <1>4 DEF FocusInv

-------------------------------------------------------------------------------
(* Each action has one of the shapes.                                      *)

LEMMA PauseEffect ==
  ASSUME TypeOK, NEW u \in Uid, ServerPause(u)
  PROVE  PausesClient(u)
BY AppStates, Entries DEF PausesClient, ServerPause, TypeOK

LEMMA InitializeEffect ==
  ASSUME TypeOK, NEW u \in Uid, ServerInitialize(u)
  PROVE  AddsClient(u)
BY Entries DEF AddsClient, ServerInitialize, IsClient, NewClient, NoApp, AppState,
               TypeOK

LEMMA SetCurrentEngineEffect ==
  ASSUME TypeOK, FocusInv, SetCurrentEngine
  PROVE  StopsAll
<1> USE Entries, PlayerFields
<1>1. ASSUME NEW v \in Uid
      PROVE  /\ app'[v].state = IF IsClient(app[v]) THEN "READY" ELSE "ABSENT"
             /\ player'[v].mm = "NULL" /\ player'[v].phase = "none"
             /\ player'[v].item = player[v].item
  <2>1. SetState(ClearData(app[v]), "READY").state = "READY"
    BY AppStates, ClearDataType
  <2>2. app'[v] = IF IsClient(app[v]) THEN SetState(ClearData(app[v]), "READY")
                                     ELSE app[v]
    BY DEF SetCurrentEngine
  <2>3. app'[v].state = IF IsClient(app[v]) THEN "READY" ELSE "ABSENT"
    BY <2>1, <2>2 DEF IsClient
  <2>4. player'[v] = IF IsActive(app[v]) THEN AllStopped(player[v]) ELSE player[v]
    BY DEF SetCurrentEngine
  <2>5. ~IsActive(app[v]) => player[v].mm = "NULL" /\ player[v].phase = "none"
    BY DEF FocusInv, StreamBelongsToActiveClient, SilentUnlessPlaying
  <2> QED BY <2>3, <2>4, <2>5
<1>2. playing' = NoUid /\ nextPlays' = nextPlays
  BY DEF SetCurrentEngine
<1> QED BY <1>1, <1>2 DEF StopsAll

LEMMA StartSoundEffect ==
  ASSUME TypeOK, FocusInv, NEW u \in Uid, IsCurrent(u),
         NEW x \in App, x.state = app[u].state, PlayerPlay(u, x),
         UNCHANGED nextPlays
  PROVE  Frame \/ StartsSound(u)
<1> USE Entries
<1>1. CASE CanPlay(u, x)
  <2>1. x.sound # <<>> /\ player[u].item /\ player[u].mm = "NULL"
    BY <1>1 DEF CanPlay
  <2>2. SetAndStart(u, x, player[u]) /\ playing' = playing
    BY <1>1 DEF PlayerPlay
  <2>3. \A v \in Uid : app'[v].state = app[v].state
    BY <2>2, AppStates DEF SetAndStart, TypeOK
  <2>4. /\ \A v \in Uid \ {u} : player'[v] = player[v]
        /\ \/ player'[u] = player[u]
           \/ player'[u] = Started(player[u], Head(x.sound))
    BY <2>2 DEF SetAndStart, TypeOK
  <2>5. player[u].phase = "none"
    BY <2>1 DEF FocusInv, SilentUnlessPlaying
  <2>6. /\ player'[u].item
        /\ \/ player'[u].mm = "NULL" /\ player'[u].phase = "none"
           \/ player'[u].mm = "PLAYING" /\ player'[u].phase = "starting"
    BY <2>1, <2>4, <2>5, PlayerFields
  <2> QED BY <2>1, <2>2, <2>3, <2>4, <2>6 DEF StartsSound
<1>2. CASE ~CanPlay(u, x)
  <2>1. \A v \in Uid : app'[v].state = app[v].state
    BY <1>2 DEF PlayerPlay, TypeOK
  <2> QED BY <1>2, <2>1 DEF Frame, PlayerPlay
<1> QED BY <1>1, <1>2

LEMMA FailEffect ==
  ASSUME TypeOK, NEW u \in Uid, IsCurrent(u),
         NEW x \in App, x.state = app[u].state, FailSynthesis(u, x),
         UNCHANGED nextPlays
  PROVE  StopsClient(u)
<1> USE Entries
<1>1. app'[u].state = "READY"
  BY StoppedAppState DEF FailSynthesis, IsCurrent, IsActive, TypeOK
<1>2. player'[u] = Unrealized(player[u]) /\ playing' = ReleasedBy(u)
  BY DEF FailSynthesis, TypeOK
<1>3. \A v \in Uid \ {u} : app'[v] = app[v] /\ player'[v] = player[v]
  BY DEF FailSynthesis, TypeOK
<1> QED BY <1>1, <1>2, <1>3, PlayerFields DEF StopsClient, IsCurrent, IsActive

LEMMA StartNextSynthesisEffect ==
  ASSUME TypeOK, FocusInv, NEW u \in Uid, StartNextSynthesis(u)
  PROVE  Frame \/ StartsSound(u) \/ StopsClient(u)
<1> USE Entries
<1> DEFINE x == app[u]
<1>1. IsCurrent(u) /\ nextPlays' = nextPlays
  BY DEF StartNextSynthesis
<1>2. x.text # <<>> => PopSpeakData(x) \in App /\ PopSpeakData(x).state = x.state
  BY PopSpeakDataType, AppStates
<1>3. CASE UNCHANGED <<app, player, playing>>
  BY <1>1, <1>3 DEF Frame
<1>4. CASE PlayerPlay(u, x)
  BY <1>1, <1>4, StartSoundEffect
<1>5. CASE x.text # <<>> /\ PlayerPlay(u, PopSpeakData(x))
  BY <1>1, <1>2, <1>5, StartSoundEffect
<1>6. CASE x.text # <<>> /\ FailSynthesis(u, PopSpeakData(x))
  BY <1>1, <1>2, <1>6, FailEffect
<1> QED BY <1>3, <1>4, <1>5, <1>6 DEF StartNextSynthesis

LEMMA PlayerNextPlayEffect ==
  ASSUME TypeOK, FocusInv, NEW u \in Uid, PlayerNextPlay(u)
  PROVE  TimerIdles(u) \/ StartsSound(u)
<1> USE Entries, PlayerFields
<1>1. /\ nextPlays[u] > 0 /\ nextPlays'[u] = nextPlays[u] - 1
      /\ nextPlays[u] \in Nat
      /\ \A v \in Uid \ {u} : nextPlays'[v] = nextPlays[v]
  BY DEF PlayerNextPlay, TypeOK
<1>2. CASE UNCHANGED <<app, player>> /\ playing' \in {playing, NoUid}
  BY <1>1, <1>2 DEF TimerIdles
<1>3. CASE player[u].item /\ playing = u
  <2>1. IsCurrent(u)
    BY <1>1, <1>3 DEF FocusInv, SilentUnlessPlaying, TimerIsHarmless
  <2>2. CASE app[u].sound = <<>>
    <3>1. /\ player'[u] = Unrealized(player[u]) /\ app' = app
          /\ playing' = ReleasedBy(u)
          /\ \A v \in Uid \ {u} : player'[v] = player[v]
      BY <1>3, <2>2 DEF PlayerNextPlay, ReleasedBy, TypeOK
    <3> QED BY <1>1, <1>3, <2>1, <3>1 DEF StartsSound
  <2>3. CASE app[u].sound # <<>>
    <3>1. SetAndStart(u, app[u], Unrealized(player[u])) /\ playing' = playing
      BY <1>3, <2>3 DEF PlayerNextPlay
    <3>2. \A v \in Uid : app'[v].state = app[v].state
      BY <3>1, AppStates DEF SetAndStart, TypeOK
    <3>3. /\ \A v \in Uid \ {u} : player'[v] = player[v]
          /\ \/ player'[u] = Unrealized(player[u])
             \/ player'[u] = Started(Unrealized(player[u]), Head(app[u].sound))
      BY <3>1 DEF SetAndStart, TypeOK
    <3>4. Unrealized(player[u]) \in Player
      BY PlayerTypes
    <3>5. /\ player'[u].item
          /\ \/ player'[u].mm = "NULL" /\ player'[u].phase = "none"
             \/ player'[u].mm = "PLAYING" /\ player'[u].phase = "starting"
      BY <1>3, <3>3, <3>4
    <3> QED BY <1>1, <1>3, <2>1, <3>1, <3>2, <3>3, <3>5 DEF StartsSound
  <2> QED BY <2>2, <2>3
<1> QED BY <1>2, <1>3 DEF PlayerNextPlay

LEMMA PlayEffect ==
  ASSUME TypeOK, FocusInv, NEW u \in Uid,
         ServerPlay(u) \/ \E v \in Uid : ServerPlayInterrupt(u, v)
  PROVE  TakesPlayer(u)
<1> USE Entries
<1> DEFINE x == SetState(app[u], "PLAYING")
<1>1. x \in App /\ x.state = "PLAYING"
  BY SetStateType, AppStates DEF AppState
<1>2. x.text # <<>> => PopSpeakData(x).state = "PLAYING"
  BY <1>1, AppStates
<1>3. IsClient(app[u]) /\ nextPlays' = nextPlays
  BY DEF ServerPlay, ServerPlayInterrupt, Sends
<1>4. CASE ServerPlay(u)
  <2>1. \A v \in Uid : ~IsCurrent(v)
    BY <1>4 DEF ServerPlay, NobodyPlays
  <2>2. /\ app'[u].state = "PLAYING"
        /\ \A v \in Uid \ {u} : app'[v] = app[v]
    BY <1>1, <1>2, <1>4 DEF ServerPlay, StartPlay, TypeOK
  <2>3. /\ \A v \in Uid \ {u} : player'[v] = player[v]
        /\ \/ player'[u] = player[u]
           \/ player[u].mm = "PAUSED" /\ player'[u] = [player[u] EXCEPT !.mm = "PLAYING"]
        /\ playing' \in {playing, NoUid, u}
    BY <1>4 DEF ServerPlay, ResumePlayer, TypeOK
  <2>4. playing' = u => player[u].item
    BY <1>4, NoUidAssumption
       DEF ServerPlay, ResumePlayer, FocusInv, PlayingInfoIsAlive,
           StreamBelongsToActiveClient
  <2> QED BY <1>3, <2>1, <2>2, <2>3, <2>4 DEF TakesPlayer
<1>5. ASSUME NEW v \in Uid, ServerPlayInterrupt(u, v)
      PROVE  TakesPlayer(u)
  <2>1. IsCurrent(v) /\ ~IsCurrent(u) /\ u # v
    BY <1>5 DEF ServerPlayInterrupt
  <2>2. \A w \in Uid : IsCurrent(w) => w = v
    BY <2>1 DEF FocusInv, OnePlayingClient
  <2>3. app'[v] = SetState(app[v], "PAUSED")
    BY <1>5, <2>1 DEF ServerPlayInterrupt, StartPlay, TypeOK
  <2>4. /\ app'[u].state = "PLAYING" /\ app'[v].state = "PAUSED"
        /\ \A w \in Uid \ {u, v} : app'[w] = app[w]
    BY <1>1, <1>2, <1>5, <2>1, <2>3, AppStates
       DEF ServerPlayInterrupt, StartPlay, TypeOK
  <2>5. /\ player'[v] = PausedPlayer(player[v])
        /\ \A w \in Uid \ {u, v} : player'[w] = player[w]
        /\ \/ player'[u] = player[u]
           \/ player[u].mm = "PAUSED" /\ player'[u] = [player[u] EXCEPT !.mm = "PLAYING"]
    BY <1>5, <2>1 DEF ServerPlayInterrupt, ResumePlayer, TypeOK
  <2>6. playing' \in {playing, NoUid, u} /\ playing' # v
    BY <1>5, <2>1, NoUidAssumption DEF ServerPlayInterrupt, ResumePlayer, ReleasedBy
  <2>7. playing' = u => player[u].item
    <3> DEFINE players == [player EXCEPT ![v] = PausedPlayer(@)]
    <3>1. ResumePlayer(u, players, ReleasedBy(v))
      BY <1>5 DEF ServerPlayInterrupt
    <3>2. players[u] = player[u]
      BY <2>1 DEF TypeOK
    <3>3. ReleasedBy(v) = u => player[u].item
      BY NoUidAssumption DEF ReleasedBy, FocusInv, PlayingInfoIsAlive
    <3>4. player[u].mm = "PAUSED" => player[u].item
      BY DEF FocusInv, StreamBelongsToActiveClient
    <3> HIDE DEF players
    <3> QED BY <3>1, <3>2, <3>3, <3>4, NoUidAssumption DEF ResumePlayer
  <2> QED BY <1>3, <2>1, <2>2, <2>4, <2>5, <2>6, <2>7 DEF TakesPlayer
<1> QED BY <1>4, <1>5

LEMMA StopRequestEffect ==
  ASSUME TypeOK, FocusInv, NEW u \in Uid, ServerStop(u) \/ ServerFinalize(u)
  PROVE  Frame \/ StopsClient(u)
<1> USE Entries, PlayerFields, StoppedAppState
<1>1. ~IsActive(app[u]) => player[u].mm = "NULL" /\ player[u].phase = "none"
  BY DEF FocusInv, StreamBelongsToActiveClient, SilentUnlessPlaying
<1>2. CASE ServerStop(u)
  <2>1. app'[u].state = "READY" /\ app[u].state # "ABSENT"
    BY <1>2 DEF ServerStop, Sends, IsClient, IsActive, App, AppState, TypeOK
  <2>2. /\ player'[u] = StoppedPlayer(u)
        /\ \A v \in Uid \ {u} : app'[v] = app[v] /\ player'[v] = player[v]
        /\ playing' = StoppedPlaying(u) /\ nextPlays' = nextPlays
    BY <1>2 DEF ServerStop, TypeOK
  <2>3. CASE IsActive(app[u])
    BY <2>1, <2>2, <2>3 DEF StopsClient, StoppedPlayer, StoppedPlaying
  <2>4. CASE ~IsActive(app[u])
    <3>1. player' = player /\ playing' = playing
      BY <1>2, <2>4 DEF ServerStop, StoppedPlayer, StoppedPlaying, TypeOK
    <3>2. app[u].state = "READY"
      BY <2>1, <2>4 DEF IsActive, App, AppState
    <3> QED BY <2>1, <2>2, <3>1, <3>2 DEF Frame
  <2> QED BY <2>3, <2>4
<1>3. CASE ServerFinalize(u)
  <2>1. /\ app'[u] = NoApp /\ player'[u] = NoPlayer /\ playing' = ReleasedBy(u)
        /\ \A v \in Uid \ {u} : app'[v] = app[v] /\ player'[v] = player[v]
        /\ nextPlays' = nextPlays
    BY <1>3 DEF ServerFinalize, TypeOK
  <2>2. NoApp.state = "ABSENT" /\ ~NoPlayer.item /\ NoPlayer.mm = "NULL"
        /\ NoPlayer.phase = "none"
    BY DEF NoApp, NoPlayer
  <2>3. /\ app'[u].state = "ABSENT" /\ ~player'[u].item
        /\ player'[u].mm = "NULL" /\ player'[u].phase = "none"
    BY <2>1, <2>2
  <2> QED BY <2>1, <2>3 DEF StopsClient
<1> QED BY <1>2, <1>3

LEMMA AddQueueEffect ==
  ASSUME TypeOK, NEW u \in Uid, ServerAddQueue(u)
  PROVE  Frame \/ StopsClient(u)
<1> USE Entries
<1> DEFINE x == AddSpeakData(app[u], uttNext[u])
<1>1. x \in App /\ x.state = app[u].state /\ x.text # <<>>
  <2>1. x.text = Append(app[u].text, uttNext[u])
    BY DEF AddSpeakData, App
  <2>2. Append(app[u].text, uttNext[u]) # <<>>
    BY AppFields, AppendProperties
  <2> QED BY <2>1, <2>2, AddSpeakDataType, AppStates
<1>2. PopSpeakData(x) \in App /\ PopSpeakData(x).state = app[u].state
  BY <1>1, PopSpeakDataType, AppStates
<1>3. nextPlays' = nextPlays
  BY DEF ServerAddQueue
<1>4. CASE UNCHANGED <<app, player, playing>>
  BY <1>3, <1>4 DEF Frame
<1>5. CASE app' = [app EXCEPT ![u] = x] /\ UNCHANGED <<player, playing>>
  <2>1. \A v \in Uid : app'[v].state = app[v].state
    BY <1>1, <1>5 DEF TypeOK
  <2> QED BY <1>3, <1>5, <2>1 DEF Frame
<1>6. CASE app' = [app EXCEPT ![u] = PopSpeakData(x)] /\ UNCHANGED <<player, playing>>
  <2>1. \A v \in Uid : app'[v].state = app[v].state
    BY <1>2, <1>6 DEF TypeOK
  <2> QED BY <1>3, <1>6, <2>1 DEF Frame
<1>7. CASE IsCurrent(u) /\ FailSynthesis(u, PopSpeakData(x))
  BY <1>2, <1>3, <1>7, FailEffect
<1> QED BY <1>4, <1>5, <1>6, <1>7 DEF ServerAddQueue

LEMMA RequestEffect ==
  ASSUME TypeOK, FocusInv, NEW u \in Uid, Request(u)
  PROVE  /\ AsRequest
         /\ \/ Frame \/ StopsClient(u) \/ TakesPlayer(u) \/ PausesClient(u)
            \/ AddsClient(u)
<1>1. AsRequest
  BY DEF Request
<1>2. ServerPlayAgain(u) => Frame
  BY DEF ServerPlayAgain, Frame
<1>3. ServerInitialize(u) => AddsClient(u)
  BY InitializeEffect
<1>4. ServerFinalize(u) \/ ServerStop(u) => Frame \/ StopsClient(u)
  BY StopRequestEffect
<1>5. ServerAddQueue(u) => Frame \/ StopsClient(u)
  BY AddQueueEffect
<1>6. ServerPlay(u) \/ (\E v \in Uid : ServerPlayInterrupt(u, v)) => TakesPlayer(u)
  BY PlayEffect
<1>7. ServerPause(u) => PausesClient(u)
  BY PauseEffect
<1> QED BY <1>1, <1>2, <1>3, <1>4, <1>5, <1>6, <1>7 DEF Request

LEMMA SettingEffect ==
  ASSUME TypeOK, FocusInv, SettingRequest
  PROVE  AsRequest /\ (Frame \/ StopsAll)
BY SetCurrentEngineEffect DEF SettingRequest, SettingInitialize, SettingFinalize, Frame

LEMMA EngineEffect ==
  ASSUME TypeOK, EngineResult
  PROVE  AsEvent /\ Frame
<1>1. UNCHANGED <<player, playing, nextPlays>> /\ AsEvent
  BY DEF EngineResult, EngineSound, EngineFail, EngineLate
<1>2. ASSUME NEW r, NEW event, SoundResult(r, event), NEW v \in Uid
      PROVE  app'[v].state = app[v].state
  <2>1. CASE app' = app
    BY <2>1
  <2>2. CASE app' = [app EXCEPT ![r.uid] =
                       AddSoundData(@, [utt |-> r.utt, event |-> event])]
    <3>1. AddSoundData(app[v], [utt |-> r.utt, event |-> event]).state = app[v].state
      BY AppStates, Entries
    <3> QED BY <2>2, <3>1 DEF TypeOK
  <2> QED BY <1>2, <2>1, <2>2 DEF SoundResult
<1>3. EndResult => \A v \in Uid : app'[v].state = app[v].state
  BY DEF EndResult
<1>4. \A v \in Uid : app'[v].state = app[v].state
  BY <1>2, <1>3 DEF EngineResult, EngineSound, EngineFail, EngineLate
<1> QED BY <1>1, <1>4 DEF Frame

LEMMA TimerEffect ==
  ASSUME TypeOK, FocusInv, SynthesisTimer \/ \E v \in Uid : OneShotTimer(v)
  PROVE  /\ AsEvent
         /\ \/ Frame
            \/ \E u \in Uid : StartsSound(u) \/ StopsClient(u) \/ TimerIdles(u)
<1>1. AsEvent
  BY DEF SynthesisTimer, OneShotTimer
<1>2. EndNextSynthesis => Frame
  BY DEF EndNextSynthesis, Frame
<1>3. ASSUME NEW u \in Uid, SendInterruptClient(u)
      PROVE  Frame
  BY <1>3 DEF SendInterruptClient, Frame
<1>4. ASSUME NEW u \in Uid, StartNextSynthesis(u)
      PROVE  Frame \/ StartsSound(u) \/ StopsClient(u)
  BY <1>4, StartNextSynthesisEffect
<1>5. ASSUME NEW u \in Uid, PlayerNextPlay(u)
      PROVE  TimerIdles(u) \/ StartsSound(u)
  BY <1>5, PlayerNextPlayEffect
<1> QED BY <1>1, <1>2, <1>3, <1>4, <1>5 DEF SynthesisTimer, OneShotTimer

-------------------------------------------------------------------------------
(* Who holds the player and whom one can hear is as promised, for any      *)
(* number of clients and under every fault.                                *)
THEOREM FocusIsSafe == Spec => []FocusInv
<1>1. Init => FocusInv
  BY NoUidAssumption
     DEF Init, FocusInv, OnePlayingClient, PlayingInfoIsAlive,
         StreamBelongsToActiveClient, SilentUnlessPlaying, TimerIsHarmless,
         IsCurrent, NoApp, NoPlayer
<1>2. TypeOK /\ FocusInv /\ [Next]_vars => FocusInv'
  <2> SUFFICES ASSUME TypeOK, FocusInv, [Next]_vars PROVE FocusInv'
    OBVIOUS
  <2>1. CASE UNCHANGED vars
    BY <2>1 DEF vars, FocusInv, OnePlayingClient, PlayingInfoIsAlive,
       StreamBelongsToActiveClient, SilentUnlessPlaying, TimerIsHarmless,
       IsCurrent, IsActive, IsClient
  <2>2. ASSUME NEW u \in Uid, Request(u)
        PROVE  FocusInv'
    BY <2>2, RequestEffect, FrameFocus, StopFocus, TakeFocus, PauseFocus,
       InitializeFocus
  <2>3. CASE SettingRequest
    BY <2>3, SettingEffect, FrameFocus, StopAllFocus
  <2>4. CASE SynthesisTimer \/ \E v \in Uid : OneShotTimer(v)
    BY <2>4, TimerEffect, FrameFocus, StopFocus, StartFocus, IdleFocus
  <2>5. CASE EngineResult
    BY <2>5, EngineEffect, FrameFocus
  <2>6. ASSUME NEW u \in Uid, PlayerMessage(u)
        PROVE  FocusInv'
    BY <2>6, BeginOfStreamFocus, EndOfStreamFocus, PlayerErrorFocus
       DEF PlayerMessage
  <2> QED BY <2>1, <2>2, <2>3, <2>4, <2>5, <2>6 DEF Next
<1> QED BY <1>1, <1>2, TypeCorrect, PTL DEF Spec

(* Two clients never both hold the player.                                 *)
THEOREM OneClientPlays == Spec => []OnePlayingClient
BY FocusIsSafe, PTL DEF FocusInv

(* g_playing_info never points to a player that was destroyed.             *)
THEOREM PlayingInfoNeverDangles == Spec => []PlayingInfoIsAlive
BY FocusIsSafe, PTL DEF FocusInv

(* No stream is left behind a client that is READY or gone.                *)
THEOREM StreamsAreOwned == Spec => []StreamBelongsToActiveClient
BY FocusIsSafe, PTL DEF FocusInv

(* Only the client that holds the player is heard.                         *)
THEOREM OnlyHolderIsHeard == Spec => []OnlyPlayingIsAudible
<1>1. FocusInv => OnlyPlayingIsAudible
  BY DEF FocusInv, SilentUnlessPlaying, OnlyPlayingIsAudible, IsAudible
<1> QED BY <1>1, FocusIsSafe, PTL

(* Nobody is heard but the client that holds the player, and no player that *)
(* is not playing.                                                          *)
THEOREM OthersAreSilent == Spec => []SilentUnlessPlaying
BY FocusIsSafe, PTL DEF FocusInv

-------------------------------------------------------------------------------
(* TtsdServer implements PlayFocus: whatever its queues, timers, engine     *)
(* and mm_player do, the clients see one of them hold the player, the       *)
(* others paused or stopped, and nobody else heard.                         *)

(* The refinement mapping of Focus.                                        *)
Sess == [u \in Uid |-> app[u].state]
Sounding == {u \in Uid : IsAudible(player[u])}

(* Only the client that plays is in Sounding.                              *)
LEMMA SoundingIsCurrent ==
  ASSUME FocusInv, NEW u \in Uid, IsCurrent(u)
  PROVE  /\ \A v \in Uid \ {u} : ~IsCurrent(v) /\ ~IsAudible(player[v])
         /\ Sounding \subseteq {u}
BY DEF FocusInv, OnePlayingClient, SilentUnlessPlaying, IsAudible, Sounding

LEMMA SilentClient ==
  ASSUME FocusInv, NEW u \in Uid, ~IsCurrent(u)
  PROVE  ~IsAudible(player[u])
BY DEF FocusInv, SilentUnlessPlaying, IsAudible

-------------------------------------------------------------------------------
(* Each shape is a step of PlayFocus or a stutter.                         *)

LEMMA FrameRefines ==
  ASSUME Frame
  PROVE  UNCHANGED Focus!vars
BY DEF Frame, Focus!vars

LEMMA IdleRefines ==
  ASSUME NEW u \in Uid, TimerIdles(u)
  PROVE  UNCHANGED Focus!vars
BY DEF TimerIdles, Focus!vars

LEMMA StopRefines ==
  ASSUME TypeOK, NEW u \in Uid, StopsClient(u)
  PROVE  Focus!Stop(u) \/ Focus!Leave(u)
<1>1. Sounding' = Sounding \ {u}
  BY DEF StopsClient, Sounding, IsAudible
<1>2. CASE app'[u].state = "READY"
  <2>1. Sess' = [Sess EXCEPT ![u] = "READY"] /\ Sess[u] \in {"PLAYING", "PAUSED"}
    BY <1>2 DEF StopsClient, IsActive, Sess
  <2> QED BY <1>1, <2>1 DEF Focus!Stop, Sess, Sounding
<1>3. CASE app'[u].state = "ABSENT"
  <2>1. Sess' = [Sess EXCEPT ![u] = "ABSENT"]
    BY <1>3 DEF StopsClient, Sess
  <2> QED BY <1>1, <2>1 DEF Focus!Leave, Sess, Sounding
<1> QED BY <1>2, <1>3 DEF StopsClient

LEMMA StartRefines ==
  ASSUME FocusInv, NEW u \in Uid, StartsSound(u)
  PROVE  Focus!Sound(u) \/ Focus!Silence
<1>1. Sess' = Sess /\ Sess[u] = "PLAYING"
  BY DEF StartsSound, IsCurrent, Sess
<1>2. \A v \in Uid \ {u} : ~IsAudible(player'[v])
  BY SoundingIsCurrent DEF StartsSound
<1>3. Sounding' = IF IsAudible(player'[u]) THEN {u} ELSE {}
  BY <1>2 DEF Sounding
<1> QED BY <1>1, <1>3 DEF Focus!Sound, Focus!Silence, Sess, Sounding

LEMMA TakeRefines ==
  ASSUME TypeOK, FocusInv, NEW u \in Uid, TakesPlayer(u)
  PROVE  Focus!Play(u)
<1> USE Entries
<1>1. Sess[u] \in {"READY", "PAUSED"}
  BY DEF TakesPlayer, IsClient, IsCurrent, Sess, App, AppState
<1>2. Sess' = [v \in Uid |-> IF v = u THEN "PLAYING"
                             ELSE IF Sess[v] = "PLAYING" THEN "PAUSED"
                             ELSE Sess[v]]
  BY DEF TakesPlayer, IsCurrent, Sess
<1>3. ASSUME NEW v \in Uid \ {u}
      PROVE  ~IsAudible(player'[v])
  <2>1. CASE IsCurrent(v)
    BY <2>1, PlayerFields DEF TakesPlayer, IsAudible
  <2>2. CASE ~IsCurrent(v)
    BY <2>2, SilentClient DEF TakesPlayer
  <2> QED BY <2>1, <2>2
<1>4. CASE player'[u] = player[u]
  <2>1. ~IsAudible(player'[u])
    BY <1>4, SilentClient DEF TakesPlayer
  <2>2. Sounding' = {}
    BY <1>3, <2>1 DEF Sounding
  <2> QED BY <1>1, <1>2, <2>2 DEF Focus!Play, Sess, Sounding
<1>5. CASE player[u].mm = "PAUSED"
  <2>1. Sess[u] = "PAUSED"
    BY <1>5 DEF TakesPlayer, FocusInv, StreamBelongsToActiveClient, IsActive,
                IsCurrent, Sess
  <2>2. Sounding' = {} \/ Sounding' = {u}
    BY <1>3 DEF Sounding
  <2> QED BY <1>1, <1>2, <2>1, <2>2 DEF Focus!Play, Sess, Sounding
<1> QED BY <1>4, <1>5 DEF TakesPlayer

LEMMA PauseRefines ==
  ASSUME TypeOK, FocusInv, NEW u \in Uid, PausesClient(u)
  PROVE  Focus!Pause(u)
<1> USE Entries
<1>1. Sess[u] = "PLAYING" /\ Sess' = [Sess EXCEPT ![u] = "PAUSED"]
  BY DEF PausesClient, IsCurrent, Sess
<1>2. \A v \in Uid : ~IsAudible(player'[v])
  BY SoundingIsCurrent, PlayerFields DEF PausesClient, IsAudible
<1>3. Sounding' = {}
  BY <1>2 DEF Sounding
<1> QED BY <1>1, <1>3 DEF Focus!Pause, Sess, Sounding

LEMMA AddRefines ==
  ASSUME TypeOK, FocusInv, NEW u \in Uid, AddsClient(u)
  PROVE  Focus!Join(u)
<1>1. Sess[u] = "ABSENT" /\ Sess' = [Sess EXCEPT ![u] = "READY"]
  BY DEF AddsClient, Sess
<1>2. ~IsAudible(player[u])
  BY SilentClient DEF AddsClient, IsCurrent
<1>3. ~IsAudible(player'[u])
  BY <1>2 DEF AddsClient, NewPlayer, NoPlayer, IsAudible
<1>4. Sounding' = Sounding
  BY <1>2, <1>3 DEF AddsClient, Sounding
<1> QED BY <1>1, <1>4 DEF Focus!Join, Sess, Sounding

LEMMA StopAllRefines ==
  ASSUME StopsAll
  PROVE  Focus!StopAll
<1>1. Sess' = [u \in Uid |-> IF Sess[u] = "ABSENT" THEN "ABSENT" ELSE "READY"]
  BY DEF StopsAll, IsClient, Sess
<1>2. Sounding' = {}
  BY DEF StopsAll, IsAudible, Sounding
<1> QED BY <1>1, <1>2 DEF Focus!StopAll, Sess, Sounding

LEMMA BeginOfStreamRefines ==
  ASSUME TypeOK, FocusInv, NEW u \in Uid, BeginOfStream(u)
  PROVE  UNCHANGED Focus!vars
<1> USE Entries
<1>1. app' = app /\ \A v \in Uid \ {u} : player'[v] = player[v]
  BY DEF BeginOfStream, TypeOK
<1>2. IsAudible(player'[u]) <=> IsAudible(player[u])
  <2>1. /\ player[u].phase = "starting" /\ player'[u].phase = "running"
        /\ player'[u].mm = IF app[u].state = "PAUSED" THEN "PAUSED"
                                                      ELSE player[u].mm
    BY DEF BeginOfStream, TypeOK, Player
  <2>2. app[u].state = "PAUSED" => player[u].mm # "PLAYING"
    BY DEF FocusInv, SilentUnlessPlaying, IsCurrent
  <2> QED BY <2>1, <2>2 DEF IsAudible
<1>3. Sess' = Sess /\ Sounding' = Sounding
  BY <1>1, <1>2 DEF Sess, Sounding
<1> QED BY <1>3 DEF Focus!vars, Sess, Sounding

LEMMA EndOfStreamRefines ==
  ASSUME TypeOK, FocusInv, NEW u \in Uid, EndOfStream(u) \/ PlayerError(u)
  PROVE  Focus!Silence \/ UNCHANGED Focus!vars
<1> USE Entries
<1>1. /\ app' = app /\ \A v \in Uid \ {u} : player'[v] = player[v]
      /\ player'[u].phase = "ended"
  BY DEF EndOfStream, PlayerError, TypeOK, Player
<1>2. Sess' = Sess /\ Sounding' = Sounding \ {u}
  BY <1>1 DEF Sess, Sounding, IsAudible
<1>3. CASE u \in Sounding
  <2>1. IsCurrent(u)
    BY <1>3, SilentClient DEF Sounding
  <2>2. Sounding' = {}
    BY <1>2, <2>1, SoundingIsCurrent
  <2> QED BY <1>2, <2>2 DEF Focus!Silence, Sess, Sounding
<1>4. CASE u \notin Sounding
  <2>1. Sounding' = Sounding
    BY <1>2, <1>4
  <2> QED BY <1>2, <2>1 DEF Focus!vars, Sess, Sounding
<1> QED BY <1>3, <1>4

-------------------------------------------------------------------------------
(* Every behaviour of the daemon is one PlayFocus allows.                  *)
THEOREM ImplementsFocus == Spec => FocusSpec
<1>1. Init => Focus!Init
  <2> SUFFICES ASSUME Init PROVE Focus!Init
    OBVIOUS
  <2>1. Sess = [u \in Uid |-> "ABSENT"] /\ Sounding = {}
    BY DEF Init, NoApp, NoPlayer, IsAudible, Sess, Sounding
  <2> QED BY <2>1 DEF Focus!Init, Sess, Sounding
<1>2. TypeOK /\ FocusInv /\ [Next]_vars => [Focus!Next]_(Focus!vars)
  <2> SUFFICES ASSUME TypeOK, FocusInv, [Next]_vars
               PROVE  Focus!Next \/ UNCHANGED Focus!vars
    OBVIOUS
  <2>1. CASE UNCHANGED vars
    BY <2>1 DEF vars, Focus!vars
  <2>2. ASSUME NEW u \in Uid, Request(u)
        PROVE  Focus!Next \/ UNCHANGED Focus!vars
    BY <2>2, RequestEffect, FrameRefines, StopRefines, TakeRefines, PauseRefines,
       AddRefines DEF Focus!Next
  <2>3. CASE SettingRequest
    BY <2>3, SettingEffect, FrameRefines, StopAllRefines DEF Focus!Next
  <2>4. CASE SynthesisTimer \/ \E v \in Uid : OneShotTimer(v)
    BY <2>4, TimerEffect, FrameRefines, StopRefines, StartRefines, IdleRefines
       DEF Focus!Next
  <2>5. CASE EngineResult
    BY <2>5, EngineEffect, FrameRefines
  <2>6. ASSUME NEW u \in Uid, PlayerMessage(u)
        PROVE  Focus!Next \/ UNCHANGED Focus!vars
    BY <2>6, BeginOfStreamRefines, EndOfStreamRefines
       DEF PlayerMessage, Focus!Next
  <2> QED BY <2>1, <2>2, <2>3, <2>4, <2>5, <2>6 DEF Next
<1> QED BY <1>1, <1>2, TypeCorrect, FocusIsSafe, PTL
        DEF Spec, FocusSpec, Focus!Spec
===============================================================================
