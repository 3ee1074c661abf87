------------------------ MODULE TtsdServerSoundProofs ------------------------
(***************************************************************************)
(* What the daemon keeps of a client's speech after it was stopped, for    *)
(* whom the engine works, and what a client was told of its state.         *)
(*                                                                         *)
(* That stopped speech stays silent needs an engine that delivers nothing  *)
(* for a synthesis once it was cancelled ("late" \notin Faults): the run   *)
(* server_late_sound shows what happens otherwise.                         *)
(***************************************************************************)
EXTENDS TtsdServerTypeProofs

-------------------------------------------------------------------------------
(* The queues of a client hold nothing up to utterance n.                  *)

TextAbove(x, n) == \A i \in DOMAIN x.text : x.text[i] > n
SoundAbove(x, n) == \A i \in DOMAIN x.sound : x.sound[i].utt > n
Fresh(x, n) ==
  /\ TextAbove(x, n) /\ SoundAbove(x, n)
  /\ ~IsClient(x) => x.text = <<>> /\ x.sound = <<>>

LEMMA EmptyFresh ==
  ASSUME NEW x \in App, NEW n \in Nat, x.text = <<>>, x.sound = <<>>
  PROVE  Fresh(x, n)
<1>1. DOMAIN x.text = {} /\ DOMAIN x.sound = {}
  OBVIOUS
<1> QED BY <1>1 DEF Fresh, TextAbove, SoundAbove

LEMMA NewFresh ==
  ASSUME NEW n \in Nat
  PROVE  Fresh(NoApp, n) /\ Fresh(NewClient, n)
<1>1. /\ NoApp.text = <<>> /\ NoApp.sound = <<>>
      /\ NewClient.text = <<>> /\ NewClient.sound = <<>>
  BY DEF NoApp, NewClient
<1> QED BY <1>1, NewRecords, EmptyFresh

(* After a stop nothing is left.                                           *)
LEMMA ClearedFresh ==
  ASSUME NEW x \in App, NEW n \in Nat
  PROVE  /\ Fresh(StoppedApp(x), n)
         /\ Fresh(SetState(ClearData(x), "READY"), n)
<1>1. ClearData(x).text = <<>> /\ ClearData(x).sound = <<>>
  BY DEF ClearData, App
<1>2. /\ SetState(ClearData(x), "READY").text = <<>>
      /\ SetState(ClearData(x), "READY").sound = <<>>
  BY <1>1, ClearDataType DEF SetState, App
<1>3. StoppedApp(x).text = <<>> /\ StoppedApp(x).sound = <<>>
  BY <1>1, <1>2 DEF StoppedApp
<1>4. SetState(ClearData(x), "READY") \in App
  BY ClearDataType, SetStateType DEF AppState
<1> QED BY <1>2, <1>3, <1>4, StoppedAppType, EmptyFresh

LEMMA SetStateFresh ==
  ASSUME NEW x \in App, NEW n \in Nat, Fresh(x, n),
         NEW state \in {"PLAYING", "PAUSED"}
  PROVE  /\ Fresh(SetState(x, state), n)
         /\ IsActive(SetState(x, state))
<1>1. /\ SetState(x, state).text = x.text
      /\ SetState(x, state).sound = x.sound
      /\ SetState(x, state).state = state
  BY DEF SetState, App
<1> QED BY <1>1 DEF Fresh, TextAbove, SoundAbove, IsClient, IsActive

LEMMA AddTextFresh ==
  ASSUME NEW x \in App, NEW n \in Nat, Fresh(x, n), IsClient(x),
         NEW m \in Nat, m > n
  PROVE  /\ Fresh(AddSpeakData(x, m), n)
         /\ AddSpeakData(x, m).state = x.state
         /\ AddSpeakData(x, m).text # <<>>
<1> DEFINE y == AddSpeakData(x, m)
<1>1. y.text = Append(x.text, m) /\ y.sound = x.sound /\ y.state = x.state
  BY DEF AddSpeakData, App
<1>2. x.text \in Seq(Nat)
  BY AppFields
<1>3. /\ y.text # <<>>
      /\ Len(y.text) = Len(x.text) + 1 /\ y.text \in Seq(Nat)
      /\ y.text[Len(y.text)] = m
      /\ \A i \in 1 .. Len(x.text) : y.text[i] = x.text[i]
  BY <1>1, <1>2, AppendProperties
<1>4. DOMAIN x.text = 1 .. Len(x.text) /\ DOMAIN y.text = 1 .. Len(y.text)
      /\ Len(x.text) \in Nat
  BY <1>2, <1>3, LenProperties
<1>5. ASSUME NEW i \in DOMAIN y.text
      PROVE  y.text[i] > n
  <2>1. i \in DOMAIN x.text \/ i = Len(y.text)
    BY <1>3, <1>4, <1>5
  <2>2. CASE i \in DOMAIN x.text
    BY <1>3, <1>4, <2>2 DEF Fresh, TextAbove
  <2> QED BY <1>3, <2>1, <2>2
<1> QED BY <1>1, <1>3, <1>5 DEF Fresh, TextAbove, SoundAbove, IsClient

LEMMA AddSoundFresh ==
  ASSUME NEW x \in App, NEW n \in Nat, Fresh(x, n),
         NEW s \in Sound, s.utt > n
  PROVE  /\ Fresh(AddSoundData(x, s), n)
         /\ AddSoundData(x, s).state = x.state
<1>1. CASE IsClient(x)
  <2> DEFINE y == AddSoundData(x, s)
  <2>1. y.sound = Append(x.sound, s) /\ y.text = x.text /\ y.state = x.state
    BY <1>1 DEF AddSoundData, App
  <2>2. x.sound \in Seq(Sound)
    BY AppFields
  <2>3. /\ Len(y.sound) = Len(x.sound) + 1 /\ y.sound \in Seq(Sound)
        /\ y.sound[Len(y.sound)] = s
        /\ \A i \in 1 .. Len(x.sound) : y.sound[i] = x.sound[i]
    BY <2>1, <2>2, AppendProperties
  <2>4. DOMAIN x.sound = 1 .. Len(x.sound) /\ DOMAIN y.sound = 1 .. Len(y.sound)
        /\ Len(x.sound) \in Nat
    BY <2>2, <2>3, LenProperties
  <2>5. ASSUME NEW i \in DOMAIN y.sound
        PROVE  y.sound[i].utt > n
    <3>1. i \in DOMAIN x.sound \/ i = Len(y.sound)
      BY <2>3, <2>4, <2>5
    <3>2. CASE i \in DOMAIN x.sound
      BY <2>3, <2>4, <3>2 DEF Fresh, SoundAbove
    <3> QED BY <2>3, <3>1, <3>2
  <2> QED BY <1>1, <2>1, <2>5 DEF Fresh, TextAbove, SoundAbove, IsClient
<1>2. CASE ~IsClient(x)
  BY <1>2 DEF AddSoundData
<1> QED BY <1>1, <1>2

LEMMA PopTextFresh ==
  ASSUME NEW x \in App, NEW n \in Nat, Fresh(x, n), x.text # <<>>
  PROVE  /\ Fresh(PopSpeakData(x), n)
         /\ PopSpeakData(x).state = x.state
         /\ Head(x.text) > n
<1> DEFINE y == PopSpeakData(x)
<1>1. y.text = Tail(x.text) /\ y.sound = x.sound /\ y.state = x.state
  BY DEF PopSpeakData, App
<1>2. x.text \in Seq(Nat)
  BY AppFields
<1>3. /\ Head(x.text) = x.text[1] /\ 1 \in DOMAIN x.text
      /\ DOMAIN y.text = 1 .. (Len(x.text) - 1)
      /\ DOMAIN x.text = 1 .. Len(x.text) /\ Len(x.text) \in Nat
      /\ \A i \in 1 .. (Len(x.text) - 1) : y.text[i] = x.text[i + 1]
  BY <1>1, <1>2, HeadTailProperties, LenProperties, EmptySeq
<1>4. ASSUME NEW i \in DOMAIN y.text
      PROVE  y.text[i] > n
  <2>1. i \in 1 .. (Len(x.text) - 1) /\ i + 1 \in DOMAIN x.text
    BY <1>3, <1>4
  <2>2. y.text[i] = x.text[i + 1]
    BY <1>3, <2>1
  <2> QED BY <2>1, <2>2 DEF Fresh, TextAbove
<1> QED BY <1>1, <1>3, <1>4 DEF Fresh, TextAbove, SoundAbove, IsClient

LEMMA PopSoundFresh ==
  ASSUME NEW x \in App, NEW n \in Nat, Fresh(x, n), x.sound # <<>>
  PROVE  /\ Fresh(PopSoundData(x), n)
         /\ PopSoundData(x).state = x.state
<1> DEFINE y == PopSoundData(x)
<1>1. y.sound = Tail(x.sound) /\ y.text = x.text /\ y.state = x.state
  BY DEF PopSoundData, App
<1>2. x.sound \in Seq(Sound)
  BY AppFields
<1>3. /\ DOMAIN y.sound = 1 .. (Len(x.sound) - 1)
      /\ DOMAIN x.sound = 1 .. Len(x.sound) /\ Len(x.sound) \in Nat
      /\ \A i \in 1 .. (Len(x.sound) - 1) : y.sound[i] = x.sound[i + 1]
  BY <1>1, <1>2, HeadTailProperties, LenProperties, EmptySeq
<1>4. ASSUME NEW i \in DOMAIN y.sound
      PROVE  y.sound[i].utt > n
  <2>1. i \in 1 .. (Len(x.sound) - 1) /\ i + 1 \in DOMAIN x.sound
    BY <1>3, <1>4
  <2>2. y.sound[i] = x.sound[i + 1]
    BY <1>3, <2>1
  <2> QED BY <2>1, <2>2 DEF Fresh, SoundAbove
<1> QED BY <1>1, <1>4 DEF Fresh, TextAbove, SoundAbove, IsClient

-------------------------------------------------------------------------------
(* The invariant: nothing up to the last stop waits anywhere, and the      *)
(* engine works, with the daemon's knowledge, for an active client only.   *)

JobIsCurrent ==
  job # NoJob => /\ synth
                 /\ IsActive(app[job.uid])
                 /\ job.utt > cut[job.uid]

SoundInv ==
  /\ late = <<>>
  /\ \A u \in Uid : Fresh(app[u], cut[u]) /\ cut[u] < uttNext[u]
  /\ JobIsCurrent

LEMMA JobFields ==
  ASSUME TypeOK, job # NoJob
  PROVE  job \in Job /\ job.uid \in Uid /\ job.utt \in Nat
BY DEF TypeOK, Job

LEMMA CutType ==
  ASSUME TypeOK, NEW u \in Uid
  PROVE  cut[u] \in Nat /\ uttNext[u] \in Nat /\ uttNext[u] # 0
BY DEF TypeOK

LEMMA SoundInvEntry ==
  ASSUME SoundInv, NEW u \in Uid
  PROVE  Fresh(app[u], cut[u]) /\ cut[u] < uttNext[u]
BY DEF SoundInv

(* A step that leaves the clients, their ids and the engine's synthesis.   *)
LEMMA QuietStep ==
  ASSUME SoundInv, UNCHANGED <<app, uttNext, cut, job, late, synth>>
  PROVE  SoundInv'
BY DEF SoundInv, JobIsCurrent

(* The engine starts on a text of an active client.                        *)
LEMMA BeginJob ==
  ASSUME TypeOK, NEW u \in Uid, NEW n \in Nat, BeginSynthesis(u, n),
         IsActive(app'[u]), n > cut[u], cut' = cut
  PROVE  JobIsCurrent'
BY DEF BeginSynthesis, JobIsCurrent

(* The synthesis goes on while every active client stays active.           *)
LEMMA KeepJob ==
  ASSUME TypeOK, SoundInv, UNCHANGED <<job, synth, cut>>,
         \A v \in Uid : IsActive(app[v]) => IsActive(app'[v])
  PROVE  JobIsCurrent'
BY JobFields DEF SoundInv, JobIsCurrent

(* What a step that changes client u only leaves to show.                  *)
LEMMA OneClientStep ==
  ASSUME TypeOK, SoundInv, NEW u \in Uid, NEW x \in App,
         app' = [app EXCEPT ![u] = x],
         \A v \in Uid \ {u} : cut'[v] = cut[v] /\ uttNext'[v] = uttNext[v],
         Fresh(x, cut'[u]), cut'[u] < uttNext'[u],
         late' = late, JobIsCurrent'
  PROVE  SoundInv'
<1>1. app'[u] = x /\ \A v \in Uid \ {u} : app'[v] = app[v]
  BY DEF TypeOK
<1> QED BY <1>1 DEF SoundInv

(* StopSynthesis drops the synthesis of u, and perhaps of another client.  *)
LEMMA StopJob ==
  ASSUME "late" \notin Faults, TypeOK, SoundInv, NEW u \in Uid, StopSynthesis(u),
         NEW x \in App, app' = [app EXCEPT ![u] = x],
         \A v \in Uid \ {u} : cut'[v] = cut[v]
  PROVE  late' = late /\ JobIsCurrent'
<1>1. late' = late /\ (job' = NoJob \/ (UNCHANGED <<job, synth>> /\ (synth => ~IsActive(app[u]))))
  BY DEF StopSynthesis, CancelSynthesis
<1>2. CASE job' = NoJob
  BY <1>1, <1>2 DEF JobIsCurrent, NoJob
<1>3. CASE job' # NoJob
  <2>1. job' = job /\ synth' = synth /\ synth /\ job.uid \in Uid /\ job.uid # u
    BY <1>1, <1>3, JobFields DEF SoundInv, JobIsCurrent
  <2>2. app'[job.uid] = app[job.uid] /\ cut'[job.uid] = cut[job.uid]
    BY <2>1 DEF TypeOK
  <2> QED BY <1>1, <1>3, <2>1, <2>2 DEF SoundInv, JobIsCurrent
<1> QED BY <1>1, <1>2, <1>3

(* A refused text stops its client; the engine was idle.                   *)
LEMMA FailStep ==
  ASSUME TypeOK, SoundInv, ~synth, NEW u \in Uid, NEW x \in App,
         FailSynthesis(u, x),
         \A v \in Uid \ {u} : cut'[v] = cut[v] /\ uttNext'[v] = uttNext[v],
         cut'[u] \in Nat, cut'[u] < uttNext'[u]
  PROVE  SoundInv'
<1>1. job = NoJob
  BY DEF SoundInv, JobIsCurrent
<1>2. job' = NoJob /\ late' = late /\ app' = [app EXCEPT ![u] = StoppedApp(x)]
  BY <1>1 DEF FailSynthesis
<1>3. JobIsCurrent'
  BY <1>2 DEF JobIsCurrent, NoJob
<1>4. StoppedApp(x) \in App /\ Fresh(StoppedApp(x), cut'[u])
  BY StoppedAppType, ClearedFresh
<1> QED BY <1>2, <1>3, <1>4, OneClientStep

LEMMA PlayerPlaySound ==
  ASSUME TypeOK, SoundInv, NEW u \in Uid, NEW x \in App, Fresh(x, cut[u]),
         PlayerPlay(u, x)
  PROVE  \E y \in App : /\ app' = [app EXCEPT ![u] = y]
                        /\ Fresh(y, cut[u]) /\ y.state = x.state
<1>1. CASE CanPlay(u, x)
  <2>1. x.sound # <<>> /\ app' = [app EXCEPT ![u] = PopSoundData(x)]
    BY <1>1 DEF CanPlay, PlayerPlay, SetAndStart
  <2> QED BY <2>1, PopSoundDataType, PopSoundFresh, CutType
<1>2. CASE ~CanPlay(u, x)
  BY <1>2 DEF PlayerPlay
<1> QED BY <1>1, <1>2

LEMMA StartPlaySound ==
  ASSUME TypeOK, SoundInv, NEW u \in Uid,
         NEW x \in App, Fresh(x, cut[u]), IsActive(x),
         NEW apps \in [Uid -> App],
         \A v \in Uid : /\ Fresh(apps[v], cut[v])
                        /\ IsActive(app[v]) => IsActive(apps[v]),
         StartPlay(u, x, apps), UNCHANGED <<uttNext, cut>>
  PROVE  SoundInv'
<1>1. late' = late
  BY DEF StartPlay, BeginSynthesis
<1>2. CASE synth \/ x.text = <<>>
  <2>1. app' = [apps EXCEPT ![u] = x] /\ UNCHANGED <<synth, job>>
    BY <1>2 DEF StartPlay
  <2>2. \A v \in Uid : Fresh(app'[v], cut[v]) /\ (IsActive(app[v]) => IsActive(app'[v]))
    BY <2>1
  <2>3. JobIsCurrent'
    BY <2>1, <2>2, KeepJob
  <2> QED BY <1>1, <2>2, <2>3 DEF SoundInv
<1>3. CASE ~synth /\ x.text # <<>>
  <2> DEFINE y == PopSpeakData(x)
  <2>1. y \in App /\ Fresh(y, cut[u]) /\ IsActive(y)
        /\ Head(x.text) > cut[u] /\ Head(x.text) \in Nat
    BY <1>3, PopSpeakDataType, PopTextFresh, CutType DEF IsActive
  <2>2. app' = [apps EXCEPT ![u] = y] /\ ~synth
        /\ (BeginSynthesis(u, Head(x.text)) \/ UNCHANGED <<synth, job>>)
    BY <1>3 DEF StartPlay
  <2>3. \A v \in Uid : Fresh(app'[v], cut[v]) /\ (IsActive(app[v]) => IsActive(app'[v]))
    BY <2>1, <2>2
  <2>4. IsActive(app'[u])
    BY <2>1, <2>2
  <2>5. JobIsCurrent'
    BY <2>1, <2>2, <2>3, <2>4, BeginJob, KeepJob
  <2> QED BY <1>1, <2>3, <2>5 DEF SoundInv
<1> QED BY <1>2, <1>3 DEF StartPlay

-------------------------------------------------------------------------------
(* The invariant is kept by each kind of step.                             *)

LEMMA AddQueueSound ==
  ASSUME TypeOK, SoundInv, NEW u \in Uid, ServerAddQueue(u)
  PROVE  SoundInv'
<1> DEFINE x == AddSpeakData(app[u], uttNext[u])
<1>1. /\ app[u] \in App /\ IsClient(app[u]) /\ Fresh(app[u], cut[u])
      /\ cut[u] \in Nat /\ uttNext[u] \in Nat /\ cut[u] < uttNext[u]
  BY Entries, CutType, SoundInvEntry DEF ServerAddQueue, Sends
<1>2. x \in App /\ Fresh(x, cut[u]) /\ x.text # <<>> /\ x.state = app[u].state
  BY <1>1, AddTextFresh, AddSpeakDataType
<1>3. /\ uttNext'[u] = uttNext[u] + 1
      /\ \A v \in Uid \ {u} : uttNext'[v] = uttNext[v]
  BY DEF ServerAddQueue, TypeOK
<1>4. cut[u] < uttNext'[u] /\ uttNext[u] < uttNext'[u]
  BY <1>1, <1>3
<1>5. ASSUME UNCHANGED <<app, player, playing, synth, job, late, told, cut>>
      PROVE  SoundInv'
  <2>1. app' = [app EXCEPT ![u] = app[u]]
    BY <1>5 DEF TypeOK
  <2>2. JobIsCurrent'
    BY <1>5, KeepJob
  <2> QED BY <1>1, <1>3, <1>4, <1>5, <2>1, <2>2, OneClientStep
<1>6. ASSUME app' = [app EXCEPT ![u] = x],
             UNCHANGED <<player, playing, synth, job, late, told, cut>>
      PROVE  SoundInv'
  <2>1. \A v \in Uid : IsActive(app[v]) => IsActive(app'[v])
    BY <1>2, <1>6 DEF IsActive, TypeOK
  <2>2. JobIsCurrent'
    BY <1>6, <2>1, KeepJob
  <2> QED BY <1>2, <1>3, <1>4, <1>6, <2>2, OneClientStep
<1>7. ASSUME IsCurrent(u), app' = [app EXCEPT ![u] = PopSpeakData(x)],
             BeginSynthesis(u, Head(x.text)), UNCHANGED <<player, playing, told, cut>>
      PROVE  SoundInv'
  <2>1. /\ PopSpeakData(x) \in App /\ Fresh(PopSpeakData(x), cut[u])
        /\ PopSpeakData(x).state = "PLAYING"
        /\ Head(x.text) \in Nat /\ Head(x.text) > cut[u]
    BY <1>1, <1>2, <1>7, PopSpeakDataType, PopTextFresh DEF IsCurrent
  <2>2. IsActive(app'[u])
    BY <1>7, <2>1 DEF IsActive, TypeOK
  <2>3. JobIsCurrent'
    BY <1>7, <2>1, <2>2, BeginJob
  <2>4. late' = late
    BY <1>7 DEF BeginSynthesis
  <2> QED BY <1>3, <1>4, <1>7, <2>1, <2>3, <2>4, OneClientStep
<1>8. ASSUME ~synth, FailSynthesis(u, PopSpeakData(x)),
             cut' = [cut EXCEPT ![u] = uttNext[u]]
      PROVE  SoundInv'
  <2>1. cut'[u] = uttNext[u] /\ \A v \in Uid \ {u} : cut'[v] = cut[v]
    BY <1>8 DEF TypeOK
  <2>2. PopSpeakData(x) \in App
    BY <1>2, PopSpeakDataType
  <2> QED BY <1>1, <1>3, <1>4, <1>8, <2>1, <2>2, FailStep
<1> QED BY <1>5, <1>6, <1>7, <1>8 DEF ServerAddQueue

LEMMA PlaySound ==
  ASSUME TypeOK, SoundInv, NEW u \in Uid,
         ServerPlay(u) \/ \E v \in Uid : ServerPlayInterrupt(u, v)
  PROVE  SoundInv'
<1> DEFINE x == SetState(app[u], "PLAYING")
<1>1. \A v \in Uid : app[v] \in App /\ cut[v] \in Nat /\ Fresh(app[v], cut[v])
  BY Entries, CutType, SoundInvEntry
<1>2. x \in App /\ Fresh(x, cut[u]) /\ IsActive(x)
  BY <1>1, SetStateType, SetStateFresh DEF AppState
<1>3. CASE ServerPlay(u)
  BY <1>1, <1>2, <1>3, StartPlaySound DEF ServerPlay, TypeOK
<1>4. ASSUME NEW v \in Uid, ServerPlayInterrupt(u, v)
      PROVE  SoundInv'
  <2> DEFINE apps == [app EXCEPT ![v] = SetState(@, "PAUSED")]
  <2>1. /\ SetState(app[v], "PAUSED") \in App
        /\ Fresh(SetState(app[v], "PAUSED"), cut[v])
        /\ IsActive(SetState(app[v], "PAUSED"))
    BY <1>1, SetStateType, SetStateFresh DEF AppState
  <2>2. /\ apps \in [Uid -> App]
        /\ \A w \in Uid : /\ Fresh(apps[w], cut[w])
                          /\ IsActive(app[w]) => IsActive(apps[w])
    BY <1>1, <2>1 DEF TypeOK
  <2>3. StartPlay(u, x, apps) /\ UNCHANGED <<uttNext, cut>>
    BY <1>4 DEF ServerPlayInterrupt
  <2> QED BY <1>2, <2>2, <2>3, StartPlaySound
<1> QED BY <1>3, <1>4

LEMMA StopSound ==
  ASSUME "late" \notin Faults, TypeOK, SoundInv, NEW u \in Uid,
         ServerStop(u) \/ ServerFinalize(u)
  PROVE  SoundInv'
<1>1. /\ cut'[u] = uttNext[u] - 1 /\ \A v \in Uid \ {u} : cut'[v] = cut[v]
      /\ uttNext' = uttNext
  BY DEF ServerStop, ServerFinalize, Cuts, TypeOK
<1>2. cut'[u] \in Nat /\ cut'[u] < uttNext'[u]
  BY <1>1, CutType
<1>3. PICK x \in App : app' = [app EXCEPT ![u] = x] /\ Fresh(x, cut'[u])
  <2>1. /\ StoppedApp(app[u]) \in App /\ Fresh(StoppedApp(app[u]), cut'[u])
        /\ NoApp \in App /\ Fresh(NoApp, cut'[u])
    BY <1>2, Entries, StoppedAppType, ClearedFresh, NewFresh, NewRecords
  <2> QED BY <2>1 DEF ServerStop, ServerFinalize
<1>4. StopSynthesis(u) \/ (job' = NoJob /\ late' = <<>>)
  BY DEF ServerStop, ServerFinalize
<1>5. late' = late /\ JobIsCurrent'
  BY <1>1, <1>3, <1>4, StopJob DEF SoundInv, JobIsCurrent, NoJob
<1> QED BY <1>1, <1>2, <1>3, <1>5, OneClientStep

LEMMA PauseSound ==
  ASSUME TypeOK, SoundInv, NEW u \in Uid, ServerPause(u)
  PROVE  SoundInv'
<1> DEFINE x == SetState(app[u], "PAUSED")
<1>1. x \in App /\ Fresh(x, cut[u]) /\ IsActive(x)
  BY Entries, CutType, SoundInvEntry, SetStateType, SetStateFresh DEF AppState
<1>2. /\ app' = [app EXCEPT ![u] = x]
      /\ UNCHANGED <<uttNext, cut, job, late, synth>>
  BY DEF ServerPause, serverVars, engineVars
<1>3. \A v \in Uid : IsActive(app[v]) => IsActive(app'[v])
  BY <1>1, <1>2 DEF TypeOK
<1>4. JobIsCurrent'
  BY <1>2, <1>3, KeepJob
<1> QED BY <1>1, <1>2, <1>4, SoundInvEntry, OneClientStep

LEMMA InitializeSound ==
  ASSUME TypeOK, SoundInv, NEW u \in Uid, ServerInitialize(u)
  PROVE  SoundInv'
<1>1. /\ app' = [app EXCEPT ![u] = NewClient] /\ ~IsActive(app[u])
      /\ UNCHANGED <<uttNext, cut, job, late, synth>>
  BY DEF ServerInitialize, serverVars, IsClient, IsActive
<1>2. \A v \in Uid : IsActive(app[v]) => IsActive(app'[v])
  BY <1>1 DEF TypeOK
<1>3. JobIsCurrent'
  BY <1>1, <1>2, KeepJob
<1> QED BY <1>1, <1>3, NewRecords, NewFresh, CutType, SoundInvEntry, OneClientStep

LEMMA SettingSound ==
  ASSUME TypeOK, SoundInv, SettingRequest
  PROVE  SoundInv'
<1>1. CASE SettingInitialize
  BY <1>1, QuietStep DEF SettingInitialize, serverVars, clientVars
<1>2. CASE SettingFinalize
  BY <1>2 DEF SettingFinalize, SoundInv, JobIsCurrent, serverVars, engineVars,
              clientVars, NoJob
<1>3. CASE SetCurrentEngine
  <2>1. ASSUME NEW u \in Uid
        PROVE  Fresh(app'[u], cut'[u]) /\ cut'[u] < uttNext'[u]
    <3>1. /\ cut'[u] = uttNext[u] - 1 /\ uttNext'[u] = uttNext[u]
          /\ app'[u] = IF IsClient(app[u])
                         THEN SetState(ClearData(app[u]), "READY") ELSE app[u]
      BY <1>3 DEF SetCurrentEngine
    <3>2. cut'[u] \in Nat /\ cut'[u] < uttNext'[u]
      BY <3>1, CutType
    <3>3. ~IsClient(app[u]) => app[u].text = <<>> /\ app[u].sound = <<>>
      BY SoundInvEntry DEF Fresh
    <3>4. Fresh(app'[u], cut'[u])
      BY <3>1, <3>2, <3>3, Entries, ClearedFresh, EmptyFresh
    <3> QED BY <3>2, <3>4
  <2> QED BY <1>3, <2>1 DEF SetCurrentEngine, SoundInv, JobIsCurrent, NoJob
<1> QED BY <1>1, <1>2, <1>3 DEF SettingRequest

LEMMA NextSynthesisSound ==
  ASSUME TypeOK, SoundInv, NEW u \in Uid, StartNextSynthesis(u)
  PROVE  SoundInv'
<1> DEFINE x == app[u]
<1>1. /\ x \in App /\ Fresh(x, cut[u]) /\ x.state = "PLAYING" /\ uttNext' = uttNext
      /\ cut[u] \in Nat /\ cut[u] < uttNext[u]
  BY Entries, CutType, SoundInvEntry DEF StartNextSynthesis, IsCurrent
<1>2. CASE UNCHANGED <<app, player, playing, synth, job, late, told, cut>>
  BY <1>1, <1>2, QuietStep
<1>3. CASE PlayerPlay(u, x) /\ UNCHANGED <<synth, job, late, told, cut>>
  <2>1. PICK y \in App : /\ app' = [app EXCEPT ![u] = y]
                         /\ Fresh(y, cut[u]) /\ y.state = x.state
    BY <1>1, <1>3, PlayerPlaySound
  <2>2. \A v \in Uid : IsActive(app[v]) => IsActive(app'[v])
    BY <2>1 DEF IsActive, TypeOK
  <2>3. JobIsCurrent'
    BY <1>3, <2>2, KeepJob
  <2> QED BY <1>1, <1>3, <2>1, <2>3, OneClientStep
<1>4. CASE /\ x.text # <<>> /\ BeginSynthesis(u, Head(x.text))
           /\ PlayerPlay(u, PopSpeakData(x)) /\ UNCHANGED <<told, cut>>
  <2>1. /\ PopSpeakData(x) \in App /\ Fresh(PopSpeakData(x), cut[u])
        /\ PopSpeakData(x).state = "PLAYING"
        /\ Head(x.text) \in Nat /\ Head(x.text) > cut[u]
    BY <1>1, <1>4, PopSpeakDataType, PopTextFresh
  <2>2. PICK y \in App : /\ app' = [app EXCEPT ![u] = y]
                         /\ Fresh(y, cut[u]) /\ y.state = "PLAYING"
    BY <1>4, <2>1, PlayerPlaySound
  <2>3. IsActive(app'[u])
    BY <2>2 DEF IsActive, TypeOK
  <2>4. JobIsCurrent' /\ late' = late
    BY <1>4, <2>1, <2>3, BeginJob DEF BeginSynthesis
  <2> QED BY <1>1, <1>4, <2>2, <2>4, OneClientStep
<1>5. CASE ~synth /\ x.text # <<>> /\ FailSynthesis(u, PopSpeakData(x)) /\ Cuts(u)
  <2>1. cut'[u] = uttNext[u] - 1 /\ \A v \in Uid \ {u} : cut'[v] = cut[v]
    BY <1>5 DEF Cuts, TypeOK
  <2>2. cut'[u] \in Nat /\ cut'[u] < uttNext'[u]
    BY <1>1, <2>1, CutType
  <2>3. PopSpeakData(x) \in App
    BY <1>1, <1>5, PopSpeakDataType
  <2> QED BY <1>1, <1>5, <2>1, <2>2, <2>3, FailStep
<1> QED BY <1>2, <1>3, <1>4, <1>5 DEF StartNextSynthesis

LEMMA NextPlaySound ==
  ASSUME TypeOK, SoundInv, NEW u \in Uid, PlayerNextPlay(u)
  PROVE  SoundInv'
<1>1. UNCHANGED <<uttNext, cut, job, late, synth>>
  BY DEF PlayerNextPlay, serverVars, engineVars, clientVars
<1>2. CASE app' = app
  BY <1>1, <1>2, QuietStep
<1>3. CASE app[u].sound # <<>> /\ app' = [app EXCEPT ![u] = PopSoundData(app[u])]
  <2>1. /\ PopSoundData(app[u]) \in App /\ Fresh(PopSoundData(app[u]), cut[u])
        /\ PopSoundData(app[u]).state = app[u].state
    BY <1>3, Entries, CutType, SoundInvEntry, PopSoundDataType, PopSoundFresh
  <2>2. \A v \in Uid : IsActive(app[v]) => IsActive(app'[v])
    BY <1>3, <2>1 DEF IsActive, TypeOK
  <2>3. JobIsCurrent'
    BY <1>1, <2>2, KeepJob
  <2> QED BY <1>1, <1>3, <2>1, <2>3, SoundInvEntry, OneClientStep
<1> QED BY <1>2, <1>3 DEF PlayerNextPlay, SetAndStart

LEMMA EngineStepSound ==
  ASSUME TypeOK, SoundInv, EngineResult
  PROVE  SoundInv'
<1>1. ASSUME NEW event \in SoundEvent, EngineSound(event)
      PROVE  SoundInv'
  <2> DEFINE u == job.uid
             s == [utt |-> job.utt, event |-> event]
  <2>1. /\ job \in Job /\ u \in Uid /\ s \in Sound /\ job # NoJob
        /\ synth /\ IsActive(app[u]) /\ s.utt > cut[u]
    BY <1>1, JobFields DEF EngineSound, SoundInv, JobIsCurrent, Sound
  <2>2. UNCHANGED <<uttNext, cut, late>>
    BY <1>1 DEF EngineSound, clientVars
  <2>3. PICK y \in App : /\ app' = [app EXCEPT ![u] = y]
                         /\ Fresh(y, cut[u]) /\ y.state = app[u].state
    <3>1. /\ AddSoundData(app[u], s) \in App /\ Fresh(AddSoundData(app[u], s), cut[u])
          /\ AddSoundData(app[u], s).state = app[u].state
      BY <2>1, Entries, CutType, SoundInvEntry, AddSoundDataType, AddSoundFresh
    <3>2. app = [app EXCEPT ![u] = app[u]]
      BY DEF TypeOK
    <3>3. app' = app \/ app' = [app EXCEPT ![u] = AddSoundData(app[u], s)]
      BY <1>1 DEF EngineSound, SoundResult
    <3> QED BY <2>1, <3>1, <3>2, <3>3, Entries, SoundInvEntry
  <2>4. event # "FINISH" => synth' /\ job'.uid = u /\ job'.utt = job.utt
    BY <1>1, <2>1 DEF EngineSound, SoundResult, Job
  <2>5. IsActive(app'[u])
    BY <2>1, <2>3 DEF IsActive, TypeOK
  <2>6. JobIsCurrent'
    BY <1>1, <2>1, <2>2, <2>4, <2>5 DEF EngineSound, JobIsCurrent, Sound
  <2> QED BY <2>1, <2>2, <2>3, <2>6, SoundInvEntry, OneClientStep
<1>2. CASE EngineFail
  BY <1>2 DEF EngineFail, EndResult, SoundInv, JobIsCurrent, clientVars, NoJob
<1>3. ~EngineLate
  BY DEF EngineLate, SoundInv
<1> QED BY <1>1, <1>2, <1>3 DEF EngineResult

LEMMA SoundStep ==
  ASSUME "late" \notin Faults, TypeOK, SoundInv, [Next]_vars
  PROVE  SoundInv'
<1>1. CASE UNCHANGED vars
  BY <1>1, QuietStep DEF vars
<1>2. ASSUME NEW u \in Uid, Request(u)
      PROVE  SoundInv'
  <2>1. CASE ServerPlayAgain(u)
    BY <2>1, QuietStep DEF ServerPlayAgain, serverVars, engineVars
  <2> QED BY <1>2, <2>1, InitializeSound, StopSound, AddQueueSound, PlaySound,
             PauseSound DEF Request
<1>3. ASSUME NEW u \in Uid, OneShotTimer(u)
      PROVE  SoundInv'
  <2>1. CASE SendInterruptClient(u)
    BY <2>1, QuietStep DEF SendInterruptClient, engineVars
  <2> QED BY <1>3, <2>1, NextPlaySound DEF OneShotTimer
<1>4. CASE SynthesisTimer
  <2>1. CASE EndNextSynthesis
    BY <2>1, QuietStep DEF EndNextSynthesis, engineVars, clientVars
  <2> QED BY <1>4, <2>1, NextSynthesisSound DEF SynthesisTimer
<1>5. ASSUME NEW u \in Uid, PlayerMessage(u)
      PROVE  SoundInv'
  <2>1. UNCHANGED <<app, uttNext, cut, job, late, synth>>
    BY <1>5 DEF PlayerMessage, BeginOfStream, EndOfStream, PlayerError,
                serverVars, engineVars, clientVars
  <2> QED BY <2>1, QuietStep
<1> QED BY <1>1, <1>2, <1>3, <1>4, <1>5, SettingSound, EngineStepSound DEF Next

LEMMA SoundInvariant ==
  ASSUME "late" \notin Faults
  PROVE  Spec => []SoundInv
<1>1. Init => SoundInv
  <2> SUFFICES ASSUME Init PROVE SoundInv
    OBVIOUS
  <2>1. ASSUME NEW u \in Uid
        PROVE  Fresh(app[u], cut[u]) /\ cut[u] < uttNext[u]
    BY NewFresh DEF Init
  <2> QED BY <2>1 DEF Init, SoundInv, JobIsCurrent
<1>2. TypeOK /\ SoundInv /\ [Next]_vars => SoundInv'
  BY SoundStep
<1> QED BY <1>1, <1>2, TypeCorrect, PTL DEF Spec

(* The engine works only while the daemon knows it, so that a text never   *)
(* meets a busy engine.                                                    *)
THEOREM EngineIsBusyAsKnown ==
  ASSUME "late" \notin Faults
  PROVE  Spec => []EngineBusyIsKnown
<1>1. SoundInv => EngineBusyIsKnown
  BY DEF SoundInv, JobIsCurrent, EngineBusyIsKnown
<1> QED BY <1>1, SoundInvariant, PTL

(* Once a client was stopped, no sound of an older text ever waits for its *)
(* player.                                                                 *)
THEOREM StoppedSpeechStaysSilent ==
  ASSUME "late" \notin Faults
  PROVE  Spec => []NoStaleSound
<1>1. SoundInv => NoStaleSound
  BY DEF SoundInv, Fresh, SoundAbove, NoStaleSound
<1> QED BY <1>1, SoundInvariant, PTL
===============================================================================
