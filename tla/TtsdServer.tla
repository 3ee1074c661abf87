------------------------------ MODULE TtsdServer ------------------------------
(***************************************************************************)
(* The playback core of tts-daemon: server/ttsd_server.cpp on top of       *)
(* ttsd_data.cpp and ttsd_player.cpp.                                      *)
(*                                                                         *)
(* The daemon is one ecore main loop.  A D-Bus request, a timer, a result  *)
(* of the engine and a message of mm_player are each handled to the end    *)
(* before the next one, so each handler is one action; what interleaves is *)
(* the order of the handlers.  The engine and mm_player work on their own  *)
(* between them.  An iteration of the loop first runs the timers that are  *)
(* due, then at most one D-Bus request (listener_event_callback pops one   *)
(* message): a timer of delay 0 is overtaken by one request at most.       *)
(*                                                                         *)
(* External: the engine plug-in (server/ttsp.h), mm_player, the network.   *)
(* "Faults" names what they may do wrong in a run.  Running out of memory  *)
(* (the only way the message senders of ttsd_dbus.c fail) is left out.     *)
(***************************************************************************)
EXTENDS TtsdPlayer

CONSTANTS
  Uid,        \* the clients, one per tts handle of an application
  NoUid,      \* stands for a null pointer to a client
  Requests,   \* the kinds of request that arrive in this run
  Faults,     \* what the engine, mm_player and the network may do wrong
  Chunkings,  \* how the engine delivers: in one result, in several, or both
  MaxUtt,     \* bound: texts a client adds
  MaxTimers,  \* bound: timers of one kind pending at a time
  MaxLate     \* bound: cancelled syntheses that may still deliver a result

RequestKind == {"add", "play", "stop", "pause", "finalize", "engine"}
FaultKind ==
  {"voice", "network", "synth", "player", "create", "load", "format", "late"}

ASSUME NoUidAssumption == NoUid \notin Uid
ASSUME RequestsAssumption == Requests \subseteq RequestKind
ASSUME FaultsAssumption == Faults \subseteq FaultKind
ASSUME ChunkingsAssumption == Chunkings \subseteq {"single", "multi"}
ASSUME BoundsAssumption ==
  MaxUtt \in Nat /\ MaxTimers \in Nat \ {0} /\ MaxLate \in Nat

VARIABLES
  app,         \* g_app_list: [Uid -> App]
  player,      \* g_player_list with the mm_player handles: [Uid -> Player]
  playing,     \* g_playing_info: the uid of the entry it points to, or NoUid
  synth,       \* g_is_synthesizing
  next,        \* g_is_next_synthesis
  synthTimers, \* pending __start_next_synthesis timers
  interrupts,  \* pending __send_interrupt_client timers, per client
  nextPlays,   \* pending __player_next_play timers, per client
  due,         \* a request was handled since these one-shot timers were added
  job,         \* the engine's synthesis, or NoJob
  late,        \* cancelled syntheses that still have a result to deliver
  loaded,      \* g_cur_engine.is_loaded
  setting,     \* whether a setting application is registered (g_setting_list)
  uttNext,     \* the id the client gives its next text
  told,        \* the state the client was told last, by a reply or a message
  heard,       \* the utterances last announced to the client
  cut          \* history: the last id the client had used when it was stopped

serverVars == <<synth, next, synthTimers, interrupts>>
engineVars == <<job, late, loaded>>
clientVars == <<uttNext, told, heard, cut>>
vars == <<app, player, playing, synth, next, synthTimers, interrupts,
          nextPlays, due, job, late, loaded, setting, uttNext, told, heard, cut>>

(* utterance_t with the last result the engine gave for it.                *)
JobEvent == {"NONE", "START", "CONTINUE"}
Job == [uid: Uid, utt: Nat, sent: JobEvent]
NoJob == [uid |-> NoUid, utt |-> 0, sent |-> "NONE"]

(* What the client library knows: CREATED until its prepare succeeded.     *)
ToldState == {"CREATED", "READY", "PLAYING", "PAUSED"}
Heard == [started: Nat, done: Nat]

TypeOK ==
  /\ app \in [Uid -> App]
  /\ player \in [Uid -> Player]
  /\ playing \in Uid \cup {NoUid}
  /\ synth \in BOOLEAN
  /\ next \in BOOLEAN
  /\ synthTimers \in Nat
  /\ interrupts \in [Uid -> Nat]
  /\ nextPlays \in [Uid -> Nat]
  /\ due \in BOOLEAN
  /\ job \in Job \cup {NoJob}
  /\ late \in Seq(Job)
  /\ loaded \in BOOLEAN
  /\ setting \in BOOLEAN
  /\ uttNext \in [Uid -> Nat \ {0}]
  /\ told \in [Uid -> ToldState]
  /\ heard \in [Uid -> Heard]
  /\ cut \in [Uid -> Nat]

Init ==
  /\ app = [u \in Uid |-> NoApp]
  /\ player = [u \in Uid |-> NoPlayer]
  /\ playing = NoUid
  /\ synth = FALSE
  /\ next = FALSE
  /\ synthTimers = 0
  /\ interrupts = [u \in Uid |-> 0]
  /\ nextPlays = [u \in Uid |-> 0]
  /\ due = FALSE
  /\ job = NoJob
  /\ late = <<>>
  /\ loaded = FALSE
  /\ setting = FALSE
  /\ uttNext = [u \in Uid |-> 1]
  /\ told = [u \in Uid |-> "CREATED"]
  /\ heard = [u \in Uid |-> [started |-> 0, done |-> 0]]
  /\ cut = [u \in Uid |-> 0]

-------------------------------------------------------------------------------
(* Helpers shared by the handlers.                                         *)

(* ttsd_data_get_client_count is not zero.                                 *)
HasUsers == setting \/ \E u \in Uid : IsClient(app[u])

(* A request comes from a client whose prepare succeeded.                  *)
Sends(u, kind) == kind \in Requests /\ told[u] # "CREATED" /\ IsClient(app[u])

(* ttsd_data_get_current_playing: the client in state PLAYING, or NoUid.   *)
IsCurrent(u) == app[u].state = "PLAYING"

(* Mutant of NobodyPlays: it asks the player instead of the client data.   *)
NobodyPlaysByInfo == playing = NoUid

NobodyPlays == \A u \in Uid : ~IsCurrent(u)

(* Mutant of ReleasedBy: g_playing_info is never reset.                    *)
ReleasedByNobody(u) == playing

(* g_playing_info after the entry of u was released.                       *)
ReleasedBy(u) == IF playing = u THEN NoUid ELSE playing

(* ttsp.h: start_synth fails unless the engine is loaded and idle.         *)
EngineAccepts == loaded /\ job = NoJob
EngineRefuses == ~EngineAccepts \/ "synth" \in Faults

Told(u, state) == told' = [told EXCEPT ![u] = state]

(* ttsd_engine_cancel_synthesis: the engine drops its synthesis.  One that *)
(* has a result under way still delivers it ("late").                      *)
CancelSynthesis ==
  /\ job' = NoJob
  /\ \/ late' = late
     \/ /\ "late" \in Faults
        /\ job # NoJob /\ Len(late) < MaxLate
        /\ late' = Append(late, job)

-------------------------------------------------------------------------------
(* ttsd_server_stop.  It is called by the stop and the finalize request    *)
(* and by a synthesis that failed to start.                                *)

StoppedApp(a) ==
  IF IsActive(a) THEN SetState(ClearData(a), "READY") ELSE ClearData(a)

(* Mutant of StoppedPlayer: the mm_player of an interrupted client stays.  *)
StoppedPlayerIfPlaying(u) ==
  IF IsCurrent(u) THEN Unrealized(player[u]) ELSE player[u]

(* ttsd_player_stop is called for a client that is playing or paused.      *)
StoppedPlayer(u) == IF IsActive(app[u]) THEN Unrealized(player[u]) ELSE player[u]
StoppedPlaying(u) == IF IsActive(app[u]) THEN ReleasedBy(u) ELSE playing

(* Mutants of StopSynthesis: the engine is not cancelled; the flag stays.   *)
StopSynthesisForgets(u) ==
  IF IsActive(app[u]) /\ synth
    THEN synth' = FALSE /\ UNCHANGED <<job, late>>
    ELSE UNCHANGED <<synth, job, late>>
StopSynthesisKeepsFlag(u) ==
  IF IsActive(app[u]) /\ synth
    THEN UNCHANGED synth /\ CancelSynthesis
    ELSE UNCHANGED <<synth, job, late>>

(* The synthesis under way is cancelled whichever client it is for.        *)
StopSynthesis(u) ==
  IF IsActive(app[u]) /\ synth
    THEN synth' = FALSE /\ CancelSynthesis
    ELSE UNCHANGED <<synth, job, late>>

Cuts(u) == cut' = [cut EXCEPT ![u] = uttNext[u] - 1]

(* Mutant of FailSynthesis: the client is not told that it was stopped.    *)
FailSynthesisSilently(u, a) ==
  /\ app' = [app EXCEPT ![u] = StoppedApp(a)]
  /\ player' = [player EXCEPT ![u] = Unrealized(@)]
  /\ playing' = ReleasedBy(u)
  /\ UNCHANGED <<synth, job, late, told>>

(* The engine refused a text of u, popped from a, while the daemon is      *)
(* synthesizing nothing: the client gets an error, is stopped, told READY. *)
FailSynthesis(u, a) ==
  /\ app' = [app EXCEPT ![u] = StoppedApp(a)]
  /\ player' = [player EXCEPT ![u] = Unrealized(@)]
  /\ playing' = ReleasedBy(u)
  /\ Told(u, "READY")
  /\ UNCHANGED <<synth, job, late>>

(* Marks the daemon synthesizing and hands utterance utt to the engine.    *)
BeginSynthesis(u, utt) ==
  /\ synth' = TRUE
  /\ job' = [uid |-> u, utt |-> utt, sent |-> "NONE"]
  /\ UNCHANGED late

-------------------------------------------------------------------------------
(* The player, as the handlers below use it.                               *)

(* __set_and_start: the oldest sound of a leaves its queue; it is lost     *)
(* when the file, realize or start fails.                                  *)
SetAndStart(u, a, p) ==
  /\ app' = [app EXCEPT ![u] = PopSoundData(a)]
  /\ \/ player' = [player EXCEPT ![u] = Started(p, Head(a.sound))]
     \/ "player" \in Faults /\ player' = [player EXCEPT ![u] = p]

(* ttsd_player_play: nothing when g_playing_info is u's, when no sound     *)
(* waits, or when the mm_player is not in state NULL.                      *)
CanPlay(u, a) ==
  playing # u /\ a.sound # <<>> /\ player[u].item /\ player[u].mm = "NULL"

PlayerPlay(u, a) ==
  /\ playing' = playing
  /\ IF CanPlay(u, a)
       THEN SetAndStart(u, a, player[u])
       ELSE app' = [app EXCEPT ![u] = a] /\ player' = player

-------------------------------------------------------------------------------
(* Requests of the clients.                                                *)

(* ttsd_server_initialize.  The engine is loaded for the first user; when  *)
(* the player cannot be created the client stays registered without one.   *)
ServerInitialize(u) ==
  /\ ~IsClient(app[u])
  /\ loaded' = (loaded \/ ~HasUsers)
  /\ app' = [app EXCEPT ![u] = NewClient]
  /\ \/ /\ player' = [player EXCEPT ![u] = NewPlayer]
        /\ Told(u, "READY")
     \/ /\ "create" \in Faults
        /\ UNCHANGED <<player, told>>
  /\ UNCHANGED <<playing, serverVars, nextPlays, job, late, setting,
                 uttNext, heard, cut>>

(* ttsd_server_finalize, by request or because the client did not answer   *)
(* hello (__get_client_for_clean_up): stop, destroy the player, forget the *)
(* client, unload the engine after the last user.                          *)
ServerFinalize(u) ==
  /\ "finalize" \in Requests
  /\ IsClient(app[u])
  /\ app' = [app EXCEPT ![u] = NoApp]
  /\ player' = [player EXCEPT ![u] = NoPlayer]
  /\ playing' = ReleasedBy(u)
  /\ Told(u, "CREATED")
  /\ Cuts(u)
  /\ IF setting \/ \E v \in Uid \ {u} : IsClient(app[v])
       THEN StopSynthesis(u) /\ UNCHANGED loaded
       ELSE /\ loaded' = FALSE
            /\ job' = NoJob /\ late' = <<>>
            /\ synth' = (synth /\ ~IsActive(app[u]))
  /\ UNCHANGED <<next, synthTimers, interrupts, nextPlays, setting, uttNext,
                 heard>>

(* ttsd_server_add_queue.  The client uses up an id even when the voice is *)
(* refused.  A text of the playing client is synthesized right away unless *)
(* a synthesis is under way (__server_start_synthesis, mode 2), which      *)
(* takes the oldest text of the queue.                                     *)
ServerAddQueue(u) ==
  /\ Sends(u, "add")
  /\ uttNext[u] <= MaxUtt
  /\ uttNext' = [uttNext EXCEPT ![u] = @ + 1]
  /\ LET a == AddSpeakData(app[u], uttNext[u])
     IN \/ /\ "voice" \in Faults
           /\ UNCHANGED <<app, player, playing, synth, job, late, told, cut>>
        \/ /\ ~IsCurrent(u) \/ synth \/ "network" \in Faults
           /\ app' = [app EXCEPT ![u] = a]
           /\ UNCHANGED <<player, playing, synth, job, late, told, cut>>
        \/ /\ IsCurrent(u) /\ ~synth /\ EngineAccepts
           /\ app' = [app EXCEPT ![u] = PopSpeakData(a)]
           /\ BeginSynthesis(u, Head(a.text))
           /\ UNCHANGED <<player, playing, told, cut>>
        \/ /\ IsCurrent(u) /\ ~synth /\ EngineRefuses
           /\ FailSynthesis(u, PopSpeakData(a))
           /\ cut' = [cut EXCEPT ![u] = uttNext[u]]
  /\ UNCHANGED <<next, synthTimers, interrupts, nextPlays, loaded, setting,
                 heard>>

(* The answer to a play that succeeded.  g_timer is never set, so each one *)
(* adds a timer; MaxTimers stands for any number from MaxTimers on.        *)
GrantPlay(u) ==
  /\ Told(u, "PLAYING")
  /\ synthTimers' = IF synthTimers < MaxTimers THEN synthTimers + 1
                                              ELSE synthTimers

(* ttsd_player_resume for a client that was paused; g_playing_info, found  *)
(* as holder, is dropped even when there is nothing to resume.             *)
ResumePlayer(u, players, holder) ==
  \/ /\ app[u].state # "PAUSED"
     /\ player' = players /\ playing' = holder
  \/ /\ app[u].state = "PAUSED" /\ players[u].mm = "PAUSED"
     /\ player' = [players EXCEPT ![u].mm = "PLAYING"]
     /\ playing' = u
  \/ /\ app[u].state = "PAUSED"
     /\ players[u].mm # "PAUSED" \/ "player" \in Faults
     /\ player' = players
     /\ playing' = IF players[u].item THEN NoUid ELSE holder

(* ttsd_server_play from where u becomes the playing client: a is its data *)
(* in state PLAYING.  When the engine refuses the first text the text is   *)
(* lost and the request fails, but the client stays PLAYING.               *)
StartPlay(u, a, apps) ==
  \/ /\ synth \/ a.text = <<>>
     /\ app' = [apps EXCEPT ![u] = a]
     /\ GrantPlay(u)
     /\ UNCHANGED <<synth, job, late>>
  \/ /\ ~synth /\ a.text # <<>> /\ EngineAccepts
     /\ app' = [apps EXCEPT ![u] = PopSpeakData(a)]
     /\ BeginSynthesis(u, Head(a.text))
     /\ GrantPlay(u)
  \/ /\ ~synth /\ a.text # <<>> /\ EngineRefuses
     /\ app' = [apps EXCEPT ![u] = PopSpeakData(a)]
     /\ UNCHANGED <<synth, job, late, told, synthTimers>>

(* ttsd_server_play by the client that plays already.                      *)
ServerPlayAgain(u) ==
  /\ Sends(u, "play")
  /\ IsCurrent(u)
  /\ Told(u, "PLAYING")
  /\ UNCHANGED <<app, player, playing, serverVars, nextPlays, engineVars,
                 setting, uttNext, heard, cut>>

(* ttsd_server_play when no client plays.                                  *)
ServerPlay(u) ==
  /\ Sends(u, "play")
  /\ NobodyPlays
  /\ ResumePlayer(u, player, playing)
  /\ StartPlay(u, SetState(app[u], "PLAYING"), app)
  /\ UNCHANGED <<next, interrupts, nextPlays, loaded, setting, uttNext,
                 heard, cut>>

(* ttsd_server_play that takes the player from client v: v is paused and   *)
(* will be told so by a timer.                                             *)
ServerPlayInterrupt(u, v) ==
  /\ Sends(u, "play")
  /\ IsCurrent(v) /\ ~IsCurrent(u)
  /\ interrupts[v] < MaxTimers
  /\ interrupts' = [interrupts EXCEPT ![v] = @ + 1]
  /\ ResumePlayer(u, [player EXCEPT ![v] = PausedPlayer(@)], ReleasedBy(v))
  /\ StartPlay(u, SetState(app[u], "PLAYING"),
               [app EXCEPT ![v] = SetState(@, "PAUSED")])
  /\ UNCHANGED <<next, nextPlays, loaded, setting, uttNext, heard, cut>>

(* ttsd_server_stop by request.                                            *)
ServerStop(u) ==
  /\ Sends(u, "stop")
  /\ app' = [app EXCEPT ![u] = StoppedApp(@)]
  /\ player' = [player EXCEPT ![u] = StoppedPlayer(u)]
  /\ playing' = StoppedPlaying(u)
  /\ StopSynthesis(u)
  /\ Told(u, "READY")
  /\ Cuts(u)
  /\ UNCHANGED <<next, synthTimers, interrupts, nextPlays, loaded, setting,
                 uttNext, heard>>

(* ttsd_server_pause.                                                      *)
ServerPause(u) ==
  /\ Sends(u, "pause")
  /\ IsCurrent(u) /\ player[u].item
  /\ app' = [app EXCEPT ![u] = SetState(@, "PAUSED")]
  /\ player' = [player EXCEPT ![u] = PausedPlayer(@)]
  /\ playing' = ReleasedBy(u)
  /\ Told(u, "PAUSED")
  /\ UNCHANGED <<serverVars, nextPlays, engineVars, setting, uttNext, heard,
                 cut>>

-------------------------------------------------------------------------------
(* Requests of the setting application.                                    *)

(* ttsd_server_setting_initialize.                                         *)
SettingInitialize ==
  /\ "engine" \in Requests
  /\ ~setting
  /\ setting' = TRUE
  /\ loaded' = (loaded \/ ~HasUsers)
  /\ UNCHANGED <<app, player, playing, serverVars, nextPlays, job, late,
                 clientVars>>

(* Mutant of SettingFinalize: it unloads the engine under the applications. *)
SettingFinalizeUnloads ==
  /\ setting
  /\ setting' = FALSE
  /\ loaded' = FALSE /\ job' = NoJob /\ late' = <<>>
  /\ UNCHANGED <<app, player, playing, serverVars, nextPlays, clientVars>>

(* ttsd_server_setting_finalize.                                           *)
SettingFinalize ==
  /\ setting
  /\ setting' = FALSE
  /\ IF \E u \in Uid : IsClient(app[u])
       THEN UNCHANGED engineVars
       ELSE loaded' = FALSE /\ job' = NoJob /\ late' = <<>>
  /\ UNCHANGED <<app, player, playing, serverVars, nextPlays, clientVars>>

(* ttsd_server_setting_set_current_engine with another engine than the     *)
(* loaded one: every player stops, every client loses its data and is told *)
(* READY, the engine is replaced.  g_is_synthesizing is left as it was.    *)
SetCurrentEngine ==
  /\ setting
  /\ app' = [u \in Uid |-> IF IsClient(app[u])
                             THEN SetState(ClearData(app[u]), "READY")
                             ELSE app[u]]
  /\ player' = [u \in Uid |-> IF IsActive(app[u]) THEN AllStopped(player[u])
                                                  ELSE player[u]]
  /\ playing' = NoUid
  /\ told' = [u \in Uid |-> IF IsClient(app[u]) THEN "READY" ELSE told[u]]
  /\ cut' = [u \in Uid |-> uttNext[u] - 1]
  /\ loaded' \in IF "load" \in Faults THEN BOOLEAN ELSE {TRUE}
  /\ job' = NoJob
  /\ late' = <<>>
  /\ UNCHANGED <<serverVars, nextPlays, setting, uttNext, heard>>

-------------------------------------------------------------------------------
(* Timers of the main loop.                                                *)

(* Mutant of SendInterruptClient: the message is not sent.                 *)
SendInterruptClientNot(u) ==
  /\ interrupts[u] > 0
  /\ interrupts' = [interrupts EXCEPT ![u] = @ - 1]
  /\ UNCHANGED <<app, player, playing, synth, next, synthTimers, nextPlays,
                 engineVars, setting, clientVars>>

(* __send_interrupt_client                                                 *)
SendInterruptClient(u) ==
  /\ interrupts[u] > 0
  /\ interrupts' = [interrupts EXCEPT ![u] = @ - 1]
  /\ told' = IF IsClient(app[u]) THEN [told EXCEPT ![u] = "PAUSED"] ELSE told
  /\ UNCHANGED <<app, player, playing, synth, next, synthTimers, nextPlays,
                 engineVars, setting, uttNext, heard, cut>>

(* Mutant of EndNextSynthesis: the timer ends once more than it was added. *)
EndNextSynthesisTwice ==
  /\ NobodyPlays
  /\ synthTimers' = synthTimers - 1
  /\ UNCHANGED <<app, player, playing, synth, next, interrupts, nextPlays,
                 engineVars, setting, clientVars>>

(* __start_next_synthesis when no client plays: the timer ends.            *)
EndNextSynthesis ==
  /\ synthTimers > 0
  /\ NobodyPlays
  /\ synthTimers' = synthTimers - 1
  /\ UNCHANGED <<app, player, playing, synth, next, interrupts, nextPlays,
                 engineVars, setting, clientVars>>

(* __start_next_synthesis while u plays and a synthesis has ended          *)
(* (__server_next_synthesis): the next text goes to the engine, then the   *)
(* player is started if it is idle.  The flag is cleared in any case.      *)
StartNextSynthesis(u) ==
  /\ synthTimers > 0
  /\ IsCurrent(u)
  /\ next
  /\ next' = FALSE
  /\ LET a == app[u] IN
     \/ /\ synth
        /\ UNCHANGED <<app, player, playing, synth, job, late, told, cut>>
     \/ /\ ~synth /\ a.text = <<>>
        /\ PlayerPlay(u, a)
        /\ UNCHANGED <<synth, job, late, told, cut>>
     \/ /\ ~synth /\ a.text # <<>> /\ EngineAccepts
        /\ BeginSynthesis(u, Head(a.text))
        /\ PlayerPlay(u, PopSpeakData(a))
        /\ UNCHANGED <<told, cut>>
     \/ /\ ~synth /\ a.text # <<>> /\ EngineRefuses
        /\ FailSynthesis(u, PopSpeakData(a))
        /\ Cuts(u)
  /\ UNCHANGED <<synthTimers, interrupts, nextPlays, loaded, setting, uttNext,
                 heard>>

(* __player_next_play (ttsd_player_next_play): the next sound of u, if u   *)
(* is still the one g_playing_info points to.                              *)
PlayerNextPlay(u) ==
  /\ nextPlays[u] > 0
  /\ nextPlays' = [nextPlays EXCEPT ![u] = @ - 1]
  /\ \/ /\ ~player[u].item
        /\ playing' = NoUid
        /\ UNCHANGED <<app, player>>
     \/ /\ player[u].item /\ playing # u
        /\ UNCHANGED <<app, player, playing>>
     \/ /\ player[u].item /\ playing = u /\ app[u].sound = <<>>
        /\ player' = [player EXCEPT ![u] = Unrealized(@)]
        /\ playing' = NoUid
        /\ UNCHANGED app
     \/ /\ player[u].item /\ playing = u /\ app[u].sound # <<>>
        /\ SetAndStart(u, app[u], Unrealized(player[u]))
        /\ UNCHANGED playing
  /\ UNCHANGED <<serverVars, engineVars, setting, clientVars>>

-------------------------------------------------------------------------------
(* Results of the engine: __synthesis_result_callback.                     *)

(* Mutant of SoundResult: the end of an utterance starts nothing.          *)
SoundResultForgets(r, event) ==
  /\ app' = [app EXCEPT ![r.uid] =
               AddSoundData(@, [utt |-> r.utt, event |-> event])]
  /\ synth' = (synth /\ event # "FINISH")
  /\ UNCHANGED next

(* A result with sound.  It is dropped, without any other effect, when the *)
(* utterance is older than the last stop or the audio format is unknown.   *)
SoundResult(r, event) ==
  \/ /\ ~IsUttidValid(app[r.uid], r.utt) \/ "format" \in Faults
     /\ UNCHANGED <<app, synth, next>>
  \/ /\ IsUttidValid(app[r.uid], r.utt)
     /\ app' = [app EXCEPT ![r.uid] =
                  AddSoundData(@, [utt |-> r.utt, event |-> event])]
     /\ synth' = (synth /\ event # "FINISH")
     /\ next' = (next \/ event = "FINISH")

(* FAIL and CANCEL: only the flags change; the client is not told.         *)
EndResult == synth' = FALSE /\ next' = TRUE /\ UNCHANGED app

(* The results an engine gives after what it sent for a job: one FINISH,   *)
(* or START, at most one CONTINUE (a bound), FINISH.                       *)
Follows(r) ==
  (IF r.sent = "NONE" /\ "multi" \in Chunkings THEN {"START"} ELSE {})
  \cup (IF r.sent = "START" THEN {"CONTINUE"} ELSE {})
  \cup (IF r.sent # "NONE" \/ "single" \in Chunkings THEN {"FINISH"} ELSE {})

(* The engine's synthesis delivers sound.                                  *)
EngineSound(event) ==
  /\ job # NoJob
  /\ event \in Follows(job)
  /\ SoundResult(job, event)
  /\ job' = IF event = "FINISH" THEN NoJob ELSE [job EXCEPT !.sent = event]
  /\ UNCHANGED <<player, playing, synthTimers, interrupts, nextPlays, late,
                 loaded, setting, clientVars>>

(* The engine's synthesis fails on its own.                                *)
EngineFail ==
  /\ "synth" \in Faults
  /\ job # NoJob
  /\ EndResult
  /\ job' = NoJob
  /\ UNCHANGED <<player, playing, synthTimers, interrupts, nextPlays, late,
                 loaded, setting, clientVars>>

(* A cancelled synthesis delivers what it had under way: sound, or CANCEL. *)
EngineLate ==
  /\ late # <<>>
  /\ late' = Tail(late)
  /\ \/ \E event \in Follows(Head(late)) : SoundResult(Head(late), event)
     \/ EndResult
  /\ UNCHANGED <<player, playing, synthTimers, interrupts, nextPlays, job,
                 loaded, setting, clientVars>>

-------------------------------------------------------------------------------
(* Messages of mm_player: msg_callback.                                    *)

(* MM_MESSAGE_BEGIN_OF_STREAM.  It makes u the one g_playing_info points   *)
(* to, and pauses the mm_player of a client that was paused meanwhile.     *)
BeginOfStream(u) ==
  /\ player[u].phase = "starting"
  /\ player' = [player EXCEPT ![u].phase = "running",
                              ![u].event = player[u].soundEvent,
                              ![u].mm = IF app[u].state = "PAUSED"
                                          THEN "PAUSED" ELSE @]
  /\ playing' = u
  /\ heard' = IF AnnouncesStart(player[u])
                THEN [heard EXCEPT ![u].started = player[u].utt]
                ELSE heard
  /\ UNCHANGED <<app, serverVars, nextPlays, engineVars, setting, uttNext,
                 told, cut>>

(* MM_MESSAGE_END_OF_STREAM: the last sound of an utterance completes it;  *)
(* a timer goes on with the next sound.  A message sent before a pause may *)
(* be handled after it.  Not one of a stream whose BEGIN_OF_STREAM was     *)
(* handled after the pause too (it is paused and g_playing_info is u's):   *)
(* mm_player is assumed not to have both pending.                          *)
EndOfStream(u) ==
  /\ player[u].phase = "running"
  /\ player[u].mm = "PLAYING" \/ playing # u
  /\ nextPlays[u] < MaxTimers
  /\ nextPlays' = [nextPlays EXCEPT ![u] = @ + 1]
  /\ player' = [player EXCEPT ![u].phase = "ended"]
  /\ heard' = IF player[u].event = "FINISH"
                THEN [heard EXCEPT ![u].done = player[u].utt]
                ELSE heard
  /\ UNCHANGED <<app, playing, serverVars, engineVars, setting, uttNext, told,
                 cut>>

(* MM_MESSAGE_ERROR: the client gets an error; the player is not stopped.  *)
PlayerError(u) ==
  /\ "player" \in Faults
  /\ player[u].phase \in {"starting", "running"}
  /\ player' = [player EXCEPT ![u].phase = "ended", ![u].event = "FINISH"]
  /\ playing' = ReleasedBy(u)
  /\ UNCHANGED <<app, serverVars, nextPlays, engineVars, setting, clientVars>>

-------------------------------------------------------------------------------
(* The main loop.                                                          *)

OneShotPending == \E u \in Uid : interrupts[u] > 0 \/ nextPlays[u] > 0

(* A request is handled after every timer that the last one left pending.  *)
AsRequest == ~due /\ due' = OneShotPending'
AsEvent == due' = (due /\ OneShotPending')

Request(u) ==
  /\ \/ ServerInitialize(u) \/ ServerFinalize(u)
     \/ ServerAddQueue(u)
     \/ ServerPlayAgain(u) \/ ServerPlay(u)
     \/ \E v \in Uid : ServerPlayInterrupt(u, v)
     \/ ServerStop(u) \/ ServerPause(u)
  /\ AsRequest

SettingRequest ==
  /\ SettingInitialize \/ SettingFinalize \/ SetCurrentEngine
  /\ AsRequest

OneShotTimer(u) == (SendInterruptClient(u) \/ PlayerNextPlay(u)) /\ AsEvent

SynthesisTimer ==
  (EndNextSynthesis \/ \E u \in Uid : StartNextSynthesis(u)) /\ AsEvent

EngineResult ==
  /\ (\E event \in SoundEvent : EngineSound(event)) \/ EngineFail \/ EngineLate
  /\ AsEvent

PlayerMessage(u) ==
  (BeginOfStream(u) \/ EndOfStream(u) \/ PlayerError(u)) /\ AsEvent

Next ==
  \/ \E u \in Uid : Request(u) \/ OneShotTimer(u) \/ PlayerMessage(u)
  \/ SettingRequest \/ SynthesisTimer \/ EngineResult

Spec == Init /\ [][Next]_vars

(* The main loop serves every timer and every message in the end, the       *)
(* engine goes on with its synthesis and a playing mm_player with its      *)
(* stream.  No request has to come.                                         *)
Fairness ==
  /\ WF_vars(SynthesisTimer)
  /\ WF_vars(EngineResult)
  /\ \A u \in Uid :
       /\ WF_vars(OneShotTimer(u))
       /\ WF_vars(player[u].mm = "PLAYING" /\ PlayerMessage(u))

FairSpec == Spec /\ Fairness

-------------------------------------------------------------------------------
(* Properties.                                                             *)

(* "The client of playing state of all clients is only one" (comment in    *)
(* ttsd_data_set_client_state): two clients never both hold the player,    *)
(* whatever order their requests and the engine's failures come in.        *)
OnePlayingClient ==
  \A u, v \in Uid : IsCurrent(u) /\ IsCurrent(v) => u = v

(* g_playing_info never points to a player that was destroyed: every path  *)
(* that frees an entry of g_player_list releases it first.                 *)
PlayingInfoIsAlive == playing # NoUid => player[playing].item

(* A player exists only for a registered client, and an mm_player that was *)
(* never unrealized always belongs to an active client: neither a stop, an *)
(* interrupt nor an engine change leaves a stream behind a READY client.   *)
StreamBelongsToActiveClient ==
  \A u \in Uid : /\ player[u].item => IsClient(app[u])
                 /\ player[u].mm # "NULL" => player[u].item /\ IsActive(app[u])

(* The engine is loaded with the first user and unloaded with the last,    *)
(* although applications and setting applications share one count and come  *)
(* and go in any order; only a change of engine that fails unloads it       *)
(* under its users.                                                         *)
EngineFollowsUsers ==
  [][\/ loaded' = loaded /\ HasUsers' = HasUsers
     \/ loaded' = HasUsers'
     \/ SetCurrentEngine]_vars

(* A client that was last told PLAYING is playing, or the message that it  *)
(* was interrupted is pending: no path takes the player away silently.     *)
ToldPlayingIsPlaying ==
  \A u \in Uid : told[u] = "PLAYING" => IsCurrent(u) \/ interrupts[u] > 0

(* The mm_player of a client that does not hold the player is silent, and   *)
(* what could wake it up, a next-sound timer or g_playing_info, has nothing *)
(* to wake: a timer left over from before a pause finds g_playing_info      *)
(* elsewhere and no stream about to begin.  This is what the invariants     *)
(* above rest on (it is inductive together with TypeOK).                    *)
TimerIsHarmless(u) ==
  nextPlays[u] > 0 =>
    /\ IsCurrent(u) \/ (playing # u /\ player[u].phase # "starting")
    /\ ~due => /\ nextPlays[u] = 1
               /\ \/ player[u].phase = "ended"
                  \/ ~IsCurrent(u) /\ player[u].phase = "none"

SilentUnlessPlaying ==
  \A u \in Uid :
    /\ (player[u].mm = "NULL") <=> (player[u].phase = "none")
    /\ player[u].mm = "PLAYING" => IsCurrent(u)
    /\ TimerIsHarmless(u)

(* The daemon implements the promise of PlayFocus.                          *)
Focus == INSTANCE PlayFocus
           WITH sess <- [u \in Uid |-> app[u].state],
                sounding <- {u \in Uid : IsAudible(player[u])}
FocusSpec == Focus!Spec

(* Only the client that holds the player is heard: taking the player away   *)
(* silences a stream at once, and neither its late BEGIN_OF_STREAM nor its  *)
(* next-sound timer makes it audible again.                                 *)
OnlyPlayingIsAudible ==
  \A u \in Uid : IsAudible(player[u]) => IsCurrent(u)

(* The engine works only while the daemon believes it does, so a text is   *)
(* never handed to an engine that is busy (ttsp.h: start_synth fails when  *)
(* "already started synthesis").                                           *)
EngineBusyIsKnown == job # NoJob => synth

(* tts_stop "will remove all text via tts_add_text() and synthesized sound *)
(* data" (tts.h): after a stop no sound of a text added before it is       *)
(* waiting for the player.                                                 *)
NoStaleSound ==
  \A u \in Uid : \A i \in DOMAIN app[u].sound : app[u].sound[i].utt > cut[u]

(* A client's utterances are announced in the order of its texts, through  *)
(* stops, interrupts and engine changes.                                   *)
StartedInOrder ==
  [][\A u \in Uid : heard[u].started' # heard[u].started
                      => heard[u].started' > heard[u].started]_heard

(* An utterance is reported completed when it is the one reported started   *)
(* last.  A stop, of the client or of another one, can break off an         *)
(* utterance delivered in several results: the player keeps its event       *)
(* (ttsd_player_stop resets utt_id only) and hides the start of the next    *)
(* utterance if that is a single result.  So at most one completion comes   *)
(* without its start after each utterance that was started and broken off.  *)
CompletedWasStarted ==
  [][\A u \in Uid : heard[u].done' # heard[u].done =>
       \/ heard[u].done' = heard[u].started
       \/ heard[u].done < heard[u].started
          /\ heard[u].started < heard[u].done']_heard

(* tts_play "Starts synthesizing voice from text" (tts.h): the texts of      *)
(* a client that goes on playing all reach the engine.                      *)
TextIsSynthesized ==
  \A u \in Uid : IsCurrent(u) /\ app[u].text # <<>>
                   ~> ~IsCurrent(u) \/ app[u].text = <<>>

(* ... "and plays synthesized audio data" (tts.h): the sounds of a client   *)
(* that goes on playing all reach its mm_player.                            *)
SoundIsPlayed ==
  \A u \in Uid : IsCurrent(u) /\ app[u].sound # <<>>
                   ~> ~IsCurrent(u) \/ app[u].sound = <<>>

(* An interrupted client learns that it is paused, although the message     *)
(* follows the interruption in a timer of its own.                          *)
InterruptedIsTold ==
  \A u \in Uid : told[u] = "PLAYING" /\ ~IsCurrent(u)
                   ~> told[u] # "PLAYING" \/ IsCurrent(u)
===============================================================================
