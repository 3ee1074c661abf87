# Verification of the Tizen text-to-speech framework

TLA+ specifications, TLC configurations and TLAPS proofs for the TTS framework
in `src/`: the daemon (`server/`), the client library and the setting library
(`client/`).  The daemon's playback core, its engine agent, the client library with its
sessions and the setting library are modelled and checked.  Every invariant and every
action property that a run finds to hold is also proved, for all values of the
constants; the liveness properties are model-checked only.

## The system

Three kinds of process talk over D-Bus:

| component | source | state | operations |
|---|---|---|---|
| playback server | `server/ttsd_server.cpp` | `g_is_synthesizing`, `g_is_next_synthesis`, the pending `ecore` timers | requests initialize, finalize, add_queue, play, stop, pause; setting requests; timers `__start_next_synthesis`, `__send_interrupt_client`, the clean-up; the engine's result callback |
| client data | `server/ttsd_data.cpp` | `g_app_list` (state, texts, sounds, `utt_id_stopped` per uid), `g_setting_list` | new, delete, add/get text, add/get sound, clear, set state, current playing |
| player | `server/ttsd_player.cpp` | `g_player_list` with one `mm_player` per uid, `g_playing_info` | create, destroy, play, next_play, stop, pause, resume, all_stop, `msg_callback` |
| engine agent | `server/ttsd_engine_agent.c` | `g_engine_list`, `g_cur_engine`, defaults | find and choose an engine, load, unload, start and cancel a synthesis, select a voice, settings |
| configuration | `server/ttsd_config.c` | engine id, voice, speed, on disk and in memory | load, save, get, set |
| D-Bus dispatch | `server/ttsd_dbus.c`, `ttsd_dbus_server.c` | connection | unpack a request, call the server, reply; hello, state, utterance and error messages |
| network, main | `server/ttsd_network.c`, `ttsd_main.c` | connected or not | vconf notification; the main loop and a periodic clean-up |
| client library | `client/tts.c`, `tts_client.c`, `tts_dbus.c` | per handle: state, before_state, utt_id, reason, callbacks, `cb_ref_count` | create, prepare (a retried timer), unprepare, destroy, add_text, play, stop, pause; deferred notifications |
| setting library | `client/tts_setting.c`, `tts_setting_dbus.c` | one state | initialize (retried), finalize, engine/voice/speed queries and changes |

How they interact: an application calls the client library, which sends a
blocking D-Bus request to the daemon.  The daemon runs one `ecore` main loop; a
request, a timer, a result of the engine plug-in and a message of `mm_player`
are each handled to the end.  The engine and `mm_player` are external and work
between the handlers.  The daemon sends utterance-started, utterance-completed,
state and error messages back, which the client library turns into callbacks
from timers of its own.

What makes each part correct, and what is hard:

- *Playback server, client data, player.*  One client holds the player; taking
  it from another pauses that one and tells it by a later timer; stopped speech
  never comes back; a text goes to an idle engine; nothing waits for ever.
  Hard: three independent notions of "who plays" (`state` in `g_app_list`,
  `g_playing_info`, the `mm_player` states), asynchronous results and stream
  messages, timers that outlive what they were added for, and flags that are
  cleared in one handler and relied on in another.
- *Engine agent and configuration.*  The chosen engine exists, is loaded while
  somebody uses it, and survives a failed change.  Hard: partial failures
  without rollback; a voice chosen twice.
- *Client library and session.*  The client's state follows the daemon's; each
  notification reports the event that caused it; prepare and unprepare pair up.
  Hard: deferred notifications that read one slot, messages that cross requests,
  time-outs on both sides, lost messages, hello.
- *Setting library.*  An application that is READY is registered; nothing stays
  registered behind it; a value reported as set is set.  Hard: requests that timed
  out stay with the daemon and are served later; the daemon forgets its applications
  when it restarts and never forgets them otherwise; three places that start it.

`PROJECT.json` lists the hazards at their lines, with the property that covers
each one or why none does yet.

## Modules

| module | models |
|---|---|
| `TtsdData` | the record of a client and every function of `ttsd_data.cpp` on it, as operators without variables |
| `TtsdPlayer` | the record of a player with its `mm_player`, as operators |
| `TtsdServer` | the variables of the daemon and one action per handler, built from the two modules above; fairness; the properties |
| `PlayFocus` | abstract specification: what applications are promised about who holds the player and who is heard |
| `MCTtsdServer` | `TtsdServer` on model values, for TLC |
| `TtsdServerTypeProofs` | lemmas on the operators, `Spec => []TypeOK` |
| `TtsdServerFocusProofs` | the inductive invariant `FocusInv`, five safety theorems, and `Spec => FocusSpec`: `TtsdServer` implements `PlayFocus` |
| `TtsdServerSoundProofs` | for whom the engine works, and that stopped speech stays silent |
| `TtsdServerClientProofs` | what a client was told of its state, for whom the engine is loaded, and the order of the announcements |
| `VoiceSelect` | `ttsd_engine_select_valid_voice` and its scan of the voice list, as operators |
| `EngineAgent` | the engine agent with the stored configuration, one action per request that uses them, kills and restarts; the properties |
| `MCEngineAgent` | `EngineAgent` on two engines with their voice lists, for TLC |
| `EngineAgentProofs` | the inductive invariant `AgentInv` and six theorems |
| `DBusQueue` | how both ends of a connection take messages from it, as operators |
| `DBusQueueProofs` | lemmas on them: what is taken was there and in what order, and how many messages of a kind a queue holds |
| `TtsClient` | the client library in an application: its calls, timers, callbacks and listener, and its connection to the daemon |
| `TtsSession` | the daemon at the other end: requests taken, lost and answered, messages sent, the clean-up sweep; fairness; the properties |
| `TtsSessionProofs` | type correctness, what an application is told, what it leaves behind (`LeftInv`), and whom the sweep may remove (`SweepInv`), for any number of handles |
| `MCTtsSession` | `TtsSession` on one handle, for TLC |
| `TtsSetting` | setting applications, their library and connection, and what the daemon keeps for them; daemons that are started, end and die; fairness; the properties |
| `TtsSettingProofs` | the inductive invariant `SettingInv` and five theorems, for any number of applications |
| `MCTtsSetting` | `TtsSetting` on one application, for TLC |

`TtsdServer` and `EngineAgent` describe the same requests from two sides: the first
knows of an engine only whether it is loaded and what it works on, the second
knows nothing of players and sounds.  They share no variable; that the
engine is loaded for users is a property of both.  `TtsSession` is a third side: the
same requests as messages.  Its daemon knows of a client the state and the texts, and
its player speaks or fails as it likes; what happens to the messages, which
the other two take for granted, is what it models in full.  `TtsSetting` does the same
for the other list of the daemon, `g_setting_list`, and is the one that starts
and ends daemons.  What a setting request does to engine, defaults and clients is in
`EngineAgent` and `TtsdServer`, where the sender is taken to be registered; that it
is, whatever was lost or late, is `RequestsFindRegistered` here.

### State and code

| variable | code |
|---|---|
| `app[u]` | the entry of `u` in `g_app_list`; state `ABSENT` when there is none. `text` and `sound` are `m_speak_data` and `m_wav_data`; a text is its utterance id, a sound its id and result event |
| `player[u]` | the entry of `g_player_list` (`item`, `event`), the state of its `mm_player` (`mm`), the `user_data_s` of the stream (`utt`, `soundEvent`) and how far the stream is (`phase`) |
| `playing` | `g_playing_info` as the uid of its entry |
| `synth`, `next` | `g_is_synthesizing`, `g_is_next_synthesis` |
| `synthTimers`, `interrupts`, `nextPlays` | the pending timers of `__start_next_synthesis`, `__send_interrupt_client` and `__player_next_play` |
| `due` | whether a request was handled since the pending one-shot timers were added (see below) |
| `job`, `late` | what the engine synthesizes; cancelled syntheses that still have a result under way |
| `loaded`, `setting` | `g_cur_engine.is_loaded`; whether `g_setting_list` is not empty |
| `uttNext`, `told`, `heard` | of the client: the next utterance id, the state it was told last, the utterances announced last |
| `cut` | history for `NoStaleSound`: the last id in use when the client was stopped |

Each handler is one action that does all its calls do; functions called from
several handlers (`ttsd_server_stop`, `__server_start_synthesis`, `__set_and_start`,
`ttsd_player_play`, `ttsd_player_resume`) are operators.  Requests that only fail
or only read do not change the state and have no action.

In `EngineAgent`:

| variable | code |
|---|---|
| `up` | whether the daemon runs |
| `installed` | the plug-ins in the engine directories (external) |
| `stored` | `ttsd.conf`: the values in it, and whether it is whole, not there (the shipped one is read) or *torn*: emptied by `fopen "w+"` and not yet written. `current` is history: whether the last save of this process succeeded |
| `conf` | `g_engine_id`, `g_language`, `g_vc_type`, `g_speed` of `ttsd_config.c` |
| `list`, `isEngine` | `g_engine_list`; `g_is_engine` of `ttsd_server.cpp` |
| `cur` | `g_cur_engine`: the uuid, `is_loaded`, the default voice and speed, and whose functions `pefuncs` holds |
| `clients`, `settings` | the entries of `g_app_list` and `g_setting_list` |
| `pending[c]` | the voices asked for by the queued texts of `c` |

`ttsd_config.c` keeps its own copy of the defaults and writes the file on every
change; `g_cur_engine` has another copy.  A request is one action; a kill in the
middle of one is an action of its own (`CrashInSave`, `CrashInChange`).
A save may fail (`Writes`): the file cannot be opened and stays as it was, or it was emptied
and is not written.  The setters of `ttsd_config.c` drop the result and answer 0, so memory has
the new value and the file has not.
Languages have the fixed form of `ttsp.h` ("ko_KR"), so comparing a prefix is
comparing.  Functions of a plug-in that was closed are undefined: the call
crashes the daemon (`AddTextCrash`) or still answers (`AddText`).

In `TtsClient` and `TtsSession`:

| variable | code |
|---|---|
| `client[h]` | the entry of `h` in `g_client_list`: `current_state`, `utt_id`, `current_utt_id`, whether callbacks are registered; `life` says whether it is in the list, freed, or being freed |
| `timers[h]` | the pending `__tts_connect_daemon` and `__tts_notify_*` timers |
| `caller` | the handle whose `cb_ref_count` is not zero |
| `request` | the D-Bus call in which the process blocks; `tts_prepare`'s timer makes two |
| `bus` | the connection between the two: messages on their way (`wire`, `inbox`), messages that libdbus has read and nobody has handled (`held`, `kept`), and what the awaited reply says (`result`) |
| `session`, `texts`, `saying` | the client's entry in `g_app_list`, its texts, the utterance that has started |
| `owed` | the pending `__send_interrupt_client` timers |
| `greet`, `sweep` | the hello in which `ttsd_cleanup_client` blocks, and the clients it has still to ask |
| `due` | whether a message was handled since the notifications were added |
| `seen`, `news`, `spoiled`, `stalled` | history: the state the application was told, the utterance a notification is for, handles with a lost, late or half-done request, whether a hello could not be answered at once |

A call of the application is two or more actions: it sends its request and blocks,
the daemon takes the request, the reply or the time-out ends the call.  A call from
a callback is the same with `caller` set.

libdbus is external, and one detail of it decides a lot.  Both listeners call
`dbus_connection_read_write_dispatch` and then `dbus_connection_pop_message`.  The
first reads only when nothing is there already; otherwise it dispatches a message,
and as neither process registers handlers, the message is consumed (a method call
is answered with an error).  Messages get there when one read brings several, or when
a blocking call reads others before its reply.  `Taken` is the listener, `Awaited` the
blocking call, the same for both ends; `DBusQueue` defines them for `TtsClient`,
`TtsSession` and `TtsSetting`.

In `TtsSetting`:

| variable | code |
|---|---|
| `app[a]` | the static variables of the setting library in a process: `g_state`, whether `g_conn` is there, the pending `__tts_setting_connect_daemon` and `__tts_setting_initialized` timers, `g_is_daemon_started`; and the call that blocks with its try and its value |
| `reply` | what the blocking call has got: an answer, or an error of the bus |
| `up`, `starting` | a daemon that owns its bus name; daemons forked that do not yet |
| `isEngine`, `registered` | `g_is_engine`; `g_setting_list` |
| `inbox`, `kept` | requests on their way; requests that libdbus holds in the daemon |
| `forgot`, `spoiled`, `told`, `served` | history: registrations that ended with a daemon, requests without answer, the last value reported as set, and that of the last set the daemon handled, per application |

The twenty-odd calls of the library differ in data only: those that read are `Get`,
those that change something `Set`.  What a set does in the daemon is the subject of
`EngineAgent`; an answer of success does not even say that it did something (a repeated set of an
engine that failed to load), so here only that it was handled is recorded.  A call is an action that sends and one that goes on
with what it got (`Return`, `TimeOut`).  A request that timed out stays in the queue with
`live` false: the daemon serves it all the same.  The library has no listener, so a late
reply is never looked at.  The second daemon that is started ends when it asks for the
name (`Start` with `up`).  `CrashOfRefusal` is the undefined behaviour of
`ttsd_server.cpp:782` and its ten copies: refusing a pid that is not registered formats
the integer with `%s`.

*Scheduling.*  Timers are added with delay 0 and fire in the next iteration of the
loop, before the descriptors are served; the listener pops one message per
iteration.  So a one-shot timer is overtaken by at most one request: the one that
was already being dispatched.  `AsRequest` and `AsEvent` with `due` say exactly
that.  Engine results and `mm_player` messages may come at any point.  The
`__start_next_synthesis` timer repeats while a client plays, and is not bound by
`due`.

*Environment.*  `Faults` names what may go wrong in a run: `voice` (a text's voice is
refused), `network` (needed and not connected), `synth` (the engine refuses or
fails a text), `player` (an `mm_player` or file operation fails, or reports an
error), `create` (no player for a new client), `load` (the new engine does not
load), `format` (no audio format), `late` (a cancelled synthesis still delivers).
`ttsp.h` does not say that nothing follows a cancel, and the daemon checks for it
(`ttsd_data_is_uttid_valid`).  With an empty `Faults` the environment is healthy.

In `TtsSetting`, `Fails` has `engine` (none is found), `load` (it does not load), `set` (a
request fails in the daemon) and `crash` (the daemon dies at any point).  Time-outs, the end
of an application and a new one under its pid come at any point in every run.

In `TtsSession`, `Fails` names the methods that may fail (`create` and `start` are an
initialize without player and a play whose engine does not start: both leave the
daemon's state changed), and `Others` what other applications do: `interrupt`
(another client plays) and `engine` (the engine is changed).  Every call may time
out, the process may end at any point, and the sweep may come at any time.

*Left out.*  Of the client library: starting the daemon (`fork`), a bus daemon that
goes away (`tts_dbus_reconnect`), the previous state and the reason passed to
callbacks, the reuse of a freed handle's memory while a timer still carries its
address.  The callbacks of a handle are registered and removed together.  Of the
daemon: out of memory, hence failures of the message senders; `mm_player`
pause and unrealize are taken to succeed; the daemon's own initialization failing (it
ends before it has a name); the wrap of utterance ids at 10000 (it
is beyond `MaxUtt`); data races with engine threads (a result is an event of the
main loop); the samples.  A kill while the first user's load or the start-up stores
a value (only those during setting requests are modelled; they leave the same torn
file).  Of the setting library: the reason handed to the callback, a bus that
refuses the connection or its name, and the lists and strings in the replies.  Code that no
path reaches: `ttsd_engine_agent_release`,
`ttsd_config_finalize`, the built-in default engine
(`ttsd_engine_agent.c:209`: reading the configured engine never fails), loading an
engine that is loaded.  A request may arrive from
a client whose view is outdated; the client library's own state checks would
refuse some of these, so the model allows more requests than the system does.

## Runs

Twelve runs; every property of a passing run has a mutant in `PROJECT.json`, a
plausible bug in one operator that makes TLC find the property violated.

| run | instance | shows |
|---|---|---|
| `server_core` | 2 clients, 2 texts each, each in one result or in several, healthy environment, all client requests but pause | types; only the holder is heard; the engine is never handed a text while busy; stopped texts stay silent; utterances are announced in order; one is completed without its start at most once after one that was broken off |
| `server_faults` | 2 clients, 1 text each, every request and every fault | refinement of `PlayFocus`; one holder; no dangling `g_playing_info`; no stream left behind; nobody told PLAYING is silently deprived; the engine is loaded exactly while used, except after a failed change |
| `server_live` | 2 clients that add, play, pause; up to 2 timers of a kind | every text of a client that goes on playing is synthesized; an interrupted client is told |
| `server_live_single` | 1 client, 3 texts, stop and leave; up to 2 timers of a kind | every text is synthesized and every sound is played |
| `server_stop_starves` | 2 clients with stop | **violated**: an interrupted client's stop cancels its own synthesis, and the playing client's text that waits for it is never synthesized |
| `server_pause_wedge` | 1 client with pause | **violated**: pause around END_OF_STREAM, before the message or its timer |
| `server_late_sound` | 1 client, a late result | **violated**: a late result is accepted after a stop |
| `agent_faults` | 1 client and 1 setting application, 2 engines, failing loads, failing saves, engines installed and removed, 1 kill | the loaded engine has the default voice; accepted texts stay speakable; memory and file agree unless the last save failed; a failed change is not stored; a request gets the voice it names; the daemon comes back |
| `agent_voice` | the same without faults | **violated**: an accepted text gets a voice that the engine does not have |
| `session_core` | 1 handle, 2 texts, every failure, interrupts and engine changes | the application is told the state its handle is in and the right utterance; a handle that is CREATED or freed has no session unless a request of its was lost, late or half done; the sweep removes a living handle only when it was busy, and a dead one in the end |
| `session_interrupt_lost` | 1 handle, interrupts | **violated**: the message of an interruption is lost in the listener |
| `setting_core` | 1 setting application, 2 values, requests of others, every failure, daemons that die and restart | an application that is READY is registered; no request can crash the daemon unless it was restarted under its sender; only an initialize or finalize without answer, or an exit, leaves a registration behind; no set that was given up is handled after one reported as done; an asynchronous initialize comes to its callback |

*Bounds.*  `MaxUtt` is the number of texts per client: 1 is enough for hazards
about who holds the player, 2 for the order of utterances and for a text waiting
behind another one, 3 for a stop between two utterances and one more behind it.
`MaxTimers` bounds the timers of one kind; the safety runs take 1 and the live runs 2.
`g_timer` is never assigned (`ttsd_server.cpp:636`), so each granted play adds one more
`__start_next_synthesis` timer, and with 2 several of them meet the one flag: any number
beyond finds what the second one finds.  The next-sound timers of a client are never more than one outside
a request (`SilentUnlessPlaying`); its pending interrupt messages all say the same.  `MaxLate = 1` is one result
under way.  An utterance has at most one CONTINUE chunk, so all three chunk kinds
occur.  `server_core` leaves the pause
request out: a client is paused there by the other one, may go on when that one stops, and what
it finds is the same.  Two clients are enough for every interaction of the code, which never
looks at more than the playing client, the requesting one and their players; the
theorems hold for any number.

For the agent, one client and one setting application give every value of the shared
count (`ttsd_data_get_client_count`) that its code tells apart, and both orders of
coming and leaving.  Two engines give a change, a failed change and a removed
engine.  The voice lists are chosen so that the two engines share a voice and a
language, that a language has two types, and that the voice asked for is neither
first nor last; texts ask for any voice, for a type that an engine has in one language only,
and for one that none has, with and without a language.  One voice request (`MaxTexts = 1`) waits per client: the texts are a set that a change of engine
drops as a whole.  One kill (`MaxCrashes = 1`), at any point and also in a save, is followed by a
start that repairs the file, in which the save may fail again.  The speed has one value: it is stored
as the voice is, which has several.

For the session, one handle is one thread of calls; the code shares nothing between
handles but the connection, its blocking call and the listener, and the messages of
another handle would only be more of what `Others` and the sweep bring.  `MaxQueue`
bounds the messages nobody has handled when a new one is sent on purpose, without the
hello and the requests of others; replies, errors and messages that a request causes
come on top, so that two or three meet in one read with `MaxQueue = 1`.
`session_interrupt_lost` needs 2.  Two texts are the least for which a
notification could report another utterance than its own.  The next interruption comes
when the last one has been handled (`Unsettled`), which leaves every way for one to
cross the application's requests.

For the setting library, an application is one thread with a connection of its own, and the
daemon keeps a pid in a set: applications meet only in the order of the queue, where
`OtherAsks` puts the requests of others anywhere.  `MaxQueue = 2` lets a request that was given up wait in front of
the next one, or one be lost behind another; `MaxStarting = 2` is a daemon that
starts while another one already does; `MaxTimers = 1` pending connect timer is what an
application has that waits for the callback before it initializes again.  The
safety theorems hold for any number of each.

*Deadlock.*  The agent's runs check it.  The server's have
`CHECK_DEADLOCK FALSE` because the clients add at most `MaxUtt` texts
and need not send anything.  The session's has it too: a process
that called `tts_destroy` from its own callback spins, one whose handles are gone does nothing.  The setting run has it because an
application need not call anything.

*Fairness.*  `FairSpec` has weak fairness on the synthesis timer, on the engine, and
for each client on its one-shot timers and its `mm_player` while that is playing (a paused stream
need not go on).  The main loop serves
every timer and every message; an engine and an `mm_player` that never answer are
not promised anything.  No request is fair: a client may stop asking.  The agent's
`FairSpec` has weak fairness on starting the daemon: the client library forks
`tts-daemon` whenever it finds none running (`tts.c:1042`).  A start from an
empty file that cannot be written changes nothing, so for `DaemonComesBack` the condition also says
that the file can be written some time.  The session's has it on the
application's main loop as a whole (it runs a timer, takes a message, returns from a
callback or ends a call), on the daemon's listener with its interrupt timers, and on the
sweep, a repeating timer; the application never has to call.  `TtsSetting` has weak fairness
on a daemon that starts and on its listener, and strong fairness on the end of a blocking
call and on the connect timer.  Strong, because `MaxQueue` stands in the way of both now and
then, and a call of the application in that of the timer; in the code neither waits for
them for ever.  `AsyncIsAnswered` has `Settles` as its condition: from some point on the
daemon does not die, answers in time and nobody else asks.  Without it the property is
false of the code for a plain reason, an answer may be late every time; what it says is
that nothing that went wrong before that point (lost or late hellos, dead daemons, a
half-done initialize) keeps the application from its callback, save the two states it
names: finalize closed the connection under the timer, or the daemon died after the
process used its only attempt to start it (`g_is_daemon_started`).

## Divergences found

1. `ttsd_server_stop` (`ttsd_server.cpp:660`) cancels the engine whenever it
   works, for whomever, and nobody sets `g_is_next_synthesis`, which only a result does.
   In the trace an interrupted client stops and cancels its own synthesis; the
   client that plays has a text waiting for that synthesis to end, and it waits for ever.
2. `ttsd_player_next_play` (`ttsd_player.cpp:337`) returns without unrealizing when a
   pause has cleared `g_playing_info`; resume gets a stream that is over.  The pause may be
   handled before END_OF_STREAM, which was already sent, or between it and its timer.
3. `ttsd_data_clear_data` (`ttsd_data.cpp:333`) moves `utt_id_stopped` only when texts
   were waiting; a late result of the text being synthesized passes the check.
4. `ttsd_engine_select_valid_voice` (`ttsd_engine_agent.c:863`) copies the language from
   the loop variable instead of from the voice it selected, when only the language is
   left to the default.  The text was accepted; the engine gets a voice it may not have.
5. `listener_event_callback` (`tts_dbus.c:44`) dispatches before it pops.  A message that
   was read together with the reply of a call is consumed when the next one arrives; an
   interruption lost like this leaves the application believing that it plays.

Each is a violation run; the passing runs state the same properties where the
cause is absent (no stop by an interrupted client, no pause, no
late result), so that the rest of the mechanism is known to satisfy them.  For the
fourth, `SelectionHonoursRequest` states what does hold: the exact voice if there is
one, and the language if it was named.

One more has no run of its own: `ttsd_server_setting_set_current_engine`
(`ttsd_server.cpp:863`) leaves `g_is_synthesizing` set, and nothing is synthesized any
more.  Enabling `SetCurrentEngine` in the instance of `server_live_single` violates
`TextIsSynthesized`; the live runs leave engine changes out for that reason.

Another is about an engine that mixes its deliveries, one utterance in parts and the next in
a single result.  A stop between two parts leaves `current->event` of the player as it
was (`ttsd_player.cpp:420`); the single result that comes next is then taken for a part of something
already announced (`ttsd_player.cpp:699-715`), and its utterance completes without having
started.  The stop of another client does the same to a paused one, whose synthesis it cancels.
`server_core` mixes the deliveries, and `CompletedWasStarted` says what is left: the
utterance that was broken off had been announced, and only one completion without a start
follows it.

An assumption about `mm_player`: BEGIN_OF_STREAM and END_OF_STREAM of one stream are not both
waiting in the main loop when its client is paused.  If they were, the first would make
`g_playing_info` point to the paused client (`ttsd_player.cpp:716`), the timer of the second would
start that client's next sound (`ttsd_player.cpp:337`), and TLC finds `OnlyPlayingIsAudible` and
`SilentUnlessPlaying` violated.  A sound would have to be over before its
beginning is handled; `EndOfStream` leaves that out, and an END_OF_STREAM alone may be handled
after the pause.

The agent's saves may fail, and nobody is told (`ttsd_config.c:36-40`, ignored at `:153`, `:179` and
`:197`).  `RestartKeepsSettings` and `StoredEngineWorks` say what holds then: the file is behind
memory from a save that failed until one that succeeds, which writes everything; the
two copies in memory always agree.

The setting library's model shows three things that its header says otherwise or not at
all.  `tts_setting_initialize` reports every failure but a missing engine as
`TTS_SETTING_ERROR_TIMED_OUT`, "No answer from TTS daemon" (`tts_setting.h:41`), also when
the daemon answered three times that it refuses a pid that it has registered: so it ends
for an application whose first initialize was late and for a pid that was used before,
and nothing but a restart of the daemon removes that registration
(`NothingRegisteredBehind` excepts it).  A
second initialize returns success where the header lists
`TTS_SETTING_ERROR_INVALID_STATE` (`tts_setting.h:144`).  A finalize without answer is a
success to the application, and its request is still in the queue; the next initialize
comes after it, which is why `ReadyIsRegistered` holds all the same.

The session's model shows what `NothingLeftBehind` and `SweepSparesTheResponsive` have
to except.  A client that is blocked in a request of its own, up to 5 s, cannot answer
a hello, for which the daemon waits 3 s and takes silence for absence
(`ttsd_dbus.c:67`): the sweep ends the session of a living client.  Requests that
arrive while the daemon waits for a hello are kept, and the first of them is lost
afterwards: its caller gets an error.  A failed or late finalize leaves the session, and the
next prepare is refused until the sweep has come by, which for a living handle it never
does.

The agent's model also shows behaviour that nothing in the repository rules out and
that is therefore no finding: a torn configuration costs one start, which writes
`(null)` values and crashes on copying a null string, so that the second start
succeeds; a repeated request for the engine that has just failed to load answers
success without loading or storing it (`ttsd_engine_agent.c:1216`); after a
failed change a text with a voice of its own is checked by functions of a closed
plug-in.

## Proofs

All theorems hold for every set of clients, every bound and every choice of
requests; the assumptions are those `TtsdServer` states on its constants
(`NoUidAssumption` is the one that matters; TLC evaluates all of them).

- `TypeCorrect`: `Spec => []TypeOK`.  Lemmas first for each operator on `App` and
  `Player`, then one step per action.
- `FocusIsSafe`: `Spec => []FocusInv`, where `FocusInv` is `OnePlayingClient`,
  `PlayingInfoIsAlive`, `StreamBelongsToActiveClient` and `SilentUnlessPlaying`.
  The first three are not inductive alone.  A next-sound timer left from before a
  pause could start a sound of a client that lost the player, so
  `SilentUnlessPlaying` also bounds what a pending timer can find
  (`TimerIsHarmless`): that is where the scheduling (`due`) is used.  The proof
  sorts the actions into eight shapes by what they do to client states, players
  and `playing`; each shape preserves the invariant, each action has a shape.
  `OneClientPlays`, `PlayingInfoNeverDangles`, `StreamsAreOwned`, `OthersAreSilent` and
  `OnlyHolderIsHeard` follow.
- `ImplementsFocus`: `Spec => FocusSpec`, shape by shape, with the mapping
  `sess = [u |-> app[u].state]` and `sounding = {u : IsAudible(player[u])}`.
- `EngineIsBusyAsKnown`, `StoppedSpeechStaysSilent`: without late results.  The
  invariant needs that the engine works only for a client that plays or was
  paused, on an utterance younger than its last stop, and that all queued texts
  are younger (`SoundInv`).  `server_late_sound` shows that the assumption is necessary.
- `NobodyIsSilentlyDeprived`: under every fault.  `ToldInv` adds that a client told
  PLAYING is still registered, because the interrupt timer tells registered
  clients only.  `EngineIsLoadedForUsers`: an action property; the shapes of
  `TtsdServerFocusProofs` say that only initialize and finalize change the users.
- `UtterancesStartInOrder`: an utterance is announced as started only after every older one.
  From `add_text` to the announcement its id passes through five places: the texts
  (`Lined`), the synthesis under way (`Doing`), the sounds, the item of the player, and
  what the client heard.  `SpeechInv` reads them as one line per client (`Line`), ordered
  and all of it younger than what was announced (`Ahead`).  `Timely` is where the scheduling
  comes in: a next-sound timer waits at the end of a stream, or was left by a stop that
  no request has followed, so it never meets a player that is busy with the next sound;
  `Served` says that clients have an engine, without which a text would be in
  synthesis that nobody answers.
  The theorem assumes no late results: a result of a
  cancelled synthesis puts an old id behind younger ones, and TLC refutes the property then.
- `CompletedFollowsStarted`: `CompletedWasStarted` in two cases.  An engine that delivers each
  utterance in one result: `WholeInv`, under every fault, because the player announces the start of
  each such sound itself.  An engine that delivers as it likes, some in parts and
  some not (`Careful`): a start is
  announced for the first part only, so `Parts` adds to `SpeechInv` that each sound
  continues the utterance of the one before it or begins a later one (`Succeeds`), from what was
  announced (`Past`, `Announced`) through the player (`Begun`) and the sounds to the synthesis
  (`Latest`).  There the faults allowed are a
  refused voice, a missing network and a player that cannot be created.  TLC refutes the property
  with parts and a failing `mm_player`, an unknown audio format or late results.
  With a failing synthesis or load the invariant does not hold, since `Timely` and `Served`
  are false after an engine refuses a text, so these two faults are not in the theorem.
- `EngineAgentProofs`: for any engines, voice lists, users and faults.  `AgentInv` joins
  `AgentTypeOK`, `DefaultVoiceIsSupported`, `AcceptedTextStaysSelectable`,
  `RestartKeepsSettings` and `LoadedForUsers`.  The last is what the others need to be
  inductive: an engine is loaded only while somebody uses it and through its own
  functions, so a first user always finds it unloaded, and nobody who left or died has
  texts waiting.  `AcceptedTextIsNotRefused` rests on `SelectableForAnyDefault`: which
  of its voices is an engine's default does not decide what it can be asked for.
  `LoadResult` says once what a load leaves behind, whatever it was called with, and
  each lemma on a save that the file is up to date afterwards or the save failed (`UpToDate`).
  `AgentTypeCorrect`, `DefaultVoiceCanSpeak`, `AcceptedTextIsNotRefused` and
  `SettingsSurviveRestart` follow; `OnlyWorkingEngineIsStored` is an action property
  proved action by action from the invariant.  `RequestsAreHonoured` needs that the
  scans of the voice list find a match when there is one: the code takes the first or
  the last, the lemmas `LeastExists` and `GreatestExists` say that there is such an index
  (by the least-element theorem of the well-founded order on the naturals), and the
  invariant supplies a default voice that the engine has.  The assumptions are those
  `VoiceSelect` and `EngineAgent` state (an engine lists voices with a type other than
  0; the shipped configuration is well-formed).
- `TtsSessionProofs`: for any finite set of handles, any bounds, failures and other
  applications; the run checks one handle.  `SessionTypeCorrect` first shows that
  what is taken from either end of the bus is a message; its invariant adds
  `Connecting`, that the timer of `tts_prepare` is pending while its requests block,
  without which ending them could count a timer below zero.  `AppKnowsState` is
  inductive over the types.  `CallbackReportsUtterance` is not: `UtteranceIsDue` adds
  that a pending started or completed callback keeps the listener from
  running, which is where the scheduling (`due`) is used, and that a handle not created
  yet has none pending.  `AppAlwaysKnowsState` and `CallbackAlwaysReportsUtterance` follow.
  The assumption on `Handle` is that it is finite, which `ServeEngine` needs to go
  through the sessions in some order.
- `NothingStaysBehind`, in the same module: a handle that is CREATED or freed has no
  session.  Whether one is left depends on what is on the bus, so `LeftInv` relates four
  places.  `Entries`: of the requests that the daemon kept or has not read, at most one is
  still waited for, and it is the one that blocks; an initialize that nobody waits for any more
  has spoiled its handle, so it may open a session late.  `Replies`: there is at most one
  answer on the wire, and only after the daemon decided it.  `Carried`: no message says
  CREATED, so only the handle's own calls bring it back there.  `Owns`: a session belongs
  to a handle that is not CREATED, or whose initialize was answered and not yet
  read; while unprepare or destroy blocks, the session is there only until
  the answer.  Each step moves requests (`AwaitedRest` of `DBusQueueProofs`), answers them, or
  changes one handle; `LeftKept` joins the cases.
- `SweepSparesResponsive`, in the same module: the sweep ends the session of a living
  handle only if its process was blocked in a request or had other messages to take
  first.  The daemon's silence test looks at a time that passed, the property at the
  application; `SweepInv` relates them.  `One`: at most one hello is under way or
  one answer to it, of the handle that is greeted.  `Fresh`: unless the application was
  stalled, the hello is first on its wire or was answered yes.  `Unborn`: nobody asks for a
  handle that was never created, so a session's handle exists and says yes while it lives.
  Counting the hellos in a queue needs the lemmas on marks of `DBusQueueProofs`
  (`JoinedMarks`, `TailMarks`, `WithoutMarks`, `ChangedMarks`).
- `TtsSettingProofs`: for any set of applications, any values, bounds, failures and
  restarts.  None of the four safety properties is inductive: each is about what is in
  the queue.  `SettingInv` says of each application: what its call waits for is its last
  request (`Waits`); nothing that needs a registration is behind a finalize, and no
  finalize is left while it is READY (`Orders`); whoever has something to ask is registered
  or was forgotten (`Registered`); a registration without an application that is READY
  has an initialize under way or spoiled (`Tidy`); no set is left of one that was
  reported (`Reports`).  The steps of the applications preserve it because they append;
  those of the daemon because `Taken` drops from the front only (`TakenFirst`).
  `ReadyAreRegistered`, `RequestsAreExpected`, `NothingStaysRegistered`,
  `NoSetComesLate` and `SettingTypeCorrect` follow.
- `DBusQueueProofs` states once, for both ends and all modules, that what is taken from a
  queue was in it, that the rest keeps its order, and what taking, adding and removing
  do to the number of messages of a kind.

Each of these invariants was checked by TLC on a small instance before it was proved.
The line of utterances: one client with three texts, every fault but late results, both
kinds of delivery.  The parts, both kinds of delivery mixed: the same client with the
three faults named, and two clients with two texts each in a healthy environment.  The sweep: the instance of `session_core`, completely (498,696
states), and part of an instance with two handles.

Only model-checked: the liveness properties `TextIsSynthesized`, `InterruptedIsTold`,
`SoundIsPlayed`, `DaemonComesBack`, `GoneIsForgotten` and `AsyncIsAnswered`.  TLAPS has
no reasoning about fairness here.

## Not modelled

- `common/` and the headers have constants and log macros only.
- Of `ttsd_network.c` the notifications of the system: a run has the fault `network` or not.
- Starting a daemon is one step (`starting`); `ps`, `fork` and `exec` are not looked at.
- `ttsd_data_foreach_clients` walks by an index it read before its callback deletes
  entries (`ttsd_data.cpp:425`); the sweep of `TtsSession` is over a set.
- The wraps of utterance ids and handles (`tts.c:412`, `tts_client.c:29`) need thousands of
  texts or handles; the models stop before them.
- The messages of several handles of a process, and clients together with setting
  applications in one queue: each model sees the other's requests as those of others.

## Plan

1. Done: the playback core, its abstract specification, its proofs.
2. Done: `VoiceSelect` and `EngineAgent`, their runs and proofs.
3. Done: `TtsClient` and `TtsSession`, with their runs; all invariants proved.
4. Done: `DBusQueue` and `TtsSetting`, its run and its proofs.
5. Done: announcements in order, and the sweep (`SweepSparesResponsive`).
6. Left to prove: `CompletedFollowsStarted` with parts and a failing synthesis or load,
   which needs a weaker `Timely`.
7. Left to model: the previous state that the state callback gets; sessions of several
   handles in one process.
