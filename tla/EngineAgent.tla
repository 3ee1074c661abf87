------------------------------ MODULE EngineAgent ------------------------------
(***************************************************************************)
(* The engine agent of tts-daemon with the stored configuration:           *)
(* server/ttsd_engine_agent.c and ttsd_config.c, driven by the requests of *)
(* ttsd_server.cpp that use them.  Which engine is chosen, when it is      *)
(* loaded, which voice is the default, what of it is on disk, and which    *)
(* texts are accepted for it.  What the playback core does with an engine  *)
(* that is loaded is the subject of TtsdServer.                            *)
(*                                                                         *)
(* A request is handled to the end before the next one, so it is one       *)
(* action, save that the process may be killed in it ("crash").            *)
(* External: the engine plug-ins (ttsp.h), the directory they are in.      *)
(***************************************************************************)
EXTENDS VoiceSelect, FiniteSets

CONSTANTS
  Engine,      \* engine plug-ins, by uuid
  VoicesOf,    \* the voices of an engine, in the order it lists them
  NoEngine,    \* a null uuid, and its "(null)" in the stored file
  Unmapped,    \* the functions of a plug-in that has been closed
  Shipped,     \* the contents of the installed ttsd.conf
  Client,      \* applications' tts handles
  SettingApp,  \* setting applications
  Asked,       \* the voices that texts ask for in this run
  Speed,       \* the speeds a setting application chooses from
  Faults,      \* what goes wrong in a run
  MaxTexts,    \* bound: different voice requests waiting per client
  MaxCrashes   \* bound: how often the daemon is killed

Conf == [engine: Engine \cup {NoEngine}, voice: Voice, speed: Nat]
FaultKind == {"load", "crash", "engines", "save"}

ASSUME EngineAssumption == NoEngine \notin Engine /\ Unmapped \notin Engine
ASSUME VoicesAssumption ==
  VoicesOf \in [Engine -> Seq([lang: Lang, type: Nat \ {AutoType}])]
ASSUME ShippedAssumption == Shipped \in Conf
ASSUME AskedAssumption == Asked \subseteq VoiceRequest
ASSUME SpeedAssumption == Speed \subseteq Nat
ASSUME AgentFaultsAssumption == Faults \subseteq FaultKind
ASSUME AgentBoundsAssumption == MaxTexts \in Nat /\ MaxCrashes \in Nat

VARIABLES
  up,        \* the daemon is running
  installed, \* the engines in the plug-in directories
  stored,    \* ttsd.conf; the shipped one while it is missing
  conf,      \* g_engine_id, g_language and g_vc_type, g_speed
  list,      \* g_engine_list
  isEngine,  \* g_is_engine
  cur,       \* g_cur_engine
  clients,   \* g_app_list
  settings,  \* g_setting_list
  pending,   \* the voices asked for by the texts that wait, per client
  crashes    \* how often the daemon was killed

agentVars == <<list, isEngine, cur, conf, stored>>
userVars == <<clients, settings, pending>>
vars == <<up, installed, stored, conf, list, isEngine, cur, clients, settings,
          pending, crashes>>

(* The file as fopen "w+" leaves it until fclose is "torn": empty.         *)
(* current is history: FALSE when the last save of this process failed.    *)
Stored == [kind: {"missing", "torn", "whole"}, conf: Conf, current: BOOLEAN]

(* ttsengine_s.  funcs says whose functions pefuncs holds: none yet, those *)
(* of an engine, or those of one that has been closed.                     *)
CurEngine == [engine: Engine \cup {NoEngine}, loaded: BOOLEAN,
              funcs: Engine \cup {NoEngine, Unmapped}, voice: Voice, speed: Nat]

AgentTypeOK ==
  /\ up \in BOOLEAN
  /\ installed \subseteq Engine
  /\ stored \in Stored
  /\ conf \in Conf
  /\ list \subseteq Engine
  /\ isEngine \in BOOLEAN
  /\ cur \in CurEngine
  /\ clients \subseteq Client
  /\ settings \subseteq SettingApp
  /\ pending \in [Client -> SUBSET VoiceRequest]
  /\ crashes \in Nat

(* The memory of a process that has not read its configuration.            *)
NullConf == [engine |-> NoEngine, voice |-> [lang |-> NoLang, type |-> 1],
             speed |-> 3]
NullEngine == [engine |-> NoEngine, loaded |-> FALSE, funcs |-> NoEngine,
               voice |-> NullConf.voice, speed |-> NullConf.speed]
NoTexts == [c \in Client |-> {}]

Init ==
  /\ up = FALSE
  /\ installed \in SUBSET Engine
  /\ stored = [kind |-> "missing", conf |-> Shipped, current |-> TRUE]
  /\ conf = NullConf
  /\ list = {}
  /\ isEngine = FALSE
  /\ cur = NullEngine
  /\ clients = {}
  /\ settings = {}
  /\ pending = NoTexts
  /\ crashes = 0

-------------------------------------------------------------------------------
(* Helpers.                                                                *)

(* ttsd_data_get_client_count is not zero.                                 *)
HasUsers == clients # {} \/ settings # {}

(* is_valid_voice of an engine.                                            *)
Supports(e, v) == \E i \in DOMAIN VoicesOf[e] : VoicesOf[e][i] = v

Saved(k) == [kind |-> "whole", conf |-> k, current |-> TRUE]
Torn == [kind |-> "torn", conf |-> NullConf, current |-> FALSE]
Unwritten(s) == [s EXCEPT !.current = FALSE]

(* __ttsd_config_save with the values of k, over the file s: what it may    *)
(* leave.  It fails when the file cannot be opened; that it cannot be       *)
(* written (fprintf, fclose) is not looked at.  Nobody learns of either:    *)
(* the setters of ttsd_config.c return 0.                                   *)
Writes(k, s) ==
  {Saved(k)} \cup (IF "save" \in Faults THEN {Unwritten(s), Torn} ELSE {})

(* The process ends and leaves the file s.                                 *)
Die(s) ==
  /\ up' = FALSE
  /\ stored' = s
  /\ conf' = NullConf
  /\ list' = {}
  /\ isEngine' = FALSE
  /\ cur' = NullEngine
  /\ clients' = {}
  /\ settings' = {}
  /\ pending' = NoTexts
  /\ UNCHANGED installed

(* ttsd_engine_agent_initialize_current_engine, the choice: the configured *)
(* engine if it is in the list that was just read, or else the first one,  *)
(* whichever readdir gives first, and that one is stored.                  *)
Candidates(k) == IF k.engine \in installed THEN {k.engine} ELSE installed
Adopted(k, e) == [k EXCEPT !.engine = e]
AdoptedFiles(k, e, s) == IF k.engine = e THEN {s} ELSE Writes(Adopted(k, e), s)

(* Mutant of UsableVoice: the default voice is not checked.                *)
VoiceUnchecked(c) == c.voice

(* ttsd_engine_agent_load_current_engine, the default voice: when the      *)
(* engine does not have it, the engine's first voice takes its place ...    *)
UsableVoice(c) ==
  IF Supports(c.engine, c.voice) THEN c.voice ELSE VoicesOf[c.engine][1]

(* Mutant of LoadedFiles: the new default is not written to the file.      *)
LoadedFilesUnsaved(c, k, s) == {s}

(* ... and is stored.                                                      *)
LoadedConf(c, k) ==
  IF UsableVoice(c) = c.voice THEN k ELSE [k EXCEPT !.voice = UsableVoice(c)]
LoadedFiles(c, k, s) ==
  IF UsableVoice(c) = c.voice THEN {s} ELSE Writes(LoadedConf(c, k), s)

LoadsAs(c) ==
  /\ c.engine \in installed /\ VoicesOf[c.engine] # <<>>
  /\ cur' = [c EXCEPT !.loaded = TRUE, !.funcs = c.engine,
                      !.voice = UsableVoice(c)]

LoadSucceeds(c, k, s) ==
  /\ LoadsAs(c)
  /\ conf' = LoadedConf(c, k)
  /\ stored' \in LoadedFiles(c, k, s)

(* dlopen fails, or the engine was opened and then fails in                *)
(* ttsp_load_engine, in initialize or because it has no voice.             *)
LoadFails(c, k, s) ==
  /\ \/ /\ c.engine \notin installed \/ "load" \in Faults
        /\ cur' = c
     \/ /\ c.engine \in installed
        /\ "load" \in Faults \/ VoicesOf[c.engine] = <<>>
        /\ cur' = [c EXCEPT !.funcs = c.engine]
  /\ conf' = k
  /\ stored' = s

(* ttsd_engine_agent_load_current_engine for the engine c, configuration k *)
(* and file s.  Its callers never find the engine loaded already.          *)
Load(succeeds, c, k, s) ==
  \/ succeeds /\ LoadSucceeds(c, k, s)
  \/ ~succeeds /\ LoadFails(c, k, s)

(* ttsd_engine_agent_unload_current_engine                                 *)
Unloaded(c) ==
  IF c.loaded THEN [c EXCEPT !.loaded = FALSE, !.funcs = Unmapped] ELSE c

-------------------------------------------------------------------------------
(* Start of the daemon: ttsd_initialize.                                   *)

(* Mutant of StartFromTorn: nothing is written for an unreadable file.      *)
StartFromTornKeeps ==
  /\ ~up /\ stored.kind = "torn"
  /\ UNCHANGED vars

(* The file has no engine id: __ttsd_config_load writes one with the null  *)
(* values it has, if it can, and fails; ttsd_engine_agent_init then copies  *)
(* a null language, and the process crashes.                               *)
StartFromTorn ==
  /\ ~up /\ stored.kind = "torn"
  /\ stored' \in Writes(NullConf, stored)
  /\ UNCHANGED <<up, installed, conf, list, isEngine, cur, userVars, crashes>>

(* The configuration is read, the engines are listed, one is chosen.       *)
Start ==
  /\ ~up /\ stored.kind # "torn"
  /\ up' = TRUE
  /\ list' = installed
  /\ isEngine' = (installed # {})
  /\ LET k == stored.conf
         s == [stored EXCEPT !.current = TRUE]
         c == [NullEngine EXCEPT !.voice = k.voice, !.speed = k.speed]
     IN \/ /\ installed = {}
           /\ cur' = c /\ conf' = k /\ stored' = s
        \/ \E e \in Candidates(k) :
             /\ cur' = [c EXCEPT !.engine = e]
             /\ conf' = Adopted(k, e)
             /\ stored' \in AdoptedFiles(k, e, s)
  /\ UNCHANGED <<installed, userVars, crashes>>

-------------------------------------------------------------------------------
(* Users come and go.                                                      *)

(* What ttsd_server_initialize and ttsd_server_setting_initialize do       *)
(* before they register a user: choose an engine if there was none (then   *)
(* nobody is registered yet), load it for the first user.                  *)
PrepareEngine(succeeds) ==
  \/ /\ isEngine /\ HasUsers /\ succeeds
     /\ UNCHANGED agentVars
  \/ /\ isEngine /\ ~HasUsers
     /\ Load(succeeds, cur, conf, stored)
     /\ UNCHANGED <<list, isEngine>>
  \/ /\ ~isEngine /\ installed = {} /\ ~succeeds
     /\ list' = {}
     /\ UNCHANGED <<isEngine, cur, conf, stored>>
  \/ /\ ~isEngine
     /\ list' = installed /\ isEngine' = TRUE
     /\ \E e \in Candidates(conf) : \E s \in AdoptedFiles(conf, e, stored) :
          Load(succeeds, [cur EXCEPT !.engine = e], Adopted(conf, e), s)

ServerInitialize(c) ==
  /\ up /\ c \notin clients
  /\ \E succeeds \in BOOLEAN :
       /\ PrepareEngine(succeeds)
       /\ clients' = IF succeeds THEN clients \cup {c} ELSE clients
  /\ UNCHANGED <<up, installed, settings, pending, crashes>>

SettingInitialize(a) ==
  /\ up /\ a \notin settings
  /\ \E succeeds \in BOOLEAN :
       /\ PrepareEngine(succeeds)
       /\ settings' = IF succeeds THEN settings \cup {a} ELSE settings
  /\ UNCHANGED <<up, installed, clients, pending, crashes>>

(* ttsd_server_finalize: the texts go with the client.                     *)
ServerFinalize(c) ==
  /\ c \in clients
  /\ clients' = clients \ {c}
  /\ pending' = [pending EXCEPT ![c] = {}]
  /\ cur' = IF clients = {c} /\ settings = {} THEN Unloaded(cur) ELSE cur
  /\ UNCHANGED <<up, installed, stored, conf, list, isEngine, settings, crashes>>

SettingFinalize(a) ==
  /\ a \in settings
  /\ settings' = settings \ {a}
  /\ cur' = IF settings = {a} /\ clients = {} THEN Unloaded(cur) ELSE cur
  /\ UNCHANGED <<up, installed, stored, conf, list, isEngine, clients, pending,
                 crashes>>

-------------------------------------------------------------------------------
(* Texts.                                                                  *)

(* ttsd_server_add_queue, the check of the voice.  It asks the functions   *)
(* that pefuncs holds whether or not the engine is loaded; one that opened *)
(* and failed to load may answer or refuse, and so may one that has been   *)
(* closed if the loader still keeps it mapped.                             *)
AddText(c, r) ==
  /\ c \in clients
  /\ Cardinality(pending[c] \cup {r}) <= MaxTexts
  /\ \/ IsDefaultRequest(r)
     \/ cur.funcs \in Engine /\ IsSelectable(VoicesOf[cur.funcs], cur.voice, r)
     \/ cur.funcs = Unmapped
  /\ pending' = [pending EXCEPT ![c] = @ \cup {r}]
  /\ UNCHANGED <<up, installed, agentVars, clients, settings, crashes>>

(* The same when pefuncs points into a plug-in that is no longer mapped.   *)
AddTextCrash(c, r) ==
  /\ c \in clients
  /\ ~IsDefaultRequest(r) /\ cur.funcs = Unmapped
  /\ Die(stored)
  /\ UNCHANGED crashes

(* A text leaves the queue: it is synthesized, or it is stopped.           *)
TakeText(c, r) ==
  /\ r \in pending[c]
  /\ pending' = [pending EXCEPT ![c] = @ \ {r}]
  /\ UNCHANGED <<up, installed, agentVars, clients, settings, crashes>>

-------------------------------------------------------------------------------
(* Requests of setting applications.                                       *)

(* ttsd_engine_setting_get_engine_list: reads the directories again.       *)
GetEngineList ==
  /\ settings # {}
  /\ list' = installed
  /\ UNCHANGED <<up, installed, stored, conf, isEngine, cur, userVars, crashes>>

(* Mutant of ChangeEngine: the choice is stored before the engine loads.   *)
ChangeEngineEarly(e) ==
  \E succeeds \in BOOLEAN, s \in Writes(Adopted(conf, e), stored) :
     Load(succeeds, [Unloaded(cur) EXCEPT !.engine = e], Adopted(conf, e), s)

(* ttsd_engine_setting_set_engine with another engine that is in the list: *)
(* it is stored after it loaded, and after its first voice if that became  *)
(* the default; if it fails it stays the current one, not loaded, and      *)
(* nothing is stored.                                                      *)
ChangeEngine(e) ==
  LET c == [Unloaded(cur) EXCEPT !.engine = e]
      k == Adopted(LoadedConf(c, conf), e)
  IN \/ Load(FALSE, c, conf, stored)
     \/ /\ LoadsAs(c)
        /\ conf' = k
        /\ \E s \in LoadedFiles(c, conf, stored) : stored' \in Writes(k, s)

(* Mutants of ClearedTexts: the texts stay for the new engine; the table is *)
(* made anew for the registered clients only.                              *)
KeptTexts == pending
RegisteredTexts == [c \in clients |-> {}]

(* ttsd_server_setting_set_current_engine drops the texts of all clients.  *)
ClearedTexts == NoTexts

(* ttsd_server_setting_set_current_engine.  Nothing happens for the loaded *)
(* engine; one that is current and not loaded is not loaded either; for an *)
(* unknown one the current engine is unloaded and loaded again.            *)
SetCurrentEngine(e) ==
  /\ settings # {}
  /\ ~(cur.loaded /\ cur.engine = e)
  /\ pending' = ClearedTexts
  /\ \/ cur.engine = e /\ UNCHANGED <<cur, conf, stored>>
     \/ cur.engine # e /\ e \in list /\ ChangeEngine(e)
     \/ /\ cur.engine # e /\ e \notin list
        /\ \E succeeds \in BOOLEAN : Load(succeeds, Unloaded(cur), conf, stored)
  /\ UNCHANGED <<up, installed, list, isEngine, clients, settings, crashes>>

(* ttsd_engine_setting_set_default_voice                                   *)
SetDefaultVoice(v) ==
  /\ settings # {} /\ cur.loaded
  /\ Supports(cur.engine, v)
  /\ cur' = [cur EXCEPT !.voice = v]
  /\ conf' = [conf EXCEPT !.voice = v]
  /\ stored' \in Writes([conf EXCEPT !.voice = v], stored)
  /\ UNCHANGED <<up, installed, list, isEngine, userVars, crashes>>

(* ttsd_engine_setting_set_default_speed                                   *)
SetDefaultSpeed(s) ==
  /\ settings # {} /\ cur.loaded
  /\ cur' = [cur EXCEPT !.speed = s]
  /\ conf' = [conf EXCEPT !.speed = s]
  /\ stored' \in Writes([conf EXCEPT !.speed = s], stored)
  /\ UNCHANGED <<up, installed, list, isEngine, userVars, crashes>>

-------------------------------------------------------------------------------
(* The environment.                                                        *)

Killed == "crash" \in Faults /\ crashes < MaxCrashes /\ crashes' = crashes + 1

Crash == up /\ Killed /\ Die(stored)

(* Killed while a setting is being written: the file is still empty.       *)
CrashInSave ==
  /\ settings # {} /\ cur.loaded
  /\ Killed
  /\ Die(Torn)

(* Killed in the change to engine e between the two writes: its first      *)
(* voice is stored as the default, the engine is not.                      *)
CrashInChange(e) ==
  /\ settings # {} /\ e \in list \cap installed /\ cur.engine # e
  /\ ~Supports(e, cur.voice) /\ VoicesOf[e] # <<>>
  /\ Killed
  /\ \E s \in Writes([conf EXCEPT !.voice = VoicesOf[e][1]], stored) : Die(s)

Install(e) ==
  /\ "engines" \in Faults
  /\ e \notin installed
  /\ installed' = installed \cup {e}
  /\ UNCHANGED <<up, agentVars, userVars, crashes>>

Uninstall(e) ==
  /\ "engines" \in Faults
  /\ e \in installed
  /\ installed' = installed \ {e}
  /\ UNCHANGED <<up, agentVars, userVars, crashes>>

-------------------------------------------------------------------------------
ClientRequest(c) ==
  \/ ServerInitialize(c) \/ ServerFinalize(c)
  \/ \E r \in Asked : AddText(c, r) \/ AddTextCrash(c, r) \/ TakeText(c, r)

SettingRequest ==
  \/ \E a \in SettingApp : SettingInitialize(a) \/ SettingFinalize(a)
  \/ GetEngineList
  \/ \E e \in Engine : SetCurrentEngine(e)
  \/ \E e \in Engine : \E i \in DOMAIN VoicesOf[e] : SetDefaultVoice(VoicesOf[e][i])
  \/ \E s \in Speed : SetDefaultSpeed(s)

Environment ==
  \/ Crash \/ CrashInSave
  \/ \E e \in Engine : CrashInChange(e) \/ Install(e) \/ Uninstall(e)

Next ==
  \/ Start \/ StartFromTorn
  \/ \E c \in Client : ClientRequest(c)
  \/ SettingRequest
  \/ Environment

Spec == Init /\ [][Next]_vars

(* The client library starts the daemon when it finds none running          *)
(* (tts_prepare), and an application that needs it keeps asking.  A start   *)
(* from an empty file that cannot write it changes nothing, so this also    *)
(* says that the file can be written some time.                             *)
FairSpec == Spec /\ WF_vars(Start \/ StartFromTorn)

-------------------------------------------------------------------------------
(* Properties.                                                             *)

(* A loaded engine has the default voice, which all texts without a voice   *)
(* of their own are spoken in: through changes of the engine, of the voice, *)
(* restarts, and a stored voice that belongs to another engine.             *)
DefaultVoiceIsSupported == cur.loaded => Supports(cur.engine, cur.voice)

(* A text that was accepted (ttsd_server_add_queue) will not be refused     *)
(* with INVALID_VOICE when its turn comes (ttsd_engine_start_synthesis),    *)
(* although the default voice and the engine may have changed meanwhile.    *)
AcceptedTextStaysSelectable ==
  cur.loaded =>
    \A c \in clients : \A r \in pending[c] :
      IsSelectable(VoicesOf[cur.engine], cur.voice, r)

(* What a restart would read is what the daemon works with: the engine      *)
(* agent's defaults, the configuration module's and the file never drift    *)
(* apart, save that a save failed, of which nobody learns (ttsd_config.c);  *)
(* the next save that succeeds then writes what was lost as well.           *)
UpToDate(s, k) == s.current => s.kind # "torn" /\ s.conf = k

RestartKeepsSettings ==
  up => /\ UpToDate(stored, conf)
        /\ cur.voice = conf.voice /\ cur.speed = conf.speed

(* The stored engine is replaced only by one that has just loaded, or by    *)
(* one found at start-up because the stored one is not installed: a change  *)
(* that fails never reaches the file.  (After a failed save, a later one    *)
(* also brings the engine that was not stored then.)                        *)
StoredEngineWorks ==
  [][up /\ up' /\ stored.current
     /\ stored'.kind = "whole" /\ stored'.conf.engine # stored.conf.engine
       => /\ cur'.engine = stored'.conf.engine
          /\ cur'.loaded \/ stored.conf.engine \notin installed]_vars

(* A voice request is honoured as far as the engine can: the exact voice    *)
(* (with the defaults filled in) when there is one; the language that was   *)
(* asked for in any case.                                                   *)
Exact(r) == [lang |-> IF r.lang = DefaultLang THEN cur.voice.lang ELSE r.lang,
             type |-> IF r.type = AutoType THEN cur.voice.type ELSE r.type]

SelectionHonoursRequest ==
  cur.loaded =>
    \A r \in Asked :
      LET v == SelectedVoice(VoicesOf[cur.engine], cur.voice, r) IN
      IsSelectable(VoicesOf[cur.engine], cur.voice, r) =>
        /\ Supports(cur.engine, Exact(r)) => v = Exact(r)
        /\ r.lang # DefaultLang => v.lang = r.lang /\ Supports(cur.engine, v)

(* tts_add_text answers TTS_ERROR_INVALID_VOICE for an "Invalid voice about *)
(* language, voice type" (tts.h): a text that was accepted is given to the  *)
(* engine in a voice that the engine has.                                   *)
AcceptedVoiceIsSupported ==
  cur.loaded =>
    \A c \in clients : \A r \in pending[c] :
      Supports(cur.engine, SelectedVoice(VoicesOf[cur.engine], cur.voice, r))

(* The daemon comes back after it was killed, whatever the kill left in the *)
(* file: a file without contents costs one more start.                      *)
DaemonComesBack == ~up ~> up
===============================================================================
